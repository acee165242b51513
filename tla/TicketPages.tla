---------------------------- MODULE TicketPages ----------------------------
(***************************************************************************)
(* The queue read page by page while others work: one reader follows the   *)
(* cursors of one list, through a saved view or not, tickets are touched   *)
(* and the view's owner edits or removes it.                               *)
(*                                                                         *)
(* A page starts after the last row of the page before it, told by the     *)
(* cursor: a time and an id.  Times have the database's precision in the   *)
(* rows and a coarser one in the cursor, which goes through the rows as    *)
(* the driver parses them: two instants make one tick of the cursor.       *)
(***************************************************************************)
EXTENDS Integers, FiniteSets, FiniteSetsExt

CONSTANTS Listed,   \* the tickets, numbered: their ids in the order of the index
          PageSize, \* rows of a page
          MaxShown,   \* bound: a list can repeat a page for ever
          None

VARIABLES
  rows,      \* acct.tickets: created, updated, priority and whether the filter matches
  view,      \* acct.saved_views: sort, share, the group shared with, version, removed
  query,     \* what the reader asks for: its own sort or None, and whether by the view
  cursor,    \* None before the first page, else the tick and the id
  listing,   \* "first" before the first page, "more" after it, "over", "gone" without the view
  pages,     \* how often each ticket was on a page
  touched,   \* tickets changed since the first page
  coarse,    \* history: a page ended inside a tick others of the list share
  misled,    \* history: a cursor was made of another column than it is compared with
  resorted   \* history: the view's sort was changed since the first page

pagesVars == <<rows, view, query, cursor, listing, pages, touched, coarse, misled, resorted>>

Sorts == {"updated_desc", "created_desc", "priority"}
Shares == {"private", "group", "account"}
Tick(instant) == instant \div 2

PagesInit ==
  /\ rows \in [Listed -> [created : {2, 3, 4}, updated : {5}, priority : {1, 2}, matches : {TRUE}]]
  /\ \A t \in Listed : /\ t = Min(Listed) => rows[t].created = 3
                       /\ rows[t].priority = 2 => t = Max(Listed)
  /\ view \in [sort : Sorts \cup {None}, share : {"private"}, with : {None}, version : {1},
               removed : {FALSE}]
  /\ query \in [sort : Sorts \cup {None}, viewed : BOOLEAN]
  /\ ~query.viewed => view.sort = None
  /\ cursor = None
  /\ listing = "first"
  /\ pages = [t \in Listed |-> 0]
  /\ touched = {}
  /\ coarse = FALSE
  /\ misled = FALSE
  /\ resorted = FALSE

-----------------------------------------------------------------------------
\* The sort of the query, else of its view, else the last change first.
Sorted ==
  IF query.sort # None THEN query.sort
  ELSE IF query.viewed /\ view.sort # None THEN view.sort ELSE "updated_desc"

Column(t, sort) == IF sort = "created_desc" THEN rows[t].created ELSE rows[t].updated

Before(s, t, sort) ==
  LET later == \/ Column(s, sort) > Column(t, sort)
               \/ Column(s, sort) = Column(t, sort) /\ s > t
  IN IF sort = "priority"
       THEN \/ rows[s].priority < rows[t].priority
            \/ rows[s].priority = rows[t].priority /\ later
       ELSE later

\* Rows compare with the cursor's tick as with its first instant.
AfterCursor(t, sort) ==
  \/ cursor = None
  \/ sort = "priority"
  \/ Column(t, sort) < 2 * cursor.tick
  \/ Column(t, sort) = 2 * cursor.tick /\ t < cursor.id

Rest(sort) == {t \in Listed : rows[t].matches /\ AfterCursor(t, sort)}

Page(sort) ==
  {t \in Rest(sort) : Cardinality({s \in Rest(sort) : Before(s, t, sort)}) < PageSize}

\* The cursor's column is told from the query's own sort, not from the view's.
CursorAt(last) ==
  [tick |-> Tick(Column(last, query.sort)), id |-> last]

ListPage ==
  /\ listing \in {"first", "more"}
  /\ IF query.viewed /\ view.removed
       THEN /\ listing' = "gone"
            /\ UNCHANGED <<cursor, pages, coarse, misled>>
       ELSE LET sort == Sorted
                page == Page(sort)
                hasMore == page # Rest(sort)
                last == CHOOSE t \in page : \A s \in page : s = t \/ Before(s, t, sort)
            IN /\ pages' = [t \in Listed |-> pages[t] + (IF t \in page THEN 1 ELSE 0)]
               /\ \A t \in Listed : pages'[t] <= MaxShown
               /\ listing' = IF hasMore THEN "more" ELSE "over"
               /\ cursor' = IF hasMore THEN CursorAt(last) ELSE None
               /\ coarse' = (coarse \/ (hasMore /\ \E t \in Rest(sort) \ page :
                                        Tick(Column(t, sort)) = Tick(Column(last, sort))))
               /\ misled' = (misled \/ (hasMore /\ Column(last, sort) # Column(last, query.sort)))
  /\ UNCHANGED <<rows, view, query, touched, resorted>>

\* The bound on what others do: one write per list that is read.
Undisturbed == touched = {} /\ view.version = 1 /\ ~view.removed

\* One request writes some tickets, all at one instant: it may move them into
\* or out of the filter.
TouchTickets ==
  /\ listing = "more" /\ Undisturbed
  /\ \E some \in SUBSET Listed \ {{}}, matches \in BOOLEAN :
       LET now == 1 + Max({rows[t].updated : t \in Listed})
       IN /\ rows' = [t \in Listed |-> IF t \in some
                        THEN [rows[t] EXCEPT !.updated = now, !.matches = matches] ELSE rows[t]]
          /\ touched' = touched \cup some
            /\ UNCHANGED <<view, query, cursor, listing, pages, coarse, misled, resorted>>

\* Its owner edits the view; a group is asked for at its creation only.
EditView ==
  /\ query.viewed /\ listing = "more" /\ Undisturbed
  /\ \E sort \in Sorts \cup {None}, share \in Shares, group \in {None, "desk"} :
       /\ group # None => share = "group"
       /\ view' = [view EXCEPT !.sort = sort, !.share = share, !.with = group, !.version = 2]
       /\ resorted' = (resorted \/ sort # view.sort)
  /\ UNCHANGED <<rows, query, cursor, listing, pages, touched, coarse, misled>>

\* Its owner or an administrator removes it.
RemoveView ==
  /\ query.viewed /\ listing = "more" /\ Undisturbed
  /\ view' = [view EXCEPT !.removed = TRUE]
  /\ UNCHANGED <<rows, query, cursor, listing, pages, touched, coarse, misled, resorted>>

PagesNext == ListPage \/ TouchTickets \/ EditView \/ RemoveView

-----------------------------------------------------------------------------
PagesTypeOK ==
  /\ rows \in [Listed -> [created : 2..4, updated : 5..6, priority : {1, 2}, matches : BOOLEAN]]
  /\ view \in [sort : Sorts \cup {None}, share : Shares, with : {None, "desk"}, version : {1, 2},
               removed : BOOLEAN]
  /\ query \in [sort : Sorts \cup {None}, viewed : BOOLEAN]
  /\ cursor \in [tick : Nat, id : Listed] \cup {None}
  /\ listing \in {"first", "more", "over", "gone"}
  /\ pages \in [Listed -> 0..MaxShown]
  /\ touched \subseteq Listed
  /\ coarse \in BOOLEAN /\ misled \in BOOLEAN /\ resorted \in BOOLEAN

Plain == Sorted # "priority" /\ ~misled /\ ~resorted

\* A list that was read to its end showed every matching ticket nobody touched
\* while it was read, unless a page ended inside a tick of the cursor
\* (tickets.service.ts list, tickets.repository.ts list).
ListIsComplete ==
  listing = "over" /\ Plain /\ ~coarse
    => \A t \in Listed \ touched : rows[t].matches => pages[t] = 1

\* Nothing is shown twice that was not touched, and an order by creation is
\* safe from touching too.
ShownOnce ==
  Plain => \A t \in Listed :
    pages[t] > 1 => t \in touched /\ Sorted = "updated_desc"
=============================================================================
