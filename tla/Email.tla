-------------------------------- MODULE Email -------------------------------
(***************************************************************************)
(* One conversation by mail from one address: each message answers those   *)
(* before it, is received as often as the transport delivers it, and is    *)
(* matched to a ticket, turned into one or quarantined; and the decision   *)
(* on a quarantined message.                                               *)
(*                                                                         *)
(* A message is one transaction that starts by claiming its id in          *)
(* sys.inbox; a claim in the making is waited for.  A decision locks the   *)
(* quarantine item.                                                        *)
(*                                                                         *)
(* Mail to the requester of one ticket: the outbox handler that renders    *)
(* and sends one message per event, the reply token of the ticket, the     *)
(* provider's delivery events, and the suppression of an address.          *)
(*                                                                         *)
(* The handler is one transaction, and the mail leaves before it commits.  *)
(* An event may be handled again after a rollback, and by two workers at   *)
(* once; the unique outbox id of outbound_messages decides between them.   *)
(***************************************************************************)
EXTENDS Integers, FiniteSets, FiniteSetsExt, Sequences

CONSTANTS
  Requests, None, MaxMessages, MaxTickets, MailRows, MaxSends, MaxTokens

VARIABLES
  automatic,   \* the messages the loop guard suppresses
  contact,     \* the sender is a contact of the account
  inbox,       \* ids claimed in sys.inbox by committed transactions
  claimant,    \* the uncommitted claim of an id, or None
  received,    \* acct.inbound_messages: disposition and ticket, or None
  ticketsMade, \* tickets created from mail
  commented,   \* committed comments per message
  item,        \* acct.quarantine_items per message: None, "open", "decided"
  itemHolder,  \* the decision that holds the item, or None
  ticketOf,    \* the ticket a decision created from a quarantined message
  mailIn,      \* what each request is working on and has found
  outOfOrder,   \* history: a message was matched before an earlier one was committed
  emailToken,   \* acct.tickets.email_token: 0, or the number of its draw
  tokenHolder,  \* the transaction that wrote it and is not committed, or None
  drawn,        \* how many tokens were drawn
  outbound,     \* acct.outbound_messages per event, or None
  rowHolder,    \* the transaction that inserted the row and is not committed
  wire,         \* per event, the tokens of the mails that left, oldest first
  suppressed,   \* the requester's address is in acct.suppressed_addresses
  bounced,      \* mails <<event, which>> the provider reported as hard bounce or complaint
  reqMail,      \* what each handler has read and written
  lostSends,    \* history: events whose transaction rolled back after a send
  unmatched,    \* history: reports that came before the commit, or for a lost send
  tokenRaced    \* history: two handlers drew a token at the same time

\* None is neither a transaction nor a row, and the bounds are numbers.
MailConstants ==
  /\ MaxMessages \in Nat /\ MaxTickets \in Nat /\ MaxSends \in Nat /\ MaxTokens \in Nat
  /\ None \notin Requests \cup {"open", "decided"}
  /\ \A n \in 0..MaxSends, k \in 0..MaxTokens : None # [which |-> n, token |-> k]
  /\ \A what \in {"suppressed", "appended", "quarantined", "created"}, n \in 0..MaxTickets :
       None # [disposition |-> what, ticket |-> n]

-----------------------------------------------------------------------------
(* Mail that comes in                                                      *)

inboundVars == <<automatic, contact, inbox, claimant, received, ticketsMade, commented, item,
                 itemHolder, ticketOf, mailIn, outOfOrder>>

Messages == 1..MaxMessages
NoTicket == 0
Free == [at |-> "idle", msg |-> 1, match |-> NoTicket, known |-> FALSE]

InboundInit ==
  /\ automatic \in SUBSET Messages
  /\ contact \in BOOLEAN
  /\ inbox = {}
  /\ claimant = [m \in Messages |-> None]
  /\ received = [m \in Messages |-> None]
  /\ ticketsMade = 0
  /\ commented = [m \in Messages |-> 0]
  /\ item = [m \in Messages |-> None]
  /\ itemHolder = [m \in Messages |-> None]
  /\ ticketOf = [m \in Messages |-> NoTicket]
  /\ mailIn = [t \in Requests |-> Free]
  /\ outOfOrder = FALSE

\* Mutant: a second copy of a message is processed like the first.
ClaimableAgain(m) == TRUE
\* on conflict do nothing: a duplicate ends here, an open claim is waited for.
Claimable(m) == m \notin inbox

ClaimInbox(t) ==
  /\ mailIn[t] = Free
  /\ \E m \in Messages :
       /\ Claimable(m)
       /\ claimant[m] = None
       /\ claimant' = [claimant EXCEPT ![m] = t]
       /\ mailIn' = [mailIn EXCEPT ![t] = [Free EXCEPT !.at = "claimed", !.msg = m]]
  /\ UNCHANGED <<automatic, contact, inbox, received, ticketsMade, commented, item, itemHolder,
                 ticketOf, outOfOrder>>

\* The newest earlier message that is received and has a ticket.
Threaded(m) == {n \in 1..(m - 1) : received[n] # None /\ received[n].ticket # NoTicket}
TicketByMessageId(m) ==
  IF Threaded(m) = {} THEN NoTicket ELSE received[Max(Threaded(m))].ticket

MatchThread(t) ==
  LET m == mailIn[t].msg IN
  /\ mailIn[t].at = "claimed"
  /\ mailIn' = [mailIn EXCEPT ![t].at = "matched", ![t].match = TicketByMessageId(m),
                              ![t].known = contact]
  /\ outOfOrder' = (outOfOrder \/ \E n \in 1..(m - 1) : received[n] = None)
  /\ UNCHANGED <<automatic, contact, inbox, claimant, received, ticketsMade, commented, item,
                 itemHolder, ticketOf>>

Disposition(r) ==
  IF r.msg \in automatic THEN "suppressed"
  ELSE IF r.match # NoTicket THEN "appended"
  ELSE IF ~r.known THEN "quarantined" ELSE "created"

\* The outcome, its rows and the finished claim are one commit.
CommitInbound(t) ==
  LET r == mailIn[t]
      m == r.msg
      what == Disposition(r)
  IN /\ r.at = "matched"
     /\ what = "created" => ticketsMade < MaxTickets
     /\ inbox' = inbox \cup {m}
     /\ claimant' = [claimant EXCEPT ![m] = None]
     /\ ticketsMade' = ticketsMade + (IF what = "created" THEN 1 ELSE 0)
     /\ received' = [received EXCEPT ![m] =
          [disposition |-> what, ticket |-> IF what = "created" THEN ticketsMade + 1 ELSE r.match]]
     /\ commented' = [commented EXCEPT ![m] = @ + (IF what = "appended" THEN 1 ELSE 0)]
     /\ item' = IF what = "quarantined" THEN [item EXCEPT ![m] = "open"] ELSE item
     /\ mailIn' = [mailIn EXCEPT ![t] = Free]
     /\ UNCHANGED <<automatic, contact, itemHolder, ticketOf, outOfOrder>>

Undecided(m) == item[m] = "open"

OpenItem(t) ==
  /\ mailIn[t] = Free
  /\ \E m \in Messages :
       /\ Undecided(m)
       /\ itemHolder[m] = None
       /\ itemHolder' = [itemHolder EXCEPT ![m] = t]
       /\ mailIn' = [mailIn EXCEPT ![t] = [Free EXCEPT !.at = "deciding", !.msg = m]]
  /\ UNCHANGED <<automatic, contact, inbox, claimant, received, ticketsMade, commented, item,
                 ticketOf, outOfOrder>>

\* A ticket with a lasting contact, or no ticket; the message's row stays as it is.
\* (A ticket without one never gets here: deleting its contact fails on the ticket
\* that refers to it, and the transaction is aborted.)
Decide(t) ==
  LET m == mailIn[t].msg IN
  /\ mailIn[t].at = "deciding"
  /\ \/ /\ ticketsMade < MaxTickets
        /\ ticketsMade' = ticketsMade + 1
        /\ ticketOf' = [ticketOf EXCEPT ![m] = ticketsMade + 1]
        /\ contact' = TRUE
     \/ UNCHANGED <<ticketsMade, ticketOf, contact>>
  /\ item' = [item EXCEPT ![m] = "decided"]
  /\ itemHolder' = [itemHolder EXCEPT ![m] = None]
  /\ mailIn' = [mailIn EXCEPT ![t] = Free]
  /\ UNCHANGED <<automatic, inbox, claimant, received, commented, outOfOrder>>

\* A failed statement, a closed ticket that takes no comment, a crash.
AbortInbound(t) ==
  /\ mailIn[t] # Free
  /\ claimant' = [m \in Messages |-> IF claimant[m] = t THEN None ELSE claimant[m]]
  /\ itemHolder' = [m \in Messages |-> IF itemHolder[m] = t THEN None ELSE itemHolder[m]]
  /\ mailIn' = [mailIn EXCEPT ![t] = Free]
  /\ UNCHANGED <<automatic, contact, inbox, received, ticketsMade, commented, item, ticketOf,
                 outOfOrder>>

InboundNext ==
  \E t \in Requests :
    \/ ClaimInbox(t) \/ MatchThread(t) \/ CommitInbound(t) \/ OpenItem(t) \/ Decide(t)
    \/ AbortInbound(t)

InboundSpec == InboundInit /\ [][InboundNext]_inboundVars

-----------------------------------------------------------------------------
InboundTypeOK ==
  /\ inbox \subseteq Messages
  /\ \A m \in Messages :
       /\ received[m] = None \/ received[m] \in
            [disposition : {"suppressed", "appended", "quarantined", "created"}, ticket : 0..MaxTickets]
       /\ item[m] \in {None, "open", "decided"}
       /\ ticketOf[m] \in 0..MaxTickets

\* However often a message is delivered, and to however many workers, it has one
\* row once its id is taken, and is one comment, one ticket or one quarantine item.
OneOutcome ==
  /\ \A m \in Messages :
       /\ (m \in inbox) = (received[m] # None)
       /\ commented[m] + (IF received[m] # None /\ received[m].disposition = "created" THEN 1 ELSE 0)
            + (IF item[m] # None THEN 1 ELSE 0) <= 1
  /\ ticketsMade = Cardinality({m \in Messages :
       ticketOf[m] # NoTicket \/ (received[m] # None /\ received[m].disposition = "created")})

\* A conversation that comes in order is on one ticket, unless a message of it was
\* quarantined: the ticket of the decision is not the ticket of the message, and
\* the next message of the sender opens another one.
OneTicketPerThread ==
  \/ outOfOrder
  \/ \E m \in Messages : item[m] # None
  \/ ticketsMade <= 1 /\ \A m \in Messages :
       received[m] # None /\ received[m].disposition = "appended" => received[m].ticket = 1

-----------------------------------------------------------------------------
(* Mail that goes out                                                      *)

outboundVars == <<emailToken, tokenHolder, drawn, outbound, rowHolder, wire, suppressed, bounced,
                  reqMail, lostSends, unmatched, tokenRaced>>

NoMail == [at |-> "idle", row |-> None, token |-> 0]
NoToken == 0

OutboundInit ==
  /\ emailToken = NoToken
  /\ tokenHolder = None
  /\ drawn = 0
  /\ outbound = [e \in MailRows |-> None]
  /\ rowHolder = [e \in MailRows |-> None]
  /\ wire = [e \in MailRows |-> <<>>]
  /\ suppressed = FALSE
  /\ bounced = {}
  /\ reqMail = [t \in Requests |-> NoMail]
  /\ lostSends = {}
  /\ unmatched = {}
  /\ tokenRaced = FALSE

\* The ticket and the suppression are read without a lock.
HandleOutbox(t) ==
  /\ reqMail[t] = NoMail
  /\ ~suppressed
  /\ \E e \in MailRows :
       reqMail' = [reqMail EXCEPT ![t] = [at |-> "rendered", row |-> e, token |-> emailToken]]
  /\ UNCHANGED <<emailToken, tokenHolder, drawn, outbound, rowHolder, wire, suppressed, bounced,
                 lostSends, unmatched, tokenRaced>>

\* Without a token the handler draws one and writes it where there is still none;
\* its own mail carries it either way.
NeedsToken(t) == reqMail[t].token = NoToken
\* Mutant: every mail draws a token of its own.
NeedsTokenAlways(t) == TRUE

DrawToken(t) ==
  /\ reqMail[t].at = "rendered"
  /\ NeedsToken(t)
  /\ tokenHolder = None
  /\ drawn < MaxTokens
  /\ drawn' = drawn + 1
  /\ tokenHolder' = IF emailToken = NoToken THEN t ELSE None
  /\ tokenRaced' = (tokenRaced \/ emailToken # NoToken)
  /\ reqMail' = [reqMail EXCEPT ![t].at = "addressed", ![t].token = drawn + 1]
  /\ UNCHANGED <<emailToken, outbound, rowHolder, wire, suppressed, bounced, lostSends, unmatched>>

\* on conflict (outbox_id) do nothing: a row in the making is waited for.
Unclaimed(t, e) == rowHolder[e] = None
InsertOutbound(t) ==
  LET e == reqMail[t].row IN
  /\ reqMail[t].at = "addressed" \/ (reqMail[t].at = "rendered" /\ ~NeedsToken(t))
  /\ Unclaimed(t, e)
  /\ rowHolder' = IF outbound[e] = None THEN [rowHolder EXCEPT ![e] = t] ELSE rowHolder
  /\ reqMail' = [reqMail EXCEPT ![t].at = IF outbound[e] = None THEN "inserted" ELSE "sent"]
  /\ UNCHANGED <<emailToken, tokenHolder, drawn, outbound, wire, suppressed, bounced, lostSends,
                 unmatched, tokenRaced>>

Send(t) ==
  LET e == reqMail[t].row IN
  /\ reqMail[t].at = "inserted"
  /\ Len(wire[e]) < MaxSends
  /\ wire' = [wire EXCEPT ![e] = Append(@, reqMail[t].token)]
  /\ reqMail' = [reqMail EXCEPT ![t].at = "sent"]
  /\ UNCHANGED <<emailToken, tokenHolder, drawn, outbound, rowHolder, suppressed, bounced, lostSends,
                 unmatched, tokenRaced>>

CommitMail(t) ==
  LET e == reqMail[t].row IN
  /\ reqMail[t].at = "sent"
  /\ emailToken' = IF tokenHolder = t THEN reqMail[t].token ELSE emailToken
  /\ tokenHolder' = IF tokenHolder = t THEN None ELSE tokenHolder
  /\ outbound' = IF rowHolder[e] = t
                   THEN [outbound EXCEPT ![e] = [which |-> Len(wire[e]), token |-> reqMail[t].token]]
                   ELSE outbound
  /\ rowHolder' = IF rowHolder[e] = t THEN [rowHolder EXCEPT ![e] = None] ELSE rowHolder
  /\ reqMail' = [reqMail EXCEPT ![t] = NoMail]
  /\ UNCHANGED <<drawn, wire, suppressed, bounced, lostSends, unmatched, tokenRaced>>

\* The transport refuses (the "failed" delivery row goes with it), or a crash.
AbortMail(t) ==
  LET e == reqMail[t].row IN
  /\ reqMail[t] # NoMail
  /\ lostSends' = IF reqMail[t].at = "sent" /\ rowHolder[e] = t THEN lostSends \cup {e} ELSE lostSends
  /\ tokenHolder' = IF tokenHolder = t THEN None ELSE tokenHolder
  /\ rowHolder' = [x \in MailRows |-> IF rowHolder[x] = t THEN None ELSE rowHolder[x]]
  /\ reqMail' = [reqMail EXCEPT ![t] = NoMail]
  /\ UNCHANGED <<emailToken, drawn, outbound, wire, suppressed, bounced, unmatched, tokenRaced>>

\* A hard bounce or a complaint about a mail that left; the report finds the
\* delivery by the provider's id, and nothing reads the states it writes there.
ApplyDeliveryEvent ==
  /\ \E e \in MailRows, n \in 1..MaxSends :
       /\ n <= Len(wire[e])
       /\ bounced' = bounced \cup {<<e, n>>}
       /\ IF outbound[e] # None /\ outbound[e].which = n
            THEN suppressed' = TRUE /\ UNCHANGED unmatched
            ELSE unmatched' = unmatched \cup {<<e, n>>} /\ UNCHANGED suppressed
  /\ UNCHANGED <<emailToken, tokenHolder, drawn, outbound, rowHolder, wire, reqMail, lostSends,
                 tokenRaced>>

OutboundNext ==
  \/ \E t \in Requests :
       \/ HandleOutbox(t) \/ DrawToken(t) \/ InsertOutbound(t) \/ Send(t) \/ CommitMail(t)
       \/ AbortMail(t)
  \/ ApplyDeliveryEvent

OutboundSpec == OutboundInit /\ [][OutboundNext]_outboundVars

-----------------------------------------------------------------------------
OutboundTypeOK ==
  /\ emailToken \in 0..drawn
  /\ tokenHolder \in Requests \cup {None}
  /\ \A e \in MailRows :
       /\ rowHolder[e] \in Requests \cup {None}
       /\ outbound[e] = None \/ outbound[e] \in [which : 1..MaxSends, token : 1..drawn]

\* An event is mailed once, however many workers handle it, unless a transaction
\* that had sent it was rolled back.
MailOncePerEvent == \A e \in MailRows : e \notin lostSends => Len(wire[e]) <= 1

\* A mail on record asked for replies to the ticket's own token, unless two
\* handlers drew the first token at the same time.
RepliesFindTheTicket ==
  \A e \in MailRows : outbound[e] # None => tokenRaced \/ outbound[e].token = emailToken

\* An address that bounced or complained is suppressed, unless the report reached
\* us before the commit of the mail it is about.
BouncesSuppress == bounced \subseteq unmatched \/ suppressed
=============================================================================
