------------------------------ MODULE Knowledge ------------------------------
(***************************************************************************)
(* One article of the knowledge base, its versions and the people who      *)
(* write and review it:                                                    *)
(* src/src/modules/knowledge/knowledge.module.ts and                       *)
(* src/src/modules/knowledge/knowledge.repository.ts.                      *)
(*                                                                         *)
(* Every operation locks the article first and is one step; what is        *)
(* concurrent is the reading, which came earlier and gave the caller the   *)
(* version number the operation is called with.  A text is a number, new   *)
(* with every edit, and stands for one section.                            *)
(***************************************************************************)
EXTENDS Naturals, Sequences

CONSTANTS
  Requests,
  People,
  MaxTexts,          \* bound on texts
  MaxArticleVersion  \* bound on the article's version number

VARIABLES
  article,   \* status, version number and published_version_id
  versions,  \* the article's versions, in the order of version_no
  pages,     \* what the caller of a request has read
  texts,     \* texts written so far
  unversioned, \* history: texts written without a look at the version number
  buried,    \* history: pairs of a text and the text written over it unread
  shown,     \* history: how each version came to be published
  retiredOnce

articleVars == <<article, versions, pages, texts, unversioned, buried, shown, retiredOnce>>

NoPage == [at |-> "closed"]
NotShown == [text |-> 0, status |-> "none", by |-> "nobody", admin |-> FALSE]

KnowledgeTypeOK ==
  /\ article \in [status : {"draft", "in_review", "published", "retired"},
                  version : 1 .. MaxArticleVersion, published : 0 .. Len(versions)]
  /\ versions \in Seq([text : 1 .. MaxTexts, author : People, frozen : BOOLEAN])
  /\ \A t \in Requests : pages[t].at \in {"closed", "read"}
  /\ texts \in 1 .. MaxTexts /\ unversioned \subseteq 1 .. MaxTexts
  /\ buried \subseteq (1 .. MaxTexts) \X (1 .. MaxTexts)
  /\ Len(shown) = Len(versions) /\ retiredOnce \in BOOLEAN

KnowledgeInit ==
  /\ article = [status |-> "draft", version |-> 1, published |-> 0]
  /\ \E u \in People : versions = <<[text |-> 1, author |-> u, frozen |-> FALSE]>>
  /\ pages = [t \in Requests |-> NoPage]
  /\ texts = 1 /\ unversioned = {} /\ buried = {}
  /\ shown = <<NotShown>> /\ retiredOnce = FALSE

Newest == versions[Len(versions)]
HasDraft == ~Newest.frozen

ReadArticle(t, u) ==
  /\ pages[t] = NoPage
  /\ pages' = [pages EXCEPT ![t] = [at |-> "read", by |-> u, version |-> article.version,
                                    status |-> article.status, text |-> Newest.text]]
  /\ UNCHANGED <<article, versions, texts, unversioned, buried, shown, retiredOnce>>

Leave(t) ==
  /\ pages[t].at = "read"
  /\ pages' = [pages EXCEPT ![t] = NoPage]
  /\ UNCHANGED <<article, versions, texts, unversioned, buried, shown, retiredOnce>>

(* updateVersioned with something to assign.                               *)
Versioned(p, status, published) ==
  /\ p.version = article.version
  /\ article.version < MaxArticleVersion
  /\ article' = [status |-> status, version |-> article.version + 1, published |-> published]

\* What an edit assigns to the article itself: without it updateVersioned
\* only reads the row, and the version number is neither compared nor moved.
Assigns(fields) == fields \/ article.status = "in_review"

(* New text for the draft, new fields for the article, or both; a          *)
(* published article gets a draft that starts from what is published.      *)
UpdateDraft(t, writes, fields) ==
  LET p    == pages[t]
      text == IF writes THEN texts + 1 ELSE Newest.text
      row  == [text |-> text, author |-> p.by, frozen |-> FALSE]
  IN
  /\ p.at = "read"
  /\ article.status # "retired"
  /\ texts' = (IF writes THEN texts + 1 ELSE texts) /\ texts' <= MaxTexts
  /\ IF Assigns(fields)
     THEN Versioned(p, IF article.status = "in_review" THEN "draft" ELSE article.status,
                    article.published)
     ELSE UNCHANGED article
  /\ versions' = IF HasDraft THEN [versions EXCEPT ![Len(versions)] = row] ELSE Append(versions, row)
  /\ shown' = IF HasDraft THEN shown ELSE Append(shown, NotShown)
  /\ unversioned' = IF writes /\ ~Assigns(fields) THEN unversioned \cup {text} ELSE unversioned
  /\ buried' = IF writes /\ Newest.text # p.text THEN buried \cup {<<Newest.text, text>>} ELSE buried
  /\ pages' = [pages EXCEPT ![t] = NoPage]
  /\ UNCHANGED retiredOnce

Submit(t) ==
  /\ pages[t].at = "read"
  /\ article.status = "draft"
  /\ Versioned(pages[t], "in_review", article.published)
  /\ pages' = [pages EXCEPT ![t] = NoPage]
  /\ UNCHANGED <<versions, texts, unversioned, buried, shown, retiredOnce>>

(* Not only what was submitted can be published; the last author may not,  *)
(* unless as administrator.                                                *)
Publish(t, admin) ==
  LET p == pages[t]
  IN
  /\ p.at = "read"
  /\ article.status # "retired"
  /\ HasDraft
  /\ Newest.author = p.by => admin
  /\ Versioned(p, "published", Len(versions))
  /\ versions' = [versions EXCEPT ![Len(versions)].frozen = TRUE]
  /\ shown' = [shown EXCEPT ![Len(versions)] =
       [text |-> p.text, status |-> p.status, by |-> p.by, admin |-> admin]]
  /\ pages' = [pages EXCEPT ![t] = NoPage]
  /\ UNCHANGED <<texts, unversioned, buried, retiredOnce>>

Retire(t) ==
  /\ pages[t].at = "read"
  /\ Versioned(pages[t], "retired", article.published)
  /\ retiredOnce' = TRUE
  /\ pages' = [pages EXCEPT ![t] = NoPage]
  /\ UNCHANGED <<versions, texts, unversioned, buried, shown>>

KnowledgeNext ==
  \E t \in Requests :
    \/ \E u \in People : ReadArticle(t, u)
    \/ Leave(t)
    \/ \E writes, fields \in BOOLEAN : UpdateDraft(t, writes, fields)
    \/ Submit(t)
    \/ \E admin \in BOOLEAN : Publish(t, admin)
    \/ Retire(t)

KnowledgeConstants == MaxTexts \in Nat \ {0} /\ MaxArticleVersion \in Nat \ {0}

-----------------------------------------------------------------------------
\* A reviewer publishes the text they have read: always when they read a
\* submitted article, and otherwise unless it was edited by somebody who
\* changed nothing but the text, which the version number does not show.
PublishedAsRead ==
  \A i \in DOMAIN versions :
    versions[i].frozen /\ shown[i].text # versions[i].text =>
      shown[i].status # "in_review" /\ versions[i].text \in unversioned

\* Nobody writes over a text they have not read, unless one of the two edits
\* left the article's fields alone.
EditsAreSeen == \A e \in buried : \E x \in unversioned : x \in {e[1], e[2]}

\* Two people have handled what is published, an administrator's own excepted.
ReviewerDiffers ==
  \A i \in DOMAIN versions :
    versions[i].frozen => shown[i].by # versions[i].author \/ shown[i].admin

\* Every version but the newest is frozen, the newest frozen one is the one
\* in force, and a retired article stays retired.
VersionsInOrder ==
  /\ \A i \in 1 .. Len(versions) - 1 : versions[i].frozen
  /\ article.published = IF HasDraft THEN Len(versions) - 1 ELSE Len(versions)
  /\ retiredOnce => article.status = "retired"
=============================================================================
