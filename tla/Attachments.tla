------------------------------ MODULE Attachments ------------------------------
(***************************************************************************)
(* One file of a ticket: registered and uploaded by a person, or brought   *)
(* by a connector; confirmed, which re-encodes an image under its own key  *)
(* and scans it; and removed.                                              *)
(*                                                                         *)
(* Confirming reads the row and the object's head without a lock, then     *)
(* locks the row with its first update and reads it again.  The store is   *)
(* outside the transaction: what was put or moved stays after a rollback.  *)
(* The scanner answers inline, as it does beside the local store.          *)
(***************************************************************************)
EXTENDS Integers

CONSTANTS Requests, None, MaxAnnounced

VARIABLES
  nature,      \* what was uploaded, and the size an image has once re-encoded
  file,        \* acct.attachments: state, key, size, digest of the rebuilt bytes, removed
  fileHolder,  \* the transaction that holds the row, or None
  store,       \* the object at its first key and at the quarantine key
  fileReq,     \* what each request does, the head it saw and the row it is writing
  announced,   \* committed attachment.scanned events
  silenced,    \* how many of them there were when the file was removed
  strayed,     \* history: a rolled back transaction had touched the store
  overlapped   \* history: two requests confirmed the file at the same time

fileVars == <<nature, file, fileHolder, store, fileReq, announced, silenced, strayed, overlapped>>

Kinds == {"document", "infected", "image", "broken image"}
Images == {"image", "broken image"}
Bad == {"infected", "broken image"}
Keys == {"first", "quarantine"}
DeclaredSize == 1
Sizes == 0..2

SizeOf(object) == IF object = "rebuilt" THEN nature.rebuilt ELSE DeclaredSize

Absent == [state |-> "absent", key |-> "first", size |-> DeclaredSize, digest |-> FALSE, removed |-> FALSE]
Idle == [at |-> "idle", head |-> 0, row |-> Absent]

AttachmentsInit ==
  /\ nature \in [kind : Kinds, rebuilt : Sizes]
  /\ file = Absent
  /\ fileHolder = None
  /\ store = [k \in Keys |-> None]
  /\ fileReq = [t \in Requests |-> Idle]
  /\ announced = 0
  /\ silenced = 0
  /\ strayed = FALSE
  /\ overlapped = FALSE

\* A row is inserted pending, with the size the uploader declared.
Presign ==
  /\ file.state = "absent" /\ \A t \in Requests : fileReq[t] = Idle
  /\ file' = [Absent EXCEPT !.state = "pending"]
  /\ UNCHANGED <<nature, fileHolder, store, fileReq, announced, silenced, strayed, overlapped>>

Upload ==
  /\ file.state = "pending" /\ store["first"] = None /\ store["quarantine"] = None
  /\ store' = [store EXCEPT !["first"] = "uploaded"]
  /\ UNCHANGED <<nature, file, fileHolder, fileReq, announced, silenced, strayed, overlapped>>

Confirm(t) ==
  /\ fileReq[t] = Idle
  /\ file.state # "absent" /\ ~file.removed
  /\ store[file.key] # None
  /\ SizeOf(store[file.key]) <= file.size
  /\ fileReq' = [fileReq EXCEPT ![t] = [Idle EXCEPT !.at = "headed", !.head = SizeOf(store[file.key]),
                                          !.row = file]]
  /\ overlapped' = (overlapped \/ \E u \in Requests : fileReq[u] # Idle)
  /\ UNCHANGED <<nature, file, fileHolder, store, announced, silenced, strayed>>

\* Mutant: the row read before the lock goes on being used.
RereadNever(t) == fileReq[t].row
\* After the first update has the row's lock, the row is read once more.
Reread(t) == file

SetSize(t) ==
  /\ fileReq[t].at = "headed"
  /\ fileHolder = None
  /\ ~Reread(t).removed
  /\ fileHolder' = t
  /\ fileReq' = [fileReq EXCEPT ![t].at = "sized",
                                ![t].row = [Reread(t) EXCEPT !.size = fileReq[t].head]]
  /\ UNCHANGED <<nature, file, store, announced, silenced, strayed, overlapped>>

\* The bytes are those that were written when the digest says so.
Rebuilt(t) == fileReq[t].row.digest /\ store[fileReq[t].row.key] = "rebuilt"

ReEncodeStored(t) ==
  LET row == fileReq[t].row IN
  /\ fileReq[t].at = "sized"
  /\ store[row.key] # None
  /\ IF nature.kind # "image" \/ Rebuilt(t)
       THEN fileReq' = [fileReq EXCEPT ![t].at = "encoded"] /\ UNCHANGED store
       ELSE /\ store' = [store EXCEPT ![row.key] = "rebuilt"]
            /\ fileReq' = [fileReq EXCEPT ![t].at = "encoded",
                             ![t].row = [row EXCEPT !.size = nature.rebuilt, !.digest = TRUE]]
  /\ UNCHANGED <<nature, file, fileHolder, announced, silenced, strayed, overlapped>>

\* A connector's bytes are re-encoded in hand and put before their row exists.
Ingest(t) ==
  /\ fileReq[t] = Idle
  /\ file.state = "absent" /\ \A u \in Requests : fileReq[u] = Idle
  /\ LET object == IF nature.kind = "image" THEN "rebuilt" ELSE "uploaded" IN
       /\ store' = [store EXCEPT !["first"] = object]
       /\ fileReq' = [fileReq EXCEPT ![t] = [Idle EXCEPT !.at = "encoded",
                        !.row = [Absent EXCEPT !.state = "pending", !.size = SizeOf(object)]]]
  /\ UNCHANGED <<nature, file, fileHolder, announced, silenced, strayed, overlapped>>

\* The verdict; an object that may not be served is moved first.
ApplyScan(t) ==
  LET row == fileReq[t].row IN
  /\ fileReq[t].at = "encoded"
  /\ store[row.key] # None
  /\ IF nature.kind \in Bad
       THEN /\ store' = [k \in Keys |-> IF k = "quarantine" THEN store[row.key] ELSE None]
            /\ fileReq' = [fileReq EXCEPT ![t].at = "scanned",
                             ![t].row = [row EXCEPT !.state = "quarantined", !.key = "quarantine"]]
       ELSE /\ fileReq' = [fileReq EXCEPT ![t].at = "scanned", ![t].row = [row EXCEPT !.state = "clean"]]
            /\ UNCHANGED store
  /\ UNCHANGED <<nature, file, fileHolder, announced, silenced, strayed, overlapped>>

CommitFile(t) ==
  LET row == fileReq[t].row IN
  /\ fileReq[t].at = "scanned"
  /\ announced < MaxAnnounced
  /\ file' = [row EXCEPT !.removed = file.removed]
  /\ announced' = announced + (IF row.state = "clean" THEN 1 ELSE 0)
  /\ fileHolder' = IF fileHolder = t THEN None ELSE fileHolder
  /\ fileReq' = [fileReq EXCEPT ![t] = Idle]
  /\ UNCHANGED <<nature, store, silenced, strayed, overlapped>>

Remove ==
  /\ file.state # "absent" /\ ~file.removed
  /\ fileHolder = None
  /\ file' = [file EXCEPT !.removed = TRUE]
  /\ silenced' = announced
  /\ UNCHANGED <<nature, fileHolder, store, fileReq, announced, strayed, overlapped>>

\* An object that is not there, a failed statement, a crash.
AbortFile(t) ==
  /\ fileReq[t] # Idle
  /\ strayed' = (strayed \/ fileReq[t].at \in {"encoded", "scanned"})
  /\ fileHolder' = IF fileHolder = t THEN None ELSE fileHolder
  /\ fileReq' = [fileReq EXCEPT ![t] = Idle]
  /\ UNCHANGED <<nature, file, store, announced, silenced, overlapped>>

AttachmentsNext ==
  \/ Presign \/ Upload \/ Remove
  \/ \E t \in Requests :
       \/ Confirm(t) \/ SetSize(t) \/ ReEncodeStored(t) \/ Ingest(t) \/ ApplyScan(t)
       \/ CommitFile(t) \/ AbortFile(t)

\* None is neither an object nor a transaction.
AttachmentsConstants == None \notin Requests \cup {"uploaded", "rebuilt"}

AttachmentsSpec == AttachmentsInit /\ [][AttachmentsNext]_fileVars

-----------------------------------------------------------------------------
AttachmentsTypeOK ==
  /\ file \in [state : {"absent", "pending", "clean", "quarantined"}, key : Keys, size : Sizes,
               digest : BOOLEAN, removed : BOOLEAN]
  /\ fileHolder \in Requests \cup {None}
  /\ store \in [Keys -> {None, "uploaded", "rebuilt"}]
  /\ announced \in 0..MaxAnnounced

\* A verdict stands beside the object it is about: a clean file is at its key and
\* an image is served rebuilt; a quarantined one is nowhere else.
VerdictFitsObject ==
  /\ file.state = "clean" =>
       /\ nature.kind \notin Bad
       /\ store["first"] = (IF nature.kind = "image" THEN "rebuilt" ELSE "uploaded")
  /\ file.state = "quarantined" => store["quarantine"] # None /\ store["first"] = None

\* An uploaded file can always be confirmed, unless a transaction that had moved
\* or rebuilt the object was rolled back.
ConfirmStaysPossible ==
  /\ file.state = "pending" /\ ~file.removed
  /\ \E k \in Keys : store[k] # None
  /\ \A t \in Requests : fileReq[t] = Idle
  => strayed \/ (store[file.key] # None /\ SizeOf(store[file.key]) <= file.size)

\* The size of a scanned file is that of its object, unless a confirmation used a
\* head that another one made stale meanwhile.
SizeIsTrue ==
  file.state \in {"clean", "quarantined"} /\ (\A t \in Requests : fileReq[t] = Idle)
    => overlapped \/ file.size = SizeOf(store[file.key])

\* Only clean files are announced to the connectors, and none after its removal.
RemovedIsSilent ==
  /\ announced > 0 => file.state = "clean"
  /\ file.removed => announced = silenced
=============================================================================
