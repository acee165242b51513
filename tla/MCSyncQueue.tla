---------------------------- MODULE MCSyncQueue ----------------------------
(***************************************************************************)
(* Two ways to bound the queue for TLC: runs that overlap, with refusals   *)
(* that are for good and one disturbance; or one run at a time, with       *)
(* back-off, second attempts and every disturbance the bound allows.       *)
(***************************************************************************)
EXTENDS SyncQueue

CONSTANTS run1, run2

VARIABLE overlapping

MCInit == Init /\ overlapping \in BOOLEAN

WithinBounds ==
  /\ UNCHANGED overlapping
  /\ IF overlapping
     THEN disturbances' <= 1 /\ \A r \in Rows : status'[r] # "waiting"
     ELSE batch'[run2] = {}

MCNext == Next /\ WithinBounds

mcVars == <<vars, overlapping>>
MCSpec == MCInit /\ [][MCNext]_mcVars

(* FairSpec, of the steps within the bounds. *)
MCFairSpec ==
  /\ MCSpec
  /\ \A d \in Runs :
       WF_mcVars(Claim(d) /\ WithinBounds) /\ WF_mcVars(RunStep(d) /\ WithinBounds)
  /\ \A r \in Rows : WF_mcVars(BecomeDue(r) /\ WithinBounds)
=============================================================================
