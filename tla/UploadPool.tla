------------------------------ MODULE UploadPool ------------------------------
(***************************************************************************)
(* What run_file_workers promises its caller, without threads and queues:  *)
(* every file is owned at most once, an owned file is always reported, and *)
(* the call ends either with every file reported, or with every file       *)
(* either reported or never touched.                                       *)
(***************************************************************************)
EXTENDS Integers

CONSTANT Tasks

VARIABLES fileState, outcome
vars == <<fileState, outcome>>

Init ==
  /\ fileState = [t \in Tasks |-> "untouched"]
  /\ outcome = "running"

Own(t) ==
  /\ outcome = "running" /\ fileState[t] = "untouched"
  /\ fileState' = [fileState EXCEPT ![t] = "owned"]
  /\ UNCHANGED outcome

Report(t) ==
  /\ outcome = "running" /\ fileState[t] = "owned"
  /\ fileState' = [fileState EXCEPT ![t] = "reported"]
  /\ UNCHANGED outcome

\* The normal return: every file was reported.
Complete ==
  /\ outcome = "running"
  /\ \A t \in Tasks : fileState[t] = "reported"
  /\ outcome' = "complete"
  /\ UNCHANGED fileState

\* Any exception: no file is left half way.
Raise ==
  /\ outcome = "running"
  /\ \A t \in Tasks : fileState[t] # "owned"
  /\ outcome' = "raised"
  /\ UNCHANGED fileState

Next ==
  \/ \E t \in Tasks : Own(t) \/ Report(t)
  \/ Complete \/ Raise

\* What never goes wrong, apart from what must happen.
Safety == Init /\ [][Next]_vars

Spec ==
  /\ Safety
  /\ \A t \in Tasks : WF_vars(Report(t))
  /\ WF_vars(Complete)
=============================================================================
