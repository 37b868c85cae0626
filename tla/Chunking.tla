------------------------------- MODULE Chunking -------------------------------
(***************************************************************************)
(* The contract between the splitter (splitting.py, module Splitting) and  *)
(* its caller (file_worker.py, module FileUpload): what a division of a    *)
(* payload's events into chunks is.  A division maps every event to the    *)
(* first event of its chunk.                                               *)
(***************************************************************************)
EXTENDS Integers

\* What prepare_test_chunks makes of the events S: chunks are contiguous, and
\* every event is in one.
Splits(S) ==
  {f \in [S -> S] :
     /\ \A e \in S : f[e] <= e /\ f[f[e]] = f[e]
     /\ \A d, e \in S : d <= e => f[d] <= f[e]}
=============================================================================
