----------------------------- MODULE MCWorkerPool -----------------------------
(***************************************************************************)
(* Instances of WorkerPool for TLC.                                        *)
(***************************************************************************)
EXTENDS WorkerPool, TLC

CONSTANTS w1, w2
TwoWorkers == {w1, w2}
OneWorker == {w1}
WorkerSymmetry == Permutations(TwoWorkers)
=============================================================================
