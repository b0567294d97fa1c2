--------------------------- MODULE MCWorkerThread ---------------------------
(* Small instances of WorkerThread for TLC.                                *)
EXTENDS WorkerThread, TLC

AnyTask == Permutations(Tasks)
=============================================================================
