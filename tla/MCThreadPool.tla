---------------------------- MODULE MCThreadPool ----------------------------
(* Small instances of ThreadPool for TLC.                                  *)
EXTENDS ThreadPool, TLC

Interchangeable == Permutations(Tasks) \cup Permutations(Workers)
=============================================================================
