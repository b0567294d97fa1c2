------------------------------ MODULE MCMerge ------------------------------
(* Values for TLC: what the three publishers may be.                       *)
EXTENDS Merge

Sync(kind, n, end) == [kind |-> kind, size |-> n, end |-> end, later |-> FALSE]
Later(kind, n)     == [kind |-> kind, size |-> n, end |-> "none", later |-> TRUE]

MCPublisher ==
  {Sync("range", 0, "none"), Sync("range", 2, "none"), Sync("just", 1, "none"),
   Sync("error", 0, "none"), Sync("create", 1, "onError"), Later("range", 1), Sync("never", 0, "none")}

(* The one in the middle has two values, what ends around it may be any.   *)
MCMerged == {f \in [1 .. 3 -> MCPublisher] : f[2] = Sync("range", 2, "none")}

(* Two publishers of one value.                                            *)
MCPair == {[p \in 1 .. 2 |-> Sync("range", 1, "none")]}

=============================================================================
