---------------------------- MODULE Interleave ----------------------------
(***************************************************************************)
(* What a merge promises: the values of every publisher, each publisher's  *)
(* in its order, in any order between publishers, then an end: completion  *)
(* when all of them completed, or the error of one that failed.            *)
(***************************************************************************)
EXTENDS Naturals, Sequences, FiniteSets

CONSTANT Publishers   (* the publishers that are merged                    *)

VARIABLES
  size,    (* how many values each publisher has                           *)
  ends,    (* how each ends: "onComplete", "onError" or "none"             *)
  failing, (* whether the source of the publishers fails                   *)
  output,  (* the publisher and the position of each value given           *)
  end      (* how the output has ended, or "none"                          *)

promiseVars == <<size, ends, failing, output, end>>

Taken(p) == Cardinality({k \in DOMAIN output : output[k][1] = p})

Init ==
  /\ size \in [Publishers -> Nat]
  /\ ends \in [Publishers -> {"onComplete", "onError", "none"}]
  /\ failing \in BOOLEAN
  /\ output = <<>>
  /\ end = "none"

Give(p) ==
  /\ Taken(p) < size[p]
  /\ output' = Append(output, <<p, Taken(p) + 1>>)
  /\ UNCHANGED end

Complete ==
  /\ ~failing
  /\ \A p \in Publishers : ends[p] = "onComplete" /\ Taken(p) = size[p]
  /\ end' = "onComplete"
  /\ UNCHANGED output

Fail ==
  /\ failing \/ \E p \in Publishers : ends[p] = "onError"
  /\ end' = "onError"
  /\ UNCHANGED output

Next ==
  /\ end = "none"
  /\ (\E p \in Publishers : Give(p)) \/ Complete \/ Fail
  /\ UNCHANGED <<size, ends, failing>>

Spec == Init /\ [][Next]_promiseVars

=============================================================================
