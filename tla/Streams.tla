------------------------------ MODULE Streams ------------------------------
(***************************************************************************)
(* The stream a sequence of signals makes: the values in order and how it  *)
(* ended, if it did.                                                       *)
(***************************************************************************)
EXTENDS Naturals, Sequences, SequencesExt

Stream(values, end) == [values |-> values, end |-> end]

Ends == {"onComplete", "onError"}

ValuesOf(calls) ==
  LET isValue(c) == c.sig = "onNext"
      values     == SelectSeq(calls, isValue)
  IN  [k \in DOMAIN values |-> values[k].arg]

(* The stream a sequence of signals makes, up to its first end.            *)
StreamOf(calls) ==
  LET isEnd(c) == c.sig \in Ends
      end      == SelectInSeq(calls, isEnd)
  IN  IF end = 0 THEN Stream(ValuesOf(calls), "none")
      ELSE Stream(ValuesOf(SubSeq(calls, 1, end)), calls[end].sig)

=============================================================================
