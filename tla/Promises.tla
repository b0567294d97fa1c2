----------------------------- MODULE Promises -----------------------------
(***************************************************************************)
(* What the operators promise, as functions on the whole stream that comes *)
(* in: the values in order and how it ended.  A reference for the          *)
(* operators of Processors, which get the stream one call at a time.       *)
(***************************************************************************)
EXTENDS Processors, Streams, FiniteSetsExt

(* The result of a stream that completed, and nothing before.              *)
Result(s, values) == Stream(IF s.end = "onComplete" THEN values ELSE <<>>, s.end)

(* The stream that is over with its first n values, if that is found.      *)
Cut(s, n, found) ==
  IF found THEN Stream(SubSeq(s.values, 1, n), "onComplete") ELSE s

(* The first n values: none of them ends the stream if there are none.     *)
Firsts(s, n) ==
  IF n = 0 THEN [s EXCEPT !.values = <<>>] ELSE Cut(s, n, n \in DOMAIN s.values)

(* The result found at position n, or empty once the stream ended.         *)
Pick(s, n) ==
  IF n \in DOMAIN s.values THEN Stream(<<s.values[n]>>, "onComplete") ELSE Result(s, <<>>)

(* Whether a value for which test holds is among the values.               *)
Judged(s, test(_), ifFound) ==
  IF \E k \in DOMAIN s.values : test(s.values[k])
  THEN Stream(<<Bool(ifFound)>>, "onComplete")
  ELSE Result(s, <<Bool(~ifFound)>>)

Rejected(v) == ~Predicate(v)

(* The values of each inner publisher in turn, up to the first that fails. *)
Flattened(o, s) ==
  LET bad  == SelectInSeq(s.values, LAMBDA v : InnerEnd(o, v) = "onError")
      from == IF bad = 0 THEN s.values ELSE SubSeq(s.values, 1, bad)
  IN  Stream(FlattenSeq([k \in DOMAIN from |-> InnerValues(o, from[k])]),
             IF bad = 0 THEN s.end ELSE "onError")

PromiseOf(o, s) ==
  CASE o.name = "map"      -> [s EXCEPT !.values = [k \in DOMAIN @ |-> Method(@[k])]]
    [] o.name = "filter"   -> [s EXCEPT !.values = SelectSeq(@, Predicate)]
    [] o.name = "take"     -> Firsts(s, o.limit)
    [] o.name = "takeWhile" ->
         LET end == SelectInSeq(s.values, Rejected) IN Cut(s, end - 1, end # 0)
    [] o.name = "allOf"    -> Judged(s, Rejected, FALSE)
    [] o.name = "anyOf"    -> Judged(s, Predicate, TRUE)
    [] o.name = "noneOf"   -> Judged(s, Predicate, FALSE)
    [] o.name = "first"    -> Pick(s, 1)
    [] o.name = "elementAt" -> Pick(s, o.limit + 1)
    [] o.name = "last"     -> Result(s, IF s.values = <<>> THEN <<>> ELSE <<Last(s.values)>>)
    [] o.name = "max"      -> Result(s, <<Max(ToSet(s.values) \cup {0})>>)
    [] o.name = "min"      -> Result(s, <<IF s.values = <<>> THEN 0 ELSE Min(ToSet(s.values))>>)
    [] o.name = "count"    -> Result(s, <<Len(s.values)>>)
    [] o.name = "reduce"   -> Result(s, <<FoldLeft(Operation, InitialValue, s.values)>>)
    [] o.name = "ignoreElements" -> [s EXCEPT !.values = <<>>]
    [] o.name = "defaultIfEmpty" ->
         IF s.values = <<>> THEN Result(s, <<DefaultValue>>) ELSE s
    [] o.name = "flatMap"  -> Flattened(o, s)
    [] o.name = "andThen" ->
         IF s.end = "onComplete" THEN Stream(o.branch.elements, o.branch.end)
         ELSE Stream(<<>>, s.end)
    [] o.name = "switchOnError" ->
         IF s.end = "onError" THEN Stream(s.values \o o.branch.elements, o.branch.end) ELSE s
    [] OTHER               -> s

(* The stream the whole pipeline promises for what its source emitted.     *)
PipelinePromise(operators, signals) ==
  FoldLeft(LAMBDA s, o : PromiseOf(o, s), StreamOf(signals), operators)

=============================================================================
