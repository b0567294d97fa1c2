---------------------------- MODULE DemandProofs ----------------------------
(***************************************************************************)
(* Demand in a pipeline of any length that hands values down or drops      *)
(* them: what the subscriber has asked for is given or still due, and each *)
(* FilterSubscription counts what is due to it; when nothing is left to    *)
(* run, nothing is.                                                        *)
(***************************************************************************)
EXTENDS PipelineProofs

(* Demand that is served.  What a call counts for as demand of part j: the *)
(* requests that part j or one before it has made and that are still under *)
(* way to the source, the values for it on their way, and for each         *)
(* filtered() of a FilterSubscription the value it is about: that of part  *)
(* j has not been told of it yet, and one before j, if the value was       *)
(* dropped, has yet to make up for it.                                     *)
Ahead(j) ==
  [c \in PipelineCalls |->
     IF c.sig = "request" /\ c.at < j THEN c.arg
     ELSE IF \/ c.sig = "tick"
             \/ c.sig = "onNext" /\ c.at <= j
             \/ c.sig = "filtered" /\ (c.at = j \/ (c.at < j /\ c.arg = 1)) THEN 1 ELSE 0]

(* ... and what the FilterSubscriptions before it keep.                    *)
Before(k, j) == [i \in Stages |-> IF i < j THEN Spare(k[i]) ELSE 0]

Due(j, a, p, k, s) == s.m_requested + Afoot(Ahead(j), a, p) + Total(Before(k, j))

(* How many of some calls are under way.                                   *)
One(S)   == [c \in PipelineCalls |-> IF c \in S THEN 1 ELSE 0]
Closing  == {c \in PipelineCalls : c.sig \in Ends}
Tests(i) == {c \in PipelineCalls : c.at = i /\ c.sig = "tested"}
Ticks    == {c \in PipelineCalls : c.at = 0 /\ c.sig = "tick"}
Agains   == {c \in PipelineCalls : c.at = 0 /\ c.sig = "again"}

(* The calls of a stream that has started, until something ends it.        *)
Working == {c \in PipelineCalls : c.sig \in {"request", "onNext", "filtered", "tested", "tick",
                                             "again", "received"}}
Idling  == PipelineCalls \ Working

Parts == 1 .. Subscriber

LEMMA WeightsOfCalls ==
  /\ \A j \in Parts : Ahead(j) \in Weights
  /\ \A S : One(S) \in Weights /\ \A c \in PipelineCalls : One(S)[c] = IF c \in S THEN 1 ELSE 0
<1>1. \A c \in PipelineCalls : c.arg \in Nat
  BY DEF PipelineCalls, Calls
<1>2. \A j \in Parts : Ahead(j) \in Weights
  BY <1>1 DEF Ahead, Weights
<1>3. \A S : One(S) \in Weights /\ \A c \in PipelineCalls : One(S)[c] = IF c \in S THEN 1 ELSE 0
  BY DEF One, Weights
<1> QED BY <1>2, <1>3

(* What the calls of operator i count for.                                 *)
LEMMA AheadOf ==
  ASSUME NEW j \in Parts, NEW c \in PipelineCalls
  PROVE  /\ Ahead(j)[c] \in Nat
         /\ c.sig = "request" => Ahead(j)[c] = IF c.at < j THEN c.arg ELSE 0
         /\ c.sig = "tick" => Ahead(j)[c] = 1
         /\ c.sig = "onNext" => Ahead(j)[c] = IF c.at <= j THEN 1 ELSE 0
         /\ c.sig = "filtered" =>
              Ahead(j)[c] = IF c.at = j \/ (c.at < j /\ c.arg = 1) THEN 1 ELSE 0
         /\ c.sig \notin {"request", "tick", "onNext", "filtered"} => Ahead(j)[c] = 0
<1>1. c.arg \in Nat
  BY DEF PipelineCalls, Calls
<1> QED BY <1>1 DEF Ahead

LEMMA AheadByStage ==
  ASSUME NEW i \in Stages, NEW j \in Parts, NEW n \in Nat
  PROVE  /\ Request(i - 1, n) \in Working /\ Ahead(j)[Request(i - 1, n)] = IF i <= j THEN n ELSE 0
         /\ Value(i, n) \in Working /\ Ahead(j)[Value(i, n)] = IF i < j THEN 1 ELSE 0
         /\ Filtered(i, TRUE) \in Working /\ Ahead(j)[Filtered(i, TRUE)] = IF i <= j THEN 1 ELSE 0
         /\ Filtered(i, FALSE) \in Working /\ Ahead(j)[Filtered(i, FALSE)] = IF i = j THEN 1 ELSE 0
         /\ Call(i, "tested", 0) \in Working /\ Ahead(j)[Call(i, "tested", 0)] = 0
<1>1. i \in Nat /\ j \in Nat /\ i >= 1 /\ i - 1 \in Nat
  BY DepthAssumption DEF Stages, Parts, Subscriber
<1>2. /\ {Request(i - 1, n), Value(i, n), Filtered(i, TRUE), Filtered(i, FALSE), Call(i, "tested", 0)}
           \subseteq PipelineCalls
  BY StageCalls
<1>3. /\ Request(i - 1, n).at = i - 1 /\ Request(i - 1, n).sig = "request" /\ Request(i - 1, n).arg = n
      /\ Value(i, n).at = i + 1 /\ Value(i, n).sig = "onNext"
      /\ Filtered(i, TRUE).at = i /\ Filtered(i, TRUE).sig = "filtered" /\ Filtered(i, TRUE).arg = 1
      /\ Filtered(i, FALSE).at = i /\ Filtered(i, FALSE).sig = "filtered" /\ Filtered(i, FALSE).arg = 0
      /\ Call(i, "tested", 0).sig = "tested"
  BY DEF Request, Value, Filtered, Call, Bool
<1>4. i - 1 < j <=> i <= j
  BY <1>1
<1>5. i + 1 <= j <=> i < j
  BY <1>1
<1>6. i <= j <=> (i = j \/ i < j)
  BY <1>1
<1>7. /\ Request(i - 1, n) \in Working /\ Value(i, n) \in Working /\ Filtered(i, TRUE) \in Working
      /\ Filtered(i, FALSE) \in Working /\ Call(i, "tested", 0) \in Working
  BY <1>2, <1>3 DEF Working
<1>8. Ahead(j)[Request(i - 1, n)] = IF i <= j THEN n ELSE 0
  BY <1>2, <1>3, <1>4, AheadOf
<1>9. Ahead(j)[Value(i, n)] = IF i < j THEN 1 ELSE 0
  BY <1>2, <1>3, <1>5, AheadOf
<1>10. Ahead(j)[Filtered(i, TRUE)] = IF i <= j THEN 1 ELSE 0
  <2>1. PICK c \in PipelineCalls : c = Filtered(i, TRUE) /\ c.at = i /\ c.sig = "filtered" /\ c.arg = 1
    BY <1>2, <1>3
  <2>2. Ahead(j)[c] = IF c.at = j \/ (c.at < j /\ c.arg = 1) THEN 1 ELSE 0
    BY <2>1, AheadOf
  <2> QED BY <1>6, <2>1, <2>2
<1>11. Ahead(j)[Filtered(i, FALSE)] = IF i = j THEN 1 ELSE 0
  <2>1. PICK c \in PipelineCalls : c = Filtered(i, FALSE) /\ c.at = i /\ c.sig = "filtered" /\ c.arg = 0
    BY <1>2, <1>3
  <2>2. Ahead(j)[c] = IF c.at = j \/ (c.at < j /\ c.arg = 1) THEN 1 ELSE 0
    BY <2>1, AheadOf
  <2> QED BY <2>1, <2>2
<1>12. Ahead(j)[Call(i, "tested", 0)] = 0
  BY <1>2, <1>3, AheadOf
<1> QED BY <1>7, <1>8, <1>9, <1>10, <1>11, <1>12

---------------------------------------------------------------------------
(* a is b but for a multiple of SIZE_MAX + 1.                              *)
Wraps(a, b) == \E q \in Int : a = b + (SizeMax + 1) * q

LEMMA Wrapped ==
  /\ \A a \in Nat : Wraps(a, a)
  /\ \A a, n \in Nat : Wraps(a + n, Plus(a, n))
  /\ \A n \in Size : Wraps(n, Decrement(n) + 1)
<1>1. PICK m \in Nat : m = SizeMax + 1 /\ m > 0 /\ SizeMax = m - 1
  BY SizeAssumption
<1>2. ASSUME NEW a \in Nat PROVE Wraps(a, a)
  <2>1. a = a + m * 0
    OBVIOUS
  <2> QED BY <1>1, <2>1 DEF Wraps
<1>3. ASSUME NEW a \in Nat, NEW n \in Nat PROVE Wraps(a + n, Plus(a, n))
  <2>1. PICK b \in Nat : b = a + n
    OBVIOUS
  <2>2. PICK q \in Int : b = m * q + (b % m) /\ b % m \in 0 .. m - 1
    BY <1>1, Quotient
  <2>3. PICK x \in Int, r \in Nat : x = m * q /\ r = b % m /\ b = x + r
    BY <1>1, <2>2
  <2>4. b = r + x
    BY <2>3
  <2> QED BY <1>1, <2>1, <2>3, <2>4 DEF Wraps, Plus
<1>4. ASSUME NEW n \in Size PROVE Wraps(n, Decrement(n) + 1)
  <2>1. n \in Nat /\ Decrement(n) = IF n = 0 THEN SizeMax ELSE n - 1
    BY SizeAssumption, Decremented DEF Size
  <2>2. CASE n = 0
    <3>1. n = (Decrement(n) + 1) + m * (-1)
      BY <1>1, <2>1, <2>2
    <3> QED BY <1>1, <3>1 DEF Wraps
  <2>3. CASE n # 0
    <3>1. n = (Decrement(n) + 1) + m * 0
      BY <1>1, <2>1, <2>3
    <3> QED BY <1>1, <3>1 DEF Wraps
  <2> QED BY <2>2, <2>3
<1> QED BY <1>2, <1>3, <1>4

(* It stays so when both change by the same.                               *)
LEMMA WrapsMore ==
  ASSUME NEW d \in Nat, NEW e \in Nat, NEW k \in Nat, NEW l \in Nat, NEW x \in Nat, NEW y \in Nat,
         Wraps(d, k), e + x = d + y, Wraps(k + y, l + x)
  PROVE  Wraps(e, l)
<1>1. PICK m \in Nat : m = SizeMax + 1
  BY SizeAssumption
<1>2. PICK q \in Int : d = k + m * q
  BY <1>1 DEF Wraps
<1>3. PICK r \in Int : k + y = (l + x) + m * r
  BY <1>1 DEF Wraps
<1>4. PICK s \in Int : s = q + r /\ m * s = m * q + m * r
  BY <1>1
<1>5. PICK u \in Int, v \in Int, w \in Int : u = m * q /\ v = m * r /\ w = m * s /\ w = u + v
  BY <1>4
<1>6. d = k + u /\ k + y = (l + x) + v
  BY <1>2, <1>3, <1>5
<1>7. e = l + w
  BY <1>5, <1>6
<1>8. e = l + m * s
  BY <1>5, <1>7
<1> QED BY <1>1, <1>4, <1>8 DEF Wraps

(* What is still requested after the answer n to a value: one more to ask  *)
(* for when it was dropped.                                                *)
StillAsked(l, n) == IF n = 1 THEN l.m_requested ELSE Decrement(l.m_requested)

(* How a FilterSubscription accounts for a value, while there is room.     *)
LEMMA SpareOfValue ==
  ASSUME NEW l \in LinkState, NEW n \in Nat, n = 1 => Spare(l) + 1 <= SizeMax
  PROVE  /\ Apart(StillAsked(l, n), Decrement(l.m_waiting), SizeMax + 1) = Spare(l) + IF n = 1 THEN 1 ELSE 0
         /\ Decrement(l.m_waiting) = 0 => StillAsked(l, n) = Spare(l) + IF n = 1 THEN 1 ELSE 0
<1>0. PICK waiting, requested : waiting = Decrement(l.m_waiting) /\ requested = StillAsked(l, n)
  OBVIOUS
<1>1. PICK m \in Nat : m = SizeMax + 1 /\ m > 0 /\ SizeMax = m - 1
  BY SizeAssumption
<1>2. PICK a \in 0 .. m - 1, b \in 0 .. m - 1 : a = l.m_requested /\ b = l.m_waiting
  BY <1>1, SizeAssumption DEF LinkState, Size
<1>3. a \in Size /\ b \in Size
  BY <1>1, <1>2 DEF Size
<1>4. waiting = (IF b = 0 THEN m - 1 ELSE b - 1) /\ Decrement(a) = (IF a = 0 THEN m - 1 ELSE a - 1)
  BY <1>0, <1>1, <1>2, <1>3, Decremented
<1>5. requested = IF n = 1 THEN a ELSE IF a = 0 THEN m - 1 ELSE a - 1
  BY <1>0, <1>2, <1>4 DEF StillAsked
<1>6. waiting \in 0 .. m - 1 /\ requested \in 0 .. m - 1
  BY <1>1, <1>4, <1>5
<1>7. Spare(l) = Apart(a, b, m) /\ (n = 1 => Apart(a, b, m) + 1 <= m - 1)
  BY <1>1, <1>2 DEF Spare
<1>8. Apart(requested, waiting, m) = Apart(a, b, m) + IF n = 1 THEN 1 ELSE 0
  BY <1>1, <1>4, <1>5, <1>6, <1>7 DEF Apart
<1>9. waiting = 0 => Apart(requested, waiting, m) = requested
  BY <1>1, <1>6 DEF Apart
<1>10. SizeMax + 1 = m /\ Spare(l) = Apart(a, b, m)
  BY <1>1, <1>7
<1>11. /\ Apart(requested, waiting, SizeMax + 1) = Spare(l) + IF n = 1 THEN 1 ELSE 0
       /\ waiting = 0 => requested = Spare(l) + IF n = 1 THEN 1 ELSE 0
  BY <1>8, <1>9, <1>10
<1> QED BY <1>0, <1>11

---------------------------------------------------------------------------
(* A handler that closes the stream.                                       *)
LEMMA ClosingWeighs ==
  ASSUME NEW a \in Seq(PipelineCalls), NEW b \in Seq(PipelineCalls), NEW e \in Closing
  PROVE  a \o <<e>> \o b \in Seq(PipelineCalls) /\ Weight(One(Closing), a \o <<e>> \o b) > 0
<1>1. PICK z \in Weights : z = One(Closing) /\ z[e] = 1
  BY WeightsOfCalls DEF Closing
<1>2. PICK s \in Seq(PipelineCalls) : s = <<e>> /\ Weight(z, s) = 1
  <2>1. e \in PipelineCalls
    BY DEF Closing
  <2>2. Weight(z, <<e>>) = z[e] /\ <<e>> \in Seq(PipelineCalls)
    BY <2>1, WeightOfFew
  <2> QED BY <1>1, <2>2
<1>3. PICK r \in Seq(PipelineCalls) : r = a \o s /\ Weight(z, r) = Weight(z, a) + Weight(z, s)
  BY WeightConcat, ConcatProperties
<1>4. r \o b \in Seq(PipelineCalls) /\ Weight(z, r \o b) = Weight(z, r) + Weight(z, b)
  BY WeightConcat, ConcatProperties
<1>5. PICK x \in Nat, y \in Nat : x = Weight(z, a) /\ y = Weight(z, b)
  BY WeightsAre
<1>6. Weight(z, r \o b) > 0
  BY <1>2, <1>3, <1>4, <1>5
<1> QED BY <1>1, <1>2, <1>3, <1>4, <1>6

LEMMA NoneWorks ==
  <<>> \in Seq(Working) /\ <<>> \in Seq(PipelineCalls) /\ \A j \in Parts : Weight(Ahead(j), <<>>) = 0
<1>1. \A j \in Parts : Weight(Ahead(j), <<>>) = 0
  BY WeightsOfCalls, WeightOfFew
<1> QED BY <1>1

LEMMA WorkingWeighs ==
  ASSUME NEW s \in Seq(Working)
  PROVE  s \in Seq(PipelineCalls) /\ Weight(One(Idling), s) = 0
<1>1. s \in Seq(PipelineCalls)
  BY LargerSet DEF Working
<1>2. PICK z \in Weights : z = One(Idling) /\ \A c \in Working : z[c] = 0
  <2>1. /\ One(Idling) \in Weights
        /\ \A c \in PipelineCalls : One(Idling)[c] = IF c \in Idling THEN 1 ELSE 0
    BY WeightsOfCalls
  <2>2. \A c \in Working : c \in PipelineCalls /\ c \notin Idling
    BY DEF Idling, Working
  <2>3. \A c \in Working : One(Idling)[c] = 0
    BY <2>1, <2>2
  <2> QED BY <2>1, <2>3
<1>3. PICK n \in Nat, f \in Seq(Nat) :
        n = Len(s) /\ f = Weighed(z, s) /\ Len(f) = n /\ \A k \in 1 .. n : f[k] = z[s[k]]
  BY <1>1, WeightsAre
<1>4. \A k \in 1 .. n : s[k] \in Working
  BY <1>3, ElementOfSeq
<1>5. f \in [1 .. n -> Nat] /\ \A k \in 1 .. n : f[k] = 0
  BY <1>2, <1>3, <1>4, TotalOfSequence
<1>6. Total(f) = 0
  BY <1>5, NoTotal
<1> QED BY <1>1, <1>2, <1>3, <1>6 DEF Weight

LEMMA WorkingCalls ==
  /\ \A S \in SUBSET PipelineCalls : \A s \in Seq(S) : s \in Seq(PipelineCalls)
  /\ \A a, b, c \in Working : /\ <<a>> \in Seq(Working) /\ <<a, b>> \in Seq(Working)
                             /\ <<a, b, c>> \in Seq(Working)
  /\ Working \subseteq PipelineCalls
<1>1. \A S \in SUBSET PipelineCalls : \A s \in Seq(S) : s \in Seq(PipelineCalls)
  BY LargerSet
<1> QED BY <1>1, ShortSequences DEF Working

LEMMA FewAhead ==
  ASSUME NEW j \in Parts
  PROVE
  /\ \A c \in Working : Weight(Ahead(j), <<c>>) = Ahead(j)[c]
  /\ \A c, d \in Working : Weight(Ahead(j), <<c, d>>) = Ahead(j)[c] + Ahead(j)[d]
  /\ \A c, d, e \in Working : Weight(Ahead(j), <<c, d, e>>) = Ahead(j)[c] + Ahead(j)[d] + Ahead(j)[e]
<1>1. PICK z \in Weights : z = Ahead(j)
  BY WeightsOfCalls
<1>2. \A c \in PipelineCalls : Weight(z, <<c>>) = z[c]
  BY WeightOfFew
<1>3. \A c, d \in PipelineCalls : Weight(z, <<c, d>>) = z[c] + z[d]
  BY WeightOfFew
<1>4. \A c, d, e \in PipelineCalls : Weight(z, <<c, d, e>>) = z[c] + z[d] + z[e]
  BY WeightOfFew
<1> QED BY <1>1, <1>2, <1>3, <1>4, WorkingCalls

(* The calls with which operator i passes a value on, or drops it.         *)
LEMMA GivesAhead ==
  ASSUME NEW i \in Stages, NEW j \in Parts, NEW v \in Nat
  PROVE  /\ {<<Value(i, v)>>, <<Value(i, v), Filtered(i, FALSE)>>,
              <<Value(i, v), Filtered(i, FALSE), Call(i, "tested", 0)>>,
              <<Filtered(i, TRUE)>>, <<Filtered(i, TRUE), Call(i, "tested", 0)>>} \subseteq Seq(Working)
         /\ Weight(Ahead(j), <<Value(i, v)>>) = IF i < j THEN 1 ELSE 0
         /\ \A calls \in {<<Value(i, v), Filtered(i, FALSE)>>,
                           <<Value(i, v), Filtered(i, FALSE), Call(i, "tested", 0)>>,
                           <<Filtered(i, TRUE)>>, <<Filtered(i, TRUE), Call(i, "tested", 0)>>} :
              Weight(Ahead(j), calls) = IF i <= j THEN 1 ELSE 0
<1>0. PICK m \in Nat : m = v
  OBVIOUS
<1>a. Value(i, m) \in Working /\ Ahead(j)[Value(i, m)] = IF i < j THEN 1 ELSE 0
  BY AheadByStage
<1>b. Filtered(i, FALSE) \in Working /\ Ahead(j)[Filtered(i, FALSE)] = IF i = j THEN 1 ELSE 0
  BY <1>0, AheadByStage
<1>c. Call(i, "tested", 0) \in Working /\ Ahead(j)[Call(i, "tested", 0)] = 0
  BY <1>0, AheadByStage
<1>d. Filtered(i, TRUE) \in Working /\ Ahead(j)[Filtered(i, TRUE)] = IF i <= j THEN 1 ELSE 0
  BY <1>0, AheadByStage
<1>1. PICK a \in Working, b \in Working, c \in Working, d \in Working :
        /\ a = Value(i, v) /\ b = Filtered(i, FALSE) /\ c = Call(i, "tested", 0) /\ d = Filtered(i, TRUE)
        /\ Ahead(j)[a] = IF i < j THEN 1 ELSE 0
        /\ Ahead(j)[b] = IF i = j THEN 1 ELSE 0
        /\ Ahead(j)[c] = 0
        /\ Ahead(j)[d] = IF i <= j THEN 1 ELSE 0
  BY <1>0, <1>a, <1>b, <1>c, <1>d
<1>2. PICK x \in Nat, y \in Nat, r \in Nat, w \in Nat :
        /\ x = Ahead(j)[a] /\ y = Ahead(j)[b] /\ r = Ahead(j)[c] /\ w = Ahead(j)[d]
        /\ x = (IF i < j THEN 1 ELSE 0) /\ y = (IF i = j THEN 1 ELSE 0) /\ r = 0
        /\ w = IF i <= j THEN 1 ELSE 0
  BY <1>1
<1>3. i \in Nat /\ j \in Nat
  BY DepthAssumption DEF Stages, Parts, Subscriber
<1>4. x + y = (IF i <= j THEN 1 ELSE 0) /\ x + y + r = (IF i <= j THEN 1 ELSE 0)
      /\ w + r = IF i <= j THEN 1 ELSE 0
  BY <1>2, <1>3
<1>5. Weight(Ahead(j), <<a>>) = x
  BY <1>2, FewAhead
<1>e. Weight(Ahead(j), <<d>>) = w
  BY <1>2, FewAhead
<1>6. Weight(Ahead(j), <<a, b>>) = x + y
  <2>1. Weight(Ahead(j), <<a, b>>) = Ahead(j)[a] + Ahead(j)[b]
    BY FewAhead
  <2> QED BY <1>2, <2>1
<1>f. Weight(Ahead(j), <<d, c>>) = w + r
  <2>1. Weight(Ahead(j), <<d, c>>) = Ahead(j)[d] + Ahead(j)[c]
    BY FewAhead
  <2> QED BY <1>2, <2>1
<1>7. Weight(Ahead(j), <<a, b, c>>) = x + y + r
  <2>1. Weight(Ahead(j), <<a, b, c>>) = Ahead(j)[a] + Ahead(j)[b] + Ahead(j)[c]
    BY FewAhead
  <2> QED BY <1>2, <2>1
<1>8. <<a>> \in Seq(Working) /\ <<a, b>> \in Seq(Working) /\ <<a, b, c>> \in Seq(Working)
  BY WorkingCalls
<1>9. <<d>> \in Seq(Working) /\ <<d, c>> \in Seq(Working)
  BY WorkingCalls
<1> QED BY <1>1, <1>2, <1>4, <1>5, <1>e, <1>6, <1>f, <1>7, <1>8, <1>9

---------------------------------------------------------------------------
(* What a handler of operator i does to the demand, from its call c to the *)
(* calls it makes, with k and l for its subscription before and after, and *)
(* f and o for its members.                                                *)
Blank(l) == l.m_requested = 0 /\ l.m_waiting = 0
Setups   == {Call(q, "subscribe", 0) : q \in 0 .. Depth} \cup {Call(q, "onSubscribe", 0) : q \in Parts}

(* A stream that is being set up, or that runs and where nothing has ended.*)
Apt(i, c, k, f) ==
  /\ \/ c \in Working /\ k.held /\ (f.name \in Filtering => f.held)
     \/ c \in Setups /\ Blank(k)
  /\ f.name = "take" => f.m_count # 0
  /\ c.sig = "filtered" /\ c.arg = 1 => Spare(k) + 1 <= SizeMax

Room(i, j, l) == IF i < j THEN Spare(l) ELSE 0

(* The demand of the other parts stays what it is, and that of a filter is *)
(* what it waits for.                                                      *)
Evens(i, c, calls, k, l, f) ==
  /\ \A j \in Parts \ {i} : Weight(Ahead(j), calls) + Room(i, j, l) = Ahead(j)[c] + Room(i, j, k)
  /\ IF f.name \in Filtering
     THEN /\ Wraps(k.m_waiting + Weight(Ahead(i), calls), l.m_waiting + Ahead(i)[c])
          /\ Spare(l) # 0 => l.m_waiting # 0 \/ (Spare(k) # 0 /\ Weight(Ahead(i), calls) >= Ahead(i)[c])
     ELSE Spare(l) = Spare(k)

Goes(i, c, calls, k, l, f, o) ==
  \/ c \in Working /\ calls \in Seq(Working) /\ l.held = k.held /\ o.held = f.held
  \/ c.sig = "subscribe" /\ calls = <<Call(i - 1, "subscribe", 0)>> /\ l = k /\ o = f
  \/ /\ c.sig = "onSubscribe" /\ c.at = i /\ calls = <<Subscription(i)>> /\ l.held /\ Blank(l)
     /\ f.name \in Filtering => o.held

(* An end is handed on, and a take that has run out ends the stream.       *)
Closes(calls) == Weight(One(Closing), calls) > 0

Ceases(i, c, calls, f, o) ==
  /\ c \in Closing => Closes(calls)
  /\ o.name = f.name
  /\ f.name = "take" =>
       IF f.m_count = 0 THEN o.m_count = 0 /\ (c \in Tests(i) => Closes(calls))
       ELSE o.m_count = 0 => Weight(One(Tests(i)), calls) > 0

LeadsTo(i, c, calls, k, l, f, o) ==
  /\ Ceases(i, c, calls, f, o)
  /\ Apt(i, c, k, f) => Closes(calls) \/ (Evens(i, c, calls, k, l, f) /\ Goes(i, c, calls, k, l, f, o))

Leads(t, i) ==
  \E calls \in Seq(PipelineCalls), l \in LinkState, o \in OperatorState :
    /\ Passed(t, calls)
    /\ own' = [own EXCEPT ![i] = o] /\ link' = [link EXCEPT ![i] = l]
    /\ LeadsTo(i, Head(agenda[t]), calls, link[i], l, own[i], o)

LEMMA ClosingLeads ==
  ASSUME NEW i, NEW c, NEW calls, NEW k, NEW l, NEW f, NEW o,
         Closes(calls), o.name = f.name, o.m_count = f.m_count
  PROVE  LeadsTo(i, c, calls, k, l, f, o)
BY DEF LeadsTo, Ceases

LEMMA DullLeads ==
  ASSUME NEW i, NEW c, NEW calls, NEW k, NEW l, NEW f, NEW o,
         c \notin Closing, c \notin Tests(i), ~Apt(i, c, k, f), o.name = f.name, o.m_count = f.m_count
  PROVE  LeadsTo(i, c, calls, k, l, f, o)
BY DEF LeadsTo, Ceases

LEMMA WorkingLeads ==
  ASSUME NEW i, NEW c \in Working, NEW calls \in Seq(Working), NEW k, NEW l, NEW f, NEW o,
         Apt(i, c, k, f) => Evens(i, c, calls, k, l, f),
         l.held = k.held, o.held = f.held, o.name = f.name,
         \/ o.m_count = f.m_count /\ (c \in Tests(i) => f.m_count # 0)
         \/ f.m_count # 0 /\ Weight(One(Tests(i)), calls) > 0
         \/ f.name # "take"
  PROVE  LeadsTo(i, c, calls, k, l, f, o)
<1>1. c \notin Closing
  BY DEF Working, Closing, Ends
<1>2. Ceases(i, c, calls, f, o)
  BY <1>1 DEF Ceases
<1>3. Goes(i, c, calls, k, l, f, o)
  BY DEF Goes
<1> QED BY <1>2, <1>3 DEF LeadsTo

LEMMA SameEvens ==
  ASSUME NEW i \in Stages, NEW c \in PipelineCalls, NEW calls \in Seq(PipelineCalls),
         NEW k \in LinkState, NEW f, NEW l \in LinkState,
         l.m_requested = k.m_requested, l.m_waiting = k.m_waiting,
         \A j \in Parts : j # i \/ f.name \in Filtering => Weight(Ahead(j), calls) = Ahead(j)[c]
  PROVE  Evens(i, c, calls, k, l, f)
<1>1. Spare(l) = Spare(k)
  BY DEF Spare
<1>2. \A j \in Parts \ {i} : Weight(Ahead(j), calls) + Room(i, j, l) = Ahead(j)[c] + Room(i, j, k)
  BY <1>1 DEF Room
<1>3. i \in Parts
  BY DepthAssumption DEF Stages, Parts, Subscriber
<1>4. CASE f.name \in Filtering
  <2>1. PICK n \in Nat, w \in Nat : n = Ahead(i)[c] /\ n = Weight(Ahead(i), calls) /\ w = k.m_waiting /\ w = l.m_waiting
    <3>1. Ahead(i)[c] \in Nat
      BY <1>3, AheadOf
    <3>2. k.m_waiting \in Nat
      BY SizesAreTyped DEF LinkState
    <3> QED BY <1>3, <1>4, <3>1, <3>2
  <2>2. w + n \in Nat /\ n >= n
    OBVIOUS
  <2>3. Wraps(k.m_waiting + Weight(Ahead(i), calls), l.m_waiting + Ahead(i)[c])
    BY <2>1, <2>2, Wrapped
  <2> QED BY <1>1, <1>2, <1>4, <2>1, <2>2, <2>3 DEF Evens
<1>5. CASE f.name \notin Filtering
  BY <1>1, <1>2, <1>5 DEF Evens
<1> QED BY <1>4, <1>5

LEMMA StaysLeads ==
  ASSUME OperatorsOK, NEW t, NEW i \in Stages, NEW calls \in Seq(PipelineCalls), Passed(t, calls),
         UNCHANGED stageVars, LeadsTo(i, Head(agenda[t]), calls, link[i], link[i], own[i], own[i])
  PROVE  Leads(t, i)
<1>1. /\ own[i] \in OperatorState /\ link[i] \in LinkState
      /\ own' = [own EXCEPT ![i] = own[i]] /\ link' = [link EXCEPT ![i] = link[i]]
  BY DEF OperatorsOK, stageVars
<1> QED BY <1>1 DEF Leads

(* An end that is handed on, and the end that a take or takeWhile makes.   *)
LEMMA EndsLead ==
  ASSUME CallsTypeOK, OperatorsOK, NEW t, NEW i \in Stages,
         \/ Fails(t, i) \/ Stops(t, i, "tested")
         \/ \E values \in Seq(Nat) : EndsWith(t, i, values)
         \/ \E sig : \E when \in {"now", "delayed"} : \E c \in {Completion(i), Failure(i)} : Hands(t, i, sig, when, c)
  PROVE  Leads(t, i)
<1>1. /\ Completion(i) \in Closing /\ Failure(i) \in Closing
      /\ Cancel(i) \in PipelineCalls /\ Call(i, "release", 0) \in PipelineCalls
  <2>1. 0 \in Nat
    OBVIOUS
  <2>2. /\ {Value(i, 0), Completion(i), Failure(i), Subscription(i)} \subseteq PipelineCalls
        /\ {Request(i - 1, 0), Cancel(i - 1), Request(i, 0), Cancel(i)} \subseteq PipelineCalls
        /\ {Call(i - 1, "subscribe", 0), Call(i, "release", 0), Call(i, "tested", 0),
             Call(i, "subscribed", 0), Call(i, "branch", 0)} \subseteq PipelineCalls
    BY <2>1, StageCalls
  <2>3. Completion(i).sig \in Ends /\ Failure(i).sig \in Ends
    BY DEF Completion, Failure, Call, Ends
  <2> QED BY <2>2, <2>3 DEF Closing
<1>2. Releases(i) \in Seq(PipelineCalls)
  BY <1>1 DEF Releases
<1>3. ASSUME NEW calls \in Seq(PipelineCalls), Closes(calls), Passed(t, calls), UNCHANGED stageVars
      PROVE  Leads(t, i)
  BY <1>3, StaysLeads, ClosingLeads
<1>4. ASSUME NEW a \in Seq(PipelineCalls), NEW e \in Closing
      PROVE  a \o <<e>> \o Releases(i) \in Seq(PipelineCalls) /\ Closes(a \o <<e>> \o Releases(i))
  BY <1>2, ClosingWeighs DEF Closes
<1>5. CASE Fails(t, i)
  <2>1. PICK a \in Seq(PipelineCalls) : a = <<>>
    BY NoneWorks
  <2>2. a \o <<Failure(i)>> = <<Failure(i)>>
    BY <1>1, <2>1 DEF Closing
  <2>3. Makes(t, a \o <<Failure(i)>> \o Releases(i)) /\ UNCHANGED stageVars
    BY <1>5, <2>2 DEF Fails, Answers
  <2> QED BY <1>1, <1>3, <1>4, <2>3 DEF Passed
<1>6. CASE Stops(t, i, "tested")
  <2>0. <<Cancel(i)>> \in Seq(PipelineCalls) /\ <<>> \in Seq(PipelineCalls)
    BY <1>1, NoneWorks
  <2>1. PICK a \in Seq(PipelineCalls) : a = IF own[i].held THEN <<Cancel(i)>> ELSE <<>>
    BY <2>0
  <2>2. Makes(t, a \o <<Completion(i)>> \o Releases(i)) /\ UNCHANGED stageVars
    BY <1>6, <2>1 DEF Stops, Answers
  <2> QED BY <1>1, <1>3, <1>4, <2>2 DEF Passed
<1>7. ASSUME NEW values \in Seq(Nat), EndsWith(t, i, values)
      PROVE  Leads(t, i)
  <2>1. PICK a \in Seq(PipelineCalls) : a = [n \in DOMAIN values |-> Value(i, values[n])]
    <3> DEFINE n == Len(values)
    <3>1. n \in Nat /\ DOMAIN values = 1 .. n /\ \A k \in 1 .. n : values[k] \in Nat
      BY LenProperties, ElementOfSeq
    <3>2. \A k \in 1 .. n : Value(i, values[k]) \in PipelineCalls
      BY <3>1, StageCalls
    <3> HIDE DEF n
    <3>3. [k \in 1 .. n |-> Value(i, values[k])] \in Seq(PipelineCalls)
      BY <3>1, <3>2, IsASeq
    <3> QED BY <3>1, <3>3
  <2>2. Makes(t, a \o <<Completion(i)>> \o Releases(i)) /\ UNCHANGED stageVars
    BY <1>7, <2>1 DEF EndsWith, Answers
  <2> QED BY <1>1, <1>3, <1>4, <2>2 DEF Passed
<1>8. ASSUME NEW sig, NEW when \in {"now", "delayed"}, NEW c \in Closing, Hands(t, i, sig, when, c)
      PROVE  Leads(t, i)
  <2>1. c \in PipelineCalls
    BY DEF Closing
  <2>2. PICK calls \in Seq(PipelineCalls) : calls = <<c>> /\ Closes(calls)
    <3>1. PICK z \in Weights : z = One(Closing) /\ z[c] = 1
      BY WeightsOfCalls DEF Closing
    <3>2. Weight(z, <<c>>) = z[c] /\ <<c>> \in Seq(PipelineCalls)
      BY <2>1, WeightOfFew
    <3>3. Weight(z, <<c>>) > 0
      BY <3>1, <3>2
    <3> QED BY <3>1, <3>2, <3>3 DEF Closes
  <2>3. Passed(t, calls) /\ UNCHANGED stageVars
    BY <1>8, <2>1, <2>2 DEF Hands, Passed
  <2> QED BY <1>3, <2>2, <2>3
<1> QED BY <1>1, <1>5, <1>6, <1>7, <1>8

(* The call that a handler takes.                                          *)
LEMMA CallTaken ==
  ASSUME CallsTypeOK, NEW t \in Threads, agenda[t] # <<>>, NEW i, NEW sig, On(t, i, sig)
  PROVE  \E c \in PipelineCalls : /\ c = Head(agenda[t]) /\ c.at = i /\ c.sig = sig
                                  /\ c.arg = Arg(t) /\ c.arg \in Nat
BY HeadIsTyped DEF On, Arg

LEMMA IdleCalls ==
  ASSUME NEW d \in PipelineCalls, d.sig \notin {"request", "tick", "onNext", "filtered"}, NEW j \in Parts
  PROVE  Ahead(j)[d] = 0 /\ Weight(Ahead(j), <<d>>) = 0
<1>1. Ahead(j) \in Weights /\ Ahead(j)[d] = 0
  BY AheadOf, WeightsOfCalls
<1>2. Weight(Ahead(j), <<d>>) = Ahead(j)[d]
  BY <1>1, WeightOfFew
<1> QED BY <1>1, <1>2

(* The handlers that set the stream up.                                    *)
LEMMA SetupLeads ==
  ASSUME CallsTypeOK, OperatorsOK, NEW t \in Threads, agenda[t] # <<>>, NEW i \in Stages,
         \/ Subscribe(t, i) \/ Hands(t, i, "subscribe", "now", Call(i - 1, "subscribe", 0))
         \/ \E keeps \in BOOLEAN : OnSubscribe(t, i, keeps) /\ (Does(i, Filtering) => keeps)
  PROVE  Leads(t, i)
<1>1. Call(i - 1, "subscribe", 0) \in PipelineCalls /\ Subscription(i) \in PipelineCalls
  <2>1. 0 \in Nat
    OBVIOUS
  <2>2. /\ {Value(i, 0), Completion(i), Failure(i), Subscription(i)} \subseteq PipelineCalls
        /\ {Call(i - 1, "subscribe", 0), Call(i, "release", 0), Call(i, "tested", 0),
             Call(i, "subscribed", 0), Call(i, "branch", 0)} \subseteq PipelineCalls
    BY <2>1, StageCalls
  <2> QED BY <2>2
<1>2. own[i] \in OperatorState /\ link[i] \in LinkState
  BY DEF OperatorsOK
<1>3. CASE Subscribe(t, i) \/ Hands(t, i, "subscribe", "now", Call(i - 1, "subscribe", 0))
  <2>1. On(t, i, "subscribe")
    BY <1>3 DEF Subscribe, Hands
  <2>2. PICK c \in PipelineCalls : c = Head(agenda[t]) /\ c.at = i /\ c.sig = "subscribe"
    BY <2>1, CallTaken
  <2>3. PICK d \in PipelineCalls : d = Call(i - 1, "subscribe", 0) /\ d.sig = "subscribe"
    BY <1>1 DEF Call
  <2>4. PICK calls \in Seq(PipelineCalls) : calls = <<d>>
    BY ShortSequences
  <2>5. Passed(t, calls) /\ UNCHANGED stageVars
    BY <1>3, <2>3, <2>4 DEF Passed, Subscribe, Hands
  <2>6. \A j \in Parts : Weight(Ahead(j), calls) = Ahead(j)[c]
    BY <2>2, <2>3, <2>4, IdleCalls
  <2>7. Evens(i, c, calls, link[i], link[i], own[i])
    BY <1>2, <2>6, SameEvens
  <2>8. Goes(i, c, calls, link[i], link[i], own[i], own[i])
    BY <2>2, <2>3, <2>4 DEF Goes
  <2>9. Ceases(i, c, calls, own[i], own[i])
    <3>1. c \notin Closing /\ c \notin Tests(i)
      BY <2>2 DEF Closing, Tests, Ends
    <3> QED BY <3>1 DEF Ceases
  <2>10. LeadsTo(i, c, calls, link[i], link[i], own[i], own[i])
    BY <2>7, <2>8, <2>9 DEF LeadsTo
  <2> QED BY <2>2, <2>5, <2>10, StaysLeads
<1>4. ASSUME NEW keeps \in BOOLEAN, OnSubscribe(t, i, keeps), Does(i, Filtering) => keeps
      PROVE  Leads(t, i)
  <2>1. On(t, i, "onSubscribe")
    BY <1>4 DEF OnSubscribe
  <2>2. PICK c \in PipelineCalls : c = Head(agenda[t]) /\ c.at = i /\ c.sig = "onSubscribe"
    BY <2>1, CallTaken
  <2>3. PICK d \in PipelineCalls : d = Subscription(i) /\ d.sig = "onSubscribe"
    BY <1>1 DEF Subscription, Call
  <2>4. PICK calls \in Seq(PipelineCalls) : calls = <<d>>
    BY ShortSequences
  <2>5. PICK l \in LinkState : l = [held |-> TRUE, m_requested |-> 0, m_waiting |-> 0]
    BY SizesAreTyped DEF LinkState
  <2>6. PICK o \in OperatorState : o = [own[i] EXCEPT !["held"] = keeps] /\ o.name = own[i].name
    BY <1>2, MemberChanges
  <2>7. o.held = keeps /\ o.m_count = own[i].m_count
    BY <1>2, <2>6 DEF OperatorState, Members
  <2>8. own' = [own EXCEPT ![i] = o] /\ link' = [link EXCEPT ![i] = l] /\ Passed(t, calls)
    BY <1>4, <2>3, <2>4, <2>5, <2>6 DEF OnSubscribe, Keep, Passed
  <2>9. \A j \in Parts : Weight(Ahead(j), calls) = Ahead(j)[c]
    BY <2>2, <2>3, <2>4, IdleCalls
  <2>10. ASSUME Apt(i, c, link[i], own[i])
         PROVE  Evens(i, c, calls, link[i], l, own[i]) /\ Goes(i, c, calls, link[i], l, own[i], o)
    <3>1. Blank(link[i])
      BY <2>2, <2>10 DEF Apt, Working
    <3>2. l.m_requested = link[i].m_requested /\ l.m_waiting = link[i].m_waiting
      BY <2>5, <3>1 DEF Blank
    <3>3. Evens(i, c, calls, link[i], l, own[i])
      BY <1>2, <2>9, <3>2, SameEvens
    <3>4. own[i].name \in Filtering => o.held
      BY <1>4, <2>7 DEF Does
    <3>5. Goes(i, c, calls, link[i], l, own[i], o)
      BY <2>2, <2>3, <2>4, <2>5, <3>4 DEF Goes, Blank
    <3> QED BY <3>3, <3>5
  <2>11. Ceases(i, c, calls, own[i], o)
    <3>1. c \notin Closing /\ c \notin Tests(i)
      BY <2>2 DEF Closing, Tests, Ends
    <3> QED BY <2>6, <2>7, <3>1 DEF Ceases
  <2>12. LeadsTo(i, c, calls, link[i], l, own[i], o)
    BY <2>10, <2>11 DEF LeadsTo
  <2> QED BY <2>2, <2>8, <2>12 DEF Leads
<1> QED BY <1>3, <1>4

(* The handlers that give nothing, or no longer.                           *)
LEMMA DullHandlersLead ==
  ASSUME CallsTypeOK, OperatorsOK, NEW t \in Threads, agenda[t] # <<>>, NEW i \in Stages,
         \/ Release(t, i) \/ ForwardCancel(t, i) \/ FilterCancel(t, i)
         \/ own[i].name = "take" /\ own[i].m_count = 0 /\ Ignores(t, i)
         \/ own[i].name = "take" /\ own[i].m_count > 0 /\ Answers(t, i, "tested", <<>>)
  PROVE  Leads(t, i)
<1>1. own[i] \in OperatorState /\ link[i] \in LinkState
  BY DEF OperatorsOK
<1>2. <<>> \in Seq(PipelineCalls) /\ <<>> \in Seq(Working) /\ <<Cancel(i - 1)>> \in Seq(PipelineCalls)
  <2>1. 0 \in Nat
    OBVIOUS
  <2>2. {Request(i - 1, 0), Cancel(i - 1), Request(i, 0), Cancel(i)} \subseteq PipelineCalls
    BY <2>1, StageCalls
  <2> QED BY <2>2, NoneWorks
<1>3. ASSUME NEW c \in PipelineCalls, c.sig \in {"release", "cancel"}, NEW k, NEW f
      PROVE  c \notin Closing /\ c \notin Tests(i) /\ ~Apt(i, c, k, f)
  <2>1. c \notin Working /\ c \notin Setups
    BY <1>3 DEF Working, Setups, Call
  <2> QED BY <1>3, <2>1 DEF Closing, Tests, Ends, Apt
<1>4. CASE Release(t, i)
  <2>1. PICK c \in PipelineCalls : c = Head(agenda[t]) /\ c.sig = "release"
    BY <1>4, CallTaken DEF Release
  <2>2. PICK o \in OperatorState : o = [own[i] EXCEPT !["held"] = FALSE] /\ o.name = own[i].name
    BY <1>1, MemberChanges
  <2>3. o.m_count = own[i].m_count
    BY <1>1, <2>2 DEF OperatorState, Members
  <2>4. PICK calls \in Seq(PipelineCalls) : calls = <<>>
    BY <1>2
  <2>5. own' = [own EXCEPT ![i] = o] /\ link' = [link EXCEPT ![i] = link[i]] /\ Passed(t, calls)
    BY <1>4, <2>2, <2>4 DEF Release, Keep, Passed, OperatorsOK
  <2>6. LeadsTo(i, c, calls, link[i], link[i], own[i], o)
    BY <1>3, <2>1, <2>2, <2>3, DullLeads
  <2> QED BY <1>1, <2>1, <2>5, <2>6 DEF Leads
<1>5. CASE ForwardCancel(t, i)
  <2>1. PICK c \in PipelineCalls : c = Head(agenda[t]) /\ c.sig = "cancel"
    BY <1>5, CallTaken DEF ForwardCancel
  <2>2. PICK l \in LinkState : l = [link[i] EXCEPT !.held = FALSE]
    BY <1>1 DEF LinkState
  <2>3. PICK calls \in Seq(PipelineCalls) : calls = IF link[i].held THEN <<Cancel(i - 1)>> ELSE <<>>
    BY <1>2
  <2>4. own' = [own EXCEPT ![i] = own[i]] /\ link' = [link EXCEPT ![i] = l] /\ Passed(t, calls)
    BY <1>5, <2>2, <2>3 DEF ForwardCancel, Passed, OperatorsOK
  <2>5. LeadsTo(i, c, calls, link[i], l, own[i], own[i])
    BY <1>3, <2>1, DullLeads
  <2> QED BY <1>1, <2>1, <2>4, <2>5 DEF Leads
<1>6. CASE FilterCancel(t, i)
  <2>1. PICK c \in PipelineCalls : c = Head(agenda[t]) /\ c.sig = "cancel"
    BY <1>6, CallTaken DEF FilterCancel
  <2>2. PICK calls \in Seq(PipelineCalls) : calls = <<Cancel(i - 1)>>
    BY <1>2
  <2>3. UNCHANGED stageVars /\ Passed(t, calls)
    BY <1>6, <2>2 DEF FilterCancel, Passed
  <2>4. LeadsTo(i, c, calls, link[i], link[i], own[i], own[i])
    BY <1>3, <2>1, DullLeads
  <2> QED BY <2>1, <2>3, <2>4, StaysLeads
<1>7. CASE own[i].name = "take" /\ own[i].m_count = 0 /\ Ignores(t, i)
  <2>1. PICK c \in PipelineCalls : c = Head(agenda[t]) /\ c.sig = "onNext"
    BY <1>7, CallTaken DEF Ignores, Answers
  <2>2. PICK calls \in Seq(PipelineCalls) : calls = <<>>
    BY <1>2
  <2>3. UNCHANGED stageVars /\ Passed(t, calls)
    BY <1>7, <2>2 DEF Ignores, Answers, Passed
  <2>4. c \notin Closing /\ c \notin Tests(i) /\ ~Apt(i, c, link[i], own[i])
    BY <1>7, <2>1 DEF Closing, Tests, Ends, Apt
  <2>5. LeadsTo(i, c, calls, link[i], link[i], own[i], own[i])
    BY <2>4, DullLeads
  <2> QED BY <2>1, <2>3, <2>5, StaysLeads
<1>8. CASE own[i].name = "take" /\ own[i].m_count > 0 /\ Answers(t, i, "tested", <<>>)
  <2>1. PICK c \in PipelineCalls : c = Head(agenda[t]) /\ c.sig = "tested"
    BY <1>8, CallTaken DEF Answers
  <2>2. PICK calls \in Seq(Working) : calls = <<>> /\ calls \in Seq(PipelineCalls)
    BY <1>2
  <2>3. UNCHANGED stageVars /\ Passed(t, calls)
    BY <1>8, <2>2 DEF Answers, Passed
  <2>4. \A j \in Parts : Weight(Ahead(j), calls) = Ahead(j)[c]
    BY <2>1, <2>2, NoneWorks, IdleCalls
  <2>5. Evens(i, c, calls, link[i], link[i], own[i])
    BY <1>1, <2>2, <2>4, SameEvens
  <2>6. c \in Working
    BY <2>1 DEF Working
  <2>7. own[i].m_count # 0
    BY <1>1, <1>8, SizesAreTyped DEF OperatorState, Members
  <2>8. LeadsTo(i, c, calls, link[i], link[i], own[i], own[i])
    BY <2>5, <2>6, <2>7, WorkingLeads
  <2> QED BY <2>1, <2>2, <2>3, <2>8, StaysLeads
<1> QED BY <1>4, <1>5, <1>6, <1>7, <1>8

(* A request that is passed on.                                            *)
LEMMA RequestAhead ==
  ASSUME NEW i \in Stages, NEW n \in Nat
  PROVE  /\ <<Request(i - 1, n)>> \in Seq(Working)
         /\ \A j \in Parts : Weight(Ahead(j), <<Request(i - 1, n)>>) = IF i <= j THEN n ELSE 0
<1>1. PICK d \in Working : d = Request(i - 1, n) /\ \A j \in Parts : Ahead(j)[d] = IF i <= j THEN n ELSE 0
  <2>0. 1 \in Parts
    BY DepthAssumption DEF Parts, Subscriber
  <2>1. Request(i - 1, n) \in Working
    BY <2>0, AheadByStage
  <2>2. \A j \in Parts : Ahead(j)[Request(i - 1, n)] = IF i <= j THEN n ELSE 0
    BY AheadByStage
  <2> QED BY <2>1, <2>2
<1>2. \A j \in Parts : Weight(Ahead(j), <<d>>) = Ahead(j)[d]
  BY FewAhead
<1>3. <<d>> \in Seq(Working)
  BY WorkingCalls
<1> QED BY <1>1, <1>2, <1>3

LEMMA PartsInOrder ==
  ASSUME NEW i \in Stages, NEW j \in Parts
  PROVE  i \in Nat /\ j \in Nat /\ i \in Parts /\ (j # i => (i <= j <=> i < j)) /\ ~(i < i) /\ i <= i
BY DepthAssumption DEF Stages, Parts, Subscriber

LEMMA StageItself ==
  ASSUME NEW i \in Stages
  PROVE  i \in Nat /\ i \in Parts /\ ~(i < i) /\ i <= i
BY DepthAssumption DEF Stages, Parts, Subscriber

LEMMA RequestsLead ==
  ASSUME CallsTypeOK, OperatorsOK, NEW t \in Threads, agenda[t] # <<>>, NEW i \in Stages,
         ForwardRequest(t, i) \/ FilterRequest(t, i)
  PROVE  Leads(t, i)
<1>1. own[i] \in OperatorState /\ link[i] \in LinkState
  BY DEF OperatorsOK
<1>2. On(t, i, "request")
  BY DEF ForwardRequest, FilterRequest
<1>3. PICK c \in PipelineCalls, n \in Nat :
        c = Head(agenda[t]) /\ c.at = i /\ c.sig = "request" /\ c.arg = n /\ n = Arg(t)
  BY <1>2, CallTaken
<1>4. c \in Working /\ c \notin Closing /\ c \notin Tests(i)
  BY <1>3 DEF Working, Closing, Tests, Ends
<1>5. \A j \in Parts : Ahead(j)[c] = IF i < j THEN n ELSE 0
  BY <1>3, AheadOf
<1>6. PICK asks \in Seq(Working) :
        /\ asks = <<Request(i - 1, n)>> /\ asks \in Seq(PipelineCalls)
        /\ \A j \in Parts : Weight(Ahead(j), asks) = IF i <= j THEN n ELSE 0
  <2>1. /\ <<Request(i - 1, n)>> \in Seq(Working)
        /\ \A j \in Parts : Weight(Ahead(j), <<Request(i - 1, n)>>) = IF i <= j THEN n ELSE 0
    BY RequestAhead
  <2> QED BY <2>1, WorkingCalls
<1>7. \A j \in Parts \ {i} : Weight(Ahead(j), asks) = Ahead(j)[c]
  <2> SUFFICES ASSUME NEW j \in Parts, j # i PROVE Weight(Ahead(j), asks) = Ahead(j)[c]
    OBVIOUS
  <2>1. i <= j <=> i < j
    BY PartsInOrder
  <2>2. Ahead(j)[c] = IF i < j THEN n ELSE 0
    BY <1>5
  <2>3. Weight(Ahead(j), asks) = IF i <= j THEN n ELSE 0
    BY <1>6
  <2> QED BY <2>1, <2>2, <2>3
<1>8. CASE ForwardRequest(t, i)
  <2>1. own[i].name \notin Filtering /\ UNCHANGED stageVars
    BY <1>8 DEF ForwardRequest, Does
  <2>2. CASE link[i].held
    <3>1. Passed(t, asks)
      BY <1>3, <1>6, <1>8, <2>2 DEF ForwardRequest, Passed
    <3>2. Evens(i, c, asks, link[i], link[i], own[i])
      BY <1>1, <1>6, <1>7, <2>1, SameEvens
    <3>3. LeadsTo(i, c, asks, link[i], link[i], own[i], own[i])
      BY <1>4, <3>2, WorkingLeads
    <3> QED BY <1>3, <1>6, <2>1, <3>1, <3>3, StaysLeads
  <2>3. CASE ~link[i].held
    <3>1. PICK e \in Seq(PipelineCalls) : e = <<>>
      BY NoneWorks
    <3>2. Passed(t, e)
      BY <1>8, <2>3, <3>1 DEF ForwardRequest, Passed
    <3>3. ~Apt(i, c, link[i], own[i])
      <4>1. c \notin Setups
        BY <1>3 DEF Setups, Call
      <4> QED BY <2>3, <4>1 DEF Apt
    <3>4. LeadsTo(i, c, e, link[i], link[i], own[i], own[i])
      BY <1>4, <3>3, DullLeads
    <3> QED BY <1>3, <2>1, <3>2, <3>4, StaysLeads
  <2> QED BY <2>2, <2>3
<1>9. CASE FilterRequest(t, i)
  <2>0. own[i].name \in Filtering /\ own' = own
    BY <1>9 DEF FilterRequest, Does
  <2>1. PICK l \in LinkState :
          /\ l = [link[i] EXCEPT !.m_requested = Plus(@, n), !.m_waiting = Plus(@, n)]
          /\ l.m_requested = Plus(link[i].m_requested, n) /\ l.m_waiting = Plus(link[i].m_waiting, n)
          /\ l.held = link[i].held
    <3>1. link[i].m_requested \in Nat /\ link[i].m_waiting \in Nat
      BY <1>1, SizesAreTyped DEF LinkState
    <3>2. Plus(link[i].m_requested, n) \in Size /\ Plus(link[i].m_waiting, n) \in Size
      BY <3>1, SizesAreTyped
    <3> DEFINE l == [link[i] EXCEPT !.m_requested = Plus(@, n), !.m_waiting = Plus(@, n)]
    <3>3. l \in LinkState
      BY <1>1, <3>2 DEF LinkState
    <3>4. /\ l.m_requested = Plus(link[i].m_requested, n) /\ l.m_waiting = Plus(link[i].m_waiting, n)
          /\ l.held = link[i].held
      BY <1>1 DEF LinkState
    <3> QED BY <3>3, <3>4
  <2>2. link' = [link EXCEPT ![i] = l] /\ own' = [own EXCEPT ![i] = own[i]] /\ Passed(t, asks)
    BY <1>3, <1>6, <1>9, <2>0, <2>1 DEF FilterRequest, Passed, OperatorsOK
  <2>3. Spare(l) = Spare(link[i])
    BY <1>1, <2>1, SpareOfRequest
  <2>4. \A j \in Parts \ {i} : Weight(Ahead(j), asks) + Room(i, j, l) = Ahead(j)[c] + Room(i, j, link[i])
    BY <1>7, <2>3 DEF Room
  <2>5. Weight(Ahead(i), asks) = n /\ Ahead(i)[c] = 0
    <3>1. i \in Parts /\ ~(i < i) /\ i <= i
      BY StageItself
    <3> QED BY <1>5, <1>6, <3>1
  <2>6. PICK w \in Nat : w = link[i].m_waiting
    BY <1>1, SizesAreTyped DEF LinkState
  <2>7. Wraps(w + n, Plus(w, n))
    BY Wrapped
  <2>8. Plus(w, n) + 0 = Plus(w, n) /\ n >= 0
    <3>1. Plus(w, n) \in Nat
      BY SizesAreTyped
    <3> QED BY <3>1
  <2>9. Evens(i, c, asks, link[i], l, own[i])
    BY <2>0, <2>1, <2>3, <2>4, <2>5, <2>6, <2>7, <2>8 DEF Evens
  <2>10. LeadsTo(i, c, asks, link[i], l, own[i], own[i])
    BY <1>4, <2>1, <2>9, WorkingLeads
  <2> QED BY <1>1, <1>3, <1>6, <2>2, <2>10 DEF Leads
<1> QED BY <1>8, <1>9

(* The answer to a value, and the request for those that were dropped.     *)
LEMMA FilteredLeads ==
  ASSUME CallsTypeOK, OperatorsOK, NEW t \in Threads, agenda[t] # <<>>, NEW i \in Stages,
         FilterOnNext(t, i), Does(i, Filtering)
  PROVE  Leads(t, i)
<1>1. own[i] \in OperatorState /\ link[i] \in LinkState /\ own[i].name \in Filtering
  BY DEF OperatorsOK, Does
<1>2. On(t, i, "filtered") /\ own' = own
  BY DEF FilterOnNext
<1>3. PICK c \in PipelineCalls, n \in Nat :
        c = Head(agenda[t]) /\ c.at = i /\ c.sig = "filtered" /\ c.arg = n /\ n = Arg(t)
  BY <1>2, CallTaken
<1>4. c \in Working /\ c \notin Closing /\ c \notin Tests(i) /\ c \notin Setups
  BY <1>3 DEF Working, Closing, Tests, Ends, Setups, Call
<1>5. CASE ~own[i].held
  <2>1. PICK e \in Seq(PipelineCalls) : e = <<>>
    BY NoneWorks
  <2>2. Passed(t, e) /\ UNCHANGED stageVars
    BY <1>5, <2>1 DEF FilterOnNext, Passed, stageVars
  <2>3. ~Apt(i, c, link[i], own[i])
    BY <1>1, <1>4, <1>5 DEF Apt
  <2>4. LeadsTo(i, c, e, link[i], link[i], own[i], own[i])
    BY <1>4, <2>3, DullLeads
  <2> QED BY <1>3, <2>2, <2>4, StaysLeads
<1>6. CASE own[i].held
  <2>1. PICK waiting \in Size, requested \in Size :
          /\ waiting = Decrement(link[i].m_waiting)
          /\ requested = IF n = 1 THEN link[i].m_requested ELSE Decrement(link[i].m_requested)
    <3>1. link[i].m_waiting \in Size /\ link[i].m_requested \in Size
      BY <1>1 DEF LinkState
    <3> QED BY <3>1, SizesAreTyped
  <2>2. PICK refill \in BOOLEAN : refill = (waiting = 0 /\ requested # 0)
    OBVIOUS
  <2>3. PICK l \in LinkState :
          /\ l = [link[i] EXCEPT !.m_requested = requested,
                                 !.m_waiting = IF refill THEN requested ELSE waiting]
          /\ l.m_requested = requested /\ l.m_waiting = IF refill THEN requested ELSE waiting
          /\ l.held = link[i].held
    <3>1. PICK rest \in Size : rest = IF refill THEN requested ELSE waiting
      BY <2>1
    <3> DEFINE l == [link[i] EXCEPT !.m_requested = requested, !.m_waiting = rest]
    <3>2. l \in LinkState
      BY <1>1, <2>1, <3>1 DEF LinkState
    <3>3. l.m_requested = requested /\ l.m_waiting = rest /\ l.held = link[i].held
      BY <1>1 DEF LinkState
    <3> QED BY <3>1, <3>2, <3>3
  <2>4. requested \in Nat /\ waiting \in Nat
    BY SizesAreTyped
  <2>5. PICK calls \in Seq(Working) :
          /\ calls = IF refill THEN <<Request(i - 1, requested)>> ELSE <<>>
          /\ calls \in Seq(PipelineCalls)
          /\ \A j \in Parts : Weight(Ahead(j), calls) = IF refill /\ i <= j THEN requested ELSE 0
    <3>1. /\ <<Request(i - 1, requested)>> \in Seq(Working)
          /\ \A j \in Parts : Weight(Ahead(j), <<Request(i - 1, requested)>>) = IF i <= j THEN requested ELSE 0
      BY <2>4, RequestAhead
    <3>2. \A s \in Seq(Working) : s \in Seq(PipelineCalls)
      BY WorkingCalls
    <3>3. CASE refill
      <4>1. \A j \in Parts : Weight(Ahead(j), <<Request(i - 1, requested)>>) = IF refill /\ i <= j THEN requested ELSE 0
        BY <3>1, <3>3
      <4> QED BY <3>1, <3>2, <3>3, <4>1
    <3>4. CASE ~refill
      BY <3>4, NoneWorks
    <3> QED BY <3>3, <3>4
  <2>6. own' = [own EXCEPT ![i] = own[i]] /\ link' = [link EXCEPT ![i] = l] /\ Passed(t, calls)
    <3>1. /\ link' = [link EXCEPT ![i].m_requested = requested,
                                  ![i].m_waiting = IF refill THEN requested ELSE waiting]
          /\ Makes(t, IF refill THEN <<Request(i - 1, requested)>> ELSE <<>>)
      BY <1>3, <1>6, <2>1, <2>2 DEF FilterOnNext
    <3> QED BY <1>2, <2>3, <2>5, <3>1 DEF Passed, OperatorsOK
  <2>7. ASSUME Apt(i, c, link[i], own[i])
        PROVE  Evens(i, c, calls, link[i], l, own[i])
    <3>1. n = 1 => Spare(link[i]) + 1 <= SizeMax
      BY <1>3, <2>7 DEF Apt
    <3>2. PICK s \in Nat, x \in Nat : s = Spare(link[i]) /\ x = IF n = 1 THEN 1 ELSE 0
      <4>1. Spare(link[i]) \in Nat
        BY <1>1, SparesAre
      <4> QED BY <4>1
    <3>3. /\ Apart(requested, waiting, SizeMax + 1) = s + x
          /\ waiting = 0 => requested = s + x
      <4>1. PICK k \in LinkState : k = link[i]
        BY <1>1
      <4>2. /\ waiting = Decrement(k.m_waiting)
            /\ requested = IF n = 1 THEN k.m_requested ELSE Decrement(k.m_requested)
            /\ n = 1 => Spare(k) + 1 <= SizeMax
        BY <2>1, <3>1, <4>1
      <4>3. /\ Apart(requested, waiting, SizeMax + 1) = Spare(k) + IF n = 1 THEN 1 ELSE 0
            /\ waiting = 0 => requested = Spare(k) + IF n = 1 THEN 1 ELSE 0
        <5>1. n \in Nat
          BY <1>3
        <5>2. waiting = Decrement(k.m_waiting) /\ requested = StillAsked(k, n)
          BY <4>2 DEF StillAsked
        <5>3. /\ Apart(StillAsked(k, n), Decrement(k.m_waiting), SizeMax + 1) = Spare(k) + IF n = 1 THEN 1 ELSE 0
              /\ Decrement(k.m_waiting) = 0 => StillAsked(k, n) = Spare(k) + IF n = 1 THEN 1 ELSE 0
          BY <4>2, <5>1, SpareOfValue
        <5> QED BY <5>2, <5>3
      <4> QED BY <3>2, <4>1, <4>3
    <3>4. Spare(l) = IF refill THEN 0 ELSE s + x
      <4>1. Apart(requested, requested, SizeMax + 1) = 0
        BY <2>4 DEF Apart
      <4> QED BY <2>3, <3>3, <4>1 DEF Spare
    <3>5. ASSUME NEW j \in Parts, j # i
          PROVE  Weight(Ahead(j), calls) + Room(i, j, l) = Ahead(j)[c] + Room(i, j, link[i])
      <4>1. i <= j <=> i < j
        BY <3>5, PartsInOrder
      <4>2. i \in Nat /\ j \in Nat
        BY PartsInOrder
      <4>3. CASE i < j
        <5>1. Ahead(j)[c] = x
          <6>1. Ahead(j)[c] = IF i = j \/ (i < j /\ n = 1) THEN 1 ELSE 0
            BY <1>3, AheadOf
          <6> QED BY <3>2, <3>5, <4>3, <6>1
        <5>2. Weight(Ahead(j), calls) = IF refill THEN requested ELSE 0
          BY <2>5, <4>1, <4>3
        <5>3. Room(i, j, l) = (IF refill THEN 0 ELSE s + x) /\ Room(i, j, link[i]) = s
          BY <3>2, <3>4, <4>3 DEF Room
        <5>4. (IF refill THEN requested ELSE 0) + (IF refill THEN 0 ELSE s + x) = x + s
          <6>1. CASE refill
            <7>1. requested = s + x
              BY <2>2, <3>3, <6>1
            <7>2. requested + 0 = x + s
              BY <2>4, <7>1
            <7> QED BY <6>1, <7>2
          <6>2. CASE ~refill
            <7>1. 0 + (s + x) = x + s
              OBVIOUS
            <7> QED BY <6>2, <7>1
          <6> QED BY <6>1, <6>2
        <5> QED BY <5>1, <5>2, <5>3, <5>4
      <4>4. CASE ~(i < j)
        <5>1. Ahead(j)[c] = 0
          <6>1. Ahead(j)[c] = IF i = j \/ (i < j /\ n = 1) THEN 1 ELSE 0
            BY <1>3, AheadOf
          <6> QED BY <3>5, <4>4, <6>1
        <5>2. Weight(Ahead(j), calls) = 0
          BY <2>5, <4>1, <4>4
        <5>3. Room(i, j, l) = 0 /\ Room(i, j, link[i]) = 0
          BY <4>4 DEF Room
        <5> QED BY <5>1, <5>2, <5>3
      <4> QED BY <4>3, <4>4
    <3>6. Ahead(i)[c] = 1 /\ Weight(Ahead(i), calls) = IF refill THEN requested ELSE 0
      <4>1. i \in Parts /\ ~(i < i) /\ i <= i
        BY StageItself
      <4>2. Ahead(i)[c] = IF i = i \/ (i < i /\ n = 1) THEN 1 ELSE 0
        BY <1>3, <4>1, AheadOf
      <4> QED BY <2>5, <4>1, <4>2
    <3>7. Wraps(link[i].m_waiting + Weight(Ahead(i), calls), l.m_waiting + Ahead(i)[c])
      <4>1. PICK k \in Size : k = link[i].m_waiting /\ k \in Nat
        BY <1>1, SizesAreTyped DEF LinkState
      <4>2. Wraps(k, waiting + 1)
        BY <2>1, <4>1, Wrapped
      <4>3. CASE ~refill
        <5>1. k + 0 = k
          BY <4>1
        <5> QED BY <2>3, <3>6, <4>1, <4>2, <4>3, <5>1
      <4>4. CASE refill
        <5>1. PICK q \in Int : k = (waiting + 1) + (SizeMax + 1) * q
          BY <4>2 DEF Wraps
        <5>2. PICK m \in Int : m = (SizeMax + 1) * q
          BY SizeAssumption
        <5>3. waiting = 0
          BY <2>2, <4>4
        <5>4. k = 1 + m
          BY <5>1, <5>2, <5>3
        <5>5. k + requested = (requested + 1) + m
          BY <2>4, <4>1, <5>4
        <5>6. Wraps(k + requested, requested + 1)
          BY <5>2, <5>5 DEF Wraps
        <5> QED BY <2>3, <3>6, <4>1, <4>4, <5>6
      <4> QED BY <4>3, <4>4
    <3>8. Spare(l) # 0 => l.m_waiting # 0
      <4>1. CASE refill
        BY <3>4, <4>1
      <4>2. CASE ~refill
        <5>1. waiting = 0 => requested = 0
          BY <2>2, <4>2
        <5> QED BY <2>3, <3>3, <3>4, <4>2, <5>1
      <4> QED BY <4>1, <4>2
    <3> QED BY <1>1, <3>5, <3>7, <3>8 DEF Evens
  <2>8. LeadsTo(i, c, calls, link[i], l, own[i], own[i])
    BY <1>4, <2>3, <2>7, WorkingLeads
  <2> QED BY <1>1, <1>3, <2>5, <2>6, <2>8 DEF Leads
<1> QED BY <1>5, <1>6

(* An operator that has been given a value gives it, or drops it.          *)
LEMMA GivesLead ==
  ASSUME CallsTypeOK, OperatorsOK, NEW t \in Threads, agenda[t] # <<>>, NEW i \in Stages,
         On(t, i, "onNext"), NEW calls \in Seq(Working), NEW o \in OperatorState,
         Passed(t, calls), own' = [own EXCEPT ![i] = o], UNCHANGED link,
         o.held = own[i].held, o.name = own[i].name,
         o.m_count = own[i].m_count \/ (own[i].m_count # 0 /\ Weight(One(Tests(i)), calls) > 0),
         \A j \in Parts : j # i \/ Does(i, Filtering) => Weight(Ahead(j), calls) = IF i <= j THEN 1 ELSE 0
  PROVE  Leads(t, i)
<1>1. own[i] \in OperatorState /\ link[i] \in LinkState
  BY DEF OperatorsOK
<1>2. PICK c \in PipelineCalls : c = Head(agenda[t]) /\ c.at = i /\ c.sig = "onNext"
  BY CallTaken
<1>3. c \in Working /\ c \notin Tests(i)
  BY <1>2 DEF Working, Tests
<1>4. \A j \in Parts : j # i \/ own[i].name \in Filtering => Weight(Ahead(j), calls) = Ahead(j)[c]
  <2> SUFFICES ASSUME NEW j \in Parts, j # i \/ own[i].name \in Filtering
               PROVE  Weight(Ahead(j), calls) = Ahead(j)[c]
    OBVIOUS
  <2>1. Ahead(j)[c] = IF i <= j THEN 1 ELSE 0
    BY <1>2, AheadOf
  <2> QED BY <2>1 DEF Does
<1>5. calls \in Seq(PipelineCalls)
  BY WorkingCalls
<1>6. Evens(i, c, calls, link[i], link[i], own[i])
  BY <1>1, <1>4, <1>5, SameEvens
<1>7. LeadsTo(i, c, calls, link[i], link[i], own[i], o)
  BY <1>3, <1>6, WorkingLeads
<1>8. link' = [link EXCEPT ![i] = link[i]]
  BY DEF OperatorsOK
<1> QED BY <1>1, <1>2, <1>5, <1>7, <1>8 DEF Leads

(* The last call of take tests whether it was the last value.              *)
LEMMA TakeTests ==
  ASSUME NEW i \in Stages, NEW v \in Nat
  PROVE  Weight(One(Tests(i)), <<Value(i, v), Filtered(i, FALSE), Call(i, "tested", 0)>>) > 0
<1>1. PICK a \in PipelineCalls, b \in PipelineCalls, c \in PipelineCalls :
        /\ a = Value(i, v) /\ b = Filtered(i, FALSE) /\ c = Call(i, "tested", 0)
        /\ c.at = i /\ c.sig = "tested"
  <2>1. Value(i, v) \in PipelineCalls /\ Filtered(i, FALSE) \in PipelineCalls
    BY StageCalls
  <2>2. Call(i, "tested", 0) \in PipelineCalls
    BY StageCalls
  <2> QED BY <2>1, <2>2 DEF Call
<1>2. PICK z \in Weights : z = One(Tests(i)) /\ z[c] = 1
  <2>1. One(Tests(i)) \in Weights /\ One(Tests(i))[c] = IF c \in Tests(i) THEN 1 ELSE 0
    BY WeightsOfCalls
  <2>2. c \in Tests(i)
    BY <1>1 DEF Tests
  <2> QED BY <2>1, <2>2
<1>3. Weight(z, <<a, b, c>>) = z[a] + z[b] + z[c]
  BY WeightOfFew
<1>4. PICK x \in Nat, y \in Nat : x = z[a] /\ y = z[b]
  BY DEF Weights
<1>5. x + y + 1 > 0
  OBVIOUS
<1> QED BY <1>1, <1>2, <1>3, <1>4, <1>5

(* A value, whatever the operator.                                         *)
LEMMA ValuesLead ==
  ASSUME CallsTypeOK, OperatorsOK, NEW t \in Threads, agenda[t] # <<>>, NEW i \in Stages, NEW v \in Nat,
         \/ /\ own[i].name \notin Filtering
            /\ \/ Answers(t, i, "onNext", <<Value(i, v)>>)
               \/ Notes(t, i, "onNext", "m_flag", TRUE, <<Value(i, v)>>)
               \/ \E when \in {"now", "delayed"} : Hands(t, i, "onNext", when, Value(i, v))
         \/ \E calls \in {<<Value(i, v), Filtered(i, FALSE)>>, <<Filtered(i, TRUE)>>,
                          <<Filtered(i, TRUE), Call(i, "tested", 0)>>} : Answers(t, i, "onNext", calls)
         \/ /\ own[i].m_count > 0
            /\ Notes(t, i, "onNext", "m_count", own[i].m_count - 1,
                     <<Value(i, v), Filtered(i, FALSE), Call(i, "tested", 0)>>)
  PROVE  Leads(t, i)
<1>1. own[i] \in OperatorState /\ own[i] \in Members
  BY DEF OperatorsOK, OperatorState
<1>2. On(t, i, "onNext")
  BY DEF Answers, Notes, Hands
<1>3. i \in Parts
  BY StageItself
<1>4. CASE /\ own[i].name \notin Filtering
           /\ \/ Answers(t, i, "onNext", <<Value(i, v)>>)
              \/ Notes(t, i, "onNext", "m_flag", TRUE, <<Value(i, v)>>)
              \/ \E when \in {"now", "delayed"} : Hands(t, i, "onNext", when, Value(i, v))
  <2>1. <<Value(i, v)>> \in Seq(Working) /\ Value(i, v) \in PipelineCalls
    <3>1. {<<Value(i, v)>>, <<Value(i, v), Filtered(i, FALSE)>>,
           <<Value(i, v), Filtered(i, FALSE), Call(i, "tested", 0)>>,
           <<Filtered(i, TRUE)>>, <<Filtered(i, TRUE), Call(i, "tested", 0)>>} \subseteq Seq(Working)
      BY <1>3, GivesAhead
    <3>2. {Value(i, v), Completion(i), Failure(i), Subscription(i)} \subseteq PipelineCalls
      BY StageCalls
    <3> QED BY <3>1, <3>2
  <2>2. ASSUME NEW j \in Parts, j # i \/ Does(i, Filtering)
        PROVE  Weight(Ahead(j), <<Value(i, v)>>) = IF i <= j THEN 1 ELSE 0
    <3>1. Weight(Ahead(j), <<Value(i, v)>>) = IF i < j THEN 1 ELSE 0
      BY GivesAhead
    <3>2. j # i
      BY <1>4, <2>2 DEF Does
    <3>3. i <= j <=> i < j
      BY <3>2, PartsInOrder
    <3> QED BY <3>1, <3>3
  <2>3. PICK calls \in Seq(Working) : /\ calls = <<Value(i, v)>>
                                      /\ \A j \in Parts : j # i \/ Does(i, Filtering) =>
                                           Weight(Ahead(j), calls) = IF i <= j THEN 1 ELSE 0
    BY <2>1, <2>2
  <2>4. Passed(t, calls) /\ UNCHANGED link
    BY <1>4, <2>1, <2>3 DEF Answers, Notes, Hands, Passed, stageVars
  <2>5. CASE Notes(t, i, "onNext", "m_flag", TRUE, <<Value(i, v)>>)
    <3>1. PICK o \in OperatorState : o = [own[i] EXCEPT !["m_flag"] = TRUE] /\ o.name = own[i].name
      BY <1>1, MemberChanges
    <3>2. o.held = own[i].held /\ o.m_count = own[i].m_count
      BY <1>1, <3>1 DEF Members
    <3>3. own' = [own EXCEPT ![i] = o]
      BY <2>5, <3>1 DEF Notes, Keep
    <3> QED BY <1>2, <2>3, <2>4, <3>1, <3>2, <3>3, GivesLead
  <2>6. CASE ~Notes(t, i, "onNext", "m_flag", TRUE, <<Value(i, v)>>)
    <3>1. own' = [own EXCEPT ![i] = own[i]]
      BY <1>4, <2>6 DEF Answers, Hands, stageVars, OperatorsOK
    <3> QED BY <1>1, <1>2, <2>3, <2>4, <3>1, GivesLead
  <2> QED BY <2>5, <2>6
<1>5. ASSUME NEW calls \in {<<Value(i, v), Filtered(i, FALSE)>>, <<Filtered(i, TRUE)>>,
                          <<Filtered(i, TRUE), Call(i, "tested", 0)>>}, Answers(t, i, "onNext", calls)
      PROVE  Leads(t, i)
  <2>1. calls \in Seq(Working)
    <3>1. {<<Value(i, v)>>, <<Value(i, v), Filtered(i, FALSE)>>,
           <<Value(i, v), Filtered(i, FALSE), Call(i, "tested", 0)>>,
           <<Filtered(i, TRUE)>>, <<Filtered(i, TRUE), Call(i, "tested", 0)>>} \subseteq Seq(Working)
      BY <1>3, GivesAhead
    <3> QED BY <1>5, <3>1
  <2>2. ASSUME NEW j \in Parts
        PROVE  Weight(Ahead(j), calls) = IF i <= j THEN 1 ELSE 0
    <3>1. \A s \in {<<Value(i, v), Filtered(i, FALSE)>>,
                    <<Value(i, v), Filtered(i, FALSE), Call(i, "tested", 0)>>,
                    <<Filtered(i, TRUE)>>, <<Filtered(i, TRUE), Call(i, "tested", 0)>>} :
            Weight(Ahead(j), s) = IF i <= j THEN 1 ELSE 0
      BY GivesAhead
    <3> QED BY <1>5, <3>1
  <2>3. Passed(t, calls) /\ UNCHANGED link /\ own' = [own EXCEPT ![i] = own[i]]
    BY <1>5 DEF Answers, Passed, stageVars, OperatorsOK
  <2> QED BY <1>1, <1>2, <2>1, <2>2, <2>3, GivesLead
<1>6. CASE /\ own[i].m_count > 0
           /\ Notes(t, i, "onNext", "m_count", own[i].m_count - 1,
                    <<Value(i, v), Filtered(i, FALSE), Call(i, "tested", 0)>>)
  <2>1. <<Value(i, v), Filtered(i, FALSE), Call(i, "tested", 0)>> \in Seq(Working)
    <3>1. {<<Value(i, v)>>, <<Value(i, v), Filtered(i, FALSE)>>,
           <<Value(i, v), Filtered(i, FALSE), Call(i, "tested", 0)>>,
           <<Filtered(i, TRUE)>>, <<Filtered(i, TRUE), Call(i, "tested", 0)>>} \subseteq Seq(Working)
      BY <1>3, GivesAhead
    <3> QED BY <3>1
  <2>2. ASSUME NEW j \in Parts
        PROVE  Weight(Ahead(j), <<Value(i, v), Filtered(i, FALSE), Call(i, "tested", 0)>>)
                 = IF i <= j THEN 1 ELSE 0
    <3>1. \A s \in {<<Value(i, v), Filtered(i, FALSE)>>,
                    <<Value(i, v), Filtered(i, FALSE), Call(i, "tested", 0)>>,
                    <<Filtered(i, TRUE)>>, <<Filtered(i, TRUE), Call(i, "tested", 0)>>} :
            Weight(Ahead(j), s) = IF i <= j THEN 1 ELSE 0
      BY GivesAhead
    <3> QED BY <3>1
  <2>3. PICK calls \in Seq(Working) :
          /\ calls = <<Value(i, v), Filtered(i, FALSE), Call(i, "tested", 0)>>
          /\ \A j \in Parts : Weight(Ahead(j), calls) = IF i <= j THEN 1 ELSE 0
          /\ Weight(One(Tests(i)), calls) > 0
    BY <2>1, <2>2, TakeTests
  <2>4. own[i].m_count \in Size /\ own[i].m_count - 1 \in Size /\ own[i].m_count # 0
    BY <1>1, <1>6, SizeAssumption DEF Members, Size
  <2>5. PICK n \in Size : n = own[i].m_count - 1
    BY <2>4
  <2>6. PICK o \in OperatorState : o = [own[i] EXCEPT !["m_count"] = n] /\ o.name = own[i].name
    BY <1>1, MemberChanges
  <2>7. o.held = own[i].held
    BY <1>1, <2>6 DEF Members
  <2>8. own' = [own EXCEPT ![i] = o]
    BY <1>6, <2>5, <2>6 DEF Notes, Keep
  <2>9. Passed(t, calls) /\ UNCHANGED link
    BY <1>6, <2>3 DEF Notes, Passed
  <2> QED BY <1>2, <2>3, <2>4, <2>6, <2>7, <2>8, <2>9, GivesLead
<1> QED BY <1>4, <1>5, <1>6

(* Every handler of these operators.                                       *)
LEMMA StreamingLeads ==
  ASSUME ClosuresTypeOK, CallsTypeOK, OperatorsOK, NEW t \in Threads, NEW i \in Stages,
         Does(i, Streaming), OperatorStep(t, i)
  PROVE  Leads(t, i)
<1>0. agenda[t] # <<>>
  BY DEF OperatorStep
<1>1. PICK v \in Nat, w \in Nat : v = Arg(t) /\ w = Method(v)
  <2>1. Arg(t) \in Nat
    BY <1>0, HeadIsTyped
  <2> QED BY <2>1 DEF ClosuresTypeOK
<1>2. ASSUME \/ Subscribe(t, i) \/ Fails(t, i) \/ Completes(t, i) \/ OnSubscribe(t, i, TRUE)
             \/ OnSubscribe(t, i, FALSE) /\ own[i].name \notin Filtering
             \/ Release(t, i) \/ Stops(t, i, "tested")
      PROVE  Leads(t, i)
  <2>1. CASE Fails(t, i) \/ Stops(t, i, "tested")
    BY <2>1, EndsLead
  <2>2. CASE Completes(t, i)
    <3>1. EndsWith(t, i, <<>>) /\ <<>> \in Seq(Nat)
      BY <2>2 DEF Completes
    <3> QED BY <3>1, EndsLead
  <2>3. CASE Subscribe(t, i)
    BY <1>0, <2>3, SetupLeads
  <2>4. CASE OnSubscribe(t, i, TRUE)
    BY <1>0, <2>4, SetupLeads
  <2>5. CASE OnSubscribe(t, i, FALSE) /\ own[i].name \notin Filtering
    BY <1>0, <2>5, SetupLeads DEF Does
  <2>6. CASE Release(t, i)
    BY <1>0, <2>6, DullHandlersLead
  <2> QED BY <1>2, <2>1, <2>2, <2>3, <2>4, <2>5, <2>6
<1>3. CASE SubscriptionStep(t, i)
  <2>1. CASE ForwardRequest(t, i) \/ FilterRequest(t, i)
    BY <1>0, <2>1, RequestsLead
  <2>2. CASE ForwardCancel(t, i) \/ FilterCancel(t, i)
    BY <1>0, <2>2, DullHandlersLead
  <2>3. CASE FilterOnNext(t, i)
    <3>1. Does(i, Filtering)
      BY <2>3 DEF FilterOnNext
    <3> QED BY <1>0, <2>3, <3>1, FilteredLeads
  <2> QED BY <1>3, <2>1, <2>2, <2>3 DEF SubscriptionStep
<1>4. CASE Map(t, i)
  <2>1. /\ own[i].name \notin Filtering
        /\ \/ Subscribe(t, i) \/ OnSubscribe(t, i, FALSE) \/ Fails(t, i) \/ Completes(t, i)
           \/ Answers(t, i, "onNext", <<Value(i, w)>>)
    BY <1>1, <1>4 DEF Map, Relays, Does, Filtering
  <2>2. CASE Answers(t, i, "onNext", <<Value(i, w)>>)
    BY <1>0, <2>1, <2>2, ValuesLead
  <2> QED BY <1>2, <2>1, <2>2
<1>5. CASE Tap(t, i)
  <2>1. /\ own[i].name \notin Filtering
        /\ \/ Subscribe(t, i) \/ OnSubscribe(t, i, FALSE) \/ Fails(t, i) \/ Completes(t, i)
           \/ Answers(t, i, "onNext", <<Value(i, v)>>)
    BY <1>1, <1>5 DEF Tap, Forwards, Relays, Does, Filtering
  <2>2. CASE Answers(t, i, "onNext", <<Value(i, v)>>)
    BY <1>0, <2>1, <2>2, ValuesLead
  <2> QED BY <1>2, <2>1, <2>2
<1>6. CASE DefaultIfEmpty(t, i)
  <2>1. /\ own[i].name \notin Filtering
        /\ \/ Subscribe(t, i) \/ OnSubscribe(t, i, FALSE) \/ Fails(t, i)
           \/ Notes(t, i, "onNext", "m_flag", TRUE, <<Value(i, v)>>)
           \/ EndsWith(t, i, IF own[i].m_flag THEN <<>> ELSE <<DefaultValue>>)
    BY <1>1, <1>6 DEF DefaultIfEmpty, Relays, Does, Filtering
  <2>2. CASE Notes(t, i, "onNext", "m_flag", TRUE, <<Value(i, v)>>)
    BY <1>0, <2>1, <2>2, ValuesLead
  <2>3. CASE EndsWith(t, i, IF own[i].m_flag THEN <<>> ELSE <<DefaultValue>>)
    <3>1. DefaultValue \in Nat
      BY OperatorsAssumption
    <3>2. <<>> \in Seq(Nat) /\ <<DefaultValue>> \in Seq(Nat)
      BY <3>1
    <3>3. PICK values \in Seq(Nat) : values = IF own[i].m_flag THEN <<>> ELSE <<DefaultValue>>
      BY <3>2
    <3> QED BY <2>3, <3>3, EndsLead
  <2> QED BY <1>2, <2>1, <2>2, <2>3
<1>7. CASE Filter(t, i)
  <2>1. \/ Subscribe(t, i) \/ OnSubscribe(t, i, TRUE) \/ Fails(t, i) \/ Release(t, i) \/ Completes(t, i)
        \/ Answers(t, i, "onNext", <<Value(i, v), Filtered(i, FALSE)>>)
        \/ Answers(t, i, "onNext", <<Filtered(i, TRUE)>>)
    BY <1>1, <1>7 DEF Filter, Keeps
  <2>2. CASE \/ Answers(t, i, "onNext", <<Value(i, v), Filtered(i, FALSE)>>)
             \/ Answers(t, i, "onNext", <<Filtered(i, TRUE)>>)
    BY <1>0, <2>2, ValuesLead
  <2> QED BY <1>2, <2>1, <2>2
<1>8. CASE Take(t, i)
  <2>1. \/ Subscribe(t, i) \/ OnSubscribe(t, i, TRUE) \/ Fails(t, i) \/ Release(t, i) \/ Completes(t, i)
        \/ own[i].m_count = 0 /\ Ignores(t, i)
        \/ /\ own[i].m_count > 0
           /\ Notes(t, i, "onNext", "m_count", own[i].m_count - 1,
                    <<Value(i, v), Filtered(i, FALSE), Call(i, "tested", 0)>>)
        \/ own[i].m_count > 0 /\ Answers(t, i, "tested", <<>>)
        \/ Stops(t, i, "tested")
    BY <1>1, <1>8 DEF Take, Keeps
  <2>2. own[i].name = "take"
    BY <1>8 DEF Take, Does
  <2>3. CASE \/ own[i].m_count = 0 /\ Ignores(t, i)
             \/ own[i].m_count > 0 /\ Answers(t, i, "tested", <<>>)
    BY <1>0, <2>2, <2>3, DullHandlersLead
  <2>4. CASE /\ own[i].m_count > 0
             /\ Notes(t, i, "onNext", "m_count", own[i].m_count - 1,
                      <<Value(i, v), Filtered(i, FALSE), Call(i, "tested", 0)>>)
    BY <1>0, <2>4, ValuesLead
  <2> QED BY <1>2, <2>1, <2>3, <2>4
<1>9. CASE TakeWhile(t, i)
  <2>1. \/ Subscribe(t, i) \/ OnSubscribe(t, i, TRUE) \/ Fails(t, i) \/ Release(t, i) \/ Completes(t, i)
        \/ Answers(t, i, "onNext", <<Value(i, v), Filtered(i, FALSE)>>)
        \/ Answers(t, i, "onNext", <<Filtered(i, TRUE), Call(i, "tested", 0)>>)
        \/ Stops(t, i, "tested")
    BY <1>1, <1>9 DEF TakeWhile, Keeps
  <2>2. CASE \/ Answers(t, i, "onNext", <<Value(i, v), Filtered(i, FALSE)>>)
             \/ Answers(t, i, "onNext", <<Filtered(i, TRUE), Call(i, "tested", 0)>>)
    BY <1>0, <2>2, ValuesLead
  <2> QED BY <1>2, <2>1, <2>2
<1>10. ASSUME own[i].name \notin Filtering, NEW when \in {"now", "delayed"},
              \/ Hands(t, i, "onNext", when, Value(i, v))
              \/ \E sig : Hands(t, i, sig, when, Failure(i))
              \/ \E sig : Hands(t, i, sig, when, Completion(i))
       PROVE  Leads(t, i)
  <2>1. CASE Hands(t, i, "onNext", when, Value(i, v))
    BY <1>0, <1>10, <2>1, ValuesLead
  <2>2. CASE \/ \E sig : Hands(t, i, sig, when, Failure(i))
             \/ \E sig : Hands(t, i, sig, when, Completion(i))
    BY <1>10, <2>2, EndsLead
  <2> QED BY <1>10, <2>1, <2>2
<1>11. CASE ObserveOn(t, i)
  <2>1. /\ own[i].name \notin Filtering
        /\ \/ Subscribe(t, i) \/ OnSubscribe(t, i, FALSE)
           \/ Hands(t, i, "onNext", "now", Value(i, v))
           \/ Hands(t, i, "onError", "now", Failure(i))
           \/ Hands(t, i, "onComplete", "now", Completion(i))
    BY <1>1, <1>11 DEF ObserveOn, Does, Filtering
  <2> QED BY <1>2, <1>10, <2>1
<1>12. CASE SubscribeOn(t, i)
  <2>1. /\ own[i].name \notin Filtering
        /\ \/ Hands(t, i, "subscribe", "now", Call(i - 1, "subscribe", 0))
           \/ OnSubscribe(t, i, FALSE) \/ Fails(t, i) \/ Completes(t, i)
           \/ Answers(t, i, "onNext", <<Value(i, v)>>)
    BY <1>1, <1>12 DEF SubscribeOn, Forwards, Does, Filtering
  <2>2. CASE Hands(t, i, "subscribe", "now", Call(i - 1, "subscribe", 0))
    BY <1>0, <2>2, SetupLeads
  <2>3. CASE Answers(t, i, "onNext", <<Value(i, v)>>)
    BY <1>0, <2>1, <2>3, ValuesLead
  <2> QED BY <1>2, <2>1, <2>2, <2>3
<1>13. CASE Delay(t, i)
  <2>1. /\ own[i].name \notin Filtering
        /\ \/ Subscribe(t, i) \/ OnSubscribe(t, i, FALSE)
           \/ Hands(t, i, "onNext", "delayed", Value(i, v))
           \/ Hands(t, i, "onError", "delayed", Failure(i))
           \/ Hands(t, i, "onError", "now", Failure(i))
           \/ Hands(t, i, "onComplete", "delayed", Completion(i))
    BY <1>1, <1>13 DEF Delay, Does, Filtering
  <2> QED BY <1>2, <1>10, <2>1
<1>14. \/ SubscriptionStep(t, i) \/ Map(t, i) \/ Tap(t, i) \/ Filter(t, i) \/ Take(t, i)
       \/ TakeWhile(t, i) \/ ObserveOn(t, i) \/ SubscribeOn(t, i) \/ Delay(t, i) \/ DefaultIfEmpty(t, i)
  BY DEF OperatorStep, Does, Streaming, Scheduling, AllOf, AnyOf, NoneOf, FirstElement, ElementAt,
         LastElement, Maximum, Minimum, Count, Reduce, IgnoreElements,
         FlatMap, AndThen, SwitchOnError
<1> QED BY <1>3, <1>4, <1>5, <1>6, <1>7, <1>8, <1>9, <1>11, <1>12, <1>13, <1>14

---------------------------------------------------------------------------
(* What holds of demand in a stream of operators that pass values on.      *)
Served == {"empty", "just", "range", "interval", "error", "defer"}

(* The user does not ask for more, in all, than a counter can hold.        *)
Modest == subscriber.m_autoRequest \/ user.asked <= SizeMax

There(S)    == Afoot(One(S), agenda, pending)
Only(c)     == \A z \in Weights : Afoot(z, agenda, pending) = z[c]
Demanded(j) == Due(j, agenda, pending, link, source)
Ready(i)    == link[i].held /\ (Does(i, Filtering) => own[i].held)

(* Nothing has ended the stream, and nothing is about to.                  *)
Open ==
  /\ ~Ended /\ ~user.canceled /\ There(Closing) = 0
  /\ \A i \in Stages : Does(i, {"take"}) => own[i].m_count # 0

(* A take that has had its last value is about to find that out.           *)
Exhausts ==
  \A i \in Stages :
    Does(i, {"take"}) /\ own[i].m_count = 0 => Ended \/ There(Closing) > 0 \/ There(Tests(i)) > 0

(* An open stream is being set up, or runs.                                *)
Opening ==
  /\ user.asked = 0 /\ ~subscriber.held
  /\ \A i \in Stages : Blank(link[i])
  /\ \E q \in Setups : Only(q) /\ (q.sig = "onSubscribe" => \A i \in Stages : i < q.at => Ready(i))

Flowing == (\A i \in Stages : Ready(i)) /\ subscriber.held /\ There(Idling) = 0

(* The source has demand only while it is about to give a value.           *)
Gives ==
  /\ ~source.m_completed /\ ~source.m_canceled
  /\ source.kind # "interval" => source.m_requested = 0
  /\ source.m_requested > 0 => There(Ticks) > 0 \/ There(Agains) > 0
  /\ source.m_running => There(Ticks) > 0

(* What was asked for is given or due...                                   *)
Asked ==
  /\ Len(log.values) + Demanded(Subscriber) = user.asked
  /\ subscriber.m_autoRequest => Len(log.values) + subscriber.m_remaining = user.asked

(* ... and so is what a FilterSubscription waits for, from there on.       *)
Waits(i) ==
  IF Does(i, Filtering)
  THEN Wraps(Demanded(i), link[i].m_waiting) /\ (Spare(link[i]) # 0 => Demanded(i) > 0)
  ELSE Spare(link[i]) = 0

(* What there is of demand in an open stream.                              *)
Account == Gives /\ Asked /\ (\A i \in Stages : Waits(i)) /\ (Opening \/ Flowing)

(* The invariant: it holds from subscribe() on, whatever a call has left. *)
DemandInv ==
  source.kind \in Served /\ UsesOnly(Streaming) =>
    /\ \A z \in Weights : Finite(z, agenda)
    /\ Exhausts
    /\ Open /\ Modest => Account

Countings == CallsTypeOK /\ \A z \in Weights : Finite(z, agenda)

(* A term of a sum.                                                        *)
LEMMA PartOfTotal ==
  ASSUME NEW S, NEW f \in [S -> Nat], IsFiniteSet(Pieces(f)), NEW k \in S
  PROVE  Total(f) \in Nat /\ f[k] \in Nat /\ f[k] <= Total(f)
<1>1. PICK g \in [S -> Nat] : g = [f EXCEPT ![k] = 0]
  OBVIOUS
<1>2. g[k] = 0 /\ \A j \in S \ {k} : g[j] = f[j]
  BY <1>1
<1>3. Total(f) \in Nat /\ Total(g) \in Nat /\ Total(g) + f[k] = Total(f) + g[k]
  BY <1>2, TotalChanges
<1>4. PICK a \in Nat, b \in Nat, x \in Nat : a = Total(f) /\ b = Total(g) /\ x = f[k] /\ b + x = a + 0
  BY <1>2, <1>3
<1>5. x <= a
  BY <1>4
<1> QED BY <1>4, <1>5

(* The weight under way is a number, and that of the next call part of it. *)
LEMMA AfootIs ==
  ASSUME Countings, NEW z \in Weights
  PROVE  /\ Afoot(z, agenda, pending) \in Nat
         /\ \A t \in Threads : agenda[t] # <<>> =>
              z[Head(agenda[t])] \in Nat /\ z[Head(agenda[t])] <= Afoot(z, agenda, pending)
<1>1. agenda \in Agendas /\ pending \in Seq(Tasks) /\ Client \in Threads
  BY DEF Countings, CallsTypeOK, Agendas, Threads
<1>2. PICK f \in [Threads -> Nat] : f = WeightsOf(z, agenda) /\ IsFiniteSet(Pieces(f))
  <2>1. \A s \in Seq(PipelineCalls) : Weight(z, s) \in Nat
    BY WeightsAre
  <2>2. WeightsOf(z, agenda) \in [Threads -> Nat]
    BY <1>1, <2>1 DEF WeightsOf, Agendas
  <2>3. IsFiniteSet(Pieces(WeightsOf(z, agenda)))
    BY DEF Countings, Finite
  <2> QED BY <2>2, <2>3
<1>3. PICK n \in Nat, w \in Nat : n = Total(f) /\ w = Weight(z, Waiting(pending))
  <2>1. Total(f) \in Nat
    BY <1>1, <1>2, PartOfTotal
  <2>2. Waiting(pending) \in Seq(PipelineCalls)
    BY <1>1, WaitingAre
  <2>3. Weight(z, Waiting(pending)) \in Nat
    BY <2>2, WeightsAre
  <2> QED BY <2>1, <2>3
<1>4. Afoot(z, agenda, pending) = n + w /\ n + w \in Nat
  BY <1>2, <1>3 DEF Afoot
<1>5. ASSUME NEW t \in Threads, agenda[t] # <<>>
      PROVE  z[Head(agenda[t])] \in Nat /\ z[Head(agenda[t])] <= Afoot(z, agenda, pending)
  <2>1. agenda[t] \in Seq(PipelineCalls)
    BY <1>1 DEF Agendas
  <2>2. /\ Weight(z, agenda[t]) = z[Head(agenda[t])] + Weight(z, Tail(agenda[t]))
        /\ Tail(agenda[t]) \in Seq(PipelineCalls) /\ Head(agenda[t]) \in PipelineCalls
    BY <1>5, <2>1, WeightOfHead
  <2>3. Weight(z, Tail(agenda[t])) \in Nat /\ z[Head(agenda[t])] \in Nat
    BY <2>2, WeightsAre
  <2>4. f[t] = Weight(z, agenda[t])
    BY <1>2 DEF WeightsOf
  <2>5. f[t] <= Total(f)
    BY <1>2, PartOfTotal
  <2>6. PICK x \in Nat, y \in Nat : x = z[Head(agenda[t])] /\ y = Weight(z, Tail(agenda[t]))
    BY <2>3
  <2>7. x + y <= n
    BY <1>3, <2>2, <2>4, <2>5, <2>6
  <2>8. x <= n + w
    BY <2>7
  <2> QED BY <1>4, <2>6, <2>8
<1> QED BY <1>4, <1>5

(* What the passing of calls does to a count.                              *)
LEMMA Counted ==
  ASSUME Countings, NEW t \in Threads, agenda[t] # <<>>, NEW calls \in Seq(PipelineCalls), Passed(t, calls),
         NEW z \in Weights
  PROVE  /\ Finite(z, agenda')
         /\ \E a, b, x, w \in Nat :
              /\ a = Afoot(z, agenda, pending) /\ b = Afoot(z, agenda', pending')
              /\ x = z[Head(agenda[t])] /\ w = Weight(z, calls)
              /\ b + x = a + w /\ x <= a
<1>1. /\ Finite(z, agenda')
      /\ Afoot(z, agenda, pending) \in Nat /\ Afoot(z, agenda', pending') \in Nat
      /\ z[Head(agenda[t])] \in Nat /\ Weight(z, calls) \in Nat
      /\ Afoot(z, agenda', pending') + z[Head(agenda[t])]
           = Afoot(z, agenda, pending) + Weight(z, calls)
  BY PassedWeighs DEF Countings
<1>2. z[Head(agenda[t])] <= Afoot(z, agenda, pending)
  BY AfootIs
<1> QED BY <1>1, <1>2

LEMMA OnesAre ==
  ASSUME NEW S, NEW c \in PipelineCalls
  PROVE  One(S) \in Weights /\ One(S)[c] \in Nat /\ (c \in S => One(S)[c] = 1) /\ (c \notin S => One(S)[c] = 0)
BY WeightsOfCalls

(* What is under way stays so until it is handled.                         *)
LEMMA Remains ==
  ASSUME Countings, NEW t \in Threads, agenda[t] # <<>>, NEW calls \in Seq(PipelineCalls), Passed(t, calls),
         NEW S
  PROVE  /\ There(S) \in Nat /\ There(S)' \in Nat
         /\ Weight(One(S), calls) > 0 => There(S)' > 0
         /\ There(S) > 0 /\ Head(agenda[t]) \notin S => There(S)' > 0
         /\ There(S)' = 0 => Weight(One(S), calls) = 0
         /\ There(S)' = 0 /\ Head(agenda[t]) \notin S => There(S) = 0
         /\ There(S) = 0 /\ Weight(One(S), calls) = 0 => There(S)' = 0
<1>1. PICK c \in PipelineCalls : c = Head(agenda[t])
  BY HeadIsTyped DEF Countings
<1>2. PICK z \in Weights : z = One(S) /\ (c \notin S => z[c] = 0)
  BY OnesAre
<1>3. PICK a \in Nat, b \in Nat, x \in Nat, w \in Nat :
        /\ a = Afoot(z, agenda, pending) /\ b = Afoot(z, agenda', pending')
        /\ x = z[Head(agenda[t])] /\ w = Weight(z, calls)
        /\ b + x = a + w /\ x <= a
  BY Counted
<1>4. /\ w > 0 => b > 0
      /\ a > 0 /\ x = 0 => b > 0
      /\ b = 0 => w = 0
      /\ b = 0 /\ x = 0 => a = 0
      /\ a = 0 /\ w = 0 => b = 0
  <2>1. b + x = a + w /\ x <= a
    BY <1>3
  <2> QED BY <2>1
<1>5. There(S) = a /\ There(S)' = b /\ Weight(One(S), calls) = w /\ (Head(agenda[t]) \notin S => x = 0)
  BY <1>1, <1>2, <1>3 DEF There
<1> QED BY <1>4, <1>5

(* The call that is handled, in a stream that is set up or runs.           *)
LEMMA NextOfStream ==
  ASSUME Countings, NEW t \in Threads, agenda[t] # <<>>
  PROVE  /\ \A q \in PipelineCalls : Only(q) => Head(agenda[t]) = q
         /\ There(Idling) = 0 => Head(agenda[t]) \in Working
<1>1. PICK c \in PipelineCalls : c = Head(agenda[t])
  BY HeadIsTyped DEF Countings
<1>2. ASSUME NEW q \in PipelineCalls, Only(q)
      PROVE  Head(agenda[t]) = q
  <2>1. PICK z \in Weights : z = One({c}) /\ z[c] = 1 /\ (q # c => z[q] = 0)
    BY OnesAre
  <2>2. Afoot(z, agenda, pending) = z[q]
    BY <1>2 DEF Only
  <2>3. z[c] <= Afoot(z, agenda, pending)
    BY <1>1, AfootIs
  <2> QED BY <1>1, <2>1, <2>2, <2>3
<1>3. ASSUME There(Idling) = 0
      PROVE  c \in Working
  <2>1. PICK z \in Weights : z = One(Idling) /\ (c \in Idling => z[c] = 1)
    BY OnesAre
  <2>2. z[c] <= Afoot(z, agenda, pending)
    BY <1>1, AfootIs
  <2>3. Afoot(z, agenda, pending) = 0
    BY <1>3, <2>1 DEF There
  <2>4. c \notin Idling
    BY <2>1, <2>2, <2>3
  <2> QED BY <2>4 DEF Idling
<1> QED BY <1>1, <1>2, <1>3

(* What one filter changes of what is kept before part j.                  *)
LEMMA BeforeChanges ==
  ASSUME OperatorsOK, NEW i \in Stages, NEW l \in LinkState, link' = [link EXCEPT ![i] = l], NEW j \in Parts
  PROVE  /\ Total(Before(link, j)) \in Nat /\ Total(Before(link', j)) \in Nat
         /\ Room(i, j, l) \in Nat /\ Room(i, j, link[i]) \in Nat
         /\ Total(Before(link', j)) + Room(i, j, link[i]) = Total(Before(link, j)) + Room(i, j, l)
<1>1. /\ link \in [Stages -> LinkState] /\ link' \in [Stages -> LinkState]
      /\ link'[i] = l /\ \A m \in Stages \ {i} : link'[m] = link[m]
  BY DEF OperatorsOK
<1>2. \A k \in [Stages -> LinkState] : Before(k, j) \in [Stages -> Nat]
  BY SparesAre DEF Before
<1>3. PICK f \in [Stages -> Nat], g \in [Stages -> Nat] : f = Before(link, j) /\ g = Before(link', j)
  BY <1>1, <1>2
<1>4. /\ f[i] = Room(i, j, link[i]) /\ g[i] = Room(i, j, l)
      /\ \A m \in Stages \ {i} : g[m] = f[m]
  BY <1>1, <1>3 DEF Before, Room
<1>5. IsFiniteSet(Stages)
  <2>1. 1 \in Int /\ Depth \in Int
    BY DepthAssumption
  <2> QED BY <2>1, FS_Interval DEF Stages
<1>6. IsFiniteSet(Pieces(f))
  BY <1>5, TotalIsNat
<1>7. /\ Total(f) \in Nat /\ Total(g) \in Nat
      /\ Total(g) + f[i] = Total(f) + g[i]
  BY <1>4, <1>6, TotalChanges
<1>8. f[i] \in Nat /\ g[i] \in Nat
  OBVIOUS
<1> QED BY <1>3, <1>4, <1>7, <1>8

LEMMA BeforeIsNat ==
  ASSUME OperatorsOK, NEW j \in Parts
  PROVE  Total(Before(link, j)) \in Nat
<1>1. Before(link, j) \in [Stages -> Nat]
  BY SparesAre DEF Before, OperatorsOK
<1>2. IsFiniteSet(Stages)
  <2>1. 1 \in Int /\ Depth \in Int
    BY DepthAssumption
  <2> QED BY <2>1, FS_Interval DEF Stages
<1> QED BY <1>1, <1>2, TotalIsNat

LEMMA DemandedIs ==
  ASSUME Countings, OperatorsOK, SourceOK(source), NEW j \in Parts
  PROVE  \E r, a, b \in Nat :
           /\ r = source.m_requested /\ a = Afoot(Ahead(j), agenda, pending) /\ b = Total(Before(link, j))
           /\ Demanded(j) = r + a + b
<1>1. Afoot(Ahead(j), agenda, pending) \in Nat
  BY WeightsOfCalls, AfootIs
<1>2. Total(Before(link, j)) \in Nat
  BY BeforeIsNat
<1>3. source.m_requested \in Nat
  BY SizesAreTyped DEF SourceOK, SourceMembers
<1> QED BY <1>1, <1>2, <1>3 DEF Demanded, Due

LEMMA OperatorActs ==
  ASSUME NEW t \in Threads, NEW i \in Stages, Does(i, Streaming), OperatorStep(t, i)
  PROVE  Head(agenda[t]).at = i /\ (~Does(i, Scheduling) => UNCHANGED pending)
<1>1. CASE SubscriptionStep(t, i)
  BY <1>1 DEF SubscriptionStep, ForwardRequest, ForwardCancel, FilterRequest, FilterCancel,
              FilterOnNext, On, Makes
<1>2. ASSUME \/ Subscribe(t, i) \/ Release(t, i) \/ Fails(t, i) \/ Completes(t, i)
             \/ \E keeps : OnSubscribe(t, i, keeps)
             \/ \E values : EndsWith(t, i, values)
             \/ \E sig, calls : Answers(t, i, sig, calls)
             \/ \E sig, field, x, calls : Notes(t, i, sig, field, x, calls)
      PROVE  Head(agenda[t]).at = i /\ UNCHANGED pending
  BY <1>2 DEF Subscribe, Release, Fails, Completes, OnSubscribe, EndsWith, Answers, Notes, On, Makes
<1>3. CASE \/ Map(t, i) \/ Tap(t, i) \/ Filter(t, i) \/ Take(t, i) \/ TakeWhile(t, i) \/ DefaultIfEmpty(t, i)
  <2>1. \/ Subscribe(t, i) \/ Release(t, i) \/ Fails(t, i) \/ Completes(t, i)
        \/ \E keeps : OnSubscribe(t, i, keeps)
        \/ \E values : EndsWith(t, i, values)
        \/ \E sig, calls : Answers(t, i, sig, calls)
        \/ \E sig, field, x, calls : Notes(t, i, sig, field, x, calls)
    BY <1>3 DEF Map, Tap, Filter, Take, TakeWhile, DefaultIfEmpty, Relays, Keeps, Forwards, Ignores, Stops
  <2> QED BY <1>2, <2>1
<1>4. CASE ObserveOn(t, i) \/ SubscribeOn(t, i) \/ Delay(t, i)
  <2>1. Does(i, Scheduling)
    BY <1>4 DEF ObserveOn, SubscribeOn, Delay, Does, Scheduling
  <2>2. \/ Subscribe(t, i) \/ Release(t, i) \/ Fails(t, i) \/ Completes(t, i)
        \/ \E keeps : OnSubscribe(t, i, keeps)
        \/ \E sig, calls : Answers(t, i, sig, calls)
        \/ \E sig, when, call : Hands(t, i, sig, when, call)
    BY <1>4 DEF ObserveOn, SubscribeOn, Delay, Forwards
  <2>3. CASE \E sig, when, call : Hands(t, i, sig, when, call)
    BY <2>1, <2>3 DEF Hands, On
  <2> QED BY <1>2, <2>1, <2>2, <2>3
<1>5. \/ SubscriptionStep(t, i) \/ Map(t, i) \/ Tap(t, i) \/ Filter(t, i) \/ Take(t, i)
      \/ TakeWhile(t, i) \/ ObserveOn(t, i) \/ SubscribeOn(t, i) \/ Delay(t, i) \/ DefaultIfEmpty(t, i)
  BY DEF OperatorStep, Does, Streaming, Scheduling, AllOf, AnyOf, NoneOf, FirstElement, ElementAt,
         LastElement, Maximum, Minimum, Count, Reduce, IgnoreElements,
         FlatMap, AndThen, SwitchOnError
<1> QED BY <1>1, <1>3, <1>4, <1>5

(* A step of operator i that calls has made of its call.                   *)
Acts(t, i, calls, l, o) ==
  /\ Passed(t, calls) /\ Head(agenda[t]).at = i
  /\ own' = [own EXCEPT ![i] = o] /\ link' = [link EXCEPT ![i] = l]
  /\ UNCHANGED <<sourceVars, subscriberVars>>

LEMMA OperatorExhausts ==
  ASSUME Countings, OperatorsOK, NEW t \in Threads, agenda[t] # <<>>, NEW i \in Stages,
         NEW calls \in Seq(PipelineCalls), NEW l \in LinkState, NEW o \in OperatorState,
         Acts(t, i, calls, l, o), Ceases(i, Head(agenda[t]), calls, own[i], o), Exhausts
  PROVE  Exhausts' /\ (Open' => Open /\ ~Closes(calls))
<1>1. PICK c \in PipelineCalls : c = Head(agenda[t]) /\ c.at = i
  BY HeadIsTyped DEF Countings, Acts
<1>2. Passed(t, calls) /\ Ended' = Ended /\ user' = user
  BY DEF Acts, subscriberVars, Ended
<1>3. own'[i] = o /\ \A j \in Stages \ {i} : own'[j] = own[j]
  BY DEF Acts, OperatorsOK
<1>4. /\ There(Closing) \in Nat /\ There(Closing)' \in Nat
      /\ Weight(One(Closing), calls) > 0 => There(Closing)' > 0
      /\ There(Closing) > 0 /\ c \notin Closing => There(Closing)' > 0
      /\ There(Closing)' = 0 => Weight(One(Closing), calls) = 0
      /\ There(Closing)' = 0 /\ c \notin Closing => There(Closing) = 0
  BY <1>1, <1>2, Remains
<1>5. c \in Closing => Closes(calls)
  BY <1>1 DEF Ceases
<1>6. There(Closing) > 0 => There(Closing)' > 0
  BY <1>4, <1>5 DEF Closes
<1>7. There(Closing)' = 0 => There(Closing) = 0 /\ ~Closes(calls)
  BY <1>4, <1>5 DEF Closes
<1>8. /\ o.name = own[i].name
      /\ own[i].name = "take" /\ own[i].m_count = 0 => o.m_count = 0 /\ (c \in Tests(i) => Closes(calls))
      /\ own[i].name = "take" /\ own[i].m_count # 0 /\ o.m_count = 0 => Weight(One(Tests(i)), calls) > 0
  BY <1>1 DEF Ceases
<1>9. ASSUME NEW j \in Stages, own'[j].name = "take", own'[j].m_count = 0
      PROVE  Ended' \/ There(Closing)' > 0 \/ There(Tests(j))' > 0
  <2>1. /\ Weight(One(Tests(j)), calls) > 0 => There(Tests(j))' > 0
        /\ There(Tests(j)) > 0 /\ c \notin Tests(j) => There(Tests(j))' > 0
    BY <1>1, <1>2, Remains
  <2>2. CASE own[j].name = "take" /\ own[j].m_count = 0
    <3>1. Ended \/ There(Closing) > 0 \/ There(Tests(j)) > 0
      BY <2>2 DEF Exhausts, Does
    <3>2. CASE c \in Tests(j)
      <4>1. j = i
        BY <1>1, <3>2 DEF Tests
      <4>2. Closes(calls)
        BY <1>8, <2>2, <3>2, <4>1
      <4> QED BY <1>4, <4>2 DEF Closes
    <3>3. CASE c \notin Tests(j)
      BY <1>2, <1>6, <2>1, <3>1, <3>3
    <3> QED BY <3>2, <3>3
  <2>3. CASE ~(own[j].name = "take" /\ own[j].m_count = 0)
    <3>1. j = i
      BY <1>3, <1>9, <2>3
    <3>2. Weight(One(Tests(i)), calls) > 0
      BY <1>3, <1>8, <1>9, <2>3, <3>1
    <3> QED BY <2>1, <3>1, <3>2
  <2> QED BY <2>2, <2>3
<1>10. Exhausts'
  BY <1>9 DEF Exhausts, Does
<1>11. ASSUME Open'
       PROVE  Open /\ ~Closes(calls)
  <2>1. There(Closing)' = 0 /\ ~Ended' /\ ~user'.canceled
    BY <1>11 DEF Open
  <2>2. ASSUME NEW j \in Stages, own[j].name = "take"
        PROVE  own[j].m_count # 0
    <3>1. own'[j].name = "take" => own'[j].m_count # 0
      BY <1>11 DEF Open, Does
    <3>2. CASE j = i
      BY <1>3, <1>8, <2>2, <3>1, <3>2
    <3>3. CASE j # i
      BY <1>3, <2>2, <3>1, <3>3
    <3> QED BY <3>2, <3>3
  <2> QED BY <1>2, <1>7, <2>1, <2>2 DEF Open, Does
<1> QED BY <1>10, <1>11

(* The demand of the parts behind an operator that has acted, and its own. *)
LEMMA DemandMoves ==
  ASSUME Countings, OperatorsOK, SourceOK(source), NEW t \in Threads, agenda[t] # <<>>, NEW i \in Stages,
         NEW calls \in Seq(PipelineCalls), NEW l \in LinkState, NEW o \in OperatorState,
         Acts(t, i, calls, l, o), NEW j \in Parts
  PROVE  /\ Demanded(j) \in Nat /\ Demanded(j)' \in Nat
         /\ Ahead(j)[Head(agenda[t])] \in Nat /\ Weight(Ahead(j), calls) \in Nat
         /\ Room(i, j, link[i]) \in Nat /\ Room(i, j, l) \in Nat
         /\ Demanded(j)' + Ahead(j)[Head(agenda[t])] + Room(i, j, link[i])
              = Demanded(j) + Weight(Ahead(j), calls) + Room(i, j, l)
<1>0. Passed(t, calls) /\ source' = source /\ link' = [link EXCEPT ![i] = l]
  BY DEF Acts, sourceVars
<1>1. PICK r \in Nat, a \in Nat, b \in Nat :
        /\ r = source.m_requested /\ a = Afoot(Ahead(j), agenda, pending)
        /\ b = Total(Before(link, j)) /\ Demanded(j) = r + a + b
  BY DemandedIs
<1>2. Ahead(j) \in Weights
  BY WeightsOfCalls
<1>3. PICK aa \in Nat, bb \in Nat, x \in Nat, y \in Nat :
            /\ aa = Afoot(Ahead(j), agenda, pending) /\ bb = Afoot(Ahead(j), agenda', pending')
            /\ x = Ahead(j)[Head(agenda[t])] /\ y = Weight(Ahead(j), calls)
            /\ bb + x = aa + y /\ x <= aa
  BY <1>0, <1>2, Counted
<1>4. /\ Total(Before(link, j)) \in Nat /\ Total(Before(link', j)) \in Nat
      /\ Room(i, j, l) \in Nat /\ Room(i, j, link[i]) \in Nat
      /\ Total(Before(link', j)) + Room(i, j, link[i]) = Total(Before(link, j)) + Room(i, j, l)
  BY <1>0, BeforeChanges
<1>5. PICK m \in Nat, p \in Nat, q \in Nat :
        /\ m = Total(Before(link', j)) /\ p = Room(i, j, link[i]) /\ q = Room(i, j, l)
        /\ m + p = b + q
  BY <1>1, <1>4
<1>6. m + p = b + q
  BY <1>5
<1>7. bb + x = a + y
  BY <1>1, <1>3
<1>8. PICK d \in Nat, e \in Nat : d = r + a + b /\ e = r + bb + m
  OBVIOUS
<1>9. e + x + p = d + y + q
  BY <1>6, <1>7, <1>8
<1>10. d = Demanded(j)
  BY <1>1, <1>8
<1>11. e = Demanded(j)'
  BY <1>0, <1>1, <1>3, <1>5, <1>8 DEF Demanded, Due
<1>12. x = Ahead(j)[Head(agenda[t])] /\ y = Weight(Ahead(j), calls)
  BY <1>3
<1>13. p = Room(i, j, link[i]) /\ q = Room(i, j, l)
  BY <1>5
<1>14. d = Demanded(j) /\ e = Demanded(j)' /\ e + x + p = d + y + q
  BY <1>9, <1>10, <1>11
<1> QED BY <1>12, <1>13, <1>14

LEMMA OthersDemand ==
  ASSUME Countings, OperatorsOK, SourceOK(source), NEW t \in Threads, agenda[t] # <<>>, NEW i \in Stages,
         NEW calls \in Seq(PipelineCalls), NEW l \in LinkState, NEW o \in OperatorState,
         Acts(t, i, calls, l, o), Evens(i, Head(agenda[t]), calls, link[i], l, own[i]),
         NEW j \in Parts \ {i}
  PROVE  Demanded(j)' = Demanded(j)
<1>0. /\ Demanded(j) \in Nat /\ Demanded(j)' \in Nat
      /\ Ahead(j)[Head(agenda[t])] \in Nat /\ Weight(Ahead(j), calls) \in Nat
      /\ Room(i, j, link[i]) \in Nat /\ Room(i, j, l) \in Nat
      /\ Demanded(j)' + Ahead(j)[Head(agenda[t])] + Room(i, j, link[i])
           = Demanded(j) + Weight(Ahead(j), calls) + Room(i, j, l)
  BY DemandMoves
<1>a. PICK d \in Nat, e \in Nat : d = Demanded(j) /\ e = Demanded(j)'
  BY <1>0
<1>b. PICK x \in Nat, y \in Nat : x = Ahead(j)[Head(agenda[t])] /\ y = Weight(Ahead(j), calls)
  BY <1>0
<1>c. PICK p \in Nat, q \in Nat : p = Room(i, j, link[i]) /\ q = Room(i, j, l)
  BY <1>0
<1>1. e + x + p = d + y + q
  BY <1>0, <1>a, <1>b, <1>c
<1>2. y + q = x + p
  <2>1. Weight(Ahead(j), calls) + Room(i, j, l) = Ahead(j)[Head(agenda[t])] + Room(i, j, link[i])
    BY DEF Evens
  <2> QED BY <1>b, <1>c, <2>1
<1>3. e = d
  BY <1>1, <1>2
<1> QED BY <1>a, <1>3

LEMMA OperatorDemand ==
  ASSUME Countings, OperatorsOK, SourceOK(source), NEW t \in Threads, agenda[t] # <<>>, NEW i \in Stages,
         NEW calls \in Seq(PipelineCalls), NEW l \in LinkState, NEW o \in OperatorState,
         Acts(t, i, calls, l, o), Evens(i, Head(agenda[t]), calls, link[i], l, own[i])
  PROVE  \E d, e, x, y \in Nat :
           /\ d = Demanded(i) /\ e = Demanded(i)' /\ x = Ahead(i)[Head(agenda[t])]
           /\ y = Weight(Ahead(i), calls) /\ e + x = d + y
<1>1. i \in Parts /\ ~(i < i)
  BY StageItself
<1>0. /\ Demanded(i) \in Nat /\ Demanded(i)' \in Nat
      /\ Ahead(i)[Head(agenda[t])] \in Nat /\ Weight(Ahead(i), calls) \in Nat
      /\ Demanded(i)' + Ahead(i)[Head(agenda[t])] + Room(i, i, link[i])
           = Demanded(i) + Weight(Ahead(i), calls) + Room(i, i, l)
  BY <1>1, DemandMoves
<1>2. Room(i, i, link[i]) = 0 /\ Room(i, i, l) = 0
  BY <1>1 DEF Room
<1>3. PICK d \in Nat, e \in Nat : d = Demanded(i) /\ e = Demanded(i)'
  BY <1>0
<1>4. PICK x \in Nat, y \in Nat : x = Ahead(i)[Head(agenda[t])] /\ y = Weight(Ahead(i), calls)
  BY <1>0
<1>5. e + x + 0 = d + y + 0
  BY <1>0, <1>2, <1>3, <1>4
<1>6. e + x = d + y
  BY <1>5
<1> QED BY <1>3, <1>4, <1>6

LEMMA SetupsAre ==
  /\ Setups \subseteq PipelineCalls
  /\ \A c \in Setups : c.sig \in {"subscribe", "onSubscribe"} /\ c \notin Working
<1>1. Depth \in Nat /\ 0 \in Nat /\ Subscriber = Depth + 1
  BY DepthAssumption DEF Subscriber
<1>2. ASSUME NEW q \in 0 .. Depth
      PROVE  Call(q, "subscribe", 0) \in PipelineCalls
  <2>1. q \in 0 .. Subscriber
    BY <1>1, <1>2
  <2> QED BY <1>1, <2>1 DEF Call, PipelineCalls, Calls, Sent
<1>3. ASSUME NEW q \in Parts
      PROVE  Call(q, "onSubscribe", 0) \in PipelineCalls
  <2>1. q \in 0 .. Subscriber
    BY <1>1, <1>3 DEF Parts
  <2> QED BY <1>1, <2>1 DEF Call, PipelineCalls, Calls, Sent
<1>4. ASSUME NEW c \in Setups
      PROVE  c.sig \in {"subscribe", "onSubscribe"} /\ c \notin Working
  <2>1. c.sig \in {"subscribe", "onSubscribe"}
    BY <1>4 DEF Setups, Call
  <2> QED BY <2>1 DEF Working
<1> QED BY <1>2, <1>3, <1>4 DEF Setups

LEMMA CountersAreTyped ==
  ASSUME SubscriberTypeOK
  PROVE  /\ Len(log.values) \in Nat /\ user.asked \in Nat
         /\ subscriber.m_remaining \in Nat /\ subscriber.m_remaining <= SizeMax
<1>1. log.values \in Seq(Nat) /\ user.asked \in Nat /\ subscriber.m_remaining \in Size
  BY DEF SubscriberTypeOK
<1>2. subscriber.m_remaining \in Nat /\ subscriber.m_remaining <= SizeMax
  BY <1>1, SizeAssumption DEF Size
<1> QED BY <1>1, <1>2, LenProperties

(* The demand of the subscriber fits a counter.                            *)
LEMMA DemandIsModest ==
  ASSUME SubscriberTypeOK, Modest, Asked, NEW d \in Nat, d = Demanded(Subscriber)
  PROVE  d <= SizeMax
<1>1. PICK n \in Nat, u \in Nat, m \in Nat :
        /\ n = Len(log.values) /\ u = user.asked /\ m = subscriber.m_remaining /\ m <= SizeMax
  BY CountersAreTyped
<1>2. n + d = u
  BY <1>1 DEF Asked
<1>3. CASE subscriber.m_autoRequest
  <2>1. n + m = u
    BY <1>1, <1>3 DEF Asked
  <2>2. d = m
    BY <1>2, <2>1
  <2> QED BY <1>1, <2>2
<1>4. CASE ~subscriber.m_autoRequest
  <2>1. u <= SizeMax
    BY <1>1, <1>4 DEF Modest
  <2>2. SizeMax \in Nat
    BY SizeAssumption
  <2> QED BY <1>2, <2>1, <2>2
<1> QED BY <1>3, <1>4

(* In an open stream, an operator is ready for its call.                   *)
LEMMA OperatorApt ==
  ASSUME Countings, OperatorsOK, SourceOK(source), SubscriberTypeOK, NEW t \in Threads, agenda[t] # <<>>,
         NEW i \in Stages, NEW c \in PipelineCalls, c = Head(agenda[t]), c.at = i,
         Open, Modest, Account
  PROVE  Apt(i, c, link[i], own[i])
<1>1. Opening \/ Flowing
  BY DEF Account
<1>2. CASE Opening
  <2>1. PICK q \in Setups : Only(q) /\ (q.sig = "onSubscribe" => \A k \in Stages : k < q.at => Ready(k))
    BY <1>2 DEF Opening
  <2>2. q \in PipelineCalls
    BY SetupsAre
  <2>3. c = q
    BY <2>1, <2>2, NextOfStream
  <2>4. c.sig # "filtered"
    BY <2>3 DEF Setups, Call
  <2>5. Blank(link[i])
    BY <1>2 DEF Opening
  <2> QED BY <2>3, <2>4, <2>5 DEF Apt, Open, Does
<1>3. CASE Flowing
  <2>1. c \in Working
    BY <1>3, NextOfStream DEF Flowing
  <2>2. link[i].held /\ (own[i].name \in Filtering => own[i].held)
    BY <1>3 DEF Flowing, Ready, Does
  <2>3. ASSUME c.sig = "filtered", c.arg = 1
        PROVE  Spare(link[i]) + 1 <= SizeMax
    <3>1. Subscriber \in Parts /\ i < Subscriber
      BY DepthAssumption DEF Stages, Parts, Subscriber
    <3>2. PICK r \in Nat, a \in Nat, b \in Nat :
            /\ r = source.m_requested /\ a = Afoot(Ahead(Subscriber), agenda, pending)
            /\ b = Total(Before(link, Subscriber)) /\ Demanded(Subscriber) = r + a + b
      BY <3>1, DemandedIs
    <3>3. PICK f \in [Stages -> Nat] : f = Before(link, Subscriber) /\ f[i] = Spare(link[i])
      <4>1. Before(link, Subscriber) \in [Stages -> Nat]
        BY SparesAre DEF Before, OperatorsOK
      <4> QED BY <3>1, <4>1 DEF Before
    <3>4. IsFiniteSet(Stages)
      <4>1. 1 \in Int /\ Depth \in Int
        BY DepthAssumption
      <4> QED BY <4>1, FS_Interval DEF Stages
    <3>5. IsFiniteSet(Pieces(f))
      BY <3>4, TotalIsNat
    <3>6. f[i] <= Total(f) /\ f[i] \in Nat
      BY <3>5, PartOfTotal
    <3>7. PICK s \in Nat : s = Spare(link[i]) /\ s <= b
      BY <3>2, <3>3, <3>6
    <3>8. Ahead(Subscriber) \in Weights /\ Ahead(Subscriber)[c] = 1
      BY <2>3, <3>1, AheadOf, WeightsOfCalls
    <3>9. 1 <= a
      BY <3>2, <3>8, AfootIs
    <3>10. PICK d \in Nat : d = Demanded(Subscriber) /\ d = r + a + b
      BY <3>2
    <3>11. s + 1 <= d
      BY <3>7, <3>9, <3>10
    <3>12. d <= SizeMax
      BY <3>1, <3>10, DemandIsModest DEF Account
    <3>13. SizeMax \in Nat
      BY SizeAssumption
    <3>14. s + 1 <= SizeMax
      BY <3>11, <3>12, <3>13
    <3> QED BY <3>7, <3>14
  <2> QED BY <2>1, <2>2, <2>3 DEF Apt, Open, Does
<1> QED BY <1>1, <1>2, <1>3

(* Wraps of two sizes.                                                     *)
LEMMA WrapsSame ==
  ASSUME NEW a \in Size, NEW n \in Size, Wraps(a, n)
  PROVE  a = n
<1>1. PICK m \in Nat : m = SizeMax + 1 /\ m > 0 /\ SizeMax = m - 1
  BY SizeAssumption
<1>2. a \in 0 .. m - 1 /\ n \in 0 .. m - 1
  BY <1>1 DEF Size
<1>3. PICK q \in Int : a = n + m * q
  BY <1>1 DEF Wraps
<1>4. PICK u \in Int : u = m * q /\ a = n + u
  BY <1>1, <1>3
<1>5. PICK x \in Nat, y \in Nat : x = a /\ y = n /\ x <= m - 1 /\ y <= m - 1
  BY <1>2
<1>6. x = y + u
  BY <1>4, <1>5
<1>7. u < 2 * m /\ -(2 * m) < u
  BY <1>1, <1>5, <1>6
<1>8. q \in {-1, 0, 1}
  BY <1>1, <1>4, <1>7, SmallMultiple
<1>9. u \in {-m, 0, m}
  BY <1>1, <1>4, <1>8
<1>10. u = 0
  BY <1>1, <1>5, <1>6, <1>9
<1> QED BY <1>5, <1>6, <1>10

LEMMA OnlyMoves ==
  ASSUME Countings, NEW t \in Threads, agenda[t] # <<>>, NEW d \in PipelineCalls, Passed(t, <<d>>),
         NEW q \in PipelineCalls, Only(q)
  PROVE  \A z \in Weights : Afoot(z, agenda', pending') = z[d]
<1> SUFFICES ASSUME NEW z \in Weights
             PROVE  Afoot(z, agenda', pending') = z[d]
  OBVIOUS
<1>1. Head(agenda[t]) = q /\ Afoot(z, agenda, pending) = z[q]
  BY NextOfStream DEF Only
<1>2. PICK calls \in Seq(PipelineCalls) : calls = <<d>>
  BY ShortSequences
<1>3. Weight(z, calls) = z[d]
  BY <1>2, WeightOfFew
<1>4. PICK a \in Nat, b \in Nat, x \in Nat, w \in Nat :
        /\ a = Afoot(z, agenda, pending) /\ b = Afoot(z, agenda', pending')
        /\ x = z[Head(agenda[t])] /\ w = Weight(z, calls)
        /\ b + x = a + w /\ x <= a
  <2>1. Passed(t, calls)
    BY <1>2
  <2> QED BY <2>1, Counted
<1>5. a = x
  BY <1>1, <1>4
<1>6. b = w
  BY <1>4, <1>5
<1> QED BY <1>3, <1>4, <1>6

(* The step of an operator in an open stream.                              *)
LEMMA WaitsOn ==
  ASSUME Countings, OperatorsOK, SourceOK(source), NEW t \in Threads, agenda[t] # <<>>, NEW i \in Stages,
         NEW calls \in Seq(PipelineCalls), NEW l \in LinkState, NEW o \in OperatorState,
         Acts(t, i, calls, l, o), o.name = own[i].name,
         Evens(i, Head(agenda[t]), calls, link[i], l, own[i]),
         \A j \in Stages : Waits(j)
  PROVE  \A j \in Stages : Waits(j)'
<1>1. /\ own'[i] = o /\ \A j \in Stages \ {i} : own'[j] = own[j]
      /\ link'[i] = l /\ \A j \in Stages \ {i} : link'[j] = link[j]
  BY DEF Acts, OperatorsOK
<1>2. \A j \in Parts \ {i} : Demanded(j)' = Demanded(j)
  BY OthersDemand
<1>3. \A j \in Stages : j \in Parts
  BY StageItself
<1>4. ASSUME NEW j \in Stages, j # i
      PROVE  Waits(j)'
  <2>1. Demanded(j)' = Demanded(j) /\ own'[j] = own[j] /\ link'[j] = link[j] /\ Waits(j)
    BY <1>1, <1>2, <1>3, <1>4
  <2> QED BY <2>1 DEF Waits, Does
<1>5. CASE own[i].name \notin Filtering
  <2>1. Spare(l) = Spare(link[i])
    BY <1>5 DEF Evens
  <2>2. Waits(i)'
    BY <1>1, <1>5, <2>1 DEF Waits, Does
  <2> QED BY <1>4, <2>2
<1>6. CASE own[i].name \in Filtering
  <2>1. PICK c \in PipelineCalls : c = Head(agenda[t])
    BY HeadIsTyped DEF Countings
  <2>2. PICK k \in LinkState : k = link[i]
    BY DEF OperatorsOK
  <2>3. /\ Wraps(Demanded(i), k.m_waiting)
        /\ Spare(k) # 0 => Demanded(i) > 0
    BY <1>6, <2>2 DEF Waits, Does
  <2>4. PICK d \in Nat, e \in Nat, x \in Nat, y \in Nat :
          /\ d = Demanded(i) /\ e = Demanded(i)' /\ x = Ahead(i)[c]
          /\ y = Weight(Ahead(i), calls) /\ e + x = d + y
    <3>1. \E d, e, x, y \in Nat :
            /\ d = Demanded(i) /\ e = Demanded(i)' /\ x = Ahead(i)[Head(agenda[t])]
            /\ y = Weight(Ahead(i), calls) /\ e + x = d + y
      BY OperatorDemand
    <3> QED BY <2>1, <3>1
  <2>5. PICK v \in Size, w \in Size : v = k.m_waiting /\ w = l.m_waiting
    BY DEF LinkState
  <2>6. v \in Nat /\ w \in Nat
    BY SizesAreTyped
  <2>7. Wraps(v + y, w + x) /\ (Spare(l) # 0 => w # 0 \/ (Spare(k) # 0 /\ y >= x))
    BY <1>6, <2>1, <2>2, <2>4, <2>5 DEF Evens
  <2>8. Wraps(d, v)
    BY <2>3, <2>4, <2>5
  <2>9. e + x = d + y
    BY <2>4
  <2>10. Wraps(e, w)
    BY <2>6, <2>7, <2>8, <2>9, WrapsMore
  <2>11. ASSUME Spare(l) # 0
         PROVE  e > 0
    <3>1. CASE w # 0
      <4>1. e # 0
        BY <2>10, <3>1, WrapsSame, SizesAreTyped
      <4> QED BY <4>1
    <3>2. CASE Spare(k) # 0 /\ y >= x
      <4>1. d > 0
        BY <2>3, <2>4, <3>2
      <4> QED BY <2>9, <3>2, <4>1
    <3> QED BY <2>7, <2>11, <3>1, <3>2
  <2>12. Waits(i)'
    <3>1. Wraps(Demanded(i)', link'[i].m_waiting)
      BY <1>1, <2>4, <2>5, <2>10
    <3>2. Spare(link'[i]) # 0 => Demanded(i)' > 0
      BY <1>1, <2>4, <2>11
    <3>3. own'[i].name \in Filtering
      BY <1>1, <1>6
    <3> QED BY <3>1, <3>2, <3>3 DEF Waits, Does
  <2> QED BY <1>4, <2>12
<1> QED BY <1>5, <1>6

LEMMA OperatorGoesOn ==
  ASSUME Countings, OperatorsOK, SubscriberTypeOK, NEW t \in Threads, agenda[t] # <<>>, NEW i \in Stages,
         NEW calls \in Seq(PipelineCalls), NEW l \in LinkState, NEW o \in OperatorState,
         Acts(t, i, calls, l, o), o.name = own[i].name,
         Goes(i, Head(agenda[t]), calls, link[i], l, own[i], o),
         Opening \/ Flowing
  PROVE  Opening' \/ Flowing'
<1>1. /\ own'[i] = o /\ \A j \in Stages \ {i} : own'[j] = own[j]
      /\ link'[i] = l /\ \A j \in Stages \ {i} : link'[j] = link[j]
      /\ subscriber' = subscriber /\ user' = user
      /\ Passed(t, calls) /\ Head(agenda[t]).at = i
  BY DEF Acts, OperatorsOK, subscriberVars
<1>2. PICK c \in PipelineCalls : c = Head(agenda[t]) /\ c.at = i
  BY <1>1, HeadIsTyped DEF Countings
<1>3. CASE Flowing
  <2>1. c \in Working
    BY <1>2, <1>3, NextOfStream DEF Flowing
  <2>2. c.sig # "subscribe" /\ c.sig # "onSubscribe"
    BY <2>1 DEF Working
  <2>3. calls \in Seq(Working) /\ l.held = link[i].held /\ o.held = own[i].held
    BY <1>2, <2>2 DEF Goes
  <2>4. There(Idling)' = 0
    <3>1. Weight(One(Idling), calls) = 0 /\ There(Idling) = 0
      BY <1>3, <2>3, WorkingWeighs DEF Flowing
    <3> QED BY <1>1, <3>1, Remains
  <2>5. ASSUME NEW j \in Stages
        PROVE  Ready(j)'
    <3>1. Ready(j)
      BY <1>3 DEF Flowing
    <3>2. CASE j = i
      BY <1>1, <2>3, <3>1, <3>2 DEF Ready, Does
    <3>3. CASE j # i
      BY <1>1, <3>1, <3>3 DEF Ready, Does
    <3> QED BY <3>2, <3>3
  <2> QED BY <1>1, <1>3, <2>4, <2>5 DEF Flowing
<1>4. CASE Opening
  <2>1. PICK q \in Setups : Only(q) /\ (q.sig = "onSubscribe" => \A k \in Stages : k < q.at => Ready(k))
    BY <1>4 DEF Opening
  <2>2. q \in PipelineCalls /\ c = q /\ c \notin Working
    BY <1>2, <2>1, NextOfStream, SetupsAre
  <2>3. /\ \A j \in Stages : Blank(link[j])
        /\ user.asked = 0 /\ ~subscriber.held
    BY <1>4 DEF Opening
  <2>4. ASSUME NEW d \in Setups, calls = <<d>>, Blank(l),
               d.sig = "onSubscribe" => \A k \in Stages : k < d.at => Ready(k)'
        PROVE  Opening'
    <3>1. d \in PipelineCalls
      BY SetupsAre
    <3>2. Only(d)'
      BY <1>1, <2>1, <2>2, <2>4, <3>1, OnlyMoves DEF Only
    <3>3. ASSUME NEW j \in Stages PROVE Blank(link'[j])
      <4>1. CASE j = i
        BY <1>1, <2>4, <4>1
      <4>2. CASE j # i
        BY <1>1, <2>3, <4>2
      <4> QED BY <4>1, <4>2
    <3> QED BY <1>1, <2>3, <2>4, <3>2, <3>3 DEF Opening
  <2>5. CASE c.sig = "subscribe" /\ calls = <<Call(i - 1, "subscribe", 0)>> /\ l = link[i] /\ o = own[i]
    <3>1. i - 1 \in 0 .. Depth
      BY DepthAssumption DEF Stages
    <3>a. Call(i - 1, "subscribe", 0) \in Setups
      BY <3>1 DEF Setups
    <3>2. PICK d \in Setups : d = Call(i - 1, "subscribe", 0) /\ d.sig = "subscribe"
      BY <3>a DEF Call
    <3>3. Blank(l)
      BY <2>3, <2>5
    <3> QED BY <2>4, <2>5, <3>2, <3>3
  <2>6. CASE /\ c.sig = "onSubscribe" /\ c.at = i /\ calls = <<Subscription(i)>> /\ l.held /\ Blank(l)
             /\ own[i].name \in Filtering => o.held
    <3>1. i + 1 \in Parts /\ i \in Nat
      BY DepthAssumption DEF Stages, Parts, Subscriber
    <3>a. Call(i + 1, "onSubscribe", 0) \in Setups
      BY <3>1 DEF Setups
    <3>2. PICK d \in Setups : d = Subscription(i) /\ d.at = i + 1
      BY <3>a DEF Subscription, Call
    <3>3. ASSUME NEW k \in Stages, k < i + 1
          PROVE  Ready(k)'
      <4>1. CASE k = i
        BY <1>1, <2>6, <4>1 DEF Ready, Does
      <4>2. CASE k # i
        <5>1. k < i
          BY <3>1, <3>3, <4>2 DEF Stages
        <5>2. Ready(k)
          BY <1>2, <2>1, <2>2, <2>6, <5>1
        <5> QED BY <1>1, <4>2, <5>2 DEF Ready, Does
      <4> QED BY <4>1, <4>2
    <3> QED BY <2>4, <2>6, <3>2, <3>3
  <2> QED BY <1>2, <2>2, <2>5, <2>6 DEF Goes
<1> QED BY <1>3, <1>4

(* ... keeps the account of demand.                                        *)
LEMMA OperatorServes ==
  ASSUME Countings, OperatorsOK, SourceOK(source), SubscriberTypeOK, NEW t \in Threads, agenda[t] # <<>>,
         NEW i \in Stages, Head(agenda[t]).at = i, UNCHANGED <<sourceVars, subscriberVars>>,
         Leads(t, i), Exhausts, Open /\ Modest => Account
  PROVE  Exhausts' /\ (Open' /\ Modest' => Account')
<1>1. PICK calls \in Seq(PipelineCalls), l \in LinkState, o \in OperatorState :
        /\ Passed(t, calls)
        /\ own' = [own EXCEPT ![i] = o] /\ link' = [link EXCEPT ![i] = l]
        /\ LeadsTo(i, Head(agenda[t]), calls, link[i], l, own[i], o)
  BY DEF Leads
<1>2. Acts(t, i, calls, l, o)
  BY <1>1 DEF Acts
<1>3. Ceases(i, Head(agenda[t]), calls, own[i], o)
  BY <1>1 DEF LeadsTo
<1>4. Exhausts' /\ (Open' => Open /\ ~Closes(calls))
  BY <1>2, <1>3, OperatorExhausts
<1>5. ASSUME Open', Modest'
      PROVE  Account'
  <2>1. Open /\ Modest /\ ~Closes(calls)
    BY <1>4, <1>5 DEF Modest, subscriberVars
  <2>2. Account
    BY <2>1
  <2>3. PICK c \in PipelineCalls : c = Head(agenda[t]) /\ c.at = i
    BY HeadIsTyped DEF Countings
  <2>4. Apt(i, c, link[i], own[i])
    BY <2>1, <2>2, <2>3, OperatorApt
  <2>5. Evens(i, c, calls, link[i], l, own[i]) /\ Goes(i, c, calls, link[i], l, own[i], o)
    BY <1>1, <2>1, <2>3, <2>4 DEF LeadsTo
  <2>6. o.name = own[i].name
    BY <1>3 DEF Ceases
  <2>7. \A j \in Stages : Waits(j)'
    <3>1. \A j \in Stages : Waits(j)
      BY <2>2 DEF Account
    <3> QED BY <1>2, <2>3, <2>5, <2>6, <3>1, WaitsOn
  <2>8. Opening' \/ Flowing'
    <3>1. Opening \/ Flowing
      BY <2>2 DEF Account
    <3> QED BY <1>2, <2>3, <2>5, <2>6, <3>1, OperatorGoesOn
  <2>9. Gives'
    <3>1. Gives /\ source' = source
      BY <2>2 DEF Account, sourceVars
    <3>2. c \notin Ticks /\ c \notin Agains
      BY <2>3, StageItself, DepthAssumption DEF Ticks, Agains, Stages
    <3>3. There(Ticks) > 0 => There(Ticks)' > 0
      BY <1>1, <2>3, <3>2, Remains
    <3>4. There(Agains) > 0 => There(Agains)' > 0
      BY <1>1, <2>3, <3>2, Remains
    <3> QED BY <3>1, <3>3, <3>4 DEF Gives
  <2>10. Asked'
    <3>1. Subscriber \in Parts /\ Subscriber # i
      BY DepthAssumption DEF Parts, Subscriber, Stages
    <3>2. Demanded(Subscriber)' = Demanded(Subscriber)
      BY <1>2, <2>3, <2>5, <3>1, OthersDemand
    <3>3. Asked /\ subscriber' = subscriber /\ user' = user /\ log' = log
      BY <2>2 DEF Account, subscriberVars
    <3> QED BY <3>2, <3>3 DEF Asked
  <2> QED BY <2>7, <2>8, <2>9, <2>10 DEF Account
<1> QED BY <1>4, <1>5

---------------------------------------------------------------------------
(* What a source makes of its call c, that is s before and r after it.     *)
Fit(c, s) ==
  /\ ~s.m_completed /\ ~s.m_canceled
  /\ s.kind # "interval" => s.m_requested = 0
  /\ c \in Working \cup Setups
  /\ c.sig = "request" => s.m_requested + c.arg <= SizeMax

Feeds(c, calls, s, r) ==
  /\ c \in Working /\ calls \in Seq(Working)
  /\ ~r.m_completed /\ ~r.m_canceled
  /\ r.kind # "interval" => r.m_requested = 0
  /\ \A j \in Parts : r.m_requested + Weight(Ahead(j), calls) = s.m_requested + Ahead(j)[c]
  /\ r.m_requested > 0 => \/ Weight(One(Ticks), calls) > 0 \/ Weight(One(Agains), calls) > 0
                          \/ s.m_running /\ c \notin Ticks
  /\ r.m_running => Weight(One(Ticks), calls) > 0 \/ (s.m_running /\ c \notin Ticks)

Gathers(c, calls, s, r) ==
  \/ Closes(calls)
  \/ c.sig = "subscribe" /\ calls = <<Subscription(0)>> /\ r = s
  \/ Feeds(c, calls, s, r)

SourceMoves(t) ==
  \/ /\ UNCHANGED callVars /\ source.kind # "interval"
     /\ source'.m_completed = source.m_completed /\ source'.m_canceled = source.m_canceled
     /\ source'.m_requested = source.m_requested /\ source'.m_running = source.m_running
  \/ \E calls \in Seq(PipelineCalls) :
       /\ Passed(t, calls)
       /\ Head(agenda[t]).at = 0 /\ Head(agenda[t]) \notin Closing
       /\ source'.kind = source.kind
       /\ Fit(Head(agenda[t]), source) => Gathers(Head(agenda[t]), calls, source, source')

LEMMA AheadBySource ==
  ASSUME NEW n \in Nat, NEW j \in Parts
  PROVE  /\ Value(0, n) \in Working /\ Ahead(j)[Value(0, n)] = 1
         /\ Request(0, n) \in Working /\ Ahead(j)[Request(0, n)] = n
         /\ Call(0, "tick", n) \in Working /\ Ahead(j)[Call(0, "tick", n)] = 1
         /\ Call(0, "again", n) \in Working /\ Ahead(j)[Call(0, "again", n)] = 0
<1>1. {Value(0, n), Request(0, n), Call(0, "tick", n), Call(0, "again", n)} \subseteq PipelineCalls
  BY SourceCalls
<1>2. j \in Nat /\ 1 <= j /\ 0 < j
  BY DepthAssumption DEF Parts, Subscriber
<1>3. /\ Value(0, n).sig = "onNext" /\ Value(0, n).at = 1
      /\ Request(0, n).sig = "request" /\ Request(0, n).at = 0 /\ Request(0, n).arg = n
      /\ Call(0, "tick", n).sig = "tick" /\ Call(0, "again", n).sig = "again"
  BY DEF Value, Request, Call
<1>4. Value(0, n) \in Working /\ Request(0, n) \in Working
      /\ Call(0, "tick", n) \in Working /\ Call(0, "again", n) \in Working
  BY <1>1, <1>3 DEF Working
<1>5. Ahead(j)[Value(0, n)] = 1
  BY <1>1, <1>2, <1>3, AheadOf
<1>6. Ahead(j)[Request(0, n)] = n
  BY <1>1, <1>2, <1>3, AheadOf
<1>7. Ahead(j)[Call(0, "tick", n)] = 1 /\ Ahead(j)[Call(0, "again", n)] = 0
  BY <1>1, <1>3, AheadOf
<1> QED BY <1>4, <1>5, <1>6, <1>7

LEMMA FeedingCalls ==
  ASSUME NEW n \in Nat, NEW m \in Nat
  PROVE  /\ <<Call(0, "tick", n)>> \in Seq(Working)
         /\ Weight(One(Ticks), <<Call(0, "tick", n)>>) > 0
         /\ \A j \in Parts : Weight(Ahead(j), <<Call(0, "tick", n)>>) = 1
         /\ <<Value(0, n), Call(0, "again", m)>> \in Seq(Working)
         /\ Weight(One(Agains), <<Value(0, n), Call(0, "again", m)>>) > 0
         /\ \A j \in Parts : Weight(Ahead(j), <<Value(0, n), Call(0, "again", m)>>) = 1
         /\ <<Value(0, n), Request(0, m)>> \in Seq(Working)
         /\ \A j \in Parts : Weight(Ahead(j), <<Value(0, n), Request(0, m)>>) = 1 + m
<1>0. 1 \in Parts
  BY DepthAssumption DEF Parts, Subscriber
<1>1. PICK a \in Working : a = Call(0, "tick", n) /\ a \in Ticks /\ \A j \in Parts : Ahead(j)[a] = 1
  <2>1. Call(0, "tick", n) \in Working /\ \A j \in Parts : Ahead(j)[Call(0, "tick", n)] = 1
    BY <1>0, AheadBySource
  <2>2. Call(0, "tick", n) \in Ticks
    BY <2>1 DEF Ticks, Working, Call
  <2> QED BY <2>1, <2>2
<1>2. PICK b \in Working : b = Value(0, n) /\ \A j \in Parts : Ahead(j)[b] = 1
  <2>1. Value(0, n) \in Working /\ \A j \in Parts : Ahead(j)[Value(0, n)] = 1
    BY <1>0, AheadBySource
  <2> QED BY <2>1
<1>3. PICK d \in Working : d = Call(0, "again", m) /\ d \in Agains /\ \A j \in Parts : Ahead(j)[d] = 0
  <2>1. Call(0, "again", m) \in Working /\ \A j \in Parts : Ahead(j)[Call(0, "again", m)] = 0
    BY <1>0, AheadBySource
  <2>2. Call(0, "again", m) \in Agains
    BY <2>1 DEF Agains, Working, Call
  <2> QED BY <2>1, <2>2
<1>4. PICK e \in Working : e = Request(0, m) /\ \A j \in Parts : Ahead(j)[e] = m
  <2>1. Request(0, m) \in Working /\ \A j \in Parts : Ahead(j)[Request(0, m)] = m
    BY <1>0, AheadBySource
  <2> QED BY <2>1
<1>5. <<a>> \in Seq(Working) /\ <<b, d>> \in Seq(Working) /\ <<b, e>> \in Seq(Working)
  BY WorkingCalls
<1>6. ASSUME NEW j \in Parts
      PROVE  Weight(Ahead(j), <<a>>) = 1 /\ Weight(Ahead(j), <<b, d>>) = 1
             /\ Weight(Ahead(j), <<b, e>>) = 1 + m
  <2>1. Weight(Ahead(j), <<a>>) = Ahead(j)[a]
    BY FewAhead
  <2>2. Weight(Ahead(j), <<b, d>>) = Ahead(j)[b] + Ahead(j)[d]
    BY FewAhead
  <2>3. Weight(Ahead(j), <<b, e>>) = Ahead(j)[b] + Ahead(j)[e]
    BY FewAhead
  <2>4. Ahead(j)[a] = 1 /\ Ahead(j)[b] = 1 /\ Ahead(j)[d] = 0 /\ Ahead(j)[e] = m
    BY <1>1, <1>2, <1>3, <1>4
  <2> QED BY <2>1, <2>2, <2>3, <2>4
<1>7. Weight(One(Ticks), <<a>>) > 0
  <2>1. PICK z \in Weights : z = One(Ticks) /\ z[a] = 1
    BY <1>1, WorkingCalls, OnesAre
  <2>2. Weight(z, <<a>>) = z[a]
    BY WorkingCalls, WeightOfFew
  <2> QED BY <2>1, <2>2
<1>8. Weight(One(Agains), <<b, d>>) > 0
  <2>1. PICK z \in Weights : z = One(Agains) /\ z[d] = 1
    BY <1>3, WorkingCalls, OnesAre
  <2>2. PICK x \in Nat : x = z[b]
    BY WorkingCalls, WeightsAre
  <2>3. b \in PipelineCalls /\ d \in PipelineCalls
    BY WorkingCalls
  <2>4. Weight(z, <<b, d>>) = z[b] + z[d]
    BY <2>3, WeightOfFew
  <2>5. x + 1 > 0
    OBVIOUS
  <2> QED BY <2>1, <2>2, <2>4, <2>5
<1> QED BY <1>1, <1>2, <1>3, <1>4, <1>5, <1>6, <1>7, <1>8

LEMMA SourceMovesBy ==
  ASSUME NEW t, NEW calls \in Seq(PipelineCalls), Passed(t, calls), source'.kind = source.kind,
         NEW sig \in {"subscribe", "request", "cancel", "tick", "again", "method"}, On(t, 0, sig),
         Fit(Head(agenda[t]), source) => Gathers(Head(agenda[t]), calls, source, source')
  PROVE  SourceMoves(t)
<1>1. Head(agenda[t]).at = 0 /\ Head(agenda[t]) \notin Closing
  BY DEF On, Closing, Ends
<1> QED BY <1>1 DEF SourceMoves

(* An end, and calls that Fit excludes.                                    *)
LEMMA EmitsCloses ==
  ASSUME NEW t, NEW a \in Seq(PipelineCalls), NEW e \in {Completion(0), Failure(0)},
         Emits(t, a \o <<e>>, <<>>)
  PROVE  \E calls \in Seq(PipelineCalls) : Passed(t, calls) /\ Closes(calls)
<1>1. e \in Closing
  <2>1. 0 \in Nat
    OBVIOUS
  <2>2. {Completion(0), Failure(0)} \subseteq PipelineCalls
    BY <2>1, SourceCalls
  <2> QED BY <2>2 DEF Closing, Completion, Failure, Call, Ends
<1>2. PICK b \in Seq(PipelineCalls) : b = <<>>
  BY NoneWorks
<1>3. a \o <<e>> \o b \in Seq(PipelineCalls) /\ Closes(a \o <<e>> \o b)
  BY <1>1, ClosingWeighs DEF Closes
<1>4. Makes(t, a \o <<e>> \o b)
  BY <1>2 DEF Emits
<1> QED BY <1>3, <1>4 DEF Passed

LEMMA SubscriptionHanded ==
  ASSUME NEW t, HandsSubscription(t)
  PROVE  SourceMoves(t)
<1>1. PICK d \in PipelineCalls : d = Subscription(0)
  <2>1. 0 \in Nat
    OBVIOUS
  <2> QED BY <2>1, SourceCalls
<1>2. PICK calls \in Seq(PipelineCalls) : calls = <<d>>
  BY ShortSequences
<1>3. <<>> \o calls = calls
  BY <1>2, TupleConcat
<1>4. Passed(t, calls) /\ source' = source /\ On(t, 0, "subscribe")
  BY <1>1, <1>2, <1>3 DEF HandsSubscription, Quietly, Emits, Passed
<1>5. Gathers(Head(agenda[t]), calls, source, source')
  BY <1>1, <1>2, <1>4 DEF Gathers, On
<1> QED BY <1>4, <1>5, SourceMovesBy

LEMMA EndingMoves ==
  ASSUME NEW t, NEW a \in Seq(PipelineCalls), NEW e \in {Completion(0), Failure(0)},
         Emits(t, a \o <<e>>, <<>>), source'.kind = source.kind,
         NEW sig \in {"subscribe", "request", "cancel", "tick", "again", "method"}, On(t, 0, sig)
  PROVE  SourceMoves(t)
<1>1. PICK calls \in Seq(PipelineCalls) : Passed(t, calls) /\ Closes(calls)
  BY EmitsCloses
<1> QED BY <1>1, SourceMovesBy DEF Gathers

LEMMA NothingMoves ==
  ASSUME NEW t, Emits(t, <<>>, <<>>), source'.kind = source.kind,
         NEW sig \in {"subscribe", "request", "cancel", "tick", "again", "method"}, On(t, 0, sig),
         ~Fit(Head(agenda[t]), source)
  PROVE  SourceMoves(t)
<1>1. PICK calls \in Seq(PipelineCalls) : calls = <<>>
  BY NoneWorks
<1>2. <<>> \o <<>> = <<>>
  OBVIOUS
<1>3. Passed(t, calls)
  BY <1>1, <1>2 DEF Emits, Passed
<1> QED BY <1>3, SourceMovesBy

LEMMA CancelUnfit ==
  ASSUME NEW t, On(t, 0, "cancel"), NEW s
  PROVE  ~Fit(Head(agenda[t]), s)
BY SetupsAre DEF On, Fit, Working

(* An interval asks for its next tick.                                     *)
LEMMA TryRequestMoves ==
  ASSUME CallsTypeOK, SourceOK(source), NEW t \in Threads, agenda[t] # <<>>,
         source.kind = "interval", NEW demand \in Size, NEW v \in Nat, TryRequest(t, demand, v),
         NEW sig \in {"request", "again"}, On(t, 0, sig),
         Fit(Head(agenda[t]), source) =>
           \A j \in Parts : demand = source.m_requested + Ahead(j)[Head(agenda[t])]
  PROVE  SourceMoves(t)
<1>1. PICK n \in Nat, d \in Nat : n = source.m_requested /\ d = demand /\ source \in SourceMembers
  BY SizesAreTyped DEF SourceOK, SourceMembers
<1>2. PICK c \in PipelineCalls : c = Head(agenda[t]) /\ c.sig = sig
  BY CallTaken DEF On
<1>3. c \in Working /\ c \notin Ticks
  BY <1>2 DEF Working, Ticks
<1>4. /\ source'.m_requested = (IF d = 0 THEN 0 ELSE d - 1)
      /\ source'.m_running = (source.m_running \/ d > 0)
      /\ source'.m_completed = source.m_completed /\ source'.m_canceled = source.m_canceled
      /\ source'.kind = source.kind
  BY <1>1 DEF TryRequest, SourceMembers
<1>5. CASE d = 0
  <2>1. PICK calls \in Seq(Working) : /\ calls = <<>> /\ calls \in Seq(PipelineCalls)
                                      /\ \A j \in Parts : Weight(Ahead(j), calls) = 0
    BY NoneWorks
  <2>2. Passed(t, calls)
    BY <1>1, <1>5, <2>1 DEF TryRequest, Passed
  <2>3. ASSUME Fit(c, source)
        PROVE  Feeds(c, calls, source, source')
    <3>1. \A j \in Parts : source'.m_requested + Weight(Ahead(j), calls) = source.m_requested + Ahead(j)[c]
      <4> SUFFICES ASSUME NEW j \in Parts
                   PROVE  source'.m_requested + Weight(Ahead(j), calls) = source.m_requested + Ahead(j)[c]
        OBVIOUS
      <4>1. 0 = source.m_requested + Ahead(j)[c]
        BY <1>1, <1>2, <1>5, <2>3
      <4> QED BY <1>4, <1>5, <2>1, <4>1
    <3>2. source'.m_requested = 0 /\ source'.m_running = source.m_running
      BY <1>1, <1>4, <1>5 DEF SourceMembers
    <3> QED BY <1>3, <1>4, <2>1, <2>3, <3>1, <3>2 DEF Feeds, Fit
  <2> QED BY <1>2, <1>4, <2>1, <2>2, <2>3, SourceMovesBy DEF Gathers
<1>6. CASE d # 0
  <2>1. PICK e \in PipelineCalls : e = Call(0, "tick", v)
    BY SourceCalls
  <2>2. PICK calls \in Seq(Working) : /\ calls = <<e>> /\ calls \in Seq(PipelineCalls)
                                      /\ Weight(One(Ticks), calls) > 0
                                      /\ \A j \in Parts : Weight(Ahead(j), calls) = 1
    BY <2>1, FeedingCalls, ShortSequences
  <2>3. Passed(t, calls)
    BY <1>1, <1>6, <2>1, <2>2 DEF TryRequest, Passed
  <2>4. ASSUME Fit(c, source)
        PROVE  Feeds(c, calls, source, source')
    <3>1. \A j \in Parts : source'.m_requested + Weight(Ahead(j), calls) = source.m_requested + Ahead(j)[c]
      <4> SUFFICES ASSUME NEW j \in Parts
                   PROVE  source'.m_requested + Weight(Ahead(j), calls) = source.m_requested + Ahead(j)[c]
        OBVIOUS
      <4>1. d = source.m_requested + Ahead(j)[c]
        BY <1>1, <1>2, <2>4
      <4>2. (d - 1) + 1 = d
        BY <1>6
      <4>3. source'.m_requested = d - 1 /\ Weight(Ahead(j), calls) = 1
        BY <1>4, <1>6, <2>2
      <4> QED BY <4>1, <4>2, <4>3
    <3>2. source'.kind = "interval"
      BY <1>4
    <3> QED BY <1>3, <1>4, <2>2, <2>4, <3>1, <3>2 DEF Feeds, Fit
  <2> QED BY <1>2, <1>4, <2>2, <2>3, <2>4, SourceMovesBy DEF Gathers
<1> QED BY <1>5, <1>6

(* The handlers of the interval and of the range.                          *)
LEMMA IntervalMoves ==
  ASSUME CallsTypeOK, SourceOK(source), NEW t \in Threads, agenda[t] # <<>>, Interval(t)
  PROVE  SourceMoves(t)
<1>1. source.kind = "interval" /\ source \in SourceMembers /\ source.m_requested \in Size
  BY DEF Interval, Is, SourceOK, SourceMembers
<1>2. PICK n \in Nat, a \in Nat : n = source.m_requested /\ a = Arg(t)
  BY <1>1, HeadIsTyped, SizesAreTyped
<1>3. PICK c \in PipelineCalls : c = Head(agenda[t]) /\ c.arg = a
  BY <1>2, HeadIsTyped DEF Arg
<1>4. CASE HandsSubscription(t)
  BY <1>4, SubscriptionHanded
<1>5. CASE IntervalRequest(t)
  <2>1. On(t, 0, "request") /\ c.sig = "request" /\ c.at = 0
    BY <1>3, <1>5 DEF IntervalRequest, On
  <2>2. PICK demand \in Size : demand = Plus(n, a)
    BY SizesAreTyped
  <2>3. ASSUME Fit(c, source), NEW j \in Parts
        PROVE  demand = source.m_requested + Ahead(j)[c]
    <3>1. Ahead(j)[c] = a
      <4>1. 0 < j
        BY DepthAssumption DEF Parts, Subscriber
      <4> QED BY <1>3, <2>1, <4>1, AheadOf
    <3>2. n + a <= SizeMax
      BY <1>2, <1>3, <2>1, <2>3 DEF Fit
    <3>3. Plus(n, a) = n + a
      BY <3>2, SizeAssumption DEF Plus
    <3> QED BY <1>2, <2>2, <3>1, <3>3
  <2>4. CASE ~source.m_running /\ ~source.m_canceled
    <3>1. TryRequest(t, demand, 0)
      BY <1>2, <1>5, <2>2, <2>4 DEF IntervalRequest
    <3>2. 0 \in Nat
      OBVIOUS
    <3> QED BY <1>1, <1>3, <2>1, <2>3, <3>1, <3>2, TryRequestMoves
  <2>5. CASE ~(~source.m_running /\ ~source.m_canceled)
    <3>1. source' = [source EXCEPT !.m_requested = demand] /\ Quietly(t, <<>>)
      BY <1>2, <1>5, <2>2, <2>5 DEF IntervalRequest
    <3>2. PICK calls \in Seq(Working) : /\ calls = <<>> /\ calls \in Seq(PipelineCalls)
                                        /\ \A j \in Parts : Weight(Ahead(j), calls) = 0
      BY NoneWorks
    <3>3. <<>> \o <<>> = <<>>
      OBVIOUS
    <3>4. Passed(t, calls)
      BY <3>1, <3>2, <3>3 DEF Quietly, Emits, Passed
    <3>5. /\ source'.m_requested = demand /\ source'.m_running = source.m_running
          /\ source'.m_completed = source.m_completed /\ source'.m_canceled = source.m_canceled
          /\ source'.kind = source.kind
      BY <1>1, <3>1 DEF SourceMembers
    <3>6. c \in Working /\ c \notin Ticks
      BY <2>1 DEF Working, Ticks
    <3>7. ASSUME Fit(c, source)
          PROVE  Feeds(c, calls, source, source')
      <4>1. source.m_running
        BY <2>5, <3>7 DEF Fit
      <4>2. \A j \in Parts : source'.m_requested + Weight(Ahead(j), calls) = source.m_requested + Ahead(j)[c]
        <5> SUFFICES ASSUME NEW j \in Parts
                     PROVE  source'.m_requested + Weight(Ahead(j), calls) = source.m_requested + Ahead(j)[c]
          OBVIOUS
        <5>1. demand = source.m_requested + Ahead(j)[c]
          BY <2>3, <3>7
        <5>2. demand + 0 = demand
          BY SizesAreTyped
        <5> QED BY <3>2, <3>5, <5>1, <5>2
      <4> QED BY <1>1, <3>2, <3>5, <3>6, <3>7, <4>1, <4>2 DEF Feeds, Fit
    <3> QED BY <1>3, <2>1, <3>2, <3>4, <3>5, <3>7, SourceMovesBy DEF Gathers
  <2> QED BY <2>4, <2>5
<1>6. CASE IntervalCancel(t)
  <2>1. On(t, 0, "cancel") /\ Emits(t, <<>>, <<>>) /\ source'.kind = source.kind
    BY <1>1, <1>6 DEF IntervalCancel, Quietly, SourceMembers
  <2> QED BY <2>1, CancelUnfit, NothingMoves
<1>7. CASE IntervalTick(t)
  <2>1. On(t, 0, "tick") /\ source' = [source EXCEPT !.m_running = FALSE] /\ c.sig = "tick"
    BY <1>3, <1>7 DEF IntervalTick, On
  <2>2. /\ source'.m_requested = source.m_requested /\ ~source'.m_running
        /\ source'.m_completed = source.m_completed /\ source'.m_canceled = source.m_canceled
        /\ source'.kind = source.kind
    BY <1>1, <2>1 DEF SourceMembers
  <2>3. CASE source.m_canceled
    <3>1. Emits(t, <<>>, <<>>)
      BY <1>7, <2>3 DEF IntervalTick, Quietly
    <3> QED BY <2>1, <2>2, <2>3, <3>1, NothingMoves DEF Fit
  <2>4. CASE ~source.m_canceled
    <3>1. Emits(t, <<Value(0, a)>>, <<Call(0, "again", a + 1)>>)
      BY <1>2, <1>7, <2>4 DEF IntervalTick
    <3>2. PICK m \in Nat : m = a + 1
      OBVIOUS
    <3>3. <<Value(0, a)>> \o <<Call(0, "again", m)>> = <<Value(0, a), Call(0, "again", m)>>
      BY TupleConcat
    <3>4. PICK calls \in Seq(Working) : /\ calls = <<Value(0, a), Call(0, "again", m)>>
                                        /\ Weight(One(Agains), calls) > 0
                                        /\ \A j \in Parts : Weight(Ahead(j), calls) = 1
      BY FeedingCalls
    <3>5. Passed(t, calls) /\ calls \in Seq(PipelineCalls)
      BY <3>1, <3>2, <3>3, <3>4, WorkingCalls DEF Emits, Passed
    <3>6. c \in Working /\ \A j \in Parts : Ahead(j)[c] = 1
      BY <2>1, AheadOf DEF Working
    <3>7. ASSUME Fit(c, source)
          PROVE  Feeds(c, calls, source, source')
      BY <1>1, <2>2, <3>4, <3>6, <3>7 DEF Feeds, Fit
    <3> QED BY <1>3, <2>1, <2>2, <3>5, <3>7, SourceMovesBy DEF Gathers
  <2> QED BY <2>3, <2>4
<1>8. CASE IntervalAgain(t)
  <2>1. On(t, 0, "again") /\ TryRequest(t, source.m_requested, a)
    BY <1>2, <1>8 DEF IntervalAgain
  <2>2. \A j \in Parts : source.m_requested = source.m_requested + Ahead(j)[c]
    <3>1. \A j \in Parts : Ahead(j)[c] = 0
      BY <1>3, <2>1, AheadOf DEF On
    <3>2. n = n + 0
      OBVIOUS
    <3> QED BY <1>2, <3>1, <3>2
  <2>3. source.m_requested \in Size
    BY <1>1 DEF SourceMembers
  <2> QED BY <1>1, <1>3, <2>1, <2>2, <2>3, TryRequestMoves
<1> QED BY <1>4, <1>5, <1>6, <1>7, <1>8 DEF Interval

LEMMA RangeMoves ==
  ASSUME CallsTypeOK, SourceOK(source), NEW t \in Threads, agenda[t] # <<>>, RangeSource(t)
  PROVE  SourceMoves(t)
<1>1. source.kind = "range" /\ source \in SourceMembers
  BY DEF RangeSource, Is, SourceOK
<1>2. PICK a \in Nat, c \in PipelineCalls : a = Arg(t) /\ c = Head(agenda[t]) /\ c.arg = a
  BY HeadIsTyped DEF Arg
<1>3. PICK s \in Seq(PipelineCalls) : s = <<>> /\ <<>> \o <<>> = <<>>
  <2>1. <<>> \o <<>> = <<>>
    OBVIOUS
  <2> QED BY <2>1, NoneWorks
<1>4. 0 \in Nat /\ Completion(0) \in PipelineCalls /\ <<>> \o <<Completion(0)>> = <<Completion(0)>>
  <2>1. 0 \in Nat
    OBVIOUS
  <2> QED BY <2>1, SourceCalls, TupleConcat
<1>5. CASE HandsSubscription(t)
  BY <1>5, SubscriptionHanded
<1>6. CASE RangeStops(t)
  <2>1. /\ On(t, 0, "request") /\ Emits(t, <<>>, <<>>) /\ source' = source
        /\ Arg(t) = 0 \/ RangeEnded
    BY <1>6 DEF RangeStops, Quietly
  <2>2. CASE RangeEnded
    BY <2>1, <2>2, NothingMoves DEF Fit, RangeEnded
  <2>3. CASE a = 0
    <3>1. PICK calls \in Seq(Working) : /\ calls = <<>> /\ calls \in Seq(PipelineCalls)
                                        /\ \A j \in Parts : Weight(Ahead(j), calls) = 0
      BY NoneWorks
    <3>2. Passed(t, calls)
      BY <1>3, <2>1, <3>1 DEF Emits, Passed
    <3>3. c \in Working /\ c \notin Ticks /\ \A j \in Parts : Ahead(j)[c] = 0
      <4>1. c.sig = "request" /\ c.at = 0
        BY <1>2, <2>1 DEF On
      <4>2. \A j \in Parts : Ahead(j)[c] = 0
        BY <1>2, <2>3, <4>1, AheadOf
      <4> QED BY <4>1, <4>2 DEF Working, Ticks
    <3>4. ASSUME Fit(c, source)
          PROVE  Feeds(c, calls, source, source')
      <4>1. source.m_requested = 0 /\ source.m_running \in BOOLEAN
        BY <1>1, <3>4 DEF Fit, SourceMembers
      <4> QED BY <1>1, <2>1, <3>1, <3>3, <3>4, <4>1 DEF Feeds, Fit
    <3> QED BY <1>2, <2>1, <3>1, <3>2, <3>4, SourceMovesBy DEF Gathers
  <2> QED BY <1>2, <2>1, <2>2, <2>3
<1>7. CASE RangeCompletes(t)
  <2>1. /\ On(t, 0, "request") /\ Emits(t, <<>> \o <<Completion(0)>>, <<>>)
        /\ source' = [source EXCEPT !.m_completed = TRUE]
    BY <1>4, <1>7 DEF RangeCompletes
  <2>2. source'.kind = source.kind
    BY <1>1, <2>1 DEF SourceMembers
  <2> QED BY <1>3, <2>1, <2>2, EndingMoves
<1>8. CASE RangeTurn(t)
  <2>1. source.elements[source.m_current] \in Nat /\ a > 0
    <3>1. source.elements \in Seq(Nat) /\ source.m_current \in Nat \ {0}
      BY <1>1, InputsAssumption DEF SourceMembers
    <3>2. source.m_current \in 1 .. Len(source.elements) /\ Arg(t) > 0
      BY <1>8, <3>1, LenProperties DEF RangeTurn, RangeDone
    <3> QED BY <1>2, <3>1, <3>2, ElementOfSeq
  <2>2. PICK v \in Nat, m \in Nat : v = source.elements[source.m_current] /\ m = a - 1 /\ 1 + m = a
    BY <2>1
  <2>3. /\ On(t, 0, "request") /\ Emits(t, <<Value(0, v)>>, <<Request(0, m)>>)
        /\ source' = [source EXCEPT !.m_current = @ + 1]
    BY <1>2, <1>8, <2>2 DEF RangeTurn
  <2>4. PICK calls \in Seq(Working) : /\ calls = <<Value(0, v), Request(0, m)>>
                                      /\ \A j \in Parts : Weight(Ahead(j), calls) = 1 + m
    BY FeedingCalls
  <2>5. Passed(t, calls) /\ calls \in Seq(PipelineCalls)
    BY <2>3, <2>4, TupleConcat, WorkingCalls DEF Emits, Passed
  <2>6. /\ source'.m_requested = source.m_requested /\ source'.m_running = source.m_running
        /\ source'.m_completed = source.m_completed /\ source'.m_canceled = source.m_canceled
        /\ source'.kind = source.kind
    BY <1>1, <2>3 DEF SourceMembers
  <2>7. c \in Working /\ c \notin Ticks /\ \A j \in Parts : Ahead(j)[c] = a
    <3>1. c.sig = "request" /\ c.at = 0
      BY <1>2, <2>3 DEF On
    <3>2. \A j \in Parts : 0 < j
      BY DepthAssumption DEF Parts, Subscriber
    <3>3. \A j \in Parts : Ahead(j)[c] = a
      BY <1>2, <3>1, <3>2, AheadOf
    <3> QED BY <3>1, <3>3 DEF Working, Ticks
  <2>8. ASSUME Fit(c, source)
        PROVE  Feeds(c, calls, source, source')
    <3>1. source.m_requested = 0 /\ source.m_running \in BOOLEAN
      BY <1>1, <2>8 DEF Fit, SourceMembers
    <3>2. \A j \in Parts : Weight(Ahead(j), calls) = Ahead(j)[c]
      BY <2>2, <2>4, <2>7
    <3>3. \A j \in Parts : source'.m_requested + Weight(Ahead(j), calls) = source.m_requested + Ahead(j)[c]
      BY <2>6, <3>2
    <3>4. source.kind # "interval" /\ ~source.m_completed /\ ~source.m_canceled
      BY <1>1, <2>8 DEF Fit
    <3>5. c \in Working /\ c \notin Ticks /\ calls \in Seq(Working)
      BY <2>4, <2>7
    <3>6. /\ source'.m_requested = 0 /\ source'.m_running = source.m_running
          /\ ~source'.m_completed /\ ~source'.m_canceled
      BY <2>6, <3>1, <3>4
    <3>7. ~(source'.m_requested > 0)
      BY <3>6
    <3> QED BY <3>3, <3>5, <3>6, <3>7 DEF Feeds
  <2> QED BY <1>2, <2>3, <2>5, <2>6, <2>8, SourceMovesBy DEF Gathers
<1>9. CASE RangeCancel(t)
  <2>1. /\ On(t, 0, "cancel") /\ Emits(t, <<>> \o <<Completion(0)>>, <<>>)
        /\ source' = [source EXCEPT !.m_canceled = TRUE]
    BY <1>4, <1>9 DEF RangeCancel
  <2>2. source'.kind = source.kind
    BY <1>1, <2>1 DEF SourceMembers
  <2> QED BY <1>3, <2>1, <2>2, EndingMoves
<1> QED BY <1>5, <1>6, <1>7, <1>8, <1>9 DEF RangeSource

(* Every handler of these sources.                                         *)
LEMMA SourceLeads ==
  ASSUME CallsTypeOK, SourceOK(source), NEW t \in Threads, SourceStep(t), source.kind \in Served
  PROVE  SourceMoves(t)
<1>1. agenda[t] # <<>> /\ source \in SourceMembers
  BY SourceActs DEF SourceOK
<1>3. PICK s \in Seq(PipelineCalls) : s = <<>> /\ <<>> \o <<>> = <<>>
  <2>1. <<>> \o <<>> = <<>>
    OBVIOUS
  <2> QED BY <2>1, NoneWorks
<1>4. \A e \in {Completion(0), Failure(0)} : <<>> \o <<e>> = <<e>>
  BY TupleConcat
<1>5. ASSUME NEW e \in {Completion(0), Failure(0)}, Emits(t, <<e>>, <<>>), source'.kind = source.kind,
             NEW sig \in {"subscribe", "request", "cancel"}, On(t, 0, sig)
      PROVE  SourceMoves(t)
  <2>1. Emits(t, s \o <<e>>, <<>>)
    BY <1>3, <1>4, <1>5
  <2> QED BY <1>5, <2>1, EndingMoves
<1>6. CASE Empty(t)
  <2>1. CASE HandsSubscription(t)
    BY <2>1, SubscriptionHanded
  <2>2. CASE ~HandsSubscription(t)
    <3>1. /\ On(t, 0, "request") \/ On(t, 0, "cancel")
          /\ source' = [source EXCEPT !.m_completed = TRUE]
          /\ Emits(t, IF source.m_completed THEN <<>> ELSE <<Completion(0)>>, <<>>)
      BY <1>6, <2>2 DEF Empty
    <3>2. source'.kind = source.kind
      BY <1>1, <3>1 DEF SourceMembers
    <3>3. CASE source.m_completed
      <4>1. Emits(t, <<>>, <<>>) /\ ~Fit(Head(agenda[t]), source)
        BY <3>1, <3>3 DEF Fit
      <4> QED BY <3>1, <3>2, <4>1, NothingMoves
    <3>4. CASE ~source.m_completed
      BY <1>5, <3>1, <3>2, <3>4
    <3> QED BY <3>3, <3>4
  <2> QED BY <2>1, <2>2
<1>7. CASE Just(t)
  <2>1. CASE HandsSubscription(t)
    BY <2>1, SubscriptionHanded
  <2>2. CASE JustRequest(t)
    <3>1. /\ On(t, 0, "request") /\ source' = [source EXCEPT !.m_completed = TRUE]
          /\ Emits(t, IF source.m_completed THEN <<>>
                      ELSE <<Value(0, source.elements[1]), Completion(0)>>, <<>>)
      BY <2>2 DEF JustRequest
    <3>2. source'.kind = source.kind
      BY <1>1, <3>1 DEF SourceMembers
    <3>3. CASE source.m_completed
      <4>1. Emits(t, <<>>, <<>>) /\ ~Fit(Head(agenda[t]), source)
        BY <3>1, <3>3 DEF Fit
      <4> QED BY <3>1, <3>2, <4>1, NothingMoves
    <3>4. CASE ~source.m_completed
      <4>1. source.elements[1] \in Nat
        <5>1. source.elements \in Seq(Nat) /\ Len(source.elements) = 1
          BY <1>1, <1>7, InputsAssumption DEF SourceOK, SourceMembers, Just, Is
        <5> QED BY <5>1, ElementOfSeq
      <4>2. PICK v \in PipelineCalls : v = Value(0, source.elements[1])
        BY <4>1, SourceCalls
      <4>3. PICK r \in Seq(PipelineCalls) : r = <<v>> /\ r \o <<Completion(0)>> = <<v, Completion(0)>>
        BY ShortSequences, TupleConcat
      <4>4. Emits(t, r \o <<Completion(0)>>, <<>>)
        BY <3>1, <3>4, <4>2, <4>3
      <4> QED BY <3>1, <3>2, <4>4, EndingMoves
    <3> QED BY <3>3, <3>4
  <2>3. CASE On(t, 0, "cancel") /\ Emits(t, <<Completion(0)>>, <<>>) /\ UNCHANGED source
    BY <1>5, <2>3
  <2> QED BY <1>7, <2>1, <2>2, <2>3 DEF Just
<1>8. CASE Error(t)
  BY <1>5, <1>8 DEF Error
<1>9. CASE Defer(t)
  <2>1. PICK kind \in {"range", "error"} : source' = [source EXCEPT !.kind = kind]
    BY <1>9 DEF Defer
  <2>2. UNCHANGED callVars /\ source.kind = "defer"
    BY <1>9 DEF Defer, Is, callVars
  <2>3. /\ source'.m_completed = source.m_completed /\ source'.m_canceled = source.m_canceled
        /\ source'.m_requested = source.m_requested /\ source'.m_running = source.m_running
    BY <1>1, <2>1 DEF SourceMembers
  <2> QED BY <2>2, <2>3 DEF SourceMoves
<1>10. CASE MethodReturns(t)
  <2>1. On(t, 0, "method") /\ Emits(t, <<>>, <<>>) /\ source' = source
    BY <1>10 DEF MethodReturns, Quietly
  <2>2. ~Fit(Head(agenda[t]), source)
    BY <2>1, SetupsAre DEF On, Fit, Working
  <2> QED BY <2>1, <2>2, NothingMoves
<1>11. Empty(t) \/ Just(t) \/ RangeSource(t) \/ Error(t) \/ Defer(t) \/ Interval(t) \/ MethodReturns(t)
  BY DEF SourceStep, Never, Create, CallsMethod, MethodWaits, ObservableGate, SingleGate, MaybeGate,
         CompletableGate, Is, Gates, Served
<1> QED BY <1>1, <1>6, <1>7, <1>8, <1>9, <1>10, <1>11, RangeMoves, IntervalMoves

LEMMA SameDemand ==
  ASSUME UNCHANGED <<stageVars, subscriberVars>>, \A j \in Parts : Demanded(j)' = Demanded(j),
         Asked, \A i \in Stages : Waits(i)
  PROVE  Asked' /\ \A i \in Stages : Waits(i)'
<1>1. own' = own /\ link' = link /\ subscriber' = subscriber /\ user' = user /\ log' = log
  BY DEF stageVars, subscriberVars
<1>2. Subscriber \in Parts /\ \A i \in Stages : i \in Parts
  BY StageItself, DepthAssumption DEF Parts, Subscriber
<1>3. Asked'
  BY <1>1, <1>2 DEF Asked
<1>4. ASSUME NEW i \in Stages
      PROVE  Waits(i)'
  BY <1>1, <1>2 DEF Waits, Does
<1> QED BY <1>3, <1>4

(* Calls that close nothing.                                               *)
LEMMA OthersExhaust ==
  ASSUME Countings, NEW t \in Threads, agenda[t] # <<>>, NEW calls \in Seq(PipelineCalls), Passed(t, calls),
         Head(agenda[t]) \notin Closing, \A i \in Stages : Head(agenda[t]) \notin Tests(i),
         UNCHANGED own, Ended => Ended', user.canceled => user'.canceled, Exhausts
  PROVE  Exhausts' /\ (Open' => Open /\ ~Closes(calls))
<1>1. PICK c \in PipelineCalls : c = Head(agenda[t])
  BY HeadIsTyped DEF Countings
<1>2. /\ There(Closing) \in Nat /\ There(Closing)' \in Nat
      /\ There(Closing) > 0 => There(Closing)' > 0
      /\ There(Closing)' = 0 => Weight(One(Closing), calls) = 0 /\ There(Closing) = 0
  BY <1>1, Remains
<1>3. \A i \in Stages : There(Tests(i)) > 0 => There(Tests(i))' > 0
  BY <1>1, Remains
<1>4. Exhausts'
  BY <1>2, <1>3 DEF Exhausts, Does
<1>5. Open' => Open /\ ~Closes(calls)
  BY <1>2 DEF Open, Closes, Does
<1> QED BY <1>4, <1>5

LEMMA SourceIsFit ==
  ASSUME Countings, OperatorsOK, SourceOK(source), SubscriberTypeOK, NEW t \in Threads, agenda[t] # <<>>,
         NEW c \in PipelineCalls, c = Head(agenda[t]), c.at = 0, Modest, Account
  PROVE  /\ Fit(c, source)
         /\ Opening => c \in Setups /\ c \notin Working
         /\ Flowing => c \in Working /\ c \notin Setups
<1>1. Opening => c \in Setups /\ c \notin Working
  BY SetupsAre, NextOfStream DEF Opening
<1>2. Flowing => c \in Working /\ c \notin Setups
  BY SetupsAre, NextOfStream DEF Flowing
<1>3. ASSUME c.sig = "request"
      PROVE  source.m_requested + c.arg <= SizeMax
  <2>1. Subscriber \in Parts /\ 0 < Subscriber
    BY DepthAssumption DEF Parts, Subscriber
  <2>2. PICK r \in Nat, a \in Nat, b \in Nat :
          /\ r = source.m_requested /\ a = Afoot(Ahead(Subscriber), agenda, pending)
          /\ b = Total(Before(link, Subscriber)) /\ Demanded(Subscriber) = r + a + b
    BY <2>1, DemandedIs
  <2>3. PICK n \in Nat : n = c.arg /\ n = Ahead(Subscriber)[c]
    BY <1>3, <2>1, AheadOf
  <2>4. n <= a
    BY <2>1, <2>2, <2>3, WeightsOfCalls, AfootIs
  <2>5. PICK d \in Nat : d = Demanded(Subscriber) /\ d = r + a + b
    BY <2>2
  <2>6. d <= SizeMax
    BY <2>5, DemandIsModest DEF Account
  <2>7. r + n <= d
    BY <2>4, <2>5
  <2>8. SizeMax \in Nat
    BY SizeAssumption
  <2>9. r + n <= SizeMax
    BY <2>6, <2>7, <2>8
  <2> QED BY <2>2, <2>3, <2>9
<1> QED BY <1>1, <1>2, <1>3 DEF Fit, Account, Gives

LEMMA SourceDemand ==
  ASSUME Countings, OperatorsOK, SourceOK(source), SourceOK(source'), NEW t \in Threads, agenda[t] # <<>>,
         NEW c \in PipelineCalls, c = Head(agenda[t]), NEW calls \in Seq(PipelineCalls), Passed(t, calls),
         UNCHANGED link, NEW j \in Parts,
         source'.m_requested + Weight(Ahead(j), calls) = source.m_requested + Ahead(j)[c]
  PROVE  Demanded(j)' = Demanded(j)
<1>1. PICK r \in Nat, a \in Nat, b \in Nat :
        /\ r = source.m_requested /\ a = Afoot(Ahead(j), agenda, pending)
        /\ b = Total(Before(link, j)) /\ Demanded(j) = r + a + b
  BY DemandedIs
<1>2. PICK aa \in Nat, bb \in Nat, x \in Nat, w \in Nat :
        /\ aa = Afoot(Ahead(j), agenda, pending) /\ bb = Afoot(Ahead(j), agenda', pending')
        /\ x = Ahead(j)[Head(agenda[t])] /\ w = Weight(Ahead(j), calls)
        /\ bb + x = aa + w /\ x <= aa
  <2>1. PICK z \in Weights : z = Ahead(j)
    BY WeightsOfCalls
  <2>2. \E f, g, u, v \in Nat :
          /\ f = Afoot(z, agenda, pending) /\ g = Afoot(z, agenda', pending')
          /\ u = z[Head(agenda[t])] /\ v = Weight(z, calls)
          /\ g + u = f + v /\ u <= f
    BY Counted
  <2> QED BY <2>1, <2>2
<1>3. PICK s \in Nat : s = source'.m_requested
  BY SizesAreTyped DEF SourceOK, SourceMembers
<1>4. s + w = r + x
  BY <1>1, <1>2, <1>3
<1>5. bb + x = a + w
  BY <1>1, <1>2
<1>6. s + bb + b = r + a + b
  BY <1>4, <1>5
<1>7. Demanded(j)' = s + bb + b
  BY <1>1, <1>2, <1>3 DEF Demanded, Due
<1> QED BY <1>1, <1>6, <1>7

(* The steps of the source, the subscriber and the user keep the account.  *)
LEMMA SourceServes ==
  ASSUME Countings, OperatorsOK, SourceOK(source), SourceOK(source'), SubscriberTypeOK, NEW t \in Threads,
         agenda[t] # <<>>, SourceMoves(t), UNCHANGED <<stageVars, subscriberVars>>,
         Exhausts, Open /\ Modest => Account
  PROVE  Exhausts' /\ (Open' /\ Modest' => Account')
<1>1. own' = own /\ link' = link /\ subscriber' = subscriber /\ user' = user /\ log' = log
  BY DEF stageVars, subscriberVars
<1>2. CASE /\ UNCHANGED callVars /\ source.kind # "interval"
           /\ source'.m_completed = source.m_completed /\ source'.m_canceled = source.m_canceled
           /\ source'.m_requested = source.m_requested /\ source'.m_running = source.m_running
  <2>1. agenda' = agenda /\ pending' = pending
    BY <1>2 DEF callVars
  <2>2. Exhausts' /\ (Open' => Open)
    BY <1>1, <2>1 DEF Exhausts, Open, Ended, There, Does
  <2>3. ASSUME Open', Modest'
        PROVE  Account'
    <3>1. Account
      BY <1>1, <2>2, <2>3 DEF Modest
    <3>2. \A j \in Parts : Demanded(j)' = Demanded(j)
      BY <1>1, <1>2, <2>1 DEF Demanded, Due
    <3>3. Asked' /\ \A i \in Stages : Waits(i)'
      BY <3>1, <3>2, SameDemand DEF Account
    <3>4. Gives'
      BY <1>2, <2>1, <3>1 DEF Account, Gives, There
    <3>5. Opening => Opening'
      BY <1>1, <2>1 DEF Opening, Only, Ready, Does
    <3>6. Flowing => Flowing'
      BY <1>1, <2>1 DEF Flowing, There, Ready, Does
    <3> QED BY <3>1, <3>3, <3>4, <3>5, <3>6 DEF Account
  <2> QED BY <2>2, <2>3
<1>3. ASSUME NEW calls \in Seq(PipelineCalls), Passed(t, calls),
             Head(agenda[t]).at = 0, Head(agenda[t]) \notin Closing, source'.kind = source.kind,
             Fit(Head(agenda[t]), source) => Gathers(Head(agenda[t]), calls, source, source')
      PROVE  Exhausts' /\ (Open' /\ Modest' => Account')
  <2>1. PICK c \in PipelineCalls : c = Head(agenda[t]) /\ c.at = 0
    BY <1>3, HeadIsTyped DEF Countings
  <2>2. \A i \in Stages : c \notin Tests(i)
    BY <2>1, DepthAssumption DEF Tests, Stages
  <2>3. Exhausts' /\ (Open' => Open /\ ~Closes(calls))
    BY <1>1, <1>3, <2>1, <2>2, OthersExhaust DEF Ended
  <2>4. ASSUME Open', Modest'
        PROVE  Account'
    <3>1. Account /\ Modest /\ ~Closes(calls)
      BY <1>1, <2>3, <2>4 DEF Modest
    <3>2. /\ Fit(c, source)
          /\ Opening => c \in Setups /\ c \notin Working
          /\ Flowing => c \in Working /\ c \notin Setups
      BY <2>1, <3>1, SourceIsFit
    <3>3. ASSUME \A j \in Parts :
                   source'.m_requested + Weight(Ahead(j), calls) = source.m_requested + Ahead(j)[c]
          PROVE  Asked' /\ \A i \in Stages : Waits(i)'
      <4>1. \A j \in Parts : Demanded(j)' = Demanded(j)
        BY <1>1, <1>3, <2>1, <3>3, SourceDemand
      <4> QED BY <3>1, <4>1, SameDemand DEF Account
    <3>4. CASE c.sig = "subscribe" /\ calls = <<Subscription(0)>> /\ source' = source
      <4>1. c \notin Working /\ c \notin Ticks /\ c \notin Agains
        BY <3>4 DEF Working, Ticks, Agains
      <4>2. PICK d \in Setups : d = Subscription(0) /\ d \in PipelineCalls /\ d.at = 1 /\ d.sig = "onSubscribe"
        <5>1. 1 \in Parts /\ 0 + 1 = 1
          BY DepthAssumption DEF Parts, Subscriber
        <5>2. Call(1, "onSubscribe", 0) \in Setups
          BY <5>1 DEF Setups
        <5>3. Subscription(0) = Call(1, "onSubscribe", 0)
          BY <5>1 DEF Subscription
        <5> QED BY <5>2, <5>3, SetupsAre DEF Call
      <4>3. Opening
        BY <3>1, <3>2, <4>1 DEF Account
      <4>4. PICK q \in Setups : Only(q)
        BY <4>3 DEF Opening
      <4>5. Only(d)'
        BY <1>3, <3>4, <4>2, <4>4, SetupsAre, OnlyMoves DEF Only
      <4>6. \A i \in Stages : ~(i < d.at)
        BY <4>2, DepthAssumption DEF Stages
      <4>7. Opening'
        BY <1>1, <4>2, <4>3, <4>5, <4>6 DEF Opening
      <4>8. \A j \in Parts : Weight(Ahead(j), calls) = Ahead(j)[c]
        BY <3>4, <4>2, IdleCalls
      <4>9. Asked' /\ \A i \in Stages : Waits(i)'
        BY <3>3, <3>4, <4>8
      <4>10. Gives'
        <5>1. There(Ticks) > 0 => There(Ticks)' > 0
          BY <1>3, <2>1, <4>1, Remains
        <5>2. There(Agains) > 0 => There(Agains)' > 0
          BY <1>3, <2>1, <4>1, Remains
        <5> QED BY <3>1, <3>4, <5>1, <5>2 DEF Account, Gives
      <4> QED BY <4>7, <4>9, <4>10 DEF Account
    <3>5. CASE Feeds(c, calls, source, source')
      <4>1. c \in Working /\ calls \in Seq(Working)
        BY <3>5 DEF Feeds
      <4>2. Flowing
        BY <3>1, <3>2, <4>1 DEF Account
      <4>3. There(Idling)' = 0
        <5>1. Weight(One(Idling), calls) = 0 /\ There(Idling) = 0
          BY <4>1, <4>2, WorkingWeighs DEF Flowing
        <5> QED BY <1>3, <5>1, Remains
      <4>4. Flowing'
        BY <1>1, <4>2, <4>3 DEF Flowing, Ready, Does
      <4>5. Asked' /\ \A i \in Stages : Waits(i)'
        BY <3>3, <3>5 DEF Feeds
      <4>6. Gives'
        <5>1. /\ Weight(One(Ticks), calls) > 0 => There(Ticks)' > 0
              /\ There(Ticks) > 0 /\ c \notin Ticks => There(Ticks)' > 0
          BY <1>3, <2>1, Remains
        <5>2. Weight(One(Agains), calls) > 0 => There(Agains)' > 0
          BY <1>3, <2>1, Remains
        <5>3. source.m_running => There(Ticks) > 0
          BY <3>1 DEF Account, Gives
        <5> QED BY <3>5, <5>1, <5>2, <5>3 DEF Feeds, Gives
      <4> QED BY <4>4, <4>5, <4>6 DEF Account
    <3> QED BY <1>3, <2>1, <3>1, <3>2, <3>4, <3>5 DEF Gathers
  <2> QED BY <2>3, <2>4
<1> QED BY <1>2, <1>3 DEF SourceMoves

---------------------------------------------------------------------------
(* What the subscriber asks for, and what it is given.                     *)
Orders(calls, n) ==
  /\ calls \in Seq(Working) /\ Weight(Ahead(Subscriber), calls) = n
  /\ \A j \in Stages : Weight(Ahead(j), calls) = 0

Fed(c, calls) ==
  /\ c \in Working \/ c.sig = "onSubscribe"
  /\ \A j \in Stages : Ahead(j)[c] = 0
  /\ subscriber'.held
  /\ \E n \in Nat :
       /\ Orders(calls, n)
       /\ user'.asked = user.asked + n
       /\ Len(log'.values) = Len(log.values) + Ahead(Subscriber)[c]
       /\ subscriber.m_autoRequest /\ Ahead(Subscriber)[c] <= subscriber.m_remaining
            /\ (c.sig = "onSubscribe" => subscriber.m_remaining = 0) =>
            subscriber'.m_remaining + Ahead(Subscriber)[c] = subscriber.m_remaining + n

Progress(c) ==
  /\ c.at = Subscriber /\ (c \in Closing => Ended') /\ (Ended => Ended')
  /\ user.canceled => user'.canceled
  /\ user.asked <= user'.asked /\ subscriber'.m_autoRequest = subscriber.m_autoRequest

LEMMA UserOrders ==
  ASSUME NEW n \in Nat
  PROVE  /\ Orders(<<>>, 0) /\ Orders(<<Request(Depth, n)>>, n)
         /\ Orders(<<Call(Subscriber, "received", 0)>>, 0)
         /\ \A calls, k : Orders(calls, k) => calls \in Seq(PipelineCalls)
         /\ \A j \in Parts : Ahead(j)[Cancel(Depth)] = 0
         /\ Cancel(Depth) \in PipelineCalls
<1>1. Subscriber \in Parts /\ Depth < Subscriber /\ \A j \in Stages : j \in Parts /\ ~(Depth < j)
  BY DepthAssumption DEF Parts, Subscriber, Stages
<1>2. /\ Request(Depth, n) \in PipelineCalls /\ Call(Subscriber, "received", 0) \in PipelineCalls
      /\ Cancel(Depth) \in PipelineCalls
  BY UserSentIsTyped DEF UserSent
<1>3. /\ Request(Depth, n).at = Depth /\ Request(Depth, n).sig = "request" /\ Request(Depth, n).arg = n
      /\ Call(Subscriber, "received", 0).sig = "received" /\ Cancel(Depth).sig = "cancel"
  BY DEF Request, Call, Cancel
<1>4. PICK r \in Working : r = Request(Depth, n) /\ r.at = Depth /\ r.sig = "request" /\ r.arg = n
  BY <1>2, <1>3 DEF Working
<1>5. PICK e \in Working : e = Call(Subscriber, "received", 0) /\ e.sig = "received"
  BY <1>2, <1>3 DEF Working
<1>6. r \in PipelineCalls /\ e \in PipelineCalls
  BY WorkingCalls
<1>7. \A j \in Parts : /\ Ahead(j)[r] = (IF Depth < j THEN n ELSE 0) /\ Ahead(j)[e] = 0
  BY <1>4, <1>5, <1>6, AheadOf
<1>8. \A j \in Parts : Weight(Ahead(j), <<r>>) = Ahead(j)[r] /\ Weight(Ahead(j), <<e>>) = Ahead(j)[e]
  BY FewAhead
<1>9. <<r>> \in Seq(Working) /\ <<e>> \in Seq(Working)
  BY WorkingCalls
<1>10. Orders(<<r>>, n)
  BY <1>1, <1>7, <1>8, <1>9 DEF Orders
<1>11. Orders(<<e>>, 0)
  BY <1>1, <1>7, <1>8, <1>9 DEF Orders
<1>12. Orders(<<>>, 0)
  BY <1>1, NoneWorks DEF Orders
<1>13. \A calls, k : Orders(calls, k) => calls \in Seq(PipelineCalls)
  BY WorkingWeighs DEF Orders
<1>14. \A j \in Parts : Ahead(j)[Cancel(Depth)] = 0
  BY <1>2, <1>3, AheadOf
<1> QED BY <1>2, <1>4, <1>5, <1>10, <1>11, <1>12, <1>13, <1>14

LEMMA ReactsOrders ==
  ASSUME SubscriberTypeOK, NEW t, Reacts(t, <<>>)
  PROVE  /\ user.asked <= user'.asked /\ (user.canceled => user'.canceled)
         /\ \/ \E calls \in Seq(PipelineCalls) : Makes(t, calls) /\ user'.canceled
            \/ \E calls \in Seq(PipelineCalls), n \in Nat :
                 Makes(t, calls) /\ Orders(calls, n) /\ user'.asked = user.asked + n
<1>1. user \in UserState /\ user.asked \in Nat
  BY DEF SubscriberTypeOK, UserState
<1>2. \A c : <<c>> \o <<>> = <<c>>
  BY TupleConcat
<1>3. PICK z \in Nat : z = 0
  OBVIOUS
<1>4. CASE Makes(t, <<>>) /\ UNCHANGED user
  <2>1. PICK calls \in Seq(PipelineCalls) : calls = <<>> /\ Orders(calls, 0)
    BY <1>3, UserOrders
  <2>2. user'.asked = user.asked + 0 /\ user.asked <= user'.asked
    BY <1>1, <1>4
  <2> QED BY <1>3, <1>4, <2>1, <2>2
<1>5. CASE UserRequest(t, <<>>)
  <2>1. PICK n \in Demands : /\ Makes(t, <<Request(Depth, n)>> \o <<>>)
                             /\ user' = [user EXCEPT !.calls = @ + 1, !.asked = @ + n]
    BY <1>5 DEF UserRequest
  <2>2. n \in Nat
    BY UserAssumption, SizesAreTyped
  <2>3. PICK calls \in Seq(PipelineCalls) : calls = <<Request(Depth, n)>> /\ Orders(calls, n)
    BY <2>2, UserOrders
  <2>4. Makes(t, calls)
    BY <1>2, <2>1, <2>3
  <2>5. user'.asked = user.asked + n /\ user'.canceled = user.canceled
    BY <1>1, <2>1 DEF UserState
  <2>6. user.asked <= user.asked + n
    BY <1>1, <2>2
  <2> QED BY <2>2, <2>3, <2>4, <2>5, <2>6
<1>6. CASE UserCancel(t, <<>>)
  <2>1. Makes(t, <<Cancel(Depth)>> \o <<>>) /\ user' = [user EXCEPT !.calls = @ + 1, !.canceled = TRUE]
    BY <1>6 DEF UserCancel
  <2>2. PICK calls \in Seq(PipelineCalls) : calls = <<Cancel(Depth)>>
    BY <1>3, UserOrders, ShortSequences
  <2>3. Makes(t, calls)
    BY <1>2, <2>1, <2>2
  <2>4. user'.asked = user.asked /\ user'.canceled
    BY <1>1, <2>1 DEF UserState
  <2>5. user.asked <= user.asked
    BY <1>1
  <2> QED BY <2>3, <2>4, <2>5
<1> QED BY <1>4, <1>5, <1>6 DEF Reacts

(* Every handler of DefaultSubscriber.                                     *)
LEMMA SubscriberMoves ==
  ASSUME CallsTypeOK, SubscriberTypeOK, SubscriberTypeOK', NEW t \in Threads, agenda[t] # <<>>,
         SubscriberStep(t)
  PROVE  /\ Progress(Head(agenda[t]))
         /\ \E calls \in Seq(PipelineCalls) :
              /\ Passed(t, calls)
              /\ ~Ended' /\ ~user'.canceled /\ (Head(agenda[t]) \in Working => subscriber.held) =>
                   Fed(Head(agenda[t]), calls)
<1>1. PICK c \in PipelineCalls : c = Head(agenda[t])
  BY HeadIsTyped
<1>2. /\ user \in UserState /\ user.asked \in Nat /\ SizeMax \in Nat
      /\ subscriber \in [m_autoRequest : BOOLEAN, m_remaining : Size, held : BOOLEAN]
      /\ log \in [values : Seq(Nat), end : Ends \cup {"none"}, late : Seq(Calls(Ends \cup {"onNext"}))]
      /\ c.arg \in Nat
  BY SizeAssumption DEF SubscriberTypeOK, UserState, PipelineCalls, Calls
<1>3. PICK v \in Nat, m \in Nat, a \in Nat :
        /\ v = Len(log.values) /\ m = subscriber.m_remaining /\ a = user.asked
  BY CountersAreTyped
<1>4. Subscriber \in Parts /\ \A j \in Stages : j \in Parts /\ ~(Subscriber <= j)
  BY DepthAssumption DEF Parts, Subscriber, Stages
<1>5. a <= a /\ a + 0 = a /\ v + 0 = v /\ m + 0 = m /\ a <= a + SizeMax
  BY <1>2
<1>6. \A calls : Makes(t, calls) => Passed(t, calls)
  BY DEF Passed
<1>7. PICK e \in Seq(PipelineCalls) : e = <<>> /\ Orders(e, 0)
  BY <1>2, UserOrders
<1>8. PICK r \in Seq(PipelineCalls) : r = <<Request(Depth, SizeMax)>> /\ Orders(r, SizeMax)
  BY <1>2, UserOrders
<1>9. PICK d \in Seq(PipelineCalls) : d = <<Call(Subscriber, "received", 0)>> /\ Orders(d, 0)
  BY <1>2, UserOrders
<1>10. PICK z \in Nat : z = 0
  OBVIOUS
<1>11. CASE OnSubscribed(t)
  <2>1. c.at = Subscriber /\ c.sig = "onSubscribe" /\ c \notin Closing /\ log' = log
    BY <1>1, <1>11 DEF OnSubscribed, On, Closing, Ends
  <2>2. \A j \in Parts : Ahead(j)[c] = 0
    BY <2>1, AheadOf
  <2>3. /\ subscriber'.held /\ subscriber'.m_autoRequest = subscriber.m_autoRequest
        /\ subscriber.m_autoRequest => subscriber'.m_remaining = SizeMax
    BY <1>2, <1>11 DEF OnSubscribed
  <2>4. CASE subscriber.m_autoRequest
    <3>1. Makes(t, r) /\ user' = [user EXCEPT !.asked = @ + SizeMax]
      BY <1>8, <1>11, <2>4 DEF OnSubscribed, RequestsAll, Connected
    <3>2. user'.asked = a + SizeMax /\ user'.canceled = user.canceled
      BY <1>2, <1>3, <3>1 DEF UserState
    <3>3. Fed(c, r)
      <4>1. m = 0 => SizeMax + 0 = m + SizeMax
        BY <1>2
      <4> QED BY <1>2, <1>3, <1>4, <1>5, <1>8, <2>1, <2>2, <2>3, <2>4, <3>2, <4>1 DEF Fed
    <3> QED BY <1>1, <1>3, <1>5, <1>6, <2>1, <2>3, <3>1, <3>2, <3>3 DEF Progress, Ended
  <2>5. CASE ~subscriber.m_autoRequest
    <3>1. Reacts(t, <<>>)
      BY <1>11, <2>5 DEF OnSubscribed
    <3>2. Progress(c)
      BY <2>1, <2>3, <3>1, ReactsOrders DEF Progress, Ended
    <3>3. CASE \E calls \in Seq(PipelineCalls) : Makes(t, calls) /\ user'.canceled
      BY <1>1, <1>6, <3>2, <3>3
    <3>4. CASE \E calls \in Seq(PipelineCalls), n \in Nat :
                 Makes(t, calls) /\ Orders(calls, n) /\ user'.asked = user.asked + n
      <4>1. PICK calls \in Seq(PipelineCalls), n \in Nat :
                   Makes(t, calls) /\ Orders(calls, n) /\ user'.asked = user.asked + n
        BY <3>4
      <4>2. Fed(c, calls)
        BY <1>3, <1>4, <1>5, <2>1, <2>2, <2>3, <2>5, <4>1 DEF Fed
      <4> QED BY <1>1, <1>6, <3>2, <4>1, <4>2
    <3> QED BY <3>1, <3>3, <3>4, ReactsOrders
  <2> QED BY <2>4, <2>5
<1>12. CASE OnNext(t)
  <2>1. c.at = Subscriber /\ c.sig = "onNext" /\ c \notin Closing /\ c \in Working /\ log' = Logged(c)
    BY <1>1, <1>12 DEF OnNext, On, Closing, Ends, Working
  <2>2. Ahead(Subscriber)[c] = 1 /\ \A j \in Stages : Ahead(j)[c] = 0
    <3>1. Subscriber <= Subscriber
      BY DepthAssumption DEF Subscriber
    <3> QED BY <1>4, <2>1, <3>1, AheadOf
  <2>3. ~Ended => log'.values = Append(log.values, c.arg) /\ log'.end = log.end
    BY <1>2, <2>1 DEF Logged, Ends
  <2>4. ~Ended => Len(log'.values) = v + 1
    <3>1. Len(Append(log.values, c.arg)) = Len(log.values) + 1
      BY <1>2, AppendProperties
    <3> QED BY <1>3, <2>3, <3>1
  <2>5. Ended => Ended'
    BY <1>2, <2>1 DEF Logged, Ended
  <2>6. subscriber'.held = subscriber.held /\ subscriber'.m_autoRequest = subscriber.m_autoRequest
    BY <1>2, <1>12 DEF OnNext
  <2>7. CASE subscriber.m_autoRequest
    <3>1. (Makes(t, d) /\ user' = user) \/ UserCancel(t, d)
      BY <1>9, <1>12, <2>7 DEF OnNext, Reacts, UserRequest, MayRequest
    <3>2. subscriber'.m_remaining = Decrement(m)
      BY <1>2, <1>3, <1>12, <2>7 DEF OnNext
    <3>3. 1 <= m => subscriber'.m_remaining + 1 = m
      <4>1. m \in Size
        BY <1>2, <1>3
      <4>2. Decrement(m) = IF m = 0 THEN SizeMax ELSE m - 1
        BY <4>1, Decremented
      <4>3. 1 <= m => Decrement(m) = m - 1
        BY <4>2
      <4> QED BY <3>2, <4>3
    <3>4. CASE Makes(t, d) /\ user' = user
      <4>1. 1 <= m => subscriber'.m_remaining + 1 = m + 0
        BY <1>5, <3>3
      <4>2. ~Ended' /\ subscriber.held => Fed(c, d)
        BY <1>3, <1>4, <1>5, <1>9, <1>10, <2>1, <2>2, <2>4, <2>5, <2>6, <3>4, <4>1 DEF Fed
      <4> QED BY <1>1, <1>3, <1>5, <1>6, <2>1, <2>5, <2>6, <3>4, <4>2 DEF Progress
    <3>5. CASE UserCancel(t, d)
      <4>1. user'.canceled /\ user'.asked = a /\ Makes(t, <<Cancel(Depth)>> \o d)
        BY <1>2, <1>3, <3>5 DEF UserCancel, UserState
      <4>2. PICK calls \in Seq(PipelineCalls) : calls = <<Cancel(Depth)>> \o d
        <5>1. Cancel(Depth) \in PipelineCalls
          BY UserSentIsTyped DEF UserSent
        <5>2. <<Cancel(Depth)>> \in Seq(PipelineCalls)
          BY <5>1
        <5> QED BY <5>2, ConcatProperties
      <4>3. Progress(c)
        BY <1>3, <1>5, <2>1, <2>5, <2>6, <4>1 DEF Progress
      <4> QED BY <1>1, <1>6, <4>1, <4>2, <4>3
    <3> QED BY <3>1, <3>4, <3>5
  <2>8. CASE ~subscriber.m_autoRequest
    <3>1. Reacts(t, <<>>)
      BY <1>12, <2>8 DEF OnNext
    <3>2. Progress(c)
      BY <2>1, <2>5, <2>6, <3>1, ReactsOrders DEF Progress
    <3>3. CASE \E calls \in Seq(PipelineCalls) : Makes(t, calls) /\ user'.canceled
      BY <1>1, <1>6, <3>2, <3>3
    <3>4. CASE \E calls \in Seq(PipelineCalls), n \in Nat :
                 Makes(t, calls) /\ Orders(calls, n) /\ user'.asked = user.asked + n
      <4>1. PICK calls \in Seq(PipelineCalls), n \in Nat :
                   Makes(t, calls) /\ Orders(calls, n) /\ user'.asked = user.asked + n
        BY <3>4
      <4>2. ~Ended' /\ subscriber.held => Fed(c, calls)
        BY <1>3, <2>1, <2>2, <2>4, <2>5, <2>6, <2>8, <4>1 DEF Fed
      <4> QED BY <1>1, <1>6, <2>1, <3>2, <4>1, <4>2
    <3> QED BY <3>1, <3>3, <3>4, ReactsOrders
  <2> QED BY <2>7, <2>8
<1>13. CASE Received(t)
  <2>1. c.at = Subscriber /\ c.sig = "received" /\ c \notin Closing /\ c \in Working /\ log' = log
    BY <1>1, <1>13 DEF Received, On, Closing, Ends, Working
  <2>2. \A j \in Parts : Ahead(j)[c] = 0
    BY <2>1, AheadOf
  <2>3. CASE m = 0
    <3>1. /\ subscriber'.held = subscriber.held /\ subscriber'.m_autoRequest = subscriber.m_autoRequest
          /\ subscriber'.m_remaining = SizeMax
      BY <1>2, <1>3, <1>13, <2>3 DEF Received
    <3>2. RequestsAll(t)
      BY <1>3, <1>13, <2>3 DEF Received
    <3>3. user'.asked = a + SizeMax /\ user'.canceled = user.canceled
      BY <1>2, <1>3, <3>2 DEF UserState, RequestsAll
    <3>4. Progress(c)
      BY <1>3, <1>5, <2>1, <3>1, <3>3 DEF Progress, Ended
    <3>5. CASE subscriber.held
      <4>1. Makes(t, r)
        BY <1>8, <3>2, <3>5 DEF RequestsAll, Connected
      <4>2. SizeMax + 0 = m + SizeMax
        BY <1>2, <2>3
      <4>3. Fed(c, r)
        BY <1>2, <1>3, <1>4, <1>5, <1>8, <2>1, <2>2, <3>1, <3>3, <3>5, <4>2 DEF Fed
      <4> QED BY <1>1, <1>6, <3>4, <4>1, <4>3
    <3>6. CASE ~subscriber.held
      <4>1. Makes(t, e)
        BY <1>1, <1>7, <2>1, <3>2, <3>6 DEF RequestsAll, Connected, On
      <4> QED BY <1>1, <1>6, <2>1, <3>4, <3>6, <4>1
    <3> QED BY <3>5, <3>6
  <2>4. CASE m # 0
    <3>1. subscriber' = subscriber /\ user' = user /\ Makes(t, e)
      BY <1>3, <1>7, <1>13, <2>4 DEF Received
    <3>2. subscriber.held => Fed(c, e)
      BY <1>3, <1>4, <1>5, <1>7, <1>10, <2>1, <2>2, <3>1 DEF Fed
    <3>3. Progress(c)
      BY <1>3, <1>5, <2>1, <3>1 DEF Progress, Ended
    <3> QED BY <1>1, <1>6, <2>1, <3>1, <3>2, <3>3
  <2> QED BY <2>3, <2>4
<1>14. CASE OnEnd(t)
  <2>1. c.at = Subscriber /\ c.sig \in Ends /\ log' = Logged(c)
    BY <1>1, <1>14 DEF OnEnd, On, Ends
  <2>2. Ended'
    <3>1. c.sig # "none"
      BY <2>1 DEF Ends
    <3> QED BY <1>2, <2>1, <3>1 DEF Logged, Ended
  <2>3. user' = user /\ subscriber'.m_autoRequest = subscriber.m_autoRequest /\ Makes(t, e)
    BY <1>2, <1>7, <1>14 DEF OnEnd
  <2>4. Progress(c)
    BY <1>3, <1>5, <2>1, <2>2, <2>3 DEF Progress
  <2> QED BY <1>1, <1>6, <2>2, <2>3, <2>4
<1> QED BY <1>11, <1>12, <1>13, <1>14 DEF SubscriberStep

LEMMA PassedDemand ==
  ASSUME Countings, OperatorsOK, SourceOK(source), NEW t \in Threads, agenda[t] # <<>>,
         NEW calls \in Seq(PipelineCalls), Passed(t, calls), UNCHANGED <<link, source>>, NEW j \in Parts
  PROVE  \E d, e, x, y \in Nat :
           /\ d = Demanded(j) /\ e = Demanded(j)' /\ x = Ahead(j)[Head(agenda[t])]
           /\ y = Weight(Ahead(j), calls) /\ e + x = d + y /\ x <= d
<1>1. PICK r \in Nat, a \in Nat, b \in Nat :
        /\ r = source.m_requested /\ a = Afoot(Ahead(j), agenda, pending)
        /\ b = Total(Before(link, j)) /\ Demanded(j) = r + a + b
  BY DemandedIs
<1>2. PICK aa \in Nat, bb \in Nat, x \in Nat, w \in Nat :
        /\ aa = Afoot(Ahead(j), agenda, pending) /\ bb = Afoot(Ahead(j), agenda', pending')
        /\ x = Ahead(j)[Head(agenda[t])] /\ w = Weight(Ahead(j), calls)
        /\ bb + x = aa + w /\ x <= aa
  <2>1. PICK z \in Weights : z = Ahead(j)
    BY WeightsOfCalls
  <2>2. \E f, g, u, v \in Nat :
          /\ f = Afoot(z, agenda, pending) /\ g = Afoot(z, agenda', pending')
          /\ u = z[Head(agenda[t])] /\ v = Weight(z, calls)
          /\ g + u = f + v /\ u <= f
    BY Counted
  <2> QED BY <2>1, <2>2
<1>3. bb + x = a + w /\ x <= a
  BY <1>1, <1>2
<1>4. PICK d \in Nat, e \in Nat : d = r + a + b /\ e = r + bb + b
  OBVIOUS
<1>5. e + x = d + w /\ x <= d
  BY <1>3, <1>4
<1>6. Demanded(j)' = e
  BY <1>1, <1>2, <1>4 DEF Demanded, Due
<1> QED BY <1>1, <1>2, <1>4, <1>5, <1>6

(* Part of a stream that is set up or runs.                                *)
LEMMA SubscriberGoesOn ==
  ASSUME Countings, NEW t \in Threads, agenda[t] # <<>>, NEW c \in PipelineCalls, c = Head(agenda[t]),
         c.at = Subscriber, NEW calls \in Seq(Working), Passed(t, calls),
         c \in Working \/ c.sig = "onSubscribe", subscriber'.held, UNCHANGED stageVars,
         Opening \/ Flowing
  PROVE  Flowing'
<1>1. own' = own /\ link' = link
  BY DEF stageVars
<1>2. calls \in Seq(PipelineCalls) /\ Weight(One(Idling), calls) = 0
  BY WorkingWeighs
<1>3. CASE Flowing
  <2>1. There(Idling)' = 0
    BY <1>2, <1>3, Remains DEF Flowing
  <2> QED BY <1>1, <1>3, <2>1 DEF Flowing, Ready, Does
<1>4. CASE Opening
  <2>1. PICK q \in Setups : Only(q) /\ (q.sig = "onSubscribe" => \A i \in Stages : i < q.at => Ready(i))
    BY <1>4 DEF Opening
  <2>2. q \in PipelineCalls /\ q \notin Working /\ c = q
    BY <2>1, SetupsAre, NextOfStream
  <2>3. \A i \in Stages : Ready(i)
    <3>1. \A i \in Stages : i < Subscriber
      BY DepthAssumption DEF Stages, Subscriber
    <3> QED BY <2>1, <2>2, <3>1
  <2>4. There(Idling)' = 0
    <3>1. PICK z \in Weights : z = One(Idling)
      BY OnesAre
    <3>2. PICK a \in Nat, b \in Nat, x \in Nat, w \in Nat :
            /\ a = Afoot(z, agenda, pending) /\ b = Afoot(z, agenda', pending')
            /\ x = z[Head(agenda[t])] /\ w = Weight(z, calls)
            /\ b + x = a + w /\ x <= a
      BY <1>2, Counted
    <3>3. a = x /\ w = 0
      BY <1>2, <2>1, <2>2, <3>1, <3>2 DEF Only
    <3>4. b + x = a + w
      BY <3>2
    <3>5. b = 0
      BY <3>3, <3>4
    <3> QED BY <3>1, <3>2, <3>5 DEF There
  <2> QED BY <1>1, <2>3, <2>4 DEF Flowing, Ready, Does
<1> QED BY <1>3, <1>4

LEMMA SubscriberServes ==
  ASSUME Countings, OperatorsOK, SourceOK(source), SubscriberTypeOK, SubscriberTypeOK', NEW t \in Threads,
         agenda[t] # <<>>, SubscriberStep(t), UNCHANGED <<sourceVars, stageVars>>,
         Exhausts, Open /\ Modest => Account
  PROVE  Exhausts' /\ (Open' /\ Modest' => Account')
<1>1. own' = own /\ link' = link /\ source' = source
  BY DEF stageVars, sourceVars
<1>2. PICK c \in PipelineCalls : c = Head(agenda[t])
  BY HeadIsTyped DEF Countings
<1>3. /\ Progress(c)
      /\ \E calls \in Seq(PipelineCalls) :
           /\ Passed(t, calls)
           /\ ~Ended' /\ ~user'.canceled /\ (c \in Working => subscriber.held) => Fed(c, calls)
  BY <1>2, SubscriberMoves DEF Countings
<1>4. PICK calls \in Seq(PipelineCalls) :
        /\ Passed(t, calls)
        /\ ~Ended' /\ ~user'.canceled /\ (c \in Working => subscriber.held) => Fed(c, calls)
  BY <1>3
<1>5. /\ c.at = Subscriber /\ (c \in Closing => Ended') /\ (Ended => Ended')
      /\ user.canceled => user'.canceled
      /\ user.asked <= user'.asked /\ subscriber'.m_autoRequest = subscriber.m_autoRequest
  BY <1>3 DEF Progress
<1>6. CASE c \in Closing
  BY <1>5, <1>6 DEF Exhausts, Open
<1>7. CASE c \notin Closing
  <2>1. /\ \A i \in Stages : c \notin Tests(i)
        /\ c \notin Ticks /\ c \notin Agains
    <3>1. Subscriber # 0 /\ \A i \in Stages : Subscriber # i
      BY DepthAssumption DEF Subscriber, Stages
    <3> QED BY <1>5, <3>1 DEF Tests, Ticks, Agains
  <2>2. Exhausts' /\ (Open' => Open /\ ~Closes(calls))
    BY <1>1, <1>2, <1>4, <1>5, <1>7, <2>1, OthersExhaust
  <2>3. ASSUME Open', Modest'
        PROVE  Account'
    <3>1. Open
      BY <2>2, <2>3
    <3>2. Modest
      <4>1. CASE subscriber.m_autoRequest
        BY <4>1 DEF Modest
      <4>2. CASE ~subscriber.m_autoRequest
        <5>1. user'.asked <= SizeMax
          BY <1>5, <2>3, <4>2 DEF Modest
        <5>2. user.asked \in Nat /\ user'.asked \in Nat /\ SizeMax \in Nat
          BY SizeAssumption DEF SubscriberTypeOK
        <5>3. user.asked <= SizeMax
          BY <1>5, <5>1, <5>2
        <5> QED BY <5>3 DEF Modest
      <4> QED BY <4>1, <4>2
    <3>3. Account
      BY <3>1, <3>2
    <3>4. Opening => c \notin Working /\ user.asked = 0
      BY <1>2, SetupsAre, NextOfStream DEF Opening
    <3>5. Flowing => c \in Working /\ subscriber.held
      BY <1>2, NextOfStream DEF Flowing
    <3>6. Opening \/ Flowing
      BY <3>3 DEF Account
    <3>7. Fed(c, calls)
      BY <1>4, <2>3, <3>4, <3>5, <3>6 DEF Open
    <3>8. PICK n \in Nat :
            /\ Orders(calls, n)
            /\ user'.asked = user.asked + n
            /\ Len(log'.values) = Len(log.values) + Ahead(Subscriber)[c]
            /\ subscriber.m_autoRequest /\ Ahead(Subscriber)[c] <= subscriber.m_remaining
                 /\ (c.sig = "onSubscribe" => subscriber.m_remaining = 0) =>
                 subscriber'.m_remaining + Ahead(Subscriber)[c] = subscriber.m_remaining + n
      BY <3>7 DEF Fed
    <3>9. Subscriber \in Parts /\ \A j \in Stages : j \in Parts
      BY StageItself, DepthAssumption DEF Parts, Subscriber
    <3>10. ASSUME NEW j \in Parts
           PROVE  \E d, e, x, y \in Nat :
                    /\ d = Demanded(j) /\ e = Demanded(j)' /\ x = Ahead(j)[c]
                    /\ y = Weight(Ahead(j), calls) /\ e + x = d + y /\ x <= d
      BY <1>1, <1>2, <1>4, PassedDemand
    <3>11. ASSUME NEW j \in Stages
           PROVE  Waits(j)'
      <4>1. PICK d \in Nat, e \in Nat, x \in Nat, y \in Nat :
                    /\ d = Demanded(j) /\ e = Demanded(j)' /\ x = Ahead(j)[c]
                    /\ y = Weight(Ahead(j), calls) /\ e + x = d + y /\ x <= d
        BY <3>9, <3>10
      <4>2. x = 0 /\ y = 0
        BY <3>7, <3>8, <4>1 DEF Fed, Orders
      <4>3. e + x = d + y
        BY <4>1
      <4>4. e = d
        BY <4>2, <4>3
      <4>5. Demanded(j)' = Demanded(j) /\ Waits(j)
        BY <3>3, <4>1, <4>4 DEF Account
      <4> QED BY <1>1, <4>5 DEF Waits, Does
    <3>12. Asked'
      <4>1. PICK d \in Nat, e \in Nat, p \in Nat, y \in Nat :
                    /\ d = Demanded(Subscriber) /\ e = Demanded(Subscriber)' /\ p = Ahead(Subscriber)[c]
                    /\ y = Weight(Ahead(Subscriber), calls) /\ e + p = d + y /\ p <= d
        BY <3>9, <3>10
      <4>2. PICK v \in Nat, m \in Nat, a \in Nat :
              /\ v = Len(log.values) /\ m = subscriber.m_remaining /\ a = user.asked
        BY CountersAreTyped
      <4>3. PICK k \in Nat : k = subscriber'.m_remaining
        BY SizesAreTyped DEF SubscriberTypeOK
      <4>4. y = n /\ e + p = d + y /\ p <= d
        BY <3>8, <4>1 DEF Orders
      <4>5. v + d = a
        BY <3>3, <4>1, <4>2 DEF Account, Asked
      <4>6. (v + p) + e = a + n
        BY <4>4, <4>5
      <4>7. Len(log'.values) + Demanded(Subscriber)' = user'.asked
        BY <3>8, <4>1, <4>2, <4>6
      <4>8. ASSUME subscriber.m_autoRequest
            PROVE  Len(log'.values) + subscriber'.m_remaining = user'.asked
        <5>1. v + m = a
          BY <3>3, <4>2, <4>8 DEF Account, Asked
        <5>2. p <= m
          BY <4>4, <4>5, <5>1
        <5>3. c.sig = "onSubscribe" => m = 0
          <6>1. c.sig = "onSubscribe" => c \notin Working
            BY DEF Working
          <6>2. c.sig = "onSubscribe" => a = 0
            BY <3>4, <3>5, <3>6, <4>2, <6>1
          <6>3. a = 0 => m = 0
            BY <5>1
          <6> QED BY <6>2, <6>3
        <5>4. k + p = m + n
          BY <3>8, <4>1, <4>2, <4>3, <4>8, <5>2, <5>3
        <5>5. (v + p) + k = a + n
          BY <5>1, <5>4
        <5> QED BY <3>8, <4>1, <4>2, <4>3, <5>5
      <4> QED BY <1>5, <4>7, <4>8 DEF Asked
    <3>13. Gives'
      <4>1. There(Ticks) > 0 => There(Ticks)' > 0
        BY <1>2, <1>4, <2>1, Remains
      <4>2. There(Agains) > 0 => There(Agains)' > 0
        BY <1>2, <1>4, <2>1, Remains
      <4> QED BY <1>1, <3>3, <4>1, <4>2 DEF Account, Gives
    <3>14. Flowing'
      <4>1. calls \in Seq(Working) /\ (c \in Working \/ c.sig = "onSubscribe") /\ subscriber'.held
        BY <3>7, <3>8 DEF Fed, Orders
      <4> QED BY <1>2, <1>4, <1>5, <3>6, <4>1, SubscriberGoesOn
    <3> QED BY <3>11, <3>12, <3>13, <3>14 DEF Account
  <2> QED BY <2>2, <2>3
<1> QED BY <1>6, <1>7

(* A task that is taken keeps its weight.                                  *)
LEMMA SameServes ==
  ASSUME UNCHANGED <<sourceVars, stageVars, subscriberVars>>,
         \A z \in Weights : Afoot(z, agenda', pending') = Afoot(z, agenda, pending),
         Exhausts, Open /\ Modest => Account
  PROVE  Exhausts' /\ (Open' /\ Modest' => Account')
<1>1. own' = own /\ link' = link /\ source' = source /\ subscriber' = subscriber /\ user' = user /\ log' = log
  BY DEF sourceVars, stageVars, subscriberVars
<1>2. \A S : There(S)' = There(S)
  BY WeightsOfCalls DEF There
<1>3. \A q : Only(q)' <=> Only(q)
  BY DEF Only
<1>4. Exhausts'
  BY <1>1, <1>2 DEF Exhausts, Does, Ended
<1>5. ASSUME Open', Modest'
      PROVE  Account'
  <2>1. Open /\ Modest
    BY <1>1, <1>2, <1>5 DEF Open, Does, Ended, Modest
  <2>2. Account
    BY <2>1
  <2>3. \A j \in Parts : Demanded(j)' = Demanded(j)
    <3>1. \A j \in Parts : Afoot(Ahead(j), agenda', pending') = Afoot(Ahead(j), agenda, pending)
      BY WeightsOfCalls
    <3> QED BY <1>1, <3>1 DEF Demanded, Due
  <2>4. Asked' /\ \A i \in Stages : Waits(i)'
    <3>1. UNCHANGED <<stageVars, subscriberVars>>
      OBVIOUS
    <3> QED BY <2>2, <2>3, <3>1, SameDemand DEF Account
  <2>5. Gives'
    BY <1>1, <1>2, <2>2 DEF Account, Gives
  <2>6. Opening => Opening'
    BY <1>1, <1>3 DEF Opening, Ready, Does
  <2>7. Flowing => Flowing'
    BY <1>1, <1>2 DEF Flowing, Ready, Does
  <2> QED BY <2>2, <2>4, <2>5, <2>6, <2>7 DEF Account
<1> QED BY <1>4, <1>5

LEMMA RequestOfUser ==
  ASSUME NEW n \in Nat
  PROVE  /\ Request(Depth, n) \in Working /\ Request(Depth, n) \in PipelineCalls
         /\ Ahead(Subscriber)[Request(Depth, n)] = n
         /\ \A j \in Stages : Ahead(j)[Request(Depth, n)] = 0
<1>1. Subscriber \in Parts /\ Depth < Subscriber /\ \A j \in Stages : j \in Parts /\ ~(Depth < j)
  BY DepthAssumption DEF Parts, Subscriber, Stages
<1>2. PICK r \in PipelineCalls : r = Request(Depth, n) /\ r.at = Depth /\ r.sig = "request" /\ r.arg = n
  <2>1. Request(Depth, n) \in PipelineCalls
    BY UserSentIsTyped DEF UserSent
  <2> QED BY <2>1 DEF Request, Call
<1>3. \A j \in Parts : Ahead(j)[r] = IF Depth < j THEN n ELSE 0
  BY <1>2, AheadOf
<1>4. r \in Working
  BY <1>2 DEF Working
<1> QED BY <1>1, <1>2, <1>3, <1>4

LEMMA UserServes ==
  ASSUME Countings, OperatorsOK, SourceOK(source), SubscriberTypeOK, UserCalls,
         UNCHANGED <<sourceVars, stageVars>>, Exhausts, Open /\ Modest => Account
  PROVE  Exhausts' /\ (Open' /\ Modest' => Account')
<1>1. /\ agenda[Client] = <<>> /\ pending' = pending /\ log' = log /\ subscriber' = subscriber
      /\ source' = source /\ link' = link /\ own' = own
      /\ subscriber.held
  BY DEF UserCalls, Idle, Threads, sourceVars, stageVars
<1>2. user \in UserState /\ user.asked \in Nat
  BY DEF SubscriberTypeOK, UserState
<1>3. PICK c \in PipelineCalls :
        /\ agenda' = [agenda EXCEPT ![Client] = <<c>>]
        /\ \/ user'.canceled
           \/ \E n \in Nat : c = Request(Depth, n) /\ user'.asked = user.asked + n
                             /\ user'.canceled = user.canceled /\ ~subscriber.m_autoRequest
  <2>1. CASE ~subscriber.m_autoRequest /\ \E n \in Demands :
               /\ agenda' = [agenda EXCEPT ![Client] = <<Request(Depth, n)>>]
               /\ user' = [user EXCEPT !.calls = @ + 1, !.asked = @ + n]
    <3>1. PICK n \in Demands :
               /\ agenda' = [agenda EXCEPT ![Client] = <<Request(Depth, n)>>]
               /\ user' = [user EXCEPT !.calls = @ + 1, !.asked = @ + n]
      BY <2>1
    <3>2. n \in Nat
      BY UserAssumption, SizesAreTyped
    <3>3. Request(Depth, n) \in PipelineCalls
      BY <3>2, RequestOfUser
    <3>4. user'.asked = user.asked + n /\ user'.canceled = user.canceled
      BY <1>2, <3>1 DEF UserState
    <3> QED BY <2>1, <3>1, <3>2, <3>3, <3>4
  <2>2. CASE /\ agenda' = [agenda EXCEPT ![Client] = <<Cancel(Depth)>>]
             /\ user' = [user EXCEPT !.calls = @ + 1, !.canceled = TRUE]
    <3>1. Cancel(Depth) \in PipelineCalls
      BY UserSentIsTyped DEF UserSent
    <3>2. user'.canceled
      BY <1>2, <2>2 DEF UserState
    <3> QED BY <2>2, <3>1, <3>2
  <2> QED BY <2>1, <2>2 DEF UserCalls, MayRequest
<1>4. ASSUME NEW z \in Weights
      PROVE  /\ Afoot(z, agenda, pending) \in Nat /\ z[c] \in Nat
             /\ Afoot(z, agenda', pending') = Afoot(z, agenda, pending) + z[c]
  BY <1>1, <1>3, CallWeighs DEF Countings
<1>5. ASSUME NEW S
      PROVE  /\ There(S) > 0 => There(S)' > 0
             /\ There(S)' = 0 => There(S) = 0
             /\ There(S) = 0 /\ c \notin S => There(S)' = 0
  <2>1. PICK z \in Weights : z = One(S) /\ (c \notin S => z[c] = 0)
    BY OnesAre
  <2>2. PICK a \in Nat, x \in Nat : a = Afoot(z, agenda, pending) /\ x = z[c]
                                    /\ Afoot(z, agenda', pending') = a + x
    BY <1>4
  <2>3. /\ a > 0 => a + x > 0
        /\ a + x = 0 => a = 0
        /\ a = 0 /\ x = 0 => a + x = 0
    OBVIOUS
  <2>4. There(S) = a /\ There(S)' = a + x
    BY <2>1, <2>2 DEF There
  <2> QED BY <2>1, <2>2, <2>3, <2>4
<1>6. Exhausts'
  BY <1>1, <1>5 DEF Exhausts, Does, Ended
<1>7. ASSUME Open', Modest'
      PROVE  Account'
  <2>1. PICK n \in Nat : /\ c = Request(Depth, n) /\ user'.asked = user.asked + n
                         /\ user'.canceled = user.canceled /\ ~subscriber.m_autoRequest
    BY <1>3, <1>7 DEF Open
  <2>2. Open
    BY <1>1, <1>5, <1>7, <2>1 DEF Open, Does, Ended
  <2>3. Modest
    <3>1. user'.asked <= SizeMax
      BY <1>1, <1>7, <2>1 DEF Modest
    <3>2. SizeMax \in Nat
      BY SizeAssumption
    <3>3. user.asked <= SizeMax
      BY <1>2, <2>1, <3>1, <3>2
    <3> QED BY <3>3 DEF Modest
  <2>4. Account
    BY <2>2, <2>3
  <2>5. Flowing
    BY <1>1, <2>4 DEF Account, Opening
  <2>6. /\ c \in Working /\ Ahead(Subscriber)[c] = n /\ \A j \in Stages : Ahead(j)[c] = 0
    BY <2>1, RequestOfUser
  <2>7. Flowing'
    <3>1. c \notin Idling
      BY <2>6 DEF Idling
    <3>2. There(Idling)' = 0
      BY <1>5, <2>5, <3>1 DEF Flowing
    <3> QED BY <1>1, <2>5, <3>2 DEF Flowing, Ready, Does
  <2>8. Gives'
    <3>1. Gives
      BY <2>4 DEF Account
    <3> QED BY <1>1, <1>5, <3>1 DEF Gives
  <2>9. ASSUME NEW j \in Parts
        PROVE  \E d, x \in Nat : d = Demanded(j) /\ x = Ahead(j)[c] /\ Demanded(j)' = d + x
    <3>1. PICK r \in Nat, a \in Nat, b \in Nat :
            /\ r = source.m_requested /\ a = Afoot(Ahead(j), agenda, pending)
            /\ b = Total(Before(link, j)) /\ Demanded(j) = r + a + b
      BY DemandedIs
    <3>2. PICK x \in Nat : x = Ahead(j)[c] /\ Afoot(Ahead(j), agenda', pending') = a + x
      BY <1>4, <3>1, WeightsOfCalls
    <3>3. Demanded(j)' = r + (a + x) + b
      BY <1>1, <3>1, <3>2 DEF Demanded, Due
    <3>4. PICK d \in Nat : d = r + a + b /\ r + (a + x) + b = d + x
      OBVIOUS
    <3> QED BY <3>1, <3>2, <3>3, <3>4
  <2>10. Subscriber \in Parts /\ \A j \in Stages : j \in Parts
    BY StageItself, DepthAssumption DEF Parts, Subscriber
  <2>11. ASSUME NEW j \in Stages
         PROVE  Waits(j)'
    <3>1. PICK d \in Nat, x \in Nat : d = Demanded(j) /\ x = Ahead(j)[c] /\ Demanded(j)' = d + x
      BY <2>9, <2>10
    <3>2. x = 0
      BY <2>6, <3>1
    <3>3. d + x = d
      BY <3>2
    <3>4. Demanded(j)' = Demanded(j) /\ Waits(j)
      BY <2>4, <3>1, <3>3 DEF Account
    <3> QED BY <1>1, <3>4 DEF Waits, Does
  <2>12. Asked'
    <3>1. PICK d \in Nat, x \in Nat :
            d = Demanded(Subscriber) /\ x = Ahead(Subscriber)[c] /\ Demanded(Subscriber)' = d + x
      BY <2>9, <2>10
    <3>2. PICK v \in Nat, a \in Nat : v = Len(log.values) /\ a = user.asked
      BY CountersAreTyped
    <3>3. v + d = a /\ x = n
      BY <2>4, <2>6, <3>1, <3>2 DEF Account, Asked
    <3>4. v + (d + x) = a + n
      BY <3>3
    <3> QED BY <1>1, <2>1, <3>1, <3>2, <3>4 DEF Asked
  <2> QED BY <2>7, <2>8, <2>11, <2>12 DEF Account
<1> QED BY <1>6, <1>7

(* The first call sets up the stream, and counts for no demand.            *)
LEMMA InitIsServed ==
  ASSUME Init, 0 \notin Counts
  PROVE  DemandInv
<1>1. TypesInv
  BY InitIsTyped
<1>2. PICK c \in PipelineCalls : c = Call(Depth, "subscribe", 0) /\ c \in Setups /\ c.sig = "subscribe"
  <2>1. Depth \in 0 .. Depth
    BY DepthAssumption
  <2>2. Call(Depth, "subscribe", 0) \in Setups
    BY <2>1 DEF Setups
  <2>3. Call(Depth, "subscribe", 0) \in PipelineCalls
    BY <2>2, SetupsAre
  <2> QED BY <2>2, <2>3 DEF Call
<1>3. /\ agenda = [t \in Threads |-> IF t = Client THEN <<c>> ELSE <<>>] /\ pending = <<>>
      /\ Client \in Threads
  BY <1>2 DEF Init, SignalsInit, Threads
<1>4. ASSUME NEW z \in Weights
      PROVE  Finite(z, agenda) /\ Afoot(z, agenda, pending) = z[c]
  <2>1. Weight(z, <<>>) = 0 /\ Weight(z, <<c>>) = z[c] /\ z[c] \in Nat
    BY WeightOfFew DEF Weights
  <2>2. Waiting(<<>>) = <<>>
    BY DEF Waiting
  <2>3. PICK f \in [Threads -> Nat] : f = [t \in Threads |-> 0]
    OBVIOUS
  <2>4. IsFiniteSet(Pieces(f)) /\ Total(f) = 0
    BY <2>3, NoTotal
  <2>5. PICK g \in [Threads -> Nat] : g = WeightsOf(z, agenda) /\ g[Client] = z[c]
                                      /\ \A t \in Threads \ {Client} : g[t] = 0
    <3>1. \A t \in Threads : WeightsOf(z, agenda)[t] = IF t = Client THEN z[c] ELSE 0
      BY <1>3, <2>1 DEF WeightsOf
    <3>2. WeightsOf(z, agenda) \in [Threads -> Nat]
      BY <2>1, <3>1 DEF WeightsOf
    <3> QED BY <1>3, <3>1, <3>2
  <2>6. IsFiniteSet(Pieces(g)) /\ Total(g) \in Nat /\ Total(g) + f[Client] = Total(f) + g[Client]
    <3>1. \A t \in Threads \ {Client} : g[t] = f[t]
      BY <2>3, <2>5
    <3>2. Client \in Threads /\ IsFiniteSet(Pieces(f))
      BY <1>3, <2>4
    <3>3. /\ IsFiniteSet(Pieces(g)) /\ Total(f) \in Nat /\ Total(g) \in Nat
          /\ Total(g) + f[Client] = Total(f) + g[Client]
      BY <3>1, <3>2, TotalChanges
    <3> QED BY <3>3
  <2>7. PICK n \in Nat, x \in Nat : n = Total(g) /\ x = z[c]
    BY <2>1, <2>6
  <2>8. n + 0 = 0 + x
    BY <1>3, <2>3, <2>4, <2>5, <2>6, <2>7
  <2>9. n + 0 = x
    BY <2>8
  <2> QED BY <1>3, <2>1, <2>2, <2>5, <2>6, <2>7, <2>9 DEF Finite, Afoot
<1>5. /\ link = [i \in Stages |-> [held |-> FALSE, m_requested |-> 0, m_waiting |-> 0]]
      /\ source.m_requested = 0 /\ ~source.m_running /\ ~source.m_completed /\ ~source.m_canceled
      /\ user.asked = 0 /\ ~subscriber.held /\ Len(log.values) = 0 /\ subscriber.m_remaining = 0
  BY DEF Init, StagesInit, SourceInit, SubscriberInit
<1>6. \A i \in Stages : Blank(link[i]) /\ Spare(link[i]) = 0 /\ link[i].m_waiting = 0
  BY <1>5 DEF Blank, Spare, Apart
<1>7. \A i \in Stages : Does(i, {"take"}) => own[i].m_count # 0
  <2>1. ASSUME NEW i \in Stages, own[i].name = "take"
        PROVE  own[i].m_count # 0
    <3>1. PICK name \in OperatorNames : own[i] \in Fresh(name)
      BY DEF Init, StagesInit
    <3>2. own[i].name = name /\ own[i].m_count \in IF name \in {"take", "elementAt"} THEN Counts ELSE {0}
      BY <3>1 DEF Fresh
    <3> QED BY <2>1, <3>2
  <2> QED BY <2>1 DEF Does
<1>8. Exhausts
  BY <1>7 DEF Exhausts
<1>9. \A j \in Parts : Demanded(j) = 0
  <2>1. ASSUME NEW j \in Parts
        PROVE  Demanded(j) = 0
    <3>1. Ahead(j)[c] = 0 /\ Ahead(j) \in Weights
      BY <1>2, AheadOf, WeightsOfCalls
    <3>2. Afoot(Ahead(j), agenda, pending) = 0
      BY <1>4, <3>1
    <3>3. Total(Before(link, j)) = 0
      <4>1. Before(link, j) \in [Stages -> Nat]
        BY <1>1, SparesAre DEF Before, TypesInv, OperatorsOK
      <4>2. \A i \in Stages : Before(link, j)[i] = 0
        BY <1>6 DEF Before
      <4> QED BY <4>1, <4>2, NoTotal
    <3> QED BY <1>5, <3>2, <3>3 DEF Demanded, Due
  <2> QED BY <2>1
<1>10. Opening
  <2>1. Only(c)
    BY <1>4 DEF Only
  <2> QED BY <1>2, <1>5, <1>6, <2>1 DEF Opening
<1>11. Gives /\ Asked
  <2>1. Subscriber \in Parts
    BY DepthAssumption DEF Parts, Subscriber
  <2> QED BY <1>5, <1>9, <2>1 DEF Gives, Asked
<1>12. \A i \in Stages : Waits(i)
  <2>1. Wraps(0, 0)
    BY Wrapped
  <2>2. \A i \in Stages : i \in Parts
    BY StageItself
  <2> QED BY <1>6, <1>9, <2>1, <2>2 DEF Waits
<1> QED BY <1>4, <1>8, <1>10, <1>11, <1>12 DEF DemandInv, Account

(* Once a stream of Streaming operators, always one.                       *)
LEMMA StreamsAre ==
  ASSUME ClosuresTypeOK, TypesInv, [NextStep]_vars
  PROVE  /\ \A i \in Stages : own'[i].name = own[i].name
         /\ source'.kind \in Served => source.kind \in Served
<1>1. \A i \in Stages : own'[i].name = own[i].name
  <2>1. ASSUME NEW t \in Threads, NEW i \in Stages, OperatorStep(t, i)
        PROVE  \A j \in Stages : own'[j].name = own[j].name
    BY <2>1, OperatorsHandle, HandledIsTyped DEF TypesInv
  <2> QED BY <2>1 DEF NextStep, Step, Works, Takes, Terminated, vars, stageVars
<1>2. source'.kind = source.kind \/ source.kind = "defer"
  <2>1. ASSUME NEW t \in Threads, SourceStep(t)
        PROVE  source'.kind = source.kind \/ source.kind = "defer"
    BY <2>1, SourceKindKept DEF TypesInv
  <2> QED BY <2>1 DEF NextStep, Step, Works, Takes, Terminated, vars, sourceVars
<1> QED BY <1>1, <1>2 DEF Served

(* Every step of the pipeline and of the user keeps DemandInv.             *)
LEMMA StepIsServed ==
  ASSUME ClosuresTypeOK, TypesInv, TypesInv', DemandInv, [NextStep]_vars
  PROVE  DemandInv'
<1>1. /\ \A i \in Stages : own'[i].name = own[i].name
      /\ source'.kind \in Served => source.kind \in Served
  BY StreamsAre
<1>2. UsesOnly(Streaming)' => UsesOnly(Streaming)
  BY <1>1 DEF UsesOnly, Does
<1> DEFINE Kept == /\ \A z \in Weights : Finite(z, agenda')
                   /\ Exhausts' /\ (Open' /\ Modest' => Account')
<1> SUFFICES ASSUME source.kind \in Served, UsesOnly(Streaming)
             PROVE  Kept
  BY <1>1, <1>2 DEF DemandInv
<1>3. /\ Countings /\ OperatorsOK /\ SourceOK(source) /\ SourceOK(source')
      /\ SubscriberTypeOK /\ SubscriberTypeOK' /\ Exhausts /\ (Open /\ Modest => Account)
  BY DEF Countings, TypesInv, DemandInv
<1>4. ASSUME NEW t \in Threads, agenda[t] # <<>>, NEW calls \in Seq(PipelineCalls), Passed(t, calls)
      PROVE  \A z \in Weights : Finite(z, agenda')
  BY <1>3, <1>4, Counted
<1>5. ASSUME NEW t \in Threads, SourceStep(t), UNCHANGED <<stageVars, subscriberVars>>
      PROVE  Kept
  <2>1. agenda[t] # <<>> /\ SourceMoves(t)
    BY <1>3, <1>5, SourceActs, SourceLeads DEF Countings
  <2>2. \A z \in Weights : Finite(z, agenda')
    <3>1. CASE UNCHANGED callVars
      BY <1>3, <3>1 DEF Countings, callVars
    <3> QED BY <1>4, <2>1, <3>1 DEF SourceMoves
  <2>3. Exhausts' /\ (Open' /\ Modest' => Account')
    BY <1>3, <1>5, <2>1, SourceServes
  <2> QED BY <2>2, <2>3
<1>6. ASSUME NEW t \in Threads, NEW i \in Stages, OperatorStep(t, i),
             UNCHANGED <<sourceVars, subscriberVars>>
      PROVE  Kept
  <2>1. agenda[t] # <<>> /\ Does(i, Streaming)
    BY <1>6 DEF OperatorStep, UsesOnly
  <2>2. Leads(t, i)
    BY <1>3, <1>6, <2>1, StreamingLeads DEF Countings
  <2>3. Head(agenda[t]).at = i
    BY <1>6, <2>1, OperatorActs
  <2>4. \A z \in Weights : Finite(z, agenda')
    BY <1>4, <2>1, <2>2 DEF Leads
  <2>5. Exhausts' /\ (Open' /\ Modest' => Account')
    BY <1>3, <1>6, <2>1, <2>2, <2>3, OperatorServes
  <2> QED BY <2>4, <2>5
<1>7. ASSUME NEW t \in Threads, SubscriberStep(t), UNCHANGED <<sourceVars, stageVars>>
      PROVE  Kept
  <2>1. agenda[t] # <<>>
    BY <1>7 DEF SubscriberStep, OnSubscribed, OnNext, Received, OnEnd, On
  <2>2. PICK calls \in Seq(PipelineCalls) : Passed(t, calls)
    BY <1>3, <1>7, <2>1, SubscriberMoves DEF Countings
  <2>3. \A z \in Weights : Finite(z, agenda')
    BY <1>4, <2>1, <2>2
  <2>4. Exhausts' /\ (Open' /\ Modest' => Account')
    BY <1>3, <1>7, <2>1, SubscriberServes
  <2> QED BY <2>3, <2>4
<1>8. ASSUME NEW w \in Workers, Takes(w)
      PROVE  Kept
  <2>1. Dispatch(w) /\ UNCHANGED <<sourceVars, stageVars, subscriberVars>>
    BY <1>8 DEF Takes
  <2>2. \A z \in Weights : /\ Finite(z, agenda')
                           /\ Afoot(z, agenda', pending') = Afoot(z, agenda, pending)
    BY <1>3, <2>1, TakesWeighs DEF Countings
  <2>3. Exhausts' /\ (Open' /\ Modest' => Account')
    BY <1>3, <2>1, <2>2, SameServes
  <2> QED BY <2>2, <2>3
<1>9. ASSUME UserCalls, UNCHANGED <<sourceVars, stageVars>>
      PROVE  Kept
  <2>1. Exhausts' /\ (Open' /\ Modest' => Account')
    BY <1>3, <1>9, UserServes
  <2>2. agenda[Client] = <<>> /\ pending' = pending
    BY <1>9 DEF UserCalls, Idle, Threads
  <2>3. PICK c \in PipelineCalls : agenda' = [agenda EXCEPT ![Client] = <<c>>]
    BY <1>9, UserMakesOne, UserSentIsTyped
  <2>4. \A z \in Weights : Finite(z, agenda')
    BY <1>3, <2>2, <2>3, CallWeighs DEF Countings
  <2> QED BY <2>1, <2>4
<1>10. ASSUME UNCHANGED vars
       PROVE  Kept
  <2>1. /\ UNCHANGED <<sourceVars, stageVars, subscriberVars>> /\ agenda' = agenda /\ pending' = pending
    BY <1>10 DEF vars, callVars
  <2>2. \A z \in Weights : Finite(z, agenda')
    BY <1>3, <2>1 DEF Countings
  <2>3. Exhausts' /\ (Open' /\ Modest' => Account')
    BY <1>3, <2>1, SameServes
  <2> QED BY <2>2, <2>3
<1> QED BY <1>5, <1>6, <1>7, <1>8, <1>9, <1>10 DEF NextStep, Step, Works, Terminated

(* A sum of smaller terms.                                                 *)
LEMMA TotalIsLess ==
  ASSUME NEW S, NEW f \in [S -> Nat], NEW g \in [S -> Nat], \A k \in S : f[k] <= g[k],
         IsFiniteSet(Pieces(g))
  PROVE  Total(f) <= Total(g)
<1>1. ASSUME NEW w \in Pieces(f)
      PROVE  w \in Pieces(g)
  <2>0. PICK k \in S : \E i \in 1 .. f[k] : w = <<k, i>>
    BY PiecesAre
  <2>1. PICK i \in 1 .. f[k] : w = <<k, i>>
    BY <2>0
  <2>2. PICK m \in Nat, n \in Nat : m = f[k] /\ n = g[k]
    OBVIOUS
  <2>3. m <= n
    BY <2>2
  <2>4. i \in 1 .. n
    BY <2>2, <2>3
  <2> QED BY <2>1, <2>2, <2>4, PiecesAre
<1>2. Pieces(f) \subseteq Pieces(g)
  BY <1>1
<1> QED BY <1>2, FS_Subset DEF Total

---------------------------------------------------------------------------
(* The filters of a stream.                                                *)
LEMMA StagesFinite == IsFiniteSet(Stages) /\ Stages \subseteq Nat
<1>1. 1 \in Int /\ Depth \in Int
  BY DepthAssumption
<1> QED BY <1>1, FS_Interval DEF Stages

LEMMA BeforeAre ==
  ASSUME OperatorsOK, NEW j
  PROVE  /\ Before(link, j) \in [Stages -> Nat] /\ IsFiniteSet(Pieces(Before(link, j)))
         /\ \A i \in Stages : Before(link, j)[i] = IF i < j THEN Spare(link[i]) ELSE 0
         /\ \A i \in Stages : Spare(link[i]) \in Nat
<1>1. \A i \in Stages : Spare(link[i]) \in Nat
  BY SparesAre DEF OperatorsOK
<1>2. Before(link, j) \in [Stages -> Nat]
  BY <1>1 DEF Before
<1>3. IsFiniteSet(Pieces(Before(link, j)))
  BY <1>2, StagesFinite, TotalIsNat
<1> QED BY <1>1, <1>2, <1>3 DEF Before

(* No filter holds any back where none waits for one behind it.            *)
LEMMA SparesNone ==
  ASSUME OperatorsOK, \A i \in Stages : Spare(link[i]) # 0 => Total(Before(link, i)) # 0
  PROVE  \A j : Total(Before(link, j)) = 0
<1> DEFINE T == {i \in Stages : Spare(link[i]) # 0}
<1>1. CASE T = {}
  <2>1. \A i \in Stages : Spare(link[i]) = 0
    BY <1>1
  <2> SUFFICES ASSUME NEW j PROVE Total(Before(link, j)) = 0
    OBVIOUS
  <2>2. PICK f \in [Stages -> Nat] : f = Before(link, j) /\ \A i \in Stages : f[i] = 0
    BY <2>1, BeforeAre
  <2> QED BY <2>2, NoTotal
<1>2. CASE T # {}
  <2>1. T \subseteq Nat
    BY StagesFinite
  <2>2. PICK m \in T : \A y \in T : m =< y
    <3> HIDE DEF T
    <3> QED BY <1>2, <2>1, LeastExists
  <2>3. ASSUME NEW i \in Stages, i < m
        PROVE  Spare(link[i]) = 0
    <3>1. i \in Nat /\ m \in Nat
      BY <2>1, StagesFinite
    <3>2. ~(m =< i)
      BY <2>3, <3>1
    <3> QED BY <2>2, <3>2
  <2>4. PICK f \in [Stages -> Nat] : f = Before(link, m) /\ \A i \in Stages : f[i] = 0
    BY <2>3, BeforeAre
  <2>5. Total(Before(link, m)) = 0
    BY <2>4, NoTotal
  <2> QED BY <2>5
<1> QED BY <1>1, <1>2

(* What filter i holds back is all that lies between it and the next.      *)
LEMMA BeforeNext ==
  ASSUME OperatorsOK, NEW i \in Stages, NEW n \in Parts, i < n,
         \A j \in Stages : i < j /\ j < n => Spare(link[j]) = 0
  PROVE  /\ Total(Before(link, i)) \in Nat /\ Spare(link[i]) \in Nat
         /\ Total(Before(link, n)) = Total(Before(link, i)) + Spare(link[i])
<1>1. PICK f \in [Stages -> Nat] :
        /\ f = Before(link, i) /\ IsFiniteSet(Pieces(f))
        /\ \A j \in Stages : f[j] = IF j < i THEN Spare(link[j]) ELSE 0
  BY BeforeAre
<1>2. PICK g \in [Stages -> Nat] :
        /\ g = Before(link, n)
        /\ \A j \in Stages : g[j] = IF j < n THEN Spare(link[j]) ELSE 0
  BY BeforeAre
<1>3. i \in Nat /\ n \in Nat /\ \A j \in Stages : j \in Nat
  BY DepthAssumption DEF Stages, Parts, Subscriber
<1>4. ASSUME NEW j \in Stages \ {i}
      PROVE  g[j] = f[j]
  <2>1. CASE j < i
    <3>1. j < n
      BY <1>3, <2>1
    <3> QED BY <1>1, <1>2, <2>1, <3>1
  <2>2. CASE ~(j < i)
    <3>1. i < j
      BY <1>3, <2>2
    <3>2. g[j] = 0
      BY <1>2, <3>1
    <3> QED BY <1>1, <2>2, <3>2
  <2> QED BY <2>1, <2>2
<1>5. Total(f) \in Nat /\ Total(g) \in Nat /\ Total(g) + f[i] = Total(f) + g[i]
  BY <1>1, <1>4, TotalChanges
<1>6. f[i] = 0 /\ g[i] = Spare(link[i]) /\ Spare(link[i]) \in Nat
  BY <1>1, <1>2, <1>3, BeforeAre
<1>7. PICK a \in Nat, b \in Nat, s \in Nat : a = Total(f) /\ b = Total(g) /\ s = Spare(link[i])
  BY <1>5, <1>6
<1>8. b + 0 = a + s
  BY <1>5, <1>6, <1>7
<1>9. b = a + s
  BY <1>8
<1> QED BY <1>1, <1>2, <1>7, <1>9

(* While no handler runs, only tasks are under way.                        *)
LEMMA AfootAtRest ==
  ASSUME Idle, NEW z \in Weights
  PROVE  /\ Afoot(z, agenda, pending) = 0 + Weight(z, Waiting(pending))
         /\ pending = <<>> => Weight(z, Waiting(pending)) = 0
<1>1. Weight(z, <<>>) = 0
  BY WeightOfFew
<1>2. \A t \in Threads : WeightsOf(z, agenda)[t] = 0
  BY <1>1 DEF Idle, WeightsOf
<1>3. WeightsOf(z, agenda) \in [Threads -> Nat]
  BY <1>2 DEF WeightsOf
<1>4. Total(WeightsOf(z, agenda)) = 0
  BY <1>2, <1>3, NoTotal
<1>5. Waiting(<<>>) = <<>>
  BY DEF Waiting
<1> QED BY <1>1, <1>4, <1>5 DEF Afoot

(* Nothing is left of what was asked for when nothing is left to run.      *)
LEMMA ServedAtRest ==
  ASSUME TypesInv, DemandInv, source.kind \in Served, Modest
  PROVE  DemandServed
<1> SUFFICES ASSUME Quiet, ~user.canceled, UsesOnly(Streaming), ~Ended
             PROVE  user.asked <= Len(log.values)
  <2>1. Given.values = log.values
    BY DEF Given, Stream
  <2> QED BY <2>1 DEF DemandServed
<1>1. /\ OperatorsOK /\ SourceOK(source) /\ SubscriberTypeOK /\ Countings /\ Exhausts
      /\ Open /\ Modest => Account
  BY DEF TypesInv, DemandInv, Countings
<1>2. \A z \in Weights : Afoot(z, agenda, pending) = 0
  BY AfootAtRest DEF Quiet
<1>3. \A S : There(S) = 0
  BY <1>2, WeightsOfCalls DEF There
<1>4. Open
  BY <1>1, <1>3 DEF Open, Exhausts
<1>5. Gives /\ Asked /\ \A i \in Stages : Waits(i)
  BY <1>1, <1>4 DEF Account
<1>6. source.m_requested = 0
  <2>1. source.m_requested \in Nat
    BY <1>1, SizesAreTyped DEF SourceOK, SourceMembers
  <2>2. ~(source.m_requested > 0)
    BY <1>3, <1>5 DEF Gives
  <2> QED BY <2>1, <2>2
<1>7. ASSUME NEW j \in Parts
      PROVE  Demanded(j) = Total(Before(link, j)) /\ Demanded(j) \in Nat
  <2>1. PICK r \in Nat, a \in Nat, b \in Nat :
          /\ r = source.m_requested /\ a = Afoot(Ahead(j), agenda, pending) /\ b = Total(Before(link, j))
          /\ Demanded(j) = r + a + b
    BY <1>1, DemandedIs
  <2>2. r = 0 /\ a = 0
    BY <1>2, <1>6, <2>1, WeightsOfCalls
  <2>3. r + a + b = b
    BY <2>2
  <2> QED BY <2>1, <2>3
<1>8. ASSUME NEW i \in Stages, Spare(link[i]) # 0
      PROVE  Total(Before(link, i)) # 0
  <2>1. Demanded(i) > 0
    BY <1>5, <1>8 DEF Waits
  <2> QED BY <1>7, <2>1, StageItself
<1>9. Subscriber \in Parts
  BY DepthAssumption DEF Parts, Subscriber
<1>10. Demanded(Subscriber) = 0
  BY <1>1, <1>7, <1>8, <1>9, SparesNone
<1>11. PICK v \in Nat, a \in Nat : v = Len(log.values) /\ a = user.asked
  BY <1>1, CountersAreTyped
<1>12. v + 0 = a
  BY <1>5, <1>10, <1>11 DEF Asked
<1>13. a <= v
  BY <1>12
<1> QED BY <1>11, <1>13

(* No demand is lost over empty, just, range and interval, in a chain of   *)
(* any number of map, tap, filter, take, takeWhile, defaultIfEmpty and     *)
(* schedulers, on any number of threads: when nothing is left to run,      *)
(* every value asked for was given, or the stream has ended.  Left aside   *)
(* are a take(0), which drops values and asks for no others, and a user of *)
(* its own demand who asks for more than SIZE_MAX in all: the interval's   *)
(* m_requested would lose it.                                              *)
THEOREM PipelineDemandServed ==
  ASSUME ClosuresTypeOK, 0 \notin Counts
  PROVE  Spec => [](Modest => DemandServed)
<1>1. Init => TypesInv /\ DemandInv
  BY InitIsTyped, InitIsServed
<1>2. TypesInv /\ DemandInv /\ [NextStep]_vars => (TypesInv /\ DemandInv)'
  BY StepIsTyped, StepIsServed
<1>3. TypesInv /\ DemandInv => (Modest => DemandServed)
  <2>1. CASE source.kind \in Served
    BY <2>1, ServedAtRest
  <2>2. CASE source.kind \notin Served
    BY <2>2 DEF DemandServed, Served
  <2> QED BY <2>1, <2>2
<1> QED BY <1>1, <1>2, <1>3, PTL DEF Spec

---------------------------------------------------------------------------
(* Without observeOn, subscribeOn and delay the only tasks are ticks of    *)
(* the interval.                                                           *)
Timers == {task \in Tasks : task.call \in Ticks}

TimersInv ==
  source.kind \in Served /\ UsesOnly(Streaming) /\ ~Uses(Scheduling) => pending \in Seq(Timers)

LEMMA NewTimer ==
  ASSUME pending \in Seq(Timers), NEW n \in Nat,
         pending' = Append(pending, [when |-> "point", call |-> Call(0, "tick", n)])
  PROVE  pending' \in Seq(Timers)
<1>1. PICK c \in PipelineCalls : c = Call(0, "tick", n) /\ c.at = 0 /\ c.sig = "tick"
  <2>1. Call(0, "tick", n) \in PipelineCalls
    BY SourceCalls
  <2> QED BY <2>1 DEF Call
<1>2. c \in Ticks
  BY <1>1 DEF Ticks
<1>3. [when |-> "point", call |-> c] \in Timers
  <2> HIDE DEF PipelineCalls
  <2> QED BY <1>2 DEF Timers, Tasks
<1> QED BY <1>1, <1>3, AppendProperties

LEMMA SourceTimes ==
  ASSUME CallsTypeOK, NEW t \in Threads, SourceStep(t), source.kind \in Served,
         pending \in Seq(Timers)
  PROVE  pending' \in Seq(Timers)
<1>1. agenda[t] # <<>> /\ Arg(t) \in Nat
  BY SourceActs, HeadIsTyped
<1>2. ASSUME NEW signals, NEW more, Emits(t, signals, more)
      PROVE  pending' = pending
  BY <1>2 DEF Emits, Makes
<1>3. CASE Empty(t) \/ Just(t) \/ Never(t) \/ RangeSource(t) \/ Error(t) \/ Defer(t)
  <2>1. pending' = pending \/ \E signals, more : Emits(t, signals, more)
    BY <1>3 DEF Empty, Just, Never, RangeSource, Error, Defer, HandsSubscription, JustRequest, RangeStops,
                RangeCompletes, RangeTurn, RangeCancel, Quietly
  <2> QED BY <1>2, <2>1
<1>4. ASSUME NEW demand, NEW n \in Nat, TryRequest(t, demand, n)
      PROVE  pending' \in Seq(Timers)
  <2>1. CASE demand = 0
    BY <1>4, <2>1 DEF TryRequest, Makes
  <2>2. CASE demand # 0
    <3>1. pending' = Append(pending, [when |-> "point", call |-> Call(0, "tick", n)])
      BY <1>4, <2>2 DEF TryRequest, Schedules
    <3> QED BY <3>1, NewTimer
  <2> QED BY <2>1, <2>2
<1>5. CASE Interval(t)
  <2>1. CASE HandsSubscription(t) \/ IntervalCancel(t) \/ IntervalTick(t)
    <3>1. \E signals, more : Emits(t, signals, more)
      BY <2>1 DEF HandsSubscription, IntervalCancel, IntervalTick, Quietly
    <3> QED BY <1>2, <3>1
  <2>2. CASE IntervalRequest(t)
    <3>1. 0 \in Nat
      OBVIOUS
    <3>2. (\E demand : TryRequest(t, demand, 0)) \/ \E signals, more : Emits(t, signals, more)
      BY <2>2 DEF IntervalRequest, Quietly
    <3> QED BY <1>2, <1>4, <3>1, <3>2
  <2>3. CASE IntervalAgain(t)
    BY <1>1, <1>4, <2>3 DEF IntervalAgain
  <2> QED BY <1>5, <2>1, <2>2, <2>3 DEF Interval
<1>6. CASE Create(t)
  <2>1. MethodReturns(t)
    BY <1>6 DEF Create, CallsMethod, MethodWaits, ObservableGate, SingleGate, MaybeGate, CompletableGate,
                Is, Served, Gates
  <2> QED BY <1>2, <2>1 DEF MethodReturns, Quietly
<1> QED BY <1>3, <1>5, <1>6 DEF SourceStep

LEMMA InitIsTimed ==
  ASSUME Init
  PROVE  TimersInv
<1>1. pending = <<>> /\ <<>> \in Seq(Timers)
  BY EmptySeq DEF Init, SignalsInit
<1> QED BY <1>1 DEF TimersInv

(* Only the interval makes tasks.                                          *)
LEMMA StepIsTimed ==
  ASSUME ClosuresTypeOK, TypesInv, TimersInv, [NextStep]_vars
  PROVE  TimersInv'
<1>1. /\ \A i \in Stages : own'[i].name = own[i].name
      /\ source'.kind \in Served => source.kind \in Served
  BY StreamsAre
<1>2. (UsesOnly(Streaming)' => UsesOnly(Streaming)) /\ (~Uses(Scheduling)' => ~Uses(Scheduling))
  BY <1>1 DEF UsesOnly, Uses, Does
<1> SUFFICES ASSUME source.kind \in Served, UsesOnly(Streaming), ~Uses(Scheduling)
             PROVE  pending' \in Seq(Timers)
  BY <1>1, <1>2 DEF TimersInv
<1>3. CallsTypeOK /\ pending \in Seq(Timers)
  BY DEF TypesInv, TimersInv
<1>4. ASSUME NEW t \in Threads, SourceStep(t)
      PROVE  pending' \in Seq(Timers)
  BY <1>3, <1>4, SourceTimes
<1>5. ASSUME NEW t \in Threads, NEW i \in Stages, OperatorStep(t, i)
      PROVE  pending' \in Seq(Timers)
  <2>1. Does(i, Streaming) /\ ~Does(i, Scheduling)
    BY DEF UsesOnly, Uses
  <2>2. pending' = pending
    BY <1>5, <2>1, OperatorActs
  <2> QED BY <1>3, <2>2
<1>6. ASSUME NEW t \in Threads, SubscriberStep(t)
      PROVE  pending' \in Seq(Timers)
  <2>1. \E calls \in Seq(UserSent) : Makes(t, calls)
    BY <1>6, SubscriberCalls
  <2> QED BY <1>3, <2>1 DEF Makes
<1>7. ASSUME NEW w \in Workers, Takes(w)
      PROVE  pending' \in Seq(Timers)
  <2>1. PICK k \in DOMAIN pending : pending' = RemoveAt(pending, k)
    BY <1>7 DEF Takes, Dispatch
  <2>2. k \in 1 .. Len(pending)
    BY <1>3, <2>1, LenProperties
  <2> QED BY <1>3, <2>1, <2>2, RemovedKeepsOrder
<1>8. ASSUME UserCalls
      PROVE  pending' \in Seq(Timers)
  BY <1>3, <1>8 DEF UserCalls
<1>9. ASSUME UNCHANGED vars
      PROVE  pending' \in Seq(Timers)
  BY <1>3, <1>9 DEF vars, callVars
<1> QED BY <1>4, <1>5, <1>6, <1>7, <1>8, <1>9 DEF NextStep, Step, Works, Terminated

(* Weights that agree on the ticks.                                        *)
LEMMA SameWeight ==
  ASSUME NEW p \in Seq(Timers), NEW y \in Weights, NEW z \in Weights, \A c \in Ticks : y[c] = z[c]
  PROVE  Weight(y, Waiting(p)) = Weight(z, Waiting(p))
<1>1. \A k \in 1 .. Len(p) : p[k].call \in Ticks
  <2>1. \A k \in 1 .. Len(p) : p[k] \in Timers
    BY ElementOfSeq
  <2> QED BY <2>1 DEF Timers
<1>2. DOMAIN p = 1 .. Len(p)
  BY LenProperties
<1>3. \A k \in DOMAIN p : y[p[k].call] = z[p[k].call]
  BY <1>1, <1>2
<1>4. DOMAIN Waiting(p) = DOMAIN p /\ \A k \in DOMAIN p : Waiting(p)[k] = p[k].call
  BY DEF Waiting
<1>5. Weighed(y, Waiting(p)) = Weighed(z, Waiting(p))
  BY <1>3, <1>4 DEF Weighed
<1> QED BY <1>5 DEF Weight

(* While no handler runs, every part has the same demand under way.        *)
LEMMA TimersAtRest ==
  ASSUME Idle, pending \in Seq(Timers)
  PROVE  /\ There(Closing) = 0 /\ \A i \in Stages : There(Tests(i)) = 0
         /\ \A j, k \in Parts : Afoot(Ahead(j), agenda, pending) = Afoot(Ahead(k), agenda, pending)
<1>1. Ticks \subseteq PipelineCalls /\ \A c \in Ticks : c.sig = "tick"
  BY DEF Ticks
<1>2. ASSUME NEW y \in Weights, NEW z \in Weights, \A c \in Ticks : y[c] = z[c]
      PROVE  Afoot(y, agenda, pending) = Afoot(z, agenda, pending)
  <2>1. Weight(y, Waiting(pending)) = Weight(z, Waiting(pending))
    BY <1>2, SameWeight
  <2>2. Afoot(y, agenda, pending) = 0 + Weight(y, Waiting(pending))
    BY AfootAtRest
  <2>3. Afoot(z, agenda, pending) = 0 + Weight(z, Waiting(pending))
    BY AfootAtRest
  <2> QED BY <2>1, <2>2, <2>3
<1>3. \A j \in Parts : Ahead(j) \in Weights /\ \A c \in Ticks : Ahead(j)[c] = 1
  BY <1>1, WeightsOfCalls, AheadOf
<1>4. ASSUME NEW S, \A c \in Ticks : c \notin S
      PROVE  There(S) = 0
  <2>1. One(S) \in Weights /\ One({}) \in Weights /\ \A c \in PipelineCalls : One({})[c] = 0
    BY WeightsOfCalls
  <2>2. \A c \in Ticks : One(S)[c] = 0 /\ One({})[c] = 0
    BY <1>1, <1>4, WeightsOfCalls
  <2>3. Afoot(One(S), agenda, pending) = Afoot(One({}), agenda, pending)
    BY <1>2, <2>1, <2>2
  <2>4. Afoot(One({}), agenda, pending) = 0
    <3>1. Afoot(One({}), agenda, pending) = 0 + Weight(One({}), Waiting(pending))
      BY <2>1, AfootAtRest
    <3>2. Weight(One({}), Waiting(pending)) = 0
      <4>1. PICK z \in Weights : z = One({}) /\ \A c \in Ticks : z[c] = 0
        BY <2>1, <2>2
      <4>2. DOMAIN pending = 1 .. Len(pending) /\ \A k \in 1 .. Len(pending) : pending[k] \in Timers
        BY LenProperties, ElementOfSeq
      <4>3. \A k \in DOMAIN pending : z[Waiting(pending)[k]] = 0
        BY <4>1, <4>2 DEF Waiting, Timers
      <4>4. Weighed(z, Waiting(pending)) \in [DOMAIN pending -> Nat]
            /\ \A k \in DOMAIN pending : Weighed(z, Waiting(pending))[k] = 0
        <5>1. DOMAIN Waiting(pending) = DOMAIN pending
          BY DEF Waiting
        <5> QED BY <4>3, <5>1 DEF Weighed
      <4> QED BY <4>1, <4>4, NoTotal DEF Weight
    <3> QED BY <3>1, <3>2
  <2> QED BY <2>3, <2>4 DEF There
<1>5. (\A c \in Ticks : c \notin Closing) /\ \A i \in Stages : \A c \in Ticks : c \notin Tests(i)
  BY <1>1 DEF Closing, Tests, Ends
<1>6. \A j, k \in Parts : Afoot(Ahead(j), agenda, pending) = Afoot(Ahead(k), agenda, pending)
  BY <1>2, <1>3
<1> QED BY <1>4, <1>5, <1>6

---------------------------------------------------------------------------
(* The counters of a FilterSubscription at rest.                           *)
(* The filter after filter i, or the subscriber.                           *)
Below(i) == {j \in i + 1 .. Depth : Does(j, Filtering)}
Next(i)  == IF Below(i) = {} THEN Subscriber ELSE Min(Below(i))

(* It is behind i, and no filter is between.                               *)
LEMMA NextFilter ==
  ASSUME NEW i \in Stages
  PROVE  /\ Next(i) \in Parts /\ i < Next(i)
         /\ \A j \in Stages : i < j /\ j < Next(i) => ~Does(j, Filtering)
         /\ Below(i) = {} => Next(i) = Subscriber
         /\ Below(i) # {} => Next(i) = Min(Below(i)) /\ Next(i) \in Stages /\ Does(Next(i), Filtering)
<1>1. /\ i \in Nat /\ i >= 1 /\ i <= Depth /\ Depth \in Nat /\ Subscriber = Depth + 1
      /\ \A j \in Stages : j \in Nat /\ j >= 1 /\ j <= Depth
  BY DepthAssumption DEF Stages, Subscriber
<1>2. ASSUME NEW j \in Stages, i < j, Does(j, Filtering)
      PROVE  j \in Below(i)
  <2>1. j \in i + 1 .. Depth
    BY <1>1, <1>2
  <2> QED BY <1>2, <2>1 DEF Below
<1>3. ASSUME NEW j \in Below(i)
      PROVE  j \in Stages /\ i < j /\ Does(j, Filtering) /\ j \in Nat
  <2>1. j \in i + 1 .. Depth /\ Does(j, Filtering)
    BY <1>3 DEF Below
  <2>2. j \in 1 .. Depth /\ i < j
    BY <1>1, <2>1
  <2> QED BY <2>1, <2>2 DEF Stages
<1>4. CASE Below(i) = {}
  <2>1. Next(i) = Subscriber
    BY <1>4 DEF Next
  <2>2. Subscriber \in Parts /\ i < Subscriber
    BY <1>1 DEF Parts
  <2> QED BY <1>2, <1>4, <2>1, <2>2
<1>5. CASE Below(i) # {}
  <2>1. Next(i) = Min(Below(i))
    BY <1>5 DEF Next
  <2>2. PICK n \in Below(i) : n = Next(i) /\ \A j \in Below(i) : n =< j
    BY <1>3, <1>5, <2>1, LeastExists
  <2>3. n \in Stages /\ i < n /\ Does(n, Filtering) /\ n \in Nat
    BY <1>3
  <2>4. n \in Parts
    BY <2>3, StageItself
  <2>5. ASSUME NEW j \in Stages, i < j, j < n, Does(j, Filtering)
        PROVE  FALSE
    <3>1. n =< j /\ j \in Nat
      BY <1>1, <1>2, <2>2, <2>5
    <3> QED BY <2>3, <2>5, <3>1
  <2> QED BY <1>5, <2>1, <2>2, <2>3, <2>4, <2>5
<1> QED BY <1>4, <1>5

(* Two counters that are a demand d of a size apart.                       *)
LEMMA CountersAgree ==
  ASSUME NEW m \in Nat, NEW w \in Nat, NEW d \in Nat, SizeMax \in Nat,
         d <= SizeMax, w + Apart(m, w, SizeMax + 1) = d
  PROVE  m = d /\ w <= m
<1>1. CASE w <= m
  <2>1. Apart(m, w, SizeMax + 1) = m - w
    BY <1>1 DEF Apart
  <2> QED BY <1>1, <2>1
<1>2. CASE ~(w <= m)
  <2>1. Apart(m, w, SizeMax + 1) = m + (SizeMax + 1) - w
    BY <1>2 DEF Apart
  <2>2. PICK z \in Nat : z = SizeMax /\ w + (m + (z + 1) - w) = d /\ d <= z
    BY <2>1
  <2> QED BY <2>2
<1> QED BY <1>1, <1>2

LEMMA FilterAtRest ==
  ASSUME OperatorsOK, SourceOK(source), SubscriberTypeOK, Countings, Modest, Asked, \A i \in Stages : Waits(i),
         \A j, k \in Parts : Afoot(Ahead(j), agenda, pending) = Afoot(Ahead(k), agenda, pending),
         NEW i \in Stages, Does(i, Filtering)
  PROVE  link[i].m_requested = Wanted(i) /\ link[i].m_waiting <= link[i].m_requested
<1>1. PICK n \in Parts : n = Next(i)
  BY NextFilter
<1>2. /\ i \in Parts /\ Subscriber \in Parts /\ i < n
  BY <1>1, NextFilter, StageItself, DepthAssumption DEF Parts, Subscriber
<1>3. ASSUME NEW j \in Stages, i < j, j < n
      PROVE  Spare(link[j]) = 0
  <2>1. ~Does(j, Filtering)
    BY <1>1, <1>3, NextFilter
  <2> QED BY <2>1 DEF Waits
<1>4. /\ Total(Before(link, i)) \in Nat /\ Spare(link[i]) \in Nat
      /\ Total(Before(link, n)) = Total(Before(link, i)) + Spare(link[i])
  BY <1>2, <1>3, BeforeNext
<1>5. PICK r \in Nat, a \in Nat, b \in Nat :
        /\ r = source.m_requested /\ a = Afoot(Ahead(i), agenda, pending) /\ b = Total(Before(link, i))
        /\ Demanded(i) = r + a + b
  BY <1>2, DemandedIs
<1>6. PICK rn \in Nat, an \in Nat, bn \in Nat :
        /\ rn = source.m_requested /\ an = Afoot(Ahead(n), agenda, pending) /\ bn = Total(Before(link, n))
        /\ Demanded(n) = rn + an + bn
  BY DemandedIs
<1>7. PICK rs \in Nat, as \in Nat, bs \in Nat :
        /\ rs = source.m_requested /\ as = Afoot(Ahead(Subscriber), agenda, pending)
        /\ bs = Total(Before(link, Subscriber)) /\ Demanded(Subscriber) = rs + as + bs
  BY <1>2, DemandedIs
<1>8. rn = r /\ rs = r /\ an = a /\ as = a
  BY <1>2, <1>5, <1>6, <1>7
<1>9. PICK s \in Nat : s = Spare(link[i]) /\ bn = b + s
  BY <1>4, <1>5, <1>6
<1>10. bn <= bs
  <2>1. PICK f \in [Stages -> Nat] : f = Before(link, n) /\ \A j \in Stages : f[j] = IF j < n THEN Spare(link[j]) ELSE 0
    BY BeforeAre
  <2>2. PICK g \in [Stages -> Nat] :
          /\ g = Before(link, Subscriber) /\ IsFiniteSet(Pieces(g))
          /\ \A j \in Stages : g[j] = IF j < Subscriber THEN Spare(link[j]) ELSE 0
    BY BeforeAre
  <2>3. ASSUME NEW j \in Stages
        PROVE  f[j] <= g[j]
    <3>1. PICK x \in Nat : x = Spare(link[j])
      BY BeforeAre
    <3>2. j < Subscriber
      BY DepthAssumption DEF Stages, Subscriber
    <3>3. g[j] = x
      BY <2>2, <3>1, <3>2
    <3>4. f[j] \in {0, x}
      BY <2>1, <3>1
    <3>5. 0 <= x /\ x <= x
      BY <3>1
    <3> QED BY <3>3, <3>4, <3>5
  <2>4. Total(f) <= Total(g)
    BY <2>2, <2>3, TotalIsLess
  <2> QED BY <1>6, <1>7, <2>1, <2>2, <2>4
<1>11. PICK d \in Nat, dn \in Nat, ds \in Nat :
         /\ d = Demanded(i) /\ dn = Demanded(n) /\ ds = Demanded(Subscriber)
         /\ d = r + a + b /\ dn = r + a + bn /\ ds = r + a + bs
  BY <1>5, <1>6, <1>7, <1>8
<1>12. dn = d + s /\ dn <= ds
  BY <1>9, <1>10, <1>11
<1>13. ds <= SizeMax /\ SizeMax \in Nat
  BY <1>11, DemandIsModest, SizeAssumption
<1>14. dn <= SizeMax /\ d <= SizeMax
  BY <1>12, <1>13
<1>15. d \in Size /\ dn \in Size
  BY <1>13, <1>14 DEF Size
<1>16. /\ \A j \in Stages : link[j].m_requested \in Size /\ link[j].m_waiting \in Size
       /\ Size \subseteq Nat
  BY SizesAreTyped DEF OperatorsOK, LinkState
<1>17. PICK m \in Nat, w \in Nat : m = link[i].m_requested /\ w = link[i].m_waiting /\ w \in Size
  BY <1>16
<1>18. w = d
  <2>1. Wraps(d, w)
    BY <1>11, <1>17 DEF Waits
  <2> QED BY <1>15, <1>17, <2>1, WrapsSame
<1>19. Apart(m, w, SizeMax + 1) = s
  BY <1>9, <1>17 DEF Spare
<1>20. w + Apart(m, w, SizeMax + 1) = dn
  BY <1>12, <1>18, <1>19
<1>21. m = dn /\ w <= m
  BY <1>13, <1>14, <1>20, CountersAgree
<1>22. dn = Wanted(i)
  <2>1. CASE Below(i) = {}
    <3>1. Wanted(i) = user.asked - Len(log.values)
      BY <2>1 DEF Wanted, Below, Given, Stream
    <3>2. n = Subscriber
      BY <1>1, <2>1, NextFilter
    <3>3. PICK v \in Nat, u \in Nat : v = Len(log.values) /\ u = user.asked
      BY CountersAreTyped
    <3>4. v + dn = u
      BY <1>11, <3>2, <3>3 DEF Asked
    <3>5. dn = u - v
      BY <3>4
    <3> QED BY <3>1, <3>3, <3>5
  <2>2. CASE Below(i) # {}
    <3>1. Wanted(i) = link[Min(Below(i))].m_waiting
      BY <2>2 DEF Wanted, Below
    <3>2. n = Min(Below(i)) /\ n \in Stages /\ Does(n, Filtering)
      BY <1>1, <2>2, NextFilter
    <3>3. Wraps(dn, link[n].m_waiting)
      BY <1>11, <3>2 DEF Waits
    <3>4. link[n].m_waiting \in Size
      BY <1>16, <3>2
    <3> QED BY <1>15, <3>1, <3>2, <3>3, <3>4, WrapsSame
  <2> QED BY <2>1, <2>2
<1> QED BY <1>17, <1>21, <1>22

(* What all that is due between two calls has in common are the ticks.     *)
LEMMA CountsAtRest ==
  ASSUME TypesInv, DemandInv, TimersInv, source.kind \in Served, Modest, UsesOnly(Streaming)
  PROVE  CountsDemand
<1> SUFFICES ASSUME Idle, ~Ended, ~user.canceled, ~Uses(Scheduling),
                    NEW i \in Stages, Does(i, {"filter", "takeWhile"})
             PROVE  link[i].m_requested = Wanted(i) /\ link[i].m_waiting <= link[i].m_requested
  BY DEF CountsDemand
<1>1. /\ OperatorsOK /\ SourceOK(source) /\ SubscriberTypeOK /\ Countings /\ Exhausts
      /\ Open /\ Modest => Account
  BY DEF TypesInv, DemandInv, Countings
<1>2. pending \in Seq(Timers)
  BY DEF TimersInv
<1>3. There(Closing) = 0 /\ \A j \in Stages : There(Tests(j)) = 0
  BY <1>2, TimersAtRest
<1>4. \A j, k \in Parts : Afoot(Ahead(j), agenda, pending) = Afoot(Ahead(k), agenda, pending)
  BY <1>2, TimersAtRest
<1>5. Open
  BY <1>1, <1>3 DEF Open, Exhausts
<1>6. Asked /\ \A j \in Stages : Waits(j)
  BY <1>1, <1>5 DEF Account
<1>7. Does(i, Filtering)
  BY DEF Does, Filtering
<1> QED BY <1>1, <1>4, <1>6, <1>7, FilterAtRest

(* Between two calls the counters of every FilterSubscription are exact,   *)
(* over the same sources, error and defer, in the same chains without the  *)
(* schedulers and for the same users: what it has been asked for and has   *)
(* not given is what the next filter, or the user, waits for, and no more  *)
(* than that is still to come from upstream.                               *)
THEOREM PipelineCountsDemand ==
  ASSUME ClosuresTypeOK, 0 \notin Counts
  PROVE  Spec => [](source.kind \in Served /\ Modest /\ UsesOnly(Streaming) => CountsDemand)
<1>1. Init => TypesInv /\ DemandInv /\ TimersInv
  BY InitIsTyped, InitIsServed, InitIsTimed
<1>2. TypesInv /\ DemandInv /\ TimersInv /\ [NextStep]_vars => (TypesInv /\ DemandInv /\ TimersInv)'
  BY StepIsTyped, StepIsServed, StepIsTimed
<1>3. /\ TypesInv /\ DemandInv /\ TimersInv
      => (source.kind \in Served /\ Modest /\ UsesOnly(Streaming) => CountsDemand)
  BY CountsAtRest
<1> QED BY <1>1, <1>2, <1>3, PTL DEF Spec

=============================================================================
