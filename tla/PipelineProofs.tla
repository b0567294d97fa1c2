--------------------------- MODULE PipelineProofs ---------------------------
(***************************************************************************)
(* The types of a pipeline of any length, and for one that hands values    *)
(* down or drops them: what cancel() does to it, that it gives no more     *)
(* than it was asked for, and nothing after its end.                       *)
(***************************************************************************)
EXTENDS Pipeline, SubscribersProofs

(* The closures the user gives to map and to reduce return values.         *)
ClosuresTypeOK ==
  /\ \A v \in Nat : Method(v) \in Nat
  /\ \A v, w \in Nat : Operation(v, w) \in Nat

---------------------------------------------------------------------------
(* The calls under way.                                                    *)
PipelineCalls == {c \in Calls(Sent) : c.sig = "method" => c.arg # 0}
Tasks         == [when : {"now", "delayed", "point"}, call : PipelineCalls]

CallsTypeOK ==
  /\ agenda \in [Threads -> Seq(PipelineCalls)]
  /\ pending \in Seq(Tasks)

LEMMA ShortSequences ==
  ASSUME NEW S, NEW a \in S, NEW b \in S, NEW c \in S
  PROVE  <<a>> \in Seq(S) /\ <<a, b>> \in Seq(S) /\ <<a, b, c>> \in Seq(S)
OBVIOUS

LEMMA CallIsTyped ==
  ASSUME NEW i \in 0 .. Subscriber, NEW sig \in Sent, NEW arg \in Nat, sig = "method" => arg # 0
  PROVE  Call(i, sig, arg) \in PipelineCalls
BY DEF Call, Calls, PipelineCalls

LEMMA StageIsPart ==
  ASSUME NEW i \in Stages
  PROVE  /\ i \in 0 .. Subscriber /\ i - 1 \in 0 .. Subscriber /\ i + 1 \in 0 .. Subscriber
         /\ i \in Nat /\ i - 1 + 1 = i
BY DepthAssumption DEF Stages, Subscriber

(* The calls an operator makes.                                            *)
LEMMA StageCalls ==
  ASSUME NEW i \in Stages, NEW n \in Nat
  PROVE  /\ {Value(i, n), Completion(i), Failure(i), Subscription(i)} \subseteq PipelineCalls
         /\ {Request(i - 1, n), Cancel(i - 1), Request(i, n), Cancel(i)} \subseteq PipelineCalls
         /\ {Call(i - 1, "subscribe", 0), Call(i, "release", 0), Call(i, "tested", 0),
             Call(i, "subscribed", 0), Call(i, "branch", 0)} \subseteq PipelineCalls
         /\ {Call(i, "inner", n), Call(i, "innerNext", n), Call(i, "innerError", n),
             Call(i, "innerComplete", n)} \subseteq PipelineCalls
         /\ \A b \in BOOLEAN : Filtered(i, b) \in PipelineCalls
         /\ \A sig \in {"onSubscribe", "onNext", "onComplete", "onError"} :
              ToBranch(i, sig, n) \in PipelineCalls
<1>1. i \in 0 .. Subscriber /\ i - 1 \in 0 .. Subscriber /\ i + 1 \in 0 .. Subscriber
  BY StageIsPart
<1>2. /\ 0 \in Nat /\ 1 \in Nat
      /\ {"subscribe", "onSubscribe", "onNext", "onComplete", "onError", "request", "cancel",
          "filtered", "tested", "release", "inner", "innerNext", "innerError", "innerComplete",
          "branch", "subscribed"} \subseteq Sent \ {"method"}
  BY DEF Sent
<1>3. \A j \in {i - 1, i, i + 1}, sig \in Sent \ {"method"}, m \in {0, 1, n} :
        Call(j, sig, m) \in PipelineCalls
  BY <1>1, <1>2, CallIsTyped
<1> HIDE DEF Sent
<1> QED BY <1>2, <1>3
        DEF Value, Completion, Failure, Subscription, Request, Cancel, Filtered, Bool, ToBranch

LEMMA HeadIsTyped ==
  ASSUME CallsTypeOK, NEW t \in Threads, agenda[t] # <<>>
  PROVE  /\ Head(agenda[t]) \in PipelineCalls /\ Head(agenda[t]) \in Calls(Sent)
         /\ Arg(t) \in Nat /\ Tail(agenda[t]) \in Seq(PipelineCalls)
<1>1. Head(agenda[t]) \in PipelineCalls /\ Tail(agenda[t]) \in Seq(PipelineCalls)
  BY HeadTailProperties DEF CallsTypeOK
<1> QED BY <1>1 DEF PipelineCalls, Calls, Arg

LEMMA MakesIsTyped ==
  ASSUME CallsTypeOK, NEW t \in Threads, agenda[t] # <<>>, NEW calls \in Seq(PipelineCalls),
         Makes(t, calls)
  PROVE  CallsTypeOK'
<1>1. calls \o Tail(agenda[t]) \in Seq(PipelineCalls)
  BY HeadIsTyped, ConcatProperties
<1> QED BY <1>1 DEF CallsTypeOK, Makes

LEMMA SchedulesIsTyped ==
  ASSUME CallsTypeOK, NEW t \in Threads, agenda[t] # <<>>, NEW c \in PipelineCalls,
         NEW when \in {"now", "delayed", "point"}, Schedules(t, when, c)
  PROVE  CallsTypeOK'
<1>1. Tail(agenda[t]) \in Seq(PipelineCalls) /\ [when |-> when, call |-> c] \in Tasks
  BY HeadIsTyped DEF Tasks
<1>2. Append(pending, [when |-> when, call |-> c]) \in Seq(Tasks)
  BY <1>1, AppendProperties DEF CallsTypeOK
<1> QED BY <1>1, <1>2 DEF CallsTypeOK, Schedules

LEMMA StartsIsTyped ==
  ASSUME CallsTypeOK, NEW t \in Threads, agenda[t] # <<>>, NEW c \in PipelineCalls,
         NEW more \in Seq(PipelineCalls), NEW later \in BOOLEAN,
         Starts(t, later, c, more), UNCHANGED pending
  PROVE  CallsTypeOK'
<1> DEFINE first == IF later THEN <<>> ELSE <<c>>
           last  == IF later THEN <<c>> ELSE <<>>
<1>1. first \in Seq(PipelineCalls) /\ last \in Seq(PipelineCalls) /\ Tail(agenda[t]) \in Seq(PipelineCalls)
  BY HeadIsTyped
<1>2. agenda' = [agenda EXCEPT ![t] = first \o more \o Tail(agenda[t]) \o last]
  BY DEF Starts
<1> HIDE DEF first, last
<1>3. first \o more \o Tail(agenda[t]) \o last \in Seq(PipelineCalls)
  BY <1>1, ConcatProperties
<1> QED BY <1>2, <1>3 DEF CallsTypeOK

---------------------------------------------------------------------------
(* The members of an operator and of the subscription it hands down.       *)
BranchState == [elements : Seq(Nat), end : {"onComplete", "onError"}, later : BOOLEAN,
                handed : BOOLEAN, m_current : Nat \ {0}, m_completed : BOOLEAN,
                m_canceled : BOOLEAN]
Members     == [name : Operators, limit : Size, m_count : Size, m_flag : BOOLEAN,
                m_result : Seq(Nat), held : BOOLEAN, branch : BranchState]
LinkState   == [held : BOOLEAN, m_requested : Size, m_waiting : Size]

(* reduce has a result from the start.                                     *)
OperatorState ==
  {o \in Members : Len(o.m_result) <= 1 /\ (o.name = "reduce" => o.m_result # <<>>)}

OperatorsOK == own \in [Stages -> OperatorState] /\ link \in [Stages -> LinkState]

(* What every handler of operator i leaves.                                *)
Handled(i) ==
  /\ CallsTypeOK'
  /\ \E o \in OperatorState, l \in LinkState :
       /\ o.name = own[i].name
       /\ own' = [own EXCEPT ![i] = o]
       /\ link' = [link EXCEPT ![i] = l]

LEMMA SizesAreTyped ==
  /\ Size \subseteq Nat /\ 0 \in Size /\ SizeMax \in Size
  /\ \A a, b \in Nat : Plus(a, b) \in Size
  /\ \A a \in Nat : Decrement(a) \in Size
BY SizeAssumption DEF Size, Plus, Decrement

LEMMA MemberChanges ==
  ASSUME NEW o \in OperatorState
  PROVE  /\ \A b \in BOOLEAN : /\ [o EXCEPT !["m_flag"] = b] \in OperatorState
                               /\ [o EXCEPT !["m_flag"] = b].name = o.name
                               /\ [o EXCEPT !["held"] = b] \in OperatorState
                               /\ [o EXCEPT !["held"] = b].name = o.name
         /\ \A n \in Size : /\ [o EXCEPT !["m_count"] = n] \in OperatorState
                            /\ [o EXCEPT !["m_count"] = n].name = o.name
         /\ \A v \in Nat : /\ [o EXCEPT !["m_result"] = <<v>>] \in OperatorState
                           /\ [o EXCEPT !["m_result"] = <<v>>].name = o.name
         /\ \A b \in BranchState : /\ [o EXCEPT !["branch"] = b] \in OperatorState
                                   /\ [o EXCEPT !["branch"] = b].name = o.name
<1>1. \A v \in Nat : <<v>> \in Seq(Nat) /\ Len(<<v>>) = 1 /\ <<v>> # <<>>
  OBVIOUS
<1>2. o \in Members /\ Len(o.m_result) <= 1 /\ (o.name = "reduce" => o.m_result # <<>>)
  BY DEF OperatorState
<1>3. ASSUME NEW b \in BOOLEAN
      PROVE  /\ [o EXCEPT !["m_flag"] = b] \in OperatorState
             /\ [o EXCEPT !["m_flag"] = b].name = o.name
  BY <1>2 DEF OperatorState, Members
<1>4. ASSUME NEW b \in BOOLEAN
      PROVE  /\ [o EXCEPT !["held"] = b] \in OperatorState
             /\ [o EXCEPT !["held"] = b].name = o.name
  BY <1>2 DEF OperatorState, Members
<1>5. ASSUME NEW n \in Size
      PROVE  /\ [o EXCEPT !["m_count"] = n] \in OperatorState
             /\ [o EXCEPT !["m_count"] = n].name = o.name
  BY <1>2 DEF OperatorState, Members
<1>6. ASSUME NEW v \in Nat
      PROVE  /\ [o EXCEPT !["m_result"] = <<v>>] \in OperatorState
             /\ [o EXCEPT !["m_result"] = <<v>>].name = o.name
  <2> DEFINE r == <<v>>
  <2>1. r \in Seq(Nat) /\ Len(r) <= 1 /\ r # <<>>
    BY <1>1
  <2> HIDE DEF r
  <2>2. /\ [o EXCEPT !["m_result"] = r] \in OperatorState
        /\ [o EXCEPT !["m_result"] = r].name = o.name
    BY <1>2, <2>1 DEF OperatorState, Members
  <2> QED BY <2>2 DEF r
<1>7. ASSUME NEW b \in BranchState
      PROVE  /\ [o EXCEPT !["branch"] = b] \in OperatorState
             /\ [o EXCEPT !["branch"] = b].name = o.name
  BY <1>2 DEF OperatorState, Members
<1> QED BY <1>3, <1>4, <1>5, <1>6, <1>7

(* The three kinds of handlers.                                            *)
LEMMA AnswersHandled ==
  ASSUME CallsTypeOK, OperatorsOK, NEW t \in Threads, agenda[t] # <<>>, NEW i \in Stages,
         NEW calls \in Seq(PipelineCalls), NEW sig, Answers(t, i, sig, calls)
  PROVE  Handled(i)
<1>1. CallsTypeOK'
  BY MakesIsTyped DEF Answers
<1>2. own' = [own EXCEPT ![i] = own[i]] /\ link' = [link EXCEPT ![i] = link[i]]
      /\ own[i] \in OperatorState /\ link[i] \in LinkState
  BY DEF Answers, stageVars, OperatorsOK
<1> QED BY <1>1, <1>2 DEF Handled

LEMMA NotesHandled ==
  ASSUME CallsTypeOK, OperatorsOK, NEW t \in Threads, agenda[t] # <<>>, NEW i \in Stages,
         NEW calls \in Seq(PipelineCalls), NEW sig, NEW field, NEW x,
         [own[i] EXCEPT ![field] = x] \in OperatorState,
         [own[i] EXCEPT ![field] = x].name = own[i].name,
         Notes(t, i, sig, field, x, calls)
  PROVE  Handled(i)
<1>1. CallsTypeOK'
  BY MakesIsTyped DEF Notes
<1>2. own' = [own EXCEPT ![i] = [own[i] EXCEPT ![field] = x]]
      /\ link' = [link EXCEPT ![i] = link[i]] /\ link[i] \in LinkState
  BY DEF Notes, Keep, OperatorsOK
<1> QED BY <1>1, <1>2 DEF Handled

LEMMA HandsHandled ==
  ASSUME CallsTypeOK, OperatorsOK, NEW t \in Threads, agenda[t] # <<>>, NEW i \in Stages,
         NEW c \in PipelineCalls, NEW sig, NEW when \in {"now", "delayed", "point"},
         Hands(t, i, sig, when, c)
  PROVE  Handled(i)
<1>1. CallsTypeOK'
  BY SchedulesIsTyped DEF Hands
<1>2. own' = [own EXCEPT ![i] = own[i]] /\ link' = [link EXCEPT ![i] = link[i]]
      /\ own[i] \in OperatorState /\ link[i] \in LinkState
  BY DEF Hands, stageVars, OperatorsOK
<1> QED BY <1>1, <1>2 DEF Handled

---------------------------------------------------------------------------
(* What the operators have in common.                                      *)
LEMMA SubscriptionHandled ==
  ASSUME CallsTypeOK, OperatorsOK, NEW t \in Threads, agenda[t] # <<>>, NEW i \in Stages,
         SubscriptionStep(t, i)
  PROVE  Handled(i)
<1>1. /\ Arg(t) \in Nat /\ own[i] \in OperatorState /\ link[i] \in LinkState
      /\ own = [own EXCEPT ![i] = own[i]] /\ link = [link EXCEPT ![i] = link[i]]
  BY HeadIsTyped DEF OperatorsOK
<1>2. \A n \in Nat : Request(i - 1, n) \in PipelineCalls /\ Cancel(i - 1) \in PipelineCalls
  BY StageCalls
<1>3. /\ <<>> \in Seq(PipelineCalls) /\ <<Cancel(i - 1)>> \in Seq(PipelineCalls)
      /\ \A n \in Nat : <<Request(i - 1, n)>> \in Seq(PipelineCalls)
  <2>1. 0 \in Nat
    OBVIOUS
  <2> QED BY <1>2, <2>1
<1>4. ASSUME NEW calls \in Seq(PipelineCalls), Makes(t, calls), own' = own,
             NEW l \in LinkState, link' = [link EXCEPT ![i] = l]
      PROVE  Handled(i)
  <2>1. CallsTypeOK'
    BY <1>4, MakesIsTyped
  <2> QED BY <1>1, <1>4, <2>1 DEF Handled
<1>5. CASE ForwardRequest(t, i)
  BY <1>1, <1>3, <1>4, <1>5 DEF ForwardRequest, stageVars
<1>6. CASE ForwardCancel(t, i)
  <2>1. [link[i] EXCEPT !.held = FALSE] \in LinkState
    BY <1>1 DEF LinkState
  <2>2. link' = [link EXCEPT ![i] = [link[i] EXCEPT !.held = FALSE]]
    BY <1>6 DEF ForwardCancel
  <2> QED BY <1>3, <1>4, <1>6, <2>1, <2>2 DEF ForwardCancel
<1>7. CASE FilterRequest(t, i)
  <2> DEFINE l == [link[i] EXCEPT !.m_requested = Plus(@, Arg(t)), !.m_waiting = Plus(@, Arg(t))]
  <2>1. l \in LinkState
    <3>1. Plus(link[i].m_requested, Arg(t)) \in Size /\ Plus(link[i].m_waiting, Arg(t)) \in Size
      BY <1>1, SizesAreTyped DEF LinkState
    <3> QED BY <1>1, <3>1 DEF LinkState
  <2>2. link' = [link EXCEPT ![i] = l]
    BY <1>7 DEF FilterRequest, OperatorsOK
  <2> QED BY <1>1, <1>3, <1>4, <1>7, <2>1, <2>2 DEF FilterRequest
<1>8. CASE FilterCancel(t, i)
  BY <1>1, <1>3, <1>4, <1>8 DEF FilterCancel, stageVars
<1>9. CASE FilterOnNext(t, i)
  <2>1. CASE ~own[i].held
    BY <1>1, <1>3, <1>4, <1>9, <2>1 DEF FilterOnNext
  <2>2. CASE own[i].held
    <3> DEFINE waiting   == Decrement(link[i].m_waiting)
               requested == IF Arg(t) = 1 THEN link[i].m_requested
                            ELSE Decrement(link[i].m_requested)
               refill    == waiting = 0 /\ requested # 0
               l         == [link[i] EXCEPT !.m_requested = requested,
                                            !.m_waiting = IF refill THEN requested ELSE waiting]
               calls     == IF refill THEN <<Request(i - 1, requested)>> ELSE <<>>
    <3>1. waiting \in Size /\ requested \in Size /\ requested \in Nat
      BY <1>1, SizesAreTyped DEF LinkState
    <3>2. link' = [link EXCEPT ![i] = l] /\ Makes(t, calls) /\ own' = own
      BY <1>9, <2>2 DEF FilterOnNext, OperatorsOK
    <3> HIDE DEF waiting, requested
    <3>3. l \in LinkState
      BY <1>1, <3>1 DEF LinkState
    <3>4. calls \in Seq(PipelineCalls)
      BY <1>3, <3>1
    <3> HIDE DEF l, calls
    <3> QED BY <1>4, <3>2, <3>3, <3>4
  <2> QED BY <2>1, <2>2
<1> QED BY <1>5, <1>6, <1>7, <1>8, <1>9 DEF SubscriptionStep

LEMMA ReleasesTyped ==
  ASSUME NEW i \in Stages
  PROVE  /\ Releases(i) \in Seq(PipelineCalls) /\ CancelsOwn(i) \in Seq(PipelineCalls)
         /\ <<>> \in Seq(PipelineCalls)
         /\ <<Completion(i)>> \o Releases(i) \in Seq(PipelineCalls)
         /\ <<Failure(i)>> \o Releases(i) \in Seq(PipelineCalls)
<1>1. Call(i, "release", 0) \in PipelineCalls /\ Cancel(i) \in PipelineCalls
      /\ Completion(i) \in PipelineCalls /\ Failure(i) \in PipelineCalls
  <2>1. 0 \in Nat
    OBVIOUS
  <2> QED BY <2>1, StageCalls
<1>2. Releases(i) \in Seq(PipelineCalls) /\ CancelsOwn(i) \in Seq(PipelineCalls)
  BY <1>1 DEF Releases, CancelsOwn
<1>3. <<Completion(i)>> \in Seq(PipelineCalls) /\ <<Failure(i)>> \in Seq(PipelineCalls)
      /\ <<>> \in Seq(PipelineCalls)
  BY <1>1
<1> QED BY <1>2, <1>3, ConcatProperties

LEMMA CommonHandled ==
  ASSUME CallsTypeOK, OperatorsOK, NEW t \in Threads, agenda[t] # <<>>, NEW i \in Stages,
         \/ Subscribe(t, i) \/ Release(t, i) \/ Fails(t, i) \/ Completes(t, i)
         \/ Forwards(t, i) \/ Ignores(t, i)
         \/ \E keeps \in BOOLEAN : OnSubscribe(t, i, keeps)
         \/ \E values \in Seq(Nat) : EndsWith(t, i, values)
  PROVE  Handled(i)
<1>0. Arg(t) \in Nat /\ 0 \in Nat
  BY HeadIsTyped
<1>1. Value(i, Arg(t)) \in PipelineCalls /\ Call(i - 1, "subscribe", 0) \in PipelineCalls
      /\ Subscription(i) \in PipelineCalls
  BY <1>0, StageCalls
<1>2. <<Value(i, Arg(t))>> \in Seq(PipelineCalls) /\ <<Call(i - 1, "subscribe", 0)>> \in Seq(PipelineCalls)
      /\ <<Subscription(i)>> \in Seq(PipelineCalls) /\ <<>> \in Seq(PipelineCalls)
  BY <1>1
<1>3. own[i] \in OperatorState
  BY DEF OperatorsOK
<1>4. CASE Subscribe(t, i) \/ Fails(t, i) \/ Forwards(t, i) \/ Ignores(t, i)
  <2>1. Subscribe(t, i) => Answers(t, i, "subscribe", <<Call(i - 1, "subscribe", 0)>>)
    BY DEF Subscribe, Answers
  <2> QED BY <1>2, <1>4, <2>1, ReleasesTyped, AnswersHandled DEF Fails, Forwards, Ignores
<1>5. CASE Release(t, i)
  <2>1. Notes(t, i, "release", "held", FALSE, <<>>)
    BY <1>5 DEF Release, Notes
  <2> QED BY <1>2, <1>3, <2>1, MemberChanges, NotesHandled
<1>6. ASSUME NEW keeps \in BOOLEAN, OnSubscribe(t, i, keeps)
      PROVE  Handled(i)
  <2>1. CallsTypeOK'
    BY <1>2, <1>6, MakesIsTyped DEF OnSubscribe
  <2>2. [held |-> TRUE, m_requested |-> 0, m_waiting |-> 0] \in LinkState
    BY SizesAreTyped DEF LinkState
  <2>3. [own[i] EXCEPT !["held"] = keeps] \in OperatorState
        /\ [own[i] EXCEPT !["held"] = keeps].name = own[i].name
    BY <1>3, MemberChanges
  <2>4. own' = [own EXCEPT ![i] = [own[i] EXCEPT !["held"] = keeps]]
        /\ link' = [link EXCEPT ![i] = [held |-> TRUE, m_requested |-> 0, m_waiting |-> 0]]
    BY <1>6 DEF OnSubscribe, Keep
  <2> QED BY <2>1, <2>2, <2>3, <2>4 DEF Handled
<1>7. ASSUME NEW values \in Seq(Nat), EndsWith(t, i, values)
      PROVE  Handled(i)
  <2> DEFINE given == [k \in DOMAIN values |-> Value(i, values[k])]
  <2>1. given \in Seq(PipelineCalls)
    <3>1. \A k \in 1 .. Len(values) : Value(i, values[k]) \in PipelineCalls
      BY ElementOfSeq, StageCalls
    <3>2. given = [k \in 1 .. Len(values) |-> Value(i, values[k])] /\ Len(values) \in Nat
      BY LenProperties
    <3> HIDE DEF given
    <3> QED BY <3>1, <3>2, IsASeq
  <2>2. Answers(t, i, "onComplete", given \o <<Completion(i)>> \o Releases(i))
    BY <1>7 DEF EndsWith
  <2> HIDE DEF given
  <2>3. given \o <<Completion(i)>> \o Releases(i) \in Seq(PipelineCalls)
    <3>1. <<Completion(i)>> \in Seq(PipelineCalls)
      BY <1>0, StageCalls
    <3> QED BY <2>1, <3>1, ReleasesTyped, ConcatProperties
  <2> QED BY <2>2, <2>3, AnswersHandled
<1>8. Completes(t, i) => \E values \in Seq(Nat) : EndsWith(t, i, values)
  BY EmptySeq DEF Completes
<1> QED BY <1>4, <1>5, <1>6, <1>7, <1>8

---------------------------------------------------------------------------
(* The operators.                                                          *)
LEMMA RelaysHandled ==
  ASSUME CallsTypeOK, OperatorsOK, NEW t \in Threads, agenda[t] # <<>>, NEW i \in Stages,
         Relays(t, i) \/ Keeps(t, i)
  PROVE  Handled(i)
BY CommonHandled DEF Relays, Keeps

(* allOf, anyOf, noneOf, first, elementAt.                                 *)
LEMMA DecidingHandled ==
  ASSUME CallsTypeOK, OperatorsOK, NEW t \in Threads, agenda[t] # <<>>, NEW i \in Stages,
         AllOf(t, i) \/ AnyOf(t, i) \/ NoneOf(t, i) \/ FirstElement(t, i) \/ ElementAt(t, i)
  PROVE  Handled(i)
<1>1. /\ Arg(t) \in Nat /\ own[i] \in OperatorState /\ own[i].m_result \in Seq(Nat)
      /\ own[i].m_count \in Nat /\ link[i] \in LinkState
  BY HeadIsTyped, SizesAreTyped DEF OperatorsOK, OperatorState, Members
<1>2. ASSUME NEW decides, Judges(t, i, decides)
      PROVE  Handled(i)
  <2>1. CASE Ignores(t, i)
    BY <2>1, CommonHandled
  <2>2. CASE Notes(t, i, "onNext", "m_flag", TRUE, CancelsOwn(i))
    BY <1>1, <2>2, MemberChanges, ReleasesTyped, NotesHandled
  <2> QED BY <1>2, <2>1, <2>2 DEF Judges
<1>3. ASSUME NEW b, EndsWith(t, i, <<Bool(b)>>)
      PROVE  Handled(i)
  <2>1. <<Bool(b)>> \in Seq(Nat)
    <3>1. Bool(b) \in Nat
      BY DEF Bool
    <3> QED BY <3>1
  <2> QED BY <1>3, <2>1, CommonHandled
<1>4. CASE AllOf(t, i) \/ AnyOf(t, i) \/ NoneOf(t, i)
  BY <1>2, <1>3, <1>4, RelaysHandled DEF AllOf, AnyOf, NoneOf
<1>5. CASE FirstElement(t, i)
  <2>1. CASE Notes(t, i, "onNext", "m_result", <<Arg(t)>>, CancelsOwn(i))
    BY <1>1, <2>1, MemberChanges, ReleasesTyped, NotesHandled
  <2> QED BY <1>1, <1>5, <2>1, RelaysHandled, CommonHandled DEF FirstElement
<1>6. CASE ElementAt(t, i)
  <2>1. ASSUME On(t, i, "onNext"),
               own' = [own EXCEPT ![i].m_count = Decrement(@),
                                  ![i].m_result = IF own[i].m_count = 0 THEN <<Arg(t)>> ELSE @],
               Makes(t, IF own[i].m_count = 0 THEN CancelsOwn(i) ELSE <<>>), UNCHANGED link
        PROVE  Handled(i)
    <3>1. CallsTypeOK'
      BY <2>1, ReleasesTyped, MakesIsTyped
    <3> DEFINE o == [own[i] EXCEPT !["m_count"] = Decrement(own[i].m_count)]
    <3>2. o \in OperatorState /\ o.name = own[i].name
      BY <1>1, SizesAreTyped, MemberChanges
    <3>3. CASE own[i].m_count = 0
      <4>1. own' = [own EXCEPT ![i] = [o EXCEPT !["m_result"] = <<Arg(t)>>]]
        BY <2>1, <3>3 DEF OperatorsOK
      <4> HIDE DEF o
      <4>2. [o EXCEPT !["m_result"] = <<Arg(t)>>] \in OperatorState
            /\ [o EXCEPT !["m_result"] = <<Arg(t)>>].name = own[i].name
        BY <1>1, <3>2, MemberChanges
      <4>3. link' = [link EXCEPT ![i] = link[i]]
        BY <2>1 DEF OperatorsOK
      <4> QED BY <1>1, <3>1, <4>1, <4>2, <4>3 DEF Handled
    <3>4. CASE own[i].m_count # 0
      <4>1. own' = [own EXCEPT ![i] = o]
        BY <1>1, <2>1, <3>4 DEF OperatorsOK, OperatorState, Members
      <4> HIDE DEF o
      <4>3. link' = [link EXCEPT ![i] = link[i]]
        BY <2>1 DEF OperatorsOK
      <4> QED BY <1>1, <3>1, <3>2, <4>1, <4>3 DEF Handled
    <3> QED BY <3>3, <3>4
  <2> QED BY <1>1, <1>6, <2>1, RelaysHandled, CommonHandled DEF ElementAt
<1> QED BY <1>4, <1>5, <1>6

(* last, max, min, count, reduce.                                          *)
LEMMA FoldingHandled ==
  ASSUME ClosuresTypeOK, CallsTypeOK, OperatorsOK,
         NEW t \in Threads, agenda[t] # <<>>, NEW i \in Stages,
         LastElement(t, i) \/ Maximum(t, i) \/ Minimum(t, i) \/ Count(t, i) \/ Reduce(t, i)
  PROVE  Handled(i)
<1>1. /\ Arg(t) \in Nat /\ own[i] \in OperatorState /\ own[i].m_result \in Seq(Nat)
      /\ own[i].m_count \in Size /\ own[i].m_count \in Nat /\ <<>> \in Seq(PipelineCalls)
  BY HeadIsTyped, SizesAreTyped, ReleasesTyped DEF OperatorsOK, OperatorState, Members
<1>2. ASSUME NEW v \in Nat, Notes(t, i, "onNext", "m_result", <<v>>, <<>>)
      PROVE  Handled(i)
  BY <1>1, <1>2, MemberChanges, NotesHandled
<1>3. ASSUME NEW isBetter, Better(t, i, isBetter)
      PROVE  Handled(i)
  <2>1. CASE Notes(t, i, "onNext", "m_result", <<Arg(t)>>, <<>>)
    BY <1>1, <1>2, <2>1
  <2>2. CASE Notes(t, i, "onNext", "m_result", own[i].m_result, <<>>)
    <3>1. [own[i] EXCEPT !["m_result"] = own[i].m_result] = own[i]
      BY <1>1 DEF OperatorState, Members
    <3> QED BY <1>1, <2>2, <3>1, NotesHandled
  <2> QED BY <1>3, <2>1, <2>2 DEF Better
<1>4. OrZero(own[i].m_result) \in Seq(Nat)
  <2>1. <<0>> \in Seq(Nat)
    OBVIOUS
  <2> QED BY <1>1, <2>1 DEF OrZero
<1>5. CASE LastElement(t, i)
  BY <1>1, <1>2, <1>5, RelaysHandled, CommonHandled DEF LastElement
<1>6. CASE Maximum(t, i)
  BY <1>3, <1>4, <1>6, RelaysHandled, CommonHandled DEF Maximum
<1>7. CASE Minimum(t, i)
  BY <1>3, <1>4, <1>7, RelaysHandled, CommonHandled DEF Minimum
<1>8. CASE Count(t, i)
  <2> DEFINE n == Plus(own[i].m_count, 1)
  <2>1. n \in Size /\ <<own[i].m_count>> \in Seq(Nat)
    <3>1. 1 \in Nat
      OBVIOUS
    <3>2. n \in Size
      BY <1>1, <3>1, SizesAreTyped
    <3> HIDE DEF n
    <3> QED BY <1>1, <3>2
  <2>2. ASSUME Notes(t, i, "onNext", "m_count", n, <<>>)
        PROVE  Handled(i)
    <3> HIDE DEF n
    <3> QED BY <1>1, <2>1, <2>2, MemberChanges, NotesHandled
  <2> QED BY <1>8, <2>1, <2>2, RelaysHandled, CommonHandled DEF Count
<1>9. CASE Reduce(t, i)
  <2>1. own[i].m_result # <<>>
    BY <1>1, <1>9 DEF Reduce, Does, OperatorState
  <2>2. Operation(own[i].m_result[1], Arg(t)) \in Nat
    <3>1. own[i].m_result[1] \in Nat
      BY <1>1, <2>1
    <3> QED BY <1>1, <3>1 DEF ClosuresTypeOK
  <2> DEFINE v == Operation(own[i].m_result[1], Arg(t))
  <2>3. ASSUME Notes(t, i, "onNext", "m_result", <<v>>, <<>>)
        PROVE  Handled(i)
    <3>1. v \in Nat
      BY <2>2
    <3> HIDE DEF v
    <3> QED BY <1>2, <2>3, <3>1
  <2> QED BY <1>1, <1>9, <2>3, RelaysHandled, CommonHandled DEF Reduce
<1> QED BY <1>5, <1>6, <1>7, <1>8, <1>9

(* map, tap, defaultIfEmpty, filter, take, takeWhile.                      *)
LEMMA HandingHandled ==
  ASSUME ClosuresTypeOK, CallsTypeOK, OperatorsOK,
         NEW t \in Threads, agenda[t] # <<>>, NEW i \in Stages,
         \/ Map(t, i) \/ Tap(t, i) \/ DefaultIfEmpty(t, i)
         \/ Filter(t, i) \/ Take(t, i) \/ TakeWhile(t, i)
  PROVE  Handled(i)
<1>1. /\ Arg(t) \in Nat /\ own[i] \in OperatorState /\ own[i].m_count \in Size
      /\ own[i].m_count \in Nat
  BY HeadIsTyped, SizesAreTyped DEF OperatorsOK, OperatorState, Members
<1>2. /\ Value(i, Arg(t)) \in PipelineCalls /\ Value(i, Method(Arg(t))) \in PipelineCalls
      /\ Completion(i) \in PipelineCalls /\ Cancel(i) \in PipelineCalls
      /\ Filtered(i, TRUE) \in PipelineCalls /\ Filtered(i, FALSE) \in PipelineCalls
      /\ Call(i, "tested", 0) \in PipelineCalls
  <2>1. Method(Arg(t)) \in Nat
    BY <1>1 DEF ClosuresTypeOK
  <2> QED BY <1>1, <2>1, StageCalls
<1>3. ASSUME NEW sig, Stops(t, i, sig)
      PROVE  Handled(i)
  <2> DEFINE first == IF own[i].held THEN <<Cancel(i)>> ELSE <<>>
  <2>1. first \in Seq(PipelineCalls) /\ <<Completion(i)>> \in Seq(PipelineCalls)
    BY <1>2
  <2>2. Answers(t, i, sig, first \o <<Completion(i)>> \o Releases(i))
    BY <1>3 DEF Stops
  <2> HIDE DEF first
  <2>3. first \o <<Completion(i)>> \o Releases(i) \in Seq(PipelineCalls)
    BY <2>1, ReleasesTyped, ConcatProperties
  <2> QED BY <2>2, <2>3, AnswersHandled
<1>4. CASE Map(t, i)
  <2>1. <<Value(i, Method(Arg(t)))>> \in Seq(PipelineCalls)
    BY <1>2
  <2> QED BY <1>4, <2>1, RelaysHandled, CommonHandled, AnswersHandled DEF Map
<1>5. CASE Tap(t, i)
  BY <1>5, RelaysHandled, CommonHandled DEF Tap
<1>6. CASE DefaultIfEmpty(t, i)
  <2>1. <<Value(i, Arg(t))>> \in Seq(PipelineCalls)
    BY <1>2
  <2>2. (IF own[i].m_flag THEN <<>> ELSE <<DefaultValue>>) \in Seq(Nat)
    <3>1. <<DefaultValue>> \in Seq(Nat) /\ <<>> \in Seq(Nat)
      BY OperatorsAssumption
    <3> QED BY <3>1
  <2>3. CASE Notes(t, i, "onNext", "m_flag", TRUE, <<Value(i, Arg(t))>>)
    BY <1>1, <2>1, <2>3, MemberChanges, NotesHandled
  <2> QED BY <1>6, <2>2, <2>3, RelaysHandled, CommonHandled DEF DefaultIfEmpty
<1>7. CASE Filter(t, i)
  <2> DEFINE calls == IF Predicate(Arg(t)) THEN <<Value(i, Arg(t)), Filtered(i, FALSE)>>
                      ELSE <<Filtered(i, TRUE)>>
  <2>1. calls \in Seq(PipelineCalls)
    <3>1. /\ <<Value(i, Arg(t)), Filtered(i, FALSE)>> \in Seq(PipelineCalls)
          /\ <<Filtered(i, TRUE)>> \in Seq(PipelineCalls)
      BY <1>2, ShortSequences
    <3> QED BY <3>1
  <2>2. Keeps(t, i) \/ Completes(t, i) \/ Answers(t, i, "onNext", calls)
    BY <1>7 DEF Filter
  <2> HIDE DEF calls
  <2> QED BY <2>1, <2>2, RelaysHandled, CommonHandled, AnswersHandled
<1>8. CASE Take(t, i)
  <2> DEFINE calls == <<Value(i, Arg(t)), Filtered(i, FALSE), Call(i, "tested", 0)>>
  <2>1. calls \in Seq(PipelineCalls) /\ <<>> \in Seq(PipelineCalls)
    BY <1>2, ShortSequences, EmptySeq
  <2> DEFINE left == own[i].m_count - 1
  <2>2. ASSUME own[i].m_count > 0, Notes(t, i, "onNext", "m_count", left, calls)
        PROVE  Handled(i)
    <3>1. left \in Size
      BY <1>1, <2>2, SizeAssumption DEF Size
    <3> HIDE DEF calls, left
    <3> QED BY <1>1, <2>1, <2>2, <3>1, MemberChanges, NotesHandled
  <2>3. \/ Keeps(t, i) \/ Completes(t, i) \/ Ignores(t, i)
        \/ own[i].m_count > 0 /\ Notes(t, i, "onNext", "m_count", left, calls)
        \/ Answers(t, i, "tested", <<>>) \/ Stops(t, i, "tested")
    BY <1>8 DEF Take
  <2> HIDE DEF calls, left
  <2> QED BY <1>3, <2>1, <2>2, <2>3, RelaysHandled, CommonHandled, AnswersHandled
<1>9. CASE TakeWhile(t, i)
  <2> DEFINE calls == IF Predicate(Arg(t)) THEN <<Value(i, Arg(t)), Filtered(i, FALSE)>>
                      ELSE <<Filtered(i, TRUE), Call(i, "tested", 0)>>
  <2>1. calls \in Seq(PipelineCalls)
    <3>1. /\ <<Value(i, Arg(t)), Filtered(i, FALSE)>> \in Seq(PipelineCalls)
          /\ <<Filtered(i, TRUE), Call(i, "tested", 0)>> \in Seq(PipelineCalls)
      BY <1>2, ShortSequences
    <3> QED BY <3>1
  <2>2. \/ Keeps(t, i) \/ Completes(t, i) \/ Stops(t, i, "tested")
        \/ Answers(t, i, "onNext", calls)
    BY <1>9 DEF TakeWhile
  <2> HIDE DEF calls
  <2> QED BY <1>3, <2>1, <2>2, RelaysHandled, CommonHandled, AnswersHandled
<1> QED BY <1>4, <1>5, <1>6, <1>7, <1>8, <1>9

(* observeOn, subscribeOn, delay.                                          *)
LEMMA SchedulingHandled ==
  ASSUME CallsTypeOK, OperatorsOK, NEW t \in Threads, agenda[t] # <<>>, NEW i \in Stages,
         ObserveOn(t, i) \/ SubscribeOn(t, i) \/ Delay(t, i)
  PROVE  Handled(i)
<1>1. Arg(t) \in Nat /\ 0 \in Nat
  BY HeadIsTyped
<1>2. /\ Value(i, Arg(t)) \in PipelineCalls /\ Failure(i) \in PipelineCalls
      /\ Completion(i) \in PipelineCalls /\ Call(i - 1, "subscribe", 0) \in PipelineCalls
  BY <1>1, StageCalls
<1>3. CASE ObserveOn(t, i)
  BY <1>2, <1>3, CommonHandled, HandsHandled DEF ObserveOn
<1>4. CASE SubscribeOn(t, i)
  BY <1>2, <1>4, CommonHandled, HandsHandled DEF SubscribeOn
<1>5. CASE Delay(t, i)
  <2>1. (IF own[i].m_flag THEN "delayed" ELSE "now") \in {"now", "delayed", "point"}
    OBVIOUS
  <2> QED BY <1>2, <1>5, <2>1, CommonHandled, HandsHandled DEF Delay
<1> QED BY <1>3, <1>4, <1>5

(* ignoreElements, and andThen while its source runs.                      *)
LEMMA DrainsHandled ==
  ASSUME CallsTypeOK, OperatorsOK, NEW t \in Threads, agenda[t] # <<>>, NEW i \in Stages,
         Drains(t, i) \/ IgnoreElements(t, i)
  PROVE  Handled(i)
<1>1. /\ own[i] \in OperatorState /\ link[i] \in LinkState /\ own[i].m_count \in Nat
      /\ SizeMax \in Size /\ SizeMax \in Nat
  BY SizesAreTyped DEF OperatorsOK, OperatorState, Members
<1>2. <<Request(i - 1, SizeMax)>> \in Seq(PipelineCalls) /\ <<>> \in Seq(PipelineCalls)
  <2>1. Request(i - 1, SizeMax) \in PipelineCalls
    BY <1>1, StageCalls
  <2> QED BY <2>1, ShortSequences, EmptySeq
<1>3. ASSUME own' = [own EXCEPT ![i].held = TRUE, ![i].m_count = SizeMax],
             Makes(t, <<Request(i - 1, SizeMax)>>), UNCHANGED link
      PROVE  Handled(i)
  <2> DEFINE o == [own[i] EXCEPT !["held"] = TRUE]
  <2>1. o \in OperatorState /\ o.name = own[i].name
    BY <1>1, MemberChanges
  <2>2. own' = [own EXCEPT ![i] = [o EXCEPT !["m_count"] = SizeMax]]
    BY <1>3 DEF OperatorsOK
  <2> HIDE DEF o
  <2>3. [o EXCEPT !["m_count"] = SizeMax] \in OperatorState
        /\ [o EXCEPT !["m_count"] = SizeMax].name = own[i].name
    BY <1>1, <2>1, MemberChanges
  <2>4. link' = [link EXCEPT ![i] = link[i]]
    BY <1>3 DEF OperatorsOK
  <2>5. CallsTypeOK'
    BY <1>2, <1>3, MakesIsTyped
  <2> QED BY <1>1, <2>2, <2>3, <2>4, <2>5 DEF Handled
<1>4. ASSUME NEW n \in Size, NEW calls \in Seq(PipelineCalls),
             Notes(t, i, "onNext", "m_count", n, calls)
      PROVE  Handled(i)
  BY <1>1, <1>4, MemberChanges, NotesHandled
<1>5. CASE Drains(t, i)
  <2> DEFINE left  == Decrement(own[i].m_count)
             calls == IF own[i].held THEN <<Request(i - 1, SizeMax)>> ELSE <<>>
  <2>1. left \in Size /\ calls \in Seq(PipelineCalls)
    BY <1>1, <1>2, SizesAreTyped
  <2>2. \/ Subscribe(t, i) \/ Fails(t, i) \/ Release(t, i)
        \/ /\ own' = [own EXCEPT ![i].held = TRUE, ![i].m_count = SizeMax]
           /\ Makes(t, <<Request(i - 1, SizeMax)>>)
           /\ UNCHANGED link
        \/ Notes(t, i, "onNext", "m_count", SizeMax, calls)
        \/ Notes(t, i, "onNext", "m_count", left, <<>>)
    BY <1>5 DEF Drains
  <2> HIDE DEF left, calls
  <2> QED BY <1>1, <1>2, <1>3, <1>4, <2>1, <2>2, CommonHandled
<1>6. CASE IgnoreElements(t, i)
  BY <1>5, <1>6, CommonHandled DEF IgnoreElements
<1> QED BY <1>5, <1>6

LEMMA CallsOfSequence ==
  ASSUME NEW n \in Nat, NEW f, f = [k \in 1 .. n |-> f[k]],
         \A k \in 1 .. n : f[k] \in PipelineCalls, NEW c \in PipelineCalls
  PROVE  f \o <<c>> \in Seq(PipelineCalls)
<1>1. f \in Seq(PipelineCalls)
  BY IsASeq
<1> QED BY <1>1, ShortSequences, ConcatProperties

LEMMA BranchIsHanded ==
  ASSUME NEW b \in BranchState
  PROVE  [Branch(b.elements, b.end, b.later) EXCEPT !.handed = TRUE] \in BranchState
<1>1. b.elements \in Seq(Nat) /\ b.end \in {"onComplete", "onError"} /\ b.later \in BOOLEAN
  BY DEF BranchState
<1>2. Branch(b.elements, b.end, b.later) \in BranchState
  BY <1>1 DEF Branch, BranchState
<1>3. \A c \in BranchState : [c EXCEPT !["handed"] = TRUE] \in BranchState
  BY DEF BranchState
<1> QED BY <1>2, <1>3

(* The other publisher of andThen and of switchOnError.                    *)
LEMMA BranchHandled ==
  ASSUME CallsTypeOK, OperatorsOK, NEW t \in Threads, agenda[t] # <<>>, NEW i \in Stages,
         BranchStep(t, i)
  PROVE  Handled(i)
<1> DEFINE b == own[i].branch
<1>1. /\ own[i] \in OperatorState /\ link[i] \in LinkState /\ b \in BranchState
      /\ Arg(t) \in Nat /\ own = [own EXCEPT ![i] = own[i]]
  BY HeadIsTyped DEF OperatorsOK, OperatorState, Members
<1>2. \A sig \in {"onSubscribe", "onNext", "onComplete", "onError"}, n \in Nat :
        ToBranch(i, sig, n) \in PipelineCalls
  BY StageCalls
<1>3. 0 \in Nat /\ \A k \in 1 .. Len(b.elements) : b.elements[k] \in Nat
  <2>1. b.elements \in Seq(Nat)
    BY <1>1 DEF BranchState
  <2> QED BY <2>1, ElementOfSeq
<1>4. ASSUME NEW calls \in Seq(PipelineCalls), Makes(t, calls), UNCHANGED link,
             NEW c \in BranchState, own' = [own EXCEPT ![i]["branch"] = c]
      PROVE  Handled(i)
  <2>1. [own[i] EXCEPT !["branch"] = c] \in OperatorState
        /\ [own[i] EXCEPT !["branch"] = c].name = own[i].name
    BY <1>1, MemberChanges
  <2>2. own' = [own EXCEPT ![i] = [own[i] EXCEPT !["branch"] = c]]
        /\ link' = [link EXCEPT ![i] = link[i]]
    BY <1>4 DEF OperatorsOK
  <2>3. CallsTypeOK'
    BY <1>4, MakesIsTyped
  <2> QED BY <1>1, <2>1, <2>2, <2>3 DEF Handled
<1>5. CASE BranchSubscribed(t, i)
  <2>1. CASE b.end = "onError"
    <3> DEFINE f     == [k \in DOMAIN b.elements |-> ToBranch(i, "onNext", b.elements[k])]
               calls == f \o <<ToBranch(i, "onError", 0)>>
    <3>1. calls \in Seq(PipelineCalls)
      <4>1. b.elements \in Seq(Nat)
        BY <1>1 DEF BranchState
      <4>2. /\ Len(b.elements) \in Nat /\ f = [k \in 1 .. Len(b.elements) |-> f[k]]
            /\ \A k \in 1 .. Len(b.elements) : f[k] = ToBranch(i, "onNext", b.elements[k])
        BY <4>1, LenProperties
      <4>3. ToBranch(i, "onError", 0) \in PipelineCalls
        BY <1>2, <1>3
      <4> HIDE DEF b, f
      <4>4. \A k \in 1 .. Len(b.elements) : f[k] \in PipelineCalls
        BY <1>2, <1>3, <4>2
      <4> QED BY <4>2, <4>3, <4>4, CallsOfSequence
    <3>2. Makes(t, calls) /\ own' = own /\ UNCHANGED link
      BY <1>5, <2>1 DEF BranchSubscribed
    <3> HIDE DEF calls
    <3>3. CallsTypeOK'
      BY <3>1, <3>2, MakesIsTyped
    <3>4. link' = [link EXCEPT ![i] = link[i]] /\ own' = [own EXCEPT ![i] = own[i]]
      BY <1>1, <3>2 DEF OperatorsOK
    <3> QED BY <1>1, <3>3, <3>4 DEF Handled
  <2>2. CASE b.end # "onError"
    <3> DEFINE c == [Branch(b.elements, b.end, b.later) EXCEPT !.handed = TRUE]
    <3>1. c \in BranchState
      BY <1>1, BranchIsHanded
    <3>2. <<ToBranch(i, "onSubscribe", 0)>> \in Seq(PipelineCalls)
      BY <1>2, <1>3, ShortSequences
    <3>3. /\ Makes(t, <<ToBranch(i, "onSubscribe", 0)>>) /\ UNCHANGED link
          /\ own' = [own EXCEPT ![i]["branch"] = c]
      BY <1>5, <2>2 DEF BranchSubscribed, Keep
    <3> HIDE DEF c
    <3> QED BY <1>4, <3>1, <3>2, <3>3
  <2> QED BY <2>1, <2>2
<1>6. CASE BranchRequest(t, i)
  <2> DEFINE over  == Arg(t) = 0 \/ b.m_completed \/ b.m_canceled
             done  == b.m_current > Len(b.elements)
             calls == IF over THEN <<>>
                      ELSE IF done THEN <<ToBranch(i, "onComplete", 0)>>
                      ELSE <<ToBranch(i, "onNext", b.elements[b.m_current]), Request(i, Arg(t) - 1)>>
             c     == IF over THEN b
                      ELSE IF done THEN [b EXCEPT !.m_completed = TRUE]
                      ELSE [b EXCEPT !.m_current = @ + 1]
  <2>1. calls \in Seq(PipelineCalls)
    <3>1. CASE over
      BY <3>1, EmptySeq
    <3>2. CASE ~over /\ done
      BY <1>2, <1>3, <3>2, ShortSequences
    <3>3. CASE ~over /\ ~done
      <4>1. b.m_current \in 1 .. Len(b.elements) /\ Arg(t) - 1 \in Nat
        BY <1>1, <3>3, LenProperties DEF BranchState
      <4>2. ToBranch(i, "onNext", b.elements[b.m_current]) \in PipelineCalls
        BY <1>2, <1>3, <4>1
      <4>3. Request(i, Arg(t) - 1) \in PipelineCalls
        BY <4>1, StageCalls
      <4> QED BY <3>3, <4>2, <4>3, ShortSequences
    <3> QED BY <3>1, <3>2, <3>3
  <2>2. c \in BranchState
    <3>1. b.m_current + 1 \in Nat \ {0}
      BY <1>1 DEF BranchState
    <3> HIDE DEF over, done
    <3> QED BY <1>1, <3>1 DEF BranchState
  <2>3. Makes(t, calls) /\ UNCHANGED link /\ own' = [own EXCEPT ![i]["branch"] = c]
    BY <1>6 DEF BranchRequest, Keep
  <2> HIDE DEF calls, c
  <2> QED BY <1>4, <2>1, <2>2, <2>3
<1>7. CASE BranchCancel(t, i)
  <2> DEFINE c == [b EXCEPT !.m_canceled = TRUE]
  <2>1. c \in BranchState
    BY <1>1 DEF BranchState
  <2>2. <<>> \in Seq(PipelineCalls) /\ <<ToBranch(i, "onComplete", 0)>> \in Seq(PipelineCalls)
    BY <1>2, <1>3, ShortSequences, EmptySeq
  <2>3. PICK calls \in {<<>>, <<ToBranch(i, "onComplete", 0)>>} :
          Makes(t, calls) /\ UNCHANGED link /\ own' = [own EXCEPT ![i]["branch"] = c]
    BY <1>7 DEF BranchCancel, Keep
  <2> HIDE DEF c
  <2> QED BY <1>4, <2>1, <2>2, <2>3
<1> QED BY <1>5, <1>6, <1>7 DEF BranchStep

LEMMA BranchingHandled ==
  ASSUME ClosuresTypeOK, CallsTypeOK, OperatorsOK,
         NEW t \in Threads, agenda[t] # <<>>, NEW i \in Stages,
         FlatMap(t, i) \/ AndThen(t, i) \/ SwitchOnError(t, i)
  PROVE  Handled(i)
<1> DEFINE b == own[i].branch
<1>1. /\ own[i] \in OperatorState /\ link[i] \in LinkState /\ b \in BranchState
      /\ b.later \in BOOLEAN /\ b.elements \in Seq(Nat) /\ own[i].m_count \in Nat
      /\ Arg(t) \in Nat /\ 0 \in Nat /\ 1 \in Nat
      /\ own = [own EXCEPT ![i] = own[i]] /\ link = [link EXCEPT ![i] = link[i]]
  BY HeadIsTyped, SizesAreTyped DEF OperatorsOK, OperatorState, Members, BranchState
<1>2. /\ Value(i, Arg(t)) \in PipelineCalls /\ Failure(i) \in PipelineCalls
      /\ Completion(i) \in PipelineCalls /\ Call(i - 1, "subscribe", 0) \in PipelineCalls
      /\ Call(i, "subscribed", 0) \in PipelineCalls /\ Call(i, "branch", 0) \in PipelineCalls
      /\ Call(i, "inner", Arg(t)) \in PipelineCalls
      /\ \A n \in Nat : Call(i, "innerNext", n) \in PipelineCalls
      /\ Call(i, "innerError", 0) \in PipelineCalls /\ Call(i, "innerComplete", 0) \in PipelineCalls
  BY <1>1, StageCalls
<1>3. /\ <<Value(i, Arg(t))>> \in Seq(PipelineCalls) /\ <<Failure(i)>> \in Seq(PipelineCalls)
      /\ <<Completion(i)>> \in Seq(PipelineCalls) /\ <<>> \in Seq(PipelineCalls)
      /\ <<Call(i - 1, "subscribe", 0), Call(i, "subscribed", 0)>> \in Seq(PipelineCalls)
  BY <1>2, ShortSequences, EmptySeq
<1>4. ASSUME NEW c \in PipelineCalls, NEW more \in Seq(PipelineCalls),
             Starts(t, b.later, c, more), UNCHANGED pending
      PROVE  CallsTypeOK'
  <2> HIDE DEF b
  <2> QED BY <1>1, <1>4, StartsIsTyped
<1>5. CASE InnerEmits(t, i)
  <2> DEFINE values == InnerValues(own[i], Arg(t))
             f      == [k \in DOMAIN values |-> Call(i, Inner["onNext"], values[k])]
             last   == Call(i, Inner[InnerEnd(own[i], Arg(t))], 0)
  <2>1. last \in PipelineCalls
    <3>1. b.end \in {"onComplete", "onError"}
      BY <1>1 DEF BranchState
    <3> QED BY <1>2, <3>1 DEF InnerEnd, Inner
  <2>2. /\ Len(b.elements) \in Nat /\ DOMAIN values = 1 .. Len(b.elements)
        /\ \A k \in 1 .. Len(b.elements) : values[k] = Operation(Arg(t), b.elements[k])
    BY <1>1, LenProperties DEF InnerValues
  <2>3. \A k \in 1 .. Len(b.elements) : values[k] \in Nat
    <3>1. \A k \in 1 .. Len(b.elements) : b.elements[k] \in Nat
      BY <1>1, ElementOfSeq
    <3> QED BY <1>1, <2>2, <3>1 DEF ClosuresTypeOK
  <2> HIDE DEF values
  <2>4. /\ f = [k \in 1 .. Len(b.elements) |-> f[k]]
        /\ \A k \in 1 .. Len(b.elements) : f[k] = Call(i, "innerNext", values[k])
    BY <2>2 DEF Inner
  <2>5. Answers(t, i, "inner", f \o <<last>>)
    BY <1>5 DEF InnerEmits, values
  <2> HIDE DEF f, last
  <2>6. \A k \in 1 .. Len(b.elements) : f[k] \in PipelineCalls
    BY <1>2, <2>3, <2>4
  <2>7. f \o <<last>> \in Seq(PipelineCalls)
    BY <2>1, <2>2, <2>4, <2>6, CallsOfSequence
  <2> QED BY <2>5, <2>7, AnswersHandled
<1>6. CASE FlatMap(t, i)
  <2> DEFINE more == Plus(own[i].m_count, 1)
             left == Decrement(own[i].m_count)
             here == IF left = 0 /\ own[i].m_flag THEN <<Completion(i)>> ELSE <<>>
             last == IF own[i].m_count = 0 THEN <<Completion(i)>> ELSE <<>>
  <2>1. more \in Size /\ left \in Size
    BY <1>1, SizesAreTyped
  <2>2. here \in Seq(PipelineCalls) /\ last \in Seq(PipelineCalls)
    BY <1>3
  <2>3. \/ Relays(t, i) \/ InnerEmits(t, i)
        \/ /\ Keep(i, "m_count", more)
           /\ Starts(t, b.later, Call(i, "inner", Arg(t)), <<>>)
           /\ UNCHANGED <<pending, link>>
        \/ Answers(t, i, "innerNext", <<Value(i, Arg(t))>>)
        \/ Answers(t, i, "innerError", <<Failure(i)>>)
        \/ Notes(t, i, "innerComplete", "m_count", left, here)
        \/ Notes(t, i, "onComplete", "m_flag", TRUE, last)
    BY <1>6 DEF FlatMap
  <2> HIDE DEF more, left, here, last
  <2>4. ASSUME Keep(i, "m_count", more), Starts(t, b.later, Call(i, "inner", Arg(t)), <<>>),
               UNCHANGED <<pending, link>>
        PROVE  Handled(i)
    <3>1. CallsTypeOK'
      BY <1>2, <1>3, <1>4, <2>4
    <3>2. [own[i] EXCEPT !["m_count"] = more] \in OperatorState
          /\ [own[i] EXCEPT !["m_count"] = more].name = own[i].name
      BY <1>1, <2>1, MemberChanges
    <3>3. own' = [own EXCEPT ![i] = [own[i] EXCEPT !["m_count"] = more]]
          /\ link' = [link EXCEPT ![i] = link[i]]
      BY <1>1, <2>4 DEF Keep, OperatorsOK
    <3> QED BY <1>1, <3>1, <3>2, <3>3 DEF Handled
  <2>5. ASSUME Notes(t, i, "innerComplete", "m_count", left, here)
        PROVE  Handled(i)
    BY <1>1, <2>1, <2>2, <2>5, MemberChanges, NotesHandled
  <2>6. ASSUME Notes(t, i, "onComplete", "m_flag", TRUE, last)
        PROVE  Handled(i)
    BY <1>1, <2>2, <2>6, MemberChanges, NotesHandled
  <2> QED BY <1>3, <1>5, <2>3, <2>4, <2>5, <2>6, RelaysHandled, AnswersHandled
<1>7. CASE AndThen(t, i)
  <2>1. \/ Drains(t, i) \/ BranchStep(t, i)
        \/ Starts(t, b.later, Call(i, "branch", 0), Releases(i)) /\ UNCHANGED <<pending, stageVars>>
    BY <1>7 DEF AndThen
  <2>2. ASSUME Starts(t, b.later, Call(i, "branch", 0), Releases(i)),
               UNCHANGED <<pending, stageVars>>
        PROVE  Handled(i)
    <3>1. CallsTypeOK'
      BY <1>2, <1>4, <2>2, ReleasesTyped
    <3>2. own' = [own EXCEPT ![i] = own[i]] /\ link' = [link EXCEPT ![i] = link[i]]
      BY <1>1, <2>2 DEF stageVars
    <3> QED BY <1>1, <3>1, <3>2 DEF Handled
  <2> QED BY <2>1, <2>2, DrainsHandled, BranchHandled
<1>8. CASE SwitchOnError(t, i)
  <2>1. \/ Answers(t, i, "subscribe", <<Call(i - 1, "subscribe", 0), Call(i, "subscribed", 0)>>)
        \/ Notes(t, i, "subscribed", "m_flag", FALSE, <<>>)
        \/ OnSubscribe(t, i, FALSE) \/ Forwards(t, i) \/ Completes(t, i) \/ BranchStep(t, i)
        \/ Answers(t, i, "onError", <<Failure(i)>>)
        \/ /\ Keep(i, "m_flag", TRUE)
           /\ Starts(t, b.later, Call(i, "branch", 0), <<>>)
           /\ UNCHANGED <<pending, link>>
    BY <1>8 DEF SwitchOnError
  <2>2. ASSUME Keep(i, "m_flag", TRUE), Starts(t, b.later, Call(i, "branch", 0), <<>>),
               UNCHANGED <<pending, link>>
        PROVE  Handled(i)
    <3>1. CallsTypeOK'
      BY <1>2, <1>3, <1>4, <2>2
    <3>2. [own[i] EXCEPT !["m_flag"] = TRUE] \in OperatorState
          /\ [own[i] EXCEPT !["m_flag"] = TRUE].name = own[i].name
      BY <1>1, MemberChanges
    <3>3. own' = [own EXCEPT ![i] = [own[i] EXCEPT !["m_flag"] = TRUE]]
          /\ link' = [link EXCEPT ![i] = link[i]]
      BY <1>1, <2>2 DEF Keep, OperatorsOK
    <3> QED BY <1>1, <3>1, <3>2, <3>3 DEF Handled
  <2>3. ASSUME Notes(t, i, "subscribed", "m_flag", FALSE, <<>>)
        PROVE  Handled(i)
    BY <1>1, <1>3, <2>3, MemberChanges, NotesHandled
  <2> QED BY <1>3, <2>1, <2>2, <2>3, BranchHandled, CommonHandled, AnswersHandled
<1> QED BY <1>6, <1>7, <1>8

LEMMA OperatorsHandle ==
  ASSUME ClosuresTypeOK, CallsTypeOK, OperatorsOK, NEW t \in Threads, NEW i \in Stages,
         OperatorStep(t, i)
  PROVE  Handled(i)
BY SubscriptionHandled, DecidingHandled, FoldingHandled, HandingHandled, SchedulingHandled,
   DrainsHandled, BranchingHandled DEF OperatorStep

---------------------------------------------------------------------------
(* The source.                                                             *)
SourceMembers == [kind : Kinds, elements : Inputs, m_completed : BOOLEAN, m_canceled : BOOLEAN,
                  m_current : Nat \ {0}, m_requested : Size, m_running : BOOLEAN,
                  m_ended : BOOLEAN]

SourceOK(s) ==
  /\ s \in SourceMembers
  /\ s.m_current <= Len(s.elements) + 1
  /\ s.kind = "just" => Len(s.elements) = 1

LEMMA SourceChanges ==
  ASSUME NEW s, SourceOK(s)
  PROVE  /\ \A b \in BOOLEAN : /\ SourceOK([s EXCEPT !["m_completed"] = b])
                               /\ SourceOK([s EXCEPT !["m_canceled"] = b])
                               /\ SourceOK([s EXCEPT !["m_running"] = b])
                               /\ SourceOK([s EXCEPT !["m_ended"] = b])
         /\ \A n \in Size : SourceOK([s EXCEPT !["m_requested"] = n])
         /\ \A n \in 1 .. Len(s.elements) + 1 : SourceOK([s EXCEPT !["m_current"] = n])
         /\ \A kind \in {"range", "error"} : SourceOK([s EXCEPT !["kind"] = kind])
<1>1. s \in SourceMembers /\ s.m_current <= Len(s.elements) + 1
      /\ (s.kind = "just" => Len(s.elements) = 1)
  BY DEF SourceOK
<1>2. s.elements \in Seq(Nat) /\ Len(s.elements) \in Nat
  BY <1>1, InputsAssumption, LenProperties DEF SourceMembers
<1>3. ASSUME NEW b \in BOOLEAN
      PROVE  /\ SourceOK([s EXCEPT !["m_completed"] = b]) /\ SourceOK([s EXCEPT !["m_canceled"] = b])
             /\ SourceOK([s EXCEPT !["m_running"] = b]) /\ SourceOK([s EXCEPT !["m_ended"] = b])
  <2>1. SourceOK([s EXCEPT !["m_completed"] = b])
    BY <1>1 DEF SourceOK, SourceMembers
  <2>2. SourceOK([s EXCEPT !["m_canceled"] = b])
    BY <1>1 DEF SourceOK, SourceMembers
  <2>3. SourceOK([s EXCEPT !["m_running"] = b])
    BY <1>1 DEF SourceOK, SourceMembers
  <2>4. SourceOK([s EXCEPT !["m_ended"] = b])
    BY <1>1 DEF SourceOK, SourceMembers
  <2> QED BY <2>1, <2>2, <2>3, <2>4
<1>4. ASSUME NEW n \in Size
      PROVE  SourceOK([s EXCEPT !["m_requested"] = n])
  BY <1>1 DEF SourceOK, SourceMembers
<1>5. ASSUME NEW n \in 1 .. Len(s.elements) + 1
      PROVE  SourceOK([s EXCEPT !["m_current"] = n])
  <2>1. n \in Nat \ {0} /\ n <= Len(s.elements) + 1
    BY <1>2
  <2> QED BY <1>1, <2>1 DEF SourceOK, SourceMembers
<1>6. ASSUME NEW kind \in {"range", "error"}
      PROVE  SourceOK([s EXCEPT !["kind"] = kind])
  <2>1. kind \in Kinds /\ kind # "just"
    BY DEF Kinds
  <2> HIDE DEF Kinds
  <2> QED BY <1>1, <2>1 DEF SourceOK, SourceMembers
<1> QED BY <1>3, <1>4, <1>5, <1>6

LEMMA SourceCalls ==
  ASSUME NEW n \in Nat
  PROVE  /\ {Value(0, n), Completion(0), Failure(0), Subscription(0), Request(0, n)} \subseteq PipelineCalls
         /\ {Call(0, "tick", n), Call(0, "again", n), Call(0, "method", n + 1)} \subseteq PipelineCalls
         /\ \A sig \in {"onNext", "onError", "onComplete"} : Call(0, sig, n) \in PipelineCalls
<1>1. 0 \in 0 .. Subscriber /\ 0 + 1 \in 0 .. Subscriber /\ n + 1 \in Nat \ {0} /\ 0 \in Nat
  BY DepthAssumption DEF Subscriber
<1>2. /\ {"onSubscribe", "onNext", "onComplete", "onError", "request", "tick", "again"}
           \subseteq Sent \ {"method"}
      /\ "method" \in Sent
  BY DEF Sent
<1>3. \A j \in {0, 0 + 1}, sig \in Sent \ {"method"}, m \in {0, n} : Call(j, sig, m) \in PipelineCalls
  BY <1>1, CallIsTyped
<1>4. Call(0, "method", n + 1) \in PipelineCalls
  BY <1>1, <1>2, CallIsTyped
<1> HIDE DEF Sent
<1> QED BY <1>2, <1>3, <1>4 DEF Value, Completion, Failure, Subscription, Request

LEMMA SourceIsTyped ==
  ASSUME CallsTypeOK, SourceOK(source), NEW t \in Threads, SourceStep(t)
  PROVE  CallsTypeOK' /\ SourceOK(source')
<1>1. agenda[t] # <<>>
  BY DEF SourceStep, Empty, Just, Never, RangeSource, Error, Defer, Interval, Create,
         HandsSubscription, JustRequest, RangeStops, RangeCompletes, RangeTurn, RangeCancel,
         IntervalRequest, IntervalCancel, IntervalTick, IntervalAgain, CallsMethod, MethodEmits,
         MethodWaits, MethodReturns, ObservableGate, SingleGate, MaybeGate, CompletableGate, Passes, On
<1> DEFINE a == Arg(t)
           s == source
<1>2. /\ a \in Nat /\ Head(agenda[t]) \in PipelineCalls
      /\ s \in SourceMembers /\ s.elements \in Seq(Nat) /\ Len(s.elements) \in Nat
      /\ s.m_current \in Nat \ {0} /\ s.m_requested \in Size /\ s.m_requested \in Nat
      /\ s.m_running \in BOOLEAN /\ s.m_ended \in BOOLEAN
  BY <1>1, HeadIsTyped, InputsAssumption, LenProperties, SizesAreTyped DEF SourceOK, SourceMembers
<1>3. \A k \in 1 .. Len(s.elements) : s.elements[k] \in Nat
  BY <1>2, ElementOfSeq
<1>4. 0 \in Nat /\ <<>> \in Seq(PipelineCalls)
  BY EmptySeq
<1>5. ASSUME NEW signals \in Seq(PipelineCalls), NEW more \in Seq(PipelineCalls),
             Emits(t, signals, more)
      PROVE  CallsTypeOK'
  BY <1>1, <1>5, MakesIsTyped, ConcatProperties DEF Emits
<1>6. ASSUME NEW calls \in Seq(PipelineCalls), Quietly(t, calls)
      PROVE  CallsTypeOK'
  BY <1>4, <1>5, <1>6 DEF Quietly
<1>7. /\ <<Completion(0)>> \in Seq(PipelineCalls) /\ <<Failure(0)>> \in Seq(PipelineCalls)
      /\ <<Subscription(0)>> \in Seq(PipelineCalls)
      /\ \A n \in Nat : /\ <<Value(0, n)>> \in Seq(PipelineCalls)
                        /\ <<Value(0, n), Completion(0)>> \in Seq(PipelineCalls)
                        /\ <<Request(0, n)>> \in Seq(PipelineCalls)
                        /\ <<Call(0, "again", n)>> \in Seq(PipelineCalls)
                        /\ <<Call(0, "method", n + 1)>> \in Seq(PipelineCalls)
  <2>1. /\ {Completion(0), Failure(0), Subscription(0)} \subseteq PipelineCalls
        /\ \A n \in Nat : {Value(0, n), Request(0, n), Call(0, "again", n),
                           Call(0, "method", n + 1)} \subseteq PipelineCalls
    BY <1>4, SourceCalls
  <2> QED BY <2>1, ShortSequences
<1>8. HandsSubscription(t) => CallsTypeOK' /\ SourceOK(source')
  BY <1>6, <1>7 DEF HandsSubscription
<1>9. ASSUME NEW calls \in Seq(PipelineCalls), NEW b \in BOOLEAN,
             Emits(t, IF b THEN <<>> ELSE calls, <<>>)
      PROVE  CallsTypeOK'
  <2>1. (IF b THEN <<>> ELSE calls) \in Seq(PipelineCalls)
    BY <1>4
  <2> QED BY <1>4, <1>5, <1>9, <2>1
<1>10. CASE Empty(t)
  <2>1. source.m_completed \in BOOLEAN
    BY <1>2 DEF SourceMembers
  <2> QED BY <1>7, <1>8, <1>9, <1>10, <2>1, SourceChanges DEF Empty
<1>11. CASE Just(t)
  <2>1. CASE JustRequest(t)
    <3>1. source.elements[1] \in Nat /\ source.m_completed \in BOOLEAN
      BY <1>2, <1>3, <1>11 DEF Just, Is, SourceOK, SourceMembers
    <3> QED BY <1>7, <1>9, <2>1, <3>1, SourceChanges DEF JustRequest
  <2> QED BY <1>4, <1>5, <1>7, <1>8, <1>11, <2>1 DEF Just
<1>12. CASE Never(t)
  BY <1>4, <1>5, <1>6, <1>7, <1>8, <1>12 DEF Never
<1>13. CASE RangeSource(t)
  <2>1. CASE RangeTurn(t)
    <3>1. a - 1 \in Nat /\ s.m_current \in 1 .. Len(s.elements)
          /\ s.m_current + 1 \in 1 .. Len(s.elements) + 1
      <4>1. ~(s.m_current > Len(s.elements)) /\ a > 0
        BY <2>1 DEF RangeTurn, RangeDone
      <4> QED BY <1>2, <4>1
    <3>2. source' = [source EXCEPT !["m_current"] = s.m_current + 1]
      BY <2>1 DEF RangeTurn
    <3>3. Emits(t, <<Value(0, s.elements[s.m_current])>>, <<Request(0, a - 1)>>)
      BY <2>1 DEF RangeTurn
    <3>4. <<Value(0, s.elements[s.m_current])>> \in Seq(PipelineCalls)
          /\ <<Request(0, a - 1)>> \in Seq(PipelineCalls)
      BY <1>3, <1>7, <3>1
    <3>5. CallsTypeOK'
      BY <1>5, <3>3, <3>4
    <3> QED BY <3>1, <3>2, <3>5, SourceChanges
  <2> QED BY <1>4, <1>5, <1>6, <1>7, <1>8, <1>13, <2>1, SourceChanges
          DEF RangeSource, RangeStops, RangeCompletes, RangeCancel
<1>14. CASE Error(t)
  BY <1>4, <1>5, <1>7, <1>14 DEF Error
<1>15. CASE Defer(t)
  <2>1. PICK kind \in {"range", "error"} : source' = [source EXCEPT !["kind"] = kind]
    BY <1>15 DEF Defer
  <2>2. CallsTypeOK'
    BY <1>15 DEF Defer, CallsTypeOK
  <2> QED BY <2>1, <2>2, SourceChanges
<1>16. CASE Interval(t)
  <2>1. ASSUME NEW demand \in Size, NEW v \in Nat, TryRequest(t, demand, v)
        PROVE  CallsTypeOK' /\ SourceOK(source')
    <3>1. CallsTypeOK'
      <4>1. Call(0, "tick", v) \in PipelineCalls
        BY SourceCalls
      <4>2. "point" \in {"now", "delayed", "point"}
        OBVIOUS
      <4> QED BY <1>1, <1>4, <2>1, <4>1, <4>2, MakesIsTyped, SchedulesIsTyped DEF TryRequest
    <3> DEFINE left == IF demand = 0 THEN 0 ELSE demand - 1
               runs == s.m_running \/ demand > 0
               r    == [source EXCEPT !["m_requested"] = left]
    <3>2. left \in Size /\ runs \in BOOLEAN
      BY <1>2, SizeAssumption DEF Size
    <3>3. source' = [r EXCEPT !["m_running"] = runs]
      BY <2>1 DEF TryRequest
    <3> HIDE DEF left, runs
    <3>4. SourceOK(r)
      BY <3>2, SourceChanges
    <3> HIDE DEF r
    <3> QED BY <3>1, <3>2, <3>3, <3>4, SourceChanges
  <2>2. CASE IntervalRequest(t)
    <3> DEFINE demand == Plus(source.m_requested, Arg(t))
    <3>1. demand \in Size
      BY <1>2, SizesAreTyped
    <3>2. \/ TryRequest(t, demand, 0)
          \/ source' = [source EXCEPT !["m_requested"] = demand] /\ Quietly(t, <<>>)
      BY <2>2 DEF IntervalRequest
    <3> HIDE DEF demand
    <3>3. CASE TryRequest(t, demand, 0)
      BY <1>4, <2>1, <3>1, <3>3
    <3>4. CASE source' = [source EXCEPT !["m_requested"] = demand] /\ Quietly(t, <<>>)
      <4>1. SourceOK(source')
        BY <3>1, <3>4, SourceChanges
      <4> QED BY <1>4, <1>6, <3>4, <4>1
    <3> QED BY <3>2, <3>3, <3>4
  <2>3. CASE IntervalCancel(t)
    <3>1. source' = [source EXCEPT !["m_canceled"] = TRUE] /\ Quietly(t, <<>>)
      BY <2>3 DEF IntervalCancel
    <3>2. SourceOK(source')
      BY <3>1, SourceChanges
    <3> QED BY <1>4, <1>6, <3>1, <3>2
  <2>4. CASE IntervalTick(t)
    <3> DEFINE n == Arg(t) + 1
    <3>1. <<Value(0, Arg(t))>> \in Seq(PipelineCalls) /\ n \in Nat
      <4>1. n \in Nat
        BY <1>2
      <4> QED BY <1>2, <1>7, <4>1
    <3>2. /\ source' = [source EXCEPT !["m_running"] = FALSE]
          /\ \/ Quietly(t, <<>>)
             \/ Emits(t, <<Value(0, Arg(t))>>, <<Call(0, "again", n)>>)
      BY <2>4 DEF IntervalTick
    <3> HIDE DEF n
    <3>3. <<Call(0, "again", n)>> \in Seq(PipelineCalls)
      BY <1>7, <3>1
    <3>4. SourceOK(source')
      BY <3>2, SourceChanges
    <3> QED BY <1>4, <1>5, <1>6, <3>1, <3>2, <3>3, <3>4
  <2>5. CASE IntervalAgain(t)
    BY <1>2, <2>1, <2>5 DEF IntervalAgain
  <2> QED BY <1>8, <1>16, <2>2, <2>3, <2>4, <2>5 DEF Interval
<1>17. CASE Create(t)
  <2>1. CASE CallsMethod(t)
    <3>1. <<Call(0, "method", 1)>> \in Seq(PipelineCalls)
      <4>1. Call(0, "method", 0 + 1) \in PipelineCalls /\ 0 + 1 = 1
        BY <1>4, SourceCalls
      <4> QED BY <4>1, ShortSequences
    <3> QED BY <1>6, <2>1, <3>1 DEF CallsMethod
  <2>2. ASSUME NEW sig \in {"onNext", "onError", "onComplete"}, MethodEmits(t, sig)
        PROVE  CallsTypeOK' /\ SourceOK(source')
    <3>1. a \in 1 .. Len(s.elements)
      BY <1>2, <2>2 DEF MethodEmits, On, PipelineCalls, Arg
    <3>2. Call(0, sig, s.elements[a]) \in PipelineCalls /\ Call(0, "method", a + 1) \in PipelineCalls
      BY <1>2, <1>3, <3>1, SourceCalls
    <3>3. <<Call(0, sig, s.elements[a]), Call(0, "method", a + 1)>> \in Seq(PipelineCalls)
      BY <3>2, ShortSequences
    <3> QED BY <1>6, <2>2, <3>3 DEF MethodEmits
  <2>3. CASE MethodReturns(t)
    BY <1>4, <1>6, <2>3 DEF MethodReturns
  <2>6. CASE MethodWaits(t)
    <3>1. Call(0, "method", a) = Head(agenda[t])
      BY <1>2, <2>6 DEF MethodWaits, On, PipelineCalls, Calls, Call, Arg
    <3> QED BY <1>1, <1>2, <2>6, <3>1, SchedulesIsTyped DEF MethodWaits, sourceVars
  <2>4. ASSUME NEW sig, NEW signals \in Seq(PipelineCalls), NEW b \in BOOLEAN,
               Passes(t, sig, signals, b)
        PROVE  CallsTypeOK' /\ SourceOK(source')
    <3>1. (source.m_ended \/ b) \in BOOLEAN
      BY <1>2
    <3>2. source' = [source EXCEPT !["m_ended"] = source.m_ended \/ b]
      BY <2>4 DEF Passes
    <3> QED BY <1>2, <1>9, <2>4, <3>1, <3>2, SourceChanges DEF Passes
  <2>5. <<Value(0, Arg(t))>> \in Seq(PipelineCalls) /\ <<Value(0, Arg(t)), Completion(0)>> \in Seq(PipelineCalls)
    BY <1>2, <1>7
  <2> QED BY <1>7, <1>17, <2>1, <2>2, <2>3, <2>4, <2>5, <2>6
          DEF Create, ObservableGate, SingleGate, MaybeGate, CompletableGate
<1> QED BY <1>10, <1>11, <1>12, <1>13, <1>14, <1>15, <1>16, <1>17 DEF SourceStep

---------------------------------------------------------------------------
(* The other steps.                                                        *)
LEMMA LargerSet ==
  ASSUME NEW S, NEW T, S \subseteq T, NEW s \in Seq(S)
  PROVE  s \in Seq(T)
<1>1. /\ Len(s) \in Nat /\ s = [k \in 1 .. Len(s) |-> s[k]]
      /\ \A k \in 1 .. Len(s) : s[k] \in T
  BY LenProperties, ElementOfSeq
<1> QED BY <1>1, IsASeq

LEMMA TakesIsTyped ==
  ASSUME CallsTypeOK, NEW w \in Workers, Dispatch(w)
  PROVE  CallsTypeOK'
<1>1. PICK k \in DOMAIN pending : /\ agenda' = [agenda EXCEPT ![w] = <<pending[k].call>>]
                                  /\ pending' = RemoveAt(pending, k)
  BY DEF Dispatch
<1>2. pending \in Seq(Tasks) /\ k \in 1 .. Len(pending) /\ w \in Threads
  BY <1>1, LenProperties DEF CallsTypeOK, Threads
<1>3. pending' \in Seq(Tasks)
  BY <1>1, <1>2, RemovedKeepsOrder
<1>4. <<pending[k].call>> \in Seq(PipelineCalls)
  <2>1. pending[k] \in Tasks
    BY <1>2, ElementOfSeq
  <2>2. pending[k].call \in PipelineCalls
    BY <2>1 DEF Tasks
  <2> QED BY <2>2, ShortSequences
<1> QED BY <1>1, <1>2, <1>3, <1>4 DEF CallsTypeOK

LEMMA UserSentIsTyped == UserSent \subseteq PipelineCalls
<1>1. Depth \in 0 .. Subscriber /\ Subscriber \in 0 .. Subscriber /\ 0 \in Nat
  BY DepthAssumption DEF Subscriber
<1>2. {"request", "cancel", "received"} \subseteq Sent \ {"method"}
  BY DEF Sent
<1>3. \A j \in {Depth, Subscriber}, sig \in Sent \ {"method"}, n \in Nat :
        Call(j, sig, n) \in PipelineCalls
  BY <1>1, CallIsTyped
<1> HIDE DEF Sent
<1> QED BY <1>1, <1>2, <1>3 DEF UserSent, Request, Cancel

LEMMA SubscriberStepIsTyped ==
  ASSUME CallsTypeOK, SubscriberTypeOK, NEW t \in Threads, SubscriberStep(t)
  PROVE  CallsTypeOK' /\ SubscriberTypeOK'
<1>1. agenda[t] # <<>>
  BY DEF SubscriberStep, OnSubscribed, OnNext, Received, OnEnd, On
<1>2. SubscriberTypeOK'
  BY <1>1, HeadIsTyped, SubscriberIsTyped
<1>3. PICK calls \in Seq(UserSent) : Makes(t, calls)
  BY SubscriberCalls
<1>4. calls \in Seq(PipelineCalls)
  BY UserSentIsTyped, LargerSet
<1> QED BY <1>1, <1>2, <1>3, <1>4, MakesIsTyped

LEMMA UserCallsIsTyped ==
  ASSUME CallsTypeOK, SubscriberTypeOK, UserCalls
  PROVE  CallsTypeOK' /\ SubscriberTypeOK'
<1>1. PICK d \in UserSent : agenda' = [agenda EXCEPT ![Client] = <<d>>] /\ UNCHANGED pending
  BY UserMakesOne
<1>2. <<d>> \in Seq(PipelineCalls)
  BY UserSentIsTyped, ShortSequences
<1> QED BY <1>1, <1>2, UserIsTyped DEF CallsTypeOK

---------------------------------------------------------------------------
TypesInv == CallsTypeOK /\ OperatorsOK /\ SourceOK(source) /\ SubscriberTypeOK

LEMMA FreshIsTyped ==
  ASSUME NEW name \in Operators
  PROVE  Fresh(name) \subseteq OperatorState
<1> DEFINE counts  == IF name \in {"take", "elementAt"} THEN Counts ELSE {0}
           flags   == IF name = "delay" THEN BOOLEAN ELSE {FALSE}
           result  == IF name = "reduce" THEN <<InitialValue>> ELSE <<>>
           publishers == IF name \in Branching THEN Others ELSE {NoBranch}
<1>1. counts \subseteq Size /\ flags \subseteq BOOLEAN
  BY OperatorsAssumption, SizesAreTyped
<1>2. result \in Seq(Nat) /\ Len(result) <= 1 /\ (name = "reduce" => result # <<>>)
  <2>1. /\ <<>> \in Seq(Nat) /\ <<InitialValue>> \in Seq(Nat)
        /\ Len(<<InitialValue>>) = 1 /\ Len(<<>>) = 0 /\ <<InitialValue>> # <<>>
    BY OperatorsAssumption
  <2> QED BY <2>1
<1>3. publishers \subseteq BranchState
  <2>1. NoBranch \in BranchState
    <3>1. <<>> \in Seq(Nat)
      BY EmptySeq
    <3> QED BY <3>1 DEF NoBranch, Branch, BranchState
  <2>2. ASSUME NEW b \in Others
        PROVE  b \in BranchState
    <3>1. /\ b.elements \in Seq(Nat) /\ b.end \in {"onComplete", "onError"} /\ b.later \in BOOLEAN
          /\ b = Branch(b.elements, b.end, b.later)
      BY OperatorsAssumption
    <3>2. Branch(b.elements, b.end, b.later) \in BranchState
      BY <3>1 DEF Branch, BranchState
    <3> QED BY <3>1, <3>2
  <2> QED BY <2>1, <2>2
<1>4. Fresh(name) \subseteq [name : {name}, limit : counts, m_count : counts, held : {FALSE},
                            m_flag : flags, m_result : {result}, branch : publishers]
  BY DEF Fresh
<1> HIDE DEF counts, flags, result, publishers
<1>5. {FALSE} \subseteq BOOLEAN
  OBVIOUS
<1> QED BY <1>1, <1>2, <1>3, <1>4, <1>5 DEF OperatorState, Members

LEMMA InitIsTyped ==
  ASSUME Init
  PROVE  TypesInv
<1>1. CallsTypeOK
  <2>1. Call(Depth, "subscribe", 0) \in PipelineCalls
    <3>1. Depth \in 0 .. Subscriber /\ "subscribe" \in Sent /\ 0 \in Nat
      BY DepthAssumption DEF Subscriber, Sent
    <3> QED BY <3>1, CallIsTyped
  <2>2. <<Call(Depth, "subscribe", 0)>> \in Seq(PipelineCalls) /\ <<>> \in Seq(PipelineCalls)
        /\ <<>> \in Seq(Tasks)
    BY <2>1, ShortSequences, EmptySeq
  <2> QED BY <2>2 DEF Init, SignalsInit, CallsTypeOK
<1>2. OperatorsOK
  <2>1. \A i \in Stages : own[i] \in OperatorState
    BY FreshIsTyped, KindsAssumption DEF Init, StagesInit
  <2>2. [held |-> FALSE, m_requested |-> 0, m_waiting |-> 0] \in LinkState
    BY SizesAreTyped DEF LinkState
  <2> QED BY <2>1, <2>2 DEF Init, StagesInit, OperatorsOK
<1>3. SourceOK(source)
  <2>1. /\ SourceKinds \subseteq Kinds /\ {FALSE} \subseteq BOOLEAN /\ {1} \subseteq Nat \ {0}
        /\ {0} \subseteq Size
    BY KindsAssumption, SizesAreTyped
  <2>2. source \in [kind : SourceKinds, elements : Inputs, m_completed : {FALSE},
                    m_canceled : {FALSE}, m_current : {1}, m_requested : {0},
                    m_running : {FALSE}, m_ended : {FALSE}]
    BY DEF Init, SourceInit
  <2>3. source \in SourceMembers
    BY <2>1, <2>2 DEF SourceMembers
  <2>4. source.m_current = 1 /\ Len(source.elements) \in Nat
    BY <2>2, InputsAssumption, LenProperties
  <2>5. source.kind = "just" => Len(source.elements) = 1
    BY DEF Init, SourceInit
  <2> QED BY <2>3, <2>4, <2>5 DEF SourceOK
<1> QED BY <1>1, <1>2, <1>3, SubscriberInitTyped DEF Init, TypesInv

LEMMA HandledIsTyped ==
  ASSUME OperatorsOK, NEW i \in Stages, Handled(i)
  PROVE  CallsTypeOK' /\ OperatorsOK' /\ \A j \in Stages : own'[j].name = own[j].name
<1>1. PICK o \in OperatorState, l \in LinkState :
        o.name = own[i].name /\ own' = [own EXCEPT ![i] = o] /\ link' = [link EXCEPT ![i] = l]
  BY DEF Handled
<1> QED BY <1>1 DEF Handled, OperatorsOK

LEMMA StepIsTyped ==
  ASSUME ClosuresTypeOK, TypesInv, [NextStep]_vars
  PROVE  TypesInv'
<1> USE DEF TypesInv
<1>1. ASSUME NEW t \in Threads, SourceStep(t), UNCHANGED <<stageVars, subscriberVars>>
      PROVE  TypesInv'
  BY <1>1, SourceIsTyped DEF stageVars, subscriberVars, OperatorsOK, SubscriberTypeOK
<1>2. ASSUME NEW t \in Threads, NEW i \in Stages, OperatorStep(t, i),
             UNCHANGED <<sourceVars, subscriberVars>>
      PROVE  TypesInv'
  BY <1>2, OperatorsHandle, HandledIsTyped DEF sourceVars, subscriberVars, SubscriberTypeOK
<1>3. ASSUME NEW t \in Threads, SubscriberStep(t), UNCHANGED <<sourceVars, stageVars>>
      PROVE  TypesInv'
  BY <1>3, SubscriberStepIsTyped DEF sourceVars, stageVars, OperatorsOK
<1>4. ASSUME NEW w \in Workers, Takes(w)
      PROVE  TypesInv'
  BY <1>4, TakesIsTyped
     DEF Takes, sourceVars, stageVars, subscriberVars, OperatorsOK, SubscriberTypeOK
<1>5. ASSUME UserCalls, UNCHANGED <<sourceVars, stageVars>>
      PROVE  TypesInv'
  BY <1>5, UserCallsIsTyped DEF sourceVars, stageVars, OperatorsOK
<1>6. ASSUME UNCHANGED vars
      PROVE  TypesInv'
  BY <1>6 DEF vars, callVars, sourceVars, stageVars, subscriberVars, CallsTypeOK, OperatorsOK,
              SubscriberTypeOK
<1> QED BY <1>1, <1>2, <1>3, <1>4, <1>5, <1>6 DEF NextStep, Step, Works, Terminated

LEMMA TypesInvImpliesTypeOK ==
  ASSUME TypesInv
  PROVE  TypeOK
<1>1. SignalsTypeOK(Sent)
  <2>1. PipelineCalls \subseteq Calls(Sent)
    BY DEF PipelineCalls
  <2>2. Tasks \subseteq [when : {"now", "delayed", "point"}, call : Calls(Sent)]
    BY <2>1 DEF Tasks
  <2>3. \A t \in Threads : agenda[t] \in Seq(Calls(Sent))
    BY <2>1, LargerSet DEF TypesInv, CallsTypeOK
  <2>4. pending \in Seq([when : {"now", "delayed", "point"}, call : Calls(Sent)])
    BY <2>2, LargerSet DEF TypesInv, CallsTypeOK
  <2> QED BY <2>3, <2>4 DEF SignalsTypeOK, TypesInv, CallsTypeOK
<1>2. SourceTypeOK
  BY DEF TypesInv, SourceOK, SourceMembers, SourceTypeOK
<1>3. StagesTypeOK
  <2>1. OperatorState \subseteq Members /\ \A o \in OperatorState : Len(o.m_result) <= 1
    BY DEF OperatorState
  <2>2. own \in [Stages -> Members] /\ \A i \in Stages : Len(own[i].m_result) <= 1
    BY <2>1 DEF TypesInv, OperatorsOK
  <2> QED BY <2>2 DEF TypesInv, OperatorsOK, Members, BranchState, LinkState, StagesTypeOK
<1> QED BY <1>1, <1>2, <1>3 DEF TypesInv, TypeOK

(* Whatever the operators are and however many, whatever the source and    *)
(* the scheduler's threads: calls are made on parts of the pipeline, the   *)
(* counters of processors and subscriptions stay within std::size_t, an    *)
(* index of a source within its elements and one past them, and a result   *)
(* is one value or none.                                                   *)
THEOREM PipelineTypeCorrect ==
  ASSUME ClosuresTypeOK
  PROVE  Spec => []TypeOK
<1>1. Init => TypesInv
  BY InitIsTyped
<1>2. TypesInv /\ [NextStep]_vars => TypesInv'
  BY StepIsTyped
<1>3. TypesInv => TypeOK
  BY TypesInvImpliesTypeOK
<1> QED BY <1>1, <1>2, <1>3, PTL DEF Spec

---------------------------------------------------------------------------
(* cancel() of a range, under operators that hand on what they are given   *)
(* or drop it: every call runs on the thread of the client, and a value is *)
(* only ever the innermost of the calls under way.                         *)
Direct == {"map", "tap", "filter", "take"}
Silent == {c \in PipelineCalls : c.sig # "onNext"}
Led(calls) == \A k \in 2 .. Len(calls) : calls[k] \in Silent

OnlyClient ==
  /\ pending = <<>> /\ \A w \in Workers : agenda[w] = <<>>
  /\ Led(agenda[Client])
  /\ source.m_canceled => source.kind = "range" /\ agenda[Client] \in Seq(Silent)

CancelInv == source.kind \in {"range", "defer"} /\ UsesOnly(Direct) => OnlyClient

LEMMA SilentCalls ==
  /\ Silent \subseteq PipelineCalls /\ UserSent \subseteq Silent
  /\ \A c \in PipelineCalls : c \in Silent <=> c.sig # "onNext"
BY UserSentIsTyped DEF Silent, UserSent, Request, Cancel, Call

LEMMA SilentIsLed ==
  ASSUME NEW s \in Seq(Silent)
  PROVE  Led(s)
BY ElementOfSeq, LenProperties DEF Led

LEMMA LedConcat ==
  ASSUME NEW calls \in Seq(PipelineCalls), Led(calls), NEW rest \in Seq(Silent)
  PROVE  /\ Led(calls \o rest)
         /\ calls \in Seq(Silent) => calls \o rest \in Seq(Silent)
<1>1. /\ Len(calls) \in Nat /\ Len(rest) \in Nat
      /\ \A k \in 1 .. Len(rest) : rest[k] \in Silent
  BY LenProperties, ElementOfSeq
<1>2. /\ Len(calls \o rest) = Len(calls) + Len(rest)
      /\ \A k \in 1 .. Len(calls) + Len(rest) :
           (calls \o rest)[k] = IF k <= Len(calls) THEN calls[k] ELSE rest[k - Len(calls)]
  <2>1. rest \in Seq(PipelineCalls)
    BY SilentCalls, LargerSet
  <2> QED BY <2>1, ConcatProperties
<1>3. ASSUME NEW k \in 2 .. Len(calls) + Len(rest)
      PROVE  (calls \o rest)[k] \in Silent
  <2>1. CASE k <= Len(calls)
    BY <1>1, <1>2, <2>1 DEF Led
  <2>2. CASE ~(k <= Len(calls))
    <3>1. k - Len(calls) \in 1 .. Len(rest)
      BY <1>1, <2>2
    <3> QED BY <1>1, <1>2, <2>2, <3>1
  <2> QED BY <2>1, <2>2
<1>4. calls \in Seq(Silent) => calls \o rest \in Seq(Silent)
  BY ConcatProperties
<1> QED BY <1>2, <1>3, <1>4 DEF Led

LEMMA TailIsSilent ==
  ASSUME NEW s \in Seq(PipelineCalls), s # <<>>, Led(s)
  PROVE  Tail(s) \in Seq(Silent)
<1>1. /\ Len(s) \in Nat \ {0} /\ Tail(s) \in Seq(PipelineCalls) /\ Len(Tail(s)) = Len(s) - 1
      /\ \A k \in 1 .. Len(s) - 1 : Tail(s)[k] = s[k + 1]
  BY LenProperties, HeadTailProperties, EmptySeq
<1>2. \A k \in 1 .. Len(s) - 1 : Tail(s)[k] \in Silent
  <2>1. \A k \in 1 .. Len(s) - 1 : k + 1 \in 2 .. Len(s)
    BY <1>1
  <2> QED BY <1>1, <2>1 DEF Led
<1> DEFINE r == Tail(s)
           n == Len(s) - 1
<1>3. n \in Nat /\ r = [k \in 1 .. n |-> r[k]] /\ \A k \in 1 .. n : r[k] \in Silent
  BY <1>1, <1>2, LenProperties
<1> HIDE DEF r, n
<1>4. r \in Seq(Silent)
  BY <1>3, IsASeq
<1> QED BY <1>4 DEF r

(* What a handler of such an operator calls: a value first of all, and for *)
(* no other call than a value.                                             *)
LeadsOnly(t) ==
  \E calls \in Seq(PipelineCalls) :
    /\ Makes(t, calls) /\ Led(calls)
    /\ Head(agenda[t]).sig # "onNext" => calls \in Seq(Silent)

LEMMA ShortLed ==
  ASSUME NEW a \in PipelineCalls, NEW b \in Silent, NEW c \in Silent
  PROVE  Led(<<a>>) /\ Led(<<a, b>>) /\ Led(<<a, b, c>>)
<1>1. /\ Len(<<a>>) = 1 /\ Len(<<a, b>>) = 2 /\ Len(<<a, b, c>>) = 3
      /\ <<a, b>>[2] = b /\ <<a, b, c>>[2] = b /\ <<a, b, c>>[3] = c
  OBVIOUS
<1>2. (\A k \in 2 .. 1 : FALSE) /\ (\A k \in 2 .. 2 : k = 2) /\ (\A k \in 2 .. 3 : k = 2 \/ k = 3)
  OBVIOUS
<1>3. Led(<<a>>)
  BY <1>1, <1>2 DEF Led
<1>4. Led(<<a, b>>)
  BY <1>1, <1>2 DEF Led
<1>5. Led(<<a, b, c>>)
  BY <1>1, <1>2 DEF Led
<1> QED BY <1>3, <1>4, <1>5

LEMMA DirectCalls ==
  ASSUME CallsTypeOK, NEW t \in Threads, agenda[t] # <<>>, NEW calls \in Seq(Silent), Makes(t, calls)
  PROVE  LeadsOnly(t)
BY SilentCalls, LargerSet, SilentIsLed DEF LeadsOnly

LEMMA DirectOperator ==
  ASSUME ClosuresTypeOK, CallsTypeOK, OperatorsOK, NEW t \in Threads, NEW i \in Stages,
         Does(i, Direct), OperatorStep(t, i)
  PROVE  LeadsOnly(t)
<1>0. agenda[t] # <<>>
  BY DEF OperatorStep
<1>1. /\ Arg(t) \in Nat /\ 0 \in Nat /\ Method(Arg(t)) \in Nat /\ <<>> \in Seq(Silent)
      /\ link[i] \in LinkState
  BY <1>0, HeadIsTyped, EmptySeq DEF ClosuresTypeOK, OperatorsOK
<1>2. /\ {Request(i - 1, Arg(t)), Cancel(i - 1), Cancel(i), Completion(i), Failure(i),
          Subscription(i), Call(i - 1, "subscribe", 0), Call(i, "release", 0),
          Call(i, "tested", 0), Filtered(i, TRUE), Filtered(i, FALSE)} \subseteq Silent
      /\ {Value(i, Arg(t)), Value(i, Method(Arg(t)))} \subseteq PipelineCalls
      /\ \A n \in Nat : Request(i - 1, n) \in Silent
  <2>1. /\ \A n \in Nat : Request(i - 1, n).sig # "onNext"
        /\ Cancel(i - 1).sig # "onNext" /\ Cancel(i).sig # "onNext"
        /\ Completion(i).sig # "onNext" /\ Failure(i).sig # "onNext"
        /\ Subscription(i).sig # "onNext" /\ Call(i - 1, "subscribe", 0).sig # "onNext"
        /\ Call(i, "release", 0).sig # "onNext" /\ Call(i, "tested", 0).sig # "onNext"
        /\ \A b : Filtered(i, b).sig # "onNext"
    BY DEF Request, Cancel, Completion, Failure, Subscription, Filtered, Call
  <2>2. /\ \A n \in Nat : Request(i - 1, n) \in PipelineCalls
        /\ {Cancel(i - 1), Cancel(i), Completion(i), Failure(i),
            Subscription(i), Call(i - 1, "subscribe", 0), Call(i, "release", 0),
            Call(i, "tested", 0), Filtered(i, TRUE), Filtered(i, FALSE)} \subseteq PipelineCalls
        /\ {Value(i, Arg(t)), Value(i, Method(Arg(t)))} \subseteq PipelineCalls
    BY <1>1, StageCalls
  <2> QED BY <1>1, <2>1, <2>2 DEF Silent
<1>3. ASSUME NEW calls \in Seq(Silent), Makes(t, calls)
      PROVE  LeadsOnly(t)
  BY <1>0, <1>3, DirectCalls
<1>4. /\ <<Cancel(i - 1)>> \in Seq(Silent) /\ <<Cancel(i)>> \in Seq(Silent)
      /\ <<Completion(i)>> \in Seq(Silent) /\ <<Failure(i)>> \in Seq(Silent)
      /\ <<Subscription(i)>> \in Seq(Silent) /\ <<Call(i - 1, "subscribe", 0)>> \in Seq(Silent)
      /\ \A n \in Nat : <<Request(i - 1, n)>> \in Seq(Silent)
      /\ Releases(i) \in Seq(Silent) /\ <<Filtered(i, TRUE)>> \in Seq(Silent)
  <2>1. <<Call(i, "release", 0)>> \in Seq(Silent)
    BY <1>2, ShortSequences
  <2> QED BY <1>1, <1>2, <2>1, ShortSequences DEF Releases
<1>5. CASE SubscriptionStep(t, i)
  <2>1. CASE ForwardRequest(t, i) \/ ForwardCancel(t, i) \/ FilterRequest(t, i) \/ FilterCancel(t, i)
    <3>1. PICK calls \in {<<>>, <<Request(i - 1, Arg(t))>>, <<Cancel(i - 1)>>} : Makes(t, calls)
      BY <2>1 DEF ForwardRequest, ForwardCancel, FilterRequest, FilterCancel
    <3> QED BY <1>1, <1>3, <1>4, <3>1
  <2>2. CASE FilterOnNext(t, i)
    <3> DEFINE requested == IF Arg(t) = 1 THEN link[i].m_requested
                            ELSE Decrement(link[i].m_requested)
    <3>1. requested \in Nat
      BY <1>1, SizesAreTyped DEF LinkState
    <3>2. PICK calls \in {<<>>, <<Request(i - 1, requested)>>} : Makes(t, calls)
      BY <2>2 DEF FilterOnNext
    <3> HIDE DEF requested
    <3> QED BY <1>1, <1>3, <1>4, <3>1, <3>2
  <2> QED BY <1>5, <2>1, <2>2 DEF SubscriptionStep
<1>6. ASSUME \/ Subscribe(t, i) \/ Fails(t, i) \/ Release(t, i) \/ Ignores(t, i) \/ Completes(t, i)
             \/ \E keeps \in BOOLEAN : OnSubscribe(t, i, keeps)
             \/ Answers(t, i, "tested", <<>>) \/ Stops(t, i, "tested")
      PROVE  LeadsOnly(t)
  <2>1. <<Failure(i)>> \o Releases(i) \in Seq(Silent)
    BY <1>4, ConcatProperties
  <2>2. \A s \in Seq(Silent) : s \o <<Completion(i)>> \o Releases(i) \in Seq(Silent)
    BY <1>4, ConcatProperties
  <2>3. CASE Completes(t, i)
    <3> DEFINE given == [k \in DOMAIN <<>> |-> Value(i, <<>>[k])]
    <3>1. given = <<>>
      OBVIOUS
    <3>2. Makes(t, given \o <<Completion(i)>> \o Releases(i))
      BY <2>3 DEF Completes, EndsWith, Answers
    <3> QED BY <1>1, <1>3, <2>2, <3>1, <3>2
  <2>4. CASE Stops(t, i, "tested")
    <3> DEFINE first == IF own[i].held THEN <<Cancel(i)>> ELSE <<>>
    <3>1. first \in Seq(Silent) /\ Makes(t, first \o <<Completion(i)>> \o Releases(i))
      BY <1>1, <1>4, <2>4 DEF Stops, Answers
    <3> HIDE DEF first
    <3> QED BY <1>3, <2>2, <3>1
  <2>5. CASE Fails(t, i)
    BY <1>3, <2>1, <2>5 DEF Fails, Answers
  <2> QED BY <1>1, <1>3, <1>4, <1>6, <2>3, <2>4, <2>5
          DEF Subscribe, Release, Ignores, OnSubscribe, Answers
<1>7. ASSUME NEW calls \in Seq(PipelineCalls), Led(calls), Makes(t, calls),
             Head(agenda[t]).sig = "onNext"
      PROVE  LeadsOnly(t)
  BY <1>7 DEF LeadsOnly
<1>8. /\ <<Value(i, Arg(t))>> \in Seq(PipelineCalls) /\ Led(<<Value(i, Arg(t))>>)
      /\ <<Value(i, Method(Arg(t)))>> \in Seq(PipelineCalls) /\ Led(<<Value(i, Method(Arg(t)))>>)
      /\ <<Value(i, Arg(t)), Filtered(i, FALSE)>> \in Seq(PipelineCalls)
      /\ Led(<<Value(i, Arg(t)), Filtered(i, FALSE)>>)
      /\ <<Value(i, Arg(t)), Filtered(i, FALSE), Call(i, "tested", 0)>> \in Seq(PipelineCalls)
      /\ Led(<<Value(i, Arg(t)), Filtered(i, FALSE), Call(i, "tested", 0)>>)
  BY <1>2, SilentCalls, ShortSequences, ShortLed
<1>9. CASE Map(t, i)
  <2>1. Relays(t, i) \/ Answers(t, i, "onNext", <<Value(i, Method(Arg(t)))>>) \/ Completes(t, i)
    BY <1>9 DEF Map
  <2> QED BY <1>6, <1>7, <1>8, <2>1 DEF Relays, Answers, On
<1>10. CASE Tap(t, i)
  <2>1. Relays(t, i) \/ Answers(t, i, "onNext", <<Value(i, Arg(t))>>) \/ Completes(t, i)
    BY <1>10 DEF Tap, Forwards
  <2> QED BY <1>6, <1>7, <1>8, <2>1 DEF Relays, Answers, On
<1>11. CASE Filter(t, i)
  <2>1. \/ Keeps(t, i) \/ Completes(t, i)
        \/ Answers(t, i, "onNext", <<Value(i, Arg(t)), Filtered(i, FALSE)>>)
        \/ Answers(t, i, "onNext", <<Filtered(i, TRUE)>>)
    BY <1>11 DEF Filter
  <2> QED BY <1>3, <1>4, <1>6, <1>7, <1>8, <2>1 DEF Keeps, Answers, On
<1>12. CASE Take(t, i)
  <2> DEFINE calls == <<Value(i, Arg(t)), Filtered(i, FALSE), Call(i, "tested", 0)>>
  <2>1. \/ Keeps(t, i) \/ Completes(t, i) \/ Ignores(t, i)
        \/ Notes(t, i, "onNext", "m_count", own[i].m_count - 1, calls)
        \/ Answers(t, i, "tested", <<>>) \/ Stops(t, i, "tested")
    BY <1>12 DEF Take
  <2>2. calls \in Seq(PipelineCalls) /\ Led(calls)
    BY <1>8
  <2> HIDE DEF calls
  <2> QED BY <1>6, <1>7, <2>1, <2>2 DEF Keeps, Notes, On
<1>13. SubscriptionStep(t, i) \/ Map(t, i) \/ Tap(t, i) \/ Filter(t, i) \/ Take(t, i)
  BY DEF OperatorStep, Does, Direct, AllOf, AnyOf, NoneOf, FirstElement, ElementAt, LastElement,
         Maximum, Minimum, Count, Reduce, DefaultIfEmpty, IgnoreElements, TakeWhile, ObserveOn,
         SubscribeOn, Delay, FlatMap, AndThen, SwitchOnError
<1> QED BY <1>5, <1>9, <1>10, <1>11, <1>12, <1>13

LEMMA DirectSource ==
  ASSUME CallsTypeOK, SourceOK(source), NEW t \in Threads, SourceStep(t),
         source.kind \in {"range", "defer"}, source'.kind \in {"range", "defer"},
         source.m_canceled => source.kind = "range"
  PROVE  \/ UNCHANGED callVars /\ source'.m_canceled = source.m_canceled /\ ~source.m_canceled
         \/ \E calls \in Seq(PipelineCalls) :
              /\ Makes(t, calls) /\ Led(calls)
              /\ source'.m_canceled => source'.kind = "range" /\ calls \in Seq(Silent)
<1>1. RangeSource(t) \/ Defer(t) \/ MethodReturns(t)
  BY DEF SourceStep, Empty, Just, Never, Error, Interval, Create, CallsMethod, MethodWaits,
         ObservableGate, SingleGate, MaybeGate, CompletableGate, Is, Gates
<1>2. CASE MethodReturns(t)
  <2>1. Makes(t, <<>>) /\ source' = source
    <3>1. <<>> \o <<>> = <<>>
      OBVIOUS
    <3> QED BY <1>2, <3>1 DEF MethodReturns, Quietly, Emits
  <2> QED BY <2>1, EmptySeq, SilentIsLed
<1>3. CASE Defer(t)
  <2>1. PICK kind \in {"range", "error"} : source' = [source EXCEPT !.kind = kind]
    BY <1>3 DEF Defer
  <2> QED BY <1>3, <2>1 DEF Defer, Is, callVars, SourceOK, SourceMembers
<1>4. CASE RangeSource(t)
  <2>0. source.kind = "range" /\ source \in SourceMembers /\ agenda[t] # <<>>
    BY <1>4 DEF RangeSource, Is, SourceOK, HandsSubscription, RangeStops, RangeCompletes, RangeTurn,
                RangeCancel, On
  <2>1. \A c \in {Completion(0), Subscription(0)} : c \in Silent
    <3>1. Completion(0).sig # "onNext" /\ Subscription(0).sig # "onNext"
      BY DEF Completion, Subscription, Call
    <3>2. 0 \in Nat
      OBVIOUS
    <3> QED BY <3>1, <3>2, SourceCalls DEF Silent
  <2>2. <<Completion(0)>> \in Seq(Silent) /\ <<Subscription(0)>> \in Seq(Silent) /\ <<>> \in Seq(Silent)
    BY <2>1, ShortSequences, EmptySeq
  <2>3. ASSUME NEW signals \in Seq(Silent), NEW more \in Seq(Silent), Emits(t, signals, more),
               source'.kind = "range"
        PROVE  \E calls \in Seq(PipelineCalls) :
                 /\ Makes(t, calls) /\ Led(calls)
                 /\ source'.m_canceled => source'.kind = "range" /\ calls \in Seq(Silent)
    <3>1. signals \o more \in Seq(Silent)
      BY ConcatProperties
    <3> QED BY <2>0, <2>3, <3>1, SilentCalls, LargerSet, SilentIsLed DEF Emits
  <2>4. CASE RangeTurn(t)
    <3> DEFINE calls == <<Value(0, source.elements[source.m_current])>> \o <<Request(0, Arg(t) - 1)>>
    <3>1. /\ Makes(t, calls) /\ source' = [source EXCEPT !.m_current = @ + 1]
          /\ ~source.m_canceled
      BY <2>4 DEF RangeTurn, Emits, RangeEnded
    <3>2. source.elements[source.m_current] \in Nat /\ Arg(t) - 1 \in Nat
      <4>1. source.elements \in Seq(Nat) /\ source.m_current \in Nat \ {0} /\ Arg(t) \in Nat
        BY <2>0, InputsAssumption, HeadIsTyped DEF SourceMembers
      <4>2. source.m_current \in 1 .. Len(source.elements) /\ Arg(t) > 0
        BY <2>4, <4>1, LenProperties DEF RangeTurn, RangeDone
      <4> QED BY <4>1, <4>2, ElementOfSeq
    <3>3. /\ Value(0, source.elements[source.m_current]) \in PipelineCalls
          /\ Request(0, Arg(t) - 1) \in Silent
      <4>1. Request(0, Arg(t) - 1) \in PipelineCalls /\ Request(0, Arg(t) - 1).sig # "onNext"
        BY <3>2, SourceCalls DEF Request, Call
      <4> QED BY <3>2, <4>1, SourceCalls DEF Silent
    <3>4. calls \in Seq(PipelineCalls) /\ Led(calls)
      <4> DEFINE value == Value(0, source.elements[source.m_current])
                 rest  == Request(0, Arg(t) - 1)
      <4>1. value \in PipelineCalls /\ rest \in Silent
        BY <3>3
      <4> HIDE DEF value, rest
      <4>2. <<value>> \in Seq(PipelineCalls) /\ Led(<<value>>) /\ <<rest>> \in Seq(Silent)
            /\ <<rest>> \in Seq(PipelineCalls)
        BY <4>1, SilentCalls, ShortSequences, ShortLed
      <4>3. <<value>> \o <<rest>> \in Seq(PipelineCalls) /\ Led(<<value>> \o <<rest>>)
        BY <4>2, ConcatProperties, LedConcat
      <4> QED BY <4>3 DEF value, rest
    <3> HIDE DEF calls
    <3>5. ~source'.m_canceled /\ source'.kind = "range"
      BY <2>0, <3>1 DEF SourceMembers
    <3> QED BY <2>0, <3>1, <3>4, <3>5
  <2>5. CASE HandsSubscription(t) \/ RangeStops(t) \/ RangeCompletes(t) \/ RangeCancel(t)
    <3>1. source'.kind = "range"
      BY <2>0, <2>5 DEF HandsSubscription, RangeStops, RangeCompletes, RangeCancel, SourceMembers
    <3>2. PICK signals \in Seq(Silent), more \in Seq(Silent) : Emits(t, signals, more)
      BY <2>2, <2>5 DEF HandsSubscription, RangeStops, RangeCompletes, RangeCancel, Quietly
    <3> QED BY <2>3, <3>1, <3>2
  <2> QED BY <1>4, <2>4, <2>5 DEF RangeSource
<1> QED BY <1>1, <1>2, <1>3, <1>4

LEMMA InitIsDirect ==
  ASSUME Init
  PROVE  CancelInv
<1>1. /\ pending = <<>> /\ \A w \in Workers : agenda[w] = <<>>
      /\ agenda[Client] = <<Call(Depth, "subscribe", 0)>> /\ ~source.m_canceled
  BY ThreadsAssumption DEF Init, SignalsInit, SourceInit, Threads
<1>2. Led(agenda[Client])
  <2>1. \A c : Len(<<c>>) = 1 /\ \A k \in 2 .. 1 : FALSE
    OBVIOUS
  <2> QED BY <1>1, <2>1 DEF Led
<1> QED BY <1>1, <1>2 DEF CancelInv, OnlyClient

LEMMA KeptByClient ==
  ASSUME TypesInv, OnlyClient, NEW calls \in Seq(PipelineCalls), agenda[Client] # <<>>,
         Makes(Client, calls), Led(calls),
         source'.m_canceled => source'.kind = "range" /\ calls \in Seq(Silent)
  PROVE  OnlyClient'
<1>1. /\ Client \in Threads /\ agenda \in [Threads -> Seq(PipelineCalls)]
      /\ agenda' = [agenda EXCEPT ![Client] = calls \o Tail(agenda[Client])]
      /\ pending' = <<>>
  BY DEF Threads, TypesInv, CallsTypeOK, OnlyClient, Makes
<1>2. Tail(agenda[Client]) \in Seq(Silent)
  BY <1>1, TailIsSilent DEF OnlyClient
<1>3. /\ agenda'[Client] = calls \o Tail(agenda[Client])
      /\ \A w \in Workers : agenda'[w] = <<>>
  BY <1>1, ThreadsAssumption DEF OnlyClient, Threads
<1> QED BY <1>1, <1>2, <1>3, LedConcat DEF OnlyClient, Led

LEMMA SilentHead ==
  ASSUME NEW s \in Seq(Silent), s # <<>>
  PROVE  Head(s).sig # "onNext"
BY HeadTailProperties DEF Silent

LEMMA SourceActs ==
  ASSUME NEW t, SourceStep(t)
  PROVE  agenda[t] # <<>>
BY DEF SourceStep, Empty, Just, Never, RangeSource, Error, Defer, Interval, Create,
       HandsSubscription, JustRequest, RangeStops, RangeCompletes, RangeTurn, RangeCancel,
       IntervalRequest, IntervalCancel, IntervalTick, IntervalAgain, CallsMethod, MethodEmits,
       MethodWaits, MethodReturns, ObservableGate, SingleGate, MaybeGate, CompletableGate, Passes, On

LEMMA SourceKindKept ==
  ASSUME SourceOK(source), NEW t, SourceStep(t)
  PROVE  source'.kind = source.kind \/ (source.kind = "defer" /\ source'.kind \in {"range", "error"})
<1>1. source \in SourceMembers
  BY DEF SourceOK
<1>2. CASE Defer(t)
  BY <1>1, <1>2 DEF Defer, Is, SourceMembers
<1>3. CASE Empty(t) \/ Just(t) \/ Never(t) \/ Error(t)
  BY <1>1, <1>3 DEF Empty, Just, Never, Error, HandsSubscription, JustRequest, SourceMembers
<1>4. CASE RangeSource(t)
  BY <1>1, <1>4 DEF RangeSource, HandsSubscription, RangeStops, RangeCompletes, RangeTurn,
                    RangeCancel, SourceMembers
<1>5. CASE Interval(t)
  BY <1>1, <1>5 DEF Interval, HandsSubscription, IntervalRequest, IntervalCancel, IntervalTick,
                    IntervalAgain, TryRequest, SourceMembers
<1>6. CASE Create(t)
  BY <1>1, <1>6 DEF Create, CallsMethod, MethodWaits, MethodReturns, ObservableGate, SingleGate,
                    MaybeGate, CompletableGate, MethodEmits, Passes, SourceMembers, sourceVars
<1> QED BY <1>2, <1>3, <1>4, <1>5, <1>6 DEF SourceStep

LEMMA StepIsDirect ==
  ASSUME ClosuresTypeOK, TypesInv, CancelInv, [NextStep]_vars
  PROVE  CancelInv'
<1> SUFFICES ASSUME source'.kind \in {"range", "defer"}, UsesOnly(Direct)'
             PROVE  OnlyClient'
  BY DEF CancelInv
<1>1. Client \in Threads /\ \A t \in Threads : t = Client \/ t \in Workers
  BY DEF Threads
<1>2. ASSUME source.kind \in {"range", "defer"}, UsesOnly(Direct)
      PROVE  OnlyClient /\ \A t \in Threads : agenda[t] # <<>> => t = Client
  BY <1>1, <1>2 DEF CancelInv, OnlyClient
<1>3. ASSUME NEW t \in Threads, SourceStep(t), UNCHANGED <<stageVars, subscriberVars>>
      PROVE  OnlyClient'
  <2>1. agenda[t] # <<>>
    BY <1>3, SourceActs
  <2>2. source.kind \in {"range", "defer"} /\ UsesOnly(Direct)
    BY <1>3, SourceKindKept DEF TypesInv, UsesOnly, Does, stageVars
  <2>3. OnlyClient /\ t = Client
    BY <1>2, <2>1, <2>2
  <2>4. source.m_canceled => source.kind = "range"
    BY <2>3 DEF OnlyClient
  <2>5. CASE UNCHANGED callVars /\ source'.m_canceled = source.m_canceled /\ ~source.m_canceled
    BY <2>3, <2>5 DEF OnlyClient, callVars, Led
  <2>6. CASE \E calls \in Seq(PipelineCalls) :
               /\ Makes(t, calls) /\ Led(calls)
               /\ source'.m_canceled => source'.kind = "range" /\ calls \in Seq(Silent)
    <3>1. PICK calls \in Seq(PipelineCalls) :
                 /\ Makes(t, calls) /\ Led(calls)
                 /\ source'.m_canceled => source'.kind = "range" /\ calls \in Seq(Silent)
      BY <2>6
    <3> QED BY <2>1, <2>3, <3>1, KeptByClient
  <2> QED BY <1>3, <2>2, <2>4, <2>5, <2>6, DirectSource DEF TypesInv
<1>4. ASSUME NEW t \in Threads, NEW i \in Stages, OperatorStep(t, i),
             UNCHANGED <<sourceVars, subscriberVars>>
      PROVE  OnlyClient'
  <2>1. agenda[t] # <<>> /\ source' = source
    BY <1>4 DEF OperatorStep, sourceVars
  <2>2. \A j \in Stages : own'[j].name = own[j].name
    BY <1>4, OperatorsHandle, HandledIsTyped DEF TypesInv
  <2>3. source.kind \in {"range", "defer"} /\ UsesOnly(Direct)
    BY <2>1, <2>2 DEF UsesOnly, Does
  <2>4. OnlyClient /\ t = Client
    BY <1>2, <2>1, <2>3
  <2>5. PICK calls \in Seq(PipelineCalls) :
               /\ Makes(t, calls) /\ Led(calls)
               /\ Head(agenda[t]).sig # "onNext" => calls \in Seq(Silent)
    BY <1>4, <2>3, DirectOperator DEF TypesInv, LeadsOnly, UsesOnly
  <2>6. source'.m_canceled => source'.kind = "range" /\ calls \in Seq(Silent)
    BY <2>1, <2>4, <2>5, SilentHead DEF OnlyClient
  <2> QED BY <2>1, <2>4, <2>5, <2>6, KeptByClient
<1>5. ASSUME NEW t \in Threads, SubscriberStep(t), UNCHANGED <<sourceVars, stageVars>>
      PROVE  OnlyClient'
  <2>1. agenda[t] # <<>> /\ source' = source
    BY <1>5 DEF SubscriberStep, OnSubscribed, OnNext, Received, OnEnd, On, sourceVars
  <2>2. source.kind \in {"range", "defer"} /\ UsesOnly(Direct)
    BY <1>5, <2>1 DEF UsesOnly, Does, stageVars
  <2>3. OnlyClient /\ t = Client
    BY <1>2, <2>1, <2>2
  <2>4. PICK calls \in Seq(UserSent) : Makes(t, calls)
    BY <1>5, SubscriberCalls
  <2>5. calls \in Seq(Silent) /\ calls \in Seq(PipelineCalls) /\ Led(calls)
    BY <2>4, SilentCalls, LargerSet, SilentIsLed
  <2>6. source'.m_canceled => source'.kind = "range" /\ calls \in Seq(Silent)
    BY <2>1, <2>3, <2>5 DEF OnlyClient
  <2> QED BY <2>1, <2>3, <2>4, <2>5, <2>6, KeptByClient
<1>6. ASSUME NEW w \in Workers, Takes(w)
      PROVE  OnlyClient'
  <2>1. source.kind \in {"range", "defer"} /\ UsesOnly(Direct)
    BY <1>6 DEF Takes, UsesOnly, Does, stageVars, sourceVars
  <2>2. pending = <<>>
    BY <1>2, <2>1 DEF OnlyClient
  <2> QED BY <1>6, <2>2 DEF Takes, Dispatch
<1>7. ASSUME UserCalls, UNCHANGED <<sourceVars, stageVars>>
      PROVE  OnlyClient'
  <2>1. source' = source /\ source.kind \in {"range", "defer"} /\ UsesOnly(Direct)
    BY <1>7 DEF UsesOnly, Does, stageVars, sourceVars
  <2>2. PICK d \in UserSent : agenda' = [agenda EXCEPT ![Client] = <<d>>] /\ UNCHANGED pending
    BY <1>7, UserMakesOne
  <2>3. <<d>> \in Seq(Silent) /\ Led(<<d>>)
    BY SilentCalls, ShortSequences, SilentIsLed
  <2>4. agenda'[Client] = <<d>> /\ \A w \in Workers : agenda'[w] = agenda[w]
    BY <1>1, <2>2, ThreadsAssumption DEF TypesInv, CallsTypeOK, Threads
  <2> QED BY <1>2, <2>1, <2>2, <2>3, <2>4 DEF OnlyClient, Led
<1>8. ASSUME UNCHANGED vars
      PROVE  OnlyClient'
  <2>1. /\ source' = source /\ own' = own /\ agenda' = agenda /\ pending' = pending
    BY <1>8 DEF vars, callVars, sourceVars, stageVars
  <2>2. OnlyClient
    BY <1>2, <2>1 DEF UsesOnly, Does
  <2> QED BY <2>1, <2>2 DEF OnlyClient, Led
<1> QED BY <1>3, <1>4, <1>5, <1>6, <1>7, <1>8 DEF NextStep, Step, Works, Terminated

(* Once cancel() has reached a range below any number of map, tap, filter  *)
(* and take, in a nested call from within its loop or not, the subscriber  *)
(* gets no further value: it is not in a call under way, and none makes it.*)
THEOREM PipelineCancelStops ==
  ASSUME ClosuresTypeOK
  PROVE  Spec => CancelStops
<1>1. Init => TypesInv /\ CancelInv
  BY InitIsTyped, InitIsDirect
<1>2. TypesInv /\ CancelInv /\ [NextStep]_vars => (TypesInv /\ CancelInv)'
  BY StepIsTyped, StepIsDirect
<1>3. ASSUME TypesInv, CancelInv, [NextStep]_vars,
             source.kind = "range", source.m_canceled, UsesOnly(Direct)
      PROVE  /\ log'.values = log.values
             /\ \A k \in DOMAIN log'.late \ DOMAIN log.late : log'.late[k].sig # "onNext"
  <2>1. OnlyClient /\ agenda[Client] \in Seq(Silent)
    BY <1>3 DEF CancelInv, OnlyClient
  <2>2. CASE log' = log
    BY <2>2
  <2>3. ASSUME NEW t \in Threads, SubscriberStep(t), log' # log
        PROVE  /\ log'.values = log.values
               /\ \A k \in DOMAIN log'.late \ DOMAIN log.late : log'.late[k].sig # "onNext"
    <3>1. OnNext(t) \/ OnEnd(t)
      BY <2>3 DEF SubscriberStep, OnSubscribed, Received
    <3>2. agenda[t] # <<>> /\ log' = Logged(Head(agenda[t]))
      BY <3>1 DEF OnNext, OnEnd, On
    <3>3. t = Client
      BY <2>1, <3>2 DEF OnlyClient, Threads
    <3>4. Head(agenda[t]).sig # "onNext"
      BY <2>1, <3>2, <3>3, SilentHead
    <3>5. OnEnd(t) /\ Head(agenda[t]).sig \in Ends
      BY <3>1, <3>4 DEF OnNext, OnEnd, On, Ends
    <3>6. log \in [values : Seq(Nat), end : Ends \cup {"none"},
                  late : Seq(Calls(Ends \cup {"onNext"}))]
      BY <1>3 DEF TypesInv, SubscriberTypeOK
    <3>7. CASE Ended
      <4>1. log' = [log EXCEPT !.late = Append(log.late, Head(agenda[t]))]
        BY <3>2, <3>7 DEF Logged
      <4>2. log.late \in Seq(Calls(Ends \cup {"onNext"}))
        BY <3>6
      <4>3. Head(agenda[t]) \in Calls(Ends \cup {"onNext"})
        <5>1. Head(agenda[t]) \in Calls(Sent)
          BY <1>3, <3>2, HeadIsTyped DEF TypesInv
        <5> QED BY <3>5, <5>1 DEF Calls
      <4>4. /\ DOMAIN log.late = 1 .. Len(log.late) /\ Len(log.late) \in Nat
            /\ DOMAIN Append(log.late, Head(agenda[t])) = 1 .. Len(log.late) + 1
            /\ Append(log.late, Head(agenda[t]))[Len(log.late) + 1] = Head(agenda[t])
        BY <4>2, <4>3, AppendProperties, LenProperties
      <4>5. log'.values = log.values /\ log'.late = Append(log.late, Head(agenda[t]))
        BY <3>6, <4>1
      <4>6. \A k \in DOMAIN log'.late \ DOMAIN log.late : k = Len(log.late) + 1
        BY <4>4, <4>5
      <4> QED BY <3>4, <4>4, <4>5, <4>6
    <3>8. CASE ~Ended
      BY <3>2, <3>5, <3>6, <3>8 DEF Logged
    <3> QED BY <3>7, <3>8
  <2>4. log' = log \/ \E t \in Threads : SubscriberStep(t)
    BY <1>3 DEF NextStep, Step, Works, Takes, Terminated, UserCalls, vars, subscriberVars
  <2> QED BY <2>2, <2>3, <2>4
<1>4. TypesInv /\ CancelInv /\ [NextStep]_vars =>
        [ source.kind = "range" /\ source.m_canceled /\ UsesOnly({"map", "tap", "filter", "take"})
          => /\ log'.values = log.values
             /\ \A k \in DOMAIN log'.late \ DOMAIN log.late : log'.late[k].sig # "onNext" ]_vars
  BY <1>3 DEF Direct
<1> QED BY <1>1, <1>2, <1>4, PTL DEF Spec, CancelStops

---------------------------------------------------------------------------
(* The calls under way and the tasks pending, each of which counts for     *)
(* something: the weight of a sequence of calls is the sum of theirs.      *)
Weights         == [PipelineCalls -> Nat]
Weighed(z, s)   == [k \in DOMAIN s |-> z[s[k]]]
Weight(z, s)    == Total(Weighed(z, s))
Waiting(s)      == [k \in DOMAIN s |-> s[k].call]
WeightsOf(z, a) == [t \in Threads |-> Weight(z, a[t])]
Afoot(z, a, p)  == Total(WeightsOf(z, a)) + Weight(z, Waiting(p))
Finite(z, a)    == IsFiniteSet(Pieces(WeightsOf(z, a)))

LEMMA WeightsAre ==
  ASSUME NEW z \in Weights, NEW s \in Seq(PipelineCalls)
  PROVE  /\ Weighed(z, s) \in Seq(Nat) /\ Len(Weighed(z, s)) = Len(s) /\ Len(s) \in Nat
         /\ \A k \in 1 .. Len(s) : Weighed(z, s)[k] = z[s[k]]
         /\ Weight(z, s) \in Nat
         /\ \A c \in PipelineCalls : z[c] \in Nat
<1>1. \A c \in PipelineCalls : z[c] \in Nat
  BY DEF Weights
<1>2. DOMAIN s = 1 .. Len(s) /\ Len(s) \in Nat /\ \A k \in 1 .. Len(s) : s[k] \in PipelineCalls
  BY LenProperties, ElementOfSeq
<1> DEFINE n == Len(s)
           f == [k \in 1 .. n |-> z[s[k]]]
<1>3. n \in Nat /\ Weighed(z, s) = f /\ \A k \in 1 .. n : f[k] = z[s[k]] /\ f[k] \in Nat
  BY <1>1, <1>2 DEF Weighed
<1>4. f \in Seq(Nat) /\ Len(f) = n
  <2>1. n \in Nat /\ f = [k \in 1 .. n |-> f[k]] /\ \A k \in 1 .. n : f[k] \in Nat
    BY <1>3
  <2>2. DOMAIN f = 1 .. n
    OBVIOUS
  <2> HIDE DEF n, f
  <2>3. f \in Seq(Nat)
    BY <2>1, IsASeq
  <2>4. Len(f) \in Nat /\ DOMAIN f = 1 .. Len(f)
    BY <2>3, LenProperties
  <2> QED BY <2>1, <2>2, <2>3, <2>4
<1>5. Weight(z, s) \in Nat
  BY <1>3, <1>4, TotalOfSequence DEF Weight
<1> QED BY <1>1, <1>2, <1>3, <1>4, <1>5

LEMMA WeightConcat ==
  ASSUME NEW z \in Weights, NEW s \in Seq(PipelineCalls), NEW r \in Seq(PipelineCalls)
  PROVE  Weight(z, s \o r) = Weight(z, s) + Weight(z, r)
<1>1. PICK b : b = s \o r
  OBVIOUS
<1>2. /\ b \in Seq(PipelineCalls) /\ Len(b) = Len(s) + Len(r)
      /\ \A k \in 1 .. Len(s) + Len(r) : b[k] = IF k <= Len(s) THEN s[k] ELSE r[k - Len(s)]
  BY <1>1, ConcatProperties
<1>3. PICK f \in Seq(Nat), g \in Seq(Nat), h \in Seq(Nat) :
        f = Weighed(z, s) /\ g = Weighed(z, r) /\ h = Weighed(z, b)
  BY <1>2, WeightsAre
<1>4. /\ Len(f) = Len(s) /\ \A k \in 1 .. Len(s) : f[k] = z[s[k]]
      /\ Len(g) = Len(r) /\ \A k \in 1 .. Len(r) : g[k] = z[r[k]]
      /\ Len(h) = Len(b) /\ \A k \in 1 .. Len(b) : h[k] = z[b[k]]
      /\ Len(s) \in Nat /\ Len(r) \in Nat
  BY <1>2, <1>3, WeightsAre
<1>5. PICK e : e = f \o g
  OBVIOUS
<1>6. /\ e \in Seq(Nat) /\ Len(e) = Len(f) + Len(g)
      /\ \A k \in 1 .. Len(f) + Len(g) : e[k] = IF k <= Len(f) THEN f[k] ELSE g[k - Len(f)]
  BY <1>5, ConcatProperties
<1>7. ASSUME NEW k \in 1 .. Len(h)
      PROVE  h[k] = e[k]
  <2>1. CASE k <= Len(s)
    <3>1. k \in 1 .. Len(s) /\ k \in 1 .. Len(s) + Len(r)
      BY <1>2, <1>4, <2>1
    <3>2. b[k] = s[k] /\ e[k] = f[k]
      BY <1>2, <1>4, <1>6, <2>1, <3>1
    <3> QED BY <1>4, <3>1, <3>2
  <2>2. CASE ~(k <= Len(s))
    <3>1. k - Len(s) \in 1 .. Len(r) /\ k \in 1 .. Len(s) + Len(r)
      BY <1>2, <1>4, <2>2
    <3>2. b[k] = r[k - Len(s)] /\ e[k] = g[k - Len(s)]
      BY <1>2, <1>4, <1>6, <2>2, <3>1
    <3> QED BY <1>4, <3>1, <3>2
  <2> QED BY <2>1, <2>2
<1>8. h = e
  BY <1>2, <1>4, <1>6, <1>7, SeqEqual
<1> QED BY <1>1, <1>3, <1>5, <1>8, TotalConcat DEF Weight

LEMMA WeightOfFew ==
  ASSUME NEW z \in Weights
  PROVE
  /\ Weight(z, <<>>) = 0 /\ <<>> \in Seq(PipelineCalls)
  /\ \A c \in PipelineCalls : Weight(z, <<c>>) = z[c] /\ <<c>> \in Seq(PipelineCalls)
  /\ \A c, d \in PipelineCalls :
       Weight(z, <<c, d>>) = z[c] + z[d] /\ <<c, d>> \in Seq(PipelineCalls)
  /\ \A c, d, e \in PipelineCalls :
       Weight(z, <<c, d, e>>) = z[c] + z[d] + z[e] /\ <<c, d, e>> \in Seq(PipelineCalls)
<1>1. Weighed(z, <<>>) = <<>> /\ \A c : Weighed(z, <<c>>) = <<z[c]>>
  <2>1. DOMAIN <<>> = {} /\ \A c : DOMAIN <<c>> = {1} /\ <<c>>[1] = c
    OBVIOUS
  <2>2. Weighed(z, <<>>) = <<>>
    BY <2>1 DEF Weighed
  <2>3. ASSUME NEW c PROVE Weighed(z, <<c>>) = <<z[c]>>
    BY <2>1 DEF Weighed
  <2> QED BY <2>2, <2>3
<1>2. \A c, d, e \in PipelineCalls : /\ <<c>> \in Seq(PipelineCalls) /\ <<c, d>> \in Seq(PipelineCalls)
                                     /\ <<c, d, e>> \in Seq(PipelineCalls)
  BY ShortSequences
<1>3. Weight(z, <<>>) = 0 /\ <<>> \in Seq(PipelineCalls)
  BY <1>1, TotalOfFew DEF Weight
<1>4. \A c \in PipelineCalls : Weight(z, <<c>>) = z[c] /\ z[c] \in Nat
  <2>1. \A c \in PipelineCalls : z[c] \in Nat
    BY <1>3, WeightsAre
  <2> QED BY <1>1, <2>1, TotalOfFew DEF Weight
<1>5. \A c, d \in PipelineCalls : Weight(z, <<c, d>>) = z[c] + z[d]
  <2> SUFFICES ASSUME NEW c \in PipelineCalls, NEW d \in PipelineCalls
               PROVE  Weight(z, <<c, d>>) = z[c] + z[d]
    OBVIOUS
  <2>1. <<c, d>> = <<c>> \o <<d>>
    BY TupleConcat
  <2>2. Weight(z, <<c>> \o <<d>>) = Weight(z, <<c>>) + Weight(z, <<d>>)
    BY <1>2, WeightConcat
  <2>3. Weight(z, <<c>>) = z[c] /\ Weight(z, <<d>>) = z[d]
    BY <1>4
  <2> QED BY <2>1, <2>2, <2>3
<1>6. \A c, d, e \in PipelineCalls : Weight(z, <<c, d, e>>) = z[c] + z[d] + z[e]
  <2> SUFFICES ASSUME NEW c \in PipelineCalls, NEW d \in PipelineCalls, NEW e \in PipelineCalls
               PROVE  Weight(z, <<c, d, e>>) = z[c] + z[d] + z[e]
    OBVIOUS
  <2>1. <<c, d, e>> = <<c, d>> \o <<e>>
    OBVIOUS
  <2>2. PICK r \in Seq(PipelineCalls), s \in Seq(PipelineCalls) : r = <<c, d>> /\ s = <<e>>
    BY <1>2
  <2>3. Weight(z, r \o s) = Weight(z, r) + Weight(z, s)
    BY WeightConcat
  <2> QED BY <1>4, <1>5, <2>1, <2>2, <2>3
<1> QED BY <1>2, <1>3, <1>4, <1>5, <1>6

LEMMA WeightOfHead ==
  ASSUME NEW z \in Weights, NEW s \in Seq(PipelineCalls), s # <<>>
  PROVE  /\ Weight(z, s) = z[Head(s)] + Weight(z, Tail(s))
         /\ Tail(s) \in Seq(PipelineCalls) /\ Head(s) \in PipelineCalls
<1>1. /\ Tail(s) \in Seq(PipelineCalls) /\ Head(s) \in PipelineCalls
      /\ <<Head(s)>> \in Seq(PipelineCalls) /\ Weight(z, <<Head(s)>>) = z[Head(s)]
  BY HeadTailProperties, WeightOfFew
<1>2. s = <<Head(s)>> \o Tail(s)
  BY ConcatProperties, HeadTailProperties
<1> QED BY <1>1, <1>2, WeightConcat

LEMMA WeightWithout ==
  ASSUME NEW z \in Weights, NEW s \in Seq(PipelineCalls), NEW k \in 1 .. Len(s)
  PROVE  /\ RemoveAt(s, k) \in Seq(PipelineCalls)
         /\ Weight(z, RemoveAt(s, k)) + z[s[k]] = Weight(z, s)
<1>2. Len(s) \in Nat /\ s[k] \in PipelineCalls
  BY LenProperties, ElementOfSeq
<1>3. PICK n \in Nat : n = Len(s) /\ k \in 1 .. n /\ \A i \in 1 .. n : s[i] \in PipelineCalls
  BY <1>2, ElementOfSeq
<1>1. PICK p : p = SubSeq(s, 1, k - 1) /\ p \in Seq(PipelineCalls)
               /\ Len(p) = k - 1 /\ \A j \in 1 .. k - 1 : p[j] = s[j]
  <2> DEFINE p == SubSeq(s, 1, k - 1)
  <2>1. p \in Seq(PipelineCalls) /\ Len(p) = k - 1 /\ \A j \in 1 .. k - 1 : p[j] = s[j]
    BY <1>3, SubSeqProperties
  <2> QED BY <2>1
<1>a. PICK q : q = SubSeq(s, k + 1, Len(s)) /\ q \in Seq(PipelineCalls)
               /\ Len(q) = n - k /\ \A j \in 1 .. n - k : q[j] = s[k + j]
  <2> DEFINE q == SubSeq(s, k + 1, n)
  <2>1. q \in Seq(PipelineCalls) /\ Len(q) = n - k /\ \A j \in 1 .. n - k : q[j] = s[k + j]
    BY <1>3, SubSeqProperties
  <2> QED BY <1>3, <2>1
<1>4. /\ Len(p) = k - 1 /\ \A j \in 1 .. k - 1 : p[j] = s[j]
      /\ Len(q) = n - k /\ \A j \in 1 .. n - k : q[j] = s[k + j]
  BY <1>1, <1>a
<1>5. PICK m \in Seq(PipelineCalls) : m = <<s[k]>> /\ Len(m) = 1 /\ m[1] = s[k]
  BY <1>2, WeightOfFew
<1>6. PICK r \in Seq(PipelineCalls) :
        /\ r = p \o m /\ Len(r) = k
        /\ \A j \in 1 .. k : r[j] = IF j <= k - 1 THEN p[j] ELSE m[j - (k - 1)]
  <2>1. /\ p \o m \in Seq(PipelineCalls) /\ Len(p \o m) = Len(p) + Len(m)
        /\ \A j \in 1 .. Len(p) + Len(m) : (p \o m)[j] = IF j <= Len(p) THEN p[j] ELSE m[j - Len(p)]
    BY <1>1, ConcatProperties
  <2>2. Len(p) + Len(m) = k /\ Len(p) = k - 1
    BY <1>3, <1>4, <1>5
  <2> QED BY <2>1, <2>2
<1>7. PICK u \in Seq(PipelineCalls) :
        /\ u = r \o q /\ Len(u) = n
        /\ \A j \in 1 .. n : u[j] = IF j <= k THEN r[j] ELSE q[j - k]
  <2>1. /\ r \o q \in Seq(PipelineCalls) /\ Len(r \o q) = Len(r) + Len(q)
        /\ \A j \in 1 .. Len(r) + Len(q) : (r \o q)[j] = IF j <= Len(r) THEN r[j] ELSE q[j - Len(r)]
    BY <1>a, ConcatProperties
  <2>2. Len(r) + Len(q) = n
    BY <1>3, <1>4, <1>6
  <2> QED BY <1>6, <2>1, <2>2
<1>8. ASSUME NEW j \in 1 .. n
      PROVE  u[j] = s[j]
  <2>1. CASE j <= k - 1
    <3>1. j \in 1 .. k /\ j <= k /\ j \in 1 .. k - 1
      BY <1>3, <2>1
    <3> QED BY <1>4, <1>6, <1>7, <2>1, <3>1
  <2>2. CASE j = k
    <3>1. j \in 1 .. k /\ j <= k /\ ~(j <= k - 1) /\ j - (k - 1) = 1
      BY <1>3, <2>2
    <3> QED BY <1>5, <1>6, <1>7, <2>2, <3>1
  <2>3. CASE j > k
    <3>1. ~(j <= k) /\ j - k \in 1 .. n - k /\ k + (j - k) = j
      BY <1>3, <2>3
    <3> QED BY <1>4, <1>7, <3>1
  <2> QED BY <2>1, <2>2, <2>3
<1>9. u = s
  BY <1>3, <1>7, <1>8, SeqEqual
<1>10. Weight(z, s) = Weight(z, p) + z[s[k]] + Weight(z, q)
  <2>1. Weight(z, u) = Weight(z, r) + Weight(z, q)
    BY <1>7, <1>a, WeightConcat
  <2>2. Weight(z, r) = Weight(z, p) + Weight(z, m)
    BY <1>1, <1>6, WeightConcat
  <2>3. Weight(z, m) = z[s[k]]
    BY <1>2, <1>5, WeightOfFew
  <2> QED BY <1>9, <2>1, <2>2, <2>3
<1>11. RemoveAt(s, k) = p \o q
  BY <1>1, <1>a DEF RemoveAt
<1>12. Weight(z, p \o q) = Weight(z, p) + Weight(z, q) /\ p \o q \in Seq(PipelineCalls)
  BY <1>1, <1>a, WeightConcat, ConcatProperties
<1>13. Weight(z, p) \in Nat /\ Weight(z, q) \in Nat /\ z[s[k]] \in Nat
  BY <1>1, <1>a, <1>2, WeightsAre
<1> QED BY <1>10, <1>11, <1>12, <1>13

LEMMA WaitingAre ==
  ASSUME NEW p \in Seq(Tasks)
  PROVE  /\ Waiting(p) \in Seq(PipelineCalls) /\ Len(Waiting(p)) = Len(p) /\ Len(p) \in Nat
         /\ \A k \in 1 .. Len(p) : Waiting(p)[k] = p[k].call
<1>1. /\ DOMAIN p = 1 .. Len(p) /\ Len(p) \in Nat
      /\ \A k \in 1 .. Len(p) : p[k].call \in PipelineCalls
  <2>1. \A k \in 1 .. Len(p) : p[k] \in Tasks
    BY ElementOfSeq
  <2> QED BY <2>1, LenProperties DEF Tasks
<1> DEFINE n == Len(p)
           f == [k \in 1 .. n |-> p[k].call]
<1>2. n \in Nat /\ Waiting(p) = f /\ \A k \in 1 .. n : f[k] = p[k].call /\ f[k] \in PipelineCalls
  BY <1>1 DEF Waiting
<1>3. f = [k \in 1 .. n |-> f[k]] /\ DOMAIN f = 1 .. n
  OBVIOUS
<1> HIDE DEF n, f
<1>4. f \in Seq(PipelineCalls)
  BY <1>2, <1>3, IsASeq
<1>5. Len(f) \in Nat /\ DOMAIN f = 1 .. Len(f)
  BY <1>4, LenProperties
<1>6. Len(f) = n
  BY <1>2, <1>3, <1>5
<1> QED BY <1>1, <1>2, <1>4, <1>6 DEF n

LEMMA WaitingGrows ==
  ASSUME NEW z \in Weights, NEW p \in Seq(Tasks), NEW x \in Tasks
  PROVE  /\ Weight(z, Waiting(Append(p, x))) = Weight(z, Waiting(p)) + z[x.call]
         /\ Append(p, x) \in Seq(Tasks)
<1>2. x.call \in PipelineCalls /\ Len(p) \in Nat
  BY LenProperties DEF Tasks
<1>1. PICK q \in Seq(Tasks) :
        /\ q = Append(p, x) /\ Len(q) = Len(p) + 1 /\ q[Len(p) + 1] = x
        /\ \A k \in 1 .. Len(p) : q[k] = p[k]
  <2>1. Append(p, x) \in Seq(Tasks) /\ Len(Append(p, x)) = Len(p) + 1
    BY AppendProperties
  <2>2. Append(p, x)[Len(p) + 1] = x /\ \A k \in 1 .. Len(p) : Append(p, x)[k] = p[k]
    BY AppendProperties
  <2> QED BY <2>1, <2>2
<1>3. PICK s \in Seq(PipelineCalls), r \in Seq(PipelineCalls), m \in Seq(PipelineCalls) :
        s = Waiting(p) /\ r = Waiting(q) /\ m = <<x.call>> /\ Len(m) = 1 /\ m[1] = x.call
  <2>1. <<x.call>> \in Seq(PipelineCalls) /\ Len(<<x.call>>) = 1 /\ <<x.call>>[1] = x.call
    BY <1>2
  <2>2. Waiting(p) \in Seq(PipelineCalls) /\ Waiting(q) \in Seq(PipelineCalls)
    BY <1>1, WaitingAre
  <2> QED BY <2>1, <2>2
<1>4. PICK n \in Nat : /\ n = Len(p) /\ Len(s) = n /\ Len(r) = n + 1
                       /\ \A k \in 1 .. n : s[k] = p[k].call
                       /\ \A k \in 1 .. n + 1 : r[k] = q[k].call
  BY <1>1, <1>2, <1>3, WaitingAre
<1>5. PICK u \in Seq(PipelineCalls) :
        /\ u = s \o m /\ Len(u) = n + 1
        /\ \A k \in 1 .. n + 1 : u[k] = IF k <= n THEN s[k] ELSE m[k - n]
  <2>1. /\ s \o m \in Seq(PipelineCalls) /\ Len(s \o m) = Len(s) + Len(m)
        /\ \A k \in 1 .. Len(s) + Len(m) : (s \o m)[k] = IF k <= Len(s) THEN s[k] ELSE m[k - Len(s)]
    BY ConcatProperties
  <2>2. Len(s) + Len(m) = n + 1 /\ Len(s) = n
    BY <1>3, <1>4
  <2> QED BY <2>1, <2>2
<1>6. ASSUME NEW k \in 1 .. n + 1
      PROVE  r[k] = u[k]
  <2>1. CASE k <= n
    <3>1. k \in 1 .. n /\ q[k] = p[k]
      BY <1>1, <1>4, <2>1
    <3>2. u[k] = s[k]
      BY <1>5, <2>1
    <3> QED BY <1>4, <3>1, <3>2
  <2>2. CASE k = n + 1
    <3>1. ~(k <= n) /\ k - n = 1 /\ q[k] = x
      BY <1>1, <1>4, <2>2
    <3>2. u[k] = m[1]
      BY <1>5, <3>1
    <3> QED BY <1>3, <1>4, <3>1, <3>2
  <2> QED BY <1>4, <2>1, <2>2
<1>7. r = u
  BY <1>4, <1>5, <1>6, SeqEqual
<1>8. Weight(z, u) = Weight(z, s) + Weight(z, m) /\ Weight(z, m) = z[x.call]
  <2>1. Weight(z, u) = Weight(z, s) + Weight(z, m)
    BY <1>5, WeightConcat
  <2>2. Weight(z, m) = z[x.call]
    BY <1>2, <1>3, WeightOfFew
  <2> QED BY <2>1, <2>2
<1> QED BY <1>1, <1>3, <1>7, <1>8

LEMMA WaitingLoses ==
  ASSUME NEW z \in Weights, NEW p \in Seq(Tasks), NEW k \in 1 .. Len(p)
  PROVE  Weight(z, Waiting(RemoveAt(p, k))) + z[p[k].call] = Weight(z, Waiting(p))
<1>1. PICK q \in Seq(Tasks) :
        /\ q = RemoveAt(p, k) /\ Len(q) = Len(p) - 1
        /\ \A j \in 1 .. Len(p) - 1 : q[j] = p[IF j < k THEN j ELSE j + 1]
  BY RemovedKeepsOrder
<1>2. PICK n \in Nat : n = Len(p)
  BY LenProperties
<1>3. PICK s \in Seq(PipelineCalls), r \in Seq(PipelineCalls) :
        /\ s = Waiting(p) /\ Len(s) = n /\ \A j \in 1 .. n : s[j] = p[j].call
        /\ r = Waiting(q) /\ Len(r) = n - 1 /\ \A j \in 1 .. n - 1 : r[j] = q[j].call
  <2>1. /\ Waiting(p) \in Seq(PipelineCalls) /\ Len(Waiting(p)) = n
        /\ \A j \in 1 .. n : Waiting(p)[j] = p[j].call
    BY <1>2, WaitingAre
  <2>2. /\ Waiting(q) \in Seq(PipelineCalls) /\ Len(Waiting(q)) = Len(q)
        /\ \A j \in 1 .. Len(q) : Waiting(q)[j] = q[j].call
    BY WaitingAre
  <2>3. Len(q) = n - 1
    BY <1>1, <1>2
  <2> QED BY <2>1, <2>2, <2>3
<1>4. PICK u \in Seq(PipelineCalls) :
        /\ u = RemoveAt(s, k) /\ Len(u) = n - 1
        /\ \A j \in 1 .. n - 1 : u[j] = s[IF j < k THEN j ELSE j + 1]
  <2>1. k \in 1 .. Len(s)
    BY <1>2, <1>3
  <2>2. /\ RemoveAt(s, k) \in Seq(PipelineCalls) /\ Len(RemoveAt(s, k)) = Len(s) - 1
        /\ \A j \in 1 .. Len(s) - 1 : RemoveAt(s, k)[j] = s[IF j < k THEN j ELSE j + 1]
    BY <2>1, RemovedKeepsOrder
  <2> QED BY <1>3, <2>2
<1>5. ASSUME NEW j \in 1 .. n - 1
      PROVE  r[j] = u[j]
  <2>1. (IF j < k THEN j ELSE j + 1) \in 1 .. n
    BY <1>2
  <2> QED BY <1>1, <1>2, <1>3, <1>4, <2>1
<1>6. r = u
  BY <1>3, <1>4, <1>5, SeqEqual
<1>7. k \in 1 .. Len(s)
  BY <1>2, <1>3
<1>8. Weight(z, RemoveAt(s, k)) + z[s[k]] = Weight(z, s)
  BY <1>7, WeightWithout
<1>9. s[k] = p[k].call
  BY <1>2, <1>3
<1>10. Waiting(RemoveAt(p, k)) = RemoveAt(s, k)
  BY <1>1, <1>3, <1>4, <1>6
<1> QED BY <1>3, <1>8, <1>9, <1>10

(* The calls of one thread change.                                         *)
Agendas         == [Threads -> Seq(PipelineCalls)]
Differs(a, b, t) == \A u \in Threads \ {t} : b[u] = a[u]

LEMMA WeightsChange ==
  ASSUME NEW z \in Weights, NEW a \in Agendas, IsFiniteSet(Pieces(WeightsOf(z, a))),
         NEW t \in Threads, NEW b \in Agendas, Differs(a, b, t)
  PROVE  /\ IsFiniteSet(Pieces(WeightsOf(z, b)))
         /\ Total(WeightsOf(z, a)) \in Nat /\ Total(WeightsOf(z, b)) \in Nat
         /\ Total(WeightsOf(z, b)) + Weight(z, a[t]) = Total(WeightsOf(z, a)) + Weight(z, b[t])
<1>1. \A r \in Seq(PipelineCalls) : Weight(z, r) \in Nat
  BY WeightsAre
<1>2. PICK f \in [Threads -> Nat], g \in [Threads -> Nat] : f = WeightsOf(z, a) /\ g = WeightsOf(z, b)
  BY <1>1 DEF WeightsOf, Agendas
<1>3. /\ f[t] = Weight(z, a[t]) /\ g[t] = Weight(z, b[t])
      /\ \A u \in Threads \ {t} : g[u] = f[u]
  BY <1>2 DEF WeightsOf, Differs
<1>4. IsFiniteSet(Pieces(f)) /\ \A u \in Threads \ {t} : g[u] = f[u]
  BY <1>2, <1>3
<1>5. /\ IsFiniteSet(Pieces(g)) /\ Total(f) \in Nat /\ Total(g) \in Nat
      /\ Total(g) + f[t] = Total(f) + g[t]
  BY <1>4, TotalChanges
<1> QED BY <1>2, <1>3, <1>5

(* A handler makes its calls at once, or leaves one to the scheduler.      *)
Passed(t, calls) ==
  \/ Makes(t, calls)
  \/ \E when \in {"now", "delayed", "point"} : \E c \in PipelineCalls :
       calls = <<c>> /\ Schedules(t, when, c)

(* The calls of t become s, and its tasks q.                               *)
Becomes(t, s, q) ==
  agenda' \in Agendas /\ Differs(agenda, agenda', t) /\ agenda'[t] = s /\ pending' = q

LEMMA BecomesBy ==
  ASSUME CallsTypeOK, NEW t \in Threads, NEW s \in Seq(PipelineCalls), NEW q,
         agenda' = [agenda EXCEPT ![t] = s], pending' = q
  PROVE  Becomes(t, s, q)
BY DEF CallsTypeOK, Agendas, Differs, Becomes

LEMMA AfootMoves ==
  ASSUME NEW z \in Weights, CallsTypeOK, Finite(z, agenda), NEW t \in Threads, NEW s, NEW q \in Seq(Tasks),
         Becomes(t, s, q)
  PROVE  /\ Finite(z, agenda')
         /\ Afoot(z, agenda, pending) \in Nat /\ Afoot(z, agenda', pending') \in Nat
         /\ Weight(z, agenda[t]) \in Nat /\ Weight(z, s) \in Nat
         /\ Weight(z, Waiting(pending)) \in Nat /\ Weight(z, Waiting(q)) \in Nat
         /\ Afoot(z, agenda', pending') + Weight(z, agenda[t]) + Weight(z, Waiting(pending))
              = Afoot(z, agenda, pending) + Weight(z, s) + Weight(z, Waiting(q))
<1>0. PICK a \in Agendas, b \in Agendas, p \in Seq(Tasks) :
        a = agenda /\ b = agenda' /\ p = pending
  BY DEF CallsTypeOK, Agendas, Becomes
<1>1. Finite(z, a) /\ Differs(a, b, t) /\ b[t] = s /\ pending' = q
  BY <1>0 DEF Becomes
<1>2. PICK x \in Nat, y \in Nat : x = Weight(z, a[t]) /\ y = Weight(z, b[t])
  <2>1. a[t] \in Seq(PipelineCalls) /\ b[t] \in Seq(PipelineCalls)
    BY DEF Agendas
  <2> QED BY <2>1, WeightsAre
<1>3. PICK v \in Nat, w \in Nat : v = Weight(z, Waiting(p)) /\ w = Weight(z, Waiting(q))
  <2>1. Waiting(p) \in Seq(PipelineCalls) /\ Waiting(q) \in Seq(PipelineCalls)
    BY WaitingAre
  <2> QED BY <2>1, WeightsAre
<1>4. IsFiniteSet(Pieces(WeightsOf(z, a)))
  BY <1>1 DEF Finite
<1>5. /\ IsFiniteSet(Pieces(WeightsOf(z, b)))
      /\ Total(WeightsOf(z, a)) \in Nat /\ Total(WeightsOf(z, b)) \in Nat
      /\ Total(WeightsOf(z, b)) + Weight(z, a[t]) = Total(WeightsOf(z, a)) + Weight(z, b[t])
  BY <1>1, <1>4, WeightsChange
<1>6. PICK m \in Nat, n \in Nat : m = Total(WeightsOf(z, a)) /\ n = Total(WeightsOf(z, b)) /\ n + x = m + y
  BY <1>2, <1>5
<1>7. Afoot(z, agenda, pending) = m + v /\ Afoot(z, agenda', pending') = n + w
  BY <1>0, <1>1, <1>3, <1>6 DEF Afoot
<1>8. (n + w) + x + v = (m + v) + y + w
  <2>1. n + x = m + y
    BY <1>6
  <2> QED BY <2>1
<1>9. m + v \in Nat /\ n + w \in Nat /\ x \in Nat /\ y \in Nat /\ v \in Nat /\ w \in Nat
  OBVIOUS
<1>10. Weight(z, agenda[t]) = x /\ Weight(z, s) = y /\ Weight(z, Waiting(pending)) = v /\ Weight(z, Waiting(q)) = w
  BY <1>0, <1>1, <1>2, <1>3
<1>11. Finite(z, agenda')
  BY <1>0, <1>5 DEF Finite
<1> QED BY <1>7, <1>8, <1>9, <1>10, <1>11

LEMMA PassedWeighs ==
  ASSUME NEW z \in Weights, CallsTypeOK, Finite(z, agenda), NEW t \in Threads, agenda[t] # <<>>,
         NEW calls \in Seq(PipelineCalls), Passed(t, calls)
  PROVE  /\ Finite(z, agenda')
         /\ Afoot(z, agenda, pending) \in Nat /\ Afoot(z, agenda', pending') \in Nat
         /\ z[Head(agenda[t])] \in Nat /\ Weight(z, calls) \in Nat
         /\ Afoot(z, agenda', pending') + z[Head(agenda[t])]
              = Afoot(z, agenda, pending) + Weight(z, calls)
<1>1. agenda[t] \in Seq(PipelineCalls) /\ pending \in Seq(Tasks)
  BY DEF CallsTypeOK
<1>2. PICK rest \in Seq(PipelineCalls), c \in PipelineCalls :
        rest = Tail(agenda[t]) /\ c = Head(agenda[t]) /\ Weight(z, agenda[t]) = z[c] + Weight(z, rest)
  BY <1>1, WeightOfHead
<1>3. PICK r \in Nat, y \in Nat, x \in Nat : r = Weight(z, rest) /\ y = Weight(z, calls) /\ x = z[c]
  BY <1>2, WeightsAre
<1>4. CASE Makes(t, calls)
  <2>1. PICK s \in Seq(PipelineCalls) : s = calls \o rest
    BY <1>2, ConcatProperties
  <2>2. Weight(z, s) = y + r
    BY <1>2, <1>3, <2>1, WeightConcat
  <2>3. agenda' = [agenda EXCEPT ![t] = s] /\ pending' = pending
    BY <1>2, <1>4, <2>1 DEF Makes
  <2>4. Becomes(t, s, pending)
    BY <2>1, <2>3, BecomesBy
  <2>5. /\ Finite(z, agenda')
        /\ Afoot(z, agenda, pending) \in Nat /\ Afoot(z, agenda', pending') \in Nat
        /\ Weight(z, Waiting(pending)) \in Nat
        /\ Afoot(z, agenda', pending') + Weight(z, agenda[t]) + Weight(z, Waiting(pending))
             = Afoot(z, agenda, pending) + Weight(z, s) + Weight(z, Waiting(pending))
    BY <1>1, <2>4, AfootMoves
  <2>6. PICK m \in Nat, n \in Nat, v \in Nat :
          m = Afoot(z, agenda, pending) /\ n = Afoot(z, agenda', pending') /\ v = Weight(z, Waiting(pending))
    BY <2>5
  <2>7. n + (x + r) + v = m + (y + r) + v
    BY <1>2, <1>3, <2>2, <2>5, <2>6
  <2>8. n + x = m + y
    BY <2>7
  <2> QED BY <1>2, <1>3, <2>5, <2>6, <2>8
<1>5. CASE ~Makes(t, calls)
  <2>1. PICK when \in {"now", "delayed", "point"}, d \in PipelineCalls :
          calls = <<d>> /\ Schedules(t, when, d)
    BY <1>5 DEF Passed
  <2>2. PICK task \in Tasks : task = [when |-> when, call |-> d] /\ task.call = d
    <3>1. [when |-> when, call |-> d] \in Tasks /\ [when |-> when, call |-> d].call = d
      BY <2>1 DEF Tasks
    <3> QED BY <3>1
  <2>3. PICK q \in Seq(Tasks) :
          q = Append(pending, task) /\ Weight(z, Waiting(q)) = Weight(z, Waiting(pending)) + z[d]
    BY <1>1, <2>2, WaitingGrows
  <2>4. agenda' = [agenda EXCEPT ![t] = rest] /\ pending' = q
    BY <1>2, <2>1, <2>2, <2>3 DEF Schedules
  <2>5. Becomes(t, rest, q)
    BY <1>2, <2>3, <2>4, BecomesBy
  <2>6. /\ Finite(z, agenda')
        /\ Afoot(z, agenda, pending) \in Nat /\ Afoot(z, agenda', pending') \in Nat
        /\ Weight(z, Waiting(pending)) \in Nat
        /\ Afoot(z, agenda', pending') + Weight(z, agenda[t]) + Weight(z, Waiting(pending))
             = Afoot(z, agenda, pending) + Weight(z, rest) + Weight(z, Waiting(q))
    BY <2>3, <2>5, AfootMoves
  <2>7. y = z[d]
    BY <1>3, <2>1, WeightOfFew
  <2>8. PICK m \in Nat, n \in Nat, v \in Nat :
          m = Afoot(z, agenda, pending) /\ n = Afoot(z, agenda', pending') /\ v = Weight(z, Waiting(pending))
    BY <2>6
  <2>9. n + (x + r) + v = m + r + (v + y)
    BY <1>2, <1>3, <2>3, <2>6, <2>7, <2>8
  <2>10. n + x = m + y
    BY <2>9
  <2> QED BY <1>2, <1>3, <2>6, <2>8, <2>10
<1> QED BY <1>4, <1>5

(* A call where there was none: of a task that a thread takes, or of the   *)
(* user.                                                                   *)
LEMMA TakesWeighs ==
  ASSUME NEW z \in Weights, CallsTypeOK, Finite(z, agenda), NEW w \in Workers, Dispatch(w)
  PROVE  /\ Finite(z, agenda') /\ Afoot(z, agenda, pending) \in Nat
         /\ Afoot(z, agenda', pending') = Afoot(z, agenda, pending)
<1>1. PICK p \in Seq(Tasks) : p = pending
  BY DEF CallsTypeOK
<1>2. PICK k \in 1 .. Len(p) :
        agenda' = [agenda EXCEPT ![w] = <<p[k].call>>] /\ pending' = RemoveAt(p, k)
  BY <1>1, LenProperties DEF Dispatch
<1>3. w \in Threads /\ agenda[w] = <<>>
  BY DEF Dispatch, Threads
<1>4. PICK q \in Seq(Tasks) : q = RemoveAt(p, k)
  BY <1>1, <1>2, RemovedKeepsOrder
<1>5. PICK c \in PipelineCalls : c = p[k].call
  <2>1. p[k] \in Tasks
    BY <1>1, <1>2, ElementOfSeq
  <2> QED BY <2>1 DEF Tasks
<1>6. PICK s \in Seq(PipelineCalls) : s = <<c>> /\ Weight(z, s) = z[c]
  BY <1>5, WeightOfFew
<1>7. Weight(z, agenda[w]) = 0 /\ z[c] \in Nat /\ Weight(z, Waiting(q)) + z[c] = Weight(z, Waiting(p))
  <2>1. z[c] \in Nat
    BY <1>5, <1>6, WeightsAre
  <2> QED BY <1>1, <1>2, <1>3, <1>4, <1>5, <2>1, WeightOfFew, WaitingLoses
<1>8. agenda' = [agenda EXCEPT ![w] = s] /\ pending' = q
  BY <1>2, <1>4, <1>5, <1>6
<1>9. Becomes(w, s, q)
  BY <1>3, <1>6, <1>8, BecomesBy
<1>10. /\ Finite(z, agenda')
       /\ Afoot(z, agenda, pending) \in Nat /\ Afoot(z, agenda', pending') \in Nat
       /\ Weight(z, Waiting(q)) \in Nat
       /\ Afoot(z, agenda', pending') + Weight(z, agenda[w]) + Weight(z, Waiting(pending))
            = Afoot(z, agenda, pending) + Weight(z, s) + Weight(z, Waiting(q))
  BY <1>3, <1>4, <1>9, AfootMoves
<1>11. PICK m \in Nat, n \in Nat, v \in Nat, x \in Nat :
         /\ m = Afoot(z, agenda, pending) /\ n = Afoot(z, agenda', pending')
         /\ v = Weight(z, Waiting(q)) /\ x = z[c]
  BY <1>7, <1>10
<1>12. n + 0 + (v + x) = m + x + v
  BY <1>1, <1>6, <1>7, <1>10, <1>11
<1>13. n = m
  BY <1>12
<1> QED BY <1>10, <1>11, <1>13

LEMMA CallWeighs ==
  ASSUME NEW z \in Weights, CallsTypeOK, Finite(z, agenda), agenda[Client] = <<>>, NEW c \in PipelineCalls,
         agenda' = [agenda EXCEPT ![Client] = <<c>>], pending' = pending
  PROVE  /\ Finite(z, agenda') /\ Afoot(z, agenda, pending) \in Nat /\ z[c] \in Nat
         /\ Afoot(z, agenda', pending') = Afoot(z, agenda, pending) + z[c]
<1>1. Client \in Threads /\ pending \in Seq(Tasks)
  BY DEF Threads, CallsTypeOK
<1>2. PICK s \in Seq(PipelineCalls) : s = <<c>> /\ Weight(z, s) = z[c]
  BY WeightOfFew
<1>3. Weight(z, agenda[Client]) = 0 /\ agenda' = [agenda EXCEPT ![Client] = s]
  BY <1>2, WeightOfFew
<1>4. Becomes(Client, s, pending)
  BY <1>1, <1>2, <1>3, BecomesBy
<1>5. /\ Finite(z, agenda')
      /\ Afoot(z, agenda, pending) \in Nat /\ Afoot(z, agenda', pending') \in Nat
      /\ Weight(z, s) \in Nat /\ Weight(z, Waiting(pending)) \in Nat
      /\ Afoot(z, agenda', pending') + Weight(z, agenda[Client]) + Weight(z, Waiting(pending))
           = Afoot(z, agenda, pending) + Weight(z, s) + Weight(z, Waiting(pending))
  BY <1>1, <1>4, AfootMoves
<1>6. PICK m \in Nat, n \in Nat, v \in Nat, x \in Nat :
        /\ m = Afoot(z, agenda, pending) /\ n = Afoot(z, agenda', pending')
        /\ v = Weight(z, Waiting(pending)) /\ x = z[c]
  BY <1>2, <1>5
<1>7. n + 0 + v = m + x + v
  BY <1>2, <1>3, <1>5, <1>6
<1>8. n = m + x
  BY <1>7
<1> QED BY <1>5, <1>6, <1>8

---------------------------------------------------------------------------
(* What is asked for and what comes: the values that a call may yet lead   *)
(* to under operators that give one value for a value, or for none.  A     *)
(* request owes what it asks for, and request(0) owes z: 1 if the source   *)
(* is a just, which gives its value all the same.  filtered(TRUE) lets a   *)
(* FilterSubscription ask again for the value that was dropped.            *)
Handing == {"map", "tap", "filter", "take", "takeWhile"} \cup Scheduling

Owed(z, c) ==
  IF c.sig = "request" THEN (IF c.arg = 0 THEN z ELSE c.arg)
  ELSE IF c.sig \in {"onNext", "tick"} \/ (c.sig = "filtered" /\ c.arg = 1) THEN 1 ELSE 0

Dues(z)     == [c \in PipelineCalls |-> Owed(z, c)]
Load(z, s)  == Weight(Dues(z), s)
Loads(z, a) == [t \in Threads |-> Load(z, a[t])]

(* What of its demand a FilterSubscription has not asked its source for.   *)
Apart(x, y, m) == IF y <= x THEN x - y ELSE x + m - y
Spare(l)       == Apart(l.m_requested, l.m_waiting, SizeMax + 1)
Spares(k)      == [i \in Stages |-> Spare(k[i])]

LEMMA DuesAre ==
  ASSUME NEW z \in {0, 1}
  PROVE  Dues(z) \in Weights /\ \A c \in PipelineCalls : Dues(z)[c] = Owed(z, c) /\ Owed(z, c) \in Nat
<1>1. \A c \in PipelineCalls : Owed(z, c) \in Nat
  BY DEF Owed, PipelineCalls, Calls
<1> QED BY <1>1 DEF Dues, Weights

LEMMA LoadIsNat ==
  ASSUME NEW z \in {0, 1}, NEW s \in Seq(PipelineCalls)
  PROVE  Load(z, s) \in Nat
BY DuesAre, WeightsAre DEF Load

LEMMA LoadConcat ==
  ASSUME NEW z \in {0, 1}, NEW s \in Seq(PipelineCalls), NEW r \in Seq(PipelineCalls)
  PROVE  Load(z, s \o r) = Load(z, s) + Load(z, r)
BY DuesAre, WeightConcat DEF Load

LEMMA LoadOfFew ==
  ASSUME NEW z \in {0, 1}
  PROVE
  /\ Load(z, <<>>) = 0 /\ <<>> \in Seq(PipelineCalls)
  /\ \A c \in PipelineCalls : Load(z, <<c>>) = Owed(z, c) /\ <<c>> \in Seq(PipelineCalls)
  /\ \A c, d \in PipelineCalls :
       Load(z, <<c, d>>) = Owed(z, c) + Owed(z, d) /\ <<c, d>> \in Seq(PipelineCalls)
  /\ \A c, d, e \in PipelineCalls :
       Load(z, <<c, d, e>>) = Owed(z, c) + Owed(z, d) + Owed(z, e) /\ <<c, d, e>> \in Seq(PipelineCalls)
<1>1. PICK w \in Weights : w = Dues(z) /\ \A c \in PipelineCalls : w[c] = Owed(z, c)
  BY DuesAre
<1>2. \A s : Load(z, s) = Weight(w, s)
  BY <1>1 DEF Load
<1>3. Weight(w, <<>>) = 0 /\ <<>> \in Seq(PipelineCalls)
  BY WeightOfFew
<1>4. \A c \in PipelineCalls : Weight(w, <<c>>) = w[c] /\ <<c>> \in Seq(PipelineCalls)
  BY WeightOfFew
<1>5. \A c, d \in PipelineCalls :
        Weight(w, <<c, d>>) = w[c] + w[d] /\ <<c, d>> \in Seq(PipelineCalls)
  BY WeightOfFew
<1>6. \A c, d, e \in PipelineCalls :
        Weight(w, <<c, d, e>>) = w[c] + w[d] + w[e] /\ <<c, d, e>> \in Seq(PipelineCalls)
  BY WeightOfFew
<1> HIDE DEF PipelineCalls
<1> QED BY <1>1, <1>2, <1>3, <1>4, <1>5, <1>6

---------------------------------------------------------------------------
(* The counters of a FilterSubscription.                                   *)
LEMMA Quotient ==
  ASSUME NEW m \in Nat, m > 0, NEW a \in Nat
  PROVE  \E q \in Int : a = m * q + (a % m) /\ a % m \in 0 .. m - 1
<1>1. a \div m \in Int /\ a = m * (a \div m) + (a % m) /\ 0 <= a % m /\ a % m < m /\ a % m \in Int
  OBVIOUS
<1> QED BY <1>1

LEMMA SmallMultiple ==
  ASSUME NEW m \in Nat, m > 0, NEW d \in Int, m * d < 2 * m, -(2 * m) < m * d
  PROVE  d \in {-1, 0, 1}
<1>1. CASE d >= 2
  <2>1. m * d = 2 * m + m * (d - 2) /\ m * (d - 2) >= 0
    BY <1>1
  <2> QED BY <2>1
<1>2. CASE d <= -2
  <2>1. m * d = -(2 * m) - m * (-d - 2) /\ m * (-d - 2) >= 0
    BY <1>2
  <2> QED BY <2>1
<1> QED BY <1>1, <1>2

LEMMA Shifted ==
  ASSUME NEW m \in Nat, m > 0, NEW a \in 0 .. m - 1, NEW b \in 0 .. m - 1, NEW n \in Nat
  PROVE  Apart((a + n) % m, (b + n) % m, m) = Apart(a, b, m)
<1>0. PICK x, y : x = (a + n) % m /\ y = (b + n) % m
  OBVIOUS
<1>1. PICK q \in Int : a + n = m * q + x /\ x \in 0 .. m - 1
  <2>1. a + n \in Nat
    OBVIOUS
  <2> QED BY <1>0, <2>1, Quotient
<1>2. PICK p \in Int : b + n = m * p + y /\ y \in 0 .. m - 1
  <2>1. b + n \in Nat
    OBVIOUS
  <2> QED BY <1>0, <2>1, Quotient
<1>3. PICK d \in Int : d = q - p /\ m * d = m * q - m * p
  BY <1>1, <1>2
<1>4. PICK e \in Int : e = m * d /\ a - b = e + x - y
  BY <1>1, <1>2, <1>3
<1>5. d \in {-1, 0, 1}
  <2>1. m * d < 2 * m /\ -(2 * m) < m * d
    BY <1>1, <1>2, <1>4
  <2> QED BY <2>1, SmallMultiple
<1>6. e \in {-m, 0, m}
  BY <1>4, <1>5
<1>7. Apart(x, y, m) = Apart(a, b, m)
  BY <1>1, <1>2, <1>4, <1>6 DEF Apart
<1> QED BY <1>0, <1>7

LEMMA SparesAre ==
  /\ \A l \in LinkState : Spare(l) \in Nat
  /\ \A k \in [Stages -> LinkState] : Spares(k) \in [Stages -> Nat]
<1>1. \A l \in LinkState : Spare(l) \in Nat
  BY SizeAssumption DEF Spare, Apart, LinkState, Size
<1> QED BY <1>1 DEF Spares

(* A request raises both counters.                                         *)
LEMMA SpareOfRequest ==
  ASSUME NEW l \in LinkState, NEW n \in Nat, NEW k \in LinkState,
         k.m_requested = Plus(l.m_requested, n), k.m_waiting = Plus(l.m_waiting, n)
  PROVE  Spare(k) = Spare(l)
<1>1. PICK m \in Nat : m = SizeMax + 1 /\ m > 0
  BY SizeAssumption
<1>2. l.m_requested \in 0 .. m - 1 /\ l.m_waiting \in 0 .. m - 1
  BY <1>1, SizeAssumption DEF LinkState, Size
<1>3. PICK a \in 0 .. m - 1, b \in 0 .. m - 1 : a = l.m_requested /\ b = l.m_waiting
  BY <1>2
<1>4. k.m_requested = (a + n) % m /\ k.m_waiting = (b + n) % m
  BY <1>1, <1>3 DEF Plus
<1>5. Apart((a + n) % m, (b + n) % m, m) = Apart(a, b, m)
  BY <1>1, Shifted
<1> QED BY <1>1, <1>3, <1>4, <1>5 DEF Spare

LEMMA Decremented ==
  ASSUME NEW n \in Size
  PROVE  Decrement(n) = IF n = 0 THEN SizeMax ELSE n - 1
<1>1. PICK m \in Nat : m = SizeMax + 1 /\ m > 0 /\ n \in 0 .. m - 1 /\ SizeMax = m - 1
  BY SizeAssumption DEF Size
<1>2. (n + (m - 1)) % m = IF n = 0 THEN m - 1 ELSE n - 1
  <2>1. PICK q \in Int, x \in 0 .. m - 1 : n + (m - 1) = m * q + x /\ x = (n + (m - 1)) % m
    <3>1. n + (m - 1) \in Nat
      BY <1>1
    <3> QED BY <1>1, <3>1, Quotient
  <2>2. PICK d \in Int : d = q - 1 /\ m * d = m * q - m
    BY <1>1, <2>1
  <2>3. m * d = n - 1 - x
    BY <1>1, <2>1, <2>2
  <2>4. d \in {-1, 0, 1}
    <3>1. m * d < 2 * m /\ -(2 * m) < m * d
      BY <1>1, <2>1, <2>3
    <3> QED BY <1>1, <3>1, SmallMultiple
  <2>5. m * d \in {-m, 0, m}
    BY <1>1, <2>4
  <2> QED BY <1>1, <2>1, <2>3, <2>5
<1> QED BY <1>1, <1>2 DEF Decrement, Plus

(* The answer to a value lowers both, or m_waiting if the value was dropped.*)
LEMMA SpareOfAnswer ==
  ASSUME NEW z \in {0, 1}, NEW l \in LinkState, NEW n \in Nat, NEW waiting, NEW requested,
         waiting = Decrement(l.m_waiting),
         requested = IF n = 1 THEN l.m_requested ELSE Decrement(l.m_requested)
  PROVE  /\ waiting \in Size /\ requested \in Size
         /\ Apart(requested, waiting, SizeMax + 1) <= Spare(l) + IF n = 1 THEN 1 ELSE 0
         /\ Apart(requested, requested, SizeMax + 1) = 0
         /\ waiting = 0 => requested <= Spare(l) + IF n = 1 THEN 1 ELSE 0
<1>1. PICK m \in Nat : m = SizeMax + 1 /\ m > 0 /\ SizeMax = m - 1
  BY SizeAssumption
<1>2. PICK a \in 0 .. m - 1, b \in 0 .. m - 1 : a = l.m_requested /\ b = l.m_waiting
  BY <1>1, SizeAssumption DEF LinkState, Size
<1>3. a \in Size /\ b \in Size /\ Size = 0 .. m - 1
  BY <1>1, <1>2 DEF Size
<1>4. waiting = (IF b = 0 THEN m - 1 ELSE b - 1) /\ Decrement(a) = (IF a = 0 THEN m - 1 ELSE a - 1)
  BY <1>1, <1>2, <1>3, Decremented
<1>5. requested = IF n = 1 THEN a ELSE IF a = 0 THEN m - 1 ELSE a - 1
  BY <1>2, <1>4
<1>6. waiting \in 0 .. m - 1 /\ requested \in 0 .. m - 1
  BY <1>1, <1>4, <1>5
<1>7. Apart(requested, waiting, m) <= Apart(a, b, m) + IF n = 1 THEN 1 ELSE 0
  BY <1>1, <1>4, <1>5, <1>6 DEF Apart
<1>8. Apart(requested, requested, m) = 0 /\ (waiting = 0 => Apart(requested, waiting, m) = requested)
  BY <1>1, <1>6 DEF Apart
<1> QED BY <1>1, <1>2, <1>3, <1>6, <1>7, <1>8 DEF Spare

---------------------------------------------------------------------------
(* The values that the calls under way may lead to.                        *)
InFlight(z, a, p) == Total(Loads(z, a)) + Load(z, Waiting(p))
Countable(z, a)   == IsFiniteSet(Pieces(Loads(z, a)))

LEMMA InFlightIs ==
  ASSUME NEW z
  PROVE  \A a, p : InFlight(z, a, p) = Afoot(Dues(z), a, p) /\ (Countable(z, a) <=> Finite(Dues(z), a))
BY DEF InFlight, Afoot, Countable, Finite, Loads, WeightsOf, Load

LEMMA PassedMoves ==
  ASSUME NEW z \in {0, 1}, CallsTypeOK, Countable(z, agenda), NEW t \in Threads, agenda[t] # <<>>,
         NEW calls \in Seq(PipelineCalls), Passed(t, calls)
  PROVE  /\ Countable(z, agenda')
         /\ InFlight(z, agenda, pending) \in Nat /\ InFlight(z, agenda', pending') \in Nat
         /\ Owed(z, Head(agenda[t])) \in Nat /\ Load(z, calls) \in Nat
         /\ InFlight(z, agenda', pending') + Owed(z, Head(agenda[t]))
              = InFlight(z, agenda, pending) + Load(z, calls)
<1>1. Head(agenda[t]) \in PipelineCalls
  BY HeadIsTyped
<1>2. PICK w \in Weights : w = Dues(z) /\ \A c \in PipelineCalls : w[c] = Owed(z, c)
  BY DuesAre
<1>3. /\ \A a, p : InFlight(z, a, p) = Afoot(w, a, p) /\ (Countable(z, a) <=> Finite(w, a))
      /\ Load(z, calls) = Weight(w, calls)
  BY <1>2, InFlightIs DEF Load
<1>4. /\ Finite(w, agenda')
      /\ Afoot(w, agenda, pending) \in Nat /\ Afoot(w, agenda', pending') \in Nat
      /\ w[Head(agenda[t])] \in Nat /\ Weight(w, calls) \in Nat
      /\ Afoot(w, agenda', pending') + w[Head(agenda[t])] = Afoot(w, agenda, pending) + Weight(w, calls)
  BY <1>3, PassedWeighs
<1> QED BY <1>1, <1>2, <1>3, <1>4

LEMMA TakesMoves ==
  ASSUME NEW z \in {0, 1}, CallsTypeOK, Countable(z, agenda), NEW w \in Workers, Dispatch(w)
  PROVE  /\ Countable(z, agenda') /\ InFlight(z, agenda, pending) \in Nat
         /\ InFlight(z, agenda', pending') = InFlight(z, agenda, pending)
BY DuesAre, InFlightIs, TakesWeighs

LEMMA UserMoves ==
  ASSUME NEW z \in {0, 1}, CallsTypeOK, Countable(z, agenda), agenda[Client] = <<>>, NEW c \in PipelineCalls,
         agenda' = [agenda EXCEPT ![Client] = <<c>>], pending' = pending
  PROVE  /\ Countable(z, agenda') /\ InFlight(z, agenda, pending) \in Nat /\ Owed(z, c) \in Nat
         /\ InFlight(z, agenda', pending') = InFlight(z, agenda, pending) + Owed(z, c)
<1>1. PICK w \in Weights : w = Dues(z) /\ w[c] = Owed(z, c)
  BY DuesAre
<1>2. \A a, p : InFlight(z, a, p) = Afoot(w, a, p) /\ (Countable(z, a) <=> Finite(w, a))
  BY <1>1, InFlightIs
<1>3. /\ Finite(w, agenda') /\ Afoot(w, agenda, pending) \in Nat /\ w[c] \in Nat
      /\ Afoot(w, agenda', pending') = Afoot(w, agenda, pending) + w[c]
  BY <1>2, CallWeighs
<1> QED BY <1>1, <1>2, <1>3

---------------------------------------------------------------------------
(* What is owed by all the calls and all the filters.                      *)
Credit(z, a, p, k) == InFlight(z, a, p) + Total(Spares(k))

(* A handler of operator i leads to no more than its own call did.         *)
Pays(z, t, i) ==
  \E calls \in Seq(PipelineCalls), l \in LinkState :
    /\ Passed(t, calls)
    /\ link' = [link EXCEPT ![i] = l]
    /\ Load(z, calls) + Spare(l) <= Owed(z, Head(agenda[t])) + Spare(link[i])

LEMMA SparesChange ==
  ASSUME OperatorsOK, NEW i \in Stages, NEW l \in LinkState, link' = [link EXCEPT ![i] = l]
  PROVE  /\ Total(Spares(link)) \in Nat /\ Total(Spares(link')) \in Nat
         /\ Spare(l) \in Nat /\ Spare(link[i]) \in Nat
         /\ Total(Spares(link')) + Spare(link[i]) = Total(Spares(link)) + Spare(l)
<1>1. /\ link \in [Stages -> LinkState] /\ link' \in [Stages -> LinkState]
      /\ link'[i] = l /\ \A j \in Stages \ {i} : link'[j] = link[j]
  BY DEF OperatorsOK
<1>2. PICK f \in [Stages -> Nat], g \in [Stages -> Nat] : f = Spares(link) /\ g = Spares(link')
  BY <1>1, SparesAre
<1>3. /\ f[i] = Spare(link[i]) /\ g[i] = Spare(l)
      /\ \A j \in Stages \ {i} : g[j] = f[j]
  BY <1>1, <1>2 DEF Spares
<1>4. IsFiniteSet(Stages)
  <2>1. 1 \in Int /\ Depth \in Int
    BY DepthAssumption
  <2> QED BY <2>1, FS_Interval DEF Stages
<1>5. IsFiniteSet(Pieces(f))
  BY <1>4, TotalIsNat
<1>6. /\ Total(f) \in Nat /\ Total(g) \in Nat
      /\ Total(g) + f[i] = Total(f) + g[i]
  BY <1>3, <1>5, TotalChanges
<1>7. Spare(l) \in Nat /\ Spare(link[i]) \in Nat
  BY <1>1, SparesAre
<1> QED BY <1>2, <1>3, <1>6, <1>7

LEMMA PaysKeepsCredit ==
  ASSUME NEW z \in {0, 1}, CallsTypeOK, Countable(z, agenda), OperatorsOK, NEW t \in Threads, agenda[t] # <<>>,
         NEW i \in Stages, Pays(z, t, i)
  PROVE  /\ Countable(z, agenda')
         /\ Credit(z, agenda, pending, link) \in Nat /\ Credit(z, agenda', pending', link') \in Nat
         /\ Credit(z, agenda', pending', link') <= Credit(z, agenda, pending, link)
<1>1. PICK calls \in Seq(PipelineCalls), l \in LinkState :
        /\ Passed(t, calls)
        /\ link' = [link EXCEPT ![i] = l]
        /\ Load(z, calls) + Spare(l) <= Owed(z, Head(agenda[t])) + Spare(link[i])
  BY DEF Pays
<1>2. /\ Countable(z, agenda')
      /\ InFlight(z, agenda, pending) \in Nat /\ InFlight(z, agenda', pending') \in Nat
      /\ Owed(z, Head(agenda[t])) \in Nat /\ Load(z, calls) \in Nat
      /\ InFlight(z, agenda', pending') + Owed(z, Head(agenda[t]))
           = InFlight(z, agenda, pending) + Load(z, calls)
  BY <1>1, PassedMoves
<1>3. /\ Total(Spares(link)) \in Nat /\ Total(Spares(link')) \in Nat
      /\ Spare(l) \in Nat /\ Spare(link[i]) \in Nat
      /\ Total(Spares(link')) + Spare(link[i]) = Total(Spares(link)) + Spare(l)
  BY <1>1, SparesChange
<1>4. PICK m \in Nat, n \in Nat, x \in Nat, y \in Nat :
        /\ m = InFlight(z, agenda, pending) /\ n = InFlight(z, agenda', pending')
        /\ x = Owed(z, Head(agenda[t])) /\ y = Load(z, calls)
  BY <1>2
<1>5. PICK u \in Nat, v \in Nat, r \in Nat, s \in Nat :
        /\ u = Total(Spares(link)) /\ v = Total(Spares(link'))
        /\ r = Spare(link[i]) /\ s = Spare(l)
  BY <1>3
<1>6. n + x = m + y
  BY <1>2, <1>4
<1>7. v + r = u + s
  BY <1>3, <1>5
<1>8. y + s <= x + r
  BY <1>1, <1>4, <1>5
<1>9. n + v <= m + u
  BY <1>6, <1>7, <1>8
<1>10. Credit(z, agenda, pending, link) = m + u /\ Credit(z, agenda', pending', link') = n + v
  BY <1>4, <1>5 DEF Credit
<1>11. m + u \in Nat /\ n + v \in Nat
  OBVIOUS
<1> QED BY <1>2, <1>9, <1>10, <1>11

(* The handlers that leave the operator's subscription as it was.          *)
LEMMA PaysAtOnce ==
  ASSUME NEW z \in {0, 1}, OperatorsOK, NEW t, NEW i \in Stages, NEW calls \in Seq(PipelineCalls),
         Makes(t, calls), link' = link, Load(z, calls) <= Owed(z, Head(agenda[t])),
         Owed(z, Head(agenda[t])) \in Nat
  PROVE  Pays(z, t, i)
<1>1. link[i] \in LinkState /\ link' = [link EXCEPT ![i] = link[i]]
  BY DEF OperatorsOK
<1>2. PICK x \in Nat, y \in Nat, r \in Nat :
        x = Owed(z, Head(agenda[t])) /\ y = Load(z, calls) /\ r = Spare(link[i])
  BY <1>1, SparesAre, LoadIsNat
<1>3. y <= x
  BY <1>2
<1>4. y + r <= x + r
  BY <1>3
<1>5. Load(z, calls) + Spare(link[i]) <= Owed(z, Head(agenda[t])) + Spare(link[i])
  BY <1>2, <1>4
<1>6. Passed(t, calls)
  BY DEF Passed
<1> QED BY <1>1, <1>5, <1>6 DEF Pays

LEMMA PaysLater ==
  ASSUME NEW z \in {0, 1}, OperatorsOK, NEW t, NEW i \in Stages, NEW c \in PipelineCalls,
         NEW when \in {"now", "delayed", "point"}, Schedules(t, when, c), link' = link,
         Owed(z, c) <= Owed(z, Head(agenda[t])), Owed(z, Head(agenda[t])) \in Nat
  PROVE  Pays(z, t, i)
<1>1. link[i] \in LinkState /\ link' = [link EXCEPT ![i] = link[i]]
  BY DEF OperatorsOK
<1>2. PICK calls \in Seq(PipelineCalls) : calls = <<c>> /\ Load(z, calls) = Owed(z, c)
  BY LoadOfFew
<1>3. PICK x \in Nat, y \in Nat, r \in Nat :
        x = Owed(z, Head(agenda[t])) /\ y = Load(z, calls) /\ r = Spare(link[i])
  BY <1>1, SparesAre, LoadIsNat
<1>4. y <= x
  BY <1>2, <1>3
<1>5. y + r <= x + r
  BY <1>4
<1>6. Load(z, calls) + Spare(link[i]) <= Owed(z, Head(agenda[t])) + Spare(link[i])
  BY <1>3, <1>5
<1>7. Passed(t, calls)
  BY <1>2 DEF Passed
<1> QED BY <1>1, <1>6, <1>7 DEF Pays

LEMMA OwedByHead ==
  ASSUME NEW z \in {0, 1}, CallsTypeOK, NEW t \in Threads, agenda[t] # <<>>
  PROVE  /\ Owed(z, Head(agenda[t])) \in Nat /\ Arg(t) \in Nat
         /\ Head(agenda[t]).sig \in {"onNext", "tick"} => Owed(z, Head(agenda[t])) = 1
         /\ Head(agenda[t]).sig = "request" =>
              Owed(z, Head(agenda[t])) = IF Arg(t) = 0 THEN z ELSE Arg(t)
         /\ Head(agenda[t]).sig = "filtered" =>
              Owed(z, Head(agenda[t])) = IF Arg(t) = 1 THEN 1 ELSE 0
<1>1. Head(agenda[t]) \in PipelineCalls /\ Arg(t) = Head(agenda[t]).arg /\ Arg(t) \in Nat
  BY HeadIsTyped DEF Arg
<1>2. Owed(z, Head(agenda[t])) \in Nat
  BY <1>1 DEF Owed
<1> QED BY <1>1, <1>2 DEF Owed

(* The calls that lead to no value.                                        *)
Unpaid(z) == {c \in PipelineCalls : Owed(z, c) = 0}

LEMMA UnpaidAre ==
  ASSUME NEW z \in {0, 1}
  PROVE  \A c \in Unpaid(z) : /\ c \in PipelineCalls /\ Owed(z, c) = 0
                              /\ <<c>> \in Seq(PipelineCalls) /\ Load(z, <<c>>) = 0
<1> SUFFICES ASSUME NEW c \in Unpaid(z)
             PROVE  /\ c \in PipelineCalls /\ Owed(z, c) = 0
                    /\ <<c>> \in Seq(PipelineCalls) /\ Load(z, <<c>>) = 0
  OBVIOUS
<1>1. c \in PipelineCalls /\ Owed(z, c) = 0
  BY DEF Unpaid
<1> QED BY <1>1, LoadOfFew

LEMMA UnpaidByStage ==
  ASSUME NEW z \in {0, 1}, NEW i \in Stages
  PROVE  {Completion(i), Failure(i), Subscription(i), Cancel(i - 1), Cancel(i),
          Call(i - 1, "subscribe", 0), Call(i, "release", 0), Call(i, "tested", 0),
          Filtered(i, FALSE)} \subseteq Unpaid(z)
<1>1. /\ Owed(z, Completion(i)) = 0 /\ Owed(z, Failure(i)) = 0 /\ Owed(z, Subscription(i)) = 0
      /\ Owed(z, Cancel(i - 1)) = 0 /\ Owed(z, Cancel(i)) = 0
      /\ Owed(z, Call(i - 1, "subscribe", 0)) = 0 /\ Owed(z, Call(i, "release", 0)) = 0
      /\ Owed(z, Call(i, "tested", 0)) = 0
  BY DEF Owed, Completion, Failure, Subscription, Cancel, Call
<1>2. Owed(z, Filtered(i, FALSE)) = 0
  BY DEF Owed, Filtered, Bool, Call
<1>3. {Completion(i), Failure(i), Subscription(i), Cancel(i - 1), Cancel(i),
       Call(i - 1, "subscribe", 0), Call(i, "release", 0), Call(i, "tested", 0),
       Filtered(i, FALSE)} \subseteq PipelineCalls
  <2>1. 0 \in Nat
    OBVIOUS
  <2> QED BY <2>1, StageCalls
<1> QED BY <1>1, <1>2, <1>3 DEF Unpaid

LEMMA OwedByStage ==
  ASSUME NEW z \in {0, 1}, NEW i \in Stages, NEW n \in Nat
  PROVE  /\ Owed(z, Value(i, n)) = 1 /\ Owed(z, Filtered(i, TRUE)) = 1
         /\ Owed(z, Request(i - 1, n)) = IF n = 0 THEN z ELSE n
         /\ Value(i, n) \in PipelineCalls /\ Filtered(i, TRUE) \in PipelineCalls
         /\ Request(i - 1, n) \in PipelineCalls
<1>1. Owed(z, Value(i, n)) = 1 /\ Owed(z, Request(i - 1, n)) = IF n = 0 THEN z ELSE n
  BY DEF Owed, Value, Request, Call
<1>2. Owed(z, Filtered(i, TRUE)) = 1
  BY DEF Owed, Filtered, Bool, Call
<1> QED BY <1>1, <1>2, StageCalls

LEMMA OwingNothing ==
  ASSUME NEW z \in {0, 1}, NEW i \in Stages, NEW calls \in Seq(PipelineCalls), Load(z, calls) = 0
  PROVE  /\ Releases(i) \in Seq(PipelineCalls) /\ Load(z, Releases(i)) = 0
         /\ \A c \in Unpaid(z) :
              calls \o <<c>> \o Releases(i) \in Seq(PipelineCalls)
              /\ Load(z, calls \o <<c>> \o Releases(i)) = 0
<1>1. Releases(i) \in Seq(PipelineCalls) /\ Load(z, Releases(i)) = 0
  <2>1. /\ <<Call(i, "release", 0)>> \in Seq(PipelineCalls)
        /\ Load(z, <<Call(i, "release", 0)>>) = 0
    BY UnpaidByStage, UnpaidAre
  <2> QED BY <2>1, LoadOfFew DEF Releases
<1>2. ASSUME NEW c \in Unpaid(z)
      PROVE  /\ calls \o <<c>> \o Releases(i) \in Seq(PipelineCalls)
             /\ Load(z, calls \o <<c>> \o Releases(i)) = 0
  <2>1. PICK m \in Seq(PipelineCalls) : m = <<c>> /\ Load(z, m) = 0
    BY <1>2, UnpaidAre
  <2>2. calls \o m \in Seq(PipelineCalls) /\ Load(z, calls \o m) = 0
    <3>1. Load(z, calls \o m) = Load(z, calls) + Load(z, m)
      BY LoadConcat
    <3> QED BY <2>1, <3>1, ConcatProperties
  <2>3. PICK s \in Seq(PipelineCalls) : s = calls \o m /\ Load(z, s) = 0
    BY <2>2
  <2>4. s \o Releases(i) \in Seq(PipelineCalls) /\ Load(z, s \o Releases(i)) = 0
    <3>1. Load(z, s \o Releases(i)) = Load(z, s) + Load(z, Releases(i))
      BY <1>1, LoadConcat
    <3> QED BY <1>1, <2>3, <3>1, ConcatProperties
  <2> QED BY <2>1, <2>3, <2>4
<1> QED BY <1>1, <1>2

LEMMA PaysNothing ==
  ASSUME NEW z \in {0, 1}, CallsTypeOK, OperatorsOK, NEW t \in Threads, agenda[t] # <<>>, NEW i \in Stages,
         NEW calls \in Seq(PipelineCalls), Load(z, calls) = 0, Makes(t, calls),
         NEW l \in LinkState, link' = [link EXCEPT ![i] = l], Spare(l) <= Spare(link[i])
  PROVE  Pays(z, t, i)
<1>1. PICK x \in Nat, r \in Nat, s \in Nat :
        x = Owed(z, Head(agenda[t])) /\ r = Spare(link[i]) /\ s = Spare(l)
  <2>1. Owed(z, Head(agenda[t])) \in Nat
    BY OwedByHead
  <2>2. link[i] \in LinkState
    BY DEF OperatorsOK
  <2>3. Spare(link[i]) \in Nat /\ Spare(l) \in Nat
    BY <2>2, SparesAre
  <2> QED BY <2>1, <2>3
<1>2. s <= r
  BY <1>1
<1>3. 0 + s <= x + r
  BY <1>2
<1>4. Load(z, calls) + Spare(l) <= Owed(z, Head(agenda[t])) + Spare(link[i])
  BY <1>1, <1>3
<1>5. Passed(t, calls)
  BY DEF Passed
<1> QED BY <1>4, <1>5 DEF Pays

(* The handlers that the operators have in common.                         *)
LEMMA CommonPays ==
  ASSUME NEW z \in {0, 1}, CallsTypeOK, OperatorsOK, NEW t \in Threads, agenda[t] # <<>>, NEW i \in Stages,
         \/ Subscribe(t, i) \/ Fails(t, i) \/ Release(t, i) \/ Ignores(t, i) \/ Completes(t, i)
         \/ \E keeps \in BOOLEAN : OnSubscribe(t, i, keeps)
         \/ Answers(t, i, "tested", <<>>) \/ Stops(t, i, "tested")
  PROVE  Pays(z, t, i)
<1>1. /\ <<>> \in Seq(PipelineCalls) /\ Load(z, <<>>) = 0 /\ 0 \in Nat
      /\ link[i] \in LinkState /\ link = [link EXCEPT ![i] = link[i]] /\ Spare(link[i]) \in Nat
  BY LoadOfFew, SparesAre DEF OperatorsOK
<1>2. ASSUME NEW calls \in Seq(PipelineCalls), Load(z, calls) = 0, Makes(t, calls), link' = link
      PROVE  Pays(z, t, i)
  <2>1. Spare(link[i]) <= Spare(link[i]) /\ link' = [link EXCEPT ![i] = link[i]]
    BY <1>1, <1>2
  <2> QED BY <1>1, <1>2, <2>1, PaysNothing
<1>3. /\ \A c \in {Completion(i), Failure(i), Subscription(i), Cancel(i), Call(i - 1, "subscribe", 0)} :
             c \in Unpaid(z)
      /\ \A c \in Unpaid(z) : <<c>> \in Seq(PipelineCalls) /\ Load(z, <<c>>) = 0
  <2>1. {Completion(i), Failure(i), Subscription(i), Cancel(i - 1), Cancel(i),
         Call(i - 1, "subscribe", 0), Call(i, "release", 0), Call(i, "tested", 0),
         Filtered(i, FALSE)} \subseteq Unpaid(z)
    BY UnpaidByStage
  <2> QED BY <2>1, UnpaidAre
<1>4. CASE Subscribe(t, i) \/ Release(t, i) \/ Ignores(t, i) \/ Answers(t, i, "tested", <<>>)
  BY <1>1, <1>2, <1>3, <1>4 DEF Subscribe, Release, Ignores, Answers, stageVars
<1>5. CASE Fails(t, i)
  <2>1. Makes(t, <<Failure(i)>> \o Releases(i)) /\ link' = link
    BY <1>5 DEF Fails, Answers, stageVars
  <2>2. /\ <<>> \o <<Failure(i)>> \o Releases(i) \in Seq(PipelineCalls)
        /\ Load(z, <<>> \o <<Failure(i)>> \o Releases(i)) = 0
    <3>1. Failure(i) \in Unpaid(z)
      BY <1>3
    <3>2. PICK e \in Seq(PipelineCalls) : e = <<>> /\ Load(z, e) = 0
      BY <1>1
    <3>3. /\ e \o <<Failure(i)>> \o Releases(i) \in Seq(PipelineCalls)
          /\ Load(z, e \o <<Failure(i)>> \o Releases(i)) = 0
      BY <3>1, <3>2, OwingNothing
    <3> QED BY <3>2, <3>3
  <2>3. <<>> \o <<Failure(i)>> = <<Failure(i)>>
    BY <1>3, ConcatProperties
  <2> QED BY <1>2, <2>1, <2>2, <2>3
<1>6. CASE Completes(t, i)
  <2> DEFINE given == [k \in DOMAIN <<>> |-> Value(i, <<>>[k])]
  <2>1. given = <<>>
    OBVIOUS
  <2>2. Makes(t, given \o <<Completion(i)>> \o Releases(i)) /\ link' = link
    BY <1>6 DEF Completes, EndsWith, Answers, stageVars
  <2>3. /\ <<>> \o <<Completion(i)>> \o Releases(i) \in Seq(PipelineCalls)
        /\ Load(z, <<>> \o <<Completion(i)>> \o Releases(i)) = 0
    <3>1. Completion(i) \in Unpaid(z)
      BY <1>3
    <3>2. PICK e \in Seq(PipelineCalls) : e = <<>> /\ Load(z, e) = 0
      BY <1>1
    <3>3. /\ e \o <<Completion(i)>> \o Releases(i) \in Seq(PipelineCalls)
          /\ Load(z, e \o <<Completion(i)>> \o Releases(i)) = 0
      BY <3>1, <3>2, OwingNothing
    <3> QED BY <3>2, <3>3
  <2> HIDE DEF given
  <2> QED BY <1>2, <2>1, <2>2, <2>3
<1>7. CASE Stops(t, i, "tested")
  <2> DEFINE first == IF own[i].held THEN <<Cancel(i)>> ELSE <<>>
  <2>1. Makes(t, first \o <<Completion(i)>> \o Releases(i)) /\ link' = link
    BY <1>7 DEF Stops, Answers, stageVars
  <2>2. first \in Seq(PipelineCalls) /\ Load(z, first) = 0
    BY <1>1, <1>3
  <2> HIDE DEF first
  <2>3. /\ first \o <<Completion(i)>> \o Releases(i) \in Seq(PipelineCalls)
        /\ Load(z, first \o <<Completion(i)>> \o Releases(i)) = 0
    BY <1>3, <2>2, OwingNothing
  <2> QED BY <1>2, <2>1, <2>3
<1>8. ASSUME NEW keeps \in BOOLEAN, OnSubscribe(t, i, keeps)
      PROVE  Pays(z, t, i)
  <2>1. PICK l \in LinkState :
          l = [held |-> TRUE, m_requested |-> 0, m_waiting |-> 0] /\ link' = [link EXCEPT ![i] = l]
    BY <1>8, SizesAreTyped DEF OnSubscribe, LinkState
  <2>2. Spare(l) = 0
    BY <2>1 DEF Spare, Apart
  <2>3. Spare(l) <= Spare(link[i])
    BY <1>1, <2>2
  <2>4. Makes(t, <<Subscription(i)>>)
    BY <1>8 DEF OnSubscribe
  <2> QED BY <1>3, <2>1, <2>3, <2>4, PaysNothing
<1> QED BY <1>4, <1>5, <1>6, <1>7, <1>8

LEMMA SubscriptionPays ==
  ASSUME NEW z \in {0, 1}, CallsTypeOK, OperatorsOK, NEW t \in Threads, agenda[t] # <<>>, NEW i \in Stages,
         SubscriptionStep(t, i)
  PROVE  Pays(z, t, i)
<1>1. /\ <<>> \in Seq(PipelineCalls) /\ Load(z, <<>>) = 0 /\ Arg(t) \in Nat /\ link[i] \in LinkState
      /\ link = [link EXCEPT ![i] = link[i]] /\ Spare(link[i]) \in Nat
  BY LoadOfFew, OwedByHead, SparesAre DEF OperatorsOK
<1>2. \A n \in Nat : /\ <<Request(i - 1, n)>> \in Seq(PipelineCalls)
                     /\ Load(z, <<Request(i - 1, n)>>) = IF n = 0 THEN z ELSE n
  <2> SUFFICES ASSUME NEW n \in Nat
               PROVE  /\ <<Request(i - 1, n)>> \in Seq(PipelineCalls)
                      /\ Load(z, <<Request(i - 1, n)>>) = IF n = 0 THEN z ELSE n
    OBVIOUS
  <2>1. /\ Request(i - 1, n) \in PipelineCalls
        /\ Owed(z, Request(i - 1, n)) = IF n = 0 THEN z ELSE n
    BY OwedByStage
  <2> QED BY <2>1, LoadOfFew
<1>3. <<Cancel(i - 1)>> \in Seq(PipelineCalls) /\ Load(z, <<Cancel(i - 1)>>) = 0
  <2>1. Cancel(i - 1) \in Unpaid(z)
    BY UnpaidByStage
  <2> QED BY <2>1, UnpaidAre
<1>4. ASSUME NEW calls \in Seq(PipelineCalls), Load(z, calls) = 0, Makes(t, calls), link' = link
      PROVE  Pays(z, t, i)
  <2>1. Spare(link[i]) <= Spare(link[i]) /\ link' = [link EXCEPT ![i] = link[i]]
    BY <1>1, <1>4
  <2> QED BY <1>1, <1>4, <2>1, PaysNothing
<1>5. On(t, i, "request") => Owed(z, Head(agenda[t])) = IF Arg(t) = 0 THEN z ELSE Arg(t)
  BY OwedByHead DEF On
<1>6. CASE ForwardRequest(t, i)
  <2>1. CASE link[i].held
    <3> DEFINE calls == <<Request(i - 1, Arg(t))>>
    <3>1. Makes(t, calls) /\ link' = link /\ On(t, i, "request")
      BY <1>6, <2>1 DEF ForwardRequest, stageVars
    <3>2. /\ calls \in Seq(PipelineCalls) /\ Load(z, calls) = Owed(z, Head(agenda[t]))
          /\ Owed(z, Head(agenda[t])) \in Nat
      BY <1>1, <1>2, <1>5, <3>1
    <3> HIDE DEF calls
    <3>3. Load(z, calls) <= Owed(z, Head(agenda[t]))
      BY <3>2
    <3> QED BY <3>1, <3>2, <3>3, PaysAtOnce
  <2>2. CASE ~link[i].held
    BY <1>1, <1>4, <1>6, <2>2 DEF ForwardRequest, stageVars
  <2> QED BY <2>1, <2>2
<1>7. CASE ForwardCancel(t, i)
  <2>1. PICK l \in LinkState : l = [link[i] EXCEPT !.held = FALSE] /\ Spare(l) = Spare(link[i])
    <3> DEFINE l == [link[i] EXCEPT !.held = FALSE]
    <3>1. /\ l \in LinkState
          /\ l.m_requested = link[i].m_requested /\ l.m_waiting = link[i].m_waiting
      BY <1>1 DEF LinkState
    <3>2. Spare(l) = Spare(link[i])
      <4> HIDE DEF l
      <4> QED BY <3>1 DEF Spare
    <3> QED BY <3>1, <3>2
  <2>2. link' = [link EXCEPT ![i] = l]
    BY <1>7, <2>1 DEF ForwardCancel
  <2>3. PICK calls \in Seq(PipelineCalls) : Makes(t, calls) /\ Load(z, calls) = 0
    BY <1>1, <1>3, <1>7 DEF ForwardCancel
  <2>4. Spare(l) <= Spare(link[i])
    BY <1>1, <2>1
  <2> QED BY <2>2, <2>3, <2>4, PaysNothing
<1>8. CASE FilterRequest(t, i)
  <2> DEFINE l == [link[i] EXCEPT !.m_requested = Plus(@, Arg(t)), !.m_waiting = Plus(@, Arg(t))]
             calls == <<Request(i - 1, Arg(t))>>
  <2>1. l \in LinkState
    <3>1. Plus(link[i].m_requested, Arg(t)) \in Size /\ Plus(link[i].m_waiting, Arg(t)) \in Size
      BY <1>1, SizesAreTyped DEF LinkState
    <3> QED BY <1>1, <3>1 DEF LinkState
  <2>2. link' = [link EXCEPT ![i] = l] /\ Makes(t, calls) /\ On(t, i, "request")
    BY <1>8 DEF FilterRequest, OperatorsOK
  <2>3. /\ l.m_requested = Plus(link[i].m_requested, Arg(t))
        /\ l.m_waiting = Plus(link[i].m_waiting, Arg(t))
    BY <1>1 DEF LinkState
  <2>4. /\ calls \in Seq(PipelineCalls) /\ Load(z, calls) = Owed(z, Head(agenda[t]))
        /\ Owed(z, Head(agenda[t])) \in Nat
    BY <1>1, <1>2, <1>5, <2>2
  <2> HIDE DEF l, calls
  <2>5. Spare(l) = Spare(link[i])
    BY <1>1, <2>1, <2>3, SpareOfRequest
  <2>6. PICK x \in Nat, r \in Nat : x = Owed(z, Head(agenda[t])) /\ r = Spare(link[i])
    BY <1>1, <2>4
  <2>7. Load(z, calls) + Spare(l) <= Owed(z, Head(agenda[t])) + Spare(link[i])
    BY <2>4, <2>5, <2>6
  <2>8. Passed(t, calls)
    BY <2>2 DEF Passed
  <2> QED BY <2>1, <2>2, <2>4, <2>7, <2>8 DEF Pays
<1>9. CASE FilterCancel(t, i)
  BY <1>3, <1>4, <1>9 DEF FilterCancel, stageVars
<1>10. CASE FilterOnNext(t, i)
  <2>1. CASE ~own[i].held
    BY <1>1, <1>4, <1>10, <2>1 DEF FilterOnNext
  <2>2. CASE own[i].held
    <3> DEFINE waiting   == Decrement(link[i].m_waiting)
               requested == IF Arg(t) = 1 THEN link[i].m_requested
                            ELSE Decrement(link[i].m_requested)
               refill    == waiting = 0 /\ requested # 0
               l         == [link[i] EXCEPT !.m_requested = requested,
                                            !.m_waiting = IF refill THEN requested ELSE waiting]
               calls     == IF refill THEN <<Request(i - 1, requested)>> ELSE <<>>
               extra     == IF Arg(t) = 1 THEN 1 ELSE 0
    <3>1. link' = [link EXCEPT ![i] = l] /\ Makes(t, calls) /\ On(t, i, "filtered")
      BY <1>10, <2>2 DEF FilterOnNext, OperatorsOK
    <3>2. Owed(z, Head(agenda[t])) = extra /\ extra \in Nat
      BY <3>1, OwedByHead DEF On
    <3>3. /\ waiting \in Size /\ requested \in Size
          /\ Apart(requested, waiting, SizeMax + 1) <= Spare(link[i]) + extra
          /\ Apart(requested, requested, SizeMax + 1) = 0
          /\ waiting = 0 => requested <= Spare(link[i]) + extra
      BY <1>1, SpareOfAnswer
    <3> HIDE DEF waiting, requested, extra
    <3>4. /\ l \in LinkState /\ l.m_requested = requested
          /\ l.m_waiting = IF refill THEN requested ELSE waiting
      BY <1>1, <3>3 DEF LinkState
    <3>5. Spare(l) = IF refill THEN 0 ELSE Apart(requested, waiting, SizeMax + 1)
      BY <3>3, <3>4 DEF Spare
    <3>6. calls \in Seq(PipelineCalls) /\ Load(z, calls) = IF refill THEN requested ELSE 0
      <4>1. requested \in Nat
        BY <3>3, SizesAreTyped
      <4> QED BY <1>1, <1>2, <4>1
    <3>7. Load(z, calls) + Spare(l) <= Spare(link[i]) + extra
      <4>1. requested \in Nat /\ waiting \in Nat
        BY <3>3, SizesAreTyped
      <4>2. Spare(l) \in Nat
        BY <3>4, SparesAre
      <4>3. CASE refill
        BY <3>3, <3>5, <3>6, <4>1, <4>3
      <4>4. CASE ~refill
        BY <3>3, <3>5, <3>6, <4>2, <4>4
      <4> QED BY <4>3, <4>4
    <3>8. Passed(t, calls)
      BY <3>1 DEF Passed
    <3> HIDE DEF l, calls, refill
    <3>9. Load(z, calls) + Spare(l) <= Owed(z, Head(agenda[t])) + Spare(link[i])
      <4>1. PICK r \in Nat, e \in Nat : r = Spare(link[i]) /\ e = extra
        BY <1>1, <3>2
      <4>2. r + e = e + r
        OBVIOUS
      <4> QED BY <3>2, <3>7, <4>1, <4>2
    <3> QED BY <3>1, <3>4, <3>6, <3>8, <3>9 DEF Pays
  <2> QED BY <2>1, <2>2
<1> QED BY <1>6, <1>7, <1>8, <1>9, <1>10 DEF SubscriptionStep

(* The operators that hand values down, or ask for others.                 *)
LEMMA HandingPays ==
  ASSUME NEW z \in {0, 1}, ClosuresTypeOK, CallsTypeOK, OperatorsOK, NEW t \in Threads, NEW i \in Stages,
         Does(i, Handing), OperatorStep(t, i)
  PROVE  Pays(z, t, i)
<1>0. agenda[t] # <<>>
  BY DEF OperatorStep
<1>1. /\ Arg(t) \in Nat /\ 0 \in Nat /\ Method(Arg(t)) \in Nat /\ Owed(z, Head(agenda[t])) \in Nat
  BY <1>0, OwedByHead DEF ClosuresTypeOK
<1>2. \A sig : On(t, i, sig) /\ sig = "onNext" => Owed(z, Head(agenda[t])) = 1
  BY <1>0, OwedByHead DEF On
<1>3. ASSUME NEW v \in Nat
      PROVE  /\ {Value(i, v), Filtered(i, TRUE), Filtered(i, FALSE), Call(i, "tested", 0)}
                  \subseteq PipelineCalls
             /\ Owed(z, Value(i, v)) = 1 /\ Owed(z, Filtered(i, TRUE)) = 1
             /\ Owed(z, Filtered(i, FALSE)) = 0 /\ Owed(z, Call(i, "tested", 0)) = 0
  <2>1. Filtered(i, FALSE) \in Unpaid(z) /\ Call(i, "tested", 0) \in Unpaid(z)
    BY UnpaidByStage
  <2>2. /\ Filtered(i, FALSE) \in PipelineCalls /\ Call(i, "tested", 0) \in PipelineCalls
        /\ Owed(z, Filtered(i, FALSE)) = 0 /\ Owed(z, Call(i, "tested", 0)) = 0
    BY <2>1, UnpaidAre
  <2>3. /\ Owed(z, Value(i, v)) = 1 /\ Owed(z, Filtered(i, TRUE)) = 1
        /\ Value(i, v) \in PipelineCalls /\ Filtered(i, TRUE) \in PipelineCalls
    BY <1>3, OwedByStage
  <2> QED BY <2>2, <2>3
<1>4. ASSUME NEW v \in Nat
      PROVE  /\ \A calls \in {<<Value(i, v)>>, <<Value(i, v), Filtered(i, FALSE)>>,
                              <<Value(i, v), Filtered(i, FALSE), Call(i, "tested", 0)>>,
                              <<Filtered(i, TRUE)>>, <<Filtered(i, TRUE), Call(i, "tested", 0)>>} :
                  calls \in Seq(PipelineCalls) /\ Load(z, calls) = 1
  <2>1. PICK a \in PipelineCalls, b \in PipelineCalls, c \in PipelineCalls, d \in PipelineCalls :
          /\ a = Value(i, v) /\ b = Filtered(i, FALSE) /\ c = Call(i, "tested", 0)
          /\ d = Filtered(i, TRUE) /\ Owed(z, a) = 1 /\ Owed(z, b) = 0 /\ Owed(z, c) = 0 /\ Owed(z, d) = 1
    BY <1>3
  <2>0. Owed(z, a) = 1 /\ Owed(z, b) = 0 /\ Owed(z, c) = 0 /\ Owed(z, d) = 1
    BY <2>1
  <2>2. Load(z, <<a>>) = 1 /\ Load(z, <<d>>) = 1 /\ <<a>> \in Seq(PipelineCalls) /\ <<d>> \in Seq(PipelineCalls)
    <3>1. Load(z, <<a>>) = Owed(z, a) /\ <<a>> \in Seq(PipelineCalls)
      BY LoadOfFew
    <3>2. Load(z, <<d>>) = Owed(z, d) /\ <<d>> \in Seq(PipelineCalls)
      BY LoadOfFew
    <3> QED BY <2>0, <3>1, <3>2
  <2>3. /\ Load(z, <<a, b>>) = 1 /\ <<a, b>> \in Seq(PipelineCalls)
        /\ Load(z, <<d, c>>) = 1 /\ <<d, c>> \in Seq(PipelineCalls)
    <3>1. Load(z, <<a, b>>) = Owed(z, a) + Owed(z, b) /\ <<a, b>> \in Seq(PipelineCalls)
      BY LoadOfFew
    <3>2. Load(z, <<d, c>>) = Owed(z, d) + Owed(z, c) /\ <<d, c>> \in Seq(PipelineCalls)
      BY LoadOfFew
    <3>3. Owed(z, a) + Owed(z, b) = 1 /\ Owed(z, d) + Owed(z, c) = 1
      BY <2>0
    <3> QED BY <3>1, <3>2, <3>3
  <2>4. Load(z, <<a, b, c>>) = 1 /\ <<a, b, c>> \in Seq(PipelineCalls)
    <3>1. Load(z, <<a, b, c>>) = Owed(z, a) + Owed(z, b) + Owed(z, c) /\ <<a, b, c>> \in Seq(PipelineCalls)
      BY LoadOfFew
    <3>2. Owed(z, a) + Owed(z, b) + Owed(z, c) = 1
      BY <2>0
    <3> QED BY <3>1, <3>2
  <2> QED BY <2>1, <2>2, <2>3, <2>4
<1>5. ASSUME NEW calls \in Seq(PipelineCalls), Load(z, calls) = 1, Makes(t, calls), link' = link,
             On(t, i, "onNext")
      PROVE  Pays(z, t, i)
  <2>1. Load(z, calls) <= Owed(z, Head(agenda[t]))
    BY <1>2, <1>5
  <2> QED BY <1>1, <1>5, <2>1, PaysAtOnce
<1>6. ASSUME NEW v \in Nat, NEW calls \in {<<Value(i, v)>>, <<Value(i, v), Filtered(i, FALSE)>>,
                              <<Value(i, v), Filtered(i, FALSE), Call(i, "tested", 0)>>,
                              <<Filtered(i, TRUE)>>, <<Filtered(i, TRUE), Call(i, "tested", 0)>>},
             Answers(t, i, "onNext", calls) \/ Notes(t, i, "onNext", "m_count", own[i].m_count - 1, calls)
      PROVE  Pays(z, t, i)
  <2>1. Makes(t, calls) /\ link' = link /\ On(t, i, "onNext")
    BY <1>6 DEF Answers, Notes, stageVars
  <2>2. calls \in Seq(PipelineCalls) /\ Load(z, calls) = 1
    BY <1>4, <1>6
  <2> QED BY <1>5, <2>1, <2>2
<1>7. ASSUME \/ Subscribe(t, i) \/ Fails(t, i) \/ Release(t, i) \/ Ignores(t, i) \/ Completes(t, i)
             \/ \E keeps \in BOOLEAN : OnSubscribe(t, i, keeps)
             \/ Answers(t, i, "tested", <<>>) \/ Stops(t, i, "tested")
             \/ Relays(t, i) \/ Keeps(t, i)
      PROVE  Pays(z, t, i)
  BY <1>0, <1>7, CommonPays DEF Relays, Keeps
<1>8. CASE SubscriptionStep(t, i)
  BY <1>0, <1>8, SubscriptionPays
<1>9. CASE Map(t, i)
  <2>1. Relays(t, i) \/ Completes(t, i) \/ Answers(t, i, "onNext", <<Value(i, Method(Arg(t)))>>)
    BY <1>9 DEF Map
  <2> QED BY <1>1, <1>6, <1>7, <2>1
<1>10. CASE Tap(t, i)
  <2>1. Relays(t, i) \/ Completes(t, i) \/ Answers(t, i, "onNext", <<Value(i, Arg(t))>>)
    BY <1>10 DEF Tap, Forwards
  <2> QED BY <1>1, <1>6, <1>7, <2>1
<1>11. CASE Filter(t, i)
  <2>1. \/ Keeps(t, i) \/ Completes(t, i)
        \/ Answers(t, i, "onNext", <<Value(i, Arg(t)), Filtered(i, FALSE)>>)
        \/ Answers(t, i, "onNext", <<Filtered(i, TRUE)>>)
    BY <1>11 DEF Filter
  <2> QED BY <1>1, <1>6, <1>7, <2>1
<1>12. CASE Take(t, i)
  <2>1. \/ Keeps(t, i) \/ Completes(t, i) \/ Ignores(t, i)
        \/ Notes(t, i, "onNext", "m_count", own[i].m_count - 1,
                 <<Value(i, Arg(t)), Filtered(i, FALSE), Call(i, "tested", 0)>>)
        \/ Answers(t, i, "tested", <<>>) \/ Stops(t, i, "tested")
    BY <1>12 DEF Take
  <2> QED BY <1>1, <1>6, <1>7, <2>1
<1>13. CASE TakeWhile(t, i)
  <2>1. \/ Keeps(t, i) \/ Completes(t, i) \/ Stops(t, i, "tested")
        \/ Answers(t, i, "onNext", <<Value(i, Arg(t)), Filtered(i, FALSE)>>)
        \/ Answers(t, i, "onNext", <<Filtered(i, TRUE), Call(i, "tested", 0)>>)
    BY <1>13 DEF TakeWhile
  <2> QED BY <1>1, <1>6, <1>7, <2>1
<1>14. ASSUME NEW sig, NEW when \in {"now", "delayed", "point"}, NEW c \in PipelineCalls,
              Hands(t, i, sig, when, c), Owed(z, c) = 0 \/ (Owed(z, c) = 1 /\ sig = "onNext")
       PROVE  Pays(z, t, i)
  <2>1. Schedules(t, when, c) /\ link' = link /\ On(t, i, sig)
    BY <1>14 DEF Hands, stageVars
  <2>2. Owed(z, c) <= Owed(z, Head(agenda[t]))
    <3>1. CASE Owed(z, c) = 0
      BY <1>1, <3>1
    <3>2. CASE Owed(z, c) = 1 /\ sig = "onNext"
      BY <1>2, <2>1, <3>2
    <3> QED BY <1>14, <3>1, <3>2
  <2> QED BY <1>1, <2>1, <2>2, PaysLater
<1>15. \A c \in {Completion(i), Failure(i), Call(i - 1, "subscribe", 0)} :
         c \in PipelineCalls /\ Owed(z, c) = 0
  <2>1. {Completion(i), Failure(i), Call(i - 1, "subscribe", 0)} \subseteq Unpaid(z)
    BY UnpaidByStage
  <2> QED BY <2>1, UnpaidAre
<1>16. Value(i, Arg(t)) \in PipelineCalls /\ Owed(z, Value(i, Arg(t))) = 1
  BY <1>1, <1>3
<1>17. CASE ObserveOn(t, i)
  BY <1>7, <1>14, <1>15, <1>16, <1>17 DEF ObserveOn
<1>18. CASE SubscribeOn(t, i)
  <2>1. \/ Hands(t, i, "subscribe", "now", Call(i - 1, "subscribe", 0))
        \/ OnSubscribe(t, i, FALSE) \/ Fails(t, i) \/ Completes(t, i)
        \/ Answers(t, i, "onNext", <<Value(i, Arg(t))>>)
    BY <1>18 DEF SubscribeOn, Forwards
  <2> QED BY <1>1, <1>6, <1>7, <1>14, <1>15, <2>1
<1>19. CASE Delay(t, i)
  <2>1. \/ Subscribe(t, i) \/ OnSubscribe(t, i, FALSE)
        \/ Hands(t, i, "onNext", "delayed", Value(i, Arg(t)))
        \/ Hands(t, i, "onError", "delayed", Failure(i))
        \/ Hands(t, i, "onError", "now", Failure(i))
        \/ Hands(t, i, "onComplete", "delayed", Completion(i))
    BY <1>19 DEF Delay
  <2> QED BY <1>7, <1>14, <1>15, <1>16, <2>1
<1>20. \/ SubscriptionStep(t, i) \/ Map(t, i) \/ Tap(t, i) \/ Filter(t, i) \/ Take(t, i)
       \/ TakeWhile(t, i) \/ ObserveOn(t, i) \/ SubscribeOn(t, i) \/ Delay(t, i)
  BY DEF OperatorStep, Does, Handing, Scheduling, AllOf, AnyOf, NoneOf, FirstElement, ElementAt,
         LastElement, Maximum, Minimum, Count, Reduce, DefaultIfEmpty, IgnoreElements,
         FlatMap, AndThen, SwitchOnError
<1> QED BY <1>8, <1>9, <1>10, <1>11, <1>12, <1>13, <1>17, <1>18, <1>19, <1>20

---------------------------------------------------------------------------
(* The source: the demand that an interval keeps in m_requested is owed    *)
(* too.                                                                    *)
Least == IF source.kind = "just" THEN 1 ELSE 0

Spends(z, t) ==
  \/ UNCHANGED callVars /\ source'.m_requested = source.m_requested
  \/ \E calls \in Seq(PipelineCalls) :
       /\ Passed(t, calls)
       /\ Load(z, calls) + source'.m_requested <= Owed(z, Head(agenda[t])) + source.m_requested

LEMMA UnpaidBySource ==
  ASSUME NEW z \in {0, 1}
  PROVE  /\ {Completion(0), Failure(0), Subscription(0)} \subseteq Unpaid(z)
         /\ \A n \in Nat : Call(0, "again", n) \in Unpaid(z)
<1>1. /\ Owed(z, Completion(0)) = 0 /\ Owed(z, Failure(0)) = 0 /\ Owed(z, Subscription(0)) = 0
      /\ \A n \in Nat : Owed(z, Call(0, "again", n)) = 0
  BY DEF Owed, Completion, Failure, Subscription, Call
<1>2. {Completion(0), Failure(0), Subscription(0)} \subseteq PipelineCalls
  <2>1. 0 \in Nat
    OBVIOUS
  <2> QED BY <2>1, SourceCalls
<1>3. \A n \in Nat : Call(0, "again", n) \in PipelineCalls
  BY SourceCalls
<1> QED BY <1>1, <1>2, <1>3 DEF Unpaid

LEMMA OwedBySource ==
  ASSUME NEW z \in {0, 1}, NEW n \in Nat
  PROVE  /\ Owed(z, Value(0, n)) = 1 /\ Owed(z, Call(0, "tick", n)) = 1
         /\ Owed(z, Request(0, n)) = IF n = 0 THEN z ELSE n
         /\ Value(0, n) \in PipelineCalls /\ Call(0, "tick", n) \in PipelineCalls
         /\ Request(0, n) \in PipelineCalls
<1>1. /\ Owed(z, Value(0, n)) = 1 /\ Owed(z, Call(0, "tick", n)) = 1
      /\ Owed(z, Request(0, n)) = IF n = 0 THEN z ELSE n
  BY DEF Owed, Value, Request, Call
<1> QED BY <1>1, SourceCalls

LEMMA EmitsSpends ==
  ASSUME NEW z \in {0, 1}, CallsTypeOK, SourceOK(source), NEW t \in Threads, agenda[t] # <<>>,
         NEW signals \in Seq(PipelineCalls), NEW more \in Seq(PipelineCalls),
         Emits(t, signals, more), source'.m_requested = source.m_requested,
         Load(z, signals) + Load(z, more) <= Owed(z, Head(agenda[t]))
  PROVE  Spends(z, t)
<1>1. PICK calls \in Seq(PipelineCalls) :
        calls = signals \o more /\ Load(z, calls) = Load(z, signals) + Load(z, more)
  <2>1. signals \o more \in Seq(PipelineCalls)
    BY ConcatProperties
  <2>2. Load(z, signals \o more) = Load(z, signals) + Load(z, more)
    BY LoadConcat
  <2> QED BY <2>1, <2>2
<1>2. Passed(t, calls)
  BY <1>1 DEF Emits, Passed
<1>3. PICK x \in Nat, y \in Nat, r \in Nat :
        x = Owed(z, Head(agenda[t])) /\ y = Load(z, calls) /\ r = source.m_requested
  <2>1. Owed(z, Head(agenda[t])) \in Nat
    BY OwedByHead
  <2>2. Load(z, calls) \in Nat
    BY LoadIsNat
  <2>3. source.m_requested \in Nat
    BY SizesAreTyped DEF SourceOK, SourceMembers
  <2> QED BY <2>1, <2>2, <2>3
<1>4. y <= x
  BY <1>1, <1>3
<1>5. y + r <= x + r
  BY <1>4
<1>6. Load(z, calls) + source'.m_requested <= Owed(z, Head(agenda[t])) + source.m_requested
  BY <1>3, <1>5
<1> QED BY <1>2, <1>6 DEF Spends

LEMMA RangeSpends ==
  ASSUME NEW z \in {0, 1}, z = 0, CallsTypeOK, SourceOK(source), NEW t \in Threads,
         agenda[t] # <<>>, RangeTurn(t)
  PROVE  Spends(z, t)
<1>1. source \in SourceMembers /\ Arg(t) \in Nat
  BY HeadIsTyped DEF SourceOK
<1>2. source.elements[source.m_current] \in Nat /\ Arg(t) > 0 /\ Arg(t) - 1 \in Nat
  <2>1. source.elements \in Seq(Nat) /\ source.m_current \in Nat \ {0}
    BY <1>1, InputsAssumption DEF SourceMembers
  <2>2. source.m_current \in 1 .. Len(source.elements) /\ Arg(t) > 0
    BY <2>1, LenProperties DEF RangeTurn, RangeDone
  <2> QED BY <1>1, <2>1, <2>2, ElementOfSeq
<1>3. PICK c \in PipelineCalls, d \in PipelineCalls :
        /\ c = Value(0, source.elements[source.m_current]) /\ d = Request(0, Arg(t) - 1)
        /\ Owed(z, c) = 1 /\ Owed(z, d) = Arg(t) - 1
  <2>1. PICK v \in Nat, n \in Nat : v = source.elements[source.m_current] /\ n = Arg(t) - 1
    BY <1>2
  <2>2. /\ Value(0, v) \in PipelineCalls /\ Owed(z, Value(0, v)) = 1
        /\ Request(0, n) \in PipelineCalls /\ Owed(z, Request(0, n)) = IF n = 0 THEN z ELSE n
    BY OwedBySource
  <2>3. (IF n = 0 THEN z ELSE n) = n
    OBVIOUS
  <2> QED BY <2>1, <2>2, <2>3
<1>4. PICK signals \in Seq(PipelineCalls), more \in Seq(PipelineCalls) :
        signals = <<c>> /\ more = <<d>> /\ Load(z, signals) = 1 /\ Load(z, more) = Arg(t) - 1
  <2>1. Load(z, <<c>>) = Owed(z, c) /\ <<c>> \in Seq(PipelineCalls)
    BY LoadOfFew
  <2>2. Load(z, <<d>>) = Owed(z, d) /\ <<d>> \in Seq(PipelineCalls)
    BY LoadOfFew
  <2> QED BY <1>3, <2>1, <2>2
<1>5. Emits(t, signals, more) /\ source'.m_requested = source.m_requested
  BY <1>1, <1>3, <1>4 DEF RangeTurn, SourceMembers
<1>6. Owed(z, Head(agenda[t])) = Arg(t)
  <2>1. Owed(z, Head(agenda[t])) = IF Arg(t) = 0 THEN z ELSE Arg(t)
    BY OwedByHead DEF RangeTurn, On
  <2> QED BY <1>2, <2>1
<1>7. Load(z, signals) + Load(z, more) <= Owed(z, Head(agenda[t]))
  BY <1>1, <1>4, <1>6
<1> QED BY <1>5, <1>7, EmitsSpends

(* Numbers that wrap around are no larger than those that do not.          *)
LEMMA PlusIsLess ==
  ASSUME NEW a \in Nat, NEW b \in Nat
  PROVE  Plus(a, b) <= a + b
<1>1. PICK m \in Nat, n \in Nat : m = SizeMax + 1 /\ m > 0 /\ n = a + b
  BY SizeAssumption
<1>2. PICK q \in Int, x \in 0 .. m - 1 : n = m * q + x /\ x = n % m
  <2>1. \E q \in Int : n = m * q + (n % m) /\ n % m \in 0 .. m - 1
    BY <1>1, Quotient
  <2> QED BY <2>1
<1>3. CASE q >= 0
  <2>1. m * q >= 0
    BY <1>1, <1>3
  <2>2. x <= n
    BY <1>2, <2>1
  <2> QED BY <1>1, <1>2, <2>2 DEF Plus
<1>4. CASE q < 0
  <2>1. q <= -1
    BY <1>4
  <2>2. m * q = -m - m * (-q - 1) /\ m * (-q - 1) >= 0
    BY <1>1, <2>1
  <2>3. FALSE
    BY <1>1, <1>2, <2>2
  <2> QED BY <2>3
<1> QED BY <1>3, <1>4

LEMMA IntervalSpends ==
  ASSUME NEW z \in {0, 1}, CallsTypeOK, SourceOK(source), NEW t \in Threads, agenda[t] # <<>>,
         NEW demand \in Size, NEW v \in Nat, TryRequest(t, demand, v),
         demand <= source.m_requested + Owed(z, Head(agenda[t]))
  PROVE  Spends(z, t)
<1>1. source \in SourceMembers /\ source.m_requested \in Nat /\ demand \in Nat
  BY SizesAreTyped DEF SourceOK, SourceMembers
<1>2. source'.m_requested = IF demand = 0 THEN 0 ELSE demand - 1
  BY <1>1 DEF TryRequest, SourceMembers
<1>3. Owed(z, Head(agenda[t])) \in Nat
  BY OwedByHead
<1>4. PICK x \in Nat, r \in Nat : x = Owed(z, Head(agenda[t])) /\ r = source.m_requested
  BY <1>1, <1>3
<1>5. demand <= r + x
  BY <1>4
<1>6. CASE demand = 0
  <2>1. PICK calls \in Seq(PipelineCalls) : calls = <<>> /\ Load(z, calls) = 0
    BY LoadOfFew
  <2>2. Passed(t, calls)
    BY <1>6, <2>1 DEF TryRequest, Passed
  <2>3. 0 + 0 <= x + r
    OBVIOUS
  <2>4. Load(z, calls) + source'.m_requested <= Owed(z, Head(agenda[t])) + source.m_requested
    BY <1>2, <1>4, <1>6, <2>1, <2>3
  <2> QED BY <2>2, <2>4 DEF Spends
<1>7. CASE demand # 0
  <2>1. PICK c \in PipelineCalls : c = Call(0, "tick", v) /\ Owed(z, c) = 1
    BY OwedBySource
  <2>2. PICK calls \in Seq(PipelineCalls) : calls = <<c>> /\ Load(z, calls) = 1
    <3>1. Load(z, <<c>>) = Owed(z, c) /\ <<c>> \in Seq(PipelineCalls)
      BY LoadOfFew
    <3> QED BY <2>1, <3>1
  <2>3. Schedules(t, "point", c)
    BY <1>7, <2>1 DEF TryRequest
  <2>4. Passed(t, calls)
    BY <2>2, <2>3 DEF Passed
  <2>5. 1 + (demand - 1) <= x + r
    BY <1>1, <1>5
  <2>6. Load(z, calls) + source'.m_requested <= Owed(z, Head(agenda[t])) + source.m_requested
    BY <1>2, <1>4, <1>7, <2>2, <2>5
  <2> QED BY <2>4, <2>6 DEF Spends
<1> QED BY <1>6, <1>7

LEMMA SourceSpends ==
  ASSUME NEW z \in {0, 1}, z = Least, CallsTypeOK, SourceOK(source), NEW t \in Threads,
         SourceStep(t), source.kind \notin Gates
  PROVE  Spends(z, t)
<1>1. agenda[t] # <<>>
  BY SourceActs
<1>2. /\ source \in SourceMembers /\ Arg(t) \in Nat /\ Owed(z, Head(agenda[t])) \in Nat
      /\ source.m_requested \in Nat /\ Len(source.elements) \in Nat
      /\ \A k \in 1 .. Len(source.elements) : source.elements[k] \in Nat
  <2>1. source \in SourceMembers /\ source.elements \in Seq(Nat)
    BY InputsAssumption DEF SourceOK, SourceMembers
  <2>2. \A k \in 1 .. Len(source.elements) : source.elements[k] \in Nat
    BY <2>1, ElementOfSeq
  <2>3. Arg(t) \in Nat /\ Owed(z, Head(agenda[t])) \in Nat
    BY <1>1, OwedByHead
  <2>4. source.m_requested \in Nat
    BY <2>1, SizesAreTyped DEF SourceMembers
  <2> QED BY <2>1, <2>2, <2>3, <2>4, LenProperties
<1>3. PICK e \in Seq(PipelineCalls) : e = <<>> /\ Load(z, e) = 0
  BY LoadOfFew
<1>4. /\ <<Completion(0)>> \in Seq(PipelineCalls) /\ Load(z, <<Completion(0)>>) = 0
      /\ <<Failure(0)>> \in Seq(PipelineCalls) /\ Load(z, <<Failure(0)>>) = 0
      /\ <<Subscription(0)>> \in Seq(PipelineCalls) /\ Load(z, <<Subscription(0)>>) = 0
      /\ \A n \in Nat : <<Call(0, "again", n)>> \in Seq(PipelineCalls)
                        /\ Load(z, <<Call(0, "again", n)>>) = 0
  <2>1. /\ {Completion(0), Failure(0), Subscription(0)} \subseteq Unpaid(z)
        /\ \A n \in Nat : Call(0, "again", n) \in Unpaid(z)
    BY UnpaidBySource
  <2> QED BY <2>1, UnpaidAre
<1>5. ASSUME NEW signals \in Seq(PipelineCalls), NEW more \in Seq(PipelineCalls),
             Load(z, signals) = 0, Load(z, more) = 0,
             Emits(t, signals, more), source'.m_requested = source.m_requested
      PROVE  Spends(z, t)
  <2>1. Load(z, signals) + Load(z, more) <= Owed(z, Head(agenda[t]))
    BY <1>2, <1>5
  <2> QED BY <1>1, <1>5, <2>1, EmitsSpends
<1>6. ASSUME NEW calls \in Seq(PipelineCalls), Load(z, calls) = 0,
             Emits(t, calls, <<>>) \/ Quietly(t, calls), source'.m_requested = source.m_requested
      PROVE  Spends(z, t)
  BY <1>3, <1>5, <1>6 DEF Quietly
<1>7. HandsSubscription(t) => Spends(z, t)
  BY <1>4, <1>6 DEF HandsSubscription
<1>8. CASE Empty(t)
  <2>1. ASSUME source' = [source EXCEPT !.m_completed = TRUE],
               Emits(t, IF source.m_completed THEN <<>> ELSE <<Completion(0)>>, <<>>)
        PROVE  Spends(z, t)
    <3>1. source'.m_requested = source.m_requested
      BY <1>2, <2>1 DEF SourceMembers
    <3>2. PICK calls \in Seq(PipelineCalls) : Load(z, calls) = 0 /\ Emits(t, calls, <<>>)
      BY <1>3, <1>4, <2>1
    <3> QED BY <1>6, <3>1, <3>2
  <2> QED BY <1>7, <1>8, <2>1 DEF Empty
<1>9. CASE Just(t)
  <2>1. source.kind = "just" /\ z = 1
    BY <1>9 DEF Just, Is, Least
  <2>2. CASE JustRequest(t)
    <3>1. source'.m_requested = source.m_requested
      BY <1>2, <2>2 DEF JustRequest, SourceMembers
    <3>2. CASE source.m_completed
      BY <1>3, <1>6, <2>2, <3>1, <3>2 DEF JustRequest
    <3>3. CASE ~source.m_completed
      <4>1. source.elements[1] \in Nat
        <5>1. Len(source.elements) = 1
          BY <2>1 DEF SourceOK
        <5>2. 1 \in 1 .. Len(source.elements)
          BY <5>1
        <5> QED BY <1>2, <5>2
      <4>2. PICK c \in PipelineCalls : c = Value(0, source.elements[1]) /\ Owed(z, c) = 1
        BY <4>1, OwedBySource
      <4>3. PICK d \in PipelineCalls : d = Completion(0) /\ Owed(z, d) = 0
        <5>1. Completion(0) \in Unpaid(z)
          BY UnpaidBySource
        <5> QED BY <5>1, UnpaidAre
      <4>4. PICK signals \in Seq(PipelineCalls) : signals = <<c, d>> /\ Load(z, signals) = 1
        <5>1. Load(z, <<c, d>>) = Owed(z, c) + Owed(z, d) /\ <<c, d>> \in Seq(PipelineCalls)
          BY LoadOfFew
        <5>2. Owed(z, c) = 1 /\ Owed(z, d) = 0
          BY <4>2, <4>3
        <5>3. Owed(z, c) + Owed(z, d) = 1
          BY <5>2
        <5> QED BY <5>1, <5>3
      <4>5. Emits(t, signals, e)
        BY <1>3, <2>2, <3>3, <4>2, <4>3, <4>4 DEF JustRequest
      <4>6. Owed(z, Head(agenda[t])) = IF Arg(t) = 0 THEN z ELSE Arg(t)
        BY <1>1, <2>2, OwedByHead DEF JustRequest, On
      <4>7. 1 <= (IF Arg(t) = 0 THEN z ELSE Arg(t))
        BY <1>2, <2>1
      <4>8. Load(z, signals) + Load(z, e) <= Owed(z, Head(agenda[t]))
        BY <1>3, <4>4, <4>6, <4>7
      <4> QED BY <1>1, <3>1, <4>5, <4>8, EmitsSpends
    <3> QED BY <3>2, <3>3
  <2>3. CASE On(t, 0, "cancel") /\ Emits(t, <<Completion(0)>>, <<>>) /\ UNCHANGED source
    BY <1>4, <1>6, <2>3
  <2> QED BY <1>7, <1>9, <2>2, <2>3 DEF Just
<1>10. CASE Never(t)
  BY <1>3, <1>4, <1>6, <1>7, <1>10 DEF Never
<1>11. CASE RangeSource(t)
  <2>1. z = 0
    BY <1>11 DEF RangeSource, Is, Least
  <2>2. CASE RangeStops(t)
    BY <1>3, <1>6, <2>2 DEF RangeStops
  <2>3. CASE RangeCompletes(t)
    BY <1>2, <1>4, <1>6, <2>3 DEF RangeCompletes, SourceMembers
  <2>4. CASE RangeCancel(t)
    BY <1>2, <1>4, <1>6, <2>4 DEF RangeCancel, SourceMembers
  <2> QED BY <1>1, <1>7, <1>11, <2>1, <2>2, <2>3, <2>4, RangeSpends DEF RangeSource
<1>12. CASE Error(t)
  BY <1>4, <1>6, <1>12 DEF Error
<1>13. CASE Defer(t)
  BY <1>2, <1>13 DEF Defer, Spends, callVars, SourceMembers
<1>14. CASE Interval(t)
  <2>1. CASE IntervalRequest(t)
    <3> DEFINE demand == Plus(source.m_requested, Arg(t))
    <3>1. demand \in Size /\ demand \in Nat
      BY <1>2, SizesAreTyped
    <3>2. demand <= source.m_requested + Owed(z, Head(agenda[t]))
      <4>1. Arg(t) <= Owed(z, Head(agenda[t]))
        <5>1. Owed(z, Head(agenda[t])) = IF Arg(t) = 0 THEN z ELSE Arg(t)
          BY <1>1, <2>1, OwedByHead DEF IntervalRequest, On
        <5> QED BY <1>2, <5>1
      <4>2. demand <= source.m_requested + Arg(t)
        BY <1>2, PlusIsLess
      <4> QED BY <1>2, <3>1, <4>1, <4>2
    <3>3. CASE TryRequest(t, demand, 0)
      <4> HIDE DEF demand
      <4> QED BY <1>1, <3>1, <3>2, <3>3, IntervalSpends
    <3>4. CASE source' = [source EXCEPT !.m_requested = demand] /\ Quietly(t, <<>>)
      <4>1. source'.m_requested = demand
        BY <1>2, <3>4 DEF SourceMembers
      <4>2. Makes(t, e)
        <5>1. <<>> \o <<>> = <<>>
          OBVIOUS
        <5> QED BY <1>3, <3>4, <5>1 DEF Quietly, Emits
      <4>3. Passed(t, e)
        BY <4>2 DEF Passed
      <4> HIDE DEF demand
      <4>4. Load(z, e) + source'.m_requested <= Owed(z, Head(agenda[t])) + source.m_requested
        BY <1>2, <1>3, <3>1, <3>2, <4>1
      <4> QED BY <4>3, <4>4 DEF Spends
    <3> QED BY <2>1, <3>3, <3>4 DEF IntervalRequest
  <2>2. CASE IntervalCancel(t)
    BY <1>2, <1>3, <1>6, <2>2 DEF IntervalCancel, SourceMembers
  <2>3. CASE IntervalTick(t)
    <3>1. source'.m_requested = source.m_requested
      BY <1>2, <2>3 DEF IntervalTick, SourceMembers
    <3>2. CASE source.m_canceled
      BY <1>3, <1>6, <2>3, <3>1, <3>2 DEF IntervalTick
    <3>3. CASE ~source.m_canceled
      <4>1. PICK n \in Nat : n = Arg(t) + 1
        BY <1>2
      <4>2. PICK c \in PipelineCalls : c = Value(0, Arg(t)) /\ Owed(z, c) = 1
        BY <1>2, OwedBySource
      <4>3. PICK signals \in Seq(PipelineCalls) : signals = <<c>> /\ Load(z, signals) = 1
        <5>1. Load(z, <<c>>) = Owed(z, c) /\ <<c>> \in Seq(PipelineCalls)
          BY LoadOfFew
        <5> QED BY <4>2, <5>1
      <4>4. PICK more \in Seq(PipelineCalls) : more = <<Call(0, "again", n)>> /\ Load(z, more) = 0
        BY <1>4, <4>1
      <4>5. Emits(t, signals, more)
        BY <2>3, <3>3, <4>1, <4>2, <4>3, <4>4 DEF IntervalTick
      <4>6. Owed(z, Head(agenda[t])) = 1
        BY <1>1, <2>3, OwedByHead DEF IntervalTick, On
      <4>7. Load(z, signals) + Load(z, more) <= Owed(z, Head(agenda[t]))
        BY <4>3, <4>4, <4>6
      <4> QED BY <1>1, <3>1, <4>5, <4>7, EmitsSpends
    <3> QED BY <3>2, <3>3
  <2>4. CASE IntervalAgain(t)
    <3>1. TryRequest(t, source.m_requested, Arg(t)) /\ source.m_requested \in Size
      BY <1>2, <2>4 DEF IntervalAgain, SourceMembers
    <3>2. source.m_requested <= source.m_requested + Owed(z, Head(agenda[t]))
      BY <1>2
    <3> QED BY <1>1, <1>2, <3>1, <3>2, IntervalSpends
  <2> QED BY <1>7, <1>14, <2>1, <2>2, <2>3, <2>4 DEF Interval
<1>15. CASE Create(t)
  <2>1. MethodReturns(t)
    BY <1>15 DEF Create, CallsMethod, MethodWaits, ObservableGate, SingleGate, MaybeGate, CompletableGate, Is, Gates
  <2> QED BY <1>3, <1>6, <2>1 DEF MethodReturns
<1> QED BY <1>8, <1>9, <1>10, <1>11, <1>12, <1>13, <1>14, <1>15 DEF SourceStep

LEMMA SparesTotal ==
  ASSUME OperatorsOK
  PROVE  Total(Spares(link)) \in Nat
<1>1. Spares(link) \in [Stages -> Nat]
  BY SparesAre DEF OperatorsOK
<1>2. IsFiniteSet(Stages)
  <2>1. 1 \in Int /\ Depth \in Int
    BY DepthAssumption
  <2> QED BY <2>1, FS_Interval DEF Stages
<1> QED BY <1>1, <1>2, TotalIsNat

LEMMA SpendsKeeps ==
  ASSUME NEW z \in {0, 1}, CallsTypeOK, Countable(z, agenda), SourceOK(source), SourceOK(source'),
         NEW t \in Threads, agenda[t] # <<>>, Spends(z, t), InFlight(z, agenda, pending) \in Nat
  PROVE  /\ Countable(z, agenda') /\ InFlight(z, agenda', pending') \in Nat
         /\ InFlight(z, agenda', pending') + source'.m_requested
              <= InFlight(z, agenda, pending) + source.m_requested
<1>1. source.m_requested \in Nat /\ source'.m_requested \in Nat
  BY SizesAreTyped DEF SourceOK, SourceMembers
<1>2. PICK m \in Nat, r \in Nat, u \in Nat :
        m = InFlight(z, agenda, pending) /\ r = source.m_requested /\ u = source'.m_requested
  BY <1>1
<1>3. CASE UNCHANGED callVars /\ source'.m_requested = source.m_requested
  <2>1. agenda' = agenda /\ pending' = pending /\ u = r
    BY <1>2, <1>3 DEF callVars
  <2>2. m + r <= m + r
    OBVIOUS
  <2> QED BY <1>2, <2>1, <2>2
<1>4. CASE \E calls \in Seq(PipelineCalls) :
             /\ Passed(t, calls)
             /\ Load(z, calls) + source'.m_requested <= Owed(z, Head(agenda[t])) + source.m_requested
  <2>1. PICK calls \in Seq(PipelineCalls) :
          /\ Passed(t, calls)
          /\ Load(z, calls) + source'.m_requested <= Owed(z, Head(agenda[t])) + source.m_requested
    BY <1>4
  <2>2. /\ Countable(z, agenda')
        /\ InFlight(z, agenda, pending) \in Nat /\ InFlight(z, agenda', pending') \in Nat
        /\ Owed(z, Head(agenda[t])) \in Nat /\ Load(z, calls) \in Nat
        /\ InFlight(z, agenda', pending') + Owed(z, Head(agenda[t]))
             = InFlight(z, agenda, pending) + Load(z, calls)
    BY <2>1, PassedMoves
  <2>3. PICK n \in Nat, x \in Nat, y \in Nat :
          n = InFlight(z, agenda', pending') /\ x = Owed(z, Head(agenda[t])) /\ y = Load(z, calls)
    BY <2>2
  <2>4. n + x = m + y
    BY <1>2, <2>2, <2>3
  <2>5. y + u <= x + r
    BY <1>2, <2>1, <2>3
  <2>6. n + u <= m + r
    BY <2>4, <2>5
  <2> QED BY <1>2, <2>2, <2>3, <2>6
<1> QED BY <1>3, <1>4 DEF Spends

---------------------------------------------------------------------------
(* The subscriber asks for what it then waits for.                         *)
LEMMA OwedByUser ==
  ASSUME NEW z \in {0, 1}
  PROVE  /\ Cancel(Depth) \in Unpaid(z) /\ Call(Subscriber, "received", 0) \in Unpaid(z)
         /\ \A n \in Nat \ {0} : Request(Depth, n) \in PipelineCalls /\ Owed(z, Request(Depth, n)) = n
<1>1. /\ Owed(z, Cancel(Depth)) = 0 /\ Owed(z, Call(Subscriber, "received", 0)) = 0
      /\ \A n \in Nat \ {0} : Owed(z, Request(Depth, n)) = n
  BY DEF Owed, Cancel, Request, Call
<1>2. /\ Cancel(Depth) \in PipelineCalls /\ Call(Subscriber, "received", 0) \in PipelineCalls
      /\ \A n \in Nat \ {0} : Request(Depth, n) \in PipelineCalls
  BY UserSentIsTyped DEF UserSent
<1> QED BY <1>1, <1>2 DEF Unpaid

LEMMA CallsOfUser ==
  ASSUME NEW z \in {0, 1}, NEW more \in Seq(PipelineCalls), Load(z, more) = 0
  PROVE  /\ <<Cancel(Depth)>> \o more \in Seq(PipelineCalls) /\ Load(z, <<Cancel(Depth)>> \o more) = 0
         /\ \A n \in Nat \ {0} : /\ <<Request(Depth, n)>> \o more \in Seq(PipelineCalls)
                                 /\ Load(z, <<Request(Depth, n)>> \o more) = n
<1>1. ASSUME NEW c \in PipelineCalls
      PROVE  <<c>> \o more \in Seq(PipelineCalls) /\ Load(z, <<c>> \o more) = Owed(z, c)
  <2>1. Load(z, <<c>>) = Owed(z, c) /\ <<c>> \in Seq(PipelineCalls)
    BY LoadOfFew
  <2>2. Load(z, <<c>> \o more) = Load(z, <<c>>) + Load(z, more)
    BY <2>1, LoadConcat
  <2>3. Owed(z, c) \in Nat
    BY <2>1, LoadIsNat
  <2>4. <<c>> \o more \in Seq(PipelineCalls)
    BY <2>1, ConcatProperties
  <2> QED BY <2>1, <2>2, <2>3, <2>4
<1>2. Cancel(Depth) \in PipelineCalls /\ Owed(z, Cancel(Depth)) = 0
  BY OwedByUser, UnpaidAre
<1> QED BY <1>1, <1>2, OwedByUser

(* What a handler of the subscriber calls, it has asked for.               *)
Asks(z, t) ==
  \E calls \in Seq(PipelineCalls) :
    Makes(t, calls) /\ Load(z, calls) + user.asked <= user'.asked

LEMMA ReactsAsks ==
  ASSUME NEW z \in {0, 1}, SubscriberTypeOK, NEW t, NEW more \in Seq(PipelineCalls), Load(z, more) = 0,
         Reacts(t, more)
  PROVE  Asks(z, t)
<1>1. user \in UserState /\ user.asked \in Nat
  BY DEF SubscriberTypeOK, UserState
<1>2. CASE Makes(t, more) /\ UNCHANGED user
  <2>1. 0 + user.asked <= user.asked
    BY <1>1
  <2> QED BY <1>2, <2>1 DEF Asks
<1>3. CASE UserRequest(t, more)
  <2>1. PICK n \in Demands : /\ Makes(t, <<Request(Depth, n)>> \o more)
                             /\ user' = [user EXCEPT !.calls = @ + 1, !.asked = @ + n]
    BY <1>3 DEF UserRequest
  <2>2. n \in Nat \ {0}
    BY UserAssumption, SizesAreTyped
  <2>3. PICK calls \in Seq(PipelineCalls) : calls = <<Request(Depth, n)>> \o more /\ Load(z, calls) = n
    <3>1. \A k \in Nat \ {0} : /\ <<Request(Depth, k)>> \o more \in Seq(PipelineCalls)
                               /\ Load(z, <<Request(Depth, k)>> \o more) = k
      BY CallsOfUser
    <3>2. /\ <<Request(Depth, n)>> \o more \in Seq(PipelineCalls)
          /\ Load(z, <<Request(Depth, n)>> \o more) = n
      BY <2>2, <3>1
    <3> QED BY <3>2
  <2>4. user'.asked = user.asked + n
    BY <1>1, <2>1 DEF UserState
  <2>5. n + user.asked <= user.asked + n
    BY <1>1, <2>2
  <2> QED BY <2>1, <2>3, <2>4, <2>5 DEF Asks
<1>4. CASE UserCancel(t, more)
  <2>1. Makes(t, <<Cancel(Depth)>> \o more) /\ user' = [user EXCEPT !.calls = @ + 1, !.canceled = TRUE]
    BY <1>4 DEF UserCancel
  <2>2. PICK calls \in Seq(PipelineCalls) : calls = <<Cancel(Depth)>> \o more /\ Load(z, calls) = 0
    <3>1. <<Cancel(Depth)>> \o more \in Seq(PipelineCalls) /\ Load(z, <<Cancel(Depth)>> \o more) = 0
      BY CallsOfUser
    <3> QED BY <3>1
  <2>3. user'.asked = user.asked
    BY <1>1, <2>1 DEF UserState
  <2>4. 0 + user.asked <= user.asked
    BY <1>1
  <2> QED BY <2>1, <2>2, <2>3, <2>4 DEF Asks
<1> QED BY <1>2, <1>3, <1>4 DEF Reacts

LEMMA RequestsAllAsks ==
  ASSUME NEW z \in {0, 1}, SubscriberTypeOK, NEW t, RequestsAll(t)
  PROVE  Asks(z, t)
<1>1. user \in UserState /\ user.asked \in Nat /\ SizeMax \in Nat \ {0}
  BY SizeAssumption DEF SubscriberTypeOK, UserState
<1>2. user'.asked = user.asked + SizeMax
  BY <1>1 DEF RequestsAll, UserState
<1>3. PICK e \in Seq(PipelineCalls) : e = <<>> /\ Load(z, e) = 0
  BY LoadOfFew
<1>4. PICK r \in Seq(PipelineCalls) : r = <<Request(Depth, SizeMax)>> /\ Load(z, r) = SizeMax
  <2>1. PICK c \in PipelineCalls : c = Request(Depth, SizeMax) /\ Owed(z, c) = SizeMax
    BY <1>1, OwedByUser
  <2>2. Load(z, <<c>>) = Owed(z, c) /\ <<c>> \in Seq(PipelineCalls)
    BY LoadOfFew
  <2> QED BY <2>1, <2>2
<1>5. SizeMax + user.asked <= user.asked + SizeMax /\ 0 + user.asked <= user.asked + SizeMax
  BY <1>1
<1>6. Makes(t, r) \/ Makes(t, e)
  BY <1>3, <1>4 DEF RequestsAll
<1> QED BY <1>2, <1>3, <1>4, <1>5, <1>6 DEF Asks

LEMMA SubscriberPays ==
  ASSUME NEW z \in {0, 1}, CallsTypeOK, SubscriberTypeOK, SubscriberTypeOK', NEW t \in Threads,
         SubscriberStep(t)
  PROVE  \E calls \in Seq(PipelineCalls) :
           /\ Makes(t, calls)
           /\ Len(log'.values) + Load(z, calls) + user.asked
                <= Len(log.values) + Owed(z, Head(agenda[t])) + user'.asked
<1>1. agenda[t] # <<>>
  BY DEF SubscriberStep, OnSubscribed, OnNext, Received, OnEnd, On
<1>2. /\ user.asked \in Nat /\ user'.asked \in Nat /\ Owed(z, Head(agenda[t])) \in Nat
      /\ log.values \in Seq(Nat) /\ log'.values \in Seq(Nat)
      /\ Len(log.values) \in Nat /\ Len(log'.values) \in Nat
  <2>1. Owed(z, Head(agenda[t])) \in Nat
    BY <1>1, OwedByHead
  <2>2. log.values \in Seq(Nat) /\ log'.values \in Seq(Nat)
    BY DEF SubscriberTypeOK
  <2>3. user.asked \in Nat /\ user'.asked \in Nat
    BY DEF SubscriberTypeOK
  <2> QED BY <2>1, <2>2, <2>3, LenProperties
<1>3. PICK v \in Nat, w \in Nat, a \in Nat, b \in Nat, x \in Nat :
        /\ v = Len(log.values) /\ w = Len(log'.values)
        /\ a = user.asked /\ b = user'.asked /\ x = Owed(z, Head(agenda[t]))
  BY <1>2
<1>4. ASSUME Asks(z, t), w <= v + x
      PROVE  \E calls \in Seq(PipelineCalls) : Makes(t, calls) /\ w + Load(z, calls) + a <= v + x + b
  <2>1. PICK calls \in Seq(PipelineCalls) :
          Makes(t, calls) /\ Load(z, calls) + user.asked <= user'.asked
    BY <1>4 DEF Asks
  <2>2. PICK y \in Nat : y = Load(z, calls)
    BY LoadIsNat
  <2>3. y + a <= b
    BY <1>3, <2>1, <2>2
  <2>4. w + y + a <= v + x + b
    BY <1>4, <2>3
  <2> QED BY <2>1, <2>2, <2>4
<1>5. log' = log => w <= v + x
  <2>1. v <= v + x
    OBVIOUS
  <2> QED BY <1>3, <2>1
<1>6. PICK e \in Seq(PipelineCalls) : e = <<>> /\ Load(z, e) = 0
  BY LoadOfFew
<1>7. ASSUME Makes(t, <<>>), UNCHANGED user
      PROVE  Asks(z, t)
  <2>1. 0 + user.asked <= user'.asked
    BY <1>2, <1>7
  <2> QED BY <1>6, <1>7, <2>1 DEF Asks
<1>8. CASE OnSubscribed(t)
  <2>1. Asks(z, t)
    BY <1>6, <1>8, ReactsAsks, RequestsAllAsks DEF OnSubscribed
  <2> QED BY <1>3, <1>4, <1>5, <1>8, <2>1 DEF OnSubscribed
<1>9. CASE OnNext(t)
  <2>1. PICK r \in Seq(PipelineCalls) : r = <<Call(Subscriber, "received", 0)>> /\ Load(z, r) = 0
    BY OwedByUser, UnpaidAre
  <2>2. Asks(z, t)
    BY <1>6, <1>9, <2>1, ReactsAsks DEF OnNext
  <2>3. x = 1
    BY <1>1, <1>3, <1>9, OwedByHead DEF OnNext, On
  <2>4. Arg(t) \in Nat /\ Head(agenda[t]).arg = Arg(t)
    BY <1>1, OwedByHead DEF Arg
  <2>5. log'.values = log.values \/ log'.values = Append(log.values, Arg(t))
    <3>1. log \in [values : Seq(Nat), end : Ends \cup {"none"},
                   late : Seq(Calls(Ends \cup {"onNext"}))]
      BY DEF SubscriberTypeOK
    <3> QED BY <1>9, <2>4, <3>1 DEF OnNext, Logged
  <2>6. Len(Append(log.values, Arg(t))) = Len(log.values) + 1
    BY <1>2, <2>4, AppendProperties
  <2>7. w = v \/ w = v + 1
    BY <1>3, <2>5, <2>6
  <2>8. w <= v + x
    BY <2>3, <2>7
  <2> QED BY <1>3, <1>4, <2>2, <2>8
<1>10. CASE Received(t)
  <2>1. Asks(z, t)
    BY <1>7, <1>10, RequestsAllAsks DEF Received
  <2> QED BY <1>3, <1>4, <1>5, <1>10, <2>1 DEF Received
<1>11. CASE OnEnd(t)
  <2>1. Asks(z, t)
    BY <1>7, <1>11 DEF OnEnd
  <2>2. log'.values = log.values
    <3>1. log \in [values : Seq(Nat), end : Ends \cup {"none"},
                   late : Seq(Calls(Ends \cup {"onNext"}))]
      BY DEF SubscriberTypeOK
    <3>2. Head(agenda[t]).sig \in Ends
      BY <1>11 DEF OnEnd, On, Ends
    <3> QED BY <1>11, <3>1, <3>2 DEF OnEnd, Logged
  <2>3. w = v
    BY <1>3, <2>2
  <2>4. w <= v + x
    BY <2>3
  <2> QED BY <1>3, <1>4, <2>1, <2>4
<1> QED BY <1>8, <1>9, <1>10, <1>11 DEF SubscriberStep

---------------------------------------------------------------------------
(* The values given, and those that are owed, were all asked for.          *)
Balanced(z, a, p, k, s, u, g) ==
  /\ Countable(z, a)
  /\ Len(g.values) + Credit(z, a, p, k) + s.m_requested <= u.asked

CreditInv ==
  UsesOnly(Handing) /\ source.kind \notin Gates =>
    \A z \in {0, 1} : z = Least => Balanced(z, agenda, pending, link, source, user, log)

LEMMA BalanceIsNat ==
  ASSUME NEW z \in {0, 1}, TypesInv, Balanced(z, agenda, pending, link, source, user, log)
  PROVE  /\ Countable(z, agenda) /\ InFlight(z, agenda, pending) \in Nat
         /\ Total(Spares(link)) \in Nat /\ Len(log.values) \in Nat
         /\ source.m_requested \in Nat /\ user.asked \in Nat
         /\ Credit(z, agenda, pending, link) = InFlight(z, agenda, pending) + Total(Spares(link))
         /\ Len(log.values) + Credit(z, agenda, pending, link) + source.m_requested <= user.asked
<1>1. Countable(z, agenda)
  BY DEF Balanced
<1>2. InFlight(z, agenda, pending) \in Nat
  <2>1. Client \in Threads /\ agenda[Client] \in Seq(PipelineCalls) /\ pending \in Seq(Tasks)
    BY DEF Threads, TypesInv, CallsTypeOK
  <2>2. Total(Loads(z, agenda)) \in Nat
    <3>1. Loads(z, agenda) \in [Threads -> Nat]
      BY LoadIsNat DEF TypesInv, CallsTypeOK, Loads
    <3>2. IsFiniteSet(Pieces(Loads(z, agenda)))
      BY <1>1 DEF Countable
    <3> QED BY <3>1, <3>2, <2>1, TotalChanges
  <2>3. Load(z, Waiting(pending)) \in Nat
    BY <2>1, WaitingAre, LoadIsNat
  <2> QED BY <2>2, <2>3 DEF InFlight
<1>3. Total(Spares(link)) \in Nat
  BY SparesTotal DEF TypesInv
<1>4. Len(log.values) \in Nat /\ user.asked \in Nat
  <2>1. log.values \in Seq(Nat) /\ user.asked \in Nat
    BY DEF TypesInv, SubscriberTypeOK
  <2> QED BY <2>1, LenProperties
<1>5. source.m_requested \in Nat
  BY SizesAreTyped DEF TypesInv, SourceOK, SourceMembers
<1> QED BY <1>1, <1>2, <1>3, <1>4, <1>5 DEF Balanced, Credit

LEMMA InitIsBalanced ==
  ASSUME Init
  PROVE  CreditInv
<1> SUFFICES ASSUME NEW z \in {0, 1}
             PROVE  Balanced(z, agenda, pending, link, source, user, log)
  BY DEF CreditInv
<1>1. agenda \in [Threads -> Seq(PipelineCalls)] /\ link \in [Stages -> LinkState]
  BY InitIsTyped DEF TypesInv, CallsTypeOK, OperatorsOK
<1>2. Load(z, <<>>) = 0 /\ Load(z, <<Call(Depth, "subscribe", 0)>>) = 0
  <2>1. Call(Depth, "subscribe", 0) \in PipelineCalls
    BY DepthAssumption, CallIsTyped DEF Sent, Subscriber
  <2>2. Owed(z, Call(Depth, "subscribe", 0)) = 0
    BY DEF Owed, Call
  <2> QED BY <2>1, <2>2, LoadOfFew
<1>3. \A t \in Threads : Loads(z, agenda)[t] = 0
  BY <1>2 DEF Init, SignalsInit, Loads
<1>4. Loads(z, agenda) \in [Threads -> Nat]
  BY <1>1, LoadIsNat DEF Loads
<1>5. IsFiniteSet(Pieces(Loads(z, agenda))) /\ Total(Loads(z, agenda)) = 0
  BY <1>3, <1>4, NoTotal
<1>6. Load(z, Waiting(pending)) = 0
  <2>1. Waiting(<<>>) = <<>>
    BY DEF Waiting
  <2> QED BY <1>2, <2>1 DEF Init, SignalsInit
<1>7. Total(Spares(link)) = 0
  <2>1. Spares(link) \in [Stages -> Nat]
    BY <1>1, SparesAre
  <2>2. \A i \in Stages : Spares(link)[i] = 0
    BY DEF Init, StagesInit, Spares, Spare, Apart
  <2> QED BY <2>1, <2>2, NoTotal
<1>8. Credit(z, agenda, pending, link) = 0
  BY <1>5, <1>6, <1>7 DEF Credit, InFlight
<1>9. source.m_requested = 0 /\ user.asked = 0 /\ Len(log.values) = 0
  BY DEF Init, SourceInit, SubscriberInit
<1> QED BY <1>5, <1>8, <1>9 DEF Balanced, Countable

(* No step of any part gives, or lets a call owe, more than was asked for. *)
LEMMA StepIsBalanced ==
  ASSUME ClosuresTypeOK, TypesInv, TypesInv', CreditInv, [NextStep]_vars
  PROVE  CreditInv'
<1>1. \A i \in Stages : own'[i].name = own[i].name
  <2>1. ASSUME NEW t \in Threads, NEW i \in Stages, OperatorStep(t, i)
        PROVE  \A j \in Stages : own'[j].name = own[j].name
    BY <2>1, OperatorsHandle, HandledIsTyped DEF TypesInv
  <2> QED BY <2>1 DEF NextStep, Step, Works, Takes, Terminated, vars, stageVars
<1>2. source'.kind = source.kind \/ (source.kind = "defer" /\ source'.kind \in {"range", "error"})
  <2>1. ASSUME NEW t \in Threads, SourceStep(t)
        PROVE  source'.kind = source.kind
               \/ (source.kind = "defer" /\ source'.kind \in {"range", "error"})
    BY <2>1, SourceKindKept DEF TypesInv
  <2> QED BY <2>1 DEF NextStep, Step, Works, Takes, Terminated, vars, sourceVars
<1>3. /\ UsesOnly(Handing)' => UsesOnly(Handing)
      /\ source'.kind \notin Gates => source.kind \notin Gates
      /\ Least' = Least
  BY <1>1, <1>2 DEF UsesOnly, Does, Gates, Least
<1> SUFFICES ASSUME UsesOnly(Handing), source.kind \notin Gates, NEW z \in {0, 1}, z = Least
             PROVE  Balanced(z, agenda', pending', link', source', user', log')
  BY <1>3 DEF CreditInv
<1>4. Balanced(z, agenda, pending, link, source, user, log)
  BY DEF CreditInv
<1>5. /\ Countable(z, agenda) /\ InFlight(z, agenda, pending) \in Nat
      /\ Total(Spares(link)) \in Nat /\ Len(log.values) \in Nat
      /\ source.m_requested \in Nat /\ user.asked \in Nat
      /\ Credit(z, agenda, pending, link) = InFlight(z, agenda, pending) + Total(Spares(link))
      /\ Len(log.values) + Credit(z, agenda, pending, link) + source.m_requested <= user.asked
  BY <1>4, BalanceIsNat
<1>6. PICK v \in Nat, m \in Nat, k \in Nat, r \in Nat, a \in Nat :
        /\ v = Len(log.values) /\ m = InFlight(z, agenda, pending) /\ k = Total(Spares(link))
        /\ r = source.m_requested /\ a = user.asked
  BY <1>5
<1>7. v + (m + k) + r <= a
  BY <1>5, <1>6
<1>8. ASSUME NEW t \in Threads, SourceStep(t), UNCHANGED <<stageVars, subscriberVars>>
      PROVE  Balanced(z, agenda', pending', link', source', user', log')
  <2>1. agenda[t] # <<>>
    BY <1>8, SourceActs
  <2>2. Spends(z, t)
    BY <1>8, SourceSpends DEF TypesInv
  <2>3. SourceOK(source')
    BY DEF TypesInv
  <2>4. /\ Countable(z, agenda') /\ InFlight(z, agenda', pending') \in Nat
        /\ InFlight(z, agenda', pending') + source'.m_requested
             <= InFlight(z, agenda, pending) + source.m_requested
    BY <1>5, <2>1, <2>2, <2>3, SpendsKeeps DEF TypesInv
  <2>5. source'.m_requested \in Nat
    BY <2>3, SizesAreTyped DEF SourceOK, SourceMembers
  <2>6. PICK n \in Nat, u \in Nat : n = InFlight(z, agenda', pending') /\ u = source'.m_requested
    BY <2>4, <2>5
  <2>7. n + u <= m + r
    BY <1>6, <2>4, <2>6
  <2>8. v + (n + k) + u <= a
    BY <1>7, <2>7
  <2>9. link' = link /\ user' = user /\ log' = log
    BY <1>8 DEF stageVars, subscriberVars
  <2> QED BY <1>6, <2>4, <2>6, <2>8, <2>9 DEF Balanced, Credit
<1>9. ASSUME NEW t \in Threads, NEW i \in Stages, OperatorStep(t, i),
             UNCHANGED <<sourceVars, subscriberVars>>
      PROVE  Balanced(z, agenda', pending', link', source', user', log')
  <2>1. agenda[t] # <<>> /\ Does(i, Handing)
    BY <1>9 DEF OperatorStep, UsesOnly
  <2>2. Pays(z, t, i)
    BY <1>9, <2>1, HandingPays DEF TypesInv
  <2>3. /\ Countable(z, agenda') /\ Credit(z, agenda', pending', link') \in Nat
        /\ Credit(z, agenda', pending', link') <= Credit(z, agenda, pending, link)
    BY <1>5, <2>1, <2>2, PaysKeepsCredit DEF TypesInv
  <2>4. PICK n \in Nat : n = Credit(z, agenda', pending', link')
    BY <2>3
  <2>5. n <= m + k
    BY <1>5, <1>6, <2>3, <2>4
  <2>6. v + n + r <= a
    BY <1>7, <2>5
  <2>7. source' = source /\ user' = user /\ log' = log
    BY <1>9 DEF sourceVars, subscriberVars
  <2> QED BY <1>6, <2>3, <2>4, <2>6, <2>7 DEF Balanced
<1>10. ASSUME NEW t \in Threads, SubscriberStep(t), UNCHANGED <<sourceVars, stageVars>>
       PROVE  Balanced(z, agenda', pending', link', source', user', log')
  <2>1. agenda[t] # <<>>
    BY <1>10 DEF SubscriberStep, OnSubscribed, OnNext, Received, OnEnd, On
  <2>2. SubscriberTypeOK'
    BY DEF TypesInv
  <2>3. PICK calls \in Seq(PipelineCalls) :
          /\ Makes(t, calls)
          /\ Len(log'.values) + Load(z, calls) + user.asked
               <= Len(log.values) + Owed(z, Head(agenda[t])) + user'.asked
    BY <1>10, <2>2, SubscriberPays DEF TypesInv
  <2>4. Passed(t, calls)
    BY <2>3 DEF Passed
  <2>5. /\ Countable(z, agenda')
        /\ InFlight(z, agenda', pending') \in Nat
        /\ Owed(z, Head(agenda[t])) \in Nat /\ Load(z, calls) \in Nat
        /\ InFlight(z, agenda', pending') + Owed(z, Head(agenda[t]))
             = InFlight(z, agenda, pending) + Load(z, calls)
    BY <1>5, <2>1, <2>4, PassedMoves DEF TypesInv
  <2>6. Len(log'.values) \in Nat /\ user'.asked \in Nat
    <3>1. log'.values \in Seq(Nat) /\ user'.asked \in Nat
      BY <2>2 DEF SubscriberTypeOK
    <3> QED BY <3>1, LenProperties
  <2>7. PICK n \in Nat, x \in Nat, y \in Nat, w \in Nat, b \in Nat :
          /\ n = InFlight(z, agenda', pending') /\ x = Owed(z, Head(agenda[t])) /\ y = Load(z, calls)
          /\ w = Len(log'.values) /\ b = user'.asked
    BY <2>5, <2>6
  <2>8. n + x = m + y
    BY <1>6, <2>5, <2>7
  <2>9. w + y + a <= v + x + b
    BY <1>6, <2>3, <2>7
  <2>10. w + (n + k) + r <= b
    BY <1>7, <2>8, <2>9
  <2>11. source' = source /\ link' = link
    BY <1>10 DEF sourceVars, stageVars
  <2> QED BY <1>6, <2>5, <2>7, <2>10, <2>11 DEF Balanced, Credit
<1>11. ASSUME NEW w \in Workers, Takes(w)
       PROVE  Balanced(z, agenda', pending', link', source', user', log')
  <2>1. /\ Countable(z, agenda') /\ InFlight(z, agenda', pending') = InFlight(z, agenda, pending)
    BY <1>5, <1>11, TakesMoves DEF Takes, TypesInv
  <2>2. source' = source /\ link' = link /\ user' = user /\ log' = log
    BY <1>11 DEF Takes, sourceVars, stageVars, subscriberVars
  <2> QED BY <1>6, <1>7, <2>1, <2>2 DEF Balanced, Credit
<1>12. ASSUME UserCalls, UNCHANGED <<sourceVars, stageVars>>
       PROVE  Balanced(z, agenda', pending', link', source', user', log')
  <2>1. agenda[Client] = <<>> /\ pending' = pending /\ log' = log /\ source' = source /\ link' = link
    BY <1>12 DEF UserCalls, Idle, Threads, sourceVars, stageVars
  <2>2. user \in UserState
    BY DEF TypesInv, SubscriberTypeOK, UserState
  <2>3. PICK c \in PipelineCalls, x \in Nat :
          /\ agenda' = [agenda EXCEPT ![Client] = <<c>>] /\ x = Owed(z, c)
          /\ user'.asked = user.asked + x
    <3>1. CASE \E n \in Demands :
                 /\ agenda' = [agenda EXCEPT ![Client] = <<Request(Depth, n)>>]
                 /\ user' = [user EXCEPT !.calls = @ + 1, !.asked = @ + n]
      <4>1. PICK n \in Demands :
                 /\ agenda' = [agenda EXCEPT ![Client] = <<Request(Depth, n)>>]
                 /\ user' = [user EXCEPT !.calls = @ + 1, !.asked = @ + n]
        BY <3>1
      <4>2. n \in Nat \ {0}
        BY UserAssumption, SizesAreTyped
      <4>3. Request(Depth, n) \in PipelineCalls /\ Owed(z, Request(Depth, n)) = n
        BY <4>2, OwedByUser
      <4>4. user'.asked = user.asked + n
        BY <2>2, <4>1 DEF UserState
      <4> QED BY <4>1, <4>2, <4>3, <4>4
    <3>2. CASE /\ agenda' = [agenda EXCEPT ![Client] = <<Cancel(Depth)>>]
               /\ user' = [user EXCEPT !.calls = @ + 1, !.canceled = TRUE]
      <4>1. Cancel(Depth) \in PipelineCalls /\ Owed(z, Cancel(Depth)) = 0
        BY OwedByUser, UnpaidAre
      <4>2. user'.asked = user.asked
        BY <2>2, <3>2 DEF UserState
      <4>3. 0 \in Nat /\ user'.asked = user.asked + 0
        BY <1>5, <4>2
      <4> QED BY <3>2, <4>1, <4>3
    <3> QED BY <1>12, <3>1, <3>2 DEF UserCalls
  <2>4. /\ Countable(z, agenda')
        /\ InFlight(z, agenda', pending') = InFlight(z, agenda, pending) + Owed(z, c)
    BY <1>5, <2>1, <2>3, UserMoves DEF TypesInv
  <2>5. v + ((m + x) + k) + r <= a + x
    BY <1>7
  <2> QED BY <1>6, <2>1, <2>3, <2>4, <2>5 DEF Balanced, Credit
<1>13. ASSUME UNCHANGED vars
       PROVE  Balanced(z, agenda', pending', link', source', user', log')
  BY <1>4, <1>13 DEF vars, callVars, sourceVars, stageVars, subscriberVars
<1> QED BY <1>8, <1>9, <1>10, <1>11, <1>12, <1>13 DEF NextStep, Step, Works, Terminated

(* Whatever the source but a create: map, tap, filter, take, takeWhile,    *)
(* observeOn and delay, in any number and order, on any number of threads, *)
(* give the subscriber no value it has not asked for: a FilterSubscription *)
(* that asks again for what it dropped does so within the demand it has.   *)
(* defaultIfEmpty is left aside, whose default no call of the source pays. *)
THEOREM PipelineWithinDemand ==
  ASSUME ClosuresTypeOK
  PROVE  Spec => [](UsesOnly(Handing) => WithinDemand)
<1>1. Init => TypesInv /\ CreditInv
  BY InitIsTyped, InitIsBalanced
<1>2. TypesInv /\ CreditInv /\ [NextStep]_vars => (TypesInv /\ CreditInv)'
  BY StepIsTyped, StepIsBalanced
<1>3. TypesInv /\ CreditInv => (UsesOnly(Handing) => WithinDemand)
  <2> SUFFICES ASSUME TypesInv, CreditInv, UsesOnly(Handing), source.kind \notin Gates
               PROVE  Len(Given.values) <= user.asked
    BY DEF WithinDemand
  <2>1. PICK z \in {0, 1} : z = Least
    BY DEF Least
  <2>2. Balanced(z, agenda, pending, link, source, user, log)
    BY <2>1 DEF CreditInv
  <2>3. /\ InFlight(z, agenda, pending) \in Nat
        /\ Total(Spares(link)) \in Nat /\ Len(log.values) \in Nat
        /\ source.m_requested \in Nat /\ user.asked \in Nat
        /\ Credit(z, agenda, pending, link) = InFlight(z, agenda, pending) + Total(Spares(link))
        /\ Len(log.values) + Credit(z, agenda, pending, link) + source.m_requested <= user.asked
    BY <2>2, BalanceIsNat
  <2>4. PICK v \in Nat, m \in Nat, k \in Nat, r \in Nat, a \in Nat :
          /\ v = Len(log.values) /\ m = InFlight(z, agenda, pending) /\ k = Total(Spares(link))
          /\ r = source.m_requested /\ a = user.asked
    BY <2>3
  <2>5. v + (m + k) + r <= a
    BY <2>3, <2>4
  <2>6. v <= a
    BY <2>5
  <2>7. Given.values = log.values
    BY DEF Given, Stream
  <2> QED BY <2>4, <2>6, <2>7
<1> QED BY <1>1, <1>2, <1>3, PTL DEF Spec

---------------------------------------------------------------------------
(* The end of the stream, under operators that hand on each signal on the  *)
(* thread it comes on.  Plain calls give nothing to a subscriber, Mild     *)
(* ones no end, and Tame ones neither start a subscription nor cancel it.  *)
(* In a Firm sequence no signal waits behind an end.  Shut ones are those  *)
(* behind a gate of create(), which hands no subscription down; in a Gated *)
(* sequence the user's method is called last.                              *)
Steady == {"map", "tap", "filter", "defaultIfEmpty", "subscribeOn"} \cup Folding
Plain  == {c \in PipelineCalls : c.at = 0 \/ c.sig \notin Ends \cup {"onNext"}}
Mild   == {c \in PipelineCalls : c.at = 0 \/ c.sig \notin Ends}
Tame   == {c \in PipelineCalls : c.sig \notin {"subscribe", "cancel"}}

Heads(s) == \A k \in 2 .. Len(s) : s[k] \in Plain
Firm(s)  == \A k \in 1 .. Len(s) : s[k] \in Mild \/ \A m \in k + 1 .. Len(s) : s[m] \in Plain

Shut     == {c \in PipelineCalls : c.sig \notin {"onSubscribe", "method"}}
Gated(s) == \A k \in 1 .. Len(s) : s[k] \in Shut \/ (s[k].sig = "method" /\ k = Len(s))

LEMMA KindsOfCalls ==
  /\ Plain \subseteq Mild /\ Mild \subseteq PipelineCalls /\ Tame \subseteq PipelineCalls
  /\ Shut \subseteq PipelineCalls
  /\ \A c \in PipelineCalls :
       /\ c.at = 0 => c \in Plain
       /\ c.sig \notin Ends \cup {"onNext"} => c \in Plain
       /\ c.sig \notin Ends => c \in Mild
       /\ c.sig \notin {"subscribe", "cancel"} => c \in Tame
BY DEF Plain, Mild, Tame, Shut

LEMMA MildIsFirm ==
  ASSUME NEW s \in Seq(Mild)
  PROVE  Firm(s)
BY ElementOfSeq DEF Firm

LEMMA OneIsFirm ==
  ASSUME NEW c
  PROVE  Firm(<<c>>) /\ Heads(<<c>>)
<1>1. Len(<<c>>) = 1 /\ (\A k \in 1 .. 1 : k = 1) /\ (\A m \in 1 + 1 .. 1 : FALSE)
      /\ (\A m \in 2 .. 1 : FALSE)
  OBVIOUS
<1>2. Firm(<<c>>)
  <2>1. \A k \in 1 .. 1 : \A m \in k + 1 .. 1 : FALSE
    OBVIOUS
  <2> QED BY <1>1, <2>1 DEF Firm
<1>3. Heads(<<c>>)
  BY <1>1 DEF Heads
<1> QED BY <1>2, <1>3

LEMMA PlainHeads ==
  ASSUME NEW s \in Seq(Plain)
  PROVE  Heads(s)
<1>1. Len(s) \in Nat /\ \A k \in 1 .. Len(s) : s[k] \in Plain
  BY LenProperties, ElementOfSeq
<1> QED BY <1>1 DEF Heads

LEMMA FirmConcat ==
  ASSUME NEW a \in Seq(PipelineCalls), Firm(a), NEW b \in Seq(PipelineCalls), Firm(b),
         a \in Seq(Mild) \/ b \in Seq(Plain)
  PROVE  Firm(a \o b)
<1>1. /\ Len(a) \in Nat /\ Len(b) \in Nat /\ Len(a \o b) = Len(a) + Len(b)
      /\ \A k \in 1 .. Len(a) + Len(b) : (a \o b)[k] = IF k <= Len(a) THEN a[k] ELSE b[k - Len(a)]
  BY LenProperties, ConcatProperties
<1>2. SUFFICES ASSUME NEW k \in 1 .. Len(a) + Len(b), (a \o b)[k] \notin Mild,
                      NEW m \in k + 1 .. Len(a) + Len(b)
               PROVE  (a \o b)[m] \in Plain
  BY <1>1 DEF Firm
<1>3. CASE k > Len(a)
  <2>1. /\ k - Len(a) \in 1 .. Len(b) /\ m - Len(a) \in (k - Len(a)) + 1 .. Len(b)
        /\ ~(k <= Len(a)) /\ ~(m <= Len(a)) /\ m \in 1 .. Len(a) + Len(b)
    BY <1>1, <1>3
  <2>2. b[k - Len(a)] \notin Mild
    BY <1>1, <1>2, <2>1
  <2>3. b[m - Len(a)] \in Plain
    BY <2>1, <2>2 DEF Firm
  <2> QED BY <1>1, <2>1, <2>3
<1>4. CASE k <= Len(a)
  <2>1. k \in 1 .. Len(a) /\ (a \o b)[k] = a[k] /\ m \in 1 .. Len(a) + Len(b)
    BY <1>1, <1>4
  <2>2. a[k] \notin Mild /\ b \in Seq(Plain)
    BY <1>2, <2>1, ElementOfSeq
  <2>3. CASE m <= Len(a)
    <3>1. m \in k + 1 .. Len(a)
      BY <1>1, <2>1, <2>3
    <3> QED BY <1>1, <2>1, <2>2, <2>3, <3>1 DEF Firm
  <2>4. CASE ~(m <= Len(a))
    <3>1. m - Len(a) \in 1 .. Len(b)
      BY <1>1, <2>1, <2>4
    <3>2. b[m - Len(a)] \in Plain
      BY <2>2, <3>1, ElementOfSeq
    <3> QED BY <1>1, <2>1, <2>4, <3>2
  <2> QED BY <2>3, <2>4
<1> QED BY <1>1, <1>3, <1>4

LEMMA HeadsConcat ==
  ASSUME NEW a \in Seq(PipelineCalls), Heads(a), NEW b \in Seq(Plain)
  PROVE  Heads(a \o b)
<1>0. b \in Seq(PipelineCalls)
  BY LargerSet DEF Plain
<1>1. /\ Len(a) \in Nat /\ Len(b) \in Nat /\ Len(a \o b) = Len(a) + Len(b)
      /\ \A k \in 1 .. Len(a) + Len(b) : (a \o b)[k] = IF k <= Len(a) THEN a[k] ELSE b[k - Len(a)]
      /\ \A k \in 1 .. Len(b) : b[k] \in Plain
  BY <1>0, LenProperties, ConcatProperties, ElementOfSeq
<1>2. SUFFICES ASSUME NEW k \in 2 .. Len(a) + Len(b)
               PROVE  (a \o b)[k] \in Plain
  BY <1>1 DEF Heads
<1>3. CASE k <= Len(a)
  <2>1. k \in 2 .. Len(a) /\ k \in 1 .. Len(a) + Len(b)
    BY <1>1, <1>3
  <2> QED BY <1>1, <1>3, <2>1 DEF Heads
<1>4. CASE ~(k <= Len(a))
  <2>1. k - Len(a) \in 1 .. Len(b) /\ k \in 1 .. Len(a) + Len(b)
    BY <1>1, <1>4
  <2> QED BY <1>1, <1>4, <2>1
<1> QED BY <1>3, <1>4

(* What is behind the first call.                                          *)
LEMMA BehindHead ==
  ASSUME NEW s \in Seq(PipelineCalls), s # <<>>
  PROVE  /\ Heads(s) => Tail(s) \in Seq(Plain)
         /\ Firm(s) => Firm(Tail(s)) /\ (Head(s) \notin Mild => Tail(s) \in Seq(Plain))
         /\ \A S : s \in Seq(S) => Head(s) \in S /\ Tail(s) \in Seq(S)
<1> DEFINE r == Tail(s)
           n == Len(s) - 1
<1>1. /\ Len(s) \in Nat \ {0} /\ r \in Seq(PipelineCalls) /\ Len(r) = n /\ n \in Nat
      /\ \A k \in 1 .. n : r[k] = s[k + 1] /\ k + 1 \in 2 .. Len(s) /\ k + 1 \in 1 .. Len(s)
      /\ Head(s) = s[1] /\ 1 \in 1 .. Len(s) /\ r = [k \in 1 .. n |-> r[k]]
  <2>1. Len(s) \in Nat \ {0} /\ r \in Seq(PipelineCalls) /\ Len(r) = n /\ Head(s) = s[1]
        /\ \A k \in 1 .. n : r[k] = s[k + 1]
    BY LenProperties, HeadTailProperties, EmptySeq
  <2>2. n \in Nat /\ 1 \in 1 .. Len(s)
        /\ \A k \in 1 .. n : k + 1 \in 2 .. Len(s) /\ k + 1 \in 1 .. Len(s)
    BY <2>1
  <2>3. r = [k \in 1 .. n |-> r[k]]
    BY <2>1, LenProperties
  <2> QED BY <2>1, <2>2, <2>3
<1>2. \A S : s \in Seq(S) => Head(s) \in S /\ Tail(s) \in Seq(S)
  BY HeadTailProperties
<1> HIDE DEF r, n
<1>3. ASSUME \A k \in 1 .. n : r[k] \in Plain
      PROVE  r \in Seq(Plain)
  <2>1. r \in [1 .. n -> Plain]
    BY <1>1, <1>3
  <2> QED BY <1>1, <2>1
<1>4. Heads(s) => r \in Seq(Plain)
  BY <1>1, <1>3 DEF Heads
<1>5. ASSUME Firm(s)
      PROVE  Firm(r) /\ (Head(s) \notin Mild => r \in Seq(Plain))
  <2>1. ASSUME NEW k \in 1 .. n, r[k] \notin Mild, NEW m \in k + 1 .. n
        PROVE  r[m] \in Plain
    <3>1. s[k + 1] \notin Mild /\ k + 1 \in 1 .. Len(s) /\ m + 1 \in (k + 1) + 1 .. Len(s)
          /\ m \in 1 .. n
      BY <1>1, <2>1 DEF n
    <3> QED BY <1>1, <1>5, <3>1 DEF Firm
  <2>2. ASSUME Head(s) \notin Mild, NEW k \in 1 .. n
        PROVE  r[k] \in Plain
    <3>1. k + 1 \in 1 + 1 .. Len(s)
      BY <1>1, <2>2
    <3> QED BY <1>1, <1>5, <2>2, <3>1 DEF Firm
  <2> QED BY <1>1, <1>3, <2>1, <2>2 DEF Firm
<1> QED BY <1>2, <1>4, <1>5 DEF r

LEMMA GatedBehind ==
  ASSUME NEW s \in Seq(PipelineCalls), s # <<>>, Gated(s)
  PROVE  /\ Head(s).sig # "onSubscribe"
         /\ Head(s) \in Shut \/ (Head(s).sig = "method" /\ Tail(s) = <<>>)
         /\ \A calls \in Seq(Shut) : Gated(calls \o Tail(s))
<1> DEFINE r == Tail(s)
           n == Len(s) - 1
<1>1. /\ Len(s) \in Nat \ {0} /\ r \in Seq(PipelineCalls) /\ Len(r) = n
      /\ \A k \in 1 .. n : r[k] = s[k + 1]
      /\ Head(s) = s[1] /\ 1 \in 1 .. Len(s)
  BY LenProperties, HeadTailProperties, EmptySeq
<1>2. n \in Nat /\ \A k \in 1 .. n : k + 1 \in 1 .. Len(s) /\ (k + 1 = Len(s) => k = n)
  <2>1. PICK m \in Nat \ {0} : m = Len(s)
    BY <1>1
  <2>2. m - 1 \in Nat /\ \A k \in 1 .. m - 1 : k + 1 \in 1 .. m /\ (k + 1 = m => k = m - 1)
    BY <2>1
  <2> QED BY <2>1, <2>2
<1>3. Head(s) \in Shut \/ (Head(s).sig = "method" /\ n = 0)
  <2>1. s[1] \in Shut \/ (s[1].sig = "method" /\ 1 = Len(s))
    BY <1>1 DEF Gated
  <2>2. ASSUME 1 = Len(s)
        PROVE  n = 0
    <3>1. 1 - 1 = 0
      OBVIOUS
    <3> QED BY <2>2, <3>1
  <2> QED BY <1>1, <2>1, <2>2
<1> HIDE DEF r, n
<1>4. \A k \in 1 .. n : r[k] \in Shut \/ (r[k].sig = "method" /\ k = n)
  BY <1>1, <1>2 DEF Gated
<1>5. Head(s).sig # "onSubscribe"
  BY <1>3 DEF Shut
<1>6. n = 0 => r = <<>>
  BY <1>1, EmptySeq
<1>7. ASSUME NEW calls \in Seq(Shut)
      PROVE  Gated(calls \o r)
  <2>1. calls \in Seq(PipelineCalls)
    BY LargerSet, KindsOfCalls
  <2>2. /\ Len(calls) \in Nat /\ Len(calls \o r) = Len(calls) + n
        /\ \A k \in 1 .. Len(calls) : calls[k] \in Shut
        /\ \A k \in 1 .. Len(calls) + n :
             (calls \o r)[k] = IF k <= Len(calls) THEN calls[k] ELSE r[k - Len(calls)]
    <3>1. Len(calls) \in Nat /\ \A k \in 1 .. Len(calls) : calls[k] \in Shut
      BY LenProperties, ElementOfSeq
    <3>2. /\ Len(calls \o r) = Len(calls) + Len(r)
          /\ \A k \in 1 .. Len(calls) + Len(r) :
               (calls \o r)[k] = IF k <= Len(calls) THEN calls[k] ELSE r[k - Len(calls)]
      BY <1>1, <2>1, ConcatProperties
    <3> QED BY <1>1, <3>1, <3>2
  <2>3. ASSUME NEW k \in 1 .. Len(calls) + n
        PROVE  \/ (calls \o r)[k] \in Shut
               \/ (calls \o r)[k].sig = "method" /\ k = Len(calls) + n
    <3>1. CASE k <= Len(calls)
      <4>1. k \in 1 .. Len(calls)
        BY <1>2, <2>2, <3>1
      <4> QED BY <2>2, <3>1, <4>1
    <3>2. CASE ~(k <= Len(calls))
      <4>1. k - Len(calls) \in 1 .. n /\ (k - Len(calls) = n => k = Len(calls) + n)
        BY <1>2, <2>2, <3>2
      <4>2. (calls \o r)[k] = r[k - Len(calls)]
        BY <2>2, <3>2
      <4> QED BY <1>4, <4>1, <4>2
    <3> QED BY <3>1, <3>2
  <2> QED BY <2>2, <2>3 DEF Gated
<1> QED BY <1>3, <1>5, <1>6, <1>7 DEF r

LEMMA ShutIsGated ==
  ASSUME NEW s \in Seq(Shut)
  PROVE  Gated(s)
BY ElementOfSeq, LenProperties DEF Gated

LEMMA MethodIsGated ==
  ASSUME NEW n
  PROVE  Gated(<<Call(0, "method", n)>>)
<1>1. Call(0, "method", n).sig = "method"
  BY DEF Call
<1>2. Len(<<Call(0, "method", n)>>) = 1 /\ \A k \in 1 .. 1 : k = 1
  OBVIOUS
<1> QED BY <1>1, <1>2 DEF Gated

LEMMA EmitsGated ==
  ASSUME NEW c \in Shut, NEW n
  PROVE  Gated(<<c, Call(0, "method", n)>>)
<1>1. Call(0, "method", n).sig = "method"
  BY DEF Call
<1>2. Len(<<c, Call(0, "method", n)>>) = 2 /\ \A k \in 1 .. 2 : k = 1 \/ k = 2
  OBVIOUS
<1> QED BY <1>1, <1>2 DEF Gated

(* What a handler of a steady operator calls: nothing behind an end, no    *)
(* signal if it was not given one, no end if it was not given one, and a   *)
(* value first of all.                                                     *)
Follows(c, calls) ==
  /\ Firm(calls)
  /\ c \in Plain => calls \in Seq(Plain)
  /\ c \in Mild => calls \in Seq(Mild) /\ Heads(calls)
  /\ c \in Tame => calls \in Seq(Tame)
  /\ c \in Shut => calls \in Seq(Shut)

LEMMA PlainFollows ==
  ASSUME NEW c, NEW calls \in Seq(Plain), c \in Tame => calls \in Seq(Tame),
         c \in Shut => calls \in Seq(Shut)
  PROVE  Follows(c, calls)
BY KindsOfCalls, LargerSet, MildIsFirm, PlainHeads DEF Follows

LEMMA SteadyOperator ==
  ASSUME ClosuresTypeOK, CallsTypeOK, OperatorsOK, NEW t \in Threads, NEW i \in Stages,
         Does(i, Steady), OperatorStep(t, i)
  PROVE  IF Head(agenda[t]).sig = "subscribe"
         THEN \E c \in PipelineCalls :
                /\ c = Call(i - 1, "subscribe", 0)
                /\ Makes(t, <<c>>) \/ Schedules(t, "now", c)
         ELSE \E calls \in Seq(PipelineCalls) :
                Makes(t, calls) /\ Follows(Head(agenda[t]), calls)
<1> DEFINE c == Head(agenda[t])
<1>0. agenda[t] # <<>>
  BY DEF OperatorStep
<1>1. /\ Arg(t) \in Nat /\ 0 \in Nat /\ Method(Arg(t)) \in Nat /\ <<>> \in Seq(Plain)
      /\ <<>> \in Seq(Tame) /\ <<>> \in Seq(Shut) /\ SizeMax \in Nat /\ i \in Nat /\ i # 0
      /\ link[i] \in LinkState /\ own[i] \in OperatorState /\ c \in PipelineCalls
  <2>1. Arg(t) \in Nat /\ c \in PipelineCalls
    BY <1>0, HeadIsTyped
  <2>2. link[i] \in LinkState /\ own[i] \in OperatorState
    BY DEF OperatorsOK
  <2>3. i \in Nat /\ i # 0 /\ SizeMax \in Nat /\ 0 \in Nat
    BY DepthAssumption, SizeAssumption DEF Stages
  <2> QED BY <2>1, <2>2, <2>3, EmptySeq DEF ClosuresTypeOK
<1>2. /\ {Request(i - 1, Arg(t)), Request(i - 1, SizeMax),
          Call(i, "release", 0), Filtered(i, TRUE), Filtered(i, FALSE)} \subseteq Plain \cap Tame \cap Shut
      /\ \A n \in Nat : Request(i - 1, n) \in Plain \cap Tame \cap Shut
      /\ Subscription(i) \in Plain \cap Tame
      /\ Cancel(i - 1) \in Plain \cap Shut
      /\ \A v \in Nat : Value(i, v) \in Mild \cap Tame \cap Shut
      /\ {Completion(i), Failure(i)} \subseteq PipelineCalls \cap Tame \cap Shut
  <2>1. /\ \A n : Request(i - 1, n).sig = "request"
        /\ Subscription(i).sig = "onSubscribe" /\ Call(i, "release", 0).sig = "release"
        /\ \A b : Filtered(i, b).sig = "filtered"
        /\ Cancel(i - 1).sig = "cancel" /\ \A v : Value(i, v).sig = "onNext"
        /\ Completion(i).sig = "onComplete" /\ Failure(i).sig = "onError"
    BY DEF Request, Subscription, Filtered, Call, Cancel, Value, Completion, Failure
  <2>2. /\ \A n \in Nat : Request(i - 1, n) \in PipelineCalls /\ Value(i, n) \in PipelineCalls
        /\ {Cancel(i - 1), Completion(i), Failure(i), Subscription(i), Call(i, "release", 0),
            Filtered(i, TRUE), Filtered(i, FALSE)} \subseteq PipelineCalls
    BY <1>1, StageCalls
  <2>3. i - 1 \in Nat /\ SizeMax \in Nat /\ Arg(t) \in Nat
    BY <1>1
  <2>4. \A n \in Nat : Request(i - 1, n) \in Plain \cap Tame \cap Shut
    BY <2>1, <2>2 DEF Plain, Tame, Shut, Ends
  <2>5. {Call(i, "release", 0), Filtered(i, TRUE), Filtered(i, FALSE)} \subseteq Plain \cap Tame \cap Shut
    BY <2>1, <2>2 DEF Plain, Tame, Shut, Ends
  <2>6. Cancel(i - 1) \in Plain \cap Shut
    BY <2>1, <2>2 DEF Plain, Shut, Ends
  <2>7. \A v \in Nat : Value(i, v) \in Mild \cap Tame \cap Shut
    BY <2>1, <2>2 DEF Mild, Tame, Shut, Ends
  <2>8. {Completion(i), Failure(i)} \subseteq PipelineCalls \cap Tame \cap Shut
    BY <2>1, <2>2 DEF Tame, Shut
  <2>9. Subscription(i) \in Plain \cap Tame
    BY <2>1, <2>2 DEF Plain, Tame, Ends
  <2> QED BY <2>3, <2>4, <2>5, <2>6, <2>7, <2>8, <2>9
<1>3. ASSUME NEW calls \in Seq(Plain), c \in Tame => calls \in Seq(Tame),
             c \in Shut => calls \in Seq(Shut), Makes(t, calls)
      PROVE  \E s \in Seq(PipelineCalls) : Makes(t, s) /\ Follows(c, s)
  BY <1>3, PlainFollows, KindsOfCalls, LargerSet
<1>4. /\ Releases(i) \in Seq(Plain) /\ Releases(i) \in Seq(Tame) /\ Releases(i) \in Seq(Shut)
      /\ \A d \in Plain \cap Tame : <<d>> \in Seq(Plain) /\ <<d>> \in Seq(Tame)
      /\ \A d \in Shut : <<d>> \in Seq(Shut)
      /\ <<Cancel(i - 1)>> \in Seq(Plain) /\ <<Cancel(i - 1)>> \in Seq(Shut)
  <2>1. \A d \in Plain \cap Tame : <<d>> \in Seq(Plain) /\ <<d>> \in Seq(Tame)
    OBVIOUS
  <2>2. \A d \in Shut : <<d>> \in Seq(Shut)
    OBVIOUS
  <2>3. <<Cancel(i - 1)>> \in Seq(Plain) /\ <<Cancel(i - 1)>> \in Seq(Shut)
    BY <1>2
  <2> QED BY <1>1, <1>2, <2>1, <2>2, <2>3 DEF Releases
(* The subscription it handed down.                                        *)
<1>5. ASSUME SubscriptionStep(t, i)
      PROVE  \E s \in Seq(PipelineCalls) : Makes(t, s) /\ Follows(c, s)
  <2>1. CASE ForwardRequest(t, i) \/ FilterRequest(t, i)
    <3>1. PICK calls \in {<<>>, <<Request(i - 1, Arg(t))>>} : Makes(t, calls)
      BY <2>1 DEF ForwardRequest, FilterRequest
    <3> QED BY <1>1, <1>2, <1>3, <1>4, <3>1
  <2>2. CASE ForwardCancel(t, i) \/ FilterCancel(t, i)
    <3>1. PICK calls \in {<<>>, <<Cancel(i - 1)>>} : Makes(t, calls)
      BY <2>2 DEF ForwardCancel, FilterCancel
    <3>2. c \notin Tame
      BY <2>2 DEF ForwardCancel, FilterCancel, On, Tame
    <3> QED BY <1>1, <1>3, <1>4, <3>1, <3>2
  <2>3. CASE FilterOnNext(t, i)
    <3> DEFINE requested == IF Arg(t) = 1 THEN link[i].m_requested
                            ELSE Decrement(link[i].m_requested)
    <3>1. requested \in Nat
      BY <1>1, SizesAreTyped DEF LinkState
    <3>2. PICK calls \in {<<>>, <<Request(i - 1, requested)>>} : Makes(t, calls)
      BY <2>3 DEF FilterOnNext
    <3> HIDE DEF requested
    <3>3. Request(i - 1, requested) \in Plain \cap Tame \cap Shut
      BY <1>2, <3>1
    <3> QED BY <1>1, <1>3, <1>4, <3>2, <3>3
  <2> QED BY <1>5, <2>1, <2>2, <2>3 DEF SubscriptionStep
(* An end: the values kept until then, the end, and nothing but release().  *)
<1>6. ASSUME NEW given \in Seq(Mild \cap Tame \cap Shut), NEW e \in {Completion(i), Failure(i)},
             Makes(t, given \o <<e>> \o Releases(i)),
             c.sig \in Ends, c.at = i
      PROVE  \E s \in Seq(PipelineCalls) : Makes(t, s) /\ Follows(c, s)
  <2>1. c \notin Plain /\ c \notin Mild
    BY <1>1, <1>6 DEF Plain, Mild
  <2>2. /\ given \in Seq(Mild) /\ given \in Seq(Tame) /\ given \in Seq(PipelineCalls)
        /\ given \in Seq(Shut)
        /\ e \in PipelineCalls /\ e \in Tame /\ e \in Shut
    BY <1>2, KindsOfCalls, LargerSet
  <2>3. <<e>> \in Seq(PipelineCalls) /\ <<e>> \in Seq(Tame) /\ <<e>> \in Seq(Shut) /\ Firm(<<e>>)
        /\ Releases(i) \in Seq(PipelineCalls) /\ Firm(Releases(i)) /\ Firm(given)
    BY <1>4, <2>2, OneIsFirm, KindsOfCalls, LargerSet, MildIsFirm, ReleasesTyped
  <2>4. /\ given \o <<e>> \in Seq(PipelineCalls) /\ given \o <<e>> \in Seq(Tame)
        /\ given \o <<e>> \in Seq(Shut)
        /\ Firm(given \o <<e>>)
    BY <2>2, <2>3, FirmConcat, ConcatProperties
  <2>5. /\ given \o <<e>> \o Releases(i) \in Seq(PipelineCalls)
        /\ given \o <<e>> \o Releases(i) \in Seq(Tame)
        /\ given \o <<e>> \o Releases(i) \in Seq(Shut)
        /\ Firm(given \o <<e>> \o Releases(i))
    BY <1>4, <2>3, <2>4, FirmConcat, ConcatProperties
  <2> QED BY <1>6, <2>1, <2>5 DEF Follows
<1>7. ASSUME NEW values \in Seq(Nat), EndsWith(t, i, values)
      PROVE  \E s \in Seq(PipelineCalls) : Makes(t, s) /\ Follows(c, s)
  <2> DEFINE given == [k \in DOMAIN values |-> Value(i, values[k])]
  <2>1. given \in Seq(Mild \cap Tame \cap Shut)
    <3>1. \A k \in 1 .. Len(values) : Value(i, values[k]) \in Mild \cap Tame \cap Shut
      BY <1>2, ElementOfSeq
    <3>2. given = [k \in 1 .. Len(values) |-> Value(i, values[k])] /\ Len(values) \in Nat
      BY LenProperties
    <3> HIDE DEF given
    <3> QED BY <3>1, <3>2, IsASeq
  <2>2. Makes(t, given \o <<Completion(i)>> \o Releases(i)) /\ c.sig \in Ends /\ c.at = i
    BY <1>7 DEF EndsWith, Answers, On, Ends
  <2> HIDE DEF given
  <2> QED BY <1>6, <2>1, <2>2
<1>8. ASSUME Fails(t, i)
      PROVE  \E s \in Seq(PipelineCalls) : Makes(t, s) /\ Follows(c, s)
  <2>1. Makes(t, <<Failure(i)>> \o Releases(i)) /\ c.sig \in Ends /\ c.at = i
    BY <1>8 DEF Fails, Answers, On, Ends
  <2>2. <<>> \o <<Failure(i)>> = <<Failure(i)>> /\ <<>> \in Seq(Mild \cap Tame \cap Shut)
    BY TupleConcat, EmptySeq
  <2>3. PICK given \in Seq(Mild \cap Tame \cap Shut) : given = <<>> /\ given \o <<Failure(i)>> = <<Failure(i)>>
    BY <2>2
  <2> QED BY <1>6, <2>1, <2>3
(* A value.                                                                *)
<1>9. ASSUME c.sig = "onNext", c.at = i, NEW v \in Nat, NEW rest \in Seq(Plain), rest \in Seq(Tame),
             rest \in Seq(Shut), Makes(t, <<Value(i, v)>> \o rest)
      PROVE  \E s \in Seq(PipelineCalls) : Makes(t, s) /\ Follows(c, s)
  <2>1. c \notin Plain
    BY <1>1, <1>9 DEF Plain
  <2>2. /\ Value(i, v) \in Mild /\ Value(i, v) \in Tame /\ Value(i, v) \in PipelineCalls
        /\ Value(i, v) \in Shut
    BY <1>2, KindsOfCalls
  <2>3. /\ <<Value(i, v)>> \in Seq(Mild) /\ <<Value(i, v)>> \in Seq(Tame)
        /\ <<Value(i, v)>> \in Seq(PipelineCalls) /\ <<Value(i, v)>> \in Seq(Shut)
        /\ Heads(<<Value(i, v)>>)
        /\ rest \in Seq(Mild) /\ rest \in Seq(PipelineCalls)
    BY <2>2, OneIsFirm, KindsOfCalls, LargerSet, ShortSequences
  <2>4. /\ <<Value(i, v)>> \o rest \in Seq(Mild) /\ <<Value(i, v)>> \o rest \in Seq(Tame)
        /\ <<Value(i, v)>> \o rest \in Seq(PipelineCalls) /\ Heads(<<Value(i, v)>> \o rest)
        /\ <<Value(i, v)>> \o rest \in Seq(Shut)
    BY <1>9, <2>3, HeadsConcat, ConcatProperties
  <2> QED BY <1>9, <2>1, <2>4, MildIsFirm DEF Follows
<1>10. ASSUME NEW v \in Nat, Answers(t, i, "onNext", <<Value(i, v)>>)
       PROVE  \E s \in Seq(PipelineCalls) : Makes(t, s) /\ Follows(c, s)
  <2>1. PICK e \in Seq(Plain) : e = <<>> /\ e \in Seq(Tame) /\ e \in Seq(Shut)
    BY <1>1
  <2>2. <<Value(i, v)>> \o e = <<Value(i, v)>>
    BY <2>1, TupleConcat
  <2> QED BY <1>9, <1>10, <2>1, <2>2 DEF Answers, On
<1>11. ASSUME NEW sig, NEW field, NEW x, Notes(t, i, sig, field, x, <<>>)
       PROVE  \E s \in Seq(PipelineCalls) : Makes(t, s) /\ Follows(c, s)
  BY <1>1, <1>3, <1>11 DEF Notes
<1>12. CASE c.sig = "subscribe"
  <2>1. Subscribe(t, i) \/ Hands(t, i, "subscribe", "now", Call(i - 1, "subscribe", 0))
    BY <1>12 DEF OperatorStep, Does, Steady, Folding, SubscriptionStep, ForwardRequest, ForwardCancel,
          FilterRequest, FilterCancel, FilterOnNext, AllOf, AnyOf, NoneOf, FirstElement, ElementAt,
          LastElement, Maximum, Minimum, Count, Reduce, DefaultIfEmpty, Map, Tap, IgnoreElements,
          Filter, Take, TakeWhile, ObserveOn, SubscribeOn, Delay, FlatMap, AndThen, SwitchOnError,
          Relays, Keeps, Drains, OnSubscribe, Release, Fails, EndsWith, Completes, Better, Notes,
          Answers, Forwards, Hands, On
  <2>2. Call(i - 1, "subscribe", 0) \in PipelineCalls
    BY <1>1, StageCalls
  <2> QED BY <1>12, <2>1, <2>2 DEF Subscribe, Hands
<1>13. CASE c.sig # "subscribe"
  <2> DEFINE Goal == \E s \in Seq(PipelineCalls) : Makes(t, s) /\ Follows(c, s)
  <2> SUFFICES Goal
    BY <1>13
  <2>1. ~Subscribe(t, i) /\ \A call : ~Hands(t, i, "subscribe", "now", call)
    BY <1>13 DEF Subscribe, Hands, On
  <2>2. ASSUME \/ Release(t, i) \/ Completes(t, i) \/ Fails(t, i) \/ Forwards(t, i)
               \/ \E keeps : OnSubscribe(t, i, keeps)
        PROVE  Goal
    <3>1. CASE Release(t, i)
      BY <1>1, <1>3, <3>1 DEF Release
    <3>2. CASE Completes(t, i)
      <4>1. PICK e \in Seq(Nat) : e = <<>>
        BY EmptySeq
      <4> QED BY <1>7, <3>2, <4>1 DEF Completes
    <3>3. CASE Forwards(t, i)
      BY <1>1, <1>10, <3>3 DEF Forwards
    <3>4. ASSUME NEW keeps, OnSubscribe(t, i, keeps)
          PROVE  Goal
      <4>1. c \notin Shut
        BY <3>4 DEF OnSubscribe, On, Shut
      <4> QED BY <1>2, <1>3, <1>4, <3>4, <4>1 DEF OnSubscribe
    <3> QED BY <1>8, <2>2, <3>1, <3>2, <3>3, <3>4
  <2>3. ASSUME Relays(t, i) \/ Keeps(t, i)
        PROVE  Goal
    <3> HIDE DEF Goal
    <3> QED BY <2>1, <2>2, <2>3 DEF Relays, Keeps
  <2>4. /\ \A n \in Nat : <<n>> \in Seq(Nat)
        /\ own[i].m_result \in Seq(Nat) /\ own[i].m_count \in Nat /\ <<>> \in Seq(Nat)
        /\ OrZero(own[i].m_result) \in Seq(Nat) /\ DefaultValue \in Nat
    <3>1. own[i].m_result \in Seq(Nat) /\ own[i].m_count \in Nat
      BY <1>1, SizesAreTyped DEF OperatorState, Members
    <3>2. \A n \in Nat : <<n>> \in Seq(Nat)
      OBVIOUS
    <3> QED BY <1>1, <3>1, <3>2, EmptySeq, OperatorsAssumption DEF OrZero
  <2> HIDE DEF Goal
  <2>5. CASE Map(t, i)
    BY <1>1, <1>10, <2>2, <2>3, <2>5 DEF Map, Goal
  <2>6. CASE Tap(t, i)
    BY <2>2, <2>3, <2>6 DEF Tap
  <2>7. CASE Filter(t, i)
    <3>1. ASSUME Answers(t, i, "onNext", <<Value(i, Arg(t)), Filtered(i, FALSE)>>)
          PROVE  Goal
      <4>1. <<Value(i, Arg(t)), Filtered(i, FALSE)>> = <<Value(i, Arg(t))>> \o <<Filtered(i, FALSE)>>
        BY TupleConcat
      <4>2. /\ <<Filtered(i, FALSE)>> \in Seq(Plain) /\ <<Filtered(i, FALSE)>> \in Seq(Tame)
            /\ <<Filtered(i, FALSE)>> \in Seq(Shut)
        BY <1>2, <1>4
      <4> QED BY <1>1, <1>9, <3>1, <4>1, <4>2 DEF Answers, On, Goal
    <3>2. ASSUME Answers(t, i, "onNext", <<Filtered(i, TRUE)>>)
          PROVE  Goal
      <4>1. /\ <<Filtered(i, TRUE)>> \in Seq(Plain) /\ <<Filtered(i, TRUE)>> \in Seq(Tame)
            /\ <<Filtered(i, TRUE)>> \in Seq(Shut)
        BY <1>2, <1>4
      <4> QED BY <1>3, <3>2, <4>1 DEF Answers, Goal
    <3> QED BY <2>2, <2>3, <2>7, <3>1, <3>2 DEF Filter
  <2>8. CASE SubscribeOn(t, i)
    BY <2>1, <2>2, <2>8 DEF SubscribeOn
  <2>9. CASE DefaultIfEmpty(t, i)
    <3>1. ASSUME Notes(t, i, "onNext", "m_flag", TRUE, <<Value(i, Arg(t))>>)
          PROVE  Goal
      <4>1. PICK e \in Seq(Plain) : e = <<>> /\ e \in Seq(Tame) /\ e \in Seq(Shut)
        BY <1>1
      <4>2. <<Value(i, Arg(t))>> \o e = <<Value(i, Arg(t))>>
        BY <4>1, TupleConcat
      <4> QED BY <1>1, <1>9, <3>1, <4>1, <4>2 DEF Notes, On, Goal
    <3>2. ASSUME NEW values \in Seq(Nat), EndsWith(t, i, values)
          PROVE  Goal
      BY <1>7, <3>2 DEF Goal
    <3> QED BY <2>3, <2>4, <2>9, <3>1, <3>2 DEF DefaultIfEmpty
  <2>10. ASSUME NEW values \in Seq(Nat), EndsWith(t, i, values)
         PROVE  Goal
    BY <1>7, <2>10 DEF Goal
  <2>11. ASSUME NEW sig, NEW field, NEW x, Notes(t, i, sig, field, x, <<>>)
         PROVE  Goal
    BY <1>11, <2>11 DEF Goal
  <2>12. CASE LastElement(t, i) \/ Maximum(t, i) \/ Minimum(t, i) \/ Count(t, i) \/ Reduce(t, i)
    BY <2>3, <2>4, <2>10, <2>11, <2>12
       DEF LastElement, Maximum, Minimum, Count, Reduce, Better
  <2>13. CASE IgnoreElements(t, i)
    <3>1. ASSUME NEW calls \in {<<>>, <<Request(i - 1, SizeMax)>>}, Makes(t, calls)
          PROVE  Goal
      <4>1. Request(i - 1, SizeMax) \in Plain \cap Tame \cap Shut
        BY <1>1, <1>2
      <4> QED BY <1>1, <1>3, <1>4, <3>1, <4>1 DEF Goal
    <3>2. \/ Release(t, i) \/ Completes(t, i) \/ Fails(t, i)
          \/ Makes(t, <<>>) \/ Makes(t, <<Request(i - 1, SizeMax)>>)
      BY <2>1, <2>13 DEF IgnoreElements, Drains, Notes
    <3> QED BY <2>2, <3>1, <3>2
  <2>14. \/ SubscriptionStep(t, i) \/ Map(t, i) \/ Tap(t, i) \/ Filter(t, i) \/ SubscribeOn(t, i)
         \/ DefaultIfEmpty(t, i) \/ LastElement(t, i) \/ Maximum(t, i) \/ Minimum(t, i)
         \/ Count(t, i) \/ Reduce(t, i) \/ IgnoreElements(t, i)
    BY DEF OperatorStep, Does, Steady, Folding, AllOf, AnyOf, NoneOf, FirstElement, ElementAt, Take,
           TakeWhile, ObserveOn, Delay, FlatMap, AndThen, SwitchOnError
  <2>15. SubscriptionStep(t, i) => Goal
    BY <1>5 DEF Goal
  <2> QED BY <2>5, <2>6, <2>7, <2>8, <2>9, <2>12, <2>13, <2>14, <2>15
<1> QED BY <1>12, <1>13

LEMMA OperatorIsNoMethod ==
  ASSUME NEW t \in Threads, NEW i \in Stages, Does(i, Steady), OperatorStep(t, i)
  PROVE  Head(agenda[t]).sig # "method"
BY DEF OperatorStep, Does, Steady, Folding, SubscriptionStep, ForwardRequest, ForwardCancel,
       FilterRequest, FilterCancel, FilterOnNext, AllOf, AnyOf, NoneOf, FirstElement, ElementAt,
       LastElement, Maximum, Minimum, Count, Reduce, DefaultIfEmpty, Map, Tap, IgnoreElements,
       Filter, Take, TakeWhile, ObserveOn, SubscribeOn, Delay, FlatMap, AndThen, SwitchOnError,
       Relays, Keeps, Drains, Subscribe, OnSubscribe, Release, Fails, EndsWith, Completes, Better,
       Notes, Answers, Forwards, Hands, On

(* The source has ended its stream.                                        *)
SourceOver ==
  IF source.kind \in Gates THEN source.m_ended ELSE source.m_completed \/ source.kind = "error"

(* What it calls: nothing but plain calls, or a value before the end, or   *)
(* its end.  A gate's method may go on in a task.                          *)
LEMMA SteadySource ==
  ASSUME CallsTypeOK, SourceOK(source), NEW t \in Threads, SourceStep(t),
         source.kind # "interval", Head(agenda[t]).sig # "cancel"
  PROVE  IF Head(agenda[t]).sig = "subscribe"
         THEN \/ UNCHANGED <<callVars, source.m_completed, source.m_ended>>
              \/ \E calls \in Seq(Tame) :
                   /\ Makes(t, calls) /\ UNCHANGED source
                   /\ calls \in Seq(Plain) \/ (source.kind = "error" /\ Firm(calls))
                   /\ source.kind \in Gates => Gated(calls)
         ELSE \/ /\ source.kind \in Gates /\ Head(agenda[t]).sig = "method" /\ UNCHANGED source
                 /\ Schedules(t, "now", Call(0, "method", Arg(t)))
              \/ \E calls \in Seq(Tame) :
                   /\ Makes(t, calls)
                   /\ \/ calls \in Seq(Plain) /\ UNCHANGED SourceOver
                      \/ ~SourceOver /\ ~SourceOver' /\ calls \in Seq(Mild) /\ Heads(calls)
                      \/ ~SourceOver /\ SourceOver' /\ Firm(calls)
                   /\ source.kind \in Gates =>
                        Gated(calls) /\ (Head(agenda[t]).sig = "method" \/ calls \in Seq(Shut))
<1>0. agenda[t] # <<>> /\ source \in SourceMembers
  BY SourceActs DEF SourceOK
<1>1. /\ Arg(t) \in Nat /\ 0 \in Nat /\ <<>> \in Seq(Plain) /\ <<>> \in Seq(Tame)
      /\ <<>> \o <<>> = <<>> /\ <<>> \in Seq(Shut) /\ Gated(<<>>)
  <2>1. <<>> \in Seq(Shut) /\ <<>> \in Seq(Plain) /\ <<>> \in Seq(Tame)
    BY EmptySeq
  <2>2. Gated(<<>>)
    BY <2>1, ShutIsGated
  <2>3. Arg(t) \in Nat /\ 0 \in Nat
    BY <1>0, HeadIsTyped
  <2>4. <<>> \o <<>> = <<>>
    OBVIOUS
  <2> QED BY <2>1, <2>2, <2>3, <2>4
<1> DEFINE Behind(calls) ==
      source.kind \in Gates =>
        Gated(calls) /\ (Head(agenda[t]).sig = "method" \/ calls \in Seq(Shut))
<1>2. /\ {Subscription(0), Call(0, "method", 1)} \subseteq Plain \cap Tame
      /\ \A n \in Nat : Request(0, n) \in Plain \cap Tame /\ Call(0, "method", n + 1) \in Plain \cap Tame
      /\ \A sig \in {"onNext", "onError", "onComplete"}, n \in Nat :
           Call(0, sig, n) \in Plain \cap Tame \cap Shut
      /\ \A v \in Nat : Value(0, v) \in Mild /\ Value(0, v) \in Tame /\ Value(0, v) \in Shut
      /\ {Completion(0), Failure(0)} \subseteq Tame \cap Shut
  <2>1. /\ \A n : Request(0, n).sig = "request" /\ Call(0, "method", n).sig = "method"
        /\ Subscription(0).sig = "onSubscribe"
        /\ \A sig, n : Call(0, sig, n).at = 0 /\ Call(0, sig, n).sig = sig
        /\ \A v : Value(0, v).sig = "onNext"
        /\ Completion(0).sig = "onComplete" /\ Failure(0).sig = "onError"
    BY DEF Request, Subscription, Call, Value, Completion, Failure
  <2>2. /\ \A n \in Nat : /\ Request(0, n) \in PipelineCalls /\ Value(0, n) \in PipelineCalls
                          /\ Call(0, "method", n + 1) \in PipelineCalls
                          /\ \A sig \in {"onNext", "onError", "onComplete"} : Call(0, sig, n) \in PipelineCalls
        /\ {Completion(0), Failure(0), Subscription(0)} \subseteq PipelineCalls
        /\ Call(0, "method", 1) \in PipelineCalls
    <3>1. /\ \A n \in Nat : /\ Request(0, n) \in PipelineCalls /\ Value(0, n) \in PipelineCalls
                            /\ Call(0, "method", n + 1) \in PipelineCalls
                            /\ \A sig \in {"onNext", "onError", "onComplete"} : Call(0, sig, n) \in PipelineCalls
          /\ {Completion(0), Failure(0), Subscription(0)} \subseteq PipelineCalls
      BY <1>1, SourceCalls
    <3>2. Call(0, "method", 0 + 1) \in PipelineCalls /\ 0 + 1 = 1
      BY <1>1, <3>1
    <3> QED BY <3>1, <3>2
  <2>3. {Subscription(0), Call(0, "method", 1)} \subseteq Plain \cap Tame
    BY <2>1, <2>2 DEF Plain, Tame, Ends
  <2>4. \A n \in Nat : Request(0, n) \in Plain \cap Tame /\ Call(0, "method", n + 1) \in Plain \cap Tame
    BY <2>1, <2>2 DEF Plain, Tame, Ends
  <2>5. \A sig \in {"onNext", "onError", "onComplete"}, n \in Nat :
          Call(0, sig, n) \in Plain \cap Tame \cap Shut
    BY <2>1, <2>2 DEF Plain, Tame, Shut
  <2>6. \A v \in Nat : Value(0, v) \in Mild /\ Value(0, v) \in Tame /\ Value(0, v) \in Shut
    BY <2>1, <2>2 DEF Mild, Tame, Shut, Ends
  <2>7. {Completion(0), Failure(0)} \subseteq Tame \cap Shut
    BY <2>1, <2>2 DEF Tame, Shut
  <2> QED BY <2>3, <2>4, <2>5, <2>6, <2>7
<1>3. \A c \in Tame : /\ <<c>> \in Seq(Tame) /\ Firm(<<c>>) /\ Heads(<<c>>)
                      /\ (c \in Mild => <<c>> \in Seq(Mild))
                      /\ (c \in Plain => <<c>> \in Seq(Plain))
  <2> SUFFICES ASSUME NEW c \in Tame
               PROVE  /\ <<c>> \in Seq(Tame) /\ Firm(<<c>>) /\ Heads(<<c>>)
                      /\ (c \in Mild => <<c>> \in Seq(Mild))
                      /\ (c \in Plain => <<c>> \in Seq(Plain))
    OBVIOUS
  <2>1. <<c>> \in Seq(Tame)
    OBVIOUS
  <2>2. (c \in Mild => <<c>> \in Seq(Mild)) /\ (c \in Plain => <<c>> \in Seq(Plain))
    OBVIOUS
  <2>3. Firm(<<c>>) /\ Heads(<<c>>)
    BY OneIsFirm
  <2> QED BY <2>1, <2>2, <2>3
<1>4. \A v \in Nat : <<Value(0, v), Completion(0)>> \in Seq(Tame) /\ Firm(<<Value(0, v), Completion(0)>>)
  <2> SUFFICES ASSUME NEW v \in Nat
               PROVE  <<Value(0, v), Completion(0)>> \in Seq(Tame) /\ Firm(<<Value(0, v), Completion(0)>>)
    OBVIOUS
  <2>1. /\ <<Value(0, v)>> \in Seq(PipelineCalls) /\ <<Completion(0)>> \in Seq(PipelineCalls)
        /\ <<Value(0, v)>> \in Seq(Mild)
        /\ Firm(<<Value(0, v)>>) /\ Firm(<<Completion(0)>>)
        /\ <<Value(0, v)>> \in Seq(Tame) /\ <<Completion(0)>> \in Seq(Tame)
    BY <1>2, <1>3, KindsOfCalls, LargerSet
  <2>2. /\ <<Value(0, v)>> \o <<Completion(0)>> \in Seq(Tame)
        /\ Firm(<<Value(0, v)>> \o <<Completion(0)>>)
    BY <2>1, FirmConcat, ConcatProperties
  <2> QED BY <2>2, TupleConcat
<1>5. \A signals : Emits(t, signals, <<>>) /\ signals \in Seq(Tame) => Makes(t, signals)
  BY ConcatProperties, EmptySeq DEF Emits
<1>6. CASE Head(agenda[t]).sig = "subscribe"
  <2>1. \/ HandsSubscription(t) /\ source.kind \notin Gates
        \/ Error(t) \/ Defer(t) \/ CallsMethod(t)
    BY <1>6 DEF Gates, SourceStep, Empty, Just, Never, RangeSource, Interval, Create,
       JustRequest, RangeStops, RangeCompletes, RangeTurn, RangeCancel, MethodEmits,
       MethodWaits, MethodReturns, ObservableGate, SingleGate, MaybeGate, CompletableGate, Passes,
       On, Is
  <2>2. \A more : Quietly(t, more) /\ more \in Seq(Tame) => Makes(t, more)
    <3>1. \A more \in Seq(Tame) : <<>> \o more = more
      BY EmptySeq, ConcatProperties
    <3> QED BY <3>1 DEF Quietly, Emits
  <2>3. CASE (HandsSubscription(t) /\ source.kind \notin Gates) \/ CallsMethod(t)
    <3>1. PICK c \in {Subscription(0), Call(0, "method", 1)} :
            /\ Quietly(t, <<c>>) /\ UNCHANGED source
            /\ source.kind \in Gates => c = Call(0, "method", 1)
      BY <2>3 DEF HandsSubscription, CallsMethod
    <3>2. <<c>> \in Seq(Tame) /\ <<c>> \in Seq(Plain)
      BY <1>2, <1>3, <3>1
    <3>3. source.kind \in Gates => Gated(<<c>>)
      BY <3>1, MethodIsGated
    <3> QED BY <1>6, <2>2, <3>1, <3>2, <3>3
  <2>4. CASE Error(t)
    <3>1. <<Failure(0)>> \in Seq(Tame) /\ Firm(<<Failure(0)>>)
      BY <1>2, <1>3
    <3>2. Makes(t, <<Failure(0)>>) /\ UNCHANGED source /\ source.kind = "error" /\ source.kind \notin Gates
      BY <1>5, <2>4, <3>1 DEF Error, Is, Gates
    <3> QED BY <1>6, <3>1, <3>2
  <2>5. CASE Defer(t)
    <3>1. UNCHANGED <<callVars, source.m_completed, source.m_ended>>
      BY <1>0, <2>5 DEF Defer, callVars, SourceMembers
    <3> QED BY <1>6, <3>1
  <2> QED BY <2>1, <2>3, <2>4, <2>5
<1>7. CASE Head(agenda[t]).sig # "subscribe"
  <2> DEFINE Goal == \E calls \in Seq(Tame) :
                       /\ Makes(t, calls)
                       /\ \/ calls \in Seq(Plain) /\ UNCHANGED SourceOver
                          \/ ~SourceOver /\ ~SourceOver' /\ calls \in Seq(Mild) /\ Heads(calls)
                          \/ ~SourceOver /\ SourceOver' /\ Firm(calls)
                       /\ Behind(calls)
  <2> SUFFICES \/ Goal
               \/ /\ source.kind \in Gates /\ Head(agenda[t]).sig = "method" /\ UNCHANGED source
                  /\ Schedules(t, "now", Call(0, "method", Arg(t)))
    BY <1>7
  <2>1. ~HandsSubscription(t) /\ ~Error(t) /\ ~Defer(t) /\ ~CallsMethod(t)
    BY <1>7 DEF HandsSubscription, Error, Defer, CallsMethod, On
  <2>2. ~On(t, 0, "cancel")
    BY DEF On
  <2>3. ASSUME Quietly(t, <<>>), UNCHANGED SourceOver
        PROVE  Goal
    <3>1. Makes(t, <<>>) /\ Behind(<<>>)
      BY <1>1, <2>3 DEF Quietly, Emits
    <3> QED BY <1>1, <2>3, <3>1
  <2>4. ASSUME Emits(t, <<>>, <<>>), UNCHANGED SourceOver
        PROVE  Goal
    BY <2>3, <2>4 DEF Quietly
  <2>5. ASSUME NEW signals \in Seq(Tame), Firm(signals), Emits(t, signals, <<>>),
               ~SourceOver, SourceOver', Behind(signals)
        PROVE  Goal
    BY <1>5, <2>5
  <2>6. CASE Empty(t)
    <3>1. SourceOver' /\ source.kind \notin Gates /\ SourceOver = source.m_completed
          /\ Emits(t, IF source.m_completed THEN <<>> ELSE <<Completion(0)>>, <<>>)
      BY <1>0, <2>1, <2>2, <2>6 DEF Empty, Is, SourceOver, Gates, SourceMembers
    <3> QED BY <1>2, <1>3, <2>4, <2>5, <3>1
  <2>7. CASE Just(t)
    <3>1. SourceOver' /\ source.kind = "just" /\ source.kind \notin Gates /\ SourceOver = source.m_completed
          /\ Emits(t, IF source.m_completed THEN <<>>
                      ELSE <<Value(0, source.elements[1]), Completion(0)>>, <<>>)
      BY <1>0, <2>1, <2>2, <2>7 DEF Just, JustRequest, Is, SourceOver, Gates, SourceMembers
    <3>2. source.elements[1] \in Nat
      <4>1. source.elements \in Seq(Nat) /\ Len(source.elements) = 1
        BY <1>0, <3>1, InputsAssumption DEF SourceOK, SourceMembers
      <4>2. 1 \in 1 .. 1
        OBVIOUS
      <4> QED BY <4>1, <4>2, ElementOfSeq
    <3> QED BY <1>4, <2>4, <2>5, <3>1, <3>2
  <2>8. CASE Never(t)
    <3>1. Quietly(t, <<>>) /\ UNCHANGED SourceOver
      BY <2>1, <2>2, <2>8 DEF Never, SourceOver
    <3> QED BY <2>3, <3>1
  <2>9. CASE RangeSource(t)
    <3>0. source.kind = "range" /\ source.kind \notin Gates
      BY <2>9 DEF RangeSource, Is, Gates
    <3>1. CASE RangeStops(t)
      BY <2>3, <3>1 DEF RangeStops, SourceOver
    <3>2. CASE RangeCompletes(t)
      <4>1. ~SourceOver /\ SourceOver' /\ Emits(t, <<Completion(0)>>, <<>>)
        BY <1>0, <3>0, <3>2 DEF RangeCompletes, RangeEnded, SourceOver, SourceMembers, Gates
      <4> QED BY <1>2, <1>3, <2>5, <3>0, <4>1
    <3>3. CASE RangeTurn(t)
      <4> DEFINE value == Value(0, source.elements[source.m_current])
                 rest  == Request(0, Arg(t) - 1)
      <4>1. ~SourceOver /\ ~SourceOver' /\ Makes(t, <<value>> \o <<rest>>)
        BY <1>0, <3>0, <3>3 DEF RangeTurn, Emits, RangeEnded, SourceOver, SourceMembers, Gates
      <4>2. source.elements[source.m_current] \in Nat /\ Arg(t) - 1 \in Nat
        <5>1. source.elements \in Seq(Nat) /\ source.m_current \in Nat \ {0}
          BY <1>0, InputsAssumption DEF SourceMembers
        <5>2. source.m_current \in 1 .. Len(source.elements) /\ Arg(t) > 0
          BY <3>3, <5>1, LenProperties DEF RangeTurn, RangeDone
        <5> QED BY <1>1, <5>1, <5>2, ElementOfSeq
      <4>3. value \in Mild /\ value \in Tame /\ rest \in Plain /\ rest \in Tame
        BY <1>2, <4>2
      <4> HIDE DEF value, rest
      <4>4. /\ <<value>> \in Seq(Mild) /\ <<value>> \in Seq(Tame) /\ <<rest>> \in Seq(Plain)
            /\ <<rest>> \in Seq(Tame) /\ <<rest>> \in Seq(Mild) /\ <<value>> \in Seq(PipelineCalls)
            /\ Heads(<<value>>)
        BY <1>3, <4>3, KindsOfCalls, LargerSet
      <4>5. /\ <<value>> \o <<rest>> \in Seq(Mild) /\ <<value>> \o <<rest>> \in Seq(Tame)
            /\ Heads(<<value>> \o <<rest>>)
        BY <4>4, HeadsConcat, ConcatProperties
      <4> QED BY <3>0, <4>1, <4>5
    <3> QED BY <2>1, <2>2, <2>9, <3>1, <3>2, <3>3 DEF RangeSource, RangeCancel
  <2>10. CASE Create(t)
    <3>1. CASE MethodReturns(t)
      BY <2>3, <3>1 DEF MethodReturns, SourceOver
    <3>2. ASSUME NEW sig \in {"onNext", "onError", "onComplete"}, MethodEmits(t, sig)
          PROVE  Goal
      <4> DEFINE first == Call(0, sig, source.elements[Arg(t)])
                 rest  == Call(0, "method", Arg(t) + 1)
      <4>1. source.elements[Arg(t)] \in Nat
        <5>1. source.elements \in Seq(Nat) /\ Head(agenda[t]).sig = "method" /\ Arg(t) # 0
              /\ Arg(t) <= Len(source.elements)
          <6>1. Head(agenda[t]) \in PipelineCalls
            BY <1>0, HeadIsTyped
          <6> QED BY <1>0, <3>2, <6>1, InputsAssumption
                  DEF SourceMembers, MethodEmits, On, PipelineCalls, Arg
        <5>2. Arg(t) \in 1 .. Len(source.elements)
          BY <1>1, <5>1, LenProperties
        <5> QED BY <5>1, <5>2, ElementOfSeq
      <4>2. first \in Plain \cap Tame /\ rest \in Plain \cap Tame
        BY <1>1, <1>2, <4>1
      <4>6. Head(agenda[t]).sig = "method" /\ Gated(<<first, rest>>)
        BY <1>2, <3>2, <4>1, EmitsGated DEF MethodEmits, On
      <4>3. Quietly(t, <<first, rest>>) /\ UNCHANGED SourceOver
        BY <3>2 DEF MethodEmits, SourceOver
      <4> HIDE DEF first, rest
      <4>4. <<first, rest>> \in Seq(Plain) /\ <<first, rest>> \in Seq(Tame)
        BY <4>2
      <4>5. Makes(t, <<first, rest>>)
        <5>1. <<>> \o <<first, rest>> = <<first, rest>>
          BY <4>4, EmptySeq, ConcatProperties
        <5> QED BY <4>3, <5>1 DEF Quietly, Emits
      <4> QED BY <4>3, <4>4, <4>5, <4>6
    <3>3. ASSUME NEW sig, NEW signals \in Seq(Tame), NEW ends \in BOOLEAN, source.kind \in Gates,
                 Passes(t, sig, signals, ends), signals \in Seq(Shut),
                 IF ends THEN Firm(signals) ELSE signals \in Seq(Mild) /\ Heads(signals)
          PROVE  Goal
      <4>1. /\ SourceOver = source.m_ended /\ SourceOver' = (source.m_ended \/ ends)
            /\ Emits(t, IF source.m_ended THEN <<>> ELSE signals, <<>>)
        BY <1>0, <3>3 DEF Passes, SourceOver, SourceMembers
      <4>2. CASE source.m_ended
        BY <2>4, <4>1, <4>2
      <4>3. CASE ~source.m_ended
        BY <1>5, <3>3, <4>1, <4>3, ShutIsGated
      <4> QED BY <4>2, <4>3
    <3>4. /\ <<Value(0, Arg(t))>> \in Seq(Tame) /\ <<Value(0, Arg(t))>> \in Seq(Mild)
          /\ Heads(<<Value(0, Arg(t))>>)
          /\ <<Failure(0)>> \in Seq(Tame) /\ Firm(<<Failure(0)>>)
          /\ <<Completion(0)>> \in Seq(Tame) /\ Firm(<<Completion(0)>>)
          /\ <<Value(0, Arg(t)), Completion(0)>> \in Seq(Tame)
          /\ Firm(<<Value(0, Arg(t)), Completion(0)>>)
      BY <1>1, <1>2, <1>3, <1>4
    <3>11. /\ <<Value(0, Arg(t))>> \in Seq(Shut) /\ <<Failure(0)>> \in Seq(Shut)
           /\ <<Completion(0)>> \in Seq(Shut) /\ <<Value(0, Arg(t)), Completion(0)>> \in Seq(Shut)
      BY <1>1, <1>2
    <3>5. Is("create") \/ Is("createSingle") \/ Is("createMaybe") \/ Is("createCompletable")
            => source.kind \in Gates
      BY DEF Is, Gates
    <3> HIDE DEF Goal
    <3>6. CASE ObservableGate(t)
      BY <3>2, <3>3, <3>4, <3>5, <3>6, <3>11 DEF ObservableGate
    <3>7. CASE SingleGate(t)
      BY <3>2, <3>3, <3>4, <3>5, <3>7, <3>11 DEF SingleGate
    <3>8. CASE MaybeGate(t)
      BY <3>2, <3>3, <3>4, <3>5, <3>8, <3>11 DEF MaybeGate
    <3>9. CASE CompletableGate(t)
      BY <3>2, <3>3, <3>4, <3>5, <3>9, <3>11 DEF CompletableGate
    <3>10. CASE MethodWaits(t)
      BY <3>10 DEF MethodWaits, On, sourceVars
    <3> QED BY <2>1, <2>10, <3>1, <3>6, <3>7, <3>8, <3>9, <3>10 DEF Create
  <2> QED BY <2>1, <2>6, <2>7, <2>8, <2>9, <2>10 DEF SourceStep, Interval, Is
<1> QED BY <1>6, <1>7

---------------------------------------------------------------------------
(* Either the subscription is still on its way up, or one thread at most   *)
(* has calls to make, with at most one signal in them before the source    *)
(* has ended its stream, or the method of a gate is to go on in a task,    *)
(* while nobody has a subscription to call.                                *)
Alone(t) == pending = <<>> /\ \A u \in Threads \ {t} : agenda[u] = <<>>

Asking == {Call(j, "subscribe", 0) : j \in 0 .. Depth}

Starting ==
  /\ ~Ended /\ ~subscriber.held /\ ~source.m_completed /\ ~source.m_ended
  /\ \E c \in Asking :
       \/ \E t \in Threads : Alone(t) /\ agenda[t] = <<c>>
       \/ (\A t \in Threads : agenda[t] = <<>>) /\ pending = <<[when |-> "now", call |-> c]>>

Tidy(s, over, ended) ==
  /\ s \in Seq(Tame) /\ Firm(s)
  /\ ~over => ~ended /\ s \in Seq(Mild) /\ Heads(s)
  /\ ended => s \in Seq(Plain)

Running == \E t \in Threads :
             /\ Alone(t) /\ Tidy(agenda[t], SourceOver, Ended)
             /\ source.kind \in Gates => ~subscriber.held /\ Gated(agenda[t])

Between ==
  /\ source.kind \in Gates /\ ~subscriber.held /\ (~SourceOver => ~Ended)
  /\ \A t \in Threads : agenda[t] = <<>>
  /\ \E n \in Nat \ {0} : pending = <<[when |-> "now", call |-> Call(0, "method", n)]>>

(* An interval never ends its stream, and any thread may run its values.   *)
Unending ==
  /\ ~Ended
  /\ agenda \in [Threads -> Seq(Mild)]
  /\ pending \in Seq([when : {"now", "delayed", "point"}, call : Mild])

EndsInv ==
  UsesOnly(Steady) /\ ~user.canceled =>
    /\ log.late = <<>>
    /\ IF source.kind = "interval" THEN Unending ELSE Starting \/ Between \/ Running

(* What the calls of a thread that stay tidy need of it.                   *)
Tidies(c, calls) ==
  /\ Firm(calls)
  /\ c \in Plain => calls \in Seq(Plain)
  /\ c \in Mild => calls \in Seq(Mild) /\ Heads(calls)
  /\ c \in Tame => calls \in Seq(Tame)

LEMMA PlainTidies ==
  ASSUME NEW c, NEW calls \in Seq(Plain), c \in Tame => calls \in Seq(Tame)
  PROVE  Tidies(c, calls)
BY KindsOfCalls, LargerSet, MildIsFirm, PlainHeads DEF Tidies

LEMMA TidyFollows ==
  ASSUME NEW s \in Seq(PipelineCalls), s # <<>>, NEW over \in BOOLEAN, NEW ended \in BOOLEAN,
         Tidy(s, over, ended), NEW calls \in Seq(PipelineCalls), Tidies(Head(s), calls)
  PROVE  Tidy(calls \o Tail(s), over, ended)
<1>1. /\ Heads(s) => Tail(s) \in Seq(Plain)
      /\ Firm(Tail(s)) /\ (Head(s) \notin Mild => Tail(s) \in Seq(Plain))
      /\ Head(s) \in Tame /\ Tail(s) \in Seq(Tame) /\ Tail(s) \in Seq(PipelineCalls)
  BY BehindHead DEF Tidy
<1>2. /\ calls \in Seq(Tame) /\ Firm(calls)
      /\ Head(s) \in Mild => calls \in Seq(Mild) /\ Heads(calls)
      /\ Head(s) \in Plain => calls \in Seq(Plain)
  BY <1>1 DEF Tidies
<1>3. calls \o Tail(s) \in Seq(Tame) /\ Firm(calls \o Tail(s))
  BY <1>1, <1>2, FirmConcat, ConcatProperties
<1>4. ASSUME ~over
      PROVE  ~ended /\ calls \o Tail(s) \in Seq(Mild) /\ Heads(calls \o Tail(s))
  <2>1. ~ended /\ s \in Seq(Mild) /\ Heads(s)
    BY <1>4 DEF Tidy
  <2>2. Head(s) \in Mild /\ Tail(s) \in Seq(Mild)
    BY <2>1, BehindHead
  <2> QED BY <1>1, <1>2, <2>1, <2>2, HeadsConcat, ConcatProperties
<1>5. ASSUME ended
      PROVE  calls \o Tail(s) \in Seq(Plain)
  <2>1. s \in Seq(Plain)
    BY <1>5 DEF Tidy
  <2>2. Head(s) \in Plain /\ Tail(s) \in Seq(Plain)
    BY <2>1, BehindHead
  <2> QED BY <1>2, <2>2, ConcatProperties
<1> QED BY <1>3, <1>4, <1>5 DEF Tidy

LEMMA TidySource ==
  ASSUME NEW s \in Seq(PipelineCalls), s # <<>>, NEW over \in BOOLEAN, NEW ended \in BOOLEAN,
         Tidy(s, over, ended), NEW calls \in Seq(Tame), NEW after \in BOOLEAN,
         \/ calls \in Seq(Plain) /\ after = over
         \/ ~over /\ ~after /\ calls \in Seq(Mild) /\ Heads(calls)
         \/ ~over /\ after /\ Firm(calls)
  PROVE  Tidy(calls \o Tail(s), after, ended)
<1>0. calls \in Seq(PipelineCalls)
  BY KindsOfCalls, LargerSet
<1>1. CASE calls \in Seq(Plain) /\ after = over
  BY <1>0, <1>1, PlainTidies, TidyFollows
<1>2. CASE ~over /\ (after => Firm(calls)) /\ (~after => calls \in Seq(Mild) /\ Heads(calls))
  <2>1. ~ended /\ s \in Seq(Mild) /\ Heads(s) /\ s \in Seq(Tame)
    BY <1>2 DEF Tidy
  <2>2. Tail(s) \in Seq(Plain) /\ Tail(s) \in Seq(Tame) /\ Tail(s) \in Seq(Mild)
        /\ Tail(s) \in Seq(PipelineCalls)
    BY <2>1, BehindHead
  <2>3. Firm(calls) /\ Firm(Tail(s))
    BY <1>2, <2>2, MildIsFirm
  <2>4. calls \o Tail(s) \in Seq(Tame) /\ Firm(calls \o Tail(s))
    BY <1>0, <2>2, <2>3, FirmConcat, ConcatProperties
  <2>5. ~after => calls \o Tail(s) \in Seq(Mild) /\ Heads(calls \o Tail(s))
    BY <1>0, <1>2, <2>2, HeadsConcat, ConcatProperties
  <2> QED BY <2>1, <2>4, <2>5 DEF Tidy
<1> QED BY <1>1, <1>2

LEMMA TidySubscriber ==
  ASSUME NEW s \in Seq(PipelineCalls), s # <<>>, NEW over \in BOOLEAN, NEW ended \in BOOLEAN,
         Tidy(s, over, ended), NEW calls \in Seq(Plain), calls \in Seq(Tame),
         NEW after \in BOOLEAN, after = ended \/ (after /\ Head(s) \notin Mild)
  PROVE  Tidy(calls \o Tail(s), over, after)
<1>0. calls \in Seq(PipelineCalls) /\ Tidy(calls \o Tail(s), over, ended)
  <2>1. calls \in Seq(PipelineCalls) /\ Tidies(Head(s), calls)
    BY KindsOfCalls, LargerSet, PlainTidies
  <2> QED BY <2>1, TidyFollows
<1>1. CASE after = ended
  BY <1>0, <1>1
<1>2. CASE after /\ Head(s) \notin Mild
  <2>1. over /\ Tail(s) \in Seq(Plain)
    <3>1. over
      BY <1>2, BehindHead DEF Tidy
    <3>2. Firm(s)
      BY DEF Tidy
    <3> QED BY <1>2, <3>1, <3>2, BehindHead
  <2>2. calls \o Tail(s) \in Seq(Plain)
    BY <2>1, ConcatProperties
  <2> QED BY <1>0, <2>1, <2>2 DEF Tidy
<1> QED BY <1>1, <1>2

(* Thread t alone, after a handler.                                        *)
LEMMA AloneMakes ==
  ASSUME CallsTypeOK, NEW t \in Threads, Alone(t), NEW calls, Makes(t, calls)
  PROVE  Alone(t)' /\ agenda'[t] = calls \o Tail(agenda[t])
BY DEF CallsTypeOK, Alone, Makes

(* What a step of the subscriber leaves.                                   *)
LEMMA SteadySubscriber ==
  ASSUME TypesInv, NEW t \in Threads, SubscriberStep(t), ~user'.canceled, log.late = <<>>,
         Ended => Head(agenda[t]) \in Plain
  PROVE  /\ log'.late = <<>>
         /\ \E calls \in Seq(Plain) : calls \in Seq(Tame) /\ calls \in Seq(Shut) /\ Makes(t, calls)
         /\ UNCHANGED Ended \/ (Ended' /\ Head(agenda[t]) \notin Mild)
<1>0. /\ Subscriber # 0 /\ 0 \in Nat /\ SizeMax \in Nat /\ \A n \in Demands : n \in Nat
      /\ user \in UserState
      /\ log \in [values : Seq(Nat), end : Ends \cup {"none"}, late : Seq(Calls(Ends \cup {"onNext"}))]
  <2>1. Subscriber # 0 /\ 0 \in Nat /\ SizeMax \in Nat
    BY DepthAssumption, SizeAssumption DEF Subscriber
  <2>2. \A n \in Demands : n \in Nat
    BY UserAssumption, SizeAssumption DEF Size
  <2>3. /\ user \in UserState
        /\ log \in [values : Seq(Nat), end : Ends \cup {"none"}, late : Seq(Calls(Ends \cup {"onNext"}))]
    BY DEF TypesInv, SubscriberTypeOK, UserState
  <2> QED BY <2>1, <2>2, <2>3
<1>1. /\ \A n \in Nat : Request(Depth, n) \in Plain \cap Tame \cap Shut
      /\ Call(Subscriber, "received", 0) \in Plain \cap Tame \cap Shut
  <2>1. \A n \in Nat : Request(Depth, n) \in PipelineCalls /\ Request(Depth, n).sig = "request"
    BY UserSentIsTyped DEF UserSent, Request, Call
  <2>2. Call(Subscriber, "received", 0) \in PipelineCalls /\ Call(Subscriber, "received", 0).sig = "received"
    BY UserSentIsTyped DEF UserSent, Call
  <2> QED BY <2>1, <2>2 DEF Plain, Tame, Shut, Ends
<1>2. /\ <<>> \in Seq(Plain) /\ <<>> \in Seq(Tame) /\ <<>> \in Seq(Shut)
      /\ \A c \in Plain \cap Tame \cap Shut :
           <<c>> \in Seq(Plain) /\ <<c>> \in Seq(Tame) /\ <<c>> \in Seq(Shut)
  <2>1. \A c \in Plain \cap Tame \cap Shut :
          <<c>> \in Seq(Plain) /\ <<c>> \in Seq(Tame) /\ <<c>> \in Seq(Shut)
    OBVIOUS
  <2> QED BY <2>1, EmptySeq
<1> DEFINE Called == \E calls \in Seq(Plain) :
                       calls \in Seq(Tame) /\ calls \in Seq(Shut) /\ Makes(t, calls)
<1>3. ASSUME RequestsAll(t)
      PROVE  Called
  <2>1. /\ <<Request(Depth, SizeMax)>> \in Seq(Plain) /\ <<Request(Depth, SizeMax)>> \in Seq(Tame)
        /\ <<Request(Depth, SizeMax)>> \in Seq(Shut)
    BY <1>0, <1>1, <1>2
  <2> QED BY <1>2, <1>3, <2>1 DEF RequestsAll
<1>4. ASSUME NEW more \in Seq(Plain), more \in Seq(Tame), more \in Seq(Shut), Reacts(t, more)
      PROVE  Called
  <2>1. ~UserCancel(t, more)
    BY <1>0 DEF UserCancel, UserState
  <2>2. ASSUME NEW n \in Demands, Makes(t, <<Request(Depth, n)>> \o more)
        PROVE  Called
    <3>1. /\ <<Request(Depth, n)>> \in Seq(Plain) /\ <<Request(Depth, n)>> \in Seq(Tame)
          /\ <<Request(Depth, n)>> \in Seq(Shut)
      BY <1>0, <1>1, <1>2
    <3>2. /\ <<Request(Depth, n)>> \o more \in Seq(Plain)
          /\ <<Request(Depth, n)>> \o more \in Seq(Tame)
          /\ <<Request(Depth, n)>> \o more \in Seq(Shut)
      BY <1>4, <3>1, ConcatProperties
    <3> QED BY <2>2, <3>2
  <2> QED BY <1>4, <2>1, <2>2 DEF Reacts, UserRequest
<1>5. Called
  <2>1. CASE OnSubscribed(t)
    BY <1>2, <1>3, <1>4, <2>1 DEF OnSubscribed
  <2>2. CASE OnNext(t)
    <3>1. <<Call(Subscriber, "received", 0)>> \in Seq(Plain)
          /\ <<Call(Subscriber, "received", 0)>> \in Seq(Tame)
          /\ <<Call(Subscriber, "received", 0)>> \in Seq(Shut)
      BY <1>1, <1>2
    <3>2. PICK more \in {<<>>, <<Call(Subscriber, "received", 0)>>} : Reacts(t, more)
      BY <2>2 DEF OnNext
    <3> QED BY <1>2, <1>4, <3>1, <3>2
  <2>3. CASE Received(t)
    BY <1>2, <1>3, <2>3 DEF Received
  <2>4. CASE OnEnd(t)
    BY <1>2, <2>4 DEF OnEnd
  <2> QED BY <2>1, <2>2, <2>3, <2>4 DEF SubscriberStep
<1>6. CASE OnSubscribed(t) \/ Received(t)
  BY <1>5, <1>6 DEF OnSubscribed, Received, Ended
<1>7. CASE OnNext(t) \/ OnEnd(t)
  <2>1. /\ Head(agenda[t]).at = Subscriber /\ Head(agenda[t]).sig \in Ends \cup {"onNext"}
        /\ log' = Logged(Head(agenda[t]))
        /\ OnEnd(t) => Head(agenda[t]).sig \in Ends
        /\ ~OnEnd(t) => Head(agenda[t]).sig = "onNext"
    BY <1>7 DEF OnNext, OnEnd, On, Ends
  <2>2. ~Ended /\ "onNext" \notin Ends /\ "none" \notin Ends
    BY <1>0, <2>1 DEF Plain, Ends
  <2>3. CASE Head(agenda[t]).sig \in Ends
    <3>1. log' = [log EXCEPT !.end = Head(agenda[t]).sig]
      BY <2>1, <2>2, <2>3 DEF Logged
    <3>2. log'.late = <<>> /\ Ended'
      BY <1>0, <2>2, <2>3, <3>1 DEF Ended
    <3>3. Head(agenda[t]) \notin Mild
      BY <1>0, <2>1, <2>3 DEF Mild
    <3> QED BY <1>5, <3>2, <3>3
  <2>4. CASE Head(agenda[t]).sig \notin Ends
    <3>1. log' = [log EXCEPT !.values = Append(@, Head(agenda[t]).arg)]
      BY <2>1, <2>2, <2>4 DEF Logged
    <3>2. log'.late = <<>> /\ log'.end = log.end
      BY <1>0, <3>1
    <3> QED BY <1>5, <3>2 DEF Ended
  <2> QED BY <2>3, <2>4
<1> QED BY <1>6, <1>7 DEF SubscriberStep

LEMMA InitIsStarting ==
  ASSUME Init
  PROVE  EndsInv
<1>1. /\ log.late = <<>> /\ log.end = "none" /\ ~subscriber.held
      /\ ~source.m_completed /\ ~source.m_ended
  BY DEF Init, SourceInit, SubscriberInit
<1>2. /\ pending = <<>> /\ Client \in Threads /\ agenda[Client] = <<Call(Depth, "subscribe", 0)>>
      /\ \A t \in Threads : t # Client => agenda[t] = <<>>
      /\ agenda \in [Threads -> {<<Call(Depth, "subscribe", 0)>>, <<>>}]
  BY DEF Init, SignalsInit, Threads
<1>3. Call(Depth, "subscribe", 0) \in Asking /\ Call(Depth, "subscribe", 0) \in Mild
  <2>1. Call(Depth, "subscribe", 0) \in PipelineCalls
    <3>1. Depth \in 0 .. Subscriber /\ "subscribe" \in Sent /\ 0 \in Nat
      BY DepthAssumption DEF Subscriber, Sent
    <3> QED BY <3>1, CallIsTyped
  <2>2. Depth \in 0 .. Depth /\ Call(Depth, "subscribe", 0).sig = "subscribe"
    BY DepthAssumption DEF Call
  <2> QED BY <2>1, <2>2 DEF Asking, Mild, Ends
<1>4. Starting
  BY <1>1, <1>2, <1>3 DEF Starting, Alone, Ended
<1>5. Unending
  <2>1. <<Call(Depth, "subscribe", 0)>> \in Seq(Mild)
    BY <1>3
  <2>2. agenda \in [Threads -> Seq(Mild)]
    BY <1>2, <2>1, EmptySeq
  <2>3. pending \in Seq([when : {"now", "delayed", "point"}, call : Mild])
    BY <1>2, EmptySeq
  <2> QED BY <1>1, <2>2, <2>3 DEF Unending, Ended
<1> QED BY <1>1, <1>4, <1>5 DEF EndsInv

LEMMA AskingCalls ==
  /\ \A j \in 0 .. Depth : /\ Call(j, "subscribe", 0) \in Asking
                           /\ Call(j, "subscribe", 0).at = j
  /\ \A c \in Asking : c.sig = "subscribe" /\ c \in PipelineCalls /\ c \in Mild
<1>1. \A j \in 0 .. Depth : Call(j, "subscribe", 0) \in PipelineCalls
  <2>1. "subscribe" \in Sent /\ 0 \in Nat /\ \A j \in 0 .. Depth : j \in 0 .. Subscriber
    BY DepthAssumption DEF Subscriber, Sent
  <2> QED BY <2>1, CallIsTyped
<1>2. /\ \A j \in 0 .. Depth : Call(j, "subscribe", 0) \in Asking
      /\ \A j \in 0 .. Depth : Call(j, "subscribe", 0).at = j /\ Call(j, "subscribe", 0).sig = "subscribe"
  BY DEF Asking, Call
<1>3. \A c \in Asking : c.sig = "subscribe" /\ c \in PipelineCalls
  BY <1>1, <1>2 DEF Asking
<1> QED BY <1>2, <1>3 DEF Mild, Ends

(* A thread that acts while the subscription is on its way up, or later,   *)
(* is the only one with calls.                                             *)
LEMMA ActsAlone ==
  ASSUME TypesInv, NEW t \in Threads, agenda[t] # <<>>, Starting \/ Between \/ Running
  PROVE  /\ Alone(t)
         /\ \/ /\ Head(agenda[t]).sig = "subscribe" /\ Starting
               /\ \E c \in Asking : agenda[t] = <<c>> /\ Head(agenda[t]) = c /\ Tail(agenda[t]) = <<>>
            \/ /\ Tidy(agenda[t], SourceOver, Ended) /\ Head(agenda[t]) \in Tame
               /\ source.kind \in Gates => ~subscriber.held /\ Gated(agenda[t])
<1>1. CASE Starting
  <2>1. PICK c \in Asking : \E u \in Threads : Alone(u) /\ agenda[u] = <<c>>
    BY <1>1 DEF Starting
  <2>2. PICK u \in Threads : Alone(u) /\ agenda[u] = <<c>>
    BY <2>1
  <2>3. t = u
    BY <2>2 DEF Alone
  <2>4. Head(<<c>>) = c /\ Tail(<<c>>) = <<>>
    OBVIOUS
  <2> QED BY <1>1, <2>2, <2>3, <2>4, AskingCalls
<1>2. CASE Running
  <2>1. PICK u \in Threads : /\ Alone(u) /\ Tidy(agenda[u], SourceOver, Ended)
                             /\ source.kind \in Gates => ~subscriber.held /\ Gated(agenda[u])
    BY <1>2 DEF Running
  <2>2. t = u
    BY <2>1 DEF Alone
  <2>3. Head(agenda[t]) \in Tame
    <3>1. agenda[t] \in Seq(PipelineCalls) /\ agenda[t] \in Seq(Tame)
      BY <2>1, <2>2 DEF Tidy, TypesInv, CallsTypeOK
    <3> QED BY <3>1, BehindHead
  <2> QED BY <2>1, <2>2, <2>3
<1>3. ~Between
  BY DEF Between
<1> QED BY <1>1, <1>2, <1>3

(* Unless the source is an interval.                                       *)
LEMMA FiniteStepIsSteady ==
  ASSUME ClosuresTypeOK, TypesInv, Starting \/ Between \/ Running, log.late = <<>>,
         UsesOnly(Steady), source.kind # "interval", ~user'.canceled, [NextStep]_vars
  PROVE  log'.late = <<>> /\ (Starting \/ Between \/ Running)'
<1>0. CallsTypeOK /\ OperatorsOK /\ SourceOK(source) /\ SubscriberTypeOK
      /\ agenda \in [Threads -> Seq(PipelineCalls)]
      /\ SourceOver \in BOOLEAN /\ Ended \in BOOLEAN
  BY DEF TypesInv, CallsTypeOK, SourceOver, SourceOK, SourceMembers, Ended
<1>over. SourceOver' \in BOOLEAN
  <2>1. TypesInv'
    BY StepIsTyped
  <2> QED BY <2>1 DEF TypesInv, SourceOver, SourceOK, SourceMembers
<1>1. ASSUME NEW t \in Threads, SourceStep(t), UNCHANGED <<stageVars, subscriberVars>>
      PROVE  log'.late = <<>> /\ (Starting \/ Between \/ Running)'
  <2>1. agenda[t] # <<>> /\ log' = log /\ subscriber' = subscriber /\ UNCHANGED Ended
    BY <1>1, SourceActs DEF subscriberVars, Ended
  <2>2. CASE /\ Head(agenda[t]).sig = "subscribe" /\ Starting /\ Alone(t)
             /\ \E c \in Asking : agenda[t] = <<c>> /\ Head(agenda[t]) = c /\ Tail(agenda[t]) = <<>>
    <3>1. CASE UNCHANGED <<callVars, source.m_completed, source.m_ended>>
      <4>1. Starting'
        BY <2>1, <2>2, <3>1 DEF Starting, callVars, Alone
      <4> QED BY <2>1, <4>1
    <3>2. ASSUME NEW calls \in Seq(Tame), Makes(t, calls), UNCHANGED source,
                 calls \in Seq(Plain) \/ (source.kind = "error" /\ Firm(calls)),
                 source.kind \in Gates => Gated(calls)
          PROVE  Running'
      <4>1. calls \o Tail(agenda[t]) = calls
        BY <2>2, ConcatProperties, EmptySeq
      <4>2. Alone(t)' /\ agenda'[t] = calls
        BY <1>0, <2>2, <3>2, <4>1, AloneMakes
      <4>3. ~Ended' /\ (~SourceOver' => source.kind # "error")
        BY <2>1, <2>2, <3>2 DEF Starting, SourceOver, Gates
      <4>4. calls \in Seq(Plain) => calls \in Seq(Mild) /\ Heads(calls) /\ Firm(calls)
        BY KindsOfCalls, LargerSet, PlainHeads, MildIsFirm
      <4>5. Tidy(calls, SourceOver', Ended')
        BY <3>2, <4>3, <4>4 DEF Tidy
      <4>6. source'.kind \in Gates => ~subscriber'.held /\ Gated(agenda'[t])
        BY <2>1, <2>2, <3>2, <4>2 DEF Starting
      <4> QED BY <4>2, <4>5, <4>6 DEF Running
    <3>3. Head(agenda[t]).sig # "cancel"
      BY <2>2
    <3> QED BY <1>0, <1>1, <2>1, <2>2, <3>1, <3>2, <3>3, SteadySource
  <2>3. CASE /\ Alone(t) /\ Tidy(agenda[t], SourceOver, Ended) /\ Head(agenda[t]) \in Tame
             /\ source.kind \in Gates => ~subscriber.held /\ Gated(agenda[t])
    <3>1. /\ Head(agenda[t]).sig # "subscribe" /\ Head(agenda[t]).sig # "cancel"
          /\ agenda[t] \in Seq(PipelineCalls)
      BY <1>0, <2>3 DEF Tame
    <3>2. CASE /\ source.kind \in Gates /\ Head(agenda[t]).sig = "method" /\ UNCHANGED source
               /\ Schedules(t, "now", Call(0, "method", Arg(t)))
      <4>1. Tail(agenda[t]) = <<>>
        BY <2>1, <2>3, <3>1, <3>2, GatedBehind DEF Shut
      <4>2. Arg(t) \in Nat \ {0}
        BY <1>0, <2>1, <3>2, HeadIsTyped DEF PipelineCalls, Arg
      <4>3. pending = <<>> /\ \A u \in Threads \ {t} : agenda[u] = <<>>
        BY <2>3 DEF Alone
      <4>4. Append(<<>>, [when |-> "now", call |-> Call(0, "method", Arg(t))])
              = <<[when |-> "now", call |-> Call(0, "method", Arg(t))]>>
        OBVIOUS
      <4>5. /\ \A u \in Threads : agenda'[u] = <<>>
            /\ pending' = <<[when |-> "now", call |-> Call(0, "method", Arg(t))]>>
        BY <1>0, <3>2, <4>1, <4>3, <4>4 DEF Schedules
      <4>6. PICK n \in Nat \ {0} : pending' = <<[when |-> "now", call |-> Call(0, "method", n)]>>
        BY <4>2, <4>5
      <4>7. ~SourceOver' => ~Ended'
        <5>1. SourceOver' = SourceOver
          BY <3>2 DEF SourceOver
        <5> QED BY <2>1, <2>3, <5>1 DEF Tidy
      <4> QED BY <2>1, <2>3, <3>2, <4>5, <4>6, <4>7 DEF Between
    <3>3. CASE \E calls \in Seq(Tame) :
                 /\ Makes(t, calls)
                 /\ \/ calls \in Seq(Plain) /\ UNCHANGED SourceOver
                    \/ ~SourceOver /\ ~SourceOver' /\ calls \in Seq(Mild) /\ Heads(calls)
                    \/ ~SourceOver /\ SourceOver' /\ Firm(calls)
                 /\ source.kind \in Gates =>
                      Gated(calls) /\ (Head(agenda[t]).sig = "method" \/ calls \in Seq(Shut))
      <4>1. PICK calls \in Seq(Tame) :
                 /\ Makes(t, calls)
                 /\ \/ calls \in Seq(Plain) /\ UNCHANGED SourceOver
                    \/ ~SourceOver /\ ~SourceOver' /\ calls \in Seq(Mild) /\ Heads(calls)
                    \/ ~SourceOver /\ SourceOver' /\ Firm(calls)
                 /\ source.kind \in Gates =>
                      Gated(calls) /\ (Head(agenda[t]).sig = "method" \/ calls \in Seq(Shut))
        BY <3>3
      <4>2. PICK after \in BOOLEAN : after = SourceOver'
        BY <1>over
      <4>3. \/ calls \in Seq(Plain) /\ after = SourceOver
            \/ ~SourceOver /\ ~after /\ calls \in Seq(Mild) /\ Heads(calls)
            \/ ~SourceOver /\ after /\ Firm(calls)
        BY <4>1, <4>2
      <4>4. Tidy(calls \o Tail(agenda[t]), after, Ended)
        BY <1>0, <2>1, <2>3, <4>3, TidySource
      <4>5. Alone(t)' /\ agenda'[t] = calls \o Tail(agenda[t])
        BY <1>0, <2>3, <4>1, AloneMakes
      <4>6. ASSUME source'.kind \in Gates
            PROVE  ~subscriber'.held /\ Gated(agenda'[t])
        <5>1. source.kind \in Gates
          BY <1>0, <1>1, <4>6, SourceKindKept DEF Gates
        <5>2. CASE calls \in Seq(Shut)
          BY <2>1, <2>3, <3>1, <4>5, <5>1, <5>2, GatedBehind
        <5>3. CASE calls \notin Seq(Shut)
          <6>1. Head(agenda[t]).sig = "method" /\ Gated(calls)
            BY <4>1, <5>1, <5>3
          <6>2. Tail(agenda[t]) = <<>>
            BY <2>1, <2>3, <3>1, <5>1, <6>1, GatedBehind DEF Shut
          <6>3. calls \o <<>> = calls
            BY ConcatProperties, EmptySeq
          <6> QED BY <2>1, <2>3, <4>5, <5>1, <6>1, <6>2, <6>3
        <5> QED BY <5>2, <5>3
      <4> QED BY <2>1, <4>2, <4>4, <4>5, <4>6 DEF Running
    <3> QED BY <1>0, <1>1, <3>1, <3>2, <3>3, SteadySource
  <2> QED BY <2>1, <2>2, <2>3, ActsAlone
<1>2. ASSUME NEW t \in Threads, NEW i \in Stages, OperatorStep(t, i),
             UNCHANGED <<sourceVars, subscriberVars>>
      PROVE  log'.late = <<>> /\ (Starting \/ Between \/ Running)'
  <2>1. /\ agenda[t] # <<>> /\ log' = log /\ subscriber' = subscriber /\ source' = source
        /\ Does(i, Steady)
    BY <1>2 DEF OperatorStep, subscriberVars, sourceVars, UsesOnly
  <2>2. CASE /\ Head(agenda[t]).sig = "subscribe" /\ Starting /\ Alone(t)
             /\ \E c \in Asking : agenda[t] = <<c>> /\ Head(agenda[t]) = c /\ Tail(agenda[t]) = <<>>
    <3>1. PICK d \in PipelineCalls : /\ d = Call(i - 1, "subscribe", 0)
                                     /\ Makes(t, <<d>>) \/ Schedules(t, "now", d)
      BY <1>0, <1>2, <2>1, <2>2, SteadyOperator
    <3>2. d \in Asking
      <4>1. i - 1 \in 0 .. Depth
        BY DepthAssumption DEF Stages
      <4> QED BY <3>1, <4>1, AskingCalls
    <3>3. CASE Makes(t, <<d>>)
      <4>1. <<d>> \o Tail(agenda[t]) = <<d>>
        BY <2>2, TupleConcat
      <4>2. Alone(t)' /\ agenda'[t] = <<d>>
        BY <1>0, <2>2, <3>3, <4>1, AloneMakes
      <4>3. Starting'
        BY <2>1, <2>2, <3>2, <4>2 DEF Starting, Ended
      <4> QED BY <2>1, <4>3
    <3>4. CASE Schedules(t, "now", d)
      <4>1. pending = <<>> /\ Append(<<>>, [when |-> "now", call |-> d]) = <<[when |-> "now", call |-> d]>>
        BY <2>2 DEF Alone
      <4>2. /\ \A u \in Threads : agenda'[u] = <<>>
            /\ pending' = <<[when |-> "now", call |-> d]>>
        BY <1>0, <2>2, <3>4, <4>1 DEF Schedules, Alone
      <4>3. Starting'
        BY <2>1, <2>2, <3>2, <4>2 DEF Starting, Ended
      <4> QED BY <2>1, <4>3
    <3> QED BY <3>1, <3>3, <3>4
  <2>3. CASE /\ Alone(t) /\ Tidy(agenda[t], SourceOver, Ended) /\ Head(agenda[t]) \in Tame
             /\ source.kind \in Gates => ~subscriber.held /\ Gated(agenda[t])
    <3>1. Head(agenda[t]).sig # "subscribe" /\ agenda[t] \in Seq(PipelineCalls)
      BY <1>0, <2>3 DEF Tame
    <3>2. PICK calls \in Seq(PipelineCalls) : Makes(t, calls) /\ Follows(Head(agenda[t]), calls)
      BY <1>0, <1>2, <2>1, <3>1, SteadyOperator
    <3>3. Tidy(calls \o Tail(agenda[t]), SourceOver, Ended)
      <4>1. Tidies(Head(agenda[t]), calls)
        BY <3>2 DEF Follows, Tidies
      <4> QED BY <1>0, <2>1, <2>3, <4>1, TidyFollows
    <3>4. Alone(t)' /\ agenda'[t] = calls \o Tail(agenda[t])
      BY <1>0, <2>3, <3>2, AloneMakes
    <3>5. SourceOver' = SourceOver /\ Ended' = Ended
      BY <2>1 DEF SourceOver, Ended
    <3>6. ASSUME source.kind \in Gates
          PROVE  Gated(agenda'[t])
      <4>1. Head(agenda[t]) \in Shut
        BY <1>2, <2>1, <2>3, <3>1, <3>6, GatedBehind, OperatorIsNoMethod
      <4>2. calls \in Seq(Shut)
        BY <3>2, <4>1 DEF Follows
      <4> QED BY <2>1, <2>3, <3>1, <3>4, <3>6, <4>2, GatedBehind
    <3> QED BY <2>1, <2>3, <3>3, <3>4, <3>5, <3>6 DEF Running
  <2> QED BY <2>1, <2>2, <2>3, ActsAlone
<1>3. ASSUME NEW t \in Threads, SubscriberStep(t), UNCHANGED <<sourceVars, stageVars>>
      PROVE  log'.late = <<>> /\ (Starting \/ Between \/ Running)'
  <2>1. /\ agenda[t] # <<>> /\ source' = source
        /\ Head(agenda[t]).sig # "subscribe"
    BY <1>3 DEF SubscriberStep, OnSubscribed, OnNext, Received, OnEnd, On, sourceVars
  <2>2. /\ Alone(t) /\ Tidy(agenda[t], SourceOver, Ended) /\ Head(agenda[t]) \in Tame
        /\ source.kind \in Gates => ~subscriber.held /\ Gated(agenda[t])
    BY <2>1, ActsAlone
  <2>3. Ended => Head(agenda[t]) \in Plain
    <3>1. agenda[t] \in Seq(PipelineCalls)
      BY <1>0
    <3> QED BY <2>1, <2>2, <3>1, BehindHead DEF Tidy
  <2>4. /\ log'.late = <<>>
        /\ \E calls \in Seq(Plain) : calls \in Seq(Tame) /\ calls \in Seq(Shut) /\ Makes(t, calls)
        /\ UNCHANGED Ended \/ (Ended' /\ Head(agenda[t]) \notin Mild)
    BY <1>3, <2>3, SteadySubscriber
  <2>5. PICK calls \in Seq(Plain) : calls \in Seq(Tame) /\ calls \in Seq(Shut) /\ Makes(t, calls)
    BY <2>4
  <2>6. PICK after \in BOOLEAN : after = Ended'
    BY DEF Ended
  <2>7. after = Ended \/ (after /\ Head(agenda[t]) \notin Mild)
    BY <2>4, <2>6
  <2>8. Tidy(calls \o Tail(agenda[t]), SourceOver, after)
    BY <1>0, <2>1, <2>2, <2>5, <2>7, TidySubscriber
  <2>9. Alone(t)' /\ agenda'[t] = calls \o Tail(agenda[t])
    BY <1>0, <2>2, <2>5, AloneMakes
  <2>10. SourceOver' = SourceOver
    BY <2>1 DEF SourceOver
  <2>11. ASSUME source'.kind \in Gates
         PROVE  ~subscriber'.held /\ Gated(agenda'[t])
    <3>1. /\ source.kind \in Gates /\ ~subscriber.held /\ Gated(agenda[t])
          /\ agenda[t] \in Seq(PipelineCalls)
      BY <1>0, <2>1, <2>2, <2>11
    <3>2. ~OnSubscribed(t)
      BY <2>1, <3>1, GatedBehind DEF OnSubscribed, On
    <3>3. ~subscriber'.held
      <4>1. subscriber \in [m_autoRequest : BOOLEAN, m_remaining : Size, held : BOOLEAN]
        BY <1>0 DEF SubscriberTypeOK
      <4> QED BY <1>3, <3>1, <3>2, <4>1 DEF SubscriberStep, OnNext, Received, OnEnd
    <3> QED BY <2>1, <2>5, <2>9, <3>1, <3>3, GatedBehind
  <2> QED BY <2>4, <2>6, <2>8, <2>9, <2>10, <2>11 DEF Running
<1>4. ASSUME NEW w \in Workers, Takes(w)
      PROVE  log'.late = <<>> /\ (Starting \/ Between \/ Running)'
  <2>1. /\ log' = log /\ subscriber' = subscriber /\ source' = source
        /\ w \in Threads /\ Dispatch(w)
    BY <1>4 DEF Takes, subscriberVars, sourceVars, Threads
  <2>2. PICK k \in DOMAIN pending : agenda' = [agenda EXCEPT ![w] = <<pending[k].call>>]
                                    /\ pending' = RemoveAt(pending, k)
    BY <2>1 DEF Dispatch
  <2>3. pending # <<>>
    BY <2>2
  <2>4. \/ Starting /\ \E c \in Asking : /\ \A t \in Threads : agenda[t] = <<>>
                                         /\ pending = <<[when |-> "now", call |-> c]>>
        \/ Between
    BY <2>3 DEF Starting, Running, Alone
  <2>5. PICK c : /\ \A t \in Threads : agenda[t] = <<>>
                 /\ pending = <<[when |-> "now", call |-> c]>>
                 /\ (Starting /\ c \in Asking) \/ (Between /\ \E n \in Nat \ {0} : c = Call(0, "method", n))
    BY <2>4 DEF Between
  <2>6. /\ k = 1 /\ pending[k].call = c /\ pending' = <<>>
    <3>1. k = 1 /\ pending[k].call = c
      BY <2>2, <2>5
    <3>2. /\ pending \in Seq(Tasks) /\ Len(pending) = 1 /\ k \in 1 .. Len(pending)
      BY <1>0, <2>2, <2>5 DEF CallsTypeOK
    <3>3. RemoveAt(pending, k) \in Seq(Tasks) /\ Len(RemoveAt(pending, k)) = Len(pending) - 1
      BY <3>2, RemovedKeepsOrder
    <3>4. RemoveAt(pending, k) = <<>>
      BY <3>2, <3>3, EmptySeq
    <3> QED BY <2>2, <3>1, <3>4
  <2>7. agenda'[w] = <<c>> /\ \A u \in Threads \ {w} : agenda'[u] = <<>>
    BY <1>0, <2>1, <2>2, <2>5, <2>6
  <2>8. CASE Starting /\ c \in Asking
    <3>1. Starting'
      BY <2>1, <2>5, <2>6, <2>7, <2>8 DEF Starting, Alone, Ended
    <3> QED BY <2>1, <3>1
  <2>9. CASE Between /\ \E n \in Nat \ {0} : c = Call(0, "method", n)
    <3>1. PICK n \in Nat \ {0} : c = Call(0, "method", n)
      BY <2>9
    <3>2. c \in PipelineCalls /\ c.sig = "method"
      <4>1. 0 \in 0 .. Subscriber /\ "method" \in Sent
        BY DepthAssumption DEF Subscriber, Sent
      <4> QED BY <3>1, <4>1, CallIsTyped DEF Call
    <3>3. c \in Plain /\ c \in Tame /\ c \in Mild
      BY <3>2, KindsOfCalls DEF Ends
    <3>4. /\ <<c>> \in Seq(Plain) /\ <<c>> \in Seq(Tame) /\ <<c>> \in Seq(Mild)
          /\ Firm(<<c>>) /\ Heads(<<c>>) /\ Gated(<<c>>)
      BY <3>1, <3>3, OneIsFirm, MethodIsGated
    <3>5. ~SourceOver => ~Ended
      BY <2>9 DEF Between
    <3>6. Tidy(<<c>>, SourceOver, Ended)
      BY <3>4, <3>5 DEF Tidy
    <3>7. SourceOver' = SourceOver /\ Ended' = Ended /\ ~subscriber'.held
      BY <2>1, <2>9 DEF Between, SourceOver, Ended
    <3> QED BY <2>1, <2>6, <2>7, <3>4, <3>6, <3>7 DEF Running, Alone
  <2> QED BY <2>5, <2>8, <2>9
<1>5. ASSUME UserCalls, UNCHANGED <<sourceVars, stageVars>>
      PROVE  log'.late = <<>> /\ (Starting \/ Between \/ Running)'
  <2>1. /\ log' = log /\ source' = source /\ Idle /\ subscriber.held /\ UNCHANGED pending
    BY <1>5 DEF UserCalls, sourceVars
  <2>2. PICK t \in Threads : /\ Alone(t) /\ Tidy(agenda[t], SourceOver, Ended)
                             /\ source.kind \notin Gates
    BY <2>1 DEF Starting, Between, Running
  <2>3. PICK n \in Demands : agenda' = [agenda EXCEPT ![Client] = <<Request(Depth, n)>>]
    <3>1. user \in UserState
      BY <1>0 DEF SubscriberTypeOK, UserState
    <3>2. user' # [user EXCEPT !.calls = @ + 1, !.canceled = TRUE]
      BY <3>1 DEF UserState
    <3> QED BY <1>5, <3>2 DEF UserCalls
  <2>4. PICK s \in Seq(PipelineCalls) : /\ s = <<Request(Depth, n)>> /\ s \in Seq(Plain)
                                        /\ s \in Seq(Tame)
    <3>1. n \in Nat
      BY UserAssumption, SizeAssumption DEF Size
    <3>2. Request(Depth, n) \in PipelineCalls /\ Request(Depth, n).sig = "request"
      BY <3>1, UserSentIsTyped DEF UserSent, Request, Call
    <3>3. Request(Depth, n) \in Plain \cap Tame
      BY <3>2 DEF Plain, Tame, Ends
    <3>4. <<Request(Depth, n)>> \in Seq(Plain \cap Tame)
      BY <3>3
    <3>5. \A s \in Seq(Plain \cap Tame) : s \in Seq(Plain) /\ s \in Seq(Tame) /\ s \in Seq(PipelineCalls)
      BY KindsOfCalls, LargerSet
    <3> QED BY <3>4, <3>5
  <2>5. Client \in Threads /\ agenda'[Client] = s /\ \A u \in Threads \ {Client} : agenda'[u] = <<>>
    BY <1>0, <2>1, <2>3, <2>4 DEF Threads, Idle
  <2>6. ~SourceOver => ~Ended
    BY <2>2 DEF Tidy
  <2>7. Tidy(s, SourceOver, Ended)
    <3>1. s \in Seq(Mild) /\ Heads(s)
      BY <2>4, KindsOfCalls, LargerSet, PlainHeads
    <3>2. Firm(s)
      BY <3>1, MildIsFirm
    <3> QED BY <2>4, <2>6, <3>1, <3>2 DEF Tidy
  <2>8. pending' = <<>> /\ SourceOver' = SourceOver /\ Ended' = Ended
    BY <2>1, <2>2 DEF Alone, SourceOver, Ended
  <2>9. source'.kind \notin Gates
    BY <2>1, <2>2
  <2> QED BY <2>1, <2>5, <2>7, <2>8, <2>9 DEF Running, Alone
<1>6. ASSUME UNCHANGED vars
      PROVE  log'.late = <<>> /\ (Starting \/ Between \/ Running)'
  <2>1. /\ source' = source /\ log' = log /\ subscriber' = subscriber
        /\ agenda' = agenda /\ pending' = pending
    BY <1>6 DEF vars, callVars, sourceVars, subscriberVars
  <2>2. SourceOver' = SourceOver /\ Ended' = Ended /\ \A t : Alone(t)' = Alone(t)
    BY <2>1 DEF SourceOver, Ended, Alone
  <2>3. Starting' = Starting
    BY <2>1, <2>2 DEF Starting
  <2>4. Running' = Running
    BY <2>1, <2>2 DEF Running
  <2>5. Between' = Between
    BY <2>1, <2>2 DEF Between
  <2> QED BY <2>1, <2>3, <2>4, <2>5
<1> QED BY <1>1, <1>2, <1>3, <1>4, <1>5, <1>6 DEF NextStep, Step, Works, Terminated

LEMMA UnendingMakes ==
  ASSUME CallsTypeOK, Unending, NEW t \in Threads, agenda[t] # <<>>,
         \/ \E calls \in Seq(Mild) : Makes(t, calls)
         \/ \E c \in Mild, when \in {"now", "delayed", "point"} : Schedules(t, when, c)
  PROVE  /\ agenda' \in [Threads -> Seq(Mild)]
         /\ pending' \in Seq([when : {"now", "delayed", "point"}, call : Mild])
<1>0. agenda[t] \in Seq(Mild) /\ agenda \in [Threads -> Seq(Mild)]
      /\ pending \in Seq([when : {"now", "delayed", "point"}, call : Mild])
  BY DEF Unending
<1>1. Tail(agenda[t]) \in Seq(Mild)
  BY <1>0, HeadTailProperties
<1>2. ASSUME NEW calls \in Seq(Mild), Makes(t, calls)
      PROVE  /\ agenda' \in [Threads -> Seq(Mild)]
             /\ pending' \in Seq([when : {"now", "delayed", "point"}, call : Mild])
  <2>1. calls \o Tail(agenda[t]) \in Seq(Mild)
    BY <1>1, ConcatProperties
  <2> QED BY <1>0, <1>2, <2>1 DEF Makes
<1>3. ASSUME NEW c \in Mild, NEW when \in {"now", "delayed", "point"}, Schedules(t, when, c)
      PROVE  /\ agenda' \in [Threads -> Seq(Mild)]
             /\ pending' \in Seq([when : {"now", "delayed", "point"}, call : Mild])
  <2>1. Append(pending, [when |-> when, call |-> c])
          \in Seq([when : {"now", "delayed", "point"}, call : Mild])
    BY <1>0, AppendProperties
  <2> QED BY <1>0, <1>1, <1>3, <2>1 DEF Schedules
<1> QED BY <1>2, <1>3

LEMMA IntervalIsMild ==
  ASSUME CallsTypeOK, SourceOK(source), NEW t \in Threads, SourceStep(t), source.kind = "interval"
  PROVE  \/ \E calls \in Seq(Mild) : Makes(t, calls)
         \/ \E c \in Mild, when \in {"now", "delayed", "point"} : Schedules(t, when, c)
<1>0. agenda[t] # <<>> /\ source \in SourceMembers
  BY SourceActs DEF SourceOK
<1>1. Arg(t) \in Nat /\ Arg(t) + 1 \in Nat /\ 0 \in Nat /\ <<>> \in Seq(Mild)
  BY <1>0, HeadIsTyped, EmptySeq
<1>2. /\ Subscription(0) \in Mild
      /\ \A n \in Nat : Call(0, "tick", n) \in Mild /\ Call(0, "again", n) \in Mild /\ Value(0, n) \in Mild
  <2>1. /\ Subscription(0).sig = "onSubscribe"
        /\ \A n : /\ Call(0, "tick", n).sig = "tick" /\ Call(0, "again", n).sig = "again"
                  /\ Value(0, n).sig = "onNext"
    BY DEF Subscription, Value, Call
  <2>2. /\ Subscription(0) \in PipelineCalls
        /\ \A n \in Nat : /\ Call(0, "tick", n) \in PipelineCalls /\ Call(0, "again", n) \in PipelineCalls
                          /\ Value(0, n) \in PipelineCalls
    BY <1>1, SourceCalls
  <2> QED BY <2>1, <2>2 DEF Mild, Ends
<1>3. Interval(t) \/ MethodReturns(t)
  BY DEF SourceStep, Empty, Just, Never, RangeSource, Error, Defer, Create, CallsMethod, MethodWaits,
         ObservableGate, SingleGate, MaybeGate, CompletableGate, Is, Gates
<1>4. ASSUME NEW signals \in Seq(Mild), NEW more \in Seq(Mild), Emits(t, signals, more)
      PROVE  \E calls \in Seq(Mild) : Makes(t, calls)
  <2>1. signals \o more \in Seq(Mild)
    BY ConcatProperties
  <2> QED BY <1>4, <2>1 DEF Emits
<1>5. ASSUME NEW more \in Seq(Mild), Quietly(t, more)
      PROVE  \E calls \in Seq(Mild) : Makes(t, calls)
  BY <1>1, <1>4, <1>5 DEF Quietly
<1>6. ASSUME NEW demand, NEW value \in Nat, TryRequest(t, demand, value)
      PROVE  \/ \E calls \in Seq(Mild) : Makes(t, calls)
             \/ \E c \in Mild, when \in {"now", "delayed", "point"} : Schedules(t, when, c)
  BY <1>1, <1>2, <1>6 DEF TryRequest
<1>7. <<Subscription(0)>> \in Seq(Mild)
      /\ \A n \in Nat : <<Value(0, n)>> \in Seq(Mild) /\ <<Call(0, "again", n)>> \in Seq(Mild)
  BY <1>2
<1>8. CASE HandsSubscription(t) \/ MethodReturns(t) \/ IntervalCancel(t)
  BY <1>1, <1>5, <1>7, <1>8 DEF HandsSubscription, MethodReturns, IntervalCancel
<1>9. CASE IntervalTick(t)
  BY <1>1, <1>4, <1>5, <1>7, <1>9 DEF IntervalTick
<1>10. CASE IntervalRequest(t) \/ IntervalAgain(t)
  BY <1>1, <1>5, <1>6, <1>10 DEF IntervalRequest, IntervalAgain
<1> QED BY <1>3, <1>8, <1>9, <1>10 DEF Interval

LEMMA IntervalStepIsSteady ==
  ASSUME ClosuresTypeOK, TypesInv, Unending, log.late = <<>>,
         UsesOnly(Steady), source.kind = "interval", ~user'.canceled, [NextStep]_vars
  PROVE  log'.late = <<>> /\ Unending'
<1>0. /\ CallsTypeOK /\ OperatorsOK /\ SourceOK(source) /\ SubscriberTypeOK /\ ~Ended
      /\ \A t \in Threads : agenda[t] # <<>> => Head(agenda[t]) \in Mild
      /\ agenda \in [Threads -> Seq(Mild)]
      /\ pending \in Seq([when : {"now", "delayed", "point"}, call : Mild])
  BY HeadTailProperties DEF TypesInv, Unending
<1>1. ASSUME NEW t \in Threads, agenda[t] # <<>>,
             log'.late = <<>>, ~Ended',
             \/ \E calls \in Seq(Mild) : Makes(t, calls)
             \/ \E c \in Mild, when \in {"now", "delayed", "point"} : Schedules(t, when, c)
      PROVE  log'.late = <<>> /\ Unending'
  BY <1>0, <1>1, UnendingMakes DEF Unending
<1>2. ASSUME NEW t \in Threads, SourceStep(t), UNCHANGED <<stageVars, subscriberVars>>
      PROVE  log'.late = <<>> /\ Unending'
  <2>1. agenda[t] # <<>> /\ log'.late = <<>> /\ ~Ended'
    BY <1>0, <1>2, SourceActs DEF subscriberVars, Ended
  <2> QED BY <1>0, <1>1, <1>2, <2>1, IntervalIsMild
<1>3. ASSUME NEW t \in Threads, NEW i \in Stages, OperatorStep(t, i),
             UNCHANGED <<sourceVars, subscriberVars>>
      PROVE  log'.late = <<>> /\ Unending'
  <2>1. agenda[t] # <<>> /\ log'.late = <<>> /\ ~Ended' /\ Does(i, Steady)
    BY <1>0, <1>3 DEF OperatorStep, subscriberVars, Ended, UsesOnly
  <2>2. CASE Head(agenda[t]).sig = "subscribe"
    <3>1. PICK d \in PipelineCalls : /\ d = Call(i - 1, "subscribe", 0)
                                     /\ Makes(t, <<d>>) \/ Schedules(t, "now", d)
      BY <1>0, <1>3, <2>1, <2>2, SteadyOperator
    <3>2. d \in Mild
      <4>1. i - 1 \in 0 .. Depth
        BY DepthAssumption DEF Stages
      <4> QED BY <3>1, <4>1, AskingCalls
    <3>3. <<d>> \in Seq(Mild)
      BY <3>2
    <3> QED BY <1>1, <2>1, <3>1, <3>2, <3>3
  <2>3. CASE Head(agenda[t]).sig # "subscribe"
    <3>1. PICK calls \in Seq(PipelineCalls) : Makes(t, calls) /\ Follows(Head(agenda[t]), calls)
      BY <1>0, <1>3, <2>1, <2>3, SteadyOperator
    <3>2. calls \in Seq(Mild)
      BY <1>0, <2>1, <3>1 DEF Follows
    <3> QED BY <1>1, <2>1, <3>1, <3>2
  <2> QED BY <2>2, <2>3
<1>4. ASSUME NEW t \in Threads, SubscriberStep(t), UNCHANGED <<sourceVars, stageVars>>
      PROVE  log'.late = <<>> /\ Unending'
  <2>1. agenda[t] # <<>>
    BY <1>4 DEF SubscriberStep, OnSubscribed, OnNext, Received, OnEnd, On
  <2>2. /\ log'.late = <<>>
        /\ \E calls \in Seq(Plain) : calls \in Seq(Tame) /\ Makes(t, calls)
        /\ UNCHANGED Ended \/ (Ended' /\ Head(agenda[t]) \notin Mild)
    BY <1>0, <1>4, SteadySubscriber
  <2>3. ~Ended' /\ \E calls \in Seq(Mild) : Makes(t, calls)
    BY <1>0, <2>1, <2>2, KindsOfCalls, LargerSet
  <2> QED BY <1>1, <2>1, <2>2, <2>3
<1>5. ASSUME NEW w \in Workers, Takes(w)
      PROVE  log'.late = <<>> /\ Unending'
  <2>1. log' = log /\ Dispatch(w) /\ w \in Threads
    BY <1>5 DEF Takes, subscriberVars, Threads
  <2>2. PICK k \in DOMAIN pending : agenda' = [agenda EXCEPT ![w] = <<pending[k].call>>]
                                    /\ pending' = RemoveAt(pending, k)
    BY <2>1 DEF Dispatch
  <2>3. k \in 1 .. Len(pending) /\ pending[k].call \in Mild
    <3>1. k \in 1 .. Len(pending)
      BY <1>0, <2>2, LenProperties
    <3>2. pending[k] \in [when : {"now", "delayed", "point"}, call : Mild]
      BY <1>0, <3>1, ElementOfSeq
    <3> QED BY <3>1, <3>2
  <2>4. pending' \in Seq([when : {"now", "delayed", "point"}, call : Mild])
    BY <1>0, <2>2, <2>3, RemovedKeepsOrder
  <2>5. <<pending[k].call>> \in Seq(Mild)
    BY <2>3
  <2> QED BY <1>0, <2>1, <2>2, <2>4, <2>5 DEF Unending, Ended
<1>6. ASSUME UserCalls, UNCHANGED <<sourceVars, stageVars>>
      PROVE  log'.late = <<>> /\ Unending'
  <2>1. log' = log
    BY <1>6 DEF UserCalls
  <2>2. PICK d \in UserSent : agenda' = [agenda EXCEPT ![Client] = <<d>>] /\ UNCHANGED pending
    BY <1>6, UserMakesOne
  <2>3. d \in PipelineCalls /\ d.sig \notin Ends
    BY <2>2, UserSentIsTyped DEF UserSent, Request, Cancel, Call, Ends
  <2>4. <<d>> \in Seq(Mild)
    <3>1. d \in Mild
      BY <2>3, KindsOfCalls
    <3> QED BY <3>1
  <2> QED BY <1>0, <2>1, <2>2, <2>4 DEF Unending, Ended
<1>7. ASSUME UNCHANGED vars
      PROVE  log'.late = <<>> /\ Unending'
  BY <1>0, <1>7 DEF vars, callVars, subscriberVars, Unending, Ended
<1> QED BY <1>2, <1>3, <1>4, <1>5, <1>6, <1>7 DEF NextStep, Step, Works, Terminated

LEMMA StepIsSteady ==
  ASSUME ClosuresTypeOK, TypesInv, EndsInv, [NextStep]_vars
  PROVE  EndsInv'
<1> SUFFICES ASSUME UsesOnly(Steady)', ~user'.canceled
             PROVE  /\ log'.late = <<>>
                    /\ IF source'.kind = "interval" THEN Unending' ELSE (Starting \/ Between \/ Running)'
  BY DEF EndsInv
<1>1. UsesOnly(Steady)
  <2>1. \A j \in Stages : own'[j].name = own[j].name
    <3>1. ASSUME NEW t \in Threads, NEW i \in Stages, OperatorStep(t, i)
          PROVE  \A j \in Stages : own'[j].name = own[j].name
      BY <3>1, OperatorsHandle, HandledIsTyped DEF TypesInv
    <3> QED BY <3>1 DEF NextStep, Step, Works, Takes, Terminated, UserCalls, stageVars, vars
  <2> QED BY <2>1 DEF UsesOnly, Does
<1>2. ~user.canceled
  <2>1. user \in UserState
    BY DEF TypesInv, SubscriberTypeOK, UserState
  <2>2. ASSUME NEW t \in Threads, SubscriberStep(t)
        PROVE  ~user.canceled
    BY <2>1, <2>2 DEF SubscriberStep, OnSubscribed, OnNext, Received, OnEnd, Reacts, RequestsAll,
                      UserRequest, UserCancel, UserState
  <2>3. ASSUME UserCalls
        PROVE  ~user.canceled
    BY <2>1, <2>3 DEF UserCalls, UserState
  <2> QED BY <2>2, <2>3 DEF NextStep, Step, Works, Takes, Terminated, subscriberVars, vars
<1>3. source'.kind = "interval" <=> source.kind = "interval"
  <2>1. ASSUME NEW t \in Threads, SourceStep(t)
        PROVE  source'.kind = source.kind \/ (source.kind = "defer" /\ source'.kind # "interval")
    BY <2>1, SourceKindKept DEF TypesInv
  <2> QED BY <2>1 DEF NextStep, Step, Works, Takes, Terminated, UserCalls, sourceVars, vars
<1>4. log.late = <<>> /\ IF source.kind = "interval" THEN Unending ELSE Starting \/ Between \/ Running
  BY <1>1, <1>2 DEF EndsInv
<1>5. CASE source.kind = "interval"
  BY <1>1, <1>3, <1>4, <1>5, IntervalStepIsSteady
<1>6. CASE source.kind # "interval"
  BY <1>1, <1>3, <1>4, <1>6, FiniteStepIsSteady
<1> QED BY <1>5, <1>6

(* Under any number of map, tap, filter, defaultIfEmpty, subscribeOn and    *)
(* of the operators that fold their stream into one value, over any source *)
(* and on any number of threads, the subscriber is called no more after    *)
(* its end, unless its user cancels.                                       *)
THEOREM PipelineEndsOnce ==
  ASSUME ClosuresTypeOK
  PROVE  Spec => [](UsesOnly(Steady) => EndsOnce)
<1>1. Init => TypesInv /\ EndsInv
  BY InitIsTyped, InitIsStarting
<1>2. TypesInv /\ EndsInv /\ [NextStep]_vars => (TypesInv /\ EndsInv)'
  BY StepIsTyped, StepIsSteady
<1>3. TypesInv /\ EndsInv => (UsesOnly(Steady) => EndsOnce)
  BY DEF EndsInv, EndsOnce
<1> QED BY <1>1, <1>2, <1>3, PTL DEF Spec

=============================================================================
