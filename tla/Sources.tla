------------------------------ MODULE Sources ------------------------------
(***************************************************************************)
(* The publishers that start a pipeline and the Subscription each of them  *)
(* creates: part 0 of the pipeline.  The source is one record, with the    *)
(* members of the subscription its kind has.                               *)
(***************************************************************************)
EXTENDS Signals

CONSTANT Inputs   (* sequences of values a source may be given             *)

ASSUME InputsAssumption == Inputs \subseteq Seq(Nat)

VARIABLES
  source,   (* the publisher and its subscription                          *)
  out       (* history: the signals of the source, in order                *)

sourceVars == <<source, out>>

Gates     == {"create", "createSingle", "createMaybe", "createCompletable"}
Endless   == {"interval"}
Kinds     == {"empty", "just", "never", "range", "error", "defer"} \cup Gates \cup Endless

SourceInit(kinds) ==
  /\ source \in [kind : kinds, elements : Inputs, m_completed : {FALSE},
                 m_canceled : {FALSE}, m_current : {1}, m_requested : {0},
                 m_running : {FALSE}, m_ended : {FALSE}]
  /\ source.kind = "just" => Len(source.elements) = 1
  /\ source.kind \in {"empty", "never", "error"} \cup Endless => source.elements = <<>>
  /\ out = <<>>

Is(kind) == source.kind = kind

(* The source makes calls on its subscriber, then goes on with more.       *)
Emits(t, signals, more) ==
  /\ Makes(t, signals \o more)
  /\ out' = out \o signals

Quietly(t, calls) == Emits(t, <<>>, calls)

(* Every publisher but CreatePublisher and ErrorPublisher: subscribe().    *)
HandsSubscription(t) ==
  /\ On(t, 0, "subscribe")
  /\ Quietly(t, <<Subscription(0)>>)
  /\ UNCHANGED source

(* EmptySubscription completes at the first request() or cancel().         *)
Empty(t) ==
  /\ Is("empty")
  /\ \/ HandsSubscription(t)
     \/ /\ On(t, 0, "request") \/ On(t, 0, "cancel")
        /\ source' = [source EXCEPT !.m_completed = TRUE]
        /\ Emits(t, IF source.m_completed THEN <<>> ELSE <<Completion(0)>>, <<>>)

(* JustSubscription: cancel() completes without a look at m_completed.     *)
JustRequest(t) ==
  /\ On(t, 0, "request")
  /\ source' = [source EXCEPT !.m_completed = TRUE]
  /\ Emits(t, IF source.m_completed THEN <<>>
              ELSE <<Value(0, source.elements[1]), Completion(0)>>, <<>>)

Just(t) ==
  /\ Is("just")
  /\ \/ HandsSubscription(t)
     \/ JustRequest(t)
     \/ On(t, 0, "cancel") /\ Emits(t, <<Completion(0)>>, <<>>) /\ UNCHANGED source

Never(t) ==
  /\ Is("never")
  /\ \/ HandsSubscription(t)
     \/ On(t, 0, "request") /\ Quietly(t, <<>>) /\ UNCHANGED source
     \/ On(t, 0, "cancel") /\ Emits(t, <<Completion(0)>>, <<>>) /\ UNCHANGED source

(* RangeSubscription::request(), one turn of its loop: the turns left are  *)
(* the argument of the call.                                               *)
RangeEnded == source.m_completed \/ source.m_canceled
RangeDone  == source.m_current > Len(source.elements)

RangeStops(t) ==
  /\ On(t, 0, "request")
  /\ Arg(t) = 0 \/ RangeEnded
  /\ Quietly(t, <<>>)
  /\ UNCHANGED source

RangeCompletes(t) ==
  /\ On(t, 0, "request")
  /\ Arg(t) > 0 /\ ~RangeEnded /\ RangeDone
  /\ source' = [source EXCEPT !.m_completed = TRUE]
  /\ Emits(t, <<Completion(0)>>, <<>>)

(* A mutant: the loop does not look at m_canceled.                         *)
RangeTurnDespiteCancel(t) ==
  /\ On(t, 0, "request")
  /\ Arg(t) > 0 /\ ~source.m_completed /\ ~RangeDone
  /\ source' = [source EXCEPT !.m_current = @ + 1]
  /\ Emits(t, <<Value(0, source.elements[source.m_current])>>, <<Request(0, Arg(t) - 1)>>)

RangeTurn(t) ==
  /\ On(t, 0, "request")
  /\ Arg(t) > 0 /\ ~RangeEnded /\ ~RangeDone
  /\ source' = [source EXCEPT !.m_current = @ + 1]
  /\ Emits(t, <<Value(0, source.elements[source.m_current])>>, <<Request(0, Arg(t) - 1)>>)

RangeCancel(t) ==
  /\ On(t, 0, "cancel")
  /\ source' = [source EXCEPT !.m_canceled = TRUE]
  /\ Emits(t, <<Completion(0)>>, <<>>)

RangeSource(t) ==
  /\ Is("range")
  /\ HandsSubscription(t) \/ RangeStops(t) \/ RangeCompletes(t) \/ RangeTurn(t) \/ RangeCancel(t)

Error(t) ==
  /\ Is("error")
  /\ On(t, 0, "subscribe")
  /\ Emits(t, <<Failure(0)>>, <<>>)
  /\ UNCHANGED source

(* DeferPublisher asks its method for a publisher and subscribes to it.    *)
Defer(t) ==
  /\ Is("defer")
  /\ On(t, 0, "subscribe")
  /\ \E kind \in {"range", "error"} : source' = [source EXCEPT !.kind = kind]
  /\ UNCHANGED <<agenda, pending, out>>

(* IntervalSubscription::tryRequest(): the task it schedules has the value *)
(* it emits for an argument.                                               *)
TryRequest(t, demand, value) ==
  /\ source' = [source EXCEPT !.m_requested = IF demand = 0 THEN 0 ELSE demand - 1,
                              !.m_running = @ \/ demand > 0]
  /\ IF demand = 0 THEN Makes(t, <<>>) ELSE Schedules(t, "point", Call(0, "tick", value))
  /\ UNCHANGED out

IntervalRequest(t) ==
  /\ On(t, 0, "request")
  /\ LET demand == Plus(source.m_requested, Arg(t)) IN
       IF ~source.m_running /\ ~source.m_canceled
       THEN TryRequest(t, demand, 0)
       ELSE source' = [source EXCEPT !.m_requested = demand] /\ Quietly(t, <<>>)

IntervalCancel(t) ==
  /\ On(t, 0, "cancel")
  /\ source' = [source EXCEPT !.m_canceled = TRUE]
  /\ Quietly(t, <<>>)

IntervalTick(t) ==
  /\ On(t, 0, "tick")
  /\ source' = [source EXCEPT !.m_running = FALSE]
  /\ IF source.m_canceled
     THEN Quietly(t, <<>>)
     ELSE Emits(t, <<Value(0, Arg(t))>>, <<Call(0, "again", Arg(t) + 1)>>)

IntervalAgain(t) ==
  /\ On(t, 0, "again")
  /\ TryRequest(t, source.m_requested, Arg(t))

Interval(t) ==
  /\ Is("interval")
  /\ \/ HandsSubscription(t) \/ IntervalRequest(t) \/ IntervalCancel(t)
     \/ IntervalTick(t) \/ IntervalAgain(t)

(* CreatePublisher calls the user's method, which emits on a gate what it  *)
(* likes, in this model the elements and an end somewhere, at once or when *)
(* subscribe() has returned.                                               *)
CallsMethod(t) ==
  /\ source.kind \in Gates
  /\ On(t, 0, "subscribe")
  /\ Quietly(t, <<Call(0, "method", 1)>>)
  /\ UNCHANGED source

MethodEmits(t, sig) ==
  /\ On(t, 0, "method")
  /\ Arg(t) <= Len(source.elements)
  /\ Quietly(t, <<Call(0, sig, source.elements[Arg(t)]), Call(0, "method", Arg(t) + 1)>>)
  /\ UNCHANGED source

(* The method keeps the gate and uses it in a callback, after subscribe()  *)
(* has returned: from one task or several, on the scheduler's thread.  All *)
(* its calls are made by one thread, as the gate is not locked.            *)
MethodWaits(t) ==
  /\ source.kind \in Gates
  /\ On(t, 0, "method")
  /\ Arg(t) = 1 \/ t \in Workers
  /\ Schedules(t, "now", Call(0, "method", Arg(t)))
  /\ UNCHANGED sourceVars

MethodReturns(t) ==
  /\ On(t, 0, "method")
  /\ Quietly(t, <<>>)
  /\ UNCHANGED source

(* A mutant: a gate that does not know that it has ended.                  *)
PassesAlways(t, sig, signals, ends) ==
  /\ On(t, 0, sig)
  /\ source' = [source EXCEPT !.m_ended = @ \/ ends]
  /\ Emits(t, signals, <<>>)

(* The gate drops what comes after the end it has forwarded.               *)
Passes(t, sig, signals, ends) ==
  /\ On(t, 0, sig)
  /\ source' = [source EXCEPT !.m_ended = @ \/ ends]
  /\ Emits(t, IF source.m_ended THEN <<>> ELSE signals, <<>>)

ObservableGate(t) ==
  /\ Is("create")
  /\ \/ \E sig \in {"onNext", "onError", "onComplete"} : MethodEmits(t, sig)
     \/ Passes(t, "onNext", <<Value(0, Arg(t))>>, FALSE)
     \/ Passes(t, "onError", <<Failure(0)>>, TRUE)
     \/ Passes(t, "onComplete", <<Completion(0)>>, TRUE)

SingleGate(t) ==
  /\ Is("createSingle")
  /\ \/ \E sig \in {"onNext", "onError"} : MethodEmits(t, sig)
     \/ Passes(t, "onNext", <<Value(0, Arg(t)), Completion(0)>>, TRUE)
     \/ Passes(t, "onError", <<Failure(0)>>, TRUE)

MaybeGate(t) ==
  /\ Is("createMaybe")
  /\ \/ \E sig \in {"onNext", "onError", "onComplete"} : MethodEmits(t, sig)
     \/ Passes(t, "onNext", <<Value(0, Arg(t)), Completion(0)>>, TRUE)
     \/ Passes(t, "onError", <<Failure(0)>>, TRUE)
     \/ Passes(t, "onComplete", <<Completion(0)>>, TRUE)

CompletableGate(t) ==
  /\ Is("createCompletable")
  /\ \/ \E sig \in {"onError", "onComplete"} : MethodEmits(t, sig)
     \/ Passes(t, "onError", <<Failure(0)>>, TRUE)
     \/ Passes(t, "onComplete", <<Completion(0)>>, TRUE)

Create(t) ==
  \/ CallsMethod(t) \/ MethodWaits(t) \/ MethodReturns(t)
  \/ ObservableGate(t) \/ SingleGate(t) \/ MaybeGate(t) \/ CompletableGate(t)

SourceStep(t) ==
  \/ Empty(t) \/ Just(t) \/ Never(t) \/ RangeSource(t) \/ Error(t)
  \/ Defer(t) \/ Interval(t) \/ Create(t)

SourceTypeOK ==
  /\ source \in [kind : Kinds, elements : Inputs, m_completed : BOOLEAN,
                 m_canceled : BOOLEAN, m_current : Nat \ {0}, m_requested : Size,
                 m_running : BOOLEAN, m_ended : BOOLEAN]
  /\ source.m_current <= Len(source.elements) + 1

=============================================================================
