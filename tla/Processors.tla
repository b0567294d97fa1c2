---------------------------- MODULE Processors ----------------------------
(***************************************************************************)
(* The operators that have one publisher and one subscriber: what each     *)
(* does with a signal, and with the calls that come back on the            *)
(* subscription it handed down.                                            *)
(***************************************************************************)
EXTENDS Signals

CONSTANTS
  Predicate(_),     (* the closure given to filter, takeWhile, allOf...    *)
  Method(_),        (* the closure given to map                            *)
  Operation(_, _),  (* the closure given to reduce                         *)
  InitialValue,     (* reduce's init                                       *)
  DefaultValue,     (* the value given to defaultIfEmpty                   *)
  Counts,           (* the counts given to take, the indices to elementAt  *)
  Others            (* the publishers flatMap, andThen and switchOnError   *)
                    (* subscribe to besides their own, see Branch          *)

VARIABLES
  own,    (* the members of each operator                                  *)
  link    (* the ForwardSubscription or FilterSubscription it handed down  *)

stageVars == <<own, link>>

Aborting   == {"allOf", "anyOf", "noneOf", "first", "elementAt", "take", "takeWhile"}
Filtering  == {"filter", "take", "takeWhile"}
Scheduling == {"observeOn", "subscribeOn", "delay"}
Folding    == {"count", "last", "max", "min", "reduce", "ignoreElements"}
Branching  == {"flatMap", "andThen", "switchOnError"}
Operators  == Aborting \cup Filtering \cup Scheduling \cup Folding
                \cup Branching \cup {"map", "tap", "defaultIfEmpty"}

(* The other publisher of an operator: its values, how it ends, whether it *)
(* is subscribed on the loop of the thread that asks for it, and the       *)
(* subscription it has handed out, a RangeSubscription.                    *)
Branch(elements, end, later) ==
  [elements |-> elements, end |-> end, later |-> later, handed |-> FALSE,
   m_current |-> 1, m_completed |-> FALSE, m_canceled |-> FALSE]

NoBranch == Branch(<<>>, "onComplete", FALSE)

ASSUME OperatorsAssumption ==
  /\ InitialValue \in Nat /\ DefaultValue \in Nat /\ Counts \subseteq Size
  /\ \A b \in Others :
       /\ b = Branch(b.elements, b.end, b.later)
       /\ b.elements \in Seq(Nat) /\ b.end \in {"onComplete", "onError"} /\ b.later \in BOOLEAN

(* m_result stands for m_max, m_min and m_current too, as a sequence of at *)
(* most one value; m_flag for m_gotFalse, m_gotTrue, m_gotValues,          *)
(* m_delayError, FlatMap's m_completed and m_publisherErrored; m_count for *)
(* m_distance, m_remaining and m_runningPublishers, with limit for the     *)
(* value it starts from.  held says that m_subscription is set, or that    *)
(* m_subscriptions is not empty.                                           *)
Fresh(name) ==
  LET counts == IF name \in {"take", "elementAt"} THEN Counts ELSE {0}
  IN  {o \in [name : {name}, limit : counts, m_count : counts, held : {FALSE},
              m_flag   : IF name = "delay" THEN BOOLEAN ELSE {FALSE},
              m_result : {IF name = "reduce" THEN <<InitialValue>> ELSE <<>>},
              branch   : IF name \in Branching THEN Others ELSE {NoBranch}] :
         o.m_count = o.limit}

StagesInit(names) ==
  /\ own \in [Stages -> UNION {Fresh(name) : name \in names}]
  /\ link = [i \in Stages |-> [held |-> FALSE, m_requested |-> 0, m_waiting |-> 0]]

Does(i, names)   == own[i].name \in names
Keep(i, field, x) == own' = [own EXCEPT ![i][field] = x]
Bool(b)          == IF b THEN 1 ELSE 0

---------------------------------------------------------------------------
(* The subscriptions.                                                      *)

ForwardRequest(t, i) ==
  /\ On(t, i, "request")
  /\ ~Does(i, Filtering) /\ ~own[i].branch.handed
  /\ Makes(t, IF link[i].held THEN <<Request(i - 1, Arg(t))>> ELSE <<>>)
  /\ UNCHANGED stageVars

ForwardCancel(t, i) ==
  /\ On(t, i, "cancel")
  /\ ~Does(i, Filtering) /\ ~own[i].branch.handed
  /\ Makes(t, IF link[i].held THEN <<Cancel(i - 1)>> ELSE <<>>)
  /\ link' = [link EXCEPT ![i].held = FALSE]
  /\ UNCHANGED own

(* A mutant: m_requested = count, where a part of it may be owed already.  *)
FilterRequestResets(t, i) ==
  /\ On(t, i, "request")
  /\ Does(i, Filtering)
  /\ link' = [link EXCEPT ![i].m_requested = Arg(t), ![i].m_waiting = Plus(@, Arg(t))]
  /\ Makes(t, <<Request(i - 1, Arg(t))>>)
  /\ UNCHANGED own

FilterRequest(t, i) ==
  /\ On(t, i, "request")
  /\ Does(i, Filtering)
  /\ link' = [link EXCEPT ![i].m_requested = Plus(@, Arg(t)),
                          ![i].m_waiting = Plus(@, Arg(t))]
  /\ Makes(t, <<Request(i - 1, Arg(t))>>)
  /\ UNCHANGED own

FilterCancel(t, i) ==
  /\ On(t, i, "cancel")
  /\ Does(i, Filtering)
  /\ Makes(t, <<Cancel(i - 1)>>)
  /\ UNCHANGED stageVars

(* Two mutants: what was dropped is requested again for each value, while  *)
(* the rest still comes, and never.                                        *)
FilterOnNextRefills(t, i, refill) ==
  /\ On(t, i, "filtered")
  /\ LET waiting   == Decrement(link[i].m_waiting)
         requested == IF Arg(t) = 1 THEN link[i].m_requested ELSE Decrement(link[i].m_requested)
     IN  /\ link' = [link EXCEPT ![i].m_requested = requested,
                                 ![i].m_waiting = IF refill THEN requested ELSE waiting]
         /\ Makes(t, IF refill THEN <<Request(i - 1, requested)>> ELSE <<>>)
  /\ UNCHANGED own
FilterOnNextEager(t, i)  == FilterOnNextRefills(t, i, TRUE)
FilterOnNextLosing(t, i) == FilterOnNextRefills(t, i, FALSE)

(* FilterSubscription::onNext(): when all that was requested upstream came *)
(* and a part was filtered out, that part is requested again.              *)
FilterOnNext(t, i) ==
  /\ On(t, i, "filtered")
  /\ Does(i, Filtering)
  /\ IF own[i].held
     THEN LET waiting   == Decrement(link[i].m_waiting)
              requested == IF Arg(t) = 1 THEN link[i].m_requested
                           ELSE Decrement(link[i].m_requested)
              refill    == waiting = 0 /\ requested # 0
          IN  /\ link' = [link EXCEPT ![i].m_requested = requested,
                                      ![i].m_waiting = IF refill THEN requested ELSE waiting]
              /\ Makes(t, IF refill THEN <<Request(i - 1, requested)>> ELSE <<>>)
     ELSE Makes(t, <<>>) /\ UNCHANGED link
  /\ UNCHANGED own

SubscriptionStep(t, i) ==
  \/ ForwardRequest(t, i) \/ ForwardCancel(t, i)
  \/ FilterRequest(t, i) \/ FilterCancel(t, i) \/ FilterOnNext(t, i)

---------------------------------------------------------------------------
(* What the operators have in common.                                      *)

Subscribe(t, i) ==
  /\ On(t, i, "subscribe")
  /\ Makes(t, <<Call(i - 1, "subscribe", 0)>>)
  /\ UNCHANGED stageVars

(* The operator hands a subscription of its own down, and may keep it.     *)
(* One link stands for the m_subscriptions of the operators in Filtering,  *)
(* which have one more for each onSubscribe(): the second comes only from  *)
(* a switchOnError whose publisher fails after it has handed one out.      *)
OnSubscribe(t, i, keeps) ==
  /\ On(t, i, "onSubscribe")
  /\ link' = [link EXCEPT ![i] = [held |-> TRUE, m_requested |-> 0, m_waiting |-> 0]]
  /\ Keep(i, "held", keeps)
  /\ Makes(t, <<Subscription(i)>>)

(* m_subscription = {} at the end of a handler.                            *)
Release(t, i) ==
  /\ On(t, i, "release")
  /\ Keep(i, "held", FALSE)
  /\ Makes(t, <<>>)
  /\ UNCHANGED link

Releases(i) == IF own[i].held THEN <<Call(i, "release", 0)>> ELSE <<>>

(* A handler that makes calls and changes no member before they return.    *)
Answers(t, i, sig, calls) ==
  /\ On(t, i, sig)
  /\ Makes(t, calls)
  /\ UNCHANGED stageVars

(* A handler that changes a member, then makes calls.                      *)
Notes(t, i, sig, field, x, calls) ==
  /\ On(t, i, sig)
  /\ Keep(i, field, x)
  /\ Makes(t, calls)
  /\ UNCHANGED link

Forwards(t, i)          == Answers(t, i, "onNext", <<Value(i, Arg(t))>>)
Ignores(t, i)           == Answers(t, i, "onNext", <<>>)
Fails(t, i)             == Answers(t, i, "onError", <<Failure(i)>> \o Releases(i))

EndsWith(t, i, values)  ==
  Answers(t, i, "onComplete",
          [k \in DOMAIN values |-> Value(i, values[k])] \o <<Completion(i)>> \o Releases(i))
Completes(t, i)         == EndsWith(t, i, <<>>)

(* if the subscription is still set: m_subscription.cancel(), then reset.  *)
CancelsOwn(i) == IF own[i].held THEN <<Cancel(i), Call(i, "release", 0)>> ELSE <<>>

(* subscribe(), onSubscribe() and onError() of the operators that forward  *)
(* all that comes, and of those that keep the subscription.                *)
Relays(t, i) == Subscribe(t, i) \/ OnSubscribe(t, i, FALSE) \/ Fails(t, i)
Keeps(t, i)  == Subscribe(t, i) \/ OnSubscribe(t, i, TRUE) \/ Fails(t, i) \/ Release(t, i)

(* onNext() of allOf, anyOf and noneOf: the first value that decides.      *)
Judges(t, i, decides) ==
  IF decides /\ ~own[i].m_flag
  THEN Notes(t, i, "onNext", "m_flag", TRUE, CancelsOwn(i))
  ELSE Ignores(t, i)

---------------------------------------------------------------------------
AllOf(t, i) ==
  /\ Does(i, {"allOf"})
  /\ \/ Keeps(t, i)
     \/ Judges(t, i, ~Predicate(Arg(t)))
     \/ EndsWith(t, i, <<Bool(~own[i].m_flag)>>)

AnyOf(t, i) ==
  /\ Does(i, {"anyOf"})
  /\ \/ Keeps(t, i)
     \/ Judges(t, i, Predicate(Arg(t)))
     \/ EndsWith(t, i, <<Bool(own[i].m_flag)>>)

NoneOf(t, i) ==
  /\ Does(i, {"noneOf"})
  /\ \/ Keeps(t, i)
     \/ Judges(t, i, Predicate(Arg(t)))
     \/ EndsWith(t, i, <<Bool(~own[i].m_flag)>>)

FirstElement(t, i) ==
  /\ Does(i, {"first"})
  /\ \/ Keeps(t, i)
     \/ Notes(t, i, "onNext", "m_result", <<Arg(t)>>, CancelsOwn(i))
     \/ EndsWith(t, i, own[i].m_result)

(* m_distance-- == 0, which wraps around after the element was found.      *)
ElementAt(t, i) ==
  /\ Does(i, {"elementAt"})
  /\ \/ Keeps(t, i)
     \/ /\ On(t, i, "onNext")
        /\ own' = [own EXCEPT ![i].m_count = Decrement(@),
                              ![i].m_result = IF own[i].m_count = 0 THEN <<Arg(t)>> ELSE @]
        /\ Makes(t, IF own[i].m_count = 0 THEN CancelsOwn(i) ELSE <<>>)
        /\ UNCHANGED link
     \/ EndsWith(t, i, own[i].m_result)

LastElement(t, i) ==
  /\ Does(i, {"last"})
  /\ \/ Keeps(t, i)
     \/ Notes(t, i, "onNext", "m_result", <<Arg(t)>>, <<>>)
     \/ EndsWith(t, i, own[i].m_result)

Better(t, i, isBetter) ==
  Notes(t, i, "onNext", "m_result",
        IF own[i].m_result = <<>> \/ isBetter THEN <<Arg(t)>> ELSE own[i].m_result, <<>>)

(* A mutant: nothing is emitted when nothing came.                         *)
OrNothing(r) == r

(* Max and Min emit T{} when nothing came.                                 *)
OrZero(r) == IF r = <<>> THEN <<0>> ELSE r

Maximum(t, i) ==
  /\ Does(i, {"max"})
  /\ \/ Keeps(t, i)
     \/ Better(t, i, own[i].m_result[1] < Arg(t))
     \/ EndsWith(t, i, OrZero(own[i].m_result))

Minimum(t, i) ==
  /\ Does(i, {"min"})
  /\ \/ Keeps(t, i)
     \/ Better(t, i, Arg(t) < own[i].m_result[1])
     \/ EndsWith(t, i, OrZero(own[i].m_result))

Count(t, i) ==
  /\ Does(i, {"count"})
  /\ \/ Keeps(t, i)
     \/ Notes(t, i, "onNext", "m_count", Plus(own[i].m_count, 1), <<>>)
     \/ EndsWith(t, i, <<own[i].m_count>>)

Reduce(t, i) ==
  /\ Does(i, {"reduce"})
  /\ \/ Relays(t, i)
     \/ Notes(t, i, "onNext", "m_result", <<Operation(own[i].m_result[1], Arg(t))>>, <<>>)
     \/ EndsWith(t, i, own[i].m_result)

DefaultIfEmpty(t, i) ==
  /\ Does(i, {"defaultIfEmpty"})
  /\ \/ Relays(t, i)
     \/ Notes(t, i, "onNext", "m_flag", TRUE, <<Value(i, Arg(t))>>)
     \/ EndsWith(t, i, IF own[i].m_flag THEN <<>> ELSE <<DefaultValue>>)

Map(t, i) ==
  /\ Does(i, {"map"})
  /\ \/ Relays(t, i)
     \/ Answers(t, i, "onNext", <<Value(i, Method(Arg(t)))>>)
     \/ Completes(t, i)

(* Tap: the closures it calls first have no effect on the pipeline.        *)
Tap(t, i) ==
  /\ Does(i, {"tap"})
  /\ Relays(t, i) \/ Forwards(t, i) \/ Completes(t, i)

(* What IgnoreElements and AndThen do with their source: no subscription   *)
(* is handed down, they request by themselves, again when SIZE_MAX values  *)
(* came, and drop what comes.                                              *)
Drains(t, i) ==
  \/ Subscribe(t, i) \/ Fails(t, i) \/ Release(t, i)
  \/ /\ On(t, i, "onSubscribe")
     /\ own' = [own EXCEPT ![i].held = TRUE, ![i].m_count = SizeMax]
     /\ Makes(t, <<Request(i - 1, SizeMax)>>)
     /\ UNCHANGED link
  \/ LET left == Decrement(own[i].m_count) IN
       IF left = 0
       THEN Notes(t, i, "onNext", "m_count", SizeMax,
                  IF own[i].held THEN <<Request(i - 1, SizeMax)>> ELSE <<>>)
       ELSE Notes(t, i, "onNext", "m_count", left, <<>>)

IgnoreElements(t, i) ==
  /\ Does(i, {"ignoreElements"})
  /\ Drains(t, i) \/ Completes(t, i)

(* The loop over m_subscriptions that calls their onNext(filtered).        *)
Filtered(i, b) == Call(i, "filtered", Bool(b))

Filter(t, i) ==
  /\ Does(i, {"filter"})
  /\ \/ Keeps(t, i) \/ Completes(t, i)
     \/ Answers(t, i, "onNext", IF Predicate(Arg(t))
                                THEN <<Value(i, Arg(t)), Filtered(i, FALSE)>>
                                ELSE <<Filtered(i, TRUE)>>)

(* A mutant: leaves the completion to the source that is canceled.         *)
StopsByCancel(t, i, sig) ==
  Answers(t, i, sig, (IF own[i].held THEN <<Cancel(i)>> ELSE <<>>) \o Releases(i))

(* Cancels every subscription, completes, and drops the subscriptions.     *)
Stops(t, i, sig) ==
  Answers(t, i, sig, (IF own[i].held THEN <<Cancel(i)>> ELSE <<>>)
                       \o <<Completion(i)>> \o Releases(i))

(* Take: m_count is read again after the subscriber had the value.         *)
Take(t, i) ==
  /\ Does(i, {"take"})
  /\ \/ Keeps(t, i) \/ Completes(t, i)
     \/ own[i].m_count = 0 /\ Ignores(t, i)
     \/ /\ own[i].m_count > 0
        /\ Notes(t, i, "onNext", "m_count", own[i].m_count - 1,
                 <<Value(i, Arg(t)), Filtered(i, FALSE), Call(i, "tested", 0)>>)
     \/ own[i].m_count > 0 /\ Answers(t, i, "tested", <<>>)
     \/ own[i].m_count = 0 /\ Stops(t, i, "tested")

TakeWhile(t, i) ==
  /\ Does(i, {"takeWhile"})
  /\ \/ Keeps(t, i) \/ Completes(t, i)
     \/ Answers(t, i, "onNext", IF Predicate(Arg(t))
                                THEN <<Value(i, Arg(t)), Filtered(i, FALSE)>>
                                ELSE <<Filtered(i, TRUE), Call(i, "tested", 0)>>)
     \/ Stops(t, i, "tested")

(* ObserveOn and Delay make one task of each signal, SubscribeOn one of    *)
(* the subscription.                                                       *)
Hands(t, i, sig, when, call) ==
  /\ On(t, i, sig)
  /\ Schedules(t, when, call)
  /\ UNCHANGED stageVars

(* A mutant: the completion is forwarded at once.                          *)
ObserveOnEndsAtOnce(t, i) ==
  /\ Does(i, {"observeOn"})
  /\ \/ Subscribe(t, i) \/ OnSubscribe(t, i, FALSE) \/ Completes(t, i)
     \/ Hands(t, i, "onNext", "now", Value(i, Arg(t)))
     \/ Hands(t, i, "onError", "now", Failure(i))

ObserveOn(t, i) ==
  /\ Does(i, {"observeOn"})
  /\ \/ Subscribe(t, i) \/ OnSubscribe(t, i, FALSE)
     \/ Hands(t, i, "onNext", "now", Value(i, Arg(t)))
     \/ Hands(t, i, "onError", "now", Failure(i))
     \/ Hands(t, i, "onComplete", "now", Completion(i))

SubscribeOn(t, i) ==
  /\ Does(i, {"subscribeOn"})
  /\ \/ Hands(t, i, "subscribe", "now", Call(i - 1, "subscribe", 0))
     \/ OnSubscribe(t, i, FALSE) \/ Forwards(t, i) \/ Fails(t, i) \/ Completes(t, i)

Delay(t, i) ==
  /\ Does(i, {"delay"})
  /\ \/ Subscribe(t, i) \/ OnSubscribe(t, i, FALSE)
     \/ Hands(t, i, "onNext", "delayed", Value(i, Arg(t)))
     \/ Hands(t, i, "onError", IF own[i].m_flag THEN "delayed" ELSE "now", Failure(i))
     \/ Hands(t, i, "onComplete", "delayed", Completion(i))

---------------------------------------------------------------------------
(* The operators that subscribe to another publisher.  It is subscribed at *)
(* once, or on the loop of the thread that does it, after all the handlers *)
(* have returned: on another thread it would race with the operator.       *)
Starts(t, later, call, more) ==
  agenda' = [agenda EXCEPT ![t] = (IF later THEN <<>> ELSE <<call>>) \o more \o Tail(@)
                                    \o (IF later THEN <<call>> ELSE <<>>)]

(* The publisher flatMap's method makes of v: the other publisher with v   *)
(* in each value, which fails for the v that are not as Predicate.         *)
InnerValues(o, v) ==
  [k \in DOMAIN o.branch.elements |-> Operation(v, o.branch.elements[k])]
InnerEnd(o, v)    == IF Predicate(v) THEN "onComplete" ELSE o.branch.end

(* Its DefaultSubscriber requests all of it, and nobody cancels it.        *)
Inner == [onNext |-> "innerNext", onError |-> "innerError", onComplete |-> "innerComplete"]

InnerEmits(t, i) ==
  LET values == InnerValues(own[i], Arg(t))
  IN  Answers(t, i, "inner",
              [k \in DOMAIN values |-> Call(i, Inner["onNext"], values[k])]
                \o <<Call(i, Inner[InnerEnd(own[i], Arg(t))], 0)>>)

FlatMap(t, i) ==
  /\ Does(i, {"flatMap"})
  /\ \/ Relays(t, i) \/ InnerEmits(t, i)
     \/ /\ On(t, i, "onNext")
        /\ Keep(i, "m_count", Plus(own[i].m_count, 1))
        /\ Starts(t, own[i].branch.later, Call(i, "inner", Arg(t)), <<>>)
        /\ UNCHANGED <<pending, link>>
     \/ Answers(t, i, "innerNext", <<Value(i, Arg(t))>>)
     \/ Answers(t, i, "innerError", <<Failure(i)>>)
     \/ Notes(t, i, "innerComplete", "m_count", Decrement(own[i].m_count),
              IF Decrement(own[i].m_count) = 0 /\ own[i].m_flag THEN <<Completion(i)>> ELSE <<>>)
     \/ Notes(t, i, "onComplete", "m_flag", TRUE,
              IF own[i].m_count = 0 THEN <<Completion(i)>> ELSE <<>>)

(* The part the other publisher's signals go to: andThen subscribes its    *)
(* own subscriber, switchOnError itself once more.                         *)
ToBranch(i, sig, arg) == Call(IF Does(i, {"andThen"}) THEN i + 1 ELSE i, sig, arg)

(* A publisher that fails is one made by create(), which hands out no      *)
(* subscription.                                                           *)
BranchSubscribed(t, i) ==
  LET b == own[i].branch
  IN  /\ On(t, i, "branch")
      /\ IF b.end = "onError"
         THEN /\ Makes(t, [k \in DOMAIN b.elements |-> ToBranch(i, "onNext", b.elements[k])]
                           \o <<ToBranch(i, "onError", 0)>>)
              /\ UNCHANGED own
         ELSE /\ Makes(t, <<ToBranch(i, "onSubscribe", 0)>>)
              /\ Keep(i, "branch", [Branch(b.elements, b.end, b.later) EXCEPT !.handed = TRUE])
      /\ UNCHANGED link

(* One turn of its RangeSubscription::request().                           *)
BranchRequest(t, i) ==
  LET b    == own[i].branch
      over == Arg(t) = 0 \/ b.m_completed \/ b.m_canceled
      done == b.m_current > Len(b.elements)
  IN  /\ On(t, i, "request")
      /\ b.handed
      /\ Makes(t, IF over THEN <<>>
                  ELSE IF done THEN <<ToBranch(i, "onComplete", 0)>>
                  ELSE <<ToBranch(i, "onNext", b.elements[b.m_current]), Request(i, Arg(t) - 1)>>)
      /\ Keep(i, "branch", IF over THEN b
                           ELSE IF done THEN [b EXCEPT !.m_completed = TRUE]
                           ELSE [b EXCEPT !.m_current = @ + 1])
      /\ UNCHANGED link

(* Its RangeSubscription answers each cancel(), but switchOnError hands it *)
(* down in a ForwardSubscription, which lets go of it with the first.      *)
BranchCancel(t, i) ==
  LET b         == own[i].branch
      forgotten == Does(i, {"switchOnError"}) /\ b.m_canceled
  IN  /\ On(t, i, "cancel")
      /\ b.handed
      /\ Keep(i, "branch", [b EXCEPT !.m_canceled = TRUE])
      /\ Makes(t, IF forgotten THEN <<>> ELSE <<ToBranch(i, "onComplete", 0)>>)
      /\ UNCHANGED link

BranchStep(t, i) ==
  BranchSubscribed(t, i) \/ BranchRequest(t, i) \/ BranchCancel(t, i)

AndThen(t, i) ==
  /\ Does(i, {"andThen"})
  /\ \/ Drains(t, i) \/ BranchStep(t, i)
     \/ /\ On(t, i, "onComplete")
        /\ Starts(t, own[i].branch.later, Call(i, "branch", 0), Releases(i))
        /\ UNCHANGED <<pending, stageVars>>

(* m_publisherErrored is reset when subscribe() is about to return.        *)
SwitchOnError(t, i) ==
  /\ Does(i, {"switchOnError"})
  /\ \/ Answers(t, i, "subscribe", <<Call(i - 1, "subscribe", 0), Call(i, "subscribed", 0)>>)
     \/ Notes(t, i, "subscribed", "m_flag", FALSE, <<>>)
     \/ OnSubscribe(t, i, FALSE) \/ Forwards(t, i) \/ Completes(t, i) \/ BranchStep(t, i)
     \/ own[i].m_flag /\ Answers(t, i, "onError", <<Failure(i)>>)
     \/ /\ ~own[i].m_flag
        /\ On(t, i, "onError")
        /\ Keep(i, "m_flag", TRUE)
        /\ Starts(t, own[i].branch.later, Call(i, "branch", 0), <<>>)
        /\ UNCHANGED <<pending, link>>

OperatorStep(t, i) ==
  /\ agenda[t] # <<>>
  /\ \/ SubscriptionStep(t, i)
     \/ AllOf(t, i) \/ AnyOf(t, i) \/ NoneOf(t, i) \/ FirstElement(t, i) \/ ElementAt(t, i)
     \/ LastElement(t, i) \/ Maximum(t, i) \/ Minimum(t, i) \/ Count(t, i) \/ Reduce(t, i)
     \/ DefaultIfEmpty(t, i) \/ Map(t, i) \/ Tap(t, i) \/ IgnoreElements(t, i)
     \/ Filter(t, i) \/ Take(t, i) \/ TakeWhile(t, i)
     \/ ObserveOn(t, i) \/ SubscribeOn(t, i) \/ Delay(t, i)
     \/ FlatMap(t, i) \/ AndThen(t, i) \/ SwitchOnError(t, i)

StagesTypeOK ==
  /\ own \in [Stages -> [name : Operators, limit : Size, m_count : Size, m_flag : BOOLEAN,
                         m_result : Seq(Nat), held : BOOLEAN,
                         branch : [elements : Seq(Nat), end : {"onComplete", "onError"},
                                   later : BOOLEAN, handed : BOOLEAN, m_current : Nat \ {0},
                                   m_completed : BOOLEAN, m_canceled : BOOLEAN]]]
  /\ \A i \in Stages : Len(own[i].m_result) <= 1
  /\ link \in [Stages -> [held : BOOLEAN, m_requested : Size, m_waiting : Size]]

=============================================================================
