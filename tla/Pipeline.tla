----------------------------- MODULE Pipeline -----------------------------
(***************************************************************************)
(* A source, Depth operators and a DefaultSubscriber: one subscription,    *)
(* from the call of subscribe() until nothing happens any more.  Init      *)
(* chooses the source, the operators and the subscriber.                   *)
(***************************************************************************)
EXTENDS Sources, Facade, Subscribers

CONSTANTS
  SourceKinds,    (* the sources                                           *)
  OperatorNames   (* and the operators Init chooses from                   *)

ASSUME KindsAssumption == SourceKinds \subseteq Kinds /\ OperatorNames \subseteq Operators

vars == <<callVars, sourceVars, stageVars, subscriberVars>>

Init ==
  /\ SignalsInit
  /\ SourceInit(SourceKinds)
  /\ StagesInit(OperatorNames)
  /\ SubscriberInit

Works(t) ==
  \/ SourceStep(t) /\ UNCHANGED <<stageVars, subscriberVars>>
  \/ (\E i \in Stages : OperatorStep(t, i)) /\ UNCHANGED <<sourceVars, subscriberVars>>
  \/ SubscriberStep(t) /\ UNCHANGED <<sourceVars, stageVars>>

(* A thread of the scheduler takes a task, while an endless source is not  *)
(* at the bound of the model.                                              *)
Takes(w) ==
  /\ source.kind \in Endless => Len(out) < MaxTicks
  /\ Dispatch(w)
  /\ UNCHANGED <<sourceVars, stageVars, subscriberVars>>

Bounded == source.kind \in Endless /\ Len(out) >= MaxTicks

Terminated == Idle /\ (pending = <<>> \/ Bounded) /\ UNCHANGED vars

Step ==
  \/ \E t \in Threads : Works(t)
  \/ \E w \in Workers : Takes(w)

NextStep ==
  \/ Step \/ Terminated
  \/ UserCalls /\ UNCHANGED <<sourceVars, stageVars>>

Spec     == Init /\ [][NextStep]_vars
FairSpec ==
  /\ Spec
  /\ \A t \in Threads : WF_vars(Works(t))
  /\ \A w \in Workers : WF_vars(Takes(w))

---------------------------------------------------------------------------
Sent == {"subscribe", "onSubscribe", "onNext", "onComplete", "onError", "request", "cancel",
         "received", "filtered", "tested", "release", "inner", "innerNext", "innerError",
         "innerComplete", "branch", "subscribed", "method", "tick", "again"}

TypeOK ==
  /\ SignalsTypeOK(Sent)
  /\ SourceTypeOK
  /\ StagesTypeOK
  /\ SubscriberTypeOK

Promised   == PipelinePromise(own, out)   (* what the operators make of out *)
Uses(names)     == \E i \in Stages : Does(i, names)
UsesOnly(names) == \A i \in Stages : Does(i, names)

(* allOf, first, elementAt... have no answer of their own: they cancel and *)
(* count on a source that answers with onComplete() and nothing more, now. *)
Deciding  == Aborting \ {"take", "takeWhile"}
Answering ==
  \A i \in Stages : Does(i, Deciding) =>
    /\ source.kind \in {"empty", "just", "never", "range"}
    /\ \A j \in 1 .. i - 1 : ~Does(j, {"observeOn", "delay", "flatMap"})

(* What operator i is given.                                               *)
Reaching(i) == PipelinePromise(SubSeq(own, 1, i - 1), out)

(* Delay lets an error through at once unless it is told to delay it, and  *)
(* flatMap before the values of inner publishers that still run.           *)
Overtakes ==
  \E i \in Stages :
    \/ Does(i, {"delay"}) /\ ~own[i].m_flag
    \/ Does(i, {"flatMap"}) /\ own[i].branch.later /\ Reaching(i).end = "onError"

(* Operators that call their subscriber again after its end: those that    *)
(* end the stream before their source does, and a flatMap that goes on     *)
(* when an inner publisher has failed.  The subscriber has its end all the *)
(* same, unless an operator between goes on to another publisher.          *)
EndsEarly(i)  == Does(i, Aborting)
FailsEarly(i) == Does(i, {"flatMap"}) /\ own[i].branch.end = "onError"

Resumes ==
  \E i \in Stages : \E j \in i + 1 .. Depth :
    \/ FailsEarly(i) /\ Does(j, {"switchOnError"})
    \/ (EndsEarly(i) \/ FailsEarly(i)) /\ own[j].branch.later

Orderly == Answering /\ ~Overtakes /\ ~Resumes

(* Up to its first end the subscriber is given what the operators promise  *)
(* for what the source emitted: in order, nothing left out and nothing     *)
(* twice, through nested requests and cancellations and scheduled tasks.   *)
EmitsPromised ==
  Orderly =>
    /\ IsPrefix(Given.values, Promised.values)
    /\ Ended => Given = Promised

(* ... and when nothing is left to run, it was given all of it: no operator *)
(* keeps a result or an end for itself.                                    *)
CompletesAsPromised ==
  Quiet /\ subscriber.m_autoRequest /\ Orderly => Given = Promised

(* Whatever class of rx the chain has, the stream keeps its promise up to  *)
(* its first end: a Single gives one value and completes, or fails with    *)
(* none; a Maybe gives no second value; a Completable gives none.          *)
KeepsClass == ~Resumes => \A c \in ClassesOfChain(source.kind, own) : Obeys(c, Given)

(* The subscriber is called no more after its end.  Left aside, because    *)
(* they call it again: an operator that ends the stream before its source  *)
(* does, unless it is the only one and the source takes a cancel() without *)
(* an answer, on the same thread; a flatMap whose inner publishers may     *)
(* fail; and a user's own cancel().                                        *)
EndsOnce ==
  /\ ~user.canceled /\ ~Overtakes
  /\ \A i \in Stages : ~FailsEarly(i)
  /\ (\E i \in Stages : EndsEarly(i)) =>
       /\ source.kind \in {"error", "interval"}
       /\ Cardinality({i \in Stages : EndsEarly(i)}) = 1
       /\ ~Uses({"observeOn", "delay"} \cup Branching)
  => log.late = <<>>

(* DefaultSubscriber is given no value it has not asked for: filters that  *)
(* request again for what they dropped never ask for more than that.       *)
WithinDemand ==
  ~user.canceled /\ source.kind \notin Gates => Len(Given.values) <= user.asked

(* Operators that hand each value down, or drop it and ask for another.    *)
Streaming == {"map", "tap", "filter", "take", "takeWhile", "defaultIfEmpty"} \cup Scheduling

(* When nothing is left to run, every value asked for was given, or the    *)
(* stream has ended: demand is not lost in a filter that drops values, in  *)
(* nested requests or in the interval's own count.                         *)
DemandServed ==
  /\ Quiet /\ ~user.canceled /\ UsesOnly(Streaming)
  /\ source.kind \in {"empty", "just", "range", "interval"}
  => user.asked <= Len(Given.values) \/ Ended

(* The demand a filter has from below: of the next filter, or of the user. *)
Wanted(i) ==
  LET below == {j \in i + 1 .. Depth : Does(j, Filtering)}
  IN  IF below = {} THEN user.asked - Len(Given.values) ELSE link[Min(below)].m_waiting

(* Between two calls the two counters of FilterSubscription agree with the *)
(* rest of the pipeline: m_requested is what is still wanted below, and    *)
(* m_waiting never more than that, and all of it if upstream still has to  *)
(* deliver.                                                                *)
CountsDemand ==
  Idle /\ ~Ended /\ ~user.canceled /\ ~Uses(Scheduling) =>
    \A i \in Stages :
      Does(i, {"filter", "takeWhile"}) /\ link[i].held =>
        /\ link[i].m_requested = Wanted(i)
        /\ link[i].m_waiting <= link[i].m_requested

(* After cancel() has reached a range, in a nested call from the midst of  *)
(* its loop too, operators that only hand values down give no further one. *)
CancelStops ==
  [][ source.kind = "range" /\ source.m_canceled /\ UsesOnly({"map", "tap", "filter", "take"})
      => /\ log'.values = log.values
         /\ \A k \in DOMAIN log'.late \ DOMAIN log.late : log'.late[k].sig # "onNext" ]_vars

(* A pipeline over a source that ends comes to its end, however often a    *)
(* request for SIZE_MAX has to be renewed.                                 *)
ComesToAnEnd == <>Ended

---------------------------------------------------------------------------
(* What the documentation says.                                            *)

(* Single.h:33 "A Single is a Publisher that emits either a single value   *)
(* or error signal."                                                       *)
SingleEmitsOne == Len(log.values \o ValuesOf(log.late)) <= 1

=============================================================================
