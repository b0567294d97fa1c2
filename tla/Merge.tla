------------------------------- MODULE Merge -------------------------------
(***************************************************************************)
(* MergePublisher and MergeSubscription: part Depth of the pipeline, with  *)
(* the source of publishers as part 0 and the publishers it emits as parts *)
(* 1 .. Depth - 1.  The handlers of an inner publisher's DefaultSubscriber *)
(* are found at the publisher's place.                                     *)
(*                                                                         *)
(* None of this is locked, so the model has the one thread for which that  *)
(* is sound: the scheduler's tasks run when the thread that subscribed and *)
(* requests has returned to it, as with an EventLoop.                      *)
(***************************************************************************)
EXTENDS Subscribers

CONSTANTS
  Merged,         (* the inner publishers Init chooses from               *)
  SourcesLater,   (* whether the source emits by tasks of the scheduler    *)
  SourceEnds,     (* how the source ends: "onComplete" or "onError"        *)
  Scheduled       (* whether merge is given a scheduler                    *)

Publishers == 1 .. Depth - 1

(* kind; the number of values; how it ends, for one made by create(); and  *)
(* whether its signals are tasks of the scheduler.                         *)
Published ==
  {x \in [kind : {"range", "just", "never", "error", "create"}, size : Nat,
          end : {"onComplete", "onError", "none"}, later : BOOLEAN] :
     (x.kind = "just" => x.size = 1) /\ (x.kind = "error" => x.size = 0)}

ASSUME MergeAssumption ==
  /\ Depth > 0 /\ Merged \subseteq [Publishers -> Published]
  /\ SourcesLater \subseteq BOOLEAN /\ Scheduled \subseteq BOOLEAN
  /\ SourceEnds \subseteq {"onComplete", "onError"}

VARIABLES
  input,  (* the publishers and their source, as the user made them        *)
  inner,  (* the subscription of each publisher                            *)
  merge,  (* MergeSubscription                                             *)
  turns   (* history: the requests each publisher had, and those that were *)
          (* there at its last one and have had none since                 *)

mergeVars == <<input, inner, merge, turns>>
vars      == <<callVars, subscriberVars, mergeVars>>

Init ==
  /\ SignalsInit
  /\ SubscriberInit
  /\ input \in [publishers : Merged, later : SourcesLater, end : SourceEnds]
  /\ inner = [p \in Publishers |-> [m_current |-> 0, m_completed |-> FALSE, m_canceled |-> FALSE]]
  /\ merge \in [m_subscriptions : {<<>>}, m_currentIndex : {0}, sourceCompleted : {FALSE},
                m_completed : {FALSE}, m_canceled : {FALSE}, m_remaining : {0},
                m_requested : {0}, scheduler : Scheduled]
  /\ turns = [asked |-> [p \in Publishers |-> 0], ahead |-> [p \in Publishers |-> {}]]

(* The k-th value of publisher p: no two of them are the same.             *)
Element(p, k) == k * Depth + p

(* Calls made in order, now or each by a task of its own.                  *)
Leaves(t, later, calls) ==
  IF ~later THEN Makes(t, calls)
  ELSE /\ agenda' = [agenda EXCEPT ![t] = Tail(@)]
       /\ pending' = pending \o [k \in DOMAIN calls |-> [when |-> "now", call |-> calls[k]]]

---------------------------------------------------------------------------
(* The source: it emits the publishers in order, whatever is requested,    *)
(* since its subscriber requests all of them.                              *)
Source(t) ==
  /\ \/ On(t, 0, "subscribe") /\ Leaves(t, input.later, <<Call(0, "emit", 1)>>)
     \/ /\ On(t, 0, "emit")
        /\ LET p == Arg(t) IN
             IF p \notin Publishers THEN Makes(t, <<Call(Depth, input.end, 0)>>)
             ELSE Makes(t, <<Call(Depth, "onNext", p), Call(0, "emitted", p)>>)
     \/ On(t, 0, "emitted") /\ Leaves(t, input.later, <<Call(0, "emit", Arg(t) + 1)>>)
  /\ UNCHANGED mergeVars

(* An inner publisher, and the subscription it hands out.                  *)
Pub(p)   == input.publishers[p]
Gate(p)  == Pub(p).kind = "create"

Subscribes(t, p) ==
  /\ On(t, p, "subscribe")
  /\ IF Gate(p)
     THEN Leaves(t, Pub(p).later,
                 [k \in 1 .. Pub(p).size |-> Call(p, "onNext", Element(p, k))]
                   \o (IF Pub(p).end = "none" THEN <<>> ELSE <<Call(p, Pub(p).end, 0)>>))
     ELSE IF Pub(p).kind = "error" THEN Leaves(t, Pub(p).later, <<Call(p, "onError", 0)>>)
     ELSE Makes(t, <<Call(p, "onSubscribe", 0)>>)
  /\ UNCHANGED mergeVars

(* request(1): one turn of RangeSubscription's loop, JustSubscription or   *)
(* NeverSubscription.                                                      *)
Requested(t, p) ==
  LET s    == inner[p]
      over == s.m_completed \/ s.m_canceled \/ Pub(p).kind = "never"
      done == s.m_current = Pub(p).size
      last == done \/ Pub(p).kind = "just"
  IN  /\ On(t, p, "request")
      /\ inner' = IF over THEN inner
                  ELSE [inner EXCEPT ![p].m_current = IF done THEN @ ELSE @ + 1,
                                     ![p].m_completed = last]
      /\ Leaves(t, Pub(p).later,
                IF over THEN <<>>
                ELSE (IF done THEN <<>> ELSE <<Call(p, "onNext", Element(p, s.m_current + 1))>>)
                       \o (IF last THEN <<Call(p, "onComplete", 0)>> ELSE <<>>))
      /\ UNCHANGED <<input, merge, turns>>

Canceled(t, p) ==
  /\ On(t, p, "cancel")
  /\ inner' = [inner EXCEPT ![p].m_canceled = Pub(p).kind = "range"]
  /\ Leaves(t, Pub(p).later, <<Call(p, "onComplete", 0)>>)
  /\ UNCHANGED <<input, merge, turns>>

Inner(t) == \E p \in Publishers : Subscribes(t, p) \/ Requested(t, p) \/ Canceled(t, p)

---------------------------------------------------------------------------
(* MergeSubscription.                                                      *)
Present == ToSet(merge.m_subscriptions)

(* Two mutants: the index stays where it was, or is only kept in range.    *)
Without(p) == SelectSeq(merge.m_subscriptions, LAMBDA q : q # p)
RemovedStale(p) ==
  [merge EXCEPT !.m_subscriptions = Without(p), !.m_remaining = IF @ > 0 THEN @ - 1 ELSE 0]
RemovedSkips(p) ==
  [merge EXCEPT !.m_subscriptions = Without(p), !.m_remaining = IF @ > 0 THEN @ - 1 ELSE 0,
                !.m_currentIndex = IF @ >= Len(Without(p)) THEN 0 ELSE @]

(* removePublisher().                                                      *)
Removed(p) ==
  LET subscriptions == merge.m_subscriptions
      size          == Len(subscriptions)
      k             == SelectInSeq(subscriptions, LAMBDA q : q = p)
      index         == k - 1
      left          == IF merge.m_remaining > 0 THEN merge.m_remaining - 1 ELSE 0
  IN  IF k = 0 THEN [merge EXCEPT !.m_remaining = left]
      ELSE [merge EXCEPT !.m_remaining = left,
              !.m_subscriptions = RemoveAt(@, k),
              !.m_currentIndex = IF @ > index THEN @ - 1
                                 ELSE IF @ >= size - 1 THEN 0 ELSE @]

(* cancel() walks m_subscriptions.  A publisher that answers with its      *)
(* completion right away is erased from the deque under the walk: what of  *)
(* the rest is canceled after that is undefined.                           *)
Erases(p) == ~merge.scheduler /\ ~Pub(p).later

Walks(subscriptions) ==
  LET first == SelectInSeq(subscriptions, Erases)
      sure  == 1 .. IF first = 0 THEN Len(subscriptions) ELSE first
      Walked(places) ==
        /\ \A j, k \in DOMAIN places : j < k => places[j] < places[k]
        /\ sure \subseteq ToSet(places)
  IN  {[j \in DOMAIN places |-> subscriptions[places[j]]] :
         places \in {f \in SeqOf(DOMAIN subscriptions, Len(subscriptions)) : Walked(f)}}

Cancels(t, m, calls) ==
  /\ merge' = [m EXCEPT !.m_canceled = TRUE]
  /\ \E walk \in Walks(m.m_subscriptions) :
       Makes(t, [k \in DOMAIN walk |-> Call(walk[k], "cancel", 0)] \o calls)

(* Two mutants: a completion after cancel(), and one before the source's.  *)
ConcludesCanceled(t, m) ==
  LET over == ~m.m_completed /\ m.m_remaining = 0 /\ m.sourceCompleted
  IN  /\ merge' = [m EXCEPT !.m_completed = @ \/ over]
      /\ Makes(t, IF over THEN <<Completion(Depth)>> ELSE <<>>)
ConcludesEarly(t, m) ==
  LET over == ~m.m_completed /\ m.m_remaining = 0
  IN  /\ merge' = [m EXCEPT !.m_completed = @ \/ over]
      /\ Makes(t, IF over /\ ~m.m_canceled THEN <<Completion(Depth)>> ELSE <<>>)

(* The end of a publisher, or of the source, may be that of the merge.     *)
Concludes(t, m) ==
  LET over == ~m.m_completed /\ m.m_remaining = 0 /\ m.sourceCompleted
  IN  /\ merge' = [m EXCEPT !.m_completed = @ \/ over]
      /\ Makes(t, IF over /\ ~m.m_canceled THEN <<Completion(Depth)>> ELSE <<>>)

(* MergePublisher::subscribe(): the constructor of the subscription        *)
(* subscribes to the source, before the subscriber has its onSubscribe().  *)
Subscribed(t) ==
  /\ On(t, Depth, "subscribe")
  /\ Makes(t, <<Call(0, "subscribe", 0), Subscription(Depth)>>)
  /\ UNCHANGED merge

SourceNext(t) ==
  /\ On(t, Depth, "onNext")
  /\ merge' = [merge EXCEPT !.m_remaining = @ + 1]
  /\ Makes(t, <<Call(Arg(t), "subscribe", 0)>>)

SourceError(t)    == On(t, Depth, "onError") /\ Cancels(t, merge, <<Failure(Depth)>>)
SourceComplete(t) == On(t, Depth, "onComplete")
                       /\ Concludes(t, [merge EXCEPT !.sourceCompleted = TRUE])

(* What the closures of an inner subscriber do, on the scheduler if there  *)
(* is one.                                                                 *)
Handlers == [onSubscribe |-> "add", onNext |-> "onPublisherNextValue",
             onError |-> "onPublisherError", onComplete |-> "onPublisherComplete"]

Receives(t, p) ==
  \E sig \in DOMAIN Handlers :
    /\ On(t, p, sig)
    /\ Leaves(t, merge.scheduler, <<Call(p, Handlers[sig], Arg(t))>>)
    /\ UNCHANGED merge

(* A mutant: demand that waits for a publisher is not passed to it.        *)
AddsSilently(t, p) ==
  /\ On(t, p, "add")
  /\ merge' = [merge EXCEPT !.m_subscriptions = Append(@, p)]
  /\ Makes(t, <<>>)

Adds(t, p) ==
  /\ On(t, p, "add")
  /\ merge' = [merge EXCEPT !.m_subscriptions = Append(@, p)]
  /\ Makes(t, <<Call(Depth, "tryRequest", 0)>>)

OnPublisherNextValue(t, p) ==
  /\ On(t, p, "onPublisherNextValue")
  /\ Makes(t, IF merge.m_canceled THEN <<>> ELSE <<Value(Depth, Arg(t))>>)
  /\ UNCHANGED merge

OnPublisherError(t, p) ==
  On(t, p, "onPublisherError") /\ Cancels(t, Removed(p), <<Failure(Depth)>>)

(* A mutant: only the source's completion is a reason to complete.         *)
OnPublisherCompleteRemoves(t, p) ==
  On(t, p, "onPublisherComplete") /\ merge' = Removed(p) /\ Makes(t, <<>>)

OnPublisherComplete(t, p) == On(t, p, "onPublisherComplete") /\ Concludes(t, Removed(p))

MergeRequest(t) ==
  /\ On(t, Depth, "request")
  /\ merge' = [merge EXCEPT !.m_requested = Plus(@, Arg(t))]
  /\ Makes(t, <<Call(Depth, "tryRequest", 0)>>)

MergeCancel(t) == On(t, Depth, "cancel") /\ Cancels(t, merge, <<>>)

(* Two mutants: the loop goes on without demand, and does not count it.    *)
StuckAlone == merge.m_subscriptions = <<>> \/ merge.m_remaining = 0 \/ merge.m_canceled
GivesTurnFree(t) ==
  /\ On(t, Depth, "tryRequest")
  /\ merge.m_requested # 0 /\ ~StuckAlone
  /\ merge' = [merge EXCEPT !.m_currentIndex = (@ + 1) % Len(merge.m_subscriptions)]
  /\ Makes(t, <<Call(merge.m_subscriptions[merge.m_currentIndex + 1], "request", 1),
                Call(Depth, "tryRequest", 0)>>)
  /\ UNCHANGED turns

(* One turn of tryRequest()'s loop.                                        *)
Stuck == merge.m_requested = 0 \/ merge.m_subscriptions = <<>>
           \/ merge.m_remaining = 0 \/ merge.m_canceled

GivesTurn(t) ==
  LET subscriptions == merge.m_subscriptions
      p             == subscriptions[merge.m_currentIndex + 1]
  IN  /\ On(t, Depth, "tryRequest")
      /\ ~Stuck
      /\ merge' = [merge EXCEPT !.m_requested = @ - 1,
                                !.m_currentIndex = (@ + 1) % Len(subscriptions)]
      /\ Makes(t, <<Call(p, "request", 1), Call(Depth, "tryRequest", 0)>>)
      /\ turns' = [asked |-> [turns.asked EXCEPT ![p] = @ + 1],
                   ahead |-> [q \in Publishers |-> IF q = p THEN Present \ {p}
                                                   ELSE turns.ahead[q] \ {p}]]

StopsTurns(t) ==
  /\ On(t, Depth, "tryRequest")
  /\ Stuck
  /\ Makes(t, <<>>)
  /\ UNCHANGED <<merge, turns>>

Handles(t) ==
  \/ Subscribed(t) \/ SourceNext(t) \/ SourceError(t) \/ SourceComplete(t)
  \/ MergeRequest(t) \/ MergeCancel(t)
  \/ \E p \in Publishers :
       \/ Receives(t, p) \/ Adds(t, p) \/ OnPublisherNextValue(t, p)
       \/ OnPublisherError(t, p) \/ OnPublisherComplete(t, p)

Merges(t) ==
  /\ (Handles(t) /\ UNCHANGED turns) \/ GivesTurn(t) \/ StopsTurns(t)
  /\ UNCHANGED <<input, inner>>

Works(t) ==
  \/ (Source(t) \/ Inner(t) \/ Merges(t)) /\ UNCHANGED subscriberVars
  \/ SubscriberStep(t) /\ UNCHANGED mergeVars

Takes == Dispatch(Client) /\ UNCHANGED <<subscriberVars, mergeVars>>

Terminated == Quiet /\ UNCHANGED vars

Next ==
  \/ Works(Client) \/ Takes \/ Terminated
  \/ UserCalls /\ UNCHANGED mergeVars

Spec     == Init /\ [][Next]_vars
FairSpec == Spec /\ WF_vars(Works(Client)) /\ WF_vars(Takes)

---------------------------------------------------------------------------
Sent == {"subscribe", "onSubscribe", "onNext", "onComplete", "onError", "request", "cancel",
         "emit", "emitted", "received", "add", "onPublisherNextValue", "onPublisherError",
         "onPublisherComplete", "tryRequest"}

TypeOK ==
  /\ SignalsTypeOK(Sent)
  /\ SubscriberTypeOK
  /\ input \in [publishers : Merged, later : BOOLEAN, end : SourceEnds]
  /\ inner \in [Publishers -> [m_current : Nat, m_completed : BOOLEAN, m_canceled : BOOLEAN]]
  /\ merge \in [m_subscriptions : Seq(Publishers), m_currentIndex : Nat,
                sourceCompleted : BOOLEAN, m_completed : BOOLEAN, m_canceled : BOOLEAN,
                m_remaining : Nat, m_requested : Size, scheduler : BOOLEAN]
  /\ turns \in [asked : [Publishers -> Nat], ahead : [Publishers -> SUBSET Publishers]]

(* m_currentIndex is a place of the deque whenever tryRequest() reads it,  *)
(* however many publishers have removed themselves since.                  *)
IndexInRange ==
  IF merge.m_subscriptions = <<>> THEN merge.m_currentIndex = 0
  ELSE merge.m_currentIndex < Len(merge.m_subscriptions)

(* The publishers take turns: none is asked again before each of those     *)
(* that were there the last time, and still are, has been asked.           *)
TakesTurns ==
  [][ \A p \in Publishers :
        turns'.asked[p] > turns.asked[p] => turns.ahead[p] \cap Present = {} ]_vars

(* The subscriber is given no value it has not asked for, if no publisher  *)
(* pushes its values on its own.                                           *)
WithinDemand ==
  (\A p \in Publishers : ~Gate(p)) => Len(Given.values) <= user.asked

(* When nothing is left to run, demand is left over only if there is no    *)
(* publisher to pass it to.                                                *)
PassesDemand == Quiet => merge.m_requested = 0 \/ Present = {} \/ merge.m_canceled

(* How a publisher ends, by itself.                                        *)
EndOf(p) ==
  CASE Gate(p)                 -> Pub(p).end
    [] Pub(p).kind = "error"   -> "onError"
    [] Pub(p).kind = "never"   -> "none"
    [] OTHER                   -> "onComplete"

Failing == {p \in Publishers : EndOf(p) = "onError"}

(* The subscriber is called no more after its end, if one error can come   *)
(* at most: the second of two publishers that fail is reported too.        *)
EndsOnce ==
  Cardinality(Failing) + (IF input.end = "onError" THEN 1 ELSE 0) <= 1
  => log.late = <<>>

(* The publisher and the position of a value.                              *)
Origin(v) == <<v % Depth, v \div Depth>>

Promise == INSTANCE Interleave WITH
  Publishers <- Publishers,
  size       <- [p \in Publishers |-> Pub(p).size],
  ends       <- [p \in Publishers |-> EndOf(p)],
  failing    <- input.end = "onError",
  output     <- [k \in DOMAIN Given.values |-> Origin(Given.values[k])],
  end        <- Given.end

(* MergeSubscription implements Interleave: through nested requests and    *)
(* removals no value is lost, repeated or overtaken by a later one of its  *)
(* publisher, and the end comes when all is given.                         *)
Interleaves == Promise!Spec

(* Without a task between request(1) and its answer, a subscriber that     *)
(* asks for all of it is given the end, unless it cancels.                 *)
ComesToAnEnd ==
  /\ subscriber.m_autoRequest /\ ~merge.scheduler /\ ~input.later
  /\ \A p \in Publishers : ~Pub(p).later /\ EndOf(p) # "none"
  => <>(Ended \/ user.canceled)

---------------------------------------------------------------------------
(* Observable.h:145 "the merge of the given Observable instances", with    *)
(* "the optional scheduler to merge values on": a subscriber that asks for *)
(* all of it, and does not cancel, is given all of it.                     *)
MergesAll == Quiet /\ subscriber.m_autoRequest /\ ~user.canceled => Ended

=============================================================================
