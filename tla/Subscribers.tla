---------------------------- MODULE Subscribers ----------------------------
(***************************************************************************)
(* DefaultSubscriber and the user behind it: it has the subscription of    *)
(* part Depth, and requests all of the stream by itself, or leaves the     *)
(* requests to the user's closures.                                        *)
(***************************************************************************)
EXTENDS Signals, Streams

CONSTANTS
  AutoRequest,    (* the values of DefaultSubscriber's autoRequest         *)
  Demands,        (* the counts a user of its own subscription requests    *)
  MaxCalls,       (* how many calls such a user makes                      *)
  MayCancel       (* whether it may cancel                                 *)

ASSUME UserAssumption ==
  /\ AutoRequest \subseteq BOOLEAN /\ MayCancel \in BOOLEAN
  /\ Demands \subseteq Size \ {0} /\ MaxCalls \in Nat

VARIABLES
  subscriber,  (* DefaultSubscriber                                        *)
  user,        (* what its user has called so far                          *)
  log          (* history: what the subscriber was given: the stream, up   *)
               (* to its first end, and the signals that came after that   *)

subscriberVars == <<subscriber, user, log>>

SubscriberInit ==
  /\ subscriber \in [m_autoRequest : AutoRequest, m_remaining : {0}, held : {FALSE}]
  /\ user = [calls |-> 0, asked |-> 0, canceled |-> FALSE]
  /\ log = [values |-> <<>>, end |-> "none", late |-> <<>>]

Ended == log.end # "none"

(* The history, with call c.                                               *)
Logged(c) ==
  IF Ended THEN [log EXCEPT !.late = Append(@, c)]
  ELSE IF c.sig \in Ends THEN [log EXCEPT !.end = c.sig]
  ELSE [log EXCEPT !.values = Append(@, c.arg)]

(* The subscriber, and its user, have a Subscription: a publisher made by  *)
(* create() hands none out, and nobody keeps it beyond the end.            *)
Connected(t) == subscriber.held \/ On(t, Subscriber, "onSubscribe")

(* The user calls it: in one of the closures, or when nothing else happens.*)
(* One who leaves the requests to the subscriber cancels only.             *)
MayRequest == ~subscriber.m_autoRequest

UserRequest(t, more) ==
  /\ MayRequest
  /\ \E n \in Demands :
       /\ Makes(t, <<Request(Depth, n)>> \o more)
       /\ user' = [user EXCEPT !.calls = @ + 1, !.asked = @ + n]

UserCancel(t, more) ==
  /\ MayCancel
  /\ Makes(t, <<Cancel(Depth)>> \o more)
  /\ user' = [user EXCEPT !.calls = @ + 1, !.canceled = TRUE]

MayCall == user.calls < MaxCalls

Reacts(t, more) ==
  \/ Makes(t, more) /\ UNCHANGED user
  \/ MayCall /\ Connected(t) /\ (UserRequest(t, more) \/ UserCancel(t, more))

(* A mutant: the counter starts again, and nothing is requested.           *)
ReceivedForgets(t) ==
  /\ On(t, Subscriber, "received")
  /\ subscriber' = [subscriber EXCEPT !.m_remaining = IF @ = 0 THEN SizeMax ELSE @]
  /\ Makes(t, <<>>)
  /\ UNCHANGED <<user, log>>

(* m_subscription.request(SIZE_MAX), if m_subscription is set.             *)
RequestsAll(t) ==
  /\ Makes(t, IF Connected(t) THEN <<Request(Depth, SizeMax)>> ELSE <<>>)
  /\ user' = [user EXCEPT !.asked = @ + SizeMax]

OnSubscribed(t) ==
  /\ On(t, Subscriber, "onSubscribe")
  /\ subscriber' = [subscriber EXCEPT !.held = TRUE,
                      !.m_remaining = IF subscriber.m_autoRequest THEN SizeMax ELSE @]
  /\ IF subscriber.m_autoRequest THEN RequestsAll(t) ELSE Reacts(t, <<>>)
  /\ UNCHANGED log

OnNext(t) ==
  /\ On(t, Subscriber, "onNext")
  /\ log' = Logged(Head(agenda[t]))
  /\ IF subscriber.m_autoRequest
     THEN subscriber' = [subscriber EXCEPT !.m_remaining = Decrement(@)]
     ELSE UNCHANGED subscriber
  /\ Reacts(t, IF subscriber.m_autoRequest
               THEN <<Call(Subscriber, "received", 0)>> ELSE <<>>)

(* if (m_autoRequest && !m_remaining), after the user's closure.           *)
Received(t) ==
  /\ On(t, Subscriber, "received")
  /\ IF subscriber.m_remaining = 0
     THEN subscriber' = [subscriber EXCEPT !.m_remaining = SizeMax] /\ RequestsAll(t)
     ELSE UNCHANGED <<subscriber, user>> /\ Makes(t, <<>>)
  /\ UNCHANGED log

OnEnd(t) ==
  /\ On(t, Subscriber, "onComplete") \/ On(t, Subscriber, "onError")
  /\ log' = Logged(Head(agenda[t]))
  /\ subscriber' = [subscriber EXCEPT !.held = FALSE]
  /\ Makes(t, <<>>)
  /\ UNCHANGED user

SubscriberStep(t) == OnSubscribed(t) \/ OnNext(t) \/ Received(t) \/ OnEnd(t)

Quiet == Idle /\ pending = <<>>

(* A call of the user from outside the closures, while no handler runs: no *)
(* part of the pipeline locks anything.                                    *)
UserCalls ==
  /\ Idle /\ MayCall
  /\ subscriber.held
  /\ \/ /\ MayRequest
        /\ \E n \in Demands :
             /\ agenda' = [agenda EXCEPT ![Client] = <<Request(Depth, n)>>]
             /\ user' = [user EXCEPT !.calls = @ + 1, !.asked = @ + n]
     \/ /\ MayCancel
        /\ agenda' = [agenda EXCEPT ![Client] = <<Cancel(Depth)>>]
        /\ user' = [user EXCEPT !.calls = @ + 1, !.canceled = TRUE]
  /\ UNCHANGED <<pending, subscriber, log>>

Given == Stream(log.values, log.end)

SubscriberTypeOK ==
  /\ subscriber \in [m_autoRequest : BOOLEAN, m_remaining : Size, held : BOOLEAN]
  /\ user \in [calls : 0 .. MaxCalls, asked : Nat, canceled : BOOLEAN]
  /\ log \in [values : Seq(Nat), end : Ends \cup {"none"}, late : Seq(Calls(Ends \cup {"onNext"}))]

=============================================================================
