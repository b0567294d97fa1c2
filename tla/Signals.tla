------------------------------ MODULE Signals ------------------------------
(***************************************************************************)
(* How the parts of a pipeline call each other.  A pipeline is a source at *)
(* position 0, operators at 1 .. Depth and a subscriber at Depth + 1.      *)
(*                                                                         *)
(* ReCpp has no queue between two parts: a signal is a virtual call, and a *)
(* handler runs the whole of what it calls before it goes on, so that      *)
(* request() may come back as onNext() before it returns.  agenda[t] is    *)
(* the call stack of thread t laid out as the calls still to be made, the  *)
(* innermost first; a handler takes the first call and puts the calls it   *)
(* makes in its place, with a call to itself where it goes on afterwards.  *)
(***************************************************************************)
EXTENDS Naturals, Sequences, SequencesExt

CONSTANTS
  Depth,    (* number of operators                                         *)
  Client,   (* the thread that builds the pipeline and subscribes          *)
  Workers,  (* the threads of the scheduler the operators are given        *)
  SizeMax,  (* std::numeric_limits<std::size_t>::max()                     *)
  MaxTicks  (* bound on the signals of a source that never ends            *)

ASSUME DepthAssumption   == Depth \in Nat
ASSUME ThreadsAssumption == Client \notin Workers
ASSUME SizeAssumption    == SizeMax \in Nat \ {0} /\ MaxTicks \in Nat

Threads    == {Client} \cup Workers
Stages     == 1 .. Depth
Subscriber == Depth + 1

VARIABLES
  agenda,   (* the calls each thread has still to make                     *)
  pending   (* the tasks of the scheduler, in the order they came          *)

callVars == <<agenda, pending>>

(* std::size_t wraps around.                                               *)
Size          == 0 .. SizeMax
Plus(a, b)    == (a + b) % (SizeMax + 1)
BareDecrement(a) == a - 1   (* a mutant of Decrement *)
Decrement(a)  == Plus(a, SizeMax)

Call(i, sig, arg) == [at |-> i, sig |-> sig, arg |-> arg]

(* The calls of part i on its subscriber.                                  *)
Value(i, v)      == Call(i + 1, "onNext", v)
Completion(i)    == Call(i + 1, "onComplete", 0)
Failure(i)       == Call(i + 1, "onError", 0)
Subscription(i)  == Call(i + 1, "onSubscribe", 0)

(* ... and on the subscription part i handed down; 0 is the source's.      *)
Request(i, n) == Call(i, "request", n)
Cancel(i)     == Call(i, "cancel", 0)

SignalsInit ==
  /\ agenda = [t \in Threads |->
                 IF t = Client THEN <<Call(Depth, "subscribe", 0)>> ELSE <<>>]
  /\ pending = <<>>

(* Thread t is about to run handler sig of part i, on Arg(t).              *)
On(t, i, sig) ==
  /\ agenda[t] # <<>>
  /\ Head(agenda[t]).at = i
  /\ Head(agenda[t]).sig = sig

Arg(t) == Head(agenda[t]).arg

Makes(t, calls) ==
  /\ agenda' = [agenda EXCEPT ![t] = calls \o Tail(@)]
  /\ UNCHANGED pending

(* Scheduler::schedule(): "now", "delayed" by the same duration for every  *)
(* task of the pipeline, or at a time "point" that may be over.            *)
Schedules(t, when, call) ==
  /\ agenda' = [agenda EXCEPT ![t] = Tail(@)]
  /\ pending' = Append(pending, [when |-> when, call |-> call])

(* The dispatcher takes tasks in time order: those of one thread with one  *)
(* delay in order (CallerOrder in RunLoop.tla), and a task that is due     *)
(* before one that came after it and has to wait.                          *)
IsNext(k) ==
  \A j \in 1 .. k - 1 :
    /\ pending[j].when # pending[k].when
    /\ pending[j].when = "now" => pending[k].when = "point"

Dispatch(w) ==
  /\ agenda[w] = <<>>
  /\ \E k \in DOMAIN pending :
       /\ IsNext(k)
       /\ agenda' = [agenda EXCEPT ![w] = <<pending[k].call>>]
       /\ pending' = RemoveAt(pending, k)

(* Nothing happens any more unless somebody outside makes a call.          *)
Idle == \A t \in Threads : agenda[t] = <<>>

Calls(signals) == [at : 0 .. Subscriber, sig : signals, arg : Nat]

SignalsTypeOK(signals) ==
  /\ agenda \in [Threads -> Seq(Calls(signals))]
  /\ pending \in Seq([when : {"now", "delayed", "point"}, call : Calls(signals)])

=============================================================================
