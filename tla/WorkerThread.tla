---------------------------- MODULE WorkerThread ----------------------------
(***************************************************************************)
(* recpp::async::WorkerThread: a queue with one thread of its own, which   *)
(* stop() may end before the destructor does.                              *)
(***************************************************************************)
EXTENDS RunLoop

CONSTANTS
  Owner,  (* the client that constructs and destroys the WorkerThread      *)
  Thread  (* its thread                                                    *)

ASSUME WorkerThreadAssumption == Owner \in Clients /\ Workers = {Thread}

VARIABLE life  (* "none", "starting", "open", "closing" or "destroyed"     *)

vars == <<queueVars, loopVars, life>>

Init ==
  /\ RunLoopInit
  /\ m_stop = [w \in Workers |-> Unset]
  /\ life = "none"

(* The members are initialised in their order: m_thread, which runs at     *)
(* once, then m_stop.                                                      *)
StartThread ==
  /\ life = "none"
  /\ GoTo(Thread, "none", "loop")
  /\ life' = "starting"
  /\ UNCHANGED <<timeVars, mapVars, callVars, cvMutex, sample, until, held, loopVars>>

InitStop ==
  /\ life = "starting"
  /\ m_stop' = [m_stop EXCEPT ![Thread] = Clear]
  /\ life' = "open"
  /\ UNCHANGED <<queueVars, done>>

(* stop() is m_stop = true, m_queue.stop(), m_queue.notifyAll(): a task    *)
(* pushed after the first step is still accepted.  Of the calls that find  *)
(* the queue stopped already, and change nothing, only the destructor's is *)
(* modelled.                                                               *)
BeginStop(c) ==
  /\ step[c] = "idle"
  /\ step' = [step EXCEPT ![c] = "setStop"]
  /\ UNCHANGED <<timeVars, mapVars, at, by, delay, arg, m_canceled, popVars, loopVars>>

StopStep(c) ==
  \/ StopBy(c, "setStop", "queueStop", Workers)
  \/ StopQueue(c, "notifyAll") /\ UNCHANGED loopVars
  \/ NotifyAll(c, "idle") /\ UNCHANGED loopVars

(* ~WorkerThread: stop(), then join.  No client uses it any more.          *)
Destroy ==
  /\ life = "open"
  /\ \A c \in Clients : step[c] = "idle"
  /\ BeginStop(Owner)
  /\ life' = "closing"

Join ==
  /\ life = "closing"
  /\ step[Owner] = "idle"
  /\ pc[Thread] = "exit"
  /\ life' = "destroyed"
  /\ UNCHANGED <<queueVars, loopVars>>

Use(c) ==
  /\ c \in Clients => life = "open"
  /\ \/ NewCall(c)
     \/ c \in Clients /\ NewCancel(c)
     \/ Active(c) /\ ~queueStop /\ BeginStop(c)
  /\ UNCHANGED life

Build      == StartThread \/ InitStop
Call(c)    == (QueueCall(c) \/ StopStep(c)) /\ UNCHANGED life
Work       == WorkerStep(Thread) /\ UNCHANGED life
ClockTick  == Clock /\ UNCHANGED life
Terminated == life = "destroyed" /\ UNCHANGED vars

Next ==
  \/ Build \/ Destroy \/ Join \/ Work \/ ClockTick \/ Terminated
  \/ \E c \in Callers : Use(c) \/ Call(c)

(* Threads are scheduled, tasks return and time passes.                    *)
Fairness ==
  /\ WF_vars(Build) /\ WF_vars(Join) /\ WF_vars(Work) /\ WF_vars(ClockTick)
  /\ \A c \in Callers : WF_vars(Call(c))

Spec     == Init /\ [][Next]_vars
FairSpec == Spec /\ Fairness

---------------------------------------------------------------------------
TypeOK ==
  /\ LoopTypeOK
  /\ until = [w \in Workers |-> Forever]
  /\ life \in {"none", "starting", "open", "closing", "destroyed"}

(* The one consumer never waits in blockingPop and never gets an empty     *)
(* optional: the task canPop() saw is still there at the later time point. *)
NeverWaits ==
  /\ pc[Thread] # "asleep"
  /\ pc[Thread] = "popped" => held[Thread] # NoTask

(* A due task is taken, unless the scheduler is stopped or the thread quit *)
(* on the value m_stop had before it was initialised.                      *)
DueTaken ==
  \A t \in Tasks :
    (t \in m_schedulables /\ at[t] <= now) ~>
      (t \notin m_schedulables \/ queueStop \/ pc[Thread] = "exit")

(* The destructor joins the thread, whoever called stop() before it.       *)
DestructorEnds == (life = "closing") ~> (life = "destroyed")

=============================================================================
