----------------------------- MODULE ThreadPool -----------------------------
(***************************************************************************)
(* recpp::async::ThreadPool and its ThreadPoolWorkers: one queue, several  *)
(* threads that pop it, from the constructor to the end of the destructor. *)
(***************************************************************************)
EXTENDS RunLoop

CONSTANT Owner   (* the client that constructs and destroys the pool       *)

ASSUME OwnerAssumption == Owner \in Clients

VARIABLE life    (* "building", "open", "closing" or "destroyed"           *)

vars == <<queueVars, loopVars, life>>

Init ==
  /\ RunLoopInit
  /\ m_stop = [w \in Workers |-> Unset]
  /\ life = "building"

(* make_unique<ThreadPoolWorker>, one worker after the other: m_thread is  *)
(* constructed, and runs, before m_stop is.                                *)
StartWorker(w) ==
  /\ life = "building"
  /\ \A v \in Workers : pc[v] = "none" \/ m_stop[v] = Clear
  /\ GoTo(w, "none", "loop")
  /\ UNCHANGED <<timeVars, mapVars, callVars, cvMutex, sample, until, held,
                 loopVars, life>>

InitWorker(w) ==
  /\ life = "building"
  /\ pc[w] # "none"
  /\ m_stop[w] = Unset
  /\ m_stop' = [m_stop EXCEPT ![w] = Clear]
  /\ UNCHANGED <<queueVars, done, life>>

Constructed ==
  /\ life = "building"
  /\ \A w \in Workers : m_stop[w] = Clear
  /\ life' = "open"
  /\ UNCHANGED <<queueVars, loopVars>>

(* ~ThreadPool: m_queue.stop(), stop() of each worker, notifyAll(), then   *)
(* ~ThreadPoolWorker joins each thread.  The owner of the pool lets no     *)
(* client use it any more; the tasks that run still may.                   *)
Destroy ==
  /\ life = "open"
  /\ \A c \in Clients : step[c] = "idle"
  /\ life' = "closing"
  /\ step' = [step EXCEPT ![Owner] = "queueStop"]
  /\ UNCHANGED <<timeVars, mapVars, at, by, delay, arg, m_canceled, popVars, loopVars>>

StopOneWorker ==
  \E w \in Workers :
    /\ m_stop[w] = Clear
    /\ StopBy(Owner, "setStop", "setStop", {w})

AllWorkersStopped ==
  /\ \A w \in Workers : m_stop[w] = Set
  /\ MoveCall(Owner, "setStop", "notifyAll")
  /\ UNCHANGED <<timeVars, mapVars, popVars, loopVars>>

Join ==
  /\ life = "closing"
  /\ step[Owner] = "idle"
  /\ \A w \in Workers : pc[w] = "exit"
  /\ life' = "destroyed"
  /\ UNCHANGED <<queueVars, loopVars>>

Build ==
  \/ \E w \in Workers : StartWorker(w) \/ InitWorker(w)
  \/ Constructed

Teardown ==
  \/ StopQueue(Owner, "setStop") /\ UNCHANGED <<loopVars, life>>
  \/ StopOneWorker /\ UNCHANGED life
  \/ AllWorkersStopped /\ UNCHANGED life
  \/ NotifyAll(Owner, "idle") /\ UNCHANGED <<loopVars, life>>
  \/ Join

Use(c) ==
  /\ c \in Clients => life = "open"
  /\ NewCall(c) \/ (c \in Clients /\ NewCancel(c))
  /\ UNCHANGED life

Work(w)  == WorkerStep(w) /\ UNCHANGED life
Call(c)  == QueueCall(c) /\ UNCHANGED life
PoolTick == Clock /\ UNCHANGED life

Terminated == life = "destroyed" /\ UNCHANGED vars

Next ==
  \/ Build \/ Destroy \/ Teardown \/ PoolTick \/ Terminated
  \/ \E c \in Callers : Use(c) \/ Call(c)
  \/ \E w \in Workers : Work(w)

(* Threads are scheduled, tasks return and time passes; nobody has to      *)
(* schedule a task or to destroy the pool.                                 *)
Fairness ==
  /\ WF_vars(Build) /\ WF_vars(Teardown) /\ WF_vars(PoolTick)
  /\ \A c \in Callers : WF_vars(Call(c))
  /\ \A w \in Workers : WF_vars(Work(w))

Spec     == Init /\ [][Next]_vars
FairSpec == Spec /\ Fairness

---------------------------------------------------------------------------
TypeOK ==
  /\ LoopTypeOK
  /\ until = [w \in Workers |-> Forever]
  /\ life \in {"building", "open", "closing", "destroyed"}

(* A pool no worker has left keeps one awake: a worker only sleeps because *)
(* another took the task it had seen, so the wake-ups push() loses never   *)
(* leave a due task to m_idleTime alone.                                   *)
Left == {w \in Workers : pc[w] \in {"none", "exit"}}

SomeWorkerAwake == Left = {} => \E w \in Workers : pc[w] # "asleep"

(* A due task is taken, unless the queue is stopped or every worker quit   *)
(* on the value m_stop had before it was initialised.                      *)
DueTaken ==
  \A t \in Tasks :
    (t \in m_schedulables /\ at[t] <= now) ~> (\/ t \notin m_schedulables
                         \/ queueStop
                         \/ \A w \in Workers : pc[w] = "exit")

(* ThreadPool.h:17, "the first ThreadPoolWorker available will run it":    *)
(* some worker takes every due task of a pool that is not stopped.         *)
AcceptedIsRun ==
  \A t \in Tasks :
    (t \in m_schedulables /\ at[t] <= now) ~> (t \notin m_schedulables \/ queueStop)

(* The destructor comes to its end: every worker is joined, also one that  *)
(* tested the queue before stop() and went to sleep after notifyAll().     *)
DestructorEnds == (life = "closing") ~> (life = "destroyed")

=============================================================================
