------------------------------ MODULE RunLoop ------------------------------
(***************************************************************************)
(* The loop WorkerThread::run, ThreadPoolWorker::run and EventLoop::run    *)
(* share, line for line, and what a popped task may do while it runs.      *)
(*                                                                         *)
(* m_stop[w] is the set of the values a load of the atomic may return:     *)
(* both as long as it is not constructed, since WorkerThread and           *)
(* ThreadPoolWorker start their thread before they initialise the member.  *)
(***************************************************************************)
EXTENDS SchedulableQueue

VARIABLES
  m_stop,  (* m_stop of the scheduler, or of the pool worker, that w runs    *)
  done     (* history: the tasks whose operator() has returned               *)

loopVars == <<m_stop, done>>

Unset == BOOLEAN
Set   == {TRUE}
Clear == {FALSE}

LoopTypeOK ==
  /\ QueueTypeOK
  /\ m_stop \in [Workers -> {Unset, Set, Clear}]
  /\ done \subseteq Tasks

RunLoopInit ==
  /\ QueueInit
  /\ done = {}

StopBy(c, from, to, ws) ==
  /\ MoveCall(c, from, to)
  /\ m_stop' = [w \in Workers |-> IF w \in ws THEN Set ELSE m_stop[w]]
  /\ UNCHANGED <<timeVars, mapVars, popVars, done>>

(* Mutant form: the loop goes on whatever m_stop says.                     *)
IgnoreStop(w) ==
  /\ GoTo(w, "loop", "inner")
  /\ UNCHANGED <<timeVars, mapVars, callVars, cvMutex, sample, until, held, loopVars>>

(* while (!m_stop)                                                         *)
TestLoop(w) ==
  /\ \E stop \in m_stop[w] : GoTo(w, "loop", IF stop THEN "exit" ELSE "inner")
  /\ UNCHANGED <<timeVars, mapVars, callVars, cvMutex, sample, until, held, loopVars>>

(* while (m_queue.canPop(Clock::now())): the clock, then the queue.        *)
ReadClock(w) ==
  /\ GoTo(w, "inner", "canPop")
  /\ sample' = [sample EXCEPT ![w] = now]
  /\ UNCHANGED <<timeVars, mapVars, callVars, cvMutex, until, held, loopVars>>

(* Mutant form: the inner loop calls blockingPop without asking canPop.    *)
AlwaysPop(w) ==
  /\ GoTo(w, "canPop", "lock")
  /\ UNCHANGED <<timeVars, mapVars, callVars, cvMutex, sample, until, held, loopVars>>

CanPop(w) ==
  /\ GoTo(w, "canPop", IF Due(sample[w]) # {} THEN "lock" ELSE "loop")
  /\ UNCHANGED <<timeVars, mapVars, callVars, cvMutex, sample, until, held, loopVars>>

(* Where the loop goes on after an iteration; runFor is EventLoop's.       *)
Again(w) == IF until[w] = Forever THEN "inner" ELSE "for"

(* Mutant form: the optional is called without a look whether it is empty. *)
PoppedNothingRuns(w) ==
  /\ until[w] = Forever
  /\ held[w] = NoTask
  /\ GoTo(w, "popped", "running")
  /\ UNCHANGED <<timeVars, mapVars, callVars, cvMutex, sample, until, held, loopVars>>

(* An empty optional, when another worker took the task.                   *)
PoppedNothing(w) ==
  /\ until[w] = Forever
  /\ held[w] = NoTask
  /\ GoTo(w, "popped", "inner")
  /\ UNCHANGED <<timeVars, mapVars, callVars, cvMutex, sample, until, held, loopVars>>

(* Schedulable::operator(): m_task() runs unless this copy is canceled.    *)
Invoke(w) ==
  /\ held[w] # NoTask
  /\ ~copyCanceled[held[w]]
  /\ GoTo(w, "popped", "running")
  /\ UNCHANGED <<timeVars, mapVars, callVars, cvMutex, sample, until, held, loopVars>>

Finish(w) ==
  /\ done' = done \cup {held[w]}
  /\ held' = [held EXCEPT ![w] = NoTask]
  /\ UNCHANGED <<timeVars, mapVars, callVars, cvMutex, sample, until, m_stop>>

Skip(w) ==
  /\ held[w] # NoTask
  /\ copyCanceled[held[w]]
  /\ GoTo(w, "popped", Again(w))
  /\ Finish(w)

(* The task returns, from whatever call of the scheduler it made.          *)
Return(w) ==
  /\ step[w] = "idle"
  /\ GoTo(w, "running", Again(w))
  /\ Finish(w)

LoopStep(w) ==
  \/ TestLoop(w) \/ ReadClock(w) \/ CanPop(w)
  \/ PoppedNothing(w) \/ Invoke(w) \/ Skip(w) \/ Return(w)

(* One step of the thread of worker w, and one of a call c is making.      *)
WorkerStep(w) == LoopStep(w) \/ (PopStep(w) /\ UNCHANGED loopVars)
QueueCall(c)  == CallStep(c) /\ UNCHANGED loopVars
Clock         == Tick /\ UNCHANGED loopVars

(* A thread that may use the scheduler now: a client, or a running task.   *)
Active(c) == c \in Clients \/ (c \in Workers /\ pc[c] = "running")

NewCall(c)   == Active(c) /\ AnySchedule(c) /\ UNCHANGED loopVars
NewCancel(c) == \E t \in Cancellable : Cancel(c, t) /\ UNCHANGED loopVars

---------------------------------------------------------------------------
(***************************************************************************)
(* What the loop promises.                                                 *)
(***************************************************************************)
Taken    == {held[w] : w \in Workers} \ {NoTask}
Offered  == {arg[c] : c \in {d \in Callers : step[d] = "push"}}
Accepted == m_schedulables \cup Taken \cup done

Promise == INSTANCE Dispatch WITH
             time <- now, known <- {t \in Tasks : by[t] # NoThread},
             offered <- Offered, waiting <- m_schedulables, slot <- held,
             finished <- done, key <- at, rank <- no, closed <- queueStop

(* The loop dispatches like the abstract scheduler: tryPop takes the first *)
(* task in time and arrival order and never before its time, although the  *)
(* time point it compares with was read before the mutex was taken.        *)
DispatchesInOrder == Promise!Spec

(* Every insertion is still in the map, held by a worker or done, and no   *)
(* task is in two of these places: nothing is lost or run twice when       *)
(* several workers pop at once.                                            *)
OneOwner ==
  /\ \A v, w \in Workers : held[v] = held[w] => v = w \/ held[v] = NoTask
  /\ m_schedulables \cap (Taken \cup done) = {}
  /\ Taken \cap done = {}
  /\ Offered \cap Accepted = {}

NoneLost == \A r \in 0 .. inserted - 1 : \E t \in Accepted : no[t] = r

Alike(t, u) == by[t] = by[u] /\ delay[t] = delay[u] /\ delay[t] # Absolute

(* Two tasks one thread schedules one after the other with the same delay  *)
(* leave the queue in that order: what observeOn relies on, since each     *)
(* signal is one task.                                                     *)
CallerOrder ==
  \A t, u \in Accepted :
    Alike(t, u) /\ no[t] < no[u] => (t \in m_schedulables => u \in m_schedulables)

(***************************************************************************)
(* The inductive invariant behind these properties.                        *)
(***************************************************************************)
HeldWell ==
  \A w \in Workers :
    /\ held[w] # NoTask => pc[w] \in {"popped", "running"}
    /\ pc[w] = "running" => held[w] # NoTask

Placed ==
  /\ OneOwner
  /\ \A c \in Callers : step[c] = "push" => arg[c] \in Tasks /\ by[arg[c]] = c
  /\ \A t \in Accepted : by[t] # NoThread

Ranked ==
  /\ \A t \in Accepted : no[t] < inserted
  /\ NoneLost

Stamped ==
  /\ \A w \in Workers : sample[w] <= now
  /\ \A t \in Tasks :
       by[t] # NoThread /\ delay[t] # Absolute => at[t] <= now + delay[t]

Ordered ==
  /\ \A t, u \in Accepted : Alike(t, u) /\ no[t] < no[u] => at[t] <= at[u]
  /\ \A t \in Accepted, u \in Offered : Alike(t, u) => at[t] <= at[u]
  /\ CallerOrder

LoopInv == LoopTypeOK /\ HeldWell /\ Placed /\ Ranked /\ Stamped /\ Ordered

=============================================================================
