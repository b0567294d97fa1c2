--------------------------- MODULE SchedulableQueue ---------------------------
(***************************************************************************)
(* recpp::async::SchedulableQueue: the time-ordered queue every Scheduler  *)
(* of ReCpp owns, with the schedule() calls that fill it and the blocking  *)
(* pops that empty it.                                                     *)
(*                                                                         *)
(* Grain.  A critical section of m_dataMutex is one step.  Reading the     *)
(* clock is a step of its own wherever the code reads it before taking the *)
(* mutex, so every time point used under the mutex may be stale.           *)
(* m_cvMutex is a variable, because a waiting thread holds it from one     *)
(* evaluation of the predicate to the next wait_for.                       *)
(*                                                                         *)
(* A task stands for the copy of a Schedulable that one schedule() call    *)
(* hands over, so a task is scheduled at most once.                        *)
(***************************************************************************)
EXTENDS Integers, FiniteSets

CONSTANTS
  Tasks,        (* one element for each schedule() call                     *)
  Cancellable,  (* tasks whose Schedulable the caller keeps and may cancel  *)
  Clients,      (* threads outside of the scheduler that call schedule()    *)
  Workers,      (* threads that run a loop popping this queue               *)
  NoTask,       (* an empty std::optional<Schedulable>                      *)
  NoThread,     (* no thread: a free mutex, a task nobody scheduled         *)
  MaxTime       (* bound of the clock and of the time points scheduled at   *)

ASSUME QueueAssumption ==
  /\ MaxTime \in Nat
  /\ NoTask \notin Tasks
  /\ NoThread \notin Workers \cup Clients
  /\ Workers \cap Clients = {}
  /\ Cancellable \subseteq Tasks

VARIABLES
  now,             (* SchedulableQueue::Clock::now()                        *)
  m_schedulables,  (* the tasks in the multimap                             *)
  at,              (* the key of each task: the time point to run it after  *)
  no,              (* the rank of each insertion: equal keys keep its order *)
  inserted,        (* how many insertions there have been                   *)
  queueStop,       (* SchedulableQueue::m_stop                              *)
  m_canceled,      (* Schedulable::m_canceled of the caller's object        *)
  copyCanceled,    (* Schedulable::m_canceled of the copy in the multimap   *)
  by,              (* history: the thread that scheduled each task          *)
  delay,           (* history: the delay it gave, Absolute for a time point *)
  step,            (* where each thread is inside a call of the scheduler   *)
  arg,             (* the task of that call, when it is schedule()          *)
  cvMutex,         (* the holder of m_cvMutex                               *)
  pc,              (* where each worker is inside its loop                  *)
  sample,          (* the time point each worker last read from the clock   *)
  until,           (* the time limit of its pop, Forever for blockingPop    *)
  held             (* the optional<Schedulable> its pop returned            *)

timeVars   == <<now>>
mapVars    == <<m_schedulables, no, inserted, queueStop, copyCanceled>>
callVars   == <<at, by, delay, step, arg, m_canceled>>
popVars    == <<cvMutex, pc, sample, until, held>>
queueVars  == <<timeVars, mapVars, callVars, popVars>>

Callers  == Clients \cup Workers
Time     == 0 .. MaxTime
Forever  == -1
Absolute == -1

CallSteps == {"idle", "push", "notify", "queueStop", "setStop", "notifyAll"}

LoopSteps == {"none", "loop", "inner", "canPop", "lock", "test", "testDue", "asleep",
              "leave", "tryPop", "popped", "running", "exit", "for", "forNow", "forPop"}

QueueTypeOK ==
  /\ now \in Time
  /\ m_schedulables \subseteq Tasks
  /\ at \in [Tasks -> Time]
  /\ no \in [Tasks -> Nat]
  /\ inserted \in Nat
  /\ queueStop \in BOOLEAN
  /\ m_canceled \in [Tasks -> BOOLEAN]
  /\ copyCanceled \in [Tasks -> BOOLEAN]
  /\ by \in [Tasks -> Callers \cup {NoThread}]
  /\ delay \in [Tasks -> Time \cup {Absolute}]
  /\ step \in [Callers -> CallSteps]
  /\ arg \in [Callers -> Tasks \cup {NoTask}]
  /\ cvMutex \in Workers \cup {NoThread}
  /\ pc \in [Workers -> LoopSteps]
  /\ sample \in [Workers -> Time]
  /\ until \in [Workers -> Time \cup {Forever}]
  /\ held \in [Workers -> Tasks \cup {NoTask}]

QueueInit ==
  /\ now = 0
  /\ m_schedulables = {}
  /\ at = [t \in Tasks |-> 0]
  /\ no = [t \in Tasks |-> 0]
  /\ inserted = 0
  /\ queueStop = FALSE
  /\ m_canceled = [t \in Tasks |-> FALSE]
  /\ copyCanceled = [t \in Tasks |-> FALSE]
  /\ by = [t \in Tasks |-> NoThread]
  /\ delay = [t \in Tasks |-> 0]
  /\ step = [c \in Callers |-> "idle"]
  /\ arg = [c \in Callers |-> NoTask]
  /\ cvMutex = NoThread
  /\ pc = [w \in Workers |-> "none"]
  /\ sample = [w \in Workers |-> 0]
  /\ until = [w \in Workers |-> Forever]
  /\ held = [w \in Workers |-> NoTask]

(* The steady clock advances; MaxTime bounds the model.                    *)
Tick ==
  /\ now < MaxTime
  /\ now' = now + 1
  /\ UNCHANGED <<mapVars, callVars, popVars>>

---------------------------------------------------------------------------
(***************************************************************************)
(* The multimap.  Its order is the key, and for equal keys the order of    *)
(* insertion; find_if over it returns the first due entry in that order.   *)
(***************************************************************************)
Before(t, u) == at[t] < at[u] \/ (at[t] = at[u] /\ no[t] < no[u])

Due(timePoint) == {t \in m_schedulables : at[t] <= timePoint}

(* Mutant form: a find_if over a container without an order.               *)
IsAnyDue(t, timePoint) == t \in Due(timePoint)

IsFirstDue(t, timePoint) ==
  /\ t \in Due(timePoint)
  /\ \A u \in Due(timePoint) \ {t} : Before(t, u)

---------------------------------------------------------------------------
(***************************************************************************)
(* Scheduler::schedule, its three overloads, and SchedulableQueue::push.   *)
(* The time point is fixed before the mutex is taken.                      *)
(***************************************************************************)
BeginCall(c, t, timePoint, d) ==
  /\ step[c] = "idle"
  /\ by[t] = NoThread
  /\ by' = [by EXCEPT ![t] = c]
  /\ at' = [at EXCEPT ![t] = timePoint]
  /\ delay' = [delay EXCEPT ![t] = d]
  /\ step' = [step EXCEPT ![c] = "push"]
  /\ arg' = [arg EXCEPT ![c] = t]
  /\ UNCHANGED <<timeVars, mapVars, m_canceled, popVars>>

Schedule(c, t) == BeginCall(c, t, now, 0)

ScheduleAt(c, t) == \E timePoint \in Time : BeginCall(c, t, timePoint, Absolute)

ScheduleAfter(c, t) == \E d \in 1 .. (MaxTime - now) : BeginCall(c, t, now + d, d)

AnySchedule(c) ==
  \E t \in Tasks : Schedule(c, t) \/ ScheduleAt(c, t) \/ ScheduleAfter(c, t)

(* push on a stopped queue returns without inserting or notifying.         *)
PushRefused(c) ==
  /\ step[c] = "push"
  /\ queueStop
  /\ step' = [step EXCEPT ![c] = "idle"]
  /\ arg' = [arg EXCEPT ![c] = NoTask]
  /\ UNCHANGED <<timeVars, mapVars, at, by, delay, m_canceled, popVars>>

(* Mutant form: a map with one task per time point.                        *)
PushInsertsUnique(c) ==
  /\ step[c] = "push"
  /\ ~queueStop
  /\ m_schedulables' = IF \E t \in m_schedulables : at[t] = at[arg[c]]
                       THEN m_schedulables ELSE m_schedulables \cup {arg[c]}
  /\ no' = [no EXCEPT ![arg[c]] = inserted]
  /\ inserted' = inserted + 1
  /\ copyCanceled' = [copyCanceled EXCEPT ![arg[c]] = m_canceled[arg[c]]]
  /\ step' = [step EXCEPT ![c] = "notify"]
  /\ UNCHANGED <<timeVars, queueStop, at, by, delay, arg, m_canceled, popVars>>

PushInserts(c) ==
  /\ step[c] = "push"
  /\ ~queueStop
  /\ m_schedulables' = m_schedulables \cup {arg[c]}
  /\ no' = [no EXCEPT ![arg[c]] = inserted]
  /\ inserted' = inserted + 1
  /\ copyCanceled' = [copyCanceled EXCEPT ![arg[c]] = m_canceled[arg[c]]]
  /\ step' = [step EXCEPT ![c] = "notify"]
  /\ UNCHANGED <<timeVars, queueStop, at, by, delay, arg, m_canceled, popVars>>

Asleep == {w \in Workers : pc[w] = "asleep"}

(* m_cv.notify_one(), outside of every mutex: a thread that has evaluated  *)
(* its predicate but does not sleep yet misses it.                         *)
NotifyOne(c) ==
  /\ step[c] = "notify"
  /\ IF Asleep = {} THEN UNCHANGED pc
     ELSE \E w \in Asleep : pc' = [pc EXCEPT ![w] = "lock"]
  /\ step' = [step EXCEPT ![c] = "idle"]
  /\ arg' = [arg EXCEPT ![c] = NoTask]
  /\ UNCHANGED <<timeVars, mapVars, at, by, delay, m_canceled,
                 cvMutex, sample, until, held>>

CallStep(c) == PushRefused(c) \/ PushInserts(c) \/ NotifyOne(c)

(* Schedulable::cancel, by the thread that keeps the caller's object.      *)
Cancel(c, t) ==
  /\ step[c] = "idle"
  /\ by[t] \in {NoThread, c}
  /\ ~m_canceled[t]
  /\ m_canceled' = [m_canceled EXCEPT ![t] = TRUE]
  /\ UNCHANGED <<timeVars, mapVars, at, by, delay, step, arg, popVars>>

---------------------------------------------------------------------------
(***************************************************************************)
(* SchedulableQueue::blockingPop and pop: wait(predicate), then            *)
(* tryPop(Clock::now()).                                                   *)
(***************************************************************************)
GoTo(w, from, to) ==
  /\ pc[w] = from
  /\ pc' = [pc EXCEPT ![w] = to]

(* unique_lock<mutex> lock(m_cvMutex), also on the way out of wait_for.    *)
LockCv(w) ==
  /\ GoTo(w, "lock", "test")
  /\ cvMutex = NoThread
  /\ cvMutex' = w
  /\ UNCHANGED <<timeVars, mapVars, callVars, sample, until, held>>

TimedOut(w) == until[w] # Forever /\ until[w] <= now

(* Mutant form: the predicate forgets the time limit.                      *)
TestStopOnly(w) ==
  /\ IF queueStop
     THEN /\ GoTo(w, "test", "leave")
          /\ cvMutex' = NoThread
          /\ UNCHANGED sample
     ELSE /\ GoTo(w, "test", "testDue")
          /\ sample' = [sample EXCEPT ![w] = now]
          /\ UNCHANGED cvMutex
  /\ UNCHANGED <<timeVars, mapVars, callVars, until, held>>

(* The predicate up to canPop: the clock, the limit and m_stop.            *)
TestStop(w) ==
  /\ IF queueStop \/ TimedOut(w)
     THEN /\ GoTo(w, "test", "leave")
          /\ cvMutex' = NoThread
          /\ UNCHANGED sample
     ELSE /\ GoTo(w, "test", "testDue")
          /\ sample' = [sample EXCEPT ![w] = now]
          /\ UNCHANGED cvMutex
  /\ UNCHANGED <<timeVars, mapVars, callVars, until, held>>

(* Mutant form: wait() goes on while the predicate is true.                *)
TestDueInverted(w) ==
  /\ GoTo(w, "testDue", IF Due(sample[w]) = {} THEN "leave" ELSE "asleep")
  /\ cvMutex' = NoThread
  /\ UNCHANGED <<timeVars, mapVars, callVars, sample, until, held>>

(* canPop, the end of the predicate: wait returns, or wait_for releases    *)
(* the mutex and sleeps.                                                   *)
TestDue(w) ==
  /\ GoTo(w, "testDue", IF Due(sample[w]) # {} THEN "leave" ELSE "asleep")
  /\ cvMutex' = NoThread
  /\ UNCHANGED <<timeVars, mapVars, callVars, sample, until, held>>

(* Mutant form: wait_for ignores m_idleTime.                               *)
NeverTimesOut(w) == pc[w] = "asleep" /\ UNCHANGED queueVars

(* wait_for returns after m_idleTime, notified or not.                     *)
IdleTimeout(w) ==
  /\ GoTo(w, "asleep", "lock")
  /\ UNCHANGED <<timeVars, mapVars, callVars, cvMutex, sample, until, held>>

(* Mutant forms: the time point is rounded up, or is the limit of pop().   *)
ReadPopTimeRoundedUp(w) ==
  /\ GoTo(w, "leave", "tryPop")
  /\ sample' = [sample EXCEPT ![w] = now + 1]
  /\ UNCHANGED <<timeVars, mapVars, callVars, cvMutex, until, held>>

ReadPopTimeLimit(w) ==
  /\ GoTo(w, "leave", "tryPop")
  /\ sample' = [sample EXCEPT ![w] = IF until[w] = Forever THEN now ELSE until[w]]
  /\ UNCHANGED <<timeVars, mapVars, callVars, cvMutex, until, held>>

(* The argument of tryPop(Clock::now()).                                   *)
ReadPopTime(w) ==
  /\ GoTo(w, "leave", "tryPop")
  /\ sample' = [sample EXCEPT ![w] = now]
  /\ UNCHANGED <<timeVars, mapVars, callVars, cvMutex, until, held>>

(* Mutant form: the task is copied out and not erased.                     *)
TryPopKeeps(w) ==
  /\ GoTo(w, "tryPop", "popped")
  /\ \E t \in Tasks :
       /\ IsFirstDue(t, sample[w])
       /\ held' = [held EXCEPT ![w] = t]
  /\ UNCHANGED <<timeVars, mapVars, callVars, cvMutex, sample, until>>

TryPopFinds(w) ==
  /\ GoTo(w, "tryPop", "popped")
  /\ \E t \in Tasks :
       /\ IsFirstDue(t, sample[w])
       /\ m_schedulables' = m_schedulables \ {t}
       /\ held' = [held EXCEPT ![w] = t]
  /\ UNCHANGED <<timeVars, no, inserted, queueStop, copyCanceled, callVars,
                 cvMutex, sample, until>>

TryPopFails(w) ==
  /\ GoTo(w, "tryPop", "popped")
  /\ Due(sample[w]) = {}
  /\ UNCHANGED <<timeVars, mapVars, callVars, cvMutex, sample, until, held>>

PopStep(w) ==
  \/ LockCv(w) \/ TestStop(w) \/ TestDue(w) \/ IdleTimeout(w)
  \/ ReadPopTime(w) \/ TryPopFinds(w) \/ TryPopFails(w)

---------------------------------------------------------------------------
(***************************************************************************)
(* SchedulableQueue::stop and notifyAll, inside the stop() or destructor   *)
(* of the scheduler that thread c runs; to is what c does next.            *)
(***************************************************************************)
MoveCall(c, from, to) ==
  /\ step[c] = from
  /\ step' = [step EXCEPT ![c] = to]
  /\ UNCHANGED <<at, by, delay, arg, m_canceled>>

StopQueue(c, to) ==
  /\ MoveCall(c, "queueStop", to)
  /\ queueStop' = TRUE
  /\ UNCHANGED <<timeVars, m_schedulables, no, inserted, copyCanceled, popVars>>

NotifyAll(c, to) ==
  /\ MoveCall(c, "notifyAll", to)
  /\ pc' = [w \in Workers |-> IF pc[w] = "asleep" THEN "lock" ELSE pc[w]]
  /\ UNCHANGED <<timeVars, mapVars, cvMutex, sample, until, held>>

=============================================================================
