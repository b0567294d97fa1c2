-------------------------- MODULE ThreadPoolProofs --------------------------
(***************************************************************************)
(* The theorems about ThreadPool, for any number of tasks, clients and     *)
(* workers and any bound on the clock.                                     *)
(***************************************************************************)
EXTENDS ThreadPool, RunLoopProofs

PoolInv == LoopInv /\ TypeOK

LEMMA OwnerIsCaller == Owner \in Callers
BY OwnerAssumption DEF Callers

(* What a step of the pool is to the queue and to the loop: the members of *)
(* the pool only start workers, set m_stop and stop the queue.             *)
LEMMA PoolStep ==
  ASSUME PoolInv, [Next]_vars
  PROVE  \/ UNCHANGED <<queueVars, loopVars>>
         \/ \E w \in Workers :
              /\ StartWorker(w) \/ InitWorker(w)
              /\ WalksOn(w) /\ Quiet /\ Offered' = Offered /\ queueStop' = queueStop
         \/ /\ Stops(Owner) /\ step[Owner] # "push" /\ queueStop' \in {queueStop, TRUE}
         \/ Clock
         \/ \E c \in Callers :
              \/ AnySchedule(c) /\ UNCHANGED loopVars
              \/ \E t \in Tasks : Cancel(c, t) /\ UNCHANGED loopVars
              \/ QueueCall(c)
         \/ \E w \in Workers : WorkerStep(w)
<1> USE OwnerIsCaller DEF PoolInv
<1>1. CASE UNCHANGED vars \/ Constructed \/ Join \/ Terminated
  BY <1>1 DEF vars, Constructed, Join, Terminated, queueVars, loopVars
<1>2. ASSUME NEW w \in Workers, StartWorker(w) \/ InitWorker(w)
      PROVE  WalksOn(w) /\ Quiet /\ Offered' = Offered /\ queueStop' = queueStop
  <2>1. /\ held[w] # NoTask => pc[w] \in {"popped", "running"}
        /\ pc[w] = "running" => held[w] # NoTask
        /\ pc[w] \in LoopSteps /\ pc = [pc EXCEPT ![w] = pc[w]]
        /\ cvMutex \in Workers \cup {NoThread}
        /\ m_stop \in [Workers -> {Unset, Set, Clear}]
    BY DEF LoopInv, HeldWell, LoopTypeOK, QueueTypeOK
  <2>2. /\ UNCHANGED <<timeVars, mapVars, callVars, until, held, done, sample>>
        /\ cvMutex' = cvMutex /\ m_stop' \in [Workers -> {Unset, Set, Clear}]
    BY <1>2, <2>1 DEF StartWorker, InitWorker, queueVars, popVars, loopVars
  <2>3. \/ pc[w] = "none" /\ pc' = [pc EXCEPT ![w] = "loop"]
        \/ pc' = [pc EXCEPT ![w] = pc[w]]
    BY <1>2, <2>1 DEF StartWorker, InitWorker, GoTo, queueVars, popVars
  <2>4. WalksOn(w)
    BY <2>1, <2>2, <2>3 DEF WalksOn, LoopSteps
  <2> QED BY <2>2, <2>4 DEF Quiet, Offered, timeVars, mapVars, callVars
<1>3. ASSUME NEW to \in CallSteps \ {"push"}, NEW from \in CallSteps \ {"push"}, NEW ws,
             \/ StopQueue(Owner, to) /\ UNCHANGED loopVars
             \/ NotifyAll(Owner, to) /\ UNCHANGED loopVars
             \/ StopBy(Owner, from, to, ws)
             \/ /\ MoveCall(Owner, from, to)
                /\ UNCHANGED <<timeVars, mapVars, popVars, loopVars>>
      PROVE  Stops(Owner) /\ step[Owner] # "push" /\ queueStop' \in {queueStop, TRUE}
  BY <1>3, StopStepsStop, Zenon DEF StopQueue, NotifyAll, StopBy, MoveCall, mapVars, CallSteps
<1>4. {"queueStop", "setStop", "notifyAll", "idle"} \subseteq CallSteps \ {"push"}
  BY DEF CallSteps
<1>5. CASE Destroy
  <2>1. MoveCall(Owner, "idle", "queueStop")
    BY <1>5, OwnerAssumption DEF Destroy, MoveCall
  <2> QED BY <1>3, <1>4, <1>5, <2>1 DEF Destroy
<1>6. CASE StopOneWorker \/ AllWorkersStopped
  BY <1>3, <1>4, <1>6 DEF StopOneWorker, AllWorkersStopped
<1>7. CASE \/ StopQueue(Owner, "setStop") /\ UNCHANGED loopVars
           \/ NotifyAll(Owner, "idle") /\ UNCHANGED loopVars
  BY <1>3, <1>4, <1>7
<1>8. CASE \E c \in Callers : Use(c)
  BY <1>8, QueueAssumption DEF Use, NewCall, NewCancel
<1>9. CASE PoolTick \/ (\E c \in Callers : Call(c)) \/ (\E w \in Workers : Work(w))
  BY <1>9 DEF PoolTick, Call, Work
<1> QED BY <1>1, <1>2, <1>5, <1>6, <1>7, <1>8, <1>9 DEF Next, Build, Teardown

---------------------------------------------------------------------------
LEMMA InitPool == Init => PoolInv
<1> SUFFICES ASSUME Init PROVE PoolInv
  OBVIOUS
<1>1. m_stop \in [Workers -> {Unset, Set, Clear}]
  BY DEF Init
<1>2. LoopInv
  BY <1>1, InitEstablishes DEF Init
<1> QED BY <1>2 DEF PoolInv, TypeOK, LoopInv, Init, RunLoopInit, QueueInit

(* No step of the pool reaches runFor's limit.                             *)
LEMMA PoolTypes ==
  ASSUME PoolInv, [Next]_vars
  PROVE  /\ until' = until
         /\ life' \in {"building", "open", "closing", "destroyed"}
<1> USE DEF PoolInv, TypeOK
<1>1. CASE UNCHANGED vars \/ Terminated
  BY <1>1 DEF vars, Terminated, queueVars, popVars
<1>2. CASE Build
  BY <1>2 DEF Build, StartWorker, InitWorker, Constructed, queueVars, popVars
<1>3. CASE Destroy \/ Teardown
  BY <1>3 DEF Destroy, Teardown, StopQueue, StopOneWorker, StopBy, AllWorkersStopped,
              NotifyAll, Join, queueVars, popVars
<1>4. CASE PoolTick
  BY <1>4 DEF PoolTick, Clock, Tick, popVars
<1>5. CASE \E c \in Callers : Use(c) \/ Call(c)
  BY <1>5 DEF Use, NewCall, NewCancel, AnySchedule, Schedule, ScheduleAt, ScheduleAfter,
              BeginCall, Cancel, Call, QueueCall, CallStep, PushRefused, PushInserts,
              NotifyOne, popVars
<1>6. CASE \E w \in Workers : Work(w)
  BY <1>6 DEF Work, WorkerStep, LoopStep, PopStep, TestLoop, ReadClock, CanPop, PoppedNothing,
              Invoke, Skip, Return, Finish, LockCv, TestStop, TestDue, IdleTimeout,
              ReadPopTime, TryPopFinds, TryPopFails
<1> QED BY <1>1, <1>2, <1>3, <1>4, <1>5, <1>6 DEF Next

LEMMA PoolMoves ==
  ASSUME PoolInv, [Next]_vars
  PROVE  LoopMoves
<1>1. LoopInv
  BY DEF PoolInv
<1> QED BY <1>1, PoolStep, UnchangedStill, WalksStill, StopsStill, OwnerIsCaller DEF LoopMoves

LEMMA PoolInductive == PoolInv /\ [Next]_vars => PoolInv'
<1> SUFFICES ASSUME PoolInv, [Next]_vars PROVE PoolInv'
  OBVIOUS
<1>1. LoopInv'
  BY PoolMoves, LoopMovesKeep DEF PoolInv
<1> QED BY <1>1, PoolTypes DEF PoolInv, TypeOK, LoopInv

LEMMA PoolInvariant == Spec => []PoolInv
BY InitPool, PoolInductive, PTL DEF Spec

(* Every variable of a pool keeps its type, and no thread of it is ever in *)
(* the time-limited pop of EventLoop::runFor.                              *)
THEOREM PoolTypeCorrect == Spec => []TypeOK
<1>1. PoolInv => TypeOK
  BY DEF PoolInv
<1> QED BY <1>1, PoolInvariant, PTL

(* A task is in one place at a time: no worker pops it twice, whatever the *)
(* number of workers between canPop and tryPop.                            *)
THEOREM PoolOneOwner == Spec => []OneOwner
<1>1. PoolInv => OneOwner
  BY DEF PoolInv, LoopInv, Placed
<1> QED BY <1>1, PoolInvariant, PTL

(* Every insertion into the multimap is still waiting, held or done.       *)
THEOREM PoolNoneLost == Spec => []NoneLost
<1>1. PoolInv => NoneLost
  BY DEF PoolInv, LoopInv, Ranked
<1> QED BY <1>1, PoolInvariant, PTL

(* The tasks one thread schedules with the same delay leave in order.      *)
THEOREM PoolCallerOrder == Spec => []CallerOrder
<1>1. PoolInv => CallerOrder
  BY DEF PoolInv, LoopInv, Ordered
<1> QED BY <1>1, PoolInvariant, PTL

(* As long as no worker has quit, one of them is awake: so a due task      *)
(* whose notify_one() no worker was waiting for is not left to m_idleTime. *)
(* A pool has at least one worker; hardware_concurrency(), the default     *)
(* size, may be 0, and then nobody runs anything.                          *)
THEOREM PoolSomeWorkerAwake ==
  ASSUME Workers # {}
  PROVE  Spec => []SomeWorkerAwake
<1> DEFINE OneAttends == \E w \in Workers : Attends(w)
<1>1. Init => OneAttends
  <2> SUFFICES ASSUME Init PROVE OneAttends
    OBVIOUS
  <2>1. \A w \in Workers : pc[w] = "none"
    BY DEF Init, RunLoopInit, QueueInit
  <2> QED BY <2>1 DEF Attends
<1>2. PoolInv /\ OneAttends /\ [Next]_vars => OneAttends'
  <2> SUFFICES ASSUME PoolInv, NEW w \in Workers, Attends(w), [Next]_vars
               PROVE  \E v \in Workers : Attends(v)'
    OBVIOUS
  <2>1. LoopInv
    BY DEF PoolInv
  <2>2. CASE UNCHANGED <<queueVars, loopVars>>
    BY <2>2 DEF Attends, Due, queueVars, timeVars, mapVars, callVars, popVars
  <2>3. ASSUME NEW v \in Workers, StartWorker(v) \/ InitWorker(v)
        PROVE  Attends(w)'
    <3>1. /\ UNCHANGED <<timeVars, mapVars, callVars, sample>>
          /\ pc'[w] = pc[w] \/ pc'[w] = "loop"
      BY <2>1, <2>3 DEF StartWorker, InitWorker, GoTo, queueVars, popVars,
                        LoopInv, LoopTypeOK, QueueTypeOK
    <3> QED BY <3>1 DEF Attends, Due, timeVars, mapVars, callVars
  <2>4. CASE Stops(Owner)
    BY <2>1, <2>4, OwnerIsCaller, StopsWakes, WakesAttends
  <2>5. CASE Clock
    BY <2>1, <2>5, ClockWakes, WakesAttends
  <2>6. ASSUME NEW c \in Callers, AnySchedule(c) \/ QueueCall(c)
        PROVE  Attends(w)'
    BY <2>1, <2>6, AnyScheduleWakes, QueueCallWakes, WakesAttends
  <2>7. ASSUME NEW c \in Callers, NEW t \in Tasks, Cancel(c, t)
        PROVE  Attends(w)'
    BY <2>7 DEF Cancel, Attends, Due, timeVars, mapVars, popVars
  <2>8. ASSUME NEW v \in Workers, WorkerStep(v)
        PROVE  Attends(v)' \/ Attends(w)'
    BY <2>1, <2>8, WorkerAttends
  <2> QED BY <2>2, <2>3, <2>4, <2>5, <2>6, <2>7, <2>8, PoolStep
<1>3. OneAttends => SomeWorkerAwake
  BY DEF Attends, SomeWorkerAwake
<1> HIDE DEF OneAttends
<1> QED BY <1>1, <1>2, <1>3, PoolInvariant, PTL DEF Spec

(* The pool implements the abstract dispatcher: earliest task first, never *)
(* before its time, once, by one worker, none accepted after the close.    *)
THEOREM PoolDispatchesInOrder == Spec => DispatchesInOrder
<1>1. Init => Promise!Init
  BY InitDispatches DEF Init
<1>2. PoolInv /\ [Next]_vars => [Promise!Next]_(Promise!dispatchVars)
  BY PoolMoves, LoopMovesDispatch DEF PoolInv
<1> QED BY <1>1, <1>2, PoolInvariant, PTL DEF Spec, DispatchesInOrder, Promise!Spec

=============================================================================
