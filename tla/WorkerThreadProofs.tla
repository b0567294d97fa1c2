------------------------- MODULE WorkerThreadProofs -------------------------
(***************************************************************************)
(* The theorems about WorkerThread, for any number of tasks and clients    *)
(* and any bound on the clock: what it shares with the other schedulers,   *)
(* and that its thread, the only consumer of its queue, never waits there. *)
(***************************************************************************)
EXTENDS WorkerThread, RunLoopProofs

ThreadInv == LoopInv /\ TypeOK

LEMMA ThreadIsWorker == Thread \in Workers /\ Workers = {Thread}
BY WorkerThreadAssumption

LEMMA OwnerIsCaller == Owner \in Callers
BY WorkerThreadAssumption DEF Callers

(* stop(), by a client, by a task or by the destructor.                    *)
LEMMA StoppingStops ==
  ASSUME LoopInv, NEW c \in Callers, StopStep(c) \/ BeginStop(c)
  PROVE  Stops(c) /\ step[c] # "push" /\ queueStop' \in {queueStop, TRUE}
<1>1. {"setStop", "queueStop", "notifyAll", "idle"} \subseteq CallSteps \ {"push"}
  BY DEF CallSteps
<1>2. CASE BeginStop(c)
  <2>1. /\ MoveCall(c, "idle", "setStop")
        /\ UNCHANGED <<timeVars, mapVars, popVars, loopVars>>
    BY <1>2 DEF BeginStop, MoveCall
  <2> QED BY <1>1, <2>1, StopStepsStop DEF MoveCall, mapVars
<1>3. CASE StopBy(c, "setStop", "queueStop", Workers)
  BY <1>1, <1>3, StopStepsStop DEF StopBy, MoveCall, mapVars
<1>4. CASE StopQueue(c, "notifyAll") /\ UNCHANGED loopVars
  BY <1>1, <1>4, StopStepsStop DEF StopQueue, MoveCall
<1>5. CASE NotifyAll(c, "idle") /\ UNCHANGED loopVars
  BY <1>1, <1>5, StopStepsStop DEF NotifyAll, MoveCall, mapVars
<1> QED BY <1>2, <1>3, <1>4, <1>5 DEF StopStep

(* The start of the thread, before or after m_stop is initialised.         *)
LEMMA BuildWalks ==
  ASSUME LoopInv, Build
  PROVE  WalksOn(Thread) /\ Quiet /\ Offered' = Offered /\ queueStop' = queueStop
<1>1. /\ Thread \in Workers
      /\ held[Thread] # NoTask => pc[Thread] \in {"popped", "running"}
      /\ pc[Thread] = "running" => held[Thread] # NoTask
      /\ pc[Thread] \in LoopSteps /\ pc = [pc EXCEPT ![Thread] = pc[Thread]]
      /\ cvMutex \in Workers \cup {NoThread}
      /\ m_stop \in [Workers -> {Unset, Set, Clear}]
  BY ThreadIsWorker DEF LoopInv, HeldWell, LoopTypeOK, QueueTypeOK
<1>2. /\ UNCHANGED <<timeVars, mapVars, callVars, until, held, done, sample>>
      /\ cvMutex' = cvMutex /\ m_stop' \in [Workers -> {Unset, Set, Clear}]
  BY <1>1 DEF Build, StartThread, InitStop, queueVars, popVars, loopVars
<1>3. \/ pc[Thread] = "none" /\ pc' = [pc EXCEPT ![Thread] = "loop"]
      \/ pc' = [pc EXCEPT ![Thread] = pc[Thread]]
  BY <1>1 DEF Build, StartThread, InitStop, GoTo, queueVars, popVars
<1>4. WalksOn(Thread)
  BY <1>1, <1>2, <1>3 DEF WalksOn, LoopSteps
<1> QED BY <1>2, <1>4 DEF Quiet, Offered, timeVars, mapVars, callVars

(* What a step of the WorkerThread is.                                     *)
LEMMA ThreadStep ==
  ASSUME LoopInv, [Next]_vars
  PROVE  \/ UNCHANGED <<queueVars, loopVars>>
         \/ Build
         \/ Clock
         \/ \E c \in Callers :
              \/ AnySchedule(c) /\ UNCHANGED loopVars
              \/ \E t \in Tasks : Cancel(c, t) /\ UNCHANGED loopVars
              \/ QueueCall(c)
              \/ StopStep(c) \/ BeginStop(c)
         \/ WorkerStep(Thread)
<1>1. CASE UNCHANGED vars \/ Join \/ Terminated
  BY <1>1 DEF vars, Join, Terminated
<1>2. CASE Destroy
  BY <1>2, OwnerIsCaller DEF Destroy
<1>3. CASE Build \/ Work \/ ClockTick
  BY <1>3 DEF Work, ClockTick
<1>4. ASSUME NEW c \in Callers, Use(c)
      PROVE  \/ AnySchedule(c) /\ UNCHANGED loopVars
             \/ \E t \in Tasks : Cancel(c, t) /\ UNCHANGED loopVars
             \/ BeginStop(c)
  BY <1>4, QueueAssumption DEF Use, NewCall, NewCancel
<1>5. ASSUME NEW c \in Callers, Call(c)
      PROVE  QueueCall(c) \/ StopStep(c)
  BY <1>5 DEF Call
<1> QED BY <1>1, <1>2, <1>3, <1>4, <1>5 DEF Next

LEMMA ThreadMoves ==
  ASSUME LoopInv, [Next]_vars
  PROVE  LoopMoves
<1>1. CASE Build
  BY <1>1, BuildWalks, ThreadIsWorker, WalksStill DEF LoopMoves
<1>2. ASSUME NEW c \in Callers, StopStep(c) \/ BeginStop(c)
      PROVE  LoopMoves
  BY <1>2, StoppingStops, StopsStill DEF LoopMoves
<1> QED BY <1>1, <1>2, ThreadStep, UnchangedStill, ThreadIsWorker DEF LoopMoves

---------------------------------------------------------------------------
LEMMA InitThread == Init => ThreadInv
<1> SUFFICES ASSUME Init PROVE ThreadInv
  OBVIOUS
<1>1. m_stop \in [Workers -> {Unset, Set, Clear}]
  BY DEF Init
<1>2. LoopInv
  BY <1>1, InitEstablishes DEF Init
<1> QED BY <1>2 DEF ThreadInv, TypeOK, LoopInv, Init, RunLoopInit, QueueInit

(* No step reaches runFor's limit.                                         *)
LEMMA ThreadTypes ==
  ASSUME ThreadInv, [Next]_vars
  PROVE  /\ until' = until
         /\ life' \in {"none", "starting", "open", "closing", "destroyed"}
<1> USE DEF ThreadInv, TypeOK
<1>1. CASE UNCHANGED vars \/ Terminated \/ Join \/ Build
  BY <1>1 DEF vars, Terminated, Join, Build, StartThread, InitStop, queueVars, popVars
<1>2. CASE Destroy
  BY <1>2 DEF Destroy, BeginStop, popVars
<1>3. CASE ClockTick
  BY <1>3 DEF ClockTick, Clock, Tick, popVars
<1>4. CASE \E c \in Callers : Use(c) \/ Call(c)
  BY <1>4 DEF Use, NewCall, NewCancel, AnySchedule, Schedule, ScheduleAt, ScheduleAfter, BeginCall,
              BeginStop, Cancel, Call, QueueCall, CallStep, PushRefused, PushInserts, NotifyOne,
              StopStep, StopBy, StopQueue, NotifyAll, popVars
<1>5. CASE Work
  BY <1>5 DEF Work, WorkerStep, LoopStep, PopStep, TestLoop, ReadClock, CanPop, PoppedNothing,
              Invoke, Skip, Return, Finish, LockCv, TestStop, TestDue, IdleTimeout,
              ReadPopTime, TryPopFinds, TryPopFails
<1> QED BY <1>1, <1>2, <1>3, <1>4, <1>5 DEF Next

LEMMA ThreadInductive == ThreadInv /\ [Next]_vars => ThreadInv'
<1> SUFFICES ASSUME ThreadInv, [Next]_vars PROVE ThreadInv'
  OBVIOUS
<1>1. LoopInv'
  BY ThreadMoves, LoopMovesKeep DEF ThreadInv
<1> QED BY <1>1, ThreadTypes DEF ThreadInv, TypeOK, LoopInv

LEMMA ThreadInvariant == Spec => []ThreadInv
BY InitThread, ThreadInductive, PTL DEF Spec

(* Every variable of a WorkerThread keeps its type, and its thread is      *)
(* never in the time-limited pop of EventLoop::runFor.                     *)
THEOREM WorkerThreadTypeCorrect == Spec => []TypeOK
<1>1. ThreadInv => TypeOK
  BY DEF ThreadInv
<1> QED BY <1>1, ThreadInvariant, PTL

(* No task is lost or in two places, and those one thread schedules with   *)
(* the same delay leave in order: what observeOn and delay build on.       *)
THEOREM WorkerThreadKeepsTasks == Spec => [](OneOwner /\ NoneLost /\ CallerOrder)
<1>1. ThreadInv => OneOwner /\ NoneLost /\ CallerOrder
  BY DEF ThreadInv, LoopInv, Placed, Ranked, Ordered
<1> QED BY <1>1, ThreadInvariant, PTL

(* A WorkerThread implements the abstract dispatcher: earliest task first, *)
(* never before its time, once, none accepted after stop() has closed it.  *)
THEOREM WorkerThreadDispatchesInOrder == Spec => DispatchesInOrder
<1>1. Init => Promise!Init
  BY InitDispatches DEF Init
<1>2. ThreadInv /\ [Next]_vars => [Promise!Next]_(Promise!dispatchVars)
  BY ThreadMoves, LoopMovesDispatch DEF ThreadInv
<1> QED BY <1>1, <1>2, ThreadInvariant, PTL DEF Spec, DispatchesInOrder, Promise!Spec

---------------------------------------------------------------------------
(***************************************************************************)
(* The thread is the only one that takes tasks out of its queue: what      *)
(* canPop() saw is still there on every step of the way to tryPop().       *)
(***************************************************************************)
Steady ==
  /\ pc[Thread] # "asleep"
  /\ pc[Thread] \in {"lock", "test", "leave"} => Due(now) # {}
  /\ pc[Thread] \in {"testDue", "tryPop"} => Due(sample[Thread]) # {}
  /\ pc[Thread] = "popped" => held[Thread] # NoTask

LEMMA WakesSteady ==
  ASSUME LoopInv, Wakes, Steady
  PROVE  Steady'
BY ThreadIsWorker, DueStays DEF Wakes, Steady

LEMMA WorkerSteady ==
  ASSUME ThreadInv, Steady, WorkerStep(Thread)
  PROVE  Steady'
<1> USE ThreadIsWorker DEF ThreadInv, LoopInv, LoopTypeOK, QueueTypeOK
<1>1. until[Thread] = Forever
  BY DEF TypeOK
<1>2. CASE TestLoop(Thread) \/ ReadClock(Thread) \/ Skip(Thread) \/ Return(Thread) \/ Invoke(Thread)
  BY <1>1, <1>2 DEF TestLoop, ReadClock, Skip, Return, Invoke, Again, GoTo, Steady
<1>3. CASE PoppedNothing(Thread)
  BY <1>3 DEF PoppedNothing, GoTo, Steady
<1>4. CASE CanPop(Thread)
  <2>1. /\ pc'[Thread] = (IF Due(sample[Thread]) # {} THEN "lock" ELSE "loop")
        /\ Due(now)' = Due(now)
    BY <1>4 DEF CanPop, GoTo, Due, timeVars, mapVars, callVars
  <2> QED BY <2>1, SampledIsDue DEF Steady
<1>5. CASE LockCv(Thread)
  BY <1>5 DEF LockCv, GoTo, Due, timeVars, mapVars, callVars, Steady
<1>6. CASE TestStop(Thread)
  <2>1. /\ pc[Thread] = "test" /\ Due(now)' = Due(now)
        /\ \/ pc'[Thread] = "leave"
           \/ pc'[Thread] = "testDue" /\ sample'[Thread] = now /\ now' = now
    BY <1>6 DEF TestStop, GoTo, Due, timeVars, mapVars, callVars
  <2>2. Due(now) # {}
    BY <2>1 DEF Steady
  <2> QED BY <2>1, <2>2 DEF Steady, Due
<1>7. CASE TestDue(Thread)
  <2>1. /\ pc[Thread] = "testDue" /\ Due(now)' = Due(now)
        /\ pc'[Thread] = (IF Due(sample[Thread]) # {} THEN "leave" ELSE "asleep")
    BY <1>7 DEF TestDue, GoTo, Due, timeVars, mapVars, callVars
  <2>2. Due(sample[Thread]) # {} /\ Due(now) # {}
    BY <2>1, SampledIsDue DEF Steady
  <2> QED BY <2>1, <2>2 DEF Steady
<1>8. CASE IdleTimeout(Thread)
  BY <1>8 DEF IdleTimeout, GoTo, Steady
<1>9. CASE ReadPopTime(Thread)
  <2>1. /\ pc[Thread] = "leave" /\ pc'[Thread] = "tryPop" /\ sample'[Thread] = now /\ now' = now
        /\ m_schedulables' = m_schedulables /\ at' = at
    BY <1>9 DEF ReadPopTime, GoTo, timeVars, mapVars, callVars
  <2>2. Due(now) # {}
    BY <2>1 DEF Steady
  <2> QED BY <2>1, <2>2 DEF Steady, Due
<1>10. CASE TryPopFinds(Thread)
  <2>1. PICK t \in Tasks : held' = [held EXCEPT ![Thread] = t]
    BY <1>10 DEF TryPopFinds
  <2>2. pc'[Thread] = "popped" /\ held'[Thread] # NoTask
    BY <1>10, <2>1, QueueAssumption DEF TryPopFinds, GoTo
  <2> QED BY <2>2 DEF Steady
<1>11. CASE TryPopFails(Thread)
  BY <1>11 DEF TryPopFails, GoTo, Steady
<1> QED BY <1>2, <1>3, <1>4, <1>5, <1>6, <1>7, <1>8, <1>9, <1>10, <1>11
        DEF WorkerStep, LoopStep, PopStep

(* blockingPop() never blocks and never gets an empty optional, although   *)
(* the clock is read three times between canPop() and tryPop().            *)
THEOREM WorkerThreadNeverWaits == Spec => []NeverWaits
<1>1. Init => Steady
  <2> SUFFICES ASSUME Init PROVE Steady
    OBVIOUS
  <2>1. pc[Thread] = "none"
    BY ThreadIsWorker DEF Init, RunLoopInit, QueueInit
  <2> QED BY <2>1 DEF Steady
<1>2. ThreadInv /\ Steady /\ [Next]_vars => Steady'
  <2> SUFFICES ASSUME ThreadInv, Steady, [Next]_vars PROVE Steady'
    OBVIOUS
  <2>1. LoopInv
    BY DEF ThreadInv
  <2>2. CASE UNCHANGED <<queueVars, loopVars>>
    BY <2>2 DEF Steady, Due, queueVars, timeVars, mapVars, callVars, popVars
  <2>3. CASE Build
    <3>1. /\ UNCHANGED <<timeVars, mapVars, callVars, sample, held>>
          /\ pc'[Thread] \in {pc[Thread], "loop"}
      BY <2>1, <2>3, ThreadIsWorker DEF Build, StartThread, InitStop, GoTo, queueVars, popVars,
                                        LoopInv, LoopTypeOK, QueueTypeOK
    <3> QED BY <3>1 DEF Steady, Due, timeVars, mapVars, callVars
  <2>4. CASE Clock
    BY <2>1, <2>4, ClockWakes, WakesSteady
  <2>5. ASSUME NEW c \in Callers, AnySchedule(c) \/ QueueCall(c)
        PROVE  Steady'
    BY <2>1, <2>5, AnyScheduleWakes, QueueCallWakes, WakesSteady
  <2>6. ASSUME NEW c \in Callers, NEW t \in Tasks, Cancel(c, t)
        PROVE  Steady'
    BY <2>6 DEF Cancel, Steady, Due, timeVars, mapVars, popVars
  <2>7. ASSUME NEW c \in Callers, StopStep(c) \/ BeginStop(c)
        PROVE  Steady'
    BY <2>1, <2>7, StoppingStops, StopsWakes, WakesSteady
  <2>8. CASE WorkerStep(Thread)
    BY <2>8, WorkerSteady
  <2> QED BY <2>1, <2>2, <2>3, <2>4, <2>5, <2>6, <2>7, <2>8, ThreadStep
<1>3. Steady => NeverWaits
  BY DEF Steady, NeverWaits
<1> QED BY <1>1, <1>2, <1>3, ThreadInvariant, PTL DEF Spec

=============================================================================
