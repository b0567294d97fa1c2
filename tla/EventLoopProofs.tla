-------------------------- MODULE EventLoopProofs --------------------------
(***************************************************************************)
(* The theorems about EventLoop, for any number of tasks and clients, any  *)
(* threads that stop it and any bound on the clock: what it shares with    *)
(* the other schedulers, and that runFor() does not come back too early.   *)
(***************************************************************************)
EXTENDS EventLoop, RunLoopProofs

HostInv == LoopInv /\ TypeOK

LEMMA HostIsWorker == Host \in Workers /\ Workers = {Host} /\ Host \in Callers
BY EventLoopAssumption DEF Callers

LEMMA StoppingStops ==
  ASSUME LoopInv, NEW c \in Callers, StopStep(c) \/ BeginStop(c)
  PROVE  Stops(c) /\ step[c] # "push" /\ queueStop' \in {queueStop, TRUE}
<1>1. {"setStop", "queueStop", "notifyAll", "idle"} \subseteq CallSteps \ {"push"}
  BY DEF CallSteps
<1>2. CASE BeginStop(c)
  <2>1. /\ MoveCall(c, "idle", "queueStop")
        /\ UNCHANGED <<timeVars, mapVars, popVars, loopVars>>
    BY <1>2 DEF BeginStop, MoveCall
  <2> QED BY <1>1, <2>1, StopStepsStop DEF MoveCall, mapVars
<1>3. CASE StopBy(c, "setStop", "idle", Workers)
  BY <1>1, <1>3, StopStepsStop DEF StopBy, MoveCall, mapVars
<1>4. CASE StopQueue(c, "notifyAll") /\ UNCHANGED loopVars
  BY <1>1, <1>4, StopStepsStop DEF StopQueue, MoveCall
<1>5. CASE NotifyAll(c, "setStop") /\ UNCHANGED loopVars
  BY <1>1, <1>5, StopStepsStop DEF NotifyAll, MoveCall, mapVars
<1> QED BY <1>2, <1>3, <1>4, <1>5 DEF StopStep

(* run() and runFor() begin, and the steps of runFor()'s own loop: the     *)
(* host holds no task in any of them, and its limit changes in some.       *)
LEMMA HostStill ==
  ASSUME HostInv, Run \/ RunFor \/ ForStep
  PROVE  Still /\ deadline' \in Time /\ m_stop' = m_stop
<1> USE HostIsWorker, QueueAssumption DEF HostInv, LoopInv, LoopTypeOK, QueueTypeOK
<1>1. /\ UNCHANGED <<timeVars, mapVars, callVars, cvMutex, held, loopVars>>
      /\ deadline' \in Time
  <2>1. CASE Run \/ ForStep
    BY <2>1 DEF Run, ForStep, ForTest, ForNow, ForPop, ForNothing, TypeOK
  <2>2. CASE RunFor
    BY <2>2 DEF RunFor, Time
  <2> QED BY <2>1, <2>2
<1>2. held[Host] = NoTask
  BY DEF Run, RunFor, Returned, ForStep, ForTest, ForNow, ForPop, ForNothing, GoTo, HeldWell
<1>3. \E s \in LoopSteps \ {"running"} : pc' = [pc EXCEPT ![Host] = s]
  BY DEF Run, RunFor, ForStep, ForTest, ForNow, ForPop, ForNothing, GoTo, LoopSteps
<1>4. sample' = sample \/ sample' = [sample EXCEPT ![Host] = now]
  BY DEF Run, RunFor, ForStep, ForTest, ForNow, ForPop, ForNothing
<1>5. until' \in [Workers -> Time \cup {Forever}]
  <2>1. CASE Run
    BY <2>1 DEF Run
  <2>2. CASE RunFor
    BY <1>1, <2>2 DEF RunFor
  <2>3. CASE ForPop
    <3>1. /\ MaxTime \in Time /\ deadline \in Time
          /\ now \in Time /\ sample[Host] \in Time /\ sample[Host] <= now
      BY DEF TypeOK, Time, Stamped
    <3>2. Capped(now + (deadline - sample[Host])) \in Time
      BY <3>1 DEF Capped, Time
    <3> QED BY <2>3, <3>2 DEF ForPop
  <2>4. CASE ForTest \/ ForNow \/ ForNothing
    BY <2>4 DEF ForTest, ForNow, ForNothing
  <2> QED BY <2>1, <2>2, <2>3, <2>4 DEF ForStep
<1>6. LoopTypeOK'
  BY <1>1, <1>3, <1>4, <1>5 DEF timeVars, mapVars, callVars, loopVars
<1>7. HeldWell'
  BY <1>1, <1>2, <1>3 DEF HeldWell
<1>8. Quiet /\ Offered' = Offered /\ queueStop' = queueStop
  BY <1>1, <1>4 DEF Quiet, Offered, timeVars, mapVars, callVars, loopVars
<1> QED BY <1>1, <1>6, <1>7, <1>8 DEF Still, loopVars

(* What a step of the EventLoop is.                                        *)
LEMMA HostStep ==
  ASSUME [Next]_vars
  PROVE  \/ UNCHANGED vars
         \/ Run \/ RunFor \/ ForStep
         \/ /\ UNCHANGED deadline
            /\ \/ Clock
               \/ \E c \in Callers :
                    \/ AnySchedule(c) /\ UNCHANGED loopVars
                    \/ \E t \in Tasks : Cancel(c, t) /\ UNCHANGED loopVars
                    \/ QueueCall(c)
                    \/ StopStep(c) \/ BeginStop(c)
               \/ WorkerStep(Host)
BY QueueAssumption DEF Next, Work, ClockTick, Use, Call, NewCancel

LEMMA HostMoves ==
  ASSUME HostInv, [Next]_vars
  PROVE  LoopMoves
<1>1. LoopInv
  BY DEF HostInv
<1>2. CASE UNCHANGED vars
  BY <1>1, <1>2, UnchangedStill DEF vars, LoopMoves
<1>3. CASE Run \/ RunFor \/ ForStep
  BY <1>3, HostStill DEF LoopMoves
<1>4. ASSUME NEW c \in Callers, StopStep(c) \/ BeginStop(c)
      PROVE  LoopMoves
  BY <1>1, <1>4, StoppingStops, StopsStill DEF LoopMoves
<1> QED BY <1>2, <1>3, <1>4, HostStep, HostIsWorker DEF LoopMoves

---------------------------------------------------------------------------
LEMMA InitHost == Init => HostInv
<1> SUFFICES ASSUME Init PROVE HostInv
  OBVIOUS
<1>1. m_stop \in [Workers -> {Unset, Set, Clear}] /\ m_stop[Host] = Clear
  BY HostIsWorker DEF Init
<1>2. LoopInv
  BY <1>1, InitEstablishes DEF Init
<1>3. Clear # Unset
  BY DEF Clear, Unset
<1>4. deadline \in Time
  BY QueueAssumption DEF Init, Time
<1> QED BY <1>1, <1>2, <1>3, <1>4 DEF HostInv, TypeOK, LoopInv

LEMMA HostTypes ==
  ASSUME HostInv, [Next]_vars
  PROVE  m_stop'[Host] # Unset /\ deadline' \in Time
<1> USE HostIsWorker DEF HostInv, TypeOK
<1>1. CASE UNCHANGED vars
  BY <1>1 DEF vars, loopVars
<1>2. CASE Run \/ RunFor \/ ForStep
  BY <1>2, HostStill
<1>3. ASSUME NEW c \in Callers,
             \/ AnySchedule(c) /\ UNCHANGED loopVars
             \/ \E t \in Tasks : Cancel(c, t) /\ UNCHANGED loopVars
             \/ QueueCall(c)
      PROVE  m_stop' = m_stop
  BY <1>3 DEF QueueCall, loopVars
<1>4. ASSUME NEW c \in Callers, StopStep(c) \/ BeginStop(c)
      PROVE  m_stop'[Host] # Unset
  <2>1. Set # Unset
    BY DEF Set, Unset
  <2>2. m_stop' = m_stop \/ m_stop' = [w \in Workers |-> IF w \in Workers THEN Set ELSE m_stop[w]]
    BY <1>4 DEF StopStep, StopBy, BeginStop, loopVars
  <2> QED BY <2>1, <2>2
<1>5. ASSUME WorkerStep(Host)
      PROVE  m_stop' = m_stop
  BY <1>5 DEF WorkerStep, LoopStep, TestLoop, ReadClock, CanPop, PoppedNothing, Invoke, Skip,
              Return, Finish, loopVars
<1>6. ASSUME Clock
      PROVE  m_stop' = m_stop
  BY <1>6 DEF Clock, loopVars
<1> QED BY <1>1, <1>2, <1>3, <1>4, <1>5, <1>6, HostStep

LEMMA HostInductive == HostInv /\ [Next]_vars => HostInv'
<1> SUFFICES ASSUME HostInv, [Next]_vars PROVE HostInv'
  OBVIOUS
<1>1. LoopInv'
  BY HostMoves, LoopMovesKeep DEF HostInv
<1> QED BY <1>1, HostTypes DEF HostInv, TypeOK, LoopInv

LEMMA HostInvariant == Spec => []HostInv
BY InitHost, HostInductive, PTL DEF Spec

(* Every variable of an EventLoop keeps its type; its m_stop is set before *)
(* any thread can run it.                                                  *)
THEOREM EventLoopTypeCorrect == Spec => []TypeOK
<1>1. HostInv => TypeOK
  BY DEF HostInv
<1> QED BY <1>1, HostInvariant, PTL

(* No task is lost or in two places, through any mix of run() and runFor() *)
(* and whichever of them gives up on an empty optional.                    *)
THEOREM EventLoopNoneLost == Spec => []NoneLost
<1>1. HostInv => NoneLost
  BY DEF HostInv, LoopInv, Ranked
<1> QED BY <1>1, HostInvariant, PTL

(* An EventLoop implements the abstract dispatcher: earliest task first,   *)
(* never before its time, once, none accepted after stop() has closed it.  *)
THEOREM EventLoopDispatchesInOrder == Spec => DispatchesInOrder
<1>1. Init => Promise!Init
  BY InitDispatches DEF Init
<1>2. HostInv /\ [Next]_vars => [Promise!Next]_(Promise!dispatchVars)
  BY HostMoves, LoopMovesDispatch DEF HostInv
<1> QED BY <1>1, <1>2, HostInvariant, PTL DEF Spec, DispatchesInOrder, Promise!Spec

---------------------------------------------------------------------------
(***************************************************************************)
(* runFor() ends by m_stop, by its own look at the clock, or because pop() *)
(* gave it nothing.  The last is the hard one: the limit of the pop is     *)
(* computed from a sample older than the clock pop() adds it to, so it is  *)
(* not before the deadline, and a due task the wait ended for is still     *)
(* there when tryPop() looks, since nobody else takes any.                 *)
(***************************************************************************)
Over == queueStop \/ deadline <= now

Lasting ==
  /\ \A c \in Callers : step[c] \in {"notifyAll", "setStop"} => queueStop
  /\ m_stop[Host] = Set => queueStop
  /\ until[Host] # Forever =>
       /\ deadline <= until[Host]
       /\ pc[Host] = "leave"  => Over \/ Due(now) # {}
       /\ pc[Host] = "tryPop" => Over \/ Due(sample[Host]) # {}
       /\ pc[Host] = "popped" => Over \/ held[Host] # NoTask

(* The steps of other threads and of the clock.                            *)
LEMMA WakesLasting ==
  ASSUME HostInv, Lasting, Wakes, deadline' = deadline, until' = until,
         m_stop' = m_stop, queueStop => queueStop',
         \A c \in Callers : step'[c] \in {"notifyAll", "setStop"} =>
           step[c] \in {"notifyAll", "setStop"} \/ queueStop'
  PROVE  Lasting'
<1> USE HostIsWorker DEF HostInv, LoopInv, LoopTypeOK, QueueTypeOK
<1>1. Over => Over'
  BY QueueAssumption DEF Over, Wakes, Grows, TypeOK, Time
<1>2. /\ pc'[Host] \in {"leave", "tryPop", "popped"} => pc[Host] = pc'[Host]
      /\ held'[Host] = held[Host]
      /\ Due(now) # {} => Due(now)' # {}
      /\ Due(sample[Host]) # {} => Due(sample[Host])' # {}
  BY DueStays DEF Wakes
<1> QED BY <1>1, <1>2 DEF Lasting

LEMMA StoppingLasting ==
  ASSUME HostInv, Lasting, NEW c \in Callers, StopStep(c) \/ BeginStop(c), deadline' = deadline
  PROVE  Lasting'
<1> USE HostIsWorker DEF HostInv, LoopInv, LoopTypeOK, QueueTypeOK
<1>1. Wakes
  BY StoppingStops, StopsWakes
<1>2. CASE StopBy(c, "setStop", "idle", Workers)
  <2>1. /\ queueStop /\ queueStop' /\ until' = until
        /\ \A e \in Callers : step'[e] \in {step[e], "idle"}
    BY <1>2 DEF StopBy, MoveCall, Lasting, mapVars, popVars
  <2> QED BY <2>1 DEF Lasting, Over
<1>3. CASE StopQueue(c, "notifyAll") /\ UNCHANGED loopVars
  <2>1. /\ queueStop' /\ until' = until /\ m_stop' = m_stop
        /\ \A e \in Callers : step'[e] \in {step[e], "notifyAll"}
    BY <1>3 DEF StopQueue, MoveCall, popVars, loopVars
  <2> QED BY <1>1, <2>1, WakesLasting
<1>4. CASE NotifyAll(c, "setStop") /\ UNCHANGED loopVars
  <2>1. /\ queueStop' = queueStop /\ until' = until /\ m_stop' = m_stop
        /\ step[c] = "notifyAll" /\ \A e \in Callers \ {c} : step'[e] = step[e]
    BY <1>4 DEF NotifyAll, MoveCall, mapVars, loopVars
  <2>2. queueStop
    BY <2>1 DEF Lasting
  <2> QED BY <1>1, <2>1, <2>2, WakesLasting
<1>5. CASE BeginStop(c)
  <2>1. /\ queueStop' = queueStop /\ until' = until /\ m_stop' = m_stop
        /\ \A e \in Callers : step'[e] \in {step[e], "queueStop"}
    BY <1>5 DEF BeginStop, mapVars, popVars, loopVars
  <2> QED BY <1>1, <2>1, WakesLasting
<1> QED BY <1>2, <1>3, <1>4, <1>5 DEF StopStep

(* The steps of the host.                                                  *)
LEMMA HostLasting ==
  ASSUME HostInv, Lasting, Run \/ RunFor \/ ForStep
  PROVE  Lasting'
<1> USE HostIsWorker, QueueAssumption DEF HostInv, LoopInv, LoopTypeOK, QueueTypeOK
<1>1. queueStop' = queueStop /\ m_stop' = m_stop /\ step' = step
  BY DEF Run, RunFor, ForStep, ForTest, ForNow, ForPop, ForNothing, mapVars, callVars, loopVars
<1>2. pc'[Host] \notin {"leave", "tryPop", "popped"}
  BY DEF Run, RunFor, ForStep, ForTest, ForNow, ForPop, ForNothing, GoTo
<1>3. until'[Host] # Forever => deadline' <= until'[Host]
  <2>1. CASE Run
    BY <2>1 DEF Run
  <2>2. CASE RunFor
    <3>1. deadline' \in Int /\ until'[Host] = deadline'
      BY <2>2 DEF RunFor, Time
    <3> QED BY <3>1
  <2>3. CASE ForPop
    <3>1. /\ deadline \in Int /\ now \in Int /\ sample[Host] \in Int /\ MaxTime \in Int
          /\ sample[Host] <= now /\ deadline <= MaxTime
      BY DEF TypeOK, Time, Stamped
    <3>2. deadline <= Capped(now + (deadline - sample[Host]))
      BY <3>1 DEF Capped
    <3> QED BY <2>3, <3>2 DEF ForPop
  <2>4. CASE ForTest \/ ForNow \/ ForNothing
    BY <2>4 DEF ForTest, ForNow, ForNothing, Lasting
  <2> QED BY <2>1, <2>2, <2>3, <2>4 DEF ForStep
<1> QED BY <1>1, <1>2, <1>3 DEF Lasting

LEMMA WorkerLasting ==
  ASSUME HostInv, Lasting, WorkerStep(Host), deadline' = deadline
  PROVE  Lasting'
<1> USE HostIsWorker, QueueAssumption DEF HostInv, LoopInv, LoopTypeOK, QueueTypeOK
<1>1. /\ queueStop' = queueStop /\ m_stop' = m_stop /\ step' = step /\ until' = until
      /\ now' = now /\ at' = at
  BY DEF WorkerStep, LoopStep, PopStep, TestLoop, ReadClock, CanPop, PoppedNothing, Invoke, Skip,
         Return, Finish, LockCv, TestStop, TestDue, IdleTimeout, ReadPopTime, TryPopFinds,
         TryPopFails, timeVars, mapVars, callVars, loopVars
<1>2. Over' = Over
  BY <1>1 DEF Over
<1> SUFFICES ASSUME until[Host] # Forever
             PROVE  /\ pc'[Host] = "leave"  => Over \/ Due(now)' # {}
                    /\ pc'[Host] = "tryPop" => Over \/ Due(sample[Host])' # {}
                    /\ pc'[Host] = "popped" => Over \/ held'[Host] # NoTask
  BY <1>1, <1>2 DEF Lasting
<1>3. CASE LoopStep(Host)
  BY <1>3 DEF LoopStep, TestLoop, ReadClock, CanPop, PoppedNothing, Invoke, Skip, Return, Again, GoTo
<1>4. CASE LockCv(Host) \/ IdleTimeout(Host)
  BY <1>4 DEF LockCv, IdleTimeout, GoTo
<1>5. CASE TestStop(Host)
  <2>1. /\ pc'[Host] \in {"leave", "testDue"}
        /\ pc'[Host] = "leave" => queueStop \/ until[Host] <= now
    BY <1>5 DEF TestStop, TimedOut, GoTo
  <2>2. until[Host] <= now => deadline <= now
    <3>1. deadline \in Int /\ until[Host] \in Int /\ now \in Int /\ deadline <= until[Host]
      BY DEF Lasting, TypeOK, Time
    <3> QED BY <3>1
  <2> QED BY <2>1, <2>2 DEF Over
<1>6. CASE TestDue(Host)
  <2>1. /\ pc'[Host] = (IF Due(sample[Host]) # {} THEN "leave" ELSE "asleep")
        /\ Due(now)' = Due(now)
    BY <1>1, <1>6 DEF TestDue, GoTo, Due, mapVars
  <2> QED BY <2>1, SampledIsDue
<1>7. CASE ReadPopTime(Host)
  <2>1. /\ pc[Host] = "leave" /\ pc'[Host] = "tryPop" /\ sample'[Host] = now
        /\ m_schedulables' = m_schedulables
    BY <1>7 DEF ReadPopTime, GoTo, mapVars
  <2>2. Due(sample[Host])' = Due(now)
    BY <1>1, <2>1 DEF Due
  <2> QED BY <2>1, <2>2 DEF Lasting
<1>8. CASE TryPopFinds(Host)
  <2>1. PICK t \in Tasks : held' = [held EXCEPT ![Host] = t]
    BY <1>8 DEF TryPopFinds
  <2>2. pc'[Host] = "popped" /\ held'[Host] # NoTask
    BY <1>8, <2>1 DEF TryPopFinds, GoTo
  <2> QED BY <2>2
<1>9. CASE TryPopFails(Host)
  BY <1>9 DEF TryPopFails, GoTo, Lasting
<1> QED BY <1>3, <1>4, <1>5, <1>6, <1>7, <1>8, <1>9 DEF WorkerStep, PopStep

LEMMA LastingInductive == HostInv /\ Lasting /\ [Next]_vars => Lasting'
<1> SUFFICES ASSUME HostInv, Lasting, [Next]_vars PROVE Lasting'
  OBVIOUS
<1>0. LoopInv
  BY DEF HostInv
<1>1. CASE UNCHANGED vars
  BY <1>1 DEF vars, Lasting, Over, Due, queueVars, timeVars, mapVars, callVars, popVars, loopVars
<1>2. CASE Run \/ RunFor \/ ForStep
  BY <1>2, HostLasting
<1>3. CASE Clock /\ UNCHANGED deadline
  <2>1. UNCHANGED <<until, m_stop, queueStop, step>>
    BY <1>3 DEF Clock, Tick, mapVars, callVars, popVars, loopVars
  <2> QED BY <1>0, <1>3, <2>1, ClockWakes, WakesLasting
<1>4. ASSUME NEW c \in Callers, AnySchedule(c) /\ UNCHANGED loopVars, UNCHANGED deadline
      PROVE  Lasting'
  <2>1. /\ UNCHANGED <<until, m_stop, queueStop>>
        /\ \A e \in Callers : step'[e] \in {step[e], "push"}
    BY <1>0, <1>4 DEF AnySchedule, Schedule, ScheduleAt, ScheduleAfter, BeginCall,
                      mapVars, popVars, loopVars, LoopInv, LoopTypeOK, QueueTypeOK
  <2> QED BY <1>0, <1>4, <2>1, AnyScheduleWakes, WakesLasting
<1>5. ASSUME NEW c \in Callers, QueueCall(c), UNCHANGED deadline
      PROVE  Lasting'
  <2>1. /\ UNCHANGED <<until, m_stop, queueStop>>
        /\ \A e \in Callers : step'[e] \in {step[e], "idle", "notify"}
    BY <1>0, <1>5 DEF QueueCall, CallStep, PushRefused, PushInserts, NotifyOne,
                      mapVars, popVars, loopVars, LoopInv, LoopTypeOK, QueueTypeOK
  <2> QED BY <1>0, <1>5, <2>1, QueueCallWakes, WakesLasting
<1>6. ASSUME NEW c \in Callers, NEW t \in Tasks, Cancel(c, t) /\ UNCHANGED loopVars,
             UNCHANGED deadline
      PROVE  Lasting'
  BY <1>6 DEF Cancel, Lasting, Over, Due, timeVars, mapVars, popVars, loopVars
<1>7. ASSUME NEW c \in Callers, StopStep(c) \/ BeginStop(c), UNCHANGED deadline
      PROVE  Lasting'
  BY <1>7, StoppingLasting
<1>8. CASE WorkerStep(Host) /\ UNCHANGED deadline
  BY <1>8, WorkerLasting
<1> QED BY <1>1, <1>2, <1>3, <1>4, <1>5, <1>6, <1>7, <1>8, HostStep

(* runFor() lasts at least as long as it was asked to, unless stop() has   *)
(* begun, however late each of its clock values is used.                   *)
THEOREM RunForLastsLongEnough == Spec => LastsLongEnough
<1>1. Init => Lasting
  <2> SUFFICES ASSUME Init PROVE Lasting
    OBVIOUS
  <2>1. m_stop[Host] = Clear /\ until[Host] = Forever /\ \A c \in Callers : step[c] = "idle"
    BY HostIsWorker DEF Init, RunLoopInit, QueueInit
  <2> QED BY <2>1 DEF Lasting, Set, Clear
<1>2. HostInv /\ Lasting /\ [Next]_vars =>
        (~Returned /\ until[Host] # Forever /\ Returned' => deadline <= now \/ queueStop)
  <2> SUFFICES ASSUME HostInv, Lasting, [Next]_vars,
                      ~Returned, until[Host] # Forever, Returned'
               PROVE  deadline <= now \/ queueStop
    OBVIOUS
  <2> USE HostIsWorker DEF HostInv, LoopInv, LoopTypeOK, QueueTypeOK
  <2>1. pc'[Host] \in {"none", "exit"} /\ pc[Host] \notin {"none", "exit"}
    BY DEF Returned
  <2>2. m_stop[Host] \in {Set, Clear} /\ (m_stop[Host] = Set => queueStop)
    BY DEF TypeOK, Lasting
  <2>3. ASSUME NEW stop \in m_stop[Host], stop
         PROVE  queueStop
    BY <2>2, <2>3 DEF Clear
  <2>4. CASE Run \/ RunFor \/ ForPop
    BY <2>1, <2>4 DEF Run, RunFor, ForPop, GoTo
  <2>5. CASE ForTest
    <3>1. PICK stop \in m_stop[Host] :
                 pc' = [pc EXCEPT ![Host] = IF stop THEN "exit" ELSE "forNow"]
      BY <2>5 DEF ForTest, GoTo
    <3>2. stop
      BY <2>1, <3>1
    <3> QED BY <2>3, <3>2
  <2>6. CASE ForNow
    BY <2>1, <2>6 DEF ForNow, GoTo
  <2>7. CASE ForNothing
    BY <2>7 DEF ForNothing, GoTo, Lasting, Over
  <2>8. CASE WorkerStep(Host)
    <3>1. CASE TestLoop(Host)
      <4>1. PICK stop \in m_stop[Host] :
                   pc' = [pc EXCEPT ![Host] = IF stop THEN "exit" ELSE "inner"]
        BY <3>1 DEF TestLoop, GoTo
      <4>2. stop
        BY <2>1, <4>1
      <4> QED BY <2>3, <4>2
    <3> QED BY <2>1, <2>8, <3>1
            DEF WorkerStep, LoopStep, PopStep, ReadClock, CanPop, PoppedNothing, Invoke, Skip,
                Return, Again, LockCv, TestStop, TestDue, IdleTimeout, ReadPopTime, TryPopFinds,
                TryPopFails, GoTo
  <2>9. ASSUME pc'[Host] = pc[Host] \/ (pc[Host] = "asleep" /\ pc'[Host] = "lock")
        PROVE  FALSE
    BY <2>1, <2>9
  <2>10. CASE UNCHANGED vars
    BY <2>9, <2>10 DEF vars, queueVars, popVars
  <2>11. CASE Clock
    BY <2>9, <2>11, ClockWakes DEF Wakes
  <2>12. ASSUME NEW c \in Callers,
                \/ AnySchedule(c) \/ QueueCall(c) \/ StopStep(c) \/ BeginStop(c)
                \/ \E t \in Tasks : Cancel(c, t)
         PROVE  FALSE
    <3>1. CASE \E t \in Tasks : Cancel(c, t)
      BY <2>9, <3>1 DEF Cancel, popVars
    <3> QED BY <2>9, <2>12, <3>1, AnyScheduleWakes, QueueCallWakes, StoppingStops, StopsWakes
            DEF Wakes
  <2> QED BY <2>4, <2>5, <2>6, <2>7, <2>8, <2>10, <2>11, <2>12, HostStep DEF ForStep
<1>3. HostInv /\ Lasting /\ [Next]_vars =>
        [~Returned /\ until[Host] # Forever /\ Returned' => deadline <= now \/ queueStop]_vars
  BY <1>2
<1> QED BY <1>1, <1>3, LastingInductive, HostInvariant, PTL DEF Spec, LastsLongEnough

=============================================================================
