--------------------------- MODULE RunLoopProofs ---------------------------
(***************************************************************************)
(* LoopInv is kept by every step of the queue and of the loop: the lemmas  *)
(* the proofs about ThreadPool, WorkerThread and EventLoop rest on.  The   *)
(* steps that move no task are quiet, and one lemma serves them all; the   *)
(* others, the clock, the begin of a call, an insertion, a pop and the end *)
(* of a task, have a lemma each.                                           *)
(***************************************************************************)
EXTENDS RunLoop, TLAPS

(* The steps that leave every task where it is.                            *)
Quiet ==
  /\ UNCHANGED <<now, m_schedulables, at, no, inserted, by, delay, held, done>>
  /\ \A c \in Callers : step'[c] = "push" => step[c] = "push" /\ arg'[c] = arg[c]
  /\ \A w \in Workers : sample'[w] = sample[w] \/ sample'[w] = now

(* A quiet step keeps the invariant: no task changes its place.            *)
LEMMA QuietKeeps ==
  ASSUME LoopInv, Quiet, LoopTypeOK', HeldWell'
  PROVE  LoopInv'
<1>1. /\ Taken' = Taken /\ Accepted' = Accepted /\ Offered' \subseteq Offered
      /\ now' = now /\ m_schedulables' = m_schedulables /\ done' = done
      /\ at' = at /\ no' = no /\ inserted' = inserted
      /\ by' = by /\ delay' = delay /\ held' = held
  BY DEF Quiet, Taken, Accepted, Offered
<1>2. Placed'
  BY <1>1 DEF LoopInv, Placed, OneOwner, Quiet
<1>3. Ranked'
  BY <1>1 DEF LoopInv, Ranked, NoneLost
<1>4. Stamped'
  BY <1>1 DEF LoopInv, Stamped, Quiet, LoopTypeOK, QueueTypeOK, Time
<1>5. Ordered'
  BY <1>1 DEF LoopInv, Ordered, CallerOrder, Alike
<1> QED BY <1>2, <1>3, <1>4, <1>5 DEF LoopInv

(* Time passes: the stamps only get older.                                 *)
LEMMA TickKeeps ==
  ASSUME LoopInv, Clock
  PROVE  LoopInv'
<1>1. /\ now' \in Time /\ now <= now'
      /\ UNCHANGED <<mapVars, callVars, popVars, loopVars>>
  BY QueueAssumption DEF Clock, Tick, LoopInv, LoopTypeOK, QueueTypeOK, Time
<1>2. /\ Taken' = Taken /\ Accepted' = Accepted /\ Offered' = Offered
  BY <1>1 DEF Taken, Accepted, Offered, mapVars, callVars, popVars, loopVars
<1>3. LoopTypeOK' /\ HeldWell'
  BY <1>1 DEF LoopInv, LoopTypeOK, QueueTypeOK, HeldWell, mapVars, callVars, popVars, loopVars
<1>4. Placed' /\ Ranked' /\ Ordered'
  BY <1>1, <1>2 DEF LoopInv, Placed, OneOwner, Ranked, NoneLost, Ordered, CallerOrder,
                    Alike, mapVars, callVars, popVars, loopVars
<1>5. Stamped'
  <2>1. \A w \in Workers : sample'[w] <= now'
    BY <1>1 DEF LoopInv, Stamped, LoopTypeOK, QueueTypeOK, Time, popVars
  <2>2. ASSUME NEW t \in Tasks, by'[t] # NoThread, delay'[t] # Absolute
        PROVE  at'[t] <= now' + delay'[t]
    <3>1. at[t] <= now + delay[t] /\ at'[t] = at[t] /\ delay'[t] = delay[t]
      BY <1>1, <2>2 DEF LoopInv, Stamped, callVars
    <3>2. at[t] \in Int /\ delay[t] \in Int /\ now \in Int /\ now' \in Int
      BY <1>1, QueueAssumption DEF LoopInv, LoopTypeOK, QueueTypeOK, Time, Absolute
    <3> QED BY <1>1, <3>1, <3>2
  <2> QED BY <2>1, <2>2 DEF Stamped
<1> QED BY <1>3, <1>4, <1>5 DEF LoopInv

---------------------------------------------------------------------------
(***************************************************************************)
(* schedule()                                                              *)
(***************************************************************************)

(* Beginning a call fixes the time point: it is not earlier than that of a *)
(* task the same thread offered before with the same delay.                *)
LEMMA BeginCallKeeps ==
  ASSUME LoopInv, UNCHANGED loopVars,
         NEW c \in Callers, NEW t \in Tasks, NEW p \in Time, NEW d \in Time \cup {Absolute},
         d # Absolute => p = now + d,
         BeginCall(c, t, p, d)
  PROVE  LoopInv'
<1> USE DEF LoopInv
<1>1. /\ step[c] = "idle" /\ by[t] = NoThread /\ UNCHANGED <<timeVars, mapVars, popVars, loopVars>>
      /\ by' = [by EXCEPT ![t] = c] /\ at' = [at EXCEPT ![t] = p]
      /\ delay' = [delay EXCEPT ![t] = d]
      /\ step' = [step EXCEPT ![c] = "push"] /\ arg' = [arg EXCEPT ![c] = t]
      /\ m_canceled' = m_canceled
  BY DEF BeginCall
<1>2. LoopTypeOK' /\ HeldWell'
  BY <1>1 DEF LoopTypeOK, QueueTypeOK, HeldWell, CallSteps,
              timeVars, mapVars, popVars, loopVars
<1>3. /\ Accepted' = Accepted /\ Taken' = Taken /\ t \notin Accepted /\ t \notin Offered
      /\ \A u \in Tasks : u # t => by'[u] = by[u] /\ at'[u] = at[u] /\ delay'[u] = delay[u]
      /\ by'[t] = c /\ at'[t] = p /\ delay'[t] = d
      /\ Accepted \subseteq Tasks /\ Offered \subseteq Tasks
  <2>1. Accepted' = Accepted /\ Taken' = Taken
    BY <1>1 DEF Accepted, Taken, mapVars, popVars, loopVars
  <2>2. t \notin Accepted
    BY <1>1 DEF Placed
  <2>3. t \notin Offered
    BY <1>1, QueueAssumption DEF Placed, Offered, Callers
  <2>4. Accepted \subseteq Tasks /\ Offered \subseteq Tasks
    BY DEF Accepted, Taken, Offered, Placed, LoopTypeOK, QueueTypeOK
  <2> QED BY <1>1, <2>1, <2>2, <2>3, <2>4 DEF LoopTypeOK, QueueTypeOK
<1>4. Offered' \subseteq Offered \cup {t}
  BY <1>1 DEF Offered, LoopTypeOK, QueueTypeOK
<1>5. Placed'
  <2>1. OneOwner'
    BY <1>1, <1>3, <1>4 DEF Placed, OneOwner, mapVars, popVars, loopVars
  <2>2. \A e \in Callers : step'[e] = "push" => arg'[e] \in Tasks /\ by'[arg'[e]] = e
    BY <1>1, <1>3, QueueAssumption DEF Placed, LoopTypeOK, QueueTypeOK, Callers
  <2>3. \A u \in Accepted' : by'[u] # NoThread
    BY <1>3 DEF Placed
  <2> QED BY <2>1, <2>2, <2>3 DEF Placed
<1>6. Ranked'
  BY <1>1, <1>3 DEF Ranked, NoneLost, mapVars
<1>7. Stamped'
  BY <1>1, <1>3, QueueAssumption
     DEF Stamped, timeVars, popVars, Time, Absolute, LoopTypeOK, QueueTypeOK
<1>8. Ordered'
  <2>1. \A u, v \in Accepted' : Alike(u, v)' <=> Alike(u, v)
    BY <1>3 DEF Alike
  <2>2. no' = no /\ m_schedulables' = m_schedulables
    BY <1>1 DEF mapVars
  <2>3. \A u, v \in Accepted' : Alike(u, v)' /\ no'[u] < no'[v] => at'[u] <= at'[v]
    BY <1>3, <2>1, <2>2 DEF Ordered
  <2>4. CallerOrder'
    BY <1>3, <2>1, <2>2 DEF Ordered, CallerOrder
  <2>5. ASSUME NEW u \in Accepted', NEW v \in Offered', Alike(u, v)'
        PROVE  at'[u] <= at'[v]
    <3>1. CASE v = t
      <4>1. at[u] <= now + delay[u] /\ delay[u] = d /\ d # Absolute
        BY <1>3, <2>5, <3>1 DEF Placed, Stamped, Alike
      <4> QED BY <1>3, <2>5, <3>1, <4>1
    <3>2. CASE v # t
      BY <1>3, <1>4, <2>5, <3>2 DEF Ordered, Alike
    <3> QED BY <3>1, <3>2
  <2> QED BY <2>3, <2>4, <2>5 DEF Ordered
<1> QED BY <1>2, <1>5, <1>6, <1>7, <1>8

(* Each overload of schedule() begins such a call.                         *)
LEMMA AnyScheduleKeeps ==
  ASSUME LoopInv, UNCHANGED loopVars, NEW c \in Callers, AnySchedule(c)
  PROVE  LoopInv'
<1>1. now \in Time /\ MaxTime \in Nat
  BY QueueAssumption DEF LoopInv, LoopTypeOK, QueueTypeOK
<1>2. PICK t \in Tasks : Schedule(c, t) \/ ScheduleAt(c, t) \/ ScheduleAfter(c, t)
  BY DEF AnySchedule
<1>3. CASE Schedule(c, t)
  <2>1. BeginCall(c, t, now, 0) /\ 0 \in Time /\ now = now + 0
    BY <1>1, <1>3 DEF Schedule, Time
  <2> QED BY <1>1, <2>1, BeginCallKeeps
<1>4. CASE ScheduleAt(c, t)
  <2>1. PICK p \in Time : BeginCall(c, t, p, Absolute)
    BY <1>4 DEF ScheduleAt
  <2> QED BY <2>1, BeginCallKeeps
<1>5. CASE ScheduleAfter(c, t)
  <2>1. PICK d \in 1 .. (MaxTime - now) : BeginCall(c, t, now + d, d)
    BY <1>5 DEF ScheduleAfter
  <2>2. d \in Time /\ now + d \in Time
    BY <1>1, <2>1 DEF Time
  <2> QED BY <2>1, <2>2, BeginCallKeeps
<1> QED BY <1>2, <1>3, <1>4, <1>5

(* push() in a queue that is not stopped: the task gets a rank above every *)
(* other, and none of those its thread inserted before is due later.       *)
LEMMA PushInsertsKeeps ==
  ASSUME LoopInv, UNCHANGED loopVars, NEW c \in Callers, PushInserts(c)
  PROVE  LoopInv'
<1> DEFINE t == arg[c]
<1> USE DEF LoopInv
<1>1. /\ step[c] = "push" /\ t \in Tasks /\ by[t] = c /\ t \in Offered /\ t \notin Accepted
      /\ Accepted \subseteq Tasks
  BY DEF PushInserts, Placed, OneOwner, Offered, Accepted, Taken, LoopTypeOK, QueueTypeOK
<1>2. /\ m_schedulables' = m_schedulables \cup {t} /\ no' = [no EXCEPT ![t] = inserted]
      /\ inserted' = inserted + 1 /\ step' = [step EXCEPT ![c] = "notify"]
      /\ copyCanceled' = [copyCanceled EXCEPT ![t] = m_canceled[t]]
      /\ UNCHANGED <<timeVars, queueStop, at, by, delay, arg, m_canceled, popVars, loopVars>>
  BY DEF PushInserts
<1>3. LoopTypeOK' /\ HeldWell'
  BY <1>1, <1>2 DEF LoopTypeOK, QueueTypeOK, HeldWell, CallSteps, timeVars, popVars, loopVars
<1>4. /\ Taken' = Taken /\ Accepted' = Accepted \cup {t} /\ done' = done
      /\ no'[t] = inserted /\ \A u \in Accepted : no'[u] = no[u]
      /\ inserted \in Nat /\ \A u \in Accepted : no[u] \in Nat
  BY <1>1, <1>2 DEF Taken, Accepted, popVars, loopVars, LoopTypeOK, QueueTypeOK
<1>5. Offered' = Offered \ {t}
  BY <1>1, <1>2 DEF Offered, Placed, LoopTypeOK, QueueTypeOK
<1>6. Placed'
  <2>1. OneOwner'
    BY <1>1, <1>2, <1>4, <1>5 DEF Placed, OneOwner, Accepted, popVars
  <2> QED BY <1>1, <1>2, <1>4, <2>1, QueueAssumption
          DEF Placed, LoopTypeOK, QueueTypeOK, Callers
<1>7. Ranked'
  <2>1. \A u \in Accepted' : no'[u] < inserted'
    BY <1>2, <1>4 DEF Ranked
  <2>2. ASSUME NEW r \in 0 .. inserted' - 1 PROVE \E u \in Accepted' : no'[u] = r
    <3>1. CASE r = inserted
      BY <1>4, <3>1
    <3>2. CASE r \in 0 .. inserted - 1
      BY <1>4, <3>2 DEF Ranked, NoneLost
    <3> QED BY <1>2, <1>4, <3>1, <3>2
  <2> QED BY <2>1, <2>2 DEF Ranked, NoneLost
<1>8. Stamped'
  BY <1>2 DEF Stamped, timeVars, popVars
<1>9. Ordered'
  <2>1. \A u, v \in Tasks : Alike(u, v)' <=> Alike(u, v)
    BY <1>2 DEF Alike
  <2>2. \A u, v \in Accepted' : Alike(u, v)' /\ no'[u] < no'[v] => at'[u] <= at'[v]
    <3> TAKE u, v \in Accepted'
    <3> HAVE Alike(u, v)' /\ no'[u] < no'[v]
    <3>1. CASE u = t
      BY <1>4, <3>1 DEF Ranked
    <3>2. CASE v = t /\ u # t
      BY <1>1, <1>2, <1>4, <2>1, <3>2 DEF Ordered
    <3>3. CASE v # t /\ u # t
      BY <1>1, <1>2, <1>4, <2>1, <3>3 DEF Ordered
    <3> QED BY <3>1, <3>2, <3>3
  <2>3. \A u \in Accepted', v \in Offered' : Alike(u, v)' => at'[u] <= at'[v]
    <3> TAKE u \in Accepted', v \in Offered'
    <3> HAVE Alike(u, v)'
    <3>1. by[v] # c
      BY <1>1, <1>5 DEF Offered, Placed
    <3>2. u # t
      BY <1>1, <1>2, <3>1 DEF Alike
    <3> QED BY <1>1, <1>2, <1>4, <1>5, <3>2 DEF Ordered, Alike
  <2>4. CallerOrder'
    <3> SUFFICES ASSUME NEW u \in Accepted', NEW v \in Accepted', Alike(u, v)',
                        no'[u] < no'[v], u \in m_schedulables'
                 PROVE  v \in m_schedulables'
        BY DEF CallerOrder
    <3>1. CASE v = t
      BY <1>2, <3>1
    <3>2. CASE u = t
      BY <1>4, <3>2 DEF Ranked
    <3>3. CASE v # t /\ u # t
      BY <1>1, <1>2, <1>4, <2>1, <3>3 DEF Ordered, CallerOrder
    <3> QED BY <3>1, <3>2, <3>3
  <2> QED BY <2>2, <2>3, <2>4 DEF Ordered
<1> QED BY <1>3, <1>6, <1>7, <1>8, <1>9

(* The other steps of schedule(), and cancel(), move no task.              *)
LEMMA QueueCallKeeps ==
  ASSUME LoopInv, NEW c \in Callers, QueueCall(c)
  PROVE  LoopInv'
<1>1. CASE PushRefused(c) /\ UNCHANGED loopVars
  <2>1. LoopTypeOK' /\ HeldWell'
    BY <1>1 DEF PushRefused, LoopInv, LoopTypeOK, QueueTypeOK, HeldWell, CallSteps,
                timeVars, mapVars, popVars, loopVars
  <2>2. Quiet
    BY <1>1 DEF PushRefused, Quiet, LoopInv, LoopTypeOK, QueueTypeOK,
                timeVars, mapVars, popVars, loopVars
  <2> QED BY <2>1, <2>2, QuietKeeps
<1>2. CASE PushInserts(c) /\ UNCHANGED loopVars
  BY <1>2, PushInsertsKeeps
<1>3. CASE NotifyOne(c) /\ UNCHANGED loopVars
  <2>1. /\ pc' \in [Workers -> LoopSteps]
        /\ \A w \in Workers : pc'[w] = pc[w] \/ (pc[w] = "asleep" /\ pc'[w] = "lock")
    BY <1>3 DEF NotifyOne, Asleep, LoopSteps, LoopInv, LoopTypeOK, QueueTypeOK
  <2>2. LoopTypeOK' /\ HeldWell'
    BY <1>3, <2>1 DEF NotifyOne, LoopInv, LoopTypeOK, QueueTypeOK, HeldWell, CallSteps,
                      timeVars, mapVars, loopVars
  <2>3. Quiet
    BY <1>3 DEF NotifyOne, Quiet, LoopInv, LoopTypeOK, QueueTypeOK,
                timeVars, mapVars, loopVars
  <2> QED BY <2>2, <2>3, QuietKeeps
<1> QED BY <1>1, <1>2, <1>3 DEF QueueCall, CallStep

LEMMA CancelKeeps ==
  ASSUME LoopInv, UNCHANGED loopVars, NEW c \in Callers, NEW t \in Tasks, Cancel(c, t)
  PROVE  LoopInv'
<1>1. LoopTypeOK' /\ HeldWell'
  BY DEF Cancel, LoopInv, LoopTypeOK, QueueTypeOK, HeldWell,
         timeVars, mapVars, popVars, loopVars
<1>2. Quiet
  BY DEF Cancel, Quiet, LoopInv, LoopTypeOK, QueueTypeOK,
         timeVars, mapVars, popVars, loopVars
<1> QED BY <1>1, <1>2, QuietKeeps

---------------------------------------------------------------------------
(***************************************************************************)
(* The pops and the loop                                                   *)
(***************************************************************************)

(* The shape of the steps that only move worker w and its clock sample.    *)
WalksOn(w) ==
  /\ UNCHANGED <<timeVars, mapVars, callVars, until, held, done>>
  /\ \E s \in LoopSteps :
       /\ pc' = [pc EXCEPT ![w] = s]
       /\ held[w] # NoTask => s \in {"popped", "running"}
       /\ s = "running" => held[w] # NoTask
  /\ sample' = sample \/ sample' = [sample EXCEPT ![w] = now]
  /\ cvMutex' \in Workers \cup {NoThread}
  /\ m_stop' \in [Workers -> {Unset, Set, Clear}]

LEMMA WalksOnKeeps ==
  ASSUME LoopInv, NEW w \in Workers, WalksOn(w)
  PROVE  LoopInv'
<1>1. PICK s \in LoopSteps :
        /\ pc' = [pc EXCEPT ![w] = s]
        /\ held[w] # NoTask => s \in {"popped", "running"}
        /\ s = "running" => held[w] # NoTask
  BY DEF WalksOn
<1>2. sample' \in [Workers -> Time] /\ \A v \in Workers : sample'[v] = sample[v] \/ sample'[v] = now
  BY DEF WalksOn, LoopInv, LoopTypeOK, QueueTypeOK
<1>3. LoopTypeOK'
  BY <1>1, <1>2 DEF WalksOn, LoopInv, LoopTypeOK, QueueTypeOK, timeVars, mapVars, callVars
<1>4. HeldWell'
  BY <1>1 DEF WalksOn, LoopInv, LoopTypeOK, QueueTypeOK, HeldWell
<1>5. Quiet
  BY <1>2 DEF WalksOn, Quiet, timeVars, mapVars, callVars
<1> QED BY <1>3, <1>4, <1>5, QuietKeeps

(* tryPop with a due task: it moves from the map to the worker, and no     *)
(* task that the same thread inserted before with the same delay stays.    *)
LEMMA TryPopFindsKeeps ==
  ASSUME LoopInv, UNCHANGED loopVars, NEW w \in Workers, TryPopFinds(w)
  PROVE  LoopInv'
<1> USE DEF LoopInv
<1>1. PICK t \in Tasks :
        /\ IsFirstDue(t, sample[w])
        /\ m_schedulables' = m_schedulables \ {t}
        /\ held' = [held EXCEPT ![w] = t]
  BY DEF TryPopFinds
<1>2. /\ pc[w] = "tryPop" /\ pc' = [pc EXCEPT ![w] = "popped"] /\ held[w] = NoTask
      /\ UNCHANGED <<timeVars, no, inserted, queueStop, copyCanceled, callVars,
                     cvMutex, sample, until, loopVars>>
  BY DEF TryPopFinds, GoTo, HeldWell
<1>3. /\ t \in m_schedulables /\ t # NoTask /\ at[t] <= sample[w]
      /\ \A u \in m_schedulables : u # t /\ at[u] <= sample[w] => Before(t, u)
  BY <1>1, QueueAssumption DEF IsFirstDue, Due
<1>4. LoopTypeOK'
  BY <1>1, <1>2 DEF LoopTypeOK, QueueTypeOK, timeVars, callVars, loopVars, LoopSteps
<1>5. HeldWell'
  BY <1>1, <1>2 DEF HeldWell, LoopTypeOK, QueueTypeOK
<1>6. Taken' = Taken \cup {t}
  BY <1>1, <1>2, <1>3 DEF Taken, LoopTypeOK, QueueTypeOK
<1>7. Accepted' = Accepted /\ Offered' = Offered
  BY <1>1, <1>2, <1>3, <1>6 DEF Accepted, Offered, callVars, loopVars
<1>8. Placed'
  <2>1. \A v \in Workers : held[v] # t
    BY <1>3 DEF Placed, OneOwner, Taken
  <2>2. \A u, v \in Workers : held'[u] = held'[v] => u = v \/ held'[u] = NoTask
    BY <1>1, <2>1 DEF Placed, OneOwner, LoopTypeOK, QueueTypeOK
  <2>3. OneOwner'
    BY <1>1, <1>2, <1>3, <1>6, <1>7, <2>2 DEF Placed, OneOwner, loopVars
  <2> QED BY <1>2, <1>7, <2>3 DEF Placed, callVars
<1>9. Ranked' /\ Stamped'
  BY <1>2, <1>7 DEF Ranked, NoneLost, Stamped, callVars, timeVars
<1>10. Ordered'
  <2>1. CallerOrder'
    <3> SUFFICES ASSUME NEW u \in Accepted, NEW v \in Accepted, Alike(u, v),
                        no[u] < no[v], u \in m_schedulables, u # t
                 PROVE  v \in m_schedulables /\ v # t
        BY <1>1, <1>2, <1>7 DEF CallerOrder, Alike, callVars
    <3>1. v \in m_schedulables
      BY DEF Ordered, CallerOrder
    <3>2. ASSUME v = t PROVE FALSE
      <4>1. at[u] <= at[t]
        BY <3>2 DEF Ordered
      <4>2. at[u] \in Int /\ at[t] \in Int /\ sample[w] \in Int /\ no[u] \in Int /\ no[t] \in Int
        BY QueueAssumption DEF LoopTypeOK, QueueTypeOK, Time
      <4>3. Before(t, u)
        BY <1>3, <4>1, <4>2
      <4> QED BY <3>2, <4>1, <4>2, <4>3 DEF Before
    <3> QED BY <3>1, <3>2
  <2> QED BY <1>2, <1>7, <2>1 DEF Ordered, Alike, callVars
<1> QED BY <1>4, <1>5, <1>8, <1>9, <1>10

(* The end of a task: it moves from the worker to the tasks done.          *)
LEMMA FinishKeeps ==
  ASSUME LoopInv, NEW w \in Workers, Finish(w), held[w] # NoTask,
         NEW s \in LoopSteps \ {"running"}, GoTo(w, pc[w], s)
  PROVE  LoopInv'
<1> USE DEF LoopInv
<1>1. /\ done' = done \cup {held[w]} /\ held' = [held EXCEPT ![w] = NoTask]
      /\ pc' = [pc EXCEPT ![w] = s]
      /\ UNCHANGED <<timeVars, mapVars, callVars, cvMutex, sample, until, m_stop>>
  BY DEF Finish, GoTo
<1>2. held[w] \in Tasks
  BY DEF LoopTypeOK, QueueTypeOK
<1>3. LoopTypeOK'
  BY <1>1, <1>2 DEF LoopTypeOK, QueueTypeOK, timeVars, mapVars, callVars
<1>4. HeldWell'
  BY <1>1 DEF HeldWell, LoopTypeOK, QueueTypeOK
<1>5. Taken' = Taken \ {held[w]}
  BY <1>1 DEF Taken, Placed, OneOwner, LoopTypeOK, QueueTypeOK
<1>6. held[w] \in Taken
  BY DEF Taken
<1>7. Accepted' = Accepted /\ Offered' = Offered
  BY <1>1, <1>5, <1>6 DEF Accepted, Offered, mapVars, callVars
<1>8. Placed'
  <2>1. \A u, v \in Workers : held'[u] = held'[v] => u = v \/ held'[u] = NoTask
    BY <1>1 DEF Placed, OneOwner, LoopTypeOK, QueueTypeOK
  <2>2. OneOwner'
    BY <1>1, <1>5, <1>6, <1>7, <2>1 DEF Placed, OneOwner, mapVars
  <2> QED BY <1>1, <1>7, <2>2 DEF Placed, callVars
<1>9. Ranked' /\ Stamped'
  BY <1>1, <1>7 DEF Ranked, NoneLost, Stamped, mapVars, callVars, timeVars
<1>10. Ordered'
  BY <1>1, <1>7 DEF Ordered, CallerOrder, Alike, mapVars, callVars
<1> QED BY <1>3, <1>4, <1>8, <1>9, <1>10

(* Every step of a worker's thread keeps the invariant.                    *)
LEMMA WorkerStepKeeps ==
  ASSUME LoopInv, NEW w \in Workers, WorkerStep(w)
  PROVE  LoopInv'
<1> USE DEF LoopInv
<1>1. /\ held[w] = NoTask \/ pc[w] \in {"popped", "running"}
      /\ NoThread \in Workers \cup {NoThread} /\ w \in Workers \cup {NoThread}
      /\ m_stop \in [Workers -> {Unset, Set, Clear}]
      /\ cvMutex \in Workers \cup {NoThread}
  BY DEF HeldWell, LoopTypeOK, QueueTypeOK
<1>2. Again(w) \in LoopSteps \ {"running"}
  BY DEF Again, LoopSteps
<1>3. CASE TestLoop(w) \/ ReadClock(w) \/ CanPop(w) \/ PoppedNothing(w) \/ Invoke(w)
  <2>1. WalksOn(w)
    BY <1>1, <1>3 DEF TestLoop, ReadClock, CanPop, PoppedNothing, Invoke,
                      WalksOn, GoTo, LoopSteps, loopVars
  <2> QED BY <2>1, WalksOnKeeps
<1>4. CASE Skip(w)
  BY <1>2, <1>4, FinishKeeps DEF Skip, GoTo
<1>5. CASE Return(w)
  BY <1>2, <1>5, FinishKeeps DEF Return, GoTo, HeldWell
<1>6. CASE /\ UNCHANGED loopVars
           /\ \/ LockCv(w) \/ TestStop(w) \/ TestDue(w) \/ IdleTimeout(w)
              \/ ReadPopTime(w) \/ TryPopFails(w)
  <2>1. WalksOn(w)
    BY <1>1, <1>6 DEF LockCv, TestStop, TestDue, IdleTimeout, ReadPopTime, TryPopFails,
                      WalksOn, GoTo, LoopSteps, loopVars
  <2> QED BY <2>1, WalksOnKeeps
<1>7. CASE TryPopFinds(w) /\ UNCHANGED loopVars
  BY <1>7, TryPopFindsKeeps
<1> QED BY <1>3, <1>4, <1>5, <1>6, <1>7 DEF WorkerStep, LoopStep, PopStep

---------------------------------------------------------------------------
(***************************************************************************)
(* The start, and the steps of the threads that stop the scheduler.        *)
(***************************************************************************)

LEMMA InitEstablishes ==
  ASSUME RunLoopInit, m_stop \in [Workers -> {Unset, Set, Clear}]
  PROVE  LoopInv
<1> USE QueueAssumption DEF RunLoopInit, QueueInit
<1>1. QueueTypeOK
  <2>1. 0 \in Time
    BY DEF Time
  <2>2. /\ step \in [Callers -> CallSteps] /\ pc \in [Workers -> LoopSteps]
        /\ by \in [Tasks -> Callers \cup {NoThread}] /\ arg \in [Callers -> Tasks \cup {NoTask}]
        /\ cvMutex \in Workers \cup {NoThread} /\ held \in [Workers -> Tasks \cup {NoTask}]
    BY DEF CallSteps, LoopSteps
  <2>3. /\ at \in [Tasks -> Time] /\ delay \in [Tasks -> Time \cup {Absolute}]
        /\ sample \in [Workers -> Time] /\ until \in [Workers -> Time \cup {Forever}]
        /\ now \in Time
    BY <2>1
  <2> QED BY <2>2, <2>3 DEF QueueTypeOK
<1>2. LoopTypeOK /\ HeldWell
  BY <1>1 DEF LoopTypeOK, HeldWell
<1>3. Taken = {} /\ Accepted = {} /\ Offered = {}
  BY DEF Taken, Accepted, Offered
<1>4. Placed /\ Ranked /\ Stamped /\ Ordered
  BY <1>3 DEF Placed, OneOwner, Ranked, NoneLost, Stamped, Ordered, CallerOrder
<1> QED BY <1>2, <1>4 DEF LoopInv

(* A step of stop() or of a destructor: m_stop, the stop flag of the queue *)
(* and the sleeping workers change, the tasks stay where they are.         *)
Stops(c) ==
  /\ \E s \in CallSteps \ {"push"} : step' = [step EXCEPT ![c] = s]
  /\ UNCHANGED <<timeVars, m_schedulables, no, inserted, copyCanceled,
                 at, by, delay, arg, m_canceled, cvMutex, sample, until, held, done>>
  /\ queueStop' \in BOOLEAN
  /\ m_stop' \in [Workers -> {Unset, Set, Clear}]
  /\ pc' \in [Workers -> LoopSteps]
  /\ \A w \in Workers : pc'[w] = pc[w] \/ (pc[w] = "asleep" /\ pc'[w] = "lock")

LEMMA StopsKeeps ==
  ASSUME LoopInv, NEW c \in Callers, Stops(c)
  PROVE  LoopInv'
<1>1. LoopTypeOK'
  BY DEF Stops, LoopInv, LoopTypeOK, QueueTypeOK, timeVars
<1>2. HeldWell'
  BY DEF Stops, LoopInv, HeldWell
<1>3. Quiet
  BY DEF Stops, Quiet, LoopInv, LoopTypeOK, QueueTypeOK, timeVars
<1> QED BY <1>1, <1>2, <1>3, QuietKeeps

LEMMA StopStepsStop ==
  ASSUME LoopInv, NEW c \in Callers, NEW to \in CallSteps \ {"push"}, NEW ws,
         NEW from,
         \/ StopQueue(c, to) /\ UNCHANGED loopVars
         \/ NotifyAll(c, to) /\ UNCHANGED loopVars
         \/ StopBy(c, from, to, ws)
         \/ MoveCall(c, from, to) /\ UNCHANGED <<timeVars, mapVars, popVars, loopVars>>
  PROVE  Stops(c)
<1> USE DEF LoopInv, LoopTypeOK, QueueTypeOK
<1>1. CASE StopQueue(c, to) /\ UNCHANGED loopVars
  BY <1>1 DEF StopQueue, MoveCall, Stops, loopVars, popVars
<1>2. CASE NotifyAll(c, to) /\ UNCHANGED loopVars
  BY <1>2 DEF NotifyAll, MoveCall, Stops, loopVars, mapVars, LoopSteps
<1>3. CASE StopBy(c, from, to, ws)
  BY <1>3 DEF StopBy, MoveCall, Stops, mapVars, popVars
<1>4. CASE MoveCall(c, from, to) /\ UNCHANGED <<timeVars, mapVars, popVars, loopVars>>
  BY <1>4 DEF MoveCall, Stops, mapVars, popVars, loopVars
<1> QED BY <1>1, <1>2, <1>3, <1>4

---------------------------------------------------------------------------
(***************************************************************************)
(* Who attends to a due task.  A worker goes to sleep only if the map has  *)
(* no task due at the time point it sampled, so one that is on its way to  *)
(* the wait attends as long as there is a due task to be found there.      *)
(***************************************************************************)
Attends(w) ==
  \/ pc[w] \notin {"lock", "test", "testDue", "asleep"}
  \/ pc[w] \in {"lock", "test"} /\ Due(now) # {}
  \/ pc[w] = "testDue" /\ Due(sample[w]) # {}

(* The steps that pop nothing: a task that is due stays so.                *)
Grows ==
  /\ m_schedulables \subseteq m_schedulables'
  /\ \A t \in m_schedulables : at'[t] = at[t]
  /\ now <= now'

LEMMA DueStays ==
  ASSUME LoopInv, Grows, now' \in Time
  PROVE  /\ Due(now) # {} => Due(now)' # {}
         /\ \A w \in Workers : sample'[w] = sample[w] /\ Due(sample[w]) # {} => Due(sample[w])' # {}
<1>1. /\ now \in Int /\ now' \in Int
      /\ \A t \in m_schedulables : at[t] \in Int
  BY QueueAssumption DEF LoopInv, LoopTypeOK, QueueTypeOK, Time
<1> QED BY <1>1 DEF Grows, Due

(* What was due at a time point sampled before is due now.                 *)
LEMMA SampledIsDue ==
  ASSUME LoopInv, NEW w \in Workers, Due(sample[w]) # {}
  PROVE  Due(now) # {}
<1>1. /\ now \in Int /\ sample[w] \in Int /\ sample[w] <= now
      /\ \A t \in m_schedulables : at[t] \in Int
  BY QueueAssumption DEF LoopInv, LoopTypeOK, QueueTypeOK, Stamped, Time
<1> QED BY <1>1 DEF Due

(* The steps of schedule(), cancel() and stop(), and the clock, let a task *)
(* that is due stay and move a worker at most from its sleep to the lock.  *)
Wakes ==
  /\ Grows /\ now' \in Time
  /\ \A w \in Workers :
       /\ sample'[w] = sample[w] /\ held'[w] = held[w]
       /\ pc'[w] = pc[w] \/ (pc[w] = "asleep" /\ pc'[w] = "lock")

LEMMA ClockWakes ==
  ASSUME LoopInv, Clock
  PROVE  Wakes
<1>1. now' \in Time /\ now <= now'
  BY QueueAssumption DEF Clock, Tick, LoopInv, LoopTypeOK, QueueTypeOK, Time
<1> QED BY <1>1 DEF Clock, Tick, Wakes, Grows, mapVars, callVars, popVars

LEMMA AnyScheduleWakes ==
  ASSUME LoopInv, NEW c \in Callers, AnySchedule(c)
  PROVE  Wakes
<1>1. PICK t \in Tasks : \E p, d : BeginCall(c, t, p, d)
  BY DEF AnySchedule, Schedule, ScheduleAt, ScheduleAfter
<1>2. /\ by[t] = NoThread /\ UNCHANGED <<timeVars, mapVars, popVars>>
      /\ \E p : at' = [at EXCEPT ![t] = p]
  BY <1>1 DEF BeginCall
<1>3. t \notin m_schedulables
  BY <1>2 DEF LoopInv, Placed, Accepted
<1>4. \A u \in m_schedulables : at'[u] = at[u]
  BY <1>2, <1>3 DEF LoopInv, LoopTypeOK, QueueTypeOK
<1>5. now' \in Time /\ now <= now'
  BY <1>2, QueueAssumption DEF LoopInv, LoopTypeOK, QueueTypeOK, Time, timeVars
<1> QED BY <1>2, <1>4, <1>5 DEF Wakes, Grows, mapVars, popVars

LEMMA QueueCallWakes ==
  ASSUME LoopInv, NEW c \in Callers, QueueCall(c)
  PROVE  Wakes
<1>1. now' = now /\ at' = at /\ sample' = sample /\ held' = held
  BY DEF QueueCall, CallStep, PushRefused, PushInserts, NotifyOne, timeVars, popVars
<1>2. m_schedulables \subseteq m_schedulables'
  BY DEF QueueCall, CallStep, PushRefused, PushInserts, NotifyOne, mapVars
<1>3. \A w \in Workers : pc'[w] = pc[w] \/ (pc[w] = "asleep" /\ pc'[w] = "lock")
  BY DEF QueueCall, CallStep, PushRefused, PushInserts, NotifyOne, Asleep, popVars,
         LoopInv, LoopTypeOK, QueueTypeOK
<1>4. now \in Time /\ now <= now
  BY QueueAssumption DEF LoopInv, LoopTypeOK, QueueTypeOK, Time
<1> QED BY <1>1, <1>2, <1>3, <1>4 DEF Wakes, Grows

LEMMA StopsWakes ==
  ASSUME LoopInv, NEW c \in Callers, Stops(c)
  PROVE  Wakes
<1>1. now \in Time /\ now <= now
  BY QueueAssumption DEF LoopInv, LoopTypeOK, QueueTypeOK, Time
<1> QED BY <1>1 DEF Stops, Wakes, Grows, timeVars

(* A worker that attends goes on to, and one that pops a task will look    *)
(* for another when it is through with it.                                 *)
LEMMA WakesAttends ==
  ASSUME LoopInv, Wakes, NEW w \in Workers, Attends(w)
  PROVE  Attends(w)'
BY DueStays DEF Wakes, Attends

(* The other workers when worker v makes a step without a pop.             *)
LEMMA OthersAttend ==
  ASSUME LoopInv, NEW v \in Workers, WorkerStep(v), ~TryPopFinds(v)
  PROVE  /\ Grows /\ now' = now /\ now' \in Time
         /\ pc' = [pc EXCEPT ![v] = pc'[v]]
         /\ sample'[v] \in {sample[v], now}
         /\ \A w \in Workers \ {v} : pc'[w] = pc[w] /\ sample'[w] = sample[w]
<1> USE DEF LoopInv, LoopTypeOK, QueueTypeOK
<1>1. now \in Time /\ now <= now
  BY QueueAssumption DEF Time
<1>2. CASE LoopStep(v)
  BY <1>1, <1>2 DEF LoopStep, TestLoop, ReadClock, CanPop, PoppedNothing, Invoke, Skip, Return,
              Finish, GoTo, Grows, timeVars, mapVars, callVars
<1>3. CASE PopStep(v)
  BY <1>1, <1>3 DEF PopStep, LockCv, TestStop, TestDue, IdleTimeout, ReadPopTime, TryPopFails,
              GoTo, Grows, timeVars, mapVars, callVars
<1> QED BY <1>2, <1>3 DEF WorkerStep

LEMMA WorkerAttends ==
  ASSUME LoopInv, NEW v \in Workers, NEW w \in Workers, WorkerStep(v), Attends(w)
  PROVE  Attends(v)' \/ Attends(w)'
<1> USE DEF LoopInv, LoopTypeOK, QueueTypeOK
<1>1. CASE TryPopFinds(v)
  <2>1. pc'[v] = "popped"
    BY <1>1 DEF TryPopFinds, GoTo
  <2> QED BY <2>1 DEF Attends
<1>2. CASE ~TryPopFinds(v) /\ w # v
  BY <1>2, OthersAttend, DueStays DEF Attends
<1>3. CASE ~TryPopFinds(v) /\ w = v
  <2>1. /\ Due(now) # {} => Due(now)' # {} /\ now' = now
        /\ sample'[v] = sample[v] /\ Due(sample[v]) # {} => Due(sample[v])' # {}
    BY <1>3, OthersAttend, DueStays
  <2>2. CASE TestLoop(v) \/ ReadClock(v) \/ PoppedNothing(v) \/ Invoke(v) \/ Skip(v) \/ Return(v)
    BY <2>2 DEF TestLoop, ReadClock, PoppedNothing, Invoke, Skip, Return, Again, GoTo, Attends
  <2>3. CASE CanPop(v)
    <3>1. pc'[v] = (IF Due(sample[v]) # {} THEN "lock" ELSE "loop")
      BY <2>3 DEF CanPop, GoTo
    <3> QED BY <2>1, <3>1, SampledIsDue DEF Attends
  <2>4. CASE LockCv(v)
    BY <1>3, <2>1, <2>4 DEF LockCv, GoTo, Attends
  <2>5. CASE TestStop(v)
    <3>1. \/ pc'[v] = "leave"
          \/ pc'[v] = "testDue" /\ sample'[v] = now
      BY <2>5 DEF TestStop, GoTo
    <3>2. pc[v] = "test"
      BY <2>5 DEF TestStop, GoTo
    <3>3. Due(now)' # {} /\ now' = now
      BY <1>3, <2>1, <3>2, OthersAttend DEF Attends
    <3> QED BY <3>1, <3>3 DEF Attends, Due
  <2>6. CASE TestDue(v)
    <3>1. pc[v] = "testDue" /\ pc'[v] = (IF Due(sample[v]) # {} THEN "leave" ELSE "asleep")
      BY <2>6 DEF TestDue, GoTo
    <3> QED BY <1>3, <3>1 DEF Attends
  <2>7. CASE IdleTimeout(v) \/ ReadPopTime(v) \/ TryPopFails(v)
    BY <1>3, <2>7 DEF IdleTimeout, ReadPopTime, TryPopFails, GoTo, Attends
  <2> QED BY <1>3, <2>2, <2>3, <2>4, <2>5, <2>6, <2>7 DEF WorkerStep, LoopStep, PopStep
<1> QED BY <1>1, <1>2, <1>3

---------------------------------------------------------------------------
(***************************************************************************)
(* The loop implements the abstract dispatcher.                            *)
(***************************************************************************)

(* No task moves, none is offered or refused: the dispatcher stutters or,  *)
(* when the queue is stopped, closes.                                      *)
LEMMA QuietStutters ==
  ASSUME Quiet, Offered' = Offered, queueStop' \in {queueStop, TRUE}
  PROVE  Promise!Close \/ UNCHANGED Promise!dispatchVars
BY DEF Quiet, Promise!Close, Promise!dispatchVars

LEMMA InitDispatches ==
  ASSUME RunLoopInit
  PROVE  Promise!Init
BY DEF RunLoopInit, QueueInit, Offered, Promise!Init

LEMMA TickDispatches ==
  ASSUME LoopInv, Clock
  PROVE  Promise!Advance
<1>1. /\ now \in Nat /\ now' \in Nat /\ now' > now
      /\ UNCHANGED <<mapVars, callVars, popVars, loopVars>>
  BY QueueAssumption DEF Clock, Tick, LoopInv, LoopTypeOK, QueueTypeOK, Time
<1> QED BY <1>1 DEF Promise!Advance, Offered, mapVars, callVars, popVars, loopVars

LEMMA BeginCallDispatches ==
  ASSUME LoopInv, UNCHANGED loopVars,
         NEW c \in Callers, NEW t \in Tasks, NEW p \in Time, NEW d,
         BeginCall(c, t, p, d)
  PROVE  Promise!Offer(t)
<1> USE DEF LoopInv
<1>1. /\ step[c] = "idle" /\ by[t] = NoThread /\ UNCHANGED <<timeVars, mapVars, popVars, loopVars>>
      /\ by' = [by EXCEPT ![t] = c] /\ at' = [at EXCEPT ![t] = p]
      /\ step' = [step EXCEPT ![c] = "push"] /\ arg' = [arg EXCEPT ![c] = t]
  BY DEF BeginCall
<1>2. Offered' = Offered \cup {t}
  BY <1>1 DEF Offered, LoopTypeOK, QueueTypeOK
<1>3. {u \in Tasks : by'[u] # NoThread} = {u \in Tasks : by[u] # NoThread} \cup {t}
  BY <1>1, QueueAssumption DEF Callers, LoopTypeOK, QueueTypeOK
<1>4. at'[t] \in Nat /\ at' = [at EXCEPT ![t] = at'[t]]
  BY <1>1, QueueAssumption DEF Time, LoopTypeOK, QueueTypeOK
<1> QED BY <1>1, <1>2, <1>3, <1>4
        DEF Promise!Offer, timeVars, mapVars, popVars, loopVars

LEMMA AnyScheduleDispatches ==
  ASSUME LoopInv, UNCHANGED loopVars, NEW c \in Callers, AnySchedule(c)
  PROVE  \E t \in Tasks : Promise!Offer(t)
<1>1. now \in Time /\ MaxTime \in Nat
  BY QueueAssumption DEF LoopInv, LoopTypeOK, QueueTypeOK
<1>2. PICK t \in Tasks, p \in Time : \E d : BeginCall(c, t, p, d)
  BY <1>1 DEF AnySchedule, Schedule, ScheduleAt, ScheduleAfter, Time
<1> QED BY <1>2, BeginCallDispatches

(* A call is refused, or accepted with a rank above all, or has returned.  *)
LEMMA QueueCallDispatches ==
  ASSUME LoopInv, NEW c \in Callers, QueueCall(c)
  PROVE  \/ \E t \in Tasks : Promise!Refuse(t) \/ Promise!Accept(t)
         \/ UNCHANGED Promise!dispatchVars
<1> USE DEF LoopInv
<1>1. ASSUME step[c] = "push", step' \in [Callers -> CallSteps],
             step'[c] # "push", arg' = arg \/ arg' = [arg EXCEPT ![c] = NoTask],
             \A e \in Callers \ {c} : step'[e] = step[e]
      PROVE  Offered' = Offered \ {arg[c]} /\ arg[c] \in Tasks /\ arg[c] \in Offered
  BY <1>1 DEF Offered, Placed, LoopTypeOK, QueueTypeOK
<1>2. CASE PushRefused(c) /\ UNCHANGED loopVars
  <2>1. Promise!Refuse(arg[c])
    BY <1>1, <1>2 DEF PushRefused, Promise!Refuse, LoopTypeOK, QueueTypeOK, CallSteps,
                      timeVars, mapVars, popVars, loopVars
  <2> QED BY <1>2, <2>1 DEF PushRefused, Placed
<1>3. CASE PushInserts(c) /\ UNCHANGED loopVars
  <2>1. Offered' = Offered \ {arg[c]} /\ arg[c] \in Tasks /\ arg[c] \in Offered
    BY <1>1, <1>3 DEF PushInserts, LoopTypeOK, QueueTypeOK, CallSteps
  <2>2. /\ no' = [no EXCEPT ![arg[c]] = no'[arg[c]]] /\ no'[arg[c]] \in Nat
        /\ \A u \in m_schedulables : no[u] < no'[arg[c]]
    BY <1>3, <2>1 DEF PushInserts, Ranked, Accepted, LoopTypeOK, QueueTypeOK
  <2>3. Promise!Accept(arg[c])
    BY <1>3, <2>1, <2>2 DEF PushInserts, Promise!Accept, timeVars, popVars, loopVars
  <2> QED BY <2>1, <2>3
<1>4. CASE NotifyOne(c) /\ UNCHANGED loopVars
  <2>1. Offered' = Offered
    BY <1>4 DEF NotifyOne, Offered, LoopTypeOK, QueueTypeOK
  <2> QED BY <1>4, <2>1
          DEF NotifyOne, Promise!dispatchVars, timeVars, mapVars, loopVars
<1> QED BY <1>2, <1>3, <1>4 DEF QueueCall, CallStep

(* tryPop takes the first waiting task, and not before its time: the ones  *)
(* that were not due at the sampled time point all come later.             *)
LEMMA TryPopFindsDispatches ==
  ASSUME LoopInv, UNCHANGED loopVars, NEW w \in Workers, TryPopFinds(w)
  PROVE  \E t \in Tasks : Promise!Take(w, t)
<1> USE DEF LoopInv
<1>1. PICK t \in Tasks :
        /\ IsFirstDue(t, sample[w])
        /\ m_schedulables' = m_schedulables \ {t}
        /\ held' = [held EXCEPT ![w] = t]
  BY DEF TryPopFinds
<1>2. at[t] <= sample[w] /\ sample[w] <= now /\ t \in m_schedulables
  BY <1>1 DEF IsFirstDue, Due, Stamped
<1>3. ASSUME NEW u \in m_schedulables \ {t}
      PROVE  at[t] < at[u] \/ (at[t] = at[u] /\ no[t] < no[u])
  <2>1. at[u] \in Int /\ at[t] \in Int /\ sample[w] \in Int /\ u \in Tasks
    BY QueueAssumption DEF LoopTypeOK, QueueTypeOK, Time
  <2>2. CASE at[u] <= sample[w]
    BY <1>1, <2>2 DEF IsFirstDue, Due, Before
  <2>3. CASE ~(at[u] <= sample[w])
    BY <1>2, <2>1, <2>3
  <2> QED BY <2>2, <2>3
<1>4. at[t] <= now
  BY <1>2, QueueAssumption DEF LoopTypeOK, QueueTypeOK, Time
<1>5. held[w] = NoTask
  BY DEF TryPopFinds, GoTo, HeldWell
<1>6. UNCHANGED <<now, {u \in Tasks : by[u] # NoThread}, Offered, done, at, no, queueStop>>
  BY DEF TryPopFinds, Offered, timeVars, callVars, loopVars
<1>7. t \in m_schedulables /\ m_schedulables' = m_schedulables \ {t} /\ held' = [held EXCEPT ![w] = t]
  BY <1>1, <1>2
<1>8. Promise!Take(w, t)
  BY <1>3, <1>4, <1>5, <1>6, <1>7 DEF Promise!Take
<1> QED BY <1>8

(* A step of a worker takes a task, finishes one, or is invisible.         *)
LEMMA WorkerStepDispatches ==
  ASSUME LoopInv, NEW w \in Workers, WorkerStep(w)
  PROVE  \/ \E t \in Tasks : Promise!Take(w, t)
         \/ Promise!Finish(w)
         \/ UNCHANGED Promise!dispatchVars
<1>1. CASE TryPopFinds(w) /\ UNCHANGED loopVars
  BY <1>1, TryPopFindsDispatches
<1>2. ASSUME Finish(w), held[w] # NoTask
      PROVE  Promise!Finish(w)
  <2>1. held[w] \notin done
    BY <1>2 DEF LoopInv, Placed, OneOwner, Taken
  <2> QED BY <1>2, <2>1 DEF Finish, Promise!Finish, Offered, timeVars, mapVars, callVars
<1>3. CASE Skip(w) \/ Return(w)
  BY <1>2, <1>3 DEF Skip, Return, GoTo, LoopInv, HeldWell
<1>4. CASE \/ TestLoop(w) \/ ReadClock(w) \/ CanPop(w) \/ PoppedNothing(w) \/ Invoke(w)
           \/ /\ UNCHANGED loopVars
              /\ \/ LockCv(w) \/ TestStop(w) \/ TestDue(w) \/ IdleTimeout(w)
                 \/ ReadPopTime(w) \/ TryPopFails(w)
  <2>1. UNCHANGED <<timeVars, mapVars, callVars, held, loopVars>>
    BY <1>4 DEF TestLoop, ReadClock, CanPop, PoppedNothing, Invoke, LockCv, TestStop, TestDue,
                IdleTimeout, ReadPopTime, TryPopFails
  <2> QED BY <2>1 DEF Promise!dispatchVars, Offered, timeVars, mapVars, callVars, loopVars
<1> QED BY <1>1, <1>3, <1>4 DEF WorkerStep, LoopStep, PopStep

---------------------------------------------------------------------------
(***************************************************************************)
(* What a step is to the loop, whichever scheduler makes it: nothing that  *)
(* a task would notice, or one of the steps above.                         *)
(***************************************************************************)
Still == Quiet /\ LoopTypeOK' /\ HeldWell' /\ Offered' = Offered /\ queueStop' \in {queueStop, TRUE}

LoopMoves ==
  \/ Still \/ Clock
  \/ \E c \in Callers :
       \/ AnySchedule(c) /\ UNCHANGED loopVars
       \/ \E t \in Tasks : Cancel(c, t) /\ UNCHANGED loopVars
       \/ QueueCall(c)
  \/ \E w \in Workers : WorkerStep(w)

LEMMA UnchangedStill ==
  ASSUME LoopInv, UNCHANGED <<queueVars, loopVars>>
  PROVE  Still
BY DEF Still, Quiet, Offered, LoopInv, LoopTypeOK, QueueTypeOK, HeldWell, queueVars, loopVars,
       timeVars, mapVars, callVars, popVars

LEMMA WalksStill ==
  ASSUME LoopInv, NEW w \in Workers, WalksOn(w), Quiet, Offered' = Offered, queueStop' = queueStop
  PROVE  Still
<1>1. LoopInv'
  BY WalksOnKeeps
<1> QED BY <1>1 DEF Still, LoopInv

LEMMA StopsStill ==
  ASSUME LoopInv, NEW c \in Callers, Stops(c), step[c] # "push", queueStop' \in {queueStop, TRUE}
  PROVE  Still
<1>1. LoopInv'
  BY StopsKeeps
<1>2. Quiet /\ Offered' = Offered
  BY DEF Stops, Quiet, Offered, LoopInv, LoopTypeOK, QueueTypeOK, timeVars
<1> QED BY <1>1, <1>2 DEF Still, LoopInv

LEMMA LoopMovesKeep ==
  ASSUME LoopInv, LoopMoves
  PROVE  LoopInv'
<1>1. CASE Still
  BY <1>1, QuietKeeps DEF Still
<1> QED BY <1>1, TickKeeps, AnyScheduleKeeps, CancelKeeps, QueueCallKeeps, WorkerStepKeeps
        DEF LoopMoves

(* Each of these steps is one of the abstract dispatcher, or invisible.    *)
LEMMA LoopMovesDispatch ==
  ASSUME LoopInv, LoopMoves
  PROVE  Promise!Next \/ UNCHANGED Promise!dispatchVars
<1>1. CASE Still
  BY <1>1, QuietStutters DEF Still, Promise!Next
<1>2. CASE Clock
  BY <1>2, TickDispatches DEF Promise!Next
<1>3. ASSUME NEW c \in Callers, AnySchedule(c) /\ UNCHANGED loopVars
      PROVE  Promise!Next
  BY <1>3, AnyScheduleDispatches DEF Promise!Next
<1>4. ASSUME NEW c \in Callers, NEW t \in Tasks, Cancel(c, t) /\ UNCHANGED loopVars
      PROVE  UNCHANGED Promise!dispatchVars
  BY <1>4 DEF Cancel, Promise!dispatchVars, Offered, timeVars, mapVars, popVars, loopVars
<1>5. ASSUME NEW c \in Callers, QueueCall(c)
      PROVE  Promise!Next \/ UNCHANGED Promise!dispatchVars
  BY <1>5, QueueCallDispatches DEF Promise!Next
<1>6. ASSUME NEW w \in Workers, WorkerStep(w)
      PROVE  Promise!Next \/ UNCHANGED Promise!dispatchVars
  BY <1>6, WorkerStepDispatches DEF Promise!Next
<1> QED BY <1>1, <1>2, <1>3, <1>4, <1>5, <1>6 DEF LoopMoves

=============================================================================
