------------------------------ MODULE EventLoop ------------------------------
(***************************************************************************)
(* recpp::async::EventLoop: a queue that the thread calling run() or       *)
(* runFor() pops, until a client or a task calls stop().                   *)
(***************************************************************************)
EXTENDS RunLoop

CONSTANTS
  Host,     (* the thread that calls run() and runFor()                    *)
  Stoppers  (* the threads that call stop()                                *)

ASSUME EventLoopAssumption == Workers = {Host} /\ Stoppers \subseteq Callers

VARIABLE deadline  (* start + duration of the host's last runFor()         *)

vars == <<queueVars, loopVars, deadline>>

Init ==
  /\ RunLoopInit
  /\ m_stop = [w \in Workers |-> Clear]
  /\ deadline = 0

Returned == pc[Host] \in {"none", "exit"}

Run ==
  /\ Returned /\ step[Host] = "idle"
  /\ pc' = [pc EXCEPT ![Host] = "loop"]
  /\ until' = [until EXCEPT ![Host] = Forever]
  /\ UNCHANGED <<timeVars, mapVars, callVars, cvMutex, sample, held, loopVars, deadline>>

(* runFor(duration); a duration beyond MaxTime is not considered.          *)
RunFor ==
  /\ Returned /\ step[Host] = "idle"
  /\ pc' = [pc EXCEPT ![Host] = "for"]
  /\ \E duration \in 0 .. (MaxTime - now) : deadline' = now + duration
  /\ until' = [until EXCEPT ![Host] = deadline']
  /\ UNCHANGED <<timeVars, mapVars, callVars, cvMutex, sample, held, loopVars>>

ForTest ==
  /\ \E stop \in m_stop[Host] : GoTo(Host, "for", IF stop THEN "exit" ELSE "forNow")
  /\ UNCHANGED <<timeVars, mapVars, callVars, cvMutex, sample, until, held,
                 loopVars, deadline>>

ForNow ==
  /\ GoTo(Host, "forNow", IF deadline <= now THEN "exit" ELSE "forPop")
  /\ sample' = [sample EXCEPT ![Host] = now]
  /\ UNCHANGED <<timeVars, mapVars, callVars, cvMutex, until, held, loopVars, deadline>>

(* The limits that lie beyond MaxTime end with the modelled time.          *)
Capped(timePoint) == IF timePoint > MaxTime THEN MaxTime ELSE timePoint

(* Mutant form: the duration left is added to nothing.                     *)
ForPopAtOnce ==
  /\ GoTo(Host, "forPop", "lock")
  /\ until' = [until EXCEPT ![Host] = now]
  /\ UNCHANGED <<timeVars, mapVars, callVars, cvMutex, sample, held, loopVars, deadline>>

(* m_queue.pop(duration - diff), which reads the clock once more.          *)
ForPop ==
  /\ GoTo(Host, "forPop", "lock")
  /\ until' = [until EXCEPT ![Host] = Capped(now + (deadline - sample[Host]))]
  /\ UNCHANGED <<timeVars, mapVars, callVars, cvMutex, sample, held, loopVars, deadline>>

(* Mutant form: runFor calls the optional although the pop ran out of time.*)
ForNothingRuns ==
  /\ until[Host] # Forever
  /\ held[Host] = NoTask
  /\ GoTo(Host, "popped", "running")
  /\ UNCHANGED <<timeVars, mapVars, callVars, cvMutex, sample, until, held,
                 loopVars, deadline>>

ForNothing ==
  /\ until[Host] # Forever
  /\ held[Host] = NoTask
  /\ GoTo(Host, "popped", "exit")
  /\ UNCHANGED <<timeVars, mapVars, callVars, cvMutex, sample, until, held,
                 loopVars, deadline>>

ForStep == ForTest \/ ForNow \/ ForPop \/ ForNothing

(* stop(): m_queue.stop(), m_queue.notifyAll(), m_stop = true.  Calls that *)
(* find the queue stopped already are not modelled.                        *)
BeginStop(c) ==
  /\ step[c] = "idle"
  /\ step' = [step EXCEPT ![c] = "queueStop"]
  /\ UNCHANGED <<timeVars, mapVars, at, by, delay, arg, m_canceled, popVars, loopVars>>

StopStep(c) ==
  \/ StopQueue(c, "notifyAll") /\ UNCHANGED loopVars
  \/ NotifyAll(c, "setStop") /\ UNCHANGED loopVars
  \/ StopBy(c, "setStop", "idle", Workers)

Use(c) ==
  /\ Active(c) \/ (c = Host /\ Returned)
  /\ \/ AnySchedule(c) /\ UNCHANGED loopVars
     \/ c \in Clients /\ NewCancel(c)
     \/ c \in Stoppers /\ ~queueStop /\ BeginStop(c)
  /\ UNCHANGED deadline

Call(c)   == (QueueCall(c) \/ StopStep(c)) /\ UNCHANGED deadline
Work      == ForStep \/ (WorkerStep(Host) /\ UNCHANGED deadline)
ClockTick == Clock /\ UNCHANGED deadline

Next ==
  \/ Run \/ RunFor \/ Work \/ ClockTick
  \/ \E c \in Callers : Use(c) \/ Call(c)

(* The host is scheduled, tasks return and time passes.                    *)
Fairness ==
  /\ WF_vars(Work) /\ WF_vars(ClockTick)
  /\ \A c \in Callers : WF_vars(Call(c))

Spec     == Init /\ [][Next]_vars
FairSpec == Spec /\ Fairness

---------------------------------------------------------------------------
TypeOK ==
  /\ LoopTypeOK
  /\ m_stop[Host] # Unset
  /\ deadline \in Time

(* "Run this EventLoop for at least the specified duration": runFor only   *)
(* returns early once stop() has begun, although pop() gives up on an      *)
(* empty optional and the time left is computed from an earlier clock.     *)
LastsLongEnough ==
  [][ ~Returned /\ until[Host] # Forever /\ Returned'
        => deadline <= now \/ queueStop ]_vars

(* runFor comes back, by its limit or by stop(), also when the wake-up of  *)
(* stop() comes before the host sleeps.                                    *)
RunForReturns == (pc[Host] = "for") ~> (pc[Host] = "exit")

(* stop() ends a call of run().                                            *)
StopEndsRun == (m_stop[Host] = Set) ~> Returned

(* EventLoop.h:50, "This EventLoop will not be able to run any Schedulable *)
(* after this call" of stop().                                             *)
NothingRunsAfterStop ==
  [][ m_stop[Host] = Set => ~(pc[Host] # "running" /\ pc'[Host] = "running") ]_vars

=============================================================================
