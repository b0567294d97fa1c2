------------------------------ MODULE Dispatch ------------------------------
(***************************************************************************)
(* What a Scheduler of ReCpp promises to those who schedule tasks on it:   *)
(* a priority dispatcher.  An offered task is accepted until the scheduler *)
(* closes, an accepted task waits, the waiting task that comes first in    *)
(* time order (arrival order for equal times) is taken by a worker, not    *)
(* before its time, and a taken task is finished, by the same worker and   *)
(* only once.  There are no threads, mutexes or wake-ups here.             *)
(***************************************************************************)
EXTENDS Integers

CONSTANTS Tasks, Workers, NoTask

VARIABLES
  time,      (* the clock                                                  *)
  known,     (* the tasks ever offered                                     *)
  offered,   (* those neither accepted nor refused yet                     *)
  waiting,   (* those accepted and not taken                               *)
  slot,      (* the task each worker has taken                             *)
  finished,  (* those a worker is through with                             *)
  key,       (* the time each task may run from                            *)
  rank,      (* the arrival rank of each accepted task                     *)
  closed     (* no task is accepted any more                               *)

dispatchVars == <<time, known, offered, waiting, slot, finished, key, rank, closed>>

Init ==
  /\ time = 0
  /\ known = {} /\ offered = {} /\ waiting = {} /\ finished = {}
  /\ slot = [w \in Workers |-> NoTask]
  /\ key = [t \in Tasks |-> 0]
  /\ rank = [t \in Tasks |-> 0]
  /\ closed = FALSE

Advance ==
  /\ time' \in Nat
  /\ time' > time
  /\ UNCHANGED <<known, offered, waiting, slot, finished, key, rank, closed>>

Offer(t) ==
  /\ t \notin known
  /\ known' = known \cup {t}
  /\ offered' = offered \cup {t}
  /\ key'[t] \in Nat
  /\ key' = [key EXCEPT ![t] = key'[t]]
  /\ UNCHANGED <<time, waiting, slot, finished, rank, closed>>

Refuse(t) ==
  /\ closed
  /\ t \in offered
  /\ offered' = offered \ {t}
  /\ UNCHANGED <<time, known, waiting, slot, finished, key, rank, closed>>

(* t arrives later than every waiting task.                                *)
Accept(t) ==
  /\ ~closed
  /\ t \in offered
  /\ offered' = offered \ {t}
  /\ waiting' = waiting \cup {t}
  /\ rank'[t] \in Nat
  /\ \A u \in waiting : rank[u] < rank'[t]
  /\ rank' = [rank EXCEPT ![t] = rank'[t]]
  /\ UNCHANGED <<time, known, slot, finished, key, closed>>

(* No waiting task comes before t.                                         *)
Take(w, t) ==
  /\ slot[w] = NoTask
  /\ t \in waiting
  /\ key[t] <= time
  /\ \A u \in waiting \ {t} :
       key[t] < key[u] \/ (key[t] = key[u] /\ rank[t] < rank[u])
  /\ waiting' = waiting \ {t}
  /\ slot' = [slot EXCEPT ![w] = t]
  /\ UNCHANGED <<time, known, offered, finished, key, rank, closed>>

Finish(w) ==
  /\ slot[w] # NoTask
  /\ slot[w] \notin finished
  /\ finished' = finished \cup {slot[w]}
  /\ slot' = [slot EXCEPT ![w] = NoTask]
  /\ UNCHANGED <<time, known, offered, waiting, key, rank, closed>>

Close ==
  /\ closed' = TRUE
  /\ UNCHANGED <<time, known, offered, waiting, slot, finished, key, rank>>

Next ==
  \/ Advance \/ Close
  \/ \E t \in Tasks : Offer(t) \/ Refuse(t) \/ Accept(t)
  \/ \E w \in Workers : Finish(w) \/ \E t \in Tasks : Take(w, t)

Spec == Init /\ [][Next]_dispatchVars

=============================================================================
