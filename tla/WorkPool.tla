------------------------------ MODULE WorkPool ------------------------------
(***************************************************************************)
(* What task_distributor.c and worker.c promise about each task: it is     *)
(* handed to one worker, the oldest first, answered once and collected     *)
(* once.  It can be lost on the way, with a worker that is killed or with  *)
(* a queue that is removed.                                                *)
(***************************************************************************)
EXTENDS Naturals

CONSTANTS
  Tasks,        \* pairs of a round and a number, both natural numbers
  Workers

VARIABLES
  place,        \* where each task is
  worker        \* the worker that has or had it, 0 before

Older(t, u) == t[1] < u[1] \/ (t[1] = u[1] /\ t[2] < u[2])

Init ==
  /\ place = [t \in Tasks |-> "new"]
  /\ worker = [t \in Tasks |-> 0]

Move(t, from, to) == place[t] = from /\ place' = [place EXCEPT ![t] = to]

Submit(t) ==
  /\ Move(t, "new", "queued")
  /\ \A u \in Tasks : place[u] = "queued" => Older(u, t)
  /\ UNCHANGED worker

Take(t, w) ==
  /\ Move(t, "queued", "held")
  /\ \A u \in Tasks \ {t} : place[u] = "queued" => Older(t, u)
  /\ \A u \in Tasks : ~(place[u] = "held" /\ worker[u] = w)
  /\ worker' = [worker EXCEPT ![t] = w]

Answer(t) == Move(t, "held", "answered") /\ UNCHANGED worker

Collect(t) == Move(t, "answered", "collected") /\ UNCHANGED worker

LoseHeld(t) == Move(t, "held", "lost") /\ UNCHANGED worker

(* The queue is removed; an answer collected before stays collected.         *)
Discard ==
  /\ place' = [t \in Tasks |-> IF place[t] \in {"queued", "answered"}
                               THEN "lost" ELSE place[t]]
  /\ UNCHANGED worker

Next ==
  \/ \E t \in Tasks : \/ Submit(t) \/ Answer(t) \/ Collect(t) \/ LoseHeld(t)
                      \/ \E w \in Workers : Take(t, w)
  \/ Discard

Spec == Init /\ [][Next]_<<place, worker>>

=============================================================================
