------------------------------ MODULE Pthreads ------------------------------
(***************************************************************************)
(* The part of POSIX threads the programs of this repository rely on when  *)
(* they pair one mutex with condition variables.  A program keeps a        *)
(* function pc from threads to control points; "blocked" is the control    *)
(* point of a thread inside pthread_cond_wait() and "woken" the one of a   *)
(* thread that left the wait queue and still has to take the mutex back.   *)
(* A condition variable is the set of threads that may wait on it.         *)
(***************************************************************************)
EXTENDS Naturals

Sleepers(pc, cond) == {t \in cond : pc[t] = "blocked"}

(* pthread_cond_signal(): one waiting thread, any of them, leaves the queue; *)
(* a signal nobody waits for is lost.                                        *)
Signal(pc, cond) ==
  IF Sleepers(pc, cond) = {}
  THEN {pc}
  ELSE {[pc EXCEPT ![t] = "woken"] : t \in Sleepers(pc, cond)}

(* pthread_cond_broadcast(): every waiting thread leaves the queue.          *)
Broadcast(pc, cond) ==
  [t \in DOMAIN pc |-> IF t \in Sleepers(pc, cond) THEN "woken" ELSE pc[t]]

=============================================================================
