--------------------------- MODULE AbstractBarrier ---------------------------
(***************************************************************************)
(* What barrier_wait() of exercise5_solution.c promises: a thread leaves   *)
(* the barrier for the n-th time only after every thread has entered it n  *)
(* times.                                                                  *)
(***************************************************************************)
EXTENDS Naturals

CONSTANT Parties

VARIABLES
  entered,    \* how often each party reached the barrier
  left        \* how often each party was let through

barrierVars == <<entered, left>>

Init ==
  /\ entered = [t \in Parties |-> 0]
  /\ left = [t \in Parties |-> 0]

Enter(t) ==
  /\ entered[t] = left[t]
  /\ entered' = [entered EXCEPT ![t] = @ + 1]
  /\ UNCHANGED left

Leave(t) ==
  /\ left[t] < entered[t]
  /\ \A u \in Parties : entered[u] >= entered[t]
  /\ left' = [left EXCEPT ![t] = @ + 1]
  /\ UNCHANGED entered

Next == \E t \in Parties : Enter(t) \/ Leave(t)

Spec == Init /\ [][Next]_barrierVars

=============================================================================
