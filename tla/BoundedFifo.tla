----------------------------- MODULE BoundedFifo -----------------------------
(***************************************************************************)
(* What the queue of exercise3_solution.c promises: a first-in first-out   *)
(* queue of at most Capacity numbered items, each put once, in order, and  *)
(* each got by exactly one reader.  No thread, lock or condition variable  *)
(* shows here.                                                             *)
(***************************************************************************)
EXTENDS Naturals, Sequences

CONSTANTS
  Readers,    \* who takes items
  Capacity    \* items the queue can hold

VARIABLES
  queue,      \* the items put and not yet got, oldest first
  next,       \* the number of the next item
  got         \* the items each reader got

fifoVars == <<queue, next, got>>

Init ==
  /\ queue = <<>>
  /\ next = 1
  /\ got = [r \in Readers |-> {}]

PutItem ==
  /\ Len(queue) < Capacity
  /\ queue' = Append(queue, next)
  /\ next' = next + 1
  /\ UNCHANGED got

GetItem(r) ==
  /\ queue # <<>>
  /\ got' = [got EXCEPT ![r] = @ \cup {Head(queue)}]
  /\ queue' = Tail(queue)
  /\ UNCHANGED next

Next == PutItem \/ \E r \in Readers : GetItem(r)

Spec == Init /\ [][Next]_fifoVars

=============================================================================
