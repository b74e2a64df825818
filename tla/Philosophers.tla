---------------------------- MODULE Philosophers ----------------------------
(***************************************************************************)
(* The five dining-philosophers programs of deadlock-lecture/ (the same    *)
(* files as concurrency-tutorial/synchronization-examples/):               *)
(*                                                                         *)
(*   philo1  everybody takes the left utensil first                        *)
(*   philo2  everybody draws the order at random, once                     *)
(*   philo3  the last philosopher takes them in the other order            *)
(*   philo4  as philo3 (it declares a semaphore and never uses it)         *)
(*   philo5  as philo1, but a semaphore admits 4 philosophers of 5         *)
(*                                                                         *)
(* The programs never stop.  sleep() and printf() are left out: they only  *)
(* delay a thread between two steps that are interleaved anyway.           *)
(***************************************************************************)
EXTENDS Integers, Utensils

CONSTANTS
  Programs,           \* the programs to look at
  numPhilosophers,    \* 5 in all of them
  Permits,            \* the initial value of philo5's semaphore, 4
  Free                \* the owner of a utensil nobody holds

ASSUME PAssumption ==
  /\ Programs \subseteq {"philo1", "philo2", "philo3", "philo4", "philo5"}
  /\ numPhilosophers \in Nat /\ numPhilosophers >= 2
  /\ Permits \in 1 .. numPhilosophers - 1
  /\ Free \notin Nat

Ids == 0 .. numPhilosophers - 1

VARIABLES
  program,     \* the program that runs; it never changes
  created,     \* how many threads main() has created
  chirality,   \* 1: utensil id first; 0: utensil id + 1 first
  owner,       \* the holder of each of the mutexes utensils[]
  semmy,       \* the value of philo5's semaphore
  pc           \* control point of each philosopher

vars == <<program, created, chirality, owner, semmy, pc>>

Init ==
  /\ program \in Programs
  /\ created = 0
  /\ chirality = [p \in Ids |-> 1]
  /\ owner = [u \in Ids |-> Free]
  /\ semmy = Permits
  /\ pc = [p \in Ids |-> "new"]

Goto(p, label) == pc' = [pc EXCEPT ![p] = label]

(* The utensils of philosopher p in the order in which it takes them.        *)
First(p)  == (IF chirality[p] = 1 THEN p ELSE p + 1) % numPhilosophers
Second(p) == (IF chirality[p] = 1 THEN p + 1 ELSE p) % numPhilosophers

(* The order in which philo3 and philo4 put them down is the order in which  *)
(* they took them, the others reverse it.                                    *)
DownFirst(p)  == IF program \in {"philo3", "philo4"} THEN First(p) ELSE Second(p)
DownSecond(p) == IF program \in {"philo3", "philo4"} THEN Second(p) ELSE First(p)

-----------------------------------------------------------------------------
(* main() creates the threads and then waits for the first one for ever.     *)
Create ==
  /\ created < numPhilosophers
  /\ created' = created + 1
  /\ Goto(created, "start")
  /\ UNCHANGED <<program, chirality, owner, semmy>>

(* Fault: nobody takes the utensils in the other order.                      *)
SameChirality(p) == {1}

(* The values chirality may get: only philo2 draws it.                       *)
Chiralities(p) ==
  CASE program = "philo2" -> {0, 1}
    [] program \in {"philo3", "philo4"} -> {IF p # numPhilosophers - 1 THEN 1 ELSE 0}
    [] OTHER -> {1}

(* The label at the top of the loop: philo5 waits for the semaphore there.   *)
LoopTop == IF program = "philo5" THEN "sem_wait" ELSE "first"

Choose(p) ==
  /\ pc[p] = "start"
  /\ \E c \in Chiralities(p) : chirality' = [chirality EXCEPT ![p] = c]
  /\ Goto(p, LoopTop)
  /\ UNCHANGED <<program, created, owner, semmy>>

(* Fault: the semaphore admits one philosopher too many.                     *)
SemWaitTooOften(p) ==
  /\ pc[p] = "sem_wait"
  /\ semmy >= 0
  /\ semmy' = semmy - 1
  /\ Goto(p, "first")
  /\ UNCHANGED <<program, created, chirality, owner>>

SemWait(p) ==
  /\ pc[p] = "sem_wait"
  /\ semmy > 0
  /\ semmy' = semmy - 1
  /\ Goto(p, "first")
  /\ UNCHANGED <<program, created, chirality, owner>>

PickUpFirst(p) ==
  /\ pc[p] = "first"
  /\ owner[First(p)] = Free
  /\ owner' = [owner EXCEPT ![First(p)] = p]
  /\ Goto(p, "second")
  /\ UNCHANGED <<program, created, chirality, semmy>>

(* Fault: the second utensil is used without being locked.                   *)
PickUpSecondUnlocked(p) ==
  /\ pc[p] = "second"
  /\ Goto(p, "eat")
  /\ UNCHANGED <<program, created, chirality, owner, semmy>>

PickUpSecond(p) ==
  /\ pc[p] = "second"
  /\ owner[Second(p)] = Free
  /\ owner' = [owner EXCEPT ![Second(p)] = p]
  /\ Goto(p, "eat")
  /\ UNCHANGED <<program, created, chirality, semmy>>

PutDownFirst(p) ==
  /\ pc[p] = "eat"
  /\ owner' = [owner EXCEPT ![DownFirst(p)] = Free]
  /\ Goto(p, "put_down")
  /\ UNCHANGED <<program, created, chirality, semmy>>

(* Fault: the same utensil is put down twice.                                *)
PutDownAgain(p) ==
  /\ pc[p] = "put_down"
  /\ owner' = [owner EXCEPT ![DownFirst(p)] = Free]
  /\ Goto(p, IF program = "philo5" THEN "sem_post" ELSE LoopTop)
  /\ UNCHANGED <<program, created, chirality, semmy>>

PutDownSecond(p) ==
  /\ pc[p] = "put_down"
  /\ owner' = [owner EXCEPT ![DownSecond(p)] = Free]
  /\ Goto(p, IF program = "philo5" THEN "sem_post" ELSE LoopTop)
  /\ UNCHANGED <<program, created, chirality, semmy>>

SemPost(p) ==
  /\ pc[p] = "sem_post"
  /\ semmy' = semmy + 1
  /\ Goto(p, LoopTop)
  /\ UNCHANGED <<program, created, chirality, owner>>

Next ==
  \/ Create
  \/ \E p \in Ids :
       Choose(p) \/ SemWait(p) \/ PickUpFirst(p) \/ PickUpSecond(p)
         \/ PutDownFirst(p) \/ PutDownSecond(p) \/ SemPost(p)

Spec == Init /\ [][Next]_vars

(* A runnable thread is scheduled; a thread blocked on a mutex or on the     *)
(* semaphore gets it if it becomes available again and again.                *)
Fairness ==
  /\ WF_vars(Create)
  /\ \A p \in Ids :
       /\ WF_vars(Choose(p) \/ PutDownFirst(p) \/ PutDownSecond(p) \/ SemPost(p))
       /\ SF_vars(SemWait(p)) /\ SF_vars(PickUpFirst(p)) /\ SF_vars(PickUpSecond(p))

FairSpec == Spec /\ Fairness

-----------------------------------------------------------------------------
(* Properties *)

Labels == {"new", "start", "sem_wait", "first", "second", "eat", "put_down", "sem_post"}

(* The ranges of the shared state; the semaphore stays between 0 and the     *)
(* number of permits.                                                        *)
TypeOK ==
  /\ program \in Programs
  /\ created \in 0 .. numPhilosophers
  /\ chirality \in [Ids -> {0, 1}]
  /\ owner \in [Ids -> Ids \cup {Free}]
  /\ semmy \in 0 .. Permits
  /\ pc \in [Ids -> Labels]

(* The utensil a philosopher is about to lock or blocked on.                 *)
Wanted ==
  [p \in Ids |-> IF pc[p] = "first" THEN First(p)
                 ELSE IF pc[p] = "second" THEN Second(p) ELSE Free]

(* Philosophers wait for each other in a circle only where nobody took care  *)
(* of the order: in philo1, and in philo2 if all drew the same one.          *)
DeadlockNeedsSameOrder ==
  CircularWait(Ids, owner, Wanted, Free) =>
    /\ program \in {"philo1", "philo2"}
    /\ \A p, q \in Ids : chirality[p] = chirality[q]

(* "Should not deadlock": no philosophers ever wait for each other in a      *)
(* circle, in whatever order they took their utensils.                       *)
NoCircularWait == ~CircularWait(Ids, owner, Wanted, Free)

(* The mutexes implement the table: two neighbours never hold both of their  *)
(* utensils at the same time, however the array index wraps.                 *)
Table == INSTANCE Diners WITH
  N <- numPhilosophers,
  eating <- {p \in Ids : pc[p] = "eat"}

NeighboursTakeTurns == Table!Spec

(* In the programs that exclude the circle no philosopher starves: each one  *)
(* eats again and again.                                                     *)
NoStarvation ==
  program \in {"philo3", "philo4", "philo5"} => \A p \in Ids : []<>(pc[p] = "eat")

=============================================================================
