------------------------- MODULE DiningPhilosophers -------------------------
(***************************************************************************)
(* The dining philosophers of                                              *)
(*   concurrency-tutorial/exercises/solutions/03-synchronization/          *)
(*     exercise4_solution.c                                                *)
(* who take the lower-numbered fork first, eat a fixed number of meals and *)
(* are joined by main(), which adds the meals up.                          *)
(***************************************************************************)
EXTENDS Integers, Utensils

CONSTANTS
  NUM_PHILOSOPHERS,
  MEALS_PER_PHILOSOPHER,
  Free                      \* the owner of a fork nobody holds

ASSUME DPAssumption ==
  /\ NUM_PHILOSOPHERS \in Nat /\ NUM_PHILOSOPHERS >= 2
  /\ MEALS_PER_PHILOSOPHER \in Nat \ {0}
  /\ Free \notin Nat

Ids == 0 .. NUM_PHILOSOPHERS - 1

VARIABLES
  created,       \* the threads main() has created
  joined,        \* the threads main() has joined
  owner,         \* the holder of each of the mutexes forks[]
  meal,          \* the loop variable of each philosopher
  meals_eaten,   \* the shared array meals_eaten[]
  pc             \* control point of each philosopher

vars == <<created, joined, owner, meal, meals_eaten, pc>>

Init ==
  /\ created = 0
  /\ joined = 0
  /\ owner = [f \in Ids |-> Free]
  /\ meal = [p \in Ids |-> 0]
  /\ meals_eaten = [p \in Ids |-> 0]
  /\ pc = [p \in Ids |-> "new"]

Goto(p, label) == pc' = [pc EXCEPT ![p] = label]

left_fork(p)  == p
right_fork(p) == (p + 1) % NUM_PHILOSOPHERS

(* Fault: the lower-numbered fork is not looked for.                         *)
LeftFirst(p) == left_fork(p)

(* min() and max() of the two forks.                                         *)
first_fork(p)  == IF left_fork(p) < right_fork(p) THEN left_fork(p) ELSE right_fork(p)
second_fork(p) == IF left_fork(p) > right_fork(p) THEN left_fork(p) ELSE right_fork(p)

-----------------------------------------------------------------------------
(* main() *)

Create ==
  /\ created < NUM_PHILOSOPHERS
  /\ created' = created + 1
  /\ Goto(created, "first")
  /\ UNCHANGED <<joined, owner, meal, meals_eaten>>

(* The threads are joined in the order in which they were created.           *)
Join ==
  /\ created = NUM_PHILOSOPHERS
  /\ joined < NUM_PHILOSOPHERS
  /\ pc[joined] = "done"
  /\ joined' = joined + 1
  /\ UNCHANGED <<created, owner, meal, meals_eaten, pc>>

-----------------------------------------------------------------------------
(* philosopher() *)

PickUpFirst(p) ==
  /\ pc[p] = "first"
  /\ owner[first_fork(p)] = Free
  /\ owner' = [owner EXCEPT ![first_fork(p)] = p]
  /\ Goto(p, "second")
  /\ UNCHANGED <<created, joined, meal, meals_eaten>>

(* Fault: the second fork is used without being locked.                      *)
PickUpSecondUnlocked(p) ==
  /\ pc[p] = "second"
  /\ Goto(p, "eat")
  /\ UNCHANGED <<created, joined, owner, meal, meals_eaten>>

PickUpSecond(p) ==
  /\ pc[p] = "second"
  /\ owner[second_fork(p)] = Free
  /\ owner' = [owner EXCEPT ![second_fork(p)] = p]
  /\ Goto(p, "eat")
  /\ UNCHANGED <<created, joined, meal, meals_eaten>>

(* The meal, and the second fork put down after it.                          *)
PutDownSecond(p) ==
  /\ pc[p] = "eat"
  /\ meals_eaten' = [meals_eaten EXCEPT ![p] = @ + 1]
  /\ owner' = [owner EXCEPT ![second_fork(p)] = Free]
  /\ Goto(p, "put_down")
  /\ UNCHANGED <<created, joined, meal>>

(* Fault: a philosopher returns with its first fork in hand.                 *)
KeepFirst(p) ==
  /\ pc[p] = "put_down"
  /\ meal' = [meal EXCEPT ![p] = @ + 1]
  /\ Goto(p, IF meal'[p] < MEALS_PER_PHILOSOPHER THEN "first" ELSE "done")
  /\ owner' = IF meal'[p] < MEALS_PER_PHILOSOPHER
              THEN [owner EXCEPT ![first_fork(p)] = Free] ELSE owner
  /\ UNCHANGED <<created, joined, meals_eaten>>

(* Fault: one meal too many.                                                 *)
PutDownFirstTooOften(p) ==
  /\ pc[p] = "put_down"
  /\ owner' = [owner EXCEPT ![first_fork(p)] = Free]
  /\ meal' = [meal EXCEPT ![p] = @ + 1]
  /\ Goto(p, IF meal[p] < MEALS_PER_PHILOSOPHER THEN "first" ELSE "done")
  /\ UNCHANGED <<created, joined, meals_eaten>>

(* The first fork is put down and the for loop goes on or ends.              *)
PutDownFirst(p) ==
  /\ pc[p] = "put_down"
  /\ owner' = [owner EXCEPT ![first_fork(p)] = Free]
  /\ meal' = [meal EXCEPT ![p] = @ + 1]
  /\ Goto(p, IF meal'[p] < MEALS_PER_PHILOSOPHER THEN "first" ELSE "done")
  /\ UNCHANGED <<created, joined, meals_eaten>>

PhilosopherStep(p) ==
  PickUpFirst(p) \/ PickUpSecond(p) \/ PutDownSecond(p) \/ PutDownFirst(p)

(* main() has returned.                                                      *)
Exited == joined = NUM_PHILOSOPHERS /\ UNCHANGED vars

Next == Create \/ Join \/ (\E p \in Ids : PhilosopherStep(p)) \/ Exited

Spec == Init /\ [][Next]_vars

(* A thread that can take a step, and goes on being able to, takes one.  No  *)
(* fairness of the mutexes is assumed: a philosopher may lose a fork to its  *)
(* neighbour each time, but the neighbour's meals are numbered.              *)
Fairness ==
  /\ WF_vars(Create \/ Join)
  /\ \A p \in Ids : WF_vars(PhilosopherStep(p))

FairSpec == Spec /\ Fairness

-----------------------------------------------------------------------------
(* Properties *)

Labels == {"new", "first", "second", "eat", "put_down", "done"}

(* The ranges of the shared state: nobody eats more than its meals.          *)
TypeOK ==
  /\ created \in 0 .. NUM_PHILOSOPHERS
  /\ joined \in 0 .. NUM_PHILOSOPHERS
  /\ owner \in [Ids -> Ids \cup {Free}]
  /\ meal \in [Ids -> 0 .. MEALS_PER_PHILOSOPHER]
  /\ meals_eaten \in [Ids -> 0 .. MEALS_PER_PHILOSOPHER]
  /\ pc \in [Ids -> Labels]

(* The fork a philosopher is about to lock or blocked on.                    *)
Wanted ==
  [p \in Ids |-> IF pc[p] = "first" THEN first_fork(p)
                 ELSE IF pc[p] = "second" THEN second_fork(p) ELSE Free]

(* "This breaks the circular wait condition": no philosophers ever wait for  *)
(* each other in a circle, however many have picked up a fork.               *)
NoCircularWait == ~CircularWait(Ids, owner, Wanted, Free)

(* The forks implement the table: two neighbours never eat at once.          *)
Table == INSTANCE Diners WITH
  N <- NUM_PHILOSOPHERS,
  eating <- {p \in Ids : pc[p] = "eat"}

NeighboursTakeTurns == Table!Spec

(* "No deadlock! All philosophers ate": main returns, every meal was eaten   *)
(* and no fork is left locked when the mutexes are destroyed.                *)
AllPhilosophersEat ==
  <>(/\ joined = NUM_PHILOSOPHERS
     /\ \A p \in Ids : meals_eaten[p] = MEALS_PER_PHILOSOPHER
     /\ \A f \in Ids : owner[f] = Free)

=============================================================================
