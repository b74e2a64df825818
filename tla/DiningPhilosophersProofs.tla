---------------------- MODULE DiningPhilosophersProofs ----------------------
(***************************************************************************)
(* Proofs about DiningPhilosophers, for a table of any size and any number *)
(* of meals: the type invariant, the absence of circular waits, and the    *)
(* implementation of the abstract table.                                   *)
(***************************************************************************)
EXTENDS DiningPhilosophers, WellFoundedInduction, TLAPS

-----------------------------------------------------------------------------
(* The inductive invariant *)

HoldsFirst == {"second", "eat", "put_down"}

(* A fork has an owner exactly while that philosopher holds it as its first  *)
(* or as its second one.                                                     *)
ForkInv ==
  \A p, f \in Ids :
    owner[f] = p <=> \/ f = first_fork(p) /\ pc[p] \in HoldsFirst
                     \/ f = second_fork(p) /\ pc[p] = "eat"

(* The meals of a philosopher, from where it stands.                         *)
MealsInv ==
  \A p \in Ids :
    /\ p >= created => pc[p] = "new"
    /\ pc[p] = "new" => meal[p] = 0
    /\ pc[p] \in {"first", "second", "eat", "put_down"} => meal[p] < MEALS_PER_PHILOSOPHER
    /\ meals_eaten[p] = IF pc[p] = "put_down" THEN meal[p] + 1 ELSE meal[p]

IInv == TypeOK /\ ForkInv /\ MealsInv

-----------------------------------------------------------------------------
(* The forks of a philosopher *)

LEMMA RightFork ==
  ASSUME NEW p \in Ids
  PROVE  right_fork(p) = IF p = NUM_PHILOSOPHERS - 1 THEN 0 ELSE p + 1
<1> DEFINE N == NUM_PHILOSOPHERS
<1>1. N \in Nat /\ N >= 2 /\ p \in 0 .. N - 1
  BY DPAssumption DEF Ids
<1>2. CASE p = N - 1
  <2>1. N % N = 0
    BY <1>1
  <2> QED  BY <1>1, <1>2, <2>1 DEF right_fork
<1>3. CASE p # N - 1
  <2>1. p + 1 \in 0 .. N - 1
    BY <1>1, <1>3
  <2>2. (p + 1) % N = p + 1
    BY <1>1, <2>1
  <2> QED  BY <1>3, <2>2 DEF right_fork
<1> QED  BY <1>2, <1>3

(* The order in which the forks are taken is that of their numbers.          *)
LEMMA Forks ==
  ASSUME NEW p \in Ids
  PROVE  /\ first_fork(p) \in Ids /\ second_fork(p) \in Ids
         /\ first_fork(p) < second_fork(p)
         /\ {first_fork(p), second_fork(p)} = {p, right_fork(p)}
         /\ right_fork(p) \in Ids /\ right_fork(p) # p
<1>1. /\ NUM_PHILOSOPHERS \in Nat /\ NUM_PHILOSOPHERS >= 2
      /\ p \in Nat /\ p <= NUM_PHILOSOPHERS - 1
  BY DPAssumption DEF Ids
<1>2. right_fork(p) \in Ids /\ right_fork(p) # p
  BY <1>1, RightFork DEF Ids
<1>3. right_fork(p) \in Nat
  BY <1>2 DEF Ids
<1> QED  BY <1>1, <1>2, <1>3 DEF first_fork, second_fork, left_fork

(* The left neighbour of q is the philosopher whose right fork is q.         *)
LEMMA LeftNeighbour ==
  ASSUME NEW q \in Ids
  PROVE  /\ (q + NUM_PHILOSOPHERS - 1) % NUM_PHILOSOPHERS \in Ids
         /\ right_fork((q + NUM_PHILOSOPHERS - 1) % NUM_PHILOSOPHERS) = q
<1> DEFINE N == NUM_PHILOSOPHERS
           l == (q + N - 1) % N
<1>1. N \in Nat /\ N >= 2 /\ q \in Nat /\ q <= N - 1
  BY DPAssumption DEF Ids
<1>2. CASE q = 0
  <2>1. (N - 1) % N = N - 1
    BY <1>1
  <2>2. l = N - 1
    BY <1>1, <1>2, <2>1
  <2>3. l \in Ids
    BY <1>1, <2>2 DEF Ids
  <2> QED  BY <1>1, <1>2, <2>2, <2>3, RightFork
<1>3. CASE q # 0
  <2>1. q - 1 \in 0 .. N - 1 /\ q + N - 1 = (q - 1) + N
    BY <1>1, <1>3
  <2>2. ((q - 1) + N) % N = q - 1
    BY <1>1, <2>1
  <2>3. l = q - 1
    BY <2>1, <2>2
  <2>4. l \in Ids /\ l # N - 1
    BY <1>1, <1>3, <2>3 DEF Ids
  <2> QED  BY <1>1, <2>3, <2>4, RightFork
<1> QED  BY <1>2, <1>3

LEMMA FreeIsNobody == Free \notin Ids
  BY DPAssumption DEF Ids

-----------------------------------------------------------------------------
(* The invariant *)

LEMMA InvInit == Init => IInv
<1> SUFFICES ASSUME Init PROVE IInv
  OBVIOUS
<1> USE DPAssumption
<1>1. TypeOK
  BY DEF Init, TypeOK, Labels
<1>2. ForkInv
  BY FreeIsNobody DEF Init, ForkInv, HoldsFirst
<1>3. MealsInv
  BY DEF Init, MealsInv
<1> QED  BY <1>1, <1>2, <1>3 DEF IInv

(* What every step of one philosopher has in common: it changes its own      *)
(* control point, its own counters and at most one of its own forks.         *)
LEMMA InvStep == IInv /\ [Next]_vars => IInv'
<1> SUFFICES ASSUME IInv, [Next]_vars PROVE IInv'
  OBVIOUS
<1> USE DEF IInv
<1>t. /\ TypeOK /\ ForkInv /\ MealsInv
      /\ NUM_PHILOSOPHERS \in Nat /\ MEALS_PER_PHILOSOPHER \in Nat
      /\ pc \in [Ids -> Labels] /\ owner \in [Ids -> Ids \cup {Free}]
      /\ meal \in [Ids -> 0 .. MEALS_PER_PHILOSOPHER]
      /\ meals_eaten \in [Ids -> 0 .. MEALS_PER_PHILOSOPHER]
      /\ created \in 0 .. NUM_PHILOSOPHERS /\ joined \in 0 .. NUM_PHILOSOPHERS
  BY DPAssumption DEF TypeOK
<1>1. CASE Create
  <2>1. /\ created \in Ids /\ pc[created] = "new" /\ created' = created + 1
        /\ pc' = [pc EXCEPT ![created] = "first"]
        /\ UNCHANGED <<joined, owner, meal, meals_eaten>>
    BY <1>t, <1>1 DEF Create, Goto, MealsInv, Ids
  <2>2. TypeOK'
    BY <1>t, <2>1 DEF TypeOK, Labels, Ids
  <2>3. ForkInv'
    BY <1>t, <2>1 DEF ForkInv, HoldsFirst, first_fork, second_fork
  <2>4. MealsInv'
    BY <1>t, <2>1, DPAssumption DEF MealsInv, Ids
  <2> QED  BY <2>2, <2>3, <2>4
<1>2. CASE Join
  <2>1. /\ joined' \in 0 .. NUM_PHILOSOPHERS
        /\ UNCHANGED <<created, owner, meal, meals_eaten, pc>>
    BY <1>t, <1>2 DEF Join
  <2> QED  BY <1>t, <2>1 DEF TypeOK, ForkInv, MealsInv, first_fork, second_fork
<1>3. ASSUME NEW p \in Ids, PickUpFirst(p) PROVE IInv'
  <2>1. /\ pc[p] = "first" /\ owner[first_fork(p)] = Free
        /\ owner' = [owner EXCEPT ![first_fork(p)] = p]
        /\ pc' = [pc EXCEPT ![p] = "second"]
        /\ UNCHANGED <<created, joined, meal, meals_eaten>>
    BY <1>3 DEF PickUpFirst, Goto
  <2>2. first_fork(p) \in Ids /\ second_fork(p) \in Ids /\ first_fork(p) < second_fork(p)
    BY Forks
  <2>3. TypeOK'
    BY <1>t, <2>1, <2>2 DEF TypeOK, Labels
  <2>4. ForkInv'
    BY <1>t, <2>1, <2>2, FreeIsNobody DEF ForkInv, HoldsFirst
  <2>5. MealsInv'
    BY <1>t, <2>1 DEF MealsInv
  <2> QED  BY <2>3, <2>4, <2>5
<1>4. ASSUME NEW p \in Ids, PickUpSecond(p) PROVE IInv'
  <2>1. /\ pc[p] = "second" /\ owner[second_fork(p)] = Free
        /\ owner' = [owner EXCEPT ![second_fork(p)] = p]
        /\ pc' = [pc EXCEPT ![p] = "eat"]
        /\ UNCHANGED <<created, joined, meal, meals_eaten>>
    BY <1>4 DEF PickUpSecond, Goto
  <2>2. first_fork(p) \in Ids /\ second_fork(p) \in Ids /\ first_fork(p) < second_fork(p)
    BY Forks
  <2>3. TypeOK'
    BY <1>t, <2>1, <2>2 DEF TypeOK, Labels
  <2>4. ForkInv'
    BY <1>t, <2>1, <2>2, FreeIsNobody DEF ForkInv, HoldsFirst
  <2>5. MealsInv'
    BY <1>t, <2>1 DEF MealsInv
  <2> QED  BY <2>3, <2>4, <2>5
<1>5. ASSUME NEW p \in Ids, PutDownSecond(p) PROVE IInv'
  <2>1. /\ pc[p] = "eat"
        /\ meals_eaten' = [meals_eaten EXCEPT ![p] = meals_eaten[p] + 1]
        /\ owner' = [owner EXCEPT ![second_fork(p)] = Free]
        /\ pc' = [pc EXCEPT ![p] = "put_down"]
        /\ UNCHANGED <<created, joined, meal>>
    BY <1>5 DEF PutDownSecond, Goto
  <2>2. first_fork(p) \in Ids /\ second_fork(p) \in Ids /\ first_fork(p) < second_fork(p)
    BY Forks
  <2>3. meal[p] < MEALS_PER_PHILOSOPHER /\ meals_eaten[p] = meal[p] /\ meal[p] \in Nat
    BY <1>t, <2>1 DEF MealsInv
  <2>4. meals_eaten[p] + 1 \in 0 .. MEALS_PER_PHILOSOPHER
    BY <1>t, <2>3
  <2>5. TypeOK'
    BY <1>t, <2>1, <2>2, <2>4 DEF TypeOK, Labels
  <2>6. ForkInv'
    <3>1. SUFFICES ASSUME NEW q \in Ids, NEW f \in Ids
                   PROVE  owner'[f] = q <=> \/ f = first_fork(q) /\ pc'[q] \in HoldsFirst
                                            \/ f = second_fork(q) /\ pc'[q] = "eat"
      BY DEF ForkInv, first_fork, second_fork, left_fork, right_fork
    <3>2. /\ owner'[f] = IF f = second_fork(p) THEN Free ELSE owner[f]
          /\ pc'[q] = IF q = p THEN "put_down" ELSE pc[q]
      BY <1>t, <2>1
    <3>3. /\ owner[f] = q <=> \/ f = first_fork(q) /\ pc[q] \in HoldsFirst
                              \/ f = second_fork(q) /\ pc[q] = "eat"
          /\ owner[second_fork(p)] = p
      BY <1>t, <2>1, <2>2 DEF ForkInv
    <3>4. second_fork(p) # first_fork(p) /\ Free # q
      BY <2>2, FreeIsNobody DEF Ids
    <3>5. CASE q = p
      BY <2>1, <3>2, <3>3, <3>4, <3>5 DEF HoldsFirst
    <3>6. CASE q # p
      BY <3>2, <3>3, <3>4, <3>6
    <3> QED  BY <3>5, <3>6
  <2>7. MealsInv'
    BY <1>t, <2>1, <2>3 DEF MealsInv
  <2> QED  BY <2>5, <2>6, <2>7
<1>6. ASSUME NEW p \in Ids, PutDownFirst(p) PROVE IInv'
  <2> DEFINE next == IF meal[p] + 1 < MEALS_PER_PHILOSOPHER THEN "first" ELSE "done"
  <2>1. /\ pc[p] = "put_down"
        /\ owner' = [owner EXCEPT ![first_fork(p)] = Free]
        /\ meal' = [meal EXCEPT ![p] = meal[p] + 1]
        /\ pc' = [pc EXCEPT ![p] = next]
        /\ UNCHANGED <<created, joined, meals_eaten>>
    BY <1>t, <1>6 DEF PutDownFirst, Goto
  <2>2. first_fork(p) \in Ids /\ second_fork(p) \in Ids /\ first_fork(p) < second_fork(p)
    BY Forks
  <2>3. /\ meal[p] < MEALS_PER_PHILOSOPHER /\ meals_eaten[p] = meal[p] + 1 /\ meal[p] \in Nat
        /\ p < created
    BY <1>t, <2>1 DEF MealsInv, Ids
  <2>4. meal[p] + 1 \in 0 .. MEALS_PER_PHILOSOPHER /\ next \in {"first", "done"}
    BY <1>t, <2>3
  <2>5. TypeOK'
    BY <1>t, <2>1, <2>2, <2>4 DEF TypeOK, Labels
  <2>6. ForkInv'
    BY <1>t, <2>1, <2>2, <2>4, FreeIsNobody DEF ForkInv, HoldsFirst
  <2>7. MealsInv'
    BY <1>t, <2>1, <2>3, <2>4 DEF MealsInv, Ids
  <2> QED  BY <2>5, <2>6, <2>7
<1>7. CASE UNCHANGED vars
  BY <1>t, <1>7 DEF vars, TypeOK, ForkInv, MealsInv, first_fork, second_fork
<1> QED
  BY <1>1, <1>2, <1>3, <1>4, <1>5, <1>6, <1>7 DEF Next, PhilosopherStep, Exited

LEMMA Invariance == Spec => []IInv
  BY InvInit, InvStep, PTL DEF Spec

(* The shared state of the table stays in range, whatever the philosophers'  *)
(* interleaving; nobody eats more than its meals.                            *)
THEOREM TypeCorrect == Spec => []TypeOK
<1>1. IInv => TypeOK
  BY DEF IInv
<1> QED  BY <1>1, Invariance, PTL

-----------------------------------------------------------------------------
(* Circular waits *)

(* Who waits for a fork that a waiting philosopher holds waits for a lower   *)
(* one than that philosopher does.                                           *)
LEMMA WaitsUpwards ==
  ASSUME TypeOK, ForkInv, NEW t \in Ids, NEW u \in Ids,
         Wanted[t] # Free, Wanted[u] # Free, owner[Wanted[t]] = u
  PROVE  Wanted[t] \in Ids /\ Wanted[u] \in Ids /\ Wanted[t] < Wanted[u]
<1>1. /\ first_fork(t) \in Ids /\ second_fork(t) \in Ids
      /\ first_fork(u) \in Ids /\ second_fork(u) \in Ids
      /\ first_fork(u) < second_fork(u)
  BY Forks
<1>2. /\ Wanted[t] = IF pc[t] = "first" THEN first_fork(t)
                     ELSE IF pc[t] = "second" THEN second_fork(t) ELSE Free
      /\ Wanted[u] = IF pc[u] = "first" THEN first_fork(u)
                     ELSE IF pc[u] = "second" THEN second_fork(u) ELSE Free
  BY DEF Wanted
<1>3. Wanted[t] \in Ids /\ pc[u] \in {"first", "second"}
  BY <1>1, <1>2
<1>4. Wanted[t] = first_fork(u) /\ pc[u] = "second"
  BY <1>1, <1>3 DEF ForkInv, HoldsFirst
<1> QED  BY <1>1, <1>2, <1>3, <1>4

LEMMA NoCircle == TypeOK /\ ForkInv => NoCircularWait
<1> SUFFICES ASSUME TypeOK, ForkInv,
                    NEW S \in SUBSET Ids, S # {},
                    \A t \in S : Wanted[t] # Free /\ owner[Wanted[t]] \in S
             PROVE  FALSE
  BY DEF NoCircularWait, CircularWait
<1> DEFINE R == OpToRel(<, Nat)
           D == {NUM_PHILOSOPHERS - Wanted[t] : t \in S}
<1>1. \A t \in S : /\ owner[Wanted[t]] \in S
                   /\ Wanted[t] \in Ids
                   /\ Wanted[t] < Wanted[owner[Wanted[t]]]
  BY WaitsUpwards
<1>2. NUM_PHILOSOPHERS \in Nat /\ \A f \in Ids : f \in Nat /\ NUM_PHILOSOPHERS - f \in Nat
  BY DPAssumption DEF Ids
<1>3. D \subseteq Nat /\ D # {}
  BY <1>1, <1>2
<1>4. PICK d \in D : \A e \in D : ~ (<<e, d>> \in R)
  <2> HIDE DEF D, R
  <2>1. IsWellFoundedOn(R, Nat)
    BY NatLessThanWellFounded DEF R
  <2> QED  BY <1>3, <2>1, WFMin
<1>5. PICK t \in S : d = NUM_PHILOSOPHERS - Wanted[t]
  OBVIOUS
<1>6. /\ owner[Wanted[t]] \in S
      /\ Wanted[t] \in Nat /\ Wanted[owner[Wanted[t]]] \in Nat
      /\ Wanted[t] < Wanted[owner[Wanted[t]]]
  BY <1>1, <1>2
<1> DEFINE e == NUM_PHILOSOPHERS - Wanted[owner[Wanted[t]]]
<1>7. e \in D
  BY <1>6
<1>8. e \in Nat /\ d \in Nat /\ e < d
  BY <1>1, <1>2, <1>5, <1>6
<1>9. <<e, d>> \in R
  BY <1>8 DEF OpToRel
<1> QED  BY <1>4, <1>7, <1>9

(* Taking the lower-numbered fork first excludes that any philosophers wait  *)
(* for each other in a circle.                                               *)
THEOREM OrderPreventsCircularWait == Spec => []NoCircularWait
<1>1. IInv => NoCircularWait
  BY NoCircle DEF IInv
<1> QED  BY <1>1, Invariance, PTL

-----------------------------------------------------------------------------
(* The abstract table *)

Eating == {p \in Ids : pc[p] = "eat"}

(* A philosopher that eats holds its left and its right fork.                *)
LEMMA EaterHoldsBoth ==
  ASSUME ForkInv, NEW q \in Ids, pc[q] = "eat"
  PROVE  owner[q] = q /\ owner[right_fork(q)] = q
<1>1. /\ first_fork(q) \in Ids /\ second_fork(q) \in Ids
      /\ {first_fork(q), second_fork(q)} = {q, right_fork(q)}
      /\ right_fork(q) \in Ids
  BY Forks
<1>2. owner[first_fork(q)] = q /\ owner[second_fork(q)] = q
  BY <1>1 DEF ForkInv, HoldsFirst
<1> QED  BY <1>1, <1>2

(* Who has taken its first fork and finds the second one free has no eating  *)
(* neighbour.                                                                *)
LEMMA StartAlone ==
  ASSUME IInv, NEW p \in Ids, PickUpSecond(p)
  PROVE  Table!Neighbours(p) \cap Eating = {}
<1>1. /\ owner[first_fork(p)] = p /\ owner[second_fork(p)] = Free
      /\ {first_fork(p), second_fork(p)} = {p, right_fork(p)}
      /\ right_fork(p) \in Ids /\ right_fork(p) # p
  BY Forks DEF IInv, ForkInv, PickUpSecond, HoldsFirst
<1>2. owner[p] \in {p, Free} /\ owner[right_fork(p)] \in {p, Free}
  BY <1>1
<1> DEFINE l == (p + NUM_PHILOSOPHERS - 1) % NUM_PHILOSOPHERS
<1>3. l \in Ids /\ right_fork(l) = p
  BY LeftNeighbour
<1>4. l # p
  BY <1>3, Forks
<1>5. pc[right_fork(p)] # "eat"
  BY <1>1, <1>2, FreeIsNobody, EaterHoldsBoth DEF IInv
<1>6. pc[l] # "eat"
  BY <1>2, <1>3, <1>4, FreeIsNobody, EaterHoldsBoth DEF IInv
<1>7. Table!Neighbours(p) = {right_fork(p), l}
  BY DEF Table!Neighbours, right_fork
<1> QED  BY <1>5, <1>6, <1>7 DEF Eating

LEMMA TableStep == IInv /\ [Next]_vars => [Table!Next]_Eating
<1> SUFFICES ASSUME IInv, [Next]_vars PROVE [Table!Next]_Eating
  OBVIOUS
<1>t. pc \in [Ids -> Labels] /\ Table!Seats = Ids
  BY DEF IInv, TypeOK, Table!Seats, Ids
<1>1. ASSUME NEW p \in Ids, PickUpSecond(p) PROVE Table!Next
  <2>1. pc[p] = "second" /\ pc' = [pc EXCEPT ![p] = "eat"]
    BY <1>1 DEF PickUpSecond, Goto
  <2>2. p \notin Eating /\ Eating' = Eating \cup {p}
    BY <1>t, <2>1 DEF Eating
  <2>3. Table!StartEating(p)
    BY <1>1, <2>2, StartAlone DEF Table!StartEating, Eating
  <2> QED  BY <1>t, <2>3 DEF Table!Next
<1>2. ASSUME NEW p \in Ids, PutDownSecond(p) PROVE Table!Next
  <2>1. pc[p] = "eat" /\ pc' = [pc EXCEPT ![p] = "put_down"]
    BY <1>2 DEF PutDownSecond, Goto
  <2>2. p \in Eating /\ Eating' = Eating \ {p}
    BY <1>t, <2>1 DEF Eating
  <2>3. Table!StopEating(p)
    BY <2>2 DEF Table!StopEating, Eating
  <2> QED  BY <1>t, <2>3 DEF Table!Next
<1>3. ASSUME NEW p \in Ids, PickUpFirst(p) \/ PutDownFirst(p) PROVE Eating' = Eating
  <2>1. PICK label \in {"second", "first", "done"} : pc' = [pc EXCEPT ![p] = label]
    BY <1>3 DEF PickUpFirst, PutDownFirst, Goto
  <2>2. pc[p] # "eat"
    BY <1>3 DEF PickUpFirst, PutDownFirst
  <2> QED  BY <1>t, <2>1, <2>2 DEF Eating
<1>4. CASE Create
  <2>1. created \in Ids /\ pc[created] # "eat" /\ pc' = [pc EXCEPT ![created] = "first"]
    BY <1>4, DPAssumption DEF IInv, TypeOK, MealsInv, Create, Goto, Ids
  <2> QED  BY <1>t, <2>1 DEF Eating
<1>5. CASE Join \/ UNCHANGED vars
  BY <1>5 DEF Join, vars, Eating
<1> QED
  BY <1>1, <1>2, <1>3, <1>4, <1>5 DEF Next, PhilosopherStep, Exited

(* The forks implement the table: neighbours never eat at the same time.     *)
THEOREM TableRefinement == Spec => NeighboursTakeTurns
<1>1. Init => Table!Init
  BY DEF Init, Table!Init
<1>2. IInv /\ [Next]_vars => [Table!Next]_Eating
  BY TableStep
<1> QED  BY <1>1, <1>2, Invariance, PTL DEF Spec, NeighboursTakeTurns, Table!Spec, Eating

=============================================================================
