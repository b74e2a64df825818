------------------------- MODULE PhilosophersProofs -------------------------
(***************************************************************************)
(* Proofs about Philosophers, for a table of any size and any number of    *)
(* permits below it: the ranges of the shared state, which of the five     *)
(* programs can reach a circular wait, and the implementation of the       *)
(* abstract table.                                                         *)
(***************************************************************************)
EXTENDS Philosophers, FiniteSetTheorems, WellFoundedInduction, TLAPS

-----------------------------------------------------------------------------
(* The inductive invariant *)

(* A utensil has an owner exactly while that philosopher holds it.           *)
OwnerInv ==
  \A p, u \in Ids :
    owner[u] = p <=> \/ pc[p] = "second" /\ u = First(p)
                     \/ pc[p] = "eat" /\ u \in {First(p), Second(p)}
                     \/ pc[p] = "put_down" /\ u = DownSecond(p)

(* main() creates the philosophers in the order of their numbers.            *)
CreatedInv == \A p \in Ids : p >= created => pc[p] = "new"

(* The order in which each program makes a philosopher take its utensils.    *)
ChiralityInv ==
  \A p \in Ids :
    /\ program \in {"philo1", "philo5"} => chirality[p] = 1
    /\ program \in {"philo3", "philo4"} /\ pc[p] \notin {"new", "start"} =>
         chirality[p] = IF p # numPhilosophers - 1 THEN 1 ELSE 0

(* The philosophers between sem_wait() and sem_post().                       *)
Inside == {p \in Ids : pc[p] \in {"first", "second", "eat", "put_down", "sem_post"}}

(* Each philosopher inside uses up one permit.                               *)
SemInv ==
  /\ program = "philo5" => semmy = Permits - Cardinality(Inside)
  /\ program # "philo5" => /\ semmy = Permits
                           /\ \A p \in Ids : pc[p] \notin {"sem_wait", "sem_post"}

IInv == TypeOK /\ OwnerInv /\ CreatedInv /\ ChiralityInv /\ SemInv

-----------------------------------------------------------------------------
(* The utensils of a philosopher *)

LEMMA SizeFacts ==
  /\ numPhilosophers \in Nat /\ numPhilosophers >= 2
  /\ Permits \in Nat /\ Permits >= 1 /\ Permits <= numPhilosophers - 1
  /\ Free \notin Ids
BY PAssumption DEF Ids

Right(p) == (p + 1) % numPhilosophers

LEMMA RightValue ==
  ASSUME NEW p \in Ids
  PROVE  /\ Right(p) = IF p = numPhilosophers - 1 THEN 0 ELSE p + 1
         /\ p % numPhilosophers = p
         /\ Right(p) \in Ids /\ Right(p) # p
<1> DEFINE N == numPhilosophers
<1>1. N \in Nat /\ N >= 2 /\ p \in 0 .. N - 1
  BY SizeFacts DEF Ids
<1>2. p % N = p
  BY <1>1
<1>3. CASE p = N - 1
  <2>1. N % N = 0
    BY <1>1
  <2> QED  BY <1>1, <1>2, <1>3, <2>1 DEF Right, Ids
<1>4. CASE p # N - 1
  <2>1. p + 1 \in 0 .. N - 1
    BY <1>1, <1>4
  <2>2. (p + 1) % N = p + 1
    BY <1>1, <2>1
  <2> QED  BY <1>1, <1>2, <1>4, <2>1, <2>2 DEF Right, Ids
<1> QED  BY <1>3, <1>4

(* Whatever the order, it is the utensils p and Right(p) that p takes, and   *)
(* puts down.                                                                *)
LEMMA Sides ==
  ASSUME NEW p \in Ids
  PROVE  /\ First(p) = IF chirality[p] = 1 THEN p ELSE Right(p)
         /\ Second(p) = IF chirality[p] = 1 THEN Right(p) ELSE p
         /\ First(p) \in Ids /\ Second(p) \in Ids /\ First(p) # Second(p)
         /\ \/ DownFirst(p) = First(p) /\ DownSecond(p) = Second(p)
            \/ DownFirst(p) = Second(p) /\ DownSecond(p) = First(p)
<1>1. /\ First(p) = IF chirality[p] = 1 THEN p ELSE Right(p)
      /\ Second(p) = IF chirality[p] = 1 THEN Right(p) ELSE p
  BY RightValue DEF First, Second, Right
<1>2. First(p) \in Ids /\ Second(p) \in Ids /\ First(p) # Second(p)
  BY <1>1, RightValue
<1> QED  BY <1>1, <1>2 DEF DownFirst, DownSecond

(* The left neighbour of q is the philosopher whose right utensil is q.      *)
LEMMA LeftNeighbour ==
  ASSUME NEW q \in Ids
  PROVE  /\ (q + numPhilosophers - 1) % numPhilosophers \in Ids
         /\ Right((q + numPhilosophers - 1) % numPhilosophers) = q
<1> DEFINE N == numPhilosophers
           l == (q + N - 1) % N
<1>1. N \in Nat /\ N >= 2 /\ q \in Nat /\ q <= N - 1
  BY SizeFacts DEF Ids
<1>2. CASE q = 0
  <2>1. (N - 1) % N = N - 1
    BY <1>1
  <2>2. l = N - 1
    BY <1>1, <1>2, <2>1
  <2>3. l \in Ids
    BY <1>1, <2>2 DEF Ids
  <2> QED  BY <1>1, <1>2, <2>2, <2>3, RightValue
<1>3. CASE q # 0
  <2>1. q - 1 \in 0 .. N - 1 /\ q + N - 1 = (q - 1) + N
    BY <1>1, <1>3
  <2>2. ((q - 1) + N) % N = q - 1
    BY <1>1, <2>1
  <2>3. l = q - 1
    BY <2>1, <2>2
  <2>4. l \in Ids /\ l # N - 1
    BY <1>1, <1>3, <2>3 DEF Ids
  <2> QED  BY <1>1, <2>3, <2>4, RightValue
<1> QED  BY <1>2, <1>3

-----------------------------------------------------------------------------
(* The philosophers inside *)

LEMMA InsideIsFinite ==
  /\ IsFiniteSet(Ids) /\ Cardinality(Ids) = numPhilosophers
  /\ IsFiniteSet(Inside) /\ Cardinality(Inside) \in Nat
<1>1. IsFiniteSet(Ids) /\ Cardinality(Ids) = numPhilosophers
  BY SizeFacts, FS_Interval DEF Ids
<1>2. Inside \in SUBSET Ids
  BY DEF Inside
<1> QED  BY <1>1, <1>2, FS_Subset, FS_CardinalityType

-----------------------------------------------------------------------------
(* The invariant *)

LEMMA InvInit == Init => IInv
<1> SUFFICES ASSUME Init PROVE IInv
  OBVIOUS
<1> USE SizeFacts
<1>1. TypeOK
  BY DEF Init, TypeOK, Labels
<1>2. OwnerInv /\ CreatedInv /\ ChiralityInv
  BY DEF Init, OwnerInv, CreatedInv, ChiralityInv
<1>3. SemInv
  <2>1. Inside = {}
    BY DEF Init, Inside
  <2> QED  BY <2>1, FS_EmptySet DEF Init, SemInv
<1> QED  BY <1>1, <1>2, <1>3 DEF IInv

LEMMA InvStep == IInv /\ [Next]_vars => IInv'
<1> SUFFICES ASSUME IInv, [Next]_vars PROVE IInv'
  OBVIOUS
<1> USE SizeFacts DEF IInv
<1>t. /\ TypeOK /\ OwnerInv /\ CreatedInv /\ ChiralityInv /\ SemInv
      /\ pc \in [Ids -> Labels] /\ owner \in [Ids -> Ids \cup {Free}]
      /\ chirality \in [Ids -> {0, 1}] /\ program \in Programs
      /\ created \in 0 .. numPhilosophers /\ semmy \in 0 .. Permits
  BY DEF TypeOK
<1>1. CASE Create
  <2>1. /\ created \in Ids /\ pc[created] = "new" /\ created' = created + 1
        /\ pc' = [pc EXCEPT ![created] = "start"]
        /\ UNCHANGED <<program, chirality, owner, semmy>>
    BY <1>t, <1>1 DEF Create, Goto, CreatedInv, Ids
  <2>2. TypeOK'
    BY <1>t, <2>1 DEF TypeOK, Labels, Ids
  <2>3. OwnerInv'
    BY <1>t, <2>1 DEF OwnerInv, First, Second, DownSecond
  <2>4. CreatedInv'
    BY <1>t, <2>1 DEF CreatedInv, Ids
  <2>5. ChiralityInv'
    BY <1>t, <2>1 DEF ChiralityInv
  <2>6. Inside' = Inside
    BY <1>t, <2>1 DEF Inside
  <2>7. SemInv'
    BY <1>t, <2>1, <2>6 DEF SemInv
  <2> QED  BY <2>2, <2>3, <2>4, <2>5, <2>7
<1>2. ASSUME NEW p \in Ids, Choose(p) PROVE IInv'
  <2>1. PICK c \in Chiralities(p) :
          /\ pc[p] = "start" /\ pc' = [pc EXCEPT ![p] = LoopTop]
          /\ chirality' = [chirality EXCEPT ![p] = c]
          /\ UNCHANGED <<program, created, owner, semmy>>
    BY <1>2 DEF Choose, Goto
  <2>2. /\ c \in {0, 1}
        /\ program \in {"philo1", "philo5"} => c = 1
        /\ program \in {"philo3", "philo4"} => c = IF p # numPhilosophers - 1 THEN 1 ELSE 0
    BY <2>1 DEF Chiralities
  <2>3. LoopTop = IF program = "philo5" THEN "sem_wait" ELSE "first"
    BY DEF LoopTop
  <2>4. TypeOK'
    BY <1>t, <2>1, <2>2, <2>3 DEF TypeOK, Labels
  <2>5. OwnerInv'
    BY <1>t, <2>1, <2>2, <2>3 DEF OwnerInv, First, Second, DownSecond
  <2>6. CreatedInv'
    BY <1>t, <2>1 DEF CreatedInv
  <2>7. ChiralityInv'
    BY <1>t, <2>1, <2>2, <2>3 DEF ChiralityInv
  <2>8. program = "philo5" => Inside' = Inside
    BY <1>t, <2>1, <2>3 DEF Inside
  <2>9. SemInv'
    BY <1>t, <2>1, <2>3, <2>8 DEF SemInv
  <2> QED  BY <2>4, <2>5, <2>6, <2>7, <2>9
<1>3. ASSUME NEW p \in Ids, SemWait(p) PROVE IInv'
  <2>1. /\ pc[p] = "sem_wait" /\ semmy > 0 /\ semmy' = semmy - 1
        /\ pc' = [pc EXCEPT ![p] = "first"]
        /\ UNCHANGED <<program, created, chirality, owner>>
    BY <1>3 DEF SemWait, Goto
  <2>2. TypeOK'
    BY <1>t, <2>1 DEF TypeOK, Labels
  <2>3. OwnerInv'
    BY <1>t, <2>1 DEF OwnerInv, First, Second, DownSecond
  <2>4. CreatedInv' /\ ChiralityInv'
    BY <1>t, <2>1 DEF CreatedInv, ChiralityInv
  <2>5. Inside' = Inside \cup {p} /\ p \notin Inside
    BY <1>t, <2>1 DEF Inside
  <2>6. Cardinality(Inside)' = Cardinality(Inside) + 1
    BY <2>5, InsideIsFinite, FS_AddElement
  <2>7. SemInv'
    BY <1>t, <2>1, <2>6, InsideIsFinite DEF SemInv
  <2> QED  BY <2>2, <2>3, <2>4, <2>7
<1>4. ASSUME NEW p \in Ids, PickUpFirst(p) PROVE IInv'
  <2>1. /\ pc[p] = "first" /\ owner[First(p)] = Free
        /\ owner' = [owner EXCEPT ![First(p)] = p]
        /\ pc' = [pc EXCEPT ![p] = "second"]
        /\ UNCHANGED <<program, created, chirality, semmy>>
    BY <1>4 DEF PickUpFirst, Goto
  <2>2. First(p) \in Ids /\ Second(p) \in Ids
    BY Sides
  <2>3. TypeOK'
    BY <1>t, <2>1, <2>2 DEF TypeOK, Labels
  <2>4. \A q \in Ids : First(q)' = First(q) /\ Second(q)' = Second(q)
                       /\ DownSecond(q)' = DownSecond(q)
    BY <2>1 DEF First, Second, DownSecond
  <2>5. OwnerInv'
    BY <1>t, <2>1, <2>2, <2>4 DEF OwnerInv
  <2>6. CreatedInv' /\ ChiralityInv'
    BY <1>t, <2>1 DEF CreatedInv, ChiralityInv
  <2>7. Inside' = Inside
    BY <1>t, <2>1 DEF Inside
  <2>8. SemInv'
    BY <1>t, <2>1, <2>7 DEF SemInv
  <2> QED  BY <2>3, <2>5, <2>6, <2>8
<1>5. ASSUME NEW p \in Ids, PickUpSecond(p) PROVE IInv'
  <2>1. /\ pc[p] = "second" /\ owner[Second(p)] = Free
        /\ owner' = [owner EXCEPT ![Second(p)] = p]
        /\ pc' = [pc EXCEPT ![p] = "eat"]
        /\ UNCHANGED <<program, created, chirality, semmy>>
    BY <1>5 DEF PickUpSecond, Goto
  <2>2. First(p) \in Ids /\ Second(p) \in Ids
    BY Sides
  <2>3. TypeOK'
    BY <1>t, <2>1, <2>2 DEF TypeOK, Labels
  <2>4. \A q \in Ids : First(q)' = First(q) /\ Second(q)' = Second(q)
                       /\ DownSecond(q)' = DownSecond(q)
    BY <2>1 DEF First, Second, DownSecond
  <2>5. OwnerInv'
    BY <1>t, <2>1, <2>2, <2>4 DEF OwnerInv
  <2>6. CreatedInv' /\ ChiralityInv'
    BY <1>t, <2>1 DEF CreatedInv, ChiralityInv
  <2>7. Inside' = Inside
    BY <1>t, <2>1 DEF Inside
  <2>8. SemInv'
    BY <1>t, <2>1, <2>7 DEF SemInv
  <2> QED  BY <2>3, <2>5, <2>6, <2>8
<1>6. ASSUME NEW p \in Ids, PutDownFirst(p) PROVE IInv'
  <2>1. /\ pc[p] = "eat"
        /\ owner' = [owner EXCEPT ![DownFirst(p)] = Free]
        /\ pc' = [pc EXCEPT ![p] = "put_down"]
        /\ UNCHANGED <<program, created, chirality, semmy>>
    BY <1>6 DEF PutDownFirst, Goto
  <2>2. /\ First(p) \in Ids /\ Second(p) \in Ids /\ First(p) # Second(p)
        /\ \/ DownFirst(p) = First(p) /\ DownSecond(p) = Second(p)
           \/ DownFirst(p) = Second(p) /\ DownSecond(p) = First(p)
    BY Sides
  <2>3. TypeOK'
    BY <1>t, <2>1, <2>2 DEF TypeOK, Labels
  <2>4. \A q \in Ids : First(q)' = First(q) /\ Second(q)' = Second(q)
                       /\ DownSecond(q)' = DownSecond(q)
    BY <2>1 DEF First, Second, DownSecond
  <2>5. OwnerInv'
    BY <1>t, <2>1, <2>2, <2>4 DEF OwnerInv
  <2>6. CreatedInv' /\ ChiralityInv'
    BY <1>t, <2>1 DEF CreatedInv, ChiralityInv
  <2>7. Inside' = Inside
    BY <1>t, <2>1 DEF Inside
  <2>8. SemInv'
    BY <1>t, <2>1, <2>7 DEF SemInv
  <2> QED  BY <2>3, <2>5, <2>6, <2>8
<1>7. ASSUME NEW p \in Ids, PutDownSecond(p) PROVE IInv'
  <2> DEFINE next == IF program = "philo5" THEN "sem_post" ELSE LoopTop
  <2>1. /\ pc[p] = "put_down"
        /\ owner' = [owner EXCEPT ![DownSecond(p)] = Free]
        /\ pc' = [pc EXCEPT ![p] = next]
        /\ UNCHANGED <<program, created, chirality, semmy>>
    BY <1>7 DEF PutDownSecond, Goto
  <2>2. next = IF program = "philo5" THEN "sem_post" ELSE "first"
    BY DEF LoopTop
  <2>3. DownSecond(p) \in Ids
    BY Sides
  <2>4. TypeOK'
    BY <1>t, <2>1, <2>2, <2>3 DEF TypeOK, Labels
  <2>5. \A q \in Ids : First(q)' = First(q) /\ Second(q)' = Second(q)
                       /\ DownSecond(q)' = DownSecond(q)
    BY <2>1 DEF First, Second, DownSecond
  <2>6. OwnerInv'
    BY <1>t, <2>1, <2>2, <2>3, <2>5 DEF OwnerInv
  <2>7. CreatedInv' /\ ChiralityInv'
    BY <1>t, <2>1, <2>2 DEF CreatedInv, ChiralityInv
  <2>8. Inside' = Inside
    BY <1>t, <2>1, <2>2 DEF Inside
  <2>9. SemInv'
    BY <1>t, <2>1, <2>2, <2>8 DEF SemInv
  <2> QED  BY <2>4, <2>6, <2>7, <2>9
<1>8. ASSUME NEW p \in Ids, SemPost(p) PROVE IInv'
  <2>1. /\ pc[p] = "sem_post" /\ semmy' = semmy + 1
        /\ pc' = [pc EXCEPT ![p] = LoopTop]
        /\ UNCHANGED <<program, created, chirality, owner>>
    BY <1>8 DEF SemPost, Goto
  <2>2. program = "philo5" /\ LoopTop = "sem_wait"
    BY <1>t, <2>1 DEF SemInv, LoopTop
  <2>3. Inside' = Inside \ {p} /\ p \in Inside
    BY <1>t, <2>1, <2>2 DEF Inside
  <2>4. Cardinality(Inside)' = Cardinality(Inside) - 1
    BY <2>3, InsideIsFinite, FS_RemoveElement
  <2>5. Cardinality(Inside) >= 1
    BY <2>3, InsideIsFinite, FS_EmptySet
  <2>6. SemInv' /\ semmy' \in 0 .. Permits
    BY <1>t, <2>1, <2>2, <2>4, <2>5, InsideIsFinite DEF SemInv
  <2>7. TypeOK'
    BY <1>t, <2>1, <2>2, <2>6 DEF TypeOK, Labels
  <2>8. OwnerInv'
    BY <1>t, <2>1, <2>2 DEF OwnerInv, First, Second, DownSecond
  <2>9. CreatedInv' /\ ChiralityInv'
    BY <1>t, <2>1, <2>2 DEF CreatedInv, ChiralityInv
  <2> QED  BY <2>6, <2>7, <2>8, <2>9
<1>9. CASE UNCHANGED vars
  <2>1. UNCHANGED <<program, created, chirality, owner, semmy, pc>>
    BY <1>9 DEF vars
  <2>2. Inside' = Inside
    BY <2>1 DEF Inside
  <2>3. SemInv'
    BY <1>t, <2>1, <2>2 DEF SemInv
  <2>4. OwnerInv'
    BY <1>t, <2>1 DEF OwnerInv, First, Second, DownSecond
  <2> QED  BY <1>t, <2>1, <2>3, <2>4 DEF TypeOK, CreatedInv, ChiralityInv
<1> QED
  BY <1>1, <1>2, <1>3, <1>4, <1>5, <1>6, <1>7, <1>8, <1>9 DEF Next

LEMMA Invariance == Spec => []IInv
BY InvInit, InvStep, PTL DEF Spec

(* The shared state of philo1.c to philo5.c stays in range; in particular    *)
(* philo5's semaphore is never negative and never above its initial value,   *)
(* though each philosopher posts it again and again.                         *)
THEOREM TypeCorrect == Spec => []TypeOK
<1>1. IInv => TypeOK
  BY DEF IInv
<1> QED  BY <1>1, Invariance, PTL

-----------------------------------------------------------------------------
(* Going round the table *)

Below == {p \in Nat \X Nat : p[1] < p[2]}

(* Every set of natural numbers that is not empty has a least element.       *)
LEMMA LeastExists ==
  ASSUME NEW S \in SUBSET Nat, S # {}
  PROVE  \E x \in S : \A y \in S : x <= y
<1>1. IsWellFoundedOn(Below, Nat)
  BY NatLessThanWellFounded DEF OpToRel, Below
<1>2. PICK x \in S : \A y \in S : ~(<<y, x>> \in Below)
  BY <1>1, WFMin
<1>3. \A y \in S : ~(y < x)
  BY <1>2 DEF Below
<1> QED  BY <1>3

(* ... and a set of seats has a greatest one.                                *)
LEMMA GreatestExists ==
  ASSUME NEW S \in SUBSET Ids, S # {}
  PROVE  \E x \in S : \A y \in S : y <= x
<1> DEFINE D == {numPhilosophers - x : x \in S}
<1>1. \A x \in S : x \in Nat /\ numPhilosophers - x \in Nat
  BY SizeFacts DEF Ids
<1>2. D \in SUBSET Nat /\ D # {}
  BY <1>1
<1>3. PICK d \in D : \A e \in D : d <= e
  <2> HIDE DEF D
  <2> QED  BY <1>2, LeastExists
<1>4. PICK x \in S : d = numPhilosophers - x
  OBVIOUS
<1>5. \A y \in S : numPhilosophers - y \in D
  OBVIOUS
<1>6. \A y \in S : numPhilosophers - x <= numPhilosophers - y
  BY <1>3, <1>4, <1>5
<1> QED  BY <1>1, <1>6, SizeFacts

(* A set of seats that contains the right neighbour of each of its members   *)
(* is the whole table.                                                       *)
LEMMA AllTheWayRight ==
  ASSUME NEW S \in SUBSET Ids, S # {}, \A p \in S : Right(p) \in S
  PROVE  S = Ids
<1>1. \A p \in Ids : p \in Nat /\ p <= numPhilosophers - 1
  BY SizeFacts DEF Ids
<1>2. PICK g \in S : \A y \in S : y <= g
  BY GreatestExists
<1>3. g \in Ids /\ Right(g) \in S
  BY <1>2
<1>4. g = numPhilosophers - 1 /\ 0 \in S
  BY <1>1, <1>2, <1>3, RightValue, SizeFacts
<1>5. SUFFICES ASSUME Ids \ S # {} PROVE FALSE
  OBVIOUS
<1>6. PICK x \in Ids \ S : \A y \in Ids \ S : x <= y
  BY <1>1, <1>5, LeastExists
<1>7. x \in Nat /\ x # 0 /\ x - 1 \in Ids /\ x - 1 # numPhilosophers - 1
  BY <1>1, <1>4, <1>6, SizeFacts DEF Ids
<1>8. x - 1 \in S
  BY <1>6, <1>7
<1>9. Right(x - 1) = x
  BY <1>7, RightValue
<1> QED  BY <1>6, <1>8, <1>9

(* The same to the left.                                                     *)
LEMMA AllTheWayLeft ==
  ASSUME NEW S \in SUBSET Ids, S # {}, \A p \in S : \E q \in S : Right(q) = p
  PROVE  S = Ids
<1>1. \A p \in Ids : p \in Nat /\ p <= numPhilosophers - 1
  BY SizeFacts DEF Ids
<1>2. \A p, q \in Ids : Right(q) = p =>
        IF p = 0 THEN q = numPhilosophers - 1 ELSE q = p - 1
  BY <1>1, RightValue, SizeFacts
<1>3. \A p \in S : IF p = 0 THEN numPhilosophers - 1 \in S ELSE p - 1 \in S
  BY <1>2
<1>4. PICK l \in S : \A y \in S : l <= y
  BY <1>1, LeastExists
<1>5. l = 0 /\ numPhilosophers - 1 \in S
  BY <1>1, <1>3, <1>4
<1>6. SUFFICES ASSUME Ids \ S # {} PROVE FALSE
  OBVIOUS
<1>7. PICK x \in Ids \ S : \A y \in Ids \ S : y <= x
  BY <1>6, GreatestExists
<1>8. x # numPhilosophers - 1 /\ x \in Nat /\ x + 1 \in Ids /\ x + 1 # 0
  BY <1>1, <1>5, <1>7, SizeFacts DEF Ids
<1>9. x + 1 \in S /\ (x + 1) - 1 = x
  BY <1>7, <1>8
<1>10. x \in S
  BY <1>3, <1>8, <1>9
<1> QED  BY <1>7, <1>10

-----------------------------------------------------------------------------
(* Circular waits *)

(* Who has taken its first utensil and waits for the second one.             *)
Stuck(S) == {p \in S : pc[p] = "second"}

(* In a circle, what a philosopher waits for is the first utensil of another *)
(* one, and both take theirs in the same order.                              *)
LEMMA CircleNeighbour ==
  ASSUME IInv, NEW S \in SUBSET Ids,
         \A t \in S : Wanted[t] # Free /\ owner[Wanted[t]] \in S,
         NEW t \in Stuck(S)
  PROVE  \E u \in Stuck(S) :
           /\ chirality[u] = chirality[t]
           /\ chirality[t] = 1 => u = Right(t)
           /\ chirality[t] = 0 => Right(u) = t
<1>1. /\ t \in S /\ t \in Ids /\ pc[t] = "second"
      /\ OwnerInv /\ chirality \in [Ids -> {0, 1}]
  BY DEF Stuck, IInv, TypeOK
<1>2. Wanted[t] = Second(t) /\ Second(t) \in Ids
  BY <1>1, Sides DEF Wanted
<1>3. PICK u \in S : u = owner[Second(t)]
  BY <1>1, <1>2
<1>4. u \in Ids /\ pc[u] \in {"first", "second"}
  BY <1>3 DEF Wanted
<1>5. pc[u] = "second" /\ Second(t) = First(u)
  BY <1>1, <1>2, <1>3, <1>4 DEF OwnerInv
<1>6. /\ First(u) = IF chirality[u] = 1 THEN u ELSE Right(u)
      /\ Second(t) = IF chirality[t] = 1 THEN Right(t) ELSE t
  BY <1>1, <1>4, Sides
<1>7. Right(u) = Right(t) => u = t
  BY <1>1, <1>4, RightValue, SizeFacts DEF Ids
<1>8. chirality[t] \in {0, 1} /\ chirality[u] \in {0, 1}
  BY <1>1, <1>4
<1>9. u \in Stuck(S)
  BY <1>5 DEF Stuck
<1> QED  BY <1>5, <1>6, <1>7, <1>8, <1>9

(* A circular wait takes in the whole table: all philosophers hold one       *)
(* utensil, and all took it in the same order.                               *)
LEMMA CircleIsTheTable ==
  ASSUME IInv, NEW S \in SUBSET Ids, S # {},
         \A t \in S : Wanted[t] # Free /\ owner[Wanted[t]] \in S
  PROVE  /\ \A p \in Ids : pc[p] = "second"
         /\ \A p, q \in Ids : chirality[p] = chirality[q]
<1>1. chirality \in [Ids -> {0, 1}] /\ OwnerInv
  BY DEF IInv, TypeOK
<1>2. PICK t \in Stuck(S) : TRUE
  <2>1. PICK r \in S : TRUE
    OBVIOUS
  <2>2. Wanted[r] \in {First(r), Second(r)}
    BY <2>1 DEF Wanted
  <2>3. Wanted[r] \in Ids
    BY <2>1, <2>2, Sides
  <2>4. PICK u \in S : u = owner[Wanted[r]]
    BY <2>1
  <2>5. u \in Ids /\ pc[u] \in {"first", "second"}
    BY <2>4 DEF Wanted
  <2>6. pc[u] = "second"
    BY <1>1, <2>3, <2>4, <2>5 DEF OwnerInv
  <2> QED  BY <2>6 DEF Stuck
<1> DEFINE R == {p \in Stuck(S) : chirality[p] = 1}
           L == {p \in Stuck(S) : chirality[p] = 0}
<1>3. Stuck(S) \subseteq Ids
  BY DEF Stuck
<1>4. CASE chirality[t] = 1
  <2>1. R \in SUBSET Ids /\ R # {}
    BY <1>2, <1>3, <1>4
  <2>2. \A p \in R : Right(p) \in R
    BY CircleNeighbour
  <2>3. R = Ids
    <3> HIDE DEF R
    <3> QED  BY <2>1, <2>2, AllTheWayRight
  <2>4. \A p \in Ids : pc[p] = "second" /\ chirality[p] = 1
    BY <2>3 DEF Stuck
  <2> QED  BY <2>4
<1>5. CASE chirality[t] = 0
  <2>1. L \in SUBSET Ids /\ L # {}
    BY <1>2, <1>3, <1>5
  <2>2. \A p \in L : \E q \in L : Right(q) = p
    BY CircleNeighbour
  <2>3. L = Ids
    <3> HIDE DEF L
    <3> QED  BY <2>1, <2>2, AllTheWayLeft
  <2>4. \A p \in Ids : pc[p] = "second" /\ chirality[p] = 0
    BY <2>3 DEF Stuck
  <2> QED  BY <2>4
<1> QED  BY <1>1, <1>2, <1>3, <1>4, <1>5

LEMMA WhoCanDeadlock == IInv => DeadlockNeedsSameOrder
<1> SUFFICES ASSUME IInv,
                    NEW S \in SUBSET Ids, S # {},
                    \A t \in S : Wanted[t] # Free /\ owner[Wanted[t]] \in S
             PROVE  /\ program \in {"philo1", "philo2"}
                    /\ \A p, q \in Ids : chirality[p] = chirality[q]
  BY DEF DeadlockNeedsSameOrder, CircularWait
<1>1. /\ \A p \in Ids : pc[p] = "second"
      /\ \A p, q \in Ids : chirality[p] = chirality[q]
  BY CircleIsTheTable
<1>2. 0 \in Ids /\ numPhilosophers - 1 \in Ids /\ numPhilosophers - 1 # 0
  BY SizeFacts DEF Ids
<1>3. program \notin {"philo3", "philo4"}
  <2> SUFFICES ASSUME program \in {"philo3", "philo4"} PROVE FALSE
    OBVIOUS
  <2>1. \A p \in Ids : chirality[p] = IF p # numPhilosophers - 1 THEN 1 ELSE 0
    BY <1>1 DEF IInv, ChiralityInv
  <2>2. chirality[0] = 1 /\ chirality[numPhilosophers - 1] = 0
    BY <1>2, <2>1
  <2> QED  BY <1>1, <1>2, <2>2
<1>4. program # "philo5"
  <2> SUFFICES ASSUME program = "philo5" PROVE FALSE
    OBVIOUS
  <2>1. Inside = Ids
    BY <1>1 DEF Inside
  <2>2. semmy = Permits - numPhilosophers
    BY <2>1, InsideIsFinite DEF IInv, SemInv
  <2> QED  BY <2>2, SizeFacts DEF IInv, TypeOK
<1>5. program \in {"philo1", "philo2", "philo3", "philo4", "philo5"}
  BY PAssumption DEF IInv, TypeOK
<1> QED  BY <1>1, <1>3, <1>4, <1>5

(* philo3, philo4 and philo5 never deadlock, and philo2 only when all its    *)
(* philosophers happened to draw the same order.                             *)
THEOREM OnlySameOrderDeadlocks == Spec => []DeadlockNeedsSameOrder
BY WhoCanDeadlock, Invariance, PTL

-----------------------------------------------------------------------------
(* The abstract table *)

Eating == {p \in Ids : pc[p] = "eat"}

(* A philosopher that eats holds its left and its right utensil.             *)
LEMMA EaterHoldsBoth ==
  ASSUME OwnerInv, NEW q \in Ids, pc[q] = "eat"
  PROVE  owner[q] = q /\ owner[Right(q)] = q
BY Sides, RightValue DEF OwnerInv

(* Who has taken its first utensil and finds the second one free has no      *)
(* eating neighbour.                                                         *)
LEMMA StartAlone ==
  ASSUME IInv, NEW p \in Ids, PickUpSecond(p)
  PROVE  Table!Neighbours(p) \cap Eating = {}
<1> DEFINE l == (p + numPhilosophers - 1) % numPhilosophers
<1>1. First(p) \in Ids /\ owner[First(p)] = p /\ owner[Second(p)] = Free
  BY Sides DEF IInv, OwnerInv, PickUpSecond
<1>2. owner[p] \in {p, Free} /\ owner[Right(p)] \in {p, Free}
  BY <1>1, Sides
<1>3. Right(p) \in Ids /\ Right(p) # p
  BY RightValue
<1>4. l \in Ids /\ Right(l) = p /\ l # p
  BY LeftNeighbour, RightValue
<1>5. pc[Right(p)] # "eat"
  BY <1>2, <1>3, SizeFacts, EaterHoldsBoth DEF IInv
<1>6. pc[l] # "eat"
  BY <1>2, <1>4, SizeFacts, EaterHoldsBoth DEF IInv
<1>7. Table!Neighbours(p) = {Right(p), l}
  BY DEF Table!Neighbours, Right
<1> QED  BY <1>5, <1>6, <1>7 DEF Eating

LEMMA TableStep == IInv /\ [Next]_vars => [Table!Next]_Eating
<1> SUFFICES ASSUME IInv, [Next]_vars PROVE [Table!Next]_Eating
  OBVIOUS
<1>t. pc \in [Ids -> Labels] /\ Table!Seats = Ids
  BY DEF IInv, TypeOK, Table!Seats, Ids
<1>1. ASSUME NEW p \in Ids, PickUpSecond(p) PROVE Table!Next
  <2>1. pc[p] = "second" /\ pc' = [pc EXCEPT ![p] = "eat"]
    BY <1>1 DEF PickUpSecond, Goto
  <2>2. p \notin Eating /\ Eating' = Eating \cup {p}
    BY <1>t, <2>1 DEF Eating
  <2>3. Table!StartEating(p)
    BY <1>1, <2>2, StartAlone DEF Table!StartEating, Eating
  <2> QED  BY <1>t, <2>3 DEF Table!Next
<1>2. ASSUME NEW p \in Ids, PutDownFirst(p) PROVE Table!Next
  <2>1. pc[p] = "eat" /\ pc' = [pc EXCEPT ![p] = "put_down"]
    BY <1>2 DEF PutDownFirst, Goto
  <2>2. p \in Eating /\ Eating' = Eating \ {p}
    BY <1>t, <2>1 DEF Eating
  <2>3. Table!StopEating(p)
    BY <2>2 DEF Table!StopEating, Eating
  <2> QED  BY <1>t, <2>3 DEF Table!Next
<1>3. ASSUME NEW p \in Ids,
             Choose(p) \/ SemWait(p) \/ PickUpFirst(p) \/ PutDownSecond(p) \/ SemPost(p)
      PROVE  Eating' = Eating
  <2>1. LoopTop \in {"sem_wait", "first"}
    BY DEF LoopTop
  <2>2. PICK label \in {"sem_wait", "first", "second", "sem_post"} :
          pc' = [pc EXCEPT ![p] = label]
    BY <1>3, <2>1 DEF Choose, SemWait, PickUpFirst, PutDownSecond, SemPost, Goto
  <2>3. pc[p] # "eat"
    BY <1>3 DEF Choose, SemWait, PickUpFirst, PutDownSecond, SemPost
  <2> QED  BY <1>t, <2>2, <2>3 DEF Eating
<1>4. CASE Create
  <2>1. created \in Ids /\ pc[created] # "eat" /\ pc' = [pc EXCEPT ![created] = "start"]
    BY <1>4, SizeFacts DEF IInv, TypeOK, CreatedInv, Create, Goto, Ids
  <2> QED  BY <1>t, <2>1 DEF Eating
<1>5. CASE UNCHANGED vars
  BY <1>5 DEF vars, Eating
<1> QED
  BY <1>1, <1>2, <1>3, <1>4, <1>5 DEF Next

(* The utensils implement the table in all five programs: neighbours never   *)
(* eat at the same time.                                                     *)
THEOREM TableRefinement == Spec => NeighboursTakeTurns
<1>1. Init => Table!Init
  BY DEF Init, Table!Init
<1>2. IInv /\ [Next]_vars => [Table!Next]_Eating
  BY TableStep
<1> QED  BY <1>1, <1>2, Invariance, PTL DEF Spec, NeighboursTakeTurns, Table!Spec, Eating

=============================================================================
