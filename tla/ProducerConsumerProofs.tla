----------------------- MODULE ProducerConsumerProofs -----------------------
(***************************************************************************)
(* Proofs about ProducerConsumer, for every set of producers and           *)
(* consumers, every buffer size and every number of items per producer:    *)
(* the type invariant, the contents of the circular buffer, delivery of    *)
(* every item exactly once, the implementation of the FIFO queue, that no  *)
(* wakeup is lost, and that main() reports SUCCESS only when it is true.   *)
(***************************************************************************)
EXTENDS ProducerConsumer, SequenceTheorems, FiniteSetTheorems, TLAPS

-----------------------------------------------------------------------------
(* The inductive invariant *)

(* The control points at which a thread holds the mutex. *)
Holding == {"test", "sleep", "put", "take", "signal", "unlock", "quit"}

MutexInv == \A t \in Threads : pc[t] \in Holding <=> mutex = t

(* What a thread's test established is still true when it acts on it. *)
PointInv ==
  /\ \A p \in Producers : /\ pc[p] \notin {"take", "quit"}
                          /\ pc[p] = "put" => count < BUFFER_SIZE
  /\ \A c \in Consumers : /\ pc[c] # "put"
                          /\ pc[c] = "take" => count > 0

LoopInv == \A p \in Producers : pc[p] # "done" => made[p] < ITEMS_PER_PRODUCER

ControlInv == TypeOK /\ MutexInv /\ PointInv /\ LoopInv

IInv == ControlInv /\ Backlog /\ ExactlyOnce

-----------------------------------------------------------------------------
(* Indices of the circular buffer *)

(* Reducing an index below twice the buffer size is at most one subtraction. *)
LEMMA Wrap ==
  ASSUME NEW n \in Nat \ {0}, NEW a \in 0 .. 2 * n - 1
  PROVE  a % n = IF a < n THEN a ELSE a - n
BY SMTT(30)

(* The slot k places after out_index, without the modulus. *)
LEMMA SlotValue ==
  ASSUME TypeOK, NEW k \in 0 .. BUFFER_SIZE
  PROVE  Slot(k) = IF out_index + k < BUFFER_SIZE
                   THEN out_index + k ELSE out_index + k - BUFFER_SIZE
<1> DEFINE a == out_index + k
<1>1. BUFFER_SIZE \in Nat \ {0} /\ out_index \in 0 .. BUFFER_SIZE - 1
  BY PCAssumption DEF TypeOK, Slots
<1>2. a \in 0 .. 2 * BUFFER_SIZE - 1
  BY <1>1
<1>3. Slot(k) = a % BUFFER_SIZE /\ a = out_index + k
  BY DEF Slot
<1> HIDE DEF a
<1>4. a % BUFFER_SIZE = IF a < BUFFER_SIZE THEN a ELSE a - BUFFER_SIZE
  BY <1>1, <1>2, Wrap
<1> QED  BY <1>1, <1>3, <1>4

(* The index after i, without the modulus. *)
LEMMA NextIndex ==
  ASSUME NEW i \in Slots
  PROVE  (i + 1) % BUFFER_SIZE = IF i + 1 < BUFFER_SIZE THEN i + 1 ELSE 0
<1>1. BUFFER_SIZE \in Nat \ {0} /\ i + 1 \in 0 .. 2 * BUFFER_SIZE - 1
  BY PCAssumption DEF Slots
<1> QED  BY <1>1, Wrap DEF Slots

-----------------------------------------------------------------------------
(* The control part of the invariant *)

(* Signal and Broadcast only ever move a blocked thread to "woken". *)
LEMMA SignalEffect ==
  ASSUME NEW f \in [Threads -> Labels], NEW cond \in SUBSET Threads,
         NEW g \in Signal(f, cond)
  PROVE  /\ g \in [Threads -> Labels]
         /\ \A t \in Threads : g[t] # f[t] => f[t] = "blocked" /\ g[t] = "woken"
BY DEF Signal, Sleepers, Labels

LEMMA BroadcastEffect ==
  ASSUME NEW f \in [Threads -> Labels], NEW cond \in SUBSET Threads
  PROVE  /\ Broadcast(f, cond) \in [Threads -> Labels]
         /\ \A t \in Threads : Broadcast(f, cond)[t] # f[t] =>
               f[t] = "blocked" /\ Broadcast(f, cond)[t] = "woken"
BY DEF Broadcast, Sleepers, Labels

(* Producers and consumers are different threads, and none is NoThread. *)
LEMMA ThreadFacts ==
  /\ Producers \subseteq Threads /\ Consumers \subseteq Threads
  /\ \A p \in Producers : p \notin Consumers
  /\ \A c \in Consumers : c \notin Producers
  /\ \A t \in Threads : t # NoThread /\ (t \in Producers \/ t \in Consumers)
BY PCAssumption DEF Threads

LEMMA SizeFacts ==
  /\ BUFFER_SIZE \in Nat /\ BUFFER_SIZE > 0
  /\ ITEMS_PER_PRODUCER \in Nat /\ ITEMS_PER_PRODUCER > 0
BY PCAssumption

LEMMA ControlInit == Init => ControlInv
<1> SUFFICES ASSUME Init PROVE ControlInv
  OBVIOUS
<1>1. TypeOK
  <2>1. BUFFER_SIZE \in Nat \ {0} /\ ITEMS_PER_PRODUCER \in Nat \ {0}
    BY PCAssumption
  <2> QED  BY <2>1 DEF Init, TypeOK, Labels, Slots
<1>2. MutexInv /\ PointInv /\ LoopInv
  BY ThreadFacts, PCAssumption DEF Init, MutexInv, PointInv, LoopInv, Holding
<1> QED  BY <1>1, <1>2 DEF ControlInv

LEMMA ControlStep == ControlInv /\ [Next]_vars => ControlInv'
<1> SUFFICES ASSUME ControlInv, [Next]_vars PROVE ControlInv'
  OBVIOUS
<1> USE ThreadFacts, SizeFacts DEF ControlInv
<1>1. ASSUME NEW t \in Threads, Acquire(t) PROVE ControlInv'
  <2>1. TypeOK'
    BY <1>1 DEF Acquire, TypeOK, Labels, Goto, queueVars
  <2>2. MutexInv'
    BY <1>1 DEF Acquire, TypeOK, MutexInv, Holding, Goto
  <2>3. PointInv'
    BY <1>1 DEF Acquire, TypeOK, PointInv, Goto, queueVars
  <2>4. LoopInv'
    BY <1>1 DEF Acquire, TypeOK, LoopInv, Goto, queueVars
  <2> QED  BY <2>1, <2>2, <2>3, <2>4
<1>2. ASSUME NEW t \in Threads, SpuriousWakeup(t) PROVE ControlInv'
  <2>1. TypeOK'
    BY <1>2 DEF SpuriousWakeup, TypeOK, Labels, Goto, queueVars
  <2>2. MutexInv'
    BY <1>2 DEF SpuriousWakeup, TypeOK, MutexInv, Holding, Goto
  <2>3. PointInv'
    BY <1>2 DEF SpuriousWakeup, TypeOK, PointInv, Goto, queueVars
  <2>4. LoopInv'
    BY <1>2 DEF SpuriousWakeup, TypeOK, LoopInv, Goto, queueVars
  <2> QED  BY <2>1, <2>2, <2>3, <2>4
<1>3. ASSUME NEW t \in Threads, CondWait(t) PROVE ControlInv'
  <2>1. TypeOK'
    BY <1>3 DEF CondWait, TypeOK, Labels, Goto, queueVars
  <2>2. MutexInv'
    BY <1>3 DEF CondWait, TypeOK, MutexInv, Holding, Goto
  <2>3. PointInv'
    BY <1>3 DEF CondWait, TypeOK, PointInv, Goto, queueVars
  <2>4. LoopInv'
    BY <1>3 DEF CondWait, TypeOK, LoopInv, Goto, queueVars
  <2> QED  BY <2>1, <2>2, <2>3, <2>4
<1>4. ASSUME NEW p \in Producers, ProducerTest(p) PROVE ControlInv'
  <2>1. TypeOK'
    BY <1>4 DEF ProducerTest, TypeOK, Labels, Goto, queueVars, Full
  <2>2. MutexInv'
    BY <1>4 DEF ProducerTest, TypeOK, MutexInv, Holding, Goto, Full
  <2>3. PointInv'
    BY <1>4 DEF ProducerTest, TypeOK, PointInv, Goto, queueVars, Full
  <2>4. LoopInv'
    BY <1>4 DEF ProducerTest, TypeOK, LoopInv, Goto, queueVars, Full
  <2> QED  BY <2>1, <2>2, <2>3, <2>4
<1>5. ASSUME NEW p \in Producers, Put(p) PROVE ControlInv'
  <2>1. mutex = p /\ count < BUFFER_SIZE /\ in_index \in Slots
    BY <1>5 DEF Put, MutexInv, PointInv, Holding, TypeOK
  <2>2. in_index' \in Slots
    BY <1>5, <2>1, NextIndex DEF Put, Slots
  <2>3. TypeOK'
    BY <1>5, <2>1, <2>2 DEF Put, TypeOK, Labels, Goto
  <2>4. MutexInv'
    BY <1>5, <2>1 DEF Put, TypeOK, MutexInv, Holding, Goto
  <2>5. \A q \in Producers : pc[q] = "put" => q = p
    BY <1>5, <2>1 DEF MutexInv, Holding
  <2>6. PointInv'
    BY <1>5, <2>1, <2>5 DEF Put, TypeOK, PointInv, Goto
  <2>7. LoopInv'
    BY <1>5, <2>1, <2>5 DEF Put, TypeOK, LoopInv, Goto
  <2> QED  BY <2>3, <2>4, <2>6, <2>7
<1>6. ASSUME NEW p \in Producers, SignalNotEmpty(p) PROVE ControlInv'
  <2> DEFINE f == [pc EXCEPT ![p] = "unlock"]
  <2>1. f \in [Threads -> Labels]
    BY DEF TypeOK, Labels
  <2>2. pc' \in Signal(f, Consumers)
    BY <1>6 DEF SignalNotEmpty
  <2>3. /\ pc' \in [Threads -> Labels]
        /\ \A t \in Threads : pc'[t] # f[t] => f[t] = "blocked" /\ pc'[t] = "woken"
    BY <2>1, <2>2, SignalEffect
  <2>4. TypeOK'
    BY <1>6, <2>3 DEF SignalNotEmpty, TypeOK, queueVars
  <2>5. MutexInv'
    BY <1>6, <2>3 DEF SignalNotEmpty, TypeOK, MutexInv, Holding
  <2>6. PointInv'
    BY <1>6, <2>3 DEF SignalNotEmpty, TypeOK, PointInv, queueVars
  <2>7. LoopInv'
    BY <1>6, <2>3 DEF SignalNotEmpty, TypeOK, LoopInv, queueVars
  <2> QED  BY <2>4, <2>5, <2>6, <2>7
<1>7. ASSUME NEW p \in Producers, ProducerUnlock(p) PROVE ControlInv'
  <2>1. TypeOK'
    BY <1>7 DEF ProducerUnlock, LoopInv, TypeOK, Labels, Goto, queueVars
  <2>2. MutexInv'
    BY <1>7 DEF ProducerUnlock, TypeOK, MutexInv, Holding, Goto
  <2>3. PointInv'
    BY <1>7 DEF ProducerUnlock, TypeOK, PointInv, Goto, queueVars
  <2>4. LoopInv'
    BY <1>7 DEF ProducerUnlock, TypeOK, LoopInv, Goto, queueVars
  <2> QED  BY <2>1, <2>2, <2>3, <2>4
<1>8. ASSUME NEW c \in Consumers, ConsumerTest(c) PROVE ControlInv'
  <2>1. AfterTest \in {"sleep", "quit", "unlock", "take"} /\ (AfterTest = "take" => count # 0)
    BY DEF AfterTest
  <2>2. TypeOK'
    BY <1>8, <2>1 DEF ConsumerTest, TypeOK, Labels, Goto, queueVars
  <2>3. MutexInv'
    BY <1>8, <2>1 DEF ConsumerTest, TypeOK, MutexInv, Holding, Goto
  <2>4. PointInv'
    BY <1>8, <2>1 DEF ConsumerTest, TypeOK, PointInv, Goto, queueVars
  <2>5. LoopInv'
    BY <1>8, <2>1 DEF ConsumerTest, TypeOK, LoopInv, Goto, queueVars
  <2> QED  BY <2>2, <2>3, <2>4, <2>5
<1>9. ASSUME NEW c \in Consumers, Take(c) PROVE ControlInv'
  <2>1. mutex = c /\ count > 0 /\ out_index \in Slots
    BY <1>9 DEF Take, MutexInv, PointInv, Holding, TypeOK
  <2>2. out_index' \in Slots
    BY <1>9, <2>1, NextIndex DEF Take, Slots
  <2>3. TypeOK'
    <3>1. count' \in 0 .. BUFFER_SIZE /\ items_consumed' \in Nat
      BY <1>9, <2>1 DEF Take, TypeOK
    <3>2. buffer[out_index] \in Nat
      BY <2>1 DEF TypeOK
    <3>3. pc' \in [Threads -> Labels]
      BY <1>9 DEF Take, TypeOK, Labels, Goto
    <3>4. received' \in [Consumers -> SUBSET Nat]
      BY <1>9, <3>2 DEF Take, TypeOK
    <3> QED  BY <1>9, <2>2, <3>1, <3>3, <3>4 DEF Take, TypeOK
  <2>4. MutexInv'
    BY <1>9, <2>1 DEF Take, TypeOK, MutexInv, Holding, Goto
  <2>5. \A d \in Consumers : pc[d] = "take" => d = c
    BY <1>9, <2>1 DEF MutexInv, Holding
  <2>6. PointInv'
    BY <1>9, <2>1, <2>5 DEF Take, TypeOK, PointInv, Goto
  <2>7. LoopInv'
    BY <1>9, <2>1, <2>5 DEF Take, TypeOK, LoopInv, Goto
  <2> QED  BY <2>3, <2>4, <2>6, <2>7
<1>10. ASSUME NEW c \in Consumers, SignalNotFull(c) PROVE ControlInv'
  <2> DEFINE f == [pc EXCEPT ![c] = "unlock"]
  <2>1. f \in [Threads -> Labels]
    BY DEF TypeOK, Labels
  <2>2. pc' \in Signal(f, Producers)
    BY <1>10 DEF SignalNotFull
  <2>3. /\ pc' \in [Threads -> Labels]
        /\ \A t \in Threads : pc'[t] # f[t] => f[t] = "blocked" /\ pc'[t] = "woken"
    BY <2>1, <2>2, SignalEffect
  <2>4. TypeOK'
    BY <1>10, <2>3 DEF SignalNotFull, TypeOK, queueVars
  <2>5. MutexInv'
    BY <1>10, <2>3 DEF SignalNotFull, TypeOK, MutexInv, Holding
  <2>6. PointInv'
    BY <1>10, <2>3 DEF SignalNotFull, TypeOK, PointInv, queueVars
  <2>7. LoopInv'
    BY <1>10, <2>3 DEF SignalNotFull, TypeOK, LoopInv, queueVars
  <2> QED  BY <2>4, <2>5, <2>6, <2>7
<1>11. ASSUME NEW c \in Consumers, ConsumerUnlock(c) PROVE ControlInv'
  <2>1. TypeOK'
    BY <1>11 DEF ConsumerUnlock, TypeOK, Labels, Goto, queueVars
  <2>2. MutexInv'
    BY <1>11 DEF ConsumerUnlock, TypeOK, MutexInv, Holding, Goto
  <2>3. PointInv'
    BY <1>11 DEF ConsumerUnlock, TypeOK, PointInv, Goto, queueVars
  <2>4. LoopInv'
    BY <1>11 DEF ConsumerUnlock, TypeOK, LoopInv, Goto, queueVars
  <2> QED  BY <2>1, <2>2, <2>3, <2>4
<1>12. ASSUME NEW t \in Threads, Create(t) PROVE ControlInv'
  <2>1. TypeOK'
    BY <1>12 DEF Create, TypeOK, Labels, Goto, queueVars
  <2>2. MutexInv'
    BY <1>12 DEF Create, TypeOK, MutexInv, Holding, Goto
  <2>3. PointInv'
    BY <1>12 DEF Create, TypeOK, PointInv, Goto, queueVars
  <2>4. LoopInv'
    BY <1>12 DEF Create, TypeOK, LoopInv, Goto, queueVars
  <2> QED  BY <2>1, <2>2, <2>3, <2>4
<1>13. CASE JoinProducers \/ JoinConsumers
  BY <1>13 DEF JoinProducers, JoinConsumers, TypeOK, MutexInv, PointInv, LoopInv, queueVars
<1>14. CASE BroadcastNotEmpty
  <2>1. /\ pc' \in [Threads -> Labels]
        /\ \A t \in Threads : pc'[t] # pc[t] => pc[t] = "blocked" /\ pc'[t] = "woken"
    BY <1>14, BroadcastEffect DEF BroadcastNotEmpty, TypeOK
  <2>2. TypeOK'
    BY <1>14, <2>1 DEF BroadcastNotEmpty, TypeOK, queueVars
  <2>3. MutexInv'
    BY <1>14, <2>1 DEF BroadcastNotEmpty, TypeOK, MutexInv, Holding
  <2>4. PointInv'
    BY <1>14, <2>1 DEF BroadcastNotEmpty, TypeOK, PointInv, queueVars
  <2>5. LoopInv'
    BY <1>14, <2>1 DEF BroadcastNotEmpty, TypeOK, LoopInv, queueVars
  <2> QED  BY <2>2, <2>3, <2>4, <2>5
<1>15. CASE UNCHANGED vars
  BY <1>15 DEF vars, queueVars, TypeOK, MutexInv, PointInv, LoopInv
<1> QED
  BY <1>1, <1>2, <1>3, <1>4, <1>5, <1>6, <1>7, <1>8, <1>9, <1>10, <1>11, <1>12, <1>13,
     <1>14, <1>15
  DEF Next, ProducerStep, ConsumerStep, MainStep, Exited

-----------------------------------------------------------------------------
(* The contents of the buffer *)

(* Different places of the backlog are different slots. *)
LEMMA SlotInjective ==
  ASSUME TypeOK, NEW j \in 0 .. BUFFER_SIZE - 1, NEW k \in 0 .. BUFFER_SIZE - 1, j # k
  PROVE  Slot(j) # Slot(k)
<1>1. j \in 0 .. BUFFER_SIZE /\ k \in 0 .. BUFFER_SIZE /\ out_index \in Nat
  BY SizeFacts DEF TypeOK, Slots
<1> QED  BY <1>1, SlotValue, SizeFacts

(* The first place is out_index itself, and every place is a slot. *)
LEMMA SlotBasics ==
  ASSUME TypeOK
  PROVE  /\ Slot(0) = out_index
         /\ \A k \in 0 .. BUFFER_SIZE : Slot(k) \in Slots
<1>1. out_index \in 0 .. BUFFER_SIZE - 1
  BY DEF TypeOK, Slots
<1>2. 0 \in 0 .. BUFFER_SIZE
  BY SizeFacts
<1>3. Slot(0) = out_index
  BY <1>1, <1>2, SlotValue, SizeFacts
<1>4. ASSUME NEW k \in 0 .. BUFFER_SIZE PROVE Slot(k) \in Slots
  BY <1>1, SlotValue, SizeFacts DEF Slots
<1> QED  BY <1>3, <1>4

(* The slot after place k is place k + 1. *)
LEMMA SlotNext ==
  ASSUME TypeOK, NEW k \in 0 .. BUFFER_SIZE - 1
  PROVE  (Slot(k) + 1) % BUFFER_SIZE = Slot(k + 1)
<1>1. k \in 0 .. BUFFER_SIZE /\ k + 1 \in 0 .. BUFFER_SIZE
  BY SizeFacts
<1>2. out_index \in 0 .. BUFFER_SIZE - 1 /\ Slot(k) \in Slots
  BY <1>1, SlotBasics DEF TypeOK, Slots
<1>3. (Slot(k) + 1) % BUFFER_SIZE = IF Slot(k) + 1 < BUFFER_SIZE THEN Slot(k) + 1 ELSE 0
  BY <1>2, NextIndex
<1>4. /\ Slot(k) = IF out_index + k < BUFFER_SIZE
                   THEN out_index + k ELSE out_index + k - BUFFER_SIZE
      /\ Slot(k + 1) = IF out_index + (k + 1) < BUFFER_SIZE
                   THEN out_index + (k + 1) ELSE out_index + (k + 1) - BUFFER_SIZE
  BY <1>1, SlotValue
<1> QED  BY <1>2, <1>3, <1>4, SizeFacts

(* A step that leaves the queue's variables alone leaves the backlog alone. *)
LEMMA BacklogUnchanged ==
  ASSUME Backlog, UNCHANGED queueVars
  PROVE  Backlog'
BY DEF Backlog, Slot, queueVars

(* Put stores the next item in the first free slot. *)
LEMMA PutBacklog ==
  ASSUME ControlInv, Backlog, NEW p \in Producers, Put(p)
  PROVE  Backlog'
<1>1. /\ count \in Nat /\ count < BUFFER_SIZE
      /\ next_item \in Nat /\ items_consumed \in Nat
  BY SizeFacts DEF ControlInv, TypeOK, PointInv, Put
<1>2. TypeOK /\ count \in 0 .. BUFFER_SIZE - 1
  BY <1>1, SizeFacts DEF ControlInv
<1>3. \A k \in 0 .. BUFFER_SIZE : Slot(k)' = Slot(k)
  BY DEF Put, Slot
<1>4. in_index = Slot(count) /\ next_item = items_consumed + count + 1
  BY DEF Backlog
<1>5. in_index' = Slot(count + 1)
  BY <1>2, <1>4, SlotNext DEF Put
<1>6. \A k \in 0 .. count' - 1 : buffer'[Slot(k)] = items_consumed + 1 + k
  <2> SUFFICES ASSUME NEW k \in 0 .. count' - 1
               PROVE  buffer'[Slot(k)] = items_consumed + 1 + k
    OBVIOUS
  <2>1. k \in 0 .. count /\ k \in 0 .. BUFFER_SIZE - 1
    BY <1>1, SizeFacts DEF Put
  <2>2. Slot(k) \in Slots /\ in_index \in Slots /\ buffer \in [Slots -> Nat]
    BY <1>2, <2>1, SlotBasics, SizeFacts DEF TypeOK
  <2>3. buffer' = [buffer EXCEPT ![in_index] = next_item]
    BY DEF Put
  <2>4. CASE k = count
    BY <1>1, <1>4, <2>2, <2>3, <2>4
  <2>5. CASE k # count
    <3>1. Slot(k) # in_index
      BY <1>2, <1>4, <2>1, <2>5, SlotInjective
    <3>2. buffer[Slot(k)] = items_consumed + 1 + k
      BY <1>1, <2>1, <2>5 DEF Backlog
    <3> QED  BY <2>2, <2>3, <3>1, <3>2
  <2> QED  BY <2>4, <2>5
<1>7. count' = count + 1 /\ next_item' = next_item + 1 /\ items_consumed' = items_consumed
  BY DEF Put
<1>8. \A k \in 0 .. count' - 1 : Slot(k)' = Slot(k)
  BY DEF Put, Slot
<1>9. in_index' = Slot(count)'
  BY <1>5, <1>7 DEF Put, Slot
<1> QED  BY <1>1, <1>4, <1>6, <1>7, <1>8, <1>9 DEF Backlog

(* Take moves every remaining item one place forward. *)
LEMMA TakeBacklog ==
  ASSUME ControlInv, Backlog, NEW c \in Consumers, Take(c)
  PROVE  Backlog'
<1>1. /\ count \in Nat /\ count > 0 /\ count <= BUFFER_SIZE
      /\ next_item \in Nat /\ items_consumed \in Nat
  BY SizeFacts DEF ControlInv, TypeOK, PointInv, Take
<1>2. TypeOK /\ out_index \in 0 .. BUFFER_SIZE - 1 /\ out_index' \in 0 .. BUFFER_SIZE - 1
  <2>1. TypeOK /\ out_index \in Slots
    BY DEF ControlInv, TypeOK
  <2>2. out_index' \in Slots
    BY <2>1, NextIndex, SizeFacts DEF Take, Slots
  <2> QED  BY <2>1, <2>2 DEF Slots
<1>3. out_index' = IF out_index + 1 < BUFFER_SIZE THEN out_index + 1 ELSE 0
  BY <1>2, NextIndex DEF Take, Slots
<1>4. ASSUME NEW k \in 0 .. BUFFER_SIZE - 1 PROVE Slot(k)' = Slot(k + 1)
  <2>1. BUFFER_SIZE \in Nat \ {0}
    BY PCAssumption
  <2> SUFFICES (out_index' + k) % BUFFER_SIZE = Slot(k + 1)
    BY DEF Slot
  <2> DEFINE o == out_index'
             a == o + k
  <2>2. o \in 0 .. BUFFER_SIZE - 1 /\ o = IF out_index + 1 < BUFFER_SIZE THEN out_index + 1 ELSE 0
    BY <1>2, <1>3
  <2>3. Slot(k + 1) = IF out_index + (k + 1) < BUFFER_SIZE
                      THEN out_index + (k + 1) ELSE out_index + (k + 1) - BUFFER_SIZE
    BY <1>2, SlotValue, SizeFacts
  <2> HIDE DEF o
  <2>4. a \in 0 .. 2 * BUFFER_SIZE - 1
    BY <2>1, <2>2
  <2>5. a % BUFFER_SIZE = IF a < BUFFER_SIZE THEN a ELSE a - BUFFER_SIZE
    <3> HIDE DEF a
    <3> QED  BY <2>1, <2>4, Wrap
  <2>6. a % BUFFER_SIZE = Slot(k + 1)
    BY <1>2, <2>1, <2>2, <2>3, <2>5
  <2> QED  BY <2>6 DEF o
<1>5. /\ count' = count - 1 /\ items_consumed' = items_consumed + 1
      /\ next_item' = next_item /\ in_index' = in_index /\ buffer' = buffer
  BY DEF Take
<1>6. in_index' = Slot(count)'
  <2>1. count - 1 \in 0 .. BUFFER_SIZE - 1 /\ (count - 1) + 1 = count
    BY <1>1, SizeFacts
  <2>2. (out_index' + (count - 1)) % BUFFER_SIZE = Slot(count)
    BY <1>4, <2>1 DEF Slot
  <2>3. Slot(count)' = (out_index' + (count - 1)) % BUFFER_SIZE
    BY <1>5 DEF Slot
  <2> QED  BY <1>5, <2>2, <2>3 DEF Backlog
<1>7. \A k \in 0 .. count' - 1 : buffer'[Slot(k)'] = items_consumed' + 1 + k
  <2> SUFFICES ASSUME NEW k \in 0 .. count' - 1
               PROVE  buffer'[Slot(k)'] = items_consumed' + 1 + k
    OBVIOUS
  <2>1. k \in 0 .. BUFFER_SIZE - 1 /\ k + 1 \in 0 .. count - 1
    BY <1>1, <1>5, SizeFacts
  <2>2. buffer[Slot(k + 1)] = items_consumed + 1 + (k + 1)
    BY <2>1 DEF Backlog
  <2> QED  BY <1>1, <1>4, <1>5, <2>1, <2>2
<1> QED  BY <1>1, <1>5, <1>6, <1>7 DEF Backlog

-----------------------------------------------------------------------------
(* Delivery *)

(* The item a consumer takes is the one after those consumed so far. *)
LEMMA TakenItem ==
  ASSUME TypeOK, Backlog, count > 0
  PROVE  buffer[out_index] = items_consumed + 1
<1>1. 0 \in 0 .. count - 1 /\ items_consumed \in Nat
  BY SizeFacts DEF TypeOK
<1>2. buffer[Slot(0)] = items_consumed + 1 + 0
  BY <1>1 DEF Backlog
<1> QED  BY <1>1, <1>2, SlotBasics

LEMMA TakeExactlyOnce ==
  ASSUME IInv, NEW c \in Consumers, Take(c)
  PROVE  ExactlyOnce'
<1> DEFINE item == items_consumed + 1
<1>1. items_consumed \in Nat /\ received \in [Consumers -> SUBSET Nat]
  BY DEF IInv, ControlInv, TypeOK
<1>2. buffer[out_index] = item
  <2>1. TypeOK /\ Backlog /\ count > 0
    BY DEF IInv, ControlInv, PointInv, Take
  <2> QED  BY <2>1, TakenItem
<1>3. received' = [received EXCEPT ![c] = @ \cup {item}] /\ items_consumed' = item
  BY <1>2 DEF Take
<1>4. /\ \A d, e \in Consumers : d # e => received[d] \cap received[e] = {}
      /\ UNION {received[d] : d \in Consumers} = 1 .. items_consumed
  BY DEF IInv, ExactlyOnce
<1>5. \A d \in Consumers : item \notin received[d]
  <2>1. item \notin 1 .. items_consumed
    BY <1>1
  <2> QED  BY <1>4, <2>1
<1>6. \A d \in Consumers : received'[d] = IF d = c THEN received[d] \cup {item} ELSE received[d]
  BY <1>1, <1>3
<1>7. \A d, e \in Consumers : d # e => received'[d] \cap received'[e] = {}
  BY <1>4, <1>5, <1>6
<1>8. UNION {received'[d] : d \in Consumers} = (1 .. items_consumed) \cup {item}
  <2>1. UNION {received'[d] : d \in Consumers} =
          (UNION {received[d] : d \in Consumers}) \cup {item}
    BY <1>6
  <2> QED  BY <1>4, <2>1
<1>9. (1 .. items_consumed) \cup {item} = 1 .. item
  BY <1>1
<1> QED  BY <1>3, <1>7, <1>8, <1>9 DEF ExactlyOnce

-----------------------------------------------------------------------------
(* The inductive invariant *)

LEMMA InvInit == Init => IInv
<1> SUFFICES ASSUME Init PROVE IInv
  OBVIOUS
<1>1. ControlInv
  BY ControlInit
<1>2. Backlog
  <2>1. in_index = Slot(0)
    BY <1>1, SlotBasics DEF Init, ControlInv
  <2> QED  BY <2>1 DEF Init, Backlog
<1>3. ExactlyOnce
  BY DEF Init, ExactlyOnce
<1> QED  BY <1>1, <1>2, <1>3 DEF IInv

(* Only Put and Take touch the queue's variables, and only Take received. *)
LEMMA OtherSteps ==
  ASSUME [Next]_vars
  PROVE  \/ \E p \in Producers : Put(p)
         \/ \E c \in Consumers : Take(c)
         \/ UNCHANGED <<queueVars, received>>
BY DEF Next, vars, Acquire, SpuriousWakeup, CondWait, ProducerStep, ProducerTest,
       SignalNotEmpty, ProducerUnlock, ConsumerStep, ConsumerTest, SignalNotFull,
       ConsumerUnlock, MainStep, Create, JoinProducers, BroadcastNotEmpty,
       JoinConsumers, Exited

LEMMA InvStep == IInv /\ [Next]_vars => IInv'
<1> SUFFICES ASSUME IInv, [Next]_vars PROVE IInv'
  OBVIOUS
<1>1. ControlInv'
  BY ControlStep DEF IInv
<1>2. CASE \E p \in Producers : Put(p)
  <2>1. Backlog'
    BY <1>2, PutBacklog DEF IInv
  <2>2. ExactlyOnce'
    BY <1>2 DEF IInv, ExactlyOnce, Put
  <2> QED  BY <1>1, <2>1, <2>2 DEF IInv
<1>3. CASE \E c \in Consumers : Take(c)
  <2>1. Backlog'
    BY <1>3, TakeBacklog DEF IInv
  <2>2. ExactlyOnce'
    BY <1>3, TakeExactlyOnce
  <2> QED  BY <1>1, <2>1, <2>2 DEF IInv
<1>4. CASE UNCHANGED <<queueVars, received>>
  <2>1. Backlog'
    BY <1>4, BacklogUnchanged DEF IInv
  <2>2. ExactlyOnce'
    BY <1>4 DEF IInv, ExactlyOnce, queueVars
  <2> QED  BY <1>1, <2>1, <2>2 DEF IInv
<1> QED  BY <1>2, <1>3, <1>4, OtherSteps

LEMMA Invariance == Spec => []IInv
BY InvInit, InvStep, PTL DEF Spec

(* The types of the queue's variables are those of exercise3_solution.c: the *)
(* buffer never overflows or underflows and no index leaves the array.       *)
THEOREM TypeCorrect == Spec => []TypeOK
<1>1. IInv => TypeOK
  BY DEF IInv, ControlInv
<1> QED  BY <1>1, Invariance, PTL

(* The circular buffer always holds exactly the items produced and not yet   *)
(* consumed, in order.                                                       *)
THEOREM BacklogCorrect == Spec => []Backlog
<1>1. IInv => Backlog
  BY DEF IInv
<1> QED  BY <1>1, Invariance, PTL

(* No item is lost, skipped or consumed twice.                               *)
THEOREM DeliveryCorrect == Spec => []ExactlyOnce
<1>1. IInv => ExactlyOnce
  BY DEF IInv
<1> QED  BY <1>1, Invariance, PTL

-----------------------------------------------------------------------------
(* The refinement of the FIFO queue *)

(* With the backlog in place, the abstract queue is an interval of items. *)
Items(first, n) == [k \in 1 .. n |-> first + k]

(* Appending the next item to an interval, and dropping the oldest. *)
LEMMA ItemsAppend ==
  ASSUME NEW first \in Nat, NEW n \in Nat
  PROVE  Append(Items(first, n), first + n + 1) = Items(first, n + 1)
BY DEF Items

LEMMA ItemsTail ==
  ASSUME NEW first \in Nat, NEW n \in Nat, n > 0
  PROVE  /\ Items(first, n) # <<>>
         /\ Head(Items(first, n)) = first + 1
         /\ Tail(Items(first, n)) = Items(first + 1, n - 1)
<1>1. Items(first, n) \in Seq(Nat) /\ Len(Items(first, n)) = n
  BY DEF Items
<1>2. Items(first, n) # <<>> /\ Head(Items(first, n)) = first + 1
  <2>1. Items(first, n)[1] = first + 1
    BY DEF Items
  <2> QED  BY <1>1, <2>1
<1>3. /\ Tail(Items(first, n)) \in Seq(Nat)
      /\ Len(Tail(Items(first, n))) = n - 1
      /\ \A k \in 1 .. n - 1 : Tail(Items(first, n))[k] = Items(first, n)[k + 1]
  BY <1>1, <1>2, HeadTailProperties
<1>4. \A k \in 1 .. n - 1 : Tail(Items(first, n))[k] = (first + 1) + k
  BY <1>3 DEF Items
<1>5. Items(first + 1, n - 1) \in Seq(Nat) /\ Len(Items(first + 1, n - 1)) = n - 1
  BY DEF Items
<1>6. \A k \in 1 .. n - 1 : Items(first + 1, n - 1)[k] = (first + 1) + k
  BY DEF Items
<1>7. Tail(Items(first, n)) = Items(first + 1, n - 1)
  <2> DEFINE s == Tail(Items(first, n))
             t == Items(first + 1, n - 1)
  <2>1. s \in Seq(Nat) /\ t \in Seq(Nat) /\ Len(s) = Len(t)
    BY <1>3, <1>5
  <2>2. \A i \in 1 .. Len(s) : s[i] = t[i]
    BY <1>3, <1>4, <1>6
  <2> HIDE DEF s, t
  <2>3. s = t
    BY <2>1, <2>2, SeqEqual
  <2> QED  BY <2>3 DEF s, t
<1> QED  BY <1>2, <1>7

(* The abstract queue of the refinement mapping. *)
Queue == [k \in 1 .. count |-> buffer[Slot(k - 1)]]

LEMMA QueueValue == IInv => Queue = Items(items_consumed, count)
<1> SUFFICES ASSUME IInv PROVE Queue = Items(items_consumed, count)
  OBVIOUS
<1>1. count \in Nat /\ items_consumed \in Nat
  BY SizeFacts DEF IInv, ControlInv, TypeOK
<1>2. ASSUME NEW k \in 1 .. count PROVE buffer[Slot(k - 1)] = items_consumed + k
  <2>1. k - 1 \in 0 .. count - 1
    BY <1>1
  <2>2. buffer[Slot(k - 1)] = items_consumed + 1 + (k - 1)
    BY <2>1 DEF IInv, Backlog
  <2> QED  BY <1>1, <2>2
<1> QED  BY <1>2 DEF Queue, Items

(* The step of the abstract queue that a step of the program is. *)
LEMMA FifoStep ==
  ASSUME IInv, IInv', [Next]_vars
  PROVE  [Fifo!Next]_(<<Queue, next_item, received>>)
<1>1. /\ count \in Nat /\ items_consumed \in Nat /\ count <= BUFFER_SIZE
      /\ next_item = items_consumed + count + 1
  BY SizeFacts DEF IInv, ControlInv, TypeOK, Backlog
<1>2. Queue = Items(items_consumed, count)
  BY QueueValue
<1>3. Queue' = Items(items_consumed', count')
  <2>1. (Queue = Items(items_consumed, count))'
    BY QueueValue, PTL
  <2> QED  BY <2>1
<1>4. CASE \E p \in Producers : Put(p)
  <2>1. PICK p \in Producers : Put(p)
    BY <1>4
  <2>2. count < BUFFER_SIZE
    BY <2>1 DEF IInv, ControlInv, PointInv, Put
  <2>3. Len(Queue) < BUFFER_SIZE
    BY <1>1, <1>2, <2>2 DEF Items
  <2>4. Queue' = Append(Queue, next_item)
    BY <1>1, <1>2, <1>3, <2>1, ItemsAppend DEF Put
  <2> QED  BY <2>1, <2>3, <2>4 DEF Put, Queue, Fifo!Next, Fifo!PutItem
<1>5. CASE \E c \in Consumers : Take(c)
  <2>1. PICK c \in Consumers : Take(c)
    BY <1>5
  <2>2. count > 0 /\ buffer[out_index] = items_consumed + 1
    BY <2>1, TakenItem DEF IInv, ControlInv, PointInv, Take
  <2>3. /\ Queue # <<>> /\ Head(Queue) = items_consumed + 1
        /\ Tail(Queue) = Items(items_consumed + 1, count - 1)
    BY <1>1, <1>2, <2>2, ItemsTail
  <2>4. Queue' = Tail(Queue)
    BY <1>3, <2>1, <2>3 DEF Take
  <2>5. received' = [received EXCEPT ![c] = @ \cup {Head(Queue)}] /\ next_item' = next_item
    BY <2>1, <2>2, <2>3 DEF Take
  <2> QED  BY <2>1, <2>3, <2>4, <2>5 DEF Queue, Fifo!Next, Fifo!GetItem
<1>6. CASE UNCHANGED <<queueVars, received>>
  BY <1>6 DEF Queue, Slot, queueVars
<1> QED  BY <1>4, <1>5, <1>6, OtherSteps

(* The queue of exercise3_solution.c is a bounded first-in first-out queue.  *)
THEOREM FifoRefinement == Spec => ImplementsFifo
<1>1. Init => Fifo!Init
  BY DEF Init, Fifo!Init
<1>2. IInv /\ IInv' /\ [Next]_vars => [Fifo!Next]_(Fifo!fifoVars)
  BY FifoStep DEF Queue, Fifo!fifoVars
<1> QED  BY <1>1, <1>2, Invariance, PTL DEF Spec, ImplementsFifo, Fifo!Spec

-----------------------------------------------------------------------------
(* Counting threads *)

(* How many threads of S have a control point in L. *)
Count(f, S, L) == Cardinality({t \in S : f[t] \in L})

One(condition) == IF condition THEN 1 ELSE 0

LEMMA ThreadsAreFinite ==
  ASSUME NEW S \in SUBSET Threads, NEW f, NEW L
  PROVE  /\ IsFiniteSet({t \in S : f[t] \in L})
         /\ Count(f, S, L) \in Nat
<1>1. IsFiniteSet(Threads)
  BY PCAssumption, FS_Union DEF Threads
<1>2. {t \in S : f[t] \in L} \in SUBSET Threads
  OBVIOUS
<1>3. IsFiniteSet({t \in S : f[t] \in L})
  BY <1>1, <1>2, FS_Subset
<1> QED  BY <1>3, FS_CardinalityType DEF Count

(* When one thread of S moves, the count changes by what it leaves and what  *)
(* it reaches.                                                               *)
LEMMA CountMove ==
  ASSUME NEW S \in SUBSET Threads, NEW L, NEW f, NEW g, NEW t \in S,
         \A u \in S \ {t} : g[u] = f[u]
  PROVE  Count(g, S, L) = Count(f, S, L) + One(g[t] \in L) - One(f[t] \in L)
<1> DEFINE F == {u \in S : f[u] \in L}
           G == {u \in S : g[u] \in L}
<1>1. /\ IsFiniteSet(F) /\ Cardinality(F) \in Nat
      /\ IsFiniteSet(G) /\ Cardinality(G) \in Nat
  BY ThreadsAreFinite DEF Count
<1>2. F \ {t} = G \ {t}
  OBVIOUS
<1>3. Cardinality(F \ {t}) = Cardinality(F) - One(f[t] \in L)
  <2>1. Cardinality(F \ {t}) = IF t \in F THEN Cardinality(F) - 1 ELSE Cardinality(F)
    BY <1>1, FS_RemoveElement
  <2>2. t \in F <=> f[t] \in L
    OBVIOUS
  <2> HIDE DEF F
  <2> QED  BY <1>1, <2>1, <2>2 DEF One
<1>4. Cardinality(G \ {t}) = Cardinality(G) - One(g[t] \in L)
  <2>1. Cardinality(G \ {t}) = IF t \in G THEN Cardinality(G) - 1 ELSE Cardinality(G)
    BY <1>1, FS_RemoveElement
  <2>2. t \in G <=> g[t] \in L
    OBVIOUS
  <2> HIDE DEF G
  <2> QED  BY <1>1, <2>1, <2>2 DEF One
<1>5. Count(f, S, L) = Cardinality(F) /\ Count(g, S, L) = Cardinality(G)
  BY DEF Count
<1> DEFINE left == One(f[t] \in L)
           reached == One(g[t] \in L)
<1>6. left \in Int /\ reached \in Int
  BY DEF One
<1>7. Cardinality(F \ {t}) = Cardinality(F) - left
  BY <1>3
<1>8. Cardinality(F \ {t}) = Cardinality(G) - reached
  BY <1>2, <1>4
<1> HIDE DEF F, G, left, reached
<1>9. Cardinality(G) = Cardinality(F) + reached - left
  BY <1>1, <1>6, <1>7, <1>8
<1> QED  BY <1>5, <1>9 DEF left, reached

LEMMA CountSame ==
  ASSUME NEW S, NEW L, NEW f, NEW g, \A u \in S : g[u] = f[u]
  PROVE  Count(g, S, L) = Count(f, S, L)
<1>1. {u \in S : g[u] \in L} = {u \in S : f[u] \in L}
  OBVIOUS
<1> QED  BY <1>1 DEF Count

-----------------------------------------------------------------------------
(* Wakeups *)

Takers(f) == Count(f, Consumers, {"woken", "test", "take"})
Putters(f) == Count(f, Producers, {"woken", "test", "put"})
ItemSignals(f) == Count(f, Producers, {"signal"})
SlotSignals(f) == Count(f, Consumers, {"signal"})

(* The two halves of NoLostWakeup, for any control points f and any number k *)
(* of items in the buffer.                                                   *)
ConsumersAwake(f, k) ==
  Sleepers(f, Consumers) # {} => k <= Takers(f) + ItemSignals(f)

ProducersAwake(f, k) ==
  Sleepers(f, Producers) # {} => BUFFER_SIZE - k <= Putters(f) + SlotSignals(f)

LEMMA AwakeIsNoLostWakeup ==
  NoLostWakeup <=> ConsumersAwake(pc, count) /\ ProducersAwake(pc, count)
BY DEF NoLostWakeup, At, ConsumersAwake, ProducersAwake, Takers, Putters, ItemSignals,
       SlotSignals, Count

LEMMA CountsAreNatural ==
  ASSUME NEW f
  PROVE  /\ Takers(f) \in Nat /\ Putters(f) \in Nat
         /\ ItemSignals(f) \in Nat /\ SlotSignals(f) \in Nat
BY ThreadFacts, ThreadsAreFinite DEF Takers, Putters, ItemSignals, SlotSignals

(* What the step of one consumer, or one producer, changes in the counts. *)
LEMMA ConsumerMove ==
  ASSUME NEW f, NEW g, NEW c \in Consumers, \A t \in Threads \ {c} : g[t] = f[t]
  PROVE  /\ Takers(g) = Takers(f) + One(g[c] \in {"woken", "test", "take"})
                                  - One(f[c] \in {"woken", "test", "take"})
         /\ SlotSignals(g) = SlotSignals(f) + One(g[c] \in {"signal"})
                                            - One(f[c] \in {"signal"})
         /\ Putters(g) = Putters(f) /\ ItemSignals(g) = ItemSignals(f)
         /\ Sleepers(g, Producers) = Sleepers(f, Producers)
         /\ g[c] # "blocked" => Sleepers(g, Consumers) \subseteq Sleepers(f, Consumers)
<1>1. \A t \in Consumers \ {c} : g[t] = f[t]
  BY ThreadFacts
<1>2. \A p \in Producers : g[p] = f[p]
  BY ThreadFacts
<1>3. /\ Takers(g) = Takers(f) + One(g[c] \in {"woken", "test", "take"})
                               - One(f[c] \in {"woken", "test", "take"})
      /\ SlotSignals(g) = SlotSignals(f) + One(g[c] \in {"signal"})
                                         - One(f[c] \in {"signal"})
  <2>1. Consumers \in SUBSET Threads
    BY ThreadFacts
  <2>2. \A L : Count(g, Consumers, L)
                = Count(f, Consumers, L) + One(g[c] \in L) - One(f[c] \in L)
    BY <1>1, <2>1, CountMove
  <2> QED  BY <2>2 DEF Takers, SlotSignals
<1>4. Putters(g) = Putters(f) /\ ItemSignals(g) = ItemSignals(f)
  BY <1>2, CountSame DEF Putters, ItemSignals
<1>5. /\ Sleepers(g, Producers) = Sleepers(f, Producers)
      /\ g[c] # "blocked" => Sleepers(g, Consumers) \subseteq Sleepers(f, Consumers)
  BY <1>1, <1>2 DEF Sleepers
<1> QED  BY <1>3, <1>4, <1>5

LEMMA ProducerMove ==
  ASSUME NEW f, NEW g, NEW p \in Producers, \A t \in Threads \ {p} : g[t] = f[t]
  PROVE  /\ Putters(g) = Putters(f) + One(g[p] \in {"woken", "test", "put"})
                                    - One(f[p] \in {"woken", "test", "put"})
         /\ ItemSignals(g) = ItemSignals(f) + One(g[p] \in {"signal"})
                                            - One(f[p] \in {"signal"})
         /\ Takers(g) = Takers(f) /\ SlotSignals(g) = SlotSignals(f)
         /\ Sleepers(g, Consumers) = Sleepers(f, Consumers)
         /\ g[p] # "blocked" => Sleepers(g, Producers) \subseteq Sleepers(f, Producers)
<1>1. \A t \in Producers \ {p} : g[t] = f[t]
  BY ThreadFacts
<1>2. \A c \in Consumers : g[c] = f[c]
  BY ThreadFacts
<1>3. /\ Putters(g) = Putters(f) + One(g[p] \in {"woken", "test", "put"})
                                 - One(f[p] \in {"woken", "test", "put"})
      /\ ItemSignals(g) = ItemSignals(f) + One(g[p] \in {"signal"})
                                         - One(f[p] \in {"signal"})
  BY <1>1, ThreadFacts, CountMove DEF Putters, ItemSignals
<1>4. Takers(g) = Takers(f) /\ SlotSignals(g) = SlotSignals(f)
  BY <1>2, CountSame DEF Takers, SlotSignals
<1>5. /\ Sleepers(g, Consumers) = Sleepers(f, Consumers)
      /\ g[p] # "blocked" => Sleepers(g, Producers) \subseteq Sleepers(f, Producers)
  BY <1>1, <1>2 DEF Sleepers
<1> QED  BY <1>3, <1>4, <1>5

(* The step of one consumer keeps everybody awake when it uses up no answer  *)
(* for an item that is still there, or when no item is left.                 *)
LEMMA ConsumerKeepsAwake ==
  ASSUME NEW f, NEW g, NEW c \in Consumers, \A t \in Threads \ {c} : g[t] = f[t],
         NEW k \in Int, NEW m \in Int,
         ConsumersAwake(f, k), ProducersAwake(f, k),
         \/ m <= 0
         \/ /\ g[c] # "blocked"
            /\ m - k <= One(g[c] \in {"woken", "test", "take"})
                        - One(f[c] \in {"woken", "test", "take"}),
         k - m <= One(g[c] \in {"signal"}) - One(f[c] \in {"signal"})
  PROVE  ConsumersAwake(g, m) /\ ProducersAwake(g, m)
<1>1. /\ Takers(f) \in Nat /\ Putters(f) \in Nat
      /\ ItemSignals(f) \in Nat /\ SlotSignals(f) \in Nat
      /\ Takers(g) \in Nat /\ Putters(g) \in Nat
      /\ ItemSignals(g) \in Nat /\ SlotSignals(g) \in Nat
  BY CountsAreNatural
<1>2. /\ Takers(g) = Takers(f) + One(g[c] \in {"woken", "test", "take"})
                               - One(f[c] \in {"woken", "test", "take"})
      /\ SlotSignals(g) = SlotSignals(f) + One(g[c] \in {"signal"})
                                         - One(f[c] \in {"signal"})
      /\ Putters(g) = Putters(f) /\ ItemSignals(g) = ItemSignals(f)
      /\ Sleepers(g, Producers) = Sleepers(f, Producers)
      /\ g[c] # "blocked" => Sleepers(g, Consumers) \subseteq Sleepers(f, Consumers)
  BY ConsumerMove
<1>3. ConsumersAwake(g, m)
  BY <1>1, <1>2 DEF ConsumersAwake, One
<1>4. ProducersAwake(g, m)
  BY <1>1, <1>2, SizeFacts DEF ProducersAwake, One
<1> QED  BY <1>3, <1>4

(* The same of a producer and the free slots. *)
LEMMA ProducerKeepsAwake ==
  ASSUME NEW f, NEW g, NEW p \in Producers, \A t \in Threads \ {p} : g[t] = f[t],
         NEW k \in Int, NEW m \in Int,
         ConsumersAwake(f, k), ProducersAwake(f, k),
         \/ m >= BUFFER_SIZE
         \/ /\ g[p] # "blocked"
            /\ k - m <= One(g[p] \in {"woken", "test", "put"})
                        - One(f[p] \in {"woken", "test", "put"}),
         m - k <= One(g[p] \in {"signal"}) - One(f[p] \in {"signal"})
  PROVE  ConsumersAwake(g, m) /\ ProducersAwake(g, m)
<1>1. /\ Takers(f) \in Nat /\ Putters(f) \in Nat
      /\ ItemSignals(f) \in Nat /\ SlotSignals(f) \in Nat
      /\ Takers(g) \in Nat /\ Putters(g) \in Nat
      /\ ItemSignals(g) \in Nat /\ SlotSignals(g) \in Nat
  BY CountsAreNatural
<1>2. /\ Putters(g) = Putters(f) + One(g[p] \in {"woken", "test", "put"})
                                 - One(f[p] \in {"woken", "test", "put"})
      /\ ItemSignals(g) = ItemSignals(f) + One(g[p] \in {"signal"})
                                         - One(f[p] \in {"signal"})
      /\ Takers(g) = Takers(f) /\ SlotSignals(g) = SlotSignals(f)
      /\ Sleepers(g, Consumers) = Sleepers(f, Consumers)
      /\ g[p] # "blocked" => Sleepers(g, Producers) \subseteq Sleepers(f, Producers)
  BY ProducerMove
<1>3. ConsumersAwake(g, m)
  BY <1>1, <1>2 DEF ConsumersAwake, One
<1>4. ProducersAwake(g, m)
  BY <1>1, <1>2, SizeFacts DEF ProducersAwake, One
<1> QED  BY <1>3, <1>4

(* A signal on not_empty answers for the item of the producer that gives it  *)
(* by waking a consumer, unless none sleeps.                                 *)
LEMMA SignalKeepsConsumersAwake ==
  ASSUME NEW f \in [Threads -> Labels], NEW p \in Producers, f[p] = "signal",
         NEW g \in Signal([f EXCEPT ![p] = "unlock"], Consumers), NEW k \in Int,
         ConsumersAwake(f, k), ProducersAwake(f, k)
  PROVE  ConsumersAwake(g, k) /\ ProducersAwake(g, k)
<1> DEFINE h == [f EXCEPT ![p] = "unlock"]
<1>1. /\ \A t \in Threads \ {p} : h[t] = f[t]
      /\ h[p] = "unlock"
  BY ThreadFacts
<1>2. /\ h \in [Threads -> Labels]
      /\ g \in Signal(h, Consumers)
  BY ThreadFacts DEF Labels
<1> HIDE DEF h
<1>3. /\ Takers(f) \in Nat /\ Putters(f) \in Nat
      /\ ItemSignals(f) \in Nat /\ SlotSignals(f) \in Nat
      /\ Takers(h) \in Nat /\ Putters(h) \in Nat
      /\ ItemSignals(h) \in Nat /\ SlotSignals(h) \in Nat
      /\ Takers(g) \in Nat /\ Putters(g) \in Nat
      /\ ItemSignals(g) \in Nat /\ SlotSignals(g) \in Nat
  BY CountsAreNatural
<1>4. /\ Putters(h) = Putters(f) /\ ItemSignals(h) = ItemSignals(f) - 1
      /\ Takers(h) = Takers(f) /\ SlotSignals(h) = SlotSignals(f)
      /\ Sleepers(h, Consumers) = Sleepers(f, Consumers)
      /\ Sleepers(h, Producers) \subseteq Sleepers(f, Producers)
  <2>1. /\ Putters(h) = Putters(f) + One(h[p] \in {"woken", "test", "put"})
                                   - One(f[p] \in {"woken", "test", "put"})
        /\ ItemSignals(h) = ItemSignals(f) + One(h[p] \in {"signal"})
                                           - One(f[p] \in {"signal"})
        /\ Takers(h) = Takers(f) /\ SlotSignals(h) = SlotSignals(f)
        /\ Sleepers(h, Consumers) = Sleepers(f, Consumers)
        /\ h[p] # "blocked" => Sleepers(h, Producers) \subseteq Sleepers(f, Producers)
    BY <1>1, ProducerMove
  <2> QED  BY <1>1, <1>3, <2>1 DEF One
<1>5. CASE Sleepers(h, Consumers) = {}
  <2>1. g = h
    BY <1>2, <1>5 DEF Signal
  <2>2. ConsumersAwake(h, k)
    BY <1>5 DEF ConsumersAwake
  <2>3. ProducersAwake(h, k)
    BY <1>4 DEF ProducersAwake
  <2> QED  BY <2>1, <2>2, <2>3
<1>6. CASE Sleepers(h, Consumers) # {}
  <2>1. PICK t \in Sleepers(h, Consumers) : g = [h EXCEPT ![t] = "woken"]
    BY <1>2, <1>6 DEF Signal
  <2>2. t \in Consumers /\ h[t] = "blocked" /\ g[t] = "woken"
    BY <1>2, <2>1, ThreadFacts DEF Sleepers
  <2>3. \A u \in Threads \ {t} : g[u] = h[u]
    BY <1>2, <2>1
  <2>4. /\ Takers(g) = Takers(h) + One(g[t] \in {"woken", "test", "take"})
                                 - One(h[t] \in {"woken", "test", "take"})
        /\ SlotSignals(g) = SlotSignals(h) + One(g[t] \in {"signal"})
                                           - One(h[t] \in {"signal"})
        /\ Putters(g) = Putters(h) /\ ItemSignals(g) = ItemSignals(h)
        /\ Sleepers(g, Producers) = Sleepers(h, Producers)
    BY <2>2, <2>3, ConsumerMove
  <2>5. Takers(g) = Takers(h) + 1 /\ SlotSignals(g) = SlotSignals(h)
    BY <1>3, <2>2, <2>4 DEF One
  <2>6. k <= Takers(f) + ItemSignals(f)
    BY <1>4, <1>6 DEF ConsumersAwake
  <2>7. ConsumersAwake(g, k)
    BY <1>3, <1>4, <2>4, <2>5, <2>6 DEF ConsumersAwake
  <2>8. ProducersAwake(g, k)
    BY <1>4, <2>4, <2>5 DEF ProducersAwake
  <2> QED  BY <2>7, <2>8
<1> QED  BY <1>5, <1>6

(* A signal on not_full answers for the slot of the consumer that gives it.  *)
LEMMA SignalKeepsProducersAwake ==
  ASSUME NEW f \in [Threads -> Labels], NEW c \in Consumers, f[c] = "signal",
         NEW g \in Signal([f EXCEPT ![c] = "unlock"], Producers), NEW k \in Int,
         ConsumersAwake(f, k), ProducersAwake(f, k)
  PROVE  ConsumersAwake(g, k) /\ ProducersAwake(g, k)
<1> DEFINE h == [f EXCEPT ![c] = "unlock"]
<1>1. /\ \A t \in Threads \ {c} : h[t] = f[t]
      /\ h[c] = "unlock"
  BY ThreadFacts
<1>2. /\ h \in [Threads -> Labels]
      /\ g \in Signal(h, Producers)
  BY ThreadFacts DEF Labels
<1> HIDE DEF h
<1>3. /\ Takers(f) \in Nat /\ Putters(f) \in Nat
      /\ ItemSignals(f) \in Nat /\ SlotSignals(f) \in Nat
      /\ Takers(h) \in Nat /\ Putters(h) \in Nat
      /\ ItemSignals(h) \in Nat /\ SlotSignals(h) \in Nat
      /\ Takers(g) \in Nat /\ Putters(g) \in Nat
      /\ ItemSignals(g) \in Nat /\ SlotSignals(g) \in Nat
  BY CountsAreNatural
<1>4. /\ Takers(h) = Takers(f) /\ SlotSignals(h) = SlotSignals(f) - 1
      /\ Putters(h) = Putters(f) /\ ItemSignals(h) = ItemSignals(f)
      /\ Sleepers(h, Producers) = Sleepers(f, Producers)
      /\ Sleepers(h, Consumers) \subseteq Sleepers(f, Consumers)
  <2>1. /\ Takers(h) = Takers(f) + One(h[c] \in {"woken", "test", "take"})
                                 - One(f[c] \in {"woken", "test", "take"})
        /\ SlotSignals(h) = SlotSignals(f) + One(h[c] \in {"signal"})
                                           - One(f[c] \in {"signal"})
        /\ Putters(h) = Putters(f) /\ ItemSignals(h) = ItemSignals(f)
        /\ Sleepers(h, Producers) = Sleepers(f, Producers)
        /\ h[c] # "blocked" => Sleepers(h, Consumers) \subseteq Sleepers(f, Consumers)
    BY <1>1, ConsumerMove
  <2> QED  BY <1>1, <1>3, <2>1 DEF One
<1>5. CASE Sleepers(h, Producers) = {}
  <2>1. g = h
    BY <1>2, <1>5 DEF Signal
  <2>2. ProducersAwake(h, k)
    BY <1>5 DEF ProducersAwake
  <2>3. ConsumersAwake(h, k)
    BY <1>4 DEF ConsumersAwake
  <2> QED  BY <2>1, <2>2, <2>3
<1>6. CASE Sleepers(h, Producers) # {}
  <2>1. PICK t \in Sleepers(h, Producers) : g = [h EXCEPT ![t] = "woken"]
    BY <1>2, <1>6 DEF Signal
  <2>2. t \in Producers /\ h[t] = "blocked" /\ g[t] = "woken"
    BY <1>2, <2>1, ThreadFacts DEF Sleepers
  <2>3. \A u \in Threads \ {t} : g[u] = h[u]
    BY <1>2, <2>1
  <2>4. /\ Putters(g) = Putters(h) + One(g[t] \in {"woken", "test", "put"})
                                   - One(h[t] \in {"woken", "test", "put"})
        /\ ItemSignals(g) = ItemSignals(h) + One(g[t] \in {"signal"})
                                           - One(h[t] \in {"signal"})
        /\ Takers(g) = Takers(h) /\ SlotSignals(g) = SlotSignals(h)
        /\ Sleepers(g, Consumers) = Sleepers(h, Consumers)
    BY <2>2, <2>3, ProducerMove
  <2>5. Putters(g) = Putters(h) + 1 /\ ItemSignals(g) = ItemSignals(h)
    BY <1>3, <2>2, <2>4 DEF One
  <2>6. BUFFER_SIZE - k <= Putters(f) + SlotSignals(f)
    BY <1>4, <1>6 DEF ProducersAwake
  <2>7. ProducersAwake(g, k)
    BY <1>3, <1>4, <2>4, <2>5, <2>6, SizeFacts DEF ProducersAwake
  <2>8. ConsumersAwake(g, k)
    BY <1>4, <2>4, <2>5 DEF ConsumersAwake
  <2> QED  BY <2>7, <2>8
<1> QED  BY <1>5, <1>6

(* main()'s broadcast leaves no consumer asleep. *)
LEMMA BroadcastKeepsAwake ==
  ASSUME NEW f \in [Threads -> Labels], NEW k \in Int, ProducersAwake(f, k)
  PROVE  /\ ConsumersAwake(Broadcast(f, Consumers), k)
         /\ ProducersAwake(Broadcast(f, Consumers), k)
<1> DEFINE g == Broadcast(f, Consumers)
<1>1. \A t \in Threads : g[t] = IF t \in Sleepers(f, Consumers) THEN "woken" ELSE f[t]
  BY DEF Broadcast
<1>2. Sleepers(g, Consumers) = {}
  BY <1>1, ThreadFacts DEF Sleepers
<1>3. \A p \in Producers : g[p] = f[p]
  BY <1>1, ThreadFacts DEF Sleepers
<1>4. SlotSignals(g) = SlotSignals(f)
  <2>1. \A c \in Consumers : g[c] \in {"signal"} <=> f[c] \in {"signal"}
    BY <1>1, ThreadFacts DEF Sleepers
  <2>2. {c \in Consumers : g[c] \in {"signal"}} = {c \in Consumers : f[c] \in {"signal"}}
    BY <2>1
  <2> QED  BY <2>2 DEF SlotSignals, Count
<1>5. Putters(g) = Putters(f) /\ Sleepers(g, Producers) = Sleepers(f, Producers)
  BY <1>3, CountSame DEF Putters, Sleepers
<1> HIDE DEF g
<1>6. ConsumersAwake(g, k)
  BY <1>2 DEF ConsumersAwake
<1>7. ProducersAwake(g, k)
  BY <1>4, <1>5 DEF ProducersAwake
<1> QED  BY <1>6, <1>7 DEF g

-----------------------------------------------------------------------------
(* What the tests establish *)

(* A thread on its way into pthread_cond_wait() found the buffer empty, or   *)
(* full, and still holds the mutex.                                          *)
SleepInv ==
  /\ \A c \in Consumers : pc[c] = "sleep" => count = 0
  /\ \A p \in Producers : pc[p] = "sleep" => count = BUFFER_SIZE

(* A consumer that leaves its loop found that all items are consumed.        *)
QuitInv == \A c \in Consumers : pc[c] \in {"quit", "done"} => AllConsumed

(* What main() has joined is done. *)
MainInv ==
  /\ main \in {"broadcast", "join_consumers", "exit"} =>
       \A p \in Producers : pc[p] = "done"
  /\ main = "exit" => \A c \in Consumers : pc[c] = "done"

(* The items a producer has put, and those of all the producers: an item is  *)
(* a producer and a number of its loop.                                      *)
Stored(p) == IF pc[p] \in {"signal", "unlock"} THEN made[p] + 1 ELSE made[p]

Produced == {x \in Producers \X (1 .. ITEMS_PER_PRODUCER) : x[2] <= Stored(x[1])}

CountInv == next_item = Cardinality(Produced) + 1

EndInv ==
  /\ SleepInv /\ QuitInv /\ MainInv /\ CountInv
  /\ ConsumersAwake(pc, count) /\ ProducersAwake(pc, count)

LEMMA ProducedIsFinite ==
  /\ IsFiniteSet(Produced) /\ Cardinality(Produced) \in Nat
  /\ Cardinality(Produced) <= TOTAL_ITEMS /\ TOTAL_ITEMS \in Nat
<1> DEFINE all == Producers \X (1 .. ITEMS_PER_PRODUCER)
<1>1. /\ IsFiniteSet(1 .. ITEMS_PER_PRODUCER)
      /\ Cardinality(1 .. ITEMS_PER_PRODUCER) = ITEMS_PER_PRODUCER
  BY SizeFacts, FS_Interval
<1>2. IsFiniteSet(Producers) /\ Cardinality(Producers) \in Nat
  BY PCAssumption, FS_CardinalityType
<1>3. IsFiniteSet(all) /\ Cardinality(all) = TOTAL_ITEMS
  BY <1>1, <1>2, FS_Product DEF TOTAL_ITEMS
<1>4. Produced \in SUBSET all
  BY DEF Produced
<1> HIDE DEF all
<1>5. IsFiniteSet(Produced) /\ Cardinality(Produced) <= Cardinality(all)
  BY <1>3, <1>4, FS_Subset
<1> QED  BY <1>3, <1>5, FS_CardinalityType

(* When all items are consumed the buffer is empty: no more were produced.   *)
LEMMA NothingLeft ==
  ASSUME TypeOK, Backlog, CountInv, AllConsumed
  PROVE  count = 0 /\ items_consumed = TOTAL_ITEMS
BY ProducedIsFinite, SizeFacts DEF TypeOK, Backlog, CountInv, AllConsumed

(* Put produces one item, and no other step produces any.                    *)
LEMMA PutCounts ==
  ASSUME IInv, CountInv, NEW p \in Producers, Put(p)
  PROVE  CountInv'
<1> DEFINE item == <<p, made[p] + 1>>
<1>1. made \in [Producers -> 0 .. ITEMS_PER_PRODUCER] /\ pc \in [Threads -> Labels]
  BY DEF IInv, ControlInv, TypeOK
<1>2. made[p] < ITEMS_PER_PRODUCER /\ pc[p] = "put" /\ made' = made
  BY DEF IInv, ControlInv, LoopInv, Put
<1>3. pc' = [pc EXCEPT ![p] = "signal"] /\ next_item' = next_item + 1
  BY DEF Put, Goto
<1>4. item \in Producers \X (1 .. ITEMS_PER_PRODUCER)
  BY <1>1, <1>2, SizeFacts
<1>5. \A q \in Producers :
        /\ Stored(q) \in Int
        /\ Stored(q)' = IF q = p THEN made[p] + 1 ELSE Stored(q)
  BY <1>1, <1>2, <1>3, ThreadFacts, SizeFacts DEF Stored
<1>6. Stored(p) = made[p] /\ made[p] \in Int
  BY <1>1, <1>2, SizeFacts DEF Stored
<1>7. item \notin Produced
  BY <1>6 DEF Produced
<1>8. Produced' = Produced \cup {item}
  <2>1. ASSUME NEW x \in Producers \X (1 .. ITEMS_PER_PRODUCER)
        PROVE  x[2] <= Stored(x[1])' <=> x[2] <= Stored(x[1]) \/ x = item
    <3>1. x = <<x[1], x[2]>> /\ x[1] \in Producers /\ x[2] \in Int
      BY SizeFacts
    <3>2. x = item <=> x[1] = p /\ x[2] = made[p] + 1
      BY <3>1
    <3>3. CASE x[1] = p
      BY <1>5, <1>6, <3>1, <3>2, <3>3
    <3>4. CASE x[1] # p
      BY <1>5, <3>1, <3>2, <3>4
    <3> QED  BY <3>3, <3>4
  <2>2. Produced' = {x \in Producers \X (1 .. ITEMS_PER_PRODUCER) : x[2] <= Stored(x[1])'}
    BY DEF Produced
  <2> HIDE DEF item
  <2> QED  BY <1>4, <2>1, <2>2 DEF Produced
<1> HIDE DEF item
<1>9. Cardinality(Produced \cup {item}) = Cardinality(Produced) + 1
  BY <1>7, ProducedIsFinite, FS_AddElement
<1>10. Cardinality(Produced)' = Cardinality(Produced) + 1
  BY <1>8, <1>9
<1> QED  BY <1>3, <1>10, ProducedIsFinite DEF CountInv

LEMMA SameStored ==
  ASSUME CountInv, next_item' = next_item, \A p \in Producers : Stored(p)' = Stored(p)
  PROVE  CountInv'
<1>1. Produced' = {x \in Producers \X (1 .. ITEMS_PER_PRODUCER) : x[2] <= Stored(x[1])'}
  BY DEF Produced
<1>2. \A x \in Producers \X (1 .. ITEMS_PER_PRODUCER) : Stored(x[1])' = Stored(x[1])
  OBVIOUS
<1>3. Produced' = Produced
  BY <1>1, <1>2 DEF Produced
<1> QED  BY <1>3 DEF CountInv

LEMMA EndInit == Init => EndInv
<1> SUFFICES ASSUME Init PROVE EndInv
  OBVIOUS
<1>1. SleepInv /\ QuitInv /\ MainInv
  BY ThreadFacts DEF Init, SleepInv, QuitInv, MainInv
<1>2. CountInv
  <2>1. Produced = {}
    BY SizeFacts, ThreadFacts DEF Init, Produced, Stored
  <2> QED  BY <2>1, FS_EmptySet DEF Init, CountInv
<1>3. Sleepers(pc, Consumers) = {} /\ Sleepers(pc, Producers) = {}
  BY ThreadFacts DEF Init, Sleepers
<1> QED  BY <1>1, <1>2, <1>3 DEF EndInv, ConsumersAwake, ProducersAwake

(* A step of one thread that changes only what its guard and its target say. *)
LEMMA Moved ==
  ASSUME TypeOK, NEW t \in Threads, NEW l \in Labels, Goto(t, l)
  PROVE  pc'[t] = l /\ \A u \in Threads \ {t} : pc'[u] = pc[u]
BY DEF TypeOK, Goto

LEMMA EndStep == IInv /\ EndInv /\ [Next]_vars => EndInv'
<1> SUFFICES ASSUME IInv, EndInv, [Next]_vars PROVE EndInv'
  OBVIOUS
<1> USE ThreadFacts, SizeFacts
<1>0. /\ TypeOK /\ MutexInv /\ PointInv /\ LoopInv /\ Backlog
      /\ SleepInv /\ QuitInv /\ MainInv /\ CountInv
      /\ ConsumersAwake(pc, count) /\ ProducersAwake(pc, count)
      /\ count \in Int /\ items_consumed \in Int /\ TOTAL_ITEMS \in Int
  BY ProducedIsFinite DEF IInv, ControlInv, TypeOK, EndInv
<1>1. ASSUME NEW t \in Threads, Acquire(t) PROVE EndInv'
  <2>1. pc'[t] = "test" /\ \A u \in Threads \ {t} : pc'[u] = pc[u]
    BY <1>0, <1>1, Moved DEF Acquire, Labels
  <2>2. SleepInv'
    BY <1>0, <1>1, <2>1 DEF Acquire, SleepInv, MutexInv, Holding, PointInv, queueVars
  <2>3. QuitInv'
    BY <1>0, <1>1, <2>1 DEF Acquire, QuitInv, AllConsumed, queueVars
  <2>4. MainInv'
    BY <1>0, <1>1, <2>1 DEF Acquire, MainInv, queueVars
  <2>5. next_item' = next_item /\ \A q \in Producers : Stored(q)' = Stored(q)
    BY <1>0, <1>1, <2>1 DEF Acquire, Stored, TypeOK, queueVars
  <2>6. CountInv'
    BY <1>0, <2>5, SameStored
  <2>7. count' = count /\ count' \in Int
    BY <1>0, <1>1 DEF Acquire, queueVars
  <2>8. ConsumersAwake(pc', count') /\ ProducersAwake(pc', count')
    <3>1. CASE t \in Consumers
      <4>1. /\ \/ count' <= 0
               \/ /\ pc'[t] # "blocked"
                  /\ count' - count <= One(pc'[t] \in {"woken", "test", "take"})
                                      - One(pc[t] \in {"woken", "test", "take"})
            /\ count - count' <= One(pc'[t] \in {"signal"}) - One(pc[t] \in {"signal"})
        BY <1>0, <1>1, <3>1, <2>1, <2>7 DEF Acquire, One, SleepInv
      <4> QED  BY <1>0, <3>1, <2>1, <2>7, <4>1, ConsumerKeepsAwake
    <3>2. CASE t \in Producers
      <4>1. /\ \/ count' >= BUFFER_SIZE
               \/ /\ pc'[t] # "blocked"
                  /\ count - count' <= One(pc'[t] \in {"woken", "test", "put"})
                                      - One(pc[t] \in {"woken", "test", "put"})
            /\ count' - count <= One(pc'[t] \in {"signal"}) - One(pc[t] \in {"signal"})
        BY <1>0, <1>1, <3>2, <2>1, <2>7 DEF Acquire, One, SleepInv
      <4> QED  BY <1>0, <3>2, <2>1, <2>7, <4>1, ProducerKeepsAwake
    <3> QED  BY <3>1, <3>2
  <2> QED  BY <2>2, <2>3, <2>4, <2>6, <2>8 DEF EndInv
<1>2. ASSUME NEW t \in Threads, SpuriousWakeup(t) PROVE EndInv'
  <2>1. pc'[t] = "woken" /\ \A u \in Threads \ {t} : pc'[u] = pc[u]
    BY <1>0, <1>2, Moved DEF SpuriousWakeup, Labels
  <2>2. SleepInv'
    BY <1>0, <1>2, <2>1 DEF SpuriousWakeup, SleepInv, MutexInv, Holding, PointInv, queueVars
  <2>3. QuitInv'
    BY <1>0, <1>2, <2>1 DEF SpuriousWakeup, QuitInv, AllConsumed, queueVars
  <2>4. MainInv'
    BY <1>0, <1>2, <2>1 DEF SpuriousWakeup, MainInv, queueVars
  <2>5. next_item' = next_item /\ \A q \in Producers : Stored(q)' = Stored(q)
    BY <1>0, <1>2, <2>1 DEF SpuriousWakeup, Stored, TypeOK, queueVars
  <2>6. CountInv'
    BY <1>0, <2>5, SameStored
  <2>7. count' = count /\ count' \in Int
    BY <1>0, <1>2 DEF SpuriousWakeup, queueVars
  <2>8. ConsumersAwake(pc', count') /\ ProducersAwake(pc', count')
    <3>1. CASE t \in Consumers
      <4>1. /\ \/ count' <= 0
               \/ /\ pc'[t] # "blocked"
                  /\ count' - count <= One(pc'[t] \in {"woken", "test", "take"})
                                      - One(pc[t] \in {"woken", "test", "take"})
            /\ count - count' <= One(pc'[t] \in {"signal"}) - One(pc[t] \in {"signal"})
        BY <1>0, <1>2, <3>1, <2>1, <2>7 DEF SpuriousWakeup, One, SleepInv
      <4> QED  BY <1>0, <3>1, <2>1, <2>7, <4>1, ConsumerKeepsAwake
    <3>2. CASE t \in Producers
      <4>1. /\ \/ count' >= BUFFER_SIZE
               \/ /\ pc'[t] # "blocked"
                  /\ count - count' <= One(pc'[t] \in {"woken", "test", "put"})
                                      - One(pc[t] \in {"woken", "test", "put"})
            /\ count' - count <= One(pc'[t] \in {"signal"}) - One(pc[t] \in {"signal"})
        BY <1>0, <1>2, <3>2, <2>1, <2>7 DEF SpuriousWakeup, One, SleepInv
      <4> QED  BY <1>0, <3>2, <2>1, <2>7, <4>1, ProducerKeepsAwake
    <3> QED  BY <3>1, <3>2
  <2> QED  BY <2>2, <2>3, <2>4, <2>6, <2>8 DEF EndInv
<1>3. ASSUME NEW t \in Threads, CondWait(t) PROVE EndInv'
  <2>1. pc'[t] = "blocked" /\ \A u \in Threads \ {t} : pc'[u] = pc[u]
    BY <1>0, <1>3, Moved DEF CondWait, Labels
  <2>2. SleepInv'
    BY <1>0, <1>3, <2>1 DEF CondWait, SleepInv, MutexInv, Holding, PointInv, queueVars
  <2>3. QuitInv'
    BY <1>0, <1>3, <2>1 DEF CondWait, QuitInv, AllConsumed, queueVars
  <2>4. MainInv'
    BY <1>0, <1>3, <2>1 DEF CondWait, MainInv, queueVars
  <2>5. next_item' = next_item /\ \A q \in Producers : Stored(q)' = Stored(q)
    BY <1>0, <1>3, <2>1 DEF CondWait, Stored, TypeOK, queueVars
  <2>6. CountInv'
    BY <1>0, <2>5, SameStored
  <2>7. count' = count /\ count' \in Int
    BY <1>0, <1>3 DEF CondWait, queueVars
  <2>8. ConsumersAwake(pc', count') /\ ProducersAwake(pc', count')
    <3>1. CASE t \in Consumers
      <4>1. /\ \/ count' <= 0
               \/ /\ pc'[t] # "blocked"
                  /\ count' - count <= One(pc'[t] \in {"woken", "test", "take"})
                                      - One(pc[t] \in {"woken", "test", "take"})
            /\ count - count' <= One(pc'[t] \in {"signal"}) - One(pc[t] \in {"signal"})
        BY <1>0, <1>3, <3>1, <2>1, <2>7 DEF CondWait, One, SleepInv
      <4> QED  BY <1>0, <3>1, <2>1, <2>7, <4>1, ConsumerKeepsAwake
    <3>2. CASE t \in Producers
      <4>1. /\ \/ count' >= BUFFER_SIZE
               \/ /\ pc'[t] # "blocked"
                  /\ count - count' <= One(pc'[t] \in {"woken", "test", "put"})
                                      - One(pc[t] \in {"woken", "test", "put"})
            /\ count' - count <= One(pc'[t] \in {"signal"}) - One(pc[t] \in {"signal"})
        BY <1>0, <1>3, <3>2, <2>1, <2>7 DEF CondWait, One, SleepInv
      <4> QED  BY <1>0, <3>2, <2>1, <2>7, <4>1, ProducerKeepsAwake
    <3> QED  BY <3>1, <3>2
  <2> QED  BY <2>2, <2>3, <2>4, <2>6, <2>8 DEF EndInv
<1>4. ASSUME NEW p \in Producers, ProducerTest(p) PROVE EndInv'
  <2>1. pc'[p] = (IF Full THEN "sleep" ELSE "put") /\ \A u \in Threads \ {p} : pc'[u] = pc[u]
    BY <1>0, <1>4, Moved DEF ProducerTest, Labels
  <2>2. pc[p] = "test" /\ (Full <=> count = BUFFER_SIZE)
    BY <1>4 DEF ProducerTest, Full
  <2>3. SleepInv'
    BY <1>0, <1>4, <2>1, <2>2 DEF ProducerTest, SleepInv, MutexInv, Holding, PointInv, queueVars
  <2>4. QuitInv'
    BY <1>0, <1>4, <2>1, <2>2 DEF ProducerTest, QuitInv, AllConsumed, queueVars
  <2>5. MainInv'
    BY <1>0, <1>4, <2>1, <2>2 DEF ProducerTest, MainInv, queueVars
  <2>6. next_item' = next_item /\ \A q \in Producers : Stored(q)' = Stored(q)
    BY <1>0, <1>4, <2>1, <2>2 DEF ProducerTest, Stored, TypeOK, queueVars
  <2>7. CountInv'
    BY <1>0, <2>6, SameStored
  <2>8. count' = count /\ count' \in Int
    BY <1>0, <1>4 DEF ProducerTest, queueVars
  <2>9. ConsumersAwake(pc', count') /\ ProducersAwake(pc', count')
    <3>1. /\ \/ count' >= BUFFER_SIZE
             \/ /\ pc'[p] # "blocked"
                /\ count - count' <= One(pc'[p] \in {"woken", "test", "put"})
                                    - One(pc[p] \in {"woken", "test", "put"})
          /\ count' - count <= One(pc'[p] \in {"signal"}) - One(pc[p] \in {"signal"})
      BY <1>0, <1>4, <2>1, <2>2, <2>8 DEF ProducerTest, One
    <3> QED  BY <1>0, <2>1, <2>8, <3>1, ProducerKeepsAwake
  <2> QED  BY <2>3, <2>4, <2>5, <2>7, <2>9 DEF EndInv
<1>5. ASSUME NEW p \in Producers, Put(p) PROVE EndInv'
  <2>1. pc'[p] = "signal" /\ \A u \in Threads \ {p} : pc'[u] = pc[u]
    BY <1>0, <1>5, Moved DEF Put, Labels
  <2>2. pc[p] = "put" /\ mutex = p
    BY <1>0, <1>5 DEF Put, MutexInv, Holding
  <2>3. SleepInv'
    BY <1>0, <1>5, <2>1, <2>2 DEF Put, SleepInv, MutexInv, Holding, PointInv, queueVars
  <2>4. QuitInv'
    BY <1>0, <1>5, <2>1, <2>2 DEF Put, QuitInv, AllConsumed, queueVars
  <2>5. MainInv'
    BY <1>0, <1>5, <2>1, <2>2 DEF Put, MainInv, queueVars
  <2>6. CountInv'
    BY <1>0, <1>5, PutCounts
  <2>7. count' = count + 1 /\ count' \in Int
    BY <1>0, <1>5 DEF Put, queueVars
  <2>8. ConsumersAwake(pc', count') /\ ProducersAwake(pc', count')
    <3>1. /\ \/ count' >= BUFFER_SIZE
             \/ /\ pc'[p] # "blocked"
                /\ count - count' <= One(pc'[p] \in {"woken", "test", "put"})
                                    - One(pc[p] \in {"woken", "test", "put"})
          /\ count' - count <= One(pc'[p] \in {"signal"}) - One(pc[p] \in {"signal"})
      BY <1>0, <1>5, <2>1, <2>2, <2>7 DEF Put, One
    <3> QED  BY <1>0, <2>1, <2>7, <3>1, ProducerKeepsAwake
  <2> QED  BY <2>3, <2>4, <2>5, <2>6, <2>8 DEF EndInv
<1>6. ASSUME NEW p \in Producers, SignalNotEmpty(p) PROVE EndInv'
  <2> DEFINE h == [pc EXCEPT ![p] = "unlock"]
  <2>1. pc[p] = "signal" /\ h \in [Threads -> Labels] /\ pc' \in Signal(h, Consumers)
    BY <1>0, <1>6 DEF SignalNotEmpty, TypeOK, Labels
  <2>2. \A u \in Threads : pc'[u] # h[u] => h[u] = "blocked" /\ pc'[u] = "woken"
    BY <2>1, SignalEffect
  <2>3. \A u \in Threads :
          \/ pc'[u] = pc[u] /\ u # p
          \/ pc[u] = "blocked" /\ pc'[u] = "woken"
          \/ u = p /\ pc[u] = "signal" /\ pc'[u] = "unlock"
    BY <1>0, <2>1, <2>2 DEF TypeOK
  <2>4. UNCHANGED <<mutex, queueVars, made, received, main>> /\ count' = count
    BY <1>6 DEF SignalNotEmpty, queueVars
  <2>5. SleepInv' /\ QuitInv'
    BY <1>0, <2>3, <2>4 DEF SleepInv, QuitInv, AllConsumed, queueVars
  <2>6. MainInv'
    BY <1>0, <2>3, <2>4 DEF MainInv
  <2>7. next_item' = next_item /\ \A q \in Producers : Stored(q)' = Stored(q)
    BY <1>0, <2>3, <2>4 DEF Stored, queueVars
  <2>8. CountInv'
    BY <1>0, <2>7, SameStored
  <2>9. ConsumersAwake(pc', count') /\ ProducersAwake(pc', count')
    <3>1. pc \in [Threads -> Labels]
      BY <1>0 DEF TypeOK
    <3>2. ConsumersAwake(pc', count) /\ ProducersAwake(pc', count)
      BY <1>0, <2>1, <3>1, SignalKeepsConsumersAwake
    <3> QED  BY <2>4, <3>2
  <2> QED  BY <2>5, <2>6, <2>8, <2>9 DEF EndInv
<1>7. ASSUME NEW p \in Producers, ProducerUnlock(p) PROVE EndInv'
  <2>1. pc'[p] = (IF made[p] + 1 < ITEMS_PER_PRODUCER THEN "lock" ELSE "done") /\ \A u \in Threads \ {p} : pc'[u] = pc[u]
    BY <1>0, <1>7, Moved DEF ProducerUnlock, Labels
  <2>2. SleepInv'
    BY <1>0, <1>7, <2>1 DEF ProducerUnlock, SleepInv, MutexInv, Holding, PointInv, queueVars
  <2>3. QuitInv'
    BY <1>0, <1>7, <2>1 DEF ProducerUnlock, QuitInv, AllConsumed, queueVars
  <2>4. MainInv'
    BY <1>0, <1>7, <2>1 DEF ProducerUnlock, MainInv, queueVars
  <2>5. next_item' = next_item /\ \A q \in Producers : Stored(q)' = Stored(q)
    BY <1>0, <1>7, <2>1 DEF ProducerUnlock, Stored, TypeOK, queueVars
  <2>6. CountInv'
    BY <1>0, <2>5, SameStored
  <2>7. count' = count /\ count' \in Int
    BY <1>0, <1>7 DEF ProducerUnlock, queueVars
  <2>8. ConsumersAwake(pc', count') /\ ProducersAwake(pc', count')
    <3>1. /\ \/ count' >= BUFFER_SIZE
             \/ /\ pc'[p] # "blocked"
                /\ count - count' <= One(pc'[p] \in {"woken", "test", "put"})
                                    - One(pc[p] \in {"woken", "test", "put"})
          /\ count' - count <= One(pc'[p] \in {"signal"}) - One(pc[p] \in {"signal"})
      BY <1>0, <1>7, <2>1, <2>7 DEF ProducerUnlock, One
    <3> QED  BY <1>0, <2>1, <2>7, <3>1, ProducerKeepsAwake
  <2> QED  BY <2>2, <2>3, <2>4, <2>6, <2>8 DEF EndInv
<1>8. ASSUME NEW c \in Consumers, ConsumerTest(c) PROVE EndInv'
  <2>1. AfterTest \in {"sleep", "quit", "unlock", "take"}
    BY DEF AfterTest
  <2>2. pc'[c] = AfterTest /\ \A u \in Threads \ {c} : pc'[u] = pc[u]
    BY <1>0, <1>8, <2>1, Moved DEF ConsumerTest, Labels
  <2>3. pc[c] = "test"
    BY <1>8 DEF ConsumerTest
  <2>4. AfterTest = "quit" => AllConsumed /\ count = 0
    BY <1>0, NothingLeft DEF AfterTest
  <2>5. AfterTest # "quit" => AfterTest = "take" \/ count = 0
    BY DEF AfterTest
  <2>6. SleepInv'
    BY <1>0, <1>8, <2>2, <2>1, <2>3, <2>4, <2>5 DEF ConsumerTest, SleepInv, MutexInv, Holding, PointInv, queueVars
  <2>7. QuitInv'
    BY <1>0, <1>8, <2>2, <2>1, <2>3, <2>4, <2>5 DEF ConsumerTest, QuitInv, AllConsumed, queueVars
  <2>8. MainInv'
    BY <1>0, <1>8, <2>2, <2>1, <2>3, <2>4, <2>5 DEF ConsumerTest, MainInv, queueVars
  <2>9. next_item' = next_item /\ \A q \in Producers : Stored(q)' = Stored(q)
    BY <1>0, <1>8, <2>2, <2>1, <2>3, <2>4, <2>5 DEF ConsumerTest, Stored, TypeOK, queueVars
  <2>10. CountInv'
    BY <1>0, <2>9, SameStored
  <2>11. count' = count /\ count' \in Int
    BY <1>0, <1>8 DEF ConsumerTest, queueVars
  <2>12. ConsumersAwake(pc', count') /\ ProducersAwake(pc', count')
    <3>1. /\ \/ count' <= 0
             \/ /\ pc'[c] # "blocked"
                /\ count' - count <= One(pc'[c] \in {"woken", "test", "take"})
                                    - One(pc[c] \in {"woken", "test", "take"})
          /\ count - count' <= One(pc'[c] \in {"signal"}) - One(pc[c] \in {"signal"})
      BY <1>0, <1>8, <2>2, <2>1, <2>3, <2>4, <2>5, <2>11 DEF ConsumerTest, One
    <3> QED  BY <1>0, <2>2, <2>11, <3>1, ConsumerKeepsAwake
  <2> QED  BY <2>6, <2>7, <2>8, <2>10, <2>12 DEF EndInv
<1>9. ASSUME NEW c \in Consumers, Take(c) PROVE EndInv'
  <2>1. pc'[c] = "signal" /\ \A u \in Threads \ {c} : pc'[u] = pc[u]
    BY <1>0, <1>9, Moved DEF Take, Labels
  <2>2. pc[c] = "take" /\ mutex = c
    BY <1>0, <1>9 DEF Take, MutexInv, Holding
  <2>3. SleepInv'
    BY <1>0, <1>9, <2>1, <2>2 DEF Take, SleepInv, MutexInv, Holding, PointInv, queueVars
  <2>4. QuitInv'
    BY <1>0, <1>9, <2>1, <2>2 DEF Take, QuitInv, AllConsumed, queueVars
  <2>5. MainInv'
    BY <1>0, <1>9, <2>1, <2>2 DEF Take, MainInv, queueVars
  <2>6. next_item' = next_item /\ \A q \in Producers : Stored(q)' = Stored(q)
    BY <1>0, <1>9, <2>1, <2>2 DEF Take, Stored, TypeOK, queueVars
  <2>7. CountInv'
    BY <1>0, <2>6, SameStored
  <2>8. count' = count - 1 /\ count' \in Int
    BY <1>0, <1>9 DEF Take, queueVars
  <2>9. ConsumersAwake(pc', count') /\ ProducersAwake(pc', count')
    <3>1. /\ \/ count' <= 0
             \/ /\ pc'[c] # "blocked"
                /\ count' - count <= One(pc'[c] \in {"woken", "test", "take"})
                                    - One(pc[c] \in {"woken", "test", "take"})
          /\ count - count' <= One(pc'[c] \in {"signal"}) - One(pc[c] \in {"signal"})
      BY <1>0, <1>9, <2>1, <2>2, <2>8 DEF Take, One
    <3> QED  BY <1>0, <2>1, <2>8, <3>1, ConsumerKeepsAwake
  <2> QED  BY <2>3, <2>4, <2>5, <2>7, <2>9 DEF EndInv
<1>10. ASSUME NEW c \in Consumers, SignalNotFull(c) PROVE EndInv'
  <2> DEFINE h == [pc EXCEPT ![c] = "unlock"]
  <2>1. pc[c] = "signal" /\ h \in [Threads -> Labels] /\ pc' \in Signal(h, Producers)
    BY <1>0, <1>10 DEF SignalNotFull, TypeOK, Labels
  <2>2. \A u \in Threads : pc'[u] # h[u] => h[u] = "blocked" /\ pc'[u] = "woken"
    BY <2>1, SignalEffect
  <2>3. \A u \in Threads :
          \/ pc'[u] = pc[u] /\ u # c
          \/ pc[u] = "blocked" /\ pc'[u] = "woken"
          \/ u = c /\ pc[u] = "signal" /\ pc'[u] = "unlock"
    BY <1>0, <2>1, <2>2 DEF TypeOK
  <2>4. UNCHANGED <<mutex, queueVars, made, received, main>> /\ count' = count
    BY <1>10 DEF SignalNotFull, queueVars
  <2>5. SleepInv' /\ QuitInv'
    BY <1>0, <2>3, <2>4 DEF SleepInv, QuitInv, AllConsumed, queueVars
  <2>6. MainInv'
    BY <1>0, <2>3, <2>4 DEF MainInv
  <2>7. next_item' = next_item /\ \A q \in Producers : Stored(q)' = Stored(q)
    BY <1>0, <2>3, <2>4 DEF Stored, queueVars
  <2>8. CountInv'
    BY <1>0, <2>7, SameStored
  <2>9. ConsumersAwake(pc', count') /\ ProducersAwake(pc', count')
    <3>1. pc \in [Threads -> Labels]
      BY <1>0 DEF TypeOK
    <3>2. ConsumersAwake(pc', count) /\ ProducersAwake(pc', count)
      BY <1>0, <2>1, <3>1, SignalKeepsProducersAwake
    <3> QED  BY <2>4, <3>2
  <2> QED  BY <2>5, <2>6, <2>8, <2>9 DEF EndInv
<1>11. ASSUME NEW c \in Consumers, ConsumerUnlock(c) PROVE EndInv'
  <2>1. pc'[c] = (IF pc[c] = "quit" THEN "done" ELSE "lock") /\ \A u \in Threads \ {c} : pc'[u] = pc[u]
    BY <1>0, <1>11, Moved DEF ConsumerUnlock, Labels
  <2>2. SleepInv'
    BY <1>0, <1>11, <2>1 DEF ConsumerUnlock, SleepInv, MutexInv, Holding, PointInv, queueVars
  <2>3. QuitInv'
    BY <1>0, <1>11, <2>1 DEF ConsumerUnlock, QuitInv, AllConsumed, queueVars
  <2>4. MainInv'
    BY <1>0, <1>11, <2>1 DEF ConsumerUnlock, MainInv, queueVars
  <2>5. next_item' = next_item /\ \A q \in Producers : Stored(q)' = Stored(q)
    BY <1>0, <1>11, <2>1 DEF ConsumerUnlock, Stored, TypeOK, queueVars
  <2>6. CountInv'
    BY <1>0, <2>5, SameStored
  <2>7. count' = count /\ count' \in Int
    BY <1>0, <1>11 DEF ConsumerUnlock, queueVars
  <2>8. ConsumersAwake(pc', count') /\ ProducersAwake(pc', count')
    <3>1. /\ \/ count' <= 0
             \/ /\ pc'[c] # "blocked"
                /\ count' - count <= One(pc'[c] \in {"woken", "test", "take"})
                                    - One(pc[c] \in {"woken", "test", "take"})
          /\ count - count' <= One(pc'[c] \in {"signal"}) - One(pc[c] \in {"signal"})
      BY <1>0, <1>11, <2>1, <2>7 DEF ConsumerUnlock, One
    <3> QED  BY <1>0, <2>1, <2>7, <3>1, ConsumerKeepsAwake
  <2> QED  BY <2>2, <2>3, <2>4, <2>6, <2>8 DEF EndInv
<1>12. ASSUME NEW t \in Threads, Create(t) PROVE EndInv'
  <2>1. pc'[t] = "lock" /\ \A u \in Threads \ {t} : pc'[u] = pc[u]
    BY <1>0, <1>12, Moved DEF Create, Labels
  <2>2. SleepInv'
    BY <1>0, <1>12, <2>1 DEF Create, SleepInv, MutexInv, Holding, PointInv, queueVars
  <2>3. QuitInv'
    BY <1>0, <1>12, <2>1 DEF Create, QuitInv, AllConsumed, queueVars
  <2>4. MainInv'
    BY <1>0, <1>12, <2>1 DEF Create, MainInv, queueVars
  <2>5. next_item' = next_item /\ \A q \in Producers : Stored(q)' = Stored(q)
    BY <1>0, <1>12, <2>1 DEF Create, Stored, TypeOK, queueVars
  <2>6. CountInv'
    BY <1>0, <2>5, SameStored
  <2>7. count' = count /\ count' \in Int
    BY <1>0, <1>12 DEF Create, queueVars
  <2>8. ConsumersAwake(pc', count') /\ ProducersAwake(pc', count')
    <3>1. CASE t \in Consumers
      <4>1. /\ \/ count' <= 0
               \/ /\ pc'[t] # "blocked"
                  /\ count' - count <= One(pc'[t] \in {"woken", "test", "take"})
                                      - One(pc[t] \in {"woken", "test", "take"})
            /\ count - count' <= One(pc'[t] \in {"signal"}) - One(pc[t] \in {"signal"})
        BY <1>0, <1>12, <3>1, <2>1, <2>7 DEF Create, One, SleepInv
      <4> QED  BY <1>0, <3>1, <2>1, <2>7, <4>1, ConsumerKeepsAwake
    <3>2. CASE t \in Producers
      <4>1. /\ \/ count' >= BUFFER_SIZE
               \/ /\ pc'[t] # "blocked"
                  /\ count - count' <= One(pc'[t] \in {"woken", "test", "put"})
                                      - One(pc[t] \in {"woken", "test", "put"})
            /\ count' - count <= One(pc'[t] \in {"signal"}) - One(pc[t] \in {"signal"})
        BY <1>0, <1>12, <3>2, <2>1, <2>7 DEF Create, One, SleepInv
      <4> QED  BY <1>0, <3>2, <2>1, <2>7, <4>1, ProducerKeepsAwake
    <3> QED  BY <3>1, <3>2
  <2> QED  BY <2>2, <2>3, <2>4, <2>6, <2>8 DEF EndInv
<1>13. CASE JoinProducers \/ JoinConsumers
  <2>1. UNCHANGED <<mutex, queueVars, pc, made, received>>
    BY <1>13 DEF JoinProducers, JoinConsumers
  <2>2. SleepInv' /\ QuitInv'
    BY <1>0, <2>1 DEF SleepInv, QuitInv, AllConsumed, queueVars
  <2>3. MainInv'
    BY <1>0, <1>13 DEF MainInv, JoinProducers, JoinConsumers
  <2>4. CountInv'
    BY <1>0, <2>1, SameStored DEF Stored, queueVars
  <2>5. ConsumersAwake(pc', count') /\ ProducersAwake(pc', count')
    BY <1>0, <2>1 DEF queueVars
  <2> QED  BY <2>2, <2>3, <2>4, <2>5 DEF EndInv
<1>14. CASE BroadcastNotEmpty
  <2>1. \A u \in Threads : pc'[u] # pc[u] => pc[u] = "blocked" /\ pc'[u] = "woken"
    BY <1>0, <1>14, BroadcastEffect DEF BroadcastNotEmpty, TypeOK
  <2>2. /\ UNCHANGED <<mutex, queueVars, made, received>> /\ count' = count
        /\ main = "broadcast" /\ main' = "join_consumers"
    BY <1>14 DEF BroadcastNotEmpty, queueVars
  <2>3. SleepInv' /\ QuitInv'
    BY <1>0, <2>1, <2>2 DEF SleepInv, QuitInv, AllConsumed, queueVars
  <2>4. MainInv'
    BY <1>0, <2>1, <2>2 DEF MainInv
  <2>5. next_item' = next_item /\ \A q \in Producers : Stored(q)' = Stored(q)
    <3>1. \A q \in Producers : pc'[q] \in {"signal", "unlock"} <=> pc[q] \in {"signal", "unlock"}
      BY <2>1
    <3> QED  BY <2>2, <3>1 DEF Stored, queueVars
  <2>6. CountInv'
    BY <1>0, <2>5, SameStored
  <2>7. pc' = Broadcast(pc, Consumers) /\ pc \in [Threads -> Labels]
    BY <1>0, <1>14 DEF BroadcastNotEmpty, TypeOK
  <2>8. ConsumersAwake(pc', count') /\ ProducersAwake(pc', count')
    BY <1>0, <2>2, <2>7, BroadcastKeepsAwake
  <2> QED  BY <2>3, <2>4, <2>6, <2>8 DEF EndInv
<1>15. CASE UNCHANGED vars
  <2>1. UNCHANGED <<mutex, queueVars, pc, made, received, main>>
    BY <1>15 DEF vars
  <2>2. SleepInv' /\ QuitInv' /\ MainInv'
    BY <1>0, <2>1 DEF SleepInv, QuitInv, MainInv, AllConsumed, queueVars
  <2>3. CountInv'
    BY <1>0, <2>1, SameStored DEF Stored, queueVars
  <2>4. ConsumersAwake(pc', count') /\ ProducersAwake(pc', count')
    BY <1>0, <2>1 DEF queueVars
  <2> QED  BY <2>2, <2>3, <2>4 DEF EndInv
<1> QED
  BY <1>1, <1>2, <1>3, <1>4, <1>5, <1>6, <1>7, <1>8, <1>9, <1>10, <1>11, <1>12, <1>13,
     <1>14, <1>15
  DEF Next, ProducerStep, ConsumerStep, MainStep, Exited

LEMMA EndInvariance == Spec => [](IInv /\ EndInv)
<1>1. Init => IInv /\ EndInv
  BY InvInit, EndInit
<1>2. IInv /\ EndInv /\ [Next]_vars => IInv' /\ EndInv'
  BY InvStep, EndStep
<1> QED  BY <1>1, <1>2, PTL DEF Spec

(* exercise3_solution.c signals once per item and once per slot, and only    *)
(* one thread at a time: no thread sleeps on work that no other thread is on *)
(* its way to do or to announce.                                             *)
THEOREM NoWakeupIsLost == Spec => []NoLostWakeup
<1>1. IInv /\ EndInv => NoLostWakeup
  BY AwakeIsNoLostWakeup DEF EndInv
<1> QED  BY <1>1, EndInvariance, PTL

(* main() reports after the last join: every item was produced and consumed, *)
(* the buffer is empty, and it destroys a mutex nobody uses.                 *)
THEOREM ReportIsTrue == Spec => []AllAccounted
<1>1. IInv /\ EndInv => AllAccounted
  <2> SUFFICES ASSUME IInv, EndInv, main = "exit"
               PROVE  /\ items_consumed = TOTAL_ITEMS /\ count = 0
                      /\ mutex = NoThread
                      /\ \A t \in Threads : pc[t] = "done"
    BY DEF AllAccounted
  <2>1. \A t \in Threads : pc[t] = "done"
    BY ThreadFacts DEF EndInv, MainInv
  <2>2. PICK c \in Consumers : TRUE
    BY PCAssumption
  <2>3. AllConsumed
    BY <2>1, <2>2, ThreadFacts DEF EndInv, QuitInv
  <2>4. items_consumed = TOTAL_ITEMS /\ count = 0
    BY <2>3, NothingLeft DEF IInv, ControlInv, EndInv
  <2>5. mutex = NoThread
    BY <2>1 DEF IInv, ControlInv, TypeOK, MutexInv, Holding
  <2> QED  BY <2>1, <2>4, <2>5
<1> QED  BY <1>1, EndInvariance, PTL

=============================================================================
