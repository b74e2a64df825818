------------------------- MODULE InterprocessProofs -------------------------
(***************************************************************************)
(* Proofs about the two programs of the suite whose processes share no     *)
(* thread: the shared memory channel and the signal games.  Each is proved *)
(* for its own specification, SC!Spec and SG!Spec, for every number of     *)
(* items, hit points and so on, and then for the suite that contains it.   *)
(***************************************************************************)
EXTENDS ProgramSuite, SequenceTheorems, TLAPS

-----------------------------------------------------------------------------
(* The shared memory channel: the inductive invariant *)

Setup == {"shm_open", "ftruncate", "sem_init", "reset"}

(* What each process holds of the semaphore. *)
ProducerHolds == IF prod \in {"sequence", "value", "sem_post"} THEN 1 ELSE 0
ConsumerHolds == IF cons \in {"read", "sem_post"} THEN 1 ELSE 0

(* The semaphore excludes unless the consumer came before it was initialised, *)
(* when one unit too many may be about.                                      *)
SemInv ==
  /\ sem \in 0 .. 2
  /\ prod \in Setup \ {"reset"} => sem + ConsumerHolds <= 1
  /\ prod \notin Setup \ {"reset"} => sem + ProducerHolds + ConsumerHolds <= 2
  /\ ~early /\ prod \notin Setup \ {"reset"} =>
       sem + ProducerHolds + ConsumerHolds = 1

(* A consumer that is not early opens the object after it has been set up.   *)
OpenInv ==
  /\ cons = "shm_open" => ~early
  /\ ~early /\ prod \in Setup =>
       cons \in {"shm_open", "failed"} /\ received = <<>>

(* The loop counters, and the items received against the rounds.             *)
LoopInv ==
  /\ made \in 0 .. NumItems /\ rounds \in 0 .. NumItems
  /\ made = NumItems <=> prod = "ended"
  /\ prod \in Setup => made = 0
  /\ rounds = NumItems => cons \in {"shm_unlink", "ended"}
  /\ received \in Seq((0 .. NumItems) \X (0 .. NumItems))
  /\ Len(received) <= rounds + (IF cons = "sem_post" THEN 1 ELSE 0)

(* The fields follow the producer's counter, the value after the number.     *)
CellInv ==
  /\ cell \in [sequence : 0 .. NumItems, value : 0 .. NumItems,
               is_ready : BOOLEAN]
  /\ cell.sequence = IF prod \in {"value", "sem_post"} THEN made + 1 ELSE made
  /\ cell.value = IF prod = "sem_post" THEN made + 1 ELSE made

(* What is marked as ready is newer than everything received.                *)
FreshInv ==
  ~early =>
    /\ \A k \in DOMAIN received : received[k][1] <= made
    /\ cons = "read" => SC!HasData
    /\ channel = "exercise4" /\ prod \notin Setup /\ cell.is_ready =>
         /\ cell.value > 0
         /\ \A k \in DOMAIN received : received[k][1] < cell.value

ChannelInv ==
  /\ SC!TypeOK /\ SemInv /\ OpenInv /\ LoopInv /\ CellInv /\ FreshInv
  /\ SC!ItemsIntact

-----------------------------------------------------------------------------
(* The shared memory channel: each step keeps the invariant *)

LEMMA ItemsFacts == NumItems \in Nat /\ NumItems > 0 /\ NumItems # 0
BY ChannelsAssumed DEF SC!ChannelAssumption

LEMMA ChannelInit == SC!Init => ChannelInv
<1> SUFFICES ASSUME SC!Init PROVE ChannelInv
  OBVIOUS
<1> USE ItemsFacts
<1> USE DEF SC!Init
<1>1. cell \in [sequence : {0}, value : {0}, is_ready : BOOLEAN]
  BY DEF SC!Leftover, SC!Blank
<1>2. SC!TypeOK
  <2>1. sem \in 0 .. 2 /\ sized \in BOOLEAN
    OBVIOUS
  <2>2. received \in Seq((0 .. NumItems) \X (0 .. NumItems)) /\ Len(received) = 0
    OBVIOUS
  <2>3. /\ cell.sequence \in 0 .. NumItems /\ cell.value \in 0 .. NumItems
        /\ cell.is_ready \in BOOLEAN
    BY <1>1
  <2>4. Len(received) <= NumItems
    BY <2>2
  <2>5. /\ prod = "shm_open" /\ cons = "shm_open" /\ made = 0 /\ rounds = 0
        /\ channel \in Channels /\ named \in BOOLEAN
        /\ stranded = FALSE /\ early = FALSE
    OBVIOUS
  <2> HIDE DEF SC!Init
  <2>6. made \in 0 .. NumItems /\ rounds \in 0 .. NumItems
    BY <2>5
  <2>7. prod \in {"shm_open", "ftruncate", "sem_init", "reset", "sem_wait",
                  "sequence", "value", "sem_post", "ended"}
    BY <2>5
  <2>8. cons \in {"shm_open", "sem_wait", "read", "sem_post", "shm_unlink",
                  "ended", "failed"}
    BY <2>5
  <2> QED
    BY <2>1, <2>2, <2>3, <2>4, <2>5, <2>6, <2>7, <2>8, Zenon DEF SC!TypeOK
<1>3. SemInv /\ OpenInv
  BY DEF SemInv, OpenInv, ProducerHolds, ConsumerHolds, Setup
<1>4. LoopInv /\ CellInv
  BY <1>1 DEF LoopInv, CellInv
<1>5. FreshInv /\ SC!ItemsIntact
  BY DEF FreshInv, SC!ItemsIntact, Setup
<1> QED  BY <1>2, <1>3, <1>4, <1>5 DEF ChannelInv

LEMMA ChannelStep == ChannelInv /\ [SC!Next]_(SC!vars) => ChannelInv'
<1> SUFFICES ASSUME ChannelInv, [SC!Next]_(SC!vars) PROVE ChannelInv'
  OBVIOUS
<1> USE ItemsFacts DEF SC!object, SC!data, SC!producerVars, SC!consumerVars
<1>1. CASE SC!ProducerOpen
  <2>1. SemInv'
    BY <1>1 DEF SC!ProducerOpen, ChannelInv, SemInv, OpenInv, ProducerHolds, ConsumerHolds, Setup, SC!HasData, SC!Initialised
  <2>2. OpenInv'
    BY <1>1 DEF SC!ProducerOpen, ChannelInv, OpenInv, Setup, SC!Initialised, SC!HasData
  <2>3. LoopInv'
    BY <1>1 DEF SC!ProducerOpen, ChannelInv, LoopInv, Setup, SC!HasData
  <2>4. CellInv'
    BY <1>1 DEF SC!ProducerOpen, ChannelInv, CellInv, LoopInv, Setup, SC!Blank
  <2>5. FreshInv'
    BY <1>1 DEF SC!ProducerOpen, ChannelInv, FreshInv, SemInv, OpenInv, LoopInv, CellInv, Setup, SC!HasData, ProducerHolds, ConsumerHolds, SC!Initialised, SC!Blank
  <2>6. SC!TypeOK'
    BY <1>1, <2>1, <2>3, <2>4 DEF SC!ProducerOpen, ChannelInv, SC!TypeOK, SemInv, LoopInv, CellInv
  <2>7. SC!ItemsIntact'
    BY <1>1 DEF SC!ProducerOpen, ChannelInv, SC!ItemsIntact, FreshInv, SemInv, OpenInv, LoopInv, CellInv, Setup, SC!HasData, ProducerHolds, ConsumerHolds
  <2> QED  BY <2>1, <2>2, <2>3, <2>4, <2>5, <2>6, <2>7 DEF ChannelInv
<1>2. CASE SC!Truncate
  <2>1. SemInv'
    BY <1>2 DEF SC!Truncate, ChannelInv, SemInv, OpenInv, ProducerHolds, ConsumerHolds, Setup, SC!HasData, SC!Initialised
  <2>2. OpenInv'
    BY <1>2 DEF SC!Truncate, ChannelInv, OpenInv, Setup, SC!Initialised, SC!HasData
  <2>3. LoopInv'
    BY <1>2 DEF SC!Truncate, ChannelInv, LoopInv, Setup, SC!HasData
  <2>4. CellInv'
    BY <1>2 DEF SC!Truncate, ChannelInv, CellInv, LoopInv, Setup, SC!Blank
  <2>5. FreshInv'
    BY <1>2 DEF SC!Truncate, ChannelInv, FreshInv, SemInv, OpenInv, LoopInv, CellInv, Setup, SC!HasData, ProducerHolds, ConsumerHolds, SC!Initialised, SC!Blank
  <2>6. SC!TypeOK'
    BY <1>2, <2>1, <2>3, <2>4 DEF SC!Truncate, ChannelInv, SC!TypeOK, SemInv, LoopInv, CellInv
  <2>7. SC!ItemsIntact'
    BY <1>2 DEF SC!Truncate, ChannelInv, SC!ItemsIntact, FreshInv, SemInv, OpenInv, LoopInv, CellInv, Setup, SC!HasData, ProducerHolds, ConsumerHolds
  <2> QED  BY <2>1, <2>2, <2>3, <2>4, <2>5, <2>6, <2>7 DEF ChannelInv
<1>3. CASE SC!SemInit
  <2>1. SemInv'
    BY <1>3 DEF SC!SemInit, ChannelInv, SemInv, OpenInv, ProducerHolds, ConsumerHolds, Setup, SC!HasData, SC!Initialised
  <2>2. OpenInv'
    BY <1>3 DEF SC!SemInit, ChannelInv, OpenInv, Setup, SC!Initialised, SC!HasData
  <2>3. LoopInv'
    BY <1>3 DEF SC!SemInit, ChannelInv, LoopInv, Setup, SC!HasData
  <2>4. CellInv'
    BY <1>3 DEF SC!SemInit, ChannelInv, CellInv, LoopInv, Setup, SC!Blank
  <2>5. FreshInv'
    BY <1>3 DEF SC!SemInit, ChannelInv, FreshInv, SemInv, OpenInv, LoopInv, CellInv, Setup, SC!HasData, ProducerHolds, ConsumerHolds, SC!Initialised, SC!Blank
  <2>6. SC!TypeOK'
    BY <1>3, <2>1, <2>3, <2>4 DEF SC!SemInit, ChannelInv, SC!TypeOK, SemInv, LoopInv, CellInv
  <2>7. SC!ItemsIntact'
    BY <1>3 DEF SC!SemInit, ChannelInv, SC!ItemsIntact, FreshInv, SemInv, OpenInv, LoopInv, CellInv, Setup, SC!HasData, ProducerHolds, ConsumerHolds
  <2> QED  BY <2>1, <2>2, <2>3, <2>4, <2>5, <2>6, <2>7 DEF ChannelInv
<1>4. CASE SC!Reset
  <2>1. SemInv'
    BY <1>4 DEF SC!Reset, ChannelInv, SemInv, OpenInv, ProducerHolds, ConsumerHolds, Setup, SC!HasData, SC!Initialised
  <2>2. OpenInv'
    BY <1>4 DEF SC!Reset, ChannelInv, OpenInv, Setup, SC!Initialised, SC!HasData
  <2>3. LoopInv'
    BY <1>4 DEF SC!Reset, ChannelInv, LoopInv, Setup, SC!HasData
  <2>4. CellInv'
    BY <1>4 DEF SC!Reset, ChannelInv, CellInv, LoopInv, Setup, SC!Blank
  <2>5. FreshInv'
    BY <1>4 DEF SC!Reset, ChannelInv, FreshInv, SemInv, OpenInv, LoopInv, CellInv, Setup, SC!HasData, ProducerHolds, ConsumerHolds, SC!Initialised, SC!Blank
  <2>6. SC!TypeOK'
    BY <1>4, <2>1, <2>3, <2>4 DEF SC!Reset, ChannelInv, SC!TypeOK, SemInv, LoopInv, CellInv
  <2>7. SC!ItemsIntact'
    BY <1>4 DEF SC!Reset, ChannelInv, SC!ItemsIntact, FreshInv, SemInv, OpenInv, LoopInv, CellInv, Setup, SC!HasData, ProducerHolds, ConsumerHolds
  <2> QED  BY <2>1, <2>2, <2>3, <2>4, <2>5, <2>6, <2>7 DEF ChannelInv
<1>5. CASE SC!ProducerWait
  <2>1. SemInv'
    BY <1>5 DEF SC!ProducerWait, ChannelInv, SemInv, OpenInv, ProducerHolds, ConsumerHolds, Setup, SC!HasData, SC!Initialised
  <2>2. OpenInv'
    BY <1>5 DEF SC!ProducerWait, ChannelInv, OpenInv, Setup, SC!Initialised, SC!HasData
  <2>3. LoopInv'
    BY <1>5 DEF SC!ProducerWait, ChannelInv, LoopInv, Setup, SC!HasData
  <2>4. CellInv'
    BY <1>5 DEF SC!ProducerWait, ChannelInv, CellInv, LoopInv, Setup, SC!Blank
  <2>5. FreshInv'
    BY <1>5 DEF SC!ProducerWait, ChannelInv, FreshInv, SemInv, OpenInv, LoopInv, CellInv, Setup, SC!HasData, ProducerHolds, ConsumerHolds, SC!Initialised, SC!Blank
  <2>6. SC!TypeOK'
    BY <1>5, <2>1, <2>3, <2>4 DEF SC!ProducerWait, ChannelInv, SC!TypeOK, SemInv, LoopInv, CellInv
  <2>7. SC!ItemsIntact'
    BY <1>5 DEF SC!ProducerWait, ChannelInv, SC!ItemsIntact, FreshInv, SemInv, OpenInv, LoopInv, CellInv, Setup, SC!HasData, ProducerHolds, ConsumerHolds
  <2> QED  BY <2>1, <2>2, <2>3, <2>4, <2>5, <2>6, <2>7 DEF ChannelInv
<1>6. CASE SC!PutSequence
  <2>1. SemInv'
    BY <1>6 DEF SC!PutSequence, ChannelInv, SemInv, OpenInv, ProducerHolds, ConsumerHolds, Setup, SC!HasData, SC!Initialised
  <2>2. OpenInv'
    BY <1>6 DEF SC!PutSequence, ChannelInv, OpenInv, Setup, SC!Initialised, SC!HasData
  <2>3. LoopInv'
    BY <1>6 DEF SC!PutSequence, ChannelInv, LoopInv, Setup, SC!HasData
  <2>4. CellInv'
    BY <1>6 DEF SC!PutSequence, ChannelInv, CellInv, LoopInv, Setup, SC!Blank
  <2>5. FreshInv'
    BY <1>6 DEF SC!PutSequence, ChannelInv, FreshInv, SemInv, OpenInv, LoopInv, CellInv, Setup, SC!HasData, ProducerHolds, ConsumerHolds, SC!Initialised, SC!Blank
  <2>6. SC!TypeOK'
    BY <1>6, <2>1, <2>3, <2>4 DEF SC!PutSequence, ChannelInv, SC!TypeOK, SemInv, LoopInv, CellInv
  <2>7. SC!ItemsIntact'
    BY <1>6 DEF SC!PutSequence, ChannelInv, SC!ItemsIntact, FreshInv, SemInv, OpenInv, LoopInv, CellInv, Setup, SC!HasData, ProducerHolds, ConsumerHolds
  <2> QED  BY <2>1, <2>2, <2>3, <2>4, <2>5, <2>6, <2>7 DEF ChannelInv
<1>7. CASE SC!PutValue
  <2>1. SemInv'
    BY <1>7 DEF SC!PutValue, ChannelInv, SemInv, OpenInv, ProducerHolds, ConsumerHolds, Setup, SC!HasData, SC!Initialised
  <2>2. OpenInv'
    BY <1>7 DEF SC!PutValue, ChannelInv, OpenInv, Setup, SC!Initialised, SC!HasData
  <2>3. LoopInv'
    BY <1>7 DEF SC!PutValue, ChannelInv, LoopInv, Setup, SC!HasData
  <2>4. CellInv'
    BY <1>7 DEF SC!PutValue, ChannelInv, CellInv, LoopInv, Setup, SC!Blank
  <2>5. FreshInv'
    BY <1>7 DEF SC!PutValue, ChannelInv, FreshInv, SemInv, OpenInv, LoopInv, CellInv, Setup, SC!HasData, ProducerHolds, ConsumerHolds, SC!Initialised, SC!Blank
  <2>6. SC!TypeOK'
    BY <1>7, <2>1, <2>3, <2>4 DEF SC!PutValue, ChannelInv, SC!TypeOK, SemInv, LoopInv, CellInv
  <2>7. SC!ItemsIntact'
    BY <1>7 DEF SC!PutValue, ChannelInv, SC!ItemsIntact, FreshInv, SemInv, OpenInv, LoopInv, CellInv, Setup, SC!HasData, ProducerHolds, ConsumerHolds
  <2> QED  BY <2>1, <2>2, <2>3, <2>4, <2>5, <2>6, <2>7 DEF ChannelInv
<1>8. CASE SC!ProducerPost
  <2>1. SemInv'
    BY <1>8 DEF SC!ProducerPost, ChannelInv, SemInv, OpenInv, ProducerHolds, ConsumerHolds, Setup, SC!HasData, SC!Initialised
  <2>2. OpenInv'
    BY <1>8 DEF SC!ProducerPost, ChannelInv, OpenInv, Setup, SC!Initialised, SC!HasData
  <2>3. LoopInv'
    BY <1>8 DEF SC!ProducerPost, ChannelInv, LoopInv, Setup, SC!HasData
  <2>4. CellInv'
    BY <1>8 DEF SC!ProducerPost, ChannelInv, CellInv, LoopInv, Setup, SC!Blank
  <2>5. FreshInv'
    BY <1>8 DEF SC!ProducerPost, ChannelInv, FreshInv, SemInv, OpenInv, LoopInv, CellInv, Setup, SC!HasData, ProducerHolds, ConsumerHolds, SC!Initialised, SC!Blank
  <2>6. SC!TypeOK'
    BY <1>8, <2>1, <2>3, <2>4 DEF SC!ProducerPost, ChannelInv, SC!TypeOK, SemInv, LoopInv, CellInv
  <2>7. SC!ItemsIntact'
    BY <1>8 DEF SC!ProducerPost, ChannelInv, SC!ItemsIntact, FreshInv, SemInv, OpenInv, LoopInv, CellInv, Setup, SC!HasData, ProducerHolds, ConsumerHolds
  <2> QED  BY <2>1, <2>2, <2>3, <2>4, <2>5, <2>6, <2>7 DEF ChannelInv
<1>9. CASE SC!ConsumerOpen
  <2>1. SemInv'
    BY <1>9 DEF SC!ConsumerOpen, ChannelInv, SemInv, OpenInv, ProducerHolds, ConsumerHolds, Setup, SC!HasData, SC!Initialised
  <2>2. OpenInv'
    BY <1>9 DEF SC!ConsumerOpen, ChannelInv, OpenInv, Setup, SC!Initialised, SC!HasData
  <2>3. LoopInv'
    BY <1>9 DEF SC!ConsumerOpen, ChannelInv, LoopInv, Setup, SC!HasData
  <2>4. CellInv'
    BY <1>9 DEF SC!ConsumerOpen, ChannelInv, CellInv, LoopInv, Setup, SC!Blank
  <2>5. FreshInv'
    BY <1>9 DEF SC!ConsumerOpen, ChannelInv, FreshInv, SemInv, OpenInv, LoopInv, CellInv, Setup, SC!HasData, ProducerHolds, ConsumerHolds, SC!Initialised, SC!Blank
  <2>6. SC!TypeOK'
    BY <1>9, <2>1, <2>3, <2>4 DEF SC!ConsumerOpen, ChannelInv, SC!TypeOK, SemInv, LoopInv, CellInv
  <2>7. SC!ItemsIntact'
    BY <1>9 DEF SC!ConsumerOpen, ChannelInv, SC!ItemsIntact, FreshInv, SemInv, OpenInv, LoopInv, CellInv, Setup, SC!HasData, ProducerHolds, ConsumerHolds
  <2> QED  BY <2>1, <2>2, <2>3, <2>4, <2>5, <2>6, <2>7 DEF ChannelInv
<1>10. CASE SC!Unbacked
  <2>1. SemInv'
    BY <1>10 DEF SC!Unbacked, ChannelInv, SemInv, OpenInv, ProducerHolds, ConsumerHolds, Setup, SC!HasData, SC!Initialised
  <2>2. OpenInv'
    BY <1>10 DEF SC!Unbacked, ChannelInv, OpenInv, Setup, SC!Initialised, SC!HasData
  <2>3. LoopInv'
    BY <1>10 DEF SC!Unbacked, ChannelInv, LoopInv, Setup, SC!HasData
  <2>4. CellInv'
    BY <1>10 DEF SC!Unbacked, ChannelInv, CellInv, LoopInv, Setup, SC!Blank
  <2>5. FreshInv'
    BY <1>10 DEF SC!Unbacked, ChannelInv, FreshInv, SemInv, OpenInv, LoopInv, CellInv, Setup, SC!HasData, ProducerHolds, ConsumerHolds, SC!Initialised, SC!Blank
  <2>6. SC!TypeOK'
    BY <1>10, <2>1, <2>3, <2>4 DEF SC!Unbacked, ChannelInv, SC!TypeOK, SemInv, LoopInv, CellInv
  <2>7. SC!ItemsIntact'
    BY <1>10 DEF SC!Unbacked, ChannelInv, SC!ItemsIntact, FreshInv, SemInv, OpenInv, LoopInv, CellInv, Setup, SC!HasData, ProducerHolds, ConsumerHolds
  <2> QED  BY <2>1, <2>2, <2>3, <2>4, <2>5, <2>6, <2>7 DEF ChannelInv
<1>11. CASE SC!ConsumerWait
  <2>1. SemInv'
    BY <1>11 DEF SC!ConsumerWait, ChannelInv, SemInv, OpenInv, ProducerHolds, ConsumerHolds, Setup, SC!HasData, SC!Initialised
  <2>2. OpenInv'
    BY <1>11 DEF SC!ConsumerWait, ChannelInv, OpenInv, Setup, SC!Initialised, SC!HasData
  <2>3. LoopInv'
    BY <1>11 DEF SC!ConsumerWait, ChannelInv, LoopInv, Setup, SC!HasData
  <2>4. CellInv'
    BY <1>11 DEF SC!ConsumerWait, ChannelInv, CellInv, LoopInv, Setup, SC!Blank
  <2>5. FreshInv'
    BY <1>11 DEF SC!ConsumerWait, ChannelInv, FreshInv, SemInv, OpenInv, LoopInv, CellInv, Setup, SC!HasData, ProducerHolds, ConsumerHolds, SC!Initialised, SC!Blank
  <2>6. SC!TypeOK'
    BY <1>11, <2>1, <2>3, <2>4 DEF SC!ConsumerWait, ChannelInv, SC!TypeOK, SemInv, LoopInv, CellInv
  <2>7. SC!ItemsIntact'
    BY <1>11 DEF SC!ConsumerWait, ChannelInv, SC!ItemsIntact, FreshInv, SemInv, OpenInv, LoopInv, CellInv, Setup, SC!HasData, ProducerHolds, ConsumerHolds
  <2> QED  BY <2>1, <2>2, <2>3, <2>4, <2>5, <2>6, <2>7 DEF ChannelInv
<1>12. CASE SC!Read
  <2> DEFINE item == <<cell.sequence, cell.value>>
  <2>1. /\ received' = Append(received, item)
        /\ received \in Seq((0 .. NumItems) \X (0 .. NumItems))
        /\ item \in (0 .. NumItems) \X (0 .. NumItems)
        /\ item[1] = cell.sequence /\ item[2] = cell.value
    BY <1>12 DEF SC!Read, ChannelInv, LoopInv, CellInv
  <2> HIDE DEF item
  <2>2. /\ received' \in Seq((0 .. NumItems) \X (0 .. NumItems))
        /\ Len(received') = Len(received) + 1 /\ Len(received) \in Nat
        /\ DOMAIN received = 1 .. Len(received)
        /\ DOMAIN received' = 1 .. Len(received) + 1
        /\ \A k \in 1 .. Len(received) : received'[k] = received[k]
        /\ received'[Len(received) + 1] = item
    BY <2>1
  <2>3. SemInv' /\ OpenInv'
    BY <1>12 DEF SC!Read, ChannelInv, SemInv, OpenInv, ProducerHolds, ConsumerHolds, Setup
  <2>4. CellInv'
    BY <1>12 DEF SC!Read, ChannelInv, CellInv, LoopInv
  <2>5. LoopInv'
    BY <1>12, <2>2 DEF SC!Read, ChannelInv, LoopInv, Setup
  <2>6. ~early => prod \in {"sem_wait", "ended"}
    BY <1>12 DEF SC!Read, SC!TypeOK, ChannelInv, SemInv, OpenInv, ProducerHolds, ConsumerHolds, Setup
  <2>7. ~early => item[1] = made /\ item[2] = made
    BY <2>1, <2>6 DEF ChannelInv, CellInv
  <2>8. FreshInv'
    BY <1>12, <2>2, <2>6, <2>7 DEF SC!Read, ChannelInv, FreshInv, LoopInv, CellInv, Setup, SC!HasData
  <2>9. SC!TypeOK'
    <3>1. /\ cell'.sequence \in 0 .. NumItems /\ cell'.value \in 0 .. NumItems
          /\ cell'.is_ready \in BOOLEAN
      BY <2>4 DEF CellInv
    <3>2. Len(received) + 1 <= NumItems
      BY <1>12, <2>2 DEF SC!Read, ChannelInv, LoopInv
    <3> QED
      BY <1>12, <2>2, <2>3, <2>5, <3>1, <3>2
      DEF SC!Read, ChannelInv, SC!TypeOK, SemInv, LoopInv
  <2>10. SC!ItemsIntact'
    <3> SUFFICES ASSUME ~early PROVE SC!ItemsIntact'
      BY <1>12 DEF SC!Read, SC!ItemsIntact
    <3>1. \A k \in DOMAIN received : received[k][1] <= made /\ received[k][1] \in Nat
      BY <2>1, <2>2 DEF ChannelInv, FreshInv
    <3>2. channel = "exercise4" =>
            made > 0 /\ \A k \in DOMAIN received : received[k][1] < made
      BY <1>12, <2>6 DEF SC!Read, ChannelInv, FreshInv, CellInv, Setup, SC!HasData
    <3>3. made \in Nat /\ ~early' /\ channel' = channel
      BY <1>12 DEF SC!Read, ChannelInv, LoopInv
    <3>0. /\ \A k \in 1 .. Len(received) : received[k][1] = received[k][2]
          /\ \A k \in 2 .. Len(received) : received[k - 1][1] <= received[k][1]
          /\ channel = "exercise4" =>
               /\ \A k \in 1 .. Len(received) : received[k][1] > 0
               /\ \A k \in 2 .. Len(received) :
                    received[k - 1][1] # received[k][1]
      BY <2>2 DEF ChannelInv, SC!ItemsIntact
    <3>4. \A k \in DOMAIN received' : received'[k][1] = received'[k][2]
      BY <2>2, <2>7, <3>0
    <3>5. \A k \in 2 .. Len(received') : received'[k - 1][1] <= received'[k][1]
      <4> SUFFICES ASSUME NEW k \in 2 .. Len(received')
                   PROVE  received'[k - 1][1] <= received'[k][1]
        OBVIOUS
      <4>1. CASE k \in 1 .. Len(received)
        <5>1. k \in 2 .. Len(received) /\ k - 1 \in 1 .. Len(received)
          BY <2>2, <4>1
        <5>2. received'[k - 1] = received[k - 1] /\ received'[k] = received[k]
          <6> DEFINE before == k - 1
          <6>1. before \in 1 .. Len(received)
            BY <5>1
          <6> HIDE DEF before
          <6>2. received'[before] = received[before]
            BY <2>2, <6>1
          <6> QED  BY <2>2, <5>1, <6>2 DEF before
        <5> QED  BY <3>0, <5>1, <5>2
      <4>2. CASE k = Len(received) + 1
        <5>1. k - 1 \in 1 .. Len(received)
          BY <2>2, <4>2
        <5> QED  BY <2>2, <2>7, <3>1, <4>2, <5>1
      <4> QED  BY <2>2, <4>1, <4>2
    <3>6. channel = "exercise4" =>
            \A k \in DOMAIN received' : received'[k][1] > 0
      BY <2>2, <2>7, <3>0, <3>2, <3>3
    <3>7. channel = "exercise4" =>
            \A k \in 2 .. Len(received') : received'[k - 1][1] # received'[k][1]
      <4> SUFFICES ASSUME channel = "exercise4", NEW k \in 2 .. Len(received')
                   PROVE  received'[k - 1][1] # received'[k][1]
        OBVIOUS
      <4>1. CASE k \in 1 .. Len(received)
        <5>1. k \in 2 .. Len(received) /\ k - 1 \in 1 .. Len(received)
          BY <2>2, <4>1
        <5>2. received'[k - 1] = received[k - 1] /\ received'[k] = received[k]
          <6> DEFINE before == k - 1
          <6>1. before \in 1 .. Len(received)
            BY <5>1
          <6> HIDE DEF before
          <6>2. received'[before] = received[before]
            BY <2>2, <6>1
          <6> QED  BY <2>2, <5>1, <6>2 DEF before
        <5> QED  BY <3>0, <5>1, <5>2
      <4>2. CASE k = Len(received) + 1
        <5>1. k - 1 \in 1 .. Len(received)
          BY <2>2, <4>2
        <5>2. received[k - 1][1] < made
          BY <2>2, <3>2, <5>1
        <5> QED  BY <2>2, <2>7, <3>1, <3>3, <4>2, <5>1, <5>2
      <4> QED  BY <2>2, <4>1, <4>2
    <3> QED  BY <3>3, <3>4, <3>5, <3>6, <3>7 DEF SC!ItemsIntact
  <2> QED  BY <2>3, <2>4, <2>5, <2>8, <2>9, <2>10 DEF ChannelInv
<1>13. CASE SC!ConsumerPost
  <2>1. SemInv'
    BY <1>13 DEF SC!ConsumerPost, ChannelInv, SemInv, OpenInv, ProducerHolds, ConsumerHolds, Setup, SC!HasData, SC!Initialised
  <2>2. OpenInv'
    BY <1>13 DEF SC!ConsumerPost, ChannelInv, OpenInv, Setup, SC!Initialised, SC!HasData
  <2>3. LoopInv'
    BY <1>13 DEF SC!ConsumerPost, ChannelInv, LoopInv, Setup, SC!HasData
  <2>4. CellInv'
    BY <1>13 DEF SC!ConsumerPost, ChannelInv, CellInv, LoopInv, Setup, SC!Blank
  <2>5. FreshInv'
    BY <1>13 DEF SC!ConsumerPost, ChannelInv, FreshInv, SemInv, OpenInv, LoopInv, CellInv, Setup, SC!HasData, ProducerHolds, ConsumerHolds, SC!Initialised, SC!Blank
  <2>6. SC!TypeOK'
    BY <1>13, <2>1, <2>3, <2>4 DEF SC!ConsumerPost, ChannelInv, SC!TypeOK, SemInv, LoopInv, CellInv
  <2>7. SC!ItemsIntact'
    BY <1>13 DEF SC!ConsumerPost, ChannelInv, SC!ItemsIntact, FreshInv, SemInv, OpenInv, LoopInv, CellInv, Setup, SC!HasData, ProducerHolds, ConsumerHolds
  <2> QED  BY <2>1, <2>2, <2>3, <2>4, <2>5, <2>6, <2>7 DEF ChannelInv
<1>14. CASE SC!Unlink
  <2>1. SemInv'
    BY <1>14 DEF SC!Unlink, ChannelInv, SemInv, OpenInv, ProducerHolds, ConsumerHolds, Setup, SC!HasData, SC!Initialised
  <2>2. OpenInv'
    BY <1>14 DEF SC!Unlink, ChannelInv, OpenInv, Setup, SC!Initialised, SC!HasData
  <2>3. LoopInv'
    BY <1>14 DEF SC!Unlink, ChannelInv, LoopInv, Setup, SC!HasData
  <2>4. CellInv'
    BY <1>14 DEF SC!Unlink, ChannelInv, CellInv, LoopInv, Setup, SC!Blank
  <2>5. FreshInv'
    BY <1>14 DEF SC!Unlink, ChannelInv, FreshInv, SemInv, OpenInv, LoopInv, CellInv, Setup, SC!HasData, ProducerHolds, ConsumerHolds, SC!Initialised, SC!Blank
  <2>6. SC!TypeOK'
    BY <1>14, <2>1, <2>3, <2>4 DEF SC!Unlink, ChannelInv, SC!TypeOK, SemInv, LoopInv, CellInv
  <2>7. SC!ItemsIntact'
    BY <1>14 DEF SC!Unlink, ChannelInv, SC!ItemsIntact, FreshInv, SemInv, OpenInv, LoopInv, CellInv, Setup, SC!HasData, ProducerHolds, ConsumerHolds
  <2> QED  BY <2>1, <2>2, <2>3, <2>4, <2>5, <2>6, <2>7 DEF ChannelInv
<1>15. CASE UNCHANGED SC!vars
  BY <1>15 DEF SC!vars, ChannelInv, SC!TypeOK, SemInv, OpenInv, LoopInv, CellInv, FreshInv, SC!ItemsIntact, SC!HasData, ProducerHolds, ConsumerHolds
<1> QED
  BY <1>1, <1>2, <1>3, <1>4, <1>5, <1>6, <1>7, <1>8, <1>9, <1>10, <1>11, <1>12, <1>13, <1>14, <1>15
  DEF SC!Next, SC!Producer, SC!Consumer

-----------------------------------------------------------------------------
(* The shared memory channel: theorems *)

LEMMA ChannelInvariance == SC!Spec => []ChannelInv
BY ChannelInit, ChannelStep, PTL DEF SC!Spec

(* In every behaviour of the suite the channel behaves as its module says.   *)
LEMMA SuiteRunsChannel == Spec => SC!Spec
<1>1. Init => SC!Init
  BY DEF Init
<1>2. [Next]_vars => [SC!Next]_(SC!vars)
  BY DEF Next, vars, channelVars, SC!vars, SC!object, SC!data, SC!producerVars, SC!consumerVars
<1> QED  BY <1>1, <1>2, PTL DEF Spec, SC!Spec

(* exercise4_*_solution.c and sharedMem*.c: the consumer never gets half an  *)
(* item, an older one than before or, with is_ready, one twice, whatever the *)
(* number of items and however often the producer overwrites one.            *)
THEOREM ItemsStayIntact == Spec => []ItemsIntact
<1>1. ChannelInv => ItemsIntact
  BY DEF ChannelInv, ItemsIntact
<1> QED  BY <1>1, SuiteRunsChannel, ChannelInvariance, PTL

-----------------------------------------------------------------------------
(* The signal games: the inductive invariant *)

(* The child of sigusr3 counts its signals; nobody else is at "kill" there.  *)
CountInv ==
  game = "sigusr3" =>
    \A p \in SG!Procs : at[p] = "kill" => p = "child" /\ i < Limit

(* Only tag sends SIGTERM.                                                   *)
TermInv ==
  game = "fight" => \A p \in SG!Procs : "term" \notin pend[p] /\ at[p] # "term"

(* The fighters that have said that the fight is over.                       *)
SaidEnd(p) == at[p] \in {"wait", "exited"}
LeftLoop(p) == at[p] = "farewell" \/ SaidEnd(p)

(* A fighter stops for one of two reasons, which the end of the other's loop *)
(* and the last signal keep apart: it is beaten, or the other has said so.   *)
FightInv ==
  game = "fight" =>
    \A p \in SG!Procs :
      /\ LeftLoop(p) => ~fighting[p]
      /\ "end" \in pend[p] => SaidEnd(SG!Other(p))
      /\ ~fighting[p] => ~won[p] \/ SaidEnd(SG!Other(p))

SignalInv ==
  SG!TypeOK /\ CountInv /\ TermInv /\ FightInv /\ SG!WinnerHasBeaten

-----------------------------------------------------------------------------
(* The signal games: each step keeps the invariant *)

LEMMA SignalFacts ==
  /\ Limit \in Nat /\ Limit > 0
  /\ HitPoints \in Nat /\ HitPoints > 0
  /\ MaxDamage \in Nat /\ MaxDamage > 0
BY SignalsAssumed DEF SG!SignalAssumption

(* There are two processes, each the other of the other one.                 *)
LEMMA Opponents ==
  ASSUME NEW p \in SG!Procs
  PROVE  /\ SG!Other(p) \in SG!Procs /\ SG!Other(p) # p
         /\ SG!Other(SG!Other(p)) = p
         /\ \A q \in SG!Procs : q = p \/ q = SG!Other(p)
BY DEF SG!Procs, SG!Other

LEMMA SignalInit == SG!Init => SignalInv
<1> SUFFICES ASSUME SG!Init PROVE SignalInv
  OBVIOUS
<1>1. SG!TypeOK
  BY SignalFacts DEF SG!Init, SG!TypeOK, SG!Procs
<1>2. CountInv /\ TermInv /\ FightInv /\ SG!WinnerHasBeaten
  BY SignalFacts
  DEF SG!Init, CountInv, TermInv, FightInv, LeftLoop, SaidEnd, SG!WinnerHasBeaten,
      SG!Procs
<1> QED  BY <1>1, <1>2 DEF SignalInv

LEMMA SignalStep == SignalInv /\ [SG!Next]_(SG!vars) => SignalInv'
<1> SUFFICES ASSUME SignalInv, [SG!Next]_(SG!vars) PROVE SignalInv'
  OBVIOUS
<1> USE SignalFacts DEF SignalInv
<1>1. ASSUME NEW p \in SG!Procs, SG!Counted(p) PROVE SignalInv'
  <2>1. SG!TypeOK'
    BY <1>1, Opponents DEF SG!Counted, SG!Runs, SG!Count, SG!TypeOK, CountInv
  <2>2. CountInv'
    BY <1>1 DEF SG!Counted, SG!Runs, SG!Count, SG!TypeOK, CountInv
  <2>3. TermInv'
    BY <1>1, Opponents DEF SG!Counted, SG!Runs, SG!Count, SG!TypeOK, TermInv
  <2>4. FightInv'
    BY <1>1, Opponents
    DEF SG!Counted, SG!Runs, SG!Count, SG!TypeOK, TermInv, FightInv, LeftLoop, SaidEnd
  <2>5. SG!WinnerHasBeaten'
    BY <1>1, Opponents
    DEF SG!Counted, SG!Runs, SG!Count, SG!TypeOK, TermInv, FightInv, LeftLoop, SaidEnd, SG!WinnerHasBeaten
  <2> QED  BY <2>1, <2>2, <2>3, <2>4, <2>5
<1>2. ASSUME NEW p \in SG!Procs, SG!Hit(p) PROVE SignalInv'
  <2>1. SG!TypeOK'
    <3>1. num' \in [SG!Procs -> 1 - MaxDamage .. Limit + HitPoints]
      <4>1. ASSUME num[p] > 0, NEW d \in 1 .. MaxDamage, num' = [num EXCEPT ![p] = @ - d]
            PROVE  num' \in [SG!Procs -> 1 - MaxDamage .. Limit + HitPoints]
        <5>1. num \in [SG!Procs -> 1 - MaxDamage .. Limit + HitPoints]
          BY DEF SG!TypeOK
        <5>2. num[p] - d \in 1 - MaxDamage .. Limit + HitPoints
          BY <4>1, <5>1
        <5> QED  BY <4>1, <5>1, <5>2
      <4> QED  BY <1>2, <4>1 DEF SG!Hit, SG!TypeOK
    <3>2. pend' \in [SG!Procs -> SUBSET {"hit", "end", "term"}]
      BY <1>2 DEF SG!Hit, SG!TypeOK
    <3>3. fighting' \in [SG!Procs -> BOOLEAN] /\ won' \in [SG!Procs -> BOOLEAN]
      BY <1>2 DEF SG!Hit, SG!TypeOK
    <3>4. at' \in [SG!Procs -> {"srand", "test", "kill", "rand", "sleep", "farewell",
                              "term", "wait", "exited"}]
      BY <1>2 DEF SG!Hit, SG!Resume, SG!Goto, SG!TypeOK
    <3>5. hung' \subseteq SG!Procs
      BY <1>2 DEF SG!Hit, SG!TypeOK
    <3> QED  BY <1>2, <3>1, <3>2, <3>3, <3>4, <3>5 DEF SG!Hit, SG!TypeOK
  <2>2. CountInv'
    BY <1>2 DEF SG!Hit, SG!Runs, SG!Resume, SG!Goto, SG!TypeOK, CountInv
  <2>3. TermInv'
    BY <1>2, Opponents DEF SG!Hit, SG!Runs, SG!Resume, SG!Goto, SG!TypeOK, TermInv
  <2>4. FightInv'
    BY <1>2, Opponents
    DEF SG!Hit, SG!Runs, SG!Resume, SG!Goto, SG!TypeOK, TermInv, FightInv, LeftLoop, SaidEnd
  <2>5. SG!WinnerHasBeaten'
    BY <1>2, Opponents
    DEF SG!Hit, SG!Runs, SG!Resume, SG!Goto, SG!TypeOK, TermInv, FightInv, LeftLoop, SaidEnd, SG!WinnerHasBeaten
  <2> QED  BY <2>1, <2>2, <2>3, <2>4, <2>5
<1>3. ASSUME NEW p \in SG!Procs, SG!End(p) PROVE SignalInv'
  <2>1. SG!TypeOK'
    BY <1>3, Opponents DEF SG!End, SG!Alive, SG!Resume, SG!Goto, SG!TypeOK, CountInv
  <2>2. CountInv'
    BY <1>3 DEF SG!End, SG!Alive, SG!Resume, SG!Goto, SG!TypeOK, CountInv
  <2>3. TermInv'
    BY <1>3, Opponents DEF SG!End, SG!Alive, SG!Resume, SG!Goto, SG!TypeOK, TermInv
  <2>4. FightInv'
    BY <1>3, Opponents
    DEF SG!End, SG!Alive, SG!Resume, SG!Goto, SG!TypeOK, TermInv, FightInv, LeftLoop, SaidEnd
  <2>5. SG!WinnerHasBeaten'
    BY <1>3, Opponents
    DEF SG!End, SG!Alive, SG!Resume, SG!Goto, SG!TypeOK, TermInv, FightInv, LeftLoop, SaidEnd, SG!WinnerHasBeaten
  <2> QED  BY <2>1, <2>2, <2>3, <2>4, <2>5
<1>4. ASSUME NEW p \in SG!Procs, SG!Terminated(p) PROVE SignalInv'
  <2>1. SG!TypeOK'
    BY <1>4, Opponents DEF SG!Terminated, SG!Runs, SG!Goto, SG!TypeOK, CountInv
  <2>2. CountInv'
    BY <1>4 DEF SG!Terminated, SG!Runs, SG!Goto, SG!TypeOK, CountInv
  <2>3. TermInv'
    BY <1>4, Opponents DEF SG!Terminated, SG!Runs, SG!Goto, SG!TypeOK, TermInv
  <2>4. FightInv'
    BY <1>4, Opponents
    DEF SG!Terminated, SG!Runs, SG!Goto, SG!TypeOK, TermInv, FightInv, LeftLoop, SaidEnd
  <2>5. SG!WinnerHasBeaten'
    BY <1>4, Opponents
    DEF SG!Terminated, SG!Runs, SG!Goto, SG!TypeOK, TermInv, FightInv, LeftLoop, SaidEnd, SG!WinnerHasBeaten
  <2> QED  BY <2>1, <2>2, <2>3, <2>4, <2>5
<1>5. ASSUME NEW p \in SG!Procs, SG!Test(p) PROVE SignalInv'
  <2>1. SG!TypeOK'
    BY <1>5, Opponents DEF SG!Test, SG!Runs, SG!Goto, SG!AfterLoop, SG!Goes, SG!TypeOK, CountInv
  <2>2. CountInv'
    BY <1>5 DEF SG!Test, SG!Runs, SG!Goto, SG!AfterLoop, SG!Goes, SG!TypeOK, CountInv
  <2>3. TermInv'
    BY <1>5, Opponents DEF SG!Test, SG!Runs, SG!Goto, SG!AfterLoop, SG!Goes, SG!TypeOK, TermInv
  <2>4. FightInv'
    BY <1>5, Opponents
    DEF SG!Test, SG!Runs, SG!Goto, SG!AfterLoop, SG!Goes, SG!TypeOK, TermInv, FightInv, LeftLoop, SaidEnd
  <2>5. SG!WinnerHasBeaten'
    BY <1>5, Opponents
    DEF SG!Test, SG!Runs, SG!Goto, SG!AfterLoop, SG!Goes, SG!TypeOK, TermInv, FightInv, LeftLoop, SaidEnd, SG!WinnerHasBeaten
  <2> QED  BY <2>1, <2>2, <2>3, <2>4, <2>5
<1>6. ASSUME NEW p \in SG!Procs, SG!Send(p) PROVE SignalInv'
  <2>1. SG!TypeOK'
    BY <1>6, Opponents DEF SG!Send, SG!Runs, SG!Goto, SG!Kill, SG!TypeOK, CountInv
  <2>2. CountInv'
    BY <1>6 DEF SG!Send, SG!Runs, SG!Goto, SG!Kill, SG!TypeOK, CountInv
  <2>3. TermInv'
    BY <1>6, Opponents DEF SG!Send, SG!Runs, SG!Goto, SG!Kill, SG!TypeOK, TermInv
  <2>4. FightInv'
    BY <1>6, Opponents
    DEF SG!Send, SG!Runs, SG!Goto, SG!Kill, SG!TypeOK, TermInv, FightInv, LeftLoop, SaidEnd
  <2>5. SG!WinnerHasBeaten'
    BY <1>6, Opponents
    DEF SG!Send, SG!Runs, SG!Goto, SG!Kill, SG!TypeOK, TermInv, FightInv, LeftLoop, SaidEnd, SG!WinnerHasBeaten
  <2> QED  BY <2>1, <2>2, <2>3, <2>4, <2>5
<1>7. ASSUME NEW p \in SG!Procs, SG!SendCounted(p) PROVE SignalInv'
  <2>1. SG!TypeOK'
    <3>1. "parent" \in SG!Procs
      BY DEF SG!Procs
    <3>2. i' \in 0 .. Limit
      BY <1>7 DEF SG!SendCounted, SG!TypeOK, CountInv
    <3>3. pend' \in [SG!Procs -> SUBSET {"hit", "end", "term"}]
      BY <1>7, <3>1 DEF SG!SendCounted, SG!Kill, SG!TypeOK
    <3>4. fate' \subseteq {"left", "swallowed"}
      BY <1>7 DEF SG!SendCounted, SG!Swallowed, SG!TypeOK
    <3> QED  BY <1>7, <3>2, <3>3, <3>4 DEF SG!SendCounted, SG!Goto, SG!TypeOK
  <2>2. CountInv'
    BY <1>7 DEF SG!SendCounted, SG!Runs, SG!Goto, SG!Kill, SG!Swallowed, SG!TypeOK, CountInv
  <2>3. TermInv'
    BY <1>7, Opponents DEF SG!SendCounted, SG!Runs, SG!Goto, SG!Kill, SG!Swallowed, SG!TypeOK, TermInv
  <2>4. FightInv'
    BY <1>7, Opponents
    DEF SG!SendCounted, SG!Runs, SG!Goto, SG!Kill, SG!Swallowed, SG!TypeOK, TermInv, FightInv, LeftLoop, SaidEnd
  <2>5. SG!WinnerHasBeaten'
    BY <1>7, Opponents
    DEF SG!SendCounted, SG!Runs, SG!Goto, SG!Kill, SG!Swallowed, SG!TypeOK, TermInv, FightInv, LeftLoop, SaidEnd, SG!WinnerHasBeaten
  <2> QED  BY <2>1, <2>2, <2>3, <2>4, <2>5
<1>8. ASSUME NEW p \in SG!Procs, SG!Rand(p) PROVE SignalInv'
  <2>1. SG!TypeOK'
    BY <1>8, Opponents DEF SG!Rand, SG!Runs, SG!Goto, SG!TypeOK, CountInv
  <2>2. CountInv'
    BY <1>8 DEF SG!Rand, SG!Runs, SG!Goto, SG!TypeOK, CountInv
  <2>3. TermInv'
    BY <1>8, Opponents DEF SG!Rand, SG!Runs, SG!Goto, SG!TypeOK, TermInv
  <2>4. FightInv'
    BY <1>8, Opponents
    DEF SG!Rand, SG!Runs, SG!Goto, SG!TypeOK, TermInv, FightInv, LeftLoop, SaidEnd
  <2>5. SG!WinnerHasBeaten'
    BY <1>8, Opponents
    DEF SG!Rand, SG!Runs, SG!Goto, SG!TypeOK, TermInv, FightInv, LeftLoop, SaidEnd, SG!WinnerHasBeaten
  <2> QED  BY <2>1, <2>2, <2>3, <2>4, <2>5
<1>9. ASSUME NEW p \in SG!Procs, SG!Farewell(p) PROVE SignalInv'
  <2>1. SG!TypeOK'
    BY <1>9, Opponents DEF SG!Farewell, SG!Runs, SG!Goto, SG!Kill, SG!TypeOK, CountInv
  <2>2. CountInv'
    BY <1>9 DEF SG!Farewell, SG!Runs, SG!Goto, SG!Kill, SG!TypeOK, CountInv
  <2>3. TermInv'
    BY <1>9, Opponents DEF SG!Farewell, SG!Runs, SG!Goto, SG!Kill, SG!TypeOK, TermInv
  <2>4. FightInv'
    BY <1>9, Opponents
    DEF SG!Farewell, SG!Runs, SG!Goto, SG!Kill, SG!TypeOK, TermInv, FightInv, LeftLoop, SaidEnd
  <2>5. SG!WinnerHasBeaten'
    BY <1>9, Opponents
    DEF SG!Farewell, SG!Runs, SG!Goto, SG!Kill, SG!TypeOK, TermInv, FightInv, LeftLoop, SaidEnd, SG!WinnerHasBeaten
  <2> QED  BY <2>1, <2>2, <2>3, <2>4, <2>5
<1>10. ASSUME NEW p \in SG!Procs, SG!Wake(p) PROVE SignalInv'
  <2>1. SG!TypeOK'
    BY <1>10, Opponents DEF SG!Wake, SG!Runs, SG!Goto, SG!TypeOK, CountInv
  <2>2. CountInv'
    BY <1>10 DEF SG!Wake, SG!Runs, SG!Goto, SG!TypeOK, CountInv
  <2>3. TermInv'
    BY <1>10, Opponents DEF SG!Wake, SG!Runs, SG!Goto, SG!TypeOK, TermInv
  <2>4. FightInv'
    BY <1>10, Opponents
    DEF SG!Wake, SG!Runs, SG!Goto, SG!TypeOK, TermInv, FightInv, LeftLoop, SaidEnd
  <2>5. SG!WinnerHasBeaten'
    BY <1>10, Opponents
    DEF SG!Wake, SG!Runs, SG!Goto, SG!TypeOK, TermInv, FightInv, LeftLoop, SaidEnd, SG!WinnerHasBeaten
  <2> QED  BY <2>1, <2>2, <2>3, <2>4, <2>5
<1>11. CASE SG!Wait
  BY <1>11 DEF SG!Wait, SG!Goto, SG!Procs, SG!TypeOK, CountInv, TermInv, FightInv, LeftLoop, SaidEnd, SG!WinnerHasBeaten
<1>12. CASE UNCHANGED SG!vars
  BY <1>12 DEF SG!vars, SG!TypeOK, CountInv, TermInv, FightInv, LeftLoop, SaidEnd, SG!WinnerHasBeaten
<1> QED
  BY <1>1, <1>2, <1>3, <1>4, <1>5, <1>6, <1>7, <1>8, <1>9, <1>10, <1>11, <1>12
  DEF SG!Next, SG!Deliver, SG!Step

-----------------------------------------------------------------------------
(* The signal games: theorems *)

LEMMA SignalInvariance == SG!Spec => []SignalInv
BY SignalInit, SignalStep, PTL DEF SG!Spec

LEMMA SuiteRunsSignals == Spec => SG!Spec
<1>1. Init => SG!Init
  BY DEF Init
<1>2. [Next]_vars => [SG!Next]_(SG!vars)
  BY DEF Next, vars, signalVars, SG!vars
<1> QED  BY <1>1, <1>2, PTL DEF Spec, SG!Spec

(* signalFight.c: a fighter leaves its loop as the winner only when the      *)
(* other one has lost, with any hit points and damage and however signals    *)
(* are delayed or merge.                                                     *)
THEOREM NeverTwoWinners == Spec => []WinnerHasBeaten
<1>1. SignalInv => WinnerHasBeaten
  BY DEF SignalInv, WinnerHasBeaten
<1> QED  BY <1>1, SuiteRunsSignals, SignalInvariance, PTL

=============================================================================
