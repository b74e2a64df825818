---------------------------- MODULE SharedChannel ----------------------------
(***************************************************************************)
(* One item at a time between two processes through a POSIX shared memory  *)
(* object with a semaphore in it:                                          *)
(*   concurrency-tutorial/exercises/solutions/04-ipc/                      *)
(*     exercise4_producer_solution.c, exercise4_consumer_solution.c,       *)
(*     exercise4_shared_solution.h                          "exercise4"    *)
(*   winter2025/lecture13/sharedMemprod.c, sharedMemcons.c  "lecture13"    *)
(* Both processes are started by hand, in either order.  The object of an  *)
(* earlier run may still be there, if its consumer never came to remove it. *)
(***************************************************************************)
EXTENDS Naturals, Sequences

CONSTANTS
  Channels,     \* which of the two programs are considered
  NumItems      \* iterations of either loop, 10

ChannelAssumption ==
  /\ Channels \subseteq {"exercise4", "lecture13"}
  /\ NumItems \in Nat \ {0}

VARIABLES
  channel,      \* the program that runs
  named,        \* the object has a name in the file system
  sized,        \* ftruncate() has been done
  sem,          \* value of the semaphore
  cell,         \* the shared fields: sequence, value, is_ready
  prod,         \* control point of the producer
  cons,         \* control point of the consumer
  made,         \* the producer's iterations
  rounds,       \* the consumer's iterations
  received,     \* the items the consumer has printed
  stranded,     \* sem_init() made the semaphore forget a sleeping consumer
  early         \* history: the consumer opened an object not initialised yet

object == <<channel, named, sized>>
data == <<sem, cell>>
producerVars == <<prod, made>>
consumerVars == <<cons, rounds, received, early>>
vars == <<object, data, producerVars, consumerVars, stranded>>

Blank == [sequence |-> 0, value |-> 0, is_ready |-> FALSE]
Leftover == [Blank EXCEPT !.is_ready = TRUE]   \* from an earlier run: item 0

Init ==
  /\ channel \in Channels
  /\ named \in BOOLEAN
  /\ sized = named
  /\ sem = IF named THEN 1 ELSE 0
  /\ cell = IF named THEN Leftover ELSE Blank
  /\ prod = "shm_open" /\ cons = "shm_open"
  /\ made = 0 /\ rounds = 0
  /\ received = <<>>
  /\ stranded = FALSE /\ early = FALSE

-----------------------------------------------------------------------------
(* The producer *)

ProducerOpen ==
  /\ prod = "shm_open"
  /\ named' = TRUE
  /\ prod' = "ftruncate"
  /\ UNCHANGED <<data, consumerVars, made, stranded, sized, channel>>

Truncate ==
  /\ prod = "ftruncate"
  /\ sized' = TRUE
  /\ prod' = "sem_init"
  /\ UNCHANGED <<data, consumerVars, made, stranded, named, channel>>

(* sem_init() on a semaphore somebody sleeps on is undefined: the sleeper    *)
(* may be forgotten, or notice the new value.                                *)
SemInit ==
  /\ prod = "sem_init"
  /\ sem' = 1
  /\ stranded' \in {FALSE, cons = "sem_wait" /\ sem = 0}
  /\ prod' = IF channel = "exercise4" THEN "reset" ELSE "sem_wait"
  /\ UNCHANGED <<object, consumerVars, cell, made>>

Reset ==
  /\ prod = "reset"
  /\ cell' = Blank
  /\ prod' = "sem_wait"
  /\ UNCHANGED <<object, consumerVars, sem, made, stranded>>

ProducerWait ==
  /\ prod = "sem_wait"
  /\ sem > 0
  /\ sem' = sem - 1
  /\ prod' = "sequence"
  /\ UNCHANGED <<object, consumerVars, cell, made, stranded>>

PutSequence ==
  /\ prod = "sequence"
  /\ cell' = [cell EXCEPT !.sequence = made + 1]
  /\ prod' = "value"
  /\ UNCHANGED <<object, consumerVars, sem, made, stranded>>

(* The value is the sequence number times ten, or its square: its number     *)
(* stands for it.                                                            *)
PutValue ==
  /\ prod = "value"
  /\ cell' = [cell EXCEPT !.value = made + 1, !.is_ready = TRUE]
  /\ prod' = "sem_post"
  /\ UNCHANGED <<object, consumerVars, sem, made, stranded>>

ProducerPost ==
  /\ prod = "sem_post"
  /\ sem' = sem + 1
  /\ made' = made + 1
  /\ prod' = IF made + 1 = NumItems THEN "ended" ELSE "sem_wait"
  /\ UNCHANGED <<object, consumerVars, cell, stranded>>

Producer ==
  \/ ProducerOpen \/ Truncate \/ SemInit \/ Reset
  \/ ProducerWait \/ PutSequence \/ PutValue \/ ProducerPost

-----------------------------------------------------------------------------
(* The consumer *)

Initialised == prod \notin {"shm_open", "ftruncate", "sem_init", "reset"}

(* Without O_CREAT; exercise 4 says so and ends, the lecture's program goes  *)
(* on with a mapping that does not exist and crashes.                        *)
ConsumerOpen ==
  /\ cons = "shm_open"
  /\ cons' = IF named THEN "sem_wait" ELSE "failed"
  /\ early' = (named /\ ~Initialised)
  /\ UNCHANGED <<object, data, producerVars, rounds, received, stranded>>

(* Memory behind the end of the object: SIGBUS.                              *)
Unbacked ==
  /\ cons = "sem_wait"
  /\ ~sized
  /\ cons' = "failed"
  /\ UNCHANGED <<object, data, producerVars, rounds, received, stranded,
                 early>>

(* The lecture's program does not ask whether there is anything new.         *)
HasData == channel = "lecture13" \/ cell.is_ready

(* Fault: the consumer reads without taking the semaphore.                   *)
ConsumerBargesIn ==
  /\ cons = "sem_wait"
  /\ sized /\ ~stranded
  /\ cons' = IF HasData THEN "read" ELSE "sem_post"
  /\ UNCHANGED <<object, data, producerVars, rounds, received, stranded,
                 early>>

(* sem_wait() and the test of is_ready.                                      *)
ConsumerWait ==
  /\ cons = "sem_wait"
  /\ sized /\ ~stranded
  /\ sem > 0
  /\ sem' = sem - 1
  /\ cons' = IF HasData THEN "read" ELSE "sem_post"
  /\ UNCHANGED <<object, producerVars, cell, rounds, received, stranded,
                 early>>

Read ==
  /\ cons = "read"
  /\ received' = Append(received, <<cell.sequence, cell.value>>)
  /\ cell' = IF channel = "lecture13" THEN cell
             ELSE [cell EXCEPT !.is_ready = FALSE]
  /\ cons' = "sem_post"
  /\ UNCHANGED <<object, producerVars, sem, rounds, stranded, early>>

(* Fault: the round without data goes on without sem_post().                 *)
PostIfRead ==
  /\ cons = "sem_post"
  /\ sem' = IF Len(received) > rounds THEN sem + 1 ELSE sem
  /\ rounds' = rounds + 1
  /\ cons' = IF rounds + 1 = NumItems THEN "shm_unlink" ELSE "sem_wait"
  /\ UNCHANGED <<object, producerVars, cell, received, stranded, early>>

ConsumerPost ==
  /\ cons = "sem_post"
  /\ sem' = sem + 1
  /\ rounds' = rounds + 1
  /\ cons' = IF rounds + 1 = NumItems THEN "shm_unlink" ELSE "sem_wait"
  /\ UNCHANGED <<object, producerVars, cell, received, stranded, early>>

(* sem_destroy() does nothing to a producer that goes on, and the object     *)
(* stays as long as it is mapped; only its name is gone.                     *)
Unlink ==
  /\ cons = "shm_unlink"
  /\ named' = FALSE
  /\ cons' = "ended"
  /\ UNCHANGED <<data, producerVars, rounds, received, stranded, early,
                 sized, channel>>

Consumer ==
  \/ ConsumerOpen \/ Unbacked \/ ConsumerWait \/ Read \/ ConsumerPost \/ Unlink

-----------------------------------------------------------------------------
Finished == prod = "ended" /\ (cons \in {"ended", "failed"} \/ stranded)

Next == Producer \/ Consumer \/ (Finished /\ UNCHANGED vars)

Spec == Init /\ [][Next]_vars

(* Both processes are started at some time and scheduled from then on.       *)
FairSpec ==
  /\ Spec
  /\ WF_vars(Producer)
  /\ WF_vars(Consumer)

-----------------------------------------------------------------------------
(* Properties *)

TypeOK ==
  /\ channel \in Channels
  /\ named \in BOOLEAN /\ sized \in BOOLEAN
  /\ sem \in 0 .. 2
  /\ cell.sequence \in 0 .. NumItems /\ cell.value \in 0 .. NumItems
  /\ cell.is_ready \in BOOLEAN
  /\ prod \in {"shm_open", "ftruncate", "sem_init", "reset", "sem_wait",
               "sequence", "value", "sem_post", "ended"}
  /\ cons \in {"shm_open", "sem_wait", "read", "sem_post", "shm_unlink",
               "ended", "failed"}
  /\ made \in 0 .. NumItems /\ rounds \in 0 .. NumItems
  /\ received \in Seq((0 .. NumItems) \X (0 .. NumItems))
  /\ Len(received) <= NumItems
  /\ stranded \in BOOLEAN /\ early \in BOOLEAN

(* A consumer that opens the object after the producer has initialised it    *)
(* never gets half an item and never an older one than before; with is_ready *)
(* it gets none twice and none of an earlier run.                            *)
ItemsIntact ==
  ~early =>
    /\ \A k \in DOMAIN received : received[k][1] = received[k][2]
    /\ \A k \in 2 .. Len(received) : received[k - 1][1] <= received[k][1]
    /\ channel = "exercise4" =>
         /\ \A k \in DOMAIN received : received[k][1] > 0
         /\ \A k \in 2 .. Len(received) : received[k - 1][1] # received[k][1]

(* Each process leaves its loop, whatever the other one does, except for a   *)
(* consumer that slept on the semaphore when it was initialised.             *)
BothEnd == <>Finished

=============================================================================
