-------------------------- MODULE ProducerConsumer --------------------------
(***************************************************************************)
(* The bounded producer/consumer queue of                                  *)
(*   concurrency-tutorial/exercises/solutions/03-synchronization/          *)
(*     exercise3_solution.c                                                *)
(* with its main thread.  Every lock, test of a while loop, wait, wakeup,  *)
(* signal and unlock is a step of its own, because main broadcasts on      *)
(* not_empty without holding the mutex.                                    *)
(***************************************************************************)
EXTENDS Integers, FiniteSets, Pthreads

CONSTANTS
  Producers,            \* the producer threads
  Consumers,            \* the consumer threads
  BUFFER_SIZE,          \* slots of the circular buffer
  ITEMS_PER_PRODUCER,   \* iterations of a producer's for loop
  NoThread              \* the owner of a free mutex

ASSUME PCAssumption ==
  /\ IsFiniteSet(Producers) /\ Producers # {}
  /\ IsFiniteSet(Consumers) /\ Consumers # {}
  /\ Producers \cap Consumers = {}
  /\ NoThread \notin Producers \cup Consumers
  /\ BUFFER_SIZE \in Nat \ {0}
  /\ ITEMS_PER_PRODUCER \in Nat \ {0}

Threads == Producers \cup Consumers
TOTAL_ITEMS == Cardinality(Producers) * ITEMS_PER_PRODUCER

VARIABLES
  mutex,            \* the owner of mutex
  buffer,           \* int buffer[BUFFER_SIZE]
  count,            \* items in the buffer
  in_index,         \* slot of the next insertion
  out_index,        \* slot of the next removal
  next_item,        \* number of the next item
  items_consumed,   \* items consumed so far
  pc,               \* control point of each thread
  made,             \* the loop variable i of each producer
  received,         \* history: the items each consumer reported as consumed
  main              \* control point of main()

queueVars == <<buffer, count, in_index, out_index, next_item, items_consumed>>
vars == <<mutex, queueVars, pc, made, received, main>>

Slots == 0 .. BUFFER_SIZE - 1

Init ==
  /\ mutex = NoThread
  /\ buffer = [s \in Slots |-> 0]
  /\ count = 0
  /\ in_index = 0
  /\ out_index = 0
  /\ next_item = 1
  /\ items_consumed = 0
  /\ pc = [t \in Threads |-> "new"]
  /\ made = [p \in Producers |-> 0]
  /\ received = [c \in Consumers |-> {}]
  /\ main = "create"

Goto(t, label) == pc' = [pc EXCEPT ![t] = label]

-----------------------------------------------------------------------------
(* Steps every thread takes. *)

(* Fault: "if" instead of "while" around pthread_cond_wait(), so that a      *)
(* thread that wakes up goes on without testing again.                       *)
AcquireWithoutRetest(t) ==
  /\ pc[t] \in {"lock", "woken"}
  /\ mutex = NoThread
  /\ mutex' = t
  /\ Goto(t, IF pc[t] = "lock" THEN "test"
             ELSE IF t \in Producers THEN "put" ELSE "take")
  /\ UNCHANGED <<queueVars, made, received, main>>

(* pthread_mutex_lock(), or the return of pthread_cond_wait(): both lead to  *)
(* the test of the while loop.                                               *)
Acquire(t) ==
  /\ pc[t] \in {"lock", "woken"}
  /\ mutex = NoThread
  /\ mutex' = t
  /\ Goto(t, "test")
  /\ UNCHANGED <<queueVars, made, received, main>>

(* pthread_cond_wait(): release the mutex and block, in one step.            *)
CondWait(t) ==
  /\ pc[t] = "sleep"
  /\ mutex' = NoThread
  /\ Goto(t, "blocked")
  /\ UNCHANGED <<queueVars, made, received, main>>

(* A spurious wakeup, the reason the code gives for looping on the wait.     *)
SpuriousWakeup(t) ==
  /\ pc[t] = "blocked"
  /\ Goto(t, "woken")
  /\ UNCHANGED <<mutex, queueVars, made, received, main>>

-----------------------------------------------------------------------------
(* producer() *)

(* Fault: the buffer is taken for full one item too late.                    *)
FullTooLate == count > BUFFER_SIZE

Full == count = BUFFER_SIZE

ProducerTest(p) ==
  /\ pc[p] = "test"
  /\ Goto(p, IF Full THEN "sleep" ELSE "put")
  /\ UNCHANGED <<mutex, queueVars, made, received, main>>

(* Fault: in_index advances before the item is stored.                       *)
PutAfterAdvance(p) ==
  /\ pc[p] = "put"
  /\ next_item' = next_item + 1
  /\ in_index' = (in_index + 1) % BUFFER_SIZE
  /\ buffer' = [buffer EXCEPT ![in_index'] = next_item]
  /\ count' = count + 1
  /\ Goto(p, "signal")
  /\ UNCHANGED <<mutex, out_index, items_consumed, made, received, main>>

Put(p) ==
  /\ pc[p] = "put"
  /\ next_item' = next_item + 1
  /\ buffer' = [buffer EXCEPT ![in_index] = next_item]
  /\ in_index' = (in_index + 1) % BUFFER_SIZE
  /\ count' = count + 1
  /\ Goto(p, "signal")
  /\ UNCHANGED <<mutex, out_index, items_consumed, made, received, main>>

(* Fault: the producer signals the wrong condition variable.                 *)
SignalWrongCondition(p) ==
  /\ pc[p] = "signal"
  /\ pc' \in Signal([pc EXCEPT ![p] = "unlock"], Producers)
  /\ UNCHANGED <<mutex, queueVars, made, received, main>>

SignalNotEmpty(p) ==
  /\ pc[p] = "signal"
  /\ pc' \in Signal([pc EXCEPT ![p] = "unlock"], Consumers)
  /\ UNCHANGED <<mutex, queueVars, made, received, main>>

ProducerUnlock(p) ==
  /\ pc[p] = "unlock"
  /\ mutex' = NoThread
  /\ made' = [made EXCEPT ![p] = @ + 1]
  /\ Goto(p, IF made[p] + 1 < ITEMS_PER_PRODUCER THEN "lock" ELSE "done")
  /\ UNCHANGED <<queueVars, received, main>>

ProducerStep(p) ==
  ProducerTest(p) \/ CondWait(p) \/ Put(p) \/ SignalNotEmpty(p) \/ ProducerUnlock(p)

-----------------------------------------------------------------------------
(* consumer() *)

(* Fault: consumers stop one item early.                                     *)
AllConsumedTooSoon == items_consumed + 1 >= TOTAL_ITEMS

AllConsumed == items_consumed >= TOTAL_ITEMS

(* The while condition, then the two checks that follow the loop.            *)
AfterTest ==
  CASE count = 0 /\ ~ AllConsumed -> "sleep"
    [] AllConsumed                -> "quit"
    [] OTHER                      -> IF count = 0 THEN "unlock" ELSE "take"

ConsumerTest(c) ==
  /\ pc[c] = "test"
  /\ Goto(c, AfterTest)
  /\ UNCHANGED <<mutex, queueVars, made, received, main>>

(* Fault: the consumer forgets to advance out_index.                         *)
TakeWithoutAdvance(c) ==
  /\ pc[c] = "take"
  /\ received' = [received EXCEPT ![c] = @ \cup {buffer[out_index]}]
  /\ count' = count - 1
  /\ items_consumed' = items_consumed + 1
  /\ Goto(c, "signal")
  /\ UNCHANGED <<mutex, buffer, in_index, out_index, next_item, made, main>>

Take(c) ==
  /\ pc[c] = "take"
  /\ received' = [received EXCEPT ![c] = @ \cup {buffer[out_index]}]
  /\ out_index' = (out_index + 1) % BUFFER_SIZE
  /\ count' = count - 1
  /\ items_consumed' = items_consumed + 1
  /\ Goto(c, "signal")
  /\ UNCHANGED <<mutex, buffer, in_index, next_item, made, main>>

SignalNotFull(c) ==
  /\ pc[c] = "signal"
  /\ pc' \in Signal([pc EXCEPT ![c] = "unlock"], Producers)
  /\ UNCHANGED <<mutex, queueVars, made, received, main>>

ConsumerUnlock(c) ==
  /\ pc[c] \in {"unlock", "quit"}
  /\ mutex' = NoThread
  /\ Goto(c, IF pc[c] = "quit" THEN "done" ELSE "lock")
  /\ UNCHANGED <<queueVars, made, received, main>>

ConsumerStep(c) ==
  ConsumerTest(c) \/ CondWait(c) \/ Take(c) \/ SignalNotFull(c) \/ ConsumerUnlock(c)

-----------------------------------------------------------------------------
(* main() *)

(* pthread_create(): the producers first, then the consumers.                *)
Create(t) ==
  /\ main = "create"
  /\ pc[t] = "new"
  /\ t \in Consumers => \A p \in Producers : pc[p] # "new"
  /\ Goto(t, "lock")
  /\ main' = IF \E u \in Threads \ {t} : pc[u] = "new"
             THEN "create" ELSE "join_producers"
  /\ UNCHANGED <<mutex, queueVars, made, received>>

JoinProducers ==
  /\ main = "join_producers"
  /\ \A p \in Producers : pc[p] = "done"
  /\ main' = "broadcast"
  /\ UNCHANGED <<mutex, queueVars, pc, made, received>>

(* Fault: main joins the consumers without waking them.                      *)
NoBroadcast ==
  /\ main = "broadcast"
  /\ main' = "join_consumers"
  /\ UNCHANGED <<mutex, queueVars, pc, made, received>>

(* main holds no mutex here. *)
BroadcastNotEmpty ==
  /\ main = "broadcast"
  /\ pc' = Broadcast(pc, Consumers)
  /\ main' = "join_consumers"
  /\ UNCHANGED <<mutex, queueVars, made, received>>

(* The last join, the report of the totals and the destruction of the mutex. *)
JoinConsumers ==
  /\ main = "join_consumers"
  /\ \A c \in Consumers : pc[c] = "done"
  /\ main' = "exit"
  /\ UNCHANGED <<mutex, queueVars, pc, made, received>>

MainStep ==
  \/ \E t \in Threads : Create(t)
  \/ JoinProducers
  \/ BroadcastNotEmpty
  \/ JoinConsumers

(* The process has ended. *)
Exited == main = "exit" /\ UNCHANGED vars

-----------------------------------------------------------------------------
Next ==
  \/ \E t \in Threads : Acquire(t) \/ SpuriousWakeup(t)
  \/ \E p \in Producers : ProducerStep(p)
  \/ \E c \in Consumers : ConsumerStep(c)
  \/ MainStep
  \/ Exited

(* Every runnable thread is scheduled; a thread that asks for the mutex over *)
(* and over while it is released over and over gets it.  Spurious wakeups    *)
(* need never happen.                                                        *)
Fairness ==
  /\ \A t \in Threads : SF_vars(Acquire(t))
  /\ \A p \in Producers : WF_vars(ProducerStep(p))
  /\ \A c \in Consumers : WF_vars(ConsumerStep(c))
  /\ WF_vars(MainStep)

Spec == Init /\ [][Next]_vars
FairSpec == Spec /\ Fairness

-----------------------------------------------------------------------------
(* Properties *)

Labels == {"new", "lock", "test", "sleep", "blocked", "woken", "put", "take",
           "signal", "unlock", "quit", "done"}

(* Every variable stays in the range the code gives it; in particular the    *)
(* buffer never holds more than BUFFER_SIZE items, fewer than none, and both *)
(* indices stay inside the array.                                            *)
TypeOK ==
  /\ mutex \in Threads \cup {NoThread}
  /\ buffer \in [Slots -> Nat]
  /\ count \in 0 .. BUFFER_SIZE
  /\ in_index \in Slots
  /\ out_index \in Slots
  /\ next_item \in Nat \ {0}
  /\ items_consumed \in Nat
  /\ pc \in [Threads -> Labels]
  /\ made \in [Producers -> 0 .. ITEMS_PER_PRODUCER]
  /\ received \in [Consumers -> SUBSET Nat]
  /\ main \in {"create", "join_producers", "broadcast", "join_consumers", "exit"}

(* The slots a consumer will visit hold, in the order it visits them, the    *)
(* items produced and not yet consumed: no producer overwrites one, no       *)
(* consumer reads one twice and none overtakes another.                      *)
Slot(k) == (out_index + k) % BUFFER_SIZE

Backlog ==
  /\ next_item = items_consumed + count + 1
  /\ in_index = Slot(count)
  /\ \A k \in 0 .. count - 1 : buffer[Slot(k)] = items_consumed + 1 + k

(* Every item is consumed by exactly one consumer, and the items consumed so *)
(* far are the first ones produced.                                          *)
ExactlyOnce ==
  /\ \A c, d \in Consumers : c # d => received[c] \cap received[d] = {}
  /\ UNION {received[c] : c \in Consumers} = 1 .. items_consumed

(* No wakeup is lost.  While a consumer sleeps, every item in the buffer is  *)
(* accounted for by a consumer on its way to take one or by a producer that  *)
(* has yet to signal; while a producer sleeps, every free slot is accounted  *)
(* for in the same way.                                                      *)
At(S, labels) == Cardinality({t \in S : pc[t] \in labels})

NoLostWakeup ==
  /\ Sleepers(pc, Consumers) # {} =>
       count <= At(Consumers, {"woken", "test", "take"}) + At(Producers, {"signal"})
  /\ Sleepers(pc, Producers) # {} =>
       BUFFER_SIZE - count <=
         At(Producers, {"woken", "test", "put"}) + At(Consumers, {"signal"})

(* The queue implements the abstract FIFO queue: a producer's insertion is a *)
(* PutItem, a consumer's removal a GetItem of the oldest item, and every     *)
(* other step (locking, waiting, signalling, ending) changes nothing.        *)
Fifo == INSTANCE BoundedFifo WITH
  Readers  <- Consumers,
  Capacity <- BUFFER_SIZE,
  queue    <- [k \in 1 .. count |-> buffer[Slot(k - 1)]],
  next     <- next_item,
  got      <- received

ImplementsFifo == Fifo!Spec

(* When main reports, it prints SUCCESS: every item was produced and         *)
(* consumed, none is left, and nobody uses the mutex main destroys.          *)
AllAccounted ==
  main = "exit" =>
    /\ items_consumed = TOTAL_ITEMS
    /\ count = 0
    /\ mutex = NoThread
    /\ \A t \in Threads : pc[t] = "done"

(* The program ends: no thread sleeps for ever, although the consumer of the *)
(* last item signals only not_full and relies on main's broadcast.           *)
Termination == <>(main = "exit")

=============================================================================
