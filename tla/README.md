# A verification project for cs201

cs201 is the repository of a course on systems programming: some thousand small
files, most of them independent teaching programs in C, assembly and Rust. It
has no single system; it has programs, and the ones worth a specification are
those in which several threads or processes share state. This project models
them one by one in TLA+, checks the models with TLC, and proves with TLAPS, for
every value of the constants, all the safety properties and refinements that TLC checks.

Contents: the inventory, the modules and how they correspond to the code, the
runs, fairness, the proofs, what differs from the documentation, what is left
out, and the plan. Paths are relative to `src/`. Two directories come up often:

- `SYN` = `concurrency-tutorial/exercises/solutions/03-synchronization/`
- `DL` = `deadlock-lecture/`

## Inventory

| Component | State | Operations | What makes it correct |
|---|---|---|---|
| Producer/consumer queue, `SYN/exercise3_solution.c` | `buffer[]`, `count`, `in_index`, `out_index`, `next_item`, `items_consumed`, one mutex, two condition variables | produce, consume, wait, signal, final broadcast of main, joins | every item goes to one consumer, in order; nobody sleeps for ever; main's report is right |
| Reusable barrier, `SYN/exercise5_solution.c` | `count`, `phase`, `total_threads`, mutex, condition variable; `my_phase` per thread | `barrier_wait()`, worker loop, create, join | no phase starts before all finished the last; reuse loses nobody |
| Dining philosophers, `SYN/exercise4_solution.c` | `forks[]` (mutexes), `meals_eaten[]` | take lower fork, take higher fork, eat, put down; create, join | no circular wait, neighbours take turns, all meals eaten |
| Lecture philosophers, `DL/philo1.c` to `philo5.c` | `utensils[]`, `chirality`, `semmy` | the same with five strategies | deadlock only where the lecture means it; no starvation elsewhere |
| Chat server with private messages, `socket-examples/chat_server_pm.c` | `clients[]` under `clients_mutex`, static buffer of `get_username()`, one thread per connection | accept, add, log in, broadcast, `@user`, `/who`, `/quit`, refuse | array and threads agree; messages reach whom they should, under the right name |
| Plain chat server and client, `socket-examples/chat_server.c`, `chat_client.c` | `clients[]`, mutex; `running` in the client | accept, broadcast, leave; send, receive | join and leave announcements pair up; the client ends when the server does |
| `select()` chat server, `.../solutions/socket_exercise5_solution.c` | `master_fds`, `read_fds`, `max_fd`, `clients[]` | one loop over ready descriptors: accept, nickname, message, command, leave | descriptor set, array and open connections agree; every line is read |
| Forking and web servers, `.../solutions/socket_exercise4_solution.c`, `socket-examples/webserver_*.c` | child processes, or one thread per request | accept, fork or create, reap | no zombie stays, no accept is lost |
| Echo servers, TCP client | none shared | recv, send | - |
| Counters, `SYN/exercise1_solution.c`, `exercise2_solution.c` | shared counters, locks | increments with and without a lock | no lost update |
| Synchronization tutorials, `concurrency-tutorial/commented-examples/04-thread-synchronization/`, `winter2025/lecture10/condtest.c` | variants of the queue | as the queue | as the queue; start and stop of the threads |
| Shared-memory channel, `.../solutions/04-ipc/exercise4_*`, `winter2025/lecture13/sharedMem*` | shared segment, process-shared semaphore | create, initialise, write, read, destroy | items arrive whole, in order, none twice; both processes leave their loops |
| Message queues, `winter2025/lecture13/task_distributor.c`, `worker.c`, `exercise3_sender/receiver` | kernel queue, found by its key | send task, take task, send result, remove the queue; processes are killed and started again | every task goes to one worker and back once; the distributor's results are those of its own tasks |
| Pipes, FIFOs, FIFO chat | kernel buffers | open, write, read | - |
| Signal programs, `fall2025/lecture13/sigusr3.c`, `winter2025/lecture8/signalFight.c`, `winter2025/lecture7/tag.c` | pending signals, `volatile` flags | kill, handler, loop | loops end unless a signal goes missing; a fight has at most one winner |
| Idle games, `fall2025/lecture13/forkIncremental.c`, `fall2025/lecture14/threadIncremental*.c` | `income`, `gen1` to `gen3`; a mutex, `toContinue` | player's choices, heartbeat by signal or by thread, SIGINT | no purchase is lost or unpaid, updates are atomic, SIGINT ends the game after one last choice |
| Fork exercises, editors, final-project server scaffold, assembly, C basics, Rust | none shared between actors | - | - |

The programs do not call each other. What interacts is inside each program:
threads through mutexes and condition variables, main and its threads through
create and join, the chat server with its clients through sockets, and the
client threads with each other through the array. Hence the modules share only
two small libraries, `Pthreads` and `Utensils`, and abstract specifications.

The behaviours that are hard, and therefore modelled explicitly:
interleavings of lock-protected and unprotected steps, spurious and lost
wakeups, reuse of a barrier that is still being left, circular waits, races
between a check and the update it protects, a static buffer read outside the
lock, descriptors that the kernel reuses, signals that coalesce or interrupt a
read-modify-write, system calls that fail with EINTR, processes that are killed
and run again over a kernel object that outlives them. `PROJECT.json` lists the hazards
with the line at which each one bites and the properties that watch it.

## The modules

### Pthreads

Condition variables as operators on the function `pc` from threads to control
points. A condition variable is a set of threads that may wait on it; a waiter
is at `"blocked"`, a thread that has been woken and does not yet own the mutex is at
`"woken"`. `Signal` yields the set of possible next functions (one sleeper wakes,
any of them, or nothing happens); `Broadcast` wakes them all. The POSIX library
is external to the repository and modelled from how it is used. A mutex is a
variable that holds its owner; blocking in `pthread_mutex_lock()` is a guard.

### ProducerConsumer (with BoundedFifo)

Every thread has the control points of its loop: `lock`, `test` (the `while`
around the wait), `sleep`/`blocked`/`woken` (inside `pthread_cond_wait()`), `put`
or `take`, `signal`, `unlock`, `done`. Because several threads share the mutex, what
matters is the order of these steps; they are separate actions, so that TLC also
checks that nothing depends on being atomic. `CondWait` releases the mutex and
blocks in one step, as POSIX requires; `SpuriousWakeup` may strike any blocked
thread at any time. main creates the threads in the order of the code, joins the
producers, broadcasts `not_empty` without the mutex, and joins the consumers.
`AfterTest` is the consumer's whole decision: the `while` condition, then
`quit` when all items are consumed, then another round when the buffer is empty.

`received` (who received what) is a history variable. `made` is the loop variable of a
producer. `sleep`, `printf` and `rand` are left out.

`BoundedFifo` says what is promised: a FIFO queue of at most `Capacity` numbered
items. `ImplementsFifo` is the refinement, with the queue read off the circular
buffer from `out_index`.

### ReusableBarrier (with AbstractBarrier)

`barrier_wait()` in the steps `lock`, `arrive` (remember `my_phase`, count up),
`release` for the last thread (reset, next phase, broadcast) or
`test`/`sleep`/`blocked`/`woken` for the others, and `unlock`. The worker's loop and
its report after each phase (`worked`, a history variable) surround it. `AbstractBarrier` knows
only how often each party has entered and left; a party may leave for the n-th
time when all have entered n times.

### Diners, Utensils, DiningPhilosophers, Philosophers

`Diners` is the abstract table both philosopher modules implement: neighbours do
not eat together. `Utensils` defines a circular wait over any array of mutexes:
some set of threads each of which wants a mutex that another member owns.

`DiningPhilosophers` is exercise 4: forks are ordered by number, meals counted,
main joins in creation order. `Philosophers` holds the five lecture programs at once; the
variable `program` is chosen in `Init` and the programs differ only in the operators
`Chiralities`, `DownFirst`, `DownSecond` and `LoopTop`. philo4 declares a semaphore
and never uses it, so that it behaves as philo3. The copies in
`concurrency-tutorial/synchronization-examples/` are identical and not modelled again.

### ChatServerPM

A connection stands for both the client and the handler thread that serves it.
main() accepts a connection (the kernel gives the lowest free descriptor),
`add_client()`s it or refuses it, and creates the thread, which may fail
(`SpawnFails`). The handler receives a name, checks it, sets it, copies it with
`get_username()`, announces the join, chats, and leaves. A region between lock and
unlock is one action, since no step inside it is visible without the mutex, with two
exceptions. The copy in `get_username()` takes two steps, the mutex held between
them, because its static buffer is read by other handlers without the mutex; the buffer
contains `Torn` meanwhile. `broadcast()` is modelled round by round (`BroadcastLock`,
`BroadcastSend` for each slot, `BroadcastUnlock`), because it blocks in `send()` while
clients connect, log in, hang up and close their sockets; `slot` is its loop variable and `heard` the
history of whom it has sent to. `sent` is the set of lines the last step sent, each with
its addressee's descriptor, its kind, the name it carries and the connection it comes from. `text` is the name in the line a handler has
formatted and not yet sent. Names are model values; the text of messages, the
trimming of newlines and the list's layout are abstracted away, and a step that only
prompts, welcomes or reports an error to the client itself is part of the step before it. A line is
received whole.

### IncrementalGame (with IdleAccount)

The five idle games are four programs (`threadIncremental2.c` and
`threadIncremental3_sigaction.c` are the same text), chosen in `Init`. In
`"fork"` a child sends SIGUSR1 and the handler adds the generators' yield; it may
run between any two accesses of `main()`, so that each load and each store of
the player's tick or purchase is a step (`ReadIncome`, `WriteIncome`,
`ReadGen`, `WriteGen`) with the loaded value in `reg`. In the others the
heartbeat is a thread and both take `mut`. `"restart"` installs the SIGINT handler with
`signal()`, so that `scanf()` goes on after it; `"eintr"` with `sigaction()` and
no flags, so that `scanf()` fails (`InterruptScanf`). After any failure
`choice` has the value of the round before, as it lives in the same stack slot,
or in the first round any value (`Stale`). Input that is not a number stays in the
buffer and makes every later `scanf()` fail as well (`Jam`, `ScanfFails`). A
signal before the handler is installed ends the process. SIGINT comes between any two steps: only one
that finds `main()` in `scanf()`, and is handled by that thread, makes `scanf()` fail. After any other
`main()` tests the flag when it gets there, which may be after one more `scanf()`. `QuitEnds` therefore
promises an end without input from anywhere else than `scanf()`.

`books` is the account as it would be without a race and `bought` what was
delivered; both are history, as are `late` and `interrupted`. In `"fork"` an update of the
heartbeat really is lost when it falls between a load and a store;
`OnlyHeartbeatsAreLost` says that nothing else is. `IdleAccount` is
the account with atomic ticks, purchases and heartbeats, which the programs with
a thread implement: a payment counts when the generator has arrived.

### TaskQueue (with WorkPool)

The distributor and the workers of lecture 13 over one System V queue, with its
two message types as two sequences. `key` is the queue the key leads to at
present: `msgget()` creates one if there is none, whoever comes first, and a worker
keeps the identifier it got, so that its calls fail when that queue is
removed (`QueueGone`). Workers and distributor may be killed at any point, and the
distributor may be run again, over a queue that still holds what the run before
left. A task is identified by its run and number although the message has
only the number; `collected` and `crashed`, the set of queues on which a distributor was killed, are history.
`RunsAreComplete` is about every other queue, also one that is created after a crashed one was
removed.

`WorkPool` gives each task a place (new, queued, held, answered, collected,
lost) and a worker. The refinement reads the places off the queue and the workers, and so
says that no task is handed out twice, overtaken in the queue, answered twice
or collected twice, killed processes included.

### SharedChannel

IPC exercise 4 and the program of lecture 13 it resembles. The object may be left over
from an earlier run. The processes start in either order: the consumer may
find no object (it ends), an object without a size (SIGBUS), or one whose
semaphore is not initialised. `sem_init()` on a semaphore on which the consumer
sleeps is undefined; the model lets the sleeper be forgotten (`stranded`) or
notice. The value an item carries is a function of its number and is represented by
it, so that a half-written item has two different numbers. Items may be
overwritten unread in both programs: `ItemsIntact` promises that
what arrives is whole, in order and, in the exercise, new.

### SignalGames

`sigusr3.c`, `tag.c` and `signalFight.c`. Pending signals are a set per process,
so that equal signals merge. A handler runs as one step between any two steps of its
process. `hitHandler()` calls `rand()`: when it interrupts `rand()` or `srand()`, whose
lock in the C library is not recursive, it may wait for ever (`hung`). `fate`
is history: a signal was merged, or the child of `tag` has left.

### SelectChat

One process, so that a step is what the server does between two points at which
clients can change anything it sees: `select()`, one `accept()`, one client
served. Clients connect, send a line and hang up at any time. Connections are numbered as they
are established, and accepted in that order. Descriptors are numbers, the lowest free one
comes first. `FD_CLR(-1)` changes nothing that matters in the builds of the
`Makefile`, which have no optimisation and thus no fortified macro (bit 63 of the set on x86-64).
`send()` to a client that has gone may raise SIGPIPE (`Dies`). The commands that are
answered to the sender alone are one kind of line, `"reply"`.

### ProgramSuite and MCPrograms

`ProgramSuite` is one specification for the five modules above, to check them in a single run:
the variable `system`, chosen in `Init`, says which program a behaviour is about and the
variables of the others do not change. The properties have the names they have in their modules,
and the assumptions of the five are its own. `MCPrograms` adds the prices of a
small instance for TLC.

## Runs

| Run | Instance | States | Question |
|---|---|---|---|
| `pc` | 2 producers, 3 consumers, 2 slots, 2 items each | 90,072 | types, `Backlog`, `ExactlyOnce`, `NoLostWakeup`, `AllAccounted`, refinement, `Termination` |
| `rb` | 4 workers, 3 phases | 8,297 | types, `PhaseSeparation`, `OpensWhenComplete`, refinement, `EveryoneReleased`, `Termination` |
| `ph` | all 5 programs, 4 philosophers, 3 permits | 6,610 | types, `DeadlockNeedsSameOrder`, refinement, `NoStarvation` |
| `ph_philo2` | philo2, 5 philosophers | violation | `NoCircularWait` fails |
| `dp` | 5 philosophers, 2 meals | 31,607 | types, `NoCircularWait`, refinement, `AllPhilosophersEat` |
| `cs` | 3 connections, 3 slots, 2 names, symmetric | 4,899,311 | types, `BroadcastReachesOthers`, `PrivateStaysPrivate` |
| `cs_live` | 3 connections, 2 slots, 1 name | 267,352 | `Registry`, `EndsCleanly` |
| `cs_unique` | 2 connections | violation | `UniqueUsernames` fails |
| `cs_own_name` | 2 connections | violation | `SentInOwnName` fails |
| `programs` | one of five programs per behaviour, see below | 138,096 | types and: `OnlyHeartbeatsAreLost`, `OneLastPurchase`, `QuitEnds`, refinement of `IdleAccount`; `RunsAreComplete`, `DistributorFinishes`, refinement of `WorkPool`; `ItemsIntact`, `BothEnd`; `WinnerHasBeaten`, `GamesEnd`; `ClientsAreOpen`, `EveryLineIsRead` |
| `programs_garbage` | the idle game with `sigaction()` | violation | `GarbageIsHarmless` fails |
| `programs_fd_clr` | the `select()` server | violation | `WatchedAreOpen` fails |

Why the bounds are enough to reach the interesting cases:

- `pc`: 4 items for 2 slots make the buffer full, empty and wrapped round; with 3
  consumers several sleep at once and one of them must be woken by main's
  broadcast; 2 producers can both wait for a slot. Fewer items than
  consumers × slots leaves consumers that never get one.
- `rb`: three phases let a fast worker sleep in phase n + 1 while slow ones are
  still leaving phase n, and this once more after the counter was reset; four workers
  are enough for several of each kind at once.
- `ph`: four philosophers have neighbours and non-neighbours, and 3 permits are
  one fewer than the philosophers, as 4 of 5 in the code. The safety of the order does not depend
  on the number (exercise 4 is proved for all).
- `dp`: the program's own table size; two meals make each philosopher return to the table.
- `cs`: a slot for each of three connections, so that a sender has up to two others to reach, which is
  the least at which one can be reached and another be forgotten. While it sends, the others may be
  anywhere: not yet accepted, at the prompt for a name (they are recipients as well), waiting for the
  mutex to log in or to leave, or closing a descriptor that is used again. Two names, so that names clash. The
  connections and the names are symmetric: no definition compares them other than
  for equality. Each client connects once, a client that returns is one
  more connection.
- `cs_live`: three connections for two slots, so that one is refused or gets a slot
  and a descriptor another one gave back; with one name the others are refused by their name
  while it is in use. Symmetry is not used in a run with a liveness property.
- `programs`, idle games (40,713 states): the four programs, 3 choices and 2
  heartbeats while the game goes on (the choices after SIGINT are not
  bounded), prices 1, 2 and 2 so that every generator can be bought and refused; the
  arithmetic does not depend on the real prices.
- `programs`, task queue (43,739): 2 workers of 2 tasks each, so 4 results, and 3 runs of the
  distributor with 2 tasks each. Two whole runs can finish, one after the other, each with a worker of its
  own (a worker whose queue is removed ends). Or the first is killed, the second finishes with what the first left and
  removes the queue, and the third finishes on a new one.
- `programs`, channel (4,301): 3 items, so that items are overwritten, missed and
  taken in turns, with and without an object left over.
- `programs`, signals (4,264): limit 3 and 3 hit points with hits of 1 or 2, so that hits
  kill exactly or by more; `num` of `sigusr3` and `tag` stops at the limit.
- `programs`, `select()` server (45,079): 3 connections for 2 slots, 2 lines in all: a
  nickname and one thing more, or the nicknames of two clients. The server stops after
  the first client has left (`WatchedAreOpen`), so that longer sessions repeat the beginning.

Deadlock is checked everywhere except for `Philosophers`, where philo1 and
philo2 are written to deadlock; there `DeadlockNeedsSameOrder` says when. The
other programs end in a state that only stutters explicitly (`Exited`,
`Blocked`), which is reached only when main has returned or blocks in
`accept()` or `select()` with nothing to do.

Every property of a passing run has a mutant in `PROJECT.json`: a definition of
the model replaced by a plausible mistake (the operators marked `Fault`) that makes TLC report
the property violated. They show that the properties can fail: `if` instead
of `while` around a wait, a signal on the wrong condition, no final broadcast,
`pthread_cond_signal` for a broadcast, a counter not reset, the left fork always first, one
permit too many, a slot that keeps its descriptor, a return path without unlock, a broadcast without the
mutex or to the first client only, a result sent to whatever queue the key names by then.

## Fairness

The liveness properties assume `FairSpec`:

- Weak fairness of every step a thread can take without waiting: the scheduler
  runs every runnable thread. main is a thread like the others.
- Strong fairness of taking a mutex (`Acquire` in the queue and the barrier,
  `PickUpFirst`/`PickUpSecond`/`SemWait` of the lecture programs, the critical
  sections of the chat server and its sends, as clients read what they are sent): a thread that asks for a lock that is released
  again and again gets it. POSIX does not promise this for default mutexes, but
  the properties hold only with it where other threads may take the lock an
  unbounded number of times. In the lecture programs, which never end, it is
  needed for `NoStarvation`. In the queue and the barrier every spurious wakeup
  lets a thread lock and unlock once more, which is unbounded too.
- `DiningPhilosophers` uses weak fairness only: the meals are counted, so that a
  neighbour cannot take the fork for ever. `AllPhilosophersEat` therefore
  holds for unfair mutexes.
- The idle games, the task queue, the channel and the `select()` server need weak
  fairness only. In the game nothing is assumed of the mutex: after SIGINT each side
  asks for it a bounded number of times. That the workers of the task queue and both
  processes of the channel are started at some time is assumed as well, since
  their users start them.
- `SignalGames` adds strong fairness of waking up: a fighter's sleep of a few seconds is not
  interrupted every time for ever.
- No fairness is assumed of spurious wakeups, of clients connecting, sending or hanging
  up, of players typing, of processes being killed, or of a signal choosing a particular waiter.

`EndsCleanly` starts from the points at which the handler acts on its own; a
client that says nothing keeps its handler in `recv()`, as in the code.

## Proofs

TLAPS proves the following for every value of the constants that satisfies the
assumption its module names (`PCAssumption` and the like; `GamesAssumed` to `ChatAssumed`
in `ProgramSuite`): finite sets of threads, positive sizes, a table of at least two.
Every theorem starts from the specification without fairness.

| Theorem | Module | Property |
|---|---|---|
| `TypeCorrect` | `ProducerConsumerProofs` | `TypeOK` |
| `BacklogCorrect` | `ProducerConsumerProofs` | `Backlog` |
| `DeliveryCorrect` | `ProducerConsumerProofs` | `ExactlyOnce` |
| `NoWakeupIsLost` | `ProducerConsumerProofs` | `NoLostWakeup` |
| `ReportIsTrue` | `ProducerConsumerProofs` | `AllAccounted` |
| `FifoRefinement` | `ProducerConsumerProofs` | `ImplementsFifo` |
| `TypeCorrect` | `ReusableBarrierProofs` | `TypeOK` |
| `SeparationCorrect` | `ReusableBarrierProofs` | `PhaseSeparation` |
| `OpeningCorrect` | `ReusableBarrierProofs` | `OpensWhenComplete` |
| `BarrierRefinement` | `ReusableBarrierProofs` | `ImplementsBarrier` |
| `TypeCorrect` | `DiningPhilosophersProofs` | `TypeOK` |
| `OrderPreventsCircularWait` | `DiningPhilosophersProofs` | `NoCircularWait` |
| `TableRefinement` | `DiningPhilosophersProofs` | `NeighboursTakeTurns` |
| `TypeCorrect` | `PhilosophersProofs` | `TypeOK` |
| `OnlySameOrderDeadlocks` | `PhilosophersProofs` | `DeadlockNeedsSameOrder` |
| `TableRefinement` | `PhilosophersProofs` | `NeighboursTakeTurns` |
| `TypeCorrect` | `ChatServerPMProofs` | `TypeOK` |
| `RegistryCorrect` | `ChatServerPMProofs` | `Registry` |
| `BroadcastCorrect` | `ChatServerPMProofs` | `BroadcastReachesOthers` |
| `PrivacyCorrect` | `ChatServerPMProofs` | `PrivateStaysPrivate` |
| `PurchasesAreKept` | `GameProofs` | `OnlyHeartbeatsAreLost` |
| `NoSecondLastPurchase` | `GameProofs` | `OneLastPurchase` |
| `AccountIsAtomic` | `GameProofs` | `ImplementsAccount` |
| `ItemsStayIntact` | `InterprocessProofs` | `ItemsIntact` |
| `NeverTwoWinners` | `InterprocessProofs` | `WinnerHasBeaten` |
| `ClientsFollowConnections` | `ServerProofs` | `ClientsAreOpen` |
| `ResultsAreOfThisRun` | `ServerProofs` | `RunsAreComplete` |
| `QueueIsAPool` | `ServerProofs` | `ImplementsWorkPool` |
| `SuiteTypes` | `ServerProofs` | `TypeOK` of `ProgramSuite` |

All are proved in the same way: an invariant that is stronger than the property holds
initially, each action preserves it, and it implies the property or, for a refinement, makes each
step one of the abstract specification or a stutter. TLC checked the strengthened
invariants on the instances of the runs before they were proved. What follows
says what each adds and why the property alone is not inductive.

**The queue.** `TypeOK` is not inductive: that `count` stays within the buffer depends on
what a thread's test established still being true when it acts. `ControlInv`
adds that a thread owns the mutex exactly between its lock and its unlock
(`MutexInv`), that a producer at `put` finds a free slot and a consumer at
`take` an item (`PointInv`), and that a producer in its loop has items left
(`LoopInv`). Mutual exclusion makes `PointInv` stable. On top of it `Backlog`
says that the slots from `out_index` hold the consecutive item numbers from
`items_consumed + 1`; the lemmas `Wrap` and `Slot...` do the arithmetic of the circular
index once. `ExactlyOnce` follows because the item taken is
always the successor of the last one. For the refinement the queue is shown equal to
the sequence of consecutive numbers, so that a put appends one and a take
removes the head.

`NoLostWakeup` counts threads. `CountMove` says how the number of threads at given control
points changes when one of them moves, and `ConsumerMove` and `ProducerMove` apply it to the four
counts of the property. A thread that falls asleep found the
buffer empty, or full (`SleepInv`); a signal wakes one sleeper or finds none; an item
added is announced by its producer, which is counted as long as it has not signalled. A woken
consumer that leaves instead of taking its item does so because all items are
consumed (`QuitInv`), when `count` is 0. `AllAccounted` needs `CountInv`: the
items made, counted as pairs of a producer and a number of its loop, are those numbered so far. When
the producers are joined (`MainInv`) that is all of them, and a consumer that has left its
loop saw them all consumed.

**The barrier.** `CountInv` equates `count` with the number of threads that have
arrived in the current phase and not been released (`Arrived`), which is where
finite cardinalities enter. `Position` places every thread relative to `phase`: outside
the barrier its round is the next phase; waiting it either
belongs to the current phase or was released from the previous one. `Report`
ties the history `worked` to it. The last thread counts `total_threads`, so
everybody has arrived, which gives `OpensWhenComplete`; `PhaseSeparation` and
the refinement follow.

**The table of exercise 4.** `ForkInv` says exactly who owns each fork at each control point.
A philosopher that waits and holds a fork holds its lower one and
wants its higher one, so along a circle of waits the wanted numbers would
strictly increase; the well-foundedness of `<` on the naturals excludes a finite
table's largest one (`NoCircle`). An eater owns both of its forks (`EaterHoldsBoth`), hence
its neighbours lack one (`StartAlone`), which is the refinement's only hard step.

**The lecture programs.** `OwnerInv` says who owns each utensil, `ChiralityInv` which order each
program gives each philosopher, `SemInv` that the permits of `semmy` and the philosophers between
`sem_wait()` and `sem_post()` add up to its initial value, `CreatedInv` that threads start in
order. In a circular wait, what a philosopher waits for is the first utensil of
another one that waits and took its utensils in the same order (that of the neighbour on
the side it looks to). A set of seats closed under "my right neighbour", or the left one, is the whole
table (`AllTheWayRight`, `AllTheWayLeft`: from the least member down to seat 0 there is nothing to skip,
from the greatest one neither). So all hold their first utensil and all took it in the
same order: impossible in philo3 and philo4, where the last one differs; in philo5, where there are
fewer permits than philosophers; possible in philo1 and, after equal draws, in philo2.

**The chat server.** `FdInv` gives a connection a descriptor of its own from `accept()` to
`close()`, `MainInv` says which connection main serves between `accept()` and
`pthread_create()`. With them `Registry` is inductive: the slot of a handler is found by a descriptor
(`OwnSlot`), which nobody else has before `remove_client()` has emptied the slot and
`close()` freed the number. `PrivateStaysPrivate` speaks of the lines just sent and follows from `Registry`
at the step that sends them. `BroadcastReachesOthers` is about a whole loop: `MutexInv` says that a handler in
`broadcast()` owns the mutex, so that nobody registers, leaves the array or changes a slot meanwhile (`Unmoved`); the loop's
invariant `LoopInv`, that `heard` is the registered connections other than the sender whose slots are below `slot`
(`Reached`), then survives the steps of everybody else, of which closing and accepting do change
descriptors. A round adds the owner of one slot (`ReceiverOfSlot`), and when all slots are behind the loop
these are all of them. The first free slot and
the lowest free descriptor are least elements (`FirstIsLeast`); that a descriptor is
free at all is a matter of counting (there is one per connection, and the one that is accepted has none yet).

**The idle games.** `Bounded` keeps `acct` between what was delivered and what a game
without races would have. It survives a store because the value loaded is never more
than what is there (`LoadedInv`: heartbeats only add); with the mutex held it is exactly that
(`ExactInv`, from `MutexInv`), so that in the programs with a thread a load and its store are the single
step of `IdleAccount`. `LateInv` says at which control points the choice after SIGINT may still be made.

**The signal games.** A fighter leaves its loop because it is beaten or because the
other one has said so; `FightInv` keeps the two apart by what the other has done (`SaidEnd`) and by the
signal that may still be pending. That the games' other signals never reach a fighter is `TermInv`.

**The channel.** `SemInv` counts the semaphore's unit: it is free or with one of the
processes, unless the consumer came before `sem_init()` (`early`), when there may be one unit too
many; this is why `ItemsIntact` speaks of consumers that were not early. `CellInv` ties the object's fields to
the producer's position, `FreshInv` says that what is marked as ready is newer than all that was received.

**The task queue.** `SentInv`, `HandedInv` and `AnsweredInv` give each task one place: in the
queue in the order of sending, with one worker, answered, or collected. `RunInv` and `ShareInv` bound the runs
and the workers' shares. `CleanInv` says that on a queue no distributor was killed on everything
belongs to the present run and nothing is left between two; `KeyInv`, that a run has a queue, that the queue of a run that
was killed is marked, and that without a queue there are no messages, so that a new one starts
clean. So `NumTasks` results are the results of all its tasks (pigeonhole, with the library's facts on cardinality). The
refinement then shows that each of send, receive, answer, collect and loss moves one task.

**The `select()` server.** `PairInv` pairs slots in use with accepted connections by descriptor, `FdInv`
keeps descriptors distinct, and `WatchInv` says that all of them are in `master_fds`. They hold
while the server runs; the stale descriptor that `remove_client()` leaves behind ends it at its next `select()`.

**Without induction.** The library's induction theorems take an operator as a parameter, which the
installed provers cannot instantiate. Where numbers call for induction the proofs take a least or
greatest element instead, from the well-foundedness of `<` on the naturals (`WFMin`,
`NatLessThanWellFounded`): `FirstIsLeast`, `NoCircle`, the walk round the table.

Only model-checked:

- liveness: `Termination`, `EveryoneReleased`, `NoStarvation`, `AllPhilosophersEat`,
  `EndsCleanly`, `QuitEnds`, `DistributorFinishes`, `BothEnd`, `GamesEnd`, `EveryLineIsRead`. Arguments
  about fairness and ENABLED are outside the prover's reach;
- that some step is always possible until the program has ended (TLC's deadlock check); who
  of the philosophers can wait in a circle is proved;
- the five violations, which are counterexamples.

Assumed without proof are only the constants' assumptions, which TLC evaluates for the instances of the runs, and
the library's theorems about finite sets, functions, sequences and well-founded relations.

## Where code and documentation disagree

- **philo2 can deadlock.** `concurrency-tutorial/EXAMPLE_INDEX.md` says it
  solves deadlock by random order, the lecture's README that it should not deadlock.
  Each philosopher draws once, before its loop; if all draw the same
  value the program is philo1. Run `ph_philo2`.
- **Two clients can have one name.** `username_exists()` and `set_username()`
  lock separately; the commented copy of the server says that the check prevents
  impersonation. Run `cs_unique`.
- **A message can carry another client's name.** The pointer that
  `get_username()` returns leads into a static buffer and is kept for the session;
  the commented copy says that the result is used at once. Run `cs_own_name`.
- **A choice nobody made is carried out.** In `threadIncremental3_sigaction.c` SIGINT makes
  `scanf()` fail and the switch acts on the choice of the round before; the commented copy
  calls it harmless. Run `programs_garbage`.
- **The `select()` server stops when the first client leaves.** `remove_client()` sets
  the socket to -1 before `FD_CLR()` uses it, so that `master_fds` keeps a closed
  descriptor and the next `select()` fails with EBADF. Run `programs_fd_clr`.

Seen in the models as well, without a run of its own:

- `winter2025/lecture13/workercommented.c` says that no message is lost and that the task of a worker
  that crashes remains in the queue for another one. A task that was received is
  gone with its worker, and the distributor waits for ever: the state `"lost"` in
  `DistributorFinishes` and `LoseHeld` in `WorkPool`.
- `fall2025/lecture14/threadIncremental3_sigactioncommented.c:271` and `:282` say that after Ctrl+C no input is
  needed. Clearing `sa_flags` makes a `scanf()` fail that is already waiting. SIGINT between the test of
  `toContinue` and the read, or handled by the heartbeat thread, only clears the flag, and `main()` waits in
  `scanf()` until the player types. The window is small, as the kernel prefers the main thread for a
  signal sent to the process. `QuitEnds` makes no promise for `main()` in `scanf()` for this reason.
- `winter2025/lecture13/task_distributor.c:89` says that it receives all results; it counts five and does not look at
  `task_id`. After a run that was killed the queue still has its tasks and results. The next run takes
  these for its own and removes the queue with its own tasks unanswered. This is why
  `RunsAreComplete` leaves out the queues in `crashed`.
- `winter2025/lecture7/tagcommented.c` describes a game that goes on until both have been tagged
  five times. If the child reaches five first it leaves, and its parent tags nobody for
  ever: `"left"` in `GamesEnd`.
- In `sigusr3.c` the child falls through to the parent's loop and never ends, and
  the parent never does if two of the five signals merge.
- In `forkIncremental.c` heartbeats are lost when they interrupt a purchase, and a SIGUSR1
  that arrives before the handler is installed ends the game.
- `sharedMemprod.c` does not reset the fields: a consumer that is faster reads what an
  earlier run left.

## What is not modelled

- `sleep()`, `usleep()`, `printf()` and random work times: they delay a thread between steps
  that are interleaved anyway.
- In the chat server: `send()` that blocks because a client does not read, or that
  raises SIGPIPE because it has gone; lines that TCP splits or joins; lines longer than
  the buffers, and the 1024-byte `list` of `send_user_list()`, to which names are appended without a bound and which
  enough clients with long names overflow; failures of `malloc()`. In the queue and the barrier: failures of
  `pthread_create()`, which end those programs.
- `calloc`, `free`, mutex initialisation and destruction, other than
  that nobody uses a mutex when main destroys it (`AllAccounted`).
- The memory model: shared data of the modelled programs is accessed under
  mutexes, except for the static buffer mentioned above.
- In the idle games: the output; a `printf()` interrupted by a handler; overflow
  of `income`. In the task queue: a queue that is full (its default limit is some thirty
  messages, a run sends five) and failures of `ftok()` and `msgget()`. In the
  channel: failures of the producer's calls. In `SelectChat`: lines split or
  joined by TCP, sends that block, names longer than their buffers, and failures of
  `accept()`.
- IPC exercise 3 (one sender, one receiver, a last message that ends both), the signal
  programs with one process, and `dead1.c`, which shows on purpose what `Utensils`
  defines.
- The plain chat server, the tutorials on condition variables, the counters, the forking servers
  and the FIFO chat are variants of what is modelled, with less state; their hazards are listed.
- The components `PROJECT.json` lists as not modelled. Echo servers, fork
  exercises, editors, assembly, C basics and Rust have no shared state worth a
  specification. They are most of the repository, together with the commented copies
  of the programs: the lines the modules stand for are a small share of all.

## Plan

The order followed is importance of the concurrency: the queue and the barrier,
which other programs are variants of; the philosophers; the largest
concurrent program, the chat server; then the programs whose processes meet in the kernel:
idle games, task queue, shared memory, signals, `select()`. Every invariant and refinement that a
run checks is proved. What could come next:

1. Safety halves of the liveness properties, which the prover can reach: that a handler which leaves has
   always a step to take, as an invariant of `ChatServerPM`; that `SharedChannel` cannot have both
   processes asleep unless one is `stranded`.
2. A bound on the lost heartbeats of `forkIncremental.c`: at most those that ran between a load and its store.
3. `DeadlockNeedsSameOrder` the other way round: when philo2's draws differ, somebody always eats, which is
   liveness and would stay with TLC.
