----------------------------- MODULE ProgramSuite -----------------------------
(***************************************************************************)
(* Five programs that have nothing to do with each other under one         *)
(* specification: the idle games, the task queue, the shared memory        *)
(* channel, the signal programs and the select() chat server.  "system"    *)
(* says which one a behaviour is about; the others stay where they start.  *)
(***************************************************************************)
EXTENDS Naturals

CONSTANTS
  Systems,                                           \* the ones considered
  Programs, Costs, MaxInputs, MaxBeats,              \* IncrementalGame
  Workers, NumTasks, TasksPerWorker, MaxRuns,        \* TaskQueue
  Channels, NumItems,                                \* SharedChannel
  Games, Limit, HitPoints, MaxDamage,                \* SignalGames
  NumConns, Names, MAX_CLIENTS, MaxLines                \* SelectChat

VARIABLES
  system,
  program, acct, mut, pc, choice, reg, pulse, toContinue, pending, killed,
  jammed, inputs, beats, interrupted, late, bought, books,
  key, queues, tasks, results, dist, run, sent, got, wpc, wq, wtask, wdone,
  collected, crashed,
  channel, named, sized, sem, cell, prod, cons, made, rounds, received,
  stranded, early,
  game, at, pend, num, fighting, won, i, hung, fate,
  srv, next, clients, master_fds, read_fds, max_fd, fd, conn, line, typed

IG == INSTANCE IncrementalGame
TQ == INSTANCE TaskQueue
SC == INSTANCE SharedChannel
SG == INSTANCE SignalGames
CR == INSTANCE SelectChat

ASSUME GamesAssumed == IG!GameAssumption
ASSUME QueueAssumed == TQ!QueueAssumption
ASSUME ChannelsAssumed == SC!ChannelAssumption
ASSUME SignalsAssumed == SG!SignalAssumption
ASSUME ChatAssumed == CR!ChatAssumption

gameVars == <<program, acct, mut, pc, choice, reg, pulse, toContinue, pending,
  killed, jammed, inputs, beats, interrupted, late, bought, books>>
queueVars == <<key, queues, tasks, results, dist, run, sent, got, wpc, wq,
  wtask, wdone, collected, crashed>>
channelVars == <<channel, named, sized, sem, cell, prod, cons, made, rounds,
  received, stranded, early>>
signalVars == <<game, at, pend, num, fighting, won, i, hung, fate>>
chatVars == <<srv, next, clients, master_fds, read_fds, max_fd, fd, conn, line,
  typed>>
vars == <<system, gameVars, queueVars, channelVars, signalVars, chatVars>>

(* A program that does not run has one initial state.                        *)
Init ==
  /\ system \in Systems
  /\ IG!Init /\ (system # "game" => program = "thread")
  /\ TQ!Init
  /\ SC!Init /\ (system # "channel" => channel = "exercise4" /\ ~named)
  /\ SG!Init /\ (system # "signals" => game = "tag")
  /\ CR!Init

Next ==
  \/ /\ system = "game" /\ IG!Next
     /\ UNCHANGED <<system, queueVars, channelVars, signalVars, chatVars>>
  \/ /\ system = "queue" /\ TQ!Next
     /\ UNCHANGED <<system, gameVars, channelVars, signalVars, chatVars>>
  \/ /\ system = "channel" /\ SC!Next
     /\ UNCHANGED <<system, gameVars, queueVars, signalVars, chatVars>>
  \/ /\ system = "signals" /\ SG!Next
     /\ UNCHANGED <<system, gameVars, queueVars, channelVars, chatVars>>
  \/ /\ system = "chat" /\ CR!Next
     /\ UNCHANGED <<system, gameVars, queueVars, channelVars, signalVars>>

Spec == Init /\ [][Next]_vars

(* Each program is scheduled as its own module says.                         *)
FairSpec ==
  /\ Spec
  /\ WF_gameVars(system = "game" /\ IG!MainStep)
  /\ WF_gameVars(system = "game" /\ IG!PulseStep)
  /\ WF_queueVars(system = "queue" /\ TQ!DistributorStep)
  /\ \A w \in Workers : WF_queueVars(system = "queue" /\ TQ!WorkerStep(w))
  /\ WF_channelVars(system = "channel" /\ SC!Producer)
  /\ WF_channelVars(system = "channel" /\ SC!Consumer)
  /\ \A p \in SG!Procs : /\ WF_signalVars(system = "signals" /\ SG!Step(p))
                         /\ WF_signalVars(system = "signals" /\ SG!Deliver(p))
                         /\ SF_signalVars(system = "signals" /\ SG!Wake(p))
  /\ WF_signalVars(system = "signals" /\ SG!Wait)
  /\ WF_chatVars(system = "chat" /\ CR!ServerStep)

-----------------------------------------------------------------------------
(* Properties *)

(* Each variable of each program has its type.                               *)
TypeOK ==
  /\ system \in Systems
  /\ IG!TypeOK /\ TQ!TypeOK /\ SC!TypeOK /\ SG!TypeOK /\ CR!TypeOK

(* forkIncremental.c and threadIncremental*.c: no race loses a purchase or   *)
(* lets the player pay more than there is; only heartbeats can be lost.      *)
OnlyHeartbeatsAreLost == IG!OnlyHeartbeatsAreLost

(* threadIncremental2.c and threadIncremental3.c: after SIGINT the player    *)
(* has one more choice, not two.                                             *)
OneLastPurchase == IG!OneLastPurchase

(* The same programs: a game told to end does, with one answer of the player *)
(* at most.                                                                  *)
QuitEnds == IG!QuitEnds

(* threadIncremental*.c: ticks, purchases and heartbeats are atomic.         *)
ImplementsAccount == IG!ImplementsAccount

(* task_distributor.c: on a queue no distributor was killed on, the results  *)
(* it collects are those of its own tasks, and no worker of that queue holds *)
(* a task when it is removed.                                                *)
RunsAreComplete == TQ!RunsAreComplete

(* task_distributor.c waits for ever only for a worker that was lost or when *)
(* none is left.                                                             *)
DistributorFinishes == TQ!DistributorFinishes

(* task_distributor.c, worker.c: each task is handed out, answered and       *)
(* collected at most once, in the order they were sent.                      *)
ImplementsWorkPool == TQ!ImplementsWorkPool

(* exercise4_*_solution.c, sharedMem*.c: no half item, none out of order.    *)
ItemsIntact == SC!ItemsIntact

(* The same programs: both processes leave their loops.                      *)
BothEnd == <>(system = "channel" => SC!Finished)

(* signalFight.c: there are never two winners.                               *)
WinnerHasBeaten == SG!WinnerHasBeaten

(* sigusr3.c, tag.c, signalFight.c end unless a signal went missing.         *)
GamesEnd == <>(system = "signals" => SG!Over)

(* socket_exercise5_solution.c: clients[] and the descriptors select() looks *)
(* at follow the connections that are open.                                  *)
ClientsAreOpen == CR!ClientsAreOpen

(* The same server reads what its clients send and notices who leaves.       *)
EveryLineIsRead == CR!EveryLineIsRead

(* "Choice contains garbage, but doesn't matter":                            *)
(* threadIncremental3_sigactioncommented.c:141.                              *)
GarbageIsHarmless == IG!GarbageIsHarmless

(* "If client was removed, update fd_set":                                   *)
(* socket_exercise5_solution.c:307.                                          *)
WatchedAreOpen == CR!WatchedAreOpen

=============================================================================
