------------------------------ MODULE TaskQueue ------------------------------
(***************************************************************************)
(* The task distribution system of winter2025/lecture13:                   *)
(* task_distributor.c and any number of worker.c processes, started at any *)
(* time, over one System V message queue.  A task is named by the run of   *)
(* the distributor that sent it and its task_id; the message carries only  *)
(* the second.  The two message types of the queue are two sequences.      *)
(*                                                                         *)
(* Any of the processes may be killed (README.md suggests "pkill worker"   *)
(* and Ctrl+C), and the distributor may be run again.                      *)
(***************************************************************************)
EXTENDS Naturals, Sequences, FiniteSets, SequencesExt

CONSTANTS
  Workers,          \* the worker processes
  NumTasks,         \* tasks per run of the distributor, 5
  TasksPerWorker,   \* tasks a worker does before it ends, 2
  MaxRuns           \* bound: runs of the distributor

QueueAssumption ==
  /\ IsFiniteSet(Workers)
  /\ 0 \notin Workers
  /\ {NumTasks, TasksPerWorker, MaxRuns} \subseteq Nat \ {0}

VARIABLES
  key,          \* the queue the key names, 0 if none
  queues,       \* queues created so far
  tasks,        \* messages of type TASK_MSG on queue key
  results,      \* messages of type RESULT_MSG on it
  dist,         \* control point of the distributor
  run,          \* the distributor's run
  sent,         \* tasks sent, for each run
  got,          \* the results it has received
  wpc,          \* control point of each worker
  wq,           \* the queue a worker has got from msgget()
  wtask,        \* the tasks it has received, the last one being worked on
  wdone,        \* results it has sent
  collected,    \* history: all tasks whose result some run received
  crashed       \* history: the queues on which a distributor was killed

queueVars == <<key, queues, tasks, results>>
distVars == <<dist, run, sent, got, collected, crashed>>
workerVars == <<wpc, wq, wtask, wdone>>
vars == <<queueVars, distVars, workerVars>>

Tasks == (1 .. MaxRuns) \X (1 .. NumTasks)

Init ==
  /\ key = 0 /\ queues = 0
  /\ tasks = <<>> /\ results = <<>>
  /\ dist = "none" /\ run = 0 /\ sent = [r \in 1 .. MaxRuns |-> 0]
  /\ got = <<>>
  /\ wpc = [w \in Workers |-> "none"]
  /\ wq = [w \in Workers |-> 0]
  /\ wtask = [w \in Workers |-> <<>>]
  /\ wdone = [w \in Workers |-> 0]
  /\ collected = {}
  /\ crashed = {}

(* msgget(key, IPC_CREAT): the queue of that key, or a new empty one.        *)
msgget ==
  /\ key' = IF key = 0 THEN queues + 1 ELSE key
  /\ queues' = IF key = 0 THEN queues + 1 ELSE queues
  /\ UNCHANGED <<tasks, results>>

-----------------------------------------------------------------------------
(* task_distributor.c *)

Start ==
  /\ dist \in {"none", "done", "killed"}
  /\ run < MaxRuns
  /\ msgget
  /\ dist' = "send"
  /\ run' = run + 1
  /\ got' = <<>>
  /\ UNCHANGED <<sent, collected, crashed, workerVars>>

Send ==
  /\ dist = "send"
  /\ sent' = [sent EXCEPT ![run] = @ + 1]
  /\ tasks' = Append(tasks, <<run, sent'[run]>>)
  /\ dist' = IF sent'[run] = NumTasks THEN "collect" ELSE "send"
  /\ UNCHANGED <<key, queues, results, run, got, collected, crashed,
                 workerVars>>

(* Fault: the queue is removed one result early.                             *)
CollectTooFew ==
  /\ dist = "collect"
  /\ results # <<>>
  /\ got' = Append(got, Head(results))
  /\ results' = Tail(results)
  /\ collected' = collected \cup {Head(results)}
  /\ dist' = IF Len(got') >= NumTasks - 1 THEN "remove" ELSE "collect"
  /\ UNCHANGED <<key, queues, tasks, run, sent, crashed, workerVars>>

Collect ==
  /\ dist = "collect"
  /\ results # <<>>
  /\ got' = Append(got, Head(results))
  /\ results' = Tail(results)
  /\ collected' = collected \cup {Head(results)}
  /\ dist' = IF Len(got') = NumTasks THEN "remove" ELSE "collect"
  /\ UNCHANGED <<key, queues, tasks, run, sent, crashed, workerVars>>

(* msgctl(IPC_RMID): the messages go, and with them the waits on the queue.  *)
RemoveQueue ==
  /\ dist = "remove"
  /\ key' = 0
  /\ tasks' = <<>> /\ results' = <<>>
  /\ dist' = "done"
  /\ UNCHANGED <<queues, run, sent, got, collected, crashed, workerVars>>

KillDistributor ==
  /\ dist \in {"send", "collect", "remove"}
  /\ dist' = "killed"
  /\ crashed' = crashed \cup {key}
  /\ UNCHANGED <<queueVars, run, sent, got, collected, workerVars>>

DistributorStep == Send \/ Collect \/ RemoveQueue

-----------------------------------------------------------------------------
(* worker.c *)

GotoWorker(w, label) == wpc' = [wpc EXCEPT ![w] = label]

Launch(w) ==
  /\ wpc[w] = "none"
  /\ msgget
  /\ wq' = [wq EXCEPT ![w] = key']
  /\ GotoWorker(w, "recv")
  /\ UNCHANGED <<distVars, wtask, wdone>>

(* Fault: the task is looked at and left in the queue until it is answered.  *)
Peek(w) ==
  /\ wpc[w] = "recv" /\ wq[w] = key
  /\ tasks # <<>>
  /\ wtask' = [wtask EXCEPT ![w] = Append(@, Head(tasks))]
  /\ GotoWorker(w, "work")
  /\ UNCHANGED <<queueVars, distVars, wq, wdone>>

Take(w) ==
  /\ wpc[w] = "recv" /\ wq[w] = key
  /\ tasks # <<>>
  /\ wtask' = [wtask EXCEPT ![w] = Append(@, Head(tasks))]
  /\ tasks' = Tail(tasks)
  /\ GotoWorker(w, "work")
  /\ UNCHANGED <<key, queues, results, distVars, wq, wdone>>

(* Fault: the worker stops after its last task without sending the result.   *)
ReplyUnlessLast(w) ==
  /\ wpc[w] = "work" /\ wq[w] = key
  /\ wdone' = [wdone EXCEPT ![w] = @ + 1]
  /\ results' = IF wdone'[w] = TasksPerWorker THEN results
                ELSE Append(results, Last(wtask[w]))
  /\ GotoWorker(w, IF wdone'[w] = TasksPerWorker THEN "done" ELSE "recv")
  /\ UNCHANGED <<key, queues, tasks, distVars, wq, wtask>>

(* Fault: the result goes to the queue the key names when the task is done.  *)
ReplyToKey(w) ==
  /\ wpc[w] = "work" /\ key # 0
  /\ wdone' = [wdone EXCEPT ![w] = @ + 1]
  /\ results' = Append(results, Last(wtask[w]))
  /\ GotoWorker(w, IF wdone'[w] = TasksPerWorker THEN "done" ELSE "recv")
  /\ UNCHANGED <<key, queues, tasks, distVars, wq, wtask>>

(* do_work() and the result.                                                 *)
Reply(w) ==
  /\ wpc[w] = "work" /\ wq[w] = key
  /\ wdone' = [wdone EXCEPT ![w] = @ + 1]
  /\ results' = Append(results, Last(wtask[w]))
  /\ GotoWorker(w, IF wdone'[w] = TasksPerWorker THEN "done" ELSE "recv")
  /\ UNCHANGED <<key, queues, tasks, distVars, wq, wtask>>

(* msgrcv() or msgsnd() fails because the queue has been removed.            *)
QueueGone(w) ==
  /\ wpc[w] \in {"recv", "work"} /\ wq[w] # key
  /\ GotoWorker(w, IF wpc[w] = "work" THEN "lost" ELSE "failed")
  /\ UNCHANGED <<queueVars, distVars, wq, wtask, wdone>>

KillWorker(w) ==
  /\ wpc[w] \in {"recv", "work"}
  /\ GotoWorker(w, IF wpc[w] = "work" THEN "lost" ELSE "failed")
  /\ UNCHANGED <<queueVars, distVars, wq, wtask, wdone>>

WorkerStep(w) == Launch(w) \/ Take(w) \/ Reply(w) \/ QueueGone(w)

(* Nobody starts another process and those that are left only wait.          *)
Quiet ==
  /\ run = MaxRuns
  /\ \/ dist \in {"done", "killed"}
     \/ dist = "collect" /\ results = <<>>
  /\ \A w \in Workers :
       \/ wpc[w] \in {"done", "failed", "lost"}
       \/ wpc[w] = "recv" /\ wq[w] = key /\ tasks = <<>>
  /\ UNCHANGED vars

Next ==
  \/ Start \/ DistributorStep \/ KillDistributor
  \/ \E w \in Workers : WorkerStep(w) \/ KillWorker(w)
  \/ Quiet

Spec == Init /\ [][Next]_vars

(* The processes run, and all the workers are started at some time.          *)
FairSpec ==
  /\ Spec
  /\ WF_vars(DistributorStep)
  /\ \A w \in Workers : WF_vars(WorkerStep(w))

-----------------------------------------------------------------------------
(* Properties *)

TypeOK ==
  /\ key \in 0 .. queues /\ queues \in Nat
  /\ tasks \in Seq(Tasks) /\ results \in Seq(Tasks)
  /\ dist \in {"none", "send", "collect", "remove", "done", "killed"}
  /\ run \in 0 .. MaxRuns /\ sent \in [1 .. MaxRuns -> 0 .. NumTasks]
  /\ got \in Seq(Tasks) /\ Len(got) <= NumTasks
  /\ wpc \in [Workers -> {"none", "recv", "work", "done", "failed", "lost"}]
  /\ wq \in [Workers -> 0 .. queues]
  /\ wtask \in [Workers -> Seq(Tasks)]
  /\ wdone \in [Workers -> 0 .. TasksPerWorker]
  /\ collected \subseteq Tasks /\ crashed \subseteq 1 .. queues

(* On a queue no distributor was killed on, one that has all its results has *)
(* exactly those of its own tasks, although it does not compare task_id, and *)
(* it removes the queue when no worker of that queue has a task left.  What  *)
(* earlier queues and their workers went through does not matter.            *)
RunsAreComplete ==
  dist = "remove" /\ key \notin crashed =>
    /\ ToSet(got) = {run} \X (1 .. NumTasks)
    /\ \A w \in Workers : wpc[w] = "work" => wq[w] # key

(* The distributor waits for ever only when a worker ended with a task in    *)
(* its hands or all the workers have ended.                                  *)
DistributorFinishes ==
  dist \in {"send", "collect"} ~>
    \/ dist \in {"done", "killed"}
    \/ \E w \in Workers : wpc[w] = "lost"
    \/ \A w \in Workers : wpc[w] \in {"done", "failed"}

(* Where each task is, for the abstract pool.                                *)
Gone(t) == \E w \in Workers : t \in ToSet(wtask[w])
Held(w) == wpc[w] = "work" /\ wtask[w] # <<>>

Place(t) ==
  IF t \in collected THEN "collected"
  ELSE IF t \in ToSet(tasks) THEN "queued"
  ELSE IF t \in ToSet(results) THEN "answered"
  ELSE IF \E w \in Workers : Held(w) /\ Last(wtask[w]) = t THEN "held"
  ELSE IF t[2] <= sent[t[1]] THEN "lost" ELSE "new"

Receiver(t) ==
  IF Gone(t) THEN CHOOSE w \in Workers : t \in ToSet(wtask[w]) ELSE 0

Pool == INSTANCE WorkPool
  WITH place <- [t \in Tasks |-> Place(t)],
       worker <- [t \in Tasks |-> Receiver(t)]

(* Queue, distributor and workers together treat each task as the pool does. *)
ImplementsWorkPool == Pool!Spec

=============================================================================
