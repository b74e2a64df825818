--------------------------- MODULE ReusableBarrier ---------------------------
(***************************************************************************)
(* The reusable barrier of                                                 *)
(*   concurrency-tutorial/exercises/solutions/03-synchronization/          *)
(*     exercise5_solution.c                                                *)
(* with the workers that go through it NUM_PHASES times and the main       *)
(* thread that creates and joins them.                                     *)
(***************************************************************************)
EXTENDS Integers, FiniteSets, Pthreads

CONSTANTS
  Workers,      \* the worker threads
  NUM_PHASES,   \* iterations of a worker's for loop
  NoThread      \* the owner of a free mutex

ASSUME RBAssumption ==
  /\ IsFiniteSet(Workers) /\ Workers # {}
  /\ NoThread \notin Workers
  /\ NUM_PHASES \in Nat \ {0}

(* barrier_init(&barrier, NUM_THREADS) *)
total_threads == Cardinality(Workers)

VARIABLES
  mutex,      \* the owner of b->mutex
  count,      \* b->count
  phase,      \* b->phase
  my_phase,   \* the local my_phase of each thread in barrier_wait()
  round,      \* the loop variable phase of each worker
  worked,     \* history: the last phase each worker reported as completed
  pc,         \* control point of each worker
  main        \* control point of main()

barrier == <<count, phase>>
vars == <<mutex, barrier, my_phase, round, worked, pc, main>>

Init ==
  /\ mutex = NoThread
  /\ count = 0
  /\ phase = 0
  /\ my_phase = [t \in Workers |-> 0]
  /\ round = [t \in Workers |-> 1]
  /\ worked = [t \in Workers |-> 0]
  /\ pc = [t \in Workers |-> "new"]
  /\ main = "create"

Goto(t, label) == pc' = [pc EXCEPT ![t] = label]

-----------------------------------------------------------------------------
(* worker() and barrier_wait() *)

CompleteWork(t) ==
  /\ pc[t] = "work"
  /\ worked' = [worked EXCEPT ![t] = round[t]]
  /\ Goto(t, "lock")
  /\ UNCHANGED <<mutex, barrier, my_phase, round, main>>

(* Fault: "if" instead of "while" around pthread_cond_wait().                *)
AcquireWithoutRetest(t) ==
  /\ pc[t] \in {"lock", "woken"}
  /\ mutex = NoThread
  /\ mutex' = t
  /\ Goto(t, IF pc[t] = "lock" THEN "arrive" ELSE "unlock")
  /\ UNCHANGED <<barrier, my_phase, round, worked, main>>

(* pthread_mutex_lock() on entry, or the return of pthread_cond_wait().      *)
Acquire(t) ==
  /\ pc[t] \in {"lock", "woken"}
  /\ mutex = NoThread
  /\ mutex' = t
  /\ Goto(t, IF pc[t] = "lock" THEN "arrive" ELSE "test")
  /\ UNCHANGED <<barrier, my_phase, round, worked, main>>

(* Fault: the last but one thread opens the barrier.                         *)
LastTooSoon == count + 2 >= total_threads

(* The thread about to be counted is the last one.                           *)
Last == count + 1 = total_threads

Arrive(t) ==
  /\ pc[t] = "arrive"
  /\ my_phase' = [my_phase EXCEPT ![t] = phase]
  /\ count' = count + 1
  /\ Goto(t, IF Last THEN "release" ELSE "test")
  /\ UNCHANGED <<mutex, phase, round, worked, main>>

(* Fault: the last thread forgets to reset count.                            *)
ReleaseWithoutReset(t) ==
  /\ pc[t] = "release"
  /\ phase' = phase + 1
  /\ pc' = Broadcast([pc EXCEPT ![t] = "unlock"], Workers)
  /\ UNCHANGED <<mutex, count, my_phase, round, worked, main>>

(* Fault: the last thread signals instead of broadcasting.                   *)
ReleaseOne(t) ==
  /\ pc[t] = "release"
  /\ count' = 0
  /\ phase' = phase + 1
  /\ pc' \in Signal([pc EXCEPT ![t] = "unlock"], Workers)
  /\ UNCHANGED <<mutex, my_phase, round, worked, main>>

Release(t) ==
  /\ pc[t] = "release"
  /\ count' = 0
  /\ phase' = phase + 1
  /\ pc' = Broadcast([pc EXCEPT ![t] = "unlock"], Workers)
  /\ UNCHANGED <<mutex, my_phase, round, worked, main>>

TestPhase(t) ==
  /\ pc[t] = "test"
  /\ Goto(t, IF phase = my_phase[t] THEN "sleep" ELSE "unlock")
  /\ UNCHANGED <<mutex, barrier, my_phase, round, worked, main>>

CondWait(t) ==
  /\ pc[t] = "sleep"
  /\ mutex' = NoThread
  /\ Goto(t, "blocked")
  /\ UNCHANGED <<barrier, my_phase, round, worked, main>>

SpuriousWakeup(t) ==
  /\ pc[t] = "blocked"
  /\ Goto(t, "woken")
  /\ UNCHANGED <<mutex, barrier, my_phase, round, worked, main>>

(* Leave barrier_wait() and go on with the loop.                             *)
Leave(t) ==
  /\ pc[t] = "unlock"
  /\ mutex' = NoThread
  /\ round' = [round EXCEPT ![t] = @ + 1]
  /\ Goto(t, IF round[t] < NUM_PHASES THEN "work" ELSE "done")
  /\ UNCHANGED <<barrier, my_phase, worked, main>>

WorkerStep(t) ==
  CompleteWork(t) \/ Arrive(t) \/ Release(t) \/ TestPhase(t) \/ CondWait(t) \/ Leave(t)

-----------------------------------------------------------------------------
(* main() *)

Create(t) ==
  /\ main = "create"
  /\ pc[t] = "new"
  /\ Goto(t, "work")
  /\ main' = IF \E u \in Workers \ {t} : pc[u] = "new" THEN "create" ELSE "join"
  /\ UNCHANGED <<mutex, barrier, my_phase, round, worked>>

(* The last join and barrier_destroy(). *)
Join ==
  /\ main = "join"
  /\ \A t \in Workers : pc[t] = "done"
  /\ main' = "exit"
  /\ UNCHANGED <<mutex, barrier, my_phase, round, worked, pc>>

MainStep == Join \/ \E t \in Workers : Create(t)

Exited == main = "exit" /\ UNCHANGED vars

-----------------------------------------------------------------------------
Next ==
  \/ \E t \in Workers : Acquire(t) \/ SpuriousWakeup(t) \/ WorkerStep(t)
  \/ MainStep
  \/ Exited

Spec == Init /\ [][Next]_vars

(* Every runnable thread is scheduled, and a thread that keeps asking for a  *)
(* mutex that keeps being released gets it.                                  *)
Fairness ==
  /\ \A t \in Workers : SF_vars(Acquire(t)) /\ WF_vars(WorkerStep(t))
  /\ WF_vars(MainStep)

FairSpec == Spec /\ Fairness

-----------------------------------------------------------------------------
(* Properties *)

Labels == {"new", "work", "lock", "arrive", "release", "test", "sleep",
           "blocked", "woken", "unlock", "done"}

(* The ranges of the barrier's fields and of the workers' locals; count      *)
(* reaches total_threads only while the last thread opens the barrier.       *)
TypeOK ==
  /\ mutex \in Workers \cup {NoThread}
  /\ count \in 0 .. total_threads
  /\ phase \in Nat
  /\ my_phase \in [Workers -> Nat]
  /\ round \in [Workers -> Nat \ {0}]
  /\ worked \in [Workers -> Nat]
  /\ pc \in [Workers -> Labels]
  /\ main \in {"create", "join", "exit"}

(* All threads finish phase n before any starts phase n + 1, in every reuse  *)
(* of the barrier, whatever woke the threads that sleep in it.               *)
PhaseSeparation ==
  \A t, u \in Workers : pc[t] \in {"work", "done"} => worked[u] >= round[t] - 1

(* The barrier opens only when every thread has completed the phase that     *)
(* ends, and has not been let past it by an earlier opening.                 *)
OpensWhenComplete ==
  [][phase' # phase => \A t \in Workers : worked[t] = phase + 1 /\ round[t] = phase + 1]_vars

(* barrier_wait() implements the abstract barrier: entering is completing    *)
(* the work of a phase, leaving is unlocking the mutex at its end.           *)
Abstract == INSTANCE AbstractBarrier WITH
  Parties <- Workers,
  entered <- worked,
  left    <- [t \in Workers |-> round[t] - 1]

ImplementsBarrier == Abstract!Spec

(* A thread that reached the barrier gets past it: none is left asleep when  *)
(* the others race ahead into the next use of the barrier.                   *)
EveryoneReleased ==
  \A t \in Workers : \A n \in 1 .. NUM_PHASES :
    (worked[t] = n /\ pc[t] = "lock") ~> (round[t] > n)

(* All threads complete all phases and main returns.                         *)
Termination == <>(main = "exit")

=============================================================================
