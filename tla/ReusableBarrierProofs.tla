------------------------ MODULE ReusableBarrierProofs ------------------------
(***************************************************************************)
(* Proofs about ReusableBarrier, for every number of workers and phases:   *)
(* no worker starts a phase before all have finished the one before, the   *)
(* barrier opens only when all have arrived, and barrier_wait() implements *)
(* the abstract barrier.                                                   *)
(***************************************************************************)
EXTENDS ReusableBarrier, FiniteSetTheorems, TLAPS

-----------------------------------------------------------------------------
(* The inductive invariant *)

(* The control points at which a worker holds the mutex. *)
Holding == {"arrive", "release", "test", "sleep", "unlock"}

MutexInv == \A t \in Workers : pc[t] \in Holding <=> mutex = t

Outside == {"new", "work", "lock", "arrive"}
Waiting == {"test", "sleep", "blocked", "woken"}

(* The workers counted in the phase that is not over yet. *)
Arrived == {t \in Workers : pc[t] \in Waiting \cup {"release"} /\ my_phase[t] = phase}

(* Where each worker stands relative to the barrier's phase counter: outside *)
(* in the current phase, waiting for it to end, or about to leave the one    *)
(* that ended.                                                               *)
Position(t) ==
  /\ pc[t] \in Outside => round[t] = phase + 1
  /\ pc[t] \in Waiting =>
       \/ my_phase[t] = phase /\ round[t] = phase + 1
       \/ my_phase[t] = phase - 1 /\ round[t] = phase
  /\ pc[t] = "release" => my_phase[t] = phase /\ round[t] = phase + 1 /\ Arrived = Workers
  /\ pc[t] = "unlock" => round[t] = phase
  /\ pc[t] = "done" => round[t] = phase + 1

(* What a worker reported as completed, from where it stands. *)
Report(t) == worked[t] = IF pc[t] \in {"new", "work", "done"} THEN round[t] - 1 ELSE round[t]

CountInv == count = Cardinality(Arrived)

IInv ==
  /\ TypeOK
  /\ MutexInv
  /\ CountInv
  /\ \A t \in Workers : Position(t) /\ Report(t)

-----------------------------------------------------------------------------
LEMMA WorkerFacts ==
  /\ NoThread \notin Workers
  /\ total_threads \in Nat /\ total_threads > 0
  /\ NUM_PHASES \in Nat
<1>1. total_threads \in Nat
  BY RBAssumption, FS_CardinalityType DEF total_threads
<1>2. total_threads # 0
  BY RBAssumption, FS_EmptySet DEF total_threads
<1> QED  BY <1>1, <1>2, RBAssumption

(* A broadcast only moves blocked workers to "woken". *)
LEMMA BroadcastEffect ==
  ASSUME NEW f \in [Workers -> Labels]
  PROVE  /\ Broadcast(f, Workers) \in [Workers -> Labels]
         /\ \A t \in Workers : Broadcast(f, Workers)[t] =
               IF f[t] = "blocked" THEN "woken" ELSE f[t]
BY DEF Broadcast, Sleepers, Labels

(* Steps that keep the phase and move no worker in or out of the waiting     *)
(* labels, or with another my_phase, keep the set of arrived workers.        *)
LEMMA SameArrived ==
  ASSUME \A u \in Workers :
           (pc'[u] \in Waiting \cup {"release"} /\ my_phase'[u] = phase')
             <=> (pc[u] \in Waiting \cup {"release"} /\ my_phase[u] = phase)
  PROVE  Arrived' = Arrived
BY DEF Arrived

LEMMA InvInit == Init => IInv
<1> SUFFICES ASSUME Init PROVE IInv
  OBVIOUS
<1>1. TypeOK
  BY WorkerFacts DEF Init, TypeOK, Labels
<1>2. MutexInv
  BY WorkerFacts DEF Init, MutexInv, Holding
<1>3. Arrived = {}
  BY DEF Init, Arrived, Waiting
<1>4. CountInv
  BY <1>3, FS_EmptySet DEF Init, CountInv
<1>5. \A t \in Workers : Position(t) /\ Report(t)
  BY DEF Init, Position, Report, Waiting, Outside
<1> QED  BY <1>1, <1>2, <1>4, <1>5 DEF IInv

(* A worker's arrival adds it to the arrived workers; the one that brings    *)
(* the count to total_threads is the last.                                   *)
LEMMA ArriveStep ==
  ASSUME IInv, NEW t \in Workers, Arrive(t)
  PROVE  IInv'
<1>1. /\ TypeOK /\ MutexInv /\ CountInv /\ Position(t) /\ Report(t)
      /\ \A u \in Workers : Position(u) /\ Report(u)
  BY DEF IInv
<1>2. /\ pc[t] = "arrive" /\ mutex = t /\ round[t] = phase + 1
      /\ mutex' = mutex /\ phase' = phase /\ round' = round /\ worked' = worked
      /\ main' = main /\ count' = count + 1
      /\ my_phase' = [my_phase EXCEPT ![t] = phase]
      /\ pc' = [pc EXCEPT ![t] = IF Last THEN "release" ELSE "test"]
  BY <1>1 DEF Arrive, MutexInv, Holding, Position, Outside, Goto
<1>3. t \notin Arrived /\ Arrived \subseteq Workers /\ IsFiniteSet(Arrived)
  <2>1. t \notin Arrived /\ Arrived \subseteq Workers
    BY <1>2 DEF Arrived, Waiting
  <2> QED  BY <2>1, RBAssumption, FS_Subset
<1>4. Arrived' = Arrived \cup {t}
  BY <1>1, <1>2 DEF Arrived, Waiting, TypeOK
<1>5. CountInv'
  BY <1>1, <1>2, <1>3, <1>4, FS_AddElement DEF CountInv
<1>6. Arrived' \subseteq Workers /\ count' = Cardinality(Arrived')
  BY <1>3, <1>4, <1>5 DEF CountInv
<1>7. count' <= total_threads /\ (count' = total_threads => Arrived' = Workers)
  BY <1>6, RBAssumption, FS_Subset DEF total_threads
<1>8. TypeOK'
  <2>1. count' \in 0 .. total_threads
    BY <1>1, <1>2, <1>7, WorkerFacts DEF TypeOK
  <2>2. pc' \in [Workers -> Labels] /\ my_phase' \in [Workers -> Nat]
    BY <1>1, <1>2 DEF TypeOK, Labels
  <2> QED  BY <1>1, <1>2, <2>1, <2>2 DEF TypeOK
<1>9. MutexInv'
  BY <1>1, <1>2, WorkerFacts DEF MutexInv, TypeOK, Holding
<1>10. \A u \in Workers : pc[u] # "release"
  BY <1>1, <1>2 DEF MutexInv, Holding
<1>11. Position(t)'
  BY <1>1, <1>2, <1>7 DEF Position, TypeOK, Last, Outside, Waiting
<1>12. \A u \in Workers : u # t => Position(u)'
  BY <1>1, <1>2, <1>10 DEF Position, TypeOK, Outside, Waiting
<1>13. \A u \in Workers : Report(u)'
  BY <1>1, <1>2 DEF Report, TypeOK
<1> QED  BY <1>5, <1>8, <1>9, <1>11, <1>12, <1>13 DEF IInv

(* Opening the barrier: every worker was waiting for this phase, so all are  *)
(* now let through, and nobody has arrived in the next one.                  *)
LEMMA ReleaseStep ==
  ASSUME IInv, NEW t \in Workers, Release(t)
  PROVE  IInv'
<1>1. /\ TypeOK /\ MutexInv /\ CountInv
      /\ \A u \in Workers : Position(u) /\ Report(u)
  BY DEF IInv
<1>2. Arrived = Workers /\ pc[t] = "release" /\ round[t] = phase + 1 /\ mutex = t
  BY <1>1 DEF Release, Position, MutexInv, Holding
<1>3. /\ mutex' = mutex /\ round' = round /\ worked' = worked /\ my_phase' = my_phase
      /\ main' = main /\ count' = 0 /\ phase' = phase + 1 /\ phase \in Nat
  BY <1>1 DEF Release, TypeOK
<1>4. \A u \in Workers : u # t => pc[u] \in Waiting /\ my_phase[u] = phase /\ round[u] = phase + 1
  <2>1. \A u \in Workers : u # t => pc[u] # "release"
    BY <1>1, <1>2 DEF MutexInv, Holding
  <2>2. \A u \in Workers : u # t => pc[u] \in Waiting /\ my_phase[u] = phase
    BY <1>2, <2>1 DEF Arrived
  <2> QED  BY <1>1, <1>3, <2>2 DEF Position
<1>5. /\ pc' \in [Workers -> Labels] /\ pc'[t] = "unlock"
      /\ \A u \in Workers : u # t => pc'[u] = IF pc[u] = "blocked" THEN "woken" ELSE pc[u]
  <2> DEFINE f == [pc EXCEPT ![t] = "unlock"]
  <2>1. f \in [Workers -> Labels]
    BY <1>1 DEF TypeOK, Labels
  <2>2. pc' = Broadcast(f, Workers)
    BY DEF Release
  <2>3. \A u \in Workers : f[u] = IF u = t THEN "unlock" ELSE pc[u]
    BY <1>1 DEF TypeOK
  <2> HIDE DEF f
  <2> QED  BY <2>1, <2>2, <2>3, BroadcastEffect
<1>6. \A u \in Workers : u # t => pc'[u] \in Waiting
  BY <1>4, <1>5 DEF Waiting
<1>7. Arrived' = {}
  BY <1>3, <1>4, <1>5 DEF Arrived, Waiting
<1>8. CountInv'
  BY <1>3, <1>7, FS_EmptySet DEF CountInv
<1>9. TypeOK'
  BY <1>1, <1>3, <1>5, WorkerFacts DEF TypeOK
<1>10. MutexInv'
  BY <1>1, <1>2, <1>3, <1>5 DEF MutexInv, Holding
<1>11. \A u \in Workers : Position(u)'
  BY <1>2, <1>3, <1>4, <1>5, <1>6 DEF Position, Outside, Waiting
<1>12. \A u \in Workers : Report(u)'
  BY <1>1, <1>2, <1>3, <1>4, <1>5, <1>6 DEF Report, Waiting
<1> QED  BY <1>8, <1>9, <1>10, <1>11, <1>12 DEF IInv

LEMMA InvStep == IInv /\ [Next]_vars => IInv'
<1> SUFFICES ASSUME IInv, [Next]_vars PROVE IInv'
  OBVIOUS
<1> USE WorkerFacts DEF IInv
<1>1. ASSUME NEW t \in Workers, CompleteWork(t) PROVE IInv'
  <2>1. TypeOK'
    BY <1>1 DEF CompleteWork, TypeOK, Labels, Goto, barrier
  <2>2. MutexInv'
    BY <1>1 DEF CompleteWork, TypeOK, MutexInv, Holding, Goto
  <2>3. Arrived' = Arrived
    BY <1>1, SameArrived DEF CompleteWork, TypeOK, Goto, Waiting, barrier
  <2>4. \A u \in Workers : Position(u)'
    BY <1>1, <2>3 DEF CompleteWork, TypeOK, Position, Outside, Waiting, Goto, barrier
  <2>5. \A u \in Workers : Report(u)'
    BY <1>1 DEF CompleteWork, TypeOK, Report, Goto, barrier
  <2>6. CountInv'
    BY <1>1, <2>3 DEF CompleteWork, CountInv, barrier
  <2> QED  BY <2>1, <2>2, <2>4, <2>5, <2>6
<1>2. ASSUME NEW t \in Workers, Acquire(t) PROVE IInv'
  <2>1. TypeOK'
    BY <1>2 DEF Acquire, TypeOK, Labels, Goto, barrier
  <2>2. MutexInv'
    BY <1>2 DEF Acquire, TypeOK, MutexInv, Holding, Goto
  <2>3. Arrived' = Arrived
    BY <1>2, SameArrived DEF Acquire, TypeOK, Goto, Waiting, barrier
  <2>4. \A u \in Workers : Position(u)'
    BY <1>2, <2>3 DEF Acquire, TypeOK, Position, Outside, Waiting, Goto, barrier
  <2>5. \A u \in Workers : Report(u)'
    BY <1>2 DEF Acquire, TypeOK, Report, Goto, barrier
  <2>6. CountInv'
    BY <1>2, <2>3 DEF Acquire, CountInv, barrier
  <2> QED  BY <2>1, <2>2, <2>4, <2>5, <2>6
<1>3. ASSUME NEW t \in Workers, TestPhase(t) PROVE IInv'
  <2>1. TypeOK'
    BY <1>3 DEF TestPhase, TypeOK, Labels, Goto, barrier
  <2>2. MutexInv'
    BY <1>3 DEF TestPhase, TypeOK, MutexInv, Holding, Goto
  <2>3. Arrived' = Arrived
    BY <1>3, SameArrived DEF TestPhase, TypeOK, Goto, Waiting, barrier
  <2>4. \A u \in Workers : Position(u)'
    BY <1>3, <2>3 DEF TestPhase, TypeOK, Position, Outside, Waiting, Goto, barrier
  <2>5. \A u \in Workers : Report(u)'
    BY <1>3 DEF TestPhase, TypeOK, Report, Goto, barrier
  <2>6. CountInv'
    BY <1>3, <2>3 DEF TestPhase, CountInv, barrier
  <2> QED  BY <2>1, <2>2, <2>4, <2>5, <2>6
<1>4. ASSUME NEW t \in Workers, CondWait(t) PROVE IInv'
  <2>1. TypeOK'
    BY <1>4 DEF CondWait, TypeOK, Labels, Goto, barrier
  <2>2. MutexInv'
    BY <1>4 DEF CondWait, TypeOK, MutexInv, Holding, Goto
  <2>3. Arrived' = Arrived
    BY <1>4, SameArrived DEF CondWait, TypeOK, Goto, Waiting, barrier
  <2>4. \A u \in Workers : Position(u)'
    BY <1>4, <2>3 DEF CondWait, TypeOK, Position, Outside, Waiting, Goto, barrier
  <2>5. \A u \in Workers : Report(u)'
    BY <1>4 DEF CondWait, TypeOK, Report, Goto, barrier
  <2>6. CountInv'
    BY <1>4, <2>3 DEF CondWait, CountInv, barrier
  <2> QED  BY <2>1, <2>2, <2>4, <2>5, <2>6
<1>5. ASSUME NEW t \in Workers, SpuriousWakeup(t) PROVE IInv'
  <2>1. TypeOK'
    BY <1>5 DEF SpuriousWakeup, TypeOK, Labels, Goto, barrier
  <2>2. MutexInv'
    BY <1>5 DEF SpuriousWakeup, TypeOK, MutexInv, Holding, Goto
  <2>3. Arrived' = Arrived
    BY <1>5, SameArrived DEF SpuriousWakeup, TypeOK, Goto, Waiting, barrier
  <2>4. \A u \in Workers : Position(u)'
    BY <1>5, <2>3 DEF SpuriousWakeup, TypeOK, Position, Outside, Waiting, Goto, barrier
  <2>5. \A u \in Workers : Report(u)'
    BY <1>5 DEF SpuriousWakeup, TypeOK, Report, Goto, barrier
  <2>6. CountInv'
    BY <1>5, <2>3 DEF SpuriousWakeup, CountInv, barrier
  <2> QED  BY <2>1, <2>2, <2>4, <2>5, <2>6
<1>6. ASSUME NEW t \in Workers, Leave(t) PROVE IInv'
  <2>1. TypeOK'
    BY <1>6 DEF Leave, TypeOK, Labels, Goto, barrier
  <2>2. MutexInv'
    BY <1>6 DEF Leave, TypeOK, MutexInv, Holding, Goto
  <2>3. Arrived' = Arrived
    BY <1>6, SameArrived DEF Leave, TypeOK, Goto, Waiting, barrier
  <2>4. \A u \in Workers : Position(u)'
    BY <1>6, <2>3 DEF Leave, TypeOK, Position, Outside, Waiting, Goto, barrier
  <2>5. \A u \in Workers : Report(u)'
    BY <1>6 DEF Leave, TypeOK, Report, Goto, barrier
  <2>6. CountInv'
    BY <1>6, <2>3 DEF Leave, CountInv, barrier
  <2> QED  BY <2>1, <2>2, <2>4, <2>5, <2>6
<1>7. ASSUME NEW t \in Workers, Create(t) PROVE IInv'
  <2>1. TypeOK'
    BY <1>7 DEF Create, TypeOK, Labels, Goto, barrier
  <2>2. MutexInv'
    BY <1>7 DEF Create, TypeOK, MutexInv, Holding, Goto
  <2>3. Arrived' = Arrived
    BY <1>7, SameArrived DEF Create, TypeOK, Goto, Waiting, barrier
  <2>4. \A u \in Workers : Position(u)'
    BY <1>7, <2>3 DEF Create, TypeOK, Position, Outside, Waiting, Goto, barrier
  <2>5. \A u \in Workers : Report(u)'
    BY <1>7 DEF Create, TypeOK, Report, Goto, barrier
  <2>6. CountInv'
    BY <1>7, <2>3 DEF Create, CountInv, barrier
  <2> QED  BY <2>1, <2>2, <2>4, <2>5, <2>6
<1>8. ASSUME NEW t \in Workers, Arrive(t) PROVE IInv'
  BY <1>8, ArriveStep
<1>9. ASSUME NEW t \in Workers, Release(t) PROVE IInv'
  BY <1>9, ReleaseStep
<1>10. CASE Join
  <2>1. TypeOK'
    BY <1>10 DEF Join, TypeOK, Labels, Goto, barrier
  <2>2. MutexInv'
    BY <1>10 DEF Join, TypeOK, MutexInv, Holding, Goto
  <2>3. Arrived' = Arrived
    BY <1>10, SameArrived DEF Join, TypeOK, Goto, Waiting, barrier
  <2>4. \A u \in Workers : Position(u)'
    BY <1>10, <2>3 DEF Join, TypeOK, Position, Outside, Waiting, Goto, barrier
  <2>5. \A u \in Workers : Report(u)'
    BY <1>10 DEF Join, TypeOK, Report, Goto, barrier
  <2>6. CountInv'
    BY <1>10, <2>3 DEF Join, CountInv, barrier
  <2> QED  BY <2>1, <2>2, <2>4, <2>5, <2>6
<1>11. CASE UNCHANGED vars
  <2>1. Arrived' = Arrived
    BY <1>11 DEF vars, barrier, Arrived
  <2> QED
    BY <1>11, <2>1 DEF vars, barrier, TypeOK, MutexInv, CountInv, Position, Report
<1> QED
  BY <1>1, <1>2, <1>3, <1>4, <1>5, <1>6, <1>7, <1>8, <1>9, <1>10, <1>11
  DEF Next, WorkerStep, MainStep, Exited

LEMMA Invariance == Spec => []IInv
BY InvInit, InvStep, PTL DEF Spec

-----------------------------------------------------------------------------
(* The fields of the barrier and the workers' locals keep their types; count *)
(* never exceeds total_threads.                                              *)
THEOREM TypeCorrect == Spec => []TypeOK
<1>1. IInv => TypeOK
  BY DEF IInv
<1> QED  BY <1>1, Invariance, PTL

(* Every worker has completed at least the phases before the current one.    *)
LEMMA AllWorked ==
  ASSUME IInv, NEW u \in Workers
  PROVE  worked[u] >= phase
<1>1. /\ Position(u) /\ Report(u) /\ TypeOK
  BY DEF IInv
<1> QED  BY <1>1 DEF Position, Report, TypeOK, Labels, Outside, Waiting

(* No worker starts a phase before all have finished the one before.         *)
THEOREM SeparationCorrect == Spec => []PhaseSeparation
<1>1. ASSUME IInv PROVE PhaseSeparation
  <2> SUFFICES ASSUME NEW t \in Workers, NEW u \in Workers, pc[t] \in {"work", "done"}
               PROVE  worked[u] >= round[t] - 1
    BY DEF PhaseSeparation
  <2>1. round[t] = phase + 1 /\ phase \in Nat /\ worked[u] \in Nat
    BY <1>1 DEF IInv, Position, Outside, TypeOK
  <2>2. worked[u] >= phase
    BY <1>1, AllWorked
  <2> QED  BY <2>1, <2>2
<1> QED  BY <1>1, Invariance, PTL

(* The barrier opens only when every worker has completed the phase and none *)
(* has been let through yet.                                                 *)
THEOREM OpeningCorrect == Spec => OpensWhenComplete
<1> DEFINE A == phase' # phase => \A t \in Workers : worked[t] = phase + 1 /\ round[t] = phase + 1
<1>1. ASSUME IInv, [Next]_vars PROVE A
  <2> SUFFICES ASSUME phase' # phase, NEW t \in Workers
               PROVE  worked[t] = phase + 1 /\ round[t] = phase + 1
    OBVIOUS
  <2>1. PICK r \in Workers : Release(r)
    BY <1>1 DEF Next, vars, barrier, Acquire, SpuriousWakeup, WorkerStep, CompleteWork, Arrive,
       TestPhase, CondWait, Leave, MainStep, Create, Join, Exited
  <2>2. Arrived = Workers /\ Position(t) /\ Report(t) /\ TypeOK
    BY <1>1, <2>1 DEF Release, IInv, Position
  <2>3. pc[t] \in Waiting \cup {"release"} /\ my_phase[t] = phase
    BY <2>2 DEF Arrived
  <2>4. round[t] = phase + 1
    BY <2>2, <2>3 DEF Position, TypeOK
  <2> QED  BY <2>2, <2>3, <2>4 DEF Report, Waiting
<1> QED  BY <1>1, Invariance, PTL DEF Spec, OpensWhenComplete

(* barrier_wait() is an abstract barrier.                                    *)
THEOREM BarrierRefinement == Spec => ImplementsBarrier
<1> DEFINE gone == [t \in Workers |-> round[t] - 1]
<1>1. Init => Abstract!Init
  BY DEF Init, Abstract!Init
<1>2. ASSUME IInv, [Next]_vars PROVE [Abstract!Next]_(Abstract!barrierVars)
  <2>1. /\ TypeOK
        /\ \A u \in Workers : Position(u) /\ Report(u)
    BY <1>2 DEF IInv
  <2>2. ASSUME NEW t \in Workers, CompleteWork(t) PROVE Abstract!Enter(t)
    <3>1. worked[t] = round[t] - 1 /\ round[t] = worked[t] + 1
      BY <2>1, <2>2 DEF CompleteWork, Report, TypeOK
    <3>2. worked' = [worked EXCEPT ![t] = worked[t] + 1]
      BY <2>2, <3>1 DEF CompleteWork
    <3> QED  BY <2>1, <2>2, <3>1, <3>2 DEF CompleteWork, Abstract!Enter, TypeOK
  <2>3. ASSUME NEW t \in Workers, Leave(t) PROVE Abstract!Leave(t)
    <3>1. worked[t] = round[t] /\ round[t] = phase
      BY <2>1, <2>3 DEF Leave, Report, Position
    <3>2. \A u \in Workers : worked[u] >= worked[t]
      BY <1>2, <3>1, AllWorked
    <3>3. [u \in Workers |-> round'[u] - 1] = [gone EXCEPT ![t] = gone[t] + 1]
      <4>1. \A u \in Workers : round'[u] = IF u = t THEN round[t] + 1 ELSE round[u]
        BY <2>1, <2>3 DEF Leave, TypeOK
      <4>2. round[t] \in Nat /\ (round[t] + 1) - 1 = (round[t] - 1) + 1
        BY <2>1 DEF TypeOK
      <4> QED  BY <4>1, <4>2
    <3> QED  BY <2>1, <2>3, <3>1, <3>2, <3>3 DEF Leave, Abstract!Leave, TypeOK
  <2>4. ASSUME worked' = worked, round' = round
        PROVE  [Abstract!Next]_(Abstract!barrierVars)
    BY <2>4 DEF Abstract!barrierVars
  <2> QED
    BY <1>2, <2>2, <2>3, <2>4
    DEF Next, vars, Acquire, SpuriousWakeup, WorkerStep, Arrive, Release, TestPhase,
        CondWait, MainStep, Create, Join, Exited, Abstract!Next
<1> QED  BY <1>1, <1>2, Invariance, PTL DEF Spec, ImplementsBarrier, Abstract!Spec

=============================================================================
