----------------------------- MODULE SignalGames -----------------------------
(***************************************************************************)
(* A parent and the child it forks that talk by signals only:              *)
(*   fall2025/lecture13/sigusr3.c      "sigusr3"                           *)
(*   winter2025/lecture7/tag.c         "tag"                               *)
(*   winter2025/lecture8/signalFight.c "fight"                             *)
(* A signal that is pending already is not queued again, and a handler     *)
(* runs between any two steps of the process it interrupts.  The handlers  *)
(* are installed before fork().                                            *)
(***************************************************************************)
EXTENDS Integers

CONSTANTS
  Games,        \* which of the programs are considered
  Limit,        \* the number the loops count to, 5
  HitPoints,    \* hp at the start of a fight, 50
  MaxDamage     \* of one hit, 5

SignalAssumption ==
  /\ Games \subseteq {"sigusr3", "tag", "fight"}
  /\ {Limit, HitPoints, MaxDamage} \subseteq Nat \ {0}

VARIABLES
  game,         \* the program that runs
  at,           \* control point of each process
  pend,         \* signals pending at each process
  num,          \* state, num or hp of each process
  fighting,     \* stillFighting of each process
  won,          \* won of each process
  i,            \* loop variable of the child of sigusr3
  hung,         \* processes whose handler waits for the lock of rand()
  fate          \* history: what ended early or went missing

vars == <<game, at, pend, num, fighting, won, i, hung, fate>>

Procs == {"parent", "child"}
Other(p) == IF p = "parent" THEN "child" ELSE "parent"

Init ==
  /\ game \in Games
  /\ at = [p \in Procs |-> IF game = "fight" THEN "srand"
                           ELSE IF game = "sigusr3" /\ p = "child" THEN "kill"
                           ELSE "test"]
  /\ pend = [p \in Procs |-> {}]
  /\ num = [p \in Procs |-> IF game = "fight" THEN HitPoints ELSE 0]
  /\ fighting = [p \in Procs |-> TRUE]
  /\ won = [p \in Procs |-> TRUE]
  /\ i = 0
  /\ hung = {}
  /\ fate = {}

Alive(p) == at[p] # "exited"
Runs(p) == Alive(p) /\ p \notin hung
Goto(p, label) == at' = [at EXCEPT ![p] = label]

(* kill(): a process that has ended ignores it, and a signal that is pending *)
(* swallows a second one.                                                    *)
Kill(q, sig) ==
  pend' = IF Alive(q) THEN [pend EXCEPT ![q] = @ \cup {sig}] ELSE pend

Swallowed(q, sig) == IF sig \in pend[q] THEN {"swallowed"} ELSE {}

-----------------------------------------------------------------------------
(* Handlers *)

(* A handler that interrupts the sleep() of a fighter cuts it short, and the *)
(* do loop draws another number to sleep again.                              *)
Resume(p) ==
  \/ UNCHANGED at
  \/ game = "fight" /\ at[p] = "sleep" /\ Goto(p, "rand")

Count(p) == num' = [num EXCEPT ![p] = IF @ < Limit THEN @ + 1 ELSE @]

(* SIGUSR1 and SIGUSR2 of sigusr3 and tag: count up.  Only whether Limit has *)
(* been reached matters, so that num stops there.                            *)
Counted(p) ==
  /\ game # "fight"
  /\ Runs(p) /\ "hit" \in pend[p]
  /\ pend' = [pend EXCEPT ![p] = @ \ {"hit"}]
  /\ Count(p)
  /\ UNCHANGED <<game, at, fighting, won, i, hung, fate>>

(* Fault: a fighter who drops to no hit points keeps won.                    *)
HitKeepsWon(p) ==
  /\ game = "fight"
  /\ Runs(p) /\ "hit" \in pend[p]
  /\ pend' = [pend EXCEPT ![p] = @ \ {"hit"}]
  /\ IF num[p] > 0
     THEN \E d \in 1 .. MaxDamage :
            /\ num' = [num EXCEPT ![p] = @ - d]
            /\ fighting' = [fighting EXCEPT ![p] = @ /\ num[p] > d]
     ELSE UNCHANGED <<num, fighting>>
  /\ Resume(p)
  /\ UNCHANGED <<game, won, i, hung, fate>>

(* hitHandler().  It calls rand(): if it has interrupted rand(), whose lock  *)
(* is not recursive, it may wait for ever.                                   *)
Hit(p) ==
  /\ game = "fight"
  /\ Runs(p) /\ "hit" \in pend[p]
  /\ pend' = [pend EXCEPT ![p] = @ \ {"hit"}]
  /\ \/ /\ num[p] > 0
        /\ \E d \in 1 .. MaxDamage :
             /\ num' = [num EXCEPT ![p] = @ - d]
             /\ fighting' = [fighting EXCEPT ![p] = @ /\ num[p] > d]
             /\ won' = [won EXCEPT ![p] = @ /\ num[p] > d]
        /\ UNCHANGED hung
     \/ /\ num[p] > 0 /\ at[p] \in {"srand", "rand"}
        /\ hung' = hung \cup {p}
        /\ UNCHANGED <<num, fighting, won>>
     \/ /\ num[p] <= 0
        /\ UNCHANGED <<num, fighting, won, hung>>
  /\ Resume(p)
  /\ UNCHANGED <<game, i, fate>>

(* endHandler(), which may interrupt hitHandler() even where that one hangs.  *)
End(p) ==
  /\ Alive(p) /\ "end" \in pend[p]
  /\ pend' = [pend EXCEPT ![p] = @ \ {"end"}]
  /\ fighting' = [fighting EXCEPT ![p] = FALSE]
  /\ Resume(p)
  /\ UNCHANGED <<game, num, won, i, hung, fate>>

(* SIGTERM of tag.                                                           *)
Terminated(p) ==
  /\ Runs(p) /\ "term" \in pend[p]
  /\ Goto(p, "exited")
  /\ pend' = [pend EXCEPT ![p] = {}]
  /\ UNCHANGED <<game, num, fighting, won, i, hung, fate>>

Deliver(p) == Counted(p) \/ Hit(p) \/ End(p) \/ Terminated(p)

-----------------------------------------------------------------------------
(* Main programs *)

(* while (state < 5), while (num < 5), while (stillFighting).                *)
Goes(p) == IF game = "fight" THEN fighting[p] ELSE num[p] < Limit

AfterLoop(p) ==
  IF game = "fight" THEN "farewell"
  ELSE IF game = "tag" /\ p = "parent" THEN "term" ELSE "exited"

Test(p) ==
  /\ Runs(p) /\ at[p] = "test"
  /\ Goto(p, IF ~Goes(p) THEN AfterLoop(p)
             ELSE IF game = "sigusr3" THEN "sleep" ELSE "kill")
  /\ fate' = IF game = "tag" /\ p = "child" /\ ~Goes(p)
             THEN fate \cup {"left"} ELSE fate
  /\ UNCHANGED <<game, pend, num, fighting, won, i, hung>>

(* kill() of the other one, in the loop of tag and of the fight.             *)
Send(p) ==
  /\ game # "sigusr3"
  /\ Runs(p) /\ at[p] = "kill"
  /\ Kill(Other(p), "hit")
  /\ Goto(p, IF game = "fight" THEN "rand" ELSE "sleep")
  /\ UNCHANGED <<game, num, fighting, won, i, hung, fate>>

(* The for loop of the child of sigusr3, which falls through to the while    *)
(* loop of the parent.                                                       *)
SendCounted(p) ==
  /\ game = "sigusr3"
  /\ Runs(p) /\ at[p] = "kill"
  /\ Kill("parent", "hit")
  /\ fate' = fate \cup Swallowed("parent", "hit")
  /\ i' = i + 1
  /\ Goto(p, IF i + 1 = Limit THEN "test" ELSE "kill")
  /\ UNCHANGED <<game, num, fighting, won, hung>>

(* srand() at the start and rand() % 4 + 1 in the loop, which use one lock.   *)
Rand(p) ==
  /\ Runs(p) /\ at[p] \in {"srand", "rand"}
  /\ Goto(p, IF at[p] = "srand" THEN "test" ELSE "sleep")
  /\ UNCHANGED <<game, pend, num, fighting, won, i, hung, fate>>

Wake(p) ==
  /\ Runs(p) /\ at[p] = "sleep"
  /\ Goto(p, "test")
  /\ UNCHANGED <<game, pend, num, fighting, won, i, hung, fate>>

(* Fault: the last signal is not sent.                                       *)
FarewellSilent(p) ==
  /\ Runs(p) /\ at[p] \in {"farewell", "term"}
  /\ Goto(p, IF p = "parent" THEN "wait" ELSE "exited")
  /\ UNCHANGED <<game, pend, num, fighting, won, i, hung, fate>>

(* After the fight, and the end of the parent of tag.                        *)
Farewell(p) ==
  /\ Runs(p) /\ at[p] \in {"farewell", "term"}
  /\ Kill(Other(p), IF at[p] = "term" THEN "term" ELSE "end")
  /\ Goto(p, IF p = "parent" THEN "wait" ELSE "exited")
  /\ UNCHANGED <<game, num, fighting, won, i, hung, fate>>

Wait ==
  /\ Runs("parent") /\ at["parent"] = "wait"
  /\ ~Alive("child")
  /\ Goto("parent", "exited")
  /\ UNCHANGED <<game, pend, num, fighting, won, i, hung, fate>>

Step(p) == Test(p) \/ Send(p) \/ SendCounted(p) \/ Rand(p) \/ Farewell(p)

Next ==
  \/ \E p \in Procs : Deliver(p) \/ Step(p) \/ Wake(p)
  \/ Wait
  \/ (\A p \in Procs : ~Runs(p)) /\ UNCHANGED vars
  \/ at["parent"] = "wait" /\ "child" \in hung /\ UNCHANGED vars

Spec == Init /\ [][Next]_vars

(* Processes run and signals are delivered.  A sleep of a few seconds is not *)
(* interrupted every time for ever.                                          *)
FairSpec ==
  /\ Spec
  /\ \A p \in Procs : /\ WF_vars(Step(p))
                      /\ WF_vars(Deliver(p))
                      /\ SF_vars(Wake(p))
  /\ WF_vars(Wait)

-----------------------------------------------------------------------------
(* Properties *)

TypeOK ==
  /\ game \in Games
  /\ at \in [Procs -> {"srand", "test", "kill", "rand", "sleep", "farewell",
                       "term", "wait", "exited"}]
  /\ pend \in [Procs -> SUBSET {"hit", "end", "term"}]
  /\ num \in [Procs -> 1 - MaxDamage .. Limit + HitPoints]
  /\ fighting \in [Procs -> BOOLEAN] /\ won \in [Procs -> BOOLEAN]
  /\ i \in 0 .. Limit
  /\ hung \subseteq Procs
  /\ fate \subseteq {"left", "swallowed"}

(* A fighter that has left the loop as the winner has beaten the other one:  *)
(* there are never two winners, though the two may kill each other.          *)
WinnerHasBeaten ==
  game = "fight" =>
    \A p \in Procs :
      at[p] \in {"farewell", "wait", "exited"} /\ won[p] => ~won[Other(p)]

(* The programs end, except where a signal went missing: the parent of       *)
(* sigusr3 when two signals merged into one, the parent of tag when the      *)
(* child has counted to Limit first and left, and a fight with a fighter     *)
(* that hangs in its handler.  The child of sigusr3 never ends.              *)
Over ==
  \/ /\ game = "sigusr3"
     /\ ~Alive("parent") \/ "swallowed" \in fate
  \/ /\ game = "tag"
     /\ ~Alive("child") /\ (~Alive("parent") \/ "left" \in fate)
  \/ /\ game = "fight"
     /\ (\A p \in Procs : ~Alive(p)) \/ hung # {}

GamesEnd == <>Over

=============================================================================
