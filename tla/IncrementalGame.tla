--------------------------- MODULE IncrementalGame ---------------------------
(***************************************************************************)
(* The idle games with a heartbeat:                                        *)
(*   fall2025/lecture13/forkIncremental.c              "fork"              *)
(*   fall2025/lecture14/threadIncremental.c            "thread"            *)
(*   fall2025/lecture14/threadIncremental3.c           "restart"           *)
(*   fall2025/lecture14/threadIncremental2.c and                           *)
(*     threadIncremental3_sigaction.c (the same text)  "eintr"             *)
(* In "fork" a child sends SIGUSR1 and the handler is the heartbeat; in    *)
(* the others it is a thread that shares a mutex with main().  "restart"   *)
(* and "eintr" end on SIGINT: the first resumes an interrupted scanf(),    *)
(* the second makes it fail.                                               *)
(*                                                                         *)
(* Every load and store of main() is a step, since the handler of "fork"   *)
(* may run between any two of them.                                        *)
(***************************************************************************)
EXTENDS Integers

CONSTANTS
  Programs,    \* which of the programs are considered
  Costs,       \* price of a generator of each level
  MaxInputs,   \* bound: choices made while the game goes on
  MaxBeats     \* bound: heartbeats while the game goes on

GameAssumption ==
  /\ Programs \subseteq {"fork", "thread", "restart", "eintr"}
  /\ Costs \in [1 .. 3 -> Nat \ {0}]
  /\ MaxInputs \in Nat
  /\ MaxBeats \in Nat

VARIABLES
  program,      \* the program that runs
  acct,         \* income, gen1, gen2, gen3
  mut,          \* owner of the mutex
  pc,           \* control point of main()
  choice,       \* main's choice
  reg,          \* the value main has loaded and not stored yet
  pulse,        \* control point of the heartbeat thread
  toContinue,   \* TRUE until a handler clears it
  pending,      \* "fork": SIGUSR1 is pending
  killed,       \* a signal without handler ended the process
  jammed,       \* the input holds something scanf("%d") cannot read
  inputs,       \* choices made so far
  beats,        \* heartbeats so far
  interrupted,  \* history: SIGINT made the scanf() of this choice fail
  late,         \* history: choices made after the game was told to end
  bought,       \* history: purchases of each level
  books         \* history: the account if no update were ever lost

turn == <<choice, interrupted, late, inputs>>
flow == <<pc, turn>>
status == <<program, toContinue, killed, jammed>>
ledger == <<acct, books, bought>>
clock == <<pulse, pending, beats>>
vars == <<flow, status, ledger, mut, reg, clock>>

Generators == 1 .. 3
Choices == 0 .. 4      \* 0 is any number the switch ignores
Unset == -1            \* choice has not been written yet
Shared == program # "fork"
Quits == program \in {"restart", "eintr"}

NewAccount == [income |-> 0, gen |-> [i \in Generators |-> 0]]

Init ==
  /\ program \in Programs
  /\ acct = NewAccount
  /\ books = NewAccount
  /\ bought = [i \in Generators |-> 0]
  /\ mut = "free"
  /\ pc = "install"
  /\ choice = Unset
  /\ reg = 0
  /\ pulse = IF Shared THEN "loop" ELSE "none"
  /\ toContinue = TRUE
  /\ pending = FALSE
  /\ killed = FALSE
  /\ jammed = FALSE
  /\ inputs = 0
  /\ beats = 0
  /\ interrupted = FALSE
  /\ late = 0

(* A step of main() that decides only where it goes on.                      *)
Advance(from, to) ==
  /\ pc = from /\ ~killed
  /\ pc' = to
  /\ UNCHANGED <<turn, status, ledger, mut, reg, clock>>

-----------------------------------------------------------------------------
(* main(): the loop and scanf() *)

(* After the child or the thread has been started; the handlers are installed *)
(* only now.                                                                 *)
Install == Advance("install", "loop")

(* Fault: the loop does not look at toContinue.                              *)
LoopForever == Advance("loop", "scanf")

LoopTop == Advance("loop", IF toContinue THEN "scanf" ELSE "join")

(* Where the switch sends main(): the programs with a thread lock first.     *)
Body(c) == IF c = 1 THEN "read" ELSE "check"
Switch(c) == IF c = 0 THEN "loop" ELSE IF Shared THEN "lock" ELSE Body(c)
Leave == IF Shared THEN "unlock" ELSE "loop"

Decide(c, going, broken) ==
  /\ choice' = c
  /\ interrupted' = broken
  /\ pc' = Switch(c)
  /\ inputs' = inputs + 1
  /\ late' = IF going THEN late ELSE late + 1

(* The player types a number.                                                *)
Type(c) ==
  /\ pc = "scanf" /\ ~killed /\ ~jammed
  /\ toContinue => inputs < MaxInputs
  /\ Decide(c, toContinue, FALSE)
  /\ UNCHANGED <<status, ledger, mut, reg, clock>>

(* The player types something else, or ends the input.  scanf() returns      *)
(* without reading it, now and every time from now on.                       *)
Jam ==
  /\ pc = "scanf" /\ ~killed /\ ~jammed
  /\ jammed' = TRUE
  /\ UNCHANGED <<flow, program, toContinue, killed, ledger, mut, reg, clock>>

(* After a scanf() that failed choice has the value of the round before, as  *)
(* the stack slot is the same, and anything in the first round.              *)
Stale == IF choice = Unset THEN Choices ELSE {choice}

ScanfFails ==
  /\ pc = "scanf" /\ ~killed /\ jammed
  /\ toContinue => inputs < MaxInputs
  /\ \E c \in Stale : Decide(c, toContinue, FALSE)
  /\ UNCHANGED <<status, ledger, mut, reg, clock>>

-----------------------------------------------------------------------------
(* main(): the cases of the switch *)

Price == IF choice > 1 THEN Costs[choice - 1] ELSE 0

(* Fault: main() touches the account without the mutex.                      *)
NoLock == Advance("lock", Body(choice))

Lock ==
  /\ pc = "lock" /\ ~killed
  /\ mut = "free"
  /\ mut' = "main"
  /\ pc' = Body(choice)
  /\ UNCHANGED <<turn, status, ledger, reg, clock>>

(* Fault: the test lets a purchase through one unit short.                   *)
CheckShort ==
  Advance("check", IF acct.income + 1 >= Price THEN "read" ELSE Leave)

Check == Advance("check", IF acct.income >= Price THEN "read" ELSE Leave)

ReadIncome ==
  /\ pc = "read" /\ ~killed
  /\ reg' = acct.income
  /\ pc' = "write"
  /\ UNCHANGED <<turn, status, ledger, mut, clock>>

WriteIncome ==
  /\ pc = "write" /\ ~killed
  /\ IF choice = 1
     THEN /\ acct' = [acct EXCEPT !.income = reg + 1]
          /\ books' = [books EXCEPT !.income = @ + 1]
          /\ pc' = Leave
     ELSE /\ acct' = [acct EXCEPT !.income = reg - Price]
          /\ books' = [books EXCEPT !.income = @ - Price]
          /\ pc' = "genRead"
  /\ UNCHANGED <<turn, status, bought, mut, reg, clock>>

ReadGen ==
  /\ pc = "genRead" /\ ~killed
  /\ reg' = acct.gen[choice - 1]
  /\ pc' = "genWrite"
  /\ UNCHANGED <<turn, status, ledger, mut, clock>>

WriteGen ==
  /\ pc = "genWrite" /\ ~killed
  /\ acct' = [acct EXCEPT !.gen[choice - 1] = reg + 1]
  /\ books' = [books EXCEPT !.gen[choice - 1] = @ + 1]
  /\ bought' = [bought EXCEPT ![choice - 1] = @ + 1]
  /\ pc' = Leave
  /\ UNCHANGED <<turn, status, mut, reg, clock>>

(* Fault: a case of the switch returns to the loop with the mutex held.      *)
KeepLock == Advance("unlock", "loop")

Unlock ==
  /\ pc = "unlock" /\ ~killed
  /\ mut' = "free"
  /\ pc' = "loop"
  /\ UNCHANGED <<turn, status, ledger, reg, clock>>

Join == pulse = "ended" /\ Advance("join", "ended")

MainStep ==
  \/ Install \/ LoopTop \/ ScanfFails \/ Lock \/ Check \/ ReadIncome
  \/ WriteIncome \/ ReadGen \/ WriteGen \/ Unlock \/ Join

-----------------------------------------------------------------------------
(* heartbeat() *)

(* Fault: the levels are added up from the lowest.                         *)
AccrueUpwards(a) ==
  [income |-> a.income + a.gen[1],
   gen    |-> [a.gen EXCEPT ![1] = @ + a.gen[2], ![2] = @ + a.gen[3]]]

Accrue(a) ==
  LET second == a.gen[2] + a.gen[3]
      first  == a.gen[1] + second
  IN  [income |-> a.income + first,
       gen    |-> [a.gen EXCEPT ![1] = first, ![2] = second]]

(* The loop of the thread; the guard bounds how often it goes round.         *)
PulseTop ==
  /\ pulse = "loop" /\ ~killed
  /\ toContinue => beats < MaxBeats
  /\ pulse' = IF toContinue THEN "lock" ELSE "ended"
  /\ UNCHANGED <<flow, status, ledger, mut, reg, pending, beats>>

PulseLock ==
  /\ pulse = "lock" /\ ~killed
  /\ mut = "free"
  /\ mut' = "pulse"
  /\ pulse' = "beat"
  /\ UNCHANGED <<flow, status, ledger, reg, pending, beats>>

PulseBeat ==
  /\ pulse = "beat" /\ ~killed
  /\ acct' = Accrue(acct)
  /\ books' = Accrue(books)
  /\ beats' = beats + 1
  /\ pulse' = "unlock"
  /\ UNCHANGED <<flow, status, bought, mut, reg, pending>>

PulseUnlock ==
  /\ pulse = "unlock" /\ ~killed
  /\ mut' = "free"
  /\ pulse' = "loop"
  /\ UNCHANGED <<flow, status, ledger, reg, pending, beats>>

PulseStep == PulseTop \/ PulseLock \/ PulseBeat \/ PulseUnlock

(* "fork": the child's kill().  A signal that is pending already is the same *)
(* signal.                                                                   *)
Ping ==
  /\ program = "fork" /\ ~killed
  /\ beats < MaxBeats
  /\ ~pending
  /\ pending' = TRUE
  /\ UNCHANGED <<flow, status, ledger, mut, reg, pulse, beats>>

(* "fork": SIGUSR1 interrupts main() wherever it is, and is fatal before     *)
(* signal() has been called.                                                 *)
Heartbeat ==
  /\ pending /\ ~killed
  /\ pending' = FALSE
  /\ IF pc = "install"
     THEN /\ killed' = TRUE
          /\ UNCHANGED <<ledger, beats>>
     ELSE /\ acct' = Accrue(acct)
          /\ books' = Accrue(books)
          /\ beats' = beats + 1
          /\ UNCHANGED <<bought, killed>>
  /\ UNCHANGED <<flow, program, toContinue, jammed, mut, reg, pulse>>

-----------------------------------------------------------------------------
(* SIGINT *)

(* Without a handler SIGINT ends the process, at any moment.                 *)
Kill ==
  /\ pc # "ended" /\ ~killed
  /\ Quits => pc = "install"
  /\ killed' = TRUE
  /\ UNCHANGED <<flow, program, toContinue, jammed, ledger, mut, reg, clock>>

(* cleanup() runs on the heartbeat thread, or on main() while that is not    *)
(* blocked in read(): just before or after, still or already in scanf(), or  *)
(* anywhere else.  In "restart" a read() that is interrupted goes on.        *)
Interrupt ==
  /\ Quits /\ pc \notin {"install", "ended"} /\ ~killed
  /\ toContinue' = FALSE
  /\ UNCHANGED <<flow, program, killed, jammed, ledger, mut, reg, clock>>

(* cleanup() runs on main() while it is blocked in scanf(), which fails.     *)
InterruptScanf ==
  /\ program = "eintr" /\ pc = "scanf" /\ ~killed /\ ~jammed
  /\ toContinue' = FALSE
  /\ \E c \in Stale : Decide(c, FALSE, TRUE)
  /\ UNCHANGED <<program, killed, jammed, ledger, mut, reg, pulse, pending,
                 beats>>

(* The player need not type, and a process that has ended does nothing.      *)
Rest ==
  /\ killed \/ pc \in {"scanf", "ended"}
  /\ UNCHANGED vars

Next ==
  \/ MainStep
  \/ (\E c \in Choices : Type(c)) \/ Jam
  \/ PulseStep
  \/ Ping \/ Heartbeat
  \/ Kill \/ Interrupt \/ InterruptScanf
  \/ Rest

Spec == Init /\ [][Next]_vars

(* The scheduler runs main() and the heartbeat thread.  Nothing is assumed   *)
(* of the player, of the signals, or of the mutex.                           *)
FairSpec ==
  /\ Spec
  /\ WF_vars(MainStep)
  /\ WF_vars(PulseStep)

-----------------------------------------------------------------------------
(* Properties *)

Account == [income : Int, gen : [Generators -> Int]]

TypeOK ==
  /\ program \in Programs
  /\ acct \in Account
  /\ books \in Account
  /\ bought \in [Generators -> Nat]
  /\ mut \in {"free", "main", "pulse"}
  /\ pc \in {"install", "loop", "scanf", "lock", "check", "read", "write",
             "genRead", "genWrite", "unlock", "join", "ended"}
  /\ choice \in Choices \cup {Unset}
  /\ reg \in Int
  /\ pulse \in {"none", "loop", "lock", "beat", "unlock", "ended"}
  /\ toContinue \in BOOLEAN /\ pending \in BOOLEAN /\ killed \in BOOLEAN
  /\ jammed \in BOOLEAN /\ interrupted \in BOOLEAN
  /\ inputs \in Nat /\ beats \in Nat /\ late \in Nat

(* In every program, whatever a race loses, it is never the player's         *)
(* purchase and never a payment: the income does not become negative, each   *)
(* generator paid for is there, and no account is better than if every       *)
(* update had been kept.  forkIncremental.c needs it most, where the handler *)
(* runs between the test of the income, the payment and the delivery.        *)
OnlyHeartbeatsAreLost ==
  /\ 0 <= acct.income /\ acct.income <= books.income
  /\ \A i \in Generators :
       bought[i] <= acct.gen[i] /\ acct.gen[i] <= books.gen[i]

(* Once a handler has cleared toContinue main() makes at most one more       *)
(* choice, as the message of threadIncremental3.c promises.                  *)
OneLastPurchase == late <= 1

(* A game told to end does: the heartbeat thread returns, and main() returns *)
(* after it unless it was in scanf() at that moment.  There it may wait for  *)
(* the last choice; once that is made, or SIGINT has made the scanf() fail,  *)
(* it needs no other input.  (With sigaction() too main() waits for one when *)
(* SIGINT came before the read or on the heartbeat thread, although          *)
(* threadIncremental3_sigactioncommented.c:271 says that it needs none.)     *)
QuitEnds ==
  /\ ~toContinue ~> pulse = "ended"
  /\ ~toContinue /\ pc # "scanf" ~> pc = "ended"

(* A choice left over by a scanf() that SIGINT interrupted changes nothing   *)
(* (threadIncremental3_sigactioncommented.c:141 and :142).                   *)
GarbageIsHarmless == [][pc # pc' /\ interrupted => acct' = acct]_vars

(* The account of the games with a thread changes as if every tick, purchase *)
(* and heartbeat happened at once: a purchase when the generator is there.   *)
(* (forkIncremental.c has no such property, its account is left out.)        *)
Settled ==
  IF ~Shared THEN NewAccount
  ELSE IF pc \in {"genRead", "genWrite"}
       THEN [acct EXCEPT !.income = @ + Price] ELSE acct

A == INSTANCE IdleAccount WITH account <- Settled

ImplementsAccount == A!Spec

=============================================================================
