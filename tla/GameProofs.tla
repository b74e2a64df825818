----------------------------- MODULE GameProofs -----------------------------
(***************************************************************************)
(* Proofs about the idle games of the suite, for every price of the        *)
(* generators and every number of inputs and heartbeats: which updates a   *)
(* race can lose, what main() does after SIGINT, and that the games with a *)
(* thread implement the abstract account.                                  *)
(***************************************************************************)
EXTENDS ProgramSuite, Integers, TLAPS

-----------------------------------------------------------------------------
(* The inductive invariant *)

(* The control points at which main() and the heartbeat hold the mutex.      *)
MainHolds == {"check", "read", "write", "genRead", "genWrite", "unlock"}
PulseHolds == {"beat", "unlock"}

(* The programs with a thread share a mutex; the one with a child has none.  *)
MutexInv ==
  IF IG!Shared
  THEN /\ mut = "main" <=> pc \in MainHolds
       /\ mut = "pulse" <=> pulse \in PulseHolds
       /\ pulse # "none" /\ ~pending
  ELSE mut = "free" /\ pulse = "none" /\ pc \notin {"lock", "unlock"}

(* Inside the switch choice is one of its cases, and the purchases are not   *)
(* the first.                                                                *)
ChoiceInv ==
  /\ pc \in {"lock", "read", "write"} => choice \in 1 .. 4
  /\ pc \in {"check", "genRead", "genWrite"} => choice \in 2 .. 4

(* The account is at least what the player paid for, and at most what it     *)
(* would be if no update were lost.                                          *)
Bounded ==
  /\ 0 <= acct.income /\ acct.income <= books.income
  /\ \A k \in IG!Generators :
       bought[k] <= acct.gen[k] /\ acct.gen[k] <= books.gen[k]

(* A value main() has loaded, or tested, is never more than what is there:   *)
(* heartbeats only add.                                                      *)
LoadedInv ==
  /\ pc = "read" => acct.income >= IG!Price
  /\ pc = "write" => IG!Price <= reg /\ reg <= acct.income
  /\ pc = "genWrite" =>
       bought[choice - 1] <= reg /\ reg <= acct.gen[choice - 1]

(* With the mutex held it is exactly what is there.                          *)
ExactInv ==
  IG!Shared =>
    /\ pc = "write" => reg = acct.income
    /\ pc = "genWrite" => reg = acct.gen[choice - 1]

(* main() waits for a choice only while the game goes on, or for the last    *)
(* one.                                                                      *)
LateInv == late <= 1 /\ (late = 1 => ~toContinue /\ pc # "scanf")

GameInv ==
  /\ IG!TypeOK /\ MutexInv /\ ChoiceInv /\ Bounded /\ LoadedInv /\ ExactInv
  /\ LateInv

-----------------------------------------------------------------------------
(* The operators *)

(* A heartbeat keeps the shape of the account and takes nothing away.        *)
LEMMA AccrueOnlyAdds ==
  ASSUME NEW a \in IG!Account, \A k \in IG!Generators : a.gen[k] >= 0
  PROVE  /\ IG!Accrue(a) \in IG!Account
         /\ IG!Accrue(a).income >= a.income
         /\ \A k \in IG!Generators : IG!Accrue(a).gen[k] >= a.gen[k]
<1>1. a = [income |-> a.income, gen |-> a.gen] /\ a.income \in Int
      /\ a.gen \in [1 .. 3 -> Int]
  BY DEF IG!Account, IG!Generators
<1>2. a.gen[1] \in Int /\ a.gen[2] \in Int /\ a.gen[3] \in Int
  BY <1>1
<1>3. a.gen[1] >= 0 /\ a.gen[2] >= 0 /\ a.gen[3] >= 0
  BY DEF IG!Generators
<1>4. IG!Accrue(a).income = a.income + (a.gen[1] + (a.gen[2] + a.gen[3]))
  BY DEF IG!Accrue
<1>5. IG!Accrue(a).gen = [a.gen EXCEPT ![1] = a.gen[1] + (a.gen[2] + a.gen[3]),
                                       ![2] = a.gen[2] + a.gen[3]]
  BY DEF IG!Accrue
<1>6. IG!Accrue(a).gen \in [1 .. 3 -> Int]
  BY <1>1, <1>2, <1>5
<1>7. IG!Accrue(a) \in IG!Account
  <2>1. IG!Accrue(a) = [income |-> IG!Accrue(a).income, gen |-> IG!Accrue(a).gen]
    BY DEF IG!Accrue
  <2>2. IG!Accrue(a).income \in Int
    BY <1>1, <1>2, <1>4
  <2> QED  BY <2>1, <2>2, <1>6 DEF IG!Account, IG!Generators
<1>8. \A k \in 1 .. 3 : IG!Accrue(a).gen[k] >= a.gen[k]
  BY <1>1, <1>2, <1>3, <1>5
<1> QED
  BY <1>1, <1>2, <1>3, <1>4, <1>7, <1>8 DEF IG!Generators

(* If one account is at least another, a heartbeat does not change that.     *)
LEMMA AccrueKeepsOrder ==
  ASSUME NEW a \in IG!Account, NEW b \in IG!Account,
         a.income <= b.income, \A k \in IG!Generators : a.gen[k] <= b.gen[k]
  PROVE  /\ IG!Accrue(a).income <= IG!Accrue(b).income
         /\ \A k \in IG!Generators : IG!Accrue(a).gen[k] <= IG!Accrue(b).gen[k]
<1>1. a.income \in Int /\ a.gen \in [1 .. 3 -> Int] /\ b.income \in Int
      /\ b.gen \in [1 .. 3 -> Int]
  BY DEF IG!Account, IG!Generators
<1>2. /\ a.gen[1] \in Int /\ a.gen[2] \in Int /\ a.gen[3] \in Int
      /\ b.gen[1] \in Int /\ b.gen[2] \in Int /\ b.gen[3] \in Int
  BY <1>1
<1>3. a.gen[1] <= b.gen[1] /\ a.gen[2] <= b.gen[2] /\ a.gen[3] <= b.gen[3]
  BY DEF IG!Generators
<1>4. ASSUME NEW x \in IG!Account, x.gen \in [1 .. 3 -> Int]
      PROVE  /\ IG!Accrue(x).income
                  = x.income + (x.gen[1] + (x.gen[2] + x.gen[3]))
             /\ IG!Accrue(x).gen[1] = x.gen[1] + (x.gen[2] + x.gen[3])
             /\ IG!Accrue(x).gen[2] = x.gen[2] + x.gen[3]
             /\ IG!Accrue(x).gen[3] = x.gen[3]
  BY <1>4 DEF IG!Accrue
<1>5. IG!Accrue(a).income <= IG!Accrue(b).income
  BY <1>1, <1>2, <1>3, <1>4
<1>6. \A k \in {1, 2, 3} : IG!Accrue(a).gen[k] <= IG!Accrue(b).gen[k]
  BY <1>1, <1>2, <1>3, <1>4
<1> QED  BY <1>5, <1>6 DEF IG!Generators

-----------------------------------------------------------------------------
(* Initial states and steps that leave the account alone *)

LEMMA PricesArePositive == \A k \in 1 .. 3 : Costs[k] \in Nat \ {0}
BY GamesAssumed DEF IG!GameAssumption

LEMMA PriceIsNatural ==
  ASSUME choice \in 1 .. 4
  PROVE  IG!Price \in Nat
<1>1. CASE choice > 1
  <2>1. choice - 1 \in 1 .. 3
    BY <1>1
  <2> QED  BY <1>1, <2>1, PricesArePositive DEF IG!Price
<1>2. CASE ~(choice > 1)
  BY <1>2 DEF IG!Price
<1> QED  BY <1>1, <1>2

LEMMA GameInit == IG!Init => GameInv
<1> SUFFICES ASSUME IG!Init PROVE GameInv
  OBVIOUS
<1>1. IG!NewAccount \in IG!Account
  BY DEF IG!NewAccount, IG!Account, IG!Generators
<1>2. IG!TypeOK
  <2>1. bought \in [IG!Generators -> Nat] /\ choice \in IG!Choices \cup {IG!Unset}
    BY DEF IG!Init, IG!Unset
  <2>2. pulse \in {"none", "loop", "lock", "beat", "unlock", "ended"}
    BY DEF IG!Init
  <2>3. acct \in IG!Account /\ books \in IG!Account
    BY <1>1 DEF IG!Init
  <2>4. /\ program \in Programs /\ mut \in {"free", "main", "pulse"}
        /\ pc = "install" /\ reg \in Int
        /\ inputs \in Nat /\ beats \in Nat /\ late \in Nat
    BY DEF IG!Init
  <2>5. /\ toContinue \in BOOLEAN /\ pending \in BOOLEAN /\ killed \in BOOLEAN
        /\ jammed \in BOOLEAN /\ interrupted \in BOOLEAN
    BY Zenon DEF IG!Init
  <2> QED  BY <2>1, <2>2, <2>3, <2>4, <2>5, Zenon DEF IG!TypeOK
<1>3. MutexInv /\ ChoiceInv /\ LoadedInv /\ ExactInv /\ LateInv
  BY DEF IG!Init, MutexInv, ChoiceInv, LoadedInv, ExactInv, LateInv, MainHolds,
         PulseHolds, IG!Shared
<1>4. Bounded
  BY DEF IG!Init, Bounded, IG!NewAccount, IG!Generators
<1> QED  BY <1>2, <1>3, <1>4 DEF GameInv

(* main() outside the switch, and its lock and unlock.                       *)
LEMMA MainMoves ==
  ASSUME GameInv, IG!Install \/ IG!LoopTop \/ IG!Lock \/ IG!Unlock \/ IG!Join \/ IG!Jam
  PROVE  GameInv'
<1> USE DEF GameInv
<1>1. CASE IG!Install
  <2>1. IG!TypeOK'
    BY <1>1, PriceIsNatural
    DEF IG!Install, IG!Advance, IG!turn, IG!flow, IG!status, IG!ledger,
        IG!clock, IG!TypeOK, IG!Choices, IG!Unset
  <2>2. MutexInv'
    BY <1>1, PriceIsNatural
    DEF IG!Install, IG!Advance, IG!turn, IG!flow, IG!status, IG!ledger,
        IG!clock, MutexInv, IG!TypeOK, MainHolds, PulseHolds, IG!Shared
  <2>3. ChoiceInv'
    BY <1>1, PriceIsNatural
    DEF IG!Install, IG!Advance, IG!turn, IG!flow, IG!status, IG!ledger,
        IG!clock, ChoiceInv, MutexInv, IG!TypeOK, IG!Choices, IG!Unset
  <2>4. Bounded'
    BY <1>1, PriceIsNatural
    DEF IG!Install, IG!Advance, IG!turn, IG!flow, IG!status, IG!ledger,
        IG!clock, Bounded
  <2>5. LoadedInv'
    BY <1>1, PriceIsNatural
    DEF IG!Install, IG!Advance, IG!turn, IG!flow, IG!status, IG!ledger,
        IG!clock, LoadedInv, Bounded, ChoiceInv, IG!TypeOK, IG!Price
  <2>6. ExactInv'
    BY <1>1, PriceIsNatural
    DEF IG!Install, IG!Advance, IG!turn, IG!flow, IG!status, IG!ledger,
        IG!clock, ExactInv, MutexInv, MainHolds, IG!TypeOK, IG!Shared
  <2>7. LateInv'
    BY <1>1, PriceIsNatural
    DEF IG!Install, IG!Advance, IG!turn, IG!flow, IG!status, IG!ledger,
        IG!clock, LateInv, IG!TypeOK
  <2> QED  BY <2>1, <2>2, <2>3, <2>4, <2>5, <2>6, <2>7 DEF GameInv
<1>2. CASE IG!LoopTop
  <2>1. IG!TypeOK'
    BY <1>2, PriceIsNatural
    DEF IG!LoopTop, IG!Advance, IG!turn, IG!flow, IG!status, IG!ledger,
        IG!clock, IG!TypeOK, IG!Choices, IG!Unset
  <2>2. MutexInv'
    BY <1>2, PriceIsNatural
    DEF IG!LoopTop, IG!Advance, IG!turn, IG!flow, IG!status, IG!ledger,
        IG!clock, MutexInv, IG!TypeOK, MainHolds, PulseHolds, IG!Shared
  <2>3. ChoiceInv'
    BY <1>2, PriceIsNatural
    DEF IG!LoopTop, IG!Advance, IG!turn, IG!flow, IG!status, IG!ledger,
        IG!clock, ChoiceInv, MutexInv, IG!TypeOK, IG!Choices, IG!Unset
  <2>4. Bounded'
    BY <1>2, PriceIsNatural
    DEF IG!LoopTop, IG!Advance, IG!turn, IG!flow, IG!status, IG!ledger,
        IG!clock, Bounded
  <2>5. LoadedInv'
    BY <1>2, PriceIsNatural
    DEF IG!LoopTop, IG!Advance, IG!turn, IG!flow, IG!status, IG!ledger,
        IG!clock, LoadedInv, Bounded, ChoiceInv, IG!TypeOK, IG!Price
  <2>6. ExactInv'
    BY <1>2, PriceIsNatural
    DEF IG!LoopTop, IG!Advance, IG!turn, IG!flow, IG!status, IG!ledger,
        IG!clock, ExactInv, MutexInv, MainHolds, IG!TypeOK, IG!Shared
  <2>7. LateInv'
    BY <1>2, PriceIsNatural
    DEF IG!LoopTop, IG!Advance, IG!turn, IG!flow, IG!status, IG!ledger,
        IG!clock, LateInv, IG!TypeOK
  <2> QED  BY <2>1, <2>2, <2>3, <2>4, <2>5, <2>6, <2>7 DEF GameInv
<1>3. CASE IG!Lock
  <2>1. IG!TypeOK'
    BY <1>3, PriceIsNatural
    DEF IG!Lock, IG!Body, IG!turn, IG!flow, IG!status, IG!ledger, IG!clock,
        IG!TypeOK, IG!Choices, IG!Unset
  <2>2. MutexInv'
    BY <1>3, PriceIsNatural
    DEF IG!Lock, IG!Body, IG!turn, IG!flow, IG!status, IG!ledger, IG!clock,
        MutexInv, IG!TypeOK, MainHolds, PulseHolds, IG!Shared
  <2>3. ChoiceInv'
    BY <1>3, PriceIsNatural
    DEF IG!Lock, IG!Body, IG!turn, IG!flow, IG!status, IG!ledger, IG!clock,
        ChoiceInv, MutexInv, IG!TypeOK, IG!Choices, IG!Unset
  <2>4. Bounded'
    BY <1>3, PriceIsNatural
    DEF IG!Lock, IG!Body, IG!turn, IG!flow, IG!status, IG!ledger, IG!clock,
        Bounded
  <2>5. LoadedInv'
    BY <1>3, PriceIsNatural
    DEF IG!Lock, IG!Body, IG!turn, IG!flow, IG!status, IG!ledger, IG!clock,
        LoadedInv, Bounded, ChoiceInv, IG!TypeOK, IG!Price
  <2>6. ExactInv'
    BY <1>3, PriceIsNatural
    DEF IG!Lock, IG!Body, IG!turn, IG!flow, IG!status, IG!ledger, IG!clock,
        ExactInv, MutexInv, MainHolds, IG!TypeOK, IG!Shared
  <2>7. LateInv'
    BY <1>3, PriceIsNatural
    DEF IG!Lock, IG!Body, IG!turn, IG!flow, IG!status, IG!ledger, IG!clock,
        LateInv, IG!TypeOK
  <2> QED  BY <2>1, <2>2, <2>3, <2>4, <2>5, <2>6, <2>7 DEF GameInv
<1>4. CASE IG!Unlock
  <2>1. IG!TypeOK'
    BY <1>4, PriceIsNatural
    DEF IG!Unlock, IG!turn, IG!flow, IG!status, IG!ledger, IG!clock, IG!TypeOK,
        IG!Choices, IG!Unset
  <2>2. MutexInv'
    BY <1>4, PriceIsNatural
    DEF IG!Unlock, IG!turn, IG!flow, IG!status, IG!ledger, IG!clock, MutexInv,
        IG!TypeOK, MainHolds, PulseHolds, IG!Shared
  <2>3. ChoiceInv'
    BY <1>4, PriceIsNatural
    DEF IG!Unlock, IG!turn, IG!flow, IG!status, IG!ledger, IG!clock, ChoiceInv,
        MutexInv, IG!TypeOK, IG!Choices, IG!Unset
  <2>4. Bounded'
    BY <1>4, PriceIsNatural
    DEF IG!Unlock, IG!turn, IG!flow, IG!status, IG!ledger, IG!clock, Bounded
  <2>5. LoadedInv'
    BY <1>4, PriceIsNatural
    DEF IG!Unlock, IG!turn, IG!flow, IG!status, IG!ledger, IG!clock, LoadedInv,
        Bounded, ChoiceInv, IG!TypeOK, IG!Price
  <2>6. ExactInv'
    BY <1>4, PriceIsNatural
    DEF IG!Unlock, IG!turn, IG!flow, IG!status, IG!ledger, IG!clock, ExactInv,
        MutexInv, MainHolds, IG!TypeOK, IG!Shared
  <2>7. LateInv'
    BY <1>4, PriceIsNatural
    DEF IG!Unlock, IG!turn, IG!flow, IG!status, IG!ledger, IG!clock, LateInv,
        IG!TypeOK
  <2> QED  BY <2>1, <2>2, <2>3, <2>4, <2>5, <2>6, <2>7 DEF GameInv
<1>5. CASE IG!Join
  <2>1. IG!TypeOK'
    BY <1>5, PriceIsNatural
    DEF IG!Join, IG!Advance, IG!turn, IG!flow, IG!status, IG!ledger, IG!clock,
        IG!TypeOK, IG!Choices, IG!Unset
  <2>2. MutexInv'
    BY <1>5, PriceIsNatural
    DEF IG!Join, IG!Advance, IG!turn, IG!flow, IG!status, IG!ledger, IG!clock,
        MutexInv, IG!TypeOK, MainHolds, PulseHolds, IG!Shared
  <2>3. ChoiceInv'
    BY <1>5, PriceIsNatural
    DEF IG!Join, IG!Advance, IG!turn, IG!flow, IG!status, IG!ledger, IG!clock,
        ChoiceInv, MutexInv, IG!TypeOK, IG!Choices, IG!Unset
  <2>4. Bounded'
    BY <1>5, PriceIsNatural
    DEF IG!Join, IG!Advance, IG!turn, IG!flow, IG!status, IG!ledger, IG!clock,
        Bounded
  <2>5. LoadedInv'
    BY <1>5, PriceIsNatural
    DEF IG!Join, IG!Advance, IG!turn, IG!flow, IG!status, IG!ledger, IG!clock,
        LoadedInv, Bounded, ChoiceInv, IG!TypeOK, IG!Price
  <2>6. ExactInv'
    BY <1>5, PriceIsNatural
    DEF IG!Join, IG!Advance, IG!turn, IG!flow, IG!status, IG!ledger, IG!clock,
        ExactInv, MutexInv, MainHolds, IG!TypeOK, IG!Shared
  <2>7. LateInv'
    BY <1>5, PriceIsNatural
    DEF IG!Join, IG!Advance, IG!turn, IG!flow, IG!status, IG!ledger, IG!clock,
        LateInv, IG!TypeOK
  <2> QED  BY <2>1, <2>2, <2>3, <2>4, <2>5, <2>6, <2>7 DEF GameInv
<1>6. CASE IG!Jam
  <2>1. IG!TypeOK'
    BY <1>6, PriceIsNatural
    DEF IG!Jam, IG!turn, IG!flow, IG!status, IG!ledger, IG!clock, IG!TypeOK,
        IG!Choices, IG!Unset
  <2>2. MutexInv'
    BY <1>6, PriceIsNatural
    DEF IG!Jam, IG!turn, IG!flow, IG!status, IG!ledger, IG!clock, MutexInv,
        IG!TypeOK, MainHolds, PulseHolds, IG!Shared
  <2>3. ChoiceInv'
    BY <1>6, PriceIsNatural
    DEF IG!Jam, IG!turn, IG!flow, IG!status, IG!ledger, IG!clock, ChoiceInv,
        MutexInv, IG!TypeOK, IG!Choices, IG!Unset
  <2>4. Bounded'
    BY <1>6, PriceIsNatural
    DEF IG!Jam, IG!turn, IG!flow, IG!status, IG!ledger, IG!clock, Bounded
  <2>5. LoadedInv'
    BY <1>6, PriceIsNatural
    DEF IG!Jam, IG!turn, IG!flow, IG!status, IG!ledger, IG!clock, LoadedInv,
        Bounded, ChoiceInv, IG!TypeOK, IG!Price
  <2>6. ExactInv'
    BY <1>6, PriceIsNatural
    DEF IG!Jam, IG!turn, IG!flow, IG!status, IG!ledger, IG!clock, ExactInv,
        MutexInv, MainHolds, IG!TypeOK, IG!Shared
  <2>7. LateInv'
    BY <1>6, PriceIsNatural
    DEF IG!Jam, IG!turn, IG!flow, IG!status, IG!ledger, IG!clock, LateInv,
        IG!TypeOK
  <2> QED  BY <2>1, <2>2, <2>3, <2>4, <2>5, <2>6, <2>7 DEF GameInv
<1> QED  BY <1>1, <1>2, <1>3, <1>4, <1>5, <1>6

(* The test of the income, and the loads.                                    *)
LEMMA MainReads ==
  ASSUME GameInv, IG!Check \/ IG!ReadIncome \/ IG!ReadGen
  PROVE  GameInv'
<1> USE DEF GameInv
<1>1. CASE IG!Check
  <2>1. IG!TypeOK'
    BY <1>1, PriceIsNatural
    DEF IG!Check, IG!Leave, IG!Shared, IG!Advance, IG!turn, IG!flow, IG!status,
        IG!ledger, IG!clock, IG!TypeOK, IG!Choices, IG!Unset
  <2>2. MutexInv'
    BY <1>1, PriceIsNatural
    DEF IG!Check, IG!Leave, IG!Shared, IG!Advance, IG!turn, IG!flow, IG!status,
        IG!ledger, IG!clock, MutexInv, IG!TypeOK, MainHolds, PulseHolds
  <2>3. ChoiceInv'
    BY <1>1, PriceIsNatural
    DEF IG!Check, IG!Leave, IG!Shared, IG!Advance, IG!turn, IG!flow, IG!status,
        IG!ledger, IG!clock, ChoiceInv, MutexInv, IG!TypeOK, IG!Choices,
        IG!Unset
  <2>4. Bounded'
    BY <1>1, PriceIsNatural
    DEF IG!Check, IG!Leave, IG!Shared, IG!Advance, IG!turn, IG!flow, IG!status,
        IG!ledger, IG!clock, Bounded
  <2>5. LoadedInv'
    BY <1>1, PriceIsNatural
    DEF IG!Check, IG!Leave, IG!Shared, IG!Advance, IG!turn, IG!flow, IG!status,
        IG!ledger, IG!clock, LoadedInv, Bounded, ChoiceInv, IG!TypeOK, IG!Price
  <2>6. ExactInv'
    BY <1>1, PriceIsNatural
    DEF IG!Check, IG!Leave, IG!Shared, IG!Advance, IG!turn, IG!flow, IG!status,
        IG!ledger, IG!clock, ExactInv, MutexInv, MainHolds, IG!TypeOK
  <2>7. LateInv'
    BY <1>1, PriceIsNatural
    DEF IG!Check, IG!Leave, IG!Shared, IG!Advance, IG!turn, IG!flow, IG!status,
        IG!ledger, IG!clock, LateInv, IG!TypeOK
  <2> QED  BY <2>1, <2>2, <2>3, <2>4, <2>5, <2>6, <2>7 DEF GameInv
<1>2. CASE IG!ReadIncome
  <2>1. IG!TypeOK'
    BY <1>2, PriceIsNatural
    DEF IG!ReadIncome, IG!Account, IG!turn, IG!flow, IG!status, IG!ledger,
        IG!clock, IG!TypeOK, IG!Choices, IG!Unset
  <2>2. MutexInv'
    BY <1>2, PriceIsNatural
    DEF IG!ReadIncome, IG!Account, IG!turn, IG!flow, IG!status, IG!ledger,
        IG!clock, MutexInv, IG!TypeOK, MainHolds, PulseHolds, IG!Shared
  <2>3. ChoiceInv'
    BY <1>2, PriceIsNatural
    DEF IG!ReadIncome, IG!Account, IG!turn, IG!flow, IG!status, IG!ledger,
        IG!clock, ChoiceInv, MutexInv, IG!TypeOK, IG!Choices, IG!Unset
  <2>4. Bounded'
    BY <1>2, PriceIsNatural
    DEF IG!ReadIncome, IG!Account, IG!turn, IG!flow, IG!status, IG!ledger,
        IG!clock, Bounded
  <2>5. LoadedInv'
    BY <1>2, PriceIsNatural
    DEF IG!ReadIncome, IG!Account, IG!turn, IG!flow, IG!status, IG!ledger,
        IG!clock, LoadedInv, Bounded, ChoiceInv, IG!TypeOK, IG!Price
  <2>6. ExactInv'
    BY <1>2, PriceIsNatural
    DEF IG!ReadIncome, IG!Account, IG!turn, IG!flow, IG!status, IG!ledger,
        IG!clock, ExactInv, MutexInv, MainHolds, IG!TypeOK, IG!Shared
  <2>7. LateInv'
    BY <1>2, PriceIsNatural
    DEF IG!ReadIncome, IG!Account, IG!turn, IG!flow, IG!status, IG!ledger,
        IG!clock, LateInv, IG!TypeOK
  <2> QED  BY <2>1, <2>2, <2>3, <2>4, <2>5, <2>6, <2>7 DEF GameInv
<1>3. CASE IG!ReadGen
  <2>1. IG!TypeOK'
    BY <1>3, PriceIsNatural
    DEF IG!ReadGen, IG!Account, IG!Generators, IG!turn, IG!flow, IG!status,
        IG!ledger, IG!clock, IG!TypeOK, IG!Choices, IG!Unset
  <2>2. MutexInv'
    BY <1>3, PriceIsNatural
    DEF IG!ReadGen, IG!Account, IG!Generators, IG!turn, IG!flow, IG!status,
        IG!ledger, IG!clock, MutexInv, IG!TypeOK, MainHolds, PulseHolds,
        IG!Shared
  <2>3. ChoiceInv'
    BY <1>3, PriceIsNatural
    DEF IG!ReadGen, IG!Account, IG!Generators, IG!turn, IG!flow, IG!status,
        IG!ledger, IG!clock, ChoiceInv, MutexInv, IG!TypeOK, IG!Choices,
        IG!Unset
  <2>4. Bounded'
    BY <1>3, PriceIsNatural
    DEF IG!ReadGen, IG!Account, IG!Generators, IG!turn, IG!flow, IG!status,
        IG!ledger, IG!clock, Bounded
  <2>5. LoadedInv'
    BY <1>3, PriceIsNatural
    DEF IG!ReadGen, IG!Account, IG!Generators, IG!turn, IG!flow, IG!status,
        IG!ledger, IG!clock, LoadedInv, Bounded, ChoiceInv, IG!TypeOK, IG!Price
  <2>6. ExactInv'
    BY <1>3, PriceIsNatural
    DEF IG!ReadGen, IG!Account, IG!Generators, IG!turn, IG!flow, IG!status,
        IG!ledger, IG!clock, ExactInv, MutexInv, MainHolds, IG!TypeOK,
        IG!Shared
  <2>7. LateInv'
    BY <1>3, PriceIsNatural
    DEF IG!ReadGen, IG!Account, IG!Generators, IG!turn, IG!flow, IG!status,
        IG!ledger, IG!clock, LateInv, IG!TypeOK
  <2> QED  BY <2>1, <2>2, <2>3, <2>4, <2>5, <2>6, <2>7 DEF GameInv
<1> QED  BY <1>1, <1>2, <1>3

(* A choice, read by scanf() or left over by the round before.               *)
LEMMA Deciding ==
  ASSUME GameInv, NEW c \in IG!Choices \cup {IG!Unset}, NEW going \in BOOLEAN,
         NEW broken \in BOOLEAN, c \in IG!Choices,
         pc = "scanf", IG!Decide(c, going, broken), going \/ ~toContinue',
         toContinue' \in BOOLEAN, toContinue' => toContinue,
         UNCHANGED <<program, killed, jammed, IG!ledger, mut, reg, IG!clock>>
  PROVE  GameInv'
<1> USE DEF GameInv
<1>1. IG!TypeOK'
  BY PriceIsNatural
  DEF IG!Decide, IG!Switch, IG!Body, IG!Shared, IG!turn, IG!flow, IG!status,
      IG!ledger, IG!clock, IG!TypeOK, IG!Choices, IG!Unset
<1>2. MutexInv'
  BY PriceIsNatural
  DEF IG!Decide, IG!Switch, IG!Body, IG!Shared, IG!turn, IG!flow, IG!status,
      IG!ledger, IG!clock, MutexInv, IG!TypeOK, MainHolds, PulseHolds
<1>3. ChoiceInv'
  BY PriceIsNatural
  DEF IG!Decide, IG!Switch, IG!Body, IG!Shared, IG!turn, IG!flow, IG!status,
      IG!ledger, IG!clock, ChoiceInv, MutexInv, IG!TypeOK, IG!Choices, IG!Unset
<1>4. Bounded'
  BY PriceIsNatural
  DEF IG!Decide, IG!Switch, IG!Body, IG!Shared, IG!turn, IG!flow, IG!status,
      IG!ledger, IG!clock, Bounded
<1>5. LoadedInv'
  BY PriceIsNatural
  DEF IG!Decide, IG!Switch, IG!Body, IG!Shared, IG!turn, IG!flow, IG!status,
      IG!ledger, IG!clock, LoadedInv, Bounded, ChoiceInv, IG!TypeOK, IG!Price
<1>6. ExactInv'
  BY PriceIsNatural
  DEF IG!Decide, IG!Switch, IG!Body, IG!Shared, IG!turn, IG!flow, IG!status,
      IG!ledger, IG!clock, ExactInv, MutexInv, MainHolds, IG!TypeOK
<1>7. LateInv'
  BY PriceIsNatural
  DEF IG!Decide, IG!Switch, IG!Body, IG!Shared, IG!turn, IG!flow, IG!status,
      IG!ledger, IG!clock, LateInv, IG!TypeOK
<1> QED  BY <1>1, <1>2, <1>3, <1>4, <1>5, <1>6, <1>7 DEF GameInv

LEMMA Scanning ==
  ASSUME GameInv,
         (\E c \in IG!Choices : IG!Type(c)) \/ IG!ScanfFails \/ IG!InterruptScanf
  PROVE  GameInv'
<1> USE DEF GameInv
<1>1. ASSUME NEW c \in IG!Choices, IG!Type(c) PROVE GameInv'
  BY <1>1, Deciding DEF IG!Type, IG!status, IG!TypeOK
<1>2. IG!Stale \subseteq IG!Choices
  BY DEF IG!Stale, IG!TypeOK
<1>3. CASE IG!ScanfFails
  <2>1. PICK c \in IG!Stale : IG!Decide(c, toContinue, FALSE)
    BY <1>3 DEF IG!ScanfFails
  <2>2. c \in IG!Choices /\ toContinue \in BOOLEAN
    BY <1>2 DEF IG!TypeOK
  <2> QED  BY <1>3, <2>1, <2>2, Deciding DEF IG!ScanfFails, IG!status
<1>4. CASE IG!InterruptScanf
  <2>1. PICK c \in IG!Stale : IG!Decide(c, FALSE, TRUE)
    BY <1>4 DEF IG!InterruptScanf
  <2>2. c \in IG!Choices
    BY <1>2
  <2> QED
    BY <1>4, <2>1, <2>2, Deciding DEF IG!InterruptScanf, IG!clock
<1> QED  BY <1>1, <1>3, <1>4

(* The heartbeat thread outside the beat, the child, SIGINT and nothing at   *)
(* all.                                                                      *)
LEMMA PulseMoves ==
  ASSUME GameInv, IG!PulseTop \/ IG!PulseLock \/ IG!PulseUnlock \/ IG!Ping \/ IG!Kill \/ IG!Interrupt \/ UNCHANGED IG!vars
  PROVE  GameInv'
<1> USE DEF GameInv
<1>1. CASE IG!PulseTop
  <2>1. IG!TypeOK'
    BY <1>1, PriceIsNatural
    DEF IG!PulseTop, IG!flow, IG!turn, IG!status, IG!ledger, IG!clock,
        IG!TypeOK, IG!Choices, IG!Unset
  <2>2. MutexInv'
    BY <1>1, PriceIsNatural
    DEF IG!PulseTop, IG!flow, IG!turn, IG!status, IG!ledger, IG!clock,
        MutexInv, IG!TypeOK, MainHolds, PulseHolds, IG!Shared
  <2>3. ChoiceInv'
    BY <1>1, PriceIsNatural
    DEF IG!PulseTop, IG!flow, IG!turn, IG!status, IG!ledger, IG!clock,
        ChoiceInv, MutexInv, IG!TypeOK, IG!Choices, IG!Unset
  <2>4. Bounded'
    BY <1>1, PriceIsNatural
    DEF IG!PulseTop, IG!flow, IG!turn, IG!status, IG!ledger, IG!clock, Bounded
  <2>5. LoadedInv'
    BY <1>1, PriceIsNatural
    DEF IG!PulseTop, IG!flow, IG!turn, IG!status, IG!ledger, IG!clock,
        LoadedInv, Bounded, ChoiceInv, IG!TypeOK, IG!Price
  <2>6. ExactInv'
    BY <1>1, PriceIsNatural
    DEF IG!PulseTop, IG!flow, IG!turn, IG!status, IG!ledger, IG!clock,
        ExactInv, MutexInv, MainHolds, IG!TypeOK, IG!Shared
  <2>7. LateInv'
    BY <1>1, PriceIsNatural
    DEF IG!PulseTop, IG!flow, IG!turn, IG!status, IG!ledger, IG!clock, LateInv,
        IG!TypeOK
  <2> QED  BY <2>1, <2>2, <2>3, <2>4, <2>5, <2>6, <2>7 DEF GameInv
<1>2. CASE IG!PulseLock
  <2>1. IG!TypeOK'
    BY <1>2, PriceIsNatural
    DEF IG!PulseLock, IG!flow, IG!turn, IG!status, IG!ledger, IG!clock,
        IG!TypeOK, IG!Choices, IG!Unset
  <2>2. MutexInv'
    BY <1>2, PriceIsNatural
    DEF IG!PulseLock, IG!flow, IG!turn, IG!status, IG!ledger, IG!clock,
        MutexInv, IG!TypeOK, MainHolds, PulseHolds, IG!Shared
  <2>3. ChoiceInv'
    BY <1>2, PriceIsNatural
    DEF IG!PulseLock, IG!flow, IG!turn, IG!status, IG!ledger, IG!clock,
        ChoiceInv, MutexInv, IG!TypeOK, IG!Choices, IG!Unset
  <2>4. Bounded'
    BY <1>2, PriceIsNatural
    DEF IG!PulseLock, IG!flow, IG!turn, IG!status, IG!ledger, IG!clock, Bounded
  <2>5. LoadedInv'
    BY <1>2, PriceIsNatural
    DEF IG!PulseLock, IG!flow, IG!turn, IG!status, IG!ledger, IG!clock,
        LoadedInv, Bounded, ChoiceInv, IG!TypeOK, IG!Price
  <2>6. ExactInv'
    BY <1>2, PriceIsNatural
    DEF IG!PulseLock, IG!flow, IG!turn, IG!status, IG!ledger, IG!clock,
        ExactInv, MutexInv, MainHolds, IG!TypeOK, IG!Shared
  <2>7. LateInv'
    BY <1>2, PriceIsNatural
    DEF IG!PulseLock, IG!flow, IG!turn, IG!status, IG!ledger, IG!clock,
        LateInv, IG!TypeOK
  <2> QED  BY <2>1, <2>2, <2>3, <2>4, <2>5, <2>6, <2>7 DEF GameInv
<1>3. CASE IG!PulseUnlock
  <2>1. IG!TypeOK'
    BY <1>3, PriceIsNatural
    DEF IG!PulseUnlock, IG!flow, IG!turn, IG!status, IG!ledger, IG!clock,
        IG!TypeOK, IG!Choices, IG!Unset
  <2>2. MutexInv'
    BY <1>3, PriceIsNatural
    DEF IG!PulseUnlock, IG!flow, IG!turn, IG!status, IG!ledger, IG!clock,
        MutexInv, IG!TypeOK, MainHolds, PulseHolds, IG!Shared
  <2>3. ChoiceInv'
    BY <1>3, PriceIsNatural
    DEF IG!PulseUnlock, IG!flow, IG!turn, IG!status, IG!ledger, IG!clock,
        ChoiceInv, MutexInv, IG!TypeOK, IG!Choices, IG!Unset
  <2>4. Bounded'
    BY <1>3, PriceIsNatural
    DEF IG!PulseUnlock, IG!flow, IG!turn, IG!status, IG!ledger, IG!clock,
        Bounded
  <2>5. LoadedInv'
    BY <1>3, PriceIsNatural
    DEF IG!PulseUnlock, IG!flow, IG!turn, IG!status, IG!ledger, IG!clock,
        LoadedInv, Bounded, ChoiceInv, IG!TypeOK, IG!Price
  <2>6. ExactInv'
    BY <1>3, PriceIsNatural
    DEF IG!PulseUnlock, IG!flow, IG!turn, IG!status, IG!ledger, IG!clock,
        ExactInv, MutexInv, MainHolds, IG!TypeOK, IG!Shared
  <2>7. LateInv'
    BY <1>3, PriceIsNatural
    DEF IG!PulseUnlock, IG!flow, IG!turn, IG!status, IG!ledger, IG!clock,
        LateInv, IG!TypeOK
  <2> QED  BY <2>1, <2>2, <2>3, <2>4, <2>5, <2>6, <2>7 DEF GameInv
<1>4. CASE IG!Ping
  <2>1. IG!TypeOK'
    BY <1>4, PriceIsNatural
    DEF IG!Ping, IG!flow, IG!turn, IG!status, IG!ledger, IG!clock, IG!TypeOK,
        IG!Choices, IG!Unset
  <2>2. MutexInv'
    BY <1>4, PriceIsNatural
    DEF IG!Ping, IG!flow, IG!turn, IG!status, IG!ledger, IG!clock, MutexInv,
        IG!TypeOK, MainHolds, PulseHolds, IG!Shared
  <2>3. ChoiceInv'
    BY <1>4, PriceIsNatural
    DEF IG!Ping, IG!flow, IG!turn, IG!status, IG!ledger, IG!clock, ChoiceInv,
        MutexInv, IG!TypeOK, IG!Choices, IG!Unset
  <2>4. Bounded'
    BY <1>4, PriceIsNatural
    DEF IG!Ping, IG!flow, IG!turn, IG!status, IG!ledger, IG!clock, Bounded
  <2>5. LoadedInv'
    BY <1>4, PriceIsNatural
    DEF IG!Ping, IG!flow, IG!turn, IG!status, IG!ledger, IG!clock, LoadedInv,
        Bounded, ChoiceInv, IG!TypeOK, IG!Price
  <2>6. ExactInv'
    BY <1>4, PriceIsNatural
    DEF IG!Ping, IG!flow, IG!turn, IG!status, IG!ledger, IG!clock, ExactInv,
        MutexInv, MainHolds, IG!TypeOK, IG!Shared
  <2>7. LateInv'
    BY <1>4, PriceIsNatural
    DEF IG!Ping, IG!flow, IG!turn, IG!status, IG!ledger, IG!clock, LateInv,
        IG!TypeOK
  <2> QED  BY <2>1, <2>2, <2>3, <2>4, <2>5, <2>6, <2>7 DEF GameInv
<1>5. CASE IG!Kill
  <2>1. IG!TypeOK'
    BY <1>5, PriceIsNatural
    DEF IG!Kill, IG!flow, IG!turn, IG!status, IG!ledger, IG!clock, IG!TypeOK,
        IG!Choices, IG!Unset
  <2>2. MutexInv'
    BY <1>5, PriceIsNatural
    DEF IG!Kill, IG!flow, IG!turn, IG!status, IG!ledger, IG!clock, MutexInv,
        IG!TypeOK, MainHolds, PulseHolds, IG!Shared
  <2>3. ChoiceInv'
    BY <1>5, PriceIsNatural
    DEF IG!Kill, IG!flow, IG!turn, IG!status, IG!ledger, IG!clock, ChoiceInv,
        MutexInv, IG!TypeOK, IG!Choices, IG!Unset
  <2>4. Bounded'
    BY <1>5, PriceIsNatural
    DEF IG!Kill, IG!flow, IG!turn, IG!status, IG!ledger, IG!clock, Bounded
  <2>5. LoadedInv'
    BY <1>5, PriceIsNatural
    DEF IG!Kill, IG!flow, IG!turn, IG!status, IG!ledger, IG!clock, LoadedInv,
        Bounded, ChoiceInv, IG!TypeOK, IG!Price
  <2>6. ExactInv'
    BY <1>5, PriceIsNatural
    DEF IG!Kill, IG!flow, IG!turn, IG!status, IG!ledger, IG!clock, ExactInv,
        MutexInv, MainHolds, IG!TypeOK, IG!Shared
  <2>7. LateInv'
    BY <1>5, PriceIsNatural
    DEF IG!Kill, IG!flow, IG!turn, IG!status, IG!ledger, IG!clock, LateInv,
        IG!TypeOK
  <2> QED  BY <2>1, <2>2, <2>3, <2>4, <2>5, <2>6, <2>7 DEF GameInv
<1>6. CASE IG!Interrupt
  <2>1. IG!TypeOK'
    BY <1>6, PriceIsNatural
    DEF IG!Interrupt, IG!Quits, IG!flow, IG!turn, IG!status, IG!ledger,
        IG!clock, IG!TypeOK, IG!Choices, IG!Unset
  <2>2. MutexInv'
    BY <1>6, PriceIsNatural
    DEF IG!Interrupt, IG!Quits, IG!flow, IG!turn, IG!status, IG!ledger,
        IG!clock, MutexInv, IG!TypeOK, MainHolds, PulseHolds, IG!Shared
  <2>3. ChoiceInv'
    BY <1>6, PriceIsNatural
    DEF IG!Interrupt, IG!Quits, IG!flow, IG!turn, IG!status, IG!ledger,
        IG!clock, ChoiceInv, MutexInv, IG!TypeOK, IG!Choices, IG!Unset
  <2>4. Bounded'
    BY <1>6, PriceIsNatural
    DEF IG!Interrupt, IG!Quits, IG!flow, IG!turn, IG!status, IG!ledger,
        IG!clock, Bounded
  <2>5. LoadedInv'
    BY <1>6, PriceIsNatural
    DEF IG!Interrupt, IG!Quits, IG!flow, IG!turn, IG!status, IG!ledger,
        IG!clock, LoadedInv, Bounded, ChoiceInv, IG!TypeOK, IG!Price
  <2>6. ExactInv'
    BY <1>6, PriceIsNatural
    DEF IG!Interrupt, IG!Quits, IG!flow, IG!turn, IG!status, IG!ledger,
        IG!clock, ExactInv, MutexInv, MainHolds, IG!TypeOK, IG!Shared
  <2>7. LateInv'
    BY <1>6, PriceIsNatural
    DEF IG!Interrupt, IG!Quits, IG!flow, IG!turn, IG!status, IG!ledger,
        IG!clock, LateInv, IG!TypeOK
  <2> QED  BY <2>1, <2>2, <2>3, <2>4, <2>5, <2>6, <2>7 DEF GameInv
<1>7. CASE UNCHANGED IG!vars
  <2>1. IG!TypeOK'
    BY <1>7, PriceIsNatural
    DEF IG!vars, IG!flow, IG!turn, IG!status, IG!ledger, IG!clock, IG!TypeOK,
        IG!Choices, IG!Unset
  <2>2. MutexInv'
    BY <1>7, PriceIsNatural
    DEF IG!vars, IG!flow, IG!turn, IG!status, IG!ledger, IG!clock, MutexInv,
        IG!TypeOK, MainHolds, PulseHolds, IG!Shared
  <2>3. ChoiceInv'
    BY <1>7, PriceIsNatural
    DEF IG!vars, IG!flow, IG!turn, IG!status, IG!ledger, IG!clock, ChoiceInv,
        MutexInv, IG!TypeOK, IG!Choices, IG!Unset
  <2>4. Bounded'
    BY <1>7, PriceIsNatural
    DEF IG!vars, IG!flow, IG!turn, IG!status, IG!ledger, IG!clock, Bounded
  <2>5. LoadedInv'
    BY <1>7, PriceIsNatural
    DEF IG!vars, IG!flow, IG!turn, IG!status, IG!ledger, IG!clock, LoadedInv,
        Bounded, ChoiceInv, IG!TypeOK, IG!Price
  <2>6. ExactInv'
    BY <1>7, PriceIsNatural
    DEF IG!vars, IG!flow, IG!turn, IG!status, IG!ledger, IG!clock, ExactInv,
        MutexInv, MainHolds, IG!TypeOK, IG!Shared
  <2>7. LateInv'
    BY <1>7, PriceIsNatural
    DEF IG!vars, IG!flow, IG!turn, IG!status, IG!ledger, IG!clock, LateInv,
        IG!TypeOK
  <2> QED  BY <2>1, <2>2, <2>3, <2>4, <2>5, <2>6, <2>7 DEF GameInv
<1> QED  BY <1>1, <1>2, <1>3, <1>4, <1>5, <1>6, <1>7

-----------------------------------------------------------------------------
(* Steps that change the account *)

(* A tick or a payment stores what was loaded: heartbeats in between are     *)
(* lost, the purchases are not.                                              *)
LEMMA Storing == ASSUME GameInv, IG!WriteIncome PROVE GameInv'
<1> USE DEF GameInv
<1>1. choice \in 1 .. 4 /\ IG!Price \in Nat /\ pc = "write"
  BY PriceIsNatural DEF IG!WriteIncome, ChoiceInv
<1>2. /\ acct.income \in Int /\ books.income \in Int /\ reg \in Int
      /\ IG!Price <= reg /\ reg <= acct.income /\ acct.income <= books.income
  BY <1>1 DEF LoadedInv, Bounded, IG!TypeOK, IG!Account
<1>3. PICK d \in Int : /\ acct' = [acct EXCEPT !.income = reg + d]
                       /\ books' = [books EXCEPT !.income = books.income + d]
                       /\ 0 <= reg + d
  <2>1. CASE choice = 1
    BY <1>1, <1>2, <2>1 DEF IG!WriteIncome
  <2>2. CASE choice # 1
    <3>1. 0 - IG!Price \in Int /\ reg + (0 - IG!Price) = reg - IG!Price
          /\ books.income + (0 - IG!Price) = books.income - IG!Price
      BY <1>1, <1>2
    <3> QED  BY <1>1, <1>2, <2>2, <3>1 DEF IG!WriteIncome
  <2> QED  BY <2>1, <2>2
<1>4. /\ acct' \in IG!Account /\ books' \in IG!Account
      /\ acct'.income = reg + d /\ books'.income = books.income + d
      /\ acct'.gen = acct.gen /\ books'.gen = books.gen /\ bought' = bought
  BY <1>2, <1>3 DEF IG!TypeOK, IG!Account, IG!WriteIncome
<1>5. IG!TypeOK'
  BY <1>4 DEF IG!WriteIncome, IG!Leave, IG!turn, IG!status, IG!clock, IG!TypeOK
<1>6. Bounded'
  BY <1>2, <1>3, <1>4 DEF Bounded
<1>7. MutexInv' /\ ChoiceInv' /\ LateInv'
  BY <1>1 DEF IG!WriteIncome, IG!Leave, IG!Shared, IG!turn, IG!status, IG!clock,
     MutexInv, MainHolds, PulseHolds, ChoiceInv, LateInv, IG!TypeOK
<1>8. LoadedInv' /\ ExactInv'
  BY <1>1 DEF IG!WriteIncome, IG!Leave, LoadedInv, ExactInv
<1> QED  BY <1>5, <1>6, <1>7, <1>8

(* A generator is delivered.                                                 *)
LEMMA Delivering == ASSUME GameInv, IG!WriteGen PROVE GameInv'
<1> USE DEF GameInv
<1>1. choice \in 2 .. 4 /\ pc = "genWrite"
  BY DEF IG!WriteGen, ChoiceInv
<1> DEFINE lev == choice - 1
<1>2. lev \in IG!Generators
  BY <1>1 DEF IG!Generators
<1>3. bought[lev] <= reg /\ reg <= acct.gen[lev] /\ acct.gen[lev] <= books.gen[lev]
  BY <1>1, <1>2 DEF LoadedInv, Bounded
<1>4. acct' = [acct EXCEPT !.gen[lev] = reg + 1]
      /\ books' = [books EXCEPT !.gen[lev] = @ + 1]
      /\ bought' = [bought EXCEPT ![lev] = @ + 1]
  BY DEF IG!WriteGen
<1> HIDE DEF lev
<1>5. /\ acct' \in IG!Account /\ books' \in IG!Account
      /\ bought' \in [IG!Generators -> Nat]
      /\ acct'.income = acct.income /\ books'.income = books.income
      /\ acct'.gen = [acct.gen EXCEPT ![lev] = reg + 1]
      /\ books'.gen = [books.gen EXCEPT ![lev] = books.gen[lev] + 1]
  BY <1>2, <1>4 DEF IG!TypeOK, IG!Account
<1>6. IG!TypeOK'
  BY <1>5 DEF IG!WriteGen, IG!Leave, IG!turn, IG!status, IG!clock, IG!TypeOK
<1>7. Bounded'
  BY <1>2, <1>3, <1>4, <1>5 DEF Bounded, IG!TypeOK, IG!Account
<1>8. MutexInv' /\ ChoiceInv' /\ LateInv'
  BY <1>1 DEF IG!WriteGen, IG!Leave, IG!Shared, IG!turn, IG!status, IG!clock,
     MutexInv, MainHolds, PulseHolds, ChoiceInv, LateInv, IG!TypeOK
<1>9. LoadedInv' /\ ExactInv'
  BY <1>1 DEF IG!WriteGen, IG!Leave, LoadedInv, ExactInv
<1> QED  BY <1>6, <1>7, <1>8, <1>9

(* A heartbeat adds to the account, and to what it would be.                 *)
LEMMA Beating ==
  ASSUME GameInv, acct' = IG!Accrue(acct), books' = IG!Accrue(books),
         UNCHANGED bought
  PROVE  /\ acct' \in IG!Account /\ books' \in IG!Account /\ Bounded'
         /\ acct'.income >= acct.income /\ acct.income \in Int
         /\ acct'.income \in Int
         /\ \A k \in IG!Generators :
              /\ acct'.gen[k] >= acct.gen[k]
              /\ acct.gen[k] \in Int /\ acct'.gen[k] \in Int
<1> USE DEF GameInv
<1>1. acct \in IG!Account /\ books \in IG!Account
  BY DEF IG!TypeOK
<1>2. acct.income <= books.income
      /\ \A k \in IG!Generators : /\ acct.gen[k] <= books.gen[k]
                                  /\ acct.gen[k] >= 0 /\ books.gen[k] >= 0
                                  /\ bought[k] \in Nat /\ bought[k] <= acct.gen[k]
  BY <1>1 DEF Bounded, IG!TypeOK, IG!Account
<1>3. /\ acct' \in IG!Account /\ acct'.income >= acct.income
      /\ \A k \in IG!Generators : acct'.gen[k] >= acct.gen[k]
  BY <1>1, <1>2, AccrueOnlyAdds
<1>4. books' \in IG!Account
  BY <1>1, <1>2, AccrueOnlyAdds
<1>5. /\ acct'.income <= books'.income
      /\ \A k \in IG!Generators : acct'.gen[k] <= books'.gen[k]
  BY <1>1, <1>2, AccrueKeepsOrder
<1>6. /\ acct.income \in Int /\ acct'.income \in Int
      /\ \A k \in IG!Generators : acct.gen[k] \in Int /\ acct'.gen[k] \in Int
  BY <1>1, <1>3 DEF IG!Account
<1>7. Bounded'
  BY <1>2, <1>3, <1>5, <1>6 DEF Bounded
<1> QED  BY <1>3, <1>4, <1>6, <1>7

LEMMA Heartbeats == ASSUME GameInv, IG!PulseBeat \/ IG!Heartbeat PROVE GameInv'
<1> USE DEF GameInv
<1>1. CASE IG!PulseBeat
  <2>1. acct' = IG!Accrue(acct) /\ books' = IG!Accrue(books) /\ bought' = bought
    BY <1>1 DEF IG!PulseBeat
  <2>2. IG!Shared /\ mut = "pulse" /\ pc \notin MainHolds
    BY <1>1 DEF IG!PulseBeat, MutexInv, PulseHolds
  <2>3. IG!TypeOK'
    BY <1>1, <2>1, Beating DEF IG!PulseBeat, IG!TypeOK, IG!flow, IG!turn, IG!status
  <2>4. MutexInv' /\ ChoiceInv' /\ LateInv'
    BY <1>1, <2>2 DEF IG!PulseBeat, IG!Shared, IG!flow, IG!turn, IG!status,
       MutexInv, MainHolds, PulseHolds, ChoiceInv, LateInv
  <2>5. LoadedInv' /\ ExactInv'
    BY <1>1, <2>2 DEF IG!PulseBeat, IG!flow, LoadedInv, ExactInv, MainHolds
  <2> QED  BY <2>1, <2>3, <2>4, <2>5, Beating
<1>2. CASE IG!Heartbeat /\ pc = "install"
  <2>1. /\ UNCHANGED <<IG!flow, IG!ledger, beats, program, toContinue, jammed,
                      mut, reg, pulse>>
        /\ pending' = FALSE /\ killed' = TRUE
    BY <1>2 DEF IG!Heartbeat
  <2> QED
    BY <1>2, <2>1 DEF IG!flow, IG!turn, IG!ledger, IG!TypeOK, MutexInv, IG!Shared,
       ChoiceInv, LateInv, LoadedInv, ExactInv, Bounded
<1>3. CASE IG!Heartbeat /\ pc # "install"
  <2>1. /\ acct' = IG!Accrue(acct) /\ books' = IG!Accrue(books) /\ bought' = bought
        /\ beats' = beats + 1 /\ pending' = FALSE
        /\ UNCHANGED <<IG!flow, program, toContinue, jammed, killed, mut, reg,
                      pulse>>
    BY <1>3 DEF IG!Heartbeat
  <2>2. ~IG!Shared
    BY <1>3 DEF IG!Heartbeat, MutexInv
  <2>3. IG!TypeOK'
    <3>1. acct' \in IG!Account /\ books' \in IG!Account
      BY <2>1, Beating
    <3>2. beats' \in Nat
      BY <2>1 DEF IG!TypeOK
    <3>3. /\ pc' = pc /\ choice' = choice /\ interrupted' = interrupted
          /\ late' = late /\ inputs' = inputs
      BY <2>1 DEF IG!flow, IG!turn
    <3>4. /\ program' = program /\ toContinue' = toContinue /\ jammed' = jammed
          /\ killed' = killed /\ mut' = mut /\ reg' = reg /\ pulse' = pulse
      BY <2>1
    <3>5. pending' \in BOOLEAN
      BY <2>1, Zenon
    <3>6. bought' = bought
      BY <2>1
    <3> QED  BY <3>1, <3>2, <3>3, <3>4, <3>5, <3>6 DEF IG!TypeOK
  <2>4. MutexInv' /\ ChoiceInv' /\ LateInv' /\ ExactInv'
    BY <2>1, <2>2 DEF IG!Shared, IG!flow, IG!turn, MutexInv, ChoiceInv, LateInv,
       ExactInv
  <2>5. LoadedInv'
    <3>1. UNCHANGED <<pc, choice, reg, IG!Price>>
      BY <2>1 DEF IG!flow, IG!turn, IG!Price
    <3>2. CASE pc = "read"
      <4>1. IG!Price \in Nat /\ acct.income >= IG!Price
        BY <3>2, PriceIsNatural DEF ChoiceInv, LoadedInv
      <4> QED  BY <2>1, <3>1, <3>2, <4>1, Beating DEF LoadedInv
    <3>3. CASE pc = "write"
      <4>1. IG!Price <= reg /\ reg <= acct.income /\ reg \in Int
        BY <3>3 DEF LoadedInv, IG!TypeOK
      <4> QED  BY <2>1, <3>1, <3>3, <4>1, Beating DEF LoadedInv
    <3>4. CASE pc = "genWrite"
      <4>1. choice - 1 \in IG!Generators /\ reg \in Int
        BY <3>4 DEF ChoiceInv, IG!TypeOK, IG!Generators
      <4>2. bought[choice - 1] <= reg /\ reg <= acct.gen[choice - 1]
        BY <3>4 DEF LoadedInv
      <4>3. reg <= acct'.gen[choice - 1]
        BY <2>1, <4>1, <4>2, Beating
      <4> QED  BY <2>1, <3>1, <3>4, <4>2, <4>3 DEF LoadedInv
    <3> QED  BY <3>1, <3>2, <3>3, <3>4 DEF LoadedInv
  <2> QED  BY <2>1, <2>3, <2>4, <2>5, Beating
<1> QED  BY <1>1, <1>2, <1>3

LEMMA GameStep == GameInv /\ [IG!Next]_(IG!vars) => GameInv'
BY MainMoves, MainReads, Scanning, PulseMoves, Storing, Delivering, Heartbeats
DEF IG!Next, IG!MainStep, IG!PulseStep, IG!Rest

-----------------------------------------------------------------------------
(* The refinement *)

(* A purchase is under way: paid for and not delivered.                      *)
Paid == pc \in {"genRead", "genWrite"}

(* The account the player sees does not change as long as main() neither     *)
(* stores to it nor begins or ends a purchase.                               *)
LEMMA SettledStays ==
  ASSUME UNCHANGED <<program, acct>>, Paid' <=> Paid, Paid => choice' = choice
  PROVE  IG!Settled' = IG!Settled
<1>1. CASE Paid
  <2>1. IG!Price' = IG!Price
    BY <1>1 DEF IG!Price
  <2> QED  BY <1>1, <2>1 DEF IG!Settled, IG!Shared, Paid
<1>2. CASE ~Paid
  BY <1>2 DEF IG!Settled, IG!Shared, Paid
<1> QED  BY <1>1, <1>2

LEMMA QuietSteps ==
  ASSUME IG!TypeOK,
         \/ IG!Install \/ IG!LoopTop \/ IG!ScanfFails \/ IG!Lock \/ IG!Check
         \/ IG!ReadIncome \/ IG!ReadGen \/ IG!Unlock \/ IG!Join
         \/ (\E c \in IG!Choices : IG!Type(c)) \/ IG!Jam
         \/ IG!PulseTop \/ IG!PulseLock \/ IG!PulseUnlock \/ IG!Ping
         \/ IG!Kill \/ IG!Interrupt \/ IG!InterruptScanf \/ UNCHANGED IG!vars
  PROVE  IG!Settled' = IG!Settled
<1> USE DEF Paid
<1>1. CASE IG!Install \/ IG!LoopTop \/ IG!Check \/ IG!Join
  BY <1>1, SettledStays DEF IG!Install, IG!LoopTop, IG!Check, IG!Join, IG!Advance,
     IG!Leave, IG!turn, IG!status, IG!ledger
<1>2. CASE IG!Lock \/ IG!Unlock \/ IG!ReadIncome \/ IG!ReadGen
  BY <1>2, SettledStays DEF IG!Lock, IG!Unlock, IG!ReadIncome, IG!ReadGen,
     IG!Body, IG!turn, IG!status, IG!ledger
<1>3. CASE \E c \in IG!Choices : IG!Type(c)
  BY <1>3, SettledStays DEF IG!Type, IG!Decide, IG!Switch, IG!Body, IG!status,
     IG!ledger
<1>4. CASE IG!ScanfFails
  BY <1>4, SettledStays DEF IG!ScanfFails, IG!Decide, IG!Switch, IG!Body,
     IG!status, IG!ledger
<1>5. CASE IG!InterruptScanf
  BY <1>5, SettledStays DEF IG!InterruptScanf, IG!Decide, IG!Switch, IG!Body,
     IG!ledger
<1>6. CASE IG!Jam \/ IG!Ping \/ IG!Kill \/ IG!Interrupt \/ UNCHANGED IG!vars
  BY <1>6, SettledStays DEF IG!Jam, IG!Ping, IG!Kill, IG!Interrupt, IG!vars,
     IG!flow, IG!turn, IG!status, IG!ledger
<1>7. CASE IG!PulseTop \/ IG!PulseLock \/ IG!PulseUnlock
  BY <1>7, SettledStays DEF IG!PulseTop, IG!PulseLock, IG!PulseUnlock, IG!flow,
     IG!turn, IG!status, IG!ledger
<1> QED  BY <1>1, <1>2, <1>3, <1>4, <1>5, <1>6, <1>7

(* Two accounts with the same income and generators are the same.            *)
LEMMA SameAccount ==
  ASSUME NEW a \in IG!Account, NEW b \in IG!Account,
         a.income = b.income, a.gen = b.gen
  PROVE  a = b
BY DEF IG!Account

(* A tick is one step of the abstract account; a payment is none.            *)
LEMMA StoreRefines ==
  ASSUME GameInv, IG!Shared, IG!WriteIncome
  PROVE  IG!A!Next \/ IG!Settled' = IG!Settled
<1>1. /\ acct \in IG!Account /\ pc = "write" /\ choice \in 1 .. 4
      /\ reg = acct.income /\ IG!Shared'
  BY DEF GameInv, IG!TypeOK, IG!WriteIncome, ChoiceInv, ExactInv, IG!Shared,
     IG!status
<1>2. IG!Settled = acct
  BY <1>1 DEF IG!Settled
<1>3. CASE choice = 1
  <2>1. IG!Settled' = [acct EXCEPT !.income = reg + 1]
    BY <1>1, <1>3 DEF IG!WriteIncome, IG!Leave, IG!Settled
  <2> QED  BY <1>1, <1>2, <2>1 DEF IG!A!Next, IG!A!Tick
<1>4. CASE choice # 1
  <2>1. IG!Price' = IG!Price /\ IG!Price \in Nat
    BY <1>1, PriceIsNatural DEF IG!WriteIncome, IG!turn, IG!Price
  <2>2. acct' = [acct EXCEPT !.income = reg - IG!Price] /\ pc' = "genRead"
    BY <1>4 DEF IG!WriteIncome
  <2>3. IG!Settled' = [acct' EXCEPT !.income = @ + IG!Price]
    BY <1>1, <2>1, <2>2 DEF IG!Settled
  <2>4. acct.income \in Int
    BY <1>1 DEF IG!Account
  <2>5. acct' \in IG!Account /\ acct'.gen = acct.gen
        /\ acct'.income = acct.income - IG!Price
    BY <1>1, <2>1, <2>2, <2>4 DEF IG!Account
  <2>6. IG!Settled' \in IG!Account /\ IG!Settled'.gen = acct.gen
        /\ IG!Settled'.income = (acct.income - IG!Price) + IG!Price
    BY <2>1, <2>3, <2>4, <2>5 DEF IG!Account
  <2> QED  BY <1>1, <1>2, <2>1, <2>4, <2>6, SameAccount
<1> QED  BY <1>3, <1>4

(* The delivery is the purchase of the abstract account.                     *)
LEMMA DeliveryRefines ==
  ASSUME GameInv, IG!Shared, IG!WriteGen
  PROVE  IG!A!Next
<1> DEFINE lev == choice - 1
<1>1. /\ acct \in IG!Account /\ pc = "genWrite" /\ choice \in 2 .. 4
      /\ IG!Shared' /\ choice' = choice /\ lev \in 1 .. 3
  BY DEF GameInv, IG!TypeOK, IG!WriteGen, ChoiceInv, IG!Shared, IG!status, IG!turn
<1>2. IG!Price = Costs[lev] /\ Costs[lev] \in Nat
  BY <1>1, PricesArePositive DEF IG!Price
<1>3. reg = acct.gen[lev]
  BY <1>1 DEF GameInv, ExactInv
<1>4. acct' = [acct EXCEPT !.gen[lev] = reg + 1]
  BY DEF IG!WriteGen
<1>5. IG!Settled = [acct EXCEPT !.income = @ + IG!Price]
  BY <1>1 DEF IG!Settled
<1>6. IG!Settled' = acct'
  BY <1>1 DEF IG!Settled, IG!WriteGen, IG!Leave
<1> HIDE DEF lev
<1>7. acct.income \in Int /\ acct.income >= 0
  BY <1>1 DEF GameInv, Bounded, IG!Account
<1>8. IG!Settled.income >= Costs[lev]
  BY <1>1, <1>2, <1>5, <1>7 DEF IG!Account
<1>9. acct' = [IG!Settled EXCEPT !.income = @ - Costs[lev], !.gen[lev] = @ + 1]
  <2> DEFINE bought1 == [IG!Settled EXCEPT !.income = @ - Costs[lev],
                                           !.gen[lev] = @ + 1]
  <2>1. IG!Settled \in IG!Account /\ IG!Settled.gen = acct.gen
        /\ IG!Settled.income = acct.income + Costs[lev]
    BY <1>1, <1>2, <1>5, <1>7 DEF IG!Account
  <2>2. bought1 \in IG!Account /\ bought1.gen = [acct.gen EXCEPT ![lev] = acct.gen[lev] + 1]
        /\ bought1.income = (acct.income + Costs[lev]) - Costs[lev]
    <3> DEFINE paid == [IG!Settled EXCEPT !.income = @ - Costs[lev]]
    <3>1. paid \in IG!Account /\ paid.gen = acct.gen
          /\ paid.income = (acct.income + Costs[lev]) - Costs[lev]
      BY <1>1, <1>2, <1>7, <2>1 DEF IG!Account
    <3>2. bought1 = [paid EXCEPT !.gen[lev] = @ + 1]
      BY <1>1, <2>1 DEF IG!Account, IG!Generators
    <3> HIDE DEF paid, bought1
    <3> QED  BY <1>1, <3>1, <3>2 DEF IG!Account, IG!Generators
  <2>3. acct' \in IG!Account /\ acct'.gen = [acct.gen EXCEPT ![lev] = acct.gen[lev] + 1]
        /\ acct'.income = acct.income
    BY <1>1, <1>3, <1>4 DEF IG!Account, IG!Generators
  <2> HIDE DEF bought1
  <2>4. acct' = bought1
    BY <1>2, <1>7, <2>2, <2>3, SameAccount
  <2> QED  BY <2>4 DEF bought1
<1>10. IG!A!Buy(lev)
  BY <1>6, <1>8, <1>9 DEF IG!A!Buy
<1> QED  BY <1>1, <1>10 DEF IG!A!Next

(* So is the heartbeat, which never falls into a purchase.                   *)
LEMMA BeatRefines ==
  ASSUME GameInv, IG!Shared, IG!PulseBeat
  PROVE  IG!A!Next
<1>1. /\ acct \in IG!Account /\ ~Paid /\ ~Paid' /\ IG!Shared'
      /\ acct' = IG!Accrue(acct)
  BY DEF GameInv, IG!TypeOK, IG!PulseBeat, MutexInv, MainHolds, PulseHolds, Paid,
     IG!Shared, IG!status, IG!flow
<1>2. IG!Settled = acct /\ IG!Settled' = IG!Accrue(acct)
  BY <1>1 DEF IG!Settled, Paid
<1> DEFINE second == acct.gen[2] + acct.gen[3]
           first  == acct.gen[1] + second
           beaten == [acct EXCEPT !.income = @ + first, !.gen[1] = first,
                                  !.gen[2] = second]
<1>3. acct.income \in Int /\ acct.gen \in [1 .. 3 -> Int]
  BY <1>1 DEF IG!Account, IG!Generators
<1>4. second \in Int /\ first \in Int
  BY <1>3
<1>5. IG!Accrue(acct) = [income |-> acct.income + first,
                         gen |-> [acct.gen EXCEPT ![1] = first, ![2] = second]]
  BY DEF IG!Accrue
<1> HIDE DEF second, first
<1>6. beaten \in IG!Account /\ beaten.income = acct.income + first
      /\ beaten.gen = [acct.gen EXCEPT ![1] = first, ![2] = second]
  <2> DEFINE grown == [acct EXCEPT !.income = @ + first]
  <2>1. grown \in IG!Account /\ grown.gen = acct.gen
        /\ grown.income = acct.income + first
    BY <1>1, <1>3, <1>4 DEF IG!Account
  <2>2. beaten = [grown EXCEPT !.gen[1] = first, !.gen[2] = second]
    BY <1>1 DEF IG!Account, IG!Generators
  <2> HIDE DEF grown, beaten
  <2> DEFINE half == [grown EXCEPT !.gen[1] = first]
  <2>3. half \in IG!Account /\ half.income = grown.income
        /\ half.gen = [grown.gen EXCEPT ![1] = first]
    BY <1>4, <2>1 DEF IG!Account, IG!Generators
  <2>4. beaten = [half EXCEPT !.gen[2] = second]
    BY <2>2
  <2> HIDE DEF half
  <2> QED  BY <1>4, <2>1, <2>3, <2>4 DEF IG!Account, IG!Generators
<1>7. IG!Accrue(acct) \in IG!Account
      /\ IG!Accrue(acct).income = acct.income + first
      /\ IG!Accrue(acct).gen = [acct.gen EXCEPT ![1] = first, ![2] = second]
  BY <1>3, <1>4, <1>5 DEF IG!Account, IG!Generators
<1> HIDE DEF beaten
<1>8. beaten = IG!Accrue(acct)
  BY <1>6, <1>7, SameAccount
<1>9. IG!A!Beat
  BY <1>2, <1>8 DEF IG!A!Beat, beaten, first, second
<1> QED  BY <1>9 DEF IG!A!Next

(* forkIncremental.c has no mutex; its account is left out.                  *)
LEMMA NoMutexNoAccount ==
  ASSUME ~IG!Shared, program' = program
  PROVE  IG!Settled' = IG!Settled
BY DEF IG!Settled, IG!Shared, IG!NewAccount

LEMMA AccountStep ==
  GameInv /\ [IG!Next]_(IG!vars) => [IG!A!Next]_(IG!Settled)
<1> SUFFICES ASSUME GameInv, [IG!Next]_(IG!vars)
             PROVE  IG!A!Next \/ IG!Settled' = IG!Settled
  OBVIOUS
<1>1. CASE IG!WriteIncome
  <2>1. program' = program
    BY <1>1 DEF IG!WriteIncome, IG!status
  <2> QED  BY <1>1, <2>1, StoreRefines, NoMutexNoAccount
<1>2. CASE IG!WriteGen
  <2>1. program' = program
    BY <1>2 DEF IG!WriteGen, IG!status
  <2> QED  BY <1>2, <2>1, DeliveryRefines, NoMutexNoAccount
<1>3. CASE IG!PulseBeat
  <2>1. program' = program
    BY <1>3 DEF IG!PulseBeat, IG!status
  <2> QED  BY <1>3, <2>1, BeatRefines, NoMutexNoAccount
<1>4. CASE IG!Heartbeat
  <2>1. program' = program /\ ~IG!Shared
    BY <1>4 DEF IG!Heartbeat, GameInv, MutexInv
  <2> QED  BY <2>1, NoMutexNoAccount
<1>5. IG!TypeOK
  BY DEF GameInv
<1> QED
  BY <1>1, <1>2, <1>3, <1>4, <1>5, QuietSteps
  DEF IG!Next, IG!MainStep, IG!PulseStep, IG!Rest

-----------------------------------------------------------------------------
(* Theorems *)

LEMMA GameInvariance == IG!Spec => []GameInv
BY GameInit, GameStep, PTL DEF IG!Spec

LEMMA SuiteRunsGame == Spec => IG!Spec
<1>1. Init => IG!Init
  BY DEF Init
<1>2. [Next]_vars => [IG!Next]_(IG!vars)
  BY DEF Next, vars, gameVars, IG!vars, IG!flow, IG!turn, IG!status, IG!ledger,
         IG!clock
<1> QED  BY <1>1, <1>2, PTL DEF Spec, IG!Spec

(* forkIncremental.c and threadIncremental*.c: wherever the handler runs,    *)
(* the income never goes below zero and every generator paid for is there.   *)
THEOREM PurchasesAreKept == Spec => []OnlyHeartbeatsAreLost
<1>1. GameInv => OnlyHeartbeatsAreLost
  BY DEF GameInv, Bounded, OnlyHeartbeatsAreLost, IG!OnlyHeartbeatsAreLost
<1> QED  BY <1>1, SuiteRunsGame, GameInvariance, PTL

(* threadIncremental2.c and threadIncremental3.c: at most one more choice    *)
(* after a handler cleared toContinue, however often SIGINT arrives.         *)
THEOREM NoSecondLastPurchase == Spec => []OneLastPurchase
<1>1. GameInv => OneLastPurchase
  BY DEF GameInv, LateInv, OneLastPurchase, IG!OneLastPurchase
<1> QED  BY <1>1, SuiteRunsGame, GameInvariance, PTL

(* threadIncremental*.c: every behaviour of the games with a thread is one   *)
(* of an account on which ticks, purchases and heartbeats are atomic.        *)
THEOREM AccountIsAtomic == Spec => ImplementsAccount
<1>1. IG!Init => IG!A!Init
  BY DEF IG!Init, IG!A!Init, IG!Settled, IG!NewAccount, IG!Shared, IG!Generators
<1> QED
  BY <1>1, AccountStep, SuiteRunsGame, GameInvariance, PTL
  DEF ImplementsAccount, IG!ImplementsAccount, IG!A!Spec, IG!Spec

=============================================================================
