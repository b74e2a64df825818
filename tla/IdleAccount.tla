----------------------------- MODULE IdleAccount -----------------------------
(***************************************************************************)
(* What the player of the idle games (forkIncremental.c and                *)
(* threadIncremental*.c) may expect of the account: a tick, a purchase and *)
(* a heartbeat each take effect as a whole, one after the other.           *)
(***************************************************************************)
EXTENDS Naturals

CONSTANT Costs    \* price of a generator of each level, 10, 1000 and 100000

VARIABLE account  \* the player's income and generators

Init == account = [income |-> 0, gen |-> [i \in 1 .. 3 |-> 0]]

Tick == account' = [account EXCEPT !.income = @ + 1]

Buy(i) ==
  /\ account.income >= Costs[i]
  /\ account' = [account EXCEPT !.income = @ - Costs[i], !.gen[i] = @ + 1]

(* Every generator yields one unit of the level below it.                    *)
Beat ==
  LET second == account.gen[2] + account.gen[3]
      first  == account.gen[1] + second
  IN  account' = [account EXCEPT !.income = @ + first,
                                 !.gen[1] = first,
                                 !.gen[2] = second]

Next == Tick \/ (\E i \in 1 .. 3 : Buy(i)) \/ Beat

Spec == Init /\ [][Next]_account

=============================================================================
