------------------------------ MODULE Utensils ------------------------------
(***************************************************************************)
(* An array of mutexes taken two at a time.  owner gives the thread that   *)
(* holds each mutex, wanted the mutex each thread is blocked on or about   *)
(* to take (Nothing when it asks for none).                                *)
(***************************************************************************)

(* Some threads wait in a circle: each wants a mutex another of them holds,  *)
(* so none of them can ever take a step.                                     *)
CircularWait(threads, owner, wanted, Nothing) ==
  \E S \in SUBSET threads :
    /\ S # {}
    /\ \A t \in S : wanted[t] # Nothing /\ owner[wanted[t]] \in S

=============================================================================
