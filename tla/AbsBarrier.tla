----------------------------- MODULE AbsBarrier -----------------------------
(***************************************************************************)
(* What a work-group barrier promises, without saying how: a core that has *)
(* called the barrier for the k-th time returns only after every core of   *)
(* the group has called it for the k-th time.                              *)
(***************************************************************************)
EXTENDS Naturals

CONSTANT Cores

VARIABLES
  calls,     \* calls[c]: how many times c has called the barrier
  returns    \* returns[c]: how many of these calls have returned

vars == <<calls, returns>>

Init ==
  /\ calls   = [c \in Cores |-> 0]
  /\ returns = [c \in Cores |-> 0]

Arrive(c) ==
  /\ calls[c] = returns[c]
  /\ calls' = [calls EXCEPT ![c] = @ + 1]
  /\ UNCHANGED returns

Depart(c) ==
  /\ \A d \in Cores : calls[d] > returns[c]
  /\ returns' = [returns EXCEPT ![c] = @ + 1]
  /\ UNCHANGED calls

Next == \E c \in Cores : Arrive(c) \/ Depart(c)

Spec == Init /\ [][Next]_vars
=============================================================================
