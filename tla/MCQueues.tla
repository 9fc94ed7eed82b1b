------------------------------- MODULE MCQueues -------------------------------
(* PoolChain and RunQueue, for TLC: the initial state says which.             *)
EXTENDS PoolChain, RunQueue, TLC

VARIABLE part

Init ==
  \/ part = "pool" /\ PoolInit /\ RunqInit /\ out = Gs
  \/ part = "runq" /\ PoolInit /\ RunqInit

Next ==
  /\ UNCHANGED part
  /\ \/ part = "pool" /\ PoolNext /\ UNCHANGED runqVars
     \/ part = "runq" /\ RunqNext /\ UNCHANGED poolVars

Spec == Init /\ [][Next]_<< part, poolVars, runqVars >>

(* Values and Gs, and the consumers and Ps, share their model values.         *)
Symmetry == Permutations(Gs) \cup Permutations(Ps)
=============================================================================
