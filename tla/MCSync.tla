-------------------------------- MODULE MCSync --------------------------------
(* SyncCond, SyncWaitGroup and Timers, for TLC: the initial state says which  *)
(* of them it is, and the others stand still.                                 *)
EXTENDS SyncCond, SyncWaitGroup, Timers, TLC

CONSTANTS g1, g2, m1, t1, t2    (* of Timers: goroutines, a thread, timers     *)

VARIABLE part

(* What two goroutines do: to one timer with a channel, which may repeat, and *)
(* to two without.                                                            *)
Scene(ops, chan, period, max) ==
  [calls |-> ops, chan |-> chan, period |-> [t \in {t1, t2} |-> period], max |-> max]

OneChannel ==
  { << g1, "reset", t1 >>, << g1, "stop", t1 >>, << g1, "poll", t1 >>,
    << g2, "recv", t1 >>, << g2, "poll", t1 >> }
TwoTimers ==
  { << g1, "reset", t1 >>, << g2, "reset", t2 >>, << g2, "stop", t2 >> }

TimerScenes ==
  { Scene(OneChannel, {t1}, 0, 4), Scene(OneChannel, {t1}, 1, 3), Scene(TwoTimers, {}, 0, 4) }

(* The theorems on what Stop and Reset report are for such scenes. *)
ASSUME OneSetterAssumption == OneSetter

Init ==
  /\ part \in {"cond", "wg", "timers"}
  /\ CondInit /\ WGInit /\ TimersInit
  /\ part # "cond" => wait = 0
  /\ part # "timers" => scene = CHOOSE s \in Scenes : TRUE

Next ==
  /\ UNCHANGED part
  /\ \/ part = "cond" /\ CondNext /\ UNCHANGED << wgVars, timersVars >>
     \/ part = "wg" /\ WGNext /\ UNCHANGED << condVars, timersVars >>
     \/ part = "timers" /\ TimersNext /\ UNCHANGED << condVars, wgVars >>

Spec == Init /\ [][Next]_<< part, condVars, wgVars, timersVars >>

Symmetry == Permutations(Procs)
=============================================================================
