------------------------------ MODULE Goroutines ------------------------------
(* The goroutines of a program, which are finitely many. *)
EXTENDS FiniteSets

CONSTANTS
  Procs,
  NoProc  (* "no goroutine" *)

ASSUME GoroutinesAssumption == IsFiniteSet(Procs) /\ NoProc \notin Procs
=============================================================================
