------------------------------- MODULE CondVar -------------------------------
(***************************************************************************)
(* What sync.Cond promises to a program (sync/cond.go:52-94).              *)
(*                                                                         *)
(* Wait makes the caller a waiter while it still holds L.  Signal wakes    *)
(* the one that has waited longest and Broadcast wakes all; either may do  *)
(* nothing once none of those that waited when it was called waits still.  *)
(* A Wait goes on only after it was woken, and returns with L held.        *)
(***************************************************************************)
EXTENDS Sequences, FiniteSets

CONSTANTS Procs, NoProc

VARIABLES
  holder,   (* the holder of L                                             *)
  waiting,  (* the waiters, longest first                                  *)
  woken,    (* those that a Signal or Broadcast has woken                  *)
  call,     (* the call a goroutine is in                                  *)
  owed      (* who was waiting when that call began, and waits still       *)

vars == << holder, waiting, woken, call, owed >>

L == INSTANCE SyncLocker

Waiters == {waiting[i] : i \in DOMAIN waiting}

Init ==
  /\ L!Unheld
  /\ waiting = << >> /\ woken = {}
  /\ call = [p \in Procs |-> "none"]
  /\ owed = [p \in Procs |-> {}]

(* A waiter lets go of L, too: Release is not only for the others. *)
Locks(p) ==
  /\ p \notin Waiters \cup woken
  /\ L!Acquire(p)
  /\ UNCHANGED << waiting, woken, call, owed >>

Unlocks(p) ==
  /\ L!Release(p)
  /\ UNCHANGED << waiting, woken, call, owed >>

Wait(p) ==
  /\ holder = p /\ call[p] = "none"
  /\ waiting' = Append(waiting, p)
  /\ UNCHANGED << holder, woken, call, owed >>

GoOn(p) ==
  /\ p \in woken /\ holder # p
  /\ woken' = woken \ {p}
  /\ UNCHANGED << holder, waiting, call, owed >>

Begin(p) ==
  /\ call[p] = "none" /\ p \notin Waiters \cup woken
  /\ \E c \in {"signal", "broadcast"} : call' = [call EXCEPT ![p] = c]
  /\ owed' = [owed EXCEPT ![p] = Waiters]
  /\ UNCHANGED << holder, waiting, woken >>

End(p) ==
  /\ call' = [call EXCEPT ![p] = "none"]
  /\ owed' = [q \in Procs |-> IF q = p THEN {} ELSE owed[q] \cap Waiters']
  /\ UNCHANGED holder

Signal(p) ==
  /\ call[p] = "signal" /\ waiting # << >>
  /\ waiting' = Tail(waiting)
  /\ woken' = woken \cup {Head(waiting)}
  /\ End(p)

Broadcast(p) ==
  /\ call[p] = "broadcast"
  /\ waiting' = << >>
  /\ woken' = woken \cup Waiters
  /\ End(p)

Nobody(p) ==
  /\ call[p] # "none"
  /\ owed[p] = {}
  /\ UNCHANGED << waiting, woken >>
  /\ End(p)

Next == \E p \in Procs :
  \/ Locks(p) \/ Unlocks(p) \/ Wait(p) \/ GoOn(p)
  \/ Begin(p) \/ Signal(p) \/ Broadcast(p) \/ Nobody(p)

Spec == Init /\ [][Next]_vars
=============================================================================
