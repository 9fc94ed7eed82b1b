----------------------------- MODULE SemaAddress -----------------------------
(***************************************************************************)
(* One address of a semaRoot, whichever it is, seen as the semaphore of    *)
(* module Semaphore (runtime/sema.go:132-270).                             *)
(*                                                                         *)
(* A goroutine is in the abstract wait queue from the moment its second    *)
(* cansemacquire fails, under the lock, which is before it is linked in.   *)
(* A handoff takes effect when the releaser takes the permit for its       *)
(* wakee; goready only makes it visible.  A woken waiter that finds no     *)
(* permit starts over, like a new caller.                                  *)
(***************************************************************************)
EXTENDS SemaRoot

CONSTANT addr  (* the address looked at *)

ASSUME AddressAssumption == addr \in Addrs

Queueing == rootLock \in Procs /\ pc[rootLock] = "a_queue" /\ Addr(rootLock) = addr

AbsQueue ==
  IF Queueing THEN Insert(queue[addr], rootLock, req[rootLock].flag) ELSE queue[addr]

BeingReadied(p) == \E r \in Procs : pc[r] = "r_ready" /\ wakee[r] = p

StateOf(p) ==
  IF pc[p] = "idle" \/ Addr(p) # addr THEN "idle"
  ELSE CASE pc[p] \in {"a_parked", "a_woke"} /\ ticket[p] -> "granted"
         [] pc[p] = "a_woke" /\ ~ticket[p]                -> "woken"
         [] pc[p] = "a_parked" /\ ~ticket[p]              ->
              IF BeingReadied(p) THEN "woken" ELSE "parked"
         [] pc[p] = "a_queue"                             -> "parked"
         [] pc[p] \in {"r_load", "r_lock", "r_deq"}       -> "released"
         [] pc[p] = "r_handoff"                           -> "waking"
         [] OTHER                                         -> "idle"

AbsState == [p \in Procs |-> StateOf(p)]

AbsWakee ==
  [p \in Procs |-> IF pc[p] = "r_handoff" /\ Addr(p) = addr THEN wakee[p] ELSE NoProc]

Sem == INSTANCE Semaphore
         WITH sema <- sema[addr], waitq <- AbsQueue, sst <- AbsState, wakee <- AbsWakee

(***************************************************************************)
(* The address behaves as the semaphore of module Semaphore, although it   *)
(* shares the lock and nwait with the others (runtime/sema.go:132-270).    *)
(***************************************************************************)
ImplementsSemaphore == Sem!Spec
=============================================================================
