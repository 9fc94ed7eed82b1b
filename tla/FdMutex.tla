-------------------------------- MODULE FdMutex --------------------------------
(***************************************************************************)
(* internal/poll/fd_mutex.go: the lifetime of a file descriptor and its    *)
(* read and write locks, in the fields of one word.                        *)
(*                                                                         *)
(* The module is a component: FD conjoins its actions with its own.  The   *)
(* CompareAndSwap that succeeds and the Load before it are one step.  The  *)
(* two semaphores are counters, which is what module Semaphore provides;   *)
(* the permits that a step has to release are owed, and released later.    *)
(***************************************************************************)
EXTENDS Naturals, Sequences, FiniteSets

CONSTANT Procs  (* goroutines *)

VARIABLES
  maxField,  (* the largest number a field holds, 2^20-1 in the code: it   *)
             (* differs from scene to scene, and never changes             *)
  fdClosed,  (* mutexClosed                                                *)
  rwLocked,  (* mutexRLock, mutexWLock                                     *)
  refs,      (* the number of references                                   *)
  waits,     (* the numbers of read and write waiters                      *)
  rwsema,    (* rsema, wsema                                               *)
  owes       (* the permits that each goroutine has yet to release         *)

fdmuVars == << fdClosed, rwLocked, refs, waits, rwsema, owes >>

Modes == {"r", "w"}
None  == [m \in Modes |-> 0]

FdmuInit ==
  /\ fdClosed = FALSE
  /\ rwLocked = [m \in Modes |-> FALSE]
  /\ refs = 0
  /\ waits = None /\ rwsema = None
  /\ owes = [p \in Procs |-> None]

(* panic(overflowMsg): nothing is changed. *)
RefsOverflow     == refs + 1 > maxField
WaitsOverflow(m) == waits[m] + 1 > maxField

(* new&(mutexClosed|mutexRefMask) == mutexClosed *)
LastReference == fdClosed /\ refs' = 0

Incref ==
  /\ ~fdClosed /\ ~RefsOverflow
  /\ refs' = refs + 1
  /\ UNCHANGED << fdClosed, rwLocked, waits, rwsema, owes >>

(* Variant: the waiters are removed from the word and not woken. *)
ForgetWaiters(p) ==
  /\ ~fdClosed /\ ~RefsOverflow
  /\ fdClosed' = TRUE /\ refs' = refs + 1 /\ waits' = None
  /\ UNCHANGED << rwLocked, rwsema, owes >>

(* All read and write waiters are removed, to be woken. *)
IncrefAndClose(p) ==
  /\ ~fdClosed /\ ~RefsOverflow
  /\ fdClosed' = TRUE
  /\ refs' = refs + 1
  /\ waits' = None
  /\ owes' = [owes EXCEPT ![p] = waits]
  /\ UNCHANGED << rwLocked, rwsema >>

Decref ==
  /\ refs' = refs - 1
  /\ UNCHANGED << fdClosed, rwLocked, waits, rwsema, owes >>

(* rwlock: the lock is free, or there is one waiter more. *)
RwLock(m) ==
  /\ ~fdClosed /\ ~rwLocked[m] /\ ~RefsOverflow
  /\ rwLocked' = [rwLocked EXCEPT ![m] = TRUE]
  /\ refs' = refs + 1
  /\ UNCHANGED << fdClosed, waits, rwsema, owes >>

RwWait(m) ==
  /\ ~fdClosed /\ rwLocked[m] /\ ~WaitsOverflow(m)
  /\ waits' = [waits EXCEPT ![m] = @ + 1]
  /\ UNCHANGED << fdClosed, rwLocked, refs, rwsema, owes >>

RwFails(m) ==
  /\ fdClosed \/ (IF rwLocked[m] THEN WaitsOverflow(m) ELSE RefsOverflow)
  /\ UNCHANGED fdmuVars

(* Drop lock, drop reference and wake a waiter if present. *)
RwUnlock(p, m) ==
  LET wake == IF waits[m] > 0 THEN 1 ELSE 0 IN
  /\ rwLocked' = [rwLocked EXCEPT ![m] = FALSE]
  /\ refs' = refs - 1
  /\ waits' = [waits EXCEPT ![m] = @ - wake]
  /\ owes' = [owes EXCEPT ![p][m] = wake]
  /\ UNCHANGED << fdClosed, rwsema >>

(* panic("inconsistent poll.fdMutex") *)
Inconsistent(m) == ~rwLocked[m] \/ refs = 0

-----------------------------------------------------------------------------
(* runtime_Semacquire, runtime_Semrelease *)

Semacquire(m) ==
  /\ rwsema[m] > 0
  /\ rwsema' = [rwsema EXCEPT ![m] = @ - 1]
  /\ UNCHANGED << fdClosed, rwLocked, refs, waits, owes >>

Semrelease(p) ==
  /\ \E m \in Modes :
       /\ owes[p][m] > 0
       /\ m = "w" => owes[p]["r"] = 0
       /\ rwsema' = [rwsema EXCEPT ![m] = @ + 1]
       /\ owes' = [owes EXCEPT ![p][m] = @ - 1]
  /\ UNCHANGED << fdClosed, rwLocked, refs, waits >>
=============================================================================
