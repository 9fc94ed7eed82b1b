------------------------------ MODULE SyncMutex ------------------------------
(***************************************************************************)
(* sync/mutex.go: Lock, TryLock and Unlock of one sync.Mutex, over the     *)
(* semaphore m.sema of runtime/sema.go (module Semaphore).                 *)
(*                                                                         *)
(* Every atomic access to m.state is one step.  The state word is the      *)
(* record of its three flags and its waiter count; a failing               *)
(* CompareAndSwap is the load that follows it, since it changes nothing.   *)
(* A waiter's clock is the choice between "waited more than 1ms" and not.  *)
(***************************************************************************)
EXTENDS Naturals, Sequences, FiniteSets, Goroutines

CONSTANT MaxSpin  (* active_spin: how often a goroutine spins before it queues *)

ASSUME SyncMutexAssumption == MaxSpin \in Nat

VARIABLES
  state,     (* m.state                                                    *)
  sema,      (* m.sema                                                     *)
  waitq,     (* goroutines queued on m.sema                                *)
  sst,       (* where a goroutine stands inside the semaphore              *)
  wakee,     (* the waiter a releaser of m.sema has dequeued               *)
  pc,        (* the next step of each goroutine                            *)
  old,       (* lockSlow's and unlockSlow's old                            *)
  starving,  (* lockSlow's starving                                        *)
  awoke,     (* lockSlow's awoke                                           *)
  waited,    (* lockSlow's waitStartTime # 0                               *)
  iter       (* lockSlow's iter                                            *)

semVars   == << sema, waitq, sst, wakee >>
localVars == << old, starving, awoke, waited, iter >>
vars      == << state, semVars, pc, localVars >>

Sem == INSTANCE Semaphore WITH InitSema <- 0

(* mutexLocked, mutexWoken, mutexStarving, and state >> mutexWaiterShift *)
Words == [locked : BOOLEAN, woken : BOOLEAN, starving : BOOLEAN, waiters : Nat]

Zero == [locked |-> FALSE, woken |-> FALSE, starving |-> FALSE, waiters |-> 0]

PCs == {"unlocked", "lockSlow", "loop", "semacquire", "resumed", "handoff",
        "tryLock", "locked", "unlockSlow", "semrelease", "throw"}

Init ==
  /\ state    = Zero
  /\ Sem!Init
  /\ pc       = [p \in Procs |-> "unlocked"]
  /\ old      = [p \in Procs |-> Zero]
  /\ starving = [p \in Procs |-> FALSE]
  /\ awoke    = [p \in Procs |-> FALSE]
  /\ waited   = [p \in Procs |-> FALSE]
  /\ iter     = [p \in Procs |-> 0]

Goto(p, from, to) ==
  /\ pc[p] = from
  /\ pc' = [pc EXCEPT ![p] = to]

LoadOld(p) == old' = [old EXCEPT ![p] = state]

(* Lock, TryLock and Unlock return: their local variables are gone. *)
ForgetLocals(p) ==
  /\ old'      = [old EXCEPT ![p] = Zero]
  /\ starving' = [starving EXCEPT ![p] = FALSE]
  /\ awoke'    = [awoke EXCEPT ![p] = FALSE]
  /\ waited'   = [waited EXCEPT ![p] = FALSE]
  /\ iter'     = [iter EXCEPT ![p] = 0]

-----------------------------------------------------------------------------
(* Lock and TryLock *)

LockFast(p) ==
  /\ Goto(p, "unlocked", "locked")
  /\ state = Zero
  /\ state' = [state EXCEPT !.locked = TRUE]
  /\ UNCHANGED << semVars, localVars >>

LockMiss(p) ==
  /\ Goto(p, "unlocked", "lockSlow")
  /\ state # Zero
  /\ UNCHANGED << state, semVars, localVars >>

(* TryLock that finds the mutex locked or starving returns FALSE and changes  *)
(* nothing.                                                                   *)
TryLockLoad(p) ==
  /\ Goto(p, "unlocked", "tryLock")
  /\ ~state.locked /\ ~state.starving
  /\ LoadOld(p)
  /\ UNCHANGED << state, semVars, starving, awoke, waited, iter >>

(* Variant: a plain store instead of the CompareAndSwap. *)
TryLockStore(p) ==
  /\ Goto(p, "tryLock", "locked")
  /\ state' = [old[p] EXCEPT !.locked = TRUE]
  /\ ForgetLocals(p)
  /\ UNCHANGED semVars

TryLockTake(p) ==
  /\ Goto(p, "tryLock", "locked")
  /\ state = old[p]
  /\ state' = [state EXCEPT !.locked = TRUE]
  /\ ForgetLocals(p)
  /\ UNCHANGED semVars

TryLockFail(p) ==
  /\ Goto(p, "tryLock", "unlocked")
  /\ state # old[p]
  /\ ForgetLocals(p)
  /\ UNCHANGED << state, semVars >>

(* old := m.state, before the loop of lockSlow. *)
SlowLoad(p) ==
  /\ Goto(p, "lockSlow", "loop")
  /\ LoadOld(p)
  /\ UNCHANGED << state, semVars, starving, awoke, waited, iter >>

(* One turn of active spinning, with the attempt to set mutexWoken so that   *)
(* Unlock does not wake a blocked goroutine.  runtime_canSpin(iter) also      *)
(* looks at the load of the machine: whether it lets us spin is open.         *)
Spin(p) ==
  /\ Goto(p, "loop", "lockSlow")
  /\ old[p].locked /\ ~old[p].starving /\ iter[p] < MaxSpin
  /\ LET wake == /\ ~awoke[p] /\ ~old[p].woken /\ old[p].waiters # 0
                 /\ state = old[p]
     IN /\ state' = [state EXCEPT !.woken = @ \/ wake]
        /\ awoke' = [awoke EXCEPT ![p] = @ \/ wake]
  /\ iter' = [iter EXCEPT ![p] = @ + 1]
  /\ UNCHANGED << semVars, old, starving, waited >>

(* Variant: the woken flag is not reset (new &^= mutexWoken). *)
NewWordStillWoken(p) ==
  LET o == old[p] IN
  [ locked   |-> o.locked \/ ~o.starving,
    woken    |-> o.woken,
    starving |-> o.starving \/ (starving[p] /\ o.locked),
    waiters  |-> IF o.locked \/ o.starving THEN o.waiters + 1 ELSE o.waiters ]

(* The value lockSlow wants to store, given the one it has seen. *)
NewWord(p) ==
  LET o == old[p] IN
  [ locked   |-> o.locked \/ ~o.starving,
    woken    |-> o.woken /\ ~awoke[p],
    starving |-> o.starving \/ (starving[p] /\ o.locked),
    waiters  |-> IF o.locked \/ o.starving THEN o.waiters + 1 ELSE o.waiters ]

(* throw("sync: inconsistent mutex state") if we believe we have been woken  *)
(* and mutexWoken is not set; otherwise on to the CompareAndSwap.            *)
Attempt(p, to) ==
  Goto(p, "loop", IF awoke[p] /\ ~old[p].woken THEN "throw" ELSE to)

(* Variant: the test of mutexStarving is dropped. *)
CasAcquireStarving(p) ==
  /\ Attempt(p, "locked")
  /\ state = old[p] /\ ~old[p].locked
  /\ state' = NewWord(p)
  /\ ForgetLocals(p)
  /\ UNCHANGED semVars

CasAcquire(p) ==
  /\ Attempt(p, "locked")
  /\ state = old[p] /\ ~old[p].locked /\ ~old[p].starving
  /\ state' = NewWord(p)
  /\ ForgetLocals(p)
  /\ UNCHANGED semVars

CasQueue(p) ==
  /\ Attempt(p, "semacquire")
  /\ state = old[p] /\ (old[p].locked \/ old[p].starving)
  /\ state' = NewWord(p)
  /\ UNCHANGED << semVars, localVars >>

CasFail(p) ==
  /\ Attempt(p, "loop")
  /\ state # old[p]
  /\ LoadOld(p)
  /\ UNCHANGED << state, semVars, starving, awoke, waited, iter >>

(* runtime_SemacquireMutex(&m.sema, queueLifo, 1), queueLifo = waited. *)
SemWait(p) ==
  /\ pc[p] = "semacquire"
  /\ Sem!Waits(p, waited[p])
  /\ UNCHANGED << state, pc, localVars >>

SemAcquired(p) ==
  /\ Goto(p, "semacquire", "resumed")
  /\ Sem!Acquired(p)
  /\ waited' = [waited EXCEPT ![p] = TRUE]
  /\ UNCHANGED << state, old, starving, awoke, iter >>

(* starving = starving || waited > 1ms; old = m.state, which decides. *)
Reload(p, to) ==
  /\ Goto(p, "resumed", to)
  /\ LoadOld(p)
  /\ \E late \in BOOLEAN : starving' = [starving EXCEPT ![p] = @ \/ late]
  /\ UNCHANGED << state, semVars, waited >>

(* Variant: the woken goroutine does not remember that mutexWoken is its own. *)
ResumeUnaware(p) ==
  /\ Reload(p, "loop")
  /\ ~state.starving
  /\ iter' = [iter EXCEPT ![p] = 0]
  /\ UNCHANGED awoke

ResumeAwake(p) ==
  /\ Reload(p, "loop")
  /\ ~state.starving
  /\ awoke' = [awoke EXCEPT ![p] = TRUE]
  /\ iter' = [iter EXCEPT ![p] = 0]

(* In starvation mode the mutex has been handed off to us: throw("sync:      *)
(* inconsistent mutex state") unless it is free and counts us as a waiter.   *)
ResumeOwner(p) ==
  /\ Reload(p, IF state.locked \/ state.woken \/ state.waiters = 0
               THEN "throw" ELSE "handoff")
  /\ state.starving
  /\ UNCHANGED << awoke, iter >>

(* atomic.AddInt32(&m.state, delta).  The addition is the record update only *)
(* while it carries nothing over from one field to the next.                 *)
TakeHandoff(p) ==
  /\ Goto(p, "handoff",
          IF ~state.locked /\ state.waiters > 0 /\ state.starving
          THEN "locked" ELSE "throw")
  /\ state' = [state EXCEPT !.locked   = TRUE,
                            !.waiters  = @ - 1,
                            !.starving = starving[p] /\ old[p].waiters # 1]
  /\ ForgetLocals(p)
  /\ UNCHANGED semVars

-----------------------------------------------------------------------------
(* Unlock *)

(* atomic.AddInt32(&m.state, -mutexLocked), which borrows when the mutex is  *)
(* not locked: unlockSlow reports fatal("unlock of unlocked mutex").          *)
Drop(p, to) ==
  /\ Goto(p, "locked", IF state.locked THEN to ELSE "throw")
  /\ state' = [state EXCEPT !.locked = FALSE]

UnlockFast(p) ==
  /\ Drop(p, "unlocked")
  /\ state' = Zero
  /\ UNCHANGED << semVars, localVars >>

UnlockMiss(p) ==
  /\ Drop(p, IF state.starving THEN "semrelease" ELSE "unlockSlow")
  /\ state' # Zero
  /\ old' = [old EXCEPT ![p] = state']
  /\ UNCHANGED << semVars, starving, awoke, waited, iter >>

(* Variant: the last waiter is forgotten. *)
WantsWakeNotLast(p) ==
  /\ old[p].waiters > 1
  /\ ~(old[p].locked \/ old[p].woken \/ old[p].starving)

(* There are waiters, and nobody has been woken or has grabbed the lock. *)
WantsWake(p) ==
  /\ old[p].waiters # 0
  /\ ~(old[p].locked \/ old[p].woken \/ old[p].starving)

(* Nobody to wake, or somebody else is on it. *)
UnlockDone(p) ==
  /\ Goto(p, "unlockSlow", "unlocked")
  /\ ~WantsWake(p)
  /\ ForgetLocals(p)
  /\ UNCHANGED << state, semVars >>

(* Variants: a waiter is woken without mutexWoken, or without discounting it. *)
UnlockCasNotWoken(p) ==
  /\ Goto(p, "unlockSlow", "semrelease")
  /\ WantsWake(p)
  /\ state = old[p]
  /\ state' = [state EXCEPT !.waiters = @ - 1]
  /\ UNCHANGED << semVars, localVars >>

UnlockCasUncounted(p) ==
  /\ Goto(p, "unlockSlow", "semrelease")
  /\ WantsWake(p)
  /\ state = old[p]
  /\ state' = [state EXCEPT !.woken = TRUE]
  /\ UNCHANGED << semVars, localVars >>

(* Grab the right to wake someone. *)
UnlockCas(p) ==
  /\ Goto(p, "unlockSlow", "semrelease")
  /\ WantsWake(p)
  /\ state = old[p]
  /\ state' = [state EXCEPT !.waiters = @ - 1, !.woken = TRUE]
  /\ UNCHANGED << semVars, localVars >>

UnlockCasFail(p) ==
  /\ pc[p] = "unlockSlow"
  /\ WantsWake(p)
  /\ state # old[p]
  /\ LoadOld(p)
  /\ UNCHANGED << state, semVars, pc, starving, awoke, waited, iter >>

(* runtime_Semrelease(&m.sema, handoff, 1): handoff in starvation mode, where *)
(* unlockSlow was entered with the flag set in new, kept in old.              *)
SemRelease(p) ==
  /\ pc[p] = "semrelease"
  /\ Sem!ReleaseAdd(p) \/ Sem!ReleaseDequeue(p)
  /\ UNCHANGED << state, pc, localVars >>

SemReleased(p) ==
  /\ Goto(p, "semrelease", "unlocked")
  /\ Sem!Released(p, old[p].starving)
  /\ ForgetLocals(p)
  /\ UNCHANGED state

-----------------------------------------------------------------------------
LockStep(p) ==
  \/ SlowLoad(p) \/ Spin(p)
  \/ CasAcquire(p) \/ CasQueue(p) \/ CasFail(p)
  \/ SemWait(p) \/ SemAcquired(p)
  \/ ResumeAwake(p) \/ ResumeOwner(p) \/ TakeHandoff(p)

TryLockStep(p) == TryLockTake(p) \/ TryLockFail(p)

UnlockStep(p) ==
  \/ UnlockDone(p) \/ UnlockCas(p) \/ UnlockCasFail(p)
  \/ SemRelease(p) \/ SemReleased(p)

CallLock(p)    == LockFast(p) \/ LockMiss(p)
CallTryLock(p) == TryLockLoad(p)
CallUnlock(p)  == UnlockFast(p) \/ UnlockMiss(p)

Call(p) == CallLock(p) \/ CallTryLock(p) \/ CallUnlock(p)
Step(p) == LockStep(p) \/ TryLockStep(p) \/ UnlockStep(p)

Next == \E p \in Procs : Call(p) \/ Step(p)

Spec == Init /\ [][Next]_vars

(* A goroutine inside a call keeps running, since the scheduler is fair to    *)
(* runnable goroutines, and the program unlocks what it has locked.  Nothing  *)
(* obliges a goroutine to lock.                                               *)
FairSpec ==
  /\ Spec
  /\ \A p \in Procs : WF_vars(Step(p)) /\ WF_vars(CallUnlock(p))

-----------------------------------------------------------------------------
TypeOK ==
  /\ state    \in Words
  /\ Sem!TypeOK
  /\ pc       \in [Procs -> PCs]
  /\ old      \in [Procs -> Words]
  /\ starving \in [Procs -> BOOLEAN]
  /\ awoke    \in [Procs -> BOOLEAN]
  /\ waited   \in [Procs -> BOOLEAN]
  /\ iter     \in [Procs -> 0 .. MaxSpin]

(* The goroutines that own the mutex, or will without asking anybody. *)
Holders == {p \in Procs : pc[p] = "locked"}

(***************************************************************************)
(* Mutual exclusion: at most one goroutine is between Lock and Unlock, and *)
(* it is so exactly while mutexLocked is set (mutex.go:83-93, 214-227).    *)
(***************************************************************************)
MutualExclusion ==
  /\ \A p, q \in Holders : p = q
  /\ state.locked <=> Holders # {}

(***************************************************************************)
(* The runtime never throws "inconsistent mutex state": a goroutine that   *)
(* believes it was woken finds mutexWoken, one that believes it was handed *)
(* the mutex finds it unlocked with waiters, and no AddInt32 carries from  *)
(* one field of the word into the next (mutex.go:159-161, 181-193, 221).   *)
(***************************************************************************)
NoThrow == \A p \in Procs : pc[p] # "throw"

(***************************************************************************)
(* The wakeup in progress.  A permit of m.sema is about to be added, free, *)
(* granted, or just taken; or its taker is installing itself as the new    *)
(* owner (handoff); or a goroutine is awake and holds mutexWoken.          *)
(***************************************************************************)
Permit == {p \in Procs : \/ pc[p] = "semrelease" /\ sst[p] = "idle"
                         \/ sst[p] = "granted"
                         \/ pc[p] = "resumed"}
Handoff == {p \in Procs : pc[p] = "handoff"}
Awake   == {p \in Procs : pc[p] \in {"lockSlow", "loop"} /\ awoke[p]}

PermitOut == sema > 0 \/ Permit # {}

(***************************************************************************)
(* There is never more than one wakeup in progress, and the flags of the   *)
(* word say which: mutexWoken for a normal wakeup, mutexStarving without   *)
(* mutexLocked for a handoff (mutex.go:236-260).                           *)
(***************************************************************************)
OneWakeup ==
  /\ sema + Cardinality(Permit \cup Handoff \cup Awake) <= 1
  /\ state.woken <=> Awake # {} \/ (PermitOut /\ ~state.starving)
  /\ state.starving =>
       ~state.woken /\ (state.locked <=> ~PermitOut /\ Handoff = {})
  /\ Handoff # {} => state.starving

(***************************************************************************)
(* The waiter count of the word is the number of goroutines that sleep on  *)
(* m.sema or have not yet acted on their wakeup, less the one a normal     *)
(* wakeup has already discounted (mutex.go:146-148, 184, 246); and         *)
(* starvation mode always has a waiter to hand over to (mutex.go:149-155). *)
(***************************************************************************)
Waiters == {p \in Procs : pc[p] \in {"semacquire", "resumed", "handoff"}}

WaitersCounted ==
  /\ state.waiters + (IF PermitOut /\ state.woken THEN 1 ELSE 0)
       = Cardinality(Waiters)
  /\ state.starving => state.waiters > 0

(***************************************************************************)
(* No wakeup is lost: an unlocked mutex with waiters has a wakeup in       *)
(* progress, or an unlocking goroutine that has yet to start one           *)
(* (mutex.go:235-252).                                                     *)
(***************************************************************************)
NoLostWakeup ==
  (~state.locked /\ state.waiters > 0) =>
    PermitOut \/ Handoff # {} \/ Awake # {} \/ \E p \in Procs : pc[p] = "unlockSlow"

(* The mutex is the abstract lock. *)
Holder == IF Holders = {} THEN NoProc ELSE CHOOSE p \in Holders : TRUE

Abstract == INSTANCE SyncLocker WITH holder <- Holder

(***************************************************************************)
(* The mutex implements the lock of SyncLocker: it never passes from one    *)
(* goroutine to another without an unlock in between (mutex.go:83-261).    *)
(***************************************************************************)
ImplementsLock == Abstract!Spec

(***************************************************************************)
(* The mutex does not get stuck: while goroutines are inside Lock and      *)
(* every holder unlocks, the mutex keeps being locked by somebody.         *)
(***************************************************************************)
InLock(p) == pc[p] \in {"lockSlow", "loop", "semacquire", "resumed", "handoff"}

Progress == (\E p \in Procs : InLock(p)) ~> Holders # {}

(***************************************************************************)
(* mutex.go:64-68 says that in starvation mode ownership is directly       *)
(* handed off to the waiter at the front of the queue, and that newly      *)
(* arriving goroutines queue themselves at the tail.  Read on m.sema: in   *)
(* starvation mode no goroutine gets the semaphore without having queued   *)
(* while others are queued.                                                *)
(***************************************************************************)
HandoffToFront ==
  [][\A p \in Procs :
       (/\ state.starving /\ waitq # << >>
        /\ pc[p] = "semacquire" /\ sst[p] = "idle")
         => pc'[p] # "resumed"]_vars
=============================================================================
