------------------------------ MODULE SyncRWMutex ------------------------------
(***************************************************************************)
(* sync/rwmutex.go: a reader/writer lock over a Mutex, w, and two          *)
(* semaphores of runtime/sema.go.                                          *)
(*                                                                         *)
(* A writer announces itself by making readerCount negative.  It waits on  *)
(* writerSem for the readers that were inside; readers that arrive later   *)
(* wait on readerSem until it unlocks.  Every atomic access is one step.   *)
(* The w of the code is a sync.Mutex: here it is SyncLocker, which         *)
(* SyncMutex implements.  A lock is unlocked by the goroutine that took it.*)
(***************************************************************************)
EXTENDS Integers, Sequences, FiniteSets

CONSTANTS
  Procs,      (* goroutines                                                *)
  NoProc,     (* no goroutine                                              *)
  MaxReaders  (* rwmutexMaxReaders                                         *)

ASSUME SyncRWMutexAssumption ==
  /\ IsFiniteSet(Procs) /\ NoProc \notin Procs
  /\ MaxReaders \in Nat /\ Cardinality(Procs) < MaxReaders

VARIABLES
  w,            (* the goroutine that holds rw.w, or NoProc                *)
  readerCount,  (* rw.readerCount                                          *)
  readerWait,   (* rw.readerWait                                           *)
  rsema, rwaitq, rsst, rwakee,  (* rw.readerSem, as in module Semaphore    *)
  wsema, wwaitq, wsst, wwakee,  (* rw.writerSem                            *)
  pc,           (* the next step of each goroutine                         *)
  r,            (* the readers a Lock found, or an Unlock has yet to wake  *)
  held,         (* history: a reader was inside when the writer called Lock*)
  late          (* history: the readers that came after that writer had    *)
                (* announced itself                                        *)

readerSem == << rsema, rwaitq, rsst, rwakee >>
writerSem == << wsema, wwaitq, wsst, wwakee >>
counts    == << readerCount, readerWait >>
history   == << held, late >>
vars      == << w, counts, readerSem, writerSem, pc, r, history >>

RSem == INSTANCE Semaphore WITH
          InitSema <- 0, sema <- rsema, waitq <- rwaitq, sst <- rsst, wakee <- rwakee
WSem == INSTANCE Semaphore WITH
          InitSema <- 0, sema <- wsema, waitq <- wwaitq, sst <- wsst, wakee <- wwakee

Mutex == INSTANCE SyncLocker WITH holder <- w

PCs == {"outside", "rblocked", "reading", "departing", "lastReader",
        "announce", "count", "wblocked", "writing", "unblock",
        "tryLock", "tryFailed", "throw"}

Init ==
  /\ Mutex!Unheld /\ RSem!Init /\ WSem!Init
  /\ readerCount = 0 /\ readerWait = 0
  /\ pc   = [p \in Procs |-> "outside"]
  /\ r    = [p \in Procs |-> 0]
  /\ held = FALSE /\ late = {}

Goto(p, from, to) ==
  /\ pc[p] = from
  /\ pc' = [pc EXCEPT ![p] = to]

(* The goroutines that are at one of these steps. *)
In(states) == {p \in Procs : pc[p] \in states}

-----------------------------------------------------------------------------
(* RLock, TryRLock, RUnlock *)

(* if rw.readerCount.Add(1) < 0: a writer is pending, wait for it. *)
RLock(p) ==
  /\ readerCount' = readerCount + 1
  /\ Goto(p, "outside", IF readerCount' < 0 THEN "rblocked" ELSE "reading")
  /\ late' = IF readerCount' < 0 /\ held THEN late \cup {p} ELSE late
  /\ UNCHANGED << w, readerWait, readerSem, writerSem, r, held >>

RLockWait(p) ==
  /\ pc[p] = "rblocked"
  /\ RSem!Waits(p, FALSE)
  /\ UNCHANGED << w, counts, writerSem, pc, r, history >>

RLockAcquired(p) ==
  /\ Goto(p, "rblocked", "reading")
  /\ RSem!Acquired(p)
  /\ UNCHANGED << w, counts, writerSem, r, history >>

(* The CompareAndSwap that succeeds, on the value its Load has seen; one that *)
(* finds a writer returns FALSE.                                              *)
TryRLock(p) ==
  /\ Goto(p, "outside", "reading")
  /\ readerCount >= 0
  /\ readerCount' = readerCount + 1
  /\ UNCHANGED << w, readerWait, readerSem, writerSem, r, history >>

(* rw.readerCount.Add(-1); fatal("RUnlock of unlocked RWMutex") if there was  *)
(* no reader.                                                                 *)
RUnlock(p) ==
  /\ readerCount' = readerCount - 1
  /\ Goto(p, "reading",
          IF readerCount' >= 0 THEN "outside"
          ELSE IF readerCount \in {0, -MaxReaders} THEN "throw" ELSE "departing")
  /\ late' = late \ {p}
  /\ UNCHANGED << w, readerWait, readerSem, writerSem, r, held >>

(* Variant: a reader that leaves before the writer has counted it wakes the   *)
(* writer.                                                                    *)
DepartEarly(p) ==
  /\ readerWait' = readerWait - 1
  /\ Goto(p, "departing", IF readerWait' <= 0 THEN "lastReader" ELSE "outside")
  /\ UNCHANGED << w, readerCount, readerSem, writerSem, r, history >>

(* if rw.readerWait.Add(-1) == 0: the last reader unblocks the writer. *)
Depart(p) ==
  /\ readerWait' = readerWait - 1
  /\ Goto(p, "departing", IF readerWait' = 0 THEN "lastReader" ELSE "outside")
  /\ UNCHANGED << w, readerCount, readerSem, writerSem, r, history >>

WakeWriter(p) ==
  /\ pc[p] = "lastReader"
  /\ WSem!ReleaseAdd(p) \/ WSem!ReleaseDequeue(p)
  /\ UNCHANGED << w, counts, readerSem, pc, r, history >>

WriterAwake(p) ==
  /\ Goto(p, "lastReader", "outside")
  /\ WSem!Released(p, FALSE)
  /\ UNCHANGED << w, counts, readerSem, r, history >>

-----------------------------------------------------------------------------
(* Lock, TryLock, Unlock *)

(* First, resolve competition with other writers. *)
LockW(p) ==
  /\ Goto(p, "outside", "announce")
  /\ Mutex!Acquire(p)
  /\ held' = (In({"reading"}) # {})
  /\ UNCHANGED << counts, readerSem, writerSem, r, late >>

(* r := rw.readerCount.Add(-rwmutexMaxReaders) + rwmutexMaxReaders *)
Announce(p) ==
  /\ Goto(p, "announce", IF readerCount = 0 THEN "writing" ELSE "count")
  /\ readerCount' = readerCount - MaxReaders
  /\ r' = [r EXCEPT ![p] = readerCount]
  /\ UNCHANGED << w, readerWait, readerSem, writerSem, history >>

(* Variant: the departures that came before the count are overwritten. *)
CountStore(p) ==
  /\ readerWait' = r[p]
  /\ Goto(p, "count", IF readerWait' = 0 THEN "writing" ELSE "wblocked")
  /\ r' = [r EXCEPT ![p] = 0]
  /\ UNCHANGED << w, readerCount, readerSem, writerSem, history >>

(* Variant: the writer waits though all readers have left by now. *)
CountAndWait(p) ==
  /\ readerWait' = readerWait + r[p]
  /\ Goto(p, "count", "wblocked")
  /\ r' = [r EXCEPT ![p] = 0]
  /\ UNCHANGED << w, readerCount, readerSem, writerSem, history >>

(* if r != 0 && rw.readerWait.Add(r) != 0: wait for active readers. *)
Count(p) ==
  /\ readerWait' = readerWait + r[p]
  /\ Goto(p, "count", IF readerWait' = 0 THEN "writing" ELSE "wblocked")
  /\ r' = [r EXCEPT ![p] = 0]
  /\ UNCHANGED << w, readerCount, readerSem, writerSem, history >>

LockWait(p) ==
  /\ pc[p] = "wblocked"
  /\ WSem!Waits(p, FALSE)
  /\ UNCHANGED << w, counts, readerSem, pc, r, history >>

LockAcquired(p) ==
  /\ Goto(p, "wblocked", "writing")
  /\ WSem!Acquired(p)
  /\ UNCHANGED << w, counts, readerSem, r, history >>

(* A TryLock that does not get w returns FALSE. *)
TryLockW(p) ==
  /\ Goto(p, "outside", "tryLock")
  /\ Mutex!Acquire(p)
  /\ held' = FALSE
  /\ UNCHANGED << counts, readerSem, writerSem, r, late >>

(* Variant: w is enough, the readers are not told. *)
TryLockSilent(p) ==
  /\ Goto(p, "tryLock", IF readerCount = 0 THEN "writing" ELSE "tryFailed")
  /\ UNCHANGED << w, counts, readerSem, writerSem, r, history >>

(* rw.readerCount.CompareAndSwap(0, -rwmutexMaxReaders) *)
TryLockCas(p) ==
  /\ \/ /\ readerCount = 0
        /\ readerCount' = -MaxReaders
        /\ Goto(p, "tryLock", "writing")
     \/ /\ readerCount # 0
        /\ Goto(p, "tryLock", "tryFailed")
        /\ UNCHANGED readerCount
  /\ UNCHANGED << w, readerWait, readerSem, writerSem, r, history >>

TryLockUnlock(p) ==
  /\ Goto(p, "tryFailed", "outside")
  /\ Mutex!Release(p)
  /\ UNCHANGED << counts, readerSem, writerSem, r, history >>

(* Variant: one reader too few is woken. *)
UnlockShort(p) ==
  /\ Goto(p, "writing", "unblock")
  /\ readerCount' = readerCount + MaxReaders
  /\ r' = [r EXCEPT ![p] = IF readerCount' > 0 THEN readerCount' - 1 ELSE 0]
  /\ late' = {}
  /\ UNCHANGED << w, readerWait, readerSem, writerSem, held >>

(* r := rw.readerCount.Add(rwmutexMaxReaders): there is no active writer.     *)
(* fatal("Unlock of unlocked RWMutex") if there was none.                     *)
Unlock(p) ==
  /\ readerCount' = readerCount + MaxReaders
  /\ Goto(p, "writing", IF readerCount' >= MaxReaders THEN "throw" ELSE "unblock")
  /\ r' = [r EXCEPT ![p] = readerCount']
  /\ late' = {}
  /\ UNCHANGED << w, readerWait, readerSem, writerSem, held >>

(* Unblock blocked readers, if any: r releases of readerSem. *)
Unblock(p) ==
  /\ pc[p] = "unblock" /\ r[p] > 0
  /\ \/ (RSem!ReleaseAdd(p) \/ RSem!ReleaseDequeue(p)) /\ UNCHANGED r
     \/ RSem!Released(p, FALSE) /\ r' = [r EXCEPT ![p] = @ - 1]
  /\ UNCHANGED << w, counts, writerSem, pc, history >>

(* Allow other writers to proceed. *)
UnlockW(p) ==
  /\ Goto(p, "unblock", "outside")
  /\ r[p] = 0
  /\ Mutex!Release(p)
  /\ UNCHANGED << counts, readerSem, writerSem, r, history >>

-----------------------------------------------------------------------------
Call(p) == RLock(p) \/ TryRLock(p) \/ LockW(p) \/ TryLockW(p)

Finish(p) == RUnlock(p) \/ Unlock(p)

Step(p) ==
  \/ RLockWait(p) \/ RLockAcquired(p)
  \/ Depart(p) \/ WakeWriter(p) \/ WriterAwake(p)
  \/ Announce(p) \/ Count(p) \/ LockWait(p) \/ LockAcquired(p)
  \/ TryLockCas(p) \/ TryLockUnlock(p)
  \/ Unblock(p) \/ UnlockW(p)

Next == \E p \in Procs : Call(p) \/ Finish(p) \/ Step(p)

Spec == Init /\ [][Next]_vars

(* Runnable goroutines run, and readers and writers finish.  Nobody has to    *)
(* call anything, and a goroutine in w.Lock may wait for ever.                *)
FairSpec == Spec /\ \A p \in Procs : WF_vars(Step(p)) /\ WF_vars(Finish(p))

-----------------------------------------------------------------------------
Announced == readerCount < 0

TypeOK ==
  /\ w \in Procs \cup {NoProc}
  /\ readerCount \in -MaxReaders .. Cardinality(Procs)
  /\ readerWait  \in -Cardinality(Procs) .. Cardinality(Procs)
  /\ RSem!TypeOK /\ WSem!TypeOK
  /\ pc \in [Procs -> PCs]
  /\ r  \in [Procs -> 0 .. Cardinality(Procs)]
  /\ held \in BOOLEAN /\ late \in SUBSET Procs

(***************************************************************************)
(* Readers and writers exclude each other, and writers one another         *)
(* (rwmutex.go:15-16), although readers leave while the writer counts      *)
(* them and permits outlive the Unlock that released them.                 *)
(***************************************************************************)
Exclusion ==
  \A p \in In({"writing"}) : In({"reading", "writing"}) = {p}

(* Neither fatal error is reached by a program that unlocks what it locked    *)
(* (rwmutex.go:128-131, 208-211).                                             *)
NoThrow == In({"throw"}) = {}

(***************************************************************************)
(* The counts agree with the goroutines.  readerCount is the number of     *)
(* readers inside or blocked, less MaxReaders once a writer is pending;    *)
(* when none is, every blocked reader has its permit, free or promised by  *)
(* an Unlock (rwmutex.go:213-216); when one is, readerWait and what the    *)
(* writer has yet to add to it is the number of readers that it must wait  *)
(* for: those inside, those leaving, and those that an earlier Unlock let  *)
(* in and that hold no permit yet (rwmutex.go:132, 150-152).               *)
(***************************************************************************)
ToCome    == IF w # NoProc /\ In({"count", "unblock"}) # {} THEN r[w] ELSE 0
PermitDue == In({"unblock"}) # {} /\ rsst[w] # "idle"

CountsAgree ==
  /\ TypeOK
  /\ readerCount + (IF Announced THEN MaxReaders ELSE 0)
       = Cardinality(In({"reading", "rblocked"}))
  /\ ~Announced => /\ readerWait = 0
                   /\ rsema + ToCome - (IF PermitDue THEN 1 ELSE 0)
                        = Cardinality(In({"rblocked"}))
  /\ Announced => readerWait + ToCome = Cardinality(In({"reading", "departing"})) + rsema

(***************************************************************************)
(* The writer that waits is woken, and once: writerSem has a permit, or a  *)
(* reader about to add one, exactly when no reader is inside or leaving    *)
(* and none has a permit to come in (rwmutex.go:132-136, 152-154).         *)
(***************************************************************************)
LastReaderWakes ==
  wsema + Cardinality({p \in In({"lastReader"}) : wsst[p] = "idle"})
    = IF In({"wblocked"}) # {} /\ In({"reading", "departing"}) = {} /\ rsema = 0
      THEN 1 ELSE 0

(***************************************************************************)
(* A pending writer gets the lock, whatever new readers do: they cannot    *)
(* keep it out (rwmutex.go:21-25).                                         *)
(***************************************************************************)
WriterServed == \A p \in Procs : pc[p] \in {"announce", "count", "wblocked"} ~> pc[p] = "writing"

(* Blocked readers get in again: not all of them stay out for ever.  (Any one *)
(* of them may: others can take the permit that it was woken for.)            *)
ReadersServed == In({"rblocked"}) # {} ~> In({"reading"}) # {}

(***************************************************************************)
(* "If any goroutine calls Lock while the lock is already held by one or   *)
(* more readers, concurrent calls to RLock will block until the writer has *)
(* acquired (and released) the lock" (rwmutex.go:21-23).                   *)
(***************************************************************************)
LateReadersWait == Announced => late \cap In({"reading"}) = {}
=============================================================================
