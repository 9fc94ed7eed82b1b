------------------------------- MODULE SyncCond -------------------------------
(***************************************************************************)
(* sync/cond.go: Cond over a notifyList (module NotifyList) and its Locker *)
(* L, which is module SyncLocker (SyncMutex implements it).                *)
(*                                                                         *)
(* Shown to implement CondVar.                                             *)
(***************************************************************************)
EXTENDS NotifyList

VARIABLES
  holder,   (* the holder of c.L, or NoProc                                *)
  cpc,      (* the next step of each goroutine                             *)
  owed      (* history: who waited when a Signal or Broadcast was called,  *)
            (* and waits still                                             *)

condVars == << listVars, holder, cpc, owed >>

L == INSTANCE SyncLocker

CPCs == {"outside", "locked", "unlock", "wait", "relock"}

CondInit ==
  /\ ListInit /\ L!Unheld
  /\ cpc  = [p \in Procs |-> "outside"]
  /\ owed = [p \in Procs |-> {}]

CGoto(p, from, to) ==
  /\ cpc[p] = from
  /\ cpc' = [cpc EXCEPT ![p] = to]

(* Not in a Signal or Broadcast, nor asleep in Wait. *)
Running(p) == nst[p] = "idle"

(* Waiting for a notification that nobody has sent yet. *)
Unnotified == {p \in Inside : gap[p] <= 0}

-----------------------------------------------------------------------------
(* The program: it locks and unlocks L around the condition. *)

Lock(p) ==
  /\ Running(p) /\ CGoto(p, "outside", "locked")
  /\ L!Acquire(p)
  /\ UNCHANGED << listVars, owed >>

Unlock(p) ==
  /\ Running(p) /\ CGoto(p, "locked", "outside")
  /\ L!Release(p)
  /\ UNCHANGED << listVars, owed >>

(* Wait *)

WaitAdd(p) ==
  /\ Running(p) /\ CGoto(p, "locked", "unlock")
  /\ ListAdd(p)
  /\ UNCHANGED << holder, owed >>

WaitUnlock(p) ==
  /\ CGoto(p, "unlock", "wait")
  /\ L!Release(p)
  /\ UNCHANGED << listVars, owed >>

WaitList(p) ==
  /\ CGoto(p, "wait", "relock")
  /\ AlreadyNotified(p) \/ Park(p)
  /\ UNCHANGED << holder, owed >>

WaitRelock(p) ==
  /\ Running(p) /\ CGoto(p, "relock", "locked")
  /\ L!Acquire(p)
  /\ UNCHANGED << listVars, owed >>

-----------------------------------------------------------------------------
(* Signal and Broadcast: the caller may hold L, and need not. *)

Notify(p, which) ==
  /\ cpc[p] \in {"outside", "locked"}
  /\ LoadWait(p, which)
  /\ owed' = [owed EXCEPT ![p] = Unnotified]
  /\ UNCHANGED << holder, cpc >>

Signal(p)    == Notify(p, "one")
Broadcast(p) == Notify(p, "all")

Notifying(p) ==
  /\ NotifyStep(p)
  /\ owed' = [q \in Procs |-> IF nst'[q] \in {"one", "all", "oneLock", "allLock"}
                             THEN owed[q] \cap Unnotified' ELSE {}]
  /\ UNCHANGED << holder, cpc >>

-----------------------------------------------------------------------------
CondCall(p) == Lock(p) \/ WaitAdd(p) \/ Signal(p) \/ Broadcast(p)

CondStep(p) ==
  \/ Unlock(p) \/ WaitUnlock(p) \/ WaitList(p) \/ WaitRelock(p) \/ Notifying(p)

CondNext == \E p \in Procs : CondCall(p) \/ CondStep(p)

CondSpec == CondInit /\ [][CondNext]_condVars

-----------------------------------------------------------------------------
(***************************************************************************)
(* A sleeping waiter is in the list as long as its ticket is to come, and  *)
(* in exactly one notifier's batch once it is not: nobody is forgotten     *)
(* between the two, though waiters join the list out of order and after    *)
(* their notification (sema.go:565-569, 611-615, 649-663).                 *)
(***************************************************************************)
CondTypeOK ==
  /\ wait \in 0 .. Tickets - 1 /\ notify \in 0 .. Tickets - 1
  /\ nst \in [Procs -> NStates] /\ cpc \in [Procs -> CPCs]
  /\ holder \in Procs \cup {NoProc}
  /\ Ahead = Cardinality(Unnotified)

Times(p, s) == Cardinality({k \in DOMAIN s : s[k] = p})

SleepersAccounted ==
  /\ CondTypeOK
  /\ \A p \in Procs : nst[p] = "parked" =>
       LET due == {q \in Procs : Times(p, batch[q]) = 1}
       IN IF p \in Unnotified THEN Times(p, list) = 1 /\ due = {}
                              ELSE Times(p, list) = 0 /\ Cardinality(due) = 1

(***************************************************************************)
(* notifyList and Cond are the condition variable of the documentation,    *)
(* in ticket order and with no wakeup lost between Wait's unlock and its   *)
(* sleep (cond.go:52-55, 75-79, 87).                                       *)
(***************************************************************************)
InOrder == [i \in 1 .. Cardinality(Unnotified) |->
              CHOOSE p \in Unnotified : gap[p] = 1 - i]

CV == INSTANCE CondVar WITH
        waiting <- InOrder,
        woken   <- Inside \ Unnotified,
        call    <- [p \in Procs |->
                      IF nst[p] \in {"one", "oneLock"} THEN "signal"
                      ELSE IF nst[p] \in {"all", "allLock"} THEN "broadcast"
                      ELSE "none"]

ImplementsCondVar == CV!Spec
=============================================================================
