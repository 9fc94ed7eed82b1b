------------------------------ MODULE Semaphore ------------------------------
(***************************************************************************)
(* What runtime/sema.go promises for ONE semaphore address.                *)
(*                                                                         *)
(* The module is a component: SyncMutex and SyncRWMutex conjoin its        *)
(* actions with their own program steps, and SemaRoot, which models the    *)
(* root lock, the shared waiter count and the lock-free fast paths of the  *)
(* code, is shown to implement it address by address.                      *)
(*                                                                         *)
(* A permit is one unit of *addr.  An acquire either takes a permit or     *)
(* joins the wait queue; a release adds a permit, removes the first waiter *)
(* and readies it.  A readied waiter owns nothing (unless it was granted   *)
(* the permit): it competes for the permit with every running goroutine,   *)
(* and queues again when it loses.                                         *)
(***************************************************************************)
EXTENDS Naturals, Sequences, FiniteSets, TLAPS

CONSTANTS
  Procs,    (* the goroutines                                              *)
  NoProc,   (* "no goroutine": a releaser that has not dequeued anybody    *)
  InitSema  (* the initial value of *addr                                  *)

VARIABLES
  sema,     (* *addr, the number of free permits                           *)
  waitq,    (* the sudogs queued on addr, first to be dequeued first       *)
  sst,      (* where each goroutine stands in semacquire1 or semrelease1   *)
  wakee     (* the waiter a releaser has dequeued and not yet readied      *)

semaVars == << sema, waitq, sst, wakee >>

(***************************************************************************)
(*   idle      outside, or in the part of semacquire1 before it is queued  *)
(*   parked    asleep: queued, or dequeued by a releaser and not yet ready *)
(*   woken     ready, ticket = 0: goes back to compete for a permit        *)
(*   granted   ready, ticket = 1: the releaser took a permit for it        *)
(*   released  in semrelease1 after its Xadd, before it looks for a waiter *)
(*   waking    in semrelease1 with a dequeued waiter to make ready         *)
(***************************************************************************)
States == {"idle", "parked", "woken", "granted", "released", "waking"}

Init ==
  /\ sema  = InitSema
  /\ waitq = << >>
  /\ sst   = [p \in Procs |-> "idle"]
  /\ wakee = [p \in Procs |-> NoProc]

Goto(p, from, to) ==
  /\ sst[p] = from
  /\ sst' = [sst EXCEPT ![p] = to]

(* cansemacquire: the Load/Cas loop takes a permit or sees that none is left. *)
CanSemacquire == sema > 0 /\ sema' = sema - 1

(* semaRoot.queue, one address: lifo puts the waiter in front. *)
Queue(q, p, lifo) == IF lifo THEN << p >> \o q ELSE Append(q, p)

-----------------------------------------------------------------------------
(* semacquire1 *)

AcquireNow(p) ==
  /\ sst[p] = "idle"
  /\ CanSemacquire
  /\ UNCHANGED << waitq, sst, wakee >>

Park(p, lifo) ==
  /\ sema = 0
  /\ waitq' = Queue(waitq, p, lifo)
  /\ Goto(p, "idle", "parked")
  /\ UNCHANGED << sema, wakee >>

ResumeGranted(p) ==
  /\ Goto(p, "granted", "idle")
  /\ UNCHANGED << sema, waitq, wakee >>

ResumeTake(p) ==
  /\ CanSemacquire
  /\ Goto(p, "woken", "idle")
  /\ UNCHANGED << waitq, wakee >>

(* Nothing left for a woken waiter: it starts over, like a new caller. *)
ResumeLose(p) ==
  /\ sema = 0
  /\ Goto(p, "woken", "idle")
  /\ UNCHANGED << sema, waitq, wakee >>

(* The call returns with a permit, or goes around its loop once more. *)
Acquired(p)     == AcquireNow(p) \/ ResumeGranted(p) \/ ResumeTake(p)
Waits(p, lifo)  == Park(p, lifo) \/ ResumeLose(p)

-----------------------------------------------------------------------------
(* semrelease1 *)

ReleaseAdd(p) ==
  /\ sema' = sema + 1
  /\ Goto(p, "idle", "released")
  /\ UNCHANGED << waitq, wakee >>

ReleaseNobody(p) ==
  /\ waitq = << >>
  /\ Goto(p, "released", "idle")
  /\ UNCHANGED << sema, waitq, wakee >>

ReleaseDequeue(p) ==
  /\ waitq # << >>
  /\ waitq' = Tail(waitq)
  /\ wakee' = [wakee EXCEPT ![p] = Head(waitq)]
  /\ Goto(p, "released", "waking")
  /\ UNCHANGED sema

(* handoff && cansemacquire(addr): the permit goes with the wakeup. *)
ReleaseReady(p, handoff) ==
  /\ sst[p] = "waking"
  /\ LET grant == handoff /\ sema > 0 IN
     /\ sema' = IF grant THEN sema - 1 ELSE sema
     /\ sst'  = [sst EXCEPT ![p] = "idle",
                            ![wakee[p]] = IF grant THEN "granted" ELSE "woken"]
  /\ wakee' = [wakee EXCEPT ![p] = NoProc]
  /\ UNCHANGED waitq

(* The call is over once nobody was queued or the waiter is ready. *)
Released(p, handoff) == ReleaseNobody(p) \/ ReleaseReady(p, handoff)

Next ==
  \E p \in Procs :
    \/ AcquireNow(p)
    \/ \E lifo \in BOOLEAN : Park(p, lifo)
    \/ ResumeGranted(p)
    \/ ResumeTake(p)
    \/ ResumeLose(p)
    \/ ReleaseAdd(p)
    \/ ReleaseNobody(p)
    \/ ReleaseDequeue(p)
    \/ \E handoff \in BOOLEAN : ReleaseReady(p, handoff)

Spec == Init /\ [][Next]_semaVars

-----------------------------------------------------------------------------
TypeOK ==
  /\ sema  \in Nat
  /\ waitq \in Seq(Procs)
  /\ sst   \in [Procs -> States]
  /\ wakee \in [Procs -> Procs \cup {NoProc}]

(* The permits somebody is on the way to collect for the sleepers: releasers *)
(* that have not readied their waiter yet, and waiters that are up again.    *)
InFlight == {p \in Procs : sst[p] \in {"released", "waking", "woken"}}

(***************************************************************************)
(* No wakeup is lost: while goroutines are queued, every free permit has   *)
(* a goroutine on its way to it, so no waiter can sleep on a free permit   *)
(* with nobody left to wake it.  This is what the Add-before-check of      *)
(* semacquire1 (sema.go:167-177) and the Xadd-before-Load of semrelease1   *)
(* (sema.go:195-202) are for.                                              *)
(***************************************************************************)
NoLostWakeup == waitq # << >> => sema <= Cardinality(InFlight)
-----------------------------------------------------------------------------
(* The wait queue is consistent: a goroutine is queued once, sleeps while it *)
(* is queued, and has at most one releaser about to ready it.  This is what  *)
(* the clients of the semaphore need to know of it in their proofs.           *)
Distinct == \A i, j \in 1 .. Len(waitq) : waitq[i] = waitq[j] => i = j

Sleepers == \A i \in 1 .. Len(waitq) : sst[waitq[i]] = "parked"

Dequeued ==
  \A p \in Procs : sst[p] = "waking" =>
    /\ wakee[p] \in Procs
    /\ sst[wakee[p]] = "parked"
    /\ \A i \in 1 .. Len(waitq) : waitq[i] # wakee[p]

OneWaker ==
  \A p, q \in Procs :
    sst[p] = "waking" /\ sst[q] = "waking" /\ wakee[p] = wakee[q] => p = q

QueueInv == TypeOK /\ Distinct /\ Sleepers /\ Dequeued /\ OneWaker

(* The queue is consistent initially. *)
LEMMA QueueInvInit == InitSema \in Nat /\ Init => QueueInv
  BY DEF Init, QueueInv, TypeOK, States, Distinct, Sleepers, Dequeued, OneWaker

(* Every step of semacquire1 and semrelease1 keeps the queue consistent       *)
(* (sema.go:132-270).                                                         *)
LEMMA QueueInvStep == QueueInv /\ [Next]_semaVars => QueueInv'
<1> SUFFICES ASSUME QueueInv, [Next]_semaVars PROVE QueueInv' OBVIOUS
<1> USE DEF QueueInv, TypeOK, States, Distinct, Sleepers, Dequeued, OneWaker
<1>1. ASSUME NEW p \in Procs, AcquireNow(p) PROVE QueueInv'
  BY <1>1 DEF AcquireNow, CanSemacquire
<1>2. ASSUME NEW p \in Procs, NEW lifo \in BOOLEAN, Park(p, lifo) PROVE QueueInv'
  <2>0. /\ p \notin {waitq[i] : i \in 1 .. Len(waitq)}
        /\ sst' = [sst EXCEPT ![p] = "parked"] /\ sst[p] = "idle"
        /\ UNCHANGED << sema, wakee >>
    BY <1>2 DEF Park, Goto
  <2>1. CASE lifo
    <3>1. /\ waitq' \in Seq(Procs)
          /\ Len(waitq') = Len(waitq) + 1
          /\ waitq'[1] = p
          /\ \A i \in 2 .. Len(waitq') : waitq'[i] = waitq[i - 1]
      BY <1>2, <2>1 DEF Park, Queue
    <3>2. TypeOK' BY <2>0, <3>1
    <3>3. \A i \in 1 .. Len(waitq') :
            i = 1 \/ /\ i - 1 \in 1 .. Len(waitq)
                     /\ waitq'[i] = waitq[i - 1]
                     /\ waitq'[i] # p
      BY <2>0, <3>1
    <3>4. Distinct' BY <3>1, <3>3
    <3>5. Sleepers' BY <2>0, <3>1, <3>3
    <3>6. Dequeued' 
      <4> SUFFICES ASSUME NEW q \in Procs, sst'[q] = "waking"
                   PROVE  /\ wakee'[q] \in Procs
                          /\ sst'[wakee'[q]] = "parked"
                          /\ \A i \in 1 .. Len(waitq') : waitq'[i] # wakee'[q]
        OBVIOUS
      <4>1. sst[q] = "waking" /\ wakee'[q] = wakee[q] /\ wakee[q] # p
        BY <2>0
      <4>2. \A i \in 1 .. Len(waitq') : waitq'[i] # wakee[q]
        BY <3>1, <3>3, <4>1
      <4> QED BY <2>0, <4>1, <4>2
    <3>7. OneWaker' BY <2>0
    <3> QED BY <3>2, <3>4, <3>5, <3>6, <3>7
  <2>2. CASE ~lifo
    <3>1. /\ waitq' \in Seq(Procs)
          /\ Len(waitq') = Len(waitq) + 1
          /\ waitq'[Len(waitq')] = p
          /\ \A i \in 1 .. Len(waitq) : waitq'[i] = waitq[i]
      BY <1>2, <2>2 DEF Park, Queue
    <3>2. TypeOK' BY <2>0, <3>1
    <3>3. Distinct' BY <2>0, <3>1
    <3>4. Sleepers' BY <2>0, <3>1
    <3>5. Dequeued' BY <2>0, <3>1
    <3>6. OneWaker' BY <2>0
    <3> QED BY <3>2, <3>3, <3>4, <3>5, <3>6
  <2> QED BY <2>1, <2>2
<1>3. ASSUME NEW p \in Procs, ResumeGranted(p) PROVE QueueInv'
  BY <1>3 DEF ResumeGranted, Goto
<1>4. ASSUME NEW p \in Procs, ResumeTake(p) PROVE QueueInv'
  BY <1>4 DEF ResumeTake, Goto, CanSemacquire
<1>5. ASSUME NEW p \in Procs, ResumeLose(p) PROVE QueueInv'
  BY <1>5 DEF ResumeLose, Goto
<1>6. ASSUME NEW p \in Procs, ReleaseAdd(p) PROVE QueueInv'
  BY <1>6 DEF ReleaseAdd, Goto
<1>7. ASSUME NEW p \in Procs, ReleaseNobody(p) PROVE QueueInv'
  BY <1>7 DEF ReleaseNobody, Goto
<1>8. ASSUME NEW p \in Procs, ReleaseDequeue(p) PROVE QueueInv'
  BY <1>8 DEF ReleaseDequeue, Goto
<1>9. ASSUME NEW p \in Procs, NEW handoff \in BOOLEAN, ReleaseReady(p, handoff)
      PROVE QueueInv'
  BY <1>9 DEF ReleaseReady
<1>10. CASE UNCHANGED semaVars
  BY <1>10 DEF semaVars
<1> QED
  BY <1>1, <1>2, <1>3, <1>4, <1>5, <1>6, <1>7, <1>8, <1>9, <1>10 DEF Next
=============================================================================
