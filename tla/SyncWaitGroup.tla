---------------------------- MODULE SyncWaitGroup ----------------------------
(***************************************************************************)
(* sync/waitgroup.go: a counter and a number of waiters in one word, and a *)
(* semaphore on which the waiters sleep.                                   *)
(*                                                                         *)
(* The program keeps the rules of the documentation (waitgroup.go:34-43):  *)
(* no more Done than Add, and an Add that finds the counter at zero comes  *)
(* when nobody is in Wait.  A WaitGroup is used again and again.           *)
(***************************************************************************)
EXTENDS Integers, Sequences, FiniteSets, Goroutines

CONSTANT MaxCount  (* bound: no Add takes the counter beyond it            *)

ASSUME WaitGroupAssumption == MaxCount \in Nat

VARIABLES
  counter, waiters,             (* wg.state                                *)
  gsema, gwaitq, gsst, gwakee,  (* wg.sema, as in module Semaphore         *)
  wpc,                          (* the next step of each goroutine         *)
  left                          (* the local w: waiters yet to be released *)

wgSem  == << gsema, gwaitq, gsst, gwakee >>
wgVars == << counter, waiters, wgSem, wpc, left >>

WGSem == INSTANCE Semaphore WITH
         InitSema <- 0, sema <- gsema, waitq <- gwaitq, sst <- gsst, wakee <- gwakee

WPCs == {"outside", "zeroed", "reset", "release", "blocked", "check", "panic"}

WGInit ==
  /\ counter = 0 /\ waiters = 0
  /\ WGSem!Init
  /\ wpc  = [p \in Procs |-> "outside"]
  /\ left = [p \in Procs |-> 0]

WGoto(p, from, to) ==
  /\ wpc[p] = from
  /\ wpc' = [wpc EXCEPT ![p] = to]

WAt(states) == {p \in Procs : wpc[p] \in states}

(* The rules for the program that calls Add. *)
MayAdd(delta) ==
  /\ counter + delta \in 0 .. MaxCount
  /\ counter = 0 => WAt({"blocked", "check"}) = {}

-----------------------------------------------------------------------------
(* Add, Done *)

(* The word after wg.state.Add(delta), v in its upper half: a misuse, nothing *)
(* to do, or waiters to release.                                              *)
Add(p, delta) ==
  /\ MayAdd(delta)
  /\ counter' = counter + delta
  /\ WGoto(p, "outside",
       IF counter' < 0 \/ (waiters # 0 /\ delta > 0 /\ counter' = delta) THEN "panic"
       ELSE IF counter' > 0 \/ waiters = 0 THEN "outside" ELSE "zeroed")
  /\ left' = [left EXCEPT ![p] = IF wpc'[p] = "zeroed" THEN waiters ELSE 0]
  /\ UNCHANGED << waiters, wgSem >>

(* if wg.state.Load() != state *)
AddRecheck(p) ==
  /\ WGoto(p, "zeroed",
       IF counter # 0 \/ waiters # left[p] THEN "panic" ELSE "reset")
  /\ UNCHANGED << counter, waiters, wgSem, left >>

(* Variant: the waiters that are released are still counted. *)
AddKeepsWaiters(p) ==
  /\ WGoto(p, "reset", "release")
  /\ UNCHANGED << counter, waiters, wgSem, left >>

(* wg.state.Store(0) *)
AddReset(p) ==
  /\ WGoto(p, "reset", "release")
  /\ counter' = 0 /\ waiters' = 0
  /\ UNCHANGED << wgSem, left >>

(* for ; w != 0; w-- { runtime_Semrelease(&wg.sema, false, 0) } *)
AddRelease(p) ==
  /\ wpc[p] = "release" /\ left[p] > 0
  /\ \/ (WGSem!ReleaseAdd(p) \/ WGSem!ReleaseDequeue(p)) /\ UNCHANGED left
     \/ WGSem!Released(p, FALSE) /\ left' = [left EXCEPT ![p] = @ - 1]
  /\ UNCHANGED << counter, waiters, wpc >>

AddReturn(p) ==
  /\ WGoto(p, "release", "outside")
  /\ left[p] = 0
  /\ UNCHANGED << counter, waiters, wgSem, left >>

-----------------------------------------------------------------------------
(* Wait: with the counter at zero it returns at once. *)

(* The CompareAndSwap(state, state+1) that succeeds. *)
WaitJoin(p) ==
  /\ counter # 0
  /\ WGoto(p, "outside", "blocked")
  /\ waiters' = waiters + 1
  /\ UNCHANGED << counter, wgSem, left >>

WaitSleep(p) ==
  /\ wpc[p] = "blocked"
  /\ WGSem!Waits(p, FALSE)
  /\ UNCHANGED << counter, waiters, wpc, left >>

WaitAcquired(p) ==
  /\ WGoto(p, "blocked", "check")
  /\ WGSem!Acquired(p)
  /\ UNCHANGED << counter, waiters, left >>

WaitReturn(p) ==
  /\ WGoto(p, "check", IF counter # 0 \/ waiters # 0 THEN "panic" ELSE "outside")
  /\ UNCHANGED << counter, waiters, wgSem, left >>

-----------------------------------------------------------------------------
WGStep(p) ==
  \/ AddRecheck(p) \/ AddReset(p) \/ AddRelease(p) \/ AddReturn(p)
  \/ WaitSleep(p) \/ WaitAcquired(p) \/ WaitReturn(p)

WGNext == \E p \in Procs :
  \/ \E delta \in {-2, -1, 1, 2} : Add(p, delta)
  \/ WaitJoin(p)
  \/ WGStep(p)

WGSpec == WGInit /\ [][WGNext]_wgVars

-----------------------------------------------------------------------------
(***************************************************************************)
(* Every goroutine that is blocked in Wait is counted in the word, or has  *)
(* a permit, or is one that the goroutine which took the counter to zero   *)
(* has yet to release; one that was released finds the word at zero.  So   *)
(* a program that keeps the rules never panics, Wait does not return       *)
(* before the counter has been zero, and no permit is left over for the    *)
(* next use (waitgroup.go:72-84, 118-121).                                 *)
(***************************************************************************)
ToRelease(p) ==
  IF wpc[p] # "release" THEN 0
  ELSE left[p] - (IF gsst[p] \in {"released", "waking"} THEN 1 ELSE 0)

WaitersReleased ==
  /\ wpc \in [Procs -> WPCs] /\ WGSem!TypeOK
  /\ WAt({"panic"}) = {}
  /\ Cardinality(WAt({"zeroed", "reset"})) <= 1
  /\ LET releasers == {p \in Procs : ToRelease(p) > 0} IN
     /\ Cardinality(releasers) <= 1
     /\ Cardinality(WAt({"blocked"}))
          = waiters + gsema + (IF releasers = {} THEN 0
                               ELSE ToRelease(CHOOSE p \in releasers : TRUE))
  /\ WAt({"check"}) # {} => counter = 0 /\ waiters = 0
  /\ WGSem!QueueInv
=============================================================================
