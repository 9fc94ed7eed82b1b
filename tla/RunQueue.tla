------------------------------- MODULE RunQueue -------------------------------
(***************************************************************************)
(* runtime/proc.go: the run queues of the scheduler.                       *)
(*                                                                         *)
(* Every P has a ring and a slot runnext.  Its owner puts and gets without *)
(* a lock; other Ps steal half of the ring, or runnext, with a             *)
(* CompareAndSwap.  What overflows goes to the global queue, which is      *)
(* under sched.lock.  Indexes wrap around; slots are not cleared.          *)
(*                                                                         *)
(* The owner alone writes its ring and its tail: what it reads of them     *)
(* before a CompareAndSwap of the head that succeeds is what is there when *)
(* it succeeds, and the two are one step.  A thief's are not.              *)
(***************************************************************************)
EXTENDS Integers, Sequences, FiniteSets

CONSTANTS
  Ps, NoP,   (* processors, each run by one M                              *)
  Gs, NoG,   (* goroutines                                                 *)
  RingLen,   (* len(pp.runq), 256 in the code                              *)
  Wrap,      (* how many indexes there are before they wrap around, 2^32   *)
  Start,     (* the index that the rings have got to                       *)
  MaxCalls   (* bound: how many calls begin                                *)

ASSUME RunqAssumption ==
  /\ IsFiniteSet(Ps) /\ NoP \notin Ps /\ NoG \notin Gs
  /\ RingLen \in Nat \ {0} /\ RingLen % 2 = 0
  /\ Wrap \in Nat /\ RingLen < Wrap /\ Wrap % RingLen = 0 /\ Start \in 0 .. Wrap - 1
  /\ MaxCalls \in Nat

VARIABLES
  runqhead, runqtail, runq, runnext,  (* of each P                         *)
  globq,      (* sched.runq                                                *)
  schedLock,  (* the P that holds sched.lock for more than one step        *)
  out,        (* the goroutines on no queue: they run or wait              *)
  rpc,        (* the next step of each P                                   *)
  gp,         (* the goroutine it has in its hands                         *)
  batch,      (* the goroutines it carries to or from the global queue     *)
  victim, h, n, nx,                 (* whom it steals from, and the locals *)
  spc, target, shead, stail, snext, (* an M without a P, in runqempty      *)
  sawEmpty,   (* history: since that call began, target was empty once     *)
  calls       (* how many calls have begun                                 *)

queues   == << runqhead, runqtail, runq, runnext, globq, out >>
thief    == << victim, h, n, nx >>
watcher  == << spc, target, shead, stail, snext >>
runqVars == << queues, schedLock, rpc, gp, batch, thief, watcher, sawEmpty, calls >>

RPCs == {"idle", "put", "publish", "global", "putRest", "drain",
         "grab", "copy", "loadNext", "casNext", "cas", "stolen", "throw"}

(* One P has k goroutines in its ring; the others run, or wait. *)
RunqInit ==
  /\ \E p \in Ps, g \in [0 .. RingLen - 1 -> Gs], k \in 0 .. RingLen :
       /\ \A i, j \in DOMAIN g : i # j => g[i] # g[j]
       /\ runqtail = [q \in Ps |-> (Start + IF q = p THEN k ELSE 0) % Wrap]
       /\ runq = [q \in Ps |-> [i \in DOMAIN g |->
                   IF q = p /\ (i - Start) % RingLen < k THEN g[i] ELSE NoG]]
       /\ out = Gs \ {runq[p][i] : i \in DOMAIN g}
  /\ runqhead = [p \in Ps |-> Start]
  /\ runnext = [p \in Ps |-> NoG]
  /\ globq = << >> /\ schedLock = NoP
  /\ rpc = [p \in Ps |-> "idle"]
  /\ gp = [p \in Ps |-> NoG] /\ batch = [p \in Ps |-> << >>]
  /\ victim = [p \in Ps |-> NoP]
  /\ h = [p \in Ps |-> 0] /\ n = [p \in Ps |-> 0] /\ nx = [p \in Ps |-> NoG]
  /\ spc = "idle" /\ target = NoP /\ shead = 0 /\ stail = 0 /\ snext = NoG
  /\ sawEmpty = FALSE
  /\ calls = 0

RGoto(p, from, to) ==
  /\ rpc[p] = from
  /\ rpc' = [rpc EXCEPT ![p] = to]

Filled(p) == (runqtail[p] - runqhead[p]) % Wrap

(* Ring p from index i on: k goroutines. *)
Slots(p, i, k) == [j \in 1 .. k |-> runq[p][(i + j - 1) % RingLen]]

RingAt(p)    == Slots(p, runqhead[p], Filled(p))
IsEmptyQ(p)  == Filled(p) = 0 /\ runnext[p] = NoG
Elems(s)     == {s[i] : i \in DOMAIN s}
SetMin(S)    == CHOOSE x \in S : \A y \in S : x <= y

(* Make the k goroutines behind the tail available to thieves.  Bound: the    *)
(* indexes do not come round while somebody sleeps who has read one of them.  *)
Advance(p, k) ==
  /\ runqtail' = [runqtail EXCEPT ![p] = (@ + k) % Wrap]
  /\ \A q \in Ps : rpc[q] \in {"copy", "cas"} /\ victim[q] = p =>
       ((runqtail[p] - h[q]) % Wrap) + k < Wrap
  /\ target = p /\ spc = "tail" => ((runqtail[p] - shead) % Wrap) + k < Wrap
  /\ target = p /\ spc \in {"next", "recheck"} => ((runqtail[p] - stail) % Wrap) + k < Wrap

-----------------------------------------------------------------------------
(* runqput, by the owner *)

(* The old runnext is kicked out to the regular run queue. *)
PutNext(p, g) ==
  /\ g \in out /\ out' = out \ {g}
  /\ RGoto(p, "idle", IF runnext[p] = NoG THEN "idle" ELSE "put")
  /\ runnext' = [runnext EXCEPT ![p] = g]
  /\ gp' = [gp EXCEPT ![p] = runnext[p]]
  /\ UNCHANGED << runqhead, runqtail, runq, globq, schedLock, batch, thief >>

Put(p, g) ==
  /\ g \in out /\ out' = out \ {g}
  /\ RGoto(p, "idle", "put")
  /\ gp' = [gp EXCEPT ![p] = g]
  /\ UNCHANGED << runqhead, runqtail, runq, runnext, globq, schedLock, batch, thief >>

PutRing(p) ==
  /\ RGoto(p, "put", "publish")
  /\ Filled(p) < RingLen
  /\ runq' = [runq EXCEPT ![p][runqtail[p] % RingLen] = gp[p]]
  /\ UNCHANGED << runqhead, runqtail, runnext, globq, schedLock, out, gp, batch, thief >>

(* atomic.StoreRel(&pp.runqtail, t+1) *)
PutPublish(p) ==
  /\ RGoto(p, "publish", IF schedLock = p THEN "putRest" ELSE "idle")
  /\ Advance(p, 1)
  /\ gp' = [gp EXCEPT ![p] = NoG]
  /\ UNCHANGED << runqhead, runq, runnext, globq, schedLock, out, batch, thief >>

(* runqputslow: half of the full ring and gp. *)
PutSlow(p) ==
  /\ Filled(p) >= RingLen
  /\ RGoto(p, "put", IF Filled(p) \div 2 # RingLen \div 2 THEN "throw" ELSE "global")
  /\ runqhead' = [runqhead EXCEPT ![p] = (@ + RingLen \div 2) % Wrap]
  /\ batch' = [batch EXCEPT ![p] = Slots(p, runqhead[p], RingLen \div 2) \o << gp[p] >> \o @]
  /\ gp' = [gp EXCEPT ![p] = NoG]
  /\ UNCHANGED << runqtail, runq, runnext, globq, schedLock, out, thief >>

(* lock(&sched.lock); globrunqputbatch(...) *)
PutGlobal(p) ==
  /\ RGoto(p, "global", "idle")
  /\ schedLock = NoP
  /\ globq' = globq \o batch[p]
  /\ batch' = [batch EXCEPT ![p] = << >>]
  /\ UNCHANGED << runqhead, runqtail, runq, runnext, schedLock, out, gp, thief >>

(* runqputbatch: what fits goes into the ring, the rest to the global queue.  *)
(* (The slots are written before they are published, and nobody reads them.)  *)
PutBatch(p, q) ==
  LET k == IF RingLen - Filled(p) < Len(q) THEN RingLen - Filled(p) ELSE Len(q) IN
  /\ Elems(q) \subseteq out /\ out' = out \ Elems(q)
  /\ RGoto(p, "idle", IF k = Len(q) THEN "idle" ELSE "global")
  /\ runq' = [runq EXCEPT ![p] = [i \in DOMAIN @ |->
                LET j == (i - runqtail[p]) % RingLen IN IF j < k THEN q[j + 1] ELSE @[i]]]
  /\ Advance(p, k)
  /\ batch' = [batch EXCEPT ![p] = SubSeq(q, k + 1, Len(q))]
  /\ UNCHANGED << runqhead, runnext, globq, schedLock, gp, thief >>

-----------------------------------------------------------------------------
(* runqget, runqdrain, by the owner; globrunqget *)

GetNext(p) ==
  /\ RGoto(p, "idle", "idle")
  /\ runnext[p] # NoG
  /\ runnext' = [runnext EXCEPT ![p] = NoG]
  /\ out' = out \cup {runnext[p]}
  /\ UNCHANGED << runqhead, runqtail, runq, globq, schedLock, gp, batch, thief >>

(* Without a runnext, or with one that a thief has taken by now. *)
GetRing(p) ==
  /\ RGoto(p, "idle", "idle")
  /\ runnext[p] = NoG /\ Filled(p) # 0
  /\ runqhead' = [runqhead EXCEPT ![p] = (@ + 1) % Wrap]
  /\ out' = out \cup {runq[p][runqhead[p] % RingLen]}
  /\ UNCHANGED << runqtail, runq, runnext, globq, schedLock, gp, batch, thief >>

(* runqdrain, for a preempted mark worker: runnext first, then the ring. *)
DrainNext(p) ==
  /\ RGoto(p, "idle", "drain")
  /\ runnext' = [runnext EXCEPT ![p] = NoG]
  /\ batch' = [batch EXCEPT ![p] = IF runnext[p] = NoG THEN << >> ELSE << runnext[p] >>]
  /\ UNCHANGED << runqhead, runqtail, runq, globq, schedLock, out, gp, thief >>

(* The CompareAndSwap of the head takes all goroutines at once. *)
DrainRing(p) ==
  /\ batch' = [batch EXCEPT ![p] = @ \o RingAt(p)]
  /\ RGoto(p, "drain", IF batch'[p] = << >> THEN "idle" ELSE "global")
  /\ runqhead' = [runqhead EXCEPT ![p] = runqtail[p]]
  /\ UNCHANGED << runqtail, runq, runnext, globq, schedLock, out, gp, thief >>

(* globrunqget under sched.lock: max = 0 only when the local queue is empty   *)
(* (findRunnable).  The first goroutine runs, the rest are put one by one.    *)
GlobGet(p, max) ==
  LET share == Len(globq) \div Cardinality(Ps) + 1
      k == SetMin({share, Len(globq), RingLen \div 2} \cup (IF max > 0 THEN {max} ELSE {}))
  IN
  /\ schedLock = NoP /\ globq # << >>
  /\ max = 0 => IsEmptyQ(p)
  /\ RGoto(p, "idle", IF k = 1 THEN "idle" ELSE "putRest")
  /\ schedLock' = IF k = 1 THEN NoP ELSE p
  /\ out' = out \cup {globq[1]}
  /\ batch' = [batch EXCEPT ![p] = SubSeq(globq, 2, k)]
  /\ globq' = SubSeq(globq, k + 1, Len(globq))
  /\ UNCHANGED << runqhead, runqtail, runq, runnext, gp, thief >>

PutRest(p) ==
  /\ RGoto(p, "putRest", IF batch[p] = << >> THEN "idle" ELSE "put")
  /\ IF batch[p] = << >>
     THEN schedLock' = NoP /\ UNCHANGED << gp, batch >>
     ELSE /\ gp' = [gp EXCEPT ![p] = Head(batch[p])]
          /\ batch' = [batch EXCEPT ![p] = Tail(@)]
          /\ UNCHANGED schedLock
  /\ UNCHANGED << runqhead, runqtail, runq, runnext, globq, out, thief >>

-----------------------------------------------------------------------------
(* runqsteal and runqgrab, by a P that has nothing to run (findRunnable) *)

(* h := atomic.LoadAcq(&pp.runqhead), of the victim. *)
GrabHead(p, p2) ==
  /\ p # p2 /\ IsEmptyQ(p)
  /\ RGoto(p, "idle", "copy")
  /\ victim' = [victim EXCEPT ![p] = p2]
  /\ h' = [h EXCEPT ![p] = runqhead[p2]]
  /\ UNCHANGED << queues, schedLock, gp, batch, n, nx >>

GrabAgain(p) ==
  /\ RGoto(p, "grab", "copy")
  /\ h' = [h EXCEPT ![p] = runqhead[victim[p]]]
  /\ UNCHANGED << queues, schedLock, gp, batch, victim, n, nx >>

Half(k) == k - k \div 2

LeaveGrab(p) ==
  /\ victim' = [victim EXCEPT ![p] = NoP]
  /\ h' = [h EXCEPT ![p] = 0] /\ n' = [n EXCEPT ![p] = 0]
  /\ nx' = [nx EXCEPT ![p] = NoG]

(* What thief p would get: t := atomic.LoadAcq(&pp.runqtail) comes after h.   *)
Share(p) == Half((runqtail[victim[p]] - h[p]) % Wrap)

(* The copy into the thief's ring, behind its tail. *)
GrabCopy(p) ==
  /\ RGoto(p, "copy", "cas")
  /\ Share(p) \in 1 .. RingLen \div 2
  /\ n' = [n EXCEPT ![p] = Share(p)]
  /\ runq' = [runq EXCEPT ![p] = [i \in DOMAIN @ |->
                LET j == (i - runqtail[p]) % RingLen IN
                IF j < Share(p) THEN runq[victim[p]][(h[p] + j) % RingLen] ELSE @[i]]]
  /\ UNCHANGED << runqhead, runqtail, runnext, globq, out, schedLock, gp, batch, victim, h, nx >>

(* A head and a tail that do not fit: both are loaded again. *)
GrabInconsistent(p) ==
  /\ RGoto(p, "copy", "grab")
  /\ Share(p) > RingLen \div 2
  /\ UNCHANGED << queues, schedLock, gp, batch, thief >>

(* Nothing in the ring.  Only the last round of stealing tries runnext. *)
GrabNothing(p) ==
  /\ RGoto(p, "copy", "idle")
  /\ Share(p) = 0
  /\ LeaveGrab(p)
  /\ UNCHANGED << queues, schedLock, gp, batch >>

GrabTryNext(p) ==
  /\ RGoto(p, "copy", "loadNext")
  /\ Share(p) = 0
  /\ UNCHANGED << queues, schedLock, gp, batch, thief >>

(* next := pp.runnext, and then it sleeps to give the victim a chance. *)
GrabLoadNext(p) ==
  LET first == runnext[victim[p]] IN
  /\ RGoto(p, "loadNext", IF first = NoG THEN "idle" ELSE "casNext")
  /\ IF first = NoG THEN LeaveGrab(p)
     ELSE nx' = [nx EXCEPT ![p] = first] /\ UNCHANGED << victim, h, n >>
  /\ UNCHANGED << queues, schedLock, gp, batch >>

(* pp.runnext.cas(next, 0), or the loop starts over. *)
GrabNext(p) ==
  LET v == victim[p]
      took == runnext[v] = nx[p]
  IN
  /\ RGoto(p, "casNext", IF took THEN "idle" ELSE "grab")
  /\ IF took
     THEN /\ runnext' = [runnext EXCEPT ![v] = NoG]
          /\ out' = out \cup {nx[p]}
          /\ LeaveGrab(p)
     ELSE nx' = [nx EXCEPT ![p] = NoG] /\ UNCHANGED << runnext, out, victim, h, n >>
  /\ UNCHANGED << runqhead, runqtail, runq, globq, schedLock, gp, batch >>

(* Variant: the head is stored, not compared and swapped. *)
GrabStore(p) ==
  /\ RGoto(p, "cas", "stolen")
  /\ runqhead' = [runqhead EXCEPT ![victim[p]] = (h[p] + n[p]) % Wrap]
  /\ UNCHANGED << runqtail, runq, runnext, globq, out, schedLock, gp, batch, thief >>

(* atomic.CasRel(&pp.runqhead, h, h+n) commits, or the loop starts over. *)
GrabCas(p) ==
  LET v == victim[p] IN
  /\ RGoto(p, "cas", IF runqhead[v] = h[p] THEN "stolen" ELSE "grab")
  /\ runqhead' = [runqhead EXCEPT ![v] = IF @ = h[p] THEN (@ + n[p]) % Wrap ELSE @]
  /\ UNCHANGED << runqtail, runq, runnext, globq, out, schedLock, gp, batch, thief >>

(* The last of the batch runs, the others are published. *)
StealPublish(p) ==
  /\ RGoto(p, "stolen",
       IF n[p] > 1 /\ Filled(p) + n[p] - 1 >= RingLen THEN "throw" ELSE "idle")
  /\ Advance(p, n[p] - 1)
  /\ out' = out \cup {runq[p][(runqtail[p] + n[p] - 1) % RingLen]}
  /\ LeaveGrab(p)
  /\ UNCHANGED << runqhead, runq, runnext, globq, schedLock, gp, batch >>

-----------------------------------------------------------------------------
(* runqempty, called by an M that has no P (checkRunqsNoP, sysmon). *)

IsEmptyHead(p) ==
  /\ spc = "idle" /\ spc' = "tail"
  /\ target' = p /\ shead' = runqhead[p]
  /\ UNCHANGED << stail, snext >>

IsEmptyTail ==
  /\ spc = "tail" /\ spc' = "next"
  /\ stail' = runqtail[target]
  /\ UNCHANGED << target, shead, snext >>

IsEmptyNext ==
  /\ spc = "next" /\ spc' = "recheck"
  /\ snext' = runnext[target]
  /\ UNCHANGED << target, shead, stail >>

(* Variant: what was loaded is good enough. *)
IsEmptyOnce ==
  /\ spc = "recheck"
  /\ spc' = IF shead = stail /\ snext = NoG THEN "empty" ELSE "idle"
  /\ target' = IF spc' = "empty" THEN target ELSE NoP
  /\ shead' = 0 /\ stail' = 0 /\ snext' = NoG

(* Only if the tail has not moved is the answer good. *)
IsEmptyRecheck ==
  /\ spc = "recheck"
  /\ spc' = IF stail # runqtail[target] THEN "again"
            ELSE IF shead = stail /\ snext = NoG THEN "empty" ELSE "idle"
  /\ target' = IF spc' = "idle" THEN NoP ELSE target
  /\ shead' = 0 /\ stail' = 0 /\ snext' = NoG

IsEmptyAgain ==
  /\ spc = "again" /\ spc' = "tail"
  /\ shead' = runqhead[target]
  /\ UNCHANGED << target, stail, snext >>

IsEmptyReturn ==
  /\ spc = "empty" /\ spc' = "idle"
  /\ target' = NoP
  /\ UNCHANGED << shead, stail, snext >>

-----------------------------------------------------------------------------
POp(p) ==
  \/ \E g \in Gs : PutNext(p, g) \/ Put(p, g)
  \/ \E g1, g2 \in Gs : g1 # g2 /\ PutBatch(p, << g1, g2 >>)
  \/ GetNext(p) \/ GetRing(p) \/ DrainNext(p)
  \/ \E max \in {0, 1} : GlobGet(p, max)
  \/ \E p2 \in Ps : GrabHead(p, p2)

PStep(p) ==
  \/ PutRing(p) \/ PutPublish(p) \/ PutSlow(p) \/ PutGlobal(p) \/ PutRest(p)
  \/ DrainRing(p)
  \/ GrabAgain(p) \/ GrabCopy(p) \/ GrabInconsistent(p) \/ GrabNothing(p)
  \/ GrabTryNext(p) \/ GrabLoadNext(p) \/ GrabNext(p)
  \/ GrabCas(p) \/ StealPublish(p)

WatchStep ==
  \/ IsEmptyTail \/ IsEmptyNext \/ IsEmptyRecheck \/ IsEmptyAgain \/ IsEmptyReturn

Begin == calls < MaxCalls /\ calls' = calls + 1

RunqNext ==
  /\ \/ /\ \/ Begin /\ \E p \in Ps : POp(p)
           \/ UNCHANGED calls /\ \E p \in Ps : PStep(p)
        /\ UNCHANGED watcher
     \/ /\ \/ Begin /\ \E p \in Ps : IsEmptyHead(p)
           \/ UNCHANGED calls /\ WatchStep
        /\ UNCHANGED << queues, schedLock, rpc, gp, batch, thief >>
  /\ sawEmpty' = (spc' # "idle" /\ (sawEmpty \/ IsEmptyQ(target)'))

RunqSpec == RunqInit /\ [][RunqNext]_runqVars

-----------------------------------------------------------------------------
(* What is in the ring of p, and, in the middle of a steal, behind it. *)
Hold(p) == Filled(p) + IF rpc[p] = "stolen" THEN n[p] ELSE 0

(* The places where g is: what it is in, whose that is, and at which index. *)
Places(g) ==
  {<< "out", NoP, 0 >> : o \in {g} \cap out}
  \cup {<< "sched", NoP, i >> : i \in {k \in DOMAIN globq : globq[k] = g}}
  \cup {<< "next", p, 0 >> : p \in {q \in Ps : runnext[q] = g}}
  \cup {<< "gp", p, 0 >> : p \in {q \in Ps : gp[q] = g}}
  \cup (UNION {{<< "batch", p, i >> : i \in {k \in DOMAIN batch[p] : batch[p][k] = g}} : p \in Ps})
  \cup (UNION {{<< "ring", p, i >> : i \in {k \in 0 .. Wrap - 1 :
                   (k - runqhead[p]) % Wrap < Hold(p) /\ runq[p][k % RingLen] = g}} : p \in Ps})

(***************************************************************************)
(* Every goroutine is in one place: off the queues, in a ring, in a        *)
(* runnext, in the global queue, or in the hands of the P that moves it.   *)
(* So none is lost or run twice, however puts, gets and steals interleave, *)
(* and rings neither overflow nor does a P wait for the lock it holds      *)
(* (proc.go:6746-6751, 6774-6776, 6944-6952, 6971-6976).                   *)
(***************************************************************************)
GoroutinesOnce ==
  /\ rpc \in [Ps -> RPCs \ {"throw"}]
  /\ \A p \in Ps : Filled(p) <= RingLen /\ ~ (rpc[p] = "global" /\ schedLock = p)
  /\ \A g \in Gs : Cardinality(Places(g)) = 1

(* runqempty "never returns true spuriously": the queue was empty at some     *)
(* moment of the call, though its owner shuffles goroutines between runnext   *)
(* and the ring meanwhile (proc.go:6683-6697).                                *)
EmptyNotSpurious == spc = "empty" => sawEmpty
=============================================================================
