------------------------------- MODULE SemaRoot -------------------------------
(***************************************************************************)
(* runtime/sema.go, step by step: one semaRoot of the semtable, the        *)
(* addresses that hash to it, and goroutines inside semacquire1 and        *)
(* semrelease1.                                                            *)
(*                                                                         *)
(* The addresses share the root's lock and its waiter count nwait, which   *)
(* semrelease1 reads without the lock.  Every access to *addr or nwait     *)
(* that another goroutine can observe without holding the lock is a step   *)
(* of its own.  The treap of sudogs is its meaning, one wait queue per     *)
(* address; profiling and the goyield after a handoff are left out.        *)
(***************************************************************************)
EXTENDS Naturals, Sequences, FiniteSets

CONSTANTS
  Procs,      (* goroutines                                                *)
  NoProc,     (* no goroutine: the root lock is free, nobody dequeued      *)
  Addrs,      (* semaphore addresses that hash to this root                *)
  InitSema,   (* initial value of every *addr                              *)
  MaxPermits  (* bound: no release starts when this many permits are out   *)

ASSUME SemaRootAssumption ==
  /\ IsFiniteSet(Procs) /\ NoProc \notin Procs
  /\ InitSema \in Nat /\ MaxPermits \in Nat

VARIABLES
  sema,      (* *addr                                                      *)
  queue,     (* the sudogs waiting on each address                         *)
  nwait,     (* root.nwait                                                 *)
  rootLock,  (* the holder of root.lock                                    *)
  pc,        (* the next step of each goroutine                            *)
  req,       (* the arguments of the call each goroutine is in             *)
  ticket,    (* s.ticket # 0: the permit was handed off to this waiter     *)
  wakee,     (* the sudog a releaser has dequeued                          *)
  ledger     (* history: permits released and not yet returned to a caller *)

vars == << sema, queue, nwait, rootLock, pc, req, ticket, wakee, ledger >>

NoReq == [addr |-> "none", flag |-> FALSE]
Reqs  == [addr : Addrs, flag : BOOLEAN]

AcquirePCs == {"a_easy", "a_lock", "a_check", "a_undo", "a_queue", "a_parked",
               "a_woke", "a_ret"}
ReleasePCs == {"r_xadd", "r_load", "r_lock", "r_deq", "r_handoff", "r_ready"}

Init ==
  /\ sema     = [a \in Addrs |-> InitSema]
  /\ queue    = [a \in Addrs |-> << >>]
  /\ nwait    = 0
  /\ rootLock = NoProc
  /\ pc       = [p \in Procs |-> "idle"]
  /\ req      = [p \in Procs |-> NoReq]
  /\ ticket   = [p \in Procs |-> FALSE]
  /\ wakee    = [p \in Procs |-> NoProc]
  /\ ledger   = [a \in Addrs |-> InitSema]

Goto(p, from, to) ==
  /\ pc[p] = from
  /\ pc' = [pc EXCEPT ![p] = to]

Addr(p) == req[p].addr

(* cansemacquire: TRUE takes a permit of addr, FALSE sees that there is none. *)
CanSemacquire(a) ==
  /\ sema[a] > 0
  /\ sema' = [sema EXCEPT ![a] = @ - 1]
CannotSemacquire(a) == sema[a] = 0 /\ UNCHANGED sema

Lock(p)   == rootLock = NoProc /\ rootLock' = p
Unlock(p) == rootLock = p /\ rootLock' = NoProc

-----------------------------------------------------------------------------
(* semacquire1(addr, lifo) *)

CallAcquire(p, a, lifo) ==
  /\ Goto(p, "idle", "a_easy")
  /\ req' = [req EXCEPT ![p] = [addr |-> a, flag |-> lifo]]
  /\ UNCHANGED << sema, queue, nwait, rootLock, ticket, wakee, ledger >>

AcquireEasy(p) ==
  /\ \/ Goto(p, "a_easy", "a_ret") /\ CanSemacquire(Addr(p))
     \/ Goto(p, "a_easy", "a_lock") /\ CannotSemacquire(Addr(p))
  /\ UNCHANGED << queue, nwait, rootLock, req, ticket, wakee, ledger >>

(* Variant: the waiter does not announce itself in nwait. *)
AcquireLockUnannounced(p) ==
  /\ Goto(p, "a_lock", "a_check")
  /\ Lock(p)
  /\ UNCHANGED << sema, queue, nwait, req, ticket, wakee, ledger >>

(* lockWithRank(&root.lock); root.nwait.Add(1) *)
AcquireLock(p) ==
  /\ Goto(p, "a_lock", "a_check")
  /\ Lock(p)
  /\ nwait' = nwait + 1
  /\ UNCHANGED << sema, queue, req, ticket, wakee, ledger >>

(* Variant: no second look at the semaphore, under the lock. *)
AcquireCheckSkipped(p) ==
  /\ Goto(p, "a_check", "a_queue")
  /\ UNCHANGED << sema, queue, nwait, rootLock, req, ticket, wakee, ledger >>

AcquireCheck(p) ==
  /\ \/ Goto(p, "a_check", "a_undo") /\ CanSemacquire(Addr(p))
     \/ Goto(p, "a_check", "a_queue") /\ CannotSemacquire(Addr(p))
  /\ UNCHANGED << queue, nwait, rootLock, req, ticket, wakee, ledger >>

AcquireUndo(p) ==
  /\ Goto(p, "a_undo", "a_ret")
  /\ nwait' = nwait - 1
  /\ Unlock(p)
  /\ UNCHANGED << sema, queue, req, ticket, wakee, ledger >>

Insert(q, p, lifo) == IF lifo THEN << p >> \o q ELSE Append(q, p)

(* root.queue(addr, s, lifo); goparkunlock(&root.lock) *)
AcquireQueue(p) ==
  /\ Goto(p, "a_queue", "a_parked")
  /\ queue' = [queue EXCEPT ![Addr(p)] = Insert(@, p, req[p].flag)]
  /\ Unlock(p)
  /\ UNCHANGED << sema, nwait, req, ticket, wakee, ledger >>

(* if s.ticket != 0 || cansemacquire(addr) { break } *)
AcquireWoke(p) ==
  /\ \/ ticket[p] /\ Goto(p, "a_woke", "a_ret") /\ UNCHANGED sema
     \/ ~ticket[p] /\ Goto(p, "a_woke", "a_ret") /\ CanSemacquire(Addr(p))
     \/ ~ticket[p] /\ Goto(p, "a_woke", "a_lock") /\ CannotSemacquire(Addr(p))
  /\ UNCHANGED << queue, nwait, rootLock, req, ticket, wakee, ledger >>

(* releaseSudog(s) and return: the caller now owns one permit. *)
AcquireReturn(p) ==
  /\ Goto(p, "a_ret", "idle")
  /\ req'    = [req EXCEPT ![p] = NoReq]
  /\ ticket' = [ticket EXCEPT ![p] = FALSE]
  /\ ledger' = [ledger EXCEPT ![Addr(p)] = @ - 1]
  /\ UNCHANGED << sema, queue, nwait, rootLock, wakee >>

-----------------------------------------------------------------------------
(* semrelease1(addr, handoff) *)

CallRelease(p, a, handoff) ==
  /\ ledger[a] < MaxPermits
  /\ Goto(p, "idle", "r_xadd")
  /\ req'    = [req EXCEPT ![p] = [addr |-> a, flag |-> handoff]]
  /\ ledger' = [ledger EXCEPT ![a] = @ + 1]
  /\ UNCHANGED << sema, queue, nwait, rootLock, ticket, wakee >>

ReleaseXadd(p) ==
  /\ Goto(p, "r_xadd", "r_load")
  /\ sema' = [sema EXCEPT ![Addr(p)] = @ + 1]
  /\ UNCHANGED << queue, nwait, rootLock, req, ticket, wakee, ledger >>

(* Easy case: no waiters?  Read without the lock. *)
ReleaseEasy(p) ==
  /\ nwait = 0
  /\ Goto(p, "r_load", "idle")
  /\ req' = [req EXCEPT ![p] = NoReq]
  /\ UNCHANGED << sema, queue, nwait, rootLock, ticket, wakee, ledger >>

ReleaseHarder(p) ==
  /\ nwait # 0
  /\ Goto(p, "r_load", "r_lock")
  /\ UNCHANGED << sema, queue, nwait, rootLock, req, ticket, wakee, ledger >>

ReleaseLock(p) ==
  /\ Goto(p, "r_lock", "r_deq")
  /\ Lock(p)
  /\ UNCHANGED << sema, queue, nwait, req, ticket, wakee, ledger >>

(* nwait is 0 by now, or dequeue(addr) finds nobody waiting on this address. *)
ReleaseNobody(p) ==
  /\ Goto(p, "r_deq", "idle")
  /\ nwait = 0 \/ queue[Addr(p)] = << >>
  /\ Unlock(p)
  /\ req' = [req EXCEPT ![p] = NoReq]
  /\ UNCHANGED << sema, queue, nwait, ticket, wakee, ledger >>

(* Variant: the last waiter of the queue is woken. *)
ReleaseDequeueLast(p) ==
  /\ Goto(p, "r_deq", "r_handoff")
  /\ nwait # 0 /\ queue[Addr(p)] # << >>
  /\ queue' = [queue EXCEPT ![Addr(p)] = SubSeq(@, 1, Len(@) - 1)]
  /\ wakee' = [wakee EXCEPT ![p] = queue[Addr(p)][Len(queue[Addr(p)])]]
  /\ nwait' = nwait - 1
  /\ Unlock(p)
  /\ UNCHANGED << sema, req, ticket, ledger >>

ReleaseDequeue(p) ==
  /\ Goto(p, "r_deq", "r_handoff")
  /\ nwait # 0 /\ queue[Addr(p)] # << >>
  /\ queue' = [queue EXCEPT ![Addr(p)] = Tail(@)]
  /\ wakee' = [wakee EXCEPT ![p] = Head(queue[Addr(p)])]
  /\ nwait' = nwait - 1
  /\ Unlock(p)
  /\ UNCHANGED << sema, req, ticket, ledger >>

(* Variant: the ticket is given without taking the permit it stands for. *)
ReleaseHandoffUnpaid(p) ==
  /\ Goto(p, "r_handoff", "r_ready")
  /\ ticket' = [ticket EXCEPT ![wakee[p]] = req[p].flag]
  /\ UNCHANGED << sema, queue, nwait, rootLock, req, wakee, ledger >>

(* if handoff && cansemacquire(addr) { s.ticket = 1 } *)
ReleaseHandoff(p) ==
  /\ Goto(p, "r_handoff", "r_ready")
  /\ \/ /\ req[p].flag
        /\ CanSemacquire(Addr(p))
        /\ ticket' = [ticket EXCEPT ![wakee[p]] = TRUE]
     \/ /\ ~req[p].flag \/ sema[Addr(p)] = 0
        /\ UNCHANGED << sema, ticket >>
  /\ UNCHANGED << queue, nwait, rootLock, req, wakee, ledger >>

(* readyWithTime(s) -> goready(s.g) *)
ReleaseReady(p) ==
  /\ pc[p] = "r_ready"
  /\ pc'    = [pc EXCEPT ![p] = "idle", ![wakee[p]] = "a_woke"]
  /\ wakee' = [wakee EXCEPT ![p] = NoProc]
  /\ req'   = [req EXCEPT ![p] = NoReq]
  /\ UNCHANGED << sema, queue, nwait, rootLock, ticket, ledger >>

-----------------------------------------------------------------------------
AcquireStep(p) ==
  \/ AcquireEasy(p) \/ AcquireLock(p) \/ AcquireCheck(p) \/ AcquireUndo(p)
  \/ AcquireQueue(p) \/ AcquireWoke(p) \/ AcquireReturn(p)

ReleaseStep(p) ==
  \/ ReleaseXadd(p) \/ ReleaseEasy(p) \/ ReleaseHarder(p) \/ ReleaseLock(p)
  \/ ReleaseNobody(p) \/ ReleaseDequeue(p) \/ ReleaseHandoff(p) \/ ReleaseReady(p)

Step(p) == AcquireStep(p) \/ ReleaseStep(p)

Call(p) == \E a \in Addrs, flag \in BOOLEAN :
             CallAcquire(p, a, flag) \/ CallRelease(p, a, flag)

Next == \E p \in Procs : Call(p) \/ Step(p)

Spec == Init /\ [][Next]_vars

(* A runnable goroutine keeps running: the scheduler is preemptive and serves *)
(* every runnable goroutine.  root.lock is a barging lock, so nothing more is *)
(* assumed of a goroutine that waits for it; and calling semacquire or        *)
(* semrelease at all is up to the program.                                    *)
Fairness == \A p \in Procs : WF_vars(Step(p))

FairSpec == Spec /\ Fairness

-----------------------------------------------------------------------------
TypeOK ==
  /\ sema     \in [Addrs -> Nat]
  /\ queue    \in [Addrs -> Seq(Procs)]
  /\ nwait    \in Nat
  /\ rootLock \in Procs \cup {NoProc}
  /\ pc       \in [Procs -> {"idle"} \cup AcquirePCs \cup ReleasePCs]
  /\ req      \in [Procs -> Reqs \cup {NoReq}]
  /\ ticket   \in [Procs -> BOOLEAN]
  /\ wakee    \in [Procs -> Procs \cup {NoProc}]
  /\ ledger   \in [Addrs -> Nat]

At(a, pcs) == {p \in Procs : pc[p] \in pcs /\ Addr(p) = a}

(***************************************************************************)
(* Permits are conserved: whatever the interleaving of the lock-free       *)
(* takes, the locked takes and the handoffs, a permit is free, or taken by *)
(* exactly one goroutine that has not returned yet (cansemacquire,         *)
(* sema.go:272-282, and the ticket, sema.go:246-248).                      *)
(***************************************************************************)
Takers(a) == At(a, {"a_undo", "a_ret"}) \cup {p \in At(a, AcquirePCs) : ticket[p]}

PermitsConserved ==
  /\ TypeOK
  /\ \A a \in Addrs :
       sema[a] + Cardinality(Takers(a)) + Cardinality(At(a, {"r_xadd"})) = ledger[a]

(***************************************************************************)
(* No wakeup is lost: while goroutines sleep on an address, every free     *)
(* permit of that address has a goroutine on its way: a releaser past its  *)
(* Xadd that has yet to ready somebody, or an acquirer that is up and will *)
(* try cansemacquire.  The other addresses of the root, whose waiters also *)
(* count in nwait, make no difference (sema.go:165-182 and 193-270).       *)
(***************************************************************************)
Asleep(a) == queue[a] # << >> \/ At(a, {"a_queue"}) # {}

OnTheWay(a) ==
  At(a, {"r_load", "r_lock", "r_deq", "r_handoff", "a_easy", "a_lock", "a_check"})
    \cup {p \in At(a, {"r_ready"}) : ~ticket[wakee[p]]}
    \cup {p \in At(a, {"a_woke"}) : ~ticket[p]}

NoLostWakeup ==
  \A a \in Addrs : Asleep(a) => sema[a] <= Cardinality(OnTheWay(a))

(***************************************************************************)
(* A permit does not stay free over the heads of sleeping waiters: it is   *)
(* taken, or nobody is queued any more (sema.go:195-202).  It takes that   *)
(* the other addresses of the root fall silent, asleep or not: root.lock   *)
(* is not fair, and a releaser might wait for it for ever.                 *)
(***************************************************************************)
Silent(a) == \A p \in Procs : pc[p] \in {"idle", "a_parked"} \/ Addr(p) = a

FreePermitTaken ==
  \A a \in Addrs :
    <>[]Silent(a) =>
      ((sema[a] > 0 /\ queue[a] # << >>) ~> (sema[a] = 0 \/ queue[a] = << >>))
=============================================================================
