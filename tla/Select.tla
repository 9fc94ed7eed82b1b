-------------------------------- MODULE Select --------------------------------
(***************************************************************************)
(* runtime/select.go on top of runtime/chan.go: goroutines that send,      *)
(* receive, close and select over the same channels.                       *)
(*                                                                         *)
(* A select locks all its channels, one at a time, in the order of their   *)
(* addresses, and holds them while it looks for a case that is ready.  If  *)
(* there is none it queues a sudog on every channel and parks; its locks   *)
(* are released one at a time after it has begun to wait, so that it can   *)
(* be woken, and be back taking its locks, before the last of them is      *)
(* free.  Then it withdraws from the channels it was not woken by.         *)
(***************************************************************************)
EXTENDS Chan

CONSTANT Addr  (* the address of each channel, by which selects order locks *)

ASSUME SelectAssumption ==
  /\ Addr \in [Chans -> Nat]
  /\ \A c, d \in Chans : Addr[c] = Addr[d] => c = d
  /\ \A o \in Ops : \A i, j \in DOMAIN o.cases : o.cases[i] = o.cases[j] => i = j

VARIABLE
  seen         (* history: each non-blocking call under way has met a state *)
               (* in which none of its cases was ready                      *)

vars == << chanVars, seen >>

CasesOf(p) == DOMAIN op[p].cases
CaseSet(p) == {op[p].cases[i] : i \in CasesOf(p)}
ChansOf(p) == {x.ch : x \in CaseSet(p)}
Lowest(S)  == CHOOSE c \in S : \A d \in S : Addr[c] <= Addr[d]
Highest(S) == CHOOSE c \in S : \A d \in S : Addr[c] >= Addr[d]

-----------------------------------------------------------------------------
(* sellock and selunlock *)

SelLockStates == {"sellock", "relock"}

(* Variant: the locks are taken in the order of the cases. *)
NextLockByCase(p) ==
  LET i == CHOOSE n \in CasesOf(p) :
             /\ op[p].cases[n].ch \notin held[p]
             /\ \A m \in 1 .. n - 1 : op[p].cases[m].ch \in held[p]
  IN op[p].cases[i].ch

NextLock(p) == Lowest(ChansOf(p) \ held[p])

SelLock(p) ==
  /\ pc[p] \in SelLockStates
  /\ Free(NextLock(p))
  /\ held' = [held EXCEPT ![p] = @ \cup {NextLock(p)}]
  /\ pc'   = [pc EXCEPT ![p] =
                CASE held'[p] # ChansOf(p) -> @
                  [] held'[p] = ChansOf(p) /\ @ = "sellock" -> "pass1"
                  [] held'[p] = ChansOf(p) /\ @ = "relock"  -> "pass3"]
  /\ UNCHANGED << hchan, op, sudogVars, glist, out, parking >>

SelUnlock(p) ==
  /\ pc[p] = "selunlock"
  /\ held' = [held EXCEPT ![p] = @ \ {Highest(@)}]
  /\ pc'   = [pc EXCEPT ![p] = IF held'[p] # {} THEN @
                                ELSE IF glist[p] # {} THEN "ready" ELSE "done"]
  /\ UNCHANGED << hchan, op, sudogVars, glist, out, parking >>

-----------------------------------------------------------------------------
(* selectgo *)

NotReady(p) == {i \in CasesOf(p) : ~Ready(op[p].cases[i])}

(* Pass 1: the first case of pollorder, a random order, that is ready.  The   *)
(* cases polled before it, V, were not.                                       *)
SelectCase(p) ==
  /\ pc[p] = "pass1"
  /\ \E i \in CasesOf(p) \ NotReady(p), V \in SUBSET NotReady(p) :
       Attempt(p, i, LookInto({op[p].cases[j] : j \in V}))
  /\ UNCHANGED << op, lockVars >>

SelectDefault(p) ==
  /\ pc[p] = "pass1" /\ NotReady(p) = CasesOf(p) /\ ~op[p].block
  /\ Complete(p, 0, NoVal, TRUE, LookInto(CaseSet(p)))
  /\ UNCHANGED << op, lockVars >>

(* Pass 2: a sudog on each channel, then gopark(selparkcommit).  The cases    *)
(* are in different queues, so that the order in which it does so is not seen. *)
SudogFor(p, x) ==
  IF x \in CaseSet(p)
  THEN << Sudog(p, CHOOSE i \in CasesOf(p) : op[p].cases[i] = x) >>
  ELSE << >>

SelectPark(p) ==
  /\ pc[p] = "pass1" /\ NotReady(p) = CasesOf(p) /\ op[p].block
  /\ LET h == LookInto(CaseSet(p)) IN
     hchan' = [c \in Chans |->
                [h[c] EXCEPT !.recvq = @ \o SudogFor(p, Case(c, "recv")),
                             !.sendq = @ \o SudogFor(p, Case(c, "send"))]]
  /\ pc'      = [pc EXCEPT ![p] = "parked"]
  /\ held'    = [held EXCEPT ![p] = {}]
  /\ parking' = [parking EXCEPT ![p] = ChansOf(p)]
  /\ UNCHANGED << op, sudogVars, glist, out >>

SelParkCommit(p) ==
  /\ parking[p] # {}
  /\ parking' = [parking EXCEPT ![p] = @ \ {Lowest(@)}]
  /\ UNCHANGED << hchan, pc, op, sudogVars, glist, out, held >>

(* Variant: the other sudogs stay behind on their channels. *)
WithdrawNothing(q, p) == q

(* Pass 3: dequeueSudoG for every sudog but the one that was taken; a queue   *)
(* has one of p at most.                                                      *)
Withdraw(q, p) ==
  LET at == {k \in DOMAIN q : q[k].g = p}
      n  == CHOOSE k \in at : TRUE
  IN IF at = {} THEN q ELSE SubSeq(q, 1, n - 1) \o SubSeq(q, n + 1, Len(q))

SelectWoken(p) ==
  /\ Goto(p, "pass3", IF param[p] = 0 THEN "throw" ELSE "selunlock")
  /\ selectDone' = [selectDone EXCEPT ![p] = FALSE]
  /\ param'      = [param EXCEPT ![p] = 0]
  /\ out'        = [out EXCEPT ![p] = Out(param[p], elem[p], success[p])]
  /\ hchan'      = [c \in Chans |->
                      [hchan[c] EXCEPT !.recvq = Withdraw(@, p), !.sendq = Withdraw(@, p)]]
  /\ UNCHANGED << op, success, elem, glist, lockVars >>

-----------------------------------------------------------------------------
SelectStep(p) ==
  \/ SelLock(p) \/ SelUnlock(p)
  \/ SelectCase(p) \/ SelectDefault(p) \/ SelectPark(p) \/ SelParkCommit(p)
  \/ SelectWoken(p)

Observe ==
  seen' = [p \in Procs |->
             /\ ~op'[p].block
             /\ seen[p] \/ \A i \in CasesOf(p)' : ~Ready(op[p].cases[i])']

Next == \E p \in Procs : (Call(p) \/ ChanStep(p) \/ SelectStep(p)) /\ Observe

InitAll == Init /\ seen = [p \in Procs |-> FALSE]
Spec    == InitAll /\ [][Next]_vars

-----------------------------------------------------------------------------
(* Properties *)

Parked(p) == pc[p] = "parked" /\ param[p] = 0

(* Well-typed states: the shape of a channel and its ring, of the queues and  *)
(* of the goroutines' fields (hchan, sudog and g).                            *)
RingOK(c) ==
  LET h == hchan[c] IN
  /\ h.qcount \in 0 .. Cap[c]
  /\ h.sendx \in 0 .. Cap[c] /\ h.recvx \in 0 .. Cap[c]
  /\ Cap[c] > 0 => h.sendx = (h.recvx + h.qcount) % Cap[c]
  /\ \A k \in 0 .. Cap[c] - 1 :
       h.buf[k] # NoVal <=> (k + Cap[c] - h.recvx) % Cap[c] < h.qcount

TypeOK ==
  /\ \A c \in Chans : RingOK(c)
  /\ \A c \in Chans :
       \A s \in {hchan[c].recvq[k] : k \in DOMAIN hchan[c].recvq} : s.i \in CasesOf(s.g)
  /\ success \in [Procs -> BOOLEAN] /\ selectDone \in [Procs -> BOOLEAN]
  /\ elem \in [Procs -> Procs \cup {NoVal}]
  /\ \A p \in Procs : param[p] \in {0} \cup CasesOf(p) /\ held[p] \cup parking[p] \subseteq ChansOf(p)

(* The invariants chan.go states at its top (chan.go:9-18).                   *)
Waiters(q)        == {q[k].g : k \in DOMAIN q}
AtMostOneQueue(c) ==
  \/ hchan[c].recvq = << >> \/ hchan[c].sendq = << >>
  \/ /\ Cap[c] = 0
     /\ Waiters(hchan[c].recvq) = Waiters(hchan[c].sendq)
     /\ \A g \in Waiters(hchan[c].recvq) :
          op[g].select /\ Waiters(hchan[c].recvq) = {g}
QueueInvariants ==
  /\ TypeOK
  /\ \A c \in Chans :
       /\ AtMostOneQueue(c)
       /\ Cap[c] > 0 /\ hchan[c].qcount > 0 => hchan[c].recvq = << >>
       /\ Cap[c] > 0 /\ hchan[c].qcount < Cap[c] => hchan[c].sendq = << >>

(* A goroutine that is parked and has not been picked is on the queue of      *)
(* every one of its cases, and none of them could go ahead: the channel is    *)
(* open, and nobody else waits on the other side of it.                       *)
Queue(x)    == IF x.dir = "send" THEN hchan[x.ch].sendq ELSE hchan[x.ch].recvq
Opposite(x) == IF x.dir = "send" THEN hchan[x.ch].recvq ELSE hchan[x.ch].sendq
NobodyLeftBehind ==
  \A p \in Procs : Parked(p) =>
    \A i \in CasesOf(p) :
      LET x == op[p].cases[i] IN
      /\ Sudog(p, i) \in {Queue(x)[k] : k \in DOMAIN Queue(x)}
      /\ ~hchan[x.ch].closed
      /\ hchan[x.ch].qcount = (IF x.dir = "send" THEN Cap[x.ch] ELSE 0)
      /\ \A k \in LiveAt(Opposite(x)) : Opposite(x)[k].g = p

(* Nobody is left behind on a channel once its call is over, and a goroutine  *)
(* that was picked will be readied by exactly one other (goready throws if it *)
(* is done twice, proc.go ready()).                                           *)
ReadiedOnce ==
  \A p \in Procs :
    /\ pc[p] = "parked" /\ param[p] # 0 <=> p \in UNION {glist[q] : q \in Procs}
    /\ \A q, r \in Procs : p \in glist[q] \cap glist[r] => q = r
    /\ pc[p] = "idle" =>
         \A c \in Chans : p \notin Waiters(hchan[c].recvq \o hchan[c].sendq)

(* The runtime never throws "chansend: spurious wakeup", "selectgo: bad       *)
(* wakeup" or "bad g->status in ready" (chan.go:292, select.go:388,           *)
(* proc.go:1030): a goroutine is woken once, and knows by whom.               *)
NoThrow == \A p \in Procs : pc[p] # "throw"

(* Selects cannot deadlock on the channel locks: no set of them in which each *)
(* waits for a lock that another of the set holds (select.go:33-42).                        *)
WaitsFor(p, q) == pc[p] \in SelLockStates /\ NextLock(p) \in held[q]
NoLockCycle ==
  \A S \in (SUBSET Procs) \ {{}} : \E p \in S : \A q \in S : ~WaitsFor(p, q)

(* A non-blocking receive or a select that takes its default has met a moment *)
(* at which it could not go ahead (chan.go:525-541: "We behave as if we       *)
(* observed the channel at that moment").                                     *)
GaveUp(p) == pc[p] = "done" /\ ~op[p].block /\ out[p].i = 0
DefaultJustified ==
  \A p \in Procs :
    GaveUp(p) /\ (op[p].select \/ CaseOf(p).dir = "recv") => seen[p]

(* What chan.go:193-197 says of a non-blocking send: "Because a closed        *)
(* channel cannot transition from 'ready for sending' to 'not ready for       *)
(* sending', [...] they imply a moment between the two when the channel was   *)
(* both not yet closed and not ready for sending."                            *)
SendDefaultJustified ==
  \A p \in Procs :
    GaveUp(p) /\ ~op[p].select /\ CaseOf(p).dir = "send" => seen[p]

(* The calls implement the atomic channels of module Channels: a call whose   *)
(* sudog was taken by a partner is complete, one whose channel was closed     *)
(* under it completes when it finds out.                                      *)
Taken(p)     == param[p] # 0 /\ success[p]
Completed(p) == pc[p] \in {"selunlock", "ready", "done"} \/ Taken(p)
Outcome(p)   == IF Taken(p) THEN Out(param[p], elem[p], TRUE) ELSE out[p]

Impl == INSTANCE Channels WITH
  queue   <- [c \in Chans |->
                [k \in 1 .. hchan[c].qcount |->
                   hchan[c].buf[(hchan[c].recvx + k - 1) % Cap[c]]]],
  closed  <- [c \in Chans |-> hchan[c].closed],
  pending <- [p \in Procs |->
                IF Completed(p) THEN {}
                ELSE CaseSet(p) \cup
                     {Case("no channel", "default") : b \in {op[p].block} \ {TRUE}}],
  result  <- [p \in Procs |->
                LET o == Outcome(p) IN
                IF ~Completed(p) \/ o.i = 0
                THEN [case |-> Case("no channel", "default"), val |-> NoVal, ok |-> TRUE]
                ELSE [case |-> op[p].cases[o.i], val |-> o.val, ok |-> o.ok]]

(* Refinement: every value sent on a channel is received at most once, in     *)
(* order, by a call that was under way, and a select commits to one case.     *)
ImplementsChannels == Impl!Spec
=============================================================================
