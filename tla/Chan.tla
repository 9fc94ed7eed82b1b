--------------------------------- MODULE Chan ---------------------------------
(***************************************************************************)
(* runtime/chan.go: channels, and goroutines that send, receive and close. *)
(*                                                                         *)
(* What a goroutine does under c.lock is one step, since nobody else may   *)
(* touch the channel until the lock is released; the reads of the          *)
(* non-blocking fast paths, made without the lock, are steps of their own. *)
(* Those reads see one word of a channel at a time, and no critical        *)
(* section writes two words that one fast path distinguishes halfway.      *)
(* Module Select adds runtime/select.go, which holds several locks for     *)
(* many steps.  Nil channels, which block for ever, are left out, and so   *)
(* are the hooks of a timer's channel, which are in module Timers.         *)
(***************************************************************************)
EXTENDS Naturals, Sequences, FiniteSets

CONSTANTS
  Procs,  (* goroutines                                                    *)
  Chans,  (* channels                                                      *)
  Cap,    (* c.dataqsiz                                                    *)
  Ops,    (* the operations the program may call: see Op                   *)
  NoVal   (* a cleared slot, or the zero value                             *)

ASSUME ChanAssumption ==
  /\ IsFiniteSet(Procs) /\ NoVal \notin Procs
  /\ Cap \in [Chans -> Nat]

(* A select has sends and receives; every other call has one case.            *)
ASSUME OpsAssumption ==
  \A o \in Ops :
    /\ o.cases \in Seq([ch : Chans, dir : {"send", "recv", "close"}])
    /\ o.cases # << >> /\ o.block \in BOOLEAN /\ o.select \in BOOLEAN
    /\ o.select  => \A i \in DOMAIN o.cases : o.cases[i].dir # "close"
    /\ ~o.select => Len(o.cases) = 1 /\ (o.cases[1].dir = "close" => o.block)

VARIABLES
  hchan,       (* the channels                                             *)
  pc,          (* the next step of each goroutine                          *)
  op,          (* the call it is in                                        *)
  param,       (* gp.param: the case whose sudog was taken, 0 for none     *)
  success,     (* that sudog's success                                     *)
  elem,        (* what was copied to that sudog's elem                     *)
  selectDone,  (* gp.selectDone                                            *)
  glist,       (* the goroutines it has still to ready                     *)
  out,         (* what the call is about to return                         *)
  held,        (* the channels a select has locked                         *)
  parking      (* the locks a parking select has yet to release            *)

sudogVars == << param, success, elem, selectDone >>
lockVars  == << held, parking >>
chanVars  == << hchan, pc, op, sudogVars, glist, out, lockVars >>

(* A call: its cases in order, whether it may block, and whether it is a      *)
(* selectgo.  A send, a receive or a close has one case.                      *)
Case(c, dir)    == [ch |-> c, dir |-> dir]
Call1(c, dir)   == [cases |-> << Case(c, dir) >>, block |-> TRUE, select |-> FALSE]
Try1(c, dir)    == [cases |-> << Case(c, dir) >>, block |-> FALSE, select |-> FALSE]
Select(xs, blk) == [cases |-> xs, block |-> blk, select |-> TRUE]
NoOp            == [cases |-> << >>, block |-> TRUE, select |-> FALSE]

(* i is the index of the chosen case, 0 when a non-blocking call gave up; a   *)
(* send or a close with ok = FALSE panics.                                    *)
Out(i, v, ok) == [i |-> i, val |-> v, ok |-> ok]
NoOut         == Out(0, NoVal, TRUE)

(* makechan *)
EmptyChan(c) ==
  [ buf |-> [k \in 0 .. Cap[c] - 1 |-> NoVal], sendx |-> 0, recvx |-> 0, qcount |-> 0,
    closed |-> FALSE, recvq |-> << >>, sendq |-> << >> ]

Init ==
  /\ hchan      = [c \in Chans |-> EmptyChan(c)]
  /\ pc         = [p \in Procs |-> "idle"]
  /\ op         = [p \in Procs |-> NoOp]
  /\ param      = [p \in Procs |-> 0]
  /\ success    = [p \in Procs |-> FALSE]
  /\ elem       = [p \in Procs |-> NoVal]
  /\ selectDone = [p \in Procs |-> FALSE]
  /\ glist      = [p \in Procs |-> {}]
  /\ out        = [p \in Procs |-> NoOut]
  /\ held       = [p \in Procs |-> {}]
  /\ parking    = [p \in Procs |-> {}]

Goto(p, from, to) ==
  /\ pc[p] = from
  /\ pc' = [pc EXCEPT ![p] = to]

CaseOf(p) == op[p].cases[1]
ChanOf(p) == hchan[CaseOf(p).ch]
Free(c)   == \A p \in Procs : c \notin held[p] \cup parking[p]

-----------------------------------------------------------------------------
(* Wait queues of sudogs *)

Sudog(p, i) == [g |-> p, i |-> i]

Enqueue(h, x, s) ==
  IF x.dir = "send" THEN [h EXCEPT ![x.ch].sendq = Append(@, s)]
                    ELSE [h EXCEPT ![x.ch].recvq = Append(@, s)]

(* Variant: dequeue does not ask whether a select has been woken already. *)
LiveAlways(s) == TRUE

(* dequeue skips, and drops, the sudogs of selects that another case has      *)
(* woken and that have not removed themselves yet.                            *)
Live(s)    == op[s.g].select => ~selectDone[s.g]
LiveAt(q)  == {k \in DOMAIN q : Live(q[k])}
HasLive(q) == LiveAt(q) # {}
FirstAt(q) == CHOOSE k \in LiveAt(q) : \A j \in LiveAt(q) : k <= j
First(q)   == q[FirstAt(q)]

(* Variant: the sudog stays on the queue it was taken from. *)
RestNotUnlinked(q) ==
  IF HasLive(q) THEN SubSeq(q, FirstAt(q), Len(q)) ELSE << >>

Rest(q) == IF HasLive(q) THEN SubSeq(q, FirstAt(q) + 1, Len(q)) ELSE << >>

(* The sudogs that dequeueing q until it is empty returns: a select's         *)
(* first one, after which its others are dead.                                *)
Winners(q) ==
  {q[k] : k \in {n \in LiveAt(q) : \A j \in 1 .. n - 1 : q[j].g # q[n].g}}

-----------------------------------------------------------------------------
(* The ring buffer *)

Bump(c, x) == IF x + 1 = Cap[c] THEN 0 ELSE x + 1

Push(h, c, v) ==
  [h EXCEPT ![c].buf[h[c].sendx] = v, ![c].sendx = Bump(c, @), ![c].qcount = @ + 1]

Pop(h, c) ==
  [h EXCEPT ![c].buf[h[c].recvx] = NoVal, ![c].recvx = Bump(c, @), ![c].qcount = @ - 1]

(* The queue is full: its head and its tail are the same slot. *)
Rotate(h, c, v) ==
  [h EXCEPT ![c].buf[h[c].recvx] = v, ![c].recvx = Bump(c, @),
            ![c].sendx = Bump(c, h[c].recvx)]

-----------------------------------------------------------------------------
(* One case of a call, its channel being locked and h the state of all *)

ReadyToSend(h, c) == h.closed \/ HasLive(h.recvq) \/ h.qcount < Cap[c]

(* Variant: a receive does not look for a blocked sender. *)
ReadyToRecvBuffered(h) == h.closed \/ h.qcount > 0

ReadyToRecv(h) == h.closed \/ HasLive(h.sendq) \/ h.qcount > 0

Ready(x) ==
  IF x.dir = "send" THEN ReadyToSend(hchan[x.ch], x.ch) ELSE ReadyToRecv(hchan[x.ch])

(* Where a call goes when its case is done, and when it is readied by another *)
(* goroutine.  send and recv ready the partner after unlocking.               *)
AfterCase(p, ss) ==
  CASE op[p].select -> "selunlock"
    [] ~op[p].select /\ ss # {} -> "ready"
    [] OTHER -> "done"
Wakeup(p) == IF op[p].select THEN "relock" ELSE "woken"

(* The call completes with case i, nobody else being involved. *)
Complete(p, i, v, ok, h) ==
  /\ hchan' = h
  /\ pc'    = [pc EXCEPT ![p] = AfterCase(p, {})]
  /\ out'   = [out EXCEPT ![p] = Out(i, v, ok)]
  /\ UNCHANGED << sudogVars, glist >>

(* The call completes with case i, and so does that of sudog s, which gets w: *)
(* dequeue's CAS of selectDone, gp.param = sg and sg.success = true.          *)
CompleteWith(p, i, v, h, s, w) ==
  /\ hchan'      = h
  /\ pc'         = [pc EXCEPT ![p] = AfterCase(p, {s.g})]
  /\ out'        = [out EXCEPT ![p] = Out(i, v, TRUE)]
  /\ param'      = [param EXCEPT ![s.g] = s.i]
  /\ success'    = [success EXCEPT ![s.g] = TRUE]
  /\ elem'       = [elem EXCEPT ![s.g] = w]
  /\ selectDone' = [selectDone EXCEPT ![s.g] = op[s.g].select]
  /\ glist'      = [glist EXCEPT ![p] = {s.g}]

SendOnClosed(p, i, h, c) ==
  /\ h[c].closed
  /\ Complete(p, i, NoVal, FALSE, h)

(* send: the value, which is the sender's name, goes straight to the receiver. *)
SendToReceiver(p, i, h, c) ==
  /\ ~h[c].closed /\ HasLive(h[c].recvq)
  /\ CompleteWith(p, i, NoVal, [h EXCEPT ![c].recvq = Rest(@)], First(h[c].recvq), p)

(* Variant: the buffer first, whether or not a receiver waits. *)
SendToBufferFirst(p, i, h, c) ==
  /\ ~h[c].closed /\ h[c].qcount < Cap[c]
  /\ Complete(p, i, NoVal, TRUE, Push(h, c, p))

SendToBuffer(p, i, h, c) ==
  /\ ~h[c].closed /\ ~HasLive(h[c].recvq) /\ h[c].qcount < Cap[c]
  /\ Complete(p, i, NoVal, TRUE, Push([h EXCEPT ![c].recvq = << >>], c, p))

(* selectgo always looks for a sender, chanrecv only if the channel is open. *)
Looks(p, h, c)     == op[p].select \/ ~h[c].closed
NoSender(p, h, c)  == Looks(p, h, c) => ~HasLive(h[c].sendq)
LookedAt(p, h, c)  == IF Looks(p, h, c) THEN [h EXCEPT ![c].sendq = << >>] ELSE h

(* recv: an unbuffered receive takes the sender's value, a buffered one the   *)
(* head of the queue, which the sender's value joins.                         *)
RecvFromSender(p, i, h, c) ==
  /\ ~NoSender(p, h, c)
  /\ LET s  == First(h[c].sendq)
         h1 == [h EXCEPT ![c].sendq = Rest(@)]
     IN IF Cap[c] = 0
        THEN CompleteWith(p, i, s.g, h1, s, NoVal)
        ELSE CompleteWith(p, i, h[c].buf[h[c].recvx], Rotate(h1, c, s.g), s, NoVal)

RecvFromBuffer(p, i, h, c) ==
  /\ NoSender(p, h, c) /\ h[c].qcount > 0
  /\ Complete(p, i, h[c].buf[h[c].recvx], TRUE, Pop(LookedAt(p, h, c), c))

RecvOnClosed(p, i, h, c) ==
  /\ NoSender(p, h, c) /\ h[c].qcount = 0 /\ h[c].closed
  /\ Complete(p, i, NoVal, FALSE, LookedAt(p, h, c))

AttemptSend(p, i, h, c) ==
  \/ SendOnClosed(p, i, h, c)
  \/ SendToReceiver(p, i, h, c)
  \/ SendToBuffer(p, i, h, c)

AttemptRecv(p, i, h, c) ==
  \/ RecvFromSender(p, i, h, c)
  \/ RecvFromBuffer(p, i, h, c)
  \/ RecvOnClosed(p, i, h, c)

Attempt(p, i, h) ==
  LET x == op[p].cases[i] IN
  IF x.dir = "send" THEN AttemptSend(p, i, h, x.ch) ELSE AttemptRecv(p, i, h, x.ch)

(* Cases that are not ready leave the queues they have looked into empty. *)
LookInto(xs) ==
  [c \in Chans |->
     [hchan[c] EXCEPT
        !.recvq = IF Case(c, "send") \in xs THEN << >> ELSE @,
        !.sendq = IF Case(c, "recv") \in xs THEN << >> ELSE @]]

-----------------------------------------------------------------------------
(* chansend, chanrecv and closechan *)

Call(p) ==
  /\ pc[p] = "idle"
  /\ \E o \in Ops :
       /\ op' = [op EXCEPT ![p] = o]
       /\ pc' = [pc EXCEPT ![p] =
                   IF o.select THEN "sellock"
                   ELSE IF o.block THEN "lock"
                   ELSE IF o.cases[1].dir = "send" THEN "closed?" ELSE "empty?"]
  /\ UNCHANGED << hchan, sudogVars, glist, out, lockVars >>

(* Variants: the ring taken for full, or for empty, when its indexes meet. *)
IndexesMeet(p) ==
  IF Cap[CaseOf(p).ch] = 0 THEN TRUE ELSE ChanOf(p).sendx = ChanOf(p).recvx

(* full(c) and empty(c), read without the lock. *)
Full(p)  == IF Cap[CaseOf(p).ch] = 0 THEN ChanOf(p).recvq = << >>
            ELSE ChanOf(p).qcount = Cap[CaseOf(p).ch]
Empty(p) == IF Cap[CaseOf(p).ch] = 0 THEN ChanOf(p).sendq = << >>
            ELSE ChanOf(p).qcount = 0

(* if !block && c.closed == 0 && full(c) { return false } *)
SendFastClosed(p) ==
  /\ Goto(p, "closed?", IF ChanOf(p).closed THEN "lock" ELSE "full?")
  /\ UNCHANGED << hchan, op, sudogVars, glist, out, lockVars >>

SendFastFull(p) ==
  /\ Goto(p, "full?", IF Full(p) THEN "done" ELSE "lock")
  /\ UNCHANGED << hchan, op, sudogVars, glist, out, lockVars >>

(* if !block && empty(c), then c.closed, then empty(c) again. *)
RecvFastEmpty(p) ==
  /\ Goto(p, "empty?", IF Empty(p) THEN "open?" ELSE "lock")
  /\ UNCHANGED << hchan, op, sudogVars, glist, out, lockVars >>

RecvFastOpen(p) ==
  /\ Goto(p, "open?", IF ChanOf(p).closed THEN "drained?" ELSE "done")
  /\ UNCHANGED << hchan, op, sudogVars, glist, out, lockVars >>

(* Variant: a closed channel is taken to be empty still. *)
RecvFastNotAgain(p) ==
  /\ Goto(p, "drained?", "done")
  /\ out' = [out EXCEPT ![p] = Out(1, NoVal, FALSE)]
  /\ UNCHANGED << hchan, op, sudogVars, glist, lockVars >>

RecvFastDrained(p) ==
  /\ Goto(p, "drained?", IF Empty(p) THEN "done" ELSE "lock")
  /\ out' = [out EXCEPT ![p] = IF Empty(p) THEN Out(1, NoVal, FALSE) ELSE @]
  /\ UNCHANGED << hchan, op, sudogVars, glist, lockVars >>

Locked(p, dirs) == pc[p] = "lock" /\ CaseOf(p).dir \in dirs /\ Free(CaseOf(p).ch)

Communicate(p) ==
  /\ Locked(p, {"send", "recv"})
  /\ Attempt(p, 1, hchan)
  /\ UNCHANGED << op, lockVars >>

GiveUp(p) ==
  /\ Locked(p, {"send", "recv"})
  /\ ~Ready(CaseOf(p)) /\ ~op[p].block
  /\ Complete(p, 0, NoVal, TRUE, LookInto({CaseOf(p)}))
  /\ UNCHANGED << op, lockVars >>

(* gopark(chanparkcommit): the lock is released once the goroutine waits. *)
Park(p) ==
  /\ Locked(p, {"send", "recv"})
  /\ ~Ready(CaseOf(p)) /\ op[p].block
  /\ pc'    = [pc EXCEPT ![p] = "parked"]
  /\ hchan' = Enqueue(LookInto({CaseOf(p)}), CaseOf(p), Sudog(p, 1))
  /\ UNCHANGED << op, sudogVars, glist, out, lockVars >>

CloseAgain(p) ==
  /\ Locked(p, {"close"}) /\ ChanOf(p).closed
  /\ Complete(p, 1, NoVal, FALSE, hchan)
  /\ UNCHANGED << op, lockVars >>

(* All receivers, then all senders, are taken out and will be readied once    *)
(* the channel is unlocked, in an order that does not matter to them.         *)
Close(p) ==
  /\ Locked(p, {"close"}) /\ ~ChanOf(p).closed
  /\ LET c  == CaseOf(p).ch
         ss == Winners(ChanOf(p).recvq \o ChanOf(p).sendq)
         gs == {s.g : s \in ss}
         At(g) == CHOOSE s \in ss : s.g = g
     IN /\ hchan' = [hchan EXCEPT ![c].closed = TRUE, ![c].recvq = << >>, ![c].sendq = << >>]
        /\ pc'    = [pc EXCEPT ![p] = AfterCase(p, gs)]
        /\ out'   = [out EXCEPT ![p] = Out(1, NoVal, TRUE)]
        /\ param' = [g \in Procs |-> IF g \in gs THEN At(g).i ELSE param[g]]
        /\ success'    = [g \in Procs |-> g \notin gs /\ success[g]]
        /\ selectDone' = [g \in Procs |-> IF g \in gs THEN op[g].select ELSE selectDone[g]]
        /\ glist' = [glist EXCEPT ![p] = gs]
  /\ UNCHANGED << op, elem, lockVars >>

(* goready, after the unlock: throw("bad g->status in ready") unless the      *)
(* goroutine is waiting.                                                      *)
ReadyOne(p) ==
  /\ pc[p] = "ready"
  /\ \E g \in glist[p] :
       /\ glist' = [glist EXCEPT ![p] = @ \ {g}]
       /\ pc'    = IF pc[g] # "parked" THEN [pc EXCEPT ![p] = "throw"]
                   ELSE [pc EXCEPT ![p] = IF glist[p] = {g} THEN "done" ELSE @,
                                   ![g] = Wakeup(g)]
  /\ UNCHANGED << hchan, op, sudogVars, out, lockVars >>

(* Someone woke us up: a sender that did not succeed must find the channel    *)
(* closed, and panics.                                                        *)
Woken(p) ==
  /\ Goto(p, "woken",
          IF CaseOf(p).dir = "send" /\ ~success[p] /\ ~ChanOf(p).closed
          THEN "throw" ELSE "done")
  /\ out'   = [out EXCEPT ![p] = Out(1, elem[p], success[p])]
  /\ param' = [param EXCEPT ![p] = 0]
  /\ UNCHANGED << hchan, op, success, elem, selectDone, glist, lockVars >>

Return(p) ==
  /\ Goto(p, "done", "idle")
  /\ op'      = [op EXCEPT ![p] = NoOp]
  /\ out'     = [out EXCEPT ![p] = NoOut]
  /\ success' = [success EXCEPT ![p] = FALSE]
  /\ elem'    = [elem EXCEPT ![p] = NoVal]
  /\ UNCHANGED << hchan, param, selectDone, glist, lockVars >>

ChanStep(p) ==
  \/ SendFastClosed(p) \/ SendFastFull(p)
  \/ RecvFastEmpty(p) \/ RecvFastOpen(p) \/ RecvFastDrained(p)
  \/ Communicate(p) \/ GiveUp(p) \/ Park(p)
  \/ CloseAgain(p) \/ Close(p) \/ ReadyOne(p) \/ Woken(p) \/ Return(p)
=============================================================================
