----------------------------- MODULE SelectProofs -----------------------------
(***************************************************************************)
(* The proofs about Select and Chan: no throw is reached, a goroutine is   *)
(* readied once and nobody is left behind, selects do not deadlock on the  *)
(* channel locks, and the invariants chan.go states hold, for every finite *)
(* set of goroutines and every set of channels, capacities and operations. *)
(*                                                                         *)
(* None of these is inductive by itself.  IInv, which is, adds:            *)
(*   LockInv   a select holds locks at the steps of sellock, the passes    *)
(*             and selunlock, and every lock it holds is at a lower        *)
(*             address than the ones it has still to take;                 *)
(*   WakeInv   gp.param is set from the moment a partner takes the sudog   *)
(*             to the moment the goroutine reads it, and selectDone with   *)
(*             it in a select; until it is readied it is in one glist;     *)
(*   QueueInv  who is on which queue: a parked goroutine that was not      *)
(*             taken on those of all its cases, a select that was also on  *)
(*             some, nobody else; and the shape of a channel's two queues; *)
(*   RingInv   the ring buffer.                                            *)
(*                                                                         *)
(* Each action has a lemma.  Its first step lists what the action changes  *)
(* and the others follow from that.  The last part proves, with the same   *)
(* invariant, that Select implements the atomic channels of Channels.      *)
(***************************************************************************)
EXTENDS Select, CountingLemmas, SequenceTheorems

PCs == {"idle", "sellock", "lock", "closed?", "full?", "empty?", "open?", "drained?",
        "pass1", "parked", "relock", "pass3", "woken", "selunlock", "ready", "done",
        "throw"}

(* The steps of a select, and those of the other calls. *)
SelectPCs == {"sellock", "pass1", "relock", "pass3", "selunlock"}
PlainPCs  == {"lock", "closed?", "full?", "empty?", "open?", "drained?", "woken", "idle"}

(* The steps at which a goroutine that was taken, or readied, can be, and     *)
(* those at which it may still be on a queue.                                 *)
TakenPCs  == {"parked", "woken", "relock", "pass3"}
QueuedPCs == {"parked", "relock", "pass3"}

Entry == [g : Procs, i : Nat]

(* The fields of a channel. *)
ChanState(c) ==
  [buf : [0 .. Cap[c] - 1 -> Procs \cup {NoVal}], sendx : Nat, recvx : Nat, qcount : Nat,
   closed : BOOLEAN, recvq : Seq(Entry), sendq : Seq(Entry)]

TypeInv ==
  /\ DOMAIN hchan = Chans /\ hchan = [c \in Chans |-> hchan[c]]
  /\ \A c \in Chans : hchan[c] \in ChanState(c)
  /\ pc \in [Procs -> PCs]
  /\ op \in [Procs -> Ops \cup {NoOp}]
  /\ param \in [Procs -> Nat]
  /\ success \in [Procs -> BOOLEAN] /\ selectDone \in [Procs -> BOOLEAN]
  /\ elem \in [Procs -> Procs \cup {NoVal}]
  /\ glist \in [Procs -> SUBSET Procs]
  /\ held \in [Procs -> SUBSET Chans] /\ parking \in [Procs -> SUBSET Chans]

(* The calls and the steps that belong to them. *)
OpInv ==
  \A p \in Procs :
    /\ pc[p] = "idle" <=> op[p] = NoOp
    /\ pc[p] \in SelectPCs => op[p].select
    /\ pc[p] \in PlainPCs  => ~op[p].select

(* Locks: who holds which, and in which order. *)
Locks(p) ==
  /\ held[p] \subseteq ChansOf(p) /\ parking[p] \subseteq ChansOf(p)
  /\ held[p] \cap parking[p] = {}
  /\ held[p] # {} => pc[p] \in SelectPCs
  /\ parking[p] # {} => pc[p] \in {"parked", "relock"} /\ op[p].select
  /\ pc[p] \in {"pass1", "pass3"} => held[p] = ChansOf(p)
  /\ pc[p] = "selunlock" => held[p] # {}
  /\ pc[p] \in SelLockStates =>
       /\ held[p] # ChansOf(p)
       /\ \A c \in held[p], d \in ChansOf(p) \ held[p] : Addr[c] < Addr[d]

LockInv == \A p \in Procs : Locks(p)

(* A goroutine that was taken by a partner, or by a close, will be readied    *)
(* once.                                                                      *)
Wake(p) ==
  /\ param[p] \in {0} \cup CasesOf(p)
  /\ param[p] # 0 => pc[p] \in TakenPCs
  /\ pc[p] \in TakenPCs \ {"parked"} => param[p] # 0
  /\ selectDone[p] <=> op[p].select /\ param[p] # 0
  /\ param[p] # 0 /\ ~success[p] => hchan[op[p].cases[param[p]].ch].closed
  /\ pc[p] = "parked" /\ param[p] # 0 <=> \E q \in Procs : p \in glist[q]
  /\ glist[p] # {} => pc[p] \in {"ready", "selunlock"}
  /\ pc[p] = "ready" => glist[p] # {}
  /\ pc[p] # "throw"

WakeInv ==
  /\ \A p \in Procs : Wake(p)
  /\ \A p, q, r \in Procs : p \in glist[q] /\ p \in glist[r] => q = r

(* Queues, by the case that waits on them. *)
Sides      == {"send", "recv"}
QueueAt(h, c, dir) == IF dir = "send" THEN h[c].sendq ELSE h[c].recvq

(* A goroutine that is on a queue waits there, with one sudog. *)
Rightful(q, c, dir) ==
  /\ \A k \in 1 .. Len(q) :
       LET p == q[k].g IN
       /\ q[k].i \in CasesOf(p) /\ op[p].cases[q[k].i] = Case(c, dir)
       /\ pc[p] \in QueuedPCs
       /\ ~op[p].select => pc[p] = "parked" /\ param[p] = 0
  /\ \A j, k \in 1 .. Len(q) : q[j].g = q[k].g => j = k

(* A parked goroutine that was not taken waits on every channel of its call. *)
Present ==
  \A p \in Procs : Parked(p) =>
    \A i \in CasesOf(p) :
      Occurs(Sudog(p, i), QueueAt(hchan, op[p].cases[i].ch, op[p].cases[i].dir))

Shape(c) ==
  /\ hchan[c].closed => hchan[c].recvq = << >> /\ hchan[c].sendq = << >>
  /\ AtMostOneQueue(c)
  /\ Cap[c] > 0 /\ hchan[c].qcount > 0      => hchan[c].recvq = << >>
  /\ Cap[c] > 0 /\ hchan[c].qcount < Cap[c] => hchan[c].sendq = << >>

QueueInv ==
  /\ \A c \in Chans, dir \in Sides : Rightful(QueueAt(hchan, c, dir), c, dir)
  /\ Present
  /\ \A c \in Chans : Shape(c)

(* The ring: qcount values from recvx on, the others cleared. *)
Ring(h, c) ==
  /\ h.qcount <= Cap[c]
  /\ Cap[c] = 0 => h.sendx = 0 /\ h.recvx = 0
  /\ Cap[c] > 0 =>
       /\ h.recvx < Cap[c] /\ h.sendx = (h.recvx + h.qcount) % Cap[c]
       /\ \A k \in 0 .. Cap[c] - 1 :
            h.buf[k] # NoVal <=> (k + Cap[c] - h.recvx) % Cap[c] < h.qcount
RingInv == \A c \in Chans : Ring(hchan[c], c)

IInv == TypeInv /\ OpInv /\ LockInv /\ WakeInv /\ QueueInv /\ RingInv

(* The goroutines that wait and were not taken. *)
Waiting == {p \in Procs : Parked(p)}

-----------------------------------------------------------------------------
(* Lemmas about calls and queues *)

(* A call's cases are sends, receives or one close, on known channels. *)
LEMMA CaseFacts ==
  ASSUME TypeInv, NEW p \in Procs
  PROVE  /\ Len(op[p].cases) \in Nat /\ CasesOf(p) = 1 .. Len(op[p].cases)
         /\ op[p].block \in BOOLEAN /\ op[p].select \in BOOLEAN
         /\ \A i \in CasesOf(p) :
              /\ i \in Nat /\ i # 0
              /\ op[p].cases[i].ch \in Chans
              /\ op[p].cases[i].dir \in {"send", "recv", "close"}
              /\ op[p].cases[i] = Case(op[p].cases[i].ch, op[p].cases[i].dir)
              /\ op[p].select => op[p].cases[i].dir \in Sides
              /\ op[p].cases[i].ch \in ChansOf(p)
         /\ \A i, j \in CasesOf(p) : op[p].cases[i] = op[p].cases[j] => i = j
         /\ op[p] # NoOp => CasesOf(p) # {} /\ ChansOf(p) # {}
         /\ op[p] # NoOp /\ ~op[p].select => CasesOf(p) = {1}
         /\ op[p] # NoOp /\ CaseOf(p).dir = "close" => op[p].block
         /\ ChansOf(p) \subseteq Chans
<1>1. CASE op[p] = NoOp
  <2>1. /\ op[p].cases = << >> /\ op[p].block = TRUE /\ op[p].select = FALSE
        /\ Len(op[p].cases) = 0 /\ DOMAIN op[p].cases = {}
    BY <1>1 DEF NoOp
  <2>2. CasesOf(p) = {} BY <2>1 DEF CasesOf
  <2>3. ChansOf(p) = {} BY <2>2 DEF ChansOf, CaseSet
  <2>4. Len(op[p].cases) \in Nat /\ 1 .. Len(op[p].cases) = {} BY <2>1
  <2> QED BY <1>1, <2>1, <2>2, <2>3, <2>4
<1>2. CASE op[p] # NoOp
  <2>1. op[p] \in Ops BY <1>2 DEF TypeInv
  <2>2. /\ op[p].cases \in Seq([ch : Chans, dir : {"send", "recv", "close"}])
        /\ op[p].cases # << >> /\ op[p].block \in BOOLEAN /\ op[p].select \in BOOLEAN
        /\ op[p].select  => \A i \in DOMAIN op[p].cases : op[p].cases[i].dir # "close"
        /\ ~op[p].select => Len(op[p].cases) = 1
        /\ ~op[p].select => (op[p].cases[1].dir = "close" => op[p].block)
        /\ \A i, j \in DOMAIN op[p].cases : op[p].cases[i] = op[p].cases[j] => i = j
    BY <2>1, OpsAssumption, SelectAssumption
  <2>3. /\ Len(op[p].cases) \in Nat /\ CasesOf(p) = 1 .. Len(op[p].cases)
        /\ Len(op[p].cases) > 0
    BY <2>2 DEF CasesOf
  <2>4. \A i \in CasesOf(p) : op[p].cases[i] \in [ch : Chans, dir : {"send", "recv", "close"}]
    <3> DEFINE X == [ch : Chans, dir : {"send", "recv", "close"}]
               xs == op[p].cases
    <3>1. xs \in Seq(X) /\ CasesOf(p) = 1 .. Len(xs) BY <2>2, <2>3
    <3> HIDE DEF X, xs
    <3>2. \A i \in CasesOf(p) : xs[i] \in X BY <3>1
    <3> QED BY <3>2 DEF X, xs
  <2>5. \A i \in CasesOf(p) :
          /\ op[p].cases[i].ch \in Chans
          /\ op[p].cases[i].dir \in {"send", "recv", "close"}
          /\ op[p].cases[i] = Case(op[p].cases[i].ch, op[p].cases[i].dir)
          /\ op[p].cases[i].ch \in ChansOf(p)
    BY <2>4 DEF Case, ChansOf, CaseSet
  <2>6. 1 \in CasesOf(p) BY <2>3
  <2>7. ChansOf(p) \subseteq Chans BY <2>5 DEF ChansOf, CaseSet
  <2>8. \A i \in CasesOf(p) : i \in Nat /\ i # 0 BY <2>3
  <2>9. op[p].select => op[p].cases[1].dir # "close" BY <2>2, <2>6 DEF CasesOf
  <2>10. op[p].select => \A i \in CasesOf(p) : op[p].cases[i].dir \in Sides
    BY <2>2, <2>5 DEF CasesOf, Sides
  <2>11. \A i, j \in CasesOf(p) : op[p].cases[i] = op[p].cases[j] => i = j
    BY <2>2 DEF CasesOf
  <2>12. ~op[p].select => CasesOf(p) = {1} BY <2>2, <2>3
  <2>13. CaseOf(p).dir = "close" => op[p].block BY <2>2, <2>9 DEF CaseOf
  <2>14. CasesOf(p) # {} /\ ChansOf(p) # {} BY <2>5, <2>6
  <2> QED
    BY <2>2, <2>3, <2>5, <2>7, <2>8, <2>10, <2>11, <2>12, <2>13, <2>14
<1> QED BY <1>1, <1>2

(* The queues of a channel. *)
LEMMA QueueFacts ==
  ASSUME TypeInv, NEW c \in Chans, NEW dir \in Sides
  PROVE  /\ QueueAt(hchan, c, dir) \in Seq(Entry)
         /\ Len(QueueAt(hchan, c, dir)) \in Nat
         /\ DOMAIN QueueAt(hchan, c, dir) = 1 .. Len(QueueAt(hchan, c, dir))
         /\ \A k \in 1 .. Len(QueueAt(hchan, c, dir)) :
              /\ QueueAt(hchan, c, dir)[k] \in Entry
              /\ QueueAt(hchan, c, dir)[k].g \in Procs
              /\ QueueAt(hchan, c, dir)[k].i \in Nat
              /\ QueueAt(hchan, c, dir)[k] =
                   Sudog(QueueAt(hchan, c, dir)[k].g, QueueAt(hchan, c, dir)[k].i)
         /\ QueueAt(hchan, c, "send") = hchan[c].sendq
         /\ QueueAt(hchan, c, "recv") = hchan[c].recvq
<1>1. /\ QueueAt(hchan, c, "send") = hchan[c].sendq
      /\ QueueAt(hchan, c, "recv") = hchan[c].recvq
      /\ QueueAt(hchan, c, dir) = IF dir = "send" THEN hchan[c].sendq ELSE hchan[c].recvq
  BY DEF QueueAt
<1>2. hchan[c].sendq \in Seq(Entry) /\ hchan[c].recvq \in Seq(Entry)
  BY DEF TypeInv, ChanState
<1>3. QueueAt(hchan, c, dir) \in Seq(Entry) BY <1>1, <1>2
<1> DEFINE q == QueueAt(hchan, c, dir)
<1> HIDE DEF q
<1>4. q \in Seq(Entry) BY <1>3 DEF q
<1>5. /\ Len(q) \in Nat /\ DOMAIN q = 1 .. Len(q)
      /\ \A k \in 1 .. Len(q) : q[k] \in Entry
  BY <1>4
<1>6. \A k \in 1 .. Len(q) : /\ q[k].g \in Procs /\ q[k].i \in Nat
                             /\ q[k] = Sudog(q[k].g, q[k].i)
  BY <1>5 DEF Entry, Sudog
<1> QED BY <1>1, <1>4, <1>5, <1>6 DEF q

(* q2 is q with some of the sudogs removed, none of them of a goroutine in S. *)
Fewer(q, q2, S) ==
  /\ \A k \in 1 .. Len(q2) : Occurs(q2[k], q)
  /\ \A j, k \in 1 .. Len(q2) : q2[j].g = q2[k].g => j = k
  /\ \A k \in 1 .. Len(q) : q[k].g \in S => Occurs(q[k], q2)

(* A goroutine that is on a queue and stays there. *)
Stays(g) == /\ pc'[g] \in QueuedPCs /\ op'[g] = op[g]
            /\ ~op[g].select => pc'[g] = "parked" /\ param'[g] = 0

(* A step that only removes sudogs, of goroutines that were taken or give up, *)
(* keeps QueueInv.                                                            *)
LEMMA QueuesFewer ==
  ASSUME TypeInv, TypeInv', QueueInv,
         \A c \in Chans, dir \in Sides :
           /\ Fewer(QueueAt(hchan, c, dir), QueueAt(hchan', c, dir), Waiting')
           /\ \A k \in 1 .. Len(QueueAt(hchan', c, dir)) : Stays(QueueAt(hchan', c, dir)[k].g),
         \A g \in Waiting' : g \in Waiting /\ op'[g] = op[g],
         \A c \in Chans :
           /\ hchan'[c].closed => \/ hchan[c].closed
                                  \/ hchan'[c].recvq = << >> /\ hchan'[c].sendq = << >>
           /\ Cap[c] > 0 /\ hchan'[c].qcount > 0      => hchan'[c].recvq = << >>
           /\ Cap[c] > 0 /\ hchan'[c].qcount < Cap[c] => hchan'[c].sendq = << >>
  PROVE  QueueInv'
<1>1. ASSUME NEW c \in Chans, NEW dir \in Sides
      PROVE  Rightful(QueueAt(hchan, c, dir), c, dir)'
  <2> DEFINE q == QueueAt(hchan, c, dir)
             q2 == QueueAt(hchan', c, dir)
  <2>1. Rightful(q, c, dir) BY DEF QueueInv
  <2>2. Fewer(q, q2, Waiting') /\ \A k \in 1 .. Len(q2) : Stays(q2[k].g)
    OBVIOUS
  <2> HIDE DEF q, q2
  <2>3. ASSUME NEW k \in 1 .. Len(q2)
        PROVE  /\ q2[k].i \in DOMAIN op'[q2[k].g].cases
               /\ op'[q2[k].g].cases[q2[k].i] = Case(c, dir)
               /\ pc'[q2[k].g] \in QueuedPCs
               /\ ~op'[q2[k].g].select => pc'[q2[k].g] = "parked" /\ param'[q2[k].g] = 0
    <3>1. PICK j \in 1 .. Len(q) : q[j] = q2[k] BY <2>2 DEF Fewer, Occurs
    <3>2. q2[k].i \in CasesOf(q2[k].g) /\ op[q2[k].g].cases[q2[k].i] = Case(c, dir)
      BY <2>1, <3>1 DEF Rightful
    <3>3. Stays(q2[k].g) BY <2>2
    <3> QED BY <3>2, <3>3 DEF CasesOf, Stays
  <2>4. \A j, k \in 1 .. Len(q2) : q2[j].g = q2[k].g => j = k BY <2>2 DEF Fewer
  <2> QED BY <2>3, <2>4 DEF Rightful, q2, CasesOf
<1>2. Present'
  <2> SUFFICES ASSUME NEW p \in Procs, Parked(p)', NEW i \in DOMAIN op'[p].cases
               PROVE  Occurs(Sudog(p, i), QueueAt(hchan', op'[p].cases[i].ch, op'[p].cases[i].dir))
    BY DEF Present, CasesOf, Sudog
  <2>1. p \in Waiting' BY DEF Waiting
  <2>2. p \in Waiting /\ op'[p] = op[p] BY <2>1
  <2>3. Parked(p) /\ i \in CasesOf(p) BY <2>2 DEF Waiting, CasesOf
  <2> DEFINE x == op[p].cases[i]
             q == QueueAt(hchan, x.ch, x.dir)
             q2 == QueueAt(hchan', x.ch, x.dir)
  <2>4. Occurs(Sudog(p, i), q) BY <2>3 DEF QueueInv, Present
  <2>5. PICK k \in 1 .. Len(q) : q[k] = Sudog(p, i) BY <2>4 DEF Occurs
  <2>6. q[k].g = p BY <2>5 DEF Sudog
  <2>7. x.ch \in Chans /\ x.dir \in {"send", "recv", "close"} BY <2>3, CaseFacts
  <2>8. CASE x.dir \in Sides
    <3>1. Fewer(q, q2, Waiting') BY <2>7, <2>8
    <3>2. Occurs(q[k], q2) BY <2>1, <2>6, <3>1 DEF Fewer
    <3> QED BY <2>2, <2>5, <3>2
  <2>9. CASE x.dir = "close"
    <3>1. /\ q = QueueAt(hchan, x.ch, "recv") /\ q2 = QueueAt(hchan', x.ch, "recv")
          /\ "recv" \in Sides
      BY <2>9 DEF QueueAt, Sides
    <3>2. Fewer(q, q2, Waiting') BY <2>7, <3>1
    <3>3. Occurs(q[k], q2) BY <2>1, <2>6, <3>2 DEF Fewer
    <3> QED BY <2>2, <2>5, <3>3
  <2> QED BY <2>7, <2>8, <2>9 DEF Sides
<1>3. ASSUME NEW c \in Chans PROVE Shape(c)'
  <2> DEFINE r == hchan[c].recvq   s == hchan[c].sendq
             r2 == hchan'[c].recvq s2 == hchan'[c].sendq
  <2>1. /\ r \in Seq(Entry) /\ s \in Seq(Entry) /\ r2 \in Seq(Entry) /\ s2 \in Seq(Entry)
    BY DEF TypeInv, ChanState
  <2>2. /\ \A k \in 1 .. Len(r2) : Occurs(r2[k], r) /\ Stays(r2[k].g)
        /\ \A k \in 1 .. Len(s2) : Occurs(s2[k], s) /\ Stays(s2[k].g)
    BY DEF Fewer, QueueAt, Sides
  <2>3. /\ hchan[c].closed => r = << >> /\ s = << >>
        /\ \/ r = << >> \/ s = << >>
           \/ /\ Cap[c] = 0 /\ Waiters(r) = Waiters(s)
              /\ \A g \in Waiters(r) : op[g].select /\ Waiters(r) = {g}
    BY DEF QueueInv, Shape, AtMostOneQueue
  <2> SUFFICES /\ hchan'[c].closed => r2 = << >> /\ s2 = << >>
               /\ \/ r2 = << >> \/ s2 = << >>
                  \/ /\ Cap[c] = 0 /\ Waiters(r2) = Waiters(s2)
                     /\ \A g \in Waiters(r2) : op'[g].select /\ Waiters(r2) = {g}
    BY DEF Shape, AtMostOneQueue
  <2> HIDE DEF r, s, r2, s2
  <2>4. (r = << >> => r2 = << >>) /\ (s = << >> => s2 = << >>)
    BY <2>1, <2>2 DEF Occurs
  <2>5. hchan'[c].closed => r2 = << >> /\ s2 = << >>
    BY <2>3, <2>4 DEF r2, s2
  <2>6. ASSUME r2 # << >>, s2 # << >>
        PROVE  /\ Cap[c] = 0 /\ Waiters(r2) = Waiters(s2)
               /\ \A g \in Waiters(r2) : op'[g].select /\ Waiters(r2) = {g}
    <3>1. /\ 1 \in 1 .. Len(r2) /\ 1 \in 1 .. Len(s2)
          /\ DOMAIN r = 1 .. Len(r) /\ DOMAIN s = 1 .. Len(s)
          /\ DOMAIN r2 = 1 .. Len(r2) /\ DOMAIN s2 = 1 .. Len(s2)
      BY <2>1, <2>6
    <3>2. r # << >> /\ s # << >> BY <2>4, <2>6
    <3>3. /\ Cap[c] = 0 /\ Waiters(r) = Waiters(s)
          /\ \A g \in Waiters(r) : op[g].select /\ Waiters(r) = {g}
      BY <2>3, <3>2
    <3>4. Waiters(r2) \subseteq Waiters(r) /\ Waiters(s2) \subseteq Waiters(s)
      <4>1. \A k \in 1 .. Len(r2) : \E j \in 1 .. Len(r) : r[j] = r2[k]
        BY <2>2 DEF Occurs
      <4>2. \A k \in 1 .. Len(s2) : \E j \in 1 .. Len(s) : s[j] = s2[k]
        BY <2>2 DEF Occurs
      <4>3. Waiters(r2) \subseteq Waiters(r) BY <3>1, <4>1 DEF Waiters
      <4>4. Waiters(s2) \subseteq Waiters(s) BY <3>1, <4>2 DEF Waiters
      <4> QED BY <4>3, <4>4
    <3>5. r2[1].g \in Waiters(r2) /\ s2[1].g \in Waiters(s2) /\ op'[r2[1].g] = op[r2[1].g]
      BY <2>2, <3>1 DEF Waiters, Stays
    <3> DEFINE a == r2[1].g
    <3>6. Waiters(r) = {a} /\ op[a].select BY <3>3, <3>4, <3>5
    <3>7. Waiters(r2) = {a} /\ Waiters(s2) = {a} BY <3>3, <3>4, <3>5, <3>6
    <3> QED BY <3>3, <3>5, <3>6, <3>7
  <2> QED BY <2>5, <2>6
<1> QED BY <1>1, <1>2, <1>3 DEF QueueInv

(* What dequeue takes, and what it leaves. *)
LEMMA RestFacts ==
  ASSUME NEW q \in Seq(Entry), HasLive(q),
         \A j, k \in 1 .. Len(q) : q[j].g = q[k].g => j = k
  PROVE  /\ First(q) \in Entry /\ Live(First(q)) /\ Occurs(First(q), q)
         /\ Rest(q) \in Seq(Entry)
         /\ \A k \in 1 .. Len(Rest(q)) :
              Occurs(Rest(q)[k], q) /\ Rest(q)[k].g # First(q).g
         /\ \A j, k \in 1 .. Len(Rest(q)) : Rest(q)[j].g = Rest(q)[k].g => j = k
         /\ \A k \in 1 .. Len(q) :
              Live(q[k]) /\ q[k].g # First(q).g => Occurs(q[k], Rest(q))
<1> DEFINE n == FirstAt(q)
           r == SubSeq(q, n + 1, Len(q))
<1>1. DOMAIN q = 1 .. Len(q) /\ Len(q) \in Nat OBVIOUS
<1>2. LiveAt(q) \in SUBSET Nat /\ LiveAt(q) # {} BY <1>1 DEF LiveAt, HasLive
<1>3. \E k \in LiveAt(q) : \A j \in LiveAt(q) : k <= j BY <1>2, LeastNat
<1>4. n \in LiveAt(q) /\ \A j \in LiveAt(q) : n <= j BY <1>3 DEF FirstAt
<1> HIDE DEF n
<1>5. n \in 1 .. Len(q) /\ Live(q[n]) /\ \A j \in 1 .. Len(q) : Live(q[j]) => n <= j
  BY <1>1, <1>4 DEF LiveAt
<1>6. First(q) = q[n] /\ Rest(q) = r BY DEF First, Rest, n
<1>7. /\ r \in Seq(Entry) /\ Len(r) = Len(q) - n
      /\ \A k \in 1 .. Len(r) : r[k] = q[n + k] /\ n + k \in 1 .. Len(q)
  <2>1. /\ n \in Nat /\ Len(q) \in Nat /\ n >= 1 /\ n <= Len(q) BY <1>1, <1>5
  <2>2. \A k \in n + 1 .. Len(q) : q[k] \in Entry BY <2>1
  <2>3. r \in Seq(Entry) /\ Len(r) = Len(q) - n BY <2>1, <2>2
  <2>4. \A k \in 1 .. Len(q) - n : r[k] = q[n + 1 + k - 1] BY <2>1, <2>2
  <2>5. \A k \in 1 .. Len(q) - n : n + 1 + k - 1 = n + k /\ n + k \in 1 .. Len(q) BY <2>1
  <2> QED BY <2>3, <2>4, <2>5
<1> HIDE DEF r
<1>8. \A k \in 1 .. Len(r) : k \in Nat /\ n \in Nat /\ n + k # n BY <1>5
<1>9. \A k \in 1 .. Len(r) : Occurs(r[k], q) /\ r[k].g # q[n].g
  <2> SUFFICES ASSUME NEW k \in 1 .. Len(r) PROVE Occurs(r[k], q) /\ r[k].g # q[n].g
    OBVIOUS
  <2>1. r[k] = q[n + k] /\ n + k \in 1 .. Len(q) /\ n + k # n BY <1>7, <1>8
  <2> QED BY <1>5, <2>1 DEF Occurs
<1>10. \A j, k \in 1 .. Len(r) : r[j].g = r[k].g => j = k
  <2> SUFFICES ASSUME NEW j \in 1 .. Len(r), NEW k \in 1 .. Len(r), r[j].g = r[k].g
               PROVE  j = k
    OBVIOUS
  <2>1. n + j = n + k BY <1>7
  <2> QED BY <1>5, <2>1
<1>11. ASSUME NEW k \in 1 .. Len(q), Live(q[k]), q[k].g # q[n].g PROVE Occurs(q[k], r)
  <2>1. n <= k /\ n # k BY <1>5, <1>11
  <2>2. k - n \in 1 .. Len(r) BY <1>1, <1>5, <1>7, <2>1
  <2>3. r[k - n] = q[n + (k - n)] BY <1>7, <2>2
  <2>4. n + (k - n) = k BY <1>5
  <2> QED BY <2>2, <2>3, <2>4 DEF Occurs
<1>12. q[n] \in Entry /\ Occurs(q[n], q) BY <1>5 DEF Occurs
<1> QED BY <1>5, <1>6, <1>7, <1>9, <1>10, <1>11, <1>12

(* The live sudogs are those of the goroutines that wait and were not taken. *)
LEMMA LiveIff ==
  ASSUME TypeInv, WakeInv, QueueInv, NEW c \in Chans, NEW dir \in Sides,
         NEW k \in 1 .. Len(QueueAt(hchan, c, dir))
  PROVE  LET s == QueueAt(hchan, c, dir)[k] IN
         /\ s \in Entry /\ s.g \in Procs /\ s.i \in CasesOf(s.g) /\ s.i \in Nat \ {0}
         /\ op[s.g].cases[s.i] = Case(c, dir)
         /\ pc[s.g] \in QueuedPCs
         /\ ~op[s.g].select => Parked(s.g)
         /\ Live(s) <=> s.g \in Waiting
<1> DEFINE s == QueueAt(hchan, c, dir)[k]
<1>1. s \in Entry /\ s.g \in Procs BY QueueFacts
<1>2. /\ s.i \in CasesOf(s.g) /\ op[s.g].cases[s.i] = Case(c, dir)
      /\ pc[s.g] \in QueuedPCs /\ (~op[s.g].select => pc[s.g] = "parked" /\ param[s.g] = 0)
  BY DEF QueueInv, Rightful
<1> HIDE DEF s
<1>3. s.i \in Nat \ {0} BY <1>1, <1>2, CaseFacts
<1>4. /\ pc[s.g] \in TakenPCs \ {"parked"} => param[s.g] # 0
      /\ selectDone[s.g] <=> op[s.g].select /\ param[s.g] # 0
  BY <1>1 DEF WakeInv, Wake
<1>5. Live(s) <=> s.g \in Waiting
  BY <1>1, <1>2, <1>4 DEF Live, Waiting, Parked, QueuedPCs, TakenPCs
<1> QED BY <1>1, <1>2, <1>3, <1>5 DEF s, Parked

(* The channels after a call has looked into some queues, and dropped the     *)
(* sudogs of selects it has found to be woken.                                *)
Typed(h) == /\ h = [c \in Chans |-> h[c]] /\ DOMAIN h = Chans
            /\ \A c \in Chans : h[c] \in ChanState(c)

Looked(h) ==
  /\ Typed(h)
  /\ \A c \in Chans :
       /\ h[c].closed = hchan[c].closed
       /\ h[c].recvq = hchan[c].recvq \/ (h[c].recvq = << >> /\ ~HasLive(hchan[c].recvq))
       /\ h[c].sendq = hchan[c].sendq \/ (h[c].sendq = << >> /\ ~HasLive(hchan[c].sendq))

SameRings(h) ==
  \A c \in Chans : /\ h[c].buf = hchan[c].buf /\ h[c].qcount = hchan[c].qcount
                   /\ h[c].sendx = hchan[c].sendx /\ h[c].recvx = hchan[c].recvx

(* Looking into a queue removes no goroutine that waits. *)
LEMMA LookedFewer ==
  ASSUME TypeInv, WakeInv, QueueInv, NEW h, Looked(h), NEW c \in Chans, NEW dir \in Sides
  PROVE  /\ Fewer(QueueAt(hchan, c, dir), QueueAt(h, c, dir), Waiting)
         /\ QueueAt(h, c, dir) \in Seq(Entry)
         /\ \/ QueueAt(h, c, dir) = QueueAt(hchan, c, dir)
            \/ QueueAt(h, c, dir) = << >>
<1> DEFINE q == QueueAt(hchan, c, dir)
           q2 == QueueAt(h, c, dir)
<1>1. q2 = q \/ (q2 = << >> /\ ~HasLive(q)) BY DEF Looked, QueueAt
<1>2. q \in Seq(Entry) /\ Len(q) \in Nat /\ DOMAIN q = 1 .. Len(q) BY QueueFacts
<1>3. \A j, k \in 1 .. Len(q) : q[j].g = q[k].g => j = k BY DEF QueueInv, Rightful
<1>4. \A k \in 1 .. Len(q) : Live(q[k]) <=> q[k].g \in Waiting BY LiveIff
<1> HIDE DEF q, q2
<1>5. CASE q2 = q
  BY <1>2, <1>3, <1>5 DEF Fewer, Occurs, q, q2
<1>6. CASE q2 = << >> /\ ~HasLive(q)
  <2>1. \A k \in 1 .. Len(q) : ~Live(q[k]) BY <1>2, <1>6 DEF HasLive, LiveAt
  <2>2. q2 \in Seq(Entry) /\ Len(q2) = 0 BY <1>6
  <2> QED BY <1>4, <1>6, <2>1, <2>2 DEF Fewer, q, q2
<1> QED BY <1>1, <1>5, <1>6

(* A case that is not ready has nobody on the other side to be taken. *)
LEMMA LookIntoLooked ==
  ASSUME TypeInv, NEW p \in Procs,
         NEW X, \A x \in X : \E i \in CasesOf(p) : x = op[p].cases[i] /\ ~Ready(x),
         \A i \in CasesOf(p) : op[p].cases[i].dir \in Sides
  PROVE  Looked(LookInto(X)) /\ SameRings(LookInto(X))
<1> DEFINE h == LookInto(X)
<1>1. ASSUME NEW c \in Chans
      PROVE  /\ h[c] = [hchan[c] EXCEPT
                          !.recvq = IF Case(c, "send") \in X THEN << >> ELSE @,
                          !.sendq = IF Case(c, "recv") \in X THEN << >> ELSE @]
             /\ Case(c, "send") \in X => ~HasLive(hchan[c].recvq)
             /\ Case(c, "recv") \in X => ~HasLive(hchan[c].sendq)
  <2>1. Case(c, "send") \in X => ~Ready(Case(c, "send")) OBVIOUS
  <2>2. Case(c, "recv") \in X => ~Ready(Case(c, "recv")) OBVIOUS
  <2>3. Case(c, "send") \in X => ~HasLive(hchan[c].recvq)
    BY <2>1 DEF Ready, ReadyToSend, Case
  <2>4. Case(c, "recv") \in X => ~HasLive(hchan[c].sendq)
    BY <2>2 DEF Ready, ReadyToRecv, Case
  <2> QED BY <2>3, <2>4 DEF LookInto
<1>2. DOMAIN h = Chans /\ h = [c \in Chans |-> h[c]] BY DEF LookInto
<1> HIDE DEF h
<1>3. ASSUME NEW c \in Chans
      PROVE  /\ h[c] \in ChanState(c)
             /\ h[c].closed = hchan[c].closed
             /\ h[c].recvq = IF Case(c, "send") \in X THEN << >> ELSE hchan[c].recvq
             /\ h[c].sendq = IF Case(c, "recv") \in X THEN << >> ELSE hchan[c].sendq
             /\ h[c].buf = hchan[c].buf /\ h[c].qcount = hchan[c].qcount
             /\ h[c].sendx = hchan[c].sendx /\ h[c].recvx = hchan[c].recvx
  <2> DEFINE rq == IF Case(c, "send") \in X THEN << >> ELSE hchan[c].recvq
             sq == IF Case(c, "recv") \in X THEN << >> ELSE hchan[c].sendq
  <2>1. hchan[c] \in ChanState(c) BY DEF TypeInv
  <2>2. hchan[c].recvq \in Seq(Entry) /\ hchan[c].sendq \in Seq(Entry)
    BY <2>1 DEF ChanState
  <2>3. rq \in Seq(Entry) /\ sq \in Seq(Entry) BY <2>2
  <2>4. h[c] = [hchan[c] EXCEPT !.recvq = rq, !.sendq = sq] BY <1>1
  <2> HIDE DEF rq, sq
  <2>5. /\ h[c] \in ChanState(c) /\ h[c].recvq = rq /\ h[c].sendq = sq
        /\ h[c].closed = hchan[c].closed
        /\ h[c].buf = hchan[c].buf /\ h[c].qcount = hchan[c].qcount
        /\ h[c].sendx = hchan[c].sendx /\ h[c].recvx = hchan[c].recvx
    BY <2>1, <2>3, <2>4 DEF ChanState
  <2> QED BY <2>5 DEF rq, sq
<1> QED BY <1>1, <1>2, <1>3 DEF Looked, Typed, SameRings, h

-----------------------------------------------------------------------------
(* What the steps of goroutines keep *)

(* The steps a goroutine may take without taking or releasing a lock.         *)
Moves(g) ==
  \/ pc'[g] = pc[g]
  \/ pc[g] \in {"pass1", "pass3"} /\ pc'[g] = "selunlock"
  \/ pc[g] = "parked" /\ pc'[g] = "relock" /\ op[g].select
  \/ pc[g] = "parked" /\ pc'[g] = "woken" /\ ~op[g].select
  \/ /\ pc[g] \notin SelectPCs \cup {"parked", "idle"}
     /\ pc'[g] \notin SelectPCs \cup {"idle"}
     /\ pc'[g] \in PlainPCs => ~op[g].select

LEMMA LocksKept ==
  ASSUME TypeInv, OpInv, LockInv, UNCHANGED << op, held, parking >>,
         \A g \in Procs : Moves(g)
  PROVE  OpInv' /\ LockInv'
<1>1. ASSUME NEW g \in Procs
      PROVE  /\ pc'[g] = "idle" <=> op[g] = NoOp
             /\ pc'[g] \in SelectPCs => op[g].select
             /\ pc'[g] \in PlainPCs  => ~op[g].select
  <2>1. /\ pc[g] = "idle" <=> op[g] = NoOp
        /\ pc[g] \in SelectPCs => op[g].select
        /\ pc[g] \in PlainPCs  => ~op[g].select
    BY DEF OpInv
  <2>2. Moves(g) OBVIOUS
  <2> QED BY <2>1, <2>2 DEF Moves, SelectPCs, PlainPCs
<1>2. OpInv' BY <1>1 DEF OpInv
<1>3. ASSUME NEW g \in Procs PROVE Locks(g)'
  <2>1. Locks(g) /\ Moves(g) BY DEF LockInv
  <2>2. ChansOf(g)' = ChansOf(g) BY DEF ChansOf, CaseSet, CasesOf
  <2>3. op[g].select => ChansOf(g) # {}
    <3>1. op[g].select => op[g] # NoOp BY DEF NoOp
    <3> QED BY <3>1, CaseFacts
  <2>4. /\ pc[g] = "parked" => held[g] = {}
        /\ pc[g] \notin SelectPCs \cup {"parked"} => held[g] = {} /\ parking[g] = {}
        /\ pc[g] = "parked" /\ ~op[g].select => parking[g] = {}
    BY <2>1 DEF Locks, SelectPCs
  <2>5. CASE pc'[g] = pc[g]
    BY <2>1, <2>2, <2>5 DEF Locks
  <2>6. CASE pc[g] \in {"pass1", "pass3"} /\ pc'[g] = "selunlock"
    <3>1. op[g].select BY <2>6 DEF OpInv, SelectPCs
    <3> QED BY <2>1, <2>2, <2>3, <2>6, <3>1 DEF Locks, SelLockStates, SelectPCs
  <2>7. CASE pc[g] = "parked" /\ pc'[g] = "relock" /\ op[g].select
    BY <2>1, <2>2, <2>3, <2>4, <2>7 DEF Locks, SelLockStates, SelectPCs
  <2>8. CASE pc[g] = "parked" /\ pc'[g] = "woken" /\ ~op[g].select
    BY <2>1, <2>2, <2>4, <2>8 DEF Locks, SelLockStates, SelectPCs
  <2>9. CASE pc[g] \notin SelectPCs \cup {"parked", "idle"} /\ pc'[g] \notin SelectPCs
    BY <2>1, <2>2, <2>4, <2>9 DEF Locks, SelLockStates, SelectPCs
  <2> QED BY <2>1, <2>5, <2>6, <2>7, <2>8, <2>9 DEF Moves
<1> QED BY <1>2, <1>3 DEF LockInv

(* A goroutine about to complete its call is on no queue and in no glist.     *)
LEMMA Caller ==
  ASSUME IInv, NEW p \in Procs, pc[p] \notin TakenPCs \cup {"ready", "selunlock"}
  PROVE  /\ param[p] = 0 /\ glist[p] = {} /\ p \notin Waiting /\ ~selectDone[p]
         /\ \A q \in Procs : p \notin glist[q]
         /\ \A c \in Chans, dir \in Sides :
              \A k \in 1 .. Len(QueueAt(hchan, c, dir)) : QueueAt(hchan, c, dir)[k].g # p
<1>1. Wake(p) BY DEF IInv, WakeInv
<1>2. /\ param[p] = 0 /\ glist[p] = {} /\ p \notin Waiting /\ ~selectDone[p]
      /\ \A q \in Procs : p \notin glist[q]
  BY <1>1 DEF Wake, TakenPCs, Waiting, Parked
<1>3. ASSUME NEW c \in Chans, NEW dir \in Sides,
             NEW k \in 1 .. Len(QueueAt(hchan, c, dir)), QueueAt(hchan, c, dir)[k].g = p
      PROVE  FALSE
  <2>1. pc[p] \in QueuedPCs BY <1>3, LiveIff DEF IInv
  <2> QED BY <2>1 DEF QueuedPCs, TakenPCs
<1> QED BY <1>2, <1>3

(* A call that completes by itself, having looked into some queues.           *)
LEMMA CompleteStep ==
  ASSUME IInv, NEW p \in Procs, pc[p] \in {"lock", "pass1"},
         NEW i, NEW v, NEW ok, NEW h, Complete(p, i, v, ok, h), UNCHANGED << op, lockVars >>,
         Looked(h), \A c \in Chans : Ring(h[c], c),
         \A c \in Chans : /\ Cap[c] > 0 /\ h[c].qcount > 0      => h[c].recvq = << >>
                          /\ Cap[c] > 0 /\ h[c].qcount < Cap[c] => h[c].sendq = << >>
  PROVE  IInv'
<1>0. /\ hchan' = h /\ pc' = [pc EXCEPT ![p] = AfterCase(p, {})]
      /\ UNCHANGED << op, held, parking, param, success, elem, selectDone, glist >>
  BY DEF Complete, sudogVars, lockVars
<1>1. op[p].select <=> pc[p] = "pass1"
  BY DEF IInv, OpInv, SelectPCs, PlainPCs
<1>2. AfterCase(p, {}) = IF op[p].select THEN "selunlock" ELSE "done"
  BY CaseFacts DEF AfterCase, IInv
<1>3. /\ pc'[p] = IF op[p].select THEN "selunlock" ELSE "done"
      /\ \A g \in Procs : g # p => pc'[g] = pc[g]
      /\ pc' \in [Procs -> PCs]
  BY <1>0, <1>2 DEF IInv, TypeInv, PCs
<1>4. TypeInv' BY <1>0, <1>3 DEF IInv, TypeInv, Looked, Typed
<1>5. OpInv' /\ LockInv'
  <2>1. \A g \in Procs : Moves(g)
    BY <1>1, <1>3 DEF Moves, SelectPCs, PlainPCs
  <2> QED BY <1>0, <2>1, LocksKept DEF IInv
<1>6. /\ param[p] = 0 /\ glist[p] = {} /\ p \notin Waiting /\ ~selectDone[p]
      /\ \A q \in Procs : p \notin glist[q]
      /\ \A c \in Chans, dir \in Sides :
           \A k \in 1 .. Len(QueueAt(hchan, c, dir)) : QueueAt(hchan, c, dir)[k].g # p
  BY Caller DEF TakenPCs
<1>7. WakeInv'
  <2>1. ASSUME NEW g \in Procs PROVE Wake(g)'
    <3>1. Wake(g) BY DEF IInv, WakeInv
    <3>2. CasesOf(g)' = CasesOf(g) BY <1>0 DEF CasesOf
    <3>3. param[g] # 0 => hchan'[op[g].cases[param[g]].ch].closed
                            = hchan[op[g].cases[param[g]].ch].closed
      BY <1>0, <3>1, CaseFacts DEF IInv, Wake, Looked
    <3>4. CASE g = p
      BY <1>0, <1>3, <1>6, <3>1, <3>2, <3>4 DEF Wake, TakenPCs
    <3>5. CASE g # p
      BY <1>0, <1>3, <3>1, <3>2, <3>3, <3>5 DEF Wake
    <3> QED BY <3>4, <3>5
  <2> QED BY <1>0, <2>1 DEF IInv, WakeInv
<1>8. QueueInv'
  <2>1. Waiting' = Waiting BY <1>0, <1>3, <1>6 DEF Waiting, Parked, TakenPCs
  <2>2. ASSUME NEW c \in Chans, NEW dir \in Sides
        PROVE  /\ Fewer(QueueAt(hchan, c, dir), QueueAt(hchan', c, dir), Waiting')
               /\ \A k \in 1 .. Len(QueueAt(hchan', c, dir)) : Stays(QueueAt(hchan', c, dir)[k].g)
    <3>1. /\ Fewer(QueueAt(hchan, c, dir), QueueAt(hchan', c, dir), Waiting')
          /\ \/ QueueAt(hchan', c, dir) = QueueAt(hchan, c, dir)
             \/ QueueAt(hchan', c, dir) = << >>
      BY <1>0, <2>1, LookedFewer DEF IInv
    <3>2. ASSUME NEW k \in 1 .. Len(QueueAt(hchan, c, dir))
          PROVE  Stays(QueueAt(hchan, c, dir)[k].g)
      <4> DEFINE g == QueueAt(hchan, c, dir)[k].g
      <4>1. /\ g \in Procs /\ pc[g] \in QueuedPCs /\ g # p
            /\ ~op[g].select => Parked(g)
        BY <1>6, LiveIff DEF IInv
      <4> HIDE DEF g
      <4>2. Stays(g) BY <1>0, <1>3, <4>1 DEF Stays, Parked
      <4> QED BY <4>2 DEF g
    <3>3. QueueAt(hchan', c, dir) = << >> => 1 .. Len(QueueAt(hchan', c, dir)) = {}
      OBVIOUS
    <3> QED BY <3>1, <3>2, <3>3
  <2>3. \A c \in Chans :
          /\ hchan'[c].closed => hchan[c].closed
          /\ Cap[c] > 0 /\ hchan'[c].qcount > 0      => hchan'[c].recvq = << >>
          /\ Cap[c] > 0 /\ hchan'[c].qcount < Cap[c] => hchan'[c].sendq = << >>
    BY <1>0 DEF Looked
  <2> QED BY <1>0, <1>4, <2>1, <2>2, <2>3, QueuesFewer DEF IInv
<1>9. RingInv' BY <1>0 DEF RingInv
<1> QED BY <1>4, <1>5, <1>7, <1>8, <1>9 DEF IInv

(* A call that completes with the sudog of a goroutine that waits.            *)
LEMMA CompleteWithStep ==
  ASSUME IInv, NEW p \in Procs, pc[p] \in {"lock", "pass1"},
         NEW c \in Chans, NEW dir \in Sides, NEW s \in Entry,
         Live(s), Occurs(s, QueueAt(hchan, c, dir)),
         NEW i, NEW v, NEW h, NEW w \in Procs \cup {NoVal},
         CompleteWith(p, i, v, h, s, w), UNCHANGED << op, lockVars >>,
         Typed(h), \A d \in Chans : Ring(h[d], d),
         \A d \in Chans : h[d].closed = hchan[d].closed /\ h[d].qcount = hchan[d].qcount,
         \A d \in Chans, e \in Sides :
           Fewer(QueueAt(hchan, d, e), QueueAt(h, d, e), Waiting \ {s.g}),
         \A k \in 1 .. Len(QueueAt(h, c, dir)) : QueueAt(h, c, dir)[k].g # s.g
  PROVE  IInv'
<1> DEFINE t == s.g
<1>0. /\ hchan' = h /\ pc' = [pc EXCEPT ![p] = AfterCase(p, {t})]
      /\ param' = [param EXCEPT ![t] = s.i] /\ success' = [success EXCEPT ![t] = TRUE]
      /\ elem' = [elem EXCEPT ![t] = w]
      /\ selectDone' = [selectDone EXCEPT ![t] = op[t].select]
      /\ glist' = [glist EXCEPT ![p] = {t}]
      /\ UNCHANGED << op, held, parking >>
  BY DEF CompleteWith, lockVars
<1>1. op[p].select <=> pc[p] = "pass1"
  BY DEF IInv, OpInv, SelectPCs, PlainPCs
<1>2. AfterCase(p, {t}) = IF op[p].select THEN "selunlock" ELSE "ready"
  BY CaseFacts DEF AfterCase, IInv
<1>3. /\ pc'[p] = IF op[p].select THEN "selunlock" ELSE "ready"
      /\ \A g \in Procs : g # p => pc'[g] = pc[g]
      /\ pc' \in [Procs -> PCs]
  BY <1>0, <1>2 DEF IInv, TypeInv, PCs
<1>4. PICK k \in 1 .. Len(QueueAt(hchan, c, dir)) : QueueAt(hchan, c, dir)[k] = s
  BY DEF Occurs
<1>5. /\ t \in Procs /\ s.i \in CasesOf(t) /\ s.i \in Nat \ {0}
      /\ op[t].cases[s.i] = Case(c, dir) /\ t \in Waiting /\ Parked(t)
  BY <1>4, LiveIff DEF IInv, Waiting
<1>6. t # p /\ pc[t] = "parked" /\ param[t] = 0 BY <1>5 DEF Parked
<1>7. /\ param[p] = 0 /\ glist[p] = {} /\ p \notin Waiting /\ ~selectDone[p]
      /\ \A q \in Procs : p \notin glist[q]
      /\ \A d \in Chans, e \in Sides :
           \A j \in 1 .. Len(QueueAt(hchan, d, e)) : QueueAt(hchan, d, e)[j].g # p
  BY Caller DEF TakenPCs
<1>8. \A q \in Procs : t \notin glist[q]
  BY <1>5, <1>6 DEF IInv, WakeInv, Wake
<1>9. op[t].select \in BOOLEAN BY <1>5, CaseFacts DEF IInv
<1> HIDE DEF t
<1>10. TypeInv'
  BY <1>0, <1>3, <1>5, <1>9 DEF IInv, TypeInv, Typed
<1>11. OpInv' /\ LockInv'
  <2>1. \A g \in Procs : Moves(g)
    BY <1>1, <1>3 DEF Moves, SelectPCs, PlainPCs
  <2> QED BY <1>0, <2>1, LocksKept DEF IInv
<1>12. /\ param'[t] = s.i /\ success'[t] = TRUE /\ selectDone'[t] = op[t].select
       /\ glist'[p] = {t}
       /\ \A g \in Procs : g # t => /\ param'[g] = param[g] /\ success'[g] = success[g]
                                    /\ selectDone'[g] = selectDone[g]
       /\ \A g \in Procs : g # p => glist'[g] = glist[g]
  BY <1>0, <1>5 DEF IInv, TypeInv
<1>13. WakeInv'
  <2>1. ASSUME NEW g \in Procs PROVE Wake(g)'
    <3>1. Wake(g) BY DEF IInv, WakeInv
    <3>2. CasesOf(g)' = CasesOf(g) BY <1>0 DEF CasesOf
    <3>3. param[g] # 0 => hchan'[op[g].cases[param[g]].ch].closed
                            = hchan[op[g].cases[param[g]].ch].closed
      BY <1>0, <3>1, CaseFacts DEF IInv, Wake
    <3>4. \E q \in Procs : t \in glist'[q] BY <1>12
    <3>5. g # t => ((\E q \in Procs : g \in glist'[q]) <=> \E q \in Procs : g \in glist[q])
      BY <1>7, <1>12
    <3>6. CASE g = p
      BY <1>0, <1>3, <1>6, <1>7, <1>12, <3>1, <3>2, <3>5, <3>6 DEF Wake, TakenPCs
    <3>7. CASE g = t
      BY <1>0, <1>3, <1>5, <1>6, <1>12, <3>1, <3>2, <3>4, <3>7 DEF Wake, TakenPCs
    <3>8. CASE g # p /\ g # t
      BY <1>0, <1>3, <1>12, <3>1, <3>2, <3>3, <3>5, <3>8 DEF Wake
    <3> QED BY <3>6, <3>7, <3>8
  <2>2. ASSUME NEW g \in Procs, NEW q \in Procs, NEW r \in Procs,
               g \in glist'[q], g \in glist'[r]
        PROVE  q = r
    BY <1>8, <1>12, <2>2 DEF IInv, WakeInv
  <2> QED BY <2>1, <2>2 DEF WakeInv
<1>14. Waiting' = Waiting \ {t}
  <2>1. ASSUME NEW g \in Procs PROVE Parked(g)' <=> Parked(g) /\ g # t
    BY <1>3, <1>5, <1>6, <1>12 DEF Parked
  <2> QED BY <2>1 DEF Waiting
<1>15. QueueInv'
  <2>1. ASSUME NEW d \in Chans, NEW e \in Sides
        PROVE  /\ Fewer(QueueAt(hchan, d, e), QueueAt(hchan', d, e), Waiting')
               /\ \A j \in 1 .. Len(QueueAt(hchan', d, e)) : Stays(QueueAt(hchan', d, e)[j].g)
    <3>1. Fewer(QueueAt(hchan, d, e), QueueAt(hchan', d, e), Waiting')
      BY <1>0, <1>14 DEF t
    <3>2. ASSUME NEW j \in 1 .. Len(QueueAt(hchan', d, e))
          PROVE  Stays(QueueAt(hchan', d, e)[j].g)
      <4> DEFINE g == QueueAt(hchan', d, e)[j].g
      <4>1. PICK n \in 1 .. Len(QueueAt(hchan, d, e)) :
                 QueueAt(hchan, d, e)[n] = QueueAt(hchan', d, e)[j]
        BY <3>1 DEF Fewer, Occurs
      <4>2. /\ g \in Procs /\ pc[g] \in QueuedPCs /\ g # p
            /\ QueueAt(hchan, d, e)[n].i \in CasesOf(g)
            /\ op[g].cases[QueueAt(hchan, d, e)[n].i] = Case(d, e)
            /\ ~op[g].select => Parked(g)
        BY <1>7, <4>1, LiveIff DEF IInv
      <4>3. ~op[g].select => g # t
        <5> SUFFICES ASSUME ~op[g].select, g = t PROVE FALSE OBVIOUS
        <5>1. op[t] # NoOp BY <1>5, <1>6 DEF IInv, OpInv
        <5>2. CasesOf(t) = {1} BY <1>5, <5>1, CaseFacts DEF IInv
        <5>3. Case(d, e) = Case(c, dir) BY <1>5, <4>2, <5>2
        <5>4. d = c /\ e = dir BY <5>3 DEF Case
        <5> QED BY <1>0, <5>4 DEF t
      <4> HIDE DEF g
      <4>4. Stays(g) BY <1>0, <1>3, <1>12, <4>2, <4>3 DEF Stays, Parked
      <4> QED BY <4>4 DEF g
    <3> QED BY <3>1, <3>2
  <2>2. \A d \in Chans :
          /\ hchan'[d].closed => hchan[d].closed
          /\ hchan[d].qcount = hchan'[d].qcount
    BY <1>0
  <2>3. \A d \in Chans :
          /\ Cap[d] > 0 /\ hchan'[d].qcount > 0      => hchan'[d].recvq = << >>
          /\ Cap[d] > 0 /\ hchan'[d].qcount < Cap[d] => hchan'[d].sendq = << >>
    <3> SUFFICES ASSUME NEW d \in Chans
                 PROVE  /\ hchan[d].recvq = << >> => hchan'[d].recvq = << >>
                        /\ hchan[d].sendq = << >> => hchan'[d].sendq = << >>
      BY <2>2 DEF IInv, QueueInv, Shape
    <3>1. /\ Fewer(hchan[d].recvq, hchan'[d].recvq, Waiting \ {t})
          /\ Fewer(hchan[d].sendq, hchan'[d].sendq, Waiting \ {t})
      BY <1>0 DEF QueueAt, Sides, t
    <3>2. hchan'[d].recvq \in Seq(Entry) /\ hchan'[d].sendq \in Seq(Entry)
      BY <1>10 DEF TypeInv, ChanState
    <3> QED BY <3>1, <3>2 DEF Fewer, Occurs
  <2> QED BY <1>0, <1>10, <1>14, <2>1, <2>2, <2>3, QueuesFewer DEF IInv
<1>16. RingInv' BY <1>0 DEF RingInv
<1> QED BY <1>10, <1>11, <1>13, <1>15, <1>16 DEF IInv

-----------------------------------------------------------------------------
(* The ring buffer *)

(* Slots of a ring of n are counted modulo n.                                 *)
LEMMA ModuloNat ==
  ASSUME NEW n \in Nat, n > 0, NEW a \in Nat, a < 2 * n
  PROVE  a % n = IF a < n THEN a ELSE a - n
  BY Modulo

(* The slot after x, and how far slot k is behind slot x. *)
LEMMA BumpModulo ==
  ASSUME NEW c \in Chans, NEW x \in Nat, x < Cap[c]
  PROVE  /\ Bump(c, x) \in Nat /\ Bump(c, x) < Cap[c]
         /\ \A q \in 0 .. Cap[c] : Bump(c, (x + q) % Cap[c]) = (Bump(c, x) + q) % Cap[c]
         /\ \A q \in 0 .. Cap[c] - 1 : Bump(c, (x + q) % Cap[c]) = (x + (q + 1)) % Cap[c]
         /\ \A q \in 1 .. Cap[c] : (x + q) % Cap[c] = (Bump(c, x) + (q - 1)) % Cap[c]
<1> DEFINE n == Cap[c]
<1>1. n \in Nat /\ n > 0 /\ x < n BY ChanAssumption
<1> HIDE DEF n
<1>2. Bump(c, x) = (IF x + 1 = n THEN 0 ELSE x + 1) BY DEF Bump, n
<1>3. Bump(c, x) \in Nat /\ Bump(c, x) < n BY <1>1, <1>2
<1>4. \A q \in 0 .. n : (x + q) % n = IF x + q < n THEN x + q ELSE x + q - n
  <2> SUFFICES ASSUME NEW q \in 0 .. n PROVE (x + q) % n = IF x + q < n THEN x + q ELSE x + q - n
    OBVIOUS
  <2>1. x + q \in Nat /\ x + q < 2 * n BY <1>1
  <2> QED BY <1>1, <2>1, ModuloNat
<1> DEFINE y == Bump(c, x)
<1>5. \A q \in 0 .. n : (y + q) % n = IF y + q < n THEN y + q ELSE y + q - n
  <2>1. y \in Nat /\ y < n BY <1>3
  <2> HIDE DEF y
  <2> SUFFICES ASSUME NEW q \in 0 .. n PROVE (y + q) % n = IF y + q < n THEN y + q ELSE y + q - n
    OBVIOUS
  <2>2. y + q \in Nat /\ y + q < 2 * n BY <1>1, <2>1
  <2> QED BY <1>1, <2>1, <2>2, ModuloNat
<1>6. ASSUME NEW q \in 0 .. n
      PROVE  Bump(c, (x + q) % n) = (Bump(c, x) + q) % n
  <2>1. Bump(c, (x + q) % n) = (IF ((x + q) % n) + 1 = n THEN 0 ELSE ((x + q) % n) + 1)
    BY DEF Bump, n
  <2>2. (x + q) % n = IF x + q < n THEN x + q ELSE x + q - n BY <1>4
  <2>3. (y + q) % n = IF y + q < n THEN y + q ELSE y + q - n BY <1>5
  <2>4. y = (IF x + 1 = n THEN 0 ELSE x + 1) BY <1>2
  <2> HIDE DEF y
  <2>5. Bump(c, (x + q) % n) = (y + q) % n BY <1>1, <2>1, <2>2, <2>3, <2>4
  <2> QED BY <2>5 DEF y
<1>7. ASSUME NEW q \in 0 .. n - 1
      PROVE  Bump(c, (x + q) % n) = (x + (q + 1)) % n
  <2>1. Bump(c, (x + q) % n) = (IF ((x + q) % n) + 1 = n THEN 0 ELSE ((x + q) % n) + 1)
    BY DEF Bump, n
  <2>2. q \in 0 .. n /\ q + 1 \in 0 .. n BY <1>1
  <2>3. (x + (q + 1)) % n = IF x + (q + 1) < n THEN x + (q + 1) ELSE x + (q + 1) - n
    BY <1>4, <2>2
  <2>4. (x + q) % n = IF x + q < n THEN x + q ELSE x + q - n BY <1>4, <2>2
  <2> QED BY <1>1, <2>1, <2>3, <2>4
<1>8. ASSUME NEW q \in 1 .. n
      PROVE  (x + q) % n = (Bump(c, x) + (q - 1)) % n
  <2>1. q \in 0 .. n /\ q - 1 \in 0 .. n BY <1>1
  <2>2. (x + q) % n = IF x + q < n THEN x + q ELSE x + q - n BY <1>4, <2>1
  <2>3. (Bump(c, x) + (q - 1)) % n
          = IF Bump(c, x) + (q - 1) < n THEN Bump(c, x) + (q - 1) ELSE Bump(c, x) + (q - 1) - n
    BY <1>5, <2>1
  <2> QED BY <1>1, <1>2, <2>2, <2>3
<1> QED BY <1>3, <1>6, <1>7, <1>8 DEF n

LEMMA Behind ==
  ASSUME NEW n \in Nat, n > 0, NEW x \in 0 .. n - 1, NEW k \in 0 .. n - 1
  PROVE  (k + n - x) % n = IF k < x THEN k + n - x ELSE k - x
<1>1. k + n - x \in Nat /\ k + n - x < 2 * n OBVIOUS
<1>2. (k + n - x) % n = IF k + n - x < n THEN k + n - x ELSE k + n - x - n
  BY <1>1, ModuloNat
<1> QED BY <1>2

(* A value joins a ring that is not full. *)
LEMMA PushRing ==
  ASSUME NEW c \in Chans, NEW h \in ChanState(c), Ring(h, c), h.qcount < Cap[c],
         NEW v \in Procs, NEW h2,
         h2.buf = [h.buf EXCEPT ![h.sendx] = v], h2.sendx = Bump(c, h.sendx),
         h2.recvx = h.recvx, h2.qcount = h.qcount + 1
  PROVE  Ring(h2, c) /\ h2.buf \in [0 .. Cap[c] - 1 -> Procs \cup {NoVal}] /\ h2.sendx \in Nat
<1> DEFINE n == Cap[c]
           x == h.recvx
           q == h.qcount
<1>1. /\ n \in Nat /\ x \in Nat /\ q \in Nat /\ q < n /\ n > 0
      /\ h.buf \in [0 .. n - 1 -> Procs \cup {NoVal}]
  BY ChanAssumption DEF ChanState
<1>2. /\ x < n /\ h.sendx = (x + q) % n
      /\ \A k \in 0 .. n - 1 : h.buf[k] # NoVal <=> (k + n - x) % n < q
  BY <1>1 DEF Ring
<1>3. h2.sendx = (x + (q + 1)) % n
  <2>1. q \in 0 .. n - 1 BY <1>1
  <2>2. x \in Nat /\ x < Cap[c] /\ q \in 0 .. Cap[c] - 1 BY <1>1, <1>2, <2>1
  <2> HIDE DEF x, q
  <2>3. Bump(c, (x + q) % Cap[c]) = (x + (q + 1)) % Cap[c]
    <3>1. \A k \in 0 .. Cap[c] - 1 : Bump(c, (x + k) % Cap[c]) = (x + (k + 1)) % Cap[c]
      BY <2>2, BumpModulo
    <3> QED BY <2>2, <3>1
  <2> QED BY <1>2, <2>3 DEF x, q
<1>4. v # NoVal BY ChanAssumption
<1> HIDE DEF n, x, q
<1>14. n \in Nat /\ x \in Nat /\ q \in Nat /\ q < n /\ n > 0 /\ x < n
  BY <1>1, <1>2
<1>5. x + q \in Nat /\ x + q < 2 * n BY <1>14
<1>6. h.sendx = IF x + q < n THEN x + q ELSE x + q - n
  <2>1. (x + q) % n = IF x + q < n THEN x + q ELSE x + q - n BY <1>14, <1>5, ModuloNat
  <2>2. h.sendx = (x + q) % n BY <1>2
  <2> QED BY <2>1, <2>2
<1>7. \A k \in 0 .. n - 1 : h2.buf[k] # NoVal <=> (k + n - x) % n < q + 1
  <2> SUFFICES ASSUME NEW k \in 0 .. n - 1
               PROVE  h2.buf[k] # NoVal <=> (k + n - x) % n < q + 1
    OBVIOUS
  <2> DEFINE m == (k + n - x) % n
  <2>1. m = IF k < x THEN k + n - x ELSE k - x
    <3>1. x \in 0 .. n - 1 BY <1>14
    <3> QED BY <1>14, <3>1, Behind
  <2>5. h.buf[k] # NoVal <=> m < q BY <1>2
  <2> HIDE DEF m
  <2>2. m = q <=> k = h.sendx BY <1>14, <1>6, <2>1
  <2>3. m \in Nat BY <1>14, <2>1
  <2>4. h2.buf[k] = IF k = h.sendx THEN v ELSE h.buf[k] BY <1>1
  <2>6. h2.buf[k] # NoVal <=> m < q \/ m = q BY <1>4, <2>2, <2>4, <2>5
  <2>7. m < q \/ m = q <=> m < q + 1 BY <1>14, <2>3
  <2> QED BY <2>6, <2>7 DEF m
<1>8. h2.sendx \in Nat
  <2>1. h.sendx \in Nat /\ h.sendx < n BY <1>14, <1>6
  <2> QED BY <2>1, BumpModulo DEF n
<1>9. h2.buf \in [0 .. n - 1 -> Procs \cup {NoVal}] BY <1>1
<1>10. h2.qcount = q + 1 /\ h2.recvx = x BY DEF q, x
<1>11. q + 1 <= n BY <1>14
<1>12. /\ h2.qcount <= n /\ h2.recvx < n /\ h2.sendx = (h2.recvx + h2.qcount) % n
       /\ \A k \in 0 .. n - 1 : h2.buf[k] # NoVal <=> (k + n - h2.recvx) % n < h2.qcount
  BY <1>2, <1>3, <1>7, <1>10, <1>11
<1>13. ~(n = 0) /\ n > 0 BY <1>14
<1> QED BY <1>8, <1>9, <1>12, <1>13 DEF Ring, n

(* A value leaves a ring that is not empty. *)
LEMMA PopRing ==
  ASSUME NEW c \in Chans, NEW h \in ChanState(c), Ring(h, c), h.qcount > 0, NEW h2,
         h2.buf = [h.buf EXCEPT ![h.recvx] = NoVal], h2.recvx = Bump(c, h.recvx),
         h2.sendx = h.sendx, h2.qcount = h.qcount - 1
  PROVE  /\ Ring(h2, c) /\ h2.buf \in [0 .. Cap[c] - 1 -> Procs \cup {NoVal}]
         /\ h2.recvx \in Nat /\ h2.qcount \in Nat
         /\ h.buf[h.recvx] \in Procs
<1> DEFINE n == Cap[c]
           x == h.recvx
           q == h.qcount
           y == Bump(c, x)
<1>1. /\ n \in Nat /\ x \in Nat /\ q \in Nat /\ q <= n /\ q > 0 /\ n > 0
      /\ h.buf \in [0 .. n - 1 -> Procs \cup {NoVal}]
  BY ChanAssumption DEF ChanState, Ring
<1>2. /\ x < n /\ h.sendx = (x + q) % n
      /\ \A k \in 0 .. n - 1 : h.buf[k] # NoVal <=> (k + n - x) % n < q
  BY <1>1 DEF Ring
<1>3. /\ y \in Nat /\ y < n /\ h.sendx = (y + (q - 1)) % n
      /\ y = IF x + 1 = n THEN 0 ELSE x + 1
  <2>1. q \in 1 .. n BY <1>1
  <2>2. x \in Nat /\ x < Cap[c] /\ q \in 1 .. Cap[c] BY <1>1, <1>2, <2>1
  <2> HIDE DEF x, q
  <2>3. /\ \A k \in 1 .. Cap[c] : (x + k) % Cap[c] = (Bump(c, x) + (k - 1)) % Cap[c]
        /\ Bump(c, x) \in Nat /\ Bump(c, x) < Cap[c]
    BY <2>2, BumpModulo
  <2>4. (x + q) % Cap[c] = (Bump(c, x) + (q - 1)) % Cap[c] BY <2>2, <2>3
  <2> QED BY <1>2, <2>3, <2>4 DEF Bump, x, q
<1> HIDE DEF n, x, q, y
<1>12. /\ n \in Nat /\ x \in Nat /\ y \in Nat /\ q \in Nat
       /\ q <= n /\ q > 0 /\ n > 0 /\ x < n /\ y < n
       /\ y = IF x + 1 = n THEN 0 ELSE x + 1
  BY <1>1, <1>2, <1>3
<1>13. x \in 0 .. n - 1 /\ y \in 0 .. n - 1 BY <1>12
<1>4. \A k \in 0 .. n - 1 : h2.buf[k] # NoVal <=> (k + n - y) % n < q - 1
  <2> SUFFICES ASSUME NEW k \in 0 .. n - 1
               PROVE  h2.buf[k] # NoVal <=> (k + n - y) % n < q - 1
    OBVIOUS
  <2> DEFINE m == (k + n - x) % n
             l == (k + n - y) % n
  <2>1. m = IF k < x THEN k + n - x ELSE k - x BY <1>12, <1>13, Behind
  <2>2. l = IF k < y THEN k + n - y ELSE k - y BY <1>12, <1>13, Behind
  <2>3. h2.buf[k] = IF k = x THEN NoVal ELSE h.buf[k] BY <1>1 DEF x
  <2>6. h.buf[k] # NoVal <=> m < q BY <1>2
  <2> HIDE DEF m, l
  <2>4. CASE k = x
    <3>1. l = n - 1 BY <1>12, <2>2, <2>4
    <3>2. ~(l < q - 1) BY <1>12, <3>1
    <3> QED BY <2>3, <2>4, <3>2 DEF l
  <2>5. CASE k # x
    <3>1. m \in Nat /\ l = m - 1 BY <1>12, <2>1, <2>2, <2>5
    <3>2. m < q <=> l < q - 1 BY <1>12, <3>1
    <3> QED BY <2>3, <2>5, <2>6, <3>2 DEF l
  <2> QED BY <2>4, <2>5
<1>5. h2.buf \in [0 .. n - 1 -> Procs \cup {NoVal}] BY <1>1
<1>6. h.buf[x] \in Procs
  <2>1. (x + n - x) % n = 0
    <3>1. (x + n - x) % n = IF x < x THEN x + n - x ELSE x - x BY <1>12, <1>13, Behind
    <3> QED BY <1>12, <3>1
  <2>3. h.buf[x] # NoVal
    <3>1. h.buf[x] # NoVal <=> (x + n - x) % n < q BY <1>2, <1>13
    <3> QED BY <1>12, <2>1, <3>1
  <2> QED BY <1>1, <1>13, <2>3
<1>7. h2.qcount = q - 1 /\ h2.recvx = y BY DEF q, y, x
<1>8. q - 1 <= n /\ q - 1 \in Nat BY <1>12
<1>9. /\ h2.qcount <= n /\ h2.recvx < n /\ h2.sendx = (h2.recvx + h2.qcount) % n
      /\ \A k \in 0 .. n - 1 : h2.buf[k] # NoVal <=> (k + n - h2.recvx) % n < h2.qcount
  BY <1>3, <1>4, <1>7, <1>8
<1>10. h2.recvx \in Nat /\ h2.qcount \in Nat BY <1>3, <1>7, <1>8
<1>11. ~(n = 0) /\ n > 0 BY <1>12
<1> QED BY <1>5, <1>6, <1>9, <1>10, <1>11 DEF Ring, n, x

(* The head of a full ring is taken, and another value takes its slot. *)
LEMMA RotateRing ==
  ASSUME NEW c \in Chans, NEW h \in ChanState(c), Ring(h, c), Cap[c] > 0, h.qcount = Cap[c],
         NEW v \in Procs, NEW h2,
         h2.buf = [h.buf EXCEPT ![h.recvx] = v], h2.recvx = Bump(c, h.recvx),
         h2.sendx = Bump(c, h.recvx), h2.qcount = h.qcount
  PROVE  /\ Ring(h2, c) /\ h2.buf \in [0 .. Cap[c] - 1 -> Procs \cup {NoVal}]
         /\ h2.recvx \in Nat /\ h2.sendx \in Nat
         /\ h.buf[h.recvx] \in Procs
<1> DEFINE n == Cap[c]
           x == h.recvx
           y == Bump(c, x)
<1>1. /\ n \in Nat /\ x \in Nat /\ n > 0 /\ h.qcount = n
      /\ h.buf \in [0 .. n - 1 -> Procs \cup {NoVal}]
  BY ChanAssumption DEF ChanState
<1>2. x < n /\ \A k \in 0 .. n - 1 : h.buf[k] # NoVal <=> (k + n - x) % n < n
  BY <1>1 DEF Ring
<1>3. y \in Nat /\ y < n BY <1>1, <1>2, BumpModulo
<1> HIDE DEF n, x, y
<1>15. n \in Nat /\ n > 0 /\ y \in Nat /\ y < n BY <1>1, <1>3
<1>4. y = (y + n) % n
  <2>1. y + n \in Nat /\ y + n < 2 * n /\ ~(y + n < n) /\ y + n - n = y BY <1>15
  <2>2. (y + n) % n = IF y + n < n THEN y + n ELSE y + n - n BY <1>15, <2>1, ModuloNat
  <2> QED BY <2>1, <2>2
<1>5. \A k, z \in 0 .. n - 1 : (k + n - z) % n < n
  <2> SUFFICES ASSUME NEW k \in 0 .. n - 1, NEW z \in 0 .. n - 1 PROVE (k + n - z) % n < n
    OBVIOUS
  <2>1. (k + n - z) % n = IF k < z THEN k + n - z ELSE k - z BY <1>15, Behind
  <2> QED BY <1>15, <2>1
<1>6. x \in 0 .. n - 1 /\ y \in 0 .. n - 1 BY <1>1, <1>2, <1>3
<1>7. \A k \in 0 .. n - 1 : h.buf[k] # NoVal /\ h.buf[k] \in Procs
  BY <1>1, <1>2, <1>5, <1>6
<1>8. \A k \in 0 .. n - 1 : h2.buf[k] # NoVal
  BY <1>1, <1>7, ChanAssumption
<1>9. h2.buf \in [0 .. n - 1 -> Procs \cup {NoVal}] BY <1>1
<1>10. h2.qcount = n /\ h2.recvx = y /\ h2.sendx = y BY <1>1 DEF y, x
<1>11. n <= n BY <1>1
<1>12. /\ h2.qcount <= n /\ h2.recvx < n /\ h2.sendx = (h2.recvx + h2.qcount) % n
       /\ \A k \in 0 .. n - 1 : h2.buf[k] # NoVal <=> (k + n - h2.recvx) % n < h2.qcount
  BY <1>3, <1>4, <1>5, <1>6, <1>8, <1>10, <1>11
<1>13. h2.recvx \in Nat /\ h2.sendx \in Nat /\ h.buf[x] \in Procs BY <1>3, <1>6, <1>7, <1>10
<1>14. ~(n = 0) /\ n > 0 BY <1>1
<1> QED BY <1>9, <1>12, <1>13, <1>14 DEF Ring, n, x

-----------------------------------------------------------------------------
(* How the updates of a channel change it *)

(* One channel is replaced. *)
LEMMA PutFacts ==
  ASSUME NEW h, Typed(h), NEW c \in Chans, NEW r \in ChanState(c)
  PROVE  /\ Typed([h EXCEPT ![c] = r])
         /\ [h EXCEPT ![c] = r][c] = r
         /\ \A d \in Chans : d # c => [h EXCEPT ![c] = r][d] = h[d]
<1> DEFINE h2 == [h EXCEPT ![c] = r]
<1>1. DOMAIN h2 = Chans /\ h2[c] = r /\ \A d \in Chans : d # c => h2[d] = h[d]
  BY DEF Typed
<1>2. h2 = [d \in Chans |-> h2[d]] BY <1>1 DEF Typed
<1> HIDE DEF h2
<1>3. Typed(h2) BY <1>1, <1>2 DEF Typed
<1> QED BY <1>1, <1>3 DEF h2

(* A queue is replaced. *)
WithRecvq(h, c, q) == [h EXCEPT ![c].recvq = q]
WithSendq(h, c, q) == [h EXCEPT ![c].sendq = q]

LEMMA SetRecvq ==
  ASSUME NEW h, Typed(h), NEW c \in Chans, NEW q \in Seq(Entry)
  PROVE  /\ Typed(WithRecvq(h, c, q))
         /\ \A d \in Chans : d # c => WithRecvq(h, c, q)[d] = h[d]
         /\ WithRecvq(h, c, q)[c].recvq = q
         /\ WithRecvq(h, c, q)[c].sendq = h[c].sendq
         /\ WithRecvq(h, c, q)[c].closed = h[c].closed
         /\ WithRecvq(h, c, q)[c].buf = h[c].buf
         /\ WithRecvq(h, c, q)[c].qcount = h[c].qcount
         /\ WithRecvq(h, c, q)[c].sendx = h[c].sendx
         /\ WithRecvq(h, c, q)[c].recvx = h[c].recvx
<1> DEFINE r == [h[c] EXCEPT !.recvq = q]
<1>1. h[c] \in ChanState(c) BY DEF Typed
<1>2. /\ r \in ChanState(c) /\ r.recvq = q /\ r.sendq = h[c].sendq
      /\ r.closed = h[c].closed /\ r.buf = h[c].buf /\ r.qcount = h[c].qcount
      /\ r.sendx = h[c].sendx /\ r.recvx = h[c].recvx
  BY <1>1 DEF ChanState
<1>3. WithRecvq(h, c, q) = [h EXCEPT ![c] = r] BY DEF WithRecvq
<1> HIDE DEF r
<1>4. /\ Typed([h EXCEPT ![c] = r]) /\ [h EXCEPT ![c] = r][c] = r
      /\ \A d \in Chans : d # c => [h EXCEPT ![c] = r][d] = h[d]
  BY <1>2, PutFacts
<1> QED BY <1>2, <1>3, <1>4

LEMMA SetSendq ==
  ASSUME NEW h, Typed(h), NEW c \in Chans, NEW q \in Seq(Entry)
  PROVE  /\ Typed(WithSendq(h, c, q))
         /\ \A d \in Chans : d # c => WithSendq(h, c, q)[d] = h[d]
         /\ WithSendq(h, c, q)[c].sendq = q
         /\ WithSendq(h, c, q)[c].recvq = h[c].recvq
         /\ WithSendq(h, c, q)[c].closed = h[c].closed
         /\ WithSendq(h, c, q)[c].buf = h[c].buf
         /\ WithSendq(h, c, q)[c].qcount = h[c].qcount
         /\ WithSendq(h, c, q)[c].sendx = h[c].sendx
         /\ WithSendq(h, c, q)[c].recvx = h[c].recvx
<1> DEFINE r == [h[c] EXCEPT !.sendq = q]
<1>1. h[c] \in ChanState(c) BY DEF Typed
<1>2. /\ r \in ChanState(c) /\ r.sendq = q /\ r.recvq = h[c].recvq
      /\ r.closed = h[c].closed /\ r.buf = h[c].buf /\ r.qcount = h[c].qcount
      /\ r.sendx = h[c].sendx /\ r.recvx = h[c].recvx
  BY <1>1 DEF ChanState
<1>3. WithSendq(h, c, q) = [h EXCEPT ![c] = r] BY DEF WithSendq
<1> HIDE DEF r
<1>4. /\ Typed([h EXCEPT ![c] = r]) /\ [h EXCEPT ![c] = r][c] = r
      /\ \A d \in Chans : d # c => [h EXCEPT ![c] = r][d] = h[d]
  BY <1>2, PutFacts
<1> QED BY <1>2, <1>3, <1>4

(* Nothing but the ring of c differs.                                         *)
OtherwiseSame(h2, h, c) ==
  /\ \A d \in Chans : d # c => h2[d] = h[d]
  /\ h2[c].closed = h[c].closed /\ h2[c].recvq = h[c].recvq /\ h2[c].sendq = h[c].sendq

LEMMA PushFacts ==
  ASSUME NEW h, Typed(h), NEW c \in Chans, Ring(h[c], c), h[c].qcount < Cap[c], NEW v \in Procs
  PROVE  LET h2 == Push(h, c, v) IN
         Typed(h2) /\ OtherwiseSame(h2, h, c) /\ Ring(h2[c], c) /\ h2[c].qcount = h[c].qcount + 1
<1> DEFINE r == [h[c] EXCEPT !.buf = [h[c].buf EXCEPT ![h[c].sendx] = v],
                             !.sendx = Bump(c, h[c].sendx), !.qcount = h[c].qcount + 1]
<1>1. h[c] \in ChanState(c) BY DEF Typed
<1>2. /\ r.buf = [h[c].buf EXCEPT ![h[c].sendx] = v] /\ r.sendx = Bump(c, h[c].sendx)
      /\ r.recvx = h[c].recvx /\ r.qcount = h[c].qcount + 1
      /\ r.closed = h[c].closed /\ r.recvq = h[c].recvq /\ r.sendq = h[c].sendq
  BY <1>1 DEF ChanState
<1>3. Push(h, c, v) = [h EXCEPT ![c] = r] BY DEF Push
<1> HIDE DEF r
<1>4. Ring(r, c) /\ r.buf \in [0 .. Cap[c] - 1 -> Procs \cup {NoVal}] /\ r.sendx \in Nat
  BY <1>1, <1>2, PushRing
<1>5. r \in ChanState(c)
  <2> DEFINE b == [h[c].buf EXCEPT ![h[c].sendx] = v]
             y == Bump(c, h[c].sendx)
             z == h[c].qcount + 1
  <2>1. b \in [0 .. Cap[c] - 1 -> Procs \cup {NoVal}] /\ y \in Nat /\ z \in Nat
    BY <1>1, <1>2, <1>4 DEF ChanState
  <2> HIDE DEF b, y, z
  <2>3. [h[c] EXCEPT !.buf = b, !.sendx = y, !.qcount = z] \in ChanState(c) BY <1>1, <2>1 DEF ChanState
  <2> QED BY <2>3 DEF r, b, y, z
<1> DEFINE h2 == [h EXCEPT ![c] = r]
<1>6. Typed(h2) /\ h2[c] = r /\ \A d \in Chans : d # c => h2[d] = h[d]
  BY <1>5, PutFacts
<1> HIDE DEF h2
<1>7. Typed(h2) /\ OtherwiseSame(h2, h, c) /\ Ring(h2[c], c) /\ h2[c].qcount = h[c].qcount + 1
  BY <1>2, <1>4, <1>6 DEF OtherwiseSame
<1> QED BY <1>3, <1>7 DEF h2

LEMMA PopFacts ==
  ASSUME NEW h, Typed(h), NEW c \in Chans, Ring(h[c], c), h[c].qcount > 0
  PROVE  LET h2 == Pop(h, c) IN
         Typed(h2) /\ OtherwiseSame(h2, h, c) /\ Ring(h2[c], c) /\ h2[c].qcount = h[c].qcount - 1
<1> DEFINE r == [h[c] EXCEPT !.buf = [h[c].buf EXCEPT ![h[c].recvx] = NoVal],
                             !.recvx = Bump(c, h[c].recvx), !.qcount = h[c].qcount - 1]
<1>1. h[c] \in ChanState(c) BY DEF Typed
<1>2. /\ r.buf = [h[c].buf EXCEPT ![h[c].recvx] = NoVal] /\ r.recvx = Bump(c, h[c].recvx)
      /\ r.sendx = h[c].sendx /\ r.qcount = h[c].qcount - 1
      /\ r.closed = h[c].closed /\ r.recvq = h[c].recvq /\ r.sendq = h[c].sendq
  BY <1>1 DEF ChanState
<1>3. Pop(h, c) = [h EXCEPT ![c] = r] BY DEF Pop
<1> HIDE DEF r
<1>4. /\ Ring(r, c) /\ r.buf \in [0 .. Cap[c] - 1 -> Procs \cup {NoVal}]
      /\ r.recvx \in Nat /\ r.qcount \in Nat
  BY <1>1, <1>2, PopRing
<1>5. r \in ChanState(c)
  <2> DEFINE b == [h[c].buf EXCEPT ![h[c].recvx] = NoVal]
             y == Bump(c, h[c].recvx)
             z == h[c].qcount - 1
  <2>1. b \in [0 .. Cap[c] - 1 -> Procs \cup {NoVal}] /\ y \in Nat /\ z \in Nat
    BY <1>1, <1>2, <1>4 DEF ChanState
  <2> HIDE DEF b, y, z
  <2>3. [h[c] EXCEPT !.buf = b, !.recvx = y, !.qcount = z] \in ChanState(c) BY <1>1, <2>1 DEF ChanState
  <2> QED BY <2>3 DEF r, b, y, z
<1> DEFINE h2 == [h EXCEPT ![c] = r]
<1>6. Typed(h2) /\ h2[c] = r /\ \A d \in Chans : d # c => h2[d] = h[d]
  BY <1>5, PutFacts
<1> HIDE DEF h2
<1>7. Typed(h2) /\ OtherwiseSame(h2, h, c) /\ Ring(h2[c], c) /\ h2[c].qcount = h[c].qcount - 1
  BY <1>2, <1>4, <1>6 DEF OtherwiseSame
<1> QED BY <1>3, <1>7 DEF h2

LEMMA RotateFacts ==
  ASSUME NEW h, Typed(h), NEW c \in Chans, Ring(h[c], c), Cap[c] > 0, h[c].qcount = Cap[c],
         NEW v \in Procs
  PROVE  LET h2 == Rotate(h, c, v) IN
         /\ Typed(h2) /\ OtherwiseSame(h2, h, c) /\ Ring(h2[c], c)
         /\ h2[c].qcount = h[c].qcount
         /\ h[c].buf[h[c].recvx] \in Procs
<1> DEFINE r == [h[c] EXCEPT !.buf = [h[c].buf EXCEPT ![h[c].recvx] = v],
                             !.recvx = Bump(c, h[c].recvx), !.sendx = Bump(c, h[c].recvx)]
<1>1. h[c] \in ChanState(c) BY DEF Typed
<1>2. /\ r.buf = [h[c].buf EXCEPT ![h[c].recvx] = v] /\ r.recvx = Bump(c, h[c].recvx)
      /\ r.sendx = Bump(c, h[c].recvx) /\ r.qcount = h[c].qcount
      /\ r.closed = h[c].closed /\ r.recvq = h[c].recvq /\ r.sendq = h[c].sendq
  BY <1>1 DEF ChanState
<1>3. Rotate(h, c, v) = [h EXCEPT ![c] = r] BY DEF Rotate
<1> HIDE DEF r
<1>4. /\ Ring(r, c) /\ r.buf \in [0 .. Cap[c] - 1 -> Procs \cup {NoVal}]
      /\ r.recvx \in Nat /\ r.sendx \in Nat /\ h[c].buf[h[c].recvx] \in Procs
  <2> DEFINE z == h[c]
  <2>1. /\ z \in ChanState(c) /\ Ring(z, c) /\ z.qcount = Cap[c]
        /\ r.buf = [z.buf EXCEPT ![z.recvx] = v] /\ r.recvx = Bump(c, z.recvx)
        /\ r.sendx = Bump(c, z.recvx) /\ r.qcount = z.qcount
    BY <1>1, <1>2
  <2> HIDE DEF z
  <2>2. /\ Ring(r, c) /\ r.buf \in [0 .. Cap[c] - 1 -> Procs \cup {NoVal}]
        /\ r.recvx \in Nat /\ r.sendx \in Nat /\ z.buf[z.recvx] \in Procs
    BY <2>1, RotateRing
  <2> QED BY <2>2 DEF z
<1>5. r \in ChanState(c)
  <2> DEFINE b == [h[c].buf EXCEPT ![h[c].recvx] = v]
             y == Bump(c, h[c].recvx)
             z == Bump(c, h[c].recvx)
  <2>1. b \in [0 .. Cap[c] - 1 -> Procs \cup {NoVal}] /\ y \in Nat /\ z \in Nat
    BY <1>1, <1>2, <1>4 DEF ChanState
  <2> HIDE DEF b, y, z
  <2>3. [h[c] EXCEPT !.buf = b, !.recvx = y, !.sendx = z] \in ChanState(c) BY <1>1, <2>1 DEF ChanState
  <2> QED BY <2>3 DEF r, b, y, z
<1> DEFINE h2 == [h EXCEPT ![c] = r]
<1>6. Typed(h2) /\ h2[c] = r /\ \A d \in Chans : d # c => h2[d] = h[d]
  BY <1>5, PutFacts
<1> HIDE DEF h2
<1>7. /\ Typed(h2) /\ OtherwiseSame(h2, h, c) /\ Ring(h2[c], c)
      /\ h2[c].qcount = h[c].qcount /\ h[c].buf[h[c].recvx] \in Procs
  BY <1>2, <1>4, <1>6 DEF OtherwiseSame
<1> QED BY <1>3, <1>7 DEF h2

-----------------------------------------------------------------------------
(* The cases of a call *)

(* What a call knows of the channels it has looked into. *)
LEMMA LookedFacts ==
  ASSUME IInv, NEW h, Looked(h), SameRings(h), NEW c \in Chans
  PROVE  /\ Ring(h[c], c) /\ h[c] \in ChanState(c) /\ h[c].qcount \in 0 .. Cap[c]
         /\ h[c].recvq \in Seq(Entry) /\ h[c].sendq \in Seq(Entry)
         /\ h[c].closed \in BOOLEAN
         /\ h[c].closed => h[c].recvq = << >> /\ h[c].sendq = << >>
         /\ Cap[c] > 0 /\ h[c].qcount > 0      => h[c].recvq = << >>
         /\ Cap[c] > 0 /\ h[c].qcount < Cap[c] => h[c].sendq = << >>
         /\ HasLive(h[c].recvq) => h[c].recvq = hchan[c].recvq
         /\ HasLive(h[c].sendq) => h[c].sendq = hchan[c].sendq
         /\ Cap[c] \in Nat
<1>1. h[c] \in ChanState(c) BY DEF Looked, Typed
<1>2. /\ h[c].qcount \in Nat /\ h[c].closed \in BOOLEAN
      /\ h[c].recvq \in Seq(Entry) /\ h[c].sendq \in Seq(Entry)
  BY <1>1 DEF ChanState
<1>3. Ring(h[c], c) BY DEF IInv, RingInv, Ring, SameRings
<1>4. h[c].qcount <= Cap[c] /\ Cap[c] \in Nat BY <1>3, ChanAssumption DEF Ring
<1>5. Shape(c) BY DEF IInv, QueueInv
<1>6. ~HasLive(<< >>) BY DEF HasLive, LiveAt
<1>7. /\ h[c].closed = hchan[c].closed /\ h[c].qcount = hchan[c].qcount
      /\ h[c].recvq = hchan[c].recvq \/ h[c].recvq = << >>
      /\ h[c].sendq = hchan[c].sendq \/ h[c].sendq = << >>
  BY DEF Looked, SameRings
<1> QED BY <1>1, <1>2, <1>3, <1>4, <1>5, <1>6, <1>7 DEF Shape

(* Looking into one more queue, and finding nobody there to take. *)
LEMMA LookedMore ==
  ASSUME IInv, NEW h, Looked(h), SameRings(h), NEW c \in Chans
  PROVE  /\ ~HasLive(h[c].recvq) =>
              Looked(WithRecvq(h, c, << >>)) /\ SameRings(WithRecvq(h, c, << >>))
         /\ ~HasLive(h[c].sendq) =>
              Looked(WithSendq(h, c, << >>)) /\ SameRings(WithSendq(h, c, << >>))
<1> DEFINE none == << >>
<1>1. none \in Seq(Entry) OBVIOUS
<1>2. Typed(h) BY DEF Looked
<1>5. none = << >> OBVIOUS
<1> HIDE DEF none
<1>3. ASSUME ~HasLive(h[c].recvq)
      PROVE  Looked(WithRecvq(h, c, none)) /\ SameRings(WithRecvq(h, c, none))
  <2> DEFINE h2 == WithRecvq(h, c, none)
  <2>1. /\ Typed(h2) /\ \A d \in Chans : d # c => h2[d] = h[d]
        /\ h2[c].recvq = none /\ h2[c].sendq = h[c].sendq /\ h2[c].closed = h[c].closed
        /\ h2[c].buf = h[c].buf /\ h2[c].qcount = h[c].qcount
        /\ h2[c].sendx = h[c].sendx /\ h2[c].recvx = h[c].recvx
    BY <1>1, <1>2, SetRecvq
  <2> HIDE DEF h2
  <2>2. ~HasLive(hchan[c].recvq) BY <1>3 DEF Looked
  <2>3. Looked(h2) BY <1>5, <2>1, <2>2 DEF Looked
  <2>4. SameRings(h2) BY <2>1 DEF SameRings
  <2> QED BY <2>3, <2>4 DEF h2
<1>4. ASSUME ~HasLive(h[c].sendq)
      PROVE  Looked(WithSendq(h, c, none)) /\ SameRings(WithSendq(h, c, none))
  <2> DEFINE h2 == WithSendq(h, c, none)
  <2>1. /\ Typed(h2) /\ \A d \in Chans : d # c => h2[d] = h[d]
        /\ h2[c].sendq = none /\ h2[c].recvq = h[c].recvq /\ h2[c].closed = h[c].closed
        /\ h2[c].buf = h[c].buf /\ h2[c].qcount = h[c].qcount
        /\ h2[c].sendx = h[c].sendx /\ h2[c].recvx = h[c].recvx
    BY <1>1, <1>2, SetSendq
  <2> HIDE DEF h2
  <2>2. ~HasLive(hchan[c].sendq) BY <1>4 DEF Looked
  <2>3. Looked(h2) BY <1>5, <2>1, <2>2 DEF Looked
  <2>4. SameRings(h2) BY <2>1 DEF SameRings
  <2> QED BY <2>3, <2>4 DEF h2
<1> QED BY <1>3, <1>4, <1>5

(* A call that completes with rings and queues as it found them. *)
LEMMA QuietStep ==
  ASSUME IInv, NEW p \in Procs, pc[p] \in {"lock", "pass1"},
         NEW i, NEW v, NEW ok, NEW h, Complete(p, i, v, ok, h), UNCHANGED << op, lockVars >>,
         Looked(h), SameRings(h)
  PROVE  IInv'
<1>1. \A c \in Chans : /\ Ring(h[c], c)
                       /\ Cap[c] > 0 /\ h[c].qcount > 0      => h[c].recvq = << >>
                       /\ Cap[c] > 0 /\ h[c].qcount < Cap[c] => h[c].sendq = << >>
  BY LookedFacts
<1> QED BY <1>1, CompleteStep

(* send and recv: a partner is dequeued and taken. *)
LEMMA DequeueStep ==
  ASSUME IInv, NEW p \in Procs, pc[p] \in {"lock", "pass1"},
         NEW h, Looked(h), SameRings(h), NEW c \in Chans, NEW dir \in Sides,
         HasLive(QueueAt(h, c, dir)),
         NEW i, NEW v, NEW h2, NEW w \in Procs \cup {NoVal},
         CompleteWith(p, i, v, h2, First(QueueAt(h, c, dir)), w),
         UNCHANGED << op, lockVars >>,
         Typed(h2), Ring(h2[c], c), \A d \in Chans : d # c => h2[d] = h[d],
         h2[c].closed = h[c].closed, h2[c].qcount = h[c].qcount,
         QueueAt(h2, c, dir) = Rest(QueueAt(h, c, dir)),
         \A e \in Sides : e # dir => QueueAt(h2, c, e) = QueueAt(h, c, e)
  PROVE  IInv'
<1> DEFINE q == QueueAt(hchan, c, dir)
<1>1. QueueAt(h, c, dir) = q
  BY LookedFacts DEF QueueAt
<1>2. /\ q \in Seq(Entry) /\ HasLive(q)
      /\ \A j, k \in 1 .. Len(q) : q[j].g = q[k].g => j = k
  BY <1>1, QueueFacts DEF IInv, QueueInv, Rightful
<1>3. \A k \in 1 .. Len(q) : Live(q[k]) <=> q[k].g \in Waiting BY LiveIff DEF IInv
<1> HIDE DEF q
<1>4. /\ First(q) \in Entry /\ Live(First(q)) /\ Occurs(First(q), q)
      /\ \A k \in 1 .. Len(Rest(q)) : Occurs(Rest(q)[k], q) /\ Rest(q)[k].g # First(q).g
      /\ \A j, k \in 1 .. Len(Rest(q)) : Rest(q)[j].g = Rest(q)[k].g => j = k
      /\ \A k \in 1 .. Len(q) :
           Live(q[k]) /\ q[k].g # First(q).g => Occurs(q[k], Rest(q))
  BY <1>2, RestFacts
<1> DEFINE s == First(q)
<1>5. Fewer(q, Rest(q), Waiting \ {s.g}) BY <1>3, <1>4 DEF Fewer
<1>6. \A d \in Chans, e \in Sides : Fewer(QueueAt(hchan, d, e), QueueAt(h, d, e), Waiting)
  BY LookedFewer DEF IInv
<1>7. \A d \in Chans, e \in Sides :
        Fewer(QueueAt(hchan, d, e), QueueAt(h2, d, e), Waiting \ {s.g})
  <2> SUFFICES ASSUME NEW d \in Chans, NEW e \in Sides
               PROVE  Fewer(QueueAt(hchan, d, e), QueueAt(h2, d, e), Waiting \ {s.g})
    OBVIOUS
  <2>1. CASE d = c /\ e = dir BY <1>1, <1>5, <2>1 DEF q
  <2>2. CASE ~(d = c /\ e = dir)
    <3>1. QueueAt(h2, d, e) = QueueAt(h, d, e) BY <2>2 DEF QueueAt
    <3>2. Fewer(QueueAt(hchan, d, e), QueueAt(h, d, e), Waiting) BY <1>6
    <3> QED BY <3>1, <3>2 DEF Fewer
  <2> QED BY <2>1, <2>2
<1>8. \A d \in Chans : h2[d].closed = hchan[d].closed /\ h2[d].qcount = hchan[d].qcount
  BY DEF Looked, SameRings
<1>9. \A d \in Chans : Ring(h2[d], d) BY LookedFacts
<1>10. \A k \in 1 .. Len(QueueAt(h2, c, dir)) : QueueAt(h2, c, dir)[k].g # s.g
  BY <1>1, <1>4
<1>11. /\ s \in Entry /\ Live(s) /\ Occurs(s, QueueAt(hchan, c, dir))
       /\ CompleteWith(p, i, v, h2, s, w)
  BY <1>1, <1>4 DEF q
<1> HIDE DEF s
<1> QED BY <1>7, <1>8, <1>9, <1>10, <1>11, CompleteWithStep

LEMMA AttemptStep ==
  ASSUME IInv, NEW p \in Procs, pc[p] \in {"lock", "pass1"},
         NEW i \in CasesOf(p), op[p].cases[i].dir \in Sides,
         NEW h, Looked(h), SameRings(h), Attempt(p, i, h), UNCHANGED << op, lockVars >>
  PROVE  IInv'
<1> DEFINE c == op[p].cases[i].ch
<1>1. c \in Chans BY CaseFacts DEF IInv
<1>2. \/ AttemptSend(p, i, h, c)
      \/ AttemptRecv(p, i, h, c)
  BY DEF Attempt
<1> HIDE DEF c
<1>3. /\ Ring(h[c], c) /\ h[c].qcount \in 0 .. Cap[c] /\ h[c].closed \in BOOLEAN
      /\ h[c].recvq \in Seq(Entry) /\ h[c].sendq \in Seq(Entry)
      /\ h[c].closed => h[c].recvq = << >> /\ h[c].sendq = << >>
      /\ Cap[c] > 0 /\ h[c].qcount > 0      => h[c].recvq = << >>
      /\ Cap[c] > 0 /\ h[c].qcount < Cap[c] => h[c].sendq = << >>
      /\ HasLive(h[c].recvq) => h[c].recvq = hchan[c].recvq
      /\ HasLive(h[c].sendq) => h[c].sendq = hchan[c].sendq
      /\ Cap[c] \in Nat /\ Typed(h)
  BY <1>1, LookedFacts DEF Looked
<1>4. QueueAt(h, c, "recv") = h[c].recvq /\ QueueAt(h, c, "send") = h[c].sendq
  BY DEF QueueAt
<1>5. ~HasLive(<< >>) BY DEF HasLive, LiveAt
<1>6. << >> \in Seq(Entry) OBVIOUS
<1>7. \A q \in Seq(Entry) : HasLive(q) /\ (q = hchan[c].recvq \/ q = hchan[c].sendq)
        => First(q) \in Entry /\ Rest(q) \in Seq(Entry)
  <2>1. /\ \A j, k \in 1 .. Len(hchan[c].recvq) :
             hchan[c].recvq[j].g = hchan[c].recvq[k].g => j = k
        /\ \A j, k \in 1 .. Len(hchan[c].sendq) :
             hchan[c].sendq[j].g = hchan[c].sendq[k].g => j = k
    BY <1>1 DEF IInv, QueueInv, Rightful, QueueAt, Sides
  <2> QED BY <2>1, RestFacts
<1>8. CASE SendOnClosed(p, i, h, c)
  BY <1>8, QuietStep DEF SendOnClosed
<1>9. CASE SendToReceiver(p, i, h, c)
  <2> DEFINE q == h[c].recvq
             h2 == WithRecvq(h, c, Rest(q))
  <2>1. HasLive(q) /\ CompleteWith(p, i, NoVal, h2, First(q), p)
    BY <1>9 DEF SendToReceiver, WithRecvq
  <2>2. Rest(q) \in Seq(Entry) BY <1>3, <1>7, <2>1
  <2>3. /\ Typed(h2) /\ \A d \in Chans : d # c => h2[d] = h[d]
        /\ h2[c].recvq = Rest(q) /\ h2[c].sendq = h[c].sendq /\ h2[c].closed = h[c].closed
        /\ h2[c].buf = h[c].buf /\ h2[c].qcount = h[c].qcount
        /\ h2[c].sendx = h[c].sendx /\ h2[c].recvx = h[c].recvx
    BY <1>1, <1>3, <2>2, SetRecvq
  <2> HIDE DEF h2
  <2>4. Ring(h2[c], c) BY <1>3, <2>3 DEF Ring
  <2>5. /\ QueueAt(h, c, "recv") = q /\ QueueAt(h2, c, "recv") = Rest(q) /\ "recv" \in Sides
        /\ \A e \in Sides : e # "recv" => QueueAt(h2, c, e) = QueueAt(h, c, e)
    BY <2>3 DEF QueueAt, Sides
  <2> HIDE DEF q
  <2>6. p \in Procs \cup {NoVal} OBVIOUS
  <2> QED BY <1>1, <2>1, <2>3, <2>4, <2>5, <2>6, DequeueStep
<1>10. CASE SendToBuffer(p, i, h, c)
  <2> DEFINE h1 == WithRecvq(h, c, << >>)
             h2 == Push(h1, c, p)
  <2>1. /\ ~h[c].closed /\ ~HasLive(h[c].recvq) /\ h[c].qcount < Cap[c]
        /\ Complete(p, i, NoVal, TRUE, h2)
    BY <1>10 DEF SendToBuffer, WithRecvq
  <2>2. Looked(h1) /\ SameRings(h1) BY <1>1, <2>1, LookedMore
  <2>3. /\ h1[c].recvq = << >> /\ h1[c].sendq = h[c].sendq /\ h1[c].qcount = h[c].qcount
    BY <1>1, <1>3, <1>6, SetRecvq
  <2> HIDE DEF h1
  <2>4. Ring(h1[c], c) /\ Typed(h1) BY <1>1, <2>2, LookedFacts DEF Looked
  <2>5. /\ Typed(h2) /\ OtherwiseSame(h2, h1, c) /\ Ring(h2[c], c)
        /\ h2[c].qcount = h1[c].qcount + 1
    BY <1>1, <2>1, <2>3, <2>4, PushFacts
  <2> HIDE DEF h2
  <2>6. Looked(h2) BY <2>2, <2>5 DEF Looked, OtherwiseSame
  <2>7. \A d \in Chans : /\ Ring(h2[d], d)
                         /\ Cap[d] > 0 /\ h2[d].qcount > 0      => h2[d].recvq = << >>
                         /\ Cap[d] > 0 /\ h2[d].qcount < Cap[d] => h2[d].sendq = << >>
    <3> SUFFICES ASSUME NEW d \in Chans
                 PROVE  /\ Ring(h2[d], d)
                        /\ Cap[d] > 0 /\ h2[d].qcount > 0      => h2[d].recvq = << >>
                        /\ Cap[d] > 0 /\ h2[d].qcount < Cap[d] => h2[d].sendq = << >>
      OBVIOUS
    <3>1. CASE d # c BY <2>2, <2>5, <3>1, LookedFacts DEF OtherwiseSame
    <3>2. CASE d = c BY <1>3, <2>1, <2>3, <2>5, <3>2 DEF OtherwiseSame
    <3> QED BY <3>1, <3>2
  <2> QED BY <2>1, <2>6, <2>7, CompleteStep
<1>11. CASE RecvFromSender(p, i, h, c)
  <2> DEFINE q == h[c].sendq
             s == First(q)
             h1 == WithSendq(h, c, Rest(q))
  <2>1. /\ HasLive(q)
        /\ IF Cap[c] = 0 THEN CompleteWith(p, i, s.g, h1, s, NoVal)
           ELSE CompleteWith(p, i, h[c].buf[h[c].recvx], Rotate(h1, c, s.g), s, NoVal)
    BY <1>11 DEF RecvFromSender, NoSender, WithSendq
  <2>2. Rest(q) \in Seq(Entry) /\ s \in Entry BY <1>3, <1>7, <2>1
  <2>3. /\ Typed(h1) /\ \A d \in Chans : d # c => h1[d] = h[d]
        /\ h1[c].sendq = Rest(q) /\ h1[c].recvq = h[c].recvq /\ h1[c].closed = h[c].closed
        /\ h1[c].buf = h[c].buf /\ h1[c].qcount = h[c].qcount
        /\ h1[c].sendx = h[c].sendx /\ h1[c].recvx = h[c].recvx
    BY <1>1, <1>3, <2>2, SetSendq
  <2>4. s.g \in Procs BY <2>2 DEF Entry
  <2> HIDE DEF h1
  <2>5. Ring(h1[c], c) BY <1>3, <2>3 DEF Ring
  <2>6. /\ QueueAt(h, c, "send") = q /\ QueueAt(h1, c, "send") = Rest(q) /\ "send" \in Sides
        /\ \A e \in Sides : e # "send" => QueueAt(h1, c, e) = QueueAt(h, c, e)
    BY <2>3 DEF QueueAt, Sides
  <2>7. NoVal \in Procs \cup {NoVal} OBVIOUS
  <2> HIDE DEF q
  <2>8. CASE Cap[c] = 0
    <3>1. CompleteWith(p, i, s.g, h1, First(q), NoVal) BY <2>1, <2>8
    <3> QED BY <1>1, <2>1, <2>3, <2>5, <2>6, <2>7, <3>1, DequeueStep
  <2>9. CASE Cap[c] # 0
    <3> DEFINE h2 == Rotate(h1, c, s.g)
    <3>1. CompleteWith(p, i, h[c].buf[h[c].recvx], h2, First(q), NoVal) BY <2>1, <2>9
    <3>2. Cap[c] > 0 /\ h[c].qcount = Cap[c]
      <4>1. h[c].sendq # << >> BY <1>5, <2>1 DEF q
      <4> QED BY <1>3, <2>9, <4>1
    <3>3. /\ Typed(h2) /\ OtherwiseSame(h2, h1, c) /\ Ring(h2[c], c)
          /\ h2[c].qcount = h1[c].qcount
      BY <1>1, <2>3, <2>4, <2>5, <3>2, RotateFacts
    <3> HIDE DEF h2
    <3>4. /\ \A d \in Chans : d # c => h2[d] = h[d]
          /\ h2[c].closed = h[c].closed /\ h2[c].qcount = h[c].qcount
      BY <2>3, <3>3 DEF OtherwiseSame
    <3>5. /\ QueueAt(h2, c, "send") = Rest(q)
          /\ \A e \in Sides : e # "send" => QueueAt(h2, c, e) = QueueAt(h, c, e)
      BY <2>3, <3>3 DEF QueueAt, Sides, OtherwiseSame
    <3> QED BY <1>1, <2>1, <2>6, <2>7, <3>1, <3>3, <3>4, <3>5, DequeueStep
  <2> QED BY <2>8, <2>9
<1>12. ASSUME NoSender(p, h, c)
       PROVE  /\ Looked(LookedAt(p, h, c)) /\ SameRings(LookedAt(p, h, c))
              /\ LookedAt(p, h, c)[c].sendq = << >>
              /\ LookedAt(p, h, c)[c].recvq = h[c].recvq
  <2>1. CASE Looks(p, h, c)
    <3>1. ~HasLive(h[c].sendq) BY <1>12, <2>1 DEF NoSender
    <3>2. LookedAt(p, h, c) = WithSendq(h, c, << >>) BY <2>1 DEF LookedAt, WithSendq
    <3>3. /\ WithSendq(h, c, << >>)[c].sendq = << >>
          /\ WithSendq(h, c, << >>)[c].recvq = h[c].recvq
      BY <1>1, <1>3, <1>6, SetSendq
    <3> QED BY <1>1, <3>1, <3>2, <3>3, LookedMore
  <2>2. CASE ~Looks(p, h, c)
    <3>1. h[c].closed BY <2>2 DEF Looks
    <3>2. LookedAt(p, h, c) = h BY <2>2 DEF LookedAt
    <3> QED BY <1>3, <3>1, <3>2
  <2> QED BY <2>1, <2>2
<1>13. CASE RecvFromBuffer(p, i, h, c)
  <2> DEFINE h1 == LookedAt(p, h, c)
             h2 == Pop(h1, c)
  <2>1. /\ NoSender(p, h, c) /\ h[c].qcount > 0
        /\ Complete(p, i, h[c].buf[h[c].recvx], TRUE, h2)
    BY <1>13 DEF RecvFromBuffer
  <2>2. /\ Looked(h1) /\ SameRings(h1) /\ h1[c].sendq = << >> /\ h1[c].recvq = h[c].recvq
    BY <1>12, <2>1
  <2>3. h1[c].qcount = h[c].qcount BY <1>1, <2>2 DEF SameRings
  <2> HIDE DEF h1
  <2>4. Ring(h1[c], c) /\ Typed(h1) BY <1>1, <2>2, LookedFacts DEF Looked
  <2>5. /\ Typed(h2) /\ OtherwiseSame(h2, h1, c) /\ Ring(h2[c], c)
        /\ h2[c].qcount = h1[c].qcount - 1
    BY <1>1, <2>1, <2>3, <2>4, PopFacts
  <2> HIDE DEF h2
  <2>6. Looked(h2) BY <2>2, <2>5 DEF Looked, OtherwiseSame
  <2>7. \A d \in Chans : /\ Ring(h2[d], d)
                         /\ Cap[d] > 0 /\ h2[d].qcount > 0      => h2[d].recvq = << >>
                         /\ Cap[d] > 0 /\ h2[d].qcount < Cap[d] => h2[d].sendq = << >>
    <3> SUFFICES ASSUME NEW d \in Chans
                 PROVE  /\ Ring(h2[d], d)
                        /\ Cap[d] > 0 /\ h2[d].qcount > 0      => h2[d].recvq = << >>
                        /\ Cap[d] > 0 /\ h2[d].qcount < Cap[d] => h2[d].sendq = << >>
      OBVIOUS
    <3>1. CASE d # c BY <2>2, <2>5, <3>1, LookedFacts DEF OtherwiseSame
    <3>2. CASE d = c BY <1>3, <2>1, <2>2, <2>3, <2>5, <3>2 DEF OtherwiseSame
    <3> QED BY <3>1, <3>2
  <2> QED BY <2>1, <2>6, <2>7, CompleteStep
<1>14. CASE RecvOnClosed(p, i, h, c)
  <2>1. NoSender(p, h, c) /\ Complete(p, i, NoVal, FALSE, LookedAt(p, h, c))
    BY <1>14 DEF RecvOnClosed
  <2>2. Looked(LookedAt(p, h, c)) /\ SameRings(LookedAt(p, h, c)) BY <1>12, <2>1
  <2> QED BY <2>1, <2>2, QuietStep
<1> QED
  BY <1>2, <1>8, <1>9, <1>10, <1>11, <1>13, <1>14 DEF AttemptSend, AttemptRecv

LEMMA CommunicateStep ==
  ASSUME IInv, NEW p \in Procs, Communicate(p)
  PROVE  IInv'
<1>1. /\ pc[p] = "lock" /\ CaseOf(p).dir \in Sides /\ Attempt(p, 1, hchan)
      /\ UNCHANGED << op, lockVars >>
  BY DEF Communicate, Locked, Sides
<1>2. op[p] # NoOp /\ ~op[p].select BY <1>1 DEF IInv, OpInv, PlainPCs
<1>3. 1 \in CasesOf(p) /\ op[p].cases[1].dir \in Sides BY <1>1, <1>2, CaseFacts DEF IInv, CaseOf
<1>4. Looked(hchan) /\ SameRings(hchan) BY DEF IInv, TypeInv, Looked, Typed, SameRings
<1> QED BY <1>1, <1>3, <1>4, AttemptStep

LEMMA GiveUpStep ==
  ASSUME IInv, NEW p \in Procs, GiveUp(p)
  PROVE  IInv'
<1>1. /\ pc[p] = "lock" /\ CaseOf(p).dir \in Sides /\ ~Ready(CaseOf(p))
      /\ Complete(p, 0, NoVal, TRUE, LookInto({CaseOf(p)})) /\ UNCHANGED << op, lockVars >>
  BY DEF GiveUp, Locked, Sides
<1>2. op[p] # NoOp /\ ~op[p].select BY <1>1 DEF IInv, OpInv, PlainPCs
<1>3. CasesOf(p) = {1} BY <1>2, CaseFacts DEF IInv
<1>4. Looked(LookInto({CaseOf(p)})) /\ SameRings(LookInto({CaseOf(p)}))
  <2> DEFINE X == {CaseOf(p)}
  <2>1. \A x \in X : \E i \in CasesOf(p) : x = op[p].cases[i] /\ ~Ready(x)
    BY <1>1, <1>3 DEF CaseOf
  <2>2. \A i \in CasesOf(p) : op[p].cases[i].dir \in Sides BY <1>1, <1>3 DEF CaseOf
  <2> HIDE DEF X
  <2>3. Looked(LookInto(X)) /\ SameRings(LookInto(X)) BY <2>1, <2>2, LookIntoLooked DEF IInv
  <2> QED BY <2>3 DEF X
<1> QED BY <1>1, <1>4, QuietStep

LEMMA CloseAgainStep ==
  ASSUME IInv, NEW p \in Procs, CloseAgain(p)
  PROVE  IInv'
<1>1. /\ pc[p] = "lock" /\ Complete(p, 1, NoVal, FALSE, hchan) /\ UNCHANGED << op, lockVars >>
  BY DEF CloseAgain, Locked
<1>2. Looked(hchan) /\ SameRings(hchan) BY DEF IInv, TypeInv, Looked, Typed, SameRings
<1> QED BY <1>1, <1>2, QuietStep

(* Pass 1 of a select looks into the queues of cases that are not ready.      *)
LEMMA NotReadyLooked ==
  ASSUME IInv, NEW p \in Procs, pc[p] = "pass1", NEW V \in SUBSET NotReady(p)
  PROVE  /\ Looked(LookInto({op[p].cases[j] : j \in V}))
         /\ SameRings(LookInto({op[p].cases[j] : j \in V}))
         /\ \A i \in CasesOf(p) : op[p].cases[i].dir \in Sides
<1> DEFINE X == {op[p].cases[j] : j \in V}
<1>1. op[p].select BY DEF IInv, OpInv, SelectPCs
<1>2. \A i \in CasesOf(p) : op[p].cases[i].dir \in Sides BY <1>1, CaseFacts DEF IInv
<1>3. \A x \in X : \E i \in CasesOf(p) : x = op[p].cases[i] /\ ~Ready(x) BY DEF NotReady
<1> HIDE DEF X
<1>4. Looked(LookInto(X)) /\ SameRings(LookInto(X)) BY <1>2, <1>3, LookIntoLooked DEF IInv
<1> QED BY <1>2, <1>4 DEF X

LEMMA SelectCaseStep ==
  ASSUME IInv, NEW p \in Procs, SelectCase(p)
  PROVE  IInv'
<1>1. PICK i \in CasesOf(p) \ NotReady(p), V \in SUBSET NotReady(p) :
        Attempt(p, i, LookInto({op[p].cases[j] : j \in V}))
  BY DEF SelectCase
<1>2. pc[p] = "pass1" /\ UNCHANGED << op, lockVars >> BY DEF SelectCase
<1> DEFINE h == LookInto({op[p].cases[j] : j \in V})
<1>3. Looked(h) /\ SameRings(h) /\ op[p].cases[i].dir \in Sides
  BY <1>2, NotReadyLooked
<1>4. Attempt(p, i, h) /\ i \in CasesOf(p) BY <1>1
<1> HIDE DEF h
<1> QED BY <1>2, <1>3, <1>4, AttemptStep

LEMMA SelectDefaultStep ==
  ASSUME IInv, NEW p \in Procs, SelectDefault(p)
  PROVE  IInv'
<1> DEFINE h == LookInto({op[p].cases[j] : j \in NotReady(p)})
<1>1. /\ pc[p] = "pass1" /\ UNCHANGED << op, lockVars >> /\ NotReady(p) = CasesOf(p)
      /\ Complete(p, 0, NoVal, TRUE, LookInto(CaseSet(p)))
  BY DEF SelectDefault
<1>2. Complete(p, 0, NoVal, TRUE, h) BY <1>1 DEF CaseSet
<1>3. Looked(h) /\ SameRings(h)
  <2>1. NotReady(p) \in SUBSET NotReady(p) OBVIOUS
  <2> QED BY <1>1, <2>1, NotReadyLooked
<1> HIDE DEF h
<1> QED BY <1>1, <1>2, <1>3, QuietStep

-----------------------------------------------------------------------------
(* Parking *)

(* A call none of whose cases is ready joins the queues of all of them.       *)
LEMMA ParkStep ==
  ASSUME IInv, NEW p \in Procs, pc[p] \in {"lock", "pass1"},
         pc' = [pc EXCEPT ![p] = "parked"],
         UNCHANGED << op, param, success, elem, selectDone, glist >>,
         held' \in [Procs -> SUBSET Chans], parking' \in [Procs -> SUBSET Chans],
         NEW h, Looked(h), SameRings(h), Typed(hchan'), SameRings(hchan'),
         \A c \in Chans : hchan'[c].closed = hchan[c].closed,
         \A i \in CasesOf(p) :
           LET x == op[p].cases[i] IN
           /\ x.dir \in Sides /\ ~Ready(x)
           /\ IF x.dir = "send" THEN h[x.ch].recvq = << >> ELSE h[x.ch].sendq = << >>,
         \A c \in Chans, dir \in Sides :
           /\ \A i \in CasesOf(p) : op[p].cases[i] = Case(c, dir) =>
                QueueAt(hchan', c, dir) = Append(QueueAt(h, c, dir), Sudog(p, i))
           /\ (\A i \in CasesOf(p) : op[p].cases[i] # Case(c, dir)) =>
                QueueAt(hchan', c, dir) = QueueAt(h, c, dir)
  PROVE  TypeInv' /\ WakeInv' /\ QueueInv' /\ RingInv'
<1>0. /\ pc'[p] = "parked" /\ \A g \in Procs : g # p => pc'[g] = pc[g]
      /\ pc' \in [Procs -> PCs]
  BY DEF IInv, TypeInv, PCs
<1>1. /\ param[p] = 0 /\ glist[p] = {} /\ p \notin Waiting /\ ~selectDone[p]
      /\ \A q \in Procs : p \notin glist[q]
      /\ \A c \in Chans, dir \in Sides :
           \A k \in 1 .. Len(QueueAt(hchan, c, dir)) : QueueAt(hchan, c, dir)[k].g # p
  BY Caller DEF TakenPCs
<1>2. TypeInv' BY <1>0 DEF IInv, TypeInv, Typed
<1>3. WakeInv'
  <2>1. ASSUME NEW g \in Procs PROVE Wake(g)'
    <3>1. Wake(g) BY DEF IInv, WakeInv
    <3>2. CasesOf(g)' = CasesOf(g) BY DEF CasesOf
    <3>3. param[g] # 0 => hchan'[op[g].cases[param[g]].ch].closed
                            = hchan[op[g].cases[param[g]].ch].closed
      BY <3>1, CaseFacts DEF IInv, Wake
    <3>4. CASE g = p
      BY <1>0, <1>1, <3>1, <3>2, <3>4 DEF Wake, TakenPCs
    <3>5. CASE g # p
      BY <1>0, <3>1, <3>2, <3>3, <3>5 DEF Wake
    <3> QED BY <3>4, <3>5
  <2> QED BY <2>1 DEF IInv, WakeInv
<1>4. ASSUME NEW c \in Chans, NEW dir \in Sides
      PROVE  /\ QueueAt(h, c, dir) \in Seq(Entry)
             /\ Fewer(QueueAt(hchan, c, dir), QueueAt(h, c, dir), Waiting)
             /\ Rightful(QueueAt(hchan, c, dir), c, dir)
             /\ \A k \in 1 .. Len(QueueAt(h, c, dir)) :
                  QueueAt(h, c, dir)[k] \in Entry /\ QueueAt(h, c, dir)[k].g \in Procs \ {p}
  <2> DEFINE q == QueueAt(hchan, c, dir)
             q1 == QueueAt(h, c, dir)
  <2>1. q1 \in Seq(Entry) /\ Fewer(q, q1, Waiting) BY LookedFewer DEF IInv
  <2>2. \A k \in 1 .. Len(q) : q[k] \in Entry /\ q[k].g \in Procs /\ q[k].g # p
    BY <1>1, QueueFacts DEF IInv
  <2> HIDE DEF q, q1
  <2>3. \A k \in 1 .. Len(q1) : q1[k] \in Entry /\ q1[k].g \in Procs \ {p}
    BY <2>1, <2>2 DEF Fewer, Occurs
  <2>4. Rightful(q, c, dir) BY DEF IInv, QueueInv, q
  <2> QED BY <2>1, <2>3, <2>4 DEF q, q1
<1>5. ASSUME NEW c \in Chans, NEW dir \in Sides
      PROVE  Rightful(QueueAt(hchan, c, dir), c, dir)'
  <2> DEFINE q == QueueAt(hchan, c, dir)
             q1 == QueueAt(h, c, dir)
             q2 == QueueAt(hchan', c, dir)
             R(s) == /\ s.i \in DOMAIN op[s.g].cases /\ op[s.g].cases[s.i] = Case(c, dir)
                     /\ pc'[s.g] \in QueuedPCs
                     /\ ~op[s.g].select => pc'[s.g] = "parked" /\ param[s.g] = 0
  <2>1. ASSUME NEW k \in 1 .. Len(q1) PROVE R(q1[k]) /\ q1[k].g # p
    <3>1. /\ Fewer(q, q1, Waiting) /\ Rightful(q, c, dir) /\ q1[k].g \in Procs \ {p}
      BY <1>4
    <3> HIDE DEF q, q1
    <3>2. PICK j \in 1 .. Len(q) : q[j] = q1[k] BY <3>1 DEF Fewer, Occurs
    <3>3. /\ q[j].i \in CasesOf(q[j].g) /\ op[q[j].g].cases[q[j].i] = Case(c, dir)
          /\ pc[q[j].g] \in QueuedPCs
          /\ ~op[q[j].g].select => pc[q[j].g] = "parked" /\ param[q[j].g] = 0
      BY <3>1 DEF Rightful
    <3> QED BY <1>0, <3>1, <3>2, <3>3 DEF CasesOf
  <2>2. /\ q1 \in Seq(Entry)
        /\ \A j, k \in 1 .. Len(q1) : q1[j].g = q1[k].g => j = k
    BY <1>4 DEF Fewer
  <2>3. /\ \A i \in CasesOf(p) : op[p].cases[i] = Case(c, dir) => q2 = Append(q1, Sudog(p, i))
        /\ (\A i \in CasesOf(p) : op[p].cases[i] # Case(c, dir)) => q2 = q1
    OBVIOUS
  <2> HIDE DEF q, q1, q2
  <2>4. /\ \A k \in 1 .. Len(q2) : R(q2[k])
        /\ \A j, k \in 1 .. Len(q2) : q2[j].g = q2[k].g => j = k
    <3>1. CASE \A i \in CasesOf(p) : op[p].cases[i] # Case(c, dir)
      <4>1. q2 = q1 BY <2>3, <3>1
      <4> HIDE DEF R
      <4> QED BY <2>1, <2>2, <4>1
    <3>2. ASSUME NEW i \in CasesOf(p), op[p].cases[i] = Case(c, dir)
          PROVE  /\ \A k \in 1 .. Len(q2) : R(q2[k])
                 /\ \A j, k \in 1 .. Len(q2) : q2[j].g = q2[k].g => j = k
      <4> DEFINE s == Sudog(p, i)
      <4>1. s.g = p /\ s.i = i BY DEF Sudog
      <4>2. i \in Nat BY CaseFacts DEF IInv
      <4>3. s \in Entry BY <4>2 DEF Entry, Sudog
      <4>4. R(s) BY <1>0, <1>1, <3>2, <4>1 DEF CasesOf, QueuedPCs
      <4>5. q2 = Append(q1, s) BY <2>3, <3>2
      <4> HIDE DEF s, R
      <4>6. /\ Len(q1) \in Nat /\ Len(q2) = Len(q1) + 1 /\ q2[Len(q2)] = s
            /\ \A k \in 1 .. Len(q1) : q2[k] = q1[k]
        BY <2>2, <4>3, <4>5
      <4>7. \A k \in 1 .. Len(q2) : k \in 1 .. Len(q1) \/ k = Len(q2) BY <4>6
      <4>8. \A k \in 1 .. Len(q2) : R(q2[k]) BY <2>1, <4>4, <4>6, <4>7
      <4>9. \A j, k \in 1 .. Len(q2) : q2[j].g = q2[k].g => j = k
        BY <2>1, <2>2, <4>1, <4>6, <4>7
      <4> QED BY <4>8, <4>9
    <3> QED BY <3>1, <3>2
  <2> QED BY <2>4 DEF Rightful, q2, CasesOf
<1>6. ASSUME NEW c \in Chans, NEW dir \in Sides, NEW s, Occurs(s, QueueAt(h, c, dir))
      PROVE  Occurs(s, QueueAt(hchan', c, dir))
  <2> DEFINE q1 == QueueAt(h, c, dir)
             q2 == QueueAt(hchan', c, dir)
  <2>1. q1 \in Seq(Entry) BY <1>4
  <2>2. \A i \in CasesOf(p) : Sudog(p, i) \in Entry
    BY CaseFacts DEF IInv, Entry, Sudog
  <2>3. q2 = q1 \/ \E i \in CasesOf(p) : q2 = Append(q1, Sudog(p, i)) OBVIOUS
  <2> HIDE DEF q1, q2
  <2>4. \A t \in Entry : Occurs(s, Append(q1, t))
    BY <1>6, <2>1, AppendLast DEF q1
  <2> QED BY <1>6, <2>2, <2>3, <2>4 DEF q1, q2
<1>7. Present'
  <2> SUFFICES ASSUME NEW g \in Procs, Parked(g)', NEW i \in CasesOf(g)
               PROVE  Occurs(Sudog(g, i), QueueAt(hchan', op[g].cases[i].ch, op[g].cases[i].dir))
    BY DEF Present, CasesOf, Sudog
  <2> DEFINE x == op[g].cases[i]
  <2>1. CASE g = p
    <3>1. /\ x.ch \in Chans /\ x.dir \in Sides /\ x = Case(x.ch, x.dir) /\ i \in Nat
      BY <2>1, CaseFacts DEF IInv
    <3>2. QueueAt(hchan', x.ch, x.dir) = Append(QueueAt(h, x.ch, x.dir), Sudog(p, i))
      BY <2>1, <3>1
    <3>3. QueueAt(h, x.ch, x.dir) \in Seq(Entry) BY <1>4, <3>1
    <3>4. Sudog(p, i) \in Entry BY <3>1 DEF Entry, Sudog
    <3> HIDE DEF x
    <3>5. Occurs(Sudog(p, i), QueueAt(hchan', x.ch, x.dir)) BY <3>2, <3>3, <3>4, AppendLast
    <3> QED BY <2>1, <3>5 DEF x
  <2>2. CASE g # p
    <3>1. Parked(g) BY <1>0, <2>2 DEF Parked
    <3>2. Occurs(Sudog(g, i), QueueAt(hchan, x.ch, x.dir)) /\ g \in Waiting
      BY <3>1 DEF IInv, QueueInv, Present, Waiting
    <3>3. x.ch \in Chans /\ x.dir \in {"send", "recv", "close"} BY CaseFacts DEF IInv
    <3>4. PICK d \in Sides : /\ QueueAt(hchan, x.ch, x.dir) = QueueAt(hchan, x.ch, d)
                             /\ QueueAt(hchan', x.ch, x.dir) = QueueAt(hchan', x.ch, d)
      <4>1. CASE x.dir = "send" BY <4>1 DEF QueueAt, Sides
      <4>2. CASE x.dir # "send"
        <5>1. /\ QueueAt(hchan, x.ch, x.dir) = QueueAt(hchan, x.ch, "recv")
              /\ QueueAt(hchan', x.ch, x.dir) = QueueAt(hchan', x.ch, "recv")
              /\ "recv" \in Sides
          BY <4>2 DEF QueueAt, Sides
        <5> QED BY <5>1
      <4> QED BY <4>1, <4>2
    <3> HIDE DEF x
    <3>5. Occurs(Sudog(g, i), QueueAt(hchan, x.ch, d)) BY <3>2, <3>4
    <3>6. Fewer(QueueAt(hchan, x.ch, d), QueueAt(h, x.ch, d), Waiting) BY <1>4, <3>3
    <3>7. Sudog(g, i).g = g BY DEF Sudog
    <3>8. Occurs(Sudog(g, i), QueueAt(h, x.ch, d))
      BY <3>2, <3>5, <3>6, <3>7 DEF Fewer, Occurs
    <3>9. Occurs(Sudog(g, i), QueueAt(hchan', x.ch, d)) BY <1>6, <3>3, <3>8
    <3> QED BY <3>4, <3>9 DEF x
  <2> QED BY <2>1, <2>2
<1>8. ASSUME NEW c \in Chans PROVE Shape(c)'
  <2> DEFINE S == \E i \in CasesOf(p) : op[p].cases[i] = Case(c, "send")
             R == \E i \in CasesOf(p) : op[p].cases[i] = Case(c, "recv")
  <2>1. /\ h[c].qcount \in 0 .. Cap[c] /\ h[c].closed \in BOOLEAN
        /\ h[c].recvq \in Seq(Entry) /\ h[c].sendq \in Seq(Entry)
        /\ h[c].closed => h[c].recvq = << >> /\ h[c].sendq = << >>
        /\ Cap[c] > 0 /\ h[c].qcount > 0      => h[c].recvq = << >>
        /\ Cap[c] > 0 /\ h[c].qcount < Cap[c] => h[c].sendq = << >>
        /\ Cap[c] \in Nat
    BY LookedFacts
  <2>2. hchan'[c].closed = h[c].closed /\ hchan'[c].qcount = h[c].qcount
    BY DEF Looked, SameRings
  <2>3. ~S => hchan'[c].sendq = h[c].sendq BY DEF QueueAt, Sides
  <2>4. ~R => hchan'[c].recvq = h[c].recvq BY DEF QueueAt, Sides
  <2>5. S => h[c].recvq = << >> /\ ~h[c].closed /\ h[c].qcount = Cap[c]
    <3> SUFFICES ASSUME NEW i \in CasesOf(p), op[p].cases[i] = Case(c, "send")
                 PROVE  h[c].recvq = << >> /\ ~h[c].closed /\ h[c].qcount = Cap[c]
      OBVIOUS
    <3>1. op[p].cases[i].dir = "send" /\ op[p].cases[i].ch = c BY DEF Case
    <3>2. h[c].recvq = << >> /\ ~Ready(op[p].cases[i]) BY <3>1
    <3>3. ~hchan[c].closed /\ ~(hchan[c].qcount < Cap[c])
      BY <3>1, <3>2 DEF Ready, ReadyToSend
    <3>4. ~h[c].closed /\ h[c].qcount = hchan[c].qcount BY <3>3 DEF Looked, SameRings
    <3> QED BY <2>1, <3>2, <3>3, <3>4
  <2>6. R => h[c].sendq = << >> /\ ~h[c].closed /\ h[c].qcount = 0
    <3> SUFFICES ASSUME NEW i \in CasesOf(p), op[p].cases[i] = Case(c, "recv")
                 PROVE  h[c].sendq = << >> /\ ~h[c].closed /\ h[c].qcount = 0
      OBVIOUS
    <3>1. op[p].cases[i].dir = "recv" /\ op[p].cases[i].ch = c BY DEF Case
    <3>2. h[c].sendq = << >> /\ ~Ready(op[p].cases[i]) BY <3>1
    <3>3. ~hchan[c].closed /\ ~(hchan[c].qcount > 0)
      BY <3>1, <3>2 DEF Ready, ReadyToRecv
    <3>4. ~h[c].closed /\ h[c].qcount = hchan[c].qcount BY <3>3 DEF Looked, SameRings
    <3> QED BY <2>1, <3>2, <3>3, <3>4
  <2> HIDE DEF S, R
  <2>7. /\ hchan'[c].closed => hchan'[c].recvq = << >> /\ hchan'[c].sendq = << >>
        /\ Cap[c] > 0 /\ hchan'[c].qcount > 0      => hchan'[c].recvq = << >>
        /\ Cap[c] > 0 /\ hchan'[c].qcount < Cap[c] => hchan'[c].sendq = << >>
    BY <2>1, <2>2, <2>3, <2>4, <2>5, <2>6
  <2>8. AtMostOneQueue(c)'
    <3>1. CASE S /\ ~R BY <2>4, <2>5, <3>1 DEF AtMostOneQueue
    <3>2. CASE R /\ ~S BY <2>3, <2>6, <3>2 DEF AtMostOneQueue
    <3>3. CASE ~R /\ ~S
      <4>1. /\ h[c].recvq = hchan[c].recvq \/ h[c].recvq = << >>
            /\ h[c].sendq = hchan[c].sendq \/ h[c].sendq = << >>
        BY DEF Looked
      <4>2. AtMostOneQueue(c) BY DEF IInv, QueueInv, Shape
      <4> QED BY <2>3, <2>4, <3>3, <4>1, <4>2 DEF AtMostOneQueue
    <3>4. CASE S /\ R
      <4>1. h[c].recvq = << >> /\ h[c].sendq = << >> /\ Cap[c] = 0 BY <2>5, <2>6, <3>4
      <4>2. PICK i \in CasesOf(p) : op[p].cases[i] = Case(c, "send") BY <3>4 DEF S
      <4>3. PICK j \in CasesOf(p) : op[p].cases[j] = Case(c, "recv") BY <3>4 DEF R
      <4>4. i # j BY <4>2, <4>3 DEF Case
      <4>5. op[p].select
        <5>1. op[p] # NoOp BY DEF IInv, OpInv
        <5> QED BY <4>4, <5>1, CaseFacts DEF IInv
      <4>6. /\ hchan'[c].sendq = Append(<< >>, Sudog(p, i))
            /\ hchan'[c].recvq = Append(<< >>, Sudog(p, j))
        BY <4>1, <4>2, <4>3 DEF QueueAt, Sides
      <4>7. \A s : Append(<< >>, s) = << s >> OBVIOUS
      <4>8. \A k : Waiters(<< Sudog(p, k) >>) = {p}
        <5> TAKE k
        <5> DEFINE q == << Sudog(p, k) >>
        <5>1. DOMAIN q = {1} /\ q[1].g = p BY DEF Sudog
        <5> HIDE DEF q
        <5>2. Waiters(q) = {p} BY <5>1 DEF Waiters
        <5> QED BY <5>2 DEF q
      <4>9. Waiters(hchan'[c].sendq) = {p} /\ Waiters(hchan'[c].recvq) = {p}
        BY <4>6, <4>7, <4>8
      <4> QED BY <4>1, <4>5, <4>9 DEF AtMostOneQueue
    <3> QED BY <3>1, <3>2, <3>3, <3>4
  <2> QED BY <2>7, <2>8 DEF Shape
<1>9. QueueInv' BY <1>5, <1>7, <1>8 DEF QueueInv
<1>10. RingInv' BY DEF IInv, RingInv, Ring, SameRings
<1> QED BY <1>2, <1>3, <1>9, <1>10

LEMMA ParkAction ==
  ASSUME IInv, NEW p \in Procs, Park(p)
  PROVE  IInv'
<1> DEFINE x == CaseOf(p)
           c == x.ch
           h == LookInto({x})
           s == Sudog(p, 1)
<1>1. /\ pc[p] = "lock" /\ x.dir \in Sides /\ ~Ready(x)
      /\ pc' = [pc EXCEPT ![p] = "parked"] /\ hchan' = Enqueue(h, x, s)
      /\ UNCHANGED << op, held, parking, param, success, elem, selectDone, glist >>
  BY DEF Park, Locked, Sides, sudogVars, lockVars
<1>2. op[p] # NoOp /\ ~op[p].select BY <1>1 DEF IInv, OpInv, PlainPCs
<1>3. /\ CasesOf(p) = {1} /\ x = op[p].cases[1] /\ c \in Chans /\ x = Case(c, x.dir)
  BY <1>2, CaseFacts DEF IInv, CaseOf
<1>4. Looked(h) /\ SameRings(h)
  <2> DEFINE X == {x}
  <2>1. \A y \in X : \E i \in CasesOf(p) : y = op[p].cases[i] /\ ~Ready(y)
    BY <1>1, <1>3
  <2>2. \A i \in CasesOf(p) : op[p].cases[i].dir \in Sides BY <1>1, <1>3
  <2> HIDE DEF X
  <2>3. Looked(LookInto(X)) /\ SameRings(LookInto(X)) BY <2>1, <2>2, LookIntoLooked DEF IInv
  <2> QED BY <2>3 DEF X
<1>5. IF x.dir = "send" THEN h[c].recvq = << >> ELSE h[c].sendq = << >>
  <2>1. h[c] = [hchan[c] EXCEPT
                  !.recvq = IF Case(c, "send") \in {x} THEN << >> ELSE @,
                  !.sendq = IF Case(c, "recv") \in {x} THEN << >> ELSE @]
    BY <1>3 DEF LookInto
  <2>2. hchan[c] \in ChanState(c) BY <1>3 DEF IInv, TypeInv
  <2>3. x.dir = "send" => Case(c, "send") \in {x} BY <1>3
  <2>4. x.dir = "recv" => Case(c, "recv") \in {x} BY <1>3
  <2>5. x.dir = "send" => h[c].recvq = << >> BY <2>1, <2>2, <2>3 DEF ChanState
  <2>6. x.dir = "recv" => h[c].sendq = << >> BY <2>1, <2>2, <2>4 DEF ChanState
  <2> QED BY <1>1, <2>5, <2>6 DEF Sides
<1>6. s \in Entry BY DEF Entry, Sudog
<1> HIDE DEF h, s
<1>7. /\ Typed(h) /\ h[c].recvq \in Seq(Entry) /\ h[c].sendq \in Seq(Entry)
  BY <1>3, <1>4, LookedFacts DEF Looked
<1>8. /\ Append(h[c].recvq, s) \in Seq(Entry) /\ Append(h[c].sendq, s) \in Seq(Entry)
  BY <1>6, <1>7
<1>9. /\ Typed(hchan')
      /\ \A d \in Chans : d # c => hchan'[d] = h[d]
      /\ hchan'[c].closed = h[c].closed /\ hchan'[c].buf = h[c].buf
      /\ hchan'[c].qcount = h[c].qcount /\ hchan'[c].sendx = h[c].sendx
      /\ hchan'[c].recvx = h[c].recvx
      /\ hchan'[c].recvq = IF x.dir = "send" THEN h[c].recvq ELSE Append(h[c].recvq, s)
      /\ hchan'[c].sendq = IF x.dir = "send" THEN Append(h[c].sendq, s) ELSE h[c].sendq
  <2>1. CASE x.dir = "send"
    <3> DEFINE q == Append(h[c].sendq, s)
    <3>1. hchan' = WithSendq(h, c, q) BY <1>1, <2>1 DEF Enqueue, WithSendq
    <3>2. q \in Seq(Entry) BY <1>8
    <3> HIDE DEF q, x, c
    <3>3. /\ Typed(hchan') /\ \A d \in Chans : d # c => hchan'[d] = h[d]
          /\ hchan'[c].sendq = q /\ hchan'[c].recvq = h[c].recvq
          /\ hchan'[c].closed = h[c].closed /\ hchan'[c].buf = h[c].buf
          /\ hchan'[c].qcount = h[c].qcount /\ hchan'[c].sendx = h[c].sendx
          /\ hchan'[c].recvx = h[c].recvx
      <4>1. Typed(h) /\ c \in Chans BY <1>3, <1>7
      <4>2. /\ Typed(WithSendq(h, c, q))
            /\ \A d \in Chans : d # c => WithSendq(h, c, q)[d] = h[d]
            /\ WithSendq(h, c, q)[c].sendq = q
            /\ WithSendq(h, c, q)[c].recvq = h[c].recvq
            /\ WithSendq(h, c, q)[c].closed = h[c].closed
            /\ WithSendq(h, c, q)[c].buf = h[c].buf
            /\ WithSendq(h, c, q)[c].qcount = h[c].qcount
            /\ WithSendq(h, c, q)[c].sendx = h[c].sendx
            /\ WithSendq(h, c, q)[c].recvx = h[c].recvx
        BY <3>2, <4>1, SetSendq
      <4> QED BY <3>1, <4>2
    <3> QED BY <2>1, <3>3 DEF q
  <2>2. CASE x.dir # "send"
    <3> DEFINE q == Append(h[c].recvq, s)
    <3>1. hchan' = WithRecvq(h, c, q) BY <1>1, <2>2 DEF Enqueue, WithRecvq
    <3>2. q \in Seq(Entry) BY <1>8
    <3> HIDE DEF q, x, c
    <3>3. /\ Typed(hchan') /\ \A d \in Chans : d # c => hchan'[d] = h[d]
          /\ hchan'[c].recvq = q /\ hchan'[c].sendq = h[c].sendq
          /\ hchan'[c].closed = h[c].closed /\ hchan'[c].buf = h[c].buf
          /\ hchan'[c].qcount = h[c].qcount /\ hchan'[c].sendx = h[c].sendx
          /\ hchan'[c].recvx = h[c].recvx
      <4>1. Typed(h) /\ c \in Chans BY <1>3, <1>7
      <4>2. /\ Typed(WithRecvq(h, c, q))
            /\ \A d \in Chans : d # c => WithRecvq(h, c, q)[d] = h[d]
            /\ WithRecvq(h, c, q)[c].recvq = q
            /\ WithRecvq(h, c, q)[c].sendq = h[c].sendq
            /\ WithRecvq(h, c, q)[c].closed = h[c].closed
            /\ WithRecvq(h, c, q)[c].buf = h[c].buf
            /\ WithRecvq(h, c, q)[c].qcount = h[c].qcount
            /\ WithRecvq(h, c, q)[c].sendx = h[c].sendx
            /\ WithRecvq(h, c, q)[c].recvx = h[c].recvx
        BY <3>2, <4>1, SetRecvq
      <4> QED BY <3>1, <4>2
    <3> QED BY <2>2, <3>3 DEF q
  <2> QED BY <2>1, <2>2
<1>10. SameRings(hchan') /\ \A d \in Chans : hchan'[d].closed = hchan[d].closed
  BY <1>4, <1>9 DEF Looked, SameRings
<1>11. \A i \in CasesOf(p) :
         LET y == op[p].cases[i] IN
         /\ y.dir \in Sides /\ ~Ready(y)
         /\ IF y.dir = "send" THEN h[y.ch].recvq = << >> ELSE h[y.ch].sendq = << >>
  BY <1>1, <1>3, <1>5
<1>12. \A d \in Chans, dir \in Sides :
         /\ \A i \in CasesOf(p) : op[p].cases[i] = Case(d, dir) =>
              QueueAt(hchan', d, dir) = Append(QueueAt(h, d, dir), Sudog(p, i))
         /\ (\A i \in CasesOf(p) : op[p].cases[i] # Case(d, dir)) =>
              QueueAt(hchan', d, dir) = QueueAt(h, d, dir)
  <2> SUFFICES ASSUME NEW d \in Chans, NEW dir \in Sides
               PROVE  /\ x = Case(d, dir) =>
                           QueueAt(hchan', d, dir) = Append(QueueAt(h, d, dir), s)
                      /\ x # Case(d, dir) => QueueAt(hchan', d, dir) = QueueAt(h, d, dir)
    BY <1>3 DEF s
  <2>1. x = Case(d, dir) <=> d = c /\ dir = x.dir BY <1>3 DEF Case
  <2> QED BY <1>1, <1>9, <2>1 DEF QueueAt, Sides
<1>13. OpInv' /\ LockInv'
  <2>1. \A g \in Procs : Moves(g)
    BY <1>1, <1>2 DEF Moves, SelectPCs, PlainPCs, IInv, TypeInv
  <2> QED BY <1>1, <2>1, LocksKept DEF IInv
<1>14. held' \in [Procs -> SUBSET Chans] /\ parking' \in [Procs -> SUBSET Chans]
  BY <1>1 DEF IInv, TypeInv
<1> HIDE DEF x, c
<1>15. TypeInv' /\ WakeInv' /\ QueueInv' /\ RingInv'
  BY <1>1, <1>4, <1>9, <1>10, <1>11, <1>12, <1>14, ParkStep
<1> QED BY <1>13, <1>15 DEF IInv

LEMMA SelectParkAction ==
  ASSUME IInv, NEW p \in Procs, SelectPark(p)
  PROVE  IInv'
<1> DEFINE h == LookInto(CaseSet(p))
<1>1. /\ pc[p] = "pass1" /\ NotReady(p) = CasesOf(p)
      /\ hchan' = [c \in Chans |->
                     [h[c] EXCEPT !.recvq = @ \o SudogFor(p, Case(c, "recv")),
                                  !.sendq = @ \o SudogFor(p, Case(c, "send"))]]
      /\ pc' = [pc EXCEPT ![p] = "parked"]
      /\ held' = [held EXCEPT ![p] = {}] /\ parking' = [parking EXCEPT ![p] = ChansOf(p)]
      /\ UNCHANGED << op, param, success, elem, selectDone, glist >>
  BY DEF SelectPark, sudogVars
<1>2. op[p].select /\ op[p] # NoOp BY <1>1 DEF IInv, OpInv, SelectPCs
<1>3. /\ \A i \in CasesOf(p) : /\ op[p].cases[i].dir \in Sides /\ op[p].cases[i].ch \in Chans
                               /\ op[p].cases[i] = Case(op[p].cases[i].ch, op[p].cases[i].dir)
                               /\ op[p].cases[i] \in CaseSet(p) /\ i \in Nat
      /\ \A i, j \in CasesOf(p) : op[p].cases[i] = op[p].cases[j] => i = j
      /\ ChansOf(p) \subseteq Chans
  BY <1>2, CaseFacts DEF IInv, CaseSet
<1>4. Looked(h) /\ SameRings(h)
  <2>1. \A x \in CaseSet(p) : \E i \in CasesOf(p) : x = op[p].cases[i] /\ ~Ready(x)
    BY <1>1 DEF CaseSet, NotReady
  <2> QED BY <1>3, <2>1, LookIntoLooked DEF IInv
<1>5. \A i \in CasesOf(p) :
        LET x == op[p].cases[i] IN
        /\ x.dir \in Sides /\ ~Ready(x)
        /\ IF x.dir = "send" THEN h[x.ch].recvq = << >> ELSE h[x.ch].sendq = << >>
  <2> SUFFICES ASSUME NEW i \in CasesOf(p)
               PROVE  LET x == op[p].cases[i] IN
                      /\ x.dir \in Sides /\ ~Ready(x)
                      /\ IF x.dir = "send" THEN h[x.ch].recvq = << >> ELSE h[x.ch].sendq = << >>
    OBVIOUS
  <2> DEFINE x == op[p].cases[i]
             c == x.ch
  <2>1. /\ x.dir \in Sides /\ c \in Chans /\ x = Case(c, x.dir) /\ x \in CaseSet(p) BY <1>3
  <2>2. ~Ready(x) BY <1>1 DEF NotReady
  <2>3. h[c] = [hchan[c] EXCEPT
                  !.recvq = IF Case(c, "send") \in CaseSet(p) THEN << >> ELSE @,
                  !.sendq = IF Case(c, "recv") \in CaseSet(p) THEN << >> ELSE @]
    BY <2>1 DEF LookInto
  <2>4. hchan[c] \in ChanState(c) BY <2>1 DEF IInv, TypeInv
  <2> HIDE DEF x, c
  <2>5. x.dir = "send" => h[c].recvq = << >> BY <2>1, <2>3, <2>4 DEF ChanState
  <2>6. x.dir = "recv" => h[c].sendq = << >> BY <2>1, <2>3, <2>4 DEF ChanState
  <2> QED BY <2>1, <2>2, <2>5, <2>6 DEF Sides, x, c
<1> HIDE DEF h
<1>6. ASSUME NEW c \in Chans, NEW dir \in Sides
      PROVE  /\ SudogFor(p, Case(c, dir)) \in Seq(Entry)
             /\ \A i \in CasesOf(p) : op[p].cases[i] = Case(c, dir) =>
                  \A q \in Seq(Entry) : q \o SudogFor(p, Case(c, dir)) = Append(q, Sudog(p, i))
             /\ (\A i \in CasesOf(p) : op[p].cases[i] # Case(c, dir)) =>
                  \A q \in Seq(Entry) : q \o SudogFor(p, Case(c, dir)) = q
  <2>1. ASSUME NEW i \in CasesOf(p), op[p].cases[i] = Case(c, dir)
        PROVE  SudogFor(p, Case(c, dir)) = << Sudog(p, i) >> /\ Sudog(p, i) \in Entry
    <3>1. Case(c, dir) \in CaseSet(p) BY <1>3, <2>1
    <3>2. (CHOOSE j \in CasesOf(p) : op[p].cases[j] = Case(c, dir)) = i BY <1>3, <2>1
    <3>3. Sudog(p, i) \in Entry BY <1>3 DEF Sudog, Entry
    <3> QED BY <3>1, <3>2, <3>3 DEF SudogFor
  <2>2. ASSUME \A i \in CasesOf(p) : op[p].cases[i] # Case(c, dir)
        PROVE  SudogFor(p, Case(c, dir)) = << >>
    BY <2>2 DEF SudogFor, CaseSet
  <2>3. \A q \in Seq(Entry), s \in Entry : q \o << s >> = Append(q, s) /\ << s >> \in Seq(Entry)
    OBVIOUS
  <2>4. \A q \in Seq(Entry) : q \o << >> = q /\ << >> \in Seq(Entry) OBVIOUS
  <2>5. CASE \A i \in CasesOf(p) : op[p].cases[i] # Case(c, dir)
    <3>1. SudogFor(p, Case(c, dir)) = << >> BY <2>2, <2>5
    <3> QED BY <2>4, <2>5, <3>1
  <2>6. ASSUME NEW j \in CasesOf(p), op[p].cases[j] = Case(c, dir)
        PROVE  /\ SudogFor(p, Case(c, dir)) \in Seq(Entry)
               /\ \A q \in Seq(Entry) : q \o SudogFor(p, Case(c, dir)) = Append(q, Sudog(p, j))
               /\ \A i \in CasesOf(p) : op[p].cases[i] = Case(c, dir) => i = j
    <3> DEFINE s == Sudog(p, j)
    <3>1. SudogFor(p, Case(c, dir)) = << s >> /\ s \in Entry BY <2>1, <2>6
    <3> HIDE DEF s
    <3>2. << s >> \in Seq(Entry) /\ \A q \in Seq(Entry) : q \o << s >> = Append(q, s)
      BY <2>3, <3>1
    <3>3. \A i \in CasesOf(p) : op[p].cases[i] = Case(c, dir) => i = j BY <1>3, <2>6
    <3> QED BY <3>1, <3>2, <3>3 DEF s
  <2>7. CASE ~\A i \in CasesOf(p) : op[p].cases[i] # Case(c, dir)
    BY <2>6, <2>7
  <2> QED BY <2>5, <2>7
<1>7. ASSUME NEW c \in Chans
      PROVE  /\ hchan'[c] \in ChanState(c)
             /\ hchan'[c].recvq = h[c].recvq \o SudogFor(p, Case(c, "recv"))
             /\ hchan'[c].sendq = h[c].sendq \o SudogFor(p, Case(c, "send"))
             /\ hchan'[c].closed = h[c].closed /\ hchan'[c].buf = h[c].buf
             /\ hchan'[c].qcount = h[c].qcount /\ hchan'[c].sendx = h[c].sendx
             /\ hchan'[c].recvx = h[c].recvx
  <2> DEFINE rq == h[c].recvq \o SudogFor(p, Case(c, "recv"))
             sq == h[c].sendq \o SudogFor(p, Case(c, "send"))
  <2>1. h[c] \in ChanState(c) BY <1>4 DEF Looked, Typed
  <2>2. h[c].recvq \in Seq(Entry) /\ h[c].sendq \in Seq(Entry) BY <2>1 DEF ChanState
  <2>3. rq \in Seq(Entry) /\ sq \in Seq(Entry) BY <1>6, <2>2 DEF Sides
  <2>4. hchan'[c] = [h[c] EXCEPT !.recvq = rq, !.sendq = sq] BY <1>1
  <2> HIDE DEF rq, sq
  <2>5. /\ hchan'[c] \in ChanState(c) /\ hchan'[c].recvq = rq /\ hchan'[c].sendq = sq
        /\ hchan'[c].closed = h[c].closed /\ hchan'[c].buf = h[c].buf
        /\ hchan'[c].qcount = h[c].qcount /\ hchan'[c].sendx = h[c].sendx
        /\ hchan'[c].recvx = h[c].recvx
    BY <2>1, <2>3, <2>4 DEF ChanState
  <2> QED BY <2>5 DEF rq, sq
<1>8. DOMAIN hchan' = Chans /\ hchan' = [c \in Chans |-> hchan'[c]] BY <1>1
<1>9. Typed(hchan') BY <1>7, <1>8 DEF Typed
<1>10. SameRings(hchan') /\ \A c \in Chans : hchan'[c].closed = hchan[c].closed
  BY <1>4, <1>7 DEF Looked, SameRings
<1>11. ASSUME NEW c \in Chans, NEW dir \in Sides
       PROVE  /\ \A i \in CasesOf(p) : op[p].cases[i] = Case(c, dir) =>
                   QueueAt(hchan', c, dir) = Append(QueueAt(h, c, dir), Sudog(p, i))
              /\ (\A i \in CasesOf(p) : op[p].cases[i] # Case(c, dir)) =>
                   QueueAt(hchan', c, dir) = QueueAt(h, c, dir)
  <2> SUFFICES /\ QueueAt(hchan', c, dir) = QueueAt(h, c, dir) \o SudogFor(p, Case(c, dir))
                      /\ QueueAt(h, c, dir) \in Seq(Entry)
    <3>1. \A i \in CasesOf(p) : op[p].cases[i] = Case(c, dir) =>
            \A q \in Seq(Entry) : q \o SudogFor(p, Case(c, dir)) = Append(q, Sudog(p, i))
      BY <1>6
    <3>2. (\A i \in CasesOf(p) : op[p].cases[i] # Case(c, dir)) =>
            \A q \in Seq(Entry) : q \o SudogFor(p, Case(c, dir)) = q
      BY <1>6
    <3> QED BY <3>1, <3>2
  <2>1. h[c] \in ChanState(c) BY <1>4 DEF Looked, Typed
  <2>2. h[c].recvq \in Seq(Entry) /\ h[c].sendq \in Seq(Entry) BY <2>1 DEF ChanState
  <2>3. CASE dir = "send" BY <1>7, <2>2, <2>3 DEF QueueAt
  <2>4. CASE dir = "recv" BY <1>7, <2>2, <2>4 DEF QueueAt
  <2> QED BY <2>3, <2>4 DEF Sides
<1>12. held' \in [Procs -> SUBSET Chans] /\ parking' \in [Procs -> SUBSET Chans]
  BY <1>1, <1>3 DEF IInv, TypeInv
<1>13. TypeInv' /\ WakeInv' /\ QueueInv' /\ RingInv'
  BY <1>1, <1>4, <1>5, <1>9, <1>10, <1>11, <1>12, ParkStep
<1>14. /\ pc'[p] = "parked" /\ held'[p] = {} /\ parking'[p] = ChansOf(p)
       /\ \A g \in Procs : g # p => /\ pc'[g] = pc[g] /\ held'[g] = held[g]
                                    /\ parking'[g] = parking[g]
  BY <1>1 DEF IInv, TypeInv
<1>15. OpInv' BY <1>1, <1>2, <1>14 DEF IInv, OpInv, SelectPCs, PlainPCs
<1>16. LockInv'
  <2> SUFFICES ASSUME NEW g \in Procs PROVE Locks(g)' BY DEF LockInv
  <2>1. ChansOf(g)' = ChansOf(g) BY <1>1 DEF ChansOf, CaseSet, CasesOf
  <2>2. Locks(g) BY DEF IInv, LockInv
  <2>3. CASE g = p BY <1>1, <1>2, <1>14, <2>1, <2>3 DEF Locks, SelLockStates, SelectPCs
  <2>4. CASE g # p BY <1>1, <1>14, <2>1, <2>2, <2>4 DEF Locks
  <2> QED BY <2>3, <2>4
<1> QED BY <1>13, <1>15, <1>16 DEF IInv

-----------------------------------------------------------------------------
(* The steps that take a goroutine through its call *)

(* A step that changes no channel keeps QueueInv, if those on a queue stay.   *)
LEMMA QueuesSame ==
  ASSUME TypeInv, TypeInv', WakeInv, QueueInv, hchan' = hchan,
         \A g \in Waiting' : g \in Waiting /\ op'[g] = op[g],
         \A g \in Procs : pc[g] \in QueuedPCs /\ (~op[g].select => Parked(g)) => Stays(g)
  PROVE  QueueInv'
<1>1. ASSUME NEW c \in Chans, NEW dir \in Sides
      PROVE  /\ Fewer(QueueAt(hchan, c, dir), QueueAt(hchan', c, dir), Waiting')
             /\ \A k \in 1 .. Len(QueueAt(hchan', c, dir)) : Stays(QueueAt(hchan', c, dir)[k].g)
  <2> DEFINE q == QueueAt(hchan, c, dir)
  <2>1. \A j, k \in 1 .. Len(q) : q[j].g = q[k].g => j = k BY DEF QueueInv, Rightful
  <2>2. \A k \in 1 .. Len(q) : Stays(q[k].g) BY LiveIff
  <2> HIDE DEF q
  <2>3. Fewer(q, q, Waiting') BY <2>1 DEF Fewer, Occurs
  <2> QED BY <2>2, <2>3 DEF q
<1>2. \A c \in Chans : /\ Cap[c] > 0 /\ hchan'[c].qcount > 0      => hchan'[c].recvq = << >>
                       /\ Cap[c] > 0 /\ hchan'[c].qcount < Cap[c] => hchan'[c].sendq = << >>
  BY DEF QueueInv, Shape
<1> QED BY <1>1, <1>2, QueuesFewer

(* The steps without the lock of the channel, which find the way to it.       *)
LEMMA PlainStep ==
  ASSUME IInv, NEW p \in Procs, pc[p] \in PlainPCs \ {"idle", "woken"},
         NEW s \in (PlainPCs \ {"idle", "woken"}) \cup {"done"},
         Goto(p, pc[p], s),
         UNCHANGED << hchan, op, param, success, elem, selectDone, glist, held, parking >>
  PROVE  IInv'
<1>1. /\ pc'[p] = s /\ \A g \in Procs : g # p => pc'[g] = pc[g]
      /\ pc' \in [Procs -> PCs]
  BY DEF Goto, IInv, TypeInv, PlainPCs, PCs
<1>2. ~op[p].select BY DEF IInv, OpInv
<1>3. TypeInv' BY <1>1 DEF IInv, TypeInv
<1>4. OpInv' /\ LockInv'
  <2>1. \A g \in Procs : Moves(g) BY <1>1, <1>2 DEF Moves, SelectPCs, PlainPCs
  <2> QED BY <2>1, LocksKept DEF IInv
<1>5. /\ param[p] = 0 /\ glist[p] = {} /\ p \notin Waiting /\ ~selectDone[p]
      /\ \A q \in Procs : p \notin glist[q]
  BY Caller DEF TakenPCs, PlainPCs
<1>6. WakeInv'
  <2>1. ASSUME NEW g \in Procs PROVE Wake(g)'
    <3>1. Wake(g) BY DEF IInv, WakeInv
    <3>2. CasesOf(g)' = CasesOf(g) BY DEF CasesOf
    <3>3. CASE g = p
      BY <1>1, <1>5, <3>1, <3>2, <3>3 DEF Wake, TakenPCs, PlainPCs
    <3>4. CASE g # p
      BY <1>1, <3>1, <3>2, <3>4 DEF Wake
    <3> QED BY <3>3, <3>4
  <2> QED BY <2>1 DEF IInv, WakeInv
<1>7. QueueInv'
  <2>1. Waiting' \subseteq Waiting BY <1>1 DEF Waiting, Parked, PlainPCs
  <2>2. \A g \in Procs : pc[g] \in QueuedPCs /\ (~op[g].select => Parked(g)) => Stays(g)
    BY <1>1 DEF Stays, QueuedPCs, PlainPCs, Parked
  <2> QED BY <1>3, <2>1, <2>2, QueuesSame DEF IInv
<1>8. RingInv' BY DEF IInv, RingInv
<1> QED BY <1>3, <1>4, <1>6, <1>7, <1>8 DEF IInv

LEMMA FastPaths ==
  ASSUME IInv, NEW p \in Procs,
         SendFastClosed(p) \/ SendFastFull(p) \/ RecvFastEmpty(p) \/ RecvFastOpen(p)
           \/ RecvFastDrained(p)
  PROVE  IInv'
<1>1. CASE SendFastClosed(p)
  <2>1. PICK s \in {"lock", "full?"} : Goto(p, pc[p], s) /\ pc[p] = "closed?"
    BY <1>1 DEF SendFastClosed, Goto
  <2> QED BY <1>1, <2>1, PlainStep DEF SendFastClosed, PlainPCs, sudogVars, lockVars
<1>2. CASE SendFastFull(p)
  <2>1. PICK s \in {"lock", "done"} : Goto(p, pc[p], s) /\ pc[p] = "full?"
    BY <1>2 DEF SendFastFull, Goto
  <2> QED BY <1>2, <2>1, PlainStep DEF SendFastFull, PlainPCs, sudogVars, lockVars
<1>3. CASE RecvFastEmpty(p)
  <2>1. PICK s \in {"lock", "open?"} : Goto(p, pc[p], s) /\ pc[p] = "empty?"
    BY <1>3 DEF RecvFastEmpty, Goto
  <2> QED BY <1>3, <2>1, PlainStep DEF RecvFastEmpty, PlainPCs, sudogVars, lockVars
<1>4. CASE RecvFastOpen(p)
  <2>1. PICK s \in {"drained?", "done"} : Goto(p, pc[p], s) /\ pc[p] = "open?"
    BY <1>4 DEF RecvFastOpen, Goto
  <2> QED BY <1>4, <2>1, PlainStep DEF RecvFastOpen, PlainPCs, sudogVars, lockVars
<1>5. CASE RecvFastDrained(p)
  <2>1. PICK s \in {"lock", "done"} : Goto(p, pc[p], s) /\ pc[p] = "drained?"
    BY <1>5 DEF RecvFastDrained, Goto
  <2> QED BY <1>5, <2>1, PlainStep DEF RecvFastDrained, PlainPCs, sudogVars, lockVars
<1> QED BY <1>1, <1>2, <1>3, <1>4, <1>5

(* An operation has a case, on a channel. *)
LEMMA OpFacts ==
  ASSUME NEW o \in Ops
  PROVE  o.cases # << >> /\ 1 \in DOMAIN o.cases /\ o.select \in BOOLEAN /\ o # NoOp
<1>1. /\ o.cases \in Seq([ch : Chans, dir : {"send", "recv", "close"}]) /\ o.cases # << >>
      /\ o.select \in BOOLEAN
  BY OpsAssumption
<1>2. 1 \in DOMAIN o.cases BY <1>1
<1>3. NoOp.cases = << >> BY DEF NoOp
<1> QED BY <1>1, <1>2, <1>3

LEMMA CallStep ==
  ASSUME IInv, NEW p \in Procs, Call(p)
  PROVE  IInv'
<1>1. PICK o \in Ops :
        /\ op' = [op EXCEPT ![p] = o]
        /\ pc' = [pc EXCEPT ![p] =
                    IF o.select THEN "sellock"
                    ELSE IF o.block THEN "lock"
                    ELSE IF o.cases[1].dir = "send" THEN "closed?" ELSE "empty?"]
  BY DEF Call
<1>2. /\ pc[p] = "idle"
      /\ UNCHANGED << hchan, param, success, elem, selectDone, glist, held, parking >>
  BY DEF Call, sudogVars, lockVars
<1>3. o.cases # << >> /\ 1 \in DOMAIN o.cases /\ o.select \in BOOLEAN /\ o # NoOp BY OpFacts
<1>4. /\ op'[p] = o /\ \A g \in Procs : g # p => op'[g] = op[g] /\ pc'[g] = pc[g]
      /\ o.select => pc'[p] = "sellock"
      /\ ~o.select => pc'[p] \in {"lock", "closed?", "empty?"}
      /\ pc' \in [Procs -> PCs] /\ op' \in [Procs -> Ops \cup {NoOp}]
  BY <1>1, <1>3 DEF IInv, TypeInv, PCs
<1>5. TypeInv' BY <1>2, <1>4 DEF IInv, TypeInv
<1>6. OpInv' BY <1>3, <1>4 DEF IInv, OpInv, SelectPCs, PlainPCs
<1>7. LockInv'
  <2> SUFFICES ASSUME NEW g \in Procs PROVE Locks(g)' BY DEF LockInv
  <2>1. Locks(g) BY DEF IInv, LockInv
  <2>2. CASE g = p
    <3>1. held'[p] = {} /\ parking'[p] = {}
      BY <1>2, <2>1, <2>2 DEF Locks, SelectPCs
    <3>2. op'[p].cases[1].ch \in ChansOf(p)' BY <1>3, <1>4 DEF ChansOf, CaseSet, CasesOf
    <3> QED BY <1>4, <2>2, <3>1, <3>2 DEF Locks, SelLockStates, SelectPCs
  <2>3. CASE g # p
    <3>1. ChansOf(g)' = ChansOf(g) BY <1>4, <2>3 DEF ChansOf, CaseSet, CasesOf
    <3> QED BY <1>2, <1>4, <2>1, <2>3, <3>1 DEF Locks
  <2> QED BY <2>2, <2>3
<1>8. /\ param[p] = 0 /\ glist[p] = {} /\ p \notin Waiting /\ ~selectDone[p]
      /\ \A q \in Procs : p \notin glist[q]
  BY <1>2, Caller DEF TakenPCs
<1>9. WakeInv'
  <2>1. ASSUME NEW g \in Procs PROVE Wake(g)'
    <3>1. Wake(g) BY DEF IInv, WakeInv
    <3>2. CASE g = p
      BY <1>2, <1>3, <1>4, <1>8, <3>2 DEF Wake, TakenPCs
    <3>3. CASE g # p
      <4>1. CasesOf(g)' = CasesOf(g) BY <1>4, <3>3 DEF CasesOf
      <4> QED BY <1>2, <1>4, <3>1, <3>3, <4>1 DEF Wake
    <3> QED BY <3>2, <3>3
  <2> QED BY <1>2, <2>1 DEF IInv, WakeInv
<1>10. QueueInv'
  <2>1. ASSUME NEW g \in Waiting' PROVE g \in Waiting /\ op'[g] = op[g]
    <3>1. g # p BY <1>3, <1>4 DEF Waiting, Parked
    <3> QED BY <1>2, <1>4, <3>1 DEF Waiting, Parked
  <2>2. \A g \in Procs : pc[g] \in QueuedPCs /\ (~op[g].select => Parked(g)) => Stays(g)
    BY <1>2, <1>4 DEF Stays, QueuedPCs, Parked
  <2> QED BY <1>2, <1>5, <2>1, <2>2, QueuesSame DEF IInv
<1>11. RingInv' BY <1>2 DEF IInv, RingInv
<1> QED BY <1>5, <1>6, <1>7, <1>9, <1>10, <1>11 DEF IInv

LEMMA ReturnStep ==
  ASSUME IInv, NEW p \in Procs, Return(p)
  PROVE  IInv'
<1>1. /\ pc[p] = "done" /\ pc' = [pc EXCEPT ![p] = "idle"] /\ op' = [op EXCEPT ![p] = NoOp]
      /\ success' = [success EXCEPT ![p] = FALSE] /\ elem' = [elem EXCEPT ![p] = NoVal]
      /\ UNCHANGED << hchan, param, selectDone, glist, held, parking >>
  BY DEF Return, Goto, lockVars
<1>2. /\ op'[p] = NoOp /\ pc'[p] = "idle"
      /\ \A g \in Procs : g # p => op'[g] = op[g] /\ pc'[g] = pc[g] /\ success'[g] = success[g]
      /\ pc' \in [Procs -> PCs] /\ op' \in [Procs -> Ops \cup {NoOp}]
  BY <1>1 DEF IInv, TypeInv, PCs
<1>3. ~NoOp.select BY DEF NoOp
<1>4. TypeInv' BY <1>1, <1>2 DEF IInv, TypeInv
<1>5. OpInv' BY <1>2, <1>3 DEF IInv, OpInv, SelectPCs
<1>6. LockInv'
  <2> SUFFICES ASSUME NEW g \in Procs PROVE Locks(g)' BY DEF LockInv
  <2>1. Locks(g) BY DEF IInv, LockInv
  <2>2. CASE g = p
    <3>1. held'[p] = {} /\ parking'[p] = {} BY <1>1, <2>1, <2>2 DEF Locks, SelectPCs
    <3> QED BY <1>2, <2>2, <3>1 DEF Locks, SelLockStates, SelectPCs
  <2>3. CASE g # p
    <3>1. ChansOf(g)' = ChansOf(g) BY <1>2, <2>3 DEF ChansOf, CaseSet, CasesOf
    <3> QED BY <1>1, <1>2, <2>1, <2>3, <3>1 DEF Locks
  <2> QED BY <2>2, <2>3
<1>7. /\ param[p] = 0 /\ glist[p] = {} /\ p \notin Waiting /\ ~selectDone[p]
      /\ \A q \in Procs : p \notin glist[q]
  BY <1>1, Caller DEF TakenPCs
<1>8. WakeInv'
  <2>1. ASSUME NEW g \in Procs PROVE Wake(g)'
    <3>1. Wake(g) BY DEF IInv, WakeInv
    <3>2. CASE g = p
      BY <1>1, <1>2, <1>3, <1>7, <3>2 DEF Wake, TakenPCs
    <3>3. CASE g # p
      <4>1. CasesOf(g)' = CasesOf(g) BY <1>2, <3>3 DEF CasesOf
      <4> QED BY <1>1, <1>2, <3>1, <3>3, <4>1 DEF Wake
    <3> QED BY <3>2, <3>3
  <2> QED BY <1>1, <2>1 DEF IInv, WakeInv
<1>9. QueueInv'
  <2>1. ASSUME NEW g \in Waiting' PROVE g \in Waiting /\ op'[g] = op[g]
    <3>1. g # p BY <1>2 DEF Waiting, Parked
    <3> QED BY <1>1, <1>2, <3>1 DEF Waiting, Parked
  <2>2. \A g \in Procs : pc[g] \in QueuedPCs /\ (~op[g].select => Parked(g)) => Stays(g)
    BY <1>1, <1>2 DEF Stays, QueuedPCs, Parked
  <2> QED BY <1>1, <1>4, <2>1, <2>2, QueuesSame DEF IInv
<1>10. RingInv' BY <1>1 DEF IInv, RingInv
<1> QED BY <1>4, <1>5, <1>6, <1>8, <1>9, <1>10 DEF IInv

LEMMA WokenStep ==
  ASSUME IInv, NEW p \in Procs, Woken(p)
  PROVE  IInv'
<1>1. /\ pc[p] = "woken"
      /\ pc' = [pc EXCEPT ![p] = IF CaseOf(p).dir = "send" /\ ~success[p] /\ ~ChanOf(p).closed
                                 THEN "throw" ELSE "done"]
      /\ param' = [param EXCEPT ![p] = 0]
      /\ UNCHANGED << hchan, op, success, elem, selectDone, glist, held, parking >>
  BY DEF Woken, Goto, lockVars
<1>2. Wake(p) BY DEF IInv, WakeInv
<1>3. /\ op[p] # NoOp /\ ~op[p].select BY <1>1 DEF IInv, OpInv, PlainPCs
<1>4. CasesOf(p) = {1} BY <1>3, CaseFacts DEF IInv
<1>5. param[p] = 1 BY <1>1, <1>2, <1>4 DEF Wake, TakenPCs
<1>6. ~success[p] => ChanOf(p).closed BY <1>2, <1>5 DEF Wake, ChanOf, CaseOf
<1>7. /\ pc'[p] = "done" /\ param'[p] = 0
      /\ \A g \in Procs : g # p => pc'[g] = pc[g] /\ param'[g] = param[g]
      /\ pc' \in [Procs -> PCs] /\ param' \in [Procs -> Nat]
  BY <1>1, <1>6 DEF IInv, TypeInv, PCs
<1>8. TypeInv' BY <1>1, <1>7 DEF IInv, TypeInv
<1>9. OpInv' /\ LockInv'
  <2>1. \A g \in Procs : Moves(g) BY <1>1, <1>7 DEF Moves, SelectPCs, PlainPCs
  <2> QED BY <1>1, <2>1, LocksKept DEF IInv
<1>10. WakeInv'
  <2>1. ASSUME NEW g \in Procs PROVE Wake(g)'
    <3>1. Wake(g) BY DEF IInv, WakeInv
    <3>2. CasesOf(g)' = CasesOf(g) BY <1>1 DEF CasesOf
    <3>3. CASE g = p
      BY <1>1, <1>3, <1>7, <3>1, <3>2, <3>3 DEF Wake, TakenPCs
    <3>4. CASE g # p
      BY <1>1, <1>7, <3>1, <3>2, <3>4 DEF Wake
    <3> QED BY <3>3, <3>4
  <2> QED BY <1>1, <2>1 DEF IInv, WakeInv
<1>11. QueueInv'
  <2>1. Waiting' \subseteq Waiting BY <1>7 DEF Waiting, Parked
  <2>2. \A g \in Procs : pc[g] \in QueuedPCs /\ (~op[g].select => Parked(g)) => Stays(g)
    BY <1>1, <1>7 DEF Stays, QueuedPCs, Parked
  <2> QED BY <1>1, <1>8, <2>1, <2>2, QueuesSame DEF IInv
<1>12. RingInv' BY <1>1 DEF IInv, RingInv
<1> QED BY <1>8, <1>9, <1>10, <1>11, <1>12 DEF IInv

LEMMA ReadyOneStep ==
  ASSUME IInv, NEW p \in Procs, ReadyOne(p)
  PROVE  IInv'
<1>1. PICK t \in glist[p] :
        /\ glist' = [glist EXCEPT ![p] = @ \ {t}]
        /\ pc'    = IF pc[t] # "parked" THEN [pc EXCEPT ![p] = "throw"]
                    ELSE [pc EXCEPT ![p] = IF glist[p] = {t} THEN "done" ELSE @,
                                    ![t] = Wakeup(t)]
  BY DEF ReadyOne
<1>2. /\ pc[p] = "ready"
      /\ UNCHANGED << hchan, op, param, success, elem, selectDone, held, parking >>
  BY DEF ReadyOne, sudogVars, lockVars
<1>3. t \in Procs BY DEF IInv, TypeInv
<1>4. Wake(t) BY <1>3 DEF IInv, WakeInv
<1>5. pc[t] = "parked" /\ param[t] # 0 /\ t # p BY <1>2, <1>4 DEF Wake
<1>6. op[t].select \in BOOLEAN BY <1>3, CaseFacts DEF IInv
<1>7. /\ pc'[p] = (IF glist[p] = {t} THEN "done" ELSE "ready")
      /\ op[t].select => pc'[t] = "relock"
      /\ ~op[t].select => pc'[t] = "woken"
      /\ \A g \in Procs : g # p /\ g # t => pc'[g] = pc[g]
      /\ pc' \in [Procs -> PCs]
  BY <1>1, <1>2, <1>3, <1>5, <1>6 DEF IInv, TypeInv, PCs, Wakeup
<1>8. /\ glist'[p] = glist[p] \ {t} /\ \A g \in Procs : g # p => glist'[g] = glist[g]
      /\ glist' \in [Procs -> SUBSET Procs]
  BY <1>1 DEF IInv, TypeInv
<1>9. TypeInv' BY <1>2, <1>7, <1>8 DEF IInv, TypeInv
<1>10. OpInv' /\ LockInv'
  <2>1. \A g \in Procs : Moves(g)
    BY <1>2, <1>5, <1>6, <1>7 DEF Moves, SelectPCs, PlainPCs
  <2> QED BY <1>2, <2>1, LocksKept DEF IInv
<1>11. WakeInv'
  <2>0. \A g, q, r \in Procs : g \in glist[q] /\ g \in glist[r] => q = r
    BY DEF IInv, WakeInv
  <2>1. ASSUME NEW g \in Procs PROVE Wake(g)'
    <3>1. Wake(g) BY DEF IInv, WakeInv
    <3>2. CasesOf(g)' = CasesOf(g) BY <1>2 DEF CasesOf
    <3>3. g # t => ((\E q \in Procs : g \in glist'[q]) <=> \E q \in Procs : g \in glist[q])
      BY <1>8
    <3>4. \A q \in Procs : t \notin glist'[q] BY <1>3, <1>8, <2>0
    <3>5. CASE g = p
      BY <1>2, <1>5, <1>7, <1>8, <3>1, <3>2, <3>3, <3>5 DEF Wake, TakenPCs
    <3>6. CASE g = t
      <4>1. pc'[t] \in {"relock", "woken"} BY <1>6, <1>7
      <4>2. glist[t] = {} BY <1>4, <1>5 DEF Wake
      <4> QED BY <1>2, <1>5, <1>8, <3>1, <3>2, <3>4, <3>6, <4>1, <4>2 DEF Wake, TakenPCs
    <3>7. CASE g # p /\ g # t
      BY <1>2, <1>7, <1>8, <3>1, <3>2, <3>3, <3>7 DEF Wake
    <3> QED BY <3>5, <3>6, <3>7
  <2>2. \A g, q, r \in Procs : g \in glist'[q] /\ g \in glist'[r] => q = r
    BY <1>8, <2>0
  <2> QED BY <2>1, <2>2 DEF WakeInv
<1>12. QueueInv'
  <2>1. Waiting' \subseteq Waiting
    BY <1>2, <1>5, <1>6, <1>7 DEF Waiting, Parked
  <2>2. \A g \in Procs : pc[g] \in QueuedPCs /\ (~op[g].select => Parked(g)) => Stays(g)
    BY <1>2, <1>5, <1>6, <1>7 DEF Stays, QueuedPCs, Parked
  <2> QED BY <1>2, <1>9, <2>1, <2>2, QueuesSame DEF IInv
<1>13. RingInv' BY <1>2 DEF IInv, RingInv
<1> QED BY <1>9, <1>10, <1>11, <1>12, <1>13 DEF IInv

-----------------------------------------------------------------------------
(* sellock, selunlock and pass 3 *)

(* The next lock is the one at the lowest address of those not yet held.      *)
LEMMA NextLockFacts ==
  ASSUME TypeInv, OpInv, LockInv, NEW p \in Procs, pc[p] \in SelLockStates
  PROVE  /\ NextLock(p) \in ChansOf(p) \ held[p]
         /\ \A d \in ChansOf(p) \ held[p] : Addr[NextLock(p)] <= Addr[d]
         /\ \A c \in Chans : Addr[c] \in Nat
<1> DEFINE S == ChansOf(p) \ held[p]
           A == {Addr[c] : c \in S}
<1>1. Locks(p) BY DEF LockInv
<1>2. S # {} BY <1>1 DEF Locks
<1>3. \A c \in Chans : Addr[c] \in Nat BY SelectAssumption
<1>4. S \subseteq Chans BY CaseFacts
<1>5. A \in SUBSET Nat /\ A # {} BY <1>2, <1>3, <1>4
<1>6. PICK a \in A : \A b \in A : a <= b
  <2> HIDE DEF A
  <2> QED BY <1>5, LeastNat
<1>7. \E c \in S : \A d \in S : Addr[c] <= Addr[d] BY <1>6
<1>8. NextLock(p) = CHOOSE c \in S : \A d \in S : Addr[c] <= Addr[d] BY DEF NextLock, Lowest
<1> HIDE DEF S
<1>9. NextLock(p) \in S /\ \A d \in S : Addr[NextLock(p)] <= Addr[d] BY <1>7, <1>8
<1> QED BY <1>3, <1>9 DEF S

(* A step at which a select takes or releases locks keeps the rest.           *)
LEMMA LockStep ==
  ASSUME IInv, NEW p \in Procs, pc[p] \in {"sellock", "relock", "selunlock", "parked"},
         NEW s, pc' = [pc EXCEPT ![p] = s],
         s = pc[p] \/ (pc[p] = "sellock" /\ s = "pass1") \/ (pc[p] = "relock" /\ s = "pass3")
           \/ (pc[p] = "selunlock" /\ s = "ready" /\ glist[p] # {})
           \/ (pc[p] = "selunlock" /\ s = "done" /\ glist[p] = {}),
         UNCHANGED << hchan, op, param, success, elem, selectDone, glist >>,
         held' \in [Procs -> SUBSET Chans], parking' \in [Procs -> SUBSET Chans], LockInv'
  PROVE  IInv'
<1>1. /\ pc'[p] = s /\ \A g \in Procs : g # p => pc'[g] = pc[g]
      /\ pc' \in [Procs -> PCs]
  BY DEF IInv, TypeInv, PCs
<1>2. TypeInv' BY <1>1 DEF IInv, TypeInv
<1>3. OpInv' BY <1>1 DEF IInv, OpInv, SelectPCs, PlainPCs
<1>4. WakeInv'
  <2>1. ASSUME NEW g \in Procs PROVE Wake(g)'
    <3>1. Wake(g) BY DEF IInv, WakeInv
    <3>2. CasesOf(g)' = CasesOf(g) BY DEF CasesOf
    <3>3. CASE g = p /\ s # pc[p]
      BY <1>1, <3>1, <3>2, <3>3 DEF Wake, TakenPCs
    <3>4. CASE g # p \/ s = pc[p]
      <4>1. pc'[g] = pc[g] BY <1>1, <3>4
      <4> QED BY <3>1, <3>2, <4>1 DEF Wake
    <3> QED BY <3>3, <3>4
  <2> QED BY <2>1 DEF IInv, WakeInv
<1>5. QueueInv'
  <2>1. Waiting' \subseteq Waiting BY <1>1 DEF Waiting, Parked
  <2>2. \A g \in Procs : pc[g] \in QueuedPCs /\ (~op[g].select => Parked(g)) => Stays(g)
    BY <1>1 DEF Stays, QueuedPCs, Parked
  <2> QED BY <1>2, <2>1, <2>2, QueuesSame DEF IInv
<1>6. RingInv' BY DEF IInv, RingInv
<1> QED BY <1>2, <1>3, <1>4, <1>5, <1>6 DEF IInv

LEMMA SelLockStep ==
  ASSUME IInv, NEW p \in Procs, SelLock(p)
  PROVE  IInv'
<1> DEFINE n == NextLock(p)
           s == CASE held'[p] # ChansOf(p) -> pc[p]
                  [] held'[p] = ChansOf(p) /\ pc[p] = "sellock" -> "pass1"
                  [] held'[p] = ChansOf(p) /\ pc[p] = "relock"  -> "pass3"
<1>1. /\ pc[p] \in SelLockStates /\ held' = [held EXCEPT ![p] = held[p] \cup {n}]
      /\ pc' = [pc EXCEPT ![p] = s]
      /\ UNCHANGED << hchan, op, param, success, elem, selectDone, glist, parking >>
      /\ n \notin parking[p]
  BY DEF SelLock, sudogVars, Free
<1>2. /\ n \in ChansOf(p) \ held[p]
      /\ \A d \in ChansOf(p) \ held[p] : Addr[n] <= Addr[d]
      /\ \A c \in Chans : Addr[c] \in Nat
  BY <1>1, NextLockFacts DEF IInv
<1>3. ChansOf(p) \subseteq Chans BY CaseFacts DEF IInv
<1> HIDE DEF n
<1>4. /\ held'[p] = held[p] \cup {n} /\ \A g \in Procs : g # p => held'[g] = held[g]
      /\ held' \in [Procs -> SUBSET Chans] /\ parking' \in [Procs -> SUBSET Chans]
  BY <1>1, <1>2, <1>3 DEF IInv, TypeInv
<1>5. /\ pc[p] \in {"sellock", "relock"}
      /\ held'[p] # ChansOf(p) => s = pc[p]
      /\ held'[p] = ChansOf(p) /\ pc[p] = "sellock" => s = "pass1"
      /\ held'[p] = ChansOf(p) /\ pc[p] = "relock" => s = "pass3"
  BY <1>1 DEF SelLockStates
<1> HIDE DEF s
<1>6. pc'[p] = s /\ \A g \in Procs : g # p => pc'[g] = pc[g]
  BY <1>1 DEF IInv, TypeInv
<1>7. LockInv'
  <2> SUFFICES ASSUME NEW g \in Procs PROVE Locks(g)' BY DEF LockInv
  <2>1. Locks(g) BY DEF IInv, LockInv
  <2>2. ChansOf(g)' = ChansOf(g) BY <1>1 DEF ChansOf, CaseSet, CasesOf
  <2>3. CASE g = p
    <3>1. /\ held'[p] \subseteq ChansOf(p) /\ held'[p] # {}
          /\ held'[p] \cap parking[p] = {} /\ parking[p] \subseteq ChansOf(p)
      BY <1>1, <1>2, <1>4, <2>1, <2>3 DEF Locks
    <3>2. parking'[p] # {} => pc'[p] \in {"parked", "relock"} /\ op[p].select
      <4> SUFFICES ASSUME parking[p] # {} PROVE pc'[p] \in {"parked", "relock"} /\ op[p].select
        BY <1>1
      <4>1. pc[p] = "relock" /\ op[p].select BY <1>5, <2>1, <2>3 DEF Locks
      <4>2. held'[p] # ChansOf(p) BY <3>1
      <4> QED BY <1>5, <1>6, <4>1, <4>2
    <3>3. /\ pc'[p] \in {"pass1", "pass3"} => held'[p] = ChansOf(p)
          /\ pc'[p] # "selunlock" /\ pc'[p] \in SelectPCs
          /\ pc'[p] \in SelLockStates => held'[p] # ChansOf(p)
      BY <1>5, <1>6 DEF SelectPCs, SelLockStates
    <3>4. ASSUME NEW c \in held'[p], NEW d \in ChansOf(p) \ held'[p] PROVE Addr[c] < Addr[d]
      <4>1. d \in ChansOf(p) \ held[p] /\ d # n /\ d \in Chans BY <1>3, <1>4
      <4>2. CASE c \in held[p] BY <1>1, <2>1, <2>3, <4>1, <4>2 DEF Locks
      <4>3. CASE c = n
        <5>1. Addr[n] <= Addr[d] /\ n \in Chans BY <1>2, <1>3, <4>1
        <5>2. Addr[n] # Addr[d] BY <4>1, <5>1, SelectAssumption
        <5> QED BY <1>2, <4>1, <4>3, <5>1, <5>2
      <4> QED BY <1>4, <4>2, <4>3
    <3> QED BY <1>1, <2>1, <2>2, <2>3, <3>1, <3>2, <3>3, <3>4 DEF Locks
  <2>4. CASE g # p BY <1>1, <1>4, <1>6, <2>1, <2>2, <2>4 DEF Locks
  <2> QED BY <2>3, <2>4
<1>8. \/ s = pc[p] \/ (pc[p] = "sellock" /\ s = "pass1") \/ (pc[p] = "relock" /\ s = "pass3")
  BY <1>5
<1> QED BY <1>1, <1>4, <1>5, <1>7, <1>8, LockStep

LEMMA SelUnlockStep ==
  ASSUME IInv, NEW p \in Procs, SelUnlock(p)
  PROVE  IInv'
<1> DEFINE s == IF held'[p] # {} THEN pc[p] ELSE IF glist[p] # {} THEN "ready" ELSE "done"
<1>1. /\ pc[p] = "selunlock" /\ pc' = [pc EXCEPT ![p] = s]
      /\ held' = [held EXCEPT ![p] = held[p] \ {Highest(held[p])}]
      /\ UNCHANGED << hchan, op, param, success, elem, selectDone, glist, parking >>
  BY DEF SelUnlock, sudogVars
<1>2. /\ held'[p] \subseteq held[p] /\ \A g \in Procs : g # p => held'[g] = held[g]
      /\ held' \in [Procs -> SUBSET Chans] /\ parking' \in [Procs -> SUBSET Chans]
  BY <1>1 DEF IInv, TypeInv
<1>3. /\ held'[p] # {} => s = pc[p]
      /\ held'[p] = {} /\ glist[p] # {} => s = "ready"
      /\ held'[p] = {} /\ glist[p] = {} => s = "done"
  OBVIOUS
<1> HIDE DEF s
<1>4. pc'[p] = s /\ \A g \in Procs : g # p => pc'[g] = pc[g]
  BY <1>1 DEF IInv, TypeInv
<1>5. LockInv'
  <2> SUFFICES ASSUME NEW g \in Procs PROVE Locks(g)' BY DEF LockInv
  <2>1. Locks(g) BY DEF IInv, LockInv
  <2>2. ChansOf(g)' = ChansOf(g) BY <1>1 DEF ChansOf, CaseSet, CasesOf
  <2>3. CASE g = p
    <3>1. parking[p] = {} /\ held'[p] \subseteq ChansOf(p) BY <1>1, <1>2, <2>1, <2>3 DEF Locks
    <3> QED BY <1>1, <1>3, <1>4, <2>2, <2>3, <3>1 DEF Locks, SelLockStates, SelectPCs
  <2>4. CASE g # p BY <1>1, <1>2, <1>4, <2>1, <2>2, <2>4 DEF Locks
  <2> QED BY <2>3, <2>4
<1>6. \/ s = pc[p]
      \/ (pc[p] = "selunlock" /\ s = "ready" /\ glist[p] # {})
      \/ (pc[p] = "selunlock" /\ s = "done" /\ glist[p] = {})
  BY <1>1, <1>3
<1> QED BY <1>1, <1>2, <1>5, <1>6, LockStep

LEMMA SelParkCommitStep ==
  ASSUME IInv, NEW p \in Procs, SelParkCommit(p)
  PROVE  IInv'
<1>1. /\ parking[p] # {} /\ parking' = [parking EXCEPT ![p] = parking[p] \ {Lowest(parking[p])}]
      /\ UNCHANGED << hchan, pc, op, param, success, elem, selectDone, glist, held >>
  BY DEF SelParkCommit, sudogVars
<1>2. /\ parking'[p] \subseteq parking[p]
      /\ \A g \in Procs : g # p => parking'[g] = parking[g]
      /\ held' \in [Procs -> SUBSET Chans] /\ parking' \in [Procs -> SUBSET Chans]
  BY <1>1 DEF IInv, TypeInv
<1>3. pc[p] \in {"parked", "relock"} /\ op[p].select BY <1>1 DEF IInv, LockInv, Locks
<1>4. LockInv'
  <2> SUFFICES ASSUME NEW g \in Procs PROVE Locks(g)' BY DEF LockInv
  <2>1. Locks(g) BY DEF IInv, LockInv
  <2>2. ChansOf(g)' = ChansOf(g) BY <1>1 DEF ChansOf, CaseSet, CasesOf
  <2>3. parking'[g] \subseteq parking[g] BY <1>2
  <2> QED BY <1>1, <2>1, <2>2, <2>3 DEF Locks
<1>5. pc' = [pc EXCEPT ![p] = pc[p]] BY <1>1 DEF IInv, TypeInv
<1> QED BY <1>1, <1>2, <1>3, <1>4, <1>5, LockStep

(* What is left of a queue after p has withdrawn from it. *)
LEMMA WithdrawFacts ==
  ASSUME NEW q \in Seq(Entry), NEW p \in Procs, NEW S, p \notin S,
         \A j, k \in 1 .. Len(q) : q[j].g = q[k].g => j = k
  PROVE  /\ Withdraw(q, p) \in Seq(Entry)
         /\ Fewer(q, Withdraw(q, p), S)
         /\ \A k \in 1 .. Len(Withdraw(q, p)) : Withdraw(q, p)[k].g # p
<1> DEFINE at == {k \in DOMAIN q : q[k].g = p}
           n == CHOOSE k \in at : TRUE
           a == SubSeq(q, 1, n - 1)
           b == SubSeq(q, n + 1, Len(q))
           r == a \o b
<1>1. Withdraw(q, p) = IF at = {} THEN q ELSE r BY DEF Withdraw
<1>2. DOMAIN q = 1 .. Len(q) /\ Len(q) \in Nat OBVIOUS
<1>3. CASE at = {}
  <2>1. \A k \in 1 .. Len(q) : q[k].g # p BY <1>2, <1>3
  <2>2. Fewer(q, q, S) BY DEF Fewer, Occurs
  <2> QED BY <1>1, <1>3, <2>1, <2>2
<1>4. CASE at # {}
  <2>1. n \in 1 .. Len(q) /\ q[n].g = p BY <1>2, <1>4
  <2> HIDE DEF n
  <2>2. n \in Nat /\ Len(q) \in Nat /\ n >= 1 /\ n <= Len(q) BY <1>2, <2>1
  <2>3. \A k \in 1 .. Len(q) : k # n => q[k].g # p BY <2>1
  <2>4. a \in Seq(Entry) /\ Len(a) = n - 1 /\ \A k \in 1 .. n - 1 : a[k] = q[k]
    <3>1. \A k \in 1 .. n - 1 : k \in 1 .. Len(q) /\ q[k] \in Entry BY <2>2
    <3>2. a \in Seq(Entry) /\ Len(a) = n - 1 BY <2>2, <3>1
    <3>3. \A k \in 1 .. n - 1 : a[k] = q[1 + k - 1] BY <2>2, <3>1
    <3>4. \A k \in 1 .. n - 1 : 1 + k - 1 = k OBVIOUS
    <3> QED BY <3>2, <3>3, <3>4
  <2>5. b \in Seq(Entry) /\ Len(b) = Len(q) - n /\ \A k \in 1 .. Len(q) - n : b[k] = q[n + k]
    <3>1. \A k \in n + 1 .. Len(q) : q[k] \in Entry BY <2>2
    <3>2. b \in Seq(Entry) /\ Len(b) = Len(q) - n BY <2>2, <3>1
    <3>3. \A k \in 1 .. Len(q) - n : b[k] = q[n + 1 + k - 1] BY <2>2, <3>1
    <3>4. \A k \in 1 .. Len(q) - n : n + 1 + k - 1 = n + k BY <2>2
    <3> QED BY <3>2, <3>3, <3>4
  <2> HIDE DEF a, b
  <2>6. /\ r \in Seq(Entry) /\ Len(r) = Len(q) - 1
        /\ \A k \in 1 .. Len(r) : r[k] = IF k <= n - 1 THEN a[k] ELSE b[k - (n - 1)]
    <3>0. a \in Seq(Entry) /\ b \in Seq(Entry) BY <2>4, <2>5
    <3>1. r \in Seq(Entry) /\ Len(r) = Len(a) + Len(b) BY <3>0
    <3>3. \A k \in 1 .. Len(a) + Len(b) : r[k] = IF k <= Len(a) THEN a[k] ELSE b[k - Len(a)]
      BY <3>0
    <3>2. Len(a) + Len(b) = Len(q) - 1 BY <2>2, <2>4, <2>5
    <3> HIDE DEF r
    <3> QED BY <2>4, <3>1, <3>2, <3>3
  <2> HIDE DEF r
  <2>7. \A k \in 1 .. Len(r) : r[k] = IF k <= n - 1 THEN q[k] ELSE q[k + 1]
    <3> SUFFICES ASSUME NEW k \in 1 .. Len(r)
                 PROVE  r[k] = IF k <= n - 1 THEN q[k] ELSE q[k + 1]
      OBVIOUS
    <3>1. CASE k <= n - 1 BY <2>2, <2>4, <2>6, <3>1
    <3>2. CASE ~(k <= n - 1)
      <4>1. k - (n - 1) \in 1 .. Len(q) - n /\ n + (k - (n - 1)) = k + 1 BY <1>2, <2>2, <2>6, <3>2
      <4>2. r[k] = b[k - (n - 1)] BY <2>6, <3>2
      <4>3. b[k - (n - 1)] = q[n + (k - (n - 1))] BY <2>5, <4>1
      <4> QED BY <3>2, <4>1, <4>2, <4>3
    <3> QED BY <3>1, <3>2
  <2> DEFINE f(k) == IF k <= n - 1 THEN k ELSE k + 1
  <2>8. \A k \in 1 .. Len(r) : f(k) \in 1 .. Len(q) /\ f(k) # n /\ r[k] = q[f(k)]
    BY <1>2, <2>2, <2>6, <2>7
  <2>9. \A j, k \in 1 .. Len(r) : f(j) = f(k) => j = k BY <1>2, <2>2, <2>6
  <2>10. \A k \in 1 .. Len(q) : k # n => \E j \in 1 .. Len(r) : r[j] = q[k]
    <3> SUFFICES ASSUME NEW k \in 1 .. Len(q), k # n PROVE \E j \in 1 .. Len(r) : r[j] = q[k]
      OBVIOUS
    <3>1. CASE k < n
      <4>1. k \in 1 .. Len(r) /\ k <= n - 1 BY <1>2, <2>2, <2>6, <3>1
      <4> QED BY <2>7, <4>1
    <3>2. CASE k > n
      <4>1. k - 1 \in 1 .. Len(r) /\ ~(k - 1 <= n - 1) /\ (k - 1) + 1 = k
        BY <1>2, <2>2, <2>6, <3>2
      <4>2. r[k - 1] = q[(k - 1) + 1] BY <2>7, <4>1
      <4> QED BY <4>1, <4>2
    <3> QED BY <2>2, <3>1, <3>2
  <2> HIDE DEF f
  <2>11. \A k \in 1 .. Len(r) : Occurs(r[k], q) /\ r[k].g # p BY <2>3, <2>8 DEF Occurs
  <2>12. \A j, k \in 1 .. Len(r) : r[j].g = r[k].g => j = k
    <3> SUFFICES ASSUME NEW j \in 1 .. Len(r), NEW k \in 1 .. Len(r), r[j].g = r[k].g
                 PROVE  j = k
      OBVIOUS
    <3>1. q[f(j)].g = q[f(k)].g /\ f(j) \in 1 .. Len(q) /\ f(k) \in 1 .. Len(q) BY <2>8
    <3>2. f(j) = f(k) BY <3>1
    <3> QED BY <2>9, <3>2
  <2>13. \A k \in 1 .. Len(q) : q[k].g \in S => Occurs(q[k], r) BY <2>1, <2>10 DEF Occurs
  <2>14. Fewer(q, r, S) BY <2>11, <2>12, <2>13 DEF Fewer
  <2> QED BY <1>1, <1>4, <2>6, <2>11, <2>14
<1> QED BY <1>3, <1>4

LEMMA SelectWokenStep ==
  ASSUME IInv, NEW p \in Procs, SelectWoken(p)
  PROVE  IInv'
<1>1. /\ pc[p] = "pass3"
      /\ pc' = [pc EXCEPT ![p] = IF param[p] = 0 THEN "throw" ELSE "selunlock"]
      /\ selectDone' = [selectDone EXCEPT ![p] = FALSE]
      /\ param' = [param EXCEPT ![p] = 0]
      /\ hchan' = [c \in Chans |->
                     [hchan[c] EXCEPT !.recvq = Withdraw(@, p), !.sendq = Withdraw(@, p)]]
      /\ UNCHANGED << op, success, elem, glist, held, parking >>
  BY DEF SelectWoken, Goto, lockVars
<1>2. Wake(p) BY DEF IInv, WakeInv
<1>3. param[p] # 0 /\ glist[p] = {} BY <1>1, <1>2 DEF Wake, TakenPCs
<1>4. /\ pc'[p] = "selunlock" /\ param'[p] = 0 /\ selectDone'[p] = FALSE
      /\ \A g \in Procs : g # p => /\ pc'[g] = pc[g] /\ param'[g] = param[g]
                                   /\ selectDone'[g] = selectDone[g]
      /\ pc' \in [Procs -> PCs] /\ param' \in [Procs -> Nat] /\ selectDone' \in [Procs -> BOOLEAN]
  BY <1>1, <1>3 DEF IInv, TypeInv, PCs
<1>5. p \notin Waiting BY <1>1 DEF Waiting, Parked
<1>6. ASSUME NEW c \in Chans
      PROVE  /\ hchan'[c] \in ChanState(c)
             /\ hchan'[c].recvq = Withdraw(hchan[c].recvq, p)
             /\ hchan'[c].sendq = Withdraw(hchan[c].sendq, p)
             /\ hchan'[c].closed = hchan[c].closed /\ hchan'[c].buf = hchan[c].buf
             /\ hchan'[c].qcount = hchan[c].qcount /\ hchan'[c].sendx = hchan[c].sendx
             /\ hchan'[c].recvx = hchan[c].recvx
             /\ Fewer(hchan[c].recvq, hchan'[c].recvq, Waiting)
             /\ Fewer(hchan[c].sendq, hchan'[c].sendq, Waiting)
             /\ \A k \in 1 .. Len(hchan'[c].recvq) : hchan'[c].recvq[k].g # p
             /\ \A k \in 1 .. Len(hchan'[c].sendq) : hchan'[c].sendq[k].g # p
  <2> DEFINE rq == Withdraw(hchan[c].recvq, p)
             sq == Withdraw(hchan[c].sendq, p)
  <2>1. hchan[c] \in ChanState(c) BY DEF IInv, TypeInv
  <2>2. hchan[c].recvq \in Seq(Entry) /\ hchan[c].sendq \in Seq(Entry) BY <2>1 DEF ChanState
  <2>3. /\ \A j, k \in 1 .. Len(hchan[c].recvq) :
             hchan[c].recvq[j].g = hchan[c].recvq[k].g => j = k
        /\ \A j, k \in 1 .. Len(hchan[c].sendq) :
             hchan[c].sendq[j].g = hchan[c].sendq[k].g => j = k
    BY DEF IInv, QueueInv, Rightful, QueueAt, Sides
  <2>4. /\ rq \in Seq(Entry) /\ Fewer(hchan[c].recvq, rq, Waiting)
        /\ \A k \in 1 .. Len(rq) : rq[k].g # p
    BY <1>5, <2>2, <2>3, WithdrawFacts
  <2>5. /\ sq \in Seq(Entry) /\ Fewer(hchan[c].sendq, sq, Waiting)
        /\ \A k \in 1 .. Len(sq) : sq[k].g # p
    BY <1>5, <2>2, <2>3, WithdrawFacts
  <2>6. hchan'[c] = [hchan[c] EXCEPT !.recvq = rq, !.sendq = sq] BY <1>1
  <2> HIDE DEF rq, sq
  <2>7. /\ hchan'[c] \in ChanState(c) /\ hchan'[c].recvq = rq /\ hchan'[c].sendq = sq
        /\ hchan'[c].closed = hchan[c].closed /\ hchan'[c].buf = hchan[c].buf
        /\ hchan'[c].qcount = hchan[c].qcount /\ hchan'[c].sendx = hchan[c].sendx
        /\ hchan'[c].recvx = hchan[c].recvx
    BY <2>1, <2>4, <2>5, <2>6 DEF ChanState
  <2> QED BY <2>4, <2>5, <2>7 DEF rq, sq
<1>7. DOMAIN hchan' = Chans /\ hchan' = [c \in Chans |-> hchan'[c]] BY <1>1
<1>8. TypeInv' BY <1>1, <1>4, <1>6, <1>7 DEF IInv, TypeInv
<1>9. op[p].select BY <1>1 DEF IInv, OpInv, SelectPCs
<1>10. OpInv' /\ LockInv'
  <2>1. \A g \in Procs : Moves(g) BY <1>1, <1>4 DEF Moves
  <2> QED BY <1>1, <2>1, LocksKept DEF IInv
<1>11. WakeInv'
  <2>1. ASSUME NEW g \in Procs PROVE Wake(g)'
    <3>1. Wake(g) BY DEF IInv, WakeInv
    <3>2. CasesOf(g)' = CasesOf(g) BY <1>1 DEF CasesOf
    <3>3. param[g] # 0 => hchan'[op[g].cases[param[g]].ch].closed
                            = hchan[op[g].cases[param[g]].ch].closed
      BY <1>6, <3>1, CaseFacts DEF IInv, Wake
    <3>4. CASE g = p
      BY <1>1, <1>3, <1>4, <3>1, <3>2, <3>4 DEF Wake, TakenPCs
    <3>5. CASE g # p
      BY <1>1, <1>4, <3>1, <3>2, <3>3, <3>5 DEF Wake
    <3> QED BY <3>4, <3>5
  <2> QED BY <1>1, <2>1 DEF IInv, WakeInv
<1>12. QueueInv'
  <2>1. Waiting' = Waiting BY <1>1, <1>4 DEF Waiting, Parked
  <2>2. ASSUME NEW c \in Chans, NEW dir \in Sides
        PROVE  /\ Fewer(QueueAt(hchan, c, dir), QueueAt(hchan', c, dir), Waiting')
               /\ \A k \in 1 .. Len(QueueAt(hchan', c, dir)) : Stays(QueueAt(hchan', c, dir)[k].g)
    <3>1. /\ Fewer(QueueAt(hchan, c, dir), QueueAt(hchan', c, dir), Waiting')
          /\ \A k \in 1 .. Len(QueueAt(hchan', c, dir)) : QueueAt(hchan', c, dir)[k].g # p
      BY <1>6, <2>1 DEF QueueAt
    <3>2. ASSUME NEW k \in 1 .. Len(QueueAt(hchan', c, dir))
          PROVE  Stays(QueueAt(hchan', c, dir)[k].g)
      <4> DEFINE g == QueueAt(hchan', c, dir)[k].g
      <4>1. PICK j \in 1 .. Len(QueueAt(hchan, c, dir)) :
                 QueueAt(hchan, c, dir)[j] = QueueAt(hchan', c, dir)[k]
        BY <3>1 DEF Fewer, Occurs
      <4>2. /\ g \in Procs /\ pc[g] \in QueuedPCs /\ g # p
            /\ ~op[g].select => Parked(g)
        BY <3>1, <4>1, LiveIff DEF IInv
      <4> HIDE DEF g
      <4>3. Stays(g) BY <1>1, <1>4, <4>2 DEF Stays, Parked
      <4> QED BY <4>3 DEF g
    <3> QED BY <3>1, <3>2
  <2>3. \A c \in Chans :
          /\ hchan'[c].closed => hchan[c].closed
          /\ Cap[c] > 0 /\ hchan'[c].qcount > 0      => hchan'[c].recvq = << >>
          /\ Cap[c] > 0 /\ hchan'[c].qcount < Cap[c] => hchan'[c].sendq = << >>
    <3> SUFFICES ASSUME NEW c \in Chans
                 PROVE  /\ hchan'[c].closed => hchan[c].closed
                        /\ Cap[c] > 0 /\ hchan'[c].qcount > 0      => hchan'[c].recvq = << >>
                        /\ Cap[c] > 0 /\ hchan'[c].qcount < Cap[c] => hchan'[c].sendq = << >>
      OBVIOUS
    <3>1. Shape(c) BY DEF IInv, QueueInv
    <3>2. /\ hchan'[c].recvq \in Seq(Entry) /\ hchan'[c].sendq \in Seq(Entry)
      BY <1>6 DEF ChanState
    <3>3. /\ hchan[c].recvq = << >> => hchan'[c].recvq = << >>
          /\ hchan[c].sendq = << >> => hchan'[c].sendq = << >>
      BY <1>6, <3>2 DEF Fewer, Occurs
    <3> QED BY <1>6, <3>1, <3>3 DEF Shape
  <2> QED BY <1>1, <1>8, <2>1, <2>2, <2>3, QueuesFewer DEF IInv
<1>13. RingInv' BY <1>6 DEF IInv, RingInv, Ring
<1> QED BY <1>8, <1>10, <1>11, <1>12, <1>13 DEF IInv

-----------------------------------------------------------------------------
(* closechan *)

(* A close takes every goroutine that waits on the channel, and no other,     *)
(* each by one of its sudogs.                                                 *)
LEMMA WinnersFacts ==
  ASSUME TypeInv, WakeInv, QueueInv, NEW c \in Chans
  PROVE  LET ss == Winners(hchan[c].recvq \o hchan[c].sendq) IN
         /\ \A s \in ss :
              /\ s.g \in Procs /\ Parked(s.g)
              /\ s.i \in CasesOf(s.g) /\ s.i \in Nat \ {0}
              /\ op[s.g].cases[s.i].ch = c
         /\ \A dir \in Sides : \A k \in 1 .. Len(QueueAt(hchan, c, dir)) :
              QueueAt(hchan, c, dir)[k].g \in Waiting =>
                \E s \in ss : s.g = QueueAt(hchan, c, dir)[k].g
<1> DEFINE rq == hchan[c].recvq
           sq == hchan[c].sendq
           q  == rq \o sq
           T  == {n \in LiveAt(q) : \A j \in 1 .. n - 1 : q[j].g # q[n].g}
           ss == {q[k] : k \in T}
<1>1. /\ rq = QueueAt(hchan, c, "recv") /\ sq = QueueAt(hchan, c, "send")
      /\ "recv" \in Sides /\ "send" \in Sides
  BY DEF QueueAt, Sides
<1>2. rq \in Seq(Entry) /\ sq \in Seq(Entry) BY <1>1, QueueFacts
<1>3. ASSUME NEW k \in 1 .. Len(rq)
      PROVE  /\ rq[k].g \in Procs /\ rq[k].i \in CasesOf(rq[k].g) /\ rq[k].i \in Nat \ {0}
             /\ op[rq[k].g].cases[rq[k].i].ch = c
             /\ Live(rq[k]) <=> rq[k].g \in Waiting
  <2> DEFINE s == QueueAt(hchan, c, "recv")[k]
  <2>1. k \in 1 .. Len(QueueAt(hchan, c, "recv")) /\ s = rq[k] BY <1>1
  <2>2. /\ s.g \in Procs /\ s.i \in CasesOf(s.g) /\ s.i \in Nat \ {0}
        /\ op[s.g].cases[s.i] = Case(c, "recv")
        /\ Live(s) <=> s.g \in Waiting
    BY <1>1, <2>1, LiveIff
  <2>3. Case(c, "recv").ch = c BY DEF Case
  <2> QED BY <2>1, <2>2, <2>3
<1>4. ASSUME NEW k \in 1 .. Len(sq)
      PROVE  /\ sq[k].g \in Procs /\ sq[k].i \in CasesOf(sq[k].g) /\ sq[k].i \in Nat \ {0}
             /\ op[sq[k].g].cases[sq[k].i].ch = c
             /\ Live(sq[k]) <=> sq[k].g \in Waiting
  <2> DEFINE s == QueueAt(hchan, c, "send")[k]
  <2>1. k \in 1 .. Len(QueueAt(hchan, c, "send")) /\ s = sq[k] BY <1>1
  <2>2. /\ s.g \in Procs /\ s.i \in CasesOf(s.g) /\ s.i \in Nat \ {0}
        /\ op[s.g].cases[s.i] = Case(c, "send")
        /\ Live(s) <=> s.g \in Waiting
    BY <1>1, <2>1, LiveIff
  <2>3. Case(c, "send").ch = c BY DEF Case
  <2> QED BY <2>1, <2>2, <2>3
<1>5. Winners(q) = ss BY DEF Winners
<1> HIDE DEF rq, sq
<1>6. /\ q \in Seq(Entry) /\ Len(q) = Len(rq) + Len(sq) BY <1>2
<1>7. Len(rq) \in Nat /\ Len(sq) \in Nat /\ DOMAIN q = 1 .. Len(q) BY <1>2, <1>6
<1>8. \A k \in 1 .. Len(rq) + Len(sq) : q[k] = IF k <= Len(rq) THEN rq[k] ELSE sq[k - Len(rq)]
  BY <1>2
<1> HIDE DEF q
<1>9. ASSUME NEW k \in 1 .. Len(q)
      PROVE  \/ k \in 1 .. Len(rq) /\ q[k] = rq[k]
             \/ k - Len(rq) \in 1 .. Len(sq) /\ q[k] = sq[k - Len(rq)]
  <2>1. CASE k <= Len(rq) BY <1>6, <1>7, <1>8, <2>1
  <2>2. CASE ~(k <= Len(rq)) BY <1>6, <1>7, <1>8, <2>2
  <2> QED BY <2>1, <2>2
<1>10. \A k \in 1 .. Len(q) :
         /\ q[k].g \in Procs /\ q[k].i \in CasesOf(q[k].g) /\ q[k].i \in Nat \ {0}
         /\ op[q[k].g].cases[q[k].i].ch = c
         /\ Live(q[k]) <=> q[k].g \in Waiting
  BY <1>3, <1>4, <1>9
<1>11. ASSUME NEW s \in ss
       PROVE  /\ s.g \in Procs /\ Parked(s.g)
              /\ s.i \in CasesOf(s.g) /\ s.i \in Nat \ {0}
              /\ op[s.g].cases[s.i].ch = c
  <2>1. PICK k \in 1 .. Len(q) : s = q[k] /\ Live(q[k]) BY <1>7 DEF LiveAt
  <2> QED BY <1>10, <2>1 DEF Waiting
<1>12. ASSUME NEW k \in 1 .. Len(q), q[k].g \in Waiting
       PROVE  \E s \in ss : s.g = q[k].g
  <2> DEFINE A == {j \in 1 .. Len(q) : q[j].g = q[k].g}
  <2>1. A \in SUBSET Nat /\ A # {} BY <1>6
  <2>2. PICK n \in A : \A j \in A : n <= j
    <3> HIDE DEF A
    <3> QED BY <2>1, LeastNat
  <2>3. n \in 1 .. Len(q) /\ q[n].g = q[k].g /\ n \in Nat OBVIOUS
  <2>4. n \in LiveAt(q) BY <1>7, <1>10, <1>12, <2>3 DEF LiveAt
  <2>5. \A j \in 1 .. n - 1 : q[j].g # q[n].g
    <3> SUFFICES ASSUME NEW j \in 1 .. n - 1, q[j].g = q[n].g PROVE FALSE
      OBVIOUS
    <3>1. j \in 1 .. Len(q) /\ ~(n <= j) BY <1>6, <1>7, <2>3
    <3>2. j \in A BY <2>3, <3>1
    <3> QED BY <2>2, <3>1, <3>2
  <2>6. n \in T BY <2>4, <2>5
  <2> QED BY <2>3, <2>6
<1>13. \A k \in 1 .. Len(rq) : k \in 1 .. Len(q) /\ q[k] = rq[k]
  BY <1>6, <1>7, <1>8
<1>14. ASSUME NEW k \in 1 .. Len(sq)
       PROVE  k + Len(rq) \in 1 .. Len(q) /\ q[k + Len(rq)] = sq[k]
  <2>1. /\ k + Len(rq) \in 1 .. Len(rq) + Len(sq) /\ ~(k + Len(rq) <= Len(rq))
        /\ k + Len(rq) - Len(rq) = k
    BY <1>7
  <2> QED BY <1>6, <1>8, <2>1
<1> HIDE DEF ss
<1>15. ASSUME NEW dir \in Sides, NEW k \in 1 .. Len(QueueAt(hchan, c, dir)),
              QueueAt(hchan, c, dir)[k].g \in Waiting
       PROVE  \E s \in ss : s.g = QueueAt(hchan, c, dir)[k].g
  <2>1. CASE dir = "recv"
    <3>1. k \in 1 .. Len(q) /\ q[k] = QueueAt(hchan, c, dir)[k] BY <1>1, <1>13, <2>1
    <3>2. \E s \in ss : s.g = q[k].g BY <1>12, <1>15, <3>1
    <3> QED BY <3>1, <3>2
  <2>2. CASE dir = "send"
    <3>1. k + Len(rq) \in 1 .. Len(q) /\ q[k + Len(rq)] = QueueAt(hchan, c, dir)[k]
      BY <1>1, <1>14, <2>2
    <3>2. \E s \in ss : s.g = q[k + Len(rq)].g BY <1>12, <1>15, <3>1
    <3> QED BY <3>1, <3>2
  <2> QED BY <2>1, <2>2 DEF Sides
<1> QED BY <1>5, <1>11, <1>15 DEF q, rq, sq

LEMMA CloseStep ==
  ASSUME IInv, NEW p \in Procs, Close(p)
  PROVE  IInv'
<1> DEFINE c  == CaseOf(p).ch
           ss == Winners(hchan[c].recvq \o hchan[c].sendq)
           gs == {s.g : s \in ss}
           At(g) == CHOOSE s \in ss : s.g = g
<1>1. /\ pc[p] = "lock" /\ CaseOf(p).dir = "close" /\ ~hchan[c].closed
      /\ hchan' = [hchan EXCEPT ![c].closed = TRUE, ![c].recvq = << >>, ![c].sendq = << >>]
      /\ pc' = [pc EXCEPT ![p] = AfterCase(p, gs)]
      /\ param' = [g \in Procs |-> IF g \in gs THEN At(g).i ELSE param[g]]
      /\ success' = [g \in Procs |-> g \notin gs /\ success[g]]
      /\ selectDone' = [g \in Procs |-> IF g \in gs THEN op[g].select ELSE selectDone[g]]
      /\ glist' = [glist EXCEPT ![p] = gs]
      /\ UNCHANGED << op, elem, held, parking >>
  BY DEF Close, Locked, ChanOf, lockVars
<1>2. ~op[p].select /\ op[p] # NoOp BY <1>1 DEF IInv, OpInv, PlainPCs
<1>3. c \in Chans
  <2>1. CasesOf(p) = {1} BY <1>2, CaseFacts DEF IInv
  <2> QED BY <2>1, CaseFacts DEF IInv, CaseOf
<1>4. /\ \A s \in ss : /\ s.g \in Procs /\ Parked(s.g)
                       /\ s.i \in CasesOf(s.g) /\ s.i \in Nat \ {0}
                       /\ op[s.g].cases[s.i].ch = c
      /\ \A dir \in Sides : \A k \in 1 .. Len(QueueAt(hchan, c, dir)) :
           QueueAt(hchan, c, dir)[k].g \in Waiting =>
             \E s \in ss : s.g = QueueAt(hchan, c, dir)[k].g
  <2> HIDE DEF c
  <2> QED BY <1>3, WinnersFacts DEF IInv
<1> HIDE DEF ss
<1>5. ASSUME NEW g \in gs
      PROVE  /\ g \in Procs /\ g \in Waiting /\ pc[g] = "parked" /\ param[g] = 0
             /\ At(g).i \in CasesOf(g) /\ At(g).i \in Nat \ {0}
             /\ op[g].cases[At(g).i].ch = c
  <2>1. At(g) \in ss /\ At(g).g = g OBVIOUS
  <2> HIDE DEF At
  <2> QED BY <1>4, <2>1 DEF Waiting, Parked
<1> HIDE DEF At
<1>6. \A dir \in Sides : \A k \in 1 .. Len(QueueAt(hchan, c, dir)) :
        QueueAt(hchan, c, dir)[k].g \in Waiting => QueueAt(hchan, c, dir)[k].g \in gs
  BY <1>4
<1> HIDE DEF gs
<1>7. AfterCase(p, gs) = IF gs # {} THEN "ready" ELSE "done" BY <1>2 DEF AfterCase
<1>8. /\ pc'[p] = IF gs # {} THEN "ready" ELSE "done"
      /\ \A g \in Procs : g # p => pc'[g] = pc[g]
      /\ pc' \in [Procs -> PCs]
  BY <1>1, <1>7 DEF IInv, TypeInv, PCs
<1>9. /\ \A g \in gs : /\ param'[g] = At(g).i /\ success'[g] = FALSE
                       /\ selectDone'[g] = op[g].select
      /\ \A g \in Procs : g \notin gs => /\ param'[g] = param[g] /\ success'[g] = success[g]
                                         /\ selectDone'[g] = selectDone[g]
      /\ glist'[p] = gs /\ \A g \in Procs : g # p => glist'[g] = glist[g]
      /\ gs \subseteq Procs
  BY <1>1, <1>5 DEF IInv, TypeInv
<1> HIDE DEF c
<1>10. /\ hchan'[c] \in ChanState(c) /\ hchan'[c].closed
       /\ hchan'[c].recvq = << >> /\ hchan'[c].sendq = << >>
       /\ hchan'[c].buf = hchan[c].buf /\ hchan'[c].qcount = hchan[c].qcount
       /\ hchan'[c].sendx = hchan[c].sendx /\ hchan'[c].recvx = hchan[c].recvx
       /\ \A d \in Chans : d # c => hchan'[d] = hchan[d]
       /\ DOMAIN hchan' = Chans /\ hchan' = [d \in Chans |-> hchan'[d]]
  <2> DEFINE r == [hchan[c] EXCEPT !.closed = TRUE, !.recvq = << >>, !.sendq = << >>]
  <2>1. hchan[c] \in ChanState(c) /\ << >> \in Seq(Entry) BY <1>3 DEF IInv, TypeInv
  <2>2. /\ r \in ChanState(c) /\ r.closed /\ r.recvq = << >> /\ r.sendq = << >>
        /\ r.buf = hchan[c].buf /\ r.qcount = hchan[c].qcount
        /\ r.sendx = hchan[c].sendx /\ r.recvx = hchan[c].recvx
    BY <2>1 DEF ChanState
  <2>3. hchan' = [hchan EXCEPT ![c] = r] BY <1>1
  <2> HIDE DEF r
  <2>4. DOMAIN hchan' = Chans /\ hchan'[c] = r /\ \A d \in Chans : d # c => hchan'[d] = hchan[d]
    BY <1>3, <2>3 DEF IInv, TypeInv
  <2>5. hchan' = [d \in Chans |-> hchan'[d]] BY <2>3, <2>4 DEF IInv, TypeInv
  <2> QED BY <2>2, <2>4, <2>5
<1>11. TypeInv'
  <2>1. param' \in [Procs -> Nat]
    <3>1. \A g \in Procs : (IF g \in gs THEN At(g).i ELSE param[g]) \in Nat
      BY <1>5 DEF IInv, TypeInv
    <3> QED BY <1>1, <3>1
  <2>2. success' \in [Procs -> BOOLEAN] BY <1>1 DEF IInv, TypeInv
  <2>3. selectDone' \in [Procs -> BOOLEAN]
    <3>1. \A g \in Procs : (IF g \in gs THEN op[g].select ELSE selectDone[g]) \in BOOLEAN
      BY CaseFacts DEF IInv, TypeInv
    <3> QED BY <1>1, <3>1
  <2>4. glist' \in [Procs -> SUBSET Procs] BY <1>1, <1>9 DEF IInv, TypeInv
  <2>5. \A d \in Chans : hchan'[d] \in ChanState(d) BY <1>10 DEF IInv, TypeInv
  <2> QED BY <1>1, <1>8, <1>10, <2>1, <2>2, <2>3, <2>4, <2>5 DEF IInv, TypeInv
<1>12. OpInv' /\ LockInv'
  <2>1. \A g \in Procs : Moves(g) BY <1>1, <1>8 DEF Moves, SelectPCs, PlainPCs
  <2> QED BY <1>1, <2>1, LocksKept DEF IInv
<1>13. /\ param[p] = 0 /\ glist[p] = {} /\ p \notin Waiting /\ ~selectDone[p]
       /\ \A q \in Procs : p \notin glist[q]
       /\ \A d \in Chans, e \in Sides :
            \A j \in 1 .. Len(QueueAt(hchan, d, e)) : QueueAt(hchan, d, e)[j].g # p
  BY <1>1, Caller DEF TakenPCs
<1>14. p \notin gs BY <1>5, <1>13
<1>15. \A g \in gs : \A q \in Procs : g \notin glist[q]
  BY <1>5 DEF IInv, WakeInv, Wake
<1>16. WakeInv'
  <2>1. ASSUME NEW g \in Procs PROVE Wake(g)'
    <3>1. Wake(g) BY DEF IInv, WakeInv
    <3>2. CasesOf(g)' = CasesOf(g) BY <1>1 DEF CasesOf
    <3>3. param[g] # 0 =>
            (hchan[op[g].cases[param[g]].ch].closed => hchan'[op[g].cases[param[g]].ch].closed)
      BY <1>10, <3>1, CaseFacts DEF IInv, Wake
    <3>4. g \in gs => \E q \in Procs : g \in glist'[q] BY <1>9
    <3>5. g \notin gs => ((\E q \in Procs : g \in glist'[q]) <=> \E q \in Procs : g \in glist[q])
      BY <1>9, <1>13
    <3>6. CASE g = p
      BY <1>1, <1>8, <1>9, <1>13, <1>14, <3>1, <3>2, <3>5, <3>6 DEF Wake, TakenPCs
    <3>7. CASE g \in gs
      <4>1. /\ param'[g] = At(g).i /\ param'[g] \in CasesOf(g)' /\ param'[g] # 0
            /\ pc'[g] = "parked" /\ pc[g] = "parked" /\ g # p
            /\ glist'[g] = glist[g] /\ selectDone'[g] = op'[g].select
        BY <1>1, <1>5, <1>8, <1>9, <1>14, <3>2, <3>7
      <4>2. hchan'[op'[g].cases[param'[g]].ch].closed BY <1>1, <1>5, <1>10, <3>7, <4>1
      <4>3. glist'[g] = {} BY <3>1, <4>1 DEF Wake
      <4> QED BY <3>4, <3>7, <4>1, <4>2, <4>3 DEF Wake, TakenPCs
    <3>8. CASE g # p /\ g \notin gs
      BY <1>1, <1>8, <1>9, <3>1, <3>2, <3>3, <3>5, <3>8 DEF Wake
    <3> QED BY <3>6, <3>7, <3>8
  <2>2. ASSUME NEW g \in Procs, NEW q \in Procs, NEW r \in Procs,
               g \in glist'[q], g \in glist'[r]
        PROVE  q = r
    BY <1>9, <1>15, <2>2 DEF IInv, WakeInv
  <2> QED BY <2>1, <2>2 DEF WakeInv
<1>17. Waiting' = Waiting \ gs
  <2>1. ASSUME NEW g \in Procs PROVE Parked(g)' <=> Parked(g) /\ g \notin gs
    BY <1>1, <1>5, <1>8, <1>9 DEF Parked
  <2> QED BY <2>1 DEF Waiting
<1>18. QueueInv'
  <2>1. ASSUME NEW d \in Chans, NEW e \in Sides
        PROVE  /\ Fewer(QueueAt(hchan, d, e), QueueAt(hchan', d, e), Waiting')
               /\ \A j \in 1 .. Len(QueueAt(hchan', d, e)) : Stays(QueueAt(hchan', d, e)[j].g)
    <3>1. CASE d = c
      <4>1. QueueAt(hchan', d, e) = << >> BY <1>10, <3>1 DEF QueueAt
      <4>2. Len(QueueAt(hchan', d, e)) = 0 BY <4>1
      <4>3. 1 .. Len(QueueAt(hchan', d, e)) = {} BY <4>2
      <4>4. \A k \in 1 .. Len(QueueAt(hchan, d, e)) : QueueAt(hchan, d, e)[k].g \notin Waiting'
        BY <1>6, <1>17, <3>1
      <4> QED BY <4>3, <4>4 DEF Fewer
    <3>2. CASE d # c
      <4>1. QueueAt(hchan', d, e) = QueueAt(hchan, d, e) BY <1>10, <3>2 DEF QueueAt
      <4>2. \A j, k \in 1 .. Len(QueueAt(hchan, d, e)) :
              QueueAt(hchan, d, e)[j].g = QueueAt(hchan, d, e)[k].g => j = k
        BY DEF IInv, QueueInv, Rightful
      <4>3. Fewer(QueueAt(hchan, d, e), QueueAt(hchan, d, e), Waiting')
        BY <4>2 DEF Fewer, Occurs
      <4>4. ASSUME NEW j \in 1 .. Len(QueueAt(hchan, d, e))
            PROVE  Stays(QueueAt(hchan, d, e)[j].g)
        <5> DEFINE g == QueueAt(hchan, d, e)[j].g
        <5>1. /\ g \in Procs /\ pc[g] \in QueuedPCs /\ g # p
              /\ QueueAt(hchan, d, e)[j].i \in CasesOf(g)
              /\ op[g].cases[QueueAt(hchan, d, e)[j].i] = Case(d, e)
              /\ ~op[g].select => Parked(g)
          BY <1>13, LiveIff DEF IInv
        <5> HIDE DEF g
        <5>2. ~op[g].select => g \notin gs
          <6> SUFFICES ASSUME ~op[g].select, g \in gs PROVE FALSE OBVIOUS
          <6>1. op[g] # NoOp BY <1>5, <5>1 DEF IInv, OpInv
          <6>2. CasesOf(g) = {1} BY <5>1, <6>1, CaseFacts DEF IInv
          <6>3. Case(d, e).ch = c BY <1>5, <5>1, <6>2
          <6> QED BY <3>2, <6>3 DEF Case
        <5>3. Stays(g) BY <1>1, <1>8, <1>9, <5>1, <5>2 DEF Stays, Parked
        <5> QED BY <5>3 DEF g
      <4> QED BY <4>1, <4>3, <4>4
    <3> QED BY <3>1, <3>2
  <2>2. \A d \in Chans :
          /\ hchan'[d].closed => hchan[d].closed \/ (hchan'[d].recvq = << >> /\ hchan'[d].sendq = << >>)
          /\ Cap[d] > 0 /\ hchan'[d].qcount > 0      => hchan'[d].recvq = << >>
          /\ Cap[d] > 0 /\ hchan'[d].qcount < Cap[d] => hchan'[d].sendq = << >>
    BY <1>10 DEF IInv, QueueInv, Shape
  <2> QED BY <1>1, <1>11, <1>17, <2>1, <2>2, QueuesFewer DEF IInv
<1>19. RingInv' BY <1>10 DEF IInv, RingInv, Ring
<1> QED BY <1>11, <1>12, <1>16, <1>18, <1>19 DEF IInv

-----------------------------------------------------------------------------
(* The invariant *)

LEMMA InitInv ==
  ASSUME Init
  PROVE  IInv
<1>1. /\ hchan = [c \in Chans |-> EmptyChan(c)]
      /\ \A p \in Procs : /\ pc[p] = "idle" /\ op[p] = NoOp /\ param[p] = 0
                          /\ success[p] = FALSE /\ elem[p] = NoVal /\ selectDone[p] = FALSE
                          /\ glist[p] = {} /\ held[p] = {} /\ parking[p] = {}
  BY DEF Init
<1>2. ASSUME NEW c \in Chans
      PROVE  /\ hchan[c] \in ChanState(c) /\ Ring(hchan[c], c)
             /\ hchan[c].recvq = << >> /\ hchan[c].sendq = << >>
             /\ hchan[c].qcount = 0 /\ ~hchan[c].closed
  <2> DEFINE b == [k \in 0 .. Cap[c] - 1 |-> NoVal]
  <2>1. /\ hchan[c].buf = b /\ hchan[c].sendx = 0 /\ hchan[c].recvx = 0
        /\ hchan[c].qcount = 0 /\ ~hchan[c].closed
        /\ hchan[c].recvq = << >> /\ hchan[c].sendq = << >>
    BY <1>1 DEF EmptyChan
  <2>2. b \in [0 .. Cap[c] - 1 -> Procs \cup {NoVal}] /\ << >> \in Seq(Entry) OBVIOUS
  <2>3. hchan[c] \in ChanState(c) BY <1>1, <2>2 DEF EmptyChan, ChanState
  <2>4. Cap[c] \in Nat BY ChanAssumption
  <2>5. ASSUME Cap[c] > 0 PROVE 0 % Cap[c] = 0 BY <2>4, <2>5
  <2>6. ASSUME Cap[c] > 0, NEW k \in 0 .. Cap[c] - 1
        PROVE  b[k] = NoVal /\ ~((k + Cap[c] - 0) % Cap[c] < 0)
    <3>1. k + Cap[c] - 0 \in Nat BY <2>4
    <3>2. (k + Cap[c] - 0) % Cap[c] \in 0 .. Cap[c] - 1 BY <2>4, <2>6, <3>1
    <3> QED BY <2>4, <2>6, <3>2
  <2> HIDE DEF b
  <2>7. Ring(hchan[c], c)
    <3> DEFINE r == hchan[c]
    <3>1. r.buf = b /\ r.sendx = 0 /\ r.recvx = 0 /\ r.qcount = 0 BY <2>1
    <3> HIDE DEF r
    <3>2. r.qcount <= Cap[c] BY <2>4, <3>1
    <3>3. ASSUME Cap[c] > 0 PROVE r.recvx < Cap[c] /\ r.sendx = (r.recvx + r.qcount) % Cap[c]
      <4>1. r.recvx + r.qcount = 0 BY <3>1
      <4> QED BY <2>5, <3>1, <3>3, <4>1
    <3>4. ASSUME Cap[c] > 0, NEW k \in 0 .. Cap[c] - 1
          PROVE  r.buf[k] # NoVal <=> (k + Cap[c] - r.recvx) % Cap[c] < r.qcount
      BY <2>6, <3>1, <3>4
    <3>5. Ring(r, c) BY <3>1, <3>2, <3>3, <3>4 DEF Ring
    <3> QED BY <3>5 DEF r
  <2> QED BY <2>1, <2>3, <2>7
<1>3. TypeInv
  <2>1. DOMAIN hchan = Chans /\ hchan = [c \in Chans |-> hchan[c]] BY <1>1
  <2>2. /\ pc \in [Procs -> PCs] /\ op \in [Procs -> Ops \cup {NoOp}] /\ param \in [Procs -> Nat]
        /\ success \in [Procs -> BOOLEAN] /\ selectDone \in [Procs -> BOOLEAN]
        /\ elem \in [Procs -> Procs \cup {NoVal}] /\ glist \in [Procs -> SUBSET Procs]
        /\ held \in [Procs -> SUBSET Chans] /\ parking \in [Procs -> SUBSET Chans]
    BY DEF Init, PCs
  <2> QED BY <1>2, <2>1, <2>2 DEF TypeInv
<1>4. ~NoOp.select BY DEF NoOp
<1>5. OpInv BY <1>1, <1>4 DEF OpInv, SelectPCs
<1>6. LockInv BY <1>1 DEF LockInv, Locks, SelLockStates
<1>7. WakeInv BY <1>1, <1>4 DEF WakeInv, Wake, TakenPCs
<1>8. QueueInv
  <2>1. ASSUME NEW c \in Chans, NEW dir \in Sides PROVE Rightful(QueueAt(hchan, c, dir), c, dir)
    <3>1. QueueAt(hchan, c, dir) = << >> BY <1>2 DEF QueueAt
    <3>2. Len(QueueAt(hchan, c, dir)) = 0 BY <3>1
    <3>3. 1 .. Len(QueueAt(hchan, c, dir)) = {} BY <3>2
    <3> QED BY <3>3 DEF Rightful
  <2>2. Present BY <1>1 DEF Present, Parked
  <2>3. \A c \in Chans : Shape(c) BY <1>2 DEF Shape, AtMostOneQueue
  <2> QED BY <2>1, <2>2, <2>3 DEF QueueInv
<1>9. RingInv BY <1>2 DEF RingInv
<1> QED BY <1>3, <1>5, <1>6, <1>7, <1>8, <1>9 DEF IInv

LEMMA NextInv ==
  ASSUME IInv, [Next]_vars
  PROVE  IInv'
<1>1. ASSUME NEW p \in Procs, Call(p) PROVE IInv' BY <1>1, CallStep
<1>2. ASSUME NEW p \in Procs, ChanStep(p) PROVE IInv'
  <2>1. CASE SendFastClosed(p) \/ SendFastFull(p) \/ RecvFastEmpty(p) \/ RecvFastOpen(p)
               \/ RecvFastDrained(p)
    BY <2>1, FastPaths
  <2>2. CASE Communicate(p) BY <2>2, CommunicateStep
  <2>3. CASE GiveUp(p) BY <2>3, GiveUpStep
  <2>4. CASE Park(p) BY <2>4, ParkAction
  <2>5. CASE CloseAgain(p) BY <2>5, CloseAgainStep
  <2>6. CASE Close(p) BY <2>6, CloseStep
  <2>7. CASE ReadyOne(p) BY <2>7, ReadyOneStep
  <2>8. CASE Woken(p) BY <2>8, WokenStep
  <2>9. CASE Return(p) BY <2>9, ReturnStep
  <2> QED BY <1>2, <2>1, <2>2, <2>3, <2>4, <2>5, <2>6, <2>7, <2>8, <2>9 DEF ChanStep
<1>3. ASSUME NEW p \in Procs, SelectStep(p) PROVE IInv'
  <2>1. CASE SelLock(p) BY <2>1, SelLockStep
  <2>2. CASE SelUnlock(p) BY <2>2, SelUnlockStep
  <2>3. CASE SelectCase(p) BY <2>3, SelectCaseStep
  <2>4. CASE SelectDefault(p) BY <2>4, SelectDefaultStep
  <2>5. CASE SelectPark(p) BY <2>5, SelectParkAction
  <2>6. CASE SelParkCommit(p) BY <2>6, SelParkCommitStep
  <2>7. CASE SelectWoken(p) BY <2>7, SelectWokenStep
  <2> QED BY <1>3, <2>1, <2>2, <2>3, <2>4, <2>5, <2>6, <2>7 DEF SelectStep
<1>4. CASE UNCHANGED vars
  <2>1. UNCHANGED << hchan, pc, op, param, success, elem, selectDone, glist, held, parking >>
    BY <1>4 DEF vars, chanVars, sudogVars, lockVars
  <2>2. TypeInv' BY <2>1 DEF IInv, TypeInv
  <2>3. OpInv' BY <2>1 DEF IInv, OpInv
  <2>4. LockInv' BY <2>1 DEF IInv, LockInv, Locks, ChansOf, CaseSet, CasesOf
  <2>5. WakeInv' BY <2>1 DEF IInv, WakeInv, Wake, CasesOf
  <2>6. QueueInv'
    <3>1. \A g \in Waiting' : g \in Waiting /\ op'[g] = op[g] BY <2>1 DEF Waiting, Parked
    <3>2. \A g \in Procs : pc[g] \in QueuedPCs /\ (~op[g].select => Parked(g)) => Stays(g)
      BY <2>1 DEF Stays, Parked
    <3> QED BY <2>1, <2>2, <3>1, <3>2, QueuesSame DEF IInv
  <2>7. RingInv' BY <2>1 DEF IInv, RingInv
  <2> QED BY <2>2, <2>3, <2>4, <2>5, <2>6, <2>7 DEF IInv
<1> QED BY <1>1, <1>2, <1>3, <1>4 DEF Next

(* IInv holds in every reachable state, whatever the goroutines, the          *)
(* channels, their capacities and addresses, and the calls.                   *)
THEOREM Inductive == Spec => []IInv
<1>1. InitAll => IInv BY InitInv DEF InitAll
<1>2. IInv /\ [Next]_vars => IInv' BY NextInv
<1> QED BY <1>1, <1>2, PTL DEF Spec

-----------------------------------------------------------------------------
(* What follows *)

(* No call reaches a throw: a goroutine that goready readies is parked, a     *)
(* select that wakes knows which case was taken, and a sender that wakes      *)
(* without having been received from finds its channel closed.                *)
THEOREM NeverThrows == Spec => []NoThrow
<1>1. IInv => NoThrow BY DEF IInv, WakeInv, Wake, NoThrow
<1> QED BY <1>1, Inductive, PTL

(* A goroutine that was taken is in the list of exactly one other, which will *)
(* ready it, and one whose call is over is on no queue.                       *)
THEOREM OneReadies == Spec => []ReadiedOnce
<1>1. ASSUME IInv PROVE ReadiedOnce
  <2> SUFFICES ASSUME NEW p \in Procs
               PROVE  /\ pc[p] = "parked" /\ param[p] # 0 <=> p \in UNION {glist[q] : q \in Procs}
                      /\ \A q, r \in Procs : p \in glist[q] \cap glist[r] => q = r
                      /\ pc[p] = "idle" =>
                           \A c \in Chans : p \notin Waiters(hchan[c].recvq \o hchan[c].sendq)
    BY DEF ReadiedOnce
  <2>1. pc[p] = "parked" /\ param[p] # 0 <=> \E q \in Procs : p \in glist[q]
    BY <1>1 DEF IInv, WakeInv, Wake
  <2>2. \A q, r \in Procs : p \in glist[q] /\ p \in glist[r] => q = r
    BY <1>1 DEF IInv, WakeInv
  <2>3. ASSUME pc[p] = "idle", NEW c \in Chans, p \in Waiters(hchan[c].recvq \o hchan[c].sendq)
        PROVE  FALSE
    <3> DEFINE a == hchan[c].recvq
               b == hchan[c].sendq
    <3>1. /\ a \in Seq(Entry) /\ b \in Seq(Entry)
          /\ a = QueueAt(hchan, c, "recv") /\ b = QueueAt(hchan, c, "send")
      BY <1>1, QueueFacts DEF IInv, Sides
    <3>2. /\ \A k \in 1 .. Len(a) : a[k].g # p
          /\ \A k \in 1 .. Len(b) : b[k].g # p
      BY <1>1, <2>3, <3>1, Caller DEF TakenPCs, Sides
    <3> HIDE DEF a, b
    <3>3. a \in Seq(Entry) /\ b \in Seq(Entry) BY <3>1
    <3>4. Len(a) \in Nat /\ Len(b) \in Nat BY <3>3
    <3>5. DOMAIN (a \o b) = 1 .. Len(a) + Len(b) BY <3>3
    <3>6. \A k \in 1 .. Len(a) + Len(b) : (a \o b)[k] = IF k <= Len(a) THEN a[k] ELSE b[k - Len(a)]
      BY <3>3
    <3>7. PICK k \in 1 .. Len(a) + Len(b) : (a \o b)[k].g = p
      BY <2>3, <3>5 DEF Waiters, a, b
    <3>8. CASE k <= Len(a) BY <3>2, <3>4, <3>6, <3>7, <3>8
    <3>9. CASE ~(k <= Len(a))
      <4>1. k - Len(a) \in 1 .. Len(b) BY <3>4, <3>9
      <4> QED BY <3>2, <3>6, <3>7, <3>9, <4>1
    <3> QED BY <3>8, <3>9
  <2> QED BY <2>1, <2>2, <2>3
<1> QED BY <1>1, Inductive, PTL

(* Selects do not deadlock on the channel locks: of any goroutines, the one   *)
(* that wants the lock at the highest address waits for none of the others.   *)
THEOREM LocksOrdered == Spec => []NoLockCycle
<1>1. ASSUME IInv PROVE NoLockCycle
  <2> SUFFICES ASSUME NEW S \in SUBSET Procs, S # {},
                      \A p \in S : \E q \in S : WaitsFor(p, q)
               PROVE  FALSE
    BY DEF NoLockCycle
  <2> DEFINE A == {Addr[NextLock(p)] : p \in S}
  <2>1. ASSUME NEW p \in S
        PROVE  /\ pc[p] \in SelLockStates /\ Addr[NextLock(p)] \in Nat
               /\ NextLock(p) \in ChansOf(p) \ held[p]
    <3>1. pc[p] \in SelLockStates BY DEF WaitsFor
    <3>2. NextLock(p) \in ChansOf(p) \ held[p] /\ \A c \in Chans : Addr[c] \in Nat
      BY <1>1, <3>1, NextLockFacts DEF IInv
    <3>3. ChansOf(p) \subseteq Chans BY <1>1, CaseFacts DEF IInv
    <3> QED BY <3>1, <3>2, <3>3
  <2>2. A \in SUBSET Nat /\ A # {} BY <2>1
  <2>3. IsFiniteSet(A)
    <3>1. IsFiniteSet(S) BY ChanAssumption, FS_Subset
    <3> DEFINE f == [p \in S |-> Addr[NextLock(p)]]
    <3>2. f \in [S -> A] /\ \A a \in A : \E p \in S : f[p] = a OBVIOUS
    <3> HIDE DEF f, A
    <3>3. f \in Surjection(S, A) BY <3>2 DEF Surjection
    <3> QED BY <3>1, <3>3, FS_Surjection
  <2>4. PICK a \in A : \A b \in A : b <= a
    <3> HIDE DEF A
    <3> QED BY <2>2, <2>3, GreatestNat
  <2>5. PICK p \in S : a = Addr[NextLock(p)] OBVIOUS
  <2>6. PICK q \in S : WaitsFor(p, q) OBVIOUS
  <2>7. NextLock(p) \in held[q] BY <2>6 DEF WaitsFor
  <2>8. Locks(q) BY <1>1 DEF IInv, LockInv
  <2>9. Addr[NextLock(p)] < Addr[NextLock(q)] BY <2>1, <2>7, <2>8 DEF Locks
  <2>10. Addr[NextLock(q)] <= Addr[NextLock(p)] BY <2>4, <2>5
  <2> QED BY <2>1, <2>9, <2>10
<1> QED BY <1>1, Inductive, PTL

(* What chan.go says at its top of a channel: senders and receivers wait on   *)
(* it at once only as the sudogs of one select, a buffered channel that holds *)
(* a value has no receiver waiting and one that is not full no sender, and    *)
(* the buffer is the ring between its two indexes.                            *)
THEOREM ChannelShape == Spec => []QueueInvariants
<1>1. ASSUME IInv PROVE QueueInvariants
  <2>1. ASSUME NEW c \in Chans PROVE RingOK(c)
    <3>1. /\ Ring(hchan[c], c) /\ hchan[c] \in ChanState(c) /\ Cap[c] \in Nat
      BY <1>1, ChanAssumption DEF IInv, RingInv, TypeInv
    <3>2. hchan[c].qcount \in Nat /\ hchan[c].sendx \in Nat /\ hchan[c].recvx \in Nat
      BY <3>1 DEF ChanState
    <3>3. CASE Cap[c] = 0
      <4>1. 0 .. Cap[c] - 1 = {} BY <3>3
      <4> QED BY <3>1, <3>2, <3>3, <4>1 DEF Ring, RingOK
    <3>4. CASE Cap[c] > 0
      <4>1. hchan[c].recvx + hchan[c].qcount \in Nat BY <3>2
      <4>2. (hchan[c].recvx + hchan[c].qcount) % Cap[c] \in 0 .. Cap[c] - 1 BY <3>1, <3>4, <4>1
      <4>3. hchan[c].sendx = (hchan[c].recvx + hchan[c].qcount) % Cap[c] BY <3>1, <3>4 DEF Ring
      <4>4. hchan[c].sendx \in 0 .. Cap[c] BY <3>1, <4>2, <4>3
      <4>5. hchan[c].qcount \in 0 .. Cap[c] /\ hchan[c].recvx \in 0 .. Cap[c]
        BY <3>1, <3>2, <3>4 DEF Ring
      <4>6. \A k \in 0 .. Cap[c] - 1 :
              hchan[c].buf[k] # NoVal <=> (k + Cap[c] - hchan[c].recvx) % Cap[c] < hchan[c].qcount
        BY <3>1, <3>4 DEF Ring
      <4> QED BY <4>3, <4>4, <4>5, <4>6 DEF RingOK
    <3> QED BY <3>1, <3>3, <3>4
  <2>2. ASSUME NEW c \in Chans, NEW s \in {hchan[c].recvq[k] : k \in DOMAIN hchan[c].recvq}
        PROVE  s.i \in CasesOf(s.g)
    <3>1. /\ hchan[c].recvq = QueueAt(hchan, c, "recv") /\ "recv" \in Sides
          /\ DOMAIN QueueAt(hchan, c, "recv") = 1 .. Len(QueueAt(hchan, c, "recv"))
      BY <1>1, QueueFacts DEF IInv, QueueAt, Sides
    <3>2. PICK k \in 1 .. Len(QueueAt(hchan, c, "recv")) : s = QueueAt(hchan, c, "recv")[k]
      BY <3>1
    <3> QED BY <1>1, <3>1, <3>2, LiveIff DEF IInv
  <2>3. \A p \in Procs : /\ param[p] \in {0} \cup CasesOf(p)
                         /\ held[p] \cup parking[p] \subseteq ChansOf(p)
    BY <1>1 DEF IInv, WakeInv, Wake, LockInv, Locks
  <2>4. TypeOK BY <1>1, <2>1, <2>2, <2>3 DEF TypeOK, IInv, TypeInv
  <2> QED BY <1>1, <2>4 DEF QueueInvariants, IInv, QueueInv, Shape
<1> QED BY <1>1, Inductive, PTL

(* A goroutine that waits is on the queue of every case of its call, and none *)
(* of them could go ahead: the channel is open, holds no value for a receiver *)
(* and no room for a sender, and nobody who waits could be its partner.       *)
THEOREM WaitsRightly == Spec => []NobodyLeftBehind
<1>1. ASSUME IInv PROVE NobodyLeftBehind
  <2> SUFFICES ASSUME NEW p \in Procs, Parked(p), NEW i \in CasesOf(p)
               PROVE  LET x == op[p].cases[i] IN
                      /\ Sudog(p, i) \in {Queue(x)[k] : k \in DOMAIN Queue(x)}
                      /\ ~hchan[x.ch].closed
                      /\ hchan[x.ch].qcount = (IF x.dir = "send" THEN Cap[x.ch] ELSE 0)
                      /\ \A k \in LiveAt(Opposite(x)) : Opposite(x)[k].g = p
    BY DEF NobodyLeftBehind
  <2> DEFINE x == op[p].cases[i]
             c == x.ch
             q == Queue(x)
             o == Opposite(x)
  <2>1. c \in Chans /\ x.dir \in {"send", "recv", "close"} BY <1>1, CaseFacts DEF IInv
  <2>2. q = QueueAt(hchan, c, x.dir) BY DEF Queue, QueueAt
  <2>3. PICK n \in 1 .. Len(QueueAt(hchan, c, x.dir)) :
             QueueAt(hchan, c, x.dir)[n] = Sudog(p, i)
    BY <1>1 DEF IInv, QueueInv, Present, Occurs
  <2>4. x.dir \in Sides
    <3> SUFFICES ASSUME x.dir = "close" PROVE FALSE BY <2>1 DEF Sides
    <3>1. /\ QueueAt(hchan, c, x.dir) = QueueAt(hchan, c, "recv") /\ "recv" \in Sides
      BY DEF QueueAt, Sides
    <3>2. op[Sudog(p, i).g].cases[Sudog(p, i).i] = Case(c, "recv")
      BY <1>1, <2>1, <2>3, <3>1, LiveIff DEF IInv
    <3>3. x = Case(c, "recv") BY <3>2 DEF Sudog
    <3> QED BY <3>3 DEF Case
  <2>5. q \in Seq(Entry) /\ DOMAIN q = 1 .. Len(q)
    BY <1>1, <2>1, <2>2, <2>4, QueueFacts DEF IInv
  <2>6. Sudog(p, i) \in {q[k] : k \in DOMAIN q} /\ q # << >> BY <2>2, <2>3, <2>5
  <2>7. p \in Waiters(q)
    <3>1. Sudog(p, i).g = p BY DEF Sudog
    <3>2. PICK k \in DOMAIN q : q[k] = Sudog(p, i) BY <2>6
    <3> HIDE DEF q
    <3> QED BY <3>1, <3>2 DEF Waiters
  <2>8. /\ Shape(c) /\ Ring(hchan[c], c) /\ Cap[c] \in Nat /\ hchan[c].qcount \in Nat
    BY <1>1, <2>1, ChanAssumption DEF IInv, QueueInv, RingInv, TypeInv, ChanState
  <2>9. \/ x.dir = "send" /\ q = hchan[c].sendq /\ o = hchan[c].recvq
        \/ x.dir = "recv" /\ q = hchan[c].recvq /\ o = hchan[c].sendq
    <3>1. x.dir = "send" \/ x.dir = "recv" BY <2>4 DEF Sides
    <3> HIDE DEF x
    <3>2. "send" # "recv" OBVIOUS
    <3>3. CASE x.dir = "send" BY <3>3 DEF Queue, Opposite
    <3>4. CASE x.dir = "recv" BY <3>2, <3>4 DEF Queue, Opposite
    <3> QED BY <3>1, <3>3, <3>4
  <2> HIDE DEF q, o, c, x
  <2>10. ~hchan[c].closed BY <2>6, <2>8, <2>9 DEF Shape
  <2>11. hchan[c].qcount = (IF x.dir = "send" THEN Cap[c] ELSE 0)
    BY <2>6, <2>8, <2>9 DEF Shape, Ring
  <2>12. ASSUME NEW k \in LiveAt(o) PROVE o[k].g = p
    <3>1. k \in DOMAIN o BY DEF LiveAt
    <3>2. o \in Seq(Entry) /\ DOMAIN o = 1 .. Len(o)
      BY <1>1, <2>1, <2>9, QueueFacts DEF IInv, Sides, c
    <3>3. o # << >> BY <3>1, <3>2
    <3>4. AtMostOneQueue(c) BY <2>8 DEF Shape
    <3>5. /\ Waiters(o) = Waiters(q)
          /\ \A g \in Waiters(o) : Waiters(o) = {g}
      BY <2>6, <2>9, <3>3, <3>4 DEF AtMostOneQueue
    <3>6. o[k].g \in Waiters(o) BY <3>1 DEF Waiters
    <3> QED BY <2>7, <3>5, <3>6
  <2> QED BY <2>6, <2>10, <2>11, <2>12 DEF q, o, c, x
<1> QED BY <1>1, Inductive, PTL

-----------------------------------------------------------------------------
(* A default is justified *)

(* What a non-blocking call has seen, by the step it is at.                   *)
Sees(p) ==
  /\ pc[p] \in {"closed?", "full?"} => CaseOf(p).dir = "send"
  /\ pc[p] \in {"empty?", "open?", "drained?"} => ~op[p].block /\ CaseOf(p).dir = "recv"
  /\ pc[p] = "open?" => seen[p] \/ ChanOf(p).closed
  /\ pc[p] \in {"selunlock", "ready", "done"} /\ ~op[p].block /\ out[p].i = 0
       /\ (op[p].select \/ CaseOf(p).dir = "recv") => seen[p]

SeenInv ==
  /\ \A p \in Procs : Sees(p)
  /\ out = [p \in Procs |-> out[p]] /\ DOMAIN out = Procs

(* No update but closechan's opens or closes a channel.                       *)
Known(h) == DOMAIN h = Chans /\ \A c \in Chans : "closed" \in DOMAIN h[c]
SameClosed(h2, h) == Known(h2) /\ \A c \in Chans : h2[c].closed = h[c].closed

LEMMA ClosedKept ==
  ASSUME NEW h, Known(h), NEW c \in Chans, NEW v
  PROVE  /\ SameClosed(WithRecvq(h, c, v), h) /\ SameClosed(WithSendq(h, c, v), h)
         /\ SameClosed(Push(h, c, v), h) /\ SameClosed(Pop(h, c), h)
         /\ SameClosed(Rotate(h, c, v), h)
<1>1. ASSUME NEW r, "closed" \in DOMAIN r, r.closed = h[c].closed
      PROVE  SameClosed([h EXCEPT ![c] = r], h)
  BY <1>1 DEF SameClosed, Known
<1>2. SameClosed(WithRecvq(h, c, v), h)
  <2> DEFINE r == [h[c] EXCEPT !.recvq = v]
  <2>1. "closed" \in DOMAIN r /\ r.closed = h[c].closed BY DEF Known
  <2>2. WithRecvq(h, c, v) = [h EXCEPT ![c] = r] BY DEF WithRecvq
  <2> HIDE DEF r
  <2> QED BY <1>1, <2>1, <2>2
<1>3. SameClosed(WithSendq(h, c, v), h)
  <2> DEFINE r == [h[c] EXCEPT !.sendq = v]
  <2>1. "closed" \in DOMAIN r /\ r.closed = h[c].closed BY DEF Known
  <2>2. WithSendq(h, c, v) = [h EXCEPT ![c] = r] BY DEF WithSendq
  <2> HIDE DEF r
  <2> QED BY <1>1, <2>1, <2>2
<1>4. SameClosed(Push(h, c, v), h)
  <2> DEFINE r == [h[c] EXCEPT !.buf = [h[c].buf EXCEPT ![h[c].sendx] = v],
                               !.sendx = Bump(c, h[c].sendx), !.qcount = h[c].qcount + 1]
  <2>1. "closed" \in DOMAIN r /\ r.closed = h[c].closed BY DEF Known
  <2>2. Push(h, c, v) = [h EXCEPT ![c] = r] BY DEF Push
  <2> HIDE DEF r
  <2> QED BY <1>1, <2>1, <2>2
<1>5. SameClosed(Pop(h, c), h)
  <2> DEFINE r == [h[c] EXCEPT !.buf = [h[c].buf EXCEPT ![h[c].recvx] = NoVal],
                               !.recvx = Bump(c, h[c].recvx), !.qcount = h[c].qcount - 1]
  <2>1. "closed" \in DOMAIN r /\ r.closed = h[c].closed BY DEF Known
  <2>2. Pop(h, c) = [h EXCEPT ![c] = r] BY DEF Pop
  <2> HIDE DEF r
  <2> QED BY <1>1, <2>1, <2>2
<1>6. SameClosed(Rotate(h, c, v), h)
  <2> DEFINE r == [h[c] EXCEPT !.buf = [h[c].buf EXCEPT ![h[c].recvx] = v],
                               !.recvx = Bump(c, h[c].recvx), !.sendx = Bump(c, h[c].recvx)]
  <2>1. "closed" \in DOMAIN r /\ r.closed = h[c].closed BY DEF Known
  <2>2. Rotate(h, c, v) = [h EXCEPT ![c] = r] BY DEF Rotate
  <2> HIDE DEF r
  <2> QED BY <1>1, <2>1, <2>2
<1> QED BY <1>2, <1>3, <1>4, <1>5, <1>6

LEMMA LookIntoKept ==
  ASSUME TypeInv, NEW X
  PROVE  Known(hchan) /\ SameClosed(LookInto(X), hchan)
<1>1. \A c \in Chans : "closed" \in DOMAIN hchan[c] BY DEF TypeInv, ChanState
<1>2. Known(hchan) BY <1>1 DEF Known, TypeInv
<1>3. SameClosed(LookInto(X), hchan) BY <1>1 DEF SameClosed, Known, LookInto
<1> QED BY <1>2, <1>3

LEMMA AttemptKept ==
  ASSUME NEW h, Known(h), NEW p \in Procs, NEW i, Attempt(p, i, h), op[p].cases[i].ch \in Chans
  PROVE  SameClosed(hchan', h)
<1> DEFINE c == op[p].cases[i].ch
<1>1. Attempt(p, i, h) => AttemptSend(p, i, h, c) \/ AttemptRecv(p, i, h, c) BY DEF Attempt
<1> HIDE DEF c
<1>2. SameClosed(h, h) BY DEF SameClosed
<1>3. CASE SendOnClosed(p, i, h, c) BY <1>2, <1>3 DEF SendOnClosed, Complete
<1>4. CASE SendToReceiver(p, i, h, c)
  <2>1. hchan' = WithRecvq(h, c, Rest(h[c].recvq))
    BY <1>4 DEF SendToReceiver, CompleteWith, WithRecvq
  <2> QED BY <2>1, ClosedKept DEF c
<1>5. CASE SendToBuffer(p, i, h, c)
  <2>1. hchan' = Push(WithRecvq(h, c, << >>), c, p)
    BY <1>5 DEF SendToBuffer, Complete, WithRecvq
  <2> DEFINE h1 == WithRecvq(h, c, << >>)
  <2>2. SameClosed(h1, h) /\ c \in Chans BY ClosedKept DEF c
  <2> HIDE DEF h1
  <2>4. Known(h1) BY <2>2 DEF SameClosed
  <2>5. SameClosed(Push(h1, c, p), h1) BY <2>2, <2>4, ClosedKept
  <2>3. hchan' = Push(h1, c, p) BY <2>1 DEF h1
  <2> QED BY <2>2, <2>3, <2>5 DEF SameClosed
<1>6. CASE RecvFromSender(p, i, h, c)
  <2> DEFINE s == First(h[c].sendq)
             h1 == WithSendq(h, c, Rest(h[c].sendq))
  <2>1. hchan' = h1 \/ hchan' = Rotate(h1, c, s.g)
    BY <1>6 DEF RecvFromSender, CompleteWith, WithSendq
  <2>2. SameClosed(h1, h) /\ c \in Chans BY ClosedKept DEF c
  <2> HIDE DEF h1, s
  <2>4. Known(h1) BY <2>2 DEF SameClosed
  <2>3. SameClosed(Rotate(h1, c, s.g), h1) BY <2>2, <2>4, ClosedKept
  <2> QED BY <2>1, <2>2, <2>3 DEF SameClosed
<1>7. SameClosed(LookedAt(p, h, c), h)
  <2>1. LookedAt(p, h, c) = h \/ LookedAt(p, h, c) = WithSendq(h, c, << >>)
    BY DEF LookedAt, WithSendq
  <2> QED BY <1>2, <2>1, ClosedKept DEF c
<1>8. CASE RecvFromBuffer(p, i, h, c)
  <2>1. hchan' = Pop(LookedAt(p, h, c), c) BY <1>8 DEF RecvFromBuffer, Complete
  <2>2. SameClosed(hchan', LookedAt(p, h, c)) BY <1>7, <2>1, ClosedKept DEF c, SameClosed
  <2> QED BY <1>7, <2>2 DEF SameClosed
<1>9. CASE RecvOnClosed(p, i, h, c) BY <1>7, <1>9 DEF RecvOnClosed, Complete
<1> QED
  BY <1>1, <1>3, <1>4, <1>5, <1>6, <1>8, <1>9 DEF AttemptSend, AttemptRecv

(* A step of p leaves the calls of the others alone, but for waking one that  *)
(* is parked, and leaves closed channels closed.                              *)
Elsewhere(p) ==
  /\ \A g \in Procs : g # p =>
       /\ op'[g] = op[g] /\ out'[g] = out[g]
       /\ pc'[g] = pc[g] \/ pc'[g] \in {"woken", "relock"}
  /\ \A c \in Chans : hchan[c].closed => hchan'[c].closed
  /\ out' = [g \in Procs |-> out'[g]] /\ DOMAIN out' = Procs

(* A case that is tried settles where p goes next and what its call returns.  *)
Commits(p, i) ==
  \E ss, v, ok : /\ pc' = [pc EXCEPT ![p] = AfterCase(p, ss)]
                 /\ out' = [out EXCEPT ![p] = Out(i, v, ok)]

LEMMA AttemptCommits ==
  ASSUME NEW p, NEW i, NEW h, Attempt(p, i, h)
  PROVE  Commits(p, i)
<1> DEFINE c == op[p].cases[i].ch
<1>1. AttemptSend(p, i, h, c) \/ AttemptRecv(p, i, h, c) BY DEF Attempt
<1> HIDE DEF c
<1>2. CASE SendOnClosed(p, i, h, c) BY <1>2 DEF SendOnClosed, Complete, Commits
<1>3. CASE SendToReceiver(p, i, h, c) BY <1>3 DEF SendToReceiver, CompleteWith, Commits
<1>4. CASE SendToBuffer(p, i, h, c) BY <1>4 DEF SendToBuffer, Complete, Commits
<1>5. CASE RecvFromSender(p, i, h, c)
  <2>1. \E v, h1, s : CompleteWith(p, i, v, h1, s, NoVal) BY <1>5 DEF RecvFromSender
  <2>2. PICK v, h1, s : CompleteWith(p, i, v, h1, s, NoVal) BY <2>1
  <2> QED BY <2>2 DEF CompleteWith, Commits
<1>6. CASE RecvFromBuffer(p, i, h, c) BY <1>6 DEF RecvFromBuffer, Complete, Commits
<1>7. CASE RecvOnClosed(p, i, h, c) BY <1>7 DEF RecvOnClosed, Complete, Commits
<1> QED BY <1>1, <1>2, <1>3, <1>4, <1>5, <1>6, <1>7 DEF AttemptSend, AttemptRecv

LEMMA ElsewhereStep ==
  ASSUME IInv, SeenInv, NEW p \in Procs, Call(p) \/ ChanStep(p) \/ SelectStep(p)
  PROVE  Elsewhere(p)
<1> DEFINE One == /\ \A g \in Procs : g # p => pc'[g] = pc[g] /\ op'[g] = op[g] /\ out'[g] = out[g]
                  /\ out' = [g \in Procs |-> out'[g]] /\ DOMAIN out' = Procs
<1>0. /\ pc \in [Procs -> PCs] /\ DOMAIN pc = Procs /\ DOMAIN op = Procs
      /\ out = [g \in Procs |-> out[g]] /\ DOMAIN out = Procs
  BY DEF IInv, TypeInv, SeenInv
<1>1. ASSUME One, \/ UNCHANGED hchan
                  \/ \A c \in Chans : hchan[c].closed => hchan'[c].closed
      PROVE  Elsewhere(p)
  BY <1>1 DEF Elsewhere
<1>2. ASSUME NEW s, pc' = [pc EXCEPT ![p] = s] \/ UNCHANGED pc,
             NEW x, out' = [out EXCEPT ![p] = x] \/ UNCHANGED out,
             NEW o, op' = [op EXCEPT ![p] = o] \/ UNCHANGED op
      PROVE  One
  BY <1>0, <1>2
<1> HIDE DEF One
<1>3. ASSUME NEW h, SameClosed(h, hchan), hchan' = h
      PROVE  \A c \in Chans : hchan[c].closed => hchan'[c].closed
  BY <1>3 DEF SameClosed
<1>4. Known(hchan) /\ SameClosed(hchan, hchan) /\ \A X : SameClosed(LookInto(X), hchan)
  BY LookIntoKept DEF IInv, SameClosed
<1>5. CASE Call(p)
  <2>1. One BY <1>2, <1>5 DEF Call
  <2> QED BY <1>1, <1>5, <2>1 DEF Call
<1>6. CASE SendFastClosed(p) \/ SendFastFull(p) \/ RecvFastEmpty(p) \/ RecvFastOpen(p)
             \/ RecvFastDrained(p)
  <2>1. UNCHANGED << hchan, op >>
    BY <1>6 DEF SendFastClosed, SendFastFull, RecvFastEmpty, RecvFastOpen, RecvFastDrained
  <2>2. One
    BY <1>2, <1>6 DEF SendFastClosed, SendFastFull, RecvFastEmpty, RecvFastOpen,
                      RecvFastDrained, Goto
  <2> QED BY <1>1, <2>1, <2>2
<1>7. ASSUME NEW i, NEW h, Known(h), SameClosed(h, hchan), Attempt(p, i, h), UNCHANGED op,
             op[p].cases[i].ch \in Chans
      PROVE  Elsewhere(p)
  <2>1. SameClosed(hchan', h) BY <1>7, AttemptKept
  <2>2. \A c \in Chans : hchan[c].closed => hchan'[c].closed BY <1>7, <2>1 DEF SameClosed
  <2>3. \E s, x : pc' = [pc EXCEPT ![p] = s] /\ out' = [out EXCEPT ![p] = x]
    BY <1>7, AttemptCommits DEF Commits
  <2>4. One BY <1>2, <1>7, <2>3
  <2> QED BY <1>1, <2>2, <2>4
<1>8. CASE Communicate(p)
  <2>1. /\ pc[p] = "lock" /\ CaseOf(p).dir \in Sides /\ Attempt(p, 1, hchan) /\ UNCHANGED op
    BY <1>8 DEF Communicate, Locked, Sides
  <2>2. op[p] # NoOp /\ ~op[p].select BY <2>1 DEF IInv, OpInv, PlainPCs
  <2>3. op[p].cases[1].ch \in Chans BY <2>2, CaseFacts DEF IInv
  <2> QED BY <1>4, <1>7, <2>1, <2>3
<1>9. ASSUME NEW i, NEW v, NEW ok, NEW h, Complete(p, i, v, ok, h), SameClosed(h, hchan),
             UNCHANGED op
      PROVE  Elsewhere(p)
  <2>1. One BY <1>2, <1>9 DEF Complete
  <2>2. hchan' = h BY <1>9 DEF Complete
  <2> QED BY <1>1, <1>3, <1>9, <2>1, <2>2
<1>10. CASE GiveUp(p) BY <1>4, <1>9, <1>10 DEF GiveUp
<1>11. CASE CloseAgain(p) BY <1>4, <1>9, <1>11 DEF CloseAgain
<1>12. CASE SelectDefault(p) BY <1>4, <1>9, <1>12 DEF SelectDefault
<1>13. CASE SelectCase(p)
  <2>1. PICK i \in CasesOf(p) \ NotReady(p), V \in SUBSET NotReady(p) :
          Attempt(p, i, LookInto({op[p].cases[j] : j \in V}))
    BY <1>13 DEF SelectCase
  <2> DEFINE h == LookInto({op[p].cases[j] : j \in V})
  <2>2. SameClosed(h, hchan) /\ Attempt(p, i, h) /\ UNCHANGED op
    BY <1>4, <1>13, <2>1 DEF SelectCase
  <2>3. op[p].cases[i].ch \in Chans BY CaseFacts DEF IInv
  <2> HIDE DEF h
  <2>4. Known(h) BY <2>2 DEF SameClosed
  <2> QED BY <1>7, <2>2, <2>3, <2>4
<1>14. CASE Park(p)
  <2> DEFINE h == LookInto({CaseOf(p)})
             c == CaseOf(p).ch
  <2>1. /\ pc' = [pc EXCEPT ![p] = "parked"] /\ UNCHANGED << op, out >> /\ pc[p] = "lock"
        /\ hchan' = Enqueue(h, CaseOf(p), Sudog(p, 1))
    BY <1>14 DEF Park, Locked
  <2>2. One BY <1>2, <2>1
  <2>3. SameClosed(h, hchan) /\ Known(h) BY <1>4 DEF SameClosed
  <2>4. op[p] # NoOp BY <2>1 DEF IInv, OpInv
  <2>5. c \in Chans
    <3>1. 1 \in CasesOf(p)
      <4>1. ~op[p].select BY <2>1 DEF IInv, OpInv, PlainPCs
      <4> QED BY <2>4, <4>1, CaseFacts DEF IInv
    <3> QED BY <3>1, CaseFacts DEF IInv, CaseOf
  <2>6. \E q : hchan' = WithSendq(h, c, q) \/ hchan' = WithRecvq(h, c, q)
    BY <2>1 DEF Enqueue, WithSendq, WithRecvq
  <2> HIDE DEF h, c
  <2>7. SameClosed(hchan', h) BY <2>3, <2>5, <2>6, ClosedKept
  <2>8. SameClosed(hchan', hchan) BY <2>3, <2>7 DEF SameClosed
  <2> QED BY <1>1, <1>3, <2>2, <2>8
<1>15. CASE Close(p)
  <2> DEFINE c == CaseOf(p).ch
  <2>1. /\ hchan' = [hchan EXCEPT ![c].closed = TRUE, ![c].recvq = << >>, ![c].sendq = << >>]
        /\ \E s, x : pc' = [pc EXCEPT ![p] = s] /\ out' = [out EXCEPT ![p] = x]
        /\ UNCHANGED op
    BY <1>15 DEF Close
  <2>2. One BY <1>2, <2>1
  <2>3. \A d \in Chans : hchan[d].closed => hchan'[d].closed
    <3> HIDE DEF c
    <3> QED BY <1>4, <2>1 DEF Known
  <2> QED BY <1>1, <2>2, <2>3
<1>16. CASE ReadyOne(p)
  <2>1. PICK t \in glist[p] :
          pc' = IF pc[t] # "parked" THEN [pc EXCEPT ![p] = "throw"]
                ELSE [pc EXCEPT ![p] = IF glist[p] = {t} THEN "done" ELSE @, ![t] = Wakeup(t)]
    BY <1>16 DEF ReadyOne
  <2>2. UNCHANGED << hchan, op, out >> BY <1>16 DEF ReadyOne
  <2>3. \A g \in Procs : g # p => pc'[g] = pc[g] \/ pc'[g] \in {"woken", "relock"}
    BY <1>0, <2>1 DEF Wakeup
  <2> QED BY <1>0, <2>2, <2>3 DEF Elsewhere
<1>17. CASE Woken(p)
  <2>1. One BY <1>2, <1>17 DEF Woken, Goto
  <2> QED BY <1>1, <1>17, <2>1 DEF Woken
<1>18. CASE Return(p)
  <2>1. One BY <1>2, <1>18 DEF Return, Goto
  <2> QED BY <1>1, <1>18, <2>1 DEF Return
<1>19. CASE SelLock(p)
  <2>1. One BY <1>2, <1>19 DEF SelLock
  <2> QED BY <1>1, <1>19, <2>1 DEF SelLock
<1>20. CASE SelUnlock(p)
  <2>1. One BY <1>2, <1>20 DEF SelUnlock
  <2> QED BY <1>1, <1>20, <2>1 DEF SelUnlock
<1>21. CASE SelParkCommit(p)
  <2>1. One BY <1>2, <1>21 DEF SelParkCommit
  <2> QED BY <1>1, <1>21, <2>1 DEF SelParkCommit
<1>22. CASE SelectPark(p)
  <2> DEFINE h == LookInto(CaseSet(p))
  <2>1. /\ pc' = [pc EXCEPT ![p] = "parked"] /\ UNCHANGED << op, out >>
        /\ hchan' = [c \in Chans |->
                       [h[c] EXCEPT !.recvq = @ \o SudogFor(p, Case(c, "recv")),
                                    !.sendq = @ \o SudogFor(p, Case(c, "send"))]]
    BY <1>22 DEF SelectPark
  <2>2. One BY <1>2, <2>1
  <2>3. SameClosed(h, hchan) BY <1>4
  <2> HIDE DEF h
  <2>4. \A c \in Chans : hchan'[c].closed = h[c].closed BY <2>1, <2>3 DEF SameClosed, Known
  <2>5. \A c \in Chans : hchan[c].closed => hchan'[c].closed BY <2>3, <2>4 DEF SameClosed
  <2> QED BY <1>1, <2>2, <2>5
<1>23. CASE SelectWoken(p)
  <2>1. One BY <1>2, <1>23 DEF SelectWoken, Goto
  <2>2. hchan' = [c \in Chans |->
                    [hchan[c] EXCEPT !.recvq = Withdraw(@, p), !.sendq = Withdraw(@, p)]]
    BY <1>23 DEF SelectWoken
  <2>3. \A c \in Chans : hchan'[c].closed = hchan[c].closed BY <1>4, <2>2 DEF Known
  <2> QED BY <1>1, <2>1, <2>3
<1> QED
  BY <1>5, <1>6, <1>8, <1>10, <1>11, <1>12, <1>13, <1>14, <1>15, <1>16, <1>17, <1>18, <1>19,
     <1>20, <1>21, <1>22, <1>23 DEF ChanStep, SelectStep

(* What is not ready before a call gives up is not ready after it: all it     *)
(* changes in the channels is to drop sudogs that were dead.                  *)
LEMMA StillNotReady ==
  ASSUME TypeInv, Looked(hchan'), SameRings(hchan'), UNCHANGED << op, selectDone >>,
         NEW p \in Procs, NEW i \in CasesOf(p), op[p].cases[i].dir \in Sides,
         ~Ready(op[p].cases[i])
  PROVE  ~Ready(op[p].cases[i])'
<1> DEFINE x == op[p].cases[i]
           c == x.ch
<1>1. c \in Chans /\ op'[p].cases[i] = x BY CaseFacts
<1>2. /\ hchan'[c].closed = hchan[c].closed /\ hchan'[c].qcount = hchan[c].qcount
      /\ hchan'[c].recvq = hchan[c].recvq \/ hchan'[c].recvq = << >>
      /\ hchan'[c].sendq = hchan[c].sendq \/ hchan'[c].sendq = << >>
  BY <1>1 DEF Looked, SameRings
<1>3. ASSUME NEW q, NEW q2, q2 = q \/ q2 = << >>, ~HasLive(q),
             NEW done, done = selectDone, NEW calls, calls = op
      PROVE  {k \in DOMAIN q2 : calls[q2[k].g].select => ~done[q2[k].g]} = {}
  <2>1. DOMAIN << >> = {} OBVIOUS
  <2> QED BY <1>3, <2>1 DEF HasLive, LiveAt, Live
<1>4. CASE x.dir = "send"
  <2>1. ~hchan[c].closed /\ ~HasLive(hchan[c].recvq) /\ ~(hchan[c].qcount < Cap[c])
    BY <1>4 DEF Ready, ReadyToSend
  <2>2. {k \in DOMAIN hchan'[c].recvq :
           op'[hchan'[c].recvq[k].g].select => ~selectDone'[hchan'[c].recvq[k].g]} = {}
    BY <1>2, <1>3, <2>1
  <2>3. ~HasLive(hchan[c].recvq)' BY <1>1, <2>2 DEF HasLive, LiveAt, Live
  <2> QED BY <1>1, <1>2, <1>4, <2>1, <2>3 DEF Ready, ReadyToSend
<1>5. CASE x.dir = "recv"
  <2>1. ~hchan[c].closed /\ ~HasLive(hchan[c].sendq) /\ ~(hchan[c].qcount > 0)
    BY <1>5 DEF Ready, ReadyToRecv
  <2>2. {k \in DOMAIN hchan'[c].sendq :
           op'[hchan'[c].sendq[k].g].select => ~selectDone'[hchan'[c].sendq[k].g]} = {}
    BY <1>2, <1>3, <2>1
  <2>3. ~HasLive(hchan[c].sendq)' BY <1>1, <2>2 DEF HasLive, LiveAt, Live
  <2> QED BY <1>1, <1>2, <1>5, <2>1, <2>3 DEF Ready, ReadyToRecv
<1> QED BY <1>4, <1>5 DEF Sides

LEMMA SeenStep ==
  ASSUME IInv, SeenInv, NEW p \in Procs, Call(p) \/ ChanStep(p) \/ SelectStep(p), Observe
  PROVE  SeenInv'
<1>1. Elsewhere(p) BY ElsewhereStep
<1>2. ASSUME NEW g \in Procs
      PROVE  /\ ~op'[g].block /\ seen[g] => seen'[g]
             /\ ~op'[g].block /\ (\A i \in CasesOf(g)' : ~Ready(op[g].cases[i])') => seen'[g]
  BY DEF Observe
<1>3. ASSUME NEW g \in Procs, pc[g] \in PlainPCs \ {"idle"}
      PROVE  /\ ~op[g].select /\ op[g] # NoOp /\ CasesOf(g) = {1}
             /\ CaseOf(g).ch \in Chans /\ CaseOf(g) = op[g].cases[1]
  <2>1. ~op[g].select /\ op[g] # NoOp BY <1>3 DEF IInv, OpInv
  <2>2. CasesOf(g) = {1} /\ op[g].cases[1].ch \in Chans BY <2>1, CaseFacts DEF IInv
  <2> QED BY <2>1, <2>2 DEF CaseOf
<1>4. ASSUME NEW g \in Procs, g # p PROVE Sees(g)'
  <2>1. Sees(g) BY DEF SeenInv
  <2>2. /\ op'[g] = op[g] /\ out'[g] = out[g] /\ CaseOf(g)' = CaseOf(g)
        /\ pc'[g] = pc[g] \/ pc'[g] \in {"woken", "relock"}
        /\ \A c \in Chans : hchan[c].closed => hchan'[c].closed
    BY <1>1, <1>4 DEF Elsewhere, CaseOf
  <2>3. pc[g] = "open?" /\ ChanOf(g).closed => ChanOf(g)'.closed
    BY <1>3, <2>2 DEF ChanOf, PlainPCs
  <2> QED BY <1>2, <2>1, <2>2, <2>3 DEF Sees
<1>5. Sees(p)'
  <2>1. Sees(p) BY DEF SeenInv
  <2>2. /\ pc \in [Procs -> PCs] /\ DOMAIN op = Procs /\ out = [g \in Procs |-> out[g]]
        /\ DOMAIN out = Procs
    BY DEF IInv, TypeInv, SeenInv
  <2>3. ASSUME pc'[p] \notin {"closed?", "full?", "empty?", "open?", "drained?",
                              "selunlock", "ready", "done"}
        PROVE  Sees(p)'
    BY <2>3 DEF Sees
  <2>4. ASSUME NEW i, i # 0, Commits(p, i) PROVE Sees(p)'
    <3>1. PICK ss, v, ok : /\ pc' = [pc EXCEPT ![p] = AfterCase(p, ss)]
                           /\ out' = [out EXCEPT ![p] = Out(i, v, ok)]
      BY <2>4 DEF Commits
    <3>2. pc'[p] \in {"selunlock", "ready", "done"}
      BY <2>2, <3>1, CaseFacts DEF AfterCase, IInv
    <3>3. out'[p].i # 0 BY <2>2, <2>4, <3>1 DEF Out
    <3> QED BY <3>2, <3>3 DEF Sees
  <2>5. ASSUME NEW v, NEW ok, NEW h, Complete(p, 0, v, ok, h), UNCHANGED op, Looked(h),
               SameRings(h), \A i \in CasesOf(p) : op[p].cases[i].dir \in Sides /\ ~Ready(op[p].cases[i])
        PROVE  Sees(p)'
    <3>1. hchan' = h /\ UNCHANGED selectDone BY <2>5 DEF Complete, sudogVars
    <3>2. \A i \in CasesOf(p) : ~Ready(op[p].cases[i])'
      BY <2>5, <3>1, StillNotReady DEF IInv
    <3>3. CasesOf(p)' = CasesOf(p) BY <2>5 DEF CasesOf
    <3>4. ~op'[p].block => seen'[p] BY <1>2, <3>2, <3>3
    <3>5. pc'[p] \in {"selunlock", "ready", "done"}
      BY <2>2, <2>5, CaseFacts DEF Complete, AfterCase, IInv
    <3> QED BY <3>4, <3>5 DEF Sees
  <2>6. CASE Call(p)
    <3>1. PICK o \in Ops :
            /\ op' = [op EXCEPT ![p] = o]
            /\ pc' = [pc EXCEPT ![p] =
                        IF o.select THEN "sellock"
                        ELSE IF o.block THEN "lock"
                        ELSE IF o.cases[1].dir = "send" THEN "closed?" ELSE "empty?"]
      BY <2>6 DEF Call
    <3>2. /\ o.cases \in Seq([ch : Chans, dir : {"send", "recv", "close"}]) /\ o.cases # << >>
          /\ ~o.select => (o.cases[1].dir = "close" => o.block)
          /\ o.select \in BOOLEAN /\ o.block \in BOOLEAN
      BY OpsAssumption
    <3>3. o.cases[1].dir \in {"send", "recv", "close"}
      <4> DEFINE X == [ch : Chans, dir : {"send", "recv", "close"}]
                 xs == o.cases
      <4>1. xs \in Seq(X) /\ xs # << >> BY <3>2
      <4> HIDE DEF X, xs
      <4>2. xs[1] \in X BY <4>1
      <4> QED BY <4>2 DEF X, xs
    <3>4. op'[p] = o /\ CaseOf(p)' = o.cases[1] BY <2>2, <3>1 DEF CaseOf
    <3>5. CASE o.select \/ o.block
      <4>1. pc'[p] \in {"sellock", "lock"} BY <2>2, <3>1, <3>5
      <4> QED BY <2>3, <4>1
    <3>6. CASE ~o.select /\ ~o.block /\ o.cases[1].dir = "send"
      <4>1. pc'[p] = "closed?" BY <2>2, <3>1, <3>6
      <4> QED BY <3>4, <3>6, <4>1 DEF Sees
    <3>7. CASE ~o.select /\ ~o.block /\ o.cases[1].dir # "send"
      <4>1. pc'[p] = "empty?" /\ o.cases[1].dir = "recv" BY <2>2, <3>1, <3>2, <3>3, <3>7
      <4> QED BY <3>4, <3>7, <4>1 DEF Sees
    <3> QED BY <3>5, <3>6, <3>7
  <2>7. CASE SendFastClosed(p) \/ SendFastFull(p)
    <3>1. /\ pc[p] \in {"closed?", "full?"} /\ pc'[p] \in {"lock", "full?", "done"}
          /\ CaseOf(p)' = CaseOf(p) /\ op'[p] = op[p]
      BY <2>2, <2>7 DEF SendFastClosed, SendFastFull, Goto, CaseOf
    <3>2. ~op[p].select BY <1>3, <3>1 DEF PlainPCs
    <3> QED BY <2>1, <3>1, <3>2 DEF Sees
  <2>8. CASE RecvFastEmpty(p)
    <3>1. /\ pc[p] = "empty?" /\ UNCHANGED << hchan, op >>
          /\ pc'[p] = IF Empty(p) THEN "open?" ELSE "lock"
      BY <2>2, <2>8 DEF RecvFastEmpty, Goto
    <3>2. /\ ~op[p].block /\ CaseOf(p).dir = "recv" /\ CasesOf(p) = {1}
          /\ CaseOf(p) = op[p].cases[1] /\ CaseOf(p).ch \in Chans
      BY <1>3, <2>1, <3>1 DEF Sees, PlainPCs
    <3>0. PICK c \in Chans : c = CaseOf(p).ch BY <3>2
    <3>3. CASE ~Empty(p) BY <2>3, <3>1, <3>3
    <3>4. CASE Empty(p)
      <4>1. Shape(c) /\ Ring(hchan[c], c) /\ Cap[c] \in Nat /\ hchan[c].qcount \in Nat
        BY <3>2, ChanAssumption DEF IInv, QueueInv, RingInv, TypeInv, ChanState
      <4>2. hchan[c].sendq = << >> /\ hchan[c].qcount = 0
        <5>1. CASE Cap[c] = 0 BY <3>0, <3>4, <4>1, <5>1 DEF Empty, ChanOf, Ring
        <5>2. CASE Cap[c] > 0 BY <3>0, <3>4, <4>1, <5>2 DEF Empty, ChanOf, Shape
        <5> QED BY <4>1, <5>1, <5>2
      <4>3. ~HasLive(hchan[c].sendq)'
        <5>1. DOMAIN hchan'[c].sendq = {} BY <3>1, <4>2
        <5> QED BY <5>1 DEF HasLive, LiveAt
      <4>4. op'[p].cases[1] = CaseOf(p) /\ hchan'[c] = hchan[c] BY <3>1, <3>2
      <4>5. ~hchan[c].closed => ~Ready(op[p].cases[1])'
        BY <3>0, <3>2, <4>2, <4>3, <4>4 DEF Ready, ReadyToRecv
      <4>6. CasesOf(p)' = {1} BY <3>1, <3>2 DEF CasesOf
      <4>7. seen'[p] \/ ChanOf(p)'.closed
        <5>1. ~op'[p].block BY <3>1, <3>2
        <5>2. ~hchan[c].closed => seen'[p] BY <1>2, <4>5, <4>6, <5>1
        <5>3. ChanOf(p)' = hchan[c] BY <3>0, <3>1 DEF ChanOf, CaseOf
        <5> QED BY <5>2, <5>3
      <4>8. pc'[p] = "open?" /\ ~op'[p].block /\ CaseOf(p)'.dir = "recv"
        BY <3>1, <3>2, <3>4 DEF CaseOf
      <4> QED BY <4>7, <4>8 DEF Sees
    <3> QED BY <3>3, <3>4
  <2>9. CASE RecvFastOpen(p)
    <3>1. /\ pc[p] = "open?" /\ op'[p] = op[p] /\ CaseOf(p)' = CaseOf(p)
          /\ pc'[p] = IF ChanOf(p).closed THEN "drained?" ELSE "done"
      BY <2>2, <2>9 DEF RecvFastOpen, Goto, CaseOf
    <3> QED BY <1>2, <2>1, <3>1 DEF Sees
  <2>10. CASE RecvFastDrained(p)
    <3>1. /\ pc'[p] = IF Empty(p) THEN "done" ELSE "lock"
          /\ Empty(p) => out'[p].i # 0
      BY <2>2, <2>10 DEF RecvFastDrained, Goto, Out
    <3> QED BY <3>1 DEF Sees
  <2>11. CASE Communicate(p)
    <3>1. Attempt(p, 1, hchan) BY <2>11 DEF Communicate
    <3> QED BY <2>4, <3>1, AttemptCommits
  <2>12. CASE GiveUp(p)
    <3> DEFINE X == {CaseOf(p)}
    <3>1. /\ pc[p] = "lock" /\ CaseOf(p).dir \in Sides /\ ~Ready(CaseOf(p))
          /\ Complete(p, 0, NoVal, TRUE, LookInto(X)) /\ UNCHANGED op
      BY <2>12 DEF GiveUp, Locked, Sides
    <3>2. CasesOf(p) = {1} /\ CaseOf(p) = op[p].cases[1] BY <1>3, <3>1 DEF PlainPCs
    <3>3. \A x \in X : \E i \in CasesOf(p) : x = op[p].cases[i] /\ ~Ready(x) BY <3>1, <3>2
    <3>4. \A i \in CasesOf(p) : op[p].cases[i].dir \in Sides /\ ~Ready(op[p].cases[i])
      BY <3>1, <3>2
    <3> HIDE DEF X
    <3>5. Looked(LookInto(X)) /\ SameRings(LookInto(X)) BY <3>3, <3>4, LookIntoLooked DEF IInv
    <3> QED BY <2>5, <3>1, <3>4, <3>5
  <2>13. CASE Park(p)
    <3>1. pc'[p] = "parked" BY <2>2, <2>13 DEF Park
    <3> QED BY <2>3, <3>1
  <2>14. CASE CloseAgain(p)
    <3>1. Commits(p, 1) BY <2>14 DEF CloseAgain, Complete, Commits
    <3> QED BY <2>4, <3>1
  <2>15. CASE Close(p)
    <3>1. Commits(p, 1) BY <2>15 DEF Close, Commits
    <3> QED BY <2>4, <3>1
  <2>16. CASE ReadyOne(p)
    <3>1. PICK t \in glist[p] :
            pc' = IF pc[t] # "parked" THEN [pc EXCEPT ![p] = "throw"]
                  ELSE [pc EXCEPT ![p] = IF glist[p] = {t} THEN "done" ELSE @, ![t] = Wakeup(t)]
      BY <2>16 DEF ReadyOne
    <3>2. /\ pc[p] = "ready" /\ op'[p] = op[p] /\ CaseOf(p)' = CaseOf(p) /\ out'[p] = out[p]
      BY <2>16 DEF ReadyOne, CaseOf
    <3>3. pc'[p] \in {"throw", "ready", "done"} BY <2>2, <3>1, <3>2
    <3> QED BY <1>2, <2>1, <3>2, <3>3 DEF Sees
  <2>17. CASE Woken(p)
    <3>1. pc'[p] \in {"throw", "done"} /\ out'[p].i # 0
      BY <2>2, <2>17 DEF Woken, Goto, Out
    <3> QED BY <3>1 DEF Sees
  <2>18. CASE Return(p)
    <3>1. pc'[p] = "idle" BY <2>2, <2>18 DEF Return, Goto
    <3> QED BY <2>3, <3>1
  <2>19. CASE SelLock(p)
    <3>1. pc'[p] \in {"sellock", "relock", "pass1", "pass3"}
      BY <2>2, <2>19 DEF SelLock, SelLockStates
    <3> QED BY <2>3, <3>1
  <2>20. CASE SelUnlock(p)
    <3>1. /\ pc[p] = "selunlock" /\ op'[p] = op[p] /\ CaseOf(p)' = CaseOf(p) /\ out'[p] = out[p]
          /\ pc'[p] \in {"selunlock", "ready", "done"}
      BY <2>2, <2>20 DEF SelUnlock, CaseOf
    <3> QED BY <1>2, <2>1, <3>1 DEF Sees
  <2>21. CASE SelectCase(p)
    <3>1. PICK i, h : i \in CasesOf(p) /\ Attempt(p, i, h) BY <2>21 DEF SelectCase
    <3>2. i # 0 BY <3>1, CaseFacts DEF IInv
    <3> QED BY <2>4, <3>1, <3>2, AttemptCommits
  <2>22. CASE SelectDefault(p)
    <3> DEFINE X == {op[p].cases[j] : j \in NotReady(p)}
    <3>1. /\ pc[p] = "pass1" /\ NotReady(p) = CasesOf(p) /\ UNCHANGED op
          /\ Complete(p, 0, NoVal, TRUE, LookInto(CaseSet(p)))
      BY <2>22 DEF SelectDefault
    <3>2. X = CaseSet(p) BY <3>1 DEF CaseSet
    <3>3. /\ Looked(LookInto(X)) /\ SameRings(LookInto(X))
          /\ \A i \in CasesOf(p) : op[p].cases[i].dir \in Sides
      BY <3>1, NotReadyLooked
    <3>4. \A i \in CasesOf(p) : ~Ready(op[p].cases[i]) BY <3>1 DEF NotReady
    <3> HIDE DEF X
    <3> QED BY <2>5, <3>1, <3>2, <3>3, <3>4
  <2>23. CASE SelectPark(p)
    <3>1. pc'[p] = "parked" BY <2>2, <2>23 DEF SelectPark
    <3> QED BY <2>3, <3>1
  <2>24. CASE SelParkCommit(p)
    <3>1. pc'[p] = pc[p] /\ pc[p] \in {"parked", "relock"}
      BY <2>24 DEF SelParkCommit, IInv, LockInv, Locks
    <3> QED BY <2>3, <3>1
  <2>25. CASE SelectWoken(p)
    <3>1. /\ pc[p] = "pass3" /\ pc'[p] \in {"throw", "selunlock"} /\ out'[p].i = param[p]
      BY <2>2, <2>25 DEF SelectWoken, Goto, Out
    <3>2. param[p] # 0 BY <3>1 DEF IInv, WakeInv, Wake, TakenPCs
    <3> QED BY <3>1, <3>2 DEF Sees
  <2> QED
    BY <2>6, <2>7, <2>8, <2>9, <2>10, <2>11, <2>12, <2>13, <2>14, <2>15, <2>16, <2>17, <2>18,
       <2>19, <2>20, <2>21, <2>22, <2>23, <2>24, <2>25 DEF ChanStep, SelectStep
<1> QED BY <1>1, <1>4, <1>5 DEF SeenInv, Elsewhere

(* What a non-blocking call has seen is right at every step. *)
THEOREM SeenAlways == Spec => []SeenInv
<1>1. InitAll => SeenInv
  <2> SUFFICES ASSUME Init PROVE SeenInv BY DEF InitAll
  <2>1. /\ \A p \in Procs : pc[p] = "idle"
        /\ out = [p \in Procs |-> NoOut]
    BY DEF Init
  <2> QED BY <2>1 DEF SeenInv, Sees
<1>2. IInv /\ SeenInv /\ [Next]_vars => SeenInv'
  <2> SUFFICES ASSUME IInv, SeenInv, [Next]_vars PROVE SeenInv' OBVIOUS
  <2>1. CASE Next
    <3>1. PICK p \in Procs : (Call(p) \/ ChanStep(p) \/ SelectStep(p)) /\ Observe
      BY <2>1 DEF Next
    <3> QED BY <3>1, SeenStep
  <2>2. CASE UNCHANGED vars
    BY <2>2 DEF vars, chanVars, SeenInv, Sees, CaseOf, ChanOf
  <2> QED BY <2>1, <2>2
<1> QED BY <1>1, <1>2, Inductive, PTL DEF Spec

(* A non-blocking receive, and a select with a default, that come back empty- *)
(* handed have met a state, during the call, in which no case was ready.  Of  *)
(* a receive it is the first look at the queue that counts, and only because  *)
(* a closed channel stays closed.                                             *)
THEOREM DefaultMet == Spec => []DefaultJustified
<1>1. SeenInv => DefaultJustified BY DEF SeenInv, Sees, DefaultJustified, GaveUp
<1> QED BY <1>1, SeenAlways, PTL

(* What a non-blocking send has seen: a ring that is full when it looks was   *)
(* full in a state, during the call, in which the channel was open.           *)
SendSees(p) ==
  ~op[p].select /\ CaseOf(p).dir = "send" /\ ~op[p].block =>
    /\ pc[p] = "full?" /\ ChanOf(p).qcount = Cap[CaseOf(p).ch] => seen[p]
    /\ pc[p] \in {"ready", "done"} /\ out[p].i = 0 => seen[p]

SendSeenInv == \A p \in Procs : SendSees(p)

(* No update but a push onto an open channel makes a ring fuller.             *)
Counted(h)     == DOMAIN h = Chans /\ \A c \in Chans : "qcount" \in DOMAIN h[c] /\ h[c].qcount \in Int
NoFuller(h2, h) == Counted(h2) /\ \A c \in Chans : h2[c].qcount <= h[c].qcount

LEMMA NoFullerKept ==
  ASSUME NEW h, Counted(h), NEW c \in Chans, NEW v
  PROVE  /\ NoFuller(h, h)
         /\ NoFuller(WithRecvq(h, c, v), h) /\ NoFuller(WithSendq(h, c, v), h)
         /\ NoFuller(Pop(h, c), h) /\ NoFuller(Rotate(h, c, v), h)
         /\ Counted(Push(h, c, v))
         /\ \A d \in Chans : d # c => Push(h, c, v)[d] = h[d]
<1>1. ASSUME NEW r, "qcount" \in DOMAIN r, r.qcount \in Int, r.qcount <= h[c].qcount
      PROVE  NoFuller([h EXCEPT ![c] = r], h)
  BY <1>1 DEF NoFuller, Counted
<1>2. NoFuller(WithRecvq(h, c, v), h)
  <2> DEFINE r == [h[c] EXCEPT !.recvq = v]
  <2>1. "qcount" \in DOMAIN r /\ r.qcount = h[c].qcount BY DEF Counted
  <2>2. WithRecvq(h, c, v) = [h EXCEPT ![c] = r] BY DEF WithRecvq
  <2> HIDE DEF r
  <2>3. r.qcount \in Int /\ r.qcount <= h[c].qcount BY <2>1 DEF Counted
  <2> QED BY <1>1, <2>1, <2>2, <2>3
<1>3. NoFuller(WithSendq(h, c, v), h)
  <2> DEFINE r == [h[c] EXCEPT !.sendq = v]
  <2>1. "qcount" \in DOMAIN r /\ r.qcount = h[c].qcount BY DEF Counted
  <2>2. WithSendq(h, c, v) = [h EXCEPT ![c] = r] BY DEF WithSendq
  <2> HIDE DEF r
  <2>3. r.qcount \in Int /\ r.qcount <= h[c].qcount BY <2>1 DEF Counted
  <2> QED BY <1>1, <2>1, <2>2, <2>3
<1>4. /\ Counted(Push(h, c, v))
      /\ \A d \in Chans : d # c => Push(h, c, v)[d] = h[d]
  <2> DEFINE r == [h[c] EXCEPT !.buf = [h[c].buf EXCEPT ![h[c].sendx] = v],
                               !.sendx = Bump(c, h[c].sendx), !.qcount = h[c].qcount + 1]
  <2>1. "qcount" \in DOMAIN r /\ r.qcount = h[c].qcount + 1 BY DEF Counted
  <2>2. Push(h, c, v) = [h EXCEPT ![c] = r] BY DEF Push
  <2> HIDE DEF r
  <2> QED BY <2>1, <2>2 DEF Counted
<1>5. NoFuller(Pop(h, c), h)
  <2> DEFINE r == [h[c] EXCEPT !.buf = [h[c].buf EXCEPT ![h[c].recvx] = NoVal],
                               !.recvx = Bump(c, h[c].recvx), !.qcount = h[c].qcount - 1]
  <2>1. "qcount" \in DOMAIN r /\ r.qcount = h[c].qcount - 1 BY DEF Counted
  <2>2. Pop(h, c) = [h EXCEPT ![c] = r] BY DEF Pop
  <2> HIDE DEF r
  <2>3. r.qcount \in Int /\ r.qcount <= h[c].qcount BY <2>1 DEF Counted
  <2> QED BY <1>1, <2>1, <2>2, <2>3
<1>6. NoFuller(Rotate(h, c, v), h)
  <2> DEFINE r == [h[c] EXCEPT !.buf = [h[c].buf EXCEPT ![h[c].recvx] = v],
                               !.recvx = Bump(c, h[c].recvx), !.sendx = Bump(c, h[c].recvx)]
  <2>1. "qcount" \in DOMAIN r /\ r.qcount = h[c].qcount BY DEF Counted
  <2>2. Rotate(h, c, v) = [h EXCEPT ![c] = r] BY DEF Rotate
  <2> HIDE DEF r
  <2>3. r.qcount \in Int /\ r.qcount <= h[c].qcount BY <2>1 DEF Counted
  <2> QED BY <1>1, <2>1, <2>2, <2>3
<1> QED BY <1>2, <1>3, <1>4, <1>5, <1>6 DEF NoFuller, Counted

(* No fuller, or open. *)
FillsOpen(h2, h) == \A c \in Chans : h2[c].qcount <= h[c].qcount \/ ~h2[c].closed

LEMMA AttemptFills ==
  ASSUME NEW h, Counted(h), Known(h), NEW p \in Procs, NEW i, Attempt(p, i, h),
         op[p].cases[i].ch \in Chans
  PROVE  FillsOpen(hchan', h)
<1> DEFINE c == op[p].cases[i].ch
<1>1. Attempt(p, i, h) => AttemptSend(p, i, h, c) \/ AttemptRecv(p, i, h, c) BY DEF Attempt
<1>2. c \in Chans OBVIOUS
<1> HIDE DEF c
<1>3. ASSUME NEW h2, NoFuller(h2, h), hchan' = h2 PROVE FillsOpen(hchan', h)
  BY <1>3 DEF NoFuller, FillsOpen
<1>4. ASSUME NEW h1, NoFuller(h1, h), NEW h2, NoFuller(h2, h1) PROVE NoFuller(h2, h)
  BY <1>4 DEF NoFuller, Counted
<1>5. NoFuller(h, h) BY DEF NoFuller, Counted
<1>6. CASE SendOnClosed(p, i, h, c) BY <1>3, <1>5, <1>6 DEF SendOnClosed, Complete
<1>7. CASE SendToReceiver(p, i, h, c)
  <2>1. hchan' = WithRecvq(h, c, Rest(h[c].recvq))
    BY <1>7 DEF SendToReceiver, CompleteWith, WithRecvq
  <2> QED BY <1>2, <1>3, <2>1, NoFullerKept
<1>8. CASE SendToBuffer(p, i, h, c)
  <2> DEFINE h1 == WithRecvq(h, c, << >>)
  <2>1. hchan' = Push(h1, c, p) BY <1>8 DEF SendToBuffer, Complete, WithRecvq
  <2>2. NoFuller(h1, h) BY <1>2, NoFullerKept
  <2> HIDE DEF h1
  <2>3. \A d \in Chans : d # c => hchan'[d].qcount <= h[d].qcount
    <3>1. Counted(h1) BY <2>2 DEF NoFuller
    <3>2. \A d \in Chans : d # c => hchan'[d] = h1[d] BY <1>2, <2>1, <3>1, NoFullerKept
    <3> QED BY <2>2, <3>2 DEF NoFuller
  <2>4. SameClosed(hchan', h) BY AttemptKept
  <2>5. ~hchan'[c].closed BY <1>2, <1>8, <2>4 DEF SendToBuffer, SameClosed
  <2> QED BY <2>3, <2>5 DEF FillsOpen
<1>9. CASE RecvFromSender(p, i, h, c)
  <2> DEFINE s == First(h[c].sendq)
             h1 == WithSendq(h, c, Rest(h[c].sendq))
  <2>1. hchan' = h1 \/ hchan' = Rotate(h1, c, s.g)
    BY <1>9 DEF RecvFromSender, CompleteWith, WithSendq
  <2>2. NoFuller(h1, h) BY <1>2, NoFullerKept
  <2> HIDE DEF h1, s
  <2>3. NoFuller(Rotate(h1, c, s.g), h1) BY <1>2, <2>2, NoFullerKept DEF NoFuller
  <2>4. NoFuller(Rotate(h1, c, s.g), h) BY <1>4, <2>2, <2>3
  <2> QED BY <1>3, <2>1, <2>2, <2>4
<1>10. NoFuller(LookedAt(p, h, c), h)
  <2>1. LookedAt(p, h, c) = h \/ LookedAt(p, h, c) = WithSendq(h, c, << >>)
    BY DEF LookedAt, WithSendq
  <2> QED BY <1>2, <1>5, <2>1, NoFullerKept
<1>11. CASE RecvFromBuffer(p, i, h, c)
  <2> DEFINE h1 == LookedAt(p, h, c)
  <2>1. hchan' = Pop(h1, c) BY <1>11 DEF RecvFromBuffer, Complete
  <2>2. NoFuller(h1, h) BY <1>10
  <2> HIDE DEF h1
  <2>3. NoFuller(Pop(h1, c), h1) BY <1>2, <2>2, NoFullerKept DEF NoFuller
  <2>4. NoFuller(Pop(h1, c), h) BY <1>4, <2>2, <2>3
  <2> QED BY <1>3, <2>1, <2>4
<1>12. CASE RecvOnClosed(p, i, h, c) BY <1>3, <1>10, <1>12 DEF RecvOnClosed, Complete
<1> QED
  BY <1>1, <1>6, <1>7, <1>8, <1>9, <1>11, <1>12 DEF AttemptSend, AttemptRecv


(* A step fills no ring of a closed channel. *)
LEMMA FillsStep ==
  ASSUME IInv, IInv', NEW p \in Procs, Call(p) \/ ChanStep(p) \/ SelectStep(p)
  PROVE  FillsOpen(hchan', hchan)
<1>1. \A c \in Chans : /\ "qcount" \in DOMAIN hchan[c] /\ hchan[c].qcount \in Nat
                       /\ hchan'[c].qcount \in Nat
  BY DEF IInv, TypeInv, ChanState
<1>2. Known(hchan) /\ Counted(hchan) /\ \A X : Known(LookInto(X)) /\ NoFuller(LookInto(X), hchan)
  <2>1. Known(hchan) /\ \A X : Known(LookInto(X)) BY LookIntoKept DEF IInv, SameClosed
  <2>2. Counted(hchan) BY <1>1 DEF Counted, IInv, TypeInv
  <2>3. ASSUME NEW X PROVE NoFuller(LookInto(X), hchan)
    <3> DEFINE h == LookInto(X)
    <3>1. DOMAIN h = Chans BY DEF LookInto
    <3>2. ASSUME NEW c \in Chans
          PROVE  "qcount" \in DOMAIN h[c] /\ h[c].qcount = hchan[c].qcount
      BY <1>1 DEF LookInto
    <3> HIDE DEF h
    <3>3. Counted(h) /\ \A c \in Chans : h[c].qcount <= hchan[c].qcount
      BY <1>1, <3>1, <3>2 DEF Counted
    <3> QED BY <3>3 DEF NoFuller, h
  <2> QED BY <2>1, <2>2, <2>3
<1>3. ASSUME NEW h, h = hchan \/ \E X : h = LookInto(X), NEW i \in CasesOf(p), Attempt(p, i, h)
      PROVE  FillsOpen(hchan', hchan)
  <2>1. Known(h) /\ Counted(h) /\ \A c \in Chans : h[c].qcount <= hchan[c].qcount
    BY <1>1, <1>2, <1>3 DEF NoFuller
  <2>2. FillsOpen(hchan', h) BY <1>3, <2>1, CaseFacts, AttemptFills DEF IInv
  <2> QED BY <1>1, <2>1, <2>2 DEF FillsOpen, Counted
<1>4. ASSUME \A c \in Chans : hchan'[c].qcount = hchan[c].qcount PROVE FillsOpen(hchan', hchan)
  BY <1>1, <1>4 DEF FillsOpen
<1>5. ASSUME NEW h, NoFuller(h, hchan), hchan' = h PROVE FillsOpen(hchan', hchan)
  BY <1>5 DEF FillsOpen, NoFuller
<1>6. pc[p] = "lock" /\ op'[p] = op[p] =>
        op[p] # NoOp /\ CasesOf(p) = {1} /\ CaseOf(p).ch \in Chans
  BY CaseFacts DEF IInv, OpInv, PlainPCs, CaseOf
<1>7. CASE Call(p) BY <1>4, <1>7 DEF Call
<1>8. CASE SendFastClosed(p) \/ SendFastFull(p) \/ RecvFastEmpty(p) \/ RecvFastOpen(p)
             \/ RecvFastDrained(p)
  BY <1>4, <1>8 DEF SendFastClosed, SendFastFull, RecvFastEmpty, RecvFastOpen, RecvFastDrained
<1>9. CASE Communicate(p)
  <2>1. pc[p] = "lock" /\ Attempt(p, 1, hchan) /\ op'[p] = op[p]
    BY <1>9 DEF Communicate, Locked
  <2> QED BY <1>3, <1>6, <2>1
<1>10. CASE GiveUp(p) BY <1>2, <1>5, <1>10 DEF GiveUp, Complete
<1>11. CASE CloseAgain(p) BY <1>4, <1>11 DEF CloseAgain, Complete
<1>12. CASE Park(p)
  <2> DEFINE h == LookInto({CaseOf(p)})
             c == CaseOf(p).ch
  <2>1. pc[p] = "lock" /\ op'[p] = op[p] /\ hchan' = Enqueue(h, CaseOf(p), Sudog(p, 1))
    BY <1>12 DEF Park, Locked
  <2>2. \E q : hchan' = WithSendq(h, c, q) \/ hchan' = WithRecvq(h, c, q)
    BY <2>1 DEF Enqueue, WithSendq, WithRecvq
  <2>3. NoFuller(h, hchan) /\ Counted(h) /\ c \in Chans BY <1>2, <1>6, <2>1 DEF NoFuller
  <2> HIDE DEF h, c
  <2>4. NoFuller(hchan', h) BY <2>2, <2>3, NoFullerKept
  <2>5. NoFuller(hchan', hchan) BY <1>1, <2>3, <2>4 DEF NoFuller, Counted
  <2> QED BY <1>5, <2>5
<1>13. CASE Close(p)
  <2> DEFINE c == CaseOf(p).ch
  <2>1. hchan' = [hchan EXCEPT ![c].closed = TRUE, ![c].recvq = << >>, ![c].sendq = << >>]
    BY <1>13 DEF Close
  <2> HIDE DEF c
  <2>2. \A d \in Chans : hchan'[d].qcount = hchan[d].qcount BY <1>1, <1>2, <2>1 DEF Counted
  <2> QED BY <1>4, <2>2
<1>14. CASE ReadyOne(p) \/ Woken(p) \/ Return(p) \/ SelLock(p) \/ SelUnlock(p) \/ SelParkCommit(p)
  BY <1>4, <1>14 DEF ReadyOne, Woken, Return, SelLock, SelUnlock, SelParkCommit
<1>15. CASE SelectCase(p)
  <2>1. PICK i \in CasesOf(p), V \in SUBSET NotReady(p) :
          Attempt(p, i, LookInto({op[p].cases[j] : j \in V}))
    BY <1>15 DEF SelectCase
  <2> QED BY <1>3, <2>1
<1>16. CASE SelectDefault(p) BY <1>2, <1>5, <1>16 DEF SelectDefault, Complete
<1>17. CASE SelectPark(p)
  <2> DEFINE h == LookInto(CaseSet(p))
  <2>1. hchan' = [c \in Chans |->
                    [h[c] EXCEPT !.recvq = @ \o SudogFor(p, Case(c, "recv")),
                                 !.sendq = @ \o SudogFor(p, Case(c, "send"))]]
    BY <1>17 DEF SelectPark
  <2>2. NoFuller(h, hchan) BY <1>2
  <2> HIDE DEF h
  <2>3. \A c \in Chans : hchan'[c].qcount = h[c].qcount BY <2>1, <2>2 DEF NoFuller, Counted
  <2> QED BY <2>2, <2>3 DEF NoFuller, FillsOpen
<1>18. CASE SelectWoken(p)
  <2>1. hchan' = [c \in Chans |->
                    [hchan[c] EXCEPT !.recvq = Withdraw(@, p), !.sendq = Withdraw(@, p)]]
    BY <1>18 DEF SelectWoken
  <2>2. \A c \in Chans : hchan'[c].qcount = hchan[c].qcount BY <1>2, <2>1 DEF Counted
  <2> QED BY <1>4, <2>2
<1> QED
  BY <1>7, <1>8, <1>9, <1>10, <1>11, <1>12, <1>13, <1>14, <1>15, <1>16, <1>17, <1>18
     DEF ChanStep, SelectStep

LEMMA OneCaseNext ==
  ASSUME NEW g \in Procs
  PROVE  (TypeInv /\ op[g] # NoOp /\ ~op[g].select =>
            CasesOf(g) = {1} /\ op[g].cases[1].ch \in Chans)'
<1>1. TypeInv /\ op[g] # NoOp /\ ~op[g].select =>
        CasesOf(g) = {1} /\ op[g].cases[1].ch \in Chans
  BY CaseFacts
<1> QED BY <1>1, PTL

LEMMA SendSeenStep ==
  ASSUME \A c \in Chans : Cap[c] > 0,
         IInv, IInv', SeenInv, SendSeenInv, NEW p \in Procs,
         Call(p) \/ ChanStep(p) \/ SelectStep(p), Observe
  PROVE  SendSeenInv'
<1> DEFINE Try(g) == ~op[g].select /\ CaseOf(g).dir = "send" /\ ~op[g].block
<1>1. Elsewhere(p) BY ElsewhereStep
<1>2. ASSUME NEW g \in Procs
      PROVE  /\ ~op'[g].block /\ seen[g] => seen'[g]
             /\ ~op'[g].block /\ (\A i \in CasesOf(g)' : ~Ready(op[g].cases[i])') => seen'[g]
  BY DEF Observe
<1>3. ASSUME NEW g \in Procs, op'[g] # NoOp, Try(g)',
             ~ChanOf(g)'.closed, ChanOf(g)'.qcount = Cap[CaseOf(g)'.ch]
      PROVE  seen'[g]
  <2>1. CasesOf(g)' = {1} /\ CaseOf(g)'.ch \in Chans
    <3>1. CasesOf(g)' = {1} /\ op'[g].cases[1].ch \in Chans
      BY <1>3, OneCaseNext DEF IInv
    <3> QED BY <3>1 DEF CaseOf
  <2> DEFINE x == CaseOf(g)'
  <2>2. PICK c \in Chans : c = x.ch BY <2>1
  <2>3. Shape(c)' BY DEF IInv, QueueInv
  <2>4. hchan'[c].recvq = << >> /\ ~hchan'[c].closed /\ ~(hchan'[c].qcount < Cap[c])
    BY <1>3, <2>2, <2>3, ChanAssumption DEF Shape, ChanOf
  <2>5. ~HasLive(hchan[c].recvq)' BY <2>4 DEF HasLive, LiveAt
  <2>6. ~Ready(op[g].cases[1])' BY <1>3, <2>2, <2>4, <2>5 DEF Ready, ReadyToSend, CaseOf
  <2> QED BY <1>2, <1>3, <2>1, <2>6
<1>4. FillsOpen(hchan', hchan) BY FillsStep
<1>5. ASSUME NEW g \in Procs, Try(g), pc[g] \in PlainPCs \ {"idle"}
      PROVE  /\ op[g] # NoOp /\ CasesOf(g) = {1} /\ CaseOf(g) = op[g].cases[1]
             /\ CaseOf(g).ch \in Chans
             /\ ChanOf(g).qcount \in Nat /\ ChanOf(g).qcount <= Cap[CaseOf(g).ch]
             /\ Cap[CaseOf(g).ch] \in Nat
  <2>1. op[g] # NoOp BY <1>5 DEF IInv, OpInv
  <2>2. CasesOf(g) = {1} /\ op[g].cases[1].ch \in Chans BY <1>5, <2>1, CaseFacts DEF IInv
  <2>3. PICK c \in Chans : c = CaseOf(g).ch BY <2>2 DEF CaseOf
  <2>4. hchan[c].qcount \in Nat /\ Ring(hchan[c], c) BY DEF IInv, TypeInv, ChanState, RingInv
  <2> QED BY <2>1, <2>2, <2>3, <2>4, ChanAssumption DEF CaseOf, ChanOf, Ring
<1>6. ASSUME NEW g \in Procs, op'[g] = op[g], pc[g] = "full?", pc'[g] = "full?",
             Try(g), SendSees(g), ChanOf(g)'.qcount = Cap[CaseOf(g).ch]
      PROVE  seen'[g]
  <2>1. Try(g)' /\ CaseOf(g)' = CaseOf(g) BY <1>6 DEF CaseOf
  <2>2. op'[g] # NoOp /\ CaseOf(g).ch \in Chans BY <1>5, <1>6 DEF PlainPCs
  <2>3. CASE ~ChanOf(g)'.closed BY <1>3, <1>6, <2>1, <2>2, <2>3
  <2>4. CASE ChanOf(g)'.closed
    <3>1. ChanOf(g)'.qcount <= ChanOf(g).qcount
      BY <1>4, <2>1, <2>2, <2>4 DEF FillsOpen, ChanOf
    <3>2. ChanOf(g).qcount = Cap[CaseOf(g).ch] BY <1>5, <1>6, <3>1 DEF PlainPCs
    <3> QED BY <1>2, <1>6, <2>1, <3>2 DEF SendSees
  <2> QED BY <2>3, <2>4
<1>7. ASSUME NEW g \in Procs, g # p PROVE SendSees(g)'
  <2>1. SendSees(g) BY DEF SendSeenInv
  <2>2. /\ op'[g] = op[g] /\ out'[g] = out[g] /\ CaseOf(g)' = CaseOf(g)
        /\ pc'[g] = pc[g] \/ pc'[g] \in {"woken", "relock"}
    BY <1>1, <1>7 DEF Elsewhere, CaseOf
  <2> QED BY <1>2, <1>6, <2>1, <2>2 DEF SendSees
<1>8. SendSees(p)'
  <2>1. SendSees(p) BY DEF SendSeenInv
  <2>2. /\ pc \in [Procs -> PCs] /\ DOMAIN op = Procs /\ out = [g \in Procs |-> out[g]]
        /\ DOMAIN out = Procs
    BY DEF IInv, TypeInv, SeenInv
  <2>3. ASSUME pc'[p] \notin {"full?", "ready", "done"} PROVE SendSees(p)'
    BY <2>3 DEF SendSees
  <2>4. ASSUME NEW i, i # 0, Commits(p, i) PROVE SendSees(p)'
    <3>1. PICK ss, v, ok : /\ pc' = [pc EXCEPT ![p] = AfterCase(p, ss)]
                           /\ out' = [out EXCEPT ![p] = Out(i, v, ok)]
      BY <2>4 DEF Commits
    <3>2. pc'[p] \in {"selunlock", "ready", "done"}
      BY <2>2, <3>1, CaseFacts DEF AfterCase, IInv
    <3>3. out'[p].i # 0 BY <2>2, <2>4, <3>1 DEF Out
    <3> QED BY <3>2, <3>3 DEF SendSees
  <2>5. CASE Call(p)
    <3>1. pc'[p] \in {"sellock", "lock", "closed?", "empty?"} BY <2>2, <2>5 DEF Call
    <3> QED BY <2>3, <3>1
  <2>6. CASE SendFastClosed(p)
    <3>1. /\ pc[p] = "closed?" /\ pc'[p] = IF ChanOf(p).closed THEN "lock" ELSE "full?"
          /\ op'[p] = op[p] /\ CaseOf(p)' = CaseOf(p) /\ ChanOf(p)' = ChanOf(p)
      BY <2>2, <2>6 DEF SendFastClosed, Goto, CaseOf, ChanOf
    <3>2. ASSUME Try(p), ~ChanOf(p).closed, ChanOf(p).qcount = Cap[CaseOf(p).ch] PROVE seen'[p]
      BY <1>3, <1>5, <3>1, <3>2 DEF PlainPCs
    <3> QED BY <3>1, <3>2 DEF SendSees
  <2>7. CASE SendFastFull(p)
    <3>1. /\ pc[p] = "full?" /\ pc'[p] = IF Full(p) THEN "done" ELSE "lock"
          /\ op'[p] = op[p] /\ CaseOf(p)' = CaseOf(p)
      BY <2>2, <2>7 DEF SendFastFull, Goto, CaseOf
    <3>2. ASSUME Try(p), Full(p) PROVE seen'[p]
      <4>1. CaseOf(p).ch \in Chans BY <1>5, <3>1, <3>2 DEF PlainPCs
      <4>2. ChanOf(p).qcount = Cap[CaseOf(p).ch] BY <3>2, <4>1 DEF Full
      <4> QED BY <1>2, <2>1, <3>1, <3>2, <4>2 DEF SendSees
    <3> QED BY <3>1, <3>2 DEF SendSees
  <2>8. CASE RecvFastEmpty(p)
    <3>1. pc'[p] \in {"open?", "lock"} BY <2>2, <2>8 DEF RecvFastEmpty, Goto
    <3> QED BY <2>3, <3>1
  <2>9. CASE RecvFastOpen(p) \/ RecvFastDrained(p)
    <3>1. pc[p] \in {"open?", "drained?"} /\ CaseOf(p)' = CaseOf(p)
      BY <2>9 DEF RecvFastOpen, RecvFastDrained, Goto, CaseOf
    <3>2. CaseOf(p)'.dir = "recv" BY <3>1 DEF SeenInv, Sees
    <3> QED BY <3>2 DEF SendSees
  <2>10. CASE Communicate(p) BY <2>4, <2>10, AttemptCommits DEF Communicate
  <2>11. CASE GiveUp(p)
    <3> DEFINE X == {CaseOf(p)}
    <3>1. /\ pc[p] = "lock" /\ CaseOf(p).dir \in Sides /\ ~Ready(CaseOf(p))
          /\ hchan' = LookInto(X) /\ UNCHANGED << op, selectDone >>
      BY <2>11 DEF GiveUp, Locked, Sides, Complete, sudogVars
    <3>2. ASSUME Try(p) PROVE seen'[p]
      <4>1. CasesOf(p) = {1} /\ CaseOf(p) = op[p].cases[1] BY <1>5, <3>1, <3>2 DEF PlainPCs
      <4>2. \A x \in X : \E i \in CasesOf(p) : x = op[p].cases[i] /\ ~Ready(x) BY <3>1, <4>1
      <4>3. \A i \in CasesOf(p) : op[p].cases[i].dir \in Sides /\ ~Ready(op[p].cases[i])
        BY <3>1, <4>1
      <4> HIDE DEF X
      <4>4. Looked(hchan') /\ SameRings(hchan')
        <5>1. Looked(LookInto(X)) /\ SameRings(LookInto(X)) BY <4>2, <4>3, LookIntoLooked DEF IInv
        <5> QED BY <3>1, <5>1
      <4>5. \A i \in CasesOf(p) : ~Ready(op[p].cases[i])'
        BY <3>1, <4>3, <4>4, StillNotReady DEF IInv
      <4>6. CasesOf(p)' = CasesOf(p) /\ ~op'[p].block BY <3>1, <3>2 DEF CasesOf
      <4> QED BY <1>2, <4>5, <4>6
    <3>3. op'[p] = op[p] /\ CaseOf(p)' = CaseOf(p) BY <3>1 DEF CaseOf
    <3>4. pc'[p] # "full?"
      BY <2>2, <2>11, CaseFacts DEF GiveUp, Complete, AfterCase, IInv
    <3> QED BY <3>2, <3>3, <3>4 DEF SendSees
  <2>12. CASE Park(p)
    <3>1. pc'[p] = "parked" BY <2>2, <2>12 DEF Park
    <3> QED BY <2>3, <3>1
  <2>13. CASE CloseAgain(p)
    <3>1. Commits(p, 1) BY <2>13 DEF CloseAgain, Complete, Commits
    <3> QED BY <2>4, <3>1
  <2>14. CASE Close(p)
    <3>1. Commits(p, 1) BY <2>14 DEF Close, Commits
    <3> QED BY <2>4, <3>1
  <2>15. CASE ReadyOne(p)
    <3>1. PICK t \in glist[p] :
            pc' = IF pc[t] # "parked" THEN [pc EXCEPT ![p] = "throw"]
                  ELSE [pc EXCEPT ![p] = IF glist[p] = {t} THEN "done" ELSE @, ![t] = Wakeup(t)]
      BY <2>15 DEF ReadyOne
    <3>2. /\ pc[p] = "ready" /\ op'[p] = op[p] /\ CaseOf(p)' = CaseOf(p) /\ out'[p] = out[p]
      BY <2>15 DEF ReadyOne, CaseOf
    <3>3. pc'[p] \in {"throw", "ready", "done"} BY <2>2, <3>1, <3>2
    <3> QED BY <1>2, <2>1, <3>2, <3>3 DEF SendSees
  <2>16. CASE Woken(p)
    <3>1. pc'[p] \in {"throw", "done"} /\ out'[p].i # 0
      BY <2>2, <2>16 DEF Woken, Goto, Out
    <3> QED BY <3>1 DEF SendSees
  <2>17. CASE Return(p)
    <3>1. pc'[p] = "idle" BY <2>2, <2>17 DEF Return, Goto
    <3> QED BY <2>3, <3>1
  <2>18. CASE SelectStep(p)
    <3>1. op'[p] = op[p]
      BY <2>18 DEF SelectStep, SelLock, SelUnlock, SelectCase, SelectDefault, SelectPark,
                   SelParkCommit, SelectWoken
    <3>2. pc[p] \in SelectPCs \/ parking[p] # {}
      BY <2>18 DEF SelectStep, SelLock, SelUnlock, SelectCase, SelectDefault, SelectPark,
                   SelParkCommit, SelectWoken, Goto, SelectPCs, SelLockStates
    <3>3. op[p].select BY <3>2 DEF IInv, OpInv, LockInv, Locks
    <3> QED BY <3>1, <3>3 DEF SendSees
  <2> QED
    BY <2>5, <2>6, <2>7, <2>8, <2>9, <2>10, <2>11, <2>12, <2>13, <2>14, <2>15, <2>16, <2>17,
       <2>18 DEF ChanStep
<1> QED BY <1>7, <1>8 DEF SendSeenInv

(* Where every channel has a buffer, a non-blocking send that comes back      *)
(* empty-handed has met a state, during the call, in which its channel was    *)
(* open and full: a closed ring does not fill up (chan.go:193-204).  On an    *)
(* unbuffered channel the code does not keep this.                            *)
THEOREM SendDefaultMet ==
  (\A c \in Chans : Cap[c] > 0) => (Spec => []SendDefaultJustified)
<1> SUFFICES ASSUME \A c \in Chans : Cap[c] > 0 PROVE Spec => []SendDefaultJustified OBVIOUS
<1>1. InitAll => SendSeenInv
  <2> SUFFICES ASSUME Init PROVE SendSeenInv BY DEF InitAll
  <2>1. \A p \in Procs : pc[p] = "idle" BY DEF Init
  <2> QED BY <2>1 DEF SendSeenInv, SendSees
<1>2. IInv /\ IInv' /\ SeenInv /\ SendSeenInv /\ [Next]_vars => SendSeenInv'
  <2> SUFFICES ASSUME IInv, IInv', SeenInv, SendSeenInv, [Next]_vars PROVE SendSeenInv' OBVIOUS
  <2>1. CASE Next
    <3>1. PICK p \in Procs : (Call(p) \/ ChanStep(p) \/ SelectStep(p)) /\ Observe
      BY <2>1 DEF Next
    <3> QED BY <3>1, SendSeenStep
  <2>2. CASE UNCHANGED vars
    BY <2>2 DEF vars, chanVars, SendSeenInv, SendSees, CaseOf, ChanOf
  <2> QED BY <2>1, <2>2
<1>3. SendSeenInv => SendDefaultJustified
  BY DEF SendSeenInv, SendSees, SendDefaultJustified, GaveUp
<1> QED BY <1>1, <1>2, <1>3, Inductive, SeenAlways, PTL DEF Spec

-----------------------------------------------------------------------------
(* The refinement of Channels.  Contents, Pending and Result are the abstract *)
(* state Select maps to; ResultInv, which the mapping needs, says that a call *)
(* has nothing to tell before it is complete, and that a goroutine which a    *)
(* close has taken finds its channel drained.  A step of goroutine p leaves   *)
(* every other call where it was (Keeps, Still), but the partner's in a       *)
(* meeting: the lemmas GivesUp to Closes put such a step together with what   *)
(* it does to the channels, and make an action of Channels of it.             *)

(* The steps at which a call has its result. *)
EndPCs == {"selunlock", "ready", "done"}

(* What a call has to tell: nothing before it is complete; a goroutine that   *)
(* was taken by a close receives nothing, and nothing is left in the buffer.  *)
Told(p) ==
  /\ pc[p] \notin EndPCs => out[p] = NoOut
  /\ pc[p] \notin EndPCs /\ ~Taken(p) => elem[p] = NoVal
  /\ pc[p] \in {"closed?", "full?"} => ~op[p].block
  /\ pc[p] = "drained?" => ChanOf(p).closed
  /\ param[p] # 0 /\ ~success[p] =>
       LET x == op[p].cases[param[p]] IN
       x.dir = "recv" => hchan[x.ch].qcount = 0

ResultInv == \A p \in Procs : Told(p)

(* The abstract state, as Select maps it. *)
Contents(h, c) == [k \in 1 .. h.qcount |-> h.buf[(h.recvx + k - 1) % Cap[c]]]
Pending(p) ==
  IF Completed(p) THEN {}
  ELSE CaseSet(p) \cup {Case("no channel", "default") : b \in {op[p].block} \ {TRUE}}
Result(p) ==
  LET o == Outcome(p) IN
  IF ~Completed(p) \/ o.i = 0
  THEN [case |-> Case("no channel", "default"), val |-> NoVal, ok |-> TRUE]
  ELSE [case |-> op[p].cases[o.i], val |-> o.val, ok |-> o.ok]

(* The step completes p's call with case i: well, with value v; badly, having *)
(* met a closed channel; or with its default.                                 *)
Won(p, i, v) ==
  /\ Pending(p)' = {} /\ Told(p)'
  /\ Result(p)' = [case |-> op[p].cases[i], val |-> v, ok |-> TRUE]
Lost(p, i) ==
  /\ Pending(p)' = {} /\ Told(p)'
  /\ Result(p)' = [case |-> op[p].cases[i], val |-> NoVal, ok |-> FALSE]
Dropped(p) == Pending(p)' = {} /\ Told(p)' /\ Result(p)' = Impl!NoResult

(* A step that leaves the values in the channels alone. *)
SameValues ==
  \A c \in Chans :
    /\ hchan'[c].closed = hchan[c].closed /\ hchan'[c].buf = hchan[c].buf
    /\ hchan'[c].qcount = hchan[c].qcount /\ hchan'[c].recvx = hchan[c].recvx

(* A closed channel stays closed, and empty once it is. *)
Drains ==
  \A c \in Chans : hchan[c].closed =>
    /\ hchan'[c].closed
    /\ hchan[c].qcount = 0 => hchan'[c].qcount = 0

(* A step of another goroutine, which readies g at most. *)
Keeps(g) ==
  /\ op'[g] = op[g] /\ out'[g] = out[g] /\ elem'[g] = elem[g]
  /\ param'[g] = param[g] /\ success'[g] = success[g]
  /\ pc'[g] = pc[g] \/ (pc[g] = "parked" /\ pc'[g] \in {"woken", "relock"})

(* A step that leaves g's call, as the program sees it, where it was. *)
Still(g) == Pending(g)' = Pending(g) /\ Result(g)' = Result(g) /\ Told(g)'

Refines == (Impl!Next \/ UNCHANGED Impl!vars) /\ ResultInv'

LEMMA Channel ==
  ASSUME IInv, NEW g \in Procs
  PROVE  /\ \A i \in CasesOf(g) : op[g].cases[i].ch \in Chans
         /\ param[g] # 0 => param[g] \in CasesOf(g)
         /\ param[g] # 0 => pc[g] \in TakenPCs /\ pc[g] \notin EndPCs
         /\ pc[g] \in PlainPCs \ {"idle"} => CaseOf(g).ch \in Chans
         /\ param[g] # 0 /\ ~success[g] => hchan[op[g].cases[param[g]].ch].closed
<1>1. \A i \in CasesOf(g) : op[g].cases[i].ch \in Chans BY CaseFacts DEF IInv
<1>2. Wake(g) BY DEF IInv, WakeInv
<1>3. pc[g] \in PlainPCs \ {"idle"} => CaseOf(g).ch \in Chans
  <2> SUFFICES ASSUME pc[g] \in PlainPCs \ {"idle"} PROVE CaseOf(g).ch \in Chans OBVIOUS
  <2>1. ~op[g].select /\ op[g] # NoOp BY DEF IInv, OpInv
  <2>2. 1 \in CasesOf(g) BY <2>1, CaseFacts DEF IInv
  <2> QED BY <1>1, <2>2 DEF CaseOf
<1> QED BY <1>1, <1>2, <1>3 DEF Wake, TakenPCs, EndPCs

(* A call whose goroutine moves within its steps, or after them, is as it was *)
(* to the program.                                                            *)
LEMMA Moving ==
  ASSUME IInv, NEW g \in Procs, Told(g), Drains,
         op'[g] = op[g], out'[g] = out[g], elem'[g] = elem[g],
         param'[g] = param[g], success'[g] = success[g],
         (pc'[g] \in EndPCs) = (pc[g] \in EndPCs),
         pc'[g] \in {"closed?", "full?"} => pc[g] \in {"closed?", "full?"},
         pc'[g] = "drained?" => \/ pc[g] = "drained?"
                                \/ CaseOf(g).ch \in Chans /\ ChanOf(g).closed
  PROVE  Still(g)
<1>1. Taken(g)' = Taken(g) BY DEF Taken
<1>3. Completed(g)' = Completed(g) BY <1>1 DEF Completed, EndPCs
<1>4. CaseSet(g)' = CaseSet(g) BY DEF CaseSet, CasesOf
<1>5. Outcome(g)' = Outcome(g) BY <1>1 DEF Outcome
<1>6. Pending(g)' = Pending(g) BY <1>3, <1>4 DEF Pending
<1>7. Result(g)' = Result(g) BY <1>3, <1>5 DEF Result
<1>8. Told(g)'
  <2>1. /\ pc'[g] \notin EndPCs => out'[g] = NoOut
        /\ pc'[g] \notin EndPCs /\ ~Taken(g)' => elem'[g] = NoVal
        /\ pc'[g] \in {"closed?", "full?"} => ~op'[g].block
    BY <1>1 DEF Told
  <2>2. pc'[g] = "drained?" => ChanOf(g)'.closed
    <3> SUFFICES ASSUME pc'[g] = "drained?" PROVE ChanOf(g)'.closed OBVIOUS
    <3>1. pc[g] = "drained?" => CaseOf(g).ch \in Chans BY Channel DEF PlainPCs
    <3>2. CaseOf(g).ch \in Chans /\ ChanOf(g).closed BY <3>1 DEF Told
    <3>3. CaseOf(g)' = CaseOf(g) BY DEF CaseOf
    <3> QED BY <3>2, <3>3 DEF ChanOf, Drains
  <2>3. ASSUME param'[g] # 0, ~success'[g], op'[g].cases[param'[g]].dir = "recv"
        PROVE  hchan'[op'[g].cases[param'[g]].ch].qcount = 0
    <3>1. param[g] # 0 /\ ~success[g] BY <2>3
    <3>2. op[g].cases[param[g]].ch \in Chans BY <3>1, Channel
    <3>3. hchan[op[g].cases[param[g]].ch].closed BY <3>1, Channel
    <3>4. hchan[op[g].cases[param[g]].ch].qcount = 0 BY <2>3, <3>1 DEF Told
    <3> QED BY <3>1, <3>2, <3>3, <3>4 DEF Drains
  <2> QED BY <2>1, <2>2, <2>3 DEF Told
<1> QED BY <1>6, <1>7, <1>8 DEF Still

(* So is that of a goroutine which is at most readied. *)
LEMMA Bystander ==
  ASSUME IInv, NEW g \in Procs, Told(g), Keeps(g), Drains
  PROVE  Still(g)
<1>1. /\ (pc'[g] \in EndPCs) = (pc[g] \in EndPCs)
      /\ pc'[g] \in {"closed?", "full?"} => pc[g] \in {"closed?", "full?"}
      /\ pc'[g] = "drained?" => pc[g] = "drained?"
  BY DEF Keeps, EndPCs
<1>2. /\ op'[g] = op[g] /\ out'[g] = out[g] /\ elem'[g] = elem[g]
      /\ param'[g] = param[g] /\ success'[g] = success[g]
  BY DEF Keeps
<1> QED BY <1>1, <1>2, Moving

LEMMA SameDrains ==
  ASSUME SameValues
  PROVE  /\ Drains
         /\ \A c \in Chans : Contents(hchan'[c], c) = Contents(hchan[c], c)
BY DEF SameValues, Drains, Contents

(* Nothing happened, as far as the program can see. *)
LEMMA Stutter ==
  ASSUME \A g \in Procs : Still(g), SameValues
  PROVE  Refines
<1>1. ResultInv' BY DEF ResultInv, Still
<1>2. \A g \in Procs : Pending(g)' = Pending(g) /\ Result(g)' = Result(g) BY DEF Still
<1>3. UNCHANGED [p \in Procs |-> Pending(p)] BY <1>2
<1>4. UNCHANGED [p \in Procs |-> Result(p)] BY <1>2
<1>5. UNCHANGED [c \in Chans |-> Contents(hchan[c], c)] BY SameDrains
<1>6. UNCHANGED [c \in Chans |-> hchan[c].closed] BY DEF SameValues
<1>7. UNCHANGED Impl!vars BY <1>3, <1>4, <1>5, <1>6 DEF Impl!vars, Pending, Result, Contents
<1> QED BY <1>1, <1>7 DEF Refines

(* Complete, in terms of Pending and Result. *)
LEMMA Completes ==
  ASSUME NEW S \in SUBSET Procs, NEW r, DOMAIN r = S,
         \A g \in S : Pending(g)' = {} /\ Result(g)' = r[g],
         \A g \in Procs \ S : Still(g)
  PROVE  Impl!Complete(r)
<1> DEFINE P == [g \in Procs |-> Pending(g)]
           R == [g \in Procs |-> Result(g)]
<1>1. P' = [g \in Procs |-> IF g \in DOMAIN r THEN {} ELSE P[g]] BY DEF Still
<1>2. R' = [g \in Procs |-> IF g \in DOMAIN r THEN r[g] ELSE R[g]] BY DEF Still
<1> QED BY <1>1, <1>2 DEF Impl!Complete, Pending, Result

(* The call of p completes, and nobody else's. *)
LEMMA OneCompletes ==
  ASSUME NEW p \in Procs, NEW r, Pending(p)' = {}, Result(p)' = r,
         \A g \in Procs : g # p => Still(g)
  PROVE  Impl!Complete(Impl!One(p, r))
<1>1. DOMAIN Impl!One(p, r) = {p} /\ Impl!One(p, r)[p] = r BY DEF Impl!One
<1> QED BY <1>1, Completes

(* The calls of p and q complete together. *)
LEMMA TwoComplete ==
  ASSUME NEW p \in Procs, NEW q \in Procs, p # q, NEW r, NEW r2,
         Pending(p)' = {}, Result(p)' = r, Pending(q)' = {}, Result(q)' = r2,
         \A g \in Procs : g # p /\ g # q => Still(g)
  PROVE  Impl!Complete(Impl!Two(p, r, q, r2))
<1>1. /\ DOMAIN Impl!Two(p, r, q, r2) = {p, q}
      /\ Impl!Two(p, r, q, r2)[p] = r /\ Impl!Two(p, r, q, r2)[q] = r2
  BY DEF Impl!Two
<1> QED BY <1>1, Completes

(* A call that is not complete offers its cases. *)
LEMMA OffersCases ==
  ASSUME IInv, NEW p \in Procs, ~Completed(p)
  PROVE  /\ \A i \in CasesOf(p) : \A c, dir :
              op[p].cases[i] = Case(c, dir) => Impl!Offers(p, c, dir)
         /\ ~op[p].block => Impl!Default \in Pending(p)
<1>1. Pending(p) = CaseSet(p) \cup {Case("no channel", "default") : b \in {op[p].block} \ {TRUE}}
  BY DEF Pending
<1>2. ASSUME NEW i \in CasesOf(p), NEW c, NEW dir, op[p].cases[i] = Case(c, dir)
      PROVE  Impl!Offers(p, c, dir)
  <2>1. Case(c, dir) \in CaseSet(p) BY <1>2 DEF CaseSet
  <2>2. [ch |-> c, dir |-> dir] \in Pending(p) BY <1>1, <2>1 DEF Case
  <2> QED BY <2>2 DEF Impl!Offers, Pending
<1>3. ASSUME ~op[p].block PROVE Impl!Default \in Pending(p)
  <2>1. op[p].block \in {op[p].block} \ {TRUE} BY <1>3
  <2>2. Case("no channel", "default") \in Pending(p) BY <1>1, <2>1
  <2> QED BY <2>2 DEF Case, Impl!Default, Impl!NoChan
<1> QED BY <1>2, <1>3

-----------------------------------------------------------------------------
(* The values in a channel *)

(* The slot of the k-th value of a ring of n whose first is in slot x.        *)
LEMMA SlotOf ==
  ASSUME NEW n \in Nat, n > 0, NEW x \in 0 .. n - 1, NEW k \in 1 .. n
  PROVE  /\ (x + k - 1) % n = IF x + k - 1 < n THEN x + k - 1 ELSE x + k - 1 - n
         /\ (x + k - 1) % n \in 0 .. n - 1
<1>1. x + k - 1 \in Nat /\ x + k - 1 < 2 * n OBVIOUS
<1>2. (x + k - 1) % n = IF x + k - 1 < n THEN x + k - 1 ELSE x + k - 1 - n
  BY <1>1, ModuloNat
<1> QED BY <1>1, <1>2

(* The values are as many as qcount says. *)
LEMMA ContentsSeq ==
  ASSUME NEW c \in Chans, NEW h \in ChanState(c), Ring(h, c)
  PROVE  /\ Contents(h, c) \in Seq(Procs \cup {NoVal}) /\ Len(Contents(h, c)) = h.qcount
         /\ \A k \in 1 .. h.qcount : Contents(h, c)[k] = h.buf[(h.recvx + k - 1) % Cap[c]]
         /\ h.qcount = 0 => Contents(h, c) = << >>
<1> DEFINE n == Cap[c]
           x == h.recvx
           q == h.qcount
<1>1. /\ n \in Nat /\ x \in Nat /\ q \in Nat /\ q <= n /\ (n > 0 => x < n)
      /\ h.buf \in [0 .. n - 1 -> Procs \cup {NoVal}]
  BY ChanAssumption DEF ChanState, Ring
<1>2. Contents(h, c) = [k \in 1 .. q |-> h.buf[(x + k - 1) % n]] BY DEF Contents
<1> HIDE DEF n, x, q
<1>3. \A k \in 1 .. q : h.buf[(x + k - 1) % n] \in Procs \cup {NoVal}
  <2> SUFFICES ASSUME NEW k \in 1 .. q PROVE h.buf[(x + k - 1) % n] \in Procs \cup {NoVal}
    OBVIOUS
  <2>1. n > 0 /\ x \in 0 .. n - 1 /\ k \in 1 .. n BY <1>1
  <2>2. (x + k - 1) % n \in 0 .. n - 1 BY <1>1, <2>1, SlotOf
  <2> QED BY <1>1, <2>2
<1>4. Contents(h, c) \in Seq(Procs \cup {NoVal}) /\ Len(Contents(h, c)) = q
  <2>1. Contents(h, c) \in [1 .. q -> Procs \cup {NoVal}] BY <1>2, <1>3
  <2>2. Contents(h, c) \in Seq(Procs \cup {NoVal}) BY <1>1, <2>1, SeqDef
  <2>3. DOMAIN Contents(h, c) = 1 .. q BY <1>2
  <2>4. DOMAIN Contents(h, c) = 1 .. Len(Contents(h, c)) /\ Len(Contents(h, c)) \in Nat
    BY <2>2, LenProperties
  <2> QED BY <1>1, <2>2, <2>3, <2>4
<1>5. \A k \in 1 .. q : Contents(h, c)[k] = h.buf[(x + k - 1) % n] BY <1>2
<1>6. q = 0 => Contents(h, c) = << >> BY <1>4, EmptySeq
<1> QED BY <1>4, <1>5, <1>6 DEF n, x, q

(* What a push does to a ring, and what it puts at the end of the values.     *)
LEMMA PushContents ==
  ASSUME NEW c \in Chans, NEW h \in ChanState(c), Ring(h, c), h.qcount < Cap[c],
         NEW v \in Procs, NEW h2 \in ChanState(c), Ring(h2, c),
         h2.buf = [h.buf EXCEPT ![h.sendx] = v], h2.recvx = h.recvx,
         h2.qcount = h.qcount + 1
  PROVE  Contents(h2, c) = Append(Contents(h, c), v)
<1> DEFINE n == Cap[c]
           x == h.recvx
           q == h.qcount
           s == Contents(h, c)
           s2 == Contents(h2, c)
           V == Procs \cup {NoVal}
<1>1. /\ n \in Nat /\ x \in Nat /\ q \in Nat /\ q < n /\ n > 0 /\ x < n
      /\ h.buf \in [0 .. n - 1 -> V] /\ h.sendx = (x + q) % n
  BY ChanAssumption DEF ChanState, Ring
<1>2. /\ s \in Seq(V) /\ Len(s) = q /\ \A k \in 1 .. q : s[k] = h.buf[(x + k - 1) % n]
  BY ContentsSeq
<1>3. /\ s2 \in Seq(V) /\ Len(s2) = q + 1
      /\ \A k \in 1 .. q + 1 : s2[k] = h2.buf[(x + k - 1) % n]
  <2>1. /\ s2 \in Seq(V) /\ Len(s2) = h2.qcount
        /\ \A k \in 1 .. h2.qcount : s2[k] = h2.buf[(h2.recvx + k - 1) % n]
    BY ContentsSeq
  <2>2. h2.qcount = q + 1 /\ h2.recvx = x OBVIOUS
  <2> HIDE DEF n, x, q, s, s2, V
  <2> QED BY <2>1, <2>2
<1>4. h2.buf = [h.buf EXCEPT ![(x + q) % n] = v] BY <1>1
<1> HIDE DEF n, x, q, s, s2, V
<1>5. /\ (x + q) % n \in 0 .. n - 1
      /\ (x + q) % n = IF x + q < n THEN x + q ELSE x + q - n
  <2>1. q + 1 \in 1 .. n /\ x \in 0 .. n - 1 /\ x + (q + 1) - 1 = x + q BY <1>1
  <2>2. /\ (x + (q + 1) - 1) % n \in 0 .. n - 1
        /\ (x + (q + 1) - 1) % n = IF x + (q + 1) - 1 < n THEN x + (q + 1) - 1
                                   ELSE x + (q + 1) - 1 - n
    BY <1>1, <2>1, SlotOf
  <2> QED BY <1>1, <2>1, <2>2
<1>6. \A k \in 1 .. q : s2[k] = s[k]
  <2> SUFFICES ASSUME NEW k \in 1 .. q PROVE s2[k] = s[k] OBVIOUS
  <2>1. k \in 1 .. n /\ x \in 0 .. n - 1 BY <1>1
  <2>2. /\ (x + k - 1) % n = IF x + k - 1 < n THEN x + k - 1 ELSE x + k - 1 - n
        /\ (x + k - 1) % n \in 0 .. n - 1
    BY <1>1, <2>1, SlotOf
  <2>3. (x + k - 1) % n # (x + q) % n BY <1>1, <1>5, <2>2
  <2>4. h2.buf[(x + k - 1) % n] = h.buf[(x + k - 1) % n] BY <1>1, <1>4, <2>2, <2>3
  <2>5. k \in 1 .. q + 1 BY <1>1
  <2> QED BY <1>2, <1>3, <2>4, <2>5
<1>7. s2[q + 1] = v
  <2>1. q + 1 \in 1 .. q + 1 /\ x + (q + 1) - 1 = x + q BY <1>1
  <2>2. s2[q + 1] = h2.buf[(x + q) % n] BY <1>3, <2>1
  <2> QED BY <1>1, <1>4, <1>5, <2>2
<1>8. v \in V BY DEF V
<1>9. /\ Append(s, v) \in Seq(V) /\ Len(Append(s, v)) = q + 1
      /\ \A k \in 1 .. q : Append(s, v)[k] = s[k] /\ Append(s, v)[q + 1] = v
  BY <1>1, <1>2, <1>8, AppendProperties
<1>10. \A k \in 1 .. q + 1 : k \in 1 .. q \/ k = q + 1 BY <1>1
<1>11. \A k \in 1 .. q + 1 : s2[k] = Append(s, v)[k]
  <2>1. Append(s, v)[q + 1] = v BY <1>1, <1>2, <1>8, AppendProperties
  <2> QED BY <1>6, <1>7, <1>9, <1>10, <2>1
<1>12. s2 = Append(s, v) BY <1>3, <1>9, <1>11, SeqEqual
<1> QED BY <1>12 DEF s, s2

(* What a pop takes. *)
LEMMA PopContents ==
  ASSUME NEW c \in Chans, NEW h \in ChanState(c), Ring(h, c), h.qcount > 0,
         NEW h2 \in ChanState(c), Ring(h2, c),
         h2.buf = [h.buf EXCEPT ![h.recvx] = NoVal], h2.recvx = Bump(c, h.recvx),
         h2.qcount = h.qcount - 1
  PROVE  /\ Contents(h, c) # << >> /\ Head(Contents(h, c)) = h.buf[h.recvx]
         /\ Contents(h2, c) = Tail(Contents(h, c))
<1> DEFINE n == Cap[c]
           x == h.recvx
           y == h2.recvx
           q == h.qcount
           s == Contents(h, c)
           s2 == Contents(h2, c)
           V == Procs \cup {NoVal}
<1>1. /\ n \in Nat /\ x \in Nat /\ q \in Nat /\ q > 0 /\ q <= n /\ n > 0 /\ x < n
      /\ h.buf \in [0 .. n - 1 -> V] /\ y = IF x + 1 = n THEN 0 ELSE x + 1
  BY ChanAssumption DEF ChanState, Ring, Bump
<1>2. /\ s \in Seq(V) /\ Len(s) = q /\ \A k \in 1 .. q : s[k] = h.buf[(x + k - 1) % n]
  BY ContentsSeq
<1>3. /\ s2 \in Seq(V) /\ Len(s2) = q - 1
      /\ \A k \in 1 .. q - 1 : s2[k] = h2.buf[(y + k - 1) % n]
  BY ContentsSeq
<1>4. h2.buf = [h.buf EXCEPT ![x] = NoVal] OBVIOUS
<1> HIDE DEF n, x, y, q, s, s2, V
<1>5. s # << >> /\ Head(s) = s[1] BY <1>1, <1>2
<1>6. s[1] = h.buf[x]
  <2>1. 1 \in 1 .. q /\ 1 \in 1 .. n /\ x \in 0 .. n - 1 /\ x + 1 - 1 = x BY <1>1
  <2>2. (x + 1 - 1) % n = x BY <1>1, <2>1, SlotOf
  <2> QED BY <1>2, <2>1, <2>2
<1>7. \A k \in 1 .. q - 1 : s2[k] = s[k + 1]
  <2> SUFFICES ASSUME NEW k \in 1 .. q - 1 PROVE s2[k] = s[k + 1] OBVIOUS
  <2>1. /\ k \in 1 .. n /\ k + 1 \in 1 .. n /\ k + 1 \in 1 .. q
        /\ x \in 0 .. n - 1 /\ y \in 0 .. n - 1
    BY <1>1
  <2>2. (y + k - 1) % n = IF y + k - 1 < n THEN y + k - 1 ELSE y + k - 1 - n
    BY <1>1, <2>1, SlotOf
  <2>3. /\ (x + (k + 1) - 1) % n = IF x + (k + 1) - 1 < n THEN x + (k + 1) - 1
                                   ELSE x + (k + 1) - 1 - n
        /\ (x + (k + 1) - 1) % n \in 0 .. n - 1
    BY <1>1, <2>1, SlotOf
  <2>4. (y + k - 1) % n = (x + (k + 1) - 1) % n BY <1>1, <2>1, <2>2, <2>3
  <2>5. (x + (k + 1) - 1) % n # x BY <1>1, <2>1, <2>3
  <2>6. h2.buf[(x + (k + 1) - 1) % n] = h.buf[(x + (k + 1) - 1) % n]
    BY <1>1, <1>4, <2>3, <2>5
  <2>7. s2[k] = h2.buf[(y + k - 1) % n] BY <1>3
  <2>8. s[k + 1] = h.buf[(x + (k + 1) - 1) % n] BY <1>2, <2>1
  <2> QED BY <2>4, <2>6, <2>7, <2>8
<1>8. /\ Tail(s) \in Seq(V) /\ Len(Tail(s)) = q - 1
      /\ \A k \in 1 .. q - 1 : Tail(s)[k] = s[k + 1]
  BY <1>1, <1>2, <1>5
<1>9. s2 = Tail(s) BY <1>3, <1>7, <1>8, SeqEqual
<1> QED BY <1>5, <1>6, <1>9 DEF s, s2, x

(* A full ring gives its first value and takes another. *)
LEMMA RotateContents ==
  ASSUME NEW c \in Chans, NEW h \in ChanState(c), Ring(h, c), Cap[c] > 0, h.qcount = Cap[c],
         NEW v \in Procs, NEW h2 \in ChanState(c), Ring(h2, c),
         h2.buf = [h.buf EXCEPT ![h.recvx] = v], h2.recvx = Bump(c, h.recvx),
         h2.qcount = h.qcount
  PROVE  /\ Head(Append(Contents(h, c), v)) = h.buf[h.recvx]
         /\ Contents(h2, c) = Tail(Append(Contents(h, c), v))
         /\ Len(Contents(h, c)) = Cap[c]
<1> DEFINE n == Cap[c]
           x == h.recvx
           y == h2.recvx
           s == Contents(h, c)
           s2 == Contents(h2, c)
           V == Procs \cup {NoVal}
           a == Append(s, v)
<1>1. /\ n \in Nat /\ x \in Nat /\ n > 0 /\ x < n
      /\ h.buf \in [0 .. n - 1 -> V] /\ y = IF x + 1 = n THEN 0 ELSE x + 1
  BY ChanAssumption DEF ChanState, Ring, Bump
<1>2. /\ s \in Seq(V) /\ Len(s) = n /\ \A k \in 1 .. n : s[k] = h.buf[(x + k - 1) % n]
  BY ContentsSeq
<1>3. /\ s2 \in Seq(V) /\ Len(s2) = n /\ \A k \in 1 .. n : s2[k] = h2.buf[(y + k - 1) % n]
  <2>1. /\ s2 \in Seq(V) /\ Len(s2) = h2.qcount
        /\ \A k \in 1 .. h2.qcount : s2[k] = h2.buf[(y + k - 1) % n]
    BY ContentsSeq
  <2>2. h2.qcount = n OBVIOUS
  <2> HIDE DEF n, x, y, s, s2, V
  <2> QED BY <2>1, <2>2
<1>4. h2.buf = [h.buf EXCEPT ![x] = v] OBVIOUS
<1>5. v \in V OBVIOUS
<1> HIDE DEF n, x, y, s, s2, V
<1>6. /\ a \in Seq(V) /\ Len(a) = n + 1 /\ a[n + 1] = v /\ \A k \in 1 .. n : a[k] = s[k]
  BY <1>1, <1>2, <1>5, AppendProperties
<1> HIDE DEF a
<1>7. a # << >> /\ Head(a) = a[1] BY <1>1, <1>6
<1>8. a[1] = h.buf[x]
  <2>1. 1 \in 1 .. n /\ x \in 0 .. n - 1 /\ x + 1 - 1 = x BY <1>1
  <2>2. (x + 1 - 1) % n = x BY <1>1, <2>1, SlotOf
  <2> QED BY <1>2, <1>6, <2>1, <2>2
<1>9. \A k \in 1 .. n : s2[k] = a[k + 1]
  <2> SUFFICES ASSUME NEW k \in 1 .. n PROVE s2[k] = a[k + 1] OBVIOUS
  <2>1. x \in 0 .. n - 1 /\ y \in 0 .. n - 1 BY <1>1
  <2>2. /\ (y + k - 1) % n = IF y + k - 1 < n THEN y + k - 1 ELSE y + k - 1 - n
        /\ (y + k - 1) % n \in 0 .. n - 1
    BY <1>1, <2>1, SlotOf
  <2>3. s2[k] = h2.buf[(y + k - 1) % n] BY <1>3
  <2>4. CASE k = n
    <3>1. (y + k - 1) % n = x
      <4>1. y + k - 1 = IF x + 1 = n THEN n - 1 ELSE x + n BY <1>1, <2>4
      <4> QED BY <1>1, <2>2, <4>1
    <3> QED BY <1>1, <1>4, <1>6, <2>2, <2>3, <2>4, <3>1
  <2>5. CASE k # n
    <3>1. k + 1 \in 1 .. n BY <1>1, <2>5
    <3>2. (x + (k + 1) - 1) % n = IF x + (k + 1) - 1 < n THEN x + (k + 1) - 1
                                  ELSE x + (k + 1) - 1 - n
      BY <1>1, <2>1, <3>1, SlotOf
    <3>3. (y + k - 1) % n = (x + (k + 1) - 1) % n /\ (y + k - 1) % n # x
      BY <1>1, <2>1, <2>2, <2>5, <3>2
    <3>4. h2.buf[(y + k - 1) % n] = h.buf[(y + k - 1) % n] BY <1>1, <1>4, <2>2, <3>3
    <3>5. a[k + 1] = h.buf[(x + (k + 1) - 1) % n] BY <1>2, <1>6, <3>1
    <3> QED BY <2>3, <3>3, <3>4, <3>5
  <2> QED BY <2>4, <2>5
<1>10. /\ Tail(a) \in Seq(V) /\ Len(Tail(a)) = n /\ \A k \in 1 .. n : Tail(a)[k] = a[k + 1]
  BY <1>1, <1>6, <1>7
<1>11. s2 = Tail(a) BY <1>3, <1>9, <1>10, SeqEqual
<1> QED BY <1>2, <1>7, <1>8, <1>11 DEF a, s, s2, n, x
-----------------------------------------------------------------------------
(* How a step completes calls *)

(* A call that comes to its end, with its result. *)
LEMMA Finishes ==
  ASSUME NEW p \in Procs, pc'[p] \in EndPCs, param'[p] = 0, op'[p] = op[p]
  PROVE  /\ \A i \in Nat \ {0} : \A v : out'[p] = Out(i, v, TRUE) => Won(p, i, v)
         /\ \A i \in Nat \ {0} : out'[p] = Out(i, NoVal, FALSE) => Lost(p, i)
         /\ out'[p] = NoOut => Dropped(p)
<1>1. Completed(p)' /\ ~Taken(p)' BY DEF Completed, Taken, EndPCs
<1>2. Outcome(p)' = out'[p] BY <1>1 DEF Outcome
<1>3. Pending(p)' = {} /\ Told(p)' BY <1>1 DEF Pending, Told, EndPCs
<1>4. ASSUME NEW i \in Nat \ {0}, NEW v, out'[p] = Out(i, v, TRUE)
      PROVE  Result(p)' = [case |-> op[p].cases[i], val |-> v, ok |-> TRUE]
  BY <1>1, <1>2, <1>4 DEF Result, Out
<1>5. ASSUME NEW i \in Nat \ {0}, out'[p] = Out(i, NoVal, FALSE)
      PROVE  Result(p)' = [case |-> op[p].cases[i], val |-> NoVal, ok |-> FALSE]
  BY <1>1, <1>2, <1>5 DEF Result, Out
<1>6. ASSUME out'[p] = NoOut PROVE Result(p)' = Impl!NoResult
  BY <1>1, <1>2, <1>6 DEF Result, NoOut, Out, Impl!NoResult, Impl!Default, Impl!NoChan, Case
<1> QED BY <1>3, <1>4, <1>5, <1>6 DEF Won, Lost, Dropped

(* The call of a goroutine that is taken by a partner is complete. *)
LEMMA Picked ==
  ASSUME IInv, NEW g \in Procs, Told(g), pc[g] \notin EndPCs, pc'[g] = pc[g],
         op'[g] = op[g], out'[g] = out[g], pc[g] \in TakenPCs,
         NEW i \in Nat \ {0}, param'[g] = i, success'[g] = TRUE, NEW w, elem'[g] = w
  PROVE  Won(g, i, w)
<1>1. Completed(g)' /\ Taken(g)' BY DEF Completed, Taken
<1>2. Outcome(g)' = Out(i, w, TRUE) BY <1>1 DEF Outcome
<1>3. Result(g)' = [case |-> op[g].cases[i], val |-> w, ok |-> TRUE]
  BY <1>1, <1>2 DEF Result, Out
<1> QED BY <1>1, <1>3 DEF Pending, Told, TakenPCs, Won

(* What one step does to the queues and to the flags. *)
LEMMA OneChannel ==
  ASSUME NEW c \in Chans, NEW v, Contents(hchan'[c], c) = v,
         \A d \in Chans : d # c => Contents(hchan'[d], d) = Contents(hchan[d], d),
         \A d \in Chans : hchan'[d].closed = hchan[d].closed
  PROVE  /\ [d \in Chans |-> Contents(hchan[d], d)]' =
              [[d \in Chans |-> Contents(hchan[d], d)] EXCEPT ![c] = v]
         /\ UNCHANGED [d \in Chans |-> hchan[d].closed]
OBVIOUS

LEMMA NoChannel ==
  ASSUME SameValues
  PROVE  /\ UNCHANGED [c \in Chans |-> Contents(hchan[c], c)]
         /\ UNCHANGED [c \in Chans |-> hchan[c].closed]
BY SameDrains DEF SameValues

(* A non-blocking call gives up. *)
LEMMA GivesUp ==
  ASSUME IInv, ResultInv, NEW p \in Procs, ~Completed(p), ~op[p].block,
         Dropped(p), \A g \in Procs : g # p => Still(g), SameValues
  PROVE  Refines
<1>1. Impl!Complete(Impl!One(p, Impl!NoResult)) BY OneCompletes DEF Dropped
<1>2. Impl!Default \in Pending(p) BY OffersCases
<1>3. Impl!TakeDefault(p)
  BY <1>1, <1>2, NoChannel DEF Impl!TakeDefault, Pending, Contents
<1>4. Impl!Next BY <1>3 DEF Impl!Next
<1>5. ResultInv' BY DEF ResultInv, Still, Dropped
<1> QED BY <1>4, <1>5 DEF Refines

(* A call meets a closed channel. *)
LEMMA FindsClosed ==
  ASSUME IInv, ResultInv, NEW p \in Procs, ~Completed(p),
         NEW i \in CasesOf(p), NEW c \in Chans, NEW dir \in {"send", "recv", "close"},
         op[p].cases[i] = Case(c, dir), hchan[c].closed, dir = "recv" => hchan[c].qcount = 0,
         Lost(p, i), \A g \in Procs : g # p => Still(g), SameValues
  PROVE  Refines
<1>0. Result(p)' = Impl!Failed(c, dir) BY DEF Lost, Impl!Failed, Case
<1>1. Impl!Complete(Impl!One(p, Impl!Failed(c, dir))) BY <1>0, OneCompletes DEF Lost
<1>2. Impl!Offers(p, c, dir) BY OffersCases
<1>3. dir = "recv" => Contents(hchan[c], c) = << >>
  <2>1. hchan[c] \in ChanState(c) /\ Ring(hchan[c], c) BY DEF IInv, TypeInv, RingInv
  <2> QED BY <2>1, ContentsSeq
<1>4. Impl!OnClosed(p, c, dir)
  <2>1. UNCHANGED [d \in Chans |-> Contents(hchan[d], d)]
    /\ UNCHANGED [d \in Chans |-> hchan[d].closed] BY NoChannel
  <2> QED BY <1>1, <1>2, <1>3, <2>1 DEF Impl!OnClosed, Contents
<1>5. Impl!Next BY <1>4 DEF Impl!Next
<1>6. ResultInv' BY DEF ResultInv, Still, Won, Lost
<1> QED BY <1>5, <1>6 DEF Refines

(* A send puts its value into the buffer. *)
LEMMA Buffers ==
  ASSUME IInv, ResultInv, NEW p \in Procs, ~Completed(p),
         NEW i \in CasesOf(p), NEW c \in Chans, op[p].cases[i] = Case(c, "send"),
         ~hchan[c].closed, hchan[c].qcount < Cap[c],
         Contents(hchan'[c], c) = Append(Contents(hchan[c], c), p),
         \A d \in Chans : d # c => Contents(hchan'[d], d) = Contents(hchan[d], d),
         \A d \in Chans : hchan'[d].closed = hchan[d].closed,
         Won(p, i, NoVal), \A g \in Procs : g # p => Still(g)
  PROVE  Refines
<1>0. Result(p)' = Impl!Sent(c) BY DEF Won, Impl!Sent, Case
<1>1. Impl!Complete(Impl!One(p, Impl!Sent(c))) BY <1>0, OneCompletes DEF Won
<1>2. Impl!Offers(p, c, "send") BY OffersCases
<1>3. Len(Contents(hchan[c], c)) < Cap[c]
  <2>1. hchan[c] \in ChanState(c) /\ Ring(hchan[c], c) BY DEF IInv, TypeInv, RingInv
  <2> QED BY <2>1, ContentsSeq
<1>4. Impl!SendToBuffer(p, c)
  <2> DEFINE Q == [d \in Chans |-> Contents(hchan[d], d)]
  <2>1. /\ Q' = [Q EXCEPT ![c] = Append(Contents(hchan[c], c), p)]
        /\ UNCHANGED [d \in Chans |-> hchan[d].closed]
    BY OneChannel
  <2>2. Q' = [Q EXCEPT ![c] = Append(@, p)] BY <2>1
  <2> QED BY <1>1, <1>2, <1>3, <2>1, <2>2 DEF Impl!SendToBuffer, Contents
<1>5. Impl!Next BY <1>4 DEF Impl!Next
<1>6. ResultInv' BY DEF ResultInv, Still, Won, Lost
<1> QED BY <1>5, <1>6 DEF Refines

(* A receive takes the oldest value of the buffer. *)
LEMMA Unbuffers ==
  ASSUME IInv, ResultInv, NEW p \in Procs, ~Completed(p),
         NEW i \in CasesOf(p), NEW c \in Chans, op[p].cases[i] = Case(c, "recv"),
         Contents(hchan[c], c) # << >>,
         Contents(hchan'[c], c) = Tail(Contents(hchan[c], c)),
         \A d \in Chans : d # c => Contents(hchan'[d], d) = Contents(hchan[d], d),
         \A d \in Chans : hchan'[d].closed = hchan[d].closed,
         NEW v, v = Head(Contents(hchan[c], c)), Won(p, i, v),
         \A g \in Procs : g # p => Still(g)
  PROVE  Refines
<1>0. Result(p)' = Impl!Got(c, v) BY DEF Won, Impl!Got, Case
<1>1. Impl!Complete(Impl!One(p, Impl!Got(c, v))) BY <1>0, OneCompletes DEF Won
<1>2. Impl!Offers(p, c, "recv") BY OffersCases
<1>4. Impl!RecvFromBuffer(p, c)
  <2> DEFINE Q == [d \in Chans |-> Contents(hchan[d], d)]
  <2>1. /\ Q' = [Q EXCEPT ![c] = Tail(Contents(hchan[c], c))]
        /\ UNCHANGED [d \in Chans |-> hchan[d].closed]
    BY OneChannel
  <2>3. Q[c] = Contents(hchan[c], c) OBVIOUS
  <2>2. Q' = [Q EXCEPT ![c] = Tail(Q[c])] BY <2>1, <2>3
  <2>4. Q[c] # << >> /\ Impl!Complete(Impl!One(p, Impl!Got(c, Head(Q[c]))))
    BY <1>1, <2>3 DEF Impl!Complete
  <2>5. /\ Impl!Offers(p, c, "recv")
        /\ Q[c] # << >>
        /\ Q' = [Q EXCEPT ![c] = Tail(Q[c])]
        /\ Impl!Complete(Impl!One(p, Impl!Got(c, Head(Q[c]))))
        /\ UNCHANGED [d \in Chans |-> hchan[d].closed]
    BY <1>2, <2>1, <2>2, <2>4
  <2> QED BY <2>5 DEF Impl!RecvFromBuffer, Impl!Complete, Contents
<1>5. Impl!Next BY <1>4 DEF Impl!Next
<1>6. ResultInv' BY DEF ResultInv, Still, Won, Lost
<1> QED BY <1>5, <1>6 DEF Refines

(* p sends to q. *)
LEMMA Meets ==
  ASSUME IInv, ResultInv, NEW p \in Procs, NEW q \in Procs, p # q, ~Completed(p), ~Completed(q),
         NEW c \in Chans,
         NEW i \in CasesOf(p), op[p].cases[i] = Case(c, "send"),
         NEW j \in CasesOf(q), op[q].cases[j] = Case(c, "recv"),
         ~hchan[c].closed, hchan[c].qcount \in {0, Cap[c]},
         Contents(hchan'[c], c) = Tail(Append(Contents(hchan[c], c), p)),
         \A d \in Chans : d # c => Contents(hchan'[d], d) = Contents(hchan[d], d),
         \A d \in Chans : hchan'[d].closed = hchan[d].closed,
         Won(p, i, NoVal),
         NEW v, v = Head(Append(Contents(hchan[c], c), p)), Won(q, j, v),
         \A g \in Procs : g # p /\ g # q => Still(g)
  PROVE  Refines
<1>0. Result(p)' = Impl!Sent(c) /\ Result(q)' = Impl!Got(c, v)
  BY DEF Won, Impl!Sent, Impl!Got, Case
<1>1. Impl!Complete(Impl!Two(p, Impl!Sent(c), q, Impl!Got(c, v)))
  BY <1>0, TwoComplete DEF Won
<1>2. Impl!Offers(p, c, "send") /\ Impl!Offers(q, c, "recv") BY OffersCases
<1>3. Len(Contents(hchan[c], c)) \in {0, Cap[c]}
  <2>1. hchan[c] \in ChanState(c) /\ Ring(hchan[c], c) BY DEF IInv, TypeInv, RingInv
  <2> QED BY <2>1, ContentsSeq
<1>4. Impl!Meet(p, q, c)
  <2> DEFINE Q == [d \in Chans |-> Contents(hchan[d], d)]
  <2>1. /\ Q' = [Q EXCEPT ![c] = Tail(Append(Contents(hchan[c], c), p))]
        /\ UNCHANGED [d \in Chans |-> hchan[d].closed]
    BY OneChannel
  <2>3. Q[c] = Contents(hchan[c], c) OBVIOUS
  <2>2. Q' = [Q EXCEPT ![c] = Tail(Append(Q[c], p))] BY <2>1, <2>3
  <2>4. /\ Len(Q[c]) \in {0, Cap[c]}
        /\ Impl!Complete(Impl!Two(p, Impl!Sent(c), q, Impl!Got(c, Head(Append(Q[c], p)))))
    BY <1>1, <1>3, <2>3 DEF Impl!Complete
  <2>5. /\ p # q /\ Impl!Offers(p, c, "send") /\ Impl!Offers(q, c, "recv")
        /\ ~[d \in Chans |-> hchan[d].closed][c]
        /\ Len(Q[c]) \in {0, Cap[c]}
        /\ LET all == Append(Q[c], p) IN
           /\ Q' = [Q EXCEPT ![c] = Tail(all)]
           /\ Impl!Complete(Impl!Two(p, Impl!Sent(c), q, Impl!Got(c, Head(all))))
        /\ UNCHANGED [d \in Chans |-> hchan[d].closed]
    BY <1>2, <2>1, <2>2, <2>4
  <2> QED BY <2>5 DEF Impl!Meet, Impl!Complete, Contents
<1>5. Impl!Next BY <1>4 DEF Impl!Next
<1>6. ResultInv' BY DEF ResultInv, Still, Won, Lost
<1> QED BY <1>5, <1>6 DEF Refines

-----------------------------------------------------------------------------
(* The steps *)

(* p's step, seen by the others. *)
LEMMA Others ==
  ASSUME IInv, ResultInv, Drains, NEW p \in Procs, \A g \in Procs : g # p => Keeps(g)
  PROVE  \A g \in Procs : g # p => Still(g)
BY Bystander DEF ResultInv

(* A step of p that changes its own fields alone, or else readies. *)
LEMMA Alone ==
  ASSUME IInv, SeenInv, NEW p \in Procs,
         NEW s, pc' = [pc EXCEPT ![p] = s], op' = op,
         NEW x, out' = [out EXCEPT ![p] = x] \/ UNCHANGED out,
         UNCHANGED << success, elem >>, NEW y, param' = [param EXCEPT ![p] = y] \/ UNCHANGED param
  PROVE  /\ \A g \in Procs : g # p => Keeps(g)
         /\ pc'[p] = s
         /\ out' = [out EXCEPT ![p] = x] => out'[p] = x
         /\ param' = [param EXCEPT ![p] = y] => param'[p] = y
<1>1. DOMAIN pc = Procs /\ DOMAIN param = Procs /\ DOMAIN out = Procs
  BY DEF IInv, TypeInv, SeenInv
<1> QED BY <1>1 DEF Keeps

(* At the steps of a call before it blocks, its result is open. *)
LEMMA Early ==
  ASSUME IInv, ResultInv, NEW p \in Procs,
         pc[p] \notin TakenPCs \cup EndPCs
  PROVE  ~Completed(p) /\ param[p] = 0 /\ out[p] = NoOut /\ elem[p] = NoVal
<1>1. param[p] = 0 BY Caller DEF EndPCs, TakenPCs, IInv, WakeInv, Wake
<1>2. ~Completed(p) BY <1>1 DEF Completed, Taken, EndPCs
<1> QED BY <1>1, <1>2 DEF ResultInv, Told, Taken

(* A call that completes by itself leaves the others alone. *)
LEMMA CompletesAlone ==
  ASSUME IInv, SeenInv, ResultInv, NEW p \in Procs, pc[p] \notin TakenPCs \cup EndPCs,
         NEW i \in Nat, NEW v, NEW ok, NEW h, Complete(p, i, v, ok, h), UNCHANGED op, Drains
  PROVE  /\ ~Completed(p) /\ hchan' = h
         /\ i # 0 /\ ok = TRUE => Won(p, i, v)
         /\ i # 0 /\ ok = FALSE /\ v = NoVal => Lost(p, i)
         /\ i = 0 /\ ok = TRUE /\ v = NoVal => Dropped(p)
         /\ \A g \in Procs : g # p => Still(g)
<1>1. /\ hchan' = h /\ pc' = [pc EXCEPT ![p] = AfterCase(p, {})]
      /\ out' = [out EXCEPT ![p] = Out(i, v, ok)]
      /\ UNCHANGED << param, success, elem >>
  BY DEF Complete, sudogVars
<1>2. /\ \A g \in Procs : g # p => Keeps(g)
      /\ pc'[p] = AfterCase(p, {}) /\ out'[p] = Out(i, v, ok)
  BY <1>1, Alone
<1>3. ~Completed(p) /\ param[p] = 0 BY Early
<1>4. pc'[p] \in EndPCs BY <1>2 DEF AfterCase, EndPCs
<1>5. /\ \A j \in Nat \ {0} : \A w : out'[p] = Out(j, w, TRUE) => Won(p, j, w)
      /\ \A j \in Nat \ {0} : out'[p] = Out(j, NoVal, FALSE) => Lost(p, j)
      /\ out'[p] = NoOut => Dropped(p)
  BY <1>1, <1>3, <1>4, Finishes
<1>6. i # 0 /\ ok = TRUE => Won(p, i, v) BY <1>2, <1>5
<1>7. i # 0 /\ ok = FALSE /\ v = NoVal => Lost(p, i) BY <1>2, <1>5
<1>8. i = 0 /\ ok = TRUE /\ v = NoVal => Dropped(p) BY <1>2, <1>5 DEF NoOut
<1> QED BY <1>1, <1>2, <1>3, <1>6, <1>7, <1>8, Others

(* A step that only looks into queues. *)
LEMMA LooksSame ==
  ASSUME NEW h, Looked(h), SameRings(h), hchan' = h
  PROVE  SameValues
BY DEF Looked, SameRings, SameValues

(* A partner that is taken off a queue: its case, and its call.               *)
LEMMA Partner ==
  ASSUME IInv, NEW h, Looked(h), SameRings(h), NEW c \in Chans, NEW dir \in Sides,
         HasLive(QueueAt(h, c, dir)),
         NEW p \in Procs, pc[p] \in {"lock", "pass1"}
  PROVE  LET s == First(QueueAt(h, c, dir)) IN
         /\ s.g \in Procs /\ s.g # p /\ s.i \in CasesOf(s.g) /\ s.i \in Nat \ {0}
         /\ op[s.g].cases[s.i] = Case(c, dir)
         /\ pc[s.g] \in TakenPCs /\ pc[s.g] \notin EndPCs /\ param[s.g] = 0
         /\ ~Completed(s.g) /\ pc[s.g] = "parked"
         /\ Rest(QueueAt(h, c, dir)) \in Seq(Entry)
<1> DEFINE q == QueueAt(hchan, c, dir)
           s == First(q)
<1>1. QueueAt(h, c, dir) = q
  BY LookedFacts DEF QueueAt, Sides
<1>2. q \in Seq(Entry) /\ \A j, k \in 1 .. Len(q) : q[j].g = q[k].g => j = k
  BY QueueFacts DEF IInv, QueueInv, Rightful
<1>3. HasLive(q) BY <1>1
<1> HIDE DEF q
<1>4. s \in Entry /\ Live(s) /\ Occurs(s, q) /\ Rest(q) \in Seq(Entry) BY <1>2, <1>3, RestFacts
<1>5. PICK k \in 1 .. Len(q) : q[k] = s BY <1>4 DEF Occurs
<1>6. /\ s.g \in Procs /\ s.i \in CasesOf(s.g) /\ s.i \in Nat \ {0}
      /\ op[s.g].cases[s.i] = Case(c, dir) /\ s.g \in Waiting
  <2>1. k \in 1 .. Len(QueueAt(hchan, c, dir)) BY DEF q
  <2> HIDE DEF s
  <2>2. LET t == QueueAt(hchan, c, dir)[k] IN
        /\ t \in Entry /\ t.g \in Procs /\ t.i \in CasesOf(t.g) /\ t.i \in Nat \ {0}
        /\ op[t.g].cases[t.i] = Case(c, dir)
        /\ Live(t) <=> t.g \in Waiting
    BY <2>1, LiveIff DEF IInv
  <2> QED BY <1>4, <1>5, <2>2 DEF q
<1>7. s.g # p
  <2>1. pc[p] \notin TakenPCs \cup {"ready", "selunlock"} BY DEF TakenPCs
  <2>2. QueueAt(hchan, c, dir)[k].g # p BY <1>5, <2>1, Caller DEF q
  <2> QED BY <1>5, <2>2 DEF q
<1>8. pc[s.g] = "parked" /\ param[s.g] = 0 BY <1>6 DEF Waiting, Parked
<1>9. /\ pc[s.g] \in TakenPCs /\ pc[s.g] \notin EndPCs /\ ~Completed(s.g)
  BY <1>8 DEF TakenPCs, EndPCs, Completed, Taken
<1> QED BY <1>1, <1>4, <1>6, <1>7, <1>8, <1>9

(* A call that completes with the partner of sudog s. *)
LEMMA CompletesBoth ==
  ASSUME IInv, SeenInv, ResultInv, NEW p \in Procs, pc[p] \in {"lock", "pass1"},
         NEW s, s.g \in Procs, s.g # p, s.i \in Nat \ {0}, pc[s.g] \in TakenPCs,
         pc[s.g] \notin EndPCs,
         NEW i \in Nat \ {0}, NEW v, NEW h, NEW w, CompleteWith(p, i, v, h, s, w), UNCHANGED op, Drains
  PROVE  /\ ~Completed(p) /\ hchan' = h
         /\ Won(p, i, v) /\ Won(s.g, s.i, w)
         /\ \A g \in Procs : g # p /\ g # s.g => Still(g)
<1>0. /\ DOMAIN pc = Procs /\ DOMAIN param = Procs /\ DOMAIN out = Procs
      /\ DOMAIN success = Procs /\ DOMAIN elem = Procs
  BY DEF IInv, TypeInv, SeenInv
<1>1. /\ hchan' = h /\ pc' = [pc EXCEPT ![p] = AfterCase(p, {s.g})]
      /\ out' = [out EXCEPT ![p] = Out(i, v, TRUE)]
      /\ param' = [param EXCEPT ![s.g] = s.i] /\ success' = [success EXCEPT ![s.g] = TRUE]
      /\ elem' = [elem EXCEPT ![s.g] = w]
  BY DEF CompleteWith
<1>2. ~Completed(p) /\ param[p] = 0 BY Early DEF TakenPCs, EndPCs
<1>3. /\ pc'[p] = AfterCase(p, {s.g}) /\ out'[p] = Out(i, v, TRUE) /\ param'[p] = 0
      /\ op'[p] = op[p]
  BY <1>0, <1>1, <1>2
<1>4. pc'[p] \in EndPCs BY <1>3 DEF AfterCase, EndPCs
<1>5. Won(p, i, v)
  BY <1>3, <1>4, Finishes
<1>6. /\ pc'[s.g] = pc[s.g] /\ op'[s.g] = op[s.g] /\ out'[s.g] = out[s.g]
      /\ param'[s.g] = s.i /\ success'[s.g] = TRUE /\ elem'[s.g] = w
  BY <1>0, <1>1
<1>7. Won(s.g, s.i, w)
  BY <1>6, Picked DEF ResultInv
<1>8. ASSUME NEW g \in Procs, g # p, g # s.g PROVE Still(g)
  <2>1. Keeps(g) BY <1>0, <1>1, <1>8 DEF Keeps
  <2> QED BY <2>1, Bystander DEF ResultInv
<1> QED BY <1>1, <1>2, <1>5, <1>7, <1>8

(* The values of the channels other than c. *)
LEMMA OthersSame ==
  ASSUME IInv, NEW h, Looked(h), SameRings(h), NEW c \in Chans,
         \A d \in Chans : d # c => hchan'[d] = h[d], hchan'[c].closed = h[c].closed
  PROVE  /\ \A d \in Chans : d # c => Contents(hchan'[d], d) = Contents(hchan[d], d)
         /\ \A d \in Chans : hchan'[d].closed = hchan[d].closed
         /\ (hchan[c].closed /\ hchan[c].qcount = 0 => hchan'[c].qcount = 0) => Drains
BY DEF Looked, SameRings, Contents, Drains

LEMMA AttemptRefines ==
  ASSUME IInv, IInv', SeenInv, ResultInv, NEW p \in Procs, pc[p] \in {"lock", "pass1"},
         NEW i \in CasesOf(p), op[p].cases[i].dir \in Sides,
         NEW h, Looked(h), SameRings(h), Attempt(p, i, h), UNCHANGED op
  PROVE  Refines
<1>0. PICK c \in Chans : c = op[p].cases[i].ch BY CaseFacts DEF IInv
<1>1. c \in Chans /\ i \in Nat \ {0} /\ op[p].cases[i] = Case(c, op[p].cases[i].dir)
  BY <1>0, CaseFacts DEF IInv
<1>2. /\ op[p].cases[i].dir = "send" => AttemptSend(p, i, h, c)
      /\ op[p].cases[i].dir # "send" => AttemptRecv(p, i, h, c)
  BY <1>0 DEF Attempt
<1>3. op[p].cases[i] = Case(c, "send") \/ op[p].cases[i] = Case(c, "recv")
  BY <1>1 DEF Sides
<1>4. /\ op[p].cases[i] = Case(c, "send") => AttemptSend(p, i, h, c)
      /\ op[p].cases[i] = Case(c, "recv") => AttemptRecv(p, i, h, c)
  BY <1>2 DEF Case
<1>5. /\ Ring(h[c], c) /\ h[c] \in ChanState(c) /\ h[c].qcount \in 0 .. Cap[c]
      /\ h[c].closed \in BOOLEAN
      /\ h[c].closed => h[c].recvq = << >> /\ h[c].sendq = << >>
      /\ Cap[c] > 0 /\ h[c].qcount > 0      => h[c].recvq = << >>
      /\ Cap[c] > 0 /\ h[c].qcount < Cap[c] => h[c].sendq = << >>
      /\ Cap[c] \in Nat /\ Typed(h)
      /\ h[c].closed = hchan[c].closed /\ h[c].qcount = hchan[c].qcount
      /\ h[c].buf = hchan[c].buf /\ h[c].recvx = hchan[c].recvx
  BY <1>1, LookedFacts DEF Looked, SameRings
<1>6. /\ hchan[c] \in ChanState(c) /\ Ring(hchan[c], c)
      /\ hchan'[c] \in ChanState(c) /\ Ring(hchan'[c], c)
  BY <1>1 DEF IInv, TypeInv, RingInv
<1>7. Contents(h[c], c) = Contents(hchan[c], c) BY <1>5 DEF Contents
<1>8. ~HasLive(<< >>) BY DEF HasLive, LiveAt
<1>9. pc[p] \notin TakenPCs \cup EndPCs BY DEF TakenPCs, EndPCs
<1>10. CASE SendOnClosed(p, i, h, c) /\ op[p].cases[i] = Case(c, "send")
  <2>1. h[c].closed /\ Complete(p, i, NoVal, FALSE, h) BY <1>10 DEF SendOnClosed
  <2>2. hchan' = h BY <2>1 DEF Complete
  <2>3. SameValues /\ Drains BY <2>2, LooksSame, SameDrains
  <2>4. /\ ~Completed(p) /\ Lost(p, i) /\ \A g \in Procs : g # p => Still(g)
    BY <1>1, <1>9, <2>1, <2>3, CompletesAlone
  <2>6. "send" \in {"send", "recv", "close"} /\ hchan[c].closed BY <1>5, <2>1
  <2> QED BY <1>1, <1>10, <2>3, <2>4, <2>6, FindsClosed
<1>11. CASE SendToReceiver(p, i, h, c) /\ op[p].cases[i] = Case(c, "send")
  <2> DEFINE q == QueueAt(h, c, "recv")
             h2 == WithRecvq(h, c, Rest(q))
  <2>0. PICK s : s = First(q) OBVIOUS
  <2>1. /\ q = h[c].recvq /\ ~h[c].closed /\ HasLive(q)
        /\ CompleteWith(p, i, NoVal, h2, s, p)
    BY <1>11, <2>0 DEF SendToReceiver, WithRecvq, QueueAt
  <2>2. /\ s.g \in Procs /\ s.g # p /\ s.i \in CasesOf(s.g) /\ s.i \in Nat \ {0}
        /\ op[s.g].cases[s.i] = Case(c, "recv")
        /\ pc[s.g] \in TakenPCs /\ pc[s.g] \notin EndPCs /\ ~Completed(s.g)
        /\ Rest(q) \in Seq(Entry)
    BY <1>1, <2>0, <2>1, Partner DEF Sides
  <2>3. q # << >> BY <1>8, <2>1
  <2>4. h[c].qcount = 0 BY <1>5, <2>1, <2>3
  <2>5. /\ \A d \in Chans : d # c => h2[d] = h[d]
        /\ h2[c].closed = h[c].closed /\ h2[c].buf = h[c].buf
        /\ h2[c].qcount = h[c].qcount /\ h2[c].recvx = h[c].recvx
    BY <1>1, <1>5, <2>2, SetRecvq
  <2> HIDE DEF h2, q
  <2>6. hchan' = h2 BY <2>1 DEF CompleteWith
  <2>7. /\ \A d \in Chans : d # c => Contents(hchan'[d], d) = Contents(hchan[d], d)
        /\ \A d \in Chans : hchan'[d].closed = hchan[d].closed
        /\ Drains
    BY <1>1, <1>5, <2>5, <2>6, OthersSame
  <2>8. /\ ~Completed(p) /\ Won(p, i, NoVal) /\ Won(s.g, s.i, p)
        /\ \A g \in Procs : g # p /\ g # s.g => Still(g)
    BY <1>1, <2>1, <2>2, <2>7, CompletesBoth
  <2>9. Contents(hchan[c], c) = << >> /\ Contents(hchan'[c], c) = << >>
    <3>1. hchan[c].qcount = 0 /\ hchan'[c].qcount = 0 BY <1>5, <2>4, <2>5, <2>6
    <3> QED BY <1>1, <1>6, <3>1, ContentsSeq
  <2>10. /\ Contents(hchan'[c], c) = Tail(Append(Contents(hchan[c], c), p))
         /\ p = Head(Append(Contents(hchan[c], c), p))
    BY <2>9
  <2>11. ~hchan[c].closed /\ hchan[c].qcount \in {0, Cap[c]} BY <1>5, <2>1, <2>4
  <2> QED BY <1>1, <1>11, <2>2, <2>7, <2>8, <2>10, <2>11, Meets
<1>12. CASE SendToBuffer(p, i, h, c) /\ op[p].cases[i] = Case(c, "send")
  <2> DEFINE h1 == WithRecvq(h, c, << >>)
             h2 == Push(h1, c, p)
  <2>1. /\ ~h[c].closed /\ h[c].qcount < Cap[c] /\ Complete(p, i, NoVal, TRUE, h2)
    BY <1>12 DEF SendToBuffer, WithRecvq
  <2>2. << >> \in Seq(Entry) OBVIOUS
  <2>3. /\ Typed(h1) /\ \A d \in Chans : d # c => h1[d] = h[d]
        /\ h1[c].closed = h[c].closed /\ h1[c].buf = h[c].buf /\ h1[c].qcount = h[c].qcount
        /\ h1[c].sendx = h[c].sendx /\ h1[c].recvx = h[c].recvx
    <3> HIDE DEF h2
    <3>1. c \in Chans /\ Typed(h) BY <1>5
    <3>2. Typed(h1) /\ \A d \in Chans : d # c => h1[d] = h[d] BY <2>2, <3>1, SetRecvq
    <3>3. /\ h1[c].closed = h[c].closed /\ h1[c].buf = h[c].buf /\ h1[c].qcount = h[c].qcount
          /\ h1[c].sendx = h[c].sendx /\ h1[c].recvx = h[c].recvx
      BY <2>2, <3>1, SetRecvq, ZenonT(60)
    <3> QED BY <3>2, <3>3
  <2> HIDE DEF h1
  <2>4. Ring(h1[c], c) BY <1>5, <2>3 DEF Ring
  <2>5. /\ OtherwiseSame(h2, h1, c) /\ h2[c].qcount = h1[c].qcount + 1
    BY <1>1, <2>1, <2>3, <2>4, PushFacts
  <2>6. /\ h2[c].buf = [h1[c].buf EXCEPT ![h1[c].sendx] = p] /\ h2[c].recvx = h1[c].recvx
    <3>1. DOMAIN h1 = Chans /\ h1[c] \in ChanState(c) BY <1>1, <2>3 DEF Typed
    <3> QED BY <1>1, <3>1 DEF Push, ChanState
  <2>7. hchan' = h2 BY <2>1 DEF Complete
  <2> HIDE DEF h2
  <2>8. /\ \A d \in Chans : d # c => Contents(hchan'[d], d) = Contents(hchan[d], d)
        /\ \A d \in Chans : hchan'[d].closed = hchan[d].closed
        /\ Drains
    <3>1. /\ \A d \in Chans : d # c => hchan'[d] = h[d]
          /\ hchan'[c].closed = h[c].closed
      BY <2>3, <2>5, <2>7 DEF OtherwiseSame
    <3> QED BY <1>1, <1>5, <2>1, <3>1, OthersSame
  <2>9. Contents(hchan'[c], c) = Append(Contents(hchan[c], c), p)
    <3>1. /\ hchan'[c].buf = [hchan[c].buf EXCEPT ![hchan[c].sendx] = p]
          /\ hchan'[c].recvx = hchan[c].recvx /\ hchan'[c].qcount = hchan[c].qcount + 1
          /\ hchan[c].qcount < Cap[c]
      BY <1>1, <1>5, <2>1, <2>3, <2>5, <2>6, <2>7 DEF SameRings
    <3> QED BY <1>1, <1>6, <3>1, PushContents
  <2>10. /\ ~Completed(p) /\ Won(p, i, NoVal) /\ \A g \in Procs : g # p => Still(g)
    BY <1>1, <1>9, <2>1, <2>8, CompletesAlone
  <2>12. ~hchan[c].closed /\ hchan[c].qcount < Cap[c] BY <1>5, <2>1
  <2> QED BY <1>1, <1>12, <2>8, <2>9, <2>10, <2>12, Buffers
<1>13. CASE RecvFromSender(p, i, h, c) /\ op[p].cases[i] = Case(c, "recv")
  <2> DEFINE q == QueueAt(h, c, "send")
             h1 == WithSendq(h, c, Rest(q))
  <2>0. PICK s : s = First(q) OBVIOUS
  <2>1. /\ q = h[c].sendq /\ HasLive(q)
        /\ IF Cap[c] = 0 THEN CompleteWith(p, i, s.g, h1, s, NoVal)
           ELSE CompleteWith(p, i, h[c].buf[h[c].recvx], Rotate(h1, c, s.g), s, NoVal)
    BY <1>13, <2>0 DEF RecvFromSender, NoSender, WithSendq, QueueAt
  <2>2. /\ s.g \in Procs /\ s.g # p /\ s.i \in CasesOf(s.g) /\ s.i \in Nat \ {0}
        /\ op[s.g].cases[s.i] = Case(c, "send")
        /\ pc[s.g] \in TakenPCs /\ pc[s.g] \notin EndPCs /\ ~Completed(s.g)
        /\ Rest(q) \in Seq(Entry)
    BY <1>1, <2>0, <2>1, Partner DEF Sides
  <2>3. q # << >> BY <1>8, <2>1
  <2>4. ~h[c].closed /\ h[c].qcount = Cap[c] BY <1>5, <2>1, <2>3
  <2>5. /\ Typed(h1) /\ \A d \in Chans : d # c => h1[d] = h[d]
        /\ h1[c].closed = h[c].closed /\ h1[c].buf = h[c].buf
        /\ h1[c].qcount = h[c].qcount
        /\ h1[c].sendx = h[c].sendx /\ h1[c].recvx = h[c].recvx
    BY <1>1, <1>5, <2>2, SetSendq
  <2>6. Ring(h1[c], c) BY <1>5, <2>5 DEF Ring
  <2> HIDE DEF h1, q
  <2>7. PICK g \in Procs : g = s.g BY <2>2
  <2>8. PICK j \in CasesOf(g) : j = s.i BY <2>2, <2>7
  <2>9. /\ g # p /\ ~Completed(g) /\ op[g].cases[j] = Case(c, "send") /\ j \in Nat \ {0}
    BY <2>2, <2>7, <2>8
  <2>10. ASSUME NEW v, NEW h2, CompleteWith(p, i, v, h2, s, NoVal),
                \A d \in Chans : d # c => h2[d] = h[d], h2[c].closed = h[c].closed,
                hchan' = h2 => v = Head(Append(Contents(hchan[c], c), g)),
                hchan' = h2 =>
                  Contents(hchan'[c], c) = Tail(Append(Contents(hchan[c], c), g))
         PROVE  Refines
    <3>1. hchan' = h2 BY <2>10 DEF CompleteWith
    <3>2. /\ \A d \in Chans : d # c => Contents(hchan'[d], d) = Contents(hchan[d], d)
          /\ \A d \in Chans : hchan'[d].closed = hchan[d].closed
          /\ Drains
      BY <1>1, <1>5, <2>4, <2>10, <3>1, OthersSame
    <3>3. /\ ~Completed(p) /\ Won(p, i, v) /\ Won(s.g, s.i, NoVal)
          /\ \A r \in Procs : r # p /\ r # s.g => Still(r)
      BY <1>1, <2>2, <2>10, <3>2, CompletesBoth
    <3>4. Won(g, j, NoVal) /\ \A r \in Procs : r # p /\ r # g => Still(r)
      BY <2>7, <2>8, <3>3
    <3>5. /\ v = Head(Append(Contents(hchan[c], c), g))
          /\ Contents(hchan'[c], c) = Tail(Append(Contents(hchan[c], c), g))
      BY <2>10, <3>1
    <3>6. ~hchan[c].closed /\ hchan[c].qcount \in {0, Cap[c]} BY <1>5, <2>4
    <3> QED BY <1>1, <1>13, <2>9, <3>2, <3>3, <3>4, <3>5, <3>6, Meets
  <2>11. CASE Cap[c] = 0
    <3>1. CompleteWith(p, i, g, h1, s, NoVal) BY <2>1, <2>7, <2>11
    <3>2. ASSUME hchan' = h1
          PROVE  Contents(hchan[c], c) = << >> /\ Contents(hchan'[c], c) = << >>
      <4>1. hchan[c].qcount = 0 /\ hchan'[c].qcount = 0 BY <1>5, <2>4, <2>5, <2>11, <3>2
      <4> QED BY <1>1, <1>6, <4>1, ContentsSeq
    <3>3. ASSUME hchan' = h1
          PROVE  /\ g = Head(Append(Contents(hchan[c], c), g))
                 /\ Contents(hchan'[c], c) = Tail(Append(Contents(hchan[c], c), g))
      <4>1. g = Head(Append(<< >>, g)) /\ << >> = Tail(Append(<< >>, g)) OBVIOUS
      <4>2. Contents(hchan[c], c) = << >> /\ Contents(hchan'[c], c) = << >> BY <3>2, <3>3
      <4> QED BY <4>1, <4>2
    <3> QED BY <2>5, <2>10, <3>1, <3>3
  <2>12. CASE Cap[c] # 0
    <3> DEFINE h2 == Rotate(h1, c, g)
    <3>1. CompleteWith(p, i, h[c].buf[h[c].recvx], h2, s, NoVal) BY <2>1, <2>7, <2>12
    <3>2. Cap[c] > 0 /\ h1[c].qcount = Cap[c] BY <1>5, <2>4, <2>5, <2>12
    <3>3. OtherwiseSame(h2, h1, c) /\ h2[c].qcount = h1[c].qcount
      BY <1>1, <2>5, <2>6, <3>2, RotateFacts
    <3>4. /\ h2[c].buf = [h1[c].buf EXCEPT ![h1[c].recvx] = g]
          /\ h2[c].recvx = Bump(c, h1[c].recvx)
      <4>1. DOMAIN h1 = Chans /\ h1[c] \in ChanState(c) BY <1>1, <2>5 DEF Typed
      <4> QED BY <1>1, <4>1 DEF Rotate, ChanState
    <3> HIDE DEF h2
    <3>5. /\ \A d \in Chans : d # c => h2[d] = h[d]
          /\ h2[c].closed = h[c].closed
      BY <2>5, <3>3 DEF OtherwiseSame
    <3>6. ASSUME hchan' = h2
          PROVE  /\ h[c].buf[h[c].recvx] = Head(Append(Contents(hchan[c], c), g))
                 /\ Contents(hchan'[c], c) = Tail(Append(Contents(hchan[c], c), g))
      <4>1. /\ hchan'[c].buf = [hchan[c].buf EXCEPT ![hchan[c].recvx] = g]
            /\ hchan'[c].recvx = Bump(c, hchan[c].recvx)
            /\ hchan'[c].qcount = hchan[c].qcount /\ hchan[c].qcount = Cap[c]
        BY <1>5, <2>4, <2>5, <3>2, <3>3, <3>4, <3>6
      <4>2. /\ Head(Append(Contents(hchan[c], c), g)) = hchan[c].buf[hchan[c].recvx]
            /\ Contents(hchan'[c], c) = Tail(Append(Contents(hchan[c], c), g))
        BY <1>1, <1>6, <3>2, <4>1, RotateContents
      <4> QED BY <1>5, <4>2
    <3> QED BY <2>10, <3>1, <3>5, <3>6
  <2> QED BY <2>11, <2>12
<1>14. ASSUME NoSender(p, h, c)
       PROVE  Looked(LookedAt(p, h, c)) /\ SameRings(LookedAt(p, h, c))
  <2>1. CASE Looks(p, h, c)
    <3>1. ~HasLive(h[c].sendq) BY <1>14, <2>1 DEF NoSender
    <3>2. LookedAt(p, h, c) = WithSendq(h, c, << >>) BY <2>1 DEF LookedAt, WithSendq
    <3> QED BY <1>1, <3>1, <3>2, LookedMore
  <2>2. CASE ~Looks(p, h, c) BY <2>2 DEF LookedAt
  <2> QED BY <2>1, <2>2
<1>15. CASE RecvFromBuffer(p, i, h, c) /\ op[p].cases[i] = Case(c, "recv")
  <2> DEFINE h1 == LookedAt(p, h, c)
             h2 == Pop(h1, c)
  <2>1. /\ NoSender(p, h, c) /\ h[c].qcount > 0
        /\ Complete(p, i, h[c].buf[h[c].recvx], TRUE, h2)
    BY <1>15 DEF RecvFromBuffer
  <2>2. Looked(h1) /\ SameRings(h1) BY <1>14, <2>1
  <2> HIDE DEF h1
  <2>3. /\ Ring(h1[c], c) /\ Typed(h1) /\ h1[c].qcount = hchan[c].qcount
        /\ h1[c].buf = hchan[c].buf /\ h1[c].recvx = hchan[c].recvx
    BY <1>1, <2>2, LookedFacts DEF Looked, SameRings
  <2>4. hchan[c].qcount > 0 BY <1>5, <2>1
  <2>5. OtherwiseSame(h2, h1, c) /\ h2[c].qcount = h1[c].qcount - 1
    BY <1>1, <2>3, <2>4, PopFacts
  <2>6. /\ h2[c].buf = [h1[c].buf EXCEPT ![h1[c].recvx] = NoVal]
        /\ h2[c].recvx = Bump(c, h1[c].recvx)
    <3>1. DOMAIN h1 = Chans /\ h1[c] \in ChanState(c) BY <1>1, <2>3 DEF Typed
    <3> QED BY <1>1, <3>1 DEF Pop, ChanState
  <2>7. hchan' = h2 BY <2>1 DEF Complete
  <2> HIDE DEF h2
  <2>8. /\ \A d \in Chans : d # c => Contents(hchan'[d], d) = Contents(hchan[d], d)
        /\ \A d \in Chans : hchan'[d].closed = hchan[d].closed
        /\ Drains
    <3>1. /\ \A d \in Chans : d # c => hchan'[d] = h1[d]
          /\ hchan'[c].closed = h1[c].closed
      BY <2>5, <2>7 DEF OtherwiseSame
    <3> QED BY <1>1, <2>2, <2>4, <3>1, OthersSame
  <2>9. /\ Contents(hchan[c], c) # << >>
        /\ Head(Contents(hchan[c], c)) = hchan[c].buf[hchan[c].recvx]
        /\ Contents(hchan'[c], c) = Tail(Contents(hchan[c], c))
    <3>1. /\ hchan'[c].buf = [hchan[c].buf EXCEPT ![hchan[c].recvx] = NoVal]
          /\ hchan'[c].recvx = Bump(c, hchan[c].recvx)
          /\ hchan'[c].qcount = hchan[c].qcount - 1
      BY <2>3, <2>5, <2>6, <2>7
    <3> QED BY <1>1, <1>6, <2>4, <3>1, PopContents
  <2>10. PICK v : v = h[c].buf[h[c].recvx] OBVIOUS
  <2>11. Complete(p, i, v, TRUE, h2) BY <2>1, <2>10
  <2>12. /\ ~Completed(p) /\ Won(p, i, v) /\ \A g \in Procs : g # p => Still(g)
    BY <1>1, <1>9, <2>8, <2>11, CompletesAlone
  <2>14. v = Head(Contents(hchan[c], c)) BY <1>5, <2>9, <2>10
  <2> QED BY <1>1, <1>15, <2>8, <2>9, <2>12, <2>14, Unbuffers
<1>16. CASE RecvOnClosed(p, i, h, c) /\ op[p].cases[i] = Case(c, "recv")
  <2> DEFINE h1 == LookedAt(p, h, c)
  <2>1. /\ NoSender(p, h, c) /\ h[c].closed /\ h[c].qcount = 0
        /\ Complete(p, i, NoVal, FALSE, h1)
    BY <1>16 DEF RecvOnClosed
  <2>2. Looked(h1) /\ SameRings(h1) /\ hchan' = h1 BY <1>14, <2>1 DEF Complete
  <2> HIDE DEF h1
  <2>3. SameValues /\ Drains BY <2>2, LooksSame, SameDrains
  <2>4. /\ ~Completed(p) /\ Lost(p, i) /\ \A g \in Procs : g # p => Still(g)
    BY <1>1, <1>9, <2>1, <2>3, CompletesAlone
  <2>6. "recv" \in {"send", "recv", "close"} /\ hchan[c].closed /\ hchan[c].qcount = 0
    BY <1>5, <2>1
  <2> QED BY <1>1, <1>16, <2>3, <2>4, <2>6, FindsClosed
<1> QED
  BY <1>3, <1>4, <1>10, <1>11, <1>12, <1>13, <1>15, <1>16 DEF AttemptSend, AttemptRecv

(* A step from one stage of a call to the next. *)
LEMMA MovesOn ==
  ASSUME IInv, SeenInv, ResultInv, NEW p \in Procs,
         NEW s, pc' = [pc EXCEPT ![p] = s], UNCHANGED << op, out, param, success, elem >>,
         SameValues, (s \in EndPCs) = (pc[p] \in EndPCs),
         s \in {"closed?", "full?"} => pc[p] \in {"closed?", "full?"},
         s = "drained?" => CaseOf(p).ch \in Chans /\ ChanOf(p).closed
  PROVE  Refines
<1>1. (\A g \in Procs : g # p => Keeps(g)) /\ pc'[p] = s BY Alone
<1>2. Drains BY SameDrains
<1>3. Still(p) BY <1>1, <1>2, Moving DEF ResultInv
<1>4. \A g \in Procs : g # p => Still(g) BY <1>1, <1>2, Others
<1> QED BY <1>3, <1>4, Stutter

(* The case of a call that is no select. *)
LEMMA OnlyCase ==
  ASSUME IInv, NEW p \in Procs, pc[p] \in PlainPCs \ {"idle"}
  PROVE  /\ CasesOf(p) = {1} /\ 1 \in CasesOf(p) /\ CaseOf(p) = op[p].cases[1]
         /\ CaseOf(p).ch \in Chans /\ CaseOf(p).dir \in {"send", "recv", "close"}
         /\ CaseOf(p) = Case(CaseOf(p).ch, CaseOf(p).dir)
<1>1. ~op[p].select /\ op[p] # NoOp BY DEF IInv, OpInv
<1>2. CasesOf(p) = {1} /\ 1 \in CasesOf(p) BY <1>1, CaseFacts DEF IInv
<1> QED BY <1>2, CaseFacts DEF IInv, CaseOf

(* The paths without the lock. *)
LEMMA FastRefines ==
  ASSUME IInv, SeenInv, ResultInv, NEW p \in Procs,
         SendFastClosed(p) \/ SendFastFull(p) \/ RecvFastEmpty(p) \/ RecvFastOpen(p)
           \/ RecvFastDrained(p)
  PROVE  Refines
<1>0. /\ hchan' = hchan /\ op' = op /\ UNCHANGED << param, success, elem >>
      /\ pc[p] \in {"closed?", "full?", "empty?", "open?", "drained?"}
  BY DEF SendFastClosed, SendFastFull, RecvFastEmpty, RecvFastOpen, RecvFastDrained, Goto,
         sudogVars
<1>1. SameValues /\ Drains BY <1>0, SameDrains DEF SameValues
<1>2. pc[p] \notin EndPCs /\ pc[p] \in PlainPCs \ {"idle"} BY <1>0 DEF EndPCs, PlainPCs
<1>3. ~Completed(p) /\ param[p] = 0 /\ out[p] = NoOut
  BY <1>0, Early DEF TakenPCs, EndPCs
<1>4. /\ CasesOf(p) = {1} /\ 1 \in CasesOf(p) /\ CaseOf(p) = op[p].cases[1]
      /\ CaseOf(p).ch \in Chans /\ CaseOf(p).dir \in {"send", "recv", "close"}
      /\ CaseOf(p) = Case(CaseOf(p).ch, CaseOf(p).dir)
  BY <1>2, OnlyCase
<1>5. ASSUME NEW s \in {"lock", "full?", "open?", "drained?"}, Goto(p, pc[p], s),
             UNCHANGED out, s = "full?" => pc[p] = "closed?",
             s = "drained?" => ChanOf(p).closed
      PROVE  Refines
  <2>1. pc' = [pc EXCEPT ![p] = s] BY <1>5 DEF Goto
  <2>2. (s \in EndPCs) = (pc[p] \in EndPCs) BY <1>2 DEF EndPCs
  <2> QED BY <1>0, <1>1, <1>4, <1>5, <2>1, <2>2, MovesOn
<1>6. ASSUME Goto(p, pc[p], "done"), UNCHANGED out, ~op[p].block
      PROVE  Refines
  <2>1. pc' = [pc EXCEPT ![p] = "done"] BY <1>6 DEF Goto
  <2>2. (\A g \in Procs : g # p => Keeps(g)) /\ pc'[p] = "done"
    BY <1>0, <1>6, <2>1, Alone
  <2>3. Dropped(p)
    <3>1. pc'[p] \in EndPCs /\ param'[p] = 0 /\ op'[p] = op[p] /\ out'[p] = NoOut
      BY <1>0, <1>3, <1>6, <2>2 DEF EndPCs
    <3> QED BY <3>1, Finishes
  <2>4. \A g \in Procs : g # p => Still(g) BY <1>1, <2>2, Others
  <2> QED BY <1>1, <1>3, <1>6, <2>3, <2>4, GivesUp
<1>7. CASE SendFastClosed(p)
  <2>1. PICK s \in {"lock", "full?"} : Goto(p, pc[p], s) /\ pc[p] = "closed?"
    BY <1>7 DEF SendFastClosed, Goto
  <2> QED BY <1>5, <1>7, <2>1 DEF SendFastClosed
<1>8. CASE SendFastFull(p)
  <2>1. PICK s \in {"lock", "done"} : Goto(p, pc[p], s) /\ pc[p] = "full?"
    BY <1>8 DEF SendFastFull, Goto
  <2>2. UNCHANGED out /\ ~op[p].block BY <1>8, <2>1 DEF SendFastFull, ResultInv, Told
  <2> QED BY <1>5, <1>6, <2>1, <2>2
<1>9. CASE RecvFastEmpty(p)
  <2>1. PICK s \in {"lock", "open?"} : Goto(p, pc[p], s) /\ pc[p] = "empty?"
    BY <1>9 DEF RecvFastEmpty, Goto
  <2> QED BY <1>5, <1>9, <2>1 DEF RecvFastEmpty
<1>10. CASE RecvFastOpen(p)
  <2>1. PICK s \in {"drained?", "done"} :
          Goto(p, pc[p], s) /\ pc[p] = "open?" /\ (s = "drained?" => ChanOf(p).closed)
    BY <1>10 DEF RecvFastOpen, Goto
  <2>2. UNCHANGED out /\ ~op[p].block BY <1>10, <2>1 DEF RecvFastOpen, SeenInv, Sees
  <2> QED BY <1>5, <1>6, <2>1, <2>2
<1>11. CASE RecvFastDrained(p)
  <2>1. /\ pc[p] = "drained?"
        /\ pc' = [pc EXCEPT ![p] = IF Empty(p) THEN "done" ELSE "lock"]
        /\ out' = [out EXCEPT ![p] = IF Empty(p) THEN Out(1, NoVal, FALSE) ELSE @]
    BY <1>11 DEF RecvFastDrained, Goto
  <2>2. CASE ~Empty(p)
    <3>1. pc' = [pc EXCEPT ![p] = "lock"] BY <2>1, <2>2
    <3>2. UNCHANGED out BY <2>1, <2>2 DEF SeenInv
    <3> QED BY <1>5, <2>1, <3>1, <3>2 DEF Goto
  <2>3. CASE Empty(p)
    <3>1. /\ pc' = [pc EXCEPT ![p] = "done"] /\ out' = [out EXCEPT ![p] = Out(1, NoVal, FALSE)]
      BY <2>1, <2>3
    <3>2. /\ \A g \in Procs : g # p => Keeps(g)
          /\ pc'[p] = "done" /\ out'[p] = Out(1, NoVal, FALSE)
      BY <1>0, <3>1, Alone
    <3>3. Lost(p, 1)
      <4>1. pc'[p] \in EndPCs /\ param'[p] = 0 /\ op'[p] = op[p]
        BY <1>0, <1>3, <3>2 DEF EndPCs
      <4>2. PICK i \in Nat \ {0} : i = 1 OBVIOUS
      <4>3. out'[p] = Out(i, NoVal, FALSE) BY <3>2, <4>2
      <4>4. Lost(p, i) BY <4>1, <4>3, Finishes
      <4> QED BY <4>2, <4>4
    <3>4. \A g \in Procs : g # p => Still(g) BY <1>1, <3>2, Others
    <3>5. PICK c \in Chans : c = CaseOf(p).ch BY <1>4
    <3>6. hchan[c].closed /\ hchan[c].qcount = 0
      <4>1. hchan[c].closed BY <2>1, <3>5 DEF ResultInv, Told, ChanOf
      <4>2. Ring(hchan[c], c) /\ hchan[c] \in ChanState(c) /\ Cap[c] \in Nat
        BY ChanAssumption DEF IInv, RingInv, TypeInv
      <4>3. Cap[c] # 0 => hchan[c].qcount = 0 BY <2>3, <3>5 DEF Empty, ChanOf
      <4>4. Cap[c] = 0 => hchan[c].qcount = 0
        <5>1. hchan[c].qcount \in Nat /\ hchan[c].qcount <= Cap[c] BY <4>2 DEF Ring, ChanState
        <5> QED BY <5>1
      <4> QED BY <4>1, <4>3, <4>4
    <3>7. PICK dir \in {"send", "recv", "close"} : op[p].cases[1] = Case(c, dir)
      BY <1>4, <3>5
    <3> QED BY <1>1, <1>3, <1>4, <3>3, <3>4, <3>6, <3>7, FindsClosed
  <2> QED BY <2>2, <2>3
<1> QED BY <1>7, <1>8, <1>9, <1>10, <1>11

LEMMA CommunicateRefines ==
  ASSUME IInv, SeenInv, ResultInv, NEW p \in Procs, Communicate(p)
  PROVE  Refines
<1>1. /\ pc[p] = "lock" /\ CaseOf(p).dir \in Sides /\ Attempt(p, 1, hchan)
      /\ UNCHANGED << op, lockVars >>
  BY DEF Communicate, Locked, Sides
<1>2. 1 \in CasesOf(p) /\ op[p].cases[1].dir \in Sides BY <1>1, OnlyCase DEF PlainPCs
<1>3. Looked(hchan) /\ SameRings(hchan) BY DEF IInv, TypeInv, Looked, Typed, SameRings
<1>4. IInv' BY CommunicateStep
<1> QED BY <1>1, <1>2, <1>3, <1>4, AttemptRefines

LEMMA SelectCaseRefines ==
  ASSUME IInv, SeenInv, ResultInv, NEW p \in Procs, SelectCase(p)
  PROVE  Refines
<1>1. PICK i \in CasesOf(p) \ NotReady(p), V \in SUBSET NotReady(p) :
        Attempt(p, i, LookInto({op[p].cases[j] : j \in V}))
  BY DEF SelectCase
<1>2. pc[p] = "pass1" /\ UNCHANGED op BY DEF SelectCase
<1> DEFINE h == LookInto({op[p].cases[j] : j \in V})
<1>3. Looked(h) /\ SameRings(h) /\ op[p].cases[i].dir \in Sides
  BY <1>2, NotReadyLooked
<1>4. Attempt(p, i, h) /\ i \in CasesOf(p) BY <1>1
<1>5. IInv' BY SelectCaseStep
<1> HIDE DEF h
<1> QED BY <1>2, <1>3, <1>4, <1>5, AttemptRefines

(* A call none of whose cases is ready gives up. *)
LEMMA QuietlyDrops ==
  ASSUME IInv, SeenInv, ResultInv, NEW p \in Procs, pc[p] \in {"lock", "pass1"},
         ~op[p].block, NEW h, Complete(p, 0, NoVal, TRUE, h), UNCHANGED op,
         Looked(h), SameRings(h)
  PROVE  Refines
<1>1. hchan' = h BY DEF Complete
<1>2. SameValues /\ Drains BY <1>1, LooksSame, SameDrains
<1>3. pc[p] \notin TakenPCs \cup EndPCs BY DEF TakenPCs, EndPCs
<1>4. ~Completed(p) /\ Dropped(p) /\ \A g \in Procs : g # p => Still(g)
  BY <1>2, <1>3, CompletesAlone
<1> QED BY <1>2, <1>4, GivesUp

LEMMA GiveUpRefines ==
  ASSUME IInv, SeenInv, ResultInv, NEW p \in Procs, GiveUp(p)
  PROVE  Refines
<1>1. /\ pc[p] = "lock" /\ CaseOf(p).dir \in Sides /\ ~Ready(CaseOf(p)) /\ ~op[p].block
      /\ Complete(p, 0, NoVal, TRUE, LookInto({CaseOf(p)})) /\ UNCHANGED op
  BY DEF GiveUp, Locked, Sides
<1> DEFINE X == {CaseOf(p)}
           h == LookInto(X)
<1>2. \A x \in X : \E i \in CasesOf(p) : x = op[p].cases[i] /\ ~Ready(x)
  BY <1>1, OnlyCase DEF PlainPCs
<1>3. \A i \in CasesOf(p) : op[p].cases[i].dir \in Sides
  BY <1>1, OnlyCase DEF PlainPCs
<1>4. Complete(p, 0, NoVal, TRUE, h) BY <1>1
<1> HIDE DEF X
<1>5. Looked(h) /\ SameRings(h) BY <1>2, <1>3, LookIntoLooked DEF IInv
<1> HIDE DEF h
<1> QED BY <1>1, <1>4, <1>5, QuietlyDrops

LEMMA SelectDefaultRefines ==
  ASSUME IInv, SeenInv, ResultInv, NEW p \in Procs, SelectDefault(p)
  PROVE  Refines
<1> DEFINE h == LookInto({op[p].cases[j] : j \in NotReady(p)})
<1>1. /\ pc[p] = "pass1" /\ UNCHANGED op /\ NotReady(p) = CasesOf(p) /\ ~op[p].block
      /\ Complete(p, 0, NoVal, TRUE, LookInto(CaseSet(p)))
  BY DEF SelectDefault
<1>2. Complete(p, 0, NoVal, TRUE, h) BY <1>1 DEF CaseSet
<1>3. Looked(h) /\ SameRings(h)
  <2>1. NotReady(p) \in SUBSET NotReady(p) OBVIOUS
  <2> QED BY <1>1, <2>1, NotReadyLooked
<1> HIDE DEF h
<1> QED BY <1>1, <1>2, <1>3, QuietlyDrops

LEMMA CloseAgainRefines ==
  ASSUME IInv, SeenInv, ResultInv, NEW p \in Procs, CloseAgain(p)
  PROVE  Refines
<1>1. /\ pc[p] = "lock" /\ CaseOf(p).dir = "close" /\ ChanOf(p).closed
      /\ Complete(p, 1, NoVal, FALSE, hchan) /\ UNCHANGED op
  BY DEF CloseAgain, Locked
<1>2. SameValues /\ Drains
  <2>1. hchan' = hchan BY <1>1 DEF Complete
  <2> QED BY <2>1, SameDrains DEF SameValues
<1>3. pc[p] \notin TakenPCs \cup EndPCs BY <1>1 DEF TakenPCs, EndPCs
<1>4. ~Completed(p) /\ Lost(p, 1) /\ \A g \in Procs : g # p => Still(g)
  <2>1. PICK i \in Nat \ {0} : i = 1 OBVIOUS
  <2>2. Complete(p, i, NoVal, FALSE, hchan) /\ i \in Nat /\ i # 0 BY <1>1, <2>1
  <2>3. ~Completed(p) /\ Lost(p, i) /\ \A g \in Procs : g # p => Still(g)
    BY <1>1, <1>2, <1>3, <2>2, CompletesAlone
  <2> QED BY <2>1, <2>3
<1>5. /\ 1 \in CasesOf(p) /\ CaseOf(p) = op[p].cases[1] /\ CaseOf(p).ch \in Chans
      /\ CaseOf(p) = Case(CaseOf(p).ch, CaseOf(p).dir)
  BY <1>1, OnlyCase DEF PlainPCs
<1>6. PICK c \in Chans : c = CaseOf(p).ch BY <1>5
<1>7. op[p].cases[1] = Case(c, "close") /\ hchan[c].closed BY <1>1, <1>5, <1>6 DEF ChanOf
<1> QED BY <1>2, <1>4, <1>5, <1>7, FindsClosed

(* A call that parks. *)
LEMMA ParkRefines ==
  ASSUME IInv, SeenInv, ResultInv, NEW p \in Procs, Park(p) \/ SelectPark(p)
  PROVE  Refines
<1>1. CASE Park(p)
  <2> DEFINE x == CaseOf(p)
             X == {x}
             h == LookInto(X)
  <2>1. /\ pc[p] = "lock" /\ x.dir \in Sides /\ ~Ready(x)
        /\ pc' = [pc EXCEPT ![p] = "parked"] /\ hchan' = Enqueue(h, x, Sudog(p, 1))
        /\ UNCHANGED << op, param, success, elem, out >>
    BY <1>1 DEF Park, Locked, Sides, sudogVars
  <2>2. CasesOf(p) = {1} /\ x = op[p].cases[1] /\ x.ch \in Chans
    BY <2>1, OnlyCase DEF PlainPCs
  <2>3. \A y \in X : \E i \in CasesOf(p) : y = op[p].cases[i] /\ ~Ready(y) BY <2>1, <2>2
  <2>4. \A i \in CasesOf(p) : op[p].cases[i].dir \in Sides BY <2>1, <2>2
  <2>5. Looked(h) /\ SameRings(h)
    <3> HIDE DEF X
    <3> QED BY <2>3, <2>4, LookIntoLooked DEF IInv
  <2> HIDE DEF h
  <2>6. \A c \in Chans :
          /\ hchan'[c].closed = h[c].closed /\ hchan'[c].buf = h[c].buf
          /\ hchan'[c].qcount = h[c].qcount /\ hchan'[c].recvx = h[c].recvx
    <3> SUFFICES ASSUME NEW c \in Chans
                 PROVE  /\ hchan'[c].closed = h[c].closed /\ hchan'[c].buf = h[c].buf
                        /\ hchan'[c].qcount = h[c].qcount /\ hchan'[c].recvx = h[c].recvx
      OBVIOUS
    <3>1. DOMAIN h = Chans /\ h[c] \in ChanState(c) BY <2>5 DEF Looked, Typed
    <3> QED BY <2>1, <3>1 DEF Enqueue, ChanState
  <2>7. SameValues BY <2>5, <2>6 DEF Looked, SameRings, SameValues
  <2>8. PICK t : t = "parked" OBVIOUS
  <2>9. /\ pc' = [pc EXCEPT ![p] = t] /\ (t \in EndPCs) = (pc[p] \in EndPCs)
        /\ t \notin {"closed?", "full?", "drained?"}
    BY <2>1, <2>8 DEF EndPCs
  <2> QED BY <2>1, <2>7, <2>9, MovesOn
<1>2. CASE SelectPark(p)
  <2> DEFINE h == LookInto({op[p].cases[j] : j \in NotReady(p)})
  <2>1. /\ pc[p] = "pass1" /\ NotReady(p) = CasesOf(p) /\ pc' = [pc EXCEPT ![p] = "parked"]
        /\ hchan' = [c \in Chans |->
                       [LookInto(CaseSet(p))[c] EXCEPT
                          !.recvq = @ \o SudogFor(p, Case(c, "recv")),
                          !.sendq = @ \o SudogFor(p, Case(c, "send"))]]
        /\ UNCHANGED << op, param, success, elem, out >>
    BY <1>2 DEF SelectPark, sudogVars
  <2>2. LookInto(CaseSet(p)) = h BY <2>1 DEF CaseSet
  <2>3. Looked(h) /\ SameRings(h)
    <3>1. NotReady(p) \in SUBSET NotReady(p) OBVIOUS
    <3> QED BY <2>1, <3>1, NotReadyLooked
  <2> HIDE DEF h
  <2>4. \A c \in Chans :
          /\ hchan'[c].closed = h[c].closed /\ hchan'[c].buf = h[c].buf
          /\ hchan'[c].qcount = h[c].qcount /\ hchan'[c].recvx = h[c].recvx
    <3> SUFFICES ASSUME NEW c \in Chans
                 PROVE  /\ hchan'[c].closed = h[c].closed /\ hchan'[c].buf = h[c].buf
                        /\ hchan'[c].qcount = h[c].qcount /\ hchan'[c].recvx = h[c].recvx
      OBVIOUS
    <3>1. h[c] \in ChanState(c) BY <2>3 DEF Looked, Typed
    <3> QED BY <2>1, <2>2, <3>1 DEF ChanState
  <2>5. SameValues BY <2>3, <2>4 DEF Looked, SameRings, SameValues
  <2>6. PICK t : t = "parked" OBVIOUS
  <2>10. pc[p] = "pass1" /\ pc' = [pc EXCEPT ![p] = "parked"] BY <2>1
  <2>7. /\ pc' = [pc EXCEPT ![p] = t] /\ (t \in EndPCs) = (pc[p] \in EndPCs)
        /\ t \notin {"closed?", "full?", "drained?"}
    BY <2>6, <2>10 DEF EndPCs
  <2> QED BY <2>1, <2>5, <2>7, MovesOn
<1> QED BY <1>1, <1>2

(* The locks of a select are nothing the program sees. *)
LEMMA LocksRefine ==
  ASSUME IInv, SeenInv, ResultInv, NEW p \in Procs,
         SelLock(p) \/ SelUnlock(p) \/ SelParkCommit(p)
  PROVE  Refines
<1>1. hchan' = hchan /\ UNCHANGED << op, param, success, elem, out >>
  BY DEF SelLock, SelUnlock, SelParkCommit, sudogVars
<1>2. SameValues BY <1>1 DEF SameValues
<1>3. pc \in [Procs -> PCs] BY DEF IInv, TypeInv
<1>4. CASE SelLock(p)
  <2> DEFINE s == CASE held'[p] # ChansOf(p) -> pc[p]
                    [] held'[p] = ChansOf(p) /\ pc[p] = "sellock" -> "pass1"
                    [] held'[p] = ChansOf(p) /\ pc[p] = "relock"  -> "pass3"
  <2>1. pc[p] \in {"sellock", "relock"} /\ pc' = [pc EXCEPT ![p] = s]
    BY <1>4 DEF SelLock, SelLockStates
  <2>2. s \in {"sellock", "relock", "pass1", "pass3"} BY <2>1
  <2>3. PICK t : t = s OBVIOUS
  <2> HIDE DEF s
  <2>4. pc' = [pc EXCEPT ![p] = t] /\ t \in {"sellock", "relock", "pass1", "pass3"}
    BY <2>1, <2>2, <2>3
  <2>5. /\ (t \in EndPCs) = (pc[p] \in EndPCs)
        /\ t \notin {"closed?", "full?", "drained?"}
    BY <2>1, <2>4 DEF EndPCs
  <2> QED BY <1>1, <1>2, <2>4, <2>5, MovesOn
<1>5. CASE SelUnlock(p)
  <2> DEFINE s == IF held'[p] # {} THEN pc[p] ELSE IF glist[p] # {} THEN "ready" ELSE "done"
  <2>1. pc[p] = "selunlock" /\ pc' = [pc EXCEPT ![p] = s] BY <1>5 DEF SelUnlock
  <2>2. s \in EndPCs BY <2>1 DEF EndPCs
  <2>3. PICK t : t = s OBVIOUS
  <2> HIDE DEF s
  <2>4. pc' = [pc EXCEPT ![p] = t] /\ t \in EndPCs BY <2>1, <2>2, <2>3
  <2> QED BY <1>1, <1>2, <2>1, <2>4, MovesOn DEF EndPCs
<1>6. CASE SelParkCommit(p)
  <2>1. PICK t : t = pc[p] OBVIOUS
  <2>2. pc' = [pc EXCEPT ![p] = t] /\ UNCHANGED pc BY <1>3, <1>6, <2>1 DEF SelParkCommit
  <2>3. Drains BY <1>2, SameDrains
  <2>4. \A g \in Procs : Keeps(g) BY <1>1, <2>2 DEF Keeps
  <2>5. \A g \in Procs : Still(g) BY <2>3, <2>4, Bystander DEF ResultInv
  <2> QED BY <1>2, <2>5, Stutter
<1> QED BY <1>4, <1>5, <1>6

LEMMA ReadyOneRefines ==
  ASSUME IInv, SeenInv, ResultInv, NEW p \in Procs, ReadyOne(p)
  PROVE  Refines
<1>1. PICK t \in glist[p] :
        /\ pc[p] = "ready"
        /\ pc' = IF pc[t] # "parked" THEN [pc EXCEPT ![p] = "throw"]
                 ELSE [pc EXCEPT ![p] = IF glist[p] = {t} THEN "done" ELSE @, ![t] = Wakeup(t)]
        /\ hchan' = hchan /\ UNCHANGED << op, param, success, elem, out >>
  BY DEF ReadyOne, sudogVars
<1>2. t \in Procs /\ pc[t] = "parked" BY <1>1 DEF IInv, TypeInv, WakeInv, Wake
<1>3. t # p /\ pc \in [Procs -> PCs] BY <1>1, <1>2 DEF IInv, TypeInv
<1>4. SameValues /\ Drains BY <1>1, SameDrains DEF SameValues
<1>5. /\ pc'[p] \in {"ready", "done"} /\ pc'[t] \in {"woken", "relock"}
      /\ \A g \in Procs : g # p /\ g # t => pc'[g] = pc[g]
  BY <1>1, <1>2, <1>3 DEF Wakeup
<1>6. \A g \in Procs : g # p => Keeps(g) BY <1>1, <1>2, <1>5 DEF Keeps
<1>7. \A g \in Procs : g # p => Still(g) BY <1>4, <1>6, Others
<1>8. Still(p)
  <2>1. (pc'[p] \in EndPCs) = (pc[p] \in EndPCs) BY <1>1, <1>5 DEF EndPCs
  <2>2. pc'[p] \notin {"closed?", "full?", "drained?"} BY <1>5
  <2>3. Told(p) BY DEF ResultInv
  <2> QED BY <1>1, <1>4, <2>1, <2>2, <2>3, Moving
<1> QED BY <1>4, <1>7, <1>8, Stutter

(* A goroutine that was woken finds out by whom: by a partner, and then its   *)
(* call was complete before, or because the channel was closed.               *)
LEMMA WakesUp ==
  ASSUME IInv, SeenInv, ResultInv, NEW p \in Procs, pc[p] \in {"woken", "pass3"},
         NEW s \in EndPCs, pc' = [pc EXCEPT ![p] = s],
         out' = [out EXCEPT ![p] = Out(param[p], elem[p], success[p])],
         param' = [param EXCEPT ![p] = 0], UNCHANGED << op, success, elem >>, SameValues
  PROVE  Refines
<1>1. /\ param[p] # 0 /\ param[p] \in CasesOf(p) /\ pc[p] \notin EndPCs /\ Told(p)
      /\ success[p] \in BOOLEAN
  <2>1. Wake(p) BY DEF IInv, WakeInv
  <2> QED BY <2>1, Channel DEF Wake, TakenPCs, EndPCs, ResultInv, IInv, TypeInv
<1>2. PICK i \in CasesOf(p) : i = param[p] BY <1>1
<1>3. i \in Nat \ {0} /\ op[p].cases[i].ch \in Chans
      /\ op[p].cases[i] = Case(op[p].cases[i].ch, op[p].cases[i].dir)
      /\ op[p].cases[i].dir \in {"send", "recv", "close"}
  BY <1>2, CaseFacts DEF IInv
<1>4. PICK x : x = Out(param[p], elem[p], success[p]) OBVIOUS
<1>5. PICK z : z = 0 OBVIOUS
<1>6. out' = [out EXCEPT ![p] = x] /\ param' = [param EXCEPT ![p] = z] BY <1>4, <1>5
<1>7. (\A g \in Procs : g # p => Keeps(g)) /\ pc'[p] = s /\ out'[p] = x /\ param'[p] = z
  <2>1. DOMAIN pc = Procs /\ DOMAIN param = Procs /\ DOMAIN out = Procs
    BY DEF IInv, TypeInv, SeenInv
  <2> QED BY <1>6, <2>1 DEF Keeps
<1>8. Drains BY SameDrains
<1>9. \A g \in Procs : g # p => Still(g) BY <1>7, <1>8, Others
<1>10. pc'[p] \in EndPCs /\ param'[p] = 0 /\ op'[p] = op[p] BY <1>5, <1>7
<1>11. CASE success[p]
  <2>1. Taken(p) /\ Completed(p) BY <1>1, <1>11 DEF Taken, Completed
  <2>2. ~Taken(p)' /\ Completed(p)' BY <1>10 DEF Taken, Completed, EndPCs
  <2>3. Outcome(p)' = Outcome(p)
    <3>1. Outcome(p)' = x BY <1>7, <2>2 DEF Outcome
    <3>2. Outcome(p) = Out(param[p], elem[p], TRUE) BY <2>1 DEF Outcome
    <3>3. success[p] = TRUE BY <1>11
    <3> QED BY <1>4, <3>1, <3>2, <3>3
  <2>4. Pending(p)' = Pending(p) BY <2>1, <2>2 DEF Pending
  <2>5. Result(p)' = Result(p) BY <2>1, <2>2, <2>3 DEF Result
  <2>6. Told(p)' BY <1>10, <2>2 DEF Told, EndPCs
  <2>7. Still(p) BY <2>4, <2>5, <2>6 DEF Still
  <2> QED BY <1>9, <2>7, Stutter
<1>12. CASE ~success[p]
  <2>1. ~Taken(p) /\ ~Completed(p) BY <1>1, <1>12 DEF Taken, Completed, EndPCs
  <2>2. elem[p] = NoVal BY <1>1, <2>1 DEF Told
  <2>3. out'[p] = Out(i, NoVal, FALSE)
    <3>1. success[p] = FALSE BY <1>1, <1>12
    <3> QED BY <1>2, <1>4, <1>7, <2>2, <3>1
  <2>4. Lost(p, i) BY <1>3, <1>10, <2>3, Finishes
  <2>5. PICK c \in Chans, dir \in {"send", "recv", "close"} : op[p].cases[i] = Case(c, dir)
    BY <1>3
  <2>6. hchan[c].closed /\ (dir = "recv" => hchan[c].qcount = 0)
    <3>1. op[p].cases[i].ch = c /\ op[p].cases[i].dir = dir BY <2>5 DEF Case
    <3>2. hchan[c].closed BY <1>1, <1>2, <1>12, <3>1, Channel
    <3> QED BY <1>1, <1>2, <1>12, <3>1, <3>2 DEF Told
  <2> QED BY <1>9, <2>1, <2>4, <2>5, <2>6, FindsClosed
<1> QED BY <1>11, <1>12

LEMMA WokenRefines ==
  ASSUME IInv, SeenInv, ResultInv, NEW p \in Procs, Woken(p) \/ SelectWoken(p)
  PROVE  Refines
<1>0. Wake(p) BY DEF IInv, WakeInv
<1>1. CASE Woken(p)
  <2>1. /\ pc[p] = "woken"
        /\ pc' = [pc EXCEPT ![p] = IF CaseOf(p).dir = "send" /\ ~success[p] /\ ~ChanOf(p).closed
                                   THEN "throw" ELSE "done"]
        /\ out' = [out EXCEPT ![p] = Out(1, elem[p], success[p])]
        /\ param' = [param EXCEPT ![p] = 0]
        /\ hchan' = hchan /\ UNCHANGED << op, success, elem >>
    BY <1>1 DEF Woken, Goto
  <2>2. CasesOf(p) = {1} BY <2>1, OnlyCase DEF PlainPCs
  <2>3. param[p] = 1 BY <1>0, <2>1, <2>2 DEF Wake, TakenPCs
  <2>4. ~success[p] => ChanOf(p).closed BY <1>0, <2>3 DEF Wake, ChanOf, CaseOf
  <2>5. PICK s \in EndPCs : s = "done" BY DEF EndPCs
  <2>6. pc' = [pc EXCEPT ![p] = s] BY <2>1, <2>4, <2>5
  <2>7. out' = [out EXCEPT ![p] = Out(param[p], elem[p], success[p])] BY <2>1, <2>3
  <2>8. SameValues BY <2>1 DEF SameValues
  <2> QED BY <2>1, <2>6, <2>7, <2>8, WakesUp
<1>2. CASE SelectWoken(p)
  <2>1. /\ pc[p] = "pass3"
        /\ pc' = [pc EXCEPT ![p] = IF param[p] = 0 THEN "throw" ELSE "selunlock"]
        /\ out' = [out EXCEPT ![p] = Out(param[p], elem[p], success[p])]
        /\ param' = [param EXCEPT ![p] = 0]
        /\ UNCHANGED << op, success, elem >>
    BY <1>2 DEF SelectWoken, Goto
  <2>2. param[p] # 0 BY <1>0, <2>1 DEF Wake, TakenPCs
  <2>3. PICK s \in EndPCs : s = "selunlock" BY DEF EndPCs
  <2>4. pc' = [pc EXCEPT ![p] = s] BY <2>1, <2>2, <2>3
  <2>5. SameValues
    <3> SUFFICES ASSUME NEW c \in Chans
                 PROVE  /\ hchan'[c].closed = hchan[c].closed /\ hchan'[c].buf = hchan[c].buf
                        /\ hchan'[c].qcount = hchan[c].qcount
                        /\ hchan'[c].recvx = hchan[c].recvx
      BY DEF SameValues
    <3>1. hchan' = [d \in Chans |->
                      [hchan[d] EXCEPT !.recvq = Withdraw(@, p), !.sendq = Withdraw(@, p)]]
      BY <1>2 DEF SelectWoken
    <3>2. hchan[c] \in ChanState(c) BY DEF IInv, TypeInv
    <3> QED BY <3>1, <3>2 DEF ChanState
  <2> QED BY <2>1, <2>4, <2>5, WakesUp
<1> QED BY <1>1, <1>2

(* A channel is closed. *)
LEMMA Closes ==
  ASSUME IInv, ResultInv, NEW p \in Procs, ~Completed(p),
         NEW i \in CasesOf(p), NEW c \in Chans, op[p].cases[i] = Case(c, "close"),
         ~hchan[c].closed, hchan'[c].closed = TRUE,
         \A d \in Chans : d # c => hchan'[d].closed = hchan[d].closed,
         \A d \in Chans : Contents(hchan'[d], d) = Contents(hchan[d], d),
         Won(p, i, NoVal), \A g \in Procs : g # p => Still(g)
  PROVE  Refines
<1>1. Result(p)' = [case |-> [ch |-> c, dir |-> "close"], val |-> NoVal, ok |-> TRUE]
  BY DEF Won, Case
<1>2. Impl!Complete(Impl!One(p, [case |-> [ch |-> c, dir |-> "close"],
                                 val |-> NoVal, ok |-> TRUE]))
  BY <1>1, OneCompletes DEF Won
<1>3. Impl!Offers(p, c, "close") BY OffersCases
<1>4. UNCHANGED [d \in Chans |-> Contents(hchan[d], d)] OBVIOUS
<1>5. [d \in Chans |-> hchan[d].closed]' = [[d \in Chans |-> hchan[d].closed] EXCEPT ![c] = TRUE]
  OBVIOUS
<1>6. Impl!Close(p, c) BY <1>2, <1>3, <1>4, <1>5 DEF Impl!Close, Contents
<1>7. Impl!Next BY <1>6 DEF Impl!Next
<1>8. ResultInv' BY DEF ResultInv, Still, Won
<1> QED BY <1>7, <1>8 DEF Refines

LEMMA CloseRefines ==
  ASSUME IInv, SeenInv, ResultInv, NEW p \in Procs, Close(p)
  PROVE  Refines
<1> DEFINE c  == CaseOf(p).ch
           ss == Winners(hchan[c].recvq \o hchan[c].sendq)
           gs == {s.g : s \in ss}
           At(g) == CHOOSE s \in ss : s.g = g
<1>1. /\ pc[p] = "lock" /\ CaseOf(p).dir = "close" /\ ~hchan[c].closed
      /\ hchan' = [hchan EXCEPT ![c].closed = TRUE, ![c].recvq = << >>, ![c].sendq = << >>]
      /\ pc' = [pc EXCEPT ![p] = AfterCase(p, gs)]
      /\ out' = [out EXCEPT ![p] = Out(1, NoVal, TRUE)]
      /\ param' = [g \in Procs |-> IF g \in gs THEN At(g).i ELSE param[g]]
      /\ success' = [g \in Procs |-> g \notin gs /\ success[g]]
      /\ UNCHANGED << op, elem >>
  BY DEF Close, Locked, ChanOf
<1>2. ~op[p].select BY <1>1 DEF IInv, OpInv, PlainPCs
<1>3. 1 \in CasesOf(p) /\ c \in Chans /\ op[p].cases[1] = Case(c, "close")
  BY <1>1, OnlyCase DEF PlainPCs
<1>4. \A s \in ss : /\ s.g \in Procs /\ Parked(s.g)
                    /\ s.i \in CasesOf(s.g) /\ s.i \in Nat \ {0}
                    /\ op[s.g].cases[s.i].ch = c
  <2> HIDE DEF c
  <2> QED BY <1>3, WinnersFacts DEF IInv
<1> HIDE DEF ss
<1>5. ASSUME NEW g \in gs
      PROVE  /\ g \in Procs /\ Parked(g) /\ g # p
             /\ At(g).i \in CasesOf(g) /\ At(g).i \in Nat \ {0}
             /\ op[g].cases[At(g).i].ch = c
  <2>1. At(g) \in ss /\ At(g).g = g OBVIOUS
  <2> HIDE DEF At
  <2> QED BY <1>1, <1>4, <2>1 DEF Parked
<1> HIDE DEF At, gs
<1>6. /\ AfterCase(p, gs) \in EndPCs /\ p \notin gs
  BY <1>2, <1>5 DEF AfterCase, EndPCs
<1>7. /\ pc'[p] \in EndPCs /\ out'[p] = Out(1, NoVal, TRUE)
      /\ \A g \in Procs : g # p => pc'[g] = pc[g] /\ out'[g] = out[g]
      /\ \A g \in Procs : op'[g] = op[g] /\ elem'[g] = elem[g]
  BY <1>1, <1>6 DEF IInv, TypeInv, SeenInv
<1>8. /\ \A g \in Procs : g \in gs => param'[g] = At(g).i /\ success'[g] = FALSE
      /\ \A g \in Procs : g \notin gs => param'[g] = param[g] /\ success'[g] = success[g]
  BY <1>1 DEF IInv, TypeInv
<1>9. /\ hchan'[c].closed = TRUE
      /\ hchan'[c].buf = hchan[c].buf /\ hchan'[c].qcount = hchan[c].qcount
      /\ hchan'[c].recvx = hchan[c].recvx
      /\ \A d \in Chans : d # c => hchan'[d] = hchan[d]
  <2>1. DOMAIN hchan = Chans /\ hchan[c] \in ChanState(c) BY <1>3 DEF IInv, TypeInv
  <2> HIDE DEF c
  <2> QED BY <1>1, <1>3, <2>1 DEF ChanState
<1> HIDE DEF c
<1>10. Drains BY <1>1, <1>9 DEF Drains
<1>11. \A d \in Chans : Contents(hchan'[d], d) = Contents(hchan[d], d)
  BY <1>9 DEF Contents
<1>12. ~Completed(p) /\ param[p] = 0
  <2>1. pc[p] \notin TakenPCs \cup EndPCs BY <1>1 DEF TakenPCs, EndPCs
  <2> QED BY <2>1, Early
<1>13. PICK i \in CasesOf(p) : i = 1 BY <1>3
<1>14. Won(p, i, NoVal)
  <2>1. i \in Nat \ {0} /\ out'[p] = Out(i, NoVal, TRUE) BY <1>7, <1>13
  <2>2. param'[p] = 0 /\ op'[p] = op[p] BY <1>6, <1>7, <1>8, <1>12
  <2> QED BY <1>7, <2>1, <2>2, Finishes
<1>15. ASSUME NEW g \in Procs, g # p, g \notin gs PROVE Still(g)
  <2>1. Keeps(g) BY <1>7, <1>8, <1>15 DEF Keeps
  <2> QED BY <1>10, <2>1, Bystander DEF ResultInv
<1>16. ASSUME NEW g \in Procs, g # p, g \in gs PROVE Still(g)
  <2>1. /\ Parked(g) /\ At(g).i \in CasesOf(g) /\ At(g).i \in Nat \ {0}
        /\ op[g].cases[At(g).i].ch = c
    BY <1>5, <1>16
  <2>2. /\ pc'[g] = "parked" /\ pc[g] = "parked" /\ param[g] = 0 /\ param'[g] = At(g).i
        /\ success'[g] = FALSE
        /\ op'[g] = op[g] /\ elem'[g] = elem[g] /\ out'[g] = out[g]
    BY <1>7, <1>8, <1>16, <2>1 DEF Parked
  <2>3. ~Taken(g) /\ ~Taken(g)' /\ ~Completed(g) /\ ~Completed(g)'
    BY <2>2 DEF Taken, Completed
  <2>4. CaseSet(g)' = CaseSet(g) BY <2>2 DEF CaseSet, CasesOf
  <2>5. Pending(g)' = Pending(g) BY <2>2, <2>3, <2>4 DEF Pending
  <2>6. Result(g)' = Result(g) BY <2>3 DEF Result
  <2>7. out[g] = NoOut /\ elem[g] = NoVal BY <2>2, <2>3 DEF ResultInv, Told, EndPCs
  <2>8. ASSUME op[g].cases[At(g).i].dir = "recv" PROVE hchan'[c].qcount = 0
    <3>1. Occurs(Sudog(g, At(g).i), hchan[c].recvq)
      <4>1. QueueAt(hchan, c, "recv") = hchan[c].recvq BY DEF QueueAt
      <4> QED BY <2>1, <2>8, <4>1 DEF IInv, QueueInv, Present
    <3>2. hchan[c].recvq \in Seq(Entry) /\ hchan[c].qcount \in Nat /\ Cap[c] \in Nat
      BY <1>3, ChanAssumption DEF IInv, TypeInv, ChanState
    <3>3. hchan[c].recvq # << >> BY <3>1, <3>2 DEF Occurs
    <3>4. Shape(c) /\ Ring(hchan[c], c) BY <1>3 DEF IInv, QueueInv, RingInv
    <3>5. hchan[c].qcount = 0 BY <3>2, <3>3, <3>4 DEF Shape, Ring
    <3> QED BY <1>9, <3>5
  <2>9. Told(g)'
    <3>1. pc'[g] \notin {"closed?", "full?", "drained?"} BY <2>2
    <3>2. op'[g].cases[param'[g]].ch = c BY <2>1, <2>2
    <3>3. op'[g].cases[param'[g]].dir = "recv" => hchan'[c].qcount = 0 BY <2>2, <2>8
    <3> QED BY <2>2, <2>3, <2>7, <3>1, <3>2, <3>3 DEF Told
  <2> QED BY <2>5, <2>6, <2>9 DEF Still
<1>17. \A g \in Procs : g # p => Still(g) BY <1>15, <1>16
<1>18. /\ op[p].cases[i] = Case(c, "close") /\ ~hchan[c].closed
       /\ \A d \in Chans : d # c => hchan'[d].closed = hchan[d].closed
  <2>1. ~hchan[c].closed BY <1>1 DEF c
  <2> QED BY <1>3, <1>9, <1>13, <2>1 DEF c
<1> QED BY <1>3, <1>9, <1>11, <1>12, <1>14, <1>17, <1>18, Closes

-----------------------------------------------------------------------------
(* The program calls and returns *)

(* A goroutine outside a call. *)
LEMMA OutsideCall ==
  ASSUME IInv, ResultInv, NEW p \in Procs, pc[p] = "idle"
  PROVE  /\ op[p] = NoOp /\ param[p] = 0 /\ ~Completed(p) /\ out[p] = NoOut
         /\ elem[p] = NoVal /\ Pending(p) = {} /\ Result(p) = Impl!NoResult
<1>1. op[p] = NoOp BY DEF IInv, OpInv
<1>2. ~Completed(p) /\ param[p] = 0 /\ out[p] = NoOut /\ elem[p] = NoVal
  BY Early DEF TakenPCs, EndPCs
<1>3. CaseSet(p) = {} BY <1>1 DEF CaseSet, CasesOf, NoOp
<1>4. {op[p].block} \ {TRUE} = {}
  <2>1. op[p].block = TRUE BY <1>1 DEF NoOp
  <2> QED BY <2>1, Zenon
<1>5. Pending(p) = {} BY <1>2, <1>3, <1>4 DEF Pending
<1>6. Result(p) = Impl!NoResult
  BY <1>2 DEF Result, Impl!NoResult, Impl!Default, Impl!NoChan, Case
<1> QED BY <1>1, <1>2, <1>5, <1>6

LEMMA CallRefines ==
  ASSUME IInv, SeenInv, ResultInv, NEW p \in Procs, Call(p)
  PROVE  Refines
<1>1. PICK o \in Ops :
        /\ pc[p] = "idle" /\ op' = [op EXCEPT ![p] = o]
        /\ pc' = [pc EXCEPT ![p] = IF o.select THEN "sellock"
                                   ELSE IF o.block THEN "lock"
                                   ELSE IF o.cases[1].dir = "send" THEN "closed?" ELSE "empty?"]
        /\ UNCHANGED << hchan, param, success, elem, out >>
  BY DEF Call, sudogVars
<1>2. /\ op[p] = NoOp /\ param[p] = 0 /\ ~Completed(p) /\ out[p] = NoOut
      /\ elem[p] = NoVal /\ Pending(p) = {} /\ Result(p) = Impl!NoResult
  BY <1>1, OutsideCall
<1>3. SameValues /\ Drains BY <1>1, SameDrains DEF SameValues
<1>4. /\ pc'[p] \in {"sellock", "lock", "closed?", "empty?"}
      /\ pc'[p] = "closed?" => ~op'[p].block
      /\ \A g \in Procs : g # p => pc'[g] = pc[g] /\ op'[g] = op[g]
  BY <1>1 DEF IInv, TypeInv
<1>5. \A g \in Procs : g # p => Keeps(g) BY <1>1, <1>4 DEF Keeps
<1>6. \A g \in Procs : g # p => Still(g) BY <1>3, <1>5, Others
<1>7. ~Completed(p)' /\ ~Taken(p)' BY <1>1, <1>2, <1>4 DEF Completed, Taken
<1>8. Told(p)' BY <1>1, <1>2, <1>4, <1>7 DEF Told
<1>9. Result(p)' = Result(p) BY <1>2, <1>7 DEF Result
<1>10. Pending(p)' \subseteq Impl!Cases \cup {Impl!Default}
  <2>1. CaseSet(p)' \subseteq Impl!Cases
    <3> DEFINE C == [ch : Chans, dir : {"send", "recv", "close"}]
    <3>1. o.cases \in Seq(C) BY OpsAssumption
    <3> HIDE DEF C
    <3>2. \A i \in DOMAIN o.cases : o.cases[i] \in C
      <4>1. DOMAIN o.cases = 1 .. Len(o.cases) BY <3>1
      <4> QED BY <3>1, <4>1, ElementOfSeq
    <3>3. \A i \in DOMAIN o.cases : o.cases[i] \in Impl!Cases BY <3>2 DEF C, Impl!Cases
    <3>4. op'[p] = o BY <1>1 DEF IInv, TypeInv
    <3> QED BY <3>3, <3>4 DEF CaseSet, CasesOf
  <2>2. Case("no channel", "default") = Impl!Default BY DEF Case, Impl!Default, Impl!NoChan
  <2> QED BY <1>7, <2>1, <2>2 DEF Pending
<1> DEFINE P == [g \in Procs |-> Pending(g)]
<1>11. P' = [P EXCEPT ![p] = P'[p]] BY <1>6 DEF Still
<1>12. UNCHANGED [g \in Procs |-> Result(g)] BY <1>6, <1>9 DEF Still
<1>13. P[p] = {} /\ P'[p] \subseteq Impl!Cases \cup {Impl!Default} BY <1>2, <1>10
<1>14. [g \in Procs |-> Result(g)][p] = Impl!NoResult BY <1>2
<1>15. Impl!Call(p)
  BY <1>3, <1>11, <1>12, <1>13, <1>14, NoChannel DEF Impl!Call, Pending, Result, Contents
<1>16. ResultInv' BY <1>6, <1>8 DEF ResultInv, Still
<1>17. Impl!Next BY <1>15 DEF Impl!Next
<1> QED BY <1>16, <1>17 DEF Refines

LEMMA ReturnRefines ==
  ASSUME IInv, SeenInv, ResultInv, NEW p \in Procs, Return(p)
  PROVE  Refines
<1>1. /\ pc[p] = "done" /\ pc' = [pc EXCEPT ![p] = "idle"] /\ op' = [op EXCEPT ![p] = NoOp]
      /\ out' = [out EXCEPT ![p] = NoOut] /\ success' = [success EXCEPT ![p] = FALSE]
      /\ elem' = [elem EXCEPT ![p] = NoVal] /\ UNCHANGED << hchan, param >>
  BY DEF Return, Goto
<1>2. SameValues /\ Drains BY <1>1, SameDrains DEF SameValues
<1>3. /\ pc'[p] = "idle" /\ op'[p] = NoOp /\ out'[p] = NoOut /\ elem'[p] = NoVal
      /\ \A g \in Procs : g # p => /\ pc'[g] = pc[g] /\ op'[g] = op[g] /\ out'[g] = out[g]
                                   /\ success'[g] = success[g] /\ elem'[g] = elem[g]
  BY <1>1 DEF IInv, TypeInv, SeenInv
<1>4. \A g \in Procs : g # p => Keeps(g) BY <1>1, <1>3 DEF Keeps
<1>5. \A g \in Procs : g # p => Still(g) BY <1>2, <1>4, Others
<1>6. param'[p] = 0
  <2>1. param[p] = 0 BY <1>1 DEF IInv, WakeInv, Wake, TakenPCs
  <2> QED BY <1>1, <2>1
<1>7. ~Completed(p)' /\ ~Taken(p)' BY <1>3, <1>6 DEF Completed, Taken
<1>8. Completed(p) /\ Pending(p) = {} BY <1>1 DEF Completed, Pending
<1>9. CaseSet(p)' = {} BY <1>3 DEF CaseSet, CasesOf, NoOp
<1>10. {op'[p].block} \ {TRUE} = {}
  <2>1. op'[p].block = TRUE BY <1>3 DEF NoOp
  <2> QED BY <2>1, Zenon
<1>11. Pending(p)' = {} BY <1>9, <1>10 DEF Pending
<1>12. Result(p)' = Impl!NoResult
  BY <1>7 DEF Result, Impl!NoResult, Impl!Default, Impl!NoChan, Case
<1>13. Told(p)' BY <1>3, <1>6, <1>7 DEF Told
<1>14. UNCHANGED [g \in Procs |-> Pending(g)] BY <1>5, <1>8, <1>11 DEF Still
<1> DEFINE R == [g \in Procs |-> Result(g)]
<1>15. R' = [R EXCEPT ![p] = Impl!NoResult] BY <1>5, <1>12 DEF Still
<1>16. [g \in Procs |-> Pending(g)][p] = {} BY <1>8
<1>17. Impl!Return(p)
  BY <1>2, <1>14, <1>15, <1>16, NoChannel DEF Impl!Return, Pending, Result, Contents
<1>18. ResultInv' BY <1>5, <1>13 DEF ResultInv, Still
<1>19. Impl!Next BY <1>17 DEF Impl!Next
<1> QED BY <1>18, <1>19 DEF Refines

-----------------------------------------------------------------------------
(* The refinement *)

LEMMA NextRefines ==
  ASSUME IInv, SeenInv, ResultInv, [Next]_vars
  PROVE  Refines
<1>1. CASE Next
  <2>1. PICK p \in Procs : (Call(p) \/ ChanStep(p) \/ SelectStep(p)) /\ Observe
    BY <1>1 DEF Next
  <2>2. CASE Call(p) BY <2>2, CallRefines
  <2>3. CASE ChanStep(p)
    <3>1. CASE \/ SendFastClosed(p) \/ SendFastFull(p) \/ RecvFastEmpty(p) \/ RecvFastOpen(p)
               \/ RecvFastDrained(p)
      BY <3>1, FastRefines
    <3>2. CASE Communicate(p) BY <3>2, CommunicateRefines
    <3>3. CASE GiveUp(p) BY <3>3, GiveUpRefines
    <3>4. CASE Park(p) BY <3>4, ParkRefines
    <3>5. CASE CloseAgain(p) BY <3>5, CloseAgainRefines
    <3>6. CASE Close(p) BY <3>6, CloseRefines
    <3>7. CASE ReadyOne(p) BY <3>7, ReadyOneRefines
    <3>8. CASE Woken(p) BY <3>8, WokenRefines
    <3>9. CASE Return(p) BY <3>9, ReturnRefines
    <3> QED BY <2>3, <3>1, <3>2, <3>3, <3>4, <3>5, <3>6, <3>7, <3>8, <3>9 DEF ChanStep
  <2>4. CASE SelectStep(p)
    <3>1. CASE SelLock(p) \/ SelUnlock(p) \/ SelParkCommit(p) BY <3>1, LocksRefine
    <3>2. CASE SelectCase(p) BY <3>2, SelectCaseRefines
    <3>3. CASE SelectDefault(p) BY <3>3, SelectDefaultRefines
    <3>4. CASE SelectPark(p) BY <3>4, ParkRefines
    <3>5. CASE SelectWoken(p) BY <3>5, WokenRefines
    <3> QED BY <2>4, <3>1, <3>2, <3>3, <3>4, <3>5 DEF SelectStep
  <2> QED BY <2>1, <2>2, <2>3, <2>4
<1>2. CASE UNCHANGED vars
  <2>1. UNCHANGED << hchan, pc, op, param, success, elem, out >>
    BY <1>2 DEF vars, chanVars, sudogVars
  <2>2. SameValues /\ Drains BY <2>1, SameDrains DEF SameValues
  <2>3. \A g \in Procs : Keeps(g) BY <2>1 DEF Keeps
  <2>4. \A g \in Procs : Still(g) BY <2>2, <2>3, Bystander DEF ResultInv
  <2> QED BY <2>2, <2>4, Stutter
<1> QED BY <1>1, <1>2

LEMMA InitRefines ==
  ASSUME Init
  PROVE  Impl!Init /\ ResultInv
<1>1. /\ hchan = [c \in Chans |-> EmptyChan(c)]
      /\ \A p \in Procs : /\ pc[p] = "idle" /\ op[p] = NoOp /\ param[p] = 0
                          /\ elem[p] = NoVal /\ out[p] = NoOut
  BY DEF Init
<1>2. IInv BY InitInv
<1>3. ResultInv
  <2> SUFFICES ASSUME NEW p \in Procs PROVE Told(p) BY DEF ResultInv
  <2> QED BY <1>1 DEF Told
<1>4. \A p \in Procs : Pending(p) = {} /\ Result(p) = Impl!NoResult
  BY <1>1, <1>2, <1>3, OutsideCall
<1>5. \A c \in Chans : Contents(hchan[c], c) = << >> /\ hchan[c].closed = FALSE
  <2> SUFFICES ASSUME NEW c \in Chans
               PROVE  Contents(hchan[c], c) = << >> /\ hchan[c].closed = FALSE
    OBVIOUS
  <2>1. hchan[c] \in ChanState(c) /\ Ring(hchan[c], c) BY <1>2 DEF IInv, TypeInv, RingInv
  <2>2. hchan[c].qcount = 0 /\ hchan[c].closed = FALSE BY <1>1 DEF EmptyChan
  <2> QED BY <2>1, <2>2, ContentsSeq
<1>6. Impl!Init BY <1>4, <1>5 DEF Impl!Init, Pending, Result, Contents
<1> QED BY <1>3, <1>6

(* Every value sent is received at most once, in order, by a call that was    *)
(* under way, a select commits to one case, and a send and a receive that     *)
(* meet without a buffer complete together: chan.go and select.go implement   *)
(* the atomic channels of module Channels.                                    *)
THEOREM Refinement == Spec => ImplementsChannels
<1>1. InitAll => Impl!Init /\ ResultInv BY InitRefines DEF InitAll
<1>2. IInv /\ SeenInv /\ ResultInv /\ [Next]_vars => [Impl!Next]_(Impl!vars) /\ ResultInv'
  BY NextRefines DEF Refines
<1> QED BY <1>1, <1>2, Inductive, SeenAlways, PTL DEF Spec, ImplementsChannels, Impl!Spec
=============================================================================
