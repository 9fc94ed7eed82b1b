------------------------------ MODULE PoolChain ------------------------------
(***************************************************************************)
(* sync/poolqueue.go: the chain of rings under sync.Pool.                  *)
(*                                                                         *)
(* Each ring packs its head and tail index, which wrap around, into one    *)
(* word.  The producer pushes to the newest ring and allocates another     *)
(* when that is full; consumers pop from the oldest and drop it once it is *)
(* drained for good.  A slot belongs to the producer again only after the  *)
(* consumer that took its element has cleared it.                          *)
(*                                                                         *)
(* One step is one atomic access.  A Load of headTail and the successful   *)
(* CompareAndSwap on the value it loaded are one step.                     *)
(***************************************************************************)
EXTENDS Integers, Sequences, FiniteSets

CONSTANTS
  Workers, Producer,  (* goroutines; Producer runs on the P of the chain   *)
  Values, NoVal,      (* the elements; "the slot is empty"                 *)
  Indexes,            (* 2^dequeueBits, where head and tail wrap around    *)
  InitSize,           (* the size of the first ring, 8 in the code         *)
  Limit,              (* dequeueLimit                                      *)
  MaxElts             (* bound: no more rings are allocated                *)

VARIABLES
  head, tail, vals,   (* of each ring: its indexes and its slots           *)
  next, prev,         (* of each ring: the newer and the older one, or 0   *)
  chead, ctail,       (* c.head, c.tail: the newest and the oldest ring    *)
  ppc,                (* the next step of each goroutine                   *)
  d, d2,              (* the rings a goroutine looks at                    *)
  own,                (* the slot it took                                  *)
  val                 (* the value that it pushes, or has read             *)

rings     == << head, tail, vals, next, prev >>
poolVars  == << rings, chead, ctail, ppc, d, d2, own, val >>

Elts == 1 .. MaxElts

(* newSize: each ring has twice the size of the one before, up to the limit. *)
Size(e) == IF InitSize * 2 ^ (e - 1) >= Limit THEN Limit ELSE InitSize * 2 ^ (e - 1)

Slot(e, i) == i % Size(e)

(* Sizes are powers of two, as Indexes is, and at most half of it, so that a  *)
(* full ring can be told from an empty one (poolqueue.go:35-61).              *)
ASSUME PoolAssumption ==
  /\ Producer \in Workers /\ NoVal \notin Values
  /\ MaxElts \in Nat \ {0} /\ Indexes \in Nat
  /\ \A e \in Elts : /\ Size(e) \in Nat \ {0} /\ 2 * Size(e) <= Indexes
                     /\ Indexes % Size(e) = 0

PPCs == {"idle", "push", "publish", "alloc", "link", "popHead", "headPrev", "headOwn",
         "headNone", "tailNext", "popTail", "drop", "unprev", "tailOwn", "tailFree"}

PoolInit ==
  /\ head = [e \in Elts |-> 0] /\ tail = [e \in Elts |-> 0]
  /\ vals = [e \in Elts |-> [i \in 0 .. Size(e) - 1 |-> NoVal]]
  /\ next = [e \in Elts |-> 0] /\ prev = [e \in Elts |-> 0]
  /\ chead = 0 /\ ctail = 0
  /\ ppc = [p \in Workers |-> "idle"]
  /\ d   = [p \in Workers |-> 0] /\ d2 = [p \in Workers |-> 0]
  /\ own = [p \in Workers |-> 0]
  /\ val = [p \in Workers |-> NoVal]

PGoto(p, from, to) ==
  /\ ppc[p] = from
  /\ ppc' = [ppc EXCEPT ![p] = to]

Count(e) == (head[e] - tail[e]) % Indexes

(* (tail+uint32(len(d.vals)))&(1<<dequeueBits-1) == head *)
Full(e) == (tail[e] + Size(e)) % Indexes = head[e]

-----------------------------------------------------------------------------
(* pushHead, by the producer: the first ring is made by the first push. *)

Push(v) ==
  LET p == Producer IN
  /\ PGoto(p, "idle", "push")
  /\ val' = [val EXCEPT ![p] = v]
  /\ IF chead = 0 THEN chead' = 1 /\ ctail' = 1 ELSE UNCHANGED << chead, ctail >>
  /\ d' = [d EXCEPT ![p] = chead']
  /\ UNCHANGED << rings, d2, own >>

(* Variant: a slot is free as soon as the tail has moved past it. *)
PushUnchecked ==
  LET p == Producer
      e == d[p]
      i == Slot(e, head[e])
  IN
  /\ ppc[p] = "push"
  /\ IF Full(e)
     THEN PGoto(p, "push", "alloc") /\ UNCHANGED vals
     ELSE PGoto(p, "push", "publish") /\ vals' = [vals EXCEPT ![e][i] = val[p]]
  /\ UNCHANGED << head, tail, next, prev, chead, ctail, d, d2, own, val >>

(* The ring may be full, or its head slot still be in use by a popTail.  (The *)
(* producer alone writes an empty slot, so it does what follows at once.)     *)
PushSlot ==
  LET p == Producer
      e == d[p]
      i == Slot(e, head[e])
  IN
  /\ ppc[p] = "push"
  /\ IF Full(e) \/ vals[e][i] # NoVal
     THEN PGoto(p, "push", "alloc") /\ UNCHANGED vals
     ELSE PGoto(p, "push", "publish") /\ vals' = [vals EXCEPT ![e][i] = val[p]]
  /\ UNCHANGED << head, tail, next, prev, chead, ctail, d, d2, own, val >>

(* d.headTail.Add(1 << dequeueBits) passes the slot to the consumers. *)
PushPublish ==
  LET p == Producer IN
  /\ PGoto(p, "publish", "idle")
  /\ head' = [head EXCEPT ![d[p]] = (@ + 1) % Indexes]
  /\ val' = [val EXCEPT ![p] = NoVal]
  /\ d' = [d EXCEPT ![p] = 0]
  /\ UNCHANGED << tail, vals, next, prev, chead, ctail, d2, own >>

(* The current ring is full: a new one, whose prev is set before it is seen. *)
PushAlloc ==
  LET p == Producer IN
  /\ PGoto(p, "alloc", "link")
  /\ chead < MaxElts
  /\ chead' = chead + 1
  /\ prev' = [prev EXCEPT ![chead'] = d[p]]
  /\ UNCHANGED << head, tail, vals, next, ctail, d, d2, own, val >>

(* d.next.Store(d2); d2.pushHead(val) *)
PushLink ==
  LET p == Producer IN
  /\ PGoto(p, "link", "push")
  /\ next' = [next EXCEPT ![d[p]] = chead]
  /\ d' = [d EXCEPT ![p] = chead]
  /\ UNCHANGED << head, tail, vals, prev, chead, ctail, d2, own, val >>

-----------------------------------------------------------------------------
(* popHead, by the producer *)

PopHead ==
  LET p == Producer IN
  /\ PGoto(p, "idle", IF chead = 0 THEN "headNone" ELSE "popHead")
  /\ d' = [d EXCEPT ![p] = chead]
  /\ UNCHANGED << rings, chead, ctail, d2, own, val >>

(* The producer takes back the slot before it reads it. *)
HeadTake ==
  LET p == Producer
      e == d[p]
  IN
  /\ PGoto(p, "popHead", "headOwn")
  /\ head[e] # tail[e]
  /\ head' = [head EXCEPT ![e] = (@ - 1) % Indexes]
  /\ own' = [own EXCEPT ![p] = Slot(e, head'[e])]
  /\ UNCHANGED << tail, vals, next, prev, chead, ctail, d, d2, val >>

HeadEmpty ==
  LET p == Producer IN
  /\ PGoto(p, "popHead", "headPrev")
  /\ head[d[p]] = tail[d[p]]
  /\ UNCHANGED << rings, chead, ctail, d, d2, own, val >>

(* d = d.prev.Load() *)
HeadPrev ==
  LET p == Producer IN
  /\ PGoto(p, "headPrev", IF prev[d[p]] = 0 THEN "headNone" ELSE "popHead")
  /\ d' = [d EXCEPT ![p] = prev[d[p]]]
  /\ UNCHANGED << rings, chead, ctail, d2, own, val >>

(* val := *slot; *slot = eface{}: nobody else uses this slot now. *)
HeadReturn ==
  LET p == Producer IN
  /\ PGoto(p, "headOwn", "idle")
  /\ vals' = [vals EXCEPT ![d[p]][own[p]] = NoVal]
  /\ own' = [own EXCEPT ![p] = 0]
  /\ d' = [d EXCEPT ![p] = 0]
  /\ UNCHANGED << head, tail, next, prev, chead, ctail, d2, val >>

HeadNone ==
  LET p == Producer IN
  /\ PGoto(p, "headNone", "idle")
  /\ d' = [d EXCEPT ![p] = 0]
  /\ UNCHANGED << rings, chead, ctail, d2, own, val >>

-----------------------------------------------------------------------------
(* popTail, by consumers *)

PopTail(p) ==
  /\ ctail # 0
  /\ PGoto(p, "idle", "tailNext")
  /\ d' = [d EXCEPT ![p] = ctail]
  /\ UNCHANGED << rings, chead, ctail, d2, own, val >>

(* d2 := d.next.Load(), before the pop that may fail. *)
TailNext(p) ==
  /\ PGoto(p, "tailNext", "popTail")
  /\ d2' = [d2 EXCEPT ![p] = next[d[p]]]
  /\ UNCHANGED << rings, chead, ctail, d, own, val >>

(* The consumer owns the slot once it has moved the tail. *)
TailTake(p) ==
  LET e == d[p] IN
  /\ PGoto(p, "popTail", "tailOwn")
  /\ head[e] # tail[e]
  /\ tail' = [tail EXCEPT ![e] = (@ + 1) % Indexes]
  /\ own' = [own EXCEPT ![p] = Slot(e, tail[e])]
  /\ UNCHANGED << head, vals, next, prev, chead, ctail, d, d2, val >>

Leave(p) ==
  /\ d'  = [d EXCEPT ![p] = 0]
  /\ d2' = [d2 EXCEPT ![p] = 0]

(* With a next ring, the ring is empty for good; without, it may be refilled. *)
TailEmpty(p) ==
  /\ PGoto(p, "popTail", IF d2[p] = 0 THEN "idle" ELSE "drop")
  /\ head[d[p]] = tail[d[p]]
  /\ IF d2[p] = 0 THEN Leave(p) ELSE UNCHANGED << d, d2 >>
  /\ UNCHANGED << rings, chead, ctail, own, val >>

(* Variant: the oldest ring is stored, not compared and swapped. *)
TailDropStore(p) ==
  /\ PGoto(p, "drop", "unprev")
  /\ ctail' = d2[p]
  /\ d'  = [d EXCEPT ![p] = d2[p]]
  /\ d2' = [d2 EXCEPT ![p] = 0]
  /\ UNCHANGED << rings, chead, own, val >>

(* c.tail.CompareAndSwap(d, d2) *)
TailDrop(p) ==
  /\ PGoto(p, "drop", IF ctail = d[p] THEN "unprev" ELSE "tailNext")
  /\ ctail' = IF ctail = d[p] THEN d2[p] ELSE ctail
  /\ d'  = [d EXCEPT ![p] = d2[p]]
  /\ d2' = [d2 EXCEPT ![p] = 0]
  /\ UNCHANGED << rings, chead, own, val >>

(* d2.prev.Store(nil) *)
TailUnprev(p) ==
  /\ PGoto(p, "unprev", "tailNext")
  /\ prev' = [prev EXCEPT ![d[p]] = 0]
  /\ UNCHANGED << head, tail, vals, next, chead, ctail, d, d2, own, val >>

TailRead(p) ==
  /\ PGoto(p, "tailOwn", "tailFree")
  /\ val' = [val EXCEPT ![p] = vals[d[p]][own[p]]]
  /\ UNCHANGED << rings, chead, ctail, d, d2, own >>

(* atomic.StorePointer(&slot.typ, nil): from here on the producer owns it. *)
TailFree(p) ==
  /\ PGoto(p, "tailFree", "idle")
  /\ vals' = [vals EXCEPT ![d[p]][own[p]] = NoVal]
  /\ val' = [val EXCEPT ![p] = NoVal]
  /\ own' = [own EXCEPT ![p] = 0]
  /\ Leave(p)
  /\ UNCHANGED << head, tail, next, prev, chead, ctail >>

-----------------------------------------------------------------------------
(* The elements of ring e, the oldest first, and those of all rings. *)
Elements(e) == [i \in 1 .. Count(e) |-> vals[e][Slot(e, tail[e] + i - 1)]]

UpTo[e \in 0 .. MaxElts] == IF e = 0 THEN << >> ELSE UpTo[e - 1] \o Elements(e)

Contents == UpTo[MaxElts]

Holds(p) == CASE ppc[p] \in {"headOwn", "tailOwn"} -> vals[d[p]][own[p]]
              [] ppc[p] = "tailFree" -> val[p]
              [] OTHER -> NoVal

(* A value is pushed while it is nowhere in the pool. *)
Fresh(v) ==
  /\ \A e \in Elts : \A i \in DOMAIN vals[e] : vals[e][i] # v
  /\ \A p \in Workers : val[p] # v

Produce ==
  \/ \E v \in Values : Fresh(v) /\ Push(v)
  \/ PushSlot \/ PushPublish \/ PushAlloc \/ PushLink
  \/ PopHead \/ HeadTake \/ HeadEmpty \/ HeadPrev \/ HeadReturn \/ HeadNone

Consume(p) ==
  \/ PopTail(p) \/ TailNext(p) \/ TailTake(p) \/ TailEmpty(p) \/ TailDrop(p)
  \/ TailUnprev(p) \/ TailRead(p) \/ TailFree(p)

PoolNext == Produce \/ \E p \in Workers \ {Producer} : Consume(p)

PoolSpec == PoolInit /\ [][PoolNext]_poolVars

-----------------------------------------------------------------------------
(***************************************************************************)
(* The chain is a deque whose elements are obtained once and as pushed,    *)
(* though slots are reused while consumers still clear them and rings are  *)
(* dropped while others still look at them (poolqueue.go:26-43, 271-300).  *)
(***************************************************************************)
D == INSTANCE Deque WITH
       deque <- Contents,
       got   <- [p \in Workers |-> Holds(p)]

ImplementsDeque == D!Spec

(***************************************************************************)
(* The producer's popHead finds nothing only if nothing is left: no ring   *)
(* that holds elements is cut off from the chain, neither from the newest  *)
(* ring backwards nor from the oldest onwards.                             *)
(***************************************************************************)
NothingStranded ==
  /\ ppc \in [Workers -> PPCs]
  /\ ppc[Producer] = "headNone" => Contents = << >>
  /\ \A e \in Elts : Count(e) > 0 => Count(e) <= Size(e) /\ ctail <= e /\ e <= chead
  /\ \A e \in Elts : e > ctail /\ e <= chead => prev[e] = e - 1
=============================================================================
