----------------------------- MODULE RuntimeProofs -----------------------------
(***************************************************************************)
(* Proofs about the runtime: the run queues of runtime/proc.go and the     *)
(* semaphores of runtime/sema.go.                                          *)
(*                                                                         *)
(* Run queues.  For any Ps and goroutines and rings of any even length:    *)
(* every goroutine is in exactly one place, and runqempty is right.  The   *)
(* indexes are points of a circle, and Gap says how far one is behind      *)
(* another.  The inductive invariant RunqInv adds what a P relies on       *)
(* between two steps: its ring has room for what it carries (Fits), what a *)
(* thief has read lies behind its victim's head, or is what is there still *)
(* (Steals), and what runqempty has read says that the queue was empty, or *)
(* is out of date (Watches).  A step by one P moves goroutines out of one  *)
(* ring and into its own (Moves): that leaves the others what they rely on *)
(* (OthersKept), and so each action is left with its own P, and with where *)
(* the goroutines that it moves lie before and after (Lies).               *)
(*                                                                         *)
(* Semaphores.  For any finite set of goroutines, any set of addresses     *)
(* that share a root and any number of permits: runtime/sema.go conserves  *)
(* permits and loses no wakeup, and each address is the semaphore of       *)
(* module Semaphore.                                                       *)
(*                                                                         *)
(* The inductive invariant IInv adds to these what the code never writes   *)
(* down: who holds root.lock at which line (LockInv), that a ticket is     *)
(* only ever in the hands of a waiter that is on its way out (CallInv),    *)
(* that a queued sudog belongs to one sleeping goroutine (QueueInv), that  *)
(* a dequeued one is asleep and has a single releaser (WakeInv), and that  *)
(* nwait counts the announced and the queued waiters of every address      *)
(* (CountInv), which is what the lock-free "easy case" of semrelease1      *)
(* relies on.                                                              *)
(***************************************************************************)
EXTENDS SemaAddress, RunQueue, CountingLemmas

-----------------------------------------------------------------------------
(* Indexes and slots.  Index a is Gap(a, b) before index b; Nxt(a, k) is k    *)
(* after a; index a is kept in slot Slot(a).                                  *)
Index     == 0 .. Wrap - 1
Gap(a, b) == (b - a) % Wrap
Nxt(a, k) == (a + k) % Wrap
Slot(a)   == a % RingLen
Back(s, a) == (s - a) % RingLen

(* The sizes are positive, and half a ring is half of it. *)
LEMMA RingSizes ==
  /\ RingLen \in Nat /\ RingLen > 0 /\ Wrap \in Nat /\ Wrap > 0 /\ RingLen < Wrap
  BY RunqAssumption

LEMMA Halves ==
  /\ RingLen \div 2 \in Nat /\ RingLen \div 2 > 0
  /\ 2 * (RingLen \div 2) = RingLen
<1>1. RingLen % 2 = 0 BY RunqAssumption
<1> QED BY <1>1, RingSizes

(* The arithmetic of 32 bits, without modulo. *)
LEMMA GapLaw ==
  ASSUME NEW a \in Index, NEW b \in Index
  PROVE  /\ Gap(a, b) \in Index /\ Gap(a, b) \in Nat
         /\ Gap(a, b) = IF a <= b THEN b - a ELSE b - a + Wrap
<1>1. -Wrap <= b - a /\ b - a < 2 * Wrap /\ b - a \in Int BY RingSizes DEF Index
<1>2. (b - a) % Wrap = IF b - a < 0 THEN b - a + Wrap
                       ELSE IF b - a < Wrap THEN b - a ELSE b - a - Wrap
  BY <1>1, RingSizes, Modulo
<1> QED BY <1>1, <1>2, RingSizes DEF Index, Gap

LEMMA NxtLaw ==
  ASSUME NEW a \in Index, NEW k \in 0 .. Wrap - 1
  PROVE  /\ Nxt(a, k) \in Index
         /\ Nxt(a, k) = IF a + k < Wrap THEN a + k ELSE a + k - Wrap
         /\ Gap(a, Nxt(a, k)) = k
<1>1. -Wrap <= a + k /\ a + k < 2 * Wrap /\ a + k \in Int BY RingSizes DEF Index
<1>2. PICK b \in Int : b = a + k BY <1>1
<1>3. /\ Nxt(a, k) \in Index
      /\ Nxt(a, k) = IF a + k < Wrap THEN a + k ELSE a + k - Wrap
  <2>1. 0 <= b /\ b < 2 * Wrap BY <1>2, RingSizes DEF Index
  <2>2. b % Wrap = IF b < 0 THEN b + Wrap ELSE IF b < Wrap THEN b ELSE b - Wrap
    BY <2>1, RingSizes, Modulo
  <2>3. Nxt(a, k) = b % Wrap BY <1>2 DEF Nxt
  <2>4. PICK c : c = b % Wrap OBVIOUS
  <2>5. c = IF b < Wrap THEN b ELSE b - Wrap BY <2>1, <2>2, <2>4
  <2>6. Nxt(a, k) = c BY <2>3, <2>4
  <2>7. c \in Index BY <2>1, <2>5, RingSizes DEF Index
  <2>8. a \in Int /\ k \in Int BY DEF Index
  <2> QED BY <1>2, <2>5, <2>6, <2>7, <2>8, RingSizes
<1>4. Gap(a, Nxt(a, k)) = IF a <= Nxt(a, k) THEN Nxt(a, k) - a ELSE Nxt(a, k) - a + Wrap
  BY <1>3, GapLaw
<1>5. a \in Nat /\ k \in Nat /\ a < Wrap /\ k < Wrap BY RingSizes DEF Index
<1>6. Gap(a, Nxt(a, k)) = k
  <2> DEFINE x == Nxt(a, k)
             y == Gap(a, x)
  <2>1. x = (IF a + k < Wrap THEN a + k ELSE a + k - Wrap) BY <1>3
  <2>2. y = IF a <= x THEN x - a ELSE x - a + Wrap BY <1>4
  <2> HIDE DEF x, y
  <2>3. y = k BY <2>1, <2>2, <1>5, RingSizes
  <2> QED BY <2>3 DEF x, y
<1> QED BY <1>3, <1>6

(* An index has its slot, also after it has wrapped around. *)
LEMMA SlotIn == ASSUME NEW a \in Index PROVE Slot(a) \in 0 .. RingLen - 1
  BY RingSizes, DivFacts DEF Index, Slot

LEMMA Around == ASSUME NEW a \in Nat PROVE (Wrap + a) % RingLen = a % RingLen
  BY RingSizes, Wrapped, RunqAssumption

LEMMA SlotNxt ==
  ASSUME NEW a \in Index, NEW k \in 0 .. Wrap - 1
  PROVE  (a + k) % RingLen = Slot(Nxt(a, k))
<1>1. /\ Nxt(a, k) \in Index
      /\ Nxt(a, k) = IF a + k < Wrap THEN a + k ELSE a + k - Wrap
  BY NxtLaw
<1>2. CASE a + k < Wrap BY <1>1, <1>2 DEF Slot
<1>3. CASE ~(a + k < Wrap)
  <2>1. Nxt(a, k) \in Nat /\ a + k = Wrap + Nxt(a, k) BY <1>1, <1>3, RingSizes DEF Index
  <2> QED BY <2>1, Around DEF Slot
<1> QED BY <1>2, <1>3

(* Different indexes less than a ring apart have different slots. *)
LEMMA SlotApart ==
  ASSUME NEW a \in Index, NEW b \in Index, a # b, Gap(a, b) < RingLen
  PROVE  Slot(a) # Slot(b)
<1>1. CASE a <= b
  <2>1. a < b /\ b < a + RingLen /\ a \in Nat /\ b \in Nat BY <1>1, GapLaw, RingSizes DEF Index
  <2> QED BY <2>1, ModApart, RingSizes DEF Slot
<1>2. CASE ~(a <= b)
  <2>1. a < Wrap + b /\ Wrap + b < a + RingLen /\ a \in Nat /\ b \in Nat /\ Wrap + b \in Nat
    BY <1>2, GapLaw, RingSizes DEF Index
  <2>2. a % RingLen # (Wrap + b) % RingLen BY <2>1, ModApart, RingSizes
  <2> QED BY <2>1, <2>2, Around DEF Slot
<1> QED BY <1>1, <1>2

(* Indexes a ring apart have the same one. *)
LEMMA SlotRound ==
  ASSUME NEW a \in Index
  PROVE  Slot(Nxt(a, RingLen)) = Slot(a)
<1>0. a \in Nat /\ RingLen \in 0 .. Wrap - 1 BY RingSizes DEF Index
<1>1. RingLen % RingLen = 0
  <2>1. (RingLen * 1 + 0) % RingLen = 0 BY RingSizes, ModUnique
  <2> QED BY <2>1, RingSizes
<1>2. (RingLen + a) % RingLen = a % RingLen BY <1>0, <1>1, Wrapped, RingSizes
<1>3. CASE a + RingLen < Wrap
  <2>1. Nxt(a, RingLen) = RingLen + a BY <1>0, <1>3, NxtLaw
  <2> QED BY <2>1, <1>2 DEF Slot
<1>4. CASE ~(a + RingLen < Wrap)
  <2>1. Nxt(a, RingLen) = a + RingLen - Wrap BY <1>0, <1>4, NxtLaw
  <2>2. Nxt(a, RingLen) \in Nat /\ Wrap + Nxt(a, RingLen) = RingLen + a
    BY <1>0, <1>4, <2>1, RingSizes
  <2>3. (RingLen + a) % RingLen = Nxt(a, RingLen) % RingLen BY <2>2, Around
  <2> QED BY <2>3, <1>2 DEF Slot
<1> QED BY <1>3, <1>4

(* The slot says how far behind a an index is. *)
LEMMA BackLaw ==
  ASSUME NEW a \in Index, NEW x \in Index, Gap(a, x) < RingLen
  PROVE  Back(Slot(x), a) = Gap(a, x)
<1> DEFINE d == Gap(a, x)
           s == Slot(x)
<1>0. a \in Nat /\ x \in Nat /\ d \in Nat /\ d < RingLen BY GapLaw, RingSizes DEF Index
<1>1. (a + d) % RingLen = s
  <2>1. CASE a <= x
    <3>1. a + d = x BY <2>1, GapLaw, RingSizes DEF Index
    <3> QED BY <3>1 DEF Slot
  <2>2. CASE ~(a <= x)
    <3>1. a + d = Wrap + x BY <2>2, GapLaw, RingSizes DEF Index
    <3> QED BY <3>1, <1>0, Around DEF Slot
  <2> QED BY <2>1, <2>2
<1>2. PICK q \in Nat : a + d = RingLen * q + s
  <2>1. a + d \in Nat BY <1>0
  <2> HIDE DEF d, s
  <2> QED BY <1>0, <1>1, <2>1, DivFacts, RingSizes
<1>3. s - a = -(RingLen * q) + d
  <2>1. s \in Nat BY SlotIn, RingSizes
  <2> HIDE DEF d, s
  <2>2. PICK z : z = RingLen * q OBVIOUS
  <2>3. z \in Nat BY <2>2, RingSizes
  <2>4. a + d = z + s BY <1>2, <2>2
  <2>5. s - a = -z + d BY <2>1, <2>3, <2>4, <1>0
  <2> QED BY <2>2, <2>5
<1>4. (-(RingLen * q) + d) % RingLen = d
  <2> HIDE DEF d, s
  <2>1. -(RingLen * q) + d = RingLen * (-q) + d BY <1>0, RingSizes
  <2> QED BY <2>1, <1>0, RingSizes
<1> QED BY <1>3, <1>4 DEF Back

-----------------------------------------------------------------------------
(* The inductive invariant. *)
Putting  == {"put", "publish"}
Thieving == {"grab", "copy", "loadNext", "casNext", "cas", "stolen"}
Watching == {"idle", "tail", "next", "recheck", "again", "empty"}

WatchType ==
  /\ spc \in Watching /\ target \in Ps \cup {NoP}
  /\ shead \in Index /\ stail \in Index /\ snext \in Gs \cup {NoG}
  /\ sawEmpty \in BOOLEAN

RunqType ==
  /\ runqhead \in [Ps -> Index] /\ runqtail \in [Ps -> Index]
  /\ runq \in [Ps -> [0 .. RingLen - 1 -> Gs \cup {NoG}]]
  /\ runnext \in [Ps -> Gs \cup {NoG}] /\ gp \in [Ps -> Gs \cup {NoG}]
  /\ nx \in [Ps -> Gs \cup {NoG}]
  /\ globq \in Seq(Gs) /\ batch \in [Ps -> Seq(Gs)]
  /\ schedLock \in Ps \cup {NoP} /\ out \in SUBSET Gs
  /\ rpc \in [Ps -> RPCs \ {"throw"}]
  /\ victim \in [Ps -> Ps \cup {NoP}] /\ h \in [Ps -> Index] /\ n \in [Ps -> Nat]
  /\ WatchType

(* The ring of p holds goroutines and has room for what p carries to it. *)
Fits(p) ==
  /\ Filled(p) <= RingLen
  /\ \A i \in Index : Gap(runqhead[p], i) < Hold(p) => runq[p][Slot(i)] \in Gs
  /\ gp[p] # NoG <=> rpc[p] \in Putting
  /\ schedLock = p => rpc[p] \in Putting \cup {"putRest"}
  /\ rpc[p] = "putRest" => schedLock = p
  /\ batch[p] # << >> => rpc[p] \in {"global", "drain"} \/ schedLock = p
  /\ schedLock = p =>
       Filled(p) + Len(batch[p]) + (IF rpc[p] \in Putting THEN 1 ELSE 0) <= RingLen
  /\ rpc[p] = "publish" =>
       Filled(p) < RingLen /\ runq[p][Slot(runqtail[p])] = gp[p]
  /\ rpc[p] \in Thieving => Filled(p) = 0

(* What thief p has read of its victim lies behind, or is what it was. *)
Behind(a, p) == Gap(a, runqhead[p]) + Filled(p) = Gap(a, runqtail[p])

Copied(p) ==
  /\ n[p] <= Filled(victim[p])
  /\ \A j \in 0 .. n[p] - 1 :
       runq[p][Slot(Nxt(runqtail[p], j))] = runq[victim[p]][Slot(Nxt(h[p], j))]

Steals(p) ==
  /\ rpc[p] \in Thieving => victim[p] \in Ps \ {p}
  /\ rpc[p] \in {"copy", "cas"} => Behind(h[p], victim[p])
  /\ rpc[p] \in {"cas", "stolen"} => n[p] \in 1 .. RingLen \div 2
  /\ rpc[p] = "casNext" => nx[p] # NoG
  /\ rpc[p] = "cas" /\ runqhead[victim[p]] = h[p] => Copied(p)

(* What runqempty has read says that target was empty, or is out of date. *)
Watches ==
  /\ spc # "idle" => target \in Ps
  /\ spc = "tail" => Behind(shead, target)
  /\ spc = "next" /\ shead = stail /\ stail = runqtail[target] => Filled(target) = 0
  /\ spc = "recheck" /\ shead = stail /\ stail = runqtail[target] /\ snext = NoG => sawEmpty
  /\ spc = "empty" => sawEmpty

(* The ring of q has goroutine g at index i. *)
Ringed(q, i, g) == i \in Index /\ Gap(runqhead[q], i) < Hold(q) /\ runq[q][Slot(i)] = g

(* Goroutine g lies at index i of container t of q. *)
Lies(t, q, i, g) ==
  \/ t = "out" /\ q = NoP /\ i = 0 /\ g \in out
  \/ t = "sched" /\ q = NoP /\ i \in DOMAIN globq /\ globq[i] = g
  \/ t = "next" /\ q \in Ps /\ i = 0 /\ runnext[q] = g
  \/ t = "gp" /\ q \in Ps /\ i = 0 /\ gp[q] = g
  \/ t = "batch" /\ q \in Ps /\ i \in DOMAIN batch[q] /\ batch[q][i] = g
  \/ t = "ring" /\ q \in Ps /\ Ringed(q, i, g)

OnePlace(g) == \E x \in Places(g) : Places(g) = {x}

RunqInv ==
  /\ RunqType
  /\ \A p \in Ps : Fits(p) /\ Steals(p)
  /\ Watches
  /\ \A g \in Gs : OnePlace(g)

-----------------------------------------------------------------------------
(* Around the circle: what is k further on, and what is m nearer. *)
LEMMA Further ==
  ASSUME NEW a \in Index, NEW b \in Index, NEW k \in Nat, Gap(a, b) + k < Wrap
  PROVE  Nxt(b, k) \in Index /\ Gap(a, Nxt(b, k)) = Gap(a, b) + k
<1>1. k \in 0 .. Wrap - 1 BY GapLaw, RingSizes
<1>2. /\ Nxt(b, k) \in Index
      /\ Nxt(b, k) = IF b + k < Wrap THEN b + k ELSE b + k - Wrap
  BY <1>1, NxtLaw
<1>3. PICK c \in Index : c = Nxt(b, k) BY <1>2
<1>4. /\ Gap(a, c) = IF a <= c THEN c - a ELSE c - a + Wrap
      /\ Gap(a, b) = IF a <= b THEN b - a ELSE b - a + Wrap
  BY GapLaw
<1>5. Gap(a, c) = Gap(a, b) + k BY <1>1, <1>2, <1>3, <1>4, RingSizes DEF Index
<1> QED BY <1>2, <1>3, <1>5

LEMMA Nearer ==
  ASSUME NEW a \in Index, NEW b \in Index, NEW m \in Nat, m <= Gap(a, b)
  PROVE  Nxt(a, m) \in Index /\ Gap(Nxt(a, m), b) = Gap(a, b) - m
<1>1. m \in 0 .. Wrap - 1 BY GapLaw, RingSizes DEF Index
<1>2. /\ Nxt(a, m) \in Index
      /\ Nxt(a, m) = IF a + m < Wrap THEN a + m ELSE a + m - Wrap
  BY <1>1, NxtLaw
<1>3. PICK c \in Index : c = Nxt(a, m) BY <1>2
<1>4. /\ Gap(c, b) = IF c <= b THEN b - c ELSE b - c + Wrap
      /\ Gap(a, b) = IF a <= b THEN b - a ELSE b - a + Wrap
  BY GapLaw
<1>5. Gap(c, b) = Gap(a, b) - m BY <1>1, <1>2, <1>3, <1>4, RingSizes DEF Index
<1> QED BY <1>2, <1>3, <1>5

(* What is passed is a whole circle away. *)
LEMMA Passed ==
  ASSUME NEW a \in Index, NEW b \in Index, NEW m \in 0 .. Wrap - 1, Gap(a, b) < m
  PROVE  Nxt(a, m) \in Index /\ Gap(Nxt(a, m), b) = Gap(a, b) - m + Wrap
<1>2. /\ Nxt(a, m) \in Index
      /\ Nxt(a, m) = IF a + m < Wrap THEN a + m ELSE a + m - Wrap
  BY NxtLaw
<1>3. PICK c \in Index : c = Nxt(a, m) BY <1>2
<1>4. /\ Gap(c, b) = IF c <= b THEN b - c ELSE b - c + Wrap
      /\ Gap(a, b) = IF a <= b THEN b - a ELSE b - a + Wrap
  BY GapLaw
<1>5. Gap(c, b) = Gap(a, b) - m + Wrap BY <1>2, <1>3, <1>4, RingSizes DEF Index
<1> QED BY <1>2, <1>3, <1>5

LEMMA Met ==
  ASSUME NEW a \in Index, NEW b \in Index
  PROVE  Nxt(a, Gap(a, b)) = b /\ (Gap(a, b) = 0 <=> a = b)
<1>1. /\ Gap(a, b) \in Index
      /\ Gap(a, b) = IF a <= b THEN b - a ELSE b - a + Wrap
  BY GapLaw
<1>2. PICK c \in Index : c = Gap(a, b) BY <1>1
<1>3. Nxt(a, c) = IF a + c < Wrap THEN a + c ELSE a + c - Wrap
  BY NxtLaw DEF Index
<1>4. Nxt(a, c) = b /\ (c = 0 <=> a = b) BY <1>1, <1>2, <1>3, RingSizes DEF Index
<1> QED BY <1>2, <1>4

LEMMA Unmoved == ASSUME NEW a \in Index PROVE Nxt(a, 0) = a
  BY Met, GapLaw, RingSizes DEF Index

(* How full a ring is, before and after a step. *)
LEMMA FilledGap ==
  ASSUME NEW p
  PROVE  /\ Filled(p) = Gap(runqhead[p], runqtail[p])
         /\ Filled(p)' = Gap(runqhead'[p], runqtail'[p])
  BY DEF Filled, Gap

(* A ring from which the m oldest goroutines go and that takes k new ones. *)
LEMMA RingMoves ==
  ASSUME NEW a \in Index, NEW b \in Index, NEW m \in Nat, NEW k \in Nat,
         m <= Gap(a, b), Gap(a, b) + k < Wrap
  PROVE  /\ Nxt(a, m) \in Index /\ Nxt(b, k) \in Index
         /\ Gap(Nxt(a, m), Nxt(b, k)) = Gap(a, b) - m + k
         /\ \A c \in Index :
              Gap(c, a) + Gap(a, b) = Gap(c, b) /\ Gap(c, b) + k < Wrap =>
                /\ Gap(c, Nxt(a, m)) = Gap(c, a) + m
                /\ Gap(c, Nxt(b, k)) = Gap(c, b) + k
                /\ m > 0 => Nxt(a, m) # c
<1>1. Nxt(b, k) \in Index /\ Gap(a, Nxt(b, k)) = Gap(a, b) + k BY Further
<1>0. Gap(a, b) \in Nat BY GapLaw
<1>2. Nxt(a, m) \in Index /\ Gap(Nxt(a, m), Nxt(b, k)) = Gap(a, b) + k - m
  BY <1>0, <1>1, Nearer
<1>3. ASSUME NEW c \in Index, Gap(c, a) + Gap(a, b) = Gap(c, b), Gap(c, b) + k < Wrap
      PROVE  /\ Gap(c, Nxt(a, m)) = Gap(c, a) + m
             /\ Gap(c, Nxt(b, k)) = Gap(c, b) + k
             /\ m > 0 => Nxt(a, m) # c
  <2>0. Gap(c, a) \in Nat /\ Gap(c, b) \in Nat BY GapLaw
  <2>1. Gap(c, a) + m < Wrap BY <1>0, <2>0, <1>3, RingSizes
  <2>2. Gap(c, Nxt(a, m)) = Gap(c, a) + m BY <2>1, Further
  <2>3. Gap(c, Nxt(b, k)) = Gap(c, b) + k BY <1>3, Further
  <2>4. Gap(c, c) = 0 BY Met
  <2> QED BY <2>0, <2>2, <2>3, <2>4
<1> QED BY <1>0, <1>1, <1>2, <1>3

-----------------------------------------------------------------------------
(* What happens to those who watch when a P acts. *)
Aside ==
  /\ UNCHANGED watcher
  /\ sawEmpty' = (spc' # "idle" /\ (sawEmpty \/ IsEmptyQ(target)'))

(* Only P p acts, and what it has of its own changes. *)
Alone(p) ==
  /\ \A q \in Ps \ {p} :
       /\ runq'[q] = runq[q] /\ rpc'[q] = rpc[q] /\ gp'[q] = gp[q] /\ batch'[q] = batch[q]
       /\ victim'[q] = victim[q] /\ h'[q] = h[q] /\ n'[q] = n[q] /\ nx'[q] = nx[q]
       /\ schedLock' = q <=> schedLock = q
  /\ Aside

(* P p acts: m goroutines go from the ring of w, k new ones come to its own.  *)
(* What the other Ps do stays, and so does what lies in the rings.            *)
Moves(p, w, m, k) ==
  /\ w \in Ps /\ m \in Nat /\ k \in Nat /\ m <= Filled(w)
  /\ k > 0 => w = p /\ m = 0
  /\ Filled(w) - m + k <= RingLen
  /\ runqhead' = [runqhead EXCEPT ![w] = Nxt(@, m)]
  /\ runqtail' = [runqtail EXCEPT ![w] = Nxt(@, k)]
  /\ \A q \in Ps :
       rpc[q] \in {"copy", "cas"} /\ victim[q] = w => Gap(h[q], runqtail[w]) + k < Wrap
  /\ target = w /\ spc = "tail" => Gap(shead, runqtail[w]) + k < Wrap
  /\ target = w /\ spc \in {"next", "recheck"} => Gap(stail, runqtail[w]) + k < Wrap
  /\ \A i \in Index : Gap(runqhead[p], i) < Filled(p) => runq'[p][Slot(i)] = runq[p][Slot(i)]
  /\ Alone(p)

(* Where heads and tails are after such a step. *)
LEMMA MovedRings ==
  ASSUME RunqType, NEW p \in Ps, NEW w, NEW m, NEW k, Moves(p, w, m, k)
  PROVE  /\ w \in Ps /\ m \in Nat /\ k \in Nat /\ m <= Filled(w) /\ (k > 0 => w = p /\ m = 0)
         /\ \A q \in Ps : Filled(q) \in Nat /\ Filled(q) < Wrap
         /\ Filled(w) + k < Wrap
         /\ runqhead'[w] = Nxt(runqhead[w], m) /\ runqtail'[w] = Nxt(runqtail[w], k)
         /\ \A q \in Ps : q # w => runqhead'[q] = runqhead[q] /\ runqtail'[q] = runqtail[q]
         /\ Filled(w)' = Filled(w) - m + k
         /\ \A q \in Ps : q # w => Filled(q)' = Filled(q)
<1>1. \A q \in Ps : runqhead[q] \in Index /\ runqtail[q] \in Index BY DEF RunqType
<1>2. \A q \in Ps : Filled(q) \in Nat /\ Filled(q) < Wrap
  <2> SUFFICES ASSUME NEW q \in Ps PROVE Filled(q) \in Nat /\ Filled(q) < Wrap OBVIOUS
  <2>1. Filled(q) \in Index BY <1>1, FilledGap, GapLaw
  <2> QED BY <2>1, RingSizes DEF Index
<1>3. w \in Ps /\ m \in Nat /\ k \in Nat /\ m <= Filled(w) /\ Filled(w) + k < Wrap
  BY <1>2, RingSizes DEF Moves
<1>4. /\ runqhead'[w] = Nxt(runqhead[w], m) /\ runqtail'[w] = Nxt(runqtail[w], k)
      /\ \A q \in Ps : q # w => runqhead'[q] = runqhead[q] /\ runqtail'[q] = runqtail[q]
  BY <1>3 DEF Moves, RunqType
<1>5. Filled(w)' = Filled(w) - m + k BY <1>1, <1>3, <1>4, FilledGap, RingMoves
<1>6. \A q \in Ps : q # w => Filled(q)' = Filled(q) BY <1>4, FilledGap
<1>7. k > 0 => w = p /\ m = 0 BY DEF Moves
<1> QED BY <1>2, <1>3, <1>4, <1>5, <1>6, <1>7

(* What somebody has read of the ring that moves stays behind it. *)
LEMMA BehindKept ==
  ASSUME RunqType, NEW p \in Ps, NEW w, NEW m, NEW k, Moves(p, w, m, k),
         NEW v \in Ps, NEW a \in Index, Behind(a, v),
         v = w => Gap(a, runqtail[w]) + k < Wrap
  PROVE  /\ Behind(a, v)'
         /\ runqhead'[v] = a => runqhead[v] = a /\ (v = w => m = 0)
<1>1. CASE v # w
  <2>1. runqhead'[v] = runqhead[v] /\ runqtail'[v] = runqtail[v] /\ Filled(v)' = Filled(v)
    BY <1>1, MovedRings
  <2> QED BY <2>1, <1>1 DEF Behind
<1>2. CASE v = w
  <2>1. /\ runqhead'[v] = Nxt(runqhead[v], m) /\ runqtail'[v] = Nxt(runqtail[v], k)
        /\ Filled(v)' = Filled(v) - m + k /\ Filled(v) + k < Wrap /\ Filled(v) \in Nat
        /\ m \in Nat /\ k \in Nat /\ m <= Filled(v)
    BY <1>2, MovedRings
  <2>2. runqhead[v] \in Index /\ runqtail[v] \in Index BY DEF RunqType
  <2>3. /\ Gap(a, Nxt(runqhead[v], m)) = Gap(a, runqhead[v]) + m
        /\ Gap(a, Nxt(runqtail[v], k)) = Gap(a, runqtail[v]) + k
        /\ m > 0 => Nxt(runqhead[v], m) # a
    <3>1. /\ Filled(v) = Gap(runqhead[v], runqtail[v])
          /\ Gap(a, runqhead[v]) + Gap(runqhead[v], runqtail[v]) = Gap(a, runqtail[v])
          /\ Gap(a, runqtail[v]) + k < Wrap
      BY <1>2, FilledGap DEF Behind
    <3> QED BY <2>1, <2>2, <3>1, RingMoves
  <2>4. Behind(a, v)'
    <3>1. Gap(a, runqhead[v]) \in Nat /\ Gap(a, runqtail[v]) \in Nat BY <2>2, GapLaw
    <3> QED BY <2>1, <2>3, <3>1 DEF Behind
  <2>5. ASSUME runqhead'[v] = a PROVE runqhead[v] = a /\ m = 0
    <3>1. m = 0 BY <2>1, <2>3, <2>5
    <3> QED BY <2>1, <2>2, <2>5, <3>1, Unmoved
  <2> QED BY <2>4, <2>5
<1> QED BY <1>1, <1>2

(* The other Ps keep their rings and what they carry. *)
LEMMA FitsKept ==
  ASSUME RunqType, NEW p \in Ps, NEW w, NEW m, NEW k, Moves(p, w, m, k),
         NEW q \in Ps \ {p}, Fits(q)
  PROVE  Fits(q)'
<1>0. /\ runq'[q] = runq[q] /\ rpc'[q] = rpc[q] /\ gp'[q] = gp[q] /\ batch'[q] = batch[q]
      /\ n'[q] = n[q] /\ (schedLock' = q <=> schedLock = q)
  BY DEF Moves, Alone
<1>1. /\ runqtail'[q] = runqtail[q] /\ Filled(q) \in Nat
      /\ Filled(q)' \in Nat /\ Filled(q)' <= Filled(q)
      /\ Filled(q) - Filled(q)' \in Nat
      /\ runqhead'[q] = Nxt(runqhead[q], Filled(q) - Filled(q)')
  <2>1. CASE q = w
    <3>1. k = 0 /\ m \in Nat /\ m <= Filled(q) BY <2>1 DEF Moves
    <3>2. runqtail'[q] = Nxt(runqtail[q], 0) BY <2>1, <3>1, MovedRings
    <3>3. runqhead'[q] = Nxt(runqhead[q], m) /\ Filled(q) \in Nat /\ Filled(q)' = Filled(q) - m
      BY <2>1, <3>1, MovedRings
    <3> QED BY <3>1, <3>2, <3>3, Unmoved DEF RunqType
  <2>2. CASE q # w
    <3>1. runqhead'[q] = runqhead[q] /\ runqtail'[q] = runqtail[q] /\ Filled(q)' = Filled(q)
          /\ Filled(q) \in Nat
      BY <2>2, MovedRings
    <3>2. runqhead[q] = Nxt(runqhead[q], 0) BY Unmoved DEF RunqType
    <3> QED BY <3>1, <3>2
  <2> QED BY <2>1, <2>2
<1>2. Filled(q) <= RingLen /\ RingLen \in Nat BY RingSizes DEF Fits
<1>3. n[q] \in Nat /\ Hold(q)' = Filled(q)' + (IF rpc[q] = "stolen" THEN n[q] ELSE 0)
      /\ Hold(q) = Filled(q) + (IF rpc[q] = "stolen" THEN n[q] ELSE 0)
  BY <1>0 DEF Hold, RunqType
<1>4. ASSUME NEW i \in Index, Gap(runqhead'[q], i) < Hold(q)' PROVE Gap(runqhead[q], i) < Hold(q)
  <2> DEFINE d == Filled(q) - Filled(q)'
  <2>0. runqhead[q] \in Index BY DEF RunqType
  <2>1. CASE d <= Gap(runqhead[q], i)
    <3>1. Gap(runqhead'[q], i) = Gap(runqhead[q], i) - d BY <1>1, <2>0, <2>1, Nearer
    <3>2. Gap(runqhead[q], i) \in Nat BY <2>0, GapLaw
    <3> QED BY <1>1, <1>3, <1>4, <3>1, <3>2
  <2>2. CASE Gap(runqhead[q], i) < d
    <3>1. Gap(runqhead[q], i) \in Nat BY <2>0, GapLaw
    <3> QED BY <1>1, <1>3, <2>2, <3>1
  <2>3. Gap(runqhead[q], i) \in Nat BY <2>0, GapLaw
  <2> QED BY <1>1, <2>1, <2>2, <2>3
<1>5. \A i \in Index : Gap(runqhead'[q], i) < Hold(q)' => runq'[q][Slot(i)] \in Gs
  BY <1>0, <1>4 DEF Fits
<1>6. Len(batch[q]) \in Nat BY DEF RunqType
<1>7. schedLock = q => Filled(q)' + Len(batch[q]) + (IF rpc[q] \in Putting THEN 1 ELSE 0) <= RingLen
  BY <1>1, <1>2, <1>6 DEF Fits
<1>8. /\ Filled(q)' <= RingLen
      /\ rpc[q] = "publish" => Filled(q)' < RingLen /\ runq[q][Slot(runqtail[q])] = gp[q]
      /\ rpc[q] \in Thieving => Filled(q)' = 0
  BY <1>1, <1>2 DEF Fits
<1> QED BY <1>0, <1>1, <1>5, <1>7, <1>8 DEF Fits

(* A thief that sleeps over the step has read what is still there, or its     *)
(* CompareAndSwap is going to fail.                                           *)
LEMMA StealsKept ==
  ASSUME RunqType, NEW p \in Ps, NEW w, NEW m, NEW k, Moves(p, w, m, k),
         NEW q \in Ps \ {p}, Steals(q)
  PROVE  Steals(q)'
<1>0. /\ runq'[q] = runq[q] /\ rpc'[q] = rpc[q] /\ n'[q] = n[q] /\ nx'[q] = nx[q]
      /\ victim'[q] = victim[q] /\ h'[q] = h[q]
  BY DEF Moves, Alone
<1>1. SUFFICES ASSUME rpc[q] \in {"copy", "cas"} 
               PROVE  Behind(h[q], victim[q])'
                      /\ (rpc[q] = "cas" /\ runqhead'[victim[q]] = h[q] => Copied(q)')
  BY <1>0 DEF Steals, Behind
<1>2. PICK v \in Ps : v = victim[q] /\ v # q BY <1>1 DEF Steals, Thieving
<1>3. h[q] \in Index /\ Behind(h[q], v) BY <1>1, <1>2 DEF Steals, RunqType
<1>4. v = w => Gap(h[q], runqtail[w]) + k < Wrap BY <1>1, <1>2 DEF Moves
<1>5. /\ Behind(h[q], v)'
      /\ runqhead'[v] = h[q] => runqhead[v] = h[q] /\ (v = w => m = 0)
  <2>1. PICK a \in Index : a = h[q] BY <1>3
  <2>2. Behind(a, v) /\ (v = w => Gap(a, runqtail[w]) + k < Wrap) BY <1>3, <1>4, <2>1
  <2>3. Behind(a, v)' /\ (runqhead'[v] = a => runqhead[v] = a /\ (v = w => m = 0))
    BY <2>2, BehindKept
  <2> QED BY <1>0, <2>1, <2>3 DEF Behind
<1>6. ASSUME rpc[q] = "cas", runqhead'[v] = h[q] PROVE Copied(q)'
  <2>1. runqhead[v] = h[q] /\ (v = w => m = 0) BY <1>5, <1>6
  <2>2. Copied(q) BY <1>2, <1>6, <2>1 DEF Steals
  <2>3. n[q] \in 1 .. RingLen \div 2 /\ n[q] <= Filled(v) BY <1>2, <1>6, <2>2 DEF Steals, Copied
  <2>4. Filled(v) <= Filled(v)' /\ Filled(v) \in Nat /\ Filled(v) < Wrap
    <3>1. Filled(v) \in Nat /\ Filled(v) < Wrap BY MovedRings
    <3>2. CASE v = w
      <4>1. m = 0 /\ k \in Nat /\ Filled(v)' = Filled(v) - m + k BY <2>1, <3>2, MovedRings
      <4> QED BY <3>1, <4>1
    <3>3. CASE v # w
      <4>1. Filled(v)' = Filled(v) BY <3>3, MovedRings
      <4> QED BY <3>1, <4>1
    <3> QED BY <3>1, <3>2, <3>3
  <2>5. runqtail'[q] = runqtail[q]
    <3>1. CASE q = w
      <4>1. runqtail'[q] = Nxt(runqtail[q], k) /\ k = 0 BY <3>1, MovedRings
      <4> QED BY <4>1, Unmoved DEF RunqType
    <3> QED BY <3>1, MovedRings
  <2>6. \A i \in Index : Gap(runqhead[v], i) < Filled(v) => runq'[v][Slot(i)] = runq[v][Slot(i)]
    BY <1>2 DEF Moves, Alone
  <2>7. ASSUME NEW j \in 0 .. n[q] - 1
        PROVE  runq'[q][Slot(Nxt(runqtail[q], j))] = runq'[v][Slot(Nxt(h[q], j))]
    <3>0. Filled(v) \in Nat /\ Filled(v)' \in Nat /\ n[q] \in Nat
      <4>1. v = w => m = 0 /\ k \in Nat /\ Filled(v)' = Filled(v) - m + k BY <2>1, MovedRings
      <4>2. v # w => Filled(v)' = Filled(v) BY MovedRings
      <4>3. n[q] \in Nat BY DEF RunqType
      <4> QED BY <2>4, <4>1, <4>2, <4>3
    <3>1. j \in 0 .. Wrap - 1 /\ j < Filled(v) BY <2>3, <2>4, <3>0, RingSizes
    <3>2. Nxt(h[q], j) \in Index /\ Gap(h[q], Nxt(h[q], j)) = j BY <1>3, <3>1, NxtLaw
    <3>3. runq'[v][Slot(Nxt(h[q], j))] = runq[v][Slot(Nxt(h[q], j))] BY <2>1, <2>6, <3>1, <3>2
    <3>4. runq[q][Slot(Nxt(runqtail[q], j))] = runq[v][Slot(Nxt(h[q], j))]
      BY <1>2, <2>2 DEF Copied
    <3> QED BY <1>0, <3>3, <3>4
  <2>8. n[q] <= Filled(v)'
    <3>1. n[q] \in Nat BY DEF RunqType
    <3>2. v = w => m = 0 /\ k \in Nat /\ Filled(v)' = Filled(v) - m + k BY <2>1, MovedRings
    <3>3. v # w => Filled(v)' = Filled(v) BY MovedRings
    <3> QED BY <2>3, <2>4, <3>1, <3>2, <3>3
  <2> QED BY <1>0, <1>2, <2>5, <2>7, <2>8 DEF Copied
<1>7. Behind(h[q], victim[q])' BY <1>0, <1>2, <1>5 DEF Behind, Filled
<1>8. rpc[q] = "cas" /\ runqhead'[victim[q]] = h[q] => Copied(q)' BY <1>2, <1>6
<1> QED BY <1>7, <1>8

(* So has the M that looks into target. *)
LEMMA WatchesKept ==
  ASSUME RunqType, NEW p \in Ps, NEW w, NEW m, NEW k, Moves(p, w, m, k), Watches
  PROVE  Watches'
<1>0. /\ spc' = spc /\ target' = target /\ shead' = shead /\ stail' = stail /\ snext' = snext
      /\ spc # "idle" /\ sawEmpty => sawEmpty'
  BY DEF Moves, Alone, Aside, watcher
<1>1. shead \in Index /\ stail \in Index BY DEF RunqType, WatchType
<1>2. ASSUME spc = "tail" PROVE Behind(shead, target)'
  <2>1. target \in Ps /\ Behind(shead, target) BY <1>2 DEF Watches
  <2>2. target = w => Gap(shead, runqtail[w]) + k < Wrap BY <1>2 DEF Moves
  <2>3. PICK v \in Ps : v = target BY <2>1
  <2>4. PICK a \in Index : a = shead BY <1>1
  <2>5. Behind(a, v) /\ (v = w => Gap(a, runqtail[w]) + k < Wrap) BY <2>1, <2>2, <2>3, <2>4
  <2>6. Behind(a, v)' BY <2>5, BehindKept
  <2> QED BY <1>0, <2>3, <2>4, <2>6 DEF Behind, Filled
<1>3. ASSUME spc \in {"next", "recheck"}, stail = runqtail'[target]
      PROVE  target \in Ps /\ stail = runqtail[target] /\ (Filled(target) = 0 => Filled(target)' = 0)
  <2>1. PICK v \in Ps : v = target BY <1>3 DEF Watches
  <2>2. CASE v # w
    <3>1. runqtail'[v] = runqtail[v] /\ Filled(v)' = Filled(v) BY <2>2, MovedRings
    <3> QED BY <1>0, <1>3, <2>1, <3>1 DEF Filled
  <2>3. CASE v = w
    <3>1. /\ Gap(stail, runqtail[v]) + k < Wrap /\ k \in Nat /\ m \in Nat /\ m <= Filled(v)
      BY <1>3, <2>1, <2>3 DEF Moves
    <3>2. /\ runqtail'[v] = Nxt(runqtail[v], k) /\ Filled(v)' = Filled(v) - m + k
          /\ Filled(v) \in Nat
      BY <2>3, MovedRings
    <3>3. runqtail[v] \in Index BY DEF RunqType
    <3>4. Gap(stail, stail) = 0 /\ Gap(stail, runqtail[v]) \in Nat BY <1>1, <3>3, Met, GapLaw
    <3>5. Gap(stail, runqtail'[v]) = Gap(stail, runqtail[v]) + k BY <1>1, <3>1, <3>2, <3>3, Further
    <3>6. k = 0 BY <1>3, <2>1, <3>1, <3>4, <3>5
    <3>7. runqtail'[v] = runqtail[v] BY <3>2, <3>3, <3>6, Unmoved
    <3>8. Filled(v) = 0 => Filled(v)' = 0 BY <3>1, <3>2, <3>6
    <3> QED BY <1>0, <1>3, <2>1, <3>7, <3>8 DEF Filled
  <2> QED BY <2>2, <2>3
<1> QED BY <1>0, <1>2, <1>3 DEF Watches, Behind, Filled

(* Hence only P p is left to look at. *)
LEMMA OthersKept ==
  ASSUME RunqType, \A q \in Ps : Fits(q) /\ Steals(q), Watches,
         NEW p \in Ps, NEW w, NEW m, NEW k, Moves(p, w, m, k), Fits(p)', Steals(p)'
  PROVE  (\A q \in Ps : Fits(q)' /\ Steals(q)') /\ Watches'
<1>1. ASSUME NEW q \in Ps \ {p} PROVE Fits(q)' /\ Steals(q)' BY FitsKept, StealsKept
<1>2. Watches' BY WatchesKept
<1> QED BY <1>1, <1>2

LEMMA AsideType == ASSUME RunqType, Aside PROVE WatchType'
<1>1. sawEmpty' \in BOOLEAN BY DEF Aside
<1> QED BY <1>1 DEF Aside, RunqType, WatchType, watcher

(* P p acts and no ring changes. *)
LEMMA Quiet ==
  ASSUME RunqType, NEW p \in Ps, Fits(p), Alone(p), UNCHANGED << runqhead, runqtail >>,
         \A i \in Index : Gap(runqhead[p], i) < Filled(p) => runq'[p][Slot(i)] = runq[p][Slot(i)]
  PROVE  Moves(p, p, 0, 0)
<1>1. \A q \in Ps : runqhead[q] \in Index /\ runqtail[q] \in Index /\ h[q] \in Index
  BY DEF RunqType
<1>2. shead \in Index /\ stail \in Index BY DEF RunqType, WatchType
<1>3. \A a \in Index : Gap(a, runqtail[p]) \in Nat /\ Gap(a, runqtail[p]) + 0 < Wrap
  <2> SUFFICES ASSUME NEW a \in Index PROVE Gap(a, runqtail[p]) \in Nat /\ Gap(a, runqtail[p]) + 0 < Wrap
    OBVIOUS
  <2>1. Gap(a, runqtail[p]) \in Index BY <1>1, GapLaw
  <2> QED BY <2>1, RingSizes DEF Index
<1>4. Filled(p) \in Nat BY <1>1, GapLaw, FilledGap
<1>5. /\ runqhead' = [runqhead EXCEPT ![p] = Nxt(@, 0)]
      /\ runqtail' = [runqtail EXCEPT ![p] = Nxt(@, 0)]
  BY <1>1, Unmoved DEF RunqType
<1>6. Filled(p) - 0 + 0 <= RingLen BY <1>4 DEF Fits
<1>7. /\ \A q \in Ps : rpc[q] \in {"copy", "cas"} /\ victim[q] = p => Gap(h[q], runqtail[p]) + 0 < Wrap
      /\ target = p /\ spc = "tail" => Gap(shead, runqtail[p]) + 0 < Wrap
      /\ target = p /\ spc \in {"next", "recheck"} => Gap(stail, runqtail[p]) + 0 < Wrap
  BY <1>1, <1>2, <1>3
<1>8. 0 \in Nat /\ 0 <= Filled(p) /\ ~(0 > 0) BY <1>4
<1> QED BY <1>5, <1>6, <1>7, <1>8 DEF Moves

-----------------------------------------------------------------------------
(* Where a goroutine lies. *)
InOut(g)   == {<< "out", NoP, 0 >> : o \in {g} \cap out}
InSched(g) == {<< "sched", NoP, i >> : i \in {k \in DOMAIN globq : globq[k] = g}}
InNext(g)  == {<< "next", p, 0 >> : p \in {q \in Ps : runnext[q] = g}}
InGp(g)    == {<< "gp", p, 0 >> : p \in {q \in Ps : gp[q] = g}}
InBatch(g) ==
  UNION {{<< "batch", p, i >> : i \in {k \in DOMAIN batch[p] : batch[p][k] = g}} : p \in Ps}
InRing(g)  ==
  UNION {{<< "ring", p, i >> : i \in {k \in 0 .. Wrap - 1 :
             (k - runqhead[p]) % Wrap < Hold(p) /\ runq[p][k % RingLen] = g}} : p \in Ps}

(* Places lists what Lies says. *)
LEMMA LiesPlaces ==
  ASSUME NEW g
  PROVE  \A x : x \in Places(g) <=> \E t, q, i : x = << t, q, i >> /\ Lies(t, q, i, g)
<1>1. Places(g) = InOut(g) \cup InSched(g) \cup InNext(g) \cup InGp(g)
                  \cup InBatch(g) \cup InRing(g)
  BY DEF Places, InOut, InSched, InNext, InGp, InBatch, InRing
<1>2. \A x : x \in InOut(g) <=> x = << "out", NoP, 0 >> /\ g \in out
  BY DEF InOut
<1>3. \A x : x \in InSched(g) <=>
        \E i : i \in DOMAIN globq /\ globq[i] = g /\ x = << "sched", NoP, i >>
  BY DEF InSched
<1>4. \A x : x \in InNext(g) <=> \E q \in Ps : runnext[q] = g /\ x = << "next", q, 0 >>
  BY DEF InNext
<1>5. \A x : x \in InGp(g) <=> \E q \in Ps : gp[q] = g /\ x = << "gp", q, 0 >>
  BY DEF InGp
<1>6. \A x : x \in InBatch(g) <=>
        \E q \in Ps : \E i : i \in DOMAIN batch[q] /\ batch[q][i] = g /\ x = << "batch", q, i >>
  BY DEF InBatch
<1>7. \A x : x \in InRing(g) <=>
        \E q \in Ps, i \in Index :
          Gap(runqhead[q], i) < Hold(q) /\ runq[q][Slot(i)] = g /\ x = << "ring", q, i >>
  BY DEF InRing, Index, Gap, Slot
<1>8. ASSUME NEW x, x \in Places(g) PROVE \E t, q, i : x = << t, q, i >> /\ Lies(t, q, i, g)
  <2>1. CASE x \in InOut(g) BY <2>1, <1>2 DEF Lies
  <2>2. CASE x \in InSched(g) BY <2>2, <1>3 DEF Lies
  <2>3. CASE x \in InNext(g) BY <2>3, <1>4 DEF Lies
  <2>4. CASE x \in InGp(g) BY <2>4, <1>5 DEF Lies
  <2>5. CASE x \in InBatch(g) BY <2>5, <1>6 DEF Lies
  <2>6. CASE x \in InRing(g) BY <2>6, <1>7 DEF Lies, Ringed
  <2> QED BY <1>1, <1>8, <2>1, <2>2, <2>3, <2>4, <2>5, <2>6
<1>9. ASSUME NEW t, NEW q, NEW i, Lies(t, q, i, g) PROVE << t, q, i >> \in Places(g)
  BY <1>1, <1>2, <1>3, <1>4, <1>5, <1>6, <1>7, <1>9 DEF Lies, Ringed
<1> QED BY <1>8, <1>9

(* To be in one place is to lie somewhere and nowhere else, now and after.    *)
LEMMA OnceIs ==
  ASSUME NEW g
  PROVE  OnePlace(g) <=>
           \E t, q, i : /\ Lies(t, q, i, g)
                       /\ \A u, r, j : Lies(u, r, j, g) => u = t /\ r = q /\ j = i
<1>1. ASSUME OnePlace(g)
      PROVE  \E t, q, i : /\ Lies(t, q, i, g)
                         /\ \A u, r, j : Lies(u, r, j, g) => u = t /\ r = q /\ j = i
  <2>1. PICK x : Places(g) = {x} BY <1>1 DEF OnePlace
  <2>2. PICK t, q, i : x = << t, q, i >> /\ Lies(t, q, i, g) BY <2>1, LiesPlaces
  <2>3. ASSUME NEW u, NEW r, NEW j, Lies(u, r, j, g) PROVE u = t /\ r = q /\ j = i
    <3>1. << u, r, j >> \in Places(g) BY <2>3, LiesPlaces
    <3>2. << u, r, j >> = << t, q, i >> BY <3>1, <2>1, <2>2
    <3> QED BY <3>2
  <2> QED BY <2>2, <2>3
<1>2. ASSUME NEW t, NEW q, NEW i, Lies(t, q, i, g),
             \A u, r, j : Lies(u, r, j, g) => u = t /\ r = q /\ j = i
      PROVE  OnePlace(g)
  <2>1. << t, q, i >> \in Places(g) BY <1>2, LiesPlaces
  <2>2. ASSUME NEW x \in Places(g) PROVE x = << t, q, i >>
    <3>1. PICK u, r, j : x = << u, r, j >> /\ Lies(u, r, j, g) BY LiesPlaces
    <3> QED BY <1>2, <3>1
  <2>3. Places(g) = {<< t, q, i >>} BY <2>1, <2>2
  <2> QED BY <2>1, <2>3 DEF OnePlace
<1> QED BY <1>1, <1>2

LEMMA OnceEver ==
  \A g : OnePlace(g) <=>
           \E t, q, i : /\ Lies(t, q, i, g)
                       /\ \A u, r, j : Lies(u, r, j, g) => u = t /\ r = q /\ j = i
  BY OnceIs

LEMMA OnceNext ==
  (\A g : OnePlace(g) <=>
            \E t, q, i : /\ Lies(t, q, i, g)
                        /\ \A u, r, j : Lies(u, r, j, g) => u = t /\ r = q /\ j = i)'
  BY OnceEver, PTL

(* A goroutine stays where it was, or lands where it lies alone. *)
LEMMA Stays ==
  ASSUME NEW g, OnePlace(g), \A t, q, i : Lies(t, q, i, g)' <=> Lies(t, q, i, g)
  PROVE  OnePlace(g)'
<1>1. PICK t, q, i : /\ Lies(t, q, i, g)
                     /\ \A u, r, j : Lies(u, r, j, g) => u = t /\ r = q /\ j = i
  BY OnceIs
<1>2. /\ Lies(t, q, i, g)'
      /\ \A u, r, j : Lies(u, r, j, g)' => u = t /\ r = q /\ j = i
  BY <1>1
<1>3. OnePlace(g)' <=>
        \E u, r, j : /\ Lies(u, r, j, g)'
                    /\ \A v, s, k : Lies(v, s, k, g)' => v = u /\ s = r /\ k = j
  BY OnceNext
<1> QED BY <1>2, <1>3

LEMMA Lands ==
  ASSUME NEW g, NEW t, NEW q, NEW i, Lies(t, q, i, g)',
         \A u, r, j : Lies(u, r, j, g)' => u = t /\ r = q /\ j = i
  PROVE  OnePlace(g)'
<1>1. OnePlace(g)' <=>
        \E u, r, j : /\ Lies(u, r, j, g)'
                    /\ \A v, s, k : Lies(v, s, k, g)' => v = u /\ s = r /\ k = j
  BY OnceNext
<1> QED BY <1>1

(* What lies in a ring when m goroutines go and k come. *)
LEMMA RingsMove ==
  ASSUME RunqType, NEW p \in Ps, NEW w, NEW m, NEW k, Moves(p, w, m, k),
         NEW q \in Ps, Fits(q), q = p => rpc[p] # "stolen" /\ rpc'[p] # "stolen",
         NEW i, NEW g
  PROVE  Ringed(q, i, g)' <=>
           \/ Ringed(q, i, g) /\ (q = w => m <= Gap(runqhead[q], i))
           \/ /\ q = w /\ i \in Index /\ runq'[q][Slot(i)] = g
              /\ Filled(q) <= Gap(runqhead[q], i) /\ Gap(runqhead[q], i) < Filled(q) + k
<1>1. /\ Filled(q) \in Nat /\ Filled(q) < Wrap /\ m \in Nat /\ k \in Nat
      /\ k > 0 => w = p /\ m = 0
      /\ q = w => m <= Filled(q) /\ Filled(q) + k < Wrap /\ Filled(q)' = Filled(q) - m + k
                  /\ runqhead'[q] = Nxt(runqhead[q], m)
      /\ q # w => Filled(q)' = Filled(q) /\ runqhead'[q] = runqhead[q]
  BY MovedRings
<1>2. /\ q # p => runq'[q] = runq[q] /\ rpc'[q] = rpc[q] /\ n'[q] = n[q]
      /\ q = p => \A j \in Index : Gap(runqhead[q], j) < Filled(q) => runq'[q][Slot(j)] = runq[q][Slot(j)]
  BY DEF Moves, Alone
<1>3. /\ Hold(q) = Filled(q) + (IF rpc[q] = "stolen" THEN n[q] ELSE 0)
      /\ Hold(q)' = Filled(q)' + (IF rpc'[q] = "stolen" THEN n'[q] ELSE 0)
      /\ n[q] \in Nat
  BY DEF Hold, RunqType
<1>4. rpc[q] = "stolen" => Filled(q) = 0 BY DEF Fits, Thieving
<1>5. CASE i \notin Index BY <1>5 DEF Ringed
<1>6. CASE i \in Index
  <2>0. runqhead[q] \in Index /\ Gap(runqhead[q], i) \in Nat /\ Gap(runqhead[q], i) < Wrap
    <3>1. runqhead[q] \in Index BY DEF RunqType
    <3>2. Gap(runqhead[q], i) \in Index BY <1>6, <3>1, GapLaw
    <3> QED BY <3>1, <3>2, RingSizes DEF Index
  <2>1. CASE q # w
    <3>1. Hold(q)' = Hold(q) BY <1>1, <1>2, <1>3, <2>1
    <3>2. Gap(runqhead[q], i) < Hold(q) => runq'[q][Slot(i)] = runq[q][Slot(i)]
      BY <1>1, <1>2, <1>3, <1>6
    <3> QED BY <1>1, <1>6, <2>1, <3>1, <3>2 DEF Ringed
  <2>2. CASE q = w /\ m <= Gap(runqhead[q], i)
    <3>1. Gap(runqhead'[q], i) = Gap(runqhead[q], i) - m BY <1>1, <1>6, <2>0, <2>2, Nearer
    <3>2. Hold(q)' = Hold(q) - m + k BY <1>1, <1>2, <1>3, <2>2
    <3>3. Hold(q) \in Nat BY <1>1, <1>3
    <3>4. CASE q = p
      <4>1. Hold(q) = Filled(q) BY <1>1, <1>3, <3>4
      <4> QED BY <1>1, <1>2, <1>6, <2>0, <2>2, <3>1, <3>2, <3>4, <4>1 DEF Ringed
    <3>5. CASE q # p
      <4>1. k = 0 BY <1>1, <2>2, <3>5
      <4> QED BY <1>1, <1>2, <1>6, <2>0, <2>2, <3>1, <3>2, <3>3, <3>5, <4>1 DEF Ringed
    <3> QED BY <3>4, <3>5
  <2>3. CASE q = w /\ Gap(runqhead[q], i) < m
    <3>0. m > 0 /\ k = 0 /\ rpc[q] # "stolen" /\ m \in 0 .. Wrap - 1 BY <1>1, <1>4, <2>0, <2>3, RingSizes
    <3>1. Gap(runqhead'[q], i) = Gap(runqhead[q], i) - m + Wrap
      BY <1>1, <1>6, <2>0, <2>3, <3>0, Passed
    <3>2. Hold(q)' = Filled(q) - m BY <1>1, <1>2, <1>3, <2>3, <3>0
    <3> QED BY <1>1, <1>6, <2>0, <2>3, <3>0, <3>1, <3>2, RingSizes DEF Ringed
  <2> QED BY <1>1, <2>0, <2>1, <2>2, <2>3
<1> QED BY <1>5, <1>6

(* Without going and coming all stays. *)
LEMMA RingsStay ==
  ASSUME RunqType, NEW p \in Ps, NEW w, Moves(p, w, 0, 0),
         NEW q \in Ps, Fits(q), q = p => rpc[p] # "stolen" /\ rpc'[p] # "stolen",
         NEW i, NEW g
  PROVE  Ringed(q, i, g)' <=> Ringed(q, i, g)
<1>1. Ringed(q, i, g)' <=>
           \/ Ringed(q, i, g) /\ (q = w => 0 <= Gap(runqhead[q], i))
           \/ /\ q = w /\ i \in Index /\ runq'[q][Slot(i)] = g
              /\ Filled(q) <= Gap(runqhead[q], i) /\ Gap(runqhead[q], i) < Filled(q) + 0
  BY RingsMove
<1>2. i \in Index => Gap(runqhead[q], i) \in Nat
  BY GapLaw DEF RunqType
<1>3. Filled(q) \in Nat BY MovedRings
<1> QED BY <1>1, <1>2, <1>3 DEF Ringed

-----------------------------------------------------------------------------
(* runqput *)
LEMMA PutNextKeeps ==
  ASSUME RunqInv, NEW p \in Ps, NEW g \in Gs, PutNext(p, g), Aside
  PROVE  RunqInv'
<1>0. /\ RunqType /\ Fits(p) /\ Steals(p) /\ g \in out /\ out' = out \ {g}
      /\ rpc[p] = "idle"
      /\ rpc' = [rpc EXCEPT ![p] = IF runnext[p] = NoG THEN "idle" ELSE "put"]
      /\ runnext' = [runnext EXCEPT ![p] = g]
      /\ gp' = [gp EXCEPT ![p] = runnext[p]]
      /\ UNCHANGED << runqhead, runqtail, runq, globq, schedLock, batch, victim, h, n, nx >>
  BY DEF RunqInv, PutNext, RGoto, thief
<1>1. RunqType' BY <1>0, AsideType DEF RunqType, RPCs
<1>2. Moves(p, p, 0, 0)
  <2>1. Alone(p) BY <1>0 DEF Alone, RunqType
  <2> QED BY <1>0, <2>1, Quiet
<1>3. Fits(p)'
  <2>1. Filled(p)' = Filled(p) /\ Hold(p)' = Hold(p) BY <1>0 DEF Filled, Hold, RunqType
  <2> QED BY <1>0, <2>1 DEF Fits, RunqType, Putting, Thieving
<1>4. Steals(p)' BY <1>0 DEF Steals, RunqType, Thieving
<1>5. ASSUME NEW f \in Gs PROVE OnePlace(f)'
  <2>1. OnePlace(f) BY DEF RunqInv
  <2>2. PICK t, q, i : /\ Lies(t, q, i, f)
                       /\ \A u, r, j : Lies(u, r, j, f) => u = t /\ r = q /\ j = i
    BY <2>1, OnceIs
  <2>3. \A r \in Ps : \A j : Ringed(r, j, f)' <=> Ringed(r, j, f)
    BY <1>0, <1>2, RingsStay DEF RunqInv, RunqType
  <2>4. \A u, r, j : Lies(u, r, j, f)' <=>
          \/ u = "next" /\ r = p /\ j = 0 /\ f = g
          \/ u = "gp" /\ r = p /\ j = 0 /\ f = runnext[p]
          \/ /\ Lies(u, r, j, f)
             /\ ~(u = "out" /\ f = g) /\ ~(u = "next" /\ r = p) /\ ~(u = "gp" /\ r = p)
    BY <1>0, <2>3 DEF Lies, RunqType
  <2>5. /\ f = g => Lies("out", NoP, 0, f)
        /\ f = runnext[p] <=> Lies("next", p, 0, f)
        /\ gp[p] = NoG
    BY <1>0 DEF Lies, Fits, Putting
  <2>6. CASE f = g BY <2>2, <2>4, <2>5, <2>6, Lands
  <2>7. CASE f # g /\ f = runnext[p] BY <2>2, <2>4, <2>5, <2>7, Lands
  <2>8. CASE f # g /\ f # runnext[p]
    <3>1. \A r, j : ~Lies("next", p, j, f) /\ ~Lies("gp", p, j, f)
      BY <2>5, <2>8, RunqAssumption DEF Lies
    <3> QED BY <2>1, <2>4, <2>8, <3>1, Stays
  <2> QED BY <2>6, <2>7, <2>8
<1> QED BY <1>0, <1>1, <1>2, <1>3, <1>4, <1>5, OthersKept DEF RunqInv

LEMMA PutKeeps ==
  ASSUME RunqInv, NEW p \in Ps, NEW g \in Gs, Put(p, g), Aside
  PROVE  RunqInv'
<1>0. /\ RunqType /\ Fits(p) /\ Steals(p) /\ g \in out /\ out' = out \ {g}
      /\ rpc[p] = "idle" /\ rpc' = [rpc EXCEPT ![p] = "put"]
      /\ gp' = [gp EXCEPT ![p] = g]
      /\ UNCHANGED << runqhead, runqtail, runq, runnext, globq, schedLock, batch, victim, h, n, nx >>
  BY DEF RunqInv, Put, RGoto, thief
<1>1. RunqType' BY <1>0, AsideType DEF RunqType, RPCs
<1>2. Moves(p, p, 0, 0)
  <2>1. Alone(p) BY <1>0 DEF Alone, RunqType
  <2> QED BY <1>0, <2>1, Quiet
<1>3. Fits(p)'
  <2>1. Filled(p)' = Filled(p) /\ Hold(p)' = Hold(p) BY <1>0 DEF Filled, Hold, RunqType
  <2> QED BY <1>0, <2>1, RunqAssumption DEF Fits, RunqType, Putting, Thieving
<1>4. Steals(p)' BY <1>0 DEF Steals, RunqType, Thieving
<1>5. ASSUME NEW f \in Gs PROVE OnePlace(f)'
  <2>1. OnePlace(f) BY DEF RunqInv
  <2>2. PICK t, q, i : /\ Lies(t, q, i, f)
                       /\ \A u, r, j : Lies(u, r, j, f) => u = t /\ r = q /\ j = i
    BY <2>1, OnceIs
  <2>3. \A r \in Ps : \A j : Ringed(r, j, f)' <=> Ringed(r, j, f)
    BY <1>0, <1>2, RingsStay DEF RunqInv, RunqType
  <2>4. gp[p] = NoG BY <1>0 DEF Fits, Putting
  <2>5. \A u, r, j : Lies(u, r, j, f)' <=>
          \/ u = "gp" /\ r = p /\ j = 0 /\ f = g
          \/ Lies(u, r, j, f) /\ ~(u = "out" /\ f = g)
    BY <1>0, <2>3, <2>4, RunqAssumption DEF Lies, RunqType
  <2>6. f = g => Lies("out", NoP, 0, f) BY <1>0 DEF Lies
  <2>7. CASE f = g BY <2>2, <2>5, <2>6, <2>7, Lands
  <2>8. CASE f # g BY <2>1, <2>5, <2>8, Stays
  <2> QED BY <2>7, <2>8
<1> QED BY <1>0, <1>1, <1>2, <1>3, <1>4, <1>5, OthersKept DEF RunqInv

-----------------------------------------------------------------------------
(* A step that moves no goroutine. *)
LEMMA NothingMoves ==
  ASSUME RunqInv, NEW p \in Ps, Moves(p, p, 0, 0), RunqType',
         UNCHANGED << out, globq, runnext, gp, batch >>,
         rpc[p] # "stolen", rpc'[p] # "stolen", Fits(p)', Steals(p)'
  PROVE  RunqInv'
<1>1. ASSUME NEW f \in Gs PROVE OnePlace(f)'
  <2>1. \A r \in Ps : \A j : Ringed(r, j, f)' <=> Ringed(r, j, f)
    BY RingsStay DEF RunqInv
  <2>2. \A u, r, j : Lies(u, r, j, f)' <=> Lies(u, r, j, f) BY <2>1 DEF Lies
  <2> QED BY <2>2, Stays DEF RunqInv
<1>2. (\A q \in Ps : Fits(q)' /\ Steals(q)') /\ Watches' BY OthersKept DEF RunqInv
<1> QED BY <1>1, <1>2 DEF RunqInv

(* A step of a thief that only looks. *)
Looking == (Thieving \ {"stolen"}) \cup {"idle"}

(* A thief that looks moves nothing. *)
LEMMA ThiefLooks ==
  ASSUME RunqInv, NEW p \in Ps, Aside, UNCHANGED << queues, schedLock, gp, batch >>,
         RunqType', Steals(p)',
         \A q \in Ps \ {p} : /\ rpc'[q] = rpc[q] /\ victim'[q] = victim[q]
                             /\ h'[q] = h[q] /\ n'[q] = n[q] /\ nx'[q] = nx[q],
         rpc[p] \in Looking, rpc'[p] \in Looking, rpc[p] = "idle" => Filled(p) = 0
  PROVE  RunqInv'
<1>0. /\ RunqType /\ Fits(p)
      /\ UNCHANGED << runqhead, runqtail, runq, runnext, globq, out, schedLock, gp, batch >>
  BY DEF RunqInv, queues
<1>1. Moves(p, p, 0, 0)
  <2>1. Alone(p) BY <1>0 DEF Alone
  <2> QED BY <1>0, <2>1, Quiet
<1>2. Fits(p)'
  <2>1. /\ Filled(p)' = Filled(p) /\ Hold(p)' = Hold(p)
    BY <1>0 DEF Filled, Hold, Looking
  <2> QED BY <1>0, <2>1 DEF Fits, Putting, Thieving, Looking
<1> QED BY <1>0, <1>1, <1>2, NothingMoves DEF Looking

LEMMA GrabHeadKeeps ==
  ASSUME RunqInv, NEW p \in Ps, NEW p2 \in Ps, GrabHead(p, p2), Aside
  PROVE  RunqInv'
<1>0. /\ RunqType /\ p # p2 /\ Filled(p) = 0
      /\ rpc[p] = "idle" /\ rpc' = [rpc EXCEPT ![p] = "copy"]
      /\ victim' = [victim EXCEPT ![p] = p2] /\ h' = [h EXCEPT ![p] = runqhead[p2]]
      /\ UNCHANGED << runqhead, runqtail, runq, runnext, globq, out, schedLock, gp, batch, n, nx >>
  BY DEF RunqInv, GrabHead, RGoto, IsEmptyQ, queues
<1>1. RunqType' BY <1>0, AsideType DEF RunqType, RPCs
<1>2. Gap(runqhead[p2], runqhead[p2]) = 0 /\ Gap(runqhead[p2], runqtail[p2]) \in Nat
  BY Met, GapLaw DEF RunqType, RunqInv
<1>3. Behind(runqhead[p2], p2)' 
  <2>1. Behind(runqhead[p2], p2) BY <1>2, FilledGap DEF Behind
  <2> QED BY <1>0, <2>1 DEF Behind, Filled
<1>4. Steals(p)' BY <1>0, <1>3 DEF Steals, RunqType, Thieving, Behind, Filled
<1> QED BY <1>0, <1>1, <1>4, ThiefLooks DEF Looking, Thieving, queues, RunqType

LEMMA GrabAgainKeeps ==
  ASSUME RunqInv, NEW p \in Ps, GrabAgain(p), Aside
  PROVE  RunqInv'
<1>0. /\ RunqType /\ Steals(p)
      /\ rpc[p] = "grab" /\ rpc' = [rpc EXCEPT ![p] = "copy"]
      /\ h' = [h EXCEPT ![p] = runqhead[victim[p]]]
      /\ UNCHANGED << runqhead, runqtail, runq, runnext, globq, out, schedLock, gp, batch, victim, n, nx >>
  BY DEF RunqInv, GrabAgain, RGoto, queues
<1>b. PICK p2 \in Ps : p2 = victim[p] /\ p2 # p BY <1>0 DEF Steals, Thieving
<1>1. RunqType' BY <1>0, <1>b, AsideType DEF RunqType, RPCs
<1>2. Gap(runqhead[p2], runqhead[p2]) = 0 /\ Gap(runqhead[p2], runqtail[p2]) \in Nat
  BY Met, GapLaw DEF RunqType, RunqInv
<1>3. Behind(runqhead[p2], p2)'
  <2>1. Behind(runqhead[p2], p2) BY <1>2, FilledGap DEF Behind
  <2> QED BY <1>0, <2>1 DEF Behind, Filled
<1>4. Steals(p)' BY <1>0, <1>b, <1>3 DEF Steals, RunqType, Thieving, Behind, Filled
<1> QED BY <1>0, <1>1, <1>4, ThiefLooks DEF Looking, Thieving, queues, RunqType

LEMMA GrabInconsistentKeeps ==
  ASSUME RunqInv, NEW p \in Ps, GrabInconsistent(p), Aside
  PROVE  RunqInv'
<1>0. /\ RunqType /\ Steals(p)
      /\ rpc[p] = "copy" /\ rpc' = [rpc EXCEPT ![p] = "grab"]
      /\ UNCHANGED << runqhead, runqtail, runq, runnext, globq, out, schedLock, gp, batch, victim, h, n, nx >>
  BY DEF RunqInv, GrabInconsistent, RGoto, queues, thief
<1>1. RunqType' BY <1>0, AsideType DEF RunqType, RPCs
<1>4. Steals(p)' BY <1>0 DEF Steals, RunqType, Thieving
<1> QED BY <1>0, <1>1, <1>4, ThiefLooks DEF Looking, Thieving, queues, RunqType

LEMMA GrabTryNextKeeps ==
  ASSUME RunqInv, NEW p \in Ps, GrabTryNext(p), Aside
  PROVE  RunqInv'
<1>0. /\ RunqType /\ Steals(p)
      /\ rpc[p] = "copy" /\ rpc' = [rpc EXCEPT ![p] = "loadNext"]
      /\ UNCHANGED << runqhead, runqtail, runq, runnext, globq, out, schedLock, gp, batch, victim, h, n, nx >>
  BY DEF RunqInv, GrabTryNext, RGoto, queues, thief
<1>1. RunqType' BY <1>0, AsideType DEF RunqType, RPCs
<1>4. Steals(p)' BY <1>0 DEF Steals, RunqType, Thieving
<1> QED BY <1>0, <1>1, <1>4, ThiefLooks DEF Looking, Thieving, queues, RunqType

LEMMA LeaveType ==
  ASSUME RunqType, NEW p \in Ps, LeaveGrab(p)
  PROVE  /\ victim' \in [Ps -> Ps \cup {NoP}] /\ h' \in [Ps -> Index]
         /\ n' \in [Ps -> Nat] /\ nx' \in [Ps -> Gs \cup {NoG}]
         /\ \A q \in Ps \ {p} : victim'[q] = victim[q] /\ h'[q] = h[q] /\ n'[q] = n[q] /\ nx'[q] = nx[q]
<1>1. 0 \in Index BY RingSizes DEF Index
<1> QED BY <1>1 DEF RunqType, LeaveGrab

LEMMA GrabNothingKeeps ==
  ASSUME RunqInv, NEW p \in Ps, GrabNothing(p), Aside
  PROVE  RunqInv'
<1>0. /\ RunqType /\ Steals(p) /\ LeaveGrab(p)
      /\ rpc[p] = "copy" /\ rpc' = [rpc EXCEPT ![p] = "idle"]
      /\ UNCHANGED << runqhead, runqtail, runq, runnext, globq, out, schedLock, gp, batch >>
  BY DEF RunqInv, GrabNothing, RGoto, queues
<1>1. RunqType' BY <1>0, AsideType, LeaveType DEF RunqType, RPCs
<1>4. Steals(p)' BY <1>0 DEF Steals, RunqType, Thieving
<1> QED BY <1>0, <1>1, <1>4, ThiefLooks, LeaveType DEF Looking, Thieving, queues, RunqType

LEMMA GrabLoadNextKeeps ==
  ASSUME RunqInv, NEW p \in Ps, GrabLoadNext(p), Aside
  PROVE  RunqInv'
<1>0. /\ RunqType /\ Steals(p) /\ rpc[p] = "loadNext"
      /\ UNCHANGED << runqhead, runqtail, runq, runnext, globq, out, schedLock, gp, batch >>
  BY DEF RunqInv, GrabLoadNext, RGoto, queues
<1>b. PICK p2 \in Ps : p2 = victim[p] /\ p2 # p BY <1>0 DEF Steals, Thieving
<1>1. CASE runnext[p2] = NoG
  <2>0. LeaveGrab(p) /\ rpc' = [rpc EXCEPT ![p] = "idle"]
    BY <1>b, <1>1 DEF GrabLoadNext, RGoto
  <2>1. RunqType' BY <1>0, <2>0, AsideType, LeaveType DEF RunqType, RPCs
  <2>4. Steals(p)' BY <1>0, <2>0 DEF Steals, RunqType, Thieving
  <2> QED BY <1>0, <2>0, <2>1, <2>4, ThiefLooks, LeaveType DEF Looking, Thieving, queues, RunqType
<1>2. CASE runnext[p2] # NoG
  <2>0. /\ rpc' = [rpc EXCEPT ![p] = "casNext"] /\ nx' = [nx EXCEPT ![p] = runnext[p2]]
        /\ UNCHANGED << victim, h, n >>
    BY <1>b, <1>2 DEF GrabLoadNext, RGoto
  <2>1. RunqType' BY <1>0, <2>0, AsideType DEF RunqType, RPCs
  <2>4. Steals(p)' BY <1>0, <1>2, <2>0 DEF Steals, RunqType, Thieving
  <2> QED BY <1>0, <2>0, <2>1, <2>4, ThiefLooks DEF Looking, Thieving, queues, RunqType
<1> QED BY <1>1, <1>2

(* A slot of a ring that has room is not the slot behind it. *)
LEMMA Inside ==
  ASSUME NEW a \in Index, NEW b \in Index, NEW i \in Index, Gap(a, i) <= Gap(a, b)
  PROVE  Gap(i, b) = Gap(a, b) - Gap(a, i)
<1>1. Gap(a, i) \in Nat BY GapLaw
<1>2. Nxt(a, Gap(a, i)) = i BY Met
<1> QED BY <1>1, <1>2, Nearer

(* The slot behind the tail is filled before the tail moves (6745-6749)... *)
LEMMA PutRingKeeps ==
  ASSUME RunqInv, NEW p \in Ps, PutRing(p), Aside
  PROVE  RunqInv'
<1>0. /\ RunqType /\ Fits(p) /\ Filled(p) < RingLen
      /\ rpc[p] = "put" /\ rpc' = [rpc EXCEPT ![p] = "publish"]
      /\ runq' = [runq EXCEPT ![p][Slot(runqtail[p])] = gp[p]]
      /\ UNCHANGED << runqhead, runqtail, runnext, globq, schedLock, out, gp, batch, victim, h, n, nx >>
  BY DEF RunqInv, PutRing, RGoto, thief, Slot
<1>a. /\ runqhead[p] \in Index /\ runqtail[p] \in Index /\ Slot(runqtail[p]) \in 0 .. RingLen - 1
      /\ Filled(p) \in Nat /\ Filled(p) = Gap(runqhead[p], runqtail[p])
  BY <1>0, SlotIn, FilledGap, GapLaw DEF RunqType
<1>1. RunqType'
  <2>1. runq' \in [Ps -> [0 .. RingLen - 1 -> Gs \cup {NoG}]] BY <1>0, <1>a DEF RunqType
  <2> QED BY <1>0, <2>1, AsideType DEF RunqType, RPCs
<1>2. runq'[p][Slot(runqtail[p])] = gp[p] BY <1>0, <1>a DEF RunqType
<1>3. ASSUME NEW i \in Index, Gap(runqhead[p], i) < Filled(p)
      PROVE  runq'[p][Slot(i)] = runq[p][Slot(i)]
  <2>1. Gap(i, runqtail[p]) = Filled(p) - Gap(runqhead[p], i) /\ Gap(runqhead[p], i) \in Nat
    BY <1>3, <1>a, Inside, GapLaw
  <2>2. Gap(i, runqtail[p]) < RingLen /\ Gap(i, runqtail[p]) # 0
    BY <1>0, <1>3, <1>a, <2>1, RingSizes
  <2>3. i # runqtail[p] BY <1>a, <2>2, Met
  <2>4. Slot(i) # Slot(runqtail[p]) /\ Slot(i) \in 0 .. RingLen - 1
    BY <1>a, <2>2, <2>3, SlotApart, SlotIn
  <2> QED BY <1>0, <1>a, <2>4 DEF RunqType
<1>4. Moves(p, p, 0, 0)
  <2>1. Alone(p) BY <1>0 DEF Alone, RunqType
  <2> QED BY <1>0, <1>3, <2>1, Quiet
<1>5. Fits(p)'
  <2>1. Filled(p)' = Filled(p) /\ Hold(p) = Filled(p) /\ Hold(p)' = Filled(p)
    BY <1>0, <1>a DEF Filled, Hold, RunqType
  <2>2. \A i \in Index : Gap(runqhead'[p], i) < Hold(p)' => runq'[p][Slot(i)] \in Gs
    BY <1>0, <1>3, <2>1 DEF Fits
  <2> QED BY <1>0, <1>2, <2>1, <2>2 DEF Fits, RunqType, Putting, Thieving
<1>6. Steals(p)' BY <1>0 DEF Steals, RunqType, Thieving
<1> QED BY <1>0, <1>1, <1>4, <1>5, <1>6, NothingMoves DEF RunqType

LEMMA HalfOf ==
  ASSUME NEW k \in Nat
  PROVE  Half(k) \in Nat /\ Half(k) <= k
  BY DEF Half

(* What is copied has been read while the head stood still, or counts for    *)
(* nothing (6948-6950).                                                       *)
LEMMA GrabCopyKeeps ==
  ASSUME RunqInv, NEW p \in Ps, GrabCopy(p), Aside
  PROVE  RunqInv'
<1> DEFINE k == Share(p)
<1>0. /\ RunqType /\ Fits(p) /\ Steals(p) /\ k \in 1 .. RingLen \div 2
      /\ rpc[p] = "copy" /\ rpc' = [rpc EXCEPT ![p] = "cas"]
      /\ n' = [n EXCEPT ![p] = k]
      /\ UNCHANGED << runqhead, runqtail, runnext, globq, out, schedLock, gp, batch, victim, h, nx >>
  BY DEF RunqInv, GrabCopy, RGoto
<1>b. PICK v \in Ps : v = victim[p] /\ v # p BY <1>0 DEF Steals, Thieving
<1>a. /\ runqtail[p] \in Index /\ h[p] \in Index /\ h[p] \in Nat /\ Filled(p) = 0
      /\ runqhead[v] \in Index /\ runqtail[v] \in Index /\ DOMAIN runq[p] = 0 .. RingLen - 1
  BY <1>0 DEF RunqType, Fits, Thieving, Index
<1>c. runq' = [runq EXCEPT ![p] = [i \in 0 .. RingLen - 1 |->
                 IF Back(i, runqtail[p]) < k THEN runq[v][(h[p] + Back(i, runqtail[p])) % RingLen]
                 ELSE runq[p][i]]]
  BY <1>a, <1>b DEF GrabCopy, Back
<1>d. k = Half(Gap(h[p], runqtail[v])) BY <1>b DEF Share, Gap
<1> HIDE DEF k
<1>e. k \in Nat /\ k > 0 /\ k < RingLen BY <1>0, Halves, RingSizes
<1>f. ASSUME NEW i \in 0 .. RingLen - 1 PROVE Back(i, runqtail[p]) \in 0 .. RingLen - 1
  BY <1>a, RingSizes DEF Back, Index
<1>g. ASSUME NEW i \in 0 .. RingLen - 1
      PROVE (h[p] + Back(i, runqtail[p])) % RingLen \in 0 .. RingLen - 1
  <2>1. h[p] + Back(i, runqtail[p]) \in Nat BY <1>a, <1>f
  <2> QED BY <2>1, RingSizes, DivFacts
<1>1. RunqType'
  <2>1. runq' \in [Ps -> [0 .. RingLen - 1 -> Gs \cup {NoG}]]
    <3>1. ASSUME NEW i \in 0 .. RingLen - 1
          PROVE  (IF Back(i, runqtail[p]) < k THEN runq[v][(h[p] + Back(i, runqtail[p])) % RingLen]
                  ELSE runq[p][i]) \in Gs \cup {NoG}
      BY <1>0, <1>g, ZenonT(30) DEF RunqType
    <3>2. [i \in 0 .. RingLen - 1 |->
             IF Back(i, runqtail[p]) < k THEN runq[v][(h[p] + Back(i, runqtail[p])) % RingLen]
             ELSE runq[p][i]] \in [0 .. RingLen - 1 -> Gs \cup {NoG}]
      BY <3>1
    <3> QED BY <1>0, <1>c, <3>2 DEF RunqType
  <2> QED BY <1>0, <1>e, <2>1, AsideType DEF RunqType, RPCs
<1>2. ASSUME NEW j \in 0 .. k - 1
      PROVE  runq'[p][Slot(Nxt(runqtail[p], j))] = runq'[v][Slot(Nxt(h[p], j))]
  <2>0. j \in 0 .. Wrap - 1 /\ j < RingLen /\ j \in Nat BY <1>e, RingSizes
  <2>1. /\ Nxt(runqtail[p], j) \in Index /\ Gap(runqtail[p], Nxt(runqtail[p], j)) = j
        /\ Nxt(h[p], j) \in Index
        /\ Nxt(h[p], j) = IF h[p] + j < Wrap THEN h[p] + j ELSE h[p] + j - Wrap
    BY <1>a, <2>0, NxtLaw
  <2>2. Back(Slot(Nxt(runqtail[p], j)), runqtail[p]) = j BY <1>a, <2>0, <2>1, BackLaw
  <2>3. (h[p] + j) % RingLen = Slot(Nxt(h[p], j)) BY <1>a, <2>0, SlotNxt
  <2>4. Slot(Nxt(runqtail[p], j)) \in 0 .. RingLen - 1 BY <2>1, SlotIn
  <2>5. runq'[p][Slot(Nxt(runqtail[p], j))] = runq[v][Slot(Nxt(h[p], j))]
    BY <1>0, <1>c, <2>2, <2>3, <2>4 DEF RunqType
  <2> QED BY <1>b, <1>c, <2>5
<1>3. Moves(p, p, 0, 0)
  <2>1. Alone(p) BY <1>0, <1>c DEF Alone, RunqType
  <2>2. \A i \in Index : Gap(runqhead[p], i) < Filled(p) => runq'[p][Slot(i)] = runq[p][Slot(i)]
    BY <1>0, <1>a, GapLaw DEF RunqType
  <2> QED BY <1>0, <2>1, <2>2, Quiet
<1>4. Fits(p)'
  <2>1. Filled(p)' = Filled(p) /\ Hold(p) = Filled(p) /\ Hold(p)' = Filled(p)
    BY <1>0, <1>a DEF Filled, Hold, RunqType
  <2>2. \A i \in Index : ~ (Gap(runqhead'[p], i) < Hold(p)')
    BY <1>0, <1>a, <2>1, GapLaw DEF RunqType
  <2> QED BY <1>0, <2>1, <2>2 DEF Fits, RunqType, Putting, Thieving
<1>5. Steals(p)'
  <2>1. Behind(h[p], v) BY <1>0, <1>b DEF Steals
  <2>2. ASSUME runqhead[v] = h[p] PROVE k <= Filled(v)
    <3>1. Filled(v) = Gap(h[p], runqtail[v]) /\ Filled(v) \in Nat BY <2>2, <1>a, FilledGap, GapLaw
    <3> QED BY <3>1, <1>d, <1>e, HalfOf
  <2>3. runqhead[v] = h[p] => Copied(p)'
    BY <1>0, <1>b, <1>2, <2>2 DEF Copied, Filled, RunqType
  <2> QED BY <1>0, <1>b, <2>1, <2>3 DEF Steals, Behind, Filled, RunqType, Thieving
<1> QED BY <1>0, <1>1, <1>3, <1>4, <1>5, NothingMoves DEF RunqType

-----------------------------------------------------------------------------
(* One goroutine goes from one place to another. *)
Goes(g, t, q, i, u, r, j) ==
  \A f \in Gs : \A x, y, z : Lies(x, y, z, f)' <=>
    \/ f = g /\ x = u /\ y = r /\ z = j
    \/ Lies(x, y, z, f) /\ ~(f = g /\ x = t /\ y = q /\ z = i)

(* One goroutine changes places: all are in one place still. *)
LEMMA OneMoves ==
  ASSUME \A f \in Gs : OnePlace(f), NEW g \in Gs,
         NEW t, NEW q, NEW i, Lies(t, q, i, g), NEW u, NEW r, NEW j,
         Goes(g, t, q, i, u, r, j)
  PROVE  \A f \in Gs : OnePlace(f)'
<1> USE DEF Goes
<1> SUFFICES ASSUME NEW f \in Gs PROVE OnePlace(f)' OBVIOUS
<1>1. CASE f # g BY <1>1, Stays
<1>2. CASE f = g
  <2>1. \A x, y, z : Lies(x, y, z, g) => x = t /\ y = q /\ z = i BY OnceIs
  <2>2. Lies(u, r, j, g)' /\ \A x, y, z : Lies(x, y, z, g)' => x = u /\ y = r /\ z = j
    BY <2>1
  <2> QED BY <1>2, <2>2, Lands
<1> QED BY <1>1, <1>2

(* P p publishes k goroutines. *)
LEMMA Advances ==
  ASSUME RunqType, NEW p \in Ps, NEW k \in Nat, Advance(p, k), Alone(p),
         UNCHANGED runqhead, Filled(p) + k <= RingLen,
         \A i \in Index : Gap(runqhead[p], i) < Filled(p) => runq'[p][Slot(i)] = runq[p][Slot(i)]
  PROVE  Moves(p, p, 0, k)
<1>1. runqhead[p] \in Index /\ runqtail[p] \in Index BY DEF RunqType
<1>2. Filled(p) \in Nat BY <1>1, GapLaw, FilledGap
<1>3. runqhead' = [runqhead EXCEPT ![p] = Nxt(@, 0)] BY <1>1, Unmoved DEF RunqType
<1>4. /\ runqtail' = [runqtail EXCEPT ![p] = Nxt(@, k)]
      /\ \A q \in Ps : rpc[q] \in {"copy", "cas"} /\ victim[q] = p => Gap(h[q], runqtail[p]) + k < Wrap
      /\ target = p /\ spc = "tail" => Gap(shead, runqtail[p]) + k < Wrap
      /\ target = p /\ spc \in {"next", "recheck"} => Gap(stail, runqtail[p]) + k < Wrap
  BY DEF Advance, Nxt, Gap
<1>5. 0 \in Nat /\ 0 <= Filled(p) /\ Filled(p) - 0 + k <= RingLen BY <1>2
<1> QED BY <1>3, <1>4, <1>5 DEF Moves

(* ...and its goroutine is in the ring when it has (6750). *)
LEMMA PutPublishKeeps ==
  ASSUME RunqInv, NEW p \in Ps, PutPublish(p), Aside
  PROVE  RunqInv'
<1>0. /\ RunqType /\ Fits(p) /\ Steals(p) /\ Filled(p) < RingLen
      /\ runq[p][Slot(runqtail[p])] = gp[p] /\ gp[p] \in Gs
      /\ rpc[p] = "publish"
      /\ rpc' = [rpc EXCEPT ![p] = IF schedLock = p THEN "putRest" ELSE "idle"]
      /\ gp' = [gp EXCEPT ![p] = NoG] /\ Advance(p, 1)
      /\ UNCHANGED << runqhead, runq, runnext, globq, schedLock, out, batch, victim, h, n, nx >>
  BY DEF RunqInv, PutPublish, RGoto, thief, Fits, Putting, RunqType
<1>a. /\ runqhead[p] \in Index /\ runqtail[p] \in Index
      /\ Filled(p) \in Nat /\ Filled(p) = Gap(runqhead[p], runqtail[p])
  BY <1>0, FilledGap, GapLaw DEF RunqType
<1>1. Moves(p, p, 0, 1)
  <2>1. Alone(p) BY <1>0 DEF Alone, RunqType
  <2>2. Filled(p) + 1 <= RingLen BY <1>0, <1>a, RingSizes
  <2> QED BY <1>0, <2>1, <2>2, Advances
<1>2. /\ Filled(p)' = Filled(p) + 1 /\ runqtail' = [runqtail EXCEPT ![p] = Nxt(@, 1)]
      /\ Nxt(runqtail[p], 1) \in Index
  <2>1. Filled(p)' = Filled(p) - 0 + 1 BY <1>0, <1>1, MovedRings
  <2>2. 1 \in 0 .. Wrap - 1 BY RingSizes
  <2> QED BY <1>a, <2>1, <2>2, <1>1, NxtLaw DEF Moves
<1>3. RunqType' BY <1>0, <1>2, AsideType DEF RunqType, RPCs
<1>4. \A i, f : Ringed(p, i, f)' <=> Ringed(p, i, f) \/ (i = runqtail[p] /\ f = gp[p])
  <2> SUFFICES ASSUME NEW i, NEW f
               PROVE  Ringed(p, i, f)' <=> Ringed(p, i, f) \/ (i = runqtail[p] /\ f = gp[p])
    OBVIOUS
  <2>1. rpc'[p] # "stolen" /\ rpc[p] # "stolen" BY <1>0 DEF RunqType
  <2>2. Ringed(p, i, f)' <=>
           \/ Ringed(p, i, f) /\ (p = p => 0 <= Gap(runqhead[p], i))
           \/ /\ p = p /\ i \in Index /\ runq'[p][Slot(i)] = f
              /\ Filled(p) <= Gap(runqhead[p], i) /\ Gap(runqhead[p], i) < Filled(p) + 1
    BY <1>0, <1>1, <2>1, RingsMove
  <2>3. CASE i \notin Index BY <1>a, <2>2, <2>3 DEF Ringed
  <2>4. CASE i \in Index
    <3>1. Gap(runqhead[p], i) \in Nat BY <1>a, <2>4, GapLaw
    <3>2. Gap(runqhead[p], i) = Filled(p) <=> i = runqtail[p] BY <1>a, <2>4, Met
    <3> QED BY <1>0, <1>a, <2>2, <2>4, <3>1, <3>2
  <2> QED BY <2>3, <2>4
<1>5. Fits(p)'
  <2>0. rpc'[p] # "stolen" BY <1>0 DEF RunqType
  <2>1. Hold(p)' = Filled(p)' BY <1>2, <1>a, <2>0 DEF Hold
  <2>2. \A i \in Index : Gap(runqhead'[p], i) < Hold(p)' => runq'[p][Slot(i)] \in Gs
    <3> SUFFICES ASSUME NEW i \in Index, Gap(runqhead'[p], i) < Hold(p)' PROVE runq'[p][Slot(i)] \in Gs
      OBVIOUS
    <3>0. PICK f : f = runq'[p][Slot(i)] OBVIOUS
    <3>1. Ringed(p, i, f)' BY <3>0 DEF Ringed
    <3>2. Ringed(p, i, f) \/ f = gp[p] BY <1>4, <3>1
    <3> QED BY <1>0, <3>0, <3>2 DEF Ringed, Fits
  <2>3. Len(batch[p]) \in Nat BY <1>0 DEF RunqType
  <2> QED BY <1>0, <1>a, <1>2, <2>1, <2>2, <2>3, RingSizes DEF Fits, RunqType, Putting, Thieving
<1>6. Steals(p)' BY <1>0 DEF Steals, RunqType, Thieving
<1>7. \A f \in Gs : OnePlace(f)'
  <2>0. PICK g \in Gs : g = gp[p] BY <1>0
  <2>a. PICK a : a = runqtail[p] OBVIOUS
  <2>1. Lies("gp", p, 0, g) BY <2>0 DEF Lies
  <2>2. ASSUME NEW f \in Gs, NEW x, NEW y, NEW z
        PROVE  Lies(x, y, z, f)' <=>
                 \/ f = g /\ x = "ring" /\ y = p /\ z = a
                 \/ Lies(x, y, z, f) /\ ~(f = g /\ x = "gp" /\ y = p /\ z = 0)
    <3>1. \A r \in Ps \ {p} : Ringed(r, z, f)' <=> Ringed(r, z, f)
      <4> SUFFICES ASSUME NEW r \in Ps \ {p} PROVE Ringed(r, z, f)' <=> Ringed(r, z, f) OBVIOUS
      <4> QED BY <1>0, <1>1, RingsMove DEF RunqInv
    <3> QED BY <1>0, <1>4, <2>0, <2>a, <3>1, RunqAssumption DEF Lies, RunqType
  <2>3. Goes(g, "gp", p, 0, "ring", p, a) BY <2>2 DEF Goes
  <2> QED BY <2>1, <2>3, OneMoves DEF RunqInv
<1> QED BY <1>0, <1>1, <1>3, <1>5, <1>6, <1>7, OthersKept DEF RunqInv

-----------------------------------------------------------------------------
(* runqget, runqdrain *)
LEMMA GetNextKeeps ==
  ASSUME RunqInv, NEW p \in Ps, GetNext(p), Aside
  PROVE  RunqInv'
<1>0. /\ RunqType /\ Fits(p) /\ Steals(p) /\ runnext[p] \in Gs
      /\ rpc[p] = "idle" /\ rpc' = [rpc EXCEPT ![p] = "idle"]
      /\ runnext' = [runnext EXCEPT ![p] = NoG] /\ out' = out \cup {runnext[p]}
      /\ UNCHANGED << runqhead, runqtail, runq, globq, schedLock, gp, batch, victim, h, n, nx >>
  BY DEF RunqInv, GetNext, RGoto, thief, RunqType
<1>1. RunqType' BY <1>0, AsideType DEF RunqType, RPCs
<1>2. Moves(p, p, 0, 0)
  <2>1. Alone(p) BY <1>0 DEF Alone, RunqType
  <2> QED BY <1>0, <2>1, Quiet
<1>3. Fits(p)'
  <2>1. Filled(p)' = Filled(p) /\ Hold(p)' = Hold(p) BY <1>0 DEF Filled, Hold, RunqType
  <2> QED BY <1>0, <2>1 DEF Fits, RunqType, Putting, Thieving
<1>4. Steals(p)' BY <1>0 DEF Steals, RunqType, Thieving
<1>5. \A f \in Gs : OnePlace(f)'
  <2>0. PICK g \in Gs : g = runnext[p] BY <1>0
  <2>1. Lies("next", p, 0, g) BY <2>0 DEF Lies
  <2>2. ASSUME NEW f \in Gs, NEW x, NEW y, NEW z
        PROVE  Lies(x, y, z, f)' <=>
                 \/ f = g /\ x = "out" /\ y = NoP /\ z = 0
                 \/ Lies(x, y, z, f) /\ ~(f = g /\ x = "next" /\ y = p /\ z = 0)
    <3>1. \A r \in Ps : Ringed(r, z, f)' <=> Ringed(r, z, f)
      BY <1>0, <1>2, RingsStay DEF RunqInv, RunqType
    <3> QED BY <1>0, <2>0, <3>1, RunqAssumption DEF Lies, RunqType
  <2>3. Goes(g, "next", p, 0, "out", NoP, 0) BY <2>2 DEF Goes
  <2> QED BY <2>1, <2>3, OneMoves DEF RunqInv
<1> QED BY <1>0, <1>1, <1>2, <1>3, <1>4, <1>5, OthersKept DEF RunqInv

LEMMA DrainNextKeeps ==
  ASSUME RunqInv, NEW p \in Ps, DrainNext(p), Aside
  PROVE  RunqInv'
<1>0. /\ RunqType /\ Fits(p) /\ Steals(p)
      /\ rpc[p] = "idle" /\ rpc' = [rpc EXCEPT ![p] = "drain"]
      /\ runnext' = [runnext EXCEPT ![p] = NoG]
      /\ batch' = [batch EXCEPT ![p] = IF runnext[p] = NoG THEN << >> ELSE << runnext[p] >>]
      /\ UNCHANGED << runqhead, runqtail, runq, globq, schedLock, out, gp, victim, h, n, nx >>
  BY DEF RunqInv, DrainNext, RGoto, thief
<1>a. schedLock # p /\ batch[p] = << >> BY <1>0 DEF Fits, Putting
<1>b. /\ runnext[p] = NoG => batch'[p] = << >>
      /\ runnext[p] # NoG => batch'[p] = << runnext[p] >> /\ runnext[p] \in Gs
      /\ batch'[p] \in Seq(Gs)
  BY <1>0 DEF RunqType
<1>1. RunqType'
  <2>1. batch' \in [Ps -> Seq(Gs)] BY <1>0, <1>b DEF RunqType
  <2> QED BY <1>0, <2>1, AsideType DEF RunqType, RPCs
<1>2. Moves(p, p, 0, 0)
  <2>1. Alone(p) BY <1>0 DEF Alone, RunqType
  <2> QED BY <1>0, <2>1, Quiet
<1>3. Fits(p)'
  <2>1. Filled(p)' = Filled(p) /\ Hold(p)' = Hold(p) BY <1>0 DEF Filled, Hold, RunqType
  <2> QED BY <1>0, <1>a, <2>1 DEF Fits, RunqType, Putting, Thieving
<1>4. Steals(p)' BY <1>0 DEF Steals, RunqType, Thieving
<1>5. ASSUME NEW f \in Gs PROVE \A r \in Ps : \A z : Ringed(r, z, f)' <=> Ringed(r, z, f)
  BY <1>0, <1>2, RingsStay DEF RunqInv, RunqType
<1>6. \A f \in Gs : OnePlace(f)'
  <2>1. CASE runnext[p] = NoG
    <3>1. batch' = batch /\ runnext' = runnext BY <1>0, <1>a, <2>1 DEF RunqType
    <3>2. ASSUME NEW f \in Gs, NEW x, NEW y, NEW z PROVE Lies(x, y, z, f)' <=> Lies(x, y, z, f)
      BY <1>0, <1>5, <3>1 DEF Lies
    <3> QED BY <3>2, Stays DEF RunqInv
  <2>2. CASE runnext[p] # NoG
    <3>b. PICK g \in Gs : g = runnext[p] BY <1>b, <2>2
    <3>1. Lies("next", p, 0, g) BY <3>b DEF Lies
    <3>c. DOMAIN batch'[p] = {1} /\ batch'[p][1] = runnext[p] /\ DOMAIN batch[p] = {}
      BY <1>a, <1>b, <2>2
    <3>d. \A r \in Ps \ {p} : batch'[r] = batch[r] BY <1>0 DEF RunqType
    <3>2. ASSUME NEW f \in Gs, NEW x, NEW y, NEW z
          PROVE  Lies(x, y, z, f)' <=>
                   \/ f = g /\ x = "batch" /\ y = p /\ z = 1
                   \/ Lies(x, y, z, f) /\ ~(f = g /\ x = "next" /\ y = p /\ z = 0)
      BY <1>0, <1>5, <3>b, <3>c, <3>d, RunqAssumption DEF Lies, RunqType
    <3>3. Goes(g, "next", p, 0, "batch", p, 1) BY <3>2 DEF Goes
    <3> QED BY <3>1, <3>3, OneMoves DEF RunqInv
  <2> QED BY <2>1, <2>2
<1> QED BY <1>0, <1>1, <1>2, <1>3, <1>4, <1>6, OthersKept DEF RunqInv

(* P p takes the m oldest goroutines out of the ring of w. *)
LEMMA Withdraws ==
  ASSUME RunqType, NEW p \in Ps, NEW w \in Ps, Fits(w), NEW m \in Nat, m <= Filled(w), Alone(p),
         runqhead' = [runqhead EXCEPT ![w] = Nxt(@, m)], UNCHANGED << runqtail, runq >>
  PROVE  Moves(p, w, m, 0)
<1>1. \A q \in Ps : runqhead[q] \in Index /\ runqtail[q] \in Index /\ h[q] \in Index
  BY DEF RunqType
<1>2. shead \in Index /\ stail \in Index BY DEF RunqType, WatchType
<1>3. \A a \in Index : Gap(a, runqtail[w]) + 0 < Wrap
  <2> SUFFICES ASSUME NEW a \in Index PROVE Gap(a, runqtail[w]) + 0 < Wrap OBVIOUS
  <2>1. Gap(a, runqtail[w]) \in Index BY <1>1, GapLaw
  <2> QED BY <2>1, RingSizes DEF Index
<1>4. Filled(w) \in Nat BY <1>1, GapLaw, FilledGap
<1>5. runqtail' = [runqtail EXCEPT ![w] = Nxt(@, 0)] BY <1>1, Unmoved DEF RunqType
<1>6. Filled(w) - m + 0 <= RingLen BY <1>4, RingSizes DEF Fits
<1>7. /\ \A q \in Ps : rpc[q] \in {"copy", "cas"} /\ victim[q] = w => Gap(h[q], runqtail[w]) + 0 < Wrap
      /\ target = w /\ spc = "tail" => Gap(shead, runqtail[w]) + 0 < Wrap
      /\ target = w /\ spc \in {"next", "recheck"} => Gap(stail, runqtail[w]) + 0 < Wrap
  BY <1>1, <1>2, <1>3
<1>8. 0 \in Nat /\ ~(0 > 0) OBVIOUS
<1> QED BY <1>5, <1>6, <1>7, <1>8 DEF Moves

LEMMA GetRingKeeps ==
  ASSUME RunqInv, NEW p \in Ps, GetRing(p), Aside
  PROVE  RunqInv'
<1>0. /\ RunqType /\ Fits(p) /\ Steals(p) /\ Filled(p) # 0
      /\ rpc[p] = "idle" /\ rpc' = [rpc EXCEPT ![p] = "idle"]
      /\ runqhead' = [runqhead EXCEPT ![p] = Nxt(@, 1)]
      /\ out' = out \cup {runq[p][Slot(runqhead[p])]}
      /\ UNCHANGED << runqtail, runq, runnext, globq, schedLock, gp, batch, victim, h, n, nx >>
  BY DEF RunqInv, GetRing, RGoto, thief, Nxt, Slot
<1>a. PICK a \in Index : a = runqhead[p] BY <1>0 DEF RunqType
<1>b. Filled(p) \in Nat /\ Filled(p) >= 1 /\ Gap(a, a) = 0
  <2>1. runqtail[p] \in Index BY <1>0 DEF RunqType
  <2>2. Filled(p) = Gap(a, runqtail[p]) BY <1>a, FilledGap
  <2>3. Filled(p) \in Nat BY <2>1, <2>2, GapLaw
  <2> QED BY <1>0, <2>3, Met
<1>c. PICK g \in Gs : g = runq[p][Slot(a)]
  <2>1. Hold(p) = Filled(p) BY <1>0, <1>b DEF Hold
  <2> QED BY <1>0, <1>a, <1>b, <2>1 DEF Fits
<1>1. Moves(p, p, 1, 0)
  <2>1. Alone(p) BY <1>0 DEF Alone, RunqType
  <2>2. 1 \in Nat /\ 1 <= Filled(p) BY <1>b
  <2> QED BY <1>0, <2>1, <2>2, Withdraws
<1>2. Filled(p)' = Filled(p) - 1 BY <1>0, <1>1, <1>b, MovedRings
<1>3. RunqType'
  <2>1. 1 \in 0 .. Wrap - 1 BY RingSizes
  <2>2. Nxt(a, 1) \in Index BY <2>1, NxtLaw
  <2> QED BY <1>0, <1>a, <1>c, <2>2, AsideType DEF RunqType, RPCs
<1>4. ASSUME NEW r \in Ps, NEW z, NEW f
      PROVE  Ringed(r, z, f)' <=> Ringed(r, z, f) /\ ~(r = p /\ z = a)
  <2>1. rpc[p] # "stolen" /\ rpc'[p] # "stolen" BY <1>0 DEF RunqType
  <2>2. Ringed(r, z, f)' <=>
           \/ Ringed(r, z, f) /\ (r = p => 1 <= Gap(runqhead[r], z))
           \/ /\ r = p /\ z \in Index /\ runq'[r][Slot(z)] = f
              /\ Filled(r) <= Gap(runqhead[r], z) /\ Gap(runqhead[r], z) < Filled(r) + 0
    BY <1>0, <1>1, <2>1, RingsMove DEF RunqInv
  <2>3. Filled(r) \in Nat BY <1>0, <1>1, MovedRings
  <2>4. ASSUME z \in Index, r = p PROVE Gap(runqhead[r], z) \in Nat /\ (Gap(runqhead[r], z) = 0 <=> z = a)
    BY <1>a, <2>4, GapLaw, Met
  <2> QED BY <2>2, <2>3, <2>4 DEF Ringed
<1>5. Fits(p)'
  <2>1. Hold(p)' = Filled(p)' BY <1>0, <1>2, <1>b DEF Hold, RunqType
  <2>2. \A i \in Index : Gap(runqhead'[p], i) < Hold(p)' => runq'[p][Slot(i)] \in Gs
    <3> SUFFICES ASSUME NEW i \in Index, Gap(runqhead'[p], i) < Hold(p)' PROVE runq'[p][Slot(i)] \in Gs
      OBVIOUS
    <3>0. PICK f : f = runq'[p][Slot(i)] OBVIOUS
    <3>1. Ringed(p, i, f)' BY <3>0 DEF Ringed
    <3>2. Ringed(p, i, f) BY <1>4, <3>1
    <3> QED BY <1>0, <3>0, <3>2 DEF Ringed, Fits
  <2> QED BY <1>0, <1>b, <1>2, <2>1, <2>2, RingSizes DEF Fits, RunqType, Putting, Thieving
<1>6. Steals(p)' BY <1>0 DEF Steals, RunqType, Thieving
<1>7. \A f \in Gs : OnePlace(f)'
  <2>1. Lies("ring", p, a, g) /\ \A f : Ringed(p, a, f) => f = g
    <3>1. Hold(p) = Filled(p) BY <1>0, <1>b DEF Hold
    <3> QED BY <1>a, <1>b, <1>c, <3>1 DEF Lies, Ringed
  <2>2. ASSUME NEW f \in Gs, NEW x, NEW y, NEW z
        PROVE  Lies(x, y, z, f)' <=>
                 \/ f = g /\ x = "out" /\ y = NoP /\ z = 0
                 \/ Lies(x, y, z, f) /\ ~(f = g /\ x = "ring" /\ y = p /\ z = a)
    BY <1>0, <1>a, <1>c, <1>4, <2>1 DEF Lies
  <2>3. Goes(g, "ring", p, a, "out", NoP, 0) BY <2>2 DEF Goes
  <2> QED BY <2>1, <2>3, OneMoves DEF RunqInv
<1> QED BY <1>0, <1>1, <1>3, <1>5, <1>6, <1>7, OthersKept DEF RunqInv

-----------------------------------------------------------------------------
(* runqsteal *)
LEMMA GrabNextKeeps ==
  ASSUME RunqInv, NEW p \in Ps, GrabNext(p), Aside
  PROVE  RunqInv'
<1>0. /\ RunqType /\ Fits(p) /\ Steals(p) /\ rpc[p] = "casNext" /\ nx[p] \in Gs
      /\ UNCHANGED << runqhead, runqtail, runq, globq, schedLock, gp, batch >>
  BY DEF RunqInv, GrabNext, RGoto, Steals, RunqType
<1>b. PICK v \in Ps : v = victim[p] /\ v # p BY <1>0 DEF Steals, Thieving
<1>1. CASE runnext[v] # nx[p]
  <2>0. /\ rpc' = [rpc EXCEPT ![p] = "grab"] /\ nx' = [nx EXCEPT ![p] = NoG]
        /\ UNCHANGED << runnext, out, victim, h, n >>
    BY <1>b, <1>1 DEF GrabNext, RGoto
  <2>1. RunqType' BY <1>0, <2>0, AsideType DEF RunqType, RPCs
  <2>2. Steals(p)' BY <1>0, <1>b, <2>0 DEF Steals, RunqType, Thieving
  <2> QED BY <1>0, <2>0, <2>1, <2>2, ThiefLooks DEF Looking, Thieving, queues, RunqType
<1>2. CASE runnext[v] = nx[p]
  <2>0. /\ LeaveGrab(p) /\ rpc' = [rpc EXCEPT ![p] = "idle"]
        /\ runnext' = [runnext EXCEPT ![v] = NoG] /\ out' = out \cup {nx[p]}
    BY <1>b, <1>2 DEF GrabNext, RGoto
  <2>a. PICK g \in Gs : g = nx[p] BY <1>0
  <2>1. RunqType' BY <1>0, <2>0, LeaveType, AsideType DEF RunqType, RPCs
  <2>2. Moves(p, p, 0, 0)
    <3>1. Alone(p) BY <1>0, <2>0, LeaveType DEF Alone, RunqType
    <3> QED BY <1>0, <3>1, Quiet
  <2>3. Fits(p)'
    <3>1. Filled(p)' = Filled(p) /\ Hold(p)' = Hold(p)
      BY <1>0, <2>0 DEF Filled, Hold, RunqType
    <3> QED BY <1>0, <2>0, <3>1 DEF Fits, RunqType, Putting, Thieving
  <2>4. Steals(p)' BY <1>0, <2>0 DEF Steals, RunqType, Thieving
  <2>5. \A f \in Gs : OnePlace(f)'
    <3>1. Lies("next", v, 0, g) BY <1>2, <2>a DEF Lies
    <3>2. ASSUME NEW f \in Gs, NEW x, NEW y, NEW z
          PROVE  Lies(x, y, z, f)' <=>
                   \/ f = g /\ x = "out" /\ y = NoP /\ z = 0
                   \/ Lies(x, y, z, f) /\ ~(f = g /\ x = "next" /\ y = v /\ z = 0)
      <4>0. rpc[p] # "stolen" /\ rpc'[p] # "stolen" BY <1>0, <2>0 DEF RunqType
      <4>1. \A r \in Ps : Ringed(r, z, f)' <=> Ringed(r, z, f)
        BY <1>0, <2>2, <4>0, RingsStay DEF RunqInv
      <4> QED BY <1>0, <1>2, <2>0, <2>a, <4>1, RunqAssumption DEF Lies, RunqType
    <3>3. Goes(g, "next", v, 0, "out", NoP, 0) BY <3>2 DEF Goes
    <3> QED BY <3>1, <3>3, OneMoves DEF RunqInv
  <2> QED BY <1>0, <2>1, <2>2, <2>3, <2>4, <2>5, OthersKept DEF RunqInv
<1> QED BY <1>1, <1>2

(* What was stolen is in the ring; one of it is run (6963-6977). *)
LEMMA StealPublishKeeps ==
  ASSUME RunqInv, NEW p \in Ps, StealPublish(p), Aside
  PROVE  RunqInv'
<1>a. PICK k \in Nat : k = n[p] - 1 /\ k < RingLen \div 2 /\ n[p] = k + 1
  <2>1. n[p] \in 1 .. RingLen \div 2 BY DEF RunqInv, Steals, StealPublish, RGoto
  <2>2. n[p] - 1 \in Nat /\ n[p] - 1 < RingLen \div 2 BY <2>1, Halves
  <2> QED BY <2>1, <2>2, Halves
<1>b. k < RingLen /\ k \in 0 .. Wrap - 1 BY <1>a, Halves, RingSizes
<1>c. PICK a \in Index : a = runqtail[p] BY DEF RunqInv, RunqType
<1>d. PICK e \in Index : e = Nxt(a, k) /\ Gap(a, e) = k BY <1>b, NxtLaw
<1>e. Filled(p) = 0 /\ runqhead[p] = a
  <2>1. Filled(p) = 0 BY DEF RunqInv, Fits, StealPublish, RGoto, Thieving
  <2> QED BY <1>c, <2>1, FilledGap, Met DEF RunqInv, RunqType
<1>f. (a + n[p] - 1) % RingLen = Slot(e)
  <2>1. a + n[p] - 1 = a + k BY <1>a DEF Index
  <2> QED BY <1>b, <1>d, <2>1, SlotNxt
<1>0. /\ RunqType /\ Fits(p) /\ Steals(p) /\ LeaveGrab(p) /\ Advance(p, k)
      /\ rpc[p] = "stolen" /\ rpc' = [rpc EXCEPT ![p] = "idle"]
      /\ out' = out \cup {runq[p][Slot(e)]}
      /\ UNCHANGED << runqhead, runq, runnext, globq, schedLock, gp, batch >>
  <2>1. ~(n[p] > 1 /\ Filled(p) + n[p] - 1 >= RingLen) BY <1>a, <1>b, <1>e, RingSizes
  <2> QED BY <1>a, <1>c, <1>f, <2>1 DEF RunqInv, StealPublish, RGoto
<1>h. Hold(p) = k + 1
  BY <1>0, <1>a, <1>e DEF Hold
<1>i. PICK g \in Gs : g = runq[p][Slot(e)]
  <2>1. Gap(runqhead[p], e) < Hold(p) BY <1>d, <1>e, <1>h
  <2> QED BY <1>0, <2>1 DEF Fits
<1>1. Moves(p, p, 0, k)
  <2>1. Alone(p) BY <1>0, LeaveType DEF Alone, RunqType
  <2>2. Filled(p) + k <= RingLen BY <1>b, <1>e, RingSizes
  <2> QED BY <1>0, <2>1, <2>2, Advances
<1>2. Filled(p)' = k
  <2>1. Filled(p)' = Filled(p) - 0 + k BY <1>0, <1>1, MovedRings
  <2> QED BY <1>e, <2>1
<1>3. RunqType'
  <2>1. runqtail' = [runqtail EXCEPT ![p] = e] BY <1>1, <1>c, <1>d DEF Moves, RunqType
  <2> QED BY <1>0, <1>i, <2>1, LeaveType, AsideType DEF RunqType, RPCs
<1>4. Hold(p)' = k BY <1>0, <1>2 DEF Hold, RunqType
<1>5. ASSUME NEW r \in Ps, NEW z, NEW f
      PROVE  Ringed(r, z, f)' <=> Ringed(r, z, f) /\ ~(r = p /\ z = e)
  <2>1. CASE r # p
    <3>1. Ringed(r, z, f)' <=>
           \/ Ringed(r, z, f) /\ (r = p => 0 <= Gap(runqhead[r], z))
           \/ /\ r = p /\ z \in Index /\ runq'[r][Slot(z)] = f
              /\ Filled(r) <= Gap(runqhead[r], z) /\ Gap(runqhead[r], z) < Filled(r) + k
      BY <1>0, <1>1, <2>1, RingsMove DEF RunqInv
    <3> QED BY <2>1, <3>1
  <2>2. CASE r = p
    <3>1. ASSUME z \in Index PROVE Gap(a, z) \in Nat /\ (Gap(a, z) = k <=> z = e)
      <4>1. Gap(a, z) \in Nat BY <3>1, GapLaw
      <4>2. Nxt(a, Gap(a, z)) = z BY <3>1, Met
      <4> QED BY <1>d, <4>1, <4>2
    <3> QED BY <1>0, <1>4, <1>e, <1>h, <2>2, <3>1 DEF Ringed
  <2> QED BY <2>1, <2>2
<1>6. Fits(p)'
  <2>2. \A i \in Index : Gap(runqhead'[p], i) < Hold(p)' => runq'[p][Slot(i)] \in Gs
    <3> SUFFICES ASSUME NEW i \in Index, Gap(runqhead'[p], i) < Hold(p)' PROVE runq'[p][Slot(i)] \in Gs
      OBVIOUS
    <3>0. PICK f : f = runq'[p][Slot(i)] OBVIOUS
    <3>1. Ringed(p, i, f)' BY <3>0 DEF Ringed
    <3>2. Ringed(p, i, f) BY <1>5, <3>1
    <3> QED BY <1>0, <3>0, <3>2 DEF Ringed, Fits
  <2> QED BY <1>0, <1>b, <1>2, <2>2, RingSizes DEF Fits, RunqType, Putting, Thieving
<1>7. Steals(p)' BY <1>0 DEF Steals, RunqType, Thieving
<1>8. \A f \in Gs : OnePlace(f)'
  <2>1. Lies("ring", p, e, g) /\ \A f : Ringed(p, e, f) => f = g
    BY <1>d, <1>e, <1>h, <1>i DEF Lies, Ringed
  <2>2. ASSUME NEW f \in Gs, NEW x, NEW y, NEW z
        PROVE  Lies(x, y, z, f)' <=>
                 \/ f = g /\ x = "out" /\ y = NoP /\ z = 0
                 \/ Lies(x, y, z, f) /\ ~(f = g /\ x = "ring" /\ y = p /\ z = e)
    BY <1>0, <1>i, <1>5, <2>1 DEF Lies
  <2>3. Goes(g, "ring", p, e, "out", NoP, 0) BY <2>2 DEF Goes
  <2> QED BY <2>1, <2>3, OneMoves DEF RunqInv
<1> QED BY <1>0, <1>1, <1>3, <1>6, <1>7, <1>8, OthersKept DEF RunqInv

(* The goroutines change rings: the head has not moved since it was read, so *)
(* the copies are of what was there (6951-6954).                              *)
LEMMA GrabCasKeeps ==
  ASSUME RunqInv, NEW p \in Ps, GrabCas(p), Aside
  PROVE  RunqInv'
<1>0. /\ RunqType /\ Fits(p) /\ Steals(p) /\ rpc[p] = "cas" /\ n[p] \in 1 .. RingLen \div 2
      /\ UNCHANGED << runqtail, runq, runnext, globq, out, schedLock, gp, batch, victim, h, n, nx >>
  BY DEF RunqInv, GrabCas, RGoto, Steals, thief
<1>b. PICK v \in Ps : v = victim[p] /\ v # p BY <1>0 DEF Steals, Thieving
<1>1. CASE runqhead[v] # h[p]
  <2>0. rpc' = [rpc EXCEPT ![p] = "grab"] /\ runqhead' = runqhead
    BY <1>0, <1>b, <1>1 DEF GrabCas, RGoto, RunqType
  <2>1. RunqType' BY <1>0, <2>0, AsideType DEF RunqType, RPCs
  <2>2. Steals(p)' BY <1>0, <1>b, <2>0 DEF Steals, RunqType, Thieving
  <2> QED BY <1>0, <2>0, <2>1, <2>2, ThiefLooks DEF Looking, Thieving, queues, RunqType
<1>2. CASE runqhead[v] = h[p]
  <2>a. PICK a \in Index, b \in Index, k \in Nat :
          /\ a = runqhead[v] /\ b = runqtail[p] /\ k = n[p]
    BY <1>0 DEF RunqType
  <2>0. /\ rpc' = [rpc EXCEPT ![p] = "stolen"]
        /\ runqhead' = [runqhead EXCEPT ![v] = Nxt(@, k)]
    BY <1>0, <1>b, <1>2, <2>a DEF GrabCas, RGoto, RunqType, Nxt
  <2>b. Copied(p) /\ k <= Filled(v) /\ k > 0 /\ 2 * k <= RingLen
    <3>1. Copied(p) /\ n[p] <= Filled(v) BY <1>0, <1>b, <1>2 DEF Steals, Copied
    <3>2. n[p] > 0 /\ 2 * n[p] <= RingLen BY <1>0, Halves, RingSizes
    <3> QED BY <2>a, <3>1, <3>2
  <2>c. k \in 0 .. Wrap - 1 BY <2>b, RingSizes
  <2>d. Filled(p) = 0 /\ runqhead[p] = b
    <3>1. Filled(p) = 0 BY <1>0 DEF Fits, Thieving
    <3> QED BY <1>0, <2>a, <3>1, FilledGap, Met DEF RunqType
  <2>1. RunqType'
    <3>1. Nxt(a, k) \in Index BY <2>c, NxtLaw
    <3> QED BY <1>0, <2>0, <2>a, <3>1, AsideType DEF RunqType, RPCs
  <2>2. Moves(p, v, k, 0)
    <3>1. Alone(p) BY <1>0, <2>0 DEF Alone, RunqType
    <3> QED BY <1>0, <2>0, <2>b, <3>1, Withdraws DEF RunqInv
  <2>3. /\ Filled(v) \in Nat /\ Filled(p)' = 0 /\ runqhead'[p] = b
        /\ Hold(p) = 0 /\ Hold(p)' = k /\ Filled(v) <= Hold(v)
    <3>1. Filled(v) \in Nat /\ Filled(p)' = 0 /\ runqhead'[p] = b
      BY <1>0, <1>b, <2>2, <2>d, MovedRings
    <3>2. rpc'[p] = "stolen" /\ n'[p] = k BY <1>0, <2>0, <2>a DEF RunqType
    <3>3. Hold(p) = 0 BY <1>0, <2>d DEF Hold
    <3>4. Hold(p)' = k BY <2>a, <3>1, <3>2 DEF Hold
    <3>5. n[v] \in Nat BY <1>0 DEF RunqType
    <3>6. Filled(v) <= Hold(v) BY <3>1, <3>5 DEF Hold
    <3> QED BY <3>1, <3>3, <3>4, <3>6
  (* What p has now is what it copied. *)
  <2>4. ASSUME NEW z \in Index, Gap(b, z) < k
        PROVE  /\ Gap(b, z) \in Nat /\ Nxt(a, Gap(b, z)) \in Index
               /\ Gap(a, Nxt(a, Gap(b, z))) = Gap(b, z) /\ Nxt(b, Gap(b, z)) = z
               /\ runq[p][Slot(z)] = runq[v][Slot(Nxt(a, Gap(b, z)))]
               /\ \A f : Ringed(v, Nxt(a, Gap(b, z)), f) <=> runq[p][Slot(z)] = f
    <3>1. PICK j \in Nat : j = Gap(b, z) BY GapLaw
    <3>2. j \in 0 .. k - 1 /\ j \in 0 .. Wrap - 1 /\ j < Filled(v) /\ j < Hold(v)
      <4>1. j < k BY <2>4, <3>1
      <4>2. Hold(v) \in Nat BY <1>0, <2>3 DEF Hold, RunqType
      <4>3. j < Filled(v) BY <4>1, <2>b, <2>3
      <4>4. j < Hold(v) BY <4>2, <4>3, <2>3
      <4> QED BY <4>1, <4>3, <4>4, <2>c, RingSizes
    <3>3. Nxt(b, j) = z BY <3>1, Met
    <3>4. Nxt(a, j) \in Index /\ Gap(a, Nxt(a, j)) = j BY <3>2, NxtLaw
    <3>5. runq[p][Slot(Nxt(b, j))] = runq[v][Slot(Nxt(a, j))]
      BY <1>b, <1>2, <2>a, <2>b, <3>2 DEF Copied
    <3>6. \A f : Ringed(v, Nxt(a, j), f) <=> runq[v][Slot(Nxt(a, j))] = f
      BY <2>a, <3>2, <3>4 DEF Ringed
    <3> QED BY <3>1, <3>3, <3>4, <3>5, <3>6
  <2>5. \A z, f : Ringed(p, z, f)' <=>
          z \in Index /\ Gap(b, z) < k /\ Ringed(v, Nxt(a, Gap(b, z)), f)
    BY <1>0, <2>3, <2>4 DEF Ringed
  <2>6. ASSUME NEW r \in Ps \ {p}, NEW z, NEW f
        PROVE  Ringed(r, z, f)' <=> Ringed(r, z, f) /\ (r = v => k <= Gap(a, z))
    <3>1. Ringed(r, z, f)' <=>
           \/ Ringed(r, z, f) /\ (r = v => k <= Gap(runqhead[r], z))
           \/ /\ r = v /\ z \in Index /\ runq'[r][Slot(z)] = f
              /\ Filled(r) <= Gap(runqhead[r], z) /\ Gap(runqhead[r], z) < Filled(r) + 0
      BY <1>0, <2>2, RingsMove DEF RunqInv
    <3>2. z \in Index => Gap(a, z) \in Nat BY GapLaw
    <3> QED BY <2>a, <2>3, <3>1, <3>2
  <2>7. Fits(p)'
    <3>1. \A i \in Index : Gap(runqhead'[p], i) < Hold(p)' => runq'[p][Slot(i)] \in Gs
      <4> SUFFICES ASSUME NEW i \in Index, Gap(runqhead'[p], i) < Hold(p)'
                   PROVE  runq'[p][Slot(i)] \in Gs
        OBVIOUS
      <4>1. Gap(b, i) < k BY <2>3
      <4>2. Gap(b, i) < Filled(v) /\ Gap(b, i) < Hold(v)
        <5>1. Hold(v) \in Nat BY <1>0, <2>3 DEF Hold, RunqType
        <5> QED BY <4>1, <5>1, <2>b, <2>3, <2>4
      <4>3. runq[v][Slot(Nxt(a, Gap(b, i)))] \in Gs BY <2>a, <2>4, <4>1, <4>2 DEF RunqInv, Fits
      <4> QED BY <1>0, <2>4, <4>1, <4>3
    <3> QED BY <1>0, <2>0, <2>3, <3>1, RingSizes DEF Fits, RunqType, Putting, Thieving
  <2>8. Steals(p)' BY <1>0, <1>b, <2>0, <2>a DEF Steals, RunqType, Thieving
  <2>9. ASSUME NEW f \in Gs PROVE OnePlace(f)'
    <3>1. OnePlace(f) BY DEF RunqInv
    <3>2. PICK t, q, i : /\ Lies(t, q, i, f)
                         /\ \A u, r, j : Lies(u, r, j, f) => u = t /\ r = q /\ j = i
      BY <3>1, OnceIs
    <3>3. \A u, r, j : Lies(u, r, j, f)' <=>
            \/ Lies(u, r, j, f) /\ ~(u = "ring" /\ r = p) /\ ~(u = "ring" /\ r = v /\ Gap(a, j) < k)
            \/ u = "ring" /\ r = p /\ j \in Index /\ Gap(b, j) < k
               /\ Lies("ring", v, Nxt(a, Gap(b, j)), f)
      <4> SUFFICES ASSUME NEW u, NEW r, NEW j
                   PROVE  Lies(u, r, j, f)' <=>
                     \/ /\ Lies(u, r, j, f) /\ ~(u = "ring" /\ r = p)
                        /\ ~(u = "ring" /\ r = v /\ Gap(a, j) < k)
                     \/ /\ u = "ring" /\ r = p /\ j \in Index /\ Gap(b, j) < k
                        /\ Lies("ring", v, Nxt(a, Gap(b, j)), f)
        OBVIOUS
      <4>1. CASE u # "ring" BY <1>0, <4>1 DEF Lies
      <4>2. CASE u = "ring" /\ r \notin Ps BY <1>b, <4>2 DEF Lies
      <4>3. CASE u = "ring" /\ r = p BY <1>b, <2>5, <4>3 DEF Lies
      <4>4. CASE u = "ring" /\ r \in Ps \ {p}
        <5>1. j \in Index => Gap(a, j) \in Nat BY GapLaw
        <5>2. Ringed(r, j, f) => j \in Index BY DEF Ringed
        <5> QED BY <2>6, <4>4, <5>1, <5>2 DEF Lies
      <4> QED BY <4>1, <4>2, <4>3, <4>4
    <3>4. \A j : ~Lies("ring", p, j, f)
      <4>1. \A j : ~Ringed(p, j, f) BY <2>3, <2>d, GapLaw DEF Ringed
      <4> QED BY <4>1 DEF Lies
    <3>5. CASE t = "ring" /\ q = v /\ Gap(a, i) < k
      <4>1. i \in Index BY <3>2, <3>5 DEF Lies, Ringed
      <4>2. PICK d \in Nat : d = Gap(a, i) BY <4>1, GapLaw
      <4>3. d \in 0 .. Wrap - 1 /\ d < k BY <2>c, <3>5, <4>2, RingSizes
      <4>4. Nxt(b, d) \in Index /\ Gap(b, Nxt(b, d)) = d /\ Nxt(a, d) = i
        BY <4>1, <4>2, <4>3, NxtLaw, Met
      <4>5. Lies("ring", p, Nxt(b, d), f)' BY <3>2, <3>3, <3>5, <4>3, <4>4
      <4>6. ASSUME NEW u, NEW r, NEW j, Lies(u, r, j, f)'
            PROVE  u = "ring" /\ r = p /\ j = Nxt(b, d)
        <5>1. ~(Lies(u, r, j, f) /\ ~(u = "ring" /\ r = v /\ Gap(a, j) < k)) BY <3>2, <3>5
        <5>2. /\ u = "ring" /\ r = p /\ j \in Index /\ Gap(b, j) < k
              /\ Lies("ring", v, Nxt(a, Gap(b, j)), f)
          BY <3>3, <4>6, <5>1
        <5>3. Nxt(a, Gap(b, j)) = i BY <3>2, <5>2
        <5>4. Gap(b, j) = d BY <2>4, <4>2, <5>2, <5>3
        <5>5. Nxt(b, Gap(b, j)) = j BY <5>2, Met
        <5> QED BY <5>2, <5>4, <5>5
      <4>7. PICK e : e = Nxt(b, d) OBVIOUS
      <4> QED BY <4>5, <4>6, <4>7, Lands
    <3>6. CASE ~(t = "ring" /\ q = v /\ Gap(a, i) < k)
      <4>1. ASSUME NEW j \in Index, Gap(b, j) < k PROVE ~Lies("ring", v, Nxt(a, Gap(b, j)), f)
        BY <2>4, <3>2, <3>6, <4>1
      <4>2. \A u, r, j : Lies(u, r, j, f)' <=> Lies(u, r, j, f) BY <3>2, <3>3, <3>4, <3>6, <4>1
      <4> QED BY <3>1, <4>2, Stays
    <3> QED BY <3>5, <3>6
  <2> QED BY <1>0, <2>1, <2>2, <2>7, <2>8, <2>9, OthersKept DEF RunqInv
<1> QED BY <1>1, <1>2

-----------------------------------------------------------------------------
(* P p takes the m oldest goroutines out of its ring: what stays there, and   *)
(* where the others were.                                                     *)
LEMMA Drawn ==
  ASSUME RunqInv, NEW p \in Ps, NEW m \in Nat, Moves(p, p, m, 0),
         rpc[p] # "stolen", rpc'[p] # "stolen", NEW a \in Index, a = runqhead[p],
         NEW z, NEW f, NEW r \in Ps
  PROVE  Ringed(r, z, f)' <=> Ringed(r, z, f) /\ (r = p => m <= Gap(a, z))
<1>1. RunqType BY DEF RunqInv
<1>2. Ringed(r, z, f)' <=>
         \/ Ringed(r, z, f) /\ (r = p => m <= Gap(runqhead[r], z))
         \/ /\ r = p /\ z \in Index /\ runq'[r][Slot(z)] = f
            /\ Filled(r) <= Gap(runqhead[r], z) /\ Gap(runqhead[r], z) < Filled(r) + 0
  BY <1>1, RingsMove DEF RunqInv
<1>3. Filled(r) \in Nat BY <1>1, MovedRings
<1>4. z \in Index => Gap(runqhead[r], z) \in Nat BY <1>1, GapLaw DEF RunqType
<1> QED BY <1>2, <1>3, <1>4

(* Position z of what is taken out is index a + z - 1. *)
LEMMA Drew ==
  ASSUME RunqInv, NEW p \in Ps, rpc[p] # "stolen", NEW a \in Index, a = runqhead[p],
         NEW m \in 0 .. Filled(p)
  PROVE  \A z \in 1 .. m : \A f : Slots(p, a, m)[z] = f <=> Ringed(p, Nxt(a, z - 1), f)
<1> SUFFICES ASSUME NEW z \in 1 .. m, NEW f
             PROVE  Slots(p, a, m)[z] = f <=> Ringed(p, Nxt(a, z - 1), f)
  OBVIOUS
<1>1. Filled(p) \in Nat /\ Filled(p) < Wrap
  <2>1. Filled(p) \in Index BY FilledGap, GapLaw DEF RunqInv, RunqType
  <2> QED BY <2>1, RingSizes DEF Index
<1>2. PICK j \in 0 .. Wrap - 1 : j = z - 1 /\ j < Filled(p) BY <1>1, RingSizes
<1>3. Slots(p, a, m)[z] = runq[p][(a + z - 1) % RingLen] BY DEF Slots
<1>4. a + z - 1 = a + j BY <1>2 DEF Index
<1>5. (a + j) % RingLen = Slot(Nxt(a, j)) /\ Nxt(a, j) \in Index /\ Gap(a, Nxt(a, j)) = j
  BY SlotNxt, NxtLaw
<1>6. Hold(p) = Filled(p) BY <1>1 DEF Hold
<1> QED BY <1>2, <1>3, <1>4, <1>5, <1>6 DEF Ringed

LEMMA Joined ==
  ASSUME NEW S, NEW b \in Seq(S), NEW c \in Seq(S), NEW l \in Nat, NEW m \in Nat,
         l = Len(b), m = Len(c)
  PROVE  /\ b \o c \in Seq(S) /\ DOMAIN (b \o c) = 1 .. l + m
         /\ DOMAIN b = 1 .. l /\ DOMAIN c = 1 .. m
         /\ \A j \in 1 .. l : (b \o c)[j] = b[j]
         /\ \A j \in 1 .. m : (b \o c)[l + j] = c[j]
  OBVIOUS

LEMMA SlotsSeq ==
  ASSUME RunqInv, NEW p \in Ps, rpc[p] # "stolen", NEW a \in Index, a = runqhead[p],
         NEW m \in Nat, m <= Filled(p)
  PROVE  Slots(p, a, m) \in Seq(Gs) /\ Len(Slots(p, a, m)) = m
<1>1. ASSUME NEW j \in 1 .. m PROVE Slots(p, a, m)[j] \in Gs
  <2>1. PICK f : f = Slots(p, a, m)[j] OBVIOUS
  <2>2. Ringed(p, Nxt(a, j - 1), f) BY <2>1, Drew
  <2> QED BY <2>1, <2>2 DEF Ringed, Fits, RunqInv
<1>2. /\ Slots(p, a, m) = [j \in 1 .. m |-> runq[p][(a + j - 1) % RingLen]]
      /\ \A j \in 1 .. m : runq[p][(a + j - 1) % RingLen] = Slots(p, a, m)[j]
  BY DEF Slots
<1>3. Slots(p, a, m) \in [1 .. m -> Gs] BY <1>1, <1>2
<1> QED BY <1>2, <1>3

(* They go to the batch of p, behind l others. *)
LEMMA Carried ==
  ASSUME RunqInv, NEW p \in Ps, rpc[p] # "stolen", NEW a \in Index, a = runqhead[p],
         NEW k \in Nat, k <= Filled(p), NEW l \in Nat, NEW f \in Gs,
         \A u, r, j : Lies(u, r, j, f)' <=>
           \/ Lies(u, r, j, f) /\ ~(u = "ring" /\ r = p /\ ~(k <= Gap(a, j)))
           \/ u = "batch" /\ r = p /\ j \in l + 1 .. l + k /\ Lies("ring", p, Nxt(a, j - l - 1), f)
  PROVE  OnePlace(f)'
<1>0. Filled(p) \in Nat /\ Filled(p) < Wrap
  <2>1. Filled(p) \in Index BY FilledGap, GapLaw DEF RunqInv, RunqType
  <2> QED BY <2>1, RingSizes DEF Index
<1>1. OnePlace(f) BY DEF RunqInv
<1>2. PICK t, q, i : /\ Lies(t, q, i, f)
                     /\ \A u, r, j : Lies(u, r, j, f) => u = t /\ r = q /\ j = i
  BY <1>1, OnceIs
<1>3. ASSUME NEW j \in l + 1 .. l + k
      PROVE  /\ j - l - 1 \in 0 .. Wrap - 1 /\ ~(k <= j - l - 1)
             /\ Gap(a, Nxt(a, j - l - 1)) = j - l - 1
  <2>1. j - l - 1 \in 0 .. Wrap - 1 /\ ~(k <= j - l - 1) BY <1>0, RingSizes
  <2> QED BY <2>1, NxtLaw
<1>4. CASE t = "ring" /\ q = p /\ ~(k <= Gap(a, i))
  <2>1. i \in Index BY <1>2, <1>4 DEF Lies, Ringed
  <2>2. PICK d \in Nat : d = Gap(a, i) BY <2>1, GapLaw
  <2>3. PICK e : e = l + d + 1 OBVIOUS
  <2>4. e \in l + 1 .. l + k /\ e - l - 1 = d BY <1>4, <2>2, <2>3
  <2>5. Nxt(a, e - l - 1) = i BY <2>1, <2>2, <2>4, Met
  <2>6. Lies("batch", p, e, f)' BY <1>2, <1>4, <2>4, <2>5
  <2>7. ASSUME NEW u, NEW r, NEW j, Lies(u, r, j, f)' PROVE u = "batch" /\ r = p /\ j = e
    <3>1. ~(Lies(u, r, j, f) /\ ~(u = "ring" /\ r = p /\ ~(k <= Gap(a, j)))) BY <1>2, <1>4
    <3>2. /\ u = "batch" /\ r = p /\ j \in l + 1 .. l + k
          /\ Lies("ring", p, Nxt(a, j - l - 1), f)
      BY <2>7, <3>1
    <3>3. Nxt(a, j - l - 1) = i BY <1>2, <3>2
    <3>4. j - l - 1 = d BY <1>3, <2>2, <3>2, <3>3
    <3> QED BY <2>3, <3>2, <3>4
  <2> QED BY <2>6, <2>7, Lands
<1>5. CASE ~(t = "ring" /\ q = p /\ ~(k <= Gap(a, i)))
  <2>1. ASSUME NEW j \in l + 1 .. l + k PROVE ~Lies("ring", p, Nxt(a, j - l - 1), f)
    BY <1>2, <1>3, <1>5
  <2>2. \A u, r, j :
          ~(u = "batch" /\ r = p /\ j \in l + 1 .. l + k /\ Lies("ring", p, Nxt(a, j - l - 1), f))
    BY <2>1
  <2>3. \A u, r, j : Lies(u, r, j, f)' <=>
          Lies(u, r, j, f) /\ ~(u = "ring" /\ r = p /\ ~(k <= Gap(a, j)))
    BY <2>2
  <2>4. \A u, r, j : Lies(u, r, j, f) => ~(u = "ring" /\ r = p /\ ~(k <= Gap(a, j)))
    BY <1>2, <1>5
  <2>5. \A u, r, j : Lies(u, r, j, f)' <=> Lies(u, r, j, f) BY <2>3, <2>4
  <2> QED BY <1>1, <2>5, Stays
<1> QED BY <1>4, <1>5

(* Half of a full ring is on its way to the global queue (6762-6792). *)
LEMMA PutSlowKeeps ==
  ASSUME RunqInv, NEW p \in Ps, PutSlow(p), Aside
  PROVE  RunqInv'
<1>a. PICK k \in Nat : k = RingLen \div 2 /\ k > 0 /\ 2 * k = RingLen BY Halves
<1>b. PICK a \in Index : a = runqhead[p] BY DEF RunqInv, RunqType
<1>c. PICK g \in Gs : g = gp[p]
  BY DEF RunqInv, RunqType, Fits, PutSlow, RGoto, Putting
<1>d. Filled(p) = RingLen /\ schedLock # p /\ batch[p] = << >>
  <2>1. /\ Filled(p) \in Nat /\ Len(batch[p]) \in Nat /\ batch[p] \in Seq(Gs)
        /\ Filled(p) <= RingLen /\ Filled(p) >= RingLen /\ rpc[p] = "put"
    BY FilledGap, GapLaw DEF RunqInv, RunqType, Fits, PutSlow, RGoto
  <2>2. Filled(p) = RingLen BY <2>1, RingSizes
  <2>3. schedLock # p BY <2>1, <2>2, RingSizes DEF RunqInv, Fits, Putting
  <2>4. batch[p] = << >> BY <2>1, <2>3 DEF RunqInv, Fits
  <2> QED BY <2>2, <2>3, <2>4
<1>0. /\ RunqType /\ Fits(p) /\ Steals(p)
      /\ rpc[p] = "put" /\ rpc' = [rpc EXCEPT ![p] = "global"]
      /\ runqhead' = [runqhead EXCEPT ![p] = Nxt(@, k)]
      /\ batch' = [batch EXCEPT ![p] = Slots(p, a, k) \o << g >> \o << >>]
      /\ gp' = [gp EXCEPT ![p] = NoG]
      /\ UNCHANGED << runqtail, runq, runnext, globq, schedLock, out, victim, h, n, nx >>
  BY <1>a, <1>b, <1>c, <1>d DEF RunqInv, RunqType, PutSlow, RGoto, thief, Nxt
<1>1. Moves(p, p, k, 0)
  <2>1. Alone(p) BY <1>0 DEF Alone, RunqType
  <2>2. k <= Filled(p) BY <1>a, <1>d
  <2> QED BY <1>0, <2>1, <2>2, Withdraws
<1>r. ASSUME NEW z, NEW f
      PROVE  /\ \A r \in Ps : Ringed(r, z, f)' <=> Ringed(r, z, f) /\ (r = p => k <= Gap(a, z))
             /\ z \in 1 .. k => (Slots(p, a, k)[z] = f <=> Ringed(p, Nxt(a, z - 1), f))
  <2>1. rpc[p] # "stolen" /\ rpc'[p] # "stolen" /\ k <= Filled(p) BY <1>0, <1>a, <1>d DEF RunqType
  <2>2. \A r \in Ps : Ringed(r, z, f)' <=> Ringed(r, z, f) /\ (r = p => k <= Gap(a, z))
    BY <1>1, <1>b, <2>1, Drawn
  <2>3. ASSUME z \in 1 .. k PROVE Slots(p, a, k)[z] = f <=> Ringed(p, Nxt(a, z - 1), f)
    <3>1. rpc[p] # "stolen" /\ a = runqhead[p] /\ k <= Filled(p) BY <1>b, <2>1
    <3>2. z \in 1 .. k BY <2>3
    <3> QED BY <3>1, <3>2, Drew
  <2> QED BY <2>2, <2>3
<1>2. Filled(p)' = k /\ Hold(p) = RingLen /\ Hold(p)' = k
  <2>1. Filled(p)' = Filled(p) - k + 0 BY <1>0, <1>1, MovedRings
  <2> QED BY <1>0, <1>a, <1>d, <2>1, RingSizes DEF Hold, RunqType
<1>3. /\ batch'[p] \in Seq(Gs) /\ DOMAIN batch'[p] = 1 .. k + 1
      /\ batch'[p][k + 1] = g
      /\ \A j \in 1 .. k : batch'[p][j] = Slots(p, a, k)[j]
  <2>1. rpc[p] # "stolen" /\ k <= Filled(p) BY <1>0, <1>a, <1>d
  <2>2. Slots(p, a, k) \in Seq(Gs) /\ Len(Slots(p, a, k)) = k BY <1>b, <2>1, SlotsSeq
  <2>3. PICK s \in Seq(Gs) : s = Slots(p, a, k) BY <2>2
  <2>4. /\ s \o << g >> \o << >> \in Seq(Gs) /\ DOMAIN (s \o << g >> \o << >>) = 1 .. k + 1
        /\ (s \o << g >> \o << >>)[k + 1] = g
        /\ \A j \in 1 .. k : (s \o << g >> \o << >>)[j] = s[j]
    BY <2>2, <2>3
  <2>5. batch'[p] = s \o << g >> \o << >> BY <1>0, <2>3 DEF RunqType
  <2> QED BY <2>2, <2>3, <2>4, <2>5
<1>4. RunqType'
  <2>1. k \in 0 .. Wrap - 1 BY <1>a, RingSizes
  <2>2. Nxt(a, k) \in Index BY <2>1, NxtLaw
  <2>3. batch' \in [Ps -> Seq(Gs)] BY <1>0, <1>3 DEF RunqType
  <2> QED BY <1>0, <1>b, <2>2, <2>3, AsideType DEF RunqType, RPCs
<1>5. ASSUME NEW z, NEW f
      PROVE  /\ \A r \in Ps : Ringed(r, z, f)' <=> Ringed(r, z, f) /\ (r = p => k <= Gap(a, z))
             /\ z \in 1 .. k => (batch'[p][z] = f <=> Ringed(p, Nxt(a, z - 1), f))
  BY <1>r, <1>3
<1>6. Fits(p)'
  <2>2. \A i \in Index : Gap(runqhead'[p], i) < Hold(p)' => runq'[p][Slot(i)] \in Gs
    <3> SUFFICES ASSUME NEW i \in Index, Gap(runqhead'[p], i) < Hold(p)' PROVE runq'[p][Slot(i)] \in Gs
      OBVIOUS
    <3>0. PICK f : f = runq'[p][Slot(i)] OBVIOUS
    <3>1. Ringed(p, i, f)' BY <3>0 DEF Ringed
    <3>2. Ringed(p, i, f) BY <1>5, <3>1
    <3> QED BY <1>0, <3>0, <3>2 DEF Ringed, Fits
  <2> QED BY <1>0, <1>a, <1>d, <1>2, <2>2, RingSizes DEF Fits, RunqType, Putting, Thieving
<1>7. Steals(p)' BY <1>0 DEF Steals, RunqType, Thieving
<1>8. ASSUME NEW f \in Gs PROVE OnePlace(f)'
  <2>1. OnePlace(f) BY DEF RunqInv
  <2>2. PICK t, q, i : /\ Lies(t, q, i, f)
                       /\ \A u, r, j : Lies(u, r, j, f) => u = t /\ r = q /\ j = i
    BY <2>1, OnceIs
  <2>3. \A u, r, j : Lies(u, r, j, f)' <=>
          \/ Lies(u, r, j, f) /\ ~(u = "gp" /\ r = p) /\ ~(u = "ring" /\ r = p /\ ~(k <= Gap(a, j)))
          \/ u = "batch" /\ r = p /\ j = k + 1 /\ f = g
          \/ u = "batch" /\ r = p /\ j \in 1 .. k /\ Lies("ring", p, Nxt(a, j - 1), f)
    <3>1. \A j : j \in 1 .. k + 1 <=> j \in 1 .. k \/ j = k + 1 OBVIOUS
    <3>2. DOMAIN batch[p] = {} BY <1>d
    <3> SUFFICES ASSUME NEW u, NEW r, NEW j
                 PROVE  Lies(u, r, j, f)' <=>
          \/ Lies(u, r, j, f) /\ ~(u = "gp" /\ r = p) /\ ~(u = "ring" /\ r = p /\ ~(k <= Gap(a, j)))
          \/ u = "batch" /\ r = p /\ j = k + 1 /\ f = g
          \/ u = "batch" /\ r = p /\ j \in 1 .. k /\ Lies("ring", p, Nxt(a, j - 1), f)
      OBVIOUS
    <3>3. CASE u \notin {"gp", "ring", "batch"} BY <1>0, <3>3 DEF Lies
    <3>4. CASE u = "gp" BY <1>0, <3>4, RunqAssumption DEF Lies, RunqType
    <3>5. CASE u = "ring" BY <1>5, <3>5 DEF Lies
    <3>6. CASE u = "batch" /\ r # p BY <1>0, <3>6 DEF Lies, RunqType
    <3>7. CASE u = "batch" /\ r = p
      <4>1. Lies("batch", p, j, f)' <=> j \in 1 .. k + 1 /\ batch'[p][j] = f
        BY <1>3 DEF Lies
      <4>2. ~Lies("batch", p, j, f) BY <3>2 DEF Lies
      <4>3. j \in 1 .. k => (batch'[p][j] = f <=> Lies("ring", p, Nxt(a, j - 1), f))
        BY <1>5 DEF Lies
      <4> QED BY <1>3, <3>1, <3>7, <4>1, <4>2, <4>3
    <3> QED BY <3>3, <3>4, <3>5, <3>6, <3>7
  <2>4. f = g <=> Lies("gp", p, 0, f) BY <1>c DEF Lies
  <2>5. \A z : Lies("gp", p, z, f) => z = 0 BY DEF Lies
  <2>6. CASE f = g
    <3>1. PICK e : e = k + 1 OBVIOUS
    <3>2. Lies("batch", p, e, f)' BY <2>3, <2>6, <3>1
    <3>3. \A u, r, j : Lies(u, r, j, f)' => u = "batch" /\ r = p /\ j = e
      BY <2>2, <2>3, <2>4, <2>6, <3>1
    <3> QED BY <3>2, <3>3, Lands
  <2>7. CASE f # g
    <3>1. \A j : ~Lies("gp", p, j, f) BY <2>4, <2>5, <2>7
    <3>2. \A j : j \in 0 + 1 .. 0 + k => j \in 1 .. k /\ j - 0 - 1 = j - 1 OBVIOUS
    <3>3. \A u, r, j : Lies(u, r, j, f)' <=>
            \/ Lies(u, r, j, f) /\ ~(u = "ring" /\ r = p /\ ~(k <= Gap(a, j)))
            \/ /\ u = "batch" /\ r = p /\ j \in 0 + 1 .. 0 + k
               /\ Lies("ring", p, Nxt(a, j - 0 - 1), f)
      BY <2>3, <2>7, <3>1, <3>2
    <3>4. rpc[p] # "stolen" /\ k <= Filled(p) BY <1>0, <1>a, <1>d
    <3> QED BY <1>b, <3>3, <3>4, Carried
  <2> QED BY <2>6, <2>7
<1> QED BY <1>0, <1>1, <1>4, <1>6, <1>7, <1>8, OthersKept DEF RunqInv

(* All of a ring is (6871-6899). *)
LEMMA DrainRingKeeps ==
  ASSUME RunqInv, NEW p \in Ps, DrainRing(p), Aside
  PROVE  RunqInv'
<1>k. PICK a \in Index, k \in Nat : a = runqhead[p] /\ k = Filled(p)
  <2>1. Filled(p) \in Nat BY FilledGap, GapLaw DEF RunqInv, RunqType
  <2> QED BY <2>1 DEF RunqInv, RunqType
<1>b. /\ rpc[p] = "drain" /\ schedLock # p /\ k <= RingLen
  BY <1>k DEF RunqInv, Fits, DrainRing, RGoto, Putting
<1>s. rpc[p] # "stolen" /\ a = runqhead[p] /\ k <= Filled(p) BY <1>k, <1>b
<1>t. \A z \in 1 .. k : \A f : Slots(p, a, k)[z] = f <=> Ringed(p, Nxt(a, z - 1), f)
  <2>1. k \in 0 .. Filled(p) BY <1>k
  <2> QED BY <1>s, <2>1, Drew
<1>l. PICK b \in Seq(Gs), l \in Nat : b = batch[p] /\ l = Len(b)
  BY DEF RunqInv, RunqType
<1>a. a = runqhead[p] /\ b = batch[p] /\ k = Filled(p) /\ l = Len(b)
  BY <1>k, <1>l
<1>c. /\ Slots(p, a, k) \in Seq(Gs) /\ Len(Slots(p, a, k)) = k
      /\ b \o Slots(p, a, k) \in Seq(Gs) /\ DOMAIN (b \o Slots(p, a, k)) = 1 .. l + k
      /\ \A j \in 1 .. l : (b \o Slots(p, a, k))[j] = b[j]
      /\ \A j \in 1 .. k : (b \o Slots(p, a, k))[l + j] = Slots(p, a, k)[j]
  <2>1. PICK s \in Seq(Gs) : s = Slots(p, a, k) /\ Len(s) = k
    BY <1>a, <1>s, SlotsSeq
  <2>2. b \in Seq(Gs) /\ l = Len(b) /\ k = Len(s) BY <1>a, <2>1
  <2>3. /\ b \o s \in Seq(Gs) /\ DOMAIN (b \o s) = 1 .. l + k
        /\ \A j \in 1 .. l : (b \o s)[j] = b[j]
        /\ \A j \in 1 .. k : (b \o s)[l + j] = s[j]
    BY <2>2, Joined
  <2> QED BY <2>1, <2>3
<1>d. runqtail[p] = Nxt(a, k) /\ Nxt(a, k) \in Index
  <2>1. runqtail[p] \in Index BY DEF RunqInv, RunqType
  <2> QED BY <1>a, <2>1, FilledGap, Met
<1>0. /\ RunqType /\ Fits(p) /\ Steals(p)
      /\ rpc' = [rpc EXCEPT ![p] = IF batch'[p] = << >> THEN "idle" ELSE "global"]
      /\ runqhead' = [runqhead EXCEPT ![p] = Nxt(@, k)]
      /\ batch' = [batch EXCEPT ![p] = b \o Slots(p, a, k)]
      /\ UNCHANGED << runqtail, runq, runnext, globq, schedLock, out, gp, victim, h, n, nx >>
  <2>1. RingAt(p) = Slots(p, a, k) BY <1>a DEF RingAt
  <2> QED BY <1>a, <1>d, <2>1 DEF RunqInv, RunqType, DrainRing, RGoto, thief
<1>e. batch'[p] = b \o Slots(p, a, k) BY <1>0 DEF RunqType
<1>1. Moves(p, p, k, 0)
  <2>1. Alone(p) BY <1>0 DEF Alone, RunqType
  <2>2. k <= Filled(p) BY <1>a
  <2> QED BY <1>0, <2>1, <2>2, Withdraws
<1>2. Filled(p)' = 0 /\ Hold(p) = k /\ Hold(p)' = 0
  <2>1. Filled(p)' = Filled(p) - k + 0 BY <1>0, <1>1, MovedRings
  <2> QED BY <1>0, <1>a, <1>b, <2>1 DEF Hold, RunqType
<1>r. ASSUME NEW z, NEW f
      PROVE  \A r \in Ps : Ringed(r, z, f)' <=> Ringed(r, z, f) /\ (r = p => k <= Gap(a, z))
  <2>1. rpc[p] # "stolen" /\ rpc'[p] # "stolen" BY <1>0, <1>b DEF RunqType
  <2> QED BY <1>1, <1>a, <2>1, Drawn
<1>4. RunqType'
  <2>1. batch' \in [Ps -> Seq(Gs)] BY <1>0, <1>c DEF RunqType
  <2> QED BY <1>0, <1>a, <1>d, <2>1, AsideType DEF RunqType, RPCs
<1>6. Fits(p)'
  <2>1. \A i \in Index : ~(Gap(runqhead'[p], i) < Hold(p)')
    BY <1>0, <1>2, <1>a, <1>d, GapLaw DEF RunqType
  <2> QED BY <1>0, <1>b, <1>2, <2>1, RingSizes DEF Fits, RunqType, Putting, Thieving
<1>7. Steals(p)' BY <1>0 DEF Steals, RunqType, Thieving
<1>8. ASSUME NEW f \in Gs PROVE OnePlace(f)'
  <2>1. ASSUME NEW j \in l + 1 .. l + k
        PROVE  batch'[p][j] = f <=> Ringed(p, Nxt(a, j - l - 1), f)
    <3>1. PICK z \in 1 .. k : j = l + z /\ z - 1 = j - l - 1
      <4>1. j - l \in 1 .. k /\ j = l + (j - l) /\ j - l - 1 = j - l - 1 OBVIOUS
      <4> QED BY <4>1
    <3>2. Slots(p, a, k)[z] = f <=> Ringed(p, Nxt(a, z - 1), f) BY <1>t
    <3> QED BY <1>c, <1>e, <3>1, <3>2
  <2>2. \A u, r, j : Lies(u, r, j, f)' <=>
          \/ Lies(u, r, j, f) /\ ~(u = "ring" /\ r = p /\ ~(k <= Gap(a, j)))
          \/ u = "batch" /\ r = p /\ j \in l + 1 .. l + k /\ Lies("ring", p, Nxt(a, j - l - 1), f)
    <3> SUFFICES ASSUME NEW u, NEW r, NEW j
                 PROVE  Lies(u, r, j, f)' <=>
          \/ Lies(u, r, j, f) /\ ~(u = "ring" /\ r = p /\ ~(k <= Gap(a, j)))
          \/ u = "batch" /\ r = p /\ j \in l + 1 .. l + k /\ Lies("ring", p, Nxt(a, j - l - 1), f)
      OBVIOUS
    <3>3. CASE u \notin {"ring", "batch"} BY <1>0, <3>3 DEF Lies
    <3>5. CASE u = "ring" BY <1>r, <3>5 DEF Lies
    <3>6. CASE u = "batch" /\ r # p BY <1>0, <3>6 DEF Lies, RunqType
    <3>7. CASE u = "batch" /\ r = p
      <4>1. Lies("batch", p, j, f)' <=> j \in 1 .. l + k /\ batch'[p][j] = f
        BY <1>c, <1>e DEF Lies
      <4>2. Lies("batch", p, j, f) <=> j \in 1 .. l /\ b[j] = f BY <1>a DEF Lies
      <4>3. j \in l + 1 .. l + k => (batch'[p][j] = f <=> Lies("ring", p, Nxt(a, j - l - 1), f))
        BY <2>1 DEF Lies
      <4>4. j \in 1 .. l => batch'[p][j] = b[j] BY <1>c, <1>e
      <4>5. /\ j \in 1 .. l + k <=> j \in 1 .. l \/ j \in l + 1 .. l + k
            /\ ~(j \in 1 .. l /\ j \in l + 1 .. l + k)
        OBVIOUS
      <4> QED BY <3>7, <4>1, <4>2, <4>3, <4>4, <4>5
    <3> QED BY <3>3, <3>5, <3>6, <3>7
  <2> QED BY SMTT(30), <1>a, <1>s, <2>2, Carried
<1> QED BY <1>0, <1>1, <1>4, <1>6, <1>7, <1>8, OthersKept DEF RunqInv

-----------------------------------------------------------------------------
(* The global queue *)
LEMMA PutGlobalKeeps ==
  ASSUME RunqInv, NEW p \in Ps, PutGlobal(p), Aside
  PROVE  RunqInv'
<1>a. PICK b \in Seq(Gs), c \in Seq(Gs), l \in Nat, m \in Nat :
        b = batch[p] /\ c = globq /\ l = Len(c) /\ m = Len(b)
  BY DEF RunqInv, RunqType
<1>c. /\ c \o b \in Seq(Gs) /\ DOMAIN (c \o b) = 1 .. l + m
      /\ DOMAIN c = 1 .. l /\ DOMAIN b = 1 .. m
      /\ \A j \in 1 .. l : (c \o b)[j] = c[j]
      /\ \A j \in 1 .. m : (c \o b)[l + j] = b[j]
  BY <1>a
<1>0. /\ RunqType /\ Fits(p) /\ Steals(p)
      /\ rpc[p] = "global" /\ rpc' = [rpc EXCEPT ![p] = "idle"]
      /\ globq' = c \o b /\ batch' = [batch EXCEPT ![p] = << >>] /\ batch'[p] = << >>
      /\ UNCHANGED << runqhead, runqtail, runq, runnext, schedLock, out, gp, victim, h, n, nx >>
  BY <1>a DEF RunqInv, RunqType, PutGlobal, RGoto, thief
<1>1. RunqType'
  <2>1. << >> \in Seq(Gs) OBVIOUS
  <2> QED BY <1>0, <1>c, <2>1, AsideType DEF RunqType, RPCs
<1>2. Moves(p, p, 0, 0)
  <2>1. Alone(p) BY <1>0 DEF Alone, RunqType
  <2> QED BY <1>0, <2>1, Quiet
<1>3. Fits(p)'
  <2>1. Filled(p)' = Filled(p) /\ Hold(p)' = Hold(p) BY <1>0 DEF Filled, Hold, RunqType
  <2> QED BY <1>0, <2>1 DEF Fits, RunqType, Putting, Thieving
<1>4. Steals(p)' BY <1>0 DEF Steals, RunqType, Thieving
<1>5. ASSUME NEW f \in Gs PROVE OnePlace(f)'
  <2>1. OnePlace(f) BY DEF RunqInv
  <2>2. PICK t, q, i : /\ Lies(t, q, i, f)
                       /\ \A u, r, j : Lies(u, r, j, f) => u = t /\ r = q /\ j = i
    BY <2>1, OnceIs
  <2>3. \A r \in Ps : \A j : Ringed(r, j, f)' <=> Ringed(r, j, f)
    BY <1>0, <1>2, RingsStay DEF RunqInv, RunqType
  <2>4. \A u, r, j : ~(u = "sched" /\ r = NoP) =>
          (Lies(u, r, j, f)' <=> Lies(u, r, j, f) /\ ~(u = "batch" /\ r = p))
    BY <1>0, <2>3 DEF Lies, RunqType
  <2>5. \A j : Lies("sched", NoP, j, f)' <=> j \in 1 .. l + m /\ (c \o b)[j] = f
    BY <1>0, <1>c DEF Lies
  <2>6. /\ \A j : Lies("sched", NoP, j, f) <=> j \in 1 .. l /\ c[j] = f
        /\ \A j : Lies("batch", p, j, f) <=> j \in 1 .. m /\ b[j] = f
    BY <1>a, <1>c DEF Lies
  <2>7. ASSUME NEW j
        PROVE  Lies("sched", NoP, j, f)' <=>
                 \/ Lies("sched", NoP, j, f)
                 \/ \E z \in 1 .. m : j = l + z /\ Lies("batch", p, z, f)
    <3>1. CASE j \in 1 .. l
      <4>1. j \in 1 .. l + m /\ \A z \in 1 .. m : j # l + z BY <3>1
      <4> QED BY <1>c, <2>5, <2>6, <3>1, <4>1
    <3>2. CASE j \in 1 .. l + m /\ j \notin 1 .. l
      <4>1. PICK z \in 1 .. m : j = l + z
        <5>1. j - l \in 1 .. m /\ j = l + (j - l) BY <3>2
        <5> QED BY <5>1
      <4>2. \A y \in 1 .. m : j = l + y => y = z BY <4>1
      <4> QED BY <1>c, <2>5, <2>6, <3>2, <4>1, <4>2
    <3>3. CASE j \notin 1 .. l + m
      <4>1. j \notin 1 .. l /\ \A z \in 1 .. m : j # l + z BY <3>3
      <4> QED BY <2>5, <2>6, <3>3, <4>1
    <3> QED BY <3>1, <3>2, <3>3
  <2>8. CASE t = "batch" /\ q = p
    <3>1. i \in 1 .. m BY <2>2, <2>6, <2>8
    <3>2. PICK e : e = l + i OBVIOUS
    <3>3. Lies("sched", NoP, e, f)' BY <2>2, <2>7, <2>8, <3>1, <3>2
    <3>4. \A u, r, j : Lies(u, r, j, f)' => u = "sched" /\ r = NoP /\ j = e
      BY <2>2, <2>4, <2>7, <2>8, <3>2
    <3> QED BY <3>3, <3>4, Lands
  <2>9. CASE ~(t = "batch" /\ q = p)
    <3>1. \A j : ~Lies("batch", p, j, f) BY <2>2, <2>9
    <3>2. \A u, r, j : Lies(u, r, j, f)' <=> Lies(u, r, j, f) BY <2>4, <2>7, <3>1
    <3> QED BY <2>1, <3>2, Stays
  <2> QED BY <2>8, <2>9
<1> QED BY <1>0, <1>1, <1>2, <1>3, <1>4, <1>5, OthersKept DEF RunqInv

(* The goroutines got from the global queue go to the ring, one by one, where *)
(* there is room for all (6569-6574).                                         *)
LEMMA PutRestKeeps ==
  ASSUME RunqInv, NEW p \in Ps, PutRest(p), Aside
  PROVE  RunqInv'
<1>0. /\ RunqType /\ Fits(p) /\ Steals(p)
      /\ rpc[p] = "putRest" /\ schedLock = p
      /\ rpc' = [rpc EXCEPT ![p] = IF batch[p] = << >> THEN "idle" ELSE "put"]
      /\ UNCHANGED << runqhead, runqtail, runq, runnext, globq, out, victim, h, n, nx >>
  BY DEF RunqInv, PutRest, RGoto, Fits, thief
<1>f. ASSUME Alone(p), rpc'[p] # "stolen"
      PROVE  /\ Moves(p, p, 0, 0) /\ Filled(p)' = Filled(p) /\ Hold(p)' = Hold(p)
             /\ \A r \in Ps : \A j, f : Ringed(r, j, f)' <=> Ringed(r, j, f)
  <2>1. Moves(p, p, 0, 0) BY <1>0, <1>f, Quiet
  <2>2. Filled(p)' = Filled(p) /\ Hold(p)' = Hold(p) BY <1>0, <1>f DEF Filled, Hold
  <2> QED BY <1>0, <1>f, <2>1, <2>2, RingsStay DEF RunqInv
<1>1. CASE batch[p] = << >>
  <2>0. rpc' = [rpc EXCEPT ![p] = "idle"] /\ schedLock' = NoP /\ UNCHANGED << gp, batch >>
    BY <1>0, <1>1 DEF PutRest
  <2>1. RunqType' BY <1>0, <2>0, AsideType DEF RunqType, RPCs
  <2>2. Alone(p) /\ rpc'[p] # "stolen" BY <1>0, <2>0, RunqAssumption DEF Alone, RunqType
  <2>3. Fits(p)'
    BY <1>0, <1>1, <1>f, <2>0, <2>2, RunqAssumption DEF Fits, RunqType, Putting, Thieving
  <2>4. Steals(p)' BY <1>0, <2>0 DEF Steals, RunqType, Thieving
  <2> QED BY <1>0, <1>f, <2>0, <2>1, <2>2, <2>3, <2>4, NothingMoves
<1>2. CASE batch[p] # << >>
  <2>a. PICK b \in Seq(Gs), m \in Nat, g \in Gs :
          b = batch[p] /\ m + 1 = Len(b) /\ g = b[1] /\ g = Head(b)
    <3>1. PICK b \in Seq(Gs) : b = batch[p] /\ b # << >> BY <1>0, <1>2 DEF RunqType
    <3>2. Len(b) - 1 \in Nat /\ Len(b) - 1 + 1 = Len(b) /\ b[1] \in Gs /\ b[1] = Head(b) BY <3>1
    <3> QED BY <3>1, <3>2
  <2>b. /\ Tail(b) \in Seq(Gs) /\ Len(Tail(b)) = m
        /\ \A j \in 1 .. m : Tail(b)[j] = b[j + 1]
        /\ DOMAIN Tail(b) = 1 .. m /\ DOMAIN b = 1 .. m + 1
    BY <1>2, <2>a
  <2>0. /\ rpc' = [rpc EXCEPT ![p] = "put"] /\ gp' = [gp EXCEPT ![p] = g]
        /\ batch' = [batch EXCEPT ![p] = Tail(b)] /\ batch'[p] = Tail(b) /\ schedLock' = schedLock
    BY <1>0, <1>2, <2>a DEF PutRest, RunqType
  <2>1. RunqType' BY <1>0, <2>0, <2>b, AsideType DEF RunqType, RPCs
  <2>2. Alone(p) /\ rpc'[p] # "stolen" BY <1>0, <2>0 DEF Alone, RunqType
  <2>3. Fits(p)'
    <3>1. Filled(p) + Len(batch[p]) + 0 <= RingLen BY <1>0 DEF Fits, Putting
    <3>2. Filled(p) \in Nat BY FilledGap, GapLaw DEF RunqInv, RunqType
    <3>3. Filled(p) + Len(batch'[p]) + 1 <= RingLen
      <4>1. Len(batch[p]) = m + 1 /\ Len(batch'[p]) = m BY <2>0, <2>a, <2>b
      <4>2. Filled(p) + (m + 1) + 0 <= RingLen BY <3>1, <4>1
      <4>3. Filled(p) + m + 1 <= RingLen BY <3>2, <4>2, RingSizes
      <4> QED BY <4>1, <4>3
    <3> QED BY <1>0, <1>f, <2>0, <2>2, <3>3, RunqAssumption DEF Fits, RunqType, Putting, Thieving
  <2>4. Steals(p)' BY <1>0, <2>0 DEF Steals, RunqType, Thieving
  <2>5. ASSUME NEW f \in Gs PROVE OnePlace(f)'
    <3>1. OnePlace(f) BY DEF RunqInv
    <3>2. PICK t, q, i : /\ Lies(t, q, i, f)
                         /\ \A u, r, j : Lies(u, r, j, f) => u = t /\ r = q /\ j = i
      BY <3>1, OnceIs
    <3>3. gp[p] = NoG BY <1>0 DEF Fits, Putting
    <3>4. \A u, r, j : ~(u = "batch" /\ r = p) =>
            (Lies(u, r, j, f)' <=> Lies(u, r, j, f) \/ (u = "gp" /\ r = p /\ j = 0 /\ f = g))
      <4>1. \A r \in Ps : \A j : Ringed(r, j, f)' <=> Ringed(r, j, f) BY <1>f, <2>2
      <4> QED BY <1>0, <2>0, <3>3, <4>1, RunqAssumption DEF Lies, RunqType
    <3>5. \A j : Lies("batch", p, j, f)' <=> j \in 1 .. m /\ b[j + 1] = f
      BY <2>0, <2>b DEF Lies
    <3>6. \A j : Lies("batch", p, j, f) <=> j \in 1 .. m + 1 /\ b[j] = f
      BY <2>a, <2>b DEF Lies
    <3>7. 1 \in 1 .. m + 1 /\ \A j \in 1 .. m : j + 1 \in 1 .. m + 1 /\ j + 1 # 1 /\ j = j + 1 - 1
      OBVIOUS
    <3>8. CASE f = g
      <4>1. Lies("batch", p, 1, f) BY <2>a, <3>6, <3>7, <3>8
      <4>2. Lies("gp", p, 0, f)' BY <3>4, <3>8
      <4>3. \A j : ~Lies("batch", p, j, f)' BY <3>2, <3>5, <3>6, <3>7, <4>1
      <4>4. \A u, r, j : Lies(u, r, j, f)' => u = "gp" /\ r = p /\ j = 0
        BY <3>2, <3>4, <4>1, <4>3
      <4> QED BY <4>2, <4>4, Lands
    <3>9. CASE f # g /\ t = "batch" /\ q = p
      <4>1. i \in 1 .. m + 1 /\ b[i] = f /\ i # 1 BY <2>a, <3>2, <3>6, <3>9
      <4>2. PICK e \in 1 .. m : e + 1 = i
        <5>1. i - 1 \in 1 .. m /\ i - 1 + 1 = i BY <4>1
        <5> QED BY <5>1
      <4>3. Lies("batch", p, e, f)' BY <3>5, <4>1, <4>2
      <4>4. \A j : Lies("batch", p, j, f)' => j = e
        <5> SUFFICES ASSUME NEW j, Lies("batch", p, j, f)' PROVE j = e OBVIOUS
        <5>1. j \in 1 .. m /\ b[j + 1] = f BY <3>5
        <5>2. Lies("batch", p, j + 1, f) BY <3>6, <3>7, <5>1
        <5>3. j + 1 = i BY <3>2, <5>2
        <5> QED BY <4>2, <5>1, <5>3
      <4>5. \A u, r, j : Lies(u, r, j, f)' => u = "batch" /\ r = p /\ j = e
        BY <3>2, <3>4, <3>9, <4>4
      <4> QED BY <4>3, <4>5, Lands
    <3>10. CASE f # g /\ ~(t = "batch" /\ q = p)
      <4>1. \A j : ~Lies("batch", p, j, f) BY <3>2, <3>10
      <4>2. \A j : ~Lies("batch", p, j, f)' BY <3>5, <3>6, <3>7, <4>1
      <4>3. \A u, r, j : Lies(u, r, j, f)' <=> Lies(u, r, j, f) BY <3>4, <3>10, <4>1, <4>2
      <4> QED BY <3>1, <4>3, Stays
    <3> QED BY <3>8, <3>9, <3>10
  <2> QED BY <1>0, <1>f, <2>1, <2>2, <2>3, <2>4, <2>5, OthersKept DEF RunqInv
<1> QED BY <1>1, <1>2

(* A part of a sequence, and the least of four numbers. *)
LEMMA Part ==
  ASSUME NEW S, NEW c \in Seq(S), NEW d \in Nat, NEW e \in Nat, d <= e, e <= Len(c)
  PROVE  /\ SubSeq(c, d + 1, e) \in Seq(S) /\ Len(SubSeq(c, d + 1, e)) = e - d
         /\ DOMAIN SubSeq(c, d + 1, e) = 1 .. e - d
         /\ \A j \in 1 .. e - d : SubSeq(c, d + 1, e)[j] = c[d + j] /\ d + j \in 1 .. e
<1>1. Len(c) \in Nat OBVIOUS
<1>2. \A j \in 1 .. e - d : d + 1 + j - 1 = d + j /\ d + j \in 1 .. e /\ d + j \in 1 .. Len(c)
  BY <1>1
<1> QED BY <1>1, <1>2

LEMMA LeastOf ==
  ASSUME NEW x \in Nat, NEW y \in Nat, NEW z \in Nat, NEW w \in Nat
  PROVE  LET s == SetMin({x, y, z} \cup (IF w > 0 THEN {w} ELSE {}))
         IN  /\ s \in {x, y, z, w} /\ s <= x /\ s <= y /\ s <= z /\ (w > 0 => s <= w)
             /\ x > 0 /\ y > 0 /\ z > 0 => s > 0
<1> DEFINE S == {x, y, z} \cup (IF w > 0 THEN {w} ELSE {})
<1>1. \A v : v \in S <=> v = x \/ v = y \/ v = z \/ (w > 0 /\ v = w) OBVIOUS
<1>2. \E v \in S : \A u \in S : v <= u
  <2> HIDE DEF S
  <2>1. PICK v \in {x, y, z} : v <= x /\ v <= y /\ v <= z OBVIOUS
  <2>2. CASE w > 0 /\ w < v BY <1>1, <2>1, <2>2
  <2>3. CASE ~(w > 0 /\ w < v) BY <1>1, <2>1, <2>3
  <2> QED BY <2>2, <2>3
<1>3. SetMin(S) \in S /\ \A u \in S : SetMin(S) <= u
  <2> HIDE DEF S
  <2> QED BY <1>2 DEF SetMin
<1>4. PICK s : s = SetMin(S) OBVIOUS
<1>5. s \in S /\ \A u \in S : s <= u BY <1>3, <1>4
<1>6. /\ s \in {x, y, z, w} /\ s <= x /\ s <= y /\ s <= z /\ (w > 0 => s <= w)
      /\ x > 0 /\ y > 0 /\ z > 0 => s > 0
  <2> HIDE DEF S
  <2> QED BY <1>1, <1>5
<1> QED BY <1>4, <1>6

(* They are taken from the front of the global queue (6545-6568). *)
LEMMA GlobGetKeeps ==
  ASSUME RunqInv, NEW p \in Ps, NEW max \in {0, 1}, GlobGet(p, max), Aside
  PROVE  RunqInv'
<1>l. PICK c \in Seq(Gs), l \in Nat \ {0} : c = globq /\ l = Len(c)
  <2>1. globq \in Seq(Gs) /\ globq # << >> BY DEF RunqInv, RunqType, GlobGet
  <2> QED BY <2>1
<1>k. PICK k \in 1 .. l :
        /\ k = SetMin({Len(globq) \div Cardinality(Ps) + 1, Len(globq), RingLen \div 2}
                      \cup (IF max > 0 THEN {max} ELSE {}))
        /\ k <= RingLen \div 2 /\ (max > 0 => k = 1)
  <2>1. Cardinality(Ps) \in Nat \ {0}
    BY RunqAssumption, FS_CardinalityType, FS_EmptySet
  <2>2. l \div Cardinality(Ps) \in Nat BY <2>1, DivFacts
  <2>3. PICK x \in Nat, y \in Nat : x = l \div Cardinality(Ps) + 1 /\ x > 0 /\ y = RingLen \div 2 /\ y > 0
    BY <2>2, Halves
  <2>4. PICK s : s = SetMin({x, l, y} \cup (IF max > 0 THEN {max} ELSE {})) OBVIOUS
  <2>5. /\ s \in {x, l, y, max} /\ s <= l /\ s <= y /\ (max > 0 => s <= max) /\ s > 0
    BY <2>3, <2>4, LeastOf
  <2>6. s \in 1 .. l /\ (max > 0 => s = 1) BY <2>3, <2>5
  <2> QED BY <1>l, <2>3, <2>4, <2>5, <2>6
<1>0. /\ RunqType /\ Fits(p) /\ Steals(p) /\ schedLock = NoP /\ rpc[p] = "idle"
      /\ max = 0 => Filled(p) = 0
      /\ rpc' = [rpc EXCEPT ![p] = IF k = 1 THEN "idle" ELSE "putRest"]
      /\ schedLock' = IF k = 1 THEN NoP ELSE p
      /\ out' = out \cup {c[1]}
      /\ batch' = [batch EXCEPT ![p] = SubSeq(c, 2, k)] /\ globq' = SubSeq(c, k + 1, l)
      /\ UNCHANGED << runqhead, runqtail, runq, runnext, gp, victim, h, n, nx >>
  BY <1>k, <1>l DEF RunqInv, GlobGet, RGoto, thief, IsEmptyQ
<1>a. /\ c[1] \in Gs /\ DOMAIN c = 1 .. l /\ batch'[p] = SubSeq(c, 2, k)
      /\ batch'[p] \in Seq(Gs) /\ Len(batch'[p]) = k - 1 /\ DOMAIN batch'[p] = 1 .. k - 1
      /\ \A j \in 1 .. k - 1 : batch'[p][j] = c[1 + j]
      /\ globq' \in Seq(Gs) /\ DOMAIN globq' = 1 .. l - k
      /\ \A j \in 1 .. l - k : globq'[j] = c[k + j]
  <2>1. c[1] \in Gs /\ DOMAIN c = 1 .. l BY <1>l
  <2>2. batch'[p] = SubSeq(c, 2, k) BY <1>0 DEF RunqType
  <2>3. /\ SubSeq(c, 1 + 1, k) \in Seq(Gs) /\ Len(SubSeq(c, 1 + 1, k)) = k - 1
        /\ DOMAIN SubSeq(c, 1 + 1, k) = 1 .. k - 1
        /\ \A j \in 1 .. k - 1 : SubSeq(c, 1 + 1, k)[j] = c[1 + j]
    BY <1>l, Part
  <2>4. /\ SubSeq(c, k + 1, l) \in Seq(Gs)
        /\ DOMAIN SubSeq(c, k + 1, l) = 1 .. l - k
        /\ \A j \in 1 .. l - k : SubSeq(c, k + 1, l)[j] = c[k + j]
    BY <1>l, Part
  <2>5. SubSeq(c, 1 + 1, k) = SubSeq(c, 2, k) OBVIOUS
  <2> QED BY <1>0, <2>1, <2>2, <2>3, <2>4, <2>5
<1>b. schedLock # p /\ batch[p] = << >> /\ gp[p] = NoG
  BY <1>0, RunqAssumption DEF Fits, Putting
<1>1. RunqType'
  <2>1. batch' \in [Ps -> Seq(Gs)] BY <1>0, <1>a DEF RunqType
  <2> QED BY <1>0, <1>a, <2>1, AsideType DEF RunqType, RPCs
<1>2. Moves(p, p, 0, 0)
  <2>1. Alone(p) BY <1>0, RunqAssumption DEF Alone, RunqType
  <2> QED BY <1>0, <2>1, Quiet
<1>3. Fits(p)'
  <2>1. Filled(p)' = Filled(p) /\ Hold(p)' = Hold(p) BY <1>0 DEF Filled, Hold, RunqType
  <2>2. CASE k = 1
    <3>1. rpc'[p] = "idle" /\ schedLock' # p /\ batch'[p] = << >>
      BY <1>0, <1>a, <2>2, RunqAssumption DEF RunqType
    <3> QED BY <1>0, <1>b, <2>1, <3>1 DEF Fits, RunqType, Putting, Thieving
  <2>3. CASE k # 1
    <3>1. rpc'[p] = "putRest" /\ schedLock' = p /\ Filled(p) = 0
      BY <1>0, <1>k, <2>3 DEF RunqType
    <3>2. 0 + (k - 1) + 0 <= RingLen BY <1>k, Halves, RingSizes
    <3> QED BY <1>0, <1>a, <1>b, <2>1, <3>1, <3>2, RingSizes DEF Fits, RunqType, Putting, Thieving
  <2> QED BY <2>2, <2>3
<1>4. Steals(p)' BY <1>0 DEF Steals, RunqType, Thieving
<1>5. ASSUME NEW f \in Gs PROVE OnePlace(f)'
  <2>1. OnePlace(f) BY DEF RunqInv
  <2>2. PICK t, q, i : /\ Lies(t, q, i, f)
                       /\ \A u, r, j : Lies(u, r, j, f) => u = t /\ r = q /\ j = i
    BY <2>1, OnceIs
  <2>3. \A r \in Ps : \A j : Ringed(r, j, f)' <=> Ringed(r, j, f)
    BY <1>0, <1>2, RingsStay DEF RunqInv, RunqType
  <2>4. \A j : Lies("sched", NoP, j, f) <=> j \in 1 .. l /\ c[j] = f
    BY <1>l, <1>a DEF Lies
  <2>5. \A u, r, j : Lies(u, r, j, f)' <=>
          \/ Lies(u, r, j, f) /\ u # "sched"
          \/ u = "out" /\ r = NoP /\ j = 0 /\ f = c[1]
          \/ u = "batch" /\ r = p /\ j \in 1 .. k - 1 /\ c[1 + j] = f
          \/ u = "sched" /\ r = NoP /\ j \in 1 .. l - k /\ c[k + j] = f
    <3>1. DOMAIN batch[p] = {} BY <1>b
    <3> SUFFICES ASSUME NEW u, NEW r, NEW j
                 PROVE  Lies(u, r, j, f)' <=>
          \/ Lies(u, r, j, f) /\ u # "sched"
          \/ u = "out" /\ r = NoP /\ j = 0 /\ f = c[1]
          \/ u = "batch" /\ r = p /\ j \in 1 .. k - 1 /\ c[1 + j] = f
          \/ u = "sched" /\ r = NoP /\ j \in 1 .. l - k /\ c[k + j] = f
      OBVIOUS
    <3>2. CASE u \notin {"out", "batch", "sched"} BY <1>0, <2>3, <3>2 DEF Lies
    <3>3. CASE u = "out" BY <1>0, <3>3 DEF Lies
    <3>4. CASE u = "batch" /\ r # p BY <1>0, <3>4 DEF Lies, RunqType
    <3>5. CASE u = "batch" /\ r = p
      <4>1. Lies("batch", p, j, f)' <=> j \in 1 .. k - 1 /\ batch'[p][j] = f BY <1>a DEF Lies
      <4>2. ~Lies("batch", p, j, f) BY <3>1 DEF Lies
      <4> QED BY <1>a, <3>5, <4>1, <4>2
    <3>6. CASE u = "sched"
      <4>1. Lies("sched", r, j, f)' <=> r = NoP /\ j \in 1 .. l - k /\ globq'[j] = f
        BY <1>a DEF Lies
      <4> QED BY <1>a, <3>6, <4>1
    <3> QED BY <3>2, <3>3, <3>4, <3>5, <3>6
  <2>6. /\ 1 \in 1 .. l
        /\ \A j \in 1 .. k - 1 : 1 + j \in 1 .. l /\ 1 + j # 1
        /\ \A j \in 1 .. l - k : k + j \in 1 .. l /\ k + j # 1
        /\ \A j \in 1 .. k - 1, z \in 1 .. l - k : 1 + j # k + z
    OBVIOUS
  <2>7. \A j \in 1 .. l : c[j] = f => t = "sched" /\ q = NoP /\ i = j BY <2>2, <2>4
  <2>8. CASE t # "sched"
    <3>1. \A j \in 1 .. l : c[j] # f BY <2>7, <2>8
    <3>2. \A u, r, j : Lies(u, r, j, f)' <=> Lies(u, r, j, f) BY <2>2, <2>5, <2>6, <2>8, <3>1
    <3> QED BY <2>1, <3>2, Stays
  <2>9. CASE t = "sched"
    <3>0. q = NoP /\ i \in 1 .. l /\ c[i] = f /\ \A j \in 1 .. l : c[j] = f => j = i
      <4>1. q = NoP BY <2>2, <2>9 DEF Lies
      <4> QED BY <2>2, <2>4, <2>7, <2>9, <4>1
    <3>1. CASE i = 1
      <4>1. Lies("out", NoP, 0, f)' BY <2>5, <3>0, <3>1
      <4>2. \A u, r, j : Lies(u, r, j, f)' => u = "out" /\ r = NoP /\ j = 0
        BY <2>2, <2>5, <2>6, <2>9, <3>0, <3>1
      <4> QED BY <4>1, <4>2, Lands
    <3>2. CASE i \in 2 .. k
      <4>1. PICK e \in 1 .. k - 1 : 1 + e = i
        <5>1. i - 1 \in 1 .. k - 1 /\ 1 + (i - 1) = i BY <3>2
        <5> QED BY <5>1
      <4>2. Lies("batch", p, e, f)' BY <2>5, <3>0, <4>1
      <4>3. /\ c[1] # f /\ \A j \in 1 .. k - 1 : c[1 + j] = f => j = e
            /\ \A j \in 1 .. l - k : c[k + j] # f
        <5>1. c[1] # f BY <2>6, <3>0, <3>2
        <5>2. ASSUME NEW j \in 1 .. k - 1, c[1 + j] = f PROVE j = e
          <6>1. 1 + j = 1 + e BY <2>6, <3>0, <4>1, <5>2
          <6> QED BY <6>1
        <5>3. \A j \in 1 .. l - k : c[k + j] # f BY <2>6, <3>0, <4>1
        <5> QED BY <5>1, <5>2, <5>3
      <4>4. \A u, r, j : Lies(u, r, j, f)' => u = "batch" /\ r = p /\ j = e
        BY <2>2, <2>5, <2>9, <4>3
      <4> QED BY <4>2, <4>4, Lands
    <3>3. CASE i \in k + 1 .. l
      <4>1. PICK e \in 1 .. l - k : k + e = i
        <5>1. i - k \in 1 .. l - k /\ k + (i - k) = i BY <3>3
        <5> QED BY <5>1
      <4>2. Lies("sched", NoP, e, f)' BY <2>5, <3>0, <4>1
      <4>3. /\ c[1] # f /\ \A j \in 1 .. l - k : c[k + j] = f => j = e
            /\ \A j \in 1 .. k - 1 : c[1 + j] # f
        <5>1. c[1] # f BY <2>6, <3>0, <4>1
        <5>2. ASSUME NEW j \in 1 .. l - k, c[k + j] = f PROVE j = e
          <6>1. k + j = k + e BY <2>6, <3>0, <4>1, <5>2
          <6> QED BY <6>1
        <5>3. \A j \in 1 .. k - 1 : c[1 + j] # f BY <2>6, <3>0, <4>1
        <5> QED BY <5>1, <5>2, <5>3
      <4>4. \A u, r, j : Lies(u, r, j, f)' => u = "sched" /\ r = NoP /\ j = e
        BY <2>2, <2>5, <2>9, <4>3
      <4> QED BY <4>2, <4>4, Lands
    <3>4. i = 1 \/ i \in 2 .. k \/ i \in k + 1 .. l BY <3>0
    <3> QED BY <3>1, <3>2, <3>3, <3>4
  <2> QED BY <2>8, <2>9
<1> QED BY <1>0, <1>1, <1>2, <1>3, <1>4, <1>5, OthersKept DEF RunqInv

-----------------------------------------------------------------------------
(* runqputbatch *)

(* The slots of the ring between a and b are those that are at least as far   *)
(* behind b as there is room.                                                 *)
LEMMA Room ==
  ASSUME NEW a \in Index, NEW b \in Index, Gap(a, b) <= RingLen,
         NEW i \in Index, Gap(a, i) < Gap(a, b)
  PROVE  Back(Slot(i), b) >= RingLen - Gap(a, b)
<1>1. PICK d \in Nat, e \in Nat, s \in Nat : d = Gap(i, b) /\ e = Gap(a, i) /\ s = Gap(a, b)
  BY GapLaw
<1>2. d = s - e /\ e < s /\ s <= RingLen BY <1>1, Inside
<1>3. PICK y \in Index : y = Nxt(i, RingLen) /\ Gap(i, y) = RingLen
  <2>1. RingLen \in 0 .. Wrap - 1 BY RingSizes
  <2> QED BY <2>1, NxtLaw
<1>4. Gap(b, y) = RingLen - d
  <2>1. d <= Gap(i, y) BY <1>2, <1>3, RingSizes
  <2>2. Gap(Nxt(i, d), y) = Gap(i, y) - d BY <2>1, Nearer
  <2>3. Nxt(i, d) = b BY <1>1, Met
  <2> QED BY <1>3, <2>2, <2>3
<1>5. Gap(b, y) < RingLen BY <1>2, <1>4, RingSizes
<1>6. Back(Slot(y), b) = RingLen - d BY <1>4, <1>5, BackLaw
<1>7. Slot(y) = Slot(i) BY <1>3, SlotRound
<1> QED BY <1>1, <1>2, <1>6, <1>7, RingSizes

(* What lies from the tail b on. *)
LEMMA Ahead ==
  ASSUME NEW a \in Index, NEW b \in Index, NEW k \in Nat, Gap(a, b) + k < Wrap, NEW z \in Index
  PROVE  Gap(a, b) <= Gap(a, z) /\ Gap(a, z) < Gap(a, b) + k <=> Gap(b, z) < k
<1>1. PICK s \in Nat, e \in Nat, d \in Nat : s = Gap(a, b) /\ e = Gap(a, z) /\ d = Gap(b, z)
  BY GapLaw
<1>2. ASSUME s <= e, e < s + k PROVE d < k
  <2>1. Gap(Nxt(a, s), z) = e - s BY <1>1, <1>2, Nearer
  <2>2. Nxt(a, s) = b BY <1>1, Met
  <2> QED BY <1>1, <1>2, <2>1, <2>2
<1>3. ASSUME d < k PROVE s <= e /\ e < s + k
  <2>1. s + d < Wrap BY <1>1, <1>3, RingSizes
  <2>2. Gap(a, Nxt(b, d)) = s + d BY <1>1, <2>1, Further
  <2>3. Nxt(b, d) = z BY <1>1, Met
  <2> QED BY <1>1, <1>3, <2>2, <2>3
<1> QED BY <1>1, <1>2, <1>3

(* PutBatch, when k is what fits. *)
Batched(p, q, k) ==
  /\ Elems(q) \subseteq out /\ out' = out \ Elems(q)
  /\ RGoto(p, "idle", IF k = Len(q) THEN "idle" ELSE "global")
  /\ runq' = [runq EXCEPT ![p] = [i \in DOMAIN @ |->
                LET j == (i - runqtail[p]) % RingLen IN IF j < k THEN q[j + 1] ELSE @[i]]]
  /\ Advance(p, k)
  /\ batch' = [batch EXCEPT ![p] = SubSeq(q, k + 1, Len(q))]
  /\ UNCHANGED << runqhead, runnext, globq, schedLock, gp, thief >>

(* What fits into the ring is published at once (6805-6833). *)
LEMMA PutBatchKeeps ==
  ASSUME RunqInv, NEW p \in Ps, NEW q \in Seq(Gs), PutBatch(p, q), Aside,
         \A i, j \in DOMAIN q : i # j => q[i] # q[j]
  PROVE  RunqInv'
<1>a. PICK a \in Index, b \in Index, s \in Nat, l \in Nat, k \in Nat :
        /\ a = runqhead[p] /\ b = runqtail[p] /\ s = Filled(p) /\ s = Gap(a, b) /\ l = Len(q)
        /\ k = (IF RingLen - Filled(p) < Len(q) THEN RingLen - Filled(p) ELSE Len(q))
        /\ s + k <= RingLen /\ k <= l
  <2>1. PICK a \in Index, b \in Index : a = runqhead[p] /\ b = runqtail[p]
    BY DEF RunqInv, RunqType
  <2>2. PICK s \in Nat : s = Filled(p) /\ s = Gap(a, b) /\ s <= RingLen
    BY <2>1, FilledGap, GapLaw DEF RunqInv, Fits
  <2>3. PICK l \in Nat : l = Len(q) OBVIOUS
  <2>4. PICK k : k = IF RingLen - s < l THEN RingLen - s ELSE l OBVIOUS
  <2>5. k \in Nat /\ s + k <= RingLen /\ k <= l BY <2>2, <2>4, RingSizes
  <2> QED BY <2>1, <2>2, <2>3, <2>4, <2>5
<1>h. /\ a = runqhead[p] /\ b = runqtail[p] /\ s = Filled(p) /\ s = Gap(a, b)
      /\ s + k <= RingLen /\ k <= l
  BY <1>a
<1>s. Batched(p, q, k)
  <2>1. PICK e : e = IF RingLen - Filled(p) < Len(q) THEN RingLen - Filled(p) ELSE Len(q)
    OBVIOUS
  <2>2. Batched(p, q, e) BY <2>1 DEF PutBatch, Batched
  <2> QED BY <1>a, <2>1, <2>2
<1>0. /\ RunqType /\ Fits(p) /\ Steals(p)
      /\ rpc[p] = "idle" /\ rpc' = [rpc EXCEPT ![p] = IF k = l THEN "idle" ELSE "global"]
      /\ Advance(p, k) /\ out' = out \ Elems(q)
      /\ batch' = [batch EXCEPT ![p] = SubSeq(q, k + 1, l)]
      /\ UNCHANGED << runqhead, runnext, globq, schedLock, gp, victim, h, n, nx >>
  <2>1. l = Len(q) BY <1>a
  <2> QED BY <1>s, <2>1 DEF RunqInv, Batched, RGoto, thief
<1>q. runq' = [runq EXCEPT ![p] = [i \in DOMAIN @ |->
                 IF Back(i, runqtail[p]) < k THEN q[Back(i, runqtail[p]) + 1] ELSE @[i]]]
  BY <1>s DEF Batched, Back
<1>t. RunqType BY DEF RunqInv
<1>b. schedLock # p /\ batch[p] = << >> /\ gp[p] = NoG /\ Hold(p) = s
  BY <1>0, <1>a DEF Fits, Putting, Hold
<1>c. /\ batch'[p] = SubSeq(q, k + 1, l) /\ batch'[p] \in Seq(Gs)
      /\ Len(batch'[p]) = l - k /\ DOMAIN batch'[p] = 1 .. l - k
      /\ \A j \in 1 .. l - k : batch'[p][j] = q[k + j] /\ k + j \in 1 .. l
      /\ DOMAIN q = 1 .. l /\ \A j \in 1 .. l : q[j] \in Gs
  <2>1. batch'[p] = SubSeq(q, k + 1, l) BY <1>0 DEF RunqType
  <2>2. q \in Seq(Gs) /\ l = Len(q) BY <1>a
  <2>3. DOMAIN q = 1 .. l /\ \A j \in 1 .. l : q[j] \in Gs BY <2>2
  <2>4. /\ SubSeq(q, k + 1, l) \in Seq(Gs) /\ Len(SubSeq(q, k + 1, l)) = l - k
        /\ DOMAIN SubSeq(q, k + 1, l) = 1 .. l - k
        /\ \A j \in 1 .. l - k : SubSeq(q, k + 1, l)[j] = q[k + j] /\ k + j \in 1 .. l
    BY <1>h, <2>2, Part
  <2> QED BY <2>1, <2>3, <2>4
<1>d. /\ \A f : f \in Elems(q) <=> \E j \in 1 .. l : q[j] = f
      /\ \A j \in 1 .. l : q[j] \in out
  <2>1. \A f : f \in Elems(q) <=> \E j \in 1 .. l : q[j] = f BY <1>c DEF Elems
  <2>2. Elems(q) \subseteq out BY <1>s DEF Batched
  <2> QED BY <2>1, <2>2
<1>e. ASSUME NEW i \in 0 .. RingLen - 1
      PROVE  /\ Back(i, b) \in Nat
             /\ runq'[p][i] = IF Back(i, b) < k THEN q[Back(i, b) + 1] ELSE runq[p][i]
  <2>1. Back(i, b) \in Nat BY RingSizes DEF Back, Index
  <2>2. DOMAIN runq[p] = 0 .. RingLen - 1 /\ p \in DOMAIN runq BY <1>t DEF RunqType
  <2> QED BY <1>q, <1>h, <2>1, <2>2
<1>f. ASSUME NEW i \in Index, Gap(a, i) < s PROVE runq'[p][Slot(i)] = runq[p][Slot(i)]
  <2>1. Back(Slot(i), b) >= RingLen - s BY <1>h, <1>f, Room, RingSizes
  <2>2. Slot(i) \in 0 .. RingLen - 1 BY SlotIn
  <2>3. ~(Back(Slot(i), b) < k) BY <1>h, <1>e, <2>1, <2>2, RingSizes
  <2> QED BY <1>e, <2>2, <2>3
<1>g. ASSUME NEW i \in Index, Gap(b, i) < k
      PROVE  /\ runq'[p][Slot(i)] = q[Gap(b, i) + 1]
             /\ Gap(b, i) + 1 \in 1 .. k /\ Gap(b, i) + 1 \in 1 .. l /\ Nxt(b, Gap(b, i) + 1 - 1) = i
  <2>1. PICK d \in Nat : d = Gap(b, i) BY GapLaw
  <2>2. d < RingLen /\ d + 1 \in 1 .. k /\ d + 1 \in 1 .. l /\ d + 1 - 1 = d BY <1>h, <1>g, <2>1, RingSizes
  <2>3. Back(Slot(i), b) = d BY <2>1, <2>2, BackLaw
  <2>4. Slot(i) \in 0 .. RingLen - 1 BY SlotIn
  <2> QED BY <1>e, <1>g, <2>1, <2>2, <2>3, <2>4, Met
<1>1. Moves(p, p, 0, k)
  <2>1. Alone(p) BY <1>0, <1>q DEF Alone, RunqType
  <2> QED BY <1>0, <1>h, <1>f, <2>1, Advances
<1>2. /\ Filled(p)' = s + k /\ runqtail'[p] = Nxt(b, k) /\ Nxt(b, k) \in Index
      /\ Hold(p)' = s + k /\ s + k < Wrap
  <2>0. Filled(p)' = Filled(p) - 0 + k BY <1>t, <1>1, MovedRings
  <2>1. runqtail'[p] = Nxt(b, k) BY <1>t, <1>1, <1>h, MovedRings
  <2>2. k \in 0 .. Wrap - 1 /\ s + k < Wrap BY <1>h, RingSizes
  <2>3. rpc'[p] # "stolen" BY <1>0 DEF RunqType
  <2>4. Filled(p)' = s + k
    <3>1. Filled(p)' = s - 0 + k BY <1>h, <2>0
    <3>2. s - 0 + k = s + k OBVIOUS
    <3> QED BY <3>1, <3>2
  <2> QED BY <2>1, <2>2, <2>3, <2>4, NxtLaw DEF Hold
<1>3. RunqType'
  <2>1. ASSUME NEW i \in 0 .. RingLen - 1 PROVE runq'[p][i] \in Gs \cup {NoG}
    <3>1. CASE Back(i, b) < k
      <4>1. Back(i, b) + 1 \in 1 .. l BY <1>h, <1>e, <3>1
      <4> QED BY <1>c, <1>e, <3>1, <4>1
    <3>2. CASE ~(Back(i, b) < k) BY <1>t, <1>e, <3>2, ZenonT(30) DEF RunqType
    <3> QED BY <3>1, <3>2
  <2>2. runq' \in [Ps -> [0 .. RingLen - 1 -> Gs \cup {NoG}]]
    <3>1. /\ DOMAIN runq'[p] = 0 .. RingLen - 1 /\ runq'[p] = [i \in DOMAIN runq'[p] |-> runq'[p][i]]
          /\ \A r \in Ps \ {p} : runq'[r] = runq[r]
          /\ runq' = [r \in Ps |-> runq'[r]]
      BY <1>q, <1>t DEF RunqType
    <3>2. runq'[p] \in [0 .. RingLen - 1 -> Gs \cup {NoG}] BY <2>1, <3>1
    <3>3. \A r \in Ps : runq'[r] \in [0 .. RingLen - 1 -> Gs \cup {NoG}] BY <1>t, <3>1, <3>2 DEF RunqType
    <3> QED BY <3>1, <3>3
  <2>3. runqtail' \in [Ps -> Index]
    <3>1. runqtail' = [runqtail EXCEPT ![p] = Nxt(b, k)] BY <1>1, <1>h DEF Moves
    <3> QED BY <1>0, <1>2, <3>1 DEF RunqType
  <2>4. batch' \in [Ps -> Seq(Gs)] BY <1>0, <1>c DEF RunqType
  <2>5. out' \in SUBSET Gs /\ rpc' \in [Ps -> RPCs \ {"throw"}] BY <1>0 DEF RunqType, RPCs
  <2> QED BY <1>0, <2>2, <2>3, <2>4, <2>5, AsideType DEF RunqType
<1>4. ASSUME NEW z, NEW f
      PROVE  Ringed(p, z, f)' <=>
               Ringed(p, z, f) \/ (z \in Index /\ Gap(b, z) < k /\ q[Gap(b, z) + 1] = f)
  <2>1. rpc[p] # "stolen" /\ rpc'[p] # "stolen" BY <1>0 DEF RunqType
  <2>2. Ringed(p, z, f)' <=>
           \/ Ringed(p, z, f) /\ (p = p => 0 <= Gap(runqhead[p], z))
           \/ /\ p = p /\ z \in Index /\ runq'[p][Slot(z)] = f
              /\ Filled(p) <= Gap(runqhead[p], z) /\ Gap(runqhead[p], z) < Filled(p) + k
    BY <1>t, <1>0, <1>1, <2>1, RingsMove
  <2>3. ASSUME z \in Index
        PROVE  Gap(a, z) \in Nat /\ (s <= Gap(a, z) /\ Gap(a, z) < s + k <=> Gap(b, z) < k)
    <3>1. Gap(a, z) \in Nat BY <2>3, GapLaw
    <3>2. Gap(a, b) + k < Wrap BY <1>h, <1>2
    <3>3. Gap(a, b) <= Gap(a, z) /\ Gap(a, z) < Gap(a, b) + k <=> Gap(b, z) < k
      BY <2>3, <3>2, Ahead
    <3>4. s = Gap(a, b) BY <1>h
    <3> QED BY <3>1, <3>3, <3>4
  <2>4. Ringed(p, z, f)' <=>
           \/ Ringed(p, z, f) /\ (p = p => 0 <= Gap(a, z))
           \/ /\ p = p /\ z \in Index /\ runq'[p][Slot(z)] = f
              /\ s <= Gap(a, z) /\ Gap(a, z) < s + k
    <3>1. a = runqhead[p] /\ s = Filled(p) BY <1>h
    <3> QED BY <2>2, <3>1
  <2> QED BY <1>g, <2>4, <2>3 DEF Ringed
<1>5. Fits(p)'
  <2>1. \A i \in Index : Gap(runqhead'[p], i) < Hold(p)' => runq'[p][Slot(i)] \in Gs
    <3> SUFFICES ASSUME NEW i \in Index, Gap(runqhead'[p], i) < Hold(p)' PROVE runq'[p][Slot(i)] \in Gs
      OBVIOUS
    <3>0. PICK f : f = runq'[p][Slot(i)] OBVIOUS
    <3>1. Ringed(p, i, f)' BY <3>0 DEF Ringed
    <3>2. Ringed(p, i, f) \/ (Gap(b, i) < k /\ q[Gap(b, i) + 1] = f) BY <1>4, <3>1
    <3>3. Ringed(p, i, f) => f \in Gs BY <1>0 DEF Ringed, Fits
    <3>4. Gap(b, i) < k => q[Gap(b, i) + 1] \in Gs BY <1>c, <1>g
    <3> QED BY <3>0, <3>2, <3>3, <3>4
  <2>2. k = l => batch'[p] = << >> BY <1>c
  <2>3. rpc'[p] = IF k = l THEN "idle" ELSE "global" BY <1>0 DEF RunqType
  <2> QED BY <1>0, <1>h, <1>b, <1>2, <2>1, <2>2, <2>3, RingSizes DEF Fits, Putting, Thieving
<1>6. Steals(p)'
  <2>1. rpc'[p] \in {"idle", "global"} BY <1>0 DEF RunqType
  <2> QED BY <2>1 DEF Steals, Thieving
<1>7. ASSUME NEW f \in Gs PROVE OnePlace(f)'
  <2>1. OnePlace(f) BY DEF RunqInv
  <2>2. PICK t, r0, i : /\ Lies(t, r0, i, f)
                        /\ \A u, r, j : Lies(u, r, j, f) => u = t /\ r = r0 /\ j = i
    BY <2>1, OnceIs
  <2>3. \A u, r, j : Lies(u, r, j, f)' <=>
          \/ Lies(u, r, j, f) /\ ~(u = "out" /\ \E e \in 1 .. l : q[e] = f)
          \/ u = "ring" /\ r = p /\ j \in Index /\ Gap(b, j) < k /\ q[Gap(b, j) + 1] = f
          \/ u = "batch" /\ r = p /\ j \in 1 .. l - k /\ q[k + j] = f
    <3> SUFFICES ASSUME NEW u, NEW r, NEW j
                 PROVE  Lies(u, r, j, f)' <=>
          \/ Lies(u, r, j, f) /\ ~(u = "out" /\ \E e \in 1 .. l : q[e] = f)
          \/ u = "ring" /\ r = p /\ j \in Index /\ Gap(b, j) < k /\ q[Gap(b, j) + 1] = f
          \/ u = "batch" /\ r = p /\ j \in 1 .. l - k /\ q[k + j] = f
      OBVIOUS
    <3>1. CASE u \notin {"out", "ring", "batch"} BY <1>0, <3>1 DEF Lies
    <3>2. CASE u = "out" BY <1>0, <1>d, <3>2 DEF Lies
    <3>3. CASE u = "ring" /\ r = p BY <1>4, <3>3 DEF Lies
    <3>4. CASE u = "ring" /\ r # p
      <4>1. r \in Ps => (Ringed(r, j, f)' <=> Ringed(r, j, f))
        BY <1>0, <1>1, <3>4, RingsMove DEF RunqInv
      <4> QED BY <3>4, <4>1 DEF Lies
    <3>5. CASE u = "batch" /\ r # p BY <1>0, <3>5 DEF Lies, RunqType
    <3>6. CASE u = "batch" /\ r = p
      <4>1. Lies("batch", p, j, f)' <=> j \in 1 .. l - k /\ batch'[p][j] = f BY <1>c DEF Lies
      <4>2. ~Lies("batch", p, j, f) BY <1>b DEF Lies
      <4> QED BY <1>c, <3>6, <4>1, <4>2
    <3> QED BY <3>1, <3>2, <3>3, <3>4, <3>5, <3>6
  <2>4. CASE \A e \in 1 .. l : q[e] # f
    <3>1. \A j \in Index : Gap(b, j) < k => q[Gap(b, j) + 1] # f BY <1>g, <2>4
    <3>2. \A j \in 1 .. l - k : q[k + j] # f BY <1>c, <2>4
    <3>3. \A u, r, j : Lies(u, r, j, f)' <=> Lies(u, r, j, f) BY <2>3, <2>4, <3>1, <3>2
    <3> QED BY <2>1, <3>3, Stays
  <2>5. ASSUME NEW e \in 1 .. l, q[e] = f PROVE OnePlace(f)'
    <3>1. t = "out"
      <4>1. Lies("out", NoP, 0, f) BY <1>d, <2>5 DEF Lies
      <4> QED BY <2>2, <4>1
    <3>2. \A j \in 1 .. l : q[j] = f => j = e BY <1>c, <2>5
    <3>3. \A u, r, j : ~(Lies(u, r, j, f) /\ ~(u = "out" /\ \E v \in 1 .. l : q[v] = f))
      BY <2>2, <2>5, <3>1
    <3>4. CASE e <= k
      <4>1. PICK d \in 0 .. Wrap - 1 : d = e - 1 /\ d + 1 = e /\ d < k
        <5>1. e - 1 \in 0 .. Wrap - 1 /\ e - 1 + 1 = e /\ e - 1 < k BY <1>h, <3>4, RingSizes
        <5> QED BY <5>1
      <4>2. PICK x \in Index : x = Nxt(b, d) /\ Gap(b, x) = d BY NxtLaw
      <4>3. Lies("ring", p, x, f)' BY <2>3, <2>5, <4>1, <4>2
      <4>4. ASSUME NEW u, NEW r, NEW j, Lies(u, r, j, f)' PROVE u = "ring" /\ r = p /\ j = x
        <5>1. CASE u = "ring" /\ r = p /\ j \in Index /\ Gap(b, j) < k /\ q[Gap(b, j) + 1] = f
          <6>1. Gap(b, j) + 1 = e /\ Gap(b, j) \in Nat BY <1>g, <3>2, <5>1, GapLaw
          <6>2. Gap(b, j) = d BY <4>1, <6>1
          <6>3. Nxt(b, Gap(b, j)) = j BY <5>1, Met
          <6> QED BY <4>2, <5>1, <6>2, <6>3
        <5>2. CASE u = "batch" /\ r = p /\ j \in 1 .. l - k /\ q[k + j] = f
          <6>1. k + j = e BY <1>c, <3>2, <5>2
          <6> QED BY <3>4, <5>2, <6>1
        <5> QED BY <2>3, <3>3, <4>4, <5>1, <5>2
      <4> QED BY <4>3, <4>4, Lands
    <3>5. CASE ~(e <= k)
      <4>1. PICK x \in 1 .. l - k : k + x = e
        <5>1. e - k \in 1 .. l - k /\ k + (e - k) = e BY <3>5
        <5> QED BY <5>1
      <4>3. Lies("batch", p, x, f)' BY <2>3, <2>5, <4>1
      <4>4. ASSUME NEW u, NEW r, NEW j, Lies(u, r, j, f)' PROVE u = "batch" /\ r = p /\ j = x
        <5>1. CASE u = "ring" /\ r = p /\ j \in Index /\ Gap(b, j) < k /\ q[Gap(b, j) + 1] = f
          <6>1. Gap(b, j) + 1 = e /\ Gap(b, j) + 1 \in 1 .. k BY <1>g, <3>2, <5>1
          <6> QED BY <3>5, <6>1
        <5>2. CASE u = "batch" /\ r = p /\ j \in 1 .. l - k /\ q[k + j] = f
          <6>1. k + j = k + x BY <1>c, <3>2, <4>1, <5>2
          <6> QED BY <5>2, <6>1
        <5> QED BY <2>3, <3>3, <4>4, <5>1, <5>2
      <4> QED BY <4>3, <4>4, Lands
    <3> QED BY <3>4, <3>5
  <2> QED BY <2>4, <2>5
<1> QED BY <1>0, <1>1, <1>3, <1>5, <1>6, <1>7, OthersKept DEF RunqInv

-----------------------------------------------------------------------------
(* runqempty *)
(* An M without a P only reads. *)
LEMMA UnmovedKeeps ==
  ASSUME RunqInv, UNCHANGED << queues, schedLock, rpc, gp, batch, thief >>, WatchType', Watches'
  PROVE  RunqInv'
<1>0. UNCHANGED << runqhead, runqtail, runq, runnext, globq, out, schedLock, rpc, gp, batch,
                   victim, h, n, nx >>
  BY DEF queues, thief
<1>1. RunqType' BY <1>0 DEF RunqInv, RunqType
<1>2. ASSUME NEW p \in Ps PROVE Fits(p)' /\ Steals(p)'
  <2>1. Fits(p)' BY <1>0 DEF RunqInv, Fits, Filled, Hold
  <2>2. Steals(p)' BY <1>0 DEF RunqInv, Steals, Behind, Filled, Copied
  <2> QED BY <2>1, <2>2
<1>3. ASSUME NEW f \in Gs PROVE OnePlace(f)'
  <2>1. \A t, q, i : Lies(t, q, i, f)' <=> Lies(t, q, i, f) BY <1>0 DEF Lies, Ringed, Hold, Filled
  <2> QED BY <2>1, Stays DEF RunqInv
<1> QED BY <1>1, <1>2, <1>3 DEF RunqInv

(* The tail is read twice: if it stands still then nothing has been put, and *)
(* a ring that was empty at the first reading was at the second (6685-6698).  *)
LEMMA WatcherKeeps ==
  ASSUME RunqInv, UNCHANGED << queues, schedLock, rpc, gp, batch, thief >>,
         (\E p \in Ps : IsEmptyHead(p)) \/ WatchStep,
         sawEmpty' = (spc' # "idle" /\ (sawEmpty \/ IsEmptyQ(target)'))
  PROVE  RunqInv'
<1>0. /\ RunqType /\ WatchType /\ Watches
      /\ UNCHANGED << runqhead, runqtail, runnext >>
  BY DEF RunqInv, RunqType, queues
<1>b. sawEmpty' \in BOOLEAN OBVIOUS
<1>z. 0 \in Index BY RingSizes DEF Index
<1>m. \A p \in Ps : /\ runqhead[p] \in Index /\ runqtail[p] \in Index
                    /\ Gap(runqhead[p], runqhead[p]) = 0
                    /\ Gap(runqhead[p], runqtail[p]) \in Nat
                    /\ Filled(p) = Gap(runqhead[p], runqtail[p]) /\ Filled(p)' = Filled(p)
  <2> SUFFICES ASSUME NEW p \in Ps
               PROVE  /\ runqhead[p] \in Index /\ runqtail[p] \in Index
                    /\ Gap(runqhead[p], runqhead[p]) = 0
                    /\ Gap(runqhead[p], runqtail[p]) \in Nat
                    /\ Filled(p) = Gap(runqhead[p], runqtail[p]) /\ Filled(p)' = Filled(p)
    OBVIOUS
  <2>1. runqhead[p] \in Index /\ runqtail[p] \in Index BY <1>0 DEF RunqType
  <2>2. Filled(p)' = Filled(p) BY <1>0 DEF Filled
  <2> QED BY <2>1, <2>2, Met, GapLaw, FilledGap
<1>h. ASSUME NEW p \in Ps, target' = p, shead' = runqhead[p], spc' = "tail",
             stail' \in Index, snext' \in Gs \cup {NoG}
      PROVE  WatchType' /\ Watches'
  <2>1. Behind(shead, target)' BY <1>0, <1>h, <1>m DEF Behind
  <2>2. WatchType' BY <1>b, <1>h, <1>m DEF WatchType, Watching
  <2> QED BY <1>h, <2>1, <2>2 DEF Watches
<1>1. CASE \E p \in Ps : IsEmptyHead(p)
  <2>1. WatchType' /\ Watches' BY <1>0, <1>1, <1>h DEF IsEmptyHead, WatchType
  <2> QED BY <2>1, UnmovedKeeps
<1>2. CASE IsEmptyTail
  <2>0. /\ spc = "tail" /\ spc' = "next" /\ target \in Ps /\ target' = target
        /\ stail' = runqtail[target] /\ shead' = shead /\ snext' = snext
        /\ Behind(shead, target) /\ shead \in Index
    BY <1>0, <1>2 DEF IsEmptyTail, Watches, WatchType
  <2>1. WatchType' BY <1>0, <1>b, <1>m, <2>0 DEF WatchType, Watching
  <2>2. ASSUME shead = runqtail[target] PROVE Filled(target) = 0
    <3>1. Gap(shead, runqtail[target]) = 0 BY <2>0, <2>2, <1>m, Met
    <3>2. Gap(shead, runqhead[target]) \in Nat BY <2>0, <1>m, GapLaw
    <3>3. Gap(shead, runqhead[target]) + Filled(target) = 0 BY <2>0, <3>1 DEF Behind
    <3>4. Filled(target) \in Nat BY <1>m, <2>0
    <3> QED BY <3>2, <3>3, <3>4
  <2>3. (Filled(target) = 0)' <=> Filled(target) = 0 BY <1>m, <2>0 DEF Filled
  <2>4. Watches' BY <1>0, <2>0, <2>2, <2>3 DEF Watches
  <2> QED BY <2>1, <2>4, UnmovedKeeps
<1>3. CASE IsEmptyNext
  <2>0. /\ spc = "next" /\ spc' = "recheck" /\ target \in Ps /\ target' = target
        /\ stail' = stail /\ shead' = shead /\ snext' = runnext[target]
    BY <1>0, <1>3 DEF IsEmptyNext, Watches
  <2>1. WatchType' BY <1>0, <1>b, <1>m, <2>0 DEF RunqType, WatchType, Watching
  <2>2. ASSUME shead = stail, stail = runqtail[target], runnext[target] = NoG
        PROVE  sawEmpty'
    <3>1. Filled(target) = 0 BY <1>0, <2>0, <2>2 DEF Watches
    <3>2. IsEmptyQ(target)' BY <1>0, <2>0, <2>2, <3>1 DEF IsEmptyQ, Filled
    <3> QED BY <2>0, <3>2
  <2>4. Watches' BY <1>0, <2>0, <2>2 DEF Watches
  <2> QED BY <2>1, <2>4, UnmovedKeeps
<1>4. CASE IsEmptyRecheck
  <2>0. /\ spc = "recheck" /\ target \in Ps
        /\ spc' = IF stail # runqtail[target] THEN "again"
                  ELSE IF shead = stail /\ snext = NoG THEN "empty" ELSE "idle"
        /\ target' = IF spc' = "idle" THEN NoP ELSE target
        /\ shead' = 0 /\ stail' = 0 /\ snext' = NoG
    BY <1>0, <1>4 DEF IsEmptyRecheck, Watches
  <2>1. WatchType' BY <1>b, <1>z, <2>0 DEF WatchType, Watching
  <2>2. spc' = "empty" => sawEmpty' BY <1>0, <2>0 DEF Watches
  <2>3. Watches' BY <2>0, <2>2 DEF Watches
  <2> QED BY <2>1, <2>3, UnmovedKeeps
<1>5. CASE IsEmptyAgain
  <2>0. target \in Ps /\ target' = target BY <1>0, <1>5 DEF IsEmptyAgain, Watches
  <2>1. WatchType' /\ Watches' BY <1>0, <1>5, <1>h, <2>0 DEF IsEmptyAgain, WatchType
  <2> QED BY <2>1, UnmovedKeeps
<1>6. CASE IsEmptyReturn
  <2>1. WatchType' /\ Watches' BY <1>0, <1>b, <1>6 DEF IsEmptyReturn, WatchType, Watches, Watching
  <2> QED BY <2>1, UnmovedKeeps
<1> QED BY <1>1, <1>2, <1>3, <1>4, <1>5, <1>6 DEF WatchStep

-----------------------------------------------------------------------------
(* Every step keeps the invariant. *)
LEMMA StepKeeps == RunqInv /\ [RunqNext]_runqVars => RunqInv'
<1>1. ASSUME RunqInv, RunqNext PROVE RunqInv'
  <2>1. CASE \E p \in Ps : (POp(p) \/ PStep(p)) /\ Aside
    <3>1. PICK p \in Ps : POp(p) \/ PStep(p) BY <2>1
    <3>2. Aside BY <2>1
    <3>3. CASE \E g1, g2 \in Gs : g1 # g2 /\ PutBatch(p, << g1, g2 >>)
      <4>1. PICK g1 \in Gs, g2 \in Gs : g1 # g2 /\ PutBatch(p, << g1, g2 >>) BY <3>3
      <4>0. << g1, g2 >> \in Seq(Gs) OBVIOUS
      <4>2. PICK q \in Seq(Gs) : q = << g1, g2 >> BY <4>0
      <4>3. \A i, j \in DOMAIN q : i # j => q[i] # q[j] BY <4>1, <4>2
      <4>4. PutBatch(p, q) BY <4>1, <4>2
      <4> QED BY <1>1, <3>2, <4>3, <4>4, PutBatchKeeps
    <3>4. CASE \E g \in Gs : PutNext(p, g) \/ Put(p, g)
      BY <1>1, <3>2, <3>4, PutNextKeeps, PutKeeps
    <3>5. CASE \E max \in {0, 1} : GlobGet(p, max) BY <1>1, <3>2, <3>5, GlobGetKeeps
    <3>6. CASE \E p2 \in Ps : GrabHead(p, p2) BY <1>1, <3>2, <3>6, GrabHeadKeeps
    <3>7. CASE GetNext(p) \/ GetRing(p) \/ DrainNext(p)
      BY <1>1, <3>2, <3>7, GetNextKeeps, GetRingKeeps, DrainNextKeeps
    <3>8. CASE PutRing(p) \/ PutPublish(p) \/ PutSlow(p) \/ PutGlobal(p) \/ PutRest(p)
      BY <1>1, <3>2, <3>8, PutRingKeeps, PutPublishKeeps, PutSlowKeeps, PutGlobalKeeps, PutRestKeeps
    <3>9. CASE DrainRing(p) BY <1>1, <3>2, <3>9, DrainRingKeeps
    <3>10. CASE GrabAgain(p) \/ GrabCopy(p) \/ GrabInconsistent(p) \/ GrabNothing(p)
      BY <1>1, <3>2, <3>10, GrabAgainKeeps, GrabCopyKeeps, GrabInconsistentKeeps, GrabNothingKeeps
    <3>11. CASE GrabTryNext(p) \/ GrabLoadNext(p) \/ GrabNext(p)
      BY <1>1, <3>2, <3>11, GrabTryNextKeeps, GrabLoadNextKeeps, GrabNextKeeps
    <3>12. CASE GrabCas(p) \/ StealPublish(p)
      BY <1>1, <3>2, <3>12, GrabCasKeeps, StealPublishKeeps
    <3> QED BY <3>1, <3>3, <3>4, <3>5, <3>6, <3>7, <3>8, <3>9, <3>10, <3>11, <3>12 DEF POp, PStep
  <2>2. CASE /\ (\E p \in Ps : IsEmptyHead(p)) \/ WatchStep
             /\ UNCHANGED << queues, schedLock, rpc, gp, batch, thief >>
    BY <1>1, <2>2, WatcherKeeps DEF RunqNext
  <2> QED BY <1>1, <2>1, <2>2 DEF RunqNext, Aside
<1>2. ASSUME RunqInv, UNCHANGED runqVars PROVE RunqInv'
  <2>1. UNCHANGED << queues, schedLock, rpc, gp, batch, thief >> BY <1>2 DEF runqVars
  <2>2. UNCHANGED << runqhead, runqtail, runnext, watcher, sawEmpty >> BY <1>2 DEF runqVars, queues
  <2>3. UNCHANGED << spc, target, shead, stail, snext, sawEmpty >> BY <2>2 DEF watcher
  <2>4. WatchType' BY <1>2, <2>3 DEF RunqInv, RunqType, WatchType
  <2>5. Watches' BY <1>2, <2>2, <2>3 DEF RunqInv, Watches, Behind, Filled
  <2> QED BY <1>2, <2>1, <2>4, <2>5, UnmovedKeeps
<1> QED BY <1>1, <1>2

-----------------------------------------------------------------------------
(* In the beginning.  Each slot belongs to one index of the ring. *)
LEMMA SlotFound ==
  ASSUME NEW a \in Index, NEW i \in 0 .. RingLen - 1
  PROVE  \E z \in Index : Slot(z) = i /\ Gap(a, z) < RingLen /\ Gap(a, z) = Back(i, a)
<1>1. PICK q \in Nat, w \in 0 .. RingLen - 1 : a = RingLen * q + w
  <2>1. a \in Nat BY RingSizes DEF Index
  <2> QED BY <2>1, DivFacts, RingSizes
<1>2. \E d \in 0 .. RingLen - 1 : (a + d) % RingLen = i
  <2>0. RingLen * q \in Nat /\ RingLen * (q + 1) = RingLen * q + RingLen BY RingSizes
  <2>1. CASE w <= i
    <3>1. i - w \in 0 .. RingLen - 1 /\ a + (i - w) = RingLen * q + i
      BY <1>1, <2>0, <2>1, RingSizes
    <3>2. (RingLen * q + i) % RingLen = i BY RingSizes, ModUnique
    <3> QED BY <3>1, <3>2
  <2>2. CASE ~(w <= i)
    <3>1. i - w + RingLen \in 0 .. RingLen - 1 /\ a + (i - w + RingLen) = RingLen * (q + 1) + i
      BY <1>1, <2>0, <2>2, RingSizes
    <3>2. (RingLen * (q + 1) + i) % RingLen = i BY RingSizes, ModUnique
    <3> QED BY <3>1, <3>2
  <2> QED BY <2>1, <2>2
<1>3. PICK d \in 0 .. RingLen - 1 : (a + d) % RingLen = i BY <1>2
<1>4. d \in 0 .. Wrap - 1 /\ d < RingLen BY RingSizes
<1>5. PICK z \in Index : z = Nxt(a, d) /\ Gap(a, z) = d /\ Slot(z) = i
  BY <1>3, <1>4, NxtLaw, SlotNxt
<1>6. Back(Slot(z), a) = Gap(a, z) BY <1>4, <1>5, BackLaw
<1> QED BY <1>4, <1>5, <1>6

LEMMA InitHolds == RunqInit => RunqInv
<1> SUFFICES ASSUME RunqInit PROVE RunqInv OBVIOUS
<1>a. Start \in Index /\ 0 \in Index BY RunqAssumption, RingSizes DEF Index
<1>1. PICK p \in Ps, g \in [0 .. RingLen - 1 -> Gs], k \in 0 .. RingLen :
        /\ \A i, j \in DOMAIN g : i # j => g[i] # g[j]
        /\ runqtail = [q \in Ps |-> (Start + IF q = p THEN k ELSE 0) % Wrap]
        /\ runq = [q \in Ps |-> [i \in DOMAIN g |->
                     IF q = p /\ (i - Start) % RingLen < k THEN g[i] ELSE NoG]]
        /\ out = Gs \ {runq[p][i] : i \in DOMAIN g}
  BY DEF RunqInit
<1>0. /\ runqhead = [q \in Ps |-> Start] /\ runnext = [q \in Ps |-> NoG]
      /\ globq = << >> /\ schedLock = NoP /\ rpc = [q \in Ps |-> "idle"]
      /\ gp = [q \in Ps |-> NoG] /\ batch = [q \in Ps |-> << >>]
      /\ victim = [q \in Ps |-> NoP] /\ h = [q \in Ps |-> 0] /\ n = [q \in Ps |-> 0]
      /\ nx = [q \in Ps |-> NoG]
      /\ spc = "idle" /\ target = NoP /\ shead = 0 /\ stail = 0 /\ snext = NoG /\ sawEmpty = FALSE
  BY DEF RunqInit
<1>k. k \in Nat /\ k \in 0 .. Wrap - 1 /\ 0 \in 0 .. Wrap - 1 /\ DOMAIN g = 0 .. RingLen - 1
  BY RingSizes
<1>2. /\ runqtail[p] = Nxt(Start, k)
      /\ \A q \in Ps \ {p} : runqtail[q] = Nxt(Start, 0)
      /\ runqtail = [q \in Ps |-> IF q = p THEN Nxt(Start, k) ELSE Nxt(Start, 0)]
  BY <1>1 DEF Nxt
<1>3. \A q \in Ps : Filled(q) = (IF q = p THEN k ELSE 0) /\ Hold(q) = (IF q = p THEN k ELSE 0)
  <2> SUFFICES ASSUME NEW q \in Ps
               PROVE  Filled(q) = (IF q = p THEN k ELSE 0) /\ Hold(q) = (IF q = p THEN k ELSE 0)
    OBVIOUS
  <2>1. Filled(q) = Gap(Start, runqtail[q]) BY <1>0, FilledGap
  <2>2. Filled(q) = (IF q = p THEN k ELSE 0) BY <1>a, <1>k, <1>2, <2>1, NxtLaw
  <2>3. rpc[q] # "stolen" BY <1>0
  <2> QED BY <1>k, <2>2, <2>3 DEF Hold
<1>4. ASSUME NEW i \in 0 .. RingLen - 1
      PROVE  /\ runq[p][i] = IF Back(i, Start) < k THEN g[i] ELSE NoG
             /\ \A q \in Ps \ {p} : runq[q][i] = NoG
  BY <1>1, <1>k DEF Back
<1>5. ASSUME NEW z \in Index, Gap(Start, z) < k
      PROVE  /\ Slot(z) \in 0 .. RingLen - 1 /\ Back(Slot(z), Start) = Gap(Start, z)
             /\ runq[p][Slot(z)] = g[Slot(z)]
  <2>0. Gap(Start, z) \in Nat /\ Gap(Start, z) < RingLen BY <1>a, <1>5, GapLaw, RingSizes
  <2>1. Slot(z) \in 0 .. RingLen - 1 BY SlotIn
  <2>2. Back(Slot(z), Start) = Gap(Start, z) BY <1>a, <2>0, BackLaw
  <2> QED BY <1>4, <1>5, <2>1, <2>2
<1>6. RunqType
  <2>1. runq \in [Ps -> [0 .. RingLen - 1 -> Gs \cup {NoG}]] BY <1>1, <1>k
  <2>2. runqtail \in [Ps -> Index]
    <3>1. Nxt(Start, k) \in Index /\ Nxt(Start, 0) \in Index BY <1>a, <1>k, NxtLaw
    <3> QED BY <1>2, <3>1
  <2>3. WatchType BY <1>0, <1>a DEF WatchType, Watching
  <2>4. globq \in Seq(Gs) /\ batch \in [Ps -> Seq(Gs)]
    <3>1. << >> \in Seq(Gs) OBVIOUS
    <3> QED BY <1>0, <3>1
  <2>5. out \in SUBSET Gs BY <1>1
  <2> QED BY <1>0, <1>a, <2>1, <2>2, <2>3, <2>4, <2>5 DEF RunqType, RPCs
<1>7. ASSUME NEW q \in Ps PROVE Fits(q) /\ Steals(q)
  <2>1. Filled(q) <= RingLen BY <1>3, <1>k, RingSizes
  <2>2. \A i \in Index : Gap(runqhead[q], i) < Hold(q) => runq[q][Slot(i)] \in Gs
    <3> SUFFICES ASSUME NEW i \in Index, Gap(Start, i) < Hold(q) PROVE runq[q][Slot(i)] \in Gs
      BY <1>0
    <3>1. CASE q = p
      <4>1. Gap(Start, i) < k BY <1>3, <3>1
      <4> QED BY <1>5, <3>1, <4>1
    <3>2. CASE q # p
      <4>1. Gap(Start, i) \in Nat /\ Gap(Start, i) < 0 BY <1>3, <1>a, <3>2, GapLaw
      <4> QED BY <4>1
    <3> QED BY <3>1, <3>2
  <2>3. schedLock # q /\ rpc[q] = "idle" /\ batch[q] = << >> /\ gp[q] = NoG
    BY <1>0, RunqAssumption
  <2>4. Fits(q) BY <2>1, <2>2, <2>3 DEF Fits, Putting, Thieving
  <2>5. Steals(q) BY <2>3 DEF Steals, Thieving
  <2> QED BY <2>4, <2>5
<1>8. Watches BY <1>0 DEF Watches
<1>9. ASSUME NEW f \in Gs PROVE OnePlace(f)
  <2>1. \A q \in Ps : \A z : Ringed(q, z, f) <=>
           q = p /\ z \in Index /\ Gap(Start, z) < k /\ g[Slot(z)] = f
    <3> SUFFICES ASSUME NEW q \in Ps, NEW z
                 PROVE  Ringed(q, z, f) <=>
           q = p /\ z \in Index /\ Gap(Start, z) < k /\ g[Slot(z)] = f
      OBVIOUS
    <3>1. CASE q = p BY <1>0, <1>3, <1>5, <3>1 DEF Ringed
    <3>2. CASE q # p
      <4>1. z \in Index => Gap(Start, z) \in Nat BY <1>a, GapLaw
      <4> QED BY <1>0, <1>3, <3>2, <4>1 DEF Ringed
    <3> QED BY <3>1, <3>2
  <2>2. \A t, q, i : Lies(t, q, i, f) <=>
          \/ t = "out" /\ q = NoP /\ i = 0 /\ f \in out
          \/ t = "ring" /\ q = p /\ i \in Index /\ Gap(Start, i) < k /\ g[Slot(i)] = f
    BY <1>0, <2>1, RunqAssumption DEF Lies
  <2>3. f \in out <=> \A i \in 0 .. RingLen - 1 : runq[p][i] # f BY <1>1, <1>k
  <2>4. CASE f \in out
    <3>1. ASSUME NEW z \in Index, Gap(Start, z) < k PROVE g[Slot(z)] # f
      BY <1>5, <2>3, <2>4, <3>1
    <3>2. Lies("out", NoP, 0, f) BY <2>2, <2>4
    <3>3. \A u, r, j : Lies(u, r, j, f) => u = "out" /\ r = NoP /\ j = 0 BY <2>2, <3>1
    <3> QED BY <3>2, <3>3, OnceIs
  <2>5. CASE f \notin out
    <3>1. PICK i \in 0 .. RingLen - 1 : runq[p][i] = f BY <2>3, <2>5
    <3>2. Back(i, Start) < k /\ g[i] = f BY <1>4, <3>1, RunqAssumption
    <3>3. PICK z \in Index : Slot(z) = i /\ Gap(Start, z) = Back(i, Start) BY <1>a, SlotFound
    <3>4. Lies("ring", p, z, f) BY <2>2, <3>2, <3>3
    <3>5. ASSUME NEW y \in Index, Gap(Start, y) < k, g[Slot(y)] = f PROVE y = z
      <4>1. Slot(y) = i BY <1>1, <1>5, <1>k, <3>2, <3>5
      <4>2. Gap(Start, y) = Gap(Start, z) BY <1>5, <3>3, <3>5, <4>1
      <4>3. Nxt(Start, Gap(Start, y)) = y /\ Nxt(Start, Gap(Start, z)) = z BY <1>a, Met
      <4> QED BY <4>2, <4>3
    <3> QED BY <2>2, <2>5, <3>4, <3>5, OnceIs
  <2> QED BY <2>4, <2>5
<1> QED BY <1>6, <1>7, <1>8, <1>9 DEF RunqInv

-----------------------------------------------------------------------------
(* For any number of Ps and goroutines, any even length of the rings, and     *)
(* wherever their indexes start: every step of runqput, runqputslow,          *)
(* runqputbatch, runqget, runqdrain, globrunqget, runqgrab, runqsteal and     *)
(* runqempty keeps the invariant (proc.go:6303-6334, 6683-6979).              *)
THEOREM RunqInductive == RunqSpec => []RunqInv
BY InitHolds, StepKeeps, PTL DEF RunqSpec

(* The invariant says what the run checks. *)
LEMMA InvOnce == RunqInv => GoroutinesOnce
<1> SUFFICES ASSUME RunqInv PROVE GoroutinesOnce OBVIOUS
<1>1. rpc \in [Ps -> RPCs \ {"throw"}] BY DEF RunqInv, RunqType
<1>2. \A p \in Ps : Filled(p) <= RingLen /\ ~(rpc[p] = "global" /\ schedLock = p)
  BY DEF RunqInv, Fits, Putting
<1>3. ASSUME NEW g \in Gs PROVE Cardinality(Places(g)) = 1
  <2>1. PICK x \in Places(g) : Places(g) = {x} BY DEF RunqInv, OnePlace
  <2> QED BY <2>1, FS_Singleton
<1> QED BY <1>1, <1>2, <1>3 DEF GoroutinesOnce

(* No goroutine is lost or in two places, no ring overflows, none of the      *)
(* throws of runqputslow and runqsteal is reached, and no P asks for          *)
(* sched.lock while it holds it (proc.go:6746-6751, 6774-6776, 6944-6952,     *)
(* 6971-6976).                                                                *)
THEOREM OnceEach == RunqSpec => []GoroutinesOnce
BY RunqInductive, InvOnce, PTL

LEMMA InvSeen == RunqInv => EmptyNotSpurious
BY DEF RunqInv, Watches, EmptyNotSpurious

(* When runqempty says that a queue is empty it was, at a moment of that      *)
(* call (proc.go:6683-6697).                                                  *)
THEOREM NeverSpurious == RunqSpec => []EmptyNotSpurious
BY RunqInductive, InvSeen, PTL

-----------------------------------------------------------------------------
(* Semaphores *)

LockHolders == {"a_check", "a_undo", "a_queue", "r_deq"}

(* The goroutine between lockWithRank(&root.lock) and the unlock holds it. *)
LockInv == \A p \in Procs : pc[p] \in LockHolders <=> rootLock = p

(* A goroutine in a call has arguments; a ticket goes to a waiter that leaves. *)
CallInv ==
  \A p \in Procs :
    /\ pc[p] # "idle" => req[p] \in Reqs
    /\ ticket[p] => pc[p] \in {"a_parked", "a_woke", "a_ret"}

(* A sudog is queued once, on the address its goroutine sleeps on, unserved. *)
QueueInv ==
  \A a \in Addrs :
    /\ NoRepeat(queue[a])
    /\ \A p \in Procs :
         Occurs(p, queue[a]) => pc[p] = "a_parked" /\ Addr(p) = a /\ ~ticket[p]

(* A dequeued waiter sleeps on the releaser's address until that releaser,    *)
(* and no other, readies it; it gets a ticket only then.                      *)
WakeInv ==
  /\ \A r \in Procs :
       IF pc[r] \in {"r_handoff", "r_ready"}
       THEN /\ wakee[r] \in Procs
            /\ pc[wakee[r]] = "a_parked"
            /\ Addr(wakee[r]) = Addr(r)
            /\ ~Occurs(wakee[r], queue[Addr(r)])
            /\ pc[r] = "r_handoff" => ~ticket[wakee[r]]
       ELSE wakee[r] = NoProc
  /\ \A r, s \in Procs : wakee[r] = wakee[s] /\ wakee[r] # NoProc => r = s

(* The waiters nwait counts: announced under the lock, or queued. *)
Counted ==
  {p \in Procs : \/ pc[p] \in {"a_check", "a_undo", "a_queue"}
                 \/ pc[p] = "a_parked" /\ Occurs(p, queue[Addr(p)])}

CountInv == nwait = Cardinality(Counted)

IInv == /\ TypeOK /\ LockInv /\ CallInv /\ QueueInv /\ WakeInv /\ CountInv
        /\ PermitsConserved /\ NoLostWakeup

(* The vocabulary of the model, visible in every leaf. *)
USE SemaRootAssumption
USE DEF LockHolders, Reqs, AcquirePCs, ReleasePCs, Addr, Goto, Lock, Unlock,
        CanSemacquire, CannotSemacquire

(* The releasers that have been counted in the ledger but not in *addr. *)
Adders(a) == At(a, {"r_xadd"})

(* Every set that the invariants count is a set of goroutines. *)
LEMMA CountedSets ==
  /\ Counted \in SUBSET Procs
  /\ \A a \in Addrs : /\ Takers(a) \in SUBSET Procs
                      /\ Adders(a) \in SUBSET Procs
                      /\ OnTheWay(a) \in SUBSET Procs
  BY DEF Counted, Takers, Adders, At, OnTheWay

(* They are so after a step as well. *)
LEMMA CountedSetsNext ==
  /\ Counted' \in SUBSET Procs
  /\ \A a \in Addrs : /\ Takers(a)' \in SUBSET Procs
                      /\ Adders(a)' \in SUBSET Procs
                      /\ OnTheWay(a)' \in SUBSET Procs
  BY DEF Counted, Takers, Adders, At, OnTheWay

(* A set counted by the invariants gains or loses one goroutine, or stays. *)
Joins(p, S, T)  == p \notin S /\ p \in T /\ \A q \in Procs : q # p => (q \in S <=> q \in T)
Leaves(p, S, T) == Joins(p, T, S)

(* The sizes follow. *)
LEMMA Sizes ==
  ASSUME NEW S \in SUBSET Procs, NEW T \in SUBSET Procs, NEW p
  PROVE  /\ Cardinality(S) \in Nat /\ Cardinality(T) \in Nat
         /\ Joins(p, S, T)  => Cardinality(T) = Cardinality(S) + 1
         /\ Leaves(p, S, T) => Cardinality(S) = Cardinality(T) + 1
  BY Countable, CountGain DEF Joins, Leaves

(* A step that takes, adds and returns no permit conserves them. *)
LEMMA PermitsUntouched ==
  ASSUME IInv, TypeOK', UNCHANGED << sema, ledger >>,
         \A a \in Addrs : Takers(a)' = Takers(a) /\ Adders(a)' = Adders(a)
  PROVE  PermitsConserved'
  BY DEF IInv, PermitsConserved, Adders

(* A permit that leaves *addr has a new owner (cansemacquire, sema.go:272-282). *)
LEMMA PermitTaken ==
  ASSUME IInv, TypeOK', NEW b \in Addrs, sema[b] > 0,
         sema' = [sema EXCEPT ![b] = @ - 1], UNCHANGED ledger,
         NEW p, Joins(p, Takers(b), Takers(b)'),
         \A a \in Addrs : a # b => Takers(a)' = Takers(a),
         \A a \in Addrs : Adders(a)' = Adders(a)
  PROVE  PermitsConserved'
<1> SUFFICES ASSUME NEW a \in Addrs
             PROVE  sema'[a] + Cardinality(Takers(a)') + Cardinality(Adders(a)') = ledger'[a]
  BY DEF PermitsConserved, Adders
<1>1. sema[a] + Cardinality(Takers(a)) + Cardinality(Adders(a)) = ledger[a]
  BY DEF IInv, PermitsConserved, Adders
<1>2. /\ Cardinality(Takers(a)) \in Nat /\ Cardinality(Adders(a)) \in Nat
      /\ a = b => Cardinality(Takers(a)') = Cardinality(Takers(a)) + 1
  BY CountedSets, CountedSetsNext, Sizes
<1> QED BY SMTT(30), <1>1, <1>2 DEF IInv, TypeOK

(* Nobody falls asleep over a free permit, none comes free, and nobody who was *)
(* on the way to one turns back: no wakeup is lost.                            *)
LEMMA WakeupsUntouched ==
  ASSUME IInv,
         \A a \in Addrs : Asleep(a)' =>
           \/ sema'[a] = 0
           \/ Asleep(a) /\ sema'[a] = sema[a] /\ OnTheWay(a)' = OnTheWay(a)
  PROVE  NoLostWakeup'
<1> SUFFICES ASSUME NEW a \in Addrs, Asleep(a)'
             PROVE  sema'[a] <= Cardinality(OnTheWay(a)')
  BY DEF NoLostWakeup
<1>1. CASE sema'[a] = 0 BY <1>1, CountedSetsNext, Countable
<1>2. CASE Asleep(a) /\ sema'[a] = sema[a] /\ OnTheWay(a)' = OnTheWay(a)
  <2>1. sema[a] <= Cardinality(OnTheWay(a)) BY <1>2 DEF IInv, NoLostWakeup
  <2> QED BY <1>2, <2>1
<1> QED BY <1>1, <1>2

(* One goroutine comes off the way to a free permit, with the permit. *)
LEMMA WakeupDone ==
  ASSUME IInv, NEW b \in Addrs, sema' = [sema EXCEPT ![b] = @ - 1],
         \A a \in Addrs : Asleep(a)' => Asleep(a),
         NEW p, Leaves(p, OnTheWay(b), OnTheWay(b)'),
         \A a \in Addrs : a # b => OnTheWay(a)' = OnTheWay(a)
  PROVE  NoLostWakeup'
<1> SUFFICES ASSUME NEW a \in Addrs, Asleep(a)'
             PROVE  sema'[a] <= Cardinality(OnTheWay(a)')
  BY DEF NoLostWakeup
<1>1. sema[a] <= Cardinality(OnTheWay(a)) BY DEF IInv, NoLostWakeup
<1>2. /\ Cardinality(OnTheWay(a)') \in Nat
      /\ a = b => Cardinality(OnTheWay(a)) = Cardinality(OnTheWay(a)') + 1
  BY CountedSets, CountedSetsNext, Sizes
<1> QED BY <1>1, <1>2 DEF IInv, TypeOK

(* One more goroutine is on its way to the permits of b, at most one of which *)
(* is new.                                                                    *)
LEMMA WakeupStarted ==
  ASSUME IInv, NEW b \in Addrs, sema' \in [Addrs -> Nat],
         sema'[b] <= sema[b] + 1, \A a \in Addrs : a # b => sema'[a] = sema[a],
         \A a \in Addrs : Asleep(a)' => Asleep(a),
         NEW p, Joins(p, OnTheWay(b), OnTheWay(b)'),
         \A a \in Addrs : a # b => OnTheWay(a)' = OnTheWay(a)
  PROVE  NoLostWakeup'
<1> SUFFICES ASSUME NEW a \in Addrs, Asleep(a)'
             PROVE  sema'[a] <= Cardinality(OnTheWay(a)')
  BY DEF NoLostWakeup
<1>1. sema[a] <= Cardinality(OnTheWay(a)) BY DEF IInv, NoLostWakeup
<1>2. /\ Cardinality(OnTheWay(a)) \in Nat
      /\ a = b => Cardinality(OnTheWay(a)') = Cardinality(OnTheWay(a)) + 1
  BY CountedSets, CountedSetsNext, Sizes
<1> QED BY <1>1, <1>2 DEF IInv, TypeOK

(* While somebody sleeps on an address, nwait is not 0. *)
LEMMA SleepersCounted ==
  ASSUME IInv, NEW a \in Addrs, Asleep(a) PROVE nwait > 0
<1>1. PICK p \in Procs : p \in Counted
  <2>1. CASE queue[a] # << >>
    <3>1. queue[a][1] \in Procs /\ Occurs(queue[a][1], queue[a])
      BY <2>1 DEF IInv, TypeOK, Occurs
    <3> QED BY <3>1 DEF IInv, QueueInv, Counted
  <2>2. CASE At(a, {"a_queue"}) # {} BY <2>2 DEF At, Counted
  <2> QED BY <2>1, <2>2 DEF Asleep
<1> QED BY <1>1, CountedSets, CountSome DEF IInv, CountInv

(* What root.queue does to one wait queue (sema.go:285-380), fifo or lifo. *)
LEMMA InsertOne ==
  ASSUME NEW q \in Seq(Procs), NEW p \in Procs, NEW lifo \in BOOLEAN
  PROVE  /\ Insert(q, p, lifo) \in Seq(Procs)
         /\ Insert(q, p, lifo) # << >>
         /\ \A x : Occurs(x, Insert(q, p, lifo)) <=> x = p \/ Occurs(x, q)
         /\ NoRepeat(q) /\ ~Occurs(p, q) => NoRepeat(Insert(q, p, lifo))
  BY AppendLast, PrependFirst DEF Insert

-----------------------------------------------------------------------------
(* Every step keeps IInv: one lemma per action, one step per conjunct.        *)
(* The goroutine p acts, and nobody else's pc, request or queue entry moves.  *)

(* Entering semacquire1. *)
LEMMA CallAcquireInv ==
  ASSUME IInv, NEW p \in Procs, NEW a \in Addrs, NEW lifo \in BOOLEAN,
         CallAcquire(p, a, lifo)
  PROVE  IInv'
<1> USE DEF IInv, CallAcquire
<1>1. TypeOK' BY DEF TypeOK, NoReq, CallInv
<1>2. LockInv' BY DEF LockInv, TypeOK
<1>3. CallInv' BY DEF CallInv, TypeOK, WakeInv, NoReq
<1>4. QueueInv' BY DEF QueueInv, TypeOK, CallInv
<1>5. WakeInv' BY DEF WakeInv, TypeOK, CallInv, QueueInv
<1>6. CountInv'
  <2>1. Counted' = Counted BY DEF Counted, TypeOK, CallInv, QueueInv
  <2> QED BY <2>1 DEF CountInv
<1>7. PermitsConserved'
  <2>1. \A b \in Addrs : Takers(b)' = Takers(b) /\ Adders(b)' = Adders(b)
    BY DEF Takers, Adders, At, TypeOK, CallInv
  <2> QED BY <1>1, <2>1, PermitsUntouched
<1>8. NoLostWakeup'
  <2>1. Joins(p, OnTheWay(a), OnTheWay(a)')
    BY DEF Joins, Joins, OnTheWay, At, TypeOK, CallInv, WakeInv, NoReq
  <2>2. \A b \in Addrs : b # a => OnTheWay(b)' = OnTheWay(b)
    BY DEF OnTheWay, At, TypeOK, CallInv, WakeInv, NoReq
  <2>3. \A b \in Addrs : Asleep(b)' => Asleep(b)
    BY DEF Asleep, At, TypeOK, CallInv
  <2>4. /\ sema' \in [Addrs -> Nat] /\ sema'[a] <= sema[a] + 1
        /\ \A b \in Addrs : a # b => sema'[b] = sema[b]
    BY DEF TypeOK
  <2> QED BY <2>1, <2>2, <2>3, <2>4, WakeupStarted
<1> QED BY <1>1, <1>2, <1>3, <1>4, <1>5, <1>6, <1>7, <1>8

(* The lock-free cansemacquire: a permit is taken, or there is none. *)
LEMMA AcquireEasyInv ==
  ASSUME IInv, NEW p \in Procs, AcquireEasy(p)
  PROVE  IInv'
<1> USE DEF IInv, AcquireEasy
<1>1. TypeOK'
  <2>1. Addr(p) \in Addrs /\ (sema[Addr(p)] > 0 => sema[Addr(p)] - 1 \in Nat)
    BY DEF TypeOK, CallInv
  <2>2. sema' \in [Addrs -> Nat]
    BY <2>1 DEF TypeOK
  <2> QED BY <2>2 DEF TypeOK
<1>2. LockInv' BY DEF LockInv, TypeOK
<1>3. CallInv'
  <2>1. /\ req' = req /\ ticket' = ticket /\ pc[p] # "idle" /\ ~ticket[p]
        /\ \A q \in Procs : q # p => pc'[q] = pc[q]
    BY DEF TypeOK, CallInv
  <2> QED BY <2>1 DEF CallInv
<1>4. QueueInv' BY DEF QueueInv, TypeOK, CallInv
<1>5. WakeInv' BY DEF WakeInv, TypeOK, CallInv, QueueInv
<1>6. CountInv'
  <2>1. Counted' = Counted BY DEF Counted, TypeOK, CallInv, QueueInv
  <2> QED BY <2>1 DEF CountInv
<1>7. PermitsConserved'
  <2>1. CASE Goto(p, "a_easy", "a_ret") /\ CanSemacquire(Addr(p))
    <3>1. Joins(p, Takers(Addr(p)), Takers(Addr(p))')
      BY <2>1 DEF Joins, Takers, At, TypeOK, CallInv
    <3>2. \A b \in Addrs : b # Addr(p) => Takers(b)' = Takers(b)
      BY <2>1 DEF Takers, At, TypeOK, CallInv
    <3>3. \A b \in Addrs : Adders(b)' = Adders(b)
      BY <2>1 DEF Adders, At, TypeOK, CallInv
    <3>4. sema[Addr(p)] > 0 /\ sema' = [sema EXCEPT ![Addr(p)] = @ - 1] /\ Addr(p) \in Addrs
      BY <2>1 DEF CallInv
    <3> QED BY <1>1, <3>1, <3>2, <3>3, <3>4, PermitTaken
  <2>2. CASE Goto(p, "a_easy", "a_lock") /\ CannotSemacquire(Addr(p))
    <3>1. \A b \in Addrs : Takers(b)' = Takers(b) /\ Adders(b)' = Adders(b)
      BY <2>2 DEF Takers, Adders, At, TypeOK, CallInv
    <3> QED BY <1>1, <2>2, <3>1, PermitsUntouched
  <2> QED BY <2>1, <2>2
<1>8. NoLostWakeup'
  <2>1. CASE Goto(p, "a_easy", "a_ret") /\ CanSemacquire(Addr(p))
    <3>1. Leaves(p, OnTheWay(Addr(p)), OnTheWay(Addr(p))')
      BY <2>1 DEF Leaves, Joins, OnTheWay, At, TypeOK, CallInv, WakeInv
    <3>2. \A b \in Addrs : b # Addr(p) => OnTheWay(b)' = OnTheWay(b)
      BY <2>1 DEF OnTheWay, At, TypeOK, CallInv, WakeInv
    <3>3. \A b \in Addrs : Asleep(b)' => Asleep(b)
      BY <2>1 DEF Asleep, At, TypeOK, CallInv
    <3>4. sema' = [sema EXCEPT ![Addr(p)] = @ - 1] /\ Addr(p) \in Addrs
      BY <2>1 DEF CallInv
    <3> QED BY <1>1, <3>1, <3>2, <3>3, <3>4, WakeupDone
  <2>2. CASE Goto(p, "a_easy", "a_lock") /\ CannotSemacquire(Addr(p))
    <3>1. sema[Addr(p)] = 0 /\ UNCHANGED sema
      BY <2>2
    <3>2. \A b \in Addrs : b # Addr(p) => OnTheWay(b)' = OnTheWay(b) /\ (Asleep(b)' => Asleep(b))
      BY <2>2 DEF OnTheWay, Asleep, At, TypeOK, CallInv, WakeInv
    <3> QED BY <3>1, <3>2, WakeupsUntouched DEF CallInv
  <2> QED BY <2>1, <2>2
<1> QED BY <1>1, <1>2, <1>3, <1>4, <1>5, <1>6, <1>7, <1>8

(* The second look, under the lock and announced in nwait. *)
LEMMA AcquireCheckInv ==
  ASSUME IInv, NEW p \in Procs, AcquireCheck(p)
  PROVE  IInv'
<1> USE DEF IInv, AcquireCheck
<1>1. TypeOK'
  <2>1. Addr(p) \in Addrs /\ (sema[Addr(p)] > 0 => sema[Addr(p)] - 1 \in Nat)
    BY DEF TypeOK, CallInv
  <2>2. sema' \in [Addrs -> Nat]
    BY <2>1 DEF TypeOK
  <2> QED BY <2>2 DEF TypeOK
<1>2. LockInv' BY DEF LockInv, TypeOK
<1>3. CallInv'
  <2>1. /\ req' = req /\ ticket' = ticket /\ pc[p] # "idle" /\ ~ticket[p]
        /\ \A q \in Procs : q # p => pc'[q] = pc[q]
    BY DEF TypeOK, CallInv
  <2> QED BY <2>1 DEF CallInv
<1>4. QueueInv' BY DEF QueueInv, TypeOK, CallInv
<1>5. WakeInv' BY DEF WakeInv, TypeOK, CallInv, QueueInv
<1>6. CountInv'
  <2>1. Counted' = Counted BY DEF Counted, TypeOK, CallInv, QueueInv
  <2> QED BY <2>1 DEF CountInv
<1>7. PermitsConserved'
  <2>1. CASE Goto(p, "a_check", "a_undo") /\ CanSemacquire(Addr(p))
    <3>1. Joins(p, Takers(Addr(p)), Takers(Addr(p))')
      BY <2>1 DEF Joins, Takers, At, TypeOK, CallInv
    <3>2. \A b \in Addrs : b # Addr(p) => Takers(b)' = Takers(b)
      BY <2>1 DEF Takers, At, TypeOK, CallInv
    <3>3. \A b \in Addrs : Adders(b)' = Adders(b)
      BY <2>1 DEF Adders, At, TypeOK, CallInv
    <3>4. sema[Addr(p)] > 0 /\ sema' = [sema EXCEPT ![Addr(p)] = @ - 1] /\ Addr(p) \in Addrs
      BY <2>1 DEF CallInv
    <3> QED BY <1>1, <3>1, <3>2, <3>3, <3>4, PermitTaken
  <2>2. CASE Goto(p, "a_check", "a_queue") /\ CannotSemacquire(Addr(p))
    <3>1. \A b \in Addrs : Takers(b)' = Takers(b) /\ Adders(b)' = Adders(b)
      BY <2>2 DEF Takers, Adders, At, TypeOK, CallInv
    <3> QED BY <1>1, <2>2, <3>1, PermitsUntouched
  <2> QED BY <2>1, <2>2
<1>8. NoLostWakeup'
  <2>1. CASE Goto(p, "a_check", "a_undo") /\ CanSemacquire(Addr(p))
    <3>1. Leaves(p, OnTheWay(Addr(p)), OnTheWay(Addr(p))')
      BY <2>1 DEF Leaves, Joins, OnTheWay, At, TypeOK, CallInv, WakeInv
    <3>2. \A b \in Addrs : b # Addr(p) => OnTheWay(b)' = OnTheWay(b)
      BY <2>1 DEF OnTheWay, At, TypeOK, CallInv, WakeInv
    <3>3. \A b \in Addrs : Asleep(b)' => Asleep(b)
      BY <2>1 DEF Asleep, At, TypeOK, CallInv
    <3>4. sema' = [sema EXCEPT ![Addr(p)] = @ - 1] /\ Addr(p) \in Addrs
      BY <2>1 DEF CallInv
    <3> QED BY <1>1, <3>1, <3>2, <3>3, <3>4, WakeupDone
  <2>2. CASE Goto(p, "a_check", "a_queue") /\ CannotSemacquire(Addr(p))
    <3>1. sema[Addr(p)] = 0 /\ UNCHANGED sema
      BY <2>2
    <3>2. \A b \in Addrs : b # Addr(p) => OnTheWay(b)' = OnTheWay(b) /\ (Asleep(b)' => Asleep(b))
      BY <2>2 DEF OnTheWay, Asleep, At, TypeOK, CallInv, WakeInv
    <3> QED BY <3>1, <3>2, WakeupsUntouched DEF CallInv
  <2> QED BY <2>1, <2>2
<1> QED BY <1>1, <1>2, <1>3, <1>4, <1>5, <1>6, <1>7, <1>8

(* The waiter announces itself: nwait gains it. *)
LEMMA AcquireLockInv ==
  ASSUME IInv, NEW p \in Procs, AcquireLock(p)
  PROVE  IInv'
<1> USE DEF IInv, AcquireLock
<1>1. TypeOK' BY DEF TypeOK, NoReq, CallInv
<1>2. LockInv' BY DEF LockInv, TypeOK
<1>3. CallInv' BY DEF CallInv, TypeOK, WakeInv, NoReq
<1>4. QueueInv' BY DEF QueueInv, TypeOK, CallInv
<1>5. WakeInv' BY DEF WakeInv, TypeOK, CallInv, QueueInv
<1>6. CountInv'
  <2>1. Joins(p, Counted, Counted')
    BY DEF Joins, Joins, Counted, TypeOK, CallInv, QueueInv, WakeInv
  <2> QED BY <2>1, CountedSets, CountedSetsNext, Sizes DEF CountInv
<1>7. PermitsConserved'
  <2>1. \A b \in Addrs : Takers(b)' = Takers(b) /\ Adders(b)' = Adders(b)
    BY DEF Takers, Adders, At, TypeOK, CallInv
  <2> QED BY <1>1, <2>1, PermitsUntouched
<1>8. NoLostWakeup'
  <2>1. \A b \in Addrs : OnTheWay(b)' = OnTheWay(b)
    BY DEF OnTheWay, At, TypeOK, CallInv, WakeInv
  <2>2. \A b \in Addrs : Asleep(b)' => Asleep(b)
    BY DEF Asleep, At, TypeOK, CallInv
  <2> QED BY <2>1, <2>2, WakeupsUntouched
<1> QED BY <1>1, <1>2, <1>3, <1>4, <1>5, <1>6, <1>7, <1>8

(* The permit came after all: nwait loses the waiter. *)
LEMMA AcquireUndoInv ==
  ASSUME IInv, NEW p \in Procs, AcquireUndo(p)
  PROVE  IInv'
<1> USE DEF IInv, AcquireUndo
<1>0. nwait > 0
  <2>1. p \in Counted BY DEF Counted
  <2> QED BY <2>1, CountedSets, CountSome DEF CountInv
<1>1. TypeOK' BY <1>0 DEF TypeOK, CallInv
<1>2. LockInv' BY DEF LockInv, TypeOK
<1>3. CallInv' BY DEF CallInv, TypeOK, WakeInv, NoReq
<1>4. QueueInv' BY DEF QueueInv, TypeOK, CallInv
<1>5. WakeInv' BY DEF WakeInv, TypeOK, CallInv, QueueInv
<1>6. CountInv'
  <2>1. Leaves(p, Counted, Counted')
    BY DEF Leaves, Joins, Counted, TypeOK, CallInv, QueueInv, WakeInv
  <2> QED BY <2>1, CountedSets, CountedSetsNext, Sizes DEF CountInv
<1>7. PermitsConserved'
  <2>1. \A b \in Addrs : Takers(b)' = Takers(b) /\ Adders(b)' = Adders(b)
    BY DEF Takers, Adders, At, TypeOK, CallInv
  <2> QED BY <1>1, <2>1, PermitsUntouched
<1>8. NoLostWakeup'
  <2>1. \A b \in Addrs : OnTheWay(b)' = OnTheWay(b)
    BY DEF OnTheWay, At, TypeOK, CallInv, WakeInv
  <2>2. \A b \in Addrs : Asleep(b)' => Asleep(b)
    BY DEF Asleep, At, TypeOK, CallInv
  <2> QED BY <2>1, <2>2, WakeupsUntouched
<1> QED BY <1>1, <1>2, <1>3, <1>4, <1>5, <1>6, <1>7, <1>8

(* The waiter is linked in and parks: nwait counts it as before. *)
LEMMA AcquireQueueInv ==
  ASSUME IInv, NEW p \in Procs, AcquireQueue(p)
  PROVE  IInv'
<1> USE DEF IInv, AcquireQueue
<1>0. /\ Addr(p) \in Addrs /\ req[p].flag \in BOOLEAN
      /\ queue' = [queue EXCEPT ![Addr(p)] = Insert(queue[Addr(p)], p, req[p].flag)]
      /\ queue'[Addr(p)] \in Seq(Procs)
      /\ \A x : Occurs(x, queue'[Addr(p)]) <=> x = p \/ Occurs(x, queue[Addr(p)])
      /\ NoRepeat(queue'[Addr(p)])
  <2>1. /\ Addr(p) \in Addrs /\ req[p].flag \in BOOLEAN
        /\ ~Occurs(p, queue[Addr(p)]) /\ NoRepeat(queue[Addr(p)])
        /\ queue[Addr(p)] \in Seq(Procs)
    BY DEF CallInv, QueueInv, TypeOK
  <2>2. queue' = [queue EXCEPT ![Addr(p)] = Insert(queue[Addr(p)], p, req[p].flag)]
    OBVIOUS
  <2>3. queue'[Addr(p)] = Insert(queue[Addr(p)], p, req[p].flag)
    BY <2>1, <2>2 DEF TypeOK
  <2> DEFINE q == queue[Addr(p)]
             f == req[p].flag
  <2>4. q \in Seq(Procs) /\ f \in BOOLEAN /\ ~Occurs(p, q) /\ NoRepeat(q) BY <2>1
  <2> HIDE DEF q, f
  <2>5. /\ Insert(q, p, f) \in Seq(Procs)
        /\ \A x : Occurs(x, Insert(q, p, f)) <=> x = p \/ Occurs(x, q)
        /\ NoRepeat(Insert(q, p, f))
    BY <2>4, InsertOne
  <2> QED BY <2>1, <2>2, <2>3, <2>5 DEF q, f
<1>1. TypeOK' BY <1>0 DEF TypeOK
<1>2. LockInv' BY DEF LockInv, TypeOK
<1>3. CallInv' BY DEF CallInv, TypeOK, WakeInv, NoReq
<1>4. QueueInv'
  <2> SUFFICES ASSUME NEW a \in Addrs
               PROVE  /\ NoRepeat(queue'[a])
                      /\ \A q \in Procs : Occurs(q, queue'[a]) =>
                           pc'[q] = "a_parked" /\ Addr(q)' = a /\ ~ticket'[q]
    BY DEF QueueInv
  <2>3. /\ pc'[p] = "a_parked" /\ \A q \in Procs : q # p => pc'[q] = pc[q]
        /\ req' = req /\ ticket' = ticket /\ ~ticket[p]
    BY DEF TypeOK, CallInv
  <2>4. \A b \in Addrs, q \in Procs :
          Occurs(q, queue[b]) => pc[q] = "a_parked" /\ Addr(q) = b /\ ~ticket[q]
    BY DEF QueueInv
  <2>1. CASE a = Addr(p)
    <3>1. \A q \in Procs : Occurs(q, queue'[a]) => q = p \/ Occurs(q, queue[a])
      BY <1>0, <2>1
    <3> QED BY <1>0, <2>1, <2>3, <2>4, <3>1
  <2>2. CASE a # Addr(p)
    <3>1. queue'[a] = queue[a] BY <1>0, <2>2 DEF TypeOK
    <3> QED BY <3>1 DEF QueueInv, TypeOK
  <2> QED BY <2>1, <2>2
<1>5. WakeInv' BY <1>0 DEF WakeInv, TypeOK, CallInv, QueueInv
<1>6. CountInv'
  <2>1. \A q \in Procs : q \in Counted' <=> q \in Counted
    BY <1>0 DEF Counted, TypeOK, CallInv, QueueInv
  <2> QED BY <2>1, CountedSets, CountedSetsNext, CountSame DEF CountInv
<1>7. PermitsConserved'
  <2>1. \A b \in Addrs : Takers(b)' = Takers(b) /\ Adders(b)' = Adders(b)
    BY DEF Takers, Adders, At, TypeOK, CallInv
  <2> QED BY <1>1, <2>1, PermitsUntouched
<1>8. NoLostWakeup'
  <2>1. \A b \in Addrs : OnTheWay(b)' = OnTheWay(b)
    BY DEF OnTheWay, At, TypeOK, CallInv, WakeInv
  <2>2. \A b \in Addrs : Asleep(b)' => Asleep(b)
    BY <1>0 DEF Asleep, At, TypeOK, CallInv
  <2> QED BY <2>1, <2>2, WakeupsUntouched
<1> QED BY <1>1, <1>2, <1>3, <1>4, <1>5, <1>6, <1>7, <1>8

(* Entering semrelease1: the ledger gains a permit, *addr not yet. *)
LEMMA CallReleaseInv ==
  ASSUME IInv, NEW p \in Procs, NEW a \in Addrs, NEW handoff \in BOOLEAN,
         CallRelease(p, a, handoff)
  PROVE  IInv'
<1> USE DEF IInv, CallRelease
<1>1. TypeOK' BY DEF TypeOK, NoReq, CallInv
<1>2. LockInv' BY DEF LockInv, TypeOK
<1>3. CallInv' BY DEF CallInv, TypeOK, WakeInv, NoReq
<1>4. QueueInv' BY DEF QueueInv, TypeOK, CallInv
<1>5. WakeInv' BY DEF WakeInv, TypeOK, CallInv, QueueInv
<1>6. CountInv'
  <2>1. Counted' = Counted BY DEF Counted, TypeOK, CallInv, QueueInv, WakeInv
  <2> QED BY <2>1 DEF CountInv
<1>7. PermitsConserved'
  <2>1. Joins(p, Adders(a), Adders(a)')
    BY DEF Joins, Adders, At, TypeOK, CallInv, NoReq
  <2>2. \A b \in Addrs : b # a => Adders(b)' = Adders(b)
    BY DEF Adders, At, TypeOK, CallInv, NoReq
  <2>3. \A b \in Addrs : Takers(b)' = Takers(b)
    BY DEF Takers, At, TypeOK, CallInv, NoReq
  <2>4. \A b \in Addrs : sema[b] + Cardinality(Takers(b)) + Cardinality(Adders(b)) = ledger[b]
    BY DEF PermitsConserved, Adders
  <2>5. \A b \in Addrs : sema'[b] + Cardinality(Takers(b)') + Cardinality(Adders(b)') = ledger'[b]
    <3> SUFFICES ASSUME NEW b \in Addrs
                 PROVE  sema'[b] + Cardinality(Takers(b)') + Cardinality(Adders(b)') = ledger'[b]
      OBVIOUS
    <3>1. /\ Cardinality(Takers(b)) \in Nat /\ Cardinality(Adders(b)) \in Nat
          /\ b = a => Cardinality(Adders(b)') = Cardinality(Adders(b)) + 1
      BY <2>1, CountedSets, CountedSetsNext, Sizes
    <3> QED BY <2>2, <2>3, <2>4, <3>1 DEF TypeOK
  <2> QED BY <1>1, <2>5 DEF PermitsConserved, Adders
<1>8. NoLostWakeup'
  <2>1. \A b \in Addrs : OnTheWay(b)' = OnTheWay(b)
    BY DEF OnTheWay, At, TypeOK, CallInv, WakeInv, NoReq
  <2>2. \A b \in Addrs : Asleep(b)' => Asleep(b)
    BY DEF Asleep, At, TypeOK, CallInv
  <2> QED BY <2>1, <2>2, WakeupsUntouched
<1> QED BY <1>1, <1>2, <1>3, <1>4, <1>5, <1>6, <1>7, <1>8

(* The permit is free, and its releaser is on its way to a sleeper. *)
LEMMA ReleaseXaddInv ==
  ASSUME IInv, NEW p \in Procs, ReleaseXadd(p)
  PROVE  IInv'
<1> USE DEF IInv, ReleaseXadd
<1>0. Addr(p) \in Addrs BY DEF CallInv
<1>1. TypeOK' BY DEF TypeOK, NoReq, CallInv
<1>2. LockInv' BY DEF LockInv, TypeOK
<1>3. CallInv' BY DEF CallInv, TypeOK, WakeInv, NoReq
<1>4. QueueInv' BY DEF QueueInv, TypeOK, CallInv
<1>5. WakeInv' BY DEF WakeInv, TypeOK, CallInv, QueueInv
<1>6. CountInv'
  <2>1. Counted' = Counted BY DEF Counted, TypeOK, CallInv, QueueInv, WakeInv
  <2> QED BY <2>1 DEF CountInv
<1>7. PermitsConserved'
  <2>1. Leaves(p, Adders(Addr(p)), Adders(Addr(p))')
    BY DEF Leaves, Joins, Adders, At, TypeOK, CallInv
  <2>2. \A b \in Addrs : b # Addr(p) => Adders(b)' = Adders(b)
    BY DEF Adders, At, TypeOK, CallInv
  <2>3. \A b \in Addrs : Takers(b)' = Takers(b)
    BY DEF Takers, At, TypeOK, CallInv
  <2>4. \A b \in Addrs : sema[b] + Cardinality(Takers(b)) + Cardinality(Adders(b)) = ledger[b]
    BY DEF PermitsConserved, Adders
  <2>5. \A b \in Addrs : sema'[b] + Cardinality(Takers(b)') + Cardinality(Adders(b)') = ledger'[b]
    <3> SUFFICES ASSUME NEW b \in Addrs
                 PROVE  sema'[b] + Cardinality(Takers(b)') + Cardinality(Adders(b)') = ledger'[b]
      OBVIOUS
    <3>1. /\ Cardinality(Takers(b)) \in Nat /\ Cardinality(Adders(b)') \in Nat
          /\ b = Addr(p) => Cardinality(Adders(b)) = Cardinality(Adders(b)') + 1
      BY <2>1, CountedSets, CountedSetsNext, Sizes
    <3> QED BY <2>2, <2>3, <2>4, <3>1 DEF TypeOK
  <2> QED BY <1>1, <2>5 DEF PermitsConserved, Adders
<1>8. NoLostWakeup'
  <2>1. Joins(p, OnTheWay(Addr(p)), OnTheWay(Addr(p))')
    BY DEF Joins, OnTheWay, At, TypeOK, CallInv, WakeInv
  <2>2. \A b \in Addrs : b # Addr(p) => OnTheWay(b)' = OnTheWay(b)
    BY DEF OnTheWay, At, TypeOK, CallInv, WakeInv
  <2>3. \A b \in Addrs : Asleep(b)' => Asleep(b)
    BY DEF Asleep, At, TypeOK, CallInv
  <2>4. /\ sema' \in [Addrs -> Nat] /\ sema'[Addr(p)] <= sema[Addr(p)] + 1
        /\ \A b \in Addrs : Addr(p) # b => sema'[b] = sema[b]
    BY <1>0, <1>1 DEF TypeOK
  <2> QED BY <1>0, <2>1, <2>2, <2>3, <2>4, WakeupStarted
<1> QED BY <1>1, <1>2, <1>3, <1>4, <1>5, <1>6, <1>7, <1>8

(* The caller owns the permit: it leaves the books. *)
LEMMA AcquireReturnInv ==
  ASSUME IInv, NEW p \in Procs, AcquireReturn(p)
  PROVE  IInv'
<1> USE DEF IInv, AcquireReturn
<1>a. PICK a \in Addrs : a = Addr(p) BY DEF CallInv
<1>0. Addr(p) \in Addrs /\ ledger[a] > 0
  <2>1. p \in Takers(a) BY <1>a DEF CallInv, Takers, At
  <2>2. Cardinality(Takers(a)) > 0 /\ Cardinality(Takers(a)) \in Nat
    BY <2>1, CountedSets, CountSome, Countable
  <2>3. Cardinality(Adders(a)) \in Nat BY <2>1, CountedSets, Countable
  <2> QED BY <1>a, <2>1, <2>2, <2>3 DEF PermitsConserved, TypeOK, Adders
<1>1. TypeOK' BY <1>a, <1>0 DEF TypeOK, NoReq, CallInv
<1>2. LockInv' BY DEF LockInv, TypeOK
<1>3. CallInv' BY DEF CallInv, TypeOK, WakeInv, NoReq
<1>4. QueueInv' BY DEF QueueInv, TypeOK, CallInv
<1>5. WakeInv' BY DEF WakeInv, TypeOK, CallInv, QueueInv
<1>6. CountInv'
  <2>1. Counted' = Counted BY DEF Counted, TypeOK, CallInv, QueueInv, WakeInv
  <2> QED BY <2>1 DEF CountInv
<1>7. PermitsConserved'
  <2>1. Leaves(p, Takers(a), Takers(a)')
    BY <1>a DEF Leaves, Joins, Takers, At, TypeOK, CallInv
  <2>2. \A b \in Addrs : b # a => Takers(b)' = Takers(b)
    BY <1>a DEF Takers, At, TypeOK, CallInv
  <2>3. \A b \in Addrs : Adders(b)' = Adders(b)
    BY DEF Adders, At, TypeOK, CallInv
  <2>4. \A b \in Addrs : sema[b] + Cardinality(Takers(b)) + Cardinality(Adders(b)) = ledger[b]
    BY DEF PermitsConserved, Adders
  <2>5. \A b \in Addrs : sema'[b] + Cardinality(Takers(b)') + Cardinality(Adders(b)') = ledger'[b]
    <3> SUFFICES ASSUME NEW b \in Addrs
                 PROVE  sema'[b] + Cardinality(Takers(b)') + Cardinality(Adders(b)') = ledger'[b]
      OBVIOUS
    <3>1. /\ Cardinality(Takers(b)') \in Nat /\ Cardinality(Adders(b)) \in Nat
          /\ b = a => Cardinality(Takers(b)) = Cardinality(Takers(b)') + 1
      BY <2>1, CountedSets, CountedSetsNext, Sizes
    <3> QED BY <1>a, <2>2, <2>3, <2>4, <3>1 DEF TypeOK
  <2> QED BY <1>1, <2>5 DEF PermitsConserved, Adders
<1>8. NoLostWakeup'
  <2>1. \A b \in Addrs : OnTheWay(b)' = OnTheWay(b)
    BY DEF OnTheWay, At, TypeOK, CallInv, WakeInv, NoReq
  <2>2. \A b \in Addrs : Asleep(b)' => Asleep(b)
    BY DEF Asleep, At, TypeOK, CallInv
  <2> QED BY <2>1, <2>2, WakeupsUntouched
<1> QED BY <1>1, <1>2, <1>3, <1>4, <1>5, <1>6, <1>7, <1>8

(* nwait was not 0: the releaser goes for the lock. *)
LEMMA ReleaseHarderInv ==
  ASSUME IInv, NEW p \in Procs, ReleaseHarder(p)
  PROVE  IInv'
<1> USE DEF IInv, ReleaseHarder
<1>1. TypeOK' BY DEF TypeOK, NoReq, CallInv
<1>2. LockInv' BY DEF LockInv, TypeOK
<1>3. CallInv' BY DEF CallInv, TypeOK, WakeInv, NoReq
<1>4. QueueInv' BY DEF QueueInv, TypeOK, CallInv
<1>5. WakeInv' BY DEF WakeInv, TypeOK, CallInv, QueueInv
<1>6. CountInv'
  <2>1. Counted' = Counted BY DEF Counted, TypeOK, CallInv, QueueInv, WakeInv
  <2> QED BY <2>1 DEF CountInv
<1>7. PermitsConserved'
  <2>1. \A b \in Addrs : Takers(b)' = Takers(b) /\ Adders(b)' = Adders(b)
    BY DEF Takers, Adders, At, TypeOK, CallInv
  <2> QED BY <1>1, <2>1, PermitsUntouched
<1>8. NoLostWakeup'
  <2>1. \A b \in Addrs : OnTheWay(b)' = OnTheWay(b)
    BY DEF OnTheWay, At, TypeOK, CallInv, WakeInv
  <2>2. \A b \in Addrs : Asleep(b)' => Asleep(b)
    BY DEF Asleep, At, TypeOK, CallInv
  <2> QED BY <2>1, <2>2, WakeupsUntouched
<1> QED BY <1>1, <1>2, <1>3, <1>4, <1>5, <1>6, <1>7, <1>8

(* The releaser has the lock. *)
LEMMA ReleaseLockInv ==
  ASSUME IInv, NEW p \in Procs, ReleaseLock(p)
  PROVE  IInv'
<1> USE DEF IInv, ReleaseLock
<1>1. TypeOK' BY DEF TypeOK, NoReq, CallInv
<1>2. LockInv' BY DEF LockInv, TypeOK
<1>3. CallInv' BY DEF CallInv, TypeOK, WakeInv, NoReq
<1>4. QueueInv' BY DEF QueueInv, TypeOK, CallInv
<1>5. WakeInv' BY DEF WakeInv, TypeOK, CallInv, QueueInv
<1>6. CountInv'
  <2>1. Counted' = Counted BY DEF Counted, TypeOK, CallInv, QueueInv, WakeInv
  <2> QED BY <2>1 DEF CountInv
<1>7. PermitsConserved'
  <2>1. \A b \in Addrs : Takers(b)' = Takers(b) /\ Adders(b)' = Adders(b)
    BY DEF Takers, Adders, At, TypeOK, CallInv
  <2> QED BY <1>1, <2>1, PermitsUntouched
<1>8. NoLostWakeup'
  <2>1. \A b \in Addrs : OnTheWay(b)' = OnTheWay(b)
    BY DEF OnTheWay, At, TypeOK, CallInv, WakeInv
  <2>2. \A b \in Addrs : Asleep(b)' => Asleep(b)
    BY DEF Asleep, At, TypeOK, CallInv
  <2> QED BY <2>1, <2>2, WakeupsUntouched
<1> QED BY <1>1, <1>2, <1>3, <1>4, <1>5, <1>6, <1>7, <1>8

(* nwait is 0, read without the lock: nobody sleeps on this address. *)
LEMMA ReleaseEasyInv ==
  ASSUME IInv, NEW p \in Procs, ReleaseEasy(p)
  PROVE  IInv'
<1> USE DEF IInv, ReleaseEasy
<1>1. TypeOK' BY DEF TypeOK, NoReq, CallInv
<1>2. LockInv' BY DEF LockInv, TypeOK
<1>3. CallInv' BY DEF CallInv, TypeOK, WakeInv, NoReq
<1>4. QueueInv' BY DEF QueueInv, TypeOK, CallInv
<1>5. WakeInv' BY DEF WakeInv, TypeOK, CallInv, QueueInv
<1>6. CountInv'
  <2>1. Counted' = Counted BY DEF Counted, TypeOK, CallInv, QueueInv, WakeInv
  <2> QED BY <2>1 DEF CountInv
<1>7. PermitsConserved'
  <2>1. \A b \in Addrs : Takers(b)' = Takers(b) /\ Adders(b)' = Adders(b)
    BY DEF Takers, Adders, At, TypeOK, CallInv
  <2> QED BY <1>1, <2>1, PermitsUntouched
<1>8. NoLostWakeup'
  <2>1. \A b \in Addrs : b # Addr(p) => OnTheWay(b)' = OnTheWay(b)
    BY DEF OnTheWay, At, TypeOK, CallInv, WakeInv, NoReq
  <2>2. \A b \in Addrs : Asleep(b)' => Asleep(b)
    BY DEF Asleep, At, TypeOK, CallInv
  <2>3. ~Asleep(Addr(p))
    BY SleepersCounted DEF CallInv
  <2> QED BY <2>1, <2>2, <2>3, WakeupsUntouched
<1> QED BY <1>1, <1>2, <1>3, <1>4, <1>5, <1>6, <1>7, <1>8

(* Under the lock, nobody is queued on this address. *)
LEMMA ReleaseNobodyInv ==
  ASSUME IInv, NEW p \in Procs, ReleaseNobody(p)
  PROVE  IInv'
<1> USE DEF IInv, ReleaseNobody
<1>1. TypeOK' BY DEF TypeOK, NoReq, CallInv
<1>2. LockInv' BY DEF LockInv, TypeOK
<1>3. CallInv' BY DEF CallInv, TypeOK, WakeInv, NoReq
<1>4. QueueInv' BY DEF QueueInv, TypeOK, CallInv
<1>5. WakeInv' BY DEF WakeInv, TypeOK, CallInv, QueueInv
<1>6. CountInv'
  <2>1. Counted' = Counted BY DEF Counted, TypeOK, CallInv, QueueInv, WakeInv
  <2> QED BY <2>1 DEF CountInv
<1>7. PermitsConserved'
  <2>1. \A b \in Addrs : Takers(b)' = Takers(b) /\ Adders(b)' = Adders(b)
    BY DEF Takers, Adders, At, TypeOK, CallInv
  <2> QED BY <1>1, <2>1, PermitsUntouched
<1>8. NoLostWakeup'
  <2>1. \A b \in Addrs : b # Addr(p) => OnTheWay(b)' = OnTheWay(b)
    BY DEF OnTheWay, At, TypeOK, CallInv, WakeInv, NoReq
  <2>2. \A b \in Addrs : Asleep(b)' => Asleep(b)
    BY DEF Asleep, At, TypeOK, CallInv
  <2>3. ~Asleep(Addr(p))
    BY SleepersCounted DEF CallInv , LockInv, Asleep, At
  <2> QED BY <2>1, <2>2, <2>3, WakeupsUntouched
<1> QED BY <1>1, <1>2, <1>3, <1>4, <1>5, <1>6, <1>7, <1>8

(* A woken waiter leaves with its ticket or a permit, or starts over. *)
LEMMA AcquireWokeInv ==
  ASSUME IInv, NEW p \in Procs, AcquireWoke(p)
  PROVE  IInv'
<1> USE DEF IInv, AcquireWoke
<1>0. Addr(p) \in Addrs /\ (sema[Addr(p)] > 0 => sema[Addr(p)] - 1 \in Nat)
  BY DEF TypeOK, CallInv
<1>1. TypeOK'
  <2>1. sema' \in [Addrs -> Nat] BY <1>0 DEF TypeOK
  <2> QED BY <2>1 DEF TypeOK
<1>2. LockInv' BY DEF LockInv, TypeOK
<1>3. CallInv' BY DEF CallInv, TypeOK, WakeInv
<1>4. QueueInv' BY DEF QueueInv, TypeOK, CallInv
<1>5. WakeInv' BY DEF WakeInv, TypeOK, CallInv, QueueInv
<1>6. CountInv'
  <2>1. Counted' = Counted BY DEF Counted, TypeOK, CallInv, QueueInv, WakeInv
  <2> QED BY <2>1 DEF CountInv
<1>7. PermitsConserved'
  <2>1. CASE UNCHANGED sema
    <3>1. \A b \in Addrs : Takers(b)' = Takers(b) /\ Adders(b)' = Adders(b)
      BY <1>0, <2>1 DEF Takers, Adders, At, TypeOK, CallInv
    <3> QED BY <1>1, <2>1, <3>1, PermitsUntouched
  <2>2. CASE ~ticket[p] /\ Goto(p, "a_woke", "a_ret") /\ CanSemacquire(Addr(p))
    <3>1. Joins(p, Takers(Addr(p)), Takers(Addr(p))')
      BY <2>2 DEF Joins, Takers, At, TypeOK, CallInv
    <3>2. \A b \in Addrs : b # Addr(p) => Takers(b)' = Takers(b)
      BY <2>2 DEF Takers, At, TypeOK, CallInv
    <3>3. \A b \in Addrs : Adders(b)' = Adders(b)
      BY <2>2 DEF Adders, At, TypeOK, CallInv
    <3> QED BY <1>0, <1>1, <2>2, <3>1, <3>2, <3>3, PermitTaken
  <2> QED BY <2>1, <2>2
<1>8. NoLostWakeup'
  <2>0. \A b \in Addrs : Asleep(b)' => Asleep(b)
    BY DEF Asleep, At, TypeOK, CallInv
  <2>1. CASE UNCHANGED sema
    <3>1. \A b \in Addrs : OnTheWay(b)' = OnTheWay(b)
      BY <1>0, <2>1 DEF OnTheWay, At, TypeOK, CallInv, WakeInv
    <3> QED BY <2>0, <2>1, <3>1, WakeupsUntouched
  <2>2. CASE ~ticket[p] /\ Goto(p, "a_woke", "a_ret") /\ CanSemacquire(Addr(p))
    <3>1. Leaves(p, OnTheWay(Addr(p)), OnTheWay(Addr(p))')
      BY <2>2 DEF Leaves, Joins, OnTheWay, At, TypeOK, CallInv, WakeInv
    <3>2. \A b \in Addrs : b # Addr(p) => OnTheWay(b)' = OnTheWay(b)
      BY <2>2 DEF OnTheWay, At, TypeOK, CallInv, WakeInv
    <3> QED BY <1>0, <2>0, <2>2, <3>1, <3>2, WakeupDone
  <2> QED BY <2>1, <2>2
<1> QED BY <1>1, <1>2, <1>3, <1>4, <1>5, <1>6, <1>7, <1>8

(* The first waiter is unlinked; its releaser still has to ready it. *)
LEMMA ReleaseDequeueInv ==
  ASSUME IInv, NEW p \in Procs, ReleaseDequeue(p)
  PROVE  IInv'
<1> USE DEF IInv, ReleaseDequeue
<1>a. PICK a \in Addrs : a = Addr(p) /\ Addr(p)' = a
  BY DEF CallInv
<1>q. queue[a] \in Seq(Procs) /\ queue[a] # << >> /\ NoRepeat(queue[a])
  BY <1>a DEF TypeOK, QueueInv
<1>h. PICK w \in Procs : w = Head(queue[a])
  BY <1>q, TailRest
<1>0. /\ a = Addr(p) /\ Addr(p)' = a /\ Occurs(w, queue[a])
      /\ queue' = [queue EXCEPT ![a] = Tail(queue[a])]
      /\ queue'[a] \in Seq(Procs)
      /\ wakee' = [wakee EXCEPT ![p] = w]
      /\ \A x : Occurs(x, queue[a]) <=> x = w \/ Occurs(x, queue'[a])
      /\ NoRepeat(queue'[a]) /\ ~Occurs(w, queue'[a])
  <2>1. queue' = [queue EXCEPT ![a] = Tail(queue[a])] /\ queue'[a] = Tail(queue[a])
    BY <1>a DEF TypeOK
  <2> QED BY <1>a, <1>q, <1>h, <2>1, TailRest
<1>w. pc[w] = "a_parked" /\ Addr(w) = a /\ ~ticket[w] /\ w # p
  BY <1>0 DEF QueueInv
<1>n. nwait > 0 /\ w \in Counted
  <2>1. w \in Counted BY <1>0, <1>w DEF Counted
  <2> QED BY <2>1, CountedSets, CountSome DEF CountInv
<1>1. TypeOK' BY <1>0, <1>n DEF TypeOK
<1>2. LockInv' BY DEF LockInv, TypeOK
<1>3. CallInv' BY DEF CallInv, TypeOK
<1>4. QueueInv'
  <2> SUFFICES ASSUME NEW b \in Addrs
               PROVE  /\ NoRepeat(queue'[b])
                      /\ \A q \in Procs : Occurs(q, queue'[b]) =>
                           pc'[q] = "a_parked" /\ Addr(q)' = b /\ ~ticket'[q]
    BY DEF QueueInv
  <2>1. CASE b = a BY <1>0, <2>1 DEF QueueInv, TypeOK
  <2>2. CASE b # a
    <3>1. queue'[b] = queue[b] BY <1>0, <2>2 DEF TypeOK
    <3> QED BY <3>1 DEF QueueInv, TypeOK
  <2> QED BY <2>1, <2>2
<1>5. WakeInv'
  <2>1. \A r \in Procs : wakee[r] # w
    BY <1>0, <1>w DEF WakeInv
  <2>2. \A b \in Addrs : \A q : Occurs(q, queue'[b]) => Occurs(q, queue[b])
    BY <1>0 DEF TypeOK
  <2>3. ASSUME NEW r \in Procs, pc'[r] \in {"r_handoff", "r_ready"}
        PROVE  /\ wakee'[r] \in Procs
               /\ pc'[wakee'[r]] = "a_parked"
               /\ req'[wakee'[r]].addr = req'[r].addr
               /\ ~Occurs(wakee'[r], queue'[req'[r].addr])
               /\ pc'[r] = "r_handoff" => ~ticket'[wakee'[r]]
    <3>1. CASE r = p BY <1>0, <1>w, <3>1 DEF TypeOK
    <3>2. CASE r # p BY <2>2, <2>3, <3>2 DEF WakeInv, TypeOK, CallInv
    <3> QED BY <3>1, <3>2
  <2>4. \A r \in Procs : pc'[r] \notin {"r_handoff", "r_ready"} => wakee'[r] = NoProc
    BY <1>0 DEF WakeInv, TypeOK
  <2>5. \A r, s \in Procs : wakee'[r] = wakee'[s] /\ wakee'[r] # NoProc => r = s
    BY <1>0, <2>1 DEF WakeInv, TypeOK
  <2> QED BY <2>3, <2>4, <2>5 DEF WakeInv
<1>6. CountInv'
  <2>1. Leaves(w, Counted, Counted')
    BY <1>0, <1>w, <1>n DEF Leaves, Joins, Counted, TypeOK, QueueInv
  <2> QED BY <2>1, CountedSets, CountedSetsNext, Sizes DEF CountInv
<1>7. PermitsConserved'
  <2>1. \A b \in Addrs : Takers(b)' = Takers(b) /\ Adders(b)' = Adders(b)
    BY DEF Takers, Adders, At, TypeOK, CallInv
  <2> QED BY <1>1, <2>1, PermitsUntouched
<1>8. NoLostWakeup'
  <2>1. \A b \in Addrs : OnTheWay(b)' = OnTheWay(b)
    BY DEF OnTheWay, At, TypeOK, CallInv, WakeInv
  <2>2. \A b \in Addrs : Asleep(b)' => Asleep(b)
    BY <1>0 DEF Asleep, At, TypeOK
  <2> QED BY <2>1, <2>2, WakeupsUntouched
<1> QED BY <1>1, <1>2, <1>3, <1>4, <1>5, <1>6, <1>7, <1>8

(* The ticket is given, and paid with a permit. *)
LEMMA ReleaseHandoffInv ==
  ASSUME IInv, NEW p \in Procs, ReleaseHandoff(p)
  PROVE  IInv'
<1> USE DEF IInv, ReleaseHandoff
<1>0. PICK a \in Addrs, w \in Procs :
        /\ a = Addr(p) /\ w = wakee[p]
        /\ pc[w] = "a_parked" /\ Addr(w) = a /\ ~Occurs(w, queue[a]) /\ ~ticket[w]
        /\ w # p
        /\ \A r \in Procs : r # p => wakee[r] # w
  BY DEF CallInv, WakeInv
<1>1. TypeOK'
  <2>1. sema[a] > 0 => sema[a] - 1 \in Nat BY DEF TypeOK
  <2>2. sema' \in [Addrs -> Nat] BY SMTT(30), <1>0, <2>1 DEF TypeOK
  <2> QED BY <1>0, <2>2 DEF TypeOK
<1>2. LockInv' BY DEF LockInv, TypeOK
<1>3. CallInv' BY <1>0 DEF CallInv, TypeOK
<1>4. QueueInv'
  <2>1. \A b \in Addrs : ~Occurs(w, queue[b]) BY <1>0 DEF QueueInv
  <2>2. \A q \in Procs : q # w => ticket'[q] = ticket[q] BY <1>0 DEF TypeOK
  <2> QED BY <2>1, <2>2 DEF QueueInv, TypeOK
<1>5. WakeInv' BY <1>0 DEF WakeInv, TypeOK
<1>6. CountInv'
  <2>1. Counted' = Counted BY DEF Counted, TypeOK
  <2> QED BY <2>1 DEF CountInv
<1>7. PermitsConserved'
  <2>0. \A b \in Addrs : Adders(b)' = Adders(b) BY DEF Adders, At, TypeOK
  <2>1. CASE UNCHANGED << sema, ticket >>
    <3>1. \A b \in Addrs : Takers(b)' = Takers(b)
      BY <2>1 DEF Takers, At, TypeOK
    <3> QED BY <1>1, <2>0, <2>1, <3>1, PermitsUntouched
  <2>2. CASE /\ CanSemacquire(a)
             /\ ticket' = [ticket EXCEPT ![w] = TRUE]
    <3>1. Joins(w, Takers(a), Takers(a)')
      BY <1>0, <2>2 DEF Joins, Takers, At, TypeOK
    <3>2. \A b \in Addrs : b # a => Takers(b)' = Takers(b)
      BY <1>0, <2>2 DEF Takers, At, TypeOK
    <3> QED BY <1>1, <2>0, <2>2, <3>1, <3>2, PermitTaken
  <2> QED BY <1>0, <2>1, <2>2
<1>8. NoLostWakeup'
  <2>0. \A b \in Addrs : Asleep(b)' => Asleep(b)
    BY DEF Asleep, At, TypeOK
  <2>1. CASE UNCHANGED << sema, ticket >>
    <3>1. \A b \in Addrs : OnTheWay(b)' = OnTheWay(b)
      BY <1>0, <2>1 DEF OnTheWay, At, TypeOK
    <3> QED BY <2>0, <2>1, <3>1, WakeupsUntouched
  <2>2. CASE /\ CanSemacquire(a)
             /\ ticket' = [ticket EXCEPT ![w] = TRUE]
    <3>1. Leaves(p, OnTheWay(a), OnTheWay(a)')
      BY <1>0, <2>2 DEF Leaves, Joins, OnTheWay, At, TypeOK, WakeInv
    <3>2. \A b \in Addrs : b # a => OnTheWay(b)' = OnTheWay(b)
      BY <1>0, <2>2 DEF OnTheWay, At, TypeOK, WakeInv
    <3> QED BY <2>0, <2>2, <3>1, <3>2, WakeupDone
  <2> QED BY <1>0, <2>1, <2>2
<1> QED BY <1>1, <1>2, <1>3, <1>4, <1>5, <1>6, <1>7, <1>8

(* The waiter is up: it takes the releaser's place on the way. *)
LEMMA ReleaseReadyInv ==
  ASSUME IInv, NEW p \in Procs, ReleaseReady(p)
  PROVE  IInv'
<1> USE DEF IInv, ReleaseReady
<1>0. PICK a \in Addrs, w \in Procs :
        /\ a = Addr(p) /\ w = wakee[p]
        /\ pc[w] = "a_parked" /\ Addr(w) = a /\ ~Occurs(w, queue[a])
        /\ w # p
        /\ \A r \in Procs : r # p => wakee[r] # w
  BY DEF CallInv, WakeInv
<1>1. TypeOK' BY <1>0 DEF TypeOK
<1>2. LockInv' BY <1>0 DEF LockInv, TypeOK
<1>3. CallInv' BY <1>0 DEF CallInv, TypeOK
<1>4. QueueInv'
  <2>1. \A b \in Addrs : ~Occurs(w, queue[b]) /\ ~Occurs(p, queue[b])
    BY <1>0 DEF QueueInv
  <2>2. \A q \in Procs : q # w /\ q # p => pc'[q] = pc[q] /\ req'[q] = req[q]
    BY <1>0 DEF TypeOK
  <2>3. ASSUME NEW b \in Addrs, NEW q \in Procs, Occurs(q, queue[b])
        PROVE  pc'[q] = "a_parked" /\ Addr(q)' = b /\ ~ticket'[q]
    <3>1. q # w /\ q # p BY <2>1, <2>3
    <3>2. pc[q] = "a_parked" /\ Addr(q) = b /\ ~ticket[q] BY <2>3 DEF QueueInv
    <3> QED BY <2>2, <3>1, <3>2
  <2>4. queue' = queue OBVIOUS
  <2> QED BY <2>3, <2>4 DEF QueueInv
<1>5. WakeInv' BY <1>0 DEF WakeInv, TypeOK
<1>6. CountInv'
  <2>1. Counted' = Counted BY <1>0 DEF Counted, TypeOK
  <2> QED BY <2>1 DEF CountInv
<1>7. PermitsConserved'
  <2>1. \A b \in Addrs : Takers(b)' = Takers(b) /\ Adders(b)' = Adders(b)
    BY <1>0 DEF Takers, Adders, At, TypeOK, CallInv
  <2> QED BY <1>1, <2>1, PermitsUntouched
<1>8. NoLostWakeup'
  <2>0. \A b \in Addrs : Asleep(b)' => Asleep(b)
    BY <1>0 DEF Asleep, At, TypeOK
  <2>1. \A b \in Addrs : Cardinality(OnTheWay(b)') = Cardinality(OnTheWay(b))
    <3> SUFFICES ASSUME NEW b \in Addrs
                 PROVE  Cardinality(OnTheWay(b)') = Cardinality(OnTheWay(b))
      OBVIOUS
    <3>1. CASE b # a \/ ticket[w]
      <4>1. OnTheWay(b)' = OnTheWay(b)
        BY <1>0, <3>1 DEF OnTheWay, At, TypeOK, WakeInv
      <4> QED BY <4>1
    <3>2. CASE b = a /\ ~ticket[w]
      <4>1. /\ p \in OnTheWay(b) /\ p \notin OnTheWay(b)'
            /\ w \notin OnTheWay(b) /\ w \in OnTheWay(b)'
            /\ \A q \in Procs : q # p /\ q # w =>
                 (q \in OnTheWay(b) <=> q \in OnTheWay(b)')
        BY <1>0, <3>2 DEF OnTheWay, At, TypeOK, WakeInv
      <4> QED BY <4>1, CountedSets, CountedSetsNext, CountMove
    <3> QED BY <3>1, <3>2
  <2> QED BY <2>0, <2>1 DEF NoLostWakeup
<1> QED BY <1>1, <1>2, <1>3, <1>4, <1>5, <1>6, <1>7, <1>8

-----------------------------------------------------------------------------
(* The invariant is inductive: every step of semacquire1 and semrelease1 keeps it. *)
LEMMA StepInv == IInv /\ [Next]_vars => IInv'
<1> SUFFICES ASSUME IInv, [Next]_vars PROVE IInv' OBVIOUS
<1>1. CASE UNCHANGED vars
  <2> USE <1>1 DEF vars, IInv
  <2>1. TypeOK' /\ LockInv' /\ CallInv' /\ QueueInv' /\ WakeInv'
    BY DEF TypeOK, LockInv, CallInv, QueueInv, WakeInv
  <2>2. CountInv' BY DEF CountInv, Counted
  <2>3. PermitsConserved'
    BY <2>1, PermitsUntouched DEF Takers, Adders, At
  <2>4. NoLostWakeup'
    BY DEF NoLostWakeup, Asleep, OnTheWay, At
  <2> QED BY <2>1, <2>2, <2>3, <2>4
<1>2. ASSUME NEW p \in Procs, Call(p) PROVE IInv'
  BY <1>2, CallAcquireInv, CallReleaseInv DEF Call
<1>3. ASSUME NEW p \in Procs, AcquireStep(p) PROVE IInv'
  BY <1>3, AcquireEasyInv, AcquireLockInv, AcquireCheckInv, AcquireUndoInv,
     AcquireQueueInv, AcquireWokeInv, AcquireReturnInv
     DEF AcquireStep
<1>4. ASSUME NEW p \in Procs, ReleaseStep(p) PROVE IInv'
  BY <1>4, ReleaseXaddInv, ReleaseEasyInv, ReleaseHarderInv, ReleaseLockInv,
     ReleaseNobodyInv, ReleaseDequeueInv, ReleaseHandoffInv, ReleaseReadyInv
     DEF ReleaseStep
<1> QED BY <1>1, <1>2, <1>3, <1>4 DEF Next, Step

(* A zeroed semtable and no goroutine in a call satisfy it. *)
LEMMA InitInv == Init => IInv
<1> SUFFICES ASSUME Init PROVE IInv OBVIOUS
<1> USE DEF Init
<1>1. TypeOK BY DEF TypeOK
<1>2. LockInv /\ CallInv /\ WakeInv BY DEF LockInv, CallInv, WakeInv
<1>3. QueueInv BY DEF QueueInv, NoRepeat, Occurs
<1>4. CountInv
  <2>1. Counted = {} BY DEF Counted
  <2> QED BY <2>1, FS_EmptySet DEF CountInv
<1>5. PermitsConserved
  <2>1. \A a \in Addrs : Takers(a) = {} /\ At(a, {"r_xadd"}) = {} BY DEF Takers, At
  <2>2. \A a \in Addrs : Cardinality(Takers(a)) = 0 /\ Cardinality(At(a, {"r_xadd"})) = 0
    BY <2>1, FS_EmptySet
  <2> QED BY <1>1, <2>2 DEF PermitsConserved
<1>6. NoLostWakeup BY DEF NoLostWakeup, Asleep, At
<1> QED BY <1>1, <1>2, <1>3, <1>4, <1>5, <1>6 DEF IInv

(* IInv holds in every reachable state. *)
THEOREM Inductive == Spec => []IInv
  BY InitInv, StepInv, PTL DEF Spec

(* Type correctness of the root, its addresses and the calls. *)
THEOREM TypeCorrect == Spec => []TypeOK
<1>1. IInv => TypeOK BY DEF IInv
<1> QED BY <1>1, Inductive, PTL

(* No permit is made or lost, whatever the interleaving of lock-free takes,   *)
(* locked takes and handoffs (sema.go:132-282).                               *)
THEOREM Conservation == Spec => []PermitsConserved
<1>1. IInv => PermitsConserved BY DEF IInv
<1> QED BY <1>1, Inductive, PTL

(* While goroutines sleep on an address, each of its free permits has a       *)
(* goroutine on its way (sema.go:165-182 and 193-270).                        *)
THEOREM WakeupsAreNotLost == Spec => []NoLostWakeup
<1>1. IInv => NoLostWakeup BY DEF IInv
<1> QED BY <1>1, Inductive, PTL

-----------------------------------------------------------------------------
(* The refinement.  addr is any address: a step of a goroutine that is in a   *)
(* call on another one changes nothing of what addr looks like.               *)

(* The abstract semaphore of addr stands still. *)
LEMMA Stutter ==
  ASSUME sema'[addr] = sema[addr], AbsQueue' = AbsQueue, AbsWakee' = AbsWakee,
         \A q \in Procs : StateOf(q)' = StateOf(q)
  PROVE  UNCHANGED Sem!semaVars
<1>1. AbsState' = AbsState BY DEF AbsState
<1> QED BY <1>1 DEF Sem!semaVars

(* Steps that the abstract semaphore does not see, on whatever address. *)
LEMMA CallAcquireStutters ==
  ASSUME IInv, NEW p \in Procs, NEW a \in Addrs, NEW lifo \in BOOLEAN,
         CallAcquire(p, a, lifo)
  PROVE  UNCHANGED Sem!semaVars
<1> USE AddressAssumption DEF IInv, CallAcquire
<1>1. sema'[addr] = sema[addr] BY DEF TypeOK
<1>2. AbsQueue' = AbsQueue BY DEF AbsQueue, Queueing, TypeOK, LockInv
<1>3. \A q \in Procs : StateOf(q)' = StateOf(q)
  BY DEF StateOf, BeingReadied, TypeOK, CallInv, WakeInv
<1>4. AbsWakee' = AbsWakee
  BY DEF AbsWakee, TypeOK, CallInv
<1> QED BY <1>1, <1>2, <1>3, <1>4, Stutter

LEMMA CallReleaseStutters ==
  ASSUME IInv, NEW p \in Procs, NEW a \in Addrs, NEW handoff \in BOOLEAN,
         CallRelease(p, a, handoff)
  PROVE  UNCHANGED Sem!semaVars
<1> USE AddressAssumption DEF IInv, CallRelease
<1>1. sema'[addr] = sema[addr] BY DEF TypeOK
<1>2. AbsQueue' = AbsQueue BY DEF AbsQueue, Queueing, TypeOK, LockInv
<1>3. \A q \in Procs : StateOf(q)' = StateOf(q)
  BY DEF StateOf, BeingReadied, TypeOK, CallInv, WakeInv
<1>4. AbsWakee' = AbsWakee
  BY DEF AbsWakee, TypeOK, CallInv
<1> QED BY <1>1, <1>2, <1>3, <1>4, Stutter

LEMMA AcquireLockStutters ==
  ASSUME IInv, NEW p \in Procs, AcquireLock(p)
  PROVE  UNCHANGED Sem!semaVars
<1> USE AddressAssumption DEF IInv, AcquireLock
<1>1. sema'[addr] = sema[addr] BY DEF TypeOK
<1>2. AbsQueue' = AbsQueue BY DEF AbsQueue, Queueing, TypeOK, LockInv
<1>3. \A q \in Procs : StateOf(q)' = StateOf(q)
  BY DEF StateOf, BeingReadied, TypeOK, CallInv, WakeInv
<1>4. AbsWakee' = AbsWakee
  BY DEF AbsWakee, TypeOK, CallInv
<1> QED BY <1>1, <1>2, <1>3, <1>4, Stutter

LEMMA AcquireUndoStutters ==
  ASSUME IInv, NEW p \in Procs, AcquireUndo(p)
  PROVE  UNCHANGED Sem!semaVars
<1> USE AddressAssumption DEF IInv, AcquireUndo
<1>1. sema'[addr] = sema[addr] BY DEF TypeOK
<1>2. AbsQueue' = AbsQueue BY DEF AbsQueue, Queueing, TypeOK, LockInv
<1>3. \A q \in Procs : StateOf(q)' = StateOf(q)
  BY DEF StateOf, BeingReadied, TypeOK, CallInv, WakeInv
<1>4. AbsWakee' = AbsWakee
  BY DEF AbsWakee, TypeOK, CallInv
<1> QED BY <1>1, <1>2, <1>3, <1>4, Stutter

LEMMA AcquireQueueStutters ==
  ASSUME IInv, NEW p \in Procs, AcquireQueue(p)
  PROVE  UNCHANGED Sem!semaVars
<1> USE AddressAssumption DEF IInv, AcquireQueue
<1>1. sema'[addr] = sema[addr] BY DEF TypeOK
<1>2. AbsQueue' = AbsQueue BY DEF AbsQueue, Queueing, TypeOK, LockInv
<1>3. \A q \in Procs : StateOf(q)' = StateOf(q)
  BY DEF StateOf, BeingReadied, TypeOK, CallInv, WakeInv
<1>4. AbsWakee' = AbsWakee
  BY DEF AbsWakee, TypeOK, CallInv
<1> QED BY <1>1, <1>2, <1>3, <1>4, Stutter

LEMMA AcquireReturnStutters ==
  ASSUME IInv, NEW p \in Procs, AcquireReturn(p)
  PROVE  UNCHANGED Sem!semaVars
<1> USE AddressAssumption DEF IInv, AcquireReturn
<1>1. sema'[addr] = sema[addr] BY DEF TypeOK
<1>2. AbsQueue' = AbsQueue BY DEF AbsQueue, Queueing, TypeOK, LockInv, NoReq
<1>3. \A q \in Procs : StateOf(q)' = StateOf(q)
  BY DEF StateOf, BeingReadied, TypeOK, CallInv, WakeInv, NoReq
<1>4. AbsWakee' = AbsWakee
  BY DEF AbsWakee, TypeOK, CallInv, NoReq
<1> QED BY <1>1, <1>2, <1>3, <1>4, Stutter

LEMMA ReleaseHarderStutters ==
  ASSUME IInv, NEW p \in Procs, ReleaseHarder(p)
  PROVE  UNCHANGED Sem!semaVars
<1> USE AddressAssumption DEF IInv, ReleaseHarder
<1>1. sema'[addr] = sema[addr] BY DEF TypeOK
<1>2. AbsQueue' = AbsQueue BY DEF AbsQueue, Queueing, TypeOK, LockInv
<1>3. \A q \in Procs : StateOf(q)' = StateOf(q)
  BY DEF StateOf, BeingReadied, TypeOK, CallInv, WakeInv
<1>4. AbsWakee' = AbsWakee
  BY DEF AbsWakee, TypeOK, CallInv
<1> QED BY <1>1, <1>2, <1>3, <1>4, Stutter

LEMMA ReleaseLockStutters ==
  ASSUME IInv, NEW p \in Procs, ReleaseLock(p)
  PROVE  UNCHANGED Sem!semaVars
<1> USE AddressAssumption DEF IInv, ReleaseLock
<1>1. sema'[addr] = sema[addr] BY DEF TypeOK
<1>2. AbsQueue' = AbsQueue BY DEF AbsQueue, Queueing, TypeOK, LockInv
<1>3. \A q \in Procs : StateOf(q)' = StateOf(q)
  BY DEF StateOf, BeingReadied, TypeOK, CallInv, WakeInv
<1>4. AbsWakee' = AbsWakee
  BY DEF AbsWakee, TypeOK, CallInv
<1> QED BY <1>1, <1>2, <1>3, <1>4, Stutter

LEMMA ReleaseReadyStutters ==
  ASSUME IInv, NEW p \in Procs, ReleaseReady(p)
  PROVE  UNCHANGED Sem!semaVars
<1> USE AddressAssumption DEF IInv, ReleaseReady
<1>0. PICK w \in Procs :
        /\ w = wakee[p] /\ w # p
        /\ pc[w] = "a_parked" /\ Addr(w) = Addr(p)
  BY DEF CallInv, WakeInv
<1>1. sema'[addr] = sema[addr] BY DEF TypeOK
<1>2. AbsQueue' = AbsQueue BY <1>0 DEF AbsQueue, Queueing, TypeOK, LockInv
<1>3. \A q \in Procs : StateOf(q)' = StateOf(q)
  <2>1. /\ pc[p] = "r_ready" /\ pc'[p] = "idle" /\ pc'[w] = "a_woke"
        /\ \A q \in Procs : q # p /\ q # w => pc'[q] = pc[q]
        /\ \A q \in Procs : q # p => wakee'[q] = wakee[q] /\ req'[q] = req[q]
        /\ ticket' = ticket /\ wakee[p] = w
    BY <1>0 DEF TypeOK
  <2>2. StateOf(p)' = StateOf(p) BY <2>1 DEF StateOf
  <2>3. StateOf(w)' = StateOf(w)
    <3>1. BeingReadied(w) BY <2>1 DEF BeingReadied
    <3> QED BY <1>0, <2>1, <3>1 DEF StateOf
  <2>4. ASSUME NEW q \in Procs, q # p, q # w PROVE StateOf(q)' = StateOf(q)
    <3>1. BeingReadied(q)' <=> BeingReadied(q)
      <4>1. \A r \in Procs : pc'[r] = "r_ready" /\ wakee'[r] = q
                            <=> pc[r] = "r_ready" /\ wakee[r] = q
        BY <1>0, <2>1, <2>4
      <4> QED BY <4>1 DEF BeingReadied
    <3>2. pc'[q] = pc[q] /\ req'[q] = req[q] /\ ticket'[q] = ticket[q] BY <2>1, <2>4
    <3> QED BY <3>1, <3>2 DEF StateOf
  <2> QED BY <2>2, <2>3, <2>4
<1>4. AbsWakee' = AbsWakee
  BY <1>0 DEF AbsWakee, TypeOK, CallInv
<1> QED BY <1>1, <1>2, <1>3, <1>4, Stutter

-----------------------------------------------------------------------------
(* One goroutine moves in the abstract semaphore. *)
LEMMA StateGoto ==
  ASSUME NEW p \in Procs, NEW to, StateOf(p)' = to,
         \A q \in Procs : q # p => StateOf(q)' = StateOf(q)
  PROVE  AbsState[p] = StateOf(p) /\ AbsState' = [AbsState EXCEPT ![p] = to]
  BY DEF AbsState

(* AcquireNow, or nothing yet. *)
LEMMA AcquireEasyRefines ==
  ASSUME IInv, NEW p \in Procs, AcquireEasy(p)
  PROVE  [Sem!Next]_(Sem!semaVars)
<1> USE AddressAssumption DEF IInv, AcquireEasy
<1>1. CASE Addr(p) # addr
  <2>1. sema'[addr] = sema[addr] BY <1>1 DEF TypeOK, CallInv
  <2>2. AbsQueue' = AbsQueue
    BY <1>1 DEF AbsQueue, Queueing, TypeOK, LockInv
  <2>3. \A q \in Procs : StateOf(q)' = StateOf(q)
    BY <1>1 DEF StateOf, BeingReadied, TypeOK, CallInv, WakeInv
  <2>4. AbsWakee' = AbsWakee
    BY <1>1 DEF AbsWakee, TypeOK, CallInv
  <2> QED BY <2>1, <2>2, <2>3, <2>4, Stutter
<1>2. CASE Addr(p) = addr /\ Goto(p, "a_easy", "a_ret") /\ CanSemacquire(Addr(p))
  <2>1. sema[addr] > 0 /\ sema'[addr] = sema[addr] - 1 BY <1>2 DEF TypeOK
  <2>2. AbsQueue' = AbsQueue BY <1>2 DEF AbsQueue, Queueing, TypeOK, LockInv
  <2>3. \A q \in Procs : q # p => StateOf(q)' = StateOf(q)
    BY <1>2 DEF StateOf, BeingReadied, TypeOK, CallInv, WakeInv
  <2>4. StateOf(p) = "idle" /\ StateOf(p)' = "idle"
    BY <1>2 DEF StateOf, BeingReadied, TypeOK, CallInv, WakeInv
  <2>5. AbsWakee' = AbsWakee BY <1>2 DEF AbsWakee, TypeOK, CallInv
  <2>6. AbsState[p] = "idle" /\ AbsState' = AbsState BY <2>3, <2>4 DEF AbsState
  <2> QED BY <2>1, <2>2, <2>5, <2>6 DEF Sem!Next, Sem!AcquireNow, Sem!CanSemacquire
<1>3. CASE Goto(p, "a_easy", "a_lock") /\ CannotSemacquire(Addr(p))
  <2>1. sema'[addr] = sema[addr] BY <1>3 DEF TypeOK, CallInv
  <2>2. AbsQueue' = AbsQueue
    BY <1>3 DEF AbsQueue, Queueing, TypeOK, LockInv
  <2>3. \A q \in Procs : StateOf(q)' = StateOf(q)
    BY <1>3 DEF StateOf, BeingReadied, TypeOK, CallInv, WakeInv
  <2>4. AbsWakee' = AbsWakee
    BY <1>3 DEF AbsWakee, TypeOK, CallInv
  <2> QED BY <2>1, <2>2, <2>3, <2>4, Stutter
<1> QED BY <1>1, <1>2, <1>3

(* AcquireNow, or Park: the failed second look is where the waiter queues. *)
LEMMA AcquireCheckRefines ==
  ASSUME IInv, NEW p \in Procs, AcquireCheck(p)
  PROVE  [Sem!Next]_(Sem!semaVars)
<1> USE AddressAssumption DEF IInv, AcquireCheck
<1>1. CASE Addr(p) # addr
  <2>1. sema'[addr] = sema[addr] BY <1>1 DEF TypeOK, CallInv
  <2>2. AbsQueue' = AbsQueue
    BY <1>1 DEF AbsQueue, Queueing, TypeOK, LockInv
  <2>3. \A q \in Procs : StateOf(q)' = StateOf(q)
    BY <1>1 DEF StateOf, BeingReadied, TypeOK, CallInv, WakeInv
  <2>4. AbsWakee' = AbsWakee
    BY <1>1 DEF AbsWakee, TypeOK, CallInv
  <2> QED BY <2>1, <2>2, <2>3, <2>4, Stutter
<1>2. CASE Addr(p) = addr /\ Goto(p, "a_check", "a_undo") /\ CanSemacquire(Addr(p))
  <2>1. sema[addr] > 0 /\ sema'[addr] = sema[addr] - 1 BY <1>2 DEF TypeOK
  <2>2. AbsQueue' = AbsQueue BY <1>2 DEF AbsQueue, Queueing, TypeOK, LockInv
  <2>3. \A q \in Procs : q # p => StateOf(q)' = StateOf(q)
    BY <1>2 DEF StateOf, BeingReadied, TypeOK, CallInv, WakeInv
  <2>4. StateOf(p) = "idle" /\ StateOf(p)' = "idle"
    BY <1>2 DEF StateOf, BeingReadied, TypeOK, CallInv, WakeInv
  <2>5. AbsWakee' = AbsWakee BY <1>2 DEF AbsWakee, TypeOK, CallInv
  <2>6. AbsState[p] = "idle" /\ AbsState' = AbsState BY <2>3, <2>4 DEF AbsState
  <2> QED BY <2>1, <2>2, <2>5, <2>6 DEF Sem!Next, Sem!AcquireNow, Sem!CanSemacquire
<1>3. CASE Addr(p) = addr /\ Goto(p, "a_check", "a_queue") /\ CannotSemacquire(Addr(p))
  <2>1. sema[addr] = 0 /\ sema'[addr] = sema[addr] BY <1>3 DEF TypeOK, CallInv
  <2>2. AbsQueue' = Sem!Queue(AbsQueue, p, req[p].flag) /\ req[p].flag \in BOOLEAN BY <1>3 DEF AbsQueue, Queueing, TypeOK, LockInv, CallInv, Sem!Queue, Insert
  <2>3. \A q \in Procs : q # p => StateOf(q)' = StateOf(q)
    BY <1>3 DEF StateOf, BeingReadied, TypeOK, CallInv, WakeInv
  <2>4. StateOf(p) = "idle" /\ StateOf(p)' = "parked"
    BY <1>3 DEF StateOf, BeingReadied, TypeOK, CallInv, WakeInv
  <2>5. AbsWakee' = AbsWakee BY <1>3 DEF AbsWakee, TypeOK, CallInv
  <2> QED BY <2>1, <2>2, <2>3, <2>4, <2>5, StateGoto
          DEF Sem!Next, Sem!Park, Sem!CanSemacquire, Sem!Goto
<1> QED BY <1>1, <1>2, <1>3

(* ResumeGranted, ResumeTake or ResumeLose. *)
LEMMA AcquireWokeRefines ==
  ASSUME IInv, NEW p \in Procs, AcquireWoke(p)
  PROVE  [Sem!Next]_(Sem!semaVars)
<1> USE AddressAssumption DEF IInv, AcquireWoke
<1>1. CASE Addr(p) # addr
  <2>1. sema'[addr] = sema[addr] BY <1>1 DEF TypeOK, CallInv
  <2>2. AbsQueue' = AbsQueue
    BY <1>1 DEF AbsQueue, Queueing, TypeOK, LockInv
  <2>3. \A q \in Procs : StateOf(q)' = StateOf(q)
    BY <1>1 DEF StateOf, BeingReadied, TypeOK, CallInv, WakeInv
  <2>4. AbsWakee' = AbsWakee
    BY <1>1 DEF AbsWakee, TypeOK, CallInv
  <2> QED BY <2>1, <2>2, <2>3, <2>4, Stutter
<1>2. CASE Addr(p) = addr /\ ticket[p] /\ Goto(p, "a_woke", "a_ret") /\ UNCHANGED sema
  <2>1. sema'[addr] = sema[addr] BY <1>2 DEF TypeOK, CallInv
  <2>2. AbsQueue' = AbsQueue BY <1>2 DEF AbsQueue, Queueing, TypeOK, LockInv, CallInv
  <2>3. \A q \in Procs : q # p => StateOf(q)' = StateOf(q)
    BY <1>2 DEF StateOf, BeingReadied, TypeOK, CallInv, WakeInv
  <2>4. StateOf(p) = "granted" /\ StateOf(p)' = "idle"
    BY <1>2 DEF StateOf, BeingReadied, TypeOK, CallInv, WakeInv
  <2>5. AbsWakee' = AbsWakee BY <1>2 DEF AbsWakee, TypeOK, CallInv
  <2> QED BY <2>1, <2>2, <2>3, <2>4, <2>5, StateGoto
          DEF Sem!Next, Sem!ResumeGranted, Sem!CanSemacquire, Sem!Goto
<1>3. CASE /\ Addr(p) = addr /\ ~ticket[p]
          /\ Goto(p, "a_woke", "a_ret") /\ CanSemacquire(Addr(p))
  <2>1. sema[addr] > 0 /\ sema'[addr] = sema[addr] - 1 BY <1>3 DEF TypeOK, CallInv
  <2>2. AbsQueue' = AbsQueue BY <1>3 DEF AbsQueue, Queueing, TypeOK, LockInv, CallInv
  <2>3. \A q \in Procs : q # p => StateOf(q)' = StateOf(q)
    BY <1>3 DEF StateOf, BeingReadied, TypeOK, CallInv, WakeInv
  <2>4. StateOf(p) = "woken" /\ StateOf(p)' = "idle"
    BY <1>3 DEF StateOf, BeingReadied, TypeOK, CallInv, WakeInv
  <2>5. AbsWakee' = AbsWakee BY <1>3 DEF AbsWakee, TypeOK, CallInv
  <2> QED BY <2>1, <2>2, <2>3, <2>4, <2>5, StateGoto
          DEF Sem!Next, Sem!ResumeTake, Sem!CanSemacquire, Sem!Goto
<1>4. CASE /\ Addr(p) = addr /\ ~ticket[p]
          /\ Goto(p, "a_woke", "a_lock") /\ CannotSemacquire(Addr(p))
  <2>1. sema[addr] = 0 /\ sema'[addr] = sema[addr] BY <1>4 DEF TypeOK, CallInv
  <2>2. AbsQueue' = AbsQueue BY <1>4 DEF AbsQueue, Queueing, TypeOK, LockInv, CallInv
  <2>3. \A q \in Procs : q # p => StateOf(q)' = StateOf(q)
    BY <1>4 DEF StateOf, BeingReadied, TypeOK, CallInv, WakeInv
  <2>4. StateOf(p) = "woken" /\ StateOf(p)' = "idle"
    BY <1>4 DEF StateOf, BeingReadied, TypeOK, CallInv, WakeInv
  <2>5. AbsWakee' = AbsWakee BY <1>4 DEF AbsWakee, TypeOK, CallInv
  <2> QED BY <2>1, <2>2, <2>3, <2>4, <2>5, StateGoto
          DEF Sem!Next, Sem!ResumeLose, Sem!CanSemacquire, Sem!Goto
<1> QED BY <1>1, <1>2, <1>3, <1>4

(* ReleaseAdd. *)
LEMMA ReleaseXaddRefines ==
  ASSUME IInv, NEW p \in Procs, ReleaseXadd(p)
  PROVE  [Sem!Next]_(Sem!semaVars)
<1> USE AddressAssumption DEF IInv, ReleaseXadd
<1>1. CASE Addr(p) # addr
  <2>1. sema'[addr] = sema[addr] BY <1>1 DEF TypeOK, CallInv
  <2>2. AbsQueue' = AbsQueue
    BY <1>1 DEF AbsQueue, Queueing, TypeOK, LockInv
  <2>3. \A q \in Procs : StateOf(q)' = StateOf(q)
    BY <1>1 DEF StateOf, BeingReadied, TypeOK, CallInv, WakeInv
  <2>4. AbsWakee' = AbsWakee
    BY <1>1 DEF AbsWakee, TypeOK, CallInv
  <2> QED BY <2>1, <2>2, <2>3, <2>4, Stutter
<1>2. CASE Addr(p) = addr
  <2>1. sema'[addr] = sema[addr] + 1 BY <1>2 DEF TypeOK, CallInv
  <2>2. AbsQueue' = AbsQueue BY <1>2 DEF AbsQueue, Queueing, TypeOK, LockInv, CallInv
  <2>3. \A q \in Procs : q # p => StateOf(q)' = StateOf(q)
    BY <1>2 DEF StateOf, BeingReadied, TypeOK, CallInv, WakeInv
  <2>4. StateOf(p) = "idle" /\ StateOf(p)' = "released"
    BY <1>2 DEF StateOf, BeingReadied, TypeOK, CallInv, WakeInv
  <2>5. AbsWakee' = AbsWakee BY <1>2 DEF AbsWakee, TypeOK, CallInv
  <2> QED BY <2>1, <2>2, <2>3, <2>4, <2>5, StateGoto
          DEF Sem!Next, Sem!ReleaseAdd, Sem!CanSemacquire, Sem!Goto
<1> QED BY <1>1, <1>2

(* ReleaseNobody: nwait = 0 proves the queue of addr empty, without the lock. *)
LEMMA ReleaseEasyRefines ==
  ASSUME IInv, NEW p \in Procs, ReleaseEasy(p)
  PROVE  [Sem!Next]_(Sem!semaVars)
<1> USE AddressAssumption DEF IInv, ReleaseEasy
<1>1. CASE Addr(p) # addr
  <2>1. sema'[addr] = sema[addr] BY <1>1 DEF TypeOK, CallInv
  <2>2. AbsQueue' = AbsQueue
    BY <1>1 DEF AbsQueue, Queueing, TypeOK, LockInv, NoReq
  <2>3. \A q \in Procs : StateOf(q)' = StateOf(q)
    BY <1>1 DEF StateOf, BeingReadied, TypeOK, CallInv, WakeInv, NoReq
  <2>4. AbsWakee' = AbsWakee
    BY <1>1 DEF AbsWakee, TypeOK, CallInv, NoReq
  <2> QED BY <2>1, <2>2, <2>3, <2>4, Stutter
<1>2. CASE Addr(p) = addr
  <2>1. sema'[addr] = sema[addr] BY <1>2 DEF TypeOK, CallInv
  <2>2. AbsQueue' = AbsQueue BY <1>2 DEF AbsQueue, Queueing, TypeOK, LockInv, CallInv, NoReq
  <2>3. \A q \in Procs : q # p => StateOf(q)' = StateOf(q)
    BY <1>2 DEF StateOf, BeingReadied, TypeOK, CallInv, WakeInv, NoReq
  <2>4. StateOf(p) = "released" /\ StateOf(p)' = "idle"
    BY <1>2 DEF StateOf, BeingReadied, TypeOK, CallInv, WakeInv, NoReq
  <2>5. AbsWakee' = AbsWakee BY <1>2 DEF AbsWakee, TypeOK, CallInv, NoReq
  <2>6. AbsQueue = << >>
    <3>1. ~Asleep(addr) BY <1>2, SleepersCounted DEF Asleep, At, LockInv
    <3> QED BY <3>1 DEF AbsQueue, Queueing, Asleep, At
  <2> QED BY <2>1, <2>2, <2>3, <2>4, <2>5, <2>6, StateGoto
          DEF Sem!Next, Sem!ReleaseNobody, Sem!CanSemacquire, Sem!Goto
<1> QED BY <1>1, <1>2

(* ReleaseNobody, under the lock. *)
LEMMA ReleaseNobodyRefines ==
  ASSUME IInv, NEW p \in Procs, ReleaseNobody(p)
  PROVE  [Sem!Next]_(Sem!semaVars)
<1> USE AddressAssumption DEF IInv, ReleaseNobody
<1>1. CASE Addr(p) # addr
  <2>1. sema'[addr] = sema[addr] BY <1>1 DEF TypeOK, CallInv
  <2>2. AbsQueue' = AbsQueue
    BY <1>1 DEF AbsQueue, Queueing, TypeOK, LockInv, NoReq
  <2>3. \A q \in Procs : StateOf(q)' = StateOf(q)
    BY <1>1 DEF StateOf, BeingReadied, TypeOK, CallInv, WakeInv, NoReq
  <2>4. AbsWakee' = AbsWakee
    BY <1>1 DEF AbsWakee, TypeOK, CallInv, NoReq
  <2> QED BY <2>1, <2>2, <2>3, <2>4, Stutter
<1>2. CASE Addr(p) = addr
  <2>1. sema'[addr] = sema[addr] BY <1>2 DEF TypeOK, CallInv
  <2>2. AbsQueue' = AbsQueue BY <1>2 DEF AbsQueue, Queueing, TypeOK, LockInv, CallInv, NoReq
  <2>3. \A q \in Procs : q # p => StateOf(q)' = StateOf(q)
    BY <1>2 DEF StateOf, BeingReadied, TypeOK, CallInv, WakeInv, NoReq
  <2>4. StateOf(p) = "released" /\ StateOf(p)' = "idle"
    BY <1>2 DEF StateOf, BeingReadied, TypeOK, CallInv, WakeInv, NoReq
  <2>5. AbsWakee' = AbsWakee BY <1>2 DEF AbsWakee, TypeOK, CallInv, NoReq
  <2>6. AbsQueue = << >>
    <3>1. ~Asleep(addr) BY <1>2, SleepersCounted DEF Asleep, At, LockInv
    <3> QED BY <3>1 DEF AbsQueue, Queueing, Asleep, At
  <2> QED BY <2>1, <2>2, <2>3, <2>4, <2>5, <2>6, StateGoto
          DEF Sem!Next, Sem!ReleaseNobody, Sem!CanSemacquire, Sem!Goto
<1> QED BY <1>1, <1>2

(* ReleaseDequeue. *)
LEMMA ReleaseDequeueRefines ==
  ASSUME IInv, NEW p \in Procs, ReleaseDequeue(p)
  PROVE  [Sem!Next]_(Sem!semaVars)
<1> USE AddressAssumption DEF IInv, ReleaseDequeue
<1>1. CASE Addr(p) # addr
  <2>1. sema'[addr] = sema[addr] BY <1>1 DEF TypeOK, CallInv
  <2>2. AbsQueue' = AbsQueue
    BY <1>1 DEF AbsQueue, Queueing, TypeOK, LockInv
  <2>3. \A q \in Procs : StateOf(q)' = StateOf(q)
    BY <1>1 DEF StateOf, BeingReadied, TypeOK, CallInv, WakeInv
  <2>4. AbsWakee' = AbsWakee
    BY <1>1 DEF AbsWakee, TypeOK, CallInv
  <2> QED BY <2>1, <2>2, <2>3, <2>4, Stutter
<1>2. CASE Addr(p) = addr
  <2>1. sema'[addr] = sema[addr] /\ queue[addr] # << >> BY <1>2 DEF TypeOK
  <2>2. AbsQueue = queue[addr] /\ AbsQueue' = Tail(AbsQueue)
    BY <1>2 DEF AbsQueue, Queueing, TypeOK, LockInv
  <2>3. \A q \in Procs : q # p => StateOf(q)' = StateOf(q)
    BY <1>2 DEF StateOf, BeingReadied, TypeOK, CallInv, WakeInv
  <2>4. StateOf(p) = "released" /\ StateOf(p)' = "waking"
    BY <1>2 DEF StateOf, BeingReadied, TypeOK, CallInv, WakeInv
  <2>5. AbsWakee' = [AbsWakee EXCEPT ![p] = Head(AbsQueue)]
    BY <1>2, <2>2 DEF AbsWakee, TypeOK, CallInv
  <2> QED BY <2>1, <2>2, <2>3, <2>4, <2>5, StateGoto
          DEF Sem!Next, Sem!ReleaseDequeue, Sem!Goto
<1> QED BY <1>1, <1>2

(* ReleaseReady: the wakee is granted the permit or merely woken. *)
LEMMA ReleaseHandoffRefines ==
  ASSUME IInv, NEW p \in Procs, ReleaseHandoff(p)
  PROVE  [Sem!Next]_(Sem!semaVars)
<1> USE AddressAssumption DEF IInv, ReleaseHandoff
<1>0. PICK w \in Procs :
        /\ w = wakee[p] /\ w # p
        /\ pc[w] = "a_parked" /\ Addr(w) = Addr(p) /\ ~ticket[w]
        /\ \A r \in Procs : r # p => wakee[r] # w
  BY DEF CallInv, WakeInv
<1>1. CASE Addr(p) # addr
  <2>1. sema'[addr] = sema[addr] BY <1>1 DEF TypeOK, CallInv
  <2>2. AbsQueue' = AbsQueue
    BY <1>0, <1>1 DEF AbsQueue, Queueing, TypeOK, LockInv
  <2>3. \A q \in Procs : StateOf(q)' = StateOf(q)
    BY <1>0, <1>1 DEF StateOf, BeingReadied, TypeOK, CallInv, WakeInv
  <2>4. AbsWakee' = AbsWakee
    BY <1>0, <1>1 DEF AbsWakee, TypeOK, CallInv
  <2> QED BY <2>1, <2>2, <2>3, <2>4, Stutter
<1>2. CASE Addr(p) = addr
  <2> DEFINE grant == req[p].flag /\ sema[addr] > 0
  <2>1. sema'[addr] = IF grant THEN sema[addr] - 1 ELSE sema[addr]
    BY <1>2 DEF TypeOK
  <2>2. AbsQueue' = AbsQueue
    BY <1>2 DEF AbsQueue, Queueing, TypeOK, LockInv
  <2>3. \A q \in Procs : q # p /\ q # w => StateOf(q)' = StateOf(q)
    BY <1>0, <1>2 DEF StateOf, BeingReadied, TypeOK, CallInv, WakeInv
  <2>4. StateOf(p) = "waking" /\ StateOf(p)' = "idle"
    BY <1>2 DEF StateOf, BeingReadied, TypeOK, CallInv, WakeInv
  <2>5. StateOf(w)' = IF grant THEN "granted" ELSE "woken"
    <3>1. BeingReadied(w)' BY <1>0 DEF BeingReadied, TypeOK
    <3>2. grant => ticket'[w] BY <1>0, <1>2 DEF TypeOK
    <3>4. ~grant => ~ticket'[w] BY <1>0, <1>2 DEF TypeOK
    <3>3. pc'[w] = "a_parked" /\ req'[w].addr = addr BY <1>0, <1>2 DEF TypeOK
    <3> QED BY <3>1, <3>2, <3>3, <3>4 DEF StateOf
  <2>6. AbsState' = [AbsState EXCEPT ![p] = "idle",
                                     ![w] = IF grant THEN "granted" ELSE "woken"]
    BY <1>0, <2>3, <2>4, <2>5 DEF AbsState
  <2>7. AbsWakee[p] = w /\ AbsWakee' = [AbsWakee EXCEPT ![p] = NoProc]
    BY <1>0, <1>2 DEF AbsWakee, TypeOK, CallInv
  <2>8. req[p].flag \in BOOLEAN /\ AbsState[p] = "waking"
    BY <2>4 DEF CallInv, AbsState
  <2>9. Sem!ReleaseReady(p, req[p].flag)
    BY <2>1, <2>2, <2>6, <2>7, <2>8 DEF Sem!ReleaseReady
  <2> QED BY <2>8, <2>9 DEF Sem!Next
<1> QED BY <1>1, <1>2

-----------------------------------------------------------------------------
(* Every step of sema.go is a step or a stutter of the semaphore of addr. *)
LEMMA StepRefines == IInv /\ [Next]_vars => [Sem!Next]_(Sem!semaVars)
<1> SUFFICES ASSUME IInv, [Next]_vars PROVE [Sem!Next]_(Sem!semaVars) OBVIOUS
<1>1. CASE UNCHANGED vars
  BY <1>1, Stutter
     DEF vars, AbsQueue, Queueing, AbsWakee, StateOf, BeingReadied
<1>2. ASSUME NEW p \in Procs, Call(p) PROVE UNCHANGED Sem!semaVars
  BY <1>2, CallAcquireStutters, CallReleaseStutters DEF Call
<1>3. ASSUME NEW p \in Procs, AcquireStep(p) PROVE [Sem!Next]_(Sem!semaVars)
  BY <1>3, AcquireEasyRefines, AcquireLockStutters, AcquireCheckRefines,
     AcquireUndoStutters, AcquireQueueStutters, AcquireWokeRefines,
     AcquireReturnStutters DEF AcquireStep
<1>4. ASSUME NEW p \in Procs, ReleaseStep(p) PROVE [Sem!Next]_(Sem!semaVars)
  BY <1>4, ReleaseXaddRefines, ReleaseEasyRefines, ReleaseHarderStutters,
     ReleaseLockStutters, ReleaseNobodyRefines, ReleaseDequeueRefines,
     ReleaseHandoffRefines, ReleaseReadyStutters DEF ReleaseStep
<1> QED BY <1>1, <1>2, <1>3, <1>4 DEF Next, Step

(* The zeroed semtable is the initial semaphore. *)
LEMMA InitRefines == Init => Sem!Init
<1> SUFFICES ASSUME Init PROVE Sem!Init OBVIOUS
<1> USE AddressAssumption DEF Init
<1>1. sema[addr] = InitSema OBVIOUS
<1>2. AbsQueue = << >> BY DEF AbsQueue, Queueing
<1>3. AbsState = [p \in Procs |-> "idle"] BY DEF AbsState, StateOf
<1>4. AbsWakee = [p \in Procs |-> NoProc] BY DEF AbsWakee
<1> QED BY <1>1, <1>2, <1>3, <1>4 DEF Sem!Init

(* Any address of a root behaves as the semaphore of module Semaphore, although *)
(* it shares the lock and nwait with the others (sema.go:132-270).              *)
THEOREM Refinement == Spec => ImplementsSemaphore
  BY InitRefines, StepRefines, Inductive, PTL DEF Spec, ImplementsSemaphore, Sem!Spec
=============================================================================
