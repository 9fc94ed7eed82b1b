-------------------------- MODULE SyncRWMutexProofs --------------------------
(***************************************************************************)
(* The proofs about SyncRWMutex: the lock excludes, its counts agree with  *)
(* the goroutines, no fatal error is reached and the last reader wakes the *)
(* writer, for every finite set of goroutines smaller than MaxReaders.     *)
(*                                                                         *)
(* None of these is inductive by itself.  IInv, which is, adds:            *)
(*   HolderInv  who holds w: exactly the goroutines at a step of Lock,     *)
(*              TryLock or Unlock, so there is one of them at most;        *)
(*   LinkInv    a goroutine is in a call of readerSem or writerSem only at *)
(*              the program step that makes the call;                      *)
(*   PhaseInv   a writer is pending from its announcement to its Unlock;   *)
(*              the local r is used in Count and Unlock only;              *)
(*   ReaderInv  readerCount and readerWait, as sums over the goroutines;   *)
(*   WakeInv    writerSem has a permit, or a goroutine on its way to add   *)
(*              it, when the writer waits and readerWait is 0, else none.  *)
(* The queues of the two semaphores stay consistent by the lemmas of       *)
(* module Semaphore, whose actions the steps of the lock conjoin.          *)
(*                                                                         *)
(* Each action has a lemma.  Its step <1>0 lists what the action changes   *)
(* and the others follow from that: numbers are the goroutines at each     *)
(* step, permits are those an Unlock owes, holder is who holds w.          *)
(***************************************************************************)
EXTENDS SyncRWMutex, CountingLemmas

(* How many goroutines are at a step. *)
Number(s) == Cardinality({p \in Procs : pc[p] = s})

(* The steps between the Lock and the Unlock of w. *)
HolderPCs == {"announce", "count", "wblocked", "writing", "unblock", "tryLock", "tryFailed"}

(* w is held by the goroutine that is at one of them. *)
HolderInv == \A p \in Procs : pc[p] \in HolderPCs <=> w = p

(* Semaphore calls and program steps go together; no permit is handed off. *)
LinkInv ==
  \A p \in Procs :
    /\ rsst[p] # "granted" /\ wsst[p] # "granted"
    /\ rsst[p] \in {"parked", "woken"}     => pc[p] = "rblocked"
    /\ rsst[p] \in {"released", "waking"}  => pc[p] = "unblock" /\ r[p] > 0
    /\ wsst[p] \in {"parked", "woken"}     => pc[p] = "wblocked"
    /\ wsst[p] \in {"released", "waking"}  => pc[p] = "lastReader"

(* readerCount is negative, and readerWait is in use, while a writer is pending. *)
PhaseInv ==
  /\ Announced <=> \E p \in Procs : pc[p] \in {"count", "wblocked", "writing"}
  /\ \A p \in Procs :
       /\ r[p] # 0 => pc[p] \in {"count", "unblock"}
       /\ pc[p] = "count"     => readerWait <= 0
       /\ pc[p] = "writing"   => readerWait = 0
       /\ pc[p] = "departing" => Announced
       /\ pc[p] # "throw"

(* The readers that the holder of w has yet to count or to release ... *)
Coming == IF w = NoProc THEN 0 ELSE r[w]

(* ... but for the one whose permit it has just added. *)
Due == IF w # NoProc /\ rsst[w] \in {"released", "waking"} THEN 1 ELSE 0

(* The two counts of the readers, and the permits of readerSem. *)
ReaderInv ==
  /\ readerCount + (IF Announced THEN MaxReaders ELSE 0)
       = Number("reading") + Number("rblocked")
  /\ rsema <= Number("rblocked")
  /\ ~Announced => readerWait = 0 /\ rsema + Coming - Due = Number("rblocked")
  /\ Announced => readerWait + Coming = Number("reading") + Number("departing") + rsema

(* The readers that are about to release writerSem. *)
Wakers == {p \in Procs : pc[p] = "lastReader" /\ wsst[p] = "idle"}

(* The permit of writerSem is made once, when readerWait has become 0. *)
WakeInv ==
  wsema + Cardinality(Wakers)
    = IF readerWait = 0 /\ \E p \in Procs : pc[p] = "wblocked" THEN 1 ELSE 0

(* The inductive invariant. *)
IInv == /\ TypeOK /\ RSem!QueueInv /\ WSem!QueueInv /\ HolderInv /\ LinkInv
        /\ PhaseInv /\ ReaderInv /\ WakeInv

(* The vocabulary of the model, visible in every leaf. *)
USE SyncRWMutexAssumption
USE DEF PCs, HolderPCs, Goto, Announced, Mutex!Acquire, Mutex!Release, Mutex!Passes

(* How many goroutines there are. *)
N == Cardinality(Procs)

(* A goroutine is at one step: the readers are distinct, and at most N. *)
LEMMA Partition ==
  ASSUME NEW f
  PROVE  /\ N \in Nat
         /\ \A s : /\ {p \in Procs : f[p] = s} \in SUBSET Procs
                   /\ Cardinality({p \in Procs : f[p] = s}) \in Nat
         /\ Cardinality({p \in Procs : f[p] = "reading"})
              + Cardinality({p \in Procs : f[p] = "rblocked"})
              + Cardinality({p \in Procs : f[p] = "departing"}) <= N
<1> DEFINE S(s) == {p \in Procs : f[p] = s}
           R == S("reading")
           B == S("rblocked")
           D == S("departing")
<1>1. \A s : S(s) \in SUBSET Procs OBVIOUS
<1>2. \A s : IsFiniteSet(S(s)) /\ Cardinality(S(s)) \in Nat
  BY <1>1, Countable
<1>3. /\ IsFiniteSet(R) /\ IsFiniteSet(B) /\ IsFiniteSet(D) /\ N \in Nat
      /\ Cardinality(R) \in Nat /\ Cardinality(B) \in Nat /\ Cardinality(D) \in Nat
      /\ R \cap B = {} /\ (R \cup B) \cap D = {} /\ (R \cup B) \cup D \subseteq Procs
  BY <1>2, FS_CardinalityType DEF N
<1> HIDE DEF R, B, D
<1>4. IsFiniteSet(R \cup B) /\ Cardinality(R \cup B) = Cardinality(R) + Cardinality(B)
  BY <1>3, FS_Union, FS_EmptySet
<1>5. Cardinality((R \cup B) \cup D) = Cardinality(R \cup B) + Cardinality(D)
  <2> DEFINE RB == R \cup B
  <2>1. IsFiniteSet(RB) /\ Cardinality(RB) \in Nat /\ Cardinality(RB \cap D) = 0
    BY <1>3, <1>4, FS_EmptySet
  <2> HIDE DEF RB
  <2>2. Cardinality(RB \cup D) = Cardinality(RB) + Cardinality(D) - 0
    BY <1>3, <2>1, FS_Union
  <2>3. Cardinality(RB \cup D) = Cardinality(RB) + Cardinality(D)
    BY <1>3, <2>1, <2>2
  <2> QED BY <2>3 DEF RB
<1>6. Cardinality((R \cup B) \cup D) <= N
  BY <1>3, FS_Subset DEF N
<1>7. Cardinality(R) + Cardinality(B) + Cardinality(D) <= N
  BY <1>4, <1>5, <1>6
<1> QED BY <1>1, <1>2, <1>3, <1>7 DEF R, B, D

(* So before and after a step. *)
LEMMA Bounds ==
  /\ N \in Nat /\ N = Cardinality(Procs) /\ N < MaxReaders
  /\ \A s : Number(s) \in Nat /\ Number(s)' \in Nat
  /\ Number("reading") + Number("rblocked") + Number("departing") <= N
  /\ Number("reading")' + Number("rblocked")' + Number("departing")' <= N
<1>1. N < MaxReaders BY DEF N
<1> QED BY <1>1, Partition DEF Number, N

(* One goroutine goes from one step to another. *)
LEMMA Moved ==
  ASSUME TypeOK, NEW p \in Procs, NEW to, pc' = [pc EXCEPT ![p] = to]
  PROVE  \A s : Number(s)' = Number(s) + (IF to = s THEN 1 ELSE 0)
                                       - (IF pc[p] = s THEN 1 ELSE 0)
<1> SUFFICES ASSUME NEW s
             PROVE  Number(s)' = Number(s) + (IF to = s THEN 1 ELSE 0)
                                           - (IF pc[p] = s THEN 1 ELSE 0)
  OBVIOUS
<1> DEFINE S == {q \in Procs : pc[q] = s}
           T == {q \in Procs : pc'[q] = s}
<1>1. S \in SUBSET Procs /\ T \in SUBSET Procs OBVIOUS
<1>2. /\ \A q \in Procs : q # p => (q \in S <=> q \in T)
      /\ p \in S <=> pc[p] = s
      /\ p \in T <=> to = s
  BY DEF TypeOK
<1>3. Cardinality(S) \in Nat /\ Cardinality(T) \in Nat BY <1>1, Countable
<1> HIDE DEF S, T
<1>4. CASE p \in S /\ p \notin T
  <2>1. Cardinality(T) = Cardinality(S) - 1 BY <1>1, <1>2, <1>4, CountLoss
  <2> QED BY <1>2, <1>3, <1>4, <2>1 DEF Number, S, T
<1>5. CASE p \notin S /\ p \in T
  <2>1. Cardinality(T) = Cardinality(S) + 1 BY <1>1, <1>2, <1>5, CountGain
  <2> QED BY <1>2, <1>3, <1>5, <2>1 DEF Number, S, T
<1>6. CASE p \in S <=> p \in T
  <2>1. Cardinality(T) = Cardinality(S) BY <1>1, <1>2, <1>6, CountSame
  <2> QED BY <1>2, <1>3, <1>6, <2>1 DEF Number, S, T
<1> QED BY <1>4, <1>5, <1>6

(* What the counts are worth, as numbers. *)
LEMMA Typed ==
  ASSUME IInv
  PROVE  /\ w \in Procs \cup {NoProc} /\ pc \in [Procs -> PCs]
         /\ readerCount \in Int /\ readerWait \in Int /\ rsema \in Nat
         /\ r \in [Procs -> 0 .. N] /\ Coming \in 0 .. N /\ Due \in {0, 1}
         /\ ReaderInv /\ MaxReaders \in Nat
  BY SMTT(30), Bounds DEF IInv, TypeOK, RSem!TypeOK, Coming, Due, N

(* A step that somebody is at has a positive number. *)
LEMMA Somebody ==
  \A p \in Procs : Number(pc[p]) > 0
<1> SUFFICES ASSUME NEW p \in Procs PROVE Number(pc[p]) > 0 OBVIOUS
<1>1. {q \in Procs : pc[q] = pc[p]} \in SUBSET Procs /\ p \in {q \in Procs : pc[q] = pc[p]}
  OBVIOUS
<1> QED BY <1>1, CountSome DEF Number

(* The wakers are counted, before and after a step. *)
LEMMA WakersCounted ==
  /\ Wakers \in SUBSET Procs /\ Wakers' \in SUBSET Procs
  /\ Cardinality(Wakers) \in Nat /\ Cardinality(Wakers') \in Nat
<1>1. Wakers \in SUBSET Procs /\ Wakers' \in SUBSET Procs BY DEF Wakers
<1> QED BY <1>1, Countable

(* The two semaphores stand still. *)
LEMMA SemaphoresUntouched ==
  /\ RSem!QueueInv /\ UNCHANGED readerSem => RSem!QueueInv'
  /\ WSem!QueueInv /\ UNCHANGED writerSem => WSem!QueueInv'
  BY RSem!QueueInvStep, WSem!QueueInvStep DEF readerSem, writerSem, RSem!semaVars, WSem!semaVars

(* The bounds of the counts follow from what they count. *)
LEMMA Types ==
  ASSUME IInv, ReaderInv', RSem!QueueInv', WSem!QueueInv',
         w' \in Procs \cup {NoProc}, readerCount' \in Int, readerWait' \in Int,
         pc' \in [Procs -> PCs], r' \in [Procs -> 0 .. N],
         held' \in BOOLEAN, late' \in SUBSET Procs
  PROVE  TypeOK'
<1>1. RSem!TypeOK' /\ WSem!TypeOK' BY DEF RSem!QueueInv, WSem!QueueInv
<1>2. rsema' \in Nat BY <1>1 DEF RSem!TypeOK
<1>3. Coming' \in 0 .. N BY Bounds DEF Coming
<1>4. Due' \in {0, 1} BY DEF Due
<1>5. readerCount' \in -MaxReaders .. N
  BY Bounds DEF ReaderInv
<1>6. readerWait' \in -N .. N
  BY <1>2, <1>3, Bounds DEF ReaderInv
<1> QED BY <1>1, <1>5, <1>6, Bounds DEF TypeOK

(* A writer that has counted has nothing left to add to readerWait. *)
LEMMA Settled ==
  ASSUME IInv, NEW q \in Procs, pc[q] \in {"wblocked", "writing"}
  PROVE  Coming = 0 /\ readerWait = Number("reading") + Number("departing") + rsema
<1>1. w = q /\ w # NoProc /\ r[q] = 0 /\ Announced
  BY Typed DEF IInv, HolderInv, PhaseInv
<1> QED BY <1>1, Typed DEF Coming, ReaderInv

(* A reader comes in or blocks: with one more reader the count keeps its sign. *)
LEMMA RLockInv == ASSUME IInv, NEW p \in Procs, RLock(p) PROVE IInv'
<1>0. /\ pc[p] = "outside" /\ pc'[p] \in {"rblocked", "reading"}
      /\ pc' = [pc EXCEPT ![p] = pc'[p]]
      /\ UNCHANGED << w, readerWait, readerSem, writerSem, r >>
      /\ readerCount' = readerCount + 1
      /\ pc'[p] = "rblocked" <=> readerCount' < 0
      /\ late' \in SUBSET Procs /\ held' \in BOOLEAN
  BY Typed DEF IInv, RLock, TypeOK
<1>1. RSem!QueueInv' BY <1>0, SemaphoresUntouched DEF IInv
<1>2. WSem!QueueInv' BY <1>0, SemaphoresUntouched DEF IInv
<1>3. HolderInv' BY <1>0, Typed DEF IInv, HolderInv
<1>4. LinkInv' BY <1>0, Typed DEF IInv, LinkInv, PhaseInv, readerSem, writerSem
<1>numbers.
      /\ Number("departing")' = Number("departing")
      /\ pc'[p] = "reading" => /\ Number("reading")' = Number("reading") + 1
                               /\ Number("rblocked")' = Number("rblocked")
      /\ pc'[p] = "rblocked" => /\ Number("reading")' = Number("reading")
                                /\ Number("rblocked")' = Number("rblocked") + 1
  <2>1. \A s : Number(s)' = Number(s) + (IF pc'[p] = s THEN 1 ELSE 0)
                                      - (IF pc[p] = s THEN 1 ELSE 0)
    BY <1>0, Moved DEF IInv
  <2> QED BY <1>0, <2>1, Bounds
<1>permits. Coming' = Coming /\ Due' = Due /\ rsema' = rsema
  BY <1>0 DEF Coming, Due, readerSem
<1>announced. Announced' <=> Announced
  BY <1>0, <1>numbers, <1>permits, Bounds, Typed DEF ReaderInv
<1>5. ReaderInv'
  BY <1>0, <1>numbers, <1>permits, <1>announced, Bounds, Typed DEF ReaderInv
<1>6. PhaseInv' BY <1>0, <1>announced, Typed DEF IInv, PhaseInv
<1>7. WakeInv'
  <2>1. Wakers' = Wakers BY <1>0, Typed DEF Wakers, writerSem
  <2> QED BY <1>0, <2>1, Typed DEF IInv, WakeInv, writerSem
<1>8. TypeOK' BY <1>0, <1>1, <1>2, <1>5, Types, Typed
<1> QED BY <1>1, <1>2, <1>3, <1>4, <1>5, <1>6, <1>7, <1>8 DEF IInv

(* A reader comes in while no writer is pending. *)
LEMMA TryRLockInv == ASSUME IInv, NEW p \in Procs, TryRLock(p) PROVE IInv'
<1>0. /\ pc[p] = "outside" /\ pc'[p] = "reading"
      /\ pc' = [pc EXCEPT ![p] = "reading"]
      /\ UNCHANGED << w, readerWait, readerSem, writerSem, r >>
      /\ readerCount >= 0 /\ readerCount' = readerCount + 1
      /\ late' \in SUBSET Procs /\ held' \in BOOLEAN
  BY Typed DEF IInv, TryRLock, TypeOK, history
<1>1. RSem!QueueInv' BY <1>0, SemaphoresUntouched DEF IInv
<1>2. WSem!QueueInv' BY <1>0, SemaphoresUntouched DEF IInv
<1>3. HolderInv' BY <1>0, Typed DEF IInv, HolderInv
<1>4. LinkInv' BY <1>0, Typed DEF IInv, LinkInv, PhaseInv, readerSem, writerSem
<1>numbers.
      /\ Number("departing")' = Number("departing")
      /\ Number("reading")' = Number("reading") + 1
      /\ Number("rblocked")' = Number("rblocked")
  <2>1. \A s : Number(s)' = Number(s) + (IF pc'[p] = s THEN 1 ELSE 0)
                                      - (IF pc[p] = s THEN 1 ELSE 0)
    BY <1>0, Moved DEF IInv
  <2> QED BY <1>0, <2>1, Bounds
<1>permits. Coming' = Coming /\ Due' = Due /\ rsema' = rsema
  BY <1>0 DEF Coming, Due, readerSem
<1>announced. ~Announced /\ ~Announced'
  BY <1>0, <1>numbers, <1>permits, Bounds, Typed DEF ReaderInv
<1>5. ReaderInv'
  BY <1>0, <1>numbers, <1>permits, <1>announced, Bounds, Typed DEF ReaderInv
<1>6. PhaseInv' BY <1>0, <1>announced, Typed DEF IInv, PhaseInv
<1>7. WakeInv'
  <2>1. Wakers' = Wakers BY <1>0, Typed DEF Wakers, writerSem
  <2> QED BY <1>0, <2>1, Typed DEF IInv, WakeInv, writerSem
<1>8. TypeOK' BY <1>0, <1>1, <1>2, <1>5, Types, Typed
<1> QED BY <1>1, <1>2, <1>3, <1>4, <1>5, <1>6, <1>7, <1>8 DEF IInv

(* A reader leaves: at once, or with a writer to be told.  It was counted, so *)
(* there is no throw.                                                         *)
LEMMA RUnlockInv == ASSUME IInv, NEW p \in Procs, RUnlock(p) PROVE IInv'
<1>0. /\ pc[p] = "reading" /\ pc'[p] \in {"outside", "throw", "departing"}
      /\ pc' = [pc EXCEPT ![p] = pc'[p]]
      /\ UNCHANGED << w, readerWait, readerSem, writerSem, r >>
      /\ readerCount' = readerCount - 1
      /\ pc'[p] = "outside" <=> readerCount' >= 0
      /\ pc'[p] = "throw" => readerCount \in {0, -MaxReaders} /\ readerCount' < 0
      /\ late' \in SUBSET Procs /\ held' \in BOOLEAN
  BY Typed DEF IInv, RUnlock, TypeOK
<1>1. RSem!QueueInv' BY <1>0, SemaphoresUntouched DEF IInv
<1>2. WSem!QueueInv' BY <1>0, SemaphoresUntouched DEF IInv
<1>3. HolderInv' BY <1>0, Typed DEF IInv, HolderInv
<1>4. LinkInv' BY <1>0, Typed DEF IInv, LinkInv, PhaseInv, readerSem, writerSem
<1>numbers.
      /\ pc'[p] # "departing" => Number("departing")' = Number("departing")
      /\ pc'[p] = "departing" => Number("departing")' = Number("departing") + 1
      /\ Number("reading")' = Number("reading") - 1
      /\ Number("rblocked")' = Number("rblocked")
  <2>1. \A s : Number(s)' = Number(s) + (IF pc'[p] = s THEN 1 ELSE 0)
                                      - (IF pc[p] = s THEN 1 ELSE 0)
    BY <1>0, Moved DEF IInv
  <2> QED BY <1>0, <2>1, Bounds
<1>permits. Coming' = Coming /\ Due' = Due /\ rsema' = rsema
  BY <1>0 DEF Coming, Due, readerSem
<1>announced.
      /\ Announced' <=> Announced
      /\ pc'[p] = IF Announced THEN "departing" ELSE "outside"
        BY <1>0, <1>numbers, <1>permits, Bounds, Typed DEF ReaderInv
<1>5. ReaderInv'
  BY <1>0, <1>numbers, <1>permits, <1>announced, Bounds, Typed DEF ReaderInv
<1>6. PhaseInv' BY <1>0, <1>announced, Typed DEF IInv, PhaseInv
<1>7. WakeInv'
  <2>1. Wakers' = Wakers BY <1>0, Typed DEF Wakers, writerSem
  <2> QED BY <1>0, <2>1, Typed DEF IInv, WakeInv, writerSem
<1>8. TypeOK' BY <1>0, <1>1, <1>2, <1>5, Types, Typed
<1> QED BY <1>1, <1>2, <1>3, <1>4, <1>5, <1>6, <1>7, <1>8 DEF IInv

(* A reader that leaves tells the writer; the last one goes on to wake it. *)
LEMMA DepartInv == ASSUME IInv, NEW p \in Procs, Depart(p) PROVE IInv'
<1>0. /\ pc[p] = "departing"
      /\ pc'[p] = IF readerWait' = 0 THEN "lastReader" ELSE "outside"
      /\ pc' = [pc EXCEPT ![p] = pc'[p]]
      /\ UNCHANGED << w, readerCount, readerSem, writerSem, r >>
      /\ readerWait' = readerWait - 1
      /\ late' \in SUBSET Procs /\ held' \in BOOLEAN
  BY Typed DEF IInv, Depart, TypeOK, history, PhaseInv
<1>1. RSem!QueueInv' BY <1>0, SemaphoresUntouched DEF IInv
<1>2. WSem!QueueInv' BY <1>0, SemaphoresUntouched DEF IInv
<1>3. HolderInv' BY <1>0, Typed DEF IInv, HolderInv
<1>4. LinkInv' BY <1>0, Typed DEF IInv, LinkInv, PhaseInv, readerSem, writerSem
<1>numbers.
      /\ Number("departing")' = Number("departing") - 1
      /\ Number("reading")' = Number("reading")
      /\ Number("rblocked")' = Number("rblocked")
  <2>1. \A s : Number(s)' = Number(s) + (IF pc'[p] = s THEN 1 ELSE 0)
                                      - (IF pc[p] = s THEN 1 ELSE 0)
    BY <1>0, Moved DEF IInv
  <2> QED BY <1>0, <2>1, Bounds
<1>permits. Coming' = Coming /\ Due' = Due /\ rsema' = rsema
  BY <1>0 DEF Coming, Due, readerSem
<1>announced. Announced' /\ Announced BY <1>0 DEF IInv, PhaseInv
<1>5. ReaderInv'
  BY <1>0, <1>numbers, <1>permits, <1>announced, Bounds, Typed DEF ReaderInv
<1>wait. readerWait + Coming > 0 /\ (\A q \in Procs : pc[q] # "writing")
  <2>1. Number("departing") > 0 BY <1>0, Somebody
  <2>2. readerWait + Coming > 0
    BY <1>announced, <2>1, Bounds, Typed DEF ReaderInv
  <2>3. \A q \in Procs : pc[q] = "writing" => readerWait = 0 /\ Coming = 0
    BY Settled DEF IInv, PhaseInv
  <2> QED BY <2>2, <2>3, Typed
<1>6. PhaseInv' BY <1>0, <1>announced, <1>wait, Typed DEF IInv, PhaseInv
<1>7. WakeInv'
  <2>1. \A q \in Procs : pc[q] = "wblocked" => readerWait > 0
    BY <1>wait, Settled, Typed
  <2>2. wsema = 0 /\ Cardinality(Wakers) = 0 /\ wsema' = wsema
    BY <1>0, <2>1, WakersCounted, Typed DEF IInv, WakeInv, TypeOK, WSem!TypeOK, writerSem
  <2>3. CASE readerWait' = 0
    <3>1. PICK q \in Procs : pc[q] = "wblocked"
      BY <1>0, <1>announced, <1>wait, <2>3, Typed DEF IInv, PhaseInv
    <3>2. pc'[q] = "wblocked" BY <1>0, <3>1, Typed
    <3>3. wsst[p] = "idle" /\ wsst' = wsst
      BY <1>0 DEF IInv, LinkInv, TypeOK, WSem!TypeOK, WSem!States, writerSem
    <3>4. /\ p \notin Wakers /\ p \in Wakers'
          /\ \A x \in Procs : x # p => (x \in Wakers <=> x \in Wakers')
      BY <1>0, <2>3, <3>3, Typed DEF Wakers
    <3>5. Cardinality(Wakers') = 1 BY <2>2, <3>4, WakersCounted, CountGain
    <3> QED BY <2>2, <2>3, <3>2, <3>5 DEF WakeInv
  <2>4. CASE readerWait' # 0
    <3>1. Wakers' = Wakers BY <1>0, <2>4, Typed DEF Wakers, writerSem
    <3> QED BY <2>2, <2>4, <3>1 DEF WakeInv
  <2> QED BY <2>3, <2>4
<1>8. TypeOK' BY <1>0, <1>1, <1>2, <1>5, Types, Typed
<1> QED BY <1>1, <1>2, <1>3, <1>4, <1>5, <1>6, <1>7, <1>8 DEF IInv

(* A reader sleeps on readerSem, or goes around its loop: no count changes. *)
LEMMA RLockWaitInv == ASSUME IInv, NEW p \in Procs, RLockWait(p) PROVE IInv'
<1>0. /\ pc[p] = "rblocked" /\ UNCHANGED << w, readerCount, readerWait, writerSem, pc, r >>
      /\ rsst' = [rsst EXCEPT ![p] = rsst'[p]] /\ rsst'[p] \in {"parked", "idle"}
      /\ rsema' = rsema /\ late' \in SUBSET Procs /\ held' \in BOOLEAN
  BY Typed DEF IInv, TypeOK, RSem!TypeOK, RLockWait, RSem!Waits, RSem!Park,
               RSem!ResumeLose, RSem!Goto, counts, history
<1>1. RSem!QueueInv'
  <2>1. RSem!Next BY DEF RLockWait, RSem!Waits, RSem!Next
  <2> QED BY <2>1, RSem!QueueInvStep DEF IInv
<1>2. WSem!QueueInv' BY <1>0, SemaphoresUntouched DEF IInv
<1>3. HolderInv' BY <1>0, Typed DEF IInv, HolderInv
<1>types. rsst \in [Procs -> RSem!States] BY DEF IInv, TypeOK, RSem!TypeOK
<1>4. LinkInv' BY <1>0, <1>types, Typed DEF IInv, LinkInv, writerSem
<1>numbers. \A s : Number(s)' = Number(s) BY <1>0 DEF Number
<1>permits. Coming' = Coming /\ Due' = Due
  BY <1>0, <1>types, Typed DEF IInv, HolderInv, Coming, Due
<1>5. ReaderInv' BY <1>0, <1>numbers, <1>permits, Typed DEF ReaderInv
<1>6. PhaseInv' BY <1>0 DEF IInv, PhaseInv
<1>7. WakeInv'
  <2>1. Wakers' = Wakers BY <1>0 DEF Wakers, writerSem
  <2> QED BY <1>0, <2>1 DEF IInv, WakeInv, writerSem
<1>8. TypeOK' BY <1>0, <1>1, <1>2, <1>5, Types, Typed
<1> QED BY <1>1, <1>2, <1>3, <1>4, <1>5, <1>6, <1>7, <1>8 DEF IInv

(* A reader takes a permit: it was counted as a permit, now it is inside. *)
LEMMA RLockAcquiredInv == ASSUME IInv, NEW p \in Procs, RLockAcquired(p) PROVE IInv'
<1>0. /\ pc[p] = "rblocked" /\ pc'[p] = "reading" /\ pc' = [pc EXCEPT ![p] = "reading"]
      /\ UNCHANGED << w, readerCount, readerWait, writerSem, r >>
      /\ rsst' = [rsst EXCEPT ![p] = "idle"] 
      /\ rsema' = rsema - 1 /\ late' \in SUBSET Procs /\ held' \in BOOLEAN
  BY Typed DEF IInv, TypeOK, RSem!TypeOK, LinkInv, RLockAcquired, RSem!Acquired, RSem!AcquireNow,
               RSem!CanSemacquire, RSem!ResumeGranted, RSem!ResumeTake, RSem!Goto, counts, history
<1>1. RSem!QueueInv'
  <2>1. RSem!Next BY DEF RLockAcquired, RSem!Acquired, RSem!Next
  <2> QED BY <2>1, RSem!QueueInvStep DEF IInv
<1>2. WSem!QueueInv' BY <1>0, SemaphoresUntouched DEF IInv
<1>3. HolderInv' BY <1>0, Typed DEF IInv, HolderInv
<1>types. rsst \in [Procs -> RSem!States] BY DEF IInv, TypeOK, RSem!TypeOK
<1>4. LinkInv' BY <1>0, <1>types, Typed DEF IInv, LinkInv, writerSem
<1>numbers.
      /\ Number("departing")' = Number("departing")
      /\ Number("reading")' = Number("reading") + 1
      /\ Number("rblocked")' = Number("rblocked") - 1
  <2>1. \A s : Number(s)' = Number(s) + (IF pc'[p] = s THEN 1 ELSE 0)
                                      - (IF pc[p] = s THEN 1 ELSE 0)
    BY <1>0, Moved DEF IInv
  <2> QED BY <1>0, <2>1, Bounds
<1>permits. Coming' = Coming /\ Due' = Due
  BY <1>0, <1>types, Typed DEF IInv, HolderInv, Coming, Due
<1>5. ReaderInv' BY <1>0, <1>numbers, <1>permits, Bounds, Typed DEF ReaderInv
<1>6. PhaseInv' BY <1>0, Typed DEF IInv, PhaseInv
<1>7. WakeInv'
  <2>1. Wakers' = Wakers BY <1>0, Typed DEF Wakers, writerSem
  <2> QED BY <1>0, <2>1, Typed DEF IInv, WakeInv, writerSem
<1>8. TypeOK' BY <1>0, <1>1, <1>2, <1>5, Types, Typed
<1> QED BY <1>1, <1>2, <1>3, <1>4, <1>5, <1>6, <1>7, <1>8 DEF IInv

(* The last reader releases writerSem: the permit takes its place. *)
LEMMA WakeWriterInv == ASSUME IInv, NEW p \in Procs, WakeWriter(p) PROVE IInv'
<1>0. /\ pc[p] = "lastReader" /\ UNCHANGED << w, readerCount, readerWait, readerSem, pc, r >>
      /\ wsst' = [wsst EXCEPT ![p] = wsst'[p]] /\ wsst'[p] \in {"released", "waking"}
      /\ late' \in SUBSET Procs /\ held' \in BOOLEAN
  BY Typed DEF IInv, TypeOK, WSem!TypeOK, WakeWriter, WSem!ReleaseAdd,
               WSem!ReleaseDequeue, WSem!Goto, counts, history
<1>1. RSem!QueueInv' BY <1>0, SemaphoresUntouched DEF IInv
<1>2. WSem!QueueInv'
  <2>1. WSem!Next BY DEF WakeWriter, WSem!Next
  <2> QED BY <2>1, WSem!QueueInvStep DEF IInv
<1>3. HolderInv' BY <1>0, Typed DEF IInv, HolderInv
<1>types. wsst \in [Procs -> WSem!States] /\ wsema \in Nat
  BY DEF IInv, TypeOK, WSem!TypeOK
<1>4. LinkInv' BY <1>0, <1>types, Typed DEF IInv, LinkInv, readerSem
<1>numbers. \A s : Number(s)' = Number(s) BY <1>0 DEF Number
<1>permits. Coming' = Coming /\ Due' = Due /\ rsema' = rsema
  BY <1>0 DEF Coming, Due, readerSem
<1>5. ReaderInv' BY <1>0, <1>numbers, <1>permits, Typed DEF ReaderInv
<1>6. PhaseInv' BY <1>0 DEF IInv, PhaseInv
<1>7. WakeInv'
  <2>1. \A q \in Procs : q # p => (q \in Wakers <=> q \in Wakers')
    BY <1>0, <1>types DEF Wakers
  <2>2. p \notin Wakers' BY <1>0 DEF Wakers
  <2>3. CASE WSem!ReleaseAdd(p)
    <3>1. wsema' = wsema + 1 /\ p \in Wakers
      BY <1>0, <2>3 DEF WSem!ReleaseAdd, WSem!Goto, Wakers
    <3>2. Cardinality(Wakers') = Cardinality(Wakers) - 1
      BY <2>1, <2>2, <3>1, WakersCounted, CountLoss
    <3>3. wsema' + Cardinality(Wakers') = wsema + Cardinality(Wakers)
      BY <1>types, <3>1, <3>2, WakersCounted
    <3> QED BY <1>0, <3>3 DEF IInv, WakeInv
  <2>4. CASE WSem!ReleaseDequeue(p)
    <3>1. wsema' = wsema /\ p \notin Wakers
      BY <2>4 DEF WSem!ReleaseDequeue, WSem!Goto, Wakers
    <3>2. Cardinality(Wakers') = Cardinality(Wakers)
      BY <2>1, <2>2, <3>1, WakersCounted, CountSame
    <3> QED BY <1>0, <3>1, <3>2 DEF IInv, WakeInv
  <2> QED BY <2>3, <2>4 DEF WakeWriter
<1>8. TypeOK' BY <1>0, <1>1, <1>2, <1>5, Types, Typed
<1> QED BY <1>1, <1>2, <1>3, <1>4, <1>5, <1>6, <1>7, <1>8 DEF IInv

(* The last reader has readied the writer, or found nobody asleep. *)
LEMMA WriterAwakeInv == ASSUME IInv, NEW p \in Procs, WriterAwake(p) PROVE IInv'
<1>types.
      /\ wsst \in [Procs -> WSem!States] /\ wsema \in Nat
      /\ wwakee \in [Procs -> Procs \cup {NoProc}]
      /\ wsst[p] = "waking" => wwakee[p] \in Procs /\ wsst[wwakee[p]] = "parked"
  BY DEF IInv, TypeOK, WSem!TypeOK, WSem!QueueInv, WSem!Dequeued
<1>0. /\ pc[p] = "lastReader" /\ pc'[p] = "outside" /\ pc' = [pc EXCEPT ![p] = "outside"]
      /\ UNCHANGED << w, readerCount, readerWait, readerSem, r >>
      /\ late' \in SUBSET Procs /\ held' \in BOOLEAN
      /\ wsst[p] # "idle" /\ wsst'[p] = "idle" /\ wsema' = wsema
      /\ \A q \in Procs : \/ wsst'[q] = wsst[q] \/ q = p
                          \/ wsst[q] = "parked" /\ wsst'[q] = "woken"
  <2>1. CASE WSem!ReleaseNobody(p)
    BY <1>types, <2>1, Typed DEF IInv, TypeOK, WriterAwake, WSem!ReleaseNobody, WSem!Goto, counts, history
  <2>2. CASE WSem!ReleaseReady(p, FALSE)
    <3>1. /\ wsst[p] = "waking" /\ wsema' = wsema
          /\ wsst' = [wsst EXCEPT ![p] = "idle", ![wwakee[p]] = "woken"]
      BY <2>2 DEF WSem!ReleaseReady
    <3> QED
      BY <1>types, <3>1, Typed DEF IInv, TypeOK, WriterAwake, counts, history
  <2> QED BY <2>1, <2>2 DEF WriterAwake, WSem!Released
<1>1. RSem!QueueInv' BY <1>0, SemaphoresUntouched DEF IInv
<1>2. WSem!QueueInv'
  <2>1. WSem!Next BY DEF WriterAwake, WSem!Released, WSem!Next
  <2> QED BY <2>1, WSem!QueueInvStep DEF IInv
<1>3. HolderInv' BY <1>0, Typed DEF IInv, HolderInv
<1>4. LinkInv'
  <2> SUFFICES ASSUME NEW q \in Procs
               PROVE  /\ rsst'[q] # "granted" /\ wsst'[q] # "granted"
                      /\ rsst'[q] \in {"parked", "woken"} => pc'[q] = "rblocked"
                      /\ rsst'[q] \in {"released", "waking"} => pc'[q] = "unblock" /\ r'[q] > 0
                      /\ wsst'[q] \in {"parked", "woken"} => pc'[q] = "wblocked"
                      /\ wsst'[q] \in {"released", "waking"} => pc'[q] = "lastReader"
    BY DEF LinkInv
  <2> QED BY <1>0, Typed DEF IInv, LinkInv, readerSem
<1>numbers.
      /\ Number("departing")' = Number("departing")
      /\ Number("reading")' = Number("reading")
      /\ Number("rblocked")' = Number("rblocked")
  <2>1. \A s : Number(s)' = Number(s) + (IF pc'[p] = s THEN 1 ELSE 0)
                                      - (IF pc[p] = s THEN 1 ELSE 0)
    BY <1>0, Moved DEF IInv
  <2> QED BY <1>0, <2>1, Bounds
<1>permits. Coming' = Coming /\ Due' = Due /\ rsema' = rsema
  BY <1>0 DEF Coming, Due, readerSem
<1>5. ReaderInv' BY <1>0, <1>numbers, <1>permits, Typed DEF ReaderInv
<1>6. PhaseInv' BY <1>0, Typed DEF IInv, PhaseInv
<1>7. WakeInv'
  <2>1. Wakers' = Wakers
    <3>1. ASSUME NEW q \in Procs PROVE q \in Wakers <=> q \in Wakers'
      BY <1>0, Typed DEF IInv, LinkInv, Wakers
    <3> QED BY <3>1, WakersCounted
  <2> QED BY <1>0, <2>1, Typed DEF IInv, WakeInv
<1>8. TypeOK' BY <1>0, <1>1, <1>2, <1>5, Types, Typed
<1> QED BY <1>1, <1>2, <1>3, <1>4, <1>5, <1>6, <1>7, <1>8 DEF IInv

(* Nobody is at a step that excludes itself. *)
LEMMA Nobody ==
  ASSUME NEW s, \A q \in Procs : pc[q] # s
  PROVE  Number(s) = 0
<1>1. {q \in Procs : pc[q] = s} = {} OBVIOUS
<1> QED BY <1>1, FS_EmptySet DEF Number

(* The goroutine that holds w is the only one at a step of Lock or Unlock, so *)
(* it alone decides what is pending.                                          *)
LEMMA Holder ==
  ASSUME IInv, NEW p \in Procs, pc[p] \in HolderPCs
  PROVE  /\ w = p /\ w # NoProc /\ Coming = r[p]
         /\ \A q \in Procs : q # p => pc[q] \notin HolderPCs /\ r[q] = 0
         /\ Announced <=> pc[p] \in {"count", "wblocked", "writing"}
         /\ Due = IF rsst[p] \in {"released", "waking"} THEN 1 ELSE 0
         /\ pc[p] # "wblocked" => wsema + Cardinality(Wakers) = 0
<1>1. w = p /\ w # NoProc /\ \A q \in Procs : q # p => pc[q] \notin HolderPCs
  BY DEF IInv, HolderInv
<1>2. \A q \in Procs : q # p => r[q] = 0 BY <1>1 DEF IInv, PhaseInv
<1>3. Announced <=> pc[p] \in {"count", "wblocked", "writing"}
  BY <1>1 DEF IInv, PhaseInv
<1>4. pc[p] # "wblocked" => wsema + Cardinality(Wakers) = 0
  BY <1>1 DEF IInv, WakeInv
<1> QED BY <1>1, <1>2, <1>3, <1>4 DEF Coming, Due

(* While nobody holds w, no writer is pending and no permit is promised. *)
LEMMA NoHolder ==
  ASSUME IInv, w = NoProc
  PROVE  /\ ~Announced /\ Coming = 0 /\ Due = 0 /\ readerWait = 0
         /\ \A q \in Procs : pc[q] \notin HolderPCs /\ r[q] = 0
         /\ wsema + Cardinality(Wakers) = 0
<1>1. \A q \in Procs : pc[q] \notin HolderPCs
  BY DEF IInv, HolderInv
<1>2. \A q \in Procs : r[q] = 0 BY <1>1 DEF IInv, PhaseInv
<1>3. ~Announced BY <1>1 DEF IInv, PhaseInv
<1>4. wsema + Cardinality(Wakers) = 0 BY <1>1 DEF IInv, WakeInv
<1> QED BY <1>1, <1>2, <1>3, <1>4, Typed DEF Coming, Due, ReaderInv

(* The step of a goroutine that changes neither semaphore. *)
LEMMA NoWaker ==
  ASSUME IInv, NEW p \in Procs, pc[p] # "lastReader",
         pc' = [pc EXCEPT ![p] = pc'[p]], pc'[p] # "lastReader",
         UNCHANGED writerSem
  PROVE  Wakers' = Wakers /\ wsema' = wsema
  BY Typed DEF Wakers, writerSem

(* A writer takes w, and nobody notices yet. *)
LEMMA LockWInv == ASSUME IInv, NEW p \in Procs, LockW(p) PROVE IInv'
<1>0. /\ pc[p] = "outside" /\ pc'[p] = "announce" /\ pc' = [pc EXCEPT ![p] = pc'[p]]
      /\ w = NoProc /\ w' = p
      /\ UNCHANGED << readerCount, readerWait, readerSem, writerSem, r >>
      /\ late' \in SUBSET Procs /\ held' \in BOOLEAN
  BY Typed DEF IInv, LockW, TypeOK, counts
<1>holder.
      /\ ~Announced /\ Coming = 0 /\ Due = 0 /\ readerWait = 0
      /\ \A q \in Procs : pc[q] \notin HolderPCs /\ r[q] = 0
      /\ wsema + Cardinality(Wakers) = 0
  BY <1>0, NoHolder
<1>3. HolderInv' BY <1>0, <1>holder, Typed DEF HolderInv
<1>1. RSem!QueueInv' BY <1>0, SemaphoresUntouched DEF IInv
<1>2. WSem!QueueInv' BY <1>0, SemaphoresUntouched DEF IInv
<1>4. LinkInv' BY <1>0, Typed DEF IInv, LinkInv, PhaseInv, readerSem, writerSem
<1>numbers.
      /\ Number("departing")' = Number("departing")
      /\ Number("reading")' = Number("reading")
      /\ Number("rblocked")' = Number("rblocked")
  <2>1. \A s : Number(s)' = Number(s) + (IF pc'[p] = s THEN 1 ELSE 0)
                                      - (IF pc[p] = s THEN 1 ELSE 0)
    BY <1>0, Moved DEF IInv
  <2> QED BY <1>0, <2>1, Bounds
<1>permits. Coming' = 0 /\ Due' = 0 /\ rsema' = rsema
  BY <1>0, <1>holder DEF IInv, LinkInv, Coming, Due, readerSem
<1>5. ReaderInv'
  BY <1>0, <1>holder, <1>numbers, <1>permits, Bounds, Typed DEF ReaderInv
<1>6. PhaseInv' BY <1>0, <1>holder, Typed DEF IInv, PhaseInv
<1>7. WakeInv'
  <2>1. Wakers' = Wakers /\ wsema' = wsema BY <1>0, NoWaker
  <2>2. \A q \in Procs : pc'[q] # "wblocked" BY <1>0, <1>holder, Typed
  <2> QED BY <1>0, <1>holder, <2>1, <2>2 DEF WakeInv
<1>8. TypeOK' BY <1>0, <1>1, <1>2, <1>5, Types, Typed
<1> QED BY <1>1, <1>2, <1>3, <1>4, <1>5, <1>6, <1>7, <1>8 DEF IInv

(* TryLock takes w in the same way. *)
LEMMA TryLockWInv == ASSUME IInv, NEW p \in Procs, TryLockW(p) PROVE IInv'
<1>0. /\ pc[p] = "outside" /\ pc'[p] = "tryLock" /\ pc' = [pc EXCEPT ![p] = pc'[p]]
      /\ w = NoProc /\ w' = p
      /\ UNCHANGED << readerCount, readerWait, readerSem, writerSem, r >>
      /\ late' \in SUBSET Procs /\ held' \in BOOLEAN
  BY Typed DEF IInv, TryLockW, TypeOK, counts
<1>holder.
      /\ ~Announced /\ Coming = 0 /\ Due = 0 /\ readerWait = 0
      /\ \A q \in Procs : pc[q] \notin HolderPCs /\ r[q] = 0
      /\ wsema + Cardinality(Wakers) = 0
  BY <1>0, NoHolder
<1>3. HolderInv' BY <1>0, <1>holder, Typed DEF HolderInv
<1>1. RSem!QueueInv' BY <1>0, SemaphoresUntouched DEF IInv
<1>2. WSem!QueueInv' BY <1>0, SemaphoresUntouched DEF IInv
<1>4. LinkInv' BY <1>0, Typed DEF IInv, LinkInv, PhaseInv, readerSem, writerSem
<1>numbers.
      /\ Number("departing")' = Number("departing")
      /\ Number("reading")' = Number("reading")
      /\ Number("rblocked")' = Number("rblocked")
  <2>1. \A s : Number(s)' = Number(s) + (IF pc'[p] = s THEN 1 ELSE 0)
                                      - (IF pc[p] = s THEN 1 ELSE 0)
    BY <1>0, Moved DEF IInv
  <2> QED BY <1>0, <2>1, Bounds
<1>permits. Coming' = 0 /\ Due' = 0 /\ rsema' = rsema
  BY <1>0, <1>holder DEF IInv, LinkInv, Coming, Due, readerSem
<1>5. ReaderInv'
  BY <1>0, <1>holder, <1>numbers, <1>permits, Bounds, Typed DEF ReaderInv
<1>6. PhaseInv' BY <1>0, <1>holder, Typed DEF IInv, PhaseInv
<1>7. WakeInv'
  <2>1. Wakers' = Wakers /\ wsema' = wsema BY <1>0, NoWaker
  <2>2. \A q \in Procs : pc'[q] # "wblocked" BY <1>0, <1>holder, Typed
  <2> QED BY <1>0, <1>holder, <2>1, <2>2 DEF WakeInv
<1>8. TypeOK' BY <1>0, <1>1, <1>2, <1>5, Types, Typed
<1> QED BY <1>1, <1>2, <1>3, <1>4, <1>5, <1>6, <1>7, <1>8 DEF IInv

(* The writer announces itself: the readers it finds, inside or with a permit  *)
(* to come, are those it has to wait for.                                      *)
LEMMA AnnounceInv == ASSUME IInv, NEW p \in Procs, Announce(p) PROVE IInv'
<1>0. /\ pc[p] = "announce" /\ pc'[p] = IF readerCount = 0 THEN "writing" ELSE "count"
      /\ pc' = [pc EXCEPT ![p] = pc'[p]] /\ r' = [r EXCEPT ![p] = readerCount]
      /\ readerCount' = readerCount - MaxReaders
      /\ UNCHANGED << w, readerWait, readerSem, writerSem >>
      /\ late' \in SUBSET Procs /\ held' \in BOOLEAN
  BY Typed DEF IInv, Announce, TypeOK, history
<1>holder.
      /\ w = p /\ Coming = r[p]
      /\ \A q \in Procs : q # p => pc[q] \notin HolderPCs /\ r[q] = 0
      /\ ~Announced
      /\ Due = IF rsst[p] \in {"released", "waking"} THEN 1 ELSE 0
      /\ wsema + Cardinality(Wakers) = 0
  BY <1>0, Holder
<1>3. HolderInv' BY <1>0, <1>holder, Typed DEF IInv, HolderInv
<1>1. RSem!QueueInv' BY <1>0, SemaphoresUntouched DEF IInv
<1>2. WSem!QueueInv' BY <1>0, SemaphoresUntouched DEF IInv
<1>4. LinkInv' BY <1>0, Typed DEF IInv, LinkInv, PhaseInv, readerSem, writerSem
<1>numbers.
      /\ Number("departing")' = Number("departing")
      /\ Number("reading")' = Number("reading")
      /\ Number("rblocked")' = Number("rblocked")
  <2>1. \A s : Number(s)' = Number(s) + (IF pc'[p] = s THEN 1 ELSE 0)
                                      - (IF pc[p] = s THEN 1 ELSE 0)
    BY <1>0, Moved DEF IInv
  <2> QED BY <1>0, <2>1, Bounds
<1>permits.
      /\ Coming = 0 /\ Due = 0 /\ rsema' = rsema
      /\ readerCount \in 0 .. N /\ Coming' = readerCount /\ Due' = 0
  <2>1. r[p] = 0 /\ rsst[p] \notin {"released", "waking"}
    BY <1>0 DEF IInv, PhaseInv, LinkInv
  <2>2. readerCount \in 0 .. N BY <1>holder, Bounds, Typed DEF ReaderInv
  <2> QED BY <1>0, <1>holder, <2>1, <2>2, Typed DEF Coming, Due, readerSem
<1>rest. Number("departing") = 0 BY <1>holder, Nobody DEF IInv, PhaseInv
<1>announced. Announced' BY <1>0, <1>permits, Bounds
<1>5. ReaderInv'
  BY <1>0, <1>holder, <1>numbers, <1>permits, <1>rest, <1>announced, Bounds, Typed DEF ReaderInv
<1>rtype. r' \in [Procs -> 0 .. N] BY <1>0, <1>permits, Typed
<1>wait. readerWait = 0 BY <1>holder, Typed DEF ReaderInv
<1>6. PhaseInv'
  BY <1>0, <1>holder, <1>announced, <1>permits, <1>wait, Typed DEF IInv, PhaseInv
<1>7. WakeInv'
  <2>1. Wakers' = Wakers /\ wsema' = wsema BY <1>0, NoWaker
  <2>2. \A q \in Procs : pc'[q] # "wblocked" BY <1>0, <1>holder, Typed
  <2> QED BY <1>0, <1>holder, <2>1, <2>2 DEF WakeInv
<1>8. TypeOK' BY <1>0, <1>1, <1>2, <1>5, <1>permits, <1>rtype, Types, Typed
<1> QED BY <1>1, <1>2, <1>3, <1>4, <1>5, <1>6, <1>7, <1>8 DEF IInv

(* The writer counts them: what is left is what it has to wait for. *)
LEMMA CountInv == ASSUME IInv, NEW p \in Procs, Count(p) PROVE IInv'
<1>0. /\ pc[p] = "count" /\ pc'[p] = IF readerWait' = 0 THEN "writing" ELSE "wblocked"
      /\ pc' = [pc EXCEPT ![p] = pc'[p]] /\ r' = [r EXCEPT ![p] = 0]
      /\ readerWait' = readerWait + r[p] /\ r[p] \in 0 .. N
      /\ UNCHANGED << w, readerCount, readerSem, writerSem >>
      /\ late' \in SUBSET Procs /\ held' \in BOOLEAN
  BY Typed DEF IInv, Count, TypeOK, history
<1>holder.
      /\ w = p /\ Coming = r[p]
      /\ \A q \in Procs : q # p => pc[q] \notin HolderPCs /\ r[q] = 0
      /\ Announced
      /\ Due = IF rsst[p] \in {"released", "waking"} THEN 1 ELSE 0
      /\ wsema + Cardinality(Wakers) = 0
  BY <1>0, Holder
<1>3. HolderInv' BY <1>0, <1>holder, Typed DEF IInv, HolderInv
<1>target. pc'[p] \in {"writing", "wblocked"} BY <1>0
<1>1. RSem!QueueInv' BY <1>0, SemaphoresUntouched DEF IInv
<1>2. WSem!QueueInv' BY <1>0, SemaphoresUntouched DEF IInv
<1>4. LinkInv' BY <1>0, Typed DEF IInv, LinkInv, PhaseInv, readerSem, writerSem
<1>numbers.
      /\ Number("departing")' = Number("departing")
      /\ Number("reading")' = Number("reading")
      /\ Number("rblocked")' = Number("rblocked")
  <2>1. \A s : Number(s)' = Number(s) + (IF pc'[p] = s THEN 1 ELSE 0)
                                      - (IF pc[p] = s THEN 1 ELSE 0)
    BY <1>0, Moved DEF IInv
  <2>2. pc[p] = "count" BY <1>0
  <2> QED BY <2>1, <2>2, <1>target, Bounds
<1>permits. Coming' = 0 /\ rsema' = rsema
  BY <1>0, <1>holder, Typed DEF Coming, readerSem
<1>5. ReaderInv'
  BY <1>0, <1>holder, <1>numbers, <1>permits, Bounds, Typed DEF ReaderInv
<1>rtype. r' \in [Procs -> 0 .. N] BY <1>0, Bounds, Typed
<1>6. PhaseInv' BY <1>0, <1>holder, Typed DEF IInv, PhaseInv
<1>7. WakeInv'
  <2>1. Wakers' = Wakers /\ wsema' = wsema BY <1>0, NoWaker
  <2>2. \A q \in Procs : pc'[q] = "wblocked" => readerWait' # 0
    BY <1>0, <1>holder, Typed
  <2> QED BY <1>holder, <2>1, <2>2 DEF WakeInv
<1>8. TypeOK' BY <1>0, <1>1, <1>2, <1>5, <1>rtype, Bounds, Types, Typed
<1> QED BY <1>1, <1>2, <1>3, <1>4, <1>5, <1>6, <1>7, <1>8 DEF IInv

(* The writer sleeps on writerSem, or goes around its loop. *)
LEMMA LockWaitInv == ASSUME IInv, NEW p \in Procs, LockWait(p) PROVE IInv'
<1>0. /\ pc[p] = "wblocked" /\ UNCHANGED << w, readerCount, readerWait, readerSem, pc, r >>
      /\ wsst' = [wsst EXCEPT ![p] = wsst'[p]] /\ wsst'[p] \in {"parked", "idle"}
      /\ wsema' = wsema /\ late' \in SUBSET Procs /\ held' \in BOOLEAN
  BY Typed DEF IInv, TypeOK, WSem!TypeOK, LockWait, WSem!Waits, WSem!Park,
               WSem!ResumeLose, WSem!Goto, counts, history
<1>1. RSem!QueueInv' BY <1>0, SemaphoresUntouched DEF IInv
<1>2. WSem!QueueInv'
  <2>1. WSem!Next BY DEF LockWait, WSem!Waits, WSem!Next
  <2> QED BY <2>1, WSem!QueueInvStep DEF IInv
<1>3. HolderInv' BY <1>0, Typed DEF IInv, HolderInv
<1>types. wsst \in [Procs -> WSem!States] BY DEF IInv, TypeOK, WSem!TypeOK
<1>4. LinkInv' BY <1>0, <1>types, Typed DEF IInv, LinkInv, readerSem
<1>numbers. \A s : Number(s)' = Number(s) BY <1>0 DEF Number
<1>permits. Coming' = Coming /\ Due' = Due /\ rsema' = rsema
  BY <1>0 DEF Coming, Due, readerSem
<1>5. ReaderInv' BY <1>0, <1>numbers, <1>permits, Typed DEF ReaderInv
<1>6. PhaseInv' BY <1>0 DEF IInv, PhaseInv
<1>7. WakeInv'
  <2>1. Wakers' = Wakers BY <1>0, <1>types DEF Wakers
  <2> QED BY <1>0, <2>1 DEF IInv, WakeInv
<1>8. TypeOK' BY <1>0, <1>1, <1>2, <1>5, Types, Typed
<1> QED BY <1>1, <1>2, <1>3, <1>4, <1>5, <1>6, <1>7, <1>8 DEF IInv

(* The writer gets the only permit, which is there when no reader is left. *)
LEMMA LockAcquiredInv == ASSUME IInv, NEW p \in Procs, LockAcquired(p) PROVE IInv'
<1>types. wsst \in [Procs -> WSem!States] /\ wsema \in Nat
  BY DEF IInv, TypeOK, WSem!TypeOK
<1>0. /\ pc[p] = "wblocked" /\ pc'[p] = "writing" /\ pc' = [pc EXCEPT ![p] = pc'[p]]
      /\ UNCHANGED << w, readerCount, readerWait, readerSem, r >>
      /\ wsst' = [wsst EXCEPT ![p] = "idle"]
      /\ wsema > 0 /\ wsema' = wsema - 1
      /\ late' \in SUBSET Procs /\ held' \in BOOLEAN
  BY <1>types, Typed DEF IInv, TypeOK, LinkInv, LockAcquired, WSem!Acquired, WSem!AcquireNow,
               WSem!CanSemacquire, WSem!ResumeGranted, WSem!ResumeTake, WSem!Goto, counts, history
<1>1. RSem!QueueInv' BY <1>0, SemaphoresUntouched DEF IInv
<1>2. WSem!QueueInv'
  <2>1. WSem!Next BY DEF LockAcquired, WSem!Acquired, WSem!Next
  <2> QED BY <2>1, WSem!QueueInvStep DEF IInv
<1>holder.
      /\ w = p /\ \A q \in Procs : q # p => pc[q] \notin HolderPCs
      /\ Announced
  BY <1>0, Holder
<1>3. HolderInv' BY <1>0, Typed DEF IInv, HolderInv
<1>4. LinkInv' BY <1>0, <1>types, Typed DEF IInv, LinkInv, readerSem
<1>numbers.
      /\ Number("departing")' = Number("departing")
      /\ Number("reading")' = Number("reading")
      /\ Number("rblocked")' = Number("rblocked")
  <2>1. \A s : Number(s)' = Number(s) + (IF pc'[p] = s THEN 1 ELSE 0)
                                      - (IF pc[p] = s THEN 1 ELSE 0)
    BY <1>0, Moved DEF IInv
  <2> QED BY <1>0, <2>1, Bounds
<1>permits. Coming' = Coming /\ Due' = Due /\ rsema' = rsema
  BY <1>0 DEF Coming, Due, readerSem
<1>5. ReaderInv' BY <1>0, <1>numbers, <1>permits, Typed DEF ReaderInv
<1>wait. readerWait = 0 /\ wsema + Cardinality(Wakers) = 1
  BY <1>0, <1>types, WakersCounted DEF IInv, WakeInv
<1>6. PhaseInv' BY <1>0, <1>holder, <1>wait, Typed DEF IInv, PhaseInv
<1>7. WakeInv'
  <2>1. Wakers' = Wakers BY <1>0, <1>types, Typed DEF Wakers
  <2>2. \A q \in Procs : pc'[q] # "wblocked" BY <1>0, <1>holder, Typed
  <2> QED BY <1>0, <1>types, <1>wait, <2>1, <2>2, WakersCounted DEF WakeInv
<1>8. TypeOK' BY <1>0, <1>1, <1>2, <1>5, Types, Typed
<1> QED BY <1>1, <1>2, <1>3, <1>4, <1>5, <1>6, <1>7, <1>8 DEF IInv

(* TryLock has w: it announces itself when there is no reader, else it fails. *)
LEMMA TryLockCasInv == ASSUME IInv, NEW p \in Procs, TryLockCas(p) PROVE IInv'
<1>0. /\ pc[p] = "tryLock" /\ pc'[p] = IF readerCount = 0 THEN "writing" ELSE "tryFailed"
      /\ pc' = [pc EXCEPT ![p] = pc'[p]]
      /\ readerCount' = IF readerCount = 0 THEN -MaxReaders ELSE readerCount
      /\ UNCHANGED << w, readerWait, readerSem, writerSem, r >>
      /\ late' \in SUBSET Procs /\ held' \in BOOLEAN
  BY Typed DEF IInv, TryLockCas, TypeOK, history
<1>holder.
      /\ w = p /\ Coming = r[p]
      /\ \A q \in Procs : q # p => pc[q] \notin HolderPCs /\ r[q] = 0
      /\ ~Announced
      /\ Due = IF rsst[p] \in {"released", "waking"} THEN 1 ELSE 0
      /\ wsema + Cardinality(Wakers) = 0
  BY <1>0, Holder
<1>3. HolderInv' BY <1>0, <1>holder, Typed DEF IInv, HolderInv
<1>1. RSem!QueueInv' BY <1>0, SemaphoresUntouched DEF IInv
<1>2. WSem!QueueInv' BY <1>0, SemaphoresUntouched DEF IInv
<1>4. LinkInv' BY <1>0, Typed DEF IInv, LinkInv, PhaseInv, readerSem, writerSem
<1>numbers.
      /\ Number("departing")' = Number("departing")
      /\ Number("reading")' = Number("reading")
      /\ Number("rblocked")' = Number("rblocked")
  <2>1. \A s : Number(s)' = Number(s) + (IF pc'[p] = s THEN 1 ELSE 0)
                                      - (IF pc[p] = s THEN 1 ELSE 0)
    BY <1>0, Moved DEF IInv
  <2> QED BY <1>0, <2>1, Bounds
<1>permits. /\ Coming = 0 /\ Due = 0 /\ rsema' = rsema /\ Coming' = 0 /\ Due' = 0
  <2>1. r[p] = 0 /\ rsst[p] \notin {"released", "waking"}
    BY <1>0 DEF IInv, PhaseInv, LinkInv
  <2> QED BY <1>0, <1>holder, <2>1, Typed DEF Coming, Due, readerSem
<1>rest. Number("departing") = 0 BY <1>holder, Nobody DEF IInv, PhaseInv
<1>announced. Announced' <=> readerCount = 0 BY <1>0, <1>holder, Bounds, Typed
<1>count. readerCount' \in Int BY <1>0, Bounds, Typed
<1>5. ReaderInv'
  <2>1. CASE readerCount = 0
    <3>1. Number("reading") = 0 /\ Number("rblocked") = 0 /\ rsema = 0 /\ readerWait = 0
      BY <1>holder, <1>permits, <2>1, Bounds, Typed DEF ReaderInv
    <3> QED
      BY <1>0, <1>numbers, <1>permits, <1>rest, <1>announced, <2>1, <3>1, Bounds, Typed DEF ReaderInv
  <2>2. CASE readerCount # 0
    BY <1>0, <1>holder, <1>numbers, <1>permits, <1>announced, <2>2, Bounds, Typed DEF ReaderInv
  <2> QED BY <2>1, <2>2
<1>wait. readerWait = 0 BY <1>holder, Typed DEF ReaderInv
<1>6. PhaseInv'
  BY <1>0, <1>holder, <1>announced, <1>wait, Typed DEF IInv, PhaseInv
<1>7. WakeInv'
  <2>1. Wakers' = Wakers /\ wsema' = wsema BY <1>0, NoWaker
  <2>2. \A q \in Procs : pc'[q] # "wblocked" BY <1>0, <1>holder, Typed
  <2> QED BY <1>0, <1>holder, <2>1, <2>2 DEF WakeInv
<1>8. TypeOK' BY <1>0, <1>1, <1>2, <1>5, <1>count, Types, Typed
<1> QED BY <1>1, <1>2, <1>3, <1>4, <1>5, <1>6, <1>7, <1>8 DEF IInv

(* TryLock gives w back. *)
LEMMA TryLockUnlockInv == ASSUME IInv, NEW p \in Procs, TryLockUnlock(p) PROVE IInv'
<1>0. /\ pc[p] = "tryFailed" /\ pc'[p] = "outside" /\ pc' = [pc EXCEPT ![p] = pc'[p]]
      /\ w' = NoProc
      /\ UNCHANGED << readerCount, readerWait, readerSem, writerSem, r >>
      /\ late' \in SUBSET Procs /\ held' \in BOOLEAN
  BY Typed DEF IInv, TryLockUnlock, TypeOK, counts, history, PhaseInv
<1>holder.
      /\ w = p /\ Coming = r[p]
      /\ \A q \in Procs : q # p => pc[q] \notin HolderPCs /\ r[q] = 0
      /\ ~Announced
      /\ Due = IF rsst[p] \in {"released", "waking"} THEN 1 ELSE 0
      /\ wsema + Cardinality(Wakers) = 0
  BY <1>0, Holder
<1>3. HolderInv' BY <1>0, <1>holder, Typed DEF HolderInv
<1>1. RSem!QueueInv' BY <1>0, SemaphoresUntouched DEF IInv
<1>2. WSem!QueueInv' BY <1>0, SemaphoresUntouched DEF IInv
<1>4. LinkInv' BY <1>0, Typed DEF IInv, LinkInv, PhaseInv, readerSem, writerSem
<1>numbers.
      /\ Number("departing")' = Number("departing")
      /\ Number("reading")' = Number("reading")
      /\ Number("rblocked")' = Number("rblocked")
  <2>1. \A s : Number(s)' = Number(s) + (IF pc'[p] = s THEN 1 ELSE 0)
                                      - (IF pc[p] = s THEN 1 ELSE 0)
    BY <1>0, Moved DEF IInv
  <2> QED BY <1>0, <2>1, Bounds
<1>permits. Coming = 0 /\ Due = 0 /\ Coming' = 0 /\ Due' = 0 /\ rsema' = rsema
  <2>1. r[p] = 0 /\ rsst[p] \notin {"released", "waking"}
    BY <1>0, Typed DEF IInv, LinkInv, PhaseInv
  <2> QED BY <1>0, <1>holder, <2>1 DEF Coming, Due, readerSem
<1>5. ReaderInv'
  BY <1>0, <1>holder, <1>numbers, <1>permits, Bounds, Typed DEF ReaderInv
<1>6. PhaseInv' BY <1>0, <1>holder, Typed DEF IInv, PhaseInv
<1>7. WakeInv'
  <2>1. Wakers' = Wakers /\ wsema' = wsema BY <1>0, NoWaker
  <2>2. \A q \in Procs : pc'[q] # "wblocked" BY <1>0, <1>holder, Typed
  <2> QED BY <1>0, <1>holder, <2>1, <2>2 DEF WakeInv
<1>8. TypeOK' BY <1>0, <1>1, <1>2, <1>5, Types, Typed
<1> QED BY <1>1, <1>2, <1>3, <1>4, <1>5, <1>6, <1>7, <1>8 DEF IInv

(* Unlock gives w back once every permit that it owed is there. *)
LEMMA UnlockWInv == ASSUME IInv, NEW p \in Procs, UnlockW(p) PROVE IInv'
<1>0. /\ pc[p] = "unblock" /\ pc'[p] = "outside" /\ pc' = [pc EXCEPT ![p] = pc'[p]]
      /\ w' = NoProc /\ r[p] = 0
      /\ UNCHANGED << readerCount, readerWait, readerSem, writerSem, r >>
      /\ late' \in SUBSET Procs /\ held' \in BOOLEAN
  BY Typed DEF IInv, UnlockW, TypeOK, counts, history, PhaseInv
<1>holder.
      /\ w = p /\ Coming = r[p]
      /\ \A q \in Procs : q # p => pc[q] \notin HolderPCs /\ r[q] = 0
      /\ ~Announced
      /\ Due = IF rsst[p] \in {"released", "waking"} THEN 1 ELSE 0
      /\ wsema + Cardinality(Wakers) = 0
  BY <1>0, Holder
<1>3. HolderInv' BY <1>0, <1>holder, Typed DEF HolderInv
<1>1. RSem!QueueInv' BY <1>0, SemaphoresUntouched DEF IInv
<1>2. WSem!QueueInv' BY <1>0, SemaphoresUntouched DEF IInv
<1>4. LinkInv' BY <1>0, Typed DEF IInv, LinkInv, PhaseInv, readerSem, writerSem
<1>numbers.
      /\ Number("departing")' = Number("departing")
      /\ Number("reading")' = Number("reading")
      /\ Number("rblocked")' = Number("rblocked")
  <2>1. \A s : Number(s)' = Number(s) + (IF pc'[p] = s THEN 1 ELSE 0)
                                      - (IF pc[p] = s THEN 1 ELSE 0)
    BY <1>0, Moved DEF IInv
  <2> QED BY <1>0, <2>1, Bounds
<1>permits. Coming = 0 /\ Due = 0 /\ Coming' = 0 /\ Due' = 0 /\ rsema' = rsema
  <2>1. r[p] = 0 /\ rsst[p] \notin {"released", "waking"}
    BY <1>0, Typed DEF IInv, LinkInv, PhaseInv
  <2> QED BY <1>0, <1>holder, <2>1 DEF Coming, Due, readerSem
<1>5. ReaderInv'
  BY <1>0, <1>holder, <1>numbers, <1>permits, Bounds, Typed DEF ReaderInv
<1>6. PhaseInv' BY <1>0, <1>holder, Typed DEF IInv, PhaseInv
<1>7. WakeInv'
  <2>1. Wakers' = Wakers /\ wsema' = wsema BY <1>0, NoWaker
  <2>2. \A q \in Procs : pc'[q] # "wblocked" BY <1>0, <1>holder, Typed
  <2> QED BY <1>0, <1>holder, <2>1, <2>2 DEF WakeInv
<1>8. TypeOK' BY <1>0, <1>1, <1>2, <1>5, Types, Typed
<1> QED BY <1>1, <1>2, <1>3, <1>4, <1>5, <1>6, <1>7, <1>8 DEF IInv

(* Unlock tells the readers: those that wait, and no others, are owed a permit. *)
LEMMA UnlockInv == ASSUME IInv, NEW p \in Procs, Unlock(p) PROVE IInv'
<1>0. /\ pc[p] = "writing" /\ pc'[p] = IF readerCount' >= MaxReaders THEN "throw" ELSE "unblock"
      /\ pc' = [pc EXCEPT ![p] = pc'[p]] /\ r' = [r EXCEPT ![p] = readerCount']
      /\ readerCount' = readerCount + MaxReaders
      /\ UNCHANGED << w, readerWait, readerSem, writerSem >>
      /\ late' \in SUBSET Procs /\ held' \in BOOLEAN
  BY Typed DEF IInv, Unlock, TypeOK
<1>holder.
      /\ w = p /\ Coming = r[p]
      /\ \A q \in Procs : q # p => pc[q] \notin HolderPCs /\ r[q] = 0
      /\ Announced
      /\ Due = IF rsst[p] \in {"released", "waking"} THEN 1 ELSE 0
      /\ wsema + Cardinality(Wakers) = 0
  BY <1>0, Holder
<1>rest.
      /\ readerWait = 0 /\ Number("reading") = 0 /\ Number("departing") = 0 /\ rsema = 0
      /\ readerCount' = Number("rblocked") /\ readerCount' \in 0 .. N
  <2>1. /\ readerWait = 0
        /\ readerWait = Number("reading") + Number("departing") + rsema
    BY <1>0, Settled DEF IInv, PhaseInv
  <2>0. Number("reading") \in Nat /\ Number("departing") \in Nat /\ rsema \in Nat
    BY Bounds, Typed
  <2>2. Number("reading") = 0 /\ Number("departing") = 0 /\ rsema = 0
    BY <2>1, <2>0
  <2>3. readerCount + MaxReaders = Number("rblocked")
    BY <1>holder, <2>2, Bounds, Typed DEF ReaderInv
  <2> QED BY <1>0, <2>1, <2>2, <2>3, Bounds
<1>target. pc'[p] = "unblock" /\ ~Announced' BY <1>0, <1>rest, Bounds
<1>3. HolderInv' BY <1>0, <1>holder, <1>target, Typed DEF IInv, HolderInv
<1>1. RSem!QueueInv' BY <1>0, SemaphoresUntouched DEF IInv
<1>2. WSem!QueueInv' BY <1>0, SemaphoresUntouched DEF IInv
<1>4. LinkInv'
  BY <1>0, <1>target, Typed DEF IInv, LinkInv, PhaseInv, readerSem, writerSem
<1>numbers.
      /\ Number("departing")' = Number("departing")
      /\ Number("reading")' = Number("reading")
      /\ Number("rblocked")' = Number("rblocked")
  <2>1. \A s : Number(s)' = Number(s) + (IF pc'[p] = s THEN 1 ELSE 0)
                                      - (IF pc[p] = s THEN 1 ELSE 0)
    BY <1>0, Moved DEF IInv
  <2> QED BY <1>0, <2>1, <1>target, Bounds
<1>permits. Coming' = Number("rblocked") /\ Due' = 0 /\ rsema' = rsema
  BY <1>0, <1>holder, <1>rest, Typed DEF IInv, LinkInv, Coming, Due, readerSem
<1>5. ReaderInv'
  BY <1>0, <1>holder, <1>numbers, <1>permits, <1>rest, <1>target, Bounds, Typed DEF ReaderInv
<1>rtype. r' \in [Procs -> 0 .. N] BY <1>0, <1>rest, Typed
<1>6. PhaseInv'
  <2>1. \A q \in Procs : pc[q] # "departing" BY <1>rest, Somebody
  <2> QED BY <1>0, <1>holder, <1>target, <2>1, Typed DEF IInv, PhaseInv
<1>7. WakeInv'
  <2>1. Wakers' = Wakers /\ wsema' = wsema BY <1>0, <1>target, NoWaker
  <2>2. \A q \in Procs : pc'[q] # "wblocked"
    BY <1>0, <1>holder, <1>target, Typed
  <2> QED BY <1>0, <1>holder, <2>1, <2>2 DEF WakeInv
<1>8. TypeOK'
  BY <1>0, <1>1, <1>2, <1>5, <1>rest, <1>target, <1>rtype, Types, Typed
<1> QED BY <1>1, <1>2, <1>3, <1>4, <1>5, <1>6, <1>7, <1>8 DEF IInv

(* Unlock makes the permits one by one: one more is there, one less is owed. *)
LEMMA UnblockInv == ASSUME IInv, NEW p \in Procs, Unblock(p) PROVE IInv'
<1>types.
      /\ rsst \in [Procs -> RSem!States] /\ rsema \in Nat
      /\ rwakee \in [Procs -> Procs \cup {NoProc}]
      /\ rsst[p] = "waking" => rwakee[p] \in Procs /\ rsst[rwakee[p]] = "parked"
  BY DEF IInv, TypeOK, RSem!TypeOK, RSem!QueueInv, RSem!Dequeued
<1>0. /\ pc[p] = "unblock" /\ r[p] > 0
      /\ UNCHANGED << w, readerCount, readerWait, writerSem, pc >>
      /\ late' \in SUBSET Procs /\ held' \in BOOLEAN
  BY DEF IInv, TypeOK, Unblock, counts, history
<1>holder.
      /\ w = p /\ Coming = r[p] /\ ~Announced
      /\ Due = IF rsst[p] \in {"released", "waking"} THEN 1 ELSE 0
  BY <1>0, Holder
<1>moves.
      \/ /\ rsst[p] = "idle" /\ rsst'[p] = "released"
         /\ rsema' = rsema + 1 /\ r' = r
         /\ \A q \in Procs : q # p => rsst'[q] = rsst[q]
      \/ /\ rsst[p] = "released" /\ rsst'[p] = "waking"
         /\ rsema' = rsema /\ r' = r
         /\ \A q \in Procs : q # p => rsst'[q] = rsst[q]
      \/ /\ rsst[p] \in {"released", "waking"} /\ rsst'[p] = "idle"
         /\ rsema' = rsema /\ r' = [r EXCEPT ![p] = r[p] - 1]
         /\ \A q \in Procs : q # p => \/ rsst'[q] = rsst[q]
                                      \/ rsst[q] = "parked" /\ rsst'[q] = "woken"
  <2>1. CASE RSem!ReleaseAdd(p) /\ UNCHANGED r
    BY <1>types, <2>1 DEF RSem!ReleaseAdd, RSem!Goto
  <2>2. CASE RSem!ReleaseDequeue(p) /\ UNCHANGED r
    BY <1>types, <2>2 DEF RSem!ReleaseDequeue, RSem!Goto
  <2>3. CASE RSem!ReleaseNobody(p) /\ r' = [r EXCEPT ![p] = @ - 1]
    BY <1>types, <2>3 DEF RSem!ReleaseNobody, RSem!Goto
  <2>4. CASE RSem!ReleaseReady(p, FALSE) /\ r' = [r EXCEPT ![p] = @ - 1]
    <3>1. /\ rsst[p] = "waking" /\ rsema' = rsema
          /\ rsst' = [rsst EXCEPT ![p] = "idle", ![rwakee[p]] = "woken"]
      BY <2>4 DEF RSem!ReleaseReady
    <3> QED BY <1>types, <2>4, <3>1
  <2> QED BY <2>1, <2>2, <2>3, <2>4 DEF Unblock, RSem!Released
<1>1. RSem!QueueInv'
  <2>1. RSem!Next BY DEF Unblock, RSem!Released, RSem!Next
  <2> QED BY <2>1, RSem!QueueInvStep DEF IInv
<1>2. WSem!QueueInv' BY <1>0, SemaphoresUntouched DEF IInv
<1>3. HolderInv' BY <1>0 DEF IInv, HolderInv
<1>rtype. r' \in [Procs -> 0 .. N] /\ \A q \in Procs : q # p => r'[q] = r[q]
  BY <1>0, <1>moves, Bounds, Typed
<1>4. LinkInv'
  <2> SUFFICES ASSUME NEW q \in Procs
               PROVE  /\ rsst'[q] # "granted" /\ wsst'[q] # "granted"
                      /\ rsst'[q] \in {"parked", "woken"} => pc'[q] = "rblocked"
                      /\ rsst'[q] \in {"released", "waking"} => pc'[q] = "unblock" /\ r'[q] > 0
                      /\ wsst'[q] \in {"parked", "woken"} => pc'[q] = "wblocked"
                      /\ wsst'[q] \in {"released", "waking"} => pc'[q] = "lastReader"
    BY DEF LinkInv
  <2> QED BY <1>0, <1>moves, <1>rtype DEF IInv, LinkInv, writerSem
<1>numbers. \A s : Number(s)' = Number(s) BY <1>0 DEF Number
<1>permits.
      /\ Coming' = r'[p] /\ w # NoProc
      /\ Due' = IF rsst'[p] \in {"released", "waking"} THEN 1 ELSE 0
  BY <1>0, <1>holder DEF Coming, Due
<1>5. ReaderInv'
  BY <1>0, <1>holder, <1>moves, <1>numbers, <1>permits, Bounds, Typed DEF ReaderInv
<1>6. PhaseInv' BY <1>0, <1>rtype DEF IInv, PhaseInv
<1>7. WakeInv'
  <2>1. Wakers' = Wakers BY <1>0 DEF Wakers, writerSem
  <2> QED BY <1>0, <2>1 DEF IInv, WakeInv, writerSem
<1>8. TypeOK' BY <1>0, <1>1, <1>2, <1>5, <1>rtype, Types, Typed
<1> QED BY <1>1, <1>2, <1>3, <1>4, <1>5, <1>6, <1>7, <1>8 DEF IInv

(* Every step keeps the invariant. *)
LEMMA StepInv == IInv /\ [Next]_vars => IInv'
<1> SUFFICES ASSUME IInv, [Next]_vars PROVE IInv'
  OBVIOUS
<1>1. ASSUME NEW p \in Procs, Call(p) PROVE IInv'
  BY <1>1, RLockInv, TryRLockInv, LockWInv, TryLockWInv DEF Call
<1>2. ASSUME NEW p \in Procs, Finish(p) PROVE IInv'
  BY <1>2, RUnlockInv, UnlockInv DEF Finish
<1>3. ASSUME NEW p \in Procs, Step(p) PROVE IInv'
  BY <1>3, RLockWaitInv, RLockAcquiredInv, DepartInv, WakeWriterInv, WriterAwakeInv,
     AnnounceInv, CountInv, LockWaitInv, LockAcquiredInv, TryLockCasInv, TryLockUnlockInv,
     UnblockInv, UnlockWInv DEF Step
<1>4. CASE UNCHANGED vars
  <2>0. UNCHANGED << w, readerCount, readerWait, readerSem, writerSem, pc, r, held, late >>
    BY <1>4 DEF vars, counts, history
  <2>1. RSem!QueueInv' /\ WSem!QueueInv' BY <2>0, SemaphoresUntouched DEF IInv
  <2>2. UNCHANGED << rsema, rwaitq, rsst, rwakee, wsema, wwaitq, wsst, wwakee >>
    BY <2>0 DEF readerSem, writerSem
  <2>3. \A s : Number(s)' = Number(s) BY <2>0 DEF Number
  <2>4. Coming' = Coming /\ Due' = Due /\ Wakers' = Wakers
    BY <2>0, <2>2 DEF Coming, Due, Wakers
  <2>5. ReaderInv' BY <2>0, <2>2, <2>3, <2>4 DEF IInv, ReaderInv
  <2>6. HolderInv' /\ LinkInv' /\ PhaseInv'
    BY <2>0, <2>2 DEF IInv, HolderInv, LinkInv, PhaseInv
  <2>7. WakeInv' BY <2>0, <2>2, <2>4 DEF IInv, WakeInv
  <2>8. held' \in BOOLEAN /\ late' \in SUBSET Procs BY <2>0 DEF IInv, TypeOK
  <2>9. TypeOK' BY <2>0, <2>1, <2>5, <2>8, Types, Typed
  <2> QED BY <2>1, <2>5, <2>6, <2>7, <2>9 DEF IInv
<1> QED BY <1>1, <1>2, <1>3, <1>4 DEF Next

(* Initially nobody is at a counted step. *)
LEMMA InitInv == Init => IInv
<1> SUFFICES ASSUME Init PROVE IInv
  OBVIOUS
<1>0. /\ w = NoProc /\ readerCount = 0 /\ readerWait = 0 /\ rsema = 0 /\ wsema = 0
      /\ pc = [p \in Procs |-> "outside"] /\ r = [p \in Procs |-> 0]
      /\ rsst = [p \in Procs |-> "idle"] /\ wsst = [p \in Procs |-> "idle"]
      /\ held \in BOOLEAN /\ late \in SUBSET Procs
  BY DEF Init, Mutex!Unheld, RSem!Init, WSem!Init
<1>1. RSem!QueueInv /\ WSem!QueueInv
  <2>1. RSem!Init /\ WSem!Init /\ 0 \in Nat BY DEF Init
  <2> QED BY <2>1, RSem!QueueInvInit, WSem!QueueInvInit
<1>2. /\ Number("reading") = 0 /\ Number("rblocked") = 0 /\ Number("departing") = 0
  BY <1>0, Nobody
<1>3. Coming = 0 /\ Due = 0 BY <1>0 DEF Coming, Due
<1>4. Wakers = {} /\ Cardinality(Wakers) = 0
  <2>1. Wakers = {} BY <1>0 DEF Wakers
  <2> QED BY <2>1, FS_EmptySet
<1>5. ReaderInv BY <1>0, <1>2, <1>3, Bounds DEF ReaderInv
<1>6. HolderInv /\ LinkInv /\ PhaseInv BY <1>0 DEF HolderInv, LinkInv, PhaseInv
<1>7. WakeInv BY <1>0, <1>4 DEF WakeInv
<1>8. TypeOK
  BY <1>0, <1>1, Bounds DEF TypeOK, RSem!QueueInv, WSem!QueueInv, N
<1> QED BY <1>1, <1>5, <1>6, <1>7, <1>8 DEF IInv

(* The invariant holds in every state of rwmutex.go's steps. *)
THEOREM Inductive == Spec => []IInv
  BY InitInv, StepInv, PTL DEF Spec

(* The counts stay in their bounds: readerCount never reaches MaxReaders or    *)
(* goes below -MaxReaders (rwmutex.go:35-44).                                  *)
THEOREM TypeCorrect == Spec => []TypeOK
<1>1. IInv => TypeOK BY DEF IInv
<1> QED BY <1>1, Inductive, PTL

(* The goroutines at two steps are those at the one and those at the other. *)
LEMMA TwoSteps ==
  ASSUME NEW s, NEW t, s # t
  PROVE  Cardinality(In({s, t})) = Number(s) + Number(t)
<1> DEFINE S == {p \in Procs : pc[p] = s}
           T == {p \in Procs : pc[p] = t}
<1>1. /\ IsFiniteSet(S) /\ IsFiniteSet(T) /\ IsFiniteSet(Procs)
      /\ Cardinality(S) \in Nat /\ Cardinality(T) \in Nat
      /\ S \cap T = {} /\ Cardinality(S \cap T) = 0
  BY Countable, FS_EmptySet
<1>2. In({s, t}) = S \cup T BY DEF In
<1>3. Cardinality(S) = Number(s) /\ Cardinality(T) = Number(t) BY DEF Number
<1>4. Cardinality(S \cup T) = Cardinality(S) + Cardinality(T)
  <2> HIDE DEF S, T
  <2>1. Cardinality(S \cup T) = Cardinality(S) + Cardinality(T) - 0
    BY <1>1, FS_Union
  <2> QED BY <1>1, <2>1
<1> HIDE DEF S, T
<1> QED BY <1>2, <1>3, <1>4

(* One step, in the words of the properties. *)
LEMMA OneStep == \A s : Cardinality(In({s})) = Number(s)
<1> SUFFICES ASSUME NEW s PROVE Cardinality(In({s})) = Number(s)
  OBVIOUS
<1>1. In({s}) = {p \in Procs : pc[p] = s} BY DEF In
<1> QED BY <1>1 DEF Number

(* While p writes, readerWait is 0 and counts the readers that are inside. *)
LEMMA InvExclusion == IInv => Exclusion
<1> SUFFICES ASSUME IInv, NEW p \in Procs, pc[p] = "writing"
             PROVE  In({"reading", "writing"}) = {p}
  BY DEF Exclusion, In
<1>1. \A q \in Procs : q # p => pc[q] # "writing" BY Holder
<1>2. readerWait = 0 /\ readerWait = Number("reading") + Number("departing") + rsema
  BY Settled DEF IInv, PhaseInv
<1>3. Number("reading") = 0 BY <1>2, Bounds, Typed
<1>4. \A q \in Procs : pc[q] # "reading" BY <1>3, Somebody
<1> QED BY <1>1, <1>4 DEF In

(* A writer is alone (rwmutex.go:15-16): the CAS and the Adds on readerCount and *)
(* readerWait let nobody in with it.                                             *)
THEOREM ReadersAndWriters == Spec => []Exclusion
  BY InvExclusion, Inductive, PTL

(* RUnlock and Unlock of a lock that is held never throw (rwmutex.go:128-131,  *)
(* 208-211).                                                                   *)
THEOREM NoFatalError == Spec => []NoThrow
<1>1. IInv => NoThrow BY DEF IInv, PhaseInv, NoThrow, In
<1> QED BY <1>1, Inductive, PTL

(* ReaderInv in the words of the property. *)
LEMMA InvCounts == IInv => CountsAgree
<1> SUFFICES ASSUME IInv PROVE CountsAgree
  OBVIOUS
<1>1. ToCome = Coming
  <2>1. CASE w = NoProc BY <2>1 DEF ToCome, Coming
  <2>2. CASE w # NoProc
    <3>1. w \in Procs BY <2>2, Typed
    <3>2. In({"count", "unblock"}) = {} => r[w] = 0
      BY <3>1 DEF IInv, PhaseInv, In
    <3> QED BY <2>2, <3>2 DEF ToCome, Coming
  <2> QED BY <2>1, <2>2
<1>2. (IF PermitDue THEN 1 ELSE 0) = Due
  <2>1. CASE In({"unblock"}) = {}
    <3>1. \A q \in Procs : rsst[q] \notin {"released", "waking"}
      BY <2>1 DEF IInv, LinkInv, In
    <3> QED BY <2>1, <3>1, Typed DEF PermitDue, Due
  <2>2. CASE In({"unblock"}) # {}
    <3>1. PICK q \in Procs : pc[q] = "unblock" BY <2>2 DEF In
    <3>2. w = q /\ w # NoProc BY <3>1, Holder
    <3>3. rsst[q] \in {"idle", "released", "waking"}
      BY <3>1 DEF IInv, LinkInv, TypeOK, RSem!TypeOK, RSem!States
    <3> QED BY <2>2, <3>2, <3>3 DEF PermitDue, Due
  <2> QED BY <2>1, <2>2
<1>3. /\ Cardinality(In({"reading", "rblocked"})) = Number("reading") + Number("rblocked")
      /\ Cardinality(In({"reading", "departing"})) = Number("reading") + Number("departing")
      /\ Cardinality(In({"rblocked"})) = Number("rblocked")
  BY TwoSteps, OneStep
<1>4. TypeOK BY DEF IInv
<1>5. ReaderInv BY Typed
<1> QED BY <1>1, <1>2, <1>3, <1>4, <1>5 DEF CountsAgree, ReaderInv

(* readerCount, readerWait and the permits of readerSem agree with where the   *)
(* readers are (rwmutex.go:132, 150-152, 213-216).                             *)
THEOREM Counts == Spec => []CountsAgree
  BY InvCounts, Inductive, PTL

(* A writer that waits has counted: readerWait is the readers it waits for. *)
LEMMA InvWakes == IInv => LastReaderWakes
<1> SUFFICES ASSUME IInv PROVE LastReaderWakes
  OBVIOUS
<1>1. {p \in In({"lastReader"}) : wsst[p] = "idle"} = Wakers BY DEF In, Wakers
<1>2. (readerWait = 0 /\ \E p \in Procs : pc[p] = "wblocked")
        <=> (In({"wblocked"}) # {} /\ In({"reading", "departing"}) = {} /\ rsema = 0)
  <2>1. CASE \A p \in Procs : pc[p] # "wblocked" BY <2>1 DEF In
  <2>2. CASE \E p \in Procs : pc[p] = "wblocked"
    <3>1. PICK p \in Procs : pc[p] = "wblocked" BY <2>2
    <3>2. readerWait = Number("reading") + Number("departing") + rsema
      BY <3>1, Settled
    <3>3. readerWait = 0 <=> Number("reading") = 0 /\ Number("departing") = 0 /\ rsema = 0
      <4>1. Number("reading") \in Nat /\ Number("departing") \in Nat /\ rsema \in Nat
        BY Bounds, Typed
      <4> QED BY <3>2, <4>1
    <3>4. (Number("reading") = 0 /\ Number("departing") = 0)
            <=> \A q \in Procs : pc[q] \notin {"reading", "departing"}
      <4>1. Number("reading") = 0 <=> \A q \in Procs : pc[q] # "reading"
        BY Nobody, Somebody
      <4>2. Number("departing") = 0 <=> \A q \in Procs : pc[q] # "departing"
        BY Nobody, Somebody
      <4> QED BY <4>1, <4>2
    <3> QED BY <2>2, <3>3, <3>4 DEF In
  <2> QED BY <2>1, <2>2
<1> QED BY <1>1, <1>2 DEF IInv, WakeInv, LastReaderWakes

(* The permit of writerSem is there, or on its way, when nobody keeps the      *)
(* writer out, and at no other time (rwmutex.go:132-136, 152-154).             *)
THEOREM LastReader == Spec => []LastReaderWakes
  BY InvWakes, Inductive, PTL
=============================================================================
