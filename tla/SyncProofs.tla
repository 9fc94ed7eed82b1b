------------------------------- MODULE SyncProofs -------------------------------
(***************************************************************************)
(* Proofs about package sync: Cond with its notifyList, WaitGroup, the     *)
(* rings under Pool, and Mutex, in this order.                             *)
(*                                                                         *)
(* Cond and its notifyList: no sleeper is forgotten between its ticket and *)
(* its wakeup, and they implement CondVar, for any number of goroutines    *)
(* and of tickets that TicketsAssumption allows.                           *)
(*                                                                         *)
(* IInv is inductive.  Its heart is TicketInv: the waiters that nobody has *)
(* notified have the gaps 0, -1, .., -(Ahead - 1), one each, though their  *)
(* tickets wrap around and the list is not in ticket order.  SleepInv      *)
(* places the sleepers by it, and OwedInv says what a notifier may miss on *)
(* its fast path: nobody that it owes a notification.  The abstract queue  *)
(* of waiters is the order of the gaps (Ordered).                          *)
(***************************************************************************)
EXTENDS SyncCond, SyncWaitGroup, PoolChain, SyncMutex, CountingLemmas, SequenceTheorems

(* In a Signal or Broadcast that has not notified yet; in Wait, not woken. *)
Calls == {"one", "all", "oneLock", "allLock"}
Waits == {"ticket", "parked"}

TypeInv ==
  /\ wait \in 0 .. Tickets - 1 /\ notify \in 0 .. Tickets - 1
  /\ list \in Seq(Procs)
  /\ nst \in [Procs -> NStates] /\ cpc \in [Procs -> CPCs]
  /\ ticket \in [Procs -> 0 .. Tickets - 1] /\ seen \in [Procs -> 0 .. Tickets - 1]
  /\ batch \in [Procs -> Seq(Procs)]
  /\ gap \in [Procs -> Int] /\ owed \in [Procs -> SUBSET Procs]
  /\ holder \in Procs \cup {NoProc}

(* Where a goroutine is in Cond tells where it is in the list. *)
PlaceInv ==
  \A p \in Procs :
    /\ cpc[p] \in {"unlock", "wait"} <=> nst[p] = "ticket"
    /\ nst[p] = "parked" => cpc[p] = "relock"
    /\ cpc[p] \in {"locked", "unlock"} <=> holder = p
    /\ cpc[p] = "relock" => nst[p] \in {"parked", "idle"}
    /\ nst[p] # "readying" => batch[p] = << >>
    /\ nst[p] \notin Calls => owed[p] = {}

(* The tickets that were drawn and not notified: one waiter for each. *)
TicketInv ==
  /\ Ahead = Cardinality(Unnotified)
  /\ \A p \in Unnotified : -gap[p] \in 0 .. Ahead - 1
  /\ \A k \in 0 .. Ahead - 1 : \E p \in Unnotified : gap[p] = -k
  /\ \A p, q \in Unnotified : gap[p] = gap[q] => p = q
  /\ \A p \in Procs :
       \/ p \in Unnotified
       \/ nst[p] = "ticket" /\ gap[p] \in 1 .. MaxGap
       \/ nst[p] = "parked" /\ gap[p] = 1
       \/ nst[p] \notin Waits
  /\ \A p \in Procs : p \in Unnotified \/ nst[p] = "ticket" =>
       ticket[p] = (notify - gap[p]) % Tickets

(* The sleepers are in the list until their turn, in one batch after it. *)
SleepInv ==
  /\ NoRepeat(list)
  /\ \A p \in Procs : Occurs(p, list) <=> nst[p] = "parked" /\ p \in Unnotified
  /\ \A q \in Procs : NoRepeat(batch[q])
  /\ \A p, q \in Procs : Occurs(p, batch[q]) => nst[p] = "parked" /\ p \notin Unnotified
  /\ \A p \in Procs : nst[p] = "parked" /\ p \notin Unnotified =>
       \E q \in Procs : Occurs(p, batch[q])
  /\ \A p, q, r \in Procs : Occurs(p, batch[q]) /\ Occurs(p, batch[r]) => q = r

(* Those that a notifier owes a notification, if any: their tickets come      *)
(* before the wait that it has loaded.                                        *)
OwedInv ==
  \A p \in Procs :
    /\ owed[p] \subseteq Unnotified
    /\ nst[p] \in {"one", "all"} /\ owed[p] # {} =>
         \E e \in 1 .. Ahead : /\ seen[p] = (notify + e) % Tickets
                               /\ \A q \in owed[p] : -gap[q] < e

IInv == TypeInv /\ PlaceInv /\ TicketInv /\ SleepInv /\ OwedInv

USE GoroutinesAssumption

-----------------------------------------------------------------------------
(* Half of the circle. *)
LEMMA Half ==
  /\ Tickets \in Nat /\ Tickets > 0 /\ Tickets \div 2 \in Nat
  /\ 2 * (Tickets \div 2) <= Tickets
  /\ MaxGap \in Nat /\ MaxGap <= Tickets \div 2
  /\ Cardinality(Procs) \in Nat /\ Cardinality(Procs) <= Tickets \div 2
BY TicketsAssumption, FS_CardinalityType

Circle == 0 .. Tickets - 1

(* y, after n more tickets. *)
LEMMA Advanced ==
  ASSUME NEW y \in Circle, NEW n \in Circle
  PROVE  /\ (y + n) % Tickets \in Circle
         /\ (y + n) % Tickets = IF y + n < Tickets THEN y + n ELSE y + n - Tickets
<1>0. Tickets \in Nat /\ Tickets > 0 BY Half
<1>1. /\ y \in Nat /\ y < Tickets /\ n \in Nat /\ n < Tickets
      /\ y + n \in Int /\ -Tickets <= y + n /\ y + n < 2 * Tickets
  BY <1>0 DEF Circle
<1>2. (y + n) % Tickets = IF y + n < 0 THEN y + n + Tickets
                          ELSE IF y + n < Tickets THEN y + n ELSE y + n - Tickets
  BY <1>0, <1>1, Modulo
<1>3. (y + n) % Tickets = IF y + n < Tickets THEN y + n ELSE y + n - Tickets
  BY <1>0, <1>1, <1>2
<1> DEFINE z == (y + n) % Tickets
<1> HIDE DEF z
<1>4. z \in Circle BY <1>0, <1>1, <1>3 DEF Circle, z
<1> QED BY <1>3, <1>4 DEF z

(* How far w is ahead of y, and how that changes as either advances. *)
LEMMA Distance ==
  ASSUME NEW w \in Circle, NEW y \in Circle
  PROVE  /\ (w - y) % Tickets = IF w < y THEN w - y + Tickets ELSE w - y
         /\ (w - y) % Tickets \in Circle
         /\ w = (y + ((w - y) % Tickets)) % Tickets
         /\ (w - y) % Tickets = 0 <=> w = y
<1> DEFINE a == (w - y) % Tickets
<1>0. Tickets \in Nat /\ Tickets > 0 BY Half
<1>1. /\ w \in Nat /\ w < Tickets /\ y \in Nat /\ y < Tickets
      /\ w - y \in Int /\ -Tickets <= w - y /\ w - y < 2 * Tickets
  BY <1>0 DEF Circle
<1>2. a = IF w - y < 0 THEN w - y + Tickets
          ELSE IF w - y < Tickets THEN w - y ELSE w - y - Tickets
  BY <1>0, <1>1, Modulo
<1>10. a = (w - y) % Tickets OBVIOUS
<1> HIDE DEF a
<1>3. a = IF w < y THEN w - y + Tickets ELSE w - y BY <1>0, <1>1, <1>2
<1>4. a \in Nat /\ a < Tickets BY <1>0, <1>1, <1>3
<1>5. a \in Circle BY <1>0, <1>4 DEF Circle
<1>6. (y + a) % Tickets = IF y + a < Tickets THEN y + a ELSE y + a - Tickets BY <1>5, Advanced
<1>7. w = (y + a) % Tickets BY <1>0, <1>1, <1>3, <1>4, <1>6
<1>8. a = 0 <=> w = y BY <1>0, <1>1, <1>3
<1>11. (w - y) % Tickets = IF w < y THEN w - y + Tickets ELSE w - y BY <1>3, <1>10
<1> QED BY <1>5, <1>7, <1>8, <1>10, <1>11

(* The ticket drawn next. *)
LEMMA DistanceGrows ==
  ASSUME NEW w \in Circle, NEW y \in Circle, NEW a, a = (w - y) % Tickets, a + 1 < Tickets
  PROVE  (((w + 1) % Tickets) - y) % Tickets = a + 1 /\ (w + 1) % Tickets \in Circle
<1>0. Tickets \in Nat /\ Tickets > 0 BY Half
<1>1. a = (IF w < y THEN w - y + Tickets ELSE w - y) /\ a \in Circle BY Distance
<1>2. 1 \in Circle BY <1>0, <1>1 DEF Circle
<1> DEFINE z == (w + 1) % Tickets
<1>3. PICK one : one = 1 OBVIOUS
<1>4. /\ (w + one) % Tickets \in Circle
      /\ (w + one) % Tickets = IF w + one < Tickets THEN w + one ELSE w + one - Tickets
  BY <1>2, <1>3, Advanced
<1>5. z \in Circle /\ z = IF w + 1 < Tickets THEN w + 1 ELSE w + 1 - Tickets
  BY <1>3, <1>4
<1> HIDE DEF z
<1>8. z \in Circle BY <1>5
<1>6. (z - y) % Tickets = IF z < y THEN z - y + Tickets ELSE z - y BY <1>8, Distance
<1>7. (z - y) % Tickets = a + 1 BY <1>0, <1>1, <1>5, <1>6 DEF Circle
<1> QED BY <1>5, <1>7 DEF z

(* n more tickets are notified. *)
LEMMA DistanceShrinks ==
  ASSUME NEW w \in Circle, NEW y \in Circle, NEW a, a = (w - y) % Tickets, NEW n \in 0 .. a
  PROVE  /\ (w - ((y + n) % Tickets)) % Tickets = a - n
         /\ (y + n) % Tickets \in Circle
<1>0. Tickets \in Nat /\ Tickets > 0 BY Half
<1>1. a = (IF w < y THEN w - y + Tickets ELSE w - y) /\ a \in Circle BY Distance
<1>2. n \in Circle BY <1>0, <1>1 DEF Circle
<1> DEFINE z == (y + n) % Tickets
<1>3. z \in Circle /\ z = IF y + n < Tickets THEN y + n ELSE y + n - Tickets
  BY <1>2, Advanced
<1> HIDE DEF z
<1>4. (w - z) % Tickets = IF w < z THEN w - z + Tickets ELSE w - z BY <1>3, Distance
<1>5. (w - z) % Tickets = a - n BY <1>0, <1>1, <1>2, <1>3, <1>4 DEF Circle
<1> QED BY <1>3, <1>5 DEF z

(* The ticket that is g behind y. *)
LEMMA Behind ==
  ASSUME NEW y \in Circle, NEW g \in Int, -Tickets < g, g <= Tickets \div 2
  PROVE  /\ (y - g) % Tickets = IF y - g < 0 THEN y - g + Tickets
                                ELSE IF y - g < Tickets THEN y - g ELSE y - g - Tickets
         /\ (y - g) % Tickets \in Circle
<1>0. Tickets \in Nat /\ Tickets > 0 /\ Tickets \div 2 \in Nat /\ 2 * (Tickets \div 2) <= Tickets
  BY Half
<1> DEFINE h == Tickets \div 2
<1> HIDE DEF h
<1>1. h \in Nat /\ 2 * h <= Tickets /\ g <= h BY <1>0 DEF h
<1>2. /\ y \in Nat /\ y < Tickets
      /\ y - g \in Int /\ -Tickets <= y - g /\ y - g < 2 * Tickets
  BY <1>0, <1>1 DEF Circle
<1>3. (y - g) % Tickets = IF y - g < 0 THEN y - g + Tickets
                          ELSE IF y - g < Tickets THEN y - g ELSE y - g - Tickets
  BY <1>0, <1>2, Modulo
<1> DEFINE z == (y - g) % Tickets
<1> HIDE DEF z
<1>4. z \in Circle BY <1>0, <1>1, <1>2, <1>3 DEF Circle, z
<1> QED BY <1>3, <1>4 DEF z

(* It stays the same ticket when y advances by n. *)
LEMMA SameTicket ==
  ASSUME NEW y \in Circle, NEW g \in Int, -Tickets < g, NEW n \in Circle,
         g + n <= Tickets \div 2
  PROVE  (y - g) % Tickets = (((y + n) % Tickets) - (g + n)) % Tickets
<1>0. Tickets \in Nat /\ Tickets > 0 /\ Tickets \div 2 \in Nat /\ 2 * (Tickets \div 2) <= Tickets
  BY Half
<1> DEFINE z == (y + n) % Tickets
           m == g + n
<1>1. z \in Circle /\ z = IF y + n < Tickets THEN y + n ELSE y + n - Tickets
  BY Advanced
<1>2. m \in Int /\ -Tickets < m /\ m <= Tickets \div 2 /\ g <= Tickets \div 2
  BY <1>0 DEF Circle
<1> HIDE DEF z, m
<1>3. (z - m) % Tickets = IF z - m < 0 THEN z - m + Tickets
                          ELSE IF z - m < Tickets THEN z - m ELSE z - m - Tickets
  BY <1>1, <1>2, Behind
<1>4. (y - g) % Tickets = IF y - g < 0 THEN y - g + Tickets
                          ELSE IF y - g < Tickets THEN y - g ELSE y - g - Tickets
  BY <1>2, Behind
<1> DEFINE h == Tickets \div 2
<1> HIDE DEF h
<1>5. h \in Nat /\ 2 * h <= Tickets /\ g <= h /\ m <= h BY <1>0, <1>2 DEF h
<1>6. m = g + n BY DEF m
<1>7. y \in Nat /\ y < Tickets /\ z \in Nat /\ z < Tickets /\ n \in Nat /\ n < Tickets
  BY <1>0, <1>1 DEF Circle
<1>8. (y - g) % Tickets = (z - m) % Tickets
  BY <1>0, <1>1, <1>2, <1>3, <1>4, <1>5, <1>6, <1>7
<1> QED BY <1>8 DEF z, m

(* less tells whether it has been notified. *)
LEMMA LessIs ==
  ASSUME NEW y \in Circle, NEW g \in Int, -(Tickets \div 2) < g, g <= Tickets \div 2
  PROVE  Less((y - g) % Tickets, y) <=> g > 0
<1>0. Tickets \in Nat /\ Tickets > 0 /\ Tickets \div 2 \in Nat /\ 2 * (Tickets \div 2) <= Tickets
  BY Half
<1> DEFINE z == (y - g) % Tickets
           h == Tickets \div 2
<1>1. -Tickets < g /\ g <= Tickets \div 2
  <2> HIDE DEF h
  <2>1. h \in Nat /\ 2 * h <= Tickets /\ -h < g /\ g <= h BY <1>0 DEF h
  <2>2. -Tickets < g BY <1>0, <2>1
  <2> QED BY <2>2
<1>2. /\ z \in Circle
      /\ z = IF y - g < 0 THEN y - g + Tickets
             ELSE IF y - g < Tickets THEN y - g ELSE y - g - Tickets
  BY <1>1, Behind
<1> HIDE DEF z
<1>3. (z - y) % Tickets = IF z < y THEN z - y + Tickets ELSE z - y BY <1>2, Distance
<1> HIDE DEF h
<1>4. h \in Nat /\ 2 * h <= Tickets /\ -h < g /\ g <= h BY <1>0 DEF h
<1>5. y \in Nat /\ y < Tickets /\ z \in Nat /\ z < Tickets BY <1>0, <1>2 DEF Circle
<1>6. (z - y) % Tickets >= h <=> g > 0 BY <1>0, <1>2, <1>3, <1>4, <1>5
<1> QED BY <1>6 DEF Less, z, h

(* The ticket that y holds is the one of gap zero. *)
LEMMA TheTicket ==
  ASSUME NEW y \in Circle, NEW g \in Int, -Tickets < g, g <= 0, (y - g) % Tickets = y
  PROVE  g = 0
<1>0. Tickets \in Nat /\ Tickets > 0 /\ Tickets \div 2 \in Nat BY Half
<1>1. g <= Tickets \div 2 BY <1>0
<1>2. (y - g) % Tickets = IF y - g < 0 THEN y - g + Tickets
                          ELSE IF y - g < Tickets THEN y - g ELSE y - g - Tickets
  BY <1>1, Behind
<1> QED BY <1>0, <1>2 DEF Circle
-----------------------------------------------------------------------------
(* IInv is inductive. *)

(* The tickets that are in use. *)
LEMMA GapFacts ==
  ASSUME TypeInv, TicketInv
  PROVE  /\ Inside \in SUBSET Procs /\ Unnotified \in SUBSET Procs
         /\ Ahead \in Nat /\ Ahead <= Cardinality(Procs) /\ Ahead \in Circle
         /\ Ahead = 0 <=> wait = notify
         /\ \A p \in Unnotified :
              /\ gap[p] \in Int /\ -Tickets < gap[p] /\ gap[p] <= 0 /\ -gap[p] < Ahead
              /\ nst[p] \in Waits /\ ticket[p] = (notify - gap[p]) % Tickets
         /\ \A p \in Procs : nst[p] = "ticket" =>
              /\ gap[p] \in Int /\ -(Tickets \div 2) < gap[p] /\ gap[p] <= Tickets \div 2
              /\ ticket[p] = (notify - gap[p]) % Tickets
<1>1. Inside \in SUBSET Procs /\ Unnotified \in SUBSET Procs BY DEF Inside, Unnotified
<1>2. wait \in Circle /\ notify \in Circle BY DEF TypeInv, Circle
<1>3. Ahead \in Circle /\ (Ahead = 0 <=> wait = notify)
  <2> PICK w, y : w = wait /\ y = notify OBVIOUS
  <2>1. w \in Circle /\ y \in Circle BY <1>2
  <2>2. (w - y) % Tickets \in Circle /\ ((w - y) % Tickets = 0 <=> w = y)
    BY <2>1, Distance
  <2> QED BY <2>2 DEF Ahead
<1>4. Ahead = Cardinality(Unnotified) BY DEF TicketInv
<1>5. Ahead <= Cardinality(Procs) /\ Ahead \in Nat
  <2>1. Cardinality(Unnotified) <= Cardinality(Procs) BY <1>1, FS_Subset
  <2>2. Cardinality(Unnotified) \in Nat BY <1>1, Countable
  <2> QED BY <1>4, <2>1, <2>2
<1>6. PICK a : a = Ahead OBVIOUS
<1>7. PICK h : h = Tickets \div 2 OBVIOUS
<1>8. /\ a \in Nat /\ h \in Nat /\ Tickets \in Nat /\ Tickets > 0 /\ 2 * h <= Tickets
      /\ MaxGap \in Nat /\ MaxGap <= h /\ a <= h
  BY <1>5, <1>6, <1>7, Half
<1>9. ASSUME NEW p \in Unnotified
      PROVE  /\ gap[p] \in Int /\ -h < gap[p] /\ gap[p] <= 0 /\ -gap[p] < a
             /\ nst[p] \in Waits /\ ticket[p] = (notify - gap[p]) % Tickets
             /\ -Tickets < gap[p] /\ gap[p] <= h
  <2>1. p \in Procs /\ gap[p] <= 0 /\ nst[p] \in Waits
    BY <1>1 DEF Unnotified, Inside, Waits
  <2>2. gap[p] \in Int BY <2>1 DEF TypeInv
  <2>3. -gap[p] \in 0 .. a - 1 BY <1>6 DEF TicketInv
  <2>4. ticket[p] = (notify - gap[p]) % Tickets BY <2>1 DEF TicketInv
  <2>5. PICK g : g = gap[p] OBVIOUS
  <2>6. g \in Int /\ g <= 0 /\ -g \in 0 .. a - 1 BY <2>1, <2>2, <2>3, <2>5
  <2>7. -h < g /\ -g < a /\ -Tickets < g /\ g <= h BY <1>8, <2>6
  <2> QED BY <2>1, <2>2, <2>4, <2>5, <2>7
<1>10. ASSUME NEW p \in Procs, nst[p] = "ticket"
       PROVE  /\ gap[p] \in Int /\ -h < gap[p] /\ gap[p] <= h
              /\ ticket[p] = (notify - gap[p]) % Tickets
  <2>1. CASE p \in Unnotified BY <1>9, <2>1
  <2>2. CASE p \notin Unnotified
    <3>1. gap[p] \in 1 .. MaxGap BY <1>10, <2>2 DEF TicketInv, Waits
    <3>2. ticket[p] = (notify - gap[p]) % Tickets BY <1>10 DEF TicketInv
    <3>3. PICK g : g = gap[p] OBVIOUS
    <3>4. g \in Int /\ -h < g /\ g <= h BY <1>8, <3>1, <3>3
    <3> QED BY <3>2, <3>3, <3>4
  <2> QED BY <2>1, <2>2
<1> QED BY <1>1, <1>3, <1>5, <1>6, <1>7, <1>9, <1>10

(* Steps that leave the queue as it is. *)
LEMMA QueueStill ==
  ASSUME TypeInv, TicketInv, SleepInv,
         UNCHANGED << wait, notify, list, ticket, batch, gap >>,
         \A q \in Procs : /\ nst'[q] = "ticket" <=> nst[q] = "ticket"
                          /\ nst'[q] = "parked" <=> nst[q] = "parked"
  PROVE  /\ Inside' = Inside /\ Unnotified' = Unnotified /\ Ahead' = Ahead
         /\ TicketInv' /\ SleepInv'
<1>1. Inside' = Inside /\ Unnotified' = Unnotified /\ Ahead' = Ahead
  BY DEF Inside, Unnotified, Ahead
<1>2. TicketInv' BY <1>1 DEF TicketInv, Waits
<1>3. SleepInv' BY <1>1 DEF SleepInv
<1> QED BY <1>1, <1>2, <1>3

(* What a notifier owes is untouched when tickets and gaps are.               *)
LEMMA OwedStill ==
  ASSUME OwedInv, UNCHANGED << notify, seen, owed, gap >>, Unnotified' = Unnotified,
         Ahead' = Ahead,
         \A q \in Procs : nst'[q] \in {"one", "all"} => nst[q] \in {"one", "all"}
  PROVE  OwedInv'
BY DEF OwedInv

(* Locking and unlocking. *)
LEMMA Locking ==
  ASSUME IInv, NEW p \in Procs,
         Lock(p) \/ Unlock(p) \/ WaitUnlock(p) \/ WaitRelock(p)
  PROVE  IInv' /\ Unnotified' = Unnotified /\ Inside' = Inside
<1> USE DEF IInv
<1>1. /\ UNCHANGED << wait, notify, list, nst, ticket, seen, batch, gap, owed >>
      /\ cpc' = [cpc EXCEPT ![p] = cpc'[p]] /\ cpc'[p] \in CPCs
      /\ holder' \in Procs \cup {NoProc}
  BY DEF Lock, Unlock, WaitUnlock, WaitRelock, CGoto, L!Acquire, L!Release, L!Passes, listVars, TypeInv, CPCs
<1>2. TypeInv' BY <1>1 DEF TypeInv
<1>3. Inside' = Inside /\ Unnotified' = Unnotified /\ Ahead' = Ahead /\ TicketInv' /\ SleepInv'
  BY <1>1, QueueStill
<1>4. OwedInv' BY <1>1, <1>3, OwedStill
<1>5. PlaceInv'
  <2>1. /\ cpc \in [Procs -> CPCs] /\ nst \in [Procs -> NStates] BY DEF TypeInv
  <2>2. CASE Lock(p)
    <3>1. /\ nst[p] = "idle" /\ cpc[p] = "outside" /\ cpc' = [cpc EXCEPT ![p] = "locked"]
          /\ holder = NoProc /\ holder' = p
      BY <2>2 DEF Lock, Running, CGoto, L!Acquire, L!Passes
    <3> QED BY <1>1, <2>1, <3>1 DEF PlaceInv, Calls
  <2>3. CASE Unlock(p)
    <3>1. /\ nst[p] = "idle" /\ cpc[p] = "locked" /\ cpc' = [cpc EXCEPT ![p] = "outside"]
          /\ holder = p /\ holder' = NoProc
      BY <2>3 DEF Unlock, Running, CGoto, L!Release, L!Passes
    <3> QED BY <1>1, <2>1, <3>1 DEF PlaceInv, Calls
  <2>4. CASE WaitUnlock(p)
    <3>1. /\ cpc[p] = "unlock" /\ cpc' = [cpc EXCEPT ![p] = "wait"]
          /\ holder = p /\ holder' = NoProc
      BY <2>4 DEF WaitUnlock, CGoto, L!Release, L!Passes
    <3> QED BY <1>1, <2>1, <3>1 DEF PlaceInv, Calls
  <2>5. CASE WaitRelock(p)
    <3>1. /\ nst[p] = "idle" /\ cpc[p] = "relock" /\ cpc' = [cpc EXCEPT ![p] = "locked"]
          /\ holder = NoProc /\ holder' = p
      BY <2>5 DEF WaitRelock, Running, CGoto, L!Acquire, L!Passes
    <3> QED BY <1>1, <2>1, <3>1 DEF PlaceInv, Calls
  <2> QED BY <2>2, <2>3, <2>4, <2>5
<1> QED BY <1>2, <1>3, <1>4, <1>5

(* Drawing a ticket: the caller is now the last of those to be notified. *)
LEMMA Drawing ==
  ASSUME IInv, NEW p \in Procs, WaitAdd(p)
  PROVE  /\ IInv' /\ Ahead' = Ahead + 1 /\ p \notin Inside
         /\ Inside' = Inside \cup {p} /\ Unnotified' = Unnotified \cup {p}
<1> USE DEF IInv
<1>1. /\ nst[p] = "idle" /\ cpc[p] = "locked" /\ cpc' = [cpc EXCEPT ![p] = "unlock"]
      /\ nst' = [nst EXCEPT ![p] = "ticket"] /\ wait' = (wait + 1) % Tickets
      /\ ticket' = [ticket EXCEPT ![p] = wait] /\ gap' = [gap EXCEPT ![p] = -Ahead]
      /\ UNCHANGED << notify, list, seen, batch, holder, owed >>
  BY DEF WaitAdd, CGoto, NGoto, ListAdd
<1>2. /\ Inside \in SUBSET Procs /\ Unnotified \in SUBSET Procs
      /\ Ahead \in Nat /\ Ahead <= Cardinality(Procs) /\ Ahead \in Circle
      /\ \A q \in Unnotified : gap[q] \in Int /\ gap[q] <= 0 /\ -gap[q] < Ahead
  BY GapFacts
<1>3. /\ wait \in Circle /\ notify \in Circle /\ nst \in [Procs -> NStates]
      /\ ticket \in [Procs -> Circle] /\ gap \in [Procs -> Int] /\ cpc \in [Procs -> CPCs]
  BY DEF TypeInv, Circle
<1>4. p \notin Inside /\ p \notin Unnotified BY <1>1 DEF Inside, Unnotified
<1>5. Ahead < Cardinality(Procs) /\ Ahead = Cardinality(Unnotified)
  <2>1. Cardinality(Unnotified) # Cardinality(Procs)
    <3>1. IsFiniteSet(Unnotified) /\ Cardinality(Unnotified) \in Nat BY <1>2, Countable
    <3>2. Unnotified # Procs BY <1>4
    <3> QED BY <1>2, <3>2, FS_Subset
  <2>2. Cardinality(Unnotified) = Ahead BY DEF TicketInv
  <2> QED BY <1>2, <2>1, <2>2, Half
<1>6. wait' \in Circle /\ Ahead' = Ahead + 1 /\ wait = (notify + Ahead) % Tickets
  <2> PICK w, y, a : w = wait /\ y = notify /\ a = Ahead OBVIOUS
  <2>1. w \in Circle /\ y \in Circle /\ a = (w - y) % Tickets BY <1>3 DEF Ahead
  <2>2. a + 1 < Tickets
    <3> PICK h, c : h = Tickets \div 2 /\ c = Cardinality(Procs) OBVIOUS
    <3>1. /\ h \in Nat /\ c \in Nat /\ c <= h /\ 2 * h <= Tickets /\ a \in Nat /\ a < c
          /\ Tickets \in Nat
      BY <1>2, <1>5, Half
    <3> QED BY <3>1
  <2>3. (((w + 1) % Tickets) - y) % Tickets = a + 1 /\ (w + 1) % Tickets \in Circle
    BY <2>1, <2>2, DistanceGrows
  <2>4. w = (y + ((w - y) % Tickets)) % Tickets BY <2>1, Distance
  <2>5. w = (y + a) % Tickets BY <2>1, <2>4
  <2>6. Ahead' = (wait' - notify') % Tickets BY DEF Ahead
  <2> QED BY <1>1, <2>3, <2>5, <2>6
<1>7. Inside' = Inside \cup {p} BY <1>1, <1>3 DEF Inside
<1>8. /\ gap' \in [Procs -> Int] /\ gap'[p] = -Ahead /\ gap'[p] <= 0
      /\ \A q \in Procs : q # p => gap'[q] = gap[q]
  BY <1>1, <1>2, <1>3
<1>9. Unnotified' = Unnotified \cup {p}
  BY <1>1, <1>7, <1>8, <1>4 DEF Unnotified, Inside
<1>10. TypeInv'
  <2>1. nst' \in [Procs -> NStates] /\ cpc' \in [Procs -> CPCs] BY <1>1, <1>3 DEF NStates, CPCs
  <2>2. ticket' \in [Procs -> Circle] BY <1>1, <1>3
  <2>3. wait' \in 0 .. Tickets - 1 /\ ticket' \in [Procs -> 0 .. Tickets - 1]
    BY <1>6, <2>2 DEF Circle
  <2> QED BY <1>1, <1>8, <2>1, <2>3 DEF TypeInv
<1>11. PlaceInv'
  <2>1. holder = p BY <1>1 DEF PlaceInv
  <2> QED BY <1>1, <1>3, <2>1 DEF PlaceInv, Calls
<1>12. TicketInv'
  <2> PICK a : a = Ahead OBVIOUS
  <2>0. a \in Nat /\ Ahead' = a + 1 BY <1>2, <1>6
  <2>1. Ahead' = Cardinality(Unnotified')
    <3>1. Cardinality(Unnotified \cup {p}) = Cardinality(Unnotified) + 1
      BY <1>2, <1>4, Countable, FS_AddElement
    <3> QED BY <1>5, <1>6, <1>9, <3>1
  <2>2. \A q \in Unnotified' : -gap'[q] \in 0 .. Ahead' - 1
    <3> SUFFICES ASSUME NEW q \in Unnotified' PROVE -gap'[q] \in 0 .. a BY <2>0
    <3>1. CASE q = p BY <1>8, <2>0, <3>1
    <3>2. CASE q # p
      <4>1. q \in Unnotified /\ gap'[q] = gap[q] BY <1>2, <1>8, <1>9, <3>2
      <4>2. gap[q] \in Int /\ gap[q] <= 0 /\ -gap[q] < a BY <1>2, <4>1
      <4> QED BY <2>0, <4>1, <4>2
    <3> QED BY <3>1, <3>2
  <2>3. \A k \in 0 .. Ahead' - 1 : \E q \in Unnotified' : gap'[q] = -k
    <3> SUFFICES ASSUME NEW k \in 0 .. a PROVE \E q \in Unnotified' : gap'[q] = -k BY <2>0
    <3>1. CASE k = a BY <1>8, <1>9, <3>1
    <3>2. CASE k # a
      <4>1. k \in 0 .. a - 1 BY <2>0, <3>2
      <4>2. PICK q \in Unnotified : gap[q] = -k BY <4>1 DEF TicketInv
      <4>3. q \in Unnotified' /\ gap'[q] = -k BY <1>2, <1>4, <1>8, <1>9, <4>2
      <4> QED BY <4>3
    <3> QED BY <3>1, <3>2
  <2>4. \A q, r \in Unnotified' : gap'[q] = gap'[r] => q = r
    <3>1. \A q \in Unnotified : gap'[q] # gap'[p] /\ gap'[q] = gap[q]
      <4> SUFFICES ASSUME NEW q \in Unnotified PROVE gap'[q] # gap'[p] /\ gap'[q] = gap[q]
        OBVIOUS
      <4>1. gap'[q] = gap[q] /\ gap[q] \in Int /\ -gap[q] < a BY <1>2, <1>4, <1>8
      <4>2. gap'[p] = -a BY <1>8
      <4> QED BY <2>0, <4>1, <4>2
    <3>2. \A q, r \in Unnotified : gap[q] = gap[r] => q = r BY DEF TicketInv
    <3> QED BY <1>9, <3>1, <3>2
  <2>5. \A q \in Procs :
          \/ q \in Unnotified'
          \/ nst'[q] = "ticket" /\ gap'[q] \in 1 .. MaxGap
          \/ nst'[q] = "parked" /\ gap'[q] = 1
          \/ nst'[q] \notin Waits
    <3> SUFFICES ASSUME NEW q \in Procs, q # p
                 PROVE  \/ q \in Unnotified'
                        \/ nst'[q] = "ticket" /\ gap'[q] \in 1 .. MaxGap
                        \/ nst'[q] = "parked" /\ gap'[q] = 1
                        \/ nst'[q] \notin Waits
      BY <1>9
    <3>1. gap'[q] = gap[q] /\ nst'[q] = nst[q] BY <1>1, <1>3, <1>8
    <3> QED BY <1>9, <3>1 DEF TicketInv
  <2>6. \A q \in Procs : q \in Unnotified' \/ nst'[q] = "ticket" =>
          ticket'[q] = (notify' - gap'[q]) % Tickets
    <3> SUFFICES ASSUME NEW q \in Procs, q \in Unnotified' \/ nst'[q] = "ticket"
                 PROVE  ticket'[q] = (notify' - gap'[q]) % Tickets
      OBVIOUS
    <3>1. CASE q = p
      <4>1. ticket'[q] = wait /\ notify' = notify /\ gap'[q] = -a BY <1>1, <1>3, <1>8, <3>1
      <4>2. PICK y : y = notify OBVIOUS
      <4>3. y \in Int BY <1>3, <4>2, Half DEF Circle
      <4>4. y - (-a) = y + a BY <2>0, <4>3
      <4>5. wait = (y + a) % Tickets BY <1>6, <4>2
      <4> QED BY <4>1, <4>2, <4>4, <4>5
    <3>2. CASE q # p
      <4>1. gap'[q] = gap[q] /\ nst'[q] = nst[q] /\ ticket'[q] = ticket[q] BY <1>1, <1>3, <1>8, <3>2
      <4>2. q \in Unnotified \/ nst[q] = "ticket" BY <1>9, <3>2, <4>1
      <4> QED BY <1>1, <4>1, <4>2 DEF TicketInv
    <3> QED BY <3>1, <3>2
  <2> QED BY <2>1, <2>2, <2>3, <2>4, <2>5, <2>6 DEF TicketInv
<1>13. SleepInv'
  <2>1. \A q \in Procs : /\ nst'[q] = "parked" <=> nst[q] = "parked"
                         /\ nst[q] = "parked" => (q \in Unnotified' <=> q \in Unnotified)
    BY <1>1, <1>3, <1>9
  <2> QED BY <1>1, <2>1 DEF SleepInv
<1>14. OwedInv'
  <2> SUFFICES ASSUME NEW q \in Procs
               PROVE  /\ owed'[q] \subseteq Unnotified'
                      /\ nst'[q] \in {"one", "all"} /\ owed'[q] # {} =>
                           \E e \in 1 .. Ahead' : /\ seen'[q] = (notify' + e) % Tickets
                                                  /\ \A r \in owed'[q] : -gap'[r] < e
    BY DEF OwedInv
  <2>1. owed[q] \subseteq Unnotified BY DEF OwedInv
  <2>2. ASSUME nst'[q] \in {"one", "all"}, owed'[q] # {}
        PROVE  \E e \in 1 .. Ahead' : /\ seen'[q] = (notify' + e) % Tickets
                                      /\ \A r \in owed'[q] : -gap'[r] < e
    <3>1. q # p /\ nst[q] \in {"one", "all"} BY <1>1, <1>3, <2>2
    <3>2. PICK e \in 1 .. Ahead : /\ seen[q] = (notify + e) % Tickets
                                  /\ \A r \in owed[q] : -gap[r] < e
      BY <1>1, <2>2, <3>1 DEF OwedInv
    <3>3. e \in 1 .. Ahead' BY <1>2, <1>6
    <3>4. \A r \in owed[q] : gap'[r] = gap[r] BY <1>2, <1>4, <1>8, <2>1
    <3> QED BY <1>1, <3>2, <3>3, <3>4
  <2> QED BY <1>1, <1>9, <2>1, <2>2
<1> QED BY <1>4, <1>6, <1>7, <1>9, <1>10, <1>11, <1>12, <1>13, <1>14

(* Whether the ticket of a waiter has been notified. *)
LEMMA NotifiedIs ==
  ASSUME TypeInv, TicketInv, NEW p \in Procs, nst[p] = "ticket"
  PROVE  /\ Less(ticket[p], notify) <=> gap[p] > 0
         /\ p \in Unnotified <=> ~(gap[p] > 0)
<1>1. /\ gap[p] \in Int /\ -(Tickets \div 2) < gap[p] /\ gap[p] <= Tickets \div 2
      /\ ticket[p] = (notify - gap[p]) % Tickets
  BY GapFacts
<1> PICK g, y : g = gap[p] /\ y = notify OBVIOUS
<1>2. y \in Circle /\ g \in Int /\ -(Tickets \div 2) < g /\ g <= Tickets \div 2
  BY <1>1 DEF TypeInv, Circle
<1>3. Less((y - g) % Tickets, y) <=> g > 0 BY <1>2, LessIs
<1>4. ticket[p] = (y - g) % Tickets BY <1>1
<1>5. Less(ticket[p], notify) <=> g > 0 BY <1>3, <1>4
<1>6. p \in Unnotified <=> g <= 0 BY DEF Unnotified, Inside
<1> QED BY <1>2, <1>5, <1>6

(* A waiter that was notified before it joined the list leaves. *)
LEMMA Leaving ==
  ASSUME IInv, NEW p \in Procs, WaitList(p), AlreadyNotified(p)
  PROVE  /\ IInv' /\ Ahead' = Ahead /\ p \in Inside /\ p \notin Unnotified
         /\ Inside' = Inside \ {p} /\ Unnotified' = Unnotified
<1> USE DEF IInv
<1>1. /\ nst[p] = "ticket" /\ cpc[p] = "wait" /\ cpc' = [cpc EXCEPT ![p] = "relock"]
      /\ nst' = [nst EXCEPT ![p] = "idle"] /\ Less(ticket[p], notify)
      /\ ticket' = [ticket EXCEPT ![p] = 0] /\ gap' = [gap EXCEPT ![p] = 0]
      /\ UNCHANGED << wait, notify, list, seen, batch, holder, owed >>
  BY DEF WaitList, CGoto, NGoto, AlreadyNotified, Forget
<1>2. /\ nst \in [Procs -> NStates] /\ cpc \in [Procs -> CPCs]
      /\ ticket \in [Procs -> 0 .. Tickets - 1] /\ gap \in [Procs -> Int]
  BY DEF TypeInv
<1>3. p \in Inside /\ p \notin Unnotified
  <2>1. gap[p] > 0 /\ p \notin Unnotified BY <1>1, NotifiedIs
  <2> QED BY <1>1, <2>1 DEF Inside
<1>4. Inside' = Inside \ {p} BY <1>1, <1>2 DEF Inside
<1>5. \A q \in Procs : q # p => /\ gap'[q] = gap[q] /\ nst'[q] = nst[q] /\ ticket'[q] = ticket[q]
                                /\ cpc'[q] = cpc[q]
  BY <1>1, <1>2
<1>6. Unnotified' = Unnotified BY <1>3, <1>4, <1>5 DEF Unnotified, Inside
<1>7. Ahead' = Ahead BY <1>1 DEF Ahead
<1>8. TypeInv'
  <2>1. nst' \in [Procs -> NStates] /\ cpc' \in [Procs -> CPCs] BY <1>1, <1>2 DEF NStates, CPCs
  <2>2. ticket' \in [Procs -> 0 .. Tickets - 1] BY <1>1, <1>2, Half
  <2>3. gap' \in [Procs -> Int] BY <1>1, <1>2
  <2> QED BY <1>1, <2>1, <2>2, <2>3 DEF TypeInv
<1>9. PlaceInv'
  <2>1. holder # p BY <1>1 DEF PlaceInv
  <2> QED BY <1>1, <1>2, <2>1 DEF PlaceInv, Calls
<1>10. nst'[p] = "idle" BY <1>1, <1>2
<1>11. \A q \in Unnotified : q # p /\ q \in Procs BY <1>3 DEF Unnotified, Inside
<1>12. TicketInv'
  <2>1. \A q \in Unnotified : gap'[q] = gap[q] BY <1>5, <1>11
  <2>2. /\ Ahead' = Cardinality(Unnotified')
        /\ \A q \in Unnotified' : -gap'[q] \in 0 .. Ahead' - 1
        /\ \A k \in 0 .. Ahead' - 1 : \E q \in Unnotified' : gap'[q] = -k
        /\ \A q, r \in Unnotified' : gap'[q] = gap'[r] => q = r
    BY <1>6, <1>7, <2>1 DEF TicketInv
  <2>3. \A q \in Procs :
          \/ q \in Unnotified'
          \/ nst'[q] = "ticket" /\ gap'[q] \in 1 .. MaxGap
          \/ nst'[q] = "parked" /\ gap'[q] = 1
          \/ nst'[q] \notin Waits
    <3> SUFFICES ASSUME NEW q \in Procs
                 PROVE  \/ q \in Unnotified'
                        \/ nst'[q] = "ticket" /\ gap'[q] \in 1 .. MaxGap
                        \/ nst'[q] = "parked" /\ gap'[q] = 1
                        \/ nst'[q] \notin Waits
      OBVIOUS
    <3>1. CASE q = p BY <1>10, <3>1 DEF Waits
    <3>2. CASE q # p BY <1>5, <1>6, <3>2 DEF TicketInv
    <3> QED BY <3>1, <3>2
  <2>4. \A q \in Procs : q \in Unnotified' \/ nst'[q] = "ticket" =>
          ticket'[q] = (notify' - gap'[q]) % Tickets
    <3> SUFFICES ASSUME NEW q \in Procs, q \in Unnotified' \/ nst'[q] = "ticket"
                 PROVE  ticket'[q] = (notify' - gap'[q]) % Tickets
      OBVIOUS
    <3>1. q # p BY <1>6, <1>10, <1>11
    <3>2. /\ gap'[q] = gap[q] /\ ticket'[q] = ticket[q] /\ notify' = notify
          /\ q \in Unnotified \/ nst[q] = "ticket"
      BY <1>1, <1>5, <1>6, <3>1
    <3> QED BY <3>2 DEF TicketInv
  <2> QED BY <2>2, <2>3, <2>4 DEF TicketInv
<1>13. SleepInv'
  <2>1. \A q \in Procs : nst'[q] = "parked" <=> nst[q] = "parked" BY <1>1, <1>2
  <2> QED BY <1>1, <1>6, <2>1 DEF SleepInv
<1>14. OwedInv'
  <2>1. \A q \in Procs : owed[q] \subseteq Unnotified BY DEF OwedInv
  <2>2. \A q \in Procs : \A r \in owed[q] : gap'[r] = gap[r] BY <1>5, <1>11, <2>1
  <2>3. \A q \in Procs : nst'[q] \in {"one", "all"} => nst[q] \in {"one", "all"} BY <1>1, <1>2
  <2> QED BY <1>1, <1>6, <1>7, <2>1, <2>2, <2>3 DEF OwedInv
<1> QED BY <1>3, <1>4, <1>6, <1>7, <1>8, <1>9, <1>12, <1>13, <1>14

(* A waiter that was not goes to sleep at the end of the list. *)
LEMMA Sleeping ==
  ASSUME IInv, NEW p \in Procs, WaitList(p), Park(p)
  PROVE  IInv' /\ Ahead' = Ahead /\ Inside' = Inside /\ Unnotified' = Unnotified
<1> USE DEF IInv
<1>1. /\ nst[p] = "ticket" /\ cpc[p] = "wait" /\ cpc' = [cpc EXCEPT ![p] = "relock"]
      /\ nst' = [nst EXCEPT ![p] = "parked"] /\ ~Less(ticket[p], notify)
      /\ list' = Append(list, p)
      /\ UNCHANGED << wait, notify, ticket, gap, seen, batch, holder, owed >>
  BY DEF WaitList, CGoto, NGoto, Park
<1>2. nst \in [Procs -> NStates] /\ cpc \in [Procs -> CPCs] /\ list \in Seq(Procs)
  BY DEF TypeInv
<1>3. p \in Inside /\ p \in Unnotified
  <2>1. p \in Unnotified BY <1>1, NotifiedIs
  <2> QED BY <1>1, <2>1 DEF Inside
<1>4. Inside' = Inside BY <1>1, <1>2 DEF Inside
<1>6. Unnotified' = Unnotified BY <1>1, <1>4 DEF Unnotified
<1>7. Ahead' = Ahead BY <1>1 DEF Ahead
<1>5. /\ Append(list, p) \in Seq(Procs)
      /\ \A x : Occurs(x, Append(list, p)) <=> x = p \/ Occurs(x, list)
      /\ NoRepeat(list) /\ ~Occurs(p, list) => NoRepeat(Append(list, p))
  <2> PICK s : s = list OBVIOUS
  <2>1. s \in Seq(Procs) BY <1>2
  <2> QED BY <2>1, AppendLast
<1>8. TypeInv'
  <2>1. nst' \in [Procs -> NStates] /\ cpc' \in [Procs -> CPCs] BY <1>1, <1>2 DEF NStates, CPCs
  <2> QED BY <1>1, <1>5, <2>1 DEF TypeInv
<1>9. PlaceInv'
  <2>1. holder # p BY <1>1 DEF PlaceInv
  <2> QED BY <1>1, <1>2, <2>1 DEF PlaceInv, Calls
<1>10. nst'[p] = "parked" /\ \A q \in Procs : q # p => nst'[q] = nst[q] BY <1>1, <1>2
<1>12. TicketInv'
  <2>1. \A q \in Procs :
          \/ q \in Unnotified'
          \/ nst'[q] = "ticket" /\ gap'[q] \in 1 .. MaxGap
          \/ nst'[q] = "parked" /\ gap'[q] = 1
          \/ nst'[q] \notin Waits
    BY <1>1, <1>3, <1>6, <1>10 DEF TicketInv
  <2>2. \A q \in Procs : q \in Unnotified' \/ nst'[q] = "ticket" =>
                         q \in Unnotified \/ nst[q] = "ticket"
    BY <1>6, <1>10
  <2> QED BY <1>1, <1>6, <1>7, <2>1, <2>2 DEF TicketInv
<1>13. SleepInv'
  <2>1. ~Occurs(p, list) BY <1>1 DEF SleepInv
  <2>2. \A q \in Procs : ~Occurs(p, batch[q]) BY <1>1 DEF SleepInv
  <2>3. NoRepeat(list') BY <1>1, <1>5, <2>1 DEF SleepInv
  <2>4. \A q \in Procs : Occurs(q, list') <=> nst'[q] = "parked" /\ q \in Unnotified'
    BY <1>1, <1>3, <1>5, <1>6, <1>10 DEF SleepInv
  <2>5. \A q, r \in Procs : Occurs(q, batch[r]) => nst'[q] = "parked" /\ q \notin Unnotified
    BY <1>10, <2>2 DEF SleepInv
  <2>6. \A q \in Procs : nst'[q] = "parked" /\ q \notin Unnotified =>
          \E r \in Procs : Occurs(q, batch[r])
    BY <1>3, <1>10 DEF SleepInv
  <2> QED BY <1>1, <1>6, <2>3, <2>4, <2>5, <2>6 DEF SleepInv
<1>14. OwedInv'
  <2>1. \A q \in Procs : nst'[q] \in {"one", "all"} => nst[q] \in {"one", "all"} BY <1>1, <1>2
  <2> QED BY <1>1, <1>6, <1>7, <2>1, OwedStill
<1> QED BY <1>4, <1>6, <1>7, <1>8, <1>9, <1>12, <1>13, <1>14

(* Signal or Broadcast begins: the caller owes those who wait now.            *)
LEMMA Calling ==
  ASSUME IInv, NEW p \in Procs, NEW which, which \in {"one", "all"}, Notify(p, which)
  PROVE  IInv' /\ Inside' = Inside /\ Unnotified' = Unnotified /\ p \notin Inside
<1> USE DEF IInv
<1>1. /\ nst[p] = "idle" /\ cpc[p] \in {"outside", "locked"} /\ nst' = [nst EXCEPT ![p] = which]
      /\ seen' = [seen EXCEPT ![p] = wait] /\ owed' = [owed EXCEPT ![p] = Unnotified]
      /\ UNCHANGED << wait, notify, list, ticket, gap, batch, holder, cpc >>
  BY DEF Notify, LoadWait, NGoto
<1>2. /\ nst \in [Procs -> NStates] /\ seen \in [Procs -> 0 .. Tickets - 1]
      /\ owed \in [Procs -> SUBSET Procs] /\ wait \in 0 .. Tickets - 1
  BY DEF TypeInv
<1>3. p \notin Inside BY <1>1 DEF Inside
<1>4. \A q \in Procs : q # p => nst'[q] = nst[q] /\ seen'[q] = seen[q] /\ owed'[q] = owed[q]
  BY <1>1, <1>2
<1>5. nst'[p] = which /\ seen'[p] = wait /\ owed'[p] = Unnotified BY <1>1, <1>2
<1>6. Inside' = Inside /\ Unnotified' = Unnotified /\ Ahead' = Ahead /\ TicketInv' /\ SleepInv'
  <2>1. \A q \in Procs : /\ nst'[q] = "ticket" <=> nst[q] = "ticket"
                         /\ nst'[q] = "parked" <=> nst[q] = "parked"
    BY <1>1, <1>2
  <2> QED BY <1>1, <2>1, QueueStill
<1>7. /\ Unnotified \in SUBSET Procs /\ Ahead \in Nat
      /\ \A q \in Unnotified : gap[q] \in Int /\ gap[q] <= 0 /\ -gap[q] < Ahead
  BY GapFacts
<1>8. TypeInv'
  <2>1. nst' \in [Procs -> NStates] BY <1>1, <1>2 DEF NStates
  <2>2. seen' \in [Procs -> 0 .. Tickets - 1] BY <1>1, <1>2
  <2>3. owed' \in [Procs -> SUBSET Procs] BY <1>1, <1>2, <1>7
  <2> QED BY <1>1, <2>1, <2>2, <2>3 DEF TypeInv
<1>9. PlaceInv'
  BY <1>1, <1>2, <1>4, <1>5 DEF PlaceInv, Calls
<1>10. OwedInv'
  <2>1. wait = (notify + Ahead) % Tickets
    <3> PICK w, y : w = wait /\ y = notify OBVIOUS
    <3>1. w \in Circle /\ y \in Circle BY DEF TypeInv, Circle
    <3>2. w = (y + ((w - y) % Tickets)) % Tickets BY <3>1, Distance
    <3> QED BY <3>2 DEF Ahead
  <2>2. owed'[p] # {} => Ahead \in 1 .. Ahead BY <1>5, <1>7
  <2>3. \A r \in owed'[p] : -gap'[r] < Ahead BY <1>1, <1>5, <1>7
  <2>4. owed'[p] # {} => \E e \in 1 .. Ahead' : /\ seen'[p] = (notify' + e) % Tickets
                                                /\ \A r \in owed'[p] : -gap'[r] < e
    BY <1>1, <1>5, <1>6, <2>1, <2>2, <2>3
  <2>5. ASSUME NEW q \in Procs, q # p
        PROVE  /\ owed'[q] \subseteq Unnotified'
               /\ nst'[q] \in {"one", "all"} /\ owed'[q] # {} =>
                    \E e \in 1 .. Ahead' : /\ seen'[q] = (notify' + e) % Tickets
                                           /\ \A r \in owed'[q] : -gap'[r] < e
    BY <1>1, <1>4, <1>6, <2>5 DEF OwedInv
  <2>6. owed'[p] \subseteq Unnotified' BY <1>5, <1>6
  <2> QED BY <2>4, <2>5, <2>6 DEF OwedInv
<1> QED BY <1>3, <1>6, <1>8, <1>9, <1>10

(* A notifier that sees nothing to do owes nothing.                           *)
LEMMA NothingOwed ==
  ASSUME IInv, NEW p \in Procs, NothingNew(p) \/ OneNone(p) \/ nst[p] \notin Calls
  PROVE  owed[p] = {}
<1> USE DEF IInv
<1>0. /\ Ahead \in Nat /\ Ahead \in Circle /\ (Ahead = 0 <=> wait = notify)
      /\ \A q \in Unnotified : gap[q] \in Int /\ gap[q] <= 0 /\ -gap[q] < Ahead
  BY GapFacts
<1>1. CASE NothingNew(p)
  <2> SUFFICES ASSUME owed[p] # {} PROVE FALSE OBVIOUS
  <2>1. nst[p] \in {"one", "all"} /\ seen[p] = notify BY <1>1 DEF NothingNew
  <2>2. PICK e \in 1 .. Ahead : seen[p] = (notify + e) % Tickets BY <2>1 DEF OwedInv
  <2> PICK y : y = notify OBVIOUS
  <2>3. y \in Circle /\ e \in Circle /\ e \in Nat /\ e > 0 BY <1>0, <2>2, Half DEF TypeInv, Circle
  <2>4. (y + e) % Tickets = IF y + e < Tickets THEN y + e ELSE y + e - Tickets
    BY <2>3, Advanced
  <2>5. (y + e) % Tickets = y BY <2>1, <2>2
  <2> QED BY <2>3, <2>4, <2>5, Half DEF Circle
<1>2. CASE OneNone(p)
  <2>1. notify = wait BY <1>2 DEF OneNone
  <2>2. Unnotified = {} BY <1>0, <2>1
  <2> QED BY <2>2 DEF OwedInv
<1>3. CASE nst[p] \notin Calls BY <1>3 DEF PlaceInv
<1> QED BY <1>1, <1>2, <1>3

(* The steps of a notifier that change nothing for the waiters.               *)
LEMMA Quiet ==
  ASSUME IInv, NEW p \in Procs, Notifying(p),
         NothingNew(p) \/ ToLock(p) \/ OneNone(p) \/ NotifyReturn(p)
  PROVE  IInv' /\ Inside' = Inside /\ Unnotified' = Unnotified /\ owed' = owed
<1> USE DEF IInv
<1>1. /\ nst[p] \in {"one", "all", "oneLock", "readying"}
      /\ nst[p] = "readying" => batch[p] = << >>
      /\ nst' = [nst EXCEPT ![p] = nst'[p]] /\ nst'[p] \in {"idle", "oneLock", "allLock"}
      /\ seen' \in {seen, [seen EXCEPT ![p] = 0]}
      /\ nst[p] \in {"one", "all"} \/ nst'[p] = "idle"
      /\ UNCHANGED << wait, notify, list, ticket, gap, batch, holder, cpc >>
  <2>1. nst \in [Procs -> NStates] BY DEF TypeInv
  <2>2. UNCHANGED << holder, cpc >> BY DEF Notifying
  <2>3. CASE NothingNew(p) BY <2>1, <2>2, <2>3 DEF NothingNew
  <2>4. CASE ToLock(p) BY <2>1, <2>2, <2>4 DEF ToLock
  <2>5. CASE OneNone(p) BY <2>1, <2>2, <2>5 DEF OneNone, NGoto
  <2>6. CASE NotifyReturn(p) BY <2>1, <2>2, <2>6 DEF NotifyReturn, NGoto
  <2> QED BY <2>3, <2>4, <2>5, <2>6
<1>2. /\ nst \in [Procs -> NStates] /\ seen \in [Procs -> 0 .. Tickets - 1]
      /\ owed \in [Procs -> SUBSET Procs]
  BY DEF TypeInv
<1>3. \A q \in Procs : q # p => nst'[q] = nst[q] /\ seen'[q] = seen[q]
  BY <1>1, <1>2
<1>4. Inside' = Inside /\ Unnotified' = Unnotified /\ Ahead' = Ahead /\ TicketInv' /\ SleepInv'
  <2>1. \A q \in Procs : /\ nst'[q] = "ticket" <=> nst[q] = "ticket"
                         /\ nst'[q] = "parked" <=> nst[q] = "parked"
    BY <1>1, <1>3
  <2> QED BY <1>1, <2>1, QueueStill
<1>5. owed' = owed
  <2>1. owed' = [q \in Procs |-> IF nst'[q] \in Calls THEN owed[q] \cap Unnotified' ELSE {}]
    BY DEF Notifying, Calls
  <2>2. \A q \in Procs : owed[q] \cap Unnotified' = owed[q] BY <1>4 DEF OwedInv
  <2>3. nst'[p] \notin Calls => owed[p] = {}
    <3> SUFFICES ASSUME nst'[p] \notin Calls PROVE owed[p] = {} OBVIOUS
    <3>1. ~ToLock(p)
      <4> SUFFICES ASSUME ToLock(p) PROVE FALSE OBVIOUS
      <4>1. nst' = [nst EXCEPT ![p] = IF nst[p] = "one" THEN "oneLock" ELSE "allLock"]
        BY DEF ToLock
      <4> QED BY <1>2, <4>1 DEF Calls
    <3>2. NotifyReturn(p) => nst[p] \notin Calls BY DEF NotifyReturn, NGoto, Calls
    <3> QED BY <3>1, <3>2, NothingOwed
  <2>4. \A q \in Procs : nst'[q] \notin Calls => owed[q] = {}
    BY <1>3, <2>3 DEF PlaceInv
  <2>5. \A q \in Procs : owed'[q] = owed[q] BY <2>1, <2>2, <2>4
  <2> QED BY <1>2, <2>1, <2>5
<1>6. TypeInv'
  <2>1. nst' \in [Procs -> NStates] BY <1>1, <1>2 DEF NStates
  <2>2. seen' \in [Procs -> 0 .. Tickets - 1] BY <1>1, <1>2, Half
  <2> QED BY <1>1, <1>2, <1>5, <2>1, <2>2 DEF TypeInv
<1>7. PlaceInv'
  <2>1. nst[p] # "readying" => batch[p] = << >> BY DEF PlaceInv
  <2>2. nst'[p] \notin Calls => owed[p] = {}
    <3>1. owed' = [q \in Procs |-> IF nst'[q] \in Calls THEN owed[q] \cap Unnotified' ELSE {}]
      BY DEF Notifying, Calls
    <3> QED BY <1>5, <3>1
  <2>3. \A q \in Procs : /\ nst'[q] = "ticket" <=> nst[q] = "ticket"
                         /\ nst'[q] = "parked" <=> nst[q] = "parked"
                         /\ nst[q] \in {"parked", "idle"} => nst'[q] \in {"parked", "idle"}
                         /\ nst'[q] # "readying" => batch[q] = << >>
                         /\ nst'[q] \notin Calls => owed[q] = {}
    BY <1>1, <1>2, <1>3, <2>1, <2>2 DEF PlaceInv, Calls
  <2> QED BY <1>1, <1>5, <2>3 DEF PlaceInv
<1>8. OwedInv'
  <2> SUFFICES ASSUME NEW q \in Procs
               PROVE  /\ owed'[q] \subseteq Unnotified'
                      /\ nst'[q] \in {"one", "all"} /\ owed'[q] # {} =>
                           \E e \in 1 .. Ahead' : /\ seen'[q] = (notify' + e) % Tickets
                                                  /\ \A r \in owed'[q] : -gap'[r] < e
    BY DEF OwedInv
  <2>1. nst'[q] \in {"one", "all"} => q # p BY <1>1
  <2> QED BY <1>1, <1>3, <1>4, <1>5, <2>1 DEF OwedInv
<1> QED BY <1>4, <1>5, <1>6, <1>7, <1>8

(* n of the tickets that are in use are notified.                             *)
LEMMA Advancing ==
  ASSUME TypeInv, TicketInv, NEW n, n \in 0 .. Ahead, Advance(n),
         UNCHANGED << wait, ticket >>,
         \A q \in Procs : /\ nst'[q] = "ticket" <=> nst[q] = "ticket"
                          /\ nst'[q] = "parked" <=> nst[q] = "parked"
  PROVE  /\ Inside' = Inside /\ Ahead' = Ahead - n
         /\ notify' \in 0 .. Tickets - 1 /\ notify' = (notify + n) % Tickets
         /\ gap' \in [Procs -> Int]
         /\ \A q \in Procs : q \in Unnotified' <=> q \in Unnotified /\ gap[q] + n <= 0
         /\ \A q \in Unnotified' : gap'[q] = gap[q] + n
         /\ Ahead' = Cardinality(Unnotified') => TicketInv'
<1>1. /\ Inside \in SUBSET Procs /\ Unnotified \in SUBSET Procs
      /\ Ahead \in Nat /\ Ahead \in Circle
      /\ \A q \in Unnotified : /\ gap[q] \in Int /\ -Tickets < gap[q] /\ gap[q] <= 0
                               /\ -gap[q] < Ahead /\ nst[q] \in Waits
      /\ \A q \in Procs : nst[q] = "ticket" => -(Tickets \div 2) < gap[q]
  BY GapFacts
<1>2. /\ notify' = (notify + n) % Tickets
      /\ gap' = [q \in Procs |-> IF q \notin Inside THEN 0
                                 ELSE IF nst[q] = "parked" /\ gap[q] + n > 1 THEN 1
                                 ELSE gap[q] + n]
      /\ \A q \in Procs : nst[q] = "ticket" => gap'[q] <= MaxGap
  BY DEF Advance
<1>3. Inside' = Inside BY DEF Inside
<1> PICK a : a = Ahead OBVIOUS
<1>4. a \in Nat /\ n \in Nat /\ n <= a /\ a \in Circle /\ n \in Circle
  BY <1>1, Half DEF Circle
<1>5. Ahead' = a - n /\ notify' \in Circle
  <2> PICK w, y : w = wait /\ y = notify OBVIOUS
  <2>1. w \in Circle /\ y \in Circle /\ a = (w - y) % Tickets BY DEF TypeInv, Circle, Ahead
  <2>2. n \in 0 .. a BY <1>4
  <2>3. (w - ((y + n) % Tickets)) % Tickets = a - n /\ (y + n) % Tickets \in Circle
    BY <2>1, <2>2, DistanceShrinks
  <2>4. Ahead' = (wait' - notify') % Tickets BY DEF Ahead
  <2> QED BY <1>2, <2>3, <2>4
<1>6. \A q \in Procs : gap[q] \in Int BY DEF TypeInv
<1>7. gap' \in [Procs -> Int]
  <2>1. \A q \in Procs : gap[q] + n \in Int BY <1>4, <1>6
  <2> QED BY <1>2, <2>1
<1>8. \A q \in Procs : gap'[q] = IF q \notin Inside THEN 0
                                 ELSE IF nst[q] = "parked" /\ gap[q] + n > 1 THEN 1
                                 ELSE gap[q] + n
  BY <1>2
<1>9. ASSUME NEW q \in Procs
      PROVE  /\ q \in Unnotified' <=> q \in Unnotified /\ gap[q] + n <= 0
             /\ q \in Unnotified' => gap'[q] = gap[q] + n
  <2>1. q \in Unnotified' <=> q \in Inside /\ gap'[q] <= 0 BY <1>3 DEF Unnotified
  <2>2. q \in Unnotified <=> q \in Inside /\ gap[q] <= 0 BY DEF Unnotified
  <2> PICK g : g = gap[q] OBVIOUS
  <2>3. g \in Int BY <1>6
  <2>4. q \in Inside => gap'[q] = IF nst[q] = "parked" /\ g + n > 1 THEN 1 ELSE g + n BY <1>8
  <2>5. q \in Inside => (gap'[q] <= 0 <=> g + n <= 0) BY <1>4, <2>3, <2>4
  <2>6. g + n <= 0 => g <= 0 BY <1>4, <2>3
  <2>7. g + n <= 0 => ~(g + n > 1) BY <1>4, <2>3
  <2> QED BY <2>1, <2>2, <2>4, <2>5, <2>6, <2>7
<1>10. \A q \in Unnotified' : gap'[q] = gap[q] + n /\ q \in Unnotified /\ q \in Procs
  BY <1>1, <1>9 DEF Unnotified, Inside
<1>11. ASSUME Ahead' = Cardinality(Unnotified') PROVE TicketInv'
  <2>2. \A q \in Unnotified' : -gap'[q] \in 0 .. Ahead' - 1
    <3> SUFFICES ASSUME NEW q \in Unnotified' PROVE -gap'[q] \in 0 .. (a - n) - 1 BY <1>5
    <3>1. /\ gap'[q] = gap[q] + n /\ gap[q] + n <= 0 /\ gap[q] \in Int /\ -gap[q] < a
      BY <1>1, <1>9, <1>10
    <3> QED BY <1>4, <3>1
  <2>3. \A k \in 0 .. Ahead' - 1 : \E q \in Unnotified' : gap'[q] = -k
    <3> SUFFICES ASSUME NEW k \in 0 .. (a - n) - 1 PROVE \E q \in Unnotified' : gap'[q] = -k
      BY <1>5
    <3>1. k + n \in 0 .. a - 1 BY <1>4
    <3>2. PICK q \in Unnotified : gap[q] = -(k + n) BY <3>1 DEF TicketInv
    <3>3. gap[q] + n = -k /\ -k <= 0 BY <1>4, <3>2
    <3>4. q \in Unnotified' BY <1>1, <1>9, <3>3
    <3> QED BY <1>10, <3>3, <3>4
  <2>4. \A q, r \in Unnotified' : gap'[q] = gap'[r] => q = r
    <3> SUFFICES ASSUME NEW q \in Unnotified', NEW r \in Unnotified', gap'[q] = gap'[r]
                 PROVE  q = r
      OBVIOUS
    <3>1. q \in Unnotified /\ r \in Unnotified /\ gap[q] + n = gap[r] + n BY <1>10
    <3>2. gap[q] \in Int /\ gap[r] \in Int BY <1>1, <3>1
    <3> PICK g, h : g = gap[q] /\ h = gap[r] OBVIOUS
    <3>3. g = h
      <4>1. g \in Int /\ h \in Int /\ n \in Int BY <1>4, <3>2
      <4>2. g + n = h + n BY <3>1
      <4> QED BY <4>1, <4>2
    <3> QED BY <3>1, <3>3 DEF TicketInv
  <2>5. \A q \in Procs :
          \/ q \in Unnotified'
          \/ nst'[q] = "ticket" /\ gap'[q] \in 1 .. MaxGap
          \/ nst'[q] = "parked" /\ gap'[q] = 1
          \/ nst'[q] \notin Waits
    <3> SUFFICES ASSUME NEW q \in Procs, q \notin Unnotified', nst'[q] \in Waits
                 PROVE  \/ nst'[q] = "ticket" /\ gap'[q] \in 1 .. MaxGap
                        \/ nst'[q] = "parked" /\ gap'[q] = 1
      OBVIOUS
    <3>1. nst[q] \in Waits /\ q \in Inside BY DEF Waits, Inside
    <3>2. gap'[q] = IF nst[q] = "parked" /\ gap[q] + n > 1 THEN 1 ELSE gap[q] + n BY <1>8, <3>1
    <3>3. gap'[q] \in Int /\ ~(gap'[q] <= 0) BY <1>3, <1>7, <3>1 DEF Unnotified
    <3>4. CASE nst[q] = "ticket"
      <4>1. gap'[q] <= MaxGap BY <1>2, <3>4
      <4> QED BY <3>3, <3>4, <4>1, Half
    <3>5. CASE nst[q] = "parked"
      <4> PICK g : g = gap[q] OBVIOUS
      <4>1. g \in Int BY <1>6
      <4>2. gap'[q] = IF g + n > 1 THEN 1 ELSE g + n BY <3>2, <3>5
      <4>3. gap'[q] = 1 BY <1>4, <3>3, <4>1, <4>2
      <4> QED BY <3>5, <4>3
    <3> QED BY <3>1, <3>4, <3>5 DEF Waits
  <2>6. \A q \in Procs : q \in Unnotified' \/ nst'[q] = "ticket" =>
          ticket'[q] = (notify' - gap'[q]) % Tickets
    <3> SUFFICES ASSUME NEW q \in Procs, q \in Unnotified' \/ nst'[q] = "ticket"
                 PROVE  ticket'[q] = (notify' - gap'[q]) % Tickets
      OBVIOUS
    <3> PICK g, y, h : g = gap[q] /\ y = notify /\ h = Tickets \div 2 OBVIOUS
    <3>0. /\ g \in Int /\ y \in Circle /\ h \in Nat /\ 2 * h <= Tickets
          /\ MaxGap \in Nat /\ MaxGap <= h /\ Tickets \in Nat
      BY <1>6, Half DEF TypeInv, Circle
    <3>1. gap'[q] = g + n
      <4>1. CASE q \in Unnotified' BY <1>10, <4>1
      <4>2. CASE nst'[q] = "ticket"
        <5>1. nst[q] = "ticket" /\ q \in Inside BY <4>2 DEF Inside
        <5> QED BY <1>8, <5>1
      <4> QED BY <4>1, <4>2
    <3>2. -Tickets < g /\ g + n <= h /\ (q \in Unnotified \/ nst[q] = "ticket")
      <4>1. CASE q \in Unnotified'
        <5>1. q \in Unnotified /\ g + n <= 0 BY <1>9, <4>1
        <5>2. -Tickets < g BY <1>1, <5>1
        <5> QED BY <1>4, <3>0, <5>1, <5>2
      <4>2. CASE nst'[q] = "ticket"
        <5>1. nst[q] = "ticket" BY <4>2
        <5>2. -h < g BY <1>1, <5>1
        <5>3. g + n <= MaxGap BY <1>2, <3>1, <5>1
        <5> QED BY <1>4, <3>0, <5>1, <5>2, <5>3
      <4> QED BY <4>1, <4>2
    <3>3. (y - g) % Tickets = (((y + n) % Tickets) - (g + n)) % Tickets
      <4>1. g + n <= Tickets \div 2 BY <3>2
      <4> QED BY <1>4, <3>0, <3>2, <4>1, SameTicket
    <3>4. ticket[q] = (y - g) % Tickets BY <3>2 DEF TicketInv
    <3> QED BY <1>2, <3>1, <3>3, <3>4
  <2> QED BY <1>11, <2>2, <2>3, <2>4, <2>5, <2>6 DEF TicketInv
<1>12. notify' \in 0 .. Tickets - 1 BY <1>5 DEF Circle
<1> QED BY <1>2, <1>3, <1>5, <1>7, <1>9, <1>10, <1>11, <1>12

(* A goroutine leaves a queue, from wherever it is. *)
LEMMA RemoveOne ==
  ASSUME NEW P, NEW q \in Seq(P), NEW k \in 1 .. Len(q), NoRepeat(q)
  PROVE  LET s == SubSeq(q, 1, k - 1) \o SubSeq(q, k + 1, Len(q))
         IN  s \in Seq(P) /\ NoRepeat(s) /\ \A x : Occurs(x, s) <=> x # q[k] /\ Occurs(x, q)
<1> DEFINE l == SubSeq(q, 1, k - 1)
           r == SubSeq(q, k + 1, Len(q))
           s == l \o r
<1>1. PICK n \in Nat : n = Len(q) OBVIOUS
<1>2. k \in Nat /\ 1 <= k /\ k <= n BY <1>1
<1>3. \A i \in 1 .. n : q[i] \in P BY <1>1
<1>4. l \in Seq(P) /\ Len(l) = k - 1 /\ \A i \in 1 .. k - 1 : l[i] = q[i]
  <2>1. PICK m, b : m = 1 /\ b = k - 1 OBVIOUS
  <2>2. m \in Int /\ b \in Int /\ \A i \in m .. b : q[i] \in P BY <1>2, <1>3, <2>1
  <2>3. /\ SubSeq(q, m, b) \in Seq(P)
        /\ Len(SubSeq(q, m, b)) = IF m <= b THEN b - m + 1 ELSE 0
        /\ \A i \in 1 .. b - m + 1 : SubSeq(q, m, b)[i] = q[m + i - 1]
    BY <2>2, SubSeqProperties
  <2>4. l = SubSeq(q, m, b) BY <2>1
  <2> HIDE DEF l
  <2>5. l \in Seq(P) /\ Len(l) = k - 1 BY <1>2, <2>1, <2>3, <2>4
  <2>6. \A i \in 1 .. k - 1 : m + i - 1 = i /\ i \in 1 .. b - m + 1 BY <1>2, <2>1
  <2>7. \A i \in 1 .. k - 1 : l[i] = q[i] BY <2>3, <2>4, <2>6
  <2> QED BY <2>5, <2>7
<1>5. r \in Seq(P) /\ Len(r) = n - k /\ \A i \in 1 .. n - k : r[i] = q[k + i]
  <2>1. PICK m : m = k + 1 OBVIOUS
  <2>2. m \in Int /\ n \in Int /\ \A i \in m .. n : q[i] \in P BY <1>2, <1>3, <2>1
  <2>3. /\ SubSeq(q, m, n) \in Seq(P)
        /\ Len(SubSeq(q, m, n)) = IF m <= n THEN n - m + 1 ELSE 0
        /\ \A i \in 1 .. n - m + 1 : SubSeq(q, m, n)[i] = q[m + i - 1]
    BY <2>2, SubSeqProperties
  <2>4. r = SubSeq(q, m, n) BY <1>1, <2>1
  <2> HIDE DEF r
  <2>5. r \in Seq(P) /\ Len(r) = n - k BY <1>2, <2>1, <2>3, <2>4
  <2>6. \A i \in 1 .. n - k : m + i - 1 = k + i /\ i \in 1 .. n - m + 1 BY <1>2, <2>1
  <2>7. \A i \in 1 .. n - k : r[i] = q[k + i] BY <2>3, <2>4, <2>6
  <2> QED BY <2>5, <2>7
<1> HIDE DEF l, r
<1>6. /\ s \in Seq(P) /\ Len(s) = n - 1
      /\ \A i \in 1 .. n - 1 : s[i] = IF i < k THEN q[i] ELSE q[i + 1]
  <2>1. /\ s \in Seq(P) /\ Len(s) = Len(l) + Len(r)
        /\ \A i \in 1 .. Len(l) + Len(r) : s[i] = IF i <= Len(l) THEN l[i] ELSE r[i - Len(l)]
    BY <1>4, <1>5, ConcatProperties
  <2> HIDE DEF s
  <2>2. ASSUME NEW i \in 1 .. n - 1 PROVE s[i] = IF i < k THEN q[i] ELSE q[i + 1]
    <3>1. s[i] = IF i <= k - 1 THEN l[i] ELSE r[i - (k - 1)] BY <1>2, <1>4, <1>5, <2>1
    <3>2. CASE i < k BY <1>2, <1>4, <3>1, <3>2
    <3>3. CASE ~(i < k)
      <4>1. i - (k - 1) \in 1 .. n - k BY <1>2, <3>3
      <4>2. r[i - (k - 1)] = q[k + (i - (k - 1))] BY <1>5, <4>1
      <4>3. k + (i - (k - 1)) = i + 1 BY <1>2
      <4> QED BY <1>2, <3>1, <3>3, <4>2, <4>3
    <3> QED BY <3>2, <3>3
  <2> QED BY <1>2, <1>4, <1>5, <2>1, <2>2
<1> HIDE DEF s
<1>7. \A i, j \in 1 .. n : q[i] = q[j] => i = j BY <1>1 DEF NoRepeat
<1>8. NoRepeat(s)
  <2> SUFFICES ASSUME NEW i \in 1 .. n - 1, NEW j \in 1 .. n - 1, s[i] = s[j] PROVE i = j
    BY <1>6 DEF NoRepeat
  <2>1. s[i] = (IF i < k THEN q[i] ELSE q[i + 1]) /\ s[j] = (IF j < k THEN q[j] ELSE q[j + 1])
    BY <1>6
  <2> PICK a, b : a = (IF i < k THEN i ELSE i + 1) /\ b = (IF j < k THEN j ELSE j + 1)
    OBVIOUS
  <2>2. a \in 1 .. n /\ b \in 1 .. n BY <1>2
  <2>3. q[a] = s[i] /\ q[b] = s[j] BY <2>1
  <2>4. a = b BY <1>7, <2>2, <2>3
  <2> QED BY <1>2, <2>4
<1>9. ASSUME NEW x PROVE Occurs(x, s) <=> x # q[k] /\ Occurs(x, q)
  <2>1. ASSUME Occurs(x, s) PROVE x # q[k] /\ Occurs(x, q)
    <3>1. PICK i \in 1 .. n - 1 : s[i] = x BY <1>6, <2>1 DEF Occurs
    <3>2. i \in 1 .. n /\ i + 1 \in 1 .. n /\ k \in 1 .. n BY <1>2
    <3>3. x = IF i < k THEN q[i] ELSE q[i + 1] BY <1>6, <3>1
    <3>4. CASE i < k
      <4>1. x = q[i] /\ i # k BY <1>2, <3>3, <3>4
      <4> QED BY <1>1, <1>7, <3>2, <4>1 DEF Occurs
    <3>5. CASE ~(i < k)
      <4>1. x = q[i + 1] /\ i + 1 # k BY <1>2, <3>3, <3>5
      <4> QED BY <1>1, <1>7, <3>2, <4>1 DEF Occurs
    <3> QED BY <3>4, <3>5
  <2>2. ASSUME x # q[k], Occurs(x, q) PROVE Occurs(x, s)
    <3>1. PICK i \in 1 .. n : q[i] = x BY <1>1, <2>2 DEF Occurs
    <3>2. i # k BY <2>2, <3>1
    <3>3. CASE i < k
      <4>1. i \in 1 .. n - 1 BY <1>2, <3>3
      <4>2. s[i] = x BY <1>6, <3>1, <3>3, <4>1
      <4> QED BY <1>6, <4>1, <4>2 DEF Occurs
    <3>4. CASE ~(i < k)
      <4>1. PICK j : j = i - 1 OBVIOUS
      <4>2. j \in 1 .. n - 1 /\ ~(j < k) /\ j + 1 = i BY <1>2, <3>2, <3>4, <4>1
      <4>3. s[j] = x BY <1>6, <3>1, <4>2
      <4> QED BY <1>6, <4>2, <4>3 DEF Occurs
    <3> QED BY <3>3, <3>4
  <2> QED BY <2>1, <2>2
<1>10. s \in Seq(P) BY <1>6
<1> QED BY <1>8, <1>9, <1>10 DEF s, l, r

(* The waiter of the next ticket is notified, and readied if it sleeps.       *)
LEMMA Taking ==
  ASSUME IInv, NEW p \in Procs, Notifying(p), OneTake(p)
  PROVE  /\ IInv' /\ Inside' = Inside /\ Ahead' = Ahead - 1 /\ nst[p] = "oneLock"
         /\ nst'[p] \notin Calls /\ \A q \in Procs : q # p => nst'[q] = nst[q]
         /\ \E h \in Unnotified : gap[h] = 0 /\ Unnotified' = Unnotified \ {h}
         /\ \A q \in Unnotified' : gap'[q] = gap[q] + 1
<1> USE DEF IInv
<1>1. /\ nst[p] = "oneLock" /\ nst' = [nst EXCEPT ![p] = nst'[p]]
      /\ nst'[p] \in {"idle", "readying"} /\ notify # wait /\ Advance(1)
      /\ UNCHANGED << wait, ticket, seen, holder, cpc >>
      /\ owed' = [q \in Procs |-> IF nst'[q] \in Calls THEN owed[q] \cap Unnotified' ELSE {}]
  <2>1. nst \in [Procs -> NStates] BY DEF TypeInv
  <2>2. nst[p] = "oneLock" /\ nst' = [nst EXCEPT ![p] = nst'[p]] /\ nst'[p] \in {"idle", "readying"}
    BY <2>1 DEF OneTake, NGoto
  <2>3. notify # wait /\ Advance(1) /\ UNCHANGED << wait, ticket, seen >> BY DEF OneTake
  <2> QED BY <2>2, <2>3 DEF Notifying, Calls
<1>2. /\ nst \in [Procs -> NStates] /\ list \in Seq(Procs) /\ batch \in [Procs -> Seq(Procs)]
      /\ owed \in [Procs -> SUBSET Procs] /\ notify \in Circle
  BY DEF TypeInv, Circle
<1>3. \A q \in Procs : q # p => nst'[q] = nst[q] BY <1>1, <1>2
<1>4. /\ Inside \in SUBSET Procs /\ Unnotified \in SUBSET Procs
      /\ Ahead \in Nat /\ (Ahead = 0 <=> wait = notify)
      /\ \A q \in Unnotified : /\ gap[q] \in Int /\ -Tickets < gap[q] /\ gap[q] <= 0
                               /\ -gap[q] < Ahead /\ nst[q] \in Waits
                               /\ ticket[q] = (notify - gap[q]) % Tickets
  BY GapFacts
<1>5. PICK h \in Unnotified : gap[h] = 0
  <2> PICK z : z = 0 OBVIOUS
  <2>1. z \in 0 .. Ahead - 1 BY <1>1, <1>4
  <2>2. PICK q \in Unnotified : gap[q] = -z BY <2>1 DEF TicketInv
  <2> QED BY <2>2
<1>6. /\ Inside' = Inside /\ Ahead' = Ahead - 1
      /\ notify' \in 0 .. Tickets - 1 /\ notify' = (notify + 1) % Tickets
      /\ gap' \in [Procs -> Int]
      /\ \A q \in Procs : q \in Unnotified' <=> q \in Unnotified /\ gap[q] + 1 <= 0
      /\ \A q \in Unnotified' : gap'[q] = gap[q] + 1
      /\ Ahead' = Cardinality(Unnotified') => TicketInv'
  <2> PICK n : n = 1 OBVIOUS
  <2>1. \A q \in Procs : /\ nst'[q] = "ticket" <=> nst[q] = "ticket"
                         /\ nst'[q] = "parked" <=> nst[q] = "parked"
    BY <1>1, <1>3
  <2>2. n \in 0 .. Ahead BY <1>1, <1>4
  <2>3. Advance(n) BY <1>1
  <2>4. UNCHANGED << wait, ticket >> BY <1>1
  <2>5. /\ Inside' = Inside /\ Ahead' = Ahead - n
        /\ notify' \in 0 .. Tickets - 1 /\ notify' = (notify + n) % Tickets
        /\ gap' \in [Procs -> Int]
        /\ \A q \in Procs : q \in Unnotified' <=> q \in Unnotified /\ gap[q] + n <= 0
        /\ \A q \in Unnotified' : gap'[q] = gap[q] + n
        /\ Ahead' = Cardinality(Unnotified') => TicketInv'
    BY <2>1, <2>2, <2>3, <2>4, Advancing
  <2> QED BY <2>5
<1>7. Unnotified' = Unnotified \ {h}
  <2>1. \A q \in Unnotified : q # h => gap[q] + 1 <= 0
    <3> SUFFICES ASSUME NEW q \in Unnotified, q # h PROVE gap[q] + 1 <= 0 OBVIOUS
    <3>1. gap[q] # 0 BY <1>5 DEF TicketInv
    <3>2. gap[q] \in Int /\ gap[q] <= 0 BY <1>4
    <3> QED BY <3>1, <3>2
  <2>2. ~(gap[h] + 1 <= 0) BY <1>5
  <2>3. Unnotified' \in SUBSET Procs BY DEF Unnotified, Inside
  <2>4. \A q \in Procs : q \in Unnotified' <=> q \in Unnotified /\ q # h BY <1>5, <1>6, <2>1, <2>2
  <2> QED BY <1>4, <2>3, <2>4
<1>8. TicketInv'
  <2>1. h \in Procs /\ h \in Unnotified BY <1>4, <1>5
  <2>2. Cardinality(Unnotified \ {h}) = Cardinality(Unnotified) - 1
    BY <1>4, <2>1, Countable, FS_RemoveElement
  <2>3. Ahead = Cardinality(Unnotified) BY DEF TicketInv
  <2> QED BY <1>6, <1>7, <2>2, <2>3
<1>9. ASSUME NEW q \in Unnotified PROVE ticket[q] = notify <=> q = h
  <2> PICK y, g : y = notify /\ g = gap[q] OBVIOUS
  <2>1. /\ y \in Circle /\ g \in Int /\ -Tickets < g /\ g <= 0
        /\ ticket[q] = (y - g) % Tickets
    BY <1>2, <1>4
  <2>2. CASE q = h
    <3>1. g = 0 BY <1>5, <2>2
    <3>2. g <= Tickets \div 2 BY <3>1, Half
    <3>3. (y - g) % Tickets = IF y - g < 0 THEN y - g + Tickets
                              ELSE IF y - g < Tickets THEN y - g ELSE y - g - Tickets
      BY <2>1, <3>2, Behind
    <3>4. (y - g) % Tickets = y BY <2>1, <3>1, <3>3, Half DEF Circle
    <3> QED BY <2>1, <2>2, <3>4
  <2>3. CASE q # h
    <3>1. g # 0 BY <1>5, <2>3 DEF TicketInv
    <3>2. (y - g) % Tickets # y BY <2>1, <3>1, TheTicket
    <3> QED BY <2>1, <2>3, <3>2
  <2> QED BY <2>2, <2>3
<1>10. ASSUME NEW k \in 1 .. Len(list) PROVE list[k] \in Unnotified /\ nst[list[k]] = "parked"
  <2>1. list[k] \in Procs BY <1>2
  <2>2. Occurs(list[k], list) BY DEF Occurs
  <2> QED BY <2>1, <2>2 DEF SleepInv
<1>11. batch[p] = << >> BY <1>1 DEF PlaceInv
<1>12. \/ /\ nst'[p] = "idle" /\ nst[h] = "ticket" /\ UNCHANGED << list, batch >>
       \/ /\ nst'[p] = "readying" /\ nst[h] = "parked" /\ batch' = [batch EXCEPT ![p] = << h >>]
          /\ list' \in Seq(Procs) /\ NoRepeat(list')
          /\ \A x : Occurs(x, list') <=> x # h /\ Occurs(x, list)
  <2>1. CASE \E k \in DOMAIN list :
               /\ ticket[list[k]] = notify /\ \A j \in 1 .. k - 1 : ticket[list[j]] # notify
               /\ list' = SubSeq(list, 1, k - 1) \o SubSeq(list, k + 1, Len(list))
               /\ batch' = [batch EXCEPT ![p] = << list[k] >>]
               /\ NGoto(p, "oneLock", "readying")
    <3>1. PICK k \in DOMAIN list :
               /\ ticket[list[k]] = notify
               /\ list' = SubSeq(list, 1, k - 1) \o SubSeq(list, k + 1, Len(list))
               /\ batch' = [batch EXCEPT ![p] = << list[k] >>]
               /\ NGoto(p, "oneLock", "readying")
      BY <2>1
    <3>2. k \in 1 .. Len(list) BY <1>2, <3>1
    <3>3. list[k] = h /\ nst[h] = "parked" BY <1>9, <1>10, <3>1, <3>2
    <3>4. NoRepeat(list) BY DEF SleepInv
    <3> PICK s : s = list OBVIOUS
    <3>5. s \in Seq(Procs) /\ k \in 1 .. Len(s) /\ NoRepeat(s) BY <1>2, <3>2, <3>4
    <3> DEFINE t == SubSeq(s, 1, k - 1) \o SubSeq(s, k + 1, Len(s))
    <3>6. t \in Seq(Procs) /\ NoRepeat(t) /\ \A x : Occurs(x, t) <=> x # s[k] /\ Occurs(x, s)
      BY <3>5, RemoveOne
    <3>7. list' = t BY <3>1
    <3> HIDE DEF t
    <3>8. nst'[p] = "readying" BY <1>2, <3>1 DEF NGoto
    <3> QED BY <3>1, <3>3, <3>6, <3>7, <3>8
  <2>2. CASE /\ \A k \in DOMAIN list : ticket[list[k]] # notify
             /\ NGoto(p, "oneLock", "idle")
             /\ UNCHANGED << list, batch >>
    <3>1. ticket[h] = notify /\ h \in Procs BY <1>4, <1>5, <1>9
    <3>2. ~Occurs(h, list)
      <4>1. DOMAIN list = 1 .. Len(list) BY <1>2
      <4> QED BY <2>2, <3>1, <4>1 DEF Occurs
    <3>3. nst[h] # "parked" BY <1>5, <3>1, <3>2 DEF SleepInv
    <3>4. nst[h] = "ticket" BY <1>4, <1>5, <3>3 DEF Waits
    <3>5. nst'[p] = "idle" BY <1>2, <2>2 DEF NGoto
    <3> QED BY <2>2, <3>4, <3>5
  <2> QED BY <2>1, <2>2 DEF OneTake
<1>13. h \in Procs /\ h # p
  <2>1. h \in Procs /\ nst[h] \in Waits BY <1>4, <1>5
  <2> QED BY <1>1, <2>1 DEF Waits
<1>14. batch'[p] \in {<< >>, << h >>} /\ batch' = [batch EXCEPT ![p] = batch'[p]]
  BY <1>2, <1>11, <1>12
<1>15. TypeInv'
  <2>1. nst' \in [Procs -> NStates] BY <1>1, <1>2 DEF NStates
  <2>2. << >> \in Seq(Procs) /\ << h >> \in Seq(Procs) BY <1>13
  <2>3. batch' \in [Procs -> Seq(Procs)] BY <1>2, <1>14, <2>2
  <2>4. list' \in Seq(Procs) BY <1>2, <1>12
  <2>5. Unnotified' \in SUBSET Procs BY DEF Unnotified, Inside
  <2>6. owed' \in [Procs -> SUBSET Procs] BY <1>1, <2>5
  <2> QED BY <1>1, <1>6, <2>1, <2>3, <2>4, <2>6 DEF TypeInv
<1>16. \A q \in Procs : q # p => batch'[q] = batch[q] BY <1>2, <1>14
<1>17. PlaceInv'
  <2>1. nst'[p] # "readying" => batch'[p] = << >> BY <1>11, <1>12
  <2>2. \A q \in Procs : owed[q] = {} => owed'[q] = {} BY <1>1
  <2>3. \A q \in Procs : /\ nst'[q] = "ticket" <=> nst[q] = "ticket"
                         /\ nst'[q] = "parked" <=> nst[q] = "parked"
                         /\ nst[q] \in {"parked", "idle"} => nst'[q] \in {"parked", "idle"}
                         /\ nst'[q] # "readying" => batch'[q] = << >>
                         /\ nst'[q] \notin Calls => owed'[q] = {}
    BY <1>1, <1>3, <1>16, <2>1 DEF PlaceInv
  <2> QED BY <1>1, <2>3 DEF PlaceInv
<1>18. SleepInv'
  <2>1. \A q \in Procs : nst'[q] = "parked" <=> nst[q] = "parked" BY <1>1, <1>3
  <2>2. \A q \in Procs : ~Occurs(h, batch[q]) BY <1>5, <1>13 DEF SleepInv
  <2>3. CASE nst[h] = "ticket"
    <3>1. UNCHANGED << list, batch >> BY <1>12, <2>3
    <3>2. \A q \in Procs : nst'[q] = "parked" => q # h /\ nst[q] = "parked" BY <2>1, <2>3
    <3>3. \A q \in Procs : nst[q] = "parked" => (q \in Unnotified' <=> q \in Unnotified)
      BY <1>7, <2>3
    <3> QED BY <2>1, <3>1, <3>3 DEF SleepInv
  <2>4. CASE nst[h] = "parked"
    <3>1. /\ batch' = [batch EXCEPT ![p] = << h >>] /\ NoRepeat(list')
          /\ \A x : Occurs(x, list') <=> x # h /\ Occurs(x, list)
      BY <1>12, <2>4
    <3>2. batch'[p] = << h >> BY <1>2, <3>1
    <3>3. (\A x : Occurs(x, << h >>) <=> x = h) /\ NoRepeat(<< h >>) BY DEF Occurs, NoRepeat
    <3>4. \A x : ~Occurs(x, batch[p]) BY <1>11 DEF Occurs
    <3>5. \A q \in Procs : NoRepeat(batch'[q]) BY <1>16, <3>2, <3>3 DEF SleepInv
    <3>6. \A q, r \in Procs : Occurs(q, batch'[r]) <=> Occurs(q, batch[r]) \/ (q = h /\ r = p)
      <4> SUFFICES ASSUME NEW q \in Procs, NEW r \in Procs
                   PROVE  Occurs(q, batch'[r]) <=> Occurs(q, batch[r]) \/ (q = h /\ r = p)
        OBVIOUS
      <4>1. CASE r = p
        <5>1. Occurs(q, batch'[p]) <=> q = h BY <3>2, <3>3
        <5>2. ~Occurs(q, batch[p]) BY <3>4
        <5> QED BY <4>1, <5>1, <5>2
      <4>2. CASE r # p
        <5>1. batch'[r] = batch[r] BY <1>16, <4>2
        <5> QED BY <4>2, <5>1
      <4> QED BY <4>1, <4>2
    <3>7. \A q \in Procs : Occurs(q, list') <=> nst'[q] = "parked" /\ q \in Unnotified'
      BY <1>7, <2>1, <3>1 DEF SleepInv
    <3>8. \A q, r \in Procs : Occurs(q, batch'[r]) => nst'[q] = "parked" /\ q \notin Unnotified'
      BY <1>7, <2>1, <2>4, <3>6 DEF SleepInv
    <3>9. \A q \in Procs : nst'[q] = "parked" /\ q \notin Unnotified' =>
            \E r \in Procs : Occurs(q, batch'[r])
      <4> SUFFICES ASSUME NEW q \in Procs, nst'[q] = "parked", q \notin Unnotified'
                   PROVE  \E r \in Procs : Occurs(q, batch'[r])
        OBVIOUS
      <4>1. CASE q = h BY <3>6, <4>1
      <4>2. CASE q # h
        <5>1. nst[q] = "parked" /\ q \notin Unnotified BY <1>7, <2>1, <4>2
        <5>2. PICK r \in Procs : Occurs(q, batch[r]) BY <5>1 DEF SleepInv
        <5> QED BY <3>6, <5>2
      <4> QED BY <4>1, <4>2
    <3>10. \A q, r, s \in Procs : Occurs(q, batch'[r]) /\ Occurs(q, batch'[s]) => r = s
      BY <2>2, <3>6 DEF SleepInv
    <3> QED BY <3>1, <3>5, <3>7, <3>8, <3>9, <3>10 DEF SleepInv
  <2> QED BY <1>12, <2>3, <2>4
<1>19. OwedInv'
  <2> SUFFICES ASSUME NEW q \in Procs
               PROVE  /\ owed'[q] \subseteq Unnotified'
                      /\ nst'[q] \in {"one", "all"} /\ owed'[q] # {} =>
                           \E e \in 1 .. Ahead' : /\ seen'[q] = (notify' + e) % Tickets
                                                  /\ \A r \in owed'[q] : -gap'[r] < e
    BY DEF OwedInv
  <2>1. owed'[q] \subseteq Unnotified' /\ owed'[q] \subseteq owed[q] BY <1>1
  <2>2. ASSUME nst'[q] \in {"one", "all"}, owed'[q] # {}
        PROVE  \E e \in 1 .. Ahead' : /\ seen'[q] = (notify' + e) % Tickets
                                      /\ \A r \in owed'[q] : -gap'[r] < e
    <3>1. q # p /\ nst[q] \in {"one", "all"} /\ owed[q] # {} BY <1>1, <1>3, <2>1, <2>2
    <3>2. PICK e \in 1 .. Ahead : /\ seen[q] = (notify + e) % Tickets
                                  /\ \A r \in owed[q] : -gap[r] < e
      BY <3>1 DEF OwedInv
    <3> PICK far, y, a : far = e - 1 /\ y = notify /\ a = Ahead OBVIOUS
    <3>3. \A r \in owed'[q] : -gap'[r] < far /\ 0 < far
      <4> SUFFICES ASSUME NEW r \in owed'[q] PROVE -gap'[r] < far /\ 0 < far OBVIOUS
      <4>1. r \in Unnotified /\ gap'[r] = gap[r] + 1 /\ gap[r] + 1 <= 0 /\ -gap[r] < e
        <5>1. r \in Unnotified' /\ r \in Procs BY <1>4, <1>7, <2>1
        <5> QED BY <1>6, <2>1, <3>2, <5>1
      <4>2. gap[r] \in Int BY <1>4, <4>1
      <4> QED BY <4>1, <4>2
    <3>4. 0 < far BY <2>2, <3>3
    <3>5. far \in 1 .. Ahead' BY <1>4, <1>6, <3>2, <3>4
    <3>6. seen'[q] = (notify' + far) % Tickets
      <4>1. y \in Circle /\ a \in Nat /\ a \in Circle /\ e \in 1 .. a /\ 0 < e - 1
        BY <1>2, <3>2, <3>4, GapFacts
      <4>2. e \in Circle /\ e \in Nat /\ 1 \in Circle /\ far \in Circle /\ far = e - 1
        BY <4>1, Half DEF Circle
      <4>3. (y + e) % Tickets = IF y + e < Tickets THEN y + e ELSE y + e - Tickets
        BY <4>1, <4>2, Advanced
      <4> PICK one, z : one = 1 /\ z = notify' OBVIOUS
      <4>4. (y + one) % Tickets = IF y + one < Tickets THEN y + one ELSE y + one - Tickets
        BY <4>1, <4>2, Advanced
      <4>5. z \in Circle /\ z = (y + one) % Tickets BY <1>6 DEF Circle
      <4>6. (z + far) % Tickets = IF z + far < Tickets THEN z + far ELSE z + far - Tickets
        BY <4>2, <4>5, Advanced
      <4>7. (z + far) % Tickets = (y + e) % Tickets
        BY <4>1, <4>2, <4>3, <4>4, <4>5, <4>6, Half DEF Circle
      <4> QED BY <1>1, <3>2, <4>7
    <3>7. \A r \in owed'[q] : -gap'[r] < far BY <3>3
    <3> QED BY <3>5, <3>6, <3>7
  <2> QED BY <2>1, <2>2
<1>20. nst'[p] \notin Calls BY <1>1 DEF Calls
<1> QED BY <1>1, <1>3, <1>5, <1>6, <1>7, <1>8, <1>15, <1>17, <1>18, <1>19, <1>20

(* All tickets are notified, and those that sleep are to be readied.          *)
LEMMA TakingAll ==
  ASSUME IInv, NEW p \in Procs, Notifying(p), AllTake(p)
  PROVE  /\ IInv' /\ Inside' = Inside /\ Unnotified' = {} /\ nst[p] = "allLock"
         /\ nst'[p] \notin Calls /\ \A q \in Procs : q # p => nst'[q] = nst[q]
<1> USE DEF IInv
<1>1. /\ nst[p] = "allLock" /\ nst' = [nst EXCEPT ![p] = "readying"] /\ Advance(Ahead)
      /\ list' = << >> /\ batch' = [batch EXCEPT ![p] = list]
      /\ UNCHANGED << wait, ticket, seen, holder, cpc >>
      /\ owed' = [q \in Procs |-> IF nst'[q] \in Calls THEN owed[q] \cap Unnotified' ELSE {}]
  BY DEF AllTake, NGoto, Notifying, Calls
<1>2. /\ nst \in [Procs -> NStates] /\ list \in Seq(Procs) /\ batch \in [Procs -> Seq(Procs)]
      /\ owed \in [Procs -> SUBSET Procs]
  BY DEF TypeInv
<1>3. nst'[p] = "readying" /\ \A q \in Procs : q # p => nst'[q] = nst[q] BY <1>1, <1>2
<1>4. \A q \in Procs : /\ nst'[q] = "ticket" <=> nst[q] = "ticket"
                       /\ nst'[q] = "parked" <=> nst[q] = "parked"
  BY <1>1, <1>3
<1>5. /\ Ahead \in Nat
      /\ \A q \in Unnotified : gap[q] \in Int /\ gap[q] <= 0 /\ -gap[q] < Ahead
  BY GapFacts
<1>6. /\ Inside' = Inside /\ Ahead' = 0 /\ notify' \in 0 .. Tickets - 1
      /\ gap' \in [Procs -> Int]
      /\ \A q \in Procs : q \in Unnotified' <=> q \in Unnotified /\ gap[q] + Ahead <= 0
      /\ Ahead' = Cardinality(Unnotified') => TicketInv'
  <2> PICK n : n = Ahead OBVIOUS
  <2>1. n \in 0 .. Ahead /\ Advance(n) /\ UNCHANGED << wait, ticket >> BY <1>1, <1>5
  <2>2. /\ Inside' = Inside /\ Ahead' = Ahead - n /\ notify' \in 0 .. Tickets - 1
        /\ gap' \in [Procs -> Int]
        /\ \A q \in Procs : q \in Unnotified' <=> q \in Unnotified /\ gap[q] + n <= 0
        /\ Ahead' = Cardinality(Unnotified') => TicketInv'
    BY <1>4, <2>1, Advancing
  <2> QED BY <1>5, <2>2
<1>7. Unnotified' = {}
  <2>1. Unnotified' \in SUBSET Procs BY DEF Unnotified, Inside
  <2>2. \A q \in Unnotified : ~(gap[q] + Ahead <= 0) BY <1>5
  <2> QED BY <1>6, <2>1, <2>2
<1>8. TicketInv' BY <1>6, <1>7, FS_EmptySet
<1>9. TypeInv'
  <2>1. nst' \in [Procs -> NStates] BY <1>1, <1>2 DEF NStates
  <2>2. batch' \in [Procs -> Seq(Procs)] /\ list' \in Seq(Procs) BY <1>1, <1>2
  <2>3. owed' \in [Procs -> SUBSET Procs] BY <1>1, <1>7
  <2> QED BY <1>1, <1>6, <2>1, <2>2, <2>3 DEF TypeInv
<1>10. batch'[p] = list /\ \A q \in Procs : q # p => batch'[q] = batch[q] BY <1>1, <1>2
<1>11. PlaceInv'
  <2>1. \A q \in Procs : /\ nst[q] \in {"parked", "idle"} => nst'[q] \in {"parked", "idle"}
                         /\ nst'[q] # "readying" => batch'[q] = << >>
                         /\ owed'[q] = {}
    BY <1>1, <1>3, <1>7, <1>10 DEF PlaceInv
  <2> QED BY <1>1, <1>4, <2>1 DEF PlaceInv
<1>12. SleepInv'
  <2>1. batch[p] = << >> BY <1>1 DEF PlaceInv
  <2>2. (\A x : ~Occurs(x, << >>)) /\ NoRepeat(<< >>) BY DEF Occurs, NoRepeat
  <2>3. \A q, r \in Procs : Occurs(q, batch'[r]) <=> (Occurs(q, batch[r]) \/ (Occurs(q, list) /\ r = p))
    <3> SUFFICES ASSUME NEW q \in Procs, NEW r \in Procs
                 PROVE  Occurs(q, batch'[r]) <=> (Occurs(q, batch[r]) \/ (Occurs(q, list) /\ r = p))
      OBVIOUS
    <3>1. CASE r = p BY <1>10, <2>1, <2>2, <3>1
    <3>2. CASE r # p BY <1>10, <3>2
    <3> QED BY <3>1, <3>2
  <2>4. NoRepeat(list') /\ \A q \in Procs : NoRepeat(batch'[q])
    BY <1>1, <1>10, <2>2 DEF SleepInv
  <2>5. \A q \in Procs : ~Occurs(q, list') BY <1>1, <2>2
  <2>6. \A q, r \in Procs : Occurs(q, batch'[r]) => nst'[q] = "parked"
    BY <1>4, <2>3 DEF SleepInv
  <2>7. \A q \in Procs : nst'[q] = "parked" => \E r \in Procs : Occurs(q, batch'[r])
    <3> SUFFICES ASSUME NEW q \in Procs, nst'[q] = "parked"
                 PROVE  \E r \in Procs : Occurs(q, batch'[r])
      OBVIOUS
    <3>1. nst[q] = "parked" BY <1>4
    <3>2. CASE q \in Unnotified
      <4>1. Occurs(q, list) BY <3>1, <3>2 DEF SleepInv
      <4> QED BY <2>3, <4>1
    <3>3. CASE q \notin Unnotified
      <4>1. PICK r \in Procs : Occurs(q, batch[r]) BY <3>1, <3>3 DEF SleepInv
      <4> QED BY <2>3, <4>1
    <3> QED BY <3>2, <3>3
  <2>8. \A q, r, s \in Procs : Occurs(q, batch'[r]) /\ Occurs(q, batch'[s]) => r = s
    <3>1. \A q, r \in Procs : Occurs(q, batch[r]) => ~Occurs(q, list) BY DEF SleepInv
    <3> QED BY <2>3, <3>1 DEF SleepInv
  <2> QED BY <1>7, <2>4, <2>5, <2>6, <2>7, <2>8 DEF SleepInv
<1>13. OwedInv'
  <2>1. \A q \in Procs : owed'[q] = {} BY <1>1, <1>7
  <2> QED BY <2>1 DEF OwedInv
<1>14. nst'[p] \notin Calls BY <1>3 DEF Calls
<1> QED BY <1>1, <1>3, <1>6, <1>7, <1>8, <1>9, <1>11, <1>12, <1>13, <1>14

(* A notifier readies one of its batch.                                       *)
LEMMA Readying ==
  ASSUME IInv, NEW p \in Procs, Notifying(p), ReadyOne(p)
  PROVE  /\ IInv' /\ Unnotified' = Unnotified /\ owed' = owed
         /\ \A q \in Procs : nst[q] \in Calls \/ nst'[q] \in Calls => nst'[q] = nst[q]
         /\ \A q \in Unnotified : gap'[q] = gap[q]
         /\ \E h \in Procs : /\ nst[h] = "parked" /\ h \notin Unnotified
                             /\ Inside' = Inside \ {h}
<1> USE DEF IInv
<1> DEFINE h == Head(batch[p])
<1>1. /\ nst[p] = "readying" /\ batch[p] # << >> /\ nst' = [nst EXCEPT ![h] = "idle"]
      /\ ticket' = [ticket EXCEPT ![h] = 0] /\ gap' = [gap EXCEPT ![h] = 0]
      /\ batch' = [batch EXCEPT ![p] = Tail(batch[p])]
      /\ UNCHANGED << wait, notify, list, seen, holder, cpc >>
      /\ owed' = [q \in Procs |-> IF nst'[q] \in Calls THEN owed[q] \cap Unnotified' ELSE {}]
  BY DEF ReadyOne, Forget, Notifying, Calls
<1>2. /\ nst \in [Procs -> NStates] /\ batch \in [Procs -> Seq(Procs)]
      /\ ticket \in [Procs -> 0 .. Tickets - 1] /\ gap \in [Procs -> Int]
      /\ owed \in [Procs -> SUBSET Procs]
  BY DEF TypeInv
<1>3. /\ h \in Procs /\ Tail(batch[p]) \in Seq(Procs) /\ Occurs(h, batch[p])
      /\ \A x : Occurs(x, batch[p]) <=> x = h \/ Occurs(x, Tail(batch[p]))
      /\ NoRepeat(batch[p]) => NoRepeat(Tail(batch[p])) /\ ~Occurs(h, Tail(batch[p]))
  <2> PICK s : s = batch[p] OBVIOUS
  <2>1. s \in Seq(Procs) /\ s # << >> BY <1>1, <1>2
  <2>2. /\ Head(s) \in Procs /\ Tail(s) \in Seq(Procs) /\ Occurs(Head(s), s)
        /\ \A x : Occurs(x, s) <=> x = Head(s) \/ Occurs(x, Tail(s))
        /\ NoRepeat(s) => NoRepeat(Tail(s)) /\ ~Occurs(Head(s), Tail(s))
    BY <2>1, TailRest
  <2> QED BY <2>2
<1> HIDE DEF h
<1>4. nst[h] = "parked" /\ h \notin Unnotified BY <1>3 DEF SleepInv
<1>5. /\ nst'[h] = "idle" /\ \A q \in Procs : q # h => /\ nst'[q] = nst[q] /\ gap'[q] = gap[q]
                                                       /\ ticket'[q] = ticket[q]
  BY <1>1, <1>2, <1>3
<1>6. Inside' = Inside \ {h} BY <1>3, <1>5 DEF Inside
<1>7. Unnotified' = Unnotified BY <1>4, <1>5, <1>6 DEF Unnotified, Inside
<1>8. Ahead' = Ahead BY <1>1 DEF Ahead
<1>9. \A q \in Procs : nst[q] \in Calls \/ nst'[q] \in Calls => nst'[q] = nst[q]
  BY <1>4, <1>5 DEF Calls
<1>10. owed' = owed
  <2>1. \A q \in Procs : owed'[q] = owed[q]
    <3> SUFFICES ASSUME NEW q \in Procs PROVE owed'[q] = owed[q] OBVIOUS
    <3>1. CASE nst'[q] \in Calls
      <4>1. owed[q] \subseteq Unnotified BY DEF OwedInv
      <4> QED BY <1>1, <1>7, <3>1, <4>1
    <3>2. CASE nst'[q] \notin Calls
      <4>1. owed[q] = {} BY <1>9, <3>2 DEF PlaceInv
      <4> QED BY <1>1, <3>2, <4>1
    <3> QED BY <3>1, <3>2
  <2> QED BY <1>1, <1>2, <2>1
<1>11. TypeInv'
  <2>1. nst' \in [Procs -> NStates] BY <1>1, <1>2 DEF NStates
  <2>2. ticket' \in [Procs -> 0 .. Tickets - 1] BY <1>1, <1>2, <1>3, Half
  <2>3. gap' \in [Procs -> Int] BY <1>1, <1>2, <1>3
  <2>4. batch' \in [Procs -> Seq(Procs)] BY <1>1, <1>2, <1>3
  <2> QED BY <1>1, <1>10, <2>1, <2>2, <2>3, <2>4 DEF TypeInv
<1>12. batch'[p] = Tail(batch[p]) /\ \A q \in Procs : q # p => batch'[q] = batch[q]
  BY <1>1, <1>2
<1>13. h # p BY <1>1, <1>4
<1>14. PlaceInv'
  <2>1. \A q \in Procs : nst'[q] = "ticket" <=> nst[q] = "ticket" BY <1>4, <1>5
  <2>2. \A q \in Procs : nst'[q] = "parked" => nst[q] = "parked" BY <1>5
  <2>3. \A q \in Procs : nst[q] \in {"parked", "idle"} => nst'[q] \in {"parked", "idle"}
    BY <1>5
  <2>4. \A q \in Procs : nst'[q] # "readying" => batch'[q] = << >>
    <3> SUFFICES ASSUME NEW q \in Procs, nst'[q] # "readying" PROVE batch'[q] = << >> OBVIOUS
    <3>1. q # p BY <1>1, <1>5, <1>13
    <3>2. nst[q] # "readying" BY <1>4, <1>5
    <3> QED BY <1>12, <3>1, <3>2 DEF PlaceInv
  <2>5. \A q \in Procs : nst'[q] \notin Calls => owed'[q] = {} BY <1>9, <1>10 DEF PlaceInv
  <2> QED BY <1>1, <2>1, <2>2, <2>3, <2>4, <2>5 DEF PlaceInv
<1>15. TicketInv'
  <2>1. \A q \in Unnotified : gap'[q] = gap[q] /\ ticket'[q] = ticket[q] /\ q \in Procs
    BY <1>4, <1>5 DEF Unnotified, Inside
  <2>2. /\ Ahead' = Cardinality(Unnotified')
        /\ \A q \in Unnotified' : -gap'[q] \in 0 .. Ahead' - 1
        /\ \A k \in 0 .. Ahead' - 1 : \E q \in Unnotified' : gap'[q] = -k
        /\ \A q, r \in Unnotified' : gap'[q] = gap'[r] => q = r
    BY <1>7, <1>8, <2>1 DEF TicketInv
  <2>3. \A q \in Procs :
          \/ q \in Unnotified'
          \/ nst'[q] = "ticket" /\ gap'[q] \in 1 .. MaxGap
          \/ nst'[q] = "parked" /\ gap'[q] = 1
          \/ nst'[q] \notin Waits
    <3> SUFFICES ASSUME NEW q \in Procs
                 PROVE  \/ q \in Unnotified'
                        \/ nst'[q] = "ticket" /\ gap'[q] \in 1 .. MaxGap
                        \/ nst'[q] = "parked" /\ gap'[q] = 1
                        \/ nst'[q] \notin Waits
      OBVIOUS
    <3>1. CASE q = h BY <1>5, <3>1 DEF Waits
    <3>2. CASE q # h BY <1>5, <1>7, <3>2 DEF TicketInv
    <3> QED BY <3>1, <3>2
  <2>4. \A q \in Procs : q \in Unnotified' \/ nst'[q] = "ticket" =>
          ticket'[q] = (notify' - gap'[q]) % Tickets
    <3> SUFFICES ASSUME NEW q \in Procs, q \in Unnotified' \/ nst'[q] = "ticket"
                 PROVE  ticket'[q] = (notify' - gap'[q]) % Tickets
      OBVIOUS
    <3>1. q # h BY <1>4, <1>5, <1>7
    <3>2. /\ gap'[q] = gap[q] /\ ticket'[q] = ticket[q] /\ notify' = notify
          /\ q \in Unnotified \/ nst[q] = "ticket"
      BY <1>1, <1>5, <1>7, <3>1
    <3> QED BY <3>2 DEF TicketInv
  <2> QED BY <2>2, <2>3, <2>4 DEF TicketInv
<1>16. SleepInv'
  <2>1. \A q, r \in Procs : Occurs(q, batch'[r]) <=> (Occurs(q, batch[r]) /\ q # h)
    <3> SUFFICES ASSUME NEW q \in Procs, NEW r \in Procs
                 PROVE  Occurs(q, batch'[r]) <=> (Occurs(q, batch[r]) /\ q # h)
      OBVIOUS
    <3>1. CASE r = p
      <4>1. NoRepeat(batch[p]) BY DEF SleepInv
      <4>2. ~Occurs(h, Tail(batch[p])) BY <1>3, <4>1
      <4>3. Occurs(q, batch[p]) <=> q = h \/ Occurs(q, Tail(batch[p])) BY <1>3
      <4> QED BY <1>12, <3>1, <4>2, <4>3
    <3>2. CASE r # p
      <4>1. batch'[r] = batch[r] BY <1>12, <3>2
      <4>2. ~Occurs(h, batch[r]) BY <1>3, <3>2 DEF SleepInv
      <4> QED BY <4>1, <4>2
    <3> QED BY <3>1, <3>2
  <2>2. \A q \in Procs : nst'[q] = "parked" <=> (nst[q] = "parked" /\ q # h) BY <1>5
  <2>3. NoRepeat(list') /\ \A q \in Procs : NoRepeat(batch'[q])
    <3>1. \A q \in Procs : NoRepeat(batch[q]) BY DEF SleepInv
    <3>2. NoRepeat(Tail(batch[p])) BY <1>3, <3>1
    <3> QED BY <1>1, <1>12, <3>1, <3>2 DEF SleepInv
  <2>4. \A q \in Procs : Occurs(q, list') <=> nst'[q] = "parked" /\ q \in Unnotified'
    BY <1>1, <1>4, <1>7, <2>2 DEF SleepInv
  <2>5. \A q, r \in Procs : Occurs(q, batch'[r]) => nst'[q] = "parked" /\ q \notin Unnotified'
    BY <1>7, <2>1, <2>2 DEF SleepInv
  <2>6. \A q \in Procs : nst'[q] = "parked" /\ q \notin Unnotified' =>
          \E r \in Procs : Occurs(q, batch'[r])
    <3> SUFFICES ASSUME NEW q \in Procs, nst'[q] = "parked", q \notin Unnotified'
                 PROVE  \E r \in Procs : Occurs(q, batch'[r])
      OBVIOUS
    <3>1. nst[q] = "parked" /\ q \notin Unnotified /\ q # h BY <1>7, <2>2
    <3>2. PICK r \in Procs : Occurs(q, batch[r]) BY <3>1 DEF SleepInv
    <3> QED BY <2>1, <3>1, <3>2
  <2>7. \A q, r, s \in Procs : Occurs(q, batch'[r]) /\ Occurs(q, batch'[s]) => r = s
    BY <2>1 DEF SleepInv
  <2> QED BY <2>3, <2>4, <2>5, <2>6, <2>7 DEF SleepInv
<1>17. OwedInv'
  <2>1. \A q \in Procs : owed[q] \subseteq Unnotified BY DEF OwedInv
  <2>2. \A q \in Procs : \A r \in owed[q] : gap'[r] = gap[r]
    BY <1>4, <1>5, <2>1 DEF Unnotified, Inside
  <2>3. \A q \in Procs : nst'[q] \in {"one", "all"} => nst[q] \in {"one", "all"} BY <1>5
  <2> QED BY <1>1, <1>7, <1>8, <1>10, <2>1, <2>2, <2>3 DEF OwedInv
<1>18. \A q \in Unnotified : gap'[q] = gap[q]
  BY <1>4, <1>5 DEF Unnotified, Inside
<1> QED BY <1>3, <1>4, <1>6, <1>7, <1>9, <1>10, <1>11, <1>14, <1>15, <1>16, <1>17, <1>18

(* The invariant holds at first.                                              *)
LEMMA Initially == CondInit => IInv
<1> SUFFICES ASSUME CondInit PROVE IInv OBVIOUS
<1>1. /\ wait \in {0, Tickets - 1} /\ notify = wait /\ list = << >>
      /\ nst = [p \in Procs |-> "idle"] /\ ticket = [p \in Procs |-> 0]
      /\ seen = [p \in Procs |-> 0] /\ batch = [p \in Procs |-> << >>]
      /\ gap = [p \in Procs |-> 0] /\ cpc = [p \in Procs |-> "outside"]
      /\ owed = [p \in Procs |-> {}] /\ holder = NoProc
  BY DEF CondInit, ListInit, L!Unheld
<1>2. TypeInv
  <2>1. 0 \in 0 .. Tickets - 1 /\ Tickets - 1 \in 0 .. Tickets - 1 BY Half
  <2>2. << >> \in Seq(Procs) OBVIOUS
  <2> QED BY <1>1, <2>1, <2>2 DEF TypeInv, NStates, CPCs
<1>3. PlaceInv BY <1>1 DEF PlaceInv, Calls
<1>4. Inside = {} /\ Unnotified = {} BY <1>1 DEF Inside, Unnotified
<1>5. Ahead = 0
  <2> PICK w : w = wait OBVIOUS
  <2>1. w \in Circle /\ Ahead = (w - w) % Tickets BY <1>1, <1>2 DEF TypeInv, Circle, Ahead
  <2> QED BY <2>1, Distance
<1>6. TicketInv
  <2>1. Ahead = Cardinality(Unnotified) BY <1>4, <1>5, FS_EmptySet
  <2>2. \A p \in Procs : nst[p] \notin Waits BY <1>1 DEF Waits
  <2>3. \A p \in Procs : nst[p] # "ticket" BY <1>1
  <2> QED BY <1>4, <1>5, <2>1, <2>2, <2>3 DEF TicketInv
<1>7. SleepInv
  <2>1. (\A x : ~Occurs(x, << >>)) /\ NoRepeat(<< >>) BY DEF Occurs, NoRepeat
  <2>2. \A p \in Procs : batch[p] = << >> /\ nst[p] # "parked" BY <1>1
  <2> QED BY <1>1, <2>1, <2>2 DEF SleepInv
<1>8. OwedInv BY <1>1 DEF OwedInv
<1> QED BY <1>2, <1>3, <1>6, <1>7, <1>8 DEF IInv

(* Every step preserves it, one lemma for each kind of step.                  *)
LEMMA Inductive == IInv /\ [CondNext]_condVars => IInv'
<1> SUFFICES ASSUME IInv, [CondNext]_condVars PROVE IInv' OBVIOUS
<1>1. ASSUME NEW p \in Procs, CondCall(p) \/ CondStep(p) PROVE IInv'
  <2>1. CASE Lock(p) \/ Unlock(p) \/ WaitUnlock(p) \/ WaitRelock(p) BY <2>1, Locking
  <2>2. CASE WaitAdd(p) BY <2>2, Drawing
  <2>3. CASE WaitList(p)
    <3>1. CASE AlreadyNotified(p) BY <2>3, <3>1, Leaving
    <3>2. CASE Park(p) BY <2>3, <3>2, Sleeping
    <3> QED BY <2>3, <3>1, <3>2 DEF WaitList
  <2>4. CASE Signal(p) \/ Broadcast(p)
    <3>1. PICK which \in {"one", "all"} : Notify(p, which) BY <2>4 DEF Signal, Broadcast
    <3> QED BY <3>1, Calling
  <2>5. CASE Notifying(p)
    <3>1. CASE NothingNew(p) \/ ToLock(p) \/ OneNone(p) \/ NotifyReturn(p)
      BY <2>5, <3>1, Quiet
    <3>2. CASE OneTake(p) BY <2>5, <3>2, Taking
    <3>3. CASE AllTake(p) BY <2>5, <3>3, TakingAll
    <3>4. CASE ReadyOne(p) BY <2>5, <3>4, Readying
    <3> QED BY <2>5, <3>1, <3>2, <3>3, <3>4 DEF Notifying, NotifyStep
  <2> QED BY <1>1, <2>1, <2>2, <2>3, <2>4, <2>5 DEF CondCall, CondStep
<1>2. CASE UNCHANGED condVars
  <2>1. /\ UNCHANGED << wait, notify, list, nst, ticket, seen, batch, gap >>
        /\ UNCHANGED << holder, cpc, owed >>
    BY <1>2 DEF condVars, listVars
  <2>2. Inside' = Inside /\ Unnotified' = Unnotified /\ Ahead' = Ahead
    BY <2>1 DEF Inside, Unnotified, Ahead
  <2>3. TypeInv' BY <2>1 DEF IInv, TypeInv
  <2>4. PlaceInv' BY <2>1 DEF IInv, PlaceInv
  <2>5. TicketInv' BY <2>1, <2>2 DEF IInv, TicketInv
  <2>6. SleepInv' BY <2>1, <2>2 DEF IInv, SleepInv
  <2>7. OwedInv' BY <2>1, <2>2 DEF IInv, OwedInv
  <2> QED BY <2>3, <2>4, <2>5, <2>6, <2>7 DEF IInv
<1> QED BY <1>1, <1>2 DEF CondNext

(* Every state of Cond satisfies IInv: among its parts, that the tickets      *)
(* drawn and not yet notified are those of the waiters, one each, and that a  *)
(* fast path with nothing to do (sema.go:598-602, 631-635) misses nobody.              *)
THEOREM CondInvariant == CondSpec => []IInv
BY Initially, Inductive, PTL DEF CondSpec

-----------------------------------------------------------------------------
(* In a queue without repetitions a goroutine is counted once. *)
LEMMA TimesIs ==
  ASSUME NEW P, NEW s \in Seq(P), NoRepeat(s), NEW p
  PROVE  Times(p, s) = IF Occurs(p, s) THEN 1 ELSE 0
<1> DEFINE T == {k \in DOMAIN s : s[k] = p}
<1>1. DOMAIN s = 1 .. Len(s) OBVIOUS
<1>2. CASE Occurs(p, s)
  <2>1. PICK k \in 1 .. Len(s) : s[k] = p BY <1>2 DEF Occurs
  <2>2. T = {k} BY <1>1, <2>1 DEF NoRepeat
  <2>3. Cardinality({k}) = 1 BY FS_Singleton
  <2> QED BY <1>2, <2>2, <2>3 DEF Times
<1>3. CASE ~Occurs(p, s)
  <2>1. T = {} BY <1>1, <1>3 DEF Occurs
  <2> QED BY <1>3, <2>1, FS_EmptySet DEF Times
<1> QED BY <1>2, <1>3

(* A sleeper is in the list once, and in no batch, until its ticket has come; *)
(* it is in exactly one batch afterwards.                                     *)
THEOREM Sleepers == CondSpec => []SleepersAccounted
<1>1. IInv => SleepersAccounted
  <2> SUFFICES ASSUME IInv PROVE SleepersAccounted OBVIOUS
  <2> USE DEF IInv
  <2>1. CondTypeOK BY DEF CondTypeOK, TypeInv, TicketInv
  <2>2. ASSUME NEW p \in Procs
        PROVE  /\ Times(p, list) = IF Occurs(p, list) THEN 1 ELSE 0
               /\ \A q \in Procs : Times(p, batch[q]) = IF Occurs(p, batch[q]) THEN 1 ELSE 0
    <3>1. Times(p, list) = IF Occurs(p, list) THEN 1 ELSE 0
      <4> PICK s : s = list OBVIOUS
      <4>1. s \in Seq(Procs) /\ NoRepeat(s) BY DEF TypeInv, SleepInv
      <4> QED BY <4>1, TimesIs
    <3>2. ASSUME NEW q \in Procs PROVE Times(p, batch[q]) = IF Occurs(p, batch[q]) THEN 1 ELSE 0
      <4> PICK s : s = batch[q] OBVIOUS
      <4>1. s \in Seq(Procs) /\ NoRepeat(s) BY DEF TypeInv, SleepInv
      <4> QED BY <4>1, TimesIs
    <3> QED BY <3>1, <3>2
  <2>3. ASSUME NEW p \in Procs, nst[p] = "parked"
        PROVE  LET due == {q \in Procs : Times(p, batch[q]) = 1}
               IN IF p \in Unnotified THEN Times(p, list) = 1 /\ due = {}
                                      ELSE Times(p, list) = 0 /\ Cardinality(due) = 1
    <3> DEFINE due == {q \in Procs : Times(p, batch[q]) = 1}
    <3>1. \A q \in Procs : q \in due <=> Occurs(p, batch[q]) BY <2>2
    <3>2. CASE p \in Unnotified
      <4>1. Occurs(p, list) /\ \A q \in Procs : ~Occurs(p, batch[q])
        BY <2>3, <3>2 DEF SleepInv
      <4>2. due = {} BY <3>1, <4>1
      <4> HIDE DEF due
      <4>3. Times(p, list) = 1 BY <2>2, <4>1
      <4> QED BY <3>2, <4>2, <4>3 DEF due
    <3>3. CASE p \notin Unnotified
      <4>1. ~Occurs(p, list) BY <3>3 DEF SleepInv
      <4>2. PICK q \in Procs : Occurs(p, batch[q]) BY <2>3, <3>3 DEF SleepInv
      <4>3. \A r \in Procs : Occurs(p, batch[r]) => r = q BY <4>2 DEF SleepInv
      <4>4. due \subseteq Procs OBVIOUS
      <4>5. due = {q} BY <3>1, <4>2, <4>3, <4>4
      <4> HIDE DEF due
      <4>6. Cardinality(due) = 1 BY <4>5, FS_Singleton
      <4>7. Times(p, list) = 0 BY <2>2, <4>1
      <4> QED BY <3>3, <4>6, <4>7 DEF due
    <3> QED BY <3>2, <3>3
  <2> QED BY <2>1, <2>3 DEF SleepersAccounted
<1> QED BY <1>1, CondInvariant, PTL
-----------------------------------------------------------------------------
(* SyncCond implements CondVar. *)

(* s holds the goroutines of U, the one of gap 0 first.                       *)
Ordered(s, P, U, g) ==
  /\ s \in Seq(P) /\ Len(s) = Cardinality(U)
  /\ \A i \in 1 .. Len(s) : s[i] \in U /\ g[s[i]] = 1 - i

(* There is one such order. *)
LEMMA OneOrder ==
  ASSUME NEW P, NEW U \in SUBSET P, NEW g, NEW s, NEW t,
         Ordered(s, P, U, g), Ordered(t, P, U, g), \A p, q \in U : g[p] = g[q] => p = q
  PROVE  s = t
<1>1. s \in Seq(P) /\ t \in Seq(P) /\ Len(s) = Len(t) BY DEF Ordered
<1>2. \A i \in 1 .. Len(s) : s[i] = t[i]
  <2> SUFFICES ASSUME NEW i \in 1 .. Len(s) PROVE s[i] = t[i] OBVIOUS
  <2>1. s[i] \in U /\ t[i] \in U /\ g[s[i]] = 1 - i /\ g[t[i]] = 1 - i BY <1>1 DEF Ordered
  <2> QED BY <2>1
<1> QED BY <1>1, <1>2, SeqEqual

(* The abstract queue is that order. *)
InGapOrder(U, g) == [i \in 1 .. Cardinality(U) |-> CHOOSE p \in U : g[p] = 1 - i]

(* The gaps of U are those of a queue of n. *)
Queued(P, U, g, n) ==
  /\ U \in SUBSET P /\ n \in Nat /\ n = Cardinality(U)
  /\ \A p \in U : -g[p] \in 0 .. n - 1 /\ g[p] \in Int
  /\ \A k \in 0 .. n - 1 : \E p \in U : g[p] = -k
  /\ \A p, q \in U : g[p] = g[q] => p = q

(* Were the gaps those of a queue, then InGapOrder is in their order.         *)
LEMMA OrderIs ==
  ASSUME NEW P, NEW U, NEW g, NEW n, Queued(P, U, g, n), NEW s, s = InGapOrder(U, g)
  PROVE  Ordered(s, P, U, g) /\ {s[i] : i \in DOMAIN s} = U
<1>0. /\ U \in SUBSET P /\ n \in Nat /\ n = Cardinality(U)
      /\ \A p \in U : -g[p] \in 0 .. n - 1 /\ g[p] \in Int
      /\ \A k \in 0 .. n - 1 : \E p \in U : g[p] = -k
      /\ \A p, q \in U : g[p] = g[q] => p = q
  BY DEF Queued
<1> DEFINE At(i) == CHOOSE p \in U : g[p] = 1 - i
<1>1. s = [i \in 1 .. n |-> At(i)] BY <1>0 DEF InGapOrder
<1>6. ASSUME NEW i \in 1 .. n PROVE At(i) \in U /\ g[At(i)] = 1 - i
  <2>1. PICK k : k = i - 1 BY <1>0
  <2>2. k \in 0 .. n - 1 /\ -k = 1 - i BY <1>0, <2>1
  <2>3. \E p \in U : g[p] = 1 - i BY <1>0, <2>2
  <2> QED BY <2>3
<1> HIDE DEF At
<1>2. ASSUME NEW i \in 1 .. n PROVE s[i] \in U /\ g[s[i]] = 1 - i BY <1>1, <1>6
<1>3. s \in Seq(P) /\ Len(s) = n /\ DOMAIN s = 1 .. n
  <2>1. DOMAIN s = 1 .. n /\ s = [i \in 1 .. n |-> s[i]] BY <1>1
  <2>2. \A i \in 1 .. n : s[i] \in P BY <1>0, <1>2
  <2>3. s \in [1 .. n -> P] BY <2>1, <2>2
  <2>4. s \in Seq(P) BY <1>0, <2>3, SeqDef
  <2>5. Len(s) = n BY <1>0, <2>1, <2>4
  <2> QED BY <2>1, <2>4, <2>5
<1>4. ASSUME NEW p \in U PROVE \E i \in DOMAIN s : s[i] = p
  <2> PICK h : h = g[p] OBVIOUS
  <2>1. PICK j : j = 1 - h OBVIOUS
  <2>2. j \in 1 .. n /\ g[p] = 1 - j
    <3>1. h \in Int /\ -h \in 0 .. n - 1 BY <1>0
    <3>2. j \in 1 .. n /\ h = 1 - j BY <1>0, <2>1, <3>1
    <3> QED BY <3>2
  <2>3. s[j] \in U /\ g[s[j]] = g[p] BY <1>2, <2>2
  <2>4. s[j] = p BY <1>0, <2>3
  <2> QED BY <1>3, <2>2, <2>4
<1>5. {s[i] : i \in DOMAIN s} = U BY <1>2, <1>3, <1>4
<1> QED BY <1>0, <1>2, <1>3, <1>5 DEF Ordered

(* The abstract queue is in the order of the gaps, and holds the waiters.     *)
LEMMA InOrderIs ==
  ASSUME TypeInv, TicketInv
  PROVE  Ordered(InOrder, Procs, Unnotified, gap) /\ CV!Waiters = Unnotified
<1>1. PICK U, g, n, s : U = Unnotified /\ g = gap /\ n = Ahead /\ s = InOrder OBVIOUS
<1>2. U \in SUBSET Procs /\ n \in Nat BY <1>1, GapFacts
<1>3. \A p \in U : g[p] \in Int BY <1>1, <1>2 DEF TypeInv
<1>4. Queued(Procs, U, g, n) BY <1>1, <1>2, <1>3 DEF TicketInv, Queued
<1>5. InOrder = InGapOrder(Unnotified, gap) BY DEF InOrder, InGapOrder
<1>6. s = InGapOrder(U, g) BY <1>1, <1>5
<1>7. Ordered(s, Procs, U, g) /\ {s[i] : i \in DOMAIN s} = U BY <1>4, <1>6, OrderIs
<1> QED BY <1>1, <1>7 DEF CV!Waiters

(* So it is after a step.                                                     *)
LEMMA InOrderNext ==
  ASSUME TypeInv', TicketInv'
  PROVE  /\ Ordered(InOrder', Procs, Unnotified', gap')
         /\ CV!Waiters' = Unnotified' /\ Unnotified' \in SUBSET Procs
         /\ \A p, q \in Unnotified' : gap'[p] = gap'[q] => p = q
         /\ Ahead' = Cardinality(Unnotified')
<1>1. PICK U, g, n, s : U = Unnotified' /\ g = gap' /\ n = Ahead' /\ s = InOrder' OBVIOUS
<1>2. U \in SUBSET Procs BY <1>1 DEF Unnotified, Inside
<1>3. n = Cardinality(U) /\ \A p, q \in U : g[p] = g[q] => p = q BY <1>1 DEF TicketInv
<1>4. n \in Nat BY <1>2, <1>3, Countable
<1>5. \A p \in U : g[p] \in Int BY <1>1, <1>2 DEF TypeInv
<1>6. Queued(Procs, U, g, n) BY <1>1, <1>2, <1>4, <1>5 DEF TicketInv, Queued
<1>7. InOrder' = InGapOrder(Unnotified', gap') BY DEF InOrder, InGapOrder
<1>8. s = InGapOrder(U, g) BY <1>1, <1>7
<1>9. Ordered(s, Procs, U, g) /\ {s[i] : i \in DOMAIN s} = U BY <1>6, <1>8, OrderIs
<1> QED BY <1>1, <1>2, <1>3, <1>9 DEF CV!Waiters

(* A step that leaves the waiters and their gaps alone keeps the queue.       *)
LEMMA OrderStays ==
  ASSUME IInv, IInv', Unnotified' = Unnotified, \A q \in Unnotified : gap'[q] = gap[q]
  PROVE  InOrder' = InOrder
<1>1. Ordered(InOrder, Procs, Unnotified, gap) BY InOrderIs DEF IInv
<1>2. /\ Ordered(InOrder', Procs, Unnotified', gap') /\ Unnotified' \in SUBSET Procs
      /\ \A p, q \in Unnotified' : gap'[p] = gap'[q] => p = q
  BY InOrderNext DEF IInv
<1>3. PICK U, g, s, t : U = Unnotified' /\ g = gap' /\ s = InOrder /\ t = InOrder' OBVIOUS
<1>4. Ordered(s, Procs, U, g) BY <1>1, <1>3 DEF Ordered
<1>5. s = t BY <1>2, <1>3, <1>4, OneOrder
<1> QED BY <1>3, <1>5

(* The waiter that draws a ticket comes last.                                 *)
LEMMA OrderAppends ==
  ASSUME IInv, IInv', NEW p \in Procs, p \notin Unnotified, Unnotified' = Unnotified \cup {p},
         gap'[p] = -Ahead, \A q \in Unnotified : gap'[q] = gap[q]
  PROVE  InOrder' = Append(InOrder, p)
<1>1. Ordered(InOrder, Procs, Unnotified, gap) BY InOrderIs DEF IInv
<1>2. /\ Ordered(InOrder', Procs, Unnotified', gap') /\ Unnotified' \in SUBSET Procs
      /\ \A q, r \in Unnotified' : gap'[q] = gap'[r] => q = r
  BY InOrderNext DEF IInv
<1>3. Unnotified \in SUBSET Procs /\ Ahead \in Nat /\ Ahead = Cardinality(Unnotified)
  BY GapFacts DEF IInv, TicketInv
<1>4. PICK U, g, s, t, n : U = Unnotified' /\ g = gap' /\ s = InOrder /\ t = InOrder' /\ n = Ahead
  OBVIOUS
<1>5. /\ s \in Seq(Procs) /\ Len(s) = n
      /\ \A i \in 1 .. n : s[i] \in U /\ g[s[i]] = 1 - i
  BY <1>1, <1>3, <1>4 DEF Ordered
<1>6. Cardinality(U) = n + 1
  <2>1. Cardinality(Unnotified \cup {p}) = Cardinality(Unnotified) + 1
    BY <1>3, Countable, FS_AddElement
  <2> QED BY <1>3, <1>4, <2>1
<1> DEFINE a == Append(s, p)
<1>7. /\ a \in Seq(Procs) /\ Len(a) = n + 1
      /\ \A i \in 1 .. n : a[i] = s[i]
      /\ a[n + 1] = p
  BY <1>5, AppendProperties
<1> HIDE DEF a
<1>8. \A i \in 1 .. n + 1 : a[i] \in U /\ g[a[i]] = 1 - i
  <2> SUFFICES ASSUME NEW i \in 1 .. n + 1 PROVE a[i] \in U /\ g[a[i]] = 1 - i OBVIOUS
  <2>1. CASE i \in 1 .. n BY <1>5, <1>7, <2>1
  <2>2. CASE i = n + 1
    <3>1. a[i] = p /\ p \in U /\ g[p] = -n BY <1>4, <1>7, <2>2
    <3>2. -n = 1 - i BY <1>3, <1>4, <2>2
    <3> QED BY <3>1, <3>2
  <2> QED BY <1>3, <1>4, <2>1, <2>2
<1>9. Ordered(a, Procs, U, g) BY <1>6, <1>7, <1>8 DEF Ordered
<1>10. a = t BY <1>2, <1>4, <1>9, OneOrder
<1> QED BY <1>4, <1>10 DEF a

(* The waiter of gap 0 is the first, and is taken.                            *)
LEMMA OrderTail ==
  ASSUME IInv, IInv', NEW h \in Unnotified, gap[h] = 0, Unnotified' = Unnotified \ {h},
         Ahead' = Ahead - 1, \A q \in Unnotified' : gap'[q] = gap[q] + 1
  PROVE  InOrder # << >> /\ Head(InOrder) = h /\ InOrder' = Tail(InOrder)
<1>1. Ordered(InOrder, Procs, Unnotified, gap) BY InOrderIs DEF IInv
<1>2. /\ Ordered(InOrder', Procs, Unnotified', gap') /\ Unnotified' \in SUBSET Procs
      /\ \A q, r \in Unnotified' : gap'[q] = gap'[r] => q = r
      /\ Ahead' = Cardinality(Unnotified')
  BY InOrderNext DEF IInv
<1>3. /\ Unnotified \in SUBSET Procs /\ Ahead \in Nat /\ Ahead = Cardinality(Unnotified)
      /\ \A q, r \in Unnotified : gap[q] = gap[r] => q = r
      /\ -gap[h] < Ahead
  BY GapFacts DEF IInv, TicketInv
<1>4. PICK U, V, g, f, s, t, n :
        /\ U = Unnotified /\ V = Unnotified' /\ g = gap /\ f = gap'
        /\ s = InOrder /\ t = InOrder' /\ n = Ahead
  OBVIOUS
<1>5. /\ s \in Seq(Procs) /\ Len(s) = n /\ n \in Nat /\ n > 0
      /\ \A i \in 1 .. n : s[i] \in U /\ g[s[i]] = 1 - i
  BY <1>1, <1>3, <1>4 DEF Ordered
<1>6. s # << >> /\ s[1] = h /\ Head(s) = s[1]
  <2>1. s[1] \in U /\ g[s[1]] = 0
    <3> PICK i : i = 1 OBVIOUS
    <3>1. i \in 1 .. n /\ 1 - i = 0 BY <1>5
    <3>2. s[i] \in U /\ g[s[i]] = 1 - i BY <1>5, <3>1
    <3> QED BY <3>1, <3>2
  <2>2. s[1] = h BY <1>3, <1>4, <2>1
  <2>3. s # << >> BY <1>5
  <2> QED BY <1>5, <2>2, <2>3
<1> DEFINE a == Tail(s)
<1>7. a \in Seq(Procs) /\ Len(a) = n - 1 /\ \A i \in 1 .. n - 1 : a[i] = s[i + 1]
  BY <1>5, <1>6
<1> HIDE DEF a
<1>8. \A i \in 1 .. n - 1 : a[i] \in V /\ f[a[i]] = 1 - i
  <2> SUFFICES ASSUME NEW i \in 1 .. n - 1 PROVE a[i] \in V /\ f[a[i]] = 1 - i OBVIOUS
  <2>1. PICK j : j = i + 1 OBVIOUS
  <2>2. j \in 1 .. n /\ (1 - j) + 1 = 1 - i /\ 1 - j # 0 BY <1>5, <2>1
  <2>3. a[i] = s[j] /\ s[j] \in U /\ g[s[j]] = 1 - j BY <1>5, <1>7, <2>1, <2>2
  <2>4. s[j] # h BY <1>4, <2>2, <2>3
  <2>5. s[j] \in V BY <1>4, <2>3, <2>4
  <2>6. f[s[j]] = g[s[j]] + 1 BY <1>4, <2>5
  <2> QED BY <2>2, <2>3, <2>5, <2>6
<1>9. Ordered(a, Procs, V, f)
  <2>1. Cardinality(V) = n - 1 BY <1>2, <1>4
  <2> QED BY <1>7, <1>8, <2>1 DEF Ordered
<1>10. a = t BY <1>2, <1>4, <1>9, OneOrder
<1> QED BY <1>4, <1>6, <1>10 DEF a

(* Nobody waits any more.                                                     *)
LEMMA OrderEmpty ==
  ASSUME IInv', Unnotified' = {}
  PROVE  InOrder' = << >>
<1>1. Ordered(InOrder', Procs, Unnotified', gap') BY InOrderNext DEF IInv
<1>2. PICK t : t = InOrder' OBVIOUS
<1>3. t \in Seq(Procs) /\ Len(t) = 0 BY <1>1, <1>2, FS_EmptySet DEF Ordered
<1>4. t = << >> BY <1>3
<1> QED BY <1>2, <1>4

(* The call a goroutine is in. *)
Called == [p \in Procs |->
             IF nst[p] \in {"one", "oneLock"} THEN "signal"
             ELSE IF nst[p] \in {"all", "allLock"} THEN "broadcast"
             ELSE "none"]

(* A step outside the notifiers' calls.                                       *)
LEMMA CallStays ==
  ASSUME \A q \in Procs : nst[q] \in Calls \/ nst'[q] \in Calls => nst'[q] = nst[q]
  PROVE  Called' = Called
BY DEF Called, Calls

(* Locks, unlocks, and the steps that the abstract queue does not see. *)
LEMMA LockingRefines ==
  ASSUME IInv, NEW p \in Procs,
         Lock(p) \/ Unlock(p) \/ WaitUnlock(p) \/ WaitRelock(p)
  PROVE  CV!Next
<1>1. IInv' /\ Unnotified' = Unnotified /\ Inside' = Inside BY Locking
<1>2. UNCHANGED << wait, notify, list, nst, ticket, seen, batch, gap, owed >>
  BY DEF Lock, Unlock, WaitUnlock, WaitRelock, listVars
<1>3. InOrder' = InOrder BY <1>1, <1>2, OrderStays
<1>4. Called' = Called BY <1>2, CallStays
<1>5. CV!Waiters = Unnotified BY InOrderIs DEF IInv
<1>6. CASE Lock(p) \/ WaitRelock(p)
  <2>1. nst[p] = "idle" /\ CV!L!Acquire(p)
    BY <1>6 DEF Lock, WaitRelock, Running, L!Acquire, L!Passes, CV!L!Acquire, CV!L!Passes
  <2>2. p \notin Inside BY <2>1 DEF Inside
  <2>3. p \notin CV!Waiters \cup (Inside \ Unnotified) BY <1>5, <2>2 DEF Unnotified
  <2>4. CV!Locks(p) BY <1>1, <1>2, <1>3, <1>4, <2>1, <2>3 DEF CV!Locks, Called
  <2> QED BY <2>4 DEF CV!Next
<1>7. CASE Unlock(p) \/ WaitUnlock(p)
  <2>1. CV!L!Release(p) BY <1>7 DEF Unlock, WaitUnlock, L!Release, L!Passes, CV!L!Release, CV!L!Passes
  <2>2. CV!Unlocks(p) BY <1>1, <1>2, <1>3, <1>4, <2>1 DEF CV!Unlocks, Called
  <2> QED BY <2>2 DEF CV!Next
<1> QED BY <1>6, <1>7

(* Wait, while it still holds L.                                              *)
LEMMA DrawingRefines ==
  ASSUME IInv, NEW p \in Procs, WaitAdd(p)
  PROVE  CV!Next
<1>1. /\ IInv' /\ p \notin Inside
      /\ Inside' = Inside \cup {p} /\ Unnotified' = Unnotified \cup {p}
  BY Drawing
<1>2. /\ nst[p] = "idle" /\ cpc[p] = "locked" /\ nst' = [nst EXCEPT ![p] = "ticket"]
      /\ gap' = [gap EXCEPT ![p] = -Ahead] /\ UNCHANGED << holder, owed >>
  BY DEF WaitAdd, CGoto, NGoto, ListAdd
<1>3. nst \in [Procs -> NStates] /\ gap \in [Procs -> Int] BY DEF IInv, TypeInv
<1>4. Called' = Called
  <2>1. \A q \in Procs : nst[q] \in Calls \/ nst'[q] \in Calls => nst'[q] = nst[q]
    BY <1>2, <1>3 DEF Calls
  <2> QED BY <2>1, CallStays
<1>5. InOrder' = Append(InOrder, p)
  <2>1. p \notin Unnotified BY <1>1 DEF Unnotified
  <2>2. gap'[p] = -Ahead /\ \A q \in Unnotified : gap'[q] = gap[q]
    BY <1>2, <1>3, <2>1 DEF Unnotified, Inside
  <2> QED BY <1>1, <2>1, <2>2, OrderAppends
<1>6. Inside' \ Unnotified' = Inside \ Unnotified
  BY <1>1 DEF Unnotified
<1>7. holder = p BY <1>2 DEF IInv, PlaceInv
<1>8. Called[p] = "none" BY <1>2 DEF Called
<1>9. CV!Wait(p) BY <1>2, <1>4, <1>5, <1>6, <1>7, <1>8 DEF CV!Wait, Called
<1> QED BY <1>9 DEF CV!Next

(* A waiter finds that it was notified and goes on, or sleeps.                *)
LEMMA WaitingRefines ==
  ASSUME IInv, NEW p \in Procs, WaitList(p)
  PROVE  [CV!Next]_(CV!vars)
<1>0. /\ nst \in [Procs -> NStates] /\ gap \in [Procs -> Int] BY DEF IInv, TypeInv
<1>1. UNCHANGED << holder, owed >> /\ cpc[p] = "wait" BY DEF WaitList, CGoto
<1>2. CASE AlreadyNotified(p)
  <2>1. /\ IInv' /\ p \in Inside /\ p \notin Unnotified
        /\ Inside' = Inside \ {p} /\ Unnotified' = Unnotified
    BY <1>2, Leaving
  <2>2. /\ nst[p] = "ticket" /\ nst' = [nst EXCEPT ![p] = "idle"]
        /\ gap' = [gap EXCEPT ![p] = 0]
    BY <1>2 DEF AlreadyNotified, NGoto, Forget
  <2>3. InOrder' = InOrder
    <3>1. \A q \in Unnotified : gap'[q] = gap[q] BY <1>0, <2>1, <2>2 DEF Unnotified, Inside
    <3> QED BY <2>1, <3>1, OrderStays
  <2>4. Called' = Called
    <3>1. \A q \in Procs : nst[q] \in Calls \/ nst'[q] \in Calls => nst'[q] = nst[q]
      BY <1>0, <2>2 DEF Calls
    <3> QED BY <3>1, CallStays
  <2>5. holder # p BY <1>1 DEF IInv, PlaceInv
  <2>6. Inside' \ Unnotified' = (Inside \ Unnotified) \ {p} BY <2>1
  <2>7. CV!GoOn(p) BY <1>1, <2>1, <2>3, <2>4, <2>5, <2>6 DEF CV!GoOn, Called
  <2> QED BY <2>7 DEF CV!Next
<1>3. CASE Park(p)
  <2>1. IInv' /\ Inside' = Inside /\ Unnotified' = Unnotified BY <1>3, Sleeping
  <2>2. nst[p] = "ticket" /\ nst' = [nst EXCEPT ![p] = "parked"] /\ gap' = gap
    BY <1>3 DEF Park, NGoto
  <2>3. InOrder' = InOrder BY <2>1, <2>2, OrderStays
  <2>4. Called' = Called
    <3>1. \A q \in Procs : nst[q] \in Calls \/ nst'[q] \in Calls => nst'[q] = nst[q]
      BY <1>0, <2>2 DEF Calls
    <3> QED BY <3>1, CallStays
  <2>5. UNCHANGED CV!vars BY <1>1, <2>1, <2>3, <2>4 DEF CV!vars, Called
  <2> QED BY <2>5
<1> QED BY <1>2, <1>3 DEF WaitList

(* Signal and Broadcast begin.                                                *)
LEMMA CallingRefines ==
  ASSUME IInv, NEW p \in Procs, NEW which, which \in {"one", "all"}, Notify(p, which)
  PROVE  CV!Next
<1>1. IInv' /\ Inside' = Inside /\ Unnotified' = Unnotified /\ p \notin Inside BY Calling
<1>2. /\ nst[p] = "idle" /\ nst' = [nst EXCEPT ![p] = which]
      /\ owed' = [owed EXCEPT ![p] = Unnotified] /\ UNCHANGED << gap, holder >>
  BY DEF Notify, LoadWait, NGoto
<1>3. InOrder' = InOrder BY <1>1, <1>2, OrderStays
<1>4. CV!Waiters = Unnotified BY InOrderIs DEF IInv
<1>5. nst \in [Procs -> NStates] BY DEF IInv, TypeInv
<1>6. PICK c \in {"signal", "broadcast"} : Called' = [Called EXCEPT ![p] = c]
  <2>1. PICK c : c = IF which = "one" THEN "signal" ELSE "broadcast" OBVIOUS
  <2>2. c \in {"signal", "broadcast"} BY <2>1
  <2>3. Called' = [Called EXCEPT ![p] = c] BY <1>2, <1>5, <2>1 DEF Called
  <2> QED BY <2>2, <2>3
<1>7. Called[p] = "none" BY <1>2 DEF Called
<1>8. p \notin CV!Waiters \cup (Inside \ Unnotified) BY <1>1, <1>4 DEF Unnotified
<1>9. CV!Begin(p)
  BY <1>1, <1>2, <1>3, <1>4, <1>6, <1>7, <1>8 DEF CV!Begin, Called
<1> QED BY <1>9 DEF CV!Next

(* The call of p ends, and the others' calls go on. *)
LEMMA CallEnds ==
  ASSUME NEW p \in Procs, nst'[p] \notin Calls,
         \A q \in Procs : q # p => nst'[q] = nst[q]
  PROVE  Called' = [Called EXCEPT ![p] = "none"]
BY DEF Called, Calls

(* A notifier whose call ends gives up what it owes.                          *)
LEMMA Ends ==
  ASSUME IInv, IInv', NEW p \in Procs, Notifying(p), nst'[p] \notin Calls,
         \A q \in Procs : q # p => nst'[q] = nst[q]
  PROVE  CV!End(p)
<1>1. /\ owed' = [q \in Procs |-> IF nst'[q] \in Calls THEN owed[q] \cap Unnotified' ELSE {}]
      /\ UNCHANGED holder
  BY DEF Notifying, Calls
<1>2. CV!Waiters' = Unnotified' BY InOrderNext DEF IInv
<1>3. \A q \in Procs : (IF nst'[q] \in Calls THEN owed[q] \cap Unnotified' ELSE {})
                     = (IF q = p THEN {} ELSE owed[q] \cap Unnotified')
  <2> SUFFICES ASSUME NEW q \in Procs
               PROVE  (IF nst'[q] \in Calls THEN owed[q] \cap Unnotified' ELSE {})
                    = (IF q = p THEN {} ELSE owed[q] \cap Unnotified')
    OBVIOUS
  <2>1. CASE q = p BY <2>1
  <2>2. CASE q # p
    <3>1. nst'[q] \notin Calls => owed[q] = {} BY <2>2 DEF IInv, PlaceInv
    <3> QED BY <2>2, <3>1
  <2> QED BY <2>1, <2>2
<1>4. owed' = [q \in Procs |-> IF q = p THEN {} ELSE owed[q] \cap CV!Waiters']
  BY <1>1, <1>2, <1>3
<1>5. Called' = [Called EXCEPT ![p] = "none"] BY CallEnds
<1> QED BY <1>1, <1>4, <1>5 DEF CV!End, Called

(* The notifiers wake nobody, the first or all; a woken sleeper is readied.   *)
LEMMA NotifyingRefines ==
  ASSUME IInv, NEW p \in Procs, Notifying(p)
  PROVE  [CV!Next]_(CV!vars)
<1>0. /\ nst \in [Procs -> NStates] /\ gap \in [Procs -> Int] /\ UNCHANGED holder
      /\ CV!Waiters = Unnotified
  BY InOrderIs DEF IInv, TypeInv, Notifying
<1>1. CASE NothingNew(p) \/ OneNone(p)
  <2>1. IInv' /\ Inside' = Inside /\ Unnotified' = Unnotified /\ owed' = owed BY <1>1, Quiet
  <2>2. /\ nst[p] \in Calls /\ nst' = [nst EXCEPT ![p] = "idle"] /\ gap' = gap
    BY <1>1 DEF NothingNew, OneNone, NGoto, Calls
  <2>3. nst'[p] \notin Calls /\ \A q \in Procs : q # p => nst'[q] = nst[q]
    BY <1>0, <2>2 DEF Calls
  <2>4. InOrder' = InOrder BY <2>1, <2>2, OrderStays
  <2>5. owed[p] = {} BY <1>1, NothingOwed
  <2>6. Called[p] # "none" BY <2>2 DEF Called, Calls
  <2>7. CV!End(p) BY <2>1, <2>3, Ends
  <2>8. CV!Nobody(p) BY <2>1, <2>4, <2>5, <2>6, <2>7 DEF CV!Nobody, Called
  <2> QED BY <2>8 DEF CV!Next
<1>2. CASE ToLock(p) \/ NotifyReturn(p)
  <2>1. IInv' /\ Inside' = Inside /\ Unnotified' = Unnotified /\ owed' = owed BY <1>2, Quiet
  <2>2. gap' = gap BY <1>2 DEF ToLock, NotifyReturn
  <2>3. InOrder' = InOrder BY <2>1, <2>2, OrderStays
  <2>4. Called' = Called BY <1>0, <1>2 DEF Called, ToLock, NotifyReturn, NGoto
  <2>5. UNCHANGED CV!vars BY <1>0, <2>1, <2>3, <2>4 DEF CV!vars, Called
  <2> QED BY <2>5
<1>3. CASE OneTake(p)
  <2>1. /\ IInv' /\ Inside' = Inside /\ Ahead' = Ahead - 1 /\ nst[p] = "oneLock"
        /\ nst'[p] \notin Calls /\ \A q \in Procs : q # p => nst'[q] = nst[q]
        /\ \A q \in Unnotified' : gap'[q] = gap[q] + 1
    BY <1>3, Taking
  <2>2. PICK h \in Unnotified : gap[h] = 0 /\ Unnotified' = Unnotified \ {h}
    BY <1>3, Taking
  <2>3. InOrder # << >> /\ Head(InOrder) = h /\ InOrder' = Tail(InOrder)
    BY <2>1, <2>2, OrderTail
  <2>4. Inside' \ Unnotified' = (Inside \ Unnotified) \cup {h}
    BY <2>1, <2>2 DEF Unnotified
  <2>5. Called[p] = "signal" BY <2>1 DEF Called
  <2>6. CV!End(p) BY <2>1, Ends
  <2>7. CV!Signal(p) BY <2>3, <2>4, <2>5, <2>6 DEF CV!Signal, Called
  <2> QED BY <2>7 DEF CV!Next
<1>4. CASE AllTake(p)
  <2>1. /\ IInv' /\ Inside' = Inside /\ Unnotified' = {} /\ nst[p] = "allLock"
        /\ nst'[p] \notin Calls /\ \A q \in Procs : q # p => nst'[q] = nst[q]
    BY <1>4, TakingAll
  <2>2. InOrder' = << >> BY <2>1, OrderEmpty
  <2>3. Inside' \ Unnotified' = (Inside \ Unnotified) \cup CV!Waiters
    BY <1>0, <2>1 DEF Unnotified
  <2>4. Called[p] = "broadcast" BY <2>1 DEF Called
  <2>5. CV!End(p) BY <2>1, Ends
  <2>6. CV!Broadcast(p) BY <2>2, <2>3, <2>4, <2>5 DEF CV!Broadcast, Called
  <2> QED BY <2>6 DEF CV!Next
<1>5. CASE ReadyOne(p)
  <2>1. /\ IInv' /\ Unnotified' = Unnotified /\ owed' = owed
        /\ \A q \in Procs : nst[q] \in Calls \/ nst'[q] \in Calls => nst'[q] = nst[q]
        /\ \A q \in Unnotified : gap'[q] = gap[q]
    BY <1>5, Readying
  <2>2. PICK h \in Procs : nst[h] = "parked" /\ h \notin Unnotified /\ Inside' = Inside \ {h}
    BY <1>5, Readying
  <2>3. InOrder' = InOrder BY <2>1, OrderStays
  <2>4. Called' = Called BY <2>1, CallStays
  <2>5. h \in Inside \ Unnotified BY <2>2 DEF Inside
  <2>6. holder # h BY <2>2 DEF IInv, PlaceInv
  <2>7. Inside' \ Unnotified' = (Inside \ Unnotified) \ {h} BY <2>1, <2>2
  <2>8. CV!GoOn(h) BY <1>0, <2>1, <2>3, <2>4, <2>5, <2>6, <2>7 DEF CV!GoOn, Called
  <2> QED BY <2>8 DEF CV!Next
<1> QED BY <1>1, <1>2, <1>3, <1>4, <1>5 DEF Notifying, NotifyStep

(* The initial states map to the initial state of CondVar.                    *)
LEMMA InitRefines == CondInit => CV!Init
<1> SUFFICES ASSUME CondInit PROVE CV!Init OBVIOUS
<1>1. /\ nst = [p \in Procs |-> "idle"] /\ owed = [p \in Procs |-> {}] /\ holder = NoProc
  BY DEF CondInit, ListInit, L!Unheld
<1>2. Inside = {} /\ Unnotified = {} BY <1>1 DEF Inside, Unnotified
<1>3. InOrder = << >>
  <2>1. Ordered(InOrder, Procs, Unnotified, gap) BY Initially, InOrderIs DEF IInv
  <2> PICK t : t = InOrder OBVIOUS
  <2>2. t \in Seq(Procs) /\ Len(t) = 0 BY <1>2, <2>1, FS_EmptySet DEF Ordered
  <2>3. t = << >> BY <2>2
  <2> QED BY <2>3
<1>4. Called = [p \in Procs |-> "none"] BY <1>1 DEF Called
<1> QED BY <1>1, <1>2, <1>3, <1>4 DEF CV!Init, CV!L!Unheld, Called

(* Every step is a step of CondVar or leaves its state alone.                 *)
LEMMA NextRefines == IInv /\ [CondNext]_condVars => [CV!Next]_(CV!vars)
<1> SUFFICES ASSUME IInv, [CondNext]_condVars PROVE [CV!Next]_(CV!vars) OBVIOUS
<1>1. ASSUME NEW p \in Procs, CondCall(p) \/ CondStep(p) PROVE [CV!Next]_(CV!vars)
  <2>1. CASE Lock(p) \/ Unlock(p) \/ WaitUnlock(p) \/ WaitRelock(p) BY <2>1, LockingRefines
  <2>2. CASE WaitAdd(p) BY <2>2, DrawingRefines
  <2>3. CASE WaitList(p) BY <2>3, WaitingRefines
  <2>4. CASE Signal(p) \/ Broadcast(p)
    <3>1. PICK which \in {"one", "all"} : Notify(p, which) BY <2>4 DEF Signal, Broadcast
    <3> QED BY <3>1, CallingRefines
  <2>5. CASE Notifying(p) BY <2>5, NotifyingRefines
  <2> QED BY <1>1, <2>1, <2>2, <2>3, <2>4, <2>5 DEF CondCall, CondStep
<1>2. CASE UNCHANGED condVars
  <2>1. UNCHANGED << nst, gap, holder, owed >> BY <1>2 DEF condVars, listVars
  <2>2. Inside' = Inside /\ Unnotified' = Unnotified BY <2>1 DEF Inside, Unnotified
  <2>3. IInv' BY Inductive
  <2>4. InOrder' = InOrder BY <2>1, <2>2, <2>3, OrderStays
  <2>5. Called' = Called BY <2>1 DEF Called
  <2> QED BY <2>1, <2>2, <2>4, <2>5 DEF CV!vars, Called
<1> QED BY <1>1, <1>2 DEF CondNext

(* A Signal wakes the one that has waited longest, a Broadcast all of them,   *)
(* either does nothing only when none of those that waited at its call waits  *)
(* still, and nobody is passed over between Wait's unlock and its sleep:      *)
(* cond.go over notifyList implements module CondVar.                         *)
THEOREM Refinement == CondSpec => ImplementsCondVar
BY InitRefines, NextRefines, CondInvariant, PTL DEF CondSpec, ImplementsCondVar, CV!Spec

-----------------------------------------------------------------------------
(***************************************************************************)
(* Proofs about sync.WaitGroup, for any finite set of goroutines and any   *)
(* counter: a program that keeps the rules never panics, and every         *)
(* goroutine blocked in Wait is counted, has a permit, or is one that the  *)
(* goroutine which took the counter to zero has yet to release.            *)
(*                                                                         *)
(* One use of the WaitGroup goes through phases, and WGInv says what they  *)
(* exclude.  While the counter is positive waiters join.  The Add that     *)
(* takes it to zero finds them all in the word (ZeroInv), and the word     *)
(* stands still until they are removed from it: nobody joins at zero, and  *)
(* nobody adds while they are blocked.  Then they drain (DrainInv): the    *)
(* word is zero as long as one of them has not got its permit, or has not  *)
(* looked at the word.  The goroutine that released them may lag behind,   *)
(* in its last Semrelease, while the WaitGroup is used again; it counts    *)
(* for nothing then.                                                       *)
(***************************************************************************)
Releases(p) == ToRelease(p) > 0

(* Semaphore calls and program steps go together; no permit is handed off.    *)
LinkInv ==
  \A p \in Procs :
    /\ gsst[p] # "granted"
    /\ gsst[p] \in {"parked", "woken"}    => wpc[p] = "blocked"
    /\ gsst[p] \in {"released", "waking"} => wpc[p] = "release" /\ left[p] > 0

(* The goroutine that took the counter to zero, until it resets the word.     *)
ZeroInv ==
  /\ \A p \in Procs : wpc[p] \in {"zeroed", "reset"} =>
       counter = 0 /\ waiters = left[p] /\ left[p] > 0
  /\ \A p, q \in Procs :
       wpc[p] \in {"zeroed", "reset"} /\ wpc[q] \in {"zeroed", "reset"} => p = q

(* Permits that are free or to come, and waiters that have just got one: the  *)
(* word is zero.                                                              *)
Draining ==
  gsema > 0 \/ \E p \in Procs : Releases(p) \/ wpc[p] = "check"

DrainInv ==
  /\ Draining => counter = 0 /\ waiters = 0
  /\ \A p, q \in Procs : Releases(p) /\ Releases(q) => p = q

(* Who is blocked. *)
Blocked == {p \in Procs : wpc[p] = "blocked"}

CountInv ==
  /\ \A p \in Procs :
       Releases(p) => Cardinality(Blocked) = waiters + gsema + ToRelease(p)
  /\ (\A p \in Procs : ~Releases(p)) => Cardinality(Blocked) = waiters + gsema

WGTypeInv ==
  /\ counter \in Nat /\ waiters \in Nat
  /\ wpc \in [Procs -> WPCs \ {"panic"}] /\ left \in [Procs -> Nat]

WGInv == WGTypeInv /\ WGSem!QueueInv /\ LinkInv /\ ZeroInv /\ DrainInv /\ CountInv

USE DEF WPCs, WGoto, Blocked

(* The blocked goroutines can be counted. *)
LEMMA BlockedCounted ==
  /\ Blocked \in SUBSET Procs /\ Blocked' \in SUBSET Procs
  /\ Cardinality(Blocked) \in Nat /\ Cardinality(Blocked') \in Nat
<1>1. Blocked \in SUBSET Procs /\ Blocked' \in SUBSET Procs OBVIOUS
<1> QED BY <1>1, Countable

LEMMA NobodyBlocked ==
  /\ \A p \in Procs : wpc[p] = "blocked" => Cardinality(Blocked) > 0
  /\ (\A p \in Procs : wpc[p] # "blocked") => Cardinality(Blocked) = 0
<1>1. ASSUME NEW p \in Procs, wpc[p] = "blocked" PROVE Cardinality(Blocked) > 0
  <2>1. p \in Blocked /\ Blocked \in SUBSET Procs BY <1>1
  <2> QED BY <2>1, CountSome
<1>2. ASSUME \A p \in Procs : wpc[p] # "blocked" PROVE Cardinality(Blocked) = 0
  <2>1. Blocked = {} BY <1>2
  <2> QED BY <2>1, FS_EmptySet
<1> QED BY <1>1, <1>2

(* What the semaphore's variables are. *)
LEMMA Typed ==
  ASSUME WGInv
  PROVE  /\ gsema \in Nat /\ gsst \in [Procs -> WGSem!States]
         /\ gwakee \in [Procs -> Procs \cup {NoProc}]
         /\ \A p \in Procs : ToRelease(p) \in Int
  BY DEF WGInv, WGTypeInv, WGSem!QueueInv, WGSem!TypeOK, ToRelease

(* While somebody has reached zero and not reset the word, nobody drains.     *)
LEMMA ZeroedAlone ==
  ASSUME WGInv, NEW p \in Procs, wpc[p] \in {"zeroed", "reset"}
  PROVE  /\ counter = 0 /\ waiters = left[p] /\ waiters > 0 /\ ~Draining /\ gsema = 0
         /\ Cardinality(Blocked) = waiters
<1>1. counter = 0 /\ waiters = left[p] /\ waiters > 0 BY DEF WGInv, ZeroInv
<1>2. ~Draining BY <1>1 DEF WGInv, DrainInv
<1>3. gsema = 0 BY <1>2, Typed DEF Draining
<1>4. Cardinality(Blocked) = waiters + gsema BY <1>2 DEF WGInv, CountInv, Draining
<1> QED BY <1>1, <1>2, <1>3, <1>4 DEF WGInv, WGTypeInv

(* The semaphore stands still. *)
LEMMA SemUntouched == WGSem!QueueInv /\ UNCHANGED wgSem => WGSem!QueueInv'
  BY WGSem!QueueInvStep DEF wgSem, WGSem!semaVars

(* One goroutine that is not blocked goes to a step that is not. *)
LEMMA SameBlocked ==
  ASSUME NEW p \in Procs, NEW to, wpc \in [Procs -> WPCs], wpc' = [wpc EXCEPT ![p] = to],
         wpc[p] # "blocked", to # "blocked"
  PROVE  Cardinality(Blocked') = Cardinality(Blocked)
<1>1. Blocked' = Blocked OBVIOUS
<1> QED BY <1>1

-----------------------------------------------------------------------------
(* Add *)

LEMMA AddInv == ASSUME WGInv, NEW p \in Procs, NEW delta \in Int, Add(p, delta) PROVE WGInv'
<1>0. /\ wpc[p] = "outside" /\ wpc' = [wpc EXCEPT ![p] = wpc'[p]]
      /\ counter' = counter + delta /\ counter' \in 0 .. MaxCount
      /\ counter = 0 => WAt({"blocked", "check"}) = {}
      /\ wpc'[p] = IF counter' < 0 \/ (waiters # 0 /\ delta > 0 /\ counter' = delta)
                   THEN "panic"
                   ELSE IF counter' > 0 \/ waiters = 0 THEN "outside" ELSE "zeroed"
      /\ left' = [left EXCEPT ![p] = IF wpc'[p] = "zeroed" THEN waiters ELSE 0]
      /\ waiters' = waiters /\ UNCHANGED wgSem
  BY DEF Add, MayAdd, WGInv, WGTypeInv
<1>1. counter \in Nat /\ waiters \in Nat /\ counter' \in Nat
  BY <1>0, WaitGroupAssumption DEF WGInv, WGTypeInv
(* At zero nobody is left of the last use. *)
<1>2. ASSUME counter = 0
      PROVE  /\ waiters = 0 /\ ~Draining /\ counter' = delta
  <2>1. \A q \in Procs : wpc[q] # "blocked" /\ wpc[q] # "check"
    BY <1>0, <1>2 DEF WAt
  <2>2. Cardinality(Blocked) = 0 BY <2>1, NobodyBlocked
  <2>3. \A q \in Procs : ~Releases(q)
    <3> SUFFICES ASSUME NEW q \in Procs, Releases(q) PROVE FALSE OBVIOUS
    <3>1. 0 = waiters + gsema + ToRelease(q) BY <2>2 DEF WGInv, CountInv
    <3> QED BY <1>1, <3>1, Typed DEF Releases
  <2>4. 0 = waiters + gsema BY <2>2, <2>3 DEF WGInv, CountInv
  <2>5. waiters = 0 /\ gsema = 0 BY <1>1, <2>4, Typed
  <2>6. counter' = delta BY <1>0, <1>2
  <2> QED BY <2>1, <2>3, <2>5, <2>6 DEF Draining
<1>3. ~Draining
  <2>1. Draining => counter = 0 BY DEF WGInv, DrainInv
  <2> QED BY <1>2, <2>1
<1>4. \A q \in Procs : wpc[q] \notin {"zeroed", "reset"}
  <2>1. \A q \in Procs : wpc[q] \in {"zeroed", "reset"} => counter = 0 /\ waiters > 0
    BY ZeroedAlone
  <2> QED BY <1>1, <1>2, <2>1
<1>5. wpc'[p] = IF counter' > 0 \/ waiters = 0 THEN "outside" ELSE "zeroed"
  <2>1. CASE counter = 0 BY <1>0, <1>1, <1>2, <2>1
  <2>2. CASE counter # 0
    <3>1. counter' # delta BY <1>0, <1>1, <2>2
    <3> QED BY <1>0, <1>1, <3>1
  <2> QED BY <2>1, <2>2
<1>6. /\ \A q \in Procs : q # p => wpc'[q] = wpc[q] /\ left'[q] = left[q]
      /\ left'[p] = IF wpc'[p] = "zeroed" THEN waiters ELSE 0
      /\ gsst' = gsst /\ gsema' = gsema
  BY <1>0 DEF WGInv, WGTypeInv, wgSem
<1>7. \A q \in Procs : ToRelease(q)' = ToRelease(q)
  BY <1>0, <1>5, <1>6 DEF ToRelease
<1>8. ~Draining' BY <1>3, <1>5, <1>6, <1>7 DEF Draining, Releases
<1>9. Cardinality(Blocked') = Cardinality(Blocked)
  BY <1>0, <1>5, SameBlocked DEF WGInv, WGTypeInv
<1>a. WGTypeInv' BY <1>0, <1>1, <1>5 DEF WGInv, WGTypeInv
<1>b. WGSem!QueueInv' BY <1>0, SemUntouched DEF WGInv
<1>c. LinkInv'
  <2>1. gsst[p] = "idle" BY <1>0, Typed DEF WGInv, LinkInv, WGSem!States
  <2> QED BY <1>6, <2>1 DEF WGInv, LinkInv
<1>d. ZeroInv' BY <1>0, <1>1, <1>4, <1>5, <1>6 DEF ZeroInv
<1>e. DrainInv' BY <1>7, <1>8 DEF WGInv, DrainInv, Releases
<1>f. CountInv' BY <1>0, <1>6, <1>7, <1>9 DEF WGInv, CountInv, Releases
<1> QED BY <1>a, <1>b, <1>c, <1>d, <1>e, <1>f DEF WGInv

(* The word is as it was left: nobody else could change it. *)
LEMMA AddRecheckInv == ASSUME WGInv, NEW p \in Procs, AddRecheck(p) PROVE WGInv'
<1>0. /\ wpc[p] = "zeroed" /\ UNCHANGED << counter, waiters, wgSem, left >>
      /\ wpc' = [wpc EXCEPT ![p] = IF counter # 0 \/ waiters # left[p] THEN "panic" ELSE "reset"]
  BY DEF AddRecheck
<1>1. wpc' = [wpc EXCEPT ![p] = "reset"] BY <1>0, ZeroedAlone
<1>2. \A q \in Procs : ToRelease(q)' = ToRelease(q)
  BY <1>0, <1>1 DEF ToRelease, WGInv, WGTypeInv, wgSem
<1>3. Draining' => Draining BY <1>0, <1>1, <1>2 DEF Draining, Releases, WGInv, WGTypeInv, wgSem
<1>4. Cardinality(Blocked') = Cardinality(Blocked)
  BY <1>0, <1>1, SameBlocked DEF WGInv, WGTypeInv
<1>a. WGTypeInv' BY <1>0, <1>1 DEF WGInv, WGTypeInv
<1>b. WGSem!QueueInv' BY <1>0, SemUntouched DEF WGInv
<1>c. LinkInv' BY <1>0, <1>1 DEF WGInv, LinkInv, WGTypeInv, wgSem
<1>d. ZeroInv' BY <1>0, <1>1 DEF WGInv, ZeroInv, WGTypeInv
<1>e. DrainInv' BY <1>0, <1>2, <1>3 DEF WGInv, DrainInv, Releases
<1>f. CountInv' BY <1>0, <1>2, <1>4 DEF WGInv, CountInv, Releases, wgSem
<1> QED BY <1>a, <1>b, <1>c, <1>d, <1>e, <1>f DEF WGInv

(* The waiters leave the word: from now on they are the releaser's. *)
LEMMA AddResetInv == ASSUME WGInv, NEW p \in Procs, AddReset(p) PROVE WGInv'
<1>0. /\ wpc[p] = "reset" /\ wpc' = [wpc EXCEPT ![p] = "release"]
      /\ counter' = 0 /\ waiters' = 0 /\ UNCHANGED << wgSem, left >>
  BY DEF AddReset
<1>1. /\ counter = 0 /\ waiters = left[p] /\ waiters > 0 /\ ~Draining /\ gsema = 0
      /\ Cardinality(Blocked) = waiters
  BY <1>0, ZeroedAlone
<1>2. /\ wpc'[p] = "release" /\ \A q \in Procs : q # p => wpc'[q] = wpc[q]
      /\ gsst' = gsst /\ gsema' = gsema /\ left' = left
  BY <1>0 DEF WGInv, WGTypeInv, wgSem
<1>3. gsst[p] = "idle" BY <1>0, Typed DEF WGInv, LinkInv, WGSem!States
<1>4. ToRelease(p)' = left[p]
  <2>1. left[p] \in Nat BY DEF WGInv, WGTypeInv
  <2> QED BY <1>2, <1>3, <2>1 DEF ToRelease
<1>5. \A q \in Procs : q # p => ToRelease(q)' = ToRelease(q) BY <1>2 DEF ToRelease
<1>6. \A q \in Procs : Releases(q)' <=> q = p
  <2>1. \A q \in Procs : ~Releases(q) BY <1>1 DEF Draining
  <2> QED BY <1>1, <1>4, <1>5, <2>1 DEF Releases
<1>7. Cardinality(Blocked') = Cardinality(Blocked)
  BY <1>0, SameBlocked DEF WGInv, WGTypeInv
<1>8. \A q \in Procs : wpc[q] \in {"zeroed", "reset"} => q = p
  BY <1>0 DEF WGInv, ZeroInv
<1>a. WGTypeInv' BY <1>0 DEF WGInv, WGTypeInv
<1>b. WGSem!QueueInv' BY <1>0, SemUntouched DEF WGInv
<1>c. LinkInv' BY <1>0, <1>2, <1>3 DEF WGInv, LinkInv
<1>d. ZeroInv' BY <1>2, <1>8 DEF ZeroInv
<1>e. DrainInv' BY <1>0, <1>6 DEF DrainInv
<1>f. CountInv'
  <2>1. Cardinality(Blocked') = waiters' + gsema' + ToRelease(p)'
    <3>1. left[p] \in Nat BY DEF WGInv, WGTypeInv
    <3> QED BY <1>0, <1>1, <1>2, <1>4, <1>7, <3>1
  <2> QED BY <1>6, <2>1 DEF CountInv
<1> QED BY <1>a, <1>b, <1>c, <1>d, <1>e, <1>f DEF WGInv

(* A permit is made: it is the semaphore's now, and not to be released again. *)
LEMMA ReleaseAddInv ==
  ASSUME WGInv, NEW p \in Procs, AddRelease(p), WGSem!ReleaseAdd(p), UNCHANGED left
  PROVE  WGInv'
<1>0. /\ wpc[p] = "release" /\ left[p] > 0 /\ UNCHANGED << counter, waiters, wpc, left >>
      /\ gsst[p] = "idle" /\ gsst' = [gsst EXCEPT ![p] = "released"]
      /\ gsema' = gsema + 1
  BY DEF AddRelease, WGSem!ReleaseAdd, WGSem!Goto
<1>1. WGSem!QueueInv' BY WGSem!QueueInvStep DEF WGSem!Next, WGInv
<1>2. /\ left[p] \in Nat /\ gsema \in Nat /\ gsst'[p] = "released"
      /\ \A q \in Procs : q # p => gsst'[q] = gsst[q]
  BY <1>0, Typed DEF WGInv, WGTypeInv
<1>3. ToRelease(p) = left[p] /\ ToRelease(p)' = left[p] - 1
  BY <1>0, <1>2 DEF ToRelease
<1>4. \A q \in Procs : q # p => ToRelease(q)' = ToRelease(q) BY <1>0, <1>2 DEF ToRelease
<1>5. Releases(p) BY <1>0, <1>3 DEF Releases
<1>6. \A q \in Procs : Releases(q) => q = p BY <1>5 DEF WGInv, DrainInv
<1>7. \A q \in Procs : Releases(q)' => q = p /\ left[p] - 1 > 0
  BY <1>3, <1>4, <1>6 DEF Releases
<1>8. Draining BY <1>5 DEF Draining
<1>9. Blocked' = Blocked BY <1>0
<1>a. WGTypeInv' BY <1>0 DEF WGInv, WGTypeInv
<1>c. LinkInv' BY <1>0, <1>2 DEF WGInv, LinkInv
<1>d. ZeroInv' BY <1>0 DEF WGInv, ZeroInv
<1>e. DrainInv'
  <2>1. counter = 0 /\ waiters = 0 BY <1>8 DEF WGInv, DrainInv
  <2> QED BY <1>0, <1>7, <2>1 DEF DrainInv
<1>f. CountInv'
  <2>1. Cardinality(Blocked) = waiters + gsema + left[p] BY <1>3, <1>5 DEF WGInv, CountInv
  <2>2. waiters \in Nat BY DEF WGInv, WGTypeInv
  <2>3. Cardinality(Blocked') = waiters' + gsema' + (left[p] - 1)
    BY <1>0, <1>2, <1>9, <2>1, <2>2
  <2>4. CASE Releases(p)' BY <1>3, <1>7, <2>3, <2>4 DEF CountInv
  <2>5. CASE ~Releases(p)'
    <3>1. left[p] - 1 = 0 BY <1>0, <1>2, <1>3, <2>5 DEF Releases
    <3>2. waiters' + gsema' \in Nat BY <1>0, <1>2, <2>2
    <3>3. Cardinality(Blocked') = waiters' + gsema' BY <2>3, <3>1, <3>2
    <3> QED BY <1>7, <2>5, <3>3 DEF CountInv
  <2> QED BY <2>4, <2>5
<1> QED BY <1>a, <1>1, <1>c, <1>d, <1>e, <1>f DEF WGInv

(* The releaser takes the first waiter off the queue. *)
LEMMA ReleaseDequeueInv ==
  ASSUME WGInv, NEW p \in Procs, AddRelease(p), WGSem!ReleaseDequeue(p), UNCHANGED left
  PROVE  WGInv'
<1>0. /\ wpc[p] = "release" /\ left[p] > 0 /\ UNCHANGED << counter, waiters, wpc, left >>
      /\ gsst[p] = "released" /\ gsst' = [gsst EXCEPT ![p] = "waking"]
      /\ gsema' = gsema
  BY DEF AddRelease, WGSem!ReleaseDequeue, WGSem!Goto
<1>1. WGSem!QueueInv' BY WGSem!QueueInvStep DEF WGSem!Next, WGInv
<1>2. gsst'[p] = "waking" /\ \A q \in Procs : q # p => gsst'[q] = gsst[q]
  BY <1>0, Typed
<1>3. \A q \in Procs : ToRelease(q)' = ToRelease(q) BY <1>0, <1>2 DEF ToRelease
<1>4. \A q \in Procs : Releases(q)' = Releases(q) BY <1>3 DEF Releases
<1>9. Blocked' = Blocked BY <1>0
<1>a. WGTypeInv' BY <1>0 DEF WGInv, WGTypeInv
<1>c. LinkInv' BY <1>0, <1>2 DEF WGInv, LinkInv
<1>d. ZeroInv' BY <1>0 DEF WGInv, ZeroInv
<1>e. DrainInv' BY <1>0, <1>4 DEF WGInv, DrainInv, Draining
<1>f. CountInv' BY <1>0, <1>3, <1>4, <1>9 DEF WGInv, CountInv
<1> QED BY <1>a, <1>1, <1>c, <1>d, <1>e, <1>f DEF WGInv

(* Semrelease returns: its permit was counted off when it was made, and the   *)
(* waiter it readied, if any, goes on being blocked.                          *)
LEMMA ReleasedInv ==
  ASSUME WGInv, NEW p \in Procs, AddRelease(p), WGSem!Released(p, FALSE),
         left' = [left EXCEPT ![p] = @ - 1]
  PROVE  WGInv'
<1>0. /\ wpc[p] = "release" /\ left[p] > 0 /\ UNCHANGED << counter, waiters, wpc >>
      /\ gsst[p] \in {"released", "waking"} /\ gsema' = gsema
  BY DEF AddRelease, WGSem!Released, WGSem!ReleaseNobody, WGSem!ReleaseReady, WGSem!Goto
<1>1. WGSem!QueueInv'
  BY WGSem!QueueInvStep DEF WGSem!Next, WGSem!Released, WGInv
<1>2. /\ gsst'[p] = "idle"
      /\ \A q \in Procs : q # p =>
           \/ gsst'[q] = gsst[q]
           \/ gsst[q] = "parked" /\ gsst'[q] = "woken"
  <2>1. CASE WGSem!ReleaseNobody(p) BY <2>1, Typed DEF WGSem!ReleaseNobody, WGSem!Goto
  <2>2. CASE WGSem!ReleaseReady(p, FALSE)
    <3>1. /\ gsst[p] = "waking"
          /\ gsst' = [gsst EXCEPT ![p] = "idle", ![gwakee[p]] = "woken"]
      BY <2>2 DEF WGSem!ReleaseReady
    <3>2. gwakee[p] \in Procs /\ gsst[gwakee[p]] = "parked"
      BY <3>1 DEF WGInv, WGSem!QueueInv, WGSem!Dequeued
    <3> QED BY <3>1, <3>2, Typed
  <2> QED BY <2>1, <2>2 DEF WGSem!Released
<1>3. /\ left[p] \in Nat /\ left'[p] = left[p] - 1 /\ left'[p] \in Nat
      /\ \A q \in Procs : q # p => left'[q] = left[q]
  BY <1>0 DEF WGInv, WGTypeInv
<1>4. ToRelease(p) = left[p] - 1 /\ ToRelease(p)' = left[p] - 1
  BY <1>0, <1>2, <1>3 DEF ToRelease
<1>5. ASSUME NEW q \in Procs PROVE ToRelease(q)' = ToRelease(q)
  <2>1. CASE q = p BY <1>4, <2>1
  <2>2. CASE q # p
    <3>1. gsst[q] \in {"released", "waking"} <=> gsst'[q] \in {"released", "waking"}
      BY <1>2, <2>2
    <3> QED BY <1>0, <1>3, <2>2, <3>1 DEF ToRelease
  <2> QED BY <2>1, <2>2
<1>6. \A q \in Procs : Releases(q)' = Releases(q) BY <1>5 DEF Releases
<1>9. Blocked' = Blocked BY <1>0
<1>a. WGTypeInv' BY <1>0, <1>3 DEF WGInv, WGTypeInv
<1>c. LinkInv'
  <2> SUFFICES ASSUME NEW q \in Procs
               PROVE  /\ gsst'[q] # "granted"
                      /\ gsst'[q] \in {"parked", "woken"}    => wpc'[q] = "blocked"
                      /\ gsst'[q] \in {"released", "waking"} =>
                           wpc'[q] = "release" /\ left'[q] > 0
    BY DEF LinkInv
  <2>1. CASE q = p BY <1>2, <2>1
  <2>2. CASE q # p BY <1>0, <1>2, <1>3, <2>2 DEF WGInv, LinkInv
  <2> QED BY <2>1, <2>2
<1>d. ZeroInv' BY <1>0, <1>3 DEF WGInv, ZeroInv
<1>e. DrainInv' BY <1>0, <1>6 DEF WGInv, DrainInv, Draining
<1>f. CountInv' BY <1>0, <1>5, <1>6, <1>9 DEF WGInv, CountInv
<1> QED BY <1>a, <1>1, <1>c, <1>d, <1>e, <1>f DEF WGInv

LEMMA AddReturnInv == ASSUME WGInv, NEW p \in Procs, AddReturn(p) PROVE WGInv'
<1>0. /\ wpc[p] = "release" /\ wpc' = [wpc EXCEPT ![p] = "outside"] /\ left[p] = 0
      /\ UNCHANGED << counter, waiters, wgSem, left >>
  BY DEF AddReturn
<1>1. /\ wpc'[p] = "outside" /\ \A q \in Procs : q # p => wpc'[q] = wpc[q]
      /\ gsst' = gsst /\ gsema' = gsema /\ left' = left
  BY <1>0 DEF WGInv, WGTypeInv, wgSem
<1>2. gsst[p] = "idle" BY <1>0, Typed DEF WGInv, LinkInv, WGSem!States
<1>3. \A q \in Procs : ToRelease(q)' = ToRelease(q)
  BY <1>0, <1>1, <1>2 DEF ToRelease
<1>4. \A q \in Procs : Releases(q)' = Releases(q) BY <1>3 DEF Releases
<1>5. Draining' => Draining BY <1>1, <1>4 DEF Draining
<1>6. Cardinality(Blocked') = Cardinality(Blocked)
  BY <1>0, SameBlocked DEF WGInv, WGTypeInv
<1>a. WGTypeInv' BY <1>0 DEF WGInv, WGTypeInv
<1>b. WGSem!QueueInv' BY <1>0, SemUntouched DEF WGInv
<1>c. LinkInv' BY <1>1, <1>2 DEF WGInv, LinkInv
<1>d. ZeroInv' BY <1>0, <1>1 DEF WGInv, ZeroInv
<1>e. DrainInv' BY <1>0, <1>4, <1>5 DEF WGInv, DrainInv
<1>f. CountInv' BY <1>0, <1>1, <1>3, <1>4, <1>6 DEF WGInv, CountInv
<1> QED BY <1>a, <1>b, <1>c, <1>d, <1>e, <1>f DEF WGInv

-----------------------------------------------------------------------------
(* Wait *)

(* Nobody is draining, and nobody has seen zero: the word counts one more.    *)
LEMMA WaitJoinInv == ASSUME WGInv, NEW p \in Procs, WaitJoin(p) PROVE WGInv'
<1>0. /\ counter # 0 /\ wpc[p] = "outside" /\ wpc' = [wpc EXCEPT ![p] = "blocked"]
      /\ waiters' = waiters + 1 /\ UNCHANGED << counter, wgSem, left >>
  BY DEF WaitJoin
<1>1. /\ wpc'[p] = "blocked" /\ \A q \in Procs : q # p => wpc'[q] = wpc[q]
      /\ gsst' = gsst /\ gsema' = gsema /\ left' = left
  BY <1>0 DEF WGInv, WGTypeInv, wgSem
<1>2. gsst[p] = "idle" BY <1>0, Typed DEF WGInv, LinkInv, WGSem!States
<1>3. ~Draining BY <1>0 DEF WGInv, DrainInv
<1>4. \A q \in Procs : wpc[q] \notin {"zeroed", "reset"} BY <1>0 DEF WGInv, ZeroInv
<1>5. \A q \in Procs : ToRelease(q)' = ToRelease(q) BY <1>0, <1>1 DEF ToRelease
<1>6. \A q \in Procs : ~Releases(q) /\ ~Releases(q)'
  BY <1>3, <1>5 DEF Releases, Draining
<1>7. ~Draining' BY <1>1, <1>3, <1>6 DEF Draining
<1>8. waiters \in Nat /\ gsema \in Nat BY Typed DEF WGInv, WGTypeInv
<1>a. WGTypeInv' BY <1>0, <1>8 DEF WGInv, WGTypeInv
<1>b. WGSem!QueueInv' BY <1>0, SemUntouched DEF WGInv
<1>c. LinkInv' BY <1>1, <1>2 DEF WGInv, LinkInv
<1>d. ZeroInv' BY <1>1, <1>4 DEF ZeroInv
<1>e. DrainInv' BY <1>6, <1>7 DEF DrainInv
<1>f. CountInv'
  <2>1. /\ p \notin Blocked /\ p \in Blocked'
        /\ \A q \in Procs : q # p => (q \in Blocked <=> q \in Blocked')
    BY <1>0, <1>1
  <2>2. Cardinality(Blocked') = Cardinality(Blocked) + 1
    BY <2>1, BlockedCounted, CountGain
  <2>3. Cardinality(Blocked) = waiters + gsema BY <1>6 DEF WGInv, CountInv
  <2>4. Cardinality(Blocked') = waiters' + gsema' BY <1>0, <1>1, <1>8, <2>2, <2>3
  <2> QED BY <1>6, <2>4 DEF CountInv
<1> QED BY <1>a, <1>b, <1>c, <1>d, <1>e, <1>f DEF WGInv

(* It parks, or finds no permit and starts over: it is still blocked. *)
LEMMA WaitSleepInv == ASSUME WGInv, NEW p \in Procs, WaitSleep(p) PROVE WGInv'
<1>0. /\ wpc[p] = "blocked" /\ UNCHANGED << counter, waiters, wpc, left >> /\ gsema' = gsema
      /\ gsst[p] \in {"idle", "woken"}
      /\ \E to \in {"idle", "parked"} : gsst' = [gsst EXCEPT ![p] = to]
  BY DEF WaitSleep, WGSem!Waits, WGSem!Park, WGSem!ResumeLose, WGSem!Goto
<1>1. WGSem!QueueInv'
  BY WGSem!QueueInvStep DEF WGSem!Next, WaitSleep, WGSem!Waits, WGInv
<1>2. gsst'[p] \in {"idle", "parked"} /\ \A q \in Procs : q # p => gsst'[q] = gsst[q]
  BY <1>0, Typed
<1>3. ASSUME NEW q \in Procs PROVE ToRelease(q)' = ToRelease(q)
  <2>1. CASE q = p BY <1>0, <2>1 DEF ToRelease
  <2>2. CASE q # p BY <1>0, <1>2, <2>2 DEF ToRelease
  <2> QED BY <2>1, <2>2
<1>4. \A q \in Procs : Releases(q)' = Releases(q) BY <1>3 DEF Releases
<1>9. Blocked' = Blocked BY <1>0
<1>a. WGTypeInv' BY <1>0 DEF WGInv, WGTypeInv
<1>c. LinkInv' BY <1>0, <1>2 DEF WGInv, LinkInv
<1>d. ZeroInv' BY <1>0 DEF WGInv, ZeroInv
<1>e. DrainInv' BY <1>0, <1>4 DEF WGInv, DrainInv, Draining
<1>f. CountInv' BY <1>0, <1>3, <1>4, <1>9 DEF WGInv, CountInv
<1> QED BY <1>a, <1>1, <1>c, <1>d, <1>e, <1>f DEF WGInv

(* A waiter gets its permit: the word is zero, and stays so until it looks.   *)
LEMMA WaitAcquiredInv == ASSUME WGInv, NEW p \in Procs, WaitAcquired(p) PROVE WGInv'
<1>0. /\ wpc[p] = "blocked" /\ wpc' = [wpc EXCEPT ![p] = "check"]
      /\ UNCHANGED << counter, waiters, left >>
  BY DEF WaitAcquired
<1>1. gsst[p] # "granted" BY DEF WGInv, LinkInv
<1>2. WGSem!AcquireNow(p) \/ WGSem!ResumeTake(p)
  BY <1>1 DEF WaitAcquired, WGSem!Acquired, WGSem!ResumeGranted, WGSem!Goto
<1>3. /\ gsema > 0 /\ gsema' = gsema - 1 /\ gsst[p] \in {"idle", "woken"}
      /\ gsst' = [gsst EXCEPT ![p] = "idle"]
  BY <1>2, Typed DEF WGSem!AcquireNow, WGSem!ResumeTake, WGSem!CanSemacquire, WGSem!Goto
<1>4. WGSem!QueueInv' BY <1>2, WGSem!QueueInvStep DEF WGSem!Next, WGInv
<1>5. /\ wpc'[p] = "check" /\ \A q \in Procs : q # p => wpc'[q] = wpc[q]
      /\ gsst'[p] = "idle" /\ \A q \in Procs : q # p => gsst'[q] = gsst[q]
  BY <1>0, <1>3, Typed DEF WGInv, WGTypeInv
<1>6. counter = 0 /\ waiters = 0 BY <1>3 DEF WGInv, DrainInv, Draining
<1>7. ASSUME NEW q \in Procs PROVE ToRelease(q)' = ToRelease(q)
  <2>1. CASE q = p BY <1>0, <1>5, <2>1 DEF ToRelease
  <2>2. CASE q # p BY <1>0, <1>5, <2>2 DEF ToRelease
  <2> QED BY <2>1, <2>2
<1>8. \A q \in Procs : Releases(q)' = Releases(q) BY <1>7 DEF Releases
<1>a. WGTypeInv' BY <1>0 DEF WGInv, WGTypeInv
<1>c. LinkInv' BY <1>0, <1>5 DEF WGInv, LinkInv
<1>d. ZeroInv' BY <1>0, <1>5 DEF WGInv, ZeroInv
<1>e. DrainInv' BY <1>0, <1>6, <1>8 DEF WGInv, DrainInv
<1>f. CountInv'
  <2>1. /\ p \in Blocked /\ p \notin Blocked'
        /\ \A q \in Procs : q # p => (q \in Blocked <=> q \in Blocked')
    BY <1>0, <1>5
  <2>2. Cardinality(Blocked') = Cardinality(Blocked) - 1
    BY <2>1, BlockedCounted, CountLoss
  <2>3. gsema \in Nat /\ waiters \in Nat BY Typed DEF WGInv, WGTypeInv
  <2>4. ASSUME NEW q \in Procs, Releases(q)'
        PROVE  Cardinality(Blocked') = waiters' + gsema' + ToRelease(q)'
    <3>1. Cardinality(Blocked) = waiters + gsema + ToRelease(q)
      BY <1>8, <2>4 DEF WGInv, CountInv
    <3> QED BY <1>0, <1>3, <1>7, <2>2, <2>3, <3>1, Typed
  <2>5. ASSUME \A q \in Procs : ~Releases(q)'
        PROVE  Cardinality(Blocked') = waiters' + gsema'
    <3>1. Cardinality(Blocked) = waiters + gsema
      BY <1>8, <2>5 DEF WGInv, CountInv
    <3> QED BY <1>0, <1>3, <2>2, <2>3, <3>1
  <2> QED BY <2>4, <2>5 DEF CountInv
<1> QED BY <1>a, <1>4, <1>c, <1>d, <1>e, <1>f DEF WGInv

(* It looks, and the word is zero. *)
LEMMA WaitReturnInv == ASSUME WGInv, NEW p \in Procs, WaitReturn(p) PROVE WGInv'
<1>0. /\ wpc[p] = "check" /\ UNCHANGED << counter, waiters, wgSem, left >>
      /\ wpc' = [wpc EXCEPT ![p] = IF counter # 0 \/ waiters # 0 THEN "panic" ELSE "outside"]
  BY DEF WaitReturn
<1>1. counter = 0 /\ waiters = 0 BY <1>0 DEF WGInv, DrainInv, Draining
<1>2. wpc' = [wpc EXCEPT ![p] = "outside"] BY <1>0, <1>1
<1>3. /\ wpc'[p] = "outside" /\ \A q \in Procs : q # p => wpc'[q] = wpc[q]
      /\ gsst' = gsst /\ gsema' = gsema /\ left' = left
  BY <1>0, <1>2 DEF WGInv, WGTypeInv, wgSem
<1>4. gsst[p] = "idle" BY <1>0, Typed DEF WGInv, LinkInv, WGSem!States
<1>5. ASSUME NEW q \in Procs PROVE ToRelease(q)' = ToRelease(q)
  <2>1. CASE q = p BY <1>0, <1>3, <2>1 DEF ToRelease
  <2>2. CASE q # p BY <1>3, <2>2 DEF ToRelease
  <2> QED BY <2>1, <2>2
<1>6. \A q \in Procs : Releases(q)' = Releases(q) BY <1>5 DEF Releases
<1>7. Cardinality(Blocked') = Cardinality(Blocked)
  BY <1>0, <1>2, SameBlocked DEF WGInv, WGTypeInv
<1>a. WGTypeInv' BY <1>0, <1>2 DEF WGInv, WGTypeInv
<1>b. WGSem!QueueInv' BY <1>0, SemUntouched DEF WGInv
<1>c. LinkInv' BY <1>3, <1>4 DEF WGInv, LinkInv
<1>d. ZeroInv' BY <1>0, <1>3 DEF WGInv, ZeroInv
<1>e. DrainInv' BY <1>0, <1>1, <1>6 DEF WGInv, DrainInv
<1>f. CountInv' BY <1>0, <1>3, <1>5, <1>6, <1>7 DEF WGInv, CountInv
<1> QED BY <1>a, <1>b, <1>c, <1>d, <1>e, <1>f DEF WGInv

-----------------------------------------------------------------------------
LEMMA InitInv == WGInit => WGInv
<1> SUFFICES ASSUME WGInit PROVE WGInv OBVIOUS
<1>0. /\ counter = 0 /\ waiters = 0 /\ gsema = 0
      /\ \A p \in Procs : wpc[p] = "outside" /\ left[p] = 0 /\ gsst[p] = "idle"
  BY DEF WGInit, WGSem!Init
<1>1. \A p \in Procs : ToRelease(p) = 0 BY <1>0 DEF ToRelease
<1>2. \A p \in Procs : ~Releases(p) BY <1>1 DEF Releases
<1>3. Cardinality(Blocked) = 0 BY <1>0, NobodyBlocked
<1>a. WGTypeInv BY <1>0 DEF WGTypeInv, WGInit
<1>b. WGSem!QueueInv BY WGSem!QueueInvInit DEF WGInit
<1>c. LinkInv /\ ZeroInv BY <1>0 DEF LinkInv, ZeroInv
<1>d. DrainInv BY <1>0, <1>2 DEF DrainInv
<1>e. CountInv BY <1>0, <1>2, <1>3 DEF CountInv
<1> QED BY <1>a, <1>b, <1>c, <1>d, <1>e DEF WGInv

LEMMA NextInv == WGInv /\ [WGNext]_wgVars => WGInv'
<1> SUFFICES ASSUME WGInv, [WGNext]_wgVars PROVE WGInv' OBVIOUS
<1>1. ASSUME NEW p \in Procs, NEW delta \in {-2, -1, 1, 2}, Add(p, delta) PROVE WGInv'
  BY <1>1, AddInv
<1>2. ASSUME NEW p \in Procs, WaitJoin(p) PROVE WGInv' BY <1>2, WaitJoinInv
<1>3. ASSUME NEW p \in Procs, AddRelease(p) PROVE WGInv'
  BY <1>3, ReleaseAddInv, ReleaseDequeueInv, ReleasedInv DEF AddRelease
<1>4. ASSUME NEW p \in Procs, WGStep(p) PROVE WGInv'
  BY <1>3, <1>4, AddRecheckInv, AddResetInv, AddReturnInv, WaitSleepInv, WaitAcquiredInv,
     WaitReturnInv DEF WGStep
<1>5. CASE UNCHANGED wgVars
  <2>1. UNCHANGED << counter, waiters, wgSem, gsema, gsst, wpc, left >>
    BY <1>5 DEF wgVars, wgSem
  <2>2. WGSem!QueueInv' BY <2>1, SemUntouched DEF WGInv
  <2>3. /\ WGTypeInv' = WGTypeInv /\ LinkInv' = LinkInv /\ ZeroInv' = ZeroInv
    BY <2>1 DEF WGTypeInv, LinkInv, ZeroInv
  <2>4. \A q \in Procs : ToRelease(q)' = ToRelease(q) BY <2>1 DEF ToRelease
  <2>5. DrainInv' = DrainInv BY <2>1, <2>4 DEF DrainInv, Draining, Releases
  <2>6. Blocked' = Blocked BY <2>1
  <2>7. CountInv' = CountInv BY <2>1, <2>4, <2>6 DEF CountInv, Releases
  <2> QED BY <2>2, <2>3, <2>5, <2>7 DEF WGInv
<1> QED BY <1>1, <1>2, <1>4, <1>5 DEF WGNext

(* The phases of a WaitGroup's use exclude each other as WGInv says             *)
(* (waitgroup.go:43-121), however many goroutines use it.                      *)
THEOREM WGInvariant == WGSpec => []WGInv
  BY InitInv, NextInv, PTL DEF WGSpec

(* At most one of a set whose members are all the same. *)
LEMMA AtMostOne ==
  ASSUME NEW S \in SUBSET Procs, \A p, q \in S : p = q
  PROVE  Cardinality(S) <= 1
<1>1. CASE S = {} BY <1>1, FS_EmptySet
<1>2. CASE S # {}
  <2>1. PICK p \in S : S = {p} BY <1>2
  <2>2. Cardinality({p}) = 1 BY FS_Singleton
  <2> QED BY <2>1, <2>2
<1> QED BY <1>1, <1>2

(* A program that keeps the documented rules never panics, every goroutine     *)
(* blocked in Wait is counted, has a permit or is about to be released, and    *)
(* none returns from Wait but at zero (waitgroup.go:72-84, 103-121).           *)
THEOREM NobodyStranded == WGSpec => []WaitersReleased
<1>1. WGInv => WaitersReleased
  <2> SUFFICES ASSUME WGInv PROVE WaitersReleased OBVIOUS
  <2> DEFINE releasers == {p \in Procs : ToRelease(p) > 0}
             zeroed == WAt({"zeroed", "reset"})
             some == CHOOSE p \in releasers : TRUE
  <2>1. /\ wpc \in [Procs -> WPCs] /\ WGSem!TypeOK /\ WGSem!QueueInv
        /\ WAt({"panic"}) = {}
    BY DEF WGInv, WGTypeInv, WGSem!QueueInv, WAt
  <2>2. Cardinality(zeroed) <= 1
    <3>1. zeroed \in SUBSET Procs BY DEF WAt
    <3>2. \A p, q \in zeroed : p = q BY DEF WGInv, ZeroInv, WAt
    <3> HIDE DEF zeroed
    <3> QED BY <3>1, <3>2, AtMostOne
  <2>3. Cardinality(releasers) <= 1
    <3>1. releasers \in SUBSET Procs OBVIOUS
    <3>2. \A p, q \in releasers : p = q BY DEF WGInv, DrainInv, Releases
    <3> HIDE DEF releasers
    <3> QED BY <3>1, <3>2, AtMostOne
  <2>4. WAt({"blocked"}) = Blocked BY DEF WAt
  <2>5. Cardinality(WAt({"blocked"}))
          = waiters + gsema + (IF releasers = {} THEN 0 ELSE ToRelease(some))
    <3>1. CASE releasers = {}
      <4>1. \A p \in Procs : ~Releases(p) BY <3>1 DEF Releases
      <4>2. Cardinality(Blocked) = waiters + gsema BY <4>1 DEF WGInv, CountInv
      <4>3. waiters + gsema = waiters + gsema + 0 BY Typed DEF WGInv, WGTypeInv
      <4> QED BY <2>4, <3>1, <4>2, <4>3
    <3>2. CASE releasers # {}
      <4>1. some \in releasers
        <5> HIDE DEF releasers
        <5> QED BY <3>2
      <4>2. some \in Procs /\ Releases(some) BY <4>1 DEF Releases
      <4> HIDE DEF some, releasers
      <4>3. Cardinality(Blocked) = waiters + gsema + ToRelease(some)
        BY <4>2 DEF WGInv, CountInv
      <4> QED BY <2>4, <3>2, <4>3
    <3> QED BY <3>1, <3>2
  <2>6. WAt({"check"}) # {} => counter = 0 /\ waiters = 0
    BY DEF WGInv, DrainInv, Draining, WAt
  <2> HIDE DEF zeroed
  <2> QED BY <2>1, <2>2, <2>3, <2>5, <2>6 DEF WaitersReleased, zeroed
<1> QED BY <1>1, WGInvariant, PTL

-----------------------------------------------------------------------------
(***************************************************************************)
(* Proofs about the chain of rings under sync.Pool, for any goroutines,    *)
(* values, ring sizes and index width that PoolAssumption allows: no       *)
(* element is cut off from the chain, and the chain implements Deque.      *)
(*                                                                         *)
(* PoolInv is inductive.  RangeInv says that the slots between tail and    *)
(* head hold elements; OwnerInv that a slot outside that range which is    *)
(* not empty is in one goroutine's hands until that goroutine clears it,   *)
(* so that the producer, which writes empty slots only, never writes over  *)
(* an element that is still read; PublishInv that a slot is written before *)
(* the consumers see it.  ChainInv, ProducerInv and ConsumerInv say which  *)
(* rings can hold elements: those between the oldest and the newest, none  *)
(* that a consumer may drop and none that popHead has backed up from.      *)
(*                                                                         *)
(* Hence an element published is the last of all, one the producer takes   *)
(* the last and one a consumer takes the first (JoinAppend, JoinTail).     *)
(***************************************************************************)
HIDE GoroutinesAssumption DEF WPCs, WGoto, Blocked
USE PoolAssumption

(* An index and the number of elements between it and the other one. *)
LEMMA Indexed ==
  ASSUME NEW h \in 0 .. Indexes - 1, NEW t \in 0 .. Indexes - 1
  PROVE  LET c == (h - t) % Indexes IN
         /\ Indexes \in Nat /\ Indexes > 0 /\ c \in 0 .. Indexes - 1
         /\ c = 0 <=> h = t
         /\ c = IF h < t THEN h - t + Indexes ELSE h - t
         /\ h = IF t + c < Indexes THEN t + c ELSE t + c - Indexes
<1>1. Indexes \in Nat /\ Indexes > 0 BY SMT
<1>2. -Indexes <= h - t /\ h - t < 2 * Indexes /\ h - t \in Int BY <1>1
<1>3. (h - t) % Indexes = IF h - t < 0 THEN h - t + Indexes
                          ELSE IF h - t < Indexes THEN h - t ELSE h - t - Indexes
  BY <1>1, <1>2, Modulo
<1> DEFINE c == (h - t) % Indexes
<1> HIDE DEF c
<1>4. c = IF h < t THEN h - t + Indexes ELSE h - t BY <1>1, <1>3 DEF c
<1>5. c \in 0 .. Indexes - 1 /\ (c = 0 <=> h = t) BY <1>1, <1>4
<1>6. h = IF t + c < Indexes THEN t + c ELSE t + c - Indexes BY <1>1, <1>4
<1> QED BY <1>1, <1>4, <1>5, <1>6 DEF c

LEMMA Stepped ==
  ASSUME NEW h \in 0 .. Indexes - 1, NEW t \in 0 .. Indexes - 1
  PROVE  LET c == (h - t) % Indexes IN
         /\ (h + 1) % Indexes = IF h + 1 < Indexes THEN h + 1 ELSE 0
         /\ (h - 1) % Indexes = IF h = 0 THEN Indexes - 1 ELSE h - 1
         /\ (h + 1) % Indexes \in 0 .. Indexes - 1 /\ (h - 1) % Indexes \in 0 .. Indexes - 1
         /\ c + 1 < Indexes => (((h + 1) % Indexes) - t) % Indexes = c + 1
         /\ h # t => /\ (((h - 1) % Indexes) - t) % Indexes = c - 1
                     /\ (h - ((t + 1) % Indexes)) % Indexes = c - 1
<1>1. Indexes \in Nat /\ Indexes > 0 BY Indexed
<1> DEFINE up(x) == IF x + 1 < Indexes THEN x + 1 ELSE 0
           dn(x) == IF x = 0 THEN Indexes - 1 ELSE x - 1
           c(x, y) == IF x < y THEN x - y + Indexes ELSE x - y
<1>2. ASSUME NEW x \in 0 .. Indexes - 1 PROVE (x + 1) % Indexes = up(x) /\ up(x) \in 0 .. Indexes - 1
  <2>1. x + 1 \in Int /\ -Indexes <= x + 1 /\ x + 1 < 2 * Indexes BY <1>1
  <2>2. (x + 1) % Indexes = IF x + 1 < 0 THEN x + 1 + Indexes
                            ELSE IF x + 1 < Indexes THEN x + 1 ELSE x + 1 - Indexes
    BY <1>1, <2>1, Modulo
  <2> QED BY <1>1, <2>2
<1>3. (h - 1) % Indexes = dn(h) /\ dn(h) \in 0 .. Indexes - 1
  <2>1. h - 1 \in Int /\ -Indexes <= h - 1 /\ h - 1 < 2 * Indexes BY <1>1
  <2>2. (h - 1) % Indexes = IF h - 1 < 0 THEN h - 1 + Indexes
                            ELSE IF h - 1 < Indexes THEN h - 1 ELSE h - 1 - Indexes
    BY <1>1, <2>1, Modulo
  <2> QED BY <1>1, <2>2
<1>4. ASSUME NEW x \in 0 .. Indexes - 1, NEW y \in 0 .. Indexes - 1
      PROVE  (x - y) % Indexes = c(x, y)
  BY Indexed
<1>5. (h - t) % Indexes = c(h, t) BY <1>4
<1>6. c(h, t) + 1 < Indexes => c(up(h), t) = c(h, t) + 1 BY <1>1
<1>7. h # t => c(dn(h), t) = c(h, t) - 1 /\ c(h, up(t)) = c(h, t) - 1 BY <1>1
<1>8. /\ (up(h) - t) % Indexes = c(up(h), t) /\ (dn(h) - t) % Indexes = c(dn(h), t)
      /\ (h - up(t)) % Indexes = c(h, up(t))
  BY <1>2, <1>3, <1>4
<1>9. (h + 1) % Indexes = up(h) /\ (t + 1) % Indexes = up(t) BY <1>2
<1>10. c(h, t) + 1 < Indexes => (((h + 1) % Indexes) - t) % Indexes = c(h, t) + 1
  BY <1>6, <1>8, <1>9
<1>11. h # t => (((h - 1) % Indexes) - t) % Indexes = c(h, t) - 1
  BY <1>3, <1>7, <1>8
<1>12. h # t => (h - ((t + 1) % Indexes)) % Indexes = c(h, t) - 1
  BY <1>7, <1>8, <1>9
<1> QED BY <1>2, <1>3, <1>5, <1>10, <1>11, <1>12

LEMMA SameSlot ==
  ASSUME NEW s \in Nat, s > 0, Indexes % s = 0, NEW a \in Nat, NEW b \in Nat,
         a = b \/ a = Indexes + b
  PROVE  a % s = b % s
<1>1. Indexes \in Nat BY PoolAssumption
<1>2. (Indexes + b) % s = b % s BY <1>1, Wrapped
<1> QED BY <1>2

LEMMA HeadSlot ==
  ASSUME NEW h \in 0 .. Indexes - 1, NEW t \in 0 .. Indexes - 1,
         NEW s \in Nat, s > 0, Indexes % s = 0
  PROVE  h % s = (t + ((h - t) % Indexes)) % s
<1> DEFINE c == (h - t) % Indexes
           a == t + c
<1>1. /\ Indexes \in Nat /\ Indexes > 0 /\ c \in 0 .. Indexes - 1
      /\ h = IF t + c < Indexes THEN t + c ELSE t + c - Indexes
  BY Indexed
<1> HIDE DEF c
<1>2. a \in Nat /\ h \in Nat /\ (a = h \/ a = Indexes + h) BY <1>1
<1> HIDE DEF a
<1>3. a % s = h % s BY <1>2, SameSlot
<1> QED BY <1>3 DEF a, c

Divides(s) == s \in Nat /\ s > 0 /\ Indexes % s = 0
Turn(i)    == i % Indexes

LEMMA TakenSlot ==
  ASSUME NEW h \in 0 .. Indexes - 1, NEW t \in 0 .. Indexes - 1, h # t, NEW s, Divides(s),
         NEW c, c = Turn(h - t), NEW x, x = Turn(h - 1)
  PROVE  x % s = (t + (c - 1)) % s
<1> DEFINE a == t + (c - 1)
<1>1. /\ Indexes \in Nat /\ Indexes > 0 /\ c \in 0 .. Indexes - 1
      /\ c = 0 <=> h = t
      /\ c = IF h < t THEN h - t + Indexes ELSE h - t
  BY Indexed DEF Turn
<1>2. x = IF h = 0 THEN Indexes - 1 ELSE h - 1 BY Stepped DEF Turn
<1>3. x \in Nat /\ a \in Nat /\ (a = x \/ a = Indexes + x) BY <1>1, <1>2
<1> HIDE DEF a
<1>4. a % s = x % s BY <1>3, SameSlot DEF Divides
<1> QED BY <1>4 DEF a

LEMMA NextSlot ==
  ASSUME NEW t \in 0 .. Indexes - 1, NEW s \in Nat, s > 0, Indexes % s = 0, NEW k \in Nat
  PROVE  (((t + 1) % Indexes) + k) % s = (t + (k + 1)) % s
<1> DEFINE y == (t + 1) % Indexes
           x == y + k
           a == t + (k + 1)
<1>1. Indexes \in Nat /\ Indexes > 0 BY Indexed
<1>2. y = IF t + 1 < Indexes THEN t + 1 ELSE 0 BY Stepped
<1> HIDE DEF y
<1>3. x \in Nat /\ a \in Nat /\ (a = x \/ a = Indexes + x) BY <1>1, <1>2
<1> HIDE DEF a, x
<1>4. a % s = x % s BY <1>3, SameSlot
<1> QED BY <1>4 DEF a, x, y

-----------------------------------------------------------------------------
(* The k-th place after the tail of ring e, an empty ring, and the goroutines *)
(* that own a slot outside the range of its ring.                             *)
At(e, k) == (tail[e] + k) % Size(e)
Drained(e) == head[e] = tail[e]
Owns(p)  == ppc[p] \in {"headOwn", "tailOwn", "tailFree"}

ProducerPCs == {"idle", "push", "publish", "alloc", "link", "popHead", "headPrev", "headOwn",
                "headNone"}
ConsumerPCs == {"idle", "tailNext", "popTail", "drop", "unprev", "tailOwn", "tailFree"}

PoolType ==
  /\ head \in [Elts -> 0 .. Indexes - 1] /\ tail \in [Elts -> 0 .. Indexes - 1]
  /\ DOMAIN vals = Elts
  /\ \A e \in Elts : vals[e] \in [0 .. Size(e) - 1 -> Values \cup {NoVal}]
  /\ next \in [Elts -> 0 .. MaxElts] /\ prev \in [Elts -> 0 .. MaxElts]
  /\ chead \in 0 .. MaxElts /\ ctail \in 0 .. MaxElts
  /\ ppc \in [Workers -> PPCs]
  /\ d \in [Workers -> 0 .. MaxElts] /\ d2 \in [Workers -> 0 .. MaxElts]
  /\ own \in [Workers -> Nat]
  /\ val \in [Workers -> Values \cup {NoVal}]

(* The rings in use are linked, those before the oldest are empty for good.   *)
ChainInv ==
  /\ ctail <= chead /\ (ctail = 0 => chead = 0)
  /\ \A e \in Elts : /\ Drained(e) \/ (ctail <= e /\ e <= chead)
                     /\ next[e] # 0 => next[e] = e + 1 /\ e < chead
                     /\ prev[e] # 0 => prev[e] = e - 1
                     /\ ctail < e /\ e <= chead => prev[e] = e - 1

(* The producer is at the newest ring when it pushes, and leaves no element   *)
(* behind when it backs up.                                                   *)
ProducerInv ==
  LET e == d[Producer] IN
  /\ ppc[Producer] \in ProducerPCs
  /\ ppc[Producer] \in {"push", "publish", "alloc"} => e = chead
  /\ ppc[Producer] = "link" => chead = e + 1
  /\ ppc[Producer] \in ProducerPCs \ {"idle", "headNone"} => 1 <= e /\ e <= chead
  /\ ppc[Producer] \in {"push", "publish", "alloc", "link"} => val[Producer] \in Values
  /\ ppc[Producer] \in {"popHead", "headPrev"} => \A f \in Elts : f > e => Drained(f)
  /\ ppc[Producer] = "headPrev" => Drained(e)
  /\ ppc[Producer] = "headNone" => \A f \in Elts : Drained(f)

(* A consumer is at the oldest ring or one that was dropped, which it may drop *)
(* itself only if there is a next one and it is empty.                         *)
ConsumerInv ==
  \A p \in Workers \ {Producer} :
    /\ ppc[p] \in ConsumerPCs
    /\ ppc[p] \in {"tailNext", "popTail", "drop", "unprev"} => 1 <= d[p] /\ d[p] <= ctail
    /\ ppc[p] \in {"popTail", "drop"} /\ d2[p] # 0 => next[d[p]] = d2[p]
    /\ ppc[p] = "drop" => d2[p] # 0 /\ Drained(d[p])

(* The slots between tail and head hold elements. *)
RangeInv ==
  \A e \in Elts : /\ Count(e) <= Size(e)
                  /\ \A k \in 0 .. Count(e) - 1 : vals[e][At(e, k)] \in Values

(* A slot that was taken is outside that range, in one goroutine's hands, and *)
(* not empty before that goroutine has cleared it.                            *)
OwnerInv ==
  \A p \in Workers : Owns(p) =>
    /\ d[p] \in Elts /\ own[p] \in 0 .. Size(d[p]) - 1
    /\ vals[d[p]][own[p]] \in Values
    /\ \A k \in 0 .. Count(d[p]) - 1 : own[p] # At(d[p], k)
    /\ \A q \in Workers : Owns(q) /\ d[q] = d[p] /\ own[q] = own[p] => q = p
    /\ ppc[p] = "tailFree" => val[p] = vals[d[p]][own[p]]

(* What the producer is about to publish is in a slot that nobody else has.   *)
PublishInv ==
  LET e == d[Producer] IN
  ppc[Producer] = "publish" =>
    /\ Count(e) < Size(e)
    /\ vals[e][At(e, Count(e))] = val[Producer]
    /\ \A p \in Workers : Owns(p) /\ d[p] = e => own[p] # At(e, Count(e))

PoolInv == /\ PoolType /\ ChainInv /\ ProducerInv /\ ConsumerInv
           /\ RangeInv /\ OwnerInv /\ PublishInv

-----------------------------------------------------------------------------
(* Rings *)

LEMMA Round ==
  ASSUME NEW t \in 0 .. Indexes - 1, NEW s \in Nat, s <= Indexes
  PROVE  (t + s) % Indexes = IF t + s < Indexes THEN t + s ELSE t + s - Indexes
<1> DEFINE a == t + s
<1>1. Indexes \in Nat /\ Indexes > 0 BY Indexed
<1>2. a \in Int /\ 0 <= a /\ a < 2 * Indexes BY <1>1
<1> HIDE DEF a
<1>3. -Indexes <= a BY <1>1, <1>2
<1>4. a % Indexes = IF a < 0 THEN a + Indexes ELSE IF a < Indexes THEN a ELSE a - Indexes
  BY <1>1, <1>2, <1>3, Modulo
<1> QED BY <1>2, <1>4 DEF a

LEMMA PlaceFacts ==
  ASSUME PoolType, NEW e \in Elts
  PROVE  /\ Size(e) \in Nat /\ Size(e) > 0 /\ 2 * Size(e) <= Indexes
         /\ head[e] \in 0 .. Indexes - 1 /\ tail[e] \in 0 .. Indexes - 1 /\ tail[e] \in Nat
         /\ Count(e) \in Nat /\ Count(e) < Indexes
         /\ Count(e) = 0 <=> Drained(e)
         /\ Slot(e, head[e]) = At(e, Count(e)) /\ Slot(e, tail[e]) = At(e, 0)
         /\ Count(e) <= Size(e) => (Full(e) <=> Count(e) = Size(e))
         /\ \A k \in Nat : At(e, k) \in 0 .. Size(e) - 1
         /\ \A j, k \in Nat : j < k /\ k < j + Size(e) => At(e, j) # At(e, k)
<1> DEFINE h == head[e]
           t == tail[e]
           s == Size(e)
           c == (h - t) % Indexes
<1>1. s \in Nat /\ s > 0 /\ 2 * s <= Indexes /\ Indexes % s = 0 BY PoolAssumption
<1>2. h \in 0 .. Indexes - 1 /\ t \in 0 .. Indexes - 1 BY DEF PoolType
<1> HIDE DEF h, t, s
<1>3. /\ Indexes \in Nat /\ Indexes > 0 /\ c \in 0 .. Indexes - 1
      /\ c = 0 <=> h = t
      /\ h = IF t + c < Indexes THEN t + c ELSE t + c - Indexes
  BY <1>2, Indexed
<1>4. h % s = (t + c) % s
  <2>1. s \in Nat /\ s > 0 /\ Indexes % s = 0 BY <1>1
  <2> HIDE DEF c
  <2>2. h % s = (t + ((h - t) % Indexes)) % s BY ONLY <1>2, <2>1, HeadSlot
  <2> QED BY <2>2 DEF c
<1>5. c <= s => ((t + s) % Indexes = h <=> c = s)
  <2>1. t + s \in Int /\ -Indexes <= t + s /\ t + s < 2 * Indexes BY <1>1, <1>2, <1>3
  <2>2. (t + s) % Indexes = IF t + s < Indexes THEN t + s ELSE t + s - Indexes
    BY <1>1, <1>2, <1>3, Round
  <2> HIDE DEF c
  <2> QED BY <1>1, <1>2, <1>3, <2>2
<1>6. ASSUME NEW k \in Nat PROVE (t + k) % s \in 0 .. s - 1
  <2>1. t + k \in Nat BY <1>2
  <2> QED BY <1>1, <2>1, DivFacts
<1>7. ASSUME NEW j \in Nat, NEW k \in Nat, j < k, k < j + s PROVE (t + j) % s # (t + k) % s
  <2>1. t + j \in Nat /\ t + k \in Nat /\ t + j < t + k /\ t + k < t + j + s BY <1>1, <1>2, <1>7
  <2> QED BY <1>1, <2>1, ModApart
<1>8. Count(e) = c BY DEF Count, c, h, t
<1>9. t % s = (t + 0) % s BY <1>2
<1> QED
  BY <1>1, <1>2, <1>3, <1>4, <1>5, <1>6, <1>7, <1>8, <1>9
     DEF h, t, s, Slot, At, Full, Drained

LEMMA LastSlot ==
  ASSUME PoolType, NEW e \in Elts, ~Drained(e)
  PROVE  Slot(e, (head[e] - 1) % Indexes) = At(e, Count(e) - 1)
<1> DEFINE h == head[e]
           t == tail[e]
           s == Size(e)
<1>1. h \in 0 .. Indexes - 1 /\ t \in 0 .. Indexes - 1 /\ h # t BY PlaceFacts DEF Drained
<1>2. Divides(s) BY PoolAssumption DEF Divides
<1> DEFINE c == Turn(h - t)
           x == Turn(h - 1)
<1> HIDE DEF h, t, s
<1>3. c = Turn(h - t) /\ x = Turn(h - 1) OBVIOUS
<1> HIDE DEF c, x
<1>4. x % s = (t + (c - 1)) % s BY <1>1, <1>2, <1>3, TakenSlot
<1> QED BY <1>4 DEF h, t, s, c, x, Turn, Slot, At, Count

(* Publishing, and taking at the head and at the tail. *)
LEMMA Published ==
  ASSUME PoolType, NEW e \in Elts, Count(e) < Size(e),
         head'[e] = (head[e] + 1) % Indexes, tail'[e] = tail[e]
  PROVE  /\ Count(e)' = Count(e) + 1
         /\ \A k : At(e, k)' = At(e, k)
<1>1. Count(e) + 1 < Indexes BY PlaceFacts
<1>2. (((head[e] + 1) % Indexes) - tail[e]) % Indexes = ((head[e] - tail[e]) % Indexes) + 1
  <2>1. head[e] \in 0 .. Indexes - 1 /\ tail[e] \in 0 .. Indexes - 1 BY PlaceFacts
  <2> QED BY <1>1, <2>1, Stepped DEF Count
<1> QED BY <1>2 DEF Count, At

LEMMA TakenAtHead ==
  ASSUME PoolType, NEW e \in Elts, ~Drained(e),
         head'[e] = (head[e] - 1) % Indexes, tail'[e] = tail[e]
  PROVE  /\ Count(e)' = Count(e) - 1
         /\ \A k : At(e, k)' = At(e, k)
         /\ Slot(e, head'[e]) = At(e, Count(e) - 1)
<1>1. head[e] \in 0 .. Indexes - 1 /\ tail[e] \in 0 .. Indexes - 1 BY PlaceFacts
<1>2. (((head[e] - 1) % Indexes) - tail[e]) % Indexes = ((head[e] - tail[e]) % Indexes) - 1
  BY <1>1, Stepped DEF Drained
<1> QED BY <1>2, LastSlot DEF Count, At

LEMMA TakenAtTail ==
  ASSUME PoolType, NEW e \in Elts, ~Drained(e),
         tail'[e] = (tail[e] + 1) % Indexes, head'[e] = head[e]
  PROVE  /\ Count(e)' = Count(e) - 1
         /\ \A k \in Nat : At(e, k)' = At(e, k + 1)
<1>1. head[e] \in 0 .. Indexes - 1 /\ tail[e] \in 0 .. Indexes - 1 BY PlaceFacts
<1>2. Size(e) \in Nat /\ Size(e) > 0 /\ Indexes % Size(e) = 0 BY PoolAssumption
<1>3. (head[e] - ((tail[e] + 1) % Indexes)) % Indexes = ((head[e] - tail[e]) % Indexes) - 1
  BY <1>1, Stepped DEF Drained
<1>4. \A k \in Nat : (((tail[e] + 1) % Indexes) + k) % Size(e) = (tail[e] + (k + 1)) % Size(e)
  BY <1>1, <1>2, NextSlot
<1> QED BY <1>3, <1>4 DEF Count, At

LEMMA RingKept ==
  ASSUME NEW e \in Elts, head'[e] = head[e], tail'[e] = tail[e]
  PROVE  /\ Count(e)' = Count(e) /\ Drained(e)' = Drained(e)
         /\ \A k : At(e, k)' = At(e, k)
BY DEF Count, At, Drained

-----------------------------------------------------------------------------
(* Types *)
LEMMA PoolTypeInit ==
  ASSUME PoolInit PROVE PoolType
<1>1. \A e \in Elts : vals[e] \in [0 .. Size(e) - 1 -> Values \cup {NoVal}] BY DEF PoolInit
<1>2. 0 \in 0 .. Indexes - 1
  <2>1. 1 \in Elts BY DEF Elts
  <2>2. Size(1) \in Nat \ {0} /\ 2 * Size(1) <= Indexes BY <2>1, PoolAssumption
  <2> QED BY <2>2
<1>3. 0 \in 0 .. MaxElts /\ "idle" \in PPCs BY DEF PPCs
<1> QED BY <1>1, <1>2, <1>3 DEF PoolInit, PoolType

LEMMA Places ==
  ASSUME PoolInv
  PROVE  /\ ppc[Producer] \in ProducerPCs \ {"idle", "headNone"} => d[Producer] \in Elts
         /\ \A p \in Workers : Owns(p) => d[p] \in Elts
         /\ \A p \in Workers \ {Producer} :
              ppc[p] \in {"tailNext", "popTail", "drop", "unprev"} => d[p] \in Elts
<1>1. chead \in 0 .. MaxElts /\ ctail \in 0 .. MaxElts /\ d \in [Workers -> 0 .. MaxElts]
      /\ MaxElts \in Nat
  BY PoolAssumption DEF PoolInv, PoolType
<1>2. ppc[Producer] \in ProducerPCs \ {"idle", "headNone"} => d[Producer] \in Elts
  BY <1>1, PoolAssumption DEF PoolInv, ProducerInv, Elts
<1>3. \A p \in Workers : Owns(p) => d[p] \in Elts BY DEF PoolInv, OwnerInv
<1>4. \A p \in Workers \ {Producer} :
              ppc[p] \in {"tailNext", "popTail", "drop", "unprev"} => d[p] \in Elts
  BY <1>1 DEF PoolInv, ConsumerInv, Elts
<1> QED BY <1>2, <1>3, <1>4

(* One slot is written. *)
LEMMA SlotWritten ==
  ASSUME PoolType, NEW e \in Elts, NEW i \in 0 .. Size(e) - 1, NEW v \in Values \cup {NoVal},
         vals' = [vals EXCEPT ![e][i] = v]
  PROVE  /\ DOMAIN vals' = Elts
         /\ \A f \in Elts : vals'[f] \in [0 .. Size(f) - 1 -> Values \cup {NoVal}]
         /\ vals'[e][i] = v
         /\ \A f \in Elts : \A j \in 0 .. Size(f) - 1 :
              ~(f = e /\ j = i) => vals'[f][j] = vals[f][j]
<1>1. DOMAIN vals = Elts /\ \A f \in Elts : vals[f] \in [0 .. Size(f) - 1 -> Values \cup {NoVal}]
  BY DEF PoolType
<1>2. vals' = [vals EXCEPT ![e] = [vals[e] EXCEPT ![i] = v]] OBVIOUS
<1> DEFINE r == [vals[e] EXCEPT ![i] = v]
<1>3. /\ r \in [0 .. Size(e) - 1 -> Values \cup {NoVal}] /\ r[i] = v
      /\ \A j \in 0 .. Size(e) - 1 : j # i => r[j] = vals[e][j]
  <2>1. vals[e] \in [0 .. Size(e) - 1 -> Values \cup {NoVal}] BY <1>1
  <2> QED BY <2>1
<1> HIDE DEF r
<1>4. DOMAIN vals' = Elts /\ vals'[e] = r /\ \A f \in Elts : f # e => vals'[f] = vals[f]
  BY <1>1, <1>2 DEF r
<1> QED BY <1>1, <1>3, <1>4

LEMMA SlotType ==
  ASSUME NEW e \in Elts, NEW i \in Nat
  PROVE  Slot(e, i) \in 0 .. Size(e) - 1 /\ Slot(e, i) \in Nat
<1>1. Size(e) \in Nat /\ Size(e) > 0 BY PoolAssumption
<1>2. i % Size(e) \in 0 .. Size(e) - 1 BY <1>1, DivFacts
<1> QED BY <1>1, <1>2 DEF Slot

(* A step either moves the head or the tail of one ring, or none. *)
LEMMA Turned ==
  ASSUME PoolType, NEW e \in Elts
  PROVE  /\ (head[e] + 1) % Indexes \in 0 .. Indexes - 1
         /\ (head[e] - 1) % Indexes \in 0 .. Indexes - 1
         /\ (tail[e] + 1) % Indexes \in 0 .. Indexes - 1
<1>1. head[e] \in 0 .. Indexes - 1 /\ tail[e] \in 0 .. Indexes - 1 BY DEF PoolType
<1> QED BY <1>1, Stepped

LEMMA PoolTypeStep ==
  ASSUME PoolInv, PoolNext
  PROVE  PoolType'
<1> USE PoolAssumption
<1>0. PoolType BY DEF PoolInv
<1>1. /\ chead \in 0 .. MaxElts /\ ctail \in 0 .. MaxElts /\ 0 \in 0 .. MaxElts
      /\ 1 \in 0 .. MaxElts /\ MaxElts \in Nat
      /\ \A p \in Workers : /\ d[p] \in 0 .. MaxElts /\ d2[p] \in 0 .. MaxElts
                            /\ val[p] \in Values \cup {NoVal} /\ ppc[p] \in PPCs
                            /\ own[p] \in Nat
  BY <1>0 DEF PoolType
<1>2. \A f, t : \A p \in Workers : t \in PPCs /\ PGoto(p, f, t) => ppc' \in [Workers -> PPCs]
  BY <1>0 DEF PoolType, PGoto
<1>3. PPCs = {"idle", "push", "publish", "alloc", "link", "popHead", "headPrev", "headOwn",
         "headNone", "tailNext", "popTail", "drop", "unprev", "tailOwn", "tailFree"} BY DEF PPCs
<1>4. ASSUME NEW v \in Values, Push(v) PROVE PoolType'
  <2>1. ppc' \in [Workers -> PPCs] BY <1>2, <1>3, <1>4 DEF Push
  <2>2. chead' \in 0 .. MaxElts /\ ctail' \in 0 .. MaxElts BY <1>1, <1>4 DEF Push
  <2> QED BY <1>0, <1>4, <2>1, <2>2 DEF Push, PoolType, rings
<1>5. CASE PushSlot
  <2> DEFINE e == d[Producer]
             i == Slot(e, head[e])
  <2>1. e \in Elts BY <1>5, Places DEF PushSlot, ProducerPCs
  <2>2. head[e] \in Nat BY <1>0, <2>1, PlaceFacts
  <2>3. i \in 0 .. Size(e) - 1 BY <2>1, <2>2, SlotType
  <2>4. /\ DOMAIN vals' = Elts
        /\ \A f \in Elts : vals'[f] \in [0 .. Size(f) - 1 -> Values \cup {NoVal}]
    <3>1. CASE vals' = vals BY <1>0, <3>1 DEF PoolType
    <3>2. CASE vals' = [vals EXCEPT ![e][i] = val[Producer]]
      <4>1. val[Producer] \in Values \cup {NoVal} BY <1>1
      <4> HIDE DEF e, i
      <4> QED BY <1>0, <2>1, <2>3, <3>2, <4>1, SlotWritten
    <3> QED BY <1>5, <3>1, <3>2 DEF PushSlot
  <2>5. ppc' \in [Workers -> PPCs] BY <1>2, <1>3, <1>5 DEF PushSlot
  <2> QED BY <1>0, <1>5, <2>4, <2>5 DEF PushSlot, PoolType
<1>6. CASE PushPublish
  <2>1. ppc' \in [Workers -> PPCs] BY <1>2, <1>3, <1>6 DEF PushPublish
  <2>2. head' \in [Elts -> 0 .. Indexes - 1]
    <3>1. d[Producer] \in Elts BY <1>6, Places DEF PushPublish, PGoto, ProducerPCs
    <3>2. head' = [head EXCEPT ![d[Producer]] = (head[d[Producer]] + 1) % Indexes]
      BY <1>6 DEF PushPublish
    <3> DEFINE x == (head[d[Producer]] + 1) % Indexes
    <3>3. x \in 0 .. Indexes - 1 BY <1>0, <3>1, Turned
    <3> HIDE DEF x
    <3>4. head' = [head EXCEPT ![d[Producer]] = x] BY <3>2 DEF x
    <3> QED BY <1>0, <3>3, <3>4 DEF PoolType
  <2> QED BY <1>0, <1>1, <1>6, <2>1, <2>2 DEF PushPublish, PoolType
<1>7. CASE PushAlloc
  <2>1. ppc' \in [Workers -> PPCs] BY <1>2, <1>3, <1>7 DEF PushAlloc
  <2>2. chead' \in 0 .. MaxElts BY <1>1, <1>7 DEF PushAlloc
  <2>3. prev' \in [Elts -> 0 .. MaxElts] BY <1>0, <1>1, <1>7 DEF PushAlloc, PoolType
  <2> QED BY <1>0, <1>7, <2>1, <2>2, <2>3 DEF PushAlloc, PoolType
<1>8. CASE PushLink
  <2>1. ppc' \in [Workers -> PPCs] BY <1>2, <1>3, <1>8 DEF PushLink
  <2> QED BY <1>0, <1>8, <2>1 DEF PushLink, PoolType
<1>9. CASE PopHead
  <2>1. ppc' \in [Workers -> PPCs] BY <1>2, <1>3, <1>9 DEF PopHead
  <2> QED BY <1>0, <1>9, <2>1 DEF PopHead, PoolType, rings
<1>10. CASE HeadTake
  <2> DEFINE e == d[Producer]
  <2>1. ppc' \in [Workers -> PPCs] BY <1>2, <1>3, <1>10 DEF HeadTake
  <2>2. e \in Elts BY <1>10, Places DEF HeadTake, PGoto, ProducerPCs
  <2> DEFINE x == (head[e] - 1) % Indexes
  <2>3. x \in 0 .. Indexes - 1 BY <1>0, <2>2, Turned
  <2>4. head' = [head EXCEPT ![e] = x] BY <1>10 DEF HeadTake
  <2> HIDE DEF x
  <2>5. head' \in [Elts -> 0 .. Indexes - 1] /\ head'[e] = x
    BY <1>0, <2>2, <2>3, <2>4 DEF PoolType
  <2>6. x \in Nat BY <2>3
  <2>7. Slot(e, x) \in Nat BY <2>2, <2>6, SlotType
  <2>8. own' \in [Workers -> Nat] BY <1>0, <1>10, <2>5, <2>7 DEF HeadTake, PoolType
  <2> QED BY <1>0, <1>10, <2>1, <2>5, <2>8 DEF HeadTake, PoolType
<1>11. CASE HeadEmpty
  <2>1. ppc' \in [Workers -> PPCs] BY <1>2, <1>3, <1>11 DEF HeadEmpty
  <2> QED BY <1>0, <1>11, <2>1 DEF HeadEmpty, PoolType, rings
<1>12. CASE HeadPrev
  <2>1. ppc' \in [Workers -> PPCs] BY <1>2, <1>3, <1>12 DEF HeadPrev
  <2>2. d[Producer] \in Elts BY <1>12, Places DEF HeadPrev, PGoto, ProducerPCs
  <2>3. prev[d[Producer]] \in 0 .. MaxElts BY <1>0, <2>2 DEF PoolType
  <2> QED BY <1>0, <1>12, <2>1, <2>3 DEF HeadPrev, PoolType, rings
<1>13. ASSUME NEW p \in Workers, NEW f \in PPCs, Owns(p), PGoto(p, f, "idle"),
              vals' = [vals EXCEPT ![d[p]][own[p]] = NoVal]
       PROVE  /\ ppc' \in [Workers -> PPCs]
              /\ DOMAIN vals' = Elts
              /\ \A g \in Elts : vals'[g] \in [0 .. Size(g) - 1 -> Values \cup {NoVal}]
  <2>1. ppc' \in [Workers -> PPCs] BY <1>2, <1>3, <1>13
  <2>2. d[p] \in Elts /\ own[p] \in 0 .. Size(d[p]) - 1 BY <1>13 DEF PoolInv, OwnerInv
  <2> QED BY <1>0, <1>13, <2>1, <2>2, SlotWritten
<1>14. CASE HeadReturn
  <2>1. /\ ppc' \in [Workers -> PPCs]
        /\ DOMAIN vals' = Elts
        /\ \A g \in Elts : vals'[g] \in [0 .. Size(g) - 1 -> Values \cup {NoVal}]
    BY <1>3, <1>13, <1>14 DEF HeadReturn, PGoto, Owns
  <2> QED BY <1>0, <1>1, <1>14, <2>1 DEF HeadReturn, PoolType
<1>15. CASE HeadNone
  <2>1. ppc' \in [Workers -> PPCs] BY <1>2, <1>3, <1>15 DEF HeadNone
  <2> QED BY <1>0, <1>1, <1>15, <2>1 DEF HeadNone, PoolType, rings
<1>16. ASSUME NEW p \in Workers \ {Producer}, Consume(p) PROVE PoolType'
  <2>1. CASE PopTail(p)
    <3>1. ppc' \in [Workers -> PPCs] BY <1>2, <1>3, <2>1 DEF PopTail
    <3> QED BY <1>0, <2>1, <3>1 DEF PopTail, PoolType, rings
  <2>2. CASE TailNext(p)
    <3>1. ppc' \in [Workers -> PPCs] BY <1>2, <1>3, <2>2 DEF TailNext
    <3>2. d[p] \in Elts BY <2>2, Places DEF TailNext, PGoto
    <3>3. next[d[p]] \in 0 .. MaxElts BY <1>0, <3>2 DEF PoolType
    <3> QED BY <1>0, <2>2, <3>1, <3>3 DEF TailNext, PoolType, rings
  <2>3. CASE TailTake(p)
    <3> DEFINE e == d[p]
    <3>1. ppc' \in [Workers -> PPCs] BY <1>2, <1>3, <2>3 DEF TailTake
    <3>2. e \in Elts BY <2>3, Places DEF TailTake, PGoto
    <3> DEFINE x == (tail[e] + 1) % Indexes
    <3>3. x \in 0 .. Indexes - 1 BY <1>0, <3>2, Turned
    <3>4. tail' = [tail EXCEPT ![e] = x] BY <2>3 DEF TailTake
    <3> HIDE DEF x
    <3>5. tail' \in [Elts -> 0 .. Indexes - 1] BY <1>0, <3>3, <3>4 DEF PoolType
    <3>6. Slot(e, tail[e]) \in Nat BY <1>0, <3>2, PlaceFacts, SlotType
    <3>7. own' \in [Workers -> Nat] BY <1>0, <2>3, <3>6 DEF TailTake, PoolType
    <3> QED BY <1>0, <2>3, <3>1, <3>5, <3>7 DEF TailTake, PoolType
  <2>4. CASE TailEmpty(p)
    <3>1. ppc' \in [Workers -> PPCs] BY <1>2, <1>3, <2>4 DEF TailEmpty
    <3>2. d' \in [Workers -> 0 .. MaxElts] /\ d2' \in [Workers -> 0 .. MaxElts]
      BY <1>0, <1>1, <2>4 DEF TailEmpty, Leave, PoolType
    <3> QED BY <1>0, <2>4, <3>1, <3>2 DEF TailEmpty, PoolType, rings
  <2>5. CASE TailDrop(p)
    <3>1. ppc' \in [Workers -> PPCs] BY <1>2, <1>3, <2>5 DEF TailDrop
    <3>2. ctail' \in 0 .. MaxElts BY <1>1, <2>5 DEF TailDrop
    <3> QED BY <1>0, <1>1, <2>5, <3>1, <3>2 DEF TailDrop, PoolType, rings
  <2>6. CASE TailUnprev(p)
    <3>1. ppc' \in [Workers -> PPCs] BY <1>2, <1>3, <2>6 DEF TailUnprev
    <3> QED BY <1>0, <1>1, <2>6, <3>1 DEF TailUnprev, PoolType
  <2>7. CASE TailRead(p)
    <3>1. ppc' \in [Workers -> PPCs] BY <1>2, <1>3, <2>7 DEF TailRead
    <3>2. vals[d[p]][own[p]] \in Values BY <2>7 DEF TailRead, PGoto, PoolInv, OwnerInv, Owns
    <3> QED BY <1>0, <2>7, <3>1, <3>2 DEF TailRead, PoolType, rings
  <2>8. CASE TailFree(p)
    <3>1. /\ ppc' \in [Workers -> PPCs]
          /\ DOMAIN vals' = Elts
          /\ \A g \in Elts : vals'[g] \in [0 .. Size(g) - 1 -> Values \cup {NoVal}]
      BY <1>3, <1>13, <2>8 DEF TailFree, PGoto, Owns
    <3> QED BY <1>0, <1>1, <2>8, <3>1 DEF TailFree, Leave, PoolType
  <2> QED BY <1>16, <2>1, <2>2, <2>3, <2>4, <2>5, <2>6, <2>7, <2>8 DEF Consume
<1> QED
  BY <1>4, <1>5, <1>6, <1>7, <1>8, <1>9, <1>10, <1>11, <1>12, <1>14, <1>15, <1>16
     DEF PoolNext, Produce

-----------------------------------------------------------------------------
(* The chain *)
LEMMA RingsMove ==
  ASSUME PoolNext
  PROVE  \/ PushPublish \/ HeadTake \/ \E p \in Workers \ {Producer} : TailTake(p)
         \/ head' = head /\ tail' = tail
<1>1. ASSUME NEW v \in Values, Push(v) PROVE head' = head /\ tail' = tail
  BY <1>1 DEF Push, rings
<1>2. CASE PushSlot \/ PushAlloc \/ PushLink \/ PopHead \/ HeadEmpty \/ HeadPrev \/ HeadReturn
           \/ HeadNone
  BY <1>2 DEF PushSlot, PushAlloc, PushLink, PopHead, HeadEmpty, HeadPrev, HeadReturn, HeadNone,
              rings
<1>3. ASSUME NEW p \in Workers \ {Producer}, Consume(p), ~TailTake(p)
      PROVE  head' = head /\ tail' = tail
  BY <1>3 DEF Consume, PopTail, TailNext, TailEmpty, TailDrop, TailUnprev, TailRead, TailFree,
              rings
<1> QED BY <1>1, <1>2, <1>3 DEF PoolNext, Produce

(* Only the producer fills a ring, and only the newest. *)
LEMMA StaysDrained ==
  ASSUME PoolInv, PoolNext, NEW e \in Elts, Drained(e)
  PROVE  Drained(e)' \/ (PushPublish /\ e = chead)
<1>1. CASE PushPublish
  <2>1. d[Producer] = chead BY <1>1 DEF PushPublish, PGoto, PoolInv, ProducerInv
  <2>2. e # d[Producer] => head'[e] = head[e] /\ tail'[e] = tail[e]
    BY <1>1 DEF PushPublish, PoolInv, PoolType
  <2> QED BY <1>1, <2>1, <2>2 DEF Drained
<1>2. CASE HeadTake
  <2>1. e # d[Producer] BY <1>2 DEF HeadTake, Drained
  <2> QED BY <1>2, <2>1 DEF HeadTake, Drained, PoolInv, PoolType
<1>3. ASSUME NEW p \in Workers \ {Producer}, TailTake(p) PROVE Drained(e)'
  <2>1. e # d[p] BY <1>3 DEF TailTake, Drained
  <2> QED BY <1>3, <2>1 DEF TailTake, Drained, PoolInv, PoolType
<1>4. CASE head' = head /\ tail' = tail BY <1>4 DEF Drained
<1> QED BY <1>1, <1>2, <1>3, <1>4, RingsMove

(* What a consumer's step does not touch, and what the producer's does not. *)
LEMMA ConsumerKeeps ==
  ASSUME PoolInv, NEW p \in Workers \ {Producer}, Consume(p)
  PROVE  /\ chead' = chead /\ next' = next
         /\ \A q \in Workers : q # p => /\ ppc'[q] = ppc[q] /\ d'[q] = d[q] /\ d2'[q] = d2[q]
                                        /\ own'[q] = own[q] /\ val'[q] = val[q]
<1>1. /\ ppc \in [Workers -> PPCs] /\ d \in [Workers -> 0 .. MaxElts]
      /\ d2 \in [Workers -> 0 .. MaxElts] /\ own \in [Workers -> Nat]
      /\ val \in [Workers -> Values \cup {NoVal}]
  BY DEF PoolInv, PoolType
<1> QED
  BY <1>1 DEF Consume, PopTail, TailNext, TailTake, TailEmpty, Leave, TailDrop, TailUnprev,
              TailRead, TailFree, PGoto, rings

LEMMA ProducerKeeps ==
  ASSUME PoolInv, Produce
  PROVE  /\ ctail' # ctail => ctail = 0 /\ ctail' = 1 /\ \E v \in Values : Push(v)
         /\ \A q \in Workers : q # Producer =>
              /\ ppc'[q] = ppc[q] /\ d'[q] = d[q] /\ d2'[q] = d2[q]
              /\ own'[q] = own[q] /\ val'[q] = val[q]
<1>1. /\ ppc \in [Workers -> PPCs] /\ d \in [Workers -> 0 .. MaxElts]
      /\ d2 \in [Workers -> 0 .. MaxElts] /\ own \in [Workers -> Nat]
      /\ val \in [Workers -> Values \cup {NoVal}]
  BY DEF PoolInv, PoolType
<1>2. ASSUME NEW v \in Values, Push(v)
      PROVE  /\ ctail' # ctail => ctail = 0 /\ ctail' = 1
             /\ \A q \in Workers : q # Producer =>
              /\ ppc'[q] = ppc[q] /\ d'[q] = d[q] /\ d2'[q] = d2[q]
              /\ own'[q] = own[q] /\ val'[q] = val[q]
  <2>1. chead = 0 => ctail = 0
    BY PoolAssumption DEF PoolInv, PoolType, ChainInv
  <2> QED BY <1>1, <1>2, <2>1 DEF Push, PGoto
<1>3. ASSUME Produce, \A v \in Values : ~Push(v)
      PROVE  /\ ctail' = ctail
             /\ \A q \in Workers : q # Producer =>
              /\ ppc'[q] = ppc[q] /\ d'[q] = d[q] /\ d2'[q] = d2[q]
              /\ own'[q] = own[q] /\ val'[q] = val[q]
  BY <1>1, <1>3 DEF Produce, PushSlot, PushPublish, PushAlloc, PushLink, PopHead, HeadTake,
     HeadEmpty, HeadPrev, HeadReturn, HeadNone, PGoto, rings
<1> QED BY <1>2, <1>3

(* Elements are numbers, rings in use are rings. *)
LEMMA Numbers ==
  ASSUME PoolType
  PROVE  /\ chead \in Nat /\ ctail \in Nat /\ chead <= MaxElts /\ MaxElts \in Nat
         /\ \A e \in Elts : e \in Nat /\ 1 <= e /\ e <= MaxElts /\ next[e] \in Nat /\ prev[e] \in Nat
         /\ \A p \in Workers : d[p] \in Nat /\ d2[p] \in Nat
         /\ \A e \in Nat : 1 <= e /\ e <= MaxElts => e \in Elts
<1>1. MaxElts \in Nat BY PoolAssumption
<1>2. chead \in 0 .. MaxElts /\ ctail \in 0 .. MaxElts BY DEF PoolType
<1>3. \A e \in Elts : e \in 1 .. MaxElts BY DEF Elts
<1>4. \A e \in Elts : next[e] \in 0 .. MaxElts /\ prev[e] \in 0 .. MaxElts
  <2>1. next \in [Elts -> 0 .. MaxElts] /\ prev \in [Elts -> 0 .. MaxElts] BY DEF PoolType
  <2> QED BY <2>1
<1>5. \A p \in Workers : d[p] \in 0 .. MaxElts /\ d2[p] \in 0 .. MaxElts
  <2>1. d \in [Workers -> 0 .. MaxElts] /\ d2 \in [Workers -> 0 .. MaxElts] BY DEF PoolType
  <2> QED BY <2>1
<1>6. \A e \in Nat : 1 <= e /\ e <= MaxElts => e \in Elts BY <1>1 DEF Elts
<1> QED BY <1>1, <1>2, <1>3, <1>4, <1>5, <1>6

LEMMA LinkStep ==
  ASSUME PoolInv, PoolNext, PoolType'
  PROVE  ChainInv'
<1>0. PoolType /\ ChainInv BY DEF PoolInv
<1>1. /\ chead \in Nat /\ ctail \in Nat /\ chead <= MaxElts /\ MaxElts \in Nat
      /\ \A e \in Elts : e \in Nat /\ 1 <= e /\ e <= MaxElts /\ next[e] \in Nat /\ prev[e] \in Nat
      /\ \A p \in Workers : d[p] \in Nat /\ d2[p] \in Nat
      /\ \A e \in Nat : 1 <= e /\ e <= MaxElts => e \in Elts
  BY <1>0, Numbers
<1>2. /\ \A e \in Elts : Drained(e)' \/ ~Drained(e) \/ (PushPublish /\ e = chead)
      /\ next \in [Elts -> 0 .. MaxElts] /\ prev \in [Elts -> 0 .. MaxElts]
  BY <1>0, StaysDrained DEF PoolType
<1>3. ASSUME next' = next, prev' = prev, chead' = chead, ctail' = ctail PROVE ChainInv'
  BY <1>0, <1>1, <1>2, <1>3 DEF ChainInv
<1>4. ASSUME NEW v \in Values, Push(v) PROVE ChainInv'
  <2>1. CASE chead = 0
    <3>1. chead' = 1 /\ ctail' = 1 /\ next' = next /\ prev' = prev /\ head' = head /\ tail' = tail
      BY <1>4, <2>1 DEF Push, rings
    <3>2. \A e \in Elts : Drained(e)' BY <1>0, <1>1, <2>1, <3>1 DEF ChainInv, Drained
    <3>3. \A e \in Elts : next[e] = 0 BY <1>0, <1>1, <2>1 DEF ChainInv
    <3> QED BY <1>0, <1>1, <3>1, <3>2, <3>3 DEF ChainInv
  <2>2. CASE chead # 0 BY <1>3, <1>4, <2>2 DEF Push, rings
  <2> QED BY <2>1, <2>2
<1>5. CASE PushSlot \/ PushPublish \/ PopHead \/ HeadTake \/ HeadEmpty \/ HeadPrev \/ HeadReturn
           \/ HeadNone
  BY <1>3, <1>5 DEF PushSlot, PushPublish, PopHead, HeadTake, HeadEmpty, HeadPrev, HeadReturn,
                    HeadNone, rings
<1>6. CASE PushAlloc
  <2>1. /\ d[Producer] = chead /\ 1 <= chead
    BY <1>6 DEF PushAlloc, PGoto, PoolInv, ProducerInv, ProducerPCs
  <2>2. /\ chead' = chead + 1 /\ ctail' = ctail /\ next' = next
        /\ prev' = [prev EXCEPT ![chead + 1] = chead] /\ chead + 1 \in Elts
        /\ head' = head /\ tail' = tail
    BY <1>1, <1>6, <2>1 DEF PushAlloc
  <2>3. /\ prev'[chead + 1] = chead
        /\ \A e \in Elts : e # chead + 1 => prev'[e] = prev[e]
    BY <1>2, <2>2
  <2>4. \A e \in Elts : Drained(e)' = Drained(e) BY <2>2 DEF Drained
  <2>5. ctail <= chead' /\ (ctail = 0 => chead' = 0) BY <1>0, <1>1, <2>1, <2>2 DEF ChainInv
  <2>6. ASSUME NEW e \in Elts
        PROVE  /\ Drained(e) \/ (ctail <= e /\ e <= chead + 1)
               /\ next[e] # 0 => next[e] = e + 1 /\ e < chead + 1
               /\ prev'[e] # 0 => prev'[e] = e - 1
               /\ ctail < e /\ e <= chead + 1 => prev'[e] = e - 1
    <3>1. /\ Drained(e) \/ (ctail <= e /\ e <= chead)
          /\ next[e] # 0 => next[e] = e + 1 /\ e < chead
          /\ prev[e] # 0 => prev[e] = e - 1
          /\ ctail < e /\ e <= chead => prev[e] = e - 1
      BY <1>0 DEF ChainInv
    <3>2. e \in Nat BY <1>1
    <3>3. CASE e = chead + 1 BY <1>1, <2>3, <3>1, <3>2, <3>3
    <3>4. CASE e # chead + 1 BY <1>1, <2>3, <3>1, <3>2, <3>4
    <3> QED BY <3>3, <3>4
  <2> QED BY <2>2, <2>4, <2>5, <2>6 DEF ChainInv
<1>7. CASE PushLink
  <2>1. /\ chead = d[Producer] + 1 /\ 1 <= d[Producer]
    BY <1>7 DEF PushLink, PGoto, PoolInv, ProducerInv, ProducerPCs
  <2>2. /\ chead' = chead /\ ctail' = ctail /\ prev' = prev
        /\ next' = [next EXCEPT ![d[Producer]] = chead]
        /\ head' = head /\ tail' = tail
    BY <1>7 DEF PushLink
  <2>3. d[Producer] \in Nat BY <1>1, PoolAssumption
  <2>4. \A e \in Elts : next'[e] # 0 => next'[e] = e + 1 /\ e < chead
    BY <1>0, <1>1, <1>2, <2>1, <2>2, <2>3 DEF ChainInv
  <2>5. \A e \in Elts : Drained(e)' = Drained(e) BY <2>2 DEF Drained
  <2> QED BY <1>0, <2>2, <2>4, <2>5 DEF ChainInv
<1>8. ASSUME NEW p \in Workers \ {Producer}, Consume(p) PROVE ChainInv'
  <2>1. CASE PopTail(p) \/ TailNext(p) \/ TailTake(p) \/ TailEmpty(p) \/ TailRead(p) \/ TailFree(p)
    BY <1>3, <2>1 DEF PopTail, TailNext, TailTake, TailEmpty, TailRead, TailFree, rings
  <2>2. CASE TailDrop(p)
    <3>1. ctail' # ctail => ctail' = d2[p] /\ ctail = d[p]
      BY <2>2 DEF TailDrop
    <3>2. next' = next /\ prev' = prev /\ head' = head /\ tail' = tail /\ chead' = chead
      BY <2>2 DEF TailDrop, rings
    <3>3. /\ 1 <= d[p] /\ d2[p] # 0 /\ next[d[p]] = d2[p] /\ Drained(d[p]) /\ d[p] \in Elts
      BY <2>2, Places DEF TailDrop, PGoto, PoolInv, ConsumerInv
    <3>4. d2[p] = d[p] + 1 /\ d[p] < chead BY <1>0, <3>3 DEF ChainInv
    <3>5. \A e \in Elts : Drained(e)' = Drained(e) BY <3>2 DEF Drained
    <3>6. CASE ctail' = ctail BY <1>3, <3>2, <3>6
    <3>7. CASE ctail' # ctail
      <4>1. ctail' = ctail + 1 /\ ctail < chead /\ Drained(ctail) BY <3>1, <3>3, <3>4, <3>7
      <4>2. \A e \in Elts : Drained(e) \/ (ctail + 1 <= e /\ e <= chead)
        BY <1>0, <1>1, <4>1 DEF ChainInv
      <4> QED BY <1>0, <1>1, <3>2, <3>5, <4>1, <4>2 DEF ChainInv
    <3> QED BY <3>6, <3>7
  <2>3. CASE TailUnprev(p)
    <3>1. /\ prev' = [prev EXCEPT ![d[p]] = 0] /\ next' = next /\ chead' = chead /\ ctail' = ctail
          /\ head' = head /\ tail' = tail
      BY <2>3 DEF TailUnprev
    <3>2. d[p] <= ctail BY <2>3 DEF TailUnprev, PGoto, PoolInv, ConsumerInv
    <3>3. \A e \in Elts : prev'[e] = IF e = d[p] THEN 0 ELSE prev[e] BY <1>2, <3>1
    <3>4. \A e \in Elts : Drained(e)' = Drained(e) BY <3>1 DEF Drained
    <3> QED BY <1>0, <1>1, <3>1, <3>2, <3>3, <3>4 DEF ChainInv
  <2> QED BY <1>8, <2>1, <2>2, <2>3 DEF Consume
<1> QED BY <1>4, <1>5, <1>6, <1>7, <1>8 DEF PoolNext, Produce

LEMMA ProducerStep ==
  ASSUME PoolInv, PoolNext, PoolType'
  PROVE  ProducerInv'
<1> DEFINE e == d[Producer]
           P == Producer
<1>0. PoolType /\ ChainInv /\ ProducerInv BY DEF PoolInv
<1>1. /\ chead \in Nat /\ ctail \in Nat /\ chead <= MaxElts /\ MaxElts \in Nat
      /\ \A f \in Elts : f \in Nat /\ 1 <= f /\ f <= MaxElts /\ next[f] \in Nat /\ prev[f] \in Nat
      /\ \A p \in Workers : d[p] \in Nat /\ d2[p] \in Nat
      /\ \A f \in Nat : 1 <= f /\ f <= MaxElts => f \in Elts
  BY <1>0, Numbers
<1>2. \A f \in Elts : Drained(f)' \/ ~Drained(f) \/ (PushPublish /\ f = chead)
  BY StaysDrained
<1>3. /\ ppc \in [Workers -> PPCs] /\ d \in [Workers -> 0 .. MaxElts]
      /\ val \in [Workers -> Values \cup {NoVal}] /\ P \in Workers
  BY <1>0, PoolAssumption DEF PoolType
<1>4. ASSUME ppc'[P] = ppc[P], d'[P] = d[P], val'[P] = val[P], chead' = chead, ~PushPublish
      PROVE  ProducerInv'
  <2>1. ppc[P] \in ProducerPCs \ {"idle", "headNone"} => d[P] \in Elts BY Places
  <2> QED BY <1>0, <1>2, <1>4, <2>1 DEF ProducerInv, ProducerPCs
<1>5. ASSUME NEW v \in Values, Push(v) PROVE ProducerInv'
  <2>1. ppc'[P] = "push" /\ val'[P] = v /\ d'[P] = chead' /\ 1 <= chead'
    BY <1>1, <1>3, <1>5 DEF Push, PGoto
  <2>2. chead' \in Nat BY DEF PoolType
  <2> QED BY <2>1, <2>2 DEF ProducerInv, ProducerPCs
<1>6. CASE PushSlot
  <2>1. /\ ppc[P] = "push" /\ ppc'[P] \in {"alloc", "publish"} /\ d' = d /\ val' = val
        /\ chead' = chead
    BY <1>3, <1>6 DEF PushSlot, PGoto
  <2> QED BY <1>0, <2>1 DEF ProducerInv, ProducerPCs
<1>7. CASE PushPublish
  <2>1. ppc'[P] = "idle" BY <1>3, <1>7 DEF PushPublish, PGoto
  <2> QED BY <2>1 DEF ProducerInv, ProducerPCs
<1>8. CASE PushAlloc
  <2>1. /\ ppc[P] = "alloc" /\ ppc'[P] = "link" /\ d' = d /\ val' = val /\ chead' = chead + 1
    BY <1>3, <1>8 DEF PushAlloc, PGoto
  <2> QED BY <1>0, <1>1, <1>3, <2>1 DEF ProducerInv, ProducerPCs
<1>9. CASE PushLink
  <2>1. /\ ppc[P] = "link" /\ ppc'[P] = "push" /\ d'[P] = chead /\ val' = val /\ chead' = chead
    BY <1>3, <1>9 DEF PushLink, PGoto
  <2> QED BY <1>0, <1>1, <1>3, <2>1 DEF ProducerInv, ProducerPCs
<1>10. CASE PopHead
  <2>1. /\ d'[P] = chead /\ chead' = chead
        /\ ppc'[P] = IF chead = 0 THEN "headNone" ELSE "popHead"
        /\ head' = head /\ tail' = tail
    BY <1>3, <1>10 DEF PopHead, PGoto, rings
  <2>2. \A f \in Elts : f > chead => Drained(f) BY <1>0, <1>1 DEF ChainInv
  <2>3. \A f : Drained(f)' = Drained(f) BY <2>1 DEF Drained
  <2> QED BY <1>1, <2>1, <2>2, <2>3 DEF ProducerInv, ProducerPCs
<1>11. CASE HeadTake
  <2>1. ppc[P] = "popHead" /\ ppc'[P] = "headOwn" /\ d' = d /\ chead' = chead
    BY <1>3, <1>11 DEF HeadTake, PGoto
  <2> QED BY <1>0, <2>1 DEF ProducerInv, ProducerPCs
<1>12. CASE HeadEmpty
  <2>1. /\ ppc[P] = "popHead" /\ ppc'[P] = "headPrev" /\ d' = d /\ chead' = chead
        /\ head' = head /\ tail' = tail /\ Drained(e)
    BY <1>3, <1>12 DEF HeadEmpty, PGoto, Drained, rings
  <2>2. \A f : Drained(f)' = Drained(f) BY <2>1 DEF Drained
  <2> QED BY <1>0, <2>1, <2>2 DEF ProducerInv, ProducerPCs
<1>13. CASE HeadPrev
  <2>1. /\ ppc[P] = "headPrev" /\ ppc'[P] = IF prev[e] = 0 THEN "headNone" ELSE "popHead"
        /\ d'[P] = prev[e] /\ chead' = chead /\ head' = head /\ tail' = tail
    BY <1>3, <1>13 DEF HeadPrev, PGoto, rings
  <2>2. /\ 1 <= e /\ e <= chead /\ Drained(e) /\ \A f \in Elts : f > e => Drained(f)
    BY <1>0, <2>1 DEF ProducerInv, ProducerPCs
  <2>3. e \in Elts /\ e \in Nat BY <1>1, <1>3, <2>2
  <2>4. \A f : Drained(f)' = Drained(f) BY <2>1 DEF Drained
  <2>5. CASE prev[e] = 0
    <3>1. e <= ctail
      <4>1. ctail < e => prev[e] = e - 1 BY <1>0, <2>2, <2>3 DEF ChainInv
      <4>2. ctail = 0 => chead = 0 BY <1>0 DEF ChainInv
      <4> QED BY <1>1, <2>2, <2>3, <2>5, <4>1, <4>2
    <3>2. \A f \in Elts : f < e => Drained(f) BY <1>0, <1>1, <2>3, <3>1 DEF ChainInv
    <3>3. \A f \in Elts : Drained(f) BY <1>1, <2>2, <2>3, <3>2
    <3> QED BY <2>1, <2>4, <2>5, <3>3 DEF ProducerInv, ProducerPCs
  <2>6. CASE prev[e] # 0
    <3>1. prev[e] = e - 1 /\ prev[e] \in Nat BY <1>0, <1>1, <2>3, <2>6 DEF ChainInv
    <3>2. 1 <= e - 1 /\ e - 1 <= chead /\ \A f \in Elts : f > e - 1 => Drained(f)
      BY <1>1, <2>2, <2>3, <2>6, <3>1
    <3> QED BY <2>1, <2>4, <2>6, <3>1, <3>2 DEF ProducerInv, ProducerPCs
  <2> QED BY <2>5, <2>6
<1>14. CASE HeadReturn \/ HeadNone
  <2>1. ppc'[P] = "idle" BY <1>3, <1>14 DEF HeadReturn, HeadNone, PGoto
  <2> QED BY <2>1 DEF ProducerInv, ProducerPCs
<1>15. ASSUME NEW p \in Workers \ {Producer}, Consume(p) PROVE ProducerInv'
  <2>1. ~PushPublish
    <3>1. ASSUME PushPublish PROVE FALSE
      <4>1. ppc'[P] = "idle" /\ ppc[P] = "publish" BY <1>3, <3>1 DEF PushPublish, PGoto
      <4> QED BY <1>3, <1>15, <4>1, ConsumerKeeps
    <3> QED BY <3>1
  <2>2. ppc'[P] = ppc[P] /\ d'[P] = d[P] /\ val'[P] = val[P] /\ chead' = chead
    BY <1>3, <1>15, ConsumerKeeps
  <2> QED BY <1>4, <2>1, <2>2
<1> QED
  BY <1>5, <1>6, <1>7, <1>8, <1>9, <1>10, <1>11, <1>12, <1>13, <1>14, <1>15 DEF PoolNext, Produce

LEMMA ConsumerStep ==
  ASSUME PoolInv, PoolNext, PoolType', ChainInv'
  PROVE  ConsumerInv'
<1>0. PoolType /\ ChainInv /\ ConsumerInv BY DEF PoolInv
<1>1. /\ chead \in Nat /\ ctail \in Nat /\ chead <= MaxElts /\ MaxElts \in Nat
      /\ \A f \in Elts : f \in Nat /\ 1 <= f /\ f <= MaxElts /\ next[f] \in Nat /\ prev[f] \in Nat
      /\ \A p \in Workers : d[p] \in Nat /\ d2[p] \in Nat
      /\ \A f \in Nat : 1 <= f /\ f <= MaxElts => f \in Elts
  BY <1>0, Numbers
<1> DEFINE Ok(q) ==
      /\ ppc[q] \in ConsumerPCs
      /\ ppc[q] \in {"tailNext", "popTail", "drop", "unprev"} => 1 <= d[q] /\ d[q] <= ctail
      /\ ppc[q] \in {"popTail", "drop"} /\ d2[q] # 0 => next[d[q]] = d2[q]
      /\ ppc[q] = "drop" => d2[q] # 0 /\ Drained(d[q])
<1>2. \A q \in Workers \ {Producer} : Ok(q) BY <1>0 DEF ConsumerInv
<1>3. ctail <= ctail' /\ \A f \in Elts : next[f] # 0 => next'[f] = next[f]
  <2>1. CASE Produce
    <3>1. ctail <= ctail' BY <1>1, <2>1, ProducerKeeps
    <3>2. ASSUME NEW f \in Elts, next[f] # 0 PROVE next'[f] = next[f]
      <4>1. CASE PushLink
        <5>1. chead = d[Producer] + 1 BY <4>1 DEF PushLink, PGoto, PoolInv, ProducerInv
        <5>2. next[f] = f + 1 BY <1>0, <3>2 DEF ChainInv
        <5> QED BY <1>0, <4>1, <5>1, <5>2 DEF PushLink, PoolType
      <4>2. CASE ~PushLink
        BY <2>1, <4>2 DEF Produce, Push, PushSlot, PushPublish, PushAlloc, PopHead, HeadTake,
          HeadEmpty, HeadPrev, HeadReturn, HeadNone, rings
      <4> QED BY <4>1, <4>2
    <3> QED BY <3>1, <3>2
  <2>2. ASSUME NEW p \in Workers \ {Producer}, Consume(p)
        PROVE  ctail <= ctail' /\ next' = next
    <3>1. next' = next BY <2>2, ConsumerKeeps
    <3>2. ctail' = ctail \/ (TailDrop(p) /\ ctail' = d2[p] /\ ctail = d[p])
      BY <2>2 DEF Consume, PopTail, TailNext, TailTake, TailEmpty, TailDrop, TailUnprev,
         TailRead, TailFree
    <3>3. TailDrop(p) => d2[p] = d[p] + 1
      <4>1. TailDrop(p) => ppc[p] = "drop" /\ d[p] \in Elts
        BY Places DEF TailDrop, PGoto
      <4>2. TailDrop(p) => next[d[p]] = d2[p] /\ d2[p] # 0 BY <1>2, <4>1
      <4> QED BY <1>0, <4>1, <4>2 DEF ChainInv
    <3> QED BY <1>1, <3>1, <3>2, <3>3
  <2> QED BY <2>1, <2>2 DEF PoolNext
<1>4. ASSUME NEW q \in Workers \ {Producer}, ppc'[q] = ppc[q], d'[q] = d[q], d2'[q] = d2[q]
      PROVE  Ok(q)'
  <2>1. Ok(q) BY <1>2
  <2>2. ppc[q] \in {"tailNext", "popTail", "drop", "unprev"} => d[q] \in Elts BY Places
  <2>3. ctail' \in Nat BY DEF PoolType
  <2>4. ppc[q] = "drop" => Drained(d[q])'
    <3>1. SUFFICES ASSUME ppc[q] = "drop" PROVE Drained(d[q])' OBVIOUS
    <3>2. d[q] \in Elts /\ Drained(d[q]) /\ next[d[q]] # 0 BY <2>1, <2>2, <3>1
    <3>3. d[q] < chead BY <1>0, <3>2 DEF ChainInv
    <3>4. d[q] # chead BY <1>1, <3>2, <3>3
    <3> QED BY <1>4, <3>2, <3>4, StaysDrained DEF Drained
  <2>5. Drained(d[q])' = (head'[d[q]] = tail'[d[q]]) BY <1>4 DEF Drained
  <2>6. (head'[d'[q]] = tail'[d'[q]]) = (head'[d[q]] = tail'[d[q]]) BY <1>4
  <2>7. ppc'[q] \in {"tailNext", "popTail", "drop", "unprev"} => 1 <= d'[q] /\ d'[q] <= ctail'
    BY <1>1, <1>3, <1>4, <2>1, <2>3
  <2>8. ppc'[q] \in {"popTail", "drop"} /\ d2'[q] # 0 => next'[d'[q]] = d2'[q]
    BY <1>3, <1>4, <2>1, <2>2
  <2> QED BY <1>4, <2>1, <2>4, <2>5, <2>7, <2>8
<1>5. CASE Produce
  <2>1. \A q \in Workers \ {Producer} : Ok(q)' BY <1>4, <1>5, ProducerKeeps
  <2> QED BY <2>1 DEF ConsumerInv
<1>6. ASSUME NEW p \in Workers \ {Producer}, Consume(p) PROVE ConsumerInv'
  <2>1. \A q \in Workers \ {Producer} : q # p => Ok(q)' BY <1>4, <1>6, ConsumerKeeps
  <2>2. /\ ppc \in [Workers -> PPCs] /\ d \in [Workers -> 0 .. MaxElts]
        /\ d2 \in [Workers -> 0 .. MaxElts] /\ p \in Workers
    BY <1>0 DEF PoolType
  <2>3. ASSUME ppc'[p] \in {"idle", "tailOwn", "tailFree"} PROVE Ok(p)'
    BY <2>3 DEF ConsumerPCs
  <2>4. CASE PopTail(p)
    <3>1. ppc'[p] = "tailNext" /\ d'[p] = ctail /\ ctail' = ctail /\ ctail # 0
      BY <2>2, <2>4 DEF PopTail, PGoto
    <3> QED BY <1>1, <2>1, <3>1 DEF ConsumerInv, ConsumerPCs
  <2>5. CASE TailNext(p)
    <3>1. /\ ppc[p] = "tailNext" /\ ppc'[p] = "popTail" /\ d'[p] = d[p] /\ ctail' = ctail
          /\ d2'[p] = next[d[p]] /\ next' = next
      BY <2>2, <2>5 DEF TailNext, PGoto, rings
    <3> QED BY <1>2, <2>1, <3>1 DEF ConsumerInv, ConsumerPCs
  <2>6. CASE TailTake(p) \/ TailRead(p) \/ TailFree(p)
    <3>1. ppc'[p] \in {"idle", "tailOwn", "tailFree"}
      BY <2>2, <2>6 DEF TailTake, TailRead, TailFree, PGoto
    <3> QED BY <2>1, <2>3, <3>1 DEF ConsumerInv
  <2>7. CASE TailEmpty(p)
    <3>1. CASE d2[p] = 0
      <4>1. ppc'[p] = "idle" BY <2>2, <2>7, <3>1 DEF TailEmpty, PGoto
      <4> QED BY <2>1, <2>3, <4>1 DEF ConsumerInv
    <3>2. CASE d2[p] # 0
      <4>1. /\ ppc[p] = "popTail" /\ ppc'[p] = "drop" /\ d'[p] = d[p] /\ d2'[p] = d2[p]
            /\ ctail' = ctail /\ next' = next /\ head' = head /\ tail' = tail /\ Drained(d[p])
        BY <2>2, <2>7, <3>2 DEF TailEmpty, PGoto, rings, Drained
      <4>2. Drained(d[p])' BY <4>1 DEF Drained
      <4> QED BY <1>2, <2>1, <3>2, <4>1, <4>2 DEF ConsumerInv, ConsumerPCs
    <3> QED BY <3>1, <3>2
  <2>8. CASE TailDrop(p)
    <3>1. /\ ppc[p] = "drop" /\ ppc'[p] \in {"unprev", "tailNext"} /\ d'[p] = d2[p]
          /\ ctail' = IF ctail = d[p] THEN d2[p] ELSE ctail
      BY <2>2, <2>8 DEF TailDrop, PGoto
    <3>2. /\ 1 <= d[p] /\ d[p] <= ctail /\ next[d[p]] = d2[p] /\ d2[p] # 0
      BY <1>2, <3>1
    <3>3. d[p] \in Elts BY <3>1, Places
    <3>4. d2[p] = d[p] + 1 BY <1>0, <3>2, <3>3 DEF ChainInv
    <3>5. 1 <= d'[p] /\ d'[p] <= ctail' BY <1>1, <2>2, <3>1, <3>2, <3>4
    <3>6. Ok(p)' BY <3>1, <3>5 DEF ConsumerPCs
    <3> QED BY <2>1, <3>6 DEF ConsumerInv
  <2>9. CASE TailUnprev(p)
    <3>1. /\ ppc[p] = "unprev" /\ ppc'[p] = "tailNext" /\ d'[p] = d[p] /\ ctail' = ctail
      BY <2>2, <2>9 DEF TailUnprev, PGoto
    <3> QED BY <1>2, <2>1, <3>1 DEF ConsumerInv, ConsumerPCs
  <2> QED BY <1>6, <2>4, <2>5, <2>6, <2>7, <2>8, <2>9 DEF Consume
<1> QED BY <1>5, <1>6 DEF PoolNext

-----------------------------------------------------------------------------
(* Slots *)

(* What holds of the slots if no ring moves: the owners are the same, and a   *)
(* slot that is written is not in range and nobody's.                         *)
OwnersSame ==
  \A p \in Workers : /\ Owns(p)' = Owns(p)
                     /\ Owns(p) => d'[p] = d[p] /\ own'[p] = own[p]

LEMMA QuietRange ==
  ASSUME PoolInv, head' = head, tail' = tail, vals' = vals
  PROVE  RangeInv'
<1>1. \A e \in Elts : Count(e)' = Count(e) /\ \A k : At(e, k)' = At(e, k) BY RingKept
<1> QED BY <1>1 DEF PoolInv, RangeInv

LEMMA QuietOwners ==
  ASSUME PoolInv, head' = head, tail' = tail, vals' = vals, OwnersSame,
         \A p \in Workers : ppc'[p] = "tailFree" => val'[p] = vals[d[p]][own[p]]
  PROVE  OwnerInv'
<1>1. \A e \in Elts : Count(e)' = Count(e) /\ \A k : At(e, k)' = At(e, k) BY RingKept
<1>2. SUFFICES ASSUME NEW p \in Workers, Owns(p)'
      PROVE  /\ d'[p] \in Elts /\ own'[p] \in 0 .. Size(d'[p]) - 1
             /\ vals'[d'[p]][own'[p]] \in Values
             /\ \A k \in 0 .. Count(d[p])' - 1 : own'[p] # At(d[p], k)'
             /\ \A q \in Workers : Owns(q)' /\ d'[q] = d'[p] /\ own'[q] = own'[p] => q = p
             /\ ppc'[p] = "tailFree" => val'[p] = vals'[d'[p]][own'[p]]
  BY DEF OwnerInv
<1>3. Owns(p) /\ d'[p] = d[p] /\ own'[p] = own[p] BY <1>2 DEF OwnersSame
<1>4. /\ d[p] \in Elts /\ own[p] \in 0 .. Size(d[p]) - 1
      /\ vals[d[p]][own[p]] \in Values
      /\ \A k \in 0 .. Count(d[p]) - 1 : own[p] # At(d[p], k)
      /\ \A q \in Workers : Owns(q) /\ d[q] = d[p] /\ own[q] = own[p] => q = p
  BY <1>3 DEF PoolInv, OwnerInv
<1>5. Count(d[p])' = (head'[d[p]] - tail'[d[p]]) % Indexes BY <1>3 DEF Count
<1>6. Count(d[p])' = Count(d[p]) BY <1>3 DEF Count
<1>7. \A k : At(d[p], k)' = At(d[p], k) BY <1>3 DEF At
<1>8. \A q \in Workers : Owns(q)' /\ d'[q] = d'[p] /\ own'[q] = own'[p] => q = p
  BY <1>3, <1>4 DEF OwnersSame
<1> QED BY <1>3, <1>4, <1>6, <1>7, <1>8

LEMMA QuietPublish ==
  ASSUME PoolInv, head' = head, tail' = tail, vals' = vals, OwnersSame,
         ppc'[Producer] = "publish" =>
           /\ ppc[Producer] = "publish" /\ d'[Producer] = d[Producer]
           /\ val'[Producer] = val[Producer]
  PROVE  PublishInv'
<1> DEFINE e == d[Producer]
<1>1. SUFFICES ASSUME ppc'[Producer] = "publish"
      PROVE  /\ Count(e)' < Size(e)'
             /\ vals'[e'][At(e, Count(e))'] = val'[Producer]
             /\ \A p \in Workers : Owns(p)' /\ d'[p] = e' => own'[p] # At(e, Count(e))'
  BY DEF PublishInv
<1>2. ppc[Producer] = "publish" /\ e' = e /\ val'[Producer] = val[Producer] BY <1>1
<1>3. Count(e)' = Count(e) /\ \A k : At(e, k)' = At(e, k) BY <1>2 DEF Count, At
<1>4. At(e, Count(e))' = At(e, Count(e)) BY <1>2, <1>3 DEF At
<1>5. Size(e)' = Size(e) BY <1>2 DEF Size
<1>6. /\ Count(e) < Size(e) /\ vals[e][At(e, Count(e))] = val[Producer]
      /\ \A p \in Workers : Owns(p) /\ d[p] = e => own[p] # At(e, Count(e))
  BY <1>2 DEF PoolInv, PublishInv
<1>7. \A p \in Workers : Owns(p)' /\ d'[p] = e' => own'[p] # At(e, Count(e))
  BY <1>2, <1>6 DEF OwnersSame
<1> QED BY <1>2, <1>3, <1>4, <1>5, <1>6, <1>7

(* The other steps leave the slots and their owners alone. *)
LEMMA QuietKeeps ==
  ASSUME PoolInv, PoolNext, ~PushPublish, ~HeadTake, ~HeadReturn, PushSlot => vals' = vals,
         \A p \in Workers \ {Producer} : ~TailTake(p) /\ ~TailFree(p)
  PROVE  /\ vals' = vals /\ OwnersSame
         /\ \A p \in Workers : ppc'[p] = "tailFree" => val'[p] = vals[d[p]][own[p]]
         /\ ppc'[Producer] = "publish" =>
              /\ ppc[Producer] = "publish" /\ d'[Producer] = d[Producer]
              /\ val'[Producer] = val[Producer]
<1>0. /\ ppc \in [Workers -> PPCs] /\ d \in [Workers -> 0 .. MaxElts]
      /\ own \in [Workers -> Nat] /\ val \in [Workers -> Values \cup {NoVal}]
      /\ Producer \in Workers
  BY PoolAssumption DEF PoolInv, PoolType
<1> DEFINE Kept == /\ vals' = vals /\ OwnersSame
                   /\ \A p \in Workers : ppc'[p] = "tailFree" => val'[p] = vals[d[p]][own[p]]
                   /\ ppc'[Producer] = "publish" =>
                        /\ ppc[Producer] = "publish" /\ d'[Producer] = d[Producer]
                        /\ val'[Producer] = val[Producer]
<1>3. \A p \in Workers : ppc[p] = "tailFree" => val[p] = vals[d[p]][own[p]]
  BY DEF PoolInv, OwnerInv, Owns
<1>4. ASSUME NEW p \in Workers, \A q \in Workers : q # p =>
               ppc'[q] = ppc[q] /\ d'[q] = d[q] /\ own'[q] = own[q] /\ val'[q] = val[q],
             ~Owns(p), ~Owns(p)', vals' = vals,
             p = Producer => ppc'[p] # "publish", p # Producer => ppc'[p] # "publish"
      PROVE  Kept
  <2>1. OwnersSame BY <1>4 DEF OwnersSame, Owns
  <2>2. ASSUME NEW q \in Workers, ppc'[q] = "tailFree" PROVE val'[q] = vals[d[q]][own[q]]
    <3>1. q # p BY <1>4, <2>2 DEF Owns
    <3> QED BY <1>3, <1>4, <2>2, <3>1
  <2>3. ppc'[Producer] = "publish" => p # Producer BY <1>4
  <2> QED BY <1>0, <1>4, <2>1, <2>2, <2>3
<1>5. CASE Produce
  <2>1. \A q \in Workers : q # Producer =>
          ppc'[q] = ppc[q] /\ d'[q] = d[q] /\ own'[q] = own[q] /\ val'[q] = val[q]
    BY <1>5, ProducerKeeps
  <2>2. ~Owns(Producer)
    <3>1. ppc[Producer] \in {"idle", "push", "alloc", "link", "popHead", "headPrev", "headNone"}
      BY <1>5 DEF Produce, Push, PushSlot, PushPublish, PushAlloc, PushLink, PopHead, HeadTake,
         HeadEmpty, HeadPrev, HeadReturn, HeadNone, PGoto
    <3> QED BY <3>1 DEF Owns
  <2>3. ppc'[Producer] \in {"idle", "push", "alloc", "link", "popHead", "headPrev", "headNone"}
    <3>1. CASE PushSlot
      <4>1. ppc'[Producer] = "alloc"
        <5>1. SUFFICES ASSUME ppc'[Producer] # "alloc" PROVE FALSE OBVIOUS
        <5> DEFINE e == d[Producer]
                   i == Slot(e, head[e])
        <5>2. /\ ppc[Producer] = "push" /\ vals[e][i] = NoVal
              /\ vals' = [vals EXCEPT ![e][i] = val[Producer]]
          BY <1>0, <3>1, <5>1 DEF PushSlot, PGoto
        <5>3. e \in Elts BY <5>2, Places DEF ProducerPCs
        <5>4. head[e] \in Nat BY <5>3, PlaceFacts DEF PoolInv
        <5>5. i \in 0 .. Size(e) - 1 BY <5>3, <5>4, SlotType
        <5>6. val[Producer] \in Values BY <5>2 DEF PoolInv, ProducerInv
        <5> HIDE DEF e, i
        <5>7. vals'[e][i] = val[Producer] BY <5>2, <5>3, <5>5, <5>6, SlotWritten DEF PoolInv
        <5>8. vals' = vals BY <3>1
        <5> QED BY <5>2, <5>6, <5>7, <5>8, PoolAssumption
      <4> QED BY <4>1
    <3>2. CASE ~PushSlot
      BY <1>0, <1>5, <3>2 DEF Produce, Push, PushPublish, PushAlloc, PushLink, PopHead,
         HeadTake, HeadEmpty, HeadPrev, HeadReturn, HeadNone, PGoto
    <3> QED BY <3>1, <3>2
  <2>4. vals' = vals
    BY <1>5 DEF Produce, Push, PushAlloc, PushLink, PopHead, HeadEmpty, HeadPrev, HeadNone, rings
  <2>5. ~Owns(Producer)' BY <2>3 DEF Owns
  <2> QED BY <1>0, <1>4, <2>1, <2>2, <2>3, <2>4, <2>5
<1>6. ASSUME NEW p \in Workers \ {Producer}, Consume(p) PROVE Kept
  <2>1. \A q \in Workers : q # p =>
          ppc'[q] = ppc[q] /\ d'[q] = d[q] /\ own'[q] = own[q] /\ val'[q] = val[q]
    BY <1>6, ConsumerKeeps
  <2>2. CASE TailRead(p)
    <3>1. /\ ppc[p] = "tailOwn" /\ ppc'[p] = "tailFree" /\ d'[p] = d[p] /\ own'[p] = own[p]
          /\ val'[p] = vals[d[p]][own[p]] /\ vals' = vals
      BY <1>0, <2>2 DEF TailRead, PGoto, rings
    <3>2. OwnersSame BY <2>1, <3>1 DEF OwnersSame, Owns
    <3>3. \A q \in Workers : ppc'[q] = "tailFree" => val'[q] = vals[d[q]][own[q]]
      BY <1>3, <2>1, <3>1
    <3> QED BY <1>0, <2>1, <3>1, <3>2, <3>3
  <2>3. CASE ~TailRead(p)
    <3>1. /\ ppc[p] \in {"idle", "tailNext", "popTail", "drop", "unprev"}
          /\ ppc'[p] \in {"idle", "tailNext", "popTail", "drop", "unprev"}
          /\ vals' = vals
      BY <1>0, <1>6, <2>3 DEF Consume, PopTail, TailNext, TailEmpty, TailDrop, TailUnprev, PGoto,
         rings
    <3>2. ~Owns(p) /\ ~Owns(p)' BY <3>1 DEF Owns
    <3> QED BY <1>4, <2>1, <3>1, <3>2
  <2> QED BY <2>2, <2>3
<1> QED BY <1>5, <1>6 DEF PoolNext

LEMMA QuietStep ==
  ASSUME PoolInv, PoolNext, ~PushPublish, ~HeadTake, ~HeadReturn, PushSlot => vals' = vals,
         \A p \in Workers \ {Producer} : ~TailTake(p) /\ ~TailFree(p)
  PROVE  RangeInv' /\ OwnerInv' /\ PublishInv'
<1>1. head' = head /\ tail' = tail BY RingsMove
<1> QED BY <1>1, QuietKeeps, QuietRange, QuietOwners, QuietPublish

(* What is known of an owner. *)
LEMMA OwnerFacts ==
  ASSUME PoolInv, NEW p \in Workers, Owns(p)
  PROVE  /\ d[p] \in Elts /\ own[p] \in 0 .. Size(d[p]) - 1
         /\ vals[d[p]][own[p]] \in Values /\ vals[d[p]][own[p]] # NoVal
         /\ \A k \in 0 .. Count(d[p]) - 1 : own[p] # At(d[p], k)
         /\ \A q \in Workers : Owns(q) /\ d[q] = d[p] /\ own[q] = own[p] => q = p
         /\ ppc[p] = "tailFree" => val[p] = vals[d[p]][own[p]]
BY PoolAssumption DEF PoolInv, OwnerInv

(* Of the places of a ring. *)
LEMMA RangeFacts ==
  ASSUME PoolInv, NEW e \in Elts
  PROVE  /\ Count(e) \in Nat /\ Size(e) \in Nat /\ Count(e) <= Size(e)
         /\ \A k \in Nat : At(e, k) \in 0 .. Size(e) - 1
         /\ \A k \in Nat : k < Count(e) => vals[e][At(e, k)] \in Values
         /\ \A j, k \in Nat : j < k /\ k < j + Size(e) => At(e, j) # At(e, k)
<1>1. PoolType BY DEF PoolInv
<1>2. Count(e) \in Nat /\ Size(e) \in Nat
      /\ (\A k \in Nat : At(e, k) \in 0 .. Size(e) - 1)
      /\ \A j, k \in Nat : j < k /\ k < j + Size(e) => At(e, j) # At(e, k)
  BY <1>1, PlaceFacts
<1>3. Count(e) <= Size(e) /\ \A k \in 0 .. Count(e) - 1 : vals[e][At(e, k)] \in Values
  BY DEF PoolInv, RangeInv
<1>4. \A k \in Nat : k < Count(e) => k \in 0 .. Count(e) - 1 BY <1>2
<1> QED BY <1>2, <1>3, <1>4

(* Another slot than the one that is written keeps what is in it. *)
LEMMA WriteStep ==
  ASSUME PoolInv, NEW e \in Elts, NEW i \in 0 .. Size(e) - 1, NEW v \in Values \cup {NoVal},
         vals' = [vals EXCEPT ![e][i] = v], head' = head, tail' = tail,
         \A k \in 0 .. Count(e) - 1 : At(e, k) # i
  PROVE  /\ RangeInv'
         /\ \A p \in Workers : Owns(p) /\ ~(d[p] = e /\ own[p] = i) =>
              vals'[d[p]][own[p]] = vals[d[p]][own[p]]
         /\ \A f \in Elts : \A k \in 0 .. Count(f) - 1 : vals'[f][At(f, k)] = vals[f][At(f, k)]
<1>1. \A f \in Elts : \A j \in 0 .. Size(f) - 1 :
        ~(f = e /\ j = i) => vals'[f][j] = vals[f][j]
  BY SlotWritten DEF PoolInv
<1>2. \A p \in Workers : Owns(p) /\ ~(d[p] = e /\ own[p] = i) =>
              vals'[d[p]][own[p]] = vals[d[p]][own[p]]
  BY <1>1, OwnerFacts
<1>3. ASSUME NEW f \in Elts, NEW k \in 0 .. Count(f) - 1
      PROVE  vals'[f][At(f, k)] = vals[f][At(f, k)]
  <2>1. k \in Nat BY RangeFacts
  <2>2. At(f, k) \in 0 .. Size(f) - 1 BY <2>1, RangeFacts
  <2>3. ~(f = e /\ At(f, k) = i) OBVIOUS
  <2> QED BY <1>1, <2>2, <2>3
<1>4. ASSUME NEW f \in Elts
      PROVE  Count(f)' <= Size(f) /\ \A k \in 0 .. Count(f)' - 1 : vals'[f][At(f, k)'] \in Values
  <2>1. Count(f)' = Count(f) /\ \A k : At(f, k)' = At(f, k) BY RingKept
  <2>2. Count(f) <= Size(f) /\ \A k \in 0 .. Count(f) - 1 : vals[f][At(f, k)] \in Values
    BY DEF PoolInv, RangeInv
  <2> QED BY <1>3, <2>1, <2>2
<1>5. RangeInv' BY <1>4 DEF RangeInv
<1> QED BY <1>2, <1>3, <1>5

(* Owners keep their slots when a step, in which only p comes or goes, moves  *)
(* no ring and leaves what is in their slots.                                 *)
LEMMA OwnersKeep ==
  ASSUME PoolInv, NEW p \in Workers,
         \A q \in Workers : q # p =>
           ppc'[q] = ppc[q] /\ d'[q] = d[q] /\ own'[q] = own[q] /\ val'[q] = val[q],
         ~Owns(p)', head' = head, tail' = tail,
         \A q \in Workers : q # p /\ Owns(q) => vals'[d[q]][own[q]] = vals[d[q]][own[q]]
  PROVE  OwnerInv'
<1>1. SUFFICES ASSUME NEW q \in Workers, Owns(q)'
      PROVE  /\ d'[q] \in Elts /\ own'[q] \in 0 .. Size(d'[q]) - 1
             /\ vals'[d'[q]][own'[q]] \in Values
             /\ \A k \in 0 .. Count(d[q])' - 1 : own'[q] # At(d[q], k)'
             /\ \A r \in Workers : Owns(r)' /\ d'[r] = d'[q] /\ own'[r] = own'[q] => r = q
             /\ ppc'[q] = "tailFree" => val'[q] = vals'[d'[q]][own'[q]]
  BY DEF OwnerInv
<1>2. \A r \in Workers : Owns(r)' => Owns(r) /\ r # p BY DEF Owns
<1>3. Owns(q) /\ q # p BY <1>1, <1>2
<1>4. Count(d[q])' = Count(d[q]) /\ \A k : At(d[q], k)' = At(d[q], k) BY <1>3 DEF Count, At
<1>5. \A r \in Workers : Owns(r)' /\ d'[r] = d'[q] /\ own'[r] = own'[q] => r = q
  BY <1>2, <1>3, OwnerFacts
<1> QED BY <1>3, <1>4, <1>5, OwnerFacts

(* A push writes the slot after the range, if it finds it empty. *)
LEMMA SlotPushed ==
  ASSUME PoolInv, PushSlot, vals' # vals
  PROVE  \E e \in Elts : \E i \in 0 .. Size(e) - 1 :
           /\ e = d[Producer] /\ i = At(e, Count(e)) /\ Count(e) < Size(e)
           /\ vals' = [vals EXCEPT ![e][i] = val[Producer]] /\ vals[e][i] = NoVal
           /\ val[Producer] \in Values /\ \A k \in 0 .. Count(e) - 1 : At(e, k) # i
           /\ ppc[Producer] = "push" /\ ppc' = [ppc EXCEPT ![Producer] = "publish"]
           /\ head' = head /\ tail' = tail /\ d' = d /\ own' = own /\ val' = val
<1> DEFINE P == Producer
<1>0. /\ PoolType /\ ppc \in [Workers -> PPCs] /\ P \in Workers
  BY PoolAssumption DEF PoolInv, PoolType
<1>1. PICK e : e = d[P] OBVIOUS
<1>2. /\ ppc[P] = "push" /\ ~Full(e) /\ vals[e][Slot(e, head[e])] = NoVal
      /\ vals' = [vals EXCEPT ![e][Slot(e, head[e])] = val[P]]
      /\ ppc' = [ppc EXCEPT ![P] = "publish"]
      /\ head' = head /\ tail' = tail /\ d' = d /\ own' = own /\ val' = val
  BY <1>1 DEF PushSlot, PGoto
<1>3. e \in Elts BY <1>1, <1>2, Places DEF ProducerPCs
<1>4. /\ Slot(e, head[e]) = At(e, Count(e))
      /\ Count(e) \in Nat /\ Size(e) \in Nat /\ Count(e) < Size(e)
  <2>1. Count(e) <= Size(e) BY <1>3, RangeFacts
  <2>2. Slot(e, head[e]) = At(e, Count(e)) BY <1>0, <1>3, PlaceFacts
  <2>3. Count(e) \in Nat /\ Size(e) \in Nat BY <1>3, RangeFacts
  <2>4. Full(e) <=> Count(e) = Size(e) BY <1>0, <1>3, <2>1, PlaceFacts
  <2> QED BY <1>2, <2>1, <2>2, <2>3, <2>4
<1>5. PICK i : i = At(e, Count(e)) OBVIOUS
<1>6. val[P] \in Values BY <1>2 DEF PoolInv, ProducerInv
<1>7. i \in 0 .. Size(e) - 1 /\ \A k \in 0 .. Count(e) - 1 : At(e, k) # i
  <2>1. i \in 0 .. Size(e) - 1 BY <1>3, <1>4, <1>5, RangeFacts
  <2>2. \A k \in 0 .. Count(e) - 1 : k \in Nat /\ k < Count(e) /\ Count(e) < k + Size(e)
    BY <1>4
  <2> QED BY <1>3, <1>4, <1>5, <2>1, <2>2, RangeFacts
<1>8. vals' = [vals EXCEPT ![e][i] = val[P]] /\ vals[e][i] = NoVal BY <1>2, <1>4, <1>5
<1> QED BY <1>1, <1>2, <1>3, <1>4, <1>5, <1>6, <1>7, <1>8

LEMMA PushSlotStep ==
  ASSUME PoolInv, PushSlot, vals' # vals
  PROVE  RangeInv' /\ OwnerInv' /\ PublishInv'
<1> DEFINE P == Producer
<1>0. /\ PoolType /\ ppc \in [Workers -> PPCs] /\ P \in Workers
  BY PoolAssumption DEF PoolInv, PoolType
<1>1. PICK e \in Elts, i \in 0 .. Size(d[P]) - 1 :
           /\ e = d[P] /\ i \in 0 .. Size(e) - 1 /\ i = At(e, Count(e)) /\ Count(e) < Size(e)
           /\ vals' = [vals EXCEPT ![e][i] = val[P]] /\ vals[e][i] = NoVal
           /\ val[P] \in Values /\ \A k \in 0 .. Count(e) - 1 : At(e, k) # i
           /\ ppc[P] = "push" /\ ppc' = [ppc EXCEPT ![P] = "publish"]
           /\ head' = head /\ tail' = tail /\ d' = d /\ own' = own /\ val' = val
  BY SlotPushed
<1>2. /\ RangeInv'
      /\ \A p \in Workers : Owns(p) /\ ~(d[p] = e /\ own[p] = i) =>
              vals'[d[p]][own[p]] = vals[d[p]][own[p]]
  BY <1>1, WriteStep
<1>3. \A p \in Workers : Owns(p) => ~(d[p] = e /\ own[p] = i) BY <1>1, OwnerFacts
<1>4. \A p \in Workers : Owns(p)' = Owns(p) /\ (p # P => ppc'[p] = ppc[p])
  BY <1>0, <1>1 DEF Owns
<1>5. ~Owns(P)' BY <1>0, <1>1 DEF Owns
<1>6. OwnerInv' BY <1>0, <1>1, <1>2, <1>3, <1>4, <1>5, OwnersKeep
<1>7. PublishInv'
  <2>1. vals'[e][i] = val[P]
    <3>1. PICK v \in Values \cup {NoVal} : v = val[P] BY <1>1
    <3>2. vals' = [vals EXCEPT ![e][i] = v] /\ i \in 0 .. Size(e) - 1 BY <1>1, <3>1
    <3>3. vals'[e][i] = v BY <1>0, <3>2, SlotWritten
    <3> QED BY <3>1, <3>3
  <2>2. \A p \in Workers : Owns(p)' /\ d'[p] = e => own'[p] # i BY <1>1, <1>3, <1>4
  <2>3. Count(d[P])' = Count(e) /\ At(d[P], Count(d[P]))' = i BY <1>1 DEF Count, At
  <2>4. Size(d[P])' = Size(e) /\ d'[P] = e /\ val'[P] = val[P] BY <1>1 DEF Size
  <2> QED BY <1>1, <2>1, <2>2, <2>3, <2>4 DEF PublishInv
<1> QED BY <1>2, <1>6, <1>7

LEMMA PublishStep ==
  ASSUME PoolInv, PushPublish
  PROVE  RangeInv' /\ OwnerInv' /\ PublishInv'
<1> DEFINE P == Producer
<1>0. /\ PoolType /\ ppc \in [Workers -> PPCs] /\ P \in Workers /\ DOMAIN head = Elts
      /\ d \in [Workers -> 0 .. MaxElts] /\ val \in [Workers -> Values \cup {NoVal}]
  BY PoolAssumption DEF PoolInv, PoolType
<1>1. PICK e : e = d[P] OBVIOUS
<1>2. /\ ppc[P] = "publish" /\ ppc'[P] = "idle"
      /\ head' = [head EXCEPT ![e] = (@ + 1) % Indexes] /\ tail' = tail /\ vals' = vals
      /\ own' = own
      /\ \A q \in Workers : q # P =>
           ppc'[q] = ppc[q] /\ d'[q] = d[q] /\ own'[q] = own[q] /\ val'[q] = val[q]
  BY <1>0, <1>1 DEF PushPublish, PGoto
<1>3. e \in Elts BY <1>1, <1>2, Places DEF ProducerPCs
<1>4. /\ Count(e) < Size(e) /\ vals[e][At(e, Count(e))] \in Values
      /\ \A p \in Workers : Owns(p) /\ d[p] = e => own[p] # At(e, Count(e))
  BY <1>1, <1>2 DEF PoolInv, PublishInv, ProducerInv
<1>5. Count(e)' = Count(e) + 1 /\ \A k : At(e, k)' = At(e, k)
  BY <1>0, <1>2, <1>3, <1>4, Published
<1>6. \A f \in Elts : f # e => Count(f)' = Count(f) /\ \A k : At(f, k)' = At(f, k)
  BY <1>0, <1>2, <1>3, RingKept
<1>7. Count(e) \in Nat /\ Size(e) \in Nat BY <1>3, RangeFacts
<1>8. RangeInv'
  <2>1. ASSUME NEW f \in Elts
        PROVE  Count(f)' <= Size(f) /\ \A k \in 0 .. Count(f)' - 1 : vals'[f][At(f, k)'] \in Values
    <3>1. Count(f) <= Size(f) /\ \A k \in 0 .. Count(f) - 1 : vals[f][At(f, k)] \in Values
      BY DEF PoolInv, RangeInv
    <3>2. CASE f # e BY <1>2, <1>6, <3>1, <3>2
    <3>3. CASE f = e
      <4>1. \A k \in 0 .. Count(e)' - 1 : k = Count(e) \/ k \in 0 .. Count(e) - 1
        BY <1>5, <1>7
      <4> QED BY <1>2, <1>4, <1>5, <1>7, <3>1, <3>3, <4>1
    <3> QED BY <3>2, <3>3
  <2> QED BY <2>1 DEF RangeInv
<1>9. OwnerInv'
  <2>1. SUFFICES ASSUME NEW q \in Workers, Owns(q)'
        PROVE  /\ d'[q] \in Elts /\ own'[q] \in 0 .. Size(d'[q]) - 1
               /\ vals'[d'[q]][own'[q]] \in Values
               /\ \A k \in 0 .. Count(d[q])' - 1 : own'[q] # At(d[q], k)'
               /\ \A r \in Workers : Owns(r)' /\ d'[r] = d'[q] /\ own'[r] = own'[q] => r = q
               /\ ppc'[q] = "tailFree" => val'[q] = vals'[d'[q]][own'[q]]
    BY DEF OwnerInv
  <2>2. \A r \in Workers : Owns(r)' => Owns(r) /\ r # P BY <1>2 DEF Owns
  <2>3. Owns(q) /\ q # P BY <2>1, <2>2
  <2>4. PICK f \in Elts : f = d[q] BY <2>3, OwnerFacts
  <2>5. Count(d[q])' = Count(f)' /\ \A k : At(d[q], k)' = At(f, k)'
    BY <1>2, <2>3, <2>4 DEF Count, At
  <2>6. \A k \in 0 .. Count(f)' - 1 : own[q] # At(f, k)'
    <3>1. \A k \in 0 .. Count(f) - 1 : own[q] # At(f, k) BY <2>3, <2>4, OwnerFacts
    <3>2. CASE f # e BY <1>6, <3>1, <3>2
    <3>3. CASE f = e
      <4>1. \A k \in 0 .. Count(e)' - 1 : k = Count(e) \/ k \in 0 .. Count(e) - 1
        BY <1>5, <1>7
      <4> QED BY <1>4, <1>5, <2>3, <2>4, <3>1, <3>3, <4>1
    <3> QED BY <3>2, <3>3
  <2>7. \A r \in Workers : Owns(r)' /\ d'[r] = d'[q] /\ own'[r] = own'[q] => r = q
    BY <1>2, <2>2, <2>3, OwnerFacts
  <2> QED BY <1>2, <2>3, <2>5, <2>6, <2>7, OwnerFacts
<1>10. PublishInv' BY <1>2 DEF PublishInv
<1> QED BY <1>8, <1>9, <1>10

LEMMA ReleaseStep ==
  ASSUME PoolInv, NEW p \in Workers, Owns(p), ~Owns(p)',
         vals' = [vals EXCEPT ![d[p]][own[p]] = NoVal], head' = head, tail' = tail,
         \A q \in Workers : q # p =>
           ppc'[q] = ppc[q] /\ d'[q] = d[q] /\ own'[q] = own[q] /\ val'[q] = val[q],
         ppc'[p] # "publish"
  PROVE  RangeInv' /\ OwnerInv' /\ PublishInv'
<1>0. PoolType /\ Producer \in Workers BY PoolAssumption DEF PoolInv
<1>1a. PICK e \in Elts : e = d[p] BY OwnerFacts
<1>1b. PICK i \in 0 .. Size(e) - 1 : i = own[p] BY <1>1a, OwnerFacts
<1>1. e = d[p] /\ i = own[p] BY <1>1a, <1>1b
<1>2. \A k \in 0 .. Count(e) - 1 : At(e, k) # i BY <1>1, OwnerFacts
<1>3. vals' = [vals EXCEPT ![e][i] = NoVal] BY <1>1
<1>4. /\ RangeInv'
      /\ \A q \in Workers : Owns(q) /\ ~(d[q] = e /\ own[q] = i) =>
              vals'[d[q]][own[q]] = vals[d[q]][own[q]]
  <2>1. PICK v \in Values \cup {NoVal} : v = NoVal OBVIOUS
  <2>2. vals' = [vals EXCEPT ![e][i] = v] BY <1>3, <2>1
  <2> QED BY <1>2, <2>2, WriteStep
<1>5. \A q \in Workers : q # p /\ Owns(q) => ~(d[q] = e /\ own[q] = i) BY <1>1, OwnerFacts
<1>6. OwnerInv' BY <1>4, <1>5, OwnersKeep
<1>7. PublishInv'
  <2>1. SUFFICES ASSUME ppc'[Producer] = "publish" PROVE PublishInv' BY DEF PublishInv
  <2>2. Producer # p /\ ppc[Producer] = "publish" BY <1>0, <2>1
  <2>3. PICK f : f = d[Producer] OBVIOUS
  <2>4. /\ f \in Elts /\ Count(f) < Size(f) /\ vals[f][At(f, Count(f))] = val[Producer]
        /\ \A q \in Workers : Owns(q) /\ d[q] = f => own[q] # At(f, Count(f))
    BY <2>2, <2>3, Places DEF PoolInv, PublishInv, ProducerPCs
  <2>5. ~(f = e /\ At(f, Count(f)) = i) BY <1>1, <2>4
  <2>6. At(f, Count(f)) \in 0 .. Size(f) - 1 BY <2>4, RangeFacts
  <2>7. vals'[f][At(f, Count(f))] = vals[f][At(f, Count(f))]
    BY <1>0, <1>1, <1>3, <2>4, <2>5, <2>6, SlotWritten
  <2>8. /\ d'[Producer] = f /\ val'[Producer] = val[Producer]
        /\ Count(d[Producer])' = Count(f) /\ At(d[Producer], Count(d[Producer]))' = At(f, Count(f))
    BY <1>0, <2>2, <2>3 DEF Count, At
  <2>9. \A q \in Workers : Owns(q)' => Owns(q) /\ d'[q] = d[q] /\ own'[q] = own[q] BY DEF Owns
  <2>10. \A q \in Workers : Owns(q)' /\ d'[q] = f => own'[q] # At(f, Count(f)) BY <2>4, <2>9
  <2> QED BY <2>4, <2>7, <2>8, <2>10 DEF PublishInv
<1> QED BY <1>4, <1>6, <1>7

LEMMA HeadTakeStep ==
  ASSUME PoolInv, HeadTake
  PROVE  RangeInv' /\ OwnerInv' /\ PublishInv'
<1> DEFINE P == Producer
<1>0. /\ PoolType /\ ppc \in [Workers -> PPCs] /\ P \in Workers /\ DOMAIN head = Elts
      /\ DOMAIN own = Workers
  BY PoolAssumption DEF PoolInv, PoolType
<1>1. PICK e : e = d[P] OBVIOUS
<1>2. /\ ppc[P] = "popHead" /\ ppc'[P] = "headOwn" /\ ~Drained(e)
      /\ head' = [head EXCEPT ![e] = (@ - 1) % Indexes] /\ tail' = tail /\ vals' = vals
      /\ own'[P] = Slot(e, head'[e]) /\ d' = d /\ val' = val
      /\ \A q \in Workers : q # P => ppc'[q] = ppc[q] /\ own'[q] = own[q]
  BY <1>0, <1>1 DEF HeadTake, PGoto, Drained
<1>3. e \in Elts BY <1>1, <1>2, Places DEF ProducerPCs
<1>4. Count(e)' = Count(e) - 1 /\ (\A k : At(e, k)' = At(e, k)) /\ own'[P] = At(e, Count(e) - 1)
  BY <1>0, <1>2, <1>3, TakenAtHead
<1>5. \A f \in Elts : f # e => Count(f)' = Count(f) /\ \A k : At(f, k)' = At(f, k)
  BY <1>0, <1>2, <1>3, RingKept
<1>6. /\ Count(e) \in Nat /\ Size(e) \in Nat /\ Count(e) # 0 /\ Count(e) <= Size(e)
      /\ Count(e) - 1 \in Nat /\ Count(e) - 1 < Count(e)
  <2>1. Count(e) \in Nat /\ Size(e) \in Nat /\ Count(e) <= Size(e) BY <1>3, RangeFacts
  <2>2. Count(e) # 0 BY <1>0, <1>2, <1>3, PlaceFacts
  <2> QED BY <2>1, <2>2
<1>7. RangeInv'
  <2>1. ASSUME NEW f \in Elts
        PROVE  Count(f)' <= Size(f) /\ \A k \in 0 .. Count(f)' - 1 : vals'[f][At(f, k)'] \in Values
    <3>1. Count(f) <= Size(f) /\ \A k \in 0 .. Count(f) - 1 : vals[f][At(f, k)] \in Values
      BY DEF PoolInv, RangeInv
    <3>2. CASE f # e BY <1>2, <1>5, <3>1, <3>2
    <3>3. CASE f = e BY <1>2, <1>4, <1>6, <3>1, <3>3
    <3> QED BY <3>2, <3>3
  <2> QED BY <2>1 DEF RangeInv
<1>8. \A q \in Workers : q # P => Owns(q)' = Owns(q) /\ (ppc'[q] = "tailFree" => ppc[q] = "tailFree")
  BY <1>2 DEF Owns
<1>9. ASSUME NEW q \in Workers, q # P, Owns(q), d[q] = e PROVE own[q] # own'[P]
  <2>1. Count(e) - 1 \in 0 .. Count(e) - 1 BY <1>6
  <2> QED BY <1>4, <1>9, <2>1, OwnerFacts
<1>10. OwnerInv'
  <2>1. SUFFICES ASSUME NEW q \in Workers, Owns(q)'
        PROVE  /\ d'[q] \in Elts /\ own'[q] \in 0 .. Size(d'[q]) - 1
               /\ vals'[d'[q]][own'[q]] \in Values
               /\ \A k \in 0 .. Count(d[q])' - 1 : own'[q] # At(d[q], k)'
               /\ \A r \in Workers : Owns(r)' /\ d'[r] = d'[q] /\ own'[r] = own'[q] => r = q
               /\ ppc'[q] = "tailFree" => val'[q] = vals'[d'[q]][own'[q]]
    BY DEF OwnerInv
  <2>2. CASE q = P
    <3>1. own'[P] \in 0 .. Size(e) - 1 /\ vals[e][own'[P]] \in Values BY <1>3, <1>4, <1>6, RangeFacts
    <3>2. ASSUME NEW k \in 0 .. Count(e)' - 1 PROVE own'[P] # At(e, k)'
      <4>1. k \in Nat /\ k < Count(e) - 1 /\ Count(e) - 1 < k + Size(e) BY <1>4, <1>6
      <4> QED BY <1>3, <1>4, <1>6, <4>1, RangeFacts
    <3>3. Count(d[P])' = Count(e)' /\ \A k : At(d[P], k)' = At(e, k)' BY <1>1, <1>2 DEF Count, At
    <3>4. \A r \in Workers : Owns(r)' /\ d'[r] = e /\ own'[r] = own'[P] => r = P
      BY <1>2, <1>8, <1>9
    <3> QED BY <1>1, <1>2, <1>3, <2>2, <3>1, <3>2, <3>3, <3>4
  <2>3. CASE q # P
    <3>1. Owns(q) BY <1>8, <2>1, <2>3
    <3>2. PICK f \in Elts : f = d[q] BY <3>1, OwnerFacts
    <3>3. Count(d[q])' = Count(f)' /\ \A k : At(d[q], k)' = At(f, k)'
      BY <1>2, <3>2 DEF Count, At
    <3>4. \A k \in 0 .. Count(f)' - 1 : own[q] # At(f, k)'
      <4>1. \A k \in 0 .. Count(f) - 1 : own[q] # At(f, k) BY <3>1, <3>2, OwnerFacts
      <4>2. CASE f # e BY <1>5, <4>1, <4>2
      <4>3. CASE f = e BY <1>4, <1>6, <4>1, <4>3
      <4> QED BY <4>2, <4>3
    <3>5. \A r \in Workers : Owns(r)' /\ d'[r] = d'[q] /\ own'[r] = own'[q] => r = q
      <4>1. \A r \in Workers : r # P /\ Owns(r) /\ d[r] = d[q] /\ own[r] = own[q] => r = q
        BY <3>1, OwnerFacts
      <4>2. d[P] = d[q] => own'[P] # own[q] BY <1>1, <1>9, <2>3, <3>1
      <4> QED BY <1>2, <1>8, <2>3, <4>1, <4>2
    <3> QED BY <1>2, <1>8, <2>3, <3>1, <3>3, <3>4, <3>5, OwnerFacts
  <2> QED BY <2>2, <2>3
<1>11. PublishInv' BY <1>2 DEF PublishInv
<1> QED BY <1>7, <1>10, <1>11

LEMMA TailTakeStep ==
  ASSUME PoolInv, NEW p \in Workers \ {Producer}, TailTake(p)
  PROVE  RangeInv' /\ OwnerInv' /\ PublishInv'
<1>0. /\ PoolType /\ ppc \in [Workers -> PPCs] /\ p \in Workers /\ DOMAIN tail = Elts
      /\ DOMAIN own = Workers /\ Producer \in Workers
  BY PoolAssumption DEF PoolInv, PoolType
<1>1. PICK e : e = d[p] OBVIOUS
<1>2. /\ ppc[p] = "popTail" /\ ppc'[p] = "tailOwn" /\ ~Drained(e)
      /\ tail' = [tail EXCEPT ![e] = (@ + 1) % Indexes] /\ head' = head /\ vals' = vals
      /\ own'[p] = Slot(e, tail[e]) /\ d' = d /\ val' = val
      /\ \A q \in Workers : q # p => ppc'[q] = ppc[q] /\ own'[q] = own[q]
  BY <1>0, <1>1 DEF TailTake, PGoto, Drained
<1>3. e \in Elts BY <1>1, <1>2, Places
<1>4. Count(e)' = Count(e) - 1 /\ (\A k \in Nat : At(e, k)' = At(e, k + 1)) /\ own'[p] = At(e, 0)
  <2>1. tail'[e] = (tail[e] + 1) % Indexes /\ head'[e] = head[e] BY <1>0, <1>2, <1>3
  <2>2. Slot(e, tail[e]) = At(e, 0) BY <1>0, <1>3, PlaceFacts
  <2> QED BY <1>0, <1>2, <1>3, <2>1, <2>2, TakenAtTail
<1>5. \A f \in Elts : f # e => Count(f)' = Count(f) /\ \A k : At(f, k)' = At(f, k)
  BY <1>0, <1>2, <1>3, RingKept
<1>6. /\ Count(e) \in Nat /\ Size(e) \in Nat /\ Count(e) # 0 /\ Count(e) <= Size(e)
      /\ 0 < Count(e) /\ 0 \in 0 .. Count(e) - 1
  <2>1. Count(e) \in Nat /\ Size(e) \in Nat /\ Count(e) <= Size(e) BY <1>3, RangeFacts
  <2>2. Count(e) # 0 BY <1>0, <1>2, <1>3, PlaceFacts
  <2> QED BY <2>1, <2>2
<1>7. \A k \in 0 .. Count(e)' - 1 : k \in Nat /\ k + 1 \in Nat /\ k + 1 \in 0 .. Count(e) - 1
                                    /\ k + 1 < Count(e)
  BY <1>4, <1>6
<1>8. RangeInv'
  <2>1. ASSUME NEW f \in Elts
        PROVE  Count(f)' <= Size(f) /\ \A k \in 0 .. Count(f)' - 1 : vals'[f][At(f, k)'] \in Values
    <3>1. Count(f) <= Size(f) /\ \A k \in 0 .. Count(f) - 1 : vals[f][At(f, k)] \in Values
      BY DEF PoolInv, RangeInv
    <3>2. CASE f # e BY <1>2, <1>5, <3>1, <3>2
    <3>3. CASE f = e
      <4>1. Count(e)' <= Size(e) BY <1>4, <1>6
      <4>2. \A k \in 0 .. Count(e)' - 1 : vals[e][At(e, k)'] \in Values BY <1>4, <1>7, <3>1, <3>3
      <4> QED BY <1>2, <3>3, <4>1, <4>2
    <3> QED BY <3>2, <3>3
  <2> QED BY <2>1 DEF RangeInv
<1>9. \A q \in Workers : q # p => Owns(q)' = Owns(q) /\ (ppc'[q] = "tailFree" => ppc[q] = "tailFree")
  BY <1>2 DEF Owns
<1>10. ASSUME NEW q \in Workers, q # p, Owns(q), d[q] = e PROVE own[q] # own'[p]
  BY <1>4, <1>6, <1>10, OwnerFacts
<1>11. OwnerInv'
  <2>1. SUFFICES ASSUME NEW q \in Workers, Owns(q)'
        PROVE  /\ d'[q] \in Elts /\ own'[q] \in 0 .. Size(d'[q]) - 1
               /\ vals'[d'[q]][own'[q]] \in Values
               /\ \A k \in 0 .. Count(d[q])' - 1 : own'[q] # At(d[q], k)'
               /\ \A r \in Workers : Owns(r)' /\ d'[r] = d'[q] /\ own'[r] = own'[q] => r = q
               /\ ppc'[q] = "tailFree" => val'[q] = vals'[d'[q]][own'[q]]
    BY DEF OwnerInv
  <2>2. CASE q = p
    <3>1. own'[p] \in 0 .. Size(e) - 1 /\ vals[e][own'[p]] \in Values BY <1>3, <1>4, <1>6, RangeFacts
    <3>2. ASSUME NEW k \in 0 .. Count(e)' - 1 PROVE own'[p] # At(e, k)'
      <4>1. k \in Nat /\ k + 1 \in Nat /\ 0 < k + 1 /\ k + 1 < 0 + Size(e) BY <1>6, <1>7
      <4> QED BY <1>3, <1>4, <4>1, RangeFacts
    <3>3. Count(d[p])' = Count(e)' /\ \A k : At(d[p], k)' = At(e, k)' BY <1>1, <1>2 DEF Count, At
    <3>4. \A r \in Workers : Owns(r)' /\ d'[r] = e /\ own'[r] = own'[p] => r = p
      BY <1>2, <1>9, <1>10
    <3> QED BY <1>1, <1>2, <1>3, <2>2, <3>1, <3>2, <3>3, <3>4
  <2>3. CASE q # p
    <3>1. Owns(q) BY <1>9, <2>1, <2>3
    <3>2. PICK f \in Elts : f = d[q] BY <3>1, OwnerFacts
    <3>3. Count(d[q])' = Count(f)' /\ \A k : At(d[q], k)' = At(f, k)'
      BY <1>2, <3>2 DEF Count, At
    <3>4. \A k \in 0 .. Count(f)' - 1 : own[q] # At(f, k)'
      <4>1. \A k \in 0 .. Count(f) - 1 : own[q] # At(f, k) BY <3>1, <3>2, OwnerFacts
      <4>2. CASE f # e BY <1>5, <4>1, <4>2
      <4>3. CASE f = e BY <1>4, <1>7, <4>1, <4>3
      <4> QED BY <4>2, <4>3
    <3>5. \A r \in Workers : Owns(r)' /\ d'[r] = d'[q] /\ own'[r] = own'[q] => r = q
      <4>1. \A r \in Workers : r # p /\ Owns(r) /\ d[r] = d[q] /\ own[r] = own[q] => r = q
        BY <3>1, OwnerFacts
      <4>2. d[p] = d[q] => own'[p] # own[q] BY <1>1, <1>10, <2>3, <3>1
      <4> QED BY <1>2, <1>9, <2>3, <4>1, <4>2
    <3> QED BY <1>2, <1>9, <2>3, <3>1, <3>3, <3>4, <3>5, OwnerFacts
  <2> QED BY <2>2, <2>3
<1>12. PublishInv'
  <2>1. SUFFICES ASSUME ppc'[Producer] = "publish" PROVE PublishInv' BY DEF PublishInv
  <2>2. Producer # p /\ ppc[Producer] = "publish" BY <1>0, <1>2, <2>1
  <2>3. PICK f : f = d[Producer] OBVIOUS
  <2>4. /\ f \in Elts /\ Count(f) < Size(f) /\ vals[f][At(f, Count(f))] = val[Producer]
        /\ \A q \in Workers : Owns(q) /\ d[q] = f => own[q] # At(f, Count(f))
    BY <2>2, <2>3, Places DEF PoolInv, PublishInv, ProducerPCs
  <2>5. Count(f)' < Size(f) /\ At(f, Count(f))' = At(f, Count(f))
    <3>0. PICK c : c = Count(f)' OBVIOUS
    <3>1. At(f, Count(f))' = At(f, c)' BY <3>0 DEF At
    <3>2. CASE f # e BY <1>5, <2>4, <3>0, <3>1, <3>2
    <3>3. CASE f = e
      <4>1. c \in Nat /\ c + 1 = Count(f) BY <1>4, <1>6, <3>0, <3>3
      <4>2. At(f, c)' = At(f, c + 1) BY <1>4, <3>3, <4>1
      <4>3. At(f, c + 1) = At(f, Count(f)) BY <4>1
      <4>4. Count(f)' < Size(f) BY <1>4, <1>6, <2>4, <3>3
      <4> QED BY <3>1, <4>2, <4>3, <4>4
    <3> QED BY <3>2, <3>3
  <2>6. \A q \in Workers : Owns(q)' /\ d'[q] = f => own'[q] # At(f, Count(f))
    <3>1. \A q \in Workers : q # p /\ Owns(q)' /\ d'[q] = f => own'[q] # At(f, Count(f))
      BY <1>2, <1>9, <2>4
    <3>2. d[p] = f => own'[p] # At(f, Count(f))
      BY <1>1, <1>3, <1>4, <1>6, <2>4, RangeFacts
    <3> QED BY <1>2, <3>1, <3>2
  <2>7. /\ d'[Producer] = f /\ val'[Producer] = val[Producer]
        /\ Count(d[Producer])' = Count(f)'
        /\ At(d[Producer], Count(d[Producer]))' = At(f, Count(f))'
    BY <1>2, <2>3 DEF Count, At
  <2> QED BY <1>2, <2>4, <2>5, <2>6, <2>7 DEF PublishInv
<1> QED BY <1>8, <1>11, <1>12


LEMMA PoolInvStep ==
  ASSUME PoolInv, PoolNext
  PROVE  PoolInv'
<1>0. /\ ppc \in [Workers -> PPCs] /\ d \in [Workers -> 0 .. MaxElts]
      /\ own \in [Workers -> Nat] /\ val \in [Workers -> Values \cup {NoVal}]
      /\ d2 \in [Workers -> 0 .. MaxElts] /\ Producer \in Workers
  BY PoolAssumption DEF PoolInv, PoolType
<1>1. PoolType' /\ ChainInv' /\ ProducerInv' /\ ConsumerInv'
  BY PoolTypeStep, LinkStep, ProducerStep, ConsumerStep
<1>2. RangeInv' /\ OwnerInv' /\ PublishInv'
  <2>1. CASE PushSlot /\ vals' # vals BY <2>1, PushSlotStep
  <2>2. CASE PushPublish BY <2>2, PublishStep
  <2>3. CASE HeadTake BY <2>3, HeadTakeStep
  <2>4. CASE \E p \in Workers \ {Producer} : TailTake(p) BY <2>4, TailTakeStep
  <2>5. CASE HeadReturn
    <3>1. Owns(Producer) /\ ~Owns(Producer)' /\ ppc'[Producer] # "publish"
      BY <1>0, <2>5 DEF HeadReturn, PGoto, Owns
    <3>2. /\ vals' = [vals EXCEPT ![d[Producer]][own[Producer]] = NoVal]
          /\ head' = head /\ tail' = tail
          /\ \A q \in Workers : q # Producer =>
               ppc'[q] = ppc[q] /\ d'[q] = d[q] /\ own'[q] = own[q] /\ val'[q] = val[q]
      BY <1>0, <2>5 DEF HeadReturn, PGoto
    <3> QED BY <1>0, <3>1, <3>2, ReleaseStep
  <2>6. CASE \E p \in Workers \ {Producer} : TailFree(p)
    <3>1. PICK p \in Workers \ {Producer} : TailFree(p) BY <2>6
    <3>2. Owns(p) /\ ~Owns(p)' /\ ppc'[p] # "publish"
      BY <1>0, <3>1 DEF TailFree, PGoto, Owns
    <3>3. /\ vals' = [vals EXCEPT ![d[p]][own[p]] = NoVal]
          /\ head' = head /\ tail' = tail
          /\ \A q \in Workers : q # p =>
               ppc'[q] = ppc[q] /\ d'[q] = d[q] /\ own'[q] = own[q] /\ val'[q] = val[q]
      BY <1>0, <3>1 DEF TailFree, PGoto, Leave
    <3> QED BY <3>2, <3>3, ReleaseStep
  <2> QED BY <2>1, <2>2, <2>3, <2>4, <2>5, <2>6, QuietStep
<1> QED BY <1>1, <1>2 DEF PoolInv

LEMMA PoolInvInit ==
  ASSUME PoolInit PROVE PoolInv
<1>1. PoolType BY PoolTypeInit
<1>2. \A e \in Elts : Count(e) = 0 /\ Drained(e) /\ Size(e) \in Nat
  BY <1>1, PlaceFacts DEF PoolInit, Drained
<1>3. \A p \in Workers : ppc[p] = "idle" BY DEF PoolInit
<1>4. ChainInv
  <2>1. chead = 0 /\ ctail = 0 BY DEF PoolInit
  <2>2. \A e \in Elts : next[e] = 0 /\ prev[e] = 0 /\ e \in Nat /\ ~(e <= 0)
    BY PoolAssumption DEF PoolInit, Elts
  <2> QED BY <1>2, <2>1, <2>2 DEF ChainInv
<1>5. ProducerInv
  BY <1>3, PoolAssumption DEF ProducerInv, ProducerPCs
<1>6. ConsumerInv BY <1>3 DEF ConsumerInv, ConsumerPCs
<1>7. RangeInv BY <1>2 DEF RangeInv
<1>8. PublishInv BY <1>3, PoolAssumption DEF PublishInv
<1>9. OwnerInv BY <1>3 DEF OwnerInv, Owns
<1> QED BY <1>1, <1>4, <1>5, <1>6, <1>7, <1>8, <1>9 DEF PoolInv

LEMMA PoolInvStutter ==
  ASSUME PoolInv, UNCHANGED poolVars
  PROVE  PoolInv'
<1> USE DEF poolVars, rings
<1>1. PoolType' BY DEF PoolInv, PoolType
<1>2. ChainInv' BY DEF PoolInv, ChainInv, Drained
<1>3. ProducerInv' BY DEF PoolInv, ProducerInv, Drained
<1>4. ConsumerInv' BY DEF PoolInv, ConsumerInv, Drained
<1>5. RangeInv' BY DEF PoolInv, RangeInv, Count, At
<1>6. OwnerInv' BY DEF PoolInv, OwnerInv, Owns, Count, At
<1>7. PublishInv' BY DEF PoolInv, PublishInv, Owns, Count, At
<1> QED BY <1>1, <1>2, <1>3, <1>4, <1>5, <1>6, <1>7 DEF PoolInv

(* The inductive invariant of the chain. *)
THEOREM PoolInductive == PoolSpec => []PoolInv
<1>1. PoolInit => PoolInv BY PoolInvInit
<1>2. PoolInv /\ [PoolNext]_poolVars => PoolInv' BY PoolInvStep, PoolInvStutter
<1> QED BY <1>1, <1>2, PTL DEF PoolSpec

-----------------------------------------------------------------------------
(* Sequences put together ring by ring: u[n] is what the first n of s hold.   *)

-----------------------------------------------------------------------------
(* The elements of all rings: u[e] are those of the first e of the n rings.   *)
Joins(u, E, n) ==
  /\ u[0] = << >>
  /\ \A e \in 1 .. n : u[e] = u[e - 1] \o E[e]
  /\ \A e \in 1 .. n : E[e] \in Seq(Values)

LEMMA Upwards ==
  ASSUME NEW n \in Nat, NEW G, 0 \in G, \A e \in 1 .. n : e - 1 \in G => e \in G
  PROVE  \A e \in 0 .. n : e \in G
<1> SUFFICES ASSUME NEW x \in 0 .. n, x \notin G PROVE FALSE OBVIOUS
<1> DEFINE B == {e \in 0 .. n : e \notin G}
<1>1. B \in SUBSET Nat /\ B # {} OBVIOUS
<1>2. PICK e \in B : \A y \in B : e <= y BY <1>1, LeastNat
<1>3. e \in 1 .. n /\ e - 1 \in 0 .. n /\ e - 1 \notin B BY <1>2
<1> QED BY <1>2, <1>3

LEMMA JoinExists ==
  ASSUME NEW n \in Nat, NEW E
  PROVE  \E u : u = [e \in 0 .. n |-> IF e = 0 THEN << >> ELSE u[e - 1] \o E[e]]
<1> DEFINE Is(u, m) == u = [e \in 0 .. m |-> IF e = 0 THEN << >> ELSE u[e - 1] \o E[e]]
           G == {m \in 0 .. n : \E u : Is(u, m)}
<1>1. 0 \in G
  <2> DEFINE u == [e \in 0 .. 0 |-> << >>]
  <2>1. u = [e \in 0 .. 0 |-> IF e = 0 THEN << >> ELSE u[e - 1] \o E[e]] OBVIOUS
  <2> HIDE DEF u
  <2>2. \E x : Is(x, 0) BY <2>1, Zenon
  <2>3. 0 \in 0 .. n OBVIOUS
  <2> QED BY <2>2, <2>3, Zenon
<1>2. ASSUME NEW m \in 1 .. n, m - 1 \in G PROVE m \in G
  <2>1. PICK u : Is(u, m - 1) BY <1>2
  <2> DEFINE w == [e \in 0 .. m |-> IF e = m THEN u[m - 1] \o E[m] ELSE u[e]]
             f == [e \in 0 .. m |-> IF e = 0 THEN << >> ELSE w[e - 1] \o E[e]]
  <2>2. ASSUME NEW e \in 0 .. m PROVE w[e] = f[e]
    <3>1. CASE e = m
      <4>1. m # 0 /\ m - 1 \in 0 .. m /\ m - 1 # m OBVIOUS
      <4>2. w[m - 1] = u[m - 1] BY <4>1
      <4> QED BY <3>1, <4>1, <4>2
    <3>2. CASE e = 0 BY <2>1, <3>2
    <3>3. CASE e # m /\ e # 0
      <4>1. e \in 0 .. (m - 1) /\ e - 1 \in 0 .. m /\ e - 1 # m BY <3>3
      <4>2. u[e] = u[e - 1] \o E[e] BY <2>1, <3>3, <4>1
      <4>3. w[e] = u[e] /\ w[e - 1] = u[e - 1] BY <3>3, <4>1
      <4> QED BY <3>3, <4>2, <4>3
    <3> QED BY <3>1, <3>2, <3>3
  <2>3. w = f BY <2>2
  <2> HIDE DEF w
  <2>4. \E x : Is(x, m) BY <2>3, Zenon
  <2>5. m \in 0 .. n OBVIOUS
  <2> QED BY <2>4, <2>5, Zenon
<1> HIDE DEF G
<1>3. n \in G BY <1>1, <1>2, Upwards
<1> QED BY <1>3 DEF G

LEMMA JoinSeq ==
  ASSUME NEW n \in Nat, NEW u, NEW E, Joins(u, E, n)
  PROVE  \A e \in 0 .. n : u[e] \in Seq(Values)
<1> DEFINE G == {e \in 0 .. n : u[e] \in Seq(Values)}
<1>1. 0 \in G
  <2>1. u[0] = << >> /\ << >> \in Seq(Values) /\ 0 \in 0 .. n BY EmptySeq DEF Joins
  <2> QED BY <2>1
<1>2. ASSUME NEW e \in 1 .. n, e - 1 \in G PROVE e \in G
  <2>1. u[e - 1] \in Seq(Values) /\ E[e] \in Seq(Values) /\ u[e] = u[e - 1] \o E[e]
    BY <1>2 DEF Joins
  <2>2. u[e] \in Seq(Values) /\ e \in 0 .. n BY <2>1, ConcatProperties
  <2> QED BY <2>2
<1> HIDE DEF G
<1>3. \A e \in 0 .. n : e \in G BY <1>1, <1>2, Upwards
<1> QED BY <1>3 DEF G

(* The same rings up to m hold the same elements. *)
LEMMA JoinSame ==
  ASSUME NEW n \in Nat, NEW u, NEW w, NEW E, NEW F, Joins(u, E, n), Joins(w, F, n),
         NEW m \in 0 .. n, \A e \in 1 .. m : E[e] = F[e]
  PROVE  u[m] = w[m]
<1> DEFINE G == {e \in 0 .. m : u[e] = w[e]}
<1>1. 0 \in G BY DEF Joins
<1>2. ASSUME NEW e \in 1 .. m, e - 1 \in G PROVE e \in G
  <2>1. e \in 1 .. n /\ e \in 0 .. m /\ E[e] = F[e] OBVIOUS
  <2>2. u[e] = u[e - 1] \o E[e] /\ w[e] = w[e - 1] \o F[e] BY <2>1 DEF Joins
  <2>3. u[e - 1] = w[e - 1] BY <1>2
  <2> QED BY <2>1, <2>2, <2>3
<1> HIDE DEF G
<1>3. m \in Nat OBVIOUS
<1>4. \A e \in 0 .. m : e \in G BY <1>1, <1>2, <1>3, Upwards
<1> QED BY <1>3, <1>4 DEF G

(* Empty rings at either end add nothing. *)
LEMMA JoinAbove ==
  ASSUME NEW n \in Nat, NEW u, NEW E, Joins(u, E, n), NEW m \in 0 .. n,
         \A e \in 1 .. n : m < e => E[e] = << >>
  PROVE  u[n] = u[m]
<1> DEFINE G == {e \in 0 .. n : m <= e => u[e] = u[m]}
<1>1. 0 \in G OBVIOUS
<1>2. ASSUME NEW e \in 1 .. n, e - 1 \in G PROVE e \in G
  <2>1. u[e] = u[e - 1] \o E[e] BY DEF Joins
  <2>2. CASE e < m BY <2>2
  <2>3. CASE e = m BY <2>3
  <2>4. CASE m < e
    <3>1. u[e - 1] = u[m] /\ E[e] = << >> BY <1>2, <2>4
    <3>2. u[m] \in Seq(Values) BY JoinSeq
    <3>3. u[m] \o << >> = u[m] BY <3>2, ConcatEmptySeq
    <3> QED BY <2>1, <3>1, <3>3
  <2> QED BY <2>2, <2>3, <2>4
<1> HIDE DEF G
<1>3. \A e \in 0 .. n : e \in G BY <1>1, <1>2, Upwards
<1> QED BY <1>3 DEF G

LEMMA JoinBelow ==
  ASSUME NEW n \in Nat, NEW u, NEW E, Joins(u, E, n), NEW m \in 0 .. n,
         \A e \in 1 .. m : E[e] = << >>
  PROVE  u[m] = << >>
<1> DEFINE G == {e \in 0 .. m : u[e] = << >>}
<1>1. 0 \in G BY DEF Joins
<1>2. ASSUME NEW e \in 1 .. m, e - 1 \in G PROVE e \in G
  <2>0. e \in 1 .. n OBVIOUS
  <2>1. u[e] = u[e - 1] \o E[e] /\ E[e] = << >> BY <2>0 DEF Joins
  <2>2. << >> \o << >> = << >>
    <3>1. << >> \in Seq(Values) BY EmptySeq
    <3> QED BY <3>1, ConcatEmptySeq
  <2> QED BY <1>2, <2>1, <2>2
<1> HIDE DEF G
<1>3. m \in Nat OBVIOUS
<1>4. \A e \in 0 .. m : e \in G BY <1>1, <1>2, <1>3, Upwards
<1> QED BY <1>3, <1>4 DEF G

(* An element more in the newest ring in use is an element more at the end. *)
LEMMA JoinAppend ==
  ASSUME NEW n \in Nat, NEW u, NEW w, NEW E, NEW F, Joins(u, E, n), Joins(w, F, n),
         NEW m \in 1 .. n, NEW v \in Values,
         F[m] = Append(E[m], v), \A e \in 1 .. n : e # m => E[e] = F[e],
         \A e \in 1 .. n : m < e => E[e] = << >>
  PROVE  w[n] = Append(u[n], v) /\ u[n] \in Seq(Values)
<1>0. m \in 0 .. n /\ m - 1 \in 0 .. n OBVIOUS
<1>1. u[m - 1] = w[m - 1]
  <2>1. \A e \in 1 .. (m - 1) : E[e] = F[e] OBVIOUS
  <2> QED BY <1>0, <2>1, JoinSame
<1>2. u[m] = u[m - 1] \o E[m] /\ w[m] = w[m - 1] \o F[m] BY DEF Joins
<1>3. u[n] = u[m] BY <1>0, JoinAbove
<1>4. w[n] = w[m]
  <2>1. \A e \in 1 .. n : m < e => F[e] = << >> OBVIOUS
  <2> QED BY <1>0, <2>1, JoinAbove
<1>5. u[m - 1] \in Seq(Values) /\ E[m] \in Seq(Values) /\ u[n] \in Seq(Values)
  <2>1. n \in 0 .. n OBVIOUS
  <2>2. \A e \in 0 .. n : u[e] \in Seq(Values) BY JoinSeq
  <2>3. E[m] \in Seq(Values) BY DEF Joins
  <2> QED BY <1>0, <2>1, <2>2, <2>3
<1>6. u[m - 1] \o Append(E[m], v) = Append(u[m - 1] \o E[m], v)
  <2>1. << v >> \in Seq(Values) OBVIOUS
  <2>2. u[m - 1] \o E[m] \in Seq(Values) BY <1>5, ConcatProperties
  <2>3. Append(E[m], v) = E[m] \o << v >> /\ Append(u[m - 1] \o E[m], v) = (u[m - 1] \o E[m]) \o << v >>
    BY <1>5, <2>2, AppendIsConcat
  <2>4. ASSUME NEW a \in Seq(Values), NEW b \in Seq(Values), NEW c \in Seq(Values)
        PROVE  (a \o b) \o c = a \o (b \o c)
    BY ConcatAssociative
  <2>5. u[m - 1] \in Seq(Values) /\ E[m] \in Seq(Values) BY <1>5
  <2>6. (u[m - 1] \o E[m]) \o << v >> = u[m - 1] \o (E[m] \o << v >>)
    BY <2>1, <2>4, <2>5
  <2> QED BY <2>3, <2>6, Zenon
<1> QED BY <1>1, <1>2, <1>3, <1>4, <1>5, <1>6

(* One less at the front of the oldest ring that is not empty. *)
LEMMA TailConcat ==
  ASSUME NEW s \in Seq(Values), NEW t \in Seq(Values), s # << >>
  PROVE  Tail(s \o t) = Tail(s) \o t /\ Head(s \o t) = Head(s) /\ s \o t # << >>
         /\ s \o t \in Seq(Values)
<1>1. s \o t \in Seq(Values) /\ Len(s \o t) = Len(s) + Len(t) /\ Len(s) \in Nat \ {0} /\ Len(t) \in Nat
  BY ConcatProperties, EmptySeq, LenProperties
<1>2. s \o t # << >> BY <1>1, EmptySeq
<1>3. Head(s \o t) = Head(s) BY <1>1, <1>2, ConcatProperties
<1>4. Tail(s \o t) \in Seq(Values) /\ Tail(s) \in Seq(Values) /\ Tail(s) \o t \in Seq(Values)
  BY <1>1, <1>2, HeadTailProperties, ConcatProperties
<1>5. Len(Tail(s \o t)) = Len(s) + Len(t) - 1 /\ Len(Tail(s)) = Len(s) - 1
      /\ Len(Tail(s) \o t) = Len(s) - 1 + Len(t)
  BY <1>1, <1>2, <1>4, HeadTailProperties, ConcatProperties
<1>6. ASSUME NEW i \in 1 .. Len(Tail(s \o t)) PROVE Tail(s \o t)[i] = (Tail(s) \o t)[i]
  <2>1. Tail(s \o t)[i] = (s \o t)[i + 1] BY <1>1, <1>2, HeadTailProperties
  <2>2. (s \o t)[i + 1] = IF i + 1 <= Len(s) THEN s[i + 1] ELSE t[i + 1 - Len(s)]
    BY <1>1, <1>5, ConcatProperties
  <2>3. (Tail(s) \o t)[i] = IF i <= Len(s) - 1 THEN Tail(s)[i] ELSE t[i - (Len(s) - 1)]
    BY <1>4, <1>5, ConcatProperties
  <2>4. i <= Len(s) - 1 => Tail(s)[i] = s[i + 1] BY <1>5, HeadTailProperties
  <2> QED BY <1>1, <1>5, <2>1, <2>2, <2>3, <2>4
<1>7. Tail(s \o t) = Tail(s) \o t BY <1>1, <1>4, <1>5, <1>6, SeqEqual
<1> QED BY <1>1, <1>2, <1>3, <1>7

LEMMA JoinTail ==
  ASSUME NEW n \in Nat, NEW u, NEW w, NEW E, NEW F, Joins(u, E, n), Joins(w, F, n),
         NEW m \in 1 .. n, E[m] # << >>,
         F[m] = Tail(E[m]), \A e \in 1 .. n : e # m => E[e] = F[e],
         \A e \in 1 .. n : e < m => E[e] = << >>
  PROVE  w[n] = Tail(u[n]) /\ Head(u[n]) = Head(E[m]) /\ u[n] # << >>
<1> DEFINE G == {e \in 0 .. n : m <= e => w[e] = Tail(u[e]) /\ Head(u[e]) = Head(E[m]) /\ u[e] # << >>}
<1>1. 0 \in G OBVIOUS
<1>2. ASSUME NEW e \in 1 .. n, e - 1 \in G PROVE e \in G
  <2>0. u[e] = u[e - 1] \o E[e] /\ w[e] = w[e - 1] \o F[e] /\ E[e] \in Seq(Values)
        /\ F[e] \in Seq(Values)
    BY DEF Joins
  <2>1. CASE e < m BY <2>1
  <2>2. CASE e = m
    <3>1. m - 1 \in 0 .. n /\ \A f \in 1 .. (m - 1) : E[f] = << >> /\ F[f] = << >> OBVIOUS
    <3>2. u[m - 1] = << >> /\ w[m - 1] = << >> BY <3>1, JoinBelow
    <3>3. u[m] = E[m] /\ w[m] = F[m] BY <2>0, <2>2, <3>2, ConcatEmptySeq
    <3> QED BY <2>2, <3>3
  <2>3. CASE m < e
    <3>1. u[e - 1] \in Seq(Values)
      <4>1. e - 1 \in 0 .. n OBVIOUS
      <4> QED BY <4>1, JoinSeq
    <3>2. w[e - 1] = Tail(u[e - 1]) /\ Head(u[e - 1]) = Head(E[m]) /\ u[e - 1] # << >>
      BY <1>2, <2>3
    <3>3. F[e] = E[e] BY <2>3
    <3>4. /\ Tail(u[e - 1] \o E[e]) = Tail(u[e - 1]) \o E[e] /\ u[e - 1] \o E[e] # << >>
          /\ Head(u[e - 1] \o E[e]) = Head(u[e - 1])
      BY <2>0, <3>1, <3>2, TailConcat
    <3>5. w[e] = Tail(u[e]) /\ Head(u[e]) = Head(E[m]) /\ u[e] # << >>
      BY <2>0, <3>2, <3>3, <3>4
    <3> QED BY <3>5
  <2> QED BY <2>1, <2>2, <2>3
<1> HIDE DEF G
<1>3. \A e \in 0 .. n : e \in G BY <1>1, <1>2, Upwards
<1> QED BY <1>3 DEF G

(* What an Append added can be taken off again. *)
LEMMA LastTaken ==
  ASSUME NEW s \in Seq(Values), NEW v \in Values, NEW t, t = Append(s, v)
  PROVE  t # << >> /\ t[Len(t)] = v /\ SubSeq(t, 1, Len(t) - 1) = s
<1>1. /\ t \in Seq(Values) /\ t # << >> /\ Len(t) = Len(s) + 1 /\ Len(s) \in Nat
      /\ t[Len(s) + 1] = v /\ \A i \in 1 .. Len(s) : t[i] = s[i]
  BY AppendProperties, LenProperties
<1>2. Len(t) - 1 = Len(s) BY <1>1
<1>3. \A i \in 1 .. Len(s) : t[i] \in Values BY <1>1, ElementOfSeq
<1>4. /\ SubSeq(t, 1, Len(s)) \in Seq(Values) /\ Len(SubSeq(t, 1, Len(s))) = Len(s)
      /\ \A i \in 1 .. Len(s) : SubSeq(t, 1, Len(s))[i] = t[i]
  <2>1. /\ SubSeq(t, 1, Len(s)) \in Seq(Values)
        /\ Len(SubSeq(t, 1, Len(s))) = IF 1 <= Len(s) THEN Len(s) - 1 + 1 ELSE 0
        /\ \A i \in 1 .. Len(s) - 1 + 1 : SubSeq(t, 1, Len(s))[i] = t[1 + i - 1]
    BY <1>1, <1>3, SubSeqProperties
  <2>2. \A i \in 1 .. Len(s) : i \in 1 .. Len(s) - 1 + 1 /\ 1 + i - 1 = i BY <1>1
  <2> QED BY <1>1, <2>1, <2>2
<1>5. SubSeq(t, 1, Len(s)) = s BY <1>1, <1>4, SeqEqual
<1> QED BY <1>1, <1>2, <1>5

-----------------------------------------------------------------------------
(* UpTo joins the elements of the rings. *)
LEMMA UpToFacts == UpTo[0] = << >> /\ \A e \in Elts : UpTo[e] = UpTo[e - 1] \o Elements(e)
<1>1. MaxElts \in Nat BY PoolAssumption
<1> DEFINE F(u) == [e \in 0 .. MaxElts |-> IF e = 0 THEN << >> ELSE u[e - 1] \o Elements(e)]
           E == [e \in 0 .. MaxElts |-> Elements(e)]
<1>2. \E u : u = F(u)
  <2>1. PICK u : u = [e \in 0 .. MaxElts |-> IF e = 0 THEN << >> ELSE u[e - 1] \o E[e]]
    <3> HIDE DEF E
    <3> QED BY <1>1, JoinExists
  <2>2. u = F(u) BY <2>1
  <2> QED BY <2>2
<1>3. UpTo = F(UpTo) BY <1>2 DEF UpTo
<1>4. ASSUME NEW e \in 0 .. MaxElts
      PROVE  UpTo[e] = IF e = 0 THEN << >> ELSE UpTo[e - 1] \o Elements(e)
  BY <1>3
<1>5. UpTo[0] = << >>
  <2>1. 0 \in 0 .. MaxElts BY <1>1
  <2> QED BY <1>4, <2>1
<1>6. ASSUME NEW e \in Elts PROVE UpTo[e] = UpTo[e - 1] \o Elements(e)
  <2>1. e \in 0 .. MaxElts /\ e # 0 BY <1>1 DEF Elts
  <2> QED BY <1>4, <2>1
<1> QED BY <1>5, <1>6

LEMMA UpToFactsNext ==
  (UpTo[0] = << >> /\ \A e \in Elts : UpTo[e] = UpTo[e - 1] \o Elements(e))'
<1>1. UpTo[0] = << >> /\ \A e \in Elts : UpTo[e] = UpTo[e - 1] \o Elements(e) BY UpToFacts
<1> QED BY <1>1, PTL

LEMMA ElementsSeq ==
  ASSUME PoolInv, NEW e \in Elts
  PROVE  /\ Elements(e) \in Seq(Values) /\ Len(Elements(e)) = Count(e) /\ Count(e) \in Nat
         /\ \A i \in 1 .. Count(e) : Elements(e)[i] = vals[e][At(e, i - 1)]
         /\ Elements(e) = << >> <=> Drained(e)
<1>0. PoolType BY DEF PoolInv
<1>1. Count(e) \in Nat /\ tail[e] \in Nat /\ (Count(e) = 0 <=> Drained(e))
  BY <1>0, PlaceFacts
<1>2. PICK n \in Nat : n = Count(e) BY <1>1
<1>3. \A i \in 1 .. n : Slot(e, tail[e] + i - 1) = At(e, i - 1)
  BY <1>1 DEF Slot, At
<1>4. \A i \in 1 .. n : vals[e][At(e, i - 1)] \in Values
  <2>1. \A i \in 1 .. n : i - 1 \in Nat /\ i - 1 < n OBVIOUS
  <2> QED BY <1>2, <2>1, RangeFacts
<1>5. Elements(e) = [i \in 1 .. n |-> vals[e][At(e, i - 1)]] BY <1>2, <1>3 DEF Elements
<1>6. Elements(e) \in [1 .. n -> Values] BY <1>4, <1>5
<1>7. Elements(e) \in Seq(Values) /\ Len(Elements(e)) = n
  <2>1. Elements(e) \in Seq(Values) BY <1>6, SeqDef
  <2> QED BY <1>6, <2>1, LenProperties
<1>8. Elements(e) = << >> <=> n = 0
  <2>1. n = 0 => Elements(e) = << >> BY <1>6
  <2>2. Elements(e) = << >> => n = 0 BY <1>7, EmptySeq
  <2> QED BY <2>1, <2>2
<1> QED BY <1>1, <1>2, <1>5, <1>7, <1>8

LEMMA ElementsSeqNext ==
  (PoolInv => \A e \in Elts :
     /\ Elements(e) \in Seq(Values) /\ Len(Elements(e)) = Count(e) /\ Count(e) \in Nat
     /\ \A i \in 1 .. Count(e) : Elements(e)[i] = vals[e][At(e, i - 1)]
     /\ Elements(e) = << >> <=> Drained(e))'
<1>1. PoolInv => \A e \in Elts :
        /\ Elements(e) \in Seq(Values) /\ Len(Elements(e)) = Count(e) /\ Count(e) \in Nat
        /\ \A i \in 1 .. Count(e) : Elements(e)[i] = vals[e][At(e, i - 1)]
        /\ Elements(e) = << >> <=> Drained(e)
  BY ElementsSeq
<1> QED BY <1>1, PTL

LEMMA ContentsJoin ==
  ASSUME PoolInv
  PROVE  Joins(UpTo, [e \in Elts |-> Elements(e)], MaxElts) /\ Contents = UpTo[MaxElts]
<1>1. \A e \in Elts : UpTo[e] = UpTo[e - 1] \o Elements(e) /\ Elements(e) \in Seq(Values)
  BY UpToFacts, ElementsSeq
<1> QED BY <1>1, UpToFacts DEF Joins, Contents, Elts

LEMMA ContentsJoinNext ==
  (PoolInv => Joins(UpTo, [e \in Elts |-> Elements(e)], MaxElts) /\ Contents = UpTo[MaxElts])'
<1>1. PoolInv => Joins(UpTo, [e \in Elts |-> Elements(e)], MaxElts) /\ Contents = UpTo[MaxElts]
  BY ContentsJoin
<1> QED BY <1>1, PTL

-----------------------------------------------------------------------------
(* No ring that holds elements is cut off from the chain, and the producer    *)
(* finds nothing only if nothing is left (poolqueue.go:215-228, 246-300).     *)
THEOREM Unstranded == PoolSpec => []NothingStranded
<1>1. ASSUME PoolInv PROVE NothingStranded
  <2>1. ppc \in [Workers -> PPCs] BY <1>1 DEF PoolInv, PoolType
  <2>2. ASSUME ppc[Producer] = "headNone" PROVE Contents = << >>
    <3>1. PICK E : E = [e \in Elts |-> Elements(e)] OBVIOUS
    <3>2. \A e \in 1 .. MaxElts : E[e] = << >>
      <4>1. \A e \in Elts : Drained(e) BY <1>1, <2>2 DEF PoolInv, ProducerInv
      <4> QED BY <1>1, <3>1, <4>1, ElementsSeq DEF Elts
    <3>3. MaxElts \in Nat /\ MaxElts \in 0 .. MaxElts BY PoolAssumption
    <3>4. Joins(UpTo, E, MaxElts) /\ Contents = UpTo[MaxElts] BY <1>1, <3>1, ContentsJoin
    <3> QED BY <3>2, <3>3, <3>4, JoinBelow
  <2>3. ASSUME NEW e \in Elts, Count(e) > 0
        PROVE  Count(e) <= Size(e) /\ ctail <= e /\ e <= chead
    <3>1. ~Drained(e)
      <4>1. PoolType BY <1>1 DEF PoolInv
      <4>2. Count(e) \in Nat /\ (Count(e) = 0 <=> Drained(e)) BY <4>1, PlaceFacts
      <4> QED BY <2>3, <4>2
    <3> QED BY <1>1, <3>1, RangeFacts DEF PoolInv, ChainInv
  <2>4. \A e \in Elts : e > ctail /\ e <= chead => prev[e] = e - 1
    <3>1. ctail \in Nat /\ \A e \in Elts : e \in Nat BY <1>1, Numbers DEF PoolInv
    <3>2. \A e \in Elts : ctail < e /\ e <= chead => prev[e] = e - 1
      BY <1>1 DEF PoolInv, ChainInv
    <3> QED BY <3>1, <3>2
  <2> QED BY <2>1, <2>2, <2>3, <2>4 DEF NothingStranded
<1> QED BY <1>1, PoolInductive, PTL

-----------------------------------------------------------------------------
(* Refinement: what the steps do to the elements and to what workers hold. *)
LEMMA HoldsFacts ==
  PoolInv => \A q \in Workers :
    /\ Holds(q) = IF Owns(q) THEN vals[d[q]][own[q]] ELSE NoVal
    /\ Owns(q) => Holds(q) # NoVal
<1> SUFFICES ASSUME PoolInv, NEW q \in Workers
    PROVE  /\ Holds(q) = IF Owns(q) THEN vals[d[q]][own[q]] ELSE NoVal
           /\ Owns(q) => Holds(q) # NoVal
  OBVIOUS
<1>1. CASE ppc[q] \in {"headOwn", "tailOwn"} BY <1>1, OwnerFacts DEF Holds, Owns
<1>2. CASE ppc[q] = "tailFree" BY <1>2, OwnerFacts DEF Holds, Owns
<1>3. CASE ~Owns(q) BY <1>3 DEF Holds, Owns
<1> QED BY <1>1, <1>2, <1>3 DEF Owns

LEMMA HoldsFactsNext ==
  (PoolInv => \A q \in Workers :
    /\ Holds(q) = IF Owns(q) THEN vals[d[q]][own[q]] ELSE NoVal
    /\ Owns(q) => Holds(q) # NoVal)'
<1>1. PoolInv => \A q \in Workers :
        /\ Holds(q) = IF Owns(q) THEN vals[d[q]][own[q]] ELSE NoVal
        /\ Owns(q) => Holds(q) # NoVal
  BY HoldsFacts
<1> QED BY <1>1, PTL

LEMMA HoldsSame ==
  ASSUME PoolInv, PoolInv', NEW q \in Workers, Owns(q)' = Owns(q),
         Owns(q) => d'[q] = d[q] /\ own'[q] = own[q]
                    /\ vals'[d[q]][own[q]] = vals[d[q]][own[q]]
  PROVE  Holds(q)' = Holds(q)
<1>1. Holds(q) = IF Owns(q) THEN vals[d[q]][own[q]] ELSE NoVal BY HoldsFacts
<1>2. Holds(q)' = IF Owns(q)' THEN vals'[d'[q]][own'[q]] ELSE NoVal BY HoldsFactsNext
<1> QED BY <1>1, <1>2

LEMMA ElementsSame ==
  ASSUME PoolInv, PoolInv', NEW e \in Elts, head'[e] = head[e], tail'[e] = tail[e],
         \A k \in 0 .. Count(e) - 1 : vals'[e][At(e, k)] = vals[e][At(e, k)]
  PROVE  Elements(e)' = Elements(e)
<1>1. Count(e)' = Count(e) /\ \A k : At(e, k)' = At(e, k) BY RingKept
<1>2. /\ Elements(e) \in Seq(Values) /\ Len(Elements(e)) = Count(e) /\ Count(e) \in Nat
      /\ \A i \in 1 .. Count(e) : Elements(e)[i] = vals[e][At(e, i - 1)]
  BY ElementsSeq
<1>3. /\ Elements(e)' \in Seq(Values) /\ Len(Elements(e)') = Count(e)
      /\ \A i \in 1 .. Count(e) : Elements(e)'[i] = vals'[e][At(e, i - 1)]
  BY <1>1, ElementsSeqNext
<1>4. \A i \in 1 .. Count(e) : i - 1 \in 0 .. Count(e) - 1 BY <1>2
<1>5. \A i \in 1 .. Count(e) : Elements(e)'[i] = Elements(e)[i] BY <1>2, <1>3, <1>4
<1> QED BY <1>2, <1>3, <1>5, SeqEqual

LEMMA ContentsSame ==
  ASSUME PoolInv, PoolInv', head' = head, tail' = tail,
         \A e \in Elts : \A k \in 0 .. Count(e) - 1 : vals'[e][At(e, k)] = vals[e][At(e, k)]
  PROVE  Contents' = Contents
<1>1. \A e \in Elts : Elements(e)' = Elements(e) BY ElementsSame
<1>2. PICK E, F : E = [e \in Elts |-> Elements(e)] /\ F = [e \in Elts |-> Elements(e)'] OBVIOUS
<1>3. PICK u, w : u = UpTo /\ w = UpTo' OBVIOUS
<1>4. Joins(u, E, MaxElts) /\ Contents = u[MaxElts] BY <1>2, <1>3, ContentsJoin
<1>5. Joins(w, F, MaxElts) /\ Contents' = w[MaxElts] BY <1>2, <1>3, ContentsJoinNext DEF Joins
<1>6. MaxElts \in Nat /\ MaxElts \in 0 .. MaxElts BY PoolAssumption
<1>7. \A e \in 1 .. MaxElts : E[e] = F[e] BY <1>1, <1>2 DEF Elts
<1>8. u[MaxElts] = w[MaxElts] BY <1>4, <1>5, <1>6, <1>7, JoinSame
<1> QED BY <1>4, <1>5, <1>8

(* A step that publishes or takes no slot changes nothing that can be seen. *)
LEMMA UnseenStep ==
  ASSUME PoolInv, PoolInv', PoolNext, ~PushPublish, ~HeadTake, ~HeadReturn,
         \A p \in Workers \ {Producer} : ~TailTake(p) /\ ~TailFree(p)
  PROVE  Contents' = Contents /\ \A q \in Workers : Holds(q)' = Holds(q)
<1>1. CASE PushSlot => vals' = vals
  <2>1. head' = head /\ tail' = tail BY RingsMove
  <2>2. vals' = vals /\ OwnersSame BY <1>1, QuietKeeps
  <2>3. Contents' = Contents BY <2>1, <2>2, ContentsSame
  <2>4. \A q \in Workers : Holds(q)' = Holds(q) BY <2>2, HoldsSame DEF OwnersSame
  <2> QED BY <2>3, <2>4
<1>2. CASE PushSlot /\ vals' # vals
  <2> DEFINE P == Producer
  <2>1. PICK e \in Elts : \E i \in 0 .. Size(e) - 1 :
           /\ e = d[P] /\ i = At(e, Count(e)) /\ Count(e) < Size(e)
           /\ vals' = [vals EXCEPT ![e][i] = val[P]] /\ vals[e][i] = NoVal
           /\ val[P] \in Values /\ \A k \in 0 .. Count(e) - 1 : At(e, k) # i
           /\ ppc[P] = "push" /\ ppc' = [ppc EXCEPT ![P] = "publish"]
           /\ head' = head /\ tail' = tail /\ d' = d /\ own' = own /\ val' = val
    BY <1>2, SlotPushed
  <2>2. PICK i \in 0 .. Size(e) - 1 :
           /\ vals' = [vals EXCEPT ![e][i] = val[P]] /\ vals[e][i] = NoVal
           /\ val[P] \in Values /\ \A k \in 0 .. Count(e) - 1 : At(e, k) # i
           /\ ppc[P] = "push" /\ ppc' = [ppc EXCEPT ![P] = "publish"]
           /\ head' = head /\ tail' = tail /\ d' = d /\ own' = own
    BY <2>1
  <2>3. /\ \A p \in Workers : Owns(p) /\ ~(d[p] = e /\ own[p] = i) =>
             vals'[d[p]][own[p]] = vals[d[p]][own[p]]
        /\ \A f \in Elts : \A k \in 0 .. Count(f) - 1 : vals'[f][At(f, k)] = vals[f][At(f, k)]
    BY <2>2, WriteStep
  <2>4. Contents' = Contents BY <2>2, <2>3, ContentsSame
  <2>5. ASSUME NEW q \in Workers PROVE Holds(q)' = Holds(q)
    <3>1. ppc \in [Workers -> PPCs] /\ P \in Workers BY PoolAssumption DEF PoolInv, PoolType
    <3>2. Owns(q)' = Owns(q) BY <2>2, <3>1 DEF Owns
    <3>3. Owns(q) => vals'[d[q]][own[q]] = vals[d[q]][own[q]] BY <2>2, <2>3, OwnerFacts
    <3> QED BY <2>2, <3>2, <3>3, HoldsSame
  <2> QED BY <2>4, <2>5
<1> QED BY <1>1, <1>2

(* A slot is cleared: its element is returned to the caller. *)
LEMMA ReturnStep ==
  ASSUME PoolInv, PoolInv', NEW p \in Workers, Owns(p), ~Owns(p)',
         vals' = [vals EXCEPT ![d[p]][own[p]] = NoVal], head' = head, tail' = tail,
         \A q \in Workers : q # p => ppc'[q] = ppc[q] /\ d'[q] = d[q] /\ own'[q] = own[q]
  PROVE  /\ Contents' = Contents /\ Holds(p) # NoVal /\ Holds(p)' = NoVal
         /\ \A q \in Workers : q # p => Holds(q)' = Holds(q)
<1>1. PICK e \in Elts, i \in Nat : e = d[p] /\ i = own[p] /\ i \in 0 .. Size(e) - 1
  <2>1. d[p] \in Elts /\ own[p] \in 0 .. Size(d[p]) - 1 BY OwnerFacts
  <2>2. own[p] \in Nat BY DEF PoolInv, PoolType
  <2> QED BY <2>1, <2>2
<1>2. \A k \in 0 .. Count(e) - 1 : At(e, k) # i BY <1>1, OwnerFacts
<1>3. /\ \A q \in Workers : Owns(q) /\ ~(d[q] = e /\ own[q] = i) =>
           vals'[d[q]][own[q]] = vals[d[q]][own[q]]
      /\ \A f \in Elts : \A k \in 0 .. Count(f) - 1 : vals'[f][At(f, k)] = vals[f][At(f, k)]
  <2>1. vals' = [vals EXCEPT ![e][i] = NoVal] /\ NoVal \in Values \cup {NoVal} BY <1>1
  <2> QED BY <1>1, <1>2, <2>1, WriteStep
<1>4. Contents' = Contents BY <1>3, ContentsSame
<1>5. Holds(p) # NoVal /\ Holds(p)' = NoVal BY HoldsFacts, HoldsFactsNext
<1>6. ASSUME NEW q \in Workers, q # p PROVE Holds(q)' = Holds(q)
  <2>1. Owns(q)' = Owns(q) BY <1>6 DEF Owns
  <2>2. Owns(q) => ~(d[q] = e /\ own[q] = i) BY <1>1, <1>6, OwnerFacts
  <2> QED BY <1>3, <1>6, <2>1, <2>2, HoldsSame
<1> QED BY <1>4, <1>5, <1>6

(* Elements that are pushed come last. *)
LEMMA PublishSeen ==
  ASSUME PoolInv, PoolInv', PushPublish
  PROVE  /\ \E v \in Values : Contents' = Append(Contents, v)
         /\ \A q \in Workers : Holds(q)' = Holds(q)
<1> DEFINE P == Producer
<1>0. /\ PoolType /\ ppc \in [Workers -> PPCs] /\ P \in Workers /\ DOMAIN head = Elts
      /\ d \in [Workers -> 0 .. MaxElts]
  BY PoolAssumption DEF PoolInv, PoolType
<1>1. PICK e : e = d[P] OBVIOUS
<1>2. /\ ppc[P] = "publish" /\ ppc'[P] = "idle"
      /\ head' = [head EXCEPT ![e] = (@ + 1) % Indexes] /\ tail' = tail /\ vals' = vals
      /\ own' = own /\ \A q \in Workers : q # P => ppc'[q] = ppc[q] /\ d'[q] = d[q]
  BY <1>0, <1>1 DEF PushPublish, PGoto
<1>3. e \in Elts /\ e = chead
  BY <1>1, <1>2, Places DEF ProducerPCs, PoolInv, ProducerInv
<1>4. Count(e) < Size(e) /\ vals[e][At(e, Count(e))] = val[P] /\ val[P] \in Values
  BY <1>1, <1>2 DEF PoolInv, PublishInv, ProducerInv
<1>5. Count(e)' = Count(e) + 1 /\ \A k : At(e, k)' = At(e, k)
  BY <1>0, <1>2, <1>3, <1>4, Published
<1>6. ASSUME NEW f \in Elts, f # e PROVE Elements(f)' = Elements(f)
  BY <1>0, <1>2, <1>3, <1>6, ElementsSame
<1>7. Elements(e)' = Append(Elements(e), val[P])
  <2>1. /\ Elements(e) \in Seq(Values) /\ Len(Elements(e)) = Count(e) /\ Count(e) \in Nat
        /\ \A i \in 1 .. Count(e) : Elements(e)[i] = vals[e][At(e, i - 1)]
    BY <1>3, ElementsSeq
  <2>2. /\ Elements(e)' \in Seq(Values) /\ Len(Elements(e)') = Count(e) + 1
        /\ \A i \in 1 .. Count(e) + 1 : Elements(e)'[i] = vals[e][At(e, i - 1)]
    BY <1>2, <1>3, <1>5, ElementsSeqNext
  <2>3. PICK s, t, v : s = Elements(e) /\ t = Elements(e)' /\ v = val[P] OBVIOUS
  <2>4. /\ Append(s, v) \in Seq(Values) /\ Len(Append(s, v)) = Count(e) + 1
        /\ \A i \in 1 .. Count(e) : Append(s, v)[i] = s[i]
        /\ Append(s, v)[Count(e) + 1] = v
    BY <1>4, <2>1, <2>3, AppendProperties
  <2>5. ASSUME NEW i \in 1 .. Count(e) + 1 PROVE t[i] = Append(s, v)[i]
    <3>1. CASE i = Count(e) + 1
      <4>1. i - 1 = Count(e) BY <2>1, <3>1
      <4> QED BY <1>4, <2>2, <2>3, <2>4, <3>1, <4>1
    <3>2. CASE i # Count(e) + 1
      <4>1. i \in 1 .. Count(e) BY <2>1, <3>2
      <4> QED BY <2>1, <2>2, <2>3, <2>4, <4>1
    <3> QED BY <3>1, <3>2
  <2>6. t = Append(s, v) BY <2>2, <2>3, <2>4, <2>5, SeqEqual
  <2> QED BY <2>3, <2>6
<1>8. Contents' = Append(Contents, val[P])
  <2>1. PICK E, F : E = [f \in Elts |-> Elements(f)] /\ F = [f \in Elts |-> Elements(f)'] OBVIOUS
  <2>2. PICK u, w, v : u = UpTo /\ w = UpTo' /\ v = val[P] OBVIOUS
  <2>3. Joins(u, E, MaxElts) /\ Contents = u[MaxElts] BY <2>1, <2>2, ContentsJoin
  <2>4. Joins(w, F, MaxElts) /\ Contents' = w[MaxElts] BY <2>1, <2>2, ContentsJoinNext DEF Joins
  <2>5. MaxElts \in Nat /\ e \in 1 .. MaxElts BY <1>3, PoolAssumption DEF Elts
  <2>6. F[e] = Append(E[e], v) /\ \A f \in 1 .. MaxElts : f # e => E[f] = F[f]
    BY <1>3, <1>6, <1>7, <2>1, <2>2 DEF Elts
  <2>7. \A f \in 1 .. MaxElts : e < f => E[f] = << >>
    <3>1. ASSUME NEW f \in Elts, e < f PROVE Elements(f) = << >>
      <4>1. Drained(f)
        <5>1. Drained(f) \/ f <= chead BY DEF PoolInv, ChainInv
        <5>2. f \in Nat /\ e \in Nat BY <1>0, <1>3, Numbers
        <5> QED BY <1>3, <3>1, <5>1, <5>2
      <4> QED BY <4>1, ElementsSeq
    <3> QED BY <2>1, <3>1 DEF Elts
  <2>8. v \in Values BY <1>4, <2>2
  <2>9. w[MaxElts] = Append(u[MaxElts], v)
    BY <2>3, <2>4, <2>5, <2>6, <2>7, <2>8, JoinAppend
  <2> QED BY <2>2, <2>3, <2>4, <2>9
<1>9. ASSUME NEW q \in Workers PROVE Holds(q)' = Holds(q)
  <2>1. Owns(q)' = Owns(q) BY <1>2 DEF Owns
  <2>2. Owns(q) => q # P BY <1>2 DEF Owns
  <2> QED BY <1>2, <2>1, <2>2, HoldsSame
<1> QED BY <1>4, <1>8, <1>9

(* The producer takes back what was pushed last. *)
LEMMA HeadTakeSeen ==
  ASSUME PoolInv, PoolInv', HeadTake
  PROVE  /\ Contents # << >> /\ Contents' = SubSeq(Contents, 1, Len(Contents) - 1)
         /\ Holds(Producer) = NoVal /\ Holds(Producer)' = Contents[Len(Contents)]
         /\ \A q \in Workers : q # Producer => Holds(q)' = Holds(q)
<1> DEFINE P == Producer
<1>0. /\ PoolType /\ ppc \in [Workers -> PPCs] /\ P \in Workers /\ DOMAIN head = Elts
      /\ DOMAIN own = Workers
  BY PoolAssumption DEF PoolInv, PoolType
<1>1. PICK e : e = d[P] OBVIOUS
<1>2. /\ ppc[P] = "popHead" /\ ppc'[P] = "headOwn" /\ ~Drained(e)
      /\ head' = [head EXCEPT ![e] = (@ - 1) % Indexes] /\ tail' = tail /\ vals' = vals
      /\ own'[P] = Slot(e, head'[e]) /\ d' = d
      /\ \A q \in Workers : q # P => ppc'[q] = ppc[q] /\ own'[q] = own[q]
  BY <1>0, <1>1 DEF HeadTake, PGoto, Drained
<1>3. e \in Elts BY <1>1, <1>2, Places DEF ProducerPCs
<1>4. Count(e)' = Count(e) - 1 /\ (\A k : At(e, k)' = At(e, k)) /\ own'[P] = At(e, Count(e) - 1)
  BY <1>0, <1>2, <1>3, TakenAtHead
<1>5. PICK v : v = vals[e][At(e, Count(e) - 1)] OBVIOUS
<1>6. Count(e) \in Nat /\ Count(e) - 1 \in Nat /\ v \in Values
  <2>1. Count(e) \in Nat BY <1>3, RangeFacts
  <2>2. Count(e) # 0 BY <1>0, <1>2, <1>3, PlaceFacts
  <2>3. Count(e) - 1 \in Nat /\ Count(e) - 1 < Count(e) BY <2>1, <2>2
  <2> QED BY <1>3, <1>5, <2>1, <2>3, RangeFacts
<1>7. ASSUME NEW f \in Elts, f # e PROVE Elements(f)' = Elements(f)
  BY <1>0, <1>2, <1>3, <1>7, ElementsSame
<1>8. Elements(e) = Append(Elements(e)', v)
  <2>1. /\ Elements(e) \in Seq(Values) /\ Len(Elements(e)) = Count(e)
        /\ \A i \in 1 .. Count(e) : Elements(e)[i] = vals[e][At(e, i - 1)]
    BY <1>3, ElementsSeq
  <2>2. /\ Elements(e)' \in Seq(Values) /\ Len(Elements(e)') = Count(e) - 1
        /\ \A i \in 1 .. Count(e) - 1 : Elements(e)'[i] = vals[e][At(e, i - 1)]
    BY <1>2, <1>3, <1>4, ElementsSeqNext
  <2>3. PICK s, t : s = Elements(e)' /\ t = Elements(e) OBVIOUS
  <2>4. /\ Append(s, v) \in Seq(Values) /\ Len(Append(s, v)) = Count(e)
        /\ \A i \in 1 .. Count(e) - 1 : Append(s, v)[i] = s[i]
        /\ Append(s, v)[Count(e)] = v
    <3>1. /\ Append(s, v) \in Seq(Values) /\ Len(Append(s, v)) = Count(e) - 1 + 1
          /\ \A i \in 1 .. Count(e) - 1 : Append(s, v)[i] = s[i]
          /\ Append(s, v)[Count(e) - 1 + 1] = v
      BY <1>6, <2>2, <2>3, AppendProperties
    <3>2. Count(e) - 1 + 1 = Count(e) BY <1>6
    <3> QED BY <3>1, <3>2
  <2>5. ASSUME NEW i \in 1 .. Count(e) PROVE t[i] = Append(s, v)[i]
    <3>1. CASE i = Count(e) BY <1>5, <2>1, <2>3, <2>4, <3>1
    <3>2. CASE i # Count(e)
      <4>1. i \in 1 .. Count(e) - 1 BY <1>6, <3>2
      <4> QED BY <2>1, <2>2, <2>3, <2>4, <4>1
    <3> QED BY <3>1, <3>2
  <2>6. t = Append(s, v) BY <2>1, <2>3, <2>4, <2>5, SeqEqual
  <2> QED BY <2>3, <2>6
<1>9. Contents = Append(Contents', v) /\ Contents' \in Seq(Values)
  <2>1. PICK E, F : E = [f \in Elts |-> Elements(f)] /\ F = [f \in Elts |-> Elements(f)'] OBVIOUS
  <2>2. PICK u, w : u = UpTo /\ w = UpTo' OBVIOUS
  <2>3. Joins(u, E, MaxElts) /\ Contents = u[MaxElts] BY <2>1, <2>2, ContentsJoin
  <2>4. Joins(w, F, MaxElts) /\ Contents' = w[MaxElts] BY <2>1, <2>2, ContentsJoinNext DEF Joins
  <2>5. MaxElts \in Nat /\ e \in 1 .. MaxElts BY <1>3, PoolAssumption DEF Elts
  <2>6. E[e] = Append(F[e], v) /\ \A f \in 1 .. MaxElts : f # e => F[f] = E[f]
    BY <1>3, <1>7, <1>8, <2>1 DEF Elts
  <2>7. \A f \in 1 .. MaxElts : e < f => F[f] = << >>
    <3>1. ASSUME NEW f \in Elts, e < f PROVE Elements(f)' = << >>
      <4>1. Drained(f) /\ f # e
        <5>1. f \in Nat /\ e \in Nat BY <1>0, <1>3, Numbers
        <5> QED BY <1>1, <1>2, <3>1, <5>1 DEF PoolInv, ProducerInv
      <4> QED BY <1>7, <4>1, ElementsSeq
    <3> QED BY <2>1, <3>1 DEF Elts
  <2>8. v \in Values BY <1>6
  <2>9. u[MaxElts] = Append(w[MaxElts], v) /\ w[MaxElts] \in Seq(Values)
    <3>1. PICK n, m : n = MaxElts /\ m = e OBVIOUS
    <3>2. n \in Nat /\ m \in 1 .. n /\ Joins(u, E, n) /\ Joins(w, F, n)
      BY <2>3, <2>4, <2>5, <3>1
    <3>3. E[m] = Append(F[m], v) /\ \A f \in 1 .. n : f # m => F[f] = E[f] BY <2>6, <3>1
    <3>4. \A f \in 1 .. n : m < f => F[f] = << >> BY <2>7, <3>1
    <3>5. u[n] = Append(w[n], v) /\ w[n] \in Seq(Values)
      BY <2>8, <3>2, <3>3, <3>4, JoinAppend
    <3> QED BY <3>1, <3>5
  <2> QED BY <2>3, <2>4, <2>9
<1>10. PICK s, t : s = Contents' /\ t = Contents OBVIOUS
<1>11. t # << >> /\ t[Len(t)] = v /\ SubSeq(t, 1, Len(t) - 1) = s
  BY <1>6, <1>9, <1>10, LastTaken
<1>12. Holds(P) = NoVal
  <2>1. ~Owns(P) BY <1>2 DEF Owns
  <2> QED BY <1>0, <2>1, HoldsFacts
<1>13. Holds(P)' = v
  <2>1. Owns(P)' BY <1>2 DEF Owns
  <2>2. Holds(P)' = vals'[d'[P]][own'[P]] BY <1>0, <2>1, HoldsFactsNext
  <2> QED BY <1>1, <1>2, <1>4, <1>5, <2>2
<1>14. ASSUME NEW q \in Workers, q # P PROVE Holds(q)' = Holds(q)
  <2>1. Owns(q)' = Owns(q) BY <1>2, <1>14 DEF Owns
  <2> QED BY <1>2, <1>14, <2>1, HoldsSame
<1> QED BY <1>10, <1>11, <1>12, <1>13, <1>14

(* A consumer takes what was pushed first. *)
LEMMA TailTakeSeen ==
  ASSUME PoolInv, PoolInv', NEW p \in Workers \ {Producer}, TailTake(p)
  PROVE  /\ Contents # << >> /\ Contents' = Tail(Contents)
         /\ Holds(p) = NoVal /\ Holds(p)' = Head(Contents)
         /\ \A q \in Workers : q # p => Holds(q)' = Holds(q)
<1>0. /\ PoolType /\ ppc \in [Workers -> PPCs] /\ p \in Workers /\ DOMAIN tail = Elts
      /\ DOMAIN own = Workers /\ Producer \in Workers
  BY PoolAssumption DEF PoolInv, PoolType
<1>1. PICK e : e = d[p] OBVIOUS
<1>2. /\ ppc[p] = "popTail" /\ ppc'[p] = "tailOwn" /\ ~Drained(e)
      /\ tail' = [tail EXCEPT ![e] = (@ + 1) % Indexes] /\ head' = head /\ vals' = vals
      /\ own'[p] = Slot(e, tail[e]) /\ d' = d
      /\ \A q \in Workers : q # p => ppc'[q] = ppc[q] /\ own'[q] = own[q]
  BY <1>0, <1>1 DEF TailTake, PGoto, Drained
<1>3. e \in Elts BY <1>1, <1>2, Places
<1>4. Count(e)' = Count(e) - 1 /\ (\A k \in Nat : At(e, k)' = At(e, k + 1)) /\ own'[p] = At(e, 0)
  <2>1. tail'[e] = (tail[e] + 1) % Indexes /\ head'[e] = head[e] BY <1>0, <1>2, <1>3
  <2>2. Slot(e, tail[e]) = At(e, 0) BY <1>0, <1>3, PlaceFacts
  <2> QED BY <1>0, <1>2, <1>3, <2>1, <2>2, TakenAtTail
<1>5. ASSUME NEW f \in Elts, f # e PROVE Elements(f)' = Elements(f)
  BY <1>0, <1>2, <1>3, <1>5, ElementsSame
<1>6. /\ Elements(e) # << >> /\ Head(Elements(e)) = vals[e][At(e, 0)]
      /\ Elements(e)' = Tail(Elements(e))
  <2>1. /\ Elements(e) \in Seq(Values) /\ Len(Elements(e)) = Count(e) /\ Count(e) \in Nat
        /\ \A i \in 1 .. Count(e) : Elements(e)[i] = vals[e][At(e, i - 1)]
        /\ Elements(e) # << >>
    BY <1>2, <1>3, ElementsSeq
  <2>2. Count(e) # 0 BY <1>0, <1>2, <1>3, PlaceFacts
  <2>3. PICK n \in Nat : Count(e) = n + 1
    <3>1. Count(e) - 1 \in Nat /\ Count(e) = (Count(e) - 1) + 1 BY <2>1, <2>2
    <3> QED BY <3>1
  <2>4. Count(e)' = n BY <1>4, <2>3
  <2>5. \A i \in 1 .. n : At(e, i - 1)' = At(e, i)
    <3>1. \A i \in 1 .. n : i - 1 \in Nat /\ i - 1 + 1 = i OBVIOUS
    <3> QED BY <1>4, <3>1
  <2>6. /\ Elements(e)' \in Seq(Values) /\ Len(Elements(e)') = n
        /\ \A i \in 1 .. n : Elements(e)'[i] = vals[e][At(e, i)]
    BY <1>2, <1>3, <2>4, <2>5, ElementsSeqNext
  <2>7. PICK s, t : s = Elements(e) /\ t = Elements(e)' OBVIOUS
  <2>8. /\ Tail(s) \in Seq(Values) /\ Len(Tail(s)) = n
        /\ \A i \in 1 .. n : Tail(s)[i] = s[i + 1]
    <3>1. /\ Tail(s) \in Seq(Values) /\ Len(Tail(s)) = Len(s) - 1
          /\ \A i \in 1 .. Len(Tail(s)) : Tail(s)[i] = s[i + 1]
      BY <2>1, <2>7, HeadTailProperties
    <3> QED BY <2>1, <2>3, <2>7, <3>1
  <2>9. ASSUME NEW i \in 1 .. n PROVE t[i] = Tail(s)[i]
    <3>1. i + 1 \in 1 .. Count(e) /\ i + 1 - 1 = i BY <2>3
    <3>2. s[i + 1] = vals[e][At(e, i)] BY <2>1, <2>7, <3>1
    <3> QED BY <2>6, <2>7, <2>8, <3>2
  <2>10. t = Tail(s) BY <2>6, <2>7, <2>8, <2>9, SeqEqual
  <2>11. Head(s) = s[1] /\ 1 \in 1 .. Count(e) /\ 1 - 1 = 0 BY <2>1, <2>3, <2>7
  <2> QED BY <2>1, <2>7, <2>10, <2>11
<1>7. Contents' = Tail(Contents) /\ Head(Contents) = Head(Elements(e)) /\ Contents # << >>
  <2>1. PICK E, F : E = [f \in Elts |-> Elements(f)] /\ F = [f \in Elts |-> Elements(f)'] OBVIOUS
  <2>2. PICK u, w : u = UpTo /\ w = UpTo' OBVIOUS
  <2>3. Joins(u, E, MaxElts) /\ Contents = u[MaxElts] BY <2>1, <2>2, ContentsJoin
  <2>4. Joins(w, F, MaxElts) /\ Contents' = w[MaxElts] BY <2>1, <2>2, ContentsJoinNext DEF Joins
  <2>5. MaxElts \in Nat /\ e \in 1 .. MaxElts BY <1>3, PoolAssumption DEF Elts
  <2>6. /\ E[e] # << >> /\ F[e] = Tail(E[e]) /\ Head(E[e]) = Head(Elements(e))
        /\ \A f \in 1 .. MaxElts : f # e => E[f] = F[f]
    BY <1>3, <1>5, <1>6, <2>1 DEF Elts
  <2>7. \A f \in 1 .. MaxElts : f < e => E[f] = << >>
    <3>1. ASSUME NEW f \in Elts, f < e PROVE Elements(f) = << >>
      <4>1. Drained(f)
        <5>1. Drained(f) \/ ctail <= f BY DEF PoolInv, ChainInv
        <5>2. e <= ctail BY <1>0, <1>1, <1>2 DEF PoolInv, ConsumerInv
        <5>3. f \in Nat /\ e \in Nat /\ ctail \in Nat BY <1>0, <1>3, Numbers
        <5> QED BY <3>1, <5>1, <5>2, <5>3
      <4> QED BY <4>1, ElementsSeq
    <3> QED BY <2>1, <3>1 DEF Elts
  <2>8. w[MaxElts] = Tail(u[MaxElts]) /\ Head(u[MaxElts]) = Head(E[e]) /\ u[MaxElts] # << >>
    BY <2>3, <2>4, <2>5, <2>6, <2>7, JoinTail
  <2> QED BY <2>3, <2>4, <2>6, <2>8
<1>8. Holds(p) = NoVal
  <2>1. ~Owns(p) BY <1>2 DEF Owns
  <2> QED BY <1>0, <2>1, HoldsFacts
<1>9. Holds(p)' = Head(Contents)
  <2>1. Owns(p)' BY <1>2 DEF Owns
  <2>2. Holds(p)' = vals'[d'[p]][own'[p]] BY <1>0, <2>1, HoldsFactsNext
  <2> QED BY <1>1, <1>2, <1>4, <1>6, <1>7, <2>2
<1>10. ASSUME NEW q \in Workers, q # p PROVE Holds(q)' = Holds(q)
  <2>1. Owns(q)' = Owns(q) BY <1>2, <1>10 DEF Owns
  <2> QED BY <1>2, <1>10, <2>1, HoldsSame
<1> QED BY <1>7, <1>8, <1>9, <1>10

(* Every step of the chain is one of the deque, or none. *)
LEMMA DequeStep ==
  ASSUME PoolInv, PoolInv', PoolNext
  PROVE  D!Next \/ UNCHANGED D!vars
<1> DEFINE H == [q \in Workers |-> Holds(q)]
<1>0. /\ ppc \in [Workers -> PPCs] /\ d \in [Workers -> 0 .. MaxElts]
      /\ own \in [Workers -> Nat] /\ val \in [Workers -> Values \cup {NoVal}]
      /\ d2 \in [Workers -> 0 .. MaxElts] /\ Producer \in Workers
  BY PoolAssumption DEF PoolInv, PoolType
<1>1. H' = [q \in Workers |-> Holds(q)'] OBVIOUS
<1>2. ASSUME NEW p \in Workers, Holds(p) # NoVal, Holds(p)' = NoVal, Contents' = Contents,
             \A q \in Workers : q # p => Holds(q)' = Holds(q)
      PROVE  D!Next
  <2>1. H[p] # NoVal /\ H' = [H EXCEPT ![p] = NoVal] BY <1>1, <1>2
  <2>2. D!Return(p) BY <1>2, <2>1 DEF D!Return
  <2> QED BY <2>2 DEF D!Next
<1>3. CASE PushPublish
  <2>1. PICK v \in Values : Contents' = Append(Contents, v) BY <1>3, PublishSeen
  <2>2. H' = H BY <1>1, <1>3, PublishSeen
  <2>3. D!PushHead(v) BY <2>1, <2>2 DEF D!PushHead
  <2> QED BY <2>3 DEF D!Next
<1>4. CASE HeadTake
  <2>1. /\ Contents # << >> /\ Contents' = SubSeq(Contents, 1, Len(Contents) - 1)
        /\ Holds(Producer) = NoVal /\ Holds(Producer)' = Contents[Len(Contents)]
        /\ \A q \in Workers : q # Producer => Holds(q)' = Holds(q)
    BY <1>4, HeadTakeSeen
  <2>2. H[Producer] = NoVal /\ H' = [H EXCEPT ![Producer] = Contents[Len(Contents)]]
    BY <1>0, <1>1, <2>1
  <2>3. D!PopHead BY <2>1, <2>2 DEF D!PopHead
  <2> QED BY <2>3 DEF D!Next
<1>5. CASE \E p \in Workers \ {Producer} : TailTake(p)
  <2>1. PICK p \in Workers \ {Producer} : TailTake(p) BY <1>5
  <2>2. /\ Contents # << >> /\ Contents' = Tail(Contents)
        /\ Holds(p) = NoVal /\ Holds(p)' = Head(Contents)
        /\ \A q \in Workers : q # p => Holds(q)' = Holds(q)
    BY <2>1, TailTakeSeen
  <2>3. H[p] = NoVal /\ H' = [H EXCEPT ![p] = Head(Contents)] BY <1>1, <2>2
  <2>4. D!PopTail(p) BY <2>2, <2>3 DEF D!PopTail
  <2> QED BY <2>4 DEF D!Next
<1>6. CASE HeadReturn
  <2>1. /\ Owns(Producer) /\ ~Owns(Producer)'
        /\ vals' = [vals EXCEPT ![d[Producer]][own[Producer]] = NoVal]
        /\ head' = head /\ tail' = tail
        /\ \A q \in Workers : q # Producer => ppc'[q] = ppc[q] /\ d'[q] = d[q] /\ own'[q] = own[q]
    BY <1>0, <1>6 DEF HeadReturn, PGoto, Owns
  <2> QED BY <1>0, <1>2, <2>1, ReturnStep
<1>7. CASE \E p \in Workers \ {Producer} : TailFree(p)
  <2>1. PICK p \in Workers \ {Producer} : TailFree(p) BY <1>7
  <2>2. /\ Owns(p) /\ ~Owns(p)' /\ vals' = [vals EXCEPT ![d[p]][own[p]] = NoVal]
        /\ head' = head /\ tail' = tail
        /\ \A q \in Workers : q # p => ppc'[q] = ppc[q] /\ d'[q] = d[q] /\ own'[q] = own[q]
    BY <1>0, <2>1 DEF TailFree, PGoto, Leave, Owns
  <2> QED BY <1>2, <2>2, ReturnStep
<1>8. CASE ~(PushPublish \/ HeadTake \/ HeadReturn
             \/ \E p \in Workers \ {Producer} : TailTake(p) \/ TailFree(p))
  <2>1. Contents' = Contents /\ \A q \in Workers : Holds(q)' = Holds(q) BY <1>8, UnseenStep
  <2>2. H' = H BY <1>1, <2>1
  <2> QED BY <2>1, <2>2 DEF D!vars
<1> QED BY <1>3, <1>4, <1>5, <1>6, <1>7, <1>8

LEMMA DequeInit ==
  ASSUME PoolInit PROVE D!Init
<1>1. PoolInv BY PoolInvInit
<1>2. \A e \in Elts : Drained(e) BY DEF PoolInit, Drained
<1>3. PICK E : E = [e \in Elts |-> Elements(e)] OBVIOUS
<1>4. \A e \in 1 .. MaxElts : E[e] = << >> BY <1>1, <1>2, <1>3, ElementsSeq DEF Elts
<1>5. MaxElts \in Nat /\ MaxElts \in 0 .. MaxElts BY PoolAssumption
<1>6. Joins(UpTo, E, MaxElts) /\ Contents = UpTo[MaxElts] BY <1>1, <1>3, ContentsJoin
<1>7. Contents = << >> BY <1>4, <1>5, <1>6, JoinBelow
<1>8. \A q \in Workers : Holds(q) = NoVal BY DEF PoolInit, Holds
<1> QED BY <1>7, <1>8 DEF D!Init

LEMMA DequeStutter ==
  ASSUME PoolInv, PoolInv', UNCHANGED poolVars
  PROVE  UNCHANGED D!vars
<1>1. Contents' = Contents BY ContentsSame DEF poolVars, rings
<1>2. \A q \in Workers : Holds(q)' = Holds(q) BY DEF poolVars, rings, Holds
<1> QED BY <1>1, <1>2 DEF D!vars

(* The chain is a deque whose elements are obtained once and as they were     *)
(* pushed (poolqueue.go:26-43).                                               *)
THEOREM PoolRefinement == PoolSpec => ImplementsDeque
<1>1. PoolInit => D!Init BY DequeInit
<1>2. PoolInv /\ PoolInv' /\ [PoolNext]_poolVars => [D!Next]_(D!vars)
  BY DequeStep, DequeStutter
<1>3. PoolSpec => []PoolInv BY PoolInductive
<1> QED BY <1>1, <1>2, <1>3, PTL DEF PoolSpec, ImplementsDeque, D!Spec

-----------------------------------------------------------------------------
(***************************************************************************)
(* Proofs, for any finite set of goroutines, that the mutex of SyncMutex   *)
(* excludes, never throws, keeps its waiter count, has one wakeup in       *)
(* progress at a time, loses none, and implements SyncLocker.              *)
(*                                                                         *)
(* The inductive invariant MutexInv says where the one wakeup is.  A       *)
(* goroutine that carries it has a token: a permit of m.sema that it is    *)
(* about to add or has just been given, the handed-off mutex, or           *)
(* mutexWoken.  TokenInv ties the token to the flags of m.state, which is  *)
(* what makes each CompareAndSwap safe; HolderInv ties mutexLocked to the  *)
(* holder; MutexCountInv ties the waiter count to the goroutines it        *)
(* counts; DutyInv says that somebody will start a wakeup when one is due. *)
(***************************************************************************)

IsPermit(p)  == \/ pc[p] = "semrelease" /\ sst[p] = "idle"
                \/ sst[p] = "granted"
                \/ pc[p] = "resumed"
IsHandoff(p) == pc[p] = "handoff"
IsAwake(p)   == pc[p] \in {"lockSlow", "loop"} /\ awoke[p]
Token(p)     == IsPermit(p) \/ IsHandoff(p) \/ IsAwake(p)

APermit  == sema > 0 \/ \E p \in Procs : IsPermit(p)
AHandoff == \E p \in Procs : IsHandoff(p)
AnAwake  == \E p \in Procs : IsAwake(p)

(* The semaphore and the mutex agree on who is inside m.sema. *)
MutexLinkInv ==
  \A p \in Procs :
    /\ sst[p] \in {"parked", "woken", "granted"} => pc[p] = "semacquire"
    /\ sst[p] \in {"released", "waking"} => pc[p] = "semrelease"

(* What the local variables of lockSlow are worth at each step. *)
LocalInv ==
  \A p \in Procs :
    /\ pc[p] \in {"unlocked", "tryLock", "locked", "unlockSlow", "semrelease"}
         => ~awoke[p] /\ ~starving[p]
    /\ pc[p] \in {"lockSlow", "loop"} /\ starving[p] => awoke[p]
    /\ pc[p] = "loop" /\ awoke[p] => old[p].woken
    /\ pc[p] = "tryLock" => ~old[p].locked /\ ~old[p].starving
    /\ pc[p] = "handoff" => 0 < old[p].waiters /\ old[p].waiters <= state.waiters

(* At most one token, and the flags that announce it. *)
TokenInv ==
  /\ \A p, q \in Procs : Token(p) /\ Token(q) => p = q
  /\ sema <= 1
  /\ sema = 1 => \A p \in Procs : ~Token(p)
  /\ state.woken <=> AnAwake \/ (APermit /\ ~state.starving)
  /\ state.starving => ~state.woken
  /\ state.starving => (state.locked <=> ~APermit /\ ~AHandoff)
  /\ AHandoff => state.starving

(* MutualExclusion without sets. *)
HolderInv ==
  /\ \A p, q \in Procs : pc[p] = "locked" /\ pc[q] = "locked" => p = q
  /\ state.locked <=> \E p \in Procs : pc[p] = "locked"

(* WaitersCounted without sets. *)
MutexCountInv ==
  /\ state.waiters + (IF APermit /\ state.woken THEN 1 ELSE 0)
       = Cardinality(Waiters)
  /\ state.starving => state.waiters > 0

(* An unlocking goroutine that will try to start a wakeup. *)
HasDuty(p) == pc[p] = "unlockSlow" /\ WantsWake(p)

(* Waiters of a free mutex are looked after: by a wakeup or by an unlocker. *)
DutyInv ==
  (~state.locked /\ state.waiters > 0 /\ ~APermit /\ ~AHandoff /\ ~AnAwake)
    => \E p \in Procs : HasDuty(p)

MutexInv ==
  /\ TypeOK /\ Sem!QueueInv /\ MutexLinkInv /\ LocalInv
  /\ TokenInv /\ HolderInv /\ MutexCountInv /\ DutyInv /\ NoThrow

(* The vocabulary of the model and of the invariant, visible in every leaf. *)
USE GoroutinesAssumption, SyncMutexAssumption
USE DEF Words, Zero, PCs, Goto, LoadOld, ForgetLocals, semVars, localVars
USE DEF IsPermit, IsHandoff, IsAwake, Token, APermit, AHandoff, AnAwake
USE DEF HasDuty, WantsWake

(* Steps that do not touch m.sema keep the invariant of its queue. *)
LEMMA SemaphoreUntouched ==
  Sem!QueueInv /\ UNCHANGED semVars => Sem!QueueInv'
  BY Sem!QueueInvStep DEF Sem!semaVars

(* The waiters can be counted, the goroutines being finitely many. *)
LEMMA CountWaiters == IsFiniteSet(Waiters) /\ Cardinality(Waiters) \in Nat
  BY FS_Subset, FS_CardinalityType DEF Waiters

(* A goroutine that is in no call on m.sema has nothing to do with it. *)
LEMMA OutsideSemaphore ==
  ASSUME TypeOK, MutexLinkInv, NEW p \in Procs, pc[p] \notin {"semacquire", "semrelease"}
  PROVE  sst[p] = "idle"
  BY DEF TypeOK, MutexLinkInv, Sem!TypeOK, Sem!States

-----------------------------------------------------------------------------
(* Steps that change neither m.state nor m.sema: a load, a failed            *)
(* CompareAndSwap, a return.  They keep MutexInv provided the goroutine      *)
(* neither gains nor loses a token, and an unlocker drops its duty only to   *)
(* reload.                                                                   *)
LEMMA MutexQuietStep ==
  ASSUME MutexInv, TypeOK', LocalInv', UNCHANGED << state, semVars >>, NEW p \in Procs,
         \A q \in Procs : q # p =>
           pc'[q] = pc[q] /\ awoke'[q] = awoke[q] /\ old'[q] = old[q],
         pc[p]  \in {"unlocked", "lockSlow", "loop", "tryLock", "unlockSlow"},
         pc'[p] \in {"unlocked", "lockSlow", "loop", "tryLock", "unlockSlow"},
         IsAwake(p)' <=> IsAwake(p),
         HasDuty(p) => pc'[p] = "unlockSlow" /\ old'[p] = state
  PROVE  MutexInv'
<1> USE DEF MutexInv
<1>1. Sem!QueueInv' BY SemaphoreUntouched
<1>2. MutexLinkInv' BY DEF MutexLinkInv, TypeOK, Sem!TypeOK
<1>3. APermit' = APermit /\ AHandoff' = AHandoff /\ AnAwake' = AnAwake
  OBVIOUS
<1>4. TokenInv' BY <1>3 DEF TokenInv
<1>5. HolderInv' BY DEF HolderInv
<1>6. MutexCountInv'
  <2>1. Waiters' = Waiters BY DEF Waiters
  <2> QED BY <1>3, <2>1 DEF MutexCountInv
<1>7. DutyInv' BY SMTT(30), <1>3 DEF DutyInv, TokenInv, TypeOK
<1>8. NoThrow' BY DEF NoThrow
<1> QED BY <1>1, <1>2, <1>4, <1>5, <1>6, <1>7, <1>8

LEMMA LockMissInv ==
  ASSUME MutexInv, NEW p \in Procs, LockMiss(p) PROVE MutexInv'
<1> USE DEF MutexInv, LockMiss
<1>1. TypeOK' BY DEF TypeOK, Sem!TypeOK
<1>2. LocalInv' BY DEF LocalInv, TypeOK, TokenInv
<1> QED BY <1>1, <1>2, MutexQuietStep DEF TypeOK, LocalInv

LEMMA TryLockLoadInv ==
  ASSUME MutexInv, NEW p \in Procs, TryLockLoad(p) PROVE MutexInv'
<1> USE DEF MutexInv, TryLockLoad
<1>1. TypeOK' BY DEF TypeOK, Sem!TypeOK
<1>2. LocalInv' BY DEF LocalInv, TypeOK, TokenInv
<1> QED BY <1>1, <1>2, MutexQuietStep DEF TypeOK, LocalInv

LEMMA TryLockFailInv ==
  ASSUME MutexInv, NEW p \in Procs, TryLockFail(p) PROVE MutexInv'
<1> USE DEF MutexInv, TryLockFail
<1>1. TypeOK' BY DEF TypeOK, Sem!TypeOK
<1>2. LocalInv' BY DEF LocalInv, TypeOK, TokenInv
<1> QED BY <1>1, <1>2, MutexQuietStep DEF TypeOK, LocalInv

LEMMA SlowLoadInv ==
  ASSUME MutexInv, NEW p \in Procs, SlowLoad(p) PROVE MutexInv'
<1> USE DEF MutexInv, SlowLoad
<1>1. TypeOK' BY DEF TypeOK, Sem!TypeOK
<1>2. LocalInv' BY DEF LocalInv, TypeOK, TokenInv
<1> QED BY <1>1, <1>2, MutexQuietStep DEF TypeOK, LocalInv

LEMMA CasFailInv ==
  ASSUME MutexInv, NEW p \in Procs, CasFail(p) PROVE MutexInv'
<1> USE DEF MutexInv, CasFail, Attempt
<1>1. TypeOK' BY DEF TypeOK, Sem!TypeOK
<1>2. LocalInv' BY DEF LocalInv, TypeOK, TokenInv
<1> QED BY <1>1, <1>2, MutexQuietStep DEF TypeOK, LocalInv

LEMMA UnlockDoneInv ==
  ASSUME MutexInv, NEW p \in Procs, UnlockDone(p) PROVE MutexInv'
<1> USE DEF MutexInv, UnlockDone
<1>1. TypeOK' BY DEF TypeOK, Sem!TypeOK
<1>2. LocalInv' BY DEF LocalInv, TypeOK, TokenInv
<1> QED BY <1>1, <1>2, MutexQuietStep DEF TypeOK, LocalInv

LEMMA UnlockCasFailInv ==
  ASSUME MutexInv, NEW p \in Procs, UnlockCasFail(p) PROVE MutexInv'
<1> USE DEF MutexInv, UnlockCasFail
<1>1. TypeOK' BY DEF TypeOK, Sem!TypeOK
<1>2. LocalInv' BY DEF LocalInv, TypeOK, TokenInv
<1> QED BY <1>1, <1>2, MutexQuietStep DEF TypeOK, LocalInv

-----------------------------------------------------------------------------
(* Steps that change m.state: one lemma for each, one step for each part of  *)
(* the invariant.                                                            *)
LEMMA LockFastInv ==
  ASSUME MutexInv, NEW p \in Procs, LockFast(p) PROVE MutexInv'
<1> USE DEF MutexInv, LockFast
<1>1. Sem!QueueInv' BY SemaphoreUntouched
<1>2. TypeOK' BY <1>1 DEF TypeOK, Sem!QueueInv
<1>3. MutexLinkInv' BY DEF MutexLinkInv, TypeOK, Sem!TypeOK
<1>4. LocalInv'
  BY DEF LocalInv, TypeOK, TokenInv, MutexCountInv
<1>5. TokenInv'
  BY DEF LocalInv, MutexLinkInv, TypeOK, TokenInv, HolderInv, Sem!TypeOK, Sem!States
<1>6. HolderInv' BY DEF HolderInv, TokenInv, TypeOK, LocalInv
<1>7. MutexCountInv'
  <2>1. Waiters' = Waiters BY DEF Waiters, TypeOK
  <2>2. (APermit /\ state.woken)' <=> (APermit /\ state.woken)
    BY DEF TokenInv, TypeOK, MutexLinkInv, HolderInv, LocalInv, Sem!TypeOK,
      Sem!States
  <2> QED BY <2>1, <2>2, CountWaiters DEF MutexCountInv, TypeOK, LocalInv
<1>8. DutyInv'
  BY DEF DutyInv, LocalInv, MutexLinkInv, TypeOK, TokenInv, HolderInv, Sem!TypeOK,
    Sem!States
<1>9. NoThrow' BY DEF NoThrow, TypeOK
<1> QED BY <1>1, <1>2, <1>3, <1>4, <1>5, <1>6, <1>7, <1>8, <1>9

LEMMA TryLockTakeInv ==
  ASSUME MutexInv, NEW p \in Procs, TryLockTake(p) PROVE MutexInv'
<1> USE DEF MutexInv, TryLockTake
<1>1. Sem!QueueInv' BY SemaphoreUntouched
<1>2. TypeOK'
  <2>1. state \in Words /\ old[p] \in Words BY DEF TypeOK
  <2>2. state' \in Words BY <2>1
  <2> QED BY <1>1, <2>2 DEF TypeOK, Sem!QueueInv
<1>3. MutexLinkInv' BY DEF MutexLinkInv, TypeOK, Sem!TypeOK
<1>4. LocalInv'
  BY DEF LocalInv, TypeOK, TokenInv, MutexCountInv
<1>5. TokenInv'
  BY DEF LocalInv, MutexLinkInv, TypeOK, TokenInv, HolderInv, Sem!TypeOK, Sem!States
<1>6. HolderInv' BY DEF HolderInv, TokenInv, TypeOK, LocalInv
<1>7. MutexCountInv'
  <2>1. Waiters' = Waiters BY DEF Waiters, TypeOK
  <2>2. (APermit /\ state.woken)' <=> (APermit /\ state.woken)
    BY DEF TokenInv, TypeOK, MutexLinkInv, HolderInv, LocalInv, Sem!TypeOK,
      Sem!States
  <2> QED BY <2>1, <2>2, CountWaiters DEF MutexCountInv, TypeOK, LocalInv
<1>8. DutyInv'
  BY DEF DutyInv, LocalInv, MutexLinkInv, TypeOK, TokenInv, HolderInv, Sem!TypeOK,
    Sem!States
<1>9. NoThrow' BY DEF NoThrow, TypeOK
<1> QED BY <1>1, <1>2, <1>3, <1>4, <1>5, <1>6, <1>7, <1>8, <1>9

LEMMA SpinInv ==
  ASSUME MutexInv, NEW p \in Procs, Spin(p) PROVE MutexInv'
<1> USE DEF MutexInv, Spin
<1>1. Sem!QueueInv' BY SemaphoreUntouched
<1>2. TypeOK' BY <1>1 DEF TypeOK, Sem!QueueInv
<1>3. MutexLinkInv' BY DEF MutexLinkInv, TypeOK, Sem!TypeOK
<1>4. LocalInv'
  BY DEF LocalInv, TypeOK, TokenInv, MutexCountInv
<1>5. TokenInv'
  BY SMTT(30) DEF LocalInv, MutexLinkInv, TypeOK, TokenInv, HolderInv, Sem!TypeOK, Sem!States
<1>6. HolderInv' BY DEF HolderInv, TokenInv, TypeOK, LocalInv
<1>7. MutexCountInv'
  <2>1. Waiters' = Waiters BY DEF Waiters, TypeOK
  <2>2. (APermit /\ state.woken)' <=> (APermit /\ state.woken)
    BY DEF TokenInv, TypeOK, MutexLinkInv, HolderInv, LocalInv, Sem!TypeOK,
      Sem!States
  <2> QED BY <2>1, <2>2, CountWaiters DEF MutexCountInv, TypeOK, LocalInv
<1>8. DutyInv'
  BY DEF DutyInv, LocalInv, MutexLinkInv, TypeOK, TokenInv, HolderInv, Sem!TypeOK,
    Sem!States
<1>9. NoThrow' BY DEF NoThrow, TypeOK
<1> QED BY <1>1, <1>2, <1>3, <1>4, <1>5, <1>6, <1>7, <1>8, <1>9

LEMMA CasAcquireInv ==
  ASSUME MutexInv, NEW p \in Procs, CasAcquire(p) PROVE MutexInv'
<1> USE DEF MutexInv, CasAcquire, Attempt, NewWord
<1>0. ~(awoke[p] /\ ~old[p].woken) BY DEF LocalInv
<1>1. Sem!QueueInv' BY SemaphoreUntouched
<1>2. TypeOK' BY <1>0, <1>1 DEF TypeOK, Sem!QueueInv
<1>3. MutexLinkInv' BY <1>0 DEF MutexLinkInv, TypeOK, Sem!TypeOK
<1>4. LocalInv'
  BY <1>0 DEF LocalInv, TypeOK, TokenInv, MutexCountInv
<1>5. TokenInv'
  BY <1>0 DEF LocalInv, MutexLinkInv, TypeOK, TokenInv, HolderInv, Sem!TypeOK,
    Sem!States
<1>6. HolderInv' BY <1>0 DEF HolderInv, TokenInv, TypeOK, LocalInv
<1>7. MutexCountInv'
  <2>1. Waiters' = Waiters BY <1>0 DEF Waiters, TypeOK
  <2>2. (APermit /\ state.woken)' <=> (APermit /\ state.woken)
    BY <1>0 DEF TokenInv, TypeOK, MutexLinkInv, HolderInv, LocalInv, Sem!TypeOK,
      Sem!States
  <2> QED BY <2>1, <2>2, CountWaiters DEF MutexCountInv, TypeOK, LocalInv
<1>8. DutyInv'
  BY <1>0 DEF DutyInv, LocalInv, MutexLinkInv, TypeOK, TokenInv, HolderInv,
    Sem!TypeOK, Sem!States
<1>9. NoThrow' BY <1>0 DEF NoThrow, TypeOK
<1> QED BY <1>1, <1>2, <1>3, <1>4, <1>5, <1>6, <1>7, <1>8, <1>9

LEMMA CasQueueInv ==
  ASSUME MutexInv, NEW p \in Procs, CasQueue(p) PROVE MutexInv'
<1> USE DEF MutexInv, CasQueue, Attempt, NewWord
<1>0. ~(awoke[p] /\ ~old[p].woken) BY DEF LocalInv
<1>1. Sem!QueueInv' BY SemaphoreUntouched
<1>2. TypeOK' BY <1>0, <1>1 DEF TypeOK, Sem!QueueInv
<1>3. MutexLinkInv' BY <1>0 DEF MutexLinkInv, TypeOK, Sem!TypeOK
<1>4. LocalInv'
  BY <1>0 DEF LocalInv, TypeOK, TokenInv, MutexCountInv
<1>5. TokenInv'
  BY SMTT(30), <1>0 DEF LocalInv, MutexLinkInv, TypeOK, TokenInv, HolderInv, Sem!TypeOK,
    Sem!States
<1>6. HolderInv' BY <1>0 DEF HolderInv, TokenInv, TypeOK, LocalInv
<1>7. MutexCountInv'
  <2>1. Waiters' = Waiters \cup {p} /\ p \notin Waiters
    BY <1>0 DEF Waiters, TypeOK
  <2>2. Cardinality(Waiters') = Cardinality(Waiters) + 1
    BY <2>1, CountWaiters, FS_AddElement
  <2>3. (APermit /\ state.woken)' <=> (APermit /\ state.woken)
    BY <1>0 DEF TokenInv, TypeOK, MutexLinkInv, Sem!TypeOK, Sem!States
  <2> QED BY <2>2, <2>3, CountWaiters DEF MutexCountInv, TypeOK
<1>8. DutyInv'
  BY <1>0 DEF DutyInv, LocalInv, MutexLinkInv, TypeOK, TokenInv, HolderInv,
    Sem!TypeOK, Sem!States
<1>9. NoThrow' BY <1>0 DEF NoThrow, TypeOK
<1> QED BY <1>1, <1>2, <1>3, <1>4, <1>5, <1>6, <1>7, <1>8, <1>9

LEMMA ResumeAwakeInv ==
  ASSUME MutexInv, NEW p \in Procs, ResumeAwake(p) PROVE MutexInv'
<1> USE DEF MutexInv, ResumeAwake, Reload
<1>1. Sem!QueueInv' BY SemaphoreUntouched
<1>2. TypeOK' BY <1>1 DEF TypeOK, Sem!QueueInv
<1>3. MutexLinkInv' BY DEF MutexLinkInv, TypeOK, Sem!TypeOK
<1>4. LocalInv'
  BY DEF LocalInv, TypeOK, TokenInv, MutexCountInv
<1>5. TokenInv'
  BY DEF LocalInv, MutexLinkInv, TypeOK, TokenInv, HolderInv, Sem!TypeOK, Sem!States
<1>6. HolderInv' BY DEF HolderInv, TokenInv, TypeOK, LocalInv
<1>7. MutexCountInv'
  <2>1. Waiters' = Waiters \ {p} /\ p \in Waiters BY DEF Waiters, TypeOK
  <2>2. Cardinality(Waiters') = Cardinality(Waiters) - 1
    BY <2>1, CountWaiters, FS_RemoveElement
  <2>3. ~APermit' /\ APermit /\ state.woken
    BY DEF TokenInv, TypeOK, MutexLinkInv, Sem!TypeOK, Sem!States
  <2> QED BY <2>2, <2>3, CountWaiters DEF MutexCountInv, TypeOK
<1>8. DutyInv'
  BY DEF DutyInv, LocalInv, MutexLinkInv, TypeOK, TokenInv, HolderInv, Sem!TypeOK,
    Sem!States
<1>9. NoThrow' BY DEF NoThrow, TypeOK
<1> QED BY <1>1, <1>2, <1>3, <1>4, <1>5, <1>6, <1>7, <1>8, <1>9

LEMMA ResumeOwnerInv ==
  ASSUME MutexInv, NEW p \in Procs, ResumeOwner(p) PROVE MutexInv'
<1> USE DEF MutexInv, ResumeOwner, Reload
<1>0. ~(state.locked \/ state.woken \/ state.waiters = 0)
  BY DEF TokenInv, MutexCountInv, TypeOK
<1>1. Sem!QueueInv' BY SemaphoreUntouched
<1>2. TypeOK' BY <1>0, <1>1 DEF TypeOK, Sem!QueueInv
<1>3. MutexLinkInv' BY <1>0 DEF MutexLinkInv, TypeOK, Sem!TypeOK
<1>4. LocalInv'
  BY <1>0 DEF LocalInv, TypeOK, TokenInv, MutexCountInv
<1>5. TokenInv'
  BY <1>0 DEF LocalInv, MutexLinkInv, TypeOK, TokenInv, HolderInv, Sem!TypeOK,
    Sem!States
<1>6. HolderInv' BY <1>0 DEF HolderInv, TokenInv, TypeOK, LocalInv
<1>7. MutexCountInv'
  <2>1. Waiters' = Waiters BY <1>0 DEF Waiters, TypeOK
  <2>2. ~state.woken /\ ~state'.woken BY <1>0
  <2> QED BY <2>1, <2>2, CountWaiters DEF MutexCountInv, TypeOK
<1>8. DutyInv'
  BY <1>0 DEF DutyInv, LocalInv, MutexLinkInv, TypeOK, TokenInv, HolderInv,
    Sem!TypeOK, Sem!States
<1>9. NoThrow' BY <1>0 DEF NoThrow, TypeOK
<1> QED BY <1>1, <1>2, <1>3, <1>4, <1>5, <1>6, <1>7, <1>8, <1>9

LEMMA TakeHandoffInv ==
  ASSUME MutexInv, NEW p \in Procs, TakeHandoff(p) PROVE MutexInv'
<1> USE DEF MutexInv, TakeHandoff
<1>0. ~state.locked /\ state.waiters > 0 /\ state.starving
  BY DEF TokenInv, MutexCountInv, TypeOK
<1>1. Sem!QueueInv' BY SemaphoreUntouched
<1>2. TypeOK'
  <2>1. state \in Words /\ old[p] \in Words /\ state.waiters > 0
    BY <1>0 DEF TypeOK
  <2>2. state.waiters - 1 \in Nat BY <2>1
  <2>3. state' \in Words BY <2>1, <2>2
  <2> QED BY <1>0, <1>1, <2>3 DEF TypeOK, Sem!QueueInv
<1>3. MutexLinkInv' BY <1>0 DEF MutexLinkInv, TypeOK, Sem!TypeOK
<1>4. LocalInv'
  BY <1>0 DEF LocalInv, TypeOK, TokenInv, MutexCountInv
<1>5. TokenInv'
  BY <1>0 DEF LocalInv, MutexLinkInv, TypeOK, TokenInv, HolderInv, Sem!TypeOK,
    Sem!States
<1>6. HolderInv' BY <1>0 DEF HolderInv, TokenInv, TypeOK, LocalInv
<1>7. MutexCountInv'
  <2>1. Waiters' = Waiters \ {p} /\ p \in Waiters BY <1>0 DEF Waiters, TypeOK
  <2>2. Cardinality(Waiters') = Cardinality(Waiters) - 1
    BY <2>1, CountWaiters, FS_RemoveElement
  <2>3. ~APermit' /\ ~APermit
    BY <1>0 DEF TokenInv, TypeOK, MutexLinkInv, Sem!TypeOK, Sem!States
  <2>4. ASSUME state'.starving PROVE state.waiters > 1
    <3>1. old[p].waiters # 1 BY <2>4 DEF TypeOK
    <3>2. old[p].waiters > 0 /\ old[p].waiters <= state.waiters BY DEF LocalInv
    <3>3. old[p].waiters \in Nat /\ state.waiters \in Nat BY DEF TypeOK
    <3> QED BY <3>1, <3>2, <3>3
  <2> QED BY <2>2, <2>3, <2>4, CountWaiters DEF MutexCountInv, TypeOK
<1>8. DutyInv'
  BY <1>0 DEF DutyInv, LocalInv, MutexLinkInv, TypeOK, TokenInv, HolderInv,
    Sem!TypeOK, Sem!States
<1>9. NoThrow' BY <1>0 DEF NoThrow, TypeOK
<1> QED BY <1>1, <1>2, <1>3, <1>4, <1>5, <1>6, <1>7, <1>8, <1>9

LEMMA UnlockFastInv ==
  ASSUME MutexInv, NEW p \in Procs, UnlockFast(p) PROVE MutexInv'
<1> USE DEF MutexInv, UnlockFast, Drop
<1>0. state.locked /\ ~state.starving /\ ~state.woken BY DEF HolderInv, TypeOK
<1>1. Sem!QueueInv' BY SemaphoreUntouched
<1>2. TypeOK' BY <1>0, <1>1 DEF TypeOK, Sem!QueueInv
<1>3. MutexLinkInv' BY <1>0 DEF MutexLinkInv, TypeOK, Sem!TypeOK
<1>4. LocalInv'
  BY <1>0 DEF LocalInv, TypeOK, TokenInv, MutexCountInv
<1>5. TokenInv'
  BY <1>0 DEF LocalInv, MutexLinkInv, TypeOK, TokenInv, HolderInv, Sem!TypeOK,
    Sem!States
<1>6. HolderInv' BY <1>0 DEF HolderInv, TokenInv, TypeOK, LocalInv
<1>7. MutexCountInv'
  <2>1. Waiters' = Waiters BY <1>0 DEF Waiters, TypeOK
  <2>2. (APermit /\ state.woken)' <=> (APermit /\ state.woken)
    BY <1>0 DEF TokenInv, TypeOK, MutexLinkInv, HolderInv, LocalInv, Sem!TypeOK,
      Sem!States
  <2> QED BY <2>1, <2>2, CountWaiters DEF MutexCountInv, TypeOK, LocalInv
<1>8. DutyInv' BY DEF DutyInv
<1>9. NoThrow' BY <1>0 DEF NoThrow, TypeOK
<1> QED BY <1>1, <1>2, <1>3, <1>4, <1>5, <1>6, <1>7, <1>8, <1>9

LEMMA UnlockMissInv ==
  ASSUME MutexInv, NEW p \in Procs, UnlockMiss(p) PROVE MutexInv'
<1> USE DEF MutexInv, UnlockMiss, Drop
<1>0. state.locked BY DEF HolderInv
<1>1. Sem!QueueInv' BY SemaphoreUntouched
<1>2. TypeOK' BY <1>0, <1>1 DEF TypeOK, Sem!QueueInv
<1>3. MutexLinkInv' BY <1>0 DEF MutexLinkInv, TypeOK, Sem!TypeOK
<1>4. LocalInv'
  BY <1>0 DEF LocalInv, TypeOK, TokenInv, MutexCountInv
<1>5. TokenInv'
  <2>1. /\ AHandoff' = AHandoff /\ AnAwake' = AnAwake
        /\ ~AHandoff /\ (state.starving => ~APermit)
    BY <1>0 DEF TokenInv, HolderInv, TypeOK, LocalInv
  <2>2. sst[p] = "idle" BY OutsideSemaphore
  <2>3. CASE state.starving
    BY <1>0, <2>1, <2>3, <2>2 DEF LocalInv, MutexLinkInv, TypeOK, TokenInv,
      HolderInv, Sem!TypeOK, Sem!States
  <2>4. CASE ~state.starving
    BY <1>0, <2>1, <2>4 DEF LocalInv, MutexLinkInv, TypeOK, TokenInv, HolderInv,
      Sem!TypeOK, Sem!States
  <2> QED BY <2>3, <2>4
<1>6. HolderInv' BY <1>0 DEF HolderInv, TokenInv, TypeOK, LocalInv
<1>7. MutexCountInv'
  <2>1. Waiters' = Waiters BY <1>0 DEF Waiters, TypeOK
  <2>2. (APermit /\ state.woken)' <=> (APermit /\ state.woken)
    BY <1>0 DEF TokenInv, TypeOK, MutexLinkInv, Sem!TypeOK, Sem!States
  <2> QED BY <2>1, <2>2, CountWaiters DEF MutexCountInv, TypeOK
<1>8. DutyInv'
  <2>1. /\ pc'[p] = IF state.starving THEN "semrelease" ELSE "unlockSlow"
        /\ old'[p] = state' /\ sst[p] = "idle" /\ sst' = sst
        /\ state'.woken = state.woken /\ state'.starving = state.starving
    BY <1>0, OutsideSemaphore DEF TypeOK
  <2>2. CASE state.starving
    <3>1. IsPermit(p)' BY <2>1, <2>2
    <3> QED BY <3>1 DEF DutyInv
  <2>3. CASE ~state.starving
    <3>1. SUFFICES ASSUME ~state'.locked, state'.waiters > 0, ~APermit', ~AHandoff', ~AnAwake'
                   PROVE  HasDuty(p)'
      BY DEF DutyInv
    <3>2. ~state'.woken BY <1>5, <3>1 DEF TokenInv
    <3>3. /\ old'[p].woken = state'.woken /\ old'[p].locked = state'.locked
          /\ old'[p].starving = state'.starving /\ old'[p].waiters = state'.waiters
          /\ pc'[p] = "unlockSlow"
      BY <2>1, <2>3
    <3>4. old'[p].waiters # 0 BY <3>1, <3>3
    <3>5. ~old'[p].locked BY Zenon, <3>1, <3>3
    <3>6. ~old'[p].woken BY Zenon, <3>2, <3>3
    <3>7. ~old'[p].starving BY Zenon, <2>1, <2>3, <3>3
    <3> QED BY Zenon, <3>3, <3>4, <3>5, <3>6, <3>7
  <2> QED BY <2>2, <2>3
<1>9. NoThrow' BY <1>0 DEF NoThrow, TypeOK
<1> QED BY <1>1, <1>2, <1>3, <1>4, <1>5, <1>6, <1>7, <1>8, <1>9

LEMMA UnlockCasInv ==
  ASSUME MutexInv, NEW p \in Procs, UnlockCas(p) PROVE MutexInv'
<1> USE DEF MutexInv, UnlockCas
<1>1. Sem!QueueInv' BY SemaphoreUntouched
<1>2. TypeOK'
  <2>1. state \in Words /\ old[p] \in Words /\ state.waiters # 0 BY DEF TypeOK
  <2>2. state.waiters - 1 \in Nat BY <2>1
  <2>3. state' \in Words BY <2>1, <2>2
  <2> QED BY <1>1, <2>3 DEF TypeOK, Sem!QueueInv
<1>3. MutexLinkInv' BY DEF MutexLinkInv, TypeOK, Sem!TypeOK
<1>4. LocalInv'
  BY DEF LocalInv, TypeOK, TokenInv, MutexCountInv
<1>5. TokenInv'
  <2>1. /\ ~state.woken /\ ~state.starving /\ ~AHandoff /\ ~AnAwake /\ ~APermit
        /\ state'.woken /\ ~state'.starving
    BY DEF TokenInv, HolderInv, TypeOK, LocalInv
  <2>2. ~AHandoff' /\ ~AnAwake'
    BY <2>1 DEF TypeOK
  <2>3. \A q \in Procs : Token(q)' => q = p
    BY <2>1 DEF TypeOK
  <2>4. sst[p] = "idle" BY OutsideSemaphore
  <2>5. sema = 0 BY <2>1 DEF TypeOK, Sem!TypeOK
  <2>6. IsPermit(p)' BY <2>4 DEF TypeOK
  <2> QED
    BY <2>1, <2>2, <2>3, <2>5, <2>6 DEF TokenInv
<1>6. HolderInv' BY DEF HolderInv, TokenInv, TypeOK, LocalInv
<1>7. MutexCountInv'
  <2>1. Waiters' = Waiters BY DEF Waiters, TypeOK
  <2>2. APermit' /\ ~state.woken /\ state'.woken
    BY DEF TokenInv, TypeOK, MutexLinkInv, Sem!TypeOK, Sem!States
  <2> QED BY <2>1, <2>2, CountWaiters DEF MutexCountInv, TypeOK
<1>8. DutyInv'
  <2>1. sst[p] = "idle" BY OutsideSemaphore
  <2>2. IsPermit(p)' BY <2>1 DEF TypeOK
  <2> QED BY <2>2 DEF DutyInv
<1>9. NoThrow' BY DEF NoThrow, TypeOK
<1> QED BY <1>1, <1>2, <1>3, <1>4, <1>5, <1>6, <1>7, <1>8, <1>9

-----------------------------------------------------------------------------
(* Steps of m.sema: m.state stays, and so does the number of tokens, which   *)
(* move from the releaser to the semaphore to the goroutine that acquires.   *)
LEMMA ParkInv ==
  ASSUME MutexInv, NEW p \in Procs, SemWait(p), Sem!Park(p, waited[p]) PROVE MutexInv'
<1> USE DEF MutexInv, SemWait
<1>1. Sem!QueueInv' BY Sem!QueueInvStep DEF Sem!Next, TypeOK
<1> USE DEF Sem!Park, Sem!Goto
<1>2. TypeOK' BY <1>1 DEF TypeOK, Sem!QueueInv
<1>3. MutexLinkInv' BY DEF MutexLinkInv, TypeOK, Sem!QueueInv, Sem!TypeOK
<1>4. LocalInv' BY DEF LocalInv, TypeOK
<1>5. TokenInv'
  BY DEF TokenInv, MutexLinkInv, TypeOK, Sem!QueueInv, Sem!TypeOK, Sem!States
<1>6. HolderInv' BY DEF HolderInv, TypeOK
<1>7. MutexCountInv'
  <2>1. Waiters' = Waiters BY DEF Waiters, TypeOK
  <2>2. APermit' <=> APermit
    BY DEF TokenInv, MutexLinkInv, TypeOK, Sem!QueueInv, Sem!TypeOK, Sem!States
  <2> QED BY <2>1, <2>2 DEF MutexCountInv
<1>8. DutyInv'
  <2>1. APermit' <=> APermit
    BY DEF TokenInv, MutexLinkInv, TypeOK, Sem!QueueInv, Sem!TypeOK, Sem!States
  <2> QED BY <2>1 DEF DutyInv, TypeOK
<1>9. NoThrow' BY DEF NoThrow, TypeOK
<1> QED BY <1>1, <1>2, <1>3, <1>4, <1>5, <1>6, <1>7, <1>8, <1>9

LEMMA ResumeLoseInv ==
  ASSUME MutexInv, NEW p \in Procs, SemWait(p), Sem!ResumeLose(p) PROVE MutexInv'
<1> USE DEF MutexInv, SemWait
<1>1. Sem!QueueInv' BY Sem!QueueInvStep DEF Sem!Next, TypeOK
<1> USE DEF Sem!ResumeLose, Sem!Goto
<1>2. TypeOK' BY <1>1 DEF TypeOK, Sem!QueueInv
<1>3. MutexLinkInv' BY DEF MutexLinkInv, TypeOK, Sem!QueueInv, Sem!TypeOK
<1>4. LocalInv' BY DEF LocalInv, TypeOK
<1>5. TokenInv'
  BY DEF TokenInv, MutexLinkInv, TypeOK, Sem!QueueInv, Sem!TypeOK, Sem!States
<1>6. HolderInv' BY DEF HolderInv, TypeOK
<1>7. MutexCountInv'
  <2>1. Waiters' = Waiters BY DEF Waiters, TypeOK
  <2>2. APermit' <=> APermit
    BY DEF TokenInv, MutexLinkInv, TypeOK, Sem!QueueInv, Sem!TypeOK, Sem!States
  <2> QED BY <2>1, <2>2 DEF MutexCountInv
<1>8. DutyInv'
  <2>1. APermit' <=> APermit
    BY DEF TokenInv, MutexLinkInv, TypeOK, Sem!QueueInv, Sem!TypeOK, Sem!States
  <2> QED BY <2>1 DEF DutyInv, TypeOK
<1>9. NoThrow' BY DEF NoThrow, TypeOK
<1> QED BY <1>1, <1>2, <1>3, <1>4, <1>5, <1>6, <1>7, <1>8, <1>9

LEMMA AcquireNowInv ==
  ASSUME MutexInv, NEW p \in Procs, SemAcquired(p), Sem!AcquireNow(p) PROVE MutexInv'
<1> USE DEF MutexInv, SemAcquired
<1>1. Sem!QueueInv' BY Sem!QueueInvStep DEF Sem!Next, TypeOK
<1> USE DEF Sem!AcquireNow, Sem!CanSemacquire
<1>2. TypeOK' BY <1>1 DEF TypeOK, Sem!QueueInv
<1>3. MutexLinkInv' BY DEF MutexLinkInv, TypeOK, Sem!QueueInv, Sem!TypeOK
<1>4. LocalInv' BY DEF LocalInv, TypeOK
<1>5. TokenInv'
  BY DEF TokenInv, MutexLinkInv, TypeOK, Sem!QueueInv, Sem!TypeOK, Sem!States
<1>6. HolderInv' BY DEF HolderInv, TypeOK
<1>7. MutexCountInv'
  <2>1. Waiters' = Waiters BY DEF Waiters, TypeOK
  <2>2. APermit' <=> APermit
    BY DEF TokenInv, MutexLinkInv, TypeOK, Sem!QueueInv, Sem!TypeOK, Sem!States
  <2> QED BY <2>1, <2>2 DEF MutexCountInv
<1>8. DutyInv'
  <2>1. APermit' <=> APermit
    BY DEF TokenInv, MutexLinkInv, TypeOK, Sem!QueueInv, Sem!TypeOK, Sem!States
  <2> QED BY <2>1 DEF DutyInv, TypeOK
<1>9. NoThrow' BY DEF NoThrow, TypeOK
<1> QED BY <1>1, <1>2, <1>3, <1>4, <1>5, <1>6, <1>7, <1>8, <1>9

LEMMA ResumeGrantedInv ==
  ASSUME MutexInv, NEW p \in Procs, SemAcquired(p), Sem!ResumeGranted(p) PROVE MutexInv'
<1> USE DEF MutexInv, SemAcquired
<1>1. Sem!QueueInv' BY Sem!QueueInvStep DEF Sem!Next, TypeOK
<1> USE DEF Sem!ResumeGranted, Sem!Goto
<1>2. TypeOK' BY <1>1 DEF TypeOK, Sem!QueueInv
<1>3. MutexLinkInv' BY DEF MutexLinkInv, TypeOK, Sem!QueueInv, Sem!TypeOK
<1>4. LocalInv' BY DEF LocalInv, TypeOK
<1>5. TokenInv'
  BY DEF TokenInv, MutexLinkInv, TypeOK, Sem!QueueInv, Sem!TypeOK, Sem!States
<1>6. HolderInv' BY DEF HolderInv, TypeOK
<1>7. MutexCountInv'
  <2>1. Waiters' = Waiters BY DEF Waiters, TypeOK
  <2>2. APermit' <=> APermit
    BY DEF TokenInv, MutexLinkInv, TypeOK, Sem!QueueInv, Sem!TypeOK, Sem!States
  <2> QED BY <2>1, <2>2 DEF MutexCountInv
<1>8. DutyInv'
  <2>1. APermit' <=> APermit
    BY DEF TokenInv, MutexLinkInv, TypeOK, Sem!QueueInv, Sem!TypeOK, Sem!States
  <2> QED BY <2>1 DEF DutyInv, TypeOK
<1>9. NoThrow' BY DEF NoThrow, TypeOK
<1> QED BY <1>1, <1>2, <1>3, <1>4, <1>5, <1>6, <1>7, <1>8, <1>9

LEMMA ResumeTakeInv ==
  ASSUME MutexInv, NEW p \in Procs, SemAcquired(p), Sem!ResumeTake(p) PROVE MutexInv'
<1> USE DEF MutexInv, SemAcquired
<1>1. Sem!QueueInv' BY Sem!QueueInvStep DEF Sem!Next, TypeOK
<1> USE DEF Sem!ResumeTake, Sem!CanSemacquire, Sem!Goto
<1>2. TypeOK' BY <1>1 DEF TypeOK, Sem!QueueInv
<1>3. MutexLinkInv' BY DEF MutexLinkInv, TypeOK, Sem!QueueInv, Sem!TypeOK
<1>4. LocalInv' BY DEF LocalInv, TypeOK
<1>5. TokenInv'
  BY DEF TokenInv, MutexLinkInv, TypeOK, Sem!QueueInv, Sem!TypeOK, Sem!States
<1>6. HolderInv' BY DEF HolderInv, TypeOK
<1>7. MutexCountInv'
  <2>1. Waiters' = Waiters BY DEF Waiters, TypeOK
  <2>2. APermit' <=> APermit
    BY DEF TokenInv, MutexLinkInv, TypeOK, Sem!QueueInv, Sem!TypeOK, Sem!States
  <2> QED BY <2>1, <2>2 DEF MutexCountInv
<1>8. DutyInv'
  <2>1. APermit' <=> APermit
    BY DEF TokenInv, MutexLinkInv, TypeOK, Sem!QueueInv, Sem!TypeOK, Sem!States
  <2> QED BY <2>1 DEF DutyInv, TypeOK
<1>9. NoThrow' BY DEF NoThrow, TypeOK
<1> QED BY <1>1, <1>2, <1>3, <1>4, <1>5, <1>6, <1>7, <1>8, <1>9

LEMMA MutexReleaseAddInv ==
  ASSUME MutexInv, NEW p \in Procs, SemRelease(p), Sem!ReleaseAdd(p) PROVE MutexInv'
<1> USE DEF MutexInv, SemRelease
<1>1. Sem!QueueInv' BY Sem!QueueInvStep DEF Sem!Next, TypeOK
<1> USE DEF Sem!ReleaseAdd, Sem!Goto
<1>2. TypeOK' BY <1>1 DEF TypeOK, Sem!QueueInv
<1>3. MutexLinkInv' BY DEF MutexLinkInv, TypeOK, Sem!QueueInv, Sem!TypeOK
<1>4. LocalInv' BY DEF LocalInv, TypeOK
<1>5. TokenInv'
  BY DEF TokenInv, MutexLinkInv, TypeOK, Sem!QueueInv, Sem!TypeOK, Sem!States
<1>6. HolderInv' BY DEF HolderInv, TypeOK
<1>7. MutexCountInv'
  <2>1. Waiters' = Waiters BY DEF Waiters, TypeOK
  <2>2. APermit' <=> APermit
    BY DEF TokenInv, MutexLinkInv, TypeOK, Sem!QueueInv, Sem!TypeOK, Sem!States
  <2> QED BY <2>1, <2>2 DEF MutexCountInv
<1>8. DutyInv'
  <2>1. APermit' <=> APermit
    BY DEF TokenInv, MutexLinkInv, TypeOK, Sem!QueueInv, Sem!TypeOK, Sem!States
  <2> QED BY <2>1 DEF DutyInv, TypeOK
<1>9. NoThrow' BY DEF NoThrow, TypeOK
<1> QED BY <1>1, <1>2, <1>3, <1>4, <1>5, <1>6, <1>7, <1>8, <1>9

LEMMA MutexReleaseDequeueInv ==
  ASSUME MutexInv, NEW p \in Procs, SemRelease(p), Sem!ReleaseDequeue(p) PROVE MutexInv'
<1> USE DEF MutexInv, SemRelease
<1>1. Sem!QueueInv' BY Sem!QueueInvStep DEF Sem!Next, TypeOK
<1> USE DEF Sem!ReleaseDequeue, Sem!Goto
<1>2. TypeOK' BY <1>1 DEF TypeOK, Sem!QueueInv
<1>3. MutexLinkInv' BY DEF MutexLinkInv, TypeOK, Sem!QueueInv, Sem!TypeOK
<1>4. LocalInv' BY DEF LocalInv, TypeOK
<1>5. TokenInv'
  BY SMTT(30) DEF TokenInv, MutexLinkInv, TypeOK, Sem!QueueInv, Sem!TypeOK, Sem!States
<1>6. HolderInv' BY DEF HolderInv, TypeOK
<1>7. MutexCountInv'
  <2>1. Waiters' = Waiters BY DEF Waiters, TypeOK
  <2>2. APermit' <=> APermit
    BY DEF TokenInv, MutexLinkInv, TypeOK, Sem!QueueInv, Sem!TypeOK, Sem!States
  <2> QED BY <2>1, <2>2 DEF MutexCountInv
<1>8. DutyInv'
  <2>1. APermit' <=> APermit
    BY DEF TokenInv, MutexLinkInv, TypeOK, Sem!QueueInv, Sem!TypeOK, Sem!States
  <2> QED BY <2>1 DEF DutyInv, TypeOK
<1>9. NoThrow' BY DEF NoThrow, TypeOK
<1> QED BY <1>1, <1>2, <1>3, <1>4, <1>5, <1>6, <1>7, <1>8, <1>9

LEMMA ReleaseNobodyInv ==
  ASSUME MutexInv, NEW p \in Procs, SemReleased(p), Sem!ReleaseNobody(p) PROVE MutexInv'
<1> USE DEF MutexInv, SemReleased
<1>1. Sem!QueueInv' BY Sem!QueueInvStep DEF Sem!Next, TypeOK
<1> USE DEF Sem!ReleaseNobody, Sem!Goto
<1>2. TypeOK' BY <1>1 DEF TypeOK, Sem!QueueInv
<1>3. MutexLinkInv' BY DEF MutexLinkInv, TypeOK, Sem!QueueInv, Sem!TypeOK
<1>4. LocalInv' BY DEF LocalInv, TypeOK
<1>5. TokenInv'
  BY DEF TokenInv, MutexLinkInv, TypeOK, Sem!QueueInv, Sem!TypeOK, Sem!States
<1>6. HolderInv' BY DEF HolderInv, TypeOK
<1>7. MutexCountInv'
  <2>1. Waiters' = Waiters BY DEF Waiters, TypeOK
  <2>2. APermit' <=> APermit
    BY DEF TokenInv, MutexLinkInv, TypeOK, Sem!QueueInv, Sem!TypeOK, Sem!States
  <2> QED BY <2>1, <2>2 DEF MutexCountInv
<1>8. DutyInv'
  <2>1. APermit' <=> APermit
    BY DEF TokenInv, MutexLinkInv, TypeOK, Sem!QueueInv, Sem!TypeOK, Sem!States
  <2> QED BY <2>1 DEF DutyInv, TypeOK
<1>9. NoThrow' BY DEF NoThrow, TypeOK
<1> QED BY <1>1, <1>2, <1>3, <1>4, <1>5, <1>6, <1>7, <1>8, <1>9

LEMMA ReleaseReadyInv ==
  ASSUME MutexInv, NEW p \in Procs, SemReleased(p), Sem!ReleaseReady(p, old[p].starving)
  PROVE  MutexInv'
<1> USE DEF MutexInv, SemReleased
<1>1. Sem!QueueInv' BY Sem!QueueInvStep DEF Sem!Next, TypeOK
<1> USE DEF Sem!ReleaseReady
<1>0. wakee[p] \in Procs /\ sst[wakee[p]] = "parked"
  BY DEF Sem!QueueInv, Sem!Dequeued
<1>2. TypeOK' BY <1>1 DEF TypeOK, Sem!QueueInv
<1>3. MutexLinkInv' BY <1>0 DEF MutexLinkInv, TypeOK, Sem!QueueInv, Sem!TypeOK
<1>4. LocalInv' BY DEF LocalInv, TypeOK
<1>5. TokenInv'
  BY SMTT(30), <1>0 DEF TokenInv, MutexLinkInv, TypeOK, Sem!QueueInv, Sem!TypeOK, Sem!States
<1>6. HolderInv' BY DEF HolderInv, TypeOK
<1>7. MutexCountInv'
  <2>1. Waiters' = Waiters BY DEF Waiters, TypeOK
  <2>2. APermit' <=> APermit
    BY <1>0 DEF TokenInv, MutexLinkInv, TypeOK, Sem!QueueInv, Sem!TypeOK, Sem!States
  <2> QED BY <2>1, <2>2 DEF MutexCountInv
<1>8. DutyInv'
  <2>1. APermit' <=> APermit
    BY <1>0 DEF TokenInv, MutexLinkInv, TypeOK, Sem!QueueInv, Sem!TypeOK, Sem!States
  <2> QED BY <2>1 DEF DutyInv, TypeOK
<1>9. NoThrow' BY DEF NoThrow, TypeOK
<1> QED BY <1>1, <1>2, <1>3, <1>4, <1>5, <1>6, <1>7, <1>8, <1>9

-----------------------------------------------------------------------------
(* The invariant holds initially. *)
LEMMA MutexInitInv == Init => MutexInv
<1> SUFFICES ASSUME Init PROVE MutexInv OBVIOUS
<1> USE DEF Init
<1>1. Sem!QueueInv BY Sem!QueueInvInit
<1>2. TypeOK BY <1>1 DEF TypeOK, Sem!QueueInv
<1> USE DEF Sem!Init
<1>3. MutexLinkInv /\ LocalInv /\ TokenInv /\ HolderInv /\ DutyInv /\ NoThrow
  BY DEF MutexLinkInv, LocalInv, TokenInv, HolderInv, DutyInv, NoThrow
<1>4. MutexCountInv
  <2>1. Waiters = {} BY DEF Waiters
  <2> QED BY <2>1, FS_EmptySet DEF MutexCountInv
<1> QED BY <1>1, <1>2, <1>3, <1>4 DEF MutexInv

(* Every step keeps the invariant. *)
LEMMA StepInv == MutexInv /\ [Next]_vars => MutexInv'
<1> SUFFICES ASSUME MutexInv, [Next]_vars PROVE MutexInv' OBVIOUS
<1>1. CASE UNCHANGED vars
  <2> USE <1>1 DEF MutexInv, vars
  <2>1. Sem!QueueInv' BY SemaphoreUntouched
  <2>2. TypeOK' BY <2>1 DEF TypeOK, Sem!QueueInv
  <2>3. MutexLinkInv' /\ LocalInv' /\ TokenInv' /\ HolderInv' /\ DutyInv' /\ NoThrow'
    BY DEF MutexLinkInv, LocalInv, TokenInv, HolderInv, DutyInv, NoThrow
  <2>4. MutexCountInv' BY DEF MutexCountInv, Waiters
  <2> QED BY <2>1, <2>2, <2>3, <2>4
<1>2. ASSUME NEW p \in Procs, Call(p) PROVE MutexInv'
  BY <1>2, LockFastInv, LockMissInv, TryLockLoadInv, UnlockFastInv,
    UnlockMissInv
  DEF Call, CallLock, CallTryLock, CallUnlock
<1>3. ASSUME NEW p \in Procs, LockStep(p) PROVE MutexInv'
  <2>1. CASE SemWait(p)
    BY <2>1, ParkInv, ResumeLoseInv DEF SemWait, Sem!Waits
  <2>2. CASE SemAcquired(p)
    BY <2>2, AcquireNowInv, ResumeGrantedInv, ResumeTakeInv DEF SemAcquired,
      Sem!Acquired
  <2> QED
    BY <1>3, <2>1, <2>2, SlowLoadInv, SpinInv, CasAcquireInv, CasQueueInv,
      CasFailInv, ResumeAwakeInv, ResumeOwnerInv, TakeHandoffInv
    DEF LockStep
<1>4. ASSUME NEW p \in Procs, TryLockStep(p) PROVE MutexInv'
  BY <1>4, TryLockTakeInv, TryLockFailInv DEF TryLockStep
<1>5. ASSUME NEW p \in Procs, UnlockStep(p) PROVE MutexInv'
  <2>1. CASE SemRelease(p)
    BY <2>1, MutexReleaseAddInv, MutexReleaseDequeueInv DEF SemRelease
  <2>2. CASE SemReleased(p)
    BY <2>2, ReleaseNobodyInv, ReleaseReadyInv DEF SemReleased, Sem!Released
  <2> QED
    BY <1>5, <2>1, <2>2, UnlockDoneInv, UnlockCasInv, UnlockCasFailInv DEF
      UnlockStep
<1> QED BY <1>1, <1>2, <1>3, <1>4, <1>5 DEF Next, Step

(* MutexInv is an invariant of the mutex (mutex.go:83-261). *)
THEOREM MutexInductive == Spec => []MutexInv
  BY MutexInitInv, StepInv, PTL DEF Spec

(* The sets of SyncMutex's properties and the predicates of MutexInv agree. *)
LEMMA SetsOfTokens ==
  /\ PermitOut <=> APermit
  /\ Handoff # {} <=> AHandoff
  /\ Awake # {} <=> AnAwake
  /\ Permit \cup Handoff \cup Awake = {p \in Procs : Token(p)}
  BY DEF PermitOut, Permit, Handoff, Awake

(* MutexInv implies the properties of SyncMutex. *)
LEMMA Consequences ==
  MutexInv => MutualExclusion /\ OneWakeup /\ WaitersCounted /\ NoLostWakeup
<1> SUFFICES ASSUME MutexInv
             PROVE  MutualExclusion /\ OneWakeup /\ WaitersCounted /\ NoLostWakeup
  OBVIOUS
<1> USE DEF MutexInv
<1>1. MutualExclusion BY DEF MutualExclusion, HolderInv, Holders
<1>2. OneWakeup
  <2> DEFINE Tokens == {p \in Procs : Token(p)}
  <2>1. sema + Cardinality(Tokens) <= 1
    <3>0. sema \in Nat /\ sema <= 1 BY DEF TokenInv, TypeOK, Sem!TypeOK
    <3>1. CASE Tokens = {}
      <4>1. Cardinality(Tokens) = 0 BY <3>1, FS_EmptySet
      <4> QED BY <3>0, <4>1
    <3>2. CASE Tokens # {}
      <4>1. PICK p \in Tokens : TRUE BY <3>2
      <4>2. Tokens = {p} BY <4>1 DEF TokenInv
      <4>3. Cardinality(Tokens) = 1 BY <4>2, FS_Singleton
      <4>4. sema = 0 BY <3>0, <4>1 DEF TokenInv
      <4> QED BY <4>3, <4>4
    <3> QED BY <3>1, <3>2
  <2>2. /\ state.woken <=> Awake # {} \/ (PermitOut /\ ~state.starving)
        /\ state.starving =>
             ~state.woken /\ (state.locked <=> ~PermitOut /\ Handoff = {})
        /\ Handoff # {} => state.starving
    BY SetsOfTokens DEF TokenInv
  <2> QED BY <2>1, <2>2, SetsOfTokens DEF OneWakeup
<1>3. WaitersCounted BY SetsOfTokens DEF WaitersCounted, MutexCountInv
<1>4. NoLostWakeup BY SetsOfTokens DEF NoLostWakeup, DutyInv
<1> QED BY <1>1, <1>2, <1>3, <1>4

(* Every variable keeps its type; the waiter count never goes below zero. *)
THEOREM TypeCorrect == Spec => []TypeOK
  BY MutexInductive, PTL DEF MutexInv

(* Lock excludes: one holder, and mutexLocked is set exactly while there is *)
(* one (mutex.go:83-93).                                                    *)
THEOREM Exclusive == Spec => []MutualExclusion
  BY MutexInductive, Consequences, PTL

(* The consistency checks of lockSlow and unlockSlow never fail             *)
(* (mutex.go:159-161, 181-183, 221).                                        *)
THEOREM NeverThrows == Spec => []NoThrow
  BY MutexInductive, PTL DEF MutexInv

(* Unlock never starts a second wakeup, and mutexWoken and mutexStarving    *)
(* tell which kind is in progress (mutex.go:236-260).                       *)
THEOREM WakeupsAreUnique == Spec => []OneWakeup
  BY MutexInductive, Consequences, PTL

(* m.state counts the waiters, whatever the order of the adds, the          *)
(* discounts and the wakeups (mutex.go:146-148, 184, 246).                  *)
THEOREM WaitersAreCounted == Spec => []WaitersCounted
  BY MutexInductive, Consequences, PTL

(* A free mutex with waiters is never forgotten (mutex.go:235-252).         *)
THEOREM WakeupsAreNotLost == Spec => []NoLostWakeup
  BY MutexInductive, Consequences, PTL

-----------------------------------------------------------------------------
(* A step of p moves nobody else. *)
LEMMA OneMoves ==
  ASSUME TypeOK, NEW p \in Procs, Call(p) \/ Step(p), NEW q \in Procs, q # p
  PROVE  pc'[q] = pc[q]
<1> USE DEF TypeOK
<1>1. CASE Call(p)
  BY <1>1 DEF Call, CallLock, CallTryLock, CallUnlock, LockFast, LockMiss,
    TryLockLoad, UnlockFast, UnlockMiss, Drop
<1>2. CASE LockStep(p)
  <2>1. CASE SlowLoad(p) \/ Spin(p)
    BY <2>1 DEF SlowLoad, Spin
  <2>2. CASE CasAcquire(p) \/ CasQueue(p) \/ CasFail(p)
    BY <2>2 DEF CasAcquire, CasQueue, CasFail, Attempt
  <2>3. CASE SemWait(p) \/ SemAcquired(p)
    BY <2>3 DEF SemWait, SemAcquired
  <2>4. CASE ResumeAwake(p) \/ ResumeOwner(p) \/ TakeHandoff(p)
    BY <2>4 DEF ResumeAwake, ResumeOwner, Reload, TakeHandoff
  <2> QED BY <1>2, <2>1, <2>2, <2>3, <2>4 DEF LockStep
<1>3. CASE TryLockStep(p)
  BY <1>3 DEF TryLockStep, TryLockTake, TryLockFail
<1>4. CASE UnlockStep(p)
  BY <1>4 DEF UnlockStep, UnlockDone, UnlockCas, UnlockCasFail, SemRelease,
    SemReleased
<1> QED BY <1>1, <1>2, <1>3, <1>4 DEF Step

(* What the CHOOSE in Holder stands for. *)
HolderOK ==
  /\ \A p \in Procs : pc[p] = "locked" => Holder = p
  /\ (\A p \in Procs : pc[p] # "locked") => Holder = NoProc

(* There is a well-defined holder. *)
LEMMA HolderIs == HolderInv => HolderOK
<1> SUFFICES ASSUME HolderInv PROVE HolderOK OBVIOUS
<1>1. ASSUME NEW p \in Procs, pc[p] = "locked" PROVE Holder = p
  <2>1. Holders = {p} BY <1>1 DEF Holders, HolderInv
  <2> QED BY <2>1 DEF Holder
<1> QED BY <1>1 DEF Holder, Holders, HolderOK

(* The mutex implements SyncLocker: the lock is only taken when it is free  *)
(* and only given up by its holder.                                         *)
THEOREM MutexRefinement == Spec => ImplementsLock
<1>1. Init => Abstract!Unheld
  BY DEF Init, Abstract!Unheld, Holder, Holders
<1>2. ASSUME MutexInv, MutexInv', [Next]_vars PROVE [Abstract!Changes]_Holder
  <2>1. CASE UNCHANGED vars
    BY <2>1 DEF vars, Holder, Holders
  <2>2. CASE Next
    <3>1. TypeOK /\ HolderInv /\ HolderInv' BY <1>2 DEF MutexInv
    <3>2. PICK p \in Procs : \A q \in Procs : q # p => pc'[q] = pc[q]
      BY <2>2, <3>1, OneMoves DEF Next
    <3>3. HolderOK /\ HolderOK' BY <3>1, HolderIs, PTL
    <3>4. CASE pc[p] # "locked" /\ pc'[p] = "locked"
      <4>1. \A q \in Procs : pc[q] # "locked" BY <3>1, <3>2, <3>4 DEF HolderInv
      <4> QED BY <3>3, <3>4, <4>1 DEF HolderOK, Abstract!Changes, Abstract!Acquire, Abstract!Passes
    <3>5. CASE pc[p] = "locked" /\ pc'[p] # "locked"
      <4>1. \A q \in Procs : pc'[q] # "locked" BY <3>1, <3>2, <3>5 DEF HolderInv
      <4> QED BY <3>3, <3>5, <4>1 DEF HolderOK, Abstract!Changes, Abstract!Release, Abstract!Passes
    <3>6. CASE (pc[p] = "locked") <=> (pc'[p] = "locked")
      BY <3>2, <3>3, <3>6 DEF HolderOK
    <3> QED BY <3>4, <3>5, <3>6
  <2> QED BY <1>2, <2>1, <2>2
<1> QED BY <1>1, <1>2, MutexInductive, PTL DEF Spec, ImplementsLock, Abstract!Spec
=============================================================================
