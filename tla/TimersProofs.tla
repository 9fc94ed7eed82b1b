----------------------------- MODULE TimersProofs -----------------------------
(***************************************************************************)
(* The proofs about the timers of one P: no receiver gets a value of an    *)
(* earlier setting (NoStaleValue), no timer waits longer than the P sleeps *)
(* unless an update was lost (WakeTimeSound), Stop and Reset report what   *)
(* the program can know (StopHonest), and a timer that somebody waits for  *)
(* stays in the heap (NobodyForgotten), for any finite sets of goroutines, *)
(* threads and timers, any calls, periods and times.                       *)
(*                                                                         *)
(* The invariant says where everybody is (TimersPlace) and what locks they *)
(* hold there (TimersLocks); that the bits of a timer say what is in the   *)
(* heap (TimersBits); when the P wakes up (TimersWake); that who waits for *)
(* a channel is in its queue, is counted, and has a timer that is or will  *)
(* be in the heap (TimersWait); and what generation values are of          *)
(* (TimersSeq).  The two properties about what the program is told add     *)
(* what it has not seen yet (TimersArmed) and the results (TimersResult),  *)
(* and need OneSetter.                                                     *)
(*                                                                         *)
(* A step of an actor alters one timer at most (Alters).  Each step that   *)
(* does is first reduced to its effect, field by field (StopEffect, ...,   *)
(* Cleaned, Ran), and each part of the invariant to what holds after any   *)
(* step that alters one timer (BitsChange, WakeChange, WaitChange,         *)
(* SeqChange), or none (BitsKeep, ...).                                    *)
(***************************************************************************)
EXTENDS Timers, CountingLemmas

Backs == {"idle", "empty", "recv", "relock", "run", "unlockTs"}
Sets  == {"stop", "reset"}
Gets  == {"recv", "poll"}
Mods  == {"publish", "published", "unlock"}

Locs ==
  [op : Ops \cup {"none"}, t : Timers \cup {"none"}, when : Nat, seq : Nat, ret : BOOLEAN,
   add : BOOLEAN, back : Backs, was : BOOLEAN, late : BOOLEAN]

Settings ==
  [when : Nat, seq : Nat, bits : SUBSET Bits, astate : SUBSET Bits, blocked : Int,
   sending : Int]

UserPCs == {"idle", "sendLock", "lock", "publish", "published", "unlock", "drain", "add", "clean",
            "insert", "run", "empty", "recv", "send", "sending", "block", "parked", "unblock",
            "ret"}
CheckPCs == {"idle", "adjust", "forced", "clear", "scan", "run", "send", "sending", "relock",
             "unlockTs"}

(* The types of the variables. *)
TimersType ==
  /\ scene \in Scenes /\ now \in Nat \ {0}
  /\ timer \in [Timers -> Settings]
  /\ mu \in [Timers -> Actors \cup {Free}] /\ sendLock \in [Timers -> Actors \cup {Free}]
  /\ chlock \in [Timers -> Actors \cup {Free}] /\ tsmu \in Actors \cup {Free}
  /\ DOMAIN heap \subseteq Timers /\ \A t \in DOMAIN heap : heap[t] \in Nat \ {0}
  /\ minHeap \in Nat /\ minMod \in Nat /\ zombies \in Int /\ len \in Nat
  /\ buf \in [Timers -> Nat] /\ recvq \in [Timers -> Seq(Users)]
  /\ pc \in [Actors -> UserPCs \cup CheckPCs] /\ loc \in [Actors -> Locs]
  /\ armed \in [Timers -> BOOLEAN]

(* Where goroutines and threads are. *)
UserAt(g) ==
  /\ pc[g] \in UserPCs
  /\ pc[g] # "idle" => << g, loc[g].op, T(g) >> \in scene.calls
  /\ pc[g] \in {"run", "empty", "recv", "send", "sending"} => loc[g].op \in Gets
  /\ pc[g] \in {"block", "parked", "unblock"} => loc[g].op = "recv"
  /\ pc[g] \in {"sendLock", "lock", "drain"} => loc[g].op \in Sets
  /\ pc[g] \in Mods => loc[g].op = "reset"
  /\ pc[g] \in {"add", "clean", "insert"} => loc[g].op \in {"reset", "recv"}
  /\ pc[g] \in {"sendLock", "drain"} => IsChan(T(g))
  /\ pc[g] \in {"send", "sending"} => loc[g].back \in {"empty", "recv"}
  /\ loc[g].op = "reset" => loc[g].when > 0
  /\ loc[g].add => loc[g].op = "reset"

CheckAt(m) ==
  /\ pc[m] \in CheckPCs /\ loc[m].when <= now
  /\ pc[m] \in {"send", "sending"} => IsChan(T(m)) /\ loc[m].back = "relock"
  /\ pc[m] \in {"clear", "scan"} => loc[m].back \in {"run", "unlockTs"}

TimersPlace == (\A g \in Users : UserAt(g)) /\ (\A m \in Ms : CheckAt(m))

(* What they hold there. *)
HoldsMu(a, t)   == a \in Users /\ pc[a] \in Mods /\ T(a) = t
HoldsSend(a, t) ==
  /\ T(a) = t /\ IsChan(t)
  /\ pc[a] \in {"lock", "sending"} \cup Mods \/ (pc[a] = "drain" /\ loc[a].op = "reset")
HoldsTs(a)      == \/ a \in Users /\ pc[a] \in {"clean", "insert"}
                   \/ a \in Ms /\ pc[a] \in {"adjust", "forced", "clear", "scan", "run",
                                             "unlockTs"}
HoldsChan(a, t) ==
  a \in Users /\ loc[a].op = "recv" /\ pc[a] \in {"block", "add", "clean", "insert"} /\ T(a) = t

LocksAt(a) ==
  /\ tsmu = a <=> HoldsTs(a)
  /\ \A t \in Timers : /\ mu[t] = a <=> HoldsMu(a, t)
                       /\ sendLock[t] = a <=> HoldsSend(a, t)
                       /\ chlock[t] = a <=> HoldsChan(a, t)

TimersLocks == \A a \in Actors : LocksAt(a)

(* The bits say what is in the heap, and the entry there is up to date if they do. *)
Zombies == {t \in Timers : "zombie" \in timer[t].bits}

BitsAt(t) ==
  LET r == timer[t] IN
  /\ "heaped" \in r.bits <=> t \in DOMAIN heap
  /\ "heaped" \in r.astate <=> t \in DOMAIN heap
  /\ r.bits # {} => "heaped" \in r.bits
  /\ mu[t] = Free => r.astate = r.bits
  /\ t \in DOMAIN heap /\ "modified" \notin r.bits => heap[t] = r.when
  /\ t \in DOMAIN heap /\ "zombie" \notin r.bits => r.when > 0

TimersBits ==
  /\ zombies = Cardinality(Zombies)
  /\ \A t \in Timers : BitsAt(t)
  /\ \A g \in Users : pc[g] \in Mods => Tm(g).when = loc[g].when
  /\ ~thrown

(* The next wakeup is not too late, except while the heap is gone through. *)
Publishing(t) == \E g \in Users : pc[g] = "publish" /\ T(g) = t

WakeAt(t) ==
  "modified" \in timer[t].bits /\ timer[t].when > 0 =>
    \/ t \in missed \/ Publishing(t)
    \/ t \in todo /\ "modified" \in timer[t].astate
    \/ 0 < minMod /\ minMod <= timer[t].when

TimersWake ==
  /\ todo \subseteq DOMAIN heap
  /\ todo # {} => \E m \in Ms : pc[m] = "scan"
  /\ \/ \E m \in Ms : pc[m] \in {"clear", "scan"}
     \/ \A t \in DOMAIN heap : 0 < minHeap /\ minHeap <= heap[t]
  /\ \A g \in Users : pc[g] \in {"publish", "published"} => "modified" \in Tm(g).astate
  /\ \A t \in Timers : WakeAt(t)

(* Who waits for a channel is in its queue, and counted. *)
InLine(g, t)   == loc[g].op = "recv" /\ T(g) = t
                    /\ pc[g] \in {"block", "add", "clean", "insert", "parked"}
Waiting(t)     == {g \in Users : loc[g].op = "recv" /\ T(g) = t
                    /\ pc[g] \in {"add", "clean", "insert", "parked", "unblock"}}

Adding(g, t)   == T(g) = t /\ (pc[g] \in {"add", "clean", "insert"}
                                 \/ (pc[g] = "drain" /\ loc[g].add))

LineAt(t) ==
  /\ timer[t].blocked = Cardinality(Waiting(t))
  /\ NoRepeat(recvq[t])
  /\ \A g \in Users : Occurs(g, recvq[t]) <=> InLine(g, t)
  /\ recvq[t] # << >> => buf[t] = 0

AliveAt(t) ==
  /\ "zombie" \in timer[t].bits => timer[t].when = 0 \/ timer[t].blocked = 0
  /\ mu[t] = Free /\ timer[t].when > 0 /\ timer[t].blocked > 0 =>
       "heaped" \in timer[t].bits \/ \E g \in Users : Adding(g, t)

TimersWait == \A t \in Timers : LineAt(t) /\ AliveAt(t)

(* What has been sent, is being sent and will be sent. *)
Draining(t) == \E g \in Users : pc[g] = "drain" /\ T(g) = t
Sends(t)    == {a \in Actors : pc[a] = "send" /\ T(a) = t}

SeqAt(t) ==
  /\ buf[t] \in {0, timer[t].seq} \/ Draining(t)
  /\ Period(t) = 0 => timer[t].sending = Cardinality(Sends(t))
  /\ mu[t] = Free /\ timer[t].when > 0 => timer[t].seq > 0
  /\ buf[t] <= timer[t].seq

SentAt(a) == pc[a] \in {"send", "sending"} =>
  /\ loc[a].seq \in 1 .. Tm(a).seq
  /\ pc[a] = "sending" => loc[a].seq = Tm(a).seq

TimersSeq == (\A t \in scene.chan : SeqAt(t)) /\ (\A a \in Actors : SentAt(a))

(* While t.mu is held for modify, the timer was running if modify will say so. *)
On(t)        == IF mu[t] = Free THEN timer[t].when > 0 ELSE loc[mu[t]].ret
InChan(t)    == buf[t] # 0 /\ buf[t] = timer[t].seq
Sender(a, t) == pc[a] \in {"send", "sending"} /\ T(a) = t /\ loc[a].seq = timer[t].seq

ArmedAt(t) ==
  /\ Period(t) # 0 /\ mu[t] = Free /\ armed[t] => timer[t].when > 0
  /\ Period(t) = 0 /\ ~IsChan(t) => (armed[t] <=> On(t))
  /\ Period(t) = 0 /\ IsChan(t) =>
       /\ armed[t] <=> On(t) \/ (\E a \in Actors : Sender(a, t)) \/ InChan(t)
       /\ On(t) => ~InChan(t)
       /\ \A a \in Actors : Sender(a, t) =>
            ~On(t) /\ ~InChan(t) /\ \A b \in Actors : Sender(b, t) => b = a
       /\ Draining(t) => ~InChan(t)

StoppedAt(g) == pc[g] = "drain" /\ loc[g].op = "stop" => ~armed[T(g)]

TimersArmed == (\A t \in Timers : ArmedAt(t)) /\ (\A g \in Users : StoppedAt(g))

(* The results of Stop and Reset. *)
Honest(l) == (l.was => l.ret) /\ (l.ret => l.was \/ l.late)

ResultAt(g) == loc[g].op \in Sets /\ Period(T(g)) = 0 =>
  /\ pc[g] \in {"add", "clean", "insert", "ret"} => Honest(loc[g])
  /\ pc[g] = "drain" /\ buf[T(g)] = 0 => Honest(loc[g])
  /\ pc[g] = "drain" /\ buf[T(g)] # 0 => /\ loc[g].was \/ loc[g].late
                                         /\ loc[g].ret => loc[g].late

TimersResult == \A g \in Users : ResultAt(g)

(* The cases of a step. *)
LEMMA StepCases ==
  ASSUME TimersNext
  PROVE  \/ Tick
         \/ \E g \in Users : \/ Call(g) \/ Return(g) \/ LockSend(g) \/ Stop(g) \/ Drain(g)
                             \/ ModifyLock(g) \/ Publish(g) \/ ModifyUnlock(g)
                             \/ AddLock(g) \/ CleanHead(g) \/ CleanDone(g) \/ Insert(g)
                             \/ MaybeRunChan(g) \/ Recv(g) \/ Block(g) \/ Unblock(g)
         \/ \E a \in Actors : Send(a) \/ SendTime(a)
         \/ \E m \in Ms : \/ Check(m) \/ Adjust(m) \/ Clear(m) \/ Scan(m) \/ EndScan(m)
                          \/ Run(m) \/ Relock(m) \/ UnlockTs(m)
  BY DEF TimersNext, Step, MStep, Actors

(* The least entry of a heap. *)
LEMMA LeastEntry ==
  ASSUME NEW h, \A t \in DOMAIN h : h[t] \in Nat \ {0}
  PROVE  /\ MinOf(h) \in Nat
         /\ DOMAIN h = {} => MinOf(h) = 0
         /\ \A t \in DOMAIN h : 0 < MinOf(h) /\ MinOf(h) <= h[t]
         /\ DOMAIN h # {} => Heads(h) # {}
<1>1. CASE DOMAIN h = {} BY <1>1 DEF MinOf
<1>2. CASE DOMAIN h # {}
  <2> DEFINE S == {h[t] : t \in DOMAIN h}
  <2>0. S \in SUBSET Nat /\ S # {} BY <1>2
  <2>1. \E w \in S : \A y \in S : w <= y BY <2>0, LeastNat
  <2>2. \E w \in S : \A t \in DOMAIN h : w <= h[t] BY <2>1
  <2>3. MinOf(h) \in S /\ \A t \in DOMAIN h : MinOf(h) <= h[t] BY <1>2, <2>2 DEF MinOf
  <2> QED BY <1>2, <2>3 DEF Heads
<1> QED BY <1>1, <1>2

(* The heap after an entry was taken out or set. *)
LEMMA HeapWithout ==
  ASSUME NEW h, DOMAIN h \subseteq Timers, \A t \in DOMAIN h : h[t] \in Nat \ {0}, NEW u
  PROVE  /\ DOMAIN Without(h, u) = DOMAIN h \ {u}
         /\ \A t \in DOMAIN h \ {u} : Without(h, u)[t] = h[t]
  BY DEF Without

(* ... and after one was set. *)
LEMMA HeapWith ==
  ASSUME NEW h, DOMAIN h \subseteq Timers, \A t \in DOMAIN h : h[t] \in Nat \ {0}, NEW u, NEW w
  PROVE  /\ DOMAIN With(h, u, w) = DOMAIN h \cup {u} /\ With(h, u, w)[u] = w
         /\ \A t \in DOMAIN h \ {u} : With(h, u, w)[t] = h[t]
  BY DEF With

(* A natural number divided by a positive one. *)
LEMMA NatDiv == ASSUME NEW x \in Nat, NEW y \in Nat \ {0} PROVE x \div y \in Nat
  OBVIOUS

(* When a timer that has expired is due again. *)
LEMMA NextDue ==
  ASSUME TimersType, NEW t \in Timers, timer[t].when \in 1 .. now
  PROVE  Next1(t) \in Nat /\ (Period(t) # 0 => Next1(t) > 0) /\ (Period(t) = 0 => Next1(t) = 0)
<1> DEFINE P == Period(t)
           w == timer[t].when
           k == (now - w) \div P
<1>1. P \in Nat /\ w \in Nat \ {0} /\ now \in Nat /\ now - w \in Nat /\ MaxNow \in Nat
  BY TimersAssumption DEF TimersType, Period, Settings
<1>2. CASE P = 0 BY <1>2 DEF Next1
<1>3. CASE P # 0
  <2>1. k \in Nat
    <3> HIDE DEF P, w
    <3> QED BY <1>1, <1>3, NatDiv
  <2>2. P * (1 + k) \in Nat
    <3> HIDE DEF P, k
    <3> QED BY <1>1, <2>1
  <2> DEFINE n == w + P * (1 + k)
  <2>3. n \in Nat /\ n > 0
    <3> DEFINE x == P * (1 + k)
    <3>1. x \in Nat BY <2>2
    <3> HIDE DEF x, w
    <3>2. w + x \in Nat /\ w + x > 0 BY <3>1, <1>1
    <3> QED BY <3>2 DEF x
  <2>4. Next1(t) = IF n > MaxNow THEN Never ELSE n BY <1>3 DEF Next1
  <2> HIDE DEF n
  <2> QED BY <2>3, <2>4, <1>1, <1>3 DEF Never
<1> QED BY <1>2, <1>3

(* A call of the scene: its goroutine, operation and timer. *)
LEMMA SceneCall ==
  ASSUME TimersType, NEW c \in scene.calls
  PROVE  /\ c \in Users \X Ops \X Timers /\ c[1] \in Users /\ c[2] \in Ops /\ c[3] \in Timers
         /\ c[2] \in Gets => c[3] \in scene.chan
<1>1. scene \in Scenes BY DEF TimersType
<1>2. c \in Users \X Ops \X Timers /\ (c[2] \in {"recv", "poll"} => c[3] \in scene.chan)
  BY <1>1, TimersAssumption
<1> QED BY <1>2 DEF Gets

(* A call moves its goroutine only. *)
LEMMA CallMoves ==
  ASSUME TimersType, NEW g \in Users, Call(g)
  PROVE  \A b \in Actors \ {g} : pc'[b] = pc[b] /\ loc'[b] = loc[b]
<1>1. \E l : loc' = [loc EXCEPT ![g] = l] BY DEF Call
<1>2. \E to : pc' = [pc EXCEPT ![g] = to] BY DEF Call, To
<1>3. \A b \in Actors : b \in DOMAIN pc /\ b \in DOMAIN loc BY DEF TimersType
<1> QED BY <1>1, <1>2, <1>3

(* Where an action finds its timer, and its settings. *)
LEMMA AtTimer ==
  ASSUME TimersType, TimersPlace
  PROVE  /\ scene.chan \subseteq Timers
         /\ \A g \in Users : pc[g] # "idle" =>
              /\ T(g) \in Timers /\ loc[g].op \in Ops /\ Tm(g) \in Settings
              /\ loc[g].op \in Gets => IsChan(T(g))
         /\ \A a \in Actors : pc[a] \in {"send", "sending"} =>
              T(a) \in Timers /\ IsChan(T(a)) /\ Tm(a) \in Settings
         /\ \A a \in Actors : loc[a] \in Locs
         /\ \A t \in Timers : Period(t) \in Nat
<1>1. scene.chan \subseteq Timers /\ \A t \in Timers : Period(t) \in Nat
  BY TimersAssumption DEF TimersType, Period
<1>2. ASSUME NEW g \in Users, pc[g] # "idle"
      PROVE  /\ T(g) \in Timers /\ loc[g].op \in Ops /\ Tm(g) \in Settings
             /\ loc[g].op \in Gets => IsChan(T(g))
  <2>1. << g, loc[g].op, T(g) >> \in scene.calls BY <1>2 DEF TimersPlace, UserAt, CheckAt
  <2> DEFINE c == << g, loc[g].op, T(g) >>
  <2>2. c[2] = loc[g].op /\ c[3] = T(g) OBVIOUS
  <2> HIDE DEF c
  <2>3. c[2] \in Ops /\ c[3] \in Timers /\ (c[2] \in Gets => c[3] \in scene.chan)
    BY <2>1, SceneCall DEF c
  <2> QED BY <2>2, <2>3 DEF IsChan, TimersType, Tm
<1>3. ASSUME NEW a \in Actors, pc[a] \in {"send", "sending"} PROVE T(a) \in Timers /\ IsChan(T(a)) /\ Tm(a) \in Settings
  <2>1. IsChan(T(a)) BY <1>2, <1>3 DEF Actors, TimersPlace, UserAt, CheckAt, Gets
  <2> QED BY <2>1, <1>1 DEF IsChan, TimersType, Tm
<1> QED BY <1>1, <1>2, <1>3 DEF TimersType

(* New settings, new locals and a new step are of the right type. *)
LEMMA TimerSet ==
  ASSUME TimersType, NEW t \in Timers, NEW r \in Settings, SetTimer(t, r)
  PROVE  timer' \in [Timers -> Settings]
  BY DEF TimersType, SetTimer

(* ... and so are the locals of the actor that moves ... *)
LEMMA LocSet ==
  ASSUME TimersType, NEW a \in Actors, NEW l \in Locs
  PROVE  [loc EXCEPT ![a] = l] \in [Actors -> Locs]
  BY DEF TimersType

(* ... and its next step. *)
LEMMA PcSet ==
  ASSUME TimersType, NEW a \in Actors, NEW to \in UserPCs \cup CheckPCs, To(a, to)
  PROVE  pc' \in [Actors -> UserPCs \cup CheckPCs]
  BY DEF TimersType, To

(* A timer taken out of the heap has settings of the right type. *)
LEMMA RemovedType == ASSUME NEW r \in Settings PROVE Removed(r) \in Settings
  BY DEF Removed, Settings

(* The heap and its least entry keep their types when an entry is taken out ... *)
LEMMA HeapWithoutType ==
  ASSUME TimersType, NEW u
  PROVE  /\ DOMAIN Without(heap, u) \subseteq Timers
         /\ \A t \in DOMAIN Without(heap, u) : Without(heap, u)[t] \in Nat \ {0}
         /\ MinOf(Without(heap, u)) \in Nat
<1>1. /\ DOMAIN heap \subseteq Timers
      /\ \A t \in DOMAIN heap : heap[t] \in Nat \ {0}
  BY DEF TimersType
<1>2. /\ DOMAIN Without(heap, u) = DOMAIN heap \ {u}
      /\ \A t \in DOMAIN heap \ {u} : Without(heap, u)[t] = heap[t]
  BY DEF Without
<1> DEFINE h == Without(heap, u)
<1>3. DOMAIN h \subseteq Timers /\ \A t \in DOMAIN h : h[t] \in Nat \ {0} BY <1>1, <1>2
<1> HIDE DEF h
<1>4. MinOf(h) \in Nat BY <1>3, LeastEntry
<1> QED BY <1>3, <1>4 DEF h

(* ... and when one is set. *)
LEMMA HeapWithType ==
  ASSUME TimersType, NEW u \in Timers, NEW w \in Nat \ {0}
  PROVE  /\ DOMAIN With(heap, u, w) \subseteq Timers
         /\ \A t \in DOMAIN With(heap, u, w) : With(heap, u, w)[t] \in Nat \ {0}
         /\ MinOf(With(heap, u, w)) \in Nat
<1>1. /\ DOMAIN heap \subseteq Timers
      /\ \A t \in DOMAIN heap : heap[t] \in Nat \ {0}
  BY DEF TimersType
<1>2. /\ DOMAIN With(heap, u, w) = DOMAIN heap \cup {u} /\ With(heap, u, w)[u] = w
      /\ \A t \in DOMAIN heap \ {u} : With(heap, u, w)[t] = heap[t]
  BY DEF With
<1> DEFINE h == With(heap, u, w)
<1>3. DOMAIN h \subseteq Timers /\ \A t \in DOMAIN h : h[t] \in Nat \ {0} BY <1>1, <1>2
<1> HIDE DEF h
<1>4. MinOf(h) \in Nat BY <1>3, LeastEntry
<1> QED BY <1>3, <1>4 DEF h

(* The heap is finite. *)
LEMMA HeapSize == ASSUME TimersType PROVE Cardinality(DOMAIN heap) \in Nat
  BY TimersAssumption, FS_Subset, FS_CardinalityType DEF TimersType

(* Every step keeps the types: first those of a goroutine. *)
LEMMA TypeUserStep ==
  ASSUME TimersType, TimersPlace, TimersBits, TimersLocks, NEW g \in Users,
         \/ Call(g) \/ Return(g) \/ LockSend(g) \/ Stop(g) \/ Drain(g)
         \/ ModifyLock(g) \/ Publish(g) \/ ModifyUnlock(g)
  PROVE  TimersType'
<1>0. /\ g \in Actors /\ loc[g] \in Locs
      /\ pc[g] # "idle" => T(g) \in Timers /\ loc[g].op \in Ops /\ Tm(g) \in Settings
  BY AtTimer DEF Actors
<1>1. CASE Call(g)
  <2>1. PICK c \in scene.calls, delay \in 0 .. MaxNow :
          /\ loc' = [loc EXCEPT ![g] = [NoLoc EXCEPT !.op = c[2], !.t = c[3],
                                                     !.when = now + delay]]
          /\ To(g, IF c[2] \in {"recv", "poll"} THEN "run"
                   ELSE IF IsChan(c[3]) THEN "sendLock" ELSE "lock")
    BY <1>1 DEF Call
  <2>2. c[2] \in Ops /\ c[3] \in Timers BY <2>1, SceneCall
  <2>3. now + delay \in Nat BY TimersAssumption DEF TimersType
  <2>4. [NoLoc EXCEPT !.op = c[2], !.t = c[3], !.when = now + delay] \in Locs
    BY <2>2, <2>3 DEF Locs, NoLoc, Backs
  <2>5. loc' \in [Actors -> Locs] BY <2>1, <2>4, <1>0, LocSet
  <2>6. pc' \in [Actors -> UserPCs \cup CheckPCs]
    BY <2>1, <1>0, PcSet DEF UserPCs
  <2> QED BY <1>1, <2>5, <2>6 DEF Call, TimersType, ts, chans, hist
<1>2. CASE Return(g)
  <2>1. NoLoc \in Locs BY DEF Locs, NoLoc, Backs
  <2>2. loc' \in [Actors -> Locs] BY <1>2, <2>1, <1>0, LocSet DEF Return, Drop
  <2>3. pc' \in [Actors -> UserPCs \cup CheckPCs] BY <1>2, <1>0, PcSet DEF Return, UserPCs
  <2> QED BY <1>2, <2>2, <2>3 DEF Return, TimersType, ts, chans, hist
<1>3. CASE LockSend(g)
  <2>1. pc' \in [Actors -> UserPCs \cup CheckPCs] BY <1>3, <1>0, PcSet DEF LockSend, UserPCs
  <2> QED BY <1>3, <1>0, <2>1 DEF LockSend, TimersType, ts, chans, hist
<1>4. CASE Stop(g)
  <2> DEFINE r == Tm(g)
             b == IF "heaped" \in r.bits THEN r.bits \cup {"modified", "zombie"} ELSE r.bits
             n == [r EXCEPT !.when = 0, !.seq = NextSeq(T(g)), !.bits = b, !.astate = b]
             pending == r.when > 0 \/ Squelched(T(g))
             l == [loc[g] EXCEPT !.ret = pending, !.was = armed[T(g)],
                                 !.late = Underway(T(g), r.seq)]
  <2>1. pc[g] = "lock" /\ SetTimer(T(g), n) /\ loc' = [loc EXCEPT ![g] = l]
    BY <1>4, <1>0 DEF Stop, StopWith, From, StopResult, TimersType
  <2>2. T(g) \in Timers /\ r \in Settings BY <2>1, <1>0
  <2>3. b \in SUBSET Bits /\ NextSeq(T(g)) \in Nat BY <2>2 DEF Settings, Bits, NextSeq, Tm
  <2>4. n \in Settings BY <2>2, <2>3 DEF Settings
  <2>5. timer' \in [Timers -> Settings] BY <2>1, <2>2, <2>4, TimerSet
  <2>6. l \in Locs BY <1>0, <2>2 DEF Locs, TimersType, Underway
  <2>7. loc' \in [Actors -> Locs] BY <2>1, <2>6, <1>0, LocSet
  <2>8. pc' \in [Actors -> UserPCs \cup CheckPCs]
    BY <1>4, <1>0, PcSet DEF Stop, StopWith, UserPCs
  <2>9. zombies' \in Int BY <1>4 DEF Stop, StopWith, TimersType
  <2>10. armed' \in [Timers -> BOOLEAN] BY <1>4, <2>2 DEF Stop, StopWith, TimersType
  <2> QED BY <1>4, <2>2, <2>5, <2>7, <2>8, <2>9, <2>10 DEF Stop, StopWith, TimersType, chans, hist
<1>5. CASE Drain(g)
  <2> DEFINE l == [loc[g] EXCEPT !.ret = loc[g].ret \/ buf[T(g)] # 0]
  <2>1. T(g) \in Timers /\ l \in Locs BY <1>5, <1>0 DEF Drain, From, Locs
  <2>2. loc' = [loc EXCEPT ![g] = l] BY <1>5, <1>0 DEF Drain, TimersType
  <2>3. loc' \in [Actors -> Locs] BY <2>2, <2>1, <1>0, LocSet
  <2>4. pc' \in [Actors -> UserPCs \cup CheckPCs] BY <1>5, <1>0, PcSet DEF Drain, UserPCs
  <2> QED BY <1>5, <2>1, <2>3, <2>4 DEF Drain, TimersType, ts, hist
<1>6. CASE ModifyLock(g)
  <2> DEFINE r == Tm(g)
             w == loc[g].when
             inHeap == "heaped" \in r.bits
             b == IF inHeap THEN (r.bits \cup {"modified"}) \ {"zombie"} ELSE r.bits
             wake == inHeap /\ (minMod = 0 \/ w < minMod)
             n == [r EXCEPT !.when = w, !.bits = b, !.astate = IF wake THEN b ELSE r.astate]
             l == [loc[g] EXCEPT !.ret = r.when > 0]
  <2>1. pc[g] = "lock" /\ SetTimer(T(g), n) /\ loc' = [loc EXCEPT ![g] = l]
    BY <1>6, <1>0 DEF ModifyLock, ModifyLockWith, From, TimersType
  <2>2. T(g) \in Timers /\ r \in Settings /\ w \in Nat BY <2>1, <1>0 DEF Locs
  <2>3. b \in SUBSET Bits BY <2>2 DEF Settings, Bits
  <2>4. n \in Settings BY <2>2, <2>3 DEF Settings
  <2>5. timer' \in [Timers -> Settings] BY <2>1, <2>2, <2>4, TimerSet
  <2>6. (r.when > 0) \in BOOLEAN /\ l \in Locs
    <3> DEFINE x == r.when > 0
    <3>1. x \in BOOLEAN BY <2>2 DEF Settings
    <3> HIDE DEF x
    <3>2. [loc[g] EXCEPT !.ret = x] \in Locs BY <3>1, <1>0 DEF Locs
    <3> QED BY <3>1, <3>2 DEF x
  <2>7. loc' \in [Actors -> Locs] BY <2>1, <2>6, <1>0, LocSet
  <2>8. pc' \in [Actors -> UserPCs \cup CheckPCs]
    BY <1>6, <1>0, PcSet DEF ModifyLock, ModifyLockWith, UserPCs
  <2>9. zombies' \in Int BY <1>6 DEF ModifyLock, ModifyLockWith, TimersType
  <2>10. mu' \in [Timers -> Actors \cup {Free}]
    BY <1>6, <2>2, <1>0 DEF ModifyLock, ModifyLockWith, TimersType
  <2> QED BY <1>6, <2>5, <2>7, <2>8, <2>9, <2>10
        DEF ModifyLock, ModifyLockWith, TimersType, chans, hist
<1>7. CASE Publish(g)
  <2>1. pc' \in [Actors -> UserPCs \cup CheckPCs] BY <1>7, <1>0, PcSet DEF Publish, UserPCs
  <2>2. minMod' \in Nat BY <1>7, <1>0 DEF Publish, TimersType, Locs
  <2> QED BY <1>7, <2>1, <2>2 DEF Publish, TimersType, chans, hist
<1>8. CASE ModifyUnlock(g)
  <2> DEFINE r == Tm(g)
             n == [r EXCEPT !.seq = NextSeq(T(g)), !.astate = r.bits]
             l == [loc[g] EXCEPT !.ret = loc[g].ret \/ Squelched(T(g)),
                                 !.add = NeedsAdd(T(g), r), !.was = armed[T(g)],
                                 !.late = Underway(T(g), r.seq)]
  <2>1. /\ pc[g] # "idle"
        /\ SetTimer(T(g), n)
        /\ loc' = [loc EXCEPT ![g] = l]
    <3>1. pc[g] # "idle" BY <1>8 DEF ModifyUnlock
    <3>2. SetTimer(T(g), n) BY <1>8 DEF ModifyUnlock
    <3>3. loc' = [loc EXCEPT ![g] = l] BY <1>8, <1>0 DEF ModifyUnlock, TimersType
    <3> QED BY <3>1, <3>2, <3>3
  <2>2. T(g) \in Timers /\ r \in Settings BY <2>1, <1>0
  <2>3. NextSeq(T(g)) \in Nat BY <2>2 DEF Settings, NextSeq, Tm
  <2>4. n \in Settings BY <2>2, <2>3 DEF Settings
  <2>5. timer' \in [Timers -> Settings] BY <2>1, <2>2, <2>4, TimerSet
  <2>6. l \in Locs BY <1>0, <2>2 DEF Locs, TimersType, Underway, NeedsAdd, Squelched
  <2>7. loc' \in [Actors -> Locs] BY <2>1, <2>6, <1>0, LocSet
  <2>8. pc' \in [Actors -> UserPCs \cup CheckPCs]
    BY <1>8, <1>0, PcSet DEF ModifyUnlock, UserPCs
  <2> QED BY <1>8, <2>2, <2>5, <2>7, <2>8, <1>0 DEF ModifyUnlock, TimersType, ts, chans
<1> QED BY <1>1, <1>2, <1>3, <1>4, <1>5, <1>6, <1>7, <1>8

(* updateHeap keeps the types. *)
LEMMA UpdateHeapType ==
  ASSUME TimersType, TimersBits, NEW t \in DOMAIN heap, UpdateHeap(t)
  PROVE  /\ timer' \in [Timers -> Settings] /\ zombies' \in Int
         /\ DOMAIN heap' \subseteq Timers /\ \A u \in DOMAIN heap' : heap'[u] \in Nat \ {0}
         /\ minHeap' \in Nat /\ minMod' \in Nat
<1>1. t \in Timers /\ timer[t] \in Settings BY DEF TimersType
<1> DEFINE r == timer[t]
           gone == "zombie" \in r.bits
           b == r.bits \ {"modified"}
           n == IF gone THEN Removed(r) ELSE [r EXCEPT !.bits = b, !.astate = b]
           h == IF gone THEN Without(heap, t) ELSE With(heap, t, r.when)
<1>2. /\ SetTimer(t, n) /\ heap' = h /\ minHeap' = MinOf(h)
      /\ minMod' = IF h = << >> THEN 0 ELSE minMod
      /\ zombies' = zombies - IF gone THEN 1 ELSE 0
  BY DEF UpdateHeap
<1>3. n \in Settings
  <2>1. Removed(r) \in Settings BY <1>1, RemovedType
  <2>2. [r EXCEPT !.bits = b, !.astate = b] \in Settings BY <1>1 DEF Settings
  <2> QED BY <2>1, <2>2
<1>4. timer' \in [Timers -> Settings] BY <1>1, <1>2, <1>3, TimerSet
<1>5. ~gone => r.when \in Nat \ {0} BY <1>1 DEF TimersBits, BitsAt, Settings
<1>6. /\ DOMAIN h \subseteq Timers /\ \A u \in DOMAIN h : h[u] \in Nat \ {0}
      /\ MinOf(h) \in Nat
  BY <1>1, <1>5, HeapWithoutType, HeapWithType
<1> HIDE DEF h, n, gone
<1> QED BY <1>2, <1>4, <1>6 DEF TimersType

(* unlockAndRun keeps the types. *)
LEMMA UnlockAndRunType ==
  ASSUME TimersType, NEW a \in Actors, NEW t \in Timers, timer[t].when \in 1 .. now,
         NEW back \in Backs, back \in UserPCs \cup CheckPCs, UnlockAndRun(a, t, back)
  PROVE  /\ timer' \in [Timers -> Settings] /\ zombies' \in Int
         /\ DOMAIN heap' \subseteq Timers /\ \A u \in DOMAIN heap' : heap'[u] \in Nat \ {0}
         /\ minHeap' \in Nat /\ minMod' \in Nat /\ len' \in Nat
         /\ tsmu' \in Actors \cup {Free}
         /\ loc' \in [Actors -> Locs] /\ pc' \in [Actors -> UserPCs \cup CheckPCs]
         /\ armed' \in [Timers -> BOOLEAN]
<1>1. timer[t] \in Settings /\ loc[a] \in Locs BY DEF TimersType
<1> DEFINE r == [timer[t] EXCEPT !.when = Next1(t), !.sending =
                   @ + IF IsChan(t) /\ Period(t) = 0 THEN 1 ELSE 0]
           inHeap == "heaped" \in r.bits
           h == IF ~inHeap THEN heap
                ELSE IF r.when = 0 THEN Without(heap, t) ELSE With(heap, t, r.when)
           n == IF inHeap /\ r.when = 0 THEN Removed(r) ELSE r
           l == [loc[a] EXCEPT !.t = t, !.seq = r.seq, !.back = back]
<1>2. /\ SetTimer(t, n) /\ heap' = h
      /\ minHeap' = IF inHeap THEN MinOf(h) ELSE minHeap
      /\ minMod' = IF inHeap /\ h = << >> THEN 0 ELSE minMod
      /\ IF inHeap THEN tsmu' = Free /\ len' = Cardinality(DOMAIN h)
         ELSE UNCHANGED << tsmu, len >>
      /\ loc' = [loc EXCEPT ![a] = l]
      /\ To(a, IF IsChan(t) THEN "send" ELSE back)
      /\ armed' = [armed EXCEPT ![t] = @ /\ (IsChan(t) \/ Period(t) > 0)]
      /\ zombies' = zombies
  BY DEF UnlockAndRun, TimersType
<1>3. Next1(t) \in Nat BY NextDue
<1>4. r \in Settings
  <2> DEFINE k == timer[t].sending + IF IsChan(t) /\ Period(t) = 0 THEN 1 ELSE 0
  <2>1. k \in Int BY <1>1 DEF Settings
  <2>2. r = [timer[t] EXCEPT !.when = Next1(t), !.sending = k] OBVIOUS
  <2> HIDE DEF k, r
  <2> QED BY <2>1, <2>2, <1>1, <1>3 DEF Settings
<1>5. r.when = Next1(t) /\ r.seq \in Nat BY <1>1 DEF Settings
<1> HIDE DEF r
<1>6. Removed(r) \in Settings BY <1>4, RemovedType
<1>7. timer' \in [Timers -> Settings] BY <1>2, <1>4, <1>6, TimerSet
<1>8. /\ DOMAIN h \subseteq Timers /\ \A u \in DOMAIN h : h[u] \in Nat \ {0}
      /\ MinOf(h) \in Nat
  <2>1. CASE ~inHeap
    <3>1. \A u \in DOMAIN heap : heap[u] \in Nat \ {0} BY DEF TimersType
    <3>2. MinOf(heap) \in Nat BY <3>1, LeastEntry
    <3> QED BY <2>1, <3>1, <3>2 DEF TimersType
  <2>2. CASE inHeap /\ r.when = 0 BY <2>2, HeapWithoutType
  <2>3. CASE inHeap /\ r.when # 0 BY <2>3, <1>3, <1>5, HeapWithType
  <2> QED BY <2>1, <2>2, <2>3
<1>9. Cardinality(DOMAIN h) \in Nat
  BY <1>8, TimersAssumption, FS_Subset, FS_CardinalityType
<1>10. l \in Locs BY <1>1, <1>5 DEF Locs
<1>11. loc' \in [Actors -> Locs] BY <1>2, <1>10, LocSet
<1>12. pc' \in [Actors -> UserPCs \cup CheckPCs]
  <2>1. (IF IsChan(t) THEN "send" ELSE back) \in UserPCs \cup CheckPCs BY DEF UserPCs
  <2> QED BY <1>2, <2>1, PcSet
<1>13. armed' \in [Timers -> BOOLEAN] BY <1>2 DEF TimersType
<1> HIDE DEF h, n, l
<1> QED BY <1>2, <1>7, <1>8, <1>9, <1>11, <1>12, <1>13 DEF TimersType

(* ... those with the heap and the channel ... *)
LEMMA TypeHeapStep ==
  ASSUME TimersType, TimersPlace, TimersBits, TimersLocks, NEW g \in Users,
         \/ AddLock(g) \/ CleanHead(g) \/ CleanDone(g) \/ Insert(g)
         \/ MaybeRunChan(g) \/ Recv(g) \/ Block(g) \/ Unblock(g)
  PROVE  TimersType'
<1>0. /\ g \in Actors /\ loc[g] \in Locs
      /\ pc[g] # "idle" => T(g) \in Timers /\ loc[g].op \in Ops /\ Tm(g) \in Settings
  BY AtTimer DEF Actors
<1>1. CASE AddLock(g)
  <2>1. pc' \in [Actors -> UserPCs \cup CheckPCs] BY <1>1, <1>0, PcSet DEF AddLock, UserPCs
  <2> QED BY <1>1, <1>0, <2>1 DEF AddLock, TimersType, chans, hist
<1>2. CASE CleanHead(g)
  <2>1. PICK t \in DOMAIN heap : CleanTail(t) \/ UpdateHeap(t) BY <1>2 DEF CleanHead
  <2>2. CASE UpdateHeap(t)
    BY <1>2, <2>2, UpdateHeapType DEF CleanHead, TimersType, chans, hist
  <2>3. CASE CleanTail(t)
    <3>1. t \in Timers /\ timer[t] \in Settings BY DEF TimersType
    <3>2. timer' \in [Timers -> Settings] BY <2>3, <3>1, TimerSet, RemovedType DEF CleanTail
    <3>3. /\ DOMAIN heap' \subseteq Timers /\ \A u \in DOMAIN heap' : heap'[u] \in Nat \ {0}
      BY <2>3, HeapWithoutType DEF CleanTail
    <3>4. zombies' \in Int /\ UNCHANGED << minHeap, minMod >> BY <2>3 DEF CleanTail, TimersType
    <3> QED BY <1>2, <3>2, <3>3, <3>4 DEF CleanHead, TimersType, chans, hist
  <2> QED BY <2>1, <2>2, <2>3
<1>3. CASE CleanDone(g)
  <2>1. pc' \in [Actors -> UserPCs \cup CheckPCs] BY <1>3, <1>0, PcSet DEF CleanDone, UserPCs
  <2> QED BY <1>3, <2>1 DEF CleanDone, TimersType, ts, chans, hist
<1>4. CASE Insert(g)
  <2> DEFINE t == T(g)
             r == Tm(g)
             add == NeedsAdd(t, r)
             b == r.bits \cup {"heaped"}
             n == [r EXCEPT !.bits = b, !.astate = b]
             h == IF add THEN With(heap, t, r.when) ELSE heap
  <2>1. pc[g] # "idle" BY <1>4 DEF Insert, From
  <2>2. t \in Timers /\ r \in Settings BY <2>1, <1>0
  <2>3. /\ timer' = IF add THEN [timer EXCEPT ![t] = n] ELSE timer
        /\ heap' = h
        /\ minHeap' = IF add /\ t \in Heads(h) THEN MinOf(h) ELSE minHeap
        /\ len' = Cardinality(DOMAIN h)
        /\ chlock' = IF chlock[t] = g THEN [chlock EXCEPT ![t] = Free] ELSE chlock
    BY <1>4, <2>2 DEF Insert, TimersType, Tm
  <2>4. n \in Settings BY <2>2 DEF Settings, Bits
  <2>5. timer' \in [Timers -> Settings] BY <2>2, <2>3, <2>4 DEF TimersType
  <2>6. add => r.when \in Nat \ {0} BY <2>2 DEF NeedsAdd, Settings
  <2>7. /\ DOMAIN h \subseteq Timers /\ \A u \in DOMAIN h : h[u] \in Nat \ {0}
        /\ add => MinOf(h) \in Nat
    <3>1. CASE add BY <3>1, <2>2, <2>6, HeapWithType
    <3>2. CASE ~add BY <3>2 DEF TimersType
    <3> QED BY <3>1, <3>2
  <2>8. Cardinality(DOMAIN h) \in Nat
    BY <2>7, TimersAssumption, FS_Subset, FS_CardinalityType
  <2>9. pc' \in [Actors -> UserPCs \cup CheckPCs] BY <1>4, <1>0, PcSet DEF Insert, UserPCs
  <2>10. chlock' \in [Timers -> Actors \cup {Free}] BY <2>3, <2>2 DEF TimersType
  <2> HIDE DEF h, add, n
  <2> QED BY <1>4, <2>3, <2>5, <2>7, <2>8, <2>9, <2>10 DEF Insert, TimersType, hist
<1>5. CASE MaybeRunChan(g)
  <2> DEFINE back == IF loc[g].op = "poll" /\ pc[g] = "run" THEN "empty" ELSE "recv"
  <2>1. back \in Backs /\ back \in UserPCs BY DEF Backs, UserPCs
  <2>2. pc[g] # "idle" BY <1>5 DEF MaybeRunChan
  <2>3. CASE To(g, back) /\ UNCHANGED << timer, ts, loc, hist, thrown >>
    <3>1. pc' \in [Actors -> UserPCs \cup CheckPCs] BY <2>3, <2>1, <1>0, PcSet
    <3> QED BY <1>5, <2>3, <3>1 DEF MaybeRunChan, TimersType, ts, chans, hist
  <2>4. CASE Tm(g).when \in 1 .. now /\ UnlockAndRun(g, T(g), back)
    <3>1. T(g) \in Timers /\ timer[T(g)].when \in 1 .. now BY <2>2, <2>4, <1>0 DEF Tm
    <3> HIDE DEF back
    <3> QED BY <1>5, <2>1, <2>4, <3>1, <1>0, UnlockAndRunType
          DEF MaybeRunChan, TimersType, chans
  <2> QED BY <1>5, <2>3, <2>4 DEF MaybeRunChan
<1>6. CASE Recv(g)
  <2>1. pc[g] # "idle" BY <1>6 DEF Recv, From
  <2>2. T(g) \in Timers BY <2>1, <1>0
  <2>3. pc' \in [Actors -> UserPCs \cup CheckPCs] BY <1>6, <1>0, PcSet DEF Recv, UserPCs
  <2>4. /\ buf' = [buf EXCEPT ![T(g)] = 0] \/ UNCHANGED buf
        /\ chlock' = [chlock EXCEPT ![T(g)] = g] \/ UNCHANGED chlock
        /\ recvq' = [recvq EXCEPT ![T(g)] = Append(recvq[T(g)], g)] \/ UNCHANGED recvq
    BY <1>6, <2>2 DEF Recv, TimersType, chans
  <2>5. /\ buf' \in [Timers -> Nat] /\ chlock' \in [Timers -> Actors \cup {Free}]
        /\ recvq' \in [Timers -> Seq(Users)]
    <3>1. recvq[T(g)] \in Seq(Users) BY <2>2 DEF TimersType
    <3>2. Append(recvq[T(g)], g) \in Seq(Users) BY <3>1
    <3>3. recvq' \in [Timers -> Seq(Users)] BY <2>4, <2>2, <3>2 DEF TimersType
    <3>4. chlock' \in [Timers -> Actors \cup {Free}] BY <2>4, <2>2, <1>0 DEF TimersType
    <3>5. buf \in [Timers -> Nat] /\ (buf' = [buf EXCEPT ![T(g)] = 0] \/ buf' = buf)
      BY <2>4 DEF TimersType
    <3>6. buf' \in [Timers -> Nat] BY <3>5
    <3> QED BY <3>3, <3>4, <3>6
  <2>6. armed' \in [Timers -> BOOLEAN] BY <1>6, <2>2 DEF Recv, TimersType, hist, Receives
  <2>7. loc' \in [Actors -> Locs]
    <3>1. \A a \in Actors : /\ [loc[a] EXCEPT !.ret = TRUE] \in Locs
                            /\ [loc[a] EXCEPT !.was = FALSE] \in Locs
      <4>1. ASSUME NEW l \in Locs PROVE [l EXCEPT !.ret = TRUE] \in Locs BY DEF Locs
      <4>2. ASSUME NEW l \in Locs PROVE [l EXCEPT !.was = FALSE] \in Locs BY DEF Locs
      <4>3. \A a \in Actors : loc[a] \in Locs BY DEF TimersType
      <4> QED BY <4>1, <4>2, <4>3
    <3>2. \/ UNCHANGED loc
          \/ loc' = [a \in Actors |->
                       IF a = g THEN [loc[a] EXCEPT !.ret = TRUE]
                       ELSE IF pc[a] = "drain" /\ T(a) = T(g) THEN [loc[a] EXCEPT !.was = FALSE]
                       ELSE loc[a]]
      BY <1>6 DEF Recv
    <3>3. CASE UNCHANGED loc BY <3>3 DEF TimersType
    <3>4. CASE loc' = [a \in Actors |->
                       IF a = g THEN [loc[a] EXCEPT !.ret = TRUE]
                       ELSE IF pc[a] = "drain" /\ T(a) = T(g) THEN [loc[a] EXCEPT !.was = FALSE]
                       ELSE loc[a]]
      BY <3>4, <3>1 DEF TimersType
    <3> QED BY <3>2, <3>3, <3>4
  <2> QED BY <1>6, <2>3, <2>5, <2>6, <2>7 DEF Recv, TimersType, ts
<1>7. CASE Block(g)
  <2> DEFINE revive == "zombie" \in Tm(g).bits /\ Tm(g).when > 0
             r == [Tm(g) EXCEPT !.blocked = @ + 1,
                                !.bits = IF revive THEN @ \ {"zombie"} ELSE @]
             n == [r EXCEPT !.astate = r.bits]
  <2>1. pc[g] # "idle" BY <1>7 DEF Block, BlockWith, From
  <2>2. T(g) \in Timers /\ Tm(g) \in Settings BY <2>1, <1>0
  <2>3. r \in Settings
    <3> DEFINE k == Tm(g).blocked + 1
               b == IF revive THEN Tm(g).bits \ {"zombie"} ELSE Tm(g).bits
    <3>1. k \in Int /\ b \in SUBSET Bits BY <2>2 DEF Settings
    <3>2. r = [Tm(g) EXCEPT !.blocked = k, !.bits = b] OBVIOUS
    <3> HIDE DEF k, b, r
    <3> QED BY <3>1, <3>2, <2>2 DEF Settings
  <2>4. n \in Settings
    <3> HIDE DEF r
    <3> QED BY <2>3 DEF Settings
  <2>5. /\ SetTimer(T(g), n)
        /\ zombies' = zombies - IF revive THEN 1 ELSE 0
    BY <1>7 DEF Block, BlockWith
  <2>6. timer' \in [Timers -> Settings] BY <2>2, <2>4, <2>5, TimerSet
  <2>7. pc' \in [Actors -> UserPCs \cup CheckPCs]
    BY <1>7, <1>0, PcSet DEF Block, BlockWith, UserPCs
  <2>8. chlock' \in [Timers -> Actors \cup {Free}]
    BY <1>7, <2>2 DEF Block, BlockWith, TimersType
  <2>9. zombies' \in Int BY <2>5 DEF TimersType
  <2> QED BY <1>7, <2>6, <2>7, <2>8, <2>9 DEF Block, BlockWith, TimersType, hist
<1>8. CASE Unblock(g)
  <2> DEFINE last == Tm(g).blocked = 1 /\ "heaped" \in Tm(g).bits /\ "zombie" \notin Tm(g).bits
             b == IF last THEN Tm(g).bits \cup {"zombie"} ELSE Tm(g).bits
             n == [Tm(g) EXCEPT !.blocked = @ - 1, !.bits = b, !.astate = b]
  <2>1. pc[g] # "idle" BY <1>8 DEF Unblock, From
  <2>2. T(g) \in Timers /\ Tm(g) \in Settings BY <2>1, <1>0
  <2>3. n \in Settings
    <3> DEFINE k == Tm(g).blocked - 1
    <3>1. k \in Int /\ b \in SUBSET Bits BY <2>2 DEF Settings, Bits
    <3>2. n = [Tm(g) EXCEPT !.blocked = k, !.bits = b, !.astate = b] OBVIOUS
    <3> HIDE DEF k, b, n
    <3> QED BY <3>1, <3>2, <2>2 DEF Settings
  <2>4. /\ SetTimer(T(g), n)
        /\ zombies' = zombies + IF last THEN 1 ELSE 0
    BY <1>8 DEF Unblock
  <2>5. timer' \in [Timers -> Settings] BY <2>2, <2>3, <2>4, TimerSet
  <2>6. pc' \in [Actors -> UserPCs \cup CheckPCs] BY <1>8, <1>0, PcSet DEF Unblock, UserPCs
  <2>7. zombies' \in Int BY <2>4 DEF TimersType
  <2> QED BY <1>8, <2>5, <2>6, <2>7 DEF Unblock, TimersType, chans, hist
<1> QED BY <1>1, <1>2, <1>3, <1>4, <1>5, <1>6, <1>7, <1>8

(* ... those of sendTime, and those of a thread. *)
LEMMA TypeSendStep ==
  ASSUME TimersType, TimersPlace, TimersBits, TimersLocks, NEW a \in Actors,
         Send(a) \/ SendTime(a)
  PROVE  TimersType'
<1>0. /\ loc[a] \in Locs
      /\ pc[a] \in {"send", "sending"} => T(a) \in Timers /\ Tm(a) \in Settings
      /\ pc[a] \in {"send", "sending"} => loc[a].back \in UserPCs \cup CheckPCs
  BY AtTimer DEF Actors, TimersPlace, UserAt, CheckAt, UserPCs, CheckPCs
<1>1. CASE Send(a)
  <2> DEFINE k == Tm(a).sending - IF Period(T(a)) = 0 THEN 1 ELSE 0
             n == [Tm(a) EXCEPT !.sending = k]
  <2>1. T(a) \in Timers /\ Tm(a) \in Settings /\ loc[a].back \in UserPCs \cup CheckPCs
    BY <1>1, <1>0 DEF Send, SendWith, From
  <2>2. SetTimer(T(a), n) BY <1>1 DEF Send, SendWith
  <2>3. n \in Settings
    <3>1. k \in Int BY <2>1 DEF Settings
    <3> HIDE DEF k
    <3> QED BY <3>1, <2>1 DEF Settings
  <2>4. timer' \in [Timers -> Settings] BY <2>1, <2>2, <2>3, TimerSet
  <2>5. pc' \in [Actors -> UserPCs \cup CheckPCs]
    BY <1>1, <2>1, PcSet DEF Send, SendWith, UserPCs
  <2>6. sendLock' \in [Timers -> Actors \cup {Free}] BY <1>1, <2>1 DEF Send, SendWith, TimersType
  <2> QED BY <1>1, <2>4, <2>5, <2>6 DEF Send, SendWith, TimersType, ts, chans, hist
<1>2. CASE SendTime(a)
  <2>1. T(a) \in Timers /\ Tm(a) \in Settings /\ loc[a].back \in UserPCs \cup CheckPCs
    BY <1>2, <1>0 DEF SendTime, From
  <2>2. sendLock' \in [Timers -> Actors \cup {Free}] BY <1>2, <2>1 DEF SendTime, TimersType
  <2>3. CASE UNCHANGED << chans, hist >> /\ To(a, loc[a].back)
    <3>1. pc' \in [Actors -> UserPCs \cup CheckPCs] BY <2>3, <2>1, PcSet
    <3> QED BY <1>2, <2>2, <2>3, <3>1 DEF SendTime, TimersType, ts, chans, hist
  <2>4. CASE /\ buf' = [buf EXCEPT ![T(a)] = loc[a].seq] /\ UNCHANGED << recvq, chlock, hist >>
             /\ To(a, loc[a].back)
    <3>1. pc' \in [Actors -> UserPCs \cup CheckPCs] BY <2>4, <2>1, PcSet
    <3>2. buf' \in [Timers -> Nat] BY <2>4, <2>1, <1>0 DEF TimersType, Locs
    <3> QED BY <1>2, <2>2, <2>4, <3>1, <3>2 DEF SendTime, TimersType, ts, hist
  <2>5. CASE /\ recvq[T(a)] # << >>
             /\ recvq' = [recvq EXCEPT ![T(a)] = Tail(@)]
             /\ pc' = [pc EXCEPT ![a] = loc[a].back, ![Head(recvq[T(a)])] = "unblock"]
             /\ Receives(T(a), loc[a].seq)
             /\ UNCHANGED << buf, chlock >>
    <3>1. recvq[T(a)] \in Seq(Users) /\ Tail(recvq[T(a)]) \in Seq(Users)
      BY <2>5, <2>1 DEF TimersType
    <3>2. recvq' \in [Timers -> Seq(Users)] BY <2>5, <3>1 DEF TimersType
    <3>3. pc' \in [Actors -> UserPCs \cup CheckPCs]
      BY <2>5, <2>1 DEF TimersType, UserPCs
    <3>4. armed' \in [Timers -> BOOLEAN] BY <2>5 DEF Receives, TimersType
    <3> QED BY <1>2, <2>2, <2>5, <3>2, <3>3, <3>4 DEF SendTime, TimersType, ts, Receives
  <2> QED BY <1>2, <2>3, <2>4, <2>5 DEF SendTime
<1> QED BY <1>1, <1>2

(* ... those of a thread in check ... *)
LEMMA TypeCheckStep ==
  ASSUME TimersType, TimersPlace, TimersBits, TimersWake, NEW m \in Ms,
         \/ Check(m) \/ Adjust(m) \/ Clear(m) \/ Scan(m) \/ EndScan(m)
         \/ Run(m) \/ Relock(m) \/ UnlockTs(m)
  PROVE  TimersType'
<1>0. m \in Actors /\ loc[m] \in Locs /\ pc[m] \in CheckPCs
  BY AtTimer DEF Actors, TimersPlace, UserAt, CheckAt
<1>1. CASE Check(m)
  <2>1. [loc[m] EXCEPT !.when = now] \in Locs BY <1>0 DEF Locs, TimersType
  <2>2. loc' = [loc EXCEPT ![m] = [loc[m] EXCEPT !.when = now]]
    BY <1>1, <1>0 DEF Check, TimersType
  <2>3. loc' \in [Actors -> Locs] BY <2>1, <2>2, <1>0, LocSet
  <2>4. pc' \in [Actors -> UserPCs \cup CheckPCs] BY <1>1, <1>0, PcSet DEF Check, CheckPCs
  <2> QED BY <1>1, <1>0, <2>3, <2>4 DEF Check, TimersType, chans, hist
<1>2. CASE Adjust(m)
  <2> DEFINE back == IF pc[m] = "forced" THEN "unlockTs" ELSE "run"
  <2>1. [loc[m] EXCEPT !.back = back] \in Locs BY <1>0 DEF Locs, Backs
  <2>2. loc' = [loc EXCEPT ![m] = [loc[m] EXCEPT !.back = back]]
    BY <1>2, <1>0 DEF Adjust, TimersType
  <2>3. loc' \in [Actors -> Locs] BY <2>1, <2>2, <1>0, LocSet
  <2>4. pc' \in [Actors -> UserPCs \cup CheckPCs] BY <1>2, <1>0, PcSet DEF Adjust, CheckPCs
  <2>5. minHeap' \in Nat BY <1>2 DEF Adjust, TimersType, WakeTime
  <2> QED BY <1>2, <2>3, <2>4, <2>5 DEF Adjust, TimersType, chans, hist
<1>3. CASE Clear(m)
  <2>1. pc' \in [Actors -> UserPCs \cup CheckPCs] BY <1>3, <1>0, PcSet DEF Clear, CheckPCs
  <2> QED BY <1>3, <2>1 DEF Clear, TimersType, chans
<1>4. CASE Scan(m)
  <2>1. PICK t \in todo :
          LET r == timer[t]
              b == r.bits \ {"modified"}
          IN
          \/ UNCHANGED << timer, heap, zombies, thrown >>
          \/ /\ SetTimer(t, IF "zombie" \in b THEN Removed(r)
                            ELSE [r EXCEPT !.bits = b, !.astate = b])
             /\ heap' = IF "zombie" \in b THEN Without(heap, t) ELSE With(heap, t, r.when)
             /\ zombies' = zombies - IF "zombie" \in b THEN 1 ELSE 0
    BY <1>4 DEF Scan
  <2> DEFINE r == timer[t]
             b == r.bits \ {"modified"}
             n == IF "zombie" \in b THEN Removed(r) ELSE [r EXCEPT !.bits = b, !.astate = b]
  <2>2. t \in DOMAIN heap /\ t \in Timers /\ r \in Settings BY DEF TimersWake, TimersType
  <2>3. CASE UNCHANGED << timer, heap, zombies, thrown >>
    BY <1>4, <2>3 DEF Scan, TimersType, chans, hist
  <2>4. CASE /\ SetTimer(t, n)
             /\ heap' = IF "zombie" \in b THEN Without(heap, t) ELSE With(heap, t, r.when)
             /\ zombies' = zombies - IF "zombie" \in b THEN 1 ELSE 0
    <3>1. Removed(r) \in Settings BY <2>2, RemovedType
    <3>2. [r EXCEPT !.bits = b, !.astate = b] \in Settings BY <2>2 DEF Settings
    <3>3. timer' \in [Timers -> Settings] BY <2>4, <2>2, <3>1, <3>2, TimerSet
    <3>4. "zombie" \notin b => r.when \in Nat \ {0} BY <2>2 DEF TimersBits, BitsAt, Settings
    <3>5. DOMAIN heap' \subseteq Timers /\ \A u \in DOMAIN heap' : heap'[u] \in Nat \ {0}
      BY <2>4, <2>2, <3>4, HeapWithoutType, HeapWithType
    <3>6. zombies' \in Int BY <2>4 DEF TimersType
    <3> QED BY <1>4, <3>3, <3>5, <3>6 DEF Scan, TimersType, chans, hist
  <2> QED BY <2>1, <2>3, <2>4
<1>5. CASE EndScan(m)
  <2>1. loc[m].back \in CheckPCs BY <1>5 DEF EndScan, From, TimersPlace, UserAt, CheckAt, CheckPCs
  <2>2. pc' \in [Actors -> UserPCs \cup CheckPCs] BY <1>5, <2>1, <1>0, PcSet DEF EndScan
  <2>3. MinOf(heap) \in Nat
    <3>1. \A t \in DOMAIN heap : heap[t] \in Nat \ {0} BY DEF TimersType
    <3> QED BY <3>1, LeastEntry
  <2> QED BY <1>5, <2>2, <2>3 DEF EndScan, TimersType, chans, hist
<1>6. CASE Run(m)
  <2>1. CASE UnlockOrForce(m) /\ UNCHANGED << timer, ts, loc, hist, thrown >>
    <3>1. pc' \in [Actors -> UserPCs \cup CheckPCs]
      BY <2>1, <1>0, PcSet DEF UnlockOrForce, CheckPCs
    <3> QED BY <1>6, <2>1, <3>1 DEF Run, TimersType, ts, chans, hist
  <2>2. ASSUME NEW t \in Heads(heap), UpdateHeap(t), UNCHANGED << len, tsmu, pc, loc, hist, thrown >>
        PROVE  TimersType'
    <3>1. t \in DOMAIN heap BY DEF Heads
    <3> QED BY <1>6, <2>2, <3>1, UpdateHeapType DEF Run, TimersType, chans, hist
  <2>3. ASSUME NEW t \in Heads(heap), ~Dirty(timer[t].bits), timer[t].when <= loc[m].when,
               UnlockAndRun(m, t, "relock")
        PROVE  TimersType'
    <3>1. t \in DOMAIN heap /\ t \in Timers /\ timer[t] \in Settings BY DEF Heads, TimersType
    <3>2. timer[t].when > 0 BY <3>1, <2>3 DEF TimersBits, BitsAt, Dirty
    <3>3. loc[m].when <= now /\ loc[m].when \in Nat /\ now \in Nat
      BY <1>0 DEF TimersPlace, UserAt, CheckAt, TimersType, Locs
    <3>4. timer[t].when \in 1 .. now BY <3>1, <3>2, <3>3, <2>3 DEF Settings
    <3> QED BY <1>6, <1>0, <2>3, <3>1, <3>4, UnlockAndRunType
          DEF Run, TimersType, chans, Backs, CheckPCs
  <2> QED BY <1>6, <2>1, <2>2, <2>3 DEF Run
<1>7. CASE Relock(m)
  <2>1. pc' \in [Actors -> UserPCs \cup CheckPCs] BY <1>7, <1>0, PcSet DEF Relock, CheckPCs
  <2> QED BY <1>7, <1>0, <2>1 DEF Relock, TimersType, chans, hist
<1>8. CASE UnlockTs(m)
  <2>1. NoLoc \in Locs BY DEF Locs, NoLoc, Backs
  <2>2. loc' \in [Actors -> Locs] BY <1>8, <2>1, <1>0, LocSet DEF UnlockTs, Drop
  <2>3. pc' \in [Actors -> UserPCs \cup CheckPCs] BY <1>8, <1>0, PcSet DEF UnlockTs, CheckPCs
  <2> QED BY <1>8, <2>2, <2>3, HeapSize DEF UnlockTs, TimersType, chans, hist
<1> QED BY <1>1, <1>2, <1>3, <1>4, <1>5, <1>6, <1>7, <1>8

(* Every step keeps the types. *)
LEMMA TypeStep ==
  ASSUME TimersType, TimersPlace, TimersBits, TimersLocks, TimersWake, TimersNext
  PROVE  TimersType'
<1>1. CASE Tick BY <1>1 DEF Tick, TimersType, ts, chans, hist
<1> QED BY <1>1, StepCases, TypeUserStep, TypeHeapStep, TypeSendStep, TypeCheckStep

(* The places of the others: who does not move stays where it is. *)
LEMMA PlaceFrame ==
  ASSUME TimersType, TimersType', TimersPlace, NEW S \in SUBSET Actors, scene' = scene, now <= now',
         \A b \in Actors \ S :
           /\ pc'[b] = pc[b] /\ loc'[b].op = loc[b].op /\ loc'[b].t = loc[b].t
           /\ loc'[b].when = loc[b].when /\ loc'[b].back = loc[b].back
           /\ loc'[b].add = loc[b].add,
         \A b \in S : (b \in Users => UserAt(b)') /\ (b \in Ms => CheckAt(b)')
  PROVE  TimersPlace'
<1>1. ASSUME NEW g \in Users PROVE UserAt(g)'
  <2>1. CASE g \in S BY <2>1
  <2>2. CASE g \notin S
    <3>1. UserAt(g) /\ g \in Actors BY DEF TimersPlace, Actors
    <3> QED BY <2>2, <3>1 DEF UserAt, T, IsChan
  <2> QED BY <2>1, <2>2
<1>2. ASSUME NEW m \in Ms PROVE CheckAt(m)'
  <2>1. CASE m \in S BY <2>1
  <2>2. CASE m \notin S
    <3>1. CheckAt(m) /\ m \in Actors BY DEF TimersPlace, Actors
    <3>2. loc[m].when \in Nat /\ now \in Nat /\ now' \in Nat
      BY <3>1, AtTimer DEF TimersType, Locs
    <3> QED BY <2>2, <3>1, <3>2 DEF CheckAt, T, IsChan
  <2> QED BY <2>1, <2>2
<1> QED BY <1>1, <1>2 DEF TimersPlace

(* Only a moves, and keeps its locals, or gets new ones. *)
LEMMA PlaceMove ==
  ASSUME TimersType, TimersType', TimersPlace, scene' = scene, now' = now,
         NEW a \in Actors, NEW to, To(a, to),
         UNCHANGED loc \/ (\E l : loc' = [loc EXCEPT ![a] = l]),
         (a \in Users => UserAt(a)') /\ (a \in Ms => CheckAt(a)')
  PROVE  TimersPlace'
<1>1. \A b \in Actors \ {a} :
        /\ pc'[b] = pc[b] /\ loc'[b].op = loc[b].op /\ loc'[b].t = loc[b].t
        /\ loc'[b].when = loc[b].when /\ loc'[b].back = loc[b].back
        /\ loc'[b].add = loc[b].add
  BY DEF To, TimersType
<1>2. now <= now' BY DEF TimersType
<1>3. \A b \in {a} : (b \in Users => UserAt(b)') /\ (b \in Ms => CheckAt(b)') OBVIOUS
<1>4. {a} \in SUBSET Actors OBVIOUS
<1> QED BY <1>1, <1>2, <1>3, <1>4, PlaceFrame

(* Nobody moves. *)
LEMMA PlaceStill ==
  ASSUME TimersType, TimersType', TimersPlace, now <= now', UNCHANGED << scene, pc, loc >>
  PROVE  TimersPlace'
<1>1. {} \in SUBSET Actors OBVIOUS
<1>2. \A b \in {} : (b \in Users => UserAt(b)') /\ (b \in Ms => CheckAt(b)') OBVIOUS
<1> QED BY <1>1, <1>2, PlaceFrame

(* Goroutines go where they are said to. *)
LEMMA PlaceUserStep ==
  ASSUME TimersType, TimersType', TimersPlace, TimersLocks, NEW g \in Users,
         \/ Call(g) \/ Return(g) \/ LockSend(g) \/ Stop(g) \/ Drain(g)
         \/ ModifyLock(g) \/ Publish(g) \/ ModifyUnlock(g)
         \/ AddLock(g) \/ CleanDone(g) \/ Insert(g) \/ Block(g) \/ Unblock(g)
  PROVE  TimersPlace'
<1> USE DEF UserAt, UserPCs, Mods, Gets, Sets
<1>0. /\ g \in Actors /\ loc[g] \in Locs /\ g \notin Ms /\ UserAt(g)
      /\ pc[g] # "idle" => T(g) \in Timers /\ loc[g].op \in Ops /\ (loc[g].op \in Gets => IsChan(T(g)))
      /\ loc \in [Actors -> Locs] /\ pc \in [Actors -> UserPCs \cup CheckPCs]
  BY AtTimer, TimersAssumption DEF Actors, TimersPlace, TimersType
<1>1. CASE Call(g)
  <2>1. PICK c \in scene.calls, delay \in 0 .. MaxNow :
          /\ c[1] = g
          /\ loc' = [loc EXCEPT ![g] = [NoLoc EXCEPT !.op = c[2], !.t = c[3],
                                                     !.when = now + delay]]
          /\ To(g, IF c[2] \in {"recv", "poll"} THEN "run"
                   ELSE IF IsChan(c[3]) THEN "sendLock" ELSE "lock")
          /\ UNCHANGED << scene, now >>
    BY <1>1 DEF Call
  <2>2. c \in Users \X Ops \X Timers /\ c[2] \in Ops BY <2>1, SceneCall
  <2>3. c = << c[1], c[2], c[3] >> BY <2>2
  <2>4. loc'[g].op = c[2] /\ loc'[g].t = c[3] /\ loc'[g].when = now + delay
        /\ ~loc'[g].add
    BY <2>1, <1>0 DEF NoLoc
  <2>5. now + delay > 0 BY TimersAssumption DEF TimersType
  <2>6. pc'[g] = IF c[2] \in {"recv", "poll"} THEN "run"
                 ELSE IF IsChan(c[3]) THEN "sendLock" ELSE "lock"
    BY <2>1, <1>0 DEF To
  <2>7. << g, c[2], c[3] >> \in scene.calls BY <2>1, <2>3
  <2>8. UserAt(g)'
    BY <2>1, <2>2, <2>4, <2>5, <2>6, <2>7 DEF T, IsChan, Ops
  <2> QED BY <2>1, <2>8, <1>0, PlaceMove
<1>2. CASE Return(g)
  <2>1. UserAt(g)' BY <1>2, <1>0 DEF Return, To, Drop, NoLoc
  <2> QED BY <1>2, <2>1, <1>0, PlaceMove DEF Return, Drop
<1>3. CASE LockSend(g)
  <2>1. UserAt(g)' BY <1>3, <1>0 DEF LockSend, From, To, T, IsChan
  <2> QED BY <1>3, <2>1, <1>0, PlaceMove DEF LockSend
<1>4. CASE Stop(g)
  <2>1. UserAt(g)' BY <1>4, <1>0 DEF Stop, StopWith, StopResult, From, To, T, IsChan, Locs
  <2> QED BY <1>4, <2>1, <1>0, PlaceMove DEF Stop, StopWith, StopResult
<1>5. CASE Drain(g)
  <2>1. UserAt(g)' BY <1>5, <1>0 DEF Drain, From, To, T, IsChan, Locs
  <2> QED BY <1>5, <2>1, <1>0, PlaceMove DEF Drain
<1>6. CASE ModifyLock(g)
  <2>1. UserAt(g)' BY <1>6, <1>0 DEF ModifyLock, ModifyLockWith, From, To, T, IsChan, Locs
  <2> QED BY <1>6, <2>1, <1>0, PlaceMove DEF ModifyLock, ModifyLockWith
<1>7. CASE Publish(g)
  <2>1. UserAt(g)' BY <1>7, <1>0 DEF Publish, From, To, T, IsChan
  <2> QED BY <1>7, <2>1, <1>0, PlaceMove DEF Publish
<1>8. CASE ModifyUnlock(g)
  <2>1. UserAt(g)' BY <1>8, <1>0 DEF ModifyUnlock, To, T, IsChan, Locs
  <2> QED BY <1>8, <2>1, <1>0, PlaceMove DEF ModifyUnlock
<1>9. CASE AddLock(g)
  <2>1. UserAt(g)' BY <1>9, <1>0 DEF AddLock, From, To, T, IsChan
  <2> QED BY <1>9, <2>1, <1>0, PlaceMove DEF AddLock
<1>10. CASE CleanDone(g)
  <2>1. UserAt(g)' BY <1>10, <1>0 DEF CleanDone, From, To, T, IsChan
  <2> QED BY <1>10, <2>1, <1>0, PlaceMove DEF CleanDone
<1>11. CASE Insert(g)
  <2>1. pc[g] = "insert" /\ (chlock[T(g)] = g => loc[g].op = "recv")
    BY <1>11, <1>0 DEF Insert, From, TimersLocks, LocksAt, HoldsChan
  <2>2. UserAt(g)' BY <1>11, <2>1, <1>0 DEF Insert, From, To, T, IsChan
  <2> QED BY <1>11, <2>2, <1>0, PlaceMove DEF Insert
<1>12. CASE Block(g)
  <2>1. UserAt(g)' BY <1>12, <1>0 DEF Block, BlockWith, From, To, T, IsChan
  <2> QED BY <1>12, <2>1, <1>0, PlaceMove DEF Block, BlockWith
<1>13. CASE Unblock(g)
  <2>1. UserAt(g)' BY <1>13, <1>0 DEF Unblock, From, To, T, IsChan
  <2> QED BY <1>13, <2>1, <1>0, PlaceMove DEF Unblock
<1> QED BY <1>1, <1>2, <1>3, <1>4, <1>5, <1>6, <1>7, <1>8, <1>9, <1>10, <1>11, <1>12, <1>13

(* Everybody stays in place, at every step. *)
LEMMA PlaceRest ==
  ASSUME TimersType, TimersType', TimersPlace, TimersLocks, TimersWait, TimersBits, TimersNext
  PROVE  TimersPlace'
<1> USE DEF UserPCs, CheckPCs, Mods, Gets, Sets
<1>0. /\ \A g \in Users :
           /\ g \in Actors /\ loc[g] \in Locs /\ g \notin Ms /\ UserAt(g)
           /\ pc[g] # "idle" => T(g) \in Timers /\ loc[g].op \in Ops
           /\ pc[g] # "idle" /\ loc[g].op \in Gets => IsChan(T(g))
      /\ \A m \in Ms : m \in Actors /\ loc[m] \in Locs /\ m \notin Users /\ CheckAt(m)
      /\ loc \in [Actors -> Locs] /\ pc \in [Actors -> UserPCs \cup CheckPCs]
  BY AtTimer, TimersAssumption DEF Actors, TimersPlace, TimersType
<1>1. CASE Tick
  <2>1. UNCHANGED << scene, pc, loc >> /\ now <= now' BY <1>1 DEF Tick, TimersType
  <2> QED BY <2>1, PlaceStill
<1>2. ASSUME NEW g \in Users, CleanHead(g) PROVE TimersPlace'
  <2>1. UNCHANGED << scene, pc, loc >> /\ now <= now' BY <1>2 DEF CleanHead, TimersType
  <2> QED BY <2>1, PlaceStill
<1>3. ASSUME NEW a \in Actors, NEW t \in Timers, NEW back, UnlockAndRun(a, t, back),
             UNCHANGED << scene, now >>,
             \/ a \in Users /\ back \in {"empty", "recv"} /\ loc[a].op \in Gets /\ t = T(a)
                  /\ pc[a] # "idle"
             \/ a \in Ms /\ back = "relock"
      PROVE  TimersPlace'
  <2>1. \E l : loc' = [loc EXCEPT ![a] = l] BY <1>3 DEF UnlockAndRun
  <2>2. /\ loc'[a].t = t /\ loc'[a].back = back /\ loc'[a].op = loc[a].op
        /\ loc'[a].when = loc[a].when /\ loc'[a].add = loc[a].add
    BY <1>3, <1>0 DEF UnlockAndRun, Locs
  <2>3. pc'[a] = IF IsChan(t) THEN "send" ELSE back BY <1>3, <1>0 DEF UnlockAndRun, To
  <2>4. To(a, IF IsChan(t) THEN "send" ELSE back) BY <1>3 DEF UnlockAndRun
  <2>5. CASE a \in Users /\ back \in {"empty", "recv"} /\ loc[a].op \in Gets /\ t = T(a)
               /\ pc[a] # "idle"
    <3>1. UserAt(a)' BY <1>0, <1>3, <2>2, <2>3, <2>5 DEF UserAt, T, IsChan
    <3> QED BY <2>1, <2>4, <2>5, <3>1, <1>0, <1>3, PlaceMove
  <2>6. CASE a \in Ms /\ back = "relock"
    <3>1. CheckAt(a)' BY <1>0, <1>3, <2>2, <2>3, <2>6 DEF CheckAt, T, IsChan
    <3> QED BY <2>1, <2>4, <2>6, <3>1, <1>0, <1>3, PlaceMove
  <2> QED BY <1>3, <2>5, <2>6
<1>4. ASSUME NEW g \in Users, MaybeRunChan(g) PROVE TimersPlace'
  <2> DEFINE back == IF loc[g].op = "poll" /\ pc[g] = "run" THEN "empty" ELSE "recv"
  <2>1. pc[g] \in {"run", "empty"} /\ UNCHANGED << scene, now >> BY <1>4 DEF MaybeRunChan
  <2>2. UserAt(g) /\ T(g) \in Timers
    <3>1. pc[g] # "idle" BY <2>1
    <3>2. UserAt(g) BY <1>0
    <3>3. T(g) \in Timers BY <3>1, <1>0
    <3> QED BY <3>2, <3>3
  <2>2a. loc[g].op \in Gets BY <2>1, <2>2 DEF UserAt
  <2>3. CASE To(g, back) /\ UNCHANGED loc
    <3>1. UserAt(g)' BY <2>1, <2>2, <2>2a, <2>3, <1>0 DEF UserAt, To, T, IsChan
    <3> QED BY <2>1, <2>3, <3>1, <1>0, PlaceMove
  <2>4. CASE UnlockAndRun(g, T(g), back)
    BY <1>3, <2>1, <2>2, <2>2a, <2>4, <1>0
  <2> QED BY <1>4, <2>3, <2>4 DEF MaybeRunChan
<1>5. ASSUME NEW g \in Users, Recv(g) PROVE TimersPlace'
  <2>1. /\ pc[g] = "recv" /\ UNCHANGED << scene, now >>
        /\ \A b \in Actors : loc'[b].op = loc[b].op /\ loc'[b].t = loc[b].t
               /\ loc'[b].when = loc[b].when /\ loc'[b].back = loc[b].back
               /\ loc'[b].add = loc[b].add
    BY <1>5, <1>0 DEF Recv, From, Locs
  <2>2. To(g, "ret") \/ (To(g, "block") /\ loc[g].op = "recv")
    <3>1. \/ To(g, "ret")
          \/ To(g, "ret")
          \/ loc[g].op = "recv" /\ To(g, "block")
      BY <1>5, Zenon DEF Recv
    <3> QED BY <3>1, Zenon
  <2>3. UserAt(g)' BY <2>1, <2>2, <1>0 DEF UserAt, To, T, IsChan
  <2>4. \A b \in Actors \ {g} : pc'[b] = pc[b] BY <2>2, <1>0 DEF To
  <2>5. now <= now' BY <2>1 DEF TimersType
  <2>6. \A b \in {g} : (b \in Users => UserAt(b)') /\ (b \in Ms => CheckAt(b)')
    BY <2>3, <1>0
  <2>7. {g} \in SUBSET Actors BY <1>0
  <2> QED BY <2>1, <2>4, <2>5, <2>6, <2>7, PlaceFrame
<1>6. ASSUME NEW a \in Actors, Send(a) PROVE TimersPlace'
  <2>1. /\ pc[a] = "send" /\ UNCHANGED << scene, now, loc >>
        /\ To(a, IF loc[a].seq # Tm(a).seq THEN loc[a].back ELSE "sending")
    BY <1>6 DEF Send, SendWith, From
  <2>2. a \in Users => UserAt(a)' BY <2>1, <1>0 DEF UserAt, To, T, IsChan
  <2>3. a \in Ms => CheckAt(a)' BY <2>1, <1>0 DEF CheckAt, To, T, IsChan
  <2> QED BY <2>1, <2>2, <2>3, PlaceMove
<1>7. ASSUME NEW a \in Actors, SendTime(a) PROVE TimersPlace'
  <2>1. pc[a] = "sending" /\ UNCHANGED << scene, now, loc >> /\ T(a) \in Timers
    BY <1>7, AtTimer DEF SendTime, From
  <2>2. CASE To(a, loc[a].back)
    <3>1. a \in Users => UserAt(a)' BY <2>1, <2>2, <1>0 DEF UserAt, To, T, IsChan
    <3>2. a \in Ms => CheckAt(a)' BY <2>1, <2>2, <1>0 DEF CheckAt, To, T, IsChan
    <3> QED BY <2>1, <2>2, <3>1, <3>2, PlaceMove
  <2>3. CASE /\ recvq[T(a)] # << >> /\ chlock[T(a)] = Free
             /\ pc' = [pc EXCEPT ![a] = loc[a].back, ![Head(recvq[T(a)])] = "unblock"]
    <3>1. recvq[T(a)] \in Seq(Users) BY <2>1 DEF TimersType
    <3>2. PICK w \in Users : w = Head(recvq[T(a)]) /\ Occurs(w, recvq[T(a)])
      BY <3>1, <2>3, TailRest
    <3>3. InLine(w, T(a)) BY <3>2, <2>1 DEF TimersWait, LineAt
    <3>4. loc[w].op = "recv" /\ w # a /\ pc[w] # "idle" BY <3>3, <2>1 DEF InLine
    <3>5. pc'[a] = loc[a].back /\ pc'[w] = "unblock" BY <2>3, <3>4, <3>2, <1>0 DEF Actors
    <3>6a. UserAt(w) /\ w \in Actors BY <3>2, <1>0
    <3>6. UserAt(w)' 
      <4>1. pc'[w] = "unblock" /\ loc' = loc /\ scene' = scene BY <3>5, <2>1
      <4>2. << w, loc[w].op, T(w) >> \in scene.calls BY <3>6a, <3>4 DEF UserAt
      <4> QED BY <3>6a, <3>4, <4>1, <4>2 DEF UserAt, T, IsChan
    <3>7. a \in Users => UserAt(a)' BY <2>1, <3>5, <1>0 DEF UserAt, T, IsChan
    <3>8. a \in Ms => CheckAt(a)' BY <2>1, <3>5, <1>0 DEF CheckAt, T, IsChan
    <3>9. \A b \in Actors \ {a, w} : pc'[b] = pc[b] BY <2>3, <3>2, <1>0
    <3>10. now <= now' BY <2>1 DEF TimersType
    <3>11. {a, w} \in SUBSET Actors BY <3>2, <1>0
    <3>12. \A b \in {a, w} : (b \in Users => UserAt(b)') /\ (b \in Ms => CheckAt(b)')
      <4>1. w \notin Ms BY <3>2, <1>0
      <4> SUFFICES ASSUME NEW b \in {a, w}
                   PROVE  (b \in Users => UserAt(b)') /\ (b \in Ms => CheckAt(b)')
        OBVIOUS
      <4>2. CASE b = a BY <4>2, <3>7, <3>8
      <4>3. CASE b = w BY <4>3, <4>1, <3>6
      <4> QED BY <4>2, <4>3
    <3> QED BY <2>1, <3>9, <3>10, <3>11, <3>12, PlaceFrame
  <2> QED BY <1>7, <2>2, <2>3 DEF SendTime
<1>8. ASSUME NEW m \in Ms,
             \/ Check(m) \/ Adjust(m) \/ Clear(m) \/ EndScan(m) \/ Relock(m) \/ UnlockTs(m)
      PROVE  TimersPlace'
  <2> USE DEF CheckAt, From, To, T, IsChan
  <2>0. m \in Actors /\ m \notin Users /\ CheckAt(m) /\ loc[m] \in Locs /\ now \in Nat
    BY <1>0 DEF TimersType
  <2>1. CASE Check(m)
    <3>1. CheckAt(m)' BY <2>1, <2>0, <1>0 DEF Check, Locs
    <3> QED BY <2>1, <3>1, <2>0, PlaceMove DEF Check
  <2>2. CASE Adjust(m)
    <3>1. CheckAt(m)' BY <2>2, <2>0, <1>0 DEF Adjust, Locs
    <3> QED BY <2>2, <3>1, <2>0, PlaceMove DEF Adjust
  <2>3. CASE Clear(m)
    <3>1. CheckAt(m)' BY <2>3, <2>0, <1>0 DEF Clear
    <3> QED BY <2>3, <3>1, <2>0, PlaceMove DEF Clear
  <2>4. CASE EndScan(m)
    <3>1. CheckAt(m)' BY <2>4, <2>0, <1>0 DEF EndScan
    <3> QED BY <2>4, <3>1, <2>0, PlaceMove DEF EndScan
  <2>5. CASE Relock(m)
    <3>1. CheckAt(m)' BY <2>5, <2>0, <1>0 DEF Relock
    <3> QED BY <2>5, <3>1, <2>0, PlaceMove DEF Relock
  <2>6. CASE UnlockTs(m)
    <3>1. CheckAt(m)' BY <2>6, <2>0, <1>0 DEF UnlockTs, Drop, NoLoc
    <3> QED BY <2>6, <3>1, <2>0, PlaceMove DEF UnlockTs, Drop
  <2> QED BY <1>8, <2>1, <2>2, <2>3, <2>4, <2>5, <2>6
<1>9. ASSUME NEW m \in Ms, Scan(m) PROVE TimersPlace'
  <2>1. UNCHANGED << scene, pc, loc >> /\ now <= now' BY <1>9 DEF Scan, TimersType
  <2> QED BY <2>1, PlaceStill
<1>10. ASSUME NEW m \in Ms, Run(m) PROVE TimersPlace'
  <2>1. pc[m] = "run" /\ UNCHANGED << scene, now >> BY <1>10 DEF Run, From
  <2>2. CASE UnlockOrForce(m) /\ UNCHANGED loc
    <3>1. CheckAt(m)' BY <2>1, <2>2, <1>0 DEF UnlockOrForce, To, CheckAt
    <3> QED BY <2>1, <2>2, <3>1, <1>0, PlaceMove DEF UnlockOrForce
  <2>3. CASE UNCHANGED << pc, loc >>
    <3>1. now <= now' BY <2>1 DEF TimersType
    <3> QED BY <2>1, <2>3, <3>1, PlaceStill
  <2>4. ASSUME NEW t \in Heads(heap), UnlockAndRun(m, t, "relock") PROVE TimersPlace'
    <3>1. t \in Timers BY DEF Heads, TimersType
    <3> QED BY <1>3, <2>1, <2>4, <3>1, <1>0
  <2> QED BY <1>10, <2>2, <2>3, <2>4 DEF Run
<1> QED BY <1>1, <1>2, <1>4, <1>5, <1>6, <1>7, <1>8, <1>9, <1>10, StepCases, PlaceUserStep

(* A lock that a may take or release. *)
Handed(a, x, y) == y = x \/ (x \in {a, Free} /\ y \in {a, Free})

(* Only a takes and releases locks, and holds then what its place says. *)
LEMMA LocksFrame ==
  ASSUME TimersType, TimersType', TimersLocks, NEW a \in Actors, scene' = scene,
         \A b \in Actors \ {a} :
           /\ loc'[b].op = loc[b].op /\ loc'[b].t = loc[b].t
           /\ pc'[b] = pc[b] \/ (pc[b] = "parked" /\ pc'[b] = "unblock"),
         Handed(a, tsmu, tsmu'),
         \A t \in Timers : /\ Handed(a, mu[t], mu'[t]) /\ Handed(a, sendLock[t], sendLock'[t])
                           /\ Handed(a, chlock[t], chlock'[t]),
         LocksAt(a)'
  PROVE  TimersLocks'
<1> SUFFICES ASSUME NEW b \in Actors, b # a PROVE LocksAt(b)' BY DEF TimersLocks
<1>0. b # Free /\ a # Free BY TimersAssumption DEF Actors
<1>1. LocksAt(b) BY DEF TimersLocks
<1>2. HoldsTs(b)' <=> HoldsTs(b) BY DEF HoldsTs
<1>3. ASSUME NEW t \in Timers
      PROVE  /\ HoldsMu(b, t)' <=> HoldsMu(b, t)
             /\ HoldsSend(b, t)' <=> HoldsSend(b, t)
             /\ HoldsChan(b, t)' <=> HoldsChan(b, t)
  BY <1>3 DEF HoldsMu, HoldsSend, HoldsChan, T, IsChan, Mods
<1>4. tsmu' = b <=> tsmu = b BY <1>0 DEF Handed
<1>5. \A t \in Timers : /\ mu'[t] = b <=> mu[t] = b
                        /\ sendLock'[t] = b <=> sendLock[t] = b
                        /\ chlock'[t] = b <=> chlock[t] = b
  BY <1>0 DEF Handed
<1> QED BY <1>1, <1>2, <1>3, <1>4, <1>5 DEF LocksAt

(* The usual case: a moves, and may change its locals, but for op and t. *)
LEMMA LocksMove ==
  ASSUME TimersType, TimersType', TimersLocks, NEW a \in Actors, NEW to, To(a, to),
         scene' = scene,
         \A b \in Actors : loc'[b].op = loc[b].op /\ loc'[b].t = loc[b].t,
         Handed(a, tsmu, tsmu'),
         \A t \in Timers : /\ Handed(a, mu[t], mu'[t]) /\ Handed(a, sendLock[t], sendLock'[t])
                           /\ Handed(a, chlock[t], chlock'[t]),
         LocksAt(a)'
  PROVE  TimersLocks'
<1>1. \A b \in Actors \ {a} : pc'[b] = pc[b] BY DEF To, TimersType
<1> QED BY <1>1, LocksFrame

(* Goroutines hold the locks that they are said to. *)
LEMMA LocksUserStep ==
  ASSUME TimersType, TimersType', TimersPlace, TimersPlace', TimersLocks, NEW g \in Users,
         \/ Call(g) \/ Return(g) \/ LockSend(g) \/ Stop(g) \/ Drain(g)
         \/ ModifyLock(g) \/ Publish(g) \/ ModifyUnlock(g)
         \/ AddLock(g) \/ CleanDone(g) \/ Insert(g) \/ Recv(g) \/ Block(g) \/ Unblock(g)
  PROVE  TimersLocks'
<1> USE DEF Mods, Gets, Sets, Handed
<1>0. /\ g \in Actors /\ loc[g] \in Locs /\ g \notin Ms /\ g # Free /\ UserAt(g) /\ LocksAt(g)
      /\ pc[g] # "idle" => T(g) \in Timers /\ loc[g].op \in Ops /\ (loc[g].op \in Gets => IsChan(T(g)))
      /\ loc \in [Actors -> Locs] /\ pc \in [Actors -> UserPCs \cup CheckPCs]
      /\ \A t \in Timers : {mu[t], sendLock[t], chlock[t]} \subseteq Actors \cup {Free}
  BY AtTimer, TimersAssumption DEF Actors, TimersPlace, TimersType, TimersLocks
<1>0a. \A t \in Timers : sendLock[t] # Free => IsChan(t)
  BY <1>0 DEF TimersLocks, LocksAt, HoldsSend
<1>1. CASE Call(g)
  <2>1. pc[g] = "idle" /\ pc'[g] \in {"run", "sendLock", "lock"} /\ UNCHANGED << scene, mu, sendLock, tsmu, chlock >>
        /\ \A b \in Actors \ {g} : pc'[b] = pc[b] /\ loc'[b] = loc[b]
    BY <1>1, <1>0 DEF Call, From, To, ts, chans
  <2>2. pc'[g] = "lock" => ~IsChan(T(g))'
    <3>1. PICK c \in scene.calls, delay \in 0 .. MaxNow :
            /\ loc' = [loc EXCEPT ![g] = [NoLoc EXCEPT !.op = c[2], !.t = c[3],
                                                       !.when = now + delay]]
            /\ To(g, IF c[2] \in {"recv", "poll"} THEN "run"
                     ELSE IF IsChan(c[3]) THEN "sendLock" ELSE "lock")
      BY <1>1 DEF Call
    <3>2. loc'[g].t = c[3] BY <3>1, <1>0 DEF NoLoc
    <3>3. pc'[g] = IF c[2] \in {"recv", "poll"} THEN "run"
                   ELSE IF IsChan(c[3]) THEN "sendLock" ELSE "lock"
      BY <3>1, <1>0 DEF To
    <3> QED BY <2>1, <3>2, <3>3 DEF T, IsChan
  <2>3. LocksAt(g)' BY <2>1, <2>2, <1>0 DEF LocksAt, HoldsMu, HoldsSend, HoldsTs, HoldsChan
  <2> QED BY <2>1, <2>3, <1>0, LocksFrame
<1> DEFINE Same == \A b \in Actors : loc'[b].op = loc[b].op /\ loc'[b].t = loc[b].t
<1>2. CASE Return(g)
  <2>1. /\ pc[g] = "ret" /\ pc'[g] = "idle"
        /\ UNCHANGED << scene, mu, sendLock, tsmu, chlock >>
        /\ \A b \in Actors \ {g} : pc'[b] = pc[b] /\ loc'[b] = loc[b]
    BY <1>2, <1>0 DEF Return, From, To, Drop, ts, chans
  <2>2. LocksAt(g)' BY <2>1, <1>0 DEF LocksAt, HoldsMu, HoldsSend, HoldsTs, HoldsChan
  <2> QED BY <2>1, <2>2, <1>0, LocksFrame
<1>3. CASE LockSend(g)
  <2>0. /\ pc[g] = "sendLock" /\ pc'[g] = "lock" /\ IsChan(T(g)) /\ T(g) \in Timers
        /\ UNCHANGED << scene, mu, tsmu, chlock, loc >>
        /\ sendLock[T(g)] = Free /\ sendLock' = [sendLock EXCEPT ![T(g)] = g]
    BY <1>3, <1>0 DEF LockSend, From, To, ts, chans, UserAt
  <2>1a. \A t \in Timers : sendLock[t] # g BY <2>0, <1>0 DEF LocksAt, HoldsSend
  <2>1b. \A t \in Timers : sendLock'[t] = g <=> t = T(g) BY <2>0, <2>1a, <1>0 DEF TimersType
  <2>1. LocksAt(g)'
    BY <2>0, <2>1b, <1>0 DEF T, IsChan, LocksAt, HoldsMu, HoldsSend, HoldsTs, HoldsChan
  <2>2. \A t \in Timers : Handed(g, sendLock[t], sendLock'[t])
    BY <2>0, <1>0 DEF TimersType
  <2> QED BY <1>3, <2>0, <2>1, <2>2, <1>0, LocksMove DEF LockSend
<1>4. CASE Stop(g)
  <2>0. pc[g] = "lock" /\ T(g) \in Timers BY <1>4, <1>0 DEF Stop, StopWith, From
  <2>1. /\ Same /\ pc'[g] = (IF IsChan(T(g)) THEN "drain" ELSE "ret")
        /\ loc[g].op = "stop" /\ UNCHANGED << scene, mu, tsmu, chlock >>
        /\ sendLock' = [sendLock EXCEPT ![T(g)] = Free]
    BY <1>4, <1>0 DEF Stop, StopWith, StopResult, To, Locs, chans
  <2>2. sendLock[T(g)] \in {g, Free}
    BY <2>0, <1>0, <1>0a DEF LocksAt, HoldsSend
  <2>3. LocksAt(g)'
    BY <2>0, <2>1, <1>0 DEF T, IsChan, LocksAt, HoldsMu, HoldsSend, HoldsTs, HoldsChan, TimersType
  <2>4. \A t \in Timers : Handed(g, sendLock[t], sendLock'[t])
    BY <2>0, <2>1, <2>2, <1>0 DEF TimersType
  <2> QED BY <1>4, <2>1, <2>3, <2>4, <1>0, LocksMove DEF Stop, StopWith
<1>5. CASE Drain(g)
  <2>0. /\ pc[g] = "drain" /\ IsChan(T(g)) /\ T(g) \in Timers
        /\ UNCHANGED << scene, mu, tsmu, chlock >>
        /\ Same /\ pc'[g] = (IF loc[g].add THEN "add" ELSE "ret")
        /\ sendLock' = IF sendLock[T(g)] = g THEN [sendLock EXCEPT ![T(g)] = Free] ELSE sendLock
    BY <1>5, <1>0 DEF Drain, From, To, UserAt, Locs, ts
  <2>1a. \A t \in Timers : sendLock[t] = g => t = T(g) BY <2>0, <1>0 DEF LocksAt, HoldsSend
  <2>1b. \A t \in Timers : sendLock'[t] # g BY <2>0, <2>1a, <1>0 DEF TimersType
  <2>1c. loc[g].op # "recv" BY <2>0, <1>0 DEF UserAt
  <2>1. LocksAt(g)'
    BY <2>0, <2>1b, <2>1c, <1>0 DEF T, IsChan, LocksAt, HoldsMu, HoldsSend, HoldsTs, HoldsChan
  <2>2. \A t \in Timers : Handed(g, sendLock[t], sendLock'[t])
    BY <2>0, <1>0 DEF TimersType
  <2> QED BY <1>5, <2>0, <2>1, <2>2, <1>0, LocksMove DEF Drain
<1>6. CASE ModifyLock(g)
  <2>0. /\ pc[g] = "lock" /\ loc[g].op = "reset" /\ T(g) \in Timers
        /\ UNCHANGED << scene, sendLock, tsmu, chlock >>
        /\ Same /\ pc'[g] \in {"publish", "unlock"}
        /\ mu[T(g)] = Free /\ mu' = [mu EXCEPT ![T(g)] = g]
    BY <1>6, <1>0 DEF ModifyLock, ModifyLockWith, From, To, Locs, chans
  <2>1a. \A t \in Timers : mu'[t] = g <=> t = T(g)
    BY <2>0, <1>0 DEF LocksAt, HoldsMu, TimersType
  <2>1. LocksAt(g)'
    BY <2>0, <2>1a, <1>0 DEF T, IsChan, LocksAt, HoldsMu, HoldsSend, HoldsTs, HoldsChan
  <2>2. \A t \in Timers : Handed(g, mu[t], mu'[t]) BY <2>0, <1>0 DEF TimersType
  <2>3. \E to : To(g, to) BY <1>6 DEF ModifyLock, ModifyLockWith
  <2> QED BY <2>0, <2>1, <2>2, <2>3, <1>0, LocksMove
<1>7. CASE Publish(g)
  <2>0. /\ pc[g] = "publish" /\ pc'[g] = "published"
        /\ UNCHANGED << scene, sendLock, mu, tsmu, chlock, loc >>
    BY <1>7, <1>0 DEF Publish, From, To, chans
  <2>1. LocksAt(g)' BY <2>0, <1>0 DEF T, IsChan, LocksAt, HoldsMu, HoldsSend, HoldsTs, HoldsChan
  <2> QED BY <1>7, <2>0, <2>1, <1>0, LocksMove DEF Publish
<1>8. CASE ModifyUnlock(g)
  <2>0. /\ pc[g] \in {"unlock", "published"} /\ T(g) \in Timers
        /\ UNCHANGED << scene, sendLock, tsmu, chlock >>
        /\ Same
        /\ pc'[g] \in {"drain", "add", "ret"} /\ (IsChan(T(g)) <=> pc'[g] = "drain")
        /\ mu' = [mu EXCEPT ![T(g)] = Free]
    BY <1>8, <1>0 DEF ModifyUnlock, To, Locs, ts, chans
  <2>1a. mu[T(g)] = g /\ loc[g].op = "reset" BY <2>0, <1>0 DEF LocksAt, HoldsMu, UserAt
  <2>1b. \A t \in Timers : mu'[t] # g
    BY <2>0, <1>0 DEF LocksAt, HoldsMu, TimersType
  <2>1. LocksAt(g)'
    BY <2>0, <2>1a, <2>1b, <1>0 DEF T, IsChan, LocksAt, HoldsMu, HoldsSend, HoldsTs, HoldsChan
  <2>2. \A t \in Timers : Handed(g, mu[t], mu'[t]) BY <2>0, <2>1a, <1>0 DEF TimersType
  <2>3. \E to : To(g, to) BY <1>8 DEF ModifyUnlock
  <2> QED BY <2>0, <2>1, <2>2, <2>3, <1>0, LocksMove
<1>9. CASE AddLock(g)
  <2>0. /\ pc[g] = "add" /\ pc'[g] = "clean"
        /\ UNCHANGED << scene, sendLock, mu, chlock, loc >> /\ tsmu = Free /\ tsmu' = g
    BY <1>9, <1>0 DEF AddLock, From, To, chans
  <2>1. LocksAt(g)' BY <2>0, <1>0 DEF T, IsChan, LocksAt, HoldsMu, HoldsSend, HoldsTs, HoldsChan
  <2> QED BY <1>9, <2>0, <2>1, <1>0, LocksMove DEF AddLock
<1>10. CASE CleanDone(g)
  <2>0. /\ pc[g] = "clean" /\ pc'[g] = "insert"
        /\ UNCHANGED << scene, sendLock, mu, tsmu, chlock, loc >>
    BY <1>10, <1>0 DEF CleanDone, From, To, chans, ts
  <2>1. LocksAt(g)' BY <2>0, <1>0 DEF T, IsChan, LocksAt, HoldsMu, HoldsSend, HoldsTs, HoldsChan
  <2> QED BY <1>10, <2>0, <2>1, <1>0, LocksMove DEF CleanDone
<1>11. CASE Insert(g)
  <2>0. /\ pc[g] = "insert" /\ pc'[g] \in {"parked", "ret"} /\ T(g) \in Timers
        /\ UNCHANGED << scene, sendLock, mu, loc >> /\ tsmu' = Free
        /\ chlock' = IF chlock[T(g)] = g THEN [chlock EXCEPT ![T(g)] = Free] ELSE chlock
    BY <1>11, <1>0 DEF Insert, From, To
  <2>1a. tsmu = g BY <2>0, <1>0 DEF LocksAt, HoldsTs
  <2>1b. \A t \in Timers : chlock[t] = g => t = T(g) BY <2>0, <1>0 DEF LocksAt, HoldsChan
  <2>1c. \A t \in Timers : chlock'[t] # g BY <2>0, <2>1b, <1>0 DEF TimersType
  <2>1. LocksAt(g)'
    BY <2>0, <2>1c, <1>0 DEF T, IsChan, LocksAt, HoldsMu, HoldsSend, HoldsTs, HoldsChan
  <2>2. \A t \in Timers : Handed(g, chlock[t], chlock'[t]) BY <2>0, <1>0 DEF TimersType
  <2> QED BY <1>11, <2>0, <2>1, <2>1a, <2>2, <1>0, LocksMove DEF Insert
<1>12. CASE Recv(g)
  <2>1a. pc[g] = "recv" /\ UNCHANGED << scene, sendLock, mu, tsmu >> /\ T(g) \in Timers
    BY <1>12, <1>0 DEF Recv, From, ts
  <2>1b. Same BY <1>12, <1>0 DEF Recv, Locs
  <2>1. /\ pc[g] = "recv" /\ UNCHANGED << scene, sendLock, mu, tsmu >> /\ Same
        /\ T(g) \in Timers
    BY <2>1a, <2>1b
  <2>2. CASE To(g, "ret") /\ UNCHANGED chlock
    <3>1. LocksAt(g)'
      BY <2>1, <2>2, <1>0 DEF To, T, IsChan, LocksAt, HoldsMu, HoldsSend, HoldsTs, HoldsChan
    <3> QED BY <2>1, <2>2, <3>1, <1>0, LocksMove
  <2>3. CASE /\ loc[g].op = "recv" /\ chlock[T(g)] = Free /\ To(g, "block")
             /\ chlock' = [chlock EXCEPT ![T(g)] = g]
    <3>1. \A t \in Timers : chlock'[t] = g <=> t = T(g)
      BY <2>1, <2>3, <1>0 DEF LocksAt, HoldsChan, TimersType
    <3>2. LocksAt(g)'
      BY <2>1, <2>3, <3>1, <1>0 DEF To, T, IsChan, LocksAt, HoldsMu, HoldsSend, HoldsTs, HoldsChan
    <3>3. \A t \in Timers : Handed(g, chlock[t], chlock'[t]) BY <2>1, <2>3, <1>0 DEF TimersType
    <3> QED BY <2>1, <2>3, <3>2, <3>3, <1>0, LocksMove
  <2> QED BY <1>12, <2>2, <2>3, Zenon DEF Recv, chans
<1>13. CASE Block(g)
  <2> DEFINE add == pc'[g] = "add"
  <2>0. /\ pc[g] = "block" /\ T(g) \in Timers /\ loc[g].op = "recv"
        /\ pc'[g] \in {"add", "parked"}
        /\ UNCHANGED << scene, sendLock, mu, tsmu, loc >>
        /\ chlock' = IF pc'[g] = "add" THEN chlock ELSE [chlock EXCEPT ![T(g)] = Free]
    BY <1>13, <1>0 DEF Block, BlockWith, From, To, UserAt
  <2>1b. \A t \in Timers : chlock[t] = g <=> t = T(g) BY <2>0, <1>0 DEF LocksAt, HoldsChan
  <2>1c. \A t \in Timers : chlock'[t] = g <=> pc'[g] = "add" /\ t = T(g)
    BY <2>0, <2>1b, <1>0 DEF TimersType
  <2>1. LocksAt(g)'
    BY <2>0, <2>1c, <1>0 DEF T, IsChan, LocksAt, HoldsMu, HoldsSend, HoldsTs, HoldsChan
  <2>2. \A t \in Timers : Handed(g, chlock[t], chlock'[t]) BY <2>0, <2>1b, <1>0 DEF TimersType
  <2>3. \E to : To(g, to) BY <1>13 DEF Block, BlockWith
  <2> QED BY <2>0, <2>1, <2>2, <2>3, <1>0, LocksMove
<1>14. CASE Unblock(g)
  <2>0. /\ pc[g] = "unblock" /\ pc'[g] = "ret"
        /\ UNCHANGED << scene, sendLock, mu, tsmu, chlock, loc >>
    BY <1>14, <1>0 DEF Unblock, From, To, chans
  <2>1. LocksAt(g)' BY <2>0, <1>0 DEF T, IsChan, LocksAt, HoldsMu, HoldsSend, HoldsTs, HoldsChan
  <2> QED BY <1>14, <2>0, <2>1, <1>0, LocksMove DEF Unblock
<1> QED BY <1>1, <1>2, <1>3, <1>4, <1>5, <1>6, <1>7, <1>8, <1>9, <1>10, <1>11, <1>12, <1>13, <1>14

(* SetTimer gives one timer new settings. *)
LEMMA BecomesThis ==
  ASSUME TimersType, NEW t \in Timers, NEW r, SetTimer(t, r)
  PROVE  /\ timer'[t] = r /\ \A u \in Timers \ {t} : timer'[u] = timer[u]
         /\ timer[t] \in Settings
  BY DEF TimersType, SetTimer

(* Send alters nothing but sending; sendTime moves one goroutine on at most. *)
LEMMA SendSame ==
  ASSUME TimersType, TimersPlace, NEW a \in Actors, Send(a)
  PROVE  /\ T(a) \in Timers /\ \A u \in Timers \ {T(a)} : timer'[u] = timer[u]
         /\ LET k == Tm(a).sending - IF Period(T(a)) = 0 THEN 1 ELSE 0
            IN  timer'[T(a)] = [Tm(a) EXCEPT !.sending = k] /\ timer'[T(a)].sending = k
         /\ \A u \in Timers :
              /\ timer'[u].when = timer[u].when /\ timer'[u].bits = timer[u].bits
              /\ timer'[u].astate = timer[u].astate /\ timer'[u].seq = timer[u].seq
              /\ timer'[u].blocked = timer[u].blocked
<1> DEFINE k == Tm(a).sending - IF Period(T(a)) = 0 THEN 1 ELSE 0
           n == [Tm(a) EXCEPT !.sending = k]
<1>0. T(a) \in Timers BY AtTimer DEF Send, SendWith, From
<1>1. SetTimer(T(a), n) BY DEF Send, SendWith
<1>2. timer'[T(a)] = n /\ \A u \in Timers \ {T(a)} : timer'[u] = timer[u]
  <2> HIDE DEF n
  <2> QED BY <1>0, <1>1, BecomesThis
<1>3. /\ n.when = Tm(a).when /\ n.bits = Tm(a).bits /\ n.astate = Tm(a).astate
      /\ n.seq = Tm(a).seq /\ n.blocked = Tm(a).blocked /\ n.sending = k
  <2> HIDE DEF k
  <2>1. Tm(a) \in Settings BY <1>0 DEF Tm, TimersType
  <2> QED BY <2>1 DEF Settings
<1>4. timer'[T(a)] = [Tm(a) EXCEPT !.sending = k] /\ timer'[T(a)].sending = k
  BY <1>2, <1>3
<1> HIDE DEF n, k
<1>5. \A u \in Timers : /\ timer'[u].when = timer[u].when /\ timer'[u].bits = timer[u].bits
                        /\ timer'[u].astate = timer[u].astate /\ timer'[u].seq = timer[u].seq
                        /\ timer'[u].blocked = timer[u].blocked
  BY <1>2, <1>3 DEF Tm
<1> QED BY <1>0, <1>2, <1>4, <1>5 DEF k

SendWakes(a) ==
  /\ pc'[a] = loc[a].back
  /\ \A b \in Actors \ {a} : pc'[b] = pc[b] \/ (pc[b] = "parked" /\ pc'[b] = "unblock")

(* sendTime moves its goroutine, and at most the first in the line of receivers. *)
LEMMA SendTimeWakes ==
  ASSUME TimersType, TimersPlace, TimersLocks, TimersWait, NEW a \in Actors, SendTime(a)
  PROVE  SendWakes(a)
<1> DEFINE t == T(a)
<1>1. pc[a] = "sending" BY DEF SendTime, From
<1>2. t \in Timers BY <1>1, AtTimer
<1>3. CASE To(a, loc[a].back) BY <1>3 DEF To, TimersType, SendWakes
<1>4. CASE /\ recvq[t] # << >> /\ chlock[t] = Free
           /\ pc' = [pc EXCEPT ![a] = loc[a].back, ![Head(recvq[t])] = "unblock"]
  <2>1. recvq[t] \in Seq(Users) BY <1>2 DEF TimersType
  <2>2. PICK w \in Users : w = Head(recvq[t]) /\ Occurs(w, recvq[t])
    BY <2>1, <1>4, TailRest
  <2>3. InLine(w, t) BY <2>2, <1>2 DEF TimersWait, LineAt
  <2>4. pc[w] = "parked"
    <3>1. chlock[t] # w /\ w \in Actors BY <1>4, <2>2, TimersAssumption DEF Actors
    <3>2. ~HoldsChan(w, t) BY <3>1, <1>2 DEF TimersLocks, LocksAt
    <3> QED BY <2>2, <2>3, <3>2 DEF InLine, HoldsChan
  <2>5. w \in Actors /\ w # a BY <1>1, <2>4 DEF Actors
  <2> QED BY <1>4, <2>2, <2>4, <2>5 DEF SendWakes, TimersType
<1> QED BY <1>3, <1>4 DEF SendTime

(* Locks are held as places say, after every step. *)
LEMMA LocksRest ==
  ASSUME TimersType, TimersType', TimersPlace, TimersPlace', TimersLocks, TimersBits, TimersWait,
         TimersNext
  PROVE  TimersLocks'
<1> USE DEF Mods, Handed
<1>0. /\ \A a \in Actors :
           /\ loc[a] \in Locs /\ a # Free /\ LocksAt(a)
           /\ pc[a] \in {"send", "sending"} => T(a) \in Timers /\ IsChan(T(a))
      /\ \A g \in Users : g \in Actors /\ g \notin Ms /\ UserAt(g)
      /\ \A m \in Ms : m \in Actors /\ m \notin Users /\ CheckAt(m)
      /\ loc \in [Actors -> Locs] /\ pc \in [Actors -> UserPCs \cup CheckPCs]
  <2>1. \A a \in Actors : pc[a] \in {"send", "sending"} => T(a) \in Timers /\ IsChan(T(a))
    <3> SUFFICES ASSUME NEW a \in Actors, pc[a] \in {"send", "sending"}
                 PROVE  T(a) \in Timers /\ IsChan(T(a))
      OBVIOUS
    <3>1. T(a) \in Timers BY AtTimer
    <3>2. CASE a \in Users BY <3>2, AtTimer, SceneCall DEF TimersPlace, UserAt, Gets
    <3>3. CASE a \in Ms BY <3>1, <3>3 DEF TimersPlace, CheckAt
    <3> QED BY <3>1, <3>2, <3>3 DEF Actors
  <2> QED BY <2>1, TimersAssumption DEF Actors, TimersPlace, TimersType, TimersLocks
<1> DEFINE SameLocks == UNCHANGED << scene, mu, sendLock, tsmu, chlock >>
<1>1. CASE SameLocks /\ UNCHANGED << pc, loc >>
  BY <1>1 DEF TimersLocks, LocksAt, HoldsMu, HoldsSend, HoldsTs, HoldsChan, T, IsChan
<1>2. ASSUME NEW a \in Actors, NEW t \in Timers, NEW back, UnlockAndRun(a, t, back),
             UNCHANGED << scene, mu, sendLock, chlock >>,
             \/ a \in Users /\ back \in {"empty", "recv"} /\ pc[a] \in {"run", "empty"}
                  /\ "heaped" \notin timer[t].bits
             \/ a \in Ms /\ back = "relock" /\ pc[a] = "run" /\ "heaped" \in timer[t].bits
      PROVE  TimersLocks'
  <2>1. pc'[a] \in {"send", back} BY <1>2, <1>0 DEF UnlockAndRun, To
  <2>2. /\ \A b \in Actors \ {a} : loc'[b] = loc[b] /\ pc'[b] = pc[b]
        /\ loc'[a].op = loc[a].op
    BY <1>2, <1>0 DEF UnlockAndRun, To, Locs
  <2>3. tsmu' = IF "heaped" \in timer[t].bits THEN Free ELSE tsmu
    <3>1. ASSUME NEW w, NEW k
          PROVE  [timer[t] EXCEPT !.when = w, !.sending = @ + k].bits = timer[t].bits
      <4>1. timer[t] \in Settings BY DEF TimersType
      <4> QED BY <4>1 DEF Settings
    <3> QED BY <1>2, <3>1 DEF UnlockAndRun
  <2>4. a \in Ms => tsmu = a BY <1>0, <1>2 DEF LocksAt, HoldsTs
  <2>5. \A u \in Timers : mu[u] # a /\ sendLock[u] # a /\ chlock[u] # a
    BY <1>0, <1>2 DEF LocksAt, HoldsMu, HoldsSend, HoldsChan
  <2>6. \A u \in Timers : ~HoldsMu(a, u)' /\ ~HoldsSend(a, u)' /\ ~HoldsChan(a, u)'
    BY <1>2, <2>1 DEF HoldsMu, HoldsSend, HoldsChan
  <2>7. ~HoldsTs(a)' BY <1>2, <2>1, <1>0 DEF HoldsTs
  <2>8. tsmu' # a BY <1>0, <1>2, <2>3 DEF LocksAt, HoldsTs
  <2>9. LocksAt(a)' BY <1>2, <2>5, <2>6, <2>7, <2>8 DEF LocksAt
  <2> QED BY <1>2, <2>2, <2>3, <2>4, <2>9, <1>0, LocksFrame
<1>3. ASSUME NEW g \in Users, MaybeRunChan(g) PROVE TimersLocks'
  <2> DEFINE back == IF loc[g].op = "poll" /\ pc[g] = "run" THEN "empty" ELSE "recv"
  <2>1. /\ pc[g] \in {"run", "empty"} /\ UNCHANGED << scene, mu, sendLock, chlock >>
        /\ T(g) \in Timers
    BY <1>3, AtTimer, <1>0 DEF MaybeRunChan, chans
  <2>2. CASE To(g, back) /\ UNCHANGED << tsmu, loc >>
    <3>1. pc'[g] \in {"empty", "recv"} BY <2>2, <1>0 DEF To
    <3>2. LocksAt(g)'
      BY <2>1, <2>2, <3>1, <1>0 DEF LocksAt, HoldsMu, HoldsSend, HoldsTs, HoldsChan
    <3> QED BY <2>1, <2>2, <3>2, <1>0, LocksMove
  <2>3. CASE UnlockAndRun(g, T(g), back) /\ mu[T(g)] = Free /\ "heaped" \notin Tm(g).astate
    <3>1. "heaped" \notin timer[T(g)].bits BY <2>1, <2>3 DEF TimersBits, BitsAt, Tm
    <3> QED BY <1>2, <2>1, <2>3, <3>1, <1>0
  <2> QED BY <1>3, <2>2, <2>3 DEF MaybeRunChan, ts
<1>4. ASSUME NEW a \in Actors, Send(a) PROVE TimersLocks'
  <2> DEFINE stale == loc[a].seq # Tm(a).seq
             t == T(a)
  <2>1. /\ pc[a] = "send" /\ UNCHANGED << scene, mu, tsmu, chlock, loc >> /\ sendLock[t] = Free
        /\ To(a, IF stale THEN loc[a].back ELSE "sending")
        /\ sendLock' = IF stale THEN sendLock ELSE [sendLock EXCEPT ![t] = a]
    BY <1>4 DEF Send, SendWith, From, ts, chans
  <2>2. t \in Timers /\ IsChan(t) BY <1>0, <2>1
  <2>3. \A u \in Timers : mu[u] # a /\ sendLock[u] # a /\ chlock[u] # a
    BY <1>0, <2>1 DEF LocksAt, HoldsMu, HoldsSend, HoldsChan
  <2>4. tsmu # a BY <1>0, <2>1 DEF LocksAt, HoldsTs
  <2>5. loc[a].back \in {"empty", "recv", "relock"}
    BY <1>0, <2>1 DEF Actors, UserAt, CheckAt
  <2>6. pc'[a] = IF stale THEN loc[a].back ELSE "sending" BY <2>1, <1>0 DEF To
  <2>7. \A u \in Timers : sendLock'[u] = a <=> ~stale /\ u = t
    BY <2>1, <2>2, <2>3 DEF TimersType
  <2>8. \A u \in Timers : Handed(a, sendLock[u], sendLock'[u])
    BY <2>1, <2>2 DEF TimersType
  <2>9. \A u \in Timers : /\ ~HoldsMu(a, u)' /\ ~HoldsChan(a, u)'
                          /\ HoldsSend(a, u)' <=> ~stale /\ u = t
    <3>1. CASE stale
      <4>1. pc'[a] \in {"empty", "recv", "relock"} BY <3>1, <2>5, <2>6
      <4> QED BY <3>1, <4>1 DEF HoldsMu, HoldsChan, HoldsSend
    <3>2. CASE ~stale
      <4>1. pc'[a] = "sending" /\ T(a)' = t /\ IsChan(t)' BY <3>2, <2>6, <2>1, <2>2 DEF T, IsChan
      <4> QED BY <3>2, <4>1 DEF HoldsMu, HoldsChan, HoldsSend
    <3> QED BY <3>1, <3>2
  <2>10. ~HoldsTs(a)' BY <2>5, <2>6 DEF HoldsTs
  <2>11. LocksAt(a)' BY <2>1, <2>3, <2>4, <2>7, <2>9, <2>10 DEF LocksAt
  <2> QED BY <2>1, <2>8, <2>11, LocksMove
<1>5. ASSUME NEW a \in Actors, SendTime(a) PROVE TimersLocks'
  <2> DEFINE t == T(a)
  <2>1. /\ pc[a] = "sending" /\ UNCHANGED << scene, mu, tsmu, chlock, loc >>
        /\ sendLock' = [sendLock EXCEPT ![t] = Free]
    BY <1>5 DEF SendTime, From, ts, chans
  <2>2. t \in Timers /\ IsChan(t) BY <1>0, <2>1
  <2>3. \A u \in Timers : mu[u] # a /\ chlock[u] # a /\ (sendLock[u] = a <=> u = t)
    <3>1. \A u \in Timers : HoldsSend(a, u) <=> u = t BY <2>1, <2>2 DEF HoldsSend
    <3> QED BY <1>0, <2>1, <3>1 DEF LocksAt, HoldsMu, HoldsChan
  <2>4. tsmu # a BY <1>0, <2>1 DEF LocksAt, HoldsTs
  <2>5. loc[a].back \in {"empty", "recv", "relock"}
    BY <1>0, <2>1 DEF Actors, UserAt, CheckAt
  <2>6. SendWakes(a) BY <1>5, SendTimeWakes
  <2>7. \A u \in Timers : sendLock'[u] # a BY <2>1, <2>2, <2>3, <1>0 DEF TimersType
  <2>8. \A u \in Timers : Handed(a, sendLock[u], sendLock'[u])
    BY <2>1, <2>2, <2>3 DEF TimersType
  <2>9. \A u \in Timers : ~HoldsMu(a, u)' /\ ~HoldsChan(a, u)' /\ ~HoldsSend(a, u)'
    BY <2>5, <2>6 DEF HoldsMu, HoldsChan, HoldsSend, SendWakes
  <2>10. ~HoldsTs(a)' BY <2>5, <2>6 DEF HoldsTs, SendWakes
  <2>11. LocksAt(a)' BY <2>1, <2>3, <2>4, <2>7, <2>9, <2>10 DEF LocksAt
  <2> QED BY <2>1, <2>6, <2>8, <2>11, LocksFrame DEF SendWakes
<1>6. ASSUME NEW m \in Ms, NEW to, To(m, to), UNCHANGED << scene, mu, sendLock, chlock >>,
             \A b \in Actors : loc'[b].op = loc[b].op /\ loc'[b].t = loc[b].t,
             pc[m] \notin {"lock", "sending"} \cup Mods, to \notin {"lock", "sending"} \cup Mods,
             pc[m] # "drain", to # "drain",
             Handed(m, tsmu, tsmu'), tsmu' = m <=> HoldsTs(m)'
      PROVE  TimersLocks'
  <2>1. pc'[m] = to BY <1>6, <1>0 DEF To
  <2>2. \A u \in Timers : mu[u] # m /\ sendLock[u] # m /\ chlock[u] # m
    BY <1>6, <1>0 DEF LocksAt, HoldsMu, HoldsSend, HoldsChan
  <2>3. \A u \in Timers : ~HoldsMu(m, u)' /\ ~HoldsSend(m, u)' /\ ~HoldsChan(m, u)'
    BY <1>6, <1>0, <2>1 DEF HoldsMu, HoldsSend, HoldsChan
  <2>4. LocksAt(m)' BY <1>6, <2>2, <2>3 DEF LocksAt
  <2> QED BY <1>6, <2>4, <1>0, LocksMove
<1>7. ASSUME NEW m \in Ms,
             Check(m) \/ Adjust(m) \/ Clear(m) \/ EndScan(m) \/ Relock(m) \/ UnlockTs(m)
      PROVE  TimersLocks'
  <2>0. m \in Actors /\ m \notin Users /\ CheckAt(m) /\ m # Free BY <1>0
  <2>1. CASE Check(m)
    <3>1. /\ pc[m] = "idle" /\ To(m, "adjust") /\ pc'[m] = "adjust"
          /\ \A b \in Actors : loc'[b].op = loc[b].op /\ loc'[b].t = loc[b].t
          /\ tsmu = Free /\ tsmu' = m /\ UNCHANGED << scene, mu, sendLock, chlock >>
      BY <2>1, <1>0 DEF Check, From, To, Locs, chans
    <3> QED BY <3>1, <2>0, <1>6 DEF HoldsTs
  <2>2. CASE Adjust(m)
    <3>1. /\ pc[m] \in {"adjust", "forced"} /\ pc'[m] \in {"clear", "run"}
          /\ \A b \in Actors : loc'[b].op = loc[b].op /\ loc'[b].t = loc[b].t
          /\ UNCHANGED << scene, mu, sendLock, tsmu, chlock >>
      BY <2>2, <1>0 DEF Adjust, To, Locs, chans
    <3>2. To(m, pc'[m]) BY <2>2, <1>0 DEF Adjust, To
    <3>3. tsmu = m BY <3>1, <1>0 DEF LocksAt, HoldsTs
    <3> QED BY <3>1, <3>2, <3>3, <2>0, <1>6 DEF HoldsTs
  <2>3. CASE Clear(m)
    <3>1. /\ pc[m] = "clear" /\ pc'[m] = "scan" /\ To(m, "scan")
          /\ UNCHANGED << scene, mu, sendLock, tsmu, chlock, loc >>
      BY <2>3, <1>0 DEF Clear, From, To, chans
    <3>3. tsmu = m BY <3>1, <1>0 DEF LocksAt, HoldsTs
    <3> QED BY <3>1, <3>3, <2>0, <1>6 DEF HoldsTs
  <2>4. CASE EndScan(m)
    <3>1. /\ pc[m] = "scan" /\ pc'[m] \in {"run", "unlockTs"} /\ To(m, pc'[m])
          /\ UNCHANGED << scene, mu, sendLock, tsmu, chlock, loc >>
      BY <2>4, <2>0, <1>0 DEF EndScan, From, To, chans, CheckAt
    <3>3. tsmu = m BY <3>1, <1>0 DEF LocksAt, HoldsTs
    <3> QED BY <3>1, <3>3, <2>0, <1>6 DEF HoldsTs
  <2>5. CASE Relock(m)
    <3>1. /\ pc[m] = "relock" /\ pc'[m] = "run" /\ To(m, "run")
          /\ UNCHANGED << scene, mu, sendLock, chlock, loc >> /\ tsmu = Free /\ tsmu' = m
      BY <2>5, <1>0 DEF Relock, From, To, chans
    <3> QED BY <3>1, <2>0, <1>6 DEF HoldsTs
  <2>6. CASE UnlockTs(m)
    <3>1. /\ pc[m] = "unlockTs" /\ pc'[m] = "idle" /\ tsmu' = Free
          /\ UNCHANGED << scene, mu, sendLock, chlock >>
          /\ \A b \in Actors \ {m} : loc'[b] = loc[b] /\ pc'[b] = pc[b]
      BY <2>6, <1>0 DEF UnlockTs, From, To, Drop, chans
    <3>2. tsmu = m BY <3>1, <1>0 DEF LocksAt, HoldsTs
    <3>3. \A u \in Timers : mu[u] # m /\ sendLock[u] # m /\ chlock[u] # m
      BY <3>1, <1>0 DEF LocksAt, HoldsMu, HoldsSend, HoldsChan
    <3>4. \A u \in Timers : ~HoldsMu(m, u)' /\ ~HoldsSend(m, u)' /\ ~HoldsChan(m, u)'
      BY <3>1 DEF HoldsMu, HoldsSend, HoldsChan
    <3>5. LocksAt(m)' BY <3>1, <3>3, <3>4, <2>0 DEF LocksAt, HoldsTs
    <3> QED BY <3>1, <3>2, <3>5, <2>0, LocksFrame
  <2> QED BY <1>7, <2>1, <2>2, <2>3, <2>4, <2>5, <2>6
<1>8. ASSUME NEW m \in Ms, Run(m) PROVE TimersLocks'
  <2>0. /\ pc[m] = "run" /\ tsmu = m /\ UNCHANGED << scene, mu, sendLock, chlock >>
        /\ m \in Actors /\ m \notin Users
    BY <1>8, <1>0 DEF Run, From, chans, LocksAt, HoldsTs
  <2>1. CASE UnlockOrForce(m) /\ UNCHANGED << loc, tsmu >>
    <3>1. pc'[m] \in {"forced", "unlockTs"} /\ To(m, pc'[m])
      BY <2>1, <2>0, <1>0 DEF UnlockOrForce, To
    <3> QED BY <2>0, <2>1, <3>1, <1>6 DEF HoldsTs
  <2>2. CASE UNCHANGED << tsmu, pc, loc >> BY <1>1, <2>0, <2>2
  <2>3. ASSUME NEW t \in Heads(heap), UnlockAndRun(m, t, "relock") PROVE TimersLocks'
    <3>1. t \in Timers /\ "heaped" \in timer[t].bits BY DEF Heads, TimersType, TimersBits, BitsAt
    <3> QED BY <1>2, <2>0, <2>3, <3>1
  <2> QED BY <1>8, <2>1, <2>2, <2>3 DEF Run, ts
<1>9. CASE Tick BY <1>1, <1>9 DEF Tick, ts, chans
<1>10. ASSUME NEW a \in Actors, CleanHead(a) \/ Scan(a) PROVE TimersLocks'
  BY <1>1, <1>10 DEF CleanHead, Scan, chans
<1>11. \A a \in Actors : a \in Users \/ a \in Ms BY DEF Actors
<1> QED BY <1>0, <1>3, <1>4, <1>5, <1>7, <1>8, <1>9, <1>10, StepCases, LocksUserStep

(* A step of a that alters t, whose mutex is free or a's own, and nothing of other timers. *)
Alters(a, t) ==
  /\ a \in Actors /\ t \in Timers /\ mu[t] \in {a, Free}
  /\ \A u \in Timers \ {t} : /\ timer'[u] = timer[u] /\ mu'[u] = mu[u]
                             /\ u \in DOMAIN heap' <=> u \in DOMAIN heap
                             /\ u \in DOMAIN heap => heap'[u] = heap[u]
  /\ \A b \in Actors \ {a} : loc'[b] = loc[b] /\ pc'[b] = pc[b]
  /\ UNCHANGED << scene, now, buf, recvq >>

Becomes(t, w, s, b, as, k, n) ==
  timer'[t] = [when |-> w, seq |-> s, bits |-> b, astate |-> as, blocked |-> k, sending |-> n]

(* What the steps that alter a timer do. *)
LEMMA StopEffect ==
  ASSUME TimersType, TimersPlace, NEW g \in Users, Stop(g)
  PROVE  LET t == T(g)
             r == timer[t]
             b == IF "heaped" \in r.bits THEN r.bits \cup {"modified", "zombie"} ELSE r.bits
         IN
         /\ Alters(g, t) /\ pc[g] = "lock" /\ loc[g].op = "stop" /\ mu[t] = Free
         /\ r \in Settings
         /\ Becomes(t, 0, NextSeq(t), b, b, r.blocked, r.sending)
         /\ zombies' = zombies + IF "zombie" \in b \ r.bits THEN 1 ELSE 0
         /\ loc'[g] = [loc[g] EXCEPT !.ret = r.when > 0 \/ Squelched(t), !.was = armed[t],
                                     !.late = Underway(t, r.seq)]
         /\ pc'[g] = (IF IsChan(t) THEN "drain" ELSE "ret")
         /\ armed' = [armed EXCEPT ![t] = FALSE]
         /\ UNCHANGED << mu, heap, minHeap, minMod, tsmu, todo, missed, thrown, chlock >>
<1> DEFINE t == T(g)
           r == timer[t]
           b == IF "heaped" \in r.bits THEN r.bits \cup {"modified", "zombie"} ELSE r.bits
           n == [r EXCEPT !.when = 0, !.seq = NextSeq(t), !.bits = b, !.astate = b]
           pending == r.when > 0 \/ Squelched(t)
<1>0. g \in Actors /\ loc[g] \in Locs /\ (pc[g] # "idle" => t \in Timers)
  BY AtTimer DEF Actors
<1>1. pc[g] = "lock" /\ loc[g].op = "stop" /\ mu[t] = Free /\ t \in Timers
  BY <1>0 DEF Stop, StopWith, From
<1>2. SetTimer(t, n) BY DEF Stop, StopWith, Tm
<1>3. timer'[t] = n /\ r \in Settings /\ \A u \in Timers \ {t} : timer'[u] = timer[u]
  BY <1>1, <1>2, BecomesThis
<1>4. Becomes(t, 0, NextSeq(t), b, b, r.blocked, r.sending)
  BY <1>3 DEF Becomes, Settings
<1>5. /\ UNCHANGED << mu, heap, minHeap, minMod, tsmu, todo, missed, thrown, chlock >>
      /\ UNCHANGED << scene, now, buf, recvq >>
      /\ armed' = [armed EXCEPT ![t] = FALSE]
      /\ zombies' = zombies + IF "zombie" \in b \ r.bits THEN 1 ELSE 0
  BY DEF Stop, StopWith, chans, Tm
<1>6. /\ loc'[g] = [loc[g] EXCEPT !.ret = pending, !.was = armed[t], !.late = Underway(t, r.seq)]
      /\ \A a \in Actors \ {g} : loc'[a] = loc[a]
  BY <1>0 DEF Stop, StopWith, StopResult, TimersType, Tm
<1>7. /\ pc'[g] = (IF IsChan(t) THEN "drain" ELSE "ret")
      /\ \A a \in Actors \ {g} : pc'[a] = pc[a]
  BY <1>0 DEF Stop, StopWith, To, TimersType
<1>8. Alters(g, t) BY <1>0, <1>1, <1>3, <1>5, <1>6, <1>7 DEF Alters
<1> QED BY <1>1, <1>3, <1>4, <1>5, <1>6, <1>7, <1>8

(* modify takes t.mu, and marks an entry of the heap as modified. *)
LEMMA ModifyLockEffect ==
  ASSUME TimersType, TimersPlace, NEW g \in Users, ModifyLock(g)
  PROVE  LET t == T(g)
             r == timer[t]
             b == IF "heaped" \in r.bits THEN (r.bits \cup {"modified"}) \ {"zombie"} ELSE r.bits
             wake == "heaped" \in r.bits /\ (minMod = 0 \/ loc[g].when < minMod)
         IN
         /\ Alters(g, t) /\ pc[g] = "lock" /\ loc[g].op = "reset" /\ mu[t] = Free
         /\ r \in Settings
         /\ Becomes(t, loc[g].when, r.seq, b, IF wake THEN b ELSE r.astate, r.blocked, r.sending)
         /\ zombies' = zombies - IF "zombie" \in r.bits THEN 1 ELSE 0
         /\ loc'[g] = [loc[g] EXCEPT !.ret = r.when > 0]
         /\ pc'[g] = (IF wake THEN "publish" ELSE "unlock")
         /\ mu' = [mu EXCEPT ![t] = g]
         /\ UNCHANGED << heap, minHeap, minMod, tsmu, todo, missed, thrown, chlock, armed,
                         sendLock >>
<1> DEFINE t == T(g)
           r == timer[t]
           b == IF "heaped" \in r.bits THEN (r.bits \cup {"modified"}) \ {"zombie"} ELSE r.bits
           wake == "heaped" \in r.bits /\ (minMod = 0 \/ loc[g].when < minMod)
           n == [r EXCEPT !.when = loc[g].when, !.bits = b, !.astate = IF wake THEN b ELSE r.astate]
<1>0. g \in Actors /\ loc[g] \in Locs /\ (pc[g] # "idle" => t \in Timers)
  BY AtTimer DEF Actors
<1>1. pc[g] = "lock" /\ loc[g].op = "reset" /\ mu[t] = Free /\ t \in Timers
  BY <1>0 DEF ModifyLock, ModifyLockWith, From
<1>2. SetTimer(t, n) BY DEF ModifyLock, ModifyLockWith, Tm
<1>3. timer'[t] = n /\ r \in Settings /\ \A u \in Timers \ {t} : timer'[u] = timer[u]
  BY <1>1, <1>2, BecomesThis
<1>4. Becomes(t, loc[g].when, r.seq, b, IF wake THEN b ELSE r.astate, r.blocked, r.sending)
  BY <1>3 DEF Becomes, Settings
<1>5. /\ UNCHANGED << heap, minHeap, minMod, tsmu, todo, missed, thrown, chlock, armed, sendLock >>
      /\ UNCHANGED << scene, now, buf, recvq >>
      /\ mu' = [mu EXCEPT ![t] = g]
      /\ zombies' = zombies - IF "zombie" \in r.bits THEN 1 ELSE 0
  BY DEF ModifyLock, ModifyLockWith, chans, hist, Tm
<1>6. /\ loc'[g] = [loc[g] EXCEPT !.ret = r.when > 0]
      /\ \A a \in Actors \ {g} : loc'[a] = loc[a]
  BY <1>0 DEF ModifyLock, ModifyLockWith, TimersType, Tm
<1>7. /\ pc'[g] = (IF wake THEN "publish" ELSE "unlock")
      /\ \A a \in Actors \ {g} : pc'[a] = pc[a]
  BY <1>0 DEF ModifyLock, ModifyLockWith, To, TimersType, Tm
<1>8. \A u \in Timers \ {t} : mu'[u] = mu[u] BY <1>1, <1>5 DEF TimersType
<1>9. Alters(g, t) BY <1>0, <1>1, <1>3, <1>5, <1>6, <1>7, <1>8 DEF Alters
<1> QED BY <1>1, <1>3, <1>4, <1>5, <1>6, <1>7, <1>9

(* modify starts a new generation, and releases t.mu. *)
LEMMA ModifyUnlockEffect ==
  ASSUME TimersType, TimersPlace, TimersLocks, NEW g \in Users, ModifyUnlock(g)
  PROVE  LET t == T(g)
             r == timer[t]
         IN
         /\ Alters(g, t) /\ pc[g] \in {"unlock", "published"} /\ loc[g].op = "reset" /\ mu[t] = g
         /\ r \in Settings
         /\ Becomes(t, r.when, NextSeq(t), r.bits, r.bits, r.blocked, r.sending)
         /\ loc'[g] = [loc[g] EXCEPT !.ret = loc[g].ret \/ Squelched(t), !.add = NeedsAdd(t, r),
                                     !.was = armed[t], !.late = Underway(t, r.seq)]
         /\ pc'[g] = (IF IsChan(t) THEN "drain" ELSE IF NeedsAdd(t, r) THEN "add" ELSE "ret")
         /\ mu' = [mu EXCEPT ![t] = Free]
         /\ armed' = [armed EXCEPT ![t] = TRUE]
         /\ UNCHANGED << heap, minHeap, minMod, tsmu, zombies, todo, missed, thrown, chlock,
                         sendLock >>
<1> DEFINE t == T(g)
           r == timer[t]
           n == [r EXCEPT !.seq = NextSeq(t), !.astate = r.bits]
           l == [loc[g] EXCEPT !.ret = loc[g].ret \/ Squelched(t), !.add = NeedsAdd(t, r),
                               !.was = armed[t], !.late = Underway(t, r.seq)]
<1>0. g \in Actors /\ loc[g] \in Locs /\ (pc[g] # "idle" => t \in Timers) /\ g # Free
  BY AtTimer, TimersAssumption DEF Actors
<1>1. pc[g] \in {"unlock", "published"} /\ t \in Timers BY <1>0 DEF ModifyUnlock
<1>1a. loc[g].op = "reset" /\ mu[t] = g
  BY <1>0, <1>1 DEF TimersPlace, UserAt, TimersLocks, LocksAt, HoldsMu, Mods
<1>2. SetTimer(t, n) BY DEF ModifyUnlock, Tm
<1>3. timer'[t] = n /\ r \in Settings /\ \A u \in Timers \ {t} : timer'[u] = timer[u]
  BY <1>1, <1>2, BecomesThis
<1>4. Becomes(t, r.when, NextSeq(t), r.bits, r.bits, r.blocked, r.sending)
  BY <1>3 DEF Becomes, Settings
<1>5. /\ UNCHANGED << heap, minHeap, minMod, tsmu, zombies, todo, missed, thrown, chlock, sendLock >>
      /\ UNCHANGED << scene, now, buf, recvq >>
      /\ mu' = [mu EXCEPT ![t] = Free] /\ armed' = [armed EXCEPT ![t] = TRUE]
  BY DEF ModifyUnlock, ts, chans
<1>6. /\ loc'[g] = l
      /\ \A a \in Actors \ {g} : loc'[a] = loc[a]
  <2>1. loc' = [loc EXCEPT ![g] = l] BY <1>0 DEF ModifyUnlock, TimersType, Tm
  <2> HIDE DEF l
  <2> QED BY <2>1, <1>0 DEF TimersType
<1>7. /\ pc'[g] = (IF IsChan(t) THEN "drain" ELSE IF NeedsAdd(t, r) THEN "add" ELSE "ret")
      /\ \A a \in Actors \ {g} : pc'[a] = pc[a]
  BY <1>0 DEF ModifyUnlock, To, TimersType, Tm
<1>8. \A u \in Timers \ {t} : mu'[u] = mu[u] BY <1>1, <1>5 DEF TimersType
<1>9. Alters(g, t) BY <1>0, <1>1, <1>1a, <1>3, <1>5, <1>6, <1>7, <1>8 DEF Alters
<1> QED BY <1>1, <1>1a, <1>3, <1>4, <1>5, <1>6, <1>7, <1>9

HeapDrops(t) ==
  DOMAIN heap' = DOMAIN heap \ {t} /\ \A u \in DOMAIN heap \ {t} : heap'[u] = heap[u]

HeapPuts(t, w) ==
  /\ DOMAIN heap' = DOMAIN heap \cup {t} /\ heap'[t] = w
  /\ \A u \in DOMAIN heap \ {t} : heap'[u] = heap[u]

(* What it means for the heap that an entry is taken out, or set. *)
LEMMA HeapChange ==
  ASSUME TimersType, NEW t
  PROVE  /\ heap' = Without(heap, t) => HeapDrops(t)
         /\ \A w : heap' = With(heap, t, w) => HeapPuts(t, w)
<1>0. DOMAIN heap \subseteq Timers /\ \A u \in DOMAIN heap : heap[u] \in Nat \ {0}
  BY DEF TimersType
<1>1. ASSUME heap' = Without(heap, t) PROVE HeapDrops(t)
  <2>1. /\ DOMAIN Without(heap, t) = DOMAIN heap \ {t}
        /\ \A u \in DOMAIN heap \ {t} : Without(heap, t)[u] = heap[u]
    BY <1>0, HeapWithout
  <2> QED BY <1>1, <2>1 DEF HeapDrops
<1>2. ASSUME NEW w, heap' = With(heap, t, w) PROVE HeapPuts(t, w)
  BY <1>0, <1>2, HeapWith DEF HeapPuts
<1>3. heap' = Without(heap, t) => HeapDrops(t) BY <1>1
<1> QED BY <1>2, <1>3

(* An entry of the heap is brought up to date. *)
Cleaned(t) ==
  LET r == timer[t]
      gone == "zombie" \in r.bits
      b == r.bits \ {"modified"}
  IN
  /\ t \in DOMAIN heap /\ t \in Timers /\ mu[t] = Free /\ r \in Settings
  /\ \A u \in Timers \ {t} : timer'[u] = timer[u]
  /\ gone => Becomes(t, r.when, r.seq, {}, {}, r.blocked, r.sending) /\ HeapDrops(t)
  /\ ~gone => Becomes(t, r.when, r.seq, b, b, r.blocked, r.sending) /\ HeapPuts(t, r.when)
  /\ zombies' = zombies - IF gone THEN 1 ELSE 0

(* cleanHead, adjust and run each bring an entry up to date in the same way. *)
LEMMA CleanedThis ==
  ASSUME TimersType, NEW t \in DOMAIN heap, mu[t] = Free,
         LET r == timer[t]
             b == r.bits \ {"modified"}
         IN
         /\ SetTimer(t, IF "zombie" \in r.bits THEN Removed(r)
                        ELSE [r EXCEPT !.bits = b, !.astate = b])
         /\ heap' = IF "zombie" \in r.bits THEN Without(heap, t) ELSE With(heap, t, r.when)
         /\ zombies' = zombies - IF "zombie" \in r.bits THEN 1 ELSE 0
  PROVE  Cleaned(t)
<1> DEFINE r == timer[t]
           gone == "zombie" \in r.bits
           b == r.bits \ {"modified"}
           n == IF gone THEN Removed(r) ELSE [r EXCEPT !.bits = b, !.astate = b]
<1>1. t \in Timers BY DEF TimersType
<1>2. timer'[t] = n /\ r \in Settings /\ \A u \in Timers \ {t} : timer'[u] = timer[u]
  BY <1>1, BecomesThis
<1>3. CASE gone
  <2>1. Becomes(t, r.when, r.seq, {}, {}, r.blocked, r.sending)
    BY <1>2, <1>3 DEF Becomes, Settings, Removed
  <2>2. HeapDrops(t) BY <1>3, HeapChange
  <2> QED BY <1>1, <1>2, <1>3, <2>1, <2>2 DEF Cleaned
<1>4. CASE ~gone
  <2>1. Becomes(t, r.when, r.seq, b, b, r.blocked, r.sending)
    BY <1>2, <1>4 DEF Becomes, Settings
  <2>2. HeapPuts(t, r.when) BY <1>4, HeapChange
  <2> QED BY <1>1, <1>2, <1>4, <2>1, <2>2 DEF Cleaned
<1> QED BY <1>3, <1>4

Refreshed(t) ==
  /\ Cleaned(t) /\ minHeap' = MinOf(heap') /\ minMod' = IF heap' = << >> THEN 0 ELSE minMod

(* updateHeap brings the entry of t up to date, and minWhenHeap after it. *)
LEMMA UpdateHeapEffect ==
  ASSUME TimersType, NEW t \in DOMAIN heap, mu[t] = Free, UpdateHeap(t)
  PROVE  Refreshed(t)
<1>1. Cleaned(t) BY CleanedThis DEF UpdateHeap
<1> QED BY <1>1 DEF UpdateHeap, Refreshed

(* cleanHead brings the head of the heap up to date, or drops a zombie. *)
LEMMA CleanEffect ==
  ASSUME TimersType, NEW g \in Users, CleanHead(g)
  PROVE  /\ pc[g] = "clean"
         /\ UNCHANGED << scene, now, mu, sendLock, len, tsmu, chans, pc, loc, todo, calls, hist,
                         thrown >>
         /\ \E t \in Timers :
              /\ Cleaned(t) /\ Alters(g, t)
              /\ \/ Refreshed(t)
                 \/ "zombie" \in timer[t].bits /\ UNCHANGED << minHeap, minMod >>
<1>1. pc[g] = "clean" /\ UNCHANGED << scene, now, mu, sendLock, len, tsmu, chans, pc, loc, todo, calls,
                                      hist, thrown >>
  BY DEF CleanHead, From
<1>2. PICK t \in DOMAIN heap : mu[t] = Free /\ (CleanTail(t) \/ UpdateHeap(t)) BY DEF CleanHead
<1>3. t \in Timers BY DEF TimersType
<1>4. Cleaned(t) /\ (Refreshed(t) \/ ("zombie" \in timer[t].bits /\ UNCHANGED << minHeap, minMod >>))
  <2>1. CASE UpdateHeap(t) BY <1>2, <2>1, UpdateHeapEffect DEF Refreshed
  <2>2. CASE CleanTail(t)
    <3>1. Cleaned(t) BY <1>2, <2>2, CleanedThis DEF CleanTail
    <3> QED BY <2>2, <3>1 DEF CleanTail
  <2> QED BY <1>2, <2>1, <2>2
<1>5. Alters(g, t)
  BY <1>1, <1>2, <1>3, <1>4 DEF Alters, Cleaned, HeapDrops, HeapPuts, chans, Actors
<1> QED BY <1>1, <1>3, <1>4, <1>5

(* adjust goes through the heap: one entry is up to date, or is brought up to date. *)
LEMMA ScanEffect ==
  ASSUME TimersType, TimersWake, NEW m \in Ms, Scan(m)
  PROVE  /\ pc[m] = "scan"
         /\ UNCHANGED << scene, now, mu, sendLock, minHeap, minMod, len, tsmu, chans, pc, loc,
                         calls, hist >>
         /\ \E t \in todo :
              /\ todo' = todo \ {t}
              /\ \/ ~Dirty(timer[t].astate) /\ UNCHANGED << timer, heap, zombies, thrown >>
                 \/ /\ Cleaned(t) /\ Alters(m, t)
                    /\ thrown' = (thrown \/ "heaped" \notin timer[t].bits)
<1>1. pc[m] = "scan" /\ UNCHANGED << scene, now, mu, sendLock, minHeap, minMod, len, tsmu, chans,
                                     pc, loc, calls, hist >>
  BY DEF Scan, From
<1>2. PICK t \in todo :
         LET r == timer[t]
             b == r.bits \ {"modified"}
         IN
         /\ todo' = todo \ {t}
         /\ \/ ~Dirty(r.astate) /\ UNCHANGED << timer, heap, zombies, thrown >>
            \/ /\ mu[t] = Free
               /\ SetTimer(t, IF "zombie" \in b THEN Removed(r)
                              ELSE [r EXCEPT !.bits = b, !.astate = b])
               /\ heap' = IF "zombie" \in b THEN Without(heap, t) ELSE With(heap, t, r.when)
               /\ zombies' = zombies - IF "zombie" \in b THEN 1 ELSE 0
               /\ thrown' = (thrown \/ "heaped" \notin b)
  BY DEF Scan
<1>3. t \in DOMAIN heap /\ t \in Timers BY DEF TimersWake, TimersType
<1>4. CASE ~Dirty(timer[t].astate) /\ UNCHANGED << timer, heap, zombies, thrown >>
  BY <1>1, <1>2, <1>4
<1> DEFINE r == timer[t]
           b == r.bits \ {"modified"}
<1>5. CASE /\ mu[t] = Free
           /\ SetTimer(t, IF "zombie" \in b THEN Removed(r)
                          ELSE [r EXCEPT !.bits = b, !.astate = b])
           /\ heap' = IF "zombie" \in b THEN Without(heap, t) ELSE With(heap, t, r.when)
           /\ zombies' = zombies - IF "zombie" \in b THEN 1 ELSE 0
           /\ thrown' = (thrown \/ "heaped" \notin b)
  <2>1. "zombie" \in b <=> "zombie" \in r.bits OBVIOUS
  <2>2. "heaped" \in b <=> "heaped" \in r.bits OBVIOUS
  <2>3. Cleaned(t) BY <1>3, <1>5, <2>1, CleanedThis
  <2>4. Alters(m, t)
    BY <1>1, <1>3, <1>5, <2>3 DEF Alters, Cleaned, HeapDrops, HeapPuts, chans, Actors
  <2> QED BY <1>1, <1>2, <1>5, <2>2, <2>3, <2>4
<1> QED BY <1>2, <1>4, <1>5

(* run has nothing to do, brings the head up to date, or runs it. *)
LEMMA RunCases ==
  ASSUME TimersType, NEW m \in Ms, Run(m)
  PROVE  /\ pc[m] = "run" /\ UNCHANGED << scene, now, mu, sendLock, chans, todo, calls >>
         /\ \/ /\ pc'[m] \in {"forced", "unlockTs"}
               /\ \A b \in Actors \ {m} : pc'[b] = pc[b]
               /\ UNCHANGED << timer, ts, loc, hist, thrown >>
            \/ \E t \in Timers : Refreshed(t) /\ Alters(m, t)
                 /\ UNCHANGED << len, tsmu, pc, loc, hist, thrown >>
            \/ \E t \in DOMAIN heap : /\ t \in Timers /\ mu[t] = Free /\ ~Dirty(timer[t].bits)
                                      /\ timer[t].when <= loc[m].when
                                      /\ UnlockAndRun(m, t, "relock")
<1>1. pc[m] = "run" /\ UNCHANGED << scene, now, mu, sendLock, chans, todo, calls >>
  BY DEF Run, From
<1>2. CASE UnlockOrForce(m) /\ UNCHANGED << timer, ts, loc, hist, thrown >>
  BY <1>1, <1>2 DEF UnlockOrForce, To, TimersType, Actors
<1>3. ASSUME NEW t \in Heads(heap), mu[t] = Free, UpdateHeap(t),
             UNCHANGED << len, tsmu, pc, loc, hist, thrown >>
      PROVE  t \in Timers /\ Refreshed(t) /\ Alters(m, t)
  <2>1. t \in DOMAIN heap /\ t \in Timers BY DEF Heads, TimersType
  <2>2. Refreshed(t) BY <1>3, <2>1, UpdateHeapEffect
  <2> QED BY <1>1, <1>3, <2>1, <2>2 DEF Alters, Refreshed, Cleaned, HeapDrops, HeapPuts, chans,
                                        Actors
<1>4. ASSUME NEW t \in Heads(heap) PROVE t \in DOMAIN heap /\ t \in Timers
  BY DEF Heads, TimersType
<1> QED BY <1>1, <1>2, <1>3, <1>4 DEF Run

(* maybeAdd puts t in the heap, if it still needs to be there. *)
LEMMA InsertEffect ==
  ASSUME TimersType, TimersPlace, TimersLocks, NEW g \in Users, Insert(g)
  PROVE  LET t == T(g)
             r == timer[t]
             b == r.bits \cup {"heaped"}
         IN
         /\ Alters(g, t) /\ pc[g] = "insert" /\ mu[t] = Free /\ tsmu = g /\ tsmu' = Free
         /\ r \in Settings
         /\ NeedsAdd(t, r) => /\ Becomes(t, r.when, r.seq, b, b, r.blocked, r.sending)
                              /\ HeapPuts(t, r.when)
         /\ ~NeedsAdd(t, r) => UNCHANGED << timer, heap >>
         /\ minHeap' = IF NeedsAdd(t, r) /\ t \in Heads(heap') THEN MinOf(heap') ELSE minHeap
         /\ pc'[g] = (IF chlock[t] = g THEN "parked" ELSE "ret")
         /\ UNCHANGED << loc, mu, minMod, zombies, todo, missed, thrown, armed, sendLock >>
<1> DEFINE t == T(g)
           r == timer[t]
           b == r.bits \cup {"heaped"}
           n == [r EXCEPT !.bits = b, !.astate = b]
<1>0. g \in Actors /\ (pc[g] # "idle" => t \in Timers) /\ pc[g] = "insert" /\ r = Tm(g)
  BY AtTimer DEF Actors, Insert, From, Tm
<1>1. t \in Timers /\ r \in Settings BY <1>0 DEF TimersType
<1>2. tsmu = g BY <1>0 DEF TimersLocks, LocksAt, HoldsTs
<1>3. /\ timer' = (IF NeedsAdd(t, r) THEN [timer EXCEPT ![t] = n] ELSE timer)
      /\ heap' = IF NeedsAdd(t, r) THEN With(heap, t, r.when) ELSE heap
      /\ minHeap' = IF NeedsAdd(t, r) /\ t \in Heads(heap') THEN MinOf(heap') ELSE minHeap
      /\ mu[t] = Free /\ tsmu' = Free
      /\ UNCHANGED << loc, mu, minMod, zombies, todo, missed, thrown, armed, sendLock >>
      /\ UNCHANGED << scene, now, buf, recvq >>
  BY <1>1 DEF Insert, TimersType, Tm, hist
<1>4. /\ pc'[g] = (IF chlock[t] = g THEN "parked" ELSE "ret")
      /\ \A a \in Actors \ {g} : pc'[a] = pc[a]
  BY <1>0 DEF Insert, To, TimersType
<1>5. CASE NeedsAdd(t, r)
  <2>1. timer'[t] = n /\ \A u \in Timers \ {t} : timer'[u] = timer[u]
    BY <1>1, <1>3, <1>5 DEF TimersType
  <2>2. Becomes(t, r.when, r.seq, b, b, r.blocked, r.sending) BY <1>1, <2>1 DEF Becomes, Settings
  <2>3. HeapPuts(t, r.when) BY <1>3, <1>5, HeapChange
  <2>4. Alters(g, t) BY <1>0, <1>1, <1>3, <1>4, <2>1, <2>3 DEF Alters, HeapPuts
  <2> QED BY <1>0, <1>1, <1>2, <1>3, <1>4, <1>5, <2>2, <2>3, <2>4
<1>6. CASE ~NeedsAdd(t, r)
  <2>1. UNCHANGED << timer, heap >> BY <1>3, <1>6
  <2>2. Alters(g, t) BY <1>0, <1>1, <1>3, <1>4, <2>1 DEF Alters
  <2> QED BY <1>0, <1>1, <1>2, <1>3, <1>4, <1>6, <2>1, <2>2
<1> QED BY <1>5, <1>6

(* New settings, field by field. *)
LEMMA SettingsRun ==
  ASSUME NEW r \in Settings, NEW w, NEW n, NEW x, x = [r EXCEPT !.when = w, !.sending = n]
  PROVE  x = [when |-> w, seq |-> r.seq, bits |-> r.bits, astate |-> r.astate,
              blocked |-> r.blocked, sending |-> n]
  BY DEF Settings

(* ... what blockTimerChan leaves ... *)
LEMMA SettingsBlock ==
  ASSUME NEW r \in Settings, NEW k, NEW b, NEW x,
         x = [[r EXCEPT !.blocked = k, !.bits = b] EXCEPT !.astate = b]
  PROVE  x = [when |-> r.when, seq |-> r.seq, bits |-> b, astate |-> b, blocked |-> k,
              sending |-> r.sending]
  BY DEF Settings

(* ... what unblockTimerChan leaves ... *)
LEMMA SettingsUnblock ==
  ASSUME NEW r \in Settings, NEW k, NEW b, NEW x,
         x = [r EXCEPT !.blocked = k, !.bits = b, !.astate = b]
  PROVE  x = [when |-> r.when, seq |-> r.seq, bits |-> b, astate |-> b, blocked |-> k,
              sending |-> r.sending]
  BY DEF Settings

(* ... and what is left of a timer taken out of the heap. *)
LEMMA SettingsRemoved ==
  ASSUME NEW q, NEW w, NEW s, NEW b, NEW as, NEW k, NEW n, NEW x, x = Removed(q),
         q = [when |-> w, seq |-> s, bits |-> b, astate |-> as, blocked |-> k, sending |-> n]
  PROVE  x = [when |-> w, seq |-> s, bits |-> {}, astate |-> {}, blocked |-> k, sending |-> n]
  BY DEF Removed

(* A timer goes off. *)
Ran(a, t, back) ==
  LET r == timer[t]
      w == Next1(t)
      k == IF IsChan(t) /\ Period(t) = 0 THEN r.sending + 1 ELSE r.sending
      inHeap == "heaped" \in r.bits
  IN
  /\ Alters(a, t) /\ r \in Settings /\ mu[t] = Free
  /\ inHeap /\ w = 0 => Becomes(t, w, r.seq, {}, {}, r.blocked, k) /\ HeapDrops(t)
  /\ inHeap /\ w # 0 => Becomes(t, w, r.seq, r.bits, r.astate, r.blocked, k) /\ HeapPuts(t, w)
  /\ ~inHeap => Becomes(t, w, r.seq, r.bits, r.astate, r.blocked, k) /\ UNCHANGED heap
  /\ minHeap' = IF inHeap THEN MinOf(heap') ELSE minHeap
  /\ minMod' = IF inHeap /\ heap' = << >> THEN 0 ELSE minMod
  /\ tsmu' = IF inHeap THEN Free ELSE tsmu
  /\ loc'[a] = [loc[a] EXCEPT !.t = t, !.seq = r.seq, !.back = back]
  /\ pc'[a] = (IF IsChan(t) THEN "send" ELSE back)
  /\ armed' = [armed EXCEPT ![t] = @ /\ (IsChan(t) \/ Period(t) > 0)]
  /\ thrown' = (thrown \/ Dirty(r.bits))
  /\ UNCHANGED << mu, zombies, missed, todo, chlock, sendLock >>

(* unlockAndRun makes a timer go off. *)
LEMMA RanThis ==
  ASSUME TimersType, NEW a \in Actors, NEW t \in Timers, NEW back, UnlockAndRun(a, t, back),
         mu[t] = Free, UNCHANGED << scene, now, mu, sendLock, chans, todo, calls >>
  PROVE  Ran(a, t, back)
<1> DEFINE r == timer[t]
           w == Next1(t)
           i == IF IsChan(t) /\ Period(t) = 0 THEN 1 ELSE 0
           j == r.sending + i
           k == IF IsChan(t) /\ Period(t) = 0 THEN r.sending + 1 ELSE r.sending
           inHeap == "heaped" \in r.bits
           q == [r EXCEPT !.when = w, !.sending = j]
           n == IF inHeap /\ w = 0 THEN Removed(q) ELSE q
           h == IF ~inHeap THEN heap
                ELSE IF w = 0 THEN Without(heap, t) ELSE With(heap, t, w)
           l == [loc[a] EXCEPT !.t = t, !.seq = r.seq, !.back = back]
<1>1. r \in Settings /\ loc[a] \in Locs BY DEF TimersType
<1>2. j = k BY <1>1 DEF Settings
<1>3. /\ q.when = w /\ q.seq = r.seq /\ q.bits = r.bits /\ q.astate = r.astate
      /\ q.blocked = r.blocked /\ q.sending = j
      /\ q = [when |-> w, seq |-> r.seq, bits |-> r.bits, astate |-> r.astate,
              blocked |-> r.blocked, sending |-> j]
      /\ Removed(q) = [when |-> w, seq |-> r.seq, bits |-> {}, astate |-> {},
                       blocked |-> r.blocked, sending |-> j]
  <2> HIDE DEF w, j
  <2>1. q = [when |-> w, seq |-> r.seq, bits |-> r.bits, astate |-> r.astate,
             blocked |-> r.blocked, sending |-> j]
    BY <1>1, SettingsRun
  <2> HIDE DEF q
  <2>2. Removed(q) = [when |-> w, seq |-> r.seq, bits |-> {}, astate |-> {},
                      blocked |-> r.blocked, sending |-> j]
    BY <2>1, SettingsRemoved
  <2> QED BY <2>1, <2>2
<1>4. /\ SetTimer(t, n) /\ heap' = h
      /\ minHeap' = IF inHeap THEN MinOf(h) ELSE minHeap
      /\ minMod' = IF inHeap /\ h = << >> THEN 0 ELSE minMod
      /\ IF inHeap THEN tsmu' = Free ELSE UNCHANGED tsmu
      /\ armed' = [armed EXCEPT ![t] = @ /\ (IsChan(t) \/ Period(t) > 0)]
      /\ thrown' = (thrown \/ Dirty(r.bits))
      /\ UNCHANGED << zombies, missed >>
  <2> HIDE DEF w
  <2>1. /\ [timer[t] EXCEPT !.when = w, !.sending = @ + IF IsChan(t) /\ Period(t) = 0 THEN 1 ELSE 0]
             = q
    OBVIOUS
  <2> HIDE DEF q
  <2> QED BY <2>1, <1>3 DEF UnlockAndRun, w
<1>5. loc' = [loc EXCEPT ![a] = l]
  <2> HIDE DEF w
  <2>1. /\ [timer[t] EXCEPT !.when = w, !.sending = @ + IF IsChan(t) /\ Period(t) = 0 THEN 1 ELSE 0]
             = q
    OBVIOUS
  <2> HIDE DEF q
  <2> QED BY <2>1, <1>1, <1>3 DEF UnlockAndRun, w, TimersType
<1>6. loc'[a] = l /\ \A b \in Actors \ {a} : loc'[b] = loc[b]
  <2> HIDE DEF l
  <2> QED BY <1>5 DEF TimersType
<1>7. /\ pc'[a] = (IF IsChan(t) THEN "send" ELSE back)
      /\ \A b \in Actors \ {a} : pc'[b] = pc[b]
  BY DEF UnlockAndRun, To, TimersType
<1>8. timer'[t] = n /\ \A u \in Timers \ {t} : timer'[u] = timer[u]
  <2> HIDE DEF n
  <2> QED BY <1>4, BecomesThis
<1>9. /\ inHeap /\ w = 0 => Becomes(t, w, r.seq, {}, {}, r.blocked, k) /\ HeapDrops(t)
      /\ inHeap /\ w # 0 => Becomes(t, w, r.seq, r.bits, r.astate, r.blocked, k) /\ HeapPuts(t, w)
      /\ ~inHeap => Becomes(t, w, r.seq, r.bits, r.astate, r.blocked, k) /\ UNCHANGED heap
  <2> HIDE DEF w, j, k, q
  <2>1. /\ heap' = Without(heap, t) => HeapDrops(t)
        /\ heap' = With(heap, t, w) => HeapPuts(t, w)
    BY HeapChange
  <2> QED BY <1>2, <1>3, <1>4, <1>8, <2>1 DEF Becomes
<1> HIDE DEF w, k, n, q, j, l
<1>10. Alters(a, t)
  BY <1>4, <1>6, <1>7, <1>8, <1>9 DEF Alters, HeapDrops, HeapPuts, chans
<1>11. tsmu' = IF inHeap THEN Free ELSE tsmu BY <1>4
<1>12. /\ minHeap' = IF inHeap THEN MinOf(heap') ELSE minHeap
       /\ minMod' = IF inHeap /\ heap' = << >> THEN 0 ELSE minMod
  BY <1>4
<1>13. UNCHANGED << mu, zombies, missed, todo, chlock, sendLock >> BY <1>4 DEF chans
<1> QED BY <1>1, <1>4, <1>6, <1>7, <1>9, <1>10, <1>11, <1>12, <1>13 DEF Ran, w, k, l

(* maybeRunChan has nothing to do, or makes a timer go off that is not in the heap. *)
LEMMA MaybeRunCases ==
  ASSUME TimersType, TimersPlace, TimersBits, NEW g \in Users, MaybeRunChan(g)
  PROVE  /\ pc[g] \in {"run", "empty"} /\ T(g) \in Timers /\ IsChan(T(g))
         /\ UNCHANGED << scene, now, mu, sendLock, chans, todo, calls >>
         /\ \/ /\ pc'[g] \in {"empty", "recv"} /\ \A b \in Actors \ {g} : pc'[b] = pc[b]
               /\ UNCHANGED << timer, ts, loc, hist, thrown >>
            \/ \E back \in {"empty", "recv"} :
                 /\ Ran(g, T(g), back) /\ timer[T(g)].bits = {}
                 /\ timer[T(g)].when \in 1 .. now
<1> DEFINE t == T(g)
           back == IF loc[g].op = "poll" /\ pc[g] = "run" THEN "empty" ELSE "recv"
<1>1. /\ pc[g] \in {"run", "empty"}
      /\ UNCHANGED << scene, now, mu, sendLock, chans, todo, calls >>
      /\ back \in {"empty", "recv"} /\ g \in Actors
  BY DEF MaybeRunChan, Actors
<1>2. t \in Timers /\ IsChan(t) BY <1>1, AtTimer DEF TimersPlace, UserAt
<1>3. CASE To(g, back) /\ UNCHANGED << timer, ts, loc, hist, thrown >>
  <2>1. pc'[g] \in {"empty", "recv"} /\ \A b \in Actors \ {g} : pc'[b] = pc[b]
    BY <1>1, <1>3 DEF To, TimersType
  <2> QED BY <1>1, <1>2, <1>3, <2>1
<1>4. CASE /\ "heaped" \notin Tm(g).astate /\ mu[t] = Free /\ Tm(g).when \in 1 .. now
           /\ UnlockAndRun(g, t, back)
  <2>1. Ran(g, t, back) BY <1>1, <1>2, <1>4, RanThis
  <2>2. timer[t].bits = {} BY <1>2, <1>4 DEF TimersBits, BitsAt, Tm
  <2>3. timer[t].when \in 1 .. now BY <1>4 DEF Tm
  <2> HIDE DEF back
  <2> QED BY <1>1, <1>2, <2>1, <2>2, <2>3
<1> QED BY <1>3, <1>4 DEF MaybeRunChan

(* blockTimerChan counts a receiver, and takes a zombie back. *)
LEMMA BlockEffect ==
  ASSUME TimersType, TimersPlace, NEW g \in Users, Block(g)
  PROVE  LET t == T(g)
             r == timer[t]
             revive == "zombie" \in r.bits /\ r.when > 0
             b == IF revive THEN r.bits \ {"zombie"} ELSE r.bits
             add == "heaped" \notin b /\ r.when > 0 /\ (IsChan(t) => r.blocked + 1 > 0)
         IN
         /\ Alters(g, t) /\ pc[g] = "block" /\ loc[g].op = "recv" /\ mu[t] = Free
         /\ r \in Settings
         /\ Becomes(t, r.when, r.seq, b, b, r.blocked + 1, r.sending)
         /\ zombies' = zombies - IF revive THEN 1 ELSE 0
         /\ pc'[g] = (IF add THEN "add" ELSE "parked")
         /\ UNCHANGED << loc, mu, heap, minHeap, minMod, tsmu, todo, missed, thrown, armed, sendLock >>
<1> DEFINE t == T(g)
           r == timer[t]
           revive == "zombie" \in r.bits /\ r.when > 0
           b == IF revive THEN r.bits \ {"zombie"} ELSE r.bits
           k == r.blocked + 1
           q == [r EXCEPT !.blocked = k, !.bits = b]
           n == [q EXCEPT !.astate = b]
           add == "heaped" \notin b /\ r.when > 0 /\ (IsChan(t) => k > 0)
<1>0. g \in Actors /\ (pc[g] # "idle" => t \in Timers) /\ pc[g] = "block" /\ r = Tm(g)
  BY AtTimer DEF Actors, Block, BlockWith, From, Tm
<1>1. t \in Timers /\ r \in Settings /\ loc[g].op = "recv"
  BY <1>0 DEF TimersType, TimersPlace, UserAt
<1>2. /\ q.bits = b /\ q.when = r.when /\ q.blocked = k
      /\ n = [when |-> r.when, seq |-> r.seq, bits |-> b, astate |-> b, blocked |-> k,
              sending |-> r.sending]
  <2> HIDE DEF k, b
  <2>1. q.bits = b /\ q.when = r.when /\ q.blocked = k BY <1>1 DEF Settings
  <2> QED BY <1>1, <2>1, SettingsBlock
<1>3. [Tm(g) EXCEPT !.blocked = @ + 1, !.bits = IF revive THEN @ \ {"zombie"} ELSE @] = q
  BY <1>0
<1>4. /\ SetTimer(t, [q EXCEPT !.astate = q.bits])
      /\ To(g, IF NeedsAdd(t, q) THEN "add" ELSE "parked")
      /\ zombies' = zombies - IF revive THEN 1 ELSE 0
      /\ UNCHANGED << loc, mu, heap, minHeap, minMod, tsmu, todo, missed, thrown, armed, sendLock >>
      /\ UNCHANGED << scene, now, buf, recvq >> /\ mu[t] = Free
  <2> HIDE DEF q
  <2>1. revive <=> "zombie" \in Tm(g).bits /\ Tm(g).when > 0 BY <1>0
  <2>2. BlockWith(g, revive) BY <2>1 DEF Block
  <2> HIDE DEF revive
  <2> QED BY <1>3, <2>2 DEF BlockWith, hist
<1>5. NeedsAdd(t, q) <=> add BY <1>2 DEF NeedsAdd
<1> HIDE DEF q
<1>6. SetTimer(t, n) BY <1>2, <1>4
<1>7. Becomes(t, r.when, r.seq, b, b, k, r.sending) /\ \A u \in Timers \ {t} : timer'[u] = timer[u]
  <2>1. timer'[t] = n /\ \A u \in Timers \ {t} : timer'[u] = timer[u]
    <3> HIDE DEF n
    <3> QED BY <1>1, <1>6, BecomesThis
  <2> QED BY <2>1, <1>2 DEF Becomes
<1>8. pc'[g] = (IF add THEN "add" ELSE "parked") /\ \A a \in Actors \ {g} : pc'[a] = pc[a]
  <2> HIDE DEF add
  <2> QED BY <1>0, <1>4, <1>5 DEF To, TimersType
<1>9. Alters(g, t) BY <1>0, <1>1, <1>4, <1>7, <1>8 DEF Alters
<1> QED BY <1>0, <1>1, <1>4, <1>7, <1>8, <1>9

(* unblockTimerChan counts it off; nobody is left to wait: the timer becomes a zombie. *)
LEMMA UnblockEffect ==
  ASSUME TimersType, TimersPlace, NEW g \in Users, Unblock(g)
  PROVE  LET t == T(g)
             r == timer[t]
             last == r.blocked = 1 /\ "heaped" \in r.bits /\ "zombie" \notin r.bits
             b == IF last THEN r.bits \cup {"zombie"} ELSE r.bits
         IN
         /\ Alters(g, t) /\ pc[g] = "unblock" /\ loc[g].op = "recv" /\ mu[t] = Free
         /\ r \in Settings
         /\ Becomes(t, r.when, r.seq, b, b, r.blocked - 1, r.sending)
         /\ zombies' = zombies + IF last THEN 1 ELSE 0
         /\ thrown' = (thrown \/ r.blocked = 0)
         /\ pc'[g] = "ret"
         /\ UNCHANGED << loc, mu, heap, minHeap, minMod, tsmu, todo, missed, armed, sendLock, chlock >>
<1> DEFINE t == T(g)
           r == timer[t]
           last == r.blocked = 1 /\ "heaped" \in r.bits /\ "zombie" \notin r.bits
           b == IF last THEN r.bits \cup {"zombie"} ELSE r.bits
           k == r.blocked - 1
           n == [r EXCEPT !.blocked = k, !.bits = b, !.astate = b]
<1>0. g \in Actors /\ (pc[g] # "idle" => t \in Timers) /\ pc[g] = "unblock" /\ r = Tm(g)
  BY AtTimer DEF Actors, Unblock, From, Tm
<1>1. t \in Timers /\ r \in Settings /\ loc[g].op = "recv"
  BY <1>0 DEF TimersType, TimersPlace, UserAt
<1>2. n = [when |-> r.when, seq |-> r.seq, bits |-> b, astate |-> b, blocked |-> k,
           sending |-> r.sending]
  <2> HIDE DEF k, b
  <2> QED BY <1>1, SettingsUnblock
<1>3. [Tm(g) EXCEPT !.blocked = @ - 1, !.bits = b, !.astate = b] = n
  BY <1>0
<1>4. /\ SetTimer(t, n)
      /\ To(g, "ret")
      /\ zombies' = zombies + IF last THEN 1 ELSE 0
      /\ thrown' = (thrown \/ r.blocked = 0)
      /\ UNCHANGED << loc, mu, heap, minHeap, minMod, tsmu, todo, missed, armed, sendLock, chlock >>
      /\ UNCHANGED << scene, now, buf, recvq >> /\ mu[t] = Free
  <2> HIDE DEF n
  <2> QED BY <1>0, <1>3 DEF Unblock, hist, chans
<1>7. Becomes(t, r.when, r.seq, b, b, k, r.sending) /\ \A u \in Timers \ {t} : timer'[u] = timer[u]
  <2>1. timer'[t] = n /\ \A u \in Timers \ {t} : timer'[u] = timer[u]
    <3> HIDE DEF n
    <3> QED BY <1>1, <1>4, BecomesThis
  <2> QED BY <2>1, <1>2 DEF Becomes
<1>8. pc'[g] = "ret" /\ \A a \in Actors \ {g} : pc'[a] = pc[a]
  BY <1>0, <1>4 DEF To, TimersType
<1>9. Alters(g, t) BY <1>0, <1>1, <1>4, <1>7, <1>8 DEF Alters
<1> QED BY <1>0, <1>1, <1>4, <1>7, <1>8, <1>9

(* The bits after a step that alters one timer, and after one that alters none. *)
LEMMA BitsChange ==
  ASSUME TimersType, TimersType', TimersPlace, TimersLocks, TimersBits,
         NEW a \in Actors, NEW t \in Timers, Alters(a, t), BitsAt(t)',
         zombies' = zombies + (IF "zombie" \in timer'[t].bits THEN 1 ELSE 0)
                            - (IF "zombie" \in timer[t].bits THEN 1 ELSE 0),
         a \in Users /\ pc'[a] \in Mods => (Tm(a).when = loc[a].when)',
         ~thrown'
  PROVE  TimersBits'
<1>1. zombies' = Cardinality(Zombies')
  <2>1. /\ IsFiniteSet(Timers) /\ Zombies \in SUBSET Timers /\ Zombies' \in SUBSET Timers
        /\ zombies = Cardinality(Zombies) /\ Cardinality(Zombies) \in Nat
    BY TimersAssumption, FS_Subset, FS_CardinalityType DEF Zombies, TimersBits
  <2>2. \A u \in Timers : u # t => (u \in Zombies <=> u \in Zombies') BY DEF Zombies, Alters
  <2>3. (t \in Zombies <=> "zombie" \in timer[t].bits)
        /\ (t \in Zombies' <=> "zombie" \in timer'[t].bits)
    BY DEF Zombies
  <2>4. CASE t \in Zombies /\ t \in Zombies'
    <3>1. \A u \in Timers : u \in Zombies <=> u \in Zombies' BY <2>2, <2>4
    <3>2. Cardinality(Zombies') = Cardinality(Zombies) BY <2>1, <3>1, CountSame
    <3> QED BY <2>1, <2>3, <2>4, <3>2
  <2>5. CASE t \notin Zombies /\ t \notin Zombies'
    <3>1. \A u \in Timers : u \in Zombies <=> u \in Zombies' BY <2>2, <2>5
    <3>2. Cardinality(Zombies') = Cardinality(Zombies) BY <2>1, <3>1, CountSame
    <3> QED BY <2>1, <2>3, <2>5, <3>2
  <2>6. CASE t \notin Zombies /\ t \in Zombies'
    <3>1. Cardinality(Zombies') = Cardinality(Zombies) + 1 BY <2>1, <2>2, <2>6, CountGain
    <3> QED BY <2>1, <2>3, <2>6, <3>1
  <2>7. CASE t \in Zombies /\ t \notin Zombies'
    <3>1. Cardinality(Zombies') = Cardinality(Zombies) - 1 BY <2>1, <2>2, <2>7, CountLoss
    <3> QED BY <2>1, <2>3, <2>7, <3>1
  <2> QED BY <2>4, <2>5, <2>6, <2>7
<1>2. ASSUME NEW u \in Timers PROVE BitsAt(u)'
  <2>1. CASE u = t BY <2>1
  <2>2. CASE u # t BY <2>2 DEF Alters, TimersBits, BitsAt
  <2> QED BY <2>1, <2>2
<1>3. ASSUME NEW g \in Users, pc'[g] \in Mods PROVE (Tm(g).when = loc[g].when)'
  <2>1. CASE g = a BY <1>3, <2>1
  <2>2. CASE g # a
    <3>1. g \in Actors /\ g # Free BY TimersAssumption DEF Actors
    <3>2. pc[g] \in Mods /\ loc'[g] = loc[g] BY <1>3, <2>2, <3>1 DEF Alters
    <3>3. T(g) \in Timers BY <3>2, AtTimer DEF Mods
    <3>4. mu[T(g)] = g BY <3>1, <3>2, <3>3 DEF TimersLocks, LocksAt, HoldsMu
    <3>5. T(g) # t BY <2>2, <3>1, <3>4 DEF Alters
    <3>6. timer'[T(g)] = timer[T(g)] BY <3>3, <3>5 DEF Alters
    <3> QED BY <3>2, <3>6 DEF Tm, T, TimersBits
  <2> QED BY <2>1, <2>2
<1> QED BY <1>1, <1>2, <1>3 DEF TimersBits

(* ... after a step that alters no bits ... *)
LEMMA BitsKeep ==
  ASSUME TimersType, TimersType', TimersPlace, TimersBits, UNCHANGED << mu, heap, zombies >>,
         \A u \in Timers : /\ timer'[u].when = timer[u].when /\ timer'[u].bits = timer[u].bits
                           /\ timer'[u].astate = timer[u].astate,
         \A g \in Users : pc'[g] \in Mods => pc[g] \in Mods /\ loc'[g].t = loc[g].t
                                               /\ loc'[g].when = loc[g].when,
         ~thrown'
  PROVE  TimersBits'
<1>1. zombies' = Cardinality(Zombies')
  <2>1. Zombies' = Zombies BY DEF Zombies
  <2> QED BY <2>1 DEF TimersBits
<1>2. \A u \in Timers : BitsAt(u)' BY DEF TimersBits, BitsAt
<1>3. ASSUME NEW g \in Users, pc'[g] \in Mods PROVE (Tm(g).when = loc[g].when)'
  <2>1. pc[g] \in Mods /\ loc'[g].t = loc[g].t /\ loc'[g].when = loc[g].when BY <1>3
  <2>2. T(g) \in Timers BY <2>1, AtTimer DEF Mods
  <2> QED BY <2>1, <2>2 DEF Tm, T, TimersBits
<1> QED BY <1>1, <1>2, <1>3 DEF TimersBits

(* ... after an entry of the heap is brought up to date ... *)
LEMMA CleanedBits ==
  ASSUME TimersType, TimersType', TimersPlace, TimersLocks, TimersBits,
         NEW a \in Actors, NEW t \in Timers, Alters(a, t), Cleaned(t), UNCHANGED << pc, loc, mu >>,
         ~thrown'
  PROVE  TimersBits'
<1> DEFINE r == timer[t]
<1>1. t \in DOMAIN heap /\ mu[t] = Free /\ BitsAt(t) /\ r \in Settings
  BY DEF Cleaned, TimersBits
<1>2. ~("zombie" \in timer'[t].bits)
      /\ zombies' = zombies - IF "zombie" \in r.bits THEN 1 ELSE 0
  BY DEF Cleaned, Becomes
<1>3. BitsAt(t)'
  <2>1. CASE "zombie" \in r.bits
    <3>1. Becomes(t, r.when, r.seq, {}, {}, r.blocked, r.sending) /\ HeapDrops(t)
      BY <2>1 DEF Cleaned
    <3> QED BY <3>1 DEF Becomes, HeapDrops, BitsAt
  <2>2. CASE "zombie" \notin r.bits
    <3> DEFINE b == r.bits \ {"modified"}
    <3>1. Becomes(t, r.when, r.seq, b, b, r.blocked, r.sending) /\ HeapPuts(t, r.when)
      BY <2>2 DEF Cleaned
    <3>2. "heaped" \in b /\ r.when > 0 BY <1>1, <2>2 DEF BitsAt
    <3> HIDE DEF b
    <3> QED BY <3>1, <3>2 DEF Becomes, HeapPuts, BitsAt
  <2> QED BY <2>1, <2>2
<1>4. zombies \in Int BY DEF TimersType
<1>5. zombies' = zombies + (IF "zombie" \in timer'[t].bits THEN 1 ELSE 0)
                         - (IF "zombie" \in timer[t].bits THEN 1 ELSE 0)
  BY <1>2, <1>4
<1>6. a \in Users /\ pc'[a] \in Mods => (Tm(a).when = loc[a].when)'
  <2> SUFFICES ASSUME a \in Users, pc'[a] \in Mods PROVE (Tm(a).when = loc[a].when)'
    OBVIOUS
  <2>1. pc[a] \in Mods /\ T(a) \in Timers BY AtTimer DEF Mods
  <2>2. mu[T(a)] = a /\ a # Free
    BY <2>1, TimersAssumption DEF TimersLocks, LocksAt, HoldsMu, Actors
  <2>3. timer'[T(a)] = timer[T(a)] BY <1>1, <2>1, <2>2 DEF Alters
  <2> QED BY <2>1, <2>3 DEF Tm, T, TimersBits
<1> QED BY <1>3, <1>5, <1>6, BitsChange

(* ... after a timer goes off ... *)
LEMMA RanBits ==
  ASSUME TimersType, TimersType', TimersPlace, TimersLocks, TimersBits,
         NEW a \in Actors, NEW t \in Timers, NEW back \in {"empty", "recv", "relock"},
         Ran(a, t, back), ~Dirty(timer[t].bits)
  PROVE  TimersBits'
<1> DEFINE r == timer[t]
           w == Next1(t)
           k == IF IsChan(t) /\ Period(t) = 0 THEN r.sending + 1 ELSE r.sending
<1>1. /\ mu[t] = Free /\ BitsAt(t) /\ r \in Settings /\ Alters(a, t) /\ mu' = mu
      /\ pc'[a] \in {"send", "empty", "recv", "relock"} /\ ~thrown'
      /\ zombies' = zombies
  BY DEF Ran, TimersBits
<1>2. ~("zombie" \in timer'[t].bits) /\ ~("zombie" \in r.bits) /\ "modified" \notin r.bits
  BY DEF Ran, Becomes, Dirty
<1>3. BitsAt(t)'
  <2>1. CASE "heaped" \in r.bits /\ w = 0
    <3>1. Becomes(t, w, r.seq, {}, {}, r.blocked, k) /\ HeapDrops(t) BY <2>1 DEF Ran
    <3> HIDE DEF w, k
    <3> QED BY <3>1 DEF Becomes, HeapDrops, BitsAt
  <2>2. CASE "heaped" \in r.bits /\ w # 0
    <3>1. Becomes(t, w, r.seq, r.bits, r.astate, r.blocked, k) /\ HeapPuts(t, w) BY <2>2 DEF Ran
    <3>1a. timer'[t].when = w BY <3>1 DEF Becomes
    <3>2. w > 0
      <4>1. timer'[t].when \in Nat BY DEF TimersType, Settings
      <4> QED BY <2>2, <3>1a, <4>1
    <3> HIDE DEF w, k
    <3> QED BY <1>1, <2>2, <3>1, <3>2 DEF Becomes, HeapPuts, BitsAt
  <2>3. CASE "heaped" \notin r.bits
    <3>1. Becomes(t, w, r.seq, r.bits, r.astate, r.blocked, k) /\ heap' = heap BY <2>3 DEF Ran
    <3> HIDE DEF w, k
    <3> QED BY <1>1, <2>3, <3>1 DEF Becomes, BitsAt
  <2> QED BY <2>1, <2>2, <2>3
<1>4. zombies \in Int BY DEF TimersType
<1>5. zombies' = zombies + (IF "zombie" \in timer'[t].bits THEN 1 ELSE 0)
                         - (IF "zombie" \in timer[t].bits THEN 1 ELSE 0)
  BY <1>1, <1>2, <1>4
<1>6. pc'[a] \notin Mods BY <1>1 DEF Mods
<1> QED BY <1>1, <1>3, <1>5, <1>6, BitsChange

(* ... and after the steps of a goroutine that set the bits. *)
LEMMA BitsUserStep ==
  ASSUME TimersType, TimersType', TimersPlace, TimersLocks, TimersBits, TimersWait,
         NEW g \in Users,
         Stop(g) \/ ModifyLock(g) \/ ModifyUnlock(g) \/ Insert(g) \/ Block(g) \/ Unblock(g)
  PROVE  TimersBits'
<1>0. g \in Actors /\ zombies \in Int /\ ~thrown BY DEF Actors, TimersType, TimersBits
<1>t. PICK t \in Timers : t = T(g)
  <2>1. T(g) \in Timers
    BY StopEffect, ModifyLockEffect, ModifyUnlockEffect, InsertEffect, BlockEffect, UnblockEffect
       DEF Alters
  <2> QED BY <2>1
<1> DEFINE r == timer[t]
<1>1. CASE Stop(g)
  <2> DEFINE b == IF "heaped" \in r.bits THEN r.bits \cup {"modified", "zombie"} ELSE r.bits
  <2>1. /\ Alters(g, t) /\ mu[t] = Free /\ r \in Settings /\ t \in Timers
        /\ Becomes(t, 0, NextSeq(t), b, b, r.blocked, r.sending)
        /\ zombies' = zombies + IF "zombie" \in b \ r.bits THEN 1 ELSE 0
        /\ pc'[g] \in {"drain", "ret"} /\ thrown' = thrown /\ heap' = heap /\ mu' = mu
    BY <1>1, <1>t, StopEffect DEF Alters
  <2>2. BitsAt(t) BY <2>1 DEF TimersBits
  <2>3. BitsAt(t)' BY <2>1, <2>2 DEF BitsAt, Becomes
  <2>4. timer'[t].bits = b /\ r.bits \subseteq b BY <2>1 DEF Becomes
  <2>5. zombies' = zombies + (IF "zombie" \in timer'[t].bits THEN 1 ELSE 0)
                           - (IF "zombie" \in timer[t].bits THEN 1 ELSE 0)
    <3> HIDE DEF b
    <3> QED BY <2>1, <2>4, <1>0
  <2>6. pc'[g] \notin Mods BY <2>1 DEF Mods
  <2> QED BY <1>0, <2>1, <2>3, <2>5, <2>6, BitsChange
<1>2. CASE ModifyLock(g)
  <2> DEFINE b == IF "heaped" \in r.bits THEN (r.bits \cup {"modified"}) \ {"zombie"} ELSE r.bits
             wake == "heaped" \in r.bits /\ (minMod = 0 \/ loc[g].when < minMod)
             as == IF wake THEN b ELSE r.astate
  <2>1. /\ Alters(g, t) /\ mu[t] = Free /\ r \in Settings /\ t \in Timers
        /\ Becomes(t, loc[g].when, r.seq, b, as, r.blocked, r.sending)
        /\ zombies' = zombies - IF "zombie" \in r.bits THEN 1 ELSE 0
        /\ loc'[g] = [loc[g] EXCEPT !.ret = r.when > 0]
        /\ thrown' = thrown /\ heap' = heap /\ mu' = [mu EXCEPT ![t] = g]
        /\ pc[g] = "lock" /\ loc[g].op = "reset"
    BY <1>2, <1>t, ModifyLockEffect DEF Alters
  <2>1a. mu'[t] = g /\ g # Free BY <2>1, TimersAssumption DEF TimersType
  <2>1b. loc[g].when > 0 BY <2>1 DEF TimersPlace, UserAt
  <2>2. BitsAt(t) BY <2>1 DEF TimersBits
  <2>3. "zombie" \notin b
    BY <2>2 DEF BitsAt
  <2>3a. BitsAt(t)'
    <3>1. "heaped" \in b <=> t \in DOMAIN heap BY <2>2 DEF BitsAt
    <3>2. "heaped" \in as <=> t \in DOMAIN heap BY <2>2 DEF BitsAt
    <3>3. b # {} => "heaped" \in b BY <2>2 DEF BitsAt
    <3>4. t \in DOMAIN heap => "modified" \in b BY <2>2 DEF BitsAt
    <3> HIDE DEF b, as
    <3>5. timer'[t].when = loc[g].when /\ timer'[t].bits = b /\ timer'[t].astate = as
      BY <2>1 DEF Becomes
    <3> QED BY <2>1, <2>1a, <2>1b, <3>1, <3>2, <3>3, <3>4, <3>5 DEF BitsAt
  <2>4. timer'[t].bits = b /\ timer'[t].when = loc[g].when BY <2>1 DEF Becomes
  <2>5. zombies' = zombies + (IF "zombie" \in timer'[t].bits THEN 1 ELSE 0)
                           - (IF "zombie" \in timer[t].bits THEN 1 ELSE 0)
    <3> HIDE DEF b
    <3> QED BY <2>1, <2>3, <2>4, <1>0
  <2>6. (Tm(g).when = loc[g].when)'
    <3>1. loc[g] \in Locs BY <1>0 DEF TimersType
    <3>2. loc'[g].t = t /\ loc'[g].when = loc[g].when BY <2>1, <1>t, <3>1 DEF Locs, T
    <3> QED BY <2>4, <3>2 DEF Tm, T
  <2> QED BY <1>0, <2>1, <2>3a, <2>5, <2>6, BitsChange
<1>3. CASE ModifyUnlock(g)
  <2>1. /\ Alters(g, t) /\ mu[t] = g /\ r \in Settings /\ t \in Timers
        /\ Becomes(t, r.when, NextSeq(t), r.bits, r.bits, r.blocked, r.sending)
        /\ zombies' = zombies /\ thrown' = thrown /\ heap' = heap
        /\ pc'[g] \in {"drain", "add", "ret"}
    BY <1>3, <1>t, ModifyUnlockEffect DEF Alters
  <2>2. BitsAt(t) BY <2>1 DEF TimersBits
  <2>3. BitsAt(t)' BY <2>1, <2>2 DEF BitsAt, Becomes
  <2>5. zombies' = zombies + (IF "zombie" \in timer'[t].bits THEN 1 ELSE 0)
                           - (IF "zombie" \in timer[t].bits THEN 1 ELSE 0)
    BY <2>1, <1>0 DEF Becomes
  <2>6. pc'[g] \notin Mods BY <2>1 DEF Mods
  <2> QED BY <1>0, <2>1, <2>3, <2>5, <2>6, BitsChange
<1>4. CASE Insert(g)
  <2> DEFINE b == r.bits \cup {"heaped"}
  <2>1. /\ Alters(g, t) /\ mu[t] = Free /\ r \in Settings /\ t \in Timers /\ mu' = mu
        /\ NeedsAdd(t, r) => /\ Becomes(t, r.when, r.seq, b, b, r.blocked, r.sending)
                             /\ HeapPuts(t, r.when)
        /\ ~NeedsAdd(t, r) => UNCHANGED << timer, heap >>
        /\ zombies' = zombies /\ thrown' = thrown
        /\ pc'[g] \in {"parked", "ret"}
    BY <1>4, <1>t, InsertEffect DEF Alters
  <2>2. BitsAt(t) BY <2>1 DEF TimersBits
  <2>3. BitsAt(t)' /\ timer'[t].bits \ {"heaped"} = r.bits \ {"heaped"}
    <3>1. CASE NeedsAdd(t, r)
      <4>1. r.when > 0 BY <3>1 DEF NeedsAdd
      <4>2. Becomes(t, r.when, r.seq, b, b, r.blocked, r.sending) /\ HeapPuts(t, r.when)
        BY <2>1, <3>1
      <4>3. BitsAt(t)' BY <2>2, <4>1, <4>2 DEF BitsAt, Becomes, HeapPuts
      <4> QED BY <4>2, <4>3 DEF Becomes
    <3>2. CASE ~NeedsAdd(t, r) BY <2>1, <2>2, <3>2 DEF BitsAt
    <3> QED BY <3>1, <3>2
  <2>4. "zombie" \in timer'[t].bits <=> "zombie" \in r.bits BY <2>3
  <2>5. zombies' = zombies + (IF "zombie" \in timer'[t].bits THEN 1 ELSE 0)
                           - (IF "zombie" \in timer[t].bits THEN 1 ELSE 0)
    BY <2>1, <2>4, <1>0
  <2>6. pc'[g] \notin Mods BY <2>1 DEF Mods
  <2> QED BY <1>0, <2>1, <2>3, <2>5, <2>6, BitsChange
<1>5. CASE Block(g)
  <2> DEFINE revive == "zombie" \in r.bits /\ r.when > 0
             b == IF revive THEN r.bits \ {"zombie"} ELSE r.bits
  <2>1. /\ Alters(g, t) /\ mu[t] = Free /\ r \in Settings /\ t \in Timers /\ mu' = mu
        /\ Becomes(t, r.when, r.seq, b, b, r.blocked + 1, r.sending)
        /\ zombies' = zombies - IF revive THEN 1 ELSE 0
        /\ thrown' = thrown /\ heap' = heap
        /\ pc'[g] \in {"add", "parked"}
    BY <1>5, <1>t, BlockEffect DEF Alters
  <2>2. BitsAt(t) BY <2>1 DEF TimersBits
  <2>3. BitsAt(t)'
    <3>1. timer'[t].when = r.when /\ timer'[t].bits = b /\ timer'[t].astate = b
      BY <2>1 DEF Becomes
    <3> QED BY <2>1, <2>2, <3>1 DEF BitsAt
  <2>4. "zombie" \in timer'[t].bits <=> "zombie" \in r.bits /\ ~revive BY <2>1 DEF Becomes
  <2>5. zombies' = zombies + (IF "zombie" \in timer'[t].bits THEN 1 ELSE 0)
                           - (IF "zombie" \in timer[t].bits THEN 1 ELSE 0)
    BY <2>1, <2>4, <1>0
  <2>6. pc'[g] \notin Mods BY <2>1 DEF Mods
  <2> QED BY <1>0, <2>1, <2>3, <2>5, <2>6, BitsChange
<1>6. CASE Unblock(g)
  <2> DEFINE last == r.blocked = 1 /\ "heaped" \in r.bits /\ "zombie" \notin r.bits
             b == IF last THEN r.bits \cup {"zombie"} ELSE r.bits
  <2>1. /\ Alters(g, t) /\ mu[t] = Free /\ r \in Settings /\ t \in Timers /\ mu' = mu
        /\ Becomes(t, r.when, r.seq, b, b, r.blocked - 1, r.sending)
        /\ zombies' = zombies + IF last THEN 1 ELSE 0
        /\ thrown' = (thrown \/ r.blocked = 0)
        /\ heap' = heap /\ pc'[g] = "ret" /\ pc[g] = "unblock" /\ loc[g].op = "recv"
    BY <1>6, <1>t, UnblockEffect DEF Alters
  <2>2. BitsAt(t) BY <2>1 DEF TimersBits
  <2>3. BitsAt(t)'
    <3>1. timer'[t].when = r.when /\ timer'[t].bits = b /\ timer'[t].astate = b
      BY <2>1 DEF Becomes
    <3> QED BY <2>1, <2>2, <3>1 DEF BitsAt
  <2>4. "zombie" \in timer'[t].bits <=> "zombie" \in r.bits \/ last BY <2>1 DEF Becomes
  <2>5. zombies' = zombies + (IF "zombie" \in timer'[t].bits THEN 1 ELSE 0)
                           - (IF "zombie" \in timer[t].bits THEN 1 ELSE 0)
    BY <2>1, <2>4, <1>0
  <2>6. pc'[g] \notin Mods BY <2>1 DEF Mods
  <2>7. r.blocked # 0
    <3>1. g \in Waiting(t) /\ Waiting(t) \in SUBSET Users BY <2>1, <1>t DEF Waiting
    <3>2. Cardinality(Waiting(t)) > 0 BY <3>1, TimersAssumption, CountSome
    <3> QED BY <3>2, <2>1 DEF TimersWait, LineAt
  <2> QED BY <1>0, <2>1, <2>3, <2>5, <2>6, <2>7, BitsChange
<1> QED BY <1>1, <1>2, <1>3, <1>4, <1>5, <1>6

(* The bits are right after every step, which throws nothing. *)
LEMMA BitsStep ==
  ASSUME TimersType, TimersType', TimersPlace, TimersLocks, TimersBits, TimersWake, TimersWait,
         TimersNext
  PROVE  TimersBits'
<1>0. /\ \A g \in Users : g \in Actors /\ loc[g] \in Locs
      /\ \A m \in Ms : m \in Actors /\ m \notin Users
      /\ \A a \in Actors : a \in Users \/ a \in Ms
      /\ ~thrown
  BY TimersAssumption DEF Actors, TimersType, TimersBits
<1>1. ASSUME NEW a \in Actors, UNCHANGED << mu, heap, zombies >>, thrown' = thrown,
             \A u \in Timers : /\ timer'[u].when = timer[u].when /\ timer'[u].bits = timer[u].bits
                               /\ timer'[u].astate = timer[u].astate,
             a \in Users /\ pc'[a] \in Mods => pc[a] \in Mods /\ UNCHANGED loc,
             \A b \in Actors \ {a} :
               /\ pc'[b] = pc[b] \/ pc'[b] \notin Mods
               /\ loc'[b].t = loc[b].t /\ loc'[b].when = loc[b].when
      PROVE  TimersBits'
  <2>1. \A g \in Users : pc'[g] \in Mods => pc[g] \in Mods /\ loc'[g].t = loc[g].t
                                              /\ loc'[g].when = loc[g].when
    BY <1>0, <1>1
  <2> QED BY <1>0, <1>1, <2>1, BitsKeep
<1>2. ASSUME NEW g \in Users, Call(g) \/ Return(g) \/ LockSend(g) \/ Drain(g) \/ Publish(g)
                                \/ AddLock(g) \/ CleanDone(g)
      PROVE  TimersBits'
  <2>1. UNCHANGED << mu, heap, zombies, thrown, timer >>
    BY <1>2 DEF Call, Return, LockSend, Drain, Publish, AddLock, CleanDone, ts
  <2>2. \A b \in Actors \ {g} : pc'[b] = pc[b] /\ loc'[b] = loc[b]
    <3>0. CASE Call(g) BY <3>0, CallMoves
    <3>1. CASE Return(g) \/ LockSend(g)
      BY <3>1, <1>0 DEF Return, LockSend, To, Drop, TimersType
    <3>2. CASE Drain(g)
      BY <3>2, <1>0 DEF Drain, To, Drop, TimersType
    <3>3. CASE Publish(g) \/ AddLock(g) \/ CleanDone(g)
      BY <3>3, <1>0 DEF Publish, AddLock, CleanDone, To, TimersType
    <3> QED BY <1>2, <3>0, <3>1, <3>2, <3>3
  <2>3. pc'[g] \in Mods => pc[g] \in Mods /\ UNCHANGED loc
    BY <1>2, <1>0 DEF Call, Return, LockSend, Drain, Publish, AddLock, CleanDone, From, To, Mods,
                      TimersType
  <2> QED BY <1>0, <1>1, <2>1, <2>2, <2>3
<1>3. ASSUME NEW g \in Users, Recv(g) PROVE TimersBits'
  <2>1. UNCHANGED << mu, heap, zombies, thrown, timer >> BY <1>3 DEF Recv, ts
  <2>2. \A b \in Actors \ {g} : pc'[b] = pc[b]
    BY <1>3, <1>0 DEF Recv, To, TimersType
  <2>3. \A b \in Actors \ {g} : loc'[b].t = loc[b].t /\ loc'[b].when = loc[b].when
    <3>1. \/ UNCHANGED loc
          \/ loc' = [a \in Actors |->
                       IF a = g THEN [loc[a] EXCEPT !.ret = TRUE]
                       ELSE IF pc[a] = "drain" /\ T(a) = T(g) THEN [loc[a] EXCEPT !.was = FALSE]
                       ELSE loc[a]]
      BY <1>3 DEF Recv
    <3>2. loc \in [Actors -> Locs] BY DEF TimersType
    <3> QED BY <3>1, <3>2 DEF Locs
  <2>4. pc'[g] \notin Mods BY <1>3, <1>0 DEF Recv, To, TimersType, Mods
  <2> QED BY <1>0, <1>1, <2>1, <2>2, <2>3, <2>4
<1>4. ASSUME NEW a \in Actors, Send(a) PROVE TimersBits'
  <2>1. UNCHANGED << mu, heap, zombies, thrown, loc >> /\ pc[a] = "send"
    BY <1>4 DEF Send, SendWith, ts, From
  <2>2. T(a) \in Timers BY <2>1, AtTimer
  <2>3. \A u \in Timers : /\ timer'[u].when = timer[u].when /\ timer'[u].bits = timer[u].bits
                          /\ timer'[u].astate = timer[u].astate
    BY <1>4, SendSame
  <2>4. \A b \in Actors \ {a} : pc'[b] = pc[b] BY <1>4 DEF Send, SendWith, To, TimersType
  <2>5. pc'[a] \in {loc[a].back, "sending"} BY <1>4 DEF Send, SendWith, To, TimersType
  <2>6. a \in Users => loc[a].back \in {"empty", "recv"} BY <2>1 DEF TimersPlace, UserAt
  <2>7. a \in Users => pc'[a] \notin Mods BY <2>5, <2>6 DEF Mods
  <2> QED BY <1>1, <2>1, <2>3, <2>4, <2>7
<1>5. ASSUME NEW a \in Actors, SendTime(a) PROVE TimersBits'
  <2>1. UNCHANGED << mu, heap, zombies, thrown, timer, loc >> /\ pc[a] = "sending"
    BY <1>5 DEF SendTime, ts, From
  <2>2. a \in Users => loc[a].back \in {"empty", "recv"} BY <2>1 DEF TimersPlace, UserAt
  <2>2a. a \in Ms => loc[a].back = "relock" BY <2>1 DEF TimersPlace, CheckAt
  <2>3. \A b \in Actors : pc'[b] \in {pc[b], "unblock"} \/ (b = a /\ pc'[b] = loc[a].back)
    BY <1>5 DEF SendTime, To, TimersType
  <2>4. pc'[a] \notin Mods BY <1>0, <2>1, <2>2, <2>2a, <2>3 DEF Mods
  <2>5. \A b \in Actors \ {a} : pc'[b] = pc[b] \/ pc'[b] \notin Mods BY <2>3 DEF Mods
  <2> QED BY <1>1, <2>1, <2>4, <2>5
<1>6. ASSUME NEW m \in Ms,
             Check(m) \/ Adjust(m) \/ Clear(m) \/ EndScan(m) \/ Relock(m) \/ UnlockTs(m)
      PROVE  TimersBits'
  <2>0. zombies >= 0
    <3>1. Zombies \in SUBSET Timers BY DEF Zombies
    <3>2. Cardinality(Zombies) \in Nat BY <3>1, TimersAssumption, Countable
    <3> QED BY <3>2 DEF TimersBits
  <2>1. UNCHANGED << mu, heap, zombies, timer >> /\ thrown' = thrown
    <3>1. UNCHANGED << mu, heap, zombies, timer >> /\ (thrown' = thrown \/ thrown' = (thrown \/ zombies < 0))
      BY <1>6 DEF Check, Adjust, Clear, EndScan, Relock, UnlockTs, ts
    <3>2. ~(zombies < 0) BY <2>0 DEF TimersType
    <3>3. CASE thrown' = thrown BY <3>1, <3>3
    <3>4. CASE thrown' = (thrown \/ zombies < 0)
      <4>1. ~thrown' BY <3>2, <3>4, <1>0
      <4>2. thrown' = FALSE BY <3>2, <3>4, <1>0
      <4>3. thrown = FALSE BY <1>0
      <4> QED BY <3>1, <4>2, <4>3
    <3> QED BY <3>1, <3>3, <3>4
  <2>2. \A b \in Actors \ {m} : pc'[b] = pc[b] /\ loc'[b] = loc[b]
    BY <1>6, <1>0 DEF Check, Adjust, Clear, EndScan, Relock, UnlockTs, To, Drop, TimersType
  <2> QED BY <1>0, <1>1, <2>1, <2>2
<1>7. ASSUME NEW g \in Users, CleanHead(g) PROVE TimersBits'
  <2>1. PICK t \in Timers : Cleaned(t) /\ Alters(g, t) BY <1>7, CleanEffect
  <2>2. UNCHANGED << pc, loc, mu, thrown >> BY <1>7, CleanEffect
  <2> QED BY <1>0, <2>1, <2>2, CleanedBits
<1>8. ASSUME NEW g \in Users, MaybeRunChan(g) PROVE TimersBits'
  <2>0. UNCHANGED mu BY <1>8 DEF MaybeRunChan
  <2>1. CASE /\ pc'[g] \in {"empty", "recv"} /\ \A b \in Actors \ {g} : pc'[b] = pc[b]
             /\ UNCHANGED << timer, ts, loc, hist, thrown >>
    <3>1. pc'[g] \notin Mods BY <2>1 DEF Mods
    <3> QED BY <1>0, <1>1, <2>0, <2>1, <3>1 DEF ts
  <2>2. ASSUME NEW back \in {"empty", "recv"}, Ran(g, T(g), back), timer[T(g)].bits = {}
        PROVE  TimersBits'
    <3>1. ~Dirty(timer[T(g)].bits) /\ T(g) \in Timers BY <2>2 DEF Dirty, Ran, Alters
    <3> QED BY <1>0, <2>2, <3>1, RanBits
  <2> QED BY <1>8, <2>1, <2>2, MaybeRunCases
<1>9. ASSUME NEW m \in Ms, Scan(m) PROVE TimersBits'
  <2>1. PICK t \in todo :
          \/ UNCHANGED << timer, heap, zombies, thrown >>
          \/ /\ Cleaned(t) /\ Alters(m, t)
             /\ thrown' = (thrown \/ "heaped" \notin timer[t].bits)
    BY <1>9, ScanEffect
  <2>2. UNCHANGED << mu, pc, loc >> BY <1>9, ScanEffect
  <2>3. t \in DOMAIN heap /\ t \in Timers BY DEF TimersWake, TimersType
  <2>4. CASE UNCHANGED << timer, heap, zombies, thrown >> BY <1>0, <1>1, <2>2, <2>4
  <2>5. CASE /\ Cleaned(t) /\ Alters(m, t)
             /\ thrown' = (thrown \/ "heaped" \notin timer[t].bits)
    <3>1. "heaped" \in timer[t].bits BY <2>3 DEF TimersBits, BitsAt
    <3>2. ~thrown' BY <2>5, <3>1, <1>0
    <3> QED BY <1>0, <2>2, <2>3, <2>5, <3>2, CleanedBits
  <2> QED BY <2>1, <2>4, <2>5
<1>10. ASSUME NEW m \in Ms, Run(m) PROVE TimersBits'
  <2>0. UNCHANGED mu BY <1>10, RunCases
  <2>1. CASE /\ pc'[m] \in {"forced", "unlockTs"} /\ \A b \in Actors \ {m} : pc'[b] = pc[b]
             /\ UNCHANGED << timer, ts, loc, hist, thrown >>
    BY <1>0, <1>1, <2>0, <2>1 DEF ts
  <2>2. ASSUME NEW t \in Timers, Refreshed(t), Alters(m, t),
               UNCHANGED << len, tsmu, pc, loc, hist, thrown >>
        PROVE  TimersBits'
    BY <1>0, <2>0, <2>2, CleanedBits DEF Refreshed
  <2>3. ASSUME NEW t \in DOMAIN heap, t \in Timers, mu[t] = Free, ~Dirty(timer[t].bits),
               UnlockAndRun(m, t, "relock")
        PROVE  TimersBits'
    <3>1. UNCHANGED << scene, now, mu, sendLock, chans, todo, calls >> BY <1>10, RunCases
    <3>2. Ran(m, t, "relock") BY <1>0, <2>3, <3>1, RanThis
    <3> QED BY <1>0, <2>3, <3>2, RanBits
  <2> QED BY <1>10, <2>1, <2>2, <2>3, RunCases
<1>11. CASE Tick
  <2>1. UNCHANGED << mu, heap, zombies, thrown, timer, pc, loc >> BY <1>11 DEF Tick, ts
  <2> QED BY <1>0, <2>1, BitsKeep
<1> QED BY <1>2, <1>3, <1>4, <1>5, <1>6, <1>7, <1>8, <1>9, <1>10, <1>11, StepCases, BitsUserStep

(* Only who holds ts.mu goes through the heap. *)
LEMMA NoScan ==
  ASSUME TimersLocks, TimersWake, tsmu \notin Ms \/ pc[tsmu] \notin {"clear", "scan"}
  PROVE  /\ todo = {} /\ \A m \in Ms : pc[m] \notin {"clear", "scan"}
         /\ \A t \in DOMAIN heap : 0 < minHeap /\ minHeap <= heap[t]
<1>1. ASSUME NEW m \in Ms, pc[m] \in {"clear", "scan"} PROVE FALSE
  <2>1. tsmu = m BY <1>1 DEF TimersLocks, LocksAt, HoldsTs, Actors
  <2> QED BY <1>1, <2>1
<1> QED BY <1>1 DEF TimersWake

(* The wakeups after a step that alters one timer, and after one that alters none. *)
LEMMA WakeChange ==
  ASSUME TimersType, TimersType', TimersPlace, TimersLocks, TimersBits', TimersWake,
         NEW a \in Actors, NEW t \in Timers, Alters(a, t), UNCHANGED missed,
         todo' \subseteq DOMAIN heap', \A u \in todo : u = t \/ u \in todo',
         todo' # {} => \E m \in Ms : pc'[m] = "scan",
         \/ \E m \in Ms : pc'[m] \in {"clear", "scan"}
         \/ \A u \in DOMAIN heap' : 0 < minHeap' /\ minHeap' <= heap'[u],
         minMod' = minMod \/ DOMAIN heap' = {},
         pc[a] # "publish",
         a \in Users /\ pc'[a] \in {"publish", "published"} => "modified" \in (Tm(a).astate)',
         WakeAt(t)'
  PROVE  TimersWake'
<1>1. ASSUME NEW g \in Users, pc'[g] \in {"publish", "published"}
      PROVE  "modified" \in (Tm(g).astate)'
  <2>1. CASE g = a BY <1>1, <2>1
  <2>2. CASE g # a
    <3>1. g \in Actors /\ g # Free BY TimersAssumption DEF Actors
    <3>2. pc[g] \in {"publish", "published"} /\ loc'[g] = loc[g] BY <1>1, <2>2, <3>1 DEF Alters
    <3>3. T(g) \in Timers BY <3>2, AtTimer
    <3>4. mu[T(g)] = g BY <3>1, <3>2, <3>3 DEF TimersLocks, LocksAt, HoldsMu, Mods
    <3>5. T(g) # t BY <2>2, <3>1, <3>4 DEF Alters
    <3>6. timer'[T(g)] = timer[T(g)] BY <3>3, <3>5 DEF Alters
    <3> QED BY <3>2, <3>6 DEF Tm, T, TimersWake
  <2> QED BY <2>1, <2>2
<1>2. ASSUME NEW u \in Timers PROVE WakeAt(u)'
  <2>1. CASE u = t BY <2>1
  <2>2. CASE u # t
    <3>1. WakeAt(u) /\ timer'[u] = timer[u] BY <2>2 DEF TimersWake, Alters
    <3>2. Publishing(u) => Publishing(u)'
      <4> SUFFICES ASSUME NEW g \in Users, pc[g] = "publish", T(g) = u PROVE Publishing(u)'
        BY DEF Publishing
      <4>1. g \in Actors \ {a} BY DEF Actors
      <4>2. pc'[g] = "publish" /\ loc'[g] = loc[g] BY <4>1 DEF Alters
      <4> QED BY <4>2 DEF Publishing, T
    <3>3. "modified" \in timer[u].bits => DOMAIN heap' # {}
      <4>1. BitsAt(u)' BY DEF TimersBits
      <4> QED BY <3>1, <4>1 DEF BitsAt
    <3> QED BY <2>2, <3>1, <3>2, <3>3 DEF WakeAt
  <2> QED BY <2>1, <2>2
<1> QED BY <1>1, <1>2 DEF TimersWake

(* ... after a step that touches neither the heap nor the wakeups. *)
LEMMA WakeKeep ==
  ASSUME TimersType, TimersType', TimersPlace, TimersWake, NEW a \in Actors,
         UNCHANGED << heap, minHeap, minMod, missed, todo >>,
         \A u \in Timers : /\ timer'[u].when = timer[u].when /\ timer'[u].bits = timer[u].bits
                           /\ timer'[u].astate = timer[u].astate,
         \A b \in Actors \ {a} :
           /\ pc'[b] = pc[b] \/ (pc[b] = "parked" /\ pc'[b] = "unblock")
           /\ loc'[b].t = loc[b].t,
         pc[a] \notin {"clear", "scan", "publish"},
         pc'[a] \notin {"publish", "published"} \/ (pc'[a] = pc[a] /\ UNCHANGED loc)
  PROVE  TimersWake'
<1>0. \A g \in Users \cup Ms : g \in Actors BY DEF Actors
<1>1. \A m \in Ms : pc[m] \in {"clear", "scan"} => pc'[m] = pc[m] BY <1>0
<1>2. ASSUME NEW g \in Users, pc'[g] \in {"publish", "published"}
      PROVE  "modified" \in (Tm(g).astate)'
  <2>1. pc[g] = pc'[g] /\ loc'[g].t = loc[g].t BY <1>0, <1>2
  <2>2. T(g) \in Timers BY <1>2, <2>1, AtTimer
  <2> QED BY <1>2, <2>1, <2>2 DEF Tm, T, TimersWake
<1>3. \A u \in Timers : Publishing(u) => Publishing(u)' BY <1>0 DEF Publishing, T
<1>4. \A u \in Timers : WakeAt(u)' BY <1>3 DEF WakeAt, TimersWake
<1> QED BY <1>1, <1>2, <1>4 DEF TimersWake

(* After updateHeap the head of the heap is known. *)
LEMMA HeadKnown ==
  ASSUME TimersType', minHeap' = MinOf(heap')
  PROVE  \A u \in DOMAIN heap' : 0 < minHeap' /\ minHeap' <= heap'[u]
<1>1. \A u \in DOMAIN heap' : heap'[u] \in Nat \ {0} BY DEF TimersType
<1> DEFINE h == heap'
<1>2. \A u \in DOMAIN h : h[u] \in Nat \ {0} BY <1>1
<1> HIDE DEF h
<1>3. \A u \in DOMAIN h : 0 < MinOf(h) /\ MinOf(h) <= h[u] BY <1>2, LeastEntry
<1> QED BY <1>3 DEF h

(* The empty heap has no entries. *)
LEMMA EmptyDomain == DOMAIN << >> = {}
  OBVIOUS

(* The wakeups after an entry of the heap is brought up to date ... *)
LEMMA CleanedWake ==
  ASSUME TimersType, TimersType', TimersPlace, TimersLocks, TimersBits, TimersBits', TimersWake,
         NEW a \in Actors, NEW t \in Timers, Alters(a, t), Cleaned(t),
         UNCHANGED << pc, loc, missed, todo >>, tsmu = a,
         pc[a] \in {"clean", "run"},
         \/ Refreshed(t)
         \/ "zombie" \in timer[t].bits /\ UNCHANGED << minHeap, minMod >>
  PROVE  TimersWake'
<1>1. /\ todo = {} /\ \A m \in Ms : pc[m] \notin {"clear", "scan"}
      /\ \A u \in DOMAIN heap : 0 < minHeap /\ minHeap <= heap[u]
  BY NoScan
<1>2. "modified" \notin timer'[t].bits BY DEF Cleaned, Becomes
<1>3. WakeAt(t)' BY <1>2 DEF WakeAt
<1>4. \A u \in DOMAIN heap' : 0 < minHeap' /\ minHeap' <= heap'[u]
  <2>1. CASE Refreshed(t) BY <2>1, HeadKnown DEF Refreshed
  <2>2. CASE "zombie" \in timer[t].bits /\ UNCHANGED << minHeap, minMod >>
    BY <1>1, <2>2 DEF Cleaned, HeapDrops
  <2> QED BY <2>1, <2>2
<1>5. minMod' = minMod \/ DOMAIN heap' = {}
  BY EmptyDomain DEF Refreshed
<1>6. a \in Users /\ pc'[a] \in {"publish", "published"} => "modified" \in (Tm(a).astate)'
  OBVIOUS
<1> QED BY <1>1, <1>3, <1>4, <1>5, <1>6, WakeChange

(* ... after a timer goes off ... *)
LEMMA RanWake ==
  ASSUME TimersType, TimersType', TimersPlace, TimersLocks, TimersBits, TimersBits', TimersWake,
         NEW a \in Actors, NEW t \in Timers, NEW back \in {"empty", "recv", "relock"},
         Ran(a, t, back), ~Dirty(timer[t].bits),
         "heaped" \in timer[t].bits => tsmu = a, pc[a] \in {"run", "empty"}
  PROVE  TimersWake'
<1> DEFINE r == timer[t]
<1>1. /\ Alters(a, t) /\ UNCHANGED << missed, todo >>
      /\ pc'[a] \in {"send", "empty", "recv", "relock"}
  BY DEF Ran
<1>2. "modified" \notin timer'[t].bits BY DEF Ran, Becomes, Dirty
<1>3. WakeAt(t)' BY <1>2 DEF WakeAt
<1>4. minMod' = minMod \/ DOMAIN heap' = {} BY EmptyDomain DEF Ran
<1>5. CASE "heaped" \in r.bits
  <2>1. /\ todo = {} /\ \A m \in Ms : pc[m] \notin {"clear", "scan"}
    BY <1>5, NoScan
  <2>2. \A u \in DOMAIN heap' : 0 < minHeap' /\ minHeap' <= heap'[u]
    BY <1>5, HeadKnown DEF Ran
  <2> QED BY <1>1, <1>3, <1>4, <2>1, <2>2, WakeChange
<1>6. CASE "heaped" \notin r.bits
  <2>1. heap' = heap /\ minHeap' = minHeap BY <1>6 DEF Ran
  <2>2. \A m \in Ms : pc[m] \in {"clear", "scan"} => pc'[m] = pc[m] BY <1>1 DEF Alters, Actors
  <2>3. /\ todo' \subseteq DOMAIN heap'
        /\ todo' # {} => \E m \in Ms : pc'[m] = "scan"
        /\ \/ \E m \in Ms : pc'[m] \in {"clear", "scan"}
           \/ \A u \in DOMAIN heap' : 0 < minHeap' /\ minHeap' <= heap'[u]
    BY <1>1, <2>1, <2>2 DEF TimersWake
  <2>4. \A u \in todo : u = t \/ u \in todo' BY <1>1
  <2>5. /\ pc[a] # "publish"
        /\ a \in Users /\ pc'[a] \in {"publish", "published"} => "modified" \in (Tm(a).astate)'
    BY <1>1
  <2> QED BY <1>1, <1>3, <1>4, <2>3, <2>4, <2>5, WakeChange
<1> QED BY <1>5, <1>6

(* ... after the steps of a goroutine that set timers: modify lowers minWhenModified ... *)
LEMMA WakeUserStep ==
  ASSUME TimersType, TimersType', TimersPlace, TimersLocks, TimersBits, TimersBits', TimersWake,
         NEW g \in Users,
         \/ Stop(g) \/ ModifyLock(g) \/ Publish(g) \/ ModifyUnlock(g) \/ Insert(g)
         \/ Block(g) \/ Unblock(g)
  PROVE  TimersWake'
<1>0. g \in Actors /\ g \notin Ms /\ g # Free BY TimersAssumption DEF Actors
<1>t. PICK t \in Timers : t = T(g)
  <2>0. Publish(g) => T(g) \in Timers BY AtTimer DEF Publish, From
  <2>1. T(g) \in Timers
    BY <2>0, StopEffect, ModifyLockEffect, ModifyUnlockEffect, InsertEffect, BlockEffect,
       UnblockEffect DEF Alters
  <2> QED BY <2>1
<1> DEFINE r == timer[t]
<1>b. BitsAt(t) /\ BitsAt(t)' /\ WakeAt(t) BY DEF TimersBits, TimersWake
<1>1. ASSUME Alters(g, t), UNCHANGED << heap, minHeap, minMod, missed, todo >>,
             pc[g] # "publish",
             pc'[g] \in {"publish", "published"} => "modified" \in (Tm(g).astate)', WakeAt(t)'
      PROVE  TimersWake'
  <2>1. \A m \in Ms : pc'[m] = pc[m] BY <1>0, <1>1 DEF Alters, Actors
  <2>2. /\ todo' \subseteq DOMAIN heap'
        /\ todo' # {} => \E m \in Ms : pc'[m] = "scan"
        /\ \/ \E m \in Ms : pc'[m] \in {"clear", "scan"}
           \/ \A u \in DOMAIN heap' : 0 < minHeap' /\ minHeap' <= heap'[u]
    BY <1>1, <2>1 DEF TimersWake
  <2>3. \A u \in todo : u = t \/ u \in todo' BY <1>1
  <2> QED BY <1>0, <1>1, <2>2, <2>3, WakeChange
<1>2. CASE Stop(g)
  <2> DEFINE b == IF "heaped" \in r.bits THEN r.bits \cup {"modified", "zombie"} ELSE r.bits
  <2>1. /\ Alters(g, t) /\ pc[g] = "lock"
        /\ Becomes(t, 0, NextSeq(t), b, b, r.blocked, r.sending)
        /\ pc'[g] \in {"drain", "ret"}
        /\ UNCHANGED << heap, minHeap, minMod, missed, todo >>
    BY <1>2, <1>t, StopEffect
  <2>2. timer'[t].when = 0 BY <2>1 DEF Becomes
  <2>3. WakeAt(t)' BY <2>2 DEF WakeAt
  <2>4. pc'[g] \notin {"publish", "published"} BY <2>1
  <2> QED BY <1>1, <2>1, <2>3, <2>4
<1>3. CASE ModifyLock(g)
  <2> DEFINE b == IF "heaped" \in r.bits THEN (r.bits \cup {"modified"}) \ {"zombie"} ELSE r.bits
             wake == "heaped" \in r.bits /\ (minMod = 0 \/ loc[g].when < minMod)
             as == IF wake THEN b ELSE r.astate
  <2>1. /\ Alters(g, t) /\ pc[g] = "lock" /\ loc[g].op = "reset"
        /\ Becomes(t, loc[g].when, r.seq, b, as, r.blocked, r.sending)
        /\ loc'[g] = [loc[g] EXCEPT !.ret = r.when > 0]
        /\ pc'[g] = (IF wake THEN "publish" ELSE "unlock")
        /\ UNCHANGED << heap, minHeap, minMod, missed, todo >>
    BY <1>3, <1>t, ModifyLockEffect
  <2>2. timer'[t].when = loc[g].when /\ timer'[t].bits = b /\ timer'[t].astate = as
    BY <2>1 DEF Becomes
  <2>3. T(g)' = t
    <3>1. loc[g] \in Locs BY <1>0 DEF TimersType
    <3> QED BY <2>1, <1>t, <3>1 DEF Locs, T
  <2>4. pc'[g] \in {"publish", "published"} => "modified" \in (Tm(g).astate)'
    <3>1. wake => "modified" \in as OBVIOUS
    <3> QED BY <2>1, <2>2, <2>3, <3>1 DEF Tm
  <2>5. WakeAt(t)'
    <3>1. CASE wake
      <4>1. Publishing(t)' BY <2>1, <2>3, <3>1 DEF Publishing
      <4> QED BY <4>1 DEF WakeAt
    <3>2. CASE ~wake /\ "heaped" \in r.bits
      <4>1. loc[g].when \in Nat BY <1>0 DEF TimersType, Locs
      <4>2. 0 < minMod' /\ minMod' <= timer'[t].when
        BY <2>1, <2>2, <3>2, <4>1 DEF TimersType
      <4> QED BY <4>2 DEF WakeAt
    <3>3. CASE "heaped" \notin r.bits
      <4>1. r.bits = {} BY <1>b, <3>3 DEF BitsAt
      <4>2. timer'[t].bits = {} BY <2>2, <4>1
      <4> QED BY <4>2 DEF WakeAt
    <3> QED BY <3>1, <3>2, <3>3
  <2> QED BY <1>1, <2>1, <2>4, <2>5
<1>4. CASE Publish(g)
  <2>1. /\ pc[g] = "publish" /\ To(g, "published")
        /\ minMod' = IF minMod # 0 /\ minMod < loc[g].when THEN minMod ELSE loc[g].when
        /\ UNCHANGED << timer, heap, minHeap, missed, todo, loc >>
    BY <1>4 DEF Publish, From, hist
  <2>2. loc[g].when \in Nat \ {0} /\ r.when = loc[g].when
    <3>1. loc[g].when \in Nat BY <1>0 DEF TimersType, Locs
    <3>2. loc[g].op = "reset" /\ loc[g].when > 0 BY <2>1 DEF TimersPlace, UserAt, Mods
    <3>3. r.when = loc[g].when BY <2>1, <1>t DEF TimersBits, Tm, Mods
    <3> QED BY <3>1, <3>2, <3>3
  <2>3. 0 < minMod' /\ minMod' <= r.when /\ (0 < minMod => minMod' <= minMod)
    BY <2>1, <2>2 DEF TimersType
  <2>4. \A b \in Actors : pc'[b] = (IF b = g THEN "published" ELSE pc[b])
    BY <2>1, <1>0 DEF To, TimersType
  <2>5. \A m \in Ms : pc'[m] = pc[m] BY <2>4, <1>0 DEF Actors
  <2>6. ASSUME NEW h \in Users, pc'[h] \in {"publish", "published"}
        PROVE  "modified" \in (Tm(h).astate)'
    <3>1. pc[h] \in {"publish", "published"} BY <2>1, <2>4, <2>6 DEF Actors
    <3> QED BY <2>1, <3>1 DEF TimersWake, Tm, T
  <2>7. ASSUME NEW u \in Timers PROVE WakeAt(u)'
    <3>1. WakeAt(u) /\ timer[u].when \in Nat BY DEF TimersWake, TimersType, Settings
    <3>2. CASE u = t BY <2>1, <2>3, <3>2 DEF WakeAt
    <3>3. CASE u # t
      <4>1. Publishing(u) => Publishing(u)'
        <5> SUFFICES ASSUME NEW h \in Users, pc[h] = "publish", T(h) = u PROVE Publishing(u)'
          BY DEF Publishing
        <5>1. h # g /\ h \in Actors BY <3>3, <1>t DEF Actors
        <5> QED BY <2>1, <2>4, <5>1 DEF Publishing, T
      <4>2. 0 < minMod /\ minMod <= timer[u].when => 0 < minMod' /\ minMod' <= timer'[u].when
        BY <2>1, <2>3, <3>1 DEF TimersType
      <4> QED BY <2>1, <3>1, <4>1, <4>2 DEF WakeAt
    <3> QED BY <3>2, <3>3
  <2> QED BY <2>1, <2>5, <2>6, <2>7 DEF TimersWake
<1>5. CASE ModifyUnlock(g)
  <2>1. /\ Alters(g, t) /\ pc[g] \in {"unlock", "published"}
        /\ Becomes(t, r.when, NextSeq(t), r.bits, r.bits, r.blocked, r.sending)
        /\ pc'[g] \in {"drain", "add", "ret"}
        /\ UNCHANGED << heap, minHeap, minMod, missed, todo >>
    BY <1>5, <1>t, ModifyUnlockEffect
  <2>2. timer'[t].when = r.when /\ timer'[t].bits = r.bits /\ timer'[t].astate = r.bits
    BY <2>1 DEF Becomes
  <2>3. Publishing(t) => Publishing(t)'
    <3> SUFFICES ASSUME NEW h \in Users, pc[h] = "publish", T(h) = t PROVE Publishing(t)'
      BY DEF Publishing
    <3>1. h \in Actors \ {g} BY <2>1 DEF Actors
    <3>2. pc'[h] = pc[h] /\ loc'[h] = loc[h] BY <2>1, <3>1 DEF Alters
    <3> QED BY <3>2 DEF Publishing, T
  <2>4. WakeAt(t)' BY <1>b, <2>1, <2>2, <2>3 DEF WakeAt
  <2>5. pc'[g] \notin {"publish", "published"} /\ pc[g] # "publish" BY <2>1
  <2> QED BY <1>1, <2>1, <2>4, <2>5
<1>6. CASE Insert(g)
  <2> DEFINE b == r.bits \cup {"heaped"}
             add == NeedsAdd(t, r)
  <2>1. /\ Alters(g, t) /\ tsmu = g /\ pc[g] = "insert"
        /\ add => /\ Becomes(t, r.when, r.seq, b, b, r.blocked, r.sending)
                  /\ HeapPuts(t, r.when)
        /\ ~add => UNCHANGED << timer, heap >>
        /\ minHeap' = (IF add /\ t \in Heads(heap') THEN MinOf(heap') ELSE minHeap)
        /\ pc'[g] \in {"parked", "ret"}
        /\ UNCHANGED << minMod, missed, todo, loc >>
    BY <1>6, <1>t, InsertEffect
  <2>2. /\ todo = {} /\ \A m \in Ms : pc[m] \notin {"clear", "scan"}
        /\ \A u \in DOMAIN heap : 0 < minHeap /\ minHeap <= heap[u]
    BY <2>1, <1>0, NoScan
  <2>3. WakeAt(t)'
    <3>1. CASE add
      <4>1. r.bits = {} BY <3>1, <1>b DEF NeedsAdd, BitsAt
      <4>2. "modified" \notin timer'[t].bits BY <2>1, <3>1, <4>1 DEF Becomes
      <4> QED BY <4>2 DEF WakeAt
    <3>2. CASE ~add
      <4>1. Publishing(t) => Publishing(t)'
        <5> SUFFICES ASSUME NEW h \in Users, pc[h] = "publish", T(h) = t PROVE Publishing(t)'
          BY DEF Publishing
        <5>1. h \in Actors \ {g} BY <2>1 DEF Actors
        <5>2. pc'[h] = pc[h] /\ loc'[h] = loc[h] BY <2>1, <5>1 DEF Alters
        <5> QED BY <5>2 DEF Publishing, T
      <4> QED BY <1>b, <2>1, <3>2, <4>1 DEF WakeAt
    <3> QED BY <3>1, <3>2
  <2>4. \A u \in DOMAIN heap' : 0 < minHeap' /\ minHeap' <= heap'[u]
    <3>1. CASE ~add BY <2>1, <2>2, <3>1
    <3>2. CASE add /\ t \in Heads(heap') BY <2>1, <3>2, HeadKnown
    <3>3. CASE add /\ t \notin Heads(heap')
      <4> DEFINE h == heap'
      <4>1. t \in DOMAIN h /\ \A u \in DOMAIN h : u # t => u \in DOMAIN heap /\ h[u] = heap[u]
        BY <2>1, <3>3 DEF HeapPuts
      <4>2. \A u \in DOMAIN h : h[u] \in Nat \ {0} BY DEF TimersType
      <4>3. minHeap' = minHeap /\ minHeap \in Nat BY <2>1, <3>3 DEF TimersType
      <4> HIDE DEF h
      <4>4. /\ MinOf(h) \in Nat /\ Heads(h) # {}
            /\ \A u \in DOMAIN h : MinOf(h) <= h[u]
        BY <4>1, <4>2, LeastEntry
      <4>5. PICK u \in Heads(h) : TRUE BY <4>4
      <4>6. u # t /\ u \in DOMAIN h /\ h[u] = MinOf(h) BY <3>3, <4>5 DEF Heads, h
      <4>7. 0 < minHeap /\ minHeap <= MinOf(h) BY <2>2, <4>1, <4>6
      <4>8. \A v \in DOMAIN h : 0 < minHeap /\ minHeap <= h[v]
        BY <4>2, <4>3, <4>4, <4>7
      <4> QED BY <4>3, <4>8 DEF h
    <3> QED BY <3>1, <3>2, <3>3
  <2>5. todo' = {} /\ minMod' = minMod /\ missed' = missed BY <2>1, <2>2
  <2>6. pc'[g] \notin {"publish", "published"} /\ pc[g] # "publish" BY <2>1
  <2>7. /\ todo' \subseteq DOMAIN heap' /\ \A u \in todo : u = t \/ u \in todo'
    BY <2>2, <2>5
  <2> QED BY <1>0, <2>1, <2>3, <2>4, <2>5, <2>6, <2>7, WakeChange
<1>7. CASE Block(g)
  <2> DEFINE revive == "zombie" \in r.bits /\ r.when > 0
             b == IF revive THEN r.bits \ {"zombie"} ELSE r.bits
  <2>1. /\ Alters(g, t) /\ pc[g] = "block" /\ mu[t] = Free
        /\ Becomes(t, r.when, r.seq, b, b, r.blocked + 1, r.sending)
        /\ pc'[g] \in {"add", "parked"}
        /\ UNCHANGED << heap, minHeap, minMod, missed, todo >>
    BY <1>7, <1>t, BlockEffect
  <2>2. timer'[t].when = r.when /\ timer'[t].bits = b /\ timer'[t].astate = b
    BY <2>1 DEF Becomes
  <2>3. Publishing(t) => Publishing(t)'
    <3> SUFFICES ASSUME NEW h \in Users, pc[h] = "publish", T(h) = t PROVE Publishing(t)'
      BY DEF Publishing
    <3>1. h \in Actors \ {g} BY <2>1 DEF Actors
    <3>2. pc'[h] = pc[h] /\ loc'[h] = loc[h] BY <2>1, <3>1 DEF Alters
    <3> QED BY <3>2 DEF Publishing, T
  <2>4. WakeAt(t)' BY <1>b, <2>1, <2>2, <2>3 DEF WakeAt
  <2>5. pc'[g] \notin {"publish", "published"} /\ pc[g] # "publish" BY <2>1
  <2> QED BY <1>1, <2>1, <2>4, <2>5
<1>8. CASE Unblock(g)
  <2> DEFINE last == r.blocked = 1 /\ "heaped" \in r.bits /\ "zombie" \notin r.bits
             b == IF last THEN r.bits \cup {"zombie"} ELSE r.bits
  <2>1. /\ Alters(g, t) /\ pc[g] = "unblock" /\ mu[t] = Free
        /\ Becomes(t, r.when, r.seq, b, b, r.blocked - 1, r.sending)
        /\ pc'[g] = "ret"
        /\ UNCHANGED << heap, minHeap, minMod, missed, todo >>
    BY <1>8, <1>t, UnblockEffect
  <2>2. timer'[t].when = r.when /\ timer'[t].bits = b /\ timer'[t].astate = b
    BY <2>1 DEF Becomes
  <2>3. Publishing(t) => Publishing(t)'
    <3> SUFFICES ASSUME NEW h \in Users, pc[h] = "publish", T(h) = t PROVE Publishing(t)'
      BY DEF Publishing
    <3>1. h \in Actors \ {g} BY <2>1 DEF Actors
    <3>2. pc'[h] = pc[h] /\ loc'[h] = loc[h] BY <2>1, <3>1 DEF Alters
    <3> QED BY <3>2 DEF Publishing, T
  <2>4. WakeAt(t)' BY <1>b, <2>1, <2>2, <2>3 DEF WakeAt
  <2>5. pc'[g] \notin {"publish", "published"} /\ pc[g] # "publish" BY <2>1
  <2> QED BY <1>1, <2>1, <2>4, <2>5
<1> QED BY <1>2, <1>3, <1>4, <1>5, <1>6, <1>7, <1>8

(* ... and after those of a thread: adjust clears it, and goes through the whole heap. *)
LEMMA WakeCheckStep ==
  ASSUME TimersType, TimersType', TimersPlace, TimersLocks, TimersBits, TimersBits', TimersWake,
         NEW m \in Ms,
         \/ Check(m) \/ Adjust(m) \/ Clear(m) \/ Scan(m) \/ EndScan(m) \/ Relock(m) \/ UnlockTs(m)
  PROVE  TimersWake'
<1>0. m \in Actors /\ m \notin Users /\ \A g \in Users : g \in Actors \ {m}
  BY TimersAssumption DEF Actors
<1>1. ASSUME Check(m) \/ Relock(m) \/ UnlockTs(m) PROVE TimersWake'
  <2>1. /\ UNCHANGED << heap, minHeap, minMod, missed, todo, timer >>
        /\ \A b \in Actors \ {m} : pc'[b] = pc[b] /\ loc'[b] = loc[b]
        /\ pc[m] \in {"idle", "relock", "unlockTs"} /\ pc'[m] \in {"adjust", "run", "idle"}
    BY <1>0, <1>1 DEF Check, Relock, UnlockTs, hist, From, To, Drop, TimersType
  <2>2. /\ pc[m] \notin {"clear", "scan", "publish"}
        /\ pc'[m] \notin {"publish", "published"}
    BY <2>1
  <2> QED BY <1>0, <2>1, <2>2, WakeKeep
<1>2. ASSUME UNCHANGED << timer, heap, missed >>,
             \A b \in Actors \ {m} : pc'[b] = pc[b] /\ loc'[b] = loc[b]
      PROVE  /\ \A u \in Timers : Publishing(u) => Publishing(u)'
             /\ \A g \in Users : pc'[g] \in {"publish", "published"} =>
                  "modified" \in (Tm(g).astate)'
  BY <1>0, <1>2 DEF Publishing, T, Tm, TimersWake
<1>3. CASE Adjust(m)
  <2>1. /\ UNCHANGED << heap, minMod, missed, todo, timer >>
        /\ \A b \in Actors \ {m} : pc'[b] = pc[b] /\ loc'[b] = loc[b]
        /\ pc[m] \in {"adjust", "forced"}
        /\ pc'[m] \in {"clear", "run"} /\ (pc'[m] = "run" => minHeap' = minHeap)
    BY <1>0, <1>3 DEF Adjust, hist, To, TimersType
  <2>2. todo = {} /\ \A u \in DOMAIN heap : 0 < minHeap /\ minHeap <= heap[u]
    <3>1. tsmu = m BY <1>0, <2>1 DEF TimersLocks, LocksAt, HoldsTs
    <3>2. pc[m] \notin {"clear", "scan"} BY <2>1
    <3> QED BY <3>1, <3>2, NoScan
  <2>3. \A u \in Timers : WakeAt(u)' BY <1>2, <2>1 DEF WakeAt, TimersWake
  <2> QED BY <1>2, <2>1, <2>2, <2>3 DEF TimersWake
<1>4. CASE Clear(m)
  <2>1. /\ UNCHANGED << heap, timer >> /\ minMod' = 0 /\ todo' = DOMAIN heap
        /\ missed' = {t \in DOMAIN heap : t \in missed \/ Counted(t)}
        /\ \A b \in Actors \ {m} : pc'[b] = pc[b] /\ loc'[b] = loc[b]
        /\ pc[m] = "clear" /\ pc'[m] = "scan" /\ loc' = loc /\ mu' = mu
    BY <1>0, <1>4 DEF Clear, From, To, TimersType
  <2>2. \A u \in Timers : Publishing(u) => Publishing(u)'
    BY <1>0, <2>1 DEF Publishing, T
  <2>3. \A g \in Users : pc'[g] \in {"publish", "published"} => "modified" \in (Tm(g).astate)'
    BY <1>0, <2>1 DEF T, Tm, TimersWake
  <2>4. ASSUME NEW u \in Timers PROVE WakeAt(u)'
    <3> SUFFICES ASSUME "modified" \in timer[u].bits, timer[u].when > 0
                 PROVE  \/ u \in missed' \/ Publishing(u)'
                        \/ u \in todo' /\ "modified" \in timer[u].astate
      BY <2>1 DEF WakeAt
    <3>1. u \in DOMAIN heap /\ WakeAt(u) /\ BitsAt(u) BY DEF TimersBits, BitsAt, TimersWake
    <3>2. CASE "modified" \in timer[u].astate BY <2>1, <3>1, <3>2
    <3>3. CASE "modified" \notin timer[u].astate
      <4>1. mu[u] # Free BY <3>1, <3>3 DEF BitsAt
      <4>2. PICK g \in Actors : mu[u] = g BY <4>1 DEF TimersType
      <4>3. g \in Users /\ pc[g] \in Mods /\ T(g) = u
        BY <4>2 DEF TimersLocks, LocksAt, HoldsMu
      <4>4. pc[g] \notin {"publish", "published"} BY <3>3, <4>3 DEF TimersWake, Tm
      <4>5. pc[g] = "unlock" BY <4>3, <4>4 DEF Mods
      <4>6. Counted(u) BY <3>3, <4>3, <4>5 DEF Counted
      <4> QED BY <2>1, <3>1, <4>6
    <3> QED BY <3>2, <3>3
  <2> QED BY <2>1, <2>3, <2>4 DEF TimersWake
<1>5. CASE Scan(m)
  <2>1. /\ pc[m] = "scan"
        /\ UNCHANGED << minHeap, minMod, pc, loc, missed >>
    BY <1>5, ScanEffect DEF hist
  <2>2. PICK t \in todo :
          /\ todo' = todo \ {t}
          /\ \/ ~Dirty(timer[t].astate) /\ UNCHANGED << timer, heap, zombies, thrown >>
             \/ Cleaned(t) /\ Alters(m, t)
    BY <1>5, ScanEffect
  <2>3. t \in DOMAIN heap /\ t \in Timers BY DEF TimersWake, TimersType
  <2>4. CASE ~Dirty(timer[t].astate) /\ UNCHANGED << timer, heap, zombies, thrown >>
    <3>1. "modified" \notin timer[t].astate BY <2>4 DEF Dirty
    <3>2. \A u \in Timers : Publishing(u) => Publishing(u)' BY <2>1 DEF Publishing, T
    <3>3. \A u \in Timers : WakeAt(u)' BY <2>1, <2>2, <2>4, <3>1, <3>2 DEF WakeAt, TimersWake
    <3>4. \A g \in Users : pc'[g] \in {"publish", "published"} => "modified" \in (Tm(g).astate)'
      BY <2>1, <2>4 DEF T, Tm, TimersWake
    <3> QED BY <2>1, <2>2, <2>4, <3>3, <3>4 DEF TimersWake
  <2>5. CASE Cleaned(t) /\ Alters(m, t)
    <3>1. "modified" \notin timer'[t].bits BY <2>5 DEF Cleaned, Becomes
    <3>2. WakeAt(t)' BY <3>1 DEF WakeAt
    <3>3. /\ todo' \subseteq DOMAIN heap' /\ \A u \in todo : u = t \/ u \in todo'
      BY <2>2, <2>5 DEF Cleaned, HeapDrops, HeapPuts, TimersWake
    <3>4. pc'[m] = "scan" BY <2>1
    <3>5. pc[m] # "publish" BY <2>1
    <3> QED BY <1>0, <2>1, <2>3, <2>5, <3>2, <3>3, <3>4, <3>5, WakeChange
  <2> QED BY <2>2, <2>4, <2>5
<1>6. CASE EndScan(m)
  <2>1. /\ UNCHANGED << heap, timer, minMod, missed, todo >> /\ minHeap' = MinOf(heap') /\ todo = {}
        /\ \A b \in Actors \ {m} : pc'[b] = pc[b] /\ loc'[b] = loc[b]
    BY <1>0, <1>6 DEF EndScan, hist, To, TimersType
  <2>2. \A u \in DOMAIN heap' : 0 < minHeap' /\ minHeap' <= heap'[u] BY <2>1, HeadKnown
  <2>3. \A u \in Timers : WakeAt(u)' BY <1>2, <2>1 DEF WakeAt, TimersWake
  <2> QED BY <1>2, <2>1, <2>2, <2>3 DEF TimersWake
<1> QED BY <1>1, <1>3, <1>4, <1>5, <1>6

(* No wakeup is too late, after every step. *)
LEMMA WakeStep ==
  ASSUME TimersType, TimersType', TimersPlace, TimersLocks, TimersBits, TimersBits', TimersWake,
         TimersWait, TimersNext
  PROVE  TimersWake'
<1>0. /\ \A g \in Users : g \in Actors
      /\ \A m \in Ms : m \in Actors /\ m \notin Users
      /\ \A a \in Actors : a \in Users \/ a \in Ms
  BY TimersAssumption DEF Actors
<1>2. ASSUME NEW g \in Users,
             Call(g) \/ Return(g) \/ LockSend(g) \/ Drain(g) \/ AddLock(g) \/ CleanDone(g)
      PROVE  TimersWake'
  <2>1. UNCHANGED << heap, minHeap, minMod, missed, todo, timer >>
    BY <1>2 DEF Call, Return, LockSend, Drain, AddLock, CleanDone, ts, hist
  <2>2. \A b \in Actors \ {g} : pc'[b] = pc[b] /\ loc'[b] = loc[b]
    <3>0. CASE Call(g) BY <3>0, CallMoves
    <3>1. CASE Return(g) \/ LockSend(g)
      BY <3>1, <1>0 DEF Return, LockSend, To, Drop, TimersType
    <3>2. CASE Drain(g)
      BY <3>2, <1>0 DEF Drain, To, Drop, TimersType
    <3>3. CASE AddLock(g) \/ CleanDone(g)
      BY <3>3, <1>0 DEF AddLock, CleanDone, To, TimersType
    <3> QED BY <1>2, <3>0, <3>1, <3>2, <3>3
  <2>3. /\ pc[g] \in {"idle", "ret", "sendLock", "drain", "add", "clean"}
        /\ pc'[g] \in {"run", "sendLock", "lock", "idle", "add", "ret", "clean", "insert"}
    BY <1>2, <1>0 DEF Call, Return, LockSend, Drain, AddLock, CleanDone, From, To, TimersType
  <2>4. pc[g] \notin {"clear", "scan", "publish"} /\ pc'[g] \notin {"publish", "published"}
    BY <2>3
  <2> QED BY <1>0, <2>1, <2>2, <2>4, WakeKeep
<1>3. ASSUME NEW g \in Users, Recv(g) PROVE TimersWake'
  <2>1. UNCHANGED << heap, minHeap, minMod, missed, todo, timer >>
    BY <1>3 DEF Recv, ts, hist, Receives
  <2>2. \A b \in Actors \ {g} : pc'[b] = pc[b]
    BY <1>3, <1>0 DEF Recv, To, TimersType
  <2>3. \A b \in Actors \ {g} : loc'[b].t = loc[b].t
    <3>1. \/ UNCHANGED loc
          \/ loc' = [a \in Actors |->
                       IF a = g THEN [loc[a] EXCEPT !.ret = TRUE]
                       ELSE IF pc[a] = "drain" /\ T(a) = T(g) THEN [loc[a] EXCEPT !.was = FALSE]
                       ELSE loc[a]]
      BY <1>3 DEF Recv
    <3>2. loc \in [Actors -> Locs] BY DEF TimersType
    <3> QED BY <3>1, <3>2 DEF Locs
  <2>4. pc[g] = "recv" /\ pc'[g] \in {"ret", "block"} BY <1>3, <1>0 DEF Recv, From, To, TimersType
  <2>5. pc[g] \notin {"clear", "scan", "publish"} /\ pc'[g] \notin {"publish", "published"}
    BY <2>4
  <2> QED BY <1>0, <2>1, <2>2, <2>3, <2>5, WakeKeep
<1>4. ASSUME NEW a \in Actors, Send(a) PROVE TimersWake'
  <2>1. UNCHANGED << heap, minHeap, minMod, missed, todo, loc >> /\ pc[a] = "send"
    BY <1>4 DEF Send, SendWith, ts, hist, From
  <2>2. T(a) \in Timers BY <2>1, AtTimer
  <2>3. \A u \in Timers : /\ timer'[u].when = timer[u].when /\ timer'[u].bits = timer[u].bits
                          /\ timer'[u].astate = timer[u].astate
    BY <1>4, <2>2, SendSame
  <2>4. \A b \in Actors \ {a} : pc'[b] = pc[b] BY <1>4 DEF Send, SendWith, To, TimersType
  <2>5. pc'[a] \in {loc[a].back, "sending"} BY <1>4 DEF Send, SendWith, To, TimersType
  <2>6. loc[a].back \in {"empty", "recv", "relock"}
    BY <1>0, <2>1 DEF TimersPlace, UserAt, CheckAt
  <2>7. pc[a] \notin {"clear", "scan", "publish"} /\ pc'[a] \notin {"publish", "published"}
    BY <2>1, <2>5, <2>6
  <2> QED BY <2>1, <2>3, <2>4, <2>7, WakeKeep
<1>5. ASSUME NEW a \in Actors, SendTime(a) PROVE TimersWake'
  <2>1. UNCHANGED << heap, minHeap, minMod, missed, todo, timer, loc >> /\ pc[a] = "sending"
    BY <1>5 DEF SendTime, ts, From, hist, Receives
  <2>2. loc[a].back \in {"empty", "recv", "relock"}
    BY <1>0, <2>1 DEF TimersPlace, UserAt, CheckAt
  <2>3. SendWakes(a) BY <1>5, SendTimeWakes
  <2>4. pc[a] \notin {"clear", "scan", "publish"} /\ pc'[a] \notin {"publish", "published"}
    BY <2>1, <2>2, <2>3 DEF SendWakes
  <2> QED BY <2>1, <2>3, <2>4, WakeKeep DEF SendWakes
<1>6. ASSUME NEW m \in Ms,
             \/ Check(m) \/ Adjust(m) \/ Clear(m) \/ Scan(m) \/ EndScan(m) \/ Relock(m)
             \/ UnlockTs(m)
      PROVE  TimersWake'
  BY <1>6, WakeCheckStep
<1>7. ASSUME NEW g \in Users, CleanHead(g) PROVE TimersWake'
  <2>1. PICK t \in Timers :
          /\ Cleaned(t) /\ Alters(g, t)
          /\ \/ Refreshed(t)
             \/ "zombie" \in timer[t].bits /\ UNCHANGED << minHeap, minMod >>
    BY <1>7, CleanEffect
  <2>2. UNCHANGED << pc, loc, missed, todo >> /\ pc[g] = "clean" BY <1>7, CleanEffect DEF hist
  <2>3. tsmu = g BY <2>2, <1>0 DEF TimersLocks, LocksAt, HoldsTs
  <2> QED BY <1>0, <2>1, <2>2, <2>3, CleanedWake
<1>8. ASSUME NEW g \in Users, MaybeRunChan(g) PROVE TimersWake'
  <2>0. pc[g] \in {"run", "empty"} /\ UNCHANGED todo BY <1>8 DEF MaybeRunChan
  <2>1. CASE /\ pc'[g] \in {"empty", "recv"} /\ \A b \in Actors \ {g} : pc'[b] = pc[b]
             /\ UNCHANGED << timer, ts, loc, hist, thrown >>
    <3>1. pc[g] \notin {"clear", "scan", "publish"} /\ pc'[g] \notin {"publish", "published"}
      BY <2>0, <2>1
    <3>2. UNCHANGED << heap, minHeap, minMod, missed, todo, timer >>
          /\ \A b \in Actors \ {g} : pc'[b] = pc[b] /\ loc'[b].t = loc[b].t
      BY <2>0, <2>1 DEF ts, hist
    <3> QED BY <1>0, <3>1, <3>2, WakeKeep
  <2>2. ASSUME NEW back \in {"empty", "recv"}, Ran(g, T(g), back), timer[T(g)].bits = {}
        PROVE  TimersWake'
    <3>1. ~Dirty(timer[T(g)].bits) /\ T(g) \in Timers /\ "heaped" \notin timer[T(g)].bits
      BY <2>2 DEF Dirty, Ran, Alters
    <3> QED BY <1>0, <2>0, <2>2, <3>1, RanWake
  <2> QED BY <1>8, <2>1, <2>2, MaybeRunCases
<1>10. ASSUME NEW m \in Ms, Run(m) PROVE TimersWake'
  <2>0. pc[m] = "run" /\ UNCHANGED todo BY <1>10, RunCases
  <2>0a. tsmu = m BY <2>0, <1>0 DEF TimersLocks, LocksAt, HoldsTs
  <2>1. CASE /\ pc'[m] \in {"forced", "unlockTs"} /\ \A b \in Actors \ {m} : pc'[b] = pc[b]
             /\ UNCHANGED << timer, ts, loc, hist, thrown >>
    <3>1. pc[m] \notin {"clear", "scan", "publish"} /\ pc'[m] \notin {"publish", "published"}
      BY <2>0, <2>1
    <3>2. UNCHANGED << heap, minHeap, minMod, missed, todo, timer >>
          /\ \A b \in Actors \ {m} : pc'[b] = pc[b] /\ loc'[b].t = loc[b].t
      BY <2>0, <2>1 DEF ts, hist
    <3> QED BY <1>0, <3>1, <3>2, WakeKeep
  <2>2. ASSUME NEW t \in Timers, Refreshed(t), Alters(m, t),
               UNCHANGED << len, tsmu, pc, loc, hist, thrown >>
        PROVE  TimersWake'
    <3>1. Cleaned(t) /\ UNCHANGED missed BY <2>2 DEF Refreshed, hist
    <3> QED BY <1>0, <2>0, <2>0a, <2>2, <3>1, CleanedWake
  <2>3. ASSUME NEW t \in DOMAIN heap, t \in Timers, mu[t] = Free, ~Dirty(timer[t].bits),
               UnlockAndRun(m, t, "relock")
        PROVE  TimersWake'
    <3>1. UNCHANGED << scene, now, mu, sendLock, chans, todo, calls >> BY <1>10, RunCases
    <3>2. Ran(m, t, "relock") BY <1>0, <2>3, <3>1, RanThis
    <3> QED BY <1>0, <2>0, <2>0a, <2>3, <3>2, RanWake
  <2> QED BY <1>10, <2>1, <2>2, <2>3, RunCases
<1>11. CASE Tick
  <2>1. UNCHANGED << heap, minHeap, minMod, missed, todo, timer, pc, loc >>
    BY <1>11 DEF Tick, ts, hist
  <2>2. \A u \in Timers : WakeAt(u)' BY <2>1 DEF TimersWake, WakeAt, Publishing, T
  <2> QED BY <2>1, <2>2 DEF TimersWake, Tm, T
<1> QED BY <1>2, <1>3, <1>4, <1>5, <1>6, <1>7, <1>8, <1>10, <1>11, StepCases, WakeUserStep


(* Who is in the line for a channel, after a step that leaves a goroutine as it is there. *)
InLinePCs == {"block", "add", "clean", "insert", "parked", "unblock"}
Apart(g)  == loc[g].op # "recv" \/ pc[g] \notin InLinePCs

SameLine(g) ==
  \/ Apart(g) /\ Apart(g)'
  \/ /\ loc'[g].op = loc[g].op /\ loc'[g].t = loc[g].t
     /\ pc'[g] = pc[g] \/ {pc[g], pc'[g]} \subseteq {"add", "clean", "insert", "parked"}

(* A goroutine that stays as it is stays in the lines it is in. *)
LEMMA SameLineThere ==
  ASSUME NEW g \in Users, NEW t \in Timers, SameLine(g)
  PROVE  /\ InLine(g, t) <=> InLine(g, t)'
         /\ g \in Waiting(t) <=> g \in Waiting(t)'
<1>1. CASE Apart(g) /\ Apart(g)' BY <1>1 DEF Apart, InLine, Waiting, InLinePCs
<1>2. CASE /\ loc'[g].op = loc[g].op /\ loc'[g].t = loc[g].t
           /\ pc'[g] = pc[g] \/ {pc[g], pc'[g]} \subseteq {"add", "clean", "insert", "parked"}
  <2>1. (pc'[g] = pc[g]) \/ (pc[g] \in {"add", "clean", "insert", "parked"}
                           /\ pc'[g] \in {"add", "clean", "insert", "parked"})
    BY <1>2
  <2> QED BY <1>2, <2>1 DEF InLine, Waiting, T
<1> QED BY <1>1, <1>2 DEF SameLine

(* The lines after a step that leaves them as they are. *)
LEMMA LineKeep ==
  ASSUME TimersType, TimersWait, recvq' = recvq,
         \A u \in Timers : /\ timer'[u].blocked = timer[u].blocked
                           /\ buf'[u] \in {0, buf[u]} \/ recvq[u] = << >>,
         \A g \in Users : SameLine(g)
  PROVE  \A u \in Timers : LineAt(u)'
<1> SUFFICES ASSUME NEW u \in Timers PROVE LineAt(u)'
  OBVIOUS
<1>1. LineAt(u) BY DEF TimersWait
<1>2. \A g \in Users : /\ InLine(g, u) <=> InLine(g, u)'
                       /\ g \in Waiting(u) <=> g \in Waiting(u)'
  BY SameLineThere
<1>3. Waiting(u)' = Waiting(u)
  <2>1. Waiting(u) \in SUBSET Users /\ Waiting(u)' \in SUBSET Users BY DEF Waiting
  <2> QED BY <1>2, <2>1
<1>4. timer'[u].blocked = Cardinality(Waiting(u)') BY <1>1, <1>3 DEF LineAt
<1>5. /\ NoRepeat(recvq'[u])
      /\ \A g \in Users : Occurs(g, recvq'[u]) <=> InLine(g, u)'
  BY <1>1, <1>2 DEF LineAt
<1>6. recvq'[u] # << >> => buf'[u] = 0 BY <1>1 DEF LineAt
<1> QED BY <1>4, <1>5, <1>6 DEF LineAt

(* A timer that somebody waits for stays in the heap, or about to be added to it. *)
LEMMA AliveKeep ==
  ASSUME TimersWait, NEW u \in Timers,
         timer'[u].when = timer[u].when, timer'[u].bits = timer[u].bits,
         timer'[u].blocked = timer[u].blocked, mu'[u] = Free => mu[u] = Free,
         \A g \in Users : Adding(g, u) => Adding(g, u)'
  PROVE  AliveAt(u)'
<1>1. AliveAt(u) BY DEF TimersWait
<1>2. (\E g \in Users : Adding(g, u)) => \E g \in Users : Adding(g, u)' OBVIOUS
<1> QED BY <1>1, <1>2 DEF AliveAt

(* ... after a step that alters one timer. *)
LEMMA AliveChange ==
  ASSUME TimersType, TimersWait, NEW a \in Actors, NEW t \in Timers, Alters(a, t), AliveAt(t)',
         a \in Users => \A u \in Timers \ {t} : Adding(a, u) => Adding(a, u)'
  PROVE  \A u \in Timers : AliveAt(u)'
<1> SUFFICES ASSUME NEW u \in Timers, u # t PROVE AliveAt(u)'
  OBVIOUS
<1>1. timer'[u] = timer[u] /\ mu'[u] = mu[u] BY DEF Alters
<1>2. ASSUME NEW g \in Users, Adding(g, u) PROVE Adding(g, u)'
  <2>1. CASE g = a BY <1>2, <2>1
  <2>2. CASE g # a
    <3>1. g \in Actors /\ loc'[g] = loc[g] /\ pc'[g] = pc[g] BY <2>2 DEF Alters, Actors
    <3> QED BY <1>2, <3>1 DEF Adding, T
  <2> QED BY <2>1, <2>2
<1> QED BY <1>1, <1>2, AliveKeep

(* A step that alters one timer, but not who waits for it. *)
LEMMA WaitChange ==
  ASSUME TimersType, TimersType', TimersWait, NEW a \in Actors, NEW t \in Timers, Alters(a, t),
         AliveAt(t)', timer'[t].blocked = timer[t].blocked,
         a \in Users => SameLine(a) /\ \A u \in Timers \ {t} : Adding(a, u) => Adding(a, u)'
  PROVE  TimersWait'
<1>1. ASSUME NEW g \in Users PROVE SameLine(g)
  <2>1. CASE g = a BY <2>1
  <2>2. CASE g # a
    <3>1. g \in Actors /\ loc'[g] = loc[g] /\ pc'[g] = pc[g] BY <2>2 DEF Alters, Actors
    <3> QED BY <3>1 DEF SameLine
  <2> QED BY <2>1, <2>2
<1>2. recvq' = recvq /\ buf' = buf BY DEF Alters
<1>3. \A u \in Timers : timer'[u].blocked = timer[u].blocked BY DEF Alters
<1>4. \A u \in Timers : LineAt(u)' BY <1>1, <1>2, <1>3, LineKeep
<1>5. \A u \in Timers : AliveAt(u)' BY AliveChange
<1> QED BY <1>4, <1>5 DEF TimersWait

(* A step that alters no timer and no line. *)
LEMMA WaitKeep ==
  ASSUME TimersType, TimersWait, recvq' = recvq, mu' = mu,
         \A u \in Timers : /\ timer'[u].when = timer[u].when /\ timer'[u].bits = timer[u].bits
                           /\ timer'[u].blocked = timer[u].blocked
                           /\ buf'[u] \in {0, buf[u]} \/ recvq[u] = << >>,
         \A g \in Users : SameLine(g) /\ \A u \in Timers : Adding(g, u) => Adding(g, u)'
  PROVE  TimersWait'
<1>1. \A u \in Timers : LineAt(u)' BY LineKeep
<1>2. ASSUME NEW u \in Timers PROVE AliveAt(u)' BY AliveKeep
<1> QED BY <1>1, <1>2 DEF TimersWait

(* Those who wait, after an entry of the heap is brought up to date ... *)
LEMMA CleanedWait ==
  ASSUME TimersType, TimersType', TimersBits, TimersWait, NEW a \in Actors, NEW t \in Timers,
         Alters(a, t), Cleaned(t), UNCHANGED << pc, loc, mu >>
  PROVE  TimersWait'
<1> DEFINE r == timer[t]
<1>1. t \in DOMAIN heap /\ mu[t] = Free /\ BitsAt(t) /\ r \in Settings /\ AliveAt(t)
  BY DEF Cleaned, TimersBits, TimersWait
<1>2. AliveAt(t)' /\ timer'[t].blocked = r.blocked
  <2>1. CASE "zombie" \in r.bits
    <3>1. Becomes(t, r.when, r.seq, {}, {}, r.blocked, r.sending) BY <2>1 DEF Cleaned
    <3>2. r.when = 0 \/ r.blocked = 0 BY <1>1, <2>1 DEF AliveAt
    <3> QED BY <3>1, <3>2 DEF Becomes, AliveAt
  <2>2. CASE "zombie" \notin r.bits
    <3> DEFINE b == r.bits \ {"modified"}
    <3>1. Becomes(t, r.when, r.seq, b, b, r.blocked, r.sending) BY <2>2 DEF Cleaned
    <3>2. "heaped" \in b /\ "zombie" \notin b BY <1>1, <2>2 DEF BitsAt
    <3> HIDE DEF b
    <3> QED BY <3>1, <3>2 DEF Becomes, AliveAt
  <2> QED BY <2>1, <2>2
<1>3. a \in Users => SameLine(a) /\ \A u \in Timers \ {t} : Adding(a, u) => Adding(a, u)'
  BY DEF SameLine, Adding, T
<1> QED BY <1>2, <1>3, WaitChange

(* ... after a timer goes off ... *)
LEMMA RanWait ==
  ASSUME TimersType, TimersType', TimersPlace, TimersBits, TimersWait,
         NEW a \in Actors, NEW t \in Timers, NEW back \in {"empty", "recv", "relock"},
         Ran(a, t, back), ~Dirty(timer[t].bits), timer[t].when > 0,
         a \in Users => pc[a] \in {"run", "empty"}
  PROVE  TimersWait'
<1> DEFINE r == timer[t]
           w == Next1(t)
           k == IF IsChan(t) /\ Period(t) = 0 THEN r.sending + 1 ELSE r.sending
<1>1. /\ mu[t] = Free /\ BitsAt(t) /\ r \in Settings /\ Alters(a, t) /\ mu' = mu /\ AliveAt(t)
      /\ pc'[a] \in {"send", "empty", "recv", "relock"}
      /\ "zombie" \notin r.bits
  BY DEF Ran, TimersBits, TimersWait, Dirty
<1>2. a \in Users => Apart(a) /\ Apart(a)' BY <1>1 DEF Apart, InLinePCs
<1>3. a \in Users => \A u \in Timers : ~Adding(a, u) BY DEF Adding
<1>4. AliveAt(t)' /\ timer'[t].blocked = r.blocked
  <2>1. CASE "heaped" \in r.bits /\ w = 0
    <3>1. Becomes(t, w, r.seq, {}, {}, r.blocked, k) BY <2>1 DEF Ran
    <3> HIDE DEF w, k
    <3> QED BY <2>1, <3>1 DEF Becomes, AliveAt
  <2>2. CASE "heaped" \in r.bits /\ w # 0
    <3>1. Becomes(t, w, r.seq, r.bits, r.astate, r.blocked, k) BY <2>2 DEF Ran
    <3> HIDE DEF w, k
    <3> QED BY <1>1, <2>2, <3>1 DEF Becomes, AliveAt
  <2>3. CASE "heaped" \notin r.bits
    <3>1. Becomes(t, w, r.seq, r.bits, r.astate, r.blocked, k) BY <2>3 DEF Ran
    <3>2. r.blocked > 0 => \E g \in Users : Adding(g, t)' 
      <4> SUFFICES ASSUME r.blocked > 0 PROVE \E g \in Users : Adding(g, t)'
        OBVIOUS
      <4>1. PICK g \in Users : Adding(g, t) BY <1>1, <2>3 DEF AliveAt
      <4>2. g \in Actors /\ g # a BY <1>3, <4>1 DEF Actors
      <4>3. loc'[g] = loc[g] /\ pc'[g] = pc[g] BY <1>1, <4>2 DEF Alters
      <4> QED BY <4>1, <4>3 DEF Adding, T
    <3> HIDE DEF w, k
    <3> QED BY <1>1, <2>3, <3>1, <3>2 DEF Becomes, AliveAt
  <2> QED BY <2>1, <2>2, <2>3
<1> QED BY <1>1, <1>2, <1>3, <1>4, WaitChange DEF SameLine

(* ... and after the steps of a goroutine that set a timer. *)
LEMMA WaitUserStep ==
  ASSUME TimersType, TimersType', TimersPlace, TimersLocks, TimersBits, TimersWait,
         NEW g \in Users, Stop(g) \/ ModifyLock(g) \/ ModifyUnlock(g) \/ Insert(g)
  PROVE  TimersWait'
<1>0. g \in Actors /\ g # Free /\ loc[g] \in Locs BY TimersAssumption DEF Actors, TimersType
<1>t. PICK t \in Timers : t = T(g)
  <2>1. T(g) \in Timers BY StopEffect, ModifyLockEffect, ModifyUnlockEffect, InsertEffect DEF Alters
  <2> QED BY <2>1
<1> DEFINE r == timer[t]
<1>a. AliveAt(t) BY DEF TimersWait
<1>b. ASSUME Apart(g), Apart(g)', Alters(g, t), AliveAt(t)', timer'[t].blocked = r.blocked
      PROVE  TimersWait'
  <2>1. \A u \in Timers \ {t} : ~Adding(g, u) BY <1>t DEF Adding
  <2> QED BY <1>0, <1>b, <2>1, WaitChange DEF SameLine
<1>1. CASE Stop(g)
  <2> DEFINE b == IF "heaped" \in r.bits THEN r.bits \cup {"modified", "zombie"} ELSE r.bits
  <2>1. /\ Alters(g, t) /\ Becomes(t, 0, NextSeq(t), b, b, r.blocked, r.sending)
        /\ pc'[g] \in {"drain", "ret"} /\ pc[g] = "lock"
    BY <1>1, <1>t, StopEffect
  <2>2. timer'[t].when = 0 /\ timer'[t].blocked = r.blocked BY <2>1 DEF Becomes
  <2>3. AliveAt(t)' BY <2>2 DEF AliveAt
  <2>4. Apart(g) /\ Apart(g)' BY <2>1 DEF Apart, InLinePCs
  <2> QED BY <1>b, <2>1, <2>2, <2>3, <2>4
<1>2. CASE ModifyLock(g)
  <2> DEFINE b == IF "heaped" \in r.bits THEN (r.bits \cup {"modified"}) \ {"zombie"} ELSE r.bits
             wake == "heaped" \in r.bits /\ (minMod = 0 \/ loc[g].when < minMod)
             as == IF wake THEN b ELSE r.astate
  <2>1. /\ Alters(g, t) /\ Becomes(t, loc[g].when, r.seq, b, as, r.blocked, r.sending)
        /\ pc'[g] \in {"publish", "unlock"} /\ pc[g] = "lock" /\ mu' = [mu EXCEPT ![t] = g]
    BY <1>2, <1>t, ModifyLockEffect
  <2>2. BitsAt(t) BY DEF TimersBits
  <2>3. "zombie" \notin b BY <2>2 DEF BitsAt
  <2>4. mu'[t] # Free BY <2>1, <1>0 DEF TimersType
  <2>5. timer'[t].bits = b /\ timer'[t].blocked = r.blocked
    <3> HIDE DEF b, as
    <3> QED BY <2>1 DEF Becomes
  <2>6. AliveAt(t)'
    <3> HIDE DEF b
    <3> QED BY <2>3, <2>4, <2>5 DEF AliveAt
  <2>7. Apart(g) /\ Apart(g)' BY <2>1 DEF Apart, InLinePCs
  <2> QED BY <1>b, <2>1, <2>5, <2>6, <2>7
<1>3. CASE ModifyUnlock(g)
  <2>1. /\ Alters(g, t) /\ Becomes(t, r.when, NextSeq(t), r.bits, r.bits, r.blocked, r.sending)
        /\ pc[g] \in {"unlock", "published"} /\ loc[g].op = "reset"
    BY <1>3, <1>t, ModifyUnlockEffect
  <2>1a. loc'[g] = [loc[g] EXCEPT !.ret = loc[g].ret \/ Squelched(t), !.add = NeedsAdd(t, r),
                                  !.was = armed[t], !.late = Underway(t, r.seq)]
    BY <1>3, <1>t, ModifyUnlockEffect
  <2>1b. pc'[g] = (IF IsChan(t) THEN "drain" ELSE IF NeedsAdd(t, r) THEN "add" ELSE "ret")
    BY <1>3, <1>t, ModifyUnlockEffect
  <2>2. loc'[g].op = "reset" /\ loc'[g].t = t /\ loc'[g].add = NeedsAdd(t, r)
    BY <2>1, <2>1a, <1>0, <1>t DEF Locs, T
  <2>3. timer'[t].blocked = r.blocked /\ timer'[t].bits = r.bits /\ timer'[t].when = r.when
    BY <2>1 DEF Becomes
  <2>4. NeedsAdd(t, r) => Adding(g, t)' BY <2>1b, <2>2 DEF Adding, T
  <2>5. r.when > 0 /\ r.blocked > 0 => "heaped" \in r.bits \/ NeedsAdd(t, r) BY DEF NeedsAdd
  <2>6. AliveAt(t)' BY <1>a, <2>3, <2>4, <2>5 DEF AliveAt
  <2>7. Apart(g) /\ Apart(g)' BY <2>1, <2>2 DEF Apart
  <2> QED BY <1>b, <2>1, <2>3, <2>6, <2>7
<1>4. CASE Insert(g)
  <2> DEFINE b == r.bits \cup {"heaped"}
  <2>1. /\ Alters(g, t) /\ mu[t] = Free /\ r \in Settings /\ mu' = mu /\ pc[g] = "insert"
        /\ NeedsAdd(t, r) => Becomes(t, r.when, r.seq, b, b, r.blocked, r.sending)
        /\ ~NeedsAdd(t, r) => UNCHANGED timer
        /\ pc'[g] = (IF chlock[t] = g THEN "parked" ELSE "ret") /\ loc' = loc
    BY <1>4, <1>t, InsertEffect
  <2>2. SameLine(g)
    <3>1. chlock[t] = g <=> HoldsChan(g, t) BY <1>0 DEF TimersLocks, LocksAt
    <3>2. CASE loc[g].op = "recv"
      <4>1. pc'[g] = "parked" BY <2>1, <3>1, <3>2, <1>t DEF HoldsChan
      <4> QED BY <2>1, <4>1 DEF SameLine
    <3>3. CASE loc[g].op # "recv" BY <2>1, <3>3 DEF SameLine, Apart
    <3> QED BY <3>2, <3>3
  <2>3. \A u \in Timers \ {t} : ~Adding(g, u) BY <1>t DEF Adding
  <2>4. AliveAt(t)' /\ timer'[t].blocked = r.blocked
    <3>1. CASE NeedsAdd(t, r)
      <4>1. timer'[t].bits = b /\ timer'[t].blocked = r.blocked /\ timer'[t].when = r.when
        BY <2>1, <3>1 DEF Becomes
      <4> QED BY <1>a, <4>1 DEF AliveAt
    <3>2. CASE ~NeedsAdd(t, r)
      <4>1. r.when > 0 /\ r.blocked > 0 => "heaped" \in r.bits BY <3>2 DEF NeedsAdd
      <4> QED BY <1>a, <2>1, <3>2, <4>1 DEF AliveAt
    <3> QED BY <3>1, <3>2
  <2> QED BY <1>0, <2>1, <2>2, <2>3, <2>4, WaitChange
<1> QED BY <1>1, <1>2, <1>3, <1>4

(* A goroutine joins those who wait, or leaves them. *)
LEMMA WaitBlockStep ==
  ASSUME TimersType, TimersType', TimersPlace, TimersLocks, TimersBits, TimersWait,
         NEW g \in Users, Block(g) \/ Unblock(g)
  PROVE  TimersWait'
<1>0. g \in Actors /\ loc[g] \in Locs BY DEF Actors, TimersType
<1>t. PICK t \in Timers : t = T(g)
  <2>1. T(g) \in Timers BY BlockEffect, UnblockEffect DEF Alters
  <2> QED BY <2>1
<1> DEFINE r == timer[t]
<1>a. AliveAt(t) /\ LineAt(t) /\ BitsAt(t) BY DEF TimersWait, TimersBits
<1>b. /\ Alters(g, t) /\ loc' = loc /\ mu' = mu /\ loc[g].op = "recv" /\ r \in Settings
      /\ \/ pc[g] = "block" /\ pc'[g] \in {"add", "parked"}
         \/ pc[g] = "unblock" /\ pc'[g] = "ret"
  <2>1. CASE Block(g)
    <3>1. Alters(g, T(g)) /\ loc' = loc /\ mu' = mu /\ loc[g].op = "recv" /\ pc[g] = "block"
      BY <2>1, BlockEffect
    <3>2. pc'[g] \in {"add", "parked"} BY <2>1, BlockEffect
    <3> QED BY <3>1, <3>2, <1>t DEF TimersType
  <2>2. CASE Unblock(g) BY <2>2, <1>t, UnblockEffect
  <2> QED BY <2>1, <2>2
<1>c. recvq' = recvq /\ buf' = buf BY <1>b DEF Alters
<1>d. \A h \in Users \ {g} : pc'[h] = pc[h] /\ loc'[h] = loc[h] /\ SameLine(h)
  BY <1>b DEF Alters, Actors, SameLine
<1>e. \A u \in Timers, h \in Users : InLine(h, u) <=> InLine(h, u)'
  <2> SUFFICES ASSUME NEW u \in Timers, NEW h \in Users PROVE InLine(h, u) <=> InLine(h, u)'
    OBVIOUS
  <2>1. CASE h = g BY <2>1, <1>b DEF InLine, T
  <2>2. CASE h # g BY <2>2, <1>d, SameLineThere
  <2> QED BY <2>1, <2>2
<1>f. ASSUME NEW u \in Timers \ {t} PROVE LineAt(u)'
  <2>1. LineAt(u) /\ timer'[u] = timer[u] BY <1>b DEF TimersWait, Alters
  <2>2. Waiting(u)' = Waiting(u)
    <3>1. \A h \in Users : h \in Waiting(u) <=> h \in Waiting(u)'
      <4> SUFFICES ASSUME NEW h \in Users PROVE h \in Waiting(u) <=> h \in Waiting(u)'
        OBVIOUS
      <4>1. CASE h = g BY <4>1, <1>b, <1>t DEF Waiting, T
      <4>2. CASE h # g BY <4>2, <1>d, SameLineThere
      <4> QED BY <4>1, <4>2
    <3>2. Waiting(u) \in SUBSET Users /\ Waiting(u)' \in SUBSET Users BY DEF Waiting
    <3> QED BY <3>1, <3>2
  <2> QED BY <2>1, <2>2, <1>c, <1>e DEF LineAt
<1>g. ASSUME timer'[t].blocked = Cardinality(Waiting(t)') PROVE \A u \in Timers : LineAt(u)'
  <2>1. LineAt(t)' BY <1>a, <1>c, <1>e, <1>g DEF LineAt
  <2> QED BY <2>1, <1>f
<1>h. \A u \in Timers \ {t} : ~Adding(g, u) BY <1>t DEF Adding
<1>i. ASSUME AliveAt(t)' PROVE \A u \in Timers : AliveAt(u)'
  BY <1>0, <1>b, <1>h, <1>i, AliveChange
<1>j. /\ Waiting(t) \in SUBSET Users /\ Waiting(t)' \in SUBSET Users /\ IsFiniteSet(Users)
      /\ \A h \in Users : h # g => (h \in Waiting(t) <=> h \in Waiting(t)')
  <2>1. \A h \in Users : h # g => (h \in Waiting(t) <=> h \in Waiting(t)')
    BY <1>d, SameLineThere
  <2> QED BY <2>1, TimersAssumption DEF Waiting
<1>1. CASE Block(g)
  <2> DEFINE revive == "zombie" \in r.bits /\ r.when > 0
             b == IF revive THEN r.bits \ {"zombie"} ELSE r.bits
             add == "heaped" \notin b /\ r.when > 0 /\ (IsChan(t) => r.blocked + 1 > 0)
  <2>1. /\ Becomes(t, r.when, r.seq, b, b, r.blocked + 1, r.sending)
        /\ pc'[g] = (IF add THEN "add" ELSE "parked") /\ pc[g] = "block"
    BY <1>1, <1>t, BlockEffect
  <2>2. timer'[t].when = r.when /\ timer'[t].bits = b /\ timer'[t].blocked = r.blocked + 1
    BY <2>1 DEF Becomes
  <2>3. Cardinality(Waiting(t)') = Cardinality(Waiting(t)) + 1
    <3>1. g \notin Waiting(t) BY <2>1 DEF Waiting
    <3>2. g \in Waiting(t)' BY <1>b, <2>1, <1>t DEF Waiting, T
    <3> QED BY <1>j, <3>1, <3>2, CountGain
  <2>4. \A u \in Timers : LineAt(u)' BY <1>a, <1>g, <2>2, <2>3 DEF LineAt
  <2>5. r.blocked \in Nat BY <1>a, <1>j, Countable DEF LineAt
  <2>6. AliveAt(t)'
    <3>1. "zombie" \in b => r.when = 0 BY <1>b DEF Settings
    <3>2. r.when > 0 => "heaped" \in b \/ Adding(g, t)'
      <4>1. add => Adding(g, t)' BY <2>1, <1>b, <1>t DEF Adding, T
      <4>2. r.when > 0 => "heaped" \in b \/ add BY <2>5
      <4> QED BY <4>1, <4>2
    <3> HIDE DEF b, add
    <3> QED BY <2>2, <3>1, <3>2 DEF AliveAt
  <2> QED BY <1>i, <2>4, <2>6 DEF TimersWait
<1>2. CASE Unblock(g)
  <2> DEFINE last == r.blocked = 1 /\ "heaped" \in r.bits /\ "zombie" \notin r.bits
             b == IF last THEN r.bits \cup {"zombie"} ELSE r.bits
  <2>1. /\ Becomes(t, r.when, r.seq, b, b, r.blocked - 1, r.sending)
        /\ pc'[g] = "ret" /\ pc[g] = "unblock"
    BY <1>2, <1>t, UnblockEffect
  <2>2. timer'[t].when = r.when /\ timer'[t].bits = b /\ timer'[t].blocked = r.blocked - 1
    BY <2>1 DEF Becomes
  <2>3. Cardinality(Waiting(t)') = Cardinality(Waiting(t)) - 1 /\ Cardinality(Waiting(t)) > 0
    <3>1. g \in Waiting(t) BY <1>b, <2>1, <1>t DEF Waiting
    <3>2. g \notin Waiting(t)' BY <2>1 DEF Waiting
    <3> QED BY <1>j, <3>1, <3>2, CountLoss
  <2>4. \A u \in Timers : LineAt(u)' BY <1>a, <1>g, <2>2, <2>3 DEF LineAt
  <2>5. r.blocked \in Nat /\ r.blocked > 0 BY <1>a, <1>j, <2>3, Countable DEF LineAt
  <2>6. AliveAt(t)'
    <3>1. "zombie" \in b => r.when = 0 \/ r.blocked - 1 = 0
      BY <1>a, <2>5 DEF AliveAt
    <3>2. "heaped" \in r.bits => "heaped" \in b OBVIOUS
    <3>3. \A h \in Users : Adding(h, t) => Adding(h, t)'
      <4> SUFFICES ASSUME NEW h \in Users, Adding(h, t) PROVE Adding(h, t)'
        OBVIOUS
      <4>1. h # g BY <2>1 DEF Adding
      <4> QED BY <4>1, <1>d DEF Adding, T
    <3>4. (\E h \in Users : Adding(h, t)) => \E h \in Users : Adding(h, t)' BY <3>3
    <3> HIDE DEF b
    <3> QED BY <1>a, <1>b, <2>2, <2>5, <3>1, <3>2, <3>4 DEF AliveAt
  <2> QED BY <1>i, <2>4, <2>6 DEF TimersWait
<1> QED BY <1>1, <1>2

(* A receiver gets in line, or finds a value. *)
LEMMA WaitRecvStep ==
  ASSUME TimersType, TimersPlace, TimersLocks, TimersWait, NEW g \in Users, Recv(g)
  PROVE  TimersWait'
<1>0. g \in Actors /\ pc[g] = "recv" /\ g # Free /\ \A h \in Users : h \in Actors
  BY TimersAssumption DEF Actors, Recv, From
<1>t. PICK t \in Timers : t = T(g)
  <2>1. T(g) \in Timers BY <1>0, AtTimer
  <2> QED BY <2>1
<1>1. mu' = mu /\ timer' = timer BY DEF Recv
<1>2. \A h \in Users \ {g} : pc'[h] = pc[h] BY <1>0 DEF Recv, To, TimersType
<1>3. \A h \in Users : loc'[h].t = loc[h].t /\ loc'[h].op = loc[h].op /\ loc'[h].add = loc[h].add
  <2>1. \/ UNCHANGED loc
        \/ loc' = [a \in Actors |->
                     IF a = g THEN [loc[a] EXCEPT !.ret = TRUE]
                     ELSE IF pc[a] = "drain" /\ T(a) = T(g) THEN [loc[a] EXCEPT !.was = FALSE]
                     ELSE loc[a]]
    BY DEF Recv
  <2>2. loc \in [Actors -> Locs] BY DEF TimersType
  <2> QED BY <1>0, <2>1, <2>2 DEF Locs
<1>4. \A h \in Users \ {g} : SameLine(h) BY <1>2, <1>3 DEF SameLine
<1>5. \A h \in Users, u \in Timers : Adding(h, u) => Adding(h, u)'
  BY <1>0, <1>2, <1>3 DEF Adding, T
<1>6. CASE pc'[g] = "ret" /\ recvq' = recvq /\ \A u \in Timers : buf'[u] \in {0, buf[u]}
  <2>1. SameLine(g) BY <1>0, <1>6 DEF SameLine, Apart, InLinePCs
  <2> QED BY <1>1, <1>4, <1>5, <1>6, <2>1, WaitKeep
<1>7. CASE /\ pc'[g] = "block" /\ loc' = loc /\ buf' = buf /\ buf[t] = 0 /\ loc[g].op = "recv"
           /\ recvq' = [recvq EXCEPT ![t] = Append(@, g)]
  <2>1. recvq[t] \in Seq(Users) BY DEF TimersType
  <2>2. /\ \A x : Occurs(x, Append(recvq[t], g)) <=> x = g \/ Occurs(x, recvq[t])
        /\ NoRepeat(recvq[t]) /\ ~Occurs(g, recvq[t]) => NoRepeat(Append(recvq[t], g))
    BY <2>1, AppendLast
  <2>3. recvq'[t] = Append(recvq[t], g) /\ \A u \in Timers \ {t} : recvq'[u] = recvq[u]
    BY <1>7 DEF TimersType
  <2>4. ASSUME NEW u \in Timers PROVE Waiting(u)' = Waiting(u)
    <3>1. \A h \in Users : h \in Waiting(u) <=> h \in Waiting(u)'
      <4> SUFFICES ASSUME NEW h \in Users PROVE h \in Waiting(u) <=> h \in Waiting(u)'
        OBVIOUS
      <4>1. CASE h = g BY <4>1, <1>0, <1>7 DEF Waiting
      <4>2. CASE h # g BY <4>2, <1>4, SameLineThere
      <4> QED BY <4>1, <4>2
    <3>2. Waiting(u) \in SUBSET Users /\ Waiting(u)' \in SUBSET Users BY DEF Waiting
    <3> QED BY <3>1, <3>2
  <2>5. ~InLine(g, t) /\ InLine(g, t)' BY <1>0, <1>7, <1>t DEF InLine, T
  <2>6. \A u \in Timers \ {t} : ~InLine(g, u) /\ ~InLine(g, u)' BY <1>7, <1>t DEF InLine, T
  <2>7. \A h \in Users \ {g}, u \in Timers : InLine(h, u) <=> InLine(h, u)'
    BY <1>4, SameLineThere
  <2>8. LineAt(t)'
    <3>1. LineAt(t) BY DEF TimersWait
    <3>2. ~Occurs(g, recvq[t]) BY <3>1, <2>5 DEF LineAt
    <3>3. NoRepeat(recvq'[t]) BY <3>1, <3>2, <2>2, <2>3 DEF LineAt
    <3>4. \A h \in Users : Occurs(h, recvq'[t]) <=> InLine(h, t)'
      BY <3>1, <2>2, <2>3, <2>5, <2>7 DEF LineAt
    <3>5. timer'[t].blocked = Cardinality(Waiting(t)') /\ buf'[t] = 0
      BY <3>1, <2>4, <1>1, <1>7 DEF LineAt
    <3> QED BY <3>3, <3>4, <3>5 DEF LineAt
  <2>9. ASSUME NEW u \in Timers, u # t PROVE LineAt(u)'
    <3>1. LineAt(u) /\ recvq'[u] = recvq[u] BY <2>3, <2>9 DEF TimersWait
    <3>2. \A h \in Users : InLine(h, u) <=> InLine(h, u)' BY <2>6, <2>7, <2>9
    <3>3. timer'[u].blocked = Cardinality(Waiting(u)') /\ buf'[u] = buf[u]
      BY <3>1, <2>4, <1>1, <1>7 DEF LineAt
    <3> QED BY <3>1, <3>2, <3>3 DEF LineAt
  <2>10. ASSUME NEW u \in Timers PROVE AliveAt(u)' BY <1>1, <1>5, AliveKeep
  <2> QED BY <2>8, <2>9, <2>10 DEF TimersWait
<1>8. CASE /\ To(g, "ret") /\ buf' = [buf EXCEPT ![t] = 0] /\ UNCHANGED << recvq, chlock >>
  <2>1. pc'[g] = "ret" /\ \A u \in Timers : buf'[u] \in {0, buf[u]}
    BY <1>8, <1>0 DEF To, TimersType
  <2> QED BY <1>6, <1>8, <2>1
<1>9. CASE To(g, "ret") /\ UNCHANGED chans
  BY <1>6, <1>9, <1>0 DEF To, TimersType, chans
<1>10. CASE /\ buf[t] = 0 /\ loc[g].op = "recv" /\ To(g, "block")
            /\ recvq' = [recvq EXCEPT ![t] = Append(@, g)] /\ UNCHANGED << buf, loc >>
  BY <1>7, <1>10, <1>0 DEF To, TimersType
<1> QED BY <1>8, <1>9, <1>10, <1>t DEF Recv

(* A value is sent: to the channel, or to the first in line. *)
LEMMA WaitSendTimeStep ==
  ASSUME TimersType, TimersPlace, TimersLocks, TimersWait, NEW a \in Actors, SendTime(a)
  PROVE  TimersWait'
<1>1. /\ pc[a] = "sending" /\ UNCHANGED << mu, timer, loc >>
      /\ \A h \in Users : h \in Actors
  BY DEF SendTime, From, Actors
<1>t. PICK t \in Timers : t = T(a)
  <2>1. T(a) \in Timers BY <1>1, AtTimer
  <2> QED BY <2>1
<1>1a. a \in Users => loc[a].back \in {"empty", "recv"} BY <1>1 DEF TimersPlace, UserAt
<1>2. SendWakes(a) BY SendTimeWakes
<1>3. a \in Users => Apart(a) /\ Apart(a)'
  BY <1>1, <1>1a, <1>2 DEF Apart, InLinePCs, SendWakes
<1>4. \A h \in Users, u \in Timers : Adding(h, u) => Adding(h, u)'
  BY <1>1, <1>2 DEF Adding, SendWakes, T
<1>4a. \A u \in Timers : AliveAt(u)' BY <1>1, <1>4, AliveKeep
<1>5. CASE /\ To(a, loc[a].back) /\ recvq' = recvq
           /\ buf' = buf \/ (recvq[t] = << >> /\ \A u \in Timers \ {t} : buf'[u] = buf[u])
  <2>1. \A h \in Users \ {a} : pc'[h] = pc[h] BY <1>5, <1>1 DEF To, TimersType
  <2>2. \A h \in Users : SameLine(h) BY <1>1, <1>3, <2>1 DEF SameLine
  <2>3. \A u \in Timers : buf'[u] \in {0, buf[u]} \/ recvq[u] = << >> BY <1>5
  <2> QED BY <1>1, <1>4, <1>5, <2>2, <2>3, WaitKeep
<1>6. CASE /\ chlock[t] = Free /\ recvq[t] # << >> /\ recvq' = [recvq EXCEPT ![t] = Tail(@)]
           /\ pc' = [pc EXCEPT ![a] = loc[a].back, ![Head(recvq[t])] = "unblock"]
           /\ buf' = buf
  <2>0. recvq[t] \in Seq(Users) /\ LineAt(t) BY DEF TimersType, TimersWait
  <2>1. PICK w \in Users : w = Head(recvq[t]) /\ Occurs(w, recvq[t])
    BY <2>0, <1>6, TailRest
  <2>2. /\ \A x : Occurs(x, recvq[t]) <=> x = w \/ Occurs(x, Tail(recvq[t]))
        /\ NoRepeat(Tail(recvq[t])) /\ ~Occurs(w, Tail(recvq[t]))
    BY <2>0, <2>1, <1>6, TailRest DEF LineAt
  <2>3. InLine(w, t) BY <2>0, <2>1 DEF LineAt
  <2>4. pc[w] = "parked" /\ w # a
    <3>1. chlock[t] # w /\ w \in Actors BY <1>6, TimersAssumption DEF Actors
    <3>2. ~HoldsChan(w, t) BY <3>1 DEF TimersLocks, LocksAt
    <3> QED BY <1>1, <2>3, <3>2 DEF InLine, HoldsChan
  <2>5. /\ pc'[w] = "unblock" /\ loc'[w] = loc[w]
        /\ \A h \in Users \ {a, w} : pc'[h] = pc[h] /\ loc'[h] = loc[h]
    BY <1>1, <1>6, <2>1, <2>4 DEF TimersType
  <2>6. \A h \in Users \ {w} : SameLine(h) BY <1>1, <1>3, <2>5 DEF SameLine
  <2>7. ASSUME NEW u \in Timers PROVE Waiting(u)' = Waiting(u)
    <3>1. \A h \in Users : h \in Waiting(u) <=> h \in Waiting(u)'
      <4> SUFFICES ASSUME NEW h \in Users PROVE h \in Waiting(u) <=> h \in Waiting(u)'
        OBVIOUS
      <4>1. CASE h = w BY <4>1, <2>4, <2>5 DEF Waiting, T
      <4>2. CASE h # w BY <4>2, <2>6, SameLineThere
      <4> QED BY <4>1, <4>2
    <3>2. Waiting(u) \in SUBSET Users /\ Waiting(u)' \in SUBSET Users BY DEF Waiting
    <3> QED BY <3>1, <3>2
  <2>8. ~InLine(w, t)' BY <2>5 DEF InLine
  <2>9. \A u \in Timers \ {t} : ~InLine(w, u) /\ ~InLine(w, u)'
    BY <2>3, <2>5 DEF InLine
  <2>10. \A h \in Users \ {w}, u \in Timers : InLine(h, u) <=> InLine(h, u)'
    BY <2>6, SameLineThere
  <2>11. recvq'[t] = Tail(recvq[t]) /\ \A u \in Timers \ {t} : recvq'[u] = recvq[u]
    BY <1>6 DEF TimersType
  <2>12. LineAt(t)'
    <3>1. NoRepeat(recvq'[t]) BY <2>2, <2>11
    <3>2. \A h \in Users : Occurs(h, recvq'[t]) <=> InLine(h, t)'
      BY <2>0, <2>2, <2>8, <2>10, <2>11 DEF LineAt
    <3>3. timer'[t].blocked = Cardinality(Waiting(t)') /\ buf'[t] = 0
      BY <2>0, <2>7, <1>1, <1>6 DEF LineAt
    <3> QED BY <3>1, <3>2, <3>3 DEF LineAt
  <2>13. ASSUME NEW u \in Timers, u # t PROVE LineAt(u)'
    <3>1. LineAt(u) /\ recvq'[u] = recvq[u] BY <2>11, <2>13 DEF TimersWait
    <3>2. \A h \in Users : InLine(h, u) <=> InLine(h, u)' BY <2>9, <2>10, <2>13
    <3>3. timer'[u].blocked = Cardinality(Waiting(u)') /\ buf'[u] = buf[u]
      BY <3>1, <2>7, <1>1, <1>6 DEF LineAt
    <3> QED BY <3>1, <3>2, <3>3 DEF LineAt
  <2> QED BY <1>4a, <2>12, <2>13 DEF TimersWait
<1>7. CASE UNCHANGED << chans, hist >> /\ To(a, loc[a].back) BY <1>5, <1>7 DEF chans
<1>8. CASE /\ recvq[t] = << >> /\ buf' = [buf EXCEPT ![t] = loc[a].seq]
           /\ UNCHANGED << recvq, chlock, hist >> /\ To(a, loc[a].back)
  <2>1. \A u \in Timers \ {t} : buf'[u] = buf[u] BY <1>8 DEF TimersType
  <2> QED BY <1>5, <1>8, <2>1
<1> QED BY <1>6, <1>7, <1>8, <1>t DEF SendTime

(* ... and after those that alter none. *)
LEMMA WaitPlainStep ==
  ASSUME TimersType, TimersPlace, TimersWait, NEW g \in Users,
         Call(g) \/ Return(g) \/ LockSend(g) \/ Drain(g) \/ Publish(g) \/ AddLock(g) \/ CleanDone(g)
  PROVE  TimersWait'
<1>0. g \in Actors /\ loc[g] \in Locs /\ \A h \in Users : h \in Actors BY DEF Actors, TimersType
<1>1. UNCHANGED << mu, timer, recvq >>
  BY DEF Call, Return, LockSend, Drain, Publish, AddLock, CleanDone, ts, chans
<1>2. \A h \in Users \ {g} : pc'[h] = pc[h] /\ loc'[h] = loc[h]
  BY <1>0 DEF Call, Return, LockSend, Drain, Publish, AddLock, CleanDone, To, Drop, TimersType
<1>3. \A u \in Timers : buf'[u] \in {0, buf[u]}
  BY DEF Call, Return, LockSend, Drain, Publish, AddLock, CleanDone, TimersType, chans
<1>4. SameLine(g) /\ \A u \in Timers : Adding(g, u) => Adding(g, u)'
  <2>1. CASE Call(g) \/ Return(g) \/ LockSend(g) \/ Publish(g)
    <3>1. pc[g] \notin InLinePCs /\ pc'[g] \notin InLinePCs /\ pc[g] # "drain"
      BY <2>1, <1>0 DEF Call, Return, LockSend, Publish, From, To, TimersType, InLinePCs
    <3> QED BY <3>1 DEF SameLine, Apart, Adding, InLinePCs
  <2>2. CASE Drain(g)
    <3>1. /\ pc[g] = "drain" /\ loc[g].op # "recv"
          /\ pc'[g] = IF loc[g].add THEN "add" ELSE "ret"
      BY <2>2, <1>0 DEF Drain, From, To, TimersType, TimersPlace, UserAt, Sets
    <3>2. loc'[g].op = loc[g].op /\ loc'[g].t = loc[g].t
      BY <2>2, <1>0 DEF Drain, TimersType, Locs
    <3> QED BY <3>1, <3>2 DEF SameLine, Apart, Adding, T
  <2>3. CASE AddLock(g) \/ CleanDone(g)
    <3>1. /\ pc[g] \in {"add", "clean"} /\ pc'[g] \in {"clean", "insert"} /\ loc' = loc
      BY <2>3, <1>0 DEF AddLock, CleanDone, From, To, TimersType
    <3> QED BY <3>1 DEF SameLine, Adding, T
  <2> QED BY <2>1, <2>2, <2>3
<1>5. \A h \in Users : SameLine(h) /\ \A u \in Timers : Adding(h, u) => Adding(h, u)'
  BY <1>2, <1>4 DEF SameLine, Adding, T
<1> QED BY <1>1, <1>3, <1>5, WaitKeep

(* Those who wait are accounted for, and their timers alive, after every step. *)
LEMMA WaitStep ==
  ASSUME TimersType, TimersType', TimersPlace, TimersLocks, TimersBits, TimersWake, TimersWait,
         TimersNext
  PROVE  TimersWait'
<1>0. /\ \A g \in Users : g \in Actors
      /\ \A m \in Ms : m \in Actors /\ m \notin Users
      /\ \A a \in Actors : a \in Users \/ a \in Ms
  BY TimersAssumption DEF Actors
<1>1. ASSUME UNCHANGED << mu, recvq, buf >>,
             \A u \in Timers : /\ timer'[u].when = timer[u].when /\ timer'[u].bits = timer[u].bits
                               /\ timer'[u].blocked = timer[u].blocked,
             \A g \in Users : /\ loc'[g] = loc[g]
                              /\ pc'[g] = pc[g]
                                 \/ {pc[g], pc'[g]} \cap (InLinePCs \cup {"drain"}) = {}
      PROVE  TimersWait'
  <2>1. \A g \in Users : SameLine(g) /\ \A u \in Timers : Adding(g, u) => Adding(g, u)'
    BY <1>1 DEF SameLine, Apart, Adding, T, InLinePCs
  <2> QED BY <1>1, <2>1, WaitKeep
<1>2. ASSUME NEW a \in Actors, Send(a) PROVE TimersWait'
  <2>1. UNCHANGED << mu, recvq, buf, loc >> /\ pc[a] = "send"
    BY <1>2 DEF Send, SendWith, chans, From
  <2>2. \A u \in Timers : /\ timer'[u].when = timer[u].when /\ timer'[u].bits = timer[u].bits
                          /\ timer'[u].blocked = timer[u].blocked
    BY <1>2, SendSame
  <2>3. \A b \in Actors \ {a} : pc'[b] = pc[b] BY <1>2 DEF Send, SendWith, To, TimersType
  <2>4. pc'[a] \in {loc[a].back, "sending"} BY <1>2 DEF Send, SendWith, To, TimersType
  <2>5. a \in Users => loc[a].back \in {"empty", "recv"} BY <2>1 DEF TimersPlace, UserAt
  <2>6. a \in Users => {pc[a], pc'[a]} \cap (InLinePCs \cup {"drain"}) = {}
    BY <2>1, <2>4, <2>5 DEF InLinePCs
  <2> QED BY <1>0, <1>1, <2>1, <2>2, <2>3, <2>6
<1>3. ASSUME NEW m \in Ms,
             Check(m) \/ Adjust(m) \/ Clear(m) \/ EndScan(m) \/ Relock(m) \/ UnlockTs(m)
      PROVE  TimersWait'
  <2>1. UNCHANGED << mu, recvq, buf, timer >>
    BY <1>3 DEF Check, Adjust, Clear, EndScan, Relock, UnlockTs, chans
  <2>2. \A b \in Actors \ {m} : pc'[b] = pc[b] /\ loc'[b] = loc[b]
    BY <1>3, <1>0 DEF Check, Adjust, Clear, EndScan, Relock, UnlockTs, To, Drop, TimersType
  <2> QED BY <1>0, <1>1, <2>1, <2>2
<1>4. ASSUME NEW g \in Users, CleanHead(g) PROVE TimersWait'
  <2>1. PICK t \in Timers : Cleaned(t) /\ Alters(g, t) BY <1>4, CleanEffect
  <2>2. UNCHANGED << pc, loc, mu >> BY <1>4, CleanEffect
  <2> QED BY <1>0, <2>1, <2>2, CleanedWait
<1>5. ASSUME NEW g \in Users, MaybeRunChan(g) PROVE TimersWait'
  <2>0. UNCHANGED mu /\ UNCHANGED chans /\ pc[g] \in {"run", "empty"} BY <1>5 DEF MaybeRunChan
  <2>1. CASE /\ pc'[g] \in {"empty", "recv"} /\ \A b \in Actors \ {g} : pc'[b] = pc[b]
             /\ UNCHANGED << timer, ts, loc, hist, thrown >>
    <3>1. {pc[g], pc'[g]} \cap (InLinePCs \cup {"drain"}) = {} BY <2>0, <2>1 DEF InLinePCs
    <3> QED BY <1>0, <1>1, <2>0, <2>1, <3>1 DEF chans
  <2>2. ASSUME NEW back \in {"empty", "recv"}, Ran(g, T(g), back), timer[T(g)].bits = {},
               timer[T(g)].when \in 1 .. now
        PROVE  TimersWait'
    <3>1. ~Dirty(timer[T(g)].bits) /\ T(g) \in Timers BY <2>2 DEF Dirty, Ran, Alters
    <3>2. timer[T(g)].when > 0 BY <2>2
    <3> QED BY <1>0, <2>0, <2>2, <3>1, <3>2, RanWait
  <2> QED BY <1>5, <2>1, <2>2, MaybeRunCases
<1>6. ASSUME NEW m \in Ms, Scan(m) PROVE TimersWait'
  <2>1. PICK t \in todo :
          \/ UNCHANGED << timer, heap, zombies, thrown >>
          \/ /\ Cleaned(t) /\ Alters(m, t)
    BY <1>6, ScanEffect
  <2>2. UNCHANGED << mu, pc, loc, chans >> BY <1>6, ScanEffect
  <2>3. t \in DOMAIN heap /\ t \in Timers BY DEF TimersWake, TimersType
  <2>4. CASE UNCHANGED << timer, heap, zombies, thrown >> BY <1>1, <2>2, <2>4 DEF chans
  <2>5. CASE Cleaned(t) /\ Alters(m, t) BY <1>0, <2>2, <2>3, <2>5, CleanedWait
  <2> QED BY <2>1, <2>4, <2>5
<1>7. ASSUME NEW m \in Ms, Run(m) PROVE TimersWait'
  <2>0. UNCHANGED << scene, now, mu, sendLock, chans, todo, calls >> BY <1>7, RunCases
  <2>1. CASE /\ pc'[m] \in {"forced", "unlockTs"} /\ \A b \in Actors \ {m} : pc'[b] = pc[b]
             /\ UNCHANGED << timer, ts, loc, hist, thrown >>
    BY <1>0, <1>1, <2>0, <2>1 DEF chans
  <2>2. ASSUME NEW t \in Timers, Refreshed(t), Alters(m, t),
               UNCHANGED << len, tsmu, pc, loc, hist, thrown >>
        PROVE  TimersWait'
    BY <1>0, <2>0, <2>2, CleanedWait DEF Refreshed
  <2>3. ASSUME NEW t \in DOMAIN heap, t \in Timers, mu[t] = Free, ~Dirty(timer[t].bits),
               UnlockAndRun(m, t, "relock")
        PROVE  TimersWait'
    <3>1. Ran(m, t, "relock") BY <1>0, <2>0, <2>3, RanThis
    <3>2. timer[t].when > 0 BY <2>3 DEF TimersBits, BitsAt, Dirty
    <3> QED BY <1>0, <2>3, <3>1, <3>2, RanWait
  <2> QED BY <1>7, <2>1, <2>2, <2>3, RunCases
<1>8. CASE Tick
  <2>1. UNCHANGED << mu, recvq, buf, timer, pc, loc >> BY <1>8 DEF Tick, chans
  <2> QED BY <1>1, <2>1
<1>9. ASSUME NEW a \in Actors, SendTime(a) PROVE TimersWait' BY <1>9, WaitSendTimeStep
<1>10. ASSUME NEW g \in Users, Recv(g) PROVE TimersWait' BY <1>10, WaitRecvStep
<1>11. ASSUME NEW g \in Users, Block(g) \/ Unblock(g) PROVE TimersWait' BY <1>11, WaitBlockStep
<1>12. ASSUME NEW g \in Users, Stop(g) \/ ModifyLock(g) \/ ModifyUnlock(g) \/ Insert(g)
       PROVE  TimersWait'
  BY <1>12, WaitUserStep
<1>13. ASSUME NEW g \in Users, Call(g) \/ Return(g) \/ LockSend(g) \/ Drain(g) \/ Publish(g)
                               \/ AddLock(g) \/ CleanDone(g)
       PROVE  TimersWait'
  BY <1>13, WaitPlainStep
<1> QED BY <1>2, <1>3, <1>4, <1>5, <1>6, <1>7, <1>8, <1>9, <1>10, <1>11, <1>12, <1>13, StepCases

(* The generations of the values, after a step that sends none and sets no timer. *)
SameSend(a) ==
  /\ pc'[a] = "send" <=> pc[a] = "send"
  /\ pc'[a] = "sending" => pc[a] = "sending"
  /\ pc'[a] \in {"send", "sending"} => loc'[a].t = loc[a].t /\ loc'[a].seq = loc[a].seq

(* A value in a channel stays, or is received or drained; who sends one still sends it. *)
LEMMA SeqKeep ==
  ASSUME TimersType, TimersType', TimersPlace, TimersSeq, scene' = scene,
         \A u \in Timers :
           /\ timer'[u].seq = timer[u].seq /\ timer'[u].sending = timer[u].sending
           /\ buf'[u] \in {0, buf[u], timer[u].seq}
           /\ mu'[u] = Free /\ timer'[u].when > 0 => mu[u] = Free /\ timer[u].when > 0,
         \A g \in Users, u \in Timers : pc[g] = "drain" /\ T(g) = u =>
           (pc'[g] = "drain" /\ loc'[g].t = u) \/ buf'[u] = 0,
         \A a \in Actors : SameSend(a)
  PROVE  TimersSeq'
<1>0. scene.chan \subseteq Timers /\ scene'.chan = scene.chan BY AtTimer
<1>1. ASSUME NEW t \in Timers, SeqAt(t) PROVE SeqAt(t)'
  <2>1. timer[t] \in Settings /\ buf[t] \in Nat BY DEF TimersType
  <2>1a. timer[t].seq \in Nat BY <2>1 DEF Settings
  <2>2. Sends(t)' = Sends(t) BY DEF Sends, SameSend, T
  <2>3. Period(t)' = Period(t) BY DEF Period
  <2>4. Period(t)' = 0 => timer'[t].sending = Cardinality(Sends(t)') BY <1>1, <2>2, <2>3 DEF SeqAt
  <2>5. buf'[t] <= timer'[t].seq BY <1>1, <2>1, <2>1a DEF SeqAt
  <2>6. buf'[t] \in {0, timer'[t].seq} \/ Draining(t)'
    <3>1. CASE Draining(t) BY <3>1 DEF Draining, T
    <3>2. CASE ~Draining(t) BY <1>1, <3>2 DEF SeqAt
    <3> QED BY <3>1, <3>2
  <2>7. mu'[t] = Free /\ timer'[t].when > 0 => timer'[t].seq > 0 BY <1>1 DEF SeqAt
  <2> QED BY <2>4, <2>5, <2>6, <2>7 DEF SeqAt
<1>2. ASSUME NEW a \in Actors PROVE SentAt(a)'
  <2> SUFFICES ASSUME pc'[a] \in {"send", "sending"} PROVE SentAt(a)'
    BY DEF SentAt
  <2>1. pc[a] \in {"send", "sending"} /\ loc'[a].t = loc[a].t /\ loc'[a].seq = loc[a].seq
    BY DEF SameSend
  <2>2. SentAt(a) /\ T(a) \in Timers BY <2>1, AtTimer DEF TimersSeq
  <2>3. timer'[T(a)].seq = timer[T(a)].seq BY <2>2
  <2>4. pc'[a] = "sending" => pc[a] = "sending" BY DEF SameSend
  <2> QED BY <2>1, <2>2, <2>3, <2>4 DEF SentAt, Tm, T
<1> QED BY <1>0, <1>1, <1>2 DEF TimersSeq

(* ... and after one that alters a timer. *)
LEMMA SeqChange ==
  ASSUME TimersType, TimersType', TimersPlace, TimersSeq,
         NEW a \in Actors, NEW t \in Timers, Alters(a, t),
         IsChan(t) => SeqAt(t)', SentAt(a)',
         \A b \in Actors \ {a} : pc[b] \in {"send", "sending"} /\ T(b) = t => SentAt(b)',
         \A u \in Timers \ {t} : a \notin Sends(u) /\ a \notin Sends(u)'
                                   /\ ~(pc[a] = "drain" /\ T(a) = u)
  PROVE  TimersSeq'
<1>0. scene.chan \subseteq Timers /\ scene' = scene BY AtTimer DEF Alters
<1>1. ASSUME NEW u \in Timers, u # t, SeqAt(u) PROVE SeqAt(u)'
  <2>1. timer'[u] = timer[u] /\ mu'[u] = mu[u] /\ buf' = buf /\ Period(u)' = Period(u)
    BY <1>1 DEF Alters, Period
  <2>2. \A b \in Actors \ {a} : loc'[b] = loc[b] /\ pc'[b] = pc[b] BY DEF Alters
  <2>3. Sends(u)' = Sends(u) BY <1>1, <2>2 DEF Sends, T
  <2>4. Draining(u) => Draining(u)' BY <1>1, <2>2 DEF Draining, T, Actors
  <2> QED BY <1>1, <2>1, <2>3, <2>4 DEF SeqAt
<1>2. ASSUME NEW b \in Actors, b # a PROVE SentAt(b)'
  <2>1. loc'[b] = loc[b] /\ pc'[b] = pc[b] BY <1>2 DEF Alters
  <2>2. CASE pc[b] \in {"send", "sending"} /\ T(b) # t
    <3>1. timer'[T(b)] = timer[T(b)] BY <2>2, AtTimer DEF Alters
    <3> QED BY <2>1, <3>1 DEF SentAt, Tm, T, TimersSeq
  <2>3. CASE pc[b] \notin {"send", "sending"} BY <2>1, <2>3 DEF SentAt
  <2> QED BY <2>2, <2>3, <1>2
<1>3. \A u \in scene'.chan : SeqAt(u)' BY <1>0, <1>1 DEF IsChan, TimersSeq
<1> QED BY <1>2, <1>3 DEF TimersSeq

(* The generations after an entry of the heap is brought up to date ... *)
LEMMA CleanedSeq ==
  ASSUME TimersType, TimersType', TimersPlace, TimersSeq, NEW a \in Actors, NEW t \in Timers,
         Alters(a, t), Cleaned(t), UNCHANGED << pc, loc, mu >>
  PROVE  TimersSeq'
<1>1. scene' = scene /\ buf' = buf BY DEF Alters
<1>2. /\ timer'[t].seq = timer[t].seq /\ timer'[t].sending = timer[t].sending
      /\ timer'[t].when = timer[t].when
  BY DEF Cleaned, Becomes
<1>3. \A u \in Timers : /\ timer'[u].seq = timer[u].seq /\ timer'[u].sending = timer[u].sending
                        /\ timer'[u].when = timer[u].when
  BY <1>2 DEF Alters
<1>4. \A b \in Actors : SameSend(b) BY DEF SameSend
<1> QED BY <1>1, <1>3, <1>4, SeqKeep DEF T

(* ... and after a timer goes off, and decides to send a value of its own. *)
LEMMA RanSeq ==
  ASSUME TimersType, TimersType', TimersPlace, TimersSeq,
         NEW a \in Actors, NEW t \in Timers, NEW back \in {"empty", "recv", "relock"},
         Ran(a, t, back), timer[t].when > 0, pc[a] \in {"run", "empty"}
  PROVE  TimersSeq'
<1> DEFINE r == timer[t]
           w == Next1(t)
           k == IF IsChan(t) /\ Period(t) = 0 THEN r.sending + 1 ELSE r.sending
<1>1. /\ mu[t] = Free /\ r \in Settings /\ Alters(a, t) /\ mu' = mu /\ loc[a] \in Locs
      /\ pc'[a] = (IF IsChan(t) THEN "send" ELSE back)
      /\ loc'[a] = [loc[a] EXCEPT !.t = t, !.seq = r.seq, !.back = back]
      /\ scene' = scene /\ buf' = buf
  BY DEF Ran, TimersType, Alters
<1>2. timer'[t].seq = r.seq /\ timer'[t].sending = k BY DEF Ran, Becomes
<1>3. loc'[a].t = t /\ loc'[a].seq = r.seq BY <1>1 DEF Locs
<1>4. IsChan(t) => r.seq \in Nat \ {0}
  BY <1>1 DEF TimersSeq, IsChan, SeqAt, Settings
<1>5. SentAt(a)'
  <2>1. CASE IsChan(t)
    <3>1. pc'[a] = "send" /\ r.seq \in 1 .. r.seq BY <2>1, <1>1, <1>4
    <3>2. Tm(a)'.seq = r.seq BY <1>2, <1>3 DEF Tm, T
    <3> QED BY <1>3, <3>1, <3>2 DEF SentAt
  <2>2. CASE ~IsChan(t) BY <1>1, <2>2 DEF SentAt
  <2> QED BY <2>1, <2>2
<1>6. ASSUME NEW b \in Actors \ {a}, pc[b] \in {"send", "sending"}, T(b) = t PROVE SentAt(b)'
  <2>1. loc'[b] = loc[b] /\ pc'[b] = pc[b] BY <1>1 DEF Alters
  <2> QED BY <1>2, <1>6, <2>1 DEF SentAt, Tm, T, TimersSeq
<1>7. IsChan(t) => SeqAt(t)'
  <2> SUFFICES ASSUME IsChan(t) PROVE SeqAt(t)'
    OBVIOUS
  <2>1. SeqAt(t) BY DEF IsChan, TimersSeq
  <2>2. \A b \in Actors \ {a} : loc'[b] = loc[b] /\ pc'[b] = pc[b] BY <1>1 DEF Alters
  <2>3. Period(t)' = 0 => timer'[t].sending = Cardinality(Sends(t)')
    <3>1. Period(t)' = Period(t) BY <1>1 DEF Period
    <3>2. a \notin Sends(t) /\ a \in Sends(t)'
      BY <1>1, <1>3 DEF Sends, T
    <3>3. \A b \in Actors : b # a => (b \in Sends(t) <=> b \in Sends(t)')
      BY <2>2 DEF Sends, T
    <3>4. IsFiniteSet(Actors) /\ Sends(t) \in SUBSET Actors /\ Sends(t)' \in SUBSET Actors
      BY TimersAssumption, FS_Union DEF Sends, Actors
    <3>5. Cardinality(Sends(t)') = Cardinality(Sends(t)) + 1 BY <3>2, <3>3, <3>4, CountGain
    <3> QED BY <2>1, <3>1, <3>5, <1>2 DEF SeqAt
  <2>4. Draining(t) => Draining(t)' BY <2>2 DEF Draining, T, Actors
  <2> QED BY <2>1, <2>3, <2>4, <1>1, <1>2, <1>4 DEF SeqAt
<1>8. \A u \in Timers \ {t} : a \notin Sends(u) /\ a \notin Sends(u)'
                                /\ ~(pc[a] = "drain" /\ T(a) = u)
  BY <1>3 DEF Sends, T
<1> QED BY <1>1, <1>5, <1>6, <1>7, <1>8, SeqChange

(* Stop and modify start a new generation, and nobody is in the middle of sending then. *)
LEMMA SeqSetStep ==
  ASSUME TimersType, TimersType', TimersPlace, TimersLocks, TimersSeq,
         NEW g \in Users, Stop(g) \/ ModifyUnlock(g)
  PROVE  TimersSeq'
<1>0. g \in Actors /\ loc[g] \in Locs BY DEF Actors, TimersType
<1>t. PICK t \in Timers : t = T(g)
  <2>1. T(g) \in Timers BY StopEffect, ModifyUnlockEffect DEF Alters
  <2> QED BY <2>1
<1> DEFINE r == timer[t]
<1>1. /\ Alters(g, t) /\ r \in Settings /\ timer'[t].seq = NextSeq(t)
      /\ timer'[t].sending = r.sending /\ pc[g] \in {"lock"} \cup Mods
      /\ pc'[g] \notin {"send", "sending"} /\ loc'[g].t = t
      /\ IsChan(t) => pc'[g] = "drain"
      /\ mu'[t] = Free /\ timer'[t].when > 0 => NextSeq(t) > 0 \/ ~IsChan(t)
  <2>1. CASE Stop(g)
    <3> DEFINE b == IF "heaped" \in r.bits THEN r.bits \cup {"modified", "zombie"} ELSE r.bits
    <3>1. /\ Alters(g, t) /\ r \in Settings
          /\ Becomes(t, 0, NextSeq(t), b, b, r.blocked, r.sending)
          /\ pc[g] = "lock"
      BY <2>1, <1>t, StopEffect
    <3>2. pc'[g] = (IF IsChan(t) THEN "drain" ELSE "ret") BY <2>1, <1>t, StopEffect
    <3>3. loc'[g] = [loc[g] EXCEPT !.ret = r.when > 0 \/ Squelched(t), !.was = armed[t],
                                   !.late = Underway(t, r.seq)]
      BY <2>1, <1>t, StopEffect
    <3>4. loc'[g].t = t BY <3>3, <1>0, <1>t DEF Locs, T
    <3>5. timer'[t].when = 0 /\ timer'[t].seq = NextSeq(t) /\ timer'[t].sending = r.sending
      <4> HIDE DEF b
      <4> QED BY <3>1 DEF Becomes
    <3> QED BY <3>1, <3>2, <3>4, <3>5
  <2>2. CASE ModifyUnlock(g)
    <3>1. /\ Alters(g, t) /\ r \in Settings
          /\ Becomes(t, r.when, NextSeq(t), r.bits, r.bits, r.blocked, r.sending)
          /\ pc[g] \in {"unlock", "published"}
      BY <2>2, <1>t, ModifyUnlockEffect
    <3>2. pc'[g] = (IF IsChan(t) THEN "drain" ELSE IF NeedsAdd(t, r) THEN "add" ELSE "ret")
      BY <2>2, <1>t, ModifyUnlockEffect
    <3>3. loc'[g] = [loc[g] EXCEPT !.ret = loc[g].ret \/ Squelched(t), !.add = NeedsAdd(t, r),
                                   !.was = armed[t], !.late = Underway(t, r.seq)]
      BY <2>2, <1>t, ModifyUnlockEffect
    <3>4. loc'[g].t = t BY <3>3, <1>0, <1>t DEF Locs, T
    <3>5. timer'[t].seq = NextSeq(t) /\ timer'[t].sending = r.sending BY <3>1 DEF Becomes
    <3>6. IsChan(t) => NextSeq(t) > 0 BY <3>1 DEF NextSeq, Settings
    <3> QED BY <3>1, <3>2, <3>4, <3>5, <3>6 DEF Mods
  <2> QED BY <2>1, <2>2
<1>2. /\ IsChan(t) => NextSeq(t) = r.seq + 1
      /\ r.seq \in Nat
  BY <1>1 DEF NextSeq, Settings
<1>3. \A b \in Actors \ {g} : loc'[b] = loc[b] /\ pc'[b] = pc[b] BY <1>1 DEF Alters
<1>4. ASSUME NEW b \in Actors \ {g}, pc[b] \in {"send", "sending"}, T(b) = t PROVE SentAt(b)'
  <2>1. IsChan(t) BY <1>4, AtTimer
  <2>2. sendLock[t] = g BY <1>0, <1>1, <2>1, <1>t DEF TimersLocks, LocksAt, HoldsSend, Mods
  <2>3. pc[b] # "sending" BY <1>4, <2>1, <2>2 DEF TimersLocks, LocksAt, HoldsSend
  <2>4. loc[b].seq \in 1 .. r.seq BY <1>4 DEF TimersSeq, SentAt, Tm
  <2>5. loc'[b].seq \in 1 .. timer'[t].seq BY <1>1, <1>2, <1>3, <2>1, <2>4
  <2> QED BY <1>3, <1>4, <2>3, <2>5 DEF SentAt, Tm, T
<1>5. IsChan(t) => SeqAt(t)'
  <2> SUFFICES ASSUME IsChan(t) PROVE SeqAt(t)'
    OBVIOUS
  <2>1. SeqAt(t) /\ buf[t] \in Nat /\ buf' = buf /\ Period(t)' = Period(t)
    BY <1>1 DEF IsChan, TimersSeq, TimersType, Alters, Period
  <2>2. Draining(t)' BY <1>1 DEF Draining, T
  <2>3. Sends(t)' = Sends(t)
    <3>1. g \notin Sends(t) /\ g \notin Sends(t)' BY <1>1 DEF Sends, Mods
    <3>2. \A b \in Actors : b \in Sends(t) <=> b \in Sends(t)' BY <1>3, <3>1 DEF Sends, T
    <3>3. Sends(t) \in SUBSET Actors /\ Sends(t)' \in SUBSET Actors BY DEF Sends
    <3> QED BY <3>2, <3>3
  <2>4. Period(t)' = 0 => timer'[t].sending = Cardinality(Sends(t)')
    BY <1>1, <2>1, <2>3 DEF SeqAt
  <2>5. buf'[t] <= timer'[t].seq BY <1>1, <1>2, <2>1 DEF SeqAt
  <2> QED BY <1>1, <2>2, <2>4, <2>5 DEF SeqAt
<1>6. SentAt(g)' BY <1>1 DEF SentAt
<1>7. \A u \in Timers \ {t} : g \notin Sends(u) /\ g \notin Sends(u)'
                                /\ ~(pc[g] = "drain" /\ T(g) = u)
  BY <1>1, <1>t DEF Sends, T, Mods
<1> QED BY <1>0, <1>1, <1>4, <1>5, <1>6, <1>7, SeqChange

(* A value that was decided on is dropped, or on its way under t.sendLock. *)
LEMMA SeqSendStep ==
  ASSUME TimersType, TimersType', TimersPlace, TimersSeq, NEW a \in Actors, Send(a)
  PROVE  TimersSeq'
<1>1. /\ pc[a] = "send" /\ UNCHANGED << scene, mu, buf, loc >>
      /\ \A b \in Actors \ {a} : pc'[b] = pc[b]
      /\ pc'[a] = (IF loc[a].seq # Tm(a).seq THEN loc[a].back ELSE "sending")
  BY DEF Send, SendWith, From, To, TimersType, chans
<1>2. a \in Users => loc[a].back \in {"empty", "recv"} BY <1>1 DEF TimersPlace, UserAt
<1>2a. a \in Ms => loc[a].back = "relock" BY <1>1 DEF TimersPlace, CheckAt
<1>3. pc'[a] # "send" /\ (pc'[a] = "sending" => loc[a].seq = Tm(a).seq)
  BY <1>1, <1>2, <1>2a DEF Actors
<1>4. scene.chan \subseteq Timers BY AtTimer
<1>5. \A u \in Timers : timer'[u].seq = timer[u].seq /\ timer'[u].when = timer[u].when
  BY SendSame
<1>6. ASSUME NEW u \in scene.chan PROVE SeqAt(u)'
  <2>1. SeqAt(u) /\ Period(u)' = Period(u) /\ u \in Timers BY <1>1, <1>4 DEF TimersSeq, Period
  <2>2. Draining(u) => Draining(u)' BY <1>1 DEF Draining, T, Actors
  <2>3. Period(u)' = 0 => timer'[u].sending = Cardinality(Sends(u)')
    <3>1. IsFiniteSet(Actors) /\ Sends(u) \in SUBSET Actors /\ Sends(u)' \in SUBSET Actors
      BY TimersAssumption, FS_Union DEF Sends, Actors
    <3>2. \A b \in Actors : b # a => (b \in Sends(u) <=> b \in Sends(u)')
      BY <1>1 DEF Sends, T
    <3>3. a \notin Sends(u)' BY <1>3 DEF Sends
    <3>4. CASE u = T(a)
      <4>1. a \in Sends(u) BY <3>4, <1>1 DEF Sends
      <4>2. Cardinality(Sends(u)') = Cardinality(Sends(u)) - 1
        BY <3>1, <3>2, <3>3, <4>1, CountLoss
      <4>3. Period(T(a)) = 0 => timer'[u].sending = Tm(a).sending - 1 BY <3>4, SendSame
      <4> QED BY <2>1, <3>4, <4>2, <4>3 DEF SeqAt, Tm
    <3>5. CASE u # T(a)
      <4>1. a \notin Sends(u) BY <3>5 DEF Sends
      <4>2. Cardinality(Sends(u)') = Cardinality(Sends(u))
        <5>1. \A b \in Actors : b \in Sends(u) <=> b \in Sends(u)' BY <3>2, <3>3, <4>1
        <5> QED BY <3>1, <5>1, CountSame
      <4>3. timer'[u] = timer[u] BY <2>1, <3>5, SendSame
      <4> QED BY <2>1, <4>2, <4>3 DEF SeqAt
    <3> QED BY <3>4, <3>5
  <2> QED BY <1>1, <1>5, <2>1, <2>2, <2>3 DEF SeqAt
<1>7. ASSUME NEW b \in Actors PROVE SentAt(b)'
  <2> SUFFICES ASSUME pc'[b] \in {"send", "sending"} PROVE SentAt(b)'
    BY DEF SentAt
  <2>1. pc[b] \in {"send", "sending"} BY <1>1
  <2>2. T(b) \in Timers /\ SentAt(b) BY <2>1, AtTimer DEF TimersSeq
  <2>3. timer'[T(b)].seq = timer[T(b)].seq BY <2>2, <1>5
  <2>4. pc'[b] = "sending" => loc[b].seq = Tm(b).seq BY <1>1, <1>3, <2>2 DEF SentAt
  <2> QED BY <1>1, <2>1, <2>2, <2>3, <2>4 DEF SentAt, Tm, T
<1> QED BY <1>1, <1>6, <1>7 DEF TimersSeq

(* The generations are right after every step. *)
LEMMA SeqStep ==
  ASSUME TimersType, TimersType', TimersPlace, TimersLocks, TimersBits, TimersWake, TimersWait,
         TimersSeq, TimersNext
  PROVE  TimersSeq'
<1>0. /\ \A g \in Users : g \in Actors /\ loc[g] \in Locs
      /\ \A m \in Ms : m \in Actors /\ m \notin Users
      /\ \A a \in Actors : a \in Users \/ a \in Ms
      /\ \A u \in Timers : timer[u] \in Settings /\ buf[u] \in Nat
  BY TimersAssumption DEF Actors, TimersType
<1>1. ASSUME NEW a \in Actors, scene' = scene,
             \A u \in Timers :
               /\ timer'[u].seq = timer[u].seq /\ timer'[u].sending = timer[u].sending
               /\ buf'[u] \in {0, buf[u], timer[u].seq}
               /\ mu'[u] = Free /\ timer'[u].when > 0 => mu[u] = Free /\ timer[u].when > 0,
             \A b \in Actors \ {a} :
               /\ pc'[b] = pc[b] \/ {pc[b], pc'[b]} \cap {"drain", "send", "sending"} = {}
               /\ loc'[b].t = loc[b].t /\ loc'[b].seq = loc[b].seq,
             pc[a] = "drain" => buf'[T(a)] = 0,
             pc[a] # "send" /\ pc'[a] \notin {"send", "sending"}
      PROVE  TimersSeq'
  <2>1. \A b \in Actors : SameSend(b) BY <1>1 DEF SameSend
  <2>2. \A g \in Users, u \in Timers : pc[g] = "drain" /\ T(g) = u =>
          (pc'[g] = "drain" /\ loc'[g].t = u) \/ buf'[u] = 0
    BY <1>0, <1>1 DEF T
  <2> QED BY <1>1, <2>1, <2>2, SeqKeep
<1>2. ASSUME NEW g \in Users, Call(g) \/ Return(g) \/ LockSend(g) \/ Publish(g)
                                \/ AddLock(g) \/ CleanDone(g)
      PROVE  TimersSeq'
  <2>1. UNCHANGED << scene, mu, timer, buf >>
    BY <1>2 DEF Call, Return, LockSend, Publish, AddLock, CleanDone, chans
  <2>2. \A b \in Actors \ {g} : pc'[b] = pc[b] /\ loc'[b] = loc[b]
    <3>0. CASE Call(g) BY <3>0, CallMoves
    <3>1. CASE Return(g) \/ LockSend(g)
      BY <3>1, <1>0 DEF Return, LockSend, To, Drop, TimersType
    <3>2. CASE Publish(g) \/ AddLock(g) \/ CleanDone(g)
      BY <3>2, <1>0 DEF Publish, AddLock, CleanDone, To, TimersType
    <3> QED BY <1>2, <3>0, <3>1, <3>2
  <2>3. pc[g] \notin {"drain", "send"} /\ pc'[g] \notin {"send", "sending"}
    BY <1>2, <1>0 DEF Call, Return, LockSend, Publish, AddLock, CleanDone, From, To, TimersType
  <2> QED BY <1>0, <1>1, <2>1, <2>2, <2>3
<1>3. ASSUME NEW g \in Users, Drain(g) PROVE TimersSeq'
  <2>1. UNCHANGED << scene, mu, timer >> /\ pc[g] = "drain" BY <1>3 DEF Drain, From
  <2>2. \A b \in Actors \ {g} : pc'[b] = pc[b] /\ loc'[b] = loc[b]
    BY <1>3, <1>0 DEF Drain, To, TimersType
  <2>3. pc'[g] \notin {"send", "sending"} BY <1>3, <1>0 DEF Drain, To, TimersType
  <2>4. T(g) \in Timers BY <2>1, AtTimer
  <2>5. buf'[T(g)] = 0 /\ \A u \in Timers : buf'[u] \in {0, buf[u]}
    BY <1>3, <2>4 DEF Drain, TimersType
  <2> QED BY <1>0, <1>1, <2>1, <2>2, <2>3, <2>5
<1>4. ASSUME NEW g \in Users, Recv(g) PROVE TimersSeq'
  <2>1. UNCHANGED << scene, mu, timer >> /\ pc[g] = "recv" BY <1>4 DEF Recv, From
  <2>2. \A b \in Actors \ {g} : pc'[b] = pc[b] BY <1>4, <1>0 DEF Recv, To, TimersType
  <2>3. pc'[g] \notin {"send", "sending"} BY <1>4, <1>0 DEF Recv, To, TimersType
  <2>4. \A u \in Timers : buf'[u] \in {0, buf[u]} BY <1>4 DEF Recv, TimersType, chans
  <2>5. \A b \in Actors \ {g} : loc'[b].t = loc[b].t /\ loc'[b].seq = loc[b].seq
    <3>1. \/ UNCHANGED loc
          \/ loc' = [a \in Actors |->
                       IF a = g THEN [loc[a] EXCEPT !.ret = TRUE]
                       ELSE IF pc[a] = "drain" /\ T(a) = T(g) THEN [loc[a] EXCEPT !.was = FALSE]
                       ELSE loc[a]]
      BY <1>4 DEF Recv
    <3>2. loc \in [Actors -> Locs] BY DEF TimersType
    <3> QED BY <3>1, <3>2 DEF Locs
  <2> QED BY <1>0, <1>1, <2>1, <2>2, <2>3, <2>4, <2>5
<1>5. ASSUME NEW a \in Actors, SendTime(a) PROVE TimersSeq'
  <2>1. UNCHANGED << scene, mu, timer, loc >> /\ pc[a] = "sending" BY <1>5 DEF SendTime, From
  <2>2. T(a) \in Timers /\ loc[a].seq = timer[T(a)].seq
    BY <2>1, AtTimer DEF TimersSeq, SentAt, Tm
  <2>3. \A u \in Timers : buf'[u] \in {buf[u], timer[u].seq}
    <3>1. buf' = buf \/ buf' = [buf EXCEPT ![T(a)] = loc[a].seq] BY <1>5 DEF SendTime, chans
    <3> QED BY <2>2, <3>1 DEF TimersType
  <2>4. SendWakes(a) BY <1>5, SendTimeWakes
  <2>5. \A b \in Actors \ {a} :
          pc'[b] = pc[b] \/ {pc[b], pc'[b]} \cap {"drain", "send", "sending"} = {}
    BY <2>4 DEF SendWakes
  <2>6. a \in Users => loc[a].back \in {"empty", "recv"} BY <2>1 DEF TimersPlace, UserAt
  <2>7. a \in Ms => loc[a].back = "relock" BY <2>1 DEF TimersPlace, CheckAt
  <2>8. pc'[a] \notin {"send", "sending"} BY <1>0, <2>4, <2>6, <2>7 DEF SendWakes
  <2> QED BY <1>1, <2>1, <2>3, <2>5, <2>8
<1>6. ASSUME NEW m \in Ms,
             Check(m) \/ Adjust(m) \/ Clear(m) \/ EndScan(m) \/ Relock(m) \/ UnlockTs(m)
      PROVE  TimersSeq'
  <2>1. UNCHANGED << scene, mu, buf, timer >>
    BY <1>6 DEF Check, Adjust, Clear, EndScan, Relock, UnlockTs, chans
  <2>2. \A b \in Actors \ {m} : pc'[b] = pc[b] /\ loc'[b] = loc[b]
    BY <1>6, <1>0 DEF Check, Adjust, Clear, EndScan, Relock, UnlockTs, To, Drop, TimersType
  <2>3. pc[m] \notin {"drain", "send"}
    BY <1>6 DEF Check, Adjust, Clear, EndScan, Relock, UnlockTs, From
  <2>4. pc[m] = "scan" => loc[m].back \in {"run", "unlockTs"} BY DEF TimersPlace, CheckAt
  <2>5. pc'[m] \notin {"send", "sending"}
    BY <1>6, <1>0, <2>4 DEF Check, Adjust, Clear, EndScan, Relock, UnlockTs, From, To, TimersType
  <2> QED BY <1>0, <1>1, <2>1, <2>2, <2>3, <2>5
<1>7. ASSUME NEW g \in Users, CleanHead(g) PROVE TimersSeq'
  <2>1. PICK t \in Timers : Cleaned(t) /\ Alters(g, t) BY <1>7, CleanEffect
  <2>2. UNCHANGED << pc, loc, mu >> BY <1>7, CleanEffect
  <2> QED BY <1>0, <2>1, <2>2, CleanedSeq
<1>8. ASSUME NEW g \in Users, MaybeRunChan(g) PROVE TimersSeq'
  <2>0. UNCHANGED << scene, mu, chans >> /\ pc[g] \in {"run", "empty"} BY <1>8 DEF MaybeRunChan
  <2>1. CASE /\ pc'[g] \in {"empty", "recv"} /\ \A b \in Actors \ {g} : pc'[b] = pc[b]
             /\ UNCHANGED << timer, ts, loc, hist, thrown >>
    BY <1>0, <1>1, <2>0, <2>1 DEF chans
  <2>2. ASSUME NEW back \in {"empty", "recv"}, Ran(g, T(g), back),
               timer[T(g)].when \in 1 .. now
        PROVE  TimersSeq'
    <3>1. T(g) \in Timers /\ timer[T(g)].when > 0 BY <2>2 DEF Ran, Alters
    <3> QED BY <1>0, <2>0, <2>2, <3>1, RanSeq
  <2> QED BY <1>8, <2>1, <2>2, MaybeRunCases
<1>9. ASSUME NEW m \in Ms, Scan(m) PROVE TimersSeq'
  <2>1. PICK t \in todo :
          \/ UNCHANGED << timer, heap, zombies, thrown >>
          \/ /\ Cleaned(t) /\ Alters(m, t)
    BY <1>9, ScanEffect
  <2>2. UNCHANGED << scene, mu, pc, loc, chans >> /\ pc[m] = "scan" BY <1>9, ScanEffect
  <2>3. t \in DOMAIN heap /\ t \in Timers BY DEF TimersWake, TimersType
  <2>4. CASE UNCHANGED << timer, heap, zombies, thrown >>
    BY <1>0, <1>1, <2>2, <2>4 DEF chans
  <2>5. CASE Cleaned(t) /\ Alters(m, t) BY <1>0, <2>2, <2>3, <2>5, CleanedSeq
  <2> QED BY <2>1, <2>4, <2>5
<1>10. ASSUME NEW m \in Ms, Run(m) PROVE TimersSeq'
  <2>0. UNCHANGED << scene, now, mu, sendLock, chans, todo, calls >> /\ pc[m] = "run"
    BY <1>10, RunCases
  <2>1. CASE /\ pc'[m] \in {"forced", "unlockTs"} /\ \A b \in Actors \ {m} : pc'[b] = pc[b]
             /\ UNCHANGED << timer, ts, loc, hist, thrown >>
    BY <1>0, <1>1, <2>0, <2>1 DEF chans
  <2>2. ASSUME NEW t \in Timers, Refreshed(t), Alters(m, t),
               UNCHANGED << len, tsmu, pc, loc, hist, thrown >>
        PROVE  TimersSeq'
    BY <1>0, <2>0, <2>2, CleanedSeq DEF Refreshed
  <2>3. ASSUME NEW t \in DOMAIN heap, t \in Timers, mu[t] = Free, ~Dirty(timer[t].bits),
               UnlockAndRun(m, t, "relock")
        PROVE  TimersSeq'
    <3>1. Ran(m, t, "relock") BY <1>0, <2>0, <2>3, RanThis
    <3>2. timer[t].when > 0 BY <2>3 DEF TimersBits, BitsAt, Dirty
    <3> QED BY <1>0, <2>0, <2>3, <3>1, <3>2, RanSeq
  <2> QED BY <1>10, <2>1, <2>2, <2>3, RunCases
<1>11. ASSUME NEW g \in Users, ModifyLock(g) \/ Insert(g) \/ Block(g) \/ Unblock(g) PROVE TimersSeq'
  <2>t. PICK t \in Timers : t = T(g)
    <3>1. T(g) \in Timers BY <1>11, ModifyLockEffect, InsertEffect, BlockEffect, UnblockEffect DEF Alters
    <3> QED BY <3>1
  <2>1. /\ Alters(g, t) /\ timer'[t].seq = timer[t].seq /\ timer'[t].sending = timer[t].sending
        /\ mu'[t] = Free /\ timer'[t].when > 0 => mu[t] = Free /\ timer[t].when > 0
        /\ pc[g] \in {"lock", "insert", "block", "unblock"}
        /\ pc'[g] \in {"publish", "unlock", "add", "parked", "ret"}
    <3>1. CASE ModifyLock(g)
      <4> DEFINE r == timer[t]
                 b == IF "heaped" \in r.bits THEN (r.bits \cup {"modified"}) \ {"zombie"} ELSE r.bits
                 wake == "heaped" \in r.bits /\ (minMod = 0 \/ loc[g].when < minMod)
                 as == IF wake THEN b ELSE r.astate
      <4>1. Alters(g, t) /\ Becomes(t, loc[g].when, r.seq, b, as, r.blocked, r.sending)
        BY <3>1, <2>t, ModifyLockEffect
      <4>2. pc[g] = "lock" /\ mu' = [mu EXCEPT ![t] = g] BY <3>1, <2>t, ModifyLockEffect
      <4>3. pc'[g] = (IF wake THEN "publish" ELSE "unlock") BY <3>1, <2>t, ModifyLockEffect
      <4>4. mu'[t] = g /\ g # Free BY <4>2, TimersAssumption DEF TimersType
      <4> HIDE DEF b, as, wake
      <4> QED BY <4>1, <4>2, <4>3, <4>4 DEF Becomes
    <3>2. CASE Insert(g)
      <4> DEFINE r == timer[t]
                 b == r.bits \cup {"heaped"}
      <4>1. /\ NeedsAdd(t, r) => Becomes(t, r.when, r.seq, b, b, r.blocked, r.sending)
            /\ ~NeedsAdd(t, r) => UNCHANGED timer
            /\ Alters(g, t) /\ mu[t] = Free /\ mu' = mu /\ pc[g] = "insert"
        BY <3>2, <2>t, InsertEffect
      <4>2. pc'[g] = (IF chlock[t] = g THEN "parked" ELSE "ret") BY <3>2, <2>t, InsertEffect
      <4>3. timer'[t].seq = r.seq /\ timer'[t].sending = r.sending /\ timer'[t].when = r.when
        BY <4>1 DEF Becomes
      <4> QED BY <4>1, <4>2, <4>3
    <3>3. CASE Block(g)
      <4> DEFINE r == timer[t]
                 revive == "zombie" \in r.bits /\ r.when > 0
                 b == IF revive THEN r.bits \ {"zombie"} ELSE r.bits
      <4>1. /\ Becomes(t, r.when, r.seq, b, b, r.blocked + 1, r.sending)
            /\ Alters(g, t) /\ mu[t] = Free /\ mu' = mu /\ pc[g] = "block"
        BY <3>3, <2>t, BlockEffect
      <4>2. pc'[g] \in {"add", "parked"} BY <3>3, BlockEffect
      <4> HIDE DEF b
      <4>3. timer'[t].seq = r.seq /\ timer'[t].sending = r.sending /\ timer'[t].when = r.when
        BY <4>1 DEF Becomes
      <4> QED BY <4>1, <4>2, <4>3
    <3>4. CASE Unblock(g)
      <4> DEFINE r == timer[t]
                 last == r.blocked = 1 /\ "heaped" \in r.bits /\ "zombie" \notin r.bits
                 b == IF last THEN r.bits \cup {"zombie"} ELSE r.bits
      <4>1. /\ Becomes(t, r.when, r.seq, b, b, r.blocked - 1, r.sending)
            /\ Alters(g, t) /\ mu[t] = Free /\ mu' = mu /\ pc[g] = "unblock" /\ pc'[g] = "ret"
        BY <3>4, <2>t, UnblockEffect
      <4> HIDE DEF b
      <4>3. timer'[t].seq = r.seq /\ timer'[t].sending = r.sending /\ timer'[t].when = r.when
        BY <4>1 DEF Becomes
      <4> QED BY <4>1, <4>3
    <3> QED BY <1>11, <3>1, <3>2, <3>3, <3>4
  <2>2. scene' = scene /\ buf' = buf BY <2>1 DEF Alters
  <2>3. \A b \in Actors \ {g} : pc'[b] = pc[b] /\ loc'[b] = loc[b] BY <2>1 DEF Alters
  <2>4. \A u \in Timers :
          /\ timer'[u].seq = timer[u].seq /\ timer'[u].sending = timer[u].sending
          /\ mu'[u] = Free /\ timer'[u].when > 0 => mu[u] = Free /\ timer[u].when > 0
    BY <2>1 DEF Alters
  <2> QED BY <1>0, <1>1, <2>1, <2>2, <2>3, <2>4
<1>12. CASE Tick
  <2>1. UNCHANGED << scene, mu, buf, timer, pc, loc >> BY <1>12 DEF Tick, chans
  <2>2. \A b \in Actors : SameSend(b) BY <2>1 DEF SameSend
  <2>3. \A g \in Users, u \in Timers : pc[g] = "drain" /\ T(g) = u => pc'[g] = "drain" /\ loc'[g].t = u
    BY <2>1 DEF T
  <2> QED BY <2>1, <2>2, <2>3, SeqKeep
<1>13. ASSUME NEW a \in Actors, Send(a) PROVE TimersSeq' BY <1>13, SeqSendStep
<1>14. ASSUME NEW g \in Users, Stop(g) \/ ModifyUnlock(g) PROVE TimersSeq'
  BY <1>14, SeqSetStep
<1> QED BY <1>2, <1>3, <1>4, <1>5, <1>6, <1>7, <1>8, <1>9, <1>10, <1>11, <1>12, <1>13, <1>14,
           StepCases

TimersInv ==
  /\ TimersType /\ TimersPlace /\ TimersLocks /\ TimersBits /\ TimersWake /\ TimersWait
  /\ TimersSeq

(* All of it holds in the initial states. *)
LEMMA TimersStart ==
  ASSUME TimersInit
  PROVE  TimersInv
<1>0. /\ \A a \in Actors : pc[a] = "idle" /\ loc[a] = NoLoc /\ a # Free
      /\ \A g \in Users : g \in Actors
      /\ \A m \in Ms : m \in Actors
      /\ \A t \in Timers :
           /\ timer[t] = [when |-> 0, seq |-> 0, bits |-> {}, astate |-> {}, blocked |-> 0,
                          sending |-> 0]
           /\ mu[t] = Free /\ sendLock[t] = Free /\ chlock[t] = Free
           /\ buf[t] = 0 /\ recvq[t] = << >>
      /\ tsmu = Free /\ DOMAIN heap = {} /\ heap = << >>
  BY TimersAssumption DEF TimersInit, Actors
<1>1. TimersType
  <2>1. NoLoc \in Locs BY DEF NoLoc, Locs, Backs
  <2>2. [when |-> 0, seq |-> 0, bits |-> {}, astate |-> {}, blocked |-> 0, sending |-> 0]
          \in Settings
    BY DEF Settings
  <2>3. "idle" \in UserPCs \cup CheckPCs BY DEF UserPCs
  <2>4. << >> \in Seq(Users) OBVIOUS
  <2> QED BY <1>0, <2>1, <2>2, <2>3, <2>4 DEF TimersInit, TimersType
<1>2. TimersPlace
  <2>1. NoLoc.op = "none" /\ NoLoc.add = FALSE /\ NoLoc.when = 0 BY DEF NoLoc
  <2>2. now = 1 BY DEF TimersInit
  <2>3. \A g \in Users : UserAt(g) BY <1>0, <2>1 DEF UserAt, UserPCs, Mods
  <2>4. \A m \in Ms : CheckAt(m) BY <1>0, <2>1, <2>2 DEF CheckAt, CheckPCs
  <2> QED BY <2>3, <2>4 DEF TimersPlace
<1>3. TimersLocks
  BY <1>0 DEF TimersLocks, LocksAt, HoldsTs, HoldsMu, HoldsSend, HoldsChan, Mods
<1>4. TimersBits
  <2>1. Zombies = {} BY <1>0 DEF Zombies
  <2>2. zombies = Cardinality(Zombies) /\ ~thrown
    BY <2>1, FS_EmptySet DEF TimersInit
  <2>2a. \A t \in Timers : timer[t].bits = {} /\ timer[t].astate = {} BY <1>0
  <2>3. \A t \in Timers : BitsAt(t) BY <1>0, <2>2a DEF BitsAt
  <2>4. \A g \in Users : pc[g] \notin Mods BY <1>0 DEF Mods
  <2> QED BY <2>2, <2>3, <2>4 DEF TimersBits
<1>5. TimersWake
  <2>1. todo = {} BY DEF TimersInit
  <2>2. \A t \in Timers : WakeAt(t) BY <1>0 DEF WakeAt
  <2>3. \A g \in Users : pc[g] \notin {"publish", "published"} BY <1>0
  <2> QED BY <1>0, <2>1, <2>2, <2>3 DEF TimersWake
<1>6. TimersWait
  <2> SUFFICES ASSUME NEW t \in Timers PROVE LineAt(t) /\ AliveAt(t)
    BY DEF TimersWait
  <2>1. Waiting(t) = {} BY <1>0 DEF Waiting
  <2>2. timer[t].blocked = Cardinality(Waiting(t)) BY <1>0, <2>1, FS_EmptySet
  <2>3. \A g \in Users : ~InLine(g, t) BY <1>0 DEF InLine
  <2>4. NoRepeat(recvq[t]) /\ \A g \in Users : ~Occurs(g, recvq[t])
    BY <1>0 DEF NoRepeat, Occurs
  <2>5. LineAt(t) BY <1>0, <2>2, <2>3, <2>4 DEF LineAt
  <2>6. AliveAt(t) BY <1>0 DEF AliveAt
  <2> QED BY <2>5, <2>6
<1>7. TimersSeq
  <2>0. scene.chan \subseteq Timers BY TimersAssumption DEF TimersInit
  <2>1. ASSUME NEW t \in scene.chan PROVE SeqAt(t)
    <3>1. Sends(t) = {} BY <1>0 DEF Sends
    <3>2. timer[t].sending = Cardinality(Sends(t)) BY <1>0, <2>0, <3>1, FS_EmptySet
    <3> QED BY <1>0, <2>0, <3>2 DEF SeqAt
  <2>2. \A a \in Actors : SentAt(a) BY <1>0 DEF SentAt
  <2> QED BY <2>1, <2>2 DEF TimersSeq
<1> QED BY <1>1, <1>2, <1>3, <1>4, <1>5, <1>6, <1>7 DEF TimersInv

(* A step that changes nothing keeps all of it. *)
LEMMA TimersStutter ==
  ASSUME TimersInv, UNCHANGED timersVars
  PROVE  TimersInv'
<1>0. UNCHANGED << scene, now, timer, mu, sendLock, heap, minHeap, minMod, zombies, len, tsmu, buf,
                   recvq, chlock, pc, loc, todo, calls, armed, missed, thrown >>
  BY DEF timersVars, ts, chans, hist
<1>1. TimersType' BY <1>0 DEF TimersInv, TimersType
<1>2. TimersPlace' BY <1>0 DEF TimersInv, TimersPlace, UserAt, CheckAt, T, IsChan
<1>3. TimersLocks'
  BY <1>0 DEF TimersInv, TimersLocks, LocksAt, HoldsTs, HoldsMu, HoldsSend, HoldsChan, T, IsChan
<1>4. TimersBits'
  <2>1. Zombies' = Zombies BY <1>0 DEF Zombies
  <2>2. \A t \in Timers : BitsAt(t)' <=> BitsAt(t) BY <1>0 DEF BitsAt
  <2>3. \A g \in Users : Tm(g)' = Tm(g) BY <1>0 DEF Tm, T
  <2> QED BY <1>0, <2>1, <2>2, <2>3 DEF TimersInv, TimersBits
<1>5. TimersWake'
  <2>1. \A t \in Timers : WakeAt(t)' <=> WakeAt(t) BY <1>0 DEF WakeAt, Publishing, T
  <2>2. \A g \in Users : Tm(g)' = Tm(g) BY <1>0 DEF Tm, T
  <2> QED BY <1>0, <2>1, <2>2 DEF TimersInv, TimersWake
<1>6. TimersWait'
  <2> SUFFICES ASSUME NEW t \in Timers PROVE LineAt(t)' /\ AliveAt(t)'
    BY DEF TimersWait
  <2>1. Waiting(t)' = Waiting(t) BY <1>0 DEF Waiting, T
  <2>2. \A g \in Users : (InLine(g, t)' <=> InLine(g, t)) /\ (Adding(g, t)' <=> Adding(g, t))
    BY <1>0 DEF InLine, Adding, T
  <2>3. LineAt(t)' BY <1>0, <2>1, <2>2 DEF TimersInv, TimersWait, LineAt
  <2>4. AliveAt(t)' BY <1>0, <2>2 DEF TimersInv, TimersWait, AliveAt
  <2> QED BY <2>3, <2>4
<1>7. TimersSeq'
  <2>1. ASSUME NEW t \in scene.chan PROVE SeqAt(t)'
    <3>1. Sends(t)' = Sends(t) /\ (Draining(t)' <=> Draining(t)) /\ Period(t)' = Period(t)
      BY <1>0 DEF Sends, Draining, T, Period
    <3> QED BY <1>0, <3>1 DEF TimersInv, TimersSeq, SeqAt
  <2>2. \A a \in Actors : SentAt(a)' BY <1>0 DEF TimersInv, TimersSeq, SentAt, Tm, T
  <2> QED BY <1>0, <2>1, <2>2 DEF TimersSeq
<1> QED BY <1>1, <1>2, <1>3, <1>4, <1>5, <1>6, <1>7 DEF TimersInv

(* The invariant is inductive. *)
LEMMA TimersKeep ==
  ASSUME TimersInv, TimersNext
  PROVE  TimersInv'
<1>0. /\ TimersType /\ TimersPlace /\ TimersLocks /\ TimersBits /\ TimersWake /\ TimersWait
      /\ TimersSeq
  BY DEF TimersInv
<1>1. TimersType' BY <1>0, TypeStep
<1>2. TimersPlace' BY <1>0, <1>1, PlaceRest
<1>3. TimersLocks' BY <1>0, <1>1, <1>2, LocksRest
<1>4. TimersBits' BY <1>0, <1>1, BitsStep
<1>5. TimersWake' BY <1>0, <1>1, <1>4, WakeStep
<1>6. TimersWait' BY <1>0, <1>1, WaitStep
<1>7. TimersSeq' BY <1>0, <1>1, SeqStep
<1> QED BY <1>1, <1>2, <1>3, <1>4, <1>5, <1>6, <1>7 DEF TimersInv

(* The invariant: TimersInv holds in every state of every behaviour of the timers. *)
THEOREM TimersInductive == TimersSpec => []TimersInv
<1>1. TimersInit => TimersInv BY TimersStart
<1>2. TimersInv /\ [TimersNext]_timersVars => TimersInv' BY TimersKeep, TimersStutter
<1> QED BY <1>1, <1>2, PTL DEF TimersSpec

(* What a receiver finds in the channel is of the settings since the last Stop or Reset. *)
THEOREM NothingStale == TimersSpec => []NoStaleValue
<1>1. TimersInv => NoStaleValue BY DEF TimersInv, TimersSeq, SeqAt, Draining, NoStaleValue
<1> QED BY <1>1, TimersInductive, PTL

(* The next wakeup is early enough for every timer that is due. *)
THEOREM WakeSound == TimersSpec => []WakeTimeSound
<1>1. TimersInv => WakeTimeSound
  <2> SUFFICES ASSUME TimersInv PROVE WakeTimeSound
    OBVIOUS
  <2>0. TimersType /\ TimersLocks /\ TimersBits /\ TimersWake BY DEF TimersInv
  <2>1. BitsAgree
    <3>1. zombies = Cardinality({t \in Timers : "zombie" \in timer[t].bits}) /\ ~thrown
      BY <2>0 DEF TimersBits, Zombies
    <3>2. \A t \in Timers : timer[t].bits \subseteq Bits BY <2>0 DEF TimersType, Settings
    <3>3. \A t \in Timers : BitsAt(t) BY <2>0 DEF TimersBits
    <3> QED BY <3>1, <3>2, <3>3 DEF BitsAgree, BitsAt
  <2>2. ASSUME tsmu = Free, NEW t \in Timers, Due(t)
        PROVE  Covered(t) \/ (t \in missed /\ "modified" \in timer[t].bits)
    <3>1. t \in DOMAIN heap /\ mu[t] = Free /\ "zombie" \notin timer[t].bits
      BY <2>2 DEF Due, InHeap
    <3>2. \A m \in Ms : ~HoldsTs(m)
      BY <2>0, <2>2, TimersAssumption DEF TimersLocks, LocksAt, Actors
    <3>3. \A m \in Ms : pc[m] \notin {"clear", "scan"} BY <3>2 DEF HoldsTs
    <3>4. todo = {} /\ 0 < minHeap /\ minHeap <= heap[t] BY <2>0, <3>1, <3>3 DEF TimersWake
    <3>5. /\ minHeap \in Nat /\ minMod \in Nat /\ timer[t].when \in Nat
          /\ heap[t] \in Nat
      BY <2>0, <3>1 DEF TimersType, Settings
    <3>6. BitsAt(t) /\ WakeAt(t) BY <2>0 DEF TimersBits, TimersWake
    <3>7. CASE "modified" \notin timer[t].bits
      <4>1. heap[t] = timer[t].when BY <3>1, <3>6, <3>7 DEF BitsAt
      <4> QED BY <3>4, <3>5, <4>1 DEF Covered, WakeTime
    <3>8. CASE "modified" \in timer[t].bits
      <4>1. timer[t].when > 0 BY <3>1, <3>6 DEF BitsAt
      <4>2. ~Publishing(t)
        BY <2>0, <3>1, TimersAssumption DEF TimersLocks, LocksAt, HoldsMu, Publishing, Mods, Actors
      <4>3. t \in missed \/ (0 < minMod /\ minMod <= timer[t].when)
        BY <3>4, <3>6, <3>8, <4>1, <4>2 DEF WakeAt
      <4> QED BY <3>4, <3>5, <3>8, <4>3 DEF Covered, WakeTime
    <3> QED BY <3>7, <3>8
  <2> QED BY <2>1, <2>2 DEF WakeTimeSound
<1> QED BY <1>1, TimersInductive, PTL

(* Who stops and sets the timer of a channel is alone in doing so. *)
LEMMA OneSets ==
  ASSUME OneSetter, TimersType, TimersPlace, NEW g \in Users, NEW h \in Users,
         pc[g] # "idle", pc[h] # "idle", loc[g].op \in Sets, loc[h].op \in Sets,
         T(g) = T(h), IsChan(T(g))
  PROVE  g = h
<1> DEFINE c == << g, loc[g].op, T(g) >>
           e == << h, loc[h].op, T(h) >>
<1>1. c \in scene.calls /\ e \in scene.calls BY DEF TimersPlace, UserAt
<1>2. scene \in Scenes BY DEF TimersType
<1>3. /\ c[1] = g /\ c[2] = loc[g].op /\ c[3] = T(g)
      /\ e[1] = h /\ e[2] = loc[h].op /\ e[3] = T(h)
  OBVIOUS
<1> HIDE DEF c, e
<1>4. c[2] \in {"stop", "reset"} /\ e[2] \in {"stop", "reset"} /\ c[3] = e[3] /\ c[3] \in scene.chan
  BY <1>3 DEF Sets, IsChan
<1>5. c[1] = e[1] BY <1>1, <1>2, <1>4 DEF OneSetter
<1> QED BY <1>3, <1>5

(* Nothing is sent on a channel that is being drained. *)
LEMMA NotDraining ==
  ASSUME TimersType, TimersPlace, TimersLocks, TimersArmed, NEW a \in Actors, pc[a] = "sending",
         Sender(a, T(a)), Period(T(a)) = 0
  PROVE  ~Draining(T(a))
<1>1. T(a) \in Timers /\ IsChan(T(a)) BY AtTimer
<1> SUFFICES ASSUME NEW g \in Users, pc[g] = "drain", T(g) = T(a) PROVE FALSE
  BY DEF Draining
<1>2. loc[g].op \in Sets /\ g \in Actors BY DEF TimersPlace, UserAt, Actors
<1>3. CASE loc[g].op = "stop"
  <2>1. ~armed[T(a)] BY <1>3 DEF TimersArmed, StoppedAt
  <2>2. armed[T(a)] BY <1>1 DEF TimersArmed, ArmedAt
  <2> QED BY <2>1, <2>2
<1>4. CASE loc[g].op = "reset"
  <2>1. sendLock[T(a)] = g BY <1>1, <1>2, <1>4 DEF TimersLocks, LocksAt, HoldsSend
  <2>2. sendLock[T(a)] = a BY <1>1 DEF TimersLocks, LocksAt, HoldsSend
  <2> QED BY <2>1, <2>2
<1> QED BY <1>2, <1>3, <1>4 DEF Sets

(* Nothing that says whether a timer is running has changed. *)
LEMMA OnKeep ==
  ASSUME TimersType, TimersLocks, NEW u \in Timers, timer'[u].when = timer[u].when, mu'[u] = mu[u],
         \A h \in Users : pc[h] \in Mods /\ T(h) = u => loc'[h].ret = loc[h].ret
  PROVE  On(u)' <=> On(u)
<1>1. CASE mu[u] = Free BY <1>1 DEF On
<1>2. CASE mu[u] # Free
  <2>1. mu[u] \in Actors BY <1>2 DEF TimersType
  <2>2. HoldsMu(mu[u], u) BY <2>1 DEF TimersLocks, LocksAt
  <2>3. loc'[mu[u]].ret = loc[mu[u]].ret BY <2>2 DEF HoldsMu
  <2> QED BY <1>2, <2>3 DEF On
<1> QED BY <1>1, <1>2

(* Nothing has changed that says whether the program is still to see a timer go off. *)
LEMMA ArmedKeep ==
  ASSUME NEW u \in Timers, ArmedAt(u), scene' = scene, armed'[u] = armed[u],
         mu'[u] = mu[u], timer'[u].when = timer[u].when,
         On(u)' <=> On(u), InChan(u)' <=> InChan(u),
         \A a \in Actors : Sender(a, u)' <=> Sender(a, u),
         Draining(u)' => Draining(u)
  PROVE  ArmedAt(u)'
<1>1. (Period(u)' = Period(u)) /\ (IsChan(u)' <=> IsChan(u)) BY DEF Period, IsChan
<1>2. Period(u)' # 0 /\ mu'[u] = Free /\ armed'[u] => timer'[u].when > 0 BY <1>1 DEF ArmedAt
<1>3. Period(u)' = 0 /\ ~IsChan(u)' => (armed'[u] <=> On(u)') BY <1>1 DEF ArmedAt
<1>4. ASSUME Period(u)' = 0 /\ IsChan(u)'
      PROVE  /\ armed'[u] <=> On(u)' \/ (\E a \in Actors : Sender(a, u)') \/ InChan(u)'
             /\ On(u)' => ~InChan(u)'
             /\ \A a \in Actors : Sender(a, u)' =>
                  ~On(u)' /\ ~InChan(u)' /\ \A b \in Actors : Sender(b, u)' => b = a
             /\ Draining(u)' => ~InChan(u)'
  <2>1. Period(u) = 0 /\ IsChan(u) BY <1>1, <1>4
  <2>2. armed[u] <=> On(u) \/ (\E a \in Actors : Sender(a, u)) \/ InChan(u)
    BY <2>1 DEF ArmedAt
  <2>3. (\E a \in Actors : Sender(a, u)) <=> \E a \in Actors : Sender(a, u)' OBVIOUS
  <2>4. /\ On(u) => ~InChan(u)
        /\ \A a \in Actors : Sender(a, u) =>
             ~On(u) /\ ~InChan(u) /\ \A b \in Actors : Sender(b, u) => b = a
        /\ Draining(u) => ~InChan(u)
    BY <2>1 DEF ArmedAt
  <2> QED BY <2>2, <2>3, <2>4
<1> QED BY <1>2, <1>3, <1>4 DEF ArmedAt

(* A step that is about none of this. *)
LEMMA ArmedSame ==
  ASSUME TimersType, TimersLocks, TimersArmed, UNCHANGED << scene, mu, armed >>,
         \A u \in Timers : /\ timer'[u].when = timer[u].when /\ timer'[u].seq = timer[u].seq
                           /\ InChan(u)' <=> InChan(u)
                           /\ \A a \in Actors : Sender(a, u)' <=> Sender(a, u),
         \A g \in Users :
           /\ pc[g] \in Mods => loc'[g].ret = loc[g].ret
           /\ pc'[g] = "drain" => pc[g] = "drain" /\ loc'[g].t = loc[g].t /\ loc'[g].op = loc[g].op
  PROVE  TimersArmed'
<1>1. ASSUME NEW u \in Timers PROVE ArmedAt(u)'
  <2>1. On(u)' <=> On(u) BY OnKeep
  <2>2. Draining(u)' => Draining(u) BY DEF Draining, T
  <2> QED BY <2>1, <2>2, ArmedKeep DEF TimersArmed
<1>2. ASSUME NEW g \in Users PROVE StoppedAt(g)' BY DEF TimersArmed, StoppedAt, T
<1> QED BY <1>1, <1>2 DEF TimersArmed

(* ... and after one that alters a timer. *)
LEMMA ArmedChange ==
  ASSUME TimersType, TimersLocks, TimersArmed, NEW a \in Actors, NEW t \in Timers, Alters(a, t),
         \A u \in Timers \ {t} : armed'[u] = armed[u],
         ArmedAt(t)', \A g \in Users : StoppedAt(g)',
         pc[a] \notin {"send", "sending", "drain"}, pc[a] \in Mods => T(a) = t,
         pc'[a] \in {"send", "sending", "drain"} => loc'[a].t = t
  PROVE  TimersArmed'
<1>1. ASSUME NEW u \in Timers, u # t PROVE ArmedAt(u)'
  <2>1. /\ timer'[u] = timer[u] /\ mu'[u] = mu[u] /\ scene' = scene /\ buf' = buf
        /\ \A b \in Actors \ {a} : loc'[b] = loc[b] /\ pc'[b] = pc[b]
    BY <1>1 DEF Alters
  <2>2. On(u)' <=> On(u)
    <3>1. \A h \in Users : pc[h] \in Mods /\ T(h) = u => loc'[h].ret = loc[h].ret
      BY <1>1, <2>1 DEF Actors
    <3> QED BY <2>1, <3>1, OnKeep
  <2>3. InChan(u)' <=> InChan(u) BY <2>1 DEF InChan
  <2>4. ASSUME NEW b \in Actors PROVE Sender(b, u)' <=> Sender(b, u)
    <3>1. CASE b = a BY <1>1, <3>1 DEF Sender, T
    <3>2. CASE b # a BY <2>1, <3>2 DEF Sender, T
    <3> QED BY <3>1, <3>2
  <2>5. Draining(u)' => Draining(u) BY <1>1, <2>1 DEF Draining, T, Actors
  <2>6. ArmedAt(u) /\ armed'[u] = armed[u] BY <1>1 DEF TimersArmed
  <2> QED BY <2>1, <2>2, <2>3, <2>4, <2>5, <2>6, ArmedKeep
<1> QED BY <1>1 DEF TimersArmed

(* Stop and modify. *)
LEMMA ArmedStopStep ==
  ASSUME TimersType, TimersType', TimersPlace, TimersLocks, TimersSeq, TimersArmed,
         NEW g \in Users, Stop(g)
  PROVE  TimersArmed'
<1>0. g \in Actors /\ loc[g] \in Locs BY DEF Actors, TimersType
<1>t. PICK t \in Timers : t = T(g)
  <2>1. T(g) \in Timers BY StopEffect DEF Alters
  <2> QED BY <2>1
<1> DEFINE r == timer[t]
           b == IF "heaped" \in r.bits THEN r.bits \cup {"modified", "zombie"} ELSE r.bits
<1>1. /\ Alters(g, t) /\ mu[t] = Free /\ mu' = mu /\ r \in Settings /\ pc[g] = "lock"
      /\ Becomes(t, 0, NextSeq(t), b, b, r.blocked, r.sending)
      /\ armed' = [armed EXCEPT ![t] = FALSE]
  BY <1>t, StopEffect
<1>2. pc'[g] = (IF IsChan(t) THEN "drain" ELSE "ret") BY <1>t, StopEffect
<1>3. loc'[g] = [loc[g] EXCEPT !.ret = r.when > 0 \/ Squelched(t), !.was = armed[t],
                               !.late = Underway(t, r.seq)]
  BY <1>t, StopEffect
<1>4. loc'[g].t = t BY <1>3, <1>0, <1>t DEF Locs, T
<1>5. timer'[t].when = 0 /\ timer'[t].seq = NextSeq(t)
  <2> HIDE DEF b
  <2> QED BY <1>1 DEF Becomes
<1>6. ~armed'[t] /\ \A u \in Timers \ {t} : armed'[u] = armed[u] BY <1>1 DEF TimersType
<1>7. ~On(t)' BY <1>1, <1>5 DEF On
<1>8. IsChan(t) => ~InChan(t)' /\ \A a \in Actors : ~Sender(a, t)'
  <2> SUFFICES ASSUME IsChan(t) PROVE ~InChan(t)' /\ \A a \in Actors : ~Sender(a, t)'
    OBVIOUS
  <2>1. NextSeq(t) = r.seq + 1 /\ r.seq \in Nat BY <1>1 DEF NextSeq, Settings
  <2>2. buf' = buf /\ buf[t] \in Nat /\ buf[t] <= r.seq
    BY <1>1 DEF Alters, TimersType, TimersSeq, SeqAt, IsChan
  <2>3. ~InChan(t)' BY <1>5, <2>1, <2>2 DEF InChan
  <2>4. ASSUME NEW a \in Actors, Sender(a, t)' PROVE FALSE
    <3>1. a # g BY <1>2, <2>4 DEF Sender
    <3>2. loc'[a] = loc[a] /\ pc'[a] = pc[a] BY <3>1, <1>1 DEF Alters
    <3>3. pc[a] \in {"send", "sending"} /\ T(a) = t /\ loc[a].seq = NextSeq(t)
      BY <2>4, <3>2, <1>5 DEF Sender, T
    <3>4. loc[a].seq \in 1 .. r.seq BY <3>3 DEF TimersSeq, SentAt, Tm
    <3> QED BY <3>3, <3>4, <2>1
  <2> QED BY <2>3, <2>4
<1>9. ArmedAt(t)'
  <2>1. IsChan(t)' <=> IsChan(t) BY <1>1 DEF Alters, IsChan
  <2> QED BY <2>1, <1>6, <1>7, <1>8 DEF ArmedAt
<1>10. ASSUME NEW h \in Users PROVE StoppedAt(h)'
  <2>1. CASE h = g BY <2>1, <1>4, <1>6 DEF StoppedAt, T
  <2>2. CASE h # g
    <3>1. loc'[h] = loc[h] /\ pc'[h] = pc[h] BY <2>2, <1>1 DEF Alters, Actors
    <3>2. armed'[T(h)] => armed[T(h)] BY <1>1, <1>6 DEF TimersType
    <3> QED BY <3>1, <3>2 DEF StoppedAt, T, TimersArmed
  <2> QED BY <2>1, <2>2
<1>11. pc[g] \notin {"send", "sending", "drain"} /\ T(g) = t BY <1>1, <1>t
<1> QED BY <1>0, <1>1, <1>4, <1>6, <1>9, <1>10, <1>11, ArmedChange

(* modify takes t.mu: it will report what is true of the timer now. *)
LEMMA ArmedLockStep ==
  ASSUME TimersType, TimersType', TimersPlace, TimersLocks, TimersArmed,
         NEW g \in Users, ModifyLock(g)
  PROVE  TimersArmed'
<1>0. g \in Actors /\ loc[g] \in Locs /\ g # Free BY TimersAssumption DEF Actors, TimersType
<1>t. PICK t \in Timers : t = T(g)
  <2>1. T(g) \in Timers BY ModifyLockEffect DEF Alters
  <2> QED BY <2>1
<1> DEFINE r == timer[t]
           b == IF "heaped" \in r.bits THEN (r.bits \cup {"modified"}) \ {"zombie"} ELSE r.bits
           wake == "heaped" \in r.bits /\ (minMod = 0 \/ loc[g].when < minMod)
           as == IF wake THEN b ELSE r.astate
<1>1. /\ Alters(g, t) /\ mu[t] = Free /\ mu' = [mu EXCEPT ![t] = g] /\ r \in Settings
      /\ Becomes(t, loc[g].when, r.seq, b, as, r.blocked, r.sending)
      /\ armed' = armed /\ pc[g] = "lock"
  BY <1>t, ModifyLockEffect
<1>2. pc'[g] \in {"publish", "unlock"} BY ModifyLockEffect
<1>3. loc'[g] = [loc[g] EXCEPT !.ret = r.when > 0] BY <1>t, ModifyLockEffect
<1>4. timer'[t].seq = r.seq
  <2> HIDE DEF b, as
  <2> QED BY <1>1 DEF Becomes
<1>5. mu'[t] = g /\ loc'[g].ret = (r.when > 0)
  <2> DEFINE x == r.when > 0
  <2>1. loc'[g] = [loc[g] EXCEPT !.ret = x] BY <1>3
  <2> HIDE DEF x
  <2>2. loc'[g].ret = x BY <2>1, <1>0 DEF Locs
  <2> QED BY <2>2, <1>1 DEF TimersType, x
<1>6. On(t)' <=> On(t) BY <1>0, <1>1, <1>5 DEF On
<1>7. InChan(t)' <=> InChan(t) BY <1>1, <1>4 DEF InChan, Alters
<1>8. \A a \in Actors \ {g} : loc'[a] = loc[a] /\ pc'[a] = pc[a] BY <1>1 DEF Alters
<1>9. \A a \in Actors : Sender(a, t)' <=> Sender(a, t) BY <1>1, <1>2, <1>4, <1>8 DEF Sender, T
<1>10. Draining(t)' => Draining(t) BY <1>2, <1>8 DEF Draining, T, Actors
<1>11. ArmedAt(t)'
  <2>1. ArmedAt(t) /\ scene' = scene /\ mu'[t] # Free BY <1>0, <1>1, <1>5 DEF TimersArmed, Alters
  <2>2. (Period(t)' = Period(t)) /\ (IsChan(t)' <=> IsChan(t)) BY <2>1 DEF Period, IsChan
  <2>3. (\E a \in Actors : Sender(a, t)) <=> \E a \in Actors : Sender(a, t)' BY <1>9
  <2> QED BY <1>1, <1>6, <1>7, <1>9, <1>10, <2>1, <2>2, <2>3 DEF ArmedAt
<1>12. \A h \in Users : StoppedAt(h)' BY <1>1, <1>2, <1>8 DEF StoppedAt, T, TimersArmed, Actors
<1>13. pc[g] \notin {"send", "sending", "drain"} /\ T(g) = t
       /\ pc'[g] \notin {"send", "sending", "drain"}
  BY <1>1, <1>2, <1>t
<1> QED BY <1>0, <1>1, <1>11, <1>12, <1>13, ArmedChange

(* modify sets the timer: no value of the new generation is sent or in the channel yet. *)
LEMMA ArmedUnlockStep ==
  ASSUME OneSetter, TimersType, TimersType', TimersPlace, TimersLocks, TimersBits, TimersSeq,
         TimersArmed, NEW g \in Users, ModifyUnlock(g)
  PROVE  TimersArmed'
<1>0. g \in Actors /\ loc[g] \in Locs BY DEF Actors, TimersType
<1>t. PICK t \in Timers : t = T(g)
  <2>1. T(g) \in Timers BY ModifyUnlockEffect DEF Alters
  <2> QED BY <2>1
<1> DEFINE r == timer[t]
<1>1. /\ Alters(g, t) /\ mu[t] = g /\ mu' = [mu EXCEPT ![t] = Free] /\ r \in Settings
      /\ pc[g] \in {"unlock", "published"} /\ loc[g].op = "reset"
      /\ Becomes(t, r.when, NextSeq(t), r.bits, r.bits, r.blocked, r.sending)
      /\ armed' = [armed EXCEPT ![t] = TRUE]
  BY <1>t, ModifyUnlockEffect
<1>2. pc'[g] = (IF IsChan(t) THEN "drain" ELSE IF NeedsAdd(t, r) THEN "add" ELSE "ret")
  BY <1>t, ModifyUnlockEffect
<1>3. loc'[g] = [loc[g] EXCEPT !.ret = loc[g].ret \/ Squelched(t), !.add = NeedsAdd(t, r),
                               !.was = armed[t], !.late = Underway(t, r.seq)]
  BY <1>t, ModifyUnlockEffect
<1>4. loc'[g].t = t /\ loc'[g].op = "reset" BY <1>1, <1>3, <1>0, <1>t DEF Locs, T
<1>5. timer'[t].when = r.when /\ timer'[t].seq = NextSeq(t) BY <1>1 DEF Becomes
<1>5a. r.when > 0
  <2>1. pc[g] \in Mods BY <1>1 DEF Mods
  <2> QED BY <2>1, <1>1, <1>t DEF TimersBits, Tm, TimersPlace, UserAt
<1>6. armed'[t] /\ \A u \in Timers \ {t} : armed'[u] = armed[u] BY <1>1 DEF TimersType
<1>7. On(t)'
  <2>1. mu'[t] = Free BY <1>1 DEF TimersType
  <2> QED BY <2>1, <1>5, <1>5a DEF On
<1>8. IsChan(t) => ~InChan(t)' /\ \A a \in Actors : ~Sender(a, t)'
  <2> SUFFICES ASSUME IsChan(t) PROVE ~InChan(t)' /\ \A a \in Actors : ~Sender(a, t)'
    OBVIOUS
  <2>1. NextSeq(t) = r.seq + 1 /\ r.seq \in Nat BY <1>1 DEF NextSeq, Settings
  <2>2. buf' = buf /\ buf[t] \in Nat /\ buf[t] <= r.seq
    BY <1>1 DEF Alters, TimersType, TimersSeq, SeqAt, IsChan
  <2>3. ~InChan(t)' BY <1>5, <2>1, <2>2 DEF InChan
  <2>4. ASSUME NEW a \in Actors, Sender(a, t)' PROVE FALSE
    <3>1. a # g BY <1>2, <2>4 DEF Sender
    <3>2. loc'[a] = loc[a] /\ pc'[a] = pc[a] BY <3>1, <1>1 DEF Alters
    <3>3. pc[a] \in {"send", "sending"} /\ T(a) = t /\ loc[a].seq = NextSeq(t)
      BY <2>4, <3>2, <1>5 DEF Sender, T
    <3>4. loc[a].seq \in 1 .. r.seq BY <3>3 DEF TimersSeq, SentAt, Tm
    <3> QED BY <3>3, <3>4, <2>1
  <2> QED BY <2>3, <2>4
<1>9. ArmedAt(t)'
  <2>1. IsChan(t)' <=> IsChan(t) BY <1>1 DEF Alters, IsChan
  <2> QED BY <2>1, <1>5, <1>5a, <1>6, <1>7, <1>8 DEF ArmedAt
<1>10. ASSUME NEW h \in Users, pc'[h] = "drain", loc'[h].op = "stop" PROVE ~armed'[loc'[h].t]
  <2>1. h # g BY <1>4, <1>10
  <2>2. loc'[h] = loc[h] /\ pc'[h] = pc[h] BY <2>1, <1>1 DEF Alters, Actors
  <2>3. pc[h] = "drain" /\ loc[h].op = "stop" /\ IsChan(T(h)) /\ T(h) \in Timers
    BY <1>10, <2>2, AtTimer DEF TimersPlace, UserAt
  <2>4. T(h) # t
    <3> SUFFICES ASSUME T(h) = t PROVE FALSE
      OBVIOUS
    <3>1. loc[h].op \in Sets /\ loc[g].op \in Sets /\ pc[h] # "idle" /\ pc[g] # "idle"
      BY <1>1, <2>3 DEF Sets
    <3>2. T(h) = T(g) BY <1>t
    <3>3. h = g BY <3>1, <3>2, <2>3, OneSets
    <3> QED BY <2>1, <3>3
  <2>5. ~armed[T(h)] BY <2>3 DEF TimersArmed, StoppedAt
  <2> QED BY <1>6, <2>2, <2>3, <2>4, <2>5 DEF T
<1>10a. \A h \in Users : StoppedAt(h)' BY <1>10 DEF StoppedAt, T
<1>11. pc[g] \notin {"send", "sending", "drain"} /\ T(g) = t BY <1>1, <1>t
<1> QED BY <1>0, <1>1, <1>4, <1>6, <1>9, <1>10a, <1>11, ArmedChange

(* A timer goes off: it is not running any more, but a value is under way. *)
LEMMA RanArmed ==
  ASSUME TimersType, TimersType', TimersPlace, TimersLocks, TimersArmed,
         NEW a \in Actors, NEW t \in Timers, NEW back \in {"empty", "recv", "relock"},
         Ran(a, t, back), timer[t].when \in 1 .. now, pc[a] \in {"run", "empty"}
  PROVE  TimersArmed'
<1> DEFINE r == timer[t]
           w == Next1(t)
           k == IF IsChan(t) /\ Period(t) = 0 THEN r.sending + 1 ELSE r.sending
<1>1. /\ mu[t] = Free /\ r \in Settings /\ Alters(a, t) /\ mu' = mu /\ loc[a] \in Locs
      /\ pc'[a] = (IF IsChan(t) THEN "send" ELSE back)
      /\ loc'[a] = [loc[a] EXCEPT !.t = t, !.seq = r.seq, !.back = back]
      /\ armed' = [armed EXCEPT ![t] = @ /\ (IsChan(t) \/ Period(t) > 0)]
      /\ scene' = scene /\ buf' = buf
  BY DEF Ran, TimersType, Alters
<1>2. timer'[t].seq = r.seq /\ timer'[t].when = w
  <2> HIDE DEF w, k
  <2> QED BY DEF Ran, Becomes, w
<1>3. loc'[a].t = t /\ loc'[a].seq = r.seq BY <1>1 DEF Locs
<1>4. w \in Nat /\ (Period(t) # 0 => w > 0) /\ (Period(t) = 0 => w = 0) BY NextDue
<1> HIDE DEF w
<1>5. /\ armed'[t] = (armed[t] /\ (IsChan(t) \/ Period(t) > 0))
      /\ \A u \in Timers \ {t} : armed'[u] = armed[u]
  BY <1>1 DEF TimersType
<1>5a. \A u \in Timers : armed'[u] => armed[u] BY <1>5
<1>6. On(t) /\ (Period(t) = 0 => ~On(t)') BY <1>1, <1>2, <1>4 DEF On
<1>7. \A b \in Actors \ {a} : loc'[b] = loc[b] /\ pc'[b] = pc[b] BY <1>1 DEF Alters
<1>8. InChan(t)' <=> InChan(t) BY <1>1, <1>2 DEF InChan
<1>9. \A b \in Actors \ {a} : Sender(b, t)' <=> Sender(b, t) BY <1>2, <1>7 DEF Sender, T
<1>10. IsChan(t) => Sender(a, t)' BY <1>1, <1>2, <1>3 DEF Sender, T
<1>11. ArmedAt(t)'
  <2>0. ArmedAt(t) BY DEF TimersArmed
  <2>1. (Period(t)' = Period(t)) /\ (IsChan(t)' <=> IsChan(t)) BY <1>1 DEF Period, IsChan
  <2>1a. Period(t) \in Nat BY AtTimer
  <2>2. Period(t)' # 0 /\ mu'[t] = Free /\ armed'[t] => timer'[t].when > 0
    BY <2>1, <1>2, <1>4
  <2>3. Period(t) = 0 /\ ~IsChan(t) => ~armed'[t]
    <3>1. Period(t) = 0 => ~(Period(t) > 0) OBVIOUS
    <3> QED BY <3>1, <1>5
  <2>4. ASSUME Period(t) = 0, IsChan(t)
        PROVE  /\ armed'[t] /\ (\E b \in Actors : Sender(b, t)') /\ ~On(t)' /\ ~InChan(t)'
               /\ \A b \in Actors : Sender(b, t)' => b = a
    <3>1. armed[t] /\ ~InChan(t) /\ \A b \in Actors : ~Sender(b, t)
      BY <2>0, <2>4, <1>6 DEF ArmedAt
    <3>2. \A b \in Actors \ {a} : ~Sender(b, t)' BY <3>1, <1>9
    <3> QED BY <3>1, <3>2, <2>4, <1>5, <1>6, <1>8, <1>10
  <2> QED BY <2>1, <2>2, <2>3, <2>4, <1>6 DEF ArmedAt
<1>12. ASSUME NEW h \in Users PROVE StoppedAt(h)'
  <2>1. CASE h = a BY <2>1, <1>1 DEF StoppedAt
  <2>2. CASE h # a
    <3>1. loc'[h] = loc[h] /\ pc'[h] = pc[h] BY <2>2, <1>7 DEF Actors
    <3>2. pc[h] = "drain" => T(h) \in Timers BY AtTimer
    <3> QED BY <3>1, <3>2, <1>5a DEF StoppedAt, T, TimersArmed
  <2> QED BY <2>1, <2>2
<1>13. pc[a] \notin {"send", "sending", "drain"} /\ pc[a] \notin Mods BY DEF Mods
<1> QED BY <1>1, <1>3, <1>5, <1>11, <1>12, <1>13, ArmedChange

(* What is drained is of no use any more. *)
LEMMA ArmedDrainStep ==
  ASSUME TimersType, TimersPlace, TimersLocks, TimersArmed, NEW g \in Users, Drain(g)
  PROVE  TimersArmed'
<1>0. g \in Actors /\ loc[g] \in Locs /\ pc[g] = "drain" BY DEF Actors, TimersType, Drain, From
<1>t. PICK t \in Timers : t = T(g)
  <2>1. T(g) \in Timers BY <1>0, AtTimer
  <2> QED BY <2>1
<1>1. UNCHANGED << scene, mu, armed, timer >> BY DEF Drain, hist
<1>2. \A a \in Actors \ {g} : loc'[a] = loc[a] /\ pc'[a] = pc[a]
  BY DEF Drain, To, TimersType
<1>3. pc'[g] \in {"add", "ret"} BY <1>0 DEF Drain, To, TimersType
<1>4. buf'[t] = 0 /\ \A u \in Timers \ {t} : buf'[u] = buf[u] BY <1>t DEF Drain, TimersType
<1>5. ASSUME NEW u \in Timers PROVE ArmedAt(u)'
  <2>1. ArmedAt(u) BY DEF TimersArmed
  <2>2. On(u)' <=> On(u)
    <3>1. \A h \in Users : pc[h] \in Mods /\ T(h) = u => loc'[h].ret = loc[h].ret
      BY <1>0, <1>2 DEF Actors, Mods
    <3> QED BY <1>1, <3>1, OnKeep
  <2>3. \A a \in Actors : Sender(a, u)' <=> Sender(a, u)
    BY <1>0, <1>1, <1>2, <1>3 DEF Sender, T
  <2>4. Draining(u)' => Draining(u) BY <1>2, <1>3 DEF Draining, T, Actors
  <2>5. CASE (Period(u) = 0 /\ IsChan(u)) \/ u # t
    <3>1. InChan(u)' <=> InChan(u)
      <4>1. CASE u # t BY <4>1, <1>1, <1>4 DEF InChan
      <4>2. CASE u = t /\ Period(u) = 0 /\ IsChan(u)
        <5>1. Draining(u) BY <4>2, <1>0, <1>t DEF Draining
        <5>2. ~InChan(u) BY <2>1, <4>2, <5>1 DEF ArmedAt
        <5> QED BY <5>2, <4>2, <1>4 DEF InChan
      <4> QED BY <2>5, <4>1, <4>2
    <3> QED BY <1>1, <2>1, <2>2, <2>3, <2>4, <3>1, ArmedKeep
  <2>6. CASE ~(Period(u) = 0 /\ IsChan(u))
    <3>1. (Period(u)' = Period(u)) /\ (IsChan(u)' <=> IsChan(u)) BY <1>1 DEF Period, IsChan
    <3> QED BY <1>1, <2>1, <2>2, <2>6, <3>1 DEF ArmedAt
  <2> QED BY <2>5, <2>6
<1>6. \A h \in Users : StoppedAt(h)'
  BY <1>1, <1>2, <1>3 DEF StoppedAt, T, TimersArmed, Actors
<1> QED BY <1>5, <1>6 DEF TimersArmed

(* The program sees a timer go off: nothing of it is under way any more. *)
LEMMA ArmedSendTimeStep ==
  ASSUME TimersType, TimersPlace, TimersLocks, TimersWait, TimersSeq, TimersArmed,
         NEW a \in Actors, SendTime(a)
  PROVE  TimersArmed'
<1>0. /\ pc[a] = "sending" /\ UNCHANGED << scene, timer, mu, loc >>
      /\ \A h \in Users : h \in Actors
  BY DEF SendTime, From, Actors
<1>t. PICK t \in Timers : t = T(a) /\ IsChan(t)
  <2>1. T(a) \in Timers /\ IsChan(T(a)) BY <1>0, AtTimer
  <2> QED BY <2>1
<1>1. Sender(a, t) /\ loc[a].seq = timer[t].seq /\ loc[a].seq \in Nat \ {0}
  BY <1>0, <1>t DEF TimersSeq, SentAt, Sender, Tm, TimersType, Settings
<1>2. SendWakes(a) BY SendTimeWakes
<1>2a. a \in Users => loc[a].back \in {"empty", "recv"} BY <1>0 DEF TimersPlace, UserAt
<1>2b. a \in Ms => loc[a].back = "relock" BY <1>0 DEF TimersPlace, CheckAt
<1>3. /\ pc'[a] \notin {"send", "sending", "drain"}
      /\ \A b \in Actors \ {a} : pc'[b] = pc[b] \/ {pc[b], pc'[b]} \subseteq {"parked", "unblock"}
  BY <1>2, <1>2a, <1>2b DEF SendWakes, Actors
<1>3a. \A b \in Actors \ {a} : /\ pc'[b] \in {"send", "sending"} <=> pc[b] \in {"send", "sending"}
                               /\ pc'[b] = "drain" <=> pc[b] = "drain"
  BY <1>3
<1>4. \A u \in Timers : On(u)' <=> On(u)
  BY <1>0, OnKeep
<1>5. ASSUME NEW u \in Timers, NEW b \in Actors
      PROVE  Sender(b, u)' <=> Sender(b, u) /\ b # a
  BY <1>0, <1>3, <1>3a DEF Sender, T
<1>6. \A u \in Timers : Draining(u)' => Draining(u)
  BY <1>0, <1>3, <1>3a DEF Draining, T
<1>7. /\ \A u \in Timers \ {t} : armed'[u] = armed[u] /\ buf'[u] = buf[u]
      /\ \A u \in Timers : armed'[u] => armed[u]
  <2>1. armed' = armed \/ armed' = [armed EXCEPT ![t] = @ /\ ~(loc[a].seq = timer[t].seq /\ Period(t) = 0)]
    BY <1>t DEF SendTime, Receives, hist
  <2>2. buf' = buf \/ buf' = [buf EXCEPT ![t] = loc[a].seq]
    BY <1>t DEF SendTime, chans
  <2> QED BY <2>1, <2>2 DEF TimersType
<1>8. ASSUME NEW u \in Timers, u # t PROVE ArmedAt(u)'
  <2>1. InChan(u)' <=> InChan(u) BY <1>0, <1>7, <1>8 DEF InChan
  <2>2. \A b \in Actors : Sender(b, u)' <=> Sender(b, u)
    <3>1. ~Sender(a, u) BY <1>8, <1>t DEF Sender
    <3> QED BY <3>1, <1>5
  <2>3. ArmedAt(u) /\ armed'[u] = armed[u] BY <1>7, <1>8 DEF TimersArmed
  <2> QED BY <1>0, <1>4, <1>6, <2>1, <2>2, <2>3, ArmedKeep
<1>9. ArmedAt(t)'
  <2>0. ArmedAt(t) BY DEF TimersArmed
  <2>1. (Period(t)' = Period(t)) /\ (IsChan(t)' <=> IsChan(t)) BY <1>0 DEF Period, IsChan
  <2>2. CASE Period(t) # 0
    <3>1. armed'[t] => armed[t] BY <1>7
    <3> QED BY <1>0, <2>0, <2>1, <2>2, <3>1 DEF ArmedAt
  <2>3. CASE Period(t) = 0
    <3>1. armed[t] /\ ~On(t) /\ ~InChan(t) /\ \A b \in Actors : Sender(b, t) => b = a
      BY <2>0, <2>3, <1>1, <1>t DEF ArmedAt
    <3>2. \A b \in Actors : ~Sender(b, t)' BY <3>1, <1>5
    <3>3. ~Draining(t) BY <2>3, <1>0, <1>1, <1>t, NotDraining
    <3>4. buf[t] = 0
      BY <3>1, <3>3, <1>t DEF TimersSeq, SeqAt, IsChan, InChan
    <3>5. armed'[t] <=> InChan(t)'
      <4>1. CASE buf' = [buf EXCEPT ![t] = loc[a].seq] /\ armed' = armed
        <5>1. InChan(t)' BY <4>1, <1>0, <1>1 DEF InChan, TimersType
        <5> QED BY <5>1, <4>1, <3>1
      <4>2. CASE /\ armed' = [armed EXCEPT ![t] = @ /\ ~(loc[a].seq = timer[t].seq /\ Period(t) = 0)]
                 /\ buf' = buf
        <5>1. ~armed'[t] BY <4>2, <1>1, <2>3 DEF TimersType
        <5>2. ~InChan(t)' BY <4>2, <3>4 DEF InChan
        <5> QED BY <5>1, <5>2
      <4> QED BY <4>1, <4>2, <3>4, <1>t DEF SendTime, Receives, hist
    <3>6. ~On(t)' /\ ~Draining(t)' /\ Period(t)' = 0 BY <1>4, <1>6, <2>1, <2>3, <3>1, <3>3
    <3>7. IsChan(t)' BY <2>1, <1>t
    <3> QED BY <3>2, <3>5, <3>6, <3>7 DEF ArmedAt
  <2> QED BY <2>2, <2>3
<1>10. ASSUME NEW h \in Users PROVE StoppedAt(h)'
  <2>1. pc'[h] = "drain" => pc[h] = "drain" BY <1>0, <1>3, <1>3a
  <2>2. pc[h] = "drain" => T(h) \in Timers BY AtTimer
  <2> QED BY <1>0, <1>7, <2>1, <2>2 DEF StoppedAt, T, TimersArmed
<1> QED BY <1>8, <1>9, <1>10 DEF TimersArmed

(* A value is received: a timer that does not repeat is done. *)
LEMMA ArmedRecvStep ==
  ASSUME TimersType, TimersPlace, TimersLocks, TimersArmed, NEW g \in Users, Recv(g)
  PROVE  TimersArmed'
<1>0. /\ g \in Actors /\ pc[g] = "recv" /\ UNCHANGED << scene, timer, mu >>
      /\ \A h \in Users : h \in Actors
  BY DEF Actors, Recv, From
<1>t. PICK t \in Timers : t = T(g)
  <2>1. T(g) \in Timers BY <1>0, AtTimer
  <2> QED BY <2>1
<1>1. \A b \in Actors \ {g} : pc'[b] = pc[b] BY <1>0 DEF Recv, To, TimersType
<1>2. pc'[g] \in {"ret", "block"} BY <1>0 DEF Recv, To, TimersType
<1>3. /\ \A b \in Actors : /\ loc'[b].t = loc[b].t /\ loc'[b].seq = loc[b].seq
                           /\ loc'[b].op = loc[b].op
      /\ \A b \in Actors \ {g} : loc'[b].ret = loc[b].ret
  <2>1. \/ UNCHANGED loc
        \/ loc' = [b \in Actors |->
                     IF b = g THEN [loc[b] EXCEPT !.ret = TRUE]
                     ELSE IF pc[b] = "drain" /\ T(b) = T(g) THEN [loc[b] EXCEPT !.was = FALSE]
                     ELSE loc[b]]
    BY DEF Recv
  <2>2. loc \in [Actors -> Locs] BY DEF TimersType
  <2> QED BY <2>1, <2>2 DEF Locs
<1>4. \A u \in Timers : On(u)' <=> On(u)
  <2> SUFFICES ASSUME NEW u \in Timers PROVE On(u)' <=> On(u)
    OBVIOUS
  <2>1. \A h \in Users : pc[h] \in Mods /\ T(h) = u => loc'[h].ret = loc[h].ret
    BY <1>0, <1>3 DEF Mods
  <2> QED BY <1>0, <2>1, OnKeep
<1>5. \A u \in Timers, b \in Actors : Sender(b, u)' <=> Sender(b, u)
  BY <1>0, <1>1, <1>2, <1>3 DEF Sender, T
<1>6. \A u \in Timers : Draining(u)' => Draining(u)
  BY <1>0, <1>1, <1>2, <1>3 DEF Draining, T
<1>7. /\ \A u \in Timers \ {t} : armed'[u] = armed[u] /\ buf'[u] = buf[u]
      /\ \A u \in Timers : armed'[u] => armed[u]
  <2>1. armed' = armed \/ armed' = [armed EXCEPT ![t] = @ /\ ~(buf[t] = timer[t].seq /\ Period(t) = 0)]
    BY <1>t DEF Recv, Receives, hist
  <2>2. buf' = buf \/ buf' = [buf EXCEPT ![t] = 0]
    BY <1>t DEF Recv, chans
  <2> QED BY <2>1, <2>2 DEF TimersType
<1>8. ASSUME NEW u \in Timers, u # t PROVE ArmedAt(u)'
  <2>1. InChan(u)' <=> InChan(u) BY <1>0, <1>7, <1>8 DEF InChan
  <2>2. \A b \in Actors : Sender(b, u)' <=> Sender(b, u) BY <1>5
  <2>3. ArmedAt(u) /\ armed'[u] = armed[u] BY <1>7, <1>8 DEF TimersArmed
  <2> QED BY <1>0, <1>4, <1>6, <2>1, <2>2, <2>3, ArmedKeep
<1>9. ArmedAt(t)'
  <2>0. ArmedAt(t) BY DEF TimersArmed
  <2>1. (Period(t)' = Period(t)) /\ (IsChan(t)' <=> IsChan(t)) BY <1>0 DEF Period, IsChan
  <2>1a. IsChan(t) BY <1>0, <1>t, AtTimer DEF TimersPlace, UserAt
  <2>1b. \A b \in Actors : Sender(b, t)' <=> Sender(b, t) BY <1>5
  <2>2. CASE Period(t) # 0
    <3>1. armed'[t] => armed[t] BY <1>7
    <3> QED BY <1>0, <2>0, <2>1, <2>2, <3>1 DEF ArmedAt
  <2>3. CASE armed' = armed /\ buf' = buf
    <3>1. InChan(t)' <=> InChan(t) BY <2>3, <1>0 DEF InChan
    <3> QED BY <1>0, <1>4, <1>6, <2>0, <2>1b, <2>3, <3>1, ArmedKeep
  <2>4. CASE /\ Period(t) = 0 /\ buf[t] # 0 /\ buf' = [buf EXCEPT ![t] = 0]
             /\ armed' = [armed EXCEPT ![t] = @ /\ ~(buf[t] = timer[t].seq /\ Period(t) = 0)]
    <3>1. ~InChan(t)' BY <2>4 DEF InChan, TimersType
    <3>2. CASE InChan(t)
      <4>1. ~armed'[t] BY <2>4, <3>2 DEF InChan, TimersType
      <4>2. ~On(t) /\ \A b \in Actors : ~Sender(b, t)
        BY <2>0, <2>1a, <2>4, <3>2 DEF ArmedAt
      <4>3. ~On(t)' /\ \A b \in Actors : ~Sender(b, t)' BY <4>2, <1>4, <2>1b
      <4> QED BY <2>1, <2>1a, <2>4, <3>1, <4>1, <4>3 DEF ArmedAt
    <3>3. CASE ~InChan(t)
      <4>1. armed'[t] = armed[t] BY <2>4, <3>3 DEF InChan, TimersType
      <4>2. InChan(t)' <=> InChan(t) BY <3>1, <3>3
      <4> QED BY <1>0, <1>4, <1>6, <2>0, <2>1b, <4>1, <4>2, ArmedKeep
    <3> QED BY <3>2, <3>3
  <2> QED BY <2>2, <2>3, <2>4, <1>t DEF Recv, Receives, hist, chans
<1>10. ASSUME NEW h \in Users PROVE StoppedAt(h)'
  <2>1. pc'[h] = "drain" => pc[h] = "drain" BY <1>0, <1>1, <1>2
  <2>2. pc[h] = "drain" => T(h) \in Timers BY AtTimer
  <2> QED BY <1>0, <1>3, <1>7, <2>1, <2>2 DEF StoppedAt, T, TimersArmed
<1> QED BY <1>8, <1>9, <1>10 DEF TimersArmed

(* A step of a that has nothing to do with what the program is told of its timers. *)
Silent(a) ==
  /\ UNCHANGED << scene, mu, buf, armed >>
  /\ \A u \in Timers : timer'[u].when = timer[u].when /\ timer'[u].seq = timer[u].seq
  /\ \A b \in Actors \ {a} : pc'[b] = pc[b] /\ loc'[b] = loc[b]
  /\ pc[a] \notin {"drain", "send", "sending"} /\ pc'[a] \notin {"drain", "send", "sending"}
  /\ pc[a] \in Mods => loc'[a] = loc[a]
  /\ pc'[a] \in {"add", "clean", "insert", "ret"} /\ loc'[a].op \in Sets =>
       loc'[a] = loc[a] /\ pc[a] \in {"add", "clean", "insert"}

(* A timer goes off. *)
GoesOff(a) ==
  \E t \in Timers, back \in {"empty", "recv", "relock"} :
    Ran(a, t, back) /\ timer[t].when \in 1 .. now /\ pc[a] \in {"run", "empty"}

(* The steps of goroutines that are silent. *)
LEMMA SilentUser ==
  ASSUME TimersType, TimersPlace, TimersLocks, NEW g \in Users,
         \/ Call(g) \/ Return(g) \/ LockSend(g) \/ Publish(g) \/ AddLock(g) \/ CleanHead(g)
         \/ CleanDone(g) \/ Insert(g) \/ Block(g) \/ Unblock(g)
  PROVE  Silent(g)
<1>0. g \in Actors /\ loc[g] \in Locs BY DEF Actors, TimersType
<1>1. CASE Call(g) \/ Return(g) \/ LockSend(g) \/ Publish(g) \/ AddLock(g) \/ CleanDone(g)
  <2>1. UNCHANGED << scene, mu, timer, buf, armed >>
    BY <1>1 DEF Call, Return, LockSend, Publish, AddLock, CleanDone, chans, hist
  <2>2. \A b \in Actors \ {g} : pc'[b] = pc[b] /\ loc'[b] = loc[b]
    BY <1>1, <1>0 DEF Call, Return, LockSend, Publish, AddLock, CleanDone, To, Drop, TimersType
  <2>3. CASE Call(g)
    <3>1. pc[g] = "idle" /\ pc'[g] \in {"run", "sendLock", "lock"}
      BY <2>3, <1>0 DEF Call, From, To, TimersType
    <3> QED BY <2>1, <2>2, <3>1 DEF Silent, Mods
  <2>4. CASE Return(g)
    <3>1. pc[g] = "ret" /\ pc'[g] = "idle" BY <2>4, <1>0 DEF Return, From, To, TimersType
    <3> QED BY <2>1, <2>2, <3>1 DEF Silent, Mods
  <2>5. CASE LockSend(g) \/ Publish(g) \/ AddLock(g) \/ CleanDone(g)
    <3>1. /\ pc[g] \in {"sendLock", "publish", "add", "clean"} /\ loc' = loc
          /\ pc'[g] \in {"lock", "published", "clean", "insert"}
          /\ pc'[g] \in {"clean", "insert"} => pc[g] \in {"add", "clean"}
      BY <2>5, <1>0 DEF LockSend, Publish, AddLock, CleanDone, From, To, TimersType
    <3> QED BY <2>1, <2>2, <3>1 DEF Silent, Mods
  <2> QED BY <1>1, <2>3, <2>4, <2>5
<1>2. CASE CleanHead(g)
  <2>1. PICK t \in Timers : Cleaned(t) /\ Alters(g, t) BY <1>2, CleanEffect
  <2>2. UNCHANGED << pc, loc, mu, armed >> /\ pc[g] = "clean" BY <1>2, CleanEffect DEF hist
  <2>3. timer'[t].when = timer[t].when /\ timer'[t].seq = timer[t].seq
    BY <2>1 DEF Cleaned, Becomes
  <2> QED BY <2>1, <2>2, <2>3 DEF Silent, Alters
<1>3. CASE Insert(g)
  <2>t. PICK t \in Timers : t = T(g)
    <3>1. T(g) \in Timers BY <1>3, InsertEffect DEF Alters
    <3> QED BY <3>1
  <2> DEFINE r == timer[t]
             b == r.bits \cup {"heaped"}
  <2>1. /\ NeedsAdd(t, r) => Becomes(t, r.when, r.seq, b, b, r.blocked, r.sending)
        /\ ~NeedsAdd(t, r) => UNCHANGED timer
        /\ Alters(g, t) /\ UNCHANGED << mu, armed, loc >> /\ pc[g] = "insert"
    BY <1>3, <2>t, InsertEffect
  <2>2. pc'[g] = (IF chlock[t] = g THEN "parked" ELSE "ret") BY <1>3, <2>t, InsertEffect
  <2>3. timer'[t].seq = r.seq /\ timer'[t].when = r.when
    BY <2>1 DEF Becomes
  <2>4. \A u \in Timers : timer'[u].when = timer[u].when /\ timer'[u].seq = timer[u].seq
    BY <2>1, <2>3 DEF Alters
  <2>5. /\ pc'[g] \in {"parked", "ret"} /\ UNCHANGED << scene, mu, buf, armed >>
        /\ \A c \in Actors \ {g} : pc'[c] = pc[c] /\ loc'[c] = loc[c]
    BY <2>1, <2>2 DEF Alters
  <2> QED BY <2>1, <2>4, <2>5 DEF Silent
<1>4. CASE Block(g)
  <2>t. PICK t \in Timers : t = T(g)
    <3>1. T(g) \in Timers BY <1>4, BlockEffect DEF Alters
    <3> QED BY <3>1
  <2> DEFINE r == timer[t]
             revive == "zombie" \in r.bits /\ r.when > 0
             b == IF revive THEN r.bits \ {"zombie"} ELSE r.bits
  <2>1. /\ Becomes(t, r.when, r.seq, b, b, r.blocked + 1, r.sending)
        /\ Alters(g, t) /\ UNCHANGED << mu, armed, loc >> /\ pc[g] = "block" /\ loc[g].op = "recv"
    BY <1>4, <2>t, BlockEffect
  <2>2. pc'[g] \in {"add", "parked"} BY <1>4, BlockEffect
  <2> HIDE DEF b
  <2>3. timer'[t].seq = r.seq /\ timer'[t].when = r.when BY <2>1 DEF Becomes
  <2>4. \A u \in Timers : timer'[u].when = timer[u].when /\ timer'[u].seq = timer[u].seq
    BY <2>1, <2>3 DEF Alters
  <2>5. loc'[g].op \notin Sets BY <2>1 DEF Sets
  <2>6. /\ UNCHANGED << scene, mu, buf, armed >>
        /\ \A c \in Actors \ {g} : pc'[c] = pc[c] /\ loc'[c] = loc[c]
    BY <2>1 DEF Alters
  <2> QED BY <2>1, <2>2, <2>4, <2>5, <2>6 DEF Silent
<1>5. CASE Unblock(g)
  <2>t. PICK t \in Timers : t = T(g)
    <3>1. T(g) \in Timers BY <1>5, UnblockEffect DEF Alters
    <3> QED BY <3>1
  <2> DEFINE r == timer[t]
             last == r.blocked = 1 /\ "heaped" \in r.bits /\ "zombie" \notin r.bits
             b == IF last THEN r.bits \cup {"zombie"} ELSE r.bits
  <2>1. /\ Becomes(t, r.when, r.seq, b, b, r.blocked - 1, r.sending) /\ pc'[g] = "ret"
        /\ Alters(g, t) /\ UNCHANGED << mu, armed, loc >> /\ pc[g] = "unblock" /\ loc[g].op = "recv"
    BY <1>5, <2>t, UnblockEffect
  <2> HIDE DEF b
  <2>3. timer'[t].seq = r.seq /\ timer'[t].when = r.when BY <2>1 DEF Becomes
  <2>4. \A u \in Timers : timer'[u].when = timer[u].when /\ timer'[u].seq = timer[u].seq
    BY <2>1, <2>3 DEF Alters
  <2>5. loc'[g].op \notin Sets BY <2>1 DEF Sets
  <2>6. /\ UNCHANGED << scene, mu, buf, armed >>
        /\ \A c \in Actors \ {g} : pc'[c] = pc[c] /\ loc'[c] = loc[c]
    BY <2>1 DEF Alters
  <2> QED BY <2>1, <2>4, <2>5, <2>6 DEF Silent
<1> QED BY <1>1, <1>2, <1>3, <1>4, <1>5

(* The steps of threads that are, but for those that run a timer. *)
LEMMA SilentThread ==
  ASSUME TimersType, TimersPlace, TimersWake, NEW m \in Ms,
         \/ Check(m) \/ Adjust(m) \/ Clear(m) \/ Scan(m) \/ EndScan(m) \/ Relock(m) \/ UnlockTs(m)
  PROVE  Silent(m)
<1>0. m \in Actors BY DEF Actors
<1>1. CASE Check(m) \/ Adjust(m) \/ Clear(m) \/ EndScan(m) \/ Relock(m) \/ UnlockTs(m)
  <2>1. UNCHANGED << scene, mu, buf, timer, armed >>
    BY <1>1 DEF Check, Adjust, Clear, EndScan, Relock, UnlockTs, chans, hist
  <2>2. \A b \in Actors \ {m} : pc'[b] = pc[b] /\ loc'[b] = loc[b]
    BY <1>1, <1>0 DEF Check, Adjust, Clear, EndScan, Relock, UnlockTs, To, Drop, TimersType
  <2>3. pc[m] \notin {"drain", "send", "sending"} \cup Mods
    BY <1>1 DEF Check, Adjust, Clear, EndScan, Relock, UnlockTs, From, Mods
  <2>4. pc[m] = "scan" => loc[m].back \in {"run", "unlockTs"} BY DEF TimersPlace, CheckAt
  <2>5. pc'[m] \notin {"drain", "send", "sending", "add", "clean", "insert", "ret"}
    BY <1>1, <1>0, <2>4 DEF Check, Adjust, Clear, EndScan, Relock, UnlockTs, From, To, TimersType
  <2> QED BY <2>1, <2>2, <2>3, <2>5 DEF Silent
<1>2. CASE Scan(m)
  <2>1. PICK t \in todo :
          \/ UNCHANGED << timer, heap, zombies, thrown >>
          \/ Cleaned(t) /\ Alters(m, t)
    BY <1>2, ScanEffect
  <2>2. UNCHANGED << scene, mu, pc, loc, buf, armed >> /\ pc[m] = "scan"
    BY <1>2, ScanEffect DEF chans, hist
  <2>3. CASE UNCHANGED << timer, heap, zombies, thrown >> BY <2>2, <2>3 DEF Silent
  <2>4. CASE Cleaned(t) /\ Alters(m, t)
    <3>1. timer'[t].when = timer[t].when /\ timer'[t].seq = timer[t].seq
      BY <2>4 DEF Cleaned, Becomes
    <3>2. \A u \in Timers : timer'[u].when = timer[u].when /\ timer'[u].seq = timer[u].seq
      BY <2>4, <3>1 DEF Alters
    <3> QED BY <2>2, <3>2 DEF Silent
  <2> QED BY <2>1, <2>3, <2>4
<1> QED BY <1>1, <1>2

(* run makes a timer go off, or says nothing of any ... *)
LEMMA RunSilent ==
  ASSUME TimersType, TimersPlace, TimersBits, NEW m \in Ms, Run(m)
  PROVE  Silent(m) \/ GoesOff(m)
<1>0. m \in Actors BY DEF Actors
<1>1. UNCHANGED << scene, now, mu, sendLock, chans, todo, calls >> /\ pc[m] = "run" BY RunCases
<1>2. CASE /\ pc'[m] \in {"forced", "unlockTs"} /\ \A b \in Actors \ {m} : pc'[b] = pc[b]
           /\ UNCHANGED << timer, ts, loc, hist, thrown >>
  BY <1>1, <1>2 DEF Silent, chans, hist, Mods
<1>3. ASSUME NEW t \in Timers, Refreshed(t), Alters(m, t),
             UNCHANGED << len, tsmu, pc, loc, hist, thrown >>
      PROVE  Silent(m)
  <2>1. timer'[t].when = timer[t].when /\ timer'[t].seq = timer[t].seq
    BY <1>3 DEF Refreshed, Cleaned, Becomes
  <2>2. \A u \in Timers : timer'[u].when = timer[u].when /\ timer'[u].seq = timer[u].seq
    BY <1>3, <2>1 DEF Alters
  <2> QED BY <1>1, <1>3, <2>2 DEF Silent, chans, hist
<1>4. ASSUME NEW t \in DOMAIN heap, t \in Timers, mu[t] = Free, ~Dirty(timer[t].bits),
             timer[t].when <= loc[m].when, UnlockAndRun(m, t, "relock")
      PROVE  GoesOff(m)
  <2>1. Ran(m, t, "relock") BY <1>0, <1>1, <1>4, RanThis
  <2>2. timer[t].when > 0 BY <1>4 DEF TimersBits, BitsAt, Dirty
  <2>3. loc[m].when <= now BY DEF TimersPlace, CheckAt
  <2>4. timer[t].when \in Nat /\ now \in Nat /\ loc[m].when \in Nat
    BY <1>0, <1>4 DEF TimersType, Settings, Locs
  <2>5. timer[t].when \in 1 .. now BY <1>4, <2>2, <2>3, <2>4
  <2> QED BY <1>1, <1>4, <2>1, <2>5 DEF GoesOff
<1> QED BY <1>2, <1>3, <1>4, RunCases

(* ... and so does maybeRunChan. *)
LEMMA MaybeRunSilent ==
  ASSUME TimersType, TimersPlace, TimersBits, NEW g \in Users, MaybeRunChan(g)
  PROVE  Silent(g) \/ GoesOff(g)
<1>1. UNCHANGED << scene, mu, chans >> /\ pc[g] \in {"run", "empty"} /\ T(g) \in Timers
  BY MaybeRunCases
<1>2. CASE /\ pc'[g] \in {"empty", "recv"} /\ \A b \in Actors \ {g} : pc'[b] = pc[b]
           /\ UNCHANGED << timer, ts, loc, hist, thrown >>
  BY <1>1, <1>2 DEF Silent, chans, hist, Mods
<1>3. ASSUME NEW back \in {"empty", "recv"}, Ran(g, T(g), back), timer[T(g)].when \in 1 .. now
      PROVE  GoesOff(g)
  <2>1. back \in {"empty", "recv", "relock"} OBVIOUS
  <2> QED BY <1>1, <1>3, <2>1 DEF GoesOff
<1> QED BY <1>2, <1>3, MaybeRunCases

(* What a step may mean for what the program is told. *)
LEMMA TellCases ==
  ASSUME TimersInv, TimersNext
  PROVE  \/ Tick
         \/ \E a \in Actors : Silent(a) \/ GoesOff(a) \/ Send(a) \/ SendTime(a)
         \/ \E g \in Users : Stop(g) \/ Drain(g) \/ ModifyLock(g) \/ ModifyUnlock(g) \/ Recv(g)
<1>0. /\ TimersType /\ TimersPlace /\ TimersLocks /\ TimersBits /\ TimersWake
      /\ \A g \in Users : g \in Actors
      /\ \A m \in Ms : m \in Actors
  BY DEF TimersInv, Actors
<1>1. ASSUME NEW g \in Users,
             \/ Call(g) \/ Return(g) \/ LockSend(g) \/ Publish(g) \/ AddLock(g) \/ CleanHead(g)
             \/ CleanDone(g) \/ Insert(g) \/ Block(g) \/ Unblock(g)
      PROVE  Silent(g)
  BY <1>0, <1>1, SilentUser
<1>2. ASSUME NEW g \in Users, MaybeRunChan(g) PROVE Silent(g) \/ GoesOff(g)
  BY <1>0, <1>2, MaybeRunSilent
<1>3. ASSUME NEW m \in Ms,
             \/ Check(m) \/ Adjust(m) \/ Clear(m) \/ Scan(m) \/ EndScan(m) \/ Relock(m)
             \/ UnlockTs(m)
      PROVE  Silent(m)
  BY <1>0, <1>3, SilentThread
<1>4. ASSUME NEW m \in Ms, Run(m) PROVE Silent(m) \/ GoesOff(m)
  BY <1>0, <1>4, RunSilent
<1> QED BY <1>0, <1>1, <1>2, <1>3, <1>4, StepCases

(* A step that says nothing of timers leaves them armed, or not, as they are. *)
LEMMA SilentArmed ==
  ASSUME TimersType, TimersPlace, TimersLocks, TimersArmed, NEW a \in Actors, Silent(a)
  PROVE  TimersArmed'
<1>1. UNCHANGED << scene, mu, armed >> BY DEF Silent
<1>2. ASSUME NEW u \in Timers, NEW b \in Actors PROVE Sender(b, u)' <=> Sender(b, u)
  <2>1. CASE b = a BY <2>1 DEF Silent, Sender
  <2>2. CASE b # a BY <2>2 DEF Silent, Sender, T
  <2> QED BY <2>1, <2>2
<1>3. ASSUME NEW g \in Users
      PROVE  /\ pc[g] \in Mods => loc'[g].ret = loc[g].ret
             /\ pc'[g] = "drain" =>
                  pc[g] = "drain" /\ loc'[g].t = loc[g].t /\ loc'[g].op = loc[g].op
  <2>1. CASE g = a BY <2>1 DEF Silent
  <2>2. CASE g # a BY <2>2 DEF Silent, Actors
  <2> QED BY <2>1, <2>2
<1>4. \A u \in Timers : /\ timer'[u].when = timer[u].when /\ timer'[u].seq = timer[u].seq
                        /\ InChan(u)' <=> InChan(u)
  BY DEF Silent, InChan
<1> QED BY <1>1, <1>2, <1>3, <1>4, ArmedSame

(* Send drops a stale value, or goes on to send one that is not. *)
LEMMA ArmedSendStep ==
  ASSUME TimersType, TimersPlace, TimersLocks, TimersArmed, NEW a \in Actors, Send(a)
  PROVE  TimersArmed'
<1>1. /\ pc[a] = "send" /\ UNCHANGED << scene, mu, buf, loc, armed >>
      /\ \A b \in Actors \ {a} : pc'[b] = pc[b]
      /\ pc'[a] = (IF loc[a].seq # Tm(a).seq THEN loc[a].back ELSE "sending")
  BY DEF Send, SendWith, From, To, TimersType, chans, hist
<1>2. a \in Users => loc[a].back \in {"empty", "recv"} BY <1>1 DEF TimersPlace, UserAt
<1>2a. a \in Ms => loc[a].back = "relock" BY <1>1 DEF TimersPlace, CheckAt
<1>3. pc'[a] \in {"sending", "empty", "recv", "relock"} /\
      (pc'[a] # "sending" => loc[a].seq # Tm(a).seq)
  BY <1>1, <1>2, <1>2a DEF Actors
<1>4. \A u \in Timers : /\ timer'[u].seq = timer[u].seq /\ timer'[u].when = timer[u].when
                        /\ InChan(u)' <=> InChan(u)
  BY <1>1, SendSame DEF InChan
<1>5. ASSUME NEW u \in Timers, NEW b \in Actors PROVE Sender(b, u)' <=> Sender(b, u)
  <2>1. CASE b = a BY <2>1, <1>1, <1>3, <1>4 DEF Sender, T, Tm
  <2>2. CASE b # a BY <2>2, <1>1, <1>4 DEF Sender, T
  <2> QED BY <2>1, <2>2
<1>6. \A g \in Users : pc'[g] = "drain" => pc[g] = "drain" BY <1>1, <1>3 DEF Actors
<1> QED BY <1>1, <1>4, <1>5, <1>6, ArmedSame

(* What the program is still to see is on, on its way or in the channel, after every step. *)
LEMMA ArmedStep ==
  ASSUME OneSetter, TimersInv, TimersInv', TimersArmed, TimersNext
  PROVE  TimersArmed'
<1>0. /\ TimersType /\ TimersPlace /\ TimersLocks /\ TimersBits /\ TimersWait /\ TimersSeq
      /\ TimersType' /\ \A g \in Users : g \in Actors
  BY DEF TimersInv, Actors
<1>1. CASE Tick
  <2>1. UNCHANGED << scene, mu, timer, buf, pc, loc, armed >> BY <1>1 DEF Tick, chans, hist
  <2> QED BY <1>0, <2>1, ArmedSame DEF InChan, Sender, T
<1>2. ASSUME NEW a \in Actors, Silent(a) PROVE TimersArmed' BY <1>0, <1>2, SilentArmed
<1>3. ASSUME NEW a \in Actors, GoesOff(a) PROVE TimersArmed'
  BY <1>0, <1>3, RanArmed DEF GoesOff
<1>4. ASSUME NEW a \in Actors, Send(a) PROVE TimersArmed' BY <1>0, <1>4, ArmedSendStep
<1>5. ASSUME NEW a \in Actors, SendTime(a) PROVE TimersArmed' BY <1>0, <1>5, ArmedSendTimeStep
<1>6. ASSUME NEW g \in Users, Stop(g) PROVE TimersArmed' BY <1>0, <1>6, ArmedStopStep
<1>7. ASSUME NEW g \in Users, Drain(g) PROVE TimersArmed' BY <1>0, <1>7, ArmedDrainStep
<1>8. ASSUME NEW g \in Users, ModifyLock(g) PROVE TimersArmed' BY <1>0, <1>8, ArmedLockStep
<1>9. ASSUME NEW g \in Users, ModifyUnlock(g) PROVE TimersArmed' BY <1>0, <1>9, ArmedUnlockStep
<1>10. ASSUME NEW g \in Users, Recv(g) PROVE TimersArmed' BY <1>0, <1>10, ArmedRecvStep
<1> QED BY <1>1, <1>2, <1>3, <1>4, <1>5, <1>6, <1>7, <1>8, <1>9, <1>10, TellCases

(* Whoever a step leaves alone is told what it was going to be told. *)
LEMMA ResultKeep ==
  ASSUME TimersResult, scene' = scene, NEW h \in Users, loc'[h] = loc[h], pc'[h] = pc[h],
         pc[h] = "drain" /\ loc[h].op \in Sets /\ Period(T(h)) = 0 => buf'[T(h)] = buf[T(h)]
  PROVE  ResultAt(h)'
<1>1. ResultAt(h) /\ (Period(T(h))' = Period(T(h))) /\ (T(h)' = T(h))
  BY DEF TimersResult, Period, T
<1> QED BY <1>1 DEF ResultAt

(* When Stop or modify looks at a timer, what it will say is nearly true: *)
(* a value in the channel is still to be drained.                         *)
LEMMA SetHonest ==
  ASSUME OneSetter, TimersType, TimersPlace, TimersLocks, TimersSeq, TimersArmed,
         NEW g \in Users, NEW t \in Timers, T(g) = t, pc[g] \in {"lock"} \cup Mods,
         loc[g].op \in Sets, Period(t) = 0
  PROVE  LET ret  == On(t) \/ Squelched(t)
             late == Underway(t, timer[t].seq)
         IN
         /\ ~IsChan(t) \/ buf[t] = 0 => (armed[t] => ret) /\ (ret => armed[t] \/ late)
         /\ IsChan(t) /\ buf[t] # 0 => (armed[t] \/ late) /\ (ret => late)
<1> DEFINE ret == On(t) \/ Squelched(t)
           late == Underway(t, timer[t].seq)
<1>0. g \in Actors /\ ArmedAt(t) /\ timer[t] \in Settings
  BY DEF Actors, TimersArmed, TimersType
<1>1. CASE ~IsChan(t)
  <2>1. ret <=> armed[t] BY <1>0, <1>1 DEF ArmedAt, Squelched
  <2> QED BY <1>1, <2>1
<1>2. CASE IsChan(t)
  <2>1. SeqAt(t) BY <1>2 DEF TimersSeq, IsChan
  <2>2. sendLock[t] = g BY <1>0, <1>2 DEF TimersLocks, LocksAt, HoldsSend
  <2>3. \A a \in Actors : ~(pc[a] = "sending" /\ T(a) = t)
    <3> SUFFICES ASSUME NEW a \in Actors, pc[a] = "sending", T(a) = t PROVE FALSE
      OBVIOUS
    <3>1. sendLock[t] = a BY <1>2 DEF TimersLocks, LocksAt, HoldsSend
    <3> QED BY <2>2, <3>1 DEF Mods
  <2>4. ~Draining(t)
    <3> SUFFICES ASSUME NEW h \in Users, pc[h] = "drain", T(h) = t PROVE FALSE
      BY DEF Draining
    <3>1. loc[h].op \in Sets BY DEF TimersPlace, UserAt
    <3>2. h # g BY DEF Mods
    <3>3. pc[g] # "idle" /\ pc[h] # "idle" /\ T(g) = T(h) /\ IsChan(T(g)) BY <1>2 DEF Mods
    <3> QED BY <3>1, <3>2, <3>3, OneSets
  <2>5. buf[t] # 0 => InChan(t) BY <2>1, <2>4 DEF SeqAt, InChan
  <2>6. IsFiniteSet(Sends(t)) /\ timer[t].sending = Cardinality(Sends(t))
    <3>1. IsFiniteSet(Actors) BY TimersAssumption, FS_Union DEF Actors
    <3>2. Sends(t) \subseteq Actors BY DEF Sends
    <3> QED BY <2>1, <3>1, <3>2, FS_Subset DEF SeqAt
  <2>7. Squelched(t) <=> Sends(t) # {}
    <3>1. timer[t].sending \in Nat /\ (timer[t].sending = 0 <=> Sends(t) = {})
      BY <2>6, FS_CardinalityType, FS_EmptySet
    <3> QED BY <1>2, <3>1 DEF Squelched
  <2>8. ASSUME NEW a \in Actors, Sender(a, t) PROVE Squelched(t)
    <3>1. a \in Sends(t) BY <2>3, <2>8 DEF Sender, Sends
    <3> QED BY <2>7, <3>1
  <2>9. ASSUME Squelched(t) PROVE late \/ \E a \in Actors : Sender(a, t)
    <3>1. PICK a \in Actors : pc[a] = "send" /\ T(a) = t BY <2>7, <2>9 DEF Sends
    <3>2. loc[a].seq \in 1 .. timer[t].seq BY <3>1 DEF TimersSeq, SentAt, Tm
    <3>3. timer[t].seq \in Nat BY <1>0 DEF Settings
    <3>4. CASE loc[a].seq = timer[t].seq BY <3>1, <3>4 DEF Sender
    <3>5. CASE loc[a].seq # timer[t].seq
      <4>1. loc[a].seq < timer[t].seq BY <3>2, <3>3, <3>5
      <4> QED BY <3>1, <4>1 DEF Underway
    <3> QED BY <3>4, <3>5
  <2>10. armed[t] <=> On(t) \/ (\E a \in Actors : Sender(a, t)) \/ InChan(t)
    BY <1>0, <1>2 DEF ArmedAt
  <2>11. CASE buf[t] = 0
    <3>1. ~InChan(t) BY <2>11 DEF InChan
    <3>2. armed[t] => ret BY <2>8, <2>10, <3>1
    <3>3. ret => armed[t] \/ late BY <2>9, <2>10
    <3> HIDE DEF ret, late
    <3> QED BY <2>11, <3>2, <3>3 DEF ret, late
  <2>12. CASE buf[t] # 0
    <3>1. InChan(t) /\ armed[t] BY <2>5, <2>10, <2>12
    <3>2. ~On(t) /\ \A a \in Actors : ~Sender(a, t) BY <1>0, <1>2, <3>1 DEF ArmedAt
    <3>3. ret => late BY <2>9, <3>2
    <3> HIDE DEF ret, late
    <3> QED BY <1>2, <2>12, <3>1, <3>3 DEF ret, late
  <2> QED BY <2>11, <2>12
<1> QED BY <1>1, <1>2

(* Stop and modify: the result is right, unless a value in the channel is still to drain. *)
LEMMA ResultSetStep ==
  ASSUME OneSetter, TimersType, TimersType', TimersPlace, TimersLocks, TimersSeq, TimersArmed,
         TimersResult, NEW g \in Users, Stop(g) \/ ModifyUnlock(g)
  PROVE  TimersResult'
<1>0. g \in Actors /\ loc[g] \in Locs /\ g # Free BY TimersAssumption DEF Actors, TimersType
<1>t. PICK t \in Timers : t = T(g)
  <2>1. T(g) \in Timers BY StopEffect, ModifyUnlockEffect DEF Alters
  <2> QED BY <2>1
<1> DEFINE p == On(t) \/ Squelched(t)
           q == armed[t]
           s == Underway(t, timer[t].seq)
<1>1. /\ Alters(g, t) /\ pc[g] \in {"lock"} \cup Mods /\ loc[g].op \in Sets
      /\ loc'[g].ret = p /\ loc'[g].was = q /\ loc'[g].late = s
      /\ loc'[g].t = loc[g].t /\ loc'[g].op = loc[g].op
      /\ pc'[g] \in {"drain", "add", "ret"} /\ (pc'[g] = "drain" <=> IsChan(t))
  <2>1. CASE Stop(g)
    <3>1. Alters(g, t) /\ pc[g] = "lock" /\ loc[g].op = "stop" /\ mu[t] = Free
      BY <2>1, <1>t, StopEffect
    <3>2. loc'[g] = [loc[g] EXCEPT !.ret = timer[t].when > 0 \/ Squelched(t), !.was = armed[t],
                                   !.late = Underway(t, timer[t].seq)]
      BY <2>1, <1>t, StopEffect
    <3>3. pc'[g] = (IF IsChan(t) THEN "drain" ELSE "ret") BY <2>1, <1>t, StopEffect
    <3>4. (timer[t].when > 0 \/ Squelched(t)) = p BY <3>1 DEF On
    <3>5. loc'[g] = [loc[g] EXCEPT !.ret = p, !.was = q, !.late = s] BY <3>2, <3>4
    <3> HIDE DEF p, q, s
    <3>6. /\ loc'[g].ret = p /\ loc'[g].was = q /\ loc'[g].late = s
          /\ loc'[g].t = loc[g].t /\ loc'[g].op = loc[g].op
      BY <1>0, <3>5 DEF Locs
    <3> QED BY <3>1, <3>3, <3>6 DEF Sets
  <2>2. CASE ModifyUnlock(g)
    <3>1. Alters(g, t) /\ pc[g] \in {"unlock", "published"} /\ loc[g].op = "reset" /\ mu[t] = g
      BY <2>2, <1>t, ModifyUnlockEffect
    <3> DEFINE k == NeedsAdd(t, timer[t])
    <3>2. loc'[g] = [loc[g] EXCEPT !.ret = loc[g].ret \/ Squelched(t), !.add = k,
                                   !.was = armed[t], !.late = Underway(t, timer[t].seq)]
      BY <2>2, <1>t, ModifyUnlockEffect
    <3>3. pc'[g] = (IF IsChan(t) THEN "drain" ELSE IF k THEN "add" ELSE "ret")
      BY <2>2, <1>t, ModifyUnlockEffect
    <3>4. (loc[g].ret \/ Squelched(t)) = p BY <1>0, <3>1 DEF On
    <3> HIDE DEF k
    <3>5. loc'[g] = [loc[g] EXCEPT !.ret = p, !.add = k, !.was = q, !.late = s] BY <3>2, <3>4
    <3> HIDE DEF p, q, s
    <3>6. /\ loc'[g].ret = p /\ loc'[g].was = q /\ loc'[g].late = s
          /\ loc'[g].t = loc[g].t /\ loc'[g].op = loc[g].op
      BY <1>0, <3>5 DEF Locs
    <3>7. pc'[g] \in {"drain", "add", "ret"} /\ (pc'[g] = "drain" <=> IsChan(t)) BY <3>3
    <3> QED BY <3>1, <3>6, <3>7 DEF Sets, Mods
  <2> QED BY <2>1, <2>2
<1>2. ResultAt(g)'
  <2> SUFFICES ASSUME Period(t) = 0 PROVE ResultAt(g)'
    <3>1. T(g)' = t /\ scene' = scene BY <1>1, <1>t DEF T, Alters
    <3>2. Period(T(g))' = Period(t) BY <3>1 DEF Period
    <3> QED BY <3>2 DEF ResultAt
  <2>1. /\ ~IsChan(t) \/ buf[t] = 0 => (q => p) /\ (p => q \/ s)
        /\ IsChan(t) /\ buf[t] # 0 => (q \/ s) /\ (p => s)
    BY <1>1, <1>t, SetHonest
  <2>2. buf' = buf /\ T(g)' = t BY <1>1, <1>t DEF Alters, T
  <2> HIDE DEF p, q, s
  <2>3. pc'[g] \in {"add", "ret"} => Honest(loc'[g]) BY <1>1, <2>1 DEF Honest
  <2>4. pc'[g] = "drain" /\ buf[t] = 0 => Honest(loc'[g]) BY <1>1, <2>1 DEF Honest
  <2>5. pc'[g] = "drain" /\ buf[t] # 0 =>
          (loc'[g].was \/ loc'[g].late) /\ (loc'[g].ret => loc'[g].late)
    BY <1>1, <2>1
  <2>6. Honest(loc[g])' <=> Honest(loc'[g]) BY DEF Honest
  <2> QED BY <1>1, <2>2, <2>3, <2>4, <2>5, <2>6 DEF ResultAt
<1>3. ASSUME NEW h \in Users, h # g PROVE ResultAt(h)'
  <2>1. /\ scene' = scene /\ buf' = buf /\ loc'[h] = loc[h] /\ pc'[h] = pc[h]
    BY <1>1, <1>3 DEF Alters, Actors
  <2> QED BY <2>1, ResultKeep
<1> QED BY <1>2, <1>3 DEF TimersResult

(* Drain: the value was never seen, and the result says that the timer was stopped. *)
LEMMA ResultDrainStep ==
  ASSUME OneSetter, TimersType, TimersPlace, TimersResult, NEW g \in Users, Drain(g)
  PROVE  TimersResult'
<1>0. g \in Actors /\ loc[g] \in Locs /\ pc[g] = "drain" BY DEF Actors, TimersType, Drain, From
<1>t. PICK t \in Timers : t = T(g)
  <2>1. T(g) \in Timers BY <1>0, AtTimer
  <2> QED BY <2>1
<1>1. /\ scene' = scene /\ pc'[g] \in {"add", "ret"}
      /\ \A b \in Actors \ {g} : loc'[b] = loc[b] /\ pc'[b] = pc[b]
      /\ \A u \in Timers \ {t} : buf'[u] = buf[u]
  BY <1>0, <1>t DEF Drain, To, TimersType
<1> DEFINE p == loc[g].ret \/ buf[t] # 0
<1>2. loc'[g] = [loc[g] EXCEPT !.ret = p] BY <1>0, <1>t DEF Drain, TimersType
<1>3. /\ loc'[g].ret = p /\ loc'[g].was = loc[g].was /\ loc'[g].late = loc[g].late
      /\ loc'[g].t = t /\ loc'[g].op = loc[g].op
  <2> HIDE DEF p
  <2> QED BY <1>0, <1>2, <1>t DEF Locs, T
<1>4. ResultAt(g)'
  <2> SUFFICES ASSUME Period(t) = 0, loc[g].op \in Sets PROVE Honest(loc'[g])
    <3>1. (T(g)' = t) /\ (Period(T(g))' = Period(t)) BY <1>1, <1>3 DEF T, Period
    <3>2. Honest(loc[g])' <=> Honest(loc'[g]) BY DEF Honest
    <3> QED BY <1>1, <1>3, <3>1, <3>2 DEF ResultAt
  <2>1. /\ buf[t] = 0 => Honest(loc[g])
        /\ buf[t] # 0 => (loc[g].was \/ loc[g].late) /\ (loc[g].ret => loc[g].late)
    BY <1>0, <1>t DEF TimersResult, ResultAt
  <2> QED BY <1>3, <2>1 DEF Honest
<1>5. ASSUME NEW h \in Users, h # g PROVE ResultAt(h)'
  <2>1. loc'[h] = loc[h] /\ pc'[h] = pc[h] BY <1>1, <1>5 DEF Actors
  <2>2. ASSUME pc[h] = "drain", loc[h].op \in Sets PROVE buf'[T(h)] = buf[T(h)]
    <3>1. T(h) \in Timers /\ loc[g].op \in Sets /\ IsChan(T(g))
      BY <1>0, <2>2, AtTimer DEF TimersPlace, UserAt
    <3>2. pc[g] # "idle" /\ pc[h] # "idle" BY <1>0, <2>2
    <3>3. T(h) # T(g) BY <1>5, <2>2, <3>1, <3>2, OneSets
    <3> QED BY <1>1, <1>t, <3>1, <3>3
  <2> QED BY <1>1, <2>1, <2>2, ResultKeep
<1> QED BY <1>4, <1>5 DEF TimersResult

(* A receiver changes no result. *)
LEMMA ResultRecvStep ==
  ASSUME TimersType, TimersPlace, TimersResult, NEW g \in Users, Recv(g)
  PROVE  TimersResult'
<1>0. g \in Actors /\ pc[g] = "recv" /\ scene' = scene /\ loc \in [Actors -> Locs]
  BY DEF Actors, Recv, From, TimersType
<1>t. PICK t \in Timers : t = T(g)
  <2>1. T(g) \in Timers BY <1>0, AtTimer
  <2> QED BY <2>1
<1>1. \A b \in Actors \ {g} : pc'[b] = pc[b] BY <1>0 DEF Recv, To, TimersType
<1>2. loc[g].op \in Gets BY <1>0 DEF TimersPlace, UserAt
<1>3. CASE UNCHANGED << buf, loc >>
  <2>1. ResultAt(g)' BY <1>2, <1>3 DEF ResultAt, Sets, Gets
  <2>2. \A h \in Users \ {g} : ResultAt(h)' BY <1>0, <1>1, <1>3, ResultKeep DEF Actors
  <2> QED BY <2>1, <2>2 DEF TimersResult
<1>4. CASE /\ buf[t] # 0 /\ buf' = [buf EXCEPT ![t] = 0]
           /\ loc' = [a \in Actors |->
                        IF a = g THEN [loc[a] EXCEPT !.ret = TRUE]
                        ELSE IF pc[a] = "drain" /\ T(a) = t THEN [loc[a] EXCEPT !.was = FALSE]
                        ELSE loc[a]]
  <2>1. loc'[g].op = loc[g].op BY <1>0, <1>4 DEF Locs
  <2>2. ResultAt(g)' BY <1>2, <2>1 DEF ResultAt, Sets, Gets
  <2>3. ASSUME NEW h \in Users, h # g, pc[h] = "drain", T(h) = t PROVE ResultAt(h)'
    <3>1. h \in Actors /\ loc[h] \in Locs BY <1>0 DEF Actors
    <3>2. loc'[h] = [loc[h] EXCEPT !.was = FALSE] BY <1>4, <2>3, <3>1
    <3>3. /\ ~loc'[h].was /\ loc'[h].ret = loc[h].ret /\ loc'[h].late = loc[h].late
          /\ loc'[h].op = loc[h].op /\ loc'[h].t = t
      BY <2>3, <3>1, <3>2 DEF Locs, T
    <3>4. buf'[t] = 0 /\ pc'[h] = "drain" BY <1>1, <1>4, <2>3, <3>1 DEF TimersType
    <3>5. (T(h)' = t) /\ (Period(T(h))' = Period(t)) BY <1>0, <3>3 DEF T, Period
    <3>6. loc[h].op \in Sets /\ Period(t) = 0 => (loc[h].ret => loc[h].late)
      BY <1>4, <2>3 DEF TimersResult, ResultAt
    <3>7. loc[h].op \in Sets /\ Period(t) = 0 => Honest(loc[h])' BY <3>3, <3>6 DEF Honest
    <3> QED BY <3>3, <3>4, <3>5, <3>7 DEF ResultAt
  <2>4. ASSUME NEW h \in Users, h # g, ~(pc[h] = "drain" /\ T(h) = t) PROVE ResultAt(h)'
    <3>1. h \in Actors BY DEF Actors
    <3>2. loc'[h] = loc[h] /\ pc'[h] = pc[h] BY <1>1, <1>4, <2>4, <3>1
    <3>3. pc[h] = "drain" => buf'[T(h)] = buf[T(h)] BY <1>4, <2>4 DEF TimersType
    <3> QED BY <1>0, <3>2, <3>3, ResultKeep
  <2> QED BY <2>2, <2>3, <2>4 DEF TimersResult
<1> QED BY <1>3, <1>4, <1>t DEF Recv, chans

(* Nor does a step that says nothing of timers ... *)
LEMMA SilentResult ==
  ASSUME TimersType, TimersResult, NEW a \in Actors, Silent(a)
  PROVE  TimersResult'
<1> SUFFICES ASSUME NEW h \in Users PROVE ResultAt(h)'
  BY DEF TimersResult
<1>1. CASE h = a
  <2> SUFFICES ASSUME loc'[a].op \in Sets, Period(T(a))' = 0 PROVE ResultAt(a)'
    BY <1>1 DEF ResultAt
  <2>1. pc'[a] # "drain" BY DEF Silent
  <2>2. ASSUME pc'[a] \in {"add", "clean", "insert", "ret"} PROVE Honest(loc[a])'
    <3>1. loc'[a] = loc[a] /\ pc[a] \in {"add", "clean", "insert"} /\ scene' = scene
      BY <2>2 DEF Silent
    <3>2. Period(T(a)) = 0 /\ loc[a].op \in Sets BY <3>1 DEF Period, T
    <3>3. Honest(loc[a]) BY <1>1, <3>1, <3>2 DEF TimersResult, ResultAt
    <3> QED BY <3>1, <3>3 DEF Honest
  <2> QED BY <2>1, <2>2 DEF ResultAt
<1>2. CASE h # a
  <2>1. loc'[h] = loc[h] /\ pc'[h] = pc[h] /\ buf' = buf /\ scene' = scene
    BY <1>2 DEF Silent, Actors
  <2> QED BY <2>1, ResultKeep
<1> QED BY <1>1, <1>2

(* ... or one that makes a timer go off, or sends its value: no drain is at work then. *)
LEMMA ResultGoStep ==
  ASSUME TimersType, TimersPlace, TimersLocks, TimersWait, TimersSeq, TimersArmed, TimersResult,
         NEW a \in Actors, GoesOff(a) \/ Send(a) \/ SendTime(a)
  PROVE  TimersResult'
<1> SUFFICES ASSUME NEW h \in Users PROVE ResultAt(h)'
  BY DEF TimersResult
<1>0. h \in Actors BY DEF Actors
<1>1. CASE GoesOff(a)
  <2>1. PICK t \in Timers, back \in {"empty", "recv", "relock"} : Ran(a, t, back)
    BY <1>1 DEF GoesOff
  <2>2. pc'[a] = (IF IsChan(t) THEN "send" ELSE back) BY <2>1 DEF Ran
  <2>3. /\ scene' = scene /\ buf' = buf
        /\ \A b \in Actors \ {a} : loc'[b] = loc[b] /\ pc'[b] = pc[b]
    BY <2>1 DEF Ran, Alters
  <2>4. pc'[a] \notin {"add", "clean", "insert", "ret", "drain"} BY <2>2
  <2>5. CASE h = a BY <2>4, <2>5 DEF ResultAt
  <2>6. CASE h # a BY <1>0, <2>3, <2>6, ResultKeep
  <2> QED BY <2>5, <2>6
<1>2. CASE Send(a)
  <2>1. /\ pc[a] = "send" /\ UNCHANGED << scene, buf, loc >>
        /\ \A b \in Actors \ {a} : pc'[b] = pc[b]
        /\ pc'[a] \in {loc[a].back, "sending"}
    BY <1>2 DEF Send, SendWith, From, To, TimersType, chans
  <2>2. CASE h = a
    <3>1. loc[a].back \in {"empty", "recv"} BY <2>1, <2>2 DEF TimersPlace, UserAt
    <3>2. pc'[a] \notin {"add", "clean", "insert", "ret", "drain"} BY <2>1, <3>1
    <3> QED BY <2>2, <3>2 DEF ResultAt
  <2>3. CASE h # a BY <1>0, <2>1, <2>3, ResultKeep
  <2> QED BY <2>2, <2>3
<1>3. CASE SendTime(a)
  <2>1. pc[a] = "sending" /\ UNCHANGED << scene, loc >> BY <1>3 DEF SendTime, From
  <2>2. SendWakes(a) BY <1>3, SendTimeWakes
  <2>3. CASE h = a
    <3>1. loc[a].back \in {"empty", "recv"} BY <2>1, <2>3 DEF TimersPlace, UserAt
    <3>2. pc'[a] \notin {"add", "clean", "insert", "ret", "drain"} BY <2>2, <3>1 DEF SendWakes
    <3> QED BY <2>3, <3>2 DEF ResultAt
  <2>4. CASE h # a /\ pc'[h] = "unblock" BY <2>4 DEF ResultAt
  <2>5. CASE h # a /\ pc'[h] = pc[h]
    <3>1. ASSUME pc[h] = "drain", Period(T(h)) = 0 PROVE buf'[T(h)] = buf[T(h)]
      <4>1. T(a) \in Timers /\ T(h) \in Timers BY <2>1, <3>1, <1>0, AtTimer
      <4>2. CASE T(h) = T(a)
        <5>1. Sender(a, T(a)) BY <2>1 DEF TimersSeq, SentAt, Sender, Tm
        <5>2. ~Draining(T(a)) BY <2>1, <3>1, <4>2, <5>1, NotDraining
        <5> QED BY <3>1, <4>2, <5>2 DEF Draining
      <4>3. CASE T(h) # T(a)
        <5>1. buf' = buf \/ buf' = [buf EXCEPT ![T(a)] = loc[a].seq]
          BY <1>3 DEF SendTime, chans
        <5> QED BY <4>1, <4>3, <5>1 DEF TimersType
      <4> QED BY <4>2, <4>3
    <3> QED BY <2>1, <2>5, <3>1, ResultKeep
  <2> QED BY <1>0, <2>2, <2>3, <2>4, <2>5 DEF SendWakes
<1> QED BY <1>1, <1>2, <1>3

(* Results are right after every step. *)
LEMMA ResultStep ==
  ASSUME OneSetter, TimersInv, TimersInv', TimersArmed, TimersResult, TimersNext
  PROVE  TimersResult'
<1>0. /\ TimersType /\ TimersPlace /\ TimersLocks /\ TimersWait /\ TimersSeq /\ TimersType'
  BY DEF TimersInv
<1>1. CASE Tick
  <2>1. UNCHANGED << scene, buf, pc, loc >> BY <1>1 DEF Tick, chans
  <2>2. \A h \in Users : ResultAt(h)' BY <2>1, ResultKeep
  <2> QED BY <2>2 DEF TimersResult
<1>2. ASSUME NEW a \in Actors, Silent(a) PROVE TimersResult' BY <1>0, <1>2, SilentResult
<1>3. ASSUME NEW a \in Actors, GoesOff(a) \/ Send(a) \/ SendTime(a) PROVE TimersResult'
  BY <1>0, <1>3, ResultGoStep
<1>4. ASSUME NEW g \in Users, Stop(g) \/ ModifyUnlock(g) PROVE TimersResult'
  BY <1>0, <1>4, ResultSetStep
<1>5. ASSUME NEW g \in Users, Drain(g) PROVE TimersResult' BY <1>0, <1>5, ResultDrainStep
<1>6. ASSUME NEW g \in Users, Recv(g) PROVE TimersResult' BY <1>0, <1>6, ResultRecvStep
<1>7. ASSUME NEW g \in Users, ModifyLock(g) PROVE TimersResult'
  <2>1. Alters(g, T(g)) BY <1>0, <1>7, ModifyLockEffect
  <2>2. pc'[g] \in {"publish", "unlock"} BY <1>0, <1>7, ModifyLockEffect
  <2>3. ResultAt(g)' BY <2>2 DEF ResultAt
  <2>4. ASSUME NEW h \in Users, h # g PROVE ResultAt(h)'
    <3>1. scene' = scene /\ buf' = buf /\ loc'[h] = loc[h] /\ pc'[h] = pc[h]
      BY <2>1, <2>4 DEF Alters, Actors
    <3> QED BY <3>1, ResultKeep
  <2> QED BY <2>3, <2>4 DEF TimersResult
<1> QED BY <1>1, <1>2, <1>3, <1>4, <1>5, <1>6, <1>7, TellCases

(* What the program is told, and what it may rely on. *)
TimersTell == TimersInv /\ TimersArmed /\ TimersResult

(* Initially no timer is armed, and nothing was returned. *)
LEMMA TellStart ==
  ASSUME TimersInit
  PROVE  TimersTell
<1>0. TimersInv BY TimersStart
<1>1. /\ \A a \in Actors : pc[a] = "idle"
      /\ \A g \in Users : g \in Actors
      /\ \A t \in Timers : /\ ~armed[t] /\ mu[t] = Free /\ buf[t] = 0
                           /\ timer[t].when = 0
  BY DEF TimersInit, Actors
<1>2. ASSUME NEW t \in Timers PROVE ArmedAt(t)
  <2>1. ~On(t) /\ ~InChan(t) BY <1>1 DEF On, InChan
  <2>2. \A a \in Actors : ~Sender(a, t) BY <1>1 DEF Sender
  <2> QED BY <1>1, <2>1, <2>2 DEF ArmedAt
<1>3. \A g \in Users : StoppedAt(g) /\ ResultAt(g) BY <1>1 DEF StoppedAt, ResultAt
<1> QED BY <1>0, <1>2, <1>3 DEF TimersTell, TimersArmed, TimersResult

(* A step that changes nothing keeps what can be told. *)
LEMMA TellStutter ==
  ASSUME TimersTell, UNCHANGED timersVars
  PROVE  TimersTell'
<1>0. TimersInv /\ TimersArmed /\ TimersResult BY DEF TimersTell
<1>1. UNCHANGED << scene, mu, timer, buf, pc, loc, armed >> BY DEF timersVars, chans, hist
<1>2. TimersInv' BY <1>0, TimersStutter
<1>3. TimersArmed' BY <1>0, <1>1, ArmedSame DEF TimersInv, InChan, Sender, T
<1>4. \A h \in Users : ResultAt(h)' BY <1>0, <1>1, ResultKeep
<1> QED BY <1>2, <1>3, <1>4 DEF TimersTell, TimersResult

(* If one goroutine sets each timer that has a channel, what is said of the timers is kept. *)
THEOREM TimersTold ==
  ASSUME OneSetter
  PROVE  TimersSpec => []TimersTell
<1>1. TimersInit => TimersTell BY TellStart
<1>2. TimersTell /\ [TimersNext]_timersVars => TimersTell'
  <2>1. ASSUME TimersTell, TimersNext PROVE TimersTell'
    <3>0. TimersInv /\ TimersArmed /\ TimersResult BY <2>1 DEF TimersTell
    <3>1. TimersInv' BY <3>0, <2>1, TimersKeep
    <3>2. TimersArmed' BY <3>0, <3>1, <2>1, ArmedStep
    <3>3. TimersResult' BY <3>0, <3>1, <2>1, ResultStep
    <3> QED BY <3>1, <3>2, <3>3 DEF TimersTell
  <2> QED BY <2>1, TellStutter
<1> QED BY <1>1, <1>2, PTL DEF TimersSpec

(* What Stop and Reset return can be relied on, if one goroutine sets each timer that has a *)
(* channel.                                                                                 *)
THEOREM ToldHonestly ==
  ASSUME OneSetter
  PROVE  TimersSpec => []StopHonest
<1>1. TimersTell => StopHonest
  BY DEF TimersTell, TimersResult, ResultAt, Honest, StopHonest, Sets
<1> QED BY <1>1, TimersTold, PTL

(* A goroutine that waits on a timer that is running is not forgotten, if one goroutine sets *)
(* each timer that has a channel.                                                            *)
THEOREM NoneForgotten ==
  ASSUME OneSetter
  PROVE  TimersSpec => []NobodyForgotten
<1>1. TimersTell => NobodyForgotten
  <2> SUFFICES ASSUME TimersTell, NEW g \in Users, pc[g] = "parked", armed[T(g)],
                      mu[T(g)] = Free
               PROVE  InHeap(T(g)) \/ BeingSent(T(g)) \/ BeingAdded(T(g))
    BY DEF NobodyForgotten
  <2>0. /\ TimersType /\ TimersPlace /\ TimersBits /\ TimersWait /\ TimersArmed
        /\ g \in Actors
    BY DEF TimersTell, TimersInv, Actors
  <2>t. PICK t \in Timers : t = T(g)
    <3>1. T(g) \in Timers BY <2>0, AtTimer
    <3> QED BY <3>1
  <2>1. loc[g].op = "recv" BY <2>0 DEF TimersPlace, UserAt
  <2>2. LineAt(t) /\ AliveAt(t) /\ ArmedAt(t) /\ BitsAt(t)
    BY <2>0 DEF TimersWait, TimersArmed, TimersBits
  <2>3. timer[t].blocked > 0
    <3>1. g \in Waiting(t) BY <2>1, <2>t DEF Waiting
    <3>2. IsFiniteSet(Waiting(t))
      <4>1. Waiting(t) \subseteq Users BY DEF Waiting
      <4> QED BY <4>1, TimersAssumption, FS_Subset
    <3>3. Cardinality(Waiting(t)) \in Nat /\ Cardinality(Waiting(t)) # 0
      BY <3>1, <3>2, FS_CardinalityType, FS_EmptySet
    <3> QED BY <2>2, <3>3 DEF LineAt
  <2>4. ~InChan(t)
    <3>1. Occurs(g, recvq[t]) BY <2>1, <2>2, <2>t DEF LineAt, InLine
    <3>2. recvq[t] # << >> BY <3>1 DEF Occurs
    <3>3. buf[t] = 0 BY <2>2, <3>2 DEF LineAt
    <3> QED BY <3>3 DEF InChan
  <2>5. ASSUME timer[t].when > 0 PROVE InHeap(t) \/ BeingAdded(t)
    <3>1. "heaped" \in timer[t].bits \/ \E h \in Users : Adding(h, t)
      BY <2>2, <2>3, <2>5, <2>t DEF AliveAt
    <3>2. timer[t].when # 0 /\ timer[t].blocked # 0 BY <2>3, <2>5
    <3>3. "zombie" \notin timer[t].bits BY <2>2, <3>2 DEF AliveAt
    <3>4. timer[t].bits \subseteq Bits BY <2>0 DEF TimersType, Settings
    <3>5. CASE "heaped" \in timer[t].bits BY <3>3, <3>5 DEF InHeap
    <3>6. ASSUME NEW h \in Users, Adding(h, t) PROVE BeingAdded(t)
      BY <3>6 DEF Adding, BeingAdded
    <3> QED BY <3>1, <3>5, <3>6
  <2>6. CASE Period(t) # 0
    <3>1. timer[t].when > 0 BY <2>2, <2>6, <2>t DEF ArmedAt
    <3> QED BY <2>5, <2>t, <3>1
  <2>7. CASE Period(t) = 0
    <3>1. On(t) \/ \E a \in Actors : Sender(a, t) BY <2>2, <2>4, <2>7, <2>t DEF ArmedAt
    <3>2. CASE On(t)
      <4>1. timer[t].when > 0 BY <2>t, <3>2 DEF On
      <4> QED BY <2>5, <2>t, <4>1
    <3>3. ASSUME NEW a \in Actors, Sender(a, t) PROVE BeingSent(t)
      BY <3>3 DEF Sender, BeingSent
    <3> QED BY <2>t, <3>1, <3>2, <3>3
  <2> QED BY <2>6, <2>7
<1> QED BY <1>1, TimersTold, PTL
=============================================================================
