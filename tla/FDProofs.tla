------------------------------- MODULE FDProofs -------------------------------
(***************************************************************************)
(* The proof of FdSafe: references are counted, the file descriptor is     *)
(* closed and its pollDesc freed once, when nobody holds it, and the       *)
(* runtime does not throw, for any finite set of goroutines, any timer     *)
(* functions, any roles, any number of deadline changes and of later       *)
(* opens.  Sequence numbers do not wrap (the code's are machine words).    *)
(*                                                                         *)
(* References alone do not exclude the throws: a goroutine must never find *)
(* another one in its rg or wg, a timer function that is not stale must    *)
(* find the deadline that it expires still set, and nobody may be blocked  *)
(* on a pollDesc that is freed.  IInv therefore adds:                      *)
(*   RoleInv     which steps a goroutine takes in its role;                *)
(*   RefInv      who holds a reference, who the lock of a mode;            *)
(*   DestroyInv  one goroutine destroys, and signals csema once;           *)
(*   CloseInv    the pollDesc is closing after the one Close has evicted;  *)
(*   WaitInv     where the one waiter of a mode is, by its rg or wg;       *)
(*   TimerInv    a deadline has one timer that is not stale, set or fired; *)
(*   LockInv     what may be left to do under pd.lock.                     *)
(*                                                                         *)
(* A step of a goroutine either leaves the FD as it was (FdStill), or      *)
(* takes or drops a reference (Gained, Lost); a step of the poller either  *)
(* leaves the timers as they were (TimersStill), or is one of the three    *)
(* that change them: a timer fires (FireInv), a timer function runs        *)
(* (DeadlineInv, ExpireInv), or deadlines change (DeadlineChanges).        *)
(*                                                                         *)
(* On top of IInv, ReasonInv says why a goroutine is still blocked: it     *)
(* proves BlockedForAReason, at the end of the module.                     *)
(***************************************************************************)
EXTENDS FD, CountingLemmas, SequenceTheorems

InLock(p)   == fpc[p] \in {"reset", "store", "syscall", "waiting", "unlock"}
Closer(p)   == scene.role[p] = "close" /\ fpc[p] \in {"give", "evict"}
Destroys(p) == fpc[p] \in {"destroy", "free", "sysclose", "signal"} \/ after[p] = "destroy"

Fns == { << "r" >>, << "w" >>, << "r", "w" >> }
Timers == [fn : Fns, seq : Nat] \cup {Stopped}

(* What there may be to do to rg and wg. *)
UR == << << "unblock", "r" >> >>
UW == << << "unblock", "w" >> >>
URW == << << "unblock", "r" >>, << "unblock", "w" >> >>
ERUR == << << "expire", "r" >>, << "unblock", "r" >> >>
EWUW == << << "expire", "w" >>, << "unblock", "w" >> >>
UREWUW == << << "unblock", "r" >>, << "expire", "w" >>, << "unblock", "w" >> >>
ERUREWUW == << << "expire", "r" >>, << "unblock", "r" >>,
               << "expire", "w" >>, << "unblock", "w" >> >>

Unblocking == { << >>, UR, UW, URW }
Expiring   == { ERUR, EWUW, UREWUW, ERUREWUW }

TypeInv ==
  /\ scene \in [role : [Procs -> Roles], active : BOOLEAN, maxField : Nat, maxSeq : Nat]
  /\ fpc \in [Procs -> FPCs] /\ after \in [Procs -> {"idle", "destroy", "evict"}]
  /\ npc \in [Procs -> NPCs]
  /\ fdClosed \in BOOLEAN /\ sysfd \in BOOLEAN /\ closing \in BOOLEAN
  /\ rwLocked \in [Modes -> BOOLEAN] /\ refs \in Nat /\ csema \in Nat
  /\ pdlock \in Actors \cup {Free}
  /\ gpp \in [Modes -> {"nil", "ready", "wait"} \cup Procs]
  /\ dl \in [Modes -> Int] /\ run \in [Modes -> BOOLEAN] /\ seq \in [Modes -> Nat]
  /\ timer \in [Modes -> Timers] /\ fired \in [Callbacks -> Timers]
  /\ wake \in [Actors -> SUBSET Procs]
  /\ todo \in [Actors -> Unblocking \cup Expiring]

(* Which steps a goroutine takes in its role. *)
RoleAt(p) ==
  /\ InLock(p) \/ fpc[p] \in {"asleep", "relock"} => scene.role[p] \in {"read", "write"}
  /\ fpc[p] = "give" => scene.role[p] \in {"read", "write", "close"}
  /\ fpc[p] \in {"evict", "csema"} => scene.role[p] = "close"
  /\ fpc[p] = "set" => scene.role[p] = "deadline"
  /\ fpc[p] \in {"unblocking", "decref"} => scene.role[p] \in {"close", "deadline"}
  /\ after[p] # "idle" => fpc[p] = "give"
  /\ fpc[p] = "give" => (after[p] = "evict" <=> scene.role[p] = "close")
  /\ fpc[p] = "waiting" <=> npc[p] # "out"

RoleInv == \A p \in Procs : RoleAt(p)

(* The references and the locks are held by somebody. *)
RefInv ==
  /\ refs = Cardinality({p \in Procs : Holds(p)})
  /\ \A p, q \in Procs : InLock(p) /\ InLock(q) /\ Mode(p) = Mode(q) => p = q
  /\ \A m \in Modes : rwLocked[m] = \E p \in Procs : InLock(p) /\ Mode(p) = m
  /\ refs > 0 \/ ~fdClosed => sysfd

(* One goroutine destroys the FD, and it is the last to hold it. *)
DestroyInv ==
  /\ \A p, q \in Procs : Destroys(p) /\ Destroys(q) => p = q
  /\ \A p \in Procs : Destroys(p) => csema = 0 /\ fdClosed /\ refs = 0
  /\ csema \in {0, 1}
  /\ csema = 1 => fdClosed /\ refs = 0

(* The pollDesc is closing once the one Close that took effect has evicted. *)
CloseInv ==
  /\ \A p, q \in Procs : Closer(p) /\ Closer(q) => p = q
  /\ closing <=> fdClosed /\ \A p \in Procs : ~Closer(p)
  /\ \A p \in Procs : Closer(p) => fdClosed

(* rg and wg tell where the one goroutine is that may wait in this mode, and  *)
(* the ones to be readied are parked and no longer in them.                   *)
WaitInv ==
  /\ \A m \in Modes : gpp[m] = "wait" =>
       \E p \in Procs : Mode(p) = m /\ npc[p] \in {"recheck", "commit", "swap"}
  /\ \A m \in Modes : gpp[m] \in Procs => npc[gpp[m]] = "parked" /\ Mode(gpp[m]) = m
  /\ \A a \in Actors : \A p \in wake[a] : npc[p] = "parked" /\ gpp[Mode(p)] # p
  /\ \A a, b \in Actors : \A p \in Procs : p \in wake[a] /\ p \in wake[b] => a = b

(* The timer t is not stale: it belongs to the deadline of i. *)
Matched(t, i) == t # Stopped /\ t.fn[1] = i /\ t.seq = seq[i]

(* The deadlines that it is for are to come. *)
Ahead(t) ==
  \A i \in Modes : Matched(t, i) =>
    /\ t.fn = << "r", "w" >> <=> BothMode(dl)
    /\ dl[i] > 0

(* A deadline has one timer that is not stale, set or on its way. *)
TimerInv ==
  /\ \A m \in Modes : timer[m] # Stopped => timer[m].fn[1] = m /\ timer[m].seq <= seq[m]
  /\ \A c \in Callbacks : fired[c] # Stopped => fired[c].seq <= seq[fired[c].fn[1]]
  /\ \A i \in Modes : Matched(timer[i], i) => run[i]
  /\ \A c \in Callbacks : \A i \in Modes : Matched(fired[c], i) => run[i]
  /\ \A i \in Modes : \A c \in Callbacks : ~ (Matched(timer[i], i) /\ Matched(fired[c], i))
  /\ \A c, d \in Callbacks : \A i \in Modes : Matched(fired[c], i) /\ Matched(fired[d], i) => c = d
  /\ BothMode(dl) => ~run["w"]
  /\ \A m \in Modes : Ahead(timer[m])
  /\ \A c \in Callbacks : todo[c] = << >> => Ahead(fired[c])

(* A callback that is not stale has more than netpollunblock to do.           *)
CallbackAt(c) ==
  /\ todo[c] # URW
  /\ todo[c] \in {UR, UW} => fired[c] = Stopped
  /\ todo[c] \in Expiring => \E i \in Modes : Matched(fired[c], i)
  /\ todo[c] = ERUREWUW =>
       /\ fired[c].fn = << "r", "w" >> /\ ~run["w"]
       /\ dl["r"] > 0 /\ dl["w"] > 0
  /\ todo[c] = UREWUW =>
       /\ fired[c].fn = << "r", "w" >> /\ ~run["w"]
       /\ dl["w"] > 0 /\ ~BothMode(dl)
  /\ todo[c] = EWUW =>
       /\ dl["w"] > 0 /\ ~BothMode(dl)
       /\ \/ fired[c].fn = << "r", "w" >> /\ ~run["w"]
          \/ fired[c].fn = << "w" >>
  /\ todo[c] = ERUR =>
       fired[c].fn = << "r" >> /\ dl["r"] > 0 /\ ~BothMode(dl)

(* What is done under pd.lock. *)
LockInv ==
  /\ \A a \in Procs \cup Callbacks : todo[a] # << >> => pdlock = a
  /\ \A a \in Procs \cup {Poller} : todo[a] \in Unblocking
  /\ \A c \in Callbacks : CallbackAt(c)

IInv ==
  /\ TypeInv /\ RoleInv /\ RefInv /\ DestroyInv /\ CloseInv /\ WaitInv /\ TimerInv /\ LockInv
  /\ ~thrown

USE ActorsAssumption

-----------------------------------------------------------------------------
(* The fields of a timer, and the lists of what there is to do.               *)
LEMMA Functions ==
  /\ << "r" >>[1] = "r" /\ << "w" >>[1] = "w" /\ << "r", "w" >>[1] = "r"
  /\ << "r" >> # << "w" >> /\ << "r" >> # << "r", "w" >> /\ << "w" >> # << "r", "w" >>
  /\ {<< "r" >>[i] : i \in DOMAIN << "r" >>} = {"r"}
  /\ {<< "w" >>[i] : i \in DOMAIN << "w" >>} = {"w"}
  /\ {<< "r", "w" >>[i] : i \in DOMAIN << "r", "w" >>} = {"r", "w"}
  /\ << "r" >> # << >> /\ << "w" >> # << >> /\ << "r", "w" >> # << >>
<1>1. << "r" >>[1] = "r" /\ << "w" >>[1] = "w" /\ << "r", "w" >>[1] = "r" /\ << "r", "w" >>[2] = "w"
  OBVIOUS
<1>2. DOMAIN << "r" >> = {1} /\ DOMAIN << "w" >> = {1} /\ DOMAIN << "r", "w" >> = {1, 2}
  OBVIOUS
<1>3. << "r" >> # << "w" >> /\ << "r" >> # << "r", "w" >> /\ << "w" >> # << "r", "w" >>
  BY <1>1, <1>2
<1>4. << "r" >> # << >> /\ << "w" >> # << >> /\ << "r", "w" >> # << >>
  OBVIOUS
<1> QED BY <1>1, <1>2, <1>3, <1>4

LEMMA TimerFacts ==
  ASSUME NEW t \in Timers, t # Stopped
  PROVE  t.fn \in Fns /\ t.fn[1] \in Modes /\ t.seq \in Nat
BY Functions DEF Timers, Fns, Modes

LEMMA NewTimer ==
  ASSUME NEW f \in Fns, NEW s \in Nat
  PROVE  [fn |-> f, seq |-> s] \in Timers /\ [fn |-> f, seq |-> s] # Stopped
<1>1. f # << >> BY Functions DEF Fns
<1> QED BY <1>1 DEF Timers, Stopped

LEMMA Heads ==
  /\ Head(UR) = << "unblock", "r" >> /\ Tail(UR) = << >>
  /\ Head(UW) = << "unblock", "w" >> /\ Tail(UW) = << >>
  /\ Head(URW) = << "unblock", "r" >> /\ Tail(URW) = UW
  /\ Head(ERUR) = << "expire", "r" >> /\ Tail(ERUR) = UR /\ Len(ERUR) = 2
  /\ Head(EWUW) = << "expire", "w" >> /\ Tail(EWUW) = UW /\ Len(EWUW) = 2
  /\ Head(UREWUW) = << "unblock", "r" >> /\ Tail(UREWUW) = EWUW /\ Len(UREWUW) = 3
  /\ Head(ERUREWUW) = << "expire", "r" >> /\ Tail(ERUREWUW) = UREWUW /\ Len(ERUREWUW) = 4
BY DEF UR, UW, URW, ERUR, EWUW, UREWUW, ERUREWUW

LEMMA Pairs ==
  /\ << "unblock", "r" >>[1] = "unblock" /\ << "unblock", "r" >>[2] = "r"
  /\ << "unblock", "w" >>[1] = "unblock" /\ << "unblock", "w" >>[2] = "w"
  /\ << "expire", "r" >>[1] = "expire" /\ << "expire", "r" >>[2] = "r"
  /\ << "expire", "w" >>[1] = "expire" /\ << "expire", "w" >>[2] = "w"
OBVIOUS

(* No two of the lists are the same. *)
LEMMA Lists ==
  /\ UR \notin {<< >>, UW, URW} /\ UW \notin {<< >>, URW} /\ URW # << >>
  /\ Unblocking \cap Expiring = {} /\ << >> \notin Expiring
  /\ ERUR \notin {EWUW, UREWUW, ERUREWUW} /\ EWUW \notin {UREWUW, ERUREWUW} /\ UREWUW # ERUREWUW
<1>1. /\ Len(<< >>) = 0 /\ Len(UR) = 1 /\ Len(UW) = 1 /\ Len(URW) = 2
      /\ Len(ERUR) = 2 /\ Len(EWUW) = 2 /\ Len(UREWUW) = 3 /\ Len(ERUREWUW) = 4
  BY DEF UR, UW, URW, ERUR, EWUW, UREWUW, ERUREWUW
<1>2. UR # UW /\ URW # ERUR /\ URW # EWUW /\ ERUR # EWUW
  <2>1. /\ << "unblock", "r" >> # << "unblock", "w" >>
        /\ << "unblock", "r" >> # << "expire", "r" >>
        /\ << "unblock", "r" >> # << "expire", "w" >>
        /\ << "expire", "r" >> # << "expire", "w" >>
    BY Pairs
  <2> QED BY <2>1, Heads
<1>3. /\ UR # << >> /\ UW # << >> /\ URW # << >> /\ UR # URW /\ UW # URW
      /\ ERUR # UREWUW /\ ERUR # ERUREWUW /\ EWUW # UREWUW /\ EWUW # ERUREWUW
      /\ UREWUW # ERUREWUW
  <2>1. UR # << >> BY <1>1
  <2>2. UW # << >> BY <1>1
  <2>3. URW # << >> BY <1>1
  <2>4. UR # URW /\ UW # URW BY <1>1
  <2>5. ERUR # UREWUW /\ ERUR # ERUREWUW BY <1>1
  <2>6. EWUW # UREWUW /\ EWUW # ERUREWUW BY <1>1
  <2>7. UREWUW # ERUREWUW BY <1>1
  <2> QED BY <2>1, <2>2, <2>3, <2>4, <2>5, <2>6, <2>7
<1>4. \A x \in Expiring : x # << >> /\ x # UR /\ x # UW
  BY <1>1 DEF Expiring
<1>5. URW \notin Expiring
  <2>1. URW # UREWUW /\ URW # ERUREWUW BY <1>1
  <2> QED BY <1>2, <2>1 DEF Expiring
<1> QED BY <1>2, <1>3, <1>4, <1>5 DEF Unblocking

(* netpollunblock for some modes. *)
LEMMA UnblocksIs ==
  ASSUME NEW ms
  PROVE  /\ Unblocks(ms) \in Unblocking
         /\ "r" \in ms /\ "w" \in ms => Unblocks(ms) = URW
<1>1. CASE "r" \in ms /\ "w" \in ms
  <2>1. Unblocks(ms) = << << "unblock", "r" >> >> \o << << "unblock", "w" >> >>
    BY <1>1 DEF Unblocks
  <2>2. ASSUME NEW x, NEW y PROVE << x >> \o << y >> = << x, y >>
    <3> DEFINE S == {x, y}
    <3>1. << x >> \in Seq(S) /\ << y >> \in Seq(S) /\ << x, y >> \in Seq(S) OBVIOUS
    <3>2. Len(<< x >>) = 1 /\ Len(<< y >>) = 1 /\ Len(<< x, y >>) = 2 OBVIOUS
    <3>3. << x >>[1] = x /\ << y >>[1] = y /\ << x, y >>[1] = x /\ << x, y >>[2] = y OBVIOUS
    <3> HIDE DEF S
    <3>4. PICK a, b, c : a = << x >> /\ b = << y >> /\ c = << x, y >> OBVIOUS
    <3>5. /\ a \in Seq(S) /\ b \in Seq(S) /\ c \in Seq(S) /\ Len(a) = 1 /\ Len(b) = 1 /\ Len(c) = 2
          /\ a[1] = x /\ b[1] = y /\ c[1] = x /\ c[2] = y
      BY <3>1, <3>2, <3>3, <3>4
    <3>6. /\ a \o b \in Seq(S) /\ Len(a \o b) = 1 + 1
          /\ \A i \in 1 .. 1 + 1 : (a \o b)[i] = IF i <= 1 THEN a[i] ELSE b[i - 1]
      BY <3>5, ConcatProperties
    <3>7. \A i \in 1 .. 2 : (a \o b)[i] = c[i] BY <3>5, <3>6
    <3>8. a \o b = c BY <3>5, <3>6, <3>7, SeqEqual
    <3> QED BY <3>4, <3>8
  <2>3. Unblocks(ms) = << << "unblock", "r" >>, << "unblock", "w" >> >> BY <2>1, <2>2
  <2>4. Unblocks(ms) = URW BY <2>3 DEF URW
  <2> QED BY <2>4 DEF Unblocking
<1>2. CASE "r" \in ms /\ "w" \notin ms
  <2>1. Unblocks(ms) = << << "unblock", "r" >> >> \o << >> BY <1>2 DEF Unblocks
  <2>2. Unblocks(ms) = UR BY <2>1 DEF UR
  <2> QED BY <1>2, <2>2 DEF Unblocking
<1>3. CASE "r" \notin ms /\ "w" \in ms
  <2>1. Unblocks(ms) = << >> \o << << "unblock", "w" >> >> BY <1>3 DEF Unblocks
  <2>2. Unblocks(ms) = UW BY <2>1 DEF UW
  <2> QED BY <1>3, <2>2 DEF Unblocking
<1>4. CASE "r" \notin ms /\ "w" \notin ms
  <2>1. Unblocks(ms) = << >> \o << >> BY <1>4 DEF Unblocks
  <2>2. Unblocks(ms) = << >> BY <2>1
  <2> QED BY <1>4, <2>2 DEF Unblocking
<1> QED BY <1>1, <1>2, <1>3, <1>4

LEMMA ExpiresIs ==
  /\ Expires(<< "r" >>) = ERUR /\ Expires(<< "w" >>) = EWUW
  /\ Expires(<< "r", "w" >>) = ERUREWUW
BY Functions DEF Expires, ERUR, EWUW, ERUREWUW

-----------------------------------------------------------------------------
(* A goroutine is to the FD what it was before. *)
Same(q) ==
  /\ Holds(q)' <=> Holds(q)
  /\ InLock(q)' <=> InLock(q)
  /\ Closer(q)' <=> Closer(q)
  /\ Destroys(q)' <=> Destroys(q)
  /\ Mode(q)' = Mode(q)

(* p moves on. *)
Moves(p) ==
  /\ scene' = scene
  /\ fpc' = [fpc EXCEPT ![p] = fpc'[p]] /\ fpc'[p] \in FPCs
  /\ after' = [after EXCEPT ![p] = after'[p]] /\ after'[p] \in {"idle", "destroy", "evict"}
  /\ npc' = [npc EXCEPT ![p] = npc'[p]] /\ npc'[p] \in NPCs
  /\ RoleAt(p)'

(* The others stay where they are. *)
LEMMA Others ==
  ASSUME TypeInv, NEW p \in Procs, Moves(p)
  PROVE  /\ \A q \in Procs : q # p => /\ Same(q) /\ fpc'[q] = fpc[q] /\ after'[q] = after[q]
                                      /\ npc'[q] = npc[q]
         /\ fpc' \in [Procs -> FPCs] /\ after' \in [Procs -> {"idle", "destroy", "evict"}]
         /\ npc' \in [Procs -> NPCs] /\ scene' = scene
<1>1. /\ fpc \in [Procs -> FPCs] /\ after \in [Procs -> {"idle", "destroy", "evict"}]
      /\ npc \in [Procs -> NPCs]
  BY DEF TypeInv
<1>2. ASSUME NEW q \in Procs, q # p
      PROVE  fpc'[q] = fpc[q] /\ after'[q] = after[q] /\ npc'[q] = npc[q]
  BY <1>1, <1>2 DEF Moves
<1>3. ASSUME NEW q \in Procs, q # p PROVE Same(q)
  BY <1>2, <1>3 DEF Moves, Same, Holds, InLock, Closer, Destroys, Mode
<1>4. /\ fpc' \in [Procs -> FPCs] /\ after' \in [Procs -> {"idle", "destroy", "evict"}]
      /\ npc' \in [Procs -> NPCs] /\ scene' = scene
  <2>1. fpc' \in [Procs -> FPCs] BY <1>1 DEF Moves
  <2>2. after' \in [Procs -> {"idle", "destroy", "evict"}] BY <1>1 DEF Moves
  <2>3. npc' \in [Procs -> NPCs] BY <1>1 DEF Moves
  <2> QED BY <2>1, <2>2, <2>3 DEF Moves
<1> QED BY <1>2, <1>3, <1>4

LEMMA RolesKept ==
  ASSUME TypeInv, RoleInv, NEW p \in Procs, Moves(p)
  PROVE  RoleInv'
<1> SUFFICES ASSUME NEW q \in Procs PROVE RoleAt(q)' BY DEF RoleInv
<1>1. CASE q = p BY <1>1 DEF Moves
<1>2. CASE q # p
  <2>1. /\ fpc'[q] = fpc[q] /\ after'[q] = after[q] /\ npc'[q] = npc[q] /\ scene' = scene
        /\ RoleAt(q)
    BY <1>2, Others DEF RoleInv
  <2> QED BY <2>1 DEF RoleAt, InLock
<1> QED BY <1>1, <1>2

(* Nothing changes for the FD. *)
LEMMA FdStill ==
  ASSUME RefInv, DestroyInv, CloseInv, \A q \in Procs : Same(q),
         UNCHANGED << refs, rwLocked, fdClosed, sysfd, csema, closing >>
  PROVE  RefInv' /\ DestroyInv' /\ CloseInv'
<1>1. RefInv'
  <2>1. PICK S, T : S = {p \in Procs : Holds(p)} /\ T = {p \in Procs : Holds(p)'} OBVIOUS
  <2>2. S = T BY <2>1 DEF Same
  <2>3. refs' = Cardinality({p \in Procs : Holds(p)'}) BY <2>1, <2>2 DEF RefInv
  <2>4. \A p, q \in Procs : InLock(p)' /\ InLock(q)' /\ Mode(p)' = Mode(q)' => p = q
    BY DEF RefInv, Same
  <2>5. \A m \in Modes : rwLocked'[m] = \E p \in Procs : InLock(p)' /\ Mode(p)' = m
    BY DEF RefInv, Same
  <2> QED BY <2>3, <2>4, <2>5 DEF RefInv
<1>2. DestroyInv' BY DEF DestroyInv, Same
<1>3. CloseInv' BY DEF CloseInv, Same
<1> QED BY <1>1, <1>2, <1>3

(* Nothing changes for those that wait, nor for the timers.                   *)
LEMMA WaitsStill ==
  ASSUME WaitInv, UNCHANGED << scene, npc, gpp, wake >>
  PROVE  WaitInv'
BY DEF WaitInv, Mode

LEMMA TimersStill ==
  ASSUME TimerInv, UNCHANGED << dl, run, seq, timer, fired >>,
         \A c \in Callbacks : todo'[c] = << >> => todo[c] = << >> \/ fired[c] = Stopped
  PROVE  TimerInv'
BY DEF TimerInv, Matched, Ahead, BothMode

LEMMA LocksStill ==
  ASSUME LockInv, UNCHANGED << dl, run, seq, fired, todo, pdlock >>
  PROVE  LockInv'
BY DEF LockInv, CallbackAt, Matched, BothMode

LEMMA CallbackStill ==
  ASSUME NEW c \in Callbacks, CallbackAt(c), UNCHANGED << dl, run, seq >>,
         fired'[c] = fired[c], todo'[c] = todo[c]
  PROVE  CallbackAt(c)'
BY DEF CallbackAt, Matched, BothMode

(* A callback has nothing left to do, or netpollunblock only. *)
LEMMA CallbackEnds ==
  ASSUME NEW c \in Callbacks,
         todo'[c] = << >> \/ (todo'[c] \in {UR, UW} /\ fired'[c] = Stopped)
  PROVE  CallbackAt(c)'
<1>1. /\ todo'[c] # URW /\ todo'[c] \notin Expiring
      /\ todo'[c] \in {UR, UW} => fired'[c] = Stopped
  BY Lists DEF Unblocking
<1>2. /\ ERUREWUW \in Expiring /\ UREWUW \in Expiring /\ EWUW \in Expiring /\ ERUR \in Expiring
  BY DEF Expiring
<1> QED BY <1>1, <1>2 DEF CallbackAt

LEMMA TypesStill ==
  ASSUME TypeInv, UNCHANGED << closing, dl, run, seq, timer, pdlock, todo, wake, fired, scene >>,
         gpp' \in [Modes -> {"nil", "ready", "wait"} \cup Procs],
         fpc' \in [Procs -> FPCs], after' \in [Procs -> {"idle", "destroy", "evict"}],
         npc' \in [Procs -> NPCs], fdClosed' \in BOOLEAN, sysfd' \in BOOLEAN,
         rwLocked' \in [Modes -> BOOLEAN], refs' \in Nat, csema' \in Nat
  PROVE  TypeInv'
BY DEF TypeInv

(* What p holds alone, and what nobody holds. *)
LEMMA HoldsFacts ==
  ASSUME TypeInv, RefInv, NEW p \in Procs
  PROVE  /\ Holds(p) => refs > 0 /\ sysfd
         /\ InLock(p) => rwLocked[Mode(p)] /\ Holds(p)
         /\ refs = 0 => ~Holds(p) /\ ~InLock(p)
<1>1. Holds(p) => refs > 0
  <2> SUFFICES ASSUME Holds(p) PROVE refs > 0 OBVIOUS
  <2>1. PICK S : S = {q \in Procs : Holds(q)} OBVIOUS
  <2>2. S \in SUBSET Procs /\ p \in S BY <2>1
  <2>3. Cardinality(S) > 0 BY <2>2, CountSome
  <2> QED BY <2>1, <2>3 DEF RefInv
<1>2. InLock(p) => Holds(p) BY DEF InLock, Holds
<1>3. InLock(p) => rwLocked[Mode(p)]
  <2>1. Mode(p) \in Modes BY DEF Mode, Modes
  <2> QED BY <2>1 DEF RefInv
<1> QED BY <1>1, <1>2, <1>3 DEF RefInv, TypeInv

-----------------------------------------------------------------------------
(* Steps that change nothing but where a goroutine is. *)
LEMMA Moving ==
  ASSUME IInv, NEW p \in Procs, Moves(p), Same(p), WaitInv', ~thrown',
         gpp' \in [Modes -> {"nil", "ready", "wait"} \cup Procs], sysfd' = sysfd,
         UNCHANGED << refs, rwLocked, fdClosed, csema >>,
         UNCHANGED << closing, dl, run, seq, timer, pdlock, todo, wake, fired >>
  PROVE  IInv'
<1> USE DEF IInv
<1>2. \A q \in Procs : Same(q) BY Others
<1>3. RefInv' /\ DestroyInv' /\ CloseInv' BY <1>2, FdStill
<1>5. TimerInv' /\ LockInv' BY TimersStill, LocksStill
<1>6. TypeInv'
  <2>1. /\ fpc' \in [Procs -> FPCs] /\ after' \in [Procs -> {"idle", "destroy", "evict"}]
        /\ npc' \in [Procs -> NPCs] /\ scene' = scene
    BY Others
  <2>2. /\ fdClosed' \in BOOLEAN /\ sysfd' \in BOOLEAN /\ rwLocked' \in [Modes -> BOOLEAN]
        /\ refs' \in Nat /\ csema' \in Nat
    BY DEF TypeInv
  <2> QED BY <2>1, <2>2, TypesStill
<1>7. RoleInv' BY RolesKept
<1> QED BY <1>3, <1>5, <1>6, <1>7

LEMMA MoveOn ==
  ASSUME IInv, NEW p \in Procs, Moves(p), Same(p),
         UNCHANGED << refs, rwLocked, fdClosed, sysfd, csema, pollVars >>
  PROVE  IInv'
<1>1. UNCHANGED << closing, dl, run, seq, timer, gpp, pdlock, npc, todo, wake, fired, thrown, scene >>
  BY DEF pollVars, desc, Moves
<1>2. WaitInv' BY <1>1, WaitsStill DEF IInv
<1>3. ~thrown' /\ gpp' \in [Modes -> {"nil", "ready", "wait"} \cup Procs]
  BY <1>1 DEF IInv, TypeInv
<1> QED BY <1>1, <1>2, <1>3, Moving

LEMMA LockWokenInv == ASSUME IInv, NEW p \in Procs, LockWoken(p) PROVE IInv'
<1>1. /\ fpc[p] = "asleep" /\ fpc' = [fpc EXCEPT ![p] = "relock"]
      /\ UNCHANGED << refs, rwLocked, fdClosed, sysfd, csema, pollVars, scene, after >>
  BY DEF LockWoken, FGoto, Mu!Semacquire, kernel
<1>2. /\ fpc \in [Procs -> FPCs] /\ after \in [Procs -> {"idle", "destroy", "evict"}]
      /\ npc \in [Procs -> NPCs] /\ RoleAt(p)
  BY DEF IInv, TypeInv, RoleInv
<1>3. npc' = npc BY <1>1 DEF pollVars
<1>4. fpc'[p] = "relock" /\ after'[p] = after[p] /\ npc'[p] = npc[p] BY <1>1, <1>2, <1>3
<1>5. Moves(p)
  <2>1. RoleAt(p)' BY <1>1, <1>2, <1>4 DEF RoleAt, InLock
  <2> QED BY <1>1, <1>2, <1>3, <1>4, <2>1 DEF Moves, FPCs
<1>6. Same(p) BY <1>1, <1>4 DEF Same, Holds, InLock, Closer, Destroys, Mode
<1> QED BY <1>1, <1>5, <1>6, MoveOn

LEMMA PrepareInv == ASSUME IInv, NEW p \in Procs, Prepare(p) PROVE IInv'
<1>1. /\ fpc[p] = "reset" /\ fpc' = [fpc EXCEPT ![p] = fpc'[p]] /\ fpc'[p] \in {"unlock", "store"}
      /\ UNCHANGED << refs, rwLocked, fdClosed, sysfd, csema, pollVars, scene, after >>
  <2>1. fpc \in [Procs -> FPCs] BY DEF IInv, TypeInv
  <2> QED BY <2>1 DEF Prepare, FGoto, fdmuVars, kernel
<1>2. /\ fpc \in [Procs -> FPCs] /\ after \in [Procs -> {"idle", "destroy", "evict"}]
      /\ npc \in [Procs -> NPCs] /\ RoleAt(p)
  BY DEF IInv, TypeInv, RoleInv
<1>3. npc' = npc BY <1>1 DEF pollVars
<1>5. Moves(p)
  <2>1. RoleAt(p)' BY <1>1, <1>2, <1>3 DEF RoleAt, InLock
  <2> QED BY <1>1, <1>2, <1>3, <2>1 DEF Moves, FPCs
<1>6. Same(p) BY <1>1 DEF Same, Holds, InLock, Closer, Destroys, Mode
<1> QED BY <1>1, <1>5, <1>6, MoveOn

LEMMA UnblockedInv == ASSUME IInv, NEW p \in Procs, Unblocked(p) PROVE IInv'
<1>1. /\ fpc[p] = "unblocking" /\ fpc' = [fpc EXCEPT ![p] = "decref"]
      /\ UNCHANGED << refs, rwLocked, fdClosed, sysfd, csema, pollVars, scene, after >>
  BY DEF Unblocked, FGoto, fdmuVars, kernel
<1>2. /\ fpc \in [Procs -> FPCs] /\ after \in [Procs -> {"idle", "destroy", "evict"}]
      /\ npc \in [Procs -> NPCs] /\ RoleAt(p)
  BY DEF IInv, TypeInv, RoleInv
<1>3. npc' = npc BY <1>1 DEF pollVars
<1>4. fpc'[p] = "decref" BY <1>1, <1>2
<1>5. Moves(p)
  <2>1. RoleAt(p)' BY <1>1, <1>2, <1>3, <1>4 DEF RoleAt, InLock
  <2> QED BY <1>1, <1>2, <1>3, <1>4, <2>1 DEF Moves, FPCs
<1>6. Same(p) BY <1>1, <1>4 DEF Same, Holds, InLock, Closer, Destroys, Mode
<1> QED BY <1>1, <1>5, <1>6, MoveOn

LEMMA GivesInv == ASSUME IInv, NEW p \in Procs, Gives(p) PROVE IInv'
<1>1. /\ fpc[p] = "give"
      /\ UNCHANGED << refs, rwLocked, fdClosed, sysfd, csema, pollVars, scene >>
  BY DEF Gives, fdmuVars, kernel, Mu!Semrelease
<1>2. /\ fpc \in [Procs -> FPCs] /\ after \in [Procs -> {"idle", "destroy", "evict"}]
      /\ npc \in [Procs -> NPCs] /\ RoleAt(p)
  BY DEF IInv, TypeInv, RoleInv
<1>3. npc' = npc BY <1>1 DEF pollVars
<1>4. CASE UNCHANGED << fpc, after >>
  <2>1. RoleAt(p)' BY <1>1, <1>2, <1>3, <1>4 DEF RoleAt, InLock
  <2>2. Moves(p) BY <1>1, <1>2, <1>3, <1>4, <2>1 DEF Moves
  <2>3. Same(p) BY <1>1, <1>4 DEF Same, Holds, InLock, Closer, Destroys, Mode
  <2> QED BY <1>1, <2>2, <2>3, MoveOn
<1>5. CASE fpc' = [fpc EXCEPT ![p] = after[p]] /\ after' = [after EXCEPT ![p] = "idle"]
  <2>1. fpc'[p] = after[p] /\ after'[p] = "idle" /\ after[p] \in {"idle", "destroy", "evict"}
    BY <1>2, <1>5
  <2>2. RoleAt(p)' BY <1>1, <1>2, <1>3, <2>1 DEF RoleAt, InLock
  <2>3. Moves(p) BY <1>1, <1>2, <1>3, <1>5, <2>1, <2>2 DEF Moves, FPCs
  <2>4. Same(p)
    <3>1. Holds(p)' <=> Holds(p) BY <1>1, <1>2, <2>1 DEF Holds, RoleAt
    <3>2. Closer(p)' <=> Closer(p) BY <1>1, <1>2, <2>1 DEF Closer, RoleAt
    <3> QED BY <1>1, <2>1, <3>1, <3>2 DEF Same, InLock, Destroys, Mode
  <2> QED BY <1>1, <2>3, <2>4, MoveOn
<1> QED BY <1>4, <1>5 DEF Gives

(* The lock is taken.  Only if it is free, and with a reference.              *)
LEMMA LocksInv == ASSUME IInv, NEW p \in Procs, Locks(p) PROVE IInv'
<1>1. /\ fpc[p] \in {"idle", "relock"} /\ scene.role[p] \in {"read", "write"}
      /\ UNCHANGED << sysfd, csema, pollVars, scene, after >>
  BY DEF Locks, kernel
<1>2. /\ fpc \in [Procs -> FPCs] /\ after \in [Procs -> {"idle", "destroy", "evict"}]
      /\ npc \in [Procs -> NPCs] /\ RoleAt(p)
      /\ rwLocked \in [Modes -> BOOLEAN] /\ refs \in Nat
  BY DEF IInv, TypeInv, RoleInv
<1>3. npc' = npc BY <1>1 DEF pollVars
<1>4. CASE Mu!RwLock(Mode(p)) /\ fpc' = [fpc EXCEPT ![p] = "reset"]
  <2> USE DEF IInv
  <2>1. /\ ~fdClosed /\ ~rwLocked[Mode(p)] /\ rwLocked' = [rwLocked EXCEPT ![Mode(p)] = TRUE]
        /\ refs' = refs + 1 /\ fdClosed' = fdClosed
    BY <1>4 DEF Mu!RwLock
  <2>2. fpc'[p] = "reset" BY <1>2, <1>4
  <2>3. Moves(p)
    <3>1. RoleAt(p)' BY <1>1, <1>2, <1>3, <2>2 DEF RoleAt, InLock
    <3> QED BY <1>1, <1>2, <1>3, <1>4, <2>2, <3>1 DEF Moves, FPCs
  <2>4. /\ ~Holds(p) /\ Holds(p)' /\ InLock(p)' /\ ~InLock(p) /\ ~Closer(p)' /\ ~Closer(p)
        /\ Mode(p)' = Mode(p) /\ ~Destroys(p)' /\ Mode(p) \in Modes
    BY <1>1, <1>2, <2>2 DEF Holds, InLock, Closer, Destroys, Mode, RoleAt, Modes
  <2>5. \A q \in Procs : q # p => Same(q) BY <2>3, Others
  <2>6. UNCHANGED << closing, dl, run, seq, timer, gpp, pdlock, npc, todo, wake, fired, thrown, scene >>
    BY <1>1 DEF pollVars, desc
  <2>7. RefInv'
    <3>1. PICK S, T : S = {q \in Procs : Holds(q)} /\ T = {q \in Procs : Holds(q)'} OBVIOUS
    <3>2. /\ S \in SUBSET Procs /\ T \in SUBSET Procs /\ p \notin S /\ p \in T
          /\ \A q \in Procs : q # p => (q \in S <=> q \in T)
      BY <2>4, <2>5, <3>1 DEF Same
    <3>3. Cardinality(T) = Cardinality(S) + 1 BY <3>2, CountGain
    <3>4. refs' = Cardinality({q \in Procs : Holds(q)'}) BY <2>1, <3>1, <3>3 DEF RefInv
    <3>5. \A q \in Procs : InLock(q) => Mode(q) # Mode(p) BY <2>1, HoldsFacts
    <3>6. \A q, r \in Procs : InLock(q)' /\ InLock(r)' /\ Mode(q)' = Mode(r)' => q = r
      <4> SUFFICES ASSUME NEW q \in Procs, NEW r \in Procs, q # r,
                          InLock(q)', InLock(r)', Mode(q)' = Mode(r)'
                   PROVE  FALSE
        OBVIOUS
      <4>1. CASE q = p BY <2>4, <2>5, <3>5, <4>1 DEF Same
      <4>2. CASE r = p BY <2>4, <2>5, <3>5, <4>2 DEF Same
      <4>3. CASE q # p /\ r # p BY <2>5, <4>3 DEF RefInv, Same
      <4> QED BY <4>1, <4>2, <4>3
    <3>7. \A m \in Modes : rwLocked'[m] = \E q \in Procs : InLock(q)' /\ Mode(q)' = m
      <4> SUFFICES ASSUME NEW m \in Modes
                   PROVE  rwLocked'[m] = \E q \in Procs : InLock(q)' /\ Mode(q)' = m
        OBVIOUS
      <4>1. CASE m = Mode(p) BY <1>2, <2>1, <2>4, <4>1
      <4>2. CASE m # Mode(p)
        <5>1. rwLocked'[m] = rwLocked[m] BY <1>2, <2>1, <4>2
        <5>2. (\E q \in Procs : InLock(q)' /\ Mode(q)' = m) <=> (\E q \in Procs : InLock(q) /\ Mode(q) = m)
          BY <2>4, <2>5, <4>2 DEF Same
        <5>3. rwLocked[m] = \E q \in Procs : InLock(q) /\ Mode(q) = m BY DEF RefInv
        <5> QED BY <5>1, <5>2, <5>3
      <4> QED BY <4>1, <4>2
    <3>8. sysfd' BY <1>1, <2>1 DEF RefInv
    <3> QED BY <3>4, <3>6, <3>7, <3>8 DEF RefInv
  <2>8. DestroyInv'
    <3>1. csema = 0 /\ \A q \in Procs : ~Destroys(q) BY <2>1 DEF DestroyInv
    <3>2. csema' = 0 /\ \A q \in Procs : ~Destroys(q)' BY <1>1, <2>4, <2>5, <3>1 DEF Same
    <3> QED BY <3>2 DEF DestroyInv
  <2>9. CloseInv'
    <3>1. \A q \in Procs : Closer(q)' <=> Closer(q) BY <2>4, <2>5 DEF Same
    <3> QED BY <2>1, <2>6, <3>1 DEF CloseInv
  <2>10. WaitInv' /\ TimerInv' /\ LockInv' BY <2>6, WaitsStill, TimersStill, LocksStill
  <2>11. TypeInv'
    <3>1. /\ fpc' \in [Procs -> FPCs] /\ after' \in [Procs -> {"idle", "destroy", "evict"}]
          /\ npc' \in [Procs -> NPCs]
      BY <2>3, Others
    <3>2. fdClosed' \in BOOLEAN /\ sysfd' \in BOOLEAN /\ csema' \in Nat
      BY <1>1, <2>1 DEF TypeInv
    <3>3. rwLocked' \in [Modes -> BOOLEAN] BY <1>2, <2>1
    <3>4. refs' \in Nat BY <1>2, <2>1
    <3>5. gpp' \in [Modes -> {"nil", "ready", "wait"} \cup Procs] BY <2>6 DEF TypeInv
    <3> QED BY <2>6, <3>1, <3>2, <3>3, <3>4, <3>5, TypesStill
  <2>12. RoleInv' BY <2>3, RolesKept
  <2> QED BY <2>6, <2>7, <2>8, <2>9, <2>10, <2>11, <2>12
<1>5. CASE \/ Mu!RwWait(Mode(p))  /\ fpc' = [fpc EXCEPT ![p] = "asleep"]
           \/ Mu!RwFails(Mode(p)) /\ fpc' = [fpc EXCEPT ![p] = "idle"]
  <2>1. /\ fpc' = [fpc EXCEPT ![p] = fpc'[p]] /\ fpc'[p] \in {"asleep", "idle"}
        /\ UNCHANGED << refs, rwLocked, fdClosed >>
    BY <1>2, <1>5 DEF Mu!RwWait, Mu!RwFails, Mu!fdmuVars
  <2>2. Moves(p)
    <3>1. RoleAt(p)' BY <1>1, <1>2, <1>3, <2>1 DEF RoleAt, InLock
    <3> QED BY <1>1, <1>2, <1>3, <2>1, <3>1 DEF Moves, FPCs
  <2>3. Same(p) BY <1>1, <2>1 DEF Same, Holds, InLock, Closer, Destroys, Mode
  <2> QED BY <1>1, <2>1, <2>2, <2>3, MoveOn
<1> QED BY <1>4, <1>5 DEF Locks

-----------------------------------------------------------------------------
(* The steps of a read or a write in the poller, which only the one that      *)
(* holds the lock of its mode takes.                                          *)
LEMMA WaitFacts ==
  ASSUME IInv, NEW p \in Procs, InLock(p)
  PROVE  /\ Mode(p) \in Modes
         /\ npc[p] # "parked" => gpp[Mode(p)] \notin Procs
         /\ npc[p] \notin {"recheck", "commit", "swap"} => gpp[Mode(p)] # "wait"
<1> USE DEF IInv
<1>1. Mode(p) \in Modes BY DEF Mode, Modes
<1>2. \A q \in Procs : npc[q] # "out" /\ Mode(q) = Mode(p) => q = p
  BY DEF RoleInv, RoleAt, InLock, RefInv
<1>3. npc[p] # "parked" => gpp[Mode(p)] \notin Procs
  BY <1>1, <1>2 DEF WaitInv
<1>4. npc[p] \notin {"recheck", "commit", "swap"} => gpp[Mode(p)] # "wait"
  BY <1>1, <1>2 DEF WaitInv
<1> QED BY <1>1, <1>3, <1>4

LEMMA WaiterMoves ==
  ASSUME IInv, NEW p \in Procs, Moves(p), InLock(p), npc[p] # "parked", wake' = wake,
         \A m \in Modes : m # Mode(p) => gpp'[m] = gpp[m],
         gpp'[Mode(p)] = "wait" => npc'[p] \in {"recheck", "commit", "swap"},
         gpp'[Mode(p)] \in Procs => gpp'[Mode(p)] = p /\ npc'[p] = "parked"
  PROVE  WaitInv'
<1> USE DEF IInv
<1>1. /\ \A q \in Procs : q # p => npc'[q] = npc[q]
      /\ \A q \in Procs : Mode(q)' = Mode(q)
  <2>1. \A q \in Procs : q # p => npc'[q] = npc[q] BY Others
  <2>2. scene' = scene BY Others
  <2> QED BY <2>1, <2>2 DEF Mode
<1>2. \A q \in Procs : npc[q] # "out" /\ Mode(q) = Mode(p) => q = p
  BY DEF RoleInv, RoleAt, InLock, RefInv
<1>3. ASSUME NEW m \in Modes, gpp'[m] = "wait"
      PROVE  \E q \in Procs : Mode(q)' = m /\ npc'[q] \in {"recheck", "commit", "swap"}
  <2>1. CASE m = Mode(p) BY <1>1, <1>3, <2>1
  <2>2. CASE m # Mode(p)
    <3>1. PICK q \in Procs : Mode(q) = m /\ npc[q] \in {"recheck", "commit", "swap"}
      BY <1>3, <2>2 DEF WaitInv
    <3> QED BY <1>1, <2>2, <3>1
  <2> QED BY <2>1, <2>2
<1>4. ASSUME NEW m \in Modes, gpp'[m] \in Procs
      PROVE  \E q \in Procs : q = gpp'[m] /\ npc'[q] = "parked" /\ Mode(q)' = m
  <2>1. PICK q \in Procs : q = gpp'[m] BY <1>4
  <2>2. npc'[q] = "parked" /\ Mode(q) = m
    <3>1. CASE m = Mode(p) BY <2>1, <3>1
    <3>2. CASE m # Mode(p)
      <4>1. q = gpp[m] BY <2>1, <3>2
      <4>2. npc[q] = "parked" /\ Mode(q) = m BY <4>1 DEF WaitInv
      <4> QED BY <1>1, <3>2, <4>2
    <3> QED BY <3>1, <3>2
  <2> QED BY <1>1, <2>1, <2>2
<1>5. ASSUME NEW a \in Actors, NEW q \in wake'[a]
      PROVE  npc'[q] = "parked" /\ gpp'[Mode(q)'] # q
  <2>1. q \in wake[a] /\ q \in Procs /\ npc[q] = "parked" /\ gpp[Mode(q)] # q /\ q # p
    BY <1>5 DEF WaitInv, TypeInv
  <2>2. npc'[q] = "parked" /\ Mode(q)' = Mode(q) BY <1>1, <2>1
  <2>3. Mode(q) # Mode(p) BY <1>2, <2>1
  <2>4. Mode(q) \in Modes BY DEF Mode, Modes
  <2> QED BY <2>1, <2>2, <2>3, <2>4
<1>6. \A a, b \in Actors : \A q \in Procs : q \in wake'[a] /\ q \in wake'[b] => a = b
  BY DEF WaitInv
<1>7. \A m \in Modes : gpp'[m] \in Procs => npc'[gpp'[m]] = "parked" /\ Mode(gpp[m])' = m
  BY <1>4 DEF Mode
<1> QED BY <1>3, <1>5, <1>6, <1>7 DEF WaitInv

LEMMA PrepareStoreInv == ASSUME IInv, NEW p \in Procs, PrepareStore(p) PROVE IInv'
<1>1. /\ fpc[p] = "store" /\ fpc' = [fpc EXCEPT ![p] = "syscall"]
      /\ UNCHANGED << refs, rwLocked, fdClosed, sysfd, csema, scene, after, npc >>
      /\ UNCHANGED << closing, dl, run, seq, timer, pdlock, todo, wake, fired, thrown >>
      /\ gpp' = [gpp EXCEPT ![Mode(p)] = "nil"]
  BY DEF PrepareStore, FGoto, ResetStore, fdmuVars, kernel, desc
<1>2. /\ fpc \in [Procs -> FPCs] /\ after \in [Procs -> {"idle", "destroy", "evict"}]
      /\ npc \in [Procs -> NPCs] /\ RoleAt(p) /\ ~thrown
      /\ gpp \in [Modes -> {"nil", "ready", "wait"} \cup Procs]
  BY DEF IInv, TypeInv, RoleInv
<1>4. fpc'[p] = "syscall" BY <1>1, <1>2
<1>5. Moves(p)
  <2>1. RoleAt(p)' BY <1>1, <1>2, <1>4 DEF RoleAt, InLock
  <2> QED BY <1>1, <1>2, <1>4, <2>1 DEF Moves, FPCs
<1>6. Same(p) BY <1>1, <1>4 DEF Same, Holds, InLock, Closer, Destroys, Mode
<1>7. InLock(p) /\ npc[p] = "out" BY <1>1, <1>2 DEF InLock, RoleAt
<1>8. Mode(p) \in Modes BY <1>7, WaitFacts
<1>9. gpp'[Mode(p)] = "nil" /\ \A m \in Modes : m # Mode(p) => gpp'[m] = gpp[m]
  BY <1>1, <1>2, <1>8
<1>10. gpp' \in [Modes -> {"nil", "ready", "wait"} \cup Procs] BY <1>1, <1>2
<1>11. WaitInv' BY <1>1, <1>5, <1>7, <1>9, WaiterMoves
<1> QED BY <1>1, <1>2, <1>5, <1>6, <1>10, <1>11, Moving

LEMMA SyscallInv == ASSUME IInv, NEW p \in Procs, Syscall(p) PROVE IInv'
<1>1. /\ fpc[p] = "syscall"
      /\ \/ /\ fpc' = [fpc EXCEPT ![p] = fpc'[p]] /\ fpc'[p] \in {"unlock", "syscall"} /\ npc' = npc
         \/ fpc' = [fpc EXCEPT ![p] = "waiting"] /\ npc' = [npc EXCEPT ![p] = "wait"]
      /\ UNCHANGED << refs, rwLocked, fdClosed, sysfd, csema, scene, after, gpp >>
      /\ UNCHANGED << closing, dl, run, seq, timer, pdlock, todo, wake, fired, thrown >>
  <2>1. fpc \in [Procs -> FPCs] BY DEF IInv, TypeInv
  <2> QED BY <2>1 DEF Syscall, FGoto, fdmuVars, quiet, desc
<1>2. /\ fpc \in [Procs -> FPCs] /\ after \in [Procs -> {"idle", "destroy", "evict"}]
      /\ npc \in [Procs -> NPCs] /\ RoleAt(p) /\ ~thrown
      /\ gpp \in [Modes -> {"nil", "ready", "wait"} \cup Procs]
  BY DEF IInv, TypeInv, RoleInv
<1>4. /\ \/ fpc'[p] \in {"unlock", "syscall"} /\ npc'[p] = npc[p]
         \/ fpc'[p] = "waiting" /\ npc'[p] = "wait"
      /\ npc[p] = "out"
  <2>1. npc[p] = "out" BY <1>1, <1>2 DEF RoleAt
  <2>2. CASE fpc' = [fpc EXCEPT ![p] = fpc'[p]] /\ fpc'[p] \in {"unlock", "syscall"} /\ npc' = npc
    BY <2>1, <2>2
  <2>3. CASE fpc' = [fpc EXCEPT ![p] = "waiting"] /\ npc' = [npc EXCEPT ![p] = "wait"]
    BY <1>2, <2>1, <2>3
  <2> QED BY <1>1, <2>1, <2>2, <2>3
<1>5. Moves(p)
  <2>1. RoleAt(p)' BY <1>1, <1>2, <1>4 DEF RoleAt, InLock
  <2>2. fpc' = [fpc EXCEPT ![p] = fpc'[p]] BY <1>1, <1>2
  <2>3. npc' = [npc EXCEPT ![p] = npc'[p]] BY <1>1, <1>2
  <2>4. fpc'[p] \in FPCs /\ npc'[p] \in NPCs BY <1>4 DEF FPCs, NPCs
  <2> QED BY <1>1, <1>2, <2>1, <2>2, <2>3, <2>4 DEF Moves
<1>6. Same(p) BY <1>1, <1>4 DEF Same, Holds, InLock, Closer, Destroys, Mode
<1>7. InLock(p) BY <1>1 DEF InLock
<1>8. gpp[Mode(p)] \notin Procs /\ gpp[Mode(p)] # "wait" BY <1>4, <1>7, WaitFacts
<1>9. WaitInv' BY <1>1, <1>4, <1>5, <1>7, <1>8, WaiterMoves
<1> QED BY <1>1, <1>2, <1>5, <1>6, <1>9, Moving

LEMMA WaitedInv == ASSUME IInv, NEW p \in Procs, Waited(p) PROVE IInv'
<1>1. /\ fpc[p] = "waiting" /\ fpc' = [fpc EXCEPT ![p] = fpc'[p]] /\ fpc'[p] \in {"unlock", "syscall"}
      /\ npc[p] \in {"ok", "err"} /\ npc' = [npc EXCEPT ![p] = "out"]
      /\ UNCHANGED << refs, rwLocked, fdClosed, sysfd, csema, scene, after, gpp >>
      /\ UNCHANGED << closing, dl, run, seq, timer, pdlock, todo, wake, fired, thrown >>
  <2>1. fpc \in [Procs -> FPCs] BY DEF IInv, TypeInv
  <2> QED BY <2>1 DEF Waited, FGoto, fdmuVars, quiet, desc, kernel
<1>2. /\ fpc \in [Procs -> FPCs] /\ after \in [Procs -> {"idle", "destroy", "evict"}]
      /\ npc \in [Procs -> NPCs] /\ RoleAt(p) /\ ~thrown
      /\ gpp \in [Modes -> {"nil", "ready", "wait"} \cup Procs]
  BY DEF IInv, TypeInv, RoleInv
<1>4. npc'[p] = "out" BY <1>1, <1>2
<1>5. Moves(p)
  <2>1. RoleAt(p)' BY <1>1, <1>2, <1>4 DEF RoleAt, InLock
  <2>2. fpc'[p] \in FPCs /\ npc'[p] \in NPCs BY <1>1, <1>4 DEF FPCs, NPCs
  <2> QED BY <1>1, <1>2, <1>4, <2>1, <2>2 DEF Moves
<1>6. Same(p) BY <1>1, <1>4 DEF Same, Holds, InLock, Closer, Destroys, Mode
<1>7. InLock(p) BY <1>1 DEF InLock
<1>8. gpp[Mode(p)] \notin Procs /\ gpp[Mode(p)] # "wait" BY <1>1, <1>7, WaitFacts
<1>9. WaitInv' BY <1>1, <1>4, <1>5, <1>7, <1>8, WaiterMoves
<1> QED BY <1>1, <1>2, <1>5, <1>6, <1>9, Moving

(* A step of netpollblock. *)
LEMMA Blocking ==
  ASSUME IInv, NEW p \in Procs, fpc[p] = "waiting", npc[p] # "parked", npc[p] # "out",
         npc' = [npc EXCEPT ![p] = npc'[p]], npc'[p] \in NPCs, npc'[p] # "out",
         gpp' = [gpp EXCEPT ![Mode(p)] = gpp'[Mode(p)]],
         gpp'[Mode(p)] \in {"nil", "ready", "wait"} \cup Procs,
         gpp'[Mode(p)] = "wait" => npc'[p] \in {"recheck", "commit", "swap"},
         gpp'[Mode(p)] \in Procs => gpp'[Mode(p)] = p /\ npc'[p] = "parked",
         UNCHANGED << fdmuVars, local, csema, kernel, quiet >>, ~thrown'
  PROVE  IInv'
<1>1. /\ UNCHANGED << refs, rwLocked, fdClosed, sysfd, csema, scene, after, fpc >>
      /\ UNCHANGED << closing, dl, run, seq, timer, pdlock, todo, wake, fired >>
  BY DEF fdmuVars, local, kernel, quiet, desc
<1>2. /\ fpc \in [Procs -> FPCs] /\ after \in [Procs -> {"idle", "destroy", "evict"}]
      /\ npc \in [Procs -> NPCs] /\ RoleAt(p)
      /\ gpp \in [Modes -> {"nil", "ready", "wait"} \cup Procs]
  BY DEF IInv, TypeInv, RoleInv
<1>3. Moves(p)
  <2>1. RoleAt(p)' BY <1>1, <1>2 DEF RoleAt, InLock
  <2> QED BY <1>1, <1>2, <2>1 DEF Moves
<1>4. Same(p) BY <1>1 DEF Same, Holds, InLock, Closer, Destroys, Mode
<1>5. InLock(p) BY DEF InLock
<1>6. Mode(p) \in Modes BY <1>5, WaitFacts
<1>7. \A m \in Modes : m # Mode(p) => gpp'[m] = gpp[m] BY <1>2, <1>6
<1>8. gpp' \in [Modes -> {"nil", "ready", "wait"} \cup Procs] BY <1>2
<1>9. WaitInv' BY <1>1, <1>3, <1>5, <1>7, WaiterMoves
<1> QED BY <1>1, <1>3, <1>4, <1>8, <1>9, Moving

LEMMA WaitsInv == ASSUME IInv, NEW p \in Procs, Waits(p) PROVE IInv'
<1> DEFINE m == Mode(p)
<1>1. /\ fpc[p] = "waiting" /\ PollWait(p, m)
      /\ UNCHANGED << fdmuVars, local, csema, kernel >>
  BY DEF Waits
<1>2. /\ npc \in [Procs -> NPCs] /\ ~thrown
      /\ gpp \in [Modes -> {"nil", "ready", "wait"} \cup Procs]
  BY DEF IInv, TypeInv
<1>3. InLock(p) BY <1>1 DEF InLock
<1>4. /\ m \in Modes
      /\ npc[p] # "parked" => gpp[m] \notin Procs
      /\ npc[p] \notin {"recheck", "commit", "swap"} => gpp[m] # "wait"
  BY <1>3, WaitFacts
<1>5. ASSUME NEW x PROVE [npc EXCEPT ![p] = x][p] = x BY <1>2
<1>6. ASSUME NEW x PROVE [gpp EXCEPT ![m] = x][m] = x BY <1>2, <1>4
<1>7. gpp = [gpp EXCEPT ![m] = gpp[m]] /\ gpp[m] \in {"nil", "ready", "wait"} \cup Procs BY <1>2, <1>4
<1>8. CASE \/ NpGoto(p, "wait", IF CheckErr(m) THEN "err" ELSE "block")
           \/ NpGoto(p, "errcheck", IF CheckErr(m) THEN "err" ELSE "block")
  <2>1. PICK x : x = IF CheckErr(m) THEN "err" ELSE "block" OBVIOUS
  <2>2. /\ npc[p] \in {"wait", "errcheck"} /\ npc' = [npc EXCEPT ![p] = x] /\ x \in {"err", "block"}
    BY <1>8, <2>1 DEF NpGoto
  <2>3. UNCHANGED << quiet, gpp, thrown >>
    BY <1>1, <2>2 DEF PollWait, WaitCheck, Block, Recheck, BlockCommit, BlockSwap, WaitRetry, NpGoto
  <2> QED BY <1>1, <1>2, <1>4, <1>5, <1>7, <2>2, <2>3, Blocking DEF NPCs
<1>9. CASE Block(p, m)
  <2> HIDE DEF m
  <2>1. /\ npc[p] = "block" /\ gpp[m] \in {"ready", "nil"}
        /\ \/ gpp[m] = "ready" /\ npc' = [npc EXCEPT ![p] = "ok"] /\ gpp' = [gpp EXCEPT ![m] = "nil"]
           \/ gpp[m] # "ready" /\ npc' = [npc EXCEPT ![p] = "recheck"] /\ gpp' = [gpp EXCEPT ![m] = "wait"]
        /\ ~thrown' /\ UNCHANGED quiet
    BY <1>2, <1>4, <1>7, <1>9 DEF Block, NpGoto
  <2>2. /\ npc' = [npc EXCEPT ![p] = npc'[p]] /\ npc'[p] \in {"ok", "recheck"}
        /\ gpp' = [gpp EXCEPT ![m] = gpp'[m]] /\ gpp'[m] \in {"nil", "wait"}
        /\ gpp'[m] = "wait" => npc'[p] = "recheck"
    BY <1>5, <1>6, <2>1
  <2> QED BY <1>1, <2>1, <2>2, Blocking DEF NPCs, m
<1>10. CASE Recheck(p, m)
  <2>1. PICK x : x = IF CheckErr(m) THEN "swap" ELSE "commit" OBVIOUS
  <2>2. /\ npc[p] = "recheck" /\ npc' = [npc EXCEPT ![p] = x] /\ x \in {"swap", "commit"}
        /\ UNCHANGED << quiet, gpp, thrown >>
    BY <1>10, <2>1 DEF Recheck, NpGoto
  <2> QED BY <1>1, <1>2, <1>4, <1>5, <1>7, <2>2, Blocking DEF NPCs
<1>11. CASE BlockCommit(p, m)
  <2> HIDE DEF m
  <2>1. /\ npc[p] = "commit"
        /\ \/ gpp[m] = "wait" /\ npc' = [npc EXCEPT ![p] = "parked"] /\ gpp' = [gpp EXCEPT ![m] = p]
           \/ gpp[m] # "wait" /\ npc' = [npc EXCEPT ![p] = "swap"] /\ gpp' = gpp
        /\ ~thrown' /\ UNCHANGED quiet
    BY <1>2, <1>4, <1>7, <1>11 DEF BlockCommit, NpGoto
  <2>2. /\ npc' = [npc EXCEPT ![p] = npc'[p]] /\ npc'[p] \in {"parked", "swap"}
        /\ gpp' = [gpp EXCEPT ![m] = gpp'[m]] /\ gpp'[m] \in {"nil", "ready", "wait"} \cup Procs
        /\ gpp'[m] # "wait"
        /\ gpp'[m] \in Procs => gpp'[m] = p /\ npc'[p] = "parked"
    BY <1>4, <1>5, <1>6, <1>7, <2>1
  <2> QED BY <1>1, <2>1, <2>2, Blocking DEF NPCs, m
<1>12. CASE BlockSwap(p, m)
  <2> HIDE DEF m
  <2>1. /\ npc[p] = "swap" /\ npc' = [npc EXCEPT ![p] = IF gpp[m] = "ready" THEN "ok" ELSE "errcheck"]
        /\ gpp' = [gpp EXCEPT ![m] = "nil"]
        /\ ~thrown' /\ UNCHANGED quiet
    BY <1>2, <1>4, <1>12 DEF BlockSwap, NpGoto
  <2>2. /\ npc' = [npc EXCEPT ![p] = npc'[p]] /\ npc'[p] \in {"ok", "errcheck"}
        /\ gpp' = [gpp EXCEPT ![m] = gpp'[m]] /\ gpp'[m] = "nil"
    BY <1>5, <1>6, <2>1
  <2> QED BY <1>1, <2>1, <2>2, Blocking DEF NPCs, m
<1> QED BY <1>1, <1>8, <1>9, <1>10, <1>11, <1>12 DEF PollWait, WaitCheck, WaitRetry

-----------------------------------------------------------------------------
(* A step of the runtime, at which the goroutines' own next steps stay.       *)
LEMMA Runtimes ==
  ASSUME IInv, UNCHANGED << fdmuVars, local, csema, kernel, closing, run, seq >>,
         npc' \in [Procs -> NPCs], \A q \in Procs : npc'[q] = "out" <=> npc[q] = "out",
         pdlock' \in Actors \cup {Free}, dl' \in [Modes -> Int],
         gpp' \in [Modes -> {"nil", "ready", "wait"} \cup Procs],
         timer' \in [Modes -> Timers], fired' \in [Callbacks -> Timers],
         wake' \in [Actors -> SUBSET Procs], todo' \in [Actors -> Unblocking \cup Expiring],
         WaitInv', TimerInv', LockInv', ~thrown'
  PROVE  IInv'
<1> USE DEF IInv
<1>1. UNCHANGED << refs, rwLocked, fdClosed, sysfd, csema, scene, after, fpc >>
  BY DEF fdmuVars, local, kernel
<1>2. \A q \in Procs : Same(q)
  BY <1>1 DEF Same, Holds, InLock, Closer, Destroys, Mode
<1>3. RefInv' /\ DestroyInv' /\ CloseInv' BY <1>1, <1>2, FdStill
<1>4. RoleInv' BY <1>1 DEF RoleInv, RoleAt, InLock
<1>5. TypeInv' BY <1>1 DEF TypeInv
<1> QED BY <1>3, <1>4, <1>5

LEMMA UnblockInv ==
  ASSUME IInv, NEW a \in Actors, Unblock(a), UNCHANGED << fdmuVars, local, csema, kernel >>
  PROVE  IInv'
<1>1. PICK m, T : m = Head(todo[a])[2] /\ T = Tail(todo[a]) OBVIOUS
<1>2. /\ todo \in [Actors -> Unblocking \cup Expiring] /\ wake \in [Actors -> SUBSET Procs]
      /\ gpp \in [Modes -> {"nil", "ready", "wait"} \cup Procs]
      /\ pdlock \in Actors \cup {Free} /\ ~thrown
      /\ npc \in [Procs -> NPCs] /\ timer \in [Modes -> Timers] /\ fired \in [Callbacks -> Timers]
      /\ dl \in [Modes -> Int] /\ WaitInv /\ TimerInv /\ LockInv
  BY DEF IInv, TypeInv
<1>3. /\ todo[a] # << >> /\ Head(todo[a])[1] = "unblock"
      /\ todo' = [todo EXCEPT ![a] = T]
      /\ pdlock' = IF pdlock = a /\ todo'[a] = << >> THEN Free ELSE pdlock
      /\ UNCHANGED << closing, dl, run, seq, timer, npc, fired, thrown >>
  BY <1>1 DEF Unblock, desc
<1>4. \/ todo[a] = UR /\ m = "r" /\ T = << >>
      \/ todo[a] = UW /\ m = "w" /\ T = << >>
      \/ todo[a] = URW /\ m = "r" /\ T = UW
      \/ todo[a] = UREWUW /\ m = "r" /\ T = EWUW
  <2>1. todo[a] \in {UR, UW, URW, ERUR, EWUW, UREWUW, ERUREWUW}
    BY <1>2, <1>3 DEF Unblocking, Expiring
  <2>2. todo[a] \notin {ERUR, EWUW, ERUREWUW} BY <1>3, Heads, Pairs
  <2> QED BY <1>1, <2>1, <2>2, Heads, Pairs
<1>5. m \in Modes BY <1>4 DEF Modes
<1>6. todo'[a] = T /\ \A b \in Actors : b # a => todo'[b] = todo[b] BY <1>2, <1>3
<1>7. todo' \in [Actors -> Unblocking \cup Expiring]
  BY <1>2, <1>3, <1>4 DEF Unblocking, Expiring
<1>8. pdlock' \in Actors \cup {Free} BY <1>2, <1>3
<1>9. \/ UNCHANGED << gpp, wake >>
      \/ \E x \in {"ready", "nil"} :
           /\ gpp' = [gpp EXCEPT ![m] = x]
           /\ wake' = [wake EXCEPT ![a] = @ \cup ({gpp[m]} \cap Procs)]
  <2>1. CASE a = Poller BY <1>1, <2>1 DEF Unblock
  <2>2. CASE a # Poller BY <1>1, <2>2 DEF Unblock
  <2> QED BY <2>1, <2>2
<1>10. /\ gpp' \in [Modes -> {"nil", "ready", "wait"} \cup Procs]
       /\ wake' \in [Actors -> SUBSET Procs]
       /\ WaitInv'
  <2>0. scene' = scene BY DEF local
  <2>1. CASE UNCHANGED << gpp, wake >> BY <1>2, <1>3, <2>0, <2>1, WaitsStill
  <2>2. ASSUME NEW x \in {"ready", "nil"}, gpp' = [gpp EXCEPT ![m] = x],
               wake' = [wake EXCEPT ![a] = @ \cup ({gpp[m]} \cap Procs)]
        PROVE  /\ gpp' \in [Modes -> {"nil", "ready", "wait"} \cup Procs]
               /\ wake' \in [Actors -> SUBSET Procs]
               /\ WaitInv'
    <3>1. gpp' \in [Modes -> {"nil", "ready", "wait"} \cup Procs] BY <1>2, <2>2
    <3>2. wake' \in [Actors -> SUBSET Procs] BY <1>2, <2>2
    <3>3. /\ gpp'[m] = x /\ x \notin Procs /\ \A k \in Modes : k # m => gpp'[k] = gpp[k]
      BY <1>2, <1>5, <2>2
    <3>4. /\ \A q : q \in wake'[a] <=> (q \in wake[a] \/ (q = gpp[m] /\ q \in Procs))
          /\ \A b \in Actors : b # a => wake'[b] = wake[b]
      BY <1>2, <2>2
    <3>5. \A q \in Procs : Mode(q)' = Mode(q) /\ Mode(q) \in Modes BY <2>0 DEF Mode, Modes
    <3>6. ASSUME NEW k \in Modes, gpp'[k] = "wait"
          PROVE  \E q \in Procs : Mode(q)' = k /\ npc'[q] \in {"recheck", "commit", "swap"}
      <4>1. gpp[k] = "wait" BY <3>3, <3>6
      <4>2. PICK q \in Procs : Mode(q) = k /\ npc[q] \in {"recheck", "commit", "swap"}
        BY <1>2, <4>1 DEF WaitInv
      <4> QED BY <1>3, <3>5, <4>2
    <3>7. ASSUME NEW k \in Modes, gpp'[k] \in Procs
          PROVE  npc'[gpp'[k]] = "parked" /\ Mode(gpp[k])' = k
      <4>1. gpp'[k] = gpp[k] BY <3>3, <3>7
      <4>2. PICK q \in Procs : q = gpp[k] BY <3>7, <4>1
      <4>3. npc[q] = "parked" /\ Mode(q) = k BY <1>2, <4>2 DEF WaitInv
      <4>4. npc'[q] = "parked" /\ Mode(q)' = k BY <1>3, <3>5, <4>3
      <4> QED BY <4>1, <4>2, <4>4 DEF Mode
    <3>8. ASSUME NEW q \in Procs, q = gpp[m]
          PROVE  npc[q] = "parked" /\ Mode(q) = m /\ \A b \in Actors : q \notin wake[b]
      BY <1>2, <1>5, <3>8 DEF WaitInv
    <3>9. ASSUME NEW b \in Actors, NEW q \in wake'[b]
          PROVE  npc'[q] = "parked" /\ gpp'[Mode(q)'] # q
      <4>1. CASE q \in wake[b]
        <5>1. q \in Procs /\ npc[q] = "parked" /\ gpp[Mode(q)] # q BY <1>2, <4>1 DEF WaitInv
        <5> QED BY <1>3, <3>3, <3>5, <5>1
      <4>2. CASE q = gpp[m] /\ q \in Procs BY <1>3, <3>3, <3>5, <3>8, <4>2
      <4> QED BY <3>4, <3>9, <4>1, <4>2
    <3>10. \A b, d \in Actors : \A q \in Procs : q \in wake'[b] /\ q \in wake'[d] => b = d
      BY <1>2, <3>4, <3>8 DEF WaitInv
    <3>11. \A k \in Modes : gpp'[k] \in Procs => npc'[gpp'[k]] = "parked" /\ Mode(gpp[k])' = k
      BY <3>7
    <3>12. WaitInv'
      BY <3>6, <3>9, <3>10, <3>11 DEF WaitInv
    <3> QED BY <3>1, <3>2, <3>12
  <2> QED BY <1>9, <2>1, <2>2
<1>11. TimerInv'
  <2>1. ASSUME NEW c \in Callbacks, todo'[c] = << >>
        PROVE  todo[c] = << >> \/ fired[c] = Stopped
    <3>1. CASE c = a
      <4>0. UW # << >> /\ EWUW # << >> BY Lists DEF Expiring
      <4>1. todo[a] \in {UR, UW} BY <1>4, <1>6, <2>1, <3>1, <4>0
      <4> QED BY <1>2, <3>1, <4>1 DEF LockInv, CallbackAt
    <3>2. CASE c # a BY <1>6, <2>1, <3>2 DEF Actors
    <3> QED BY <3>1, <3>2
  <2> QED BY <1>2, <1>3, <2>1, TimersStill
<1>12. LockInv'
  <2>1. ASSUME NEW b \in Procs \cup Callbacks, todo'[b] # << >> PROVE pdlock' = b
    <3>1. todo[b] # << >> BY <1>3, <1>6, <2>1 DEF Actors
    <3>2. pdlock = b BY <1>2, <3>1 DEF LockInv
    <3> QED BY <1>3, <2>1, <3>2
  <2>2. ASSUME NEW b \in Procs \cup {Poller} PROVE todo'[b] \in Unblocking
    <3>1. todo[b] \in Unblocking /\ b \in Actors BY <1>2 DEF LockInv, Actors
    <3>2. CASE b = a
      <4>1. UREWUW \notin Unblocking BY Lists DEF Expiring
      <4> QED BY <1>4, <1>6, <3>1, <3>2, <4>1 DEF Unblocking
    <3>3. CASE b # a BY <1>6, <3>1, <3>3
    <3> QED BY <3>2, <3>3
  <2>3. ASSUME NEW c \in Callbacks PROVE CallbackAt(c)'
    <3>0. CallbackAt(c) /\ c \in Actors BY <1>2 DEF LockInv, Actors
    <3>1. CASE c # a BY <1>3, <1>6, <3>0, <3>1, CallbackStill
    <3>2. CASE c = a /\ T = << >> BY <1>6, <3>2, CallbackEnds
    <3>3. CASE c = a /\ T # << >>
      <4>1. todo[c] = UREWUW /\ todo'[c] = EWUW BY <1>4, <1>6, <3>0, <3>3 DEF CallbackAt
      <4>2. /\ fired'[c].fn = << "r", "w" >> /\ ~run'["w"]
            /\ dl'["w"] > 0 /\ ~BothMode(dl)'
        BY <1>3, <3>0, <4>1 DEF CallbackAt, BothMode
      <4>3. \E i \in Modes : Matched(fired[c], i)'
        BY <1>3, <3>0, <4>1 DEF CallbackAt, Expiring, Matched
      <4>4. EWUW \notin {UR, UW, URW, ERUR, UREWUW, ERUREWUW}
        BY Lists DEF Unblocking, Expiring
      <4> QED BY <4>1, <4>2, <4>3, <4>4 DEF CallbackAt
    <3> QED BY <3>1, <3>2, <3>3
  <2> QED BY <2>1, <2>2, <2>3 DEF LockInv
<1>13. UNCHANGED << fdmuVars, local, csema, kernel, closing, run, seq >> BY <1>3
<1> QED BY <1>2, <1>3, <1>7, <1>8, <1>10, <1>11, <1>12, <1>13, Runtimes

(* What the invariant does not speak of. *)
LEMMA Elsewhere ==
  ASSUME IInv, UNCHANGED << fdmuVars, local, csema, sysfd >>,
         UNCHANGED << closing, dl, run, seq, timer, gpp, pdlock, npc, wake, fired, thrown >>,
         todo' \in [Actors -> Unblocking \cup Expiring],
         \A a \in Procs \cup Callbacks : todo'[a] = todo[a],
         todo'[Poller] \in Unblocking
  PROVE  IInv'
<1> USE DEF IInv
<1>1. UNCHANGED << refs, rwLocked, fdClosed, scene, after, fpc >>
  BY DEF fdmuVars, local
<1>2. \A q \in Procs : Same(q)
  BY <1>1 DEF Same, Holds, InLock, Closer, Destroys, Mode
<1>3. RefInv' /\ DestroyInv' /\ CloseInv' BY <1>1, <1>2, FdStill
<1>4. RoleInv' BY <1>1 DEF RoleInv, RoleAt, InLock
<1>5. TypeInv' BY <1>1 DEF TypeInv
<1>6. WaitInv' BY <1>1, WaitsStill
<1>7. TimerInv' BY TimersStill
<1>8. LockInv'
  <2>1. \A c \in Callbacks : CallbackAt(c)' BY CallbackStill DEF LockInv
  <2>2. \A a \in Procs \cup Callbacks : todo'[a] # << >> => pdlock' = a BY DEF LockInv
  <2>3. \A a \in Procs \cup {Poller} : todo'[a] \in Unblocking BY DEF LockInv
  <2> QED BY <2>1, <2>2, <2>3 DEF LockInv
<1> QED BY <1>3, <1>4, <1>5, <1>6, <1>7, <1>8

LEMMA EpollWaitInv ==
  ASSUME IInv, EpollWait, UNCHANGED << fdmuVars, local, csema, kernel >>
  PROVE  IInv'
BY Elsewhere DEF EpollWait, desc, kernel, IInv, TypeInv, LockInv

LEMMA NetpollReadyInv ==
  ASSUME IInv, NetpollReady, UNCHANGED << fdmuVars, local, csema, kernel >>
  PROVE  IInv'
<1>1. PICK T : T = IF fdseq = event.tag THEN Unblocks(event.modes) ELSE << >> OBVIOUS
<1>2. T \in Unblocking BY <1>1, UnblocksIs DEF Unblocking
<1>3. /\ todo' = [todo EXCEPT ![Poller] = T]
      /\ UNCHANGED << closing, dl, run, seq, timer, gpp, pdlock, npc, wake, fired, thrown >>
  BY <1>1 DEF NetpollReady, desc
<1>4. todo \in [Actors -> Unblocking \cup Expiring] BY DEF IInv, TypeInv
<1>5. todo' \in [Actors -> Unblocking \cup Expiring] BY <1>2, <1>3, <1>4
<1>6. /\ \A a \in Procs \cup Callbacks : todo'[a] = todo[a]
      /\ todo'[Poller] \in Unblocking
  BY <1>2, <1>3, <1>4 DEF Actors
<1> QED BY <1>3, <1>5, <1>6, Elsewhere DEF kernel

LEMMA ArriveInv == ASSUME IInv, NEW m \in Modes, Arrive(m) PROVE IInv'
BY Elsewhere DEF Arrive, desc, IInv, TypeInv, LockInv

LEMMA GoreadyInv ==
  ASSUME IInv, NEW a \in Actors, Goready(a), UNCHANGED << fdmuVars, local, csema, kernel >>
  PROVE  IInv'
<1>1. PICK g \in wake[a] :
        /\ npc' = [npc EXCEPT ![g] = "swap"]
        /\ wake' = [wake EXCEPT ![a] = @ \ {g}]
  BY DEF Goready
<1>2. UNCHANGED << closing, dl, run, seq, timer, gpp, pdlock, todo, fired, thrown >>
  BY DEF Goready, desc
<1>3. /\ npc \in [Procs -> NPCs] /\ wake \in [Actors -> SUBSET Procs] /\ WaitInv
      /\ TimerInv /\ LockInv /\ ~thrown /\ g \in Procs
  BY DEF IInv, TypeInv
<1>4. scene' = scene BY DEF local
<1>5. npc[g] = "parked" /\ gpp[Mode(g)] # g BY <1>3 DEF WaitInv
<1>6. npc'[g] = "swap" /\ \A q \in Procs : q # g => npc'[q] = npc[q] BY <1>1, <1>3
<1>7. npc' \in [Procs -> NPCs] BY <1>1, <1>3 DEF NPCs
<1>8. /\ g \notin wake'[a] /\ \A b \in Actors : wake'[b] \subseteq wake[b]
      /\ \A b \in Actors : b # a => g \notin wake[b]
      /\ wake' \in [Actors -> SUBSET Procs]
  <2>1. g \notin wake'[a] /\ \A b \in Actors : wake'[b] \subseteq wake[b] BY <1>1, <1>3
  <2>2. \A b \in Actors : b # a => g \notin wake[b] BY <1>3 DEF WaitInv
  <2>3. wake' \in [Actors -> SUBSET Procs] BY <1>1, <1>3
  <2> QED BY <2>1, <2>2, <2>3
<1>9. WaitInv'
  <2>1. \A q \in Procs : Mode(q)' = Mode(q) BY <1>4 DEF Mode
  <2>2. ASSUME NEW k \in Modes, gpp'[k] = "wait"
        PROVE  \E q \in Procs : Mode(q)' = k /\ npc'[q] \in {"recheck", "commit", "swap"}
    <3>1. PICK q \in Procs : Mode(q) = k /\ npc[q] \in {"recheck", "commit", "swap"}
      BY <1>2, <1>3, <2>2 DEF WaitInv
    <3> QED BY <1>5, <1>6, <2>1, <3>1
  <2>3. ASSUME NEW k \in Modes, gpp'[k] \in Procs
        PROVE  npc'[gpp'[k]] = "parked" /\ Mode(gpp[k])' = k
    <3>1. PICK q \in Procs : q = gpp[k] BY <1>2, <2>3
    <3>2. npc[q] = "parked" /\ Mode(q) = k BY <1>3, <3>1 DEF WaitInv
    <3>3. q # g BY <1>5, <3>1, <3>2
    <3>4. npc'[q] = "parked" /\ Mode(q)' = k BY <1>6, <2>1, <3>2, <3>3
    <3> QED BY <1>2, <3>1, <3>4 DEF Mode
  <2>4. ASSUME NEW b \in Actors, NEW q \in wake'[b]
        PROVE  npc'[q] = "parked" /\ gpp'[Mode(q)'] # q
    <3>1. q \in wake[b] /\ q \in Procs /\ npc[q] = "parked" /\ gpp[Mode(q)] # q
      BY <1>3, <1>8, <2>4 DEF WaitInv
    <3>2. q # g BY <1>8, <2>4
    <3> QED BY <1>2, <1>6, <2>1, <3>1, <3>2
  <2>5. \A b, d \in Actors : \A q \in Procs : q \in wake'[b] /\ q \in wake'[d] => b = d
    BY <1>3, <1>8 DEF WaitInv
  <2>6. \A k \in Modes : gpp'[k] \in Procs => npc'[gpp'[k]] = "parked" /\ Mode(gpp[k])' = k
    BY <2>3
  <2> QED BY <2>2, <2>4, <2>5, <2>6 DEF WaitInv
<1>10. TimerInv' /\ LockInv' BY <1>2, <1>3, TimersStill, LocksStill
<1>11. \A q \in Procs : npc'[q] = "out" <=> npc[q] = "out" BY <1>5, <1>6
<1>12. /\ pdlock' \in Actors \cup {Free} /\ dl' \in [Modes -> Int]
       /\ gpp' \in [Modes -> {"nil", "ready", "wait"} \cup Procs]
       /\ timer' \in [Modes -> Timers] /\ fired' \in [Callbacks -> Timers]
       /\ todo' \in [Actors -> Unblocking \cup Expiring]
  BY <1>2 DEF IInv, TypeInv
<1>13. UNCHANGED << fdmuVars, local, csema, kernel, closing, run, seq >> BY <1>2
<1>14. ~thrown' BY <1>2, <1>3
<1> QED BY <1>7, <1>8, <1>9, <1>10, <1>11, <1>12, <1>13, <1>14, Runtimes

-----------------------------------------------------------------------------
(* The timers.                                                                *)
LEMMA FireInv ==
  ASSUME IInv, NEW m \in Modes, NEW c \in Callbacks, Fire(m, c),
         UNCHANGED << fdmuVars, local, csema, kernel >>
  PROVE  IInv'
<1>1. /\ timer[m] # Stopped /\ fired[c] = Stopped /\ todo[c] = << >>
      /\ fired' = [fired EXCEPT ![c] = timer[m]]
      /\ timer' = [timer EXCEPT ![m] = Stopped]
      /\ UNCHANGED << closing, dl, run, seq, gpp, pdlock, npc, todo, wake, thrown >>
  BY DEF Fire
<1>2. /\ timer \in [Modes -> Timers] /\ fired \in [Callbacks -> Timers]
      /\ TimerInv /\ LockInv /\ WaitInv /\ ~thrown /\ npc \in [Procs -> NPCs]
  BY DEF IInv, TypeInv
<1>3. /\ fired'[c] = timer[m] /\ \A d \in Callbacks : d # c => fired'[d] = fired[d]
      /\ timer'[m] = Stopped /\ \A k \in Modes : k # m => timer'[k] = timer[k]
  BY <1>1, <1>2
<1>4. timer' \in [Modes -> Timers] /\ fired' \in [Callbacks -> Timers]
  BY <1>1, <1>2 DEF Timers
<1>5. timer[m].fn[1] = m /\ timer[m].seq <= seq[m] BY <1>1, <1>2 DEF TimerInv
<1>6. TimerInv'
  <2> USE DEF Matched
  <2>1. \A k \in Modes : timer'[k] # Stopped => timer'[k].fn[1] = k /\ timer'[k].seq <= seq'[k]
    BY <1>1, <1>2, <1>3 DEF TimerInv
  <2>2. \A d \in Callbacks : fired'[d] # Stopped => fired'[d].seq <= seq'[fired'[d].fn[1]]
    BY <1>1, <1>2, <1>3, <1>5 DEF TimerInv
  <2>3. \A i \in Modes : Matched(timer[i], i)' => run'[i]
    BY <1>1, <1>2, <1>3 DEF TimerInv
  <2>4. \A d \in Callbacks : \A i \in Modes : Matched(fired[d], i)' =>
          /\ run'[i]
          /\ d = c => Matched(timer[m], i) /\ i = m
          /\ d # c => Matched(fired[d], i)
    BY <1>1, <1>2, <1>3, <1>5 DEF TimerInv
  <2>5. \A i \in Modes : \A d \in Callbacks : ~ (Matched(timer[i], i)' /\ Matched(fired[d], i)')
    BY <1>1, <1>2, <1>3, <2>4 DEF TimerInv
  <2>6. \A d, e \in Callbacks : \A i \in Modes : Matched(fired[d], i)' /\ Matched(fired[e], i)' => d = e
    <3> HIDE DEF Matched
    <3>1. ASSUME NEW d \in Callbacks, NEW i \in Modes, d # c, Matched(fired[d], i)', Matched(fired[c], i)'
          PROVE  FALSE
      BY <1>2, <2>4, <3>1 DEF TimerInv
    <3>2. ASSUME NEW d \in Callbacks, NEW e \in Callbacks, NEW i \in Modes, d # c, e # c,
                 Matched(fired[d], i)', Matched(fired[e], i)'
          PROVE  d = e
      BY <1>2, <2>4, <3>2 DEF TimerInv
    <3> QED BY <3>1, <3>2
  <2>7. BothMode(dl)' => ~run'["w"] BY <1>1, <1>2 DEF TimerInv, BothMode
  <2>8. \A k \in Modes : Ahead(timer[k])'
    BY <1>1, <1>2, <1>3 DEF TimerInv, Ahead, BothMode
  <2>9. ASSUME NEW d \in Callbacks, todo'[d] = << >> PROVE Ahead(fired[d])'
    <3>1. CASE d = c BY <1>1, <1>2, <1>3, <3>1 DEF TimerInv, Ahead, BothMode
    <3>2. CASE d # c BY <1>1, <1>2, <1>3, <2>9, <3>2 DEF TimerInv, Ahead, BothMode
    <3> QED BY <3>1, <3>2
  <2> HIDE DEF Matched
  <2> QED BY <2>1, <2>2, <2>3, <2>4, <2>5, <2>6, <2>7, <2>8, <2>9 DEF TimerInv
<1>7. LockInv'
  <2>1. ASSUME NEW d \in Callbacks PROVE CallbackAt(d)'
    <3>1. CASE d = c BY <1>1, <3>1, CallbackEnds
    <3>2. CASE d # c BY <1>1, <1>2, <1>3, <3>2, CallbackStill DEF LockInv
    <3> QED BY <3>1, <3>2
  <2> QED BY <1>1, <1>2, <2>1 DEF LockInv
<1>8. WaitInv' BY <1>1, <1>2, WaitsStill DEF local
<1>9. /\ pdlock' \in Actors \cup {Free} /\ dl' \in [Modes -> Int] /\ npc' \in [Procs -> NPCs]
      /\ gpp' \in [Modes -> {"nil", "ready", "wait"} \cup Procs]
      /\ wake' \in [Actors -> SUBSET Procs]
      /\ todo' \in [Actors -> Unblocking \cup Expiring]
  BY <1>1 DEF IInv, TypeInv
<1>10. UNCHANGED << fdmuVars, local, csema, kernel, closing, run, seq >> BY <1>1
<1>11. (\A q \in Procs : npc'[q] = "out" <=> npc[q] = "out") /\ ~thrown' BY <1>1, <1>2
<1> QED BY <1>4, <1>6, <1>7, <1>8, <1>9, <1>10, <1>11, Runtimes

(* While nobody holds pd.lock there is nothing to do under it.                *)
LEMMA Unlocked ==
  ASSUME LockInv, pdlock = Free, NEW a \in Procs \cup Callbacks
  PROVE  todo[a] = << >>
BY DEF LockInv

LEMMA DeadlineInv ==
  ASSUME IInv, NEW c \in Callbacks, Deadline(c), UNCHANGED << fdmuVars, local, csema, kernel >>
  PROVE  IInv'
<1>1. /\ fired[c] # Stopped /\ todo[c] = << >> /\ pdlock = Free
      /\ UNCHANGED << closing, dl, run, seq, timer, gpp, npc, wake, thrown >>
  BY DEF Deadline, desc
<1>2. /\ timer \in [Modes -> Timers] /\ fired \in [Callbacks -> Timers]
      /\ todo \in [Actors -> Unblocking \cup Expiring] /\ pdlock \in Actors \cup {Free}
      /\ TimerInv /\ LockInv /\ WaitInv /\ ~thrown /\ npc \in [Procs -> NPCs]
      /\ c \in Actors
  BY DEF IInv, TypeInv, Actors
<1>3. /\ dl' \in [Modes -> Int] /\ npc' \in [Procs -> NPCs]
      /\ gpp' \in [Modes -> {"nil", "ready", "wait"} \cup Procs]
      /\ wake' \in [Actors -> SUBSET Procs] /\ timer' \in [Modes -> Timers]
  BY <1>1 DEF IInv, TypeInv
<1>4. WaitInv' BY <1>1, <1>2, WaitsStill DEF local
<1>5. (\A q \in Procs : npc'[q] = "out" <=> npc[q] = "out") /\ ~thrown' BY <1>1, <1>2
<1>6. UNCHANGED << fdmuVars, local, csema, kernel, closing, run, seq >> BY <1>1
<1>7. CASE fired[c].seq # seq[fired[c].fn[1]]
  <2>1. fired' = [fired EXCEPT ![c] = Stopped] /\ UNCHANGED << pdlock, todo >>
    BY <1>7 DEF Deadline
  <2>2. fired'[c] = Stopped /\ \A d \in Callbacks : d # c => fired'[d] = fired[d]
    BY <1>2, <2>1
  <2>3. fired' \in [Callbacks -> Timers] BY <1>2, <2>1 DEF Timers
  <2>4. TimerInv'
    <3>1. \A d \in Callbacks : \A i \in Modes : Matched(fired[d], i)' => d # c /\ Matched(fired[d], i)
      BY <1>1, <2>2 DEF Matched
    <3>2. \A i \in Modes : Matched(timer[i], i)' <=> Matched(timer[i], i)
      BY <1>1 DEF Matched
    <3>3. \A d \in Callbacks : fired'[d] # Stopped => fired'[d].seq <= seq'[fired'[d].fn[1]]
      BY <1>1, <1>2, <2>2 DEF TimerInv
    <3>4. \A k \in Modes : Ahead(timer[k])' BY <1>1, <1>2 DEF TimerInv, Ahead, Matched, BothMode
    <3>5. \A d \in Callbacks : todo'[d] = << >> => Ahead(fired[d])'
      BY <1>1, <1>2, <2>1, <2>2 DEF TimerInv, Ahead, Matched, BothMode
    <3>6. BothMode(dl)' => ~run'["w"] BY <1>1, <1>2 DEF TimerInv, BothMode
    <3> QED BY <1>1, <1>2, <3>1, <3>2, <3>3, <3>4, <3>5, <3>6 DEF TimerInv
  <2>5. LockInv'
    <3>1. ASSUME NEW d \in Callbacks PROVE CallbackAt(d)'
      <4>1. todo'[d] = << >> BY <1>1, <1>2, <2>1, Unlocked
      <4> QED BY <4>1, CallbackEnds
    <3> QED BY <1>2, <2>1, <3>1 DEF LockInv
  <2>6. pdlock' \in Actors \cup {Free} /\ todo' \in [Actors -> Unblocking \cup Expiring]
    BY <1>2, <2>1
  <2> QED BY <1>3, <1>4, <1>5, <1>6, <2>3, <2>4, <2>5, <2>6, Runtimes
<1>8. CASE fired[c].seq = seq[fired[c].fn[1]]
  <2>0. PICK T : T = Expires(fired[c].fn) OBVIOUS
  <2>1. pdlock' = c /\ todo' = [todo EXCEPT ![c] = T] /\ fired' = fired
    BY <1>8, <2>0 DEF Deadline
  <2>2. todo'[c] = T /\ \A d \in Actors : d # c => todo'[d] = todo[d] BY <1>2, <2>1
  <2>3. fired[c].fn \in Fns /\ fired[c].fn[1] \in Modes BY <1>1, <1>2, TimerFacts
  <2>4. PICK i \in Modes : i = fired[c].fn[1] BY <2>3
  <2>5. Matched(fired[c], i) BY <1>1, <1>8, <2>4 DEF Matched
  <2>6. (fired[c].fn = << "r", "w" >> <=> BothMode(dl)) /\ dl[i] > 0
    BY <1>1, <1>2, <2>5 DEF TimerInv, Ahead
  <2>7. \/ fired[c].fn = << "r" >> /\ T = ERUR /\ dl["r"] > 0 /\ ~BothMode(dl)
        \/ fired[c].fn = << "w" >> /\ T = EWUW /\ dl["w"] > 0 /\ ~BothMode(dl)
        \/ /\ fired[c].fn = << "r", "w" >> /\ T = ERUREWUW /\ ~run["w"]
           /\ dl["r"] > 0 /\ dl["w"] > 0
    <3>1. CASE fired[c].fn = << "r" >>
      <4>1. T = ERUR BY <2>0, <3>1, ExpiresIs
      <4>2. i = "r" BY <2>4, <3>1, Functions
      <4>3. ~BothMode(dl) BY <2>6, <3>1, Functions
      <4> QED BY <2>6, <3>1, <4>1, <4>2, <4>3
    <3>2. CASE fired[c].fn = << "w" >>
      <4>1. T = EWUW BY <2>0, <3>2, ExpiresIs
      <4>2. i = "w" BY <2>4, <3>2, Functions
      <4>3. ~BothMode(dl) BY <2>6, <3>2, Functions
      <4> QED BY <2>6, <3>2, <4>1, <4>2, <4>3
    <3>3. CASE fired[c].fn = << "r", "w" >>
      <4>1. T = ERUREWUW BY <2>0, <3>3, ExpiresIs
      <4>2. i = "r" BY <2>4, <3>3, Functions
      <4>3. BothMode(dl) BY <2>6, <3>3
      <4>4. ~run["w"] BY <1>2, <4>3 DEF TimerInv
      <4>5. dl["w"] > 0 BY <2>6, <4>2, <4>3 DEF BothMode
      <4> QED BY <2>6, <3>3, <4>1, <4>2, <4>4, <4>5
    <3> QED BY <2>3, <3>1, <3>2, <3>3 DEF Fns
  <2>8. T \in Expiring BY <2>7 DEF Expiring
  <2>9. pdlock' \in Actors \cup {Free} /\ todo' \in [Actors -> Unblocking \cup Expiring]
    BY <1>2, <2>1, <2>8
  <2>10. fired' \in [Callbacks -> Timers] BY <1>2, <2>1
  <2>11. TimerInv'
    <3>1. \A d \in Callbacks : todo'[d] = << >> => todo[d] = << >>
      BY <2>2, <2>8, Lists DEF Actors
    <3> QED BY <1>1, <1>2, <2>1, <3>1, TimersStill
  <2>12. LockInv'
    <3>1. ASSUME NEW d \in Callbacks PROVE CallbackAt(d)'
      <4>1. CASE d # c
        <5>1. todo'[d] = << >> BY <1>1, <1>2, <2>2, <4>1, Unlocked DEF Actors
        <5> QED BY <5>1, CallbackEnds
      <4>2. CASE d = c
        <5>1. /\ todo'[d] = T /\ fired'[d] = fired[d]
              /\ UNCHANGED << dl, run, seq >> /\ Matched(fired[d], i)
          BY <1>1, <2>1, <2>2, <2>5, <4>2
        <5>2. Matched(fired[d], i)' BY <5>1 DEF Matched
        <5>3. BothMode(dl)' = BothMode(dl) BY <5>1 DEF BothMode
        <5>4. T \notin {<< >>, UR, UW, URW, UREWUW}
          BY <2>7, Lists DEF Unblocking, Expiring
        <5>5. /\ T = ERUR => T # EWUW /\ T # ERUREWUW /\ fired[d].fn = << "r" >> /\ dl["r"] > 0 /\ ~BothMode(dl)
              /\ T = EWUW => T # ERUREWUW /\ fired[d].fn = << "w" >> /\ dl["w"] > 0 /\ ~BothMode(dl)
              /\ T = ERUREWUW => /\ fired[d].fn = << "r", "w" >> /\ ~run["w"]
                                 /\ dl["r"] > 0 /\ dl["w"] > 0
          BY <2>7, <4>2, Lists
        <5> QED BY <5>1, <5>2, <5>3, <5>4, <5>5 DEF CallbackAt
      <4> QED BY <4>1, <4>2
    <3>2. ASSUME NEW b \in Procs \cup Callbacks, todo'[b] # << >> PROVE pdlock' = b
      <4>1. todo[b] = << >> BY <1>1, <1>2, Unlocked
      <4>2. b = c BY <2>2, <3>2, <4>1 DEF Actors
      <4> QED BY <2>1, <4>2
    <3>3. ASSUME NEW b \in Procs \cup {Poller} PROVE todo'[b] \in Unblocking
      <4>1. b # c /\ b \in Actors BY DEF Actors
      <4> QED BY <1>2, <2>2, <4>1 DEF LockInv
    <3> QED BY <3>1, <3>2, <3>3 DEF LockInv
  <2> QED BY <1>3, <1>4, <1>5, <1>6, <2>9, <2>10, <2>11, <2>12, Runtimes
<1> QED BY <1>7, <1>8

LEMMA ExpireInv ==
  ASSUME IInv, NEW c \in Callbacks, Expire(c), UNCHANGED << fdmuVars, local, csema, kernel >>
  PROVE  IInv'
<1>1. PICK m, T, n : m = Head(todo[c])[2] /\ T = Tail(todo[c]) /\ n = Len(todo[c]) OBVIOUS
<1>2. /\ timer \in [Modes -> Timers] /\ fired \in [Callbacks -> Timers]
      /\ todo \in [Actors -> Unblocking \cup Expiring] /\ pdlock \in Actors \cup {Free}
      /\ TimerInv /\ LockInv /\ WaitInv /\ ~thrown /\ npc \in [Procs -> NPCs]
      /\ dl \in [Modes -> Int] /\ run \in [Modes -> BOOLEAN]
      /\ c \in Actors
  BY DEF IInv, TypeInv, Actors
<1>3. /\ todo[c] # << >> /\ Head(todo[c])[1] = "expire"
      /\ dl' = [dl EXCEPT ![m] = -1] /\ todo' = [todo EXCEPT ![c] = T]
      /\ fired' = IF n = 2 THEN [fired EXCEPT ![c] = Stopped] ELSE fired
      /\ UNCHANGED << closing, run, seq, timer, gpp, pdlock, npc, wake >>
  BY <1>1 DEF Expire
<1>4. \/ todo[c] = ERUR /\ m = "r" /\ T = UR /\ n = 2
      \/ todo[c] = EWUW /\ m = "w" /\ T = UW /\ n = 2
      \/ todo[c] = ERUREWUW /\ m = "r" /\ T = UREWUW /\ n = 4
  <2>1. todo[c] \in {UR, UW, URW, ERUR, EWUW, UREWUW, ERUREWUW}
    BY <1>2, <1>3 DEF Unblocking, Expiring
  <2>2. todo[c] \notin {UR, UW, URW, UREWUW} BY <1>3, Heads, Pairs
  <2> QED BY <1>1, <2>1, <2>2, Heads, Pairs
<1>5. m \in Modes BY <1>4 DEF Modes
<1>6. todo'[c] = T /\ \A b \in Actors : b # c => todo'[b] = todo[b] BY <1>2, <1>3
<1>7. /\ n = 2 => fired'[c] = Stopped
      /\ n # 2 => fired'[c] = fired[c]
      /\ \A d \in Callbacks : d # c => fired'[d] = fired[d]
      /\ fired' \in [Callbacks -> Timers]
  <2>1. CASE n = 2
    <3>1. fired' = [fired EXCEPT ![c] = Stopped] BY <1>3, <2>1
    <3>2. fired'[c] = Stopped /\ \A d \in Callbacks : d # c => fired'[d] = fired[d] BY <1>2, <3>1
    <3>3. fired' \in [Callbacks -> Timers] BY <1>2, <3>1 DEF Timers
    <3> QED BY <2>1, <3>2, <3>3
  <2>2. CASE n # 2 BY <1>2, <1>3, <2>2
  <2> QED BY <2>1, <2>2
<1>8. /\ dl'[m] = -1 /\ \A k \in Modes : k # m => dl'[k] = dl[k]
      /\ dl' \in [Modes -> Int]
  BY <1>2, <1>3, <1>5
<1>9. ~BothMode(dl)'
  <2>1. ~BothMode(dl') BY <1>4, <1>8 DEF BothMode, Modes
  <2> QED BY <2>1 DEF BothMode
<1>10. CallbackAt(c) BY <1>2 DEF LockInv
<1>11. PICK i \in Modes : Matched(fired[c], i) BY <1>4, <1>10 DEF CallbackAt, Expiring
<1>12. run[i] /\ fired[c].fn[1] = i BY <1>2, <1>11 DEF TimerInv, Matched
(* What else is not stale: only what is for the other mode, by itself.        *)
<1>13. /\ dl[m] > 0
       /\ \/ fired[c].fn = << "r", "w" >> /\ ~run["w"] /\ i = "r"
          \/ fired[c].fn = << m >> /\ i = m /\ ~BothMode(dl)
  <2>1. CASE todo[c] = ERUR
    <3>1. m = "r" BY <1>4, <2>1, Lists
    <3>2. fired[c].fn = << "r" >> /\ dl["r"] > 0 /\ ~BothMode(dl) BY <1>10, <2>1 DEF CallbackAt
    <3>3. i = "r" BY <1>12, <3>2, Functions
    <3> QED BY <3>1, <3>2, <3>3
  <2>2. CASE todo[c] = EWUW
    <3>1. m = "w" BY <1>4, <2>2, Lists
    <3>2. /\ dl["w"] > 0 /\ ~BothMode(dl)
          /\ \/ fired[c].fn = << "r", "w" >> /\ ~run["w"]
             \/ fired[c].fn = << "w" >>
      BY <1>10, <2>2 DEF CallbackAt
    <3>3. fired[c].fn = << "w" >> => i = "w" BY <1>12, Functions
    <3>4. fired[c].fn = << "r", "w" >> => i = "r" BY <1>12, Functions
    <3> QED BY <3>1, <3>2, <3>3, <3>4
  <2>3. CASE todo[c] = ERUREWUW
    <3>1. m = "r" BY <1>4, <2>3, Lists
    <3>2. fired[c].fn = << "r", "w" >> /\ ~run["w"] /\ dl["r"] > 0
      BY <1>10, <2>3 DEF CallbackAt
    <3>3. i = "r" BY <1>12, <3>2, Functions
    <3> QED BY <3>1, <3>2, <3>3
  <2> QED BY <1>4, <2>1, <2>2, <2>3
<1>14. ~thrown'
  <2>1. PICK F : F = {fired[c].fn[j] : j \in DOMAIN fired[c].fn} OBVIOUS
  <2>2. thrown' = (thrown \/ dl[m] <= 0 \/ (~run[m] /\ ~(m = "w" /\ "r" \in F)))
    BY <1>1, <2>1 DEF Expire
  <2>3. ~(dl[m] <= 0) BY <1>2, <1>5, <1>13
  <2>4. CASE fired[c].fn = << "r", "w" >>
    <3>1. F = {"r", "w"} BY <2>1, <2>4, Functions
    <3>2. i = "r" BY <1>12, <2>4, Functions
    <3> QED BY <1>2, <1>4, <1>12, <2>2, <2>3, <3>1, <3>2
  <2>5. CASE i = m BY <1>2, <1>12, <2>2, <2>3, <2>5
  <2> QED BY <1>13, <2>4, <2>5
<1>15. ASSUME NEW k \in Modes, run[k], k # i
       PROVE  ~BothMode(dl) /\ k # m
  <2>1. CASE fired[c].fn = << "r", "w" >> /\ ~run["w"] /\ i = "r"
    BY <1>15, <2>1 DEF Modes
  <2>2. CASE fired[c].fn = << m >> /\ i = m /\ ~BothMode(dl)
    BY <1>15, <2>2
  <2> QED BY <1>13, <2>1, <2>2
<1>16. ASSUME NEW t, NEW k \in Modes, Matched(t, k), run[k], k # i, Ahead(t)
       PROVE  (t.fn = << "r", "w" >> <=> BothMode(dl)') /\ dl'[k] > 0
  <2>1. ~BothMode(dl) /\ k # m BY <1>15, <1>16
  <2>2. (t.fn = << "r", "w" >> <=> BothMode(dl)) /\ dl[k] > 0 BY <1>16 DEF Ahead
  <2> QED BY <1>8, <1>9, <2>1, <2>2
<1>17. TimerInv'
  <2>1. \A k \in Modes : Matched(timer[k], k)' <=> Matched(timer[k], k)
    BY <1>3 DEF Matched
  <2>2. \A d \in Callbacks : \A k \in Modes : Matched(fired[d], k)' => Matched(fired[d], k)
    <3> SUFFICES ASSUME NEW d \in Callbacks, NEW k \in Modes, Matched(fired[d], k)'
                 PROVE  Matched(fired[d], k)
      OBVIOUS
    <3>1. CASE d = c /\ n = 2 BY <1>7, <3>1 DEF Matched
    <3>2. CASE ~ (d = c /\ n = 2)
      <4>1. fired'[d] = fired[d] BY <1>7, <3>2
      <4> QED BY <1>3, <4>1 DEF Matched
    <3> QED BY <3>1, <3>2
  <2>3. \A d \in Callbacks : fired'[d] # Stopped => fired'[d].seq <= seq'[fired'[d].fn[1]]
    <3> SUFFICES ASSUME NEW d \in Callbacks, fired'[d] # Stopped
                 PROVE  fired'[d].seq <= seq'[fired'[d].fn[1]]
      OBVIOUS
    <3>1. fired'[d] = fired[d] BY <1>7
    <3> QED BY <1>2, <1>3, <3>1 DEF TimerInv
  <2>4. ASSUME NEW k \in Modes PROVE Ahead(timer[k])'
    <3> SUFFICES ASSUME NEW j \in Modes, Matched(timer[k], j)'
                 PROVE  (timer'[k].fn = << "r", "w" >> <=> BothMode(dl)') /\ dl'[j] > 0
      BY DEF Ahead
    <3>1. timer'[k] = timer[k] /\ Matched(timer[k], j) BY <1>3 DEF Matched
    <3>2. j = k BY <1>2, <3>1 DEF TimerInv, Matched
    <3>3. run[k] /\ k # i BY <1>2, <1>11, <3>1, <3>2 DEF TimerInv
    <3>4. Ahead(timer[k]) BY <1>2 DEF TimerInv
    <3> QED BY <1>16, <3>1, <3>2, <3>3, <3>4
  <2>5. ASSUME NEW d \in Callbacks, todo'[d] = << >> PROVE Ahead(fired[d])'
    <3> SUFFICES ASSUME NEW j \in Modes, Matched(fired[d], j)'
                 PROVE  (fired'[d].fn = << "r", "w" >> <=> BothMode(dl)') /\ dl'[j] > 0
      BY DEF Ahead
    <3>0. T # << >> BY <1>4, Lists DEF Expiring
    <3>1. d # c BY <1>6, <2>5, <3>0
    <3>2. fired'[d] = fired[d] /\ todo[d] = << >> BY <1>6, <1>7, <2>5, <3>1 DEF Actors
    <3>3. Matched(fired[d], j) BY <2>2
    <3>4. j # i BY <1>2, <1>11, <3>1, <3>3 DEF TimerInv
    <3>5. run[j] /\ Ahead(fired[d]) BY <1>2, <3>2, <3>3 DEF TimerInv
    <3> QED BY <1>16, <3>2, <3>3, <3>4, <3>5
  <2>6. /\ \A k \in Modes : timer'[k] # Stopped => timer'[k].fn[1] = k /\ timer'[k].seq <= seq'[k]
        /\ \A k \in Modes : Matched(timer[k], k)' => run'[k]
        /\ \A d \in Callbacks : \A k \in Modes : Matched(fired[d], k)' => run'[k]
        /\ \A k \in Modes : \A d \in Callbacks : ~ (Matched(timer[k], k)' /\ Matched(fired[d], k)')
    BY <1>2, <1>3, <2>1, <2>2 DEF TimerInv
  <2>7. \A d, e \in Callbacks : \A k \in Modes : Matched(fired[d], k)' /\ Matched(fired[e], k)' => d = e
    BY <1>2, <2>2 DEF TimerInv
  <2> QED BY <1>9, <2>3, <2>4, <2>5, <2>6, <2>7 DEF TimerInv
<1>18. LockInv'
  <2>0. pdlock = c BY <1>2, <1>3 DEF LockInv
  <2>1. ASSUME NEW d \in Callbacks PROVE CallbackAt(d)'
    <3>1. CASE d # c
      <4>1. todo[d] = << >> BY <1>2, <2>0, <3>1 DEF LockInv
      <4>2. todo'[d] = << >> BY <1>6, <3>1, <4>1 DEF Actors
      <4> QED BY <4>2, CallbackEnds
    <3>2. CASE d = c /\ T \in {UR, UW}
      <4>1. n = 2 BY <1>4, <3>2, Lists DEF Unblocking, Expiring
      <4> QED BY <1>6, <1>7, <3>2, <4>1, CallbackEnds
    <3>3. CASE d = c /\ T \notin {UR, UW}
      <4>1. todo[c] = ERUREWUW /\ m = "r" /\ T = UREWUW /\ n = 4 BY <1>4, <3>3
      <4>2. /\ fired[c].fn = << "r", "w" >> /\ ~run["w"] /\ dl["w"] > 0
        BY <1>10, <4>1 DEF CallbackAt
      <4>3. /\ fired'[c] = fired[c] /\ todo'[c] = UREWUW /\ dl'["w"] = dl["w"]
        BY <1>6, <1>7, <1>8, <4>1 DEF Modes
      <4>4. Matched(fired[c], i)' BY <1>3, <1>11, <4>3 DEF Matched
      <4>5. UREWUW \notin {UR, UW, URW, ERUR, EWUW, ERUREWUW}
        BY Lists DEF Unblocking, Expiring
      <4> QED BY <1>3, <1>9, <3>3, <4>2, <4>3, <4>4, <4>5 DEF CallbackAt
    <3> QED BY <3>1, <3>2, <3>3
  <2>2. ASSUME NEW b \in Procs \cup Callbacks, todo'[b] # << >> PROVE pdlock' = b
    <3>1. b # c => todo'[b] = todo[b] BY <1>6 DEF Actors
    <3> QED BY <1>2, <1>3, <2>0, <2>2, <3>1 DEF LockInv
  <2>3. ASSUME NEW b \in Procs \cup {Poller} PROVE todo'[b] \in Unblocking
    <3>1. b # c /\ b \in Actors BY DEF Actors
    <3> QED BY <1>2, <1>6, <3>1 DEF LockInv
  <2> QED BY <2>1, <2>2, <2>3 DEF LockInv
<1>19. /\ npc' \in [Procs -> NPCs] /\ pdlock' \in Actors \cup {Free}
       /\ gpp' \in [Modes -> {"nil", "ready", "wait"} \cup Procs]
       /\ wake' \in [Actors -> SUBSET Procs] /\ timer' \in [Modes -> Timers]
  BY <1>3 DEF IInv, TypeInv
<1>20. todo' \in [Actors -> Unblocking \cup Expiring]
  <2>1. T \in Unblocking \cup Expiring BY <1>4 DEF Unblocking, Expiring
  <2> QED BY <1>2, <1>3, <2>1
<1>21. WaitInv' BY <1>2, <1>3, WaitsStill DEF local
<1>22. \A q \in Procs : npc'[q] = "out" <=> npc[q] = "out" BY <1>3
<1>23. UNCHANGED << fdmuVars, local, csema, kernel, closing, run, seq >> BY <1>3
<1> QED BY <1>7, <1>8, <1>14, <1>17, <1>18, <1>19, <1>20, <1>21, <1>22, <1>23, Runtimes

(* Nothing is done under pd.lock any more, or not yet but by the one that     *)
(* takes it, which has netpollunblock to do.                                  *)
LEMMA LockTaken ==
  ASSUME LockInv, pdlock = Free, NEW p \in Procs, todo \in [Actors -> Unblocking \cup Expiring],
         NEW T \in Unblocking, todo' = [todo EXCEPT ![p] = T],
         pdlock' = IF todo'[p] = << >> THEN Free ELSE p
  PROVE  /\ LockInv' /\ todo' \in [Actors -> Unblocking \cup Expiring]
         /\ pdlock' \in Actors \cup {Free}
         /\ \A c \in Callbacks : todo[c] = << >>
<1>1. p \in Actors BY DEF Actors
<1>2. todo'[p] = T /\ \A b \in Actors : b # p => todo'[b] = todo[b] BY <1>1
<1>3. \A b \in Procs \cup Callbacks : todo[b] = << >> BY Unlocked
<1>4. ASSUME NEW c \in Callbacks PROVE CallbackAt(c)'
  <2>1. todo'[c] = << >> BY <1>2, <1>3 DEF Actors
  <2> QED BY <2>1, CallbackEnds
<1>5. ASSUME NEW b \in Procs \cup Callbacks, todo'[b] # << >> PROVE pdlock' = b
  <2>1. b = p BY <1>2, <1>3, <1>5 DEF Actors
  <2> QED BY <1>5, <2>1
<1>6. ASSUME NEW b \in Procs \cup {Poller} PROVE todo'[b] \in Unblocking
  BY <1>2 DEF LockInv, Actors
<1>7. pdlock' \in Actors \cup {Free} BY <1>1
<1> QED BY <1>3, <1>4, <1>5, <1>6, <1>7 DEF LockInv

(* A deadline changes: a timer that runs goes on if nothing changes for it,   *)
(* and is stale otherwise.  keep and arm say what becomes of the timers.      *)
Changes(new, combo, keep, arm, fn) ==
  /\ new \in [Modes -> Int] /\ keep \in [Modes -> BOOLEAN] /\ arm \in [Modes -> BOOLEAN]
  /\ combo = BothMode(new)
  /\ \A m \in Modes : keep[m] <=> run[m] /\ new[m] = dl[m] /\ combo = BothMode(dl)
  /\ \A m \in Modes : arm[m] <=> new[m] > 0 /\ (m = "r" \/ ~combo)
  /\ fn = [m \in Modes |-> IF combo THEN << "r", "w" >> ELSE << m >>]
  /\ dl' = new
  /\ seq' = [m \in Modes |-> IF run[m] /\ ~keep[m] THEN seq[m] + 1 ELSE seq[m]]
  /\ run' = [m \in Modes |-> keep[m] \/ arm[m]]
  /\ timer' = [m \in Modes |->
       IF keep[m] THEN timer[m]
       ELSE IF arm[m] THEN [fn |-> fn[m], seq |-> seq'[m]] ELSE Stopped]

LEMMA DeadlineChanges ==
  ASSUME TypeInv, TimerInv, NEW new, NEW combo, NEW keep, NEW arm, NEW fn,
         Changes(new, combo, keep, arm, fn),
         fired' = fired, \A c \in Callbacks : todo[c] = << >>
  PROVE  TimerInv' /\ seq' \in [Modes -> Nat] /\ run' \in [Modes -> BOOLEAN]
         /\ timer' \in [Modes -> Timers]
<1> USE DEF Changes
<1>1. /\ timer \in [Modes -> Timers] /\ fired \in [Callbacks -> Timers]
      /\ seq \in [Modes -> Nat] /\ run \in [Modes -> BOOLEAN] /\ dl \in [Modes -> Int]
  BY DEF TypeInv
<1>2. ASSUME NEW m \in Modes
      PROVE  /\ seq'[m] \in Nat /\ seq[m] <= seq'[m]
             /\ keep[m] => seq'[m] = seq[m]
             /\ seq'[m] = seq[m] /\ run[m] => keep[m]
             /\ run'[m] <=> keep[m] \/ arm[m]
             /\ keep[m] => timer'[m] = timer[m] /\ new[m] = dl[m] /\ combo = BothMode(dl)
             /\ ~keep[m] /\ arm[m] => timer'[m] = [fn |-> fn[m], seq |-> seq'[m]]
             /\ ~keep[m] /\ ~arm[m] => timer'[m] = Stopped
  <2>1. seq'[m] = IF run[m] /\ ~keep[m] THEN seq[m] + 1 ELSE seq[m] OBVIOUS
  <2>2. run'[m] = (keep[m] \/ arm[m]) BY Zenon
  <2>3. timer'[m] = IF keep[m] THEN timer[m]
                   ELSE IF arm[m] THEN [fn |-> fn[m], seq |-> seq'[m]] ELSE Stopped
    BY Zenon
  <2>4. seq[m] \in Nat BY <1>1
  <2>5. /\ seq'[m] \in Nat /\ seq[m] <= seq'[m]
        /\ keep[m] => seq'[m] = seq[m]
        /\ seq'[m] = seq[m] /\ run[m] => keep[m]
    BY <2>1, <2>4
  <2>6. /\ keep[m] => timer'[m] = timer[m]
        /\ ~keep[m] /\ arm[m] => timer'[m] = [fn |-> fn[m], seq |-> seq'[m]]
        /\ ~keep[m] /\ ~arm[m] => timer'[m] = Stopped
    BY <2>3, Zenon
  <2>7. keep[m] => new[m] = dl[m] /\ combo = BothMode(dl) OBVIOUS
  <2>8. run'[m] <=> keep[m] \/ arm[m] BY <2>2
  <2> QED BY <2>5, <2>6, <2>7, <2>8
<1>3. ASSUME NEW m \in Modes, arm[m]
      PROVE  /\ fn[m] \in Fns /\ fn[m][1] = m /\ (fn[m] = << "r", "w" >> <=> combo)
             /\ new[m] > 0
  <2>1. CASE combo
    <3>1. m = "r" /\ fn[m] = << "r", "w" >> BY <1>3, <2>1
    <3> QED BY <1>3, <2>1, <3>1, Functions DEF Fns
  <2>2. CASE ~combo
    <3>1. fn[m] = << m >> BY <1>3, <2>2
    <3>2. m = "r" \/ m = "w" BY DEF Modes
    <3> QED BY <1>3, <2>2, <3>1, <3>2, Functions DEF Fns
  <2> QED BY <2>1, <2>2
<1>4. ASSUME NEW m \in Modes, ~keep[m], arm[m]
      PROVE  /\ timer'[m] # Stopped /\ timer'[m] \in Timers /\ timer'[m].fn = fn[m]
             /\ timer'[m].seq = seq'[m]
  <2>1. fn[m] \in Fns /\ seq'[m] \in Nat BY <1>2, <1>3, <1>4
  <2>2. PICK f, s : f = fn[m] /\ s = seq'[m] OBVIOUS
  <2>3. [fn |-> f, seq |-> s] \in Timers /\ [fn |-> f, seq |-> s] # Stopped
    BY <2>1, <2>2, NewTimer
  <2>4. timer'[m] = [fn |-> f, seq |-> s] BY <1>2, <1>4, <2>2
  <2>5. ASSUME NEW t, t = [fn |-> f, seq |-> s] PROVE t.fn = f /\ t.seq = s BY <2>5
  <2>6. timer'[m].fn = f /\ timer'[m].seq = s BY <2>4, <2>5
  <2> QED BY <2>2, <2>3, <2>4, <2>6
<1>5. timer' \in [Modes -> Timers]
  <2>1. \A m \in Modes : timer'[m] \in Timers BY <1>1, <1>2, <1>4 DEF Timers
  <2> QED BY <2>1
<1>6. run' \in [Modes -> BOOLEAN]
  <2>1. \A m \in Modes : (keep[m] \/ arm[m]) \in BOOLEAN BY Zenon
  <2> QED BY <2>1
<1>7. seq' \in [Modes -> Nat] BY <1>1
<1>8. \A m \in Modes : timer'[m] # Stopped => timer'[m].fn[1] = m /\ timer'[m].seq <= seq'[m]
  <2> SUFFICES ASSUME NEW m \in Modes, timer'[m] # Stopped
               PROVE  timer'[m].fn[1] = m /\ timer'[m].seq <= seq'[m]
    OBVIOUS
  <2>1. CASE keep[m]
    <3>1. timer'[m] = timer[m] /\ seq'[m] = seq[m] BY <1>2, <2>1
    <3> QED BY <3>1 DEF TimerInv
  <2>2. CASE ~keep[m] /\ arm[m]
    <3>1. timer'[m].fn[1] = m BY <1>3, <1>4, <2>2
    <3>2. timer'[m].seq = seq'[m] /\ seq'[m] \in Nat BY <1>2, <1>4, <2>2
    <3> QED BY <3>1, <3>2
  <2> QED BY <1>2, <2>1, <2>2
<1>9. ASSUME NEW c \in Callbacks, fired'[c] # Stopped PROVE fired'[c].seq <= seq'[fired'[c].fn[1]]
  <2>1. /\ fired[c].seq \in Nat /\ fired[c].fn[1] \in Modes /\ fired[c].seq <= seq[fired[c].fn[1]]
        /\ fired'[c] = fired[c]
    BY <1>1, <1>9, TimerFacts DEF TimerInv
  <2>2. PICK k \in Modes : k = fired[c].fn[1] BY <2>1
  <2>3. fired[c].seq <= seq[k] /\ seq[k] \in Nat /\ seq[k] <= seq'[k] /\ seq'[k] \in Nat
    BY <1>1, <1>2, <2>1, <2>2
  <2>4. fired[c].seq <= seq'[k] BY <2>1, <2>3
  <2> QED BY <2>1, <2>2, <2>4
<1>10. ASSUME NEW c \in Callbacks, NEW i \in Modes, Matched(fired[c], i)'
       PROVE  Matched(fired[c], i) /\ keep[i]
  <2>1. /\ fired[c] # Stopped /\ fired[c].fn[1] = i /\ fired[c].seq = seq'[i] BY <1>10 DEF Matched
  <2>2. fired[c].seq <= seq[i] BY <2>1 DEF TimerInv
  <2>3. seq'[i] = seq[i] BY <1>1, <1>2, <2>1, <2>2
  <2>4. Matched(fired[c], i) BY <2>1, <2>3 DEF Matched
  <2>5. run[i] BY <2>4 DEF TimerInv
  <2> QED BY <1>2, <2>3, <2>4, <2>5
<1>11. ASSUME NEW i \in Modes, Matched(timer[i], i)'
       PROVE  /\ run'[i]
              /\ keep[i] => Matched(timer[i], i)
              /\ ~keep[i] => arm[i]
  <2>1. timer'[i] # Stopped BY <1>11 DEF Matched
  <2>2. keep[i] \/ arm[i] BY <1>2, <2>1
  <2>3. ASSUME keep[i] PROVE Matched(timer[i], i)
    <3>1. timer'[i] = timer[i] /\ seq'[i] = seq[i] BY <1>2, <2>3
    <3> QED BY <1>11, <3>1 DEF Matched
  <2> QED BY <1>2, <2>2, <2>3
<1>12. BothMode(dl)' <=> combo
  <2>1. BothMode(dl') <=> combo OBVIOUS
  <2> QED BY <2>1 DEF BothMode
<1>13. combo => ~run'["w"]
  <2> SUFFICES ASSUME combo, run'["w"] PROVE FALSE OBVIOUS
  <2>1. "w" \in Modes /\ "w" # "r" BY DEF Modes
  <2>2. keep["w"] BY <1>2, <2>1
  <2>3. run["w"] /\ combo = BothMode(dl) BY <1>2, <2>1, <2>2
  <2> QED BY <2>3 DEF TimerInv
<1>14. ASSUME NEW k \in Modes PROVE Ahead(timer[k])'
  <2> SUFFICES ASSUME NEW i \in Modes, Matched(timer[k], i)'
               PROVE  (timer'[k].fn = << "r", "w" >> <=> BothMode(dl)') /\ dl'[i] > 0
    BY DEF Ahead
  <2>1. i = k BY <1>8 DEF Matched
  <2>2. CASE keep[k]
    <3>1. Matched(timer[k], k) /\ timer'[k] = timer[k] BY <1>2, <1>11, <2>1, <2>2
    <3>2. (timer[k].fn = << "r", "w" >> <=> BothMode(dl)) /\ dl[k] > 0 BY <3>1 DEF TimerInv, Ahead
    <3>3. new[k] = dl[k] /\ combo = BothMode(dl) BY <1>2, <2>2
    <3> QED BY <1>12, <2>1, <3>1, <3>2, <3>3
  <2>3. CASE ~keep[k]
    <3>1. arm[k] BY <1>11, <2>1, <2>3
    <3> QED BY <1>3, <1>4, <1>12, <2>1, <2>3, <3>1
  <2> QED BY <2>2, <2>3
<1>15. ASSUME NEW c \in Callbacks PROVE Ahead(fired[c])'
  <2> SUFFICES ASSUME NEW i \in Modes, Matched(fired[c], i)'
               PROVE  (fired'[c].fn = << "r", "w" >> <=> BothMode(dl)') /\ dl'[i] > 0
    BY DEF Ahead
  <2>1. Matched(fired[c], i) /\ keep[i] BY <1>10
  <2>2. (fired[c].fn = << "r", "w" >> <=> BothMode(dl)) /\ dl[i] > 0 BY <2>1 DEF TimerInv, Ahead
  <2>3. new[i] = dl[i] /\ combo = BothMode(dl) BY <1>2, <2>1
  <2> QED BY <1>12, <2>2, <2>3
<1>16. /\ \A c \in Callbacks : \A i \in Modes : Matched(fired[c], i)' => run'[i]
       /\ \A i \in Modes : \A c \in Callbacks : ~ (Matched(timer[i], i)' /\ Matched(fired[c], i)')
       /\ \A c, d \in Callbacks : \A i \in Modes : Matched(fired[c], i)' /\ Matched(fired[d], i)' => c = d
  BY <1>2, <1>10, <1>11 DEF TimerInv
<1>17. TimerInv' BY <1>8, <1>9, <1>11, <1>12, <1>13, <1>14, <1>15, <1>16 DEF TimerInv
<1> QED BY <1>5, <1>6, <1>7, <1>17

LEMMA SetsInv == ASSUME IInv, NEW p \in Procs, Sets(p) PROVE IInv'
<1>1. PICK ms \in {{"r"}, {"w"}, {"r", "w"}}, d \in {-1, 0} \cup Deadlines : SetDeadline(p, ms, d)
  BY DEF Sets
<1>2. /\ fpc[p] = "set" /\ fpc' = [fpc EXCEPT ![p] = "unblocking"]
      /\ UNCHANGED << refs, rwLocked, fdClosed, sysfd, csema, scene, after >>
  BY DEF Sets, FGoto, fdmuVars, kernel
<1>3. /\ pdlock = Free
      /\ UNCHANGED << closing, gpp, npc, wake, fired, thrown >>
  BY <1>1 DEF SetDeadline
<1>4. /\ fpc \in [Procs -> FPCs] /\ after \in [Procs -> {"idle", "destroy", "evict"}]
      /\ npc \in [Procs -> NPCs] /\ RoleAt(p) /\ ~thrown
      /\ todo \in [Actors -> Unblocking \cup Expiring] /\ dl \in [Modes -> Int]
      /\ run \in [Modes -> BOOLEAN]
      /\ TypeInv /\ TimerInv /\ LockInv /\ WaitInv /\ RefInv /\ DestroyInv /\ CloseInv /\ RoleInv
  BY DEF IInv, TypeInv, RoleInv
<1>5. fpc'[p] = "unblocking" BY <1>2, <1>4
<1>6. Moves(p)
  <2>1. RoleAt(p)' BY <1>2, <1>3, <1>4, <1>5 DEF RoleAt, InLock
  <2> QED BY <1>2, <1>3, <1>4, <1>5, <2>1 DEF Moves, FPCs
<1>7. Same(p) BY <1>2, <1>4, <1>5 DEF Same, Holds, InLock, Closer, Destroys, Mode
<1>8. CASE closing
  <2>1. UNCHANGED << dl, run, seq, timer, todo, pdlock >> BY <1>1, <1>8 DEF SetDeadline
  <2>2. WaitInv' BY <1>2, <1>3, <1>4, WaitsStill
  <2>3. ~thrown' /\ gpp' \in [Modes -> {"nil", "ready", "wait"} \cup Procs]
    BY <1>3, <1>4 DEF TypeInv
  <2> QED BY <1>2, <1>3, <1>6, <1>7, <2>1, <2>2, <2>3, Moving
<1>9. CASE ~closing
  <2>1. PICK new : new = [m \in Modes |-> IF m \in ms THEN d ELSE dl[m]] OBVIOUS
  <2>2. PICK combo : combo = BothMode(new) OBVIOUS
  <2>3. PICK arm : arm = [m \in Modes |-> new[m] > 0 /\ (m = "r" \/ ~combo)] OBVIOUS
  <2>4. PICK keep : keep = [m \in Modes |-> run[m] /\ new[m] = dl[m] /\ combo = BothMode(dl)] OBVIOUS
  <2>5. PICK fn : fn = [m \in Modes |-> IF combo THEN << "r", "w" >> ELSE << m >>] OBVIOUS
  <2>6. PICK past : past = {m \in Modes : new[m] < 0} OBVIOUS
  <2>7. /\ dl' = new
        /\ seq' = [m \in Modes |-> IF run[m] /\ ~keep[m] THEN seq[m] + 1 ELSE seq[m]]
        /\ run' = [m \in Modes |-> keep[m] \/ arm[m]]
        /\ timer' = [m \in Modes |->
               IF keep[m] THEN timer[m]
               ELSE IF arm[m] THEN [fn |-> fn[m], seq |-> seq'[m]] ELSE Stopped]
        /\ todo' = [todo EXCEPT ![p] = Unblocks(past)]
        /\ pdlock' = IF todo'[p] = << >> THEN Free ELSE p
    BY <1>1, <1>9, <2>1, <2>2, <2>3, <2>4, <2>5, <2>6 DEF SetDeadline
  <2>8. d \in Int BY DeadlinesAssumption
  <2>9. new \in [Modes -> Int] BY <1>4, <2>1, <2>8
  <2>10. /\ keep \in [Modes -> BOOLEAN] /\ arm \in [Modes -> BOOLEAN]
         /\ \A m \in Modes : keep[m] <=> run[m] /\ new[m] = dl[m] /\ combo = BothMode(dl)
         /\ \A m \in Modes : arm[m] <=> new[m] > 0 /\ (m = "r" \/ ~combo)
    <3>1. \A m \in Modes : keep[m] = (run[m] /\ new[m] = dl[m] /\ combo = BothMode(dl)) BY <2>4
    <3>2. \A m \in Modes : arm[m] = (new[m] > 0 /\ (m = "r" \/ ~combo)) BY <2>3
    <3>3. keep \in [Modes -> BOOLEAN] BY <2>4, Zenon
    <3>4. arm \in [Modes -> BOOLEAN] BY <2>3, Zenon
    <3> QED BY <3>1, <3>2, <3>3, <3>4
  <2>11. PICK T : T = Unblocks(past) OBVIOUS
  <2>12. T \in Unblocking BY <2>11, UnblocksIs
  <2>13. todo' = [todo EXCEPT ![p] = T] BY <2>7, <2>11
  <2>14. /\ LockInv' /\ todo' \in [Actors -> Unblocking \cup Expiring]
         /\ pdlock' \in Actors \cup {Free} /\ \A c \in Callbacks : todo[c] = << >>
    BY <1>3, <1>4, <2>7, <2>12, <2>13, LockTaken
  <2>15. /\ TimerInv' /\ seq' \in [Modes -> Nat] /\ run' \in [Modes -> BOOLEAN]
         /\ timer' \in [Modes -> Timers]
    <3>1. Changes(new, combo, keep, arm, fn) BY <2>2, <2>5, <2>7, <2>9, <2>10, Zenon DEF Changes
    <3> QED BY <1>3, <1>4, <2>14, <3>1, DeadlineChanges
  <2>16. \A q \in Procs : Same(q) BY <1>4, <1>6, <1>7, Others
  <2>17. RefInv' /\ DestroyInv' /\ CloseInv' BY <1>2, <1>3, <1>4, <2>16, FdStill
  <2>18. RoleInv' BY <1>4, <1>6, RolesKept
  <2>19. WaitInv' BY <1>2, <1>3, <1>4, WaitsStill
  <2>20. TypeInv'
    <3>1. /\ fpc' \in [Procs -> FPCs] /\ after' \in [Procs -> {"idle", "destroy", "evict"}]
          /\ npc' \in [Procs -> NPCs]
      BY <1>4, <1>6, Others
    <3>2. dl' \in [Modes -> Int] BY <2>7, <2>9
    <3> QED BY <1>2, <1>3, <1>4, <2>14, <2>15, <3>1, <3>2 DEF TypeInv
  <2> QED BY <1>3, <1>4, <2>14, <2>15, <2>17, <2>18, <2>19, <2>20 DEF IInv
<1> QED BY <1>8, <1>9

-----------------------------------------------------------------------------
(* The steps at which a reference is taken or dropped, and the last ones.     *)
LEMMA PollStill ==
  ASSUME IInv, NEW p \in Procs, Moves(p), npc' = npc,
         UNCHANGED << closing, dl, run, seq, timer, gpp, pdlock, todo, wake, fired >>,
         fdClosed' \in BOOLEAN, sysfd' \in BOOLEAN, rwLocked' \in [Modes -> BOOLEAN],
         refs' \in Nat, csema' \in Nat,
         RefInv', DestroyInv', CloseInv', ~thrown'
  PROVE  IInv'
<1> USE DEF IInv
<1>1. /\ fpc' \in [Procs -> FPCs] /\ after' \in [Procs -> {"idle", "destroy", "evict"}]
      /\ npc' \in [Procs -> NPCs] /\ scene' = scene
  BY Others
<1>2. gpp' \in [Modes -> {"nil", "ready", "wait"} \cup Procs] BY DEF TypeInv
<1>3. TypeInv' BY <1>1, <1>2, TypesStill
<1>4. RoleInv' BY RolesKept
<1>5. WaitInv' BY <1>1, WaitsStill
<1>6. TimerInv' /\ LockInv' BY TimersStill, LocksStill
<1> QED BY <1>3, <1>4, <1>5, <1>6

LEMMA Gained ==
  ASSUME RefInv, NEW p \in Procs, ~Holds(p), Holds(p)', refs' = refs + 1,
         \A q \in Procs : q # p => Same(q)
  PROVE  refs' = Cardinality({q \in Procs : Holds(q)'})
<1>1. PICK S, T : S = {q \in Procs : Holds(q)} /\ T = {q \in Procs : Holds(q)'} OBVIOUS
<1>2. /\ S \in SUBSET Procs /\ T \in SUBSET Procs /\ p \notin S /\ p \in T
      /\ \A q \in Procs : q # p => (q \in S <=> q \in T)
  BY <1>1 DEF Same
<1>3. Cardinality(T) = Cardinality(S) + 1 BY <1>2, CountGain
<1> QED BY <1>1, <1>3 DEF RefInv

LEMMA Lost ==
  ASSUME RefInv, NEW p \in Procs, Holds(p), ~Holds(p)', refs' = refs - 1,
         \A q \in Procs : q # p => Same(q)
  PROVE  refs' = Cardinality({q \in Procs : Holds(q)'})
<1>1. PICK S, T : S = {q \in Procs : Holds(q)} /\ T = {q \in Procs : Holds(q)'} OBVIOUS
<1>2. /\ S \in SUBSET Procs /\ T \in SUBSET Procs /\ p \in S /\ p \notin T
      /\ \A q \in Procs : q # p => (q \in S <=> q \in T)
  BY <1>1 DEF Same
<1>3. Cardinality(T) = Cardinality(S) - 1 BY <1>2, CountLoss
<1> QED BY <1>1, <1>3 DEF RefInv

(* p neither takes nor drops a lock. *)
LEMMA LockHolders ==
  ASSUME RefInv, NEW p \in Procs, InLock(p)' <=> InLock(p), scene' = scene, rwLocked' = rwLocked,
         \A q \in Procs : q # p => Same(q)
  PROVE  /\ \A q, r \in Procs : InLock(q)' /\ InLock(r)' /\ Mode(q)' = Mode(r)' => q = r
         /\ \A m \in Modes : rwLocked'[m] = \E q \in Procs : InLock(q)' /\ Mode(q)' = m
<1>1. \A q \in Procs : (InLock(q)' <=> InLock(q)) /\ Mode(q)' = Mode(q) BY DEF Same, Mode
<1> QED BY <1>1 DEF RefInv

LEMMA ClosesInv == ASSUME IInv, NEW p \in Procs, Close(p) PROVE IInv'
<1> USE DEF IInv
<1>1. /\ scene.role[p] = "close" /\ fpc[p] = "idle" /\ fpc' = [fpc EXCEPT ![p] = "give"]
      /\ ~fdClosed /\ fdClosed' = TRUE /\ refs' = refs + 1
      /\ after' = [after EXCEPT ![p] = "evict"]
      /\ UNCHANGED << rwLocked, sysfd, csema, scene, pollVars >>
  BY DEF Close, FGoto, Mu!IncrefAndClose, kernel
<1>2. /\ fpc \in [Procs -> FPCs] /\ after \in [Procs -> {"idle", "destroy", "evict"}]
      /\ npc \in [Procs -> NPCs] /\ RoleAt(p)
      /\ rwLocked \in [Modes -> BOOLEAN] /\ refs \in Nat
  BY DEF TypeInv, RoleInv
<1>3. UNCHANGED << closing, dl, run, seq, timer, gpp, pdlock, npc, todo, wake, fired, thrown >>
  BY <1>1 DEF pollVars, desc
<1>4. fpc'[p] = "give" /\ after'[p] = "evict" BY <1>1, <1>2
<1>5. Moves(p)
  <2>1. RoleAt(p)' BY <1>1, <1>2, <1>3, <1>4 DEF RoleAt, InLock
  <2> QED BY <1>1, <1>2, <1>3, <1>4, <2>1 DEF Moves, FPCs
<1>6. \A q \in Procs : q # p => Same(q) BY <1>5, Others
<1>7. /\ ~Holds(p) /\ Holds(p)' /\ (InLock(p)' <=> InLock(p)) /\ Closer(p)' /\ ~Closer(p)
      /\ ~Destroys(p)'
  BY <1>1, <1>2, <1>4 DEF Holds, InLock, Closer, Destroys, RoleAt
<1>8. RefInv'
  <2>1. refs' = Cardinality({q \in Procs : Holds(q)'}) BY <1>1, <1>6, <1>7, Gained
  <2>2. sysfd' BY <1>1 DEF RefInv
  <2> QED BY <1>1, <1>6, <1>7, <2>1, <2>2, LockHolders DEF RefInv
<1>9. DestroyInv'
  <2>1. csema = 0 /\ \A q \in Procs : ~Destroys(q) BY <1>1 DEF DestroyInv
  <2>2. csema' = 0 /\ \A q \in Procs : ~Destroys(q)' BY <1>1, <1>6, <1>7, <2>1 DEF Same
  <2> QED BY <2>2 DEF DestroyInv
<1>10. CloseInv'
  <2>1. ~closing /\ \A q \in Procs : ~Closer(q) BY <1>1 DEF CloseInv
  <2>2. \A q \in Procs : Closer(q)' => q = p BY <1>6, <2>1 DEF Same
  <2> QED BY <1>1, <1>3, <1>7, <2>1, <2>2 DEF CloseInv
<1>11. /\ fdClosed' \in BOOLEAN /\ sysfd' \in BOOLEAN /\ csema' \in Nat BY <1>1 DEF TypeInv
<1>12. rwLocked' \in [Modes -> BOOLEAN] /\ refs' \in Nat BY <1>1, <1>2
<1> QED BY <1>3, <1>5, <1>8, <1>9, <1>10, <1>11, <1>12, PollStill

LEMMA SetDeadlineImplInv == ASSUME IInv, NEW p \in Procs, SetDeadlineImpl(p) PROVE IInv'
<1> USE DEF IInv
<1>1. /\ scene.role[p] = "deadline" /\ fpc[p] = "idle" /\ fpc' = [fpc EXCEPT ![p] = "set"]
      /\ ~fdClosed /\ refs' = refs + 1
      /\ UNCHANGED << fdClosed, rwLocked, sysfd, csema, scene, after, pollVars >>
  BY DEF SetDeadlineImpl, FGoto, Mu!Incref, kernel
<1>2. /\ fpc \in [Procs -> FPCs] /\ after \in [Procs -> {"idle", "destroy", "evict"}]
      /\ npc \in [Procs -> NPCs] /\ RoleAt(p)
      /\ rwLocked \in [Modes -> BOOLEAN] /\ refs \in Nat
  BY DEF TypeInv, RoleInv
<1>3. UNCHANGED << closing, dl, run, seq, timer, gpp, pdlock, npc, todo, wake, fired, thrown >>
  BY <1>1 DEF pollVars, desc
<1>4. fpc'[p] = "set" BY <1>1, <1>2
<1>5. Moves(p)
  <2>1. RoleAt(p)' BY <1>1, <1>2, <1>3, <1>4 DEF RoleAt, InLock
  <2> QED BY <1>1, <1>2, <1>3, <1>4, <2>1 DEF Moves, FPCs
<1>6. \A q \in Procs : q # p => Same(q) BY <1>5, Others
<1>7. /\ ~Holds(p) /\ Holds(p)' /\ (InLock(p)' <=> InLock(p)) /\ ~Closer(p)' /\ ~Closer(p)
      /\ ~Destroys(p)'
  BY <1>1, <1>2, <1>4 DEF Holds, InLock, Closer, Destroys, RoleAt
<1>8. RefInv'
  <2>1. refs' = Cardinality({q \in Procs : Holds(q)'}) BY <1>1, <1>6, <1>7, Gained
  <2>2. sysfd' BY <1>1 DEF RefInv
  <2> QED BY <1>1, <1>6, <1>7, <2>1, <2>2, LockHolders DEF RefInv
<1>9. DestroyInv'
  <2>1. csema = 0 /\ \A q \in Procs : ~Destroys(q) BY <1>1 DEF DestroyInv
  <2>2. csema' = 0 /\ \A q \in Procs : ~Destroys(q)' BY <1>1, <1>6, <1>7, <2>1 DEF Same
  <2> QED BY <2>2 DEF DestroyInv
<1>10. CloseInv'
  <2>1. \A q \in Procs : Closer(q)' <=> Closer(q) BY <1>6, <1>7 DEF Same
  <2> QED BY <1>1, <1>3, <2>1 DEF CloseInv
<1>11. /\ fdClosed' \in BOOLEAN /\ sysfd' \in BOOLEAN /\ csema' \in Nat BY <1>1 DEF TypeInv
<1>12. rwLocked' \in [Modes -> BOOLEAN] /\ refs' \in Nat BY <1>1, <1>2
<1> QED BY <1>3, <1>5, <1>8, <1>9, <1>10, <1>11, <1>12, PollStill

(* A reference is dropped: if it is the last one, p destroys the FD.          *)
LEMMA Dropping ==
  ASSUME RefInv, DestroyInv, NEW p \in Procs, TypeInv, Holds(p), ~Holds(p)', refs' = refs - 1,
         ~Destroys(p), Destroys(p)' <=> fdClosed /\ refs' = 0,
         UNCHANGED << fdClosed, sysfd, csema >>,
         \A q \in Procs : q # p => Same(q)
  PROVE  /\ refs > 0 /\ refs' \in Nat /\ refs' = Cardinality({q \in Procs : Holds(q)'})
         /\ refs' > 0 \/ ~fdClosed' => sysfd'
         /\ DestroyInv'
<1>1. refs \in Nat /\ refs > 0 BY HoldsFacts DEF TypeInv
<1>2. refs' \in Nat /\ refs' < refs BY <1>1
<1>3. refs' = Cardinality({q \in Procs : Holds(q)'}) BY Lost
<1>4. sysfd' BY <1>1 DEF RefInv
<1>5. DestroyInv'
  <2>1. \A q \in Procs : ~Destroys(q) BY <1>1 DEF DestroyInv
  <2>2. csema = 0 BY <1>1 DEF DestroyInv
  <2>3. \A q \in Procs : Destroys(q)' => q = p BY <2>1 DEF Same
  <2> QED BY <2>2, <2>3 DEF DestroyInv
<1> QED BY <1>1, <1>2, <1>3, <1>4, <1>5

LEMMA DecrefsInv == ASSUME IInv, NEW p \in Procs, Decrefs(p) PROVE IInv'
<1> USE DEF IInv
<1>1. PICK x : x = IF Mu!LastReference THEN "destroy" ELSE Done(p) OBVIOUS
<1>2. /\ fpc[p] = "decref" /\ fpc' = [fpc EXCEPT ![p] = x]
      /\ refs' = refs - 1 /\ thrown' = (thrown \/ refs = 0)
      /\ UNCHANGED << fdClosed, rwLocked, sysfd, csema, scene, after >>
      /\ UNCHANGED << closing, dl, run, seq, timer, gpp, pdlock, npc, todo, wake, fired >>
  BY <1>1 DEF Decrefs, Mu!Decref, kernel, quiet, desc
<1>3. /\ fpc \in [Procs -> FPCs] /\ after \in [Procs -> {"idle", "destroy", "evict"}]
      /\ npc \in [Procs -> NPCs] /\ RoleAt(p)
      /\ rwLocked \in [Modes -> BOOLEAN] /\ refs \in Nat /\ ~thrown
  BY DEF TypeInv, RoleInv
<1>4. fpc'[p] = x BY <1>2, <1>3
<1>5. /\ x = "destroy" <=> fdClosed /\ refs' = 0
      /\ x # "destroy" => (x = "csema" /\ scene.role[p] = "close") \/ x = "idle"
  BY <1>1 DEF Mu!LastReference, Done
<1>6. Moves(p)
  <2>1. RoleAt(p)' BY <1>2, <1>3, <1>4, <1>5 DEF RoleAt, InLock
  <2>2. x \in FPCs BY <1>5 DEF FPCs
  <2> QED BY <1>2, <1>3, <1>4, <2>1, <2>2 DEF Moves
<1>7. \A q \in Procs : q # p => Same(q) BY <1>6, Others
<1>8. /\ Holds(p) /\ ~Holds(p)' /\ (InLock(p)' <=> InLock(p)) /\ ~Closer(p)' /\ ~Closer(p)
      /\ ~Destroys(p) /\ (Destroys(p)' <=> fdClosed /\ refs' = 0)
  BY <1>2, <1>3, <1>4, <1>5 DEF Holds, InLock, Closer, Destroys, RoleAt
<1>9. /\ refs > 0 /\ refs' \in Nat /\ refs' = Cardinality({q \in Procs : Holds(q)'})
      /\ refs' > 0 \/ ~fdClosed' => sysfd'
      /\ DestroyInv'
  BY <1>2, <1>7, <1>8, Dropping
<1>10. RefInv' BY <1>2, <1>7, <1>8, <1>9, LockHolders DEF RefInv
<1>11. CloseInv'
  <2>1. \A q \in Procs : Closer(q)' <=> Closer(q) BY <1>7, <1>8 DEF Same
  <2> QED BY <1>2, <2>1 DEF CloseInv
<1>12. /\ fdClosed' \in BOOLEAN /\ sysfd' \in BOOLEAN /\ csema' \in Nat BY <1>2 DEF TypeInv
<1>13. rwLocked' \in [Modes -> BOOLEAN] BY <1>2, <1>3
<1>14. ~thrown'
  <2>1. ~ (refs = 0) BY <1>3, <1>9
  <2> QED BY <1>2, <1>3, <2>1, Zenon
<1> QED BY <1>2, <1>6, <1>9, <1>10, <1>11, <1>12, <1>13, <1>14, PollStill

LEMMA UnlocksInv == ASSUME IInv, NEW p \in Procs, Unlocks(p) PROVE IInv'
<1> USE DEF IInv
<1>0. Mode(p) \in Modes BY DEF Mode, Modes
<1>1. PICK x : x = IF Mu!LastReference THEN "destroy" ELSE "idle" OBVIOUS
<1>2. /\ fpc[p] = "unlock" /\ fpc' = [fpc EXCEPT ![p] = "give"]
      /\ after' = [after EXCEPT ![p] = x]
      /\ rwLocked' = [rwLocked EXCEPT ![Mode(p)] = FALSE]
      /\ refs' = refs - 1 /\ thrown' = (thrown \/ ~rwLocked[Mode(p)] \/ refs = 0)
      /\ UNCHANGED << fdClosed, sysfd, csema, scene >>
      /\ UNCHANGED << closing, dl, run, seq, timer, gpp, pdlock, npc, todo, wake, fired >>
  BY <1>1 DEF Unlocks, FGoto, Mu!RwUnlock, Mu!Inconsistent, kernel, quiet, desc
<1>3. /\ fpc \in [Procs -> FPCs] /\ after \in [Procs -> {"idle", "destroy", "evict"}]
      /\ npc \in [Procs -> NPCs] /\ RoleAt(p)
      /\ rwLocked \in [Modes -> BOOLEAN] /\ refs \in Nat /\ ~thrown
  BY DEF TypeInv, RoleInv
<1>4. fpc'[p] = "give" /\ after'[p] = x BY <1>2, <1>3
<1>5. /\ x = "destroy" <=> fdClosed /\ refs' = 0
      /\ x \in {"destroy", "idle"}
  BY <1>1 DEF Mu!LastReference
<1>6. Moves(p)
  <2>1. scene.role[p] \in {"read", "write"} BY <1>2, <1>3 DEF RoleAt, InLock
  <2>2. RoleAt(p)' BY <1>2, <1>3, <1>4, <1>5, <2>1 DEF RoleAt, InLock
  <2> QED BY <1>2, <1>3, <1>4, <1>5, <2>2 DEF Moves, FPCs
<1>7. \A q \in Procs : q # p => Same(q) BY <1>6, Others
<1>8. /\ Holds(p) /\ ~Holds(p)' /\ InLock(p) /\ ~InLock(p)' /\ ~Closer(p)' /\ ~Closer(p)
      /\ ~Destroys(p) /\ (Destroys(p)' <=> fdClosed /\ refs' = 0)
  <2>1. scene.role[p] \in {"read", "write"} BY <1>2, <1>3 DEF RoleAt, InLock
  <2> QED BY <1>2, <1>3, <1>4, <1>5, <2>1 DEF Holds, InLock, Closer, Destroys, RoleAt
<1>9. /\ refs > 0 /\ refs' \in Nat /\ refs' = Cardinality({q \in Procs : Holds(q)'})
      /\ refs' > 0 \/ ~fdClosed' => sysfd'
      /\ DestroyInv'
  BY <1>2, <1>7, <1>8, Dropping
<1>10. RefInv'
  <2>1. \A q \in Procs : Mode(q)' = Mode(q) BY <1>2 DEF Mode
  <2>2. \A q \in Procs : InLock(q)' <=> InLock(q) /\ q # p BY <1>7, <1>8 DEF Same
  <2>3. \A q, r \in Procs : InLock(q)' /\ InLock(r)' /\ Mode(q)' = Mode(r)' => q = r
    BY <2>1, <2>2 DEF RefInv
  <2>4. \A m \in Modes : rwLocked'[m] = \E q \in Procs : InLock(q)' /\ Mode(q)' = m
    <3> SUFFICES ASSUME NEW m \in Modes
                 PROVE  rwLocked'[m] = \E q \in Procs : InLock(q)' /\ Mode(q)' = m
      OBVIOUS
    <3>1. CASE m = Mode(p)
      <4>1. rwLocked'[m] = FALSE BY <1>0, <1>2, <1>3, <3>1
      <4>2. \A q \in Procs : InLock(q) /\ Mode(q) = m => q = p BY <1>8, <3>1 DEF RefInv
      <4> QED BY <2>1, <2>2, <4>1, <4>2
    <3>2. CASE m # Mode(p)
      <4>1. rwLocked'[m] = rwLocked[m] BY <1>2, <1>3, <3>2
      <4>2. (\E q \in Procs : InLock(q)' /\ Mode(q)' = m) <=> (\E q \in Procs : InLock(q) /\ Mode(q) = m)
        BY <2>1, <2>2, <3>2
      <4>3. rwLocked[m] = \E q \in Procs : InLock(q) /\ Mode(q) = m BY DEF RefInv
      <4> QED BY <4>1, <4>2, <4>3
    <3> QED BY <3>1, <3>2
  <2> QED BY <1>9, <2>3, <2>4 DEF RefInv
<1>11. CloseInv'
  <2>1. \A q \in Procs : Closer(q)' <=> Closer(q) BY <1>7, <1>8 DEF Same
  <2> QED BY <1>2, <2>1 DEF CloseInv
<1>12. /\ fdClosed' \in BOOLEAN /\ sysfd' \in BOOLEAN /\ csema' \in Nat BY <1>2 DEF TypeInv
<1>13. rwLocked' \in [Modes -> BOOLEAN] BY <1>2, <1>3
<1>14. rwLocked[Mode(p)] BY <1>8, HoldsFacts
<1>15. ~thrown'
  <2>1. ~ (refs = 0) BY <1>3, <1>9
  <2> QED BY <1>2, <1>3, <1>14, <2>1, Zenon
<1> QED BY <1>2, <1>6, <1>9, <1>10, <1>11, <1>12, <1>13, <1>15, PollStill

(* When both sequence numbers move on no timer is left that is not stale.     *)
LEMMA AllStale ==
  ASSUME TypeInv, TimerInv, fired' = fired,
         \A m \in Modes : seq'[m] = seq[m] + 1,
         \A m \in Modes : timer'[m] = timer[m] \/ timer'[m] = Stopped,
         ~BothMode(dl)' \/ ~run'["w"]
  PROVE  TimerInv'
<1>1. /\ seq \in [Modes -> Nat] /\ timer \in [Modes -> Timers] /\ fired \in [Callbacks -> Timers]
  BY DEF TypeInv
<1>2. ASSUME NEW t \in Timers, t # Stopped, NEW i \in Modes, t.fn[1] = i, t.seq <= seq[i]
      PROVE  t.seq < seq'[i] /\ t.seq # seq'[i] /\ t.seq <= seq'[i]
  <2>1. t.seq \in Nat /\ seq[i] \in Nat BY <1>1, <1>2, TimerFacts
  <2>2. seq'[i] = seq[i] + 1 OBVIOUS
  <2> QED BY <1>2, <2>1, <2>2
<1>3. ASSUME NEW c \in Callbacks, NEW i \in Modes, fired'[c] # Stopped, fired'[c].fn[1] = i
      PROVE  fired'[c].seq # seq'[i] /\ fired'[c].seq <= seq'[i]
  <2>1. fired[c].seq <= seq[i] BY <1>3 DEF TimerInv
  <2> QED BY <1>1, <1>2, <1>3, <2>1
<1>4. ASSUME NEW m \in Modes, timer'[m] # Stopped
      PROVE  timer'[m].fn[1] = m /\ timer'[m].seq # seq'[m] /\ timer'[m].seq <= seq'[m]
  <2>1. timer'[m] = timer[m] BY <1>4
  <2>2. timer[m].fn[1] = m /\ timer[m].seq <= seq[m] BY <1>4, <2>1 DEF TimerInv
  <2> QED BY <1>1, <1>2, <1>4, <2>1, <2>2
<1>5. \A m \in Modes : \A i \in Modes : ~Matched(timer[m], i)' BY <1>4 DEF Matched
<1>6. \A c \in Callbacks : \A i \in Modes : ~Matched(fired[c], i)' BY <1>3 DEF Matched
<1>7. \A c \in Callbacks : fired'[c] # Stopped => fired'[c].seq <= seq'[fired'[c].fn[1]]
  <2> SUFFICES ASSUME NEW c \in Callbacks, fired'[c] # Stopped
               PROVE  fired'[c].seq <= seq'[fired'[c].fn[1]]
    OBVIOUS
  <2>1. PICK i \in Modes : i = fired'[c].fn[1] BY <1>1, TimerFacts
  <2>2. fired'[c].seq <= seq'[i] BY <1>3, <2>1
  <2> QED BY <2>1, <2>2
<1>8. (\A m \in Modes : Ahead(timer[m])') /\ \A c \in Callbacks : Ahead(fired[c])'
  BY <1>5, <1>6 DEF Ahead
<1> QED BY <1>4, <1>5, <1>6, <1>7, <1>8 DEF TimerInv

(* Close evicts: whoever waits is to be unblocked, and no timer is left that  *)
(* is not stale.                                                              *)
LEMMA EvictInv == ASSUME IInv, NEW p \in Procs, Evict(p) PROVE IInv'
<1> USE DEF IInv
<1>1. /\ fpc[p] = "evict" /\ fpc' = [fpc EXCEPT ![p] = "unblocking"]
      /\ pdlock = Free /\ pdlock' = p /\ thrown' = (thrown \/ closing) /\ closing' = TRUE
      /\ seq' = [m \in Modes |-> seq[m] + 1] /\ run' = [m \in Modes |-> FALSE]
      /\ timer' = [m \in Modes |-> Stopped]
      /\ todo' = [todo EXCEPT ![p] = Unblocks(Modes)]
      /\ UNCHANGED << refs, rwLocked, fdClosed, sysfd, csema, scene, after >>
      /\ UNCHANGED << dl, gpp, npc, wake, fired >>
  BY DEF Evict, FGoto, PollUnblock, fdmuVars, kernel
<1>2. /\ fpc \in [Procs -> FPCs] /\ after \in [Procs -> {"idle", "destroy", "evict"}]
      /\ npc \in [Procs -> NPCs] /\ RoleAt(p) /\ ~thrown
      /\ todo \in [Actors -> Unblocking \cup Expiring]
      /\ seq \in [Modes -> Nat] /\ timer \in [Modes -> Timers] /\ fired \in [Callbacks -> Timers]
  BY DEF TypeInv, RoleInv
<1>3. fpc'[p] = "unblocking" BY <1>1, <1>2
<1>4. scene.role[p] = "close" /\ after[p] = "idle" BY <1>1, <1>2 DEF RoleAt
<1>5. Moves(p)
  <2>1. RoleAt(p)' BY <1>1, <1>2, <1>3, <1>4 DEF RoleAt, InLock
  <2> QED BY <1>1, <1>2, <1>3, <2>1 DEF Moves, FPCs
<1>6. \A q \in Procs : q # p => Same(q) BY <1>5, Others
<1>7. /\ Holds(p) /\ Holds(p)' /\ ~InLock(p)' /\ ~InLock(p) /\ Closer(p) /\ ~Closer(p)'
      /\ ~Destroys(p) /\ ~Destroys(p)' /\ Mode(p)' = Mode(p)
  BY <1>1, <1>3, <1>4 DEF Holds, InLock, Closer, Destroys, Mode
<1>8. ~closing /\ fdClosed BY <1>7 DEF CloseInv
<1>9. CloseInv'
  <2>1. \A q \in Procs : ~Closer(q)' BY <1>6, <1>7 DEF CloseInv, Same
  <2> QED BY <1>1, <1>8, <2>1 DEF CloseInv
<1>10. RefInv' /\ DestroyInv'
  <2>1. PICK S, T : S = {q \in Procs : Holds(q)} /\ T = {q \in Procs : Holds(q)'} OBVIOUS
  <2>2. S = T BY <1>6, <1>7, <2>1 DEF Same
  <2>3. refs' = Cardinality({q \in Procs : Holds(q)'}) BY <1>1, <2>1, <2>2 DEF RefInv
  <2>4. RefInv' BY <1>1, <1>6, <1>7, <2>3, LockHolders DEF RefInv
  <2>5. \A q \in Procs : Destroys(q)' <=> Destroys(q) BY <1>6, <1>7 DEF Same
  <2>6. DestroyInv' BY <1>1, <2>5 DEF DestroyInv
  <2> QED BY <2>4, <2>6
<1>11. PICK T : T = Unblocks(Modes) OBVIOUS
<1>12. T \in Unblocking /\ T = URW BY <1>11, UnblocksIs DEF Modes
<1>13. todo' = [todo EXCEPT ![p] = T] BY <1>1, <1>11
<1>14. pdlock' = IF todo'[p] = << >> THEN Free ELSE p
  <2>1. todo'[p] = URW BY <1>2, <1>12, <1>13 DEF Actors
  <2> QED BY <1>1, <2>1, Lists
<1>15. /\ LockInv' /\ todo' \in [Actors -> Unblocking \cup Expiring]
       /\ pdlock' \in Actors \cup {Free}
  BY <1>1, <1>2, <1>12, <1>13, <1>14, LockTaken
<1>16. /\ seq' \in [Modes -> Nat] /\ run' \in [Modes -> BOOLEAN] /\ timer' \in [Modes -> Timers]
       /\ \A m \in Modes : seq'[m] = seq[m] + 1 /\ ~run'[m] /\ timer'[m] = Stopped
  BY <1>1, <1>2 DEF Timers
<1>18. TimerInv' BY <1>1, <1>16, AllStale DEF Modes
<1>19. WaitInv' BY <1>1, WaitsStill
<1>20. RoleInv' BY <1>5, RolesKept
<1>21. TypeInv'
  <2>1. /\ fpc' \in [Procs -> FPCs] /\ after' \in [Procs -> {"idle", "destroy", "evict"}]
        /\ npc' \in [Procs -> NPCs]
    BY <1>5, Others
  <2> QED BY <1>1, <1>15, <1>16, <2>1 DEF TypeInv
<1>22. ~thrown' BY <1>1, <1>2, <1>8
<1> QED BY <1>9, <1>10, <1>15, <1>18, <1>19, <1>20, <1>21, <1>22

(* Who destroys the FD is alone. *)
LEMMA DestroyFacts ==
  ASSUME IInv, NEW p \in Procs, Destroys(p)
  PROVE  /\ fdClosed /\ refs = 0 /\ csema = 0 /\ closing
         /\ \A m \in Modes : ~Blocked(m)
<1> USE DEF IInv
<1>1. fdClosed /\ refs = 0 /\ csema = 0 BY DEF DestroyInv
<1>2. \A q \in Procs : ~Holds(q) /\ ~InLock(q) BY <1>1, HoldsFacts
<1>3. \A q \in Procs : ~Closer(q) BY <1>2 DEF Holds, Closer
<1>4. closing BY <1>1, <1>3 DEF CloseInv
<1>5. \A q \in Procs : npc[q] = "out" BY <1>2 DEF RoleInv, RoleAt, InLock
<1>6. ASSUME NEW m \in Modes PROVE ~Blocked(m)
  <2>1. gpp[m] \in {"nil", "ready", "wait"} \cup Procs BY DEF TypeInv
  <2>2. gpp[m] # "wait" BY <1>5 DEF WaitInv
  <2>3. gpp[m] \notin Procs BY <1>5 DEF WaitInv
  <2> QED BY <2>1, <2>2, <2>3 DEF Blocked
<1> QED BY <1>1, <1>4, <1>6

LEMMA DestroysInv == ASSUME IInv, NEW p \in Procs, Destroy(p) PROVE IInv'
<1>1. /\ fpc[p] = "destroy" /\ fpc' = [fpc EXCEPT ![p] = "free"]
      /\ thrown' = (thrown \/ ~closing \/ \E m \in Modes : Blocked(m))
      /\ UNCHANGED << refs, rwLocked, fdClosed, sysfd, csema, scene, after, npc, gpp >>
      /\ UNCHANGED << closing, dl, run, seq, timer, pdlock, todo, wake, fired >>
  BY DEF Destroy, FGoto, PollClose, fdmuVars, kernel, desc
<1>2. /\ fpc \in [Procs -> FPCs] /\ after \in [Procs -> {"idle", "destroy", "evict"}]
      /\ npc \in [Procs -> NPCs] /\ RoleAt(p) /\ ~thrown /\ WaitInv
      /\ gpp \in [Modes -> {"nil", "ready", "wait"} \cup Procs]
  BY DEF IInv, TypeInv, RoleInv
<1>3. fpc'[p] = "free" BY <1>1, <1>2
<1>4. Moves(p)
  <2>1. RoleAt(p)' BY <1>1, <1>2, <1>3 DEF RoleAt, InLock
  <2> QED BY <1>1, <1>2, <1>3, <2>1 DEF Moves, FPCs
<1>5. Same(p) BY <1>1, <1>3 DEF Same, Holds, InLock, Closer, Destroys, Mode
<1>6. ~thrown' BY <1>1, <1>2, DestroyFacts DEF Destroys
<1>7. WaitInv' BY <1>1, <1>2, WaitsStill
<1>8. gpp' \in [Modes -> {"nil", "ready", "wait"} \cup Procs] BY <1>1, <1>2
<1> QED BY <1>1, <1>4, <1>5, <1>6, <1>7, <1>8, Moving

LEMMA FreesInv == ASSUME IInv, NEW p \in Procs, Frees(p) PROVE IInv'
<1>1. /\ fpc[p] = "free" /\ fpc' = [fpc EXCEPT ![p] = "sysclose"]
      /\ UNCHANGED << refs, rwLocked, fdClosed, sysfd, csema, scene, after, npc, gpp, thrown >>
      /\ UNCHANGED << closing, dl, run, seq, timer, pdlock, todo, wake, fired >>
  BY DEF Frees, FGoto, PollFree, fdmuVars, kernel
<1>2. /\ fpc \in [Procs -> FPCs] /\ after \in [Procs -> {"idle", "destroy", "evict"}]
      /\ npc \in [Procs -> NPCs] /\ RoleAt(p) /\ ~thrown /\ WaitInv
      /\ gpp \in [Modes -> {"nil", "ready", "wait"} \cup Procs]
  BY DEF IInv, TypeInv, RoleInv
<1>3. fpc'[p] = "sysclose" BY <1>1, <1>2
<1>4. Moves(p)
  <2>1. RoleAt(p)' BY <1>1, <1>2, <1>3 DEF RoleAt, InLock
  <2> QED BY <1>1, <1>2, <1>3, <2>1 DEF Moves, FPCs
<1>5. Same(p) BY <1>1, <1>3 DEF Same, Holds, InLock, Closer, Destroys, Mode
<1>7. WaitInv' BY <1>1, <1>2, WaitsStill
<1>8. gpp' \in [Modes -> {"nil", "ready", "wait"} \cup Procs] BY <1>1, <1>2
<1>9. ~thrown' BY <1>1, <1>2
<1> QED BY <1>1, <1>4, <1>5, <1>7, <1>8, <1>9, Moving

(* The last steps, at which nobody holds the FD. *)
LEMMA LastSteps ==
  ASSUME IInv, NEW p \in Procs, Moves(p),
         refs = 0, fdClosed, Holds(p)' <=> Holds(p), InLock(p)' <=> InLock(p),
         Closer(p)' <=> Closer(p),
         UNCHANGED << refs, rwLocked, fdClosed, pollVars >>,
         sysfd' \in BOOLEAN, csema' \in Nat, DestroyInv'
  PROVE  IInv'
<1> USE DEF IInv
<1>1. UNCHANGED << closing, dl, run, seq, timer, gpp, pdlock, npc, todo, wake, fired, thrown, scene >>
  BY DEF pollVars, desc, Moves
<1>2. \A q \in Procs : q # p => Same(q) BY Others
<1>3. \A q \in Procs : (Holds(q)' <=> Holds(q)) /\ (Closer(q)' <=> Closer(q)) BY <1>2 DEF Same
<1>4. RefInv'
  <2>1. PICK S, T : S = {q \in Procs : Holds(q)} /\ T = {q \in Procs : Holds(q)'} OBVIOUS
  <2>2. S = T BY <1>3, <2>1
  <2>3. refs' = Cardinality({q \in Procs : Holds(q)'}) BY <2>1, <2>2 DEF RefInv
  <2>4. refs' > 0 \/ ~fdClosed' => sysfd' OBVIOUS
  <2> QED BY <1>1, <1>2, <2>3, <2>4, LockHolders DEF RefInv
<1>5. CloseInv' BY <1>1, <1>3 DEF CloseInv
<1>6. fdClosed' \in BOOLEAN /\ rwLocked' \in [Modes -> BOOLEAN] /\ refs' \in Nat
  BY DEF TypeInv
<1>7. ~thrown' BY <1>1
<1> QED BY <1>1, <1>4, <1>5, <1>6, <1>7, PollStill

LEMMA SysCloseInv == ASSUME IInv, NEW p \in Procs, SysClose(p) PROVE IInv'
<1>1. /\ fpc[p] = "sysclose" /\ fpc' = [fpc EXCEPT ![p] = "signal"] /\ sysfd' = FALSE
      /\ UNCHANGED << refs, rwLocked, fdClosed, csema, scene, after, pollVars >>
  BY DEF SysClose, FGoto, fdmuVars
<1>2. /\ fpc \in [Procs -> FPCs] /\ after \in [Procs -> {"idle", "destroy", "evict"}]
      /\ npc \in [Procs -> NPCs] /\ RoleAt(p) /\ csema \in Nat /\ TypeInv /\ DestroyInv
  BY DEF IInv, TypeInv, RoleInv
<1>3. fpc'[p] = "signal" /\ npc' = npc BY <1>1, <1>2 DEF pollVars
<1>4. Moves(p)
  <2>1. RoleAt(p)' BY <1>1, <1>2, <1>3 DEF RoleAt, InLock
  <2> QED BY <1>1, <1>2, <1>3, <2>1 DEF Moves, FPCs
<1>5. Same(p) BY <1>1, <1>3 DEF Same, Holds, InLock, Closer, Destroys, Mode
<1>6. refs = 0 /\ fdClosed BY <1>1, DestroyFacts DEF Destroys
<1>7. DestroyInv'
  <2>1. \A q \in Procs : Destroys(q)' <=> Destroys(q) BY <1>2, <1>4, <1>5, Others DEF Same
  <2> QED BY <1>1, <1>2, <2>1 DEF DestroyInv
<1> QED BY <1>1, <1>2, <1>4, <1>5, <1>6, <1>7, LastSteps DEF Same

LEMMA SignalInv == ASSUME IInv, NEW p \in Procs, Signal(p) PROVE IInv'
<1>1. /\ fpc[p] = "signal" /\ fpc' = [fpc EXCEPT ![p] = Done(p)] /\ csema' = csema + 1
      /\ UNCHANGED << refs, rwLocked, fdClosed, sysfd, scene, after, pollVars >>
  BY DEF Signal, FGoto, fdmuVars, kernel
<1>2. /\ fpc \in [Procs -> FPCs] /\ after \in [Procs -> {"idle", "destroy", "evict"}]
      /\ npc \in [Procs -> NPCs] /\ RoleAt(p) /\ sysfd \in BOOLEAN /\ TypeInv /\ DestroyInv
  BY DEF IInv, TypeInv, RoleInv
<1>3. fpc'[p] = Done(p) /\ npc' = npc BY <1>1, <1>2 DEF pollVars
<1>4. (Done(p) = "csema" /\ scene.role[p] = "close") \/ Done(p) = "idle" BY DEF Done
<1>5. Moves(p)
  <2>1. RoleAt(p)' BY <1>1, <1>2, <1>3, <1>4 DEF RoleAt, InLock
  <2>2. Done(p) \in FPCs BY <1>4 DEF FPCs
  <2> QED BY <1>1, <1>2, <1>3, <2>1, <2>2 DEF Moves
<1>6. refs = 0 /\ fdClosed /\ csema = 0 BY <1>1, DestroyFacts DEF Destroys
<1>7. /\ Holds(p)' <=> Holds(p)
      /\ InLock(p)' <=> InLock(p)
      /\ Closer(p)' <=> Closer(p)
      /\ ~Destroys(p)' /\ Destroys(p)
  BY <1>1, <1>2, <1>3, <1>4 DEF Holds, InLock, Closer, Destroys, RoleAt
<1>8. DestroyInv'
  <2>1. \A q \in Procs : ~Destroys(q)' BY <1>2, <1>5, <1>7, Others DEF Same, DestroyInv
  <2> QED BY <1>1, <1>6, <2>1 DEF DestroyInv
<1>9. csema' \in Nat /\ sysfd' \in BOOLEAN BY <1>1, <1>2, <1>6
<1> QED BY <1>1, <1>5, <1>6, <1>7, <1>8, <1>9, LastSteps

LEMMA CloseReturnInv == ASSUME IInv, NEW p \in Procs, CloseReturn(p) PROVE IInv'
<1>1. /\ fpc[p] = "csema" /\ fpc' = [fpc EXCEPT ![p] = "idle"] /\ csema > 0 /\ csema' = csema - 1
      /\ UNCHANGED << refs, rwLocked, fdClosed, sysfd, scene, after, pollVars >>
  BY DEF CloseReturn, FGoto, fdmuVars, kernel
<1>2. /\ fpc \in [Procs -> FPCs] /\ after \in [Procs -> {"idle", "destroy", "evict"}]
      /\ npc \in [Procs -> NPCs] /\ RoleAt(p) /\ sysfd \in BOOLEAN /\ TypeInv /\ DestroyInv
  BY DEF IInv, TypeInv, RoleInv
<1>3. fpc'[p] = "idle" /\ npc' = npc BY <1>1, <1>2 DEF pollVars
<1>5. Moves(p)
  <2>1. RoleAt(p)' BY <1>1, <1>2, <1>3 DEF RoleAt, InLock
  <2> QED BY <1>1, <1>2, <1>3, <2>1 DEF Moves, FPCs
<1>6. csema = 1 /\ refs = 0 /\ fdClosed /\ \A q \in Procs : ~Destroys(q)
  BY <1>1, <1>2 DEF DestroyInv
<1>7. /\ Holds(p)' <=> Holds(p)
      /\ InLock(p)' <=> InLock(p)
      /\ Closer(p)' <=> Closer(p)
      /\ ~Destroys(p)'
  BY <1>1, <1>2, <1>3 DEF Holds, InLock, Closer, Destroys, RoleAt
<1>8. DestroyInv'
  <2>1. \A q \in Procs : ~Destroys(q)' BY <1>2, <1>5, <1>6, <1>7, Others DEF Same
  <2> QED BY <1>1, <1>6, <2>1 DEF DestroyInv
<1>9. csema' \in Nat /\ sysfd' \in BOOLEAN BY <1>1, <1>2, <1>6
<1> QED BY <1>1, <1>5, <1>6, <1>7, <1>8, <1>9, LastSteps

(* The pollDesc is opened again, when everybody is done with the FD before.   *)
LEMMA OpenInv == ASSUME IInv, Open PROVE IInv'
<1> USE DEF IInv
<1>1. /\ ~sysfd /\ sysfd' = TRUE /\ fdClosed' = FALSE /\ csema' = 0
      /\ \A p \in Procs : fpc[p] = "idle"
      /\ pdlock = Free /\ thrown' = (thrown \/ \E m \in Modes : Blocked(m))
      /\ closing' = FALSE /\ seq' = [m \in Modes |-> seq[m] + 1]
      /\ gpp' = [m \in Modes |-> "nil"] /\ dl' = [m \in Modes |-> 0]
      /\ UNCHANGED << rwLocked, refs, scene, fpc, after >>
      /\ UNCHANGED << run, timer, pdlock, npc, todo, wake, fired >>
  BY DEF Open, PollOpen, local
<1>2. /\ todo \in [Actors -> Unblocking \cup Expiring] /\ wake \in [Actors -> SUBSET Procs]
      /\ seq \in [Modes -> Nat] /\ ~thrown
      /\ gpp \in [Modes -> {"nil", "ready", "wait"} \cup Procs]
  BY DEF TypeInv
<1>3. ASSUME NEW p \in Procs
      PROVE  ~Holds(p) /\ ~InLock(p) /\ ~Closer(p) /\ ~Destroys(p) /\ npc[p] = "out" /\ RoleAt(p)
  <2>1. fpc[p] = "idle" /\ RoleAt(p) BY <1>1 DEF RoleInv
  <2>2. npc[p] = "out" /\ after[p] = "idle" BY <2>1 DEF RoleAt
  <2> QED BY <2>1, <2>2 DEF Holds, InLock, Closer, Destroys
<1>4. \A p \in Procs : Same(p)
  BY <1>1 DEF Same, Holds, InLock, Closer, Destroys, Mode
<1>5. RefInv'
  <2>1. PICK S, T : S = {q \in Procs : Holds(q)} /\ T = {q \in Procs : Holds(q)'} OBVIOUS
  <2>2. S = T BY <1>4, <2>1 DEF Same
  <2>3. refs' = Cardinality({q \in Procs : Holds(q)'}) BY <1>1, <2>1, <2>2 DEF RefInv
  <2>4. \A p, q \in Procs : InLock(p)' /\ InLock(q)' /\ Mode(p)' = Mode(q)' => p = q
    BY <1>4 DEF RefInv, Same
  <2>5. \A m \in Modes : rwLocked'[m] = \E p \in Procs : InLock(p)' /\ Mode(p)' = m
    BY <1>1, <1>4 DEF RefInv, Same
  <2> QED BY <1>1, <2>3, <2>4, <2>5 DEF RefInv
<1>6. DestroyInv'
  <2>1. \A p \in Procs : ~Destroys(p)' BY <1>3, <1>4 DEF Same
  <2> QED BY <1>1, <2>1 DEF DestroyInv
<1>7. CloseInv'
  <2>1. \A p \in Procs : ~Closer(p)' BY <1>3, <1>4 DEF Same
  <2> QED BY <1>1, <2>1 DEF CloseInv
<1>8. RoleInv' BY <1>1 DEF RoleInv, RoleAt, InLock
<1>9. \A m \in Modes : gpp'[m] = "nil" BY <1>1
<1>10. WaitInv'
  <2>1. \A a \in Actors : wake'[a] = {} BY <1>1, <1>2, <1>3 DEF WaitInv
  <2> QED BY <1>9, <2>1 DEF WaitInv
<1>11. \A m \in Modes : seq'[m] = seq[m] + 1 /\ dl'[m] = 0 BY <1>1
<1>12. TimerInv'
  <2>1. ~BothMode(dl') BY <1>11 DEF BothMode, Modes
  <2>2. ~BothMode(dl)' BY <2>1 DEF BothMode
  <2> QED BY <1>1, <1>11, <2>2, AllStale
<1>13. LockInv'
  <2>1. \A c \in Callbacks : CallbackAt(c)' BY <1>1, Unlocked, CallbackEnds
  <2> QED BY <1>1, <2>1 DEF LockInv
<1>14. TypeInv'
  <2>1. /\ seq' \in [Modes -> Nat] /\ dl' \in [Modes -> Int]
        /\ gpp' \in [Modes -> {"nil", "ready", "wait"} \cup Procs]
    BY <1>1, <1>2
  <2> QED BY <1>1, <2>1 DEF TypeInv
<1>15. \A m \in Modes : ~Blocked(m)
  <2> SUFFICES ASSUME NEW m \in Modes PROVE ~Blocked(m) OBVIOUS
  <2>1. gpp[m] \in {"nil", "ready", "wait"} \cup Procs BY <1>2
  <2>2. gpp[m] # "wait" BY <1>3 DEF WaitInv
  <2>3. gpp[m] \notin Procs BY <1>3 DEF WaitInv
  <2> QED BY <2>1, <2>2, <2>3 DEF Blocked
<1>16. ~thrown' BY <1>1, <1>2, <1>15
<1> QED BY <1>5, <1>6, <1>7, <1>8, <1>10, <1>12, <1>13, <1>14, <1>16

-----------------------------------------------------------------------------
LEMMA InitInv == FdInit => IInv
<1> SUFFICES ASSUME FdInit PROVE IInv OBVIOUS
<1>1. /\ scene \in Scenes /\ fpc = [p \in Procs |-> "idle"] /\ after = [p \in Procs |-> "idle"]
      /\ csema = 0 /\ sysfd = TRUE /\ fdClosed = FALSE /\ rwLocked = [m \in Modes |-> FALSE]
      /\ refs = 0 /\ closing = FALSE /\ dl = [m \in Modes |-> 0]
      /\ run = [m \in Modes |-> FALSE] /\ seq = [m \in Modes |-> 1]
      /\ timer = [m \in Modes |-> Stopped] /\ gpp = [m \in Modes |-> "nil"] /\ pdlock = Free
      /\ npc = [p \in Procs |-> "out"] /\ todo = [a \in Actors |-> << >>]
      /\ wake = [a \in Actors |-> {}] /\ fired = [c \in Callbacks |-> Stopped]
      /\ thrown = FALSE
  BY DEF FdInit, PollInit, Mu!FdmuInit, Mu!Modes, Modes
<1>2. /\ \A p \in Procs : fpc[p] = "idle" /\ after[p] = "idle" /\ npc[p] = "out"
      /\ \A m \in Modes : ~rwLocked[m] /\ dl[m] = 0 /\ timer[m] = Stopped /\ gpp[m] = "nil" /\ ~run[m]
      /\ \A a \in Actors : todo[a] = << >> /\ wake[a] = {}
      /\ \A c \in Callbacks : fired[c] = Stopped /\ todo[c] = << >>
  BY <1>1 DEF Actors
<1>3. TypeInv
  <2>1. scene \in [role : [Procs -> Roles], active : BOOLEAN, maxField : Nat, maxSeq : Nat]
    BY <1>1, ScenesAssumption
  <2>2. fpc \in [Procs -> FPCs] /\ after \in [Procs -> {"idle", "destroy", "evict"}]
    BY <1>1 DEF FPCs
  <2>3. npc \in [Procs -> NPCs] BY <1>1 DEF NPCs
  <2>4. rwLocked \in [Modes -> BOOLEAN] /\ run \in [Modes -> BOOLEAN] BY <1>1
  <2>5. /\ gpp \in [Modes -> {"nil", "ready", "wait"} \cup Procs]
        /\ dl \in [Modes -> Int] /\ seq \in [Modes -> Nat]
    BY <1>1
  <2>6. timer \in [Modes -> Timers] /\ fired \in [Callbacks -> Timers] BY <1>1 DEF Timers
  <2>7. wake \in [Actors -> SUBSET Procs] BY <1>1
  <2>8. todo \in [Actors -> Unblocking \cup Expiring] BY <1>1 DEF Unblocking
  <2> QED BY <1>1, <2>1, <2>2, <2>3, <2>4, <2>5, <2>6, <2>7, <2>8 DEF TypeInv
<1>4. ASSUME NEW p \in Procs
      PROVE  ~Holds(p) /\ ~InLock(p) /\ ~Closer(p) /\ ~Destroys(p) /\ RoleAt(p)
  BY <1>2 DEF Holds, InLock, Closer, Destroys, RoleAt
<1>5. RoleInv BY <1>4 DEF RoleInv
<1>6. RefInv
  <2>1. {p \in Procs : Holds(p)} = {} BY <1>4
  <2>2. refs = Cardinality({p \in Procs : Holds(p)}) BY <1>1, <2>1, FS_EmptySet
  <2> QED BY <1>1, <1>2, <1>4, <2>2 DEF RefInv
<1>7. DestroyInv BY <1>1, <1>4 DEF DestroyInv
<1>8. CloseInv BY <1>1, <1>4 DEF CloseInv
<1>9. WaitInv BY <1>2 DEF WaitInv
<1>10. TimerInv
  <2>1. ~BothMode(dl) BY <1>2 DEF BothMode, Modes
  <2> QED BY <1>2, <2>1 DEF TimerInv, Matched, Ahead
<1>11. LockInv
  <2>1. ASSUME NEW c \in Callbacks PROVE CallbackAt(c)
    <3>1. todo[c] = << >> BY <1>2
    <3>2. << >> \notin Expiring /\ << >> \notin {UR, UW, URW} BY Lists
    <3> QED BY <3>1, <3>2 DEF CallbackAt, Expiring
  <2>2. \A a \in Procs \cup Callbacks \cup {Poller} : todo[a] = << >> BY <1>2 DEF Actors
  <2> QED BY <2>1, <2>2 DEF LockInv, Unblocking
<1> QED BY <1>1, <1>3, <1>5, <1>6, <1>7, <1>8, <1>9, <1>10, <1>11 DEF IInv

LEMMA NextInv == IInv /\ [FdNext]_fdVars => IInv'
<1> SUFFICES ASSUME IInv, [FdNext]_fdVars PROVE IInv' OBVIOUS
<1>1. ASSUME NEW p \in Procs, Call(p) PROVE IInv'
  BY <1>1, LocksInv, ClosesInv, SetDeadlineImplInv DEF Call
<1>2. ASSUME NEW p \in Procs, Step(p) PROVE IInv'
  BY <1>2, LocksInv, LockWokenInv, PrepareInv, PrepareStoreInv, SyscallInv, WaitsInv, WaitedInv,
     UnlocksInv, GivesInv, EvictInv, SetsInv, UnblockedInv, DecrefsInv, DestroysInv, FreesInv,
     SysCloseInv, SignalInv, CloseReturnInv
  DEF Step
<1>3. ASSUME NEW a \in Actors, Runtime(a) PROVE IInv'
  BY <1>3, UnblockInv, GoreadyInv, DeadlineInv, ExpireInv, EpollWaitInv, NetpollReadyInv
  DEF Runtime
<1>4. ASSUME NEW m \in Modes, NEW c \in Callbacks, Fire(m, c),
             UNCHANGED << fdmuVars, local, csema, kernel >>
      PROVE  IInv'
  BY <1>4, FireInv
<1>5. ASSUME NEW m \in Modes, Arrive(m) PROVE IInv' BY <1>5, ArriveInv
<1>6. CASE Open BY <1>6, OpenInv
<1>7. CASE UNCHANGED fdVars
  <2>1. /\ UNCHANGED << fdmuVars, local, csema, sysfd >>
        /\ UNCHANGED << closing, dl, run, seq, timer, gpp, pdlock, npc, wake, fired, thrown, todo >>
    BY <1>7 DEF fdVars, pollVars, desc, kernel
  <2> QED BY <2>1, Elsewhere DEF IInv, TypeInv, LockInv
<1> QED BY <1>1, <1>2, <1>3, <1>4, <1>5, <1>6, <1>7 DEF FdNext

(* The invariant holds in every reachable state, whatever goroutines do what  *)
(* with the FD and however many timer functions are on their way.             *)
THEOREM Inductive == FdSpec => []IInv
BY InitInv, NextInv, PTL DEF FdSpec

(* No reference is lost, nothing is closed or freed under anybody's feet or   *)
(* twice, and the runtime does not throw (fd_mutex.go:43-47,                  *)
(* netpoll.go:194-199, 244-305, 548-583, 622-654).                            *)
THEOREM Safe == FdSpec => []FdSafe
<1>1. IInv => FdSafe
  <2> SUFFICES ASSUME IInv PROVE FdSafe OBVIOUS
  <2> USE DEF IInv
  <2>1. /\ fpc \in [Procs -> FPCs] /\ npc \in [Procs -> NPCs] /\ pdlock \in Actors \cup {Free}
        /\ csema \in Nat
    BY DEF TypeInv
  <2>2. refs = Cardinality({p \in Procs : Holds(p)}) /\ (refs > 0 => sysfd) BY DEF RefInv
  <2>3. PICK D : D = {p \in Procs : fpc[p] \in {"destroy", "free", "sysclose", "signal"}
                                      \/ after[p] = "destroy"}
    OBVIOUS
  <2>4. \A p : p \in D <=> p \in Procs /\ Destroys(p) BY <2>3 DEF Destroys
  <2>5. Cardinality(D) + csema <= 1 /\ (D # {} => fdClosed /\ refs = 0)
    <3>1. CASE D = {}
      <4>1. Cardinality(D) = 0 BY <3>1, FS_EmptySet
      <4> QED BY <2>1, <3>1, <4>1 DEF DestroyInv
    <3>2. CASE D # {}
      <4>1. PICK p \in D : TRUE BY <3>2
      <4>2. D = {p} BY <2>4, <4>1 DEF DestroyInv
      <4>3. Cardinality(D) = 1 BY <4>2, FS_Singleton
      <4>4. csema = 0 /\ fdClosed /\ refs = 0 BY <2>4, <4>1 DEF DestroyInv
      <4> QED BY <4>3, <4>4
    <3> QED BY <3>1, <3>2
  <2>6. \A m \in Modes : rwLocked[m] =
          (\E p \in Procs : fpc[p] \in {"reset", "store", "syscall", "waiting", "unlock"} /\ Mode(p) = m)
    BY DEF RefInv, InLock
  <2> QED BY <2>1, <2>2, <2>3, <2>5, <2>6 DEF FdSafe
<1> QED BY <1>1, Inductive, PTL
-----------------------------------------------------------------------------
(***************************************************************************)
(* Why a goroutine is blocked.  ReasonInv is kept by every step that IInv  *)
(* is kept by: an event is not lost between the goroutine that found that  *)
(* it must wait, the kernel and the poller (EventInv, PollerInv); Close    *)
(* and deadlines publish before they look at rg and wg, and the goroutine  *)
(* looks again after it has set them (ErrInv); a deadline to come has a    *)
(* timer for it (TimedInv, HalfInv); and one that was unblocked is to be   *)
(* readied by somebody (WokenInv).                                         *)
(***************************************************************************)

(* An event of m has not got to rg or wg yet. *)
OnItsWay(m) ==
  m \in edge \/ Coming(Poller, m) \/ (m \in event.modes /\ event.tag = fdseq)

(* Since p has found that it must wait, nothing has come that it could miss.  *)
Waiting(p) == npc[p] \notin {"out", "ok", "err"}

EventInv ==
  \A p \in Procs : Waiting(p) =>
    gpp[Mode(p)] = "ready" \/ Mode(p) \notin avail \/ OnItsWay(Mode(p))

PollerInv == event # NoEvent => todo[Poller] = << >>

(* Nobody sleeps, or is about to, whom Close or a deadline has overlooked.    *)
Committed(p) ==
  \/ npc[p] = "commit" /\ gpp[Mode(p)] = "wait"
  \/ npc[p] = "parked" /\ gpp[Mode(p)] = p

ErrInv ==
  \A p \in Procs : Committed(p) /\ CheckErr(Mode(p)) =>
    \E a \in Actors \ {Poller} : Coming(a, Mode(p))

(* A combined timer function that has expired the reads is on the writes.     *)
HalfInv ==
  \A c \in Callbacks :
    todo[c] \in {UREWUW, EWUW} /\ fired[c].fn = << "r", "w" >> => dl["r"] < 0

TimedInv == ~closing => \A m \in Modes : dl[m] > 0 => Timed(m)

WokenInv ==
  \A p \in Procs : npc[p] = "parked" /\ gpp[Mode(p)] # p => \E a \in Actors : p \in wake[a]

ReasonInv == EventInv /\ PollerInv /\ ErrInv /\ HalfInv /\ TimedInv /\ WokenInv


LEMMA ModeIs == ASSUME NEW p PROVE Mode(p) \in Modes
BY DEF Mode, Modes

LEMMA WayKept ==
  ASSUME UNCHANGED << edge, event, fdseq >>, todo'[Poller] = todo[Poller], NEW m, OnItsWay(m)
  PROVE  OnItsWay(m)'
BY DEF OnItsWay, Coming

LEMMA KeepEvents ==
  ASSUME EventInv, scene' = scene, avail' \subseteq avail,
         \A m \in Modes : OnItsWay(m) => OnItsWay(m)',
         \A p \in Procs : Waiting(p)' =>
           \/ gpp'[Mode(p)] = "ready" \/ Mode(p) \notin avail'
           \/ Waiting(p) /\ gpp[Mode(p)] # "ready"
  PROVE  EventInv'
<1> SUFFICES ASSUME NEW p \in Procs, Waiting(p)', gpp'[Mode(p)] # "ready", Mode(p) \in avail'
             PROVE  OnItsWay(Mode(p))'
  BY DEF EventInv, Mode
<1>1. Waiting(p) /\ gpp[Mode(p)] # "ready" /\ Mode(p) \in avail OBVIOUS
<1>2. OnItsWay(Mode(p)) BY <1>1 DEF EventInv
<1>3. PICK m \in Modes : m = Mode(p) BY ModeIs
<1>4. OnItsWay(m)' BY <1>2, <1>3
<1>5. Mode(p)' = m BY <1>3 DEF Mode
<1> QED BY <1>4, <1>5 DEF OnItsWay, Coming

LEMMA KeepErrs ==
  ASSUME ErrInv, scene' = scene, \A a \in Actors \ {Poller} : todo'[a] = todo[a],
         \A p \in Procs : Committed(p)' /\ CheckErr(Mode(p))' => Committed(p) /\ CheckErr(Mode(p))
  PROVE  ErrInv'
<1> SUFFICES ASSUME NEW p \in Procs, Committed(p)', CheckErr(Mode(p))'
             PROVE  \E a \in Actors \ {Poller} : Coming(a, Mode(p))'
  BY DEF ErrInv
<1>1. PICK a \in Actors \ {Poller} : Coming(a, Mode(p)) BY DEF ErrInv
<1>2. Mode(p)' = Mode(p) BY DEF Mode
<1> QED BY <1>1, <1>2 DEF Coming

LEMMA KeepHalf ==
  ASSUME HalfInv, UNCHANGED << fired, dl >>, \A c \in Callbacks : todo'[c] = todo[c]
  PROVE  HalfInv'
BY DEF HalfInv

LEMMA KeepTimed ==
  ASSUME TimedInv, UNCHANGED << closing, dl, seq, timer, fired >>
  PROVE  TimedInv'
BY DEF TimedInv, Timed

(* Steps that leave the poller, the deadlines and what is to be done alone.   *)
LEMMA KeepReasons ==
  ASSUME ReasonInv, UNCHANGED quiet, scene' = scene, avail' \subseteq avail,
         \A p \in Procs : Waiting(p)' =>
           \/ gpp'[Mode(p)] = "ready" \/ Mode(p) \notin avail'
           \/ Waiting(p) /\ gpp[Mode(p)] # "ready",
         \A p \in Procs : Committed(p)' => Committed(p) \/ ~CheckErr(Mode(p)),
         \A p \in Procs : npc'[p] = "parked" /\ gpp'[Mode(p)] # p =>
           npc[p] = "parked" /\ gpp[Mode(p)] # p
  PROVE  ReasonInv'
<1>1. UNCHANGED << closing, fdseq, dl, run, seq, timer, pdlock, todo, wake, fired, edge, event >>
  BY DEF quiet, desc
<1>2. EventInv' BY <1>1, WayKept, KeepEvents DEF ReasonInv
<1>3. \A p \in Procs : CheckErr(Mode(p))' <=> CheckErr(Mode(p)) BY <1>1 DEF CheckErr, Mode
<1>4. ErrInv' BY <1>1, <1>3, KeepErrs DEF ReasonInv
<1>5. HalfInv' /\ TimedInv' /\ PollerInv' BY <1>1, KeepHalf, KeepTimed DEF ReasonInv, PollerInv
<1>6. WokenInv' BY <1>1 DEF ReasonInv, WokenInv, Mode
<1> QED BY <1>2, <1>4, <1>5, <1>6 DEF ReasonInv

(* Steps that move nobody in the poller. *)
LEMMA SameReasons ==
  ASSUME ReasonInv, UNCHANGED << quiet, gpp, npc, scene >>, avail' \subseteq avail
  PROVE  ReasonInv'
<1>1. \A p \in Procs : /\ Waiting(p)' <=> Waiting(p)
                       /\ Committed(p)' <=> Committed(p)
  BY DEF Waiting, Committed, Mode
<1>2. \A p \in Procs : Waiting(p)' => gpp'[Mode(p)] = "ready" \/ (Waiting(p) /\ gpp[Mode(p)] # "ready")
  BY <1>1
<1> QED BY <1>1, <1>2, KeepReasons

(* Steps of p while it holds the lock of its mode. *)
LEMMA OwnReasons ==
  ASSUME IInv, ReasonInv, NEW p \in Procs, InLock(p),
         UNCHANGED quiet, scene' = scene, avail' \subseteq avail,
         npc' = [npc EXCEPT ![p] = npc'[p]], gpp' = [gpp EXCEPT ![Mode(p)] = gpp'[Mode(p)]],
         Waiting(p)' => \/ gpp'[Mode(p)] = "ready" \/ Mode(p) \notin avail'
                        \/ Waiting(p) /\ gpp[Mode(p)] # "ready",
         Committed(p)' => Committed(p) \/ ~CheckErr(Mode(p)),
         npc'[p] = "parked" => gpp'[Mode(p)] = p
  PROVE  ReasonInv'
<1>1. /\ npc \in [Procs -> NPCs] /\ gpp \in [Modes -> {"nil", "ready", "wait"} \cup Procs]
      /\ Mode(p) \in Modes
  BY ModeIs DEF IInv, TypeInv
<1>2. ASSUME NEW q \in Procs, q # p
      PROVE  /\ npc'[q] = npc[q] /\ Mode(q)' = Mode(q)
             /\ npc[q] # "out" => gpp'[Mode(q)] = gpp[Mode(q)]
  <2>1. npc'[q] = npc[q] /\ Mode(q)' = Mode(q) BY <1>1, <1>2 DEF Mode
  <2>2. npc[q] # "out" => Mode(q) # Mode(p)
    BY <1>2 DEF IInv, RoleInv, RoleAt, InLock, RefInv
  <2>3. Mode(q) \in Modes BY ModeIs
  <2> QED BY <1>1, <2>1, <2>2, <2>3
<1>3. ASSUME NEW q \in Procs, q # p
      PROVE  /\ Waiting(q)' => gpp'[Mode(q)] = "ready" \/ (Waiting(q) /\ gpp[Mode(q)] # "ready")
             /\ Committed(q)' => Committed(q)
             /\ npc'[q] = "parked" /\ gpp'[Mode(q)] # q => npc[q] = "parked" /\ gpp[Mode(q)] # q
  <2>1. Waiting(q)' => gpp'[Mode(q)] = "ready" \/ (Waiting(q) /\ gpp[Mode(q)] # "ready")
    BY <1>2, <1>3 DEF Waiting
  <2>2. Committed(q)' => Committed(q) BY <1>2, <1>3 DEF Committed
  <2>3. npc'[q] = "parked" /\ gpp'[Mode(q)] # q => npc[q] = "parked" /\ gpp[Mode(q)] # q
    BY <1>2, <1>3
  <2> QED BY <2>1, <2>2, <2>3
<1>4. \A q \in Procs : Waiting(q)' =>
           \/ gpp'[Mode(q)] = "ready" \/ Mode(q) \notin avail'
           \/ Waiting(q) /\ gpp[Mode(q)] # "ready"
  BY <1>3
<1>5. \A q \in Procs : Committed(q)' => Committed(q) \/ ~CheckErr(Mode(q)) BY <1>3
<1>6. \A q \in Procs : npc'[q] = "parked" /\ gpp'[Mode(q)] # q =>
           npc[q] = "parked" /\ gpp[Mode(q)] # q
  BY <1>3
<1> QED BY <1>4, <1>5, <1>6, KeepReasons

LEMMA PrepareStoreReason ==
  ASSUME IInv, ReasonInv, NEW p \in Procs, PrepareStore(p)
  PROVE  ReasonInv'
<1>1. /\ InLock(p) /\ UNCHANGED << quiet, scene, avail, npc >>
      /\ gpp' = [gpp EXCEPT ![Mode(p)] = "nil"] /\ fpc[p] = "store"
  BY DEF PrepareStore, FGoto, ResetStore, quiet, InLock, kernel
<1>2. npc[p] = "out" BY <1>1 DEF IInv, RoleInv, RoleAt
<1>3. /\ npc \in [Procs -> NPCs] /\ gpp \in [Modes -> {"nil", "ready", "wait"} \cup Procs]
  BY DEF IInv, TypeInv
<1>4. ~Waiting(p)' /\ ~Committed(p)' /\ npc'[p] # "parked"
  BY <1>1, <1>2 DEF Waiting, Committed
<1>5. npc' = [npc EXCEPT ![p] = npc'[p]] BY <1>1, <1>3
<1>6. gpp' = [gpp EXCEPT ![Mode(p)] = gpp'[Mode(p)]] BY <1>1, <1>3, ModeIs
<1> QED BY <1>1, <1>4, <1>5, <1>6, OwnReasons

LEMMA SyscallReason ==
  ASSUME IInv, ReasonInv, NEW p \in Procs, Syscall(p)
  PROVE  ReasonInv'
<1>1. /\ fpc[p] = "syscall" /\ InLock(p) /\ UNCHANGED << quiet, scene, gpp >> /\ avail' \subseteq avail
      /\ \/ npc' = npc
         \/ npc' = [npc EXCEPT ![p] = "wait"] /\ Mode(p) \notin avail /\ avail' = avail
  BY DEF Syscall, FGoto, InLock
<1>2. CASE npc' = npc BY <1>1, <1>2, SameReasons
<1>3. CASE npc' = [npc EXCEPT ![p] = "wait"] /\ Mode(p) \notin avail /\ avail' = avail
  <2>1. /\ npc \in [Procs -> NPCs] /\ gpp \in [Modes -> {"nil", "ready", "wait"} \cup Procs]
    BY DEF IInv, TypeInv
  <2>2. npc'[p] = "wait" BY <1>3, <2>1
  <2>3. ~Committed(p)' /\ npc'[p] # "parked" BY <2>2 DEF Committed
  <2>4. npc' = [npc EXCEPT ![p] = npc'[p]] BY <1>3, <2>1
  <2>5. gpp' = [gpp EXCEPT ![Mode(p)] = gpp'[Mode(p)]] BY <1>1, <2>1, ModeIs
  <2> QED BY <1>1, <1>3, <2>3, <2>4, <2>5, OwnReasons
<1> QED BY <1>1, <1>2, <1>3

LEMMA WaitedReason ==
  ASSUME IInv, ReasonInv, NEW p \in Procs, Waited(p)
  PROVE  ReasonInv'
<1>1. /\ InLock(p) /\ UNCHANGED << quiet, scene, gpp, avail >> /\ npc' = [npc EXCEPT ![p] = "out"]
  BY DEF Waited, FGoto, InLock, kernel
<1>2. /\ npc \in [Procs -> NPCs] /\ gpp \in [Modes -> {"nil", "ready", "wait"} \cup Procs]
  BY DEF IInv, TypeInv
<1>3. npc'[p] = "out" BY <1>1, <1>2
<1>4. ~Waiting(p)' /\ ~Committed(p)' /\ npc'[p] # "parked" BY <1>3 DEF Waiting, Committed
<1>5. npc' = [npc EXCEPT ![p] = npc'[p]] BY <1>1, <1>2
<1>6. gpp' = [gpp EXCEPT ![Mode(p)] = gpp'[Mode(p)]] BY <1>1, <1>2, ModeIs
<1> QED BY <1>1, <1>4, <1>5, <1>6, OwnReasons

(* netpollblock: rg is set before the errors are checked again, and a goroutine *)
(* that goes to sleep has checked them since.                                 *)
LEMMA WaitsReason ==
  ASSUME IInv, ReasonInv, NEW p \in Procs, Waits(p)
  PROVE  ReasonInv'
<1>1. /\ fpc[p] = "waiting" /\ InLock(p) /\ PollWait(p, Mode(p))
      /\ UNCHANGED << quiet, scene, avail >>
  BY DEF Waits, InLock, PollWait, WaitCheck, Block, Recheck, BlockCommit, BlockSwap, WaitRetry,
         local, kernel
<1>2. /\ npc \in [Procs -> NPCs] /\ gpp \in [Modes -> {"nil", "ready", "wait"} \cup Procs]
      /\ Mode(p) \in Modes /\ Mode(p)' = Mode(p)
  BY <1>1, ModeIs DEF IInv, TypeInv, Mode
<1>3. PICK m, x, y : m \in Modes /\ m = Mode(p) /\ x = npc[p] /\ y = gpp[m] BY <1>2
<1>4. \E x1, y1 :
        /\ npc' = [npc EXCEPT ![p] = x1] /\ gpp' = [gpp EXCEPT ![m] = y1]
        /\ \/ x \in {"wait", "errcheck"} /\ x1 \in {"err", "block"} /\ y1 = y
           \/ x = "block" /\ x1 = "ok"
           \/ x = "block" /\ x1 = "recheck" /\ y # "ready"
           \/ x = "recheck" /\ x1 = "swap" /\ y1 = y
           \/ x = "recheck" /\ x1 = "commit" /\ y1 = y /\ ~CheckErr(m)
           \/ x = "commit" /\ x1 = "parked" /\ y = "wait" /\ y1 = p
           \/ x = "commit" /\ x1 = "swap" /\ y1 = y
           \/ x = "swap" /\ x1 = "ok"
           \/ x = "swap" /\ x1 = "errcheck" /\ y # "ready"
  <2>0. gpp = [gpp EXCEPT ![m] = y] BY <1>2, <1>3
  <2>1. CASE WaitCheck(p, m) \/ WaitRetry(p, m)
    BY <1>3, <2>0, <2>1 DEF WaitCheck, WaitRetry, NpGoto
  <2>2. CASE Block(p, m)
    <3>1. CASE y = "ready" BY <1>3, <2>2, <3>1 DEF Block, NpGoto
    <3>2. CASE y # "ready" BY <1>3, <2>2, <3>2 DEF Block, NpGoto
    <3> QED BY <3>1, <3>2
  <2>3. CASE Recheck(p, m)
    <3>1. CASE CheckErr(m) BY <1>3, <2>0, <2>3, <3>1 DEF Recheck, NpGoto
    <3>2. CASE ~CheckErr(m) BY <1>3, <2>0, <2>3, <3>2 DEF Recheck, NpGoto
    <3> QED BY <3>1, <3>2
  <2>4. CASE BlockCommit(p, m)
    <3>1. CASE y = "wait" BY <1>3, <2>4, <3>1 DEF BlockCommit, NpGoto
    <3>2. CASE y # "wait" BY <1>3, <2>0, <2>4, <3>2 DEF BlockCommit, NpGoto
    <3> QED BY <3>1, <3>2
  <2>5. CASE BlockSwap(p, m)
    <3>1. CASE y = "ready" BY <1>3, <2>5, <3>1 DEF BlockSwap, NpGoto
    <3>2. CASE y # "ready" BY <1>3, <2>5, <3>2 DEF BlockSwap, NpGoto
    <3> QED BY <3>1, <3>2
  <2> QED BY <1>1, <1>3, <2>1, <2>2, <2>3, <2>4, <2>5 DEF PollWait
<1>5. PICK x1, y1 :
        /\ npc' = [npc EXCEPT ![p] = x1] /\ gpp' = [gpp EXCEPT ![m] = y1]
        /\ \/ x \in {"wait", "errcheck"} /\ x1 \in {"err", "block"} /\ y1 = y
           \/ x = "block" /\ x1 = "ok"
           \/ x = "block" /\ x1 = "recheck" /\ y # "ready"
           \/ x = "recheck" /\ x1 = "swap" /\ y1 = y
           \/ x = "recheck" /\ x1 = "commit" /\ y1 = y /\ ~CheckErr(m)
           \/ x = "commit" /\ x1 = "parked" /\ y = "wait" /\ y1 = p
           \/ x = "commit" /\ x1 = "swap" /\ y1 = y
           \/ x = "swap" /\ x1 = "ok"
           \/ x = "swap" /\ x1 = "errcheck" /\ y # "ready"
  BY <1>4
<1>6. npc'[p] = x1 /\ gpp'[m] = y1 BY <1>2, <1>3, <1>5
<1>7. Waiting(p)' => gpp'[m] = "ready" \/ (Waiting(p) /\ gpp[m] # "ready")
  BY <1>3, <1>5, <1>6 DEF Waiting
<1>8. Committed(p)' => Committed(p) \/ ~CheckErr(m)
  BY <1>2, <1>3, <1>5, <1>6 DEF Committed
<1>9. npc'[p] = "parked" => gpp'[m] = p BY <1>5, <1>6
<1>10. npc' = [npc EXCEPT ![p] = npc'[p]] /\ gpp' = [gpp EXCEPT ![m] = gpp'[m]]
  BY <1>5, <1>6
<1> QED BY <1>1, <1>3, <1>7, <1>8, <1>9, <1>10, OwnReasons

(* The unblocks of a list are still to come when something else was done.     *)
LEMMA TailComing ==
  ASSUME NEW s \in Unblocking \cup Expiring, s # << >>, NEW m \in Modes,
         NEW i \in DOMAIN s, s[i] = << "unblock", m >>, Head(s) # << "unblock", m >>
  PROVE  \E j \in DOMAIN Tail(s) : Tail(s)[j] = << "unblock", m >>
<1> DEFINE S == {"unblock", "expire"} \X {"r", "w"}
<1>1. UR \in Seq(S) /\ UW \in Seq(S) /\ URW \in Seq(S) /\ << >> \in Seq(S)
  BY DEF UR, UW, URW
<1>2. ERUR \in Seq(S) /\ EWUW \in Seq(S) /\ UREWUW \in Seq(S) /\ ERUREWUW \in Seq(S)
  BY DEF ERUR, EWUW, UREWUW, ERUREWUW
<1>3. s \in Seq(S) BY <1>1, <1>2 DEF Unblocking, Expiring
<1> HIDE DEF S
<1>4. /\ Tail(s) \in Seq(S) /\ Len(Tail(s)) = Len(s) - 1 /\ Head(s) = s[1]
      /\ \A j \in 1 .. Len(Tail(s)) : Tail(s)[j] = s[j + 1]
  BY <1>3, HeadTailProperties
<1>5. i \in 1 .. Len(s) /\ i # 1 /\ Len(s) \in Nat BY <1>3, <1>4
<1>6. i - 1 \in 1 .. Len(Tail(s)) /\ Tail(s)[i - 1] = s[i] BY <1>4, <1>5
<1>7. DOMAIN Tail(s) = 1 .. Len(Tail(s)) BY <1>4
<1> QED BY <1>6, <1>7

LEMMA HeadComing ==
  ASSUME NEW m \in Modes, NEW s \in Unblocking \cup Expiring, s # << >>, Head(s) = << "unblock", m >>
  PROVE  \E i \in DOMAIN s : s[i] = << "unblock", m >>
<1>1. s \in {UR, UW, URW, ERUR, EWUW, UREWUW, ERUREWUW} BY DEF Unblocking, Expiring
<1>2. /\ 1 \in DOMAIN UR /\ UR[1] = Head(UR) /\ 1 \in DOMAIN UW /\ UW[1] = Head(UW)
      /\ 1 \in DOMAIN URW /\ URW[1] = Head(URW) /\ 1 \in DOMAIN ERUR /\ ERUR[1] = Head(ERUR)
  BY DEF UR, UW, URW, ERUR
<1>3. /\ 1 \in DOMAIN EWUW /\ EWUW[1] = Head(EWUW) /\ 1 \in DOMAIN UREWUW /\ UREWUW[1] = Head(UREWUW)
      /\ 1 \in DOMAIN ERUREWUW /\ ERUREWUW[1] = Head(ERUREWUW)
  BY DEF EWUW, UREWUW, ERUREWUW
<1> QED BY <1>1, <1>2, <1>3

LEMMA UnblocksComing ==
  ASSUME NEW ms, NEW m \in Modes, m \in ms
  PROVE  \E i \in DOMAIN Unblocks(ms) : Unblocks(ms)[i] = << "unblock", m >>
<1>1. CASE "r" \in ms /\ "w" \in ms
  <2>1. Unblocks(ms) = URW BY <1>1, UnblocksIs
  <2>2. 1 \in DOMAIN URW /\ 2 \in DOMAIN URW /\ URW[1] = << "unblock", "r" >> /\ URW[2] = << "unblock", "w" >>
    BY DEF URW
  <2> QED BY <2>1, <2>2 DEF Modes
<1>2. CASE m = "r" /\ "w" \notin ms
  <2>1. Unblocks(ms) = << << "unblock", "r" >> >> \o << >> BY <1>2 DEF Unblocks
  <2>2. Unblocks(ms) = UR BY <2>1 DEF UR
  <2>3. 1 \in DOMAIN UR /\ UR[1] = << "unblock", "r" >> BY DEF UR
  <2> QED BY <1>2, <2>2, <2>3
<1>3. CASE m = "w" /\ "r" \notin ms
  <2>1. Unblocks(ms) = << >> \o << << "unblock", "w" >> >> BY <1>3 DEF Unblocks
  <2>2. Unblocks(ms) = UW BY <2>1 DEF UW
  <2>3. 1 \in DOMAIN UW /\ UW[1] = << "unblock", "w" >> BY DEF UW
  <2> QED BY <1>3, <2>2, <2>3
<1> QED BY <1>1, <1>2, <1>3 DEF Modes

LEMMA TwoModes == \A m, n \in Modes : << "unblock", m >> = << "unblock", n >> => m = n
BY Pairs DEF Modes

(* Close: everybody is to be unblocked.                                       *)
LEMMA EvictReason ==
  ASSUME IInv, ReasonInv, NEW p \in Procs, Evict(p)
  PROVE  ReasonInv'
<1>1. /\ closing' = TRUE /\ todo' = [todo EXCEPT ![p] = Unblocks(Modes)] /\ pdlock = Free
      /\ UNCHANGED << dl, gpp, npc, wake, fired, edge, event, fdseq, scene, avail >>
  BY DEF Evict, PollUnblock, kernel
<1>2. /\ todo \in [Actors -> Unblocking \cup Expiring] /\ p \in Actors \ {Poller} /\ Poller \in Actors
      /\ p \notin Callbacks
  BY DEF IInv, TypeInv, Actors
<1>3. todo'[p] = Unblocks(Modes) /\ \A b \in Actors : b # p => todo'[b] = todo[b] BY <1>1, <1>2
<1>4. EventInv'
  <2>1. todo'[Poller] = todo[Poller] BY <1>2, <1>3
  <2>2. \A q \in Procs : Waiting(q)' <=> Waiting(q) BY <1>1 DEF Waiting
  <2> QED BY <1>1, <2>1, <2>2, WayKept, KeepEvents DEF ReasonInv
<1>5. ErrInv'
  <2>1. ASSUME NEW q \in Procs PROVE Coming(p, Mode(q))'
    <3>1. Mode(q)' \in Modes /\ Mode(q)' = Mode(q) BY <1>1, ModeIs DEF Mode
    <3> QED BY <1>3, <3>1, UnblocksComing DEF Coming
  <2> QED BY <1>2, <2>1 DEF ErrInv
<1>6. HalfInv'
  <2>1. \A c \in Callbacks : todo'[c] = todo[c] BY <1>2, <1>3 DEF Actors
  <2> QED BY <1>1, <2>1, KeepHalf DEF ReasonInv
<1>7. TimedInv' BY <1>1 DEF TimedInv
<1>8. PollerInv' BY <1>1, <1>2, <1>3 DEF ReasonInv, PollerInv
<1>9. WokenInv' BY <1>1 DEF ReasonInv, WokenInv, Mode
<1> QED BY <1>4, <1>5, <1>6, <1>7, <1>8, <1>9 DEF ReasonInv

(* Nobody waits for a descriptor that nobody holds.                           *)
LEMMA NobodyWaits ==
  ASSUME IInv, refs = 0, NEW p \in Procs
  PROVE  npc[p] = "out"
<1>1. ~InLock(p) BY HoldsFacts DEF IInv
<1> QED BY <1>1 DEF IInv, RoleInv, RoleAt, InLock

LEMMA NoReasons ==
  ASSUME ReasonInv, \A p \in Procs : npc'[p] = "out",
         PollerInv', HalfInv', TimedInv'
  PROVE  ReasonInv'
<1>1. \A p \in Procs : ~Waiting(p)' /\ ~Committed(p)' /\ npc'[p] # "parked"
  BY DEF Waiting, Committed
<1>2. EventInv' BY <1>1 DEF EventInv
<1>3. ErrInv' BY <1>1 DEF ErrInv
<1>4. WokenInv' BY <1>1 DEF WokenInv
<1> QED BY <1>2, <1>3, <1>4 DEF ReasonInv

LEMMA DestroyReason ==
  ASSUME IInv, ReasonInv, NEW p \in Procs, Destroy(p) \/ Frees(p)
  PROVE  ReasonInv'
<1>1. /\ UNCHANGED << closing, dl, run, seq, timer, todo, npc, fired, event >>
      /\ fpc[p] \in {"destroy", "free"}
  BY DEF Destroy, Frees, PollClose, PollFree, FGoto, desc
<1>2. refs = 0 BY <1>1 DEF IInv, DestroyInv, Destroys
<1>3. \A q \in Procs : npc'[q] = "out" BY <1>1, <1>2, NobodyWaits
<1>4. PollerInv' /\ HalfInv' /\ TimedInv'
  BY <1>1, KeepHalf, KeepTimed DEF ReasonInv, PollerInv
<1> QED BY <1>3, <1>4, NoReasons

LEMMA OpenReason ==
  ASSUME IInv, ReasonInv, Open
  PROVE  ReasonInv'
<1>1. /\ \A p \in Procs : fpc[p] = "idle"
      /\ pdlock = Free /\ dl' = [m \in Modes |-> 0]
      /\ UNCHANGED << todo, npc, fired, event >>
  BY DEF Open, PollOpen
<1>2. \A p \in Procs : npc'[p] = "out" BY <1>1 DEF IInv, RoleInv, RoleAt
<1>3. TimedInv' BY <1>1 DEF TimedInv
<1>4. HalfInv'
  <2>1. \A c \in Callbacks : todo[c] = << >> BY <1>1, Unlocked DEF IInv
  <2>2. << >> \notin {UREWUW, EWUW} BY Lists DEF Expiring
  <2> QED BY <1>1, <2>1, <2>2 DEF HalfInv
<1>5. PollerInv' BY <1>1 DEF ReasonInv, PollerInv
<1> QED BY <1>2, <1>3, <1>4, <1>5, NoReasons

LEMMA SysCloseReason ==
  ASSUME ReasonInv, NEW p \in Procs, SysClose(p)
  PROVE  ReasonInv'
<1>1. UNCHANGED << quiet, gpp, npc, scene >> /\ avail' \subseteq avail
  BY DEF SysClose, pollVars, quiet, desc
<1> QED BY <1>1, SameReasons

(* What arrives is an event, unless the descriptor is being closed.           *)
LEMMA ArriveReason ==
  ASSUME IInv, ReasonInv, NEW m \in Modes, Arrive(m)
  PROVE  ReasonInv'
<1>1. /\ UNCHANGED << desc, gpp, todo, wake, fired, event, npc, scene >>
      /\ avail' = avail \cup {m}
      /\ edge' = IF \E p \in Procs : fpc[p] \in {"free", "sysclose"} THEN edge ELSE edge \cup {m}
  BY DEF Arrive, local
<1>2. UNCHANGED << closing, fdseq, dl, seq, timer >> BY <1>1 DEF desc
<1>3. PollerInv' /\ HalfInv' /\ TimedInv'
  BY <1>1, <1>2, KeepHalf, KeepTimed DEF ReasonInv, PollerInv
<1>4. CASE \E p \in Procs : fpc[p] \in {"free", "sysclose"}
  <2>1. refs = 0 BY <1>4 DEF IInv, DestroyInv, Destroys
  <2>2. \A q \in Procs : npc'[q] = "out" BY <1>1, <2>1, NobodyWaits
  <2> QED BY <1>3, <2>2, NoReasons
<1>5. CASE ~ \E p \in Procs : fpc[p] \in {"free", "sysclose"}
  <2>1. edge' = edge \cup {m} BY <1>1, <1>5
  <2>2. EventInv'
    <3> SUFFICES ASSUME NEW q \in Procs, Waiting(q)', gpp'[Mode(q)] # "ready", Mode(q) \in avail'
                 PROVE  OnItsWay(Mode(q))'
      BY <1>1 DEF EventInv, Mode
    <3>1. Mode(q)' = Mode(q) BY <1>1 DEF Mode
    <3>2. CASE Mode(q) = m BY <2>1, <3>1, <3>2 DEF OnItsWay
    <3>3. CASE Mode(q) # m
      <4>1. Waiting(q) /\ gpp[Mode(q)] # "ready" /\ Mode(q) \in avail
        BY <1>1, <3>3 DEF Waiting
      <4>2. OnItsWay(Mode(q)) BY <4>1 DEF ReasonInv, EventInv
      <4> QED BY <1>1, <1>2, <2>1, <3>1, <4>2 DEF OnItsWay, Coming
    <3> QED BY <3>2, <3>3
  <2>3. ErrInv'
    <3>1. \A q \in Procs : Committed(q)' /\ CheckErr(Mode(q))' => Committed(q) /\ CheckErr(Mode(q))
      BY <1>1, <1>2 DEF Committed, CheckErr, Mode
    <3> QED BY <1>1, <3>1, KeepErrs DEF ReasonInv
  <2>4. WokenInv' BY <1>1 DEF ReasonInv, WokenInv, Mode
  <2> QED BY <1>3, <2>2, <2>3, <2>4 DEF ReasonInv
<1> QED BY <1>4, <1>5

LEMMA NothingComing == ASSUME NEW a, todo[a] = << >>, NEW m PROVE ~Coming(a, m)
BY DEF Coming

(* netpollunblock: whoever was found is to be readied, and an event is noted. *)
LEMMA UnblockReason ==
  ASSUME IInv, ReasonInv, NEW a \in Actors, Unblock(a),
         UNCHANGED << fdmuVars, local, csema, kernel >>
  PROVE  ReasonInv'
<1>1. PICK m, T, x : /\ m = Head(todo[a])[2] /\ T = Tail(todo[a])
                     /\ x = IF a = Poller THEN "ready" ELSE "nil"
  OBVIOUS
<1>2. /\ todo \in [Actors -> Unblocking \cup Expiring] /\ wake \in [Actors -> SUBSET Procs]
      /\ gpp \in [Modes -> {"nil", "ready", "wait"} \cup Procs]
      /\ Poller \in Actors /\ EventInv /\ ErrInv /\ HalfInv /\ WokenInv /\ PollerInv /\ TimedInv
  BY DEF IInv, TypeInv, Actors, ReasonInv
<1>3. /\ todo[a] # << >> /\ Head(todo[a])[1] = "unblock"
      /\ todo' = [todo EXCEPT ![a] = T]
      /\ UNCHANGED << closing, fdseq, dl, run, seq, timer, npc, fired, edge, event, scene, avail >>
  BY <1>1 DEF Unblock, desc, local, kernel
<1>4. \/ todo[a] = UR /\ m = "r" /\ T = << >>
      \/ todo[a] = UW /\ m = "w" /\ T = << >>
      \/ todo[a] = URW /\ m = "r" /\ T = UW
      \/ todo[a] = UREWUW /\ m = "r" /\ T = EWUW
  <2>1. todo[a] \in {UR, UW, URW, ERUR, EWUW, UREWUW, ERUREWUW}
    BY <1>2, <1>3 DEF Unblocking, Expiring
  <2>2. todo[a] \notin {ERUR, EWUW, ERUREWUW} BY <1>3, Heads, Pairs
  <2> QED BY <1>1, <2>1, <2>2, Heads, Pairs
<1>5. m \in Modes /\ Head(todo[a]) = << "unblock", m >> BY <1>4, Heads DEF Modes
<1>6. todo'[a] = T /\ \A b \in Actors : b # a => todo'[b] = todo[b] BY <1>2, <1>3
<1>7. \/ gpp[m] \in {"ready", "nil"} /\ (a = Poller => gpp[m] = "ready") /\ UNCHANGED << gpp, wake >>
      \/ /\ gpp[m] # "ready"
         /\ gpp' = [gpp EXCEPT ![m] = x]
         /\ wake' = [wake EXCEPT ![a] = @ \cup ({gpp[m]} \cap Procs)]
  <2>1. CASE gpp[m] = "ready" \/ (gpp[m] = "nil" /\ a # Poller) BY <1>1, <2>1 DEF Unblock
  <2>2. CASE ~ (gpp[m] = "ready" \/ (gpp[m] = "nil" /\ a # Poller)) BY <1>1, <2>2 DEF Unblock
  <2> QED BY <2>1, <2>2
<1>8. /\ gpp'[m] \in {"ready", "nil"} /\ (a = Poller => gpp'[m] = "ready")
      /\ (gpp[m] = "ready" => gpp'[m] = "ready")
      /\ \A n \in Modes : n # m => gpp'[n] = gpp[n]
  BY <1>1, <1>2, <1>5, <1>7
<1>9. \A q \in Procs : Mode(q) \in Modes /\ Mode(q)' = Mode(q) BY <1>3, ModeIs DEF Mode
<1>10. ASSUME NEW b \in Actors, NEW n \in Modes, n # m, Coming(b, n) PROVE Coming(b, n)'
  <2>1. CASE b # a BY <1>6, <1>10, <2>1 DEF Coming
  <2>2. CASE b = a
    <3>1. PICK i \in DOMAIN todo[a] : todo[a][i] = << "unblock", n >> BY <1>10, <2>2 DEF Coming
    <3>2. Head(todo[a]) # << "unblock", n >> BY <1>5, <1>10, TwoModes
    <3>3. \E j \in DOMAIN T : T[j] = << "unblock", n >> BY <1>1, <1>2, <1>3, <3>1, <3>2, TailComing
    <3> QED BY <1>6, <2>2, <3>3 DEF Coming
  <2> QED BY <2>1, <2>2
<1>11. EventInv'
  <2> SUFFICES ASSUME NEW q \in Procs, Waiting(q)', gpp'[Mode(q)] # "ready", Mode(q) \in avail
               PROVE  OnItsWay(Mode(q))'
    BY <1>3, <1>9 DEF EventInv
  <2>1. Waiting(q) BY <1>3 DEF Waiting
  <2>2. gpp[Mode(q)] # "ready" BY <1>8, <1>9
  <2>3. OnItsWay(Mode(q)) BY <1>2, <2>1, <2>2 DEF EventInv
  <2>4. CASE a # Poller
    <3>1. todo'[Poller] = todo[Poller] BY <1>2, <1>6, <2>4
    <3> QED BY <1>3, <1>9, <2>3, <3>1 DEF OnItsWay, Coming
  <2>5. CASE a = Poller
    <3>1. Mode(q) # m BY <1>8, <2>5
    <3>2. Coming(Poller, Mode(q)) => Coming(Poller, Mode(q))' BY <1>2, <1>9, <1>10, <3>1
    <3> QED BY <1>3, <1>9, <2>3, <3>2 DEF OnItsWay
  <2> QED BY <2>4, <2>5
<1>12. ErrInv'
  <2> SUFFICES ASSUME NEW q \in Procs, Committed(q)', CheckErr(Mode(q))'
               PROVE  \E b \in Actors \ {Poller} : Coming(b, Mode(q))'
    BY DEF ErrInv
  <2>1. Mode(q) # m BY <1>8, <1>9 DEF Committed
  <2>2. Committed(q) /\ CheckErr(Mode(q)) BY <1>3, <1>8, <1>9, <2>1 DEF Committed, CheckErr
  <2>3. PICK b \in Actors \ {Poller} : Coming(b, Mode(q)) BY <1>2, <2>2 DEF ErrInv
  <2>4. Coming(b, Mode(q))' BY <1>9, <1>10, <2>1, <2>3 DEF Coming
  <2> QED BY <2>4
<1>13. HalfInv'
  <2> SUFFICES ASSUME NEW c \in Callbacks, todo'[c] \in {UREWUW, EWUW}, fired[c].fn = << "r", "w" >>
               PROVE  dl["r"] < 0
    BY <1>3 DEF HalfInv
  <2>1. c \in Actors BY DEF Actors
  <2>2. todo[c] \in {UREWUW, EWUW}
    <3>1. CASE c # a BY <1>6, <2>1, <3>1
    <3>2. CASE c = a
      <4>1. T \in {UREWUW, EWUW} BY <1>6, <3>2
      <4>2. T \notin {<< >>, UW} BY <4>1, Lists DEF Unblocking, Expiring
      <4> QED BY <1>4, <3>2, <4>2
    <3> QED BY <3>1, <3>2
  <2> QED BY <1>2, <2>2 DEF HalfInv
<1>14. TimedInv' BY <1>2, <1>3, KeepTimed
<1>15. PollerInv' BY <1>2, <1>3, <1>6 DEF PollerInv
<1>16. WokenInv'
  <2> SUFFICES ASSUME NEW q \in Procs, npc[q] = "parked", gpp'[Mode(q)] # q
               PROVE  \E b \in Actors : q \in wake'[b]
    BY <1>3, <1>9 DEF WokenInv
  <2>1. CASE gpp[Mode(q)] = q
    <3>1. Mode(q) = m BY <1>8, <1>9, <2>1
    <3>2. wake' = [wake EXCEPT ![a] = @ \cup ({gpp[m]} \cap Procs)] BY <1>7, <2>1, <3>1
    <3>3. q \in wake'[a] BY <1>2, <2>1, <3>1, <3>2
    <3> QED BY <3>3
  <2>2. CASE gpp[Mode(q)] # q
    <3>1. PICK b \in Actors : q \in wake[b] BY <1>2, <2>2 DEF WokenInv
    <3>2. q \in wake'[b]
      <4>1. CASE UNCHANGED wake BY <3>1, <4>1
      <4>2. CASE wake' = [wake EXCEPT ![a] = @ \cup ({gpp[m]} \cap Procs)] BY <1>2, <3>1, <4>2
      <4> QED BY <1>7, <4>1, <4>2
    <3> QED BY <3>2
  <2> QED BY <2>1, <2>2
<1> QED BY <1>11, <1>12, <1>13, <1>14, <1>15, <1>16 DEF ReasonInv

LEMMA GoreadyReason ==
  ASSUME IInv, ReasonInv, NEW a \in Actors, Goready(a), UNCHANGED << fdmuVars, local, csema, kernel >>
  PROVE  ReasonInv'
<1>1. PICK g \in wake[a] :
        /\ npc' = [npc EXCEPT ![g] = "swap"]
        /\ wake' = [wake EXCEPT ![a] = @ \ {g}]
  BY DEF Goready
<1>2. UNCHANGED << closing, fdseq, dl, seq, timer, gpp, todo, fired, edge, event, scene, avail >>
  BY DEF Goready, desc, local, kernel
<1>3. /\ npc \in [Procs -> NPCs] /\ wake \in [Actors -> SUBSET Procs] /\ g \in Procs
      /\ npc[g] = "parked" /\ Poller \in Actors
  BY DEF IInv, TypeInv, WaitInv, Actors
<1>4. npc'[g] = "swap" /\ \A q \in Procs : q # g => npc'[q] = npc[q] BY <1>1, <1>3
<1>5. \A q \in Procs : Waiting(q)' <=> Waiting(q) BY <1>3, <1>4 DEF Waiting
<1>6. EventInv'
  <2>1. \A q \in Procs : Waiting(q)' => gpp'[Mode(q)] = "ready" \/ (Waiting(q) /\ gpp[Mode(q)] # "ready")
    BY <1>2, <1>5
  <2> QED BY <1>2, <2>1, WayKept, KeepEvents DEF ReasonInv
<1>7. ErrInv'
  <2>1. \A q \in Procs : Committed(q)' => Committed(q) BY <1>2, <1>4 DEF Committed, Mode
  <2>2. \A q \in Procs : CheckErr(Mode(q))' => CheckErr(Mode(q)) BY <1>2 DEF CheckErr, Mode
  <2> QED BY <1>2, <2>1, <2>2, KeepErrs DEF ReasonInv
<1>8. HalfInv' /\ TimedInv' /\ PollerInv'
  BY <1>2, KeepHalf, KeepTimed DEF ReasonInv, PollerInv
<1>9. WokenInv'
  <2> SUFFICES ASSUME NEW q \in Procs, npc'[q] = "parked", gpp[Mode(q)] # q
               PROVE  \E b \in Actors : q \in wake'[b]
    BY <1>2 DEF WokenInv, Mode
  <2>1. q # g /\ npc[q] = "parked" BY <1>4
  <2>2. PICK b \in Actors : q \in wake[b] BY <2>1 DEF ReasonInv, WokenInv
  <2>3. q \in wake'[b] BY <1>1, <1>3, <2>1, <2>2
  <2> QED BY <2>3
<1> QED BY <1>6, <1>7, <1>8, <1>9 DEF ReasonInv

(* The poller takes the pending events, and drops those of an earlier use.    *)
LEMMA PollerReason ==
  ASSUME IInv, ReasonInv, EpollWait \/ NetpollReady, UNCHANGED << fdmuVars, local, csema, kernel >>
  PROVE  ReasonInv'
<1>1. UNCHANGED << closing, fdseq, dl, seq, timer, gpp, npc, wake, fired, scene, avail >>
  BY DEF EpollWait, NetpollReady, desc, local, kernel
<1>2. todo \in [Actors -> Unblocking \cup Expiring] /\ Poller \in Actors
  BY DEF IInv, TypeInv, Actors
<1>3. \A b \in Actors \ {Poller} : todo'[b] = todo[b] BY <1>2 DEF EpollWait, NetpollReady
<1>4. \A q \in Procs : /\ Waiting(q)' <=> Waiting(q)
                       /\ Committed(q)' <=> Committed(q)
                       /\ CheckErr(Mode(q))' <=> CheckErr(Mode(q))
  BY <1>1 DEF Waiting, Committed, CheckErr, Mode
<1>5. ErrInv' BY <1>1, <1>3, <1>4, KeepErrs DEF ReasonInv
<1>6. HalfInv' /\ TimedInv'
  <2>1. \A c \in Callbacks : c \in Actors \ {Poller} BY DEF Actors
  <2> QED BY <1>1, <1>3, <2>1, KeepHalf, KeepTimed DEF ReasonInv
<1>7. WokenInv' BY <1>1 DEF ReasonInv, WokenInv, Mode
<1>8. PollerInv' /\ \A m \in Modes : OnItsWay(m) => OnItsWay(m)'
  <2>1. CASE EpollWait
    <3>1. /\ event = NoEvent /\ todo[Poller] = << >> /\ UNCHANGED todo
          /\ event' = [modes |-> edge, tag |-> fdseq]
      BY <2>1 DEF EpollWait
    <3>2. \A m \in Modes : OnItsWay(m) => m \in edge
      BY <3>1, NothingComing DEF OnItsWay, NoEvent
    <3>3. \A m \in Modes : m \in edge => OnItsWay(m)' BY <1>1, <3>1 DEF OnItsWay
    <3> QED BY <3>1, <3>2, <3>3 DEF PollerInv
  <2>2. CASE NetpollReady
    <3>1. PICK T : T = IF fdseq = event.tag THEN Unblocks(event.modes) ELSE << >> OBVIOUS
    <3>2. /\ event # NoEvent /\ event' = NoEvent /\ todo' = [todo EXCEPT ![Poller] = T] /\ edge' = edge
      BY <2>2, <3>1 DEF NetpollReady
    <3>3. todo[Poller] = << >> /\ todo'[Poller] = T BY <1>2, <3>2 DEF ReasonInv, PollerInv
    <3>4. ASSUME NEW m \in Modes, OnItsWay(m) PROVE OnItsWay(m)'
      <4>1. CASE m \in edge BY <3>2, <4>1 DEF OnItsWay
      <4>2. CASE m \in event.modes /\ event.tag = fdseq
        <5>1. T = Unblocks(event.modes) BY <3>1, <4>2
        <5>2. Coming(Poller, m)' BY <3>3, <4>2, <5>1, UnblocksComing DEF Coming
        <5> QED BY <5>2 DEF OnItsWay
      <4> QED BY <3>3, <3>4, <4>1, <4>2, NothingComing DEF OnItsWay
    <3> QED BY <3>2, <3>4 DEF PollerInv
  <2> QED BY <2>1, <2>2
<1>9. EventInv'
  <2>1. \A q \in Procs : Waiting(q)' => gpp'[Mode(q)] = "ready" \/ (Waiting(q) /\ gpp[Mode(q)] # "ready")
    BY <1>1, <1>4
  <2> QED BY <1>1, <1>8, <2>1, KeepEvents DEF ReasonInv
<1> QED BY <1>5, <1>6, <1>7, <1>8, <1>9 DEF ReasonInv

(* The timer t, which is not stale, is for the deadline of m, among others.   *)
Covers(t, m) == t # Stopped /\ t.seq = seq[t.fn[1]] /\ \E i \in DOMAIN t.fn : t.fn[i] = m

LEMMA TimedIs ==
  ASSUME NEW m
  PROVE  Timed(m) <=> \/ \E k \in Modes : Covers(timer[k], m)
                      \/ \E c \in Callbacks : Covers(fired[c], m)
BY DEF Timed, Covers, Modes

LEMMA TimedIsNext ==
  ASSUME NEW m
  PROVE  Timed(m)' <=> \/ \E k \in Modes : Covers(timer[k], m)'
                       \/ \E c \in Callbacks : Covers(fired[c], m)'
BY DEF Timed, Covers, Modes

LEMMA WhatItCovers ==
  ASSUME NEW t \in Timers, NEW m \in Modes
  PROVE  /\ Covers(t, m) => Matched(t, t.fn[1])
         /\ Covers(t, m) /\ t.fn # << "r", "w" >> => t.fn = << m >> /\ t.fn[1] = m
         /\ t.fn = << "r", "w" >> => t.fn[1] = "r"
         /\ Covers(t, m) => t.fn[1] \in Modes
<1>1. ASSUME Covers(t, m) PROVE t.fn[1] \in Modes /\ t.fn \in Fns
  BY <1>1, TimerFacts DEF Covers
<1>2. ASSUME Covers(t, m), t.fn # << "r", "w" >> PROVE t.fn = << m >> /\ t.fn[1] = m
  <2>1. PICK i \in DOMAIN t.fn : t.fn[i] = m BY <1>2 DEF Covers
  <2>2. t.fn = << "r" >> \/ t.fn = << "w" >> BY <1>1, <1>2 DEF Fns
  <2>3. CASE t.fn = << "r" >> BY <2>1, <2>3, Functions
  <2>4. CASE t.fn = << "w" >> BY <2>1, <2>4, Functions
  <2> QED BY <2>2, <2>3, <2>4
<1>3. Covers(t, m) => Matched(t, t.fn[1]) BY DEF Covers, Matched
<1> QED BY <1>1, <1>2, <1>3, Functions

LEMMA FireReason ==
  ASSUME IInv, ReasonInv, NEW m \in Modes, NEW c \in Callbacks, Fire(m, c),
         UNCHANGED << fdmuVars, local, csema, kernel >>
  PROVE  ReasonInv'
<1>1. /\ fired[c] = Stopped /\ todo[c] = << >>
      /\ fired' = [fired EXCEPT ![c] = timer[m]]
      /\ timer' = [timer EXCEPT ![m] = Stopped]
      /\ UNCHANGED << closing, fdseq, dl, seq, gpp, npc, todo, wake, edge, event, scene, avail >>
  BY DEF Fire, local, kernel
<1>2. timer \in [Modes -> Timers] /\ fired \in [Callbacks -> Timers] BY DEF IInv, TypeInv
<1>3. /\ fired'[c] = timer[m] /\ \A d \in Callbacks : d # c => fired'[d] = fired[d]
      /\ \A k \in Modes : k # m => timer'[k] = timer[k]
  BY <1>1, <1>2
<1>4. \A q \in Procs : /\ Waiting(q)' <=> Waiting(q)
                       /\ Committed(q)' <=> Committed(q)
                       /\ CheckErr(Mode(q))' <=> CheckErr(Mode(q))
  BY <1>1 DEF Waiting, Committed, CheckErr, Mode
<1>5. EventInv'
  <2>1. \A q \in Procs : Waiting(q)' => gpp'[Mode(q)] = "ready" \/ (Waiting(q) /\ gpp[Mode(q)] # "ready")
    BY <1>1, <1>4
  <2> QED BY <1>1, <2>1, WayKept, KeepEvents DEF ReasonInv
<1>6. ErrInv' BY <1>1, <1>4, KeepErrs DEF ReasonInv
<1>7. HalfInv'
  <2>1. << >> \notin {UREWUW, EWUW} BY Lists DEF Expiring
  <2> QED BY <1>1, <1>3, <2>1 DEF ReasonInv, HalfInv
<1>8. TimedInv'
  <2> SUFFICES ASSUME ~closing, NEW n \in Modes, dl[n] > 0 PROVE Timed(n)'
    BY <1>1 DEF TimedInv
  <2>1. Timed(n) BY DEF ReasonInv, TimedInv
  <2>2. CASE \E k \in Modes : Covers(timer[k], n)
    <3>1. PICK k \in Modes : Covers(timer[k], n) BY <2>2
    <3>2. CASE k = m
      <4>1. Covers(fired[c], n)' BY <1>1, <1>3, <3>1, <3>2 DEF Covers
      <4> QED BY <4>1, TimedIsNext
    <3>3. CASE k # m
      <4>1. Covers(timer[k], n)' BY <1>1, <1>3, <3>1, <3>3 DEF Covers
      <4> QED BY <4>1, TimedIsNext
    <3> QED BY <3>2, <3>3
  <2>3. CASE \E d \in Callbacks : Covers(fired[d], n)
    <3>1. PICK d \in Callbacks : Covers(fired[d], n) BY <2>3
    <3>2. d # c BY <1>1, <3>1 DEF Covers
    <3>3. Covers(fired[d], n)' BY <1>1, <1>3, <3>1, <3>2 DEF Covers
    <3> QED BY <3>3, TimedIsNext
  <2> QED BY <2>1, <2>2, <2>3, TimedIs
<1>9. PollerInv' /\ WokenInv' BY <1>1 DEF ReasonInv, PollerInv, WokenInv, Mode
<1> QED BY <1>5, <1>6, <1>7, <1>8, <1>9 DEF ReasonInv

LEMMA DeadlineReason ==
  ASSUME IInv, ReasonInv, NEW c \in Callbacks, Deadline(c), UNCHANGED << fdmuVars, local, csema, kernel >>
  PROVE  ReasonInv'
<1>1. /\ fired[c] # Stopped /\ todo[c] = << >>
      /\ UNCHANGED << closing, fdseq, dl, seq, timer, gpp, npc, wake, edge, event, scene, avail >>
      /\ \/ /\ fired[c].seq # seq[fired[c].fn[1]]
            /\ fired' = [fired EXCEPT ![c] = Stopped] /\ todo' = todo
         \/ todo' = [todo EXCEPT ![c] = Expires(fired[c].fn)] /\ fired' = fired
  BY DEF Deadline, desc, local, kernel
<1>2. /\ todo \in [Actors -> Unblocking \cup Expiring] /\ fired \in [Callbacks -> Timers]
      /\ c \in Actors /\ c # Poller
  BY DEF IInv, TypeInv, Actors
<1>3. \A b \in Actors : b # c => todo'[b] = todo[b] BY <1>1, <1>2
<1>4. \A q \in Procs : /\ Waiting(q)' <=> Waiting(q)
                       /\ Committed(q)' <=> Committed(q)
                       /\ CheckErr(Mode(q))' <=> CheckErr(Mode(q))
  BY <1>1 DEF Waiting, Committed, CheckErr, Mode
<1>5. EventInv'
  <2>1. \A q \in Procs : Waiting(q)' => gpp'[Mode(q)] = "ready" \/ (Waiting(q) /\ gpp[Mode(q)] # "ready")
    BY <1>1, <1>4
  <2>2. todo'[Poller] = todo[Poller] BY <1>2, <1>3 DEF Actors
  <2> QED BY <1>1, <2>1, <2>2, WayKept, KeepEvents DEF ReasonInv
<1>6. ErrInv'
  <2> SUFFICES ASSUME NEW q \in Procs, Committed(q)', CheckErr(Mode(q))'
               PROVE  \E b \in Actors \ {Poller} : Coming(b, Mode(q))'
    BY DEF ErrInv
  <2>1. PICK b \in Actors \ {Poller} : Coming(b, Mode(q)) BY <1>4 DEF ReasonInv, ErrInv
  <2>2. b # c BY <1>1, <2>1, NothingComing
  <2>3. Coming(b, Mode(q))' BY <1>1, <1>3, <2>1, <2>2 DEF Coming, Mode
  <2> QED BY <2>3
<1>7. HalfInv'
  <2> SUFFICES ASSUME NEW d \in Callbacks, todo'[d] \in {UREWUW, EWUW}, fired'[d].fn = << "r", "w" >>
               PROVE  dl["r"] < 0
    BY <1>1 DEF HalfInv
  <2>1. d \in Actors BY DEF Actors
  <2>2. d # c
    <3> SUFFICES ASSUME d = c PROVE FALSE OBVIOUS
    <3>1. << >> \notin {UREWUW, EWUW} /\ ERUREWUW \notin {UREWUW, EWUW} BY Lists DEF Expiring
    <3>2. todo' = [todo EXCEPT ![c] = Expires(fired[c].fn)] /\ fired' = fired BY <1>1, <3>1
    <3>3. todo'[c] = ERUREWUW BY <1>2, <3>2, ExpiresIs
    <3> QED BY <3>1, <3>3
  <2>3. todo'[d] = todo[d] /\ fired'[d] = fired[d] BY <1>1, <1>2, <1>3, <2>1, <2>2
  <2> QED BY <2>3 DEF ReasonInv, HalfInv
<1>8. TimedInv'
  <2> SUFFICES ASSUME ~closing, NEW n \in Modes, dl[n] > 0 PROVE Timed(n)'
    BY <1>1 DEF TimedInv
  <2>1. Timed(n) BY DEF ReasonInv, TimedInv
  <2>2. CASE \E k \in Modes : Covers(timer[k], n)
    <3>1. PICK k \in Modes : Covers(timer[k], n) BY <2>2
    <3>2. Covers(timer[k], n)' BY <1>1, <3>1 DEF Covers
    <3> QED BY <3>2, TimedIsNext
  <2>3. CASE \E d \in Callbacks : Covers(fired[d], n)
    <3>1. PICK d \in Callbacks : Covers(fired[d], n) BY <2>3
    <3>2. fired'[d] = fired[d] BY <1>1, <1>2, <3>1 DEF Covers
    <3>3. Covers(fired[d], n)' BY <1>1, <3>1, <3>2 DEF Covers
    <3> QED BY <3>3, TimedIsNext
  <2> QED BY <2>1, <2>2, <2>3, TimedIs
<1>9. PollerInv' /\ WokenInv'
  <2>1. todo'[Poller] = todo[Poller] BY <1>2, <1>3 DEF Actors
  <2> QED BY <1>1, <2>1 DEF ReasonInv, PollerInv, WokenInv, Mode
<1> QED BY <1>5, <1>6, <1>7, <1>8, <1>9 DEF ReasonInv

(* A deadline expires: those it is for are unblocked next.                    *)
LEMMA ExpireReason ==
  ASSUME IInv, ReasonInv, NEW c \in Callbacks, Expire(c), UNCHANGED << fdmuVars, local, csema, kernel >>
  PROVE  ReasonInv'
<1>1. PICK m, T, n : m = Head(todo[c])[2] /\ T = Tail(todo[c]) /\ n = Len(todo[c]) OBVIOUS
<1>2. /\ timer \in [Modes -> Timers] /\ fired \in [Callbacks -> Timers]
      /\ todo \in [Actors -> Unblocking \cup Expiring] /\ dl \in [Modes -> Int]
      /\ c \in Actors /\ c # Poller /\ Poller \in Actors /\ CallbackAt(c)
  BY DEF IInv, TypeInv, Actors, LockInv
<1>3. /\ todo[c] # << >> /\ Head(todo[c])[1] = "expire"
      /\ dl' = [dl EXCEPT ![m] = -1] /\ todo' = [todo EXCEPT ![c] = T]
      /\ fired' = IF n = 2 THEN [fired EXCEPT ![c] = Stopped] ELSE fired
      /\ UNCHANGED << closing, fdseq, seq, timer, gpp, npc, wake, edge, event, scene, avail >>
  BY <1>1 DEF Expire, local, kernel
<1>4. \/ todo[c] = ERUR /\ m = "r" /\ T = UR /\ n = 2
      \/ todo[c] = EWUW /\ m = "w" /\ T = UW /\ n = 2
      \/ todo[c] = ERUREWUW /\ m = "r" /\ T = UREWUW /\ n = 4
  <2>1. todo[c] \in {UR, UW, URW, ERUR, EWUW, UREWUW, ERUREWUW}
    BY <1>2, <1>3 DEF Unblocking, Expiring
  <2>2. todo[c] \notin {UR, UW, URW, UREWUW} BY <1>3, Heads, Pairs
  <2> QED BY <1>1, <2>1, <2>2, Heads, Pairs
<1>5. m \in Modes /\ T # << >> /\ T \in Unblocking \cup Expiring /\ Head(T) = << "unblock", m >>
  <2>1. UR # << >> /\ UW # << >> /\ UREWUW # << >> BY Lists DEF Expiring
  <2> QED BY <1>4, <2>1, Heads DEF Modes, Unblocking, Expiring
<1>6. todo'[c] = T /\ \A b \in Actors : b # c => todo'[b] = todo[b] BY <1>2, <1>3
<1>7. /\ n # 2 => fired'[c] = fired[c]
      /\ n = 2 => fired'[c] = Stopped
      /\ \A d \in Callbacks : d # c => fired'[d] = fired[d]
  BY <1>2, <1>3
<1>8. dl'[m] = -1 /\ \A k \in Modes : k # m => dl'[k] = dl[k] BY <1>2, <1>3, <1>5
<1>9. \A q \in Procs : /\ Waiting(q)' <=> Waiting(q)
                       /\ Committed(q)' <=> Committed(q)
                       /\ Mode(q)' = Mode(q) /\ Mode(q) \in Modes
  BY <1>3, ModeIs DEF Waiting, Committed, Mode
<1>10. EventInv'
  <2>1. \A q \in Procs : Waiting(q)' => gpp'[Mode(q)] = "ready" \/ (Waiting(q) /\ gpp[Mode(q)] # "ready")
    BY <1>3, <1>9
  <2>2. todo'[Poller] = todo[Poller] BY <1>2, <1>6
  <2> QED BY <1>3, <2>1, <2>2, WayKept, KeepEvents DEF ReasonInv
<1>11. ErrInv'
  <2> SUFFICES ASSUME NEW q \in Procs, Committed(q)', CheckErr(Mode(q))'
               PROVE  \E b \in Actors \ {Poller} : Coming(b, Mode(q))'
    BY DEF ErrInv
  <2>1. CASE Mode(q) = m
    <3>1. \E i \in DOMAIN T : T[i] = << "unblock", m >> BY <1>5, HeadComing
    <3>2. Coming(c, Mode(q))' BY <1>6, <1>9, <2>1, <3>1 DEF Coming
    <3> QED BY <1>2, <3>2
  <2>2. CASE Mode(q) # m
    <3>1. CheckErr(Mode(q)) BY <1>3, <1>8, <1>9, <2>2 DEF CheckErr
    <3>2. PICK b \in Actors \ {Poller} : Coming(b, Mode(q)) BY <1>9, <3>1 DEF ReasonInv, ErrInv
    <3>3. Coming(b, Mode(q))'
      <4>1. CASE b # c BY <1>6, <1>9, <3>2, <4>1 DEF Coming
      <4>2. CASE b = c
        <5>1. PICK i \in DOMAIN todo[c] : todo[c][i] = << "unblock", Mode(q) >> BY <3>2, <4>2 DEF Coming
        <5>2. Head(todo[c]) # << "unblock", Mode(q) >>
          <6>1. Head(todo[c]) \in {<< "expire", "r" >>, << "expire", "w" >>} BY <1>4, Heads
          <6>2. << "unblock", Mode(q) >>[1] = "unblock" OBVIOUS
          <6> QED BY <6>1, <6>2, Pairs
        <5>3. \E j \in DOMAIN T : T[j] = << "unblock", Mode(q) >>
          BY <1>1, <1>2, <1>3, <1>9, <5>1, <5>2, TailComing
        <5> QED BY <1>6, <1>9, <4>2, <5>3 DEF Coming
      <4> QED BY <4>1, <4>2
    <3> QED BY <3>3
  <2> QED BY <2>1, <2>2
<1>12. HalfInv'
  <2> SUFFICES ASSUME NEW d \in Callbacks, todo'[d] \in {UREWUW, EWUW}, fired'[d].fn = << "r", "w" >>
               PROVE  dl'["r"] < 0
    BY DEF HalfInv
  <2>1. d \in Actors /\ "r" \in Modes BY DEF Actors, Modes
  <2>2. CASE d # c
    <3>1. todo[d] \in {UREWUW, EWUW} /\ fired[d].fn = << "r", "w" >> BY <1>6, <1>7, <2>1, <2>2
    <3>2. dl["r"] < 0 BY <3>1 DEF ReasonInv, HalfInv
    <3> QED BY <1>8, <2>1, <3>2
  <2>3. CASE d = c
    <3>1. UR \notin {UREWUW, EWUW} /\ UW \notin {UREWUW, EWUW} BY Lists DEF Unblocking, Expiring
    <3>2. m = "r" BY <1>4, <1>6, <2>3, <3>1
    <3> QED BY <1>8, <3>2
  <2> QED BY <2>2, <2>3
<1>13. TimedInv'
  <2> SUFFICES ASSUME ~closing, NEW k \in Modes, dl'[k] > 0 PROVE Timed(k)'
    BY <1>3 DEF TimedInv
  <2>1. k # m /\ dl[k] > 0 BY <1>8
  <2>2. Timed(k) BY <2>1 DEF ReasonInv, TimedInv
  <2>3. CASE \E j \in Modes : Covers(timer[j], k)
    <3>1. PICK j \in Modes : Covers(timer[j], k) BY <2>3
    <3>2. Covers(timer[j], k)' BY <1>3, <3>1 DEF Covers
    <3> QED BY <3>2, TimedIsNext
  <2>4. CASE \E d \in Callbacks : Covers(fired[d], k)
    <3>1. PICK d \in Callbacks : Covers(fired[d], k) BY <2>4
    <3>2. fired'[d] = fired[d]
      <4> SUFFICES ASSUME d = c, n = 2 PROVE FALSE BY <1>7
      <4>1. \/ fired[c].fn = << k >>
            \/ fired[c].fn = << "r", "w" >>
        BY <1>2, <3>1, WhatItCovers
      <4>2. CASE todo[c] = ERUR /\ m = "r"
        <5>1. fired[c].fn = << "r" >> BY <1>2, <4>2 DEF CallbackAt
        <5>2. k = "w" BY <2>1, <4>2 DEF Modes
        <5> QED BY <4>1, <5>1, <5>2, Functions
      <4>3. CASE todo[c] = EWUW /\ m = "w"
        <5>1. k = "r" BY <2>1, <4>3 DEF Modes
        <5>2. fired[c].fn = << "r", "w" >> \/ fired[c].fn = << "w" >> BY <1>2, <4>3 DEF CallbackAt
        <5>3. fired[c].fn = << "r", "w" >> BY <4>1, <5>1, <5>2, Functions
        <5>4. dl["r"] < 0 BY <4>3, <5>3 DEF ReasonInv, HalfInv
        <5>5. dl["r"] \in Int BY <1>2 DEF Modes
        <5> QED BY <2>1, <5>1, <5>4, <5>5
      <4> QED BY <1>4, <4>2, <4>3
    <3>3. Covers(fired[d], k)' BY <1>3, <3>1, <3>2 DEF Covers
    <3> QED BY <3>3, TimedIsNext
  <2> QED BY <2>2, <2>3, <2>4, TimedIs
<1>14. PollerInv' /\ WokenInv'
  <2>1. todo'[Poller] = todo[Poller] BY <1>2, <1>6
  <2> QED BY <1>3, <2>1 DEF ReasonInv, PollerInv, WokenInv, Mode
<1> QED BY <1>10, <1>11, <1>12, <1>13, <1>14 DEF ReasonInv

(* A deadline in the future gets a timer, one in the past unblocks.           *)
LEMMA SetsReason ==
  ASSUME IInv, ReasonInv, NEW p \in Procs, Sets(p)
  PROVE  ReasonInv'
<1>1. PICK ms \in {{"r"}, {"w"}, {"r", "w"}}, d \in {-1, 0} \cup Deadlines : SetDeadline(p, ms, d)
  BY DEF Sets
<1>2. /\ pdlock = Free
      /\ UNCHANGED << closing, fdseq, gpp, npc, wake, fired, edge, event, scene, avail >>
  BY <1>1 DEF SetDeadline, Sets, kernel
<1>3. /\ todo \in [Actors -> Unblocking \cup Expiring] /\ dl \in [Modes -> Int]
      /\ run \in [Modes -> BOOLEAN] /\ seq \in [Modes -> Nat]
      /\ timer \in [Modes -> Timers] /\ fired \in [Callbacks -> Timers]
      /\ TimerInv /\ p \in Actors \ {Poller} /\ Poller \in Actors
      /\ "r" \in Modes /\ "w" \in Modes
      /\ \A b \in Procs \cup Callbacks : todo[b] = << >>
  BY <1>2, Unlocked DEF IInv, TypeInv, Actors, Modes
<1>4. CASE closing
  <2>1. UNCHANGED << dl, run, seq, timer, todo, pdlock >> BY <1>1, <1>4 DEF SetDeadline
  <2> QED BY <1>2, <2>1, SameReasons DEF quiet, desc
<1>5. CASE ~closing
  <2>1. PICK new : new = [m \in Modes |-> IF m \in ms THEN d ELSE dl[m]] OBVIOUS
  <2>2. PICK combo : combo = BothMode(new) OBVIOUS
  <2>3. PICK arm : arm = [m \in Modes |-> new[m] > 0 /\ (m = "r" \/ ~combo)] OBVIOUS
  <2>4. PICK keep : keep = [m \in Modes |-> run[m] /\ new[m] = dl[m] /\ combo = BothMode(dl)] OBVIOUS
  <2>5. PICK fn : fn = [m \in Modes |-> IF combo THEN << "r", "w" >> ELSE << m >>] OBVIOUS
  <2>6. PICK past : past = {m \in Modes : new[m] < 0} OBVIOUS
  <2>7. /\ dl' = new
        /\ seq' = [m \in Modes |-> IF run[m] /\ ~keep[m] THEN seq[m] + 1 ELSE seq[m]]
        /\ timer' = [m \in Modes |->
               IF keep[m] THEN timer[m]
               ELSE IF arm[m] THEN [fn |-> fn[m], seq |-> seq'[m]] ELSE Stopped]
        /\ todo' = [todo EXCEPT ![p] = Unblocks(past)]
    BY <1>1, <1>5, <2>1, <2>2, <2>3, <2>4, <2>5, <2>6 DEF SetDeadline
  <2>8. todo'[p] = Unblocks(past) /\ \A b \in Actors : b # p => todo'[b] = todo[b] BY <1>3, <2>7
  <2>9. \A q \in Procs : /\ Waiting(q)' <=> Waiting(q)
                         /\ Committed(q)' <=> Committed(q)
                         /\ Mode(q)' = Mode(q) /\ Mode(q) \in Modes
    BY <1>2, ModeIs DEF Waiting, Committed, Mode
  <2>10. todo'[Poller] = todo[Poller] BY <1>3, <2>8
  <2>11. EventInv'
    <3>1. \A q \in Procs : Waiting(q)' => gpp'[Mode(q)] = "ready" \/ (Waiting(q) /\ gpp[Mode(q)] # "ready")
      BY <1>2, <2>9
    <3> QED BY <1>2, <2>10, <3>1, WayKept, KeepEvents DEF ReasonInv
  <2>12. ErrInv'
    <3> SUFFICES ASSUME NEW q \in Procs, Committed(q)', CheckErr(Mode(q))'
                 PROVE  \E b \in Actors \ {Poller} : Coming(b, Mode(q))'
      BY DEF ErrInv
    <3>1. Mode(q) \in past BY <1>2, <1>5, <2>6, <2>7, <2>9 DEF CheckErr
    <3>2. Coming(p, Mode(q))' BY <2>8, <2>9, <3>1, UnblocksComing DEF Coming
    <3> QED BY <1>3, <3>2
  <2>13. HalfInv'
    <3>1. \A c \in Callbacks : c \in Actors /\ c # p BY DEF Actors
    <3>2. \A c \in Callbacks : todo'[c] = << >> BY <1>3, <2>8, <3>1
    <3>3. << >> \notin {UREWUW, EWUW} BY Lists DEF Expiring
    <3> QED BY <3>2, <3>3 DEF HalfInv
  <2>14. PollerInv' /\ WokenInv' BY <1>2, <2>10 DEF ReasonInv, PollerInv, WokenInv, Mode
  <2>15. /\ \A m \in Modes : keep[m] <=> run[m] /\ new[m] = dl[m] /\ combo = BothMode(dl)
         /\ \A m \in Modes : arm[m] <=> new[m] > 0 /\ (m = "r" \/ ~combo)
         /\ \A m \in Modes : keep[m] => seq'[m] = seq[m] /\ timer'[m] = timer[m]
         /\ \A m \in Modes : ~keep[m] /\ arm[m] => timer'[m] = [fn |-> fn[m], seq |-> seq'[m]]
    <3>1. \A m \in Modes : keep[m] = (run[m] /\ new[m] = dl[m] /\ combo = BothMode(dl)) BY <2>4
    <3>2. \A m \in Modes : arm[m] = (new[m] > 0 /\ (m = "r" \/ ~combo)) BY <2>3
    <3>3. \A m \in Modes : keep[m] => seq'[m] = seq[m] /\ timer'[m] = timer[m] BY <2>7
    <3>4. \A m \in Modes : ~keep[m] /\ arm[m] => timer'[m] = [fn |-> fn[m], seq |-> seq'[m]]
      BY <2>7
    <3> QED BY <3>1, <3>2, <3>3, <3>4
  <2>16. \A m \in Modes : seq'[m] \in Nat BY <1>3, <2>7
  (* A new timer covers what it is for. *)
  <2>17. ASSUME NEW k \in Modes, ~keep[k], arm[k]
         PROVE  Covers(timer[k], k)' /\ (combo => Covers(timer[k], "w")')
    <3>1. timer'[k] = [fn |-> fn[k], seq |-> seq'[k]] BY <2>15, <2>17
    <3>2. fn[k] \in Fns /\ fn[k] = IF combo THEN << "r", "w" >> ELSE << k >> BY <2>5 DEF Fns, Modes
    <3>3. timer'[k] # Stopped /\ timer'[k].fn = fn[k] /\ timer'[k].seq = seq'[k]
      BY <2>16, <3>1, <3>2, NewTimer
    <3>4. fn[k][1] = k
      <4>1. combo => k = "r" BY <2>15, <2>17
      <4>2. CASE combo BY <3>2, <4>1, <4>2, Functions
      <4>3. CASE ~combo BY <3>2, <4>3
      <4> QED BY <4>2, <4>3
    <3>5. \E i \in DOMAIN fn[k] : fn[k][i] = k
      <4>1. fn[k] = << "r" >> \/ fn[k] = << "w" >> \/ fn[k] = << "r", "w" >> BY <3>2 DEF Fns
      <4>2. 1 \in DOMAIN << "r" >> /\ 1 \in DOMAIN << "w" >> /\ 1 \in DOMAIN << "r", "w" >> OBVIOUS
      <4> QED BY <3>4, <4>1, <4>2
    <3>6. combo => \E i \in DOMAIN fn[k] : fn[k][i] = "w"
      <4>1. 2 \in DOMAIN << "r", "w" >> /\ << "r", "w" >>[2] = "w" OBVIOUS
      <4> QED BY <3>2, <4>1
    <3>7. timer'[k].seq = seq'[timer'[k].fn[1]] BY <3>3, <3>4
    <3>8. Covers(timer[k], k)' BY <3>3, <3>5, <3>7 DEF Covers
    <3>9. combo => Covers(timer[k], "w")' BY <3>3, <3>6, <3>7 DEF Covers
    <3> QED BY <3>8, <3>9
  (* One that is kept covers what it covered.                                 *)
  <2>18. ASSUME NEW t \in Timers, NEW m \in Modes, Covers(t, m), keep[t.fn[1]]
         PROVE  t.fn[1] \in Modes /\ t # Stopped /\ t.seq = seq'[t.fn[1]] /\ \E i \in DOMAIN t.fn : t.fn[i] = m
    <3>1. t.fn[1] \in Modes BY <2>18, WhatItCovers
    <3> QED BY <2>15, <2>18, <3>1 DEF Covers
  <2>19. ASSUME NEW m \in Modes, \E k \in Modes : Covers(timer[k], m) /\ keep[timer[k].fn[1]]
         PROVE  Timed(m)'
    <3>1. PICK k \in Modes : Covers(timer[k], m) /\ keep[timer[k].fn[1]] BY <2>19
    <3>2. timer[k] \in Timers /\ timer[k] # Stopped BY <1>3, <3>1 DEF Covers
    <3>3. timer[k].fn[1] = k BY <1>3, <3>2 DEF TimerInv
    <3>4. timer'[k] = timer[k] BY <2>15, <3>1, <3>3
    <3>5. Covers(timer[k], m)' BY <2>18, <3>1, <3>2, <3>4 DEF Covers
    <3> QED BY <3>5, TimedIsNext
  <2>20. ASSUME NEW m \in Modes, \E c \in Callbacks : Covers(fired[c], m) /\ keep[fired[c].fn[1]]
         PROVE  Timed(m)'
    <3>1. PICK c \in Callbacks : Covers(fired[c], m) /\ keep[fired[c].fn[1]] BY <2>20
    <3>2. fired[c] \in Timers BY <1>3
    <3>3. Covers(fired[c], m)' BY <1>2, <2>18, <3>1, <3>2 DEF Covers
    <3> QED BY <3>3, TimedIsNext
  <2>21. ASSUME NEW m \in Modes, Timed(m),
                \A t \in Timers : Covers(t, m) /\ Ahead(t) => keep[t.fn[1]]
         PROVE  Timed(m)'
    <3>1. CASE \E k \in Modes : Covers(timer[k], m)
      <4>1. PICK k \in Modes : Covers(timer[k], m) BY <3>1
      <4>2. timer[k] \in Timers /\ Ahead(timer[k]) BY <1>3 DEF TimerInv
      <4> QED BY <2>19, <2>21, <4>1, <4>2
    <3>2. CASE \E c \in Callbacks : Covers(fired[c], m)
      <4>1. PICK c \in Callbacks : Covers(fired[c], m) BY <3>2
      <4>2. fired[c] \in Timers /\ Ahead(fired[c]) BY <1>3 DEF TimerInv
      <4> QED BY <2>20, <2>21, <4>1, <4>2
    <3> QED BY <2>21, <3>1, <3>2, TimedIs
  <2>22. \A m \in Modes : dl[m] > 0 => Timed(m) BY <1>5 DEF ReasonInv, TimedInv
  <2>23. ASSUME NEW t \in Timers, NEW m \in Modes, Covers(t, m), Ahead(t)
         PROVE  /\ t.fn = << "r", "w" >> <=> BothMode(dl)
                /\ t.fn = << "r", "w" >> => t.fn[1] = "r"
                /\ t.fn # << "r", "w" >> => t.fn[1] = m
    <3>1. Matched(t, t.fn[1]) /\ t.fn[1] \in Modes BY <2>23, WhatItCovers
    <3> QED BY <2>23, <3>1, WhatItCovers DEF Ahead
  <2>24. TimedInv'
    <3> SUFFICES ASSUME NEW m \in Modes, new[m] > 0 PROVE Timed(m)' BY <2>7 DEF TimedInv
    <3>1. CASE m = "r"
      <4>1. CASE ~keep[m]
        <5>1. arm[m] BY <2>15, <3>1
        <5> QED BY <2>17, <4>1, <5>1, TimedIsNext
      <4>2. CASE keep[m]
        <5>1. Timed(m) BY <2>15, <2>22, <4>2
        <5>2. \A t \in Timers : Covers(t, m) /\ Ahead(t) => keep[t.fn[1]] BY <2>23, <3>1, <4>2
        <5> QED BY <2>21, <5>1, <5>2
      <4> QED BY <4>1, <4>2
    <3>2. CASE m = "w" /\ combo
      <4>1. new["r"] > 0 /\ new["r"] = new["w"] BY <2>2, <3>2 DEF BothMode
      <4>2. CASE ~keep["r"]
        <5>1. arm["r"] BY <1>3, <2>15, <4>1
        <5>2. Covers(timer["r"], "w")' BY <1>3, <2>17, <3>2, <4>2, <5>1
        <5> QED BY <1>3, <3>2, <5>2, TimedIsNext
      <4>3. CASE keep["r"]
        <5>1. BothMode(dl) /\ dl["r"] > 0 BY <1>3, <2>15, <3>2, <4>1, <4>3
        <5>2. Timed(m) BY <1>3, <2>22, <3>2, <5>1 DEF BothMode
        <5>3. \A t \in Timers : Covers(t, m) /\ Ahead(t) => keep[t.fn[1]] BY <2>23, <4>3, <5>1
        <5> QED BY <2>21, <5>2, <5>3
      <4> QED BY <4>2, <4>3
    <3>3. CASE m = "w" /\ ~combo
      <4>1. CASE ~keep[m]
        <5>1. arm[m] BY <2>15, <3>3
        <5> QED BY <2>17, <4>1, <5>1, TimedIsNext
      <4>2. CASE keep[m]
        <5>1. Timed(m) /\ ~BothMode(dl) BY <2>15, <2>22, <3>3, <4>2
        <5>2. \A t \in Timers : Covers(t, m) /\ Ahead(t) => keep[t.fn[1]] BY <2>23, <4>2, <5>1
        <5> QED BY <2>21, <5>1, <5>2
      <4> QED BY <4>1, <4>2
    <3> QED BY <3>1, <3>2, <3>3 DEF Modes
  <2> QED BY <2>11, <2>12, <2>13, <2>14, <2>24 DEF ReasonInv
<1> QED BY <1>4, <1>5

LEMMA ReasonInit == FdInit => ReasonInv
<1> SUFFICES ASSUME FdInit PROVE ReasonInv OBVIOUS
<1>1. /\ npc = [p \in Procs |-> "out"] /\ todo = [a \in Actors |-> << >>] /\ event = NoEvent
      /\ dl = [m \in Modes |-> 0]
  BY DEF FdInit, PollInit
<1>2. EventInv /\ ErrInv /\ WokenInv
  BY <1>1 DEF EventInv, Waiting, ErrInv, Committed, WokenInv
<1>3. PollerInv /\ TimedInv BY <1>1 DEF PollerInv, TimedInv
<1>4. HalfInv
  <2>1. \A c \in Callbacks : todo[c] = << >> BY <1>1 DEF Actors
  <2>2. << >> \notin {UREWUW, EWUW} BY Lists DEF Expiring
  <2> QED BY <2>1, <2>2 DEF HalfInv
<1> QED BY <1>2, <1>3, <1>4 DEF ReasonInv

LEMMA ReasonNext == IInv /\ ReasonInv /\ [FdNext]_fdVars => ReasonInv'
<1> SUFFICES ASSUME IInv, ReasonInv, [FdNext]_fdVars PROVE ReasonInv' OBVIOUS
<1>0. UNCHANGED pollVars => UNCHANGED << quiet, gpp, npc >> BY DEF pollVars, quiet, desc
<1>1. ASSUME NEW p \in Procs, Call(p) PROVE ReasonInv'
  <2>1. UNCHANGED << pollVars, scene, avail >>
    BY <1>1 DEF Call, Locks, Close, SetDeadlineImpl, kernel
  <2> QED BY <1>0, <2>1, SameReasons
<1>2. ASSUME NEW p \in Procs, Step(p) PROVE ReasonInv'
  <2>1. CASE \/ Locks(p) \/ LockWoken(p) \/ Prepare(p) \/ Unlocks(p) \/ Gives(p)
             \/ Unblocked(p) \/ Decrefs(p) \/ Signal(p) \/ CloseReturn(p)
    <3>1. UNCHANGED << quiet, gpp, npc, scene, avail >>
      BY <1>0, <2>1 DEF Locks, LockWoken, Prepare, Unlocks, Gives, Unblocked, Decrefs, Signal,
                        CloseReturn, kernel
    <3> QED BY <3>1, SameReasons
  <2> QED BY <1>2, <2>1, PrepareStoreReason, SyscallReason, WaitsReason, WaitedReason, EvictReason,
             SetsReason, DestroyReason, SysCloseReason
      DEF Step
<1>3. ASSUME NEW a \in Actors, Runtime(a) PROVE ReasonInv'
  BY <1>3, UnblockReason, GoreadyReason, DeadlineReason, ExpireReason, PollerReason DEF Runtime
<1>4. ASSUME NEW m \in Modes, NEW c \in Callbacks, Fire(m, c),
             UNCHANGED << fdmuVars, local, csema, kernel >>
      PROVE  ReasonInv'
  BY <1>4, FireReason
<1>5. ASSUME NEW m \in Modes, Arrive(m) PROVE ReasonInv' BY <1>5, ArriveReason
<1>6. CASE Open BY <1>6, OpenReason
<1>7. CASE UNCHANGED fdVars
  <2>1. UNCHANGED << pollVars, scene, avail >> BY <1>7 DEF fdVars, local, kernel
  <2> QED BY <1>0, <2>1, SameReasons
<1> QED BY <1>1, <1>2, <1>3, <1>4, <1>5, <1>6, <1>7 DEF FdNext

(* A goroutine sleeps in the poller only while there is a reason to: an event *)
(* of its mode is pending or on its way if there is anything for it; Close    *)
(* and a deadline that has passed are about to unblock it; a deadline to come *)
(* has a timer; and one that was unblocked is readied by one other            *)
(* (netpoll.go:346-358, 548-583).                                             *)
THEOREM AsleepForAReason == FdSpec => []BlockedForAReason
<1>1. IInv /\ ReasonInv => BlockedForAReason
  <2> SUFFICES ASSUME IInv, ReasonInv, NEW p \in Procs, npc[p] = "parked"
               PROVE  LET m == Mode(p) IN
                      IF gpp[m] # p THEN Cardinality({a \in Actors : p \in wake[a]}) = 1
                      ELSE /\ \A a \in Actors : p \notin wake[a]
                           /\ m \in avail => \/ m \in edge \/ Coming(Poller, m)
                                             \/ m \in event.modes /\ event.tag = fdseq
                           /\ CheckErr(m) => \E a \in Actors \ {Poller} : Coming(a, m)
                           /\ ~closing /\ dl[m] > 0 => Timed(m)
    BY DEF BlockedForAReason
  <2>1. PICK m \in Modes : m = Mode(p) BY ModeIs
  <2>2. CASE gpp[m] # p
    <3>1. PICK a \in Actors : p \in wake[a] BY <2>1, <2>2 DEF ReasonInv, WokenInv
    <3>2. {b \in Actors : p \in wake[b]} = {a} BY <3>1 DEF IInv, WaitInv
    <3>3. Cardinality({b \in Actors : p \in wake[b]}) = 1 BY <3>2, FS_Singleton
    <3> QED BY <2>1, <2>2, <3>3
  <2>3. CASE gpp[m] = p
    <3>1. \A a \in Actors : p \notin wake[a] BY <2>1, <2>3 DEF IInv, WaitInv
    <3>2. m \in avail => OnItsWay(m)
      <4>1. Waiting(p) /\ gpp[m] # "ready" BY <2>3 DEF Waiting
      <4> QED BY <2>1, <4>1 DEF ReasonInv, EventInv
    <3>3. CheckErr(m) => \E a \in Actors \ {Poller} : Coming(a, m)
      <4>1. Committed(p) BY <2>1, <2>3 DEF Committed
      <4> QED BY <2>1, <4>1 DEF ReasonInv, ErrInv
    <3>4. ~closing /\ dl[m] > 0 => Timed(m) BY <2>1 DEF ReasonInv, TimedInv
    <3> QED BY <2>1, <2>3, <3>1, <3>2, <3>3, <3>4 DEF OnItsWay
  <2> QED BY <2>2, <2>3
<1> QED BY <1>1, InitInv, NextInv, ReasonInit, ReasonNext, PTL DEF FdSpec
=============================================================================
