-------------------------------- MODULE Timers --------------------------------
(***************************************************************************)
(* runtime/time.go: the timers of one P, the channels that they feed, the  *)
(* goroutines that set, stop and receive from them, and the threads that   *)
(* run them.                                                               *)
(*                                                                         *)
(* Three locks are held over several steps: t.mu while modify also writes  *)
(* minWhenModified, which others read and write without it; ts.mu while    *)
(* adjust and run go through the heap; and t.sendLock from the decision to *)
(* send a value until it is in the channel.  Every other critical section  *)
(* is one step, which waits until the lock is free.  The channel's lock is *)
(* held over several steps only by a receiver that blocks.                 *)
(*                                                                         *)
(* The heap is its meaning: heap[0] is any timer of the least entry.  The  *)
(* two loads of wakeTime are one step.  Left out: asynctimerchan and take, *)
(* other Ps, timers in a select, and wakeNetPoller, which tells a sleeping *)
(* thread of a new wakeTime.                                               *)
(***************************************************************************)
EXTENDS Integers, Sequences, FiniteSets

CONSTANTS
  Users,    (* goroutines                                                  *)
  Ms,       (* threads in timers.check                                     *)
  Owner,    (* the one of them that runs the P, not a thief                *)
  Free,     (* "nobody holds the lock"                                     *)
  Timers,
  Scenes,   (* what the program does: the values of scene                 *)
  MaxNow    (* bound: the clock stops here, and no later time is asked for *)

Ops == {"reset", "stop", "recv", "poll"}

(* Only a channel can be received from. *)
ASSUME TimersAssumption ==
  /\ IsFiniteSet(Users) /\ IsFiniteSet(Ms) /\ IsFiniteSet(Timers)
  /\ Users \cap Ms = {} /\ Free \notin Users \cup Ms
  /\ MaxNow \in Nat \ {0}
  /\ \A s \in Scenes :
       /\ s.chan \subseteq Timers /\ s.period \in [Timers -> Nat]
       /\ \A c \in s.calls : /\ c \in Users \X Ops \X Timers
                             /\ c[2] \in {"recv", "poll"} => c[3] \in s.chan

(* One goroutine stops and sets a timer that has a channel.  stop drains the *)
(* channel after it has released t.sendLock (time.go:459-464): while another *)
(* goroutine sets the timer, it may drain the value of the new setting, and  *)
(* report as stopped what has gone off since.                                *)
OneSetter ==
  \A s \in Scenes : \A c1, c2 \in s.calls :
    c1[2] \in {"stop", "reset"} /\ c2[2] \in {"stop", "reset"}
      /\ c1[3] = c2[3] /\ c1[3] \in s.chan => c1[1] = c2[1]

VARIABLES
  scene,    (* which calls are made, and how many; the timers with a       *)
            (* channel, and the periods                                    *)
  now,      (* nanotime                                                    *)
  timer,    (* the timers                                                  *)
  mu, sendLock, tsmu,  (* who holds t.mu, t.sendLock and ts.mu             *)
  heap,     (* ts.heap: the entry when of each timer in it                 *)
  minHeap, minMod,     (* minWhenHeap and minWhenModified                  *)
  zombies, len,        (* ts.zombies and ts.len                            *)
  buf,      (* of each channel: the value in it, or 0                      *)
  recvq, chlock,       (* its waiting receivers, and the holder of c.lock  *)
  pc, loc,  (* of each goroutine and thread: the next step, and its locals *)
  todo,     (* the timers that adjust has yet to look at                   *)
  calls,    (* calls made                                                  *)
  armed,    (* history: the timer was set, and has not been stopped, nor   *)
            (* (if it does not repeat) has the program seen it go off      *)
  missed,   (* history: adjust cleared minWhenModified while modify, which *)
            (* counted on it, had not published that t.when has changed    *)
  thrown    (* badTimer, or another throw                                  *)

ts         == << heap, minHeap, minMod, zombies, len, tsmu >>
chans      == << buf, recvq, chlock >>
hist       == << armed, missed >>
timersVars == << scene, now, timer, mu, sendLock, ts, chans, pc, loc, todo, calls, hist,
                 thrown >>

Actors == Users \cup Ms
Bits   == {"heaped", "modified", "zombie"}
Never  == MaxNow + 1

IsChan(t) == t \in scene.chan
Period(t) == scene.period[t]

(* t: the timer at hand; when: the time to set it to, or that of the check;  *)
(* seq: what unlockAndRun has read; ret: what the call will return; add: it  *)
(* is not in the heap and should be; back: where to go after unlockAndRun.   *)
(* was and late are history: the timer was armed when the call took effect;  *)
(* a send of earlier settings was on its way.                                *)
NoLoc == [op |-> "none", t |-> "none", when |-> 0, seq |-> 0, ret |-> FALSE, add |-> FALSE,
          back |-> "idle", was |-> FALSE, late |-> FALSE]

TimersInit ==
  /\ scene \in Scenes
  /\ now = 1
  /\ timer = [t \in Timers |-> [when |-> 0, seq |-> 0, bits |-> {}, astate |-> {},
                                blocked |-> 0, sending |-> 0]]
  /\ mu = [t \in Timers |-> Free] /\ sendLock = [t \in Timers |-> Free] /\ tsmu = Free
  /\ heap = << >> /\ minHeap = 0 /\ minMod = 0 /\ zombies = 0 /\ len = 0
  /\ buf = [t \in Timers |-> 0] /\ recvq = [t \in Timers |-> << >>]
  /\ chlock = [t \in Timers |-> Free]
  /\ pc = [a \in Actors |-> "idle"] /\ loc = [a \in Actors |-> NoLoc]
  /\ todo = {} /\ calls = 0
  /\ armed = [t \in Timers |-> FALSE] /\ missed = {}
  /\ thrown = FALSE

From(a, at)   == pc[a] = at
To(a, to)     == pc' = [pc EXCEPT ![a] = to]
T(a)          == loc[a].t
Tm(a)         == timer[T(a)]
Drop(a)       == loc' = [loc EXCEPT ![a] = NoLoc]
SetTimer(t, r) == timer' = [timer EXCEPT ![t] = r]
MinOf(h)      == IF DOMAIN h = {} THEN 0 ELSE CHOOSE w \in {h[t] : t \in DOMAIN h} :
                                                \A t \in DOMAIN h : w <= h[t]
Heads(h)      == {t \in DOMAIN h : h[t] = MinOf(h)}
Without(h, t) == [u \in DOMAIN h \ {t} |-> h[u]]
With(h, t, w) == [u \in DOMAIN h \cup {t} |-> IF u = t THEN w ELSE h[u]]

NeedsAdd(t, r) == "heaped" \notin r.bits /\ r.when > 0 /\ (IsChan(t) => r.blocked > 0)
Dirty(b)       == b \cap {"modified", "zombie"} # {}

WakeTime == IF minHeap = 0 \/ (minMod # 0 /\ minMod < minHeap) THEN minMod ELSE minHeap

(* The calls, and the clock. *)

Call(g) ==
  /\ From(g, "idle") /\ calls < scene.max
  /\ \E c \in scene.calls, delay \in 0 .. MaxNow :
       /\ c[1] = g
       /\ delay <= IF c[2] = "reset" THEN MaxNow - now ELSE 0
       /\ loc' = [loc EXCEPT ![g] = [NoLoc EXCEPT !.op = c[2], !.t = c[3], !.when = now + delay]]
       /\ To(g, IF c[2] \in {"recv", "poll"} THEN "run"
                ELSE IF IsChan(c[3]) THEN "sendLock" ELSE "lock")
  /\ calls' = calls + 1
  /\ UNCHANGED << scene, now, timer, mu, sendLock, ts, chans, todo, hist, thrown >>

Return(g) ==
  /\ From(g, "ret") /\ To(g, "idle") /\ Drop(g)
  /\ UNCHANGED << scene, now, timer, mu, sendLock, ts, chans, todo, calls, hist, thrown >>

Tick ==
  /\ now < MaxNow /\ now' = now + 1
  /\ UNCHANGED << scene, timer, mu, sendLock, ts, chans, pc, loc, todo, calls, hist, thrown >>

-----------------------------------------------------------------------------
(* stop *)

LockSend(g) ==
  LET t == T(g) IN
  /\ From(g, "sendLock") /\ sendLock[t] = Free
  /\ sendLock' = [sendLock EXCEPT ![t] = g]
  /\ To(g, "lock")
  /\ UNCHANGED << scene, now, timer, mu, ts, chans, loc, todo, calls, hist, thrown >>

(* Sends that were decided on before now, of these settings or earlier ones. *)
Underway(t, s) == \E a \in Actors : pc[a] = "send" /\ T(a) = t /\ loc[a].seq < s

(* t.seq++ keeps them from happening, so the timer has been stopped.          *)
Squelched(t) == IsChan(t) /\ Period(t) = 0 /\ timer[t].sending > 0
NextSeq(t)   == timer[t].seq + IF IsChan(t) THEN 1 ELSE 0

StopResult(g, pending) ==
  loc' = [loc EXCEPT ![g] = [@ EXCEPT !.ret = pending, !.was = armed[T(g)],
                                      !.late = Underway(T(g), Tm(g).seq)]]

StopWith(g, pending) ==
  LET t == T(g)
      b == IF "heaped" \in Tm(g).bits THEN Tm(g).bits \cup {"modified", "zombie"}
           ELSE Tm(g).bits
  IN
  /\ From(g, "lock") /\ loc[g].op = "stop" /\ mu[t] = Free
  /\ SetTimer(t, [Tm(g) EXCEPT !.when = 0, !.seq = NextSeq(t), !.bits = b, !.astate = b])
  /\ zombies' = zombies + IF "zombie" \in b \ Tm(g).bits THEN 1 ELSE 0
  /\ StopResult(g, pending)
  /\ armed' = [armed EXCEPT ![t] = FALSE]
  /\ sendLock' = [sendLock EXCEPT ![t] = Free]
  /\ To(g, IF IsChan(t) THEN "drain" ELSE "ret")
  /\ UNCHANGED << scene, now, mu, heap, minHeap, minMod, len, tsmu, chans, todo, calls,
                  missed, thrown >>

(* Variant: a send that is on its way does not count. *)
StopNotSending(g) == StopWith(g, Tm(g).when > 0)

Stop(g) == StopWith(g, Tm(g).when > 0 \/ Squelched(T(g)))

(* timerchandrain *)
Drain(g) ==
  LET t == T(g)
      chanIsFree == buf[t] = 0 \/ chlock[t] = Free
  IN
  /\ From(g, "drain") /\ chanIsFree
  /\ buf' = [buf EXCEPT ![t] = 0]
  /\ loc' = [loc EXCEPT ![g].ret = @ \/ buf[t] # 0]
  /\ sendLock' = IF sendLock[t] = g THEN [sendLock EXCEPT ![t] = Free] ELSE sendLock
  /\ To(g, IF loc[g].add THEN "add" ELSE "ret")
  /\ UNCHANGED << scene, now, timer, mu, ts, recvq, chlock, todo, calls, hist, thrown >>

-----------------------------------------------------------------------------
(* modify.  The bits are published early if minWhenModified has to change,    *)
(* and at the unlock if it is low enough already.                             *)

ModifyLockWith(g, early) ==
  LET t == T(g)
      w == loc[g].when
      inHeap == "heaped" \in Tm(g).bits
      b == IF inHeap THEN (Tm(g).bits \cup {"modified"}) \ {"zombie"} ELSE Tm(g).bits
      wake == inHeap /\ (minMod = 0 \/ w < minMod)
  IN
  /\ From(g, "lock") /\ loc[g].op = "reset" /\ mu[t] = Free
  /\ mu' = [mu EXCEPT ![t] = g]
  /\ SetTimer(t, [Tm(g) EXCEPT !.when = w, !.bits = b,
                               !.astate = IF wake /\ early THEN b ELSE @])
  /\ zombies' = zombies - IF "zombie" \in Tm(g).bits THEN 1 ELSE 0
  /\ loc' = [loc EXCEPT ![g].ret = Tm(g).when > 0]
  /\ To(g, IF wake THEN "publish" ELSE "unlock")
  /\ UNCHANGED << scene, now, sendLock, heap, minHeap, minMod, len, tsmu, chans, todo,
                  calls, hist, thrown >>

(* Variant: the bits are published when t.mu is released, and not before.     *)
ModifyLockLate(g) == ModifyLockWith(g, FALSE)

ModifyLock(g) == ModifyLockWith(g, TRUE)

(* updateMinWhenModified *)
Publish(g) ==
  /\ From(g, "publish") /\ To(g, "published")
  /\ minMod' = IF minMod # 0 /\ minMod < loc[g].when THEN minMod ELSE loc[g].when
  /\ UNCHANGED << scene, now, timer, mu, sendLock, heap, minHeap, zombies, len, tsmu, chans,
                  loc, todo, calls, hist, thrown >>

ModifyUnlock(g) ==
  LET t == T(g) IN
  /\ pc[g] \in {"unlock", "published"}
  /\ SetTimer(t, [Tm(g) EXCEPT !.seq = NextSeq(t), !.astate = Tm(g).bits])
  /\ mu' = [mu EXCEPT ![t] = Free]
  /\ loc' = [loc EXCEPT ![g] =
               [@ EXCEPT !.ret = loc[g].ret \/ Squelched(t), !.add = NeedsAdd(t, Tm(g)),
                         !.was = armed[t], !.late = Underway(t, Tm(g).seq)]]
  /\ armed' = [armed EXCEPT ![t] = TRUE]
  /\ To(g, IF IsChan(t) THEN "drain" ELSE IF NeedsAdd(t, Tm(g)) THEN "add" ELSE "ret")
  /\ UNCHANGED << scene, now, sendLock, ts, chans, todo, calls, missed, thrown >>

-----------------------------------------------------------------------------
(* The heap: updateHeap on its head, maybeAdd with cleanHead. *)

Removed(r) == [r EXCEPT !.bits = {}, !.astate = {}]

(* updateHeap has something to do, and does it; t.mu is free. *)
UpdateHeap(t) ==
  LET r == timer[t]
      gone == "zombie" \in r.bits
      h == IF gone THEN Without(heap, t) ELSE With(heap, t, r.when)
      b == r.bits \ {"modified"}
  IN
  /\ Dirty(r.bits)
  /\ SetTimer(t, IF gone THEN Removed(r) ELSE [r EXCEPT !.bits = b, !.astate = b])
  /\ zombies' = zombies - IF gone THEN 1 ELSE 0
  /\ heap' = h /\ minHeap' = MinOf(h)
  /\ minMod' = IF h = << >> THEN 0 ELSE minMod

AddLock(a) ==
  /\ From(a, "add") /\ To(a, "clean")
  /\ tsmu = Free /\ tsmu' = a
  /\ UNCHANGED << scene, now, timer, mu, sendLock, heap, minHeap, minMod, zombies, len, chans,
                  loc, todo, calls, hist, thrown >>

(* The tail is any timer but heap[0]; minWhenHeap is left as it is. *)
CleanTail(t) ==
  /\ t \in Heads(heap) => DOMAIN heap = {t}
  /\ "zombie" \in timer[t].bits
  /\ SetTimer(t, Removed(timer[t]))
  /\ zombies' = zombies - 1
  /\ heap' = Without(heap, t)
  /\ UNCHANGED << minHeap, minMod >>

CleanHead(a) ==
  /\ From(a, "clean")
  /\ \E t \in DOMAIN heap :
       /\ mu[t] = Free
       /\ CleanTail(t) \/ (t \in Heads(heap) /\ UpdateHeap(t))
  /\ UNCHANGED << scene, now, mu, sendLock, len, tsmu, chans, pc, loc, todo, calls, hist,
                  thrown >>

(* The head is clean, or cleanHead gives up because it is to be preempted.    *)
CleanDone(a) ==
  /\ From(a, "clean") /\ To(a, "insert")
  /\ UNCHANGED << scene, now, timer, mu, sendLock, ts, chans, loc, todo, calls, hist,
                  thrown >>

(* A receiver then parks, which releases the channel's lock. *)
Insert(a) ==
  LET t == T(a)
      add == NeedsAdd(t, Tm(a))
      b == Tm(a).bits \cup {"heaped"}
      h == IF add THEN With(heap, t, Tm(a).when) ELSE heap
  IN
  /\ From(a, "insert") /\ mu[t] = Free /\ tsmu' = Free
  /\ timer' = IF add THEN [timer EXCEPT ![t] = [@ EXCEPT !.bits = b, !.astate = b]] ELSE timer
  /\ heap' = h
  /\ minHeap' = IF add /\ t \in Heads(h) THEN MinOf(h) ELSE minHeap
  /\ len' = Cardinality(DOMAIN h)
  /\ To(a, IF chlock[t] = a THEN "parked" ELSE "ret")
  /\ chlock' = IF chlock[t] = a THEN [chlock EXCEPT ![t] = Free] ELSE chlock
  /\ UNCHANGED << scene, now, mu, sendLock, minMod, zombies, buf, recvq, loc, todo, calls,
                  hist, thrown >>

-----------------------------------------------------------------------------
(* unlockAndRun.  t.mu is free, and a holds ts.mu if t is in the heap.        *)

Next1(t) ==
  LET w == timer[t].when IN
  IF Period(t) = 0 THEN 0
  ELSE LET n == w + Period(t) * (1 + (now - w) \div Period(t)) IN
       IF n > MaxNow THEN Never ELSE n

UnlockAndRun(a, t, back) ==
  LET r == [timer[t] EXCEPT !.when = Next1(t),
                            !.sending = @ + IF IsChan(t) /\ Period(t) = 0 THEN 1 ELSE 0]
      inHeap == "heaped" \in r.bits
      h == IF ~inHeap THEN heap
           ELSE IF r.when = 0 THEN Without(heap, t) ELSE With(heap, t, r.when)
  IN
  /\ SetTimer(t, IF inHeap /\ r.when = 0 THEN Removed(r) ELSE r)
  /\ heap' = h
  /\ minHeap' = IF inHeap THEN MinOf(h) ELSE minHeap
  /\ minMod' = IF inHeap /\ h = << >> THEN 0 ELSE minMod
  /\ IF inHeap THEN tsmu' = Free /\ len' = Cardinality(DOMAIN h) ELSE UNCHANGED << tsmu, len >>
  /\ loc' = [loc EXCEPT ![a] = [@ EXCEPT !.t = t, !.seq = r.seq, !.back = back]]
  /\ To(a, IF IsChan(t) THEN "send" ELSE back)
  /\ armed' = [armed EXCEPT ![t] = @ /\ (IsChan(t) \/ Period(t) > 0)]
  /\ thrown' = (thrown \/ Dirty(timer[t].bits))
  /\ UNCHANGED << zombies, missed >>

SendWith(a, stale) ==
  LET t == T(a) IN
  /\ From(a, "send") /\ sendLock[t] = Free
  /\ SetTimer(t, [Tm(a) EXCEPT !.sending = @ - IF Period(t) = 0 THEN 1 ELSE 0])
  /\ sendLock' = IF stale THEN sendLock ELSE [sendLock EXCEPT ![t] = a]
  /\ To(a, IF stale THEN loc[a].back ELSE "sending")
  /\ UNCHANGED << scene, now, mu, ts, chans, loc, todo, calls, hist, thrown >>

(* Variant: nobody looks whether the timer was set anew. *)
SendUnchecked(a) == SendWith(a, FALSE)

Send(a) == SendWith(a, loc[a].seq # Tm(a).seq)

(* What the program has received is no longer under way.                      *)
Receives(t, v) ==
  /\ armed' = [armed EXCEPT ![t] = @ /\ ~(v = timer[t].seq /\ Period(t) = 0)]
  /\ UNCHANGED missed

(* sendTime: a send that does not block *)
SendTime(a) ==
  LET t == T(a)
      v == loc[a].seq
  IN
  /\ From(a, "sending")
  /\ sendLock' = [sendLock EXCEPT ![t] = Free]
  /\ \/ /\ buf[t] # 0
        /\ UNCHANGED << chans, hist >>
        /\ To(a, loc[a].back)
     \/ /\ buf[t] = 0 /\ chlock[t] = Free /\ recvq[t] = << >>
        /\ buf' = [buf EXCEPT ![t] = v]
        /\ UNCHANGED << recvq, chlock, hist >>
        /\ To(a, loc[a].back)
     \/ /\ buf[t] = 0 /\ chlock[t] = Free /\ recvq[t] # << >>
        /\ recvq' = [recvq EXCEPT ![t] = Tail(@)]
        /\ pc' = [pc EXCEPT ![a] = loc[a].back, ![Head(recvq[t])] = "unblock"]
        /\ Receives(t, v)
        /\ UNCHANGED << buf, chlock >>
  /\ UNCHANGED << scene, now, timer, mu, ts, loc, todo, calls, thrown >>

-----------------------------------------------------------------------------
(* Receivers: chanrecv with maybeRunChan, blockTimerChan, unblockTimerChan.   *)
(* A receive that does not block runs the timer twice, the second time in     *)
(* empty().                                                                   *)

MaybeRunChan(g) ==
  LET t == T(g)
      back == IF loc[g].op = "poll" /\ pc[g] = "run" THEN "empty" ELSE "recv"
  IN
  /\ pc[g] \in {"run", "empty"}
  /\ \/ /\ "heaped" \in Tm(g).astate \/ (mu[t] = Free /\ Tm(g).when \notin 1 .. now)
        /\ To(g, back)
        /\ UNCHANGED << timer, ts, loc, hist, thrown >>
     \/ /\ "heaped" \notin Tm(g).astate /\ mu[t] = Free /\ Tm(g).when \in 1 .. now
        /\ UnlockAndRun(g, t, back)
  /\ UNCHANGED << scene, now, mu, sendLock, chans, todo, calls >>

Recv(g) ==
  LET t == T(g) IN
  /\ From(g, "recv")
  /\ \/ /\ buf[t] # 0 /\ chlock[t] = Free /\ To(g, "ret")
        /\ buf' = [buf EXCEPT ![t] = 0]
        /\ Receives(t, buf[t])
        /\ loc' = [a \in Actors |->
                     IF a = g THEN [loc[a] EXCEPT !.ret = TRUE]
                     ELSE IF pc[a] = "drain" /\ T(a) = t THEN [loc[a] EXCEPT !.was = FALSE]
                     ELSE loc[a]]
        /\ UNCHANGED << recvq, chlock >>
     \/ /\ buf[t] = 0 /\ loc[g].op = "poll" /\ To(g, "ret")
        /\ UNCHANGED << chans, loc, hist >>
     \/ /\ buf[t] = 0 /\ loc[g].op = "recv" /\ chlock[t] = Free /\ To(g, "block")
        /\ chlock' = [chlock EXCEPT ![t] = g]
        /\ recvq' = [recvq EXCEPT ![t] = Append(@, g)]
        /\ UNCHANGED << buf, loc, hist >>
  /\ UNCHANGED << scene, now, timer, mu, sendLock, ts, todo, calls, thrown >>

(* A timer that is in the heap, marked for removal, will go off after all.    *)
BlockWith(g, revive) ==
  LET t == T(g)
      r == [Tm(g) EXCEPT !.blocked = @ + 1,
                         !.bits = IF revive THEN @ \ {"zombie"} ELSE @]
  IN
  /\ From(g, "block") /\ mu[t] = Free
  /\ SetTimer(t, [r EXCEPT !.astate = r.bits])
  /\ zombies' = zombies - IF revive THEN 1 ELSE 0
  /\ To(g, IF NeedsAdd(t, r) THEN "add" ELSE "parked")
  /\ chlock' = IF NeedsAdd(t, r) THEN chlock ELSE [chlock EXCEPT ![t] = Free]
  /\ UNCHANGED << scene, now, mu, sendLock, heap, minHeap, minMod, len, tsmu, buf, recvq,
                  loc, todo, calls, hist, thrown >>

(* Variant: it stays marked. *)
BlockUnrevived(g) == BlockWith(g, FALSE)

Block(g) == BlockWith(g, "zombie" \in Tm(g).bits /\ Tm(g).when > 0)

Unblock(g) ==
  LET t == T(g)
      last == Tm(g).blocked = 1 /\ "heaped" \in Tm(g).bits /\ "zombie" \notin Tm(g).bits
      b == IF last THEN Tm(g).bits \cup {"zombie"} ELSE Tm(g).bits
  IN
  /\ From(g, "unblock") /\ mu[t] = Free
  /\ SetTimer(t, [Tm(g) EXCEPT !.blocked = @ - 1, !.bits = b, !.astate = b])
  /\ zombies' = zombies + IF last THEN 1 ELSE 0
  /\ thrown' = (thrown \/ Tm(g).blocked = 0)
  /\ To(g, "ret")
  /\ UNCHANGED << scene, now, mu, sendLock, heap, minHeap, minMod, len, tsmu, chans, loc,
                  todo, calls, hist >>

-----------------------------------------------------------------------------
(* timers.check, with adjust and run *)

Overfull(m) == m = Owner /\ zombies > len \div 4

(* If there is nothing in the heap, locking ts.mu shows just that.            *)
Check(m) ==
  /\ From(m, "idle")
  /\ WakeTime # 0 /\ (WakeTime <= now \/ Overfull(m))
  /\ tsmu = Free /\ heap # << >> /\ tsmu' = m
  /\ loc' = [loc EXCEPT ![m].when = now]
  /\ To(m, "adjust")
  /\ thrown' = (thrown \/ zombies < 0)
  /\ UNCHANGED << scene, now, timer, mu, sendLock, heap, minHeap, minMod, zombies, len, chans,
                  todo, calls, hist >>

(* minWhenHeap vouches for minWhenModified until the scan is over.            *)
Adjust(m) ==
  LET need == pc[m] = "forced" \/ minMod \in 1 .. loc[m].when IN
  /\ pc[m] \in {"adjust", "forced"}
  /\ minHeap' = IF need THEN WakeTime ELSE minHeap
  /\ loc' = [loc EXCEPT ![m].back = IF pc[m] = "forced" THEN "unlockTs" ELSE "run"]
  /\ To(m, IF need THEN "clear" ELSE "run")
  /\ UNCHANGED << scene, now, timer, mu, sendLock, heap, minMod, zombies, len, tsmu, chans,
                  todo, calls, hist, thrown >>

Counted(t) ==
  \E g \in Users : pc[g] = "unlock" /\ T(g) = t /\ "modified" \notin timer[t].astate

Clear(m) ==
  /\ From(m, "clear") /\ To(m, "scan")
  /\ minMod' = 0 /\ todo' = DOMAIN heap
  /\ missed' = {t \in DOMAIN heap : t \in missed \/ Counted(t)}
  /\ UNCHANGED << scene, now, timer, mu, sendLock, heap, minHeap, zombies, len, tsmu, chans,
                  loc, calls, armed, thrown >>

Scan(m) ==
  /\ From(m, "scan")
  /\ \E t \in todo :
       LET r == timer[t]
           b == r.bits \ {"modified"}
       IN
       /\ todo' = todo \ {t}
       /\ \/ /\ ~Dirty(r.astate)
             /\ UNCHANGED << timer, heap, zombies, thrown >>
          \/ /\ Dirty(r.astate) /\ mu[t] = Free
             /\ SetTimer(t, IF "zombie" \in b THEN Removed(r)
                            ELSE [r EXCEPT !.bits = b, !.astate = b])
             /\ heap' = IF "zombie" \in b THEN Without(heap, t) ELSE With(heap, t, r.when)
             /\ zombies' = zombies - IF "zombie" \in b THEN 1 ELSE 0
             /\ thrown' = (thrown \/ "heaped" \notin b)
  /\ UNCHANGED << scene, now, mu, sendLock, minHeap, minMod, len, tsmu, chans, pc, loc, calls,
                  hist >>

EndScan(m) ==
  /\ From(m, "scan") /\ todo = {} /\ To(m, loc[m].back)
  /\ minHeap' = MinOf(heap)
  /\ UNCHANGED << scene, now, timer, mu, sendLock, heap, minMod, zombies, len, tsmu, chans, loc,
                  todo, calls, hist, thrown >>

UnlockOrForce(m) == To(m, IF Overfull(m) THEN "forced" ELSE "unlockTs")

(* One look at heap[0]; the loops of run and check come back to it. *)
Run(m) ==
  /\ From(m, "run")
  /\ \/ /\ heap = << >> /\ UnlockOrForce(m)
        /\ UNCHANGED << timer, ts, loc, hist, thrown >>
     \/ \E t \in Heads(heap) :
          \/ /\ \/ ~Dirty(timer[t].astate) /\ heap[t] > loc[m].when
                \/ mu[t] = Free /\ ~Dirty(timer[t].bits) /\ timer[t].when > loc[m].when
             /\ UnlockOrForce(m)
             /\ UNCHANGED << timer, ts, loc, hist, thrown >>
          \/ /\ mu[t] = Free /\ UpdateHeap(t)
             /\ UNCHANGED << len, tsmu, pc, loc, hist, thrown >>
          \/ /\ mu[t] = Free /\ ~Dirty(timer[t].bits) /\ timer[t].when <= loc[m].when
             /\ UnlockAndRun(m, t, "relock")
  /\ UNCHANGED << scene, now, mu, sendLock, chans, todo, calls >>

Relock(m) ==
  /\ From(m, "relock") /\ To(m, "run")
  /\ tsmu = Free /\ tsmu' = m
  /\ UNCHANGED << scene, now, timer, mu, sendLock, heap, minHeap, minMod, zombies, len, chans,
                  loc, todo, calls, hist, thrown >>

UnlockTs(m) ==
  /\ From(m, "unlockTs") /\ To(m, "idle") /\ Drop(m)
  /\ tsmu' = Free /\ len' = Cardinality(DOMAIN heap)
  /\ UNCHANGED << scene, now, timer, mu, sendLock, heap, minHeap, minMod, zombies, chans, todo,
                  calls, hist, thrown >>

-----------------------------------------------------------------------------
Step(a) ==
  \/ Return(a) \/ LockSend(a) \/ Stop(a) \/ Drain(a)
  \/ ModifyLock(a) \/ Publish(a) \/ ModifyUnlock(a)
  \/ AddLock(a) \/ CleanHead(a) \/ CleanDone(a) \/ Insert(a)
  \/ Send(a) \/ SendTime(a)
  \/ MaybeRunChan(a) \/ Recv(a) \/ Block(a) \/ Unblock(a)

MStep(m) ==
  \/ Check(m) \/ Adjust(m) \/ Clear(m) \/ Scan(m) \/ EndScan(m)
  \/ Run(m) \/ Send(m) \/ SendTime(m) \/ Relock(m) \/ UnlockTs(m)

TimersNext ==
  \/ Tick
  \/ \E g \in Users : Call(g) \/ Step(g)
  \/ \E m \in Ms : MStep(m)

TimersSpec == TimersInit /\ [][TimersNext]_timersVars

-----------------------------------------------------------------------------
(***************************************************************************)
(* A stale value is never received: once a Stop or Reset has returned,     *)
(* nothing but a value of the settings since then is in the channel, and   *)
(* nothing else gets there, although a send for the settings before may    *)
(* have been decided on (time/sleep.go:105-107, time.go:1075-1113, chan.go:*)
(* 341-363).                                                               *)
(***************************************************************************)
NoStaleValue ==
  \A t \in scene.chan :
    (\A g \in Users : ~(pc[g] = "drain" /\ T(g) = t)) => buf[t] \in {0, timer[t].seq}

(***************************************************************************)
(* What Stop and Reset return can be relied on: true if the timer was      *)
(* running and the program had not received from it (time/sleep.go:94-109),*)
(* and false if it was not, unless the send of a time before that is still *)
(* on its way, which isSending cannot tell apart (time.go:444-454).        *)
(***************************************************************************)
StopHonest ==
  \A g \in Users :
    (pc[g] = "ret" /\ loc[g].op \in {"stop", "reset"} /\ Period(T(g)) = 0) =>
      /\ loc[g].was => loc[g].ret
      /\ loc[g].ret => loc[g].was \/ loc[g].late

(***************************************************************************)
(* A timer with a channel is taken out of the heap while nobody waits for  *)
(* it.  A goroutine that blocks is not forgotten: if the timer is running, *)
(* it is in the heap to stay, or about to be added, or a send is on its    *)
(* way (time.go:1324-1377).                                                *)
(***************************************************************************)
InHeap(t)   == timer[t].bits \cap {"heaped", "zombie"} = {"heaped"}
BeingSent(t) == \E a \in Actors :
  pc[a] \in {"send", "sending"} /\ T(a) = t /\ loc[a].seq = timer[t].seq
BeingAdded(t) == \E g \in Users :
  /\ T(g) = t
  /\ pc[g] \in {"add", "clean", "insert"} \/ (pc[g] = "drain" /\ loc[g].add)

NobodyForgotten ==
  \A g \in Users :
    LET t == T(g) IN
    (pc[g] = "parked" /\ armed[t] /\ mu[t] = Free) =>
      InHeap(t) \/ BeingSent(t) \/ BeingAdded(t)

(***************************************************************************)
(* Whenever ts is unlocked, wakeTime is no later than any timer in the     *)
(* heap is due, although timers are set without ts.mu, and adjust clears   *)
(* minWhenModified meanwhile (time.go:527-533, 790-816).  There is one     *)
(* exception, which UpdateNotLost does not make: missed.                   *)
(***************************************************************************)
BitsAgree ==
  /\ zombies = Cardinality({t \in Timers : "zombie" \in timer[t].bits})
  /\ \A t \in Timers :
       /\ timer[t].bits \subseteq Bits
       /\ "heaped" \in timer[t].bits <=> t \in DOMAIN heap
       /\ timer[t].bits # {} => "heaped" \in timer[t].bits
       /\ mu[t] = Free => timer[t].astate = timer[t].bits
  /\ ~thrown

Due(t) == t \in DOMAIN heap /\ mu[t] = Free /\ InHeap(t)
Covered(t) == WakeTime # 0 /\ WakeTime <= timer[t].when

WakeTimeSound ==
  /\ BitsAgree
  /\ tsmu = Free =>
       \A t \in Timers :
         Due(t) => Covered(t) \/ (t \in missed /\ "modified" \in timer[t].bits)

(***************************************************************************)
(* "That ensures that the overwrite in Step 2 cannot lose an update"       *)
(* (time.go:810-813): the code does not keep this.                         *)
(***************************************************************************)
UpdateNotLost == tsmu = Free => \A t \in Timers : Due(t) => Covered(t)
=============================================================================
