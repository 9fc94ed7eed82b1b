-------------------------------- MODULE Netpoll --------------------------------
(***************************************************************************)
(* runtime/netpoll.go: one pollDesc, which is reused once it was closed,   *)
(* the goroutines that wait on it, its deadline timers, and the poller.    *)
(*                                                                         *)
(* A goroutine blocks without pd.lock: it sets rg (or wg) to pdWait,       *)
(* checks the published state again, and commits.  Close and deadlines do  *)
(* the opposite under pd.lock: they publish first, and then look at rg.    *)
(* Each of these steps is one step here.  What pd.lock protects is written *)
(* and published in one step.                                              *)
(*                                                                         *)
(* The module is a component: FD conjoins its actions with its own.        *)
(* Events that only report an error (EPOLLERR), and netpollWaiters, a      *)
(* count for the scheduler, are left out.                                  *)
(***************************************************************************)
EXTENDS Integers, Sequences, FiniteSets

CONSTANTS
  Procs,      (* goroutines                                                *)
  Callbacks,  (* timer functions that may be on their way at a time        *)
  Poller,     (* the thread in netpoll                                     *)
  Free,       (* "nobody holds pd.lock"                                    *)
  Deadlines   (* the deadlines in the future, natural numbers above 0      *)

(* 0 stands for no deadline and -1 for one that has passed. *)
ASSUME DeadlinesAssumption == Deadlines \subseteq Nat \ {0}

(* A goroutine is no value of rg or wg that stands for something else, and    *)
(* the actors are different ones.                                             *)
ASSUME ActorsAssumption ==
  /\ IsFiniteSet(Procs) /\ Procs \cap {"nil", "ready", "wait"} = {}
  /\ Procs \cap Callbacks = {} /\ Poller \notin Procs \cup Callbacks
  /\ Free \notin Procs \cup Callbacks \cup {Poller}

VARIABLES
  closing, fdseq, dl,  (* closing, fdseq, rd and wd, as published          *)
  run, seq, timer,     (* rrun and wrun, rseq and wseq, rt and wt          *)
  gpp,                 (* rg and wg                                        *)
  pdlock,              (* the holder of pd.lock                            *)
  npc,                 (* where each goroutine is in pollWait              *)
  todo,                (* what each actor has yet to do to rg and wg       *)
  wake,                (* the goroutines it has yet to make ready          *)
  fired,               (* the timer functions that are on their way        *)
  edge,                (* the events that epoll_wait would return          *)
  event,               (* the event that the poller has got, and its tag   *)
  thrown               (* the runtime has thrown                           *)

desc    == << closing, fdseq, dl, run, seq, timer >>
pollVars == << desc, gpp, pdlock, npc, todo, wake, fired, edge, event, thrown >>

Modes   == {"r", "w"}
Actors  == Procs \cup Callbacks \cup {Poller}
NPCs    == {"out", "wait", "block", "recheck", "commit", "parked", "swap", "errcheck",
            "ok", "err"}
Stopped == [fn |-> << >>, seq |-> 0]
NoEvent == [modes |-> {}, tag |-> 0]

PollInit ==
  /\ closing = FALSE /\ fdseq = 1
  /\ dl = [m \in Modes |-> 0]
  /\ run = [m \in Modes |-> FALSE] /\ seq = [m \in Modes |-> 1]
  /\ timer = [m \in Modes |-> Stopped]
  /\ gpp = [m \in Modes |-> "nil"]
  /\ pdlock = Free
  /\ npc = [p \in Procs |-> "out"]
  /\ todo = [a \in Actors |-> << >>]
  /\ wake = [a \in Actors |-> {}]
  /\ fired = [c \in Callbacks |-> Stopped]
  /\ edge = {} /\ event = NoEvent
  /\ thrown = FALSE

NpGoto(p, from, to) ==
  /\ npc[p] = from
  /\ npc' = [npc EXCEPT ![p] = to]

(* netpollcheckerr *)
CheckErr(m) == closing \/ dl[m] < 0

BothMode(d) == d["r"] > 0 /\ d["r"] = d["w"]

(* netpollunblock for each of the modes ms, 'r' before 'w'. *)
Unblocks(ms) ==
  (IF "r" \in ms THEN << << "unblock", "r" >> >> ELSE << >>)
  \o (IF "w" \in ms THEN << << "unblock", "w" >> >> ELSE << >>)

-----------------------------------------------------------------------------
(* pollReset, pollWait with netpollblock *)

ResetStore(m) ==
  /\ gpp' = [gpp EXCEPT ![m] = "nil"]
  /\ UNCHANGED << desc, pdlock, npc, todo, wake, fired, edge, event, thrown >>

quiet == << desc, pdlock, todo, wake, fired, edge, event >>

WaitCheck(p, m) ==
  /\ NpGoto(p, "wait", IF CheckErr(m) THEN "err" ELSE "block")
  /\ UNCHANGED << quiet, gpp, thrown >>

(* Consume the notification, or set the semaphore to pdWait. *)
Block(p, m) ==
  /\ NpGoto(p, "block", IF gpp[m] = "ready" THEN "ok" ELSE "recheck")
  /\ thrown' = (thrown \/ gpp[m] \notin {"ready", "nil"})
  /\ gpp' = [gpp EXCEPT ![m] = IF @ = "ready" THEN "nil" ELSE "wait"]
  /\ UNCHANGED quiet

(* Variant: the error states are not checked again. *)
RecheckSkipped(p, m) ==
  /\ NpGoto(p, "recheck", "commit")
  /\ UNCHANGED << quiet, gpp, thrown >>

Recheck(p, m) ==
  /\ NpGoto(p, "recheck", IF CheckErr(m) THEN "swap" ELSE "commit")
  /\ UNCHANGED << quiet, gpp, thrown >>

(* gopark with netpollblockcommit *)
BlockCommit(p, m) ==
  /\ NpGoto(p, "commit", IF gpp[m] = "wait" THEN "parked" ELSE "swap")
  /\ gpp' = [gpp EXCEPT ![m] = IF @ = "wait" THEN p ELSE @]
  /\ UNCHANGED << quiet, thrown >>

(* old := gpp.Swap(pdNil) *)
BlockSwap(p, m) ==
  /\ NpGoto(p, "swap", IF gpp[m] = "ready" THEN "ok" ELSE "errcheck")
  /\ thrown' = (thrown \/ gpp[m] \in Procs)
  /\ gpp' = [gpp EXCEPT ![m] = "nil"]
  /\ UNCHANGED quiet

(* The timeout that has unblocked it may have been reset by now: retry. *)
WaitRetry(p, m) ==
  /\ NpGoto(p, "errcheck", IF CheckErr(m) THEN "err" ELSE "block")
  /\ UNCHANGED << quiet, gpp, thrown >>

PollWait(p, m) ==
  \/ WaitCheck(p, m) \/ Block(p, m) \/ Recheck(p, m) \/ BlockCommit(p, m)
  \/ BlockSwap(p, m) \/ WaitRetry(p, m)

-----------------------------------------------------------------------------
(* netpollunblock, and the unlock when it was the last thing to do. *)

Unblock(a) ==
  LET m == Head(todo[a])[2]
      old == gpp[m]
      ioready == a = Poller
  IN
  /\ todo[a] # << >> /\ Head(todo[a])[1] = "unblock"
  /\ IF old = "ready" \/ (old = "nil" /\ ~ioready)
     THEN UNCHANGED << gpp, wake >>
     ELSE /\ gpp' = [gpp EXCEPT ![m] = IF ioready THEN "ready" ELSE "nil"]
          /\ wake' = [wake EXCEPT ![a] = @ \cup ({old} \cap Procs)]
  /\ todo' = [todo EXCEPT ![a] = Tail(@)]
  /\ pdlock' = IF pdlock = a /\ todo'[a] = << >> THEN Free ELSE pdlock
  /\ UNCHANGED << desc, npc, fired, edge, event, thrown >>

(* netpollgoready after the unlock; the scheduler's injectglist after netpoll. *)
Goready(a) ==
  /\ todo[a] = << >>
  /\ \E g \in wake[a] :
       /\ npc' = [npc EXCEPT ![g] = "swap"]
       /\ wake' = [wake EXCEPT ![a] = @ \ {g}]
  /\ UNCHANGED << desc, gpp, pdlock, todo, fired, edge, event, thrown >>

-----------------------------------------------------------------------------
(* pollSetDeadline, pollUnblock *)

(* Deadline d for the modes ms: 0 for none, -1 for one in the past. *)
SetDeadline(a, ms, d) ==
  LET new     == [m \in Modes |-> IF m \in ms THEN d ELSE dl[m]]
      combo   == BothMode(new)
      arm     == [m \in Modes |-> new[m] > 0 /\ (m = "r" \/ ~combo)]
      keep    == [m \in Modes |-> run[m] /\ new[m] = dl[m] /\ combo = BothMode(dl)]
      fn      == [m \in Modes |-> IF combo THEN << "r", "w" >> ELSE << m >>]
      past    == {m \in Modes : new[m] < 0}
  IN
  /\ pdlock = Free
  /\ IF closing THEN UNCHANGED << dl, run, seq, timer, todo, pdlock >>
     ELSE /\ dl' = new
          /\ seq' = [m \in Modes |-> IF run[m] /\ ~keep[m] THEN seq[m] + 1 ELSE seq[m]]
          /\ run' = [m \in Modes |-> keep[m] \/ arm[m]]
          /\ timer' = [m \in Modes |->
               IF keep[m] THEN timer[m]
               ELSE IF arm[m] THEN [fn |-> fn[m], seq |-> seq'[m]] ELSE Stopped]
          /\ todo' = [todo EXCEPT ![a] = Unblocks(past)]
          /\ pdlock' = IF todo'[a] = << >> THEN Free ELSE a
  /\ UNCHANGED << closing, fdseq, gpp, npc, wake, fired, edge, event, thrown >>

PollUnblock(a) ==
  /\ pdlock = Free /\ pdlock' = a
  /\ thrown' = (thrown \/ closing)
  /\ closing' = TRUE
  /\ seq' = [m \in Modes |-> seq[m] + 1]
  /\ run' = [m \in Modes |-> FALSE]
  /\ timer' = [m \in Modes |-> Stopped]
  /\ todo' = [todo EXCEPT ![a] = Unblocks(Modes)]
  /\ UNCHANGED << fdseq, dl, gpp, npc, wake, fired, edge, event >>

-----------------------------------------------------------------------------
(* The deadline timers; when they fire is up to the clock. *)

Fire(m, c) ==
  /\ timer[m] # Stopped /\ fired[c] = Stopped /\ todo[c] = << >> /\ wake[c] = {}
  /\ fired' = [fired EXCEPT ![c] = timer[m]]
  /\ timer' = [timer EXCEPT ![m] = Stopped]
  /\ UNCHANGED << closing, fdseq, dl, run, seq, gpp, pdlock, npc, todo, wake, edge, event, thrown >>

(* netpolldeadlineimpl: currentSeq is rseq if it is to expire reads. *)
Expires(fn) ==
  IF fn = << "r", "w" >>
  THEN << << "expire", "r" >>, << "unblock", "r" >>, << "expire", "w" >>, << "unblock", "w" >> >>
  ELSE << << "expire", fn[1] >>, << "unblock", fn[1] >> >>

(* Variant: seq is not looked at. *)
DeadlineAnySeq(c) ==
  /\ fired[c] # Stopped /\ todo[c] = << >>
  /\ pdlock = Free /\ pdlock' = c
  /\ todo' = [todo EXCEPT ![c] = Expires(fired[c].fn)]
  /\ UNCHANGED << desc, gpp, npc, wake, fired, edge, event, thrown >>

(* If it is stale, ignore the timer event. *)
Deadline(c) ==
  /\ fired[c] # Stopped /\ todo[c] = << >>
  /\ pdlock = Free
  /\ IF fired[c].seq # seq[fired[c].fn[1]]
     THEN /\ fired' = [fired EXCEPT ![c] = Stopped]
          /\ UNCHANGED << pdlock, todo >>
     ELSE /\ pdlock' = c
          /\ todo' = [todo EXCEPT ![c] = Expires(fired[c].fn)]
          /\ UNCHANGED fired
  /\ UNCHANGED << desc, gpp, npc, wake, edge, event, thrown >>

Expire(c) ==
  LET m == Head(todo[c])[2]
      read == "r" \in {fired[c].fn[i] : i \in DOMAIN fired[c].fn}
  IN
  /\ todo[c] # << >> /\ Head(todo[c])[1] = "expire"
  /\ thrown' = (thrown \/ dl[m] <= 0 \/ (~run[m] /\ ~(m = "w" /\ read)))
  /\ dl' = [dl EXCEPT ![m] = -1]
  /\ todo' = [todo EXCEPT ![c] = Tail(@)]
  /\ fired' = IF Len(todo[c]) = 2 THEN [fired EXCEPT ![c] = Stopped] ELSE fired
  /\ UNCHANGED << closing, fdseq, run, seq, timer, gpp, pdlock, npc, wake, edge, event >>

-----------------------------------------------------------------------------
(* netpoll: epoll_wait returns what is pending, with the tag of netpollopen. *)

EpollWait ==
  /\ edge # {} /\ event = NoEvent
  /\ todo[Poller] = << >> /\ wake[Poller] = {}
  /\ event' = [modes |-> edge, tag |-> fdseq]
  /\ edge' = {}
  /\ UNCHANGED << desc, gpp, pdlock, npc, todo, wake, fired, thrown >>

(* if pd.fdseq.Load() == tag *)
NetpollReady ==
  /\ event # NoEvent
  /\ event' = NoEvent
  /\ todo' = [todo EXCEPT ![Poller] = IF fdseq = event.tag
                THEN Unblocks(event.modes) ELSE << >>]
  /\ UNCHANGED << desc, gpp, pdlock, npc, wake, fired, edge, thrown >>

-----------------------------------------------------------------------------
(* pollClose and pollcache.free, pollOpen *)

Blocked(m) == gpp[m] \notin {"nil", "ready"}

PollClose ==
  /\ thrown' = (thrown \/ ~closing \/ \E m \in Modes : Blocked(m))
  /\ edge' = {}
  /\ UNCHANGED << desc, gpp, pdlock, npc, todo, wake, fired, event >>

PollFree ==
  /\ pdlock = Free
  /\ fdseq' = fdseq + 1
  /\ UNCHANGED << closing, dl, run, seq, timer, gpp, pdlock, npc, todo, wake, fired, edge, event, thrown >>

PollOpen ==
  /\ pdlock = Free
  /\ thrown' = (thrown \/ \E m \in Modes : Blocked(m))
  /\ closing' = FALSE
  /\ seq' = [m \in Modes |-> seq[m] + 1]
  /\ gpp' = [m \in Modes |-> "nil"]
  /\ dl' = [m \in Modes |-> 0]
  /\ UNCHANGED << fdseq, run, timer, pdlock, npc, todo, wake, fired, edge, event >>
=============================================================================
