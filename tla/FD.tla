----------------------------------- MODULE FD -----------------------------------
(***************************************************************************)
(* internal/poll/fd_unix.go, fd_poll_runtime.go: a pollable FD over its    *)
(* fdMutex (module FdMutex) and its pollDesc (module Netpoll).             *)
(*                                                                         *)
(* Goroutines read, write, close, and set deadlines, at the same time.     *)
(* Close marks the FD closed, unblocks everybody and waits on csema; the   *)
(* one that drops the last reference closes the file descriptor.  A later  *)
(* open, of another FD, may get the same pollDesc.                         *)
(***************************************************************************)
EXTENDS Netpoll

CONSTANTS
  Scenes,   (* who does what: records of the role of each goroutine,       *)
            (* "read", "write", "close", "deadline" or "none"; whether the *)
            (* network is active; maxField, as in FdMutex; and the bound   *)
            (* maxSeq, beyond which no SetDeadline takes rseq or wseq      *)
  MaxOpens  (* bound: how often the pollDesc is opened                     *)

Roles == {"read", "write", "close", "deadline", "none"}

ASSUME ScenesAssumption ==
  Scenes \subseteq [role : [Procs -> Roles], active : BOOLEAN, maxField : Nat, maxSeq : Nat]

VARIABLES
  fdClosed, rwLocked, refs, waits, rwsema, owes,  (* as in FdMutex         *)
  scene,  (* the scene                                                     *)
  fpc,    (* the next step of each goroutine                               *)
  after,  (* where it goes once it has released the permits it owes        *)
  csema,  (* fd.csema                                                      *)
  sysfd,  (* the file descriptor is open                                   *)
  avail,  (* the modes in which the kernel would not return EAGAIN         *)
  opens   (* how often the pollDesc was opened                             *)

Mu == INSTANCE FdMutex WITH maxField <- scene.maxField

fdmuVars == << fdClosed, rwLocked, refs, waits, rwsema, owes >>
local == << scene, fpc, after >>
kernel == << sysfd, avail, opens >>
fdVars == << fdmuVars, pollVars, local, csema, kernel >>

FPCs == {"idle", "asleep", "relock", "reset", "store", "syscall", "waiting", "unlock",
         "give", "evict", "set", "unblocking", "decref", "destroy", "free", "sysclose",
         "signal", "csema"}

FdInit ==
  /\ Mu!FdmuInit /\ PollInit
  /\ scene \in Scenes
  /\ fpc = [p \in Procs |-> "idle"] /\ after = [p \in Procs |-> "idle"]
  /\ csema = 0 /\ sysfd = TRUE /\ avail = {} /\ opens = 1

FGoto(p, from, to) ==
  /\ fpc[p] = from
  /\ fpc' = [fpc EXCEPT ![p] = to]

Mode(p) == IF scene.role[p] = "write" THEN "w" ELSE "r"

(* Close waits for the descriptor to be closed; the others return. *)
Done(p) == IF scene.role[p] = "close" THEN "csema" ELSE "idle"

-----------------------------------------------------------------------------
(* Read and Write: readLock, prepareRead, the system call, waitRead, readUnlock *)

Locks(p) ==
  /\ fpc[p] \in {"idle", "relock"} /\ scene.role[p] \in {"read", "write"}
  /\ \/ Mu!RwLock(Mode(p))  /\ fpc' = [fpc EXCEPT ![p] = "reset"]
     \/ Mu!RwWait(Mode(p))  /\ fpc' = [fpc EXCEPT ![p] = "asleep"]
     \/ Mu!RwFails(Mode(p)) /\ fpc' = [fpc EXCEPT ![p] = "idle"]
  /\ UNCHANGED << pollVars, scene, after, csema, kernel >>

LockWoken(p) ==
  /\ FGoto(p, "asleep", "relock")
  /\ Mu!Semacquire(Mode(p))
  /\ UNCHANGED << pollVars, scene, after, csema, kernel >>

Prepare(p) ==
  /\ FGoto(p, "reset", IF CheckErr(Mode(p)) THEN "unlock" ELSE "store")
  /\ UNCHANGED << fdmuVars, pollVars, scene, after, csema, kernel >>

PrepareStore(p) ==
  /\ FGoto(p, "store", "syscall")
  /\ ResetStore(Mode(p))
  /\ UNCHANGED << fdmuVars, scene, after, csema, kernel >>

(* It transfers all there is, or a part, or it must wait.  A write goes on    *)
(* until it has written everything.                                           *)
Syscall(p) ==
  /\ \/ /\ Mode(p) \in avail
        /\ FGoto(p, "syscall", "unlock")
        /\ avail' \in {avail, avail \ {Mode(p)}}
        /\ UNCHANGED npc
     \/ /\ Mode(p) = "w" /\ "w" \in avail
        /\ FGoto(p, "syscall", "syscall")
        /\ avail' = avail \ {"w"}
        /\ UNCHANGED npc
     \/ /\ Mode(p) \notin avail
        /\ FGoto(p, "syscall", "waiting")
        /\ npc' = [npc EXCEPT ![p] = "wait"]
        /\ UNCHANGED avail
  /\ UNCHANGED << fdmuVars, quiet, gpp, thrown, scene, after, csema, sysfd, opens >>

Waits(p) ==
  /\ fpc[p] = "waiting"
  /\ PollWait(p, Mode(p))
  /\ UNCHANGED << fdmuVars, local, csema, kernel >>

Waited(p) ==
  /\ npc[p] \in {"ok", "err"}
  /\ FGoto(p, "waiting", IF npc[p] = "ok" THEN "syscall" ELSE "unlock")
  /\ npc' = [npc EXCEPT ![p] = "out"]
  /\ UNCHANGED << fdmuVars, quiet, gpp, thrown, scene, after, csema, kernel >>

Unlocks(p) ==
  /\ FGoto(p, "unlock", "give")
  /\ Mu!RwUnlock(p, Mode(p))
  /\ after' = [after EXCEPT ![p] = IF Mu!LastReference THEN "destroy" ELSE "idle"]
  /\ thrown' = (thrown \/ Mu!Inconsistent(Mode(p)))
  /\ UNCHANGED << quiet, gpp, npc, scene, csema, kernel >>

(* runtime_Semrelease for those that were taken off the word *)
Gives(p) ==
  /\ fpc[p] = "give"
  /\ \/ Mu!Semrelease(p) /\ UNCHANGED << fpc, after >>
     \/ /\ owes[p] = Mu!None
        /\ fpc' = [fpc EXCEPT ![p] = after[p]]
        /\ after' = [after EXCEPT ![p] = "idle"]
        /\ UNCHANGED fdmuVars
  /\ UNCHANGED << pollVars, scene, csema, kernel >>

-----------------------------------------------------------------------------
(* Close; setDeadlineImpl *)

Close(p) ==
  /\ scene.role[p] = "close"
  /\ FGoto(p, "idle", "give")
  /\ Mu!IncrefAndClose(p)
  /\ after' = [after EXCEPT ![p] = "evict"]
  /\ UNCHANGED << pollVars, scene, csema, kernel >>

Evict(p) ==
  /\ FGoto(p, "evict", "unblocking")
  /\ PollUnblock(p)
  /\ UNCHANGED << fdmuVars, scene, after, csema, kernel >>

SetDeadlineImpl(p) ==
  /\ scene.role[p] = "deadline"
  /\ FGoto(p, "idle", "set")
  /\ Mu!Incref
  /\ UNCHANGED << pollVars, scene, after, csema, kernel >>

Sets(p) ==
  /\ FGoto(p, "set", "unblocking")
  /\ \E ms \in {{"r"}, {"w"}, {"r", "w"}}, d \in {-1, 0} \cup Deadlines : SetDeadline(p, ms, d)
  /\ \A m \in Modes : seq'[m] = seq[m] \/ seq'[m] <= scene.maxSeq
  /\ UNCHANGED << fdmuVars, scene, after, csema, kernel >>

Unblocked(p) ==
  /\ FGoto(p, "unblocking", "decref")
  /\ todo[p] = << >> /\ wake[p] = {}
  /\ UNCHANGED << fdmuVars, pollVars, scene, after, csema, kernel >>

Decrefs(p) ==
  /\ fpc[p] = "decref"
  /\ Mu!Decref
  /\ fpc' = [fpc EXCEPT ![p] = IF Mu!LastReference THEN "destroy" ELSE Done(p)]
  /\ thrown' = (thrown \/ refs = 0)
  /\ UNCHANGED << quiet, gpp, npc, scene, after, csema, kernel >>

-----------------------------------------------------------------------------
(* destroy, by the one that dropped the last reference *)

Destroy(p) ==
  /\ FGoto(p, "destroy", "free")
  /\ PollClose
  /\ UNCHANGED << fdmuVars, scene, after, csema, kernel >>

Frees(p) ==
  /\ FGoto(p, "free", "sysclose")
  /\ PollFree
  /\ UNCHANGED << fdmuVars, scene, after, csema, kernel >>

SysClose(p) ==
  /\ FGoto(p, "sysclose", "signal")
  /\ sysfd' = FALSE /\ avail' = {}
  /\ UNCHANGED << fdmuVars, pollVars, scene, after, csema, opens >>

Signal(p) ==
  /\ FGoto(p, "signal", Done(p))
  /\ csema' = csema + 1
  /\ UNCHANGED << fdmuVars, pollVars, scene, after, kernel >>

CloseReturn(p) ==
  /\ FGoto(p, "csema", "idle")
  /\ csema > 0 /\ csema' = csema - 1
  /\ UNCHANGED << fdmuVars, pollVars, scene, after, kernel >>

-----------------------------------------------------------------------------
(* A later open of another FD, when the goroutines are done with this one.    *)
Open ==
  /\ ~sysfd /\ opens < MaxOpens
  /\ \A p \in Procs : fpc[p] = "idle"
  /\ opens' = opens + 1 /\ sysfd' = TRUE
  /\ fdClosed' = FALSE
  /\ csema' = 0 /\ rwsema' = Mu!None
  /\ PollOpen
  /\ UNCHANGED << rwLocked, refs, waits, owes, local, avail >>

(* The other end, and the network.  The epoll events are edge-triggered       *)
(* (EPOLLET): one for each arrival, also of more where there was something.   *)
Arrive(m) ==
  /\ scene.active /\ sysfd
  /\ \E p \in Procs : scene.role[p] = (IF m = "r" THEN "read" ELSE "write")
  /\ avail' = avail \cup {m}
  /\ edge' = IF \E p \in Procs : fpc[p] \in {"free", "sysclose"} THEN edge ELSE edge \cup {m}
  /\ UNCHANGED << fdmuVars, desc, gpp, pdlock, npc, todo, wake, fired, event, thrown,
                  local, csema, sysfd, opens >>

-----------------------------------------------------------------------------
Call(p) == (fpc[p] = "idle" /\ Locks(p)) \/ Close(p) \/ SetDeadlineImpl(p)

Step(p) ==
  \/ (fpc[p] = "relock" /\ Locks(p))
  \/ LockWoken(p) \/ Prepare(p) \/ PrepareStore(p) \/ Syscall(p) \/ Waits(p) \/ Waited(p)
  \/ Unlocks(p) \/ Gives(p) \/ Evict(p) \/ Sets(p) \/ Unblocked(p) \/ Decrefs(p)
  \/ Destroy(p) \/ Frees(p) \/ SysClose(p) \/ Signal(p) \/ CloseReturn(p)

Runtime(a) ==
  /\ \/ Unblock(a) \/ Goready(a)
     \/ a \in Callbacks /\ (Deadline(a) \/ Expire(a))
     \/ a = Poller /\ (EpollWait \/ NetpollReady)
  /\ UNCHANGED << fdmuVars, local, csema, kernel >>

FdNext ==
  \/ \E p \in Procs : Call(p) \/ Step(p)
  \/ \E a \in Actors : Runtime(a)
  \/ \E m \in Modes, c \in Callbacks :
       Fire(m, c) /\ UNCHANGED << fdmuVars, local, csema, kernel >>
  \/ \E m \in Modes : Arrive(m)
  \/ Open

(* Goroutines go on with what they have begun, and so do timer functions and  *)
(* the poller.  Nobody must call, no deadline must pass, and nothing arrive.  *)
(* (A goroutine in the runtime takes no other step meanwhile.)                *)
FdSpec ==
  /\ FdInit /\ [][FdNext]_fdVars
  /\ \A p \in Procs : WF_fdVars(Step(p) \/ Runtime(p))
  /\ \A a \in Callbacks \cup {Poller} : WF_fdVars(Runtime(a))

-----------------------------------------------------------------------------
(***************************************************************************)
(* The file descriptor is not closed, nor its pollDesc freed, under        *)
(* anybody's feet, and it is closed once; no reference is lost; and a      *)
(* timer or an event of an earlier use never hits the descriptor: the      *)
(* runtime does not throw (fd_mutex.go:43-47, netpoll.go:194-199, 244-305, *)
(* 548-583, 622-654).                                                      *)
(***************************************************************************)
Holds(p) == fpc[p] \in {"reset", "store", "syscall", "waiting", "unlock", "set", "unblocking", "decref"}
            \/ (scene.role[p] = "close" /\ fpc[p] \in {"give", "evict"})

FdSafe ==
  /\ fpc \in [Procs -> FPCs] /\ npc \in [Procs -> NPCs] /\ pdlock \in Actors \cup {Free}
  /\ ~thrown
  /\ refs = Cardinality({p \in Procs : Holds(p)})
  /\ refs > 0 => sysfd
  /\ LET destroying == {p \in Procs : fpc[p] \in {"destroy", "free", "sysclose", "signal"}
                                       \/ after[p] = "destroy"}
     IN /\ Cardinality(destroying) + csema <= 1
        /\ destroying # {} => fdClosed /\ refs = 0
  /\ \A m \in Modes : rwLocked[m] =
       (\E p \in Procs : fpc[p] \in {"reset", "store", "syscall", "waiting", "unlock"} /\ Mode(p) = m)

(***************************************************************************)
(* A goroutine sleeps in the poller only while there is a reason to: the   *)
(* kernel has nothing for it, or the event is on its way; the descriptor   *)
(* is not closing and its deadline has not passed, or somebody is about to *)
(* unblock it; and a deadline to come has a valid timer.  One that was     *)
(* unblocked is in one list of those to be made ready (netpoll.go:571-582).*)
(***************************************************************************)
Coming(a, m) == \E i \in DOMAIN todo[a] : todo[a][i] = << "unblock", m >>

Timed(m) ==
  \E t \in {timer["r"], timer["w"]} \cup {fired[c] : c \in Callbacks} :
    /\ t # Stopped
    /\ t.seq = seq[t.fn[1]]
    /\ \E i \in DOMAIN t.fn : t.fn[i] = m

BlockedForAReason ==
  \A p \in Procs : npc[p] = "parked" =>
    LET m == Mode(p) IN
    IF gpp[m] # p THEN Cardinality({a \in Actors : p \in wake[a]}) = 1
    ELSE /\ \A a \in Actors : p \notin wake[a]
         /\ m \in avail => m \in edge \/ Coming(Poller, m) \/ (m \in event.modes /\ event.tag = fdseq)
         /\ CheckErr(m) => \E a \in Actors \ {Poller} : Coming(a, m)
         /\ ~closing /\ dl[m] > 0 => Timed(m)

(***************************************************************************)
(* Once the FD is closed every call returns: readers and writers that      *)
(* sleep on a lock or in the poller, and Close itself, which waits for     *)
(* them (fd_unix.go:96-115).                                               *)
(***************************************************************************)
CloseReturns == \A p \in Procs : (fdClosed /\ fpc[p] # "idle") ~> (fpc[p] = "idle")
=============================================================================
