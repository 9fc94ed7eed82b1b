------------------------------ MODULE NotifyList ------------------------------
(***************************************************************************)
(* runtime/sema.go, notifyList: the ticket queue under sync.Cond.          *)
(*                                                                         *)
(* A waiter draws a ticket from wait, without the lock, and joins the list *)
(* later.  A notification advances notify; the waiter of the ticket is     *)
(* readied if it is in the list, and otherwise finds out when it tries to  *)
(* join it.  Tickets wrap around.  What happens under l.lock is one step;  *)
(* every goready after the unlock is another.                              *)
(*                                                                         *)
(* The module is a component: SyncCond conjoins its actions with its own.  *)
(***************************************************************************)
EXTENDS Integers, Sequences, FiniteSets, Goroutines

CONSTANTS
  Tickets,  (* how many tickets there are before they wrap around, 2^32    *)
  MaxGap    (* bound: how far notify may get ahead of the ticket of a      *)
            (* goroutine that has not run notifyListWait yet               *)

(* Two tickets in use are at most half of the circle apart: there are not     *)
(* more than 2^31 goroutines (sema.go:529-532), nor a goroutine that has      *)
(* drawn its ticket and misses more than 2^31 notifications before it runs on.*)
ASSUME TicketsAssumption ==
  /\ Tickets \in Nat \ {0} /\ MaxGap \in Nat
  /\ Cardinality(Procs) <= Tickets \div 2 /\ MaxGap <= Tickets \div 2

VARIABLES
  wait,     (* l.wait, the ticket of the next waiter                       *)
  notify,   (* l.notify, the ticket of the next waiter to be notified      *)
  list,     (* l.head .. l.tail: the parked goroutines                     *)
  nst,      (* where each goroutine is in notifyListWait or notifyListX    *)
  ticket,   (* the ticket each waiter has drawn                            *)
  seen,     (* the l.wait that a notifier has loaded without the lock      *)
  batch,    (* the goroutines that a notifier has yet to ready             *)
  gap       (* history: notify less ticket, had neither wrapped around     *)

listVars == << wait, notify, list, nst, ticket, seen, batch, gap >>

(* "one" and "all" have loaded wait, "oneLock" and "allLock" are at the lock. *)
NStates == {"idle", "ticket", "parked", "one", "all", "oneLock", "allLock", "readying"}

(* A new list, or one that nobody waits in, with the last ticket to be drawn. *)
ListInit ==
  /\ wait \in {0, Tickets - 1} /\ notify = wait /\ list = << >>
  /\ nst    = [p \in Procs |-> "idle"]
  /\ ticket = [p \in Procs |-> 0]
  /\ seen   = [p \in Procs |-> 0]
  /\ batch  = [p \in Procs |-> << >>]
  /\ gap    = [p \in Procs |-> 0]

NGoto(p, from, to) ==
  /\ nst[p] = from
  /\ nst' = [nst EXCEPT ![p] = to]

(* Tickets drawn and not yet notified. *)
Ahead == (wait - notify) % Tickets

Inside == {p \in Procs : nst[p] \in {"ticket", "parked"}}

(* Variant: the tickets are compared as they are. *)
LessUnwrapped(a, b) == a < b

(* int32(a-b) < 0 *)
Less(a, b) == (a - b) % Tickets >= Tickets \div 2

-----------------------------------------------------------------------------
(* notifyListAdd, notifyListWait *)

ListAdd(p) ==
  /\ NGoto(p, "idle", "ticket")
  /\ wait' = (wait + 1) % Tickets
  /\ ticket' = [ticket EXCEPT ![p] = wait]
  /\ gap' = [gap EXCEPT ![p] = -Ahead]
  /\ UNCHANGED << notify, list, seen, batch >>

Forget(p) ==
  /\ ticket' = [ticket EXCEPT ![p] = 0]
  /\ gap' = [gap EXCEPT ![p] = 0]

(* Return right away if this ticket has already been notified. *)
AlreadyNotified(p) ==
  /\ NGoto(p, "ticket", "idle")
  /\ Less(ticket[p], notify)
  /\ Forget(p)
  /\ UNCHANGED << wait, notify, list, seen, batch >>

(* Enqueue itself. *)
Park(p) ==
  /\ NGoto(p, "ticket", "parked")
  /\ ~Less(ticket[p], notify)
  /\ list' = Append(list, p)
  /\ UNCHANGED << wait, notify, ticket, seen, batch, gap >>

-----------------------------------------------------------------------------
(* notifyListNotifyOne, notifyListNotifyAll *)

LoadWait(p, which) ==
  /\ NGoto(p, "idle", which)
  /\ seen' = [seen EXCEPT ![p] = wait]
  /\ UNCHANGED << wait, notify, list, ticket, batch, gap >>

(* Fast path: wait, loaded first, is notify, loaded now. *)
NothingNew(p) ==
  /\ nst[p] \in {"one", "all"}
  /\ seen[p] = notify
  /\ nst'  = [nst EXCEPT ![p] = "idle"]
  /\ seen' = [seen EXCEPT ![p] = 0]
  /\ UNCHANGED << wait, notify, list, ticket, batch, gap >>

ToLock(p) ==
  /\ nst[p] \in {"one", "all"}
  /\ seen[p] # notify
  /\ nst'  = [nst EXCEPT ![p] = IF nst[p] = "one" THEN "oneLock" ELSE "allLock"]
  /\ seen' = [seen EXCEPT ![p] = 0]
  /\ UNCHANGED << wait, notify, list, ticket, batch, gap >>

(* Notify n more tickets.  (Of a parked goroutine it only matters whether it  *)
(* has been notified.)                                                        *)
Advance(n) ==
  /\ notify' = (notify + n) % Tickets
  /\ gap' = [q \in Procs |-> IF q \notin Inside THEN 0
                             ELSE IF nst[q] = "parked" /\ gap[q] + n > 1 THEN 1
                             ELSE gap[q] + n]
  /\ \A q \in Procs : nst[q] = "ticket" => gap'[q] <= MaxGap

(* Re-check under the lock if we need to do anything. *)
OneNone(p) ==
  /\ NGoto(p, "oneLock", "idle")
  /\ notify = wait
  /\ UNCHANGED << wait, notify, list, ticket, seen, batch, gap >>

(* Variant: the first of the list is taken, whatever its ticket. *)
OneFirst(p) ==
  /\ notify # wait
  /\ Advance(1)
  /\ IF list # << >>
     THEN /\ list' = Tail(list)
          /\ batch' = [batch EXCEPT ![p] = << Head(list) >>]
          /\ NGoto(p, "oneLock", "readying")
     ELSE NGoto(p, "oneLock", "idle") /\ UNCHANGED << list, batch >>
  /\ UNCHANGED << wait, ticket, seen >>

(* The waiter of ticket notify: ready it if it has made it to the list. *)
OneTake(p) ==
  /\ notify # wait
  /\ Advance(1)
  /\ \/ \E k \in DOMAIN list :
          /\ ticket[list[k]] = notify /\ \A j \in 1 .. k - 1 : ticket[list[j]] # notify
          /\ list' = SubSeq(list, 1, k - 1) \o SubSeq(list, k + 1, Len(list))
          /\ batch' = [batch EXCEPT ![p] = << list[k] >>]
          /\ NGoto(p, "oneLock", "readying")
     \/ /\ \A k \in DOMAIN list : ticket[list[k]] # notify
        /\ NGoto(p, "oneLock", "idle")
        /\ UNCHANGED << list, batch >>
  /\ UNCHANGED << wait, ticket, seen >>

AllTake(p) ==
  /\ NGoto(p, "allLock", "readying")
  /\ Advance(Ahead)
  /\ list' = << >>
  /\ batch' = [batch EXCEPT ![p] = list]
  /\ UNCHANGED << wait, ticket, seen >>

(* readyWithTime, outside the lock. *)
ReadyOne(p) ==
  /\ nst[p] = "readying" /\ batch[p] # << >>
  /\ nst' = [nst EXCEPT ![Head(batch[p])] = "idle"]
  /\ Forget(Head(batch[p]))
  /\ batch' = [batch EXCEPT ![p] = Tail(@)]
  /\ UNCHANGED << wait, notify, list, seen >>

NotifyReturn(p) ==
  /\ NGoto(p, "readying", "idle")
  /\ batch[p] = << >>
  /\ UNCHANGED << wait, notify, list, ticket, seen, batch, gap >>

NotifyStep(p) ==
  \/ NothingNew(p) \/ ToLock(p) \/ OneNone(p) \/ OneTake(p) \/ AllTake(p)
  \/ ReadyOne(p) \/ NotifyReturn(p)
=============================================================================
