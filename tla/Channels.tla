------------------------------- MODULE Channels -------------------------------
(***************************************************************************)
(* What channels promise a Go program, one atomic step for each            *)
(* communication: a channel is a queue of bounded length and a flag, and   *)
(* an operation (a send, a receive, a close, or a select over several)     *)
(* takes effect exactly once, as one of its cases.  Module Select, which   *)
(* models runtime/chan.go and runtime/select.go, implements it.            *)
(***************************************************************************)
EXTENDS Naturals, Sequences

CONSTANTS
  Procs,   (* the goroutines                                               *)
  Chans,   (* the channels                                                 *)
  Cap,     (* Cap[c]: the capacity of channel c, 0 when unbuffered         *)
  NoVal    (* no value, or the zero value a closed channel yields          *)

VARIABLES
  queue,    (* the values sent to each channel and not yet received        *)
  closed,   (* whether the channel has been closed                         *)
  pending,  (* the cases a goroutine offers: {} outside an operation       *)
  result    (* the case an operation completed with, what it received and  *)
            (* whether it went well                                        *)

vars == << queue, closed, pending, result >>

NoChan   == "no channel"
Cases    == [ch : Chans, dir : {"send", "recv", "close"}]
Default  == [ch |-> NoChan, dir |-> "default"]
NoResult == [case |-> Default, val |-> NoVal, ok |-> TRUE]

Init ==
  /\ queue   = [c \in Chans |-> << >>]
  /\ closed  = [c \in Chans |-> FALSE]
  /\ pending = [p \in Procs |-> {}]
  /\ result  = [p \in Procs |-> NoResult]

Offers(p, c, dir) == [ch |-> c, dir |-> dir] \in pending[p]

(* The operations of the goroutines in DOMAIN r complete with these results. *)
Complete(r) ==
  /\ pending' = [p \in Procs |-> IF p \in DOMAIN r THEN {} ELSE pending[p]]
  /\ result'  = [p \in Procs |-> IF p \in DOMAIN r THEN r[p] ELSE result[p]]

One(p, res)         == [x \in {p} |-> res]
Two(p, res, q, res2) == [x \in {p, q} |-> IF x = p THEN res ELSE res2]

(* The value that p sends is p. *)
Sent(c)    == [case |-> [ch |-> c, dir |-> "send"], val |-> NoVal, ok |-> TRUE]
Got(c, v)  == [case |-> [ch |-> c, dir |-> "recv"], val |-> v, ok |-> TRUE]
Failed(c, dir) == [case |-> [ch |-> c, dir |-> dir], val |-> NoVal, ok |-> FALSE]

-----------------------------------------------------------------------------
Call(p) ==
  /\ pending[p] = {} /\ result[p] = NoResult
  /\ pending'[p] \subseteq Cases \cup {Default}
  /\ pending' = [pending EXCEPT ![p] = pending'[p]]
  /\ UNCHANGED << queue, closed, result >>

Return(p) ==
  /\ pending[p] = {}
  /\ result' = [result EXCEPT ![p] = NoResult]
  /\ UNCHANGED << queue, closed, pending >>

SendToBuffer(p, c) ==
  /\ Offers(p, c, "send")
  /\ ~closed[c] /\ Len(queue[c]) < Cap[c]
  /\ queue' = [queue EXCEPT ![c] = Append(@, p)]
  /\ Complete(One(p, Sent(c)))
  /\ UNCHANGED closed

RecvFromBuffer(p, c) ==
  /\ Offers(p, c, "recv")
  /\ queue[c] # << >>
  /\ queue' = [queue EXCEPT ![c] = Tail(@)]
  /\ Complete(One(p, Got(c, Head(queue[c]))))
  /\ UNCHANGED closed

(* Sender and receiver meet: never the two cases of one goroutine.  What is  *)
(* received is the oldest value: the sender's, if the queue is empty.        *)
Meet(p, q, c) ==
  /\ p # q /\ Offers(p, c, "send") /\ Offers(q, c, "recv")
  /\ ~closed[c] /\ Len(queue[c]) \in {0, Cap[c]}
  /\ LET all == Append(queue[c], p) IN
     /\ queue' = [queue EXCEPT ![c] = Tail(all)]
     /\ Complete(Two(p, Sent(c), q, Got(c, Head(all))))
  /\ UNCHANGED closed

Close(p, c) ==
  /\ Offers(p, c, "close") /\ ~closed[c]
  /\ closed' = [closed EXCEPT ![c] = TRUE]
  /\ Complete(One(p, [case |-> [ch |-> c, dir |-> "close"], val |-> NoVal, ok |-> TRUE]))
  /\ UNCHANGED queue

(* A closed channel: receives yield the zero value, sends and closes panic. *)
OnClosed(p, c, dir) ==
  /\ Offers(p, c, dir) /\ closed[c]
  /\ dir = "recv" => queue[c] = << >>
  /\ Complete(One(p, Failed(c, dir)))
  /\ UNCHANGED << queue, closed >>

(* A non-blocking operation gives up. *)
TakeDefault(p) ==
  /\ Default \in pending[p]
  /\ Complete(One(p, NoResult))
  /\ UNCHANGED << queue, closed >>

Next ==
  \E p \in Procs :
    \/ Call(p)
    \/ Return(p)
    \/ TakeDefault(p)
    \/ \E c \in Chans :
         \/ SendToBuffer(p, c)
         \/ RecvFromBuffer(p, c)
         \/ \E q \in Procs : Meet(p, q, c)
         \/ Close(p, c)
         \/ \E dir \in {"send", "recv", "close"} : OnClosed(p, c, dir)

Spec == Init /\ [][Next]_vars
=============================================================================
