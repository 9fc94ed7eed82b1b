-------------------------------- MODULE Deque --------------------------------
(***************************************************************************)
(* What sync/poolqueue.go promises: one producer pushes and pops at the    *)
(* head, consumers pop at the tail, and each element is obtained once.     *)
(***************************************************************************)
EXTENDS Naturals, Sequences

CONSTANTS Workers, Producer, Values, NoVal

VARIABLES
  deque,  (* the elements, the oldest first                                *)
  got     (* what each worker has popped and not returned yet              *)

vars == << deque, got >>

Init == deque = << >> /\ got = [p \in Workers |-> NoVal]

PushHead(v) == deque' = Append(deque, v) /\ UNCHANGED got

PopHead ==
  /\ deque # << >> /\ got[Producer] = NoVal
  /\ deque' = SubSeq(deque, 1, Len(deque) - 1)
  /\ got' = [got EXCEPT ![Producer] = deque[Len(deque)]]

PopTail(p) ==
  /\ deque # << >> /\ got[p] = NoVal
  /\ deque' = Tail(deque)
  /\ got' = [got EXCEPT ![p] = Head(deque)]

Return(p) ==
  /\ got[p] # NoVal
  /\ got' = [got EXCEPT ![p] = NoVal]
  /\ UNCHANGED deque

Next ==
  \/ \E v \in Values : PushHead(v)
  \/ PopHead
  \/ \E p \in Workers : (p # Producer /\ PopTail(p)) \/ Return(p)

Spec == Init /\ [][Next]_vars
=============================================================================
