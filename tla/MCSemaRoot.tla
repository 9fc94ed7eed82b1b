----------------------------- MODULE MCSemaRoot -----------------------------
(* Two addresses that share one root, and goroutines that call semacquire1  *)
(* and semrelease1 on either in any order.                                  *)
EXTENDS SemaAddress

CONSTANTS p1, p2, p3, addr1, addr2

MCProcs == {p1, p2, p3}
MCAddrs == {addr1, addr2}
=============================================================================
