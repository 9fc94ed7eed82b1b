--------------------------------- MODULE MCFD ---------------------------------
(* FD, for TLC: small scenes in which a few goroutines work on one FD. *)
EXTENDS FD, TLC

CONSTANTS g1, g2, g3

Scene(r1, r2, r3, active, maxField, maxSeq) ==
  [role |-> (g1 :> r1) @@ (g2 :> r2) @@ (g3 :> r3),
   active |-> active, maxField |-> maxField, maxSeq |-> maxSeq]

SmallScenes ==
  { Scene("read",  "read",     "close", TRUE,  3, 2),   (* one waits for the read lock      *)
    Scene("read",  "write",    "none",  TRUE,  3, 2),   (* both wait in the poller          *)
    Scene("read",  "write",    "close", FALSE, 3, 2),
    Scene("read",  "write",    "deadline", FALSE, 3, 1),
    Scene("read",  "deadline", "none",  TRUE,  3, 1),   (* an event while a deadline moves  *)
    Scene("read",  "deadline", "close", FALSE, 2, 2),   (* too many references for a field  *)
    Scene("close", "deadline", "close", FALSE, 3, 2) }
=============================================================================
