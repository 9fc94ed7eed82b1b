---------------------------- MODULE MCSyncMutex ----------------------------
(* Goroutines that lock, try and unlock one mutex for ever.                 *)
EXTENDS SyncMutex, TLC

CONSTANTS p1, p2, p3

MCProcs == {p1, p2, p3}
Perms   == Permutations(MCProcs)
=============================================================================
