---------------------------- MODULE MCSyncRWMutex ----------------------------
(* Goroutines that read, write and try. *)
EXTENDS SyncRWMutex, TLC

Perms == Permutations(Procs)
=============================================================================
