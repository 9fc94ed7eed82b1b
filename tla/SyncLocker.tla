----------------------------- MODULE SyncLocker -----------------------------
\* sync.Locker (sync/mutex.go:41-45), the interface of what can be locked and
\* unlocked, as the comment of Mutex explains it (sync/mutex.go:28-30): between
\* the return of Lock and the call of Unlock a goroutine has the lock for itself,
\* so that whoever gets it next does so after that Unlock.
\*
\* SyncMutex is shown to be one.  SyncRWMutex and SyncCond, which contain one
\* each, take these steps where their code calls its Lock and Unlock.

CONSTANTS
  Procs,   \* goroutines
  NoProc   \* what has the lock when none of them does

VARIABLE holder  \* the goroutine whose Lock has returned, until it calls Unlock

\* It is handed from nobody to a goroutine, or back, never between goroutines.
Passes(from, to) ==
  /\ holder = from
  /\ holder' = to

Acquire(p) == Passes(NoProc, p)
Release(p) == Passes(p, NoProc)

Unheld  == holder = NoProc
Changes == \E p \in Procs : Acquire(p) \/ Release(p)

Spec == Unheld /\ [][Changes]_holder
=============================================================================
