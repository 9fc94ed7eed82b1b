# Formal models of Go's concurrency core

TLA+ models of the parts of Go 1.23.5 that goroutines synchronise with and are
scheduled by: the semaphores and notify lists of the runtime, `sync.Mutex`,
`sync.RWMutex`, `sync.Cond`, `sync.WaitGroup`, the queues under `sync.Pool`,
channels and `select`, the run queues of the scheduler, and file descriptors
over the network poller. All paths below are relative to
`src/go-go1.23.5/src/`.

Contents: [the system](#1-the-system) · [the plan](#2-the-plan) ·
[the modules](#3-the-modules-and-the-code) · [the runs](#4-the-runs) ·
[the proofs](#5-the-proofs) · [where the code and its comments
differ](#6-where-the-code-and-its-comments-differ) · [what is left
out](#7-what-is-not-modelled).

## 1. The system

The repository is the Go distribution (with study notes under `book/`): the
runtime, the standard library, the compiler and the tools. What is hard to get
right in it, and hard to test, is the layer on which every Go program relies
without seeing it: a few hundred lines of lock-free code in `runtime` and `sync`.
This is the layer modelled here, from the bottom up.

```
  database/sql pool   context   io.Pipe   singleflight        (clients, planned)
        |                |         |           |
  sync.Mutex  RWMutex  WaitGroup    Cond    channels   select    poll.FD
        |        |         |          |         |        |       |     |
        |        |         |          |         |        |    fdMutex  |
        |        |         |          |         |        |       |     |
        +--------+-- semaphores -- notify lists |        | --(sema)  netpoll
                         |            |         |        |             |
                     root.lock      l.lock    c.lock, sellock      pd.lock, epoll
                         |            |         |                      |
                         +------- gopark / goready, run queues --------+

  (Pool's chain of rings stands by itself: a producer and consumers, no locks.)
```

| component | state it keeps | operations | what is hard | what makes it correct |
|---|---|---|---|---|
| Semaphores `runtime/sema.go` | `*addr`; 251 roots, each a lock, the count `nwait` and a treap of addresses with a list of sudogs each | `semacquire1`, `semrelease1` | `*addr` and `nwait` are read without the lock; addresses share a root; hand off by ticket | permits conserved, no waiter sleeps on a free permit, FIFO or LIFO order |
| Mutex `sync/mutex.go` | one word (locked, woken, starving, waiter count) and a semaphore | `Lock`, `TryLock`, `Unlock` | every decision is made on a word read earlier; two modes; flags that travel with a wakeup | exclusion, word agrees with goroutines, one wakeup at a time, none lost |
| Channels `runtime/chan.go` | ring buffer, `closed`, two queues of sudogs, a lock | `chansend`, `chanrecv`, `closechan` | lock-free fast paths; direct hand over to parked goroutines; close under waiters | values delivered once and in order; nobody waits on a ready channel |
| Select `runtime/select.go` | sudogs on several channels, `selectDone` | `selectgo` | several locks at once, released one by one while parking; several partners may pick the same select | exactly one case; stale sudogs never used; no deadlock |
| RWMutex `sync/rwmutex.go` | `readerCount`, `readerWait`, a Mutex, two semaphores | `RLock`, `RUnlock`, `Lock`, `Unlock`, `Try…` | readers leave while a writer is counting them | exclusion, the last reader wakes the writer once |
| Notify lists, Cond `runtime/sema.go`, `sync/cond.go` | two 32-bit tickets, a list | `Add`, `Wait`, `NotifyOne`, `NotifyAll` | the list lags behind the tickets; wraparound | who called `Wait` before `Signal` is eligible, nobody else |
| WaitGroup, Once `sync` | counter and waiters in one word | `Add`, `Done`, `Wait`, `Do` | `Add` racing `Wait`; reuse | `Wait` returns only at zero; `f` runs once, before any `Do` returns |
| Pool `sync/pool.go`, `sync/poolqueue.go` | rings with packed head and tail | `pushHead`, `popHead`, `popTail` | one producer, many consumers, the last element | each value obtained once |
| sync.Map | read map, dirty map, expunged entries | `Load`, `Swap`, `Delete`, … | promotion of dirty to read under lock-free readers | linearizable |
| fdMutex `internal/poll/fd_mutex.go` | references, waiters, locks and closing in one word | `rwlock`, `incref`, `increfAndClose`, … | close while others join | last reference destroys once; closers wake everyone |
| Timers `runtime/time.go` | a heap per P, `minWhenHeap` and `minWhenModified`, state bits with an unlocked copy, a channel per timer | `stop`, `modify`, `maybeAdd`, `check`, `adjust`, `run`, `unlockAndRun`, `blockTimerChan` | timers are set without the lock of the heap; stop racing the send; lazy removal | no stale value after `Stop`, no timer run late |
| Run queues `runtime/proc.go` | 256-slot ring per P, `runnext`, global queue | `runqput`, `runqget`, `runqgrab` | steal of half a ring by CAS of the head; index wraparound | no goroutine lost or run twice |
| Netpoller `runtime/netpoll.go` | `rg`, `wg` words of a `pollDesc` | `netpollblock`, `netpollunblock`, deadlines | readiness racing the park | no lost readiness |
| context | tree of cancel functions | `WithCancel`, `AfterFunc`, cancel | cancellation racing registration | each child cancelled, once |
| sql pool `database/sql/sql.go` | free connections, requests | `conn`, `putConn`, … | hand over racing a cancelled request | `maxOpen` kept, no connection leaked |

Of these, `sync.Map`, `context` and the sql pool are not modelled yet;
the others are, some of them in part. The memory allocator, the garbage collector, maps, `net/http`, the encoders,
cryptography, the compiler and the tools are listed in `PROJECT.json` with the
reason each is left out. The hazards of the code, line by line, are there too.

**How the components meet.** A goroutine that must wait calls `gopark`, which
puts it to sleep and then releases a lock it holds; the one that wakes it calls
`goready`. In the models a goroutine is a process, its program counter says
where it is, `gopark` sets it to a state with no action of its own, and
`goready` is the step of another process that sets it to the next one.
A Mutex calls `runtime_SemacquireMutex` and `runtime_Semrelease` on its own
semaphore address. Channels and selects share the wait queues of the channels;
a select that waits has a sudog on each of its channels. A `Cond` keeps its
sleepers in a notify list, outside its `Locker`. A file descriptor serialises its
readers and writers with an `fdMutex`; the one that must wait for the network
sleeps in its `pollDesc`, where the poller, a deadline timer or `Close` finds it.
Timers feed channels; a receiver that blocks on one puts the timer into the heap,
and one that does not block runs it on the spot.

## 2. The plan

In this order, the most important behaviour first; (*) marks what is done.

1. (*) `Semaphore`, the abstract semaphore that clients are built on, and
   `SemaRoot`, the code of `sema.go`, shown to implement it.
2. (*) `SyncLocker`, the abstract lock, and `SyncMutex`, which implements it over
   `Semaphore`; (*) its inductive invariant, in `SyncProofs`.
3. (*) `Channels`, the atomic channels a Go program may rely on, and `Chan` and
   `Select`, the code, shown to implement them.
4. (*) `SyncRWMutex` over `SyncLocker` and two instances of `Semaphore`: readers and a
   writer exclude each other, `readerWait` agrees with the readers that are
   still inside, the writer is not starved.
5. (*) `CondVar`, the condition variable of the documentation, and `NotifyList`
   with its client `SyncCond`, shown to implement it.
6. (*) `SyncWaitGroup` over `Semaphore`.
7. (*) `Deque` and `PoolChain`, which implements it; (*) `RunQueue`.
8. (*) `FdMutex`, `Netpoll` and their composition `FD`.
9. (*) `Timers`, with the channels that they feed.
10. Then `sync.Map`, `Once`, `context`, `io.Pipe` and the sql pool.

Theorems, in order of worth; (*) is proved: (*) mutual exclusion, the absence of
throws, the waiter count and the refinement of `SyncMutex`; (*) the queue
invariant of `Semaphore`; (*) permits and wakeups of `SemaRoot`, and that every
address of it implements `Semaphore`; (*) exclusion and counts of `SyncRWMutex`;
(*) the queues, rings, locks and wakeups of `Chan` and `Select`, and (*) that
`Select` implements `Channels`; (*) the drain of `SyncWaitGroup`; (*) that
`SyncCond` forgets no sleeper and implements `CondVar`; (*) the lifetime of a
descriptor in `FdMutex` and `FD`, and (*) why a goroutine is blocked in the poller;
(*) that `PoolChain` strands no element and implements `Deque`; (*) stale values,
wakeups and results of `Timers`; (*) that `RunQueue` keeps every goroutine in one place and
`runqempty` is right. Modules use no
`RECURSIVE` operator, so that all of them can be proved about.

## 3. The modules and the code

A *step* is one access that another goroutine can see: an atomic operation, or a
critical section under a runtime lock when no other goroutine can tell its parts
apart. A `CompareAndSwap` that fails is the reload that follows it in the code.
`PROJECT.json` gives the lines each definition stands for.

Some definitions are headed *Variant*: they are the definition that follows them
with one plausible mistake in it (a check not repeated, a flag not cleared, the
wrong end of a queue). Nothing uses them. Put in the place of the original, each
makes TLC refute the property that `PROJECT.json` pairs it with, which is how we
know that the property depends on the line it is meant for.

### `Semaphore` (abstract) and `SemaRoot` — `runtime/sema.go:105-282`

`Semaphore` is one address: a number of permits `sema`, a queue `waitq`, where
each goroutine stands (`sst`) and the waiter a releaser has taken out (`wakee`).
A woken waiter owns nothing; it competes again and may lose (`ResumeLose`).
Only a hand off grants the permit along with the wakeup, and only if nobody took
it first (`ReleaseReady`). It is a component: its actions are conjoined with
those of its clients.

`SemaRoot` is the code. Several addresses (`Addrs`) share `rootLock` and
`nwait`. Its actions follow the source: `AcquireEasy` (`:139`), `AcquireLock`
with `nwait.Add(1)` (`:167-169`), the second `cansemacquire` under the lock
(`AcquireCheck`, `:171`), `AcquireQueue` (queue and park, `:177-178`),
`AcquireWoke` (`:179`), `ReleaseXadd` (`:195`), the unlocked read of `nwait`
(`ReleaseEasy`, `ReleaseHarder`, `:200`), the second read under the lock
(`ReleaseNobody`), `ReleaseDequeue`, `ReleaseHandoff` (`:246`) and
`ReleaseReady`. `ledger` is a history variable: permits released and not yet
returned to a caller. The treap with its rotations, which finds the list of an
address, is replaced by the function from addresses to lists; profiling, race
annotations and the `goyield` after a hand off are left out. `SemaAddress` is the
refinement mapping: one address, `addr`, read as a `Semaphore`.

### `SyncLocker` (abstract) and `SyncMutex` — `sync/mutex.go`

`state` is the record of the three flags and the waiter count, `pc` and the local
variables of `lockSlow` and `unlockSlow` are per goroutine, and the semaphore's
variables are those of `Semaphore`. One action per atomic access of the code:
the fast paths; `SlowLoad`, `Spin`, `CasAcquire`, `CasQueue`, `CasFail`,
`SemWait` and `SemAcquired` (the call of `runtime_SemacquireMutex`),
`ResumeAwake` and `ResumeOwner` (the reload after it), `TakeHandoff` (the
`AddInt32`); `TryLockLoad`, `TryLockTake`, `TryLockFail`; `UnlockFast`,
`UnlockMiss`, `UnlockDone`, `UnlockCas`, `UnlockCasFail`, `SemRelease`,
`SemReleased`. Time is a choice: a waiter may or may not have waited more than
1 ms (`Reload`), which covers every clock. The two `throw`s and the `fatal` are
a program counter `"throw"`; an `AddInt32` whose fields would carry into each
other leads there too, because the record could not represent it.

### `Channels` (abstract), `Chan` and `Select` — `runtime/chan.go`, `runtime/select.go`

`Channels` is what a program may rely on: a bounded queue and a flag per
channel; each call offers cases (`pending`) and completes once with one of them
(`result`), two calls at a time when a sender meets a receiver.

`Chan` has the channels themselves: ring (`buf`, `sendx`, `recvx`, `qcount`),
`closed`, `recvq`, `sendq`. Everything a goroutine does under `c.lock` is one
step: `Communicate`, `GiveUp`, `Park`, `Close`, `CloseAgain`. The unlocked reads
of the non-blocking fast paths are one step each (`SendFastClosed`,
`SendFastFull`, `RecvFastEmpty`, `RecvFastOpen`, `RecvFastDrained`), as is each
`goready` after the unlock (`ReadyOne`) and what a goroutine does when it is
woken (`Woken`). The value that goroutine `p` sends is `p` itself. A sudog is
the goroutine and the number of its case. `dequeue` drops the sudogs of selects
that are already won (`Live`, `First`, `Rest`), as the loop at `chan.go:863-905`
does.

A critical section may be one step because the fast paths read one word at a
time. Only `closechan` writes two words that they distinguish: it sets `closed`
and then empties the queues. A send reads `closed` before it looks at the queue,
and a receive looks at the queue before it reads `closed`, so what either sees
during `closechan` it can also see before or after it, with one exception: a
receive that has read `closed` may find senders that `closechan` has yet to take
out. It then takes the lock, which waits for `closechan` to end, and returns what
it returns in the model without taking the lock.

`Select` adds `selectgo`: one step per lock taken in address order (`SelLock`),
one for the first pass (`SelectCase`, `SelectDefault`) or, when no case is ready,
for the second, which queues a sudog on every channel and parks (`SelectPark`);
then the locks are released one by one (`SelUnlock`, or `SelParkCommit` while
parked). After the wakeup they are retaken one by one, and `SelectWoken` is the
third pass, which withdraws the sudogs that were not taken. A select is assumed
not to list the same case twice (`SelectAssumption`; the same channel with both
directions is allowed and run): Go permits it, but a goroutine would then have two
sudogs on one queue that the model could not tell apart. `OpsAssumption` says
what else a call is: a list of sends and receives for a select, one case for
every other call. The random `pollorder` is a choice among the ready cases. `seen` is a history
variable: whether a call that may give up has met a moment at which its channel
was open and not ready. A history variable is only read by properties.

Nil channels (which block for ever), the hooks of a timer's channel (see
`Timers`), `reflect`'s wrappers and the race detector are left out.

### `SyncRWMutex` — `sync/rwmutex.go`

`readerCount` and `readerWait` are the two counters of the code, `w` is the
holder of `rw.w`, which is a `SyncLocker` here (`SyncMutex` implements it), and
`readerSem` and `writerSem` are two instances of `Semaphore`. One action per
atomic access: `RLock`, `RUnlock` and `Depart` (`rUnlockSlow`) for readers;
`LockW`, `Announce`, `Count`, `LockWait` and `LockAcquired`, `Unlock`, `Unblock`
(the loop of `Semrelease`) and `UnlockW` for writers. The `Load` and the
`CompareAndSwap` of `TryRLock` are one step, because only the value matters to
the `CompareAndSwap`, and the loop repeats when it fails. `r` is the local
variable of `Lock` and `Unlock`; `held` and `late` are history variables that
only `LateReadersWait` reads. `MaxReaders` stands for 2^30: it only has to exceed
the number of goroutines. A lock is unlocked by the goroutine that took it,
though Go lets another one do it.

### `CondVar` (abstract), `NotifyList` and `SyncCond` — `runtime/sema.go:518-680`, `sync/cond.go`

`CondVar` is what a program may rely on: waiters in the order in which they called
`Wait`, `Signal` for the first, `Broadcast` for all. A `Signal` may also do
nothing, but only when nobody who waited when it was called is waiting still
(`owed`): the code compares `wait` with `notify` at two moments, and two `Signal`s
that race for one waiter may leave one of them without.

`NotifyList` has `wait`, `notify` and the list. `ListAdd` draws a ticket without the
lock; `AlreadyNotified` or `Park` is `notifyListWait`; `LoadWait`, `NothingNew`
and `ToLock` are the two unlocked reads of the fast path; `OneNone`, `OneTake` and
`AllTake` the critical sections; `ReadyOne` is each `goready` after them. `Less` is
the comparison of the code, modulo `Tickets`. `gap` is a history variable: the
ticket's distance from `notify` without the wraparound. The code relies on the
distance to stay below 2^31; so does the model, with `MaxGap`, and
`TicketsAssumption` says so: at most half as many goroutines as tickets, and
`MaxGap` at most half of them. Beyond it a
goroutine that is preempted between its ticket and its sleep for 2^31
notifications would sleep although it was notified.

`SyncCond` adds `Cond` and its `L`, which is a `SyncLocker`: `Wait` is `WaitAdd`,
`WaitUnlock`, `WaitList` and `WaitRelock`. The copy checker and the use of a
`RWMutex` in read mode as `L` are left out.

### `SyncWaitGroup` — `sync/waitgroup.go`

`counter` and `waiters` are the two halves of the word, the semaphore is module
`Semaphore`. `Add`, `AddRecheck`, `AddReset`, `AddRelease`, `AddReturn` follow
`Add`; `WaitJoin`, `WaitSleep`, `WaitAcquired`, `WaitReturn` follow `Wait`. The
program keeps the rules of the documentation (`MayAdd`). The panics are a program
counter `"panic"`. Module `Goroutines` declares the goroutines that `SyncCond` and
`SyncWaitGroup` share, so that `MCSync` can be both.

### `Deque` (abstract) and `PoolChain` — `sync/poolqueue.go`

`Deque` is a sequence with one producer at its head and consumers at its tail.
`PoolChain` has the rings, each with `head` and `tail` modulo `Indexes` and its
slots, the links between them, and `chead` and `ctail`. One action per atomic
access; a `Load` of `headTail` and the `CompareAndSwap` that succeeds on it are
one. Between `TailTake` and `TailFree` a consumer owns a slot that the indexes
have already left behind. Rings that were dropped keep their number: `MaxElts`
bounds how many are made. The value `nil`, which the code replaces by a
sentinel, is one value like the others. `PoolAssumption` says of the sizes what
the powers of two and `dequeueLimit` give: they divide `Indexes` and are at most
half of it, so that a full ring can be told from an empty one.

### `RunQueue` — `runtime/proc.go:6545-6574, 6683-6977`

The rings of the Ps with `runqhead`, `runqtail` (modulo `Wrap`) and `runnext`, and
the global queue under `schedLock`. Actions in the order of the file: `PutNext`,
`Put`, `PutRing`, `PutPublish` (`runqput`), `PutSlow`, `PutGlobal` (`runqputslow`),
`PutBatch`, `GetNext`, `GetRing` (`runqget`), `DrainNext`, `DrainRing`
(`runqdrain`), `GlobGet`, `PutRest` (`globrunqget`, which puts while it holds
`sched.lock`), the `Grab…` actions and `StealPublish` (`runqgrab`, `runqsteal`),
and the `IsEmpty…` actions (`runqempty`, by a thread without a P). The owner alone
writes its ring and its tail, so what it reads of them before a `CompareAndSwap`
of the head that succeeds is one step with it; a thief's reads of head and tail,
its copy and its `CompareAndSwap` are three. Slots keep what was in them, as in
the code. The randomisation under the race detector is left out, and so is
`findRunnable`, of which it is used that a P steals only when its own queue is
empty.

### `FdMutex`, `Netpoll` and `FD` — `internal/poll/fd_mutex.go`, `runtime/netpoll.go`, `internal/poll/fd_unix.go`

`FdMutex` is the word of `fdMutex` as its fields: closed, two locks, references
and waiters, up to `maxField`. A `CompareAndSwap` that succeeds is one step with
its load. The semaphores are counters, which is what `Semaphore` guarantees;
permits that a step must release afterwards are in `owes` and released one by one
(`Semrelease`).

`Netpoll` is one `pollDesc`. `rg` and `wg` are `gpp`, with the values `"nil"`,
`"ready"`, `"wait"` or a goroutine. `WaitCheck`, `Block`, `Recheck`,
`BlockCommit`, `BlockSwap` and `WaitRetry` are `pollWait` and `netpollblock`, which
hold no lock. `SetDeadline`, `PollUnblock` and `Deadline` take `pd.lock`, publish,
and then run `netpollunblock` for each mode as a step of its own (`Unblock`); what
they made ready is readied afterwards (`Goready`). A timer that fires (`Fire`)
becomes a function on its way (`fired`) and may arrive late. The poller takes the
kernel's edges (`EpollWait`), compares the tag (`NetpollReady`) and unblocks. There
is one poller with one event at a time, where several threads may be in `netpoll(0)`
at once; what these do to `rg` and `wg` is the same atomic step, which the model
takes one after the other.
`PollClose`, `PollFree` and `PollOpen` are the end of one use and the beginning of
the next. Deadlines are 0 for none, -1 for one that has passed, or a number.

`FD` composes the two: `Locks` to `Gives` are `Read` and `Write`, `Close` to
`CloseReturn` are `Close` with `destroy`, and `SetDeadlineImpl`, `Sets` the
deadline setters. `Arrive`, the kernel and the other end, is external; its events are
edge-triggered, and it may report one although there was something to read or
write before. A write goes on until it has written everything. `SetBlocking`,
`Pread`, `ReadFrom` and the like are left out: they take the same locks or
references.

The comparison of tags in `NetpollReady` comes before `Unblock`, and the
descriptor may be closed in between, so an old event can still set `rg` of a new
use to ready. The check makes this rare and not impossible; the model shows that
it is harmless: the read finds nothing and waits again.

### `Timers` — `runtime/time.go`, with the hooks in `runtime/chan.go` and `time/sleep.go`

`timer` is each timer's fields: `when`, `seq`, the bits (`timerHeaped`,
`timerModified`, `timerZombie`), their copy `astate` for those who do not take
`t.mu`, `blocked` and `isSending`. `heap` is what matters of `ts.heap`, the entry
of each timer in it, which may differ from its `when`; the head is any timer with
the least entry. A value in a channel is the `seq` of the settings it was sent
for.

`LockSend`, `Stop` and `Drain` are `stop`; `ModifyLock`, `Publish`, `ModifyUnlock`
and `Drain` are `modify`, whose update of `minWhenModified` needs no lock;
`AddLock`, `CleanHead`, `CleanDone` and `Insert` are `maybeAdd`. `Check` to
`UnlockTs` are `check`, by a thread that holds `ts.mu`: `Adjust` stores `wakeTime`
in `minWhenHeap`, `Clear` clears `minWhenModified`, each `Scan` looks at one timer,
`EndScan` corrects `minWhenHeap`; `Run` is one look at the head.
`UnlockAndRun` decides to send, `Send` takes `sendLock` and compares `seq`,
`SendTime` is the send that does not block, `Relock` the way back. Receivers
are `MaybeRunChan` (twice, if they do not block), `Recv`, `Block`, which then adds
the timer to the heap with the channel locked, and `Unblock`.

`armed` and `missed` are history variables. Threads may run `check` at any time:
when they are woken is the business of `wakeNetPoller` and the scheduler, which
are left out. So are `asynctimerchan` (the old behaviour), `take`, which runs
while the world is stopped, timers that move to another P, a `Reset` that changes
the period, timers in a `select`, and `time.Sleep`.

## 4. The runs

| run | instance | checks | shows |
|---|---|---|---|
| `SemaRoot` | 3 goroutines, 2 addresses, up to 2 permits | `PermitsConserved`, `NoLostWakeup`, `ImplementsSemaphore`, `FreePermitTaken` | the code of `sema.go` is the abstract semaphore although addresses share a root, and no permit stays free over sleeping waiters |
| `SyncMutex` | 3 goroutines, spin limit 1 | `MutualExclusion`, `NoThrow`, `OneWakeup`, `WaitersCounted`, `NoLostWakeup`, `ImplementsLock`, `Progress` | the mutex is a lock, its word always agrees with the goroutines and it does not get stuck |
| `SyncMutexHandoff` | the same | `HandoffToFront` (violated) | see section 6 |
| `Chan` | 3 goroutines, one channel with a ring of 2 | `DefaultJustified`, `SendDefaultJustified`, `ImplementsChannels` | buffered sends, receives and close, blocking or not, are atomic and in order |
| `Select` | 3 goroutines, an unbuffered channel and a ring of 1 | `QueueInvariants`, `NobodyLeftBehind`, `ReadiedOnce`, `NoThrow`, `NoLockCycle`, `ImplementsChannels` | a select commits to one case, leaves nothing behind and cannot deadlock |
| `SyncRWMutex` | 4 goroutines | `Exclusion`, `NoThrow`, `CountsAgree`, `LastReaderWakes`, `WriterServed`, `ReadersServed` | readers and writers exclude each other, the counts always agree with the goroutines, nobody pending is left waiting |
| `SyncRWMutexLate` | 3 goroutines | `LateReadersWait` (violated) | see section 6 |
| `SendDefault` | 3 goroutines, an unbuffered channel | `SendDefaultJustified` (violated) | see section 6 |
| `Sync` | `Cond`: 4 goroutines, 8 tickets; `WaitGroup`: 4 goroutines, a counter up to 2; timers: 2 goroutines, a thread, one timer with a channel or two without, times up to 3 | `SleepersAccounted`, `WaitersReleased`, `ImplementsCondVar`, `NoStaleValue`, `StopHonest`, `NobodyForgotten`, `WakeTimeSound` | no sleeper is forgotten, `Signal` and `Broadcast` keep the order of tickets across the wraparound, `Add` releases exactly those that wait; a stopped timer sends nothing, a running one is not overlooked, but in the case of `TimerLate` |
| `TimerLate` | the same | `UpdateNotLost` (violated) | see section 6 |
| `Queues` | chain: a producer, 2 consumers, 5 values, rings of 1, 2 and 2; run queues: 2 Ps with rings of 4, 5 goroutines, an observer | `NothingStranded`, `GoroutinesOnce`, `EmptyNotSpurious`, `ImplementsDeque` | every value and every goroutine is obtained once, none is lost when rings are dropped or stolen from, `runqempty` is never wrongly true |
| `FD` | 7 scenes of up to 3 goroutines, a timer function, the poller | `FdSafe`, `BlockedForAReason`, `CloseReturns` | a descriptor is closed once and under nobody's feet, nobody sleeps past its event, its deadline or the close, and `Close` returns |

**The properties.** `NoLostWakeup` (semaphore): while somebody sleeps on an
address, every free permit has a goroutine on its way to it. `OneWakeup`: there
is never more than one wakeup of a mutex in progress, and `mutexWoken` and
`mutexStarving` say which kind. `WaitersCounted`: the waiter count of the word is
the number of waiting goroutines, less the one a wakeup has discounted already.
`NoLostWakeup` (mutex): an unlocked mutex with waiters has a wakeup in progress
or an unlocker that has yet to start one. `QueueInvariants`: the invariants
listed at `chan.go:9-18`. `NobodyLeftBehind`:
nobody stays parked on a channel on which it could go ahead. `ReadiedOnce`: a
goroutine is readied by one other goroutine, and one that is not in a call has no
sudog left on any queue. `NoThrow`: none of the runtime's own checks on a wakeup
fails, among them `goready` of a goroutine that is not waiting. `NoLockCycle`: no set of selects in which each waits for
a lock of another. `DefaultJustified`: a non-blocking receive, or a select that
takes its default, has met a moment at which it could not go ahead.
`CountsAgree`: what `readerCount` and `readerWait` are worth at every step of
every reader and writer, including the permits of `readerSem` that an `Unlock`
has released and nobody has taken yet, which the next writer counts as readers.
`LastReaderWakes`: `writerSem` gets exactly one permit, when the last reader that
a waiting writer counts has left. `WriterServed`: a writer that has announced
itself gets the lock. `ReadersServed`: blocked readers do not all stay out.
`SleepersAccounted`: a goroutine that sleeps in a notify list is in the list while
its ticket is to come and in exactly one notifier's batch afterwards.
`WaitersReleased`: those that sleep in `Wait` are as many as the word counts, plus
the permits, plus those the goroutine that reached zero has yet to release; so no
permit is left for the next use, and a program that keeps the rules sees no
panic. `NothingStranded`: `popHead` gives up only when the chain is empty, and
every ring that holds values is reachable from both ends. `GoroutinesOnce`: each
goroutine is in exactly one place, queue, hand or outside. `EmptyNotSpurious`:
when `runqempty` says empty, the queue was empty at some moment of the call.
`FdSafe`: references are counted, an open reference means an open descriptor,
exactly one goroutine destroys it, and none of the runtime's throws happens.
`BlockedForAReason`: who sleeps in the poller has nothing to read, or its event
is on the way; its descriptor is open and its deadline not past, or somebody is
about to unblock it; a deadline to come has a valid timer. `NoStaleValue`: what is
in a timer's channel, once `Stop` or `Reset` has returned, is a value of its
settings since. `StopHonest`: they report true if the timer was running and the
program had not received from it, and false if not, with the exception of section
6. `NobodyForgotten`: while a goroutine is parked on the channel of a running
timer, the timer is in the heap to stay, about to be added, or sending.
`WakeTimeSound`: whenever `ts` is unlocked, `wakeTime` is no later than any timer
in the heap is due, with the exception of section 6; and the bits, their copy,
the heap and `zombies` agree. `CloseReturns`: after
`Close` has begun, every call on the descriptor returns.

**Bounds.** Three goroutines are the fewest with which a holder, a waiter and a
newcomer, or a select and two partners that pick it, can meet. `SyncRWMutex` has
four, so that a writer, a reader inside, one that is blocked and a newcomer can.
Two addresses are enough for `nwait` to count a waiter of the other address; two
permits for a release to find the previous permit untaken. A spin limit of 1
lets a goroutine spin and then queue; the proofs hold for any limit. A
ring of two is the smallest in which order can go wrong, a ring of one the
smallest that is both empty and full in turn, and the unbuffered channel takes
the other branch everywhere. The operations a program may call (`Ops`) are
chosen per run so that every branch of `Chan` and `Select` is taken: a select of
two channels in either order of the cases, one of both directions of a single
channel, one with a default, plain sends and receives, and closes. No counter of
the code is cut off except by `MaxPermits`, which stops new releases.

In `Sync`, eight tickets wrap around many times in a run, and with four goroutines
two can be in the list while a third has its ticket and is not in it; `MaxGap` is
half of the tickets, the limit that the code's comparison has. `MaxCount` 2 lets
`Add` and `Done` meet on a counter that does not reach zero. Timers have three
scenes of three or four calls: one goroutine sets, stops and polls a timer while
another polls it or blocks; the same with a timer that repeats; two goroutines
that set (and one of them stops) a timer each. Two set before and two after is
what it takes to lose an update. `MaxNow` is 3: one time for the present, one to
set a timer to, and one in between. In `Queues`, four
index values over rings of one and two slots wrap around while a consumer still
holds its slot; three rings are enough for one consumer to be two rings behind
the other. The run queue starts shortly before the wraparound, with any number of
goroutines in the ring of one P, full included; `MaxCalls` bounds how many
operations begin, four being a put that overflows, a steal, a drain and a
`runqempty` at once. The guards of `Advance` are a bound, too: nobody sleeps
between its reading of an index and its use of it while the ring is put to 2^32
times, against which a `CompareAndSwap` of an index has no defence. In `FD`, the scenes are: two readers and a closer; a reader and a
writer with the network active; with a closer and no network; with a deadline
setter; a reader and a deadline setter with the network active, so that an event
comes while a goroutine that a deadline has unblocked finds the deadline moved
(`netpoll.go:351`); a reader, a deadline setter and a closer with fields that hold no more
than 2, so that references overflow; two closers and a deadline setter. `maxSeq` bounds how
often timers are invalidated, `MaxOpens` is 2 so that late timers and events of
one use meet the next, and one timer function at a time is on its way.
Three actors of different roles are what the races of `Close` need. The runs
`Sync` and `Queues` hold three and two independent systems; the initial state says
which one runs.

**Symmetry** on goroutines is used where only safety is checked. Refinements are
among them: their formulas are symmetric in the goroutines.

**Deadlock** is checked for `SyncMutex` and `SyncRWMutex`, where a goroutine can
always make progress. In `SemaRoot` and the channel runs all goroutines may legitimately be
parked (acquiring without a release, receiving without a sender), so the check
is off; what a park must not overlook is stated by `NoLostWakeup` and
`NobodyLeftBehind`. It is off in `Sync` (everybody may wait with nobody left to
signal, and the calls on timers are bounded), `Queues` (the calls are bounded) and `FD` (the descriptor ends up closed
for the last time), where `SleepersAccounted`, `NothingStranded`,
`BlockedForAReason` and `CloseReturns` say what must not stop.

**Fairness.** The scheduler is preemptive and serves every runnable goroutine, so
each goroutine's steps inside a call are weakly fair; for the mutex, the program
is assumed to unlock what it locks. Nobody is obliged to call anything. Weak
fairness is all we assume of a goroutine waiting for `root.lock`: that lock lets
newcomers barge in and promises nothing. That is why `FreePermitTaken` has
a premise, that the other address falls silent at last: traffic there may keep
the lock busy for ever each time the releaser looks, and without the premise the
property needs a fair lock, which the code does not have. `Progress` says that the mutex as a whole
does not get stuck, not that each goroutine gets its turn, which needs real time
(the 1 ms limit). A writer is likewise served once it holds `w`
(`WriterServed`); that it gets `w` is `Progress` again, for the writers together.
In `FD` the goroutines go on with the calls they have begun, and timer functions
on their way and the poller go on as well; no deadline has to pass and nothing has
to arrive, so it is `Close` alone that brings everybody back. No scene has a writer,
a closer and an active network: a write here has no length, so that a network that
takes more each time may keep it going for ever, which no write of the code can do.
What such a mix may do wrong is safety, and `FDProofs` covers every scene. The closer takes
`pd.lock`, a runtime mutex, under weak fairness: its holders release it after a
few steps and nobody takes it again and again.
For channels only safety is stated: whether a send is ever
received is up to the program.

## 5. The proofs

Ten components have safety properties proved for every value of the
constants, in modules of proofs that extend theirs. In each, `IInv` is the
inductive invariant, there is one lemma per action that it survives the action,
one or more for the steps that disturb little (`QuietStep`), and one that puts
them together; `Inductive` is `Spec => []IInv`, and the theorems about the
properties follow from it. (`SyncProofs` is about four components; its invariants
are `MutexInv`, proved in `MutexInductive`, `IInv`, of `Cond`, proved in
`CondInvariant`, `WGInv`, of `WaitGroup`, proved in `WGInvariant`, and `PoolInv`,
of the chain under `Pool`, proved in `PoolInductive`. Of `TimersProofs` it is
`TimersInv`, proved in `TimersInductive`;
`RuntimeProofs` is about the run queues, with `RunqInv`, proved in `RunqInductive`, and
about `sema.go`.) `CountingLemmas` has what they all need to count goroutines (how
`Cardinality` moves when one of them changes sets) and to handle queues.

TLC checked each of these (and `ResultInv`, `ReasonInv` and `TimersTell`, which some
theorems add) on the instance of the component's run before it was proved.

| module | assumes | proves |
|---|---|---|
| `SyncProofs` | `GoroutinesAssumption`, `SyncMutexAssumption` | `MutualExclusion`, `NoThrow`, `OneWakeup`, `WaitersCounted`, `NoLostWakeup`, `ImplementsLock` |
| `RuntimeProofs` | `SemaRootAssumption`, `AddressAssumption` | `PermitsConserved`, `NoLostWakeup`, `ImplementsSemaphore` |
| `SyncRWMutexProofs` | `SyncRWMutexAssumption` | `Exclusion`, `NoThrow`, `CountsAgree`, `LastReaderWakes` |
| `SelectProofs` | `ChanAssumption`, `OpsAssumption`, `SelectAssumption` | `NoThrow`, `ReadiedOnce`, `NoLockCycle`, `QueueInvariants`, `NobodyLeftBehind`, `DefaultJustified`, `SendDefaultJustified` (buffered channels), `ImplementsChannels` |
| `SyncProofs` | `GoroutinesAssumption`, `TicketsAssumption` | `SleepersAccounted`, `ImplementsCondVar` |
| `SyncProofs` | `GoroutinesAssumption`, `WaitGroupAssumption` | `WaitersReleased` |
| `SyncProofs` | `PoolAssumption` | `NothingStranded`, `ImplementsDeque` |
| `RuntimeProofs` | `RunqAssumption` | `GoroutinesOnce`, `EmptyNotSpurious` |
| `FDProofs` | `ActorsAssumption`, `DeadlinesAssumption`, `ScenesAssumption` | `FdSafe`, `BlockedForAReason` |
| `TimersProofs` | `TimersAssumption` | `NoStaleValue`, `WakeTimeSound`; with `OneSetter`, `StopHonest`, `NobodyForgotten` |

### `SyncProofs`: `Mutex`

`GoroutinesAssumption`: `Procs` is finite (waiters are counted) and `NoProc` is not a
goroutine; `SyncMutexAssumption`: `MaxSpin` is a natural number.

None of the properties is inductive by itself, for the mutex is safe only because
of where its one wakeup is. The invariant says so. A goroutine carries the *token*
when it has a permit of `m.sema` to add or has just got one, when the mutex has
been handed to it, or when it is awake with `mutexWoken`.

- `Sem!QueueInv`: the wait queue has no duplicates, sleepers are parked and have
  at most one releaser about to ready them. It is proved in `Semaphore`, for any
  client (`QueueInvInit`, `QueueInvStep`).
- `MutexLinkInv`: mutex and semaphore agree on who is inside `m.sema`.
- `LocalInv`: what the locals of `lockSlow` are worth; a goroutine with `awoke`
  in the loop has seen `mutexWoken`; one at the hand off saw at most the waiters
  that are there now.
- `TokenInv`: at most one token, and the flags that announce it. A free permit
  excludes it.
- `HolderInv`, `MutexCountInv`: `mutexLocked` and the waiter count agree with the
  goroutines.
- `DutyInv`: when the mutex is free, has waiters and no wakeup is under way, some
  unlocker has read a word that makes it start one.

`MutexRefinement` maps `holder` to the goroutine that is between `Lock` and `Unlock`;
the only steps that change it are those of `OneMoves`.

### `RuntimeProofs`: semaphores

`SemaRootAssumption`: finitely many goroutines, and natural numbers of permits.
Nothing is assumed of the addresses that share the root, and the refinement is
proved for any of them (`AddressAssumption`: `addr` is one).

- `LockInv`: who holds `root.lock`, by the line it is at.
- `CallInv`: a ticket is only ever in the hands of a waiter on its way out.
- `QueueInv`: a queued sudog is of one goroutine, asleep on that address, without
  a ticket.
- `WakeInv`: a dequeued waiter is still asleep on the releaser's address, and has
  this one releaser.
- `CountInv`: `nwait` is the number of waiters announced or queued, over all
  addresses. `semrelease1` returns early on `nwait == 0` without the lock
  (`sema.go:200`), and this is what makes that right: with it, a release that
  sees 0 has nobody to wake, and one that comes before a waiter announced itself
  has published the permit that the waiter's second `cansemacquire` will find.

`NoLostWakeup` is then inductive together with these. It counts, for one
address, free permits against goroutines on their way; the steps that move a
goroutine between the two sides are the moves of `CountMove`. `Refinement` goes
step by step: a goroutine is in the abstract queue once its second check has
failed, before it is linked in, and a hand off takes place when the releaser takes
the permit for its waiter (`r_handoff`), not when the waiter wakes. Every other
step of the address, and every step of another address, is a stutter.

### `SyncRWMutexProofs`

`SyncRWMutexAssumption`: finitely many goroutines, fewer than `MaxReaders`, as
`rwmutexMaxReaders` requires.

- `RSem!QueueInv`, `WSem!QueueInv`: from `Semaphore`, twice.
- `HolderInv`, `LinkInv`: who holds `rw.w`, and who is inside which semaphore.
- `PhaseInv`: `readerCount` is negative exactly while a writer has announced
  itself and not yet unlocked; what `readerWait` is at each of its steps.
- `ReaderInv`: the balance. `readerCount`, without the offset, is the number of
  readers inside or blocked. `readerWait` is a difference that two sides change in
  any order (`rUnlockSlow` may subtract before `Lock` adds), so what is conserved
  counts everybody: those inside, those leaving, the permits made and the
  readers that the writer has yet to add or to release.
- `WakeInv`: the permit of `writerSem` exists, or one reader is about to make it,
  exactly if the writer waits and `readerWait` is 0.

`Exclusion` alone would be kept by most steps, but not by the writer's
`readerWait.Add` that yields 0, nor by the wakeup of the last reader; there it is
the balance that says that nobody is inside.

### `SelectProofs`

`ChanAssumption`: finitely many goroutines, capacities that are natural numbers;
`OpsAssumption` and `SelectAssumption` say what a call is and that channels have
distinct addresses. Channels may be any set, rings of any length, selects may
have any number of cases.

- `OpInv`: the call and the step belong together.
- `LockInv`: a select holds the locks of its channels at the passes, and while it
  takes them those it holds are at lower addresses than those it has still to
  take. A parked select may still hold some (`parking`), none of which it is
  taking again. `NoLockCycle` follows: in a set of goroutines that wait for each
  other, the one that wants the highest address waits for one that would want a
  lower lock than it holds.
- `WakeInv`: `gp.param` is set from the moment a partner takes the sudog until the
  goroutine reads it, with `selectDone` if it is a select; until it is readied it
  is in the list of exactly one goroutine. It has `NoThrow` and `ReadiedOnce` in
  it.
- `QueueInv`: who is on which queue. A goroutine that is parked and was not taken is
  on the queues of all its cases, one that was taken may be, nobody else is; a closed
  channel has empty queues; a value or a free slot excludes waiters for it.
- `RingInv`: the ring has `qcount` values from `recvx` on and nothing elsewhere.
  Slots are counted modulo the capacity (`ModuloNat`, `Behind`), and `PushRing`,
  `PopRing` and `RotateRing` are the three ways the code changes it, the last when
  a receiver takes the head of a full ring for a blocked sender.

What the critical sections do to a queue (take the first live sudog, drop the dead
before it, append, withdraw one from the middle) is stated as relations between
the queue before and after (`Fewer`, `RestFacts`), so that each action only says
which it is. `DefaultMet` needs one more invariant, `SeenInv`: what the unlocked
reads of a non-blocking call have established by the step it is at, which a
channel that only ever goes from open to closed keeps (`ClosedKept`).

`SendDefaultMet` is about the order of two unlocked reads: a non-blocking send
reads that the channel is not closed, then that it is full (`chan.go:204`), and
both are true of one state although a lot may happen between the reads. That is
so because no step fills the ring of a closed channel (`FillsOpen`): a ring that
is full at the second read and was not at the first was filled while the channel
was open. `SendSeenInv` carries this from step to step. The theorem is for
channels with a buffer, which is where the argument of the comment works: without
one, full means that nobody receives, and the code does not keep the property
(run `SendDefault`, section 6).

`Refinement` proves that channels and select implement the atomic channels of
module `Channels`. The mapping reads a ring as the sequence of its values
(`Contents`), a call as complete from the moment a partner has taken its sudog
(`Completed`), and one whose channel was closed under it as complete only when it
finds out. `PushContents`, `PopContents` and `RotateContents` say what the three
changes to a ring do to that sequence. A step then either leaves every call and
every channel where they were, to the program (`Stutter`: fast paths, parking, locks,
`goready`, withdrawal), or completes one call (`GivesUp`, `FindsClosed`,
`Buffers`, `Unbuffers`, `Closes`) or two at once (`Meets`). It needs `ResultInv` on top
of `IInv`: an incomplete call has no result yet; a goroutine taken by a close
received nothing, and if it was receiving, the channel it wakes on is closed and
drained, so that its late step is still one that `OnClosed` allows.

### `SyncProofs`: `Cond`

`GoroutinesAssumption`: finitely many goroutines. `TicketsAssumption`: there are
at least twice as many tickets as goroutines, which the comment at
`sema.go:529-532` relies on, and a waiter on its way to the list falls behind by
at most half of the tickets (`MaxGap`), which the code relies on silently.

The tickets wrap around, waiters join the list in another order than they drew
them, and the notifiers read `wait` and `notify` without the lock. The invariant
speaks of `gap`, the distance that does not wrap.

- `TicketInv`: the waiters that nobody has notified (`Unnotified`) have the gaps
  0, -1, .., -(`Ahead` - 1), one each, where `Ahead` is `wait - notify` modulo
  `Tickets`; a waiter's ticket is `notify - gap`, modulo `Tickets`. So `less`, on
  the wrapped tickets, says what the gaps say (`LessIs`, with the arithmetic
  modulo `Tickets` in `Modulo` to `TheTicket`), and the ticket `notify` belongs to
  exactly one waiter.
- `SleepInv`: a sleeper is in the list while it is unnotified, and in exactly one
  batch afterwards, once. It is `SleepersAccounted` without the counting.
- `OwedInv`: what a notifier owes is still waiting; and while it has only loaded
  `wait`, everybody it owes drew its ticket before that `wait`. Hence a fast path
  that finds `wait = notify` owes nobody (`NothingOwed`), although `notify` may
  have moved between the two loads.

The refinement maps the unnotified waiters, in the order of their gaps, to the
queue of `CondVar`, and those inside that were notified to `woken`. A waiter that
draws a ticket is appended, a `Signal` takes the head (`OrderTail`), a
`Broadcast` all; the goroutine that finds its ticket notified, or is readied,
goes on. That the order exists and is unique (`OrderIs`, `OneOrder`) is what
`TicketInv` gives.

### `SyncProofs`: `WaitGroup`

`GoroutinesAssumption`: finitely many goroutines, since they are counted;
`WaitGroupAssumption`: the counter has a bound, whatever it is.

One use of a WaitGroup goes through phases, and `WGInv` says what each excludes.

- `ZeroInv`: the `Add` that took the counter to zero is alone until it has reset
  the word, and the waiters it read are those in the word. This is why the panic
  "misuse: Add called concurrently with Wait" is not reached: nobody joins at
  zero, and nobody may add while somebody is blocked.
- `DrainInv`: while there are permits, permits to come, or waiters that have just
  got one, the word is zero; and all permits to come are one goroutine's.
- `CountInv`: the blocked goroutines are those in the word, plus the permits that
  are free or to come. `ToRelease` counts a permit off as soon as it is made, not
  when `Semrelease` returns, because the last waiter may be gone, and the next use
  under way, before the releaser has finished its call.

### `RuntimeProofs`: the run queues

`RunqAssumption`: finitely many Ps; the length of a ring is even and divides the number
of indexes, which is larger: `runtime2.go` has 256 and 2^32. There may be any number of
goroutines, and the rings may have got to any index.

`GoroutinesOnce` is not inductive: whether a thief that copied goroutines may call them
its own depends on what it read, of a ring that has gone on since. `RunqInv` adds:

- `Fits`: a ring has at most `RingLen` goroutines, none of its slots in use is empty,
  and there is room for those that its owner carries: `globrunqget` never takes more
  from the global queue than fit, so that the `runqput` of its loop does not ask for
  `sched.lock` a second time. A thief's own ring is empty while it steals, which is
  why it may copy behind its tail.
- `Steals`: the head that a thief has read is not before the present one on the circle
  of indexes (`Behind`), so that if the two are equal nothing was taken in between;
  then what it copied is what lies there still (`Copied`), and its
  `CompareAndSwap` succeeds in that case only.
- `Watches`: the same for `runqempty`. If the tail is the same at the second reading
  then nobody has put in between, and a ring that was empty at the first was empty
  when `runnext` was read (`proc.go:6683-6697`).
- `OnePlace`: a goroutine lies in one place. In the middle of a steal
  (`rpc` is `"stolen"`) the goroutines behind the thief's tail count as its own.

Indexes wrap around; `Gap(a, b)` is how far `a` is behind `b`, and `Further`,
`Nearer`, `Passed` and `Met` reckon with it without wrapping, `SlotApart` and
`SlotRound` say which indexes share a slot. All that a step by one P does to what
others rely on is in `Moves`: some goroutines go from the front of one ring, some come
to the end of its own. `OthersKept` shows once that this leaves `Fits`, `Steals` and
`Watches` of everybody else, for any thief asleep at any of its steps, so that each
action has only its own P to account for, and where the goroutines lie that it moves
(`OneMoves`, `Carried`).

### `SyncProofs`: the chain under `Pool`

`PoolAssumption`: the producer is one of the goroutines, "empty" is not a value,
and the sizes of the rings are as in section 3. There may be any number of
goroutines, values and rings.

- `RangeInv`: a ring has at most as many elements as slots, and the slots between
  its tail and its head hold elements.
- `OwnerInv`: a slot that was taken is outside that range, is in the hands of one
  goroutine, and is not empty before that goroutine clears it. The indexes alone
  would let the producer write it: that `pushHead` looks at the slot as well
  (`poolqueue.go:89-95`) is what keeps it from doing so.
- `PublishInv`: what the producer has written and not yet published is still
  there, in a slot that nobody has taken, and there is still room for it.
- `ChainInv`, `ProducerInv`, `ConsumerInv`: only rings from the oldest to the
  newest hold elements. A consumer drops a ring that it saw empty *after* it saw
  that there is a next one, so that it stays empty (`poolqueue.go:271-300`); and
  `popHead` backs up from rings that it saw empty and that nobody but it refills.

The indexes wrap around, and so do the places in a ring: `ModApart` (places closer
than a size are different slots), `HeadSlot`, `TakenSlot` and `NextSlot` (an index
that wraps stays on its slot, since sizes divide `Indexes`) are what is needed of
it, and the proof that they hold for any such sizes is division with remainder.

`PoolRefinement` maps the rings to their elements, one ring after the other. As the
number of rings is a parameter, that is a recursive function, `UpTo`; `JoinExists`
shows that there is one and `Upwards` stands in for induction. From there `JoinAppend`
(an element more in the newest ring is one more at the end), read forwards for
`pushHead` and backwards for `popHead`, and `JoinTail` (one less in the oldest
ring that is not empty) say what a step does to the deque: `PublishSeen`,
`HeadTakeSeen` and `TailTakeSeen`. All other steps change nothing that can be seen
(`UnseenStep`), or return an element (`ReturnStep`).

### `FDProofs`

`ActorsAssumption`: finitely many goroutines, since references are counted, and
goroutines, timer functions and the poller are distinct from each other and from
what else `rg`, `wg` and `pd.lock` may hold. `ScenesAssumption` says what a scene
is, `DeadlinesAssumption` that future deadlines are positive. There may be any
number of timer functions on their way, any roles, and any number of later opens
of a pollDesc that is reused.

- `RefInv`, `DestroyInv`: references and locks belong to goroutines at certain
  steps; one goroutine at most is on its way through `destroy`, with no reference
  left, and it alone signals `csema`.
- `CloseInv`: the pollDesc is `closing` from the moment the one `Close` that took
  effect has evicted, and before that its goroutine is at one of two steps. This
  excludes the throw of a second `pollUnblock` (`netpoll.go:455`), and that
  of `pollClose` on a pollDesc that was not unblocked (`:283`).
- `WaitInv`: where the one goroutine that may wait in a mode is, by `rg` or `wg`.
  It is there that the lock of the mode (`FdMutex`) protects the pollDesc: without
  it two goroutines would meet in `netpollblock` (`:567`).
- `TimerInv`: a deadline has one timer that is not stale, set or on its way, and
  `rrun` or `wrun` says that it is there; a combined timer is for equal deadlines
  that are both to come. `netpolldeadlineimpl` throws when it is not stale and its
  deadline is not set (`:639`, `:648`), and this says that it never happens, also
  when a deadline changes, or the pollDesc is closed and reused, while the timer
  function waits for the lock.
- `LockInv`, `CallbackAt`: what a holder of `pd.lock` may still have to do to `rg`
  and `wg`, and, for a timer function half way through two expirations, that the
  other deadline still stands.

The steps that concern only the descriptor leave the poller's part of the
invariant alone (`PollStill`), and the other way around (`FdStill`).
`DeadlineChanges` is the largest case: `SetDeadline` starts, moves, merges and
stops timers, and for each of the combinations the invariant says which timer
functions are stale afterwards. `FdSafe` follows from `RefInv`, `DestroyInv` and
`~thrown`, which is the last conjunct of `IInv`.

`BlockedForAReason` needs `ReasonInv` on top, which `IInv` helps to keep:

- `EventInv`, `PollerInv`: from the moment a goroutine has met `EAGAIN`, what there
  is for it is either in its `rg` or `wg` already, or in the kernel, or in the hands
  of the poller. `pollReset`, which clears `rg` and `wg`, is harmless because it
  comes before the system call; and the poller takes an event from the kernel only
  when it has delivered the one before it.
- `ErrInv`: a goroutine that has set `rg` or `wg` to `pdWait` looks at the deadline
  and at `closing` again before it sleeps (`netpoll.go:571-576`); `Close` and
  `SetDeadline` publish both before they look at `rg` and `wg`. One of the two sees
  the other: either the goroutine does not sleep, or somebody holds `pd.lock` with
  the unblocking still to do.
- `TimedInv`, `HalfInv`: a deadline to come has a timer for it that is not stale, and a
  combined timer function that has expired the reads goes on to the writes.
- `WokenInv`: who was taken out of `rg` or `wg` is on somebody's list to be readied;
  with `WaitInv` it is one list.

There is a lemma for each step (`WaitsReason`, `ArriveReason`, `UnblockReason`, ...), of
which `SetsReason`, where deadlines change, is again the largest. A `netpollblock` that
does not look again, an unblocking for an event that stores nil where it should store
`pdReady`, and a timer that is kept although the deadlines are no longer combined, each
make a leaf of these proofs fail.

### `TimersProofs`

`TimersAssumption`: finitely many goroutines, threads and timers, distinct from each
other where they may be confused, a clock that stops somewhere, and only calls that
exist (one receives from a channel only if the timer has one). There may be any mix
of calls, any periods, any number of timers in the heap and threads that run it.

- `TimersPlace`: where each goroutine and thread is, in which call on which timer, and
  what its locals are worth there. `TimersLocks`: which of `t.mu`, `ts.mu`,
  `t.sendLock` and the channel's lock it holds there.
- `TimersBits`: `timerHeaped` says that `t` is in the heap; an entry of the heap has the
  time of its timer unless `timerModified` is set; `t.astate` is `t.state` whenever
  `t.mu` is free; `ts.zombies` is the number of zombies; nothing was thrown.
- `TimersWake`: `minWhenHeap` is the least entry of the heap, except while `adjust` goes
  through it; and a timer whose entry is out of date is covered by `minWhenModified`, or
  is about to be, or `adjust` has yet to look at it, or has missed it. One may turn into
  the other: `modify` lowers `minWhenModified`, `adjust` clears it, takes the timers one by
  one, and brings their entries up to date.
- `TimersWait`: who waits for a channel is in its queue once, and counted in `blocked`;
  a timer that runs and that somebody waits for is in the heap or being added, and no
  zombie.
- `TimersSeq`: a value in the channel is of the setting that stands, or somebody is about
  to drain it; a send decided on is of an earlier one or of this one; one that has passed
  the check of `t.seq` is of this one, because it holds `t.sendLock`, which `Stop` and
  `Reset` need. `NoStaleValue` is this.

A step alters one timer at most, whose `t.mu` is free or the actor's own (`Alters`), so
that each part is shown once for all timers but one (`BitsChange`, `WakeChange`, ...),
and for that one from the effect of the step, field by field (`StopEffect`, `Cleaned`,
`Ran`, ...).

What the program is told needs two parts more (`TimersTell`). `TimersArmed`: a timer with
a channel that the program set and did not see go off is running, on its way to the
channel, or in it, and only one of these. `TimersResult`: what a `Stop` or `Reset` under
way will return is right, or will be once it has drained the channel. Both are for
programs in which one goroutine stops and sets each timer with a channel (`OneSetter`).
`stop` drains the channel after it has released `t.sendLock` (`time.go:459-464`): of two
goroutines, one's `Stop` may drain the value of the other's new setting, and report as
stopped what has gone off since. The scenes of run `Sync` are such programs
(`OneSetterAssumption`).

### What stays with TLC

Liveness (`Progress`, `FreePermitTaken`, `WriterServed`, `ReadersServed`,
`CloseReturns`): reasoning under fairness is outside what the provers do here.

`SendDefaultJustified` is proved for channels with a buffer (`SendDefaultMet`);
without one it does not hold, and section 6 says why.

## 6. Where the code and its comments differ

- **`SyncMutexHandoff`.** `sync/mutex.go:64-68` promises that in starvation mode
  ownership is handed to the waiter at the front of the queue while newcomers
  queue up at the tail. `semrelease1` publishes the permit (`sema.go:195`)
  before it takes it back for the waiter it dequeues (`:246`); a newcomer on
  the easy path of `semacquire1` (`:139`), having just registered as a waiter,
  can take it in between and becomes the owner without having queued. Exclusion
  is unaffected, and the front waiter queues again at the front; the fairness is
  weaker than the comment says.
- **`SendDefault`.** `chan.go:193-197` argues that a non-blocking send that reads
  `closed == 0` and then `full` has met a moment at which the channel was open
  and not ready for sending, because a closed channel does not become unready.
  On an unbuffered channel `closechan` empties `recvq` in the critical section
  that closes the channel: a channel with a blocked receiver is ready until it
  is closed, and looks full afterwards. The send then reports that it would
  block, where a blocking one would have delivered or panicked.

- **`SyncRWMutexLate`.** `sync/rwmutex.go:21-24` says that once a writer has
  called `Lock`, calls of `RLock` block until it has had the lock. `Unlock` wakes
  the blocked readers by releasing permits (`rwmutex.go:213-215`) and then lets
  the next writer go ahead. A reader that calls `RLock` after that writer has
  announced itself finds one of these permits on the easy path of `semacquire1`
  and enters before the writer; the reader for which the permit was meant queues
  again and waits for the writer. The writer is delayed by as many readers as
  there were permits, no more, and exclusion holds.
- **`TimerLate`.** `time.go:810-813` says that `modify` publishes `timerModified`
  before it updates `minWhenModified`, so that the scan of `adjust` sees what its
  clearing of `minWhenModified` overwrites. It does so only if it has to lower
  `minWhenModified` (`:527-533`). If another timer has lowered it already, `modify`
  counts on that and publishes the bit when it unlocks `t`. An `adjust` that clears
  `minWhenModified` (`:816`) and looks at `t` (`:826`) in between skips it, then
  sets `minWhenHeap` to the head of the heap, whose entries are old. Nothing
  says any more that `t` is due earlier, so it goes off late: when its old entry
  is due, or at the next `adjust`. `WakeTimeSound` shows that this is the only
  way to lose an update.

Not a run of its own, but the exception in `StopHonest`: `isSending` counts the
sends on their way, of whatever settings. `Stop` or `Reset` may report that they
stopped a timer twice, or after its value was received, while a send decided on
before is still waiting for `sendLock`; `time/sleep.go:94-97` says that `Stop`
returns false if the timer has been stopped. The send itself does not happen.

## 7. What is not modelled

Memory is sequentially consistent: Go's `atomic` operations are, and what is
accessed without them is accessed under a lock in the modelled code, but for the
plain reads of the fast paths of channels, each of which is a step of its own in
program order. The runtime locks are their contract, mutual exclusion without
fairness; the futex protocol under them is planned. The scheduler appears as
fairness only. Stack growth and shrinking, profiling, race-detector hooks,
deadlock detection (`checkdead`) and `synctest`-like instrumentation are left
out. 

Of components that are modelled in part: `Once` and `OnceFunc`; `sync/pool.go`,
whose pinning and clearing need the scheduler and the collector;
`findRunnable`, spinning and idle Ps; error events, `netpollBreak` and
`netpollWaiters` of the poller, and the platforms other than Linux. Of timers, what is listed
under `Timers`. Not modelled yet: `sync.Map`, `context`, `io.Pipe`,
`singleflight`, the sql pool. Out of reach or out of scope: the memory allocator and
the collector, which need a model of the heap; sequential library code; the
compiler and the tools. `PROJECT.json` has the reason for each.
