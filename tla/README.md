# A verification project for MCoro

MCoro (`src/co_async`) is an asynchronous I/O library built on C++20 coroutines
and io_uring.  This directory holds TLA+ modules translated from its code, the
TLC configurations that check them on small instances, and TLAPS proofs.

## 1. The system

One `IOContext` per thread drives everything: it fires expired timers, submits
the prepared io_uring entries, collects completions and resumes the coroutines
that wait for them.  Inside one context coroutines run to their next suspension
without interruption; several threads with one context each share mutexes,
semaphores, condition variables and thread pools through atomics and futexes.

| component | state | operations | what makes it hard | what makes it correct |
|---|---|---|---|---|
| Task protocol (`awaiter/task.hpp`) | coroutine handles of caller and callee, result slot, `TaskPromiseLocal` | await, return, throw, yield, `Expected` short cuts | hand-over of control at final suspension, generators that are resumed again | a caller is resumed exactly once and after the result is there |
| `when_all` (`awaiter/when_all.hpp`) | `mCount`, `mPrevious` | start all, count down | children that finish while being started; exceptions | the caller resumes once, after the last child |
| Cancellation (`generic/cancel.hpp`) | `mCanceled`, list of cancellers, tokens in promises | `cancel`, register, callbacks | registration after the cancel, callbacks that resume coroutines inline and edit the list | every canceller registered at the cancel fires once |
| `when_any`, `co_timeout` (`generic/when_any.hpp`) | result slot, index, `CancelSource` | first result wins, losers are cancelled | losers that finish anyway, cancellation from outside | one result, from the winner, after all losers are gone |
| Timers (`generic/timeout.hpp`, `generic_io.*`) | `mTimers` (red-black tree) | `co_sleep`, fire, cancel | a timer that expires and is cancelled in one turn; erasing an inner node | each sleeper resumes once; no timer is lost |
| Event loop (`io_context.cpp`, `platform_io.*`) | SQ, CQ, `mNumSqesPending` | `runOnce`, `waitEventsFor`, `getSqe`, cancel guard, linked and detached operations | lazy submission, time-outs and EINTR, completions in batches | the loop ends only when nothing is pending |
| Futex (`platform/futex.hpp`) | futex word, waits | wait (asynchronous), notify (system call) | the word is compared at submission, not when awaited; the wake call swaps its arguments | no wake of a mutex, a pop or an acquire is lost |
| Mutex, CallOnce (`generic/mutex.hpp`) | word; `mCalled` | `lock`, `try_lock`, `unlock`, `call_once` | barging, cancelled waits | exclusion, no sleeper on a free lock |
| Condition variable, queue (`generic/condition_variable.hpp`, `generic/queue.hpp`, `utils/ring_queue.hpp`) | counter word; ring | `wait`, `notify_*`; `push`, `pop`, `try_*` | one word with two masks, notifications of waits not yet in the kernel; a ring position behind the array | FIFO, no pop sleeps while there is a value |
| Semaphore (`generic/semaphore.hpp`) | counter word | `acquire`, `release` | inverted compare-exchange loops, across threads or failing by chance | counter = initial + releases - acquires |
| Thread pool (`generic/thread_pool.*`) | free, working and all threads; per thread a job slot | `rawRun` with and without cancel, worker loop, destructor | stop request against a worker that is going to sleep; lists updated without a common lock | every job runs once; the destructor joins |
| Streams (`iostream/*`) | in and out buffers with indices | `getchar`, `getline`, `getn`, `peekn`, `putspan`, `flush`, `write`, ... | short reads and writes, errors in the middle, data left in a buffer | bytes arrive once, in order |
| Containers (`utils/rbtree.hpp`, `intrusive_list.hpp`, `concurrent_queue.hpp`) | nodes, links, offsets | insert, erase, push, pop | rebalancing, lock-free offsets | ordered set; FIFO |
| System layer (`platform/fs.hpp`, `socket.hpp`, `pipe.hpp`, `process.hpp`, `fs_watch.hpp`) | file descriptors | thin wrappers over one operation each | zero-copy sends with two completions, linked time-outs | pure I/O for the most part |

`src/steps` holds earlier teaching versions of the same ideas, `src/examples`
demonstration programs, `src/3rd` vendored code; none of them is modelled.
`PROJECT.json` lists the hazards of the code line by line, with the property that covers each.

## 2. Plan and modules

The waits on futexes come first, since everything that synchronises coroutines
rests on them; then the loop that resumes coroutines; then what is built on
both.  Modules marked *done* are in this directory.

| order | module | models | state |
|---|---|---|---|
| 1 | `Futex` | one futex word and the asynchronous waits on it | done |
| 2 | `Mutex`, `AbstractLock` | `BasicMutex` and `Locked`; the lock it implements | done, proved |
| 3 | `CallOnce` | `call_once` on the abstract lock | done, proved |
| 4 | `ConditionVariable`, `Queue`, `BoundedFifo` | queue on a ring and a condition variable; the FIFO it implements | done, proved |
| 5 | `Semaphore` | `acquire`, `release` step by step | done, proved |
| 6 | `IOContext` | event loop, timers, io_uring entries | done, proved |
| 7 | `WhenAny` | `when_any`, `co_timeout`, `when_all`, the cancellation of branches | done, proved |
| 8 | `ThreadPool` | `submitJob`, workers, `rawRun`, destructors | done, proved |
| 9 | `Pipe`, `OutStream`, `InStream`, `Stream` | the two buffers of `BorrowedStream` over the raw streams at the ends of a pipe | done, proved |
| 10 | `RbTree`, `Timers` | the red-black tree; the timers in it | done |
| 11 | `Task` | awaiter, promise and caller; generators; `Expected` short cuts; `co_spawn` | done, proved |
| 12 | `IntrusiveList`, `CancelTree` | the list of cancellers; nested sources, late registration, cancellers that go while others are told | done, proved |
| 13 | | linked operations of `IOContext` | left |

How they are composed: `Mutex`, `ConditionVariable` and `Semaphore` extend
`Futex`; `Queue` extends `ConditionVariable`; `CallOnce` takes its lock from an
instance of `AbstractLock`, which `Mutex` is shown to implement, so that what is proved of
`CallOnce` holds for it on the real mutex.  `Queue` implements `BoundedFifo` under a refinement
mapping (`Items`, the ring read from `mRead` to `mWrite`).  `Stream` puts an
`OutStream` and an `InStream` at the two ends of one `Pipe`; `Timers` keeps its
sleepers in an `RbTree`.  `CancelTree` takes the list of cancellers as a set,
which `IntrusiveList` justifies: its ring holds exactly the linked nodes.

The proofs are in `MutexProofs` (also of `CallOnce`), `QueueProofs`, `SemaphoreProofs`,
`IOContextProofs`, `WhenAnyProofs`, `ThreadPoolProofs`, `StreamProofs` and `CancelTreeProofs` (also of
`IntrusiveList` and `Task`, of which it takes instances).

## 3. How the modules correspond to the code

**Futex.**  `futex_wait` does not compare anything when it is awaited: it prepares
an entry.  The word is compared when the event loop of that thread submits
(`SubmitWait`), which is why a wait has the states prepared, queued and done.
`futex_notify` is a system call and reaches only queued waits; the
kernel may choose any of them (`WokenOne`), which includes its first-come order.
`futex.hpp:47` calls `SYS_futex_wake` with *(futex, count, mask, flags)*, and the kernel
takes *(futex, mask, nr, flags)*; the fallback at line 50 is never reached, as `syscall` returns -1.
`FutexNotify` is what comes of it: the count, 1, is the mask, so only a wait whose mask has bit 0 is
found, and the mask is the number of waits to wake.  The mutex (mask of all bits, which as a
number is -1) and a pop or an acquire (mask 1) are notified as they should be; a push and a release (mask 2)
are never woken, and two pops or acquires are in their place.  The waits themselves go through io_uring, with their
masks right.  The kernel is one that has this call.  A cancelled
token prepares a second entry that names the wait (`PrepCancel`); when the kernel
executes it the wait may be over already (`SubmitCancel`).

**Mutex.**  `pc` is the position in `lock()` or `unlock()`; `Exchange` is the atomic
exchange, `Unlock` the store, and `Notify` the system call after it, so that others
run between the two.  `holding` is the life of a `Locked`.

**CallOnce.**  `Place` is where a caller is, `M` the lock that `mMutex` is.  The first, unsynchronised look may miss a store (`Call` may go on
although `mCalled` is set).  `LockFailed`: `while (!locked)` repeats a cancelled `lock()`.

**Queue.**  All users of a queue are on one loop (`mReady` is a
`ConditionVariable` of plain, unsynchronised ring state), so each turn between two
suspensions is one action: `Push`, `Pop` from the call to its first suspension or
return, `Resume` from a wake to the next.  The counter in `ConditionVariable` is
kept as *moved* or *not moved* since a task's wait was prepared, which is all that
the comparison at submission and the one after the wake ask.  `CvNotifyOne` wakes as `FutexNotify`.
The ring's positions run over `0 .. Capacity`, but the code allocates `Capacity` elements: the last
position, `mTail`, is behind the array.  What is written there comes back as it was or as `Garbage` (`Written`); what
the write does to other memory is undefined and not modelled.

**Semaphore.**  One action per atomic operation.  `compare_exchange_weak` ends the
round it succeeds in and *repeats* the loop; a failure leaves it.  The weak form may also
fail by chance, with the counter as expected (not on x86): in the first round (`cas`) the operation
then returns without having changed the counter, which `chance` records; in the second (`again`) it ends the loop
early, after one exchange, as it should.  `chance` and `balance` are history variables.

**IOContext.**  `phase` is where the thread is in `run`/`runOnce`/`waitEventsFor`,
`running` the coroutine it has resumed.  User code is any sequence of operations,
sleeps, spawns and ends.  `sq`, `kernel` and `cq` are the places of an entry;
`GetSqe` submits a full ring in the middle of user code, as `getSqe` does.  The
sixty-odd `prep_` functions differ in their arguments only, except for
`prep_send_zc`: `ZeroCopy` names the coroutines that use it.  The model is of a kernel
with `IORING_FEAT_EXT_ARG`, where waits with a time-out leave no entry of their own.
`mTimers` is a set ordered by `expires`; its tree is for the module `RbTree`.

**WhenAny.**  A branch is ready at once, waits for an operation, a timer, or for
ever (`kind`).  `DoCancel` is the loop of `CancelSourceImpl::doCancel`: timers
are resumed on the spot and their branches return before the loop ends; operations
get a cancel entry, and the canceller sleeps until all of these have come back.
`co_timeout` is the case of one operation and one timer.  Entries that name the same
operation are taken in their order; others in any.

**Streams.**  A call of the library is an action that fixes what is asked for
(`Call`, `Ask`) and then one action per turn up to the next raw operation: `Serve`
takes from the buffer and asks `fillbuf` for more, `FillBuf` is `raw_read` with any
number of bytes that may come.  On the other side `todo` is the rest of a call (a
span, a character, a flush), because `putspan` and `putchunk` are made of these.
Bytes are numbered, `Text` says which character each is.  `got` and `given` are
what has been consumed and taken over, `wire` what the pipe has carried.  Three
flags mark the cases in which the code gives up order or bytes, and every
condition in a property names its flag: `bypassed` (a `write` on a full buffer
goes past it), `resent` (a flush failed half-way, and the next starts over),
`spoilt` (`peekn` near the end of the buffer reads over bytes it has moved).
Each stream has one user: a put during a suspended flush of another coroutine
is lost to the `mOutIndex = 0` at its end.

**Timers, RbTree.**  The tree is a record of links and colours; left and right
are one definition with a direction, where the code has two copies.  What the
clock says is left open: `Fire` may take any front.  Erasing a node with two
children links through the wrong parent (`doEraseInner`), and leaves a link to the
erased node or loses timers every time; `torn` marks that, and the behaviour ends there.

**Task.**  `running` has the thread, `stack` are those that called `resume()` below
it: transfer (`Await`, `HandOver`) leaves the stack alone, `co_spawn` and a callback
push, a suspension pops.  `caller` and `callee` are the two handles of an awaiter,
`mResult` what it has received.  Frames are names that are used again.  Promises of
other types than `TaskPromise` do not hand down a token; of these `co_spawn`'s
starter is in the model (`plain`), timers and `when_all`'s helper are suspensions.
A task that is dropped while its coroutine is under way is excluded: what happens
then depends on who holds its handle.  A token that `co_cancel.bind` puts into a task is
overwritten when a task awaits it (`task.hpp:527`): `TokenOfCaller`.

**IntrusiveList.**  The operations as assignments to `listNext` and `listPrev`; four
insertions are `LinkBehind` somewhere.  `place` is a history variable that numbers the
ring.

**CancelTree.**  `tasks[s]` are the tasks that `doCancel` has made, `waiting[s]` those that
`when_all` has started.  `when_all` starts them one after the other, depth first; the model
allows any order and user code in between, which includes it.  A callback that destroys a
canceller still to be told, or a source whose `doCancel` has not returned, leaves a
task that uses what is gone: `broken`, and the behaviour ends there.

**ThreadPool.**  Every critical section and every step between two is an action,
of callers (`pc`) and of workers (`tpc`); the worker's `mMutex` is in `mLocked`, the
short spin-locked sections are single steps.  `mWorkingThreads` is the number of times that each
thread is in that list, as nothing depends on its order and a thread may be in it twice.  A condition variable releases and
sleeps atomically but may wake spuriously.  Each coroutine calls `rawRun` once.

## 4. The runs

| run | instance | checks |
|---|---|---|
| `mutex` | 3 tasks, or 3 callers of `call_once` (`MCMutex`) | the inductive invariant, exclusion, `LockedIsOwned`, `NoLostWakeup`, `Progress`, and that the mutex implements `AbstractLock` with its fairness; one initialiser, none after `set_ready`, callers move on after failures |
| `queue` | ring of 2, three casts of 3 or 4 tasks | the inductive invariant, no pop sleeps on a value that no other pop is coming for, bounded FIFO but for what was behind the array, values move |
| `queue_push` | ring of 1, a pusher and a popper | *violated*: `SlotsMove` |
| `semaphore` | 5 tasks on one loop, or 2 of them on a second, maximum 2, 1 call each | the inductive invariant (counter in range); on one loop, until an exchange fails by chance, the counter counts and no wake of an acquire is lost |
| `loop` | 2 coroutines, ring of 1 entry, 3 suspensions each, 2 ticks | the inductive invariant, exact count of pending entries, each suspension resumed once, `run()` ends when, and only when, nothing is suspended |
| `loop_zero_copy` | the same loop with one zero-copy sender | *violated*: `PendingIsUncompleted` |
| `when_any` | 4 branches, all combinations of kinds | the inductive invariant, `FirstWins`, `NobodyLeft`, `ReturnsPromptly` |
| `stream` | text of 3 bytes, buffers and pipe of 2, one failing write | `EndToEnd`, `AtLeastOnce`, `CallsAnswer`, and that reads end after a close |
| `stream_span` | the same | *violated*: `SpanIsFilled` |
| `timers` | 7 timers, 3 times of expiry | `EarliestFirst`, `WellFormed` |
| `pool` | 2 cancellable callers | no function lost or given to a busy worker, the frame outlives the function, calls return |
| `pool_stop` | the same | *violated*: `StopIsSeen` |

**Bounds.**  Three tasks suffice for the mutex, as every conflict in it is between
a holder, a waiter and one that barges in, and the theorems lift it to any number.
The queue's casts are two pushers and a popper, one pusher of distinct values and two
poppers, and all four operations together; a ring of two distinguishes empty, partial
and full at each of its three offsets.  `TryAssumption` limits `try_push` to
at most one waiting popper: with more, its
conditional notification wakes too few, and nothing in the repository promises more.  In `Semaphore` a maximum of two separates full, partial and empty, five tasks are two
sleepers of one kind, two of the other kind that change the counter before the first sleeper has run,
and one that barges in; `Quota` bounds the calls of a task.  In `IOContext`
one entry makes every second preparation meet a full ring; `Width` is the number
of values of the counter (2^64 in the code), small so that an underflow is seen as a large number;
`MaxTime` allows a timer to be due now, next or last.  `when_any` with four branches has
a winner, a loser of each other kind, and one in the middle of being cancelled.  Two pool callers
meet over the free list, the creation of a thread, and the reuse of one.
With a `stream` buffer of two and a text of three, `rrn`, every call that is longer than the
buffer meets a refill or flush in its middle, and the end of line `rn` comes whole, in two
fills, and after a repeated first character.  Ends of line whose first character comes again before their last (`aab`) are not in the run: on a mismatch
`getline` goes on behind it, and so overlooks the one at the end of `aaab`.  `CallsAnswer` says
of those that the line ends behind a line end, and of the others (`Plain`) that it is the first.
Six timers already make trees of four levels, in which rotations and recolouring happen at
and below the root, and the seventh is inserted or erased anywhere in those; states are compared up to the names of the nodes
(`MCView`: what is in a node outside the tree is not read again).

**Deadlock** is checked in every run but those of `Semaphore` (calls are used
up, and an acquire may wait for ever), of `ThreadPool` (its destructor may
hang: `pool_stop`), of `stream` (the bytes are used up, or a call waits for a writer
that writes no more) and of `timers` (behaviours end when the tree is torn).

**Fairness.**  A loop that has pending operations runs (`WF` of a task's submission,
resumption and cancel entries), OS threads are scheduled (`WF` of worker and
caller steps; `SF` only of taking a mutex that is free again and again), the kernel
takes submitted entries and completes operations where a run asks for it.
A stream's reader is resumed when its `raw_read` has an answer (`Serve`, `Raw`).
`IOContext` has `SF` of `Submit`: a signal does not interrupt every single submission.
No run assumes that users call, cancel or stop calling, and `when_any` assumes
neither of timers nor of ordinary operations that they end.

**What the violated runs show.**

- `queue_push`: `pop` notifies `kNonFullMask`, which is 2, and `futex_notify` makes of it a wake of two waits of
  mask 1.  On a ring of one a push that has found it full sleeps; the pop that makes room does not wake
  it, the next pop finds nothing and sleeps, too, and both stop.  `src/examples/io_multiplex.cpp` has such a queue.
  A release that sleeps at `mMaxCount` is left in the same way (`src/examples/semaphore_test.cpp`: the third of its burst).
- `stream_span`: `getspan` does not count down what it copied before a refill (the line that would is commented
  out), asks for the whole span again, and copies and consumes bytes behind its end.
- `loop_zero_copy`: `socket_write_zc` posts two completions for one entry, and
  `waitEventsFor` counts both and resumes the coroutine twice.  The count is one too small as soon as
  the first is collected, with the entry still in the kernel, and wraps with the second if nothing else is pending.
- `pool_stop`: `~Thread` requests the stop and notifies without the worker's mutex; a
  worker between its predicate and its sleep misses both, and `join` never returns.

One thing that is false of the code has no run.  `ConservedOnOneLoop` and `NoLostAcquire` have a condition, `Alone`: the
`do ... while (compare_exchange_weak(...))` loops of `acquire` and `release` are left when the exchange
*fails*.  On one loop the second round always fails and the counter is right by accident; on two, an
exchange of another thread between the load and the first exchange, and on one a first exchange that fails
by chance, lets `acquire` return without having taken a resource.  An acquire that was woken for it and leaves so
has used up its wake, and another may sleep on beside a free resource.  The model has these behaviours, and
without the condition TLC finds both properties violated.

## 5. What is proved

TLAPS checks the following for every value of the constants.

- `MutexProofs`: `Invariant`, `Exclusion`, `WordIsOwner`, `WakeupsArrive`, `Refinement`.  Exclusion and
  wake-ups are not inductive as they stand: `IInv` adds that the word is set exactly
  while somebody holds the lock (so an exchange that finds it clear is the only owner)
  and that a task has a wait exactly while it is suspended, with the value 1.  The step that
  matters is `SubmitWait`: a wait is queued only if the word is 1, hence owned, hence
  somebody is active.  `Resume` and `SubmitCancel` keep the wake: a woken
  wait is not turned into a cancelled one.
  `WordIsOwner` reads the same invariant the other way: a word that is set has an owner.
- `CallOnce`, in the same module: `OnceInvariant`, `InitialisedOnce`, from `LockSpan` (the lock is
  held from the second look until the `Locked` is dropped).
- `QueueProofs`: `Invariant`, `PoppersAwake`, `Refinement`.  Who is on its way to a value
  is a matter of counting (`InFlight`), and the counts do not survive a step by themselves: a woken
  pop could find its wait unmoved and sleep again.  `Suspension` excludes that (who has been woken has
  seen the counter move), and `Justified` says of the waits that have *not* seen it move that the queue
  is still empty, or full.  So a pop that reaches the kernel sleeps on an empty queue (`SubmitCovered`);
  each push adds a value and, if a pop sleeps, one that is woken for it; a turn that takes a
  value uses up one, and may wake two others, which does no harm; and all that is prepared when somebody notifies becomes one that will not sleep.
  For `try_push`, which notifies on the edge only, `TryAssumption` bounds the count by
  one.  `Refinement` needs no count and no finiteness: `ContentsPush` and `ContentsPop` say what writing behind the last
  value, and leaving the first position behind, do to the sequence that the ring holds, wherever in
  the ring it starts.  The abstract queue may damage the values of the turns in `Damaged`, here those that are put
  behind the array, and no others.  `Outcome` reduces the actions of a running task to what they come to: a value put,
  a value taken, a sleep, a failure.
- `SemaphoreProofs`: `Invariant`, `CounterCounts`, `AcquirersServed`.  On any loops, what keeps
  the counter in its range is that the copy taken to the exchange is never the limit
  (`Suspension`), and that an exchange succeeds only on that copy.  On one loop the copy is also current
  (`CopyIsCurrent`): nobody else runs between the load and the end of the call.  So the first round can fail by chance only, and the second
  compares with the value before the first and fails; the call has changed the counter once.
  `Covered` counts free resources against the acquires that come for them and the releases that still have to send a wake.
  That a wake of an acquire's own kind reaches acquires, two of them, only adds to the former (`Wakes`).
- `IOContextProofs`: `Invariant`, `PendingExact`, `NobodyAbandoned`, `EachResumedOnce`, under `Plain`: no
  zero-copy sender (with one `PendingExact` is false: `loop_zero_copy`), and fewer coroutines than the counter has
  values.  The invariant locates everybody: the coroutines suspended in operations are exactly those with an entry in the
  ring or the kernel, a completion, or a handle in the batch (`Located`), each has one of these, and
  completions and batch have no repetitions (`Apart`).  The pending count is then
  that of a union of disjoint sets, and `run()` leaves its loop only when it is empty (`Exited`).
- `ThreadPoolProofs`: `Invariant`, `NoJobLost`, `FreeThreadsIdle`, `JobsEndBeforeFrames`, for every finite set of callers.
  None of the three is inductive alone.  `OneDuty` gives every worker one duty at most (a caller about to post,
  a function posted, one at work, or none and a place in the free list), `JobOfCaller` ties the job slot and the running
  function to that caller, `ThreadsMade` counts threads against the callers who may still make one, and `Destroying`
  keeps the destructor within them.  `FreeIsIdle` is the link: `TakeFree` hands out only who has no duty.
- `WhenAnyProofs`: `Invariant`, `FirstBranchWins`, `NothingLeft`, for any number of
  branches of any kinds.  `Decision` says that nobody has returned before the source is
  cancelled, that only the first may be inside `doCancel`, and that `result` is 0 or that branch;
  `Owned` gives each entry in the ring or the kernel an owner: a suspended branch, or
  a `doCancel` that waits.  When all branches have returned there is no owner left, hence
  no entry.  The counting of `mCount` is the lemma `CountDown`.

- `StreamProofs`: `Invariant`, `BytesInOrder`, `NothingLost`, `EachCallAnswers`, for any text, sizes of the buffers
  and of the pipe, and line ends, and any number of failures.  The writer and the reader share
  nothing but the pipe, so `IInv` has a part for each, and one step disturbs one of them.
  - The writer: `Ordered` says that the parts of the call under way come in order and behind all that was
    taken over; `KeptAll` that pipe and buffer hold the bytes taken over and no others, with `Flushing`:
    only a flush under way has written a part of the buffer.  Without failures `Exact` gives the
    order.  With them `EndToEnd` is silent, and what is inductive is `InTurn`: a greater byte anywhere has each
    smaller one that was taken over before it, whatever has been sent again.  It holds of a repeated
    flush because the buffer is one run of these bytes, and fails once a `write` goes past the buffer.
  - The reader: `Heard` and `Tracks` compare what was received (consumed, or unread in the buffer) with what
    the pipe has handed out.  `RawWhenEmpty` is what makes `fillbuf` harmless: all callers but
    `peekn` empty the buffer first.  `Counts` has, for each call, what it has copied and counted down before
    each refill; `getn` counts down and `getspan` does not, so `EachCallAnswers` says nothing of the latter (`stream_span`).
  - `Line` is the search for a line end: the last `p` bytes consumed are its first `p` characters, and
    no start before them is one, as some character there differs (`Fails`).  A mismatch moves
    the search behind the matched bytes, and this keeps `Line` only if none of them begins a line end:
    `Plain`.  Of other line ends `EachCallAnswers` says only that the line ends behind one.  A refill in the middle of a line end changes nothing in it.

- `Task`, in `CancelTreeProofs`: `TaskInvariant`, `CallersAnswered`, for any number of frames.  That a caller is
  resumed with its result there needs the rest of `IInv`: that one coroutine at most has
  the thread and those on the stack are apart (`OneRuns`), that waiting and being waited
  for are the same relation read both ways (`WaitsForActive`, `CalledOrSpawned`), and that nobody
  awaits a starter (`StarterWaits`).
- `IntrusiveList`, in `CancelTreeProofs`: `ListInvariant`, `NeverEmpty`, of the list whose nodes are the cancellers.  That there is *one* ring is not a
  statement about neighbours; `place` makes it one (`OneRing`).  `NeverEmpty` says that
  `empty()` never answers true, as it compares with `nullptr` a link that leads to
  `root`; the one caller, `doCancel`, then awaits `when_all` of no tasks, which is harmless.
- `CancelTreeProofs`: `CancelTellsAll`, `CancelWaits`, for any tree of any size.  `Places` is what
  makes them inductive: while a source is not cancelled nobody in its list has been told, and
  of a cancelled one everybody on the roll has a task or was told.

`Task`, `IntrusiveList` and `CancelTree` are proved and not part of a run.  `Task.cfg` and
`CancelTree.cfg` check the same invariants on three frames, and on two sources and two
callbacks, which is how they were found.

Each inductive invariant was found and checked with TLC before it was proved: on the instance of the
module's run, which keeps it as an invariant, except those of `ThreadPool`, tried apart on two callers, and of
`Stream`, tried apart on the instance of its run (it needs the library of the proof).

The assumptions are those the modules name: natural or positive sizes (`QueueAssumption`, `SemaphoreAssumption`,
`IOContextAssumption`), finitely many callers (`ThreadPoolAssumption`), at least one branch (`WhenAnyAssumption`), a buffer of at least one
byte and line ends that are not empty (`PipeAssumption`, `EolsAssumption`; `getline` takes the first
character of one) and `TryAssumption` of `Queue`.  Beside these some theorems have hypotheses: finitely many tasks where their number is compared
(`Queue` except for `Refinement`, `Semaphore`), `Plain` in `IOContext`, and in `Task`, `CancelTree` and
`IntrusiveList` that the names for nothing (`Nobody`, `root`, `nullptr`, `NoSource`, `NoToken`) are none of the objects.
The mutex and `call_once` need none.

Liveness (`Progress`, `CallersMove`, `ValuesMove`, `IoResumes`, `ReturnsPromptly`,
`CallsReturn`, `ReadsEnd` and the fairness part of `ImplementsLock`) is checked by TLC only: it rests on
fairness and `ENABLED`, which the prover does not handle.  `RbTree` and `Timers` are model-checked only, with
`EarliestFirst` and `WellFormed`: the tree's operations are recursive, and what they do to trees of any
depth would take induction over these, which the prover does not do either.

## 6. What is left out

- Memory orders weaker than the interleaving of atomic operations, except the relaxed
  load of `call_once`.
- Exceptions: the default build has no `CO_ASYNC_EXCEPT` (with it, a branch of `when_all` that throws resumes the caller while
  others still run with references to its frame); `when_any` that is cancelled by its
  parent before any branch has finished ends in `caller = "threw"`, where that build terminates.
- The overload of `when_any` for a vector, which has no caller.
- `working_threads_count()`: `submitJob` lists the worker after giving it the function, so a
  fast worker is listed again after it has finished; the model counts it, no property is about it.
- Pushers that sleep: a pop's notification does not reach them (`queue_push`), so the only thing said of them is that they
  sleep on a full queue, or have been overtaken by a notification; the same of releases at `mMaxCount`.
- What follows a write behind the ring's array (`ring_queue.hpp:41`), a `peekn` over its own bytes (`spoilt`) or the erasure of an inner
  timer (`torn`): the first is damage to memory the models do not have, of the others the properties speak until they happen.
- `run(func, cancel)` of `ThreadPool`'s callers, whose token is not handed to `rawRun`.
- `ConditionVariable` with users on several threads, and `notify_all`, which has no caller in the library (its count would be
  the mask of its wake, and all it wakes is one).
- Linked operations: a hazard without a property (`platform_io.hpp:130`).  Which of the two arguments of
  `link_ops` is made first is not specified, and the ring may be full between them.
- `RingQueue::size()`, which takes the difference of the positions modulo `max_size()` although they run over one more, registered buffers and files, `ConcurrentRingQueue`, `RbTree::clear`: nothing in the library calls
  them, so there is no use to model them by.
- `getline` and others that *return* a `String` lose what they have when a raw read fails; the
  models are of the overloads that append to the caller's.
- `co_resume`, and timers erased after the tree is torn.
- `fs.hpp`, `socket.cpp`, `pipe.hpp`, `process.hpp`, `fs_watch.hpp`: one operation each, which is
  `StartIo` of `IOContext`.
