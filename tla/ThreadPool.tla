----------------------------- MODULE ThreadPool -----------------------------
(***************************************************************************)
(* ThreadPool (thread_pool.cpp): coroutines hand a blocking function to a  *)
(* worker thread, a free one or a new one, and wait on a futex until it    *)
(* has been called.  The coroutines run on loops of several OS threads, so *)
(* every critical section of submitJob and of the workers is a step.       *)
(* Each coroutine calls rawRun once.                                       *)
(***************************************************************************)
EXTENDS Naturals, FiniteSets, Sequences, Functions

CONSTANTS Co, Nobody,
          Cancellable          \* the callers whose token may be cancelled

ASSUME ThreadPoolAssumption ==
    IsFiniteSet(Co) /\ Nobody \notin Co /\ Cancellable \subseteq Co

Thread == 1 .. Cardinality(Co)

VARIABLES pc, target,          \* of a coroutine: where it is, its worker
          ready,               \* ready[c]: the futex word of c's call
          stopped,             \* the calls whose token was cancelled
          mThreads,            \* the number of threads made
          mFreeThreads,
          mWorkingThreads,     \* how often each thread is in the list
          tpc,                 \* tpc[t]: where the worker is in startMain
          mTask, task,         \* posted to t; running in t
          stop,                \* threads whose stop was requested
          mLocked,             \* threads whose mMutex their worker holds
          dpc, victim          \* ~ThreadPool: where it is, in which thread

callers == <<pc, target, ready, stopped>>
lists   == <<mThreads, mFreeThreads, mWorkingThreads>>
workers == <<tpc, mTask, task, mLocked>>
pool    == <<stop, dpc, victim>>
vars    == <<callers, lists, workers, pool>>

\* A worker in "wait" has found nothing to do and still holds mMutex; in
\* "blocked" it is asleep in mCV.
TypeOK ==
    /\ pc \in [Co -> {"start", "new", "assign", "record",
                      "check", "prepared", "waiting", "done"}]
    /\ target \in [Co -> Thread \cup {0}]
    /\ ready \in [Co -> BOOLEAN] /\ stopped \subseteq Cancellable
    /\ mThreads \in 0 .. Cardinality(Co)
    /\ mFreeThreads \in Seq(1 .. mThreads) /\ mWorkingThreads \in [Thread -> Nat]
    /\ tpc \in [Thread -> {"none", "loop", "pred", "wait", "blocked", "woken",
                           "run", "notify", "relock", "remove", "free",
                           "unlock", "exit"}]
    /\ mTask \in [Thread -> Co \cup {Nobody}]
    /\ task \in [Thread -> Co \cup {Nobody}]
    /\ stop \subseteq Thread
    /\ mLocked = {t \in Thread : tpc[t] \in {"pred", "wait", "remove", "free", "unlock"}}
    /\ dpc \in {"alive", "stop", "notify", "join", "destroyed"}
    /\ victim \in 0 .. Cardinality(Co) + 1

Init ==
    /\ pc = [c \in Co |-> "start"] /\ target = [c \in Co |-> 0]
    /\ ready = [c \in Co |-> FALSE] /\ stopped = {}
    /\ mThreads = 0 /\ mFreeThreads = <<>>
    /\ mWorkingThreads = [t \in Thread |-> 0]
    /\ tpc = [t \in Thread |-> "none"]
    /\ mTask = [t \in Thread |-> Nobody] /\ task = [t \in Thread |-> Nobody]
    /\ stop = {} /\ mLocked = {}
    /\ dpc = "alive" /\ victim = 0

-----------------------------------------------------------------------------
CallerGoes(c, from, to) == pc[c] = from /\ pc' = [pc EXCEPT ![c] = to]
WorkerGoes(t, from, to) == tpc[t] = from /\ tpc' = [tpc EXCEPT ![t] = to]
Acquire(t) == t \notin mLocked /\ mLocked' = mLocked \cup {t}
Release(t) == mLocked' = mLocked \ {t}

\* notify_one on mCV of a thread: wakes its worker if it sleeps there.
Notified(t) == IF tpc[t] = "blocked" THEN [tpc EXCEPT ![t] = "woken"] ELSE tpc

(* submitJob under mFreeMutex: take the first free thread, if any.          *)
TakeFree(c) ==
    /\ mFreeThreads # <<>>
    /\ CallerGoes(c, "start", "assign")
    /\ target' = [target EXCEPT ![c] = Head(mFreeThreads)]
    /\ mFreeThreads' = Tail(mFreeThreads)
    /\ UNCHANGED <<ready, stopped, mThreads, mWorkingThreads, workers, pool>>

NoneFree(c) ==
    /\ mFreeThreads = <<>>
    /\ CallerGoes(c, "start", "new")
    /\ UNCHANGED <<target, ready, stopped, lists, workers, pool>>

NewThread(c) ==
    /\ CallerGoes(c, "new", "assign")
    /\ mThreads' = mThreads + 1
    /\ target' = [target EXCEPT ![c] = mThreads']
    /\ tpc' = [tpc EXCEPT ![mThreads'] = "loop"]
    /\ UNCHANGED <<ready, stopped, mFreeThreads, mWorkingThreads,
                   mTask, task, mLocked, pool>>

WorkOnNewest(c) ==         \* a slip: mThreads.back() is read a second time
    LET t == mThreads
    IN  /\ CallerGoes(c, "assign", "record")
        /\ t \notin mLocked
        /\ mTask' = [mTask EXCEPT ![t] = c]
        /\ tpc' = Notified(t)
        /\ UNCHANGED <<target, ready, stopped, lists, task, mLocked, pool>>

(* Thread::workOn under the thread's mMutex.                                *)
WorkOn(c) ==
    LET t == target[c]
    IN  /\ CallerGoes(c, "assign", "record")
        /\ t \notin mLocked
        /\ mTask' = [mTask EXCEPT ![t] = c]
        /\ tpc' = Notified(t)
        /\ UNCHANGED <<target, ready, stopped, lists, task, mLocked, pool>>

Record(c) ==
    /\ CallerGoes(c, "record", "check")
    /\ mWorkingThreads' = [mWorkingThreads EXCEPT ![target[c]] = @ + 1]
    /\ UNCHANGED <<target, ready, stopped, mThreads, mFreeThreads, workers, pool>>

ReturnsUnready(c) ==       \* a slip: the cancelled call does not wait
    /\ CallerGoes(c, "check", IF ready[c] \/ c \in stopped THEN "done" ELSE "prepared")
    /\ UNCHANGED <<target, ready, stopped, lists, workers, pool>>

(* rawRun: while ready is not set, wait on it.                              *)
Check(c) ==
    /\ CallerGoes(c, "check", IF ready[c] THEN "done" ELSE "prepared")
    /\ UNCHANGED <<target, ready, stopped, lists, workers, pool>>

SubmitBlindly(c) ==        \* a slip: the word is not compared
    /\ CallerGoes(c, "prepared", "waiting")
    /\ UNCHANGED <<target, ready, stopped, lists, workers, pool>>

(* The loop submits the wait, which returns at once if the word has changed. *)
Submit(c) ==
    /\ CallerGoes(c, "prepared", IF ready[c] THEN "check" ELSE "waiting")
    /\ UNCHANGED <<target, ready, stopped, lists, workers, pool>>

(* The token is cancelled: the function is asked to stop and the wait ends; *)
(* a wait that is started afterwards is not told.                           *)
Cancel(c) ==
    /\ c \in Cancellable \ stopped
    /\ CallerGoes(c, "waiting", "check")
    /\ stopped' = stopped \cup {c}
    /\ UNCHANGED <<target, ready, lists, workers, pool>>

-----------------------------------------------------------------------------
(* startMain of worker t: the loop's test, and the lock.                    *)
Loop(t) ==
    /\ t \notin stop
    /\ WorkerGoes(t, "loop", "pred")
    /\ Acquire(t)
    /\ UNCHANGED <<callers, lists, mTask, task, pool>>

LeaveLoop(t) ==
    /\ t \in stop
    /\ WorkerGoes(t, "loop", "exit")
    /\ UNCHANGED <<callers, lists, mTask, task, mLocked, pool>>

(* The predicate of mCV.wait, and what follows when it holds.               *)
TakeTask(t) ==
    /\ t \notin stop /\ mTask[t] # Nobody
    /\ WorkerGoes(t, "pred", "run")
    /\ task' = [task EXCEPT ![t] = mTask[t]]
    /\ mTask' = [mTask EXCEPT ![t] = Nobody]
    /\ Release(t)
    /\ UNCHANGED <<callers, lists, pool>>

StopSeen(t) ==
    /\ t \in stop
    /\ WorkerGoes(t, "pred", "exit")
    /\ Release(t)
    /\ UNCHANGED <<callers, lists, mTask, task, pool>>

NothingToDo(t) ==
    /\ t \notin stop /\ mTask[t] = Nobody
    /\ WorkerGoes(t, "pred", "wait")
    /\ UNCHANGED <<callers, lists, mTask, task, mLocked, pool>>

(* wait gives up the mutex and falls asleep in one step.                    *)
Block(t) ==
    /\ WorkerGoes(t, "wait", "blocked")
    /\ Release(t)
    /\ UNCHANGED <<callers, lists, mTask, task, pool>>

Spurious(t) ==             \* mCV may wake without a notification
    /\ WorkerGoes(t, "blocked", "woken")
    /\ UNCHANGED <<callers, lists, mTask, task, mLocked, pool>>

Wake(t) ==
    /\ WorkerGoes(t, "woken", "pred")
    /\ Acquire(t)
    /\ UNCHANGED <<callers, lists, mTask, task, pool>>

(* The function returns and ready is set; then the futex is notified.       *)
RunTask(t) ==
    /\ WorkerGoes(t, "run", "notify")
    /\ ready' = [ready EXCEPT ![task[t]] = TRUE]
    /\ UNCHANGED <<pc, target, stopped, lists, mTask, task, mLocked, pool>>

Notify(t) ==
    /\ WorkerGoes(t, "notify", "relock")
    /\ pc' = [pc EXCEPT ![task[t]] = IF @ = "waiting" THEN "check" ELSE @]
    /\ task' = [task EXCEPT ![t] = Nobody]
    /\ UNCHANGED <<target, ready, stopped, lists, mTask, mLocked, pool>>

FreeFirst(t) ==            \* a slip: free again before the mutex is taken
    /\ WorkerGoes(t, "relock", "remove")
    /\ Acquire(t)
    /\ mTask' = [mTask EXCEPT ![t] = Nobody]
    /\ mFreeThreads' = Append(mFreeThreads, t)
    /\ UNCHANGED <<callers, mThreads, mWorkingThreads, task, pool>>

Relock(t) ==
    /\ WorkerGoes(t, "relock", "remove")
    /\ Acquire(t)
    /\ mTask' = [mTask EXCEPT ![t] = Nobody]
    /\ UNCHANGED <<callers, lists, task, pool>>

(* list::remove takes out every element equal to this.                      *)
RemoveThis(t) ==
    /\ WorkerGoes(t, "remove", "free")
    /\ mWorkingThreads' = [mWorkingThreads EXCEPT ![t] = 0]
    /\ UNCHANGED <<callers, mThreads, mFreeThreads, mTask, task, mLocked, pool>>

PutFree(t) ==
    /\ WorkerGoes(t, "free", "unlock")
    /\ mFreeThreads' = Append(mFreeThreads, t)
    /\ UNCHANGED <<callers, mThreads, mWorkingThreads, mTask, task, mLocked, pool>>

Unlock(t) ==
    /\ WorkerGoes(t, "unlock", "loop")
    /\ Release(t)
    /\ UNCHANGED <<callers, lists, mTask, task, pool>>

-----------------------------------------------------------------------------
(* ~ThreadPool, when every call has returned: ~Thread for one thread after  *)
(* the other.  request_stop and notify_one take no mutex.                   *)
Destroy ==
    /\ dpc = "alive" /\ \A c \in Co : pc[c] = "done"
    /\ dpc' = "stop" /\ victim' = 1
    /\ UNCHANGED <<callers, lists, workers, stop>>

RequestStop ==
    /\ dpc = "stop"
    /\ IF victim > mThreads THEN dpc' = "destroyed" /\ UNCHANGED stop
       ELSE dpc' = "notify" /\ stop' = stop \cup {victim}
    /\ UNCHANGED <<callers, lists, workers, victim>>

NotifyStop ==
    /\ dpc = "notify"
    /\ dpc' = "join"
    /\ tpc' = Notified(victim)
    /\ UNCHANGED <<callers, lists, mTask, task, mLocked, stop, victim>>

Join ==
    /\ dpc = "join" /\ tpc[victim] = "exit"
    /\ dpc' = "stop" /\ victim' = victim + 1
    /\ UNCHANGED <<callers, lists, workers, stop>>

Finished == dpc = "destroyed" /\ UNCHANGED vars

Call(c) == \/ TakeFree(c) \/ NoneFree(c) \/ NewThread(c) \/ WorkOn(c)
           \/ Record(c) \/ Check(c) \/ Submit(c)
Work(t) == \/ Loop(t) \/ LeaveLoop(t) \/ TakeTask(t) \/ StopSeen(t)
           \/ NothingToDo(t) \/ Block(t) \/ Wake(t) \/ RunTask(t) \/ Notify(t)
           \/ Relock(t) \/ RemoveThis(t) \/ PutFree(t) \/ Unlock(t)
Destructor == RequestStop \/ NotifyStop \/ Join

Next == \/ \E c \in Co : Call(c) \/ Cancel(c)
        \/ \E t \in Thread : Work(t) \/ Spurious(t)
        \/ Destroy \/ Destructor \/ Finished

(* Every OS thread is scheduled, functions return, and a mutex that is free *)
(* again and again is got in the end.                                       *)
Fairness ==
    /\ \A c \in Co : WF_vars(Call(c)) /\ SF_vars(WorkOn(c))
    /\ \A t \in Thread : WF_vars(Work(t))
    /\ WF_vars(Destructor)

Spec == Init /\ [][Next]_vars /\ Fairness
-----------------------------------------------------------------------------
(* A function that was handed to a worker is posted there, running, or has  *)
(* been called: no other caller and no reset of mTask takes its place.      *)
JobNotLost ==
    \A c \in Co : pc[c] \in {"record", "check", "prepared", "waiting"} =>
        ready[c] \/ mTask[target[c]] = c \/ task[target[c]] = c

(* A thread is in the free list at most once, and one that is there has no  *)
(* function and no caller about to give it one.                             *)
FreeIsIdle ==
    /\ IsInjective(mFreeThreads)
    /\ \A i \in DOMAIN mFreeThreads :
           LET t == mFreeThreads[i]
           IN  /\ mTask[t] = Nobody /\ task[t] = Nobody
               /\ \A c \in Co : ~(pc[c] = "assign" /\ target[c] = t)

(* rawRun returns only when its function has been called, cancelled or not: *)
(* the function writes to the frame of its caller.                          *)
FrameOutlivesJob ==
    \A c \in Co : pc[c] = "done" =>
        /\ ready[c]
        /\ \A t \in Thread : mTask[t] # c /\ ~(task[t] = c /\ tpc[t] = "run")

\* What a worker is at, if anything: a function, or what comes after it.
Busy == {"run", "notify", "relock", "remove", "free"}
Submitted == {"record", "check", "prepared", "waiting"}

\* The threads made are the first mThreads, enough for those who still come.
ThreadsMade ==
    /\ \A t \in Thread : tpc[t] = "none" <=> t > mThreads
    /\ mThreads + Cardinality({c \in Co : pc[c] \in {"start", "new"}}) <= Cardinality(Co)
    /\ \A c \in Co : pc[c] \notin {"start", "new"} => target[c] \in 1 .. mThreads

\* A worker has one duty at most: a caller about to post, a function posted,
\* one at work, or none and a place in the free list.
OneDuty ==
    /\ \A c, d \in Co : pc[c] = "assign" /\ pc[d] = "assign" /\ target[c] = target[d]
                        => c = d
    /\ \A c \in Co : pc[c] = "assign" => /\ mTask[target[c]] = Nobody
                                         /\ tpc[target[c]] \notin Busy
    /\ \A t \in Thread : /\ tpc[t] \in Busy => mTask[t] = Nobody
                         /\ task[t] # Nobody <=> tpc[t] \in {"run", "notify"}
    /\ \A i \in DOMAIN mFreeThreads : tpc[mFreeThreads[i]] \notin Busy

\* A function that is posted or runs is its caller's, who waits for it.
JobOfCaller ==
    /\ \A t \in Thread, c \in Co :
        /\ mTask[t] = c => target[c] = t /\ pc[c] \in Submitted /\ ~ready[c]
        /\ task[t] = c /\ tpc[t] = "run"
           => target[c] = t /\ pc[c] \in Submitted /\ ~ready[c]
        /\ task[t] = c /\ tpc[t] = "notify" => ready[c]
    /\ \A c \in Co : /\ pc[c] = "done" => ready[c]
                     /\ pc[c] \in {"start", "new", "assign"} => ~ready[c]

\* The destructor is at a thread of the pool.
Destroying ==
    /\ dpc \in {"notify", "join"} => victim \in 1 .. mThreads
    /\ dpc = "stop" => victim \in 1 .. mThreads + 1

(* What every step of callers, workers and the destructor preserves.        *)
IInv == TypeOK /\ ThreadsMade /\ OneDuty /\ JobOfCaller /\ JobNotLost /\ FreeIsIdle
        /\ Destroying

(* Every call returns, also when the wait is cancelled and started again.   *)
CallsReturn == \A c \in Co : <>(pc[c] = "done")

(* The comment in ~Thread: notify_one wakes the waiting thread, so that it  *)
(* sees the stop request and the destructor can join it.                    *)
StopIsSeen == dpc = "join" ~> dpc # "join"
=============================================================================
