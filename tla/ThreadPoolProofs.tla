-------------------------- MODULE ThreadPoolProofs --------------------------
(***************************************************************************)
(* The thread pool, for every finite set of callers: no function is lost   *)
(* or posted to a busy worker, and none outlives the frame it writes to.   *)
(***************************************************************************)
EXTENDS ThreadPool, FiniteSetTheorems, SequenceTheorems, TLAPS

USE ThreadPoolAssumption
    DEF Thread, Busy, Submitted, CallerGoes, WorkerGoes, callers, lists, workers, pool

LEMMA CallersCounted == Cardinality(Co) \in Nat
BY FS_CardinalityType

USE CallersCounted

LEMMA InitInv == Init => IInv
<1> SUFFICES ASSUME Init
             PROVE  IInv
  OBVIOUS
<1> USE DEF Init
<1>1. mFreeThreads \in Seq(1 .. mThreads) /\ DOMAIN mFreeThreads = {}
  OBVIOUS
<1>2. TypeOK
  BY <1>1 DEF TypeOK
<1>3. {c \in Co : pc[c] \in {"start", "new"}} = Co
  OBVIOUS
<1>4. ThreadsMade
  <2>1. Cardinality({c \in Co : pc[c] \in {"start", "new"}}) = Cardinality(Co)
    BY <1>3, Zenon
  <2> QED  BY <2>1 DEF ThreadsMade
<1>5. OneDuty /\ FreeIsIdle
  BY <1>1 DEF OneDuty, FreeIsIdle, IsInjective
<1>6. JobOfCaller /\ JobNotLost /\ Destroying
  BY DEF JobOfCaller, JobNotLost, Destroying
<1> QED  BY <1>2, <1>4, <1>5, <1>6 DEF IInv

-----------------------------------------------------------------------------
\* Steps that keep everybody's duty.

Locked == {t \in Thread : tpc[t] \in {"pred", "wait", "remove", "free", "unlock"}}
Idling == {"loop", "pred", "wait", "blocked", "woken", "unlock", "exit"}

\* A worker without a function moves in its loop.
LEMMA IdleStep ==
    ASSUME IInv, NEW t \in Thread, NEW x \in Idling, tpc[t] \in Idling,
           tpc' = [tpc EXCEPT ![t] = x], mLocked' = Locked',
           UNCHANGED <<callers, lists, mTask, task>>,
           stop' \subseteq Thread, dpc' \in {"alive", "stop", "notify", "join", "destroyed"},
           UNCHANGED victim, Destroying'
    PROVE  IInv'
<1> USE DEF IInv, Idling
<1>1. TypeOK'
  BY DEF TypeOK, Locked
<1>2. ThreadsMade'
  BY DEF TypeOK, ThreadsMade
<1>3. OneDuty'
  BY DEF TypeOK, OneDuty
<1>4. JobOfCaller' /\ JobNotLost' /\ FreeIsIdle'
  BY DEF TypeOK, JobOfCaller, JobNotLost, FreeIsIdle
<1> QED  BY <1>1, <1>2, <1>3, <1>4

\* A caller moves on in its call, and returns only when ready is set.
LEMMA CallerStep ==
    ASSUME IInv, NEW c \in Co, NEW x \in Submitted \cup {"done"},
           pc[c] \in Submitted, pc' = [pc EXCEPT ![c] = x],
           x = "done" => ready[c],
           stopped' \subseteq Cancellable, mWorkingThreads' \in [Thread -> Nat],
           UNCHANGED <<target, ready, mThreads, mFreeThreads, workers, pool>>
    PROVE  IInv'
<1> USE DEF IInv
<1>1. TypeOK'
  BY DEF TypeOK
<1>2. {d \in Co : pc'[d] \in {"start", "new"}} = {d \in Co : pc[d] \in {"start", "new"}}
  BY DEF TypeOK
<1>3. ThreadsMade'
  BY <1>2 DEF TypeOK, ThreadsMade
<1>4. OneDuty'
  BY DEF TypeOK, OneDuty
<1>5. JobOfCaller'
  BY DEF TypeOK, JobOfCaller
<1>6. JobNotLost' /\ FreeIsIdle'
  BY DEF TypeOK, JobNotLost, FreeIsIdle
<1>7. Destroying'
  BY DEF Destroying
<1> QED  BY <1>1, <1>3, <1>4, <1>5, <1>6, <1>7

LEMMA RecordInv == ASSUME IInv, NEW c \in Co, Record(c) PROVE IInv'
<1>1. mWorkingThreads' \in [Thread -> Nat]
  <2>1. mWorkingThreads \in [Thread -> Nat] /\ mWorkingThreads'
        = [mWorkingThreads EXCEPT ![target[c]] = mWorkingThreads[target[c]] + 1]
    BY DEF IInv, TypeOK, Record
  <2>2. target[c] \in Thread
    BY DEF IInv, TypeOK, ThreadsMade, Record
  <2> QED  BY <2>1, <2>2
<1>2. stopped' \subseteq Cancellable
  BY DEF IInv, TypeOK, Record
<1> QED  BY <1>1, <1>2, CallerStep DEF Record

LEMMA CheckInv == ASSUME IInv, NEW c \in Co, Check(c) PROVE IInv'
<1>1. stopped' \subseteq Cancellable /\ mWorkingThreads' \in [Thread -> Nat]
  BY DEF IInv, TypeOK, Check
<1> QED  BY <1>1, CallerStep DEF Check

LEMMA SubmitInv == ASSUME IInv, NEW c \in Co, Submit(c) PROVE IInv'
<1>1. stopped' \subseteq Cancellable /\ mWorkingThreads' \in [Thread -> Nat]
  BY DEF IInv, TypeOK, Submit
<1> QED  BY <1>1, CallerStep DEF Submit

LEMMA CancelInv == ASSUME IInv, NEW c \in Co, Cancel(c) PROVE IInv'
<1>1. stopped' \subseteq Cancellable /\ mWorkingThreads' \in [Thread -> Nat]
  BY DEF IInv, TypeOK, Cancel
<1> QED  BY <1>1, CallerStep DEF Cancel

\* The free list is empty: c will make a thread.
LEMMA NoneFreeInv == ASSUME IInv, NEW c \in Co, NoneFree(c) PROVE IInv'
<1> USE DEF IInv, NoneFree
<1>1. TypeOK'
  BY DEF TypeOK
<1>2. {d \in Co : pc'[d] \in {"start", "new"}} = {d \in Co : pc[d] \in {"start", "new"}}
  BY DEF TypeOK
<1>3. ThreadsMade'
  BY <1>2 DEF TypeOK, ThreadsMade
<1>4. OneDuty' /\ Destroying'
  BY DEF TypeOK, OneDuty, Destroying
<1>5. JobOfCaller' /\ JobNotLost' /\ FreeIsIdle'
  BY DEF TypeOK, JobOfCaller, JobNotLost, FreeIsIdle
<1> QED  BY <1>1, <1>3, <1>4, <1>5

\* One caller fewer is still to take or make a thread.
LEMMA CallerServed ==
    ASSUME IInv, NEW c \in Co, pc[c] \in {"start", "new"},
           pc' = [pc EXCEPT ![c] = "assign"]
    PROVE  /\ Cardinality({d \in Co : pc'[d] \in {"start", "new"}}) \in Nat
           /\ Cardinality({d \in Co : pc'[d] \in {"start", "new"}}) + 1
              = Cardinality({d \in Co : pc[d] \in {"start", "new"}})
<1> DEFINE S == {d \in Co : pc[d] \in {"start", "new"}}
<1>1. {d \in Co : pc'[d] \in {"start", "new"}} = S \ {c} /\ c \in S
  BY DEF IInv, TypeOK
<1>2. IsFiniteSet(S) /\ Cardinality(S) \in Nat
  BY FS_Subset, FS_CardinalityType
<1> HIDE DEF S
<1>3. Cardinality(S \ {c}) = Cardinality(S) - 1 /\ Cardinality(S \ {c}) \in Nat
  BY <1>1, <1>2, FS_RemoveElement, FS_CardinalityType
<1>4. Cardinality({d \in Co : pc'[d] \in {"start", "new"}}) = Cardinality(S \ {c})
  BY <1>1, Zenon
<1>5. Cardinality({d \in Co : pc[d] \in {"start", "new"}}) = Cardinality(S)
  BY Zenon DEF S
<1> QED  BY <1>2, <1>3, <1>4, <1>5

\* The thread that c takes had no duty, and nobody else takes it.
LEMMA TakeFreeInv == ASSUME IInv, NEW c \in Co, TakeFree(c) PROVE IInv'
<1> USE DEF IInv, TakeFree
<1> DEFINE t == Head(mFreeThreads)
<1>1. /\ mFreeThreads' \in Seq(1 .. mThreads)
      /\ Len(mFreeThreads') = Len(mFreeThreads) - 1 /\ Len(mFreeThreads) \in Nat \ {0}
      /\ DOMAIN mFreeThreads' = 1 .. Len(mFreeThreads')
      /\ DOMAIN mFreeThreads = 1 .. Len(mFreeThreads)
      /\ \A i \in DOMAIN mFreeThreads' : mFreeThreads'[i] = mFreeThreads[i + 1]
      /\ t = mFreeThreads[1] /\ t \in 1 .. mThreads
  BY HeadTailProperties, LenProperties, EmptySeq DEF TypeOK
<1>2. /\ mTask[t] = Nobody /\ task[t] = Nobody /\ tpc[t] \notin Busy
      /\ \A d \in Co : ~(pc[d] = "assign" /\ target[d] = t)
      /\ \A i \in DOMAIN mFreeThreads' :
             /\ i + 1 \in DOMAIN mFreeThreads /\ mFreeThreads'[i] # t
  BY <1>1 DEF FreeIsIdle, OneDuty, IsInjective
<1>3. pc' = [pc EXCEPT ![c] = "assign"] /\ target' = [target EXCEPT ![c] = t]
  OBVIOUS
<1> HIDE DEF t
<1>4. t \in Thread
  BY <1>1 DEF TypeOK
<1>5. TypeOK'
  BY <1>1, <1>3, <1>4 DEF TypeOK
<1>6. ThreadsMade'
  <2>1. mThreads + Cardinality({d \in Co : pc'[d] \in {"start", "new"}}) <= Cardinality(Co)
    <3>1. mThreads \in Nat /\ mThreads + Cardinality({d \in Co : pc[d] \in {"start", "new"}})
                              <= Cardinality(Co)
      BY DEF TypeOK, ThreadsMade
    <3>2. /\ Cardinality({d \in Co : pc'[d] \in {"start", "new"}}) \in Nat
          /\ Cardinality({d \in Co : pc'[d] \in {"start", "new"}}) + 1
             = Cardinality({d \in Co : pc[d] \in {"start", "new"}})
      BY <1>3, CallerServed
    <3> QED  BY <3>1, <3>2
  <2>2. \A d \in Co : pc'[d] \notin {"start", "new"} => target'[d] \in 1 .. mThreads
    BY <1>1, <1>3 DEF TypeOK, ThreadsMade
  <2> QED  BY <2>1, <2>2 DEF ThreadsMade
<1>7. OneDuty'
  BY <1>1, <1>2, <1>3 DEF TypeOK, OneDuty
<1>8. JobOfCaller' /\ JobNotLost' /\ Destroying'
  BY <1>3 DEF TypeOK, JobOfCaller, JobNotLost, Destroying
<1>9. FreeIsIdle'
  <2>1. IsInjective(mFreeThreads')
    BY <1>1, <1>2 DEF FreeIsIdle, IsInjective
  <2>2. ASSUME NEW i \in DOMAIN mFreeThreads'
        PROVE  LET u == mFreeThreads'[i]
               IN  /\ mTask[u] = Nobody /\ task[u] = Nobody
                   /\ \A d \in Co : ~(pc'[d] = "assign" /\ target'[d] = u)
    <3>1. i + 1 \in DOMAIN mFreeThreads /\ mFreeThreads'[i] = mFreeThreads[i + 1]
          /\ mFreeThreads'[i] # t
      BY <1>1, <1>2
    <3> QED  BY <1>3, <3>1 DEF FreeIsIdle, TypeOK
  <2> QED  BY <2>1, <2>2 DEF FreeIsIdle
<1> QED  BY <1>5, <1>6, <1>7, <1>8, <1>9

\* A new thread has no duty but the one c has made it for.
LEMMA NewThreadInv == ASSUME IInv, NEW c \in Co, NewThread(c) PROVE IInv'
<1> USE DEF IInv, NewThread
<1> DEFINE t == mThreads + 1
<1>1. /\ pc' = [pc EXCEPT ![c] = "assign"] /\ target' = [target EXCEPT ![c] = t]
      /\ tpc' = [tpc EXCEPT ![t] = "loop"] /\ mThreads' = t
      /\ Cardinality({d \in Co : pc'[d] \in {"start", "new"}}) \in Nat
      /\ Cardinality({d \in Co : pc'[d] \in {"start", "new"}}) + 1
         = Cardinality({d \in Co : pc[d] \in {"start", "new"}})
  BY CallerServed
<1>2. t \in Thread /\ mThreads \in Nat
  BY <1>1 DEF ThreadsMade, TypeOK
<1>3. /\ tpc[t] = "none" /\ mTask[t] = Nobody /\ task[t] = Nobody
      /\ \A d \in Co : pc[d] = "assign" => target[d] # t
      /\ \A i \in DOMAIN mFreeThreads : mFreeThreads[i] # t
  <2>1. tpc[t] = "none" /\ \A d \in Co : pc[d] \in {"assign"} \cup Submitted => target[d] # t
    BY <1>2 DEF ThreadsMade
  <2>2. task[t] = Nobody
    BY <1>2, <2>1 DEF OneDuty
  <2>3. \A i \in DOMAIN mFreeThreads : mFreeThreads[i] # t
    BY <1>2, LenProperties, ElementOfSeq DEF TypeOK
  <2>4. mTask[t] = Nobody
    <3>1. \A d \in Co : mTask[t] = d => target[d] = t /\ pc[d] \in Submitted
      BY <1>2 DEF JobOfCaller
    <3> QED  BY <1>2, <2>1, <3>1 DEF TypeOK
  <2> QED  BY <2>1, <2>2, <2>3, <2>4
<1> HIDE DEF t
<1>4. TypeOK'
  <2>1. mFreeThreads' \in Seq(1 .. mThreads')
    <3>1. 1 .. mThreads \subseteq 1 .. mThreads'
      BY <1>1, <1>2 DEF t
    <3> QED  BY <3>1, SeqMonotonic DEF TypeOK
  <2>2. mLocked' = {u \in Thread : tpc'[u] \in {"pred", "wait", "remove", "free", "unlock"}}
    BY <1>1, <1>2, <1>3 DEF TypeOK
  <2> QED  BY <1>1, <1>2, <2>1, <2>2 DEF TypeOK
<1>5. ThreadsMade'
  BY <1>1, <1>2, <1>3 DEF TypeOK, ThreadsMade, t
<1>6. OneDuty'
  BY <1>1, <1>2, <1>3 DEF TypeOK, OneDuty
<1>7. JobOfCaller' /\ JobNotLost'
  BY <1>1, <1>2, <1>3 DEF TypeOK, JobOfCaller, JobNotLost
<1>8. FreeIsIdle'
  BY <1>1, <1>2, <1>3 DEF TypeOK, FreeIsIdle
<1>9. Destroying'
  BY <1>1, <1>2 DEF Destroying, TypeOK, t
<1> QED  BY <1>4, <1>5, <1>6, <1>7, <1>8, <1>9

\* The function is posted to a worker without a duty, and wakes it.
LEMMA WorkOnInv == ASSUME IInv, NEW c \in Co, WorkOn(c) PROVE IInv'
<1> USE DEF IInv
<1> DEFINE t == target[c]
<1>1. /\ pc[c] = "assign" /\ pc' = [pc EXCEPT ![c] = "record"]
      /\ mTask' = [mTask EXCEPT ![t] = c] /\ tpc' = Notified(t)
      /\ UNCHANGED <<target, ready, stopped, lists, task, mLocked, pool>>
  BY DEF WorkOn
<1>2. t \in Thread /\ t \in 1 .. mThreads
  BY <1>1 DEF TypeOK, ThreadsMade
<1>3. /\ mTask[t] = Nobody /\ tpc[t] \notin Busy /\ ~ready[c]
      /\ \A d \in Co : pc[d] = "assign" /\ target[d] = t => d = c
      /\ \A i \in DOMAIN mFreeThreads : mFreeThreads[i] # t
  BY <1>1 DEF OneDuty, JobOfCaller, FreeIsIdle
<1>4. /\ tpc' \in [Thread -> {"none", "loop", "pred", "wait", "blocked", "woken", "run",
                              "notify", "relock", "remove", "free", "unlock", "exit"}]
      /\ \A u \in Thread : tpc'[u] = tpc[u] \/ (tpc[u] = "blocked" /\ tpc'[u] = "woken")
  BY <1>1, <1>2 DEF Notified, TypeOK
<1> HIDE DEF t
<1>5. TypeOK'
  <2>1. mLocked' = {u \in Thread : tpc'[u] \in {"pred", "wait", "remove", "free", "unlock"}}
    BY <1>1, <1>4 DEF TypeOK
  <2> QED  BY <1>1, <1>2, <1>4, <2>1 DEF TypeOK
<1>6. ThreadsMade'
  <2>1. {d \in Co : pc'[d] \in {"start", "new"}} = {d \in Co : pc[d] \in {"start", "new"}}
    BY <1>1 DEF TypeOK
  <2>2. \A u \in Thread : tpc'[u] = "none" <=> u > mThreads
    BY <1>4 DEF ThreadsMade
  <2> QED  BY <1>1, <2>1, <2>2 DEF ThreadsMade, TypeOK
<1>7. OneDuty'
  <2>1. \A d \in Co : pc'[d] = "assign" => target'[d] # t /\ pc[d] = "assign"
    BY <1>1, <1>3 DEF TypeOK
  <2>2. \A u \in Thread : mTask'[u] # Nobody => u = t \/ mTask[u] # Nobody
    BY <1>1 DEF TypeOK
  <2>3. \A i \in DOMAIN mFreeThreads : mFreeThreads[i] \in Thread
    BY DEF TypeOK
  <2>4. \A d, e \in Co : pc'[d] = "assign" /\ pc'[e] = "assign" /\ target'[d] = target'[e]
                         => d = e
    BY <1>1, <2>1 DEF OneDuty
  <2>5. \A d \in Co : pc'[d] = "assign" => /\ mTask'[target'[d]] = Nobody
                                           /\ tpc'[target'[d]] \notin Busy
    <3> SUFFICES ASSUME NEW d \in Co, pc'[d] = "assign"
                 PROVE  mTask'[target[d]] = Nobody /\ tpc'[target[d]] \notin Busy
      BY <1>1
    <3>1. pc[d] = "assign" /\ target[d] # t /\ target[d] \in Thread
      BY <1>1, <2>1 DEF TypeOK, ThreadsMade
    <3> QED  BY <1>1, <1>4, <3>1 DEF OneDuty, TypeOK
  <2>6. \A u \in Thread : /\ tpc'[u] \in Busy => mTask'[u] = Nobody
                          /\ task'[u] # Nobody <=> tpc'[u] \in {"run", "notify"}
    BY <1>1, <1>2, <1>3, <1>4, <2>2 DEF OneDuty
  <2>7. \A i \in DOMAIN mFreeThreads : tpc'[mFreeThreads[i]] \notin Busy
    BY <1>4, <2>3 DEF OneDuty
  <2> QED  BY <1>1, <2>4, <2>5, <2>6, <2>7 DEF OneDuty
<1>8. JobOfCaller'
  BY <1>1, <1>2, <1>3, <1>4 DEF TypeOK, JobOfCaller, t
<1>9. JobNotLost'
  BY <1>1, <1>2, <1>3 DEF TypeOK, JobNotLost, t
<1>10. FreeIsIdle' /\ Destroying'
  BY <1>1, <1>3 DEF TypeOK, FreeIsIdle, Destroying
<1> QED  BY <1>5, <1>6, <1>7, <1>8, <1>9, <1>10

-----------------------------------------------------------------------------
LEMMA LoopInv == ASSUME IInv, NEW t \in Thread, Loop(t) PROVE IInv'
<1>1. mLocked' = Locked' /\ stop \subseteq Thread
      /\ dpc \in {"alive", "stop", "notify", "join", "destroyed"}
  BY DEF IInv, TypeOK, Loop, Acquire, Locked
<1> QED  BY <1>1, IdleStep DEF Loop, Idling, IInv, Destroying

LEMMA LeaveLoopInv == ASSUME IInv, NEW t \in Thread, LeaveLoop(t) PROVE IInv'
<1>1. mLocked' = Locked' /\ stop \subseteq Thread
      /\ dpc \in {"alive", "stop", "notify", "join", "destroyed"}
  BY DEF IInv, TypeOK, LeaveLoop, Locked
<1> QED  BY <1>1, IdleStep DEF LeaveLoop, Idling, IInv, Destroying

LEMMA StopSeenInv == ASSUME IInv, NEW t \in Thread, StopSeen(t) PROVE IInv'
<1>1. mLocked' = Locked' /\ stop \subseteq Thread
      /\ dpc \in {"alive", "stop", "notify", "join", "destroyed"}
  BY DEF IInv, TypeOK, StopSeen, Release, Locked
<1> QED  BY <1>1, IdleStep DEF StopSeen, Idling, IInv, Destroying

LEMMA NothingToDoInv == ASSUME IInv, NEW t \in Thread, NothingToDo(t) PROVE IInv'
<1>1. mLocked' = Locked' /\ stop \subseteq Thread
      /\ dpc \in {"alive", "stop", "notify", "join", "destroyed"}
  BY DEF IInv, TypeOK, NothingToDo, Locked
<1> QED  BY <1>1, IdleStep DEF NothingToDo, Idling, IInv, Destroying

LEMMA BlockInv == ASSUME IInv, NEW t \in Thread, Block(t) PROVE IInv'
<1>1. mLocked' = Locked' /\ stop \subseteq Thread
      /\ dpc \in {"alive", "stop", "notify", "join", "destroyed"}
  BY DEF IInv, TypeOK, Block, Release, Locked
<1> QED  BY <1>1, IdleStep DEF Block, Idling, IInv, Destroying

LEMMA SpuriousInv == ASSUME IInv, NEW t \in Thread, Spurious(t) PROVE IInv'
<1>1. mLocked' = Locked' /\ stop \subseteq Thread
      /\ dpc \in {"alive", "stop", "notify", "join", "destroyed"}
  BY DEF IInv, TypeOK, Spurious, Locked
<1> QED  BY <1>1, IdleStep DEF Spurious, Idling, IInv, Destroying

LEMMA WakeInv == ASSUME IInv, NEW t \in Thread, Wake(t) PROVE IInv'
<1>1. mLocked' = Locked' /\ stop \subseteq Thread
      /\ dpc \in {"alive", "stop", "notify", "join", "destroyed"}
  BY DEF IInv, TypeOK, Wake, Acquire, Locked
<1> QED  BY <1>1, IdleStep DEF Wake, Idling, IInv, Destroying

LEMMA UnlockInv == ASSUME IInv, NEW t \in Thread, Unlock(t) PROVE IInv'
<1>1. mLocked' = Locked' /\ stop \subseteq Thread
      /\ dpc \in {"alive", "stop", "notify", "join", "destroyed"}
  BY DEF IInv, TypeOK, Unlock, Release, Locked
<1> QED  BY <1>1, IdleStep DEF Unlock, Idling, IInv, Destroying

-----------------------------------------------------------------------------
\* The posted function is taken, and goes on to be its worker's one duty.
LEMMA TakeTaskInv == ASSUME IInv, NEW t \in Thread, TakeTask(t) PROVE IInv'
<1> USE DEF IInv, TakeTask
<1>1. TypeOK'
  <2>1. mLocked' = Locked'
    BY DEF TypeOK, Release, Locked
  <2> QED  BY <2>1 DEF TypeOK, Locked
<1>2. mTask[t] \in Co /\ target[mTask[t]] = t
  <2>1. mTask[t] \in Co
    BY DEF TypeOK
  <2> QED  BY <2>1 DEF JobOfCaller
<1>3. /\ \A d \in Co : pc[d] = "assign" => target[d] # t
      /\ \A i \in DOMAIN mFreeThreads : mFreeThreads[i] # t
  BY DEF OneDuty, FreeIsIdle
<1>4. ThreadsMade' /\ Destroying'
  BY DEF TypeOK, ThreadsMade, Destroying
<1>5. OneDuty'
  BY <1>2, <1>3 DEF TypeOK, OneDuty
<1>6. JobOfCaller'
  BY <1>2 DEF TypeOK, JobOfCaller
<1>7. JobNotLost'
  BY <1>2 DEF TypeOK, JobNotLost, OneDuty
<1>8. FreeIsIdle'
  BY <1>3 DEF TypeOK, FreeIsIdle
<1> QED  BY <1>1, <1>4, <1>5, <1>6, <1>7, <1>8

\* What a worker at its function knows of itself and of the caller.
LEMMA RunningJob ==
    ASSUME IInv, NEW t \in Thread, tpc[t] \in {"run", "notify"}
    PROVE  /\ task[t] \in Co /\ mTask[t] = Nobody
           /\ \A d \in Co : pc[d] = "assign" => target[d] # t
           /\ \A i \in DOMAIN mFreeThreads : mFreeThreads[i] # t
BY DEF IInv, TypeOK, OneDuty

LEMMA RunTaskInv == ASSUME IInv, NEW t \in Thread, RunTask(t) PROVE IInv'
<1> USE DEF IInv, RunTask
<1> DEFINE c == task[t]
<1>1. c \in Co /\ target[c] = t /\ pc[c] \in Submitted /\ ~ready[c] /\ mTask[t] = Nobody
  BY RunningJob DEF JobOfCaller
<1>2. ready' = [ready EXCEPT ![c] = TRUE] /\ tpc' = [tpc EXCEPT ![t] = "notify"]
  OBVIOUS
<1>3. \A u \in Thread : mTask[u] # c /\ (task[u] = c /\ tpc[u] = "run" => u = t)
  BY <1>1 DEF JobOfCaller
<1> HIDE DEF c
<1>4. TypeOK'
  <2>1. mLocked' = Locked'
    BY DEF TypeOK, Locked
  <2> QED  BY <1>1, <2>1 DEF TypeOK, Locked
<1>5. ThreadsMade' /\ Destroying'
  BY DEF TypeOK, ThreadsMade, Destroying
<1>6. OneDuty'
  BY <1>1 DEF TypeOK, OneDuty
<1>7. JobOfCaller'
  <2>1. ASSUME NEW u \in Thread, NEW d \in Co
        PROVE  /\ mTask'[u] = d => target'[d] = u /\ pc'[d] \in Submitted /\ ~ready'[d]
               /\ task'[u] = d /\ tpc'[u] = "run"
                  => target'[d] = u /\ pc'[d] \in Submitted /\ ~ready'[d]
               /\ task'[u] = d /\ tpc'[u] = "notify" => ready'[d]
    BY <1>1, <1>2, <1>3 DEF TypeOK, JobOfCaller, c
  <2>2. \A d \in Co : /\ pc'[d] = "done" => ready'[d]
                      /\ pc'[d] \in {"start", "new", "assign"} => ~ready'[d]
    <3> SUFFICES ASSUME NEW d \in Co
                 PROVE  /\ pc[d] = "done" => ready'[d]
                        /\ pc[d] \in {"start", "new", "assign"} => ~ready'[d]
      OBVIOUS
    <3>1. CASE d = c
      BY <1>1, <1>2, <3>1 DEF TypeOK
    <3>2. CASE d # c
      <4>1. ready'[d] = ready[d]
        BY <1>2, <3>2 DEF TypeOK
      <4> QED  BY <4>1 DEF JobOfCaller
    <3> QED  BY <3>1, <3>2
  <2> QED  BY <2>1, <2>2 DEF JobOfCaller
<1>8. JobNotLost' /\ FreeIsIdle'
  BY <1>1, <1>2 DEF TypeOK, JobNotLost, FreeIsIdle
<1> QED  BY <1>4, <1>5, <1>6, <1>7, <1>8

\* The function has been called, and its caller may go on.
LEMMA NotifyInv == ASSUME IInv, NEW t \in Thread, Notify(t) PROVE IInv'
<1> USE DEF IInv, Notify
<1> DEFINE c == task[t]
<1>1. c \in Co /\ ready[c] /\ mTask[t] = Nobody
      /\ \A i \in DOMAIN mFreeThreads : mFreeThreads[i] # t
  BY RunningJob DEF JobOfCaller
<1>2. /\ pc' = [pc EXCEPT ![c] = IF pc[c] = "waiting" THEN "check" ELSE pc[c]]
      /\ tpc' = [tpc EXCEPT ![t] = "relock"] /\ task' = [task EXCEPT ![t] = Nobody]
  OBVIOUS
<1>3. \A d \in Co : pc'[d] = pc[d] \/ (pc[d] = "waiting" /\ pc'[d] = "check")
  BY <1>1, <1>2 DEF TypeOK
<1> HIDE DEF c
<1>4. TypeOK'
  <2>1. mLocked' = Locked'
    BY DEF TypeOK, Locked
  <2>2. pc' \in [Co -> {"start", "new", "assign", "record",
                       "check", "prepared", "waiting", "done"}]
    <3>1. CASE pc[c] = "waiting"
      BY <1>2, <3>1 DEF TypeOK
    <3>2. CASE pc[c] # "waiting"
      <4>1. pc' = [pc EXCEPT ![c] = pc[c]]
        BY <1>2, <3>2
      <4>2. pc' = pc
        BY <4>1 DEF TypeOK
      <4> QED  BY <4>2 DEF TypeOK
    <3> QED  BY <3>1, <3>2
  <2>3. tpc' \in [Thread -> {"none", "loop", "pred", "wait", "blocked", "woken", "run",
                            "notify", "relock", "remove", "free", "unlock", "exit"}]
    BY <1>2 DEF TypeOK
  <2>4. task' \in [Thread -> Co \cup {Nobody}]
    BY <1>2 DEF TypeOK
  <2> QED  BY <2>1, <2>2, <2>3, <2>4 DEF TypeOK, Locked
<1>5. ThreadsMade'
  <2>1. {d \in Co : pc'[d] \in {"start", "new"}} = {d \in Co : pc[d] \in {"start", "new"}}
    BY <1>3
  <2>2. \A u \in Thread : tpc'[u] = "none" <=> u > mThreads
    BY DEF ThreadsMade, TypeOK
  <2> QED  BY <1>3, <2>1, <2>2 DEF ThreadsMade
<1>6. OneDuty'
  BY <1>1, <1>2, <1>3, RunningJob DEF TypeOK, OneDuty
<1>7. JobOfCaller'
  BY <1>1, <1>2, <1>3 DEF TypeOK, JobOfCaller
<1>8. JobNotLost'
  BY <1>1, <1>2, <1>3 DEF TypeOK, JobNotLost, c
<1>9. FreeIsIdle'
  BY <1>1, <1>2, <1>3 DEF TypeOK, FreeIsIdle
<1> QED  BY <1>4, <1>5, <1>6, <1>7, <1>8, <1>9 DEF Destroying

\* mTask is reset when it has been empty since the function was taken.
LEMMA RelockInv == ASSUME IInv, NEW t \in Thread, Relock(t) PROVE IInv'
<1> USE DEF IInv, Relock
<1>1. mTask[t] = Nobody /\ mTask' = mTask
  BY DEF TypeOK, OneDuty
<1>2. TypeOK'
  <2>1. mLocked' = Locked'
    BY DEF TypeOK, Acquire, Locked
  <2> QED  BY <1>1, <2>1 DEF TypeOK, Locked
<1>3. ThreadsMade' /\ Destroying'
  BY DEF TypeOK, ThreadsMade, Destroying
<1>4. OneDuty'
  BY <1>1 DEF TypeOK, OneDuty
<1>5. JobOfCaller' /\ JobNotLost' /\ FreeIsIdle'
  BY <1>1 DEF TypeOK, JobOfCaller, JobNotLost, FreeIsIdle
<1> QED  BY <1>2, <1>3, <1>4, <1>5

LEMMA RemoveThisInv == ASSUME IInv, NEW t \in Thread, RemoveThis(t) PROVE IInv'
<1> USE DEF IInv, RemoveThis
<1>1. TypeOK'
  <2>1. mLocked' = Locked'
    BY DEF TypeOK, Locked
  <2> QED  BY <2>1 DEF TypeOK, Locked
<1>2. ThreadsMade' /\ Destroying'
  BY DEF TypeOK, ThreadsMade, Destroying
<1>3. OneDuty'
  BY DEF TypeOK, OneDuty
<1>4. JobOfCaller' /\ JobNotLost' /\ FreeIsIdle'
  BY DEF TypeOK, JobOfCaller, JobNotLost, FreeIsIdle
<1> QED  BY <1>1, <1>2, <1>3, <1>4

\* A worker that has done everything else enters the free list, once.
LEMMA PutFreeInv == ASSUME IInv, NEW t \in Thread, PutFree(t) PROVE IInv'
<1> USE DEF IInv, PutFree
<1>1. /\ mTask[t] = Nobody /\ task[t] = Nobody /\ tpc' = [tpc EXCEPT ![t] = "unlock"]
      /\ \A d \in Co : pc[d] = "assign" => target[d] # t
      /\ \A i \in DOMAIN mFreeThreads : mFreeThreads[i] # t
      /\ t \in 1 .. mThreads
  <2>1. tpc[t] = "free" /\ tpc' = [tpc EXCEPT ![t] = "unlock"]
    OBVIOUS
  <2>2. mTask[t] = Nobody /\ task[t] = Nobody
    BY <2>1 DEF OneDuty
  <2>3. \A d \in Co : pc[d] = "assign" => target[d] # t
    BY <2>1 DEF OneDuty
  <2>4. \A i \in DOMAIN mFreeThreads : mFreeThreads[i] # t
    BY <2>1 DEF OneDuty
  <2>5. t \in 1 .. mThreads
    BY <2>1 DEF ThreadsMade, TypeOK
  <2> QED  BY <2>1, <2>2, <2>3, <2>4, <2>5
<1>2. /\ mFreeThreads' \in Seq(1 .. mThreads)
      /\ Len(mFreeThreads') = Len(mFreeThreads) + 1 /\ Len(mFreeThreads) \in Nat
      /\ DOMAIN mFreeThreads' = 1 .. Len(mFreeThreads')
      /\ DOMAIN mFreeThreads = 1 .. Len(mFreeThreads)
      /\ \A i \in DOMAIN mFreeThreads : mFreeThreads'[i] = mFreeThreads[i]
      /\ mFreeThreads'[Len(mFreeThreads')] = t
  BY <1>1, AppendProperties, LenProperties DEF TypeOK
<1>3. \A i \in DOMAIN mFreeThreads' :
          i \in DOMAIN mFreeThreads \/ i = Len(mFreeThreads')
  BY <1>2
<1>4. TypeOK'
  <2>1. mLocked' = Locked'
    BY DEF TypeOK, Locked
  <2> QED  BY <1>2, <2>1 DEF TypeOK, Locked
<1>5. ThreadsMade' /\ Destroying'
  BY DEF TypeOK, ThreadsMade, Destroying
<1>6. OneDuty'
  <2>1. \A i \in DOMAIN mFreeThreads' : tpc'[mFreeThreads'[i]] \notin Busy
    BY <1>1, <1>2, <1>3 DEF TypeOK, OneDuty
  <2>2. \A u \in Thread : tpc'[u] \in Busy => tpc[u] \in Busy
    BY <1>1 DEF TypeOK
  <2> QED  BY <1>1, <2>1, <2>2 DEF TypeOK, OneDuty
<1>7. JobOfCaller' /\ JobNotLost'
  BY DEF TypeOK, JobOfCaller, JobNotLost
<1>8. FreeIsIdle'
  <2>1. IsInjective(mFreeThreads')
    BY <1>1, <1>2, <1>3 DEF FreeIsIdle, IsInjective
  <2>2. ASSUME NEW i \in DOMAIN mFreeThreads'
        PROVE  LET u == mFreeThreads'[i]
               IN  /\ mTask[u] = Nobody /\ task[u] = Nobody
                   /\ \A d \in Co : ~(pc[d] = "assign" /\ target[d] = u)
    BY <1>1, <1>2, <1>3 DEF FreeIsIdle
  <2> QED  BY <2>1, <2>2 DEF FreeIsIdle
<1> QED  BY <1>4, <1>5, <1>6, <1>7, <1>8

-----------------------------------------------------------------------------
\* The destructor moves from thread to thread, and asks them to stop.
LEMMA DestructorStep ==
    ASSUME IInv, UNCHANGED <<callers, lists, workers>>,
           stop' \subseteq Thread, victim' \in 0 .. Cardinality(Co) + 1,
           dpc' \in {"alive", "stop", "notify", "join", "destroyed"}, Destroying'
    PROVE  IInv'
<1> USE DEF IInv
<1>1. TypeOK'
  BY DEF TypeOK
<1>2. ThreadsMade' /\ OneDuty' /\ JobOfCaller' /\ JobNotLost' /\ FreeIsIdle'
  BY DEF ThreadsMade, OneDuty, JobOfCaller, JobNotLost, FreeIsIdle
<1> QED  BY <1>1, <1>2

LEMMA DestroyInv == ASSUME IInv, Destroy PROVE IInv'
BY DestructorStep DEF Destroy, IInv, TypeOK, Destroying

LEMMA RequestStopInv == ASSUME IInv, RequestStop PROVE IInv'
<1> USE DEF IInv, RequestStop
<1>1. victim \in 1 .. mThreads + 1 /\ mThreads \in 0 .. Cardinality(Co)
  BY DEF TypeOK, Destroying
<1>2. CASE victim > mThreads
  BY <1>1, <1>2, DestructorStep DEF TypeOK, Destroying
<1>3. CASE ~(victim > mThreads)
  <2>1. victim \in 1 .. mThreads /\ victim \in Thread
    BY <1>1, <1>3
  <2>2. stop' = stop \cup {victim} /\ dpc' = "notify" /\ victim' = victim
    BY <1>3
  <2> QED  BY <2>1, <2>2, DestructorStep DEF TypeOK, Destroying
<1> QED  BY <1>2, <1>3

LEMMA NotifyStopInv == ASSUME IInv, NotifyStop PROVE IInv'
<1> USE DEF IInv, NotifyStop
<1>1. victim \in Thread
  BY DEF TypeOK, Destroying
<1>2. Destroying' /\ dpc' = "join"
  BY DEF Destroying
<1>3. CASE tpc[victim] = "blocked"
  <2>1. tpc' = [tpc EXCEPT ![victim] = "woken"]
    BY <1>3 DEF Notified
  <2>2. mLocked' = Locked'
    BY <1>3, <2>1 DEF TypeOK, Locked
  <2> QED  BY <1>1, <1>2, <1>3, <2>1, <2>2, IdleStep DEF Idling, TypeOK
<1>4. CASE tpc[victim] # "blocked"
  <2>1. tpc' = tpc
    BY <1>4 DEF Notified
  <2> QED  BY <1>2, <2>1, DestructorStep DEF TypeOK
<1> QED  BY <1>3, <1>4

LEMMA JoinInv == ASSUME IInv, Join PROVE IInv'
<1> USE DEF IInv, Join
<1>1. victim \in 1 .. mThreads /\ mThreads \in 0 .. Cardinality(Co)
  BY DEF TypeOK, Destroying
<1>2. victim' \in 0 .. Cardinality(Co) + 1 /\ Destroying'
  BY <1>1 DEF Destroying
<1> QED  BY <1>2, DestructorStep DEF TypeOK

LEMMA StepInv == ASSUME IInv, [Next]_vars PROVE IInv'
<1>1. ASSUME NEW c \in Co, Call(c) \/ Cancel(c)
      PROVE  IInv'
  BY <1>1, TakeFreeInv, NoneFreeInv, NewThreadInv, WorkOnInv, RecordInv, CheckInv,
     SubmitInv, CancelInv DEF Call
<1>2. ASSUME NEW t \in Thread, Work(t) \/ Spurious(t)
      PROVE  IInv'
  BY <1>2, LoopInv, LeaveLoopInv, TakeTaskInv, StopSeenInv, NothingToDoInv, BlockInv,
     WakeInv, RunTaskInv, NotifyInv, RelockInv, RemoveThisInv, PutFreeInv, UnlockInv,
     SpuriousInv DEF Work
<1>3. CASE UNCHANGED vars
  <2>1. UNCHANGED <<callers, lists, workers>> /\ UNCHANGED pool
    BY <1>3 DEF vars
  <2>2. /\ stop' \subseteq Thread /\ victim' \in 0 .. Cardinality(Co) + 1
        /\ dpc' \in {"alive", "stop", "notify", "join", "destroyed"}
    BY <2>1 DEF IInv, TypeOK
  <2>3. Destroying'
    BY <2>1 DEF IInv, Destroying
  <2> QED  BY <2>1, <2>2, <2>3, DestructorStep
<1> QED  BY <1>1, <1>2, <1>3, DestroyInv, RequestStopInv, NotifyStopInv, JoinInv
         DEF Next, Destructor, Finished

(* The inductive invariant: every worker has one duty at most, and every    *)
(* function its caller (submitJob, workOn, startMain, rawRun, ~Thread).     *)
THEOREM Invariant == Spec => []IInv
BY InitInv, StepInv, PTL DEF Spec

(* A function that submitJob has handed over is posted, running or has been *)
(* called.                                                                  *)
THEOREM NoJobLost == Spec => []JobNotLost
<1>1. IInv => JobNotLost
  BY DEF IInv
<1> QED  BY <1>1, Invariant, PTL

(* The free list holds each thread once, and none with something to do.     *)
THEOREM FreeThreadsIdle == Spec => []FreeIsIdle
<1>1. IInv => FreeIsIdle
  BY DEF IInv
<1> QED  BY <1>1, Invariant, PTL

(* rawRun returns after its function, cancelled or not, and no worker has   *)
(* that function any more.                                                  *)
THEOREM JobsEndBeforeFrames == Spec => []FrameOutlivesJob
<1>1. IInv => FrameOutlivesJob
  BY DEF IInv, JobOfCaller, FrameOutlivesJob
<1> QED  BY <1>1, Invariant, PTL
=============================================================================
