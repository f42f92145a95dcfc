-------------------------- MODULE SemaphoreProofs --------------------------
(***************************************************************************)
(* Semaphore, for every set of tasks and every capacity: the counter stays *)
(* in its range on any loops; on one loop, and until an exchange fails by   *)
(* chance, it counts and no wake of an acquire is lost.                     *)
(***************************************************************************)
EXTENDS Semaphore, FiniteSetTheorems, TLAPS

USE SemaphoreAssumption
USE DEF Limit, Delta, OwnMask, PeerMask, kAcquireMask, kReleaseMask, Kind, Busy,
        WaitOp, NoOp, OpState, Done, CountOne, history

LEMMA InitInv == Init => IInv
<1> SUFFICES ASSUME Init PROVE IInv
  OBVIOUS
<1> USE DEF Init, FutexInit
<1>0. NoOp \in [st : OpState, val : 0 .. mMaxCount,
                mask : SUBSET (kAcquireMask \cup kReleaseMask)]
  OBVIOUS
<1>a. FutexTypeOK(0 .. mMaxCount, kAcquireMask \cup kReleaseMask)
  BY <1>0 DEF FutexTypeOK
<1>b. /\ pc \in [Task -> Busy \cup {"out", "waiting"}] /\ kind \in [Task -> Kind]
      /\ count \in [Task -> 0 .. mMaxCount] /\ left \in [Task -> 0 .. Quota]
      /\ loop \in Placements /\ balance \in Int
  OBVIOUS
<1>c. chance \in BOOLEAN
  OBVIOUS
<1>1. TypeOK
  BY <1>a, <1>b, <1>c DEF TypeOK
<1>2. Suspension /\ CopyIsCurrent /\ Conservation
  BY DEF Suspension, CopyIsCurrent, Conservation
<1>3. Queued(kAcquireMask) = {}
  BY DEF Queued, QueuedIn
<1> QED
  BY <1>1, <1>2, <1>3 DEF IInv, NoLostAcquire, Covered

-----------------------------------------------------------------------------
(* On any loops.                                                            *)

LEMMA CallBounds ==
    ASSUME TypeOK, Suspension, UNCHANGED loop, NEW t \in Task,
           NEW k \in Kind, Call(t, k)
    PROVE  TypeOK' /\ Suspension'
<1> USE DEF Call, Goto, futexVars
<1>1. TypeOK'
  BY DEF TypeOK, FutexTypeOK
<1>2. Suspension'
  BY DEF TypeOK, FutexTypeOK, Suspension
<1> QED  BY <1>1, <1>2

\* A wait is prepared at the limit, and only there.
LEMMA LoadBounds ==
    ASSUME TypeOK, Suspension, UNCHANGED loop, NEW t \in Task, LoadCounter(t)
    PROVE  TypeOK' /\ Suspension'
<1> USE DEF LoadCounter, Goto, PrepWait
<1>1. CASE mFutex = Limit(kind[t])
  <2> DEFINE w == [st |-> "prepared", val |-> mFutex, mask |-> OwnMask(kind[t])]
  <2>1. op' = [op EXCEPT ![t] = w] /\ cancelSqe' = [cancelSqe EXCEPT ![t] = FALSE]
    BY <1>1
  <2>2. w \in [st : OpState, val : 0 .. mMaxCount,
               mask : SUBSET (kAcquireMask \cup kReleaseMask)]
    BY DEF TypeOK, FutexTypeOK
  <2>3. pc' = [pc EXCEPT ![t] = "waiting"] /\ UNCHANGED <<mFutex, kind, left, history>>
    BY <1>1
  <2>4. w.st = "prepared" /\ w.val = Limit(kind[t]) /\ w.mask = OwnMask(kind[t])
    BY <1>1
  <2> HIDE DEF w
  <2>5. TypeOK'
    BY <2>1, <2>2, <2>3 DEF TypeOK, FutexTypeOK
  <2>6. Suspension'
    BY <2>1, <2>3, <2>4 DEF TypeOK, FutexTypeOK, Suspension
  <2> QED  BY <2>5, <2>6
<1>2. CASE mFutex # Limit(kind[t])
  <2>1. TypeOK'
    BY <1>2 DEF TypeOK, FutexTypeOK
  <2>2. Suspension'
    BY <1>2 DEF TypeOK, FutexTypeOK, Suspension
  <2> QED  BY <2>1, <2>2
<1> QED  BY <1>1, <1>2

\* The exchange starts from the copy, which is off the limit.
LEMMA ExchangeOkBounds ==
    ASSUME TypeOK, Suspension, UNCHANGED loop, NEW t \in Task, ExchangeOk(t)
    PROVE  TypeOK' /\ Suspension'
<1> USE DEF ExchangeOk, Goto
<1>1. mFutex \in 0 .. mMaxCount /\ mFutex # Limit(kind[t]) /\ kind[t] \in Kind
  BY DEF TypeOK, FutexTypeOK, Suspension
<1>2. mFutex' \in 0 .. mMaxCount
  BY <1>1
<1>3. TypeOK'
  BY <1>2 DEF TypeOK, FutexTypeOK
<1>4. Suspension'
  BY DEF TypeOK, FutexTypeOK, Suspension
<1> QED  BY <1>3, <1>4

LEMMA ExchangeFailsBounds ==
    ASSUME TypeOK, Suspension, UNCHANGED loop, NEW t \in Task, ExchangeFails(t)
    PROVE  TypeOK' /\ Suspension'
<1> USE DEF ExchangeFails, Goto, futexVars
<1>a. chance' \in BOOLEAN
  <2>1. chance' = chance \/ chance' = (chance \/ pc[t] = "cas")
    OBVIOUS
  <2> QED  BY <2>1 DEF TypeOK
<1>b. Delta(kind[t]) \in Int
  BY DEF TypeOK
<1>1. TypeOK'
  BY <1>a, <1>b DEF TypeOK, FutexTypeOK
<1>2. Suspension'
  BY DEF TypeOK, FutexTypeOK, Suspension
<1> QED  BY <1>1, <1>2

Waits == [Task -> [st : OpState, val : 0 .. mMaxCount,
                   mask : SUBSET (kAcquireMask \cup kReleaseMask)]]

\* What wakes make of the waits o: only sleepers are woken, and one at least.
Woken(o, p) ==
    /\ p \in Waits
    /\ \A u \in Task :
        \/ p[u] = o[u]
        \/ /\ u \in QueuedIn(o, CountOne) /\ p[u].st = "woken"
           /\ p[u].val = o[u].val /\ p[u].mask = o[u].mask
    /\ QueuedIn(o, CountOne) = {} \/ \E u \in QueuedIn(o, CountOne) : p[u].st = "woken"

LEMMA WokenIs ==
    ASSUME NEW o \in Waits, NEW p \in WokenOne(o, CountOne)
    PROVE  Woken(o, p)
<1>1. CASE QueuedIn(o, CountOne) = {}
  BY <1>1 DEF WokenOne, Woken
<1>2. CASE QueuedIn(o, CountOne) # {}
  <2>1. PICK u \in QueuedIn(o, CountOne) : p = [o EXCEPT ![u].st = "woken"]
    BY <1>2 DEF WokenOne
  <2>2. u \in Task
    BY DEF QueuedIn
  <2>3. p \in Waits
    BY <2>1, <2>2 DEF Waits
  <2>4. /\ p[u].st = "woken" /\ p[u].val = o[u].val /\ p[u].mask = o[u].mask
        /\ \A t \in Task \ {u} : p[t] = o[t]
    BY <2>1, <2>2 DEF Waits
  <2> QED  BY <2>2, <2>3, <2>4 DEF Woken
<1> QED  BY <1>1, <1>2

LEMMA WokenTwice ==
    ASSUME NEW o \in Waits, NEW p, Woken(o, p), NEW q, Woken(p, q)
    PROVE  Woken(o, q)
<1>1. \A t \in Task : t \in QueuedIn(p, CountOne)
                        => t \in QueuedIn(o, CountOne) /\ p[t] = o[t]
  BY DEF Woken, QueuedIn
<1>2. \A t \in Task : p[t].st = "woken" => q[t].st = "woken"
  BY DEF Woken, QueuedIn
<1>3. \A t \in Task :
        \/ q[t] = o[t]
        \/ /\ t \in QueuedIn(o, CountOne) /\ q[t].st = "woken"
           /\ q[t].val = o[t].val /\ q[t].mask = o[t].mask
  BY <1>1 DEF Woken
<1>4. QueuedIn(o, CountOne) \subseteq Task /\ q \in Waits
  BY DEF QueuedIn, Woken
<1> QED  BY <1>2, <1>3, <1>4 DEF Woken

\* A wake of one or of two, whichever mask the caller gave.
LEMMA Wakes ==
    ASSUME TypeOK, NEW mask, op' \in FutexNotify(op, mask)
    PROVE  Woken(op, op')
<1>1. op \in Waits
  BY DEF Waits, TypeOK, FutexTypeOK
<1>2. \/ op' \in WokenOne(op, CountOne)
      \/ \E p \in WokenOne(op, CountOne) : op' \in WokenOne(p, CountOne)
  BY DEF FutexNotify
<1>3. ASSUME NEW p \in WokenOne(op, CountOne), op' \in WokenOne(p, CountOne)
      PROVE  Woken(op, op')
  <2>1. Woken(op, p)
    BY <1>1, WokenIs
  <2>2. p \in Waits
    BY <2>1 DEF Woken
  <2>3. Woken(p, op')
    BY <1>3, <2>2, WokenIs
  <2> QED  BY <1>1, <2>1, <2>3, WokenTwice
<1> QED  BY <1>1, <1>2, <1>3, WokenIs

LEMMA NotifyBounds ==
    ASSUME TypeOK, Suspension, UNCHANGED loop, NEW t \in Task, Notify(t)
    PROVE  TypeOK' /\ Suspension'
<1> USE DEF Notify, Goto
<1>1. Woken(op, op')
  BY Wakes
<1>2. TypeOK'
  BY <1>1 DEF Woken, Waits, TypeOK, FutexTypeOK
<1>3. \A u \in Task : /\ op'[u].st = "none" <=> op[u].st = "none"
                      /\ op'[u].val = op[u].val /\ op'[u].mask = op[u].mask
  BY <1>1 DEF Woken, QueuedIn
<1>4. \A u \in Task : /\ pc'[u] \in {"cas", "again"} => pc[u] \in {"cas", "again"}
                      /\ pc'[u] = "waiting" <=> pc[u] = "waiting"
  BY DEF TypeOK
<1>5. UNCHANGED <<kind, count>>
  OBVIOUS
<1>6. Suspension'
  BY <1>3, <1>4, <1>5 DEF Suspension
<1> QED  BY <1>2, <1>6

LEMMA SubmitBounds ==
    ASSUME TypeOK, Suspension, UNCHANGED loop, NEW t \in Task, Submit(t)
    PROVE  TypeOK' /\ Suspension'
<1> USE DEF Submit, SubmitWait
<1>1. TypeOK'
  BY DEF TypeOK, FutexTypeOK
<1>2. Suspension'
  BY DEF TypeOK, FutexTypeOK, Suspension
<1> QED  BY <1>1, <1>2

LEMMA ResumeBounds ==
    ASSUME TypeOK, Suspension, UNCHANGED loop, NEW t \in Task, Resume(t)
    PROVE  TypeOK' /\ Suspension'
<1> USE DEF Resume, Reap, Goto
<1>1. NoOp \in [st : OpState, val : 0 .. mMaxCount,
                mask : SUBSET (kAcquireMask \cup kReleaseMask)]
  OBVIOUS
<1>2. TypeOK'
  BY <1>1 DEF TypeOK, FutexTypeOK
<1>3. Suspension'
  BY DEF TypeOK, FutexTypeOK, Suspension
<1> QED  BY <1>2, <1>3

LEMMA CancelBounds ==
    ASSUME TypeOK, Suspension, UNCHANGED loop, NEW t \in Task, Cancel(t)
    PROVE  TypeOK' /\ Suspension'
<1> USE DEF Cancel, PrepCancel
<1>1. TypeOK'
  BY DEF TypeOK, FutexTypeOK
<1>2. Suspension'
  BY DEF TypeOK, FutexTypeOK, Suspension
<1> QED  BY <1>1, <1>2

LEMMA AbortBounds ==
    ASSUME TypeOK, Suspension, UNCHANGED loop, NEW t \in Task, Abort(t)
    PROVE  TypeOK' /\ Suspension'
<1> USE DEF Abort, SubmitCancel
<1>1. CASE op[t].st = "queued"
  <2>1. TypeOK'
    BY <1>1 DEF TypeOK, FutexTypeOK
  <2>2. Suspension'
    BY <1>1 DEF TypeOK, FutexTypeOK, Suspension
  <2> QED  BY <2>1, <2>2
<1>2. CASE op[t].st # "queued"
  <2>1. TypeOK'
    BY <1>2 DEF TypeOK, FutexTypeOK
  <2>2. Suspension'
    BY <1>2 DEF TypeOK, FutexTypeOK, Suspension
  <2> QED  BY <2>1, <2>2
<1> QED  BY <1>1, <1>2

LEMMA BoundsStep ==
    ASSUME TypeOK, Suspension, [Next]_vars
    PROVE  TypeOK' /\ Suspension'
<1>1. CASE UNCHANGED vars
  <2>1. TypeOK'
    BY <1>1 DEF vars, futexVars, TypeOK, FutexTypeOK
  <2>2. Suspension'
    BY <1>1 DEF vars, futexVars, Suspension
  <2> QED  BY <2>1, <2>2
<1>2. CASE Next
  BY <1>2, CallBounds, LoadBounds, ExchangeOkBounds, ExchangeFailsBounds,
     NotifyBounds, SubmitBounds, ResumeBounds, CancelBounds, AbortBounds DEF Next
<1> QED  BY <1>1, <1>2

-----------------------------------------------------------------------------
(* On one loop, while no exchange fails by chance.                          *)

\* A task that takes its turn, or has it, is the only running one.
LEMMA TurnIsExclusive ==
    ASSUME Together, CopyIsCurrent, NEW t \in Task, pc[t] \in Busy \/ HasLoop(t),
           NEW u \in Task \ {t}
    PROVE  pc[u] \notin Busy
BY DEF Together, CopyIsCurrent, HasLoop

\* A step of the running task t leaves the others out of Busy.
LEMMA StillExclusive ==
    ASSUME TypeOK, Together, CopyIsCurrent, UNCHANGED loop, NEW t \in Task,
           pc[t] \in Busy \/ HasLoop(t), NEW l, Goto(t, l)
    PROVE  \A u \in Task : /\ u # t => pc'[u] = pc[u] /\ pc'[u] \notin Busy
                           /\ pc'[u] \in Busy => HasLoop(u)'
<1>1. \A u \in Task \ {t} : pc'[u] = pc[u] /\ pc'[u] \notin Busy
  BY TurnIsExclusive DEF Goto, TypeOK
<1>2. HasLoop(t)'
  BY <1>1 DEF HasLoop
<1> QED  BY <1>1, <1>2

LEMMA RunnerCopy ==
    ASSUME TypeOK, Together, CopyIsCurrent, UNCHANGED loop, NEW t \in Task,
           pc[t] \in Busy \/ HasLoop(t), NEW l, Goto(t, l),
           l = "cas" => mFutex' = count'[t],
           l = "again" => mFutex' = count'[t] + Delta(kind'[t]) /\ balance' = count'[t],
           l # "again" => mFutex' = balance'
    PROVE  CopyIsCurrent' /\ Conservation'
<1>1. pc'[t] = l
  BY DEF Goto, TypeOK
<1>2. CopyIsCurrent'
  BY StillExclusive, <1>1 DEF CopyIsCurrent
<1>3. Conservation'
  BY <1>1 DEF Conservation
<1> QED  BY <1>2, <1>3

LEMMA CopyStep ==
    ASSUME TypeOK, Suspension, Together, ~chance', CopyIsCurrent, Conservation,
           [Next]_vars
    PROVE  CopyIsCurrent' /\ Conservation'
<1>u. \A t \in Task : pc[t] \in Busy \/ HasLoop(t) =>
          \A u \in Task \ {t} : pc[u] \notin Busy
  BY TurnIsExclusive
<1>b. \A t \in Task : (HasLoop(t) \/ pc[t] \in {"load", "cas", "notify"}) =>
          (pc[t] # "again" => mFutex = balance)
  BY <1>u DEF Conservation
<1>1. CASE UNCHANGED vars
  BY <1>1 DEF vars, futexVars, CopyIsCurrent, Conservation, HasLoop
<1>2. ASSUME NEW t \in Task, NEW k \in Kind, Call(t, k), UNCHANGED loop
      PROVE  CopyIsCurrent' /\ Conservation'
  BY <1>2, <1>b, RunnerCopy DEF Call, futexVars
<1>3. ASSUME NEW t \in Task, LoadCounter(t), UNCHANGED loop
      PROVE  CopyIsCurrent' /\ Conservation'
  <2>1. mFutex' = mFutex /\ balance' = balance /\ count'[t] = mFutex
    BY <1>3 DEF LoadCounter, TypeOK
  <2>2. Goto(t, "waiting") \/ Goto(t, "cas")
    BY <1>3 DEF LoadCounter
  <2>3. pc[t] = "load"
    BY <1>3 DEF LoadCounter
  <2> QED  BY <1>3, <1>b, <2>1, <2>2, <2>3, RunnerCopy
<1>4. ASSUME NEW t \in Task, ExchangeOk(t), UNCHANGED loop
      PROVE  CopyIsCurrent' /\ Conservation'
  <2>1. count[t] \in Int /\ Delta(kind[t]) \in {1, -1}
    BY DEF TypeOK
  <2>2. pc[t] = "cas" /\ mFutex = count[t]
    BY <1>4, <2>1 DEF ExchangeOk, CopyIsCurrent
  <2>3. /\ mFutex' = count'[t] + Delta(kind'[t])
        /\ balance' = count'[t]
        /\ Goto(t, "again")
    BY <1>4, <2>2, <1>b DEF ExchangeOk
  <2> QED  BY <1>4, <2>2, <2>3, RunnerCopy
<1>5. ASSUME NEW t \in Task, ExchangeFails(t), UNCHANGED loop
      PROVE  CopyIsCurrent' /\ Conservation'
  <2>1. pc[t] = "again" /\ mFutex' = balance' /\ Goto(t, "notify")
    BY <1>5 DEF ExchangeFails, CopyIsCurrent, futexVars
  <2> QED  BY <1>5, <2>1, RunnerCopy
<1>6. ASSUME NEW t \in Task, Notify(t), UNCHANGED loop
      PROVE  CopyIsCurrent' /\ Conservation'
  BY <1>6, <1>b, RunnerCopy DEF Notify
<1>7. ASSUME NEW t \in Task, Resume(t), UNCHANGED loop
      PROVE  CopyIsCurrent' /\ Conservation'
  <2>1. mFutex' = mFutex /\ balance' = balance
    BY <1>7 DEF Resume, Reap
  <2>2. Goto(t, "out") \/ Goto(t, "load")
    BY <1>7 DEF Resume
  <2>3. HasLoop(t) /\ pc[t] = "waiting"
    BY <1>7 DEF Resume
  <2> QED  BY <1>7, <1>b, <2>1, <2>2, <2>3, RunnerCopy
<1>8. ASSUME NEW t \in Task, Submit(t) \/ Cancel(t) \/ Abort(t), UNCHANGED loop
      PROVE  CopyIsCurrent' /\ Conservation'
  <2>1. UNCHANGED <<pc, mFutex, kind, count, balance>>
    BY <1>8 DEF Submit, SubmitWait, Cancel, PrepCancel, Abort, SubmitCancel
  <2> QED  BY <1>8, <2>1 DEF CopyIsCurrent, Conservation, HasLoop
<1> QED
  BY <1>1, <1>2, <1>3, <1>4, <1>5, <1>6, <1>7, <1>8 DEF Next

-----------------------------------------------------------------------------
(* No wake is lost.                                                         *)

\* The sets that the bounds count are finite.
LEMMA ReliefFinite ==
    ASSUME IsFiniteSet(Task)
    PROVE  IsFiniteSet(Relief) /\ Relief \subseteq Task
<1>1. Relief \subseteq Task
  BY DEF Relief, Coming, Notifying
<1> QED  BY <1>1, FS_Subset

LEMMA ReliefFiniteNext ==
    ASSUME IsFiniteSet(Task)
    PROVE  IsFiniteSet(Relief') /\ Relief' \subseteq Task
<1>1. Relief' \subseteq Task
  BY DEF Relief, Coming, Notifying
<1> QED  BY <1>1, FS_Subset

\* Counting A against B, which keeps it, loses t, gains u, or trades them.
LEMMA Count ==
    ASSUME NEW A, NEW B, IsFiniteSet(A), IsFiniteSet(B)
    PROVE  /\ A \subseteq B => Cardinality(A) <= Cardinality(B)
           /\ \A t : A \ {t} \subseteq B => Cardinality(A) - 1 <= Cardinality(B)
           /\ \A u : A \subseteq B /\ u \in B \ A => Cardinality(A) + 1 <= Cardinality(B)
           /\ \A t, u : A \ {t} \subseteq B /\ u \in B \ A
                        => Cardinality(A) <= Cardinality(B)
<1>1. Cardinality(A) \in Nat /\ Cardinality(B) \in Nat
  BY FS_CardinalityType
<1>2. ASSUME NEW C, C \subseteq B PROVE Cardinality(C) <= Cardinality(B)
  BY <1>2, FS_Subset
<1>3. ASSUME NEW C, NEW t, IsFiniteSet(C)
      PROVE  IsFiniteSet(C \ {t}) /\ Cardinality(C) - 1 <= Cardinality(C \ {t})
  <2>1. Cardinality(C) \in Nat
    BY <1>3, FS_CardinalityType
  <2>2. /\ IsFiniteSet(C \ {t})
        /\ Cardinality(C \ {t}) = IF t \in C THEN Cardinality(C) - 1
                                             ELSE Cardinality(C)
    BY <1>3, FS_RemoveElement
  <2> QED  BY <2>1, <2>2
<1>4. ASSUME NEW C, NEW u, IsFiniteSet(C), u \notin C
      PROVE  Cardinality(C \cup {u}) = Cardinality(C) + 1
  BY <1>4, FS_AddElement
<1>5. ASSUME NEW t, A \ {t} \subseteq B PROVE Cardinality(A) - 1 <= Cardinality(B)
  <2>1. Cardinality(A \ {t}) <= Cardinality(B) /\ Cardinality(A \ {t}) \in Nat
    BY <1>2, <1>3, <1>5, FS_CardinalityType
  <2>2. Cardinality(A) - 1 <= Cardinality(A \ {t})
    BY <1>3
  <2> QED  BY <1>1, <2>1, <2>2
<1>6. ASSUME NEW u, A \subseteq B, u \in B \ A
      PROVE  Cardinality(A) + 1 <= Cardinality(B)
  <2>1. A \cup {u} \subseteq B
    BY <1>6
  <2>2. Cardinality(A \cup {u}) <= Cardinality(B)
    BY <1>2, <2>1
  <2> QED  BY <1>4, <1>6, <2>2
<1>7. ASSUME NEW t, NEW u, A \ {t} \subseteq B, u \in B \ A
      PROVE  Cardinality(A) <= Cardinality(B)
  <2>1. (A \ {t}) \cup {u} \subseteq B /\ u \notin A \ {t}
    BY <1>7
  <2>2. Cardinality((A \ {t}) \cup {u}) <= Cardinality(B)
    BY <1>2, <2>1
  <2>3. Cardinality((A \ {t}) \cup {u}) = Cardinality(A \ {t}) + 1
    BY <1>3, <1>4, <2>1
  <2>4. Cardinality(A \ {t}) \in Nat /\ Cardinality(A) - 1 <= Cardinality(A \ {t})
    BY <1>3, FS_CardinalityType
  <2> QED  BY <1>1, <2>2, <2>3, <2>4
<1> QED  BY <1>2, <1>5, <1>6, <1>7

\* The steps that move neither the counter nor a duty.
LEMMA CoveredKept ==
    ASSUME IsFiniteSet(Task), Covered, mFutex' = mFutex,
           Queued(kAcquireMask)' \subseteq Queued(kAcquireMask),
           Relief \subseteq Relief', TypeOK
    PROVE  Covered'
<1>1. Cardinality(Relief) <= Cardinality(Relief')
  BY Count, ReliefFinite, ReliefFiniteNext
<1>2. Cardinality(Relief) \in Nat /\ Cardinality(Relief') \in Nat
  BY FS_CardinalityType, ReliefFinite, ReliefFiniteNext
<1>3. mFutex \in Int
  BY DEF TypeOK, FutexTypeOK
<1>4. Cardinality(Relief)' = Cardinality(Relief')
  OBVIOUS
<1> QED  BY <1>1, <1>2, <1>3, <1>4 DEF Covered

\* The steps that change the number of free places, or hand a wake over.
LEMMA CoveredCounted ==
    ASSUME IsFiniteSet(Task), TypeOK,
           Queued(kAcquireMask)' # {} =>
               mFutex' - Cardinality(Relief') <= mFutex - Cardinality(Relief),
           Queued(kAcquireMask)' \subseteq Queued(kAcquireMask), Covered, TypeOK'
    PROVE  Covered'
<1>1. Cardinality(Relief) \in Nat /\ Cardinality(Relief') \in Nat
  BY FS_CardinalityType, ReliefFinite, ReliefFiniteNext
<1>2. mFutex \in Int /\ mFutex' \in Int
  BY DEF TypeOK, FutexTypeOK
<1>3. Cardinality(Relief)' = Cardinality(Relief')
  OBVIOUS
<1> QED  BY <1>1, <1>2, <1>3 DEF Covered

\* An empty semaphore leaves nothing to come for.
LEMMA CoveredAtZero ==
    ASSUME IsFiniteSet(Task), mFutex' = 0
    PROVE  Covered'
<1>1. Cardinality(Relief') \in Nat
  BY FS_CardinalityType, ReliefFiniteNext
<1>2. Cardinality(Relief)' = Cardinality(Relief')
  OBVIOUS
<1> QED  BY <1>1, <1>2 DEF Covered

\* A wait at the limit is queued by the kernel only while the limit holds.
LEMMA SubmitCovered ==
    ASSUME IsFiniteSet(Task), TypeOK, Suspension, Covered, NEW t \in Task, Submit(t)
    PROVE  Covered'
<1> USE DEF Submit, SubmitWait, Queued, QueuedIn, TypeOK, FutexTypeOK
<1>1. mFutex' = mFutex /\ UNCHANGED <<pc, kind>>
  OBVIOUS
<1>2. Relief \subseteq Relief'
  BY DEF Relief, Coming, Notifying
<1>3. CASE mFutex = op[t].val /\ kind[t] = "acquire"
  <2>1. mFutex' = 0
    BY <1>3 DEF Suspension
  <2> QED  BY <2>1, CoveredAtZero
<1>4. CASE ~(mFutex = op[t].val /\ kind[t] = "acquire")
  <2>1. kind[t] # "acquire" => op[t].mask \cap kAcquireMask = {}
    BY DEF Suspension
  <2>2. Queued(kAcquireMask)' \subseteq Queued(kAcquireMask)
    BY <1>4, <2>1
  <2> QED  BY <1>1, <1>2, <2>2, CoveredKept
<1> QED  BY <1>3, <1>4

\* An acquire takes one place and leaves; a release makes one and will notify.
LEMMA ExchangeCovered ==
    ASSUME IsFiniteSet(Task), TypeOK, TypeOK', CopyIsCurrent, Suspension,
           Covered, NEW t \in Task, ExchangeOk(t)
    PROVE  Covered'
<1> USE DEF ExchangeOk, Goto
<1>1. pc[t] = "cas" /\ mFutex \in Int /\ kind[t] \in Kind
  BY DEF CopyIsCurrent, TypeOK, FutexTypeOK
<1>2. Queued(kAcquireMask)' \subseteq Queued(kAcquireMask)
  BY DEF Queued, QueuedIn
<1>3. UNCHANGED <<op, kind>> /\ pc' = [pc EXCEPT ![t] = "again"]
  OBVIOUS
<1>4. mFutex' - Cardinality(Relief') <= mFutex - Cardinality(Relief)
  <2>0. Cardinality(Relief) \in Nat /\ Cardinality(Relief') \in Nat
    BY FS_CardinalityType, ReliefFinite, ReliefFiniteNext
  <2>1. CASE kind[t] = "acquire"
    <3>1. Relief \ {t} \subseteq Relief'
      BY <1>3 DEF Relief, Coming, Notifying, TypeOK
    <3>2. mFutex' = mFutex - 1 /\ mFutex \in Int
      BY <1>1, <2>1
    <3>3. Cardinality(Relief) - 1 <= Cardinality(Relief')
      BY <3>1, Count, ReliefFinite, ReliefFiniteNext
    <3> QED  BY <2>0, <3>2, <3>3
  <2>2. CASE kind[t] # "acquire"
    <3>1. kind[t] = "release"
      BY <1>1, <2>2
    <3>2. op[t].st = "none"
      BY <1>1 DEF Suspension
    <3>3. Relief \subseteq Relief' /\ t \in Relief' \ Relief
      BY <1>1, <1>3, <2>2, <3>1, <3>2 DEF Relief, Coming, Notifying, TypeOK
    <3>4. mFutex' = mFutex + 1 /\ mFutex \in Int
      BY <1>1, <3>1
    <3>5. Cardinality(Relief) + 1 <= Cardinality(Relief')
      BY <3>3, Count, ReliefFinite, ReliefFiniteNext
    <3> QED  BY <2>0, <3>4, <3>5
  <2> QED  BY <2>1, <2>2
<1> QED  BY <1>2, <1>4, CoveredCounted

\* An acquire that is woken takes over the duty of the release that wakes it.
LEMMA NotifyCovered ==
    ASSUME IsFiniteSet(Task), TypeOK, TypeOK', Suspension, Covered,
           NEW t \in Task, Notify(t)
    PROVE  Covered'
<1> USE DEF Notify, Goto
<1>1. UNCHANGED <<mFutex, kind>> /\ pc' = [pc EXCEPT ![t] = "out"]
  OBVIOUS
<1>2. kind[t] \in Kind /\ pc[t] = "notify" /\ op[t].st = "none"
  BY DEF TypeOK, Suspension
<1>3. Woken(op, op')
  BY Wakes
<1>4. \A u \in Queued(kAcquireMask) : u \in Task /\ u # t /\ kind[u] = "acquire"
  BY <1>2 DEF Queued, QueuedIn, Suspension, TypeOK
<1>5. Queued(kAcquireMask)' \subseteq Queued(kAcquireMask)
  BY <1>3 DEF Woken, Queued, QueuedIn
<1>6. \A u \in Task : u # t /\ u \in Coming => u \in Coming'
  BY <1>1, <1>3 DEF Woken, QueuedIn, Coming, TypeOK
<1>7. Relief \ {t} \subseteq Relief'
  BY <1>1, <1>6 DEF Relief, Coming, Notifying, TypeOK
<1>8. CASE kind[t] = "acquire"
  <2>1. t \notin Relief
    BY <1>2, <1>8 DEF Relief, Coming, Notifying
  <2>2. Relief \subseteq Relief'
    BY <1>7, <2>1
  <2> QED  BY <1>1, <1>5, <2>2, CoveredKept
<1>9. CASE Queued(kAcquireMask) = {}
  BY <1>5, <1>9 DEF Covered
<1>10. CASE kind[t] = "release" /\ Queued(kAcquireMask) # {}
  <2>1. PICK u \in Queued(kAcquireMask) : op'[u].st = "woken"
    BY <1>3, <1>10 DEF Woken, Queued
  <2>2. u \in Relief' \ Relief
    <3>1. op[u].st = "queued" /\ u \in Task
      BY DEF Queued, QueuedIn
    <3>2. pc[u] = "waiting"
      BY <3>1 DEF Suspension, TypeOK
    <3> QED  BY <1>1, <1>4, <2>1, <3>1, <3>2 DEF Relief, Coming, Notifying
  <2>3. Cardinality(Relief) <= Cardinality(Relief')
    BY <1>7, <2>2, Count, ReliefFinite, ReliefFiniteNext
  <2>4. Cardinality(Relief) \in Nat /\ Cardinality(Relief') \in Nat
    BY FS_CardinalityType, ReliefFinite, ReliefFiniteNext
  <2>5. mFutex \in Int
    BY DEF TypeOK, FutexTypeOK
  <2>6. mFutex' - Cardinality(Relief') <= mFutex - Cardinality(Relief)
    BY <1>1, <2>3, <2>4, <2>5
  <2> QED  BY <1>5, <2>6, CoveredCounted
<1> QED  BY <1>2, <1>8, <1>9, <1>10

LEMMA LoadCovered ==
    ASSUME IsFiniteSet(Task), TypeOK, Suspension, Covered,
           NEW t \in Task, LoadCounter(t)
    PROVE  Covered'
<1> USE DEF LoadCounter, Goto
<1>1. UNCHANGED <<mFutex, kind>> /\ pc[t] = "load" /\ op[t].st = "none"
  BY DEF Suspension
<1>2. CASE mFutex = Limit(kind[t])
  <2>1. /\ op' = [op EXCEPT ![t] = WaitOp("prepared", mFutex, OwnMask(kind[t]))]
        /\ pc' = [pc EXCEPT ![t] = "waiting"]
    BY <1>2 DEF PrepWait
  <2>2. CASE kind[t] = "acquire"
    BY <1>1, <1>2, <2>2, CoveredAtZero
  <2>3. CASE kind[t] # "acquire"
    <3>1. Queued(kAcquireMask)' \subseteq Queued(kAcquireMask)
      BY <2>1 DEF Queued, QueuedIn, TypeOK, FutexTypeOK
    <3>2. Relief \subseteq Relief'
      BY <1>1, <2>1, <2>3 DEF Relief, Coming, Notifying, TypeOK, FutexTypeOK
    <3> QED  BY <1>1, <3>1, <3>2, CoveredKept
  <2> QED  BY <2>2, <2>3
<1>3. CASE mFutex # Limit(kind[t])
  <2>1. UNCHANGED op /\ pc' = [pc EXCEPT ![t] = "cas"]
    BY <1>3
  <2>2. Queued(kAcquireMask)' \subseteq Queued(kAcquireMask)
    BY <2>1 DEF Queued, QueuedIn
  <2>3. Relief \subseteq Relief'
    BY <1>1, <2>1 DEF Relief, Coming, Notifying, TypeOK
  <2> QED  BY <1>1, <2>2, <2>3, CoveredKept
<1> QED  BY <1>2, <1>3

\* The other steps leave the counter, and every duty where it is.
LEMMA OtherCovered ==
    ASSUME IsFiniteSet(Task), TypeOK, Suspension, CopyIsCurrent, ~chance',
           Covered, NEW t \in Task,
           \/ \E j \in Kind : Call(t, j)
           \/ ExchangeFails(t) \/ Resume(t) \/ Cancel(t) \/ Abort(t)
    PROVE  Covered'
<1> USE DEF Goto, Queued, QueuedIn, Relief, Coming, Notifying, TypeOK, FutexTypeOK
<1>1. CASE \E j \in Kind : Call(t, j)
  <2>1. PICK j \in Kind : Call(t, j)
    BY <1>1
  <2>2. op[t].st = "none" /\ pc[t] = "out"
    BY <2>1 DEF Call, Suspension
  <2>3. /\ UNCHANGED <<mFutex, op>>
        /\ pc' = [pc EXCEPT ![t] = "load"]
        /\ kind' = [kind EXCEPT ![t] = j]
    BY <2>1 DEF Call, futexVars
  <2>4. Queued(kAcquireMask)' \subseteq Queued(kAcquireMask)
    BY <2>3
  <2>5. Relief \subseteq Relief'
    BY <2>2, <2>3
  <2> QED  BY <2>3, <2>4, <2>5, CoveredKept
<1>2. CASE ExchangeFails(t)
  <2>1. pc[t] = "again" /\ UNCHANGED <<mFutex, op, kind>>
        /\ pc' = [pc EXCEPT ![t] = "notify"]
    BY <1>2 DEF ExchangeFails, CopyIsCurrent, futexVars
  <2>2. Queued(kAcquireMask)' \subseteq Queued(kAcquireMask)
    BY <2>1
  <2>3. Relief \subseteq Relief'
    BY <2>1
  <2> QED  BY <2>1, <2>2, <2>3, CoveredKept
<1>3. CASE Resume(t)
  <2>1. UNCHANGED <<mFutex, kind>> /\ op' = [op EXCEPT ![t] = NoOp]
        /\ pc[t] = "waiting" /\ op[t].st \in Done
        /\ pc' = [pc EXCEPT ![t] = IF op[t].st = "canceled" THEN "out" ELSE "load"]
    BY <1>3 DEF Resume, Reap
  <2>2. Queued(kAcquireMask)' \subseteq Queued(kAcquireMask)
    BY <2>1
  <2>3. Relief \subseteq Relief'
    BY <2>1
  <2> QED  BY <2>1, <2>2, <2>3, CoveredKept
<1>4. CASE Cancel(t) \/ Abort(t)
  <2>1. UNCHANGED <<mFutex, kind, pc>>
    BY <1>4 DEF Cancel, PrepCancel, Abort, SubmitCancel
  <2>2. CASE UNCHANGED op
    <3>1. Queued(kAcquireMask)' \subseteq Queued(kAcquireMask) /\ Relief \subseteq Relief'
      BY <2>1, <2>2
    <3> QED  BY <2>1, <3>1, CoveredKept
  <2>3. CASE op[t].st = "queued" /\ op' = [op EXCEPT ![t].st = "canceled"]
    <3>1. Queued(kAcquireMask)' \subseteq Queued(kAcquireMask)
      BY <2>3
    <3>2. Relief \subseteq Relief'
      BY <2>1, <2>3
    <3> QED  BY <2>1, <3>1, <3>2, CoveredKept
  <2> QED  BY <1>4, <2>2, <2>3 DEF Cancel, PrepCancel, Abort, SubmitCancel
<1> QED  BY <1>1, <1>2, <1>3, <1>4

LEMMA CoveredStep ==
    ASSUME IsFiniteSet(Task), TypeOK, Suspension, CopyIsCurrent, ~chance',
           Covered, [Next]_vars
    PROVE  Covered'
<1>1. TypeOK'
  BY BoundsStep
<1>2. CASE UNCHANGED vars
  <2>1. UNCHANGED <<mFutex, op, pc, kind>>
    BY <1>2 DEF vars, futexVars
  <2>2. Queued(kAcquireMask)' \subseteq Queued(kAcquireMask)
    BY <2>1 DEF Queued, QueuedIn
  <2>3. Relief \subseteq Relief'
    BY <2>1 DEF Relief, Coming, Notifying
  <2> QED  BY <2>1, <2>2, <2>3, CoveredKept
<1>3. CASE Next
  BY <1>1, <1>3, LoadCovered, ExchangeCovered, NotifyCovered, SubmitCovered,
     OtherCovered DEF Next
<1> QED  BY <1>2, <1>3

-----------------------------------------------------------------------------
\* What has happened by chance stays recorded.
LEMMA AloneBefore ==
    ASSUME TypeOK, [Next]_vars, Alone'
    PROVE  Alone /\ Together /\ ~chance'
<1>1. Together /\ ~chance'
  BY DEF Alone, Together, Next, vars
<1>2. chance' = chance \/ (\E t \in Task : ExchangeFails(t))
  BY DEF Next, vars, Call, LoadCounter, ExchangeOk, Notify, Submit, Resume,
         Cancel, Abort
<1>3. (\E t \in Task : ExchangeFails(t)) => ~chance
  BY <1>1 DEF ExchangeFails
<1> QED  BY <1>1, <1>2, <1>3 DEF Alone

LEMMA StepInv == IsFiniteSet(Task) /\ IInv /\ [Next]_vars => IInv'
<1> SUFFICES ASSUME IsFiniteSet(Task), IInv, [Next]_vars PROVE IInv'
  OBVIOUS
<1>1. TypeOK' /\ Suspension'
  BY BoundsStep DEF IInv
<1>2. ASSUME Alone' PROVE Alone /\ Together /\ ~chance'
  BY <1>2, AloneBefore DEF IInv
<1>3. ASSUME Alone' PROVE CopyIsCurrent' /\ Conservation'
  BY <1>2, <1>3, CopyStep DEF IInv
<1>4. ASSUME Alone' PROVE Covered'
  BY <1>2, <1>4, CoveredStep DEF IInv, NoLostAcquire
<1> QED
  BY <1>1, <1>3, <1>4 DEF IInv, NoLostAcquire

(* For finitely many coroutines, every placement and every capacity: the    *)
(* counter stays in 0..mMaxCount although its limit is tested on a copy,    *)
(* and on one loop, until an exchange fails by chance, the copy is current. *)
THEOREM Invariant == IsFiniteSet(Task) /\ Spec => []IInv
<1> SUFFICES ASSUME IsFiniteSet(Task) PROVE Spec => []IInv
  OBVIOUS
<1>1. IInv /\ [Next]_vars => IInv'
  BY StepInv
<1> QED  BY InitInv, <1>1, PTL DEF Spec

(* On one loop, until an exchange fails by chance, the inverted exchange    *)
(* loops change the counter exactly once per call.                          *)
THEOREM CounterCounts == IsFiniteSet(Task) /\ Spec => []ConservedOnOneLoop
<1>1. IInv => ConservedOnOneLoop
  BY DEF IInv, ConservedOnOneLoop
<1> QED  BY Invariant, <1>1, PTL

(* On one loop, until an exchange fails by chance, no acquire sleeps beside *)
(* a resource that nobody comes for: a release wakes an acquire, although   *)
(* the kernel reads its count as the mask.                                  *)
THEOREM AcquirersServed == IsFiniteSet(Task) /\ Spec => []NoLostAcquire
<1>1. IInv => NoLostAcquire
  BY DEF IInv
<1> QED  BY Invariant, <1>1, PTL
=============================================================================
