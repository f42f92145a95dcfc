----------------------------- MODULE Semaphore -----------------------------
(***************************************************************************)
(* Semaphore (generic/semaphore.hpp): the counter is the futex word;       *)
(* acquire waits while it is 0 and release while it is mMaxCount.  Both    *)
(* end with do ... while (compare_exchange_weak(...)): the loop goes round *)
(* when the exchange SUCCEEDS and is left when it fails, which a weak one  *)
(* may also do by chance.  The coroutines of one event loop run one at a   *)
(* time; loops interleave freely.                                          *)
(***************************************************************************)
EXTENDS Futex, Integers, FiniteSets

CONSTANTS Placements,      \* the ways to place the tasks on event loops
          mMaxCount, initialCount,
          Quota            \* bound: calls per task

ASSUME SemaphoreAssumption ==
    /\ mMaxCount \in Nat \ {0}
    /\ initialCount \in 0 .. mMaxCount
    /\ Quota \in Nat

VARIABLES loop,            \* loop[t]: the event loop of t
          pc,              \* pc[t]: where t is in acquire or release
          kind,            \* kind[t]: which of the two
          count,           \* count[t]: the local variable count
          left,            \* left[t]: calls t may still make
          balance,         \* history: initialCount + releases - acquires that
                           \* have left their loops
          chance           \* history: the first exchange of some call failed
                           \* although the counter was the expected one

history == <<balance, chance>>
vars == <<loop, futexVars, pc, kind, count, left, history>>

\* out: no call; load: about to read mCounter; cas: before the exchange;
\* again: before the exchange that follows a successful one;
\* waiting: suspended in futex_wait; notify: before futex_notify.
Busy == {"load", "cas", "again", "notify"}

kAcquireMask == {0}
kReleaseMask == {1}
Kind == {"acquire", "release"}

Limit(k)    == IF k = "acquire" THEN 0 ELSE mMaxCount
Delta(k)    == IF k = "acquire" THEN -1 ELSE 1
OwnMask(k)  == IF k = "acquire" THEN kAcquireMask ELSE kReleaseMask
PeerMask(k) == IF k = "acquire" THEN kReleaseMask ELSE kAcquireMask

(* The counter never leaves 0..mMaxCount, although the limit is tested on a *)
(* copy and other loops exchange in between (semaphore.hpp:32-58).          *)
TypeOK ==
    /\ loop \in Placements
    /\ FutexTypeOK(0 .. mMaxCount, kAcquireMask \cup kReleaseMask)
    /\ pc \in [Task -> Busy \cup {"out", "waiting"}]
    /\ kind \in [Task -> Kind]
    /\ count \in [Task -> 0 .. mMaxCount]
    /\ left \in [Task -> 0 .. Quota]
    /\ balance \in Int
    /\ chance \in BOOLEAN

Init ==
    /\ loop \in Placements
    /\ FutexInit(initialCount)
    /\ pc = [t \in Task |-> "out"]
    /\ kind = [t \in Task |-> "acquire"]
    /\ count = [t \in Task |-> 0]
    /\ left = [t \in Task |-> Quota]
    /\ balance = initialCount
    /\ chance = FALSE

\* A running coroutine keeps its loop to itself until it suspends or returns.
HasLoop(t) == \A u \in Task \ {t} : loop[u] = loop[t] => pc[u] \notin Busy

Goto(t, l) == pc' = [pc EXCEPT ![t] = l]

-----------------------------------------------------------------------------
(* Slips the properties must notice; no specification uses them.            *)
ResumeWithOldCount(t) ==   \* does not read the counter after a wait
    /\ pc[t] = "waiting" /\ HasLoop(t)
    /\ Reap(t)
    /\ Goto(t, IF op[t].st = "canceled" THEN "out" ELSE "cas")
    /\ UNCHANGED <<mFutex, kind, count, left, history>>

LoadWithoutLimit(t) ==     \* does not wait at the limit
    /\ pc[t] = "load"
    /\ count' = [count EXCEPT ![t] = mFutex]
    /\ Goto(t, "cas")
    /\ UNCHANGED <<futexVars, kind, left, history>>

NotifyFirstOnly(t) ==      \* wakes only when the counter leaves a limit
    /\ pc[t] = "notify"
    /\ op' \in IF count[t] = (IF kind[t] = "acquire" THEN mMaxCount ELSE 0)
               THEN FutexNotify(op, PeerMask(kind[t])) ELSE {op}
    /\ Goto(t, "out")
    /\ UNCHANGED <<mFutex, cancelSqe, kind, count, left, history>>

-----------------------------------------------------------------------------
Call(t, k) ==
    /\ pc[t] = "out" /\ HasLoop(t)
    /\ left[t] > 0
    /\ left' = [left EXCEPT ![t] = @ - 1]
    /\ kind' = [kind EXCEPT ![t] = k]
    /\ Goto(t, "load")
    /\ UNCHANGED <<futexVars, count, history>>

(* The load, and the wait if the counter is at the limit of this operation. *)
LoadCounter(t) ==
    /\ pc[t] = "load"
    /\ count' = [count EXCEPT ![t] = mFutex]
    /\ IF mFutex = Limit(kind[t])
       THEN /\ Goto(t, "waiting")
            /\ PrepWait(t, mFutex, OwnMask(kind[t]))
       ELSE Goto(t, "cas") /\ UNCHANGED <<op, cancelSqe>>
    /\ UNCHANGED <<mFutex, kind, left, history>>

\* The loop goes round after a successful exchange, with count as it was.
ExchangeOk(t) ==
    /\ pc[t] \in {"cas", "again"}
    /\ mFutex = count[t]
    /\ mFutex' = mFutex + Delta(kind[t])
    /\ Goto(t, "again")
    /\ UNCHANGED <<op, cancelSqe, kind, count, left, history>>

\* It is left after a failed one, which a weak exchange may be by chance;
\* nothing was exchanged in this round.
ExchangeFails(t) ==
    /\ pc[t] \in {"cas", "again"}
    /\ \/ mFutex # count[t] /\ UNCHANGED chance
       \/ mFutex = count[t] /\ chance' = (chance \/ pc[t] = "cas")
    /\ balance' = balance + Delta(kind[t])
    /\ Goto(t, "notify")
    /\ UNCHANGED <<futexVars, kind, count, left>>

(* futex_notify with the mask of the other kind: as the kernel reads it, a  *)
(* release wakes one acquire and an acquire two; neither wakes a release.   *)
Notify(t) ==
    /\ pc[t] = "notify"
    /\ op' \in FutexNotify(op, PeerMask(kind[t]))
    /\ Goto(t, "out")
    /\ UNCHANGED <<mFutex, cancelSqe, kind, count, left, history>>

Submit(t) == SubmitWait(t) /\ UNCHANGED <<pc, kind, count, left, history>>

(* futex_wait is over: an error is returned, otherwise the counter is read  *)
(* again.                                                                   *)
Resume(t) ==
    /\ pc[t] = "waiting" /\ HasLoop(t)
    /\ Reap(t)
    /\ Goto(t, IF op[t].st = "canceled" THEN "out" ELSE "load")
    /\ UNCHANGED <<mFutex, kind, count, left, history>>

Cancel(t) ==
    /\ pc[t] = "waiting"
    /\ PrepCancel(t)
    /\ UNCHANGED <<pc, kind, count, left, history>>

Abort(t) == SubmitCancel(t) /\ UNCHANGED <<pc, kind, count, left, history>>

Next ==
    /\ \E t \in Task :
        \/ \E k \in Kind : Call(t, k)
        \/ LoadCounter(t) \/ ExchangeOk(t) \/ ExchangeFails(t) \/ Notify(t)
        \/ Submit(t) \/ Resume(t) \/ Cancel(t) \/ Abort(t)
    /\ UNCHANGED loop

Spec == Init /\ [][Next]_vars
-----------------------------------------------------------------------------
\* mCounter is what its comment says, the "Current available resource count":
\* the initial one plus the releases minus the acquires, except while some
\* operation is between its exchange and the end of its loop.
Conservation == (\A t \in Task : pc[t] # "again") => mFutex = balance

\* All users are coroutines of one event loop and no exchange failed by chance.
Together == \A t, u \in Task : loop[t] = loop[u]
Alone == Together /\ ~chance

(* The counter counts on one event loop, up to the first exchange that      *)
(* fails by chance: the first round of the inverted loop succeeds there and *)
(* the second one fails.  A first round that fails leaves an operation that *)
(* reports success and has changed nothing, on one loop or on several.      *)
ConservedOnOneLoop == Alone => Conservation

\* The acquires on their way to an exchange, and the releases on their way
\* from one to futex_notify.
Coming == {t \in Task : /\ kind[t] = "acquire"
                        /\ \/ pc[t] \in {"load", "cas"}
                           \/ op[t].st \in {"woken", "again"}}
Notifying == {t \in Task : kind[t] = "release" /\ pc[t] \in {"again", "notify"}}
Relief == Coming \cup Notifying

Covered == Queued(kAcquireMask) # {} => mFutex <= Cardinality(Relief)

(* While an acquire sleeps, every free resource has somebody who comes for  *)
(* it or whose wake is still to be sent: futex_notify wakes one of many,    *)
(* and a barging call may come first.  A woken acquire whose exchange fails *)
(* takes nothing and nobody comes in its place, hence Alone.  Nothing of    *)
(* the kind holds for releases, which no wake reaches.                      *)
NoLostAcquire == Alone => Covered

\* A task has a wait exactly while it is suspended, on the limit of its kind,
\* and the copy that it carries to the exchange is never that limit.
Suspension ==
    \A t \in Task :
        /\ pc[t] = "waiting" <=> op[t].st # "none"
        /\ pc[t] = "waiting" => /\ op[t].val = Limit(kind[t])
                                /\ op[t].mask = OwnMask(kind[t])
        /\ pc[t] \in {"cas", "again"} => count[t] # Limit(kind[t])

\* On one loop the copy is current: only the exchange itself has moved the
\* counter past it, so that the second round fails.
CopyIsCurrent ==
    \A t \in Task :
        /\ pc[t] \in Busy => HasLoop(t)
        /\ pc[t] = "cas" => mFutex = count[t]
        /\ pc[t] = "again" => mFutex = count[t] + Delta(kind[t])
        /\ pc[t] = "again" => balance = count[t]

(* The inductive invariant: everywhere the bounds of the counter, and on    *)
(* one loop what makes the inverted loops harmless, chance aside.           *)
IInv ==
    /\ TypeOK /\ Suspension
    /\ Alone => CopyIsCurrent /\ Conservation
    /\ NoLostAcquire
=============================================================================
