------------------------------ MODULE WhenAny ------------------------------
(***************************************************************************)
(* when_any (when_any.hpp) on top of when_all and of the cancellation tree *)
(* (cancel.hpp): the branches are started one after the other, the first   *)
(* that finishes cancels the others through the CancelSource they are      *)
(* bound to, and the caller resumes when all of them have returned.  An    *)
(* operation is cancelled by a second io_uring entry that names it.        *)
(***************************************************************************)
EXTENDS Integers, FiniteSets

CONSTANT N                 \* the number of branches

ASSUME WhenAnyAssumption == N \in Nat \ {0}

Branch == 1 .. N
Parent == 0                \* not a branch: the canceller outside

VARIABLES kind,            \* kind[b]: how branch b suspends
          turn,            \* the branch that WhenAllAwaiter starts next
          st,              \* st[b]: new, pending, cancelling or done
          mCancellers,     \* the branches registered with the source
          mCanceled,
          asked,           \* cancel entries that doCancel waits for
          mCount,
          result,          \* the branch whose value is in result, or 0
          first,           \* history: the first to finish uncancelled, or 0
          parent,          \* the parent source has been cancelled
          caller,          \* waiting, value or threw
          sq, kernel, cq   \* entries: prepared, taken (by branch), completed

source == <<mCancellers, mCanceled, asked, first, parent>>
tasks  == <<st, mCount, result, caller>>
uring  == <<sq, kernel, cq>>
vars   == <<kind, turn, source, tasks, uring>>

\* now: returns without suspending; io: an operation under cancelGuard;
\* timer: co_sleep; never: co_forever.
Kind  == {"now", "io", "timer", "never"}
Entry == [op : {"branch", "cancel"}, at : Branch]
Op(b) == [op |-> "branch", at |-> b]
CancelOf(b) == [op |-> "cancel", at |-> b]

\* The branches that have not returned.
Live == {b \in Branch : st[b] # "done"}

TypeOK ==
    /\ kind \in [Branch -> Kind]
    /\ turn \in 1 .. N + 1
    /\ st \in [Branch -> {"new", "pending", "cancelling", "done"}]
    /\ mCancellers \subseteq Branch /\ asked \subseteq Branch
    /\ mCanceled \in BOOLEAN /\ parent \in BOOLEAN
    /\ mCount = Cardinality(Live)
    /\ result \in 0 .. N /\ first \in 0 .. N
    /\ caller \in {"waiting", "value", "threw"}
    /\ sq \subseteq Entry /\ cq \subseteq Entry
    /\ kernel \in [Branch -> {"none", "branch", "finishing"}]

Init ==
    /\ kind \in [Branch -> Kind]
    /\ turn = 1
    /\ st = [b \in Branch |-> "new"]
    /\ mCancellers = {} /\ mCanceled = FALSE /\ asked = {}
    /\ mCount = N /\ result = 0 /\ first = 0
    /\ parent = FALSE /\ caller = "waiting"
    /\ sq = {} /\ cq = {}
    /\ kernel = [b \in Branch |-> "none"]

-----------------------------------------------------------------------------
\* The branches of S return; the last one of all resumes the caller, which
\* takes result.value() and throws when there is none.
Return(S, res) ==
    /\ st' = [b \in Branch |-> IF b \in S THEN "done" ELSE st[b]]
    /\ mCount' = mCount - Cardinality(S)
    /\ result' = res
    /\ caller' = IF mCount' > 0 THEN "waiting"
                 ELSE IF res = 0 THEN "threw" ELSE "value"

\* The entries that the callbacks of cancelGuard prepare.
CancelEntries(S) == {CancelOf(b) : b \in S}

Ops == {b \in Branch : kind[b] = "io"}

(* Slips the properties must notice; no specification uses them.            *)
ToldOnlyTimers(b) == {c \in mCancellers : kind[c] = "timer"}

(* The cancellers that doCancel goes through: all but the caller's own,     *)
(* which died with the task of b.                                           *)
Told(b) == mCancellers \ {b}

(* Slips the properties must notice; no specification uses them.            *)
DoCancelDetached(w) ==     \* nobody waits for the cancel entries
    /\ mCanceled' = TRUE
    /\ asked' = {}
    /\ mCancellers' = {}
    /\ sq' = sq \cup CancelEntries(Told(w) \cap Ops)
    /\ IF w = Parent THEN Return(Told(w) \ Ops, result)
       ELSE Return((Told(w) \ Ops) \cup {w}, w)

(* CancelSourceImpl::doCancel, called by branch w after its own canceller   *)
(* is gone, or by the parent: timers and co_forever are resumed on the spot *)
(* and return; operations get a cancel entry, and doCancel waits for all.   *)
DoCancel(w) ==
    LET ios == Told(w) \cap Ops
        resumed == Told(w) \ Ops
    IN  /\ mCanceled' = TRUE
        /\ asked' = ios
        /\ mCancellers' = ios
        /\ sq' = sq \cup CancelEntries(ios)
        /\ IF w = Parent
           THEN Return(resumed, result)
           ELSE IF ios = {}
           THEN Return(resumed \cup {w}, w)
           ELSE /\ st' = [b \in Branch |-> IF b = w THEN "cancelling"
                                           ELSE IF b \in resumed THEN "done"
                                           ELSE st[b]]
                /\ mCount' = mCount - Cardinality(resumed)
                /\ UNCHANGED <<result, caller>>

(* Slips the properties must notice; no specification uses them.            *)
FinishedOverwrites(b) ==   \* the result is written before the test
    \/ /\ mCanceled
       /\ mCancellers' = mCancellers \ {b}
       /\ Return({b}, b)
       /\ UNCHANGED <<mCanceled, asked, first, sq>>
    \/ /\ ~mCanceled
       /\ first' = b
       /\ DoCancel(b)

FinishedByCount(b) ==      \* the loser is not counted down
    \/ /\ mCanceled
       /\ mCancellers' = mCancellers \ {b}
       /\ st' = [st EXCEPT ![b] = "done"]
       /\ UNCHANGED <<mCount, result, caller>>
       /\ UNCHANGED <<mCanceled, asked, first, sq>>
    \/ /\ ~mCanceled
       /\ first' = b
       /\ DoCancel(b)

(* The task of branch b has returned to its wrapper.                        *)
Finished(b) ==
    \/ /\ mCanceled
       /\ mCancellers' = mCancellers \ {b}
       /\ Return({b}, result)
       /\ UNCHANGED <<mCanceled, asked, first, sq>>
    \/ /\ ~mCanceled
       /\ first' = b
       /\ DoCancel(b)

-----------------------------------------------------------------------------
(* WhenAllAwaiter::await_suspend starts the branches without leaving the    *)
(* thread; a branch that suspends has registered its canceller.             *)
Start ==
    /\ turn <= N
    /\ turn' = turn + 1
    /\ IF kind[turn] = "now"
       THEN Finished(turn)
       ELSE /\ st' = [st EXCEPT ![turn] = "pending"]
            /\ mCancellers' = mCancellers \cup {turn}
            /\ sq' = IF turn \in Ops THEN sq \cup {Op(turn)} ELSE sq
            /\ UNCHANGED <<mCanceled, asked, first, mCount, result, caller>>
    /\ UNCHANGED <<kind, parent, kernel, cq>>

Waiting == turn > N /\ caller = "waiting"

(* The loop fires the timer of branch b.                                    *)
Expire(b) ==
    /\ Waiting /\ kind[b] = "timer" /\ st[b] = "pending"
    /\ Finished(b)
    /\ UNCHANGED <<kind, turn, parent, kernel, cq>>

(* The loop resumes branch b from the completion of its operation.          *)
Reap(b) ==
    /\ Waiting /\ Op(b) \in cq
    /\ cq' = cq \ {Op(b)}
    /\ Finished(b)
    /\ UNCHANGED <<kind, turn, parent, kernel>>

(* The loop resumes a callback of doCancel; the last one lets the branch    *)
(* that called it clear the list, store its value and return.               *)
ReapCancel(b) ==
    /\ turn > N /\ caller # "threw" /\ CancelOf(b) \in cq
    /\ cq' = cq \ {CancelOf(b)}
    /\ asked' = asked \ {b}
    /\ IF asked' # {} THEN UNCHANGED <<mCancellers, tasks>>
       ELSE /\ mCancellers' = {}
            /\ \/ \E w \in Branch : st[w] = "cancelling" /\ Return({w}, w)
               \/ (\A w \in Branch : st[w] # "cancelling") /\ UNCHANGED tasks
    /\ UNCHANGED <<kind, turn, mCanceled, first, parent, sq, kernel>>

(* The token that when_any was called with is cancelled.                    *)
ParentCancel ==
    /\ Waiting /\ ~parent
    /\ parent' = TRUE
    /\ IF mCanceled THEN UNCHANGED <<mCanceled, asked, mCancellers, sq, tasks>>
       ELSE DoCancel(Parent)
    /\ UNCHANGED <<kind, turn, first, kernel, cq>>

-----------------------------------------------------------------------------
(* The kernel takes the entries; of two that name the same operation, the   *)
(* order in the ring counts: the operation comes first.                     *)
TakeOp(b) ==
    /\ turn > N /\ Op(b) \in sq
    /\ sq' = sq \ {Op(b)}
    /\ kernel' = [kernel EXCEPT ![b] = "branch"]
    /\ UNCHANGED <<kind, turn, source, tasks, cq>>

(* A cancel entry ends its operation; one that is already executing goes on *)
(* to its end, and one that is over is not found.                           *)
TakeCancel(b) ==
    /\ turn > N /\ CancelOf(b) \in sq /\ Op(b) \notin sq
    /\ sq' = sq \ {CancelOf(b)}
    /\ \/ /\ kernel[b] = "branch"
          /\ kernel' = [kernel EXCEPT ![b] = "none"]
          /\ cq' = cq \cup {CancelOf(b), Op(b)}
       \/ /\ kernel[b] = "branch"
          /\ kernel' = [kernel EXCEPT ![b] = "finishing"]
          /\ cq' = cq \cup {CancelOf(b)}
       \/ /\ kernel[b] # "branch"
          /\ cq' = cq \cup {CancelOf(b)}
          /\ UNCHANGED kernel
    /\ UNCHANGED <<kind, turn, source, tasks>>

(* An operation ends by itself.                                             *)
Complete(b) ==
    /\ kernel[b] # "none"
    /\ kernel' = [kernel EXCEPT ![b] = "none"]
    /\ cq' = cq \cup {Op(b)}
    /\ UNCHANGED <<kind, turn, source, tasks, sq>>

Over == caller # "waiting" /\ UNCHANGED vars

\* Nothing is left to wait for but operations and timers that may never end.
Endless ==
    /\ Waiting /\ sq = {} /\ cq = {}
    /\ \A b \in Branch : st[b] # "done" => kind[b] = "never"
    /\ UNCHANGED vars

Next == \/ Start \/ ParentCancel
        \/ \E b \in Branch : \/ Expire(b) \/ Reap(b) \/ ReapCancel(b)
                             \/ TakeOp(b) \/ TakeCancel(b) \/ Complete(b)
        \/ Over \/ Endless

(* The loop runs and the kernel takes entries; an operation that a cancel   *)
(* found executing ends.  Nothing is assumed of timers and of operations    *)
(* that wait for the world.                                                 *)
Fairness ==
    /\ WF_vars(Start)
    /\ \A b \in Branch :
           /\ WF_vars(TakeOp(b)) /\ WF_vars(TakeCancel(b))
           /\ WF_vars(Reap(b)) /\ WF_vars(ReapCancel(b))
           /\ WF_vars(Complete(b) /\ kernel[b] = "finishing")

Spec == Init /\ [][Next]_vars /\ Fairness
-----------------------------------------------------------------------------
(* The caller gets the value of the branch that finished first, and an     *)
(* exception only when a parent cancelled before any branch had finished.   *)
FirstWins ==
    /\ caller = "value" => result = first /\ first # 0
    /\ caller = "threw" => parent /\ first = 0

(* When the caller resumes, and the frame that holds the branches goes, no  *)
(* branch is suspended, no entry of a branch is on its way, and unless the  *)
(* parent cancelled nobody is left inside doCancel.                         *)
NobodyLeft ==
    caller # "waiting" =>
        /\ \A b \in Branch : st[b] = "done" /\ kernel[b] = "none"
        /\ \A e \in sq \cup cq : e.op = "cancel" /\ parent
        /\ ~parent => asked = {}

\* Who has returned, and what that says of the decision.
Decision ==
    /\ \A b \in Branch : b >= turn => st[b] = "new"
    /\ \A b \in Branch : st[b] = "cancelling" => b = first /\ result = 0
    /\ ~mCanceled => first = 0 /\ asked = {} /\ Live = Branch
    /\ ~mCanceled => \A b \in mCancellers : st[b] = "pending"
    /\ mCanceled /\ first = 0 => parent
    /\ result \in {0, first}
    /\ first # 0 /\ result = 0 => st[first] = "cancelling"
    /\ caller # "waiting" => Live = {} /\ (caller = "value" <=> result # 0)

\* Each entry has its owner: an operation a suspended branch, a cancel entry
\* a doCancel that waits for it.
Owned ==
    /\ \A b \in Branch : Op(b) \in sq \cup cq \/ kernel[b] # "none"
                        => st[b] = "pending" /\ kind[b] = "io"
    /\ \A b \in Branch : /\ Op(b) \in sq => kernel[b] = "none"
                         /\ Op(b) \in cq => kernel[b] = "none"
                         /\ ~(Op(b) \in sq /\ Op(b) \in cq)
    /\ \A b \in Branch : CancelOf(b) \in sq \cup cq => b \in asked
    /\ \A b \in Branch : ~(CancelOf(b) \in sq /\ CancelOf(b) \in cq)
    /\ asked # {} /\ first # 0 => st[first] = "cancelling"

(* The invariant the proofs use: at most one branch decides, an entry on    *)
(* its way has somebody who waits for it, and nobody is counted twice.      *)
IInv == TypeOK /\ Decision /\ Owned

(* Once one branch has won, or the parent has cancelled, the caller resumes *)
(* without any timer or operation having to end by itself, provided that    *)
(* every branch had been started: a branch that returns while it is being   *)
(* started cancels before the later ones register.                          *)
ReturnsPromptly ==
    (mCanceled /\ \A b \in 1 .. N - 1 : kind[b] # "now") ~> caller # "waiting"
=============================================================================
