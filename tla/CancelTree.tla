----------------------------- MODULE CancelTree -----------------------------
(***************************************************************************)
(* Cancellation (cancel.hpp): sources and callbacks register as cancellers *)
(* of a source, so that sources form trees.  doCancel of a source makes a  *)
(* task per canceller, starts them one after the other with when_all, and  *)
(* returns when all have returned; a nested source's task is its doCancel. *)
(* In between, user code registers, destroys and cancels as it likes.      *)
(***************************************************************************)
EXTENDS Naturals, FiniteSets

CONSTANTS Source, Callback, NoSource

Canceller == Source \cup Callback

VARIABLES alive,           \* the cancellers that exist
          listOf,          \* listOf[x]: the source whose mCancellers x is in
          mCanceled,       \* the sources that are cancelled
          busy,            \* those whose doCancel has not returned
          tasks,           \* tasks[s]: made by doCancel and not started
          waiting,         \* waiting[s]: started and not returned
          calledBy,        \* calledBy[s]: the source whose doCancel runs s's
          told,            \* history: those that have been told
          roll,            \* history: who was registered when s was cancelled
          broken           \* an object was destroyed that a task still uses

vars == <<alive, listOf, mCanceled, busy, tasks, waiting, calledBy,
          told, roll, broken>>

TypeOK ==
    /\ alive \subseteq Canceller
    /\ listOf \in [Canceller -> Source \cup {NoSource}]
    /\ mCanceled \subseteq Source /\ busy \subseteq mCanceled
    /\ tasks \in [Source -> SUBSET Canceller]
    /\ waiting \in [Source -> SUBSET Canceller]
    /\ calledBy \in [Source -> Source \cup {NoSource}]
    /\ told \subseteq Canceller
    /\ roll \in [Source -> SUBSET Canceller]
    /\ broken \in BOOLEAN

Init ==
    /\ alive = {} /\ mCanceled = {} /\ busy = {} /\ told = {}
    /\ listOf = [x \in Canceller |-> NoSource]
    /\ tasks = [s \in Source |-> {}] /\ waiting = [s \in Source |-> {}]
    /\ calledBy = [s \in Source |-> NoSource]
    /\ roll = [s \in Source |-> {}]
    /\ broken = FALSE

-----------------------------------------------------------------------------
mCancellers(s) == {x \in alive : listOf[x] = s}

(* A source or callback is made with a token: that of s, cancelled or not,  *)
(* or an empty one.                                                         *)
Register(x, s) ==
    /\ x \in Canceller \ alive
    /\ \A t \in Source : x \notin waiting[t]      \* a name of nobody else
    /\ s \in alive \cup {NoSource}
    /\ alive' = alive \cup {x}
    /\ listOf' = [listOf EXCEPT ![x] = s]
    /\ told' = told \ {x}
    /\ mCanceled' = mCanceled \ {x}
    /\ calledBy' = [t \in Source |-> IF t = x THEN NoSource ELSE calledBy[t]]
    /\ roll' = [t \in Source |-> IF t = x THEN {} ELSE roll[t]]
    /\ UNCHANGED <<busy, tasks, waiting, broken>>

\* doCancel of s, which the doCancel of u runs, up to the start of the tasks.
Begin(s, u) ==
    /\ mCanceled' = mCanceled \cup {s}
    /\ busy' = busy \cup {s}
    /\ tasks' = [tasks EXCEPT ![s] = mCancellers(s)]
    /\ roll' = [roll EXCEPT ![s] = mCancellers(s)]
    /\ calledBy' = [calledBy EXCEPT ![s] = u]

(* cancel() by user code; of a cancelled source it returns at once, whether *)
(* the first cancel() has returned or not.                                  *)
Cancel(s) ==
    /\ s \in alive \ mCanceled
    /\ Begin(s, NoSource)
    /\ UNCHANGED <<alive, listOf, waiting, told, broken>>

(* when_all starts the next task of s: a callback is invoked, a nested      *)
(* source cancelled, unless it already is.                                  *)
Tell(s, x) ==
    /\ x \in tasks[s]
    /\ told' = told \cup {x}
    /\ IF x \in Source \ mCanceled
       THEN /\ mCanceled' = mCanceled \cup {x}
            /\ busy' = busy \cup {x}
            /\ tasks' = [tasks EXCEPT ![s] = @ \ {x}, ![x] = mCancellers(x)]
            /\ roll' = [roll EXCEPT ![x] = mCancellers(x)]
            /\ calledBy' = [calledBy EXCEPT ![x] = s]
       ELSE /\ tasks' = [tasks EXCEPT ![s] = @ \ {x}]
            /\ UNCHANGED <<mCanceled, busy, roll, calledBy>>
    /\ waiting' = IF x \in mCanceled THEN waiting
                  ELSE [waiting EXCEPT ![s] = @ \cup {x}]
    /\ UNCHANGED <<alive, listOf, broken>>

(* A callback, or the entry it waits for, is through.                       *)
Answer(s, x) ==
    /\ x \in waiting[s] \ Source
    /\ waiting' = [waiting EXCEPT ![s] = @ \ {x}]
    /\ UNCHANGED <<alive, listOf, mCanceled, busy, tasks, calledBy, told, roll,
                   broken>>

(* All tasks have returned: the list is cleared and doCancel returns.       *)
Finish(s) ==
    /\ s \in busy /\ tasks[s] = {} /\ waiting[s] = {}
    /\ busy' = busy \ {s}
    /\ listOf' = [x \in Canceller |-> IF x \in mCancellers(s) THEN NoSource
                                      ELSE listOf[x]]
    /\ waiting' = [t \in Source |-> IF t = calledBy[s] THEN waiting[t] \ {s}
                                    ELSE waiting[t]]
    /\ UNCHANGED <<alive, mCanceled, tasks, calledBy, told, roll, broken>>

(* A canceller leaves its list; a source lets go of its own.  The task of   *)
(* one that was to be told, and the doCancel of a source, use it later.     *)
Destroy(x) ==
    /\ x \in alive
    /\ alive' = alive \ {x}
    /\ listOf' = [y \in Canceller |-> IF y = x \/ listOf[y] = x THEN NoSource
                                      ELSE listOf[y]]
    /\ roll' = [t \in Source |-> roll[t] \ {x}]
    /\ broken' = (x \in busy \/ \E s \in Source : x \in tasks[s])
    /\ UNCHANGED <<mCanceled, busy, tasks, waiting, calledBy, told>>

\* What a task does that uses a destroyed object is undefined.
Next ==
    /\ ~broken
    /\ \/ \E x \in Canceller : Destroy(x) \/ \E s \in Source \cup {NoSource} :
                                                 Register(x, s)
       \/ \E s \in Source : Cancel(s) \/ Finish(s)
       \/ \E s \in Source, x \in Canceller : Tell(s, x) \/ Answer(s, x)

Spec == Init /\ [][Next]_vars
-----------------------------------------------------------------------------
Returned(s) == s \in mCanceled \ busy

(* When doCancel returns, everybody registered at its call has been told,   *)
(* and the nested sources among them are cancelled.                         *)
AllTold ==
    ~broken => \A s \in alive \cap Source :
        Returned(s) => roll[s] \subseteq told /\ roll[s] \cap Source \subseteq mCanceled

(* No canceller is told twice: whoever is still to be told was not told     *)
(* before, has one task, and is registered.                                 *)
ToldOnce ==
    ~broken => \A s \in Source : \A x \in tasks[s] :
        /\ x \in alive \ told /\ listOf[x] = s
        /\ \A t \in Source \ {s} : x \notin tasks[t]

(* A doCancel that a doCancel runs returns first: when a tree is cancelled  *)
(* from its root, nothing of it is still under way below when it returns.   *)
NestedFirst ==
    \A t \in Source : t \in busy /\ calledBy[t] # NoSource =>
        calledBy[t] \in busy /\ t \in waiting[calledBy[t]]

\* Tasks and waiting belong to doCancels under way.
Underway ==
    \A s \in Source :
        /\ tasks[s] # {} \/ waiting[s] # {} => s \in busy
        /\ \A t \in waiting[s] \cap Source : t \in busy /\ calledBy[t] = s

\* Who is where, as long as nothing was destroyed that is still in use.
Places ==
    ~broken =>
        /\ busy \subseteq alive
        /\ \A x \in Canceller : listOf[x] # NoSource => {x, listOf[x]} \subseteq alive
        /\ \A x \in Canceller : listOf[x] \notin mCanceled \cup {NoSource}
                                => x \notin told
        /\ \A s \in alive \cap mCanceled : roll[s] \subseteq tasks[s] \cup told
        /\ \A s \in Source : roll[s] \subseteq alive
        /\ alive \cap told \cap Source \subseteq mCanceled

IInv == TypeOK /\ Underway /\ Places /\ ToldOnce /\ NestedFirst
=============================================================================
