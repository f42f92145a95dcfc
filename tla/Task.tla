-------------------------------- MODULE Task --------------------------------
(***************************************************************************)
(* The hand-over between coroutines (awaiter/task.hpp): a coroutine awaits  *)
(* a Task by symmetric transfer, and the TaskAwaiter in its frame takes the *)
(* result of a return, of a yield, or of an Expected in the callee that     *)
(* holds an error and cuts the callee short.  co_spawn and callbacks resume *)
(* on the stack of the resumer.  One thread; frames are reused by new      *)
(* coroutines once they are destroyed.                                      *)
(***************************************************************************)
EXTENDS Naturals, Sequences

CONSTANTS Co,              \* the frames
          Nobody,          \* no coroutine: the event loop runs, or a null handle
          Token            \* what mCancelToken may be, NoToken included

CONSTANT NoToken         \* the theorems take it to be in Token

VARIABLES st,
          running,         \* the coroutine that has the thread
          stack,           \* those below it, in resume() of a handle
          caller,          \* caller[d]: whose awaiter d's mAwaiter points to
          callee,          \* callee[c]: mCalleeCoroutine of c's awaiter
          mResult,         \* mResult[c]: what that awaiter has received
          owned,           \* owned[c]: it is a TaskOwnedAwaiter
          plain,           \* plain[c]: a co_spawn starter, without mLocals
          mCancelToken

links == <<caller, callee, mResult, owned, plain, mCancelToken>>
vars  == <<st, running, stack, links>>

\* none: no coroutine in the frame; new: at initial_suspend; run; resume:
\* about to run await_resume; wait: in TaskAwaiter; nest: in resume() of
\* another; op: in an operation or timer; yield: in co_yield; done: at
\* final_suspend, or cut short.
State == {"none", "new", "run", "resume", "wait", "nest", "op", "yield", "done"}
Result == {"empty", "value", "yielded", "error"}

TypeOK ==
    /\ st \in [Co -> State]
    /\ running \in Co \cup {Nobody}
    /\ stack \in Seq(Co)
    /\ caller \in [Co -> Co \cup {Nobody}]
    /\ callee \in [Co -> Co \cup {Nobody}]
    /\ mResult \in [Co -> Result]
    /\ owned \in [Co -> BOOLEAN]
    /\ plain \in [Co -> BOOLEAN]
    /\ mCancelToken \in [Co -> Token]

Init ==
    /\ st = [c \in Co |-> "none"]
    /\ running = Nobody /\ stack = <<>>
    /\ caller = [c \in Co |-> Nobody]
    /\ callee = [c \in Co |-> Nobody]
    /\ mResult = [c \in Co |-> "empty"]
    /\ owned = [c \in Co |-> FALSE]
    /\ plain = [c \in Co |-> FALSE]
    /\ mCancelToken = [c \in Co |-> NoToken]

-----------------------------------------------------------------------------
Runs(c) == running = c /\ st[c] = "run"
Calls == running # Nobody => st[running] = "run"    \* the loop, or a coroutine

(* A call of a coroutine function makes a frame.                            *)
Create(d) ==
    /\ Calls
    /\ st[d] = "none"
    /\ st' = [st EXCEPT ![d] = "new"]
    /\ caller' = [caller EXCEPT ![d] = Nobody]
    /\ plain' = [plain EXCEPT ![d] = FALSE]
    /\ mCancelToken' = [mCancelToken EXCEPT ![d] = NoToken]
    /\ UNCHANGED <<running, stack, callee, mResult, owned>>

(* co_cancel.bind on a task that has not been awaited.                      *)
Bind(c, d, t) ==
    /\ Runs(c) /\ st[d] = "new"
    /\ mCancelToken' = [mCancelToken EXCEPT ![d] = t]
    /\ UNCHANGED <<st, running, stack, caller, callee, mResult, owned, plain>>

\* operator co_await in c: an empty awaiter, that owns d or not.
MakeAwaiter(c, d, rvalue) ==
    /\ callee' = [callee EXCEPT ![c] = d]
    /\ mResult' = [mResult EXCEPT ![c] = "empty"]
    /\ owned' = [owned EXCEPT ![c] = rvalue]

\* await_transform in c hands the locals down to d.
HandLocals(c, d) == mCancelToken' = [mCancelToken EXCEPT ![d] = mCancelToken[c]]

(* co_await of a task, or again of a generator; await_suspend transfers.    *)
Await(c, d, rvalue) ==
    /\ Runs(c)
    /\ st[d] \in {"new", "yield"}
    /\ HandLocals(c, d) /\ MakeAwaiter(c, d, rvalue)
    /\ caller' = [caller EXCEPT ![d] = c]
    /\ st' = [st EXCEPT ![c] = "wait", ![d] = "run"]
    /\ running' = d
    /\ UNCHANGED <<stack, plain>>

\* The running coroutine d gives result to its caller's awaiter, and the
\* thread to its caller.
HandOver(d, state, result) ==
    /\ Runs(d) /\ caller[d] # Nobody
    /\ mResult' = [mResult EXCEPT ![caller[d]] = result]
    /\ st' = [st EXCEPT ![d] = state, ![caller[d]] = "resume"]
    /\ running' = caller[d]
    /\ UNCHANGED <<stack, caller, callee, owned, plain, mCancelToken>>

Return(d) == HandOver(d, "done", "value")
Yield(d) == HandOver(d, "yield", "yielded")

(* co_await of an Expected with an error: the coroutine ends where it is.   *)
CutShort(d) == HandOver(d, "done", "error")

(* await_resume moves the result out; a TaskOwnedAwaiter goes with its frame.*)
AwaitResume(c) ==
    /\ running = c /\ st[c] = "resume" /\ ~plain[c]
    /\ mResult' = [mResult EXCEPT ![c] = "empty"]
    /\ st' = [st EXCEPT ![c] = "run",
                        ![callee[c]] = IF owned[c] THEN "none" ELSE @]
    /\ UNCHANGED <<running, stack, caller, callee, owned, plain, mCancelToken>>

(* A Task that is not awaited any more is dropped by the running coroutine. *)
Drop(c, d) ==
    /\ Runs(c) /\ st[d] \in {"new", "yield", "done"}
    /\ st' = [st EXCEPT ![d] = "none"]
    /\ UNCHANGED <<running, stack, links>>

-----------------------------------------------------------------------------
\* The thread goes back to whoever called resume(): below the top of the
\* stack, or the loop.  s is what st becomes otherwise.
GiveBack(s) ==
    IF stack = <<>>
    THEN running' = Nobody /\ st' = s /\ UNCHANGED stack
    ELSE /\ running' = Head(stack)
         /\ st' = [s EXCEPT ![Head(stack)] = "run"]
         /\ stack' = Tail(stack)

\* The running coroutine, if any, calls resume(); s is what st becomes.
Below(s) ==
    IF running = Nobody
    THEN st' = s /\ UNCHANGED stack
    ELSE st' = [s EXCEPT ![running] = "nest"] /\ stack' = <<running>> \o stack

(* A suspension in an operation or a timer.                                 *)
Suspend(c) ==
    /\ Runs(c)
    /\ GiveBack([st EXCEPT ![c] = "op"])
    /\ UNCHANGED links

(* The loop, or a canceller's callback in the running coroutine, resumes a  *)
(* coroutine.                                                               *)
Resume(c) ==
    /\ Calls
    /\ st[c] = "op"
    /\ Below([st EXCEPT ![c] = "run"])
    /\ running' = c
    /\ UNCHANGED links

(* co_spawn: coSpawnStarter in the frame r owns the task d and awaits it.   *)
co_spawn(r, d) ==
    /\ Calls
    /\ st[r] = "none" /\ st[d] = "new"
    /\ Below([st EXCEPT ![r] = "wait", ![d] = "run"])
    /\ running' = d
    /\ caller' = [caller EXCEPT ![d] = r, ![r] = Nobody]
    /\ MakeAwaiter(r, d, TRUE)
    /\ plain' = [plain EXCEPT ![r] = TRUE]
    /\ UNCHANGED mCancelToken

(* The starter ignores the result, and AutoDestroyFinalAwaiter destroys it. *)
SpawnEnds(r) ==
    /\ running = r /\ st[r] = "resume" /\ plain[r]
    /\ GiveBack([st EXCEPT ![r] = "none", ![callee[r]] = "none"])
    /\ UNCHANGED links

Next ==
    \/ \E d \in Co : Create(d) \/ Return(d) \/ Yield(d) \/ CutShort(d)
    \/ \E c, d \in Co, t \in Token : Bind(c, d, t)
    \/ \E c, d \in Co, rvalue \in BOOLEAN : Await(c, d, rvalue)
    \/ \E c, d \in Co : Drop(c, d) \/ co_spawn(c, d)
    \/ \E c \in Co : AwaitResume(c) \/ Suspend(c) \/ Resume(c) \/ SpawnEnds(c)

Spec == Init /\ [][Next]_vars
-----------------------------------------------------------------------------
\* Coroutines that have not come to rest.
Active == {"run", "resume", "wait", "nest", "op"}

(* At most one coroutine has the thread, and those on the stack below it    *)
(* are each there once.                                                     *)
OneRuns ==
    /\ \A c \in Co : st[c] \in {"run", "resume"} <=> c = running
    /\ \A c \in Co : st[c] = "nest" <=> \E i \in DOMAIN stack : stack[i] = c
    /\ \A i, j \in DOMAIN stack : stack[i] = stack[j] => i = j

(* A coroutine waits exactly for one that is still under way and knows it:  *)
(* nobody waits for a callee that has come to its end, was dropped, or      *)
(* answers to somebody else.                                                *)
WaitsForActive ==
    \A c \in Co : st[c] = "wait" =>
        /\ callee[c] \in Co
        /\ st[callee[c]] \in Active
        /\ caller[callee[c]] = c

(* Whatever is under way is a starter or has a caller that waits for it.    *)
CalledOrSpawned ==
    \A d \in Co : st[d] \in Active /\ ~plain[d] =>
        /\ caller[d] \in Co
        /\ st[caller[d]] = "wait"
        /\ callee[caller[d]] = d

(* Nobody awaits a starter, which does nothing but wait for its task.       *)
StarterWaits ==
    \A r \in Co : plain[r] =>
        caller[r] = Nobody /\ st[r] \in {"none", "wait", "resume"}

(* When a caller is resumed the result is there, and the callee is at rest, *)
(* so that the awaiter may destroy it.                                      *)
ResumedWithResult ==
    \A c \in Co : st[c] = "resume" =>
        /\ mResult[c] # "empty"
        /\ callee[c] \in Co
        /\ st[callee[c]] \in {"yield", "done"}

(* A callee is cancelled through the token of its caller, whatever token    *)
(* had been bound to it before the co_await.                                *)
TokenOfCaller ==
    \A c \in Co : st[c] = "wait" /\ ~plain[c] =>
        mCancelToken[callee[c]] = mCancelToken[c]

IInv == /\ TypeOK /\ OneRuns /\ WaitsForActive /\ CalledOrSpawned
        /\ StarterWaits /\ ResumedWithResult /\ TokenOfCaller
=============================================================================
