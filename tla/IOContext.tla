----------------------------- MODULE IOContext -----------------------------
(***************************************************************************)
(* One event loop (io_context.cpp, generic_io.cpp, platform_io): the     *)
(* coroutines of a thread suspend in timers or in io_uring operations, and *)
(* IOContext::run fires, submits, collects and resumes until nothing is    *)
(* pending.  User code is any sequence of suspensions and spawns; kernel   *)
(* completions arrive at any time.                                         *)
(***************************************************************************)
EXTENDS Naturals, FiniteSets, Sequences, Functions

CONSTANTS Co,              \* the coroutines
          Nobody,
          ZeroCopy,        \* those whose operations are prep_send_zc
          Width,           \* 2^w of the counter's size_t
          Entries,         \* queueEntries: the size of the submission ring
          MaxTime, Quota   \* bounds: clock, suspensions per coroutine

ASSUME IOContextAssumption ==
    /\ Nobody \notin Co
    /\ ZeroCopy \subseteq Co
    /\ Width \in Nat \ {0} /\ Entries \in Nat \ {0}
    /\ MaxTime \in Nat /\ Quota \in Nat

VARIABLES phase,           \* where the loop's thread is
          running,         \* the coroutine that runs, or Nobody
          st,              \* st[c]: new, run, sleep, io or end
          expires,         \* expires[c]: mExpires of c's timer node
          left,            \* left[c]: suspensions c may still make
          now,             \* steady_clock
          sq, kernel, cq,  \* prepared; submitted; completed and not collected
          sent,            \* zero-copy sends whose buffer is still in use
          batch,           \* the handles collected by waitEventsFor
          mNumSqesPending

user  == <<running, st, expires, left>>
uring == <<sq, kernel, cq, sent, batch, mNumSqesPending>>
vars  == <<phase, now, user, uring>>

\* main: before run(); timers: in runDuration; submit, poll, resume: in
\* waitEventsFor; exited: run() has returned.
Phase == {"main", "timers", "submit", "poll", "resume", "exited"}
State == {"new", "run", "sleep", "io", "end"}

TypeOK ==
    /\ phase \in Phase
    /\ running \in Co \cup {Nobody}
    /\ st \in [Co -> State]
    /\ expires \in [Co -> 0 .. MaxTime]
    /\ left \in [Co -> 0 .. Quota]
    /\ now \in 0 .. MaxTime
    /\ sq \subseteq Co /\ Cardinality(sq) <= Entries
    /\ kernel \subseteq Co /\ sent \subseteq ZeroCopy
    /\ cq \in Seq(Co) /\ batch \in Seq(Co)
    /\ mNumSqesPending \in 0 .. Width - 1

Init ==
    /\ phase = "main" /\ running = Nobody /\ now = 0
    /\ st = [c \in Co |-> "new"]
    /\ expires = [c \in Co |-> 0]
    /\ left = [c \in Co |-> Quota]
    /\ sq = {} /\ kernel = {} /\ cq = <<>> /\ sent = {} /\ batch = <<>>
    /\ mNumSqesPending = 0

-----------------------------------------------------------------------------
(* User code: the running coroutine, or a coroutine it spawns, runs until   *)
(* it suspends.  co_spawn runs the new one to its first suspension.         *)
Runs(c) == \/ running = c
           \/ st[c] = "new" /\ (running # Nobody \/ phase = "main")

Yield(c) == running' = IF running = c THEN Nobody ELSE running

GetSqeOverruns(c) ==       \* a slip: a full ring is not submitted first
    /\ sq' = sq \cup {c}
    /\ mNumSqesPending' = (mNumSqesPending + 1) % Width
    /\ UNCHANGED kernel

\* getSqe counts the new entry as pending; when the ring is full, it submits
\* the ones before it first.
GetSqe(c) ==
    /\ IF Cardinality(sq) < Entries
       THEN sq' = sq \cup {c} /\ UNCHANGED kernel
       ELSE sq' = {c} /\ kernel' = kernel \cup sq
    /\ mNumSqesPending' = (mNumSqesPending + 1) % Width

\* UringOp: the constructor takes an entry, one of the prep_ functions fills
\* it in, and co_await leaves the coroutine in mPrevious.
StartIo(c) ==
    /\ Runs(c) /\ left[c] > 0
    /\ GetSqe(c)
    /\ st' = [st EXCEPT ![c] = "io"]
    /\ left' = [left EXCEPT ![c] = @ - 1]
    /\ Yield(c)
    /\ UNCHANGED <<phase, now, expires, cq, sent, batch>>

\* co_sleep: the timer node enters mTimers, perhaps already expired.
Sleep(c, e) ==
    /\ Runs(c) /\ left[c] > 0
    /\ expires' = [expires EXCEPT ![c] = e]
    /\ st' = [st EXCEPT ![c] = "sleep"]
    /\ left' = [left EXCEPT ![c] = @ - 1]
    /\ Yield(c)
    /\ UNCHANGED <<phase, now, uring>>

End(c) ==
    /\ Runs(c)
    /\ st' = [st EXCEPT ![c] = "end"]
    /\ Yield(c)
    /\ UNCHANGED <<phase, now, expires, left, uring>>

Resume(c) ==
    /\ running' = c
    /\ st' = [st EXCEPT ![c] = "run"]
    /\ UNCHANGED <<now, expires, left>>

-----------------------------------------------------------------------------
Sleeping == {c \in Co : st[c] = "sleep"}
Front == {c \in Sleeping : \A d \in Sleeping : expires[c] <= expires[d]}
HasPendingEvents == mNumSqesPending # 0

Idle(p) == phase = p /\ running = Nobody

Run ==
    /\ Idle("main")
    /\ phase' = "timers"
    /\ UNCHANGED <<now, user, uring>>

(* Slips the properties must notice; no specification uses them.            *)
StopWithoutTimers ==       \* the loop looks only at the entries
    /\ Idle("timers")
    /\ \A c \in Front : expires[c] > now
    /\ phase' = IF ~HasPendingEvents THEN "exited" ELSE "submit"
    /\ UNCHANGED <<now, user, uring>>

NotCounted(n) == 0         \* the collected entries stay pending

CollectWithoutAdvance ==   \* leaves the completions in the ring
    /\ Idle("poll")
    /\ cq # <<>>
    /\ batch' = cq
    /\ mNumSqesPending' = (mNumSqesPending + Width - Len(cq)) % Width
    /\ phase' = "resume"
    /\ UNCHANGED <<now, user, sq, kernel, cq, sent>>

InterruptedDropsEntries == \* an interrupted submission is taken for done
    /\ Idle("submit")
    /\ sq' = {}
    /\ phase' = "timers"
    /\ UNCHANGED <<now, user, kernel, cq, sent, batch, mNumSqesPending>>

-----------------------------------------------------------------------------

(* runDuration fires every timer that has expired, the clock being read     *)
(* again before each.                                                       *)
FireTimer ==
    /\ Idle("timers")
    /\ \E c \in Front : expires[c] <= now /\ Resume(c)
    /\ UNCHANGED <<phase, uring>>

(* runOnce: nothing has expired; the loop ends, or waits for events.        *)
StopOrWait ==
    /\ Idle("timers")
    /\ \A c \in Front : expires[c] > now
    /\ phase' = IF Sleeping = {} /\ ~HasPendingEvents THEN "exited" ELSE "submit"
    /\ UNCHANGED <<now, user, uring>>

(* io_uring_submit_and_wait_timeout hands over all prepared entries.        *)
Submit ==
    /\ Idle("submit")
    /\ kernel' = kernel \cup sq
    /\ sq' = {}
    /\ phase' = "poll"
    /\ UNCHANGED <<now, user, cq, sent, batch, mNumSqesPending>>

(* -EINTR: back to runOnce with nothing collected.                          *)
Interrupted ==
    /\ Idle("submit")
    /\ phase' = "timers"
    /\ UNCHANGED <<now, user, uring>>

(* -ETIME: the next timer is due or mMaxSleep is over, and no event came.   *)
TimedOut ==
    /\ Idle("poll")
    /\ cq = <<>>
    /\ phase' = "timers"
    /\ UNCHANGED <<now, user, uring>>

Got(n) == n                \* numGot

(* All completions become handles before any coroutine runs.                *)
Collect ==
    /\ Idle("poll")
    /\ cq # <<>>
    /\ batch' = cq
    /\ cq' = <<>>
    /\ mNumSqesPending' = (mNumSqesPending + Width - Got(Len(cq))) % Width
    /\ phase' = "resume"
    /\ UNCHANGED <<now, user, sq, kernel, sent>>

ResumeNext ==
    /\ Idle("resume")
    /\ batch # <<>>
    /\ Resume(Head(batch))
    /\ batch' = Tail(batch)
    /\ UNCHANGED <<phase, sq, kernel, cq, sent, mNumSqesPending>>

BatchDone ==
    /\ Idle("resume")
    /\ batch = <<>>
    /\ phase' = "timers"
    /\ UNCHANGED <<now, user, uring>>

-----------------------------------------------------------------------------
(* The kernel completes an operation; a zero-copy send posts a completion   *)
(* and, when the buffer is released, a second one.                          *)
Complete(c) ==
    /\ c \in kernel
    /\ cq' = Append(cq, c)
    /\ IF c \in ZeroCopy \ sent
       THEN sent' = sent \cup {c} /\ UNCHANGED kernel
       ELSE sent' = sent \ {c} /\ kernel' = kernel \ {c}
    /\ UNCHANGED <<phase, now, user, sq, batch, mNumSqesPending>>

Tick ==
    /\ now < MaxTime
    /\ now' = now + 1
    /\ UNCHANGED <<phase, user, uring>>

Terminated == phase = "exited" /\ now = MaxTime /\ UNCHANGED vars

Code(c) == StartIo(c) \/ End(c) \/ \E e \in 0 .. MaxTime : Sleep(c, e)
Loop == \/ Run \/ FireTimer \/ StopOrWait \/ Submit \/ Interrupted \/ TimedOut
        \/ Collect \/ ResumeNext \/ BatchDone

Next == \/ \E c \in Co : Code(c) \/ Complete(c)
        \/ Loop \/ Tick \/ Terminated

(* The thread runs the loop, every coroutine that runs suspends or ends,    *)
(* operations complete, time passes, and signals do not interrupt every     *)
(* submission for ever.                                                     *)
Fairness ==
    /\ WF_vars(Loop) /\ SF_vars(Submit) /\ WF_vars(Tick)
    /\ \A c \in Co : WF_vars(Code(c) /\ running = c) /\ WF_vars(Complete(c))

Spec == Init /\ [][Next]_vars /\ Fairness
-----------------------------------------------------------------------------
\* The operations that the kernel has not completed or the loop not collected.
Uncompleted == sq \cup kernel \cup Range(cq)

(* mNumSqesPending is the "Number of uncompleted SQEs", whichever way       *)
(* waitEventsFor returned and whatever ran in between.                      *)
PendingIsUncompleted == mNumSqesPending = Cardinality(Uncompleted)

(* run() returns only when no coroutine is suspended in the loop.           *)
NothingAbandoned ==
    phase = "exited" => \A c \in Co : st[c] \in {"new", "end"}

\* The entries, completions and handles of c.
Occurrences(s, c) == Cardinality({i \in DOMAIN s : s[i] = c})
Entry(s, c) == IF c \in s THEN 1 ELSE 0
Traces(c) == Entry(sq, c) + Entry(kernel, c) + Occurrences(cq, c) + Occurrences(batch, c)

(* A coroutine suspended in an operation has exactly one entry or handle    *)
(* for it, and no other coroutine has any: each is resumed exactly once.    *)
ResumedOnce == \A c \in Co : Traces(c) = IF st[c] = "io" THEN 1 ELSE 0

\* One coroutine at most runs.  A coroutine in an operation is in one place.
OneRuns == \A c \in Co : st[c] = "run" <=> running = c
Located == {c \in Co : st[c] = "io"} = Uncompleted \cup Range(batch)
Apart ==
    /\ sq \cap kernel = {} /\ (sq \cup kernel) \cap Range(cq) = {}
    /\ Uncompleted \cap Range(batch) = {}
    /\ IsInjective(cq) /\ IsInjective(batch)

\* A batch is resumed to its end before the loop goes on.
BatchFirst == batch # <<>> => phase = "resume"
Exited == phase = "exited" => running = Nobody /\ NothingAbandoned

(* What every step of a loop without zero-copy sends preserves: nothing     *)
(* is counted, queued or collected twice, or in two places.                 *)
IInv == TypeOK /\ PendingIsUncompleted /\ OneRuns /\ Located /\ Apart
        /\ BatchFirst /\ Exited

(* Completed operations and expired timers resume their coroutines, also    *)
(* across interrupted and timed-out waits.                                  *)
IoResumes == \A c \in Co : st[c] = "io" ~> st[c] # "io"
SleepersWake == \A c \in Co : st[c] = "sleep" ~> st[c] # "sleep"

(* When the user code has come to its end, run() returns.                   *)
LoopEnds == <>(phase = "exited")
=============================================================================
