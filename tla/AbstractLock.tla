---------------------------- MODULE AbstractLock ----------------------------
(***************************************************************************)
(* What a mutex promises its callers: one owner at a time, attempts that   *)
(* may be given up, and progress while the lock is wanted.                 *)
(***************************************************************************)
CONSTANT Task
VARIABLE mode              \* mode[t]: out, trying (inside lock()), in (owner)

Init == mode = [t \in Task |-> "out"]

Free == \A t \in Task : mode[t] # "in"

Move(t, m) == mode' = [mode EXCEPT ![t] = m]

Try(t)    == mode[t] = "out" /\ Move(t, "trying")
TryNow(t) == mode[t] = "out" /\ Free /\ Move(t, "in")
Enter(t)  == mode[t] = "trying" /\ Free /\ Move(t, "in")
GiveUp(t) == mode[t] = "trying" /\ Move(t, "out")
Leave(t)  == mode[t] = "in" /\ Move(t, "out")

Next == \E t \in Task : Try(t) \/ TryNow(t) \/ Enter(t) \/ GiveUp(t) \/ Leave(t)

(* Every owner leaves, and a lock that stays free while it is wanted is     *)
(* taken by some caller.                                                    *)
Fairness ==
    /\ \A t \in Task : WF_mode(Leave(t))
    /\ WF_mode(\E t \in Task : Enter(t))

Spec == Init /\ [][Next]_mode /\ Fairness
=============================================================================
