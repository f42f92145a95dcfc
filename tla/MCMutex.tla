------------------------------ MODULE MCMutex ------------------------------
(* The two classes of generic/mutex.hpp for TLC.  They share no state, as   *)
(* CallOnce is written over the abstract lock: a behaviour uses the one or  *)
(* the other, and is fair to that one as its specification says.            *)
EXTENDS Mutex, CallOnce

VARIABLE used              \* the class in use

MCInit == Init /\ OnceInit /\ used \in {"Mutex", "CallOnce"}

MCNext ==
    /\ \/ used = "Mutex" /\ Next /\ UNCHANGED onceVars
       \/ used = "CallOnce" /\ OnceNext /\ UNCHANGED vars
    /\ UNCHANGED used

\* Fairness of the mutex asks for nothing while every task is idle.
MCSpec ==
    /\ MCInit /\ [][MCNext]_<<vars, onceVars, used>>
    /\ Fairness
    /\ \A t \in Caller : WF_onceVars(used = "CallOnce" /\ Turn(t))
    /\ WF_onceVars(used = "CallOnce" /\ \E t \in Caller : Locked(t))
=============================================================================
