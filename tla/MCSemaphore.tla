---------------------------- MODULE MCSemaphore ----------------------------
(* Five tasks on one event loop, or two of them on a second one.            *)
(* AllPlacements is closed under the tasks' names.                          *)
EXTENDS Semaphore, TLC

CONSTANTS t1, t2, t3, t4, t5

MCTask == {t1, t2, t3, t4, t5}
On(b) == [t \in MCTask |-> IF t \in b THEN "b" ELSE "a"]
AllPlacements == {On(b) : b \in {d \in SUBSET MCTask : Cardinality(d) \in {0, 2}}}
MCSymmetry == Permutations(MCTask)
=============================================================================
