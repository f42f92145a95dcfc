------------------------------- MODULE Timers -------------------------------
(***************************************************************************)
(* GenericIOContext::mTimers: co_sleep inserts a TimerNode, runDuration     *)
(* takes the front and resumes it, and a cancelled co_sleep erases its node *)
(* wherever it is.  Coroutines that are resumed sleep and cancel again      *)
(* before runDuration looks at the next front; that is one action each.     *)
(***************************************************************************)
EXTENDS RbTree, FiniteSets

CONSTANT MaxTime           \* bound: points in time that timers expire at

VARIABLES mTimers,         \* the tree
          mExpires,        \* [Nodes -> 0 .. MaxTime]
          asleep,          \* the sleeping coroutines in the order of their calls
          torn             \* a node with two children has been erased

vars == <<mTimers, mExpires, asleep, torn>>

Sleepers == {asleep[i] : i \in DOMAIN asleep}

Init == /\ mTimers = EmptyTree
        /\ mExpires = [x \in Nodes |-> 0]
        /\ asleep = <<>>
        /\ torn = FALSE

Without(x) == SelectSeq(asleep, LAMBDA y : y # x)

(* A slip the properties must notice; no specification uses it.             *)
co_sleepOvertakes(x, e) == \* goes ahead of timers that expire at the same time
    /\ ~torn /\ x \notin Sleepers
    /\ mExpires' = [mExpires EXCEPT ![x] = e]
    /\ mTimers' = doInsert(mTimers, x, {y \in Sleepers : e <= mExpires[y]})
    /\ asleep' = Append(asleep, x)
    /\ UNCHANGED torn

(* co_sleep(expires), the time point in the past or the future.             *)
co_sleep(x, e) ==
    /\ ~torn /\ x \notin Sleepers
    /\ mExpires' = [mExpires EXCEPT ![x] = e]
    /\ mTimers' = doInsert(mTimers, x, {y \in Sleepers : e < mExpires[y]})
    /\ asleep' = Append(asleep, x)
    /\ UNCHANGED torn

(* runDuration, when the front has expired: what the clock says is left     *)
(* open, so any front may be taken.  The front has no left child.           *)
Fire ==
    /\ ~torn /\ mTimers.root # Null
    /\ LET x == getFront(mTimers)
       IN  mTimers' = doErase(mTimers, x) /\ asleep' = Without(x)
    /\ UNCHANGED <<mExpires, torn>>

(* TimerNode::doCancel, and the resumption that follows.  The behaviour     *)
(* ends where the links of the tree lead to the erased node.                *)
doCancel(x) ==
    /\ ~torn /\ x \in Sleepers
    /\ asleep' = Without(x)
    /\ IF TwoChildren(mTimers, x)
       THEN torn' = TRUE /\ mTimers' = doEraseInner(mTimers, x)
       ELSE mTimers' = doErase(mTimers, x) /\ UNCHANGED torn
    /\ UNCHANGED mExpires

Next == \/ \E x \in Nodes, e \in 0 .. MaxTime : co_sleep(x, e)
        \/ \E x \in Nodes : doCancel(x)
        \/ Fire

Spec == Init /\ [][Next]_vars
-----------------------------------------------------------------------------
Before(i, j) == \/ mExpires[asleep[i]] < mExpires[asleep[j]]
                \/ mExpires[asleep[i]] = mExpires[asleep[j]] /\ i < j
Rank(j) == 1 + Cardinality({i \in DOMAIN asleep : Before(i, j)})

(* The tree read from left to right is the sleeping timers, the earliest    *)
(* first, and of those that expire together the one that slept first:       *)
(* no timer is lost, overtaken or fired twice by rebalancing.               *)
EarliestFirst ==
    ~torn => LET order == InOrder(mTimers, mTimers.root)
             IN  /\ Len(order) = Len(asleep)
                 /\ \A j \in DOMAIN asleep : order[Rank(j)] = asleep[j]

(* What fixViolation and doErase rely on to follow no null pointer: parents *)
(* and children know each other, the root is black, and no red node has a   *)
(* red child, although erasing does not keep the black heights equal.       *)
WellFormed ==
    ~torn => 
        /\ mTimers.root # Null => /\ mTimers.parent[mTimers.root] = Null
                                  /\ mTimers.color[mTimers.root] = "black"
        /\ \A x \in Sleepers, d \in {Left, Right} :
              LET y == mTimers.child[d][x]
              IN  y # Null => /\ mTimers.parent[y] = x
                              /\ "black" \in {mTimers.color[x], mTimers.color[y]}
=============================================================================
