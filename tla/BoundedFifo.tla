---------------------------- MODULE BoundedFifo ----------------------------
(***************************************************************************)
(* What a queue promises: values leave in the order in which they entered, *)
(* each to one task, and no more than Capacity are inside.  The puts take  *)
(* turns 0, 1, .. Capacity, 0, ..; those of the turns in Damaged may lose  *)
(* their value.                                                            *)
(***************************************************************************)
EXTENDS Naturals, Sequences

CONSTANTS Task, Capacity, Value, None, Garbage, Damaged

VARIABLES items,           \* the values inside, oldest first
          turn,            \* of the next put
          result           \* result[t]: what t popped last, or None

Init == items = <<>> /\ turn = 0 /\ result = [t \in Task |-> None]

Put(t, v) ==
    /\ Len(items) < Capacity
    /\ \/ items' = Append(items, v)
       \/ turn \in Damaged /\ items' = Append(items, Garbage)
    /\ turn' = IF turn = Capacity THEN 0 ELSE turn + 1
    /\ result' = [result EXCEPT ![t] = None]

Take(t) ==
    /\ items # <<>>
    /\ result' = [result EXCEPT ![t] = Head(items)]
    /\ items' = Tail(items)
    /\ UNCHANGED turn

\* A task starts another call, or its attempt finds nothing.
Forget(t) ==
    /\ result' = [result EXCEPT ![t] = None]
    /\ UNCHANGED <<items, turn>>

Next == \E t \in Task : (\E v \in Value : Put(t, v)) \/ Take(t) \/ Forget(t)

Spec == Init /\ [][Next]_<<items, turn, result>>
=============================================================================
