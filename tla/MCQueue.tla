------------------------------ MODULE MCQueue ------------------------------
(* Three ways to use a queue: two pushers and a popper, the waiting and the *)
(* trying operations together, and two poppers behind one pusher of         *)
(* different values.                                                        *)
EXTENDS Queue

CONSTANTS t1, t2, t3, t4, v1, v2

Does(op_, values) == [calls |-> op_, values |-> values]
Cast(a, b, c, d) ==
    [t \in Task |-> CASE t = t1 -> a [] t = t2 -> b [] t = t3 -> c [] t = t4 -> d]

MCTask == {t1, t2, t3, t4}
MCCasts ==
    LET pop  == Does("pop", {})
        idle == Does("push", {})
    IN  {Cast(Does("push", {v1}), Does("push", {v2}), pop, idle),
         Cast(Does("push", {v1}), Does("try_push", {v2}), pop, Does("try_pop", {})),
         Cast(Does("push", {v1, v2}), pop, pop, idle)}

\* A producer and a consumer.
MCPair == {t1, t2}
MCPairCasts ==
    {[t \in MCPair |-> IF t = t1 THEN Does("push", {v1}) ELSE Does("pop", {})]}
=============================================================================
