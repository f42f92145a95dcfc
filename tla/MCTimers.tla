------------------------------ MODULE MCTimers ------------------------------
(* States are compared by their trees with every node named by its place in *)
(* the order of expiry: nodes are interchangeable, what is left in one that *)
(* is not in the tree is not read again, and of the order of the calls only *)
(* that of equal timers matters.                                            *)
EXTENDS Timers

MCView ==
    IF torn THEN <<"torn">>
    ELSE LET at == [i \in DOMAIN asleep |->
                      asleep[CHOOSE j \in DOMAIN asleep : Rank(j) = i]]
             place == [x \in Nodes \union {Null} |->
                         IF x \in Sleepers THEN CHOOSE i \in DOMAIN at : at[i] = x ELSE 0]
         IN  <<place[mTimers.root],
               [i \in DOMAIN at |-> <<place[mTimers.child[Left][at[i]]],
                                      place[mTimers.child[Right][at[i]]],
                                      place[mTimers.parent[at[i]]],
                                      mTimers.color[at[i]], mExpires[at[i]]>>]>>
=============================================================================
