--------------------------- MODULE IntrusiveList ---------------------------
(***************************************************************************)
(* utils/intrusive_list.hpp: a ring of nodes through root, linked both     *)
(* ways.  The nodes belong to others, who take them out by destroying them *)
(* (NodeType's destructor).  The list of cancellers of a CancelSource.     *)
(***************************************************************************)
EXTENDS Integers

CONSTANTS Node, root, nullptr

VARIABLES listNext, listPrev,
          place            \* history: place[n] grows along the ring from root

vars == <<listNext, listPrev, place>>
All  == Node \cup {root}

TypeOK ==
    /\ listNext \in [All -> All \cup {nullptr}]
    /\ listPrev \in [All -> All \cup {nullptr}]
    /\ place \in [All -> Nat]

Linked == {n \in All : listNext[n] # nullptr}

Init ==
    /\ listNext = [n \in All |-> IF n = root THEN root ELSE nullptr]
    /\ listPrev = listNext
    /\ place = [n \in All |-> 0]

-----------------------------------------------------------------------------
\* n is put between p and its successor.
LinkBehind(n, p) ==
    LET q == listNext[p]
    IN  /\ n \in Node \ Linked
        /\ listNext' = [listNext EXCEPT ![n] = q, ![p] = n]
        /\ listPrev' = [listPrev EXCEPT ![n] = p, ![q] = n]
        /\ place' = [m \in All |-> IF m = n THEN place[p] + 1
                                   ELSE IF place[m] > place[p] THEN place[m] + 1
                                   ELSE place[m]]

push_front(n) == LinkBehind(n, root)
push_back(n) == LinkBehind(n, listPrev[root])
insert_after(p, n) == p \in Linked \ {root} /\ LinkBehind(n, p)
insert_before(p, n) == p \in Linked \ {root} /\ LinkBehind(n, listPrev[p])

Unlink(n) ==
    /\ listNext' = [listNext EXCEPT ![listPrev[n]] = listNext[n], ![n] = nullptr]
    /\ listPrev' = [listPrev EXCEPT ![listNext[n]] = listPrev[n], ![n] = nullptr]
    /\ UNCHANGED place

erase(n) == n \in Linked \ {root} /\ Unlink(n)

(* Also the destructor: a node in no list is left alone.                    *)
erase_from_parent(n) ==
    IF n \in Linked THEN Unlink(n) ELSE UNCHANGED vars

(* Of an empty list nothing is popped.                                      *)
pop_front == listNext[root] # root /\ Unlink(listNext[root])
pop_back == listPrev[root] # root /\ Unlink(listPrev[root])

(* Also the destructor of the list.                                         *)
clear ==
    /\ listNext' = [n \in All |-> IF n = root THEN root ELSE nullptr]
    /\ listPrev' = listNext'
    /\ UNCHANGED place

empty == listNext[root] = nullptr

Next ==
    \/ \E n \in Node : \/ push_front(n) \/ push_back(n)
                       \/ erase(n) \/ erase_from_parent(n)
    \/ \E p, n \in Node : insert_after(p, n) \/ insert_before(p, n)
    \/ pop_front \/ pop_back \/ clear

Spec == Init /\ [][Next]_vars
-----------------------------------------------------------------------------
(* The two directions agree: whoever is linked has linked neighbours that   *)
(* point back, and whoever is not is pointed to by nobody.                  *)
TwoWay ==
    /\ root \in Linked
    /\ \A n \in All : listNext[n] = nullptr <=> listPrev[n] = nullptr
    /\ \A n \in Linked : /\ listNext[n] \in Linked /\ listPrev[n] \in Linked
                         /\ listPrev[listNext[n]] = n /\ listNext[listPrev[n]] = n

(* There is one ring: along listNext the places grow until root comes       *)
(* again, so that a traversal ends and no node is linked beside the list.   *)
OneRing ==
    /\ place[root] = 0
    /\ \A n \in Linked : listNext[n] # root => place[n] < place[listNext[n]]

IInv == TypeOK /\ TwoWay /\ OneRing
=============================================================================
