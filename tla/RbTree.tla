------------------------------- MODULE RbTree -------------------------------
(***************************************************************************)
(* RbTree (utils/rbtree.hpp): the links and colours of a red-black tree    *)
(* whose nodes live in the values themselves, as a record.  The two        *)
(* rotations, and the two halves of fixViolation, are one another's mirror *)
(* images: child[d] is rbLeft or rbRight.                                  *)
(***************************************************************************)
EXTENDS Naturals, Sequences

CONSTANTS Nodes, Null

Left == "left"
Right == "right"
Other(d) == IF d = Left THEN Right ELSE Left

EmptyTree == [root |-> Null,
              child |-> [d \in {Left, Right} |-> [x \in Nodes |-> Null]],
              parent |-> [x \in Nodes |-> Null],
              color |-> [x \in Nodes |-> "red"]]

-----------------------------------------------------------------------------
(* A slip the properties must notice; no specification uses it.             *)
ParentKept(t, x, p) == t           \* the moved child keeps its old parent

-----------------------------------------------------------------------------
\* The link that led to old, in p or in root, leads to new.
Relink(t, p, old, new) ==
    IF old = t.root THEN [t EXCEPT !.root = new]
    ELSE LET d == IF t.child[Left][p] = old THEN Left ELSE Right
         IN  [t EXCEPT !.child[d][p] = new]

SetParent(t, x, p) == IF x = Null THEN t ELSE [t EXCEPT !.parent[x] = p]

\* x goes down to the side d; its other child takes its place.
Rotate(t, x, d) ==
    LET up == t.child[Other(d)][x]
        inner == t.child[d][up]
        moved == Relink(t, t.parent[x], x, up)
        linked == [moved EXCEPT !.child[Other(d)][x] = inner, !.child[d][up] = x,
                                !.parent[up] = t.parent[x], !.parent[x] = up]
    IN  SetParent(linked, inner, x)

RECURSIVE fixViolation(_, _)
fixViolation(t, node) ==
    IF node = t.root \/ t.color[node] = "black" \/ t.color[t.parent[node]] = "black"
    THEN [t EXCEPT !.color[t.root] = "black"]
    ELSE LET parent == t.parent[node]
             grand == t.parent[parent]
             d == IF parent = t.child[Left][grand] THEN Left ELSE Right
             uncle == t.child[Other(d)][grand]
         IN  IF uncle # Null /\ t.color[uncle] = "red"
             THEN fixViolation([t EXCEPT !.color[grand] = "red",
                                         !.color[parent] = "black",
                                         !.color[uncle] = "black"], grand)
             ELSE LET bent == node = t.child[Other(d)][parent]
                      straight == IF bent THEN Rotate(t, parent, d) ELSE t
                      top == IF bent THEN node ELSE parent
                      turned == Rotate(straight, grand, Other(d))
                  IN  fixViolation([turned EXCEPT !.color[top] = t.color[grand],
                                                  !.color[grand] = t.color[top]],
                                   top)

\* Where node is to hang: before is compare(node, _).
RECURSIVE Descend(_, _, _, _)
Descend(t, current, parent, before) ==
    IF current = Null THEN parent
    ELSE Descend(t, t.child[IF current \in before THEN Left ELSE Right][current],
                 current, before)

\* before: the nodes that node is less than.
doInsert(t, node, before) ==
    LET parent == Descend(t, t.root, Null, before)
        fresh == [t EXCEPT !.child = [d \in {Left, Right} |-> [@[d] EXCEPT ![node] = Null]],
                           !.color[node] = "red", !.parent[node] = parent]
        d == IF parent \in before THEN Left ELSE Right
    IN  fixViolation(IF parent = Null THEN [fresh EXCEPT !.root = node]
                     ELSE [fresh EXCEPT !.child[d][parent] = node], node)

\* The second half of doErase takes node out, with the one child it has.
Unlink(t, node, child) ==
    Relink(SetParent(t, child, t.parent[node]), t.parent[node], node, child)

TwoChildren(t, x) == t.child[Left][x] # Null /\ t.child[Right][x] # Null

doErase(t, current) ==
    LET child == IF t.child[Left][current] # Null THEN t.child[Left][current]
                 ELSE t.child[Right][current]
        out == Unlink(t, current, child)
    IN  IF t.color[current] = "black" /\ out.root # Null
        THEN fixViolation(out, IF child # Null THEN child ELSE t.parent[current])
        ELSE out

RECURSIVE Outermost(_, _, _)
Outermost(t, x, d) == IF t.child[d][x] = Null THEN x ELSE Outermost(t, t.child[d][x], d)
getFront(t) == Outermost(t, t.root, Left)
getBack(t) == Outermost(t, t.root, Right)

(* doErase of a node with two children, as far as it takes the node out: its *)
(* successor is to replace it, but it is unlinked from the place it has left,*)
(* by links of current and not of its own parent.  Null means that the code  *)
(* follows a null pointer.                                                   *)
doEraseInner(t, current) ==
    LET replace == Outermost(t, t.child[Right][current], Left)
        up == t.parent[current]
        deep == t.parent[replace] # current
        lifted == IF ~deep THEN t
                  ELSE [t EXCEPT !.child[Left][up] = t.child[Right][replace],
                                 !.child[Right][replace] = t.child[Right][current],
                                 !.parent[t.child[Right][current]] = replace]
        placed == [Relink(lifted, up, current, replace)
                     EXCEPT !.child[Left][replace] = t.child[Left][current],
                            !.parent[t.child[Left][current]] = replace]
    IN  IF deep /\ up = Null THEN Null
        ELSE Unlink(placed, replace, placed.child[Right][replace])

RECURSIVE InOrder(_, _)
InOrder(t, x) == IF x = Null THEN <<>>
                 ELSE InOrder(t, t.child[Left][x]) \o <<x>> \o InOrder(t, t.child[Right][x])
=============================================================================
