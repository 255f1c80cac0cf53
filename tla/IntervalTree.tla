----------------------------- MODULE IntervalTree -----------------------------
(***************************************************************************)
(* Binary trees of intervals of line numbers, after src/intervaltree.c.    *)
(*                                                                         *)
(* A node is named by the path that leads to it from the root: a sequence  *)
(* of "L" and "R", << >> for the root.  A tree is a function from the      *)
(* paths that have a node to those nodes; following a pointer appends to   *)
(* the path, and a path outside the domain is a NULL pointer.              *)
(***************************************************************************)
EXTENDS Integers, Sequences, FiniteSets, FiniteSetsExt, SequencesExt

CONSTANT NoNode     \* the NULL IntervalNode pointer

Paths == Seq({"L", "R"})
Root == << >>
LeftOf(path) == Append(path, "L")
RightOf(path) == Append(path, "R")

\* The paths of the nodes at and below a node.
SubtreePaths(t, path) == {q \in DOMAIN t : IsPrefix(path, q)}

\* IntervalNode, its two pointers apart.
NodeType == [low : Nat, high : Nat, max : Nat, fpos_start : Int]

-----------------------------------------------------------------------------
\* Slips in the functions below, for the mutation checks.
InitSwapped(low, high, fpos) ==
    [low |-> high, high |-> low, max |-> high, fpos_start |-> fpos]
MaxFromLast(at, node) == [at EXCEPT !.max = node.high]
LeftReachesPast(t, path, x) ==
    LeftOf(path) \in DOMAIN t /\ t[LeftOf(path)].max > x

-----------------------------------------------------------------------------
\* A new node and, with the position it_setFpos stores, the tree of that node alone.
it_initnode(low, high, fpos) ==
    [low |-> low, high |-> high, max |-> high, fpos_start |-> fpos]
SingleNode(node) == [path \in {Root} |-> node]

it_contains(low, high, x) == low <= x /\ x <= high

\* The side of a node on which it_insert_recursive goes on.
InsertSide(t, path, node) ==
    IF node.low < t[path].low THEN LeftOf(path) ELSE RightOf(path)

\* The NULL pointer at which the recursion stops, from the root.
InsertPath(t, node) ==
    LET descend[path \in Paths] ==
            IF path \notin DOMAIN t THEN path ELSE descend[InsertSide(t, path, node)]
    IN  descend[Root]

\* On the way back up, the maximum of each ancestor is raised.
RaiseMax(at, node) == IF node.high > at.max THEN [at EXCEPT !.max = node.high] ELSE at

it_insert(t, node) ==
    LET path == InsertPath(t, node)
    IN  [q \in DOMAIN t \cup {path} |->
            IF q = path THEN node
            ELSE IF IsPrefix(q, path) THEN RaiseMax(t[q], node)
            ELSE t[q]]

\* The left subtree is searched when it reaches as far as x, the right one if not.
LeftReaches(t, path, x) ==
    LeftOf(path) \in DOMAIN t /\ t[LeftOf(path)].max >= x

it_find_bool(t, x) ==
    LET find[path \in Paths] ==
            /\ path \in DOMAIN t
            /\ x <= t[path].max
            /\ \/ it_contains(t[path].low, t[path].high, x)
               \/ find[IF LeftReaches(t, path, x) THEN LeftOf(path) ELSE RightOf(path)]
    IN  find[Root]

it_find(t, x) ==
    LET find[path \in Paths] ==
            IF path \notin DOMAIN t \/ x > t[path].max THEN NoNode
            ELSE IF it_contains(t[path].low, t[path].high, x) THEN path
            ELSE find[IF LeftReaches(t, path, x) THEN LeftOf(path) ELSE RightOf(path)]
    IN  find[Root]

it_getFpos(t, path) == t[path].fpos_start
=============================================================================
