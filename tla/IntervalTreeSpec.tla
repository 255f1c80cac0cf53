--------------------------- MODULE IntervalTreeSpec ---------------------------
(***************************************************************************)
(* An interval tree under any sequence of insertions that the interface of *)
(* src/intervaltree.h allows: intervals in any order, overlapping or not.  *)
(* Module TraceParser shows what insertion in file order leads to.  The    *)
(* program only inserts and follows right pointers: it calls no search.    *)
(***************************************************************************)
EXTENDS IntervalTree

CONSTANTS
    MaxLine,    \* lines are numbered from 1 to MaxLine
    MaxNodes    \* bound on the nodes of the tree

ASSUME IntervalTreeAssumption ==
    /\ MaxLine \in Nat \ {0}
    /\ MaxNodes \in Nat \ {0}
    /\ NoNode \notin Paths

VARIABLE tree

Lines == 1 .. MaxLine
\* The position of a line's interval in the file: any number that names it.
Nodes == {it_initnode(low, high, 2 * low) : low, high \in Lines}
ProperNodes == {node \in Nodes : node.low <= node.high}

Init == tree \in {SingleNode(node) : node \in ProperNodes}

Insert(node) == tree' = it_insert(tree, node)

Next ==
    /\ Cardinality(DOMAIN tree) < MaxNodes
    /\ \E node \in ProperNodes : Insert(node)

Spec == Init /\ [][Next]_tree

-----------------------------------------------------------------------------
\* Every node can be reached from the root; what is left of a node starts before
\* it, what is right of it does not: the order in which every search prunes
\* (intervaltree.c:45-49).
SearchOrder ==
    \A path \in DOMAIN tree :
        /\ path # Root => Front(path) \in DOMAIN tree
        /\ \A q \in SubtreePaths(tree, LeftOf(path)) : tree[q].low < tree[path].low
        /\ \A q \in SubtreePaths(tree, RightOf(path)) : tree[q].low >= tree[path].low

\* "max value present throughout entire subtree given by node"
\* (intervaltree.h:18): kept by the recursion on its way back up, for every
\* ancestor of every node ever inserted (intervaltree.c:51-54).
MaxIsHighest ==
    \A path \in DOMAIN tree :
        tree[path].max = Max({tree[q].high : q \in SubtreePaths(tree, path)})

\* "Finds an integer X within the entire tree" (intervaltree.h:44-61), although
\* the search looks into only one subtree of each node: it finds a node that
\* contains x whenever there is one, and both versions agree.
FindsExactly ==
    \A x \in 0 .. MaxLine + 1 :
        LET found == it_find(tree, x)
            holds(path) == it_contains(tree[path].low, tree[path].high, x)
        IN  /\ it_find_bool(tree, x) <=> \E path \in DOMAIN tree : holds(path)
            /\ IF it_find_bool(tree, x)
               THEN found \in DOMAIN tree /\ holds(found)
               ELSE found = NoNode
=============================================================================
