------------------------ MODULE IntervalTreeSpecProofs ------------------------
(***************************************************************************)
(* An interval tree is ordered, knows how far it reaches and is searched   *)
(* rightly, whatever has been inserted in whatever order.                  *)
(***************************************************************************)
EXTENDS IntervalTreeSpec, IntervalTreeProofs

LEMMA NodesAreFresh == ProperNodes \subseteq FreshNodes
PROOF
<1>1. ASSUME NEW low \in Lines, NEW high \in Lines
      PROVE  /\ it_initnode(low, high, 2 * low) \in NodeType
             /\ it_initnode(low, high, 2 * low).max = it_initnode(low, high, 2 * low).high
  BY IntervalTreeAssumption DEF it_initnode, NodeType, Lines
<1> QED
  BY <1>1 DEF ProperNodes, Nodes, FreshNodes

LEMMA SearchTreeSafety == Spec => []IsSearchTree(tree)
PROOF
<1>1. Init => IsSearchTree(tree)
  BY NodesAreFresh, SingleNodeIsSearchTree DEF Init
<1>2. IsSearchTree(tree) /\ [Next]_tree => IsSearchTree(tree)'
  <2> SUFFICES ASSUME IsSearchTree(tree), NEW node \in ProperNodes, Insert(node)
               PROVE  IsSearchTree(tree')
    BY DEF Next
  <2> QED
    BY NodesAreFresh, InsertKeepsSearchTree DEF Insert
<1> QED
  BY <1>1, <1>2, PTL DEF Spec

\* However intervals are inserted, what is left of a node starts before it and
\* what is right of it does not (intervaltree.c:45-49).
THEOREM SearchOrderKept == Spec => []SearchOrder
PROOF
<1>1. IsSearchTree(tree) => SearchOrder
  <2> SUFFICES ASSUME IsTree(tree), IsOrdered(tree), NEW path \in DOMAIN tree
               PROVE  /\ path # Root => Front(path) \in DOMAIN tree
                      /\ \A q \in SubtreePaths(tree, LeftOf(path)) :
                            tree[q].low < tree[path].low
                      /\ \A q \in SubtreePaths(tree, RightOf(path)) :
                            tree[q].low >= tree[path].low
    BY DEF IsSearchTree, SearchOrder
  <2>1. ASSUME path # Root PROVE Front(path) \in DOMAIN tree
    <3>1. path \in Paths /\ path \in Seq(Sides) /\ Len(path) \in Nat \ {0}
      BY <2>1, EmptySeq DEF IsTree, Paths, Sides, Root
    <3>2. /\ Front(path) \in Seq(Sides)
          /\ Len(Front(path)) = Len(path) - 1
          /\ \A i \in 1 .. Len(path) - 1 : Front(path)[i] = path[i]
      <4> DEFINE n == Len(path) - 1
      <4>1. n \in Nat /\ n \in Int /\ 1 \in Int
        BY <3>1
      <4>2. \A i \in 1 .. n : path[i] \in Sides
        <5>1. \A i \in 1 .. n : i \in 1 .. Len(path)
          BY <3>1
        <5> QED
          BY <3>1, <5>1, ElementOfSeq
      <4>3. n = Len(path) - 1
        OBVIOUS
      <4> HIDE DEF n
      <4>4. /\ SubSeq(path, 1, n) \in Seq(Sides)
            /\ Len(SubSeq(path, 1, n)) = IF 1 <= n THEN n - 1 + 1 ELSE 0
            /\ \A i \in 1 .. n - 1 + 1 : SubSeq(path, 1, n)[i] = path[1 + i - 1]
        BY <4>1, <4>2, SubSeqProperties
      <4>5. Len(SubSeq(path, 1, n)) = n /\ \A i \in 1 .. n : SubSeq(path, 1, n)[i] = path[i]
        BY <4>1, <4>4
      <4> QED
        BY <4>3, <4>4, <4>5 DEF Front
    <3>3. Front(path) \in Paths
      BY <3>2 DEF Paths, Sides
    <3>4. IsPrefix(Front(path), path)
      BY <3>1, <3>2, <3>3, PrefixByIndex
    <3> QED
      BY <3>3, <3>4 DEF IsTree
  <2> QED
    BY <2>1 DEF IsOrdered
<1> QED
  BY <1>1, SearchTreeSafety, PTL

\* Every node knows how far the intervals at and below it reach, the "max value
\* present throughout entire subtree" (intervaltree.h:18).
THEOREM MaxKept == Spec => []MaxIsHighest
PROOF
<1>1. IsSearchTree(tree) => MaxIsHighest
  <2> SUFFICES ASSUME IsSearchTree(tree), NEW path \in DOMAIN tree
               PROVE  tree[path].max
                         = Max({tree[q].high : q \in SubtreePaths(tree, path)})
    BY DEF MaxIsHighest
  <2> DEFINE highs == {tree[q].high : q \in SubtreePaths(tree, path)}
             max   == tree[path].max
  <2>1. max \in Int /\ highs \in SUBSET Int
    BY DEF IsSearchTree, IsTree, SubtreePaths, NodeType
  <2>2. max \in highs /\ \A h \in highs : h <= max
    BY DEF IsSearchTree, HasMax
  <2> HIDE DEF highs, max
  <2>3. Max(highs) \in highs /\ \A h \in highs : h <= Max(highs)
    BY <2>1, <2>2, MaxUpTo
  <2>4. Max(highs) \in Int /\ Max(highs) <= max /\ max <= Max(highs)
    BY <2>1, <2>2, <2>3
  <2>5. max = Max(highs)
    BY <2>1, <2>4
  <2> QED
    BY <2>5 DEF highs, max
<1> QED
  BY <1>1, SearchTreeSafety, PTL

\* Both searches find a line just when an interval of the tree holds it
\* (intervaltree.c:64-108), in trees whose intervals overlap as well.
THEOREM SearchIsExact == Spec => []FindsExactly
PROOF
<1>1. IsSearchTree(tree) => FindsExactly
  <2> SUFFICES ASSUME IsSearchTree(tree), NEW x \in 0 .. MaxLine + 1
               PROVE  LET found == it_find(tree, x)
                          holds(path) == it_contains(tree[path].low, tree[path].high, x)
                      IN  /\ it_find_bool(tree, x) <=> \E path \in DOMAIN tree : holds(path)
                          /\ IF it_find_bool(tree, x)
                             THEN found \in DOMAIN tree /\ holds(found)
                             ELSE found = NoNode
    BY DEF FindsExactly
  <2>1. x \in Int
    BY IntervalTreeAssumption
  <2> QED
    BY <2>1, FindBoolProperties, FindProperties
<1> QED
  BY <1>1, SearchTreeSafety, PTL
=============================================================================
