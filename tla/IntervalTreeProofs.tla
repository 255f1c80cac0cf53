-------------------------- MODULE IntervalTreeProofs --------------------------
(***************************************************************************)
(* What insertion keeps of an interval tree, and what each search of       *)
(* src/intervaltree.c finds in it.                                         *)
(***************************************************************************)
EXTENDS IntervalTree, OrderProofs, SequenceTheorems

Sides == {"L", "R"}

\* The elements of a path and of what it is a prefix of.
LEMMA PrefixByIndex ==
    ASSUME NEW p \in Paths, NEW q \in Paths
    PROVE  IsPrefix(p, q) <=> Len(p) <= Len(q) /\ \A i \in 1 .. Len(p) : p[i] = q[i]
PROOF
<1>1. Len(p) \in Nat /\ Len(q) \in Nat
  BY DEF Paths
<1>2. SubSeq(p, 1, Len(p)) = p
  BY DEF Paths
<1>3. ASSUME Len(p) <= Len(q)
      PROVE  p = SubSeq(q, 1, Len(p)) <=> \A i \in 1 .. Len(p) : p[i] = q[i]
  <2> DEFINE s == SubSeq(q, 1, Len(p))
  <2>1. s \in Seq(Sides) /\ Len(s) = Len(p) /\ \A i \in 1 .. Len(p) : s[i] = q[i]
    BY <1>1, <1>3, SubSeqProperties DEF Paths, Sides
  <2> HIDE DEF s
  <2>2. (\A i \in 1 .. Len(p) : p[i] = s[i]) => p = s
    BY <2>1, SeqEqual DEF Paths, Sides
  <2> QED
    BY <2>1, <2>2 DEF s
<1> QED
  BY <1>2, <1>3 DEF IsPrefix

\* A path one step longer.
LEMMA StepProperties ==
    ASSUME NEW p \in Paths, NEW side \in Sides
    PROVE  /\ Append(p, side) \in Paths
           /\ Len(Append(p, side)) = Len(p) + 1
           /\ \A i \in 1 .. Len(p) : Append(p, side)[i] = p[i]
           /\ Append(p, side)[Len(p) + 1] = side
BY AppendProperties DEF Paths, Sides

\* Being a prefix is an order.
LEMMA PrefixOrder ==
    ASSUME NEW p \in Paths
    PROVE  /\ IsPrefix(p, p)
           /\ IsPrefix(Root, p) /\ Root \in Paths /\ Len(Root) = 0
           /\ \A q \in Paths : IsPrefix(p, q) /\ (Len(q) <= Len(p)) => p = q
           /\ \A q, r \in Paths : IsPrefix(p, q) /\ IsPrefix(q, r) => IsPrefix(p, r)
           /\ \A q, r \in Paths : IsPrefix(p, r) /\ IsPrefix(q, r) /\ Len(p) <= Len(q)
                 => IsPrefix(p, q)
PROOF
<1>0. Len(p) \in Nat /\ \A q \in Paths : Len(q) \in Nat
  BY DEF Paths
<1>1. IsPrefix(p, p)
  BY <1>0, PrefixByIndex
<1>2. Root \in Paths /\ Len(Root) = 0
  BY DEF Root, Paths
<1>3. IsPrefix(Root, p)
  BY <1>0, <1>2, PrefixByIndex
<1>4. ASSUME NEW q \in Paths, IsPrefix(p, q), Len(q) <= Len(p) PROVE p = q
  <2>1. Len(p) = Len(q) /\ \A i \in 1 .. Len(p) : p[i] = q[i]
    BY <1>0, <1>4, PrefixByIndex
  <2> QED
    BY <2>1, SeqEqual DEF Paths
<1>5. ASSUME NEW q \in Paths, NEW r \in Paths, IsPrefix(p, q), IsPrefix(q, r)
      PROVE  IsPrefix(p, r)
  <2>1. Len(p) <= Len(q) /\ \A i \in 1 .. Len(p) : p[i] = q[i]
    BY <1>5, PrefixByIndex
  <2>2. Len(q) <= Len(r) /\ \A i \in 1 .. Len(q) : q[i] = r[i]
    BY <1>5, PrefixByIndex
  <2>3. Len(p) <= Len(r) /\ \A i \in 1 .. Len(p) : p[i] = r[i]
    BY <1>0, <2>1, <2>2
  <2> QED
    BY <2>3, PrefixByIndex
<1>6. ASSUME NEW q \in Paths, NEW r \in Paths, IsPrefix(p, r), IsPrefix(q, r),
             Len(p) <= Len(q)
      PROVE  IsPrefix(p, q)
  <2>1. Len(p) <= Len(r) /\ \A i \in 1 .. Len(p) : p[i] = r[i]
    BY <1>6, PrefixByIndex
  <2>2. Len(q) <= Len(r) /\ \A i \in 1 .. Len(q) : q[i] = r[i]
    BY <1>6, PrefixByIndex
  <2>3. \A i \in 1 .. Len(p) : p[i] = q[i]
    BY <1>0, <1>6, <2>1, <2>2
  <2> QED
    BY <1>6, <2>3, PrefixByIndex
<1> QED
  BY <1>1, <1>2, <1>3, <1>4, <1>5, <1>6

\* What lies below one side of a node.
LEMMA PrefixOfStep ==
    ASSUME NEW p \in Paths, NEW side \in Sides, NEW q \in Paths
    PROVE  /\ IsPrefix(p, Append(p, side))
           /\ IsPrefix(Append(p, side), q) <=>
                 IsPrefix(p, q) /\ p # q /\ q[Len(p) + 1] = side
PROOF
<1> DEFINE s == Append(p, side)
<1>1. /\ s \in Paths /\ Len(s) = Len(p) + 1
      /\ \A i \in 1 .. Len(p) : s[i] = p[i]
      /\ s[Len(p) + 1] = side
      /\ Len(p) \in Nat /\ Len(q) \in Nat
  BY StepProperties DEF Paths
<1> HIDE DEF s
<1>2. IsPrefix(p, s)
  BY <1>1, PrefixByIndex
<1>3. ASSUME IsPrefix(s, q) PROVE IsPrefix(p, q) /\ p # q /\ q[Len(p) + 1] = side
  <2>1. Len(s) <= Len(q) /\ \A i \in 1 .. Len(s) : s[i] = q[i]
    BY <1>1, <1>3, PrefixByIndex
  <2>2. Len(p) < Len(q) /\ \A i \in 1 .. Len(p) : p[i] = q[i]
    BY <1>1, <2>1
  <2>3. q[Len(p) + 1] = side
    BY <1>1, <2>1
  <2> QED
    BY <1>1, <2>2, <2>3, PrefixByIndex
<1>4. ASSUME IsPrefix(p, q), p # q, q[Len(p) + 1] = side PROVE IsPrefix(s, q)
  <2>1. Len(p) < Len(q)
    BY <1>1, <1>4, PrefixOrder
  <2>2. \A i \in 1 .. Len(p) : p[i] = q[i]
    BY <1>4, PrefixByIndex
  <2>3. \A i \in 1 .. Len(s) : s[i] = q[i]
    BY <1>1, <1>4, <2>2
  <2> QED
    BY <1>1, <2>1, <2>3, PrefixByIndex
<1> QED
  BY <1>2, <1>3, <1>4 DEF s

-----------------------------------------------------------------------------
\* A search goes from path to path until it may stop: step says on which side.
\* It leads from p to q if q is the first path below p, on the way of the steps,
\* at which it may stop.
Leads(stop, step, p, q) ==
    /\ q \in stop
    /\ IsPrefix(p, q)
    /\ \A r \in Paths : IsPrefix(p, r) /\ IsPrefix(r, q) /\ r # q =>
          r \notin stop /\ IsPrefix(Append(r, step[r]), q)

\* One step of a search.
LEMMA LeadsOn ==
    ASSUME NEW stop \in SUBSET Paths, NEW step \in [Paths -> Sides],
           NEW p \in Paths, NEW q \in Paths
    PROVE  /\ p \in stop => (Leads(stop, step, p, q) <=> q = p)
           /\ p \notin stop =>
                (Leads(stop, step, p, q) <=> Leads(stop, step, Append(p, step[p]), q))
PROOF
<1> DEFINE s == Append(p, step[p])
<1>1. step[p] \in Sides /\ s \in Paths /\ Len(s) = Len(p) + 1
  BY StepProperties
<1>2. \A r \in Paths : IsPrefix(s, r) <=> IsPrefix(p, r) /\ p # r /\ r[Len(p) + 1] = step[p]
  BY <1>1, PrefixOfStep
<1> HIDE DEF s
<1>3. CASE p \in stop
  <2>1. ASSUME Leads(stop, step, p, q) PROVE q = p
    BY <1>3, <2>1, PrefixOrder DEF Leads
  <2>2. Leads(stop, step, p, p)
    <3>1. IsPrefix(p, p)
      BY PrefixOrder
    <3>2. ASSUME NEW r \in Paths, IsPrefix(p, r), IsPrefix(r, p) PROVE r = p
      <4>1. Len(r) <= Len(p)
        BY <3>2, PrefixByIndex
      <4> QED
        BY <3>2, <4>1, PrefixOrder
    <3> QED
      BY <1>3, <3>1, <3>2 DEF Leads
  <2> QED
    BY <1>3, <2>1, <2>2
<1>4. CASE p \notin stop
  <2>1. ASSUME Leads(stop, step, p, q) PROVE Leads(stop, step, s, q)
    <3>1. IsPrefix(p, p) /\ p # q
      BY <1>4, <2>1, PrefixOrder DEF Leads
    <3>2. IsPrefix(s, q)
      BY <2>1, <3>1 DEF Leads, s
    <3>3. \A r \in Paths : IsPrefix(s, r) => IsPrefix(p, r)
      BY <1>2
    <3> QED
      BY <2>1, <3>2, <3>3 DEF Leads
  <2>2. ASSUME Leads(stop, step, s, q) PROVE Leads(stop, step, p, q)
    <3>1. IsPrefix(p, q)
      BY <1>2, <2>2 DEF Leads
    <3>2. ASSUME NEW r \in Paths, IsPrefix(p, r), IsPrefix(r, q), r # q
          PROVE  r \notin stop /\ IsPrefix(Append(r, step[r]), q)
      <4>1. CASE r = p
        BY <1>4, <2>2, <4>1 DEF Leads, s
      <4>2. CASE r # p
        <5>1. Len(p) \in Nat /\ Len(r) \in Nat /\ Len(r) > Len(p)
          BY <3>2, <4>2, PrefixOrder DEF Paths
        <5>2. IsPrefix(s, q)
          BY <2>2 DEF Leads
        <5>3. IsPrefix(s, r)
          BY <1>1, <3>2, <5>1, <5>2, PrefixOrder
        <5> QED
          BY <2>2, <3>2, <5>3 DEF Leads
      <4> QED
        BY <4>1, <4>2
    <3> QED
      BY <2>2, <3>1, <3>2 DEF Leads
  <2> QED
    BY <1>4, <2>1, <2>2 DEF s
<1> QED
  BY <1>3, <1>4

\* What a search computes as a recursive function of where it starts.
Search(stop, step, base, f) ==
    [p \in Paths |-> IF p \in stop THEN base[p] ELSE f[Append(p, step[p])]]

\* There is such a function: what is found where the search leads.
LEMMA SearchExists ==
    ASSUME NEW stop \in SUBSET Paths, NEW step \in [Paths -> Sides], NEW base
    PROVE  \E f : /\ f = Search(stop, step, base, f)
                  /\ f = [p \in Paths |->
                            base[CHOOSE q \in Paths : Leads(stop, step, p, q)]]
PROOF
<1> DEFINE end(p) == CHOOSE q \in Paths : Leads(stop, step, p, q)
           f == [p \in Paths |-> base[end(p)]]
<1>0. \A p \in Paths : f[p] = base[end(p)]
  OBVIOUS
<1>1. ASSUME NEW p \in Paths
      PROVE  f[p] = IF p \in stop THEN base[p] ELSE f[Append(p, step[p])]
  <2>1. CASE p \in stop
    <3>1. end(p) = p
      BY <2>1, LeadsOn
    <3> HIDE DEF f, end
    <3> QED
      BY <1>0, <2>1, <3>1
  <2>2. CASE p \notin stop
    <3>1. Append(p, step[p]) \in Paths
      BY StepProperties
    <3>2. \A q \in Paths : Leads(stop, step, p, q) <=> Leads(stop, step, Append(p, step[p]), q)
      BY <2>2, LeadsOn
    <3>3. end(p) = end(Append(p, step[p]))
      BY <3>2
    <3> HIDE DEF f, end
    <3> QED
      BY <1>0, <2>2, <3>1, <3>3
  <2> QED
    BY <2>1, <2>2
<1>2. f = Search(stop, step, base, f)
  <2>1. f = [p \in Paths |-> f[p]]
    OBVIOUS
  <2> HIDE DEF f
  <2> QED
    BY <1>1, <2>1 DEF Search
<1> QED
  BY <1>2

\* Every path that is long enough is one at which the search may stop.
HasDepth(stop) == \E depth \in Nat : \A p \in Paths \ stop : Len(p) <= depth

\* What a function has for p is what is found where the search from p leads.
Finds(stop, step, base, f, p) ==
    \E q \in Paths : Leads(stop, step, p, q) /\ f[p] = base[q]

\* In a tree of finite depth there is no other, and each search leads somewhere.
LEMMA SearchEnds ==
    ASSUME NEW stop \in SUBSET Paths, NEW step \in [Paths -> Sides], HasDepth(stop),
           NEW base, NEW f, f = Search(stop, step, base, f),
           NEW p \in Paths
    PROVE  Finds(stop, step, base, f, p)
PROOF
<1> DEFINE Good(s) == \E q \in Paths : Leads(stop, step, s, q) /\ f[s] = base[q]
           lost == {s \in Paths : ~ Good(s)}
           lengths == {Len(s) : s \in lost}
<1>0. ASSUME NEW s \in Paths
      PROVE  f[s] = IF s \in stop THEN base[s] ELSE f[Append(s, step[s])]
  BY DEF Search
<1> PICK depth \in Nat : \A r \in Paths \ stop : Len(r) <= depth
  BY DEF HasDepth
<1>1. \A s \in lost : s \notin stop
  BY <1>0, LeadsOn
<1>2. lost = {}
  <2> SUFFICES ASSUME lost # {} PROVE FALSE
    OBVIOUS
  <2>1. lengths \in SUBSET Int /\ lengths # {} /\ \A n \in lengths : n <= depth
    <3>1. \A s \in lost : Len(s) \in Int /\ Len(s) <= depth
      BY <1>1 DEF Paths
    <3> HIDE DEF lost
    <3> QED
      BY <3>1
  <2>2. PICK n \in lengths : \A m \in lengths : m <= n
    <3> HIDE DEF lengths
    <3>1. depth \in Int
      OBVIOUS
    <3>2. Max(lengths) \in lengths /\ \A m \in lengths : m <= Max(lengths)
      BY <2>1, <3>1, MaxUpTo
    <3> QED
      BY <3>2
  <2>3. PICK s \in lost : n = Len(s)
    BY <2>2
  <2> DEFINE next == Append(s, step[s])
  <2>4. s \in Paths /\ s \notin stop /\ next \in Paths /\ Len(next) = Len(s) + 1
        /\ Len(s) \in Int
    BY <1>1, <2>3, StepProperties DEF Paths
  <2>5. Good(next)
    <3>1. ~ (Len(next) <= n)
      BY <2>3, <2>4
    <3>2. next \notin lost
      BY <2>2, <3>1
    <3> QED
      BY <2>4, <3>2
  <2>6. PICK q \in Paths : Leads(stop, step, next, q) /\ f[next] = base[q]
    BY <2>5
  <2>7. Leads(stop, step, s, q) /\ f[s] = base[q]
    BY <1>0, <2>4, <2>6, LeadsOn
  <2> QED
    BY <2>3, <2>7
<1> QED
  BY <1>2 DEF Finds

-----------------------------------------------------------------------------
\* A subtree of a tree: nothing hangs in the air, and paths have an end.
IsTree(t) ==
    /\ t = [p \in DOMAIN t |-> t[p]]
    /\ DOMAIN t \subseteq Paths /\ Root \in DOMAIN t
    /\ \A p \in DOMAIN t : t[p] \in NodeType /\ t[p].low <= t[p].high
    /\ \A p \in DOMAIN t : \A r \in Paths : IsPrefix(r, p) => r \in DOMAIN t
    /\ \E depth \in Nat : \A p \in DOMAIN t : Len(p) <= depth

\* What is left of a node starts before it, what is right of it does not.
IsOrdered(t) ==
    \A p \in DOMAIN t :
        /\ \A q \in SubtreePaths(t, LeftOf(p)) : t[q].low < t[p].low
        /\ \A q \in SubtreePaths(t, RightOf(p)) : t[q].low >= t[p].low

\* The max of a node is the highest line at or below it.
HasMax(t) ==
    \A p \in DOMAIN t :
        /\ \E q \in SubtreePaths(t, p) : t[p].max = t[q].high
        /\ \A q \in SubtreePaths(t, p) : t[q].high <= t[p].max

IsSearchTree(t) == IsTree(t) /\ IsOrdered(t) /\ HasMax(t)

\* A node as it_initnode leaves it, over a run of lines.
FreshNodes == {node \in NodeType : node.low <= node.high /\ node.max = node.high}

\* The sides of a node are one step below it.
LEMMA SidesOf ==
    ASSUME NEW p \in Paths
    PROVE  /\ LeftOf(p) = Append(p, "L") /\ RightOf(p) = Append(p, "R")
           /\ LeftOf(p) \in Paths /\ RightOf(p) \in Paths
           /\ \A q \in Paths : IsPrefix(LeftOf(p), q)
                 <=> IsPrefix(p, q) /\ p # q /\ q[Len(p) + 1] = "L"
           /\ \A q \in Paths : IsPrefix(RightOf(p), q)
                 <=> IsPrefix(p, q) /\ p # q /\ q[Len(p) + 1] = "R"
           /\ \A q \in Paths : IsPrefix(p, q) /\ p # q => q[Len(p) + 1] \in Sides
PROOF
<1>1. "L" \in Sides /\ "R" \in Sides
  BY DEF Sides
<1>2. LeftOf(p) = Append(p, "L") /\ RightOf(p) = Append(p, "R")
  BY DEF LeftOf, RightOf
<1>3. ASSUME NEW q \in Paths, IsPrefix(p, q), p # q PROVE q[Len(p) + 1] \in Sides
  <2>1. Len(p) \in Nat /\ Len(q) \in Nat /\ Len(p) < Len(q)
    BY <1>3, PrefixOrder DEF Paths
  <2>2. Len(p) + 1 \in 1 .. Len(q) /\ q \in Seq(Sides)
    BY <2>1 DEF Paths, Sides
  <2> QED
    BY <2>2, ElementOfSeq
<1> QED
  BY <1>1, <1>2, <1>3, StepProperties, PrefixOfStep

\* The recursion of it_insert_recursive ends at a NULL pointer on the side of
\* every node above where the new one belongs (intervaltree.c:36-49).
LEMMA InsertPathProperties ==
    ASSUME NEW t, IsTree(t), NEW node
    PROVE  LET path == InsertPath(t, node)
           IN  /\ path \in Paths /\ path \notin DOMAIN t
               /\ \A r \in Paths : IsPrefix(r, path) /\ r # path =>
                     r \in DOMAIN t /\ IsPrefix(InsertSide(t, r, node), path)
PROOF
<1> DEFINE stop == Paths \ DOMAIN t
           step == [p \in Paths |-> IF node.low < t[p].low THEN "L" ELSE "R"]
           base == [p \in Paths |-> p]
           Descends(f) == f = [p \in Paths |->
                IF p \notin DOMAIN t THEN p ELSE f[InsertSide(t, p, node)]]
           descend == CHOOSE f : Descends(f)
           path == InsertPath(t, node)
<1>1. stop \in SUBSET Paths /\ step \in [Paths -> Sides]
  BY DEF Sides
<1>2. \A p \in Paths : InsertSide(t, p, node) = Append(p, step[p])
  BY DEF InsertSide, LeftOf, RightOf
<1>3. \A f : Descends(f) <=> f = Search(stop, step, base, f)
  <2> SUFFICES ASSUME NEW f
               PROVE  Descends(f) <=> f = Search(stop, step, base, f)
    OBVIOUS
  <2>1. \A p \in Paths : (IF p \notin DOMAIN t THEN p ELSE f[InsertSide(t, p, node)])
                         = IF p \in stop THEN base[p] ELSE f[Append(p, step[p])]
    <3>1. \A p \in Paths : base[p] = p /\ (p \in stop <=> p \notin DOMAIN t)
      OBVIOUS
    <3> HIDE DEF stop, step, base
    <3> QED
      BY <1>2, <3>1
  <2> HIDE DEF stop, step, base
  <2> QED
    BY <2>1 DEF Search
<1>4. path = descend[Root]
  BY DEF InsertPath
<1> HIDE DEF stop, step, base
<1>5. descend = Search(stop, step, base, descend)
  <2>1. \E f : Descends(f)
    BY <1>1, <1>3, SearchExists
  <2>2. Descends(descend)
    <3> HIDE DEF Descends
    <3> QED
      BY <2>1
  <2> QED
    BY <1>3, <2>2
<1> HIDE DEF descend
<1>6. PICK q \in Paths : Leads(stop, step, Root, q) /\ descend[Root] = base[q]
  <2>1. HasDepth(stop)
    BY DEF IsTree, HasDepth, stop
  <2>2. Root \in Paths
    BY DEF IsTree
  <2>3. Finds(stop, step, base, descend, Root)
    BY <1>1, <1>5, <2>1, <2>2, SearchEnds
  <2> QED
    BY <2>3 DEF Finds
<1>7. path = q
  BY <1>4, <1>6 DEF base
<1>8. q \notin DOMAIN t
  BY <1>6 DEF Leads, stop
<1>9. ASSUME NEW r \in Paths, IsPrefix(r, q), r # q
      PROVE  r \in DOMAIN t /\ IsPrefix(InsertSide(t, r, node), q)
  <2>1. IsPrefix(Root, r)
    BY PrefixOrder
  <2>2. r \notin stop /\ IsPrefix(Append(r, step[r]), q)
    BY <1>6, <1>9, <2>1 DEF Leads
  <2> QED
    BY <1>2, <2>2 DEF stop
<1> HIDE DEF path
<1> QED
  BY <1>7, <1>8, <1>9 DEF path

\* t2 is t with a node at path, node by node.
IsInsertion(t, node, path, t2) ==
    /\ t2 = [q \in DOMAIN t2 |-> t2[q]]
    /\ DOMAIN t2 = DOMAIN t \cup {path} /\ path \notin DOMAIN t
    /\ t2[path] = node
    /\ \A q \in DOMAIN t :
          /\ t2[q] \in NodeType
          /\ t2[q].low = t[q].low /\ t2[q].high = t[q].high
          /\ t2[q].fpos_start = t[q].fpos_start
          /\ t2[q].max = IF IsPrefix(q, path) /\ node.high > t[q].max
                         THEN node.high ELSE t[q].max

LEMMA InsertEffect ==
    ASSUME NEW t, IsTree(t), NEW node \in FreshNodes
    PROVE  IsInsertion(t, node, InsertPath(t, node), it_insert(t, node))
PROOF
<1> DEFINE path == InsertPath(t, node)
           t2   == it_insert(t, node)
<1>1. path \notin DOMAIN t
  BY InsertPathProperties
<1>2. t2 = [q \in DOMAIN t \cup {path} |->
            IF q = path THEN node
            ELSE IF IsPrefix(q, path) THEN RaiseMax(t[q], node)
            ELSE t[q]]
  BY DEF it_insert
<1> HIDE DEF path, t2
<1>3. ASSUME NEW q \in DOMAIN t
      PROVE  /\ t2[q] \in NodeType
             /\ t2[q].low = t[q].low /\ t2[q].high = t[q].high
             /\ t2[q].fpos_start = t[q].fpos_start
             /\ t2[q].max = IF IsPrefix(q, path) /\ node.high > t[q].max
                            THEN node.high ELSE t[q].max
  <2>1. q # path /\ t[q] \in NodeType /\ node \in NodeType
    BY <1>1 DEF IsTree, FreshNodes
  <2>2. t2[q] = IF IsPrefix(q, path) THEN RaiseMax(t[q], node) ELSE t[q]
    BY <1>2, <2>1
  <2>3. CASE IsPrefix(q, path) /\ node.high > t[q].max
    <3>1. t2[q] = [t[q] EXCEPT !.max = node.high]
      BY <2>2, <2>3 DEF RaiseMax
    <3> QED
      BY <2>1, <2>3, <3>1 DEF NodeType
  <2>4. CASE ~ (IsPrefix(q, path) /\ node.high > t[q].max)
    <3>1. t2[q] = t[q]
      BY <2>2, <2>4 DEF RaiseMax
    <3> QED
      BY <2>1, <2>4, <3>1
  <2> QED
    BY <2>3, <2>4
<1>4. DOMAIN t2 = DOMAIN t \cup {path} /\ t2[path] = node /\ t2 = [q \in DOMAIN t2 |-> t2[q]]
  BY <1>2
<1>5. IsInsertion(t, node, path, t2)
  BY <1>1, <1>3, <1>4 DEF IsInsertion
<1> QED
  BY <1>5 DEF path, t2

\* An insertion keeps a tree a tree.
LEMMA InsertKeepsTree ==
    ASSUME NEW t, IsTree(t), NEW node \in FreshNodes
    PROVE  IsTree(it_insert(t, node))
PROOF
<1> DEFINE path == InsertPath(t, node)
           t2   == it_insert(t, node)
<1>0. IsInsertion(t, node, path, t2)
  BY InsertEffect
<1>1. /\ path \in Paths
      /\ \A r \in Paths : IsPrefix(r, path) /\ r # path => r \in DOMAIN t
  BY InsertPathProperties
<1> HIDE DEF path, t2
<1>2. /\ t2 = [q \in DOMAIN t2 |-> t2[q]]
      /\ DOMAIN t2 = DOMAIN t \cup {path}
      /\ t2[path] = node
      /\ \A q \in DOMAIN t :
            t2[q] \in NodeType /\ t2[q].low = t[q].low /\ t2[q].high = t[q].high
  BY <1>0 DEF IsInsertion
<1>3. DOMAIN t2 \subseteq Paths /\ Root \in DOMAIN t2
  BY <1>2, <1>1 DEF IsTree
<1>4. \A p \in DOMAIN t2 : t2[p] \in NodeType /\ t2[p].low <= t2[p].high
  BY <1>2 DEF IsTree, FreshNodes
<1>5. \A p \in DOMAIN t2 : \A r \in Paths : IsPrefix(r, p) => r \in DOMAIN t2
  BY <1>2, <1>1 DEF IsTree
<1>6. \E depth \in Nat : \A p \in DOMAIN t2 : Len(p) <= depth
  <2>1. PICK depth \in Nat : \A p \in DOMAIN t : Len(p) <= depth
    BY DEF IsTree
  <2> DEFINE deeper == IF Len(path) > depth THEN Len(path) ELSE depth
  <2>2. Len(path) \in Nat /\ \A p \in DOMAIN t : Len(p) \in Nat
    BY <1>1 DEF IsTree, Paths
  <2>3. deeper \in Nat /\ \A p \in DOMAIN t2 : Len(p) <= deeper
    BY <1>2, <2>1, <2>2
  <2> HIDE DEF deeper
  <2> QED
    BY <2>3
<1>7. IsTree(t2)
  BY <1>2, <1>3, <1>4, <1>5, <1>6 DEF IsTree
<1> QED
  BY <1>7 DEF t2

\* An insertion goes to the side of every node above on which it belongs
\* (intervaltree.c:45-49).
LEMMA InsertKeepsOrder ==
    ASSUME NEW t, IsTree(t), IsOrdered(t), NEW node \in FreshNodes
    PROVE  IsOrdered(it_insert(t, node))
PROOF
<1> DEFINE path == InsertPath(t, node)
           t2   == it_insert(t, node)
<1>0. IsInsertion(t, node, path, t2)
  BY InsertEffect
<1>1. /\ path \in Paths
      /\ \A r \in Paths : IsPrefix(r, path) /\ r # path =>
            IsPrefix(InsertSide(t, r, node), path)
  BY InsertPathProperties
<1> HIDE DEF path, t2
<1>2. /\ DOMAIN t2 = DOMAIN t \cup {path} /\ path \notin DOMAIN t
      /\ t2[path] = node
      /\ \A q \in DOMAIN t : t2[q].low = t[q].low
  BY <1>0 DEF IsInsertion
<1>3. DOMAIN t \subseteq Paths /\ \A p \in DOMAIN t : t[p].low \in Nat
  BY DEF IsTree, NodeType
<1>4. node.low \in Nat
  BY DEF FreshNodes, NodeType
<1>5. ASSUME NEW p \in DOMAIN t2, NEW q \in DOMAIN t2
      PROVE  /\ IsPrefix(LeftOf(p), q) => t2[q].low < t2[p].low
             /\ IsPrefix(RightOf(p), q) => t2[q].low >= t2[p].low
  <2>1. /\ p \in Paths /\ q \in Paths
        /\ IsPrefix(LeftOf(p), q) => IsPrefix(p, q) /\ p # q /\ q[Len(p) + 1] = "L"
        /\ IsPrefix(RightOf(p), q) => IsPrefix(p, q) /\ p # q /\ q[Len(p) + 1] = "R"
    <3>1. p \in Paths /\ q \in Paths
      BY <1>2, <1>1, <1>3
    <3> QED
      BY <3>1, SidesOf
  <2>2. CASE p = path
    <3>1. ~ (IsPrefix(p, q) /\ p # q)
      BY <1>2, <2>1, <2>2 DEF IsTree
    <3> QED
      BY <2>1, <3>1
  <2>3. CASE p # path /\ q # path
    <3>1. p \in DOMAIN t /\ q \in DOMAIN t
      BY <1>2, <2>3
    <3>2. /\ IsPrefix(LeftOf(p), q) => t[q].low < t[p].low
          /\ IsPrefix(RightOf(p), q) => t[q].low >= t[p].low
      BY <3>1 DEF IsOrdered, SubtreePaths
    <3> QED
      BY <1>2, <3>1, <3>2
  <2>4. CASE p # path /\ q = path
    <3>1. p \in DOMAIN t /\ t2[p].low = t[p].low /\ t2[q] = node
      BY <1>2, <2>4
    <3>2. ASSUME IsPrefix(LeftOf(p), q) PROVE node.low < t[p].low
      <4>1. IsPrefix(InsertSide(t, p, node), path)
        BY <1>1, <2>1, <2>4, <3>2
      <4>2. path[Len(p) + 1] = "L"
        BY <2>1, <2>4, <3>2
      <4>3. ~ IsPrefix(RightOf(p), path)
        BY <2>1, <2>4, <4>2
      <4> QED
        BY <4>1, <4>3 DEF InsertSide
    <3>3. ASSUME IsPrefix(RightOf(p), q) PROVE node.low >= t[p].low
      <4>1. IsPrefix(InsertSide(t, p, node), path)
        BY <1>1, <2>1, <2>4, <3>3
      <4>2. path[Len(p) + 1] = "R"
        BY <2>1, <2>4, <3>3
      <4>3. ~ IsPrefix(LeftOf(p), path)
        BY <2>1, <2>4, <4>2
      <4>4. ~ (node.low < t[p].low)
        BY <4>1, <4>3 DEF InsertSide
      <4> QED
        BY <1>3, <1>4, <3>1, <4>4
    <3> QED
      BY <3>1, <3>2, <3>3
  <2> QED
    BY <2>2, <2>3, <2>4
<1>6. IsOrdered(t2)
  BY <1>5 DEF IsOrdered, SubtreePaths
<1> QED
  BY <1>6 DEF t2

\* On the way back up each ancestor learns how far the new node reaches
\* (intervaltree.c:51-54).
LEMMA InsertKeepsMax ==
    ASSUME NEW t, IsTree(t), HasMax(t), NEW node \in FreshNodes
    PROVE  HasMax(it_insert(t, node))
PROOF
<1> DEFINE path == InsertPath(t, node)
           t2   == it_insert(t, node)
<1>0. IsInsertion(t, node, path, t2)
  BY InsertEffect
<1>1. path \in Paths
  BY InsertPathProperties
<1> HIDE DEF path, t2
<1>2. /\ DOMAIN t2 = DOMAIN t \cup {path} /\ path \notin DOMAIN t
      /\ t2[path] = node
      /\ \A q \in DOMAIN t :
            /\ t2[q].high = t[q].high
            /\ t2[q].max = IF IsPrefix(q, path) /\ node.high > t[q].max
                           THEN node.high ELSE t[q].max
  BY <1>0 DEF IsInsertion
<1>3. DOMAIN t \subseteq Paths /\ \A p \in DOMAIN t : t[p].max \in Nat /\ t[p].high \in Nat
  BY DEF IsTree, NodeType
<1>4. node.high \in Nat /\ node.max = node.high
  BY DEF FreshNodes, NodeType
<1>5. ASSUME NEW p \in DOMAIN t2
      PROVE  /\ \E q \in SubtreePaths(t2, p) : t2[p].max = t2[q].high
             /\ \A q \in SubtreePaths(t2, p) : t2[q].high <= t2[p].max
  <2>1. CASE p = path
    <3>1. IsPrefix(path, path)
      BY <1>1, PrefixOrder
    <3>2. \A q \in DOMAIN t : ~ IsPrefix(path, q)
      BY <1>2, <1>1 DEF IsTree
    <3>3. SubtreePaths(t2, path) = {path}
      BY <1>2, <3>1, <3>2 DEF SubtreePaths
    <3> QED
      BY <1>2, <1>4, <2>1, <3>3
  <2>2. CASE p # path /\ ~ IsPrefix(p, path)
    <3>1. p \in DOMAIN t /\ t2[p].max = t[p].max
      BY <1>2, <2>2
    <3>2. SubtreePaths(t2, p) = SubtreePaths(t, p)
      BY <1>2, <2>2 DEF SubtreePaths
    <3>3. \A q \in SubtreePaths(t, p) : t2[q].high = t[q].high
      BY <1>2 DEF SubtreePaths
    <3> QED
      BY <3>1, <3>2, <3>3 DEF HasMax
  <2>3. CASE p # path /\ IsPrefix(p, path)
    <3>1. p \in DOMAIN t /\ t2[p].max = IF node.high > t[p].max THEN node.high ELSE t[p].max
      BY <1>2, <2>3
    <3>2. SubtreePaths(t2, p) = SubtreePaths(t, p) \cup {path}
      BY <1>2, <2>3 DEF SubtreePaths
    <3>3. \A q \in SubtreePaths(t, p) : t2[q].high = t[q].high /\ t[q].high \in Nat
      BY <1>2, <1>3 DEF SubtreePaths
    <3>4. /\ t[p].max \in Nat
          /\ \A q \in SubtreePaths(t, p) : t[q].high <= t[p].max
      BY <1>3, <3>1 DEF HasMax
    <3>5. PICK q \in SubtreePaths(t, p) : t[p].max = t[q].high
      BY <3>1 DEF HasMax
    <3>6. \A r \in SubtreePaths(t2, p) : t2[r].high <= t2[p].max
      BY <1>2, <1>4, <3>1, <3>2, <3>3, <3>4
    <3>7. \E r \in SubtreePaths(t2, p) : t2[p].max = t2[r].high
      BY <1>2, <1>4, <3>1, <3>2, <3>3, <3>5
    <3> QED
      BY <3>6, <3>7
  <2> QED
    BY <2>1, <2>2, <2>3
<1>6. HasMax(t2)
  BY <1>5 DEF HasMax
<1> QED
  BY <1>6 DEF t2

LEMMA InsertKeepsSearchTree ==
    ASSUME NEW t, IsSearchTree(t), NEW node \in FreshNodes
    PROVE  IsSearchTree(it_insert(t, node))
BY InsertKeepsTree, InsertKeepsOrder, InsertKeepsMax DEF IsSearchTree

\* The tree that Process_init begins with.
LEMMA SingleNodeIsSearchTree ==
    ASSUME NEW node \in FreshNodes
    PROVE  IsSearchTree(SingleNode(node))
PROOF
<1> DEFINE t == SingleNode(node)
<1>1. t = [p \in {Root} |-> node] /\ node \in NodeType /\ node.low <= node.high
      /\ node.max = node.high /\ node.high \in Nat
  BY DEF SingleNode, FreshNodes, NodeType
<1>2. DOMAIN t = {Root} /\ t[Root] = node /\ t = [p \in DOMAIN t |-> t[p]]
  BY <1>1
<1> HIDE DEF t
<1>3. Root \in Paths /\ Len(Root) = 0 /\ IsPrefix(Root, Root)
      /\ \A r \in Paths : IsPrefix(r, Root) => r = Root
  <2>1. Root \in Paths /\ Len(Root) = 0
    BY DEF Root, Paths
  <2>2. \A r \in Paths : IsPrefix(Root, r) /\ Len(r) \in Nat
    BY PrefixOrder DEF Paths
  <2>3. \A r \in Paths : IsPrefix(r, Root) => Len(r) <= Len(Root)
    BY <2>1, PrefixByIndex
  <2> QED
    BY <2>1, <2>2, <2>3, PrefixOrder
<1>4. IsTree(t)
  <2>1. \A p \in DOMAIN t : Len(p) <= 0
    BY <1>2, <1>3
  <2> QED
    BY <1>1, <1>2, <1>3, <2>1 DEF IsTree
<1>5. IsOrdered(t)
  <2>1. ~ IsPrefix(LeftOf(Root), Root) /\ ~ IsPrefix(RightOf(Root), Root)
    BY <1>3, SidesOf
  <2> QED
    BY <1>2, <2>1 DEF IsOrdered, SubtreePaths
<1>6. HasMax(t)
  <2>1. SubtreePaths(t, Root) = {Root}
    BY <1>2, <1>3 DEF SubtreePaths
  <2> QED
    BY <1>1, <1>2, <2>1 DEF HasMax
<1> QED
  BY <1>4, <1>5, <1>6 DEF IsSearchTree, t

-----------------------------------------------------------------------------
\* A node that holds the lines from x to y, those that a search is for.
Holds(t, p, x, y) == t[p].low <= x /\ y <= t[p].high

\* Where a search for them may stop, and the side it goes on to.
SearchStops(t, x, y) == {p \in Paths : p \notin DOMAIN t \/ y > t[p].max \/ Holds(t, p, x, y)}
SearchSides(t, y) == [p \in Paths |-> IF LeftReaches(t, p, y) THEN "L" ELSE "R"]

\* The side that a search leaves out has no node it looks for, unless the one it
\* goes on to has one as well (intervaltree.c:78-83).
LEMMA SearchTurns ==
    ASSUME NEW t, IsSearchTree(t), NEW x \in Int, NEW y \in Int,
           NEW p \in DOMAIN t, ~ Holds(t, p, x, y),
           NEW s \in SubtreePaths(t, p), Holds(t, s, x, y)
    PROVE  \E r \in SubtreePaths(t, Append(p, SearchSides(t, y)[p])) : Holds(t, r, x, y)
PROOF
<1> USE DEF IsSearchTree
<1>1. p \in Paths /\ s \in DOMAIN t /\ s \in Paths /\ IsPrefix(p, s) /\ p # s
  BY DEF IsTree, SubtreePaths
<1>2. \A q \in DOMAIN t : t[q].low \in Nat /\ t[q].high \in Nat /\ t[q].max \in Nat
  BY DEF IsTree, NodeType
<1>3. /\ LeftOf(p) \in Paths /\ LeftOf(p) = Append(p, "L") /\ RightOf(p) = Append(p, "R")
      /\ IsPrefix(LeftOf(p), s) \/ IsPrefix(RightOf(p), s)
  <2>1. s[Len(p) + 1] \in {"L", "R"}
    BY <1>1, SidesOf DEF Sides
  <2> QED
    BY <1>1, <2>1, SidesOf
<1>4. CASE LeftReaches(t, p, y)
  <2>1. SearchSides(t, y)[p] = "L"
    BY <1>1, <1>4 DEF SearchSides
  <2>2. CASE IsPrefix(LeftOf(p), s)
    BY <1>1, <1>3, <2>1, <2>2 DEF SubtreePaths
  <2>3. CASE IsPrefix(RightOf(p), s)
    <3>1. LeftOf(p) \in DOMAIN t /\ t[LeftOf(p)].max >= y
      BY <1>4 DEF LeftReaches
    <3>2. PICK q \in SubtreePaths(t, LeftOf(p)) : t[LeftOf(p)].max = t[q].high
      BY <3>1 DEF HasMax
    <3>3. q \in DOMAIN t /\ t[q].low < t[p].low
      BY <3>2 DEF IsOrdered, SubtreePaths
    <3>4. t[s].low >= t[p].low
      BY <1>1, <2>3 DEF IsOrdered, SubtreePaths
    <3>5. t[q].low <= x /\ y <= t[q].high
      BY <1>1, <1>2, <3>1, <3>2, <3>3, <3>4 DEF Holds
    <3> QED
      BY <1>3, <2>1, <3>2, <3>5 DEF Holds
  <2> QED
    BY <1>3, <2>2, <2>3
<1>5. CASE ~ LeftReaches(t, p, y)
  <2>1. SearchSides(t, y)[p] = "R"
    BY <1>1, <1>5 DEF SearchSides
  <2>2. ASSUME IsPrefix(LeftOf(p), s) PROVE FALSE
    <3>1. LeftOf(p) \in DOMAIN t
      BY <1>1, <1>3, <2>2 DEF IsTree
    <3>2. t[s].high <= t[LeftOf(p)].max
      BY <1>1, <2>2, <3>1 DEF HasMax, SubtreePaths
    <3>3. ~ (t[LeftOf(p)].max >= y)
      BY <1>5, <3>1 DEF LeftReaches
    <3> QED
      BY <1>1, <1>2, <3>1, <3>2, <3>3 DEF Holds
  <2>3. s \in SubtreePaths(t, RightOf(p))
    BY <1>1, <1>3, <2>2 DEF SubtreePaths
  <2> QED
    BY <1>3, <2>1, <2>3
<1> QED
  BY <1>4, <1>5

\* A search ends at a node that holds the lines if there is one in the tree.
LEMMA SearchFinds ==
    ASSUME NEW t, IsSearchTree(t), NEW x \in Int, NEW y \in Int, NEW q \in Paths,
           Leads(SearchStops(t, x, y), SearchSides(t, y), Root, q)
    PROVE  (\E s \in DOMAIN t : Holds(t, s, x, y)) <=> q \in DOMAIN t /\ Holds(t, q, x, y)
PROOF
<1> SUFFICES ASSUME NEW s0 \in DOMAIN t, Holds(t, s0, x, y)
             PROVE  q \in DOMAIN t /\ Holds(t, q, x, y)
  OBVIOUS
<1> DEFINE stops == SearchStops(t, x, y)
           sides == SearchSides(t, y)
           Good(r) == \E s \in SubtreePaths(t, r) : Holds(t, s, x, y)
           lost == {r \in Paths : IsPrefix(r, q) /\ ~ Good(r)}
           lengths == {Len(r) : r \in lost}
<1>1. DOMAIN t \subseteq Paths /\ \A p \in DOMAIN t : t[p].max \in Nat /\ t[p].high \in Nat
  BY DEF IsSearchTree, IsTree, NodeType
<1>2. lost = {}
  <2> SUFFICES ASSUME lost # {} PROVE FALSE
    OBVIOUS
  <2>1. lengths \in SUBSET Nat /\ lengths # {}
    <3>1. \A r \in lost : Len(r) \in Nat
      BY DEF Paths
    <3> HIDE DEF lost
    <3> QED
      BY <3>1
  <2>2. PICK n \in lengths : \A m \in lengths : n <= m
    <3> HIDE DEF lengths
    <3> QED
      BY <2>1, LeastNat
  <2>3. PICK r \in lost : n = Len(r)
    BY <2>2
  <2>4. r \in Paths /\ IsPrefix(r, q) /\ ~ Good(r)
    BY <2>3
  <2>5. Good(Root)
    <3>1. s0 \in SubtreePaths(t, Root)
      BY <1>1, PrefixOrder DEF SubtreePaths
    <3> QED
      BY <3>1
  <2>6. r \in Seq(Sides) /\ r # << >>
    BY <2>4, <2>5 DEF Paths, Sides, Root
  <2>7. PICK p \in Seq(Sides), side \in Sides : r = Append(p, side)
    BY <2>6, SequenceEmptyOrAppend
  <2>8. p \in Paths /\ Len(r) = Len(p) + 1 /\ Len(p) \in Nat /\ IsPrefix(p, r)
    <3>1. p \in Paths
      BY <2>7 DEF Paths, Sides
    <3> QED
      BY <2>7, <3>1, StepProperties, PrefixOfStep DEF Paths
  <2>9. IsPrefix(p, q)
    BY <2>4, <2>8, PrefixOrder
  <2>10. Good(p)
    <3>1. ~ (n <= Len(p))
      BY <2>3, <2>8
    <3>2. p \notin lost
      BY <2>2, <3>1
    <3> QED
      BY <2>8, <2>9, <3>2
  <2>11. p # q
    <3>1. Len(r) <= Len(q)
      BY <2>4, PrefixByIndex
    <3> QED
      BY <2>8, <3>1
  <2>12. p \notin stops /\ IsPrefix(Append(p, sides[p]), q)
    <3>1. IsPrefix(Root, p)
      BY <2>8, PrefixOrder
    <3> QED
      BY <2>8, <2>9, <2>11, <3>1 DEF Leads
  <2>13. Append(p, sides[p]) = r
    <3>1. sides[p] \in Sides
      BY <2>8 DEF SearchSides, Sides
    <3>2. /\ Append(p, sides[p]) \in Paths
          /\ Len(Append(p, sides[p])) <= Len(r) /\ Len(r) <= Len(Append(p, sides[p]))
      BY <2>8, <3>1, StepProperties
    <3>3. IsPrefix(r, Append(p, sides[p]))
      BY <2>4, <2>8, <2>12, <3>2, PrefixOrder
    <3> QED
      BY <2>4, <2>8, <3>2, <3>3, PrefixOrder
  <2>14. p \in DOMAIN t /\ ~ Holds(t, p, x, y)
    BY <2>8, <2>12 DEF SearchStops
  <2>15. Good(Append(p, sides[p]))
    BY <2>10, <2>14, SearchTurns
  <2> QED
    BY <2>4, <2>13, <2>15
<1>3. Good(q)
  BY <1>2, PrefixOrder
<1>4. PICK s \in SubtreePaths(t, q) : Holds(t, s, x, y)
  BY <1>3
<1>5. s \in DOMAIN t /\ IsPrefix(q, s)
  BY <1>4 DEF SubtreePaths
<1>6. q \in DOMAIN t /\ t[s].high <= t[q].max
  <2>1. q \in DOMAIN t
    BY <1>5 DEF IsSearchTree, IsTree
  <2> QED
    BY <1>4, <2>1 DEF IsSearchTree, HasMax
<1>7. ~ (y > t[q].max)
  BY <1>1, <1>4, <1>5, <1>6 DEF Holds
<1>8. q \in stops
  BY DEF Leads
<1> QED
  BY <1>6, <1>7, <1>8 DEF SearchStops

\* What a search for them needs to know of the tree.
LEMMA SearchSetting ==
    ASSUME NEW t, IsSearchTree(t), NEW x \in Int, NEW y \in Int
    PROVE  /\ SearchStops(t, x, y) \in SUBSET Paths
           /\ SearchSides(t, y) \in [Paths -> Sides]
           /\ HasDepth(SearchStops(t, x, y))
           /\ Root \in Paths
           /\ \A p \in Paths : Append(p, SearchSides(t, y)[p])
                 = IF LeftReaches(t, p, y) THEN LeftOf(p) ELSE RightOf(p)
           /\ \A p \in Paths : p \in SearchStops(t, x, y)
                 <=> p \notin DOMAIN t \/ y > t[p].max \/ Holds(t, p, x, y)
           /\ \A p \in DOMAIN t : Holds(t, p, x, y) => ~ (y > t[p].max)
           /\ \A p \in DOMAIN t : t[p].max \in Int
PROOF
<1>1. /\ SearchStops(t, x, y) \in SUBSET Paths
      /\ SearchSides(t, y) \in [Paths -> Sides]
      /\ HasDepth(SearchStops(t, x, y))
      /\ Root \in Paths
  BY DEF SearchStops, SearchSides, Sides, HasDepth, IsSearchTree, IsTree
<1>2. \A p \in Paths : Append(p, SearchSides(t, y)[p])
                       = IF LeftReaches(t, p, y) THEN LeftOf(p) ELSE RightOf(p)
  BY DEF SearchSides, LeftOf, RightOf
<1>3. \A p \in Paths : p \in SearchStops(t, x, y)
                       <=> p \notin DOMAIN t \/ y > t[p].max \/ Holds(t, p, x, y)
  BY DEF SearchStops
<1>4. ASSUME NEW p \in DOMAIN t
      PROVE  t[p].max \in Int /\ (Holds(t, p, x, y) => ~ (y > t[p].max))
  <2>1. p \in SubtreePaths(t, p)
    BY PrefixOrder DEF IsSearchTree, IsTree, SubtreePaths
  <2>2. t[p].high <= t[p].max /\ t[p].max \in Nat /\ t[p].high \in Nat
    BY <2>1 DEF IsSearchTree, IsTree, HasMax, NodeType
  <2> QED
    BY <2>2 DEF Holds
<1> QED
  BY <1>1, <1>2, <1>3, <1>4

\* it_find_bool says whether there is an interval with x in it.
LEMMA FindBoolProperties ==
    ASSUME NEW t, IsSearchTree(t), NEW x \in Int
    PROVE  it_find_bool(t, x) <=> \E p \in DOMAIN t : it_contains(t[p].low, t[p].high, x)
PROOF
<1> DEFINE stops == SearchStops(t, x, x)
           sides == SearchSides(t, x)
           base == [p \in Paths |-> p \in DOMAIN t /\ Holds(t, p, x, x)]
           next(p) == IF LeftReaches(t, p, x) THEN LeftOf(p) ELSE RightOf(p)
           Found(f, p) == /\ p \in DOMAIN t
                          /\ x <= t[p].max
                          /\ it_contains(t[p].low, t[p].high, x) \/ f[next(p)]
           Finder(f) == [p \in Paths |-> Found(f, p)]
           find == CHOOSE f : f = Finder(f)
<1>1. /\ stops \in SUBSET Paths /\ sides \in [Paths -> Sides] /\ HasDepth(stops)
      /\ Root \in Paths
      /\ \A p \in Paths : Append(p, sides[p]) = next(p)
      /\ \A p \in Paths : p \in stops
            <=> p \notin DOMAIN t \/ x > t[p].max \/ Holds(t, p, x, x)
      /\ \A p \in DOMAIN t : (Holds(t, p, x, x) => ~ (x > t[p].max)) /\ t[p].max \in Int
  BY SearchSetting
<1>2. \A p : it_contains(t[p].low, t[p].high, x) <=> Holds(t, p, x, x)
  BY DEF it_contains, Holds
<1>3. it_find_bool(t, x) = find[Root]
  BY DEF it_find_bool
<1>4. \A p \in Paths : base[p] \in BOOLEAN /\ (base[p] <=> p \in DOMAIN t /\ Holds(t, p, x, x))
  OBVIOUS
<1> HIDE DEF stops, sides, base, next
<1>5. ASSUME NEW f, \A p \in Paths : f[p] \in BOOLEAN
      PROVE  Finder(f) = Search(stops, sides, base, f)
  <2>1. ASSUME NEW p \in Paths
        PROVE  Found(f, p) = IF p \in stops THEN base[p] ELSE f[Append(p, sides[p])]
    <3>1. next(p) \in Paths
      BY <1>1, StepProperties
    <3>2. CASE p \in stops
      <4>1. Found(f, p) <=> base[p]
        BY <1>1, <1>2, <1>4, <3>2
      <4> QED
        BY <1>4, <3>2, <4>1
    <3>3. CASE p \notin stops
      <4>1. p \in DOMAIN t /\ ~ (x > t[p].max) /\ ~ Holds(t, p, x, x) /\ t[p].max \in Int
        BY <1>1, <3>3
      <4>2. x <= t[p].max
        BY <4>1
      <4>3. Found(f, p) <=> f[next(p)]
        BY <1>2, <4>1, <4>2
      <4> QED
        BY <1>1, <1>5, <3>1, <3>3, <4>3
    <3> QED
      BY <3>2, <3>3
  <2> HIDE DEF Found
  <2> QED
    BY <2>1 DEF Search
<1>6. ASSUME NEW f, f = Finder(f) PROVE \A p \in Paths : f[p] \in BOOLEAN
  <2>1. \A p \in Paths : f[p] = Found(f, p)
    BY <1>6
  <2>2. \A p \in Paths : Found(f, p) \in BOOLEAN
    OBVIOUS
  <2> HIDE DEF Found
  <2> QED
    BY <2>1, <2>2
<1>7. \E f : f = Finder(f)
  <2>1. PICK f : f = Search(stops, sides, base, f)
    BY <1>1, SearchExists
  <2>2. ASSUME NEW p \in Paths PROVE f[p] \in BOOLEAN
    <3>1. Finds(stops, sides, base, f, p)
      BY <1>1, <2>1, SearchEnds
    <3> QED
      BY <1>4, <3>1 DEF Finds
  <2> QED
    BY <1>5, <2>1, <2>2
<1>8. find = Finder(find)
  <2> HIDE DEF Finder
  <2> QED
    BY <1>7
<1> HIDE DEF find
<1>9. find = Search(stops, sides, base, find)
  BY <1>5, <1>6, <1>8
<1>10. Finds(stops, sides, base, find, Root)
  BY <1>1, <1>9, SearchEnds
<1>11. PICK q \in Paths : Leads(stops, sides, Root, q) /\ find[Root] = base[q]
  BY <1>10 DEF Finds
<1>12. (\E s \in DOMAIN t : Holds(t, s, x, x)) <=> q \in DOMAIN t /\ Holds(t, q, x, x)
  BY <1>11, SearchFinds DEF stops, sides
<1>13. find[Root] <=> \E s \in DOMAIN t : Holds(t, s, x, x)
  BY <1>4, <1>11, <1>12
<1> QED
  BY <1>2, <1>3, <1>13

\* it_find ends at such an interval if there is one, and at NULL if not.
LEMMA FindProperties ==
    ASSUME NEW t, IsSearchTree(t), NEW x \in Int
    PROVE  IF \E p \in DOMAIN t : it_contains(t[p].low, t[p].high, x)
           THEN /\ it_find(t, x) \in DOMAIN t
                /\ it_contains(t[it_find(t, x)].low, t[it_find(t, x)].high, x)
           ELSE it_find(t, x) = NoNode
PROOF
<1> DEFINE stops == SearchStops(t, x, x)
           sides == SearchSides(t, x)
           base == [p \in Paths |-> IF p \in DOMAIN t /\ Holds(t, p, x, x) THEN p ELSE NoNode]
           next(p) == IF LeftReaches(t, p, x) THEN LeftOf(p) ELSE RightOf(p)
           Found(f, p) == IF p \notin DOMAIN t \/ x > t[p].max THEN NoNode
                          ELSE IF it_contains(t[p].low, t[p].high, x) THEN p
                          ELSE f[next(p)]
           Finder(f) == [p \in Paths |-> Found(f, p)]
           find == CHOOSE f : f = Finder(f)
<1>1. /\ stops \in SUBSET Paths /\ sides \in [Paths -> Sides] /\ HasDepth(stops)
      /\ Root \in Paths
      /\ \A p \in Paths : Append(p, sides[p]) = next(p)
      /\ \A p \in Paths : p \in stops
            <=> p \notin DOMAIN t \/ x > t[p].max \/ Holds(t, p, x, x)
      /\ \A p \in DOMAIN t : Holds(t, p, x, x) => ~ (x > t[p].max)
  BY SearchSetting
<1>2. \A p : it_contains(t[p].low, t[p].high, x) <=> Holds(t, p, x, x)
  BY DEF it_contains, Holds
<1>3. it_find(t, x) = find[Root]
  BY DEF it_find
<1>4. \A p \in Paths : base[p] = IF p \in DOMAIN t /\ Holds(t, p, x, x) THEN p ELSE NoNode
  OBVIOUS
<1> HIDE DEF stops, sides, base, next
<1>5. ASSUME NEW f PROVE Finder(f) = Search(stops, sides, base, f)
  <2>1. ASSUME NEW p \in Paths
        PROVE  Found(f, p) = IF p \in stops THEN base[p] ELSE f[Append(p, sides[p])]
    BY <1>1, <1>2, <1>4
  <2> HIDE DEF Found
  <2> QED
    BY <2>1 DEF Search
<1>6. find = Search(stops, sides, base, find)
  <2>1. \E f : f = Finder(f)
    <3>1. PICK f : f = Search(stops, sides, base, f)
      BY <1>1, SearchExists
    <3> HIDE DEF Finder
    <3> QED
      BY <1>5, <3>1
  <2>2. find = Finder(find)
    <3> HIDE DEF Finder
    <3> QED
      BY <2>1
  <2> QED
    BY <1>5, <2>2
<1> HIDE DEF find
<1>7. Finds(stops, sides, base, find, Root)
  BY <1>1, <1>6, SearchEnds
<1>8. PICK q \in Paths : Leads(stops, sides, Root, q) /\ find[Root] = base[q]
  BY <1>7 DEF Finds
<1>9. (\E s \in DOMAIN t : Holds(t, s, x, x)) <=> q \in DOMAIN t /\ Holds(t, q, x, x)
  BY <1>8, SearchFinds DEF stops, sides
<1>10. IF \E s \in DOMAIN t : Holds(t, s, x, x)
       THEN find[Root] \in DOMAIN t /\ Holds(t, find[Root], x, x)
       ELSE find[Root] = NoNode
  BY <1>4, <1>8, <1>9
<1> QED
  BY <1>2, <1>3, <1>10
=============================================================================
