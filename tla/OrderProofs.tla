----------------------------- MODULE OrderProofs -----------------------------
(***************************************************************************)
(* Lemmas about order: least and greatest numbers, on which every search   *)
(* of the program rests, and what TraceFile puts in order.  What           *)
(* first_pass leaves is right for every trace: the intervals of a process  *)
(* are its lines, in order and with no line of its own between two, and    *)
(* RUNNABLE lists each process of the trace once, in the order of their    *)
(* first lines.                                                            *)
(***************************************************************************)
EXTENDS TraceFile, TLAPS, FiniteSetTheorems, SequenceTheorems, WellFoundedInduction

\* A set of naturals that is not empty has a least element: what bv_ffz, the
\* clock hand, the search for a queue entry and the first line of a process look for.
LEMMA LeastNat ==
    ASSUME NEW T \in SUBSET Nat, T # {}
    PROVE  \E x \in T : \A y \in T : x <= y
PROOF
<1>1. IsWellFoundedOn(OpToRel(<, Nat), Nat)
  BY NatLessThanWellFounded
<1>2. PICK x \in T : \A y \in T : <<y, x>> \notin OpToRel(<, Nat)
  BY <1>1, WFMin
<1>3. ASSUME NEW y \in T PROVE ~ (y < x)
  <2>1. <<y, x>> \in Nat \X Nat
    OBVIOUS
  <2>2. <<y, x>>[1] = y /\ <<y, x>>[2] = x
    OBVIOUS
  <2> HIDE <1>2
  <2>3. y < x => <<y, x>> \in {ss \in Nat \X Nat : ss[1] < ss[2]}
    BY <2>1, <2>2
  <2>4. OpToRel(<, Nat) = {ss \in Nat \X Nat : ss[1] < ss[2]}
    BY Zenon DEF OpToRel
  <2> QED
    BY <2>3, <2>4, <1>2, Zenon
<1> QED
  BY <1>3

\* Min of a set of naturals is its least element.
LEMMA MinNat ==
    ASSUME NEW T \in SUBSET Nat, T # {}
    PROVE  Min(T) \in T /\ \A y \in T : Min(T) <= y
BY LeastNat DEF Min

\* A set of integers that is bounded has a greatest element, its Max.
LEMMA MaxUpTo ==
    ASSUME NEW n \in Int, NEW T \in SUBSET Int, T # {}, \A y \in T : y <= n
    PROVE  Max(T) \in T /\ \A y \in T : y <= Max(T)
PROOF
<1> DEFINE D == {n - y : y \in T}
<1>1. D \in SUBSET Nat /\ D # {}
  <2>1. \A y \in T : n - y \in Nat
    OBVIOUS
  <2>2. PICK y \in T : TRUE
    OBVIOUS
  <2>3. n - y \in D
    OBVIOUS
  <2> QED
    BY <2>1, <2>3
<1>2. PICK d \in D : \A e \in D : d <= e
  <2> HIDE DEF D
  <2> QED
    BY <1>1, LeastNat
<1>3. PICK x \in T : d = n - x
  BY <1>2
<1>4. \A y \in T : n - x <= n - y
  BY <1>2, <1>3
<1>5. \A y \in T : x >= y
  BY <1>4
<1>6. \E z \in T : \A y \in T : z >= y
  BY <1>5
<1>7. Max(T) \in T /\ \A y \in T : Max(T) >= y
  BY <1>6 DEF Max
<1> QED
  BY <1>7
-----------------------------------------------------------------------------
IsAscending(s, key) == \A i, j \in DOMAIN s : i < j => key[s[i]] < key[s[j]]

\* The elements of S have different keys, and none above N.
AreKeys(key, S, N) ==
    /\ key \in [S -> 0 .. N]
    /\ \A x, y \in S : key[x] = key[y] => x = y

\* A finite set can be put in the order of its keys.  A least number of elements
\* that cannot would be one more than a number that can: put the element with
\* the greatest key last.
LEMMA AscendingExists ==
    ASSUME NEW N \in Nat, NEW S, IsFiniteSet(S), NEW key, AreKeys(key, S, N)
    PROVE  \E s \in [1 .. Cardinality(S) -> S] : IsAscending(s, key)
PROOF
<1>0. /\ key \in [S -> 0 .. N]
      /\ \A x, y \in S : key[x] = key[y] => x = y
  BY DEF AreKeys
<1> DEFINE Sorts(T) == \E s \in [1 .. Cardinality(T) -> T] : IsAscending(s, key)
           B == {n \in Nat : \E T \in SUBSET S : Cardinality(T) = n /\ ~ Sorts(T)}
<1>1. \A T \in SUBSET S : IsFiniteSet(T) /\ Cardinality(T) \in Nat
  BY FS_Subset, FS_CardinalityType
<1>2. ASSUME NEW T \in SUBSET S, ~ Sorts(T),
             \A U \in SUBSET S : Cardinality(U) < Cardinality(T) => Sorts(U)
      PROVE  FALSE
  <2> DEFINE n == Cardinality(T)
  <2>1. n \in Nat /\ IsFiniteSet(T)
    BY <1>1
  <2>2. T # {}
    <3>1. ASSUME T = {} PROVE Sorts(T)
      <4>1. Cardinality(T) = 0
        BY <3>1, FS_EmptySet
      <4> DEFINE s == [i \in 1 .. 0 |-> i]
      <4>2. s \in [1 .. 0 -> T] /\ IsAscending(s, key)
        BY DEF IsAscending
      <4> QED
        BY <4>1, <4>2
    <3> QED
      BY <1>2, <3>1
  <2>3. PICK x \in T : \A y \in T : key[y] <= key[x]
    <3> DEFINE K == {key[y] : y \in T}
    <3>1. N \in Int /\ K \in SUBSET Int /\ K # {} /\ \A k \in K : k <= N
      BY <1>0, <2>2
    <3>2. Max(K) \in K /\ \A k \in K : k <= Max(K)
      <4> HIDE DEF K
      <4> QED
        BY <3>1, MaxUpTo
    <3> QED
      BY <3>2
  <2> DEFINE U == T \ {x}
  <2>4. Cardinality(U) = n - 1
    BY <2>1, FS_RemoveElement
  <2>5. PICK u \in [1 .. n - 1 -> U] : IsAscending(u, key)
    <3>1. Sorts(U)
      <4>1. U \in SUBSET S /\ Cardinality(U) < n
        BY <2>1, <2>4
      <4> HIDE DEF Sorts, U
      <4> QED
        BY <1>2, <4>1
    <3> QED
      BY <2>4, <3>1
  <2> HIDE DEF n
  <2> DEFINE s == [i \in 1 .. n |-> IF i = n THEN x ELSE u[i]]
  <2>6. \A i \in 1 .. n : i # n => i \in 1 .. n - 1
    BY <2>1
  <2>7. s \in [1 .. n -> T]
    BY <2>5, <2>6
  <2>8. ASSUME NEW i \in 1 .. n, NEW j \in 1 .. n, i < j
        PROVE  key[s[i]] < key[s[j]]
    <3>1. i \in 1 .. n - 1 /\ s[i] = u[i] /\ u[i] \in U
      BY <2>1, <2>5, <2>8
    <3>2. CASE j = n
      <4>1. s[j] = x
        BY <3>2
      <4>2. key[u[i]] # key[x] /\ key[u[i]] \in Int /\ key[x] \in Int /\ key[u[i]] <= key[x]
        BY <1>0, <2>3, <3>1
      <4> QED
        BY <3>1, <4>1, <4>2
    <3>3. CASE j # n
      <4>1. j \in 1 .. n - 1 /\ s[j] = u[j]
        BY <2>6, <3>3
      <4> QED
        BY <2>5, <2>8, <3>1, <4>1 DEF IsAscending
    <3> QED
      BY <3>2, <3>3
  <2>9. IsAscending(s, key)
    BY <2>7, <2>8 DEF IsAscending
  <2> HIDE DEF s
  <2> QED
    BY <1>2, <2>7, <2>9 DEF n
<1>3. B = {}
  <2> SUFFICES ASSUME B # {} PROVE FALSE
    OBVIOUS
  <2>1. PICK n \in B : \A m \in B : n <= m
    <3>1. B \in SUBSET Nat
      OBVIOUS
    <3> HIDE DEF B
    <3> QED
      BY <3>1, LeastNat
  <2>2. PICK T \in SUBSET S : Cardinality(T) = n /\ ~ Sorts(T)
    BY <2>1
  <2> HIDE DEF Sorts
  <2>3. \A U \in SUBSET S : Cardinality(U) < Cardinality(T) => Sorts(U)
    BY <1>1, <2>1, <2>2
  <2> QED
    BY <1>2, <2>2, <2>3
<1> HIDE DEF Sorts
<1>4. Sorts(S)
  BY <1>1, <1>3
<1> QED
  BY <1>4 DEF Sorts

\* A sequence in the order of the keys has every element of the set, once.
LEMMA AscendingBijective ==
    ASSUME NEW S, IsFiniteSet(S), NEW key \in [S -> Int],
           NEW s \in [1 .. Cardinality(S) -> S], IsAscending(s, key)
    PROVE  s \in Bijection(1 .. Cardinality(S), S)
PROOF
<1> DEFINE n == Cardinality(S)
<1>1. n \in Nat
  BY FS_CardinalityType
<1>2. ASSUME NEW i \in 1 .. n, NEW j \in 1 .. n, s[i] = s[j], i # j
      PROVE  FALSE
  <2>1. (i < j) \/ (j < i)
    BY <1>1, <1>2
  <2>2. s[i] \in S /\ key[s[i]] \in Int
    OBVIOUS
  <2>3. key[s[i]] < key[s[j]] \/ key[s[j]] < key[s[i]]
    BY <2>1 DEF IsAscending
  <2> QED
    BY <1>2, <2>2, <2>3
<1>3. s \in Injection(1 .. n, S)
  BY <1>2 DEF Injection, IsInjective
<1>4. s \in Surjection(1 .. n, S)
  <2>1. IsFiniteSet(1 .. n) /\ Cardinality(1 .. n) = n
    BY <1>1, FS_Interval
  <2> QED
    BY <1>3, <2>1, FS_Injection
<1> QED
  BY <1>3, <1>4 DEF Bijection

\* The sequence chosen has every element once.
LEMMA AscendingProperties ==
    ASSUME NEW N \in Nat, NEW S, IsFiniteSet(S), NEW key, AreKeys(key, S, N)
    PROVE  LET s == Ascending(S, key)
           IN  /\ s \in Seq(S) /\ Len(s) = Cardinality(S)
               /\ IsInjective(s)
               /\ \A x \in S : \E i \in 1 .. Len(s) : s[i] = x
               /\ \A i, j \in 1 .. Len(s) : i < j => key[s[i]] < key[s[j]]
PROOF
<1> DEFINE s == Ascending(S, key)
           n == Cardinality(S)
<1>1. n \in Nat
  BY FS_CardinalityType
<1>2. s = CHOOSE u \in [1 .. n -> S] : IsAscending(u, key)
  BY DEF Ascending, IsAscending
<1>3. s \in [1 .. n -> S] /\ IsAscending(s, key)
  <2> HIDE DEF s, n
  <2>1. \E u \in [1 .. n -> S] : IsAscending(u, key)
    BY AscendingExists DEF n
  <2> QED
    BY <1>2, <2>1
<1> HIDE DEF s
<1>4. s \in Seq(S) /\ Len(s) = n
  <2> HIDE DEF n
  <2> QED
    BY <1>1, <1>3
<1>5. \A i, j \in 1 .. n : i < j => key[s[i]] < key[s[j]]
  BY <1>3 DEF IsAscending
<1>6. key \in [S -> Int]
  BY DEF AreKeys
<1>7. s \in Bijection(1 .. n, S)
  <2> USE DEF n
  <2> QED
    BY <1>3, <1>6, AscendingBijective
<1>8. /\ \A i, j \in 1 .. n : s[i] = s[j] => i = j
      /\ \A x \in S : \E i \in 1 .. n : s[i] = x
  BY <1>7 DEF Bijection, Injection, Surjection, IsInjective
<1> QED
  BY <1>3, <1>4, <1>5, <1>8 DEF IsInjective, s

\* There is one such sequence only: where two first differed, each would have a
\* smaller key than the other.
LEMMA AscendingUnique ==
    ASSUME NEW S, IsFiniteSet(S), NEW key \in [S -> Int],
           NEW s \in [1 .. Cardinality(S) -> S], IsAscending(s, key),
           NEW u \in [1 .. Cardinality(S) -> S], IsAscending(u, key)
    PROVE  s = u
PROOF
<1> DEFINE n == Cardinality(S)
           D == {i \in 1 .. n : s[i] # u[i]}
<1>1. n \in Nat
  BY FS_CardinalityType
<1>2. s \in Bijection(1 .. n, S) /\ u \in Bijection(1 .. n, S)
  BY AscendingBijective
<1> HIDE DEF n
<1>3. /\ \A i, j \in 1 .. n : s[i] = s[j] => i = j
      /\ \A x \in S : \E i \in 1 .. n : s[i] = x
      /\ \A i, j \in 1 .. n : u[i] = u[j] => i = j
      /\ \A x \in S : \E i \in 1 .. n : u[i] = x
  BY <1>2 DEF Bijection, Injection, Surjection, IsInjective
<1>4. s \in [1 .. n -> S] /\ u \in [1 .. n -> S]
  BY DEF n
<1>5. ASSUME D # {} PROVE FALSE
  <2>1. PICK i \in D : \A j \in D : i <= j
    <3>1. D \in SUBSET Nat
      BY <1>1
    <3> HIDE DEF D
    <3> QED
      BY <1>5, <3>1, LeastNat
  <2>2. i \in 1 .. n /\ s[i] # u[i] /\ \A j \in 1 .. n : j < i => s[j] = u[j]
    BY <1>1, <2>1
  <2>3. PICK j \in 1 .. n : u[j] = s[i]
    BY <1>3, <1>4, <2>2
  <2>4. PICK k \in 1 .. n : s[k] = u[i]
    BY <1>3, <1>4, <2>2
  <2>5. j > i /\ k > i
    <3>1. j # i /\ k # i
      BY <2>2, <2>3, <2>4
    <3>2. ~ (j < i)
      BY <1>3, <2>2, <2>3
    <3>3. ~ (k < i)
      BY <1>3, <2>2, <2>4
    <3> QED
      BY <1>1, <2>2, <3>1, <3>2, <3>3
  <2>6. key[u[i]] < key[u[j]] /\ key[s[i]] < key[s[k]]
    <3>1. DOMAIN s = 1 .. n /\ DOMAIN u = 1 .. n
      BY <1>4
    <3> QED
      BY <2>2, <2>5, <3>1 DEF IsAscending
  <2>7. key[u[i]] \in Int /\ key[s[i]] \in Int
    BY <1>4, <2>2
  <2> QED
    BY <2>3, <2>4, <2>6, <2>7
<1>6. \A i \in 1 .. n : s[i] = u[i]
  BY <1>5
<1>7. s = [i \in 1 .. n |-> s[i]] /\ u = [i \in 1 .. n |-> u[i]]
  BY <1>4
<1> QED
  BY <1>6, <1>7, Zenon

\* An element is new, with a key greater than the keys of the others, old ones.
IsLast(x, S, old, key) ==
    x \notin S /\ \A y \in S : key[y] = old[y] /\ key[y] < key[x]

\* The element with the greatest key comes last.
LEMMA AscendingAppend ==
    ASSUME NEW N \in Nat, NEW S, IsFiniteSet(S), NEW old, AreKeys(old, S, N),
           NEW x, NEW key, AreKeys(key, S \cup {x}, N), IsLast(x, S, old, key)
    PROVE  Ascending(S \cup {x}, key) = Append(Ascending(S, old), x)
PROOF
<1> DEFINE s == Ascending(S, old)
           n == Cardinality(S)
           T == S \cup {x}
           a == [i \in 1 .. n + 1 |-> IF i = n + 1 THEN x ELSE s[i]]
<1>1. n \in Nat /\ IsFiniteSet(T) /\ Cardinality(T) = n + 1
  BY FS_CardinalityType, FS_AddElement DEF IsLast
<1>2. /\ s \in Seq(S) /\ Len(s) = n
      /\ \A i, j \in 1 .. Len(s) : i < j => old[s[i]] < old[s[j]]
  BY AscendingProperties
<1> HIDE DEF s, n
<1>3. s \in [1 .. n -> S]
  BY <1>1, <1>2
<1>4. a = Append(s, x)
  <2>1. s \in Seq(T) /\ x \in T
    BY <1>1, <1>2, <1>3
  <2> HIDE DEF T
  <2>2. /\ Append(s, x) \in Seq(T) /\ Len(Append(s, x)) = n + 1
        /\ \A i \in 1 .. n : Append(s, x)[i] = s[i]
        /\ Append(s, x)[n + 1] = x
    BY <1>2, <2>1, AppendProperties
  <2>3. Append(s, x) = [i \in 1 .. n + 1 |-> Append(s, x)[i]]
    <3> DEFINE r == Append(s, x)
    <3> HIDE DEF r
    <3>1. r \in Seq(T) /\ Len(r) = n + 1
      BY <2>2 DEF r
    <3>2. r = [i \in 1 .. n + 1 |-> r[i]]
      BY <3>1
    <3> QED
      BY <3>2 DEF r
  <2>4. \A i \in 1 .. n + 1 : a[i] = Append(s, x)[i]
    BY <1>1, <2>2
  <2> QED
    BY <2>3, <2>4
<1>5. a \in [1 .. n + 1 -> T] /\ IsAscending(a, key)
  <2>1. \A i \in 1 .. n + 1 : i # n + 1 => i \in 1 .. n /\ a[i] = s[i] /\ s[i] \in S
    BY <1>1, <1>3
  <2>2. a \in [1 .. n + 1 -> T]
    BY <2>1
  <2>3. ASSUME NEW i \in 1 .. n + 1, NEW j \in 1 .. n + 1, i < j
        PROVE  key[a[i]] < key[a[j]]
    <3>1. i \in 1 .. n /\ a[i] = s[i] /\ s[i] \in S
      BY <1>1, <2>1, <2>3
    <3>2. CASE j = n + 1
      BY <3>1, <3>2 DEF IsLast
    <3>3. CASE j # n + 1
      <4>1. j \in 1 .. n /\ a[j] = s[j] /\ s[j] \in S
        BY <2>1, <3>3
      <4> HIDE DEF a
      <4> QED
        BY <1>2, <2>3, <3>1, <4>1 DEF IsLast
    <3> QED
      BY <3>2, <3>3
  <2> QED
    BY <2>2, <2>3 DEF IsAscending
<1>6. Ascending(T, key) = CHOOSE v \in [1 .. n + 1 -> T] : IsAscending(v, key)
  BY <1>1 DEF Ascending, IsAscending
<1> HIDE DEF a, T
<1>7. /\ Ascending(T, key) \in [1 .. n + 1 -> T]
      /\ IsAscending(Ascending(T, key), key)
  BY <1>5, <1>6
<1>8. key \in [T -> Int]
  BY DEF T, AreKeys
<1>9. Ascending(T, key) = a
  BY <1>1, <1>5, <1>7, <1>8, AscendingUnique
<1> QED
  BY <1>4, <1>9 DEF s, T

-----------------------------------------------------------------------------
\* The run of lines of one pid that starts at line k ends at HighOf(t, k).
LEMMA HighOfProperties ==
    ASSUME NEW X, NEW t \in Seq(X), NEW k \in 1 .. Len(t)
    PROVE  /\ HighOf(t, k) \in k .. Len(t)
           /\ \A i \in k .. HighOf(t, k) : t[i][1] = t[k][1]
           /\ \A j \in k .. Len(t) :
                 (\A i \in k .. j : t[i][1] = t[k][1]) => j <= HighOf(t, k)
PROOF
<1> DEFINE H == {j \in k .. Len(t) : \A i \in k .. j : t[i][1] = t[k][1]}
<1>1. Len(t) \in Nat
  BY LenProperties
<1>2. /\ Len(t) \in Int /\ H \in SUBSET Int
      /\ k \in H
      /\ \A j \in H : j <= Len(t)
  BY <1>1
<1>3. H # {}
  BY <1>2
<1>4. Max(H) \in H /\ \A j \in H : j <= Max(H)
  <2> HIDE DEF H
  <2> QED
    BY <1>2, <1>3, MaxUpTo
<1>5. HighOf(t, k) = Max(H)
  BY DEF HighOf
<1> QED
  BY <1>4, <1>5

\* Every line belongs to a run that starts at some line.
LEMMA RunStart ==
    ASSUME NEW X, NEW t \in Seq(X), NEW k \in 1 .. Len(t)
    PROVE  \E j \in 1 .. k : /\ StartsInterval(t, j)
                             /\ \A i \in j .. k : t[i][1] = t[k][1]
PROOF
<1> DEFINE B == {j \in 1 .. k : \A i \in j .. k : t[i][1] = t[k][1]}
<1>1. B \in SUBSET Nat /\ k \in B
  OBVIOUS
<1>2. PICK j \in B : \A i \in B : j <= i
  <2> HIDE DEF B
  <2> QED
    BY <1>1, LeastNat
<1>3. j \in 1 .. k /\ \A i \in j .. k : t[i][1] = t[k][1]
  BY <1>2
<1>4. ASSUME j # 1, t[j - 1][1] = t[j][1] PROVE FALSE
  <2>1. j - 1 \in 1 .. k /\ \A i \in j - 1 .. k : i = j - 1 \/ i \in j .. k
    BY <1>3, <1>4
  <2>2. t[j][1] = t[k][1]
    BY <1>3
  <2>3. j - 1 \in B
    BY <1>3, <1>4, <2>1, <2>2
  <2> QED
    BY <1>2, <1>3, <2>3
<1> QED
  BY <1>3, <1>4 DEF StartsInterval

IntervalType(t) == [low : 1 .. Len(t), high : 1 .. Len(t), fpos_start : Nat]

\* The intervals of a process cover its lines and no others, in order and apart.
LEMMA IntervalsProperties ==
    ASSUME NEW X, NEW t \in Seq(X), NEW p
    PROVE  LET ivs == LineIntervals(t, p)
           IN  /\ ivs \in Seq(IntervalType(t))
               /\ \A n \in 1 .. Len(ivs) :
                     /\ ivs[n].low <= ivs[n].high
                     /\ ivs[n].fpos_start = FposStart(ivs[n].low)
                     /\ \A k \in ivs[n].low .. ivs[n].high : t[k][1] = p
               /\ \A n, m \in 1 .. Len(ivs) : n < m => ivs[n].high < ivs[m].low
               /\ \A k \in LinesOf(t, p) :
                     \E n \in 1 .. Len(ivs) : k \in ivs[n].low .. ivs[n].high
PROOF
<1> DEFINE starts == {k \in LinesOf(t, p) : StartsInterval(t, k)}
           key == [k \in starts |-> k]
           lows == Ascending(starts, key)
           ivs == LineIntervals(t, p)
<1> SUFFICES /\ ivs \in Seq(IntervalType(t))
             /\ \A n \in 1 .. Len(ivs) :
                   /\ ivs[n].low <= ivs[n].high
                   /\ ivs[n].fpos_start = FposStart(ivs[n].low)
                   /\ \A k \in ivs[n].low .. ivs[n].high : t[k][1] = p
             /\ \A n, m \in 1 .. Len(ivs) : n < m => ivs[n].high < ivs[m].low
             /\ \A k \in LinesOf(t, p) :
                   \E n \in 1 .. Len(ivs) : k \in ivs[n].low .. ivs[n].high
  OBVIOUS
<1>1. Len(t) \in Nat /\ DOMAIN t = 1 .. Len(t)
  BY LenProperties
<1>2. starts \in SUBSET (1 .. Len(t))
  BY <1>1 DEF LinesOf
<1>3. /\ lows \in Seq(starts)
      /\ \A k \in starts : \E n \in 1 .. Len(lows) : lows[n] = k
      /\ \A n, m \in 1 .. Len(lows) : n < m => lows[n] < lows[m]
  <2>1. IsFiniteSet(starts)
    <3>1. IsFiniteSet(1 .. Len(t))
      BY <1>1, FS_Interval
    <3> HIDE DEF starts
    <3> QED
      BY <1>2, <3>1, FS_Subset
  <2>2. AreKeys(key, starts, Len(t))
    BY <1>1, <1>2 DEF AreKeys
  <2>3. \A k \in starts : key[k] = k
    OBVIOUS
  <2> HIDE DEF starts, key
  <2>4. /\ lows \in Seq(starts)
        /\ \A k \in starts : \E n \in 1 .. Len(lows) : lows[n] = k
        /\ \A n, m \in 1 .. Len(lows) : n < m => key[lows[n]] < key[lows[m]]
    BY <1>1, <2>1, <2>2, AscendingProperties
  <2> HIDE DEF lows
  <2>5. \A n \in 1 .. Len(lows) : lows[n] \in starts
    BY <2>4
  <2> QED
    BY <2>3, <2>4, <2>5
<1>4. ivs = [n \in DOMAIN lows |-> [low        |-> lows[n],
                                   high       |-> HighOf(t, lows[n]),
                                   fpos_start |-> FposStart(lows[n])]]
  BY DEF LineIntervals, IntervalsFrom
<1> HIDE DEF lows, ivs, key
<1>5. Len(lows) \in Nat /\ DOMAIN lows = 1 .. Len(lows)
  BY <1>3, LenProperties
<1>6. \A n \in 1 .. Len(lows) :
        /\ lows[n] \in starts /\ lows[n] \in 1 .. Len(t)
        /\ t[lows[n]][1] = p /\ StartsInterval(t, lows[n])
        /\ HighOf(t, lows[n]) \in lows[n] .. Len(t)
        /\ FposStart(lows[n]) \in Nat
  <2> TAKE n \in 1 .. Len(lows)
  <2>1. lows[n] \in starts
    BY <1>3, <1>5
  <2>2. lows[n] \in 1 .. Len(t) /\ t[lows[n]][1] = p /\ StartsInterval(t, lows[n])
    BY <1>2, <2>1 DEF LinesOf
  <2>3. HighOf(t, lows[n]) \in lows[n] .. Len(t)
    BY <2>2, HighOfProperties
  <2>4. FposStart(lows[n]) \in Nat
    BY <2>2 DEF FposStart, StartOf, EndOf
  <2> QED
    BY <2>1, <2>2, <2>3, <2>4
<1>7. /\ Len(ivs) = Len(lows)
      /\ ivs \in Seq(IntervalType(t))
      /\ \A n \in 1 .. Len(lows) : /\ ivs[n].low = lows[n]
                                   /\ ivs[n].high = HighOf(t, lows[n])
                                   /\ ivs[n].fpos_start = FposStart(lows[n])
  <2>1. ivs \in [1 .. Len(lows) -> IntervalType(t)]
    <3> SUFFICES ASSUME NEW n \in 1 .. Len(lows)
                 PROVE  [low |-> lows[n], high |-> HighOf(t, lows[n]),
                         fpos_start |-> FposStart(lows[n])] \in IntervalType(t)
      BY <1>4, <1>5
    <3>1. lows[n] \in 1 .. Len(t) /\ HighOf(t, lows[n]) \in 1 .. Len(t)
      BY <1>1, <1>6
    <3> QED
      BY <1>6, <3>1 DEF IntervalType
  <2>2. ivs \in Seq(IntervalType(t)) /\ Len(ivs) = Len(lows)
    BY <1>5, <2>1
  <2> QED
    BY <1>4, <1>5, <2>2
<1>8. \A n \in 1 .. Len(lows) : \A k \in ivs[n].low .. ivs[n].high : t[k][1] = p
  <2> TAKE n \in 1 .. Len(lows)
  <2>1. \A i \in lows[n] .. HighOf(t, lows[n]) : t[i][1] = t[lows[n]][1]
    BY <1>6, HighOfProperties
  <2> QED
    BY <1>6, <1>7, <2>1
<1>9. ASSUME NEW n \in 1 .. Len(lows), NEW m \in 1 .. Len(lows), n < m
      PROVE  ivs[n].high < ivs[m].low
  <2>1. lows[n] < lows[m] /\ lows[n] \in 1 .. Len(t) /\ lows[m] \in 1 .. Len(t)
    BY <1>3, <1>6, <1>9
  <2>2. ASSUME HighOf(t, lows[n]) >= lows[m] PROVE FALSE
    <3>1. lows[m] - 1 \in ivs[n].low .. ivs[n].high
      BY <1>6, <1>7, <2>1, <2>2
    <3>2. t[lows[m] - 1][1] = p
      BY <1>8, <3>1
    <3>3. lows[m] # 1
      BY <2>1
    <3> QED
      BY <1>6, <3>2, <3>3 DEF StartsInterval
  <2>3. HighOf(t, lows[n]) \in Int
    BY <1>6
  <2> QED
    BY <1>7, <2>1, <2>2, <2>3
<1>10. ASSUME NEW k \in LinesOf(t, p)
       PROVE  \E n \in 1 .. Len(ivs) : k \in ivs[n].low .. ivs[n].high
  <2>1. k \in 1 .. Len(t) /\ t[k][1] = p
    BY <1>1 DEF LinesOf
  <2>2. PICK j \in 1 .. k : StartsInterval(t, j) /\ \A i \in j .. k : t[i][1] = t[k][1]
    BY <2>1, RunStart
  <2>3. j \in 1 .. Len(t) /\ t[j][1] = p /\ k \in j .. Len(t)
    BY <1>1, <2>1, <2>2
  <2>4. j \in starts
    BY <1>1, <2>2, <2>3 DEF LinesOf
  <2>5. PICK n \in 1 .. Len(lows) : lows[n] = j
    BY <1>3, <2>4
  <2>6. \A i \in j .. k : t[i][1] = t[j][1]
    BY <2>1, <2>2, <2>3
  <2>7. k <= HighOf(t, j)
    BY <2>3, <2>6, HighOfProperties
  <2>8. HighOf(t, j) \in Int
    BY <1>6, <2>5
  <2> QED
    BY <1>7, <2>3, <2>5, <2>7, <2>8
<1>11. \A n \in 1 .. Len(ivs) :
          /\ ivs[n].low <= ivs[n].high
          /\ ivs[n].fpos_start = FposStart(ivs[n].low)
          /\ \A k \in ivs[n].low .. ivs[n].high : t[k][1] = p
  BY <1>6, <1>7, <1>8
<1> QED
  BY <1>7, <1>9, <1>10, <1>11

\* A process of the trace has a first line, and that line starts its first
\* interval.
LEMMA FirstInterval ==
    ASSUME NEW X, NEW t \in Seq(X), NEW p \in PidsOf(t)
    PROVE  /\ Min(LinesOf(t, p)) \in LinesOf(t, p)
           /\ \A k \in LinesOf(t, p) : Min(LinesOf(t, p)) <= k
           /\ Len(LineIntervals(t, p)) >= 1
           /\ LineIntervals(t, p)[1].low = Min(LinesOf(t, p))
PROOF
<1> DEFINE L == LinesOf(t, p)
           ivs == LineIntervals(t, p)
<1>1. Len(t) \in Nat /\ DOMAIN t = 1 .. Len(t)
  BY LenProperties
<1>2. L \in SUBSET Nat /\ L # {}
  BY <1>1 DEF LinesOf, PidsOf
<1>3. Min(L) \in L /\ \A k \in L : Min(L) <= k
  <2> HIDE DEF L
  <2> QED
    BY <1>2, MinNat
<1>4. /\ ivs \in Seq(IntervalType(t))
      /\ \A n \in 1 .. Len(ivs) :
            /\ ivs[n].low <= ivs[n].high
            /\ \A k \in ivs[n].low .. ivs[n].high : t[k][1] = p
      /\ \A n, m \in 1 .. Len(ivs) : n < m => ivs[n].high < ivs[m].low
      /\ \A k \in L : \E n \in 1 .. Len(ivs) : k \in ivs[n].low .. ivs[n].high
  BY IntervalsProperties
<1> HIDE DEF ivs
<1>5. Len(ivs) \in Nat /\ \A n \in 1 .. Len(ivs) : ivs[n] \in IntervalType(t)
  BY <1>4, LenProperties, ElementOfSeq
<1>6. PICK n \in 1 .. Len(ivs) : Min(L) \in ivs[n].low .. ivs[n].high
  BY <1>3, <1>4
<1>7. 1 \in 1 .. Len(ivs)
  BY <1>5, <1>6
<1>8. /\ ivs[1].low \in 1 .. Len(t) /\ ivs[1].high \in 1 .. Len(t)
      /\ ivs[n].low \in 1 .. Len(t)
  BY <1>5, <1>7 DEF IntervalType
<1>9. ivs[1].low \in L
  BY <1>1, <1>4, <1>7, <1>8 DEF LinesOf
<1>10. Min(L) <= ivs[1].low
  BY <1>3, <1>9
<1>11. ivs[1].low <= Min(L)
  <2>1. Min(L) \in Nat
    BY <1>2, <1>3
  <2>2. CASE n = 1
    BY <1>6, <1>8, <2>1, <2>2
  <2>3. CASE n # 1
    BY <1>4, <1>5, <1>6, <1>7, <1>8, <2>1, <2>3
  <2> QED
    BY <2>2, <2>3
<1>12. Min(L) \in Nat
  BY <1>2, <1>3
<1> QED
  BY <1>3, <1>5, <1>7, <1>8, <1>10, <1>11, <1>12 DEF ivs

\* A process that is not in the trace has no interval.
LEMMA NoInterval ==
    ASSUME NEW X, NEW t \in Seq(X), NEW p, p \notin PidsOf(t)
    PROVE  LineIntervals(t, p) = << >>
PROOF
<1> DEFINE ivs == LineIntervals(t, p)
<1>1. /\ ivs \in Seq(IntervalType(t))
      /\ \A n \in 1 .. Len(ivs) :
            /\ ivs[n].low <= ivs[n].high
            /\ \A k \in ivs[n].low .. ivs[n].high : t[k][1] = p
  BY IntervalsProperties
<1> HIDE DEF ivs
<1>2. Len(t) \in Nat /\ DOMAIN t = 1 .. Len(t)
  BY LenProperties
<1>3. ASSUME ivs # << >> PROVE FALSE
  <2>1. 1 \in 1 .. Len(ivs) /\ ivs[1] \in IntervalType(t)
    BY <1>1, <1>3, LenProperties, EmptySeq, ElementOfSeq
  <2>2. ivs[1].low \in 1 .. Len(t) /\ ivs[1].high \in 1 .. Len(t)
    BY <2>1 DEF IntervalType
  <2>3. t[ivs[1].low][1] = p
    BY <1>1, <2>1, <2>2
  <2> QED
    BY <1>2, <2>2, <2>3 DEF PidsOf
<1> QED
  BY <1>3 DEF ivs

\* RUNNABLE starts with each process of the trace once, in the order of their
\* first lines.
LEMMA FirstRunnableProperties ==
    ASSUME NEW X, NEW t \in Seq(X)
    PROVE  LET r == FirstRunnable(t)
           IN  /\ r \in Seq(PidsOf(t))
               /\ IsInjective(r)
               /\ Range(r) = PidsOf(t)
               /\ \A i, j \in 1 .. Len(r) : i < j =>
                     Min(LinesOf(t, r[i])) < Min(LinesOf(t, r[j]))
PROOF
<1> DEFINE S == PidsOf(t)
           key == [p \in S |-> Min(LinesOf(t, p))]
           r == Ascending(S, key)
<1>1. Len(t) \in Nat /\ DOMAIN t = 1 .. Len(t)
  BY LenProperties
<1>2. FirstRunnable(t) = r
  BY DEF FirstRunnable
<1>3. \A p \in S : key[p] \in LinesOf(t, p) /\ key[p] \in 1 .. Len(t)
  <2> TAKE p \in S
  <2>1. key[p] \in LinesOf(t, p)
    BY FirstInterval
  <2> QED
    BY <1>1, <2>1 DEF LinesOf
<1>4. key \in [S -> 0 .. Len(t)]
  <2>1. \A p \in S : key[p] \in 0 .. Len(t)
    BY <1>3
  <2> QED
    BY <2>1
<1>5. \A x, y \in S : key[x] = key[y] => x = y
  BY <1>3 DEF LinesOf
<1>6. IsFiniteSet(S)
  <2> DEFINE D == 1 .. Len(t)
             f == [k \in D |-> t[k][1]]
  <2>1. IsFiniteSet(D)
    BY <1>1, FS_Interval
  <2>2. f \in Surjection(D, S)
    BY <1>1 DEF Surjection, PidsOf
  <2> HIDE DEF D, f, S
  <2> QED
    BY <2>1, <2>2, FS_Surjection
<1>7. AreKeys(key, S, Len(t)) /\ \A p \in S : key[p] = Min(LinesOf(t, p))
  BY <1>4, <1>5 DEF AreKeys
<1> HIDE DEF S, key
<1>8. /\ r \in Seq(S) /\ IsInjective(r)
      /\ \A x \in S : \E i \in 1 .. Len(r) : r[i] = x
      /\ \A i, j \in 1 .. Len(r) : i < j => key[r[i]] < key[r[j]]
  BY <1>1, <1>6, <1>7, AscendingProperties
<1> HIDE DEF r
<1>9. DOMAIN r = 1 .. Len(r) /\ \A i \in 1 .. Len(r) : r[i] \in S
  BY <1>8, LenProperties, ElementOfSeq
<1>10. Range(r) = S
  BY <1>8, <1>9 DEF Range
<1>11. \A i, j \in 1 .. Len(r) : i < j => Min(LinesOf(t, r[i])) < Min(LinesOf(t, r[j]))
  BY <1>7, <1>8, <1>9
<1> QED
  BY <1>2, <1>8, <1>10, <1>11 DEF S
=============================================================================
