-------------------------- MODULE TraceParserProofs --------------------------
(***************************************************************************)
(* The first pass over the trace file is right for every file: what it     *)
(* knows at each turn of its loop is what TraceFile says of the lines      *)
(* before the open interval.                                               *)
(***************************************************************************)
EXTENDS TraceParser, IntervalTreeProofs

-----------------------------------------------------------------------------
\* Traces that grow by one run of lines.

Seen(t, n) == SubSeq(t, 1, n)

\* The lines after the first n, up to line m, are of one pid, and line n is not.
IsRun(t, n, m) ==
    /\ n \in 0 .. Len(t) /\ m \in n + 1 .. Len(t)
    /\ \A k \in n + 1 .. m : t[k][1] = t[m][1]
    /\ n > 0 => t[n][1] # t[m][1]

LEMMA SeenProperties ==
    ASSUME NEW X, NEW t \in Seq(X), NEW n \in 0 .. Len(t)
    PROVE  /\ Seen(t, n) \in Seq(X) /\ Len(Seen(t, n)) = n
           /\ DOMAIN Seen(t, n) = 1 .. n
           /\ \A k \in 1 .. n : Seen(t, n)[k] = t[k]
PROOF
<1>1. Len(t) \in Nat /\ DOMAIN t = 1 .. Len(t)
  BY LenProperties
<1>2. n \in Int /\ 1 \in Int /\ \A k \in 1 .. n : t[k] \in X
  BY <1>1, ElementOfSeq
<1>3. /\ Seen(t, n) \in Seq(X)
      /\ Len(Seen(t, n)) = IF 1 <= n THEN n - 1 + 1 ELSE 0
      /\ \A k \in 1 .. n - 1 + 1 : Seen(t, n)[k] = t[1 + k - 1]
  BY <1>2, SubSeqProperties DEF Seen
<1>4. Len(Seen(t, n)) = n
  BY <1>1, <1>3
<1> QED
  BY <1>1, <1>3, <1>4, LenProperties

\* HighOf is the one line up to which its two properties hold.
LEMMA HighOfIs ==
    ASSUME NEW X, NEW t \in Seq(X), NEW k \in 1 .. Len(t), NEW h \in k .. Len(t),
           \A i \in k .. h : t[i][1] = t[k][1],
           h = Len(t) \/ t[h + 1][1] # t[k][1]
    PROVE  HighOf(t, k) = h
PROOF
<1>1. /\ HighOf(t, k) \in k .. Len(t)
      /\ \A i \in k .. HighOf(t, k) : t[i][1] = t[k][1]
      /\ h <= HighOf(t, k)
  BY HighOfProperties
<1>2. Len(t) \in Nat
  BY LenProperties
<1>3. ASSUME h < HighOf(t, k) PROVE FALSE
  <2>1. h + 1 \in k .. HighOf(t, k) /\ h # Len(t)
    BY <1>1, <1>2, <1>3
  <2> QED
    BY <1>1, <2>1
<1> QED
  BY <1>1, <1>2, <1>3

\* The intervals of the lines seen do not change when a run is added, and the run
\* is an interval.
LEMMA HighOfSeen ==
    ASSUME NEW X, NEW t \in Seq(X), NEW n, NEW m, IsRun(t, n, m)
    PROVE  /\ \A k \in 1 .. n : HighOf(Seen(t, m), k) = HighOf(Seen(t, n), k)
           /\ HighOf(Seen(t, m), n + 1) = m
PROOF
<1>1. Len(t) \in Nat /\ n \in 0 .. Len(t) /\ m \in n + 1 .. Len(t) /\ m \in 0 .. Len(t)
  BY LenProperties DEF IsRun
<1>2. /\ Seen(t, n) \in Seq(X) /\ Len(Seen(t, n)) = n
      /\ \A i \in 1 .. n : Seen(t, n)[i] = t[i]
  BY <1>1, SeenProperties
<1>3. /\ Seen(t, m) \in Seq(X) /\ Len(Seen(t, m)) = m
      /\ \A i \in 1 .. m : Seen(t, m)[i] = t[i]
  BY <1>1, SeenProperties
<1>4. ASSUME NEW k \in 1 .. n
      PROVE  HighOf(Seen(t, m), k) = HighOf(Seen(t, n), k)
  <2> DEFINE h == HighOf(Seen(t, n), k)
  <2>1. /\ h \in k .. n
        /\ \A i \in k .. h : Seen(t, n)[i][1] = Seen(t, n)[k][1]
        /\ \A j \in k .. n :
              (\A i \in k .. j : Seen(t, n)[i][1] = Seen(t, n)[k][1]) => j <= h
    BY <1>2, HighOfProperties
  <2> HIDE DEF h
  <2>2. k \in 1 .. m /\ h \in k .. m /\ \A i \in k .. h : i \in 1 .. n /\ i \in 1 .. m
    BY <1>1, <2>1
  <2>3. \A i \in k .. h : Seen(t, m)[i][1] = Seen(t, m)[k][1]
    BY <1>2, <1>3, <2>1, <2>2
  <2>4. h + 1 \in 1 .. m /\ t[h + 1][1] # t[k][1]
    <3>1. CASE h = n
      <4>1. n + 1 \in n + 1 .. m /\ n \in k .. h /\ n > 0
        BY <1>1, <2>1, <3>1
      <4>2. t[n + 1][1] # t[n][1]
        BY <4>1 DEF IsRun
      <4>3. t[n][1] = t[k][1]
        BY <1>3, <2>2, <2>3, <4>1
      <4> QED
        BY <1>1, <3>1, <4>1, <4>2, <4>3
    <3>2. CASE h # n
      <4>1. h + 1 \in k .. n /\ ~ (h + 1 <= h)
        BY <1>1, <2>1, <3>2
      <4>2. PICK i \in k .. h + 1 : Seen(t, n)[i][1] # Seen(t, n)[k][1]
        BY <2>1, <4>1
      <4>3. i = h + 1
        BY <2>1, <4>2
      <4> QED
        BY <1>1, <1>2, <2>1, <4>1, <4>2, <4>3
    <3> QED
      BY <3>1, <3>2
  <2>5. Seen(t, m)[h + 1][1] # Seen(t, m)[k][1]
    BY <1>3, <2>2, <2>4
  <2> DEFINE s == Seen(t, m)
  <2>6. /\ s \in Seq(X) /\ k \in 1 .. Len(s) /\ h \in k .. Len(s)
        /\ \A i \in k .. h : s[i][1] = s[k][1]
        /\ s[h + 1][1] # s[k][1]
    BY <1>3, <2>2, <2>3, <2>5
  <2> HIDE DEF s
  <2>7. HighOf(s, k) = h
    BY <2>6, HighOfIs
  <2> QED
    BY <2>7 DEF s, h
<1>5. HighOf(Seen(t, m), n + 1) = m
  <2>1. n + 1 \in 1 .. m /\ m \in n + 1 .. m /\ \A i \in n + 1 .. m : i \in 1 .. m
    BY <1>1
  <2>2. \A i \in n + 1 .. m : Seen(t, m)[i][1] = Seen(t, m)[n + 1][1]
    BY <1>3, <2>1 DEF IsRun
  <2> DEFINE s == Seen(t, m)
             j == n + 1
  <2>3. /\ s \in Seq(X) /\ j \in 1 .. Len(s) /\ m \in j .. Len(s) /\ m = Len(s)
        /\ \A i \in j .. m : s[i][1] = s[j][1]
    BY <1>3, <2>1, <2>2
  <2> HIDE DEF s, j
  <2>4. HighOf(s, j) = m
    BY <2>3, HighOfIs
  <2> QED
    BY <2>4 DEF s, j
<1> QED
  BY <1>4, <1>5

-----------------------------------------------------------------------------
\* The intervals that start at given lines, and the queue.

LowsOf(starts) == Ascending(starts, [k \in starts |-> k])

LEMMA LowsProperties ==
    ASSUME NEW n \in Nat, NEW starts \in SUBSET (1 .. n)
    PROVE  /\ LowsOf(starts) \in Seq(starts)
           /\ \A k \in starts : \E i \in 1 .. Len(LowsOf(starts)) : LowsOf(starts)[i] = k
           /\ \A i, j \in 1 .. Len(LowsOf(starts)) :
                 i < j => LowsOf(starts)[i] < LowsOf(starts)[j]
           /\ LowsOf(starts \cup {n + 1}) = Append(LowsOf(starts), n + 1)
PROOF
<1> DEFINE key == [k \in starts |-> k]
           more == starts \cup {n + 1}
           later == [k \in more |-> k]
<1>1. IsFiniteSet(starts)
  <2>1. IsFiniteSet(1 .. n)
    BY FS_Interval
  <2> QED
    BY <2>1, FS_Subset
<1>2. /\ AreKeys(key, starts, n + 1)
      /\ \A k \in starts : key[k] = k
  BY DEF AreKeys
<1>3. n + 1 \notin starts /\ n + 1 \in Nat
  OBVIOUS
<1>4. AreKeys(later, more, n + 1) /\ \A y \in starts : later[y] = y /\ later[y] < later[n + 1]
  BY DEF AreKeys
<1>5. LowsOf(starts) = Ascending(starts, key) /\ LowsOf(more) = Ascending(more, later)
  BY DEF LowsOf
<1> HIDE DEF key, later
<1>6. IsLast(n + 1, starts, key, later)
  BY <1>2, <1>3, <1>4 DEF IsLast
<1>7. Ascending(more, later) = Append(Ascending(starts, key), n + 1)
  BY <1>1, <1>2, <1>3, <1>4, <1>6, AscendingAppend
<1> DEFINE s == Ascending(starts, key)
<1>8. /\ s \in Seq(starts)
      /\ \A k \in starts : \E i \in 1 .. Len(s) : s[i] = k
      /\ \A i, j \in 1 .. Len(s) : i < j => key[s[i]] < key[s[j]]
  BY <1>1, <1>2, <1>3, AscendingProperties
<1> HIDE DEF s
<1>9. \A i \in 1 .. Len(s) : s[i] \in starts
  BY <1>8, ElementOfSeq
<1>10. \A i, j \in 1 .. Len(s) : i < j => s[i] < s[j]
  BY <1>2, <1>8, <1>9
<1> QED
  BY <1>5, <1>7, <1>8, <1>10 DEF s

LEMMA IntervalsFromProperties ==
    ASSUME NEW X, NEW t \in Seq(X), NEW starts \in SUBSET (1 .. Len(t))
    PROVE  /\ IntervalsFrom(t, starts) \in Seq(IntervalType(t))
           /\ Len(IntervalsFrom(t, starts)) = Len(LowsOf(starts))
           /\ \A i \in 1 .. Len(LowsOf(starts)) :
                 IntervalsFrom(t, starts)[i] = [low        |-> LowsOf(starts)[i],
                                                high       |-> HighOf(t, LowsOf(starts)[i]),
                                                fpos_start |-> FposStart(LowsOf(starts)[i])]
PROOF
<1> DEFINE lows == LowsOf(starts)
           interval(low) == [low |-> low, high |-> HighOf(t, low), fpos_start |-> FposStart(low)]
           ivs == [i \in DOMAIN lows |-> interval(lows[i])]
<1>1. IntervalsFrom(t, starts) = ivs
  BY DEF IntervalsFrom, LowsOf
<1>2. Len(t) \in Nat
  BY LenProperties
<1>3. lows \in Seq(starts)
  BY <1>2, LowsProperties
<1> HIDE DEF lows
<1>4. Len(lows) \in Nat /\ DOMAIN lows = 1 .. Len(lows) /\ \A i \in 1 .. Len(lows) : lows[i] \in starts
  BY <1>3, LenProperties, ElementOfSeq
<1>5. \A low \in starts : interval(low) \in IntervalType(t)
  <2> TAKE low \in starts
  <2>1. low \in 1 .. Len(t)
    OBVIOUS
  <2>2. HighOf(t, low) \in low .. Len(t)
    BY <2>1, HighOfProperties
  <2>3. HighOf(t, low) \in 1 .. Len(t) /\ FposStart(low) \in Nat
    BY <1>2, <2>1, <2>2 DEF FposStart, StartOf, EndOf
  <2> QED
    BY <2>1, <2>3 DEF IntervalType
<1> HIDE DEF interval
<1>6. ivs \in [1 .. Len(lows) -> IntervalType(t)]
  BY <1>4, <1>5
<1>7. ivs \in Seq(IntervalType(t)) /\ Len(ivs) = Len(lows)
  BY <1>4, <1>6
<1>8. \A i \in 1 .. Len(lows) : ivs[i] = interval(lows[i])
  BY <1>4
<1> HIDE DEF ivs
<1> QED
  BY <1>1, <1>7, <1>8 DEF lows, interval

-----------------------------------------------------------------------------
\* What is known after one run more.

\* The lines of an owner among the first n of t, and those that start an interval.
LinesUpTo(t, n, name) == {k \in 1 .. n : PidKey(t[k][1]) = name}
StartsUpTo(t, n, name) == {k \in LinesUpTo(t, n, name) : StartsInterval(t, k)}

\* FirstPass says what TraceFile does.
LEMMA PassTerms ==
    ASSUME NEW t
    PROVE  /\ \A p : Pass!LinesOf(t, p) = LinesOf(t, p)
           /\ Pass!PidsOf(t) = PidsOf(t)
           /\ \A k : Pass!StartsInterval(t, k) <=> StartsInterval(t, k)
           /\ \A starts : Pass!IntervalsFrom(t, starts) = IntervalsFrom(t, starts)
           /\ Pass!FirstRunnable(t) = FirstRunnable(t)
PROOF
<1>1. /\ \A p : Pass!LinesOf(t, p) = LinesOf(t, p)
      /\ Pass!PidsOf(t) = PidsOf(t)
  BY DEF Pass!LinesOf, LinesOf, Pass!PidsOf, PidsOf
<1>2. \A k : Pass!StartsInterval(t, k) <=> StartsInterval(t, k)
  BY DEF Pass!StartsInterval, StartsInterval
<1>3. \A S, key : Pass!Ascending(S, key) = Ascending(S, key)
  <2>1. \A S : Pass!Cardinality(S) = Cardinality(S)
    BY Zenon DEF Pass!Cardinality, Cardinality
  <2> QED
    BY <2>1, Zenon DEF Pass!Ascending, Ascending
<1>4. \A k : Pass!HighOf(t, k) = HighOf(t, k) /\ Pass!FposStart(k) = FposStart(k)
  BY DEF Pass!HighOf, HighOf, Pass!FposStart, FposStart, Pass!StartOf, StartOf,
         Pass!EndOf, EndOf, Pass!Max, Max
<1>5. \A starts : Pass!IntervalsFrom(t, starts) = IntervalsFrom(t, starts)
  BY <1>3, <1>4 DEF Pass!IntervalsFrom, IntervalsFrom
<1>6. Pass!FirstRunnable(t) = FirstRunnable(t)
  <2>1. \A S : Pass!Min(S) = Min(S)
    BY DEF Pass!Min, Min
  <2> QED
    BY <1>1, <1>3, <2>1 DEF Pass!FirstRunnable, FirstRunnable
<1> QED
  BY <1>1, <1>2, <1>5, <1>6

LEMMA OwnedProperties ==
    ASSUME NEW X, NEW t \in Seq(X), NEW n \in 0 .. Len(t), NEW name
    PROVE  /\ Pass!Owned(Seen(t, n)) \in Seq({<<PidKey(t[k][1]), t[k][2]>> : k \in 1 .. n})
           /\ LinesOf(Pass!Owned(Seen(t, n)), name) = LinesUpTo(t, n, name)
           /\ PidsOf(Pass!Owned(Seen(t, n))) = {PidKey(t[k][1]) : k \in 1 .. n}
           /\ Pass!OwnedIntervals(Seen(t, n), name)
                 = IntervalsFrom(Seen(t, n), StartsUpTo(t, n, name))
PROOF
<1> DEFINE s == Seen(t, n)
           o == Pass!Owned(s)
           line(k) == <<PidKey(t[k][1]), t[k][2]>>
<1>1. n \in Nat /\ DOMAIN s = 1 .. n /\ \A k \in 1 .. n : s[k] = t[k]
  <2>1. Len(t) \in Nat
    BY LenProperties
  <2> QED
    BY <2>1, SeenProperties
<1> HIDE DEF s
<1>2. o = [k \in 1 .. n |-> line(k)]
  BY <1>1 DEF Pass!Owned
<1>3. o \in Seq({line(k) : k \in 1 .. n})
  <2> HIDE DEF line, o
  <2>1. o \in [1 .. n -> {line(k) : k \in 1 .. n}]
    BY <1>2
  <2> QED
    BY <1>1, <2>1
<1>4. DOMAIN o = 1 .. n /\ \A k \in 1 .. n : o[k][1] = PidKey(t[k][1])
  BY <1>2
<1> HIDE DEF o
<1>5. LinesOf(o, name) = LinesUpTo(t, n, name)
  BY <1>4 DEF LinesOf, LinesUpTo
<1>6. PidsOf(o) = {PidKey(t[k][1]) : k \in 1 .. n}
  BY <1>4 DEF PidsOf
<1>7. {k \in LinesOf(o, name) : StartsInterval(s, k)} = StartsUpTo(t, n, name)
  <2>1. \A k \in LinesUpTo(t, n, name) : StartsInterval(s, k) <=> StartsInterval(t, k)
    <3> TAKE k \in LinesUpTo(t, n, name)
    <3>1. k \in 1 .. n /\ (k # 1 => k - 1 \in 1 .. n)
      BY <1>1 DEF LinesUpTo
    <3> QED
      BY <1>1, <3>1 DEF StartsInterval
  <2> QED
    BY <1>5, <2>1 DEF StartsUpTo
<1>8. Pass!OwnedIntervals(s, name) = IntervalsFrom(s, {k \in LinesOf(o, name) : StartsInterval(s, k)})
  BY PassTerms DEF Pass!OwnedIntervals, o
<1> QED
  BY <1>3, <1>5, <1>6, <1>7, <1>8 DEF s, o

\* A run adds its lines, of which the first starts an interval, to its owner.
LEMMA LinesAfterRun ==
    ASSUME NEW X, NEW t \in Seq(X), NEW n, NEW m, IsRun(t, n, m), NEW name
    PROVE  /\ LinesUpTo(t, m, name) = IF name = PidKey(t[m][1])
                                      THEN LinesUpTo(t, n, name) \cup (n + 1 .. m)
                                      ELSE LinesUpTo(t, n, name)
           /\ StartsUpTo(t, m, name) = IF name = PidKey(t[m][1])
                                       THEN StartsUpTo(t, n, name) \cup {n + 1}
                                       ELSE StartsUpTo(t, n, name)
           /\ {PidKey(t[k][1]) : k \in 1 .. m}
                 = {PidKey(t[k][1]) : k \in 1 .. n} \cup {PidKey(t[m][1])}
PROOF
<1>1. /\ n \in Nat /\ m \in Nat /\ n < m
      /\ \A k \in n + 1 .. m : t[k][1] = t[m][1]
      /\ n > 0 => t[n][1] # t[m][1]
  BY LenProperties DEF IsRun
<1>2. 1 .. m = (1 .. n) \cup (n + 1 .. m) /\ n + 1 \in n + 1 .. m /\ m \in n + 1 .. m
  BY <1>1
<1>3. \A k \in n + 1 .. m : StartsInterval(t, k) <=> k = n + 1
  <2> TAKE k \in n + 1 .. m
  <2>1. CASE k = n + 1
    <3>1. k = 1 \/ (k - 1 = n /\ n > 0)
      BY <1>1, <2>1
    <3> QED
      BY <1>1, <1>2, <2>1, <3>1 DEF StartsInterval
  <2>2. CASE k # n + 1
    <3>1. k - 1 \in n + 1 .. m /\ k # 1
      BY <1>1, <2>2
    <3> QED
      BY <1>1, <2>2, <3>1 DEF StartsInterval
  <2> QED
    BY <2>1, <2>2
<1>4. \A k \in n + 1 .. m : PidKey(t[k][1]) = PidKey(t[m][1])
  BY <1>1
<1>5. LinesUpTo(t, m, name) = IF name = PidKey(t[m][1])
                              THEN LinesUpTo(t, n, name) \cup (n + 1 .. m)
                              ELSE LinesUpTo(t, n, name)
  BY <1>2, <1>4, Zenon DEF LinesUpTo
<1>6. StartsUpTo(t, m, name) = IF name = PidKey(t[m][1])
                               THEN StartsUpTo(t, n, name) \cup {n + 1}
                               ELSE StartsUpTo(t, n, name)
  BY <1>2, <1>3, <1>5, Zenon DEF StartsUpTo
<1>7. {PidKey(t[k][1]) : k \in 1 .. m}
         = {PidKey(t[k][1]) : k \in 1 .. n} \cup {PidKey(t[m][1])}
  BY <1>2, <1>4, Zenon
<1> QED
  BY <1>5, <1>6, <1>7

RunInterval(n, m) == [low |-> n + 1, high |-> m, fpos_start |-> FposStart(n + 1)]

\* The run is the last interval of its owner, and nobody else's intervals change.
LEMMA IntervalsAfterRun ==
    ASSUME NEW X, NEW t \in Seq(X), NEW n, NEW m, IsRun(t, n, m), NEW name
    PROVE  Pass!OwnedIntervals(Seen(t, m), name)
              = IF name = PidKey(t[m][1])
                THEN Append(Pass!OwnedIntervals(Seen(t, n), name), RunInterval(n, m))
                ELSE Pass!OwnedIntervals(Seen(t, n), name)
PROOF
<1> DEFINE starts == StartsUpTo(t, n, name)
           lows == LowsOf(starts)
           old == IntervalsFrom(Seen(t, n), starts)
           interval(s, low) == [low |-> low, high |-> HighOf(s, low), fpos_start |-> FposStart(low)]
           I == IntervalType(Seen(t, m))
<1>1. n \in 0 .. Len(t) /\ m \in 0 .. Len(t) /\ n \in Nat /\ m \in Nat /\ n < m
  BY LenProperties DEF IsRun
<1>2. /\ Seen(t, n) \in Seq(X) /\ Len(Seen(t, n)) = n
      /\ Seen(t, m) \in Seq(X) /\ Len(Seen(t, m)) = m
  BY <1>1, SeenProperties
<1>3. /\ Pass!OwnedIntervals(Seen(t, n), name) = old
      /\ Pass!OwnedIntervals(Seen(t, m), name) = IntervalsFrom(Seen(t, m), StartsUpTo(t, m, name))
  BY <1>1, OwnedProperties
<1>4. starts \in SUBSET (1 .. n) /\ starts \in SUBSET (1 .. m)
  BY <1>1 DEF StartsUpTo, LinesUpTo
<1>5. /\ \A k \in 1 .. n : HighOf(Seen(t, m), k) = HighOf(Seen(t, n), k)
      /\ HighOf(Seen(t, m), n + 1) = m
  BY HighOfSeen
<1> HIDE DEF starts
<1>6. /\ lows \in Seq(starts) /\ LowsOf(starts \cup {n + 1}) = Append(lows, n + 1)
  BY <1>1, <1>4, LowsProperties
<1> HIDE DEF lows
<1>7. /\ Len(lows) \in Nat /\ \A i \in 1 .. Len(lows) : lows[i] \in 1 .. n
  BY <1>4, <1>6, LenProperties, ElementOfSeq
<1>8. /\ old \in Seq(IntervalType(Seen(t, n))) /\ Len(old) = Len(lows)
      /\ \A i \in 1 .. Len(lows) : old[i] = interval(Seen(t, n), lows[i])
  BY <1>2, <1>4, IntervalsFromProperties DEF lows
<1> HIDE DEF old
<1>9. \A i \in 1 .. Len(lows) : interval(Seen(t, n), lows[i]) = interval(Seen(t, m), lows[i])
  BY <1>5, <1>7
<1>10. CASE name = PidKey(t[m][1])
  <2> DEFINE more == starts \cup {n + 1}
             new == IntervalsFrom(Seen(t, m), more)
             r == RunInterval(n, m)
             a == Append(old, r)
  <2>1. StartsUpTo(t, m, name) = more
    BY <1>10, LinesAfterRun DEF starts
  <2>2. more \in SUBSET (1 .. m)
    BY <1>1, <1>4
  <2>3. /\ Len(LowsOf(more)) = Len(lows) + 1
        /\ \A i \in 1 .. Len(lows) : LowsOf(more)[i] = lows[i]
        /\ LowsOf(more)[Len(lows) + 1] = n + 1
    <3> DEFINE x == n + 1
    <3>1. x \in 1 .. m /\ \A i \in 1 .. Len(lows) : lows[i] \in 1 .. m
      BY <1>1, <1>7
    <3>2. lows \in [1 .. Len(lows) -> 1 .. m]
      BY <1>6, <3>1
    <3>3. lows \in Seq(1 .. m)
      <4> DEFINE L == 1 .. m
                 len == Len(lows)
      <4>1. lows \in [1 .. len -> L] /\ len \in Nat
        BY <1>7, <3>2
      <4> HIDE DEF L, len
      <4>2. lows \in Seq(L)
        BY <4>1
      <4> QED
        BY <4>2 DEF L
    <3>4. LowsOf(more) = Append(lows, x)
      BY <1>6
    <3> HIDE DEF x, more
    <3>5. /\ Len(Append(lows, x)) = Len(lows) + 1
          /\ \A i \in 1 .. Len(lows) : Append(lows, x)[i] = lows[i]
          /\ Append(lows, x)[Len(lows) + 1] = x
      BY <3>1, <3>3, AppendProperties
    <3> QED
      BY <3>4, <3>5 DEF x
  <2> HIDE DEF more
  <2>4. /\ new \in Seq(I) /\ Len(new) = Len(lows) + 1
        /\ \A i \in 1 .. Len(lows) + 1 : new[i] = interval(Seen(t, m), LowsOf(more)[i])
    BY <1>2, <2>2, <2>3, IntervalsFromProperties
  <2>5. new[Len(lows) + 1] = r
    BY <1>5, <1>7, <2>3, <2>4 DEF RunInterval
  <2>6. \A i \in 1 .. Len(lows) : new[i] = old[i]
    <3> TAKE i \in 1 .. Len(lows)
    <3>1. i \in 1 .. Len(lows) + 1
      BY <1>7
    <3> QED
      BY <1>8, <1>9, <2>3, <2>4, <3>1
  <2> HIDE DEF new, r, interval
  <2>7. old \in Seq(I) /\ r \in I
    <3>1. Len(lows) + 1 \in 1 .. Len(new) /\ \A i \in 1 .. Len(lows) : i \in 1 .. Len(new)
      BY <1>7, <2>4
    <3>2. r \in I /\ \A i \in 1 .. Len(lows) : old[i] \in I
      BY <2>4, <2>5, <2>6, <3>1, ElementOfSeq
    <3>3. old \in [1 .. Len(lows) -> I]
      BY <1>8, <3>2
    <3> QED
      BY <1>7, <3>2, <3>3
  <2>8. /\ a \in Seq(I) /\ Len(a) = Len(lows) + 1
        /\ \A i \in 1 .. Len(lows) : a[i] = old[i]
        /\ a[Len(lows) + 1] = r
    BY <1>8, <2>7, AppendProperties
  <2> HIDE DEF a
  <2>9. new = a
    <3>1. \A i \in 1 .. Len(lows) + 1 : new[i] = a[i]
      BY <1>7, <2>5, <2>6, <2>8
    <3> QED
      BY <1>7, <2>4, <2>8, <3>1, SeqEqual
  <2> QED
    BY <1>3, <1>10, <2>1, <2>9 DEF new, a, r
<1>11. CASE name # PidKey(t[m][1])
  <2> DEFINE new == IntervalsFrom(Seen(t, m), starts)
  <2>1. StartsUpTo(t, m, name) = starts
    BY <1>11, LinesAfterRun DEF starts
  <2>2. /\ new \in Seq(I) /\ Len(new) = Len(lows)
        /\ \A i \in 1 .. Len(lows) : new[i] = interval(Seen(t, m), lows[i])
    BY <1>2, <1>4, IntervalsFromProperties DEF lows
  <2> HIDE DEF new, interval
  <2>3. \A i \in 1 .. Len(lows) : new[i] = old[i]
    BY <1>8, <1>9, <2>2
  <2>4. new = old
    BY <1>8, <2>2, <2>3, SeqEqual
  <2> QED
    BY <1>3, <1>11, <2>1, <2>4 DEF new
<1> QED
  BY <1>10, <1>11

\* The processes of the first n lines, and the first line of each.
Owners(t, n) == {PidKey(t[k][1]) : k \in 1 .. n}
FirstLines(t, n) == [p \in Owners(t, n) |-> Min(LinesUpTo(t, n, p))]

LEMMA OwnersProperties ==
    ASSUME NEW X, NEW t \in Seq(X), NEW n \in 0 .. Len(t)
    PROVE  /\ IsFiniteSet(Owners(t, n))
           /\ AreKeys(FirstLines(t, n), Owners(t, n), Len(t))
           /\ \A p \in Owners(t, n) :
                 /\ FirstLines(t, n)[p] \in LinesUpTo(t, n, p)
                 /\ \A k \in LinesUpTo(t, n, p) : FirstLines(t, n)[p] <= k
           /\ Pass!FirstRunnable(Pass!Owned(Seen(t, n)))
                 = Ascending(Owners(t, n), FirstLines(t, n))
PROOF
<1> DEFINE S == Owners(t, n)
           key == FirstLines(t, n)
           o == Pass!Owned(Seen(t, n))
<1>1. n \in Nat /\ Len(t) \in Nat
  BY LenProperties
<1>2. IsFiniteSet(S)
  <2> DEFINE D == 1 .. n
             f == [k \in D |-> PidKey(t[k][1])]
  <2>1. IsFiniteSet(D)
    BY <1>1, FS_Interval
  <2>2. f \in Surjection(D, S)
    BY DEF Surjection, Owners
  <2> HIDE DEF D, f, S
  <2> QED
    BY <2>1, <2>2, FS_Surjection
<1>3. ASSUME NEW p \in S
      PROVE  /\ key[p] = Min(LinesUpTo(t, n, p))
             /\ key[p] \in LinesUpTo(t, n, p)
             /\ \A k \in LinesUpTo(t, n, p) : key[p] <= k
  <2>1. key[p] = Min(LinesUpTo(t, n, p))
    BY DEF FirstLines
  <2>2. LinesUpTo(t, n, p) \in SUBSET Nat /\ LinesUpTo(t, n, p) # {}
    BY <1>1 DEF LinesUpTo, Owners
  <2> QED
    BY <2>1, <2>2, MinNat
<1>4. AreKeys(key, S, Len(t))
  <2>1. \A p \in S : key[p] \in 0 .. Len(t) /\ PidKey(t[key[p]][1]) = p
    <3> TAKE p \in S
    <3>1. key[p] \in LinesUpTo(t, n, p)
      BY <1>3
    <3> HIDE DEF key, S
    <3> QED
      BY <1>1, <3>1 DEF LinesUpTo
  <2>2. \A p, q \in S : key[p] = key[q] => p = q
    BY <2>1
  <2>3. key \in [S -> 0 .. Len(t)]
    <3>1. key = [p \in S |-> Min(LinesUpTo(t, n, p))]
      BY DEF FirstLines
    <3>2. \A p \in S : Min(LinesUpTo(t, n, p)) \in 0 .. Len(t)
      BY <1>3, <2>1
    <3> HIDE DEF key, S
    <3> QED
      BY <3>1, <3>2
  <2> QED
    BY <2>2, <2>3 DEF AreKeys
<1>5. Pass!FirstRunnable(o) = Ascending(S, key)
  <2>1. PidsOf(o) = S /\ \A p : LinesOf(o, p) = LinesUpTo(t, n, p)
    BY OwnedProperties DEF Owners
  <2> HIDE DEF o
  <2>2. [p \in PidsOf(o) |-> Min(LinesOf(o, p))] = key
    BY <2>1 DEF FirstLines
  <2> QED
    BY <2>1, <2>2, PassTerms DEF FirstRunnable
<1> QED
  BY <1>2, <1>3, <1>4, <1>5

\* A process that is new with the run comes last in the queue; otherwise the queue
\* stays as it is.
LEMMA QueueAfterRun ==
    ASSUME NEW X, NEW t \in Seq(X), NEW n, NEW m, IsRun(t, n, m)
    PROVE  Pass!FirstRunnable(Pass!Owned(Seen(t, m)))
              = IF PidKey(t[m][1]) \in Owners(t, n)
                THEN Pass!FirstRunnable(Pass!Owned(Seen(t, n)))
                ELSE Append(Pass!FirstRunnable(Pass!Owned(Seen(t, n))), PidKey(t[m][1]))
PROOF
<1> DEFINE owner == PidKey(t[m][1])
           S == Owners(t, n)
           key == FirstLines(t, n)
           T == Owners(t, m)
           later == FirstLines(t, m)
           N == Len(t)
<1>1. n \in 0 .. Len(t) /\ m \in 0 .. Len(t) /\ n \in Nat /\ m \in Nat /\ n < m /\ N \in Nat
  BY LenProperties DEF IsRun
<1>2. /\ IsFiniteSet(S) /\ AreKeys(key, S, N)
      /\ \A p \in S : /\ key[p] \in LinesUpTo(t, n, p)
                      /\ \A k \in LinesUpTo(t, n, p) : key[p] <= k
      /\ Pass!FirstRunnable(Pass!Owned(Seen(t, n))) = Ascending(S, key)
  BY <1>1, OwnersProperties
<1>3. /\ IsFiniteSet(T) /\ AreKeys(later, T, N)
      /\ \A p \in T : /\ later[p] \in LinesUpTo(t, m, p)
                      /\ \A k \in LinesUpTo(t, m, p) : later[p] <= k
      /\ Pass!FirstRunnable(Pass!Owned(Seen(t, m))) = Ascending(T, later)
  BY <1>1, OwnersProperties
<1>4. T = S \cup {owner}
  BY LinesAfterRun DEF Owners
<1>5. \A p : LinesUpTo(t, m, p) = IF p = owner THEN LinesUpTo(t, n, p) \cup (n + 1 .. m)
                                 ELSE LinesUpTo(t, n, p)
  BY LinesAfterRun
<1>6. \A p : LinesUpTo(t, n, p) \subseteq 1 .. n
  BY DEF LinesUpTo
<1>7. DOMAIN key = S /\ DOMAIN later = T
  BY DEF FirstLines
<1>8. later = [p \in T |-> later[p]] /\ key = [p \in S |-> key[p]]
  BY DEF FirstLines
<1> HIDE DEF S, T, key, later, owner, N
<1>9. ASSUME NEW p \in S
      PROVE  later[p] = key[p] /\ key[p] \in 1 .. n
  <2>1. key[p] \in LinesUpTo(t, n, p) /\ key[p] \in 1 .. n
    BY <1>2, <1>6
  <2>2. p \in T /\ key[p] \in LinesUpTo(t, m, p)
    BY <1>4, <1>5, <2>1
  <2>3. later[p] <= key[p] /\ later[p] \in LinesUpTo(t, m, p)
    BY <1>3, <2>2
  <2>4. later[p] \in LinesUpTo(t, n, p)
    <3>1. later[p] \in LinesUpTo(t, n, p) \/ later[p] \in n + 1 .. m
      BY <1>5, <2>3
    <3>2. later[p] \notin n + 1 .. m
      BY <1>1, <2>1, <2>3
    <3> QED
      BY <3>1, <3>2
  <2>5. key[p] <= later[p] /\ later[p] \in 1 .. n
    BY <1>2, <1>6, <2>4
  <2> QED
    BY <1>1, <2>1, <2>3, <2>5
<1>10. CASE owner \in S
  <2>1. T = S
    BY <1>4, <1>10
  <2>2. later = key
    BY <1>8, <1>9, <2>1, Zenon
  <2> QED
    BY <1>2, <1>3, <1>10, <2>1, <2>2 DEF owner, S
<1>11. CASE owner \notin S
  <2>1. later[owner] \in n + 1 .. m
    <3>1. LinesUpTo(t, n, owner) = {}
      BY <1>11 DEF LinesUpTo, S, Owners
    <3>2. owner \in T
      BY <1>4
    <3> QED
      BY <1>3, <1>5, <3>1, <3>2
  <2>2. IsLast(owner, S, key, later)
    BY <1>1, <1>9, <1>11, <2>1 DEF IsLast
  <2>3. /\ N \in Nat /\ IsFiniteSet(S) /\ AreKeys(key, S, N)
        /\ AreKeys(later, S \cup {owner}, N)
    BY <1>1, <1>2, <1>3, <1>4
  <2>4. Ascending(S \cup {owner}, later) = Append(Ascending(S, key), owner)
    BY <2>2, <2>3, AscendingAppend
  <2> QED
    BY <1>2, <1>3, <1>4, <1>11, <2>4 DEF owner, S
<1> QED
  BY <1>10, <1>11

-----------------------------------------------------------------------------
\* Trees that are chains of right children.

RightPath(i) == [j \in 1 .. i - 1 |-> "R"]

\* What a node says of an interval, whatever hangs below it.
IntervalOf(node) == [low |-> node.low, high |-> node.high, fpos_start |-> node.fpos_start]

\* The nodes of a tree are the intervals given, one below the other on the right.
IsSpine(t, ivs) ==
    /\ DOMAIN t = {RightPath(i) : i \in 1 .. Len(ivs)}
    /\ \A i \in 1 .. Len(ivs) : IntervalOf(t[RightPath(i)]) = ivs[i]

LEMMA RightPathProperties ==
    ASSUME NEW i \in Nat \ {0}
    PROVE  /\ RightPath(i) \in Paths /\ Len(RightPath(i)) = i - 1
           /\ \A j \in 1 .. i - 1 : RightPath(i)[j] = "R"
           /\ DOMAIN RightPath(i) = 1 .. i - 1
BY DEF RightPath, Paths

\* A path that turns right all along is one of them.
LEMMA RightPathIs ==
    ASSUME NEW p \in Paths, \A j \in 1 .. Len(p) : p[j] = "R"
    PROVE  p = RightPath(Len(p) + 1)
PROOF
<1>1. Len(p) \in Nat /\ p = [j \in 1 .. Len(p) |-> p[j]]
  BY DEF Paths
<1>2. RightPath(Len(p) + 1) = [j \in 1 .. Len(p) |-> "R"]
  BY <1>1 DEF RightPath
<1> QED
  BY <1>1, <1>2

\* Following right pointers from the root of a chain visits its intervals.
LEMMA SpineOfChain ==
    ASSUME NEW X, NEW ivs \in Seq(X), NEW t, IsSpine(t, ivs)
    PROVE  RightSpine(t) = ivs
PROOF
<1> DEFINE N == Len(ivs)
           depth == Cardinality({path \in DOMAIN t : "L" \notin Range(path)})
<1>1. N \in Nat /\ ivs = [i \in 1 .. N |-> ivs[i]]
  OBVIOUS
<1>2. \A i \in 1 .. N : /\ RightPath(i) \in Paths /\ Len(RightPath(i)) = i - 1
                        /\ "L" \notin Range(RightPath(i))
  <2> TAKE i \in 1 .. N
  <2>1. i \in Nat \ {0}
    BY <1>1
  <2> QED
    BY <2>1, RightPathProperties DEF Range
<1>3. {path \in DOMAIN t : "L" \notin Range(path)} = {RightPath(i) : i \in 1 .. N}
  BY <1>2 DEF IsSpine
<1>4. depth = N
  <2> DEFINE D == 1 .. N
             S == {RightPath(i) : i \in D}
             f == [i \in D |-> RightPath(i)]
  <2>1. IsFiniteSet(D) /\ Cardinality(D) = N
    <3>1. N \in Nat
      BY <1>1
    <3> HIDE DEF N
    <3>2. IsFiniteSet(1 .. N) /\ Cardinality(1 .. N) = N
      BY <3>1, FS_Interval
    <3> QED
      BY <3>2
  <2>2. f \in Surjection(D, S)
    BY DEF Surjection
  <2>3. \A i, j \in D : f[i] = f[j] => i = j
    <3> SUFFICES ASSUME NEW i \in D, NEW j \in D, RightPath(i) = RightPath(j)
                 PROVE  i = j
      OBVIOUS
    <3>1. i - 1 = j - 1
      BY <1>2
    <3> QED
      BY <1>1, <3>1
  <2>4. f \in Bijection(D, S)
    <3>1. f \in [D -> S]
      OBVIOUS
    <3> HIDE DEF D, S, f
    <3> QED
      BY <2>2, <2>3, <3>1 DEF Bijection, Injection, IsInjective
  <2> HIDE DEF D, S, f
  <2>5. ExistsBijection(D, S)
    BY <2>4 DEF ExistsBijection
  <2>6. Cardinality(S) = N
    BY <2>1, <2>5, FS_Bijection
  <2> QED
    BY <1>3, <2>6 DEF S, D
<1>5. RightSpine(t) = [i \in 1 .. depth |-> IntervalOf(t[RightPath(i)])]
  BY DEF RightSpine, RightPath, IntervalOf
<1> HIDE DEF N, depth
<1>6. \A i \in 1 .. N : IntervalOf(t[RightPath(i)]) = ivs[i]
  BY DEF IsSpine, N
<1> QED
  BY <1>1, <1>4, <1>5, <1>6

\* A node that starts no earlier than all others is inserted at the end of the
\* chain: each node above sends it to the right.
LEMMA InsertPathOnSpine ==
    ASSUME NEW X, NEW ivs \in Seq(X), NEW t, IsTree(t), IsSpine(t, ivs),
           NEW node, \A i \in 1 .. Len(ivs) : ~ (node.low < ivs[i].low)
    PROVE  InsertPath(t, node) = RightPath(Len(ivs) + 1)
PROOF
<1> DEFINE path == InsertPath(t, node)
<1>1. /\ path \in Paths /\ path \notin DOMAIN t
      /\ \A r \in Paths : IsPrefix(r, path) /\ r # path =>
            r \in DOMAIN t /\ IsPrefix(InsertSide(t, r, node), path)
  BY InsertPathProperties
<1> HIDE DEF path
<1>2. Len(ivs) \in Nat /\ Len(path) \in Nat /\ path \in Seq({"L", "R"})
  BY <1>1 DEF Paths
<1>3. \A r \in DOMAIN t : r \in Paths /\ InsertSide(t, r, node) = RightOf(r)
  <2> TAKE r \in DOMAIN t
  <2>1. PICK i \in 1 .. Len(ivs) : r = RightPath(i)
    BY DEF IsSpine
  <2>2. t[r].low = ivs[i].low
    <3>1. IntervalOf(t[r]) = ivs[i]
      BY <2>1 DEF IsSpine
    <3>2. IntervalOf(t[r]).low = t[r].low
      BY DEF IntervalOf
    <3> QED
      BY <3>1, <3>2
  <2> QED
    BY <2>2 DEF InsertSide, IsTree
<1>4. ASSUME NEW j \in 1 .. Len(path)
      PROVE  /\ path[j] = "R"
             /\ SubSeq(path, 1, j - 1) \in DOMAIN t
             /\ Len(SubSeq(path, 1, j - 1)) = j - 1
  <2> DEFINE r == SubSeq(path, 1, j - 1)
             n == j - 1
  <2>1. /\ r \in Paths /\ Len(r) = j - 1 /\ \A k \in 1 .. j - 1 : r[k] = path[k]
    <3>1. n \in Nat /\ n \in Int /\ 1 \in Int /\ \A k \in 1 .. n : path[k] \in {"L", "R"}
      BY <1>2
    <3> HIDE DEF n
    <3>2. /\ SubSeq(path, 1, n) \in Seq({"L", "R"})
          /\ Len(SubSeq(path, 1, n)) = IF 1 <= n THEN n - 1 + 1 ELSE 0
          /\ \A k \in 1 .. n - 1 + 1 : SubSeq(path, 1, n)[k] = path[1 + k - 1]
      BY <3>1, SubSeqProperties
    <3>3. SubSeq(path, 1, n) \in Paths /\ Len(SubSeq(path, 1, n)) = n
      BY <3>1, <3>2 DEF Paths
    <3>4. \A k \in 1 .. n : SubSeq(path, 1, n)[k] = path[k]
      BY <3>1, <3>2
    <3> QED
      BY <3>3, <3>4 DEF n
  <2> HIDE DEF r
  <2>2. IsPrefix(r, path) /\ r # path
    <3>1. Len(r) <= Len(path) /\ Len(r) # Len(path)
      BY <1>2, <2>1
    <3> QED
      BY <1>1, <2>1, <3>1, PrefixByIndex
  <2>3. r \in DOMAIN t /\ IsPrefix(RightOf(r), path)
    BY <1>1, <1>3, <2>1, <2>2
  <2>4. path[Len(r) + 1] = "R"
    BY <1>1, <2>1, <2>3, SidesOf
  <2> QED
    BY <1>2, <2>1, <2>3, <2>4 DEF r
<1>5. path = RightPath(Len(path) + 1)
  BY <1>1, <1>4, RightPathIs
<1>6. \A i \in 1 .. Len(ivs) : RightPath(i) \in DOMAIN t /\ Len(RightPath(i)) = i - 1
  <2> TAKE i \in 1 .. Len(ivs)
  <2>1. i \in Nat \ {0}
    BY <1>2
  <2> QED
    BY <2>1, RightPathProperties DEF IsSpine
<1>7. ~ (Len(path) < Len(ivs))
  <2>1. ASSUME Len(path) < Len(ivs) PROVE FALSE
    <3>1. Len(path) + 1 \in 1 .. Len(ivs)
      BY <1>2, <2>1
    <3> QED
      BY <1>1, <1>5, <1>6, <3>1
  <2> QED
    BY <2>1
<1>8. ~ (Len(path) > Len(ivs))
  <2>1. ASSUME Len(path) > Len(ivs) PROVE FALSE
    <3>1. Len(path) \in 1 .. Len(path)
      BY <1>2, <2>1
    <3>2. PICK r \in DOMAIN t : Len(r) = Len(path) - 1
      BY <1>4, <3>1
    <3>3. PICK i \in 1 .. Len(ivs) : r = RightPath(i)
      BY DEF IsSpine
    <3>4. Len(path) - 1 = i - 1
      BY <1>6, <3>2, <3>3
    <3> QED
      BY <1>2, <2>1, <3>4
  <2> QED
    BY <2>1
<1>9. Len(path) = Len(ivs)
  BY <1>2, <1>7, <1>8
<1> QED
  BY <1>5, <1>9 DEF path

\* A chain stays one, longer by the node inserted.
LEMMA InsertOnSpine ==
    ASSUME NEW X, NEW ivs \in Seq(X), NEW t, IsTree(t), IsSpine(t, ivs),
           NEW node \in FreshNodes, IntervalOf(node) \in X,
           \A i \in 1 .. Len(ivs) : ~ (node.low < ivs[i].low)
    PROVE  IsSpine(it_insert(t, node), Append(ivs, IntervalOf(node)))
PROOF
<1> DEFINE path == InsertPath(t, node)
           t2 == it_insert(t, node)
           more == Append(ivs, IntervalOf(node))
           N == Len(ivs)
<1>1. path = RightPath(N + 1)
  BY InsertPathOnSpine
<1>2. IsInsertion(t, node, path, t2)
  BY InsertEffect
<1>3. /\ N \in Nat /\ Len(more) = N + 1
      /\ \A i \in 1 .. N : more[i] = ivs[i]
      /\ more[N + 1] = IntervalOf(node)
  BY LenProperties, AppendProperties
<1> HIDE DEF path, t2, more
<1>4. 1 .. N + 1 = (1 .. N) \cup {N + 1}
  BY <1>3
<1>5. DOMAIN t2 = {RightPath(i) : i \in 1 .. N + 1}
  BY <1>1, <1>2, <1>4 DEF IsInsertion, IsSpine
<1>6. ASSUME NEW i \in 1 .. N PROVE IntervalOf(t2[RightPath(i)]) = more[i]
  <2>1. RightPath(i) \in DOMAIN t /\ IntervalOf(t[RightPath(i)]) = ivs[i]
    BY DEF IsSpine
  <2>2. IntervalOf(t2[RightPath(i)]) = IntervalOf(t[RightPath(i)])
    BY <1>2, <2>1 DEF IsInsertion, IntervalOf
  <2> QED
    BY <1>3, <2>1, <2>2
<1>7. IntervalOf(t2[RightPath(N + 1)]) = more[N + 1]
  BY <1>1, <1>2, <1>3 DEF IsInsertion
<1> HIDE DEF N
<1> QED
  BY <1>3, <1>4, <1>5, <1>6, <1>7 DEF IsSpine, t2, more

\* A tree of one node is a chain.
LEMMA SingleSpine ==
    ASSUME NEW node
    PROVE  IsSpine(SingleNode(node), Append(<< >>, IntervalOf(node)))
PROOF
<1>1. RightPath(1) = Root
  BY DEF RightPath, Root
<1>2. Append(<< >>, IntervalOf(node)) = <<IntervalOf(node)>>
  OBVIOUS
<1>3. DOMAIN SingleNode(node) = {Root} /\ SingleNode(node)[Root] = node
  BY DEF SingleNode
<1> QED
  BY <1>1, <1>2, <1>3 DEF IsSpine

-----------------------------------------------------------------------------
\* The invariant of the pass.

\* The interval that is open while the loop goes on: the lines of pid since
\* start_line_number, the last of them the line before the current one.  Before the
\* first line there is none, and pid is 0.
OpenInterval ==
    /\ curr_line_number \in 1 .. Len(LinesRead) + 1
    /\ fpos = FposStart(curr_line_number)
    /\ IF curr_line_number = 1
       THEN pid = 0 /\ start_line_number = 1
       ELSE /\ IsRun(LinesRead, start_line_number - 1, LastLine)
            /\ LinesRead[LastLine][1] = pid
            /\ pid # 0 /\ curr_pid = pid

\* Where the pass is in the file: once done, it has left no line open.
PassPlace ==
    /\ file \in Files
    /\ pc \in {"reading", "done", "invalid format"}
    /\ fpos \in Nat /\ pid \in Nat /\ curr_pid \in Nat
    /\ start_line_number \in 1 .. Len(LinesRead) + 1
    /\ curr_line_number \in start_line_number .. Len(file) + 2
    /\ start_fpos = FposStart(start_line_number)
    /\ pc = "reading" => OpenInterval
    /\ pc = "done" => start_line_number = Len(LinesRead) + 1

\* A process is that of certain lines: it starts at the first of them, ends at the
\* last, and its intervals hold them and no others.
HoldsLines(t, lines) ==
    /\ \A path \in DOMAIN t : t[path].low .. t[path].high \subseteq lines
    /\ \A k \in lines : \E path \in DOMAIN t : k \in t[path].low .. t[path].high

HasFields(p) ==
    p = [firstline     |-> p.firstline,
         currentline   |-> p.currentline,
         lastline      |-> p.lastline,
         currentPos    |-> p.currentPos,
         lineIntervals |-> p.lineIntervals]

IsProcessOf(p, lines) ==
    /\ HasFields(p)
    /\ p.firstline \in lines /\ p.lastline \in lines
    /\ \A k \in lines : p.firstline <= k /\ k <= p.lastline
    /\ p.currentline = p.firstline /\ p.currentPos = FposStart(p.firstline)
    /\ IsSearchTree(p.lineIntervals)
    /\ HoldsLines(p.lineIntervals, lines)

\* The processes are those of the first n lines, and so are their lines; their
\* trees are chains of the intervals that FirstPass names, and the queue is its.
ProcessesUpTo(processes, queue, t, n) ==
    /\ DOMAIN processes = Owners(t, n)
    /\ processes = [key \in Owners(t, n) |-> processes[key]]
    /\ \A key \in Owners(t, n) :
          /\ IsProcessOf(processes[key], LinesUpTo(t, n, key))
          /\ IsSpine(processes[key].lineIntervals, Pass!OwnedIntervals(Seen(t, n), key))
    /\ queue = Pass!FirstRunnable(Pass!Owned(Seen(t, n)))

\* What is known are the lines before the open interval.
ProcessesKnown == ProcessesUpTo(procs, runnable, LinesRead, start_line_number - 1)

FirstPassInv == PassPlace /\ ProcessesKnown

-----------------------------------------------------------------------------
\* The lines that can be read.

Line == Nat \X (Nat \cup {NoVpn})

LEMMA LinesReadProperties ==
    ASSUME file \in Files
    PROVE  /\ LinesRead \in Seq(Line)
           /\ Len(LinesRead) \in Nat /\ Len(file) \in Nat /\ Len(LinesRead) <= Len(file)
           /\ DOMAIN LinesRead = 1 .. Len(LinesRead)
           /\ \A k \in 1 .. Len(LinesRead) :
                 file[k] # Unreadable /\ LinesRead[k] = file[k] /\ LinesRead[k] \in Line
           /\ Len(LinesRead) # Len(file) => file[Len(LinesRead) + 1] = Unreadable
PROOF
<1> DEFINE L == {Unreadable} \cup Line
           S == {k \in DOMAIN file : file[k] = Unreadable} \cup {Len(file) + 1}
           end == Min(S)
           n == end - 1
<1>1. /\ file \in Seq(L) /\ Len(file) \in Nat /\ DOMAIN file = 1 .. Len(file)
      /\ \A k \in 1 .. Len(file) : file[k] \in L
  <2>1. file \in Seq(L)
    BY TraceParserAssumption DEF Line
  <2> HIDE DEF L
  <2> QED
    BY <2>1, LenProperties, ElementOfSeq
<1>2. S \in SUBSET Nat /\ S # {}
  BY <1>1
<1>3. end \in S /\ \A k \in S : end <= k
  <2> HIDE DEF S
  <2> QED
    BY <1>2, MinNat
<1>4. end \in 1 .. Len(file) + 1 /\ Len(file) + 1 \in S
  BY <1>1, <1>3
<1>5. n \in 0 .. Len(file) /\ \A k \in 1 .. n : k \in 1 .. Len(file) /\ k \notin S
  <2> HIDE DEF S, end
  <2> QED
    BY <1>1, <1>2, <1>3, <1>4
<1>6. \A k \in 1 .. n : file[k] # Unreadable /\ file[k] \in Line
  <2> HIDE DEF n
  <2> QED
    BY <1>1, <1>5
<1>7. n # Len(file) => file[n + 1] = Unreadable
  <2>1. n + 1 = end
    BY <1>1, <1>4
  <2>2. n + 1 \in S
    BY <1>3, <2>1
  <2>3. n \in Nat /\ Len(file) \in Nat
    BY <1>1, <1>5
  <2> HIDE DEF n
  <2> QED
    BY <2>2, <2>3
<1>8. LinesRead = SubSeq(file, 1, n)
  BY DEF LinesRead
<1> HIDE DEF n
<1>9. \A k \in 1 .. n : file[k] \in Line
  BY <1>6
<1>10. /\ SubSeq(file, 1, n) \in Seq(Line)
       /\ Len(SubSeq(file, 1, n)) = IF 1 <= n THEN n - 1 + 1 ELSE 0
       /\ \A k \in 1 .. n - 1 + 1 : SubSeq(file, 1, n)[k] = file[1 + k - 1]
  <2>1. n \in Int /\ 1 \in Int
    BY <1>1, <1>5
  <2> HIDE DEF Line
  <2> QED
    BY <1>9, <2>1, SubSeqProperties
<1>11. Len(LinesRead) = n
  BY <1>1, <1>5, <1>8, <1>10
<1>12. \A k \in 1 .. n : LinesRead[k] = file[k]
  BY <1>1, <1>5, <1>8, <1>10
<1>13. DOMAIN LinesRead = 1 .. Len(LinesRead)
  BY <1>8, <1>10, LenProperties
<1>14. LinesRead \in Seq(Line)
  BY <1>8, <1>10
<1>15. \A k \in 1 .. Len(LinesRead) :
          file[k] # Unreadable /\ LinesRead[k] = file[k] /\ LinesRead[k] \in Line
  BY <1>6, <1>11, <1>12
<1>16. Len(LinesRead) \in Nat /\ Len(file) \in Nat /\ Len(LinesRead) <= Len(file)
  BY <1>1, <1>5, <1>11
<1>17. Len(LinesRead) # Len(file) => file[Len(LinesRead) + 1] = Unreadable
  BY <1>7, <1>11
<1> QED
  BY <1>13, <1>14, <1>15, <1>16, <1>17

-----------------------------------------------------------------------------
\* What a run does to the process it belongs to.

RunNode(n, m) == it_initnode(n + 1, m, FposStart(n + 1))

LEMMA RunNodeProperties ==
    ASSUME NEW n \in Nat, NEW m \in Nat, n < m
    PROVE  /\ RunNode(n, m) \in FreshNodes
           /\ RunNode(n, m).low = n + 1 /\ RunNode(n, m).high = m
           /\ RunNode(n, m).fpos_start = FposStart(n + 1)
           /\ IntervalOf(RunNode(n, m)) = RunInterval(n, m)
PROOF
<1>1. FposStart(n + 1) \in Nat
  BY DEF FposStart, StartOf, EndOf
<1>2. RunNode(n, m) = [low |-> n + 1, high |-> m, max |-> m, fpos_start |-> FposStart(n + 1)]
  BY DEF RunNode, it_initnode
<1> HIDE DEF FposStart
<1> QED
  BY <1>1, <1>2 DEF FreshNodes, NodeType, IntervalOf, RunInterval

\* An insertion adds the lines of the node to those of the tree.
LEMMA InsertHolds ==
    ASSUME NEW t, IsTree(t), NEW lines, HoldsLines(t, lines), NEW node \in FreshNodes
    PROVE  HoldsLines(it_insert(t, node), lines \cup (node.low .. node.high))
PROOF
<1> DEFINE path == InsertPath(t, node)
           t2 == it_insert(t, node)
<1>1. IsInsertion(t, node, path, t2)
  BY InsertEffect
<1> HIDE DEF path, t2
<1>2. /\ DOMAIN t2 = DOMAIN t \cup {path} /\ t2[path] = node
      /\ \A q \in DOMAIN t : t2[q].low = t[q].low /\ t2[q].high = t[q].high
  BY <1>1 DEF IsInsertion
<1>3. \A q \in DOMAIN t2 : t2[q].low .. t2[q].high \subseteq lines \cup (node.low .. node.high)
  BY <1>2 DEF HoldsLines
<1>4. \A k \in lines : \E q \in DOMAIN t2 : k \in t2[q].low .. t2[q].high
  BY <1>2 DEF HoldsLines
<1>5. \A k \in node.low .. node.high : \E q \in DOMAIN t2 : k \in t2[q].low .. t2[q].high
  BY <1>2
<1> QED
  BY <1>3, <1>4, <1>5 DEF HoldsLines, t2

\* The first run of a process makes it the process of its lines.
LEMMA ProcessStarts ==
    ASSUME NEW n \in Nat, NEW m \in Nat, n < m
    PROVE  /\ IsProcessOf(Process_init(n + 1, m, RunNode(n, m)), n + 1 .. m)
           /\ IsSpine(Process_init(n + 1, m, RunNode(n, m)).lineIntervals,
                      Append(<< >>, RunInterval(n, m)))
PROOF
<1> DEFINE node == RunNode(n, m)
           t == SingleNode(node)
           p == Process_init(n + 1, m, node)
<1>1. /\ node \in FreshNodes /\ node.low = n + 1 /\ node.high = m
      /\ node.fpos_start = FposStart(n + 1) /\ IntervalOf(node) = RunInterval(n, m)
  BY RunNodeProperties
<1> HIDE DEF node
<1>2. IsSearchTree(t)
  BY <1>1, SingleNodeIsSearchTree
<1>3. IsSpine(t, Append(<< >>, RunInterval(n, m)))
  BY <1>1, SingleSpine
<1>4. HoldsLines(t, n + 1 .. m)
  BY <1>1 DEF HoldsLines, SingleNode
<1> HIDE DEF t
<1>5. /\ p.firstline = n + 1 /\ p.currentline = n + 1 /\ p.lastline = m
      /\ p.currentPos = FposStart(n + 1) /\ p.lineIntervals = t /\ HasFields(p)
  BY <1>1 DEF Process_init, HasFields, t
<1> HIDE DEF p
<1>6. n + 1 \in n + 1 .. m /\ m \in n + 1 .. m /\ \A k \in n + 1 .. m : n + 1 <= k /\ k <= m
  OBVIOUS
<1>7. IsProcessOf(p, n + 1 .. m)
  BY <1>2, <1>4, <1>5, <1>6 DEF IsProcessOf
<1> QED
  BY <1>3, <1>5, <1>7 DEF p, node

\* A later run adds its lines, and moves the end of the process to its own.
LEMMA ProcessGoesOn ==
    ASSUME NEW n \in Nat, NEW m \in Nat, n < m, m = LastLine,
           NEW p, NEW lines \in SUBSET (1 .. n), IsProcessOf(p, lines)
    PROVE  /\ IsProcessOf(AppendInterval(p, RunNode(n, m)), lines \cup (n + 1 .. m))
           /\ AppendInterval(p, RunNode(n, m)).lineIntervals
                 = it_insert(p.lineIntervals, RunNode(n, m))
PROOF
<1> DEFINE node == RunNode(n, m)
           t == p.lineIntervals
           t2 == it_insert(t, node)
           q == AppendInterval(p, node)
           more == lines \cup (n + 1 .. m)
<1>1. node \in FreshNodes /\ node.low = n + 1 /\ node.high = m
  BY RunNodeProperties
<1>2. IsSearchTree(t) /\ IsTree(t) /\ HoldsLines(t, lines)
  BY DEF IsProcessOf, IsSearchTree
<1>3. IsSearchTree(t2)
  BY <1>1, <1>2, InsertKeepsSearchTree
<1>4. HoldsLines(t2, more)
  BY <1>1, <1>2, InsertHolds
<1> HIDE DEF t2, node
<1>5. p.lastline < m
  <2>1. p.lastline \in lines
    BY DEF IsProcessOf
  <2>2. p.lastline \in 1 .. n
    BY <2>1
  <2> QED
    BY <2>2
<1>6. q = [firstline     |-> p.firstline,
           currentline   |-> p.currentline,
           lastline      |-> m,
           currentPos    |-> p.currentPos,
           lineIntervals |-> t2]
  <2>1. HasFields(p)
    BY DEF IsProcessOf
  <2>2. q = [p EXCEPT !.lastline = IF @ < m THEN m ELSE @, !.lineIntervals = it_insert(@, node)]
    BY DEF AppendInterval
  <2> QED
    BY <1>5, <2>1, <2>2 DEF HasFields, t2
<1> HIDE DEF q
<1>7. HasFields(q)
  BY <1>6 DEF HasFields
<1>8. /\ q.firstline = p.firstline /\ q.currentline = p.currentline /\ q.lastline = m
      /\ q.currentPos = p.currentPos /\ q.lineIntervals = t2
  BY <1>6
<1>9. /\ p.firstline \in more /\ m \in more
      /\ \A k \in more : p.firstline <= k /\ k <= m
  <2>1. p.firstline \in lines /\ \A k \in lines : p.firstline <= k
    BY DEF IsProcessOf
  <2>2. p.firstline \in 1 .. n /\ \A k \in lines : p.firstline <= k /\ k \in 1 .. n
    BY <2>1
  <2> HIDE DEF IsProcessOf
  <2>3. \A k \in lines : k <= m
    BY <2>2
  <2>4. m \in n + 1 .. m /\ \A k \in n + 1 .. m : p.firstline <= k /\ k <= m
    BY <2>2
  <2> QED
    BY <2>1, <2>3, <2>4
<1> HIDE DEF more
<1>10. IsProcessOf(q, more)
  BY <1>3, <1>4, <1>7, <1>8, <1>9 DEF IsProcessOf
<1> QED
  BY <1>8, <1>10 DEF q, more, t2, node

-----------------------------------------------------------------------------
\* The steps of the pass.

AnyInterval == [low : Nat, high : Nat, fpos_start : Nat]

\* The intervals known lie before the open one; a process not yet known has none.
LEMMA OwnedIntervalsProperties ==
    ASSUME NEW X, NEW t \in Seq(X), NEW n \in 0 .. Len(t), NEW name
    PROVE  LET ivs == Pass!OwnedIntervals(Seen(t, n), name)
           IN  /\ ivs \in Seq(AnyInterval)
               /\ \A i \in 1 .. Len(ivs) : ivs[i].low <= n /\ ivs[i].low \in Nat
               /\ name \notin Owners(t, n) => ivs = << >>
PROOF
<1> DEFINE starts == StartsUpTo(t, n, name)
           ivs == Pass!OwnedIntervals(Seen(t, n), name)
           T == IntervalType(Seen(t, n))
<1>1. n \in Nat /\ Seen(t, n) \in Seq(X) /\ Len(Seen(t, n)) = n
  <2>1. Len(t) \in Nat
    BY LenProperties
  <2> QED
    BY <2>1, SeenProperties
<1>2. starts \in SUBSET (1 .. n)
  BY DEF StartsUpTo, LinesUpTo
<1>3. ivs = IntervalsFrom(Seen(t, n), starts)
  BY OwnedProperties
<1>4. ivs \in Seq(T) /\ Len(ivs) = Len(LowsOf(starts))
  BY <1>1, <1>2, <1>3, IntervalsFromProperties
<1>5. LowsOf(starts) \in Seq(starts)
  BY <1>1, <1>2, LowsProperties
<1>6. T \subseteq AnyInterval /\ \A x \in T : x.low <= n /\ x.low \in Nat
  BY <1>1 DEF IntervalType, AnyInterval
<1> HIDE DEF T, ivs
<1>7. ivs \in Seq(AnyInterval)
  BY <1>4, <1>6
<1>8. \A i \in 1 .. Len(ivs) : ivs[i].low <= n /\ ivs[i].low \in Nat
  BY <1>4, <1>6, ElementOfSeq
<1>9. ASSUME name \notin Owners(t, n) PROVE ivs = << >>
  <2>1. starts = {}
    BY <1>9 DEF StartsUpTo, LinesUpTo, Owners
  <2> HIDE DEF starts
  <2>2. ~ (Len(LowsOf(starts)) \in Nat \ {0})
    <3>1. ASSUME Len(LowsOf(starts)) \in Nat \ {0} PROVE FALSE
      <4>1. LowsOf(starts)[1] \in starts
        BY <1>5, <3>1, ElementOfSeq
      <4> QED
        BY <2>1, <4>1
    <3> QED
      BY <3>1
  <2>3. Len(ivs) = 0
    BY <1>4, <1>5, <2>2, LenProperties
  <2> QED
    BY <1>4, <2>3, EmptySeq
<1> QED
  BY <1>7, <1>8, <1>9 DEF ivs

\* When an interval ends it is the run from start_line_number to the line before
\* the current one (trace_parser.c:105-118).
LEMMA EndsRun ==
    ASSUME PassPlace, Reading, RunIsOver(PidRead)
    PROVE  /\ LinesRead \in Seq(Line)
           /\ start_line_number - 1 \in Nat /\ LastLine \in Nat
           /\ start_line_number - 1 < LastLine /\ LastLine = curr_line_number - 1
           /\ IsRun(LinesRead, start_line_number - 1, LastLine)
           /\ LinesRead[LastLine][1] = pid
           /\ IntervalEnded = RunNode(start_line_number - 1, LastLine)
           /\ start_line_number - 1 + 1 = start_line_number
PROOF
<1>1. OpenInterval /\ pid # 0
  BY DEF PassPlace, Reading, RunIsOver
<1>2. /\ IsRun(LinesRead, start_line_number - 1, LastLine)
      /\ LinesRead[LastLine][1] = pid
  BY <1>1 DEF OpenInterval
<1>3. LinesRead \in Seq(Line) /\ Len(LinesRead) \in Nat
  BY LinesReadProperties DEF PassPlace
<1>4. start_line_number - 1 \in Nat /\ start_line_number - 1 + 1 = start_line_number
  <2>1. start_line_number \in 1 .. Len(LinesRead) + 1
    BY DEF PassPlace
  <2> QED
    BY <1>3, <2>1
<1>5. LastLine \in Nat /\ start_line_number - 1 < LastLine
  BY <1>2, <1>3, <1>4 DEF IsRun
<1>6. start_fpos = FposStart(start_line_number)
  BY DEF PassPlace
<1>7. IntervalEnded = RunNode(start_line_number - 1, LastLine)
  BY <1>4, <1>6 DEF IntervalEnded, RunNode
<1> QED
  BY <1>2, <1>3, <1>4, <1>5, <1>7 DEF LastLine

\* The run of a new process.
LEMMA AddsProcessKnown ==
    ASSUME PassPlace, ProcessesKnown, AddsProcess
    PROVE  ProcessesUpTo(procs', runnable', LinesRead, LastLine)
PROOF
<1> DEFINE t == LinesRead
           n == start_line_number - 1
           m == LastLine
           owner == PidKey(pid)
           p == Process_init(n + 1, m, RunNode(n, m))
<1>1. /\ t \in Seq(Line) /\ n \in Nat /\ m \in Nat /\ n < m /\ IsRun(t, n, m)
      /\ owner = PidKey(t[m][1]) /\ n \in 0 .. Len(t)
      /\ p = Process_init(start_line_number, m, IntervalEnded)
  BY EndsRun DEF AddsProcess, EndsInterval, NextLine, IsRun
<1>2. /\ owner \notin DOMAIN procs
      /\ procs' = [k \in DOMAIN procs \cup {owner} |-> IF k = owner THEN p ELSE procs[k]]
      /\ runnable' = Append(runnable, owner)
  BY <1>1 DEF AddsProcess
<1>3. ProcessesUpTo(procs, runnable, t, n)
  BY DEF ProcessesKnown
<1>4. IsProcessOf(p, n + 1 .. m) /\ IsSpine(p.lineIntervals, Append(<< >>, RunInterval(n, m)))
  BY <1>1, ProcessStarts
<1> HIDE DEF t, n, m, owner, p
<1>5. Owners(t, m) = Owners(t, n) \cup {owner}
  BY <1>1, LinesAfterRun DEF Owners
<1>6. DOMAIN procs = Owners(t, n) /\ owner \notin Owners(t, n)
  BY <1>2, <1>3 DEF ProcessesUpTo
<1>7. /\ DOMAIN procs' = Owners(t, m)
      /\ procs' = [k \in Owners(t, m) |-> procs'[k]]
      /\ procs'[owner] = p /\ \A k \in Owners(t, n) : procs'[k] = procs[k]
  BY <1>2, <1>5, <1>6
<1>8. ASSUME NEW k \in Owners(t, n)
      PROVE  /\ IsProcessOf(procs'[k], LinesUpTo(t, m, k))
             /\ IsSpine(procs'[k].lineIntervals, Pass!OwnedIntervals(Seen(t, m), k))
  <2>1. k # owner
    BY <1>6
  <2>2. LinesUpTo(t, m, k) = LinesUpTo(t, n, k)
    BY <1>1, <2>1, LinesAfterRun
  <2>3. Pass!OwnedIntervals(Seen(t, m), k) = Pass!OwnedIntervals(Seen(t, n), k)
    BY <1>1, <2>1, IntervalsAfterRun
  <2> QED
    BY <1>3, <1>7, <2>2, <2>3 DEF ProcessesUpTo
<1>9. /\ IsProcessOf(procs'[owner], LinesUpTo(t, m, owner))
      /\ IsSpine(procs'[owner].lineIntervals, Pass!OwnedIntervals(Seen(t, m), owner))
  <2>1. LinesUpTo(t, n, owner) = {}
    BY <1>6 DEF LinesUpTo, Owners
  <2>2. LinesUpTo(t, m, owner) = n + 1 .. m
    <3>1. LinesUpTo(t, m, owner) = LinesUpTo(t, n, owner) \cup (n + 1 .. m)
      BY <1>1, LinesAfterRun
    <3> QED
      BY <2>1, <3>1
  <2>3. Pass!OwnedIntervals(Seen(t, n), owner) = << >>
    BY <1>1, <1>6, OwnedIntervalsProperties
  <2>4. Pass!OwnedIntervals(Seen(t, m), owner) = Append(<< >>, RunInterval(n, m))
    <3>1. Pass!OwnedIntervals(Seen(t, m), owner)
             = Append(Pass!OwnedIntervals(Seen(t, n), owner), RunInterval(n, m))
      BY <1>1, IntervalsAfterRun
    <3> QED
      BY <2>3, <3>1, Zenon
  <2> QED
    BY <1>4, <1>7, <2>2, <2>4
<1>10. runnable' = Pass!FirstRunnable(Pass!Owned(Seen(t, m)))
  <2>1. runnable = Pass!FirstRunnable(Pass!Owned(Seen(t, n)))
    BY <1>3 DEF ProcessesUpTo
  <2> QED
    BY <1>1, <1>2, <1>6, <2>1, QueueAfterRun
<1>11. ProcessesUpTo(procs', runnable', t, m)
  BY <1>5, <1>7, <1>8, <1>9, <1>10 DEF ProcessesUpTo
<1> QED
  BY <1>11 DEF t, m

\* A further run of a process.
LEMMA AddsIntervalKnown ==
    ASSUME PassPlace, ProcessesKnown, AddsInterval
    PROVE  ProcessesUpTo(procs', runnable', LinesRead, LastLine)
PROOF
<1> DEFINE t == LinesRead
           n == start_line_number - 1
           m == LastLine
           owner == PidKey(pid)
           node == RunNode(n, m)
           p == procs[owner]
           q == AppendInterval(p, node)
           ivs == Pass!OwnedIntervals(Seen(t, n), owner)
<1>1. /\ t \in Seq(Line) /\ n \in Nat /\ m \in Nat /\ n < m /\ IsRun(t, n, m)
      /\ owner = PidKey(t[m][1]) /\ n \in 0 .. Len(t)
      /\ node = IntervalEnded /\ m = LastLine
  BY EndsRun DEF AddsInterval, EndsInterval, NextLine, IsRun
<1>2. /\ owner \in DOMAIN procs
      /\ procs' = [procs EXCEPT ![owner] = q]
      /\ runnable' = runnable
  BY <1>1 DEF AddsInterval
<1>3. ProcessesUpTo(procs, runnable, t, n)
  BY DEF ProcessesKnown
<1> HIDE DEF t, n, m, owner, q
<1>4. DOMAIN procs = Owners(t, n) /\ owner \in Owners(t, n)
  BY <1>2, <1>3 DEF ProcessesUpTo
<1>5. Owners(t, m) = Owners(t, n)
  <2>1. Owners(t, m) = Owners(t, n) \cup {owner}
    BY <1>1, LinesAfterRun DEF Owners
  <2> QED
    BY <1>4, <2>1
<1>6. /\ DOMAIN procs' = Owners(t, m)
      /\ procs' = [k \in Owners(t, m) |-> procs'[k]]
      /\ procs'[owner] = q /\ \A k \in Owners(t, n) : k # owner => procs'[k] = procs[k]
  <2>1. procs = [k \in Owners(t, n) |-> procs[k]]
    BY <1>3 DEF ProcessesUpTo
  <2> QED
    BY <1>2, <1>4, <1>5, <2>1
<1>7. ASSUME NEW k \in Owners(t, n), k # owner
      PROVE  /\ IsProcessOf(procs'[k], LinesUpTo(t, m, k))
             /\ IsSpine(procs'[k].lineIntervals, Pass!OwnedIntervals(Seen(t, m), k))
  <2>1. LinesUpTo(t, m, k) = LinesUpTo(t, n, k)
    BY <1>1, <1>7, LinesAfterRun
  <2>2. Pass!OwnedIntervals(Seen(t, m), k) = Pass!OwnedIntervals(Seen(t, n), k)
    BY <1>1, <1>7, IntervalsAfterRun
  <2> QED
    BY <1>3, <1>6, <1>7, <2>1, <2>2 DEF ProcessesUpTo
<1>8. /\ IsProcessOf(p, LinesUpTo(t, n, owner)) /\ IsSpine(p.lineIntervals, ivs)
      /\ LinesUpTo(t, n, owner) \in SUBSET (1 .. n)
  BY <1>3, <1>4 DEF ProcessesUpTo, LinesUpTo
<1>9. IsProcessOf(procs'[owner], LinesUpTo(t, m, owner))
  <2>1. LinesUpTo(t, m, owner) = LinesUpTo(t, n, owner) \cup (n + 1 .. m)
    BY <1>1, LinesAfterRun
  <2>2. IsProcessOf(AppendInterval(p, node), LinesUpTo(t, n, owner) \cup (n + 1 .. m))
    BY <1>1, <1>8, ProcessGoesOn
  <2> QED
    BY <1>6, <2>1, <2>2 DEF q
<1>10. IsSpine(procs'[owner].lineIntervals, Pass!OwnedIntervals(Seen(t, m), owner))
  <2>1. q.lineIntervals = it_insert(p.lineIntervals, node)
    BY <1>1, <1>8, ProcessGoesOn DEF q
  <2>2. /\ ivs \in Seq(AnyInterval)
        /\ \A i \in 1 .. Len(ivs) : ivs[i].low <= n /\ ivs[i].low \in Nat
    BY <1>1, OwnedIntervalsProperties
  <2>3. /\ node \in FreshNodes /\ node.low = n + 1
        /\ IntervalOf(node) = RunInterval(n, m)
    BY <1>1, RunNodeProperties
  <2>4. RunInterval(n, m) \in AnyInterval
    BY <1>1 DEF RunInterval, AnyInterval, FposStart, StartOf, EndOf
  <2>5. IsTree(p.lineIntervals)
    BY <1>8 DEF IsProcessOf, IsSearchTree
  <2> HIDE DEF ivs, node, p
  <2>6. \A i \in 1 .. Len(ivs) : ~ (node.low < ivs[i].low)
    BY <1>1, <2>2, <2>3
  <2>7. IsSpine(it_insert(p.lineIntervals, node), Append(ivs, IntervalOf(node)))
    BY <1>8, <2>2, <2>3, <2>4, <2>5, <2>6, InsertOnSpine
  <2>8. Pass!OwnedIntervals(Seen(t, m), owner) = Append(ivs, RunInterval(n, m))
    BY <1>1, IntervalsAfterRun DEF ivs
  <2> QED
    BY <1>6, <2>1, <2>3, <2>7, <2>8
<1>11. runnable' = Pass!FirstRunnable(Pass!Owned(Seen(t, m)))
  <2>1. runnable = Pass!FirstRunnable(Pass!Owned(Seen(t, n)))
    BY <1>3 DEF ProcessesUpTo
  <2> QED
    BY <1>1, <1>2, <1>4, <2>1, QueueAfterRun
<1>12. ProcessesUpTo(procs', runnable', t, m)
  BY <1>5, <1>6, <1>7, <1>9, <1>10, <1>11 DEF ProcessesUpTo
<1> QED
  BY <1>12 DEF t, m

\* The open interval grows by a line of its pid, and begins with one of another.
LEMMA RunGrows ==
    ASSUME NEW X, NEW t \in Seq(X), NEW n, NEW m, NEW k \in 1 .. Len(t)
    PROVE  /\ k = m + 1 /\ IsRun(t, n, m) /\ t[k][1] = t[m][1] => IsRun(t, n, k)
           /\ k = 1 \/ t[k - 1][1] # t[k][1] => IsRun(t, k - 1, k)
PROOF
<1>1. Len(t) \in Nat
  BY LenProperties
<1>2. ASSUME k = m + 1, IsRun(t, n, m), t[k][1] = t[m][1]
      PROVE  IsRun(t, n, k)
  <2>1. /\ n \in 0 .. Len(t) /\ m \in n + 1 .. Len(t)
        /\ \A i \in n + 1 .. m : t[i][1] = t[m][1]
        /\ n > 0 => t[n][1] # t[m][1]
    BY <1>2 DEF IsRun
  <2>2. k \in n + 1 .. Len(t) /\ \A i \in n + 1 .. k : i \in n + 1 .. m \/ i = k
    BY <1>1, <1>2, <2>1
  <2>3. \A i \in n + 1 .. k : t[i][1] = t[k][1]
    BY <1>2, <2>1, <2>2
  <2> QED
    BY <1>2, <2>1, <2>2, <2>3 DEF IsRun
<1>3. ASSUME k = 1 \/ t[k - 1][1] # t[k][1] PROVE IsRun(t, k - 1, k)
  <2>1. k - 1 \in 0 .. Len(t) /\ k \in k - 1 + 1 .. Len(t) /\ (k - 1 > 0 => k # 1)
    BY <1>1
  <2>2. \A i \in k - 1 + 1 .. k : i = k
    BY <1>1
  <2> QED
    BY <1>3, <2>1, <2>2 DEF IsRun
<1> QED
  BY <1>2, <1>3

\* The pass reads the lines that can be read, and stops at their end.
LEMMA ReadProperties ==
    ASSUME PassPlace, Reading
    PROVE  /\ curr_line_number \in Nat \ {0} /\ PidRead \in Nat
           /\ Matches => /\ curr_line_number \in 1 .. Len(LinesRead)
                         /\ PidRead = LinesRead[curr_line_number][1]
           /\ ~ Matches => /\ curr_line_number = Len(LinesRead) + 1
                           /\ PidRead = curr_pid
           /\ AtEnd => ~ Matches
PROOF
<1> DEFINE t == LinesRead
           k == curr_line_number
<1>1. /\ file \in Files /\ curr_pid \in Nat /\ k \in 1 .. Len(t) + 1
  BY DEF PassPlace, OpenInterval, Reading
<1>2. /\ Len(t) \in Nat /\ Len(file) \in Nat /\ Len(t) <= Len(file)
      /\ \A i \in 1 .. Len(t) : file[i] # Unreadable /\ t[i] = file[i] /\ t[i] \in Line
      /\ Len(t) # Len(file) => file[Len(t) + 1] = Unreadable
  BY <1>1, LinesReadProperties
<1> HIDE DEF t
<1>3. ASSUME k \in 1 .. Len(t)
      PROVE  Matches /\ PidRead = t[k][1] /\ PidRead \in Nat
  <2>1. file[k] # Unreadable /\ t[k] = file[k] /\ t[k] \in Line
    BY <1>2, <1>3
  <2>2. Matches
    BY <1>2, <1>3, <2>1 DEF Matches, fscanf_result, AtEnd
  <2>3. PidRead = t[k][1]
    BY <2>1, <2>2 DEF PidRead
  <2> QED
    BY <2>1, <2>2, <2>3 DEF Line
<1>4. ASSUME k = Len(t) + 1
      PROVE  ~ Matches /\ PidRead = curr_pid
  <2>1. CASE Len(t) = Len(file)
    BY <1>2, <1>4, <2>1 DEF Matches, fscanf_result, AtEnd, PidRead
  <2>2. CASE Len(t) # Len(file)
    BY <1>2, <1>4, <2>2 DEF Matches, fscanf_result, AtEnd, PidRead
  <2> QED
    BY <2>1, <2>2
<1>5. k \in 1 .. Len(t) \/ k = Len(t) + 1
  BY <1>1, <1>2
<1>6. k \in Nat \ {0}
  BY <1>1
<1>7. AtEnd => ~ Matches
  BY DEF Matches, fscanf_result
<1> QED
  BY <1>1, <1>3, <1>4, <1>5, <1>6, <1>7 DEF t

\* After a turn of the loop the open interval has the current line for its last,
\* unless that line could not be read (trace_parser.c:105-152).
LEMMA PlaceAfterLine ==
    ASSUME PassPlace, StaysInInterval \/ EndsInterval
    PROVE  PassPlace'
PROOF
<1> DEFINE t == LinesRead
           k == curr_line_number
<1>1. /\ NextLine /\ Reading /\ file' = file /\ pid' = PidRead /\ curr_pid' = PidRead
      /\ k' = k + 1 /\ pc' = (IF Matches THEN "reading" ELSE "done")
      /\ fpos' = (IF Matches THEN EndOf(k) ELSE fpos)
      /\ ~ PidIsZero
  BY DEF StaysInInterval, EndsInterval, NextLine
<1>2. /\ k \in Nat \ {0} /\ PidRead \in Nat
      /\ Matches => k \in 1 .. Len(t) /\ PidRead = t[k][1]
      /\ ~ Matches => k = Len(t) + 1 /\ PidRead = curr_pid
      /\ AtEnd => ~ Matches
  BY <1>1, ReadProperties
<1>3. /\ file \in Files /\ fpos \in Nat /\ start_line_number \in 1 .. Len(t) + 1
      /\ k \in start_line_number .. Len(file) + 2 /\ k \in 1 .. Len(t) + 1
      /\ start_fpos = FposStart(start_line_number) /\ OpenInterval /\ fpos = FposStart(k)
  BY <1>1 DEF PassPlace, Reading, OpenInterval
<1>4. /\ t \in Seq(Line) /\ Len(t) \in Nat /\ Len(file) \in Nat /\ Len(t) <= Len(file)
  BY <1>3, LinesReadProperties
<1>5. LinesRead' = LinesRead /\ LastLine' = k
  <2>1. LinesRead' = LinesRead
    BY <1>1 DEF LinesRead
  <2>2. LastLine' = k
    BY <1>1, <1>2 DEF LastLine
  <2> QED
    BY <2>1, <2>2
<1>6. IF k = 1
      THEN pid = 0 /\ start_line_number = 1
      ELSE /\ IsRun(t, start_line_number - 1, k - 1)
           /\ t[k - 1][1] = pid
           /\ pid # 0 /\ curr_pid = pid
  BY <1>3 DEF OpenInterval, LastLine
<1> HIDE DEF t
<1>7. fpos' \in Nat
  BY <1>1, <1>2, <1>3 DEF EndOf
<1>8. /\ start_line_number' \in 1 .. Len(t) + 1
      /\ k' \in start_line_number' .. Len(file) + 2
      /\ start_fpos' = FposStart(start_line_number')
  <2>1. CASE StaysInInterval
    <3>1. start_line_number' = start_line_number /\ start_fpos' = start_fpos
      BY <2>1 DEF StaysInInterval
    <3> QED
      BY <1>1, <1>3, <1>4, <3>1
  <2>2. CASE EndsInterval
    <3>1. start_line_number' = k /\ start_fpos' = fpos
      BY <2>2 DEF EndsInterval
    <3> QED
      BY <1>1, <1>3, <1>4, <3>1
  <2> QED
    BY <2>1, <2>2
<1>9. ASSUME Matches
      PROVE  /\ pc' = "reading" /\ k' \in 1 .. Len(t) + 1 /\ fpos' = FposStart(k') /\ k' # 1
             /\ IsRun(t, start_line_number' - 1, k) /\ t[k][1] = pid'
             /\ pid' # 0 /\ curr_pid' = pid'
  <2>1. k \in 1 .. Len(t) /\ PidRead = t[k][1]
    BY <1>2, <1>9
  <2>2. PidRead # 0
    BY <1>1, <1>9 DEF PidIsZero, Matches, fscanf_result
  <2>3. k' \in 1 .. Len(t) + 1 /\ k' # 1 /\ k' - 1 = k
    BY <1>1, <1>2, <1>4, <2>1
  <2>4. fpos' = FposStart(k')
    BY <1>1, <1>9, <2>3 DEF FposStart
  <2>5. IsRun(t, start_line_number' - 1, k)
    <3>1. CASE StaysInInterval
      <4>1. start_line_number' = start_line_number /\ (pid = 0 \/ PidRead = pid)
        BY <3>1 DEF StaysInInterval, RunIsOver
      <4>2. CASE k = 1
        <5>1. IsRun(t, k - 1, k)
          BY <1>4, <2>1, <4>2, RunGrows
        <5> QED
          BY <1>6, <4>1, <4>2, <5>1
      <4>3. CASE k # 1
        <5> DEFINE n == start_line_number - 1
                   m == k - 1
        <5>1. IsRun(t, n, m) /\ t[k][1] = t[m][1] /\ k = m + 1
          BY <1>2, <1>6, <2>1, <4>1, <4>3
        <5> HIDE DEF n, m
        <5>2. IsRun(t, n, k)
          BY <1>4, <2>1, <5>1, RunGrows
        <5> QED
          BY <4>1, <5>2 DEF n
      <4> QED
        BY <4>2, <4>3
    <3>2. CASE EndsInterval
      <4>1. start_line_number' = k /\ pid # 0 /\ PidRead # pid
        BY <1>9, <3>2 DEF EndsInterval, RunIsOver
      <4>2. t[k - 1][1] # t[k][1]
        BY <1>6, <2>1, <4>1
      <4>3. IsRun(t, k - 1, k)
        BY <1>4, <2>1, <4>2, RunGrows
      <4> QED
        BY <4>1, <4>3
    <3> QED
      BY <3>1, <3>2
  <2> QED
    BY <1>1, <1>9, <2>1, <2>2, <2>3, <2>4, <2>5
<1>10. ASSUME ~ Matches
       PROVE  pc' = "done" /\ start_line_number' = Len(t) + 1
  <2>1. k = Len(t) + 1
    BY <1>2, <1>10
  <2>2. start_line_number' = k
    <3>1. CASE StaysInInterval
      <4>1. start_line_number' = start_line_number /\ pid = 0
        BY <1>10, <3>1 DEF StaysInInterval, RunIsOver
      <4> QED
        BY <1>6, <4>1
    <3>2. CASE EndsInterval
      BY <3>2 DEF EndsInterval
    <3> QED
      BY <3>1, <3>2
  <2> QED
    BY <1>1, <1>10, <2>1, <2>2
<1>11. Matches => OpenInterval'
  BY <1>5, <1>9 DEF OpenInterval, t
<1>12. pc' \in {"reading", "done", "invalid format"} /\ (pc' = "reading" => Matches)
       /\ (pc' = "done" => ~ Matches)
  BY <1>1
<1> QED
  BY <1>1, <1>2, <1>3, <1>5, <1>7, <1>8, <1>10, <1>11, <1>12 DEF PassPlace, t

\* Before the first line nothing is known.
LEMMA NothingKnown ==
    ASSUME NEW X, NEW t \in Seq(X)
    PROVE  ProcessesUpTo(<< >>, << >>, t, 0)
PROOF
<1>1. Owners(t, 0) = {} /\ 0 \in 0 .. Len(t) /\ Len(t) \in Nat
  BY LenProperties DEF Owners
<1>2. /\ IsFiniteSet(Owners(t, 0)) /\ AreKeys(FirstLines(t, 0), Owners(t, 0), Len(t))
      /\ Pass!FirstRunnable(Pass!Owned(Seen(t, 0))) = Ascending(Owners(t, 0), FirstLines(t, 0))
  BY <1>1, OwnersProperties
<1> DEFINE s == Ascending(Owners(t, 0), FirstLines(t, 0))
<1>3. s \in Seq(Owners(t, 0))
  BY <1>1, <1>2, AscendingProperties
<1> HIDE DEF s
<1>4. s = << >>
  <2>1. ASSUME Len(s) \in Nat \ {0} PROVE FALSE
    <3>1. s[1] \in Owners(t, 0)
      BY <1>3, <2>1, ElementOfSeq
    <3> QED
      BY <1>1, <3>1
  <2> QED
    BY <1>3, <2>1, EmptySeq
<1>5. DOMAIN << >> = {} /\ << >> = [key \in {} |-> << >>[key]]
  OBVIOUS
<1> QED
  BY <1>1, <1>2, <1>4, <1>5 DEF ProcessesUpTo, s

\* What the pass knows at every turn of its loop is what FirstPass says of the
\* lines before the open interval (trace_parser.c:63-155).
THEOREM FirstPassSafety == Spec => []FirstPassInv
PROOF
<1>1. Init => FirstPassInv
  <2> SUFFICES ASSUME Init PROVE FirstPassInv
    OBVIOUS
  <2>1. /\ LinesRead \in Seq(Line) /\ Len(LinesRead) \in Nat /\ Len(file) \in Nat
    BY LinesReadProperties DEF Init
  <2>2. OpenInterval
    BY <2>1 DEF Init, OpenInterval, FposStart
  <2>3. PassPlace
    <3>1. /\ file \in Files /\ pc = "reading" /\ pid = 0 /\ curr_pid \in Nat
          /\ start_line_number = 1 /\ curr_line_number = 1
          /\ fpos = StartOf(1) /\ start_fpos = FposStart(1)
      BY DEF Init, FposStart
    <3>2. StartOf(1) \in Nat /\ 1 \in 1 .. Len(LinesRead) + 1 /\ 1 \in 1 .. Len(file) + 2
      BY <2>1 DEF StartOf
    <3> QED
      BY <2>2, <3>1, <3>2 DEF PassPlace
  <2>4. ProcessesUpTo(procs, runnable, LinesRead, start_line_number - 1)
    <3>1. procs = << >> /\ runnable = << >> /\ start_line_number - 1 = 0
      BY DEF Init
    <3> QED
      BY <2>1, <3>1, NothingKnown
  <2> QED
    BY <2>3, <2>4 DEF FirstPassInv, ProcessesKnown
<1>2. FirstPassInv /\ [Next]_vars => FirstPassInv'
  <2> SUFFICES ASSUME FirstPassInv, [Next]_vars PROVE FirstPassInv'
    OBVIOUS
  <2>1. PassPlace /\ ProcessesKnown
    BY DEF FirstPassInv
  <2>2. CASE RejectsLine
    <3>1. /\ file' = file /\ pid' = pid /\ curr_line_number' = curr_line_number
          /\ start_line_number' = start_line_number /\ start_fpos' = start_fpos
          /\ procs' = procs /\ runnable' = runnable /\ pc' = "invalid format"
          /\ curr_pid' = PidRead /\ fpos' = (IF Matches THEN EndOf(curr_line_number) ELSE fpos)
      BY <2>2 DEF RejectsLine
    <3>2. PidRead \in Nat /\ EndOf(curr_line_number) \in Nat
      <4>1. PidRead \in Nat /\ curr_line_number \in Nat
        BY <2>1, <2>2, ReadProperties DEF RejectsLine
      <4> QED
        BY <4>1 DEF EndOf
    <3>3. LinesRead' = LinesRead
      BY <3>1 DEF LinesRead
    <3>4. PassPlace'
      BY <2>1, <3>1, <3>2, <3>3 DEF PassPlace
    <3>5. ProcessesKnown'
      BY <2>1, <3>1, <3>3 DEF ProcessesKnown
    <3> QED
      BY <3>4, <3>5 DEF FirstPassInv
  <2>3. CASE StaysInInterval
    <3>1. /\ file' = file /\ start_line_number' = start_line_number
          /\ procs' = procs /\ runnable' = runnable
      BY <2>3 DEF StaysInInterval, NextLine
    <3>2. LinesRead' = LinesRead
      BY <3>1 DEF LinesRead
    <3>3. ProcessesKnown'
      BY <2>1, <3>1, <3>2 DEF ProcessesKnown
    <3> QED
      BY <2>1, <2>3, <3>3, PlaceAfterLine DEF FirstPassInv
  <2>4. CASE AddsProcess \/ AddsInterval
    <3>1. EndsInterval
      BY <2>4 DEF AddsProcess, AddsInterval
    <3>2. ProcessesUpTo(procs', runnable', LinesRead, LastLine)
      BY <2>1, <2>4, AddsProcessKnown, AddsIntervalKnown
    <3>3. LinesRead' = LinesRead /\ start_line_number' - 1 = LastLine
      BY <3>1 DEF EndsInterval, NextLine, LinesRead, LastLine
    <3>4. ProcessesKnown'
      BY <3>2, <3>3 DEF ProcessesKnown
    <3> QED
      BY <2>1, <3>1, <3>4, PlaceAfterLine DEF FirstPassInv
  <2>5. CASE PassOver \/ UNCHANGED vars
    <3>1. UNCHANGED vars
      BY <2>5 DEF PassOver
    <3>2. LinesRead' = LinesRead
      BY <3>1 DEF LinesRead, vars
    <3>3. OpenInterval => OpenInterval'
      BY <3>1, <3>2 DEF vars, OpenInterval, LastLine
    <3>4. PassPlace'
      BY <2>1, <3>1, <3>2, <3>3 DEF vars, PassPlace
    <3>5. ProcessesKnown'
      BY <2>1, <3>1, <3>2 DEF vars, ProcessesKnown
    <3> QED
      BY <3>4, <3>5 DEF FirstPassInv
  <2> QED
    BY <2>2, <2>3, <2>4, <2>5 DEF Next
<1> QED
  BY <1>1, <1>2, PTL DEF Spec

-----------------------------------------------------------------------------
\* What follows from it.

\* The lines and the processes before the open interval.
LEMMA KnownProperties ==
    ASSUME FirstPassInv
    PROVE  LET n == start_line_number - 1
           IN  /\ LinesRead \in Seq(Line) /\ Len(LinesRead) \in Nat
               /\ DOMAIN LinesRead = 1 .. Len(LinesRead)
               /\ n \in 0 .. Len(LinesRead) /\ n \in Nat
               /\ DOMAIN procs = Owners(LinesRead, n)
               /\ \A key \in DOMAIN procs :
                     /\ IsProcessOf(procs[key], LinesKnown(key))
                     /\ LinesKnown(key) \in SUBSET (1 .. n) /\ LinesKnown(key) # {}
                     /\ IsSpine(procs[key].lineIntervals,
                                Pass!OwnedIntervals(Seen(LinesRead, n), key))
               /\ runnable = Pass!FirstRunnable(Pass!Owned(Seen(LinesRead, n)))
PROOF
<1> DEFINE n == start_line_number - 1
<1>1. /\ LinesRead \in Seq(Line) /\ Len(LinesRead) \in Nat
      /\ DOMAIN LinesRead = 1 .. Len(LinesRead)
  BY LinesReadProperties DEF FirstPassInv, PassPlace
<1>2. n \in 0 .. Len(LinesRead) /\ n \in Nat
  <2>1. start_line_number \in 1 .. Len(LinesRead) + 1
    BY DEF FirstPassInv, PassPlace
  <2> QED
    BY <1>1, <2>1
<1>3. ProcessesUpTo(procs, runnable, LinesRead, n)
  BY DEF FirstPassInv, ProcessesKnown
<1>4. \A key : LinesKnown(key) = LinesUpTo(LinesRead, n, key)
  BY DEF LinesKnown, LinesUpTo
<1> HIDE DEF n
<1>5. DOMAIN procs = Owners(LinesRead, n)
  BY <1>3 DEF ProcessesUpTo
<1>6. \A key \in DOMAIN procs :
         /\ IsProcessOf(procs[key], LinesKnown(key))
         /\ IsSpine(procs[key].lineIntervals, Pass!OwnedIntervals(Seen(LinesRead, n), key))
  BY <1>3, <1>4, <1>5 DEF ProcessesUpTo
<1>7. \A key \in DOMAIN procs : LinesKnown(key) \in SUBSET (1 .. n) /\ LinesKnown(key) # {}
  BY <1>4, <1>5 DEF LinesUpTo, Owners
<1>8. runnable = Pass!FirstRunnable(Pass!Owned(Seen(LinesRead, n)))
  BY <1>3 DEF ProcessesUpTo
<1> QED
  BY <1>1, <1>2, <1>5, <1>6, <1>7, <1>8 DEF n

\* Every variable holds a value of its kind, and the nodes of every tree are
\* intervals that begin no later than they end.
THEOREM TraceParserTypeCorrect == Spec => []TraceParserTypeOK
PROOF
<1>1. FirstPassInv => TraceParserTypeOK
  <2> SUFFICES ASSUME FirstPassInv PROVE TraceParserTypeOK
    OBVIOUS
  <2> DEFINE t == LinesRead
             n == start_line_number - 1
  <2>1. /\ t \in Seq(Line) /\ Len(t) \in Nat /\ DOMAIN t = 1 .. Len(t)
        /\ n \in 0 .. Len(t) /\ DOMAIN procs = Owners(t, n)
        /\ runnable = Pass!FirstRunnable(Pass!Owned(Seen(t, n)))
    BY KnownProperties
  <2>2. /\ fpos \in Nat /\ pid \in Nat /\ curr_pid \in Nat
        /\ curr_line_number \in start_line_number .. Len(file) + 2
        /\ start_line_number \in 1 .. Len(t) + 1
        /\ start_fpos = FposStart(start_line_number)
        /\ pc \in {"reading", "done", "invalid format"}
    BY DEF FirstPassInv, PassPlace
  <2>3. start_line_number \in Nat \ {0} /\ Len(file) \in Nat
    <3>1. Len(t) \in Nat /\ start_line_number \in 1 .. Len(t) + 1
      BY <2>1, <2>2
    <3> HIDE DEF t
    <3>2. start_line_number \in Nat \ {0}
      BY <3>1
    <3> QED
      BY <3>2, LinesReadProperties DEF FirstPassInv, PassPlace
  <2>4. /\ curr_line_number \in 1 .. Len(file) + 2
        /\ start_line_number \in 1 .. curr_line_number
        /\ start_fpos \in Nat
    <3>1. /\ curr_line_number \in start_line_number .. Len(file) + 2
          /\ start_fpos = FposStart(start_line_number)
      BY <2>2
    <3> QED
      BY <2>3, <3>1 DEF FposStart, StartOf, EndOf
  <2>5. Owners(t, n) \subseteq Keys
    <3>1. \A k \in 1 .. n : k \in DOMAIN t
      BY <2>1
    <3> HIDE DEF n
    <3> QED
      BY <3>1 DEF Owners, Keys
  <2>6. runnable \in Seq(Keys)
    <3> HIDE DEF n, t
    <3>1. /\ IsFiniteSet(Owners(t, n)) /\ AreKeys(FirstLines(t, n), Owners(t, n), Len(t))
          /\ runnable = Ascending(Owners(t, n), FirstLines(t, n))
      BY <2>1, OwnersProperties
    <3>2. Ascending(Owners(t, n), FirstLines(t, n)) \in Seq(Owners(t, n))
      BY <2>1, <3>1, AscendingProperties
    <3> QED
      BY <2>5, <3>1, <3>2
  <2>7. \A key \in DOMAIN procs : \A path \in DOMAIN procs[key].lineIntervals :
           LET node == procs[key].lineIntervals[path]
           IN  node \in NodeType /\ node.low <= node.high
    <3>1. \A key \in DOMAIN procs : IsTree(procs[key].lineIntervals)
      BY KnownProperties DEF IsProcessOf, IsSearchTree
    <3> QED
      BY <3>1 DEF IsTree
  <2> HIDE DEF t, n
  <2> QED
    BY <2>1, <2>2, <2>4, <2>5, <2>6, <2>7 DEF TraceParserTypeOK
<1> QED
  BY <1>1, FirstPassSafety, PTL

\* The search of intervaltree.c finds every line seen so far in the tree of the
\* process its pid belongs to and in no other (trace_parser.c:105-147).
THEOREM LinesAreSharedHolds == Spec => []LinesAreShared
PROOF
<1>1. FirstPassInv => LinesAreShared
  <2> SUFFICES ASSUME FirstPassInv,
                      NEW k \in 1 .. start_line_number - 1, NEW key \in DOMAIN procs
               PROVE  it_find_bool(procs[key].lineIntervals, k)
                         <=> PidKey(LinesRead[k][1]) = key
    BY DEF LinesAreShared
  <2> DEFINE t == procs[key].lineIntervals
  <2>1. IsSearchTree(t) /\ HoldsLines(t, LinesKnown(key))
    BY KnownProperties DEF IsProcessOf
  <2>2. k \in Int /\ (k \in LinesKnown(key) <=> PidKey(LinesRead[k][1]) = key)
    BY KnownProperties DEF LinesKnown
  <2> HIDE DEF t
  <2>3. it_find_bool(t, k) <=> \E p \in DOMAIN t : it_contains(t[p].low, t[p].high, k)
    BY <2>1, <2>2, FindBoolProperties
  <2>4. \A p \in DOMAIN t : it_contains(t[p].low, t[p].high, k) <=> k \in t[p].low .. t[p].high
    <3>1. \A p \in DOMAIN t : t[p].low \in Int /\ t[p].high \in Int
      BY <2>1 DEF IsSearchTree, IsTree, NodeType
    <3> QED
      BY <2>2, <3>1 DEF it_contains
  <2>5. (\E p \in DOMAIN t : k \in t[p].low .. t[p].high) <=> k \in LinesKnown(key)
    BY <2>1 DEF HoldsLines
  <2> QED
    BY <2>2, <2>3, <2>4, <2>5 DEF t
<1> QED
  BY <1>1, FirstPassSafety, PTL

\* A process starts at the first of its lines known, and at the position before
\* it, and ends at the last (trace_parser.c:123-140).
THEOREM KnowsFirstAndLastHolds == Spec => []KnowsFirstAndLast
PROOF
<1>1. FirstPassInv => KnowsFirstAndLast
  <2> SUFFICES ASSUME FirstPassInv, NEW key \in DOMAIN procs
               PROVE  /\ procs[key].firstline = Min(LinesKnown(key))
                      /\ procs[key].lastline = Max(LinesKnown(key))
                      /\ procs[key].currentPos = FposStart(procs[key].firstline)
    BY DEF KnowsFirstAndLast
  <2> DEFINE p == procs[key]
             S == LinesKnown(key)
  <2>1. S \in SUBSET Nat /\ S # {} /\ IsProcessOf(p, S)
    BY KnownProperties
  <2> HIDE DEF p, S
  <2>2. /\ p.firstline \in S /\ p.lastline \in S
        /\ \A k \in S : p.firstline <= k /\ k <= p.lastline
        /\ p.currentPos = FposStart(p.firstline)
    BY <2>1 DEF IsProcessOf
  <2>3. S \in SUBSET Int /\ p.firstline \in Nat /\ p.lastline \in Int
    <3>1. \A k \in S : k \in Nat /\ k \in Int
      BY <2>1
    <3> QED
      BY <2>2, <3>1
  <2>4. p.firstline = Min(S)
    <3>1. Min(S) \in S /\ \A k \in S : Min(S) <= k
      BY <2>1, MinNat
    <3>2. Min(S) \in Nat
      BY <2>1, <3>1
    <3> HIDE DEF Min
    <3> QED
      BY <2>2, <2>3, <3>1, <3>2
  <2>5. p.lastline = Max(S)
    <3>1. Max(S) \in S /\ \A k \in S : k <= Max(S)
      BY <2>1, <2>2, <2>3, MaxUpTo
    <3>2. Max(S) \in Nat
      BY <2>1, <3>1
    <3> QED
      BY <2>2, <2>3, <3>1, <3>2
  <2> QED
    BY <2>2, <2>4, <2>5 DEF p, S
<1> QED
  BY <1>1, FirstPassSafety, PTL

\* The intervals and the queue of ProcessesUpTo are those that FirstPass knows.
LEMMA SpinesAreKnown ==
    ASSUME NEW t \in Seq(Line), NEW n \in 0 .. Len(t), NEW ps, NEW queue,
           ProcessesUpTo(ps, queue, t, n)
    PROVE  /\ [key \in DOMAIN ps |-> RightSpine(ps[key].lineIntervals)]
                 = [name \in Pass!PidsOf(Pass!Owned(Seen(t, n))) |->
                       Pass!OwnedIntervals(Seen(t, n), name)]
           /\ queue = Pass!FirstRunnable(Pass!Owned(Seen(t, n)))
PROOF
<1>1. /\ DOMAIN ps = Owners(t, n) /\ queue = Pass!FirstRunnable(Pass!Owned(Seen(t, n)))
      /\ \A key \in Owners(t, n) :
            IsSpine(ps[key].lineIntervals, Pass!OwnedIntervals(Seen(t, n), key))
  BY DEF ProcessesUpTo
<1>2. Pass!PidsOf(Pass!Owned(Seen(t, n))) = Owners(t, n)
  <2>1. PidsOf(Pass!Owned(Seen(t, n))) = Owners(t, n)
    BY OwnedProperties DEF Owners
  <2> QED
    BY <2>1, PassTerms
<1>3. \A key \in Owners(t, n) :
         RightSpine(ps[key].lineIntervals) = Pass!OwnedIntervals(Seen(t, n), key)
  <2> TAKE key \in Owners(t, n)
  <2>1. Pass!OwnedIntervals(Seen(t, n), key) \in Seq(AnyInterval)
    BY OwnedIntervalsProperties
  <2> QED
    BY <1>1, <2>1, SpineOfChain
<1>4. [key \in Owners(t, n) |-> RightSpine(ps[key].lineIntervals)]
         = [key \in Owners(t, n) |-> Pass!OwnedIntervals(Seen(t, n), key)]
  BY <1>3, Zenon
<1> QED
  BY <1>1, <1>2, <1>4

\* When every pid is within an int, a pass that is done leaves the simulator what
\* Simulator's Init says (trace_parser.c:133-147).
THEOREM HandsOverHolds == Spec => []HandsOver
PROOF
<1>1. FirstPassInv => HandsOver
  <2> SUFFICES ASSUME FirstPassInv, pc = "done",
                      \A k \in DOMAIN LinesRead : PidKey(LinesRead[k][1]) = LinesRead[k][1]
               PROVE  /\ DOMAIN procs = PidsOf(LinesRead)
                      /\ runnable = FirstRunnable(LinesRead)
                      /\ \A p \in DOMAIN procs :
                            /\ RightSpine(procs[p].lineIntervals) = LineIntervals(LinesRead, p)
                            /\ procs[p].currentline = LineIntervals(LinesRead, p)[1].low
                            /\ procs[p].currentPos = LineIntervals(LinesRead, p)[1].fpos_start
    BY DEF HandsOver
  <2> DEFINE t == LinesRead
             n == start_line_number - 1
  <2>1. /\ t \in Seq(Line) /\ Len(t) \in Nat /\ DOMAIN t = 1 .. Len(t)
        /\ DOMAIN procs = Owners(t, n)
        /\ \A key \in DOMAIN procs :
              /\ IsProcessOf(procs[key], LinesKnown(key))
              /\ IsSpine(procs[key].lineIntervals, Pass!OwnedIntervals(Seen(t, n), key))
        /\ runnable = Pass!FirstRunnable(Pass!Owned(Seen(t, n)))
    BY KnownProperties
  <2>2. n = Len(t)
    <3>1. start_line_number = Len(t) + 1
      BY DEF FirstPassInv, PassPlace
    <3> QED
      BY <2>1, <3>1
  <2>3. \A k \in 1 .. Len(t) : t[k] \in Line /\ PidKey(t[k][1]) = t[k][1]
    BY <2>1, ElementOfSeq
  <2>4. \A key : LinesKnown(key) = {k \in 1 .. n : PidKey(t[k][1]) = key}
    BY DEF LinesKnown
  <2> HIDE DEF t, n
  <2>5. Seen(t, n) = t
    BY <2>1, <2>2 DEF Seen
  <2>6. Pass!Owned(t) = t
    <3>1. t = [k \in DOMAIN t |-> t[k]]
      BY <2>1
    <3>2. \A k \in DOMAIN t : <<PidKey(t[k][1]), t[k][2]>> = t[k]
      BY <2>1, <2>3 DEF Line
    <3> QED
      BY <3>1, <3>2, Zenon DEF Pass!Owned
  <2>7. Owners(t, n) = PidsOf(t)
    BY <2>1, <2>2, <2>3 DEF Owners, PidsOf
  <2>8. runnable = FirstRunnable(t)
    BY <2>1, <2>5, <2>6, PassTerms
  <2>9. ASSUME NEW p \in DOMAIN procs
        PROVE  /\ RightSpine(procs[p].lineIntervals) = LineIntervals(t, p)
               /\ procs[p].currentline = LineIntervals(t, p)[1].low
               /\ procs[p].currentPos = LineIntervals(t, p)[1].fpos_start
    <3> DEFINE ivs == LineIntervals(t, p)
    <3>1. Pass!OwnedIntervals(t, p) = ivs
      BY <2>6, PassTerms DEF Pass!OwnedIntervals, LineIntervals
    <3>2. /\ ivs \in Seq(IntervalType(t))
          /\ \A i \in 1 .. Len(ivs) : ivs[i].fpos_start = FposStart(ivs[i].low)
      BY <2>1, IntervalsProperties
    <3>3. p \in PidsOf(t)
      BY <2>1, <2>7
    <3>4. /\ Min(LinesOf(t, p)) \in LinesOf(t, p)
          /\ \A k \in LinesOf(t, p) : Min(LinesOf(t, p)) <= k
          /\ Len(ivs) >= 1 /\ ivs[1].low = Min(LinesOf(t, p))
      BY <2>1, <3>3, FirstInterval
    <3>5. LinesKnown(p) = LinesOf(t, p)
      BY <2>1, <2>2, <2>3, <2>4 DEF LinesOf
    <3>6. IsSpine(procs[p].lineIntervals, ivs) /\ IsProcessOf(procs[p], LinesOf(t, p))
      BY <2>1, <2>5, <3>1, <3>5
    <3> HIDE DEF ivs
    <3>7. RightSpine(procs[p].lineIntervals) = ivs
      BY <3>2, <3>6, SpineOfChain
    <3>8. procs[p].firstline = ivs[1].low
      <4> DEFINE least == Min(LinesOf(t, p))
      <4>1. /\ procs[p].firstline \in LinesOf(t, p)
            /\ \A k \in LinesOf(t, p) : procs[p].firstline <= k
        BY <3>6 DEF IsProcessOf
      <4>2. \A k \in LinesOf(t, p) : k \in Nat
        BY <2>1 DEF LinesOf
      <4>3. least \in LinesOf(t, p) /\ \A k \in LinesOf(t, p) : least <= k
        BY <3>4
      <4> HIDE DEF least
      <4>4. procs[p].firstline = least
        BY <4>1, <4>2, <4>3
      <4> QED
        BY <3>4, <4>4 DEF least
    <3>9. 1 \in 1 .. Len(ivs)
      BY <3>2, <3>4, LenProperties
    <3>10. /\ procs[p].currentline = procs[p].firstline
           /\ procs[p].currentPos = FposStart(procs[p].firstline)
      BY <3>6 DEF IsProcessOf
    <3> QED
      BY <3>2, <3>7, <3>8, <3>9, <3>10 DEF ivs
  <2> QED
    BY <2>1, <2>7, <2>8, <2>9 DEF t
<1> QED
  BY <1>1, FirstPassSafety, PTL

\* At its turns the pass knows what FirstPass says, before a step and after it.
LEMMA KnownIs ==
    ASSUME NEW n \in Nat
    PROVE  /\ FirstPassInv /\ n = start_line_number - 1 => Pass!KnownAfter(n)
           /\ (FirstPassInv /\ n = start_line_number - 1 => Pass!KnownAfter(n))'
PROOF
<1>1. FirstPassInv /\ n = start_line_number - 1 => Pass!KnownAfter(n)
  <2> SUFFICES ASSUME FirstPassInv, n = start_line_number - 1 PROVE Pass!KnownAfter(n)
    OBVIOUS
  <2>1. LinesRead \in Seq(Line) /\ n \in 0 .. Len(LinesRead)
    BY KnownProperties
  <2>2. ProcessesUpTo(procs, runnable, LinesRead, n)
    BY DEF FirstPassInv, ProcessesKnown
  <2>3. /\ [key \in DOMAIN procs |-> RightSpine(procs[key].lineIntervals)]
              = [name \in Pass!PidsOf(Pass!Owned(Seen(LinesRead, n))) |->
                    Pass!OwnedIntervals(Seen(LinesRead, n), name)]
        /\ runnable = Pass!FirstRunnable(Pass!Owned(Seen(LinesRead, n)))
    BY <2>1, <2>2, SpinesAreKnown
  <2> QED
    BY <2>3, Zenon DEF Pass!KnownAfter, Seen
<1>2. (FirstPassInv /\ n = start_line_number - 1 => Pass!KnownAfter(n))'
  BY <1>1, PTL
<1> QED
  BY <1>1, <1>2

\* The interval that ends is the next run that FirstPass takes.
LEMMA EndsRunOfPass ==
    ASSUME FirstPassInv, Reading, RunIsOver(PidRead), NEW n \in Nat, NEW m \in Nat,
           start_line_number = n + 1, LastLine = m
    PROVE  m \in Pass!RunEnds /\ Pass!RunBefore(m) = n
PROOF
<1> DEFINE t == LinesRead
           ends == {e \in DOMAIN t : e = Len(t) \/ t[e][1] # t[e + 1][1]}
           before == {0} \cup {e \in ends : e < m}
<1>1. /\ t \in Seq(Line) /\ n < m /\ IsRun(t, n, m) /\ t[m][1] = pid
      /\ m = curr_line_number - 1
  <2>1. n = start_line_number - 1
    OBVIOUS
  <2> QED
    BY <2>1, EndsRun DEF FirstPassInv
<1>2. Len(t) \in Nat /\ DOMAIN t = 1 .. Len(t)
  BY <1>1, LenProperties
<1>3. /\ curr_line_number \in Nat
      /\ Matches => /\ curr_line_number \in 1 .. Len(t)
                    /\ PidRead = t[curr_line_number][1] /\ PidRead # pid
      /\ ~ Matches => curr_line_number = Len(t) + 1
  BY ReadProperties DEF FirstPassInv, RunIsOver
<1>4. /\ n \in 0 .. Len(t) /\ m \in n + 1 .. Len(t)
      /\ \A k \in n + 1 .. m : t[k][1] = t[m][1]
      /\ n > 0 => t[n][1] # t[m][1]
  BY <1>1 DEF IsRun
<1>5. Pass!RunEnds = ends
  BY DEF Pass!RunEnds
<1> HIDE DEF t
<1>6. m \in ends
  <2>1. curr_line_number = m + 1
    BY <1>1, <1>3
  <2> QED
    BY <1>1, <1>2, <1>3, <1>4, <2>1
<1>7. n \in before /\ \A e \in before : e \in Nat /\ e <= n
  <2>1. Len(t) \in Nat /\ n < m /\ m <= Len(t)
    BY <1>2, <1>4
  <2>2. \A e \in 1 .. Len(t) : e \in ends <=> e = Len(t) \/ t[e][1] # t[e + 1][1]
    BY <1>2
  <2>3. ends \subseteq 1 .. Len(t) /\ \A e : e \in before <=> e \in {0} \cup ends /\ e < m
    BY <1>2, <2>1
  <2> HIDE DEF ends, before
  <2>4. n \in before
    <3>1. CASE n = 0
      BY <2>1, <2>3, <3>1
    <3>2. CASE n # 0
      <4>1. n \in 1 .. Len(t) /\ n > 0 /\ n + 1 \in n + 1 .. m
        BY <2>1, <3>2
      <4>2. t[n][1] # t[n + 1][1]
        BY <1>4, <4>1
      <4> QED
        BY <2>1, <2>2, <2>3, <4>1, <4>2
    <3> QED
      BY <3>1, <3>2
  <2>5. ASSUME NEW e \in before PROVE e \in Nat /\ e <= n
    <3>1. e \in {0} \cup ends /\ e < m
      BY <2>3
    <3>2. e \in Nat
      BY <2>1, <2>3, <3>1
    <3>3. ASSUME e > n PROVE FALSE
      <4>1. e \in n + 1 .. m /\ e + 1 \in n + 1 .. m /\ e # 0 /\ e # Len(t)
        BY <2>1, <3>1, <3>2, <3>3
      <4>2. e \in 1 .. Len(t) /\ e \in ends
        BY <2>3, <3>1, <4>1
      <4>3. t[e][1] # t[e + 1][1]
        BY <2>2, <4>1, <4>2
      <4> QED
        BY <1>4, <4>1, <4>3
    <3> QED
      BY <3>2, <3>3
  <2> QED
    BY <2>4, <2>5
<1> HIDE DEF ends, before
<1>8. Max(before) = n
  <2>1. before \in SUBSET Int /\ before # {}
    BY <1>7
  <2>2. Max(before) \in before /\ \A e \in before : e <= Max(before)
    BY <1>7, <2>1, MaxUpTo
  <2>3. Max(before) \in Nat /\ Max(before) <= n /\ n <= Max(before)
    BY <1>7, <2>2
  <2> QED
    BY <2>3
<1>9. Pass!RunBefore(m) = Pass!Max(before)
  BY <1>5, Zenon DEF Pass!RunBefore, before
<1>10. Pass!Max(before) = Max(before)
  BY DEF Pass!Max, Max
<1> QED
  BY <1>5, <1>6, <1>8, <1>9, <1>10

\* A pass that goes on has read no line with pid 0 (trace_parser.c:96-100).
PidsValid ==
    pc = "reading" => \A k \in 1 .. curr_line_number - 1 : LinesRead[k][1] # 0

\* What the pass is told of a line that it does not reject.
LEMMA LineIsValid ==
    ASSUME PassPlace, Reading, ~ PidIsZero, Matches
    PROVE  LinesRead[curr_line_number][1] # 0
PROOF
<1>1. PidRead = LinesRead[curr_line_number][1]
  BY ReadProperties
<1>2. fscanf_result >= 0
  BY DEF Matches, fscanf_result
<1> QED
  BY <1>1, <1>2 DEF PidIsZero

LEMMA PidsStayValid == Spec => []PidsValid
PROOF
<1>1. Init => PidsValid
  BY DEF Init, PidsValid
<1>2. FirstPassInv /\ PidsValid /\ [Next]_vars => PidsValid'
  <2> SUFFICES ASSUME FirstPassInv, PidsValid, [Next]_vars PROVE PidsValid'
    OBVIOUS
  <2>1. CASE NextLine
    <3>1. /\ Reading /\ ~ PidIsZero /\ file' = file
          /\ curr_line_number' = curr_line_number + 1
          /\ pc' = (IF Matches THEN "reading" ELSE "done")
      BY <2>1 DEF NextLine
    <3>2. LinesRead' = LinesRead
      BY <3>1 DEF LinesRead
    <3>3. curr_line_number \in Nat
      BY <3>1, ReadProperties DEF FirstPassInv
    <3>4. SUFFICES ASSUME Matches, NEW k \in 1 .. curr_line_number
                   PROVE  LinesRead[k][1] # 0
      BY <3>1, <3>2, <3>3 DEF PidsValid
    <3>5. k = curr_line_number \/ k \in 1 .. curr_line_number - 1
      BY <3>3
    <3> QED
      BY <3>1, <3>4, <3>5, LineIsValid DEF FirstPassInv, PidsValid, Reading
  <2>2. CASE RejectsLine
    BY <2>2 DEF RejectsLine, PidsValid
  <2>3. CASE PassOver \/ UNCHANGED vars
    <3>1. UNCHANGED <<file, curr_line_number, pc>>
      BY <2>3 DEF PassOver, vars
    <3>2. LinesRead' = LinesRead
      BY <3>1 DEF LinesRead
    <3> QED
      BY <3>1, <3>2 DEF PidsValid
  <2> QED
    BY <2>1, <2>2, <2>3
    DEF Next, StaysInInterval, AddsProcess, AddsInterval, EndsInterval
<1> QED
  BY <1>1, <1>2, FirstPassSafety, PTL DEF Spec

\* A run is taken only when the line after it is known not to be rejected.
LEMMA NextPidIsValid ==
    ASSUME FirstPassInv, PidsValid, EndsInterval, NEW m \in Nat, LastLine = m
    PROVE  Pass!PidsAreValid(m + 1)
PROOF
<1>1. /\ Reading /\ ~ PidIsZero /\ PassPlace
  BY DEF EndsInterval, NextLine, FirstPassInv
<1>2. /\ curr_line_number \in Nat /\ curr_line_number = m + 1
      /\ ~ Matches => curr_line_number = Len(LinesRead) + 1
  BY <1>1, ReadProperties DEF LastLine
<1>3. DOMAIN LinesRead = 1 .. Len(LinesRead) /\ Len(LinesRead) \in Nat
  BY <1>1, LinesReadProperties DEF PassPlace
<1>4. SUFFICES ASSUME NEW k \in DOMAIN LinesRead, k <= m + 1
               PROVE  LinesRead[k][1] # 0
  BY DEF Pass!PidsAreValid
<1>5. k \in 1 .. curr_line_number - 1 \/ (k = curr_line_number /\ Matches)
  BY <1>2, <1>3, <1>4
<1> QED
  BY <1>1, <1>5, LineIsValid DEF PidsValid, Reading

\* A line is rejected for its pid 0, with the run before it still open; or, when
\* it is the first and cannot be read, for what the stack held.
LEMMA RejectedLine ==
    ASSUME FirstPassInv, PidsValid, RejectsLine
    PROVE  Pass!GivesUpHere
PROOF
<1> DEFINE k == curr_line_number
<1>1. PassPlace /\ Reading /\ PidRead = 0 /\ fscanf_result >= 0
  BY DEF FirstPassInv, RejectsLine, PidIsZero
<1>2. /\ k \in Nat \ {0}
      /\ Matches => k \in 1 .. Len(LinesRead) /\ LinesRead[k][1] = 0
      /\ ~ Matches => k = Len(LinesRead) + 1 /\ curr_pid = 0
  BY <1>1, ReadProperties
<1>3. /\ OpenInterval
      /\ LinesRead \in Seq(Line) /\ Len(LinesRead) \in Nat
      /\ DOMAIN LinesRead = 1 .. Len(LinesRead)
  BY <1>1, LinesReadProperties DEF PassPlace, Reading
<1>4. CASE ~ Matches
  <2>1. k = 1
    BY <1>2, <1>3, <1>4 DEF OpenInterval
  <2>2. Len(LinesRead) = 0
    BY <1>2, <1>3, <1>4, <2>1
  <2>3. LinesRead = << >>
    BY <1>3, <2>2, EmptySeq
  <2>4. file # << >>
    BY <1>1, <2>1 DEF fscanf_result, AtEnd
  <2> QED
    BY <2>3, <2>4 DEF Pass!GivesUpHere
<1>5. CASE Matches
  <2>1. k \in DOMAIN LinesRead /\ LinesRead[k][1] = 0
    BY <1>2, <1>3, <1>5
  <2>2. Pass!PidsAreValid(k - 1)
    <3> SUFFICES ASSUME NEW i \in DOMAIN LinesRead, i <= k - 1
                 PROVE  LinesRead[i][1] # 0
      BY DEF Pass!PidsAreValid
    <3>1. i \in 1 .. k - 1
      BY <1>2, <1>3
    <3> QED
      BY <1>1, <3>1 DEF PidsValid, Reading
  <2>3. Pass!KnownAfter(Pass!RunBefore(k - 1))
    <3>1. CASE k = 1
      <4>1. start_line_number - 1 = 0
        BY <1>3, <3>1 DEF OpenInterval
      <4>2. Pass!RunEnds \subseteq 1 .. Len(LinesRead)
        BY <1>3 DEF Pass!RunEnds
      <4>3. {0} \cup {m \in Pass!RunEnds : m < k - 1} = {0}
        <5>1. \A m \in Pass!RunEnds : ~ (m < k - 1)
          BY <1>3, <3>1, <4>2
        <5> QED
          BY <5>1, Zenon
      <4>4. Pass!RunBefore(k - 1) = 0
        <5>1. Pass!RunBefore(k - 1) = Pass!Max({0})
          BY <4>3, Zenon DEF Pass!RunBefore
        <5> QED
          BY <5>1 DEF Pass!Max
      <4> QED
        BY <4>1, <4>4, KnownIs
    <3>2. CASE k # 1
      <4>1. RunIsOver(PidRead)
        BY <1>1, <1>3, <3>2 DEF OpenInterval, RunIsOver
      <4>2. start_line_number - 1 \in Nat /\ LastLine \in Nat
            /\ start_line_number - 1 + 1 = start_line_number
        BY <1>1, <4>1, EndsRun
      <4>3. PICK n \in Nat : start_line_number - 1 = n
        BY <4>2
      <4>4. PICK m \in Nat : LastLine = m
        BY <4>2
      <4>5. Pass!RunBefore(m) = n
        BY <1>1, <4>1, <4>2, <4>3, <4>4, EndsRunOfPass
      <4>6. Pass!RunBefore(k - 1) = n
        BY <4>4, <4>5 DEF LastLine
      <4> QED
        BY <4>3, <4>6, KnownIs
    <3> QED
      BY <3>1, <3>2
  <2> QED
    BY <2>1, <2>2, <2>3 DEF Pass!GivesUpHere
<1> QED
  BY <1>4, <1>5

\* A turn of the loop is a step of FirstPass, or changes nothing that it knows: a
\* line of the open interval is a stutter, the end of an interval one run more, and
\* a line that is no line of a trace gives the pass up.
LEMMA StepOfPass ==
    ASSUME FirstPassInv, FirstPassInv', PidsValid, [Next]_vars
    PROVE  [Pass!Next]_(Pass!vars)
PROOF
<1>1. CASE RejectsLine
  <2>1. /\ file' = file /\ procs' = procs /\ runnable' = runnable
        /\ pc = "reading" /\ pc' = "invalid format"
    BY <1>1 DEF RejectsLine, Reading
  <2>2. LinesRead' = LinesRead
    BY <2>1 DEF LinesRead
  <2>3. Pass!GivesUpHere
    BY <1>1, RejectedLine
  <2>4. Pass!GiveUp
    BY <2>1, <2>2, <2>3 DEF Pass!GiveUp
  <2> QED
    BY <2>4 DEF Pass!Next
<1>2. CASE StaysInInterval
  <2>1. /\ file' = file /\ procs' = procs /\ runnable' = runnable
        /\ pc = "reading" /\ pc' \in {"reading", "done"}
    BY <1>2 DEF StaysInInterval, NextLine, Reading
  <2>2. LinesRead' = LinesRead
    BY <2>1 DEF LinesRead
  <2> QED
    BY <2>1, <2>2 DEF Pass!vars
<1>3. CASE AddsProcess \/ AddsInterval
  <2>1. EndsInterval
    BY <1>3 DEF AddsProcess, AddsInterval
  <2>2. /\ file' = file /\ pc = "reading" /\ pc' \in {"reading", "done"}
    BY <2>1 DEF EndsInterval, NextLine, Reading
  <2>3. LinesRead' = LinesRead
    BY <2>2 DEF LinesRead
  <2>4. /\ start_line_number - 1 \in Nat /\ LastLine \in Nat
        /\ LastLine = start_line_number' - 1
        /\ start_line_number - 1 + 1 = start_line_number
    BY <2>1, EndsRun DEF FirstPassInv, EndsInterval, NextLine, LastLine
  <2>5. PICK n \in Nat : start_line_number - 1 = n
    BY <2>4
  <2>6. PICK m \in Nat : LastLine = m
    BY <2>4
  <2>7. start_line_number = n + 1
    BY <2>4, <2>5
  <2>8. m \in Pass!RunEnds /\ Pass!RunBefore(m) = n
    BY <2>1, <2>6, <2>7, EndsRunOfPass DEF EndsInterval, NextLine
  <2>9. Pass!KnownAfter(n)
    BY <2>5, KnownIs
  <2>10. Pass!KnownAfter(m)'
    BY <2>4, <2>6, KnownIs
  <2>11. Pass!PidsAreValid(m + 1)
    BY <2>1, <2>6, NextPidIsValid
  <2>12. Pass!TakeRun
    BY <2>2, <2>3, <2>8, <2>9, <2>10, <2>11 DEF Pass!TakeRun
  <2> QED
    BY <2>12 DEF Pass!Next
<1>4. CASE PassOver \/ UNCHANGED vars
  <2>1. /\ file' = file /\ procs' = procs /\ runnable' = runnable /\ pc' = pc
    BY <1>4 DEF PassOver, vars
  <2>2. LinesRead' = LinesRead
    BY <2>1 DEF LinesRead
  <2> QED
    BY <2>1, <2>2 DEF Pass!vars
<1> QED
  BY <1>1, <1>2, <1>3, <1>4 DEF Next

\* The first pass implements FirstPass: for every file, whatever its pids and
\* wherever it cannot be read, what it knows grows run by run and is at every turn
\* just what TraceFile defines (trace_parser.c:63-155).
THEOREM FirstPassIsImplemented == Spec => ImplementsFirstPass
PROOF
<1>1. Init /\ FirstPassInv => Pass!Init
  <2> SUFFICES ASSUME Init, FirstPassInv PROVE Pass!Init
    OBVIOUS
  <2>1. start_line_number - 1 = 0 /\ pc = "reading"
    BY DEF Init
  <2>2. Pass!KnownAfter(0)
    BY <2>1, KnownIs
  <2> QED
    BY <2>1, <2>2 DEF Pass!Init
<1>2. FirstPassInv /\ FirstPassInv' /\ PidsValid /\ [Next]_vars => [Pass!Next]_(Pass!vars)
  BY StepOfPass
<1> QED
  BY <1>1, <1>2, FirstPassSafety, PidsStayValid, PTL DEF Spec, ImplementsFirstPass, Pass!Spec
=============================================================================
