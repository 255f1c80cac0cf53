---------------------------- MODULE PagingProofs ----------------------------
(***************************************************************************)
(* The safety of paging for every number of processes, pages and frames,   *)
(* every word size and every replacement module: PagingInv is inductive.   *)
(*                                                                         *)
(* None of its parts is inductive without the others.  That a load keeps   *)
(* the frame table needs a page that is not resident (BlockedPageAbsent)   *)
(* and a frame that is free (BitmapAgrees); that an eviction finds a       *)
(* victim needs a queue as long as memory (QueueTracksMemory).             *)
(*                                                                         *)
(* Before it come lemmas about the parts.  Physical memory: the words and  *)
(* bits of the free list, and what a load and an eviction do to the frame  *)
(* table and to the free list.  The replacement module: queues without     *)
(* repetitions, and its state under each call of its interface.            *)
(***************************************************************************)
EXTENDS Paging, OrderProofs, SequenceTheorems

-----------------------------------------------------------------------------
\* A frame number is its word and its offset.
LEMMA WordAndOffset ==
    ASSUME NEW a \in Nat
    PROVE  /\ bv_ind(a) \in Nat
           /\ bv_ofs(a) \in 0 .. WordBits - 1
           /\ a = (WordBits * bv_ind(a)) + bv_ofs(a)
BY MemoryAssumption DEF bv_ind, bv_ofs

\* Two frames never share a bit.
LEMMA BitIsOneFrame ==
    ASSUME NEW a \in Nat, NEW b \in Nat, bv_ind(a) = bv_ind(b), bv_ofs(a) = bv_ofs(b)
    PROVE  a = b
BY WordAndOffset

\* What the free list covers is in memory, and in a word it has.
LEMMA CoveredFrames ==
    ASSUME NEW a \in 0 .. (MemSize \div WordBits) * WordBits - 1
    PROVE  a \in Frames /\ bv_ind(a) \in Words
PROOF
<1> DEFINE n == MemSize \div WordBits
<1>1. n \in Nat /\ MemSize % WordBits \in Nat /\ MemSize = (WordBits * n) + (MemSize % WordBits)
  BY MemoryAssumption
<1> HIDE DEF n
<1>2. a \in 0 .. (n * WordBits) - 1
  BY DEF n
<1>3. n * WordBits = WordBits * n
  BY <1>1, MemoryAssumption
<1>4. WordBits * n \in Nat
  BY <1>1, MemoryAssumption
<1>5. a \in Nat /\ a < WordBits * n
  BY <1>2, <1>3, <1>4
<1>6. a \in Frames
  BY <1>1, <1>4, <1>5, MemoryAssumption DEF Frames
<1>7. bv_ind(a) \in Nat /\ bv_ofs(a) \in Nat /\ a = (WordBits * bv_ind(a)) + bv_ofs(a)
  BY <1>5, WordAndOffset, MemoryAssumption
<1>8. bv_ind(a) < n
  <2>1. SUFFICES ASSUME n <= bv_ind(a) PROVE FALSE
    BY <1>1, <1>7
  <2>2. WordBits * n <= WordBits * bv_ind(a)
    BY <2>1, <1>1, <1>7, MemoryAssumption
  <2> QED
    BY <2>2, <1>4, <1>5, <1>7, MemoryAssumption
<1> QED
  BY <1>1, <1>6, <1>7, <1>8 DEF Words, n

\* When the word size divides the memory size, the free list covers memory.
LEMMA AlignedCovers ==
    ASSUME MemSize % WordBits = 0
    PROVE  Frames = 0 .. (MemSize \div WordBits) * WordBits - 1
BY MemoryAssumption DEF Frames

-----------------------------------------------------------------------------
LEMMA FramesFinite == IsFiniteSet(Frames) /\ Cardinality(Frames) = MemSize
BY FS_Interval, MemoryAssumption DEF Frames

LEMMA TakenFinite ==
    ASSUME NEW m
    PROVE  /\ IsFiniteSet(TakenFrames(m))
           /\ Cardinality(TakenFrames(m)) \in Nat
           /\ Cardinality(TakenFrames(m)) <= MemSize
           /\ Cardinality(TakenFrames(m)) = MemSize => TakenFrames(m) = Frames
PROOF
<1>1. TakenFrames(m) \in SUBSET Frames
  BY DEF TakenFrames
<1> QED
  BY <1>1, FramesFinite, FS_Subset, FS_CardinalityType

\* When memory has no free page by count, every frame is taken.
LEMMA FullMemory ==
    ASSUME NEW m, m \in MemoryType, FreeListAgrees(m), ~ Memory_hasFreePage(m)
    PROVE  TakenFrames(m) = Frames
BY TakenFinite, MemoryAssumption DEF FreeListAgrees, Memory_hasFreePage

\* The free page that is found is a free frame, and the free list covers it.
LEMMA FoundPageIsFree ==
    ASSUME NEW m, m \in MemoryType, FreeListAgrees(m), CanFindFreePage(m)
    PROVE  /\ Memory_getFreePage(m) \in Frames
           /\ bv_ind(Memory_getFreePage(m)) \in Words
           /\ m.frames[Memory_getFreePage(m)] = NoPage
PROOF
<1> DEFINE f == Memory_getFreePage(m)
<1>1. \A a \in ZeroBits(m) : a \in Frames /\ bv_ind(a) \in Words /\ ~ BitSet(m, a)
  BY CoveredFrames DEF ZeroBits
<1>2. ZeroBits(m) \in SUBSET Nat
  BY <1>1, MemoryAssumption DEF Frames
<1>3. f \in ZeroBits(m)
  BY <1>2, MinNat DEF Memory_getFreePage, CanFindFreePage
<1> HIDE DEF f
<1>4. f \in Frames /\ bv_ind(f) \in Words /\ ~ BitSet(m, f)
  BY <1>1, <1>3
<1>5. m.frames[f] = NoPage
  BY <1>4 DEF FreeListAgrees
<1> QED
  BY <1>4, <1>5 DEF f

\* A page that is free by count is found, if the free list covers memory.
LEMMA FreePageIsFound ==
    ASSUME NEW m, m \in MemoryType, FreeListAgrees(m), Memory_hasFreePage(m),
           MemSize % WordBits = 0
    PROVE  CanFindFreePage(m)
PROOF
<1>1. TakenFrames(m) # Frames
  BY FramesFinite, MemoryAssumption DEF FreeListAgrees, Memory_hasFreePage
<1>2. PICK f \in Frames : m.frames[f] = NoPage
  BY <1>1 DEF TakenFrames
<1>3. f \in 0 .. (MemSize \div WordBits) * WordBits - 1
  BY AlignedCovers
<1>4. bv_ind(f) \in Words
  BY <1>3, CoveredFrames
<1>5. ~ BitSet(m, f)
  BY <1>2, <1>4 DEF FreeListAgrees
<1> QED
  BY <1>3, <1>5 DEF CanFindFreePage, ZeroBits

-----------------------------------------------------------------------------
\* A load into a free frame of the free list keeps memory consistent.
LEMMA LoadKeepsMemory ==
    ASSUME NEW m, m \in MemoryType, MapsAgree(m), FreeListAgrees(m),
           NEW v \in VPages, v \notin m.inMemory,
           NEW f \in Frames, m.frames[f] = NoPage, bv_ind(f) \in Words
    PROVE  LET m2 == Memory_loadPage(m, v, f)
           IN  /\ m2 \in MemoryType
               /\ MapsAgree(m2)
               /\ FreeListAgrees(m2)
               /\ m2.inMemory = m.inMemory \cup {v}
               /\ m2.currentPPN[v] = f
               /\ m2.allocated = m.allocated + 1
               /\ TakenFrames(m2) = TakenFrames(m) \cup {f}
PROOF
<1> DEFINE m2 == Memory_loadPage(m, v, f)
<1>1. /\ m2.frames = [m.frames EXCEPT ![f] = v]
      /\ m2.inMemory = m.inMemory \cup {v}
      /\ m2.currentPPN = [m.currentPPN EXCEPT ![v] = f]
      /\ m2.freelist = [m.freelist EXCEPT ![bv_ind(f)] = @ \cup {bv_ofs(f)}]
      /\ m2.allocated = m.allocated + 1
  BY DEF MemoryType, Memory_loadPage
<1>2. f \in Nat /\ bv_ofs(f) \in 0 .. WordBits - 1
  BY WordAndOffset, MemoryAssumption DEF Frames
<1>4. /\ m.frames \in [Frames -> VPages \cup {NoPage}]
      /\ m.currentPPN \in [VPages -> Frames \cup {Garbage}]
      /\ m.freelist \in [Words -> SUBSET (0 .. WordBits - 1)]
      /\ m.inMemory \subseteq VPages
      /\ m.allocated \in Nat
  BY DEF MemoryType
<1>3. m2 \in MemoryType
  <2>1. m.allocated + 1 \in Nat
    BY <1>4
  <2> QED
    BY <1>2, <2>1 DEF MemoryType, Memory_loadPage
<1> HIDE DEF m2
<1>5. v # NoPage
  BY MemoryAssumption
<1>6. MapsAgree(m2)
  <2>1. ASSUME NEW g \in Frames, m2.frames[g] # NoPage
        PROVE  m2.frames[g] \in m2.inMemory /\ m2.currentPPN[m2.frames[g]] = g
    <3>1. CASE g = f
      BY <3>1, <1>1, <1>4
    <3>2. CASE g # f
      <4>1. m2.frames[g] = m.frames[g] /\ m.frames[g] # NoPage
        BY <3>2, <2>1, <1>1, <1>4
      <4>2. m.frames[g] \in m.inMemory /\ m.currentPPN[m.frames[g]] = g
        BY <4>1 DEF MapsAgree
      <4> QED
        BY <4>1, <4>2, <1>1, <1>4
    <3> QED
      BY <3>1, <3>2
  <2>2. ASSUME NEW w \in m2.inMemory
        PROVE  m2.currentPPN[w] \in Frames /\ m2.frames[m2.currentPPN[w]] = w
    <3>1. CASE w = v
      BY <3>1, <1>1, <1>4
    <3>2. CASE w # v
      <4>1. w \in m.inMemory /\ m2.currentPPN[w] = m.currentPPN[w]
        BY <3>2, <1>1, <1>4
      <4>2. m.currentPPN[w] \in Frames /\ m.frames[m.currentPPN[w]] = w
        BY <4>1 DEF MapsAgree
      <4>3. m.currentPPN[w] # f
        BY <4>1, <4>2, <1>4, MemoryAssumption
      <4> QED
        BY <4>1, <4>2, <4>3, <1>1, <1>4
    <3> QED
      BY <3>1, <3>2
  <2> QED
    BY <2>1, <2>2 DEF MapsAgree
<1>7. TakenFrames(m2) = TakenFrames(m) \cup {f}
  BY <1>1, <1>4, <1>5 DEF TakenFrames
<1>8. FreeListAgrees(m2)
  <2>1. f \notin TakenFrames(m)
    BY DEF TakenFrames
  <2>2. m2.allocated = Cardinality(TakenFrames(m2))
    BY <1>1, <1>7, <2>1, TakenFinite, FS_AddElement DEF FreeListAgrees
  <2>3. ASSUME NEW g \in Frames
        PROVE  IF bv_ind(g) \in Words
               THEN BitSet(m2, g) <=> m2.frames[g] # NoPage
               ELSE m2.frames[g] = NoPage
    <3>1. CASE g = f
      BY <3>1, <1>1, <1>4, <1>5 DEF BitSet
    <3>2. CASE g # f
      <4>1. m2.frames[g] = m.frames[g]
        BY <3>2, <1>1, <1>4
      <4>2. g \in Nat /\ (bv_ind(g) # bv_ind(f) \/ bv_ofs(g) # bv_ofs(f))
        BY <3>2, <1>2, BitIsOneFrame, MemoryAssumption DEF Frames
      <4>3. bv_ind(g) \in Words => (BitSet(m2, g) <=> BitSet(m, g))
        BY <4>2, <1>1, <1>4 DEF BitSet
      <4> QED
        BY <4>1, <4>3 DEF FreeListAgrees
    <3> QED
      BY <3>1, <3>2
  <2> QED
    BY <2>2, <2>3 DEF FreeListAgrees
<1>9. m2.currentPPN[v] = f
  BY <1>1, <1>4
<1> QED
  BY <1>1, <1>3, <1>6, <1>7, <1>8, <1>9 DEF m2

\* A load gives the page its frame and moves no other.
LEMMA LoadMovesOnePage ==
    ASSUME NEW m, m \in MemoryType, NEW v \in VPages, NEW f \in Frames
    PROVE  Memory_loadPage(m, v, f).currentPPN = [m.currentPPN EXCEPT ![v] = f]
BY DEF MemoryType, Memory_loadPage

\* An eviction from a taken frame keeps memory consistent and frees that frame.
LEMMA EvictKeepsMemory ==
    ASSUME NEW m, m \in MemoryType, MapsAgree(m), FreeListAgrees(m),
           NEW f \in Frames, m.frames[f] # NoPage
    PROVE  LET m2 == Memory_evictPage(m, f)
           IN  /\ m2 \in MemoryType
               /\ MapsAgree(m2)
               /\ FreeListAgrees(m2)
               /\ m2.inMemory = m.inMemory \ {m.frames[f]}
               /\ m2.frames[f] = NoPage
               /\ m2.currentPPN = m.currentPPN
               /\ m2.allocated = m.allocated - 1
               /\ TakenFrames(m2) = TakenFrames(m) \ {f}
               /\ bv_ind(f) \in Words
PROOF
<1> DEFINE m2 == Memory_evictPage(m, f)
<1>0. bv_ind(f) \in Words /\ BitSet(m, f)
  BY DEF FreeListAgrees
<1>1. /\ m2.frames = [m.frames EXCEPT ![f] = NoPage]
      /\ m2.inMemory = m.inMemory \ {m.frames[f]}
      /\ m2.currentPPN = m.currentPPN
      /\ m2.freelist = [m.freelist EXCEPT ![bv_ind(f)] = @ \ {bv_ofs(f)}]
      /\ m2.allocated = m.allocated - 1
  BY <1>0 DEF MemoryType, Memory_evictPage
<1>2. f \in Nat /\ bv_ofs(f) \in 0 .. WordBits - 1
  BY WordAndOffset, MemoryAssumption DEF Frames
<1>4. /\ m.frames \in [Frames -> VPages \cup {NoPage}]
      /\ m.currentPPN \in [VPages -> Frames \cup {Garbage}]
      /\ m.freelist \in [Words -> SUBSET (0 .. WordBits - 1)]
      /\ m.inMemory \subseteq VPages
      /\ m.allocated \in Nat
  BY DEF MemoryType
<1>5. f \in TakenFrames(m)
  BY DEF TakenFrames
<1>6. m.allocated - 1 \in Nat
  <2>1. TakenFrames(m) # {} /\ IsFiniteSet(TakenFrames(m))
    BY <1>5, TakenFinite
  <2>2. m.allocated # 0
    BY <2>1, FS_EmptySet DEF FreeListAgrees
  <2> QED
    BY <2>2, <1>4
<1>3. m2 \in MemoryType
  BY <1>0, <1>6 DEF MemoryType, Memory_evictPage
<1> HIDE DEF m2
<1>7. m.frames[f] \in m.inMemory /\ m.currentPPN[m.frames[f]] = f
  BY DEF MapsAgree
<1>8. MapsAgree(m2)
  <2>1. ASSUME NEW g \in Frames, m2.frames[g] # NoPage
        PROVE  m2.frames[g] \in m2.inMemory /\ m2.currentPPN[m2.frames[g]] = g
    <3>1. g # f /\ m2.frames[g] = m.frames[g] /\ m.frames[g] # NoPage
      BY <2>1, <1>1, <1>4
    <3>2. m.frames[g] \in m.inMemory /\ m.currentPPN[m.frames[g]] = g
      BY <3>1 DEF MapsAgree
    <3>3. m.frames[g] # m.frames[f]
      BY <3>1, <3>2, <1>7
    <3> QED
      BY <3>1, <3>2, <3>3, <1>1
  <2>2. ASSUME NEW w \in m2.inMemory
        PROVE  m2.currentPPN[w] \in Frames /\ m2.frames[m2.currentPPN[w]] = w
    <3>1. w \in m.inMemory /\ w # m.frames[f]
      BY <1>1
    <3>2. m.currentPPN[w] \in Frames /\ m.frames[m.currentPPN[w]] = w
      BY <3>1 DEF MapsAgree
    <3>3. m.currentPPN[w] # f
      BY <3>1, <3>2
    <3> QED
      BY <3>2, <3>3, <1>1, <1>4
  <2> QED
    BY <2>1, <2>2 DEF MapsAgree
<1>9. TakenFrames(m2) = TakenFrames(m) \ {f}
  BY <1>1, <1>4 DEF TakenFrames
<1>10. FreeListAgrees(m2)
  <2>1. m2.allocated = Cardinality(TakenFrames(m2))
    BY <1>1, <1>5, <1>9, TakenFinite, FS_RemoveElement DEF FreeListAgrees
  <2>2. ASSUME NEW g \in Frames
        PROVE  IF bv_ind(g) \in Words
               THEN BitSet(m2, g) <=> m2.frames[g] # NoPage
               ELSE m2.frames[g] = NoPage
    <3>1. CASE g = f
      BY <3>1, <1>0, <1>1, <1>4 DEF BitSet
    <3>2. CASE g # f
      <4>1. m2.frames[g] = m.frames[g]
        BY <3>2, <1>1, <1>4
      <4>2. g \in Nat /\ (bv_ind(g) # bv_ind(f) \/ bv_ofs(g) # bv_ofs(f))
        BY <3>2, <1>2, BitIsOneFrame, MemoryAssumption DEF Frames
      <4>3. bv_ind(g) \in Words => (BitSet(m2, g) <=> BitSet(m, g))
        BY <4>2, <1>1, <1>4 DEF BitSet
      <4> QED
        BY <4>1, <4>3 DEF FreeListAgrees
    <3> QED
      BY <3>1, <3>2
  <2> QED
    BY <2>1, <2>2 DEF FreeListAgrees
<1>11. m2.frames[f] = NoPage
  BY <1>1, <1>4
<1> QED
  BY <1>0, <1>1, <1>3, <1>8, <1>9, <1>10, <1>11 DEF m2

\* Freeing a page, resident or not, keeps memory consistent and leaves no frame
\* with it.
LEMMA FreeKeepsMemory ==
    ASSUME NEW m, m \in MemoryType, MapsAgree(m), FreeListAgrees(m),
           NEW v \in VPages
    PROVE  LET m2 == VPage_free(m, v)
           IN  /\ m2 \in MemoryType
               /\ MapsAgree(m2)
               /\ FreeListAgrees(m2)
               /\ m2.inMemory = m.inMemory \ {v}
               /\ m2.allocated = IF v \in m.inMemory THEN m.allocated - 1 ELSE m.allocated
               /\ TakenFrames(m2) \subseteq TakenFrames(m)
               /\ \A u \in VPages \ {v} : m2.currentPPN[u] = m.currentPPN[u]
PROOF
<1> DEFINE m1 == IF v \in m.inMemory THEN Memory_evictPage(m, m.currentPPN[v]) ELSE m
           m2 == [m1 EXCEPT !.currentPPN[v] = Garbage]
<1>1. /\ m1 \in MemoryType
      /\ MapsAgree(m1)
      /\ FreeListAgrees(m1)
      /\ m1.inMemory = m.inMemory \ {v}
      /\ m1.allocated = IF v \in m.inMemory THEN m.allocated - 1 ELSE m.allocated
      /\ TakenFrames(m1) \subseteq TakenFrames(m)
      /\ m1.currentPPN = m.currentPPN
  <2>1. CASE v \in m.inMemory
    <3> DEFINE f == m.currentPPN[v]
    <3>1. f \in Frames /\ m.frames[f] = v /\ m.frames[f] # NoPage
      BY <2>1, MemoryAssumption DEF MapsAgree
    <3>2. m1 = Memory_evictPage(m, f)
      BY <2>1
    <3> HIDE DEF f, m1
    <3> QED
      BY <2>1, <3>1, <3>2, EvictKeepsMemory
  <2>2. CASE v \notin m.inMemory
    BY <2>2
  <2> QED
    BY <2>1, <2>2
<1> HIDE DEF m1
<1>2. /\ m2.frames = m1.frames /\ m2.freelist = m1.freelist
      /\ m2.allocated = m1.allocated /\ m2.inMemory = m1.inMemory
      /\ m2.currentPPN = [m1.currentPPN EXCEPT ![v] = Garbage]
  BY <1>1 DEF MemoryType
<1>3. m2 \in MemoryType
  BY <1>1 DEF MemoryType
<1>4. m1.currentPPN \in [VPages -> Frames \cup {Garbage}]
  BY <1>1 DEF MemoryType
<1> HIDE DEF m2
<1>5. MapsAgree(m2)
  <2>1. \A w \in m1.inMemory : w # v /\ m2.currentPPN[w] = m1.currentPPN[w]
    BY <1>1, <1>2, <1>4
  <2> QED
    BY <1>1, <1>2, <2>1 DEF MapsAgree
<1>6. TakenFrames(m2) = TakenFrames(m1)
  BY <1>2 DEF TakenFrames
<1>7. FreeListAgrees(m2)
  BY <1>1, <1>2, <1>6 DEF FreeListAgrees, BitSet
<1>8. VPage_free(m, v) = m2
  BY DEF VPage_free, m1, m2
<1>9. \A u \in VPages \ {v} : m2.currentPPN[u] = m.currentPPN[u]
  BY <1>1, <1>2, <1>4
<1> QED
  BY <1>1, <1>2, <1>3, <1>5, <1>6, <1>7, <1>8, <1>9

-----------------------------------------------------------------------------
\* Taking an entry out of a queue moves those behind it one place up and no other:
\* TAILQ_REMOVE.
LEMMA RemoveFirstByIndex ==
    ASSUME NEW S, NEW q \in Seq(S), NEW v \in Range(q)
    PROVE  \E k \in 1 .. Len(q) :
              /\ q[k] = v
              /\ RemoveFirst(q, v) \in Seq(S)
              /\ Len(RemoveFirst(q, v)) = Len(q) - 1
              /\ \A i \in 1 .. Len(q) - 1 :
                    RemoveFirst(q, v)[i] = IF i <= k - 1 THEN q[i] ELSE q[i + 1]
PROOF
<1> DEFINE I == {i \in 1 .. Len(q) : q[i] = v}
           k == Min(I)
           r == RemoveFirst(q, v)
<1>0. Len(q) \in Nat /\ DOMAIN q = 1 .. Len(q) /\ q \in [1 .. Len(q) -> S]
  BY LenProperties
<1>1. I # {}
  BY <1>0 DEF Range
<1>2. k \in 1 .. Len(q) /\ q[k] = v
  <2>1. I \in SUBSET Nat
    BY <1>0
  <2>2. k \in I
    BY <1>1, <2>1, MinNat
  <2> QED
    BY <2>2
<1>3. SelectInSeq(q, LAMBDA w : w = v) = k
  BY <1>1 DEF SelectInSeq
<1>4. r = SubSeq(q, 1, k - 1) \o SubSeq(q, k + 1, Len(q))
  BY <1>2, <1>3 DEF RemoveFirst, RemoveAt
<1> HIDE DEF k, r
<1> DEFINE s == SubSeq(q, 1, k - 1)
           t == SubSeq(q, k + 1, Len(q))
<1> HIDE DEF s, t
<1>5. /\ s \in Seq(S)
      /\ Len(s) = k - 1
      /\ \A i \in 1 .. k - 1 : s[i] = q[i]
  <2>1. \A i \in 1 .. k - 1 : q[i] \in S
    BY <1>0, <1>2
  <2>2. /\ s \in Seq(S)
        /\ Len(s) = IF 1 <= k - 1 THEN k - 1 - 1 + 1 ELSE 0
        /\ \A i \in 1 .. k - 1 - 1 + 1 : s[i] = q[1 + i - 1]
    BY <1>0, <1>2, <2>1, SubSeqProperties DEF s
  <2>3. \A i \in 1 .. k - 1 : i \in 1 .. k - 1 - 1 + 1 /\ 1 + i - 1 = i
    BY <1>0, <1>2
  <2> QED
    BY <1>0, <1>2, <2>2, <2>3
<1>6. /\ t \in Seq(S)
      /\ Len(t) = Len(q) - k
      /\ \A i \in 1 .. Len(q) - k : t[i] = q[k + i]
  <2>1. \A i \in k + 1 .. Len(q) : q[i] \in S
    BY <1>0, <1>2
  <2>2. /\ t \in Seq(S)
        /\ Len(t) = IF k + 1 <= Len(q) THEN Len(q) - (k + 1) + 1 ELSE 0
        /\ \A i \in 1 .. Len(q) - (k + 1) + 1 : t[i] = q[k + 1 + i - 1]
    BY <1>0, <1>2, <2>1, SubSeqProperties DEF t
  <2>3. Len(t) = Len(q) - k
    <3>1. CASE k + 1 <= Len(q)
      BY <3>1, <1>0, <1>2, <2>2
    <3>2. CASE k = Len(q)
      BY <3>2, <1>0, <1>2, <2>2
    <3>3. k + 1 <= Len(q) \/ k = Len(q)
      <4>1. k \in Int /\ Len(q) \in Int /\ k <= Len(q)
        BY <1>0, <1>2
      <4> QED
        BY <4>1
    <3> QED
      BY <3>1, <3>2, <3>3
  <2>4. ASSUME NEW i \in 1 .. Len(q) - k PROVE t[i] = q[k + i]
    <3>1. i \in 1 .. Len(q) - (k + 1) + 1 /\ k + 1 + i - 1 = k + i
      BY <1>0, <1>2
    <3>2. t[i] = q[k + 1 + i - 1]
      BY <3>1, <2>2
    <3> QED
      BY <3>1, <3>2
  <2> QED
    BY <2>2, <2>3, <2>4
<1>7. /\ r \in Seq(S)
      /\ Len(r) = Len(q) - 1
      /\ \A i \in 1 .. Len(q) - 1 : r[i] = IF i <= k - 1 THEN q[i] ELSE q[i + 1]
  <2>1. /\ r \in Seq(S)
        /\ Len(r) = Len(s) + Len(t)
        /\ \A i \in 1 .. Len(s) + Len(t) : r[i] = IF i <= Len(s) THEN s[i] ELSE t[i - Len(s)]
    BY <1>4, <1>5, <1>6, ConcatProperties DEF s, t
  <2>2. Len(r) = Len(q) - 1 /\ Len(s) + Len(t) = Len(q) - 1
    BY <2>1, <1>5, <1>6, <1>0, <1>2
  <2>3. ASSUME NEW i \in 1 .. Len(q) - 1, i <= k - 1 PROVE r[i] = q[i]
    BY <2>1, <2>2, <2>3, <1>5, <1>0, <1>2
  <2>4. ASSUME NEW i \in 1 .. Len(q) - 1, ~ (i <= k - 1) PROVE r[i] = q[i + 1]
    <3>1. r[i] = t[i - (k - 1)]
      BY <2>1, <2>2, <2>4, <1>5
    <3>2. i - (k - 1) \in 1 .. Len(q) - k /\ k + (i - (k - 1)) = i + 1
      BY <2>4, <1>0, <1>2
    <3>3. t[i - (k - 1)] = q[k + (i - (k - 1))]
      BY <3>2, <1>6
    <3> QED
      BY <3>1, <3>2, <3>3
  <2> QED
    BY <2>1, <2>2, <2>3, <2>4
<1> QED
  BY <1>2, <1>7 DEF r

\* Taking an entry out of a queue without repetitions takes out that entry and
\* no other.
LEMMA RemoveFirstProperties ==
    ASSUME NEW S, NEW q \in Seq(S), NEW v \in Range(q), IsInjective(q)
    PROVE  /\ RemoveFirst(q, v) \in Seq(S)
           /\ Len(RemoveFirst(q, v)) = Len(q) - 1
           /\ Range(RemoveFirst(q, v)) = Range(q) \ {v}
           /\ IsInjective(RemoveFirst(q, v))
PROOF
<1> DEFINE r == RemoveFirst(q, v)
<1>0. Len(q) \in Nat /\ DOMAIN q = 1 .. Len(q) /\ q \in [1 .. Len(q) -> S]
  BY LenProperties
<1>1. PICK k \in 1 .. Len(q) :
        /\ q[k] = v
        /\ r \in Seq(S)
        /\ Len(r) = Len(q) - 1
        /\ \A i \in 1 .. Len(q) - 1 : r[i] = IF i <= k - 1 THEN q[i] ELSE q[i + 1]
  BY RemoveFirstByIndex
<1> HIDE DEF r
<1>2. k \in 1 .. Len(q) /\ q[k] = v
  BY <1>1
<1>3. /\ r \in Seq(S)
      /\ Len(r) = Len(q) - 1
      /\ \A i \in 1 .. Len(q) - 1 : r[i] = IF i <= k - 1 THEN q[i] ELSE q[i + 1]
  BY <1>1
<1>4. DOMAIN r = 1 .. Len(q) - 1
  BY <1>3, LenProperties
<1>5. Range(r) = Range(q) \ {v}
  <2>1. ASSUME NEW i \in 1 .. Len(q) - 1 PROVE r[i] \in Range(q) \ {v}
    <3>1. CASE i <= k - 1
      BY <3>1, <1>3, <1>0, <1>2 DEF Range, IsInjective
    <3>2. CASE ~ (i <= k - 1)
      BY <3>2, <1>3, <1>0, <1>2 DEF Range, IsInjective
    <3> QED
      BY <3>1, <3>2
  <2>2. ASSUME NEW w \in Range(q), w # v PROVE \E i \in 1 .. Len(q) - 1 : r[i] = w
    <3>1. PICK j \in 1 .. Len(q) : q[j] = w
      BY <1>0 DEF Range
    <3>2. CASE j < k
      <4>1. j \in 1 .. Len(q) - 1 /\ r[j] = w
        BY <3>1, <3>2, <1>3, <1>2, <1>0
      <4> QED
        BY <4>1
    <3>3. CASE j > k
      <4>1. j - 1 \in 1 .. Len(q) - 1 /\ r[j - 1] = w
        BY <3>1, <3>3, <1>3, <1>2, <1>0
      <4> QED
        BY <4>1
    <3> QED
      BY <3>1, <3>2, <3>3, <1>2, <2>2, <1>0
  <2> QED
    BY <2>1, <2>2, <1>4 DEF Range
<1>6. IsInjective(r)
  <2>1. ASSUME NEW i \in 1 .. Len(q) - 1, NEW j \in 1 .. Len(q) - 1, r[i] = r[j]
        PROVE  i = j
    <3> DEFINE at(m) == IF m <= k - 1 THEN m ELSE m + 1
    <3>1. \A m \in 1 .. Len(q) - 1 : at(m) \in DOMAIN q /\ r[m] = q[at(m)]
      BY <1>3, <1>0, <1>2
    <3>2. at(i) = at(j)
      BY <2>1, <3>1 DEF IsInjective
    <3> QED
      BY <3>2, <1>2, <1>0
  <2> QED
    BY <2>1, <1>4 DEF IsInjective
<1> QED
  BY <1>3, <1>5, <1>6 DEF r

\* Appending a page that is not queued: TAILQ_INSERT_TAIL.
LEMMA AppendNew ==
    ASSUME NEW S, NEW q \in Seq(S), NEW v \in S, v \notin Range(q), IsInjective(q)
    PROVE  /\ Append(q, v) \in Seq(S)
           /\ Len(Append(q, v)) = Len(q) + 1
           /\ Range(Append(q, v)) = Range(q) \cup {v}
           /\ IsInjective(Append(q, v))
PROOF
<1> DEFINE r == Append(q, v)
<1>0. Len(q) \in Nat /\ DOMAIN q = 1 .. Len(q)
  BY LenProperties
<1>1. /\ r \in Seq(S)
      /\ Len(r) = Len(q) + 1
      /\ \A i \in 1 .. Len(q) : r[i] = q[i]
      /\ r[Len(q) + 1] = v
  BY AppendProperties
<1>2. DOMAIN r = 1 .. Len(q) + 1
  BY <1>1, LenProperties
<1> HIDE DEF r
<1>3. Range(r) = Range(q) \cup {v}
  <2>1. ASSUME NEW i \in 1 .. Len(q) + 1 PROVE r[i] \in Range(q) \cup {v}
    <3>1. CASE i = Len(q) + 1
      BY <3>1, <1>1
    <3>2. CASE i \in 1 .. Len(q)
      BY <3>2, <1>1, <1>0 DEF Range
    <3> QED
      BY <3>1, <3>2, <1>0
  <2>2. ASSUME NEW w \in Range(q) PROVE w \in Range(r)
    <3>1. PICK i \in 1 .. Len(q) : q[i] = w
      BY <1>0 DEF Range
    <3>2. i \in 1 .. Len(q) + 1 /\ r[i] = w
      BY <3>1, <1>1, <1>0
    <3> QED
      BY <3>2, <1>2 DEF Range
  <2>3. v \in Range(r)
    <3>1. Len(q) + 1 \in DOMAIN r
      BY <1>0, <1>2
    <3> QED
      BY <3>1, <1>1 DEF Range
  <2>4. Range(r) \subseteq Range(q) \cup {v}
    BY <2>1, <1>2 DEF Range
  <2> QED
    BY <2>2, <2>3, <2>4
<1>4. IsInjective(r)
  <2>1. \A i \in 1 .. Len(q) : q[i] # v
    BY <1>0 DEF Range
  <2>2. ASSUME NEW i \in 1 .. Len(q) + 1, NEW j \in 1 .. Len(q) + 1, r[i] = r[j]
        PROVE  i = j
    BY <2>1, <2>2, <1>1, <1>0 DEF IsInjective
  <2> QED
    BY <2>2, <1>2 DEF IsInjective
<1> QED
  BY <1>1, <1>3, <1>4 DEF r

\* Popping the head of a queue without repetitions.
LEMMA PopHead ==
    ASSUME NEW S, NEW q \in Seq(S), q # << >>, IsInjective(q)
    PROVE  /\ Head(q) \in Range(q)
           /\ Tail(q) \in Seq(S)
           /\ Len(Tail(q)) = Len(q) - 1
           /\ Range(Tail(q)) = Range(q) \ {Head(q)}
           /\ IsInjective(Tail(q))
PROOF
<1>0. Len(q) \in Nat \ {0} /\ DOMAIN q = 1 .. Len(q)
  BY LenProperties, EmptySeq
<1>1. Head(q) = q[1]
  OBVIOUS
<1>2. /\ Tail(q) \in Seq(S)
      /\ Len(Tail(q)) = Len(q) - 1
      /\ \A i \in 1 .. Len(q) - 1 : Tail(q)[i] = q[i + 1]
  BY HeadTailProperties
<1> DEFINE r == Tail(q)
<1>3. DOMAIN r = 1 .. Len(q) - 1
  BY <1>2, LenProperties
<1> HIDE DEF r
<1>4. Range(r) = Range(q) \ {q[1]}
  <2>1. ASSUME NEW i \in 1 .. Len(q) - 1 PROVE r[i] \in Range(q) \ {q[1]}
    <3>1. i + 1 \in DOMAIN q /\ 1 \in DOMAIN q /\ i + 1 # 1 /\ r[i] = q[i + 1]
      BY <1>0, <1>2 DEF r
    <3>2. q[i + 1] # q[1]
      BY <3>1 DEF IsInjective
    <3> QED
      BY <3>1, <3>2 DEF Range
  <2>2. ASSUME NEW w \in Range(q), w # q[1] PROVE \E i \in 1 .. Len(q) - 1 : r[i] = w
    <3>1. PICK j \in 1 .. Len(q) : q[j] = w
      BY <1>0 DEF Range
    <3>2. j - 1 \in 1 .. Len(q) - 1 /\ (j - 1) + 1 = j
      BY <3>1, <2>2, <1>0
    <3>3. r[j - 1] = w
      BY <3>1, <3>2, <1>2 DEF r
    <3> QED
      BY <3>2, <3>3
  <2>3. Range(r) = {r[i] : i \in 1 .. Len(q) - 1}
    BY <1>3 DEF Range
  <2> QED
    BY <2>1, <2>2, <2>3
<1>5. IsInjective(r)
  BY <1>0, <1>2, <1>3 DEF IsInjective, r
<1>6. Head(q) \in Range(q)
  BY <1>0, <1>1 DEF Range
<1> QED
  BY <1>1, <1>2, <1>4, <1>5, <1>6 DEF r

-----------------------------------------------------------------------------
\* How far a frame is ahead of the hand: frames differ in it.
LEMMA DistanceProperties ==
    ASSUME NEW r \in ReplaceType, NEW f \in Frames
    PROVE  /\ Distance(r, f) \in 0 .. MemSize - 1
           /\ Distance(r, f) = IF f >= r.hand THEN f - r.hand ELSE f - r.hand + MemSize
           /\ \A g \in Frames : Distance(r, g) = Distance(r, f) => g = f
PROOF
<1> DEFINE N == MemSize
           h == r.hand
<1>1. N \in Nat \ {0} /\ h \in 0 .. N - 1 /\ f \in 0 .. N - 1
  BY MemoryAssumption DEF ReplaceType, Frames
<1> HIDE DEF N, h
<1>2. ASSUME NEW g \in 0 .. N - 1
      PROVE  (g - h + N) % N = IF g >= h THEN g - h ELSE g - h + N
  <2>1. CASE g >= h
    <3>1. g - h \in 0 .. N - 1 /\ g - h + N = (g - h) + N
      BY <1>1, <2>1
    <3>2. ((g - h) + N) % N = g - h
      BY <1>1, <3>1
    <3> QED
      BY <2>1, <3>1, <3>2
  <2>2. CASE g < h
    <3>1. g - h + N \in 0 .. N - 1
      BY <1>1, <2>2
    <3>2. (g - h + N) % N = g - h + N
      BY <1>1, <3>1
    <3> QED
      BY <1>1, <2>2, <3>2
  <2> QED
    BY <1>1, <2>1, <2>2
<1>3. \A g \in Frames : Distance(r, g) = IF g >= h THEN g - h ELSE g - h + N
  BY <1>2 DEF Distance, N, h, Frames
<1>4. Distance(r, f) \in 0 .. N - 1
  BY <1>1, <1>3 DEF Frames, N
<1>5. \A g \in Frames : Distance(r, g) = Distance(r, f) => g = f
  BY <1>1, <1>3 DEF Frames, N
<1> QED
  BY <1>3, <1>4, <1>5 DEF N, h

\* The sweep stops at the first frame ahead whose bit is not 1, if there is one.
LEMMA SweepStopProperties ==
    ASSUME NEW r \in ReplaceType
    PROVE  /\ SweepStop(r) \in Frames
           /\ Unset(r) # {} =>
                 /\ SweepStop(r) \in Unset(r)
                 /\ \A g \in Unset(r) : Distance(r, SweepStop(r)) <= Distance(r, g)
PROOF
<1>1. r.hand \in Frames
  BY DEF ReplaceType
<1>2. CASE Unset(r) = {}
  BY <1>1, <1>2 DEF SweepStop
<1>3. CASE Unset(r) # {}
  <2> DEFINE T == {Distance(r, f) : f \in Unset(r)}
  <2>1. T \in SUBSET Nat /\ T # {}
    BY <1>3, DistanceProperties DEF Unset
  <2>2. PICK x \in T : \A y \in T : x <= y
    <3> HIDE DEF T
    <3> QED
      BY <2>1, LeastNat
  <2>3. PICK f \in Unset(r) : x = Distance(r, f)
    BY <2>2
  <2> DEFINE P(g) == \A h \in Unset(r) : Distance(r, g) <= Distance(r, h)
  <2>4. SweepStop(r) = CHOOSE g \in Unset(r) : P(g)
    BY <1>3 DEF SweepStop
  <2>5. P(f)
    BY <2>2, <2>3
  <2>6. SweepStop(r) \in Unset(r) /\ P(SweepStop(r))
    <3> HIDE DEF P
    <3> QED
      BY <2>4, <2>5
  <2> QED
    BY <2>6 DEF Unset
<1> QED
  BY <1>2, <1>3

\* What the module's state must satisfy beside a memory m.
Serves(r, m) ==
    /\ r \in ReplaceType
    /\ QueueAgrees(r, m)
    /\ BitsKnown(r, m)

\* A hit changes the order of the queue or a reference bit, nothing else.
LEMMA AccessKeepsReplace ==
    ASSUME NEW m, m \in MemoryType, MapsAgree(m),
           NEW r, Serves(r, m),
           NEW v \in m.inMemory
    PROVE  LET r2 == Replace_notifyPageAccess(r, m, v)
           IN  Serves(r2, m) /\ r2.inQueue = r.inQueue
PROOF
<1> DEFINE r2 == Replace_notifyPageAccess(r, m, v)
<1> SUFFICES Serves(r2, m) /\ r2.inQueue = r.inQueue
  OBVIOUS
<1>0. /\ r \in ReplaceType /\ v \in VPages
      /\ r.queue \in Seq(VPages) /\ r.refbit \in [Frames -> {0, 1, Garbage}]
      /\ r.policy \in Policies /\ r.pages \in Int
  BY DEF Serves, ReplaceType, MemoryType
<1>1. CASE r.policy = "LRU"
  <2> DEFINE q1 == RemoveFirst(r.queue, v)
             q2 == Append(q1, v)
  <2>1. r2 = [r EXCEPT !.queue = q2]
    BY <1>1 DEF Replace_notifyPageAccess
  <2>2. KeepsQueue(r)
    BY <1>1 DEF KeepsQueue
  <2>3. /\ Range(r.queue) = m.inMemory /\ IsInjective(r.queue)
        /\ r.inQueue = m.inMemory
        /\ r.pages = Len(r.queue) /\ r.pages = m.allocated
    BY <2>2 DEF Serves, QueueAgrees
  <2>4. /\ q1 \in Seq(VPages) /\ Len(q1) = Len(r.queue) - 1
        /\ Range(q1) = Range(r.queue) \ {v} /\ IsInjective(q1)
    BY <1>0, <2>3, RemoveFirstProperties
  <2> HIDE DEF q1
  <2>5. /\ q2 \in Seq(VPages) /\ Len(q2) = Len(q1) + 1
        /\ Range(q2) = Range(q1) \cup {v} /\ IsInjective(q2)
    BY <1>0, <2>4, AppendNew
  <2>6. Len(q2) = Len(r.queue) /\ Range(q2) = m.inMemory
    <3>1. Len(r.queue) \in Nat
      BY <1>0, LenProperties
    <3> QED
      BY <2>3, <2>4, <2>5, <3>1
  <2> HIDE DEF q2
  <2>7. /\ r2.queue = q2 /\ r2.inQueue = r.inQueue /\ r2.pages = r.pages
        /\ r2.policy = r.policy
    BY <2>1, <1>0 DEF ReplaceType
  <2>8. r2 \in ReplaceType
    BY <2>1, <2>5, <1>0 DEF ReplaceType
  <2> HIDE DEF r2
  <2> QED
    BY <1>1, <2>3, <2>5, <2>6, <2>7, <2>8 DEF Serves, QueueAgrees, BitsKnown, KeepsQueue
<1>2. CASE r.policy = "CLOCK"
  <2>1. m.currentPPN[v] \in Frames
    BY DEF MapsAgree
  <2>2. r2 = [r EXCEPT !.refbit[m.currentPPN[v]] = 1]
    BY <1>2 DEF Replace_notifyPageAccess
  <2>3. r2 \in ReplaceType
    BY <2>1, <2>2, <1>0 DEF ReplaceType
  <2>4. /\ r2.refbit = [r.refbit EXCEPT ![m.currentPPN[v]] = 1]
        /\ r2.policy = r.policy /\ r2.inQueue = r.inQueue /\ r2.pages = r.pages
    BY <2>2, <1>0 DEF ReplaceType
  <2> HIDE DEF r2
  <2>5. BitsKnown(r2, m)
    <3>1. \A f \in TakenFrames(m) : f \in Frames /\ r.refbit[f] # Garbage
      BY <1>2 DEF Serves, BitsKnown, TakenFrames
    <3> QED
      BY <3>1, <2>4, <1>0, <2>1, MemoryAssumption DEF BitsKnown
  <2>6. QueueAgrees(r2, m)
    BY <1>2, <2>4 DEF Serves, QueueAgrees, KeepsQueue
  <2> QED
    BY <2>3, <2>4, <2>5, <2>6 DEF Serves
<1>3. CASE r.policy # "LRU" /\ r.policy # "CLOCK"
  BY <1>3 DEF Replace_notifyPageAccess
<1> QED
  BY <1>1, <1>2, <1>3

\* A load puts the page at the tail of the queue, or sets its reference bit.
LEMMA LoadKeepsReplace ==
    ASSUME NEW m, m \in MemoryType,
           NEW m2, m2 \in MemoryType,
           NEW r, Serves(r, m),
           NEW v \in VPages, v \notin m.inMemory,
           NEW f \in Frames,
           m2.inMemory = m.inMemory \cup {v},
           m2.currentPPN[v] = f,
           m2.allocated = m.allocated + 1,
           TakenFrames(m2) = TakenFrames(m) \cup {f}
    PROVE  LET r2 == Replace_notifyPageLoad(r, m2, v)
           IN  Serves(r2, m2) /\ r2.inQueue \subseteq r.inQueue \cup {v}
PROOF
<1> DEFINE r2 == Replace_notifyPageLoad(r, m2, v)
<1> SUFFICES Serves(r2, m2) /\ r2.inQueue \subseteq r.inQueue \cup {v}
  OBVIOUS
<1>0. /\ r \in ReplaceType
      /\ r.queue \in Seq(VPages) /\ r.refbit \in [Frames -> {0, 1, Garbage}]
      /\ r.policy \in Policies /\ r.pages \in Int /\ r.inQueue \subseteq VPages
  BY DEF Serves, ReplaceType
<1>1. CASE KeepsQueue(r)
  <2> DEFINE q2 == Append(r.queue, v)
  <2>1. r2 = [r EXCEPT !.queue = q2, !.inQueue = @ \cup {v}, !.pages = @ + 1]
    BY <1>1 DEF Replace_notifyPageLoad, KeepsQueue
  <2>2. /\ Range(r.queue) = m.inMemory /\ IsInjective(r.queue)
        /\ r.inQueue = m.inMemory
        /\ r.pages = Len(r.queue) /\ r.pages = m.allocated
    BY <1>1 DEF Serves, QueueAgrees
  <2>3. /\ q2 \in Seq(VPages) /\ Len(q2) = Len(r.queue) + 1
        /\ Range(q2) = Range(r.queue) \cup {v} /\ IsInjective(q2)
    <3> DEFINE q1 == r.queue
    <3>1. v \notin Range(q1)
      BY <2>2
    <3>2. q1 \in Seq(VPages) /\ IsInjective(q1)
      BY <1>0, <2>2
    <3> HIDE DEF q1
    <3>3. /\ Append(q1, v) \in Seq(VPages) /\ Len(Append(q1, v)) = Len(q1) + 1
          /\ Range(Append(q1, v)) = Range(q1) \cup {v} /\ IsInjective(Append(q1, v))
      BY <3>1, <3>2, AppendNew
    <3> QED
      BY <3>3 DEF q1
  <2> HIDE DEF q2
  <2>4. /\ r2.queue = q2 /\ r2.inQueue = r.inQueue \cup {v} /\ r2.pages = r.pages + 1
        /\ r2.policy = r.policy
    BY <2>1, <1>0 DEF ReplaceType
  <2>5. r2 \in ReplaceType
    <3>1. r.pages + 1 \in Int /\ r.inQueue \cup {v} \subseteq VPages
      BY <1>0
    <3> HIDE DEF r2
    <3> QED
      BY <2>1, <2>3, <1>0, <3>1 DEF ReplaceType
  <2> HIDE DEF r2
  <2>6. QueueAgrees(r2, m2)
    BY <1>1, <2>2, <2>3, <2>4 DEF QueueAgrees, KeepsQueue
  <2>7. BitsKnown(r2, m2)
    BY <1>1, <2>4 DEF BitsKnown, KeepsQueue
  <2> QED
    BY <2>4, <2>5, <2>6, <2>7 DEF Serves
<1>2. CASE r.policy = "CLOCK"
  <2>1. r2 = [r EXCEPT !.refbit[f] = 1]
    BY <1>2 DEF Replace_notifyPageLoad, Replace_notifyPageAccess, KeepsQueue
  <2>2. r2 \in ReplaceType
    <3> HIDE DEF r2
    <3> QED
      BY <2>1, <1>0 DEF ReplaceType
  <2>3. /\ r2.refbit = [r.refbit EXCEPT ![f] = 1]
        /\ r2.policy = r.policy /\ r2.inQueue = r.inQueue /\ r2.pages = r.pages
    BY <2>1, <1>0 DEF ReplaceType
  <2> HIDE DEF r2
  <2>4. BitsKnown(r2, m2)
    <3>1. \A g \in TakenFrames(m) : g \in Frames /\ r.refbit[g] # Garbage
      BY <1>2 DEF Serves, BitsKnown, TakenFrames
    <3> QED
      BY <3>1, <2>3, <1>0, MemoryAssumption DEF BitsKnown
  <2>5. QueueAgrees(r2, m2)
    BY <1>2, <2>3 DEF Serves, QueueAgrees, KeepsQueue
  <2> QED
    BY <2>2, <2>3, <2>4, <2>5 DEF Serves
<1>3. CASE ~ KeepsQueue(r) /\ r.policy # "CLOCK"
  <2>1. r2 = r
    BY <1>3 DEF Replace_notifyPageLoad
  <2> QED
    BY <1>3, <2>1 DEF Serves, QueueAgrees, BitsKnown
<1> QED
  BY <1>1, <1>2, <1>3

\* Any page chosen for eviction from a full memory is in a frame, and the state
\* afterwards serves the memory without it.
LEMMA EvictKeepsReplace ==
    ASSUME NEW m, m \in MemoryType, MapsAgree(m), TakenFrames(m) = Frames,
           NEW r, Serves(r, m),
           NEW victim \in Replace_getPageToEvict(r, m),
           NEW m2
    PROVE  /\ victim.ppn \in Frames
           /\ /\ m2.inMemory = m.inMemory \ {m.frames[victim.ppn]}
              /\ m2.allocated = m.allocated - 1
              /\ TakenFrames(m2) \subseteq TakenFrames(m)
              => Serves(victim.rep, m2)
           /\ victim.rep.inQueue \subseteq r.inQueue
PROOF
<1> DEFINE Evicted == /\ m2.inMemory = m.inMemory \ {m.frames[victim.ppn]}
                      /\ m2.allocated = m.allocated - 1
                      /\ TakenFrames(m2) \subseteq TakenFrames(m)
<1>0. /\ r \in ReplaceType
      /\ r.queue \in Seq(VPages) /\ r.refbit \in [Frames -> {0, 1, Garbage}]
      /\ r.policy \in Policies /\ r.pages \in Int /\ r.inQueue \subseteq VPages
  BY DEF Serves, ReplaceType
<1>1. CASE KeepsQueue(r)
  <2> DEFINE v  == Head(r.queue)
             q2 == Tail(r.queue)
             r2 == [r EXCEPT !.queue = q2, !.inQueue = @ \ {v}, !.pages = @ - 1]
  <2>1. victim = [ppn |-> m.currentPPN[v], rep |-> r2]
    <3>1. victim \in {[ppn |-> m.currentPPN[v], rep |-> r2]}
      BY <1>1 DEF Replace_getPageToEvict, KeepsQueue
    <3> HIDE DEF r2
    <3> QED
      BY <3>1
  <2>2. /\ Range(r.queue) = m.inMemory /\ IsInjective(r.queue)
        /\ r.inQueue = m.inMemory
        /\ r.pages = Len(r.queue) /\ r.pages = m.allocated
    BY <1>1 DEF Serves, QueueAgrees
  <2>3. r.queue # << >>
    <3>1. 0 \in TakenFrames(m)
      BY MemoryAssumption DEF Frames
    <3>2. m.frames[0] \in Range(r.queue)
      BY <3>1, <2>2 DEF MapsAgree, TakenFrames
    <3> QED
      BY <3>2 DEF Range
  <2>4. /\ v \in Range(r.queue)
        /\ q2 \in Seq(VPages) /\ Len(q2) = Len(r.queue) - 1
        /\ Range(q2) = Range(r.queue) \ {v} /\ IsInjective(q2)
    BY <1>0, <2>2, <2>3, PopHead
  <2> HIDE DEF v, q2
  <2>5. m.currentPPN[v] \in Frames /\ m.frames[m.currentPPN[v]] = v
    BY <2>2, <2>4 DEF MapsAgree
  <2>6. victim.ppn = m.currentPPN[v] /\ victim.rep = r2
    BY <2>1
  <2>7. /\ r2.queue = q2 /\ r2.inQueue = r.inQueue \ {v} /\ r2.pages = r.pages - 1
        /\ r2.policy = r.policy
    BY <1>0 DEF ReplaceType
  <2>8. r2 \in ReplaceType
    <3>1. r.pages - 1 \in Int /\ r.inQueue \ {v} \subseteq VPages
      BY <1>0
    <3> QED
      BY <2>4, <1>0, <3>1 DEF ReplaceType
  <2> HIDE DEF r2
  <2>9. Evicted => QueueAgrees(r2, m2)
    BY <1>1, <2>2, <2>4, <2>5, <2>6, <2>7 DEF QueueAgrees, KeepsQueue
  <2>10. Evicted => BitsKnown(r2, m2)
    BY <1>1, <2>7 DEF BitsKnown, KeepsQueue
  <2> QED
    BY <2>5, <2>6, <2>7, <2>8, <2>9, <2>10 DEF Serves
<1>2. CASE r.policy = "CLOCK"
  <2> DEFINE s  == SweepStop(r)
             b  == [f \in Frames |-> IF f \in Swept(r) THEN 0 ELSE r.refbit[f]]
             r2 == [r EXCEPT !.hand = s, !.refbit = b]
  <2>1. victim = [ppn |-> s, rep |-> r2]
    BY <1>2 DEF Replace_getPageToEvict, KeepsQueue
  <2>2. s \in Frames
    BY <1>0, SweepStopProperties
  <2>3. b \in [Frames -> {0, 1, Garbage}]
    BY <1>0
  <2>4. \A f \in Frames : r.refbit[f] # Garbage => b[f] # Garbage
    BY MemoryAssumption
  <2> HIDE DEF s, b
  <2>5. r2 \in ReplaceType
    BY <2>2, <2>3, <1>0 DEF ReplaceType
  <2>6. /\ r2.refbit = b /\ r2.policy = r.policy
        /\ r2.inQueue = r.inQueue /\ r2.pages = r.pages
    BY <1>0 DEF ReplaceType
  <2>7. victim.ppn = s /\ victim.rep = r2
    BY <2>1
  <2> HIDE DEF r2
  <2>8. Evicted => BitsKnown(r2, m2)
    BY <1>2, <2>4, <2>6 DEF Serves, BitsKnown, TakenFrames
  <2>9. Evicted => QueueAgrees(r2, m2)
    BY <1>2, <2>6 DEF Serves, QueueAgrees, KeepsQueue
  <2> QED
    BY <2>2, <2>5, <2>6, <2>7, <2>8, <2>9 DEF Serves
<1>3. CASE ~ KeepsQueue(r) /\ r.policy # "CLOCK"
  <2>1. PICK f \in Frames : victim = [ppn |-> f, rep |-> r]
    BY <1>3 DEF Replace_getPageToEvict
  <2>2. victim.ppn = f /\ victim.rep = r
    BY <2>1
  <2> QED
    BY <1>3, <2>2 DEF Serves, QueueAgrees, BitsKnown
<1> QED
  BY <1>1, <1>2, <1>3

\* Freeing a page takes it out of the queue, if it is there.
LEMMA FreeKeepsReplace ==
    ASSUME NEW m, m \in MemoryType,
           NEW r, Serves(r, m),
           NEW v \in VPages,
           NEW m2,
           m2.inMemory = m.inMemory \ {v},
           m2.allocated = (IF v \in m.inMemory THEN m.allocated - 1 ELSE m.allocated),
           TakenFrames(m2) \subseteq TakenFrames(m)
    PROVE  LET r2 == Replace_freeOverhead(r, v)
           IN  Serves(r2, m2) /\ r2.inQueue \subseteq r.inQueue \ {v}
PROOF
<1> DEFINE r2 == Replace_freeOverhead(r, v)
<1> SUFFICES Serves(r2, m2) /\ r2.inQueue \subseteq r.inQueue \ {v}
  OBVIOUS
<1>0. /\ r \in ReplaceType
      /\ r.queue \in Seq(VPages) /\ r.refbit \in [Frames -> {0, 1, Garbage}]
      /\ r.policy \in Policies /\ r.pages \in Int /\ r.inQueue \subseteq VPages
  BY DEF Serves, ReplaceType
<1>1. CASE KeepsQueue(r) /\ v \in m.inMemory
  <2> DEFINE q2 == RemoveFirst(r.queue, v)
  <2>1. /\ Range(r.queue) = m.inMemory /\ IsInjective(r.queue)
        /\ r.inQueue = m.inMemory
        /\ r.pages = Len(r.queue) /\ r.pages = m.allocated
    BY <1>1 DEF Serves, QueueAgrees
  <2>2. r2 = [r EXCEPT !.queue = q2, !.inQueue = @ \ {v}, !.pages = @ - 1]
    BY <1>1, <2>1 DEF Replace_freeOverhead
  <2>3. /\ q2 \in Seq(VPages) /\ Len(q2) = Len(r.queue) - 1
        /\ Range(q2) = Range(r.queue) \ {v} /\ IsInjective(q2)
    <3> DEFINE q1 == r.queue
    <3>1. q1 \in Seq(VPages) /\ v \in Range(q1) /\ IsInjective(q1)
      BY <1>0, <1>1, <2>1
    <3> HIDE DEF q1
    <3>2. /\ RemoveFirst(q1, v) \in Seq(VPages)
          /\ Len(RemoveFirst(q1, v)) = Len(q1) - 1
          /\ Range(RemoveFirst(q1, v)) = Range(q1) \ {v}
          /\ IsInjective(RemoveFirst(q1, v))
      BY <3>1, RemoveFirstProperties
    <3> QED
      BY <3>2 DEF q1
  <2> HIDE DEF q2
  <2>4. /\ r2.queue = q2 /\ r2.inQueue = r.inQueue \ {v} /\ r2.pages = r.pages - 1
        /\ r2.policy = r.policy
    BY <2>2, <1>0 DEF ReplaceType
  <2> HIDE DEF r2
  <2>5. r2 \in ReplaceType
    <3>1. r.pages - 1 \in Int /\ r.inQueue \ {v} \subseteq VPages
      BY <1>0
    <3> QED
      BY <2>2, <2>3, <1>0, <3>1 DEF ReplaceType
  <2>6. QueueAgrees(r2, m2)
    BY <1>1, <2>1, <2>3, <2>4 DEF QueueAgrees, KeepsQueue
  <2>7. BitsKnown(r2, m2)
    BY <1>1, <2>4 DEF BitsKnown, KeepsQueue
  <2> QED
    BY <2>4, <2>5, <2>6, <2>7 DEF Serves
<1>2. CASE ~ (KeepsQueue(r) /\ v \in m.inMemory)
  <2>1. v \notin r.inQueue
    BY <1>2 DEF Serves, QueueAgrees
  <2>2. r2 = r
    BY <2>1 DEF Replace_freeOverhead
  <2> HIDE DEF r2
  <2>3. BitsKnown(r, m2)
    BY DEF Serves, BitsKnown
  <2>4. QueueAgrees(r, m2)
    BY <1>2 DEF Serves, QueueAgrees
  <2> QED
    BY <1>0, <2>1, <2>2, <2>3, <2>4 DEF Serves
<1> QED
  BY <1>1, <1>2

-----------------------------------------------------------------------------
\* No function of the replacement module changes which one is linked, and the
\* modules without a queue leave the queue alone.
KeepsPolicy(r, r2) ==
    /\ r2.policy = r.policy
    /\ ~ KeepsQueue(r) => r2.queue = r.queue

LEMMA ModuleKeepsPolicy ==
    ASSUME NEW r \in ReplaceType, NEW m, NEW v
    PROVE  /\ KeepsPolicy(r, Replace_notifyPageAccess(r, m, v))
           /\ KeepsPolicy(r, Replace_notifyPageLoad(r, m, v))
           /\ KeepsPolicy(r, Replace_freeOverhead(r, v))
           /\ \A victim \in Replace_getPageToEvict(r, m) : KeepsPolicy(r, victim.rep)
PROOF
<1>1. \A q : KeepsQueue(r) => KeepsPolicy(r, [r EXCEPT !.queue = q])
  BY DEF KeepsPolicy, ReplaceType
<1>2. \A b : KeepsPolicy(r, [r EXCEPT !.refbit = b])
  BY DEF KeepsPolicy, ReplaceType
<1>3. \A h, b : KeepsPolicy(r, [r EXCEPT !.hand = h, !.refbit = b])
  BY DEF KeepsPolicy, ReplaceType
<1>4. KeepsPolicy(r, r)
  BY DEF KeepsPolicy
<1>5. KeepsPolicy(r, Replace_notifyPageAccess(r, m, v))
  <2>1. CASE r.policy = "LRU"
    <3>1. KeepsQueue(r) /\ Replace_notifyPageAccess(r, m, v)
                              = [r EXCEPT !.queue = Append(RemoveFirst(@, v), v)]
      BY <2>1 DEF KeepsQueue, Replace_notifyPageAccess
    <3> QED
      BY <1>1, <3>1
  <2>2. CASE r.policy = "CLOCK"
    <3>1. Replace_notifyPageAccess(r, m, v) = [r EXCEPT !.refbit[m.currentPPN[v]] = 1]
      BY <2>2 DEF Replace_notifyPageAccess
    <3> QED
      BY <1>2, <3>1
  <2>3. CASE r.policy # "LRU" /\ r.policy # "CLOCK"
    BY <1>4, <2>3 DEF Replace_notifyPageAccess
  <2> QED
    BY <2>1, <2>2, <2>3
<1>6. KeepsPolicy(r, Replace_notifyPageLoad(r, m, v))
  <2>1. CASE KeepsQueue(r)
    <3> DEFINE r2 == [r EXCEPT !.queue = Append(@, v), !.inQueue = @ \cup {v}, !.pages = @ + 1]
    <3>1. Replace_notifyPageLoad(r, m, v) = r2
      BY <2>1 DEF KeepsQueue, Replace_notifyPageLoad
    <3>2. r2.policy = r.policy
      BY DEF ReplaceType
    <3> HIDE DEF r2
    <3> QED
      BY <2>1, <3>1, <3>2 DEF KeepsPolicy
  <2>2. CASE r.policy = "CLOCK"
    BY <1>5, <2>2 DEF Replace_notifyPageLoad, KeepsQueue
  <2>3. CASE ~ KeepsQueue(r) /\ r.policy # "CLOCK"
    BY <1>4, <2>3 DEF Replace_notifyPageLoad
  <2> QED
    BY <2>1, <2>2, <2>3
<1>7. KeepsPolicy(r, Replace_freeOverhead(r, v))
  <2>1. CASE KeepsQueue(r) /\ v \in r.inQueue
    <3> DEFINE r2 == [r EXCEPT !.queue = RemoveFirst(@, v), !.inQueue = @ \ {v}, !.pages = @ - 1]
    <3>1. Replace_freeOverhead(r, v) = r2
      BY <2>1 DEF Replace_freeOverhead
    <3>2. r2.policy = r.policy
      BY DEF ReplaceType
    <3> HIDE DEF r2
    <3> QED
      BY <2>1, <3>1, <3>2 DEF KeepsPolicy
  <2>2. CASE ~ (KeepsQueue(r) /\ v \in r.inQueue)
    BY <1>4, <2>2 DEF Replace_freeOverhead
  <2> QED
    BY <2>1, <2>2
<1>8. ASSUME NEW victim \in Replace_getPageToEvict(r, m)
      PROVE  KeepsPolicy(r, victim.rep)
  <2>1. CASE KeepsQueue(r)
    <3> DEFINE r2 == [r EXCEPT !.queue = Tail(@), !.inQueue = @ \ {Head(r.queue)},
                               !.pages = @ - 1]
    <3>1. victim \in {[ppn |-> m.currentPPN[Head(r.queue)], rep |-> r2]}
      BY <2>1 DEF Replace_getPageToEvict, KeepsQueue
    <3>2. r2.policy = r.policy
      BY DEF ReplaceType
    <3> HIDE DEF r2
    <3> QED
      BY <2>1, <3>1, <3>2 DEF KeepsPolicy
  <2>2. CASE r.policy = "CLOCK"
    <3> DEFINE r2 == [r EXCEPT !.hand = SweepStop(r),
                               !.refbit = [f \in Frames |-> IF f \in Swept(r) THEN 0 ELSE @[f]]]
    <3>1. victim \in {[ppn |-> SweepStop(r), rep |-> r2]}
      BY <2>2 DEF Replace_getPageToEvict, KeepsQueue
    <3>2. KeepsPolicy(r, r2)
      BY <1>3
    <3> HIDE DEF r2
    <3> QED
      BY <3>1, <3>2
  <2>3. CASE ~ KeepsQueue(r) /\ r.policy # "CLOCK"
    <3>1. victim \in {[ppn |-> f, rep |-> r] : f \in Frames}
      BY <2>3 DEF Replace_getPageToEvict
    <3> QED
      BY <1>4, <3>1
  <2> QED
    BY <2>1, <2>2, <2>3
<1> QED
  BY <1>5, <1>6, <1>7, <1>8

-----------------------------------------------------------------------------
\* The invariant, with what concerns the replacement module gathered.
LEMMA InvParts ==
    ASSUME PagingInv
    PROVE  /\ mem \in MemoryType /\ MapsAgree(mem) /\ FreeListAgrees(mem)
           /\ Serves(rep, mem)
           /\ pageTable \subseteq VPages
           /\ status \in [Pids -> Statuses]
           /\ waitingOnPage \in [Pids -> VPages \cup {NoPage}]
           /\ BlockedPageAbsent /\ NoDanglingPage
BY DEF PagingInv, PagingTypeOK, FrameTable, BitmapAgrees, QueueTracksMemory,
       ClockBitsKnown, Serves

\* The queue never outgrows memory when it serves it.
LEMMA QueueWithinMemory ==
    ASSUME NEW m, m \in MemoryType, FreeListAgrees(m), NEW r, Serves(r, m)
    PROVE  r.pages <= MemSize
PROOF
<1>1. m.allocated <= MemSize
  BY TakenFinite DEF FreeListAgrees
<1>2. r.pages = 0 \/ r.pages = m.allocated
  BY DEF Serves, QueueAgrees
<1> QED
  BY <1>1, <1>2, MemoryAssumption

\* The same parts, put together in the next state.
LEMMA InvFromParts ==
    ASSUME mem' \in MemoryType, MapsAgree(mem'), FreeListAgrees(mem'),
           Serves(rep', mem'),
           pageTable' \subseteq VPages,
           status' \in [Pids -> Statuses],
           waitingOnPage' \in [Pids -> VPages \cup {NoPage}],
           BlockedPageAbsent', NoDanglingPage'
    PROVE  PagingInv'
PROOF
<1>1. rep'.pages <= MemSize
  BY QueueWithinMemory
<1> QED
  BY <1>1 DEF PagingInv, PagingTypeOK, FrameTable, BitmapAgrees, QueueTracksMemory,
              ClockBitsKnown, Serves

-----------------------------------------------------------------------------
LEMMA InitInv == PagingInit => PagingInv
PROOF
<1> SUFFICES ASSUME PagingInit PROVE PagingInv
  OBVIOUS
<1>1. mem \in MemoryType
  BY MemoryAssumption DEF PagingInit, Memory_init, MemoryType, Words
<1>2. TakenFrames(mem) = {} /\ mem.inMemory = {} /\ mem.allocated = 0
  BY DEF PagingInit, Memory_init, TakenFrames
<1>3. MapsAgree(mem)
  BY <1>2 DEF MapsAgree, TakenFrames
<1>4. FreeListAgrees(mem)
  <2>1. \A f \in Frames : mem.frames[f] = NoPage
    BY <1>2 DEF TakenFrames
  <2>2. \A f \in Frames : bv_ind(f) \in Words => ~ BitSet(mem, f)
    BY DEF PagingInit, Memory_init, BitSet
  <2> QED
    BY <1>2, <2>1, <2>2, FS_EmptySet DEF FreeListAgrees
<1>5. PICK policy \in Policies : rep = Replace_initReplacementModule(policy)
  BY DEF PagingInit
<1>6. /\ rep.policy = policy /\ rep.queue = << >> /\ rep.inQueue = {} /\ rep.pages = 0
      /\ rep \in ReplaceType
  <2>1. 0 \in Frames
    BY MemoryAssumption DEF Frames
  <2>2. << >> \in Seq(VPages)
    OBVIOUS
  <2> QED
    BY <1>5, <2>1, <2>2 DEF Replace_initReplacementModule, ReplaceType
<1>7. Serves(rep, mem)
  <2>1. Range(<< >>) = {} /\ IsInjective(<< >>) /\ Len(<< >>) = 0
    BY DEF Range, IsInjective
  <2> QED
    BY <1>2, <1>6, <2>1 DEF Serves, QueueAgrees, BitsKnown
<1>8. rep.pages <= MemSize
  BY <1>6, MemoryAssumption
<1>9. BlockedPageAbsent /\ NoDanglingPage
  BY <1>2, <1>6 DEF PagingInit, BlockedPageAbsent, NoDanglingPage
<1>10. /\ pageTable \subseteq VPages
       /\ status \in [Pids -> Statuses]
       /\ waitingOnPage \in [Pids -> VPages \cup {NoPage}]
  BY DEF PagingInit, Statuses
<1> QED
  BY <1>1, <1>3, <1>4, <1>7, <1>8, <1>9, <1>10
  DEF PagingInv, PagingTypeOK, FrameTable, BitmapAgrees, QueueTracksMemory,
      ClockBitsKnown, Serves

\* A hit, the last one of its process or not, reorders the queue and nothing else.
LEMMA HitsKeepInv ==
    ASSUME PagingInv, NEW v \in VPages, ReferenceHits(v), status[v[1]] = "RUNNABLE",
           \/ UNCHANGED status
           \/ status' = [status EXCEPT ![v[1]] = "FINISHED"]
    PROVE  PagingInv'
PROOF
<1>0. /\ mem' = mem /\ pageTable' = pageTable /\ waitingOnPage' = waitingOnPage
      /\ v \in mem.inMemory /\ v \in pageTable
      /\ rep' = Replace_notifyPageAccess(rep, mem, v)
  BY DEF ReferenceHits, Process_virtualPageInMemory, PageTable_get
<1>1. Serves(rep', mem') /\ rep'.inQueue = rep.inQueue
  BY <1>0, InvParts, AccessKeepsReplace
<1>2. status \in [Pids -> Statuses] /\ v[1] \in Pids
  BY InvParts DEF VPages
<1>3. /\ status' \in [Pids -> Statuses]
      /\ \A p \in Pids : (status'[p] = "BLOCKED") <=> (status[p] = "BLOCKED")
      /\ \A p \in Pids : (status'[p] = "ABSENT") <=> (status[p] = "ABSENT")
  BY <1>2 DEF Statuses
<1>4. BlockedPageAbsent'
  BY <1>0, <1>3, InvParts DEF BlockedPageAbsent
<1>5. NoDanglingPage'
  <2>1. \A w \in pageTable : w[1] \in Pids
    BY InvParts DEF VPages
  <2> QED
    BY <1>0, <1>1, <1>3, <2>1, InvParts DEF NoDanglingPage
<1> QED
  BY <1>0, <1>1, <1>3, <1>4, <1>5, InvParts, InvFromParts

\* A miss puts a page that is not resident in the table and blocks its process.
LEMMA MissKeepsInv ==
    ASSUME PagingInv, NEW v \in VPages, Miss(v)
    PROVE  PagingInv'
PROOF
<1>0. /\ mem' = mem /\ rep' = rep /\ pageTable' = pageTable \cup {v}
      /\ waitingOnPage' = [waitingOnPage EXCEPT ![v[1]] = v]
      /\ status' = [status EXCEPT ![v[1]] = "BLOCKED"]
      /\ ~ (v \in pageTable /\ v \in mem.inMemory)
      /\ status[v[1]] = "RUNNABLE"
  BY DEF Miss, ReferenceMisses, Process_virtualPageInMemory,
         PageTable_get, PageTable_add
<1>1. v \notin mem.inMemory
  BY <1>0, InvParts DEF NoDanglingPage
<1>2. /\ status \in [Pids -> Statuses] /\ v[1] \in Pids
      /\ waitingOnPage \in [Pids -> VPages \cup {NoPage}]
  BY InvParts DEF VPages
<1>3. /\ status' \in [Pids -> Statuses]
      /\ waitingOnPage' \in [Pids -> VPages \cup {NoPage}]
      /\ pageTable' \subseteq VPages
  BY <1>0, <1>2, InvParts DEF Statuses
<1>4. BlockedPageAbsent'
  <2>1. ASSUME NEW p \in Pids
        PROVE  IF status'[p] = "BLOCKED"
               THEN waitingOnPage'[p] \in pageTable' \ mem'.inMemory /\ waitingOnPage'[p][1] = p
               ELSE waitingOnPage'[p] = NoPage
    <3>1. CASE p = v[1]
      BY <3>1, <1>0, <1>1, <1>2
    <3>2. CASE p # v[1]
      <4>1. status'[p] = status[p] /\ waitingOnPage'[p] = waitingOnPage[p]
        BY <3>2, <1>0, <1>2
      <4> QED
        BY <4>1, <1>0, InvParts DEF BlockedPageAbsent
    <3> QED
      BY <3>1, <3>2
  <2> QED
    BY <2>1 DEF BlockedPageAbsent
<1>5. NoDanglingPage'
  <2>1. \A w \in pageTable : w[1] \in Pids /\ status[w[1]] # "ABSENT"
    BY InvParts DEF VPages, NoDanglingPage
  <2>2. \A w \in pageTable' : status'[w[1]] # "ABSENT"
    BY <1>0, <1>2, <2>1
  <2> QED
    BY <1>0, <2>2, InvParts DEF NoDanglingPage
<1> QED
  BY <1>0, <1>3, <1>4, <1>5, InvParts, InvFromParts

\* Destroying a page takes it out of the table, of memory and of the queue at once.
LEMMA DestroyKeepsInv ==
    ASSUME PagingInv, NEW v \in VPages, DestroyVPage(v)
    PROVE  PagingInv'
PROOF
<1>0. /\ mem' = VPage_free(mem, v) /\ rep' = Replace_freeOverhead(rep, v)
      /\ pageTable' = pageTable \ {v}
      /\ status' = status /\ waitingOnPage' = waitingOnPage
      /\ status[v[1]] = "FINISHED"
  BY DEF DestroyVPage
<1>1. /\ mem' \in MemoryType /\ MapsAgree(mem') /\ FreeListAgrees(mem')
      /\ mem'.inMemory = mem.inMemory \ {v}
      /\ mem'.allocated = IF v \in mem.inMemory THEN mem.allocated - 1 ELSE mem.allocated
      /\ TakenFrames(mem') \subseteq TakenFrames(mem)
  BY <1>0, InvParts, FreeKeepsMemory
<1>2. Serves(rep', mem') /\ rep'.inQueue \subseteq rep.inQueue \ {v}
  BY <1>0, <1>1, InvParts, FreeKeepsReplace
<1>3. BlockedPageAbsent'
  <2>1. ASSUME NEW p \in Pids, status[p] = "BLOCKED"
        PROVE  waitingOnPage[p] \in pageTable' \ mem'.inMemory /\ waitingOnPage[p][1] = p
    <3>1. waitingOnPage[p] \in pageTable \ mem.inMemory /\ waitingOnPage[p][1] = p
      BY <2>1, InvParts DEF BlockedPageAbsent
    <3>2. waitingOnPage[p] # v
      BY <2>1, <3>1, <1>0
    <3> QED
      BY <3>1, <3>2, <1>0, <1>1
  <2> QED
    BY <2>1, <1>0, InvParts DEF BlockedPageAbsent
<1>4. NoDanglingPage'
  BY <1>0, <1>1, <1>2, InvParts DEF NoDanglingPage
<1>5. pageTable' \subseteq VPages
  BY <1>0, InvParts
<1> QED
  BY <1>0, <1>1, <1>2, <1>3, <1>4, <1>5, InvParts, InvFromParts

\* A disk read into a free page, or into the page of a victim, leaves memory and
\* the replacement module consistent, with the page resident.
LEMMA LoadKeepsParts ==
    ASSUME PagingInv, NEW v \in VPages, v \notin mem.inMemory,
           LoadIntoFreePage(v) \/ LoadByEvicting(v)
    PROVE  /\ mem' \in MemoryType /\ MapsAgree(mem') /\ FreeListAgrees(mem')
           /\ Serves(rep', mem')
           /\ v \in mem'.inMemory
           /\ mem'.inMemory \subseteq mem.inMemory \cup {v}
           /\ rep'.inQueue \subseteq rep.inQueue \cup {v}
           /\ \A w \in mem.inMemory \ mem'.inMemory :
                 /\ TakenFrames(mem) = Frames
                 /\ TakenFrames(mem') = Frames
                 /\ mem.inMemory \ mem'.inMemory = {w}
           /\ KeepsPolicy(rep, rep')
PROOF
<1>1. CASE LoadIntoFreePage(v)
  <2> DEFINE f == Memory_getFreePage(mem)
  <2>1. /\ CanFindFreePage(mem)
        /\ mem' = Memory_loadPage(mem, v, f)
        /\ rep' = Replace_notifyPageLoad(rep, mem', v)
    BY <1>1 DEF LoadIntoFreePage
  <2>2. f \in Frames /\ bv_ind(f) \in Words /\ mem.frames[f] = NoPage
    BY <2>1, InvParts, FoundPageIsFree
  <2> HIDE DEF f
  <2>3. /\ mem' \in MemoryType /\ MapsAgree(mem') /\ FreeListAgrees(mem')
        /\ mem'.inMemory = mem.inMemory \cup {v}
        /\ mem'.currentPPN[v] = f
        /\ mem'.allocated = mem.allocated + 1
        /\ TakenFrames(mem') = TakenFrames(mem) \cup {f}
    BY <2>1, <2>2, InvParts, LoadKeepsMemory
  <2>4. Serves(rep', mem') /\ rep'.inQueue \subseteq rep.inQueue \cup {v}
    BY <2>1, <2>2, <2>3, InvParts, LoadKeepsReplace
  <2>5. KeepsPolicy(rep, rep')
    BY <2>1, InvParts, ModuleKeepsPolicy DEF Serves
  <2> QED
    BY <2>3, <2>4, <2>5
<1>2. CASE LoadByEvicting(v)
  <2>1. PICK victim \in Replace_getPageToEvict(rep, mem) :
          /\ mem' = Memory_loadPage(Memory_evictPage(mem, victim.ppn), v, victim.ppn)
          /\ rep' = Replace_notifyPageLoad(victim.rep, mem', v)
    BY <1>2 DEF LoadByEvicting
  <2>2. TakenFrames(mem) = Frames
    BY <1>2, InvParts, FullMemory DEF LoadByEvicting
  <2> DEFINE f  == victim.ppn
             m1 == Memory_evictPage(mem, f)
  <2>3. /\ f \in Frames
        /\ /\ m1.inMemory = mem.inMemory \ {mem.frames[f]}
           /\ m1.allocated = mem.allocated - 1
           /\ TakenFrames(m1) \subseteq TakenFrames(mem)
           => Serves(victim.rep, m1)
        /\ victim.rep.inQueue \subseteq rep.inQueue
    BY <2>2, InvParts, EvictKeepsReplace
  <2> HIDE DEF f
  <2>4. mem.frames[f] # NoPage
    BY <2>2, <2>3 DEF TakenFrames
  <2>5. /\ m1 \in MemoryType /\ MapsAgree(m1) /\ FreeListAgrees(m1)
        /\ m1.inMemory = mem.inMemory \ {mem.frames[f]}
        /\ m1.frames[f] = NoPage
        /\ m1.allocated = mem.allocated - 1
        /\ TakenFrames(m1) = TakenFrames(mem) \ {f}
        /\ bv_ind(f) \in Words
    BY <2>3, <2>4, InvParts, EvictKeepsMemory
  <2>6. mem' = Memory_loadPage(m1, v, f)
    BY <2>1 DEF f
  <2> HIDE DEF m1
  <2>7. Serves(victim.rep, m1) /\ v \notin m1.inMemory
    BY <2>3, <2>5
  <2>8. /\ mem' \in MemoryType /\ MapsAgree(mem') /\ FreeListAgrees(mem')
        /\ mem'.inMemory = m1.inMemory \cup {v}
        /\ mem'.currentPPN[v] = f
        /\ mem'.allocated = m1.allocated + 1
        /\ TakenFrames(mem') = TakenFrames(m1) \cup {f}
    BY <2>3, <2>5, <2>6, <2>7, LoadKeepsMemory
  <2>9. Serves(rep', mem') /\ rep'.inQueue \subseteq victim.rep.inQueue \cup {v}
    BY <2>1, <2>3, <2>5, <2>7, <2>8, LoadKeepsReplace
  <2>10. TakenFrames(mem') = Frames
    BY <2>2, <2>3, <2>5, <2>8
  <2>11. KeepsPolicy(rep, rep')
    <3>1. KeepsPolicy(rep, victim.rep)
      BY InvParts, ModuleKeepsPolicy DEF Serves
    <3>2. KeepsPolicy(victim.rep, rep')
      BY <2>1, <2>7, ModuleKeepsPolicy DEF Serves
    <3> QED
      BY <3>1, <3>2 DEF KeepsPolicy, KeepsQueue
  <2> QED
    BY <2>2, <2>3, <2>5, <2>8, <2>9, <2>10, <2>11
<1> QED
  BY <1>1, <1>2

\* When the disk answers, the page comes in and its process waits no longer; no
\* other process waits for the page that came in, nor has its own loaded.
LEMMA FinishDiskIOKeepsInv ==
    ASSUME PagingInv, NEW p \in Pids, FinishDiskIO(p)
    PROVE  PagingInv'
PROOF
<1> DEFINE v == waitingOnPage[p]
<1>0. /\ status[p] = "BLOCKED"
      /\ LoadIntoFreePage(v) \/ LoadByEvicting(v)
      /\ waitingOnPage' = [waitingOnPage EXCEPT ![p] = NoPage]
      /\ pageTable' = pageTable
      /\ status' = [status EXCEPT ![p] = "RUNNABLE"]
  BY DEF FinishDiskIO, Simulator_finishCurrentDiskIO
<1>1. v \in pageTable /\ v \notin mem.inMemory /\ v[1] = p /\ v \in VPages
  BY <1>0, InvParts DEF BlockedPageAbsent
<1> HIDE DEF v
<1>2. /\ mem' \in MemoryType /\ MapsAgree(mem') /\ FreeListAgrees(mem')
      /\ Serves(rep', mem')
      /\ mem'.inMemory \subseteq mem.inMemory \cup {v}
      /\ rep'.inQueue \subseteq rep.inQueue \cup {v}
  BY <1>0, <1>1, LoadKeepsParts
<1>3. /\ status \in [Pids -> Statuses]
      /\ waitingOnPage \in [Pids -> VPages \cup {NoPage}]
  BY InvParts
<1>4. /\ status' \in [Pids -> Statuses]
      /\ waitingOnPage' \in [Pids -> VPages \cup {NoPage}]
  BY <1>0, <1>3 DEF Statuses
<1>5. BlockedPageAbsent'
  <2>1. ASSUME NEW o \in Pids
        PROVE  IF status'[o] = "BLOCKED"
               THEN waitingOnPage'[o] \in pageTable' \ mem'.inMemory /\ waitingOnPage'[o][1] = o
               ELSE waitingOnPage'[o] = NoPage
    <3>1. CASE o = p
      BY <3>1, <1>0, <1>3
    <3>2. CASE o # p
      <4>1. status'[o] = status[o] /\ waitingOnPage'[o] = waitingOnPage[o]
        BY <3>2, <1>0, <1>3
      <4>2. CASE status[o] = "BLOCKED"
        <5>1. waitingOnPage[o] \in pageTable \ mem.inMemory /\ waitingOnPage[o][1] = o
          BY <4>2, InvParts DEF BlockedPageAbsent
        <5>2. waitingOnPage[o] # v
          BY <5>1, <3>2, <1>1
        <5> QED
          BY <4>1, <5>1, <5>2, <1>0, <1>2, <4>2
      <4>3. CASE status[o] # "BLOCKED"
        BY <4>1, <4>3, InvParts DEF BlockedPageAbsent
      <4> QED
        BY <4>2, <4>3
    <3> QED
      BY <3>1, <3>2
  <2> QED
    BY <2>1 DEF BlockedPageAbsent
<1>6. NoDanglingPage'
  <2>1. \A w \in pageTable : w[1] \in Pids /\ status[w[1]] # "ABSENT"
    BY InvParts DEF VPages, NoDanglingPage
  <2>2. \A w \in pageTable' : status'[w[1]] # "ABSENT"
    BY <1>0, <1>3, <2>1
  <2> QED
    BY <1>0, <1>1, <1>2, <2>2, InvParts DEF NoDanglingPage
<1> QED
  BY <1>0, <1>2, <1>4, <1>5, <1>6, InvParts, InvFromParts

-----------------------------------------------------------------------------
\* PagingInv is inductive.
LEMMA StepKeepsInv == PagingInv /\ [PagingNext]_pagingVars => PagingInv'
PROOF
<1> SUFFICES ASSUME PagingInv, [PagingNext]_pagingVars PROVE PagingInv'
  OBVIOUS
<1>1. ASSUME NEW v \in VPages, Hit(v) PROVE PagingInv'
  BY <1>1, HitsKeepInv DEF Hit
<1>2. ASSUME NEW v \in VPages, HitAndFinish(v) PROVE PagingInv'
  BY <1>2, HitsKeepInv DEF HitAndFinish
<1>3. ASSUME NEW v \in VPages, Miss(v) PROVE PagingInv'
  BY <1>3, MissKeepsInv
<1>4. ASSUME NEW v \in VPages, DestroyVPage(v) PROVE PagingInv'
  BY <1>4, DestroyKeepsInv
<1>5. ASSUME NEW p \in Pids, FinishDiskIO(p) PROVE PagingInv'
  BY <1>5, FinishDiskIOKeepsInv
<1>6. ASSUME UNCHANGED pagingVars PROVE PagingInv'
  BY <1>6 DEF pagingVars, PagingInv, PagingTypeOK, FrameTable, BitmapAgrees,
              QueueTracksMemory, ClockBitsKnown, BlockedPageAbsent, NoDanglingPage
<1> QED
  BY <1>1, <1>2, <1>3, <1>4, <1>5, <1>6 DEF PagingNext

-----------------------------------------------------------------------------
\* Clock and Random keep no queue.
QueueIfKept == ~ KeepsQueue(rep) => rep.queue = << >>

LEMMA InitQueueIfKept == PagingInit => QueueIfKept
BY DEF PagingInit, QueueIfKept, Replace_initReplacementModule

LEMMA StepKeepsQueueIfKept ==
    ASSUME PagingInv, QueueIfKept, [PagingNext]_pagingVars
    PROVE  QueueIfKept'
PROOF
<1>1. rep \in ReplaceType /\ KeepsPolicy(rep, rep)
  BY DEF PagingInv, PagingTypeOK, KeepsPolicy
<1>2. KeepsPolicy(rep, rep')
  <2>1. ASSUME NEW v \in VPages, Hit(v) \/ HitAndFinish(v) \/ Miss(v) \/ DestroyVPage(v)
        PROVE  KeepsPolicy(rep, rep')
    BY <1>1, <2>1, ModuleKeepsPolicy
       DEF Hit, HitAndFinish, Miss, DestroyVPage, ReferenceHits, ReferenceMisses
  <2>2. ASSUME NEW p \in Pids, FinishDiskIO(p) PROVE KeepsPolicy(rep, rep')
    <3> DEFINE v == waitingOnPage[p]
    <3>1. v \in VPages /\ v \notin mem.inMemory
      BY <2>2, InvParts DEF FinishDiskIO, BlockedPageAbsent
    <3>2. LoadIntoFreePage(v) \/ LoadByEvicting(v)
      BY <2>2 DEF FinishDiskIO, Simulator_finishCurrentDiskIO
    <3> HIDE DEF v
    <3> QED
      BY <3>1, <3>2, LoadKeepsParts
  <2>3. ASSUME UNCHANGED pagingVars PROVE KeepsPolicy(rep, rep')
    BY <1>1, <2>3 DEF pagingVars
  <2> QED
    BY <2>1, <2>2, <2>3 DEF PagingNext
<1> QED
  BY <1>2 DEF KeepsPolicy, QueueIfKept, KeepsQueue

\* When memory holds no page, every word of the free list is 0.
LEMMA NoPageNoBit ==
    ASSUME PagingInv, mem.inMemory = {}
    PROVE  mem.allocated = 0 /\ \A w \in Words : mem.freelist[w] = {}
PROOF
<1>1. mem \in MemoryType /\ MapsAgree(mem) /\ FreeListAgrees(mem)
  BY InvParts
<1>2. \A f \in Frames : mem.frames[f] = NoPage
  BY <1>1 DEF MapsAgree
<1>3. TakenFrames(mem) = {}
  BY <1>2 DEF TakenFrames
<1>4. mem.allocated = 0
  BY <1>1, <1>3, FS_EmptySet DEF FreeListAgrees
<1>5. ASSUME NEW w \in Words, NEW b \in mem.freelist[w] PROVE FALSE
  <2> DEFINE n == MemSize \div WordBits
             f == (WordBits * w) + b
  <2>1. n \in Nat /\ w \in 0 .. n - 1 /\ b \in 0 .. WordBits - 1 /\ WordBits \in Nat \ {0}
    BY <1>1, <1>5, MemoryAssumption DEF MemoryType, Words
  <2>2. f \in 0 .. (MemSize \div WordBits) * WordBits - 1
    <3> HIDE DEF n
    <3>1. n - (w + 1) \in Nat /\ w \in Nat /\ w + 1 \in Nat
      BY <2>1
    <3>2. WordBits * (n - (w + 1)) \in Nat
      BY <2>1, <3>1
    <3>3. WordBits * n = WordBits * (n - (w + 1)) + WordBits * w + WordBits
      BY <2>1, <3>1
    <3>4. WordBits * w \in Nat /\ n * WordBits = WordBits * n
      BY <2>1, <3>1
    <3>5. f \in 0 .. (n * WordBits) - 1
      BY <2>1, <3>2, <3>3, <3>4
    <3> QED
      BY <3>5 DEF n
  <2>3. f \in Frames /\ bv_ind(f) \in Words
    <3> HIDE DEF f
    <3> QED
      BY <2>2, CoveredFrames
  <2>4. bv_ind(f) = w /\ bv_ofs(f) = b
    BY <2>1 DEF bv_ind, bv_ofs
  <2> HIDE DEF f
  <2>5. BitSet(mem, f)
    BY <1>5, <2>4 DEF BitSet
  <2> QED
    BY <1>1, <1>2, <2>3, <2>5 DEF FreeListAgrees
<1> QED
  BY <1>4, <1>5

-----------------------------------------------------------------------------
\* The whole inductive invariant, for every policy, memory size and word size,
\* including those whose free list does not cover memory.
THEOREM PagingSafety == PagingSpec => []PagingInv
PROOF
<1>1. PagingInit => PagingInv
  BY InitInv
<1>2. PagingInv /\ [PagingNext]_pagingVars => PagingInv'
  BY StepKeepsInv
<1> QED
  BY <1>1, <1>2, PTL DEF PagingSpec

\* Frame numbers, statuses and page pointers keep to their types (memory.c, process.h).
THEOREM PagingTypeCorrect == PagingSpec => []PagingTypeOK
PROOF
<1>1. PagingInv => PagingTypeOK
  BY DEF PagingInv
<1> QED
  BY <1>1, PagingSafety, PTL

\* A frame and the page it holds always point at each other (memory.c:93-136).
THEOREM FrameTableCorrect == PagingSpec => []FrameTable
PROOF
<1>1. PagingInv => FrameTable
  BY DEF PagingInv
<1> QED
  BY <1>1, PagingSafety, PTL

\* The free list and numAllocatedPages describe the frames (memory.c:103-109, 131-135).
THEOREM BitmapCorrect == PagingSpec => []BitmapAgrees
PROOF
<1>1. PagingInv => BitmapAgrees
  BY DEF PagingInv
<1> QED
  BY <1>1, PagingSafety, PTL

\* The LRU or FIFO queue is the set of resident pages, each once, and never longer
\* than memory (the assertions of replace-lru.c and replace-fifo.c).
THEOREM QueueCorrect == PagingSpec => []QueueTracksMemory
PROOF
<1>1. PagingInv => QueueTracksMemory
  BY DEF PagingInv
<1> QED
  BY <1>1, PagingSafety, PTL

\* The uncleared reference bits of replace-clock.c:36 are never read unset.
THEOREM ClockBitsCorrect == PagingSpec => []ClockBitsKnown
PROOF
<1>1. PagingInv => ClockBitsKnown
  BY DEF PagingInv
<1> QED
  BY <1>1, PagingSafety, PTL

\* A blocked process waits for a page of its own that is not resident
\* (simulator.c:62, memory.c:125).
THEOREM BlockedPageIsAbsent == PagingSpec => []BlockedPageAbsent
PROOF
<1>1. PagingInv => BlockedPageAbsent
  BY DEF PagingInv
<1> QED
  BY <1>1, PagingSafety, PTL

\* Nothing points at a page that Process_quit has free'd (process.c:307-321).
THEOREM NothingDangles == PagingSpec => []NoDanglingPage
PROOF
<1>1. PagingInv => NoDanglingPage
  BY DEF PagingInv
<1> QED
  BY <1>1, PagingSafety, PTL

\* If the word size divides the memory size, Memory_getFreePage succeeds whenever
\* Memory_hasFreePage says it will (memory.c:138-165).
THEOREM AlignedFreePageFound ==
    ASSUME MemSize % WordBits = 0
    PROVE  PagingSpec => []FreePageFound
PROOF
<1>1. PagingInv => FreePageFound
  BY InvParts, FreePageIsFound DEF FreePageFound
<1> QED
  BY <1>1, PagingSafety, PTL

\* A page leaves memory only when its process quits or memory is full, and a full
\* memory gives up one page for one (simulator.c:66-75).
THEOREM EvictsOnlyWhenFull == PagingSpec => EvictOnlyWhenFull
PROOF
<1> DEFINE Guarded ==
        \A v \in mem.inMemory \ mem'.inMemory :
            status[v[1]] # "FINISHED" =>
                /\ TakenFrames(mem) = Frames
                /\ TakenFrames(mem)' = Frames
                /\ mem.inMemory \ mem'.inMemory = {v}
<1>1. PagingInv /\ [PagingNext]_pagingVars => [Guarded]_pagingVars
  <2> SUFFICES ASSUME PagingInv, PagingNext PROVE Guarded
    OBVIOUS
  <2>1. ASSUME mem' = mem PROVE Guarded
    BY <2>1
  <2>2. ASSUME NEW v \in VPages, Hit(v) \/ HitAndFinish(v) \/ Miss(v) PROVE Guarded
    BY <2>1, <2>2 DEF Hit, HitAndFinish, Miss, ReferenceHits, ReferenceMisses
  <2>3. ASSUME NEW v \in VPages, DestroyVPage(v) PROVE Guarded
    <3>1. mem'.inMemory = mem.inMemory \ {v}
      BY <2>3, InvParts, FreeKeepsMemory DEF DestroyVPage
    <3> QED
      BY <2>3, <3>1 DEF DestroyVPage
  <2>4. ASSUME NEW p \in Pids, FinishDiskIO(p) PROVE Guarded
    <3> DEFINE v == waitingOnPage[p]
    <3>1. status[p] = "BLOCKED" /\ (LoadIntoFreePage(v) \/ LoadByEvicting(v))
      BY <2>4 DEF FinishDiskIO, Simulator_finishCurrentDiskIO
    <3>2. v \in VPages /\ v \notin mem.inMemory
      BY <3>1, InvParts DEF BlockedPageAbsent
    <3> HIDE DEF v
    <3> QED
      BY <3>1, <3>2, LoadKeepsParts
  <2> QED
    BY <2>2, <2>3, <2>4 DEF PagingNext
<1> QED
  BY <1>1, PagingSafety, PTL DEF PagingSpec, EvictOnlyWhenFull
=============================================================================
