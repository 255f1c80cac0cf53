---------------------------- MODULE RecencyProofs ----------------------------
(***************************************************************************)
(* LRU and FIFO evict the page their names promise: Recency implements     *)
(* VictimOrder, for every set of pages and every memory.                   *)
(***************************************************************************)
EXTENDS Recency, PagingProofs

\* The entries of a queue are in the order R.
InOrder(q, R) == \A i, j \in 1 .. Len(q) : i < j => <<q[i], q[j]>> \in R

\* The queue of LRU or FIFO lists the resident pages from the oldest to the
\* youngest; for the other policies there is no history.
QueueIsHistory ==
    IF KeepsQueue(rep)
    THEN older \subseteq mem.inMemory \X mem.inMemory /\ InOrder(rep.queue, older)
    ELSE older = {}

RecencyInv == PagingInv /\ QueueIsHistory

-----------------------------------------------------------------------------
\* Taking an entry out of a queue leaves the others in order (TAILQ_REMOVE).
LEMMA RemoveFirstInOrder ==
    ASSUME NEW S, NEW q \in Seq(S), NEW v \in Range(q), NEW R, InOrder(q, R)
    PROVE  InOrder(RemoveFirst(q, v), R)
PROOF
<1> DEFINE r == RemoveFirst(q, v)
<1>0. Len(q) \in Nat
  BY LenProperties
<1>1. PICK k \in 1 .. Len(q) :
        /\ Len(r) = Len(q) - 1
        /\ \A i \in 1 .. Len(q) - 1 : r[i] = IF i <= k - 1 THEN q[i] ELSE q[i + 1]
  BY RemoveFirstByIndex
<1> HIDE DEF r
<1> DEFINE at(n) == IF n <= k - 1 THEN n ELSE n + 1
<1>2. \A n \in 1 .. Len(r) : at(n) \in 1 .. Len(q) /\ r[n] = q[at(n)]
  BY <1>0, <1>1
<1>3. \A i, j \in 1 .. Len(r) : i < j => at(i) < at(j)
  BY <1>0, <1>1
<1> HIDE DEF at
<1>4. InOrder(r, R)
  BY <1>2, <1>3 DEF InOrder
<1> QED
  BY <1>4 DEF r

\* A page put at the tail is in order when all the others are before it
\* (TAILQ_INSERT_TAIL).
LEMMA AppendInOrder ==
    ASSUME NEW S, NEW q \in Seq(S), NEW v \in S, NEW R, InOrder(q, R),
           \A u \in Range(q) : <<u, v>> \in R
    PROVE  InOrder(Append(q, v), R)
PROOF
<1> DEFINE r == Append(q, v)
<1>0. Len(q) \in Nat /\ DOMAIN q = 1 .. Len(q)
  BY LenProperties
<1>1. /\ Len(r) = Len(q) + 1
      /\ \A i \in 1 .. Len(q) : r[i] = q[i]
      /\ r[Len(q) + 1] = v
  BY AppendProperties
<1> HIDE DEF r
<1>2. ASSUME NEW i \in 1 .. Len(r), NEW j \in 1 .. Len(r), i < j
      PROVE  <<r[i], r[j]>> \in R
  <2>1. i \in 1 .. Len(q) /\ r[i] = q[i]
    BY <1>0, <1>1, <1>2
  <2>2. CASE j \in 1 .. Len(q)
    BY <1>1, <1>2, <2>1, <2>2 DEF InOrder
  <2>3. CASE j = Len(q) + 1
    <3>1. q[i] \in Range(q)
      BY <1>0, <2>1 DEF Range
    <3> QED
      BY <1>1, <2>1, <2>3, <3>1
  <2> QED
    BY <1>0, <1>1, <2>2, <2>3
<1>3. InOrder(r, R)
  BY <1>2 DEF InOrder
<1> QED
  BY <1>3 DEF r

\* The head of a queue in order is before all the others, which stay in order.
LEMMA HeadInOrder ==
    ASSUME NEW S, NEW q \in Seq(S), q # << >>, IsInjective(q), NEW R, InOrder(q, R)
    PROVE  /\ \A u \in Range(q) \ {Head(q)} : <<Head(q), u>> \in R
           /\ InOrder(Tail(q), R)
PROOF
<1>0. Len(q) \in Nat \ {0} /\ DOMAIN q = 1 .. Len(q)
  BY LenProperties, EmptySeq
<1>1. Head(q) = q[1]
  OBVIOUS
<1>2. ASSUME NEW u \in Range(q) \ {Head(q)} PROVE <<Head(q), u>> \in R
  <2>1. PICK i \in 1 .. Len(q) : q[i] = u
    BY <1>0, <1>2 DEF Range
  <2>2. i # 1
    BY <1>1, <1>2, <2>1
  <2> QED
    BY <1>0, <1>1, <2>1, <2>2 DEF InOrder
<1>3. /\ Len(Tail(q)) = Len(q) - 1
      /\ \A i \in 1 .. Len(q) - 1 : Tail(q)[i] = q[i + 1]
  BY <1>0, HeadTailProperties
<1> DEFINE t == Tail(q)
<1> HIDE DEF t
<1>4. \A i \in 1 .. Len(q) - 1 : i + 1 \in 1 .. Len(q) /\ t[i] = q[i + 1]
  BY <1>0, <1>3 DEF t
<1>5. \A i, j \in 1 .. Len(q) - 1 : i < j => i + 1 < j + 1
  BY <1>0
<1>6. Len(t) = Len(q) - 1
  BY <1>3 DEF t
<1>7. InOrder(t, R)
  BY <1>4, <1>5, <1>6 DEF InOrder
<1> QED
  BY <1>2, <1>7 DEF t

\* The order may be replaced by one that says the same of the entries.
LEMMA SameOrder ==
    ASSUME NEW S, NEW q \in Seq(S), NEW R, InOrder(q, R), NEW R2,
           \A u, w \in Range(q) : <<u, w>> \in R => <<u, w>> \in R2
    PROVE  InOrder(q, R2)
PROOF
<1>1. DOMAIN q = 1 .. Len(q)
  BY LenProperties
<1>2. \A i \in 1 .. Len(q) : q[i] \in Range(q)
  BY <1>1 DEF Range
<1> QED
  BY <1>2 DEF InOrder

-----------------------------------------------------------------------------
\* What each call of the interface does to the queue; the policy never changes.
LEMMA AccessOrder ==
    ASSUME NEW r \in ReplaceType, NEW m, NEW v
    PROVE  LET r2 == Replace_notifyPageAccess(r, m, v)
           IN  /\ r2.policy = r.policy
               /\ r.policy = "LRU" => r2.queue = Append(RemoveFirst(r.queue, v), v)
               /\ r.policy = "FIFO" => r2.queue = r.queue
PROOF
<1> DEFINE q2 == Append(RemoveFirst(r.queue, v), v)
           r2 == Replace_notifyPageAccess(r, m, v)
<1> SUFFICES /\ r2.policy = r.policy
             /\ r.policy = "LRU" => r2.queue = q2
             /\ r.policy = "FIFO" => r2.queue = r.queue
  OBVIOUS
<1>1. CASE r.policy = "LRU"
  <2>1. r2 = [r EXCEPT !.queue = q2]
    BY <1>1 DEF Replace_notifyPageAccess
  <2> HIDE DEF q2, r2
  <2> QED
    BY <1>1, <2>1 DEF ReplaceType
<1>2. CASE r.policy = "CLOCK"
  BY <1>2 DEF Replace_notifyPageAccess, ReplaceType
<1>3. CASE r.policy # "LRU" /\ r.policy # "CLOCK"
  BY <1>3 DEF Replace_notifyPageAccess
<1> QED
  BY <1>1, <1>2, <1>3

LEMMA LoadOrder ==
    ASSUME NEW r \in ReplaceType, NEW m, NEW v
    PROVE  LET r2 == Replace_notifyPageLoad(r, m, v)
           IN  /\ r2.policy = r.policy
               /\ KeepsQueue(r) => r2.queue = Append(r.queue, v)
PROOF
<1> DEFINE q2 == Append(r.queue, v)
           r2 == Replace_notifyPageLoad(r, m, v)
<1> SUFFICES r2.policy = r.policy /\ (KeepsQueue(r) => r2.queue = q2)
  OBVIOUS
<1>1. CASE KeepsQueue(r)
  <2>1. r2 = [r EXCEPT !.queue = q2, !.inQueue = @ \cup {v}, !.pages = @ + 1]
    BY <1>1 DEF Replace_notifyPageLoad, KeepsQueue
  <2> HIDE DEF q2, r2
  <2> QED
    BY <1>1, <2>1 DEF ReplaceType
<1>2. CASE r.policy = "CLOCK"
  <2>1. r2 = Replace_notifyPageAccess(r, m, v)
    BY <1>2 DEF Replace_notifyPageLoad, KeepsQueue
  <2> HIDE DEF r2
  <2> QED
    BY <1>2, <2>1, AccessOrder DEF KeepsQueue
<1>3. CASE ~ KeepsQueue(r) /\ r.policy # "CLOCK"
  BY <1>3 DEF Replace_notifyPageLoad
<1> QED
  BY <1>1, <1>2, <1>3

LEMMA FreeOrder ==
    ASSUME NEW r \in ReplaceType, NEW v
    PROVE  LET r2 == Replace_freeOverhead(r, v)
           IN  /\ r2.policy = r.policy
               /\ r2.queue = IF KeepsQueue(r) /\ v \in r.inQueue
                             THEN RemoveFirst(r.queue, v) ELSE r.queue
PROOF
<1> DEFINE q2 == RemoveFirst(r.queue, v)
           r2 == Replace_freeOverhead(r, v)
<1> SUFFICES /\ r2.policy = r.policy
             /\ r2.queue = IF KeepsQueue(r) /\ v \in r.inQueue THEN q2 ELSE r.queue
  OBVIOUS
<1>1. CASE KeepsQueue(r) /\ v \in r.inQueue
  <2>1. r2 = [r EXCEPT !.queue = q2, !.inQueue = @ \ {v}, !.pages = @ - 1]
    BY <1>1 DEF Replace_freeOverhead
  <2> HIDE DEF q2, r2
  <2> QED
    BY <1>1, <2>1 DEF ReplaceType
<1>2. CASE ~ (KeepsQueue(r) /\ v \in r.inQueue)
  BY <1>2 DEF Replace_freeOverhead
<1> QED
  BY <1>1, <1>2

\* LRU and FIFO evict the page at the head of the queue.
LEMMA EvictOrder ==
    ASSUME NEW m, m \in MemoryType, MapsAgree(m), TakenFrames(m) = Frames,
           NEW r, Serves(r, m),
           NEW victim \in Replace_getPageToEvict(r, m)
    PROVE  /\ victim.rep.policy = r.policy
           /\ KeepsQueue(r) => /\ r.queue # << >>
                               /\ m.frames[victim.ppn] = Head(r.queue)
                               /\ victim.rep.queue = Tail(r.queue)
PROOF
<1>0. r \in ReplaceType /\ r.queue \in Seq(VPages)
  BY DEF Serves, ReplaceType
<1>1. CASE KeepsQueue(r)
  <2> DEFINE v  == Head(r.queue)
             q2 == Tail(r.queue)
             r2 == [r EXCEPT !.queue = q2, !.inQueue = @ \ {v}, !.pages = @ - 1]
  <2>1. victim = [ppn |-> m.currentPPN[v], rep |-> r2]
    <3>1. victim \in {[ppn |-> m.currentPPN[v], rep |-> r2]}
      BY <1>1 DEF Replace_getPageToEvict, KeepsQueue
    <3> HIDE DEF r2
    <3> QED
      BY <3>1
  <2>2. Range(r.queue) = m.inMemory /\ IsInjective(r.queue)
    BY <1>1 DEF Serves, QueueAgrees
  <2>3. r.queue # << >>
    <3>1. 0 \in TakenFrames(m)
      BY MemoryAssumption DEF Frames
    <3>2. m.frames[0] \in Range(r.queue)
      BY <3>1, <2>2 DEF MapsAgree, TakenFrames
    <3> QED
      BY <3>2 DEF Range
  <2>4. v \in m.inMemory
    BY <1>0, <2>2, <2>3, PopHead
  <2> HIDE DEF v, q2
  <2>5. m.frames[m.currentPPN[v]] = v
    BY <2>4 DEF MapsAgree
  <2>6. victim.ppn = m.currentPPN[v] /\ victim.rep = r2
    BY <2>1
  <2>7. r2.queue = q2 /\ r2.policy = r.policy
    BY <1>0 DEF ReplaceType
  <2> QED
    BY <2>3, <2>5, <2>6, <2>7 DEF v, q2
<1>2. CASE r.policy = "CLOCK"
  <2> DEFINE s  == SweepStop(r)
             b  == [f \in Frames |-> IF f \in Swept(r) THEN 0 ELSE r.refbit[f]]
             r2 == [r EXCEPT !.hand = s, !.refbit = b]
  <2>1. victim = [ppn |-> s, rep |-> r2]
    BY <1>2 DEF Replace_getPageToEvict, KeepsQueue
  <2> HIDE DEF s, b
  <2>2. victim.rep = r2
    BY <2>1
  <2>3. r2.policy = r.policy
    BY <1>0 DEF ReplaceType
  <2> QED
    BY <1>2, <2>2, <2>3 DEF KeepsQueue
<1>3. CASE ~ KeepsQueue(r) /\ r.policy # "CLOCK"
  <2>1. PICK f \in Frames : victim = [ppn |-> f, rep |-> r]
    BY <1>3 DEF Replace_getPageToEvict
  <2> QED
    BY <1>3, <2>1
<1> QED
  BY <1>1, <1>2, <1>3

-----------------------------------------------------------------------------
\* A page put at the tail is the youngest of the pages in memory.
LEMMA YoungestAtTail ==
    ASSUME NEW S, NEW v \in S, S \subseteq VPages, NEW T, older \subseteq T \X T,
           NEW q \in Seq(VPages), Range(q) = S \ {v}, InOrder(q, older)
    PROVE  /\ Order!Youngest(v, S) \subseteq S \X S
           /\ InOrder(Append(q, v), Order!Youngest(v, S))
PROOF
<1> DEFINE young == Order!Youngest(v, S)
<1>1. young = {pair \in older : pair[1] \in S \ {v} /\ pair[2] \in S \ {v}}
                 \cup (S \ {v}) \X {v}
  BY DEF Order!Youngest
<1>2. \A u, w \in Range(q) : <<u, w>> \in older => <<u, w>> \in young
  BY <1>1
<1>3. \A u \in Range(q) : <<u, v>> \in young
  BY <1>1
<1>4. young \subseteq S \X S
  BY <1>1
<1> HIDE DEF young
<1>5. InOrder(q, young)
  BY <1>2, SameOrder
<1>6. v \in VPages
  OBVIOUS
<1>7. InOrder(Append(q, v), young)
  BY <1>3, <1>5, <1>6, AppendInOrder
<1> QED
  BY <1>4, <1>7 DEF young

\* What a disk read does to the set of resident pages and to the queue: a page
\* joins both at the tail, after the page at the head has left them if memory is full.
LEMMA LoadEffect ==
    ASSUME PagingInv, NEW v \in VPages, v \notin mem.inMemory,
           LoadIntoFreePage(v) \/ LoadByEvicting(v)
    PROVE  /\ rep'.policy = rep.policy
           /\ \/ /\ mem'.inMemory = mem.inMemory \cup {v}
                 /\ KeepsQueue(rep) => rep'.queue = Append(rep.queue, v)
              \/ \E out \in mem.inMemory :
                    /\ mem'.inMemory = (mem.inMemory \ {out}) \cup {v}
                    /\ KeepsQueue(rep) => /\ rep.queue # << >>
                                          /\ out = Head(rep.queue)
                                          /\ rep'.queue = Append(Tail(rep.queue), v)
PROOF
<1>1. CASE LoadIntoFreePage(v)
  <2> DEFINE f == Memory_getFreePage(mem)
  <2>1. /\ CanFindFreePage(mem)
        /\ mem' = Memory_loadPage(mem, v, f)
        /\ rep' = Replace_notifyPageLoad(rep, mem', v)
    BY <1>1 DEF LoadIntoFreePage
  <2>2. f \in Frames /\ bv_ind(f) \in Words /\ mem.frames[f] = NoPage
    BY <2>1, InvParts, FoundPageIsFree
  <2> HIDE DEF f
  <2>3. mem'.inMemory = mem.inMemory \cup {v}
    BY <2>1, <2>2, InvParts, LoadKeepsMemory
  <2>4. rep \in ReplaceType
    BY InvParts DEF Serves
  <2> QED
    BY <2>1, <2>3, <2>4, LoadOrder
<1>2. CASE LoadByEvicting(v)
  <2>1. PICK victim \in Replace_getPageToEvict(rep, mem) :
          /\ mem' = Memory_loadPage(Memory_evictPage(mem, victim.ppn), v, victim.ppn)
          /\ rep' = Replace_notifyPageLoad(victim.rep, mem', v)
    BY <1>2 DEF LoadByEvicting
  <2>2. TakenFrames(mem) = Frames
    BY <1>2, InvParts, FullMemory DEF LoadByEvicting
  <2> DEFINE f  == victim.ppn
             m1 == Memory_evictPage(mem, f)
  <2>3. /\ f \in Frames
        /\ /\ m1.inMemory = mem.inMemory \ {mem.frames[f]}
           /\ m1.allocated = mem.allocated - 1
           /\ TakenFrames(m1) \subseteq TakenFrames(mem)
           => Serves(victim.rep, m1)
    BY <2>2, InvParts, EvictKeepsReplace
  <2>4. /\ victim.rep.policy = rep.policy
        /\ KeepsQueue(rep) => /\ rep.queue # << >>
                              /\ mem.frames[f] = Head(rep.queue)
                              /\ victim.rep.queue = Tail(rep.queue)
    BY <2>2, InvParts, EvictOrder
  <2> HIDE DEF f
  <2>5. mem.frames[f] # NoPage
    BY <2>2, <2>3 DEF TakenFrames
  <2>6. /\ m1 \in MemoryType /\ MapsAgree(m1) /\ FreeListAgrees(m1)
        /\ m1.inMemory = mem.inMemory \ {mem.frames[f]}
        /\ m1.frames[f] = NoPage
        /\ m1.allocated = mem.allocated - 1
        /\ TakenFrames(m1) = TakenFrames(mem) \ {f}
        /\ bv_ind(f) \in Words
    BY <2>3, <2>5, InvParts, EvictKeepsMemory
  <2>7. mem' = Memory_loadPage(m1, v, f)
    BY <2>1 DEF f
  <2> HIDE DEF m1
  <2>8. Serves(victim.rep, m1) /\ v \notin m1.inMemory
    BY <2>3, <2>6
  <2>9. mem'.inMemory = m1.inMemory \cup {v}
    BY <2>3, <2>6, <2>7, <2>8, LoadKeepsMemory
  <2>10. mem.frames[f] \in mem.inMemory
    BY <2>3, <2>5, InvParts DEF MapsAgree, TakenFrames
  <2>11. victim.rep \in ReplaceType
    BY <2>8 DEF Serves
  <2>12. /\ rep'.policy = victim.rep.policy
         /\ KeepsQueue(victim.rep) => rep'.queue = Append(victim.rep.queue, v)
    BY <2>1, <2>11, LoadOrder
  <2>13. KeepsQueue(victim.rep) <=> KeepsQueue(rep)
    BY <2>4 DEF KeepsQueue
  <2> QED
    BY <2>4, <2>6, <2>9, <2>10, <2>12, <2>13
<1> QED
  BY <1>1, <1>2

-----------------------------------------------------------------------------
\* The queue of LRU or FIFO lists the resident pages, each once, in the order of
\* the history.
LEMMA QueueParts ==
    ASSUME RecencyInv
    PROVE  /\ rep \in ReplaceType /\ mem.inMemory \subseteq VPages
           /\ KeepsQueue(rep) =>
                 /\ rep.queue \in Seq(VPages)
                 /\ Range(rep.queue) = mem.inMemory
                 /\ rep.inQueue = mem.inMemory
                 /\ IsInjective(rep.queue)
                 /\ older \subseteq mem.inMemory \X mem.inMemory
                 /\ InOrder(rep.queue, older)
           /\ ~ KeepsQueue(rep) => older = {}
PROOF
<1>1. rep \in ReplaceType /\ mem \in MemoryType /\ QueueAgrees(rep, mem)
  BY InvParts DEF RecencyInv, Serves
<1> QED
  BY <1>1 DEF RecencyInv, QueueIsHistory, QueueAgrees, ReplaceType, MemoryType

\* A hit is a use: LRU moves the page to the tail and FIFO leaves it where it is.
LEMMA HitImplements ==
    ASSUME RecencyInv, NEW v \in VPages, ReferenceHits(v), HitHistory(v)
    PROVE  Order!Use(v) /\ QueueIsHistory'
PROOF
<1>1. /\ v \in mem.inMemory /\ mem' = mem
      /\ rep' = Replace_notifyPageAccess(rep, mem, v)
  BY DEF ReferenceHits, Process_virtualPageInMemory
<1>2. /\ rep'.policy = rep.policy
      /\ rep.policy = "LRU" => rep'.queue = Append(RemoveFirst(rep.queue, v), v)
      /\ rep.policy = "FIFO" => rep'.queue = rep.queue
  BY <1>1, QueueParts, AccessOrder
<1>3. older' = IF rep.policy = "LRU" THEN Order!Youngest(v, mem.inMemory) ELSE older
  BY DEF HitHistory
<1>4. Order!Use(v)
  BY <1>1, <1>2, <1>3 DEF Order!Use
<1>5. KeepsQueue(rep)' <=> KeepsQueue(rep)
  BY <1>2 DEF KeepsQueue
<1>6. CASE rep.policy = "LRU"
  <2> DEFINE q == RemoveFirst(rep.queue, v)
  <2>1. KeepsQueue(rep)
    BY <1>6 DEF KeepsQueue
  <2>2. q \in Seq(VPages) /\ Range(q) = mem.inMemory \ {v} /\ InOrder(q, older)
    BY <1>1, <2>1, QueueParts, RemoveFirstProperties, RemoveFirstInOrder
  <2> HIDE DEF q
  <2>3. /\ Order!Youngest(v, mem.inMemory) \subseteq mem.inMemory \X mem.inMemory
        /\ InOrder(Append(q, v), Order!Youngest(v, mem.inMemory))
    BY <1>1, <2>1, <2>2, QueueParts, YoungestAtTail
  <2>4. rep'.queue = Append(q, v)
    BY <1>2, <1>6 DEF q
  <2> QED
    BY <1>1, <1>3, <1>4, <1>5, <1>6, <2>1, <2>3, <2>4 DEF QueueIsHistory
<1>7. CASE rep.policy = "FIFO"
  <2>1. KeepsQueue(rep)
    BY <1>7 DEF KeepsQueue
  <2> QED
    BY <1>1, <1>2, <1>3, <1>4, <1>5, <1>7, <2>1, QueueParts DEF QueueIsHistory
<1>8. CASE rep.policy \notin {"LRU", "FIFO"}
  <2>1. ~ KeepsQueue(rep)
    BY <1>8 DEF KeepsQueue
  <2> QED
    BY <1>3, <1>4, <1>5, <1>8, <2>1, QueueParts DEF QueueIsHistory
<1> QED
  BY <1>4, <1>6, <1>7, <1>8

\* A page that is destroyed leaves the queue and the history, if it was in them.
LEMMA DestroyImplements ==
    ASSUME RecencyInv, NEW v \in VPages, DestroyVPage(v), DestroyHistory(v)
    PROVE  (Order!Discard(v) \/ UNCHANGED Order!vars) /\ QueueIsHistory'
PROOF
<1>1. mem' = VPage_free(mem, v) /\ rep' = Replace_freeOverhead(rep, v)
  BY DEF DestroyVPage
<1>2. mem'.inMemory = mem.inMemory \ {v}
  BY <1>1, InvParts, FreeKeepsMemory DEF RecencyInv
<1>3. /\ rep'.policy = rep.policy
      /\ rep'.queue = IF KeepsQueue(rep) /\ v \in rep.inQueue
                      THEN RemoveFirst(rep.queue, v) ELSE rep.queue
  BY <1>1, QueueParts, FreeOrder
<1>4. older' = {pair \in older : pair[1] # v /\ pair[2] # v}
  BY DEF DestroyHistory, Forget
<1>5. KeepsQueue(rep)' <=> KeepsQueue(rep)
  BY <1>3 DEF KeepsQueue
<1>6. Order!Discard(v) \/ UNCHANGED Order!vars
  <2>1. CASE v \in mem.inMemory
    BY <1>2, <1>3, <1>4, <2>1 DEF Order!Discard
  <2>2. CASE v \notin mem.inMemory
    <3>1. mem'.inMemory = mem.inMemory
      BY <1>2, <2>2
    <3>2. older' = older
      BY <1>4, <2>2, QueueParts
    <3> QED
      BY <1>3, <3>1, <3>2 DEF Order!vars
  <2> QED
    BY <2>1, <2>2
<1>7. CASE KeepsQueue(rep)
  <2>1. older' \subseteq mem'.inMemory \X mem'.inMemory
    BY <1>2, <1>4, <1>7, QueueParts
  <2>2. /\ rep'.queue \in Seq(VPages)
        /\ Range(rep'.queue) = mem.inMemory \ {v}
        /\ InOrder(rep'.queue, older)
    <3>1. CASE v \in mem.inMemory
      BY <1>3, <1>7, <3>1, QueueParts, RemoveFirstProperties, RemoveFirstInOrder
    <3>2. CASE v \notin mem.inMemory
      BY <1>3, <1>7, <3>2, QueueParts
    <3> QED
      BY <3>1, <3>2
  <2>3. \A u, w \in Range(rep'.queue) : <<u, w>> \in older => <<u, w>> \in older'
    BY <1>4, <2>2
  <2>4. InOrder(rep'.queue, older')
    BY <2>2, <2>3, SameOrder
  <2> QED
    BY <1>5, <1>6, <1>7, <2>1, <2>4 DEF QueueIsHistory
<1>8. CASE ~ KeepsQueue(rep)
  BY <1>4, <1>5, <1>6, <1>8, QueueParts DEF QueueIsHistory
<1> QED
  BY <1>6, <1>7, <1>8

\* A page that comes in is the youngest; the one that makes room for it, if any,
\* was the oldest.
LEMMA LoadImplements ==
    ASSUME RecencyInv, NEW v \in VPages, v \notin mem.inMemory,
           LoadIntoFreePage(v) \/ LoadByEvicting(v), LoadHistory(v)
    PROVE  /\ Order!Load(v) \/ \E victim \in VPages : Order!Exchange(victim, v)
           /\ QueueIsHistory'
PROOF
<1>0. rep'.policy = rep.policy
  BY LoadEffect DEF RecencyInv
<1>1. /\ KeepsQueue(rep)' <=> KeepsQueue(rep)
      /\ Order!Ordered <=> KeepsQueue(rep)
  BY <1>0 DEF KeepsQueue, Order!Ordered
<1>2. older' = IF KeepsQueue(rep) THEN Order!Youngest(v, mem'.inMemory) ELSE older
  BY DEF LoadHistory
<1>3. \A q \in Seq(VPages) :
        /\ KeepsQueue(rep)
        /\ mem'.inMemory \subseteq VPages /\ v \in mem'.inMemory
        /\ Range(q) = mem'.inMemory \ {v}
        /\ InOrder(q, older)
        /\ rep'.queue = Append(q, v)
        => QueueIsHistory'
  <2> SUFFICES ASSUME NEW q \in Seq(VPages),
                      KeepsQueue(rep),
                      mem'.inMemory \subseteq VPages, v \in mem'.inMemory,
                      Range(q) = mem'.inMemory \ {v},
                      InOrder(q, older),
                      rep'.queue = Append(q, v)
               PROVE  QueueIsHistory'
    OBVIOUS
  <2> DEFINE S == mem'.inMemory
             young == Order!Youngest(v, S)
  <2>1. /\ v \in S /\ S \subseteq VPages /\ Range(q) = S \ {v}
        /\ older' = young
    BY <1>2
  <2>2. older \subseteq mem.inMemory \X mem.inMemory
    BY QueueParts
  <2> HIDE DEF S
  <2>3. young \subseteq S \X S /\ InOrder(Append(q, v), young)
    BY <2>1, <2>2, YoungestAtTail
  <2> HIDE DEF young
  <2> QED
    BY <1>1, <2>1, <2>3 DEF QueueIsHistory, S
<1>4. ~ KeepsQueue(rep) => QueueIsHistory'
  BY <1>1, <1>2, QueueParts DEF QueueIsHistory
<1>5. CASE /\ mem'.inMemory = mem.inMemory \cup {v}
           /\ KeepsQueue(rep) => rep'.queue = Append(rep.queue, v)
  <2>1. Order!Load(v)
    BY <1>0, <1>1, <1>2, <1>5 DEF Order!Load
  <2>2. KeepsQueue(rep) => Range(rep.queue) = mem'.inMemory \ {v}
    BY <1>5, QueueParts
  <2>3. mem'.inMemory \subseteq VPages /\ v \in mem'.inMemory
    BY <1>5, QueueParts
  <2>4. KeepsQueue(rep) => QueueIsHistory'
    BY <1>3, <1>5, <2>2, <2>3, QueueParts
  <2> QED
    BY <1>4, <2>1, <2>4
<1>6. ASSUME NEW out \in mem.inMemory,
             mem'.inMemory = (mem.inMemory \ {out}) \cup {v},
             KeepsQueue(rep) => /\ rep.queue # << >>
                                /\ out = Head(rep.queue)
                                /\ rep'.queue = Append(Tail(rep.queue), v)
      PROVE  (\E victim \in VPages : Order!Exchange(victim, v)) /\ QueueIsHistory'
  <2>1. out \in VPages
    BY <1>6, QueueParts
  <2>2. ASSUME KeepsQueue(rep)
        PROVE  /\ \A u \in mem.inMemory \ {out} : <<out, u>> \in older
               /\ Tail(rep.queue) \in Seq(VPages)
               /\ Range(Tail(rep.queue)) = mem.inMemory \ {out}
               /\ InOrder(Tail(rep.queue), older)
    BY <1>6, <2>2, QueueParts, PopHead, HeadInOrder
  <2>3. Order!Ordered => Order!OldestIn(out)
    BY <1>1, <2>2 DEF Order!OldestIn
  <2>4. Order!Exchange(out, v)
    BY <1>0, <1>1, <1>2, <1>6, <2>3 DEF Order!Exchange
  <2>5. mem'.inMemory \subseteq VPages /\ v \in mem'.inMemory
    BY <1>6, QueueParts
  <2>6. mem'.inMemory \ {v} = mem.inMemory \ {out}
    BY <1>6
  <2>7. KeepsQueue(rep) => QueueIsHistory'
    BY <1>3, <1>6, <2>2, <2>5, <2>6
  <2> QED
    BY <1>4, <2>1, <2>4, <2>7
<1> QED
  BY <1>5, <1>6, LoadEffect DEF RecencyInv

-----------------------------------------------------------------------------
\* A step of paging keeps the invariant and is a step of the order, or a stutter.
LEMMA StepImplements ==
    RecencyInv /\ [RecencyNext]_recencyVars
        => RecencyInv' /\ [Order!Next]_(Order!vars)
PROOF
<1> SUFFICES ASSUME RecencyInv, [RecencyNext]_recencyVars
             PROVE  RecencyInv' /\ [Order!Next]_(Order!vars)
  OBVIOUS
<1>1. [PagingNext]_pagingVars
  BY DEF RecencyNext, PagingNext, recencyVars
<1>2. PagingInv'
  BY <1>1, StepKeepsInv DEF RecencyInv
<1> SUFFICES QueueIsHistory' /\ [Order!Next]_(Order!vars)
  BY <1>2 DEF RecencyInv
<1>3. ASSUME NEW v \in VPages, Hit(v) \/ HitAndFinish(v), HitHistory(v)
      PROVE  QueueIsHistory' /\ Order!Next
  <2>1. ReferenceHits(v)
    BY <1>3 DEF Hit, HitAndFinish
  <2> QED
    BY <1>3, <2>1, HitImplements DEF Order!Next
<1>4. ASSUME rep' = rep, mem' = mem, older' = older
      PROVE  QueueIsHistory' /\ UNCHANGED Order!vars
  BY <1>4 DEF RecencyInv, QueueIsHistory, Order!vars
<1>5. ASSUME NEW v \in VPages, Miss(v), UNCHANGED <<older, survived>>
      PROVE  QueueIsHistory' /\ UNCHANGED Order!vars
  BY <1>4, <1>5 DEF Miss, ReferenceMisses
<1>6. ASSUME NEW v \in VPages, DestroyVPage(v), DestroyHistory(v)
      PROVE  QueueIsHistory' /\ [Order!Next]_(Order!vars)
  BY <1>6, DestroyImplements DEF Order!Next
<1>7. ASSUME NEW p \in Pids, FinishDiskIO(p), LoadHistory(waitingOnPage[p])
      PROVE  QueueIsHistory' /\ Order!Next
  <2> DEFINE v == waitingOnPage[p]
  <2>1. status[p] = "BLOCKED" /\ (LoadIntoFreePage(v) \/ LoadByEvicting(v))
    BY <1>7 DEF FinishDiskIO, Simulator_finishCurrentDiskIO
  <2>2. v \in VPages /\ v \notin mem.inMemory /\ LoadHistory(v)
    BY <1>7, <2>1, InvParts DEF RecencyInv, BlockedPageAbsent
  <2> HIDE DEF v
  <2>3. /\ Order!Load(v) \/ \E victim \in VPages : Order!Exchange(victim, v)
        /\ QueueIsHistory'
    BY <2>1, <2>2, LoadImplements
  <2> QED
    BY <2>2, <2>3 DEF Order!Next
<1>8. ASSUME UNCHANGED recencyVars PROVE QueueIsHistory' /\ UNCHANGED Order!vars
  BY <1>4, <1>8 DEF recencyVars, pagingVars
<1> QED
  BY <1>3, <1>5, <1>6, <1>7, <1>8 DEF RecencyNext

\* LRU evicts the page with the longest time since its last reference and FIFO the
\* first that came in, for every trace of references, any number of processes and
\* pages, and every memory (README:27-29, replace-lru.c:17, replace-fifo.c:19).
THEOREM EvictionOrder == RecencySpec => EvictsOldest
PROOF
<1>1. RecencyInit => RecencyInv
  <2> SUFFICES ASSUME RecencyInit PROVE RecencyInv
    OBVIOUS
  <2>1. PagingInv
    BY InitInv DEF RecencyInit
  <2>2. PICK policy \in Policies : rep = Replace_initReplacementModule(policy)
    BY DEF RecencyInit, PagingInit
  <2>3. rep.queue = << >> /\ older = {}
    BY <2>2 DEF RecencyInit, Replace_initReplacementModule
  <2>4. InOrder(rep.queue, older)
    BY <2>3 DEF InOrder
  <2> QED
    BY <2>1, <2>3, <2>4 DEF RecencyInv, QueueIsHistory
<1>2. RecencyInit => Order!Init
  BY DEF RecencyInit, PagingInit, Memory_init, Order!Init
<1>3. RecencyInv /\ [RecencyNext]_recencyVars
        => RecencyInv' /\ [Order!Next]_(Order!vars)
  BY StepImplements
<1> QED
  BY <1>1, <1>2, <1>3, PTL DEF RecencySpec, EvictsOldest, Order!Spec

-----------------------------------------------------------------------------
\* The hand passes every frame once before it is back.
LEMMA HandAfterProperties ==
    ASSUME NEW r \in ReplaceType, NEW n \in Nat
    PROVE  /\ HandAfter(r, n) \in Frames
           /\ n < MemSize => Distance(r, HandAfter(r, n)) = n
           /\ n = MemSize => HandAfter(r, n) = r.hand
PROOF
<1> DEFINE N == MemSize
           h == r.hand
<1>1. N \in Nat \ {0} /\ h \in 0 .. N - 1
  BY MemoryAssumption DEF ReplaceType, Frames
<1> HIDE DEF N, h
<1>2. h + n \in Nat
  BY <1>1
<1>3. (h + n) % N \in 0 .. N - 1
  BY <1>1, <1>2
<1>4. ASSUME n <= N, h + n >= N PROVE (h + n) % N = h + n - N
  <2>1. h + n - N \in 0 .. N - 1 \/ (h = 0 /\ n = N)
    BY <1>1, <1>4
  <2>2. h + n - N \in 0 .. N - 1 /\ h + n = (h + n - N) + N
    BY <1>1, <1>4, <2>1
  <2>3. ((h + n - N) + N) % N = h + n - N
    BY <1>1, <2>2
  <2> QED
    BY <2>2, <2>3
<1>5. ASSUME h + n < N PROVE (h + n) % N = h + n
  BY <1>1, <1>2, <1>5
<1>6. HandAfter(r, n) = (h + n) % N
  BY DEF HandAfter, N, h
<1>7. HandAfter(r, n) \in Frames
  BY <1>3, <1>6 DEF Frames, N
<1>8. n = N => HandAfter(r, n) = h
  BY <1>1, <1>4, <1>6
<1>9. ASSUME n < N PROVE Distance(r, HandAfter(r, n)) = n
  <2> DEFINE f == HandAfter(r, n)
  <2>1. f = IF h + n < N THEN h + n ELSE h + n - N
    BY <1>1, <1>4, <1>5, <1>6, <1>9
  <2>2. Distance(r, f) = IF f >= h THEN f - h ELSE f - h + N
    BY <1>7, DistanceProperties DEF N, h
  <2> HIDE DEF f
  <2>3. Distance(r, f) = n
    BY <1>1, <1>9, <2>1, <2>2
  <2> QED
    BY <2>3 DEF f
<1> QED
  BY <1>7, <1>8, <1>9 DEF N, h

\* The bits when the hand has passed the frames less than n ahead of where it was.
Passed(r, n) == [f \in Frames |-> IF Distance(r, f) < n THEN 0 ELSE r.refbit[f]]

\* The body of the loop, as the recursion of BitsAfter.
Turn(r, bits) ==
    [n \in Nat |-> IF n = 0 THEN r.refbit
                   ELSE [bits[n - 1] EXCEPT ![HandAfter(r, n - 1)] = 0]]

\* A turn clears the bit of the next frame.
LEMMA OneMorePassed ==
    ASSUME NEW r \in ReplaceType, NEW n \in Nat
    PROVE  /\ Passed(r, 0) = r.refbit
           /\ [Passed(r, n) EXCEPT ![HandAfter(r, n)] = 0] = Passed(r, n + 1)
PROOF
<1> DEFINE d == HandAfter(r, n)
           p == Passed(r, n)
<1>1. r.refbit \in [Frames -> {0, 1, Garbage}]
  BY DEF ReplaceType
<1>2. \A f \in Frames : Distance(r, f) \in 0 .. MemSize - 1
  BY DistanceProperties
<1>3. Passed(r, 0) = r.refbit
  <2>1. \A f \in Frames : ~ (Distance(r, f) < 0)
    BY <1>2, MemoryAssumption
  <2> QED
    BY <1>1, <2>1 DEF Passed
<1>4. d \in Frames
  BY HandAfterProperties
<1>5. ASSUME NEW f \in Frames, f # d
      PROVE  Distance(r, f) < n + 1 <=> Distance(r, f) < n
  <2>1. CASE n < MemSize
    <3>1. Distance(r, d) = n
      BY <2>1, HandAfterProperties
    <3>2. Distance(r, f) # n
      BY <1>4, <1>5, <3>1, DistanceProperties
    <3> QED
      BY <1>2, <3>2, MemoryAssumption
  <2>2. CASE ~ (n < MemSize)
    BY <1>2, <2>2, MemoryAssumption
  <2> QED
    BY <2>1, <2>2
<1>6. Distance(r, d) < n + 1
  <2>1. CASE n < MemSize
    BY <2>1, HandAfterProperties
  <2>2. CASE ~ (n < MemSize)
    BY <1>2, <1>4, <2>2, MemoryAssumption
  <2> QED
    BY <2>1, <2>2
<1>7. p \in [Frames -> {0, 1, Garbage}]
  BY <1>1 DEF Passed
<1>8. \A f \in Frames : p[f] = IF Distance(r, f) < n THEN 0 ELSE r.refbit[f]
  BY DEF Passed
<1> HIDE DEF p, d
<1> DEFINE p2 == [p EXCEPT ![d] = 0]
<1>9. \A f \in Frames : p2[f] = IF Distance(r, f) < n + 1 THEN 0 ELSE r.refbit[f]
  <2> TAKE f \in Frames
  <2>1. p2[f] = IF f = d THEN 0 ELSE p[f]
    BY <1>7
  <2> QED
    BY <1>5, <1>6, <1>8, <2>1
<1>10. p2 = [f \in Frames |-> p2[f]]
  BY <1>7
<1> HIDE DEF p2
<1>11. p2 = Passed(r, n + 1)
  BY <1>9, <1>10 DEF Passed
<1> QED
  BY <1>3, <1>11 DEF p2, p, d

\* What the loop leaves after n turns.
LEMMA BitsAfterPassed ==
    ASSUME NEW r \in ReplaceType, NEW n \in Nat
    PROVE  BitsAfter(r)[n] = Passed(r, n)
PROOF
<1> DEFINE closed == [m \in Nat |-> Passed(r, m)]
           bits == BitsAfter(r)
<1>1. closed = Turn(r, closed)
  <2>1. ASSUME NEW m \in Nat PROVE Passed(r, m) = Turn(r, closed)[m]
    <3>1. CASE m = 0
      BY <3>1, OneMorePassed DEF Turn
    <3>2. CASE m # 0
      <4>1. m - 1 \in Nat /\ m = (m - 1) + 1
        BY <3>2
      <4>2. [Passed(r, m - 1) EXCEPT ![HandAfter(r, m - 1)] = 0] = Passed(r, (m - 1) + 1)
        BY <4>1, OneMorePassed
      <4>3. closed[m - 1] = Passed(r, m - 1)
        BY <4>1
      <4> HIDE DEF closed
      <4>4. Turn(r, closed)[m] = [closed[m - 1] EXCEPT ![HandAfter(r, m - 1)] = 0]
        BY <3>2 DEF Turn
      <4> QED
        BY <4>1, <4>2, <4>3, <4>4
    <3> QED
      BY <3>1, <3>2
  <2>2. Turn(r, closed) = [m \in Nat |-> Turn(r, closed)[m]]
    BY DEF Turn
  <2> QED
    BY <2>1, <2>2
<1>2. bits = CHOOSE b : b = Turn(r, b)
  BY DEF BitsAfter, Turn
<1>3. bits = Turn(r, bits)
  <2> HIDE DEF bits, closed
  <2> QED
    BY <1>1, <1>2
<1> HIDE DEF bits
<1> DEFINE differ == {m \in Nat : bits[m] # Passed(r, m)}
<1>4. differ = {}
  <2> SUFFICES ASSUME differ # {} PROVE FALSE
    OBVIOUS
  <2>1. PICK m \in differ : \A k \in differ : m <= k
    <3>1. differ \in SUBSET Nat
      OBVIOUS
    <3> HIDE DEF differ
    <3> QED
      BY <3>1, LeastNat
  <2>2. bits[m] = Turn(r, bits)[m] /\ m \in Nat
    BY <1>3, <2>1
  <2>3. CASE m = 0
    BY <2>1, <2>2, <2>3, OneMorePassed DEF Turn
  <2>4. CASE m # 0
    <3>1. m - 1 \in Nat /\ m = (m - 1) + 1 /\ ~ (m <= m - 1)
      BY <2>2, <2>4
    <3>2. bits[m - 1] = Passed(r, m - 1)
      BY <2>1, <3>1
    <3>3. bits[m] = [bits[m - 1] EXCEPT ![HandAfter(r, m - 1)] = 0]
      BY <2>2, <2>4 DEF Turn
    <3>4. [Passed(r, m - 1) EXCEPT ![HandAfter(r, m - 1)] = 0] = Passed(r, (m - 1) + 1)
      BY <3>1, OneMorePassed
    <3> QED
      BY <2>1, <3>1, <3>2, <3>3, <3>4
  <2> QED
    BY <2>3, <2>4
<1> QED
  BY <1>4 DEF bits

\* The loop stops where the closed form says, with the bits it says.
LEMMA LoopIsSweep ==
    ASSUME NEW r \in ReplaceType, r.policy = "CLOCK", NEW m
    PROVE  Replace_getPageToEvict(r, m) = {[ppn |-> ClockLoop(r).hand, rep |-> ClockLoop(r)]}
PROOF
<1> DEFINE N == MemSize
           Stops(n) == BitsAfter(r)[n][HandAfter(r, n)] # 1
           stops == {n \in 0 .. N : Stops(n)}
           turns == Min(stops)
           stop == SweepStop(r)
<1>0. N \in Nat \ {0} /\ r.hand \in Frames /\ r.refbit \in [Frames -> {0, 1, Garbage}]
  BY MemoryAssumption DEF ReplaceType
<1>1. ASSUME NEW n \in 0 .. N - 1
      PROVE  Stops(n) <=> HandAfter(r, n) \in Unset(r)
  <2>1. n \in Nat /\ n < N
    BY <1>0
  <2>2. BitsAfter(r)[n] = Passed(r, n)
    BY <2>1, BitsAfterPassed
  <2>3. HandAfter(r, n) \in Frames /\ Distance(r, HandAfter(r, n)) = n
    BY <2>1, HandAfterProperties
  <2>4. ~ (Distance(r, HandAfter(r, n)) < n)
    BY <2>1, <2>3
  <2>5. Passed(r, n)[HandAfter(r, n)] = r.refbit[HandAfter(r, n)]
    BY <2>3, <2>4 DEF Passed
  <2> QED
    BY <2>2, <2>3, <2>5 DEF Unset
<1>2. Stops(N) /\ HandAfter(r, N) = r.hand
  <2>1. HandAfter(r, N) = r.hand
    BY <1>0, HandAfterProperties
  <2>2. Distance(r, r.hand) < N
    BY <1>0, DistanceProperties
  <2>3. Passed(r, N)[r.hand] = 0
    BY <1>0, <2>2 DEF Passed
  <2>4. BitsAfter(r)[N] = Passed(r, N)
    BY <1>0, BitsAfterPassed
  <2> QED
    BY <2>1, <2>3, <2>4
<1>3. turns \in stops /\ \A n \in stops : turns <= n
  <2>1. stops \in SUBSET Nat /\ N \in stops
    BY <1>0, <1>2
  <2> HIDE DEF stops
  <2> QED
    BY <2>1, MinNat
<1>4. /\ HandAfter(r, turns) = stop
      /\ \A f \in Frames : Distance(r, f) < turns <=> f \in Swept(r)
  <2>1. CASE Unset(r) = {}
    <3>1. turns = N
      <4>1. turns \in 0 .. N /\ Stops(turns)
        BY <1>3
      <4> HIDE DEF turns, Stops
      <4> QED
        BY <1>0, <1>1, <2>1, <4>1
    <3>2. stop = r.hand /\ Swept(r) = Frames
      BY <2>1 DEF SweepStop, Swept
    <3>3. \A f \in Frames : Distance(r, f) < N
      BY <1>0, DistanceProperties
    <3> HIDE DEF turns
    <3> QED
      BY <1>2, <3>1, <3>2, <3>3
  <2>2. CASE Unset(r) # {}
    <3> DEFINE d == Distance(r, stop)
    <3>1. /\ stop \in Frames /\ stop \in Unset(r)
          /\ \A g \in Unset(r) : d <= Distance(r, g)
      BY <2>2, SweepStopProperties
    <3>2. d \in 0 .. N - 1
      BY <3>1, DistanceProperties
    <3>3. HandAfter(r, d) = stop
      <4>1. d \in Nat /\ d < N
        BY <1>0, <3>2
      <4> HIDE DEF d
      <4>2. HandAfter(r, d) \in Frames /\ Distance(r, HandAfter(r, d)) = d
        BY <4>1, HandAfterProperties
      <4>3. Distance(r, HandAfter(r, d)) = Distance(r, stop)
        BY <4>2 DEF d
      <4> HIDE DEF stop
      <4> QED
        BY <3>1, <4>2, <4>3, DistanceProperties
    <3> HIDE DEF d
    <3>4. d \in stops
      BY <1>0, <1>1, <3>1, <3>2, <3>3
    <3>5. \A n \in stops : d <= n
      <4> TAKE n \in stops
      <4>1. n \in 0 .. N /\ Stops(n)
        OBVIOUS
      <4> HIDE DEF Stops
      <4>2. CASE n = N
        BY <1>0, <3>2, <4>2
      <4>3. CASE n # N
        <5>1. n \in 0 .. N - 1 /\ n \in Nat /\ n < N
          BY <1>0, <4>1, <4>3
        <5>2. HandAfter(r, n) \in Unset(r) /\ Distance(r, HandAfter(r, n)) = n
          BY <1>1, <4>1, <5>1, HandAfterProperties
        <5> QED
          BY <3>1, <5>2
      <4> QED
        BY <4>2, <4>3
    <3>6. turns = d
      <4>1. turns \in 0 .. N /\ d \in 0 .. N /\ turns <= d /\ d <= turns
        BY <1>0, <1>3, <3>2, <3>4, <3>5
      <4> HIDE DEF turns
      <4> QED
        BY <1>0, <4>1
    <3>7. Swept(r) = {f \in Frames : Distance(r, f) < d}
      BY <2>2 DEF Swept, d
    <3> HIDE DEF turns
    <3> QED
      BY <3>3, <3>6, <3>7
  <2> QED
    BY <2>1, <2>2
<1> DEFINE cleared == [f \in Frames |-> IF f \in Swept(r) THEN 0 ELSE r.refbit[f]]
           r2 == [r EXCEPT !.hand = stop, !.refbit = cleared]
<1>5. BitsAfter(r)[turns] = cleared
  <2>1. turns \in Nat
    BY <1>0, <1>3
  <2>2. BitsAfter(r)[turns] = Passed(r, turns)
    <3> HIDE DEF turns
    <3> QED
      BY <2>1, BitsAfterPassed
  <2> HIDE DEF turns
  <2> QED
    BY <1>4, <2>2 DEF Passed
<1>6. ClockLoop(r) = r2
  <2>1. ClockLoop(r) = [r EXCEPT !.hand = HandAfter(r, turns), !.refbit = BitsAfter(r)[turns]]
    BY DEF ClockLoop
  <2> HIDE DEF turns, cleared, stop
  <2> QED
    BY <1>4, <1>5, <2>1
<1>7. Replace_getPageToEvict(r, m) = {[ppn |-> stop, rep |-> r2]}
  BY DEF Replace_getPageToEvict, KeepsQueue
<1>8. r2.hand = stop
  BY DEF ReplaceType
<1> QED
  BY <1>6, <1>7, <1>8

\* The closed form of Clock's sweep in Replace, which paging rests on, is the loop
\* of replace-clock.c:84-88, in every state the program can be in.
THEOREM SweepFollowsLoop == RecencySpec => []SweepIsLoop
PROOF
<1>1. PagingInv => SweepIsLoop
  BY InvParts, LoopIsSweep DEF SweepIsLoop, Serves
<1>2. RecencyInit => PagingInv
  BY InitInv DEF RecencyInit
<1>3. PagingInv /\ [RecencyNext]_recencyVars => PagingInv'
  <2>1. [RecencyNext]_recencyVars => [PagingNext]_pagingVars
    BY DEF RecencyNext, PagingNext, recencyVars
  <2> QED
    BY <2>1, StepKeepsInv
<1> QED
  BY <1>1, <1>2, <1>3, PTL DEF RecencySpec

-----------------------------------------------------------------------------
\* The evictions that the page in frame f can still live through without a use.
EvictionsLeft(r, f) ==
    LET ahead == Distance(r, f)
    IN  IF r.refbit[f] # 1 THEN ahead - 1
        ELSE IF ahead = 0 THEN MemSize - 1 ELSE MemSize + ahead - 2

\* The strengthening of ClockComesRound: what a page has survived and what it can
\* still survive have a bound, and the hand never rests at a bit that is 0.
SecondChance ==
    /\ survived \in [VPages -> Nat]
    /\ rep.policy # "CLOCK" => \A v \in VPages : survived[v] = 0
    /\ rep.policy = "CLOCK" /\ MemSize > 1 =>
          /\ rep.refbit[rep.hand] # 0
          /\ \A v \in mem.inMemory :
                survived[v] + EvictionsLeft(rep, mem.currentPPN[v]) <= 2 * MemSize - 3

\* A page just used has all of its evictions ahead, wherever the hand is.
LEMMA UsedPage ==
    ASSUME NEW r \in ReplaceType, NEW f \in Frames, r.refbit[f] = 1, MemSize > 1
    PROVE  EvictionsLeft(r, f) \in Nat /\ EvictionsLeft(r, f) <= 2 * MemSize - 3
PROOF
<1>1. Distance(r, f) \in 0 .. MemSize - 1
  BY DistanceProperties
<1> QED
  BY <1>1, MemoryAssumption DEF EvictionsLeft

\* A sweep from a bit that is 1 takes one from what any other page has left: a
\* page it passes loses its bit, and for the others the hand is nearer.
LEMMA SweepTakesOne ==
    ASSUME MemSize > 1,
           NEW r \in ReplaceType, r.refbit[r.hand] = 1,
           NEW r2 \in ReplaceType,
           r2.hand = SweepStop(r),
           NEW f \in Frames, f # SweepStop(r),
           r2.refbit[f] = (IF f \in Swept(r) THEN 0 ELSE r.refbit[f])
    PROVE  EvictionsLeft(r2, f) + 1 <= EvictionsLeft(r, f)
PROOF
<1> DEFINE N  == MemSize
           h  == r.hand
           s  == SweepStop(r)
           d  == Distance(r, f)
           d2 == Distance(r2, f)
           m  == Distance(r, s)
<1>1. N \in Nat /\ N > 1 /\ h \in 0 .. N - 1 /\ s \in 0 .. N - 1 /\ f \in 0 .. N - 1
  BY MemoryAssumption, SweepStopProperties DEF ReplaceType, Frames
<1>2. /\ d  = IF f >= h THEN f - h ELSE f - h + N
      /\ m  = IF s >= h THEN s - h ELSE s - h + N
      /\ d2 = IF f >= s THEN f - s ELSE f - s + N
  BY DistanceProperties, SweepStopProperties
<1>3. f # s
  OBVIOUS
<1>4. CASE Unset(r) = {}
  <2>1. s = h
    BY <1>4 DEF SweepStop
  <2>2. f \in Swept(r) /\ r.refbit[f] = 1
    BY <1>4 DEF Swept, Unset
  <2>3. EvictionsLeft(r2, f) = d2 - 1
    BY <2>2 DEF EvictionsLeft
  <2> HIDE DEF N, h, s, d2
  <2>4. d2 = d /\ d > 0
    <3> HIDE DEF d
    <3> QED
      BY <1>1, <1>2, <1>3, <2>1
  <2>5. EvictionsLeft(r, f) = N + d - 2
    BY <2>2, <2>4 DEF EvictionsLeft, N
  <2> HIDE DEF d
  <2> QED
    BY <1>1, <1>2, <2>3, <2>4, <2>5
<1>5. CASE Unset(r) # {}
  <2>1. s \in Unset(r) /\ \A g \in Unset(r) : m <= Distance(r, g)
    BY <1>5, SweepStopProperties
  <2>2. s # h
    BY <2>1 DEF Unset
  <2>3. f \in Swept(r) <=> d < m
    BY <1>5 DEF Swept
  <2>4. f \in Unset(r) => m <= d
    BY <2>1
  <2>5. r.refbit[f] # 1 <=> f \in Unset(r)
    BY DEF Unset
  <2>6. /\ EvictionsLeft(r, f) = IF r.refbit[f] # 1 THEN d - 1
                                 ELSE IF d = 0 THEN N - 1 ELSE N + d - 2
        /\ EvictionsLeft(r2, f) = IF r2.refbit[f] # 1 THEN d2 - 1
                                  ELSE IF d2 = 0 THEN N - 1 ELSE N + d2 - 2
    BY DEF EvictionsLeft
  <2> HIDE DEF N, h, s, d, d2, m
  <2>7. /\ m \in 1 .. N - 1 /\ d \in 0 .. N - 1 /\ d # m
        /\ d2 = IF d < m THEN d - m + N ELSE d - m
    BY <1>1, <1>2, <1>3, <2>2
  <2>8. CASE d < m
    <3>1. r.refbit[f] = 1 /\ r2.refbit[f] # 1
      BY <2>3, <2>4, <2>5, <2>7, <2>8
    <3> QED
      BY <1>1, <2>6, <2>7, <2>8, <3>1
  <2>9. CASE ~ (d < m)
    <3>1. r2.refbit[f] = r.refbit[f]
      BY <2>3, <2>9
    <3> QED
      BY <1>1, <2>6, <2>7, <2>9, <3>1
  <2> QED
    BY <2>8, <2>9
<1> QED
  BY <1>4, <1>5

LEMMA SameLeft ==
    ASSUME NEW r, NEW r2, NEW f, r2.hand = r.hand, r2.refbit[f] = r.refbit[f]
    PROVE  EvictionsLeft(r2, f) = EvictionsLeft(r, f)
BY DEF EvictionsLeft, Distance

\* Clock's bit of a page that is used or comes in, the others being left.
LEMMA UseSetsBit ==
    ASSUME NEW r \in ReplaceType, NEW f \in Frames
    PROVE  LET r2 == [r EXCEPT !.refbit[f] = 1]
           IN  /\ r2.hand = r.hand /\ r2.policy = r.policy
               /\ r2.refbit[f] = 1
               /\ \A g \in Frames \ {f} : r2.refbit[g] = r.refbit[g]
BY DEF ReplaceType

\* Clock's bits and hand when the disk answers: the page comes into a free frame
\* of a memory that is not full, or into the one where the hand stops.
LEMMA ClockLoadEffect ==
    ASSUME PagingInv, rep.policy = "CLOCK", NEW v \in VPages, v \notin mem.inMemory,
           LoadIntoFreePage(v) \/ LoadByEvicting(v)
    PROVE  \E f \in Frames, r2 \in ReplaceType :
              /\ mem'.currentPPN = [mem.currentPPN EXCEPT ![v] = f]
              /\ rep' = [r2 EXCEPT !.refbit[f] = 1]
              /\ \/ /\ r2 = rep
                    /\ mem.frames[f] = NoPage
                    /\ mem'.inMemory = mem.inMemory \cup {v}
                 \/ /\ f = SweepStop(rep) /\ r2.hand = f
                    /\ \A g \in Frames :
                          r2.refbit[g] = IF g \in Swept(rep) THEN 0 ELSE rep.refbit[g]
                    /\ TakenFrames(mem) = Frames
                    /\ mem'.inMemory = (mem.inMemory \ {mem.frames[f]}) \cup {v}
PROOF
<1>0. rep \in ReplaceType /\ Serves(rep, mem)
  BY InvParts DEF Serves
<1>1. CASE LoadIntoFreePage(v)
  <2> DEFINE f == Memory_getFreePage(mem)
  <2>1. /\ CanFindFreePage(mem)
        /\ mem' = Memory_loadPage(mem, v, f)
        /\ rep' = Replace_notifyPageLoad(rep, mem', v)
    BY <1>1 DEF LoadIntoFreePage
  <2>2. f \in Frames /\ bv_ind(f) \in Words /\ mem.frames[f] = NoPage
    BY <2>1, InvParts, FoundPageIsFree
  <2> HIDE DEF f
  <2>3. mem'.inMemory = mem.inMemory \cup {v} /\ mem'.currentPPN[v] = f
    BY <2>1, <2>2, InvParts, LoadKeepsMemory
  <2>4. mem'.currentPPN = [mem.currentPPN EXCEPT ![v] = f]
    BY <2>1, <2>2, InvParts, LoadMovesOnePage
  <2>5. rep' = [rep EXCEPT !.refbit[f] = 1]
    BY <2>1, <2>3 DEF Replace_notifyPageLoad, Replace_notifyPageAccess, KeepsQueue
  <2> QED
    BY <1>0, <2>2, <2>3, <2>4, <2>5
<1>2. CASE LoadByEvicting(v)
  <2> DEFINE f  == SweepStop(rep)
             b  == [g \in Frames |-> IF g \in Swept(rep) THEN 0 ELSE rep.refbit[g]]
             r2 == [rep EXCEPT !.hand = f, !.refbit = b]
             m1 == Memory_evictPage(mem, f)
  <2>1. /\ mem' = Memory_loadPage(m1, v, f)
        /\ rep' = Replace_notifyPageLoad(r2, mem', v)
    <3>1. PICK victim \in Replace_getPageToEvict(rep, mem) :
            /\ mem' = Memory_loadPage(Memory_evictPage(mem, victim.ppn), v, victim.ppn)
            /\ rep' = Replace_notifyPageLoad(victim.rep, mem', v)
      BY <1>2 DEF LoadByEvicting
    <3>2. victim = [ppn |-> f, rep |-> r2]
      BY DEF Replace_getPageToEvict, KeepsQueue
    <3>3. victim.ppn = f /\ victim.rep = r2
      <4> HIDE DEF f, r2
      <4> QED
        BY <3>2
    <3> QED
      BY <3>1, <3>3
  <2>2. TakenFrames(mem) = Frames
    BY <1>2, InvParts, FullMemory DEF LoadByEvicting
  <2>3. f \in Frames
    BY <1>0, SweepStopProperties
  <2>4. b \in [Frames -> {0, 1, Garbage}]
    BY <1>0 DEF ReplaceType
  <2>5. \A g \in Frames : b[g] = IF g \in Swept(rep) THEN 0 ELSE rep.refbit[g]
    OBVIOUS
  <2> HIDE DEF f, b
  <2>6. r2 \in ReplaceType /\ r2.hand = f /\ r2.refbit = b /\ r2.policy = "CLOCK"
    BY <1>0, <2>3, <2>4 DEF ReplaceType
  <2> HIDE DEF r2
  <2>7. mem.frames[f] # NoPage
    BY <2>2, <2>3 DEF TakenFrames
  <2>8. /\ m1 \in MemoryType /\ MapsAgree(m1) /\ FreeListAgrees(m1)
        /\ m1.inMemory = mem.inMemory \ {mem.frames[f]}
        /\ m1.frames[f] = NoPage
        /\ m1.currentPPN = mem.currentPPN
        /\ bv_ind(f) \in Words
    BY <2>3, <2>7, InvParts, EvictKeepsMemory
  <2> HIDE DEF m1
  <2>9. v \notin m1.inMemory
    BY <2>8
  <2>10. mem'.inMemory = m1.inMemory \cup {v} /\ mem'.currentPPN[v] = f
    BY <2>1, <2>3, <2>8, <2>9, LoadKeepsMemory
  <2>11. mem'.currentPPN = [mem.currentPPN EXCEPT ![v] = f]
    BY <2>1, <2>3, <2>8, LoadMovesOnePage
  <2>12. rep' = [r2 EXCEPT !.refbit[f] = 1]
    BY <2>1, <2>6, <2>10 DEF Replace_notifyPageLoad, Replace_notifyPageAccess, KeepsQueue
  <2>13. f = SweepStop(rep)
    BY DEF f
  <2>14. \A g \in Frames : r2.refbit[g] = IF g \in Swept(rep) THEN 0 ELSE rep.refbit[g]
    BY <2>5, <2>6
  <2>15. mem'.inMemory = (mem.inMemory \ {mem.frames[f]}) \cup {v}
    BY <2>8, <2>10
  <2> QED
    BY <2>2, <2>3, <2>6, <2>11, <2>12, <2>13, <2>14, <2>15
<1> QED
  BY <1>1, <1>2

\* The pages in memory are in frames, no two in one.
LEMMA FrameOfPage ==
    ASSUME PagingInv, NEW u \in mem.inMemory
    PROVE  /\ u \in VPages
           /\ mem.currentPPN[u] \in Frames
           /\ mem.frames[mem.currentPPN[u]] = u
           /\ u # NoPage
BY InvParts, MemoryAssumption DEF MapsAgree, MemoryType

\* A page that comes in has both chances ahead; the others keep theirs, or have
\* survived one eviction more and have one less ahead.
LEMMA LoadKeepsSecondChance ==
    ASSUME PagingInv, SecondChance, NEW v \in VPages, v \notin mem.inMemory,
           LoadIntoFreePage(v) \/ LoadByEvicting(v), LoadHistory(v)
    PROVE  SecondChance'
PROOF
<1> DEFINE evicted == mem.inMemory \ mem'.inMemory
           n == Cardinality(evicted)
<1>1. survived' = [u \in VPages |->
          CASE rep.policy # "CLOCK" \/ u = v \/ u \notin mem'.inMemory -> 0
            [] OTHER -> survived[u] + n]
  BY DEF LoadHistory
<1>2. rep'.policy = rep.policy
  BY LoadEffect
<1>3. n \in {0, 1}
  <2>1. evicted = {} \/ \E out : evicted = {out}
    <3>1. \/ mem'.inMemory = mem.inMemory \cup {v}
          \/ \E out \in mem.inMemory : mem'.inMemory = (mem.inMemory \ {out}) \cup {v}
      BY LoadEffect
    <3>2. CASE mem'.inMemory = mem.inMemory \cup {v}
      BY <3>2
    <3>3. ASSUME NEW out \in mem.inMemory, mem'.inMemory = (mem.inMemory \ {out}) \cup {v}
          PROVE  evicted = {out}
      BY <3>3
    <3> QED
      BY <3>1, <3>2, <3>3
  <2> HIDE DEF evicted
  <2> QED
    BY <2>1, FS_EmptySet, FS_Singleton
<1>4. survived \in [VPages -> Nat]
  BY DEF SecondChance
<1> HIDE DEF n
<1>5. survived' \in [VPages -> Nat]
  <2>1. \A u \in VPages : survived[u] + n \in Nat
    BY <1>3, <1>4
  <2>2. \A u \in VPages :
           (CASE rep.policy # "CLOCK" \/ u = v \/ u \notin mem'.inMemory -> 0
              [] OTHER -> survived[u] + n) \in Nat
    BY <2>1
  <2> QED
    BY <1>1, <2>2
<1>6. CASE rep.policy # "CLOCK"
  BY <1>1, <1>2, <1>5, <1>6 DEF SecondChance
<1>7. CASE rep.policy = "CLOCK" /\ ~ (MemSize > 1)
  BY <1>2, <1>5, <1>7 DEF SecondChance
<1>8. CASE rep.policy = "CLOCK" /\ MemSize > 1
  <2>0. /\ rep \in ReplaceType /\ BitsKnown(rep, mem)
        /\ rep.refbit[rep.hand] # 0
        /\ \A u \in mem.inMemory :
              survived[u] + EvictionsLeft(rep, mem.currentPPN[u]) <= 2 * MemSize - 3
    BY <1>8, InvParts DEF SecondChance, Serves
  <2>1. PICK f \in Frames, r2 \in ReplaceType :
          /\ mem'.currentPPN = [mem.currentPPN EXCEPT ![v] = f]
          /\ rep' = [r2 EXCEPT !.refbit[f] = 1]
          /\ \/ /\ r2 = rep
                /\ mem.frames[f] = NoPage
                /\ mem'.inMemory = mem.inMemory \cup {v}
             \/ /\ f = SweepStop(rep) /\ r2.hand = f
                /\ \A g \in Frames :
                      r2.refbit[g] = IF g \in Swept(rep) THEN 0 ELSE rep.refbit[g]
                /\ TakenFrames(mem) = Frames
                /\ mem'.inMemory = (mem.inMemory \ {mem.frames[f]}) \cup {v}
    BY <1>8, ClockLoadEffect
  <2>2. /\ rep'.hand = r2.hand
        /\ rep'.refbit[f] = 1
        /\ \A g \in Frames \ {f} : rep'.refbit[g] = r2.refbit[g]
    BY <2>1, UseSetsBit
  <2>3. mem.currentPPN \in [VPages -> Frames \cup {Garbage}] /\ mem.inMemory \subseteq VPages
    BY InvParts DEF MemoryType
  <2>4. /\ mem'.currentPPN[v] = f
        /\ \A u \in VPages \ {v} : mem'.currentPPN[u] = mem.currentPPN[u]
    BY <2>1, <2>3
  <2>5. rep' \in ReplaceType
    BY LoadKeepsParts DEF Serves
  <2>6. survived'[v] = 0
    BY <1>1
  <2>7. survived'[v] + EvictionsLeft(rep', mem'.currentPPN[v]) <= 2 * MemSize - 3
    <3>1. /\ EvictionsLeft(rep', f) \in Nat
          /\ EvictionsLeft(rep', f) <= 2 * MemSize - 3
      BY <1>8, <2>2, <2>5, UsedPage
    <3> HIDE DEF EvictionsLeft
    <3> QED
      BY <2>4, <2>6, <3>1
  <2>8. rep'.refbit[rep'.hand] # 0
        /\ \A u \in mem'.inMemory \ {v} :
              survived'[u] + EvictionsLeft(rep', mem'.currentPPN[u]) <= 2 * MemSize - 3
    <3>1. ASSUME NEW u \in mem.inMemory, u \in mem'.inMemory, u # v
          PROVE  /\ survived'[u] = survived[u] + n
                 /\ mem'.currentPPN[u] = mem.currentPPN[u]
                 /\ mem.currentPPN[u] \in Frames
                 /\ mem.frames[mem.currentPPN[u]] = u /\ u # NoPage
                 /\ survived[u] \in Nat
      BY <1>1, <1>4, <1>8, <2>3, <2>4, <3>1, FrameOfPage
    <3>2. CASE /\ r2 = rep
               /\ mem.frames[f] = NoPage
               /\ mem'.inMemory = mem.inMemory \cup {v}
      <4>1. n = 0
        <5>1. evicted = {}
          BY <3>2
        <5> HIDE DEF evicted
        <5> QED
          BY <5>1, FS_EmptySet DEF n
      <4>2. rep'.refbit[rep'.hand] # 0
        <5>1. rep.hand \in Frames
          BY <2>0 DEF ReplaceType
        <5> QED
          BY <2>0, <2>2, <3>2, <5>1
      <4>3. ASSUME NEW u \in mem'.inMemory \ {v}
            PROVE  survived'[u] + EvictionsLeft(rep', mem'.currentPPN[u]) <= 2 * MemSize - 3
        <5>1. u \in mem.inMemory
          BY <3>2
        <5> DEFINE c == mem.currentPPN[u]
        <5>2. /\ survived'[u] = survived[u] /\ mem'.currentPPN[u] = c
              /\ c \in Frames \ {f}
          BY <3>1, <3>2, <4>1, <5>1
        <5>3. rep'.refbit[c] = rep.refbit[c] /\ rep'.hand = rep.hand
          BY <2>2, <3>2, <5>2
        <5>4. EvictionsLeft(rep', c) = EvictionsLeft(rep, c)
          BY <5>3, SameLeft
        <5> QED
          BY <2>0, <5>1, <5>2, <5>4
      <4> QED
        BY <4>2, <4>3
    <3>3. CASE /\ f = SweepStop(rep) /\ r2.hand = f
               /\ \A g \in Frames :
                     r2.refbit[g] = IF g \in Swept(rep) THEN 0 ELSE rep.refbit[g]
               /\ TakenFrames(mem) = Frames
               /\ mem'.inMemory = (mem.inMemory \ {mem.frames[f]}) \cup {v}
      <4>1. mem.frames[f] \in mem.inMemory
        BY <3>3, InvParts DEF MapsAgree, TakenFrames
      <4>2. n = 1
        <5>1. evicted = {mem.frames[f]}
          BY <3>3, <4>1
        <5> HIDE DEF evicted
        <5> QED
          BY <5>1, FS_Singleton DEF n
      <4>3. rep.refbit[rep.hand] = 1
        <5>1. rep.hand \in Frames /\ rep.refbit[rep.hand] \in {0, 1, Garbage}
          BY <2>0 DEF ReplaceType
        <5>2. rep.refbit[rep.hand] # Garbage
          BY <1>8, <2>0, <3>3, <5>1 DEF BitsKnown
        <5> QED
          BY <2>0, <5>1, <5>2
      <4>4. ASSUME NEW u \in mem'.inMemory \ {v}
            PROVE  survived'[u] + EvictionsLeft(rep', mem'.currentPPN[u]) <= 2 * MemSize - 3
        <5>1. u \in mem.inMemory /\ u # mem.frames[f]
          BY <3>3
        <5> DEFINE c == mem.currentPPN[u]
        <5>2. /\ survived'[u] = survived[u] + 1 /\ mem'.currentPPN[u] = c
              /\ c \in Frames /\ c # f /\ survived[u] \in Nat
          BY <3>1, <4>2, <5>1
        <5> HIDE DEF c
        <5>3. EvictionsLeft(r2, c) + 1 <= EvictionsLeft(rep, c)
          BY <1>8, <2>0, <3>3, <4>3, <5>2, SweepTakesOne
        <5>4. rep'.refbit[c] = r2.refbit[c] /\ rep'.hand = r2.hand
          BY <2>2, <5>2
        <5>5. EvictionsLeft(rep', c) = EvictionsLeft(r2, c)
          BY <5>4, SameLeft
        <5>6. survived[u] + EvictionsLeft(rep, c) <= 2 * MemSize - 3
          BY <2>0, <5>1 DEF c
        <5>7. EvictionsLeft(rep, c) \in Int /\ EvictionsLeft(r2, c) \in Int /\ MemSize \in Int
          <6>1. Distance(rep, c) \in Int /\ Distance(r2, c) \in Int /\ MemSize \in Int
            BY <2>0, <5>2, MemoryAssumption, DistanceProperties
          <6> QED
            BY <6>1 DEF EvictionsLeft
        <5> QED
          BY <5>2, <5>3, <5>5, <5>6, <5>7
      <4>5. rep'.refbit[rep'.hand] # 0
        BY <2>2, <3>3
      <4> QED
        BY <4>4, <4>5
    <3> QED
      BY <2>1, <3>2, <3>3
  <2>9. \A u \in mem'.inMemory :
            survived'[u] + EvictionsLeft(rep', mem'.currentPPN[u]) <= 2 * MemSize - 3
    BY <2>7, <2>8
  <2> QED
    BY <1>2, <1>5, <1>8, <2>8, <2>9 DEF SecondChance
<1> QED
  BY <1>6, <1>7, <1>8

\* A hit gives a page both chances back.
LEMMA HitKeepsSecondChance ==
    ASSUME PagingInv, SecondChance, NEW v \in VPages, ReferenceHits(v), HitHistory(v)
    PROVE  SecondChance'
PROOF
<1>1. /\ v \in mem.inMemory /\ mem' = mem
      /\ rep' = Replace_notifyPageAccess(rep, mem, v)
      /\ survived' = [survived EXCEPT ![v] = 0]
  BY DEF ReferenceHits, Process_virtualPageInMemory, HitHistory
<1>2. rep \in ReplaceType /\ survived \in [VPages -> Nat]
  BY InvParts DEF Serves, SecondChance
<1>3. survived' \in [VPages -> Nat] /\ survived'[v] = 0
      /\ \A u \in VPages \ {v} : survived'[u] = survived[u]
  BY <1>1, <1>2
<1>4. rep'.policy = rep.policy
  BY <1>1, <1>2, AccessOrder
<1>5. CASE rep.policy # "CLOCK"
  BY <1>3, <1>4, <1>5 DEF SecondChance
<1>6. CASE rep.policy = "CLOCK" /\ ~ (MemSize > 1)
  BY <1>3, <1>4, <1>6 DEF SecondChance
<1>7. CASE rep.policy = "CLOCK" /\ MemSize > 1
  <2> DEFINE f == mem.currentPPN[v]
  <2>1. f \in Frames /\ mem.frames[f] = v
    BY <1>1, FrameOfPage
  <2>2. rep' = [rep EXCEPT !.refbit[f] = 1]
    BY <1>1, <1>7 DEF Replace_notifyPageAccess
  <2> HIDE DEF f
  <2>3. /\ rep'.hand = rep.hand /\ rep'.refbit[f] = 1
        /\ \A g \in Frames \ {f} : rep'.refbit[g] = rep.refbit[g]
    BY <1>2, <2>1, <2>2, UseSetsBit
  <2>4. rep' \in ReplaceType
    BY <1>2, <2>1, <2>2 DEF ReplaceType
  <2>5. rep.refbit[rep.hand] # 0 /\ rep.hand \in Frames
    BY <1>2, <1>7 DEF SecondChance, ReplaceType
  <2>6. rep'.refbit[rep'.hand] # 0
    BY <2>3, <2>5
  <2>7. ASSUME NEW u \in mem.inMemory
        PROVE  survived'[u] + EvictionsLeft(rep', mem.currentPPN[u]) <= 2 * MemSize - 3
    <3>1. CASE u = v
      <4>1. EvictionsLeft(rep', f) \in Nat /\ EvictionsLeft(rep', f) <= 2 * MemSize - 3
        BY <1>7, <2>1, <2>3, <2>4, UsedPage
      <4> HIDE DEF EvictionsLeft
      <4> QED
        BY <1>3, <3>1, <4>1 DEF f
    <3>2. CASE u # v
      <4> DEFINE c == mem.currentPPN[u]
      <4>1. u \in VPages /\ c \in Frames /\ mem.frames[c] = u
        BY FrameOfPage
      <4>2. c # f
        BY <2>1, <3>2, <4>1
      <4>3. EvictionsLeft(rep', c) = EvictionsLeft(rep, c)
        BY <2>3, <4>1, <4>2, SameLeft
      <4>4. survived[u] + EvictionsLeft(rep, c) <= 2 * MemSize - 3
        BY <1>7 DEF SecondChance
      <4> QED
        BY <1>3, <3>2, <4>1, <4>3, <4>4
    <3> QED
      BY <3>1, <3>2
  <2> QED
    BY <1>1, <1>3, <1>4, <1>7, <2>6, <2>7 DEF SecondChance
<1> QED
  BY <1>5, <1>6, <1>7

\* A page that is destroyed leaves the others their chances.
LEMMA DestroyKeepsSecondChance ==
    ASSUME PagingInv, SecondChance, NEW v \in VPages, DestroyVPage(v), DestroyHistory(v)
    PROVE  SecondChance'
PROOF
<1>1. /\ mem' = VPage_free(mem, v) /\ rep' = Replace_freeOverhead(rep, v)
      /\ survived' = [survived EXCEPT ![v] = 0]
  BY DEF DestroyVPage, DestroyHistory
<1>2. rep \in ReplaceType /\ survived \in [VPages -> Nat]
  BY InvParts DEF Serves, SecondChance
<1>3. survived' \in [VPages -> Nat] /\ survived'[v] = 0
      /\ \A u \in VPages \ {v} : survived'[u] = survived[u]
  BY <1>1, <1>2
<1>4. rep'.policy = rep.policy
  BY <1>1, <1>2, FreeOrder
<1>5. CASE rep.policy # "CLOCK"
  BY <1>3, <1>4, <1>5 DEF SecondChance
<1>6. CASE rep.policy = "CLOCK" /\ ~ (MemSize > 1)
  BY <1>3, <1>4, <1>6 DEF SecondChance
<1>7. CASE rep.policy = "CLOCK" /\ MemSize > 1
  <2>1. rep' = rep
    BY <1>1, <1>7 DEF Replace_freeOverhead, KeepsQueue
  <2>2. /\ mem'.inMemory = mem.inMemory \ {v}
        /\ \A u \in VPages \ {v} : mem'.currentPPN[u] = mem.currentPPN[u]
    BY <1>1, InvParts, FreeKeepsMemory
  <2>3. rep.refbit[rep.hand] # 0
    BY <1>7 DEF SecondChance
  <2>4. ASSUME NEW u \in mem'.inMemory
        PROVE  survived'[u] + EvictionsLeft(rep, mem'.currentPPN[u]) <= 2 * MemSize - 3
    <3>1. u \in mem.inMemory /\ u \in VPages /\ u # v
      BY <2>2, FrameOfPage
    <3>2. survived[u] + EvictionsLeft(rep, mem.currentPPN[u]) <= 2 * MemSize - 3
      BY <1>7, <3>1 DEF SecondChance
    <3> QED
      BY <1>3, <2>2, <3>1, <3>2
  <2> QED
    BY <1>3, <1>7, <2>1, <2>3, <2>4 DEF SecondChance
<1> QED
  BY <1>5, <1>6, <1>7

LEMMA StepKeepsSecondChance ==
    PagingInv /\ SecondChance /\ [RecencyNext]_recencyVars => SecondChance'
PROOF
<1> SUFFICES ASSUME PagingInv, SecondChance, [RecencyNext]_recencyVars PROVE SecondChance'
  OBVIOUS
<1>1. ASSUME NEW v \in VPages, Hit(v) \/ HitAndFinish(v), HitHistory(v)
      PROVE  SecondChance'
  <2>1. ReferenceHits(v)
    BY <1>1 DEF Hit, HitAndFinish
  <2> QED
    BY <1>1, <2>1, HitKeepsSecondChance
<1>2. ASSUME rep' = rep, mem' = mem, survived' = survived PROVE SecondChance'
  BY <1>2 DEF SecondChance
<1>3. ASSUME NEW v \in VPages, Miss(v), UNCHANGED <<older, survived>> PROVE SecondChance'
  BY <1>2, <1>3 DEF Miss, ReferenceMisses
<1>4. ASSUME NEW v \in VPages, DestroyVPage(v), DestroyHistory(v) PROVE SecondChance'
  BY <1>4, DestroyKeepsSecondChance
<1>5. ASSUME NEW p \in Pids, FinishDiskIO(p), LoadHistory(waitingOnPage[p])
      PROVE  SecondChance'
  <2> DEFINE v == waitingOnPage[p]
  <2>1. status[p] = "BLOCKED" /\ (LoadIntoFreePage(v) \/ LoadByEvicting(v))
    BY <1>5 DEF FinishDiskIO, Simulator_finishCurrentDiskIO
  <2>2. v \in VPages /\ v \notin mem.inMemory /\ LoadHistory(v)
    BY <1>5, <2>1, InvParts DEF BlockedPageAbsent
  <2> HIDE DEF v
  <2> QED
    BY <2>1, <2>2, LoadKeepsSecondChance
<1>6. ASSUME UNCHANGED recencyVars PROVE SecondChance'
  BY <1>2, <1>6 DEF recencyVars, pagingVars
<1> QED
  BY <1>1, <1>3, <1>4, <1>5, <1>6 DEF RecencyNext

\* Clock evicts a page that nobody uses before the hand has come round twice,
\* for every memory of more than one frame (replace-clock.c:80-90).
THEOREM ClockGivesOneSecondChance == RecencySpec => []ClockComesRound
PROOF
<1>1. RecencyInit => PagingInv /\ SecondChance
  <2> SUFFICES ASSUME RecencyInit PROVE PagingInv /\ SecondChance
    OBVIOUS
  <2>1. PagingInv
    BY InitInv DEF RecencyInit
  <2>2. PICK policy \in Policies : rep = Replace_initReplacementModule(policy)
    BY DEF RecencyInit, PagingInit
  <2>3. rep.refbit[rep.hand] # 0
    <3>1. rep.refbit = [f \in Frames |-> Garbage] /\ rep.hand = 0 /\ 0 \in Frames
      BY <2>2, MemoryAssumption DEF Replace_initReplacementModule, Frames
    <3>2. Garbage # 0
      BY MemoryAssumption
    <3> QED
      BY <3>1, <3>2
  <2>4. mem.inMemory = {} /\ survived = [v \in VPages |-> 0]
    BY DEF RecencyInit, PagingInit, Memory_init
  <2>5. survived \in [VPages -> Nat] /\ \A v \in VPages : survived[v] = 0
    BY <2>4
  <2> QED
    BY <2>1, <2>3, <2>4, <2>5 DEF SecondChance
<1>2. PagingInv /\ SecondChance /\ [RecencyNext]_recencyVars => PagingInv' /\ SecondChance'
  <2>1. [RecencyNext]_recencyVars => [PagingNext]_pagingVars
    BY DEF RecencyNext, PagingNext, recencyVars
  <2> QED
    BY <2>1, StepKeepsInv, StepKeepsSecondChance
<1>3. PagingInv /\ SecondChance => ClockComesRound
  <2> SUFFICES ASSUME PagingInv, SecondChance, MemSize > 1, NEW v \in mem.inMemory
               PROVE  survived[v] < 2 * (MemSize - 1)
    BY DEF ClockComesRound
  <2>1. survived[v] \in Nat /\ v \in VPages /\ MemSize \in Nat
    BY FrameOfPage, MemoryAssumption DEF SecondChance
  <2>2. CASE rep.policy # "CLOCK"
    BY <2>1, <2>2 DEF SecondChance
  <2>3. CASE rep.policy = "CLOCK"
    <3> DEFINE f == mem.currentPPN[v]
               d == Distance(rep, f)
    <3>1. f \in Frames /\ mem.frames[f] # NoPage /\ rep \in ReplaceType
      BY FrameOfPage, InvParts DEF Serves
    <3>2. rep.refbit[f] \in {0, 1}
      <4>1. rep.refbit[f] # Garbage
        BY <2>3, <3>1, InvParts DEF Serves, BitsKnown, TakenFrames
      <4> QED
        BY <3>1, <4>1 DEF ReplaceType
    <3>3. d \in 0 .. MemSize - 1
      BY <3>1, DistanceProperties
    <3>4. rep.refbit[f] # 1 => d # 0
      <4>1. rep.hand \in Frames /\ rep.refbit[rep.hand] # 0
        BY <2>3, <3>1 DEF SecondChance, ReplaceType
      <4>2. Distance(rep, rep.hand) = 0
        BY <3>1, <4>1, MemoryAssumption, DistanceProperties DEF Frames
      <4>3. d = 0 => f = rep.hand
        BY <3>1, <4>1, <4>2, DistanceProperties
      <4> HIDE DEF d, f
      <4> QED
        BY <3>2, <4>1, <4>3
    <3>5. survived[v] + EvictionsLeft(rep, f) <= 2 * MemSize - 3
      BY <2>3 DEF SecondChance
    <3>6. EvictionsLeft(rep, f) = IF rep.refbit[f] # 1 THEN d - 1
                                  ELSE IF d = 0 THEN MemSize - 1 ELSE MemSize + d - 2
      BY DEF EvictionsLeft
    <3> HIDE DEF d, f
    <3>7. EvictionsLeft(rep, f) \in Nat
      BY <2>1, <3>3, <3>4, <3>6
    <3> HIDE DEF EvictionsLeft
    <3> QED
      BY <2>1, <3>5, <3>7
  <2> QED
    BY <2>2, <2>3
<1> QED
  BY <1>1, <1>2, <1>3, PTL DEF RecencySpec
=============================================================================
