--------------------------- MODULE SimulatorProofs ---------------------------
(***************************************************************************)
(* The simulation implements paging, and its scheduling and its accounting *)
(* are right, for every trace, every memory and every disk.  SimulatorInv, *)
(* at the end, joins what is invariant.                                    *)
(***************************************************************************)
EXTENDS Simulator, PagingProofs

\* A position to read from, and a line of one of the intervals of p.
IsPlace(p, r) ==
    /\ r.currentPos # 0
    /\ r.currInterval \in 1 .. Len(lineIntervals[p])
    /\ r.currentline \in lineIntervals[p][r.currInterval].low ..
                         lineIntervals[p][r.currInterval].high

\* A process that has not finished is on a line of the interval it is in and
\* has a position to read from; the file has one too.  A process with no line
\* in the trace never runs.
PlacesKnown ==
    /\ lineIntervals = [p \in Pids |-> LineIntervals(trace, p)]
    /\ fpos # 0
    /\ \A p \in Pids : (status[p] = "ABSENT") <=> p \notin PidsOf(trace)
    /\ \A p \in Pids : status[p] \in {"RUNNABLE", "BLOCKED"} => IsPlace(p, proc[p])

\* Who runs, who waits and where each process is.
Scheduling ==
    /\ SimulatorTypeOK
    /\ QueuesMatchStatus
    /\ DiskServesHead
    /\ PlacesKnown

-----------------------------------------------------------------------------
\* The processes of q in the order of their positions, which RunnableSorted
\* says of RUNNABLE.
InOrder(q, procs) ==
    \A i, j \in 1 .. Len(q) : i < j => procs[q[i]].currentPos <= procs[q[j]].currentPos

LEMMA SortedIsInOrder == RunnableSorted <=> InOrder(queue.RUNNABLE, proc)
BY DEF RunnableSorted, InOrder, IsSorted

\* What is inserted at position k moves the elements from there on by one.
LEMMA InsertAtProperties ==
    ASSUME NEW S, NEW q \in Seq(S), NEW k \in 1 .. Len(q) + 1, NEW e \in S
    PROVE  LET r == InsertAt(q, k, e)
           IN  /\ r \in Seq(S)
               /\ Len(r) = Len(q) + 1
               /\ r[k] = e
               /\ \A i \in 1 .. k - 1 : r[i] = q[i]
               /\ \A i \in k + 1 .. Len(q) + 1 : r[i] = q[i - 1]
PROOF
<1> DEFINE a == SubSeq(q, 1, k - 1)
           b == SubSeq(q, k, Len(q))
           ae == a \o <<e>>
           r == ae \o b
<1> SUFFICES /\ r \in Seq(S)
             /\ Len(r) = Len(q) + 1
             /\ r[k] = e
             /\ \A i \in 1 .. k - 1 : r[i] = q[i]
             /\ \A i \in k + 1 .. Len(q) + 1 : r[i] = q[i - 1]
  BY DEF InsertAt
<1>1. Len(q) \in Nat /\ \A i \in 1 .. Len(q) : q[i] \in S
  BY LenProperties, ElementOfSeq
<1>2. k \in Int /\ k - 1 \in Int /\ k >= 1 /\ k <= Len(q) + 1
  BY <1>1
<1>3. a \in Seq(S) /\ Len(a) = k - 1 /\ \A i \in 1 .. k - 1 : a[i] = q[i]
  <2>1. \A i \in 1 .. k - 1 : q[i] \in S
    BY <1>1, <1>2
  <2>2. /\ a \in Seq(S)
        /\ Len(a) = IF 1 <= k - 1 THEN k - 1 - 1 + 1 ELSE 0
        /\ \A i \in 1 .. k - 1 - 1 + 1 : a[i] = q[1 + i - 1]
    BY <1>2, <2>1, SubSeqProperties
  <2> QED
    BY <1>2, <2>2
<1>4. b \in Seq(S) /\ Len(b) = Len(q) - k + 1 /\ \A i \in 1 .. Len(q) - k + 1 : b[i] = q[k + i - 1]
  <2>1. \A i \in k .. Len(q) : q[i] \in S
    BY <1>1, <1>2
  <2>2. /\ b \in Seq(S)
        /\ Len(b) = IF k <= Len(q) THEN Len(q) - k + 1 ELSE 0
        /\ \A i \in 1 .. Len(q) - k + 1 : b[i] = q[k + i - 1]
    BY <1>1, <1>2, <2>1, SubSeqProperties
  <2> QED
    BY <1>1, <1>2, <2>2
<1>5. <<e>> \in Seq(S) /\ Len(<<e>>) = 1 /\ <<e>>[1] = e
  OBVIOUS
<1> HIDE DEF a, b
<1>6. /\ ae \in Seq(S) /\ Len(ae) = k
      /\ \A i \in 1 .. k : ae[i] = IF i <= k - 1 THEN a[i] ELSE <<e>>[i - (k - 1)]
  <2>1. /\ ae \in Seq(S) /\ Len(ae) = Len(a) + Len(<<e>>)
        /\ \A i \in 1 .. Len(a) + Len(<<e>>) :
              ae[i] = IF i <= Len(a) THEN a[i] ELSE <<e>>[i - Len(a)]
    BY <1>3, <1>5, ConcatProperties
  <2> QED
    BY <1>2, <1>3, <1>5, <2>1
<1> HIDE DEF ae
<1>7. /\ r \in Seq(S) /\ Len(r) = Len(q) + 1
      /\ \A i \in 1 .. Len(q) + 1 : r[i] = IF i <= k THEN ae[i] ELSE b[i - k]
  <2>1. /\ r \in Seq(S) /\ Len(r) = Len(ae) + Len(b)
        /\ \A i \in 1 .. Len(ae) + Len(b) :
              r[i] = IF i <= Len(ae) THEN ae[i] ELSE b[i - Len(ae)]
    BY <1>4, <1>6, ConcatProperties
  <2>2. Len(ae) + Len(b) = Len(q) + 1
    BY <1>1, <1>2, <1>4, <1>6
  <2> QED
    BY <1>6, <2>1, <2>2
<1> HIDE DEF r
<1>8. r[k] = e
  BY <1>1, <1>2, <1>5, <1>6, <1>7
<1>9. ASSUME NEW i \in 1 .. k - 1 PROVE r[i] = q[i]
  BY <1>1, <1>2, <1>3, <1>6, <1>7
<1>10. ASSUME NEW i \in k + 1 .. Len(q) + 1 PROVE r[i] = q[i - 1]
  <2>1. i - k \in 1 .. Len(q) - k + 1 /\ k + (i - k) - 1 = i - 1
    BY <1>1, <1>2
  <2>2. r[i] = b[i - k]
    BY <1>1, <1>2, <1>7
  <2>3. b[i - k] = q[k + (i - k) - 1]
    BY <1>4, <2>1
  <2> QED
    BY <2>1, <2>2, <2>3
<1> QED
  BY <1>7, <1>8, <1>9, <1>10

\* The place where a process enters RUNNABLE: everything before it is no
\* further on in the file, and everything from there on, if in order, is.
LEMMA PriorityPlace ==
    ASSUME NEW q \in Seq(Pids), NEW p \in Pids, NEW procs,
           \A o \in Pids : procs[o].currentPos \in Nat
    PROVE  \E k \in 1 .. Len(q) + 1 :
              /\ ProcessQueue_enqueuePriority(q, p, procs) = InsertAt(q, k, p)
              /\ \A i \in 1 .. k - 1 : procs[q[i]].currentPos <= procs[p].currentPos
              /\ k <= Len(q) => procs[q[k]].currentPos > procs[p].currentPos
PROOF
<1> DEFINE later == {i \in DOMAIN q : procs[q[i]].currentPos > procs[p].currentPos}
<1>1. Len(q) \in Nat /\ DOMAIN q = 1 .. Len(q) /\ \A i \in 1 .. Len(q) : q[i] \in Pids
  BY LenProperties, ElementOfSeq
<1>2. \A i \in 1 .. Len(q) : i \notin later => procs[q[i]].currentPos <= procs[p].currentPos
  <2> TAKE i \in 1 .. Len(q)
  <2>1. procs[q[i]].currentPos \in Nat /\ procs[p].currentPos \in Nat
    BY <1>1
  <2> QED
    BY <1>1, <2>1
<1>3. CASE later = {}
  <2>1. ProcessQueue_enqueuePriority(q, p, procs) = InsertAt(q, Len(q) + 1, p)
    BY <1>3 DEF ProcessQueue_enqueuePriority
  <2>2. Len(q) + 1 \in 1 .. Len(q) + 1
    BY <1>1
  <2>3. \A i \in 1 .. Len(q) + 1 - 1 : procs[q[i]].currentPos <= procs[p].currentPos
    BY <1>1, <1>2, <1>3
  <2>4. ~ (Len(q) + 1 <= Len(q))
    BY <1>1
  <2> QED
    BY <2>1, <2>2, <2>3, <2>4
<1>4. CASE later # {}
  <2>1. later \in SUBSET Nat /\ later \subseteq 1 .. Len(q)
    BY <1>1
  <2>2. Min(later) \in later /\ \A i \in later : Min(later) <= i
    <3> HIDE DEF later
    <3> QED
      BY <1>4, <2>1, MinNat
  <2>3. ProcessQueue_enqueuePriority(q, p, procs) = InsertAt(q, Min(later), p)
    BY <1>4 DEF ProcessQueue_enqueuePriority
  <2>4. Min(later) \in 1 .. Len(q) /\ Min(later) \in 1 .. Len(q) + 1
    BY <1>1, <2>1, <2>2
  <2>5. procs[q[Min(later)]].currentPos > procs[p].currentPos
    BY <2>2
  <2> HIDE DEF later
  <2>6. \A i \in 1 .. Min(later) - 1 : i \in 1 .. Len(q) /\ i \notin later
    BY <1>1, <2>2, <2>4
  <2> QED
    BY <1>2, <2>3, <2>4, <2>5, <2>6
<1> QED
  BY <1>3, <1>4

\* A process that enters RUNNABLE is in it once, and keeps it in order.
LEMMA EnqueuePriorityProperties ==
    ASSUME NEW q \in Seq(Pids), NEW p \in Pids, NEW procs,
           \A o \in Pids : procs[o].currentPos \in Nat,
           IsInjective(q), p \notin Range(q)
    PROVE  LET r == ProcessQueue_enqueuePriority(q, p, procs)
           IN  /\ r \in Seq(Pids)
               /\ Len(r) = Len(q) + 1
               /\ Range(r) = Range(q) \cup {p}
               /\ IsInjective(r)
               /\ InOrder(q, procs) => InOrder(r, procs)
PROOF
<1> DEFINE r == ProcessQueue_enqueuePriority(q, p, procs)
<1> SUFFICES /\ r \in Seq(Pids)
             /\ Len(r) = Len(q) + 1
             /\ Range(r) = Range(q) \cup {p}
             /\ IsInjective(r)
             /\ InOrder(q, procs) => InOrder(r, procs)
  OBVIOUS
<1>1. PICK k \in 1 .. Len(q) + 1 :
        /\ r = InsertAt(q, k, p)
        /\ \A i \in 1 .. k - 1 : procs[q[i]].currentPos <= procs[p].currentPos
        /\ k <= Len(q) => procs[q[k]].currentPos > procs[p].currentPos
  BY PriorityPlace
<1> HIDE DEF r
<1>2. /\ r \in Seq(Pids) /\ Len(r) = Len(q) + 1 /\ r[k] = p
      /\ \A i \in 1 .. k - 1 : r[i] = q[i]
      /\ \A i \in k + 1 .. Len(q) + 1 : r[i] = q[i - 1]
  BY <1>1, InsertAtProperties
<1>3. /\ Len(q) \in Nat /\ DOMAIN q = 1 .. Len(q) /\ DOMAIN r = 1 .. Len(q) + 1
      /\ \A i \in 1 .. Len(q) : q[i] \in Pids
  BY <1>2, LenProperties, ElementOfSeq
<1>4. \A i \in 1 .. Len(q) : q[i] # p
  BY <1>3 DEF Range
<1>5. \A i \in 1 .. Len(q) + 1 :
        \/ i = k
        \/ i < k /\ i \in 1 .. k - 1 /\ i \in 1 .. Len(q) /\ r[i] = q[i]
        \/ i > k /\ i - 1 \in 1 .. Len(q) /\ r[i] = q[i - 1]
  BY <1>2, <1>3
<1>6. Range(r) = Range(q) \cup {p}
  <2>1. Range(r) \subseteq Range(q) \cup {p}
    BY <1>2, <1>3, <1>5 DEF Range
  <2>2. \A i \in 1 .. Len(q) : \E j \in 1 .. Len(q) + 1 : r[j] = q[i]
    <3> TAKE i \in 1 .. Len(q)
    <3>1. CASE i < k
      BY <1>2, <1>3, <3>1
    <3>2. CASE i >= k
      <4>1. i + 1 \in k + 1 .. Len(q) + 1 /\ i + 1 - 1 = i /\ i + 1 \in 1 .. Len(q) + 1
        BY <1>3, <3>2
      <4>2. r[i + 1] = q[i + 1 - 1]
        BY <1>2, <4>1
      <4> QED
        BY <4>1, <4>2
    <3> QED
      BY <1>3, <3>1, <3>2
  <2>3. Range(q) \cup {p} \subseteq Range(r)
    <3>1. Range(q) \subseteq Range(r)
      BY <1>3, <2>2 DEF Range
    <3>2. p \in Range(r)
      BY <1>2, <1>3 DEF Range
    <3> QED
      BY <3>1, <3>2
  <2> QED
    BY <2>1, <2>3
<1>7. IsInjective(r)
  <2> SUFFICES ASSUME NEW i \in 1 .. Len(q) + 1, NEW j \in 1 .. Len(q) + 1, r[i] = r[j], i < j
               PROVE  FALSE
    BY <1>3 DEF IsInjective
  <2>1. \A a, b \in 1 .. Len(q) : q[a] = q[b] => a = b
    BY <1>3 DEF IsInjective
  <2>2. CASE j = k
    BY <1>2, <1>3, <1>4, <1>5, <2>2
  <2>3. CASE i = k
    <3>1. j - 1 \in 1 .. Len(q) /\ r[j] = q[j - 1]
      BY <1>3, <1>5, <2>3
    <3> QED
      BY <1>2, <1>4, <2>3, <3>1
  <2>4. CASE i # k /\ j # k
    BY <1>3, <1>5, <2>1, <2>4
  <2> QED
    BY <2>2, <2>3, <2>4
<1>8. ASSUME InOrder(q, procs) PROVE InOrder(r, procs)
  <2> DEFINE at(i) == procs[q[i]].currentPos
             here  == procs[p].currentPos
  <2>1. here \in Nat /\ \A i \in 1 .. Len(q) : at(i) \in Nat
    BY <1>3
  <2>2. \A i, j \in 1 .. Len(q) : i < j => at(i) <= at(j)
    BY <1>8 DEF InOrder
  <2>3. \A i \in 1 .. k - 1 : at(i) <= here
    BY <1>1
  <2>4. \A i \in 1 .. Len(q) : i >= k => here <= at(i)
    <3> SUFFICES ASSUME NEW i \in 1 .. Len(q), i >= k PROVE here <= at(i)
      OBVIOUS
    <3>1. k \in 1 .. Len(q)
      BY <1>3
    <3>2. at(k) > here
      BY <1>1, <1>3, <3>1
    <3>3. at(k) <= at(i)
      BY <1>3, <2>1, <2>2, <3>1
    <3> HIDE DEF at, here
    <3> QED
      BY <2>1, <3>1, <3>2, <3>3
  <2> SUFFICES ASSUME NEW i \in 1 .. Len(q) + 1, NEW j \in 1 .. Len(q) + 1, i < j
               PROVE  procs[r[i]].currentPos <= procs[r[j]].currentPos
    BY <1>2 DEF InOrder
  <2>5. CASE i = k
    <3>1. j - 1 \in 1 .. Len(q) /\ j - 1 >= k /\ r[j] = q[j - 1]
      BY <1>3, <1>5, <2>5
    <3> QED
      BY <1>2, <2>4, <2>5, <3>1
  <2>6. CASE j = k
    <3>1. i \in 1 .. k - 1 /\ r[i] = q[i]
      BY <1>3, <1>5, <2>6
    <3> QED
      BY <1>2, <2>3, <2>6, <3>1
  <2>7. CASE i < k /\ j < k
    <3>1. i \in 1 .. Len(q) /\ j \in 1 .. Len(q) /\ r[i] = q[i] /\ r[j] = q[j]
      BY <1>3, <1>5, <2>7
    <3> QED
      BY <2>2, <3>1
  <2>8. CASE i < k /\ j > k
    <3>1. /\ i \in 1 .. Len(q) /\ r[i] = q[i]
          /\ j - 1 \in 1 .. Len(q) /\ r[j] = q[j - 1] /\ i < j - 1
      BY <1>3, <1>5, <2>8
    <3> QED
      BY <2>2, <3>1
  <2>9. CASE i > k
    <3>1. /\ i - 1 \in 1 .. Len(q) /\ r[i] = q[i - 1]
          /\ j - 1 \in 1 .. Len(q) /\ r[j] = q[j - 1] /\ i - 1 < j - 1
      BY <1>3, <1>5, <2>9
    <3> QED
      BY <2>2, <3>1
  <2> QED
    BY <1>3, <2>5, <2>6, <2>7, <2>8, <2>9
<1> QED
  BY <1>2, <1>6, <1>7, <1>8

\* A process that enters a queue it is not in is in it once.
LEMMA EnqueueProperties ==
    ASSUME NEW q \in Seq(Pids), NEW p \in Pids, NEW procs, NEW s \in QueueNames,
           \A o \in Pids : procs[o].currentPos \in Nat,
           IsInjective(q), p \notin Range(q)
    PROVE  LET r == ProcessQueue_enqueue(q, p, s, procs)
           IN  /\ r \in Seq(Pids)
               /\ Len(r) = Len(q) + 1
               /\ Range(r) = Range(q) \cup {p}
               /\ IsInjective(r)
PROOF
<1>1. CASE s = "RUNNABLE"
  BY <1>1, EnqueuePriorityProperties DEF ProcessQueue_enqueue
<1>2. CASE s # "RUNNABLE"
  BY <1>2, AppendNew DEF ProcessQueue_enqueue
<1> QED
  BY <1>1, <1>2

\* The process at the head of one queue goes to another, or back to the same,
\* and is in the queue of its status.
LEMMA SwitchKeepsQueues ==
    ASSUME NEW s1 \in QueueNames, NEW s2 \in QueueNames, NEW procs,
           queue \in [QueueNames -> Seq(Pids)], status \in [Pids -> Statuses],
           QueuesMatchStatus, queue[s1] # << >>,
           \A o \in Pids : procs[o].currentPos \in Nat,
           Process_switchStatus(s1, s2, procs)
    PROVE  LET p    == Process_peek(s1)
               base == IF s1 = s2 THEN Tail(queue[s1]) ELSE queue[s2]
           IN  /\ p \in Pids /\ status[p] = s1
               /\ status' = [status EXCEPT ![p] = s2] /\ status' \in [Pids -> Statuses]
               /\ queue' \in [QueueNames -> Seq(Pids)]
               /\ QueuesMatchStatus'
               /\ queue'[s2] = ProcessQueue_enqueue(base, p, s2, procs)
               /\ base \in Seq(Pids) /\ IsInjective(base) /\ p \notin Range(base)
               /\ s1 # s2 => queue'[s1] = Tail(queue[s1])
               /\ \A s \in QueueNames \ {s1, s2} : queue'[s] = queue[s]
PROOF
<1> DEFINE p    == Process_peek(s1)
           base == IF s1 = s2 THEN Tail(queue[s1]) ELSE queue[s2]
           r    == ProcessQueue_enqueue(base, p, s2, procs)
<1> SUFFICES /\ p \in Pids /\ status[p] = s1
             /\ status' = [status EXCEPT ![p] = s2] /\ status' \in [Pids -> Statuses]
             /\ queue' \in [QueueNames -> Seq(Pids)]
             /\ QueuesMatchStatus'
             /\ queue'[s2] = r
             /\ base \in Seq(Pids) /\ IsInjective(base) /\ p \notin Range(base)
             /\ s1 # s2 => queue'[s1] = Tail(queue[s1])
             /\ \A s \in QueueNames \ {s1, s2} : queue'[s] = queue[s]
  OBVIOUS
<1>1. \A s \in QueueNames :
        /\ queue[s] \in Seq(Pids) /\ IsInjective(queue[s])
        /\ Range(queue[s]) = {o \in Pids : status[o] = s}
  BY DEF QueuesMatchStatus
<1>2. /\ p \in Range(queue[s1])
      /\ Tail(queue[s1]) \in Seq(Pids)
      /\ Range(Tail(queue[s1])) = Range(queue[s1]) \ {p}
      /\ IsInjective(Tail(queue[s1]))
  <2>1. queue[s1] \in Seq(Pids) /\ IsInjective(queue[s1])
    BY <1>1
  <2> QED
    BY <2>1, PopHead DEF Process_peek
<1>3. p \in Pids /\ status[p] = s1
  BY <1>1, <1>2
<1>4. /\ queue' = [[queue EXCEPT ![s1] = Tail(@)]
                      EXCEPT ![s2] = ProcessQueue_enqueue(@, p, s2, procs)]
      /\ status' = [status EXCEPT ![p] = s2]
  BY DEF Process_switchStatus
<1>5. base \in Seq(Pids) /\ IsInjective(base) /\ p \notin Range(base)
  BY <1>1, <1>2, <1>3
<1>6. [queue EXCEPT ![s1] = Tail(@)][s2] = base
  OBVIOUS
<1> HIDE DEF p, base
<1>7. r \in Seq(Pids) /\ Range(r) = Range(base) \cup {p} /\ IsInjective(r)
  BY <1>3, <1>5, EnqueueProperties
<1>8. /\ queue'[s2] = r
      /\ s1 # s2 => queue'[s1] = Tail(queue[s1])
      /\ \A s \in QueueNames \ {s1, s2} : queue'[s] = queue[s]
      /\ DOMAIN queue' = QueueNames
      /\ queue' = [s \in QueueNames |-> queue'[s]]
  <2> HIDE DEF r
  <2>1. queue' = [[queue EXCEPT ![s1] = Tail(@)] EXCEPT ![s2] = r]
    BY <1>4, <1>6 DEF r
  <2> QED
    BY <2>1
<1> HIDE DEF r
<1>9. queue' \in [QueueNames -> Seq(Pids)]
  <2>1. \A s \in QueueNames : queue'[s] \in Seq(Pids)
    BY <1>1, <1>2, <1>7, <1>8
  <2> QED
    BY <1>8, <2>1
<1>10. status' \in [Pids -> Statuses]
  BY <1>3, <1>4 DEF Statuses, QueueNames
<1>11. \A s \in QueueNames : {o \in Pids : status'[o] = s} =
          IF s = s2 THEN {o \in Pids : status[o] = s} \cup {p}
          ELSE {o \in Pids : status[o] = s} \ {p}
  BY <1>3, <1>4
<1>12. ASSUME NEW s \in QueueNames
       PROVE  IsInjective(queue'[s]) /\ Range(queue'[s]) = {o \in Pids : status'[o] = s}
  <2>1. CASE s = s2
    <3>1. Range(base) \cup {p} = {o \in Pids : status[o] = s} \cup {p}
      <4>1. CASE s1 = s2
        BY <1>1, <1>2, <2>1, <4>1 DEF base
      <4>2. CASE s1 # s2
        BY <1>1, <2>1, <4>2 DEF base
      <4> QED
        BY <4>1, <4>2
    <3> QED
      BY <1>7, <1>8, <1>11, <2>1, <3>1
  <2>2. CASE s = s1 /\ s1 # s2
    <3>1. queue'[s] = Tail(queue[s1])
      BY <1>8, <2>2
    <3> QED
      BY <1>1, <1>2, <1>11, <2>2, <3>1
  <2>3. CASE s # s1 /\ s # s2
    <3>1. queue'[s] = queue[s]
      BY <1>8, <2>3
    <3>2. p \notin {o \in Pids : status[o] = s}
      BY <1>3, <2>3
    <3> QED
      BY <1>1, <1>11, <2>3, <3>1, <3>2
  <2> QED
    BY <2>1, <2>2, <2>3
<1>13. QueuesMatchStatus'
  BY <1>12 DEF QueuesMatchStatus
<1> QED
  BY <1>3, <1>4, <1>5, <1>8, <1>9, <1>10, <1>13

\* The same for two queues, in the terms of the callers.
LEMMA SwitchToOther ==
    ASSUME NEW s1 \in QueueNames, NEW s2 \in QueueNames, s1 # s2, NEW procs,
           queue \in [QueueNames -> Seq(Pids)], status \in [Pids -> Statuses],
           QueuesMatchStatus, queue[s1] # << >>,
           \A o \in Pids : procs[o].currentPos \in Nat,
           Process_switchStatus(s1, s2, procs)
    PROVE  /\ status' = [status EXCEPT ![Process_peek(s1)] = s2]
           /\ queue' \in [QueueNames -> Seq(Pids)]
           /\ QueuesMatchStatus'
           /\ queue'[s1] = Tail(queue[s1])
           /\ queue'[s2] = ProcessQueue_enqueue(queue[s2], Process_peek(s1), s2, procs)
           /\ \A s \in QueueNames \ {s1, s2} : queue'[s] = queue[s]
BY SwitchKeepsQueues

-----------------------------------------------------------------------------
\* The head of a queue is a process of its status; an empty one has none.
LEMMA HeadHasStatus ==
    ASSUME NEW s \in QueueNames, queue \in [QueueNames -> Seq(Pids)], QueuesMatchStatus
    PROVE  /\ Process_existsWithStatus(s) =>
                 Process_peek(s) \in Pids /\ status[Process_peek(s)] = s
           /\ ~ Process_existsWithStatus(s) => \A p \in Pids : status[p] # s
PROOF
<1>1. /\ queue[s] \in Seq(Pids) /\ IsInjective(queue[s])
      /\ Range(queue[s]) = {o \in Pids : status[o] = s}
  BY DEF QueuesMatchStatus
<1>2. CASE queue[s] # << >>
  <2>1. Head(queue[s]) \in Range(queue[s])
    BY <1>1, <1>2, PopHead
  <2> QED
    BY <1>1, <1>2, <2>1 DEF Process_existsWithStatus, Process_peek
<1>3. CASE queue[s] = << >>
  <2>1. DOMAIN queue[s] = {}
    BY <1>3
  <2>2. Range(queue[s]) = {}
    BY <2>1 DEF Range
  <2> QED
    BY <1>1, <1>3, <2>2 DEF Process_existsWithStatus
<1> QED
  BY <1>2, <1>3

\* The tick takes 1 off the wait of the process the disk serves, and leaves the
\* rest of every process as it is.
LEMMA TickedProperties ==
    ASSUME Scheduling, pc = "loop"
    PROVE  /\ Ticked \in [Pids -> ProcType]
           /\ \A p \in Pids :
                 /\ Ticked[p].currentline = proc[p].currentline
                 /\ Ticked[p].currInterval = proc[p].currInterval
                 /\ Ticked[p].currentPos = proc[p].currentPos
                 /\ Ticked[p].waitTime =
                       IF status[p] = "BLOCKED" /\ p = Process_peek("BLOCKED")
                       THEN proc[p].waitTime - 1 ELSE proc[p].waitTime
           /\ \A p \in Pids : status[p] = "BLOCKED" => Process_existsWithStatus("BLOCKED")
PROOF
<1>1. /\ queue \in [QueueNames -> Seq(Pids)] /\ QueuesMatchStatus
      /\ proc \in [Pids -> ProcType] /\ DiskServesHead
      /\ "BLOCKED" \in QueueNames /\ DiskPenalty \in Nat \ {0}
  BY SimulatorAssumption DEF Scheduling, SimulatorTypeOK, QueueNames
<1>2. \A p \in Pids : status[p] = "BLOCKED" => Process_existsWithStatus("BLOCKED")
  BY <1>1, HeadHasStatus
<1> DEFINE h == Process_peek("BLOCKED")
<1>3. CASE Process_existsWithStatus("BLOCKED")
  <2>1. h \in Pids /\ status[h] = "BLOCKED"
    BY <1>1, <1>3, HeadHasStatus
  <2>2. proc[h].waitTime \in 1 .. DiskPenalty
    BY <1>1, <2>1 DEF DiskServesHead
  <2>3. Ticked = [proc EXCEPT ![h].waitTime = @ - 1]
    BY <1>3 DEF Ticked
  <2> HIDE DEF h
  <2>4. Ticked[h] = [proc[h] EXCEPT !.waitTime = @ - 1]
    BY <1>1, <2>1, <2>3
  <2>5. /\ Ticked[h] \in ProcType
        /\ Ticked[h].currentline = proc[h].currentline
        /\ Ticked[h].currInterval = proc[h].currInterval
        /\ Ticked[h].currentPos = proc[h].currentPos
        /\ Ticked[h].waitTime = proc[h].waitTime - 1
    <3>1. proc[h] \in ProcType /\ proc[h].waitTime - 1 \in 0 .. DiskPenalty
      BY <1>1, <2>1, <2>2
    <3> QED
      BY <2>4, <3>1 DEF ProcType
  <2>6. \A p \in Pids : p # h => Ticked[p] = proc[p]
    BY <1>1, <2>3
  <2>7. Ticked \in [Pids -> ProcType]
    <3>1. \A p \in Pids : Ticked[p] \in ProcType
      BY <1>1, <2>5, <2>6
    <3>2. Ticked = [p \in Pids |-> Ticked[p]]
      BY <1>1, <2>3
    <3> QED
      BY <3>1, <3>2
  <2> QED
    BY <1>2, <2>1, <2>5, <2>6, <2>7 DEF h
<1>4. CASE ~ Process_existsWithStatus("BLOCKED")
  <2>1. Ticked = proc
    BY <1>4 DEF Ticked
  <2> QED
    BY <1>1, <1>2, <1>4, <2>1
<1> QED
  BY <1>3, <1>4

\* As long as the disk is not due, the waits are right after the tick too.
LEMMA TickedWaits ==
    ASSUME Scheduling, pc = "loop", ~ DiskDue
    PROVE  \A p \in Pids :
              IF status[p] # "BLOCKED" THEN Ticked[p].waitTime = 0
              ELSE IF p # Process_peek("BLOCKED") THEN Ticked[p].waitTime = DiskPenalty
              ELSE /\ proc[p].waitTime \in 2 .. DiskPenalty
                   /\ Ticked[p].waitTime = proc[p].waitTime - 1
                   /\ Ticked[p].waitTime \in 1 .. DiskPenalty
PROOF
<1>1. /\ DiskServesHead /\ DiskPenalty \in Nat \ {0}
  BY SimulatorAssumption DEF Scheduling
<1> SUFFICES ASSUME NEW p \in Pids
             PROVE  IF status[p] # "BLOCKED" THEN Ticked[p].waitTime = 0
                    ELSE IF p # Process_peek("BLOCKED") THEN Ticked[p].waitTime = DiskPenalty
                    ELSE /\ proc[p].waitTime \in 2 .. DiskPenalty
                         /\ Ticked[p].waitTime = proc[p].waitTime - 1
                         /\ Ticked[p].waitTime \in 1 .. DiskPenalty
  OBVIOUS
<1>2. Ticked[p].waitTime =
        IF status[p] = "BLOCKED" /\ p = Process_peek("BLOCKED")
        THEN proc[p].waitTime - 1 ELSE proc[p].waitTime
  BY TickedProperties
<1>3. IF status[p] # "BLOCKED" THEN proc[p].waitTime = 0
      ELSE IF p # Process_peek("BLOCKED") THEN proc[p].waitTime = DiskPenalty
      ELSE proc[p].waitTime \in 1 .. DiskPenalty
  BY <1>1 DEF DiskServesHead
<1>4. ASSUME status[p] = "BLOCKED", p = Process_peek("BLOCKED") PROVE Ticked[p].waitTime # 0
  BY <1>4, TickedProperties DEF DiskDue
<1> QED
  BY <1>1, <1>2, <1>3, <1>4

\* The process that makes the next reference, and what it reads.
LEMMA RunningProperties ==
    ASSUME Scheduling, Process_existsWithStatus("RUNNABLE")
    PROVE  /\ Running \in Pids /\ status[Running] = "RUNNABLE"
           /\ Running \in PidsOf(trace)
           /\ proc[Running] \in ProcType
           /\ proc[Running].currentPos # 0
           /\ ReadPos \in Nat \ {0}
           /\ LineAt(ReadPos) \in Nat \ {0}
           /\ PosAfterRead \in Nat \ {0}
           /\ LineAt(ReadPos) <= Len(trace) => PageRead \in VPages /\ PageRead[1] = Running
PROOF
<1>1. /\ queue \in [QueueNames -> Seq(Pids)] /\ QueuesMatchStatus
      /\ proc \in [Pids -> ProcType] /\ PlacesKnown /\ fpos \in Nat /\ trace \in Traces
      /\ "RUNNABLE" \in QueueNames
  BY DEF Scheduling, SimulatorTypeOK, QueueNames
<1>2. Running \in Pids /\ status[Running] = "RUNNABLE"
  BY <1>1, HeadHasStatus DEF Running
<1>3. proc[Running] \in ProcType
  BY <1>1, <1>2
<1>4. proc[Running].currentPos # 0 /\ fpos # 0 /\ Running \in PidsOf(trace)
  BY <1>1, <1>2 DEF PlacesKnown, IsPlace
<1>5. ReadPos \in Nat \ {0}
  <2>1. proc[Running].currentPos \in Nat
    BY <1>3 DEF ProcType
  <2> QED
    BY <1>1, <1>4, <2>1 DEF ReadPos
<1>6. LineAt(ReadPos) \in Nat \ {0}
  BY <1>5 DEF LineAt
<1>7. PosAfterRead \in Nat \ {0}
  BY <1>6 DEF PosAfterRead, StartOf
<1>8. ASSUME LineAt(ReadPos) <= Len(trace)
      PROVE  PageRead \in VPages /\ PageRead[1] = Running
  <2>1. trace \in Seq(VPages)
    BY <1>1, SimulatorAssumption
  <2>2. LineAt(ReadPos) \in 1 .. Len(trace)
    BY <1>6, <1>8, <2>1, LenProperties
  <2>3. trace[LineAt(ReadPos)] \in VPages
    BY <2>1, <2>2, ElementOfSeq
  <2> QED
    BY <1>2, <2>3 DEF PageRead, VPages
<1> QED
  BY <1>2, <1>3, <1>4, <1>5, <1>6, <1>7, <1>8

-----------------------------------------------------------------------------
\* A line of the interval a process is in is a line of its own, and the intervals
\* that follow are further on.
LEMMA PlaceProperties ==
    ASSUME Scheduling, NEW p \in Pids, status[p] \in {"RUNNABLE", "BLOCKED"}
    PROVE  /\ trace \in Seq(VPages)
           /\ lineIntervals[p] = LineIntervals(trace, p)
           /\ lineIntervals[p] \in Seq(IntervalType(trace))
           /\ proc[p].currInterval \in 1 .. Len(lineIntervals[p])
           /\ CurrInterval(p) \in IntervalType(trace)
           /\ proc[p].currentline \in CurrInterval(p).low .. CurrInterval(p).high
           /\ proc[p].currentline \in 1 .. Len(trace)
           /\ trace[proc[p].currentline][1] = p
PROOF
<1>1. trace \in Seq(VPages)
  BY SimulatorAssumption DEF Scheduling, SimulatorTypeOK
<1>2. /\ lineIntervals[p] = LineIntervals(trace, p)
      /\ proc[p].currInterval \in 1 .. Len(lineIntervals[p])
      /\ proc[p].currentline \in CurrInterval(p).low .. CurrInterval(p).high
  BY DEF Scheduling, PlacesKnown, IsPlace, CurrInterval
<1>3. /\ lineIntervals[p] \in Seq(IntervalType(trace))
      /\ \A n \in 1 .. Len(lineIntervals[p]) :
            \A k \in lineIntervals[p][n].low .. lineIntervals[p][n].high : trace[k][1] = p
  BY <1>1, <1>2, IntervalsProperties
<1>4. CurrInterval(p) \in IntervalType(trace)
  BY <1>2, <1>3, ElementOfSeq DEF CurrInterval
<1>5. CurrInterval(p).low \in 1 .. Len(trace) /\ CurrInterval(p).high \in 1 .. Len(trace)
  BY <1>4 DEF IntervalType
<1>6. Len(trace) \in Nat
  BY <1>1, LenProperties
<1>7. proc[p].currentline \in 1 .. Len(trace)
  BY <1>2, <1>5, <1>6
<1>8. trace[proc[p].currentline][1] = p
  BY <1>2, <1>3 DEF CurrInterval
<1> QED
  BY <1>1, <1>2, <1>3, <1>4, <1>7, <1>8

\* What a turn of the loop does to memory, the page tables and the replacement
\* module is a step of paging, or nothing.
LEMMA StepImplements ==
    ASSUME Scheduling, [Next]_vars
    PROVE  [PagingNext]_pagingVars
PROOF
<1>1. /\ queue \in [QueueNames -> Seq(Pids)] /\ QueuesMatchStatus
      /\ status \in [Pids -> Statuses] /\ pageTable \subseteq VPages
      /\ "BLOCKED" \in QueueNames /\ "RUNNABLE" \in QueueNames
  BY DEF Scheduling, SimulatorTypeOK, PagingTypeOK, QueueNames
<1>2. CASE DiskCompletes
  <2> DEFINE p == Process_peek("BLOCKED")
  <2>1. p \in Pids /\ status[p] = "BLOCKED"
    BY <1>1, <1>2, HeadHasStatus DEF DiskCompletes, DiskDue
  <2>2. /\ ~ Quitting
        /\ Simulator_finishCurrentDiskIO(p)
        /\ status' = [status EXCEPT ![p] = "RUNNABLE"]
    BY <1>2 DEF DiskCompletes, InLoop, Simulator_safelySwitchStatus, Process_switchStatus
  <2> HIDE DEF p
  <2>3. FinishDiskIO(p)
    BY <2>1, <2>2 DEF FinishDiskIO
  <2> QED
    BY <2>1, <2>3 DEF PagingNext
<1>3. CASE Reads
  <2>1. /\ ~ Quitting /\ PageRead \in VPages /\ PageRead[1] = Running
        /\ status[Running] = "RUNNABLE" /\ Running \in Pids
    BY <1>3, RunningProperties DEF Reads, Reading, InLoop
  <2> DEFINE v == PageRead
  <2>2. ASSUME HitJumpsInterval \/ HitAdvances PROVE Hit(v)
    <3>1. ReferenceHits(v)
      BY <2>2 DEF HitJumpsInterval, HitAdvances, Hits
    <3>2. status' = status
      <4>1. CASE HitJumpsInterval
        <5>1. status' = [status EXCEPT ![Running] = "RUNNABLE"]
          BY <4>1 DEF HitJumpsInterval, Process_switchStatus, Running
        <5> QED
          BY <1>1, <2>1, <5>1
      <4>2. CASE HitAdvances
        BY <4>2 DEF HitAdvances
      <4> QED
        BY <2>2, <4>1, <4>2
    <3> QED
      BY <2>1, <3>1, <3>2 DEF Hit
  <2>3. ASSUME HitFinishes PROVE HitAndFinish(v)
    <3>1. /\ ReferenceHits(v)
          /\ status' = [status EXCEPT ![Running] = "FINISHED"]
      BY <2>3 DEF HitFinishes, Hits, Simulator_safelySwitchStatus, Process_switchStatus, Running
    <3> QED
      BY <2>1, <3>1 DEF HitAndFinish
  <2>4. ASSUME Misses PROVE Miss(v)
    <3>1. /\ ReferenceMisses(v)
          /\ status' = [status EXCEPT ![Running] = "BLOCKED"]
      BY <2>4 DEF Misses, Simulator_safelySwitchStatus, Process_switchStatus, Running
    <3> QED
      BY <2>1, <3>1 DEF Miss
  <2> HIDE DEF v
  <2>5. ASSUME HitJumpsInterval \/ HitAdvances \/ HitFinishes \/ Misses PROVE PagingNext
    BY <2>1, <2>2, <2>3, <2>4, <2>5 DEF PagingNext, v
  <2>6. ASSUME ~ (HitJumpsInterval \/ HitAdvances \/ HitFinishes \/ Misses)
        PROVE  [PagingNext]_pagingVars
    <3>1. UNCHANGED pagingVars \/ DiskCompletes \/ DestroysPage
      BY <2>6 DEF Next, NoFreePage, SkipIdleTime, ReadFails, SimulationEnds, Terminated, vars
    <3>2. ~ DiskCompletes
      BY <1>3 DEF Reads, Reading, DiskCompletes
    <3>3. ASSUME DestroysPage PROVE PagingNext
      BY <1>1, <3>3 DEF DestroysPage, PagingNext
    <3> QED
      BY <3>1, <3>2, <3>3
  <2> QED
    BY <2>5, <2>6
<1>4. CASE DestroysPage
  BY <1>1, <1>4 DEF DestroysPage, PagingNext
<1>5. CASE ~ (DiskCompletes \/ Reads \/ DestroysPage)
  <2>1. UNCHANGED pagingVars
    BY <1>5 DEF Next, NoFreePage, SkipIdleTime, ReadFails, SimulationEnds, Terminated, vars,
                HitJumpsInterval, HitAdvances, HitFinishes, Misses, Hits
  <2> QED
    BY <2>1
<1> QED
  BY <1>2, <1>3, <1>4, <1>5

-----------------------------------------------------------------------------
StatsType == [tmu : Nat, trp : Nat, tmr : Nat, tpi : Nat]

\* What the counters hold after a tick, a hit and a miss.
LEMMA TickCounted ==
    ASSUME NEW s \in StatsType, NEW ticks \in Nat, mem.allocated \in Nat
    PROVE  LET s2 == Stat_default(s, ticks)
           IN  /\ s2 \in StatsType
               /\ s2.tmu = s.tmu + mem.allocated * ticks
               /\ s2.trp = s.trp + IF Process_existsWithStatus("RUNNABLE") THEN ticks ELSE 0
               /\ s2.tmr = s.tmr /\ s2.tpi = s.tpi
PROOF
<1> DEFINE d == mem.allocated * ticks
           e == IF Process_existsWithStatus("RUNNABLE") THEN ticks ELSE 0
<1>1. d \in Nat /\ e \in Nat
  OBVIOUS
<1>2. Stat_default(s, ticks) = [s EXCEPT !.tmu = @ + d, !.trp = @ + e]
  BY DEF Stat_default
<1> HIDE DEF d, e
<1>3. [s EXCEPT !.tmu = @ + d, !.trp = @ + e] \in StatsType
  <2>1. s.tmu + d \in Nat /\ s.trp + e \in Nat
    BY <1>1 DEF StatsType
  <2> DEFINE x == s.tmu + d
             y == s.trp + e
  <2> HIDE DEF x, y
  <2>2. [s EXCEPT !.tmu = x, !.trp = y] \in StatsType
    BY <2>1 DEF StatsType, x, y
  <2> QED
    BY <2>2 DEF x, y
<1>4. /\ [s EXCEPT !.tmu = @ + d, !.trp = @ + e].tmu = s.tmu + d
      /\ [s EXCEPT !.tmu = @ + d, !.trp = @ + e].trp = s.trp + e
      /\ [s EXCEPT !.tmu = @ + d, !.trp = @ + e].tmr = s.tmr
      /\ [s EXCEPT !.tmu = @ + d, !.trp = @ + e].tpi = s.tpi
  BY DEF StatsType
<1> QED
  BY <1>2, <1>3, <1>4 DEF d, e

LEMMA HitCounted ==
    ASSUME NEW s \in StatsType
    PROVE  /\ Stat_hit(s) \in StatsType
           /\ Stat_hit(s).tmu = s.tmu /\ Stat_hit(s).trp = s.trp
           /\ Stat_hit(s).tmr = s.tmr + 1 /\ Stat_hit(s).tpi = s.tpi
BY DEF StatsType, Stat_hit

LEMMA MissCounted ==
    ASSUME NEW s \in StatsType
    PROVE  /\ Stat_miss(s) \in StatsType
           /\ Stat_miss(s).tmu = s.tmu /\ Stat_miss(s).trp = s.trp
           /\ Stat_miss(s).tmr = s.tmr /\ Stat_miss(s).tpi = s.tpi + 1
BY DEF StatsType, Stat_miss

\* Scheduling in the next state, from its parts; only p changes its status or its
\* place in the file.
LEMMA SchedulingFromParts ==
    ASSUME Scheduling, PagingTypeOK', UNCHANGED fileVars,
           queue' \in [QueueNames -> Seq(Pids)], QueuesMatchStatus',
           proc' \in [Pids -> ProcType], DiskServesHead',
           curr' \in Pids \cup {NoProc}, fpos' \in Nat \ {0},
           time' \in Nat, stats' \in StatsType, pc' \in {"loop"} \cup Outcomes,
           NEW p \in Pids,
           \A o \in Pids \ {p} :
              /\ status'[o] = status[o]
              /\ proc'[o].currentPos = proc[o].currentPos
              /\ proc'[o].currInterval = proc[o].currInterval
              /\ proc'[o].currentline = proc[o].currentline,
           status'[p] = "ABSENT" <=> status[p] = "ABSENT",
           status'[p] \in {"RUNNABLE", "BLOCKED"} => IsPlace(p, proc'[p])
    PROVE  Scheduling'
PROOF
<1>1. trace' = trace /\ lineIntervals' = lineIntervals
  BY DEF fileVars
<1>2. SimulatorTypeOK'
  BY <1>1 DEF Scheduling, SimulatorTypeOK, StatsType
<1>3. \A o \in Pids : (status'[o] = "ABSENT") <=> o \notin PidsOf(trace)
  BY DEF Scheduling, PlacesKnown
<1>4. ASSUME NEW o \in Pids, status'[o] \in {"RUNNABLE", "BLOCKED"}
      PROVE  IsPlace(o, proc'[o])
  <2>1. CASE o = p
    BY <1>4, <2>1
  <2>2. CASE o # p
    <3>1. IsPlace(o, proc[o])
      BY <1>4, <2>2 DEF Scheduling, PlacesKnown
    <3> QED
      BY <2>2, <3>1 DEF IsPlace
  <2> QED
    BY <2>1, <2>2
<1>5. PlacesKnown'
  <2>1. lineIntervals' = [o \in Pids |-> LineIntervals(trace', o)]
    BY <1>1 DEF Scheduling, PlacesKnown
  <2>2. \A o \in Pids : status'[o] \in {"RUNNABLE", "BLOCKED"} => IsPlace(o, proc[o])'
    BY <1>1, <1>4 DEF IsPlace
  <2> QED
    BY <1>1, <1>3, <2>1, <2>2 DEF PlacesKnown
<1> QED
  BY <1>2, <1>5 DEF Scheduling

\* The head of BLOCKED gets its page and goes to RUNNABLE; the disk turns to the
\* next in line, who has all of its wait ahead.
LEMMA DiskCompletesKeepsScheduling ==
    ASSUME Scheduling, PagingTypeOK', mem.allocated \in Nat, DiskCompletes
    PROVE  Scheduling'
PROOF
<1> DEFINE p == Process_peek("BLOCKED")
<1>1. /\ queue \in [QueueNames -> Seq(Pids)] /\ QueuesMatchStatus
      /\ status \in [Pids -> Statuses] /\ DiskServesHead
      /\ "BLOCKED" \in QueueNames /\ "RUNNABLE" \in QueueNames
      /\ time \in Nat /\ stats \in StatsType
      /\ DiskPenalty \in Nat \ {0}
  BY SimulatorAssumption
     DEF Scheduling, SimulatorTypeOK, PagingTypeOK, QueueNames, StatsType
<1>2. /\ pc = "loop" /\ pc' = pc /\ curr' = curr /\ UNCHANGED fileVars
      /\ Process_existsWithStatus("BLOCKED") /\ Ticked[p].waitTime = 0
      /\ time' = time + 1 /\ stats' = Stat_default(stats, 1)
  BY DEF DiskCompletes, InLoop, DiskDue
<1>3. /\ proc' = Ticked
      /\ Process_switchStatus("BLOCKED", "RUNNABLE", Ticked)
      /\ fpos' = Ticked[p].currentPos
  BY DEF DiskCompletes, Simulator_safelySwitchStatus
<1>4. /\ Ticked \in [Pids -> ProcType]
      /\ \A o \in Pids :
            /\ Ticked[o].currentline = proc[o].currentline
            /\ Ticked[o].currInterval = proc[o].currInterval
            /\ Ticked[o].currentPos = proc[o].currentPos
            /\ Ticked[o].waitTime =
                  IF status[o] = "BLOCKED" /\ o = p
                  THEN proc[o].waitTime - 1 ELSE proc[o].waitTime
  BY <1>2, TickedProperties
<1>5. \A o \in Pids : Ticked[o].currentPos \in Nat
  BY <1>4 DEF ProcType
<1>6. /\ p \in Pids /\ status[p] = "BLOCKED"
      /\ status' = [status EXCEPT ![p] = "RUNNABLE"]
      /\ queue' \in [QueueNames -> Seq(Pids)]
      /\ QueuesMatchStatus'
  <2>1. queue["BLOCKED"] # << >>
    BY <1>2 DEF Process_existsWithStatus
  <2> QED
    BY <1>1, <1>3, <1>5, <2>1, SwitchKeepsQueues
<1> HIDE DEF p
<1>7. DiskServesHead'
  <2> SUFFICES ASSUME NEW o \in Pids
               PROVE  IF status'[o] # "BLOCKED" THEN Ticked[o].waitTime = 0
                      ELSE Ticked[o].waitTime = DiskPenalty
    BY <1>1, <1>2, <1>3 DEF DiskServesHead
  <2>1. CASE o = p
    BY <1>1, <1>2, <1>6, <2>1
  <2>2. CASE o # p
    <3>1. Ticked[o].waitTime = proc[o].waitTime /\ status'[o] = status[o]
      BY <1>1, <1>4, <1>6, <2>2
    <3> QED
      BY <1>1, <2>2, <3>1 DEF DiskServesHead, p
  <2> QED
    BY <2>1, <2>2
<1>8. IsPlace(p, proc[p])
  BY <1>6 DEF Scheduling, PlacesKnown
<1>9. IsPlace(p, proc'[p]) /\ fpos' \in Nat \ {0}
  BY <1>3, <1>4, <1>5, <1>6, <1>8 DEF IsPlace
<1>10. time' \in Nat /\ stats' \in StatsType
  <2>1. Stat_default(stats, 1) \in StatsType
    BY <1>1, TickCounted
  <2>2. time' \in Nat
    BY <1>1, <1>2
  <2> QED
    BY <1>2, <2>1, <2>2
<1>11. curr' \in Pids \cup {NoProc} /\ pc' \in {"loop"} \cup Outcomes
  BY <1>2 DEF Scheduling, SimulatorTypeOK
<1>12. /\ \A o \in Pids \ {p} : status'[o] = status[o]
       /\ status'[p] = "ABSENT" <=> status[p] = "ABSENT"
  BY <1>1, <1>6
<1>13. \A o \in Pids \ {p} :
          /\ proc'[o].currentPos = proc[o].currentPos
          /\ proc'[o].currInterval = proc[o].currInterval
          /\ proc'[o].currentline = proc[o].currentline
  BY <1>3, <1>4
<1> QED
  BY <1>2, <1>3, <1>4, <1>6, <1>7, <1>9, <1>10, <1>11, <1>12, <1>13, SchedulingFromParts

\* The exit for want of a free page: the head of BLOCKED has waited to the end.
LEMMA NoFreePageKeepsScheduling ==
    ASSUME Scheduling, PagingTypeOK', mem.allocated \in Nat, NoFreePage
    PROVE  Scheduling'
PROOF
<1> DEFINE p == Process_peek("BLOCKED")
<1>1. /\ queue \in [QueueNames -> Seq(Pids)] /\ QueuesMatchStatus
      /\ DiskServesHead /\ "BLOCKED" \in QueueNames
      /\ time \in Nat /\ stats \in StatsType
      /\ curr \in Pids \cup {NoProc} /\ fpos \in Nat /\ fpos # 0
  BY DEF Scheduling, SimulatorTypeOK, PlacesKnown, QueueNames, StatsType
<1>2. /\ pc = "loop" /\ pc' = "noFreePage" /\ proc' = Ticked
      /\ Process_existsWithStatus("BLOCKED") /\ Ticked[p].waitTime = 0
      /\ time' = time + 1 /\ stats' = Stat_default(stats, 1)
      /\ UNCHANGED <<fileVars, queue, curr, fpos, status>>
  BY DEF NoFreePage, InLoop, DiskDue, pagingVars
<1>3. /\ Ticked \in [Pids -> ProcType]
      /\ \A o \in Pids :
            /\ Ticked[o].currentline = proc[o].currentline
            /\ Ticked[o].currInterval = proc[o].currInterval
            /\ Ticked[o].currentPos = proc[o].currentPos
            /\ Ticked[o].waitTime =
                  IF status[o] = "BLOCKED" /\ o = p
                  THEN proc[o].waitTime - 1 ELSE proc[o].waitTime
  BY <1>2, TickedProperties
<1>4. p \in Pids /\ status[p] = "BLOCKED"
  BY <1>1, <1>2, HeadHasStatus
<1>5. Process_peek("BLOCKED")' = p
  BY <1>2 DEF Process_peek
<1> HIDE DEF p
<1>6. DiskServesHead'
  <2> SUFFICES ASSUME NEW o \in Pids
               PROVE  IF status[o] # "BLOCKED" THEN Ticked[o].waitTime = 0
                      ELSE IF o # p THEN Ticked[o].waitTime = DiskPenalty
                      ELSE Ticked[o].waitTime = 0
    BY <1>2, <1>5 DEF DiskServesHead
  <2> QED
    BY <1>1, <1>2, <1>3 DEF DiskServesHead, p
<1>7. IsPlace(p, proc'[p])
  <2>1. IsPlace(p, proc[p])
    BY <1>4 DEF Scheduling, PlacesKnown
  <2> QED
    BY <1>2, <1>3, <1>4, <2>1 DEF IsPlace
<1>8. time' \in Nat /\ stats' \in StatsType
  <2>1. Stat_default(stats, 1) \in StatsType
    BY <1>1, TickCounted
  <2>2. time' \in Nat
    BY <1>1, <1>2
  <2> QED
    BY <1>2, <2>1, <2>2
<1>9. QueuesMatchStatus'
  BY <1>1, <1>2 DEF QueuesMatchStatus
<1>10. pc' \in {"loop"} \cup Outcomes
  BY <1>2 DEF Outcomes
<1>11. \A o \in Pids :
          /\ status'[o] = status[o]
          /\ proc'[o].currentPos = proc[o].currentPos
          /\ proc'[o].currInterval = proc[o].currInterval
          /\ proc'[o].currentline = proc[o].currentline
  BY <1>2, <1>3
<1> QED
  BY <1>1, <1>2, <1>3, <1>4, <1>6, <1>7, <1>8, <1>9, <1>10, <1>11, SchedulingFromParts

\* The jump over idle time stops one tick before the disk is due.
LEMMA SkipIdleTimeKeepsScheduling ==
    ASSUME Scheduling, PagingTypeOK', mem.allocated \in Nat, SkipIdleTime
    PROVE  /\ Scheduling'
           /\ Process_peek("BLOCKED") \in Pids
           /\ proc[Process_peek("BLOCKED")].waitTime \in 2 .. DiskPenalty
           /\ Ticked[Process_peek("BLOCKED")].waitTime =
                 proc[Process_peek("BLOCKED")].waitTime - 1
           /\ proc'[Process_peek("BLOCKED")].waitTime = 1
PROOF
<1> DEFINE p    == Process_peek("BLOCKED")
           skip == Ticked[p].waitTime - 1
<1>1. /\ queue \in [QueueNames -> Seq(Pids)] /\ QueuesMatchStatus
      /\ "BLOCKED" \in QueueNames
      /\ time \in Nat /\ stats \in StatsType
      /\ curr \in Pids \cup {NoProc} /\ fpos \in Nat /\ fpos # 0
      /\ DiskPenalty \in Nat \ {0}
  BY SimulatorAssumption DEF Scheduling, SimulatorTypeOK, PlacesKnown, QueueNames, StatsType
<1>2. /\ pc = "loop" /\ pc' = pc /\ ~ DiskDue
      /\ Process_existsWithStatus("BLOCKED")
      /\ proc' = [Ticked EXCEPT ![p].waitTime = @ - skip]
      /\ time' = time + 1 + skip
      /\ stats' = Stat_default(Stat_default(stats, 1), skip)
      /\ UNCHANGED <<fileVars, queue, curr, fpos, status>>
  BY DEF SkipIdleTime, InLoop, Simulator_notDone, pagingVars
<1>3. /\ Ticked \in [Pids -> ProcType]
      /\ \A o \in Pids :
            /\ Ticked[o].currentline = proc[o].currentline
            /\ Ticked[o].currInterval = proc[o].currInterval
            /\ Ticked[o].currentPos = proc[o].currentPos
  BY <1>2, TickedProperties
<1>4. p \in Pids /\ status[p] = "BLOCKED"
  BY <1>1, <1>2, HeadHasStatus
<1>5. \A o \in Pids :
        IF status[o] # "BLOCKED" THEN Ticked[o].waitTime = 0
        ELSE IF o # p THEN Ticked[o].waitTime = DiskPenalty
        ELSE /\ proc[o].waitTime \in 2 .. DiskPenalty
             /\ Ticked[o].waitTime = proc[o].waitTime - 1
             /\ Ticked[o].waitTime \in 1 .. DiskPenalty
  BY <1>2, TickedWaits
<1>6. Process_peek("BLOCKED")' = p
  BY <1>2 DEF Process_peek
<1> HIDE DEF p
<1>7. skip \in Nat /\ Ticked[p].waitTime - skip = 1
  <2>1. Ticked[p].waitTime \in 1 .. DiskPenalty
    BY <1>4, <1>5
  <2> QED
    BY <1>1, <2>1
<1>8. /\ proc' \in [Pids -> ProcType]
      /\ proc'[p].waitTime = 1
      /\ \A o \in Pids : o # p => proc'[o] = Ticked[o]
      /\ \A o \in Pids :
            /\ proc'[o].currentline = proc[o].currentline
            /\ proc'[o].currInterval = proc[o].currInterval
            /\ proc'[o].currentPos = proc[o].currentPos
  <2>1. proc' = [Ticked EXCEPT ![p].waitTime = 1]
    BY <1>2, <1>7
  <2>2. 1 \in 0 .. DiskPenalty
    BY <1>1
  <2>3. [Ticked[p] EXCEPT !.waitTime = 1] \in ProcType
    BY <1>3, <1>4, <2>2 DEF ProcType
  <2> DEFINE r == [Ticked[p] EXCEPT !.waitTime = 1]
  <2>4. /\ r.waitTime = 1 /\ r.currentline = Ticked[p].currentline
        /\ r.currInterval = Ticked[p].currInterval /\ r.currentPos = Ticked[p].currentPos
    BY <1>3, <1>4 DEF ProcType
  <2>5. proc' = [Ticked EXCEPT ![p] = r]
    BY <1>3, <1>4, <2>1
  <2> HIDE DEF r
  <2> QED
    BY <1>3, <1>4, <2>3, <2>4, <2>5 DEF r
<1> HIDE DEF skip
<1>9. DiskServesHead'
  <2> SUFFICES ASSUME NEW o \in Pids
               PROVE  IF status[o] # "BLOCKED" THEN proc'[o].waitTime = 0
                      ELSE IF o # p THEN proc'[o].waitTime = DiskPenalty
                      ELSE proc'[o].waitTime \in 1 .. DiskPenalty
    BY <1>2, <1>6 DEF DiskServesHead
  <2>1. CASE o = p
    BY <1>1, <1>4, <1>8, <2>1
  <2>2. CASE o # p
    BY <1>5, <1>8, <2>2
  <2> QED
    BY <2>1, <2>2
<1>10. IsPlace(p, proc'[p])
  <2>1. IsPlace(p, proc[p])
    BY <1>4 DEF Scheduling, PlacesKnown
  <2> QED
    BY <1>4, <1>8, <2>1 DEF IsPlace
<1>11. time' \in Nat /\ stats' \in StatsType
  <2>1. Stat_default(stats, 1) \in StatsType
    BY <1>1, TickCounted
  <2>2. Stat_default(Stat_default(stats, 1), skip) \in StatsType
    BY <1>7, <2>1, TickCounted
  <2> QED
    BY <1>1, <1>2, <1>7, <2>2
<1>12. QueuesMatchStatus'
  BY <1>1, <1>2 DEF QueuesMatchStatus
<1>13. pc' \in {"loop"} \cup Outcomes
  BY <1>2
<1>14. \A o \in Pids :
          /\ status'[o] = status[o]
          /\ proc'[o].currentPos = proc[o].currentPos
          /\ proc'[o].currInterval = proc[o].currInterval
          /\ proc'[o].currentline = proc[o].currentline
  BY <1>2, <1>8
<1>15. Scheduling'
  BY <1>1, <1>2, <1>4, <1>8, <1>9, <1>10, <1>11, <1>12, <1>13, <1>14, SchedulingFromParts
<1> QED
  BY <1>4, <1>5, <1>8, <1>15 DEF p

\* The exit at the end of the file.
LEMMA ReadFailsKeepsScheduling ==
    ASSUME Scheduling, PagingTypeOK', mem.allocated \in Nat, ReadFails
    PROVE  Scheduling'
PROOF
<1>1. /\ queue \in [QueueNames -> Seq(Pids)] /\ QueuesMatchStatus
      /\ time \in Nat /\ stats \in StatsType
      /\ DiskPenalty \in Nat \ {0}
  BY SimulatorAssumption DEF Scheduling, SimulatorTypeOK, StatsType
<1>2. /\ pc = "loop" /\ pc' = "readError" /\ ~ DiskDue
      /\ Process_existsWithStatus("RUNNABLE")
      /\ proc' = Ticked /\ curr' = Running /\ fpos' = ReadPos
      /\ time' = time + 1 /\ stats' = Stat_default(stats, 1)
      /\ UNCHANGED <<fileVars, queue, status>>
  BY DEF ReadFails, Reading, InLoop, pagingVars
<1>3. /\ Ticked \in [Pids -> ProcType]
      /\ \A o \in Pids :
            /\ Ticked[o].currentline = proc[o].currentline
            /\ Ticked[o].currInterval = proc[o].currInterval
            /\ Ticked[o].currentPos = proc[o].currentPos
  BY <1>2, TickedProperties
<1>4. \A o \in Pids :
        IF status[o] # "BLOCKED" THEN Ticked[o].waitTime = 0
        ELSE IF o # Process_peek("BLOCKED") THEN Ticked[o].waitTime = DiskPenalty
        ELSE Ticked[o].waitTime \in 1 .. DiskPenalty
  BY <1>1, <1>2, TickedWaits
<1>5. Running \in Pids /\ status[Running] = "RUNNABLE" /\ ReadPos \in Nat \ {0}
  BY <1>2, RunningProperties
<1>6. Process_peek("BLOCKED")' = Process_peek("BLOCKED")
  BY <1>2 DEF Process_peek
<1>7. DiskServesHead'
  BY <1>2, <1>4, <1>6 DEF DiskServesHead
<1>8. IsPlace(Running, proc'[Running])
  <2>1. IsPlace(Running, proc[Running])
    BY <1>5 DEF Scheduling, PlacesKnown
  <2> QED
    BY <1>2, <1>3, <1>5, <2>1 DEF IsPlace
<1>9. time' \in Nat /\ stats' \in StatsType
  <2>1. Stat_default(stats, 1) \in StatsType
    BY <1>1, TickCounted
  <2>2. time' \in Nat
    BY <1>1, <1>2
  <2> QED
    BY <1>2, <2>1, <2>2
<1>10. QueuesMatchStatus'
  BY <1>1, <1>2 DEF QueuesMatchStatus
<1>11. pc' \in {"loop"} \cup Outcomes
  BY <1>2 DEF Outcomes
<1>12. \A o \in Pids :
          /\ status'[o] = status[o]
          /\ proc'[o].currentPos = proc[o].currentPos
          /\ proc'[o].currInterval = proc[o].currInterval
          /\ proc'[o].currentline = proc[o].currentline
  BY <1>2, <1>3
<1>13. curr' \in Pids \cup {NoProc} /\ fpos' \in Nat \ {0}
  BY <1>2, <1>5
<1> QED
  BY <1>1, <1>2, <1>3, <1>5, <1>7, <1>8, <1>9, <1>10, <1>11, <1>12, <1>13, SchedulingFromParts

-----------------------------------------------------------------------------
\* The jump to the next interval: its first line is beyond the interval that
\* was left.
LEMMA JumpProperties ==
    ASSUME Scheduling, NEW p \in Pids, status[p] = "RUNNABLE",
           Process_hasIntervalsRemaining(p),
           NEW r \in ProcType, r.currInterval = proc[p].currInterval
    PROVE  LET r2 == Process_jumpToNextInterval(r, p)
           IN  /\ r2 \in ProcType
               /\ r2.waitTime = r.waitTime
               /\ r2.currInterval = r.currInterval + 1
               /\ r2.currentline = lineIntervals[p][r.currInterval + 1].low
               /\ IsPlace(p, r2)
PROOF
<1> DEFINE n    == r.currInterval + 1
           next == lineIntervals[p][n]
           r2   == Process_jumpToNextInterval(r, p)
<1> SUFFICES /\ r2 \in ProcType
             /\ r2.waitTime = r.waitTime
             /\ r2.currInterval = n
             /\ r2.currentline = next.low
             /\ IsPlace(p, r2)
  OBVIOUS
<1>1. /\ trace \in Seq(VPages)
      /\ lineIntervals[p] = LineIntervals(trace, p)
      /\ lineIntervals[p] \in Seq(IntervalType(trace))
      /\ r.currInterval \in 1 .. Len(lineIntervals[p])
  BY PlaceProperties
<1>2. r.currInterval < Len(lineIntervals[p])
  BY DEF Process_hasIntervalsRemaining
<1>3. n \in 1 .. Len(lineIntervals[p]) /\ n \in Nat
  BY <1>1, <1>2, LenProperties
<1>4. next \in IntervalType(trace)
  <2> HIDE DEF n
  <2> QED
    BY <1>1, <1>3, ElementOfSeq
<1>5. next.low <= next.high /\ next.fpos_start = FposStart(next.low)
  <2> HIDE DEF n
  <2>1. \A m \in 1 .. Len(LineIntervals(trace, p)) :
          LET i == LineIntervals(trace, p)[m]
          IN  i.low <= i.high /\ i.fpos_start = FposStart(i.low)
    BY <1>1, IntervalsProperties
  <2> QED
    BY <1>1, <1>3, <2>1
<1>6. /\ next.low \in 1 .. Len(trace) /\ next.high \in 1 .. Len(trace)
      /\ Len(trace) \in Nat /\ next.fpos_start \in Nat
  BY <1>1, <1>4, LenProperties DEF IntervalType
<1>7. next.fpos_start # 0
  BY <1>5, <1>6 DEF FposStart, StartOf, EndOf
<1>8. next.low \in next.low .. next.high /\ next.low \in Nat
  BY <1>5, <1>6
<1>9. r2 = [r EXCEPT !.currInterval = n, !.currentline = next.low,
                     !.currentPos = next.fpos_start]
  BY DEF Process_jumpToNextInterval
<1> HIDE DEF n, next, r2
<1>10. /\ r2 \in ProcType /\ r2.waitTime = r.waitTime /\ r2.currInterval = n
       /\ r2.currentline = next.low /\ r2.currentPos = next.fpos_start
  BY <1>3, <1>6, <1>8, <1>9 DEF ProcType
<1>11. IsPlace(p, r2)
  BY <1>3, <1>7, <1>8, <1>10 DEF IsPlace, next
<1> QED
  BY <1>10, <1>11

\* What every turn with a reference does, whatever comes of the reference.
LEMMA ReadsProperties ==
    ASSUME Scheduling, mem.allocated \in Nat, Reads
    PROVE  /\ queue \in [QueueNames -> Seq(Pids)] /\ QueuesMatchStatus
           /\ status \in [Pids -> Statuses]
           /\ pc = "loop" /\ pc' = pc /\ UNCHANGED fileVars
           /\ Process_existsWithStatus("RUNNABLE")
           /\ time \in Nat /\ time' = time + 1 /\ time' \in Nat
           /\ stats \in StatsType /\ Stat_default(stats, 1) \in StatsType
           /\ Ticked \in [Pids -> ProcType]
           /\ \A o \in Pids :
                 /\ Ticked[o].currentline = proc[o].currentline
                 /\ Ticked[o].currInterval = proc[o].currInterval
                 /\ Ticked[o].currentPos = proc[o].currentPos
                 /\ Ticked[o].currentPos \in Nat
           /\ \A o \in Pids :
                 IF status[o] # "BLOCKED" THEN Ticked[o].waitTime = 0
                 ELSE IF o # Process_peek("BLOCKED") THEN Ticked[o].waitTime = DiskPenalty
                 ELSE Ticked[o].waitTime \in 1 .. DiskPenalty
           /\ Running \in Pids /\ status[Running] = "RUNNABLE"
           /\ IsPlace(Running, proc[Running])
           /\ ReadPos \in Nat \ {0} /\ PosAfterRead \in Nat \ {0}
PROOF
<1>1. /\ queue \in [QueueNames -> Seq(Pids)] /\ QueuesMatchStatus
      /\ status \in [Pids -> Statuses]
      /\ time \in Nat /\ stats \in StatsType
  BY DEF Scheduling, SimulatorTypeOK, PagingTypeOK, StatsType
<1>2. /\ pc = "loop" /\ pc' = pc /\ UNCHANGED fileVars /\ ~ DiskDue
      /\ Process_existsWithStatus("RUNNABLE") /\ time' = time + 1
  BY DEF Reads, Reading, InLoop
<1>3. /\ Ticked \in [Pids -> ProcType]
      /\ \A o \in Pids :
            /\ Ticked[o].currentline = proc[o].currentline
            /\ Ticked[o].currInterval = proc[o].currInterval
            /\ Ticked[o].currentPos = proc[o].currentPos
  BY <1>2, TickedProperties
<1>4. \A o \in Pids : Ticked[o].currentPos \in Nat
  BY <1>3 DEF ProcType
<1>5. /\ Running \in Pids /\ status[Running] = "RUNNABLE"
      /\ ReadPos \in Nat \ {0} /\ PosAfterRead \in Nat \ {0}
  BY <1>2, RunningProperties
<1>6. IsPlace(Running, proc[Running])
  BY <1>5 DEF Scheduling, PlacesKnown
<1>7. Stat_default(stats, 1) \in StatsType
  BY <1>1, TickCounted
<1>8. time' \in Nat
  BY <1>1, <1>2
<1>9. \A o \in Pids :
        IF status[o] # "BLOCKED" THEN Ticked[o].waitTime = 0
        ELSE IF o # Process_peek("BLOCKED") THEN Ticked[o].waitTime = DiskPenalty
        ELSE Ticked[o].waitTime \in 1 .. DiskPenalty
  BY <1>2, TickedWaits
<1> QED
  BY <1>1, <1>2, <1>3, <1>4, <1>5, <1>6, <1>7, <1>8, <1>9

\* Waits stay right when nobody enters or leaves BLOCKED.
LEMMA WaitsAfterHit ==
    ASSUME Scheduling, mem.allocated \in Nat, Reads,
           queue'["BLOCKED"] = queue["BLOCKED"],
           \A o \in Pids : proc'[o].waitTime = Ticked[o].waitTime,
           \A o \in Pids : (status'[o] = "BLOCKED") <=> (status[o] = "BLOCKED")
    PROVE  DiskServesHead'
PROOF
<1>1. pc' = "loop"
  BY ReadsProperties
<1>2. \A o \in Pids :
        IF status[o] # "BLOCKED" THEN Ticked[o].waitTime = 0
        ELSE IF o # Process_peek("BLOCKED") THEN Ticked[o].waitTime = DiskPenalty
        ELSE Ticked[o].waitTime \in 1 .. DiskPenalty
  BY ReadsProperties
<1>3. Process_peek("BLOCKED")' = Process_peek("BLOCKED")
  BY DEF Process_peek
<1> QED
  BY <1>1, <1>2, <1>3 DEF DiskServesHead

\* A hit on the last line of an interval: the process goes back into RUNNABLE
\* with the place of its next interval.
LEMMA JumpEffect ==
    ASSUME Scheduling, mem.allocated \in Nat, HitJumpsInterval
    PROVE  LET p == Running
           IN  /\ proc' \in [Pids -> ProcType]
               /\ \A o \in Pids \ {p} : proc'[o] = Ticked[o]
               /\ proc'[p].waitTime = Ticked[p].waitTime
               /\ proc'[p].currentline = lineIntervals[p][proc[p].currInterval + 1].low
               /\ IsPlace(p, proc'[p])
               /\ proc[p].currInterval < Len(lineIntervals[p])
               /\ proc[p].currentline = CurrInterval(p).high
               /\ status' = status
               /\ queue' \in [QueueNames -> Seq(Pids)] /\ QueuesMatchStatus'
               /\ \A s \in QueueNames \ {"RUNNABLE"} : queue'[s] = queue[s]
               /\ LET base == Tail(queue["RUNNABLE"])
                  IN  /\ base \in Seq(Pids) /\ IsInjective(base) /\ p \notin Range(base)
                      /\ queue'["RUNNABLE"] = ProcessQueue_enqueuePriority(base, p, proc')
PROOF
<1> DEFINE p    == Running
           base == Tail(queue["RUNNABLE"])
           r    == [Ticked EXCEPT ![p] = Process_jumpToNextInterval(@, p)]
<1> SUFFICES /\ proc' \in [Pids -> ProcType]
             /\ \A o \in Pids \ {p} : proc'[o] = Ticked[o]
             /\ proc'[p].waitTime = Ticked[p].waitTime
             /\ proc'[p].currentline = lineIntervals[p][proc[p].currInterval + 1].low
             /\ IsPlace(p, proc'[p])
             /\ proc[p].currInterval < Len(lineIntervals[p])
             /\ proc[p].currentline = CurrInterval(p).high
             /\ status' = status
             /\ queue' \in [QueueNames -> Seq(Pids)] /\ QueuesMatchStatus'
             /\ \A s \in QueueNames \ {"RUNNABLE"} : queue'[s] = queue[s]
             /\ base \in Seq(Pids) /\ IsInjective(base) /\ p \notin Range(base)
             /\ queue'["RUNNABLE"] = ProcessQueue_enqueuePriority(base, p, proc')
  OBVIOUS
<1>1. /\ Reads
      /\ Process_onLastLineInInterval(p) /\ Process_hasIntervalsRemaining(p)
      /\ proc' = r /\ Process_switchStatus("RUNNABLE", "RUNNABLE", r)
  BY DEF HitJumpsInterval, Hits
<1>2. /\ queue \in [QueueNames -> Seq(Pids)] /\ QueuesMatchStatus
      /\ status \in [Pids -> Statuses]
      /\ Process_existsWithStatus("RUNNABLE")
      /\ Ticked \in [Pids -> ProcType]
      /\ \A o \in Pids : /\ Ticked[o].currInterval = proc[o].currInterval
                         /\ Ticked[o].currentPos \in Nat
      /\ p \in Pids /\ status[p] = "RUNNABLE"
  BY <1>1, ReadsProperties
<1>3. p = Process_peek("RUNNABLE")
  BY DEF Running
<1> HIDE DEF p
<1>4. r[p] = Process_jumpToNextInterval(Ticked[p], p) /\ \A o \in Pids \ {p} : r[o] = Ticked[o]
  BY <1>2
<1>5. /\ r[p] \in ProcType
      /\ r[p].waitTime = Ticked[p].waitTime
      /\ r[p].currentline = lineIntervals[p][proc[p].currInterval + 1].low
      /\ IsPlace(p, r[p])
  BY <1>1, <1>2, <1>4, JumpProperties
<1>6. r \in [Pids -> ProcType]
  BY <1>2, <1>4, <1>5
<1> HIDE DEF r
<1>7. \A o \in Pids : r[o].currentPos \in Nat
  BY <1>6 DEF ProcType
<1>8. /\ "RUNNABLE" \in QueueNames /\ queue["RUNNABLE"] # << >>
  BY <1>2 DEF QueueNames, Process_existsWithStatus
<1>9. /\ status' = [status EXCEPT ![p] = "RUNNABLE"]
      /\ queue' \in [QueueNames -> Seq(Pids)] /\ QueuesMatchStatus'
      /\ queue'["RUNNABLE"] = ProcessQueue_enqueue(base, p, "RUNNABLE", r)
      /\ base \in Seq(Pids) /\ IsInjective(base) /\ p \notin Range(base)
      /\ \A s \in QueueNames \ {"RUNNABLE"} : queue'[s] = queue[s]
  BY <1>1, <1>2, <1>3, <1>7, <1>8, SwitchKeepsQueues
<1>10. status' = status
  BY <1>2, <1>9
<1>11. queue'["RUNNABLE"] = ProcessQueue_enqueuePriority(base, p, proc')
  BY <1>1, <1>9 DEF ProcessQueue_enqueue
<1>12. /\ proc[p].currInterval < Len(lineIntervals[p])
       /\ proc[p].currentline = CurrInterval(p).high
  BY <1>1 DEF Process_hasIntervalsRemaining, Process_onLastLineInInterval
<1> QED
  BY <1>1, <1>4, <1>5, <1>6, <1>9, <1>10, <1>11, <1>12

LEMMA JumpKeepsScheduling ==
    ASSUME Scheduling, PagingTypeOK', mem.allocated \in Nat, HitJumpsInterval
    PROVE  Scheduling'
PROOF
<1> DEFINE p == Running
<1>1. /\ Reads /\ stats' = Stat_hit(Stat_default(stats, 1))
      /\ fpos' = proc'[p].currentPos /\ curr' = p
  BY DEF HitJumpsInterval, Hits
<1>2. /\ p \in Pids /\ pc' \in {"loop"} \cup Outcomes /\ UNCHANGED fileVars
      /\ time' \in Nat /\ Stat_default(stats, 1) \in StatsType
      /\ Ticked \in [Pids -> ProcType]
      /\ \A o \in Pids :
            /\ Ticked[o].currentline = proc[o].currentline
            /\ Ticked[o].currInterval = proc[o].currInterval
            /\ Ticked[o].currentPos = proc[o].currentPos
  BY <1>1, ReadsProperties
<1>3. /\ proc' \in [Pids -> ProcType]
      /\ \A o \in Pids \ {p} : proc'[o] = Ticked[o]
      /\ proc'[p].waitTime = Ticked[p].waitTime
      /\ IsPlace(p, proc'[p])
      /\ status' = status
      /\ queue' \in [QueueNames -> Seq(Pids)] /\ QueuesMatchStatus'
      /\ \A s \in QueueNames \ {"RUNNABLE"} : queue'[s] = queue[s]
  BY JumpEffect
<1> HIDE DEF p
<1>4. DiskServesHead'
  <2>1. queue'["BLOCKED"] = queue["BLOCKED"]
    BY <1>3 DEF QueueNames
  <2>2. \A o \in Pids : proc'[o].waitTime = Ticked[o].waitTime
    BY <1>3
  <2> QED
    BY <1>1, <1>3, <2>1, <2>2, WaitsAfterHit
<1>5. stats' \in StatsType
  BY <1>1, <1>2, HitCounted
<1>6. fpos' \in Nat \ {0}
  BY <1>1, <1>2, <1>3 DEF IsPlace, ProcType
<1>7. curr' \in Pids \cup {NoProc}
  BY <1>1, <1>2
<1>8. \A o \in Pids \ {p} :
        /\ status'[o] = status[o]
        /\ proc'[o].currentPos = proc[o].currentPos
        /\ proc'[o].currInterval = proc[o].currInterval
        /\ proc'[o].currentline = proc[o].currentline
  BY <1>2, <1>3
<1> QED
  BY <1>2, <1>3, <1>4, <1>5, <1>6, <1>7, <1>8, SchedulingFromParts

\* A hit within an interval: the process goes one line on.
LEMMA AdvanceEffect ==
    ASSUME Scheduling, mem.allocated \in Nat, HitAdvances
    PROVE  LET p == Running
           IN  /\ proc' \in [Pids -> ProcType]
               /\ \A o \in Pids \ {p} : proc'[o] = Ticked[o]
               /\ proc'[p].waitTime = Ticked[p].waitTime
               /\ proc'[p].currentline = proc[p].currentline + 1
               /\ proc'[p].currentPos = proc[p].currentPos
               /\ IsPlace(p, proc'[p])
               /\ UNCHANGED <<queue, status>>
PROOF
<1> DEFINE p == Running
           r == [Ticked[p] EXCEPT !.currentline = @ + 1]
<1> SUFFICES /\ proc' \in [Pids -> ProcType]
             /\ \A o \in Pids \ {p} : proc'[o] = Ticked[o]
             /\ proc'[p].waitTime = Ticked[p].waitTime
             /\ proc'[p].currentline = proc[p].currentline + 1
             /\ proc'[p].currentPos = proc[p].currentPos
             /\ IsPlace(p, proc'[p])
             /\ UNCHANGED <<queue, status>>
  OBVIOUS
<1>1. /\ Reads /\ Process_hasLinesRemainingInInterval(p)
      /\ proc' = [Ticked EXCEPT ![p].currentline = @ + 1]
      /\ UNCHANGED <<queue, status>>
  BY DEF HitAdvances, Hits
<1>2. /\ Ticked \in [Pids -> ProcType]
      /\ \A o \in Pids :
            /\ Ticked[o].currentline = proc[o].currentline
            /\ Ticked[o].currInterval = proc[o].currInterval
            /\ Ticked[o].currentPos = proc[o].currentPos
      /\ p \in Pids /\ status[p] = "RUNNABLE" /\ IsPlace(p, proc[p])
  BY <1>1, ReadsProperties
<1> HIDE DEF p
<1>3. /\ proc' = [Ticked EXCEPT ![p] = r]
      /\ r \in ProcType /\ r.waitTime = Ticked[p].waitTime
      /\ r.currentline = Ticked[p].currentline + 1
      /\ r.currInterval = Ticked[p].currInterval /\ r.currentPos = Ticked[p].currentPos
  <2>1. Ticked[p] \in ProcType /\ Ticked[p].currentline + 1 \in Nat
    BY <1>2 DEF ProcType
  <2> QED
    BY <1>1, <1>2, <2>1 DEF ProcType
<1> HIDE DEF r
<1>4. /\ proc' \in [Pids -> ProcType] /\ proc'[p] = r
      /\ \A o \in Pids \ {p} : proc'[o] = Ticked[o]
  BY <1>2, <1>3
<1>5. IsPlace(p, r)
  <2>1. /\ CurrInterval(p) \in IntervalType(trace)
        /\ proc[p].currentline \in CurrInterval(p).low .. CurrInterval(p).high
    BY <1>2, PlaceProperties
  <2>2. CurrInterval(p).low \in Int /\ CurrInterval(p).high \in Int
    BY <2>1 DEF IntervalType
  <2>3. proc[p].currentline < CurrInterval(p).high
    BY <1>1 DEF Process_hasLinesRemainingInInterval
  <2>4. proc[p].currentline + 1 \in CurrInterval(p).low .. CurrInterval(p).high
    BY <2>1, <2>2, <2>3
  <2> QED
    BY <1>2, <1>3, <2>4 DEF IsPlace, CurrInterval
<1> QED
  BY <1>1, <1>2, <1>3, <1>4, <1>5

LEMMA AdvanceKeepsScheduling ==
    ASSUME Scheduling, PagingTypeOK', mem.allocated \in Nat, HitAdvances
    PROVE  Scheduling'
PROOF
<1> DEFINE p == Running
<1>1. /\ Reads /\ stats' = Stat_hit(Stat_default(stats, 1))
      /\ fpos' = PosAfterRead /\ curr' = p
  BY DEF HitAdvances, Hits
<1>2. /\ p \in Pids /\ pc' \in {"loop"} \cup Outcomes /\ UNCHANGED fileVars
      /\ time' \in Nat /\ Stat_default(stats, 1) \in StatsType
      /\ queue \in [QueueNames -> Seq(Pids)] /\ QueuesMatchStatus
      /\ PosAfterRead \in Nat \ {0}
      /\ \A o \in Pids :
            /\ Ticked[o].currentline = proc[o].currentline
            /\ Ticked[o].currInterval = proc[o].currInterval
            /\ Ticked[o].currentPos = proc[o].currentPos
  BY <1>1, ReadsProperties
<1>3. /\ proc' \in [Pids -> ProcType]
      /\ \A o \in Pids \ {p} : proc'[o] = Ticked[o]
      /\ proc'[p].waitTime = Ticked[p].waitTime
      /\ IsPlace(p, proc'[p])
      /\ UNCHANGED <<queue, status>>
  BY AdvanceEffect
<1> HIDE DEF p
<1>4. DiskServesHead'
  <2>1. \A o \in Pids : proc'[o].waitTime = Ticked[o].waitTime
    BY <1>3
  <2> QED
    BY <1>1, <1>3, <2>1, WaitsAfterHit
<1>5. stats' \in StatsType
  BY <1>1, <1>2, HitCounted
<1>6. queue' \in [QueueNames -> Seq(Pids)] /\ QueuesMatchStatus'
  BY <1>2, <1>3 DEF QueuesMatchStatus
<1>7. curr' \in Pids \cup {NoProc} /\ fpos' \in Nat \ {0}
  BY <1>1, <1>2
<1>8. \A o \in Pids \ {p} :
        /\ status'[o] = status[o]
        /\ proc'[o].currentPos = proc[o].currentPos
        /\ proc'[o].currInterval = proc[o].currInterval
        /\ proc'[o].currentline = proc[o].currentline
  BY <1>2, <1>3
<1> QED
  BY <1>2, <1>3, <1>4, <1>5, <1>6, <1>7, <1>8, SchedulingFromParts

\* A hit on the last line of all: the process is finished.
LEMMA FinishEffect ==
    ASSUME Scheduling, mem.allocated \in Nat, HitFinishes
    PROVE  LET p == Running
           IN  /\ proc' \in [Pids -> ProcType]
               /\ \A o \in Pids \ {p} : proc'[o] = Ticked[o]
               /\ proc'[p].waitTime = Ticked[p].waitTime
               /\ proc[p].currentline = CurrInterval(p).high
               /\ proc[p].currInterval = Len(lineIntervals[p])
               /\ status' = [status EXCEPT ![p] = "FINISHED"]
               /\ queue' \in [QueueNames -> Seq(Pids)] /\ QueuesMatchStatus'
               /\ queue'["RUNNABLE"] = Tail(queue["RUNNABLE"])
               /\ queue'["BLOCKED"] = queue["BLOCKED"]
PROOF
<1> DEFINE p == Running
           r == [Ticked[p] EXCEPT !.currentPos = 0]
           procs == [Ticked EXCEPT ![p].currentPos = 0]
<1> SUFFICES /\ proc' \in [Pids -> ProcType]
             /\ \A o \in Pids \ {p} : proc'[o] = Ticked[o]
             /\ proc'[p].waitTime = Ticked[p].waitTime
             /\ proc[p].currentline = CurrInterval(p).high
             /\ proc[p].currInterval = Len(lineIntervals[p])
             /\ status' = [status EXCEPT ![p] = "FINISHED"]
             /\ queue' \in [QueueNames -> Seq(Pids)] /\ QueuesMatchStatus'
             /\ queue'["RUNNABLE"] = Tail(queue["RUNNABLE"])
             /\ queue'["BLOCKED"] = queue["BLOCKED"]
  OBVIOUS
<1>1. /\ Reads /\ ~ Process_hasLinesRemainingInInterval(p)
      /\ ~ (Process_onLastLineInInterval(p) /\ Process_hasIntervalsRemaining(p))
      /\ proc' = procs /\ Process_switchStatus("RUNNABLE", "FINISHED", procs)
  BY DEF HitFinishes, Hits, Simulator_safelySwitchStatus, Running
<1>2. /\ queue \in [QueueNames -> Seq(Pids)] /\ QueuesMatchStatus
      /\ status \in [Pids -> Statuses]
      /\ Process_existsWithStatus("RUNNABLE")
      /\ Ticked \in [Pids -> ProcType]
      /\ p \in Pids /\ status[p] = "RUNNABLE"
  BY <1>1, ReadsProperties
<1>3. p = Process_peek("RUNNABLE")
  BY DEF Running
<1> HIDE DEF p
<1>4. procs = [Ticked EXCEPT ![p] = r] /\ r \in ProcType /\ r.waitTime = Ticked[p].waitTime
  <2>1. Ticked[p] \in ProcType
    BY <1>2
  <2> QED
    BY <1>2, <2>1 DEF ProcType
<1> HIDE DEF r, procs
<1>5. /\ procs \in [Pids -> ProcType] /\ procs[p] = r
      /\ \A o \in Pids \ {p} : procs[o] = Ticked[o]
  BY <1>2, <1>4
<1>6. \A o \in Pids : procs[o].currentPos \in Nat
  BY <1>5 DEF ProcType
<1>7. /\ "RUNNABLE" \in QueueNames /\ "FINISHED" \in QueueNames /\ "RUNNABLE" # "FINISHED"
      /\ "BLOCKED" \in QueueNames \ {"RUNNABLE", "FINISHED"} /\ queue["RUNNABLE"] # << >>
  BY <1>2 DEF QueueNames, Process_existsWithStatus
<1>8. /\ status' = [status EXCEPT ![p] = "FINISHED"]
      /\ queue' \in [QueueNames -> Seq(Pids)] /\ QueuesMatchStatus'
      /\ queue'["RUNNABLE"] = Tail(queue["RUNNABLE"])
      /\ queue'["BLOCKED"] = queue["BLOCKED"]
  <2>1. /\ status' = [status EXCEPT ![p] = "FINISHED"]
        /\ queue' \in [QueueNames -> Seq(Pids)] /\ QueuesMatchStatus'
        /\ queue'["RUNNABLE"] = Tail(queue["RUNNABLE"])
        /\ \A s \in QueueNames \ {"RUNNABLE", "FINISHED"} : queue'[s] = queue[s]
    BY <1>1, <1>2, <1>3, <1>6, <1>7, SwitchToOther
  <2> QED
    BY <1>7, <2>1
<1>9. /\ proc[p].currentline = CurrInterval(p).high
      /\ proc[p].currInterval = Len(lineIntervals[p])
  <2>1. /\ CurrInterval(p) \in IntervalType(trace)
        /\ proc[p].currentline \in CurrInterval(p).low .. CurrInterval(p).high
        /\ proc[p].currInterval \in 1 .. Len(lineIntervals[p])
        /\ lineIntervals[p] \in Seq(IntervalType(trace))
    BY <1>2, PlaceProperties
  <2>2. CurrInterval(p).low \in Int /\ CurrInterval(p).high \in Int
    BY <2>1 DEF IntervalType
  <2>3. proc[p].currentline = CurrInterval(p).high
    BY <1>1, <2>1, <2>2 DEF Process_hasLinesRemainingInInterval
  <2>4. ~ (proc[p].currInterval < Len(lineIntervals[p]))
    BY <1>1, <2>3 DEF Process_onLastLineInInterval, Process_hasIntervalsRemaining
  <2>5. Len(lineIntervals[p]) \in Nat
    BY <2>1, LenProperties
  <2> QED
    BY <2>1, <2>3, <2>4, <2>5
<1> QED
  BY <1>1, <1>4, <1>5, <1>8, <1>9

LEMMA FinishKeepsScheduling ==
    ASSUME Scheduling, PagingTypeOK', mem.allocated \in Nat, HitFinishes
    PROVE  Scheduling'
PROOF
<1> DEFINE p == Running
<1>1. /\ Reads /\ stats' = Stat_hit(Stat_default(stats, 1))
      /\ fpos' = PosAfterRead /\ curr' = NoProc
  BY DEF HitFinishes, Hits, Simulator_safelySwitchStatus
<1>2. /\ p \in Pids /\ pc' \in {"loop"} \cup Outcomes /\ UNCHANGED fileVars
      /\ time' \in Nat /\ Stat_default(stats, 1) \in StatsType
      /\ status \in [Pids -> Statuses] /\ status[p] = "RUNNABLE"
      /\ PosAfterRead \in Nat \ {0}
      /\ \A o \in Pids :
            /\ Ticked[o].currentline = proc[o].currentline
            /\ Ticked[o].currInterval = proc[o].currInterval
            /\ Ticked[o].currentPos = proc[o].currentPos
  BY <1>1, ReadsProperties
<1>3. /\ proc' \in [Pids -> ProcType]
      /\ \A o \in Pids \ {p} : proc'[o] = Ticked[o]
      /\ proc'[p].waitTime = Ticked[p].waitTime
      /\ status' = [status EXCEPT ![p] = "FINISHED"]
      /\ queue' \in [QueueNames -> Seq(Pids)] /\ QueuesMatchStatus'
      /\ queue'["BLOCKED"] = queue["BLOCKED"]
  BY FinishEffect
<1> HIDE DEF p
<1>4. DiskServesHead'
  <2>1. \A o \in Pids : proc'[o].waitTime = Ticked[o].waitTime
    BY <1>3
  <2>2. \A o \in Pids : (status'[o] = "BLOCKED") <=> (status[o] = "BLOCKED")
    BY <1>2, <1>3
  <2> QED
    BY <1>1, <1>3, <2>1, <2>2, WaitsAfterHit
<1>5. stats' \in StatsType
  BY <1>1, <1>2, HitCounted
<1>6. curr' \in Pids \cup {NoProc} /\ fpos' \in Nat \ {0}
  BY <1>1, <1>2
<1>7. \A o \in Pids \ {p} :
        /\ status'[o] = status[o]
        /\ proc'[o].currentPos = proc[o].currentPos
        /\ proc'[o].currInterval = proc[o].currInterval
        /\ proc'[o].currentline = proc[o].currentline
  BY <1>2, <1>3
<1>8. status'[p] = "FINISHED"
  BY <1>2, <1>3
<1> QED
  BY <1>2, <1>3, <1>4, <1>5, <1>6, <1>7, <1>8, SchedulingFromParts

\* A miss: the process goes to the end of BLOCKED with all of its wait ahead and
\* the position before the read.
LEMMA MissEffect ==
    ASSUME Scheduling, mem.allocated \in Nat, Misses
    PROVE  LET p == Running
           IN  /\ proc' \in [Pids -> ProcType]
               /\ \A o \in Pids \ {p} : proc'[o] = Ticked[o]
               /\ proc'[p].waitTime = DiskPenalty
               /\ proc'[p].currentline = proc[p].currentline
               /\ IsPlace(p, proc'[p])
               /\ status' = [status EXCEPT ![p] = "BLOCKED"]
               /\ queue' \in [QueueNames -> Seq(Pids)] /\ QueuesMatchStatus'
               /\ queue'["RUNNABLE"] = Tail(queue["RUNNABLE"])
               /\ queue'["BLOCKED"] = Append(queue["BLOCKED"], p)
PROOF
<1> DEFINE p == Running
           r == [Ticked[p] EXCEPT !.waitTime = DiskPenalty, !.currentPos = ReadPos]
           procs == [[Ticked EXCEPT ![p].waitTime = DiskPenalty] EXCEPT ![p].currentPos = ReadPos]
<1> SUFFICES /\ proc' \in [Pids -> ProcType]
             /\ \A o \in Pids \ {p} : proc'[o] = Ticked[o]
             /\ proc'[p].waitTime = DiskPenalty
             /\ proc'[p].currentline = proc[p].currentline
             /\ IsPlace(p, proc'[p])
             /\ status' = [status EXCEPT ![p] = "BLOCKED"]
             /\ queue' \in [QueueNames -> Seq(Pids)] /\ QueuesMatchStatus'
             /\ queue'["RUNNABLE"] = Tail(queue["RUNNABLE"])
             /\ queue'["BLOCKED"] = Append(queue["BLOCKED"], p)
  OBVIOUS
<1>1. /\ Reads
      /\ proc' = procs /\ Process_switchStatus("RUNNABLE", "BLOCKED", procs)
  BY DEF Misses, Simulator_safelySwitchStatus, Running
<1>2. /\ queue \in [QueueNames -> Seq(Pids)] /\ QueuesMatchStatus
      /\ status \in [Pids -> Statuses]
      /\ Process_existsWithStatus("RUNNABLE")
      /\ Ticked \in [Pids -> ProcType]
      /\ \A o \in Pids :
            /\ Ticked[o].currentline = proc[o].currentline
            /\ Ticked[o].currInterval = proc[o].currInterval
      /\ p \in Pids /\ status[p] = "RUNNABLE"
      /\ IsPlace(p, proc[p]) /\ ReadPos \in Nat \ {0}
  BY <1>1, ReadsProperties
<1>3. p = Process_peek("RUNNABLE") /\ DiskPenalty \in Nat
  BY SimulatorAssumption DEF Running
<1> HIDE DEF p
<1>4. /\ procs = [Ticked EXCEPT ![p] = r] /\ r \in ProcType
      /\ r.waitTime = DiskPenalty /\ r.currentPos = ReadPos
      /\ r.currentline = Ticked[p].currentline
      /\ r.currInterval = Ticked[p].currInterval
  <2> DEFINE pos == ReadPos
  <2>1. Ticked[p] \in ProcType /\ pos \in Nat /\ DiskPenalty \in 0 .. DiskPenalty
    BY <1>2, <1>3
  <2> HIDE DEF pos
  <2>2. /\ procs = [Ticked EXCEPT ![p] =
                       [Ticked[p] EXCEPT !.waitTime = DiskPenalty, !.currentPos = pos]]
        /\ [Ticked[p] EXCEPT !.waitTime = DiskPenalty, !.currentPos = pos] \in ProcType
    BY <1>2, <2>1 DEF ProcType, pos
  <2>3. /\ r.waitTime = DiskPenalty /\ r.currentPos = pos
        /\ r.currentline = Ticked[p].currentline
        /\ r.currInterval = Ticked[p].currInterval
    BY <2>1 DEF ProcType, pos
  <2> QED
    BY <2>2, <2>3 DEF pos
<1> HIDE DEF r, procs
<1>5. /\ procs \in [Pids -> ProcType] /\ procs[p] = r
      /\ \A o \in Pids \ {p} : procs[o] = Ticked[o]
  BY <1>2, <1>4
<1>6. \A o \in Pids : procs[o].currentPos \in Nat
  BY <1>5 DEF ProcType
<1>7. /\ "RUNNABLE" \in QueueNames /\ "BLOCKED" \in QueueNames /\ "RUNNABLE" # "BLOCKED"
      /\ queue["RUNNABLE"] # << >>
  BY <1>2 DEF QueueNames, Process_existsWithStatus
<1>8. /\ status' = [status EXCEPT ![p] = "BLOCKED"]
      /\ queue' \in [QueueNames -> Seq(Pids)] /\ QueuesMatchStatus'
      /\ queue'["RUNNABLE"] = Tail(queue["RUNNABLE"])
      /\ queue'["BLOCKED"] = Append(queue["BLOCKED"], p)
  <2>1. /\ status' = [status EXCEPT ![p] = "BLOCKED"]
        /\ queue' \in [QueueNames -> Seq(Pids)] /\ QueuesMatchStatus'
        /\ queue'["RUNNABLE"] = Tail(queue["RUNNABLE"])
        /\ queue'["BLOCKED"] = ProcessQueue_enqueue(queue["BLOCKED"], p, "BLOCKED", procs)
    BY <1>1, <1>2, <1>3, <1>6, <1>7, SwitchToOther
  <2> QED
    BY <1>7, <2>1 DEF ProcessQueue_enqueue
<1>9. IsPlace(p, procs[p])
  BY <1>2, <1>4, <1>5 DEF IsPlace
<1> QED
  BY <1>1, <1>2, <1>4, <1>5, <1>8, <1>9

\* The head of a queue stays the head when a process is put behind it.
LEMMA HeadOfAppend ==
    ASSUME NEW S, NEW q \in Seq(S), NEW e \in S
    PROVE  Head(Append(q, e)) = IF q = << >> THEN e ELSE Head(q)
PROOF
<1>1. Len(q) \in Nat /\ (q # << >> => Len(q) >= 1)
  BY LenProperties, EmptySeq
<1> QED
  BY <1>1

LEMMA MissKeepsScheduling ==
    ASSUME Scheduling, PagingTypeOK', mem.allocated \in Nat, Misses
    PROVE  Scheduling'
PROOF
<1> DEFINE p == Running
           h == Process_peek("BLOCKED")
<1>1. /\ Reads /\ stats' = Stat_miss(Stat_default(stats, 1))
      /\ fpos' = PosAfterRead /\ curr' = p
  BY DEF Misses, Simulator_safelySwitchStatus
<1>2. /\ p \in Pids /\ pc = "loop" /\ pc' = pc /\ UNCHANGED fileVars
      /\ time' \in Nat /\ Stat_default(stats, 1) \in StatsType
      /\ queue \in [QueueNames -> Seq(Pids)] /\ QueuesMatchStatus
      /\ status \in [Pids -> Statuses] /\ status[p] = "RUNNABLE"
      /\ PosAfterRead \in Nat \ {0}
      /\ \A o \in Pids :
            /\ Ticked[o].currentline = proc[o].currentline
            /\ Ticked[o].currInterval = proc[o].currInterval
            /\ Ticked[o].currentPos = proc[o].currentPos
      /\ \A o \in Pids :
            IF status[o] # "BLOCKED" THEN Ticked[o].waitTime = 0
            ELSE IF o # h THEN Ticked[o].waitTime = DiskPenalty
            ELSE Ticked[o].waitTime \in 1 .. DiskPenalty
  BY <1>1, ReadsProperties
<1>3. /\ proc' \in [Pids -> ProcType]
      /\ \A o \in Pids \ {p} : proc'[o] = Ticked[o]
      /\ proc'[p].waitTime = DiskPenalty
      /\ IsPlace(p, proc'[p])
      /\ status' = [status EXCEPT ![p] = "BLOCKED"]
      /\ queue' \in [QueueNames -> Seq(Pids)] /\ QueuesMatchStatus'
      /\ queue'["BLOCKED"] = Append(queue["BLOCKED"], p)
  BY MissEffect
<1> HIDE DEF p
<1>4. "BLOCKED" \in QueueNames /\ DiskPenalty \in Nat \ {0} /\ queue["BLOCKED"] \in Seq(Pids)
  BY <1>2, SimulatorAssumption DEF QueueNames
<1>5. Process_peek("BLOCKED")' = IF queue["BLOCKED"] = << >> THEN p ELSE h
  BY <1>2, <1>3, <1>4, HeadOfAppend DEF Process_peek
<1>6. queue["BLOCKED"] = << >> => \A o \in Pids : status[o] # "BLOCKED"
  BY <1>2, <1>4, HeadHasStatus DEF Process_existsWithStatus
<1> HIDE DEF h
<1>7. DiskServesHead'
  <2> DEFINE h2 == Process_peek("BLOCKED")'
  <2> SUFFICES ASSUME NEW o \in Pids
               PROVE  IF status'[o] # "BLOCKED" THEN proc'[o].waitTime = 0
                      ELSE IF o # h2 THEN proc'[o].waitTime = DiskPenalty
                      ELSE proc'[o].waitTime \in 1 .. DiskPenalty
    BY <1>2 DEF DiskServesHead
  <2>1. CASE o = p
    <3>1. status'[o] = "BLOCKED"
      BY <1>2, <1>3, <2>1
    <3> QED
      BY <1>3, <1>4, <2>1, <3>1
  <2>2. CASE o # p
    <3>1. status'[o] = status[o] /\ proc'[o] = Ticked[o]
      BY <1>2, <1>3, <2>2
    <3>2. status[o] = "BLOCKED" => h2 = h
      BY <1>5, <1>6
    <3> HIDE DEF h2
    <3> QED
      BY <1>2, <3>1, <3>2
  <2> QED
    BY <2>1, <2>2
<1>8. stats' \in StatsType
  BY <1>1, <1>2, MissCounted
<1>9. curr' \in Pids \cup {NoProc} /\ fpos' \in Nat \ {0}
  BY <1>1, <1>2
<1>10. \A o \in Pids \ {p} :
        /\ status'[o] = status[o]
        /\ proc'[o].currentPos = proc[o].currentPos
        /\ proc'[o].currInterval = proc[o].currInterval
        /\ proc'[o].currentline = proc[o].currentline
  BY <1>2, <1>3
<1>11. status'[p] = "BLOCKED"
  BY <1>2, <1>3
<1> QED
  BY <1>2, <1>3, <1>7, <1>8, <1>9, <1>10, <1>11, SchedulingFromParts

\* No step but those above changes who runs and who waits.
LEMMA RestKeepsScheduling ==
    ASSUME Scheduling, PagingTypeOK',
           DestroysPage \/ SimulationEnds \/ UNCHANGED vars
    PROVE  Scheduling'
PROOF
<1>1. /\ UNCHANGED <<fileVars, queue, proc, curr, fpos, time, stats, status>>
      /\ pc' = pc \/ (pc = "loop" /\ pc' = "done")
  BY DEF DestroysPage, DestroyVPage, SimulationEnds, vars, pagingVars
<1>2. SimulatorTypeOK'
  BY <1>1 DEF Scheduling, SimulatorTypeOK, fileVars, Outcomes
<1>3. QueuesMatchStatus'
  BY <1>1 DEF Scheduling, QueuesMatchStatus
<1>4. DiskServesHead'
  BY <1>1 DEF Scheduling, DiskServesHead, Process_peek
<1>5. PlacesKnown'
  BY <1>1 DEF Scheduling, PlacesKnown, IsPlace, fileVars
<1> QED
  BY <1>2, <1>3, <1>4, <1>5 DEF Scheduling

LEMMA StepKeepsScheduling ==
    ASSUME PagingInv, Scheduling, [Next]_vars
    PROVE  PagingInv' /\ Scheduling'
PROOF
<1>1. PagingInv'
  BY StepImplements, StepKeepsInv
<1>2. PagingTypeOK' /\ mem.allocated \in Nat
  BY <1>1 DEF PagingInv, PagingTypeOK, MemoryType
<1>3. Scheduling'
  BY <1>2, DiskCompletesKeepsScheduling, NoFreePageKeepsScheduling,
     SkipIdleTimeKeepsScheduling, ReadFailsKeepsScheduling, JumpKeepsScheduling,
     AdvanceKeepsScheduling, FinishKeepsScheduling, MissKeepsScheduling,
     RestKeepsScheduling DEF Next, Terminated
<1> QED
  BY <1>1, <1>3

-----------------------------------------------------------------------------
\* The lines of a trace belong to processes.
LEMMA PidsOfTrace ==
    ASSUME trace \in Seq(VPages)
    PROVE  /\ PidsOf(trace) \subseteq Pids
           /\ \A k \in DOMAIN trace : trace[k][1] \in Pids /\ trace[k][1] \in PidsOf(trace)
PROOF
<1> SUFFICES ASSUME NEW k \in DOMAIN trace PROVE trace[k][1] \in Pids
  BY DEF PidsOf
<1>1. trace[k] \in VPages
  BY LenProperties, ElementOfSeq
<1> QED
  BY <1>1 DEF VPages

\* What Process_init gives a process of the trace: the place of its first line.
LEMMA FirstPlace ==
    ASSUME Init, NEW p \in Pids, p \in PidsOf(trace)
    PROVE  /\ proc[p] \in ProcType /\ proc[p].waitTime = 0
           /\ IsPlace(p, proc[p])
           /\ proc[p].currentline = Min(LinesOf(trace, p))
           /\ proc[p].currentPos = FposStart(Min(LinesOf(trace, p)))
           /\ Min(LinesOf(trace, p)) \in LinesOf(trace, p)
           /\ Min(LinesOf(trace, p)) \in 1 .. Len(trace)
           /\ \A k \in LinesOf(trace, p) : Min(LinesOf(trace, p)) <= k
PROOF
<1> DEFINE ivs == lineIntervals[p]
           k   == Min(LinesOf(trace, p))
<1>1. trace \in Seq(VPages) /\ ivs = LineIntervals(trace, p)
  BY SimulatorAssumption DEF Init
<1>2. /\ k \in LinesOf(trace, p) /\ \A j \in LinesOf(trace, p) : k <= j
      /\ Len(ivs) >= 1 /\ ivs[1].low = k
  BY <1>1, FirstInterval
<1>3. k \in 1 .. Len(trace)
  BY <1>1, <1>2, LenProperties DEF LinesOf
<1>4. /\ ivs \in Seq(IntervalType(trace))
      /\ \A n \in 1 .. Len(ivs) : /\ ivs[n].low <= ivs[n].high
                                  /\ ivs[n].fpos_start = FposStart(ivs[n].low)
  BY <1>1, IntervalsProperties
<1>5. Len(ivs) \in Nat /\ 1 \in 1 .. Len(ivs) /\ ivs # << >>
  BY <1>2, <1>4, LenProperties, EmptySeq
<1>6. ivs[1] \in IntervalType(trace) /\ ivs[1].low <= ivs[1].high
      /\ ivs[1].fpos_start = FposStart(k)
  BY <1>2, <1>4, <1>5, ElementOfSeq
<1>7. FposStart(k) \in Nat \ {0}
  BY <1>3 DEF FposStart, StartOf, EndOf
<1>8. proc[p] = [currentline |-> ivs[1].low, currInterval |-> 1,
                 currentPos |-> ivs[1].fpos_start, waitTime |-> 0]
  BY <1>5 DEF Init, Process_init
<1>9. ivs[1].high \in Int
  BY <1>6 DEF IntervalType
<1> HIDE DEF ivs, k
<1>10. /\ proc[p].currentline = k /\ proc[p].currInterval = 1
       /\ proc[p].currentPos = FposStart(k) /\ proc[p].waitTime = 0
  BY <1>2, <1>6, <1>8
<1>11. proc[p] \in ProcType
  <2>1. k \in Nat /\ 1 \in Nat /\ 0 \in 0 .. DiskPenalty
    BY <1>3, SimulatorAssumption
  <2> QED
    BY <1>2, <1>6, <1>7, <1>8, <2>1 DEF ProcType
<1>12. IsPlace(p, proc[p])
  <2>1. k \in ivs[1].low .. ivs[1].high
    BY <1>2, <1>3, <1>6, <1>9
  <2> QED
    BY <1>5, <1>7, <1>10, <2>1 DEF IsPlace, ivs
<1> QED
  BY <1>2, <1>3, <1>10, <1>11, <1>12 DEF k

LEMMA InitScheduling == Init => Scheduling
PROOF
<1> SUFFICES ASSUME Init PROVE Scheduling
  OBVIOUS
<1>1. /\ trace \in Traces /\ trace \in Seq(VPages)
      /\ lineIntervals = [p \in Pids |-> LineIntervals(trace, p)]
      /\ status = [p \in Pids |-> IF p \in PidsOf(trace) THEN "RUNNABLE" ELSE "ABSENT"]
      /\ queue = [RUNNABLE |-> FirstRunnable(trace), BLOCKED |-> << >>, FINISHED |-> << >>]
      /\ proc = [p \in Pids |-> Process_init(p)]
      /\ curr = (IF trace = << >> THEN NoProc ELSE Head(queue.RUNNABLE))
      /\ fpos = StartOf(1) /\ time = 0 /\ pc = "loop"
      /\ stats = [tmu |-> 0, trp |-> 0, tmr |-> 0, tpi |-> 0]
  BY SimulatorAssumption DEF Init
<1>2. PagingTypeOK
  BY InitInv DEF Init, PagingInv
<1>3. PidsOf(trace) \subseteq Pids
  BY <1>1, PidsOfTrace
<1>4. /\ FirstRunnable(trace) \in Seq(PidsOf(trace))
      /\ IsInjective(FirstRunnable(trace))
      /\ Range(FirstRunnable(trace)) = PidsOf(trace)
  BY <1>1, FirstRunnableProperties
<1>5. FirstRunnable(trace) \in Seq(Pids)
  BY <1>3, <1>4, SeqMonotonic
<1>6. /\ queue["RUNNABLE"] = FirstRunnable(trace)
      /\ queue["BLOCKED"] = << >> /\ queue["FINISHED"] = << >>
      /\ DOMAIN queue = QueueNames
      /\ queue = [s \in QueueNames |-> queue[s]]
  BY <1>1 DEF QueueNames
<1>7. queue \in [QueueNames -> Seq(Pids)]
  <2> DEFINE first == FirstRunnable(trace)
             none  == << >>
  <2>1. first \in Seq(Pids) /\ none \in Seq(Pids)
    BY <1>5
  <2>2. \A s \in QueueNames : queue[s] = first \/ queue[s] = none
    BY <1>6 DEF QueueNames
  <2> HIDE DEF first, none
  <2>3. \A s \in QueueNames : queue[s] \in Seq(Pids)
    BY <2>1, <2>2
  <2> QED
    BY <1>6, <2>3
<1>8. QueuesMatchStatus
  <2>1. \A p \in Pids : status[p] = IF p \in PidsOf(trace) THEN "RUNNABLE" ELSE "ABSENT"
    BY <1>1
  <2>2. Range(queue["RUNNABLE"]) = {p \in Pids : status[p] = "RUNNABLE"}
    BY <1>3, <1>4, <1>6, <2>1
  <2>3. /\ {p \in Pids : status[p] = "BLOCKED"} = {}
        /\ {p \in Pids : status[p] = "FINISHED"} = {}
    BY <2>1
  <2>4. Range(<< >>) = {} /\ IsInjective(<< >>)
    BY DEF Range, IsInjective
  <2> QED
    BY <1>4, <1>6, <2>2, <2>3, <2>4 DEF QueuesMatchStatus, QueueNames
<1>9. \A p \in Pids : proc[p] \in ProcType /\ proc[p].waitTime = 0
  <2> TAKE p \in Pids
  <2>1. CASE p \in PidsOf(trace)
    BY <2>1, FirstPlace
  <2>2. CASE p \notin PidsOf(trace)
    <3>1. lineIntervals[p] = << >>
      BY <1>1, <2>2, NoInterval
    <3>2. proc[p] = [currentline |-> 0, currInterval |-> 0, currentPos |-> 0, waitTime |-> 0]
      BY <1>1, <3>1 DEF Process_init
    <3>3. 0 \in 0 .. DiskPenalty
      BY SimulatorAssumption
    <3> QED
      BY <3>2, <3>3 DEF ProcType
  <2> QED
    BY <2>1, <2>2
<1>10. proc \in [Pids -> ProcType]
  BY <1>1, <1>9
<1>11. DiskServesHead
  BY <1>1, <1>9 DEF DiskServesHead
<1>12. curr \in Pids \cup {NoProc}
  <2>1. CASE trace = << >>
    BY <1>1, <2>1
  <2>2. CASE trace # << >>
    <3>1. 1 \in DOMAIN trace
      BY <1>1, <2>2, LenProperties, EmptySeq
    <3>2. PidsOf(trace) # {}
      BY <3>1 DEF PidsOf
    <3>3. queue["RUNNABLE"] # << >>
      BY <1>4, <1>6, <3>2 DEF Range
    <3>4. Head(queue["RUNNABLE"]) \in Pids
      BY <1>5, <1>6, <3>3, HeadTailProperties
    <3>5. curr = Head(queue["RUNNABLE"])
      BY <1>1, <2>2
    <3> QED
      BY <3>4, <3>5
  <2> QED
    BY <2>1, <2>2
<1>13. fpos \in Nat /\ fpos # 0
  BY <1>1 DEF StartOf
<1>14. stats \in [tmu : Nat, trp : Nat, tmr : Nat, tpi : Nat]
  BY <1>1
<1>15. PlacesKnown
  <2>1. \A p \in Pids : (status[p] = "ABSENT") <=> p \notin PidsOf(trace)
    BY <1>1
  <2>2. \A p \in Pids : status[p] \in {"RUNNABLE", "BLOCKED"} => IsPlace(p, proc[p])
    BY <2>1, FirstPlace
  <2> QED
    BY <1>1, <1>13, <2>1, <2>2 DEF PlacesKnown
<1>16. SimulatorTypeOK
  BY <1>1, <1>2, <1>7, <1>10, <1>12, <1>13, <1>14 DEF SimulatorTypeOK
<1> QED
  BY <1>8, <1>11, <1>15, <1>16 DEF Scheduling

\* Paging's statuses are the ones the simulation starts with.
LEMMA InitImplements == Init => PagingInit
PROOF
<1>1. ASSUME Init PROVE status \in [Pids -> {"RUNNABLE", "ABSENT"}]
  BY <1>1 DEF Init
<1> QED
  BY <1>1 DEF Init, PagingInit

-----------------------------------------------------------------------------
\* Paging's invariant and the simulation's scheduling keep each other.
LEMMA SchedulingSafety == Spec => [](PagingInv /\ Scheduling)
PROOF
<1>1. Init => PagingInv /\ Scheduling
  BY InitImplements, InitInv, InitScheduling
<1>2. PagingInv /\ Scheduling /\ [Next]_vars => (PagingInv /\ Scheduling)'
  BY StepKeepsScheduling
<1> QED
  BY <1>1, <1>2, PTL DEF Spec

\* The main loop of simulator.c, with its own order of references and its own
\* disk, does with memory, page tables and the replacement module only what
\* Paging allows, so that everything proved of Paging is true of the program.
THEOREM SimulatorImplementsPaging == Spec => PagingSpec
PROOF
<1>1. Init => PagingInit
  BY InitImplements
<1>2. Scheduling /\ [Next]_vars => [PagingNext]_pagingVars
  BY StepImplements
<1> QED
  BY <1>1, <1>2, SchedulingSafety, PTL DEF Spec, PagingSpec

\* Every variable keeps its type; the unsigned waitTime never wraps below 0
\* (process.h, simulator.c:147-168).
THEOREM SimulatorTypeCorrect == Spec => []SimulatorTypeOK
PROOF
<1>1. Scheduling => SimulatorTypeOK
  BY DEF Scheduling
<1> QED
  BY <1>1, SchedulingSafety, PTL

\* A process is in the queue of its status, once, and in no other
\* (process.c:207-230).
THEOREM QueuesCorrect == Spec => []QueuesMatchStatus
PROOF
<1>1. Scheduling => QueuesMatchStatus
  BY DEF Scheduling
<1> QED
  BY <1>1, SchedulingSafety, PTL

\* The disk serves the head of BLOCKED and nobody else (simulator.c:147-168).
THEOREM DiskCorrect == Spec => []DiskServesHead
PROOF
<1>1. Scheduling => DiskServesHead
  BY DEF Scheduling
<1> QED
  BY <1>1, SchedulingSafety, PTL

-----------------------------------------------------------------------------
\* A read that completes moves the head of BLOCKED into RUNNABLE, at its place.
LEMMA DiskEffect ==
    ASSUME Scheduling, DiskCompletes
    PROVE  LET p == Process_peek("BLOCKED")
           IN  /\ p \in Pids /\ status[p] = "BLOCKED"
               /\ Process_existsWithStatus("BLOCKED")
               /\ status' = [status EXCEPT ![p] = "RUNNABLE"]
               /\ proc' = Ticked /\ Ticked[p].waitTime = 0
               /\ queue'["BLOCKED"] = Tail(queue["BLOCKED"])
               /\ queue'["RUNNABLE"] =
                     ProcessQueue_enqueuePriority(queue["RUNNABLE"], p, Ticked)
               /\ p \notin Range(queue["RUNNABLE"])
               /\ \A o \in Pids :
                     /\ proc'[o].currentPos = proc[o].currentPos
                     /\ proc'[o].currentPos \in Nat
                     /\ proc'[o].currentline = proc[o].currentline
PROOF
<1> DEFINE p == Process_peek("BLOCKED")
<1>1. /\ queue \in [QueueNames -> Seq(Pids)] /\ QueuesMatchStatus
      /\ status \in [Pids -> Statuses]
      /\ "BLOCKED" \in QueueNames /\ "RUNNABLE" \in QueueNames /\ "BLOCKED" # "RUNNABLE"
  BY DEF Scheduling, SimulatorTypeOK, PagingTypeOK, QueueNames
<1>2. /\ pc = "loop" /\ Process_existsWithStatus("BLOCKED") /\ Ticked[p].waitTime = 0
      /\ proc' = Ticked
      /\ Process_switchStatus("BLOCKED", "RUNNABLE", Ticked)
  BY DEF DiskCompletes, InLoop, DiskDue, Simulator_safelySwitchStatus
<1>3. /\ Ticked \in [Pids -> ProcType]
      /\ \A o \in Pids : /\ Ticked[o].currentline = proc[o].currentline
                         /\ Ticked[o].currentPos = proc[o].currentPos
  BY <1>2, TickedProperties
<1>4. \A o \in Pids : Ticked[o].currentPos \in Nat
  BY <1>3 DEF ProcType
<1>5. p \in Pids /\ status[p] = "BLOCKED"
  BY <1>1, <1>2, HeadHasStatus
<1>6. queue["BLOCKED"] # << >>
  BY <1>2 DEF Process_existsWithStatus
<1>7. /\ status' = [status EXCEPT ![p] = "RUNNABLE"]
      /\ queue'["BLOCKED"] = Tail(queue["BLOCKED"])
      /\ queue'["RUNNABLE"] = ProcessQueue_enqueue(queue["RUNNABLE"], p, "RUNNABLE", Ticked)
  BY <1>1, <1>2, <1>4, <1>6, SwitchToOther
<1>8. p \notin Range(queue["RUNNABLE"])
  BY <1>1, <1>5 DEF QueuesMatchStatus
<1> HIDE DEF p
<1>9. queue'["RUNNABLE"] = ProcessQueue_enqueuePriority(queue["RUNNABLE"], p, Ticked)
  BY <1>7 DEF ProcessQueue_enqueue
<1> QED
  BY <1>2, <1>3, <1>4, <1>5, <1>7, <1>8, <1>9 DEF p

\* Without its head a queue stays in order, whatever becomes of the head.
LEMMA TailInOrder ==
    ASSUME NEW q \in Seq(Pids), q # << >>, IsInjective(q), NEW a, NEW b, InOrder(q, a),
           \A o \in Pids \ {Head(q)} : b[o].currentPos = a[o].currentPos
    PROVE  InOrder(Tail(q), b)
PROOF
<1>1. /\ Len(q) \in Nat /\ DOMAIN q = 1 .. Len(q) /\ 1 \in 1 .. Len(q)
      /\ \A i \in 1 .. Len(q) : q[i] \in Pids
      /\ Head(q) = q[1]
  BY LenProperties, ElementOfSeq, EmptySeq
<1>2. Len(Tail(q)) = Len(q) - 1 /\ \A i \in 1 .. Len(Tail(q)) : Tail(q)[i] = q[i + 1]
  BY HeadTailProperties
<1>3. \A i \in 1 .. Len(q) - 1 : /\ i + 1 \in 1 .. Len(q)
                                 /\ q[i + 1] \in Pids \ {Head(q)}
                                 /\ b[q[i + 1]].currentPos = a[q[i + 1]].currentPos
  <2> TAKE i \in 1 .. Len(q) - 1
  <2>1. i + 1 \in 1 .. Len(q) /\ i + 1 # 1
    BY <1>1
  <2>2. q[i + 1] # q[1]
    BY <1>1, <2>1 DEF IsInjective
  <2>3. q[i + 1] \in Pids \ {Head(q)}
    BY <1>1, <2>1, <2>2
  <2> QED
    BY <2>1, <2>3
<1> SUFFICES ASSUME NEW i \in 1 .. Len(q) - 1, NEW j \in 1 .. Len(q) - 1, i < j
             PROVE  b[Tail(q)[i]].currentPos <= b[Tail(q)[j]].currentPos
  BY <1>2 DEF InOrder
<1>4. a[q[i + 1]].currentPos <= a[q[j + 1]].currentPos
  <2>1. i + 1 \in 1 .. Len(q) /\ j + 1 \in 1 .. Len(q) /\ i + 1 < j + 1
    BY <1>1
  <2> QED
    BY <2>1 DEF InOrder
<1>5. Tail(q)[i] = q[i + 1] /\ Tail(q)[j] = q[j + 1]
  BY <1>2
<1> QED
  BY <1>3, <1>4, <1>5

LEMMA InitRunnableSorted == Init => RunnableSorted
PROOF
<1> SUFFICES ASSUME Init PROVE InOrder(queue.RUNNABLE, proc)
  BY SortedIsInOrder
<1> DEFINE r == FirstRunnable(trace)
<1>1. trace \in Seq(VPages) /\ queue.RUNNABLE = r
  BY SimulatorAssumption DEF Init
<1>2. /\ r \in Seq(PidsOf(trace))
      /\ \A i, j \in 1 .. Len(r) : i < j =>
            Min(LinesOf(trace, r[i])) < Min(LinesOf(trace, r[j]))
  BY <1>1, FirstRunnableProperties
<1> HIDE DEF r
<1>3. PidsOf(trace) \subseteq Pids
  BY <1>1, PidsOfTrace
<1>4. \A i \in 1 .. Len(r) :
        /\ proc[r[i]].currentPos = FposStart(Min(LinesOf(trace, r[i])))
        /\ Min(LinesOf(trace, r[i])) \in 1 .. Len(trace)
  <2> TAKE i \in 1 .. Len(r)
  <2>1. r[i] \in PidsOf(trace)
    BY <1>2, ElementOfSeq
  <2> QED
    BY <1>3, <2>1, FirstPlace
<1>5. ASSUME NEW a \in 1 .. Len(trace), NEW b \in 1 .. Len(trace), a < b
      PROVE  FposStart(a) <= FposStart(b)
  BY <1>5 DEF FposStart, StartOf, EndOf
<1> SUFFICES ASSUME NEW i \in 1 .. Len(r), NEW j \in 1 .. Len(r), i < j
             PROVE  proc[r[i]].currentPos <= proc[r[j]].currentPos
  BY <1>1 DEF InOrder
<1>6. Min(LinesOf(trace, r[i])) < Min(LinesOf(trace, r[j]))
  BY <1>2
<1>7. FposStart(Min(LinesOf(trace, r[i]))) <= FposStart(Min(LinesOf(trace, r[j])))
  BY <1>4, <1>5, <1>6
<1> QED
  BY <1>4, <1>7

\* Every step leaves RUNNABLE in order: those that move a process change its
\* position only while it is out of the queue.
LEMMA StepKeepsRunnableSorted ==
    ASSUME PagingInv, Scheduling, RunnableSorted, [Next]_vars
    PROVE  RunnableSorted'
PROOF
<1> DEFINE q == queue["RUNNABLE"]
<1>1. /\ q \in Seq(Pids) /\ IsInjective(q) /\ Range(q) = {o \in Pids : status[o] = "RUNNABLE"}
      /\ mem.allocated \in Nat
  BY DEF Scheduling, SimulatorTypeOK, QueuesMatchStatus, QueueNames, PagingInv,
         PagingTypeOK, MemoryType
<1>2. InOrder(q, proc)
  BY SortedIsInOrder
<1> SUFFICES InOrder(queue'["RUNNABLE"], proc')
  BY DEF RunnableSorted, InOrder, IsSorted
<1>3. ASSUME queue' = queue, \A o \in Pids : proc'[o].currentPos = proc[o].currentPos
      PROVE  InOrder(queue'["RUNNABLE"], proc')
  <2>1. \A i \in 1 .. Len(q) : q[i] \in Pids
    BY <1>1, ElementOfSeq
  <2> QED
    BY <1>2, <1>3, <2>1 DEF InOrder
<1>4. CASE DiskCompletes
  <2> DEFINE p == Process_peek("BLOCKED")
  <2>1. /\ p \in Pids /\ p \notin Range(q)
        /\ queue'["RUNNABLE"] = ProcessQueue_enqueuePriority(q, p, proc')
        /\ \A o \in Pids : /\ proc'[o].currentPos = proc[o].currentPos
                           /\ proc'[o].currentPos \in Nat
    BY <1>4, DiskEffect
  <2> HIDE DEF p
  <2>2. InOrder(q, proc')
    <3>1. \A i \in 1 .. Len(q) : q[i] \in Pids
      BY <1>1, ElementOfSeq
    <3> QED
      BY <1>2, <2>1, <3>1 DEF InOrder
  <2> HIDE DEF q
  <2> QED
    BY <1>1, <2>1, <2>2, EnqueuePriorityProperties
<1>5. CASE HitJumpsInterval
  <2> DEFINE p    == Running
             base == Tail(q)
  <2>1. /\ p \in Pids /\ p = Head(q) /\ q # << >>
        /\ \A o \in Pids : Ticked[o].currentPos = proc[o].currentPos
    BY <1>5, ReadsProperties, <1>1
       DEF HitJumpsInterval, Hits, Running, Process_peek, Process_existsWithStatus
  <2>2. /\ proc' \in [Pids -> ProcType]
        /\ \A o \in Pids \ {p} : proc'[o] = Ticked[o]
        /\ base \in Seq(Pids) /\ IsInjective(base) /\ p \notin Range(base)
        /\ queue'["RUNNABLE"] = ProcessQueue_enqueuePriority(base, p, proc')
    BY <1>1, <1>5, JumpEffect
  <2> HIDE DEF p, q
  <2>3. \A o \in Pids : proc'[o].currentPos \in Nat
    BY <2>2 DEF ProcType
  <2>4. \A o \in Pids \ {Head(q)} : proc'[o].currentPos = proc[o].currentPos
    BY <2>1, <2>2
  <2>5. InOrder(Tail(q), proc')
    BY <1>1, <1>2, <2>1, <2>4, TailInOrder
  <2>6. InOrder(base, proc')
    BY <2>5 DEF base
  <2> HIDE DEF base
  <2> QED
    BY <2>1, <2>2, <2>3, <2>6, EnqueuePriorityProperties
<1>6. CASE HitFinishes \/ Misses
  <2> DEFINE p == Running
  <2>1. /\ p \in Pids /\ p = Head(q) /\ q # << >>
        /\ \A o \in Pids : Ticked[o].currentPos = proc[o].currentPos
    BY <1>6, ReadsProperties, <1>1
       DEF HitFinishes, Hits, Misses, Running, Process_peek, Process_existsWithStatus
  <2>2. /\ \A o \in Pids \ {p} : proc'[o] = Ticked[o]
        /\ queue'["RUNNABLE"] = Tail(q)
    BY <1>1, <1>6, FinishEffect, MissEffect
  <2> HIDE DEF p, q
  <2>3. \A o \in Pids \ {Head(q)} : proc'[o].currentPos = proc[o].currentPos
    BY <2>1, <2>2
  <2>4. InOrder(Tail(q), proc')
    BY <1>1, <1>2, <2>1, <2>3, TailInOrder
  <2> QED
    BY <2>2, <2>4
<1>7. CASE HitAdvances
  <2>1. /\ queue' = queue
        /\ \A o \in Pids \ {Running} : proc'[o] = Ticked[o]
        /\ proc'[Running].currentPos = proc[Running].currentPos
    BY <1>1, <1>7, AdvanceEffect
  <2>2. \A o \in Pids : Ticked[o].currentPos = proc[o].currentPos
    BY <1>1, <1>7, ReadsProperties DEF HitAdvances, Hits
  <2> QED
    BY <1>3, <2>1, <2>2
<1>8. CASE NoFreePage \/ ReadFails
  <2>1. proc' = Ticked /\ queue' = queue /\ pc = "loop"
    BY <1>8 DEF NoFreePage, ReadFails, Reading, InLoop
  <2> QED
    BY <1>3, <2>1, TickedProperties
<1>9. CASE SkipIdleTime
  <2>1. queue["RUNNABLE"] = << >> /\ queue' = queue
    BY <1>9 DEF SkipIdleTime, Process_existsWithStatus
  <2> QED
    BY <2>1 DEF InOrder
<1>10. CASE DestroysPage \/ SimulationEnds \/ UNCHANGED vars
  BY <1>3, <1>10 DEF DestroysPage, SimulationEnds, vars
<1> QED
  BY <1>4, <1>5, <1>6, <1>7, <1>8, <1>9, <1>10 DEF Next, Terminated

\* RUNNABLE stays sorted by position in the file (process.c:28-53,
\* simulator.c:218-222).
THEOREM RunnableStaysSorted == Spec => []RunnableSorted
PROOF
<1>1. PagingInv /\ Scheduling /\ RunnableSorted /\ [Next]_vars => RunnableSorted'
  BY StepKeepsRunnableSorted
<1> QED
  BY <1>1, InitRunnableSorted, SchedulingSafety, PTL DEF Spec

-----------------------------------------------------------------------------
\* What StatsAccount says of the counters alone, of counters s at time t.
CountsAt(s, t) ==
    /\ s.tmu <= MemSize * t
    /\ s.tmr + s.tpi <= s.trp

CountsBounded == CountsAt(stats, time)

\* Memory holds at most MemSize pages, so the ticks counted keep the counters within bounds.
LEMMA TickCounts ==
    ASSUME NEW s \in StatsType, NEW t \in Nat, NEW ticks \in Nat, PagingInv,
           CountsAt(s, t)
    PROVE  LET s2 == Stat_default(s, ticks)
           IN  /\ s2 \in StatsType
               /\ CountsAt(s2, t + ticks)
               /\ Process_existsWithStatus("RUNNABLE") => s2.tmr + s2.tpi + ticks <= s2.trp
PROOF
<1> DEFINE s2 == Stat_default(s, ticks)
<1>1. mem.allocated \in Nat /\ mem.allocated <= MemSize /\ MemSize \in Nat
  <2>1. mem.allocated \in Nat /\ FreeListAgrees(mem)
    BY InvParts DEF MemoryType
  <2> QED
    BY <2>1, TakenFinite, MemoryAssumption DEF FreeListAgrees
<1>2. /\ s2 \in StatsType
      /\ s2.tmu = s.tmu + mem.allocated * ticks
      /\ s2.trp = s.trp + IF Process_existsWithStatus("RUNNABLE") THEN ticks ELSE 0
      /\ s2.tmr = s.tmr /\ s2.tpi = s.tpi
  BY <1>1, TickCounted
<1>3. \A a, b, c \in Nat : a <= b => a * c <= b * c
  OBVIOUS
<1>4. mem.allocated * ticks <= MemSize * ticks
  BY <1>1, <1>3
<1>5. /\ MemSize * (t + ticks) = MemSize * t + MemSize * ticks
      /\ MemSize * t \in Nat /\ MemSize * ticks \in Nat /\ mem.allocated * ticks \in Nat
  BY <1>1
<1>6. s.tmu \in Nat /\ s.trp \in Nat /\ s.tmr \in Nat /\ s.tpi \in Nat
  BY DEF StatsType
<1> HIDE DEF s2
<1>7. s2.tmu <= MemSize * (t + ticks)
  <2> DEFINE x == MemSize * t
             y == MemSize * ticks
             z == mem.allocated * ticks
  <2>1. s.tmu <= x /\ z <= y /\ x \in Nat /\ y \in Nat /\ z \in Nat
    BY <1>4, <1>5 DEF CountsAt
  <2> HIDE DEF x, y, z
  <2>2. s.tmu + z <= x + y
    BY <1>6, <2>1
  <2> QED
    BY <1>2, <1>5, <2>2 DEF x, y, z
<1>8. /\ s2.tmr + s2.tpi <= s2.trp
      /\ Process_existsWithStatus("RUNNABLE") => s2.tmr + s2.tpi + ticks <= s2.trp
  BY <1>2, <1>6 DEF CountsAt
<1> QED
  BY <1>2, <1>7, <1>8 DEF CountsAt, s2

LEMMA StepKeepsCountsBounded ==
    ASSUME PagingInv, Scheduling, CountsBounded, [Next]_vars
    PROVE  CountsBounded'
PROOF
<1> DEFINE s1 == Stat_default(stats, 1)
<1>1. /\ stats \in StatsType /\ time \in Nat /\ CountsAt(stats, time)
      /\ mem.allocated \in Nat
  BY DEF Scheduling, SimulatorTypeOK, StatsType, CountsBounded, PagingInv,
         PagingTypeOK, MemoryType
<1>2. /\ s1 \in StatsType /\ CountsAt(s1, time + 1)
      /\ Process_existsWithStatus("RUNNABLE") => s1.tmr + s1.tpi + 1 <= s1.trp
  BY <1>1, TickCounts
<1> HIDE DEF s1
<1> SUFFICES CountsAt(stats', time')
  BY DEF CountsBounded
<1>3. CASE DiskCompletes \/ NoFreePage \/ ReadFails
  <2>1. stats' = s1 /\ time' = time + 1
    BY <1>3 DEF DiskCompletes, NoFreePage, ReadFails, s1
  <2> QED
    BY <1>2, <2>1
<1>4. CASE SkipIdleTime
  <2> DEFINE p    == Process_peek("BLOCKED")
             skip == Ticked[p].waitTime - 1
  <2>1. stats' = Stat_default(s1, skip) /\ time' = (time + 1) + skip
    BY <1>4 DEF SkipIdleTime, s1
  <2>2. skip \in Nat /\ time + 1 \in Nat
    <3>1. PagingTypeOK'
      BY <1>4 DEF Scheduling, SimulatorTypeOK, PagingTypeOK, SkipIdleTime, pagingVars
    <3>2. /\ proc[p].waitTime \in 2 .. DiskPenalty
          /\ Ticked[p].waitTime = proc[p].waitTime - 1
      BY <1>1, <1>4, <3>1, SkipIdleTimeKeepsScheduling
    <3> HIDE DEF p
    <3> QED
      BY <1>1, <3>2, SimulatorAssumption
  <2> HIDE DEF skip
  <2>3. CountsAt(Stat_default(s1, skip), (time + 1) + skip)
    BY <1>2, <2>2, TickCounts
  <2> QED
    BY <2>1, <2>3
<1>5. CASE HitJumpsInterval \/ HitAdvances \/ HitFinishes \/ Misses
  <2>1. Reads /\ (stats' = Stat_hit(s1) \/ stats' = Stat_miss(s1))
    BY <1>5 DEF HitJumpsInterval, HitAdvances, HitFinishes, Misses, Hits, s1
  <2>2. time' = time + 1 /\ s1.tmr + s1.tpi + 1 <= s1.trp
    BY <1>1, <1>2, <2>1, ReadsProperties
  <2>3. /\ stats'.tmu = s1.tmu /\ stats'.trp = s1.trp
        /\ \/ stats'.tmr = s1.tmr + 1 /\ stats'.tpi = s1.tpi
           \/ stats'.tmr = s1.tmr /\ stats'.tpi = s1.tpi + 1
    BY <1>2, <2>1, HitCounted, MissCounted
  <2>4. s1.tmr \in Nat /\ s1.tpi \in Nat /\ s1.trp \in Nat
    BY <1>2 DEF StatsType
  <2>5. stats'.tmr + stats'.tpi <= stats'.trp
    BY <2>2, <2>3, <2>4
  <2> QED
    BY <1>2, <2>2, <2>3, <2>5 DEF CountsAt
<1>6. CASE DestroysPage \/ SimulationEnds \/ UNCHANGED vars
  BY <1>1, <1>6 DEF DestroysPage, SimulationEnds, vars
<1> QED
  BY <1>3, <1>4, <1>5, <1>6 DEF Next, Terminated

LEMMA CountsBoundedSafety == Spec => []CountsBounded
PROOF
<1>1. Init => CountsBounded
  <2> SUFFICES ASSUME Init PROVE CountsBounded
    OBVIOUS
  <2>1. stats = [tmu |-> 0, trp |-> 0, tmr |-> 0, tpi |-> 0] /\ time = 0
    BY DEF Init
  <2>2. MemSize * 0 = 0
    BY MemoryAssumption
  <2> QED
    BY <2>1, <2>2 DEF CountsBounded, CountsAt
<1>2. PagingInv /\ Scheduling /\ CountsBounded /\ [Next]_vars => CountsBounded'
  BY StepKeepsCountsBounded
<1> QED
  BY <1>1, <1>2, SchedulingSafety, PTL DEF Spec

-----------------------------------------------------------------------------
\* The ticks the disk has worked, from the queue at the disk, the wait of its
\* head and the number of misses.
BusyAt(q, wait, misses) ==
    DiskPenalty * (misses - Len(q)) + IF q # << >> THEN DiskPenalty - wait ELSE 0

\* What the head of a queue has left to wait.
WaitOfHead(q, procs) == IF q # << >> THEN procs[Head(q)].waitTime ELSE 0

LEMMA BusyIsBusyAt ==
    /\ DiskBusy = BusyAt(queue["BLOCKED"], WaitOfHead(queue["BLOCKED"], proc), stats.tpi)
    /\ DiskBusy' = BusyAt(queue'["BLOCKED"], WaitOfHead(queue'["BLOCKED"], proc'), stats'.tpi)
BY DEF DiskBusy, BusyAt, WaitOfHead, Process_existsWithStatus, Process_peek

\* Another process behind the disk, with its miss counted: no tick of the disk.
\* A process that gets its page at the end of its wait: one tick.
LEMMA BusyChanges ==
    ASSUME NEW q \in Seq(Pids), NEW misses \in Nat, NEW w \in 0 .. DiskPenalty
    PROVE  /\ BusyAt(q, w, misses) \in Int
           /\ \A p \in Pids :
                 BusyAt(Append(q, p), IF q = << >> THEN DiskPenalty ELSE w, misses + 1)
                    = BusyAt(q, w, misses)
           /\ q # << >> =>
                 BusyAt(Tail(q), IF Tail(q) # << >> THEN DiskPenalty ELSE 0, misses)
                    = BusyAt(q, 1, misses) + 1
           /\ \A w2 \in 0 .. DiskPenalty :
                 BusyAt(q, w2, misses)
                    = BusyAt(q, w, misses) + IF q # << >> THEN w - w2 ELSE 0
PROOF
<1>1. Len(q) \in Nat /\ (q # << >> => Len(q) >= 1) /\ DiskPenalty \in Nat
  BY LenProperties, EmptySeq, SimulatorAssumption
<1>2. \A a \in Int : DiskPenalty * (a + 1) = DiskPenalty * a + DiskPenalty /\ DiskPenalty * a \in Int
  BY <1>1
<1> DEFINE base == DiskPenalty * (misses - Len(q))
<1>3. base \in Int
  BY <1>1, <1>2
<1>4. ASSUME NEW p \in Pids
      PROVE  BusyAt(Append(q, p), IF q = << >> THEN DiskPenalty ELSE w, misses + 1)
                = BusyAt(q, w, misses)
  <2>1. Len(Append(q, p)) = Len(q) + 1 /\ Append(q, p) # << >>
    BY <1>1, AppendProperties
  <2>2. misses + 1 - Len(Append(q, p)) = misses - Len(q)
    BY <1>1, <2>1
  <2>3. BusyAt(Append(q, p), IF q = << >> THEN DiskPenalty ELSE w, misses + 1)
          = base + (DiskPenalty - IF q = << >> THEN DiskPenalty ELSE w)
    BY <2>1, <2>2 DEF BusyAt
  <2>4. BusyAt(q, w, misses) = base + IF q # << >> THEN DiskPenalty - w ELSE 0
    BY DEF BusyAt
  <2> HIDE DEF base
  <2> QED
    BY <1>1, <1>3, <2>3, <2>4
<1>5. ASSUME q # << >>
      PROVE  BusyAt(Tail(q), IF Tail(q) # << >> THEN DiskPenalty ELSE 0, misses)
                = BusyAt(q, 1, misses) + 1
  <2>1. Len(Tail(q)) = Len(q) - 1
    BY <1>5, HeadTailProperties
  <2>2. misses - Len(Tail(q)) = (misses - Len(q)) + 1 /\ misses - Len(q) \in Int
    <3> DEFINE a == Len(Tail(q))
               b == Len(q)
    <3>1. a = b - 1 /\ b \in Nat
      BY <1>1, <2>1
    <3> HIDE DEF a, b
    <3>2. misses - a = (misses - b) + 1 /\ misses - b \in Int
      BY <3>1
    <3> QED
      BY <3>2 DEF a, b
  <2>3. DiskPenalty * (misses - Len(Tail(q))) = base + DiskPenalty
    BY <1>2, <2>2
  <2>4. BusyAt(q, 1, misses) = base + (DiskPenalty - 1)
    BY <1>5 DEF BusyAt
  <2> HIDE DEF base
  <2>5. BusyAt(Tail(q), IF Tail(q) # << >> THEN DiskPenalty ELSE 0, misses)
          = base + DiskPenalty + IF Tail(q) # << >> THEN DiskPenalty - DiskPenalty ELSE 0
    BY <2>3 DEF BusyAt
  <2>6. DiskPenalty - DiskPenalty = 0 /\ base + DiskPenalty + 0 = base + (DiskPenalty - 1) + 1
    BY <1>1, <1>3
  <2> QED
    BY <2>4, <2>5, <2>6
<1>6. ASSUME NEW w2 \in 0 .. DiskPenalty
      PROVE  BusyAt(q, w2, misses)
                = BusyAt(q, w, misses) + IF q # << >> THEN w - w2 ELSE 0
  <2>1. /\ BusyAt(q, w, misses) = base + IF q # << >> THEN DiskPenalty - w ELSE 0
        /\ BusyAt(q, w2, misses) = base + IF q # << >> THEN DiskPenalty - w2 ELSE 0
    BY DEF BusyAt
  <2> HIDE DEF base
  <2> QED
    BY <1>1, <1>3, <2>1
<1>7. BusyAt(q, w, misses) \in Int
  <2>1. BusyAt(q, w, misses) = base + IF q # << >> THEN DiskPenalty - w ELSE 0
    BY DEF BusyAt
  <2> HIDE DEF base
  <2> QED
    BY <1>1, <1>3, <2>1
<1> QED
  BY <1>4, <1>5, <1>6, <1>7

\* The waits of BLOCKED when the disk is not due: the tick takes 1 from its head.
LEMMA TickOfHead ==
    ASSUME Scheduling, pc = "loop"
    PROVE  LET q == queue["BLOCKED"]
               w == WaitOfHead(q, proc)
           IN  /\ q \in Seq(Pids) /\ w \in 0 .. DiskPenalty
               /\ WaitOfHead(q, Ticked) \in 0 .. DiskPenalty
               /\ WaitOfHead(q, Ticked) = IF q # << >> THEN w - 1 ELSE 0
PROOF
<1> DEFINE q == queue["BLOCKED"]
           h == Head(q)
<1>1. /\ q \in Seq(Pids) /\ proc \in [Pids -> ProcType] /\ 0 \in 0 .. DiskPenalty
      /\ queue \in [QueueNames -> Seq(Pids)] /\ QueuesMatchStatus /\ "BLOCKED" \in QueueNames
  BY SimulatorAssumption DEF Scheduling, SimulatorTypeOK, QueueNames
<1>2. Ticked \in [Pids -> ProcType]
  BY TickedProperties
<1>3. ASSUME q # << >>
      PROVE  /\ h \in Pids /\ proc[h].waitTime \in 0 .. DiskPenalty
             /\ Ticked[h].waitTime \in 0 .. DiskPenalty
             /\ Ticked[h].waitTime = proc[h].waitTime - 1
  <2>1. h \in Pids /\ status[h] = "BLOCKED" /\ h = Process_peek("BLOCKED")
    BY <1>1, <1>3, HeadHasStatus DEF Process_existsWithStatus, Process_peek
  <2> HIDE DEF h
  <2>2. Ticked[h].waitTime = proc[h].waitTime - 1
    BY <2>1, TickedProperties
  <2> QED
    BY <1>1, <1>2, <2>1, <2>2 DEF ProcType
<1> QED
  BY <1>1, <1>3 DEF WaitOfHead

\* When a read completes the next one starts, with all of its time ahead.
LEMMA NextReadStarts ==
    ASSUME PagingInv, Scheduling, DiskCompletes
    PROVE  LET q == queue["BLOCKED"]
           IN  /\ q # << >> /\ queue'["BLOCKED"] = Tail(q)
               /\ WaitOfHead(q, Ticked) = 0
               /\ WaitOfHead(Tail(q), proc') = IF Tail(q) # << >> THEN DiskPenalty ELSE 0
PROOF
<1> DEFINE q == queue["BLOCKED"]
           o == Head(Tail(q))
           h == Process_peek("BLOCKED")
<1>1. /\ pc = "loop" /\ q # << >> /\ queue'["BLOCKED"] = Tail(q)
      /\ proc' = Ticked /\ Ticked[h].waitTime = 0
  BY DiskEffect DEF DiskCompletes, InLoop, Process_existsWithStatus
<1>2. /\ queue \in [QueueNames -> Seq(Pids)] /\ QueuesMatchStatus
      /\ "BLOCKED" \in QueueNames /\ q \in Seq(Pids)
  BY DEF Scheduling, SimulatorTypeOK, QueueNames
<1>3. ASSUME Tail(q) # << >> PROVE Ticked[o].waitTime = DiskPenalty
  <2>1. /\ Range(q) = {a \in Pids : status[a] = "BLOCKED"}
        /\ IsInjective(Tail(q)) /\ Range(Tail(q)) = Range(q) \ {h}
        /\ Tail(q) \in Seq(Pids)
    BY <1>1, <1>2, PopHead DEF QueuesMatchStatus, Process_peek
  <2>2. o \in Range(Tail(q))
    BY <1>3, <2>1, PopHead
  <2>3. o \in Pids /\ status[o] = "BLOCKED" /\ o # h
    BY <2>1, <2>2
  <2> HIDE DEF o, h
  <2>4. proc[o].waitTime = DiskPenalty
    BY <2>3 DEF Scheduling, DiskServesHead, h
  <2>5. Ticked[o].waitTime = proc[o].waitTime
    BY <1>1, <2>3, TickedProperties DEF h
  <2> QED
    BY <2>4, <2>5
<1> QED
  BY <1>1, <1>3 DEF WaitOfHead, Process_peek

\* A hit leaves the disk to its tick.
LEMMA WaitAfterHitTurn ==
    ASSUME Scheduling, mem.allocated \in Nat,
           HitJumpsInterval \/ HitAdvances \/ HitFinishes
    PROVE  LET q == queue["BLOCKED"]
           IN  queue'["BLOCKED"] = q /\ WaitOfHead(q, proc') = WaitOfHead(q, Ticked)
PROOF
<1> DEFINE q == queue["BLOCKED"]
<1>1. "BLOCKED" \in QueueNames \ {"RUNNABLE"}
  BY DEF QueueNames
<1>2. queue'["BLOCKED"] = q
  BY <1>1, JumpEffect, AdvanceEffect, FinishEffect
<1>3. /\ \A o \in Pids \ {Running} : proc'[o] = Ticked[o]
      /\ proc'[Running].waitTime = Ticked[Running].waitTime
  BY JumpEffect, AdvanceEffect, FinishEffect
<1>4. \A o \in Pids : proc'[o].waitTime = Ticked[o].waitTime
  BY <1>3
<1>5. q # << >> => Head(q) \in Pids
  BY <1>1, HeadHasStatus DEF Scheduling, SimulatorTypeOK, Process_existsWithStatus, Process_peek
<1> QED
  BY <1>2, <1>4, <1>5 DEF WaitOfHead

\* A process that misses waits behind the others, and does not disturb the first.
LEMMA WaitAfterMiss ==
    ASSUME Scheduling, mem.allocated \in Nat, Misses
    PROVE  LET q == queue["BLOCKED"]
           IN  /\ queue'["BLOCKED"] = Append(q, Running)
               /\ WaitOfHead(Append(q, Running), proc')
                     = IF q = << >> THEN DiskPenalty ELSE WaitOfHead(q, Ticked)
PROOF
<1> DEFINE q == queue["BLOCKED"]
<1>1. /\ queue'["BLOCKED"] = Append(q, Running)
      /\ \A o \in Pids \ {Running} : proc'[o] = Ticked[o]
      /\ proc'[Running].waitTime = DiskPenalty
  BY MissEffect
<1>2. Running \in Pids /\ status[Running] = "RUNNABLE"
  BY ReadsProperties DEF Misses
<1>3. q \in Seq(Pids)
  BY DEF Scheduling, SimulatorTypeOK, QueueNames
<1>4. /\ Append(q, Running) # << >>
      /\ Head(Append(q, Running)) = IF q = << >> THEN Running ELSE Head(q)
  BY <1>2, <1>3, HeadOfAppend, AppendProperties
<1>5. ASSUME q # << >> PROVE Head(q) \in Pids /\ Head(q) # Running
  <2>1. Head(q) \in Pids /\ status[Head(q)] = "BLOCKED"
    BY <1>5, HeadHasStatus
       DEF Scheduling, SimulatorTypeOK, QueueNames, Process_existsWithStatus, Process_peek
  <2> QED
    BY <1>2, <2>1
<1> QED
  BY <1>1, <1>4, <1>5 DEF WaitOfHead

\* The disk's ticks and the clock advance together, but for at most a tick in a
\* turn that counts a hit or a miss.
LEMMA StepKeepsTimeAccounts ==
    ASSUME PagingInv, Scheduling, TimeAccounts, [Next]_vars
    PROVE  TimeAccounts'
PROOF
<1> DEFINE q  == queue["BLOCKED"]
           w  == WaitOfHead(q, proc)
           w1 == WaitOfHead(q, Ticked)
           s1 == Stat_default(stats, 1)
           tick == IF q # << >> THEN 1 ELSE 0
<1>1. /\ stats \in StatsType /\ s1 \in StatsType /\ time \in Nat
      /\ s1.tmr = stats.tmr /\ s1.tpi = stats.tpi
      /\ mem.allocated \in Nat /\ PagingTypeOK'
  <2>1. stats \in StatsType /\ time \in Nat /\ mem.allocated \in Nat
    BY DEF Scheduling, SimulatorTypeOK, StatsType, PagingInv, PagingTypeOK, MemoryType
  <2>2. PagingTypeOK'
    BY StepKeepsScheduling DEF PagingInv
  <2> QED
    BY <2>1, <2>2, TickCounted
<1>2. stats.tmr \in Nat /\ stats.tpi \in Nat /\ DiskPenalty \in Nat \ {0}
  BY <1>1, SimulatorAssumption DEF StatsType
<1>3. /\ DiskBusy = BusyAt(q, w, stats.tpi)
      /\ DiskBusy' = BusyAt(queue'["BLOCKED"], WaitOfHead(queue'["BLOCKED"], proc'), stats'.tpi)
  BY BusyIsBusyAt
<1> HIDE DEF s1
<1>4. ASSUME pc = "loop",
             NEW d \in Nat, NEW x \in Nat, NEW y \in Nat, x <= y,
             DiskBusy' = DiskBusy + d, time' = time + d + x,
             stats'.tmr + stats'.tpi = stats.tmr + stats.tpi + y,
             stats'.tmr \in Nat, stats'.tpi \in Nat, DiskBusy \in Int
      PROVE  TimeAccounts'
  BY <1>1, <1>2, <1>4 DEF TimeAccounts
<1>5. ASSUME pc = "loop"
      PROVE  /\ q \in Seq(Pids) /\ w \in 0 .. DiskPenalty /\ w1 \in 0 .. DiskPenalty
             /\ w1 = (IF q # << >> THEN w - 1 ELSE 0)
             /\ DiskBusy \in Int
             /\ BusyAt(q, w1, stats.tpi) = DiskBusy + tick
  <2>1. /\ q \in Seq(Pids) /\ w \in 0 .. DiskPenalty /\ w1 \in 0 .. DiskPenalty
        /\ w1 = IF q # << >> THEN w - 1 ELSE 0
    BY <1>5, TickOfHead
  <2> HIDE DEF q, w, w1
  <2>2. /\ BusyAt(q, w, stats.tpi) \in Int
        /\ BusyAt(q, w1, stats.tpi) = BusyAt(q, w, stats.tpi) + IF q # << >> THEN w - w1 ELSE 0
    <3> DEFINE misses == stats.tpi
    <3>1. misses \in Nat /\ q \in Seq(Pids) /\ w \in 0 .. DiskPenalty /\ w1 \in 0 .. DiskPenalty
      BY <1>2, <2>1
    <3> HIDE DEF misses
    <3>2. /\ BusyAt(q, w, misses) \in Int
          /\ \A w2 \in 0 .. DiskPenalty :
                BusyAt(q, w2, misses)
                   = BusyAt(q, w, misses) + IF q # << >> THEN w - w2 ELSE 0
      BY <3>1, BusyChanges
    <3> QED
      BY <3>1, <3>2 DEF misses
  <2>3. q # << >> => w - w1 = 1
    BY <1>2, <2>1
  <2> QED
    BY <1>3, <2>1, <2>2, <2>3
<1>6. CASE DiskCompletes
  <2>1. /\ pc = "loop" /\ time' = time + 1 /\ stats' = s1
        /\ q # << >> /\ queue'["BLOCKED"] = Tail(q)
        /\ proc' = Ticked /\ Ticked[Head(q)].waitTime = 0
    BY <1>6, DiskEffect DEF DiskCompletes, InLoop, s1, Process_existsWithStatus, Process_peek
  <2>2. w1 = 0 /\ w = 1 /\ q \in Seq(Pids)
    BY <1>2, <1>5, <2>1 DEF WaitOfHead
  <2>3. WaitOfHead(Tail(q), Ticked) = IF Tail(q) # << >> THEN DiskPenalty ELSE 0
    BY <1>6, <2>1, NextReadStarts
  <2>4. DiskBusy' = DiskBusy + 1
    <3> HIDE DEF q, w
    <3>1. BusyAt(Tail(q), IF Tail(q) # << >> THEN DiskPenalty ELSE 0, stats.tpi)
            = BusyAt(q, 1, stats.tpi) + 1
      <4>1. 0 \in 0 .. DiskPenalty
        BY <1>2
      <4> QED
        BY <1>2, <2>1, <2>2, <4>1, BusyChanges
    <3> QED
      BY <1>1, <1>3, <2>1, <2>2, <2>3, <3>1
  <2>5. /\ time' = time + 1 + 0
        /\ stats'.tmr + stats'.tpi = stats.tmr + stats.tpi + 0
        /\ stats'.tmr \in Nat /\ stats'.tpi \in Nat /\ 0 <= 0
    BY <1>1, <1>2, <2>1
  <2>6. DiskBusy \in Int
    BY <1>5, <2>1
  <2> QED
    BY <1>4, <2>1, <2>4, <2>5, <2>6
<1>7. CASE SkipIdleTime
  <2> DEFINE h    == Process_peek("BLOCKED")
             skip == Ticked[h].waitTime - 1
  <2>1. /\ pc = "loop" /\ time' = time + 1 + skip
        /\ stats' = Stat_default(s1, skip) /\ queue' = queue /\ q # << >> /\ h = Head(q)
    BY <1>7 DEF SkipIdleTime, InLoop, Simulator_notDone, s1, Process_existsWithStatus,
                Process_peek
  <2>2. /\ proc[h].waitTime \in 2 .. DiskPenalty
        /\ Ticked[h].waitTime = proc[h].waitTime - 1
        /\ proc'[h].waitTime = 1
    BY <1>1, <1>7, SkipIdleTimeKeepsScheduling
  <2> HIDE DEF h
  <2>3. /\ w = proc[h].waitTime /\ WaitOfHead(q, proc') = 1
        /\ skip \in Nat /\ 1 + skip = w - 1 /\ w - 1 \in Nat /\ time + 1 + skip = time + (w - 1)
    <3>1. w = proc[h].waitTime /\ WaitOfHead(q, proc') = proc'[h].waitTime
      BY <2>1 DEF WaitOfHead
    <3>2. w \in 2 .. DiskPenalty /\ skip = w - 1 - 1
      BY <2>2, <3>1
    <3> HIDE DEF w, skip
    <3>3. skip \in Nat /\ 1 + skip = w - 1 /\ w - 1 \in Nat /\ time + 1 + skip = time + (w - 1)
      BY <1>1, <1>2, <3>2
    <3> QED
      BY <2>2, <3>1, <3>3
  <2> HIDE DEF skip
  <2>4. stats'.tmr = stats.tmr /\ stats'.tpi = stats.tpi
    BY <1>1, <2>1, <2>3, TickCounted
  <2>5. DiskBusy' = DiskBusy + (w - 1)
    <3>1. 1 \in 0 .. DiskPenalty
      BY <1>2
    <3>2. BusyAt(q, 1, stats.tpi) = BusyAt(q, w, stats.tpi) + (w - 1)
      <4> DEFINE misses == stats.tpi
      <4>1. misses \in Nat /\ q \in Seq(Pids) /\ w \in 0 .. DiskPenalty /\ q # << >>
        BY <1>2, <1>5, <2>1
      <4> HIDE DEF q, w, misses
      <4>2. \A w2 \in 0 .. DiskPenalty :
                BusyAt(q, w2, misses)
                   = BusyAt(q, w, misses) + IF q # << >> THEN w - w2 ELSE 0
        BY <4>1, BusyChanges
      <4> QED
        BY <3>1, <4>1, <4>2 DEF misses
    <3> QED
      BY <1>3, <2>1, <2>3, <2>4, <3>2
  <2> HIDE DEF w, q
  <2>6. time' = time + (w - 1) + 0 /\ stats'.tmr + stats'.tpi = stats.tmr + stats.tpi + 0
    BY <1>1, <1>2, <2>1, <2>3, <2>4
  <2> QED
    BY <1>2, <1>4, <1>5, <2>1, <2>3, <2>4, <2>5, <2>6
<1>8. CASE HitJumpsInterval \/ HitAdvances \/ HitFinishes
  <2>1. /\ Reads /\ pc = "loop" /\ time' = time + 1 /\ stats' = Stat_hit(s1)
    BY <1>1, <1>8, ReadsProperties DEF HitJumpsInterval, HitAdvances, HitFinishes, Hits, s1
  <2>2. queue'["BLOCKED"] = q /\ WaitOfHead(q, proc') = w1
    BY <1>1, <1>8, WaitAfterHitTurn
  <2>4. /\ stats'.tmr = stats.tmr + 1 /\ stats'.tpi = stats.tpi
    BY <1>1, <2>1, HitCounted
  <2>5. DiskBusy' = DiskBusy + tick
    BY <1>3, <1>5, <2>1, <2>2, <2>4
  <2> HIDE DEF q, w, w1
  <2>6. /\ tick \in Nat /\ 1 - tick \in Nat /\ 1 - tick <= 1 /\ 1 \in Nat
        /\ time' = time + tick + (1 - tick)
        /\ stats'.tmr + stats'.tpi = stats.tmr + stats.tpi + 1
        /\ stats'.tmr \in Nat /\ stats'.tpi \in Nat
    BY <1>1, <1>2, <2>1, <2>4
  <2> HIDE DEF tick
  <2> QED
    BY <1>4, <1>5, <2>1, <2>5, <2>6
<1>9. CASE Misses
  <2>1. /\ Reads /\ pc = "loop" /\ time' = time + 1 /\ stats' = Stat_miss(s1)
        /\ Running \in Pids
    BY <1>1, <1>9, ReadsProperties DEF Misses, s1
  <2>2. /\ queue'["BLOCKED"] = Append(q, Running)
        /\ \A o \in Pids \ {Running} : proc'[o] = Ticked[o]
        /\ proc'[Running].waitTime = DiskPenalty
    BY <1>1, <1>9, MissEffect
  <2>3. stats'.tmr = stats.tmr /\ stats'.tpi = stats.tpi + 1
    BY <1>1, <2>1, MissCounted
  <2>4. WaitOfHead(Append(q, Running), proc') = IF q = << >> THEN DiskPenalty ELSE w1
    BY <1>1, <1>9, <2>2, WaitAfterMiss
  <2>5. DiskBusy' = DiskBusy + tick
    <3> DEFINE run == Running
    <3>1. BusyAt(Append(q, run), IF q = << >> THEN DiskPenalty ELSE w1, stats.tpi + 1)
            = BusyAt(q, w1, stats.tpi)
      <4>1. q \in Seq(Pids) /\ run \in Pids /\ w1 \in 0 .. DiskPenalty
        BY <1>5, <2>1
      <4> HIDE DEF q, w, w1, run
      <4> QED
        BY <1>2, <4>1, BusyChanges
    <3> QED
      BY <1>3, <1>5, <2>1, <2>2, <2>3, <2>4, <3>1
  <2> HIDE DEF q, w, w1
  <2>6. /\ tick \in Nat /\ 1 - tick \in Nat /\ 1 - tick <= 1 /\ 1 \in Nat
        /\ time' = time + tick + (1 - tick)
        /\ stats'.tmr + stats'.tpi = stats.tmr + stats.tpi + 1
        /\ stats'.tmr \in Nat /\ stats'.tpi \in Nat
    BY <1>1, <1>2, <2>1, <2>3
  <2> HIDE DEF tick
  <2> QED
    BY <1>4, <1>5, <2>1, <2>5, <2>6
<1>10. CASE NoFreePage \/ ReadFails
  BY <1>10 DEF NoFreePage, ReadFails, TimeAccounts
<1>11. CASE DestroysPage \/ SimulationEnds \/ UNCHANGED vars
  <2>1. /\ UNCHANGED <<queue, proc, stats, time>>
        /\ pc' = pc \/ pc = "loop"
    BY <1>11 DEF DestroysPage, SimulationEnds, vars
  <2> QED
    BY <2>1 DEF TimeAccounts, DiskBusy, Process_existsWithStatus, Process_peek
<1> QED
  BY <1>6, <1>7, <1>8, <1>9, <1>10, <1>11 DEF Next, Terminated

\* Running time is what the disk took, and at most one tick more for each hit
\* and each miss (simulator.c:157-168).
THEOREM TimeCorrect == Spec => []TimeAccounts
PROOF
<1>1. Init => TimeAccounts
  <2> SUFFICES ASSUME Init PROVE TimeAccounts
    OBVIOUS
  <2>1. /\ stats = [tmu |-> 0, trp |-> 0, tmr |-> 0, tpi |-> 0] /\ time = 0
        /\ queue.BLOCKED = << >>
    BY DEF Init
  <2>2. DiskPenalty * 0 = 0 /\ Len(<< >>) = 0
    BY SimulatorAssumption
  <2>3. DiskBusy = 0
    BY <2>1, <2>2 DEF DiskBusy, Process_existsWithStatus
  <2> QED
    BY <2>1, <2>3 DEF TimeAccounts
<1>2. PagingInv /\ Scheduling /\ TimeAccounts /\ [Next]_vars => TimeAccounts'
  BY StepKeepsTimeAccounts
<1> QED
  BY <1>1, <1>2, SchedulingSafety, PTL DEF Spec

-----------------------------------------------------------------------------
LEMMA DiskBusyIsInt == ASSUME Scheduling PROVE DiskBusy \in Int
PROOF
<1> DEFINE h == Process_peek("BLOCKED")
           n == Len(queue["BLOCKED"])
<1>1. /\ n \in Nat /\ stats.tpi \in Nat /\ DiskPenalty \in Nat
      /\ Process_existsWithStatus("BLOCKED") => proc[h].waitTime \in Nat
  <2>1. /\ queue \in [QueueNames -> Seq(Pids)] /\ "BLOCKED" \in QueueNames
        /\ proc \in [Pids -> ProcType] /\ stats.tpi \in Nat /\ QueuesMatchStatus
    BY DEF Scheduling, SimulatorTypeOK, QueueNames
  <2>2. Process_existsWithStatus("BLOCKED") => h \in Pids
    BY <2>1, HeadHasStatus
  <2>3. n \in Nat
    BY <2>1, LenProperties
  <2> HIDE DEF h, n
  <2> QED
    BY <2>1, <2>2, <2>3, SimulatorAssumption DEF ProcType
<1>2. DiskBusy = DiskPenalty * (stats.tpi - n)
                    + IF Process_existsWithStatus("BLOCKED")
                      THEN DiskPenalty - proc[h].waitTime ELSE 0
  BY DEF DiskBusy
<1>3. DiskPenalty * (stats.tpi - n) \in Int
  <2> HIDE DEF n
  <2> QED
    BY <1>1
<1> HIDE DEF h, n
<1> QED
  BY <1>1, <1>2, <1>3

\* TMU is at most what memory could hold all the time, TRP counts every tick
\* with a reference, and the ticks it leaves out are the disk's (stat.c:31-35).
THEOREM StatsCorrect == Spec => []StatsAccount
PROOF
<1>1. Scheduling /\ CountsBounded /\ TimeAccounts => StatsAccount
  <2> SUFFICES ASSUME Scheduling, CountsBounded, TimeAccounts, pc \in {"loop", "done"}
               PROVE  time <= stats.trp + DiskBusy
    BY DEF StatsAccount, CountsBounded, CountsAt
  <2>1. /\ stats.tmr \in Nat /\ stats.tpi \in Nat /\ stats.trp \in Nat
        /\ time \in Nat /\ DiskBusy \in Int
    BY DiskBusyIsInt DEF Scheduling, SimulatorTypeOK
  <2>2. time <= DiskBusy + stats.tmr + stats.tpi /\ stats.tmr + stats.tpi <= stats.trp
    BY DEF TimeAccounts, CountsBounded, CountsAt
  <2> DEFINE r == stats.tmr
             i == stats.tpi
             t == stats.trp
  <2>3. /\ r \in Nat /\ i \in Nat /\ t \in Nat /\ time \in Nat /\ DiskBusy \in Int
        /\ time <= DiskBusy + r + i /\ r + i <= t
    BY <2>1, <2>2
  <2> HIDE DEF r, i, t
  <2>4. time <= t + DiskBusy
    BY <2>3
  <2> QED
    BY <2>4 DEF t
<1> QED
  BY <1>1, SchedulingSafety, CountsBoundedSafety, TimeCorrect, PTL

-----------------------------------------------------------------------------
\* The lines of the trace that their processes have got past.
Passed == {k \in DOMAIN trace : \/ status[trace[k][1]] = "FINISHED"
                                \/ k < proc[trace[k][1]].currentline}
HitsCountPassed == stats.tmr = Cardinality(Passed)

LEMMA PassedFinite == ASSUME trace \in Seq(VPages) PROVE IsFiniteSet(Passed)
PROOF
<1>1. DOMAIN trace = 1 .. Len(trace) /\ Len(trace) \in Nat
  BY LenProperties
<1>2. IsFiniteSet(DOMAIN trace)
  BY <1>1, FS_Interval
<1> QED
  BY <1>2, FS_Subset DEF Passed

\* At the end of an interval every line of the process is either passed by then
\* or in an interval that follows.
LEMMA LinesAtEndOfInterval ==
    ASSUME Scheduling, NEW p \in Pids, status[p] = "RUNNABLE",
           proc[p].currentline = CurrInterval(p).high
    PROVE  LET n == proc[p].currInterval
               ivs == lineIntervals[p]
           IN  /\ n = Len(ivs) => \A k \in LinesOf(trace, p) : k <= proc[p].currentline
               /\ n < Len(ivs) =>
                     /\ proc[p].currentline < ivs[n + 1].low
                     /\ \A k \in LinesOf(trace, p) :
                           k <= proc[p].currentline \/ k >= ivs[n + 1].low
PROOF
<1> DEFINE n   == proc[p].currInterval
           ivs == lineIntervals[p]
           L   == proc[p].currentline
<1>1. /\ trace \in Seq(VPages) /\ ivs = LineIntervals(trace, p)
      /\ n \in 1 .. Len(ivs) /\ L = ivs[n].high
  BY PlaceProperties DEF CurrInterval
<1>2. /\ ivs \in Seq(IntervalType(trace))
      /\ \A m \in 1 .. Len(ivs) : ivs[m].low <= ivs[m].high
      /\ \A a, b \in 1 .. Len(ivs) : a < b => ivs[a].high < ivs[b].low
      /\ \A k \in LinesOf(trace, p) : \E m \in 1 .. Len(ivs) : k \in ivs[m].low .. ivs[m].high
  BY <1>1, IntervalsProperties
<1>3. Len(ivs) \in Nat /\ \A m \in 1 .. Len(ivs) : ivs[m].low \in Int /\ ivs[m].high \in Int
  <2>1. \A m \in 1 .. Len(ivs) : ivs[m] \in IntervalType(trace)
    BY <1>2, ElementOfSeq
  <2> QED
    BY <1>2, <2>1, LenProperties DEF IntervalType
<1> HIDE DEF n, ivs, L
<1>4. ASSUME NEW k \in LinesOf(trace, p)
      PROVE  \/ k <= L
             \/ n < Len(ivs) /\ k >= ivs[n + 1].low
  <2>1. PICK m \in 1 .. Len(ivs) : k \in ivs[m].low .. ivs[m].high
    BY <1>2
  <2>2. CASE m = n
    BY <1>1, <1>3, <2>1, <2>2
  <2>3. CASE m < n
    <3>1. ivs[m].high < ivs[n].low /\ ivs[n].low <= ivs[n].high
      BY <1>1, <1>2, <2>3
    <3> QED
      BY <1>1, <1>3, <2>1, <3>1
  <2>4. CASE m = n + 1
    BY <1>1, <1>3, <2>1, <2>4
  <2>5. CASE m > n + 1
    <3>1. n + 1 \in 1 .. Len(ivs)
      BY <1>1, <1>3, <2>5
    <3>2. ivs[n + 1].high < ivs[m].low /\ ivs[n + 1].low <= ivs[n + 1].high
      BY <1>2, <2>5, <3>1
    <3> QED
      BY <1>1, <1>3, <2>1, <2>5, <3>1, <3>2
  <2> QED
    BY <1>1, <1>3, <2>2, <2>3, <2>4, <2>5
<1>5. ASSUME n < Len(ivs) PROVE L < ivs[n + 1].low
  <2>1. n + 1 \in 1 .. Len(ivs) /\ n < n + 1
    BY <1>1, <1>3, <1>5
  <2> QED
    BY <1>1, <1>2, <2>1
<1>6. ~ (n = Len(ivs) /\ n < Len(ivs))
  BY <1>1, <1>3
<1> QED
  BY <1>4, <1>5, <1>6 DEF n, ivs, L

\* A hit takes its process past the line it is on, and past no other line of
\* anybody's.
LEMMA HitPassesLine ==
    ASSUME Scheduling, mem.allocated \in Nat,
           HitJumpsInterval \/ HitAdvances \/ HitFinishes
    PROVE  /\ proc[Running].currentline \notin Passed
           /\ Passed' = Passed \cup {proc[Running].currentline}
PROOF
<1> DEFINE p == Running
           L == proc[p].currentline
<1>1. Reads
  BY DEF HitJumpsInterval, HitAdvances, HitFinishes, Hits
<1>2. /\ p \in Pids /\ status[p] = "RUNNABLE" /\ status \in [Pids -> Statuses]
      /\ trace' = trace
      /\ \A o \in Pids : Ticked[o].currentline = proc[o].currentline
  BY <1>1, ReadsProperties DEF fileVars
<1>3. /\ trace \in Seq(VPages) /\ L \in 1 .. Len(trace) /\ trace[L][1] = p
      /\ DOMAIN trace = 1 .. Len(trace) /\ Len(trace) \in Nat
  BY <1>2, PlaceProperties, LenProperties
<1>4. \A k \in DOMAIN trace : trace[k][1] \in Pids
  BY <1>3, PidsOfTrace
<1>5. L \notin Passed
  BY <1>2, <1>3 DEF Passed
<1>6. /\ \A o \in Pids \ {p} : proc'[o] = Ticked[o]
      /\ \A o \in Pids \ {p} : status'[o] = status[o]
  <2>1. CASE HitJumpsInterval
    BY <1>2, <2>1, JumpEffect
  <2>2. CASE HitAdvances
    BY <1>2, <2>2, AdvanceEffect
  <2>3. CASE HitFinishes
    BY <1>2, <2>3, FinishEffect
  <2> QED
    BY <2>1, <2>2, <2>3
<1>7. Passed' = {k \in DOMAIN trace : \/ status'[trace[k][1]] = "FINISHED"
                                      \/ k < proc'[trace[k][1]].currentline}
  BY <1>2 DEF Passed
<1>8. ASSUME NEW k \in DOMAIN trace, trace[k][1] # p
      PROVE  k \in Passed' <=> k \in Passed
  <2> DEFINE o == trace[k][1]
  <2>1. o \in Pids \ {p}
    BY <1>4, <1>8
  <2>2. proc'[o].currentline = proc[o].currentline /\ status'[o] = status[o]
    BY <1>2, <1>6, <2>1
  <2> HIDE DEF p
  <2> QED
    BY <1>7, <2>2 DEF Passed
<1>9. ASSUME NEW k \in DOMAIN trace, trace[k][1] = p
      PROVE  k \in Passed' <=> k <= L
  <2>1. k \in LinesOf(trace, p) /\ k \in Nat
    BY <1>3, <1>9 DEF LinesOf
  <2>2. k \in Passed' <=> (status'[p] = "FINISHED" \/ k < proc'[p].currentline)
    BY <1>7, <1>9
  <2>3. CASE HitAdvances
    <3>1. status'[p] = "RUNNABLE" /\ proc'[p].currentline = L + 1
      BY <1>2, <2>3, AdvanceEffect
    <3> HIDE DEF p, L
    <3> QED
      BY <1>3, <2>1, <2>2, <3>1
  <2>4. CASE HitJumpsInterval
    <3> DEFINE next == lineIntervals[p][proc[p].currInterval + 1].low
    <3>1. /\ status'[p] = "RUNNABLE" /\ proc'[p].currentline = next
          /\ proc[p].currInterval < Len(lineIntervals[p])
          /\ L = CurrInterval(p).high /\ next \in Nat
      <4>1. proc'[p] \in ProcType
        BY <1>2, <2>4, JumpEffect
      <4>2. /\ status'[p] = "RUNNABLE" /\ proc'[p].currentline = next
            /\ proc[p].currInterval < Len(lineIntervals[p])
            /\ L = CurrInterval(p).high
        BY <1>2, <2>4, JumpEffect
      <4> QED
        BY <4>1, <4>2 DEF ProcType
    <3>2. L < next /\ (k <= L \/ k >= next)
      <4> HIDE DEF p
      <4> QED
        BY <1>2, <2>1, <3>1, LinesAtEndOfInterval
    <3> HIDE DEF p, L, next
    <3> QED
      BY <1>3, <2>1, <2>2, <3>1, <3>2
  <2>5. CASE HitFinishes
    <3>1. /\ status'[p] = "FINISHED"
          /\ L = CurrInterval(p).high
          /\ proc[p].currInterval = Len(lineIntervals[p])
      BY <1>2, <2>5, FinishEffect
    <3>2. k <= L
      <4> HIDE DEF p
      <4> QED
        BY <1>2, <2>1, <3>1, LinesAtEndOfInterval
    <3> QED
      BY <2>2, <3>1, <3>2
  <2> QED
    BY <2>3, <2>4, <2>5
<1>10. ASSUME NEW k \in DOMAIN trace, trace[k][1] = p
       PROVE  k \in Passed <=> k < L
  BY <1>2, <1>10 DEF Passed
<1>11. Passed \subseteq DOMAIN trace /\ Passed' \subseteq DOMAIN trace
  BY <1>7 DEF Passed
<1> HIDE DEF p, L
<1>12. ASSUME NEW k \in DOMAIN trace
       PROVE  k \in Passed' <=> (k \in Passed \/ k = L)
  <2>1. CASE trace[k][1] = p
    BY <1>3, <1>9, <1>10, <2>1
  <2>2. CASE trace[k][1] # p
    BY <1>3, <1>8, <2>2
  <2> QED
    BY <2>1, <2>2
<1>13. Passed' = Passed \cup {L}
  BY <1>3, <1>11, <1>12
<1> QED
  BY <1>5, <1>13 DEF p, L

\* A turn without a hit takes nobody past a line, and finishes nobody.
LEMMA OthersPassNothing ==
    ASSUME PagingInv, Scheduling, [Next]_vars,
           ~ (HitJumpsInterval \/ HitAdvances \/ HitFinishes)
    PROVE  /\ trace' = trace /\ stats'.tmr = stats.tmr
           /\ Passed' = Passed
           /\ \A o \in Pids : /\ (status'[o] = "FINISHED") <=> (status[o] = "FINISHED")
                             /\ proc'[o].currentline = proc[o].currentline
PROOF
<1> DEFINE Goal == /\ trace' = trace /\ stats'.tmr = stats.tmr
                   /\ Passed' = Passed
                   /\ \A o \in Pids : /\ (status'[o] = "FINISHED") <=> (status[o] = "FINISHED")
                                     /\ proc'[o].currentline = proc[o].currentline
<1> SUFFICES Goal
  OBVIOUS
<1>1. /\ stats \in StatsType /\ mem.allocated \in Nat /\ trace \in Seq(VPages)
      /\ status \in [Pids -> Statuses]
  BY SimulatorAssumption
     DEF Scheduling, SimulatorTypeOK, StatsType, PagingInv, PagingTypeOK, MemoryType
<1>2. ASSUME trace' = trace, stats'.tmr = stats.tmr,
             \A o \in Pids : /\ (status'[o] = "FINISHED") <=> (status[o] = "FINISHED")
                             /\ proc'[o].currentline = proc[o].currentline
      PROVE  Goal
  <2>1. \A k \in DOMAIN trace : trace[k][1] \in Pids
    BY <1>1, PidsOfTrace
  <2>2. Passed' = Passed
    BY <1>2, <2>1 DEF Passed
  <2> QED
    BY <1>2, <2>2
<1> HIDE DEF Goal
<1>3. Stat_default(stats, 1) \in StatsType /\ Stat_default(stats, 1).tmr = stats.tmr
  BY <1>1, TickCounted
<1>5. CASE DiskCompletes
  <2>1. /\ trace' = trace /\ stats'.tmr = stats.tmr
    BY <1>3, <1>5 DEF DiskCompletes, fileVars
  <2> DEFINE p == Process_peek("BLOCKED")
  <2>2. /\ p \in Pids /\ status[p] = "BLOCKED"
        /\ status' = [status EXCEPT ![p] = "RUNNABLE"]
        /\ \A o \in Pids : proc'[o].currentline = proc[o].currentline
    BY <1>5, DiskEffect
  <2> HIDE DEF p
  <2>3. \A o \in Pids : (status'[o] = "FINISHED") <=> (status[o] = "FINISHED")
    BY <1>1, <2>2
  <2> QED
    BY <1>2, <2>1, <2>2, <2>3
<1>6. CASE Misses
  <2>1. stats'.tmr = stats.tmr
    BY <1>3, <1>6, MissCounted DEF Misses
  <2>2. /\ Reads /\ trace' = trace /\ Running \in Pids /\ status[Running] = "RUNNABLE"
        /\ \A o \in Pids : Ticked[o].currentline = proc[o].currentline
    BY <1>1, <1>6, ReadsProperties DEF Misses, fileVars
  <2>3. /\ \A o \in Pids \ {Running} : proc'[o] = Ticked[o]
        /\ proc'[Running].currentline = proc[Running].currentline
        /\ status' = [status EXCEPT ![Running] = "BLOCKED"]
    BY <1>1, <1>6, MissEffect
  <2>4. \A o \in Pids : (status'[o] = "FINISHED") <=> (status[o] = "FINISHED")
    BY <1>1, <2>2, <2>3
  <2>5. \A o \in Pids : proc'[o].currentline = proc[o].currentline
    BY <2>2, <2>3
  <2> QED
    BY <1>2, <2>1, <2>2, <2>4, <2>5
<1>7. CASE SkipIdleTime
  <2> DEFINE skip == Ticked[Process_peek("BLOCKED")].waitTime - 1
             h    == Process_peek("BLOCKED")
  <2>1. /\ trace' = trace /\ status' = status /\ pc = "loop"
        /\ stats' = Stat_default(Stat_default(stats, 1), skip)
        /\ proc' = [Ticked EXCEPT ![h].waitTime = @ - skip]
    BY <1>7 DEF SkipIdleTime, InLoop, fileVars, pagingVars
  <2>2. /\ Ticked \in [Pids -> ProcType]
        /\ \A o \in Pids : Ticked[o].currentline = proc[o].currentline
    BY <2>1, TickedProperties
  <2> HIDE DEF skip, h
  <2>3. \A o \in Pids : proc'[o].currentline = proc[o].currentline
    BY <2>1, <2>2 DEF ProcType
  <2>4. stats'.tmr = Stat_default(stats, 1).tmr
    BY <1>3, <2>1 DEF Stat_default, StatsType
  <2> QED
    BY <1>2, <1>3, <2>1, <2>3, <2>4
<1>8. CASE NoFreePage \/ ReadFails
  <2>1. /\ trace' = trace /\ status' = status /\ pc = "loop" /\ proc' = Ticked
        /\ stats' = Stat_default(stats, 1)
    BY <1>8 DEF NoFreePage, ReadFails, Reading, InLoop, fileVars, pagingVars
  <2>2. \A o \in Pids : proc'[o].currentline = proc[o].currentline
    BY <2>1, TickedProperties
  <2> QED
    BY <1>2, <1>3, <2>1, <2>2
<1>9. CASE DestroysPage \/ SimulationEnds \/ UNCHANGED vars
  <2>1. trace' = trace /\ status' = status /\ proc' = proc /\ stats' = stats
    BY <1>9 DEF DestroysPage, DestroyVPage, SimulationEnds, vars, fileVars, pagingVars
  <2> QED
    BY <1>2, <2>1
<1> QED
  BY <1>5, <1>6, <1>7, <1>8, <1>9 DEF Next, Terminated

LEMMA StepKeepsHitsCount ==
    ASSUME PagingInv, Scheduling, HitsCountPassed, [Next]_vars
    PROVE  HitsCountPassed'
PROOF
<1>1. stats \in StatsType /\ mem.allocated \in Nat /\ trace \in Seq(VPages)
  BY SimulatorAssumption
     DEF Scheduling, SimulatorTypeOK, StatsType, PagingInv, PagingTypeOK, MemoryType
<1>2. CASE HitJumpsInterval \/ HitAdvances \/ HitFinishes
  <2>1. stats'.tmr = stats.tmr + 1
    <3>1. stats' = Stat_hit(Stat_default(stats, 1))
      BY <1>2 DEF HitJumpsInterval, HitAdvances, HitFinishes, Hits
    <3>2. Stat_default(stats, 1) \in StatsType /\ Stat_default(stats, 1).tmr = stats.tmr
      BY <1>1, TickCounted
    <3> QED
      BY <3>1, <3>2, HitCounted
  <2> DEFINE L == proc[Running].currentline
  <2>2. L \notin Passed /\ Passed' = Passed \cup {L}
    BY <1>1, <1>2, HitPassesLine
  <2>3. IsFiniteSet(Passed)
    BY <1>1, PassedFinite
  <2> HIDE DEF L
  <2>4. Cardinality(Passed') = Cardinality(Passed) + 1
    BY <2>2, <2>3, FS_AddElement
  <2> QED
    BY <2>1, <2>4 DEF HitsCountPassed
<1>3. CASE ~ (HitJumpsInterval \/ HitAdvances \/ HitFinishes)
  BY <1>3, OthersPassNothing DEF HitsCountPassed
<1> QED
  BY <1>2, <1>3

\* At the start nobody is past a line: a process begins at its first.
LEMMA InitHitsCount == Init => HitsCountPassed
PROOF
<1> SUFFICES ASSUME Init PROVE HitsCountPassed
  OBVIOUS
<1>1. /\ trace \in Seq(VPages) /\ stats.tmr = 0
      /\ status = [p \in Pids |-> IF p \in PidsOf(trace) THEN "RUNNABLE" ELSE "ABSENT"]
  BY SimulatorAssumption DEF Init
<1>2. ASSUME NEW k \in DOMAIN trace PROVE k \notin Passed
  <2> DEFINE p == trace[k][1]
  <2>1. p \in Pids /\ p \in PidsOf(trace)
    BY <1>1, PidsOfTrace
  <2>2. k \in LinesOf(trace, p) /\ k \in Nat
    BY <1>1, LenProperties DEF LinesOf
  <2>3. proc[p].currentline <= k /\ proc[p].currentline \in Nat
    BY <1>1, <2>1, <2>2, FirstPlace DEF ProcType
  <2>4. status[p] = "RUNNABLE"
    BY <1>1, <2>1
  <2> QED
    BY <2>2, <2>3, <2>4 DEF Passed
<1>3. Passed = {}
  BY <1>2 DEF Passed
<1> QED
  BY <1>1, <1>3, FS_EmptySet DEF HitsCountPassed

LEMMA HitsCountSafety == Spec => []HitsCountPassed
PROOF
<1>1. PagingInv /\ Scheduling /\ HitsCountPassed /\ [Next]_vars => HitsCountPassed'
  BY StepKeepsHitsCount
<1> QED
  BY <1>1, InitHitsCount, SchedulingSafety, PTL DEF Spec

\* Every line of the trace that its process has got past counts as one hit
\* (simulator.c:210-236).
THEOREM HitsCorrect == Spec => []HitsMatchProgress
PROOF
<1>1. Scheduling /\ HitsCountPassed => HitsMatchProgress
  <2> SUFFICES ASSUME Scheduling, HitsCountPassed PROVE HitsMatchProgress
    OBVIOUS
  <2>1. \A p \in Pids : status[p] \in {"RUNNABLE", "BLOCKED"} =>
           proc[p].currentline \in CurrInterval(p).low .. CurrInterval(p).high
    BY PlaceProperties
  <2> QED
    BY <2>1 DEF HitsMatchProgress, HitsCountPassed, Passed
<1> QED
  BY <1>1, HitsCountSafety, SchedulingSafety, PTL

-----------------------------------------------------------------------------
\* A step of the program, once out of its loop, changes nothing.
LEMMA OutOfLoop == ASSUME pc # "loop", [Next]_vars PROVE UNCHANGED vars
BY DEF Next, Terminated, DiskCompletes, NoFreePage, SkipIdleTime, ReadFails, HitJumpsInterval,
       HitAdvances, HitFinishes, Hits, Misses, Reads, Reading, InLoop, DestroysPage,
       SimulationEnds

-----------------------------------------------------------------------------
\* What is taken when the search of the free list fails: all it covers.
LEMMA NothingFoundAllTaken ==
    ASSUME PagingInv, ~ CanFindFreePage(mem)
    PROVE  mem.allocated = (MemSize \div WordBits) * WordBits
PROOF
<1> DEFINE n == MemSize \div WordBits
           K == n * WordBits
<1>1. mem \in MemoryType /\ FreeListAgrees(mem)
  BY InvParts
<1>2. n \in Nat /\ WordBits \in Nat \ {0} /\ MemSize \in Nat \ {0}
  BY MemoryAssumption
<1>3. K \in Nat /\ K = WordBits * n
  <2> HIDE DEF n
  <2> QED
    BY <1>2
<1>4. \A a \in 0 .. K - 1 : a \in Frames /\ bv_ind(a) \in Words /\ BitSet(mem, a)
  <2>1. \A a \in 0 .. K - 1 : BitSet(mem, a)
    BY DEF CanFindFreePage, ZeroBits
  <2>2. \A a \in 0 .. K - 1 : a \in Frames /\ bv_ind(a) \in Words
    BY CoveredFrames
  <2> QED
    BY <2>1, <2>2
<1>5. ASSUME NEW f \in TakenFrames(mem) PROVE f \in 0 .. K - 1
  <2>1. f \in Frames /\ bv_ind(f) \in Words
    BY <1>1 DEF TakenFrames, FreeListAgrees
  <2>2. /\ f \in Nat /\ bv_ind(f) \in 0 .. n - 1
        /\ bv_ofs(f) \in 0 .. WordBits - 1 /\ f = (WordBits * bv_ind(f)) + bv_ofs(f)
    BY <2>1, WordAndOffset, MemoryAssumption DEF Frames, Words
  <2> DEFINE w == bv_ind(f)
  <2> HIDE DEF n, K, w
  <2>3. w \in 0 .. n - 1 /\ f = (WordBits * w) + bv_ofs(f)
    BY <2>2 DEF w
  <2>4. n - (w + 1) \in Nat /\ w \in Nat
    BY <1>2, <2>3
  <2>5. /\ WordBits * (n - (w + 1)) \in Nat
        /\ WordBits * n = WordBits * (n - (w + 1)) + WordBits * w + WordBits
    BY <1>2, <2>4
  <2>6. WordBits * w \in Nat
    BY <1>2, <2>4
  <2> QED
    BY <1>2, <1>3, <2>2, <2>3, <2>5, <2>6
<1> HIDE DEF n, K
<1>6. TakenFrames(mem) = 0 .. K - 1
  <2>1. \A a \in 0 .. K - 1 : a \in TakenFrames(mem)
    BY <1>1, <1>4 DEF FreeListAgrees, TakenFrames
  <2> QED
    BY <1>5, <2>1
<1>7. Cardinality(0 .. K - 1) = K
  BY <1>3, FS_Interval
<1> QED
  BY <1>1, <1>6, <1>7 DEF FreeListAgrees, K, n

LEMMA StepKeepsListFull ==
    ASSUME PagingInv, ExitsWithListFull, [Next]_vars
    PROVE  ExitsWithListFull'
PROOF
<1>1. CASE NoFreePage
  <2>1. mem' = mem /\ ~ CanFindFreePage(mem)
    BY <1>1 DEF NoFreePage, pagingVars
  <2> QED
    BY <2>1, NothingFoundAllTaken DEF ExitsWithListFull
<1>2. CASE pc # "loop"
  BY <1>2, OutOfLoop DEF ExitsWithListFull, vars, pagingVars
<1>3. CASE pc = "loop" /\ ~ NoFreePage
  <2>1. pc' # "noFreePage"
    BY <1>3 DEF Next, Terminated, DiskCompletes, SkipIdleTime, ReadFails, HitJumpsInterval,
                HitAdvances, HitFinishes, Hits, Misses, Reads, DestroysPage, SimulationEnds,
                vars
  <2> QED
    BY <2>1 DEF ExitsWithListFull
<1> QED
  BY <1>1, <1>2, <1>3

\* The program gives up for want of a free page only when every frame the free
\* list covers is taken (memory.c:141-156).
THEOREM ExitIsJustified == Spec => []ExitsWithListFull
PROOF
<1>1. Init => ExitsWithListFull
  BY DEF Init, ExitsWithListFull
<1>2. PagingInv /\ ExitsWithListFull /\ [Next]_vars => ExitsWithListFull'
  BY StepKeepsListFull
<1> QED
  BY <1>1, <1>2, SchedulingSafety, PTL DEF Spec

-----------------------------------------------------------------------------
\* With no process left to run and no page left to destroy, every line has been
\* run and everything given back.
LEMMA NothingLeft ==
    ASSUME PagingInv, Scheduling, HitsCountPassed, QueueIfKept,
           ~ Quitting, ~ Simulator_notDone
    PROVE  /\ stats.tmr = Len(trace)
           /\ \A p \in Pids : status[p] \in {"FINISHED", "ABSENT"}
           /\ mem.allocated = 0
           /\ \A w \in Words : mem.freelist[w] = {}
           /\ pageTable = {}
           /\ rep.queue = << >>
PROOF
<1>1. /\ queue \in [QueueNames -> Seq(Pids)] /\ QueuesMatchStatus
      /\ status \in [Pids -> Statuses] /\ trace \in Seq(VPages)
      /\ "RUNNABLE" \in QueueNames /\ "BLOCKED" \in QueueNames
  BY SimulatorAssumption DEF Scheduling, SimulatorTypeOK, PagingTypeOK, QueueNames
<1>2. ASSUME NEW p \in Pids PROVE status[p] \in {"FINISHED", "ABSENT"}
  <2>1. ~ Process_existsWithStatus("RUNNABLE") /\ ~ Process_existsWithStatus("BLOCKED")
    BY DEF Simulator_notDone
  <2>2. status[p] # "RUNNABLE" /\ status[p] # "BLOCKED"
    BY <1>1, <2>1, HeadHasStatus
  <2>3. status[p] \in Statuses
    BY <1>1
  <2> QED
    BY <2>2, <2>3 DEF Statuses
<1>3. pageTable = {}
  <2> SUFFICES ASSUME NEW v \in pageTable PROVE FALSE
    OBVIOUS
  <2>1. v[1] \in Pids /\ status[v[1]] # "ABSENT" /\ status[v[1]] # "FINISHED"
    BY InvParts DEF NoDanglingPage, Quitting, VPages
  <2> QED
    BY <1>2, <2>1
<1>4. mem.inMemory = {}
  BY <1>3, InvParts DEF NoDanglingPage
<1>5. mem.allocated = 0 /\ \A w \in Words : mem.freelist[w] = {}
  BY <1>4, NoPageNoBit
<1>6. rep.queue = << >>
  <2>1. CASE KeepsQueue(rep)
    <3>1. rep.queue \in Seq(VPages) /\ Range(rep.queue) = {}
      BY <1>4, <2>1 DEF PagingInv, PagingTypeOK, ReplaceType, QueueTracksMemory, QueueAgrees
    <3> DEFINE q == rep.queue
    <3>2. q \in Seq(VPages) /\ DOMAIN q = {}
      BY <3>1 DEF Range
    <3> HIDE DEF q
    <3>3. Len(q) = 0
      BY <3>2, LenProperties
    <3>4. q = << >>
      BY <3>2, <3>3, EmptySeq
    <3> QED
      BY <3>4 DEF q
  <2>2. CASE ~ KeepsQueue(rep)
    BY <2>2 DEF QueueIfKept
  <2> QED
    BY <2>1, <2>2
<1>7. stats.tmr = Len(trace)
  <2>1. \A k \in DOMAIN trace : status[trace[k][1]] = "FINISHED"
    <3> TAKE k \in DOMAIN trace
    <3>1. trace[k][1] \in Pids /\ trace[k][1] \in PidsOf(trace)
      BY <1>1, PidsOfTrace
    <3>2. status[trace[k][1]] # "ABSENT"
      BY <3>1 DEF Scheduling, PlacesKnown
    <3> QED
      BY <1>2, <3>1, <3>2
  <2>2. Passed = DOMAIN trace
    BY <2>1 DEF Passed
  <2>3. DOMAIN trace = 1 .. Len(trace) /\ Len(trace) \in Nat
    BY <1>1, LenProperties
  <2>4. Cardinality(1 .. Len(trace)) = Len(trace)
    <3> DEFINE n == Len(trace)
    <3>1. n \in Nat
      BY <2>3
    <3> HIDE DEF n
    <3>2. Cardinality(1 .. n) = n
      BY <3>1, FS_Interval
    <3> QED
      BY <3>2 DEF n
  <2> QED
    BY <2>2, <2>3, <2>4 DEF HitsCountPassed
<1> QED
  BY <1>2, <1>3, <1>5, <1>6, <1>7

LEMMA StepKeepsEndsClean ==
    ASSUME PagingInv, Scheduling, HitsCountPassed, QueueIfKept, EndsClean, [Next]_vars
    PROVE  EndsClean'
PROOF
<1>1. CASE SimulationEnds
  <2>1. ~ Quitting /\ ~ Simulator_notDone /\ UNCHANGED <<pagingVars, trace, stats>>
    BY <1>1 DEF SimulationEnds, fileVars
  <2> QED
    BY <2>1, NothingLeft DEF EndsClean, pagingVars
<1>2. CASE pc # "loop"
  BY <1>2, OutOfLoop DEF EndsClean, vars, pagingVars, fileVars
<1>3. CASE pc = "loop" /\ ~ SimulationEnds
  <2>1. pc' # "done"
    BY <1>3 DEF Next, Terminated, DiskCompletes, NoFreePage, SkipIdleTime, ReadFails,
                HitJumpsInterval, HitAdvances, HitFinishes, Hits, Misses, Reads, DestroysPage,
                vars
  <2> QED
    BY <2>1 DEF EndsClean
<1> QED
  BY <1>1, <1>2, <1>3

LEMMA QueueIfKeptSafety == Spec => []QueueIfKept
PROOF
<1>1. Init => QueueIfKept
  BY InitImplements, InitQueueIfKept
<1>2. PagingInv /\ Scheduling /\ QueueIfKept /\ [Next]_vars => QueueIfKept'
  BY StepImplements, StepKeepsQueueIfKept
<1> QED
  BY <1>1, <1>2, SchedulingSafety, PTL DEF Spec

\* A simulation that ends has counted as many hits as the trace has lines, has
\* finished every process and has given every page back, whichever lines were
\* read (simulator.c:228, process.c:307-327).
THEOREM EndIsClean == Spec => []EndsClean
PROOF
<1>1. Init => EndsClean
  BY DEF Init, EndsClean
<1>2. PagingInv /\ Scheduling /\ HitsCountPassed /\ QueueIfKept /\ EndsClean /\ [Next]_vars
         => EndsClean'
  BY StepKeepsEndsClean
<1> QED
  BY <1>1, <1>2, SchedulingSafety, HitsCountSafety, QueueIfKeptSafety, PTL DEF Spec

-----------------------------------------------------------------------------
\* As long as each process reads the lines it is on, the file never ends where a
\* line is expected (simulator.c:189).
THEOREM NoReadError == Spec /\ []ReadsCurrentLine => [](pc # "readError")
PROOF
<1> DEFINE Safe == pc # "readError"
<1>1. Scheduling /\ ReadsCurrentLine => ~ ReadFails
  <2> SUFFICES ASSUME Scheduling, ReadsCurrentLine, ReadFails PROVE FALSE
    OBVIOUS
  <2>1. Process_existsWithStatus("RUNNABLE") /\ Reading /\ LineAt(ReadPos) > Len(trace)
    BY DEF ReadFails, Reading
  <2>2. Running \in Pids /\ status[Running] = "RUNNABLE"
    BY <2>1, RunningProperties
  <2> DEFINE L == proc[Running].currentline
             n == Len(trace)
  <2>3. trace \in Seq(VPages) /\ L \in 1 .. n
    BY <2>2, PlaceProperties
  <2>4. n \in Nat /\ L > n
    BY <2>1, <2>3, LenProperties DEF ReadsCurrentLine
  <2> HIDE DEF L, n
  <2> QED
    BY <2>3, <2>4
<1>2. Safe /\ ~ ReadFails /\ [Next]_vars => Safe'
  <2> SUFFICES ASSUME pc # "readError", ~ ReadFails, [Next]_vars PROVE pc' # "readError"
    OBVIOUS
  <2>1. CASE NoFreePage \/ SimulationEnds
    BY <2>1 DEF NoFreePage, SimulationEnds
  <2>2. CASE DiskCompletes \/ SkipIdleTime \/ HitJumpsInterval \/ HitAdvances \/ HitFinishes
                \/ Misses \/ DestroysPage \/ Terminated \/ UNCHANGED vars
    BY <2>2 DEF DiskCompletes, SkipIdleTime, HitJumpsInterval, HitAdvances, HitFinishes, Hits,
                Misses, Reads, DestroysPage, Terminated, vars
  <2> QED
    BY <2>1, <2>2 DEF Next
<1>3. Init => Safe
  BY DEF Init
<1> HIDE DEF Safe
<1>4. Spec /\ []ReadsCurrentLine => []Safe
  BY <1>1, <1>2, <1>3, SchedulingSafety, PTL DEF Spec
<1> QED
  BY <1>4 DEF Safe

\* The page of the line a process is on, when that is the line read.
LEMMA PageOfCurrentLine ==
    ASSUME Scheduling, mem.allocated \in Nat, Reads, ReadsCurrentLine
    PROVE  LET L == proc[Running].currentline
           IN  /\ L \in DOMAIN trace
               /\ PageRead = trace[L]
               /\ PageRead \in VPages /\ PageRead \in Range(trace)
               /\ PageRead[1] = Running
PROOF
<1> DEFINE L == proc[Running].currentline
<1>1. Running \in Pids /\ status[Running] = "RUNNABLE"
  BY ReadsProperties
<1>2. /\ trace \in Seq(VPages) /\ DOMAIN trace = 1 .. Len(trace)
      /\ L \in 1 .. Len(trace) /\ trace[L][1] = Running
  BY <1>1, PlaceProperties, LenProperties
<1>3. LineAt(ReadPos) = L
  BY DEF Reads, ReadsCurrentLine
<1>4. trace[L] \in VPages
  BY <1>2, ElementOfSeq
<1>5. PageRead = <<Running, trace[L][2]>>
  BY <1>3 DEF PageRead
<1>6. PageRead = trace[L]
  <2> DEFINE v == trace[L]
  <2>1. v \in VPages /\ v[1] = Running /\ PageRead = <<Running, v[2]>>
    BY <1>2, <1>4, <1>5
  <2> HIDE DEF v
  <2>2. v = <<v[1], v[2]>>
    BY <2>1 DEF VPages
  <2> QED
    BY <2>1, <2>2 DEF v
<1> QED
  BY <1>2, <1>4, <1>6 DEF Range

\* As long as each process reads the lines it is on, it gets past a line only in
\* the turn that reads it with its page in memory: every line a process passes has
\* been run, and each of its misses is followed by a hit (simulator.c:210-235).
THEOREM LinesAreRead == Spec /\ []ReadsCurrentLine => LinesPassedAreRead
PROOF
<1> DEFINE Step ==
      \A p \in Pids :
        LET advances == proc'[p].currentline # proc[p].currentline
            finishes == status'[p] = "FINISHED" /\ status[p] # "FINISHED"
        IN  advances \/ finishes =>
              /\ Reading /\ p = Running
              /\ LineAt(ReadPos) = proc[p].currentline
              /\ trace[proc[p].currentline] \in mem.inMemory
<1>1. PagingInv /\ Scheduling /\ ReadsCurrentLine /\ [Next]_vars => Step
  <2> SUFFICES ASSUME PagingInv, Scheduling, ReadsCurrentLine, [Next]_vars,
                      NEW p \in Pids,
                      \/ proc'[p].currentline # proc[p].currentline
                      \/ status'[p] = "FINISHED" /\ status[p] # "FINISHED"
               PROVE  /\ Reading /\ p = Running
                      /\ LineAt(ReadPos) = proc[p].currentline
                      /\ trace[proc[p].currentline] \in mem.inMemory
    OBVIOUS
  <2>1. mem.allocated \in Nat
    BY DEF PagingInv, PagingTypeOK, MemoryType
  <2>2. HitJumpsInterval \/ HitAdvances \/ HitFinishes
    BY OthersPassNothing
  <2>3. Hits /\ Reads /\ Reading
    BY <2>2 DEF HitJumpsInterval, HitAdvances, HitFinishes, Hits, Reads
  <2>4. /\ Running \in Pids
        /\ \A o \in Pids : Ticked[o].currentline = proc[o].currentline
    BY <2>1, <2>3, ReadsProperties
  <2>5. \A o \in Pids \ {Running} : proc'[o] = Ticked[o] /\ status'[o] = status[o]
    <3>1. CASE HitJumpsInterval
      BY <2>1, <3>1, JumpEffect
    <3>2. CASE HitAdvances
      BY <2>1, <3>2, AdvanceEffect
    <3>3. CASE HitFinishes
      <4>1. /\ \A o \in Pids \ {Running} : proc'[o] = Ticked[o]
            /\ \A o \in Pids \ {Running} : status'[o] = status[o]
        BY <2>1, <2>4, <3>3, FinishEffect DEF Scheduling, SimulatorTypeOK, PagingTypeOK
      <4> QED
        BY <4>1
    <3> QED
      BY <2>2, <3>1, <3>2, <3>3
  <2>6. p = Running
    BY <2>4, <2>5
  <2>7. PageRead = trace[proc[Running].currentline]
    BY <2>1, <2>3, PageOfCurrentLine
  <2>8. PageRead \in mem.inMemory
    BY <2>3 DEF Hits, ReferenceHits, Process_virtualPageInMemory
  <2>9. LineAt(ReadPos) = proc[Running].currentline
    BY <2>3 DEF ReadsCurrentLine
  <2> QED
    BY <2>3, <2>6, <2>7, <2>8, <2>9
<1> HIDE DEF Step
<1>2. Spec /\ []ReadsCurrentLine => [][Step]_vars
  BY <1>1, SchedulingSafety, PTL DEF Spec
<1> QED
  BY <1>2 DEF LinesPassedAreRead, Step

-----------------------------------------------------------------------------
\* The pages the run has seen: those of the lines passed, and those with an entry
\* in a page table.
SeenPages == {trace[k] : k \in Passed} \cup pageTable

\* Page tables hold pages of the trace only, and keep those of the lines a
\* process has passed until it finishes.
PagesFollowTrace ==
    /\ pageTable \subseteq Range(trace)
    /\ \A k \in Passed : status[trace[k][1]] # "FINISHED" => trace[k] \in pageTable

\* No page is seen without a miss.
SeenPagesMissed == Cardinality(SeenPages) <= stats.tpi

\* In a memory with room for the trace a page with an entry is resident or on its
\* way, and none has missed twice.
NothingLost ==
    Cardinality(Range(trace)) <= MemSize =>
        /\ \A v \in pageTable : v \in mem.inMemory \/ v = waitingOnPage[v[1]]
        /\ Cardinality(SeenPages) = stats.tpi

LEMMA PagesOfTraceFinite == ASSUME trace \in Seq(VPages) PROVE IsFiniteSet(Range(trace))
PROOF
<1>1. DOMAIN trace = 1 .. Len(trace) /\ Len(trace) \in Nat
  BY LenProperties
<1>2. IsFiniteSet(DOMAIN trace)
  BY <1>1, FS_Interval
<1>3. trace \in Surjection(DOMAIN trace, Range(trace))
  BY <1>1 DEF Range, Surjection
<1> QED
  BY <1>2, <1>3, FS_Surjection

LEMMA SeenPagesOfTrace ==
    ASSUME trace \in Seq(VPages), PagesFollowTrace
    PROVE  /\ SeenPages \subseteq Range(trace)
           /\ IsFiniteSet(SeenPages)
           /\ Cardinality(SeenPages) \in Nat
PROOF
<1>1. SeenPages \subseteq Range(trace)
  BY DEF SeenPages, PagesFollowTrace, Passed, Range
<1>2. IsFiniteSet(SeenPages)
  BY <1>1, PagesOfTraceFinite, FS_Subset
<1> QED
  BY <1>1, <1>2, FS_CardinalityType

\* TPI counts the misses, and nothing else.
LEMMA MissesCounted ==
    ASSUME PagingInv, Scheduling, [Next]_vars
    PROVE  /\ stats.tpi \in Nat
           /\ stats'.tpi = IF Misses THEN stats.tpi + 1 ELSE stats.tpi
PROOF
<1>1. stats \in StatsType /\ mem.allocated \in Nat
  BY DEF Scheduling, SimulatorTypeOK, StatsType, PagingInv, PagingTypeOK, MemoryType
<1>2. Stat_default(stats, 1) \in StatsType /\ Stat_default(stats, 1).tpi = stats.tpi
  BY <1>1, TickCounted
<1>3. CASE Misses
  BY <1>1, <1>2, <1>3, MissCounted DEF Misses, StatsType
<1>4. CASE ~ Misses
  <2> SUFFICES stats'.tpi = stats.tpi
    BY <1>1, <1>4 DEF StatsType
  <2>1. CASE HitJumpsInterval \/ HitAdvances \/ HitFinishes
    <3>1. stats' = Stat_hit(Stat_default(stats, 1))
      BY <2>1 DEF HitJumpsInterval, HitAdvances, HitFinishes, Hits
    <3> QED
      BY <1>2, <3>1, HitCounted
  <2>2. CASE DiskCompletes \/ NoFreePage \/ ReadFails
    BY <1>2, <2>2 DEF DiskCompletes, NoFreePage, ReadFails
  <2>3. CASE SkipIdleTime
    <3> DEFINE skip == Ticked[Process_peek("BLOCKED")].waitTime - 1
    <3>1. stats' = Stat_default(Stat_default(stats, 1), skip)
      BY <2>3 DEF SkipIdleTime
    <3> HIDE DEF skip
    <3> QED
      BY <1>2, <3>1 DEF Stat_default, StatsType
  <2>4. CASE DestroysPage \/ SimulationEnds \/ UNCHANGED vars
    BY <2>4 DEF DestroysPage, SimulationEnds, vars
  <2> QED
    BY <1>4, <2>1, <2>2, <2>3, <2>4 DEF Next, Terminated
<1> QED
  BY <1>3, <1>4

\* Only a miss shows the run a page, and page tables go on following the trace.
LEMMA PagesAfterStep ==
    ASSUME PagingInv, Scheduling, ReadsCurrentLine, PagesFollowTrace, [Next]_vars
    PROVE  /\ PagesFollowTrace'
           /\ trace' = trace
           /\ SeenPages' = IF Misses THEN SeenPages \cup {PageRead} ELSE SeenPages
PROOF
<1>1. /\ mem.allocated \in Nat /\ trace \in Seq(VPages) /\ status \in [Pids -> Statuses]
  BY SimulatorAssumption
     DEF Scheduling, SimulatorTypeOK, PagingInv, PagingTypeOK, MemoryType
<1>2. \A k \in DOMAIN trace : trace[k][1] \in Pids
  BY <1>1, PidsOfTrace
<1>3. Passed \subseteq DOMAIN trace
  BY DEF Passed
<1>4. CASE HitJumpsInterval \/ HitAdvances \/ HitFinishes
  <2> DEFINE L == proc[Running].currentline
  <2>1. Hits /\ Reads /\ ~ Misses
    BY <1>4 DEF HitJumpsInterval, HitAdvances, HitFinishes, Hits, Misses, ReferenceHits,
                ReferenceMisses
  <2>2. L \in DOMAIN trace /\ PageRead = trace[L]
    BY <1>1, <2>1, PageOfCurrentLine
  <2>3. trace' = trace /\ pageTable' = pageTable /\ PageRead \in pageTable
    BY <2>1 DEF Hits, Reads, ReferenceHits, Process_virtualPageInMemory, PageTable_get, fileVars
  <2>4. Passed' = Passed \cup {L}
    BY <1>1, <1>4, HitPassesLine
  <2>5. \A o \in Pids : status'[o] # "FINISHED" => status[o] # "FINISHED"
    <3>1. CASE HitFinishes
      BY <1>1, <3>1, FinishEffect
    <3>2. CASE HitJumpsInterval \/ HitAdvances
      BY <1>1, <3>2, JumpEffect, AdvanceEffect
    <3> QED
      BY <1>4, <3>1, <3>2
  <2> HIDE DEF L
  <2>6. PagesFollowTrace'
    BY <1>2, <1>3, <2>2, <2>3, <2>4, <2>5 DEF PagesFollowTrace
  <2>7. SeenPages' = SeenPages
    BY <2>2, <2>3, <2>4 DEF SeenPages
  <2> QED
    BY <2>1, <2>3, <2>6, <2>7
<1>5. CASE ~ (HitJumpsInterval \/ HitAdvances \/ HitFinishes)
  <2>1. /\ trace' = trace /\ Passed' = Passed
        /\ \A o \in Pids : (status'[o] = "FINISHED") <=> (status[o] = "FINISHED")
    BY <1>5, OthersPassNothing
  <2>2. CASE Misses
    <3>1. pageTable' = pageTable \cup {PageRead} /\ Reads
      BY <2>2 DEF Misses, ReferenceMisses, PageTable_add
    <3>2. PageRead \in Range(trace)
      BY <1>1, <3>1, PageOfCurrentLine
    <3>3. PagesFollowTrace'
      BY <1>2, <1>3, <2>1, <3>1, <3>2 DEF PagesFollowTrace
    <3>4. SeenPages' = SeenPages \cup {PageRead}
      BY <2>1, <3>1 DEF SeenPages
    <3> QED
      BY <2>1, <2>2, <3>3, <3>4
  <2>3. CASE DestroysPage
    <3>1. PICK v \in pageTable : /\ status[v[1]] = "FINISHED"
                                 /\ pageTable' = pageTable \ {v}
      BY <2>3 DEF DestroysPage, DestroyVPage
    <3>2. ~ Misses
      BY <2>3, <3>1 DEF DestroysPage, Misses, Reads, Reading, InLoop, Quitting
    <3>3. PagesFollowTrace'
      BY <1>2, <1>3, <2>1, <3>1 DEF PagesFollowTrace
    <3>4. PICK k \in DOMAIN trace : trace[k] = v
      BY <3>1 DEF PagesFollowTrace, Range
    <3>5. k \in Passed
      BY <3>1, <3>4 DEF Passed
    <3>6. SeenPages' = SeenPages
      BY <2>1, <3>1, <3>4, <3>5 DEF SeenPages
    <3> QED
      BY <2>1, <3>2, <3>3, <3>6
  <2>4. CASE ~ Misses /\ ~ DestroysPage
    <3>1. pageTable' = pageTable
      BY <1>5, <2>4 DEF Next, Terminated, vars, DiskCompletes, Simulator_finishCurrentDiskIO,
             NoFreePage, SkipIdleTime, ReadFails, SimulationEnds, pagingVars
    <3>2. PagesFollowTrace'
      BY <1>2, <1>3, <2>1, <3>1 DEF PagesFollowTrace
    <3>3. SeenPages' = SeenPages
      BY <2>1, <3>1 DEF SeenPages
    <3> QED
      BY <2>1, <2>4, <3>2, <3>3
  <2> QED
    BY <2>2, <2>3, <2>4
<1> QED
  BY <1>4, <1>5

LEMMA StepKeepsSeenPagesMissed ==
    ASSUME PagingInv, Scheduling, ReadsCurrentLine, PagesFollowTrace, SeenPagesMissed,
           [Next]_vars
    PROVE  SeenPagesMissed'
PROOF
<1> DEFINE misses == stats.tpi
           seen == Cardinality(SeenPages)
<1>1. misses \in Nat /\ stats'.tpi = IF Misses THEN misses + 1 ELSE misses
  BY MissesCounted
<1>2. trace \in Seq(VPages)
  BY SimulatorAssumption DEF Scheduling, SimulatorTypeOK
<1>3. IsFiniteSet(SeenPages) /\ seen \in Nat /\ seen <= misses
  BY <1>2, SeenPagesOfTrace DEF SeenPagesMissed
<1>4. /\ Cardinality(SeenPages') \in Nat
      /\ Cardinality(SeenPages') <= IF Misses THEN seen + 1 ELSE seen
  <2>1. CASE Misses
    <3>1. Cardinality(SeenPages \cup {PageRead}) \in {seen, seen + 1}
      BY <1>3, FS_AddElement
    <3>2. SeenPages' = SeenPages \cup {PageRead}
      BY <2>1, PagesAfterStep
    <3> HIDE DEF seen
    <3> QED
      BY <1>3, <2>1, <3>1, <3>2
  <2>2. CASE ~ Misses
    BY <1>3, <2>2, PagesAfterStep
  <2> QED
    BY <2>1, <2>2
<1> HIDE DEF misses, seen
<1>5. Cardinality(SeenPages') <= stats'.tpi
  BY <1>1, <1>3, <1>4
<1> QED
  BY <1>5 DEF SeenPagesMissed

\* A full memory holds as many pages as it has frames.
LEMMA FullMemoryHoldsPages ==
    ASSUME PagingInv, TakenFrames(mem) = Frames, IsFiniteSet(mem.inMemory)
    PROVE  MemSize <= Cardinality(mem.inMemory)
PROOF
<1> DEFINE ppnOf == [v \in mem.inMemory |-> mem.currentPPN[v]]
<1>1. MapsAgree(mem)
  BY InvParts
<1>2. \A f \in Frames : mem.frames[f] \in mem.inMemory /\ mem.currentPPN[mem.frames[f]] = f
  BY <1>1 DEF MapsAgree, TakenFrames
<1>3. ppnOf \in [mem.inMemory -> Frames]
  BY <1>1 DEF MapsAgree
<1>4. ppnOf \in Surjection(mem.inMemory, Frames)
  BY <1>2, <1>3 DEF Surjection
<1> HIDE DEF ppnOf
<1> QED
  BY <1>4, FramesFinite, FS_Surjection

\* With room for the whole trace the disk's answer evicts nothing.
LEMMA NothingEvicted ==
    ASSUME PagingInv, Scheduling, PagesFollowTrace,
           Cardinality(Range(trace)) <= MemSize, DiskCompletes
    PROVE  LET p == Process_peek("BLOCKED")
           IN  /\ p \in Pids
               /\ mem.inMemory \cup {waitingOnPage[p]} \subseteq mem'.inMemory
               /\ waitingOnPage' = [waitingOnPage EXCEPT ![p] = NoPage]
               /\ pageTable' = pageTable
PROOF
<1> DEFINE p == Process_peek("BLOCKED")
           v == waitingOnPage[p]
           n == Cardinality(Range(trace))
<1>1. p \in Pids /\ status[p] = "BLOCKED"
  BY DiskEffect
<1>2. /\ LoadIntoFreePage(v) \/ LoadByEvicting(v)
      /\ waitingOnPage' = [waitingOnPage EXCEPT ![p] = NoPage]
      /\ pageTable' = pageTable
  BY DEF DiskCompletes, Simulator_finishCurrentDiskIO
<1>3. v \in pageTable \ mem.inMemory /\ v \in VPages
  BY <1>1, InvParts DEF BlockedPageAbsent
<1>4. trace \in Seq(VPages) /\ MemSize \in Nat
  BY SimulatorAssumption, MemoryAssumption DEF Scheduling, SimulatorTypeOK
<1> HIDE DEF p, v
<1>5. /\ v \in mem'.inMemory
      /\ \A w \in mem.inMemory \ mem'.inMemory : TakenFrames(mem) = Frames
  BY <1>2, <1>3, LoadKeepsParts
<1>6. TakenFrames(mem) # Frames
  <2> SUFFICES ASSUME TakenFrames(mem) = Frames PROVE FALSE
    OBVIOUS
  <2>1. mem.inMemory \subseteq Range(trace) \ {v} /\ v \in Range(trace)
    BY <1>3, InvParts DEF PagesFollowTrace, NoDanglingPage
  <2>2. IsFiniteSet(Range(trace)) /\ n \in Nat
    BY <1>4, PagesOfTraceFinite, FS_CardinalityType
  <2>3. IsFiniteSet(Range(trace) \ {v}) /\ Cardinality(Range(trace) \ {v}) = n - 1
    BY <2>1, <2>2, FS_RemoveElement
  <2>4. IsFiniteSet(mem.inMemory) /\ Cardinality(mem.inMemory) <= n - 1
    <3> DEFINE T == Range(trace) \ {v}
    <3> HIDE DEF T
    <3>1. IsFiniteSet(T) /\ Cardinality(T) = n - 1 /\ mem.inMemory \in SUBSET T
      BY <2>1, <2>3 DEF T
    <3> QED
      BY <3>1, FS_Subset
  <2>5. MemSize <= Cardinality(mem.inMemory) /\ Cardinality(mem.inMemory) \in Nat
    BY <2>4, FullMemoryHoldsPages, FS_CardinalityType
  <2>6. n <= MemSize
    OBVIOUS
  <2> DEFINE c == Cardinality(mem.inMemory)
  <2> HIDE DEF n, c
  <2>7. c <= n - 1 /\ MemSize <= c /\ c \in Nat
    BY <2>4, <2>5 DEF c
  <2> QED
    BY <1>4, <2>2, <2>6, <2>7
<1>7. mem.inMemory \cup {v} \subseteq mem'.inMemory
  BY <1>5, <1>6
<1> QED
  BY <1>1, <1>2, <1>7 DEF p, v

\* A page is entered by the first reference to it and by no other.
LEMMA MissedPageIsNew ==
    ASSUME PagingInv, Scheduling, ReadsCurrentLine, PagesFollowTrace, Misses,
           \A v \in pageTable : v \in mem.inMemory \/ v = waitingOnPage[v[1]]
    PROVE  PageRead \notin SeenPages
PROOF
<1>1. Reads /\ ~ Process_virtualPageInMemory(PageRead)
  BY DEF Misses, ReferenceMisses
<1>2. mem.allocated \in Nat
  BY DEF PagingInv, PagingTypeOK, MemoryType
<1>3. PageRead \in VPages /\ PageRead[1] = Running
  BY <1>1, <1>2, PageOfCurrentLine
<1>4. Running \in Pids /\ status[Running] = "RUNNABLE"
  BY <1>1, <1>2, ReadsProperties
<1>5. waitingOnPage[Running] = NoPage
  BY <1>4, InvParts DEF BlockedPageAbsent
<1>6. PageRead \notin pageTable
  BY <1>1, <1>3, <1>5, MemoryAssumption DEF Process_virtualPageInMemory, PageTable_get
<1>7. ASSUME NEW k \in Passed, trace[k] = PageRead PROVE FALSE
  BY <1>3, <1>4, <1>6, <1>7 DEF PagesFollowTrace
<1> QED
  BY <1>6, <1>7 DEF SeenPages

LEMMA StepKeepsNothingLost ==
    ASSUME PagingInv, Scheduling, ReadsCurrentLine, PagesFollowTrace, NothingLost,
           [Next]_vars
    PROVE  NothingLost'
PROOF
<1>1. trace' = trace
  BY PagesAfterStep
<1> SUFFICES ASSUME Cardinality(Range(trace)) <= MemSize
             PROVE  /\ \A v \in pageTable' : v \in mem'.inMemory \/ v = waitingOnPage'[v[1]]
                    /\ Cardinality(SeenPages') = stats'.tpi
  BY <1>1 DEF NothingLost
<1>2. /\ \A v \in pageTable : v \in mem.inMemory \/ v = waitingOnPage[v[1]]
      /\ Cardinality(SeenPages) = stats.tpi
  BY DEF NothingLost
<1>3. /\ trace \in Seq(VPages) /\ mem.allocated \in Nat
      /\ pageTable \subseteq VPages
      /\ waitingOnPage \in [Pids -> VPages \cup {NoPage}]
  BY SimulatorAssumption
     DEF Scheduling, SimulatorTypeOK, PagingInv, PagingTypeOK, MemoryType
<1>4. \A v \in VPages : v[1] \in Pids
  BY DEF VPages
<1>5. Cardinality(SeenPages') = stats'.tpi
  <2>1. CASE Misses
    <3>1. IsFiniteSet(SeenPages) /\ PageRead \notin SeenPages
      BY <1>2, <1>3, <2>1, SeenPagesOfTrace, MissedPageIsNew
    <3>2. Cardinality(SeenPages \cup {PageRead}) = Cardinality(SeenPages) + 1
      BY <3>1, FS_AddElement
    <3> QED
      BY <1>2, <2>1, <3>2, PagesAfterStep, MissesCounted
  <2>2. CASE ~ Misses
    BY <1>2, <2>2, PagesAfterStep, MissesCounted
  <2> QED
    BY <2>1, <2>2
<1>6. ASSUME NEW v \in pageTable' PROVE v \in mem'.inMemory \/ v = waitingOnPage'[v[1]]
  <2>1. CASE Misses
    <3>1. /\ Reads /\ mem' = mem
          /\ pageTable' = pageTable \cup {PageRead}
          /\ waitingOnPage' = [waitingOnPage EXCEPT ![PageRead[1]] = PageRead]
      BY <2>1 DEF Misses, ReferenceMisses, PageTable_add
    <3>2. PageRead \in VPages /\ PageRead[1] = Running /\ Running \in Pids
      BY <1>3, <3>1, PageOfCurrentLine, ReadsProperties
    <3>3. waitingOnPage[Running] = NoPage
      BY <1>3, <3>1, <3>2, InvParts, ReadsProperties DEF BlockedPageAbsent
    <3>4. CASE v = PageRead
      BY <1>3, <3>1, <3>2, <3>4
    <3>5. CASE v \in pageTable /\ v[1] # Running
      BY <1>2, <1>3, <1>4, <3>1, <3>2, <3>5
    <3>6. CASE v \in pageTable /\ v[1] = Running
      BY <1>2, <1>3, <3>1, <3>3, <3>6, MemoryAssumption
    <3> QED
      BY <1>6, <3>1, <3>4, <3>5, <3>6
  <2>2. CASE DestroysPage
    <3>1. PICK d \in pageTable : /\ mem' = VPage_free(mem, d)
                                 /\ pageTable' = pageTable \ {d}
                                 /\ waitingOnPage' = waitingOnPage
      BY <2>2 DEF DestroysPage, DestroyVPage
    <3>2. mem'.inMemory = mem.inMemory \ {d}
      BY <1>3, <3>1, InvParts, FreeKeepsMemory
    <3> QED
      BY <1>2, <1>6, <3>1, <3>2
  <2>3. CASE DiskCompletes
    <3> DEFINE p == Process_peek("BLOCKED")
    <3>1. /\ p \in Pids
          /\ mem.inMemory \cup {waitingOnPage[p]} \subseteq mem'.inMemory
          /\ waitingOnPage' = [waitingOnPage EXCEPT ![p] = NoPage]
          /\ pageTable' = pageTable
      BY <2>3, NothingEvicted
    <3> HIDE DEF p
    <3> QED
      BY <1>2, <1>3, <1>4, <1>6, <3>1
  <2>4. CASE HitJumpsInterval \/ HitAdvances \/ HitFinishes
    <3>1. UNCHANGED <<mem, pageTable, waitingOnPage>>
      BY <2>4 DEF HitJumpsInterval, HitAdvances, HitFinishes, Hits, ReferenceHits
    <3> QED
      BY <1>2, <1>6, <3>1
  <2>5. CASE NoFreePage \/ SkipIdleTime \/ ReadFails \/ SimulationEnds \/ UNCHANGED vars
    <3>1. UNCHANGED <<mem, pageTable, waitingOnPage>>
      BY <2>5 DEF NoFreePage, SkipIdleTime, ReadFails, SimulationEnds, vars, pagingVars
    <3> QED
      BY <1>2, <1>6, <3>1
  <2> QED
    BY <2>1, <2>2, <2>3, <2>4, <2>5 DEF Next, Terminated
<1> QED
  BY <1>5, <1>6

\* At the start nothing is seen.
LEMMA InitSeenPages == Init => PagesFollowTrace /\ SeenPagesMissed /\ NothingLost
PROOF
<1> SUFFICES ASSUME Init PROVE PagesFollowTrace /\ SeenPagesMissed /\ NothingLost
  OBVIOUS
<1>1. pageTable = {} /\ stats.tpi = 0 /\ stats.tmr = 0
  BY DEF Init, PagingInit
<1>2. trace \in Seq(VPages)
  BY SimulatorAssumption DEF Init
<1>3. Passed = {}
  <2>1. Cardinality(Passed) = 0
    BY <1>1, InitHitsCount DEF HitsCountPassed
  <2> QED
    BY <1>2, <2>1, PassedFinite, FS_EmptySet
<1>4. SeenPages = {}
  BY <1>1, <1>3 DEF SeenPages
<1> QED
  BY <1>1, <1>3, <1>4, FS_EmptySet DEF PagesFollowTrace, SeenPagesMissed, NothingLost

\* What the run has seen when it ends is the trace.
LEMMA AllSeenAtTheEnd ==
    ASSUME Scheduling, EndsClean, HitsCountPassed, pc = "done"
    PROVE  SeenPages = Range(trace)
PROOF
<1>1. /\ trace \in Seq(VPages) /\ pageTable = {} /\ stats.tmr = Len(trace)
      /\ DOMAIN trace = 1 .. Len(trace) /\ Len(trace) \in Nat
  BY SimulatorAssumption, LenProperties DEF Scheduling, SimulatorTypeOK, EndsClean
<1>2. Passed = DOMAIN trace
  <2> DEFINE n == Len(trace)
             D == DOMAIN trace
  <2>1. Passed \in SUBSET D
    BY DEF Passed
  <2>2. n \in Nat /\ D = 1 .. n /\ Cardinality(Passed) = n
    BY <1>1 DEF HitsCountPassed
  <2> HIDE DEF n, D
  <2>3. IsFiniteSet(D) /\ Cardinality(D) = n
    BY <2>2, FS_Interval
  <2>4. Passed = D
    BY <2>1, <2>2, <2>3, FS_Subset
  <2> QED
    BY <2>4 DEF D
<1> QED
  BY <1>1, <1>2 DEF SeenPages, Range

\* As long as each process reads the lines it is on, no page of the trace is used
\* without having been read from disk (simulator.c:229-234).
THEOREM PagesComeIn == Spec /\ []ReadsCurrentLine => []EveryPageComesIn
PROOF
<1>1. PagingInv /\ Scheduling /\ ReadsCurrentLine /\ PagesFollowTrace /\ [Next]_vars
         => PagesFollowTrace'
  BY PagesAfterStep
<1>2. PagingInv /\ Scheduling /\ ReadsCurrentLine /\ PagesFollowTrace /\ SeenPagesMissed
         /\ [Next]_vars => SeenPagesMissed'
  BY StepKeepsSeenPagesMissed
<1>3. Scheduling /\ EndsClean /\ HitsCountPassed /\ SeenPagesMissed => EveryPageComesIn
  <2> SUFFICES ASSUME Scheduling, EndsClean, HitsCountPassed, SeenPagesMissed, pc = "done"
               PROVE  stats.tpi >= Cardinality(Range(trace))
    BY DEF EveryPageComesIn
  <2>1. SeenPages = Range(trace)
    BY AllSeenAtTheEnd
  <2> DEFINE n == Cardinality(Range(trace))
  <2>2. n <= stats.tpi
    BY <2>1 DEF SeenPagesMissed
  <2> HIDE DEF n
  <2>3. stats.tpi >= n
    BY <2>2
  <2> QED
    BY <2>3 DEF n
<1> QED
  BY <1>1, <1>2, <1>3, InitSeenPages, SchedulingSafety, HitsCountSafety, EndIsClean, PTL
     DEF Spec

\* As long as each process reads the lines it is on, a memory with room for all
\* the pages of the trace reads each of them from disk once (memory.c:93-136,
\* simulator.c:57-81).
THEOREM PagesComeInOnce == Spec /\ []ReadsCurrentLine => []ColdMissesOnly
PROOF
<1>1. PagingInv /\ Scheduling /\ ReadsCurrentLine /\ PagesFollowTrace /\ [Next]_vars
         => PagesFollowTrace'
  BY PagesAfterStep
<1>2. PagingInv /\ Scheduling /\ ReadsCurrentLine /\ PagesFollowTrace /\ NothingLost
         /\ [Next]_vars => NothingLost'
  BY StepKeepsNothingLost
<1>3. Scheduling /\ EndsClean /\ HitsCountPassed /\ NothingLost => ColdMissesOnly
  BY AllSeenAtTheEnd DEF NothingLost, ColdMissesOnly
<1> QED
  BY <1>1, <1>2, <1>3, InitSeenPages, SchedulingSafety, HitsCountSafety, EndIsClean, PTL
     DEF Spec

-----------------------------------------------------------------------------
\* A disk that no trace outlasts: every line can hit and every process miss while
\* one page is read.  With the penalty of 2000000 ticks that is every trace of
\* fewer lines and processes.
SlowDisk == \A t \in Traces : Len(t) + Cardinality(PidsOf(t)) < DiskPenalty

\* What has passed of the read under way.
DiskElapsed ==
    IF queue["BLOCKED"] # << >>
    THEN DiskPenalty - WaitOfHead(queue["BLOCKED"], proc)
    ELSE 0

\* While processes can run, each tick of the read under way is a hit or has sent
\* a process to wait.
DiskOutlastsWork ==
    pc = "loop" /\ queue["RUNNABLE"] # << >> =>
        DiskElapsed + Len(queue["RUNNABLE"]) <= stats.tmr + Cardinality(PidsOf(trace))

LEMMA PidsOfTraceFinite ==
    ASSUME trace \in Seq(VPages)
    PROVE  /\ IsFiniteSet(PidsOf(trace)) /\ Cardinality(PidsOf(trace)) \in Nat
           /\ PidsOf(trace) # {} => Cardinality(PidsOf(trace)) >= 1
PROOF
<1> DEFINE D == DOMAIN trace
           pidOf == [k \in D |-> trace[k][1]]
<1>1. D = 1 .. Len(trace) /\ Len(trace) \in Nat
  BY LenProperties
<1>2. IsFiniteSet(D)
  BY <1>1, FS_Interval
<1>3. pidOf \in Surjection(D, PidsOf(trace))
  BY DEF Surjection, PidsOf
<1> HIDE DEF D, pidOf
<1>4. IsFiniteSet(PidsOf(trace))
  BY <1>2, <1>3, FS_Surjection
<1>5. Cardinality(PidsOf(trace)) \in Nat
  BY <1>4, FS_CardinalityType
<1>6. PidsOf(trace) # {} => Cardinality(PidsOf(trace)) # 0
  BY <1>4, FS_EmptySet
<1> DEFINE n == Cardinality(PidsOf(trace))
<1> HIDE DEF n
<1>7. n \in Nat /\ n # 0 => n >= 1
  OBVIOUS
<1> QED
  BY <1>4, <1>5, <1>6, <1>7 DEF n

\* The lines passed are lines of the trace.
LEMMA HitsWithinTrace ==
    ASSUME trace \in Seq(VPages), HitsCountPassed
    PROVE  stats.tmr <= Len(trace)
PROOF
<1> DEFINE n == Len(trace)
           D == DOMAIN trace
<1>1. D = 1 .. n /\ n \in Nat
  BY LenProperties
<1>2. Passed \in SUBSET D
  BY DEF Passed
<1> HIDE DEF D, n
<1>3. IsFiniteSet(D) /\ Cardinality(D) = n
  BY <1>1, FS_Interval
<1>4. Cardinality(Passed) <= n
  BY <1>2, <1>3, FS_Subset
<1> QED
  BY <1>4 DEF HitsCountPassed, n

\* On a slow disk a read completes only when nobody can run.
LEMMA ReadCompletesWhenAllWait ==
    ASSUME SlowDisk, PagingInv, Scheduling, HitsCountPassed, DiskOutlastsWork, InLoop, DiskDue
    PROVE  queue["RUNNABLE"] = << >>
PROOF
<1> SUFFICES ASSUME queue["RUNNABLE"] # << >> PROVE FALSE
  OBVIOUS
<1> DEFINE q == queue["BLOCKED"]
           w == WaitOfHead(q, proc)
           n == Cardinality(PidsOf(trace))
           run == Len(queue["RUNNABLE"])
           len == Len(trace)
           hits == stats.tmr
<1>1. pc = "loop" /\ q # << >>
  BY DEF InLoop, DiskDue, Process_existsWithStatus
<1>2. WaitOfHead(q, Ticked) = 0
  BY <1>1 DEF WaitOfHead, DiskDue, Process_peek
<1>3. w \in 0 .. DiskPenalty /\ 0 = w - 1
  BY <1>1, <1>2, TickOfHead
<1>4. DiskElapsed = DiskPenalty - w
  BY <1>1 DEF DiskElapsed
<1>5. /\ trace \in Seq(VPages) /\ trace \in Traces
      /\ queue["RUNNABLE"] \in Seq(Pids) /\ hits \in Nat
  BY SimulatorAssumption DEF Scheduling, SimulatorTypeOK, QueueNames
<1>6. run \in Nat /\ run # 0 /\ len \in Nat
  <2> DEFINE r == queue["RUNNABLE"]
  <2>1. r \in Seq(Pids) /\ r # << >>
    BY <1>5
  <2> HIDE DEF r
  <2>2. Len(r) \in Nat /\ Len(r) # 0
    BY <2>1, LenProperties, EmptySeq
  <2> QED
    BY <1>5, <2>2, LenProperties DEF r
<1>7. n \in Nat /\ len + n < DiskPenalty /\ hits <= len
  BY <1>5, PidsOfTraceFinite, HitsWithinTrace DEF SlowDisk
<1>8. (DiskPenalty - w) + run <= hits + n
  BY <1>1, <1>4 DEF DiskOutlastsWork
<1> HIDE DEF n, run, len, hits, w
<1> QED
  BY <1>3, <1>5, <1>6, <1>7, <1>8, SimulatorAssumption

LEMMA StepKeepsDiskOutlastsWork ==
    ASSUME SlowDisk, PagingInv, Scheduling, HitsCountPassed, DiskOutlastsWork, [Next]_vars
    PROVE  DiskOutlastsWork'
PROOF
<1> DEFINE q   == queue["BLOCKED"]
           r   == queue["RUNNABLE"]
           w   == WaitOfHead(q, proc)
           n   == Cardinality(PidsOf(trace))
           hits == stats.tmr
           elapsed == IF q # << >> THEN DiskPenalty - w ELSE 0
           elapsed2 == IF queue'["BLOCKED"] # << >>
                       THEN DiskPenalty - WaitOfHead(queue'["BLOCKED"], proc') ELSE 0
<1>1. /\ stats \in StatsType /\ mem.allocated \in Nat /\ trace \in Seq(VPages)
      /\ queue \in [QueueNames -> Seq(Pids)] /\ q \in Seq(Pids) /\ r \in Seq(Pids)
      /\ DiskPenalty \in Nat /\ hits \in Nat /\ QueuesMatchStatus
      /\ "RUNNABLE" \in QueueNames /\ "BLOCKED" \in QueueNames
  BY SimulatorAssumption
     DEF Scheduling, SimulatorTypeOK, StatsType, PagingInv, PagingTypeOK, MemoryType, QueueNames
<1>2. n \in Nat /\ Len(r) \in Nat /\ trace' = trace
  <2>1. trace' = trace
    BY DEF Next, Terminated, vars, fileVars, DiskCompletes, NoFreePage, SkipIdleTime, ReadFails,
           HitJumpsInterval, HitAdvances, HitFinishes, Hits, Misses, Reads, DestroysPage,
           SimulationEnds
  <2> QED
    BY <1>1, <2>1, PidsOfTraceFinite, LenProperties
<1>3. DiskElapsed = elapsed /\ DiskElapsed' = elapsed2
  BY DEF DiskElapsed
<1>4. Stat_default(stats, 1) \in StatsType /\ Stat_default(stats, 1).tmr = hits
  BY <1>1, TickCounted
<1>5. CASE HitJumpsInterval \/ HitAdvances \/ HitFinishes
  <2>1. /\ Reads /\ pc = "loop" /\ r # << >>
        /\ stats' = Stat_hit(Stat_default(stats, 1))
    BY <1>5 DEF HitJumpsInterval, HitAdvances, HitFinishes, Hits, Reads, Reading, InLoop,
                Process_existsWithStatus
  <2>2. stats'.tmr = hits + 1
    BY <1>4, <2>1, HitCounted
  <2>3. queue'["BLOCKED"] = q /\ WaitOfHead(q, proc') = WaitOfHead(q, Ticked)
    BY <1>1, <1>5, WaitAfterHitTurn
  <2>4. w \in 0 .. DiskPenalty /\ WaitOfHead(q, Ticked) = IF q # << >> THEN w - 1 ELSE 0
    BY <2>1, TickOfHead
  <2>5. elapsed2 <= elapsed + 1 /\ elapsed \in Nat /\ elapsed2 \in Int
    <3> DEFINE w2 == WaitOfHead(q, Ticked)
    <3>1. elapsed2 = IF q # << >> THEN DiskPenalty - w2 ELSE 0
      BY <2>3
    <3> HIDE DEF w, w2, elapsed2
    <3> QED
      BY <1>1, <2>4, <3>1 DEF w2
  <2>6. Len(queue'["RUNNABLE"]) \in Nat /\ Len(queue'["RUNNABLE"]) <= Len(r)
    <3>1. Len(Tail(r)) = Len(r) - 1 /\ Len(r) - 1 \in Nat
      BY <1>1, <1>2, <2>1, HeadTailProperties, EmptySeq
    <3>2. CASE HitJumpsInterval
      <4> DEFINE base == Tail(r)
                 p    == Running
      <4>1. /\ proc' \in [Pids -> ProcType] /\ p \in Pids
            /\ base \in Seq(Pids) /\ IsInjective(base) /\ p \notin Range(base)
            /\ queue'["RUNNABLE"] = ProcessQueue_enqueuePriority(base, p, proc')
        BY <1>1, <2>1, <3>2, JumpEffect, ReadsProperties
      <4>2. \A o \in Pids : proc'[o].currentPos \in Nat
        BY <4>1 DEF ProcType
      <4> HIDE DEF base, p
      <4>3. Len(queue'["RUNNABLE"]) = Len(base) + 1
        BY <4>1, <4>2, EnqueuePriorityProperties
      <4> QED
        BY <1>2, <3>1, <4>3 DEF base
    <3>3. CASE HitAdvances
      BY <1>1, <1>2, <3>3, AdvanceEffect
    <3>4. CASE HitFinishes
      BY <1>1, <1>2, <3>1, <3>4, FinishEffect
    <3> QED
      BY <1>5, <3>2, <3>3, <3>4
  <2>7. elapsed + Len(r) <= hits + n
    BY <1>3, <2>1 DEF DiskOutlastsWork
  <2> HIDE DEF elapsed, elapsed2, r, hits, n
  <2>8. elapsed2 + Len(queue'["RUNNABLE"]) <= hits + 1 + n
    <3> DEFINE a == Len(queue'["RUNNABLE"])
               b == Len(r)
    <3>1. a \in Nat /\ b \in Nat /\ a <= b /\ elapsed + b <= hits + n
      BY <1>2, <2>6, <2>7
    <3> HIDE DEF a, b
    <3>2. elapsed2 + a <= hits + 1 + n
      BY <1>1, <1>2, <2>5, <3>1
    <3> QED
      BY <3>2 DEF a
  <2> QED
    BY <1>2, <1>3, <2>2, <2>8 DEF DiskOutlastsWork, n
<1>6. CASE Misses
  <2>1. Reads /\ pc = "loop" /\ r # << >>
    BY <1>6 DEF Misses, Reads, Reading, InLoop, Process_existsWithStatus
  <2>2. stats'.tmr = hits
    BY <1>4, <1>6, MissCounted DEF Misses
  <2>3. queue'["RUNNABLE"] = Tail(r) /\ queue'["BLOCKED"] = Append(q, Running)
    BY <1>1, <1>6, MissEffect
  <2>4. /\ WaitOfHead(Append(q, Running), proc')
              = IF q = << >> THEN DiskPenalty ELSE WaitOfHead(q, Ticked)
        /\ w \in 0 .. DiskPenalty /\ WaitOfHead(q, Ticked) = IF q # << >> THEN w - 1 ELSE 0
    BY <1>1, <1>6, <2>1, WaitAfterMiss, TickOfHead
  <2>5. Append(q, Running) # << >>
    BY <1>1, <2>1, ReadsProperties, AppendProperties
  <2>6. elapsed2 <= elapsed + 1 /\ elapsed \in Nat /\ elapsed2 \in Int
    <3> DEFINE w2 == WaitOfHead(queue'["BLOCKED"], proc')
    <3>1. elapsed2 = DiskPenalty - w2
      BY <2>3, <2>5
    <3>2. w2 = IF q = << >> THEN DiskPenalty ELSE w - 1
      BY <2>3, <2>4
    <3> HIDE DEF w, w2, elapsed2
    <3> QED
      BY <1>1, <2>4, <3>1, <3>2
  <2>7. Len(Tail(r)) = Len(r) - 1 /\ Len(r) - 1 \in Nat
    BY <1>1, <1>2, <2>1, HeadTailProperties, EmptySeq
  <2>8. elapsed + Len(r) <= hits + n
    BY <1>3, <2>1 DEF DiskOutlastsWork
  <2> HIDE DEF elapsed, elapsed2, r, hits, n
  <2>9. elapsed2 + Len(queue'["RUNNABLE"]) <= hits + n
    <3> DEFINE a == Len(Tail(r))
               b == Len(r)
    <3>1. a = b - 1 /\ b \in Nat /\ elapsed + b <= hits + n
      BY <1>2, <2>7, <2>8
    <3> HIDE DEF a, b
    <3>2. elapsed2 + a <= hits + n
      BY <1>1, <1>2, <2>6, <3>1
    <3> QED
      BY <2>3, <3>2 DEF a
  <2> QED
    BY <1>2, <1>3, <2>2, <2>9 DEF DiskOutlastsWork, n
<1>7. CASE DiskCompletes
  <2> DEFINE p == Process_peek("BLOCKED")
  <2>1. r = << >>
    BY <1>7, ReadCompletesWhenAllWait DEF DiskCompletes
  <2>2. /\ p \in Pids /\ status[p] = "BLOCKED" /\ proc' = Ticked
        /\ queue'["BLOCKED"] = Tail(q)
        /\ queue'["RUNNABLE"] = ProcessQueue_enqueuePriority(r, p, Ticked)
        /\ p \notin Range(r)
        /\ \A o \in Pids : Ticked[o].currentPos \in Nat
    BY <1>7, DiskEffect
  <2>3. Len(queue'["RUNNABLE"]) = 1
    <3> DEFINE procs == Ticked
               base  == r
    <3>1. /\ base \in Seq(Pids) /\ IsInjective(base)
          /\ p \in Pids /\ p \notin Range(base)
          /\ \A o \in Pids : procs[o].currentPos \in Nat
          /\ queue'["RUNNABLE"] = ProcessQueue_enqueuePriority(base, p, procs)
      BY <1>1, <2>1, <2>2, EmptySeq DEF QueuesMatchStatus
    <3>2. Len(base) = 0
      BY <2>1, EmptySeq
    <3> HIDE DEF base, p, procs
    <3>3. Len(queue'["RUNNABLE"]) = Len(base) + 1
      BY <3>1, EnqueuePriorityProperties
    <3> QED
      BY <3>2, <3>3
  <2>4. WaitOfHead(Tail(q), proc') = IF Tail(q) # << >> THEN DiskPenalty ELSE 0
    BY <1>7, NextReadStarts
  <2>5. elapsed2 = 0
    <3>1. DiskPenalty - DiskPenalty = 0
      BY <1>1
    <3> QED
      BY <2>2, <2>4, <3>1
  <2>6. PidsOf(trace) # {}
    BY <2>2 DEF Scheduling, PlacesKnown
  <2>7. n >= 1
    BY <1>1, <2>6, PidsOfTraceFinite
  <2>8. stats'.tmr = hits
    BY <1>4, <1>7 DEF DiskCompletes
  <2>9. 0 + 1 <= hits + n
    <3> HIDE DEF hits, n
    <3> QED
      BY <1>1, <1>2, <2>7
  <2> QED
    BY <1>2, <1>3, <2>3, <2>5, <2>8, <2>9 DEF DiskOutlastsWork
<1>8. CASE SkipIdleTime
  <2>1. queue'["RUNNABLE"] = << >>
    BY <1>8 DEF SkipIdleTime, Process_existsWithStatus
  <2> QED
    BY <2>1 DEF DiskOutlastsWork
<1>9. CASE NoFreePage \/ ReadFails
  BY <1>9 DEF NoFreePage, ReadFails, DiskOutlastsWork
<1>10. CASE DestroysPage \/ SimulationEnds \/ UNCHANGED vars
  <2>1. UNCHANGED <<queue, proc, stats>> /\ (pc' = "loop" => pc = "loop")
    BY <1>10 DEF DestroysPage, SimulationEnds, vars
  <2> QED
    BY <1>2, <2>1 DEF DiskOutlastsWork, DiskElapsed, WaitOfHead
<1> QED
  BY <1>5, <1>6, <1>7, <1>8, <1>9, <1>10 DEF Next, Terminated

\* Where the file is read when it is p's turn: the process the loop still holds
\* reads on where the file is.
FilePosOf(p) ==
    IF status[p] = "RUNNABLE" /\ p = Running /\ curr = p THEN fpos ELSE proc[p].currentPos

\* Every process that has not finished will read the line it is on.
PlacesKept ==
    \A p \in Pids : status[p] \in {"RUNNABLE", "BLOCKED"} =>
        LineAt(FilePosOf(p)) = proc[p].currentline

LEMMA LineAtOffsets ==
    ASSUME NEW k \in Nat \ {0}
    PROVE  LineAt(StartOf(k)) = k /\ LineAt(FposStart(k)) = k
BY DEF LineAt, StartOf, FposStart, EndOf

LEMMA PlacesKeptReads == Scheduling /\ PlacesKept => ReadsCurrentLine
PROOF
<1> SUFFICES ASSUME Scheduling, PlacesKept, Reading
             PROVE  LineAt(ReadPos) = proc[Running].currentline
  BY DEF ReadsCurrentLine
<1>1. Running \in Pids /\ status[Running] = "RUNNABLE"
  BY RunningProperties DEF Reading
<1> QED
  BY <1>1 DEF PlacesKept, FilePosOf, ReadPos

LEMMA StepKeepsPlacesKept ==
    ASSUME SlowDisk, PagingInv, Scheduling, HitsCountPassed, DiskOutlastsWork, PlacesKept,
           [Next]_vars
    PROVE  PlacesKept'
PROOF
<1>1. /\ mem.allocated \in Nat /\ trace \in Seq(VPages) /\ status \in [Pids -> Statuses]
      /\ queue \in [QueueNames -> Seq(Pids)] /\ QueuesMatchStatus
      /\ "RUNNABLE" \in QueueNames
  BY SimulatorAssumption
     DEF Scheduling, SimulatorTypeOK, PagingInv, PagingTypeOK, MemoryType, QueueNames
<1>2. ASSUME NEW p \in Pids, LineAt(proc'[p].currentPos) = proc'[p].currentline,
             curr' = p => fpos' = proc'[p].currentPos
      PROVE  LineAt(FilePosOf(p)') = proc'[p].currentline
  BY <1>2 DEF FilePosOf
<1>3. ASSUME Reads, NEW p \in Pids \ {Running}, status'[p] \in {"RUNNABLE", "BLOCKED"},
             status'[p] = status[p], proc'[p] = Ticked[p], curr' # p
      PROVE  LineAt(FilePosOf(p)') = proc'[p].currentline
  <2>1. /\ proc'[p].currentline = proc[p].currentline
        /\ proc'[p].currentPos = proc[p].currentPos
    BY <1>1, <1>3, ReadsProperties
  <2>2. LineAt(proc[p].currentPos) = proc[p].currentline
    BY <1>3 DEF PlacesKept, FilePosOf
  <2> QED
    BY <1>2, <1>3, <2>1, <2>2
<1>4. ASSUME Reads
      PROVE  /\ Running \in Pids /\ status[Running] = "RUNNABLE"
             /\ LineAt(ReadPos) = proc[Running].currentline
             /\ proc[Running].currentline \in Nat
             /\ Ticked \in [Pids -> ProcType]
             /\ \A o \in Pids : Ticked[o].currentline = proc[o].currentline
                             /\ Ticked[o].currInterval = proc[o].currInterval
  <2>1. /\ Running \in Pids /\ status[Running] = "RUNNABLE"
        /\ Ticked \in [Pids -> ProcType]
        /\ \A o \in Pids : Ticked[o].currentline = proc[o].currentline
                        /\ Ticked[o].currInterval = proc[o].currInterval
    BY <1>1, <1>4, ReadsProperties
  <2>2. LineAt(ReadPos) = proc[Running].currentline
    BY <1>4, PlacesKeptReads DEF ReadsCurrentLine, Reads
  <2>3. proc[Running].currentline \in Nat
    BY <2>1 DEF Scheduling, SimulatorTypeOK, ProcType
  <2> QED
    BY <2>1, <2>2, <2>3
<1>5. CASE HitJumpsInterval
  <2> DEFINE p == Running
             i == lineIntervals[p][proc[p].currInterval + 1]
  <2>1. Reads /\ curr' = p /\ fpos' = proc'[p].currentPos
    BY <1>5 DEF HitJumpsInterval, Hits
  <2>2. /\ p \in Pids /\ status' = status
        /\ proc'[p] = Process_jumpToNextInterval(Ticked[p], p)
        /\ \A o \in Pids \ {p} : proc'[o] = Ticked[o]
        /\ proc[p].currInterval < Len(lineIntervals[p])
        /\ proc'[p] \in ProcType
    BY <1>1, <1>4, <1>5, <2>1, JumpEffect DEF HitJumpsInterval
  <2>3. proc'[p].currentPos = i.fpos_start /\ proc'[p].currentline = i.low
    <3>1. Ticked[p] \in ProcType /\ Ticked[p].currInterval = proc[p].currInterval
      BY <1>4, <2>1
    <3> QED
      BY <2>2, <3>1 DEF Process_jumpToNextInterval, ProcType
  <2>4. i.low \in Nat \ {0} /\ i.fpos_start = FposStart(i.low)
    <3> DEFINE ivs == lineIntervals[p]
               n   == proc[p].currInterval
    <3>1. ivs = LineIntervals(trace, p) /\ n \in 1 .. Len(ivs) /\ n < Len(ivs)
      BY <1>4, <2>1, <2>2, PlaceProperties
    <3>2. ivs \in Seq(IntervalType(trace))
          /\ \A m \in 1 .. Len(ivs) : ivs[m].fpos_start = FposStart(ivs[m].low)
      BY <1>1, <3>1, IntervalsProperties
    <3>3. Len(ivs) \in Nat
      BY <3>2, LenProperties
    <3> HIDE DEF ivs, n
    <3>4. n + 1 \in 1 .. Len(ivs)
      BY <3>1, <3>3
    <3>5. ivs[n + 1] \in IntervalType(trace)
      BY <3>2, <3>4, ElementOfSeq
    <3>6. ivs[n + 1].low \in Nat \ {0} /\ ivs[n + 1].fpos_start = FposStart(ivs[n + 1].low)
      BY <1>1, <3>2, <3>4, <3>5, LenProperties DEF IntervalType
    <3> QED
      BY <3>6 DEF ivs, n
  <2>5. LineAt(proc'[p].currentPos) = proc'[p].currentline
    BY <2>3, <2>4, LineAtOffsets
  <2> HIDE DEF p, i
  <2>6. \A o \in Pids : status'[o] \in {"RUNNABLE", "BLOCKED"} =>
           LineAt(FilePosOf(o)') = proc'[o].currentline
    BY <1>2, <1>3, <2>1, <2>2, <2>5 DEF p
  <2> QED
    BY <2>6 DEF PlacesKept
<1>6. CASE HitAdvances
  <2> DEFINE p == Running
  <2>1. /\ Reads /\ curr' = p /\ fpos' = PosAfterRead /\ Running' = p
        /\ status' = status
    BY <1>6 DEF HitAdvances, Hits, Running, Process_peek
  <2>2. /\ p \in Pids
        /\ \A o \in Pids \ {p} : proc'[o] = Ticked[o]
        /\ proc'[p].currentline = proc[p].currentline + 1
    BY <1>1, <1>4, <1>6, <2>1, AdvanceEffect
  <2>3. LineAt(PosAfterRead) = proc'[p].currentline
    <3>1. proc[p].currentline + 1 \in Nat \ {0}
      BY <1>4, <2>1
    <3>2. PosAfterRead = StartOf(proc[p].currentline + 1)
      BY <1>4, <2>1 DEF PosAfterRead
    <3> QED
      BY <2>2, <3>1, <3>2, LineAtOffsets
  <2>4. LineAt(FilePosOf(Running)') = proc'[Running].currentline
    BY <1>4, <2>1, <2>3 DEF FilePosOf
  <2>5. \A o \in Pids : status'[o] \in {"RUNNABLE", "BLOCKED"} =>
           LineAt(FilePosOf(o)') = proc'[o].currentline
    BY <1>3, <2>1, <2>2, <2>4
  <2> QED
    BY <2>5 DEF PlacesKept
<1>7. CASE HitFinishes
  <2>1. Reads /\ curr' \notin Pids
    BY <1>7, SimulatorAssumption DEF HitFinishes, Hits
  <2>2. /\ \A o \in Pids \ {Running} : proc'[o] = Ticked[o]
        /\ status' = [status EXCEPT ![Running] = "FINISHED"]
    BY <1>1, <1>7, FinishEffect
  <2>3. /\ \A o \in Pids \ {Running} : status'[o] = status[o]
        /\ status'[Running] = "FINISHED"
    BY <1>1, <1>4, <2>1, <2>2
  <2>4. \A o \in Pids : status'[o] \in {"RUNNABLE", "BLOCKED"} =>
           LineAt(FilePosOf(o)') = proc'[o].currentline
    BY <1>3, <2>1, <2>2, <2>3
  <2> QED
    BY <2>4 DEF PlacesKept
<1>8. CASE Misses
  <2> DEFINE p == Running
  <2>1. Reads /\ curr' = p
    BY <1>8 DEF Misses
  <2>2. /\ p \in Pids /\ status[p] = "RUNNABLE"
        /\ \A o \in Pids \ {p} : proc'[o] = Ticked[o]
        /\ proc'[p].currentline = proc[p].currentline
        /\ status' = [status EXCEPT ![p] = "BLOCKED"]
    BY <1>1, <1>4, <1>8, <2>1, MissEffect
  <2>3. proc'[p].currentPos = ReadPos
    <3>1. proc' = [[Ticked EXCEPT ![p].waitTime = DiskPenalty] EXCEPT ![p].currentPos = ReadPos]
      BY <1>8 DEF Misses, Simulator_safelySwitchStatus, Running
    <3> HIDE DEF p
    <3>2. Ticked \in [Pids -> ProcType]
      BY <1>4, <2>1
    <3> QED
      BY <2>2, <3>1, <3>2 DEF ProcType
  <2>4. status'[p] = "BLOCKED" /\ \A o \in Pids \ {p} : status'[o] = status[o]
    BY <1>1, <2>2
  <2>5. LineAt(proc'[p].currentPos) = proc'[p].currentline
    BY <1>4, <2>1, <2>2, <2>3
  <2>6. ASSUME NEW o \in Pids, status'[o] \in {"RUNNABLE", "BLOCKED"}
        PROVE  LineAt(FilePosOf(o)') = proc'[o].currentline
    <3>1. CASE o = p
      BY <2>4, <2>5, <3>1 DEF FilePosOf
    <3>2. CASE o # p
      BY <1>3, <2>1, <2>2, <2>4, <2>6, <3>2
    <3> QED
      BY <3>1, <3>2
  <2> QED
    BY <2>6 DEF PlacesKept
<1>9. CASE DiskCompletes
  <2> DEFINE h == Process_peek("BLOCKED")
  <2>1. queue["RUNNABLE"] = << >>
    BY <1>9, ReadCompletesWhenAllWait DEF DiskCompletes
  <2>2. \A o \in Pids : status[o] # "RUNNABLE"
    BY <1>1, <2>1, HeadHasStatus DEF Process_existsWithStatus
  <2>3. /\ h \in Pids /\ status[h] = "BLOCKED" /\ proc' = Ticked
        /\ status' = [status EXCEPT ![h] = "RUNNABLE"]
        /\ \A o \in Pids : proc'[o].currentPos = proc[o].currentPos
                        /\ proc'[o].currentline = proc[o].currentline
    BY <1>9, DiskEffect
  <2>4. fpos' = proc'[h].currentPos
    BY <1>9, <2>3 DEF DiskCompletes, Simulator_safelySwitchStatus
  <2> HIDE DEF h
  <2>5. ASSUME NEW o \in Pids, status'[o] \in {"RUNNABLE", "BLOCKED"}
        PROVE  LineAt(FilePosOf(o)') = proc'[o].currentline
    <3>1. status[o] = "BLOCKED"
      BY <1>1, <2>2, <2>3, <2>5
    <3>2. LineAt(proc[o].currentPos) = proc[o].currentline
      BY <3>1 DEF PlacesKept, FilePosOf
    <3>3. LineAt(proc'[o].currentPos) = proc'[o].currentline
      BY <2>3, <3>2
    <3>4. CASE o = h
      BY <2>4, <3>3, <3>4 DEF FilePosOf
    <3>5. CASE o # h
      <4>1. status'[o] = "BLOCKED"
        BY <1>1, <2>3, <3>1, <3>5
      <4> QED
        BY <3>3, <4>1 DEF FilePosOf
    <3> QED
      BY <3>4, <3>5
  <2> QED
    BY <2>5 DEF PlacesKept
<1>10. CASE NoFreePage \/ SkipIdleTime
  <2>1. UNCHANGED <<queue, status, curr, fpos>> /\ pc = "loop"
    BY <1>10 DEF NoFreePage, SkipIdleTime, InLoop, pagingVars
  <2>2. /\ Ticked \in [Pids -> ProcType]
        /\ \A o \in Pids : Ticked[o].currentline = proc[o].currentline
                        /\ Ticked[o].currentPos = proc[o].currentPos
    BY <2>1, TickedProperties
  <2>3. \A o \in Pids : proc'[o].currentline = proc[o].currentline
                     /\ proc'[o].currentPos = proc[o].currentPos
    <3>1. CASE NoFreePage
      BY <2>2, <3>1 DEF NoFreePage
    <3>2. CASE SkipIdleTime
      <4> DEFINE h    == Process_peek("BLOCKED")
                 skip == Ticked[h].waitTime - 1
      <4>1. proc' = [Ticked EXCEPT ![h].waitTime = @ - skip]
        BY <3>2 DEF SkipIdleTime
      <4> HIDE DEF h, skip
      <4> QED
        BY <2>2, <4>1 DEF ProcType
    <3> QED
      BY <1>10, <3>1, <3>2
  <2> QED
    BY <2>1, <2>3 DEF PlacesKept, FilePosOf, Running, Process_peek
<1>11. ~ ReadFails
  <2> SUFFICES ASSUME ReadFails PROVE FALSE
    OBVIOUS
  <2>1. LineAt(ReadPos) = proc[Running].currentline /\ Running \in Pids
        /\ status[Running] = "RUNNABLE"
    BY PlacesKeptReads, RunningProperties DEF ReadFails, ReadsCurrentLine, Reading
  <2>2. LineAt(ReadPos) \in 1 .. Len(trace)
    BY <2>1, PlaceProperties
  <2> QED
    BY <1>1, <2>2, LenProperties DEF ReadFails
<1>12. CASE DestroysPage \/ SimulationEnds \/ UNCHANGED vars
  <2>1. UNCHANGED <<queue, status, curr, fpos, proc>>
    BY <1>12 DEF DestroysPage, DestroyVPage, SimulationEnds, vars, pagingVars
  <2> QED
    BY <2>1 DEF PlacesKept, FilePosOf, Running, Process_peek
<1> QED
  BY <1>5, <1>6, <1>7, <1>8, <1>9, <1>10, <1>11, <1>12 DEF Next, Terminated

\* At the start the file is at its first line, and that is where the first
\* process is; every other process has the start of its first line.
LEMMA InitPlacesKept == Init => PlacesKept
PROOF
<1> SUFFICES ASSUME Init, NEW p \in Pids, status[p] \in {"RUNNABLE", "BLOCKED"}
             PROVE  LineAt(FilePosOf(p)) = proc[p].currentline
  BY DEF PlacesKept
<1> DEFINE k == Min(LinesOf(trace, p))
<1>1. /\ trace \in Seq(VPages) /\ queue.RUNNABLE = FirstRunnable(trace) /\ fpos = StartOf(1)
      /\ status = [o \in Pids |-> IF o \in PidsOf(trace) THEN "RUNNABLE" ELSE "ABSENT"]
  BY SimulatorAssumption DEF Init
<1>2. p \in PidsOf(trace)
  BY <1>1
<1>3. /\ proc[p].currentline = k /\ proc[p].currentPos = FposStart(k)
      /\ k \in 1 .. Len(trace) /\ Len(trace) \in Nat
      /\ \A j \in LinesOf(trace, p) : k <= j
  BY <1>1, <1>2, FirstPlace, LenProperties
<1>4. LineAt(proc[p].currentPos) = proc[p].currentline
  <2> HIDE DEF k
  <2>1. k \in Nat \ {0}
    BY <1>3
  <2> QED
    BY <1>3, <2>1, LineAtOffsets
<1>5. ASSUME p = Running PROVE k = 1
  <2> DEFINE q == FirstRunnable(trace)
             o == trace[1][1]
  <2>1. 1 \in DOMAIN trace /\ DOMAIN trace = 1 .. Len(trace)
    BY <1>1, <1>3, LenProperties
  <2>2. o \in PidsOf(trace) /\ 1 \in LinesOf(trace, o)
    BY <2>1 DEF PidsOf, LinesOf
  <2>3. /\ q \in Seq(PidsOf(trace)) /\ Range(q) = PidsOf(trace)
        /\ \A i, j \in 1 .. Len(q) : i < j =>
              Min(LinesOf(trace, q[i])) < Min(LinesOf(trace, q[j]))
    BY <1>1, FirstRunnableProperties
  <2>4. PICK i \in 1 .. Len(q) : q[i] = o
    BY <2>2, <2>3, LenProperties DEF Range
  <2>5. /\ Min(LinesOf(trace, o)) \in 1 .. Len(trace)
        /\ Min(LinesOf(trace, o)) <= 1
    BY <2>2, <1>1, PidsOfTrace, FirstPlace
  <2>6. Len(q) \in Nat /\ p = q[1]
    <3> DEFINE first == q
    <3>1. first \in Seq(PidsOf(trace)) /\ Range(first) = PidsOf(trace)
      BY <2>3
    <3>2. p = Head(first)
      BY <1>1, <1>5 DEF Running, Process_peek
    <3>3. 1 \in 1 .. Len(first)
      BY <2>4, <3>1, LenProperties
    <3> HIDE DEF first
    <3>4. Len(first) \in Nat /\ Head(first) = first[1]
      BY <3>1, <3>3, LenProperties
    <3> QED
      BY <3>2, <3>4 DEF first
  <2> HIDE DEF q, o
  <2>7. i = 1
    <3> SUFFICES ASSUME i # 1 PROVE FALSE
      OBVIOUS
    <3>1. 1 \in 1 .. Len(q) /\ 1 < i
      BY <2>4, <2>6
    <3>2. k < Min(LinesOf(trace, o))
      BY <2>3, <2>4, <2>6, <3>1
    <3> HIDE DEF k
    <3> QED
      BY <1>3, <2>5, <3>2
  <2>8. p = o
    BY <2>4, <2>6, <2>7
  <2>9. k <= 1
    BY <2>5, <2>8
  <2> HIDE DEF k
  <2> QED
    BY <1>3, <2>9
<1>6. LineAt(StartOf(1)) = 1
  BY LineAtOffsets
<1> QED
  BY <1>1, <1>3, <1>4, <1>5, <1>6 DEF FilePosOf

LEMMA InitDiskOutlastsWork == Init => DiskOutlastsWork
PROOF
<1> SUFFICES ASSUME Init PROVE DiskOutlastsWork
  OBVIOUS
<1> DEFINE q == FirstRunnable(trace)
           n == Cardinality(PidsOf(trace))
<1>1. /\ trace \in Seq(VPages) /\ queue["RUNNABLE"] = q /\ queue["BLOCKED"] = << >>
      /\ stats.tmr = 0
  BY SimulatorAssumption DEF Init
<1>2. /\ q \in Seq(PidsOf(trace)) /\ IsInjective(q) /\ Range(q) = PidsOf(trace)
      /\ IsFiniteSet(PidsOf(trace)) /\ n \in Nat
  BY <1>1, FirstRunnableProperties, PidsOfTraceFinite
<1>3. Len(q) = n
  <2> DEFINE first == q
             pids  == PidsOf(trace)
  <2>1. /\ first \in Seq(pids) /\ IsInjective(first) /\ Range(first) = pids
        /\ IsFiniteSet(pids)
    BY <1>2
  <2> HIDE DEF first, pids
  <2>2. Len(first) \in Nat /\ DOMAIN first = 1 .. Len(first)
        /\ first \in [1 .. Len(first) -> pids]
    BY <2>1, LenProperties
  <2> DEFINE len == Len(first)
  <2>3. len \in Nat /\ first \in [1 .. len -> pids] /\ DOMAIN first = 1 .. len
    BY <2>2
  <2> HIDE DEF len
  <2>4. first \in Surjection(1 .. len, pids) /\ first \in Injection(1 .. len, pids)
    BY <2>1, <2>3 DEF Surjection, Injection, Range, IsInjective
  <2>5. IsFiniteSet(1 .. len) /\ Cardinality(1 .. len) = len
    BY <2>3, FS_Interval
  <2>6. Cardinality(pids) = len
    BY <2>4, <2>5, FS_Surjection
  <2> QED
    BY <2>6 DEF len, first, pids
<1>4. DiskElapsed = 0
  BY <1>1 DEF DiskElapsed
<1> HIDE DEF q, n
<1>5. 0 + Len(q) <= 0 + n
  BY <1>2, <1>3
<1> QED
  BY <1>1, <1>4, <1>5 DEF DiskOutlastsWork, n

LEMMA SlowDiskPlaces ==
    ASSUME SlowDisk
    PROVE  Spec => [](Scheduling /\ PlacesKept)
PROOF
<1>1. Init => DiskOutlastsWork /\ PlacesKept
  BY InitDiskOutlastsWork, InitPlacesKept
<1>2. PagingInv /\ Scheduling /\ HitsCountPassed /\ DiskOutlastsWork /\ [Next]_vars
         => DiskOutlastsWork'
  BY StepKeepsDiskOutlastsWork
<1>3. PagingInv /\ Scheduling /\ HitsCountPassed /\ DiskOutlastsWork /\ PlacesKept /\ [Next]_vars
         => PlacesKept'
  BY StepKeepsPlacesKept
<1> QED
  BY <1>1, <1>2, <1>3, SchedulingSafety, HitsCountSafety, PTL DEF Spec

\* On a disk that no trace outlasts each process reads the lines it is on: "Return
\* to the file position saved in a given process" (simulator.c:44) is true.
THEOREM SlowDiskReadsCurrentLine ==
    ASSUME SlowDisk
    PROVE  Spec => []ReadsCurrentLine
BY SlowDiskPlaces, PlacesKeptReads, PTL

\* On such a disk a line read belongs to the process that runs, as
\* simulator.c:194-196 demands.
THEOREM SlowDiskReadsOwnLine ==
    ASSUME SlowDisk
    PROVE  Spec => []ReadsOwnLine
PROOF
<1>1. Scheduling /\ ReadsCurrentLine => ReadsOwnLine
  <2> SUFFICES ASSUME Scheduling, ReadsCurrentLine, Reading
               PROVE  trace[LineAt(ReadPos)][1] = Running
    BY DEF ReadsOwnLine
  <2>1. Running \in Pids /\ status[Running] = "RUNNABLE"
    BY RunningProperties DEF Reading
  <2>2. trace[proc[Running].currentline][1] = Running
    BY <2>1, PlaceProperties
  <2> QED
    BY <2>2 DEF ReadsCurrentLine
<1> QED
  BY <1>1, SlowDiskPlaces, PlacesKeptReads, PTL

\* On such a disk a process that loses the head of RUNNABLE has its place saved:
\* only the start of its own next interval can take it from the head
\* (simulator.c:218-222).
THEOREM SlowDiskSavesPosition ==
    ASSUME SlowDisk
    PROVE  Spec => PreemptionSavesPosition
PROOF
<1> DEFINE Saves ==
      Process_existsWithStatus("RUNNABLE") =>
        LET p         == Running
            inPlace   == LineAt(ReadPos) = proc[p].currentline
            preempted == status'[p] = "RUNNABLE" /\ Head(queue'.RUNNABLE) # p
        IN  (inPlace /\ preempted) => LineAt(proc'[p].currentPos) = proc'[p].currentline
<1>1. Scheduling /\ PlacesKept' => Saves
  <2> SUFFICES ASSUME Scheduling, PlacesKept', Process_existsWithStatus("RUNNABLE"),
                      status'[Running] = "RUNNABLE", Head(queue'.RUNNABLE) # Running
               PROVE  LineAt(proc'[Running].currentPos) = proc'[Running].currentline
    OBVIOUS
  <2>1. PICK p \in Pids : p = Running
    BY RunningProperties
  <2>2. LineAt(FilePosOf(p)') = proc'[p].currentline
    BY <2>1 DEF PlacesKept
  <2>3. Running' # p
    BY <2>1 DEF Running, Process_peek
  <2>4. FilePosOf(p)' = proc'[p].currentPos
    BY <2>3 DEF FilePosOf
  <2> QED
    BY <2>1, <2>2, <2>4
<1> HIDE DEF Saves
<1>2. Spec => [][Saves]_vars
  BY <1>1, SlowDiskPlaces, PTL
<1> QED
  BY <1>2 DEF PreemptionSavesPosition, Saves

\* On such a disk a process gets past its lines one by one, each in a turn that
\* reads it and finds its page in memory, and no read meets the end of the file.
THEOREM SlowDiskLinesAreRead ==
    ASSUME SlowDisk
    PROVE  Spec => LinesPassedAreRead /\ [](pc # "readError")
BY SlowDiskReadsCurrentLine, LinesAreRead, NoReadError, PTL

\* On such a disk every page of the trace comes in, and in a memory with room for
\* all of them each comes in once.
THEOREM SlowDiskPagesComeIn ==
    ASSUME SlowDisk
    PROVE  Spec => [](EveryPageComesIn /\ ColdMissesOnly)
BY SlowDiskReadsCurrentLine, PagesComeIn, PagesComeInOnce, PTL

-----------------------------------------------------------------------------
\* What is invariant in every run, for every trace.
SimulatorInv ==
    /\ PagingInv
    /\ Scheduling
    /\ RunnableSorted
    /\ TimeAccounts
    /\ StatsAccount
    /\ HitsCountPassed
    /\ QueueIfKept
    /\ EndsClean
    /\ ExitsWithListFull

\* The program keeps all of this, whatever module is linked and whatever the disk
\* and the memory (simulator.c:100-239).
THEOREM SimulatorSafety == Spec => []SimulatorInv
PROOF
<1>1. /\ PagingInv /\ Scheduling
      /\ RunnableSorted
      /\ TimeAccounts
      /\ StatsAccount
      /\ HitsCountPassed
      /\ QueueIfKept
      /\ EndsClean
      /\ ExitsWithListFull
      => SimulatorInv
  BY DEF SimulatorInv
<1> QED
  BY <1>1, SchedulingSafety, RunnableStaysSorted, TimeCorrect, StatsCorrect, HitsCountSafety,
     QueueIfKeptSafety, EndIsClean, ExitIsJustified, PTL
=============================================================================
