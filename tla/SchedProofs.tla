---------------------------- MODULE SchedProofs ----------------------------
(***************************************************************************)
(* Theorems about Sched, for every set of tasks, every priorities and      *)
(* every length of a time slice: the run queue invariants, and the three   *)
(* promises of a call (no task is lost, the highest task is dispatched,    *)
(* arrival order is kept within a priority).                               *)
(***************************************************************************)
EXTENDS Sched, SequenceTheorems, FiniteSetTheorems, TLAPS

----------------------------------------------------------------------------
(* A full slice is a legal value of time_slice.                            *)
LEMMA FullSlice ==
  DEFAULT_TIMESLICE \in 0 .. DEFAULT_TIMESLICE /\ DEFAULT_TIMESLICE > 0
                    /\ 0 \in 0 .. DEFAULT_TIMESLICE
BY SliceAssumption

(* Sequences. *)

(* InsertAt shifts the elements from position i on by one.                 *)
LEMMA InsertAtProperties ==
  ASSUME NEW S, NEW q \in Seq(S), NEW e \in S, NEW i \in 1 .. (Len(q) + 1)
  PROVE  /\ InsertAt(q, i, e) \in Seq(S)
         /\ Len(InsertAt(q, i, e)) = Len(q) + 1
         /\ \A j \in 1 .. (Len(q) + 1) :
              InsertAt(q, i, e)[j] = IF j < i THEN q[j]
                                     ELSE IF j = i THEN e ELSE q[j - 1]
<1> DEFINE n == Len(q)
           l == SubSeq(q, 1, i - 1)
           r == SubSeq(q, i, n)
<1>1. n \in Nat /\ \A j \in 1 .. n : q[j] \in S
  BY LenProperties, ElementOfSeq
<1>2. /\ l \in Seq(S) /\ Len(l) = i - 1
      /\ \A j \in 1 .. (i - 1) : l[j] = q[j]
  <2>1. 1 \in Int /\ i - 1 \in Int /\ \A j \in 1 .. (i - 1) : q[j] \in S
    BY <1>1
  <2>2. /\ l \in Seq(S)
        /\ Len(l) = IF 1 <= i - 1 THEN (i - 1) - 1 + 1 ELSE 0
        /\ \A j \in 1 .. ((i - 1) - 1 + 1) : l[j] = q[1 + j - 1]
    BY <2>1, SubSeqProperties
  <2> HIDE DEF l
  <2> QED BY <1>1, <2>2
<1>3. /\ r \in Seq(S) /\ Len(r) = n - i + 1
      /\ \A j \in 1 .. (n - i + 1) : r[j] = q[i + j - 1]
  <2>1. i \in Int /\ n \in Int /\ \A j \in i .. n : q[j] \in S
    BY <1>1
  <2>2. /\ r \in Seq(S)
        /\ Len(r) = IF i <= n THEN n - i + 1 ELSE 0
        /\ \A j \in 1 .. (n - i + 1) : r[j] = q[i + j - 1]
    BY <2>1, SubSeqProperties
  <2> HIDE DEF r
  <2> QED BY <1>1, <2>2
<1>4. << e >> \in Seq(S) /\ Len(<< e >>) = 1 /\ << e >>[1] = e
  OBVIOUS
<1> DEFINE le == l \o << e >>
<1>5. /\ le \in Seq(S) /\ Len(le) = i
      /\ \A j \in 1 .. i : le[j] = IF j < i THEN q[j] ELSE e
  <2> HIDE DEF l
  <2>1. /\ le \in Seq(S) /\ Len(le) = Len(l) + 1
        /\ \A j \in 1 .. (Len(l) + 1) :
             le[j] = IF j <= Len(l) THEN l[j] ELSE << e >>[j - Len(l)]
    BY <1>2, <1>4, ConcatProperties
  <2> HIDE DEF le
  <2> QED BY <1>1, <1>2, <1>4, <2>1
<1>6. /\ le \o r \in Seq(S) /\ Len(le \o r) = i + (n - i + 1)
      /\ \A j \in 1 .. (i + (n - i + 1)) :
           (le \o r)[j] = IF j <= i THEN le[j] ELSE r[j - i]
  <2> HIDE DEF le, r
  <2> QED BY <1>3, <1>5, ConcatProperties
<1>7. InsertAt(q, i, e) = le \o r
  BY DEF InsertAt
<1> HIDE DEF l, r, le
<1> QED BY <1>1, <1>3, <1>5, <1>6, <1>7

(* RemoveAt closes the gap at position i.                                  *)
LEMMA RemoveAtProperties ==
  ASSUME NEW S, NEW q \in Seq(S), NEW i \in 1 .. Len(q)
  PROVE  /\ RemoveAt(q, i) \in Seq(S)
         /\ Len(RemoveAt(q, i)) = Len(q) - 1
         /\ \A j \in 1 .. (Len(q) - 1) :
              RemoveAt(q, i)[j] = IF j < i THEN q[j] ELSE q[j + 1]
<1> DEFINE n == Len(q)
           l == SubSeq(q, 1, i - 1)
           r == SubSeq(q, i + 1, n)
<1>1. n \in Nat /\ \A j \in 1 .. n : q[j] \in S
  BY LenProperties, ElementOfSeq
<1>2. /\ l \in Seq(S) /\ Len(l) = i - 1
      /\ \A j \in 1 .. (i - 1) : l[j] = q[j]
  <2>1. 1 \in Int /\ i - 1 \in Int /\ \A j \in 1 .. (i - 1) : q[j] \in S
    BY <1>1
  <2>2. /\ l \in Seq(S)
        /\ Len(l) = IF 1 <= i - 1 THEN (i - 1) - 1 + 1 ELSE 0
        /\ \A j \in 1 .. ((i - 1) - 1 + 1) : l[j] = q[1 + j - 1]
    BY <2>1, SubSeqProperties
  <2> HIDE DEF l
  <2> QED BY <1>1, <2>2
<1>3. /\ r \in Seq(S) /\ Len(r) = n - i
      /\ \A j \in 1 .. (n - i) : r[j] = q[i + j]
  <2>1. i + 1 \in Int /\ n \in Int /\ \A j \in (i + 1) .. n : q[j] \in S
    BY <1>1
  <2>2. /\ r \in Seq(S)
        /\ Len(r) = IF i + 1 <= n THEN n - (i + 1) + 1 ELSE 0
        /\ \A j \in 1 .. (n - (i + 1) + 1) : r[j] = q[(i + 1) + j - 1]
    BY <2>1, SubSeqProperties
  <2> HIDE DEF r
  <2> QED BY <1>1, <2>2
<1>4. /\ l \o r \in Seq(S) /\ Len(l \o r) = n - 1
      /\ \A j \in 1 .. (n - 1) :
           (l \o r)[j] = IF j < i THEN l[j] ELSE r[j - i + 1]
  <2> HIDE DEF l, r
  <2>1. /\ l \o r \in Seq(S) /\ Len(l \o r) = Len(l) + Len(r)
        /\ \A j \in 1 .. (Len(l) + Len(r)) :
             (l \o r)[j] = IF j <= Len(l) THEN l[j] ELSE r[j - Len(l)]
    BY <1>2, <1>3, ConcatProperties
  <2>2. Len(l) + Len(r) = n - 1
    BY <1>1, <1>2, <1>3
  <2>3. \A j \in 1 .. (n - 1) : (j <= Len(l) <=> j < i) /\ j - Len(l) = j - i + 1
    BY <1>1, <1>2
  <2> QED BY <2>1, <2>2, <2>3
<1>5. RemoveAt(q, i) = l \o r
  BY DEF RemoveAt
<1> HIDE DEF l, r
<1> QED BY <1>1, <1>2, <1>3, <1>4, <1>5

----------------------------------------------------------------------------
(* The run queue. *)

(* The walk of runqueue_enqueue stops somewhere: the tasks it walks past   *)
(* are an initial segment of the list, and their number is where it stops. *)
LEMMA SlotExists ==
  ASSUME NEW q \in Seq(Task), NEW t \in Task
  PROVE  \E i \in 1 .. (Len(q) + 1) : IsSlot(q, t, i)
<1> DEFINE n == Len(q)
           P == {j \in 1 .. n : \A i \in 1 .. j : priority[q[i]] >= priority[t]}
           k == Cardinality(P)
<1>0. n \in Nat /\ \A j \in 1 .. n : q[j] \in Task
  BY LenProperties, ElementOfSeq
<1>1. IsFiniteSet(P) /\ k \in Nat
  <2>1. P \in SUBSET (1 .. n) OBVIOUS
  <2>2. IsFiniteSet(1 .. n)
    BY <1>0, FS_Interval
  <2> HIDE DEF P
  <2> QED BY <2>1, <2>2, FS_Subset, FS_CardinalityType
<1>2. ASSUME NEW j \in 1 .. n, j \in P
      PROVE  j <= k
  <2>1. 1 .. j \subseteq P
    BY <1>0, <1>2
  <2>2. IsFiniteSet(1 .. j) /\ Cardinality(1 .. j) = j
    BY <1>0, <1>2, FS_Interval
  <2> HIDE DEF P
  <2> QED BY <1>0, <1>1, <2>1, <2>2, FS_Subset
<1>3. ASSUME NEW j \in 1 .. n, j \notin P
      PROVE  k < j
  <2>1. P \subseteq 1 .. (j - 1)
    <3>1. ASSUME NEW i \in P, i >= j PROVE FALSE
      BY <1>0, <1>3, <3>1
    <3> QED BY <1>0, <3>1
  <2>2. IsFiniteSet(1 .. (j - 1)) /\ Cardinality(1 .. (j - 1)) = j - 1
    <3>1. 1 \in Int /\ j - 1 \in Int /\ (1 > j - 1 => j - 1 = 0)
      BY <1>0, <1>3
    <3> QED BY <3>1, FS_Interval
  <2>3. k <= j - 1
    <3> HIDE DEF P
    <3> QED BY <1>0, <1>1, <2>1, <2>2, FS_Subset
  <2> HIDE DEF P
  <2> QED BY <1>0, <1>1, <2>3
<1>4. k <= n
  <2>1. P \subseteq 1 .. n OBVIOUS
  <2>2. IsFiniteSet(1 .. n) /\ Cardinality(1 .. n) = n
    BY <1>0, FS_Interval
  <2> HIDE DEF P
  <2> QED BY <1>0, <1>1, <2>1, <2>2, FS_Subset
<1>5. \A j \in 1 .. k : priority[q[j]] >= priority[t]
  <2> SUFFICES ASSUME NEW j \in 1 .. k PROVE j \in P
    BY <1>0, <1>1
  <2> HIDE DEF P
  <2> QED BY <1>0, <1>1, <1>3, <1>4
<1>6. k + 1 <= n => priority[q[k + 1]] < priority[t]
  <2> SUFFICES ASSUME k + 1 <= n, priority[q[k + 1]] >= priority[t] PROVE FALSE
    BY <1>0, <1>1, PriorityAssumption
  <2>1. k + 1 \in P
    <3>1. \A i \in 1 .. (k + 1) : priority[q[i]] >= priority[t]
      BY <1>1, <1>5
    <3>2. k + 1 \in 1 .. n
      BY <1>0, <1>1
    <3> DEFINE m == k + 1
    <3> HIDE DEF m
    <3>3. m \in P
      BY <3>1, <3>2 DEF m
    <3> QED BY <3>3 DEF m
  <2> HIDE DEF P
  <2> QED BY <1>0, <1>1, <1>2, <2>1
<1>7. IsSlot(q, t, k + 1)
  <2> HIDE DEF P
  <2> QED BY <1>0, <1>1, <1>5, <1>6 DEF IsSlot
<1> HIDE DEF P
<1> QED BY <1>0, <1>1, <1>4, <1>7

(* What runqueue_enqueue does to a well-formed list: it adds the task,     *)
(* behind everything of the same or a higher priority, and moves nothing   *)
(* else.                                                                   *)
LEMMA EnqueueProperties ==
  ASSUME NEW q \in Seq(Task), NEW t \in Task,
         Sorted(q), IsInjective(q), t \notin ToSet(q)
  PROVE  /\ runqueue_enqueue(q, t) \in Seq(Task)
         /\ Sorted(runqueue_enqueue(q, t))
         /\ IsInjective(runqueue_enqueue(q, t))
         /\ ToSet(runqueue_enqueue(q, t)) = ToSet(q) \cup {t}
         /\ \A u, v : Before(q, u, v) => Before(runqueue_enqueue(q, t), u, v)
         /\ \A u \in ToSet(q) :
              priority[u] >= priority[t] => Before(runqueue_enqueue(q, t), u, t)
<1> DEFINE i == Slot(q, t)
           r == runqueue_enqueue(q, t)
           n == Len(q)
<1>1. i \in 1 .. (n + 1) /\ IsSlot(q, t, i)
  BY SlotExists DEF Slot
<1>2. /\ r \in Seq(Task) /\ Len(r) = n + 1
      /\ \A j \in 1 .. (n + 1) : r[j] = IF j < i THEN q[j]
                                      ELSE IF j = i THEN t ELSE q[j - 1]
  <2>1. r = InsertAt(q, i, t)
    BY DEF runqueue_enqueue
  <2> HIDE DEF i, r
  <2>2. i \in 1 .. (Len(q) + 1)
    BY <1>1
  <2>3. /\ InsertAt(q, i, t) \in Seq(Task)
        /\ Len(InsertAt(q, i, t)) = Len(q) + 1
        /\ \A j \in 1 .. (Len(q) + 1) :
             InsertAt(q, i, t)[j] = IF j < i THEN q[j]
                                    ELSE IF j = i THEN t ELSE q[j - 1]
    BY <2>2, InsertAtProperties
  <2> QED BY ONLY <2>1, <2>3
<1> HIDE DEF i, r
<1>3. /\ n \in Nat
      /\ DOMAIN q = 1 .. n /\ DOMAIN r = 1 .. (n + 1)
      /\ \A j \in 1 .. n : q[j] \in Task /\ priority[q[j]] \in Nat
      /\ priority[t] \in Nat
  BY <1>2, LenProperties, ElementOfSeq, PriorityAssumption
<1>4. \A j \in 1 .. n : IF j < i THEN r[j] = q[j] /\ j \in 1 .. (n + 1)
                      ELSE r[j + 1] = q[j] /\ j + 1 \in 1 .. (n + 1)
  BY <1>1, <1>2, <1>3
<1>5. r[i] = t
  BY <1>1, <1>2
<1>6. /\ \A j \in 1 .. n : j < i => priority[q[j]] >= priority[t]
      /\ \A j \in 1 .. n : j >= i => priority[q[j]] < priority[t]
  <2>1. \A j \in 1 .. n : j < i => priority[q[j]] >= priority[t]
    BY <1>1, <1>3 DEF IsSlot
  <2>2. ASSUME NEW j \in 1 .. n, j >= i PROVE priority[q[j]] < priority[t]
    <3>1. i \in 1 .. n /\ priority[q[i]] < priority[t]
      BY <1>1, <1>3, <2>2 DEF IsSlot
    <3>2. priority[q[i]] >= priority[q[j]]
      BY <1>3, <2>2, <3>1 DEF Sorted
    <3> QED BY <1>3, <3>1, <3>2
  <2> QED BY <2>1, <2>2
<1>7. Sorted(r)
  <2> SUFFICES ASSUME NEW j \in 1 .. (n + 1), NEW k \in 1 .. (n + 1), j < k
               PROVE  priority[r[j]] >= priority[r[k]]
    BY <1>2 DEF Sorted
  <2>1. CASE k < i
    BY <1>1, <1>2, <1>3, <2>1 DEF Sorted
  <2>2. CASE k = i
    BY <1>1, <1>2, <1>3, <1>6, <2>2
  <2>3. CASE k > i
    <3>1. r[k] = q[k - 1] /\ k - 1 \in 1 .. n /\ k - 1 >= i
      BY <1>1, <1>2, <1>3, <2>3
    <3>2. CASE j < i
      <4>1. r[j] = q[j] /\ j \in 1 .. n /\ j < k - 1
        BY <1>1, <1>2, <1>3, <3>1, <3>2
      <4> QED BY <1>3, <3>1, <4>1 DEF Sorted
    <3>3. CASE j = i
      BY <1>3, <1>5, <1>6, <3>1, <3>3
    <3>4. CASE j > i
      <4>1. r[j] = q[j - 1] /\ j - 1 \in 1 .. n /\ j - 1 < k - 1
        BY <1>1, <1>2, <1>3, <3>4
      <4> QED BY <1>3, <3>1, <4>1 DEF Sorted
    <3>5. j < i \/ j = i \/ j > i
      BY <1>1
    <3> QED BY <3>2, <3>3, <3>4, <3>5
  <2>4. k < i \/ k = i \/ k > i
    BY <1>1
  <2> QED BY <2>1, <2>2, <2>3, <2>4
<1>8. ToSet(r) = ToSet(q) \cup {t}
  <2>1. ASSUME NEW u \in ToSet(r) PROVE u \in ToSet(q) \cup {t}
    <3>1. PICK j \in 1 .. (n + 1) : u = r[j]
      BY <1>3, <2>1 DEF ToSet
    <3>2. \/ j \in 1 .. n /\ u = q[j]
          \/ u = t
          \/ j - 1 \in 1 .. n /\ u = q[j - 1]
      BY <1>1, <1>2, <1>3, <3>1
    <3> QED BY <1>3, <3>2 DEF ToSet
  <2>2. ASSUME NEW u \in ToSet(q) PROVE u \in ToSet(r)
    <3>1. PICK j \in 1 .. n : u = q[j]
      BY <1>3, <2>2 DEF ToSet
    <3> QED BY <1>3, <1>4, <3>1 DEF ToSet
  <2>3. t \in ToSet(r)
    BY <1>1, <1>3, <1>5 DEF ToSet
  <2> QED BY <2>1, <2>2, <2>3
<1>9. IsInjective(r)
  <2>1. \A j \in 1 .. n : q[j] # t
    BY <1>3 DEF ToSet
  <2> SUFFICES ASSUME NEW j \in 1 .. (n + 1), NEW k \in 1 .. (n + 1),
                      r[j] = r[k], j < k
               PROVE  FALSE
    BY <1>3 DEF IsInjective
  <2>2. CASE j < i
    <3>1. r[j] = q[j] /\ j \in 1 .. n
      BY <1>1, <1>2, <1>3, <2>2
    <3>2. k # i
      BY <1>5, <2>1, <3>1
    <3>3. CASE k < i
      <4>1. r[k] = q[k] /\ k \in 1 .. n /\ j # k
        BY <1>1, <1>2, <1>3, <3>3
      <4> QED BY <1>3, <3>1, <4>1 DEF IsInjective
    <3>4. CASE k > i
      <4>1. r[k] = q[k - 1] /\ k - 1 \in 1 .. n /\ k - 1 # j
        BY <1>1, <1>2, <1>3, <2>2, <3>4
      <4> QED BY <1>3, <3>1, <4>1 DEF IsInjective
    <3>5. k < i \/ k = i \/ k > i
      BY <1>1
    <3> QED BY <3>2, <3>3, <3>4, <3>5
  <2>3. CASE j >= i
    <3>1. r[k] = q[k - 1] /\ k - 1 \in 1 .. n
      BY <1>1, <1>2, <1>3, <2>3
    <3>2. j # i
      BY <1>5, <2>1, <3>1
    <3>3. r[j] = q[j - 1] /\ j - 1 \in 1 .. n /\ j - 1 # k - 1
      BY <1>1, <1>2, <1>3, <2>3, <3>2
    <3> QED BY <1>3, <3>1, <3>3 DEF IsInjective
  <2>4. j < i \/ j >= i
    BY <1>1
  <2> QED BY <2>2, <2>3, <2>4
<1>10. \A u, v : Before(q, u, v) => Before(r, u, v)
  <2> SUFFICES ASSUME NEW j \in 1 .. n, NEW k \in 1 .. n, j < k
               PROVE  Before(r, q[j], q[k])
    BY DEF Before
  <2> DEFINE jj == IF j < i THEN j ELSE j + 1
             kk == IF k < i THEN k ELSE k + 1
  <2>1. jj \in 1 .. Len(r) /\ kk \in 1 .. Len(r) /\ jj < kk
    BY <1>1, <1>2, <1>3
  <2>2. r[jj] = q[j] /\ r[kk] = q[k]
    BY <1>1, <1>4
  <2> QED BY <2>1, <2>2 DEF Before
<1>11. \A u \in ToSet(q) : priority[u] >= priority[t] => Before(r, u, t)
  <2> SUFFICES ASSUME NEW j \in 1 .. n, priority[q[j]] >= priority[t]
               PROVE  Before(r, q[j], t)
    BY <1>3 DEF ToSet
  <2>1. j < i
    BY <1>1, <1>3, <1>6
  <2> QED BY <1>1, <1>2, <1>4, <1>5, <2>1 DEF Before
<1> QED BY <1>2, <1>7, <1>8, <1>9, <1>10, <1>11 DEF r

(* What runqueue_dequeue does to a well-formed list that holds the task.   *)
LEMMA DequeueProperties ==
  ASSUME NEW q \in Seq(Task), NEW t \in ToSet(q), Sorted(q), IsInjective(q)
  PROVE  /\ runqueue_dequeue(q, t) \in Seq(Task)
         /\ Sorted(runqueue_dequeue(q, t))
         /\ IsInjective(runqueue_dequeue(q, t))
         /\ ToSet(runqueue_dequeue(q, t)) = ToSet(q) \ {t}
         /\ \A u, v : Before(q, u, v) /\ u # t /\ v # t
                     => Before(runqueue_dequeue(q, t), u, v)
<1> DEFINE i == CHOOSE k \in 1 .. Len(q) : q[k] = t
           r == runqueue_dequeue(q, t)
           n == Len(q)
<1>1. /\ n \in Nat /\ DOMAIN q = 1 .. n
      /\ \A j \in 1 .. n : q[j] \in Task /\ priority[q[j]] \in Nat
  BY LenProperties, ElementOfSeq, PriorityAssumption
<1>2. (\E k \in 1 .. n : q[k] = t) /\ i \in 1 .. n /\ q[i] = t
  BY <1>1 DEF ToSet
<1>3. r = RemoveAt(q, i)
  BY <1>2 DEF runqueue_dequeue
<1> HIDE DEF i
<1>4. /\ r \in Seq(Task) /\ Len(r) = n - 1
      /\ \A j \in 1 .. (n - 1) : r[j] = IF j < i THEN q[j] ELSE q[j + 1]
  BY <1>2, <1>3, RemoveAtProperties
<1> HIDE DEF r
<1>5. DOMAIN r = 1 .. (n - 1)
  BY <1>4, LenProperties
<1>6. \A j \in 1 .. n : j # i =>
        IF j < i THEN r[j] = q[j] /\ j \in 1 .. (n - 1)
                 ELSE r[j - 1] = q[j] /\ j - 1 \in 1 .. (n - 1)
  BY <1>1, <1>2, <1>4
<1> DEFINE from(j) == IF j < i THEN j ELSE j + 1
<1>7. \A j \in 1 .. (n - 1) : from(j) \in (1 .. n) \ {i} /\ r[j] = q[from(j)]
  BY <1>1, <1>2, <1>4
<1>8. \A j, k \in 1 .. (n - 1) : j < k => from(j) < from(k)
  BY <1>1, <1>2
<1> HIDE DEF from
<1>9. Sorted(r)
  BY <1>1, <1>4, <1>7, <1>8 DEF Sorted
<1>10. IsInjective(r)
  <2> SUFFICES ASSUME NEW j \in 1 .. (n - 1), NEW k \in 1 .. (n - 1), r[j] = r[k], j < k
               PROVE  FALSE
    BY <1>1, <1>5 DEF IsInjective
  <2>1. from(j) = from(k)
    BY <1>1, <1>7 DEF IsInjective
  <2> QED BY <1>1, <1>7, <1>8, <2>1
<1>11. ToSet(r) = ToSet(q) \ {t}
  <2>1. ASSUME NEW j \in 1 .. (n - 1) PROVE r[j] \in ToSet(q) \ {t}
    BY <1>1, <1>2, <1>7 DEF ToSet, IsInjective
  <2>2. ASSUME NEW j \in 1 .. n, q[j] # t PROVE q[j] \in ToSet(r)
    BY <1>2, <1>5, <1>6, <2>2 DEF ToSet
  <2> QED BY <1>1, <1>5, <2>1, <2>2 DEF ToSet
<1>12. \A u, v : Before(q, u, v) /\ u # t /\ v # t => Before(r, u, v)
  <2> SUFFICES ASSUME NEW j \in 1 .. n, NEW k \in 1 .. n, j < k, q[j] # t, q[k] # t
               PROVE  Before(r, q[j], q[k])
    BY DEF Before
  <2> DEFINE jj == IF j < i THEN j ELSE j - 1
             kk == IF k < i THEN k ELSE k - 1
  <2>1. j # i /\ k # i
    BY <1>2
  <2>2. jj \in 1 .. Len(r) /\ kk \in 1 .. Len(r) /\ jj < kk
    BY <1>1, <1>2, <1>4, <2>1
  <2>3. r[jj] = q[j] /\ r[kk] = q[k]
    BY <1>2, <1>6, <2>1
  <2> QED BY <2>2, <2>3 DEF Before
<1> QED BY <1>4, <1>9, <1>10, <1>11, <1>12 DEF r


----------------------------------------------------------------------------
(* The calls. *)

(* The promises of one call, the actions inside NoTaskLost,                *)
(* DispatchesHighest and FifoWithinPriority.                               *)
Promises ==
  /\ \A t \in Task : Live(t) => Live(t)' \/ state'[t] = "ZOMBIE"
  /\ current_task' # current_task =>
       \A u \in Queued :
         current_task' \in Task /\ priority[current_task'] >= priority[u]
  /\ \A u, t \in ToSet(ready_queue') :
       /\ u \in Queued /\ u # t
       /\ priority[u] >= priority[t]
       /\ t \notin Queued \/ Before(ready_queue, u, t)
       => Before(ready_queue', u, t)

(* The states and slices that schedule is entered with: those of the       *)
(* variables, but for the slice of the current task (ticked) and for its   *)
(* state (ZOMBIE when it exits).                                           *)
EntersWith(st, ts) ==
  /\ st \in [Slots -> TaskState]
  /\ ts \in [Task -> 0 .. DEFAULT_TIMESLICE]
  /\ \A s \in Slots : s # current_task => st[s] = state[s]
  /\ \A t \in Task : t # current_task => ts[t] = time_slice[t]
  /\ \/ st[current_task] = state[current_task]
     \/ current_task \in Task /\ st[current_task] = "ZOMBIE"

(* Queued tasks, and the task at the head, in the terms the steps use.     *)
LEMMA QueuedProperties ==
  ASSUME Inv
  PROVE  /\ Queued \subseteq Task
         /\ ready_queue = << >> => Queued = {}
         /\ ready_queue # << >> =>
              /\ Head(ready_queue) \in Queued
              /\ \A u \in Queued : priority[Head(ready_queue)] >= priority[u]
<1> DEFINE n == Len(ready_queue)
<1>1. /\ n \in Nat /\ DOMAIN ready_queue = 1 .. n
      /\ \A j \in 1 .. n : ready_queue[j] \in Task
  BY LenProperties, ElementOfSeq DEF Inv, TypeOK
<1>2. Queued \subseteq Task
  BY <1>1 DEF Queued, ToSet
<1>3. ASSUME ready_queue = << >> PROVE Queued = {}
  BY <1>3 DEF Queued, ToSet
<1>4. ASSUME ready_queue # << >>
      PROVE  /\ Head(ready_queue) \in Queued
             /\ \A u \in Queued : priority[Head(ready_queue)] >= priority[u]
  <2>1. Head(ready_queue) = ready_queue[1] /\ 1 \in 1 .. n
    BY <1>1, <1>4 DEF Inv, TypeOK
  <2>2. \A j \in 1 .. n : priority[ready_queue[1]] >= priority[ready_queue[j]]
    <3> TAKE j \in 1 .. n
    <3>1. CASE j = 1
      BY <1>1, <2>1, <3>1, PriorityAssumption
    <3>2. CASE j > 1
      BY <1>1, <2>1, <3>2 DEF Inv, QueueSorted, Sorted
    <3> QED BY <1>1, <3>1, <3>2
  <2> QED BY <1>1, <2>1, <2>2 DEF Queued, ToSet
<1> QED BY <1>2, <1>3, <1>4

(* The first switch: nothing is RUNNING, so nothing is left behind.        *)
LEMMA StartFirstTaskStep ==
  ASSUME Inv, current_task # NULL, NEW st, NEW ts, EntersWith(st, ts),
         StartFirstTask(st, ts)
  PROVE  Inv' /\ Promises
<1> DEFINE next == runqueue_pick_next
<1>1. next \in Queued /\ \A u \in Queued : priority[next] >= priority[u]
  BY QueuedProperties DEF StartFirstTask, runqueue_pick_next
<1>2. next \in Task /\ Queued \subseteq Task /\ next # current_task
  BY <1>1, QueuedProperties DEF Inv, QueueHoldsReady
<1>3. /\ ready_queue' \in Seq(Task)
      /\ Sorted(ready_queue') /\ IsInjective(ready_queue')
      /\ ToSet(ready_queue') = Queued \ {next}
      /\ \A u, v : Before(ready_queue, u, v) /\ u # next /\ v # next
                  => Before(ready_queue', u, v)
  BY <1>1, DequeueProperties
     DEF StartFirstTask, Inv, TypeOK, QueueSorted, QueueDistinct, Queued
<1>4. /\ scheduler_started' = TRUE /\ current_task' = next /\ time_slice' = ts
      /\ state' = [st EXCEPT ![next] = "RUNNING"]
      /\ ~scheduler_started
  BY DEF StartFirstTask
<1> HIDE DEF next
<1>5. current_task = idle /\ st[idle] = state[idle]
  BY <1>4 DEF Inv, TypeOK, OnlyCurrentRuns, Slots, EntersWith
<1>6. TypeOK'
  BY <1>2, <1>3, <1>4 DEF TypeOK, EntersWith, Slots, TaskState
<1>7. QueueHoldsReady'
  BY <1>1, <1>2, <1>3, <1>4, <1>5, IdleAssumption, NullAssumption
     DEF QueueHoldsReady, Inv, Queued, EntersWith, Slots
<1>8. OnlyCurrentRuns'
  BY <1>2, <1>4, <1>5 DEF OnlyCurrentRuns, Inv, EntersWith, Slots, TypeOK
<1>9. Inv'
  BY <1>3, <1>6, <1>7, <1>8 DEF Inv, QueueSorted, QueueDistinct
<1>10. \A t \in Task : Live(t) => Live(t)' \/ state'[t] = "ZOMBIE"
  BY <1>3, <1>4, <1>5, IdleAssumption DEF Live, Queued
<1>11. \A u \in Queued :
         current_task' \in Task /\ priority[current_task'] >= priority[u]
  BY <1>1, <1>2, <1>4
<1>12. \A u, t \in ToSet(ready_queue') :
         t \notin Queued \/ Before(ready_queue, u, t) => Before(ready_queue', u, t)
  BY <1>3
<1> QED BY <1>9, <1>10, <1>11, <1>12 DEF Promises

(* Nobody to switch to: only the idle task can be in this position, since  *)
(* it alone is picked without being queued.                                *)
LEMMA KeepCurrentStep ==
  ASSUME Inv, current_task # NULL, NEW st, NEW ts, EntersWith(st, ts),
         KeepCurrent(st, ts)
  PROVE  Inv' /\ Promises
<1>1. /\ scheduler_started' = TRUE /\ state' = st /\ time_slice' = ts
      /\ current_task' = current_task /\ ready_queue' = ready_queue
      /\ runqueue_pick_next = current_task
  BY DEF KeepCurrent
<1>2. current_task = idle
  BY <1>1, QueuedProperties DEF runqueue_pick_next, Inv, QueueHoldsReady
<1>3. st[idle] = state[idle]
  BY <1>2, IdleAssumption DEF EntersWith
<1>4. TypeOK'
  BY <1>1 DEF Inv, TypeOK, EntersWith
<1>5. QueueHoldsReady'
  BY <1>1, <1>2, QueuedProperties DEF QueueHoldsReady, Inv, Queued, EntersWith, Slots
<1>6. OnlyCurrentRuns'
  BY <1>1, <1>2, <1>3, IdleAssumption DEF OnlyCurrentRuns, Inv, EntersWith, Slots
<1>7. Inv'
  BY <1>1, <1>4, <1>5, <1>6 DEF Inv, QueueSorted, QueueDistinct, Sorted
<1>8. Promises
  BY <1>1 DEF Promises, Live, Queued
<1> QED BY <1>7, <1>8

(* The general switch: the previous task is queued if it is RUNNING and    *)
(* not the idle task, then the picked one is unlinked.                     *)
LEMMA SwitchStep ==
  ASSUME Inv, current_task # NULL, NEW st, NEW ts, EntersWith(st, ts),
         Switch(st, ts)
  PROVE  Inv' /\ Promises
<1> DEFINE prev    == current_task
           next    == runqueue_pick_next
           requeue == st[prev] = "RUNNING" /\ prev # idle
           queue   == IF requeue THEN runqueue_enqueue(ready_queue, prev)
                                 ELSE ready_queue
<1>1. /\ scheduler_started' = TRUE
      /\ current_task' = next
      /\ next # prev
      /\ ready_queue' = IF next = idle THEN queue ELSE runqueue_dequeue(queue, next)
      /\ state' = [st EXCEPT ![prev] = IF @ = "RUNNING" THEN "READY" ELSE @,
                             ![next] = "RUNNING"]
      /\ time_slice' = IF requeue THEN Refreshed(ts, prev) ELSE ts
  BY DEF Switch
<1>2. Queued \subseteq Task /\ prev \in Slots /\ prev \notin Queued
  BY QueuedProperties DEF Inv, TypeOK, QueueHoldsReady
<1>3. \/ next = idle /\ Queued = {}
      \/ /\ next \in Queued /\ next # idle
         /\ \A u \in Queued : priority[next] >= priority[u]
  BY <1>2, QueuedProperties, IdleAssumption DEF runqueue_pick_next
<1>4. requeue => prev \in Task
  BY <1>2 DEF Slots
<1>5. /\ queue \in Seq(Task) /\ Sorted(queue) /\ IsInjective(queue)
      /\ ToSet(queue) = Queued \cup (IF requeue THEN {prev} ELSE {})
      /\ \A u, v : Before(ready_queue, u, v) => Before(queue, u, v)
      /\ requeue => \A u \in Queued :
           priority[u] >= priority[prev] => Before(queue, u, prev)
  <2>1. CASE requeue
    BY <1>2, <1>4, <2>1, EnqueueProperties
       DEF Inv, TypeOK, QueueSorted, QueueDistinct, Queued
  <2>2. CASE ~requeue
    BY <2>2 DEF Inv, TypeOK, QueueSorted, QueueDistinct, Queued
  <2> QED BY <2>1, <2>2
<1> HIDE DEF queue, next, requeue
<1>6. /\ ready_queue' \in Seq(Task)
      /\ Sorted(ready_queue') /\ IsInjective(ready_queue')
      /\ ToSet(ready_queue') = ToSet(queue) \ {next}
      /\ \A u, v : Before(queue, u, v) /\ u # next /\ v # next
                  => Before(ready_queue', u, v)
  <2>1. CASE next = idle
    BY <1>1, <1>2, <1>4, <1>5, <2>1, IdleAssumption
  <2>2. CASE next # idle
    BY <1>1, <1>3, <1>5, <2>2, DequeueProperties
  <2> QED BY <2>1, <2>2
<1>7. next \in Slots /\ (next = idle \/ next \in Task)
  BY <1>2, <1>3 DEF Slots
<1>8. TypeOK'
  <2>1. time_slice' \in [Task -> 0 .. DEFAULT_TIMESLICE]
    BY <1>1, FullSlice DEF EntersWith, Refreshed
  <2>2. state' \in [Slots -> TaskState]
    BY <1>1 DEF EntersWith, TaskState
  <2> QED BY <1>1, <1>6, <1>7, <2>1, <2>2 DEF TypeOK
<1>9. \A s \in Slots : state'[s] = IF s = next THEN "RUNNING"
                                ELSE IF s # prev THEN state[s]
                                ELSE IF st[prev] = "RUNNING" THEN "READY"
                                ELSE st[prev]
  BY <1>1, <1>2, <1>7 DEF EntersWith
<1>10. \A t \in ToSet(ready_queue') :
         /\ t # next /\ t \in Task
         /\ \/ t \in Queued /\ t # prev
            \/ t = prev /\ requeue
  BY <1>2, <1>4, <1>5, <1>6
<1>11. QueueHoldsReady'
  <2>1. ASSUME NEW t \in ToSet(ready_queue') PROVE state'[t] = "READY"
    <3>1. CASE t \in Queued /\ t # prev
      BY <1>9, <1>10, <2>1, <3>1 DEF Inv, QueueHoldsReady, Slots
    <3>2. CASE t = prev /\ requeue
      BY <1>2, <1>9, <1>10, <2>1, <3>2 DEF requeue
    <3> QED BY <1>10, <2>1, <3>1, <3>2
  <2>2. ASSUME NEW t \in Task, state'[t] = "READY"
        PROVE  time_slice'[t] > 0 /\ t # next
    <3>1. t # next
      BY <1>9, <2>2 DEF Slots
    <3>2. CASE t # prev
      <4>1. state[t] = "READY"
        BY <1>9, <2>2, <3>1, <3>2 DEF Slots
      <4>2. time_slice'[t] = time_slice[t]
        BY <1>1, <3>2 DEF EntersWith, Refreshed
      <4> QED BY <3>1, <4>1, <4>2 DEF Inv, QueueHoldsReady
    <3>3. CASE t = prev
      <4>1. state[prev] = "RUNNING" /\ t # idle
        BY <3>3, IdleAssumption DEF Inv, OnlyCurrentRuns
      <4>2. st[prev] = "RUNNING"
        BY <1>9, <2>2, <3>1, <3>3, <4>1 DEF EntersWith, Slots
      <4>3. requeue
        BY <3>3, <4>1, <4>2 DEF requeue
      <4> QED BY <1>1, <2>2, <3>1, <3>3, <4>3, FullSlice DEF EntersWith, Refreshed
    <3> QED BY <3>2, <3>3
  <2>3. current_task' # NULL
    BY <1>1, <1>7, NullAssumption
  <2> QED BY <1>1, <2>1, <2>2, <2>3 DEF QueueHoldsReady, Queued
<1>12. OnlyCurrentRuns'
  <2>1. \A s \in Slots : s # prev => state[s] # "RUNNING"
    BY DEF Inv, OnlyCurrentRuns
  <2>2. \A s \in Slots : state'[s] = "RUNNING" => s = next
    BY <1>9, <2>1
  <2>3. state'[next] = "RUNNING"
    BY <1>7, <1>9
  <2> QED BY <1>1, <2>2, <2>3 DEF OnlyCurrentRuns
<1>13. Inv'
  BY <1>6, <1>8, <1>11, <1>12 DEF Inv, QueueSorted, QueueDistinct
<1>14. \A t \in Task : Live(t) => Live(t)' \/ state'[t] = "ZOMBIE"
  <2> SUFFICES ASSUME NEW t \in Task, Live(t), t # next
               PROVE  t \in ToSet(ready_queue') \/ state'[t] = "ZOMBIE"
    BY <1>1 DEF Live, Queued
  <2>1. CASE t \in Queued
    BY <1>5, <1>6, <2>1
  <2>2. CASE t = prev /\ requeue
    BY <1>5, <1>6, <2>2
  <2>3. CASE t = prev /\ ~requeue
    <3>1. st[prev] = "ZOMBIE"
      BY <2>3, IdleAssumption DEF Inv, OnlyCurrentRuns, EntersWith, requeue
    <3> QED BY <1>2, <1>9, <2>3, <3>1
  <2> QED BY <2>1, <2>2, <2>3 DEF Live
<1>15. \A u \in Queued :
         current_task' \in Task /\ priority[current_task'] >= priority[u]
  BY <1>1, <1>2, <1>3
<1>16. \A u, t \in ToSet(ready_queue') :
         /\ u \in Queued /\ u # t
         /\ priority[u] >= priority[t]
         /\ t \notin Queued \/ Before(ready_queue, u, t)
         => Before(ready_queue', u, t)
  <2> SUFFICES ASSUME NEW u \in ToSet(ready_queue'), NEW t \in ToSet(ready_queue'),
                      u \in Queued, priority[u] >= priority[t],
                      t \notin Queued \/ Before(ready_queue, u, t)
               PROVE  Before(queue, u, t)
    BY <1>6, <1>10
  <2> QED BY <1>5, <1>10
<1> QED BY <1>13, <1>14, <1>15, <1>16 DEF Promises


LEMMA ScheduleStep ==
  ASSUME Inv, current_task # NULL, NEW st, NEW ts, EntersWith(st, ts),
         schedule(st, ts)
  PROVE  Inv' /\ Promises
BY StartFirstTaskStep, KeepCurrentStep, SwitchStep DEF schedule

LEMMA TickedSlicesType ==
  ASSUME Inv
  PROVE  /\ TickedSlices \in [Task -> 0 .. DEFAULT_TIMESLICE]
         /\ \A t \in Task : t # current_task => TickedSlices[t] = time_slice[t]
BY SliceAssumption DEF Inv, TypeOK, TickedSlices

(* Before scheduler_init the queue is empty, and everything the call sets  *)
(* is set afresh.                                                          *)
LEMMA InitStep ==
  ASSUME Inv, scheduler_init
  PROVE  Inv' /\ Promises
<1>1. Queued = {}
  BY QueuedProperties DEF Inv, QueueHoldsReady, scheduler_init
<1>2. /\ ready_queue' = << >> /\ Len(ready_queue') = 0 /\ ToSet(ready_queue') = {}
      /\ DOMAIN ready_queue' = {}
  BY DEF scheduler_init, ToSet
<1>3. TypeOK'
  <2>1. time_slice' \in [Task -> 0 .. DEFAULT_TIMESLICE]
    BY FullSlice DEF scheduler_init
  <2>2. state' \in [Slots -> TaskState]
    BY DEF scheduler_init, TaskState
  <2>3. ready_queue' \in Seq(Task)
    BY DEF scheduler_init
  <2> QED BY <2>1, <2>2, <2>3 DEF scheduler_init, TypeOK, Slots
<1>4. Inv'
  BY <1>2, <1>3, IdleAssumption
     DEF Inv, QueueSorted, QueueDistinct, Sorted, IsInjective, QueueHoldsReady,
         OnlyCurrentRuns, Queued, scheduler_init, Slots
<1>5. current_task \notin Task
  BY NullAssumption DEF scheduler_init
<1> QED BY <1>1, <1>2, <1>4, <1>5 DEF Promises, Live

LEMMA CreateStep ==
  ASSUME Inv, NEW t \in Task, task_create(t)
  PROVE  Inv' /\ Promises
<1>1. /\ current_task # NULL /\ state[t] = "UNUSED"
      /\ state' = [state EXCEPT ![t] = "READY"]
      /\ time_slice' = [time_slice EXCEPT ![t] = DEFAULT_TIMESLICE]
      /\ current_task' = current_task /\ ready_queue' = ready_queue
      /\ scheduler_started' = scheduler_started
  BY DEF task_create
<1>2. t \in Slots /\ t # current_task /\ t \notin Queued
  BY <1>1 DEF Slots, Inv, OnlyCurrentRuns, QueueHoldsReady
<1>3. TypeOK'
  BY <1>1, FullSlice DEF Inv, TypeOK, TaskState
<1>4. QueueHoldsReady'
  BY <1>1, <1>2, QueuedProperties, FullSlice
     DEF Inv, TypeOK, QueueHoldsReady, Queued, Slots
<1>5. OnlyCurrentRuns'
  BY <1>1, <1>2 DEF Inv, TypeOK, OnlyCurrentRuns, Slots
<1>6. Inv'
  BY <1>1, <1>3, <1>4, <1>5 DEF Inv, QueueSorted, QueueDistinct, Sorted
<1> QED BY <1>1, <1>6 DEF Promises, Live, Queued

LEMMA ReadyStep ==
  ASSUME Inv, NEW t \in Task, task_ready(t)
  PROVE  Inv' /\ Promises
<1>1. /\ current_task # NULL /\ state[t] = "READY" /\ t \notin Queued
      /\ state' = state /\ time_slice' = time_slice
      /\ current_task' = current_task /\ scheduler_started' = scheduler_started
  BY DEF task_ready, Inv, TypeOK, Slots
<1>2. /\ ready_queue' \in Seq(Task)
      /\ Sorted(ready_queue') /\ IsInjective(ready_queue')
      /\ ToSet(ready_queue') = Queued \cup {t}
      /\ \A u, v : Before(ready_queue, u, v) => Before(ready_queue', u, v)
      /\ \A u \in Queued :
           priority[u] >= priority[t] => Before(ready_queue', u, t)
  BY <1>1, EnqueueProperties
     DEF task_ready, Inv, TypeOK, QueueSorted, QueueDistinct, Queued
<1>3. Inv'
  <2>1. TypeOK'
    BY <1>1, <1>2 DEF Inv, TypeOK
  <2>2. QueueHoldsReady'
    BY <1>1, <1>2 DEF Inv, QueueHoldsReady, Queued
  <2>3. OnlyCurrentRuns'
    BY <1>1 DEF Inv, OnlyCurrentRuns
  <2> QED BY <1>2, <2>1, <2>2, <2>3 DEF Inv, QueueSorted, QueueDistinct
<1> QED BY <1>1, <1>2, <1>3 DEF Promises, Live, Queued

LEMMA TickStep ==
  ASSUME Inv, scheduler_tick
  PROVE  Inv' /\ Promises
<1>1. /\ current_task' = current_task /\ ready_queue' = ready_queue
      /\ state' = state /\ scheduler_started' = scheduler_started
      /\ time_slice' = TickedSlices
  BY DEF scheduler_tick
<1>2. QueueHoldsReady'
  BY <1>1, TickedSlicesType DEF Inv, QueueHoldsReady, Queued
<1>3. Inv'
  BY <1>1, <1>2, TickedSlicesType
     DEF Inv, TypeOK, QueueSorted, QueueDistinct, OnlyCurrentRuns
<1> QED BY <1>1, <1>3 DEF Promises, Live, Queued

(* The three callers of schedule enter it with states and slices that      *)
(* EntersWith describes.                                                   *)
LEMMA RescheduleStep ==
  ASSUME Inv, Reschedule
  PROVE  Inv' /\ Promises
<1>1. CASE TickAndSchedule
  <2>1. EntersWith(state, TickedSlices) /\ current_task # NULL
    BY <1>1, TickedSlicesType DEF TickAndSchedule, EntersWith, Inv, TypeOK
  <2> QED BY <1>1, <2>1, ScheduleStep DEF TickAndSchedule
<1>2. CASE task_yield
  <2>1. EntersWith(state, time_slice) /\ current_task # NULL
    BY <1>2, NullAssumption DEF task_yield, EntersWith, Inv, TypeOK
  <2> QED BY <1>2, <2>1, ScheduleStep DEF task_yield
<1>3. CASE task_exit
  <2> DEFINE st == [state EXCEPT ![current_task] = "ZOMBIE"]
  <2>1. EntersWith(st, time_slice) /\ current_task # NULL
    BY <1>3, NullAssumption DEF task_exit, EntersWith, Inv, TypeOK, Slots, TaskState
  <2>2. schedule(st, time_slice)
    BY <1>3 DEF task_exit
  <2> HIDE DEF st
  <2> QED BY <2>1, <2>2, ScheduleStep
<1> QED BY <1>1, <1>2, <1>3 DEF Reschedule

(* Init establishes the invariant.                                         *)
LEMMA InitInv == Init => Inv
<1> SUFFICES ASSUME Init PROVE Inv
  OBVIOUS
<1>1. ready_queue = << >> /\ Len(ready_queue) = 0 /\ Queued = {}
      /\ DOMAIN ready_queue = {} /\ ready_queue \in Seq(Task)
  BY DEF Init, Queued, ToSet
<1>2. state \in [Slots -> TaskState] /\ time_slice \in [Task -> 0 .. DEFAULT_TIMESLICE]
  BY FullSlice DEF Init, TaskState
<1>3. current_task \notin Slots /\ \A t \in Slots : state[t] = "UNUSED"
  BY NullAssumption DEF Init, Slots
<1>4. TypeOK
  BY <1>1, <1>2 DEF Init, TypeOK
<1>5. QueueSorted /\ QueueDistinct
  BY <1>1 DEF QueueSorted, QueueDistinct, Sorted, IsInjective
<1>6. QueueHoldsReady
  BY <1>1, <1>3 DEF QueueHoldsReady, Slots
<1>7. OnlyCurrentRuns
  BY <1>3 DEF OnlyCurrentRuns, Slots
<1> QED BY <1>4, <1>5, <1>6, <1>7 DEF Inv

(* Every step keeps the invariant, and keeps the promises.                 *)
LEMMA NextInv ==
  ASSUME Inv, [Next]_vars
  PROVE  Inv' /\ (Promises \/ UNCHANGED vars)
<1>1. CASE UNCHANGED vars
  BY <1>1 DEF vars, Inv, TypeOK, QueueSorted, QueueDistinct, Sorted,
              QueueHoldsReady, Queued, OnlyCurrentRuns
<1>2. CASE scheduler_init
  BY <1>2, InitStep
<1>3. ASSUME NEW t \in Task, task_create(t) \/ task_ready(t)
      PROVE  Inv' /\ Promises
  BY <1>3, CreateStep, ReadyStep
<1>4. CASE scheduler_tick
  BY <1>4, TickStep
<1>5. CASE Reschedule
  BY <1>5, RescheduleStep
<1> QED BY <1>1, <1>2, <1>3, <1>4, <1>5 DEF Next, Reschedule

----------------------------------------------------------------------------
(* The theorems. *)

(* The run queue is always sorted and holds each READY task at most once,  *)
(* and only the owner of the CPU is RUNNING: the inductive invariant, with *)
(* TypeOK, QueueSorted, QueueDistinct, QueueHoldsReady and OnlyCurrentRuns *)
(* as its conjuncts.                                                       *)
THEOREM Invariance == Spec => []Inv
<1>1. Init => Inv
  BY InitInv
<1>2. Inv /\ [Next]_vars => Inv'
  BY NextInv
<1> QED BY <1>1, <1>2, PTL DEF Spec

(* sched.c:86, "ordered by priority": what runqueue_pick_next returns      *)
(* outranks or equals whatever else waits, in every reachable state.       *)
THEOREM Sortedness == Spec => []QueueSorted
BY Invariance, PTL DEF Inv

(* No call forgets a task it found queued or running, unless the call is   *)
(* the task's own task_exit.                                               *)
THEOREM TasksSurvive == Spec => NoTaskLost
<1> DEFINE Step == \A t \in Task : Live(t) => Live(t)' \/ state'[t] = "ZOMBIE"
<1>1. Inv /\ [Next]_vars => [Step]_vars
  BY NextInv DEF Promises
<1>2. Spec => [][Step]_vars
  BY <1>1, Invariance, PTL DEF Spec
<1> QED BY <1>2 DEF NoTaskLost

(* The CPU goes to a highest waiting task.                                 *)
THEOREM HighestDispatched == Spec => DispatchesHighest
<1> DEFINE Step == current_task' # current_task =>
                     \A u \in Queued :
                       current_task' \in Task /\ priority[current_task'] >= priority[u]
<1>1. Inv /\ [Next]_vars => [Step]_vars
  BY NextInv DEF Promises
<1>2. Spec => [][Step]_vars
  BY <1>1, Invariance, PTL DEF Spec
<1> QED BY <1>2 DEF DispatchesHighest

(* Arrival order is kept among tasks of one priority, and a newcomer never *)
(* passes a task of the same or a higher priority.                         *)
THEOREM FirstComeFirstServed == Spec => FifoWithinPriority
<1> DEFINE Step == \A u, t \in ToSet(ready_queue') :
                     /\ u \in Queued /\ u # t
                     /\ priority[u] >= priority[t]
                     /\ t \notin Queued \/ Before(ready_queue, u, t)
                     => Before(ready_queue', u, t)
<1>1. Inv /\ [Next]_vars => [Step]_vars
  BY NextInv DEF Promises
<1>2. Spec => [][Step]_vars
  BY <1>1, Invariance, PTL DEF Spec
<1> QED BY <1>2 DEF FifoWithinPriority

=============================================================================
