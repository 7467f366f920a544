---------------------------- MODULE FutexProofs ----------------------------
(***************************************************************************)
(* Proofs about Futex for any number of threads, futexes and values.       *)
(***************************************************************************)
EXTENDS Futex, FiniteSetTheorems, SequenceTheorems, TLAPS

-----------------------------------------------------------------------------
(***************************************************************************)
(* What the queue operations do to the set of linked waiters.              *)
(***************************************************************************)

NoRepeat(s) == \A i, j \in 1 .. Len(s) : s[i] = s[j] => i = j

\* For a sequence, NoRepeat is IsInjective by position.
LEMMA InjectiveSeq ==
    ASSUME NEW S, NEW s \in Seq(S)
    PROVE  IsInjective(s) <=> NoRepeat(s)
  BY DEF IsInjective, NoRepeat

\* Membership in a sequence, by position.
LEMMA RangeIndex ==
    ASSUME NEW S, NEW s \in Seq(S)
    PROVE  /\ Range(s) = {s[i] : i \in 1 .. Len(s)}
           /\ Range(s) \subseteq S
  BY DEF Range

\* futex_wake_queue splits the queue in two: nobody is lost or taken twice.
LEMMA WakeSplits ==
    ASSUME NEW q, NEW a, q[a] \in Seq(Tasks), NoRepeat(q[a]), NEW n \in Nat
    PROVE  /\ Taken(q, a, n) \in Seq(Tasks)
           /\ Rest(q, a, n) \in Seq(Tasks)
           /\ NoRepeat(Taken(q, a, n)) /\ NoRepeat(Rest(q, a, n))
           /\ Range(Taken(q, a, n)) = Range(q[a]) \ Range(Rest(q, a, n))
           /\ Range(Rest(q, a, n)) = Range(q[a]) \ Range(Taken(q, a, n))
           /\ Len(Taken(q, a, n)) = LowerOf(n, Len(q[a]))
  <1> DEFINE s == q[a]
             k == LowerOf(n, Len(s))
             tk == SubSeq(s, 1, k)
             rs == SubSeq(s, k + 1, Len(s))
  <1>1. s \in Seq(Tasks) /\ Len(s) \in Nat /\ k \in 0 .. Len(s)
    BY DEF LowerOf
  <1>2. \A i \in 1 .. Len(s) : s[i] \in Tasks
    BY <1>1
  <1> HIDE DEF s, k
  <1>3. /\ tk \in Seq(Tasks) /\ Len(tk) = k
        /\ \A i \in 1 .. k : tk[i] = s[i]
    BY <1>1, <1>2, SubSeqProperties
  <1>4. /\ rs \in Seq(Tasks) /\ Len(rs) = Len(s) - k
        /\ \A i \in 1 .. Len(s) - k : rs[i] = s[k + i]
    BY <1>1, <1>2, SubSeqProperties
  <1>5. NoRepeat(s)
    BY DEF s
  <1> HIDE DEF tk, rs
  <1>6. NoRepeat(tk) /\ NoRepeat(rs)
    <2>1. NoRepeat(tk)
      BY <1>1, <1>3, <1>5 DEF NoRepeat
    <2>2. ASSUME NEW i \in 1 .. Len(rs), NEW j \in 1 .. Len(rs), rs[i] = rs[j]
          PROVE  i = j
      <3>1. k + i \in 1 .. Len(s) /\ k + j \in 1 .. Len(s)
        BY <1>1, <1>4
      <3>2. s[k + i] = s[k + j]
        BY <1>1, <1>4, <2>2
      <3>3. k + i = k + j
        BY <1>5, <3>1, <3>2 DEF NoRepeat
      <3> QED BY <1>1, <1>4, <3>3
    <2> QED BY <2>1, <2>2 DEF NoRepeat
  <1>7. /\ Range(s) = {s[i] : i \in 1 .. Len(s)}
        /\ Range(tk) = {tk[i] : i \in 1 .. k}
        /\ Range(rs) = {rs[i] : i \in 1 .. Len(s) - k}
    BY <1>1, <1>3, <1>4, RangeIndex
  <1>8. Range(tk) \cap Range(rs) = {}
    <2>1. ASSUME NEW i \in 1 .. k, NEW j \in 1 .. Len(s) - k, tk[i] = rs[j] PROVE FALSE
      <3>1. i \in 1 .. Len(s) /\ k + j \in 1 .. Len(s) /\ i # k + j
        BY <1>1
      <3>2. s[i] = s[k + j]
        BY <1>3, <1>4, <2>1
      <3> QED BY <1>5, <3>1, <3>2 DEF NoRepeat
    <2> QED BY <1>7, <2>1
  <1>9. ASSUME NEW x \in Range(s) PROVE x \in Range(tk) \cup Range(rs)
    <2>1. PICK i \in 1 .. Len(s) : x = s[i]
      BY <1>7, <1>9
    <2>2. CASE i <= k
      BY <1>1, <1>3, <1>7, <2>1, <2>2
    <2>3. CASE i > k
      <3>1. i - k \in 1 .. Len(s) - k /\ rs[i - k] = s[k + (i - k)]
        BY <1>1, <1>4, <2>3
      <3>2. x = rs[i - k]
        BY <1>1, <2>1, <3>1
      <3> QED BY <1>7, <3>1, <3>2
    <2> QED BY <1>1, <2>2, <2>3
  <1>10. Range(tk) \cup Range(rs) \subseteq Range(s)
    BY <1>1, <1>3, <1>4, <1>7
  <1> QED
    BY <1>3, <1>4, <1>6, <1>8, <1>9, <1>10 DEF Taken, Rest, s, k, tk, rs

\* Linking a waiter that is not linked yet.
LEMMA AppendLinks ==
    ASSUME NEW s \in Seq(Tasks), NoRepeat(s), NEW t \in Tasks, t \notin Range(s)
    PROVE  /\ Append(s, t) \in Seq(Tasks)
           /\ NoRepeat(Append(s, t))
           /\ Range(Append(s, t)) = Range(s) \cup {t}
  <1> DEFINE r == Append(s, t)
  <1>1. /\ r \in Seq(Tasks) /\ Len(r) = Len(s) + 1 /\ r[Len(s) + 1] = t
        /\ \A i \in 1 .. Len(s) : r[i] = s[i]
    BY AppendProperties
  <1>2. Len(s) \in Nat
    OBVIOUS
  <1> HIDE DEF r
  <1>3. /\ Range(s) = {s[i] : i \in 1 .. Len(s)}
        /\ Range(r) = {r[i] : i \in 1 .. Len(r)}
    BY <1>1, RangeIndex
  <1>4. NoRepeat(r)
    BY <1>1, <1>2, <1>3 DEF NoRepeat
  <1>5. Range(r) = Range(s) \cup {t}
    BY <1>1, <1>2, <1>3
  <1> QED BY <1>1, <1>4, <1>5 DEF r

\* list_remove_safe takes out that waiter and no other.
LEMMA WithoutUnlinks ==
    ASSUME NEW s \in Seq(Tasks), NoRepeat(s), NEW t \in Tasks
    PROVE  /\ Without(s, t) \in Seq(Tasks)
           /\ NoRepeat(Without(s, t))
           /\ Range(Without(s, t)) = Range(s) \ {t}
  <1>1. CASE t \notin Range(s)
    BY <1>1 DEF Without
  <1>2. CASE t \in Range(s)
    <2> DEFINE k == CHOOSE i \in DOMAIN s : s[i] = t
               l == SubSeq(s, 1, k - 1)
               h == SubSeq(s, k + 1, Len(s))
               r == l \o h
    <2>1. k \in 1 .. Len(s) /\ s[k] = t /\ Len(s) \in Nat
      BY <1>2 DEF Range
    <2>2. \A i \in 1 .. Len(s) : s[i] \in Tasks
      OBVIOUS
    <2> HIDE DEF k
    <2>3. /\ l \in Seq(Tasks) /\ Len(l) = k - 1
          /\ \A i \in 1 .. k - 1 : l[i] = s[i]
      BY <2>1, <2>2, SubSeqProperties
    <2>4. /\ h \in Seq(Tasks) /\ Len(h) = Len(s) - k
          /\ \A i \in 1 .. Len(s) - k : h[i] = s[k + i]
      BY <2>1, <2>2, SubSeqProperties
    <2> HIDE DEF l, h
    <2>5. /\ r \in Seq(Tasks) /\ Len(r) = Len(l) + Len(h)
          /\ \A i \in 1 .. Len(l) + Len(h) : r[i] = IF i <= Len(l) THEN l[i] ELSE h[i - Len(l)]
      BY <2>3, <2>4, ConcatProperties
    <2>6. /\ Len(r) = Len(s) - 1
          /\ \A i \in 1 .. Len(s) - 1 : r[i] = IF i < k THEN s[i] ELSE s[i + 1]
      <3>1. Len(r) = Len(s) - 1
        BY <2>1, <2>3, <2>4, <2>5
      <3>2. ASSUME NEW i \in 1 .. Len(s) - 1 PROVE r[i] = IF i < k THEN s[i] ELSE s[i + 1]
        <4>1. CASE i < k
          BY <2>1, <2>3, <2>4, <2>5, <4>1
        <4>2. CASE ~(i < k)
          <5>1. i - (k - 1) \in 1 .. Len(s) - k /\ k + (i - (k - 1)) = i + 1
            BY <2>1, <4>2
          <5>2. r[i] = h[i - (k - 1)]
            BY <2>1, <2>3, <2>4, <2>5, <4>2
          <5>3. h[i - (k - 1)] = s[k + (i - (k - 1))]
            BY <2>4, <5>1
          <5> QED BY <4>2, <5>1, <5>2, <5>3
        <4> QED BY <4>1, <4>2
      <3> QED BY <3>1, <3>2
    <2> HIDE DEF r
    <2>7. /\ Range(s) = {s[i] : i \in 1 .. Len(s)}
          /\ Range(r) = {r[i] : i \in 1 .. Len(s) - 1}
      BY <2>5, <2>6, RangeIndex
    <2> DEFINE at(i) == IF i < k THEN i ELSE i + 1
    <2>12. \A i \in 1 .. Len(s) - 1 : at(i) \in 1 .. Len(s) /\ at(i) # k /\ r[i] = s[at(i)]
      BY <2>1, <2>6
    <2>13. \A i, j \in 1 .. Len(s) - 1 : at(i) = at(j) => i = j
      BY <2>1
    <2> HIDE DEF at
    <2>8. NoRepeat(r)
      BY <2>6, <2>12, <2>13 DEF NoRepeat
    <2>9. Range(r) \subseteq Range(s) \ {t}
      BY <2>1, <2>7, <2>12 DEF NoRepeat
    <2>10. ASSUME NEW x \in Range(s) \ {t} PROVE x \in Range(r)
      <3>1. PICK i \in 1 .. Len(s) : x = s[i] /\ i # k
        BY <2>1, <2>7, <2>10
      <3>2. CASE i < k
        BY <2>1, <2>6, <2>7, <3>1, <3>2
      <3>3. CASE i > k
        <4>1. i - 1 \in 1 .. Len(s) - 1 /\ ~(i - 1 < k) /\ (i - 1) + 1 = i
          BY <2>1, <3>3
        <4>2. r[i - 1] = x
          BY <2>6, <3>1, <4>1
        <4> QED BY <2>7, <4>1, <4>2
      <3> QED BY <2>1, <3>1, <3>2, <3>3
    <2>11. Without(s, t) = r
      BY <1>2 DEF Without, RemoveAt, r, l, h, k
    <2> QED BY <2>5, <2>8, <2>9, <2>10, <2>11
  <1> QED BY <1>1, <1>2

\* Joining two sequences with no element in common.
LEMMA ConcatJoins ==
    ASSUME NEW s \in Seq(Tasks), NEW r \in Seq(Tasks), NoRepeat(s), NoRepeat(r),
           Range(s) \cap Range(r) = {}
    PROVE  /\ s \o r \in Seq(Tasks)
           /\ NoRepeat(s \o r)
           /\ Range(s \o r) = Range(s) \cup Range(r)
  <1> DEFINE c == s \o r
  <1>1. /\ c \in Seq(Tasks) /\ Len(c) = Len(s) + Len(r)
        /\ \A i \in 1 .. Len(s) + Len(r) : c[i] = IF i <= Len(s) THEN s[i] ELSE r[i - Len(s)]
    BY ConcatProperties
  <1>2. Len(s) \in Nat /\ Len(r) \in Nat
    OBVIOUS
  <1> HIDE DEF c
  <1>3. /\ Range(s) = {s[i] : i \in 1 .. Len(s)}
        /\ Range(r) = {r[i] : i \in 1 .. Len(r)}
        /\ Range(c) = {c[i] : i \in 1 .. Len(c)}
    BY <1>1, RangeIndex
  <1>4. ASSUME NEW i \in 1 .. Len(c)
        PROVE  \/ i \in 1 .. Len(s) /\ c[i] = s[i] /\ c[i] \in Range(s)
               \/ /\ i - Len(s) \in 1 .. Len(r)
                  /\ c[i] = r[i - Len(s)] /\ c[i] \in Range(r) /\ i > Len(s)
    BY <1>1, <1>2, <1>3
  <1>5. NoRepeat(c)
    <2>1. SUFFICES ASSUME NEW i \in 1 .. Len(c), NEW j \in 1 .. Len(c), c[i] = c[j]
                   PROVE  i = j
      BY DEF NoRepeat
    <2>2. CASE i <= Len(s) /\ j <= Len(s)
      BY <1>1, <1>2, <2>1, <2>2 DEF NoRepeat
    <2>3. CASE i > Len(s) /\ j > Len(s)
      <3>1. i - Len(s) = j - Len(s)
        BY <1>1, <1>2, <1>4, <2>1, <2>3 DEF NoRepeat
      <3> QED BY <1>1, <1>2, <3>1
    <2> QED BY <1>1, <1>2, <1>4, <2>1, <2>2, <2>3
  <1>6. Range(c) \subseteq Range(s) \cup Range(r)
    BY <1>3, <1>4
  <1>7. Range(s) \subseteq Range(c)
    BY <1>1, <1>2, <1>3
  <1>8. ASSUME NEW i \in 1 .. Len(r) PROVE r[i] \in Range(c)
    <2>1. Len(s) + i \in 1 .. Len(c) /\ ~(Len(s) + i <= Len(s)) /\ (Len(s) + i) - Len(s) = i
      BY <1>1, <1>2
    <2>2. c[Len(s) + i] = r[i]
      BY <1>1, <2>1
    <2> QED BY <1>3, <2>1, <2>2
  <1>9. Range(c) = Range(s) \cup Range(r)
    BY <1>3, <1>6, <1>7, <1>8
  <1> QED BY <1>1, <1>5, <1>9 DEF c

-----------------------------------------------------------------------------
(***************************************************************************)
(* What the steps do to the set of tasks that hold a reference.            *)
(***************************************************************************)

Holders(f, a) == {t \in Tasks : f[t] = a}

\* The holders of a futex can be counted.
LEMMA HoldersCount ==
    ASSUME NEW f, NEW a
    PROVE  IsFiniteSet(Holders(f, a)) /\ Cardinality(Holders(f, a)) \in Nat
  <1>1. Holders(f, a) \in SUBSET Tasks
    BY DEF Holders
  <1> QED BY <1>1, FS_Subset, FS_CardinalityType, TasksAssumption

\* One task more holds a reference to a.
LEMMA HoldersGet ==
    ASSUME NEW f, NEW g, NEW t \in Tasks, NEW a \in Addrs, f[t] = NoFutex, g[t] = a,
           \A u \in Tasks \ {t} : g[u] = f[u]
    PROVE  \A b \in Addrs : Cardinality(Holders(g, b))
                = IF b = a THEN Cardinality(Holders(f, b)) + 1 ELSE Cardinality(Holders(f, b))
  <1> SUFFICES ASSUME NEW b \in Addrs
               PROVE  Cardinality(Holders(g, b))
                 = IF b = a THEN Cardinality(Holders(f, b)) + 1 ELSE Cardinality(Holders(f, b))
    OBVIOUS
  <1>1. CASE b = a
    <2>1. Holders(g, b) = Holders(f, b) \cup {t}
      BY <1>1 DEF Holders
    <2>2. t \notin Holders(f, b)
      BY AddrsAssumption DEF Holders
    <2>3. Cardinality(Holders(f, b) \cup {t}) = Cardinality(Holders(f, b)) + 1
      BY <2>2, HoldersCount, FS_AddElement
    <2> QED BY <1>1, <2>1, <2>3
  <1>2. CASE b # a
    <2>1. Holders(g, b) = Holders(f, b)
      BY <1>2, AddrsAssumption DEF Holders
    <2> QED BY <1>2, <2>1
  <1> QED BY <1>1, <1>2

\* A requeue hands the references of the moved waiters from a to b.
LEMMA HoldersMove ==
    ASSUME NEW f \in [Tasks -> Addrs \cup {NoFutex}], NEW a \in Addrs, NEW b \in Addrs,
           a # b, NEW M, M \subseteq Holders(f, a),
           NEW g, g = [u \in Tasks |-> IF u \in M THEN b ELSE f[u]]
    PROVE  /\ Cardinality(M) \in Nat
           /\ Cardinality(Holders(g, a)) = Cardinality(Holders(f, a)) - Cardinality(M)
           /\ Cardinality(Holders(g, b)) = Cardinality(Holders(f, b)) + Cardinality(M)
           /\ \A c \in Addrs \ {a, b} : Holders(g, c) = Holders(f, c)
  <1>1. M \subseteq Tasks /\ M \in SUBSET Holders(f, a)
    BY DEF Holders
  <1>2. IsFiniteSet(M) /\ Cardinality(M) \in Nat
    BY <1>1, HoldersCount, FS_Subset, FS_CardinalityType
  <1>3. Holders(f, a) = Holders(g, a) \cup M /\ Holders(g, a) \cap M = {}
    BY <1>1 DEF Holders
  <1>4. Holders(g, b) = Holders(f, b) \cup M /\ Holders(f, b) \cap M = {}
    BY <1>1 DEF Holders
  <1>5. \A c \in Addrs \ {a, b} : Holders(g, c) = Holders(f, c)
    BY <1>1 DEF Holders
  <1>6. Cardinality(Holders(f, a)) = Cardinality(Holders(g, a)) + Cardinality(M) - 0
    BY <1>2, <1>3, HoldersCount, FS_Union, FS_EmptySet
  <1>7. Cardinality(Holders(g, b)) = Cardinality(Holders(f, b)) + Cardinality(M) - 0
    <2>1. Cardinality(Holders(f, b) \cup M)
            = Cardinality(Holders(f, b)) + Cardinality(M) - Cardinality(Holders(f, b) \cap M)
      BY <1>2, HoldersCount, FS_Union
    <2> QED BY <1>4, <2>1, FS_EmptySet
  <1>8. /\ Cardinality(Holders(f, a)) \in Nat /\ Cardinality(Holders(g, a)) \in Nat
        /\ Cardinality(Holders(f, b)) \in Nat /\ Cardinality(Holders(g, b)) \in Nat
    BY HoldersCount
  <1>9. /\ Cardinality(Holders(g, a)) = Cardinality(Holders(f, a)) - Cardinality(M)
        /\ Cardinality(Holders(g, b)) = Cardinality(Holders(f, b)) + Cardinality(M)
    BY <1>2, <1>6, <1>7, <1>8
  <1> QED BY <1>2, <1>5, <1>9

-----------------------------------------------------------------------------
(***************************************************************************)
(* What waking and requeueing does to all queues.                          *)
(***************************************************************************)

Queues == [Addrs -> Seq(Tasks)]

\* Well-formed queues: nobody is linked twice, in one queue or in two.
Linking(q) ==
    /\ q \in Queues
    /\ \A c \in Addrs : NoRepeat(q[c])
    /\ \A c, d \in Addrs : c # d => Range(q[c]) \cap Range(q[d]) = {}

\* Waking takes the first waiters of one queue and leaves the rest.
LEMMA DequeueEffect ==
    ASSUME NEW q, Linking(q), NEW a \in Addrs, NEW n \in Nat
    PROVE  /\ Linking(Dequeue(q, a, n))
           /\ Range(Taken(q, a, n)) \subseteq Range(q[a])
           /\ \A c \in Addrs : Range(Dequeue(q, a, n)[c]) = Range(q[c]) \ Range(Taken(q, a, n))
  <1> DEFINE tk == Range(Taken(q, a, n))
             d == Dequeue(q, a, n)
  <1>1. q[a] \in Seq(Tasks) /\ NoRepeat(q[a])
    BY DEF Linking, Queues
  <1>2. /\ Rest(q, a, n) \in Seq(Tasks) /\ NoRepeat(Rest(q, a, n))
        /\ tk = Range(q[a]) \ Range(Rest(q, a, n))
        /\ Range(Rest(q, a, n)) = Range(q[a]) \ tk
    BY <1>1, WakeSplits
  <1>3. /\ d \in Queues /\ d[a] = Rest(q, a, n)
        /\ \A c \in Addrs \ {a} : d[c] = q[c]
    BY <1>2 DEF Dequeue, Linking, Queues
  <1> HIDE DEF tk, d
  <1>4. \A c \in Addrs : Range(d[c]) = Range(q[c]) \ tk
    BY <1>2, <1>3 DEF Linking
  <1>5. \A c \in Addrs : NoRepeat(d[c])
    BY <1>2, <1>3 DEF Linking
  <1>6. Linking(d)
    BY <1>3, <1>4, <1>5 DEF Linking
  <1> QED BY <1>2, <1>4, <1>6 DEF tk, d

\* A requeue moves the first waiters of a to b and touches nobody else.
LEMMA TransferEffect ==
    ASSUME NEW q, Linking(q), NEW a \in Addrs, NEW b \in Addrs, NEW n \in Nat
    PROVE  /\ Linking(Transfer(q, a, b, n))
           /\ Moved(q, a, b, n) \subseteq Range(q[a])
           /\ a = b => Moved(q, a, b, n) = {}
           /\ \A c \in Addrs : Range(Transfer(q, a, b, n)[c])
                 = (Range(q[c]) \ Moved(q, a, b, n))
                     \cup (IF c = b THEN Moved(q, a, b, n) ELSE {})
  <1>1. q \in Queues /\ \A c \in Addrs : q[c] \in Seq(Tasks) /\ NoRepeat(q[c])
    BY DEF Linking, Queues
  <1>2. CASE a = b
    <2> DEFINE k == Turns(q, a, n)
               r == Rest(q, a, k) \o Taken(q, a, k)
               T == Transfer(q, a, b, n)
    <2>1. k \in Nat
      <3>1. CASE q[a] = <<>>
        BY <3>1 DEF Turns
      <3>2. CASE q[a] # <<>>
        <4>1. Len(q[a]) \in Nat /\ Len(q[a]) > 0
          BY <1>1, <3>2, EmptySeq, LenProperties
        <4>2. \A L \in Nat : L > 0 => n % L \in Nat
          OBVIOUS
        <4> QED BY <3>2, <4>1, <4>2 DEF Turns
      <3> QED BY <3>1, <3>2
    <2> HIDE DEF k
    <2>2. /\ Taken(q, a, k) \in Seq(Tasks) /\ Rest(q, a, k) \in Seq(Tasks)
          /\ NoRepeat(Taken(q, a, k)) /\ NoRepeat(Rest(q, a, k))
          /\ Range(Taken(q, a, k)) = Range(q[a]) \ Range(Rest(q, a, k))
          /\ Range(Rest(q, a, k)) = Range(q[a]) \ Range(Taken(q, a, k))
      BY <1>1, <2>1, WakeSplits
    <2>3. r \in Seq(Tasks) /\ NoRepeat(r) /\ Range(r) = Range(q[a])
      BY <2>2, ConcatJoins
    <2>4. T \in Queues /\ T[a] = r /\ \A c \in Addrs \ {a} : T[c] = q[c]
      BY <1>1, <1>2, <2>3 DEF Transfer, Queues, k
    <2> HIDE DEF T, r
    <2>5. Moved(q, a, b, n) = {}
      BY <1>2 DEF Moved
    <2>6. \A c \in Addrs : Range(T[c]) = Range(q[c]) /\ NoRepeat(T[c])
      BY <1>1, <2>3, <2>4
    <2>7. Linking(T)
      BY <2>4, <2>6 DEF Linking
    <2> QED BY <2>5, <2>6, <2>7 DEF T
  <1>3. CASE a # b
    <2> DEFINE M == Range(Taken(q, a, n))
               r == q[b] \o Taken(q, a, n)
               T == Transfer(q, a, b, n)
    <2>1. /\ Taken(q, a, n) \in Seq(Tasks) /\ Rest(q, a, n) \in Seq(Tasks)
          /\ NoRepeat(Taken(q, a, n)) /\ NoRepeat(Rest(q, a, n))
          /\ M = Range(q[a]) \ Range(Rest(q, a, n))
          /\ Range(Rest(q, a, n)) = Range(q[a]) \ M
      BY <1>1, WakeSplits
    <2>2. Range(q[b]) \cap M = {}
      BY <1>3, <2>1 DEF Linking
    <2>3. r \in Seq(Tasks) /\ NoRepeat(r) /\ Range(r) = Range(q[b]) \cup M
      BY <1>1, <2>1, <2>2, ConcatJoins
    <2>4. /\ T \in Queues /\ T[a] = Rest(q, a, n) /\ T[b] = r
          /\ \A c \in Addrs \ {a, b} : T[c] = q[c]
      BY <1>1, <1>3, <2>1, <2>3 DEF Transfer, Queues
    <2>5. Moved(q, a, b, n) = M
      BY <1>3 DEF Moved
    <2> HIDE DEF T, r, M
    <2>6. \A c \in Addrs : NoRepeat(T[c])
      BY <1>1, <2>1, <2>3, <2>4
    <2>7. \A c \in Addrs \ {a, b} : Range(T[c]) = Range(q[c]) /\ Range(q[c]) \cap M = {}
      BY <2>1, <2>4 DEF Linking
    <2>8. \A c \in Addrs : Range(T[c]) = (Range(q[c]) \ M) \cup (IF c = b THEN M ELSE {})
      BY <1>3, <2>1, <2>2, <2>3, <2>4, <2>7
    <2>9. \A c, d \in Addrs : c # d => Range(T[c]) \cap Range(T[d]) = {}
      BY <2>8 DEF Linking
    <2>10. Linking(T)
      BY <2>4, <2>6, <2>9 DEF Linking
    <2> QED BY <1>3, <2>1, <2>5, <2>8, <2>10 DEF T
  <1> QED BY <1>2, <1>3

-----------------------------------------------------------------------------
(***************************************************************************)
(* The inductive invariant                                                 *)
(***************************************************************************)

\* The queues of a state that satisfies the invariant are well formed.
LEMMA InvLinking ==
    ASSUME TypeOK, QueueConsistent
    PROVE  /\ Linking(queue)
           /\ \A c \in Addrs : \A u \in Range(queue[c]) :
                 u \in Tasks /\ pc[u] \in Waiting /\ futex[u] = c
  <1>1. queue \in Queues /\ \A c \in Addrs : queue[c] \in Seq(Tasks)
    BY DEF TypeOK, Queues
  <1>2. \A c \in Addrs : NoRepeat(queue[c])
    BY <1>1, InjectiveSeq DEF QueueConsistent
  <1>3. \A c \in Addrs : \A u \in Range(queue[c]) :
           u \in Tasks /\ pc[u] \in Waiting /\ futex[u] = c
    BY <1>1, RangeIndex DEF QueueConsistent
  <1> QED BY <1>1, <1>2, <1>3 DEF Linking

\* Well-formed queues of waiting tasks satisfy QueueConsistent.
LEMMA LinkingQueue ==
    ASSUME Linking(queue)',
           \A c \in Addrs : \A u \in Range(queue'[c]) : pc'[u] \in Waiting /\ futex'[u] = c
    PROVE  QueueConsistent'
  <1>1. \A c \in Addrs : queue'[c] \in Seq(Tasks) /\ NoRepeat(queue'[c])
    BY DEF Linking, Queues
  <1>2. \A c \in Addrs : IsInjective(queue'[c])
    BY <1>1, InjectiveSeq
  <1> QED BY <1>2 DEF QueueConsistent

\* Exact refcounts are natural numbers.
LEMMA ExactNat ==
    ASSUME refcount' \in [Addrs -> Int],
           \A c \in Addrs : refcount'[c] = Cardinality(Holders(futex', c))
    PROVE  RefcountExact' /\ refcount' \in [Addrs -> Nat]
  <1>1. \A c \in Addrs : refcount'[c] \in Nat
    BY HoldersCount
  <1> QED BY <1>1 DEF RefcountExact, Holders

\* Waking and requeueing keep queues, pipes and references in step.
LEMMA WakeAndRequeueKeeps ==
    ASSUME TypeOK, FutexHeld, PipeOpen, QueueConsistent, WakeByteExact,
           NEW t \in Tasks, pc[t] \notin Waiting,
           NEW a \in Addrs, NEW b \in Addrs, NEW n \in Nat, NEW m \in Nat,
           NEW rc \in [Addrs -> Int],
           \A c \in Addrs : rc[c] = Cardinality(Holders([futex EXCEPT ![t] = NoFutex], c)),
           WakeAndRequeue(t, rc, a, n, b, m)
    PROVE  /\ QueueConsistent' /\ WakeByteExact' /\ PipeOpen' /\ RefcountExact'
           /\ queue' \in Queues /\ refcount' \in [Addrs -> Nat]
           /\ pipe' \in [Tasks -> Int] /\ futex' \in [Tasks -> Addrs \cup {NoFutex}]
           /\ futex'[t] = NoFutex
           /\ \A u \in Tasks \ {t} :
                 /\ futex'[u] # NoFutex <=> futex[u] # NoFutex
                 /\ pc[u] \notin Waiting => futex'[u] = futex[u]
           /\ ret' \in [Tasks -> Int]
  <1> DEFINE q == Dequeue(queue, a, n)
             W == Range(Taken(queue, a, n))
             M == Moved(q, a, b, m)
             f == [futex EXCEPT ![t] = NoFutex]
  <1>1. /\ Linking(queue)
        /\ \A c \in Addrs : \A u \in Range(queue[c]) :
              u \in Tasks /\ pc[u] \in Waiting /\ futex[u] = c
    BY InvLinking
  <1>2. /\ Linking(q) /\ W \subseteq Range(queue[a])
        /\ \A c \in Addrs : Range(q[c]) = Range(queue[c]) \ W
    BY <1>1, DequeueEffect
  <1>3. /\ Linking(Transfer(q, a, b, m)) /\ M \subseteq Range(q[a]) /\ (a = b => M = {})
        /\ \A c \in Addrs : Range(Transfer(q, a, b, m)[c])
              = (Range(q[c]) \ M) \cup (IF c = b THEN M ELSE {})
    BY <1>2, TransferEffect
  <1>4. /\ queue' = Transfer(q, a, b, m)
        /\ pipe' = Notify(pipe, Taken(queue, a, n))
        /\ refcount' = MoveRefs(rc, a, b, M)
        /\ futex' = [u \in Tasks |-> IF u = t THEN NoFutex ELSE IF u \in M THEN b ELSE futex[u]]
        /\ pc' = [pc EXCEPT ![t] = "done"]
        /\ ret' = [ret EXCEPT ![t] = Len(Taken(queue, a, n)) + Requeued(q, a, b, m)]
    BY DEF WakeAndRequeue, Return, Goto
  <1>5. /\ futex \in [Tasks -> Addrs \cup {NoFutex}] /\ pc \in [Tasks -> PCs]
        /\ pipe \in [Tasks -> Int] /\ ret \in [Tasks -> Int] /\ queue \in Queues
    BY DEF TypeOK, Queues
  <1>6. pipe' = [u \in Tasks |-> IF u \in W /\ pipe[u] # -1 THEN pipe[u] + 1 ELSE pipe[u]]
    BY <1>4 DEF Notify
  <1>7. Len(Taken(queue, a, n)) + Requeued(q, a, b, m) \in Int
    <2>1. queue[a] \in Seq(Tasks) /\ q[a] \in Seq(Tasks) /\ NoRepeat(queue[a])
      BY <1>1, <1>2 DEF Linking, Queues
    <2>2. Len(Taken(queue, a, n)) \in Nat
      BY <2>1, WakeSplits, LenProperties
    <2>3. Requeued(q, a, b, m) \in Nat
      BY <2>1, LenProperties DEF Requeued, LowerOf
    <2> QED BY <2>2, <2>3
  <1> HIDE DEF q, W, M
  <1>8. \A c \in Addrs : Range(queue'[c])
           = ((Range(queue[c]) \ W) \ M) \cup (IF c = b THEN M ELSE {})
    BY <1>2, <1>3, <1>4
  <1>9. /\ \A u \in W : u \in Tasks /\ pc[u] \in Waiting /\ futex[u] = a /\ u \notin M /\ u # t
        /\ \A u \in M : u \in Tasks /\ pc[u] \in Waiting /\ futex[u] = a /\ u # t
                          /\ u \in Range(queue[a])
    BY <1>1, <1>2, <1>3
  <1>10. queue' \in Queues /\ Linking(queue)'
    BY <1>3, <1>4 DEF Linking
  <1>11. QueueConsistent'
    <2>1. ASSUME NEW c \in Addrs, NEW u \in Range(queue'[c])
          PROVE  pc'[u] \in Waiting /\ futex'[u] = c
      <3>1. CASE u \in M
        BY <1>4, <1>5, <1>8, <1>9, <2>1, <3>1
      <3>2. CASE u \notin M
        BY <1>1, <1>4, <1>5, <1>8, <2>1, <3>2
      <3> QED BY <3>1, <3>2
    <2> QED BY <1>10, <2>1, LinkingQueue
  <1>12. PipeOpen' /\ pipe' \in [Tasks -> Int]
    BY <1>4, <1>5, <1>6 DEF PipeOpen, Waiting, InLoop
  <1>13. WakeByteExact'
    <2>1. SUFFICES ASSUME NEW u \in Tasks, pc'[u] \in InLoop
                   PROVE  pipe'[u] = IF u \in Range(queue'[futex'[u]]) THEN 0 ELSE 1
      BY DEF WakeByteExact
    <2>2. /\ u # t /\ pc[u] \in InLoop /\ pc[u] \in Waiting
          /\ pipe[u] = IF u \in Range(queue[futex[u]]) THEN 0 ELSE 1
      BY <1>4, <1>5, <2>1 DEF WakeByteExact, InLoop, Waiting
    <2>3. CASE u \in W
      <3>1. pipe[u] = 0 /\ futex[u] = a /\ futex'[u] = a /\ u \notin M
        BY <1>2, <1>4, <1>9, <2>2, <2>3
      <3>2. u \notin Range(queue'[a])
        BY <1>8, <2>3, <3>1
      <3> QED BY <1>6, <2>3, <3>1, <3>2
    <2>4. CASE u \in M
      <3>1. pipe[u] = 0 /\ futex'[u] = b /\ u \in Range(queue'[b]) /\ u \notin W
        BY <1>4, <1>8, <1>9, <2>2, <2>4
      <3> QED BY <1>6, <3>1
    <2>5. CASE u \notin W /\ u \notin M
      <3>1. pipe'[u] = pipe[u] /\ futex'[u] = futex[u]
        BY <1>4, <1>6, <2>2, <2>5
      <3>2. CASE futex[u] \in Addrs
        BY <1>8, <2>2, <2>5, <3>1, <3>2
      <3>3. CASE futex[u] = NoFutex
        BY <2>2, <3>3 DEF FutexHeld
      <3> QED BY <1>5, <3>2, <3>3
    <2> QED BY <2>3, <2>4, <2>5
  <1>14. RefcountExact' /\ refcount' \in [Addrs -> Nat]
    <2>1. f \in [Tasks -> Addrs \cup {NoFutex}] /\ M \subseteq Holders(f, a)
      BY <1>5, <1>9 DEF Holders
    <2>2. futex' = [u \in Tasks |-> IF u \in M THEN b ELSE f[u]]
      BY <1>4, <1>5, <1>9
    <2>5. \A c \in Addrs : rc[c] = Cardinality(Holders(f, c))
      OBVIOUS
    <2> HIDE DEF f
    <2>3. CASE a = b
      <3>1. futex' = f /\ refcount' = rc
        BY <1>3, <1>4, <2>1, <2>2, <2>3 DEF MoveRefs
      <3> QED BY <2>5, <3>1, ExactNat
    <2>4. CASE a # b
      <3>1. /\ Cardinality(M) \in Nat
            /\ Cardinality(Holders(futex', a)) = Cardinality(Holders(f, a)) - Cardinality(M)
            /\ Cardinality(Holders(futex', b)) = Cardinality(Holders(f, b)) + Cardinality(M)
            /\ \A c \in Addrs \ {a, b} : Holders(futex', c) = Holders(f, c)
        BY <2>1, <2>2, <2>4, HoldersMove
      <3>2. refcount' = [rc EXCEPT ![a] = @ - Cardinality(M), ![b] = @ + Cardinality(M)]
        BY <1>4, <2>4 DEF MoveRefs
      <3>3. refcount' \in [Addrs -> Int]
        BY <3>1, <3>2
      <3>4. \A c \in Addrs : refcount'[c] = Cardinality(Holders(futex', c))
        BY <2>4, <2>5, <3>1, <3>2
      <3> QED BY <3>3, <3>4, ExactNat
    <2> QED BY <2>3, <2>4
  <1>15. /\ futex' \in [Tasks -> Addrs \cup {NoFutex}] /\ futex'[t] = NoFutex
         /\ \A u \in Tasks \ {t} :
               /\ futex'[u] # NoFutex <=> futex[u] # NoFutex
               /\ pc[u] \notin Waiting => futex'[u] = futex[u]
    BY <1>4, <1>5, <1>9, AddrsAssumption
  <1>16. ret' \in [Tasks -> Int]
    BY <1>4, <1>5, <1>7
  <1> QED BY <1>10, <1>11, <1>12, <1>13, <1>14, <1>15, <1>16

\* The error codes the calls return are integers.
LEMMA ErrorsInt ==
    /\ EFAULT \in Int /\ EAGAIN \in Int /\ EINTR \in Int /\ ENOMEM \in Int
    /\ EINVAL \in Int /\ ENOSYS \in Int /\ ETIMEDOUT \in Int
  BY DEF EFAULT, EAGAIN, EINTR, ENOMEM, EINVAL, ENOSYS, ETIMEDOUT

\* The resting arguments are arguments.
LEMMA NoArgsType == NoArgs \in Args /\ AnyAddr \in Addrs
  <1>1. AnyAddr \in Addrs
    BY AddrsAssumption DEF AnyAddr
  <1> QED BY <1>1, ValuesAssumption DEF NoArgs, Args

\* A call that starts takes a reference.
LEMMA GetKeeps ==
    ASSUME IInv, NEW t \in Tasks, pc[t] = "run", lock = NoTask, NEW a \in Addrs,
           refcount' = Get(refcount, a), futex' = [futex EXCEPT ![t] = a]
    PROVE  RefcountExact' /\ refcount' \in [Addrs -> Nat]
  <1>1. /\ futex \in [Tasks -> Addrs \cup {NoFutex}] /\ futex[t] = NoFutex
        /\ refcount \in [Addrs -> Nat]
    BY DEF IInv, TypeOK, FutexHeld, Holding, Waiting, InLoop
  <1>2. \A c \in Addrs : refcount[c] = Cardinality(Holders(futex, c))
    BY DEF IInv, RefcountExact, Holders
  <1>3. refcount' \in [Addrs -> Int]
    BY <1>1 DEF Get
  <1>4. \A c \in Addrs : refcount'[c] = Cardinality(Holders(futex', c))
    <2>1. \A b \in Addrs : Cardinality(Holders(futex', b))
            = IF b = a THEN Cardinality(Holders(futex, b)) + 1 ELSE Cardinality(Holders(futex, b))
      <3>1. futex'[t] = a /\ \A u \in Tasks \ {t} : futex'[u] = futex[u]
        BY <1>1
      <3> QED BY <1>1, <3>1, HoldersGet
    <2> QED BY <1>1, <1>2, <2>1 DEF Get
  <1> QED BY <1>3, <1>4, ExactNat

\* A call that ends, or a wait that is unlinked, gives its reference back.
LEMMA PutKeeps ==
    ASSUME IInv, NEW t \in Tasks, NEW a \in Addrs, futex[t] = a,
           refcount' = Put(refcount, a), futex' = [futex EXCEPT ![t] = NoFutex]
    PROVE  /\ RefcountExact' /\ refcount' \in [Addrs -> Nat]
           /\ refcount' \in [Addrs -> Int]
           /\ \A c \in Addrs : refcount'[c] = Cardinality(Holders(futex', c))
  <1>1. /\ futex \in [Tasks -> Addrs \cup {NoFutex}] /\ a \in Addrs
        /\ refcount \in [Addrs -> Nat]
    BY DEF IInv, TypeOK
  <1>2. \A c \in Addrs : refcount[c] = Cardinality(Holders(futex, c))
    BY DEF IInv, RefcountExact, Holders
  <1>3. refcount' \in [Addrs -> Int]
    BY <1>1 DEF Put
  <1>4. \A c \in Addrs : refcount'[c] = Cardinality(Holders(futex', c))
    <2>1. ASSUME NEW b \in Addrs
          PROVE  Cardinality(Holders(futex', b)) = IF b = a THEN Cardinality(Holders(futex, b)) - 1
                                                   ELSE Cardinality(Holders(futex, b))
      <3>1. CASE b = a
        <4>1. Holders(futex', b) = Holders(futex, b) \ {t} /\ t \in Holders(futex, b)
          BY <1>1, <3>1, AddrsAssumption DEF Holders
        <4>2. IsFiniteSet(Holders(futex, b))
          BY HoldersCount
        <4>3. Cardinality(Holders(futex, b) \ {t}) = Cardinality(Holders(futex, b)) - 1
          BY <4>1, <4>2, FS_RemoveElement
        <4> QED BY <3>1, <4>1, <4>3
      <3>2. CASE b # a
        <4>1. Holders(futex', b) = Holders(futex, b)
          BY <1>1, <3>2, AddrsAssumption DEF Holders
        <4> QED BY <3>2, <4>1
      <3> QED BY <3>1, <3>2
    <2> QED BY <1>1, <1>2, <2>1 DEF Put
  <1> QED BY <1>3, <1>4, ExactNat

\* Steps that only touch guest memory, signals or children.
LEMMA QuietKeeps ==
    ASSUME IInv, TypeOK', UNCHANGED <<refcount, queue, lock, pc, arg, futex, pipe>>
    PROVE  IInv'
  BY DEF IInv, LockExact, FutexHeld, PipeOpen, QueueConsistent, RefcountExact, WakeByteExact

\* Steps that move a task about without touching queues, references and pipes.
LEMMA MoveKeeps ==
    ASSUME IInv, TypeOK', NEW t \in Tasks, NEW l \in PCs, pc' = [pc EXCEPT ![t] = l],
           UNCHANGED <<refcount, queue, lock, futex, pipe>>,
           pc[t] \in Holding => l \in Holding, l \in Holding => pc[t] \in Holding,
           pc[t] \in Waiting => l \in Waiting, l \in Waiting => pc[t] \in Waiting,
           l \in InLoop => pc[t] \in InLoop,
           \A u \in Tasks : pc[u] \in Holding => arg'[u] = arg[u]
    PROVE  IInv'
  <1>1. pc \in [Tasks -> PCs]
    BY DEF IInv, TypeOK
  <1>2. LockExact' /\ FutexHeld' /\ PipeOpen'
    BY <1>1 DEF IInv, LockExact, FutexHeld, PipeOpen
  <1>3. QueueConsistent'
    <2>1. \A c \in Addrs : \A u \in Range(queue[c]) : u \in Tasks
      BY InvLinking DEF IInv
    <2> QED BY <1>1, <2>1 DEF IInv, QueueConsistent
  <1>4. RefcountExact' /\ WakeByteExact'
    BY <1>1 DEF IInv, RefcountExact, WakeByteExact
  <1> QED BY <1>2, <1>3, <1>4 DEF IInv

\* The invariant holds initially.
LEMMA InitIInv == Init => IInv
  <1> SUFFICES ASSUME Init PROVE IInv
    OBVIOUS
  <1>1. TypeOK
    <2>1. 0 \in 0 .. StallMax /\ -1 \in Int /\ 0 \in Nat /\ 0 \in Int
      BY StallAssumption
    <2>2. <<>> \in Seq(Tasks)
      BY EmptySeq
    <2> QED BY <2>1, <2>2, NoArgsType, ValuesAssumption DEF Init, TypeOK, PCs
  <1>2. LockExact /\ FutexHeld /\ PipeOpen /\ WakeByteExact
    BY TasksAssumption DEF Init, LockExact, FutexHeld, PipeOpen, WakeByteExact,
                           Holding, Waiting, InLoop
  <1>3. QueueConsistent
    <2>1. <<>> \in Seq(Tasks) /\ Len(<<>>) = 0
      BY EmptySeq
    <2>2. Range(<<>>) = {} /\ NoRepeat(<<>>)
      <3>1. 1 .. Len(<<>>) = {}
        BY <2>1
      <3>2. Range(<<>>) = {(<<>>)[i] : i \in 1 .. Len(<<>>)}
        BY <2>1, RangeIndex
      <3> QED BY <3>1, <3>2 DEF NoRepeat
    <2>3. IsInjective(<<>>)
      BY <2>1, <2>2, InjectiveSeq
    <2> QED BY <2>2, <2>3 DEF Init, QueueConsistent
  <1>4. RefcountExact
    <2>1. \A a \in Addrs : {t \in Tasks : futex[t] = a} = {}
      BY AddrsAssumption DEF Init
    <2> QED BY <2>1, FS_EmptySet DEF Init, RefcountExact
  <1> QED BY <1>1, <1>2, <1>3, <1>4 DEF IInv

\* futex_wait and futex_cmp_requeue take the lock and a reference, or fault.
LEMMA StartKeeps ==
    ASSUME IInv, NEW t \in Tasks, pc[t] = "run", lock = NoTask, NEW a \in Addrs,
           NEW l \in {"ptr", "cmp"}, NEW r \in Args, r.addr = a,
           Goto(t, l), SetArgs(t, r), lock' = t, refcount' = Get(refcount, a),
           futex' = [futex EXCEPT ![t] = a],
           UNCHANGED <<word, queue, ret, pipe, stall, env>>
    PROVE  IInv'
  <1>1. RefcountExact' /\ refcount' \in [Addrs -> Nat]
    BY GetKeeps
  <1>2. /\ pc \in [Tasks -> PCs] /\ futex \in [Tasks -> Addrs \cup {NoFutex}]
        /\ arg \in [Tasks -> Args] /\ lock \notin Tasks /\ l \in PCs
        /\ l \in Holding /\ l \notin Waiting /\ l \notin InLoop
        /\ \A u \in Tasks : pc[u] \notin Holding
    BY TasksAssumption DEF IInv, TypeOK, LockExact, PCs, Holding, Waiting, InLoop
  <1>3. /\ pc' = [pc EXCEPT ![t] = l] /\ pc' \in [Tasks -> PCs]
        /\ arg' = [arg EXCEPT ![t] = r] /\ arg' \in [Tasks -> Args]
        /\ futex' \in [Tasks -> Addrs \cup {NoFutex}]
    BY <1>2 DEF Goto, SetArgs
  <1>4. TypeOK'
    BY <1>1, <1>3 DEF IInv, TypeOK, env
  <1>5. LockExact' /\ FutexHeld' /\ PipeOpen'
    BY <1>2, <1>3, AddrsAssumption DEF IInv, LockExact, FutexHeld, PipeOpen
  <1>6. QueueConsistent' /\ WakeByteExact'
    <2>1. \A c \in Addrs : \A u \in Range(queue[c]) : u \in Tasks /\ u # t
      BY InvLinking DEF IInv, Waiting, InLoop
    <2>2. QueueConsistent'
      BY <1>2, <1>3, <2>1 DEF IInv, QueueConsistent
    <2>3. WakeByteExact'
      BY <1>2, <1>3 DEF IInv, WakeByteExact
    <2> QED BY <2>2, <2>3
  <1> QED BY <1>1, <1>4, <1>5, <1>6 DEF IInv

\* A handler gives lock and reference back without waiting.
LEMMA ReleaseKeeps ==
    ASSUME IInv, NEW t \in Tasks, pc[t] \in Holding, NEW r \in Int, Release(t), Return(t, r),
           UNCHANGED <<word, queue, pipe, stall, env>>
    PROVE  IInv'
  <1>1. /\ pc \in [Tasks -> PCs] /\ futex \in [Tasks -> Addrs \cup {NoFutex}]
        /\ arg \in [Tasks -> Args] /\ ret \in [Tasks -> Int]
        /\ futex[t] \in Addrs /\ lock = t /\ t # NoTask /\ pc[t] \notin Waiting
        /\ \A u \in Tasks \ {t} : pc[u] \notin Holding
        /\ "done" \notin Holding /\ "done" \notin Waiting /\ "done" \notin InLoop
        /\ "done" \in PCs
    BY TasksAssumption DEF IInv, TypeOK, LockExact, FutexHeld, PCs, Holding, Waiting, InLoop
  <1>2. RefcountExact' /\ refcount' \in [Addrs -> Nat]
    BY <1>1, PutKeeps DEF Release
  <1>3. /\ pc' = [pc EXCEPT ![t] = "done"] /\ pc' \in [Tasks -> PCs]
        /\ arg' \in [Tasks -> Args] /\ ret' \in [Tasks -> Int]
        /\ arg' = [arg EXCEPT ![t] = NoArgs]
        /\ futex' = [futex EXCEPT ![t] = NoFutex]
        /\ futex' \in [Tasks -> Addrs \cup {NoFutex}] /\ lock' = NoTask
    BY <1>1, NoArgsType DEF Return, Goto, Release
  <1>4. TypeOK'
    BY <1>2, <1>3 DEF IInv, TypeOK, env
  <1>5. LockExact' /\ FutexHeld' /\ PipeOpen'
    BY <1>1, <1>3, TasksAssumption DEF IInv, LockExact, FutexHeld, PipeOpen
  <1>6. QueueConsistent' /\ WakeByteExact'
    <2>1. \A c \in Addrs : \A u \in Range(queue[c]) : u \in Tasks /\ u # t
      BY <1>1, InvLinking DEF IInv
    <2>2. QueueConsistent'
      BY <1>1, <1>3, <2>1 DEF IInv, QueueConsistent
    <2>3. WakeByteExact'
      BY <1>1, <1>3 DEF IInv, WakeByteExact
    <2> QED BY <2>2, <2>3
  <1> QED BY <1>2, <1>4, <1>5, <1>6 DEF IInv

\* A waiter takes itself off its queue, if it is still on it.
LEMMA UnlinkKeeps ==
    ASSUME IInv, NEW t \in Tasks, pc[t] \in Waiting, Unlink(t),
           NEW l \in {"done", "endgroup"}, Goto(t, l), SetArgs(t, NoArgs),
           ret' \in [Tasks -> Int], UNCHANGED <<word, lock, pipe, env>>
    PROVE  IInv'
  <1> DEFINE f == futex[t]
  <1>1. /\ pc \in [Tasks -> PCs] /\ futex \in [Tasks -> Addrs \cup {NoFutex}]
        /\ arg \in [Tasks -> Args] /\ queue \in [Addrs -> Seq(Tasks)]
        /\ stall \in [Tasks -> 0 .. StallMax]
        /\ f \in Addrs /\ l \notin Holding /\ l \notin Waiting /\ l \notin InLoop /\ l \in PCs
        /\ pc[t] \notin Holding
    BY DEF IInv, TypeOK, LockExact, FutexHeld, PCs, Holding, Waiting, InLoop
  <1>2. RefcountExact' /\ refcount' \in [Addrs -> Nat]
    BY <1>1, PutKeeps DEF Unlink
  <1>3. /\ Linking(queue)
        /\ \A c \in Addrs : \A u \in Range(queue[c]) :
              u \in Tasks /\ pc[u] \in Waiting /\ futex[u] = c
    BY InvLinking DEF IInv
  <1>4. /\ Without(queue[f], t) \in Seq(Tasks) /\ NoRepeat(Without(queue[f], t))
        /\ Range(Without(queue[f], t)) = Range(queue[f]) \ {t}
    BY <1>1, <1>3, WithoutUnlinks DEF Linking
  <1>5. /\ pc' = [pc EXCEPT ![t] = l] /\ pc' \in [Tasks -> PCs]
        /\ arg' = [arg EXCEPT ![t] = NoArgs] /\ arg' \in [Tasks -> Args]
        /\ stall' \in [Tasks -> 0 .. StallMax]
        /\ futex' = [futex EXCEPT ![t] = NoFutex]
        /\ futex' \in [Tasks -> Addrs \cup {NoFutex}]
        /\ queue' = [queue EXCEPT ![f] = Without(queue[f], t)]
    BY <1>1, NoArgsType, StallAssumption DEF Goto, SetArgs, Unlink
  <1> HIDE DEF f
  <1>6. /\ queue' \in Queues /\ queue'[f] = Without(queue[f], t)
        /\ \A c \in Addrs \ {f} : queue'[c] = queue[c]
    BY <1>1, <1>4, <1>5 DEF Queues
  <1>7. \A c \in Addrs : Range(queue'[c]) = Range(queue[c]) \ {t}
    BY <1>3, <1>4, <1>6 DEF f
  <1>8. Linking(queue)'
    BY <1>3, <1>4, <1>6, <1>7 DEF Linking
  <1>9. QueueConsistent'
    <2>1. \A c \in Addrs : \A u \in Range(queue'[c]) : pc'[u] \in Waiting /\ futex'[u] = c
      BY <1>1, <1>3, <1>5, <1>7
    <2> QED BY <1>8, <2>1, LinkingQueue
  <1>10. TypeOK'
    BY <1>2, <1>5, <1>6 DEF IInv, TypeOK, Queues, env
  <1>11. LockExact' /\ FutexHeld' /\ PipeOpen'
    BY <1>1, <1>5 DEF IInv, LockExact, FutexHeld, PipeOpen
  <1>12. WakeByteExact'
    <2>1. SUFFICES ASSUME NEW u \in Tasks, pc'[u] \in InLoop
                   PROVE  pipe'[u] = IF u \in Range(queue'[futex'[u]]) THEN 0 ELSE 1
      BY DEF WakeByteExact
    <2>2. u # t /\ pc[u] \in InLoop /\ futex'[u] = futex[u]
      BY <1>1, <1>5, <2>1
    <2>3. futex[u] \in Addrs
      BY <1>1, <2>2 DEF IInv, FutexHeld, Waiting
    <2> QED BY <1>7, <2>2, <2>3 DEF IInv, WakeByteExact
  <1> QED BY <1>2, <1>9, <1>10, <1>11, <1>12 DEF IInv

\* A wake-like call that holds no lock yet.
LEMMA WakeCallKeeps ==
    ASSUME IInv, NEW t \in Tasks, pc[t] = "run", lock = NoTask,
           NEW a \in Addrs, NEW b \in Addrs, NEW n \in Nat, NEW m \in Nat,
           WakeAndRequeue(t, refcount, a, n, b, m), UNCHANGED <<word, lock, stall, env>>
    PROVE  IInv'
  <1>1. /\ pc \in [Tasks -> PCs] /\ futex \in [Tasks -> Addrs \cup {NoFutex}]
        /\ arg \in [Tasks -> Args] /\ refcount \in [Addrs -> Nat]
        /\ futex[t] = NoFutex /\ pc[t] \notin Waiting /\ pc[t] \notin Holding
        /\ "done" \notin Holding /\ "done" \notin Waiting /\ "done" \in PCs
    BY DEF IInv, TypeOK, FutexHeld, PCs, Holding, Waiting, InLoop
  <1>2. [futex EXCEPT ![t] = NoFutex] = futex /\ refcount \in [Addrs -> Int]
    BY <1>1
  <1>3. \A c \in Addrs : refcount[c] = Cardinality(Holders([futex EXCEPT ![t] = NoFutex], c))
    BY <1>2 DEF IInv, RefcountExact, Holders
  <1>4. /\ QueueConsistent' /\ WakeByteExact' /\ PipeOpen' /\ RefcountExact'
        /\ queue' \in Queues /\ refcount' \in [Addrs -> Nat]
        /\ pipe' \in [Tasks -> Int] /\ futex' \in [Tasks -> Addrs \cup {NoFutex}]
        /\ futex'[t] = NoFutex
        /\ \A u \in Tasks \ {t} :
              /\ futex'[u] # NoFutex <=> futex[u] # NoFutex
              /\ pc[u] \notin Waiting => futex'[u] = futex[u]
        /\ ret' \in [Tasks -> Int]
    BY <1>1, <1>2, <1>3, WakeAndRequeueKeeps DEF IInv
  <1>5. /\ pc' = [pc EXCEPT ![t] = "done"] /\ arg' = [arg EXCEPT ![t] = NoArgs]
        /\ pc' \in [Tasks -> PCs] /\ arg' \in [Tasks -> Args]
    BY <1>1, NoArgsType DEF WakeAndRequeue, Return, Goto
  <1>6. TypeOK'
    BY <1>4, <1>5 DEF IInv, TypeOK, Queues, env
  <1>7. LockExact'
    BY <1>1, <1>5 DEF IInv, LockExact
  <1>8. FutexHeld'
    BY <1>1, <1>4, <1>5 DEF IInv, FutexHeld, Holding, Waiting, InLoop
  <1> QED BY <1>4, <1>6, <1>7, <1>8 DEF IInv

\* The second half of futex_cmp_requeue.
LEMMA CmpRequeueKeeps ==
    ASSUME IInv, NEW t \in Tasks, pc[t] = "cmp", lock' = NoTask,
           WakeAndRequeue(t, Put(refcount, arg[t].addr), arg[t].addr, arg[t].wake,
                          arg[t].addr2, arg[t].requeue),
           UNCHANGED <<word, stall, env>>
    PROVE  IInv'
  <1> DEFINE rc == Put(refcount, arg[t].addr)
             f == [futex EXCEPT ![t] = NoFutex]
  <1>1. /\ pc \in [Tasks -> PCs] /\ futex \in [Tasks -> Addrs \cup {NoFutex}]
        /\ arg \in [Tasks -> Args] /\ refcount \in [Addrs -> Nat]
        /\ futex[t] = arg[t].addr /\ pc[t] \notin Waiting /\ pc[t] \in Holding
        /\ lock = t /\ \A u \in Tasks \ {t} : pc[u] \notin Holding
        /\ "done" \notin Holding /\ "done" \notin Waiting /\ "done" \in PCs
    BY TasksAssumption DEF IInv, TypeOK, LockExact, FutexHeld, PCs, Holding, Waiting, InLoop
  <1>2. /\ arg[t].addr \in Addrs /\ arg[t].addr2 \in Addrs
        /\ arg[t].wake \in Nat /\ arg[t].requeue \in Nat
    <2>1. arg[t] \in Args /\ Counts \cup {0} \subseteq Nat
      BY <1>1, CountsAssumption
    <2> QED BY <2>1 DEF Args
  <1>3. rc \in [Addrs -> Int] /\ \A c \in Addrs : rc[c] = Cardinality(Holders(f, c))
    <2>1. rc \in [Addrs -> Int]
      BY <1>1, <1>2 DEF Put
    <2>2. ASSUME NEW c \in Addrs, c = arg[t].addr PROVE rc[c] = Cardinality(Holders(f, c))
      <3>1. Holders(f, c) = Holders(futex, c) \ {t} /\ t \in Holders(futex, c)
        BY <1>1, <1>2, <2>2, AddrsAssumption DEF Holders
      <3>2. IsFiniteSet(Holders(futex, c))
        BY HoldersCount
      <3>3. Cardinality(Holders(futex, c) \ {t}) = Cardinality(Holders(futex, c)) - 1
        BY <3>1, <3>2, FS_RemoveElement
      <3>4. refcount[c] = Cardinality(Holders(futex, c))
        BY DEF IInv, RefcountExact, Holders
      <3> QED BY <1>1, <2>2, <3>1, <3>3, <3>4 DEF Put
    <2>3. ASSUME NEW c \in Addrs, c # arg[t].addr PROVE rc[c] = Cardinality(Holders(f, c))
      <3>1. Holders(f, c) = Holders(futex, c)
        BY <1>1, <1>2, <2>3, AddrsAssumption DEF Holders
      <3>2. refcount[c] = Cardinality(Holders(futex, c))
        BY DEF IInv, RefcountExact, Holders
      <3> QED BY <1>1, <2>3, <3>1, <3>2 DEF Put
    <2> QED BY <2>1, <2>2, <2>3
  <1>4. /\ QueueConsistent' /\ WakeByteExact' /\ PipeOpen' /\ RefcountExact'
        /\ queue' \in Queues /\ refcount' \in [Addrs -> Nat]
        /\ pipe' \in [Tasks -> Int] /\ futex' \in [Tasks -> Addrs \cup {NoFutex}]
        /\ futex'[t] = NoFutex
        /\ \A u \in Tasks \ {t} :
              /\ futex'[u] # NoFutex <=> futex[u] # NoFutex
              /\ pc[u] \notin Waiting => futex'[u] = futex[u]
        /\ ret' \in [Tasks -> Int]
    BY <1>1, <1>2, <1>3, WakeAndRequeueKeeps DEF IInv
  <1>5. /\ pc' = [pc EXCEPT ![t] = "done"] /\ arg' = [arg EXCEPT ![t] = NoArgs]
        /\ pc' \in [Tasks -> PCs] /\ arg' \in [Tasks -> Args]
    BY <1>1, NoArgsType DEF WakeAndRequeue, Return, Goto
  <1>6. TypeOK'
    BY <1>4, <1>5 DEF IInv, TypeOK, Queues, env
  <1>7. LockExact'
    BY <1>1, <1>5, TasksAssumption DEF LockExact
  <1>8. FutexHeld'
    BY <1>1, <1>4, <1>5 DEF IInv, FutexHeld, Holding, Waiting, InLoop
  <1> QED BY <1>4, <1>6, <1>7, <1>8 DEF IInv

\* Waking waiters of one or two queues without holding a reference.
LEMMA NotifyKeeps ==
    ASSUME IInv, NEW t \in Tasks, pc[t] \notin Waiting, pc[t] \notin Holding,
           NEW a \in Addrs, NEW b \in Addrs, NEW n \in Nat, NEW m \in Nat,
           queue' = Dequeue(Dequeue(queue, a, n), b, m),
           \A u \in Tasks \ {t} : pipe'[u]
              = Notify(Notify(pipe, Taken(queue, a, n)), Taken(Dequeue(queue, a, n), b, m))[u],
           pipe' \in [Tasks -> Int],
           NEW l \in {"done", "gone"}, Goto(t, l), SetArgs(t, NoArgs),
           ret' \in [Tasks -> Int], UNCHANGED <<word, refcount, lock, futex, stall, env>>
    PROVE  IInv'
  <1> DEFINE q == Dequeue(queue, a, n)
             V == Range(Taken(queue, a, n))
             W == Range(Taken(q, b, m))
  <1>1. /\ pc \in [Tasks -> PCs] /\ futex \in [Tasks -> Addrs \cup {NoFutex}]
        /\ arg \in [Tasks -> Args] /\ pipe \in [Tasks -> Int]
        /\ l \notin Holding /\ l \notin Waiting /\ l \notin InLoop /\ l \in PCs
    BY DEF IInv, TypeOK, PCs, Holding, Waiting, InLoop
  <1>2. /\ Linking(queue)
        /\ \A c \in Addrs : \A u \in Range(queue[c]) :
              u \in Tasks /\ pc[u] \in Waiting /\ futex[u] = c
    BY InvLinking DEF IInv
  <1>3. /\ Linking(q) /\ V \subseteq Range(queue[a])
        /\ \A c \in Addrs : Range(q[c]) = Range(queue[c]) \ V
    BY <1>2, DequeueEffect
  <1>4. /\ Linking(Dequeue(q, b, m)) /\ W \subseteq Range(q[b])
        /\ \A c \in Addrs : Range(Dequeue(q, b, m)[c]) = Range(q[c]) \ W
    BY <1>3, DequeueEffect
  <1>5. \A u \in Tasks : Notify(Notify(pipe, Taken(queue, a, n)), Taken(q, b, m))[u]
          = LET p == IF u \in V /\ pipe[u] # -1 THEN pipe[u] + 1 ELSE pipe[u]
            IN IF u \in W /\ p # -1 THEN p + 1 ELSE p
    BY DEF Notify
  <1>6. /\ pc' = [pc EXCEPT ![t] = l] /\ pc' \in [Tasks -> PCs]
        /\ arg' = [arg EXCEPT ![t] = NoArgs] /\ arg' \in [Tasks -> Args]
    BY <1>1, NoArgsType DEF Goto, SetArgs
  <1>7. Linking(queue)' /\ queue' \in Queues
    BY <1>4 DEF Linking
  <1>8. \A c \in Addrs : Range(queue'[c]) = (Range(queue[c]) \ V) \ W
    BY <1>3, <1>4
  <1>9. V \cap W = {}
    BY <1>3, <1>4
  <1>10. /\ \A u \in V : u \in Tasks /\ u \in Range(queue[a]) /\ futex[u] = a
         /\ \A u \in W : u \in Tasks /\ u \in Range(queue[b]) /\ futex[u] = b
    BY <1>2, <1>3, <1>4
  <1>11. \A u \in Tasks \ {t} :
            pipe'[u] = IF u \in V \cup W /\ pipe[u] # -1 THEN pipe[u] + 1 ELSE pipe[u]
    BY <1>1, <1>5, <1>9
  <1> HIDE DEF q, V, W
  <1>12. QueueConsistent'
    <2>1. ASSUME NEW c \in Addrs, NEW u \in Range(queue'[c])
          PROVE  pc'[u] \in Waiting /\ futex'[u] = c
      <3>1. u \in Range(queue[c])
        BY <1>8
      <3>2. u \in Tasks /\ pc[u] \in Waiting /\ futex[u] = c /\ u # t
        BY <1>2, <3>1
      <3> QED BY <1>1, <1>6, <3>2
    <2> QED BY <1>7, <2>1, LinkingQueue
  <1>13. TypeOK'
    BY <1>6, <1>7 DEF IInv, TypeOK, Queues, env
  <1>14. LockExact' /\ FutexHeld' /\ RefcountExact'
    BY <1>1, <1>6 DEF IInv, LockExact, FutexHeld, RefcountExact
  <1>15. PipeOpen'
    BY <1>1, <1>6, <1>11 DEF IInv, PipeOpen
  <1>16. WakeByteExact'
    <2>1. SUFFICES ASSUME NEW u \in Tasks, pc'[u] \in InLoop
                   PROVE  pipe'[u] = IF u \in Range(queue'[futex'[u]]) THEN 0 ELSE 1
      BY DEF WakeByteExact
    <2>2. /\ u # t /\ pc[u] \in InLoop /\ futex'[u] = futex[u]
          /\ pipe[u] = IF u \in Range(queue[futex[u]]) THEN 0 ELSE 1
      BY <1>1, <1>6, <2>1 DEF IInv, WakeByteExact
    <2>3. futex[u] \in Addrs
      BY <1>1, <2>2 DEF IInv, FutexHeld, Waiting
    <2>4. CASE u \in V \cup W
      BY <1>8, <1>10, <1>11, <2>2, <2>3, <2>4
    <2>5. CASE u \notin V \cup W
      BY <1>8, <1>11, <2>2, <2>3, <2>5
    <2> QED BY <2>4, <2>5
  <1> QED BY <1>12, <1>13, <1>14, <1>15, <1>16 DEF IInv

\* The waiters a wake takes are tasks.
LEMMA TakenType ==
    ASSUME NEW q, Linking(q), NEW a \in Addrs, NEW n \in Nat
    PROVE  Taken(q, a, n) \in Seq(Tasks)
  <1>1. q[a] \in Seq(Tasks)
    BY DEF Linking, Queues
  <1> QED BY <1>1 DEF Taken, LowerOf

\* The pipes after a wake are still counts.
LEMMA NotifyType ==
    ASSUME NEW p \in [Tasks -> Int], NEW s
    PROVE  Notify(p, s) \in [Tasks -> Int]
  BY DEF Notify

\* A wake that takes nobody writes nothing.
LEMMA NotifyEmpty ==
    ASSUME NEW p \in [Tasks -> Int]
    PROVE  Notify(p, <<>>) = p
  <1>1. Range(<<>>) = {}
    BY DEF Range
  <1> QED BY <1>1 DEF Notify

\* Waking zero waiters takes nobody.
LEMMA DequeueNothing ==
    ASSUME NEW q, Linking(q), NEW a \in Addrs
    PROVE  Dequeue(q, a, 0) = q /\ Taken(q, a, 0) = <<>>
  <1>1. q \in [Addrs -> Seq(Tasks)] /\ q[a] \in Seq(Tasks) /\ Len(q[a]) \in Nat
    BY DEF Linking, Queues
  <1>2. LowerOf(0, Len(q[a])) = 0
    BY <1>1 DEF LowerOf
  <1>3. SubSeq(q[a], 1, Len(q[a])) = q[a]
    BY <1>1
  <1>4. Rest(q, a, 0) = q[a] /\ Taken(q, a, 0) = <<>>
    BY <1>1, <1>2, <1>3 DEF Rest, Taken
  <1> QED BY <1>1, <1>4 DEF Dequeue

\* What a load through a host pointer yields is a value.
LEMMA LoadsType ==
    ASSUME TypeOK, NEW a \in Addrs
    PROVE  Loads(a) \subseteq Values
  BY DEF TypeOK, Loads

\* futex_wait links itself into the queue and gives the lock back.
LEMMA EnqueueKeeps ==
    ASSUME IInv, NEW t \in Tasks, FutexWaitEnqueue(t)
    PROVE  IInv'
  <1> DEFINE f == futex[t]
  <1>1. /\ pc \in [Tasks -> PCs] /\ futex \in [Tasks -> Addrs \cup {NoFutex}]
        /\ pipe \in [Tasks -> Int] /\ queue \in [Addrs -> Seq(Tasks)]
        /\ stall \in [Tasks -> 0 .. StallMax] /\ pc[t] = "enq"
        /\ f \in Addrs /\ pc[t] \in Holding /\ pc[t] \notin Waiting /\ t # NoTask
        /\ \A u \in Tasks \ {t} : pc[u] \notin Holding
        /\ "sleep" \in PCs /\ "sleep" \in Waiting /\ "sleep" \notin Holding /\ "sleep" \in InLoop
    BY TasksAssumption
       DEF FutexWaitEnqueue, IInv, TypeOK, LockExact, FutexHeld, PCs, Holding, Waiting, InLoop
  <1>2. /\ Linking(queue)
        /\ \A c \in Addrs : \A u \in Range(queue[c]) :
              u \in Tasks /\ pc[u] \in Waiting /\ futex[u] = c /\ u # t
    BY <1>1, InvLinking DEF IInv
  <1>3. /\ Append(queue[f], t) \in Seq(Tasks) /\ NoRepeat(Append(queue[f], t))
        /\ Range(Append(queue[f], t)) = Range(queue[f]) \cup {t}
    BY <1>1, <1>2, AppendLinks DEF Linking
  <1>4. /\ pc' = [pc EXCEPT ![t] = "sleep"] /\ pc' \in [Tasks -> PCs]
        /\ pipe' = [pipe EXCEPT ![t] = 0] /\ pipe' \in [Tasks -> Int]
        /\ queue' = [queue EXCEPT ![f] = Append(queue[f], t)]
        /\ stall' \in [Tasks -> 0 .. StallMax] /\ lock' = NoTask
        /\ UNCHANGED <<word, refcount, arg, futex, ret, pending, groupExit, children>>
    BY <1>1, StallAssumption DEF FutexWaitEnqueue, Goto, env
  <1> HIDE DEF f
  <1>5. /\ queue' \in Queues /\ queue'[f] = Append(queue[f], t)
        /\ \A c \in Addrs \ {f} : queue'[c] = queue[c]
    BY <1>1, <1>3, <1>4 DEF Queues
  <1>6. \A c \in Addrs : Range(queue'[c]) = IF c = f THEN Range(queue[c]) \cup {t} ELSE Range(queue[c])
    BY <1>3, <1>5
  <1>7. Linking(queue)'
    <2>1. \A c \in Addrs : NoRepeat(queue'[c])
      BY <1>2, <1>3, <1>5 DEF Linking
    <2>2. \A c \in Addrs : t \notin Range(queue[c])
      BY <1>2
    <2>3. \A c, d \in Addrs : c # d => Range(queue[c]) \cap Range(queue[d]) = {}
      BY <1>2 DEF Linking
    <2>4. \A c, d \in Addrs : c # d => Range(queue'[c]) \cap Range(queue'[d]) = {}
      BY <1>6, <2>2, <2>3
    <2> QED BY <1>5, <2>1, <2>4 DEF Linking
  <1>8. QueueConsistent'
    <2>1. ASSUME NEW c \in Addrs, NEW u \in Range(queue'[c])
          PROVE  pc'[u] \in Waiting /\ futex'[u] = c
      <3>1. u \in Range(queue[c]) \/ (u = t /\ c = f)
        BY <1>6, <2>1
      <3>2. CASE u \in Range(queue[c])
        BY <1>1, <1>2, <1>4, <3>2
      <3>3. CASE u = t /\ c = f
        BY <1>1, <1>4, <3>3 DEF f
      <3> QED BY <3>1, <3>2, <3>3
    <2> QED BY <1>7, <2>1, LinkingQueue
  <1>9. TypeOK'
    BY <1>4, <1>5 DEF IInv, TypeOK, Queues
  <1>10. LockExact' /\ FutexHeld' /\ PipeOpen' /\ RefcountExact'
    <2>1. LockExact'
      BY <1>1, <1>4, TasksAssumption DEF LockExact
    <2>2. FutexHeld'
      BY <1>1, <1>4 DEF IInv, FutexHeld
    <2>3. PipeOpen'
      BY <1>1, <1>4 DEF IInv, PipeOpen
    <2>4. RefcountExact'
      BY <1>4 DEF IInv, RefcountExact
    <2> QED BY <2>1, <2>2, <2>3, <2>4
  <1>11. WakeByteExact'
    <2>1. SUFFICES ASSUME NEW u \in Tasks, pc'[u] \in InLoop
                   PROVE  pipe'[u] = IF u \in Range(queue'[futex'[u]]) THEN 0 ELSE 1
      BY DEF WakeByteExact
    <2>2. CASE u = t
      BY <1>1, <1>4, <1>6, <2>2 DEF f
    <2>3. CASE u # t
      <3>1. pc[u] \in InLoop /\ futex[u] \in Addrs /\ futex'[u] = futex[u] /\ pipe'[u] = pipe[u]
        BY <1>1, <1>4, <2>1, <2>3 DEF IInv, FutexHeld, Waiting
      <3> QED BY <1>6, <2>3, <3>1 DEF IInv, WakeByteExact
    <2> QED BY <2>2, <2>3
  <1> QED BY <1>8, <1>9, <1>10, <1>11 DEF IInv

\* Every step of a call in progress keeps the invariant.
LEMMA InsideKeeps ==
    ASSUME IInv, NEW t \in Tasks, Inside(t)
    PROVE  IInv'
  <1> USE ErrorsInt
  <1>0. /\ TypeOK /\ pc \in [Tasks -> PCs] /\ ret \in [Tasks -> Int] /\ arg \in [Tasks -> Args]
        /\ stall \in [Tasks -> 0 .. StallMax] /\ arg[t].addr \in Addrs
    <2>1. arg[t] \in Args
      BY DEF IInv, TypeOK
    <2> QED BY <2>1 DEF IInv, TypeOK, Args
  <1>1. CASE FutexWaitLoad(t)
    <2>1. PICK v \in Loads(arg[t].addr) :
            IF v # arg[t].val
            THEN Release(t) /\ Return(t, EAGAIN)
            ELSE Goto(t, "enq") /\ UNCHANGED <<lock, refcount, arg, futex, ret>>
      BY <1>1 DEF FutexWaitLoad
    <2>2. CASE v # arg[t].val
      BY <1>1, <2>1, <2>2, ReleaseKeeps DEF FutexWaitLoad, Holding
    <2>3. CASE v = arg[t].val
      <3>1. /\ pc' = [pc EXCEPT ![t] = "enq"]
            /\ UNCHANGED <<word, refcount, queue, lock, arg, futex, ret, pipe, stall,
                           pending, groupExit, children>>
        BY <1>1, <2>1, <2>3 DEF FutexWaitLoad, Goto, env
      <3>2. TypeOK'
        BY <1>0, <3>1 DEF TypeOK, PCs, Holding
      <3> QED BY <1>1, <3>1, <3>2, MoveKeeps DEF FutexWaitLoad, PCs, Holding, Waiting, InLoop
    <2> QED BY <2>2, <2>3
  <1>2. CASE FutexWaitNoPipe(t)
    BY <1>2, ReleaseKeeps DEF FutexWaitNoPipe, Holding
  <1>3. CASE FutexWaitEnqueue(t)
    BY <1>3, EnqueueKeeps
  <1>4. CASE FutexWaitWoken(t)
    <2>1. /\ pc[t] = "sleep" /\ pc' = [pc EXCEPT ![t] = "leave"] /\ pipe[t] > 0
          /\ pipe' = [pipe EXCEPT ![t] = 0] /\ ret' = [ret EXCEPT ![t] = 0]
          /\ UNCHANGED <<word, refcount, queue, lock, arg, futex, stall,
                         pending, groupExit, children>>
      BY <1>4 DEF FutexWaitWoken, Break, Goto, env
    <2>2. TypeOK'
      BY <1>0, <2>1 DEF TypeOK, PCs, Waiting
    <2>3. LockExact' /\ FutexHeld' /\ PipeOpen' /\ RefcountExact'
      <3>1. LockExact' /\ FutexHeld'
        BY <1>0, <2>1 DEF IInv, LockExact, FutexHeld, Holding, Waiting, InLoop
      <3>2. \A u \in Tasks : pipe'[u] = IF u = t THEN 0 ELSE pipe[u]
        BY <1>0, <2>1 DEF TypeOK
      <3>3. PipeOpen'
        BY <1>0, <2>1, <3>2 DEF IInv, PipeOpen, Waiting, InLoop
      <3>4. RefcountExact'
        BY <2>1 DEF IInv, RefcountExact
      <3> QED BY <3>1, <3>3, <3>4
    <2>4. QueueConsistent'
      <3>1. \A c \in Addrs : \A u \in Range(queue[c]) : u \in Tasks
        BY InvLinking DEF IInv
      <3> QED BY <1>0, <2>1, <3>1 DEF IInv, QueueConsistent, Waiting
    <2>5. WakeByteExact'
      BY <1>0, <2>1 DEF IInv, TypeOK, WakeByteExact, InLoop
    <2> QED BY <2>2, <2>3, <2>4, <2>5 DEF IInv
  <1>5. CASE FutexWaitPoll(t)
    <2>1. PICK l \in {"leave", "recheck"} : pc' = [pc EXCEPT ![t] = l]
      BY <1>5 DEF FutexWaitPoll, Break, Goto
    <2>2. /\ pc[t] = "sleep" /\ ret' \in [Tasks -> Int] /\ stall' \in [Tasks -> 0 .. StallMax]
          /\ UNCHANGED <<word, refcount, queue, lock, arg, futex, pipe,
                         pending, groupExit, children>>
      <3>1. stall' \in [Tasks -> 0 .. StallMax]
        BY <1>0, <1>5, StallAssumption DEF FutexWaitPoll, LowerOf
      <3>2. ret' \in [Tasks -> Int]
        BY <1>0, <1>5 DEF FutexWaitPoll, Break
      <3> QED BY <1>5, <3>1, <3>2 DEF FutexWaitPoll, env
    <2>3. TypeOK'
      BY <1>0, <2>1, <2>2 DEF TypeOK, PCs, Waiting, InLoop
    <2> QED BY <2>1, <2>2, <2>3, MoveKeeps DEF PCs, Holding, Waiting, InLoop
  <1>6. CASE FutexWaitRecheck(t)
    <2>1. PICK l \in {"leave", "reload"} : pc' = [pc EXCEPT ![t] = l]
      BY <1>6 DEF FutexWaitRecheck, Break, Goto
    <2>2. /\ pc[t] = "recheck" /\ ret' \in [Tasks -> Int]
          /\ UNCHANGED <<word, refcount, queue, lock, arg, futex, pipe, stall,
                         pending, groupExit, children>>
      BY <1>0, <1>6 DEF FutexWaitRecheck, Break, env
    <2>3. TypeOK'
      BY <1>0, <2>1, <2>2 DEF TypeOK, PCs, Waiting, InLoop
    <2> QED BY <2>1, <2>2, <2>3, MoveKeeps DEF PCs, Holding, Waiting, InLoop
  <1>7. CASE FutexWaitReload(t)
    <2>1. PICK l \in {"leave", "valve", "sleep"} : pc' = [pc EXCEPT ![t] = l]
      BY <1>7 DEF FutexWaitReload, Break, Goto
    <2>2. /\ pc[t] = "reload" /\ ret' \in [Tasks -> Int]
          /\ UNCHANGED <<word, refcount, queue, lock, arg, futex, pipe, stall,
                         pending, groupExit, children>>
      BY <1>0, <1>7 DEF FutexWaitReload, Break, env
    <2>3. TypeOK'
      BY <1>0, <2>1, <2>2 DEF TypeOK, PCs, Waiting, InLoop
    <2> QED BY <2>1, <2>2, <2>3, MoveKeeps DEF PCs, Holding, Waiting, InLoop
  <1>8. CASE SafetyValve(t)
    <2>1. PICK l \in {"abandon", "sleep"} : pc' = [pc EXCEPT ![t] = l]
      BY <1>8 DEF SafetyValve, Goto
    <2>2. /\ pc[t] = "valve" /\ stall' \in [Tasks -> 0 .. StallMax]
          /\ UNCHANGED <<word, refcount, queue, lock, arg, futex, ret, pipe,
                         pending, groupExit, children>>
      BY <1>0, <1>8, StallAssumption DEF SafetyValve, env
    <2>3. TypeOK'
      BY <1>0, <2>1, <2>2 DEF TypeOK, PCs, Waiting, InLoop
    <2> QED BY <2>1, <2>2, <2>3, MoveKeeps DEF PCs, Holding, Waiting, InLoop
  <1>9. CASE FutexCmpRequeue(t)
    <2>1. PICK v \in Loads(arg[t].addr) :
            IF v # arg[t].val
            THEN Release(t) /\ Return(t, EAGAIN) /\ UNCHANGED <<queue, pipe>>
            ELSE /\ lock' = NoTask
                 /\ WakeAndRequeue(t, Put(refcount, arg[t].addr), arg[t].addr, arg[t].wake,
                                   arg[t].addr2, arg[t].requeue)
      BY <1>9 DEF FutexCmpRequeue
    <2>2. CASE v # arg[t].val
      BY <1>9, <2>1, <2>2, ReleaseKeeps DEF FutexCmpRequeue, Holding
    <2>3. CASE v = arg[t].val
      BY <1>9, <2>1, <2>3, CmpRequeueKeeps DEF FutexCmpRequeue
    <2> QED BY <2>2, <2>3
  <1> QED BY <1>1, <1>2, <1>3, <1>4, <1>5, <1>6, <1>7, <1>8, <1>9 DEF Inside

\* Steps of a call in progress that take futex_lock for one critical section.
LEMMA LockingKeeps ==
    ASSUME IInv, NEW t \in Tasks, Locking(t)
    PROVE  IInv'
  <1>0. /\ pc \in [Tasks -> PCs] /\ ret \in [Tasks -> Int] /\ pipe \in [Tasks -> Int]
        /\ arg[t].addr \in Addrs /\ arg[t].addr2 \in Addrs
        /\ arg[t].wake \in Nat /\ arg[t].requeue \in Nat
    <2>1. arg[t] \in Args /\ Counts \cup {0} \subseteq Nat
      BY CountsAssumption DEF IInv, TypeOK
    <2> QED BY <2>1 DEF IInv, TypeOK, Args
  <1>1. CASE SafetyValveUnlink(t)
    <2>1. /\ pc[t] \in Waiting /\ Unlink(t) /\ Goto(t, "endgroup") /\ SetArgs(t, NoArgs)
          /\ ret' \in [Tasks -> Int] /\ UNCHANGED <<word, lock, pipe, env>>
      BY <1>0, <1>1 DEF SafetyValveUnlink, Waiting, InLoop, env
    <2> QED BY <2>1, UnlinkKeeps
  <1>2. CASE FutexWaitDone(t)
    <2>1. /\ pc[t] \in Waiting /\ Unlink(t) /\ Goto(t, "done") /\ SetArgs(t, NoArgs)
          /\ ret' \in [Tasks -> Int] /\ UNCHANGED <<word, lock, pipe, env>>
      BY <1>0, <1>2 DEF FutexWaitDone, Return, SetArgs, Waiting, InLoop, env
    <2> QED BY <2>1, UnlinkKeeps
  <1>3. CASE FutexWakeOp(t)
    <2> DEFINE a == arg[t].addr
               b == arg[t].addr2
               n == arg[t].wake
               m == IF arg[t].both THEN arg[t].requeue ELSE 0
               q == Dequeue(queue, a, n)
    <2>1. a \in Addrs /\ b \in Addrs /\ n \in Nat /\ m \in Nat
      BY <1>0
    <2>2. /\ pc[t] = "wakeop" /\ queue' = Dequeue(q, b, m)
          /\ pipe' = Notify(Notify(pipe, Taken(queue, a, n)), Taken(q, b, m))
          /\ Return(t, Len(Taken(queue, a, n)) + Len(Taken(q, b, m)))
          /\ UNCHANGED <<word, refcount, lock, futex, stall, env>>
      BY <1>3 DEF FutexWakeOp
    <2>3. Taken(queue, a, n) \in Seq(Tasks) /\ Taken(q, b, m) \in Seq(Tasks)
      <3>1. Linking(queue)
        BY InvLinking DEF IInv
      <3>2. Linking(q)
        BY <2>1, <3>1, DequeueEffect
      <3> QED BY <2>1, <3>1, <3>2, TakenType
    <2> HIDE DEF a, b, n, m, q
    <2>4. /\ Goto(t, "done") /\ SetArgs(t, NoArgs) /\ ret' \in [Tasks -> Int]
      BY <1>0, <2>2, <2>3 DEF Return, SetArgs
    <2>5. pipe' \in [Tasks -> Int]
      BY <1>0, <2>2, NotifyType
    <2>6. pc[t] \notin Waiting /\ pc[t] \notin Holding
      BY <2>2 DEF Waiting, InLoop, Holding
    <2> QED BY <2>1, <2>2, <2>4, <2>5, <2>6, NotifyKeeps DEF q
  <1>4. CASE ExitWake(t)
    <2> DEFINE a == arg[t].addr
               q == Dequeue(queue, a, 1)
    <2>1. /\ pc[t] = "exiting" /\ queue' = q
          /\ pipe' = [Notify(pipe, Taken(queue, a, 1)) EXCEPT ![t] = -1]
          /\ Goto(t, "gone") /\ SetArgs(t, NoArgs)
          /\ UNCHANGED <<word, refcount, lock, futex, ret, stall, env>>
      BY <1>4 DEF ExitWake
    <2>2. a \in Addrs
      BY <1>0
    <2>3. Linking(q)
      <3>1. Linking(queue)
        BY InvLinking DEF IInv
      <3> QED BY <2>2, <3>1, DequeueEffect
    <2> HIDE DEF a, q
    <2>4. Dequeue(q, a, 0) = q /\ Taken(q, a, 0) = <<>>
      BY <2>2, <2>3, DequeueNothing
    <2>5. pipe' \in [Tasks -> Int]
      BY <1>0, <2>1, NotifyType
    <2>6. \A u \in Tasks \ {t} : pipe'[u]
            = Notify(Notify(pipe, Taken(queue, a, 1)), Taken(q, a, 0))[u]
      BY <1>0, <2>1, <2>4, NotifyType, NotifyEmpty
    <2>7. pc[t] \notin Waiting /\ pc[t] \notin Holding /\ ret' \in [Tasks -> Int]
      BY <1>0, <2>1 DEF Waiting, InLoop, Holding
    <2> QED BY <2>1, <2>2, <2>4, <2>5, <2>6, <2>7, NotifyKeeps DEF q
  <1> QED BY <1>1, <1>2, <1>3, <1>4 DEF Locking

\* A call that fails before it takes a reference.
LEMMA FailKeeps ==
    ASSUME IInv, NEW t \in Tasks, pc[t] = "run", NEW r \in Int, Return(t, r),
           UNCHANGED <<refcount, queue, lock, futex, pipe, stall, env>>,
           word' \in [Addrs -> Values \cup {Unmapped}]
    PROVE  IInv'
  <1>1. /\ pc \in [Tasks -> PCs] /\ arg \in [Tasks -> Args] /\ ret \in [Tasks -> Int]
        /\ "done" \in PCs
    BY DEF IInv, TypeOK, PCs
  <1>2. /\ pc' = [pc EXCEPT ![t] = "done"] /\ arg' = [arg EXCEPT ![t] = NoArgs]
        /\ pc' \in [Tasks -> PCs] /\ arg' \in [Tasks -> Args] /\ ret' \in [Tasks -> Int]
    BY <1>1, NoArgsType DEF Return, Goto
  <1>3. TypeOK'
    BY <1>2 DEF IInv, TypeOK, env
  <1>4. pc[t] \notin Holding /\ "done" \notin Holding /\ pc[t] \notin Waiting
        /\ "done" \notin Waiting /\ "done" \notin InLoop
    BY DEF Holding, Waiting, InLoop
  <1>5. \A u \in Tasks : pc[u] \in Holding => arg'[u] = arg[u]
    BY <1>1, <1>2, <1>4
  <1> QED BY <1>1, <1>2, <1>3, <1>4, <1>5, MoveKeeps

\* Every call that starts keeps the invariant.
LEMMA CallKeeps ==
    ASSUME IInv, NEW t \in Tasks, Call(t)
    PROVE  IInv'
  <1> USE ErrorsInt
  <1>0. /\ pc \in [Tasks -> PCs] /\ arg \in [Tasks -> Args]
        /\ word \in [Addrs -> Values \cup {Unmapped}] /\ 0 \in Nat /\ Counts \subseteq Nat
    BY CountsAssumption DEF IInv, TypeOK
  <1>1. ASSUME NEW a \in Addrs, NEW v \in Values, NEW timed \in BOOLEAN,
               FutexWaitGet(t, a, v, timed)
        PROVE  IInv'
    <2>1. CASE word[a] = Unmapped
      <3>1. /\ pc[t] = "run" /\ Return(t, EFAULT)
            /\ UNCHANGED <<word, refcount, queue, lock, futex, pipe, stall, env>>
        BY <1>1, <2>1 DEF FutexWaitGet
      <3> QED BY <1>0, <3>1, FailKeeps
    <2>2. CASE word[a] # Unmapped
      <3> DEFINE r == [NoArgs EXCEPT !.addr = a, !.val = v, !.timed = timed]
      <3>1. /\ pc[t] = "run" /\ lock = NoTask /\ Goto(t, "ptr") /\ SetArgs(t, r)
            /\ lock' = t /\ refcount' = Get(refcount, a)
            /\ futex' = [futex EXCEPT ![t] = a]
            /\ UNCHANGED <<word, queue, ret, pipe, stall, env>>
        BY <1>1, <2>2 DEF FutexWaitGet
      <3>2. r \in Args /\ r.addr = a
        BY NoArgsType DEF NoArgs, Args
      <3> HIDE DEF r
      <3> QED BY <3>1, <3>2, StartKeeps
    <2> QED BY <2>1, <2>2
  <1>2. ASSUME NEW a \in Addrs, NEW n \in Counts, FutexWake(t, a, n)
        PROVE  IInv'
    BY <1>0, <1>2, WakeCallKeeps DEF FutexWake
  <1>3. ASSUME NEW a \in Addrs, NEW b \in Addrs, NEW n \in Counts, NEW m \in Counts,
               FutexRequeue(t, a, n, b, m)
        PROVE  IInv'
    BY <1>0, <1>3, WakeCallKeeps DEF FutexRequeue
  <1>4. ASSUME NEW a \in Addrs, NEW b \in Addrs, NEW n \in Counts, NEW m \in Counts,
               NEW v \in Values, FutexCmpRequeueGet(t, a, n, b, m, v)
        PROVE  IInv'
    <2>1. CASE word[a] = Unmapped
      <3>1. /\ pc[t] = "run" /\ Return(t, EFAULT)
            /\ UNCHANGED <<word, refcount, queue, lock, futex, pipe, stall, env>>
        BY <1>4, <2>1 DEF FutexCmpRequeueGet
      <3> QED BY <1>0, <3>1, FailKeeps
    <2>2. CASE word[a] # Unmapped
      <3> DEFINE r == [NoArgs EXCEPT !.addr = a, !.wake = n, !.addr2 = b,
                                     !.requeue = m, !.val = v]
      <3>1. /\ pc[t] = "run" /\ lock = NoTask /\ Goto(t, "cmp") /\ SetArgs(t, r)
            /\ lock' = t /\ refcount' = Get(refcount, a)
            /\ futex' = [futex EXCEPT ![t] = a]
            /\ UNCHANGED <<word, queue, ret, pipe, stall, env>>
        BY <1>4, <2>2 DEF FutexCmpRequeueGet
      <3>2. r \in Args /\ r.addr = a
        BY NoArgsType, ValuesAssumption DEF NoArgs, Args
      <3> HIDE DEF r
      <3> QED BY <3>1, <3>2, StartKeeps
    <2> QED BY <2>1, <2>2
  <1>5. ASSUME NEW a \in Addrs, NEW b \in Addrs, NEW n \in Counts, NEW m \in Counts,
               NEW v \in Values, NEW w \in Values, FutexWakeOpModify(t, a, n, b, m, v, w)
        PROVE  IInv'
    <2>1. /\ pc[t] = "run" /\ word' \in [Addrs -> Values \cup {Unmapped}]
          /\ UNCHANGED <<refcount, queue, lock, futex, pipe, stall, env>>
      BY <1>0, <1>5 DEF FutexWakeOpModify
    <2> DEFINE r == [NoArgs EXCEPT !.addr = a, !.wake = n, !.addr2 = b,
                                   !.requeue = m, !.both = (word[b] = w)]
    <2>2. \/ Return(t, EFAULT) \/ Return(t, ENOSYS)
          \/ Goto(t, "wakeop") /\ SetArgs(t, r) /\ UNCHANGED ret
      BY <1>5 DEF FutexWakeOpModify
    <2>3. CASE Return(t, EFAULT) \/ Return(t, ENOSYS)
      BY <2>1, <2>3, FailKeeps
    <2>4. CASE Goto(t, "wakeop") /\ SetArgs(t, r) /\ UNCHANGED ret
      <3>1. r \in Args
        BY NoArgsType, ValuesAssumption DEF NoArgs, Args
      <3> HIDE DEF r
      <3>2. /\ pc' = [pc EXCEPT ![t] = "wakeop"] /\ arg' = [arg EXCEPT ![t] = r]
            /\ pc' \in [Tasks -> PCs] /\ arg' \in [Tasks -> Args] /\ "wakeop" \in PCs
        BY <1>0, <2>4, <3>1 DEF Goto, SetArgs, PCs
      <3>3. TypeOK'
        BY <2>1, <2>4, <3>2 DEF IInv, TypeOK, env
      <3>4. pc[t] \notin Holding /\ "wakeop" \notin Holding /\ pc[t] \notin Waiting
            /\ "wakeop" \notin Waiting /\ "wakeop" \notin InLoop
        BY <2>1 DEF Holding, Waiting, InLoop
      <3>5. \A u \in Tasks : pc[u] \in Holding => arg'[u] = arg[u]
        BY <1>0, <3>2, <3>4
      <3> QED BY <2>1, <3>2, <3>3, <3>4, <3>5, MoveKeeps
    <2> QED BY <2>2, <2>3, <2>4
  <1>6. CASE FutexBad(t)
    <2>1. PICK e \in {EINVAL, ENOSYS, EFAULT} : Return(t, e)
      BY <1>6 DEF FutexBad
    <2>2. /\ pc[t] = "run" /\ UNCHANGED <<word, refcount, queue, lock, futex, pipe, stall, env>>
      BY <1>6 DEF FutexBad
    <2> QED BY <1>0, <2>1, <2>2, FailKeeps
  <1> QED BY <1>1, <1>2, <1>3, <1>4, <1>5, <1>6 DEF Call

\* What the guest does outside the futex calls keeps the invariant.
LEMMA GuestKeeps ==
    ASSUME IInv, NEW t \in Tasks, Guest(t)
    PROVE  IInv'
  <1>0. /\ TypeOK /\ word \in [Addrs -> Values \cup {Unmapped}]
        /\ pending \in [Tasks -> BOOLEAN] /\ pc \in [Tasks -> PCs] /\ ret \in [Tasks -> Int]
    BY DEF IInv, TypeOK
  <1>1. CASE GuestResume(t)
    <2>1. /\ pc[t] = "done" /\ pc' = [pc EXCEPT ![t] = "run"] /\ "run" \in PCs
          /\ ret' \in [Tasks -> Int] /\ pending' \in [Tasks -> BOOLEAN]
          /\ UNCHANGED <<word, refcount, queue, lock, arg, futex, pipe, stall, groupExit, children>>
      BY <1>0, <1>1 DEF GuestResume, Goto, PCs
    <2>2. TypeOK'
      BY <1>0, <2>1 DEF TypeOK
    <2>3. pc[t] \notin Holding /\ "run" \notin Holding /\ pc[t] \notin Waiting
          /\ "run" \notin Waiting /\ "run" \notin InLoop
      BY <2>1 DEF Holding, Waiting, InLoop
    <2> QED BY <2>1, <2>2, <2>3, MoveKeeps
  <1>2. ASSUME NEW a \in Addrs, NEW v \in Values, GuestStore(t, a, v)
        PROVE  IInv'
    <2>1. TypeOK'
      BY <1>0, <1>2 DEF GuestStore, TypeOK, env
    <2> QED BY <1>2, <2>1, QuietKeeps DEF GuestStore
  <1>3. ASSUME NEW a \in Addrs, GuestMap(t, a)
        PROVE  IInv'
    <2>1. TypeOK'
      BY <1>0, <1>3, ValuesAssumption DEF GuestMap, TypeOK, env
    <2> QED BY <1>3, <2>1, QuietKeeps DEF GuestMap
  <1>4. ASSUME NEW u \in Tasks, GuestSignal(t, u)
        PROVE  IInv'
    <2>1. TypeOK'
      BY <1>0, <1>4 DEF GuestSignal, TypeOK
    <2> QED BY <1>4, <2>1, QuietKeeps DEF GuestSignal
  <1>5. CASE GuestFork(t)
    <2>1. TypeOK'
      BY <1>0, <1>5 DEF GuestFork, TypeOK
    <2> QED BY <1>5, <2>1, QuietKeeps DEF GuestFork
  <1> QED BY <1>1, <1>2, <1>3, <1>4, <1>5 DEF Guest

\* A thread that starts to exit holds nothing, so its steps keep the invariant.
LEMMA ExitKeeps ==
    ASSUME IInv, NEW t \in Tasks, Exit(t)
    PROVE  IInv'
  <1>0. /\ TypeOK /\ word \in [Addrs -> Values \cup {Unmapped}] /\ pipe \in [Tasks -> Int]
        /\ pc \in [Tasks -> PCs] /\ ret \in [Tasks -> Int] /\ arg \in [Tasks -> Args]
    BY DEF IInv, TypeOK
  <1>1. ASSUME NEW a \in Addrs, ExitClear(t, a)
        PROVE  IInv'
    <2> DEFINE r == [NoArgs EXCEPT !.addr = a]
    <2>1. pc[t] \in {"dying", "run", "done"} /\ ret' = [ret EXCEPT ![t] = 0]
          /\ UNCHANGED <<refcount, queue, lock, futex, stall, env>>
      BY <1>1 DEF ExitClear
    <2>2. pc[t] \notin Holding /\ pc[t] \notin Waiting
      BY <2>1 DEF Holding, Waiting, InLoop
    <2>3. CASE word[a] = Unmapped
      <3>1. /\ pc' = [pc EXCEPT ![t] = "gone"] /\ pipe' = [pipe EXCEPT ![t] = -1]
            /\ UNCHANGED <<word, arg>>
        BY <1>1, <2>3 DEF ExitClear, Goto
      <3>2. /\ "gone" \notin Holding /\ "gone" \notin Waiting /\ "gone" \notin InLoop
            /\ pc' \in [Tasks -> PCs] /\ pipe' \in [Tasks -> Int] /\ ret' \in [Tasks -> Int]
        BY <1>0, <2>1, <3>1 DEF PCs, Holding, Waiting, InLoop
      <3>3. TypeOK'
        BY <1>0, <2>1, <3>1, <3>2 DEF TypeOK, env
      <3>4. LockExact' /\ FutexHeld' /\ PipeOpen' /\ RefcountExact'
        BY <1>0, <2>1, <2>2, <3>1, <3>2 DEF IInv, LockExact, FutexHeld, PipeOpen, RefcountExact
      <3>5. QueueConsistent'
        <4>1. \A c \in Addrs : \A u \in Range(queue[c]) : u \in Tasks
          BY InvLinking DEF IInv
        <4> QED BY <1>0, <2>1, <2>2, <3>1, <4>1 DEF IInv, QueueConsistent
      <3>6. WakeByteExact'
        BY <1>0, <2>1, <3>1, <3>2 DEF IInv, WakeByteExact
      <3> QED BY <3>3, <3>4, <3>5, <3>6 DEF IInv
    <2>4. CASE word[a] # Unmapped
      <3>1. /\ pc' = [pc EXCEPT ![t] = "exiting"] /\ arg' = [arg EXCEPT ![t] = r]
            /\ word' = [word EXCEPT ![a] = 0] /\ UNCHANGED pipe
        BY <1>1, <2>4 DEF ExitClear, Goto, SetArgs
      <3>2. r \in Args
        BY NoArgsType DEF NoArgs, Args
      <3> HIDE DEF r
      <3>3. /\ "exiting" \notin Holding /\ "exiting" \notin Waiting /\ "exiting" \notin InLoop
            /\ "exiting" \in PCs /\ pc' \in [Tasks -> PCs] /\ ret' \in [Tasks -> Int]
            /\ arg' \in [Tasks -> Args] /\ word' \in [Addrs -> Values \cup {Unmapped}]
        BY <1>0, <2>1, <3>1, <3>2, ValuesAssumption DEF PCs, Holding, Waiting, InLoop
      <3>4. TypeOK'
        BY <1>0, <2>1, <3>1, <3>3 DEF TypeOK, env
      <3>5. \A u \in Tasks : pc[u] \in Holding => arg'[u] = arg[u]
        BY <1>0, <2>2, <3>1
      <3> QED BY <2>1, <2>2, <3>1, <3>3, <3>4, <3>5, MoveKeeps
    <2> QED BY <2>3, <2>4
  <1>2. CASE ExitGroup(t)
    <2>1. /\ pc[t] \in {"endgroup", "run"} /\ pc' = [pc EXCEPT ![t] = "dying"]
          /\ groupExit' \in BOOLEAN /\ pending' \in [Tasks -> BOOLEAN]
          /\ UNCHANGED <<word, refcount, queue, lock, arg, futex, ret, pipe, stall, children>>
      BY <1>2 DEF ExitGroup, Goto
    <2>2. /\ "dying" \notin Holding /\ "dying" \notin Waiting /\ "dying" \notin InLoop
          /\ "dying" \in PCs /\ pc[t] \notin Holding /\ pc[t] \notin Waiting
      BY <2>1 DEF PCs, Holding, Waiting, InLoop
    <2>3. TypeOK'
      BY <1>0, <2>1, <2>2 DEF TypeOK
    <2> QED BY <2>1, <2>2, <2>3, MoveKeeps
  <1> QED BY <1>1, <1>2 DEF Exit

\* IInv is inductive.
LEMMA NextIInv == IInv /\ [Next]_vars => IInv'
  <1> SUFFICES ASSUME IInv, [Next]_vars PROVE IInv'
    OBVIOUS
  <1>1. ASSUME NEW t \in Tasks, Inside(t) PROVE IInv'
    BY <1>1, InsideKeeps
  <1>2. ASSUME NEW t \in Tasks, Locking(t) PROVE IInv'
    BY <1>2, LockingKeeps
  <1>3. ASSUME NEW t \in Tasks, FutexWaitDeadline(t) PROVE IInv'
    <2>0. pc \in [Tasks -> PCs] /\ ret \in [Tasks -> Int] /\ TypeOK
      BY DEF IInv, TypeOK
    <2>1. /\ pc[t] = "sleep" /\ pc' = [pc EXCEPT ![t] = "leave"] /\ ret' \in [Tasks -> Int]
          /\ UNCHANGED <<word, refcount, queue, lock, arg, futex, pipe, stall, env>>
      BY <1>3, <2>0, ErrorsInt DEF FutexWaitDeadline, Break, Goto
    <2>2. TypeOK'
      BY <2>0, <2>1 DEF TypeOK, PCs, Waiting, env
    <2> QED BY <2>1, <2>2, MoveKeeps DEF PCs, Holding, Waiting, InLoop
  <1>4. ASSUME NEW t \in Tasks, Call(t) PROVE IInv'
    BY <1>4, CallKeeps
  <1>5. ASSUME NEW t \in Tasks, Guest(t) PROVE IInv'
    BY <1>5, GuestKeeps
  <1>6. ASSUME NEW t \in Tasks, Exit(t) PROVE IInv'
    BY <1>6, ExitKeeps
  <1>7. CASE ChildrenExit
    <2>1. TypeOK'
      BY <1>7 DEF ChildrenExit, IInv, TypeOK
    <2> QED BY <1>7, <2>1, QuietKeeps DEF ChildrenExit
  <1>8. CASE UNCHANGED vars
    <2>1. TypeOK'
      BY <1>8 DEF vars, IInv, TypeOK
    <2> QED BY <1>8, <2>1, QuietKeeps DEF vars
  <1> QED BY <1>1, <1>2, <1>3, <1>4, <1>5, <1>6, <1>7, <1>8 DEF Next

\* The inductive invariant holds in every reachable state, for every number of
\* threads, addresses and values.
THEOREM InvariantHolds == Spec => []IInv
  BY InitIInv, NextIInv, PTL DEF Spec

\* The variables of the futex code keep their types: in particular no refcount
\* ever goes below zero.
THEOREM TypeCorrect == Spec => []TypeOK
  <1>1. IInv => TypeOK
    BY DEF IInv
  <1> QED BY <1>1, InvariantHolds, PTL

\* futex_get_unlocked and futex_put_unlocked balance on every path: a struct
\* futex is neither leaked nor freed under a task that still points to it.
THEOREM RefcountCorrect == Spec => []RefcountExact
  <1>1. IInv => RefcountExact
    BY DEF IInv
  <1> QED BY <1>1, InvariantHolds, PTL

\* Every entry futex_wake_queue finds belongs to a task that is still inside
\* futex_wait on that very futex.
THEOREM QueueCorrect == Spec => []QueueConsistent
  <1>1. IInv => QueueConsistent
    BY DEF IInv
  <1> QED BY <1>1, InvariantHolds, PTL

\* No wake is lost and none is invented: a waiter in the poll loop has a byte in
\* its pipe exactly when it was taken off its queue.
THEOREM WakeByteCorrect == Spec => []WakeByteExact
  <1>1. IInv => WakeByteExact
    BY DEF IInv
  <1> QED BY <1>1, InvariantHolds, PTL

\* The assertion in futex_put_unlocked never fails: whoever is on a queue holds a
\* reference, so a struct futex that is freed has an empty queue.
THEOREM FreedQueueEmpty == Spec => []QueueEmptyWhenFree
  <1>1. IInv => QueueEmptyWhenFree
    <2>1. SUFFICES ASSUME IInv, NEW a \in Addrs, refcount[a] = 0, queue[a] # <<>>
                   PROVE  FALSE
      BY DEF QueueEmptyWhenFree
    <2>2. queue[a] \in Seq(Tasks) /\ Len(queue[a]) > 0
      BY <2>1 DEF IInv, TypeOK
    <2>3. queue[a][1] \in Tasks /\ queue[a][1] \in Range(queue[a])
      BY <2>2 DEF Range
    <2>4. queue[a][1] \in Holders(futex, a)
      BY <2>1, <2>3 DEF IInv, QueueConsistent, Holders
    <2>5. IsFiniteSet(Holders(futex, a))
      BY TasksAssumption, FS_Subset DEF Holders
    <2>6. Cardinality(Holders(futex, a)) = 0
      BY <2>1 DEF IInv, RefcountExact, Holders
    <2> QED BY <2>4, <2>5, <2>6, FS_EmptySet
  <1> QED BY <1>1, InvariantHolds, PTL

-----------------------------------------------------------------------------
(***************************************************************************)
(* What a guest sees of the state, and what of it the contract's actions   *)
(* allow to change.                                                        *)
(***************************************************************************)

\* Whoever waits has a call, an address or a result of its own.
LEMMA Views ==
    /\ WaitOf = [u \in Tasks |-> WaitOf[u]]
    /\ BlockedOn = [u \in Tasks |-> BlockedOn[u]]
    /\ ResultOf = [u \in Tasks |-> ResultOf[u]]
    /\ WaitOf' = [u \in Tasks |-> WaitOf'[u]]
    /\ BlockedOn' = [u \in Tasks |-> BlockedOn'[u]]
    /\ ResultOf' = [u \in Tasks |-> ResultOf'[u]]
  BY DEF WaitOf, BlockedOn, ResultOf

\* A step of t shows in the views of t only.
OnlySeen(t) == \A u \in Tasks \ {t} : WaitOf'[u] = WaitOf[u] /\ ResultOf'[u] = ResultOf[u]

LEMMA OthersUnseen ==
    ASSUME NEW t \in Tasks,
           \A u \in Tasks \ {t} : pc'[u] = pc[u] /\ arg'[u] = arg[u] /\ ret'[u] = ret[u]
    PROVE  OnlySeen(t)
  BY DEF OnlySeen, WaitOf, ResultOf

\* A step nobody sees.
LEMMA StillStep ==
    ASSUME NEW t \in Tasks, OnlySeen(t), WaitOf'[t] = WaitOf[t], ResultOf'[t] = ResultOf[t],
           BlockedOn' = BlockedOn
    PROVE  UNCHANGED Contract!contractVars
  <1>1. WaitOf' = WaitOf /\ ResultOf' = ResultOf
    BY Views DEF OnlySeen
  <1> QED BY <1>1 DEF Contract!contractVars

\* The steps of one task, by what a guest sees of it.
LEMMA BeginStep ==
    ASSUME NEW t \in Tasks, OnlySeen(t), WaitOf[t] = <<>>, ResultOf[t] = 0,
           WaitOf'[t] \in Addrs \X Values, ResultOf'[t] = 0, BlockedOn' = BlockedOn
    PROVE  Contract!Begin(t)
  <1>1. WaitOf' = [WaitOf EXCEPT ![t] = WaitOf'[t]] /\ ResultOf' = ResultOf
    BY Views DEF OnlySeen
  <1> QED BY <1>1 DEF Contract!Begin

LEMMA BlockStep ==
    ASSUME NEW t \in Tasks, OnlySeen(t), WaitOf[t] # <<>>, BlockedOn[t] = NoFutex,
           word[WaitOf[t][1]] \in {WaitOf[t][2], Unmapped},
           WaitOf'[t] = WaitOf[t], ResultOf'[t] = ResultOf[t], BlockedOn'[t] = WaitOf[t][1],
           \A u \in Tasks \ {t} : BlockedOn'[u] = BlockedOn[u]
    PROVE  Contract!Block(t)
  <1>1. /\ WaitOf' = WaitOf /\ ResultOf' = ResultOf
        /\ BlockedOn' = [BlockedOn EXCEPT ![t] = WaitOf[t][1]]
    BY Views DEF OnlySeen
  <1> QED BY <1>1 DEF Contract!Block

LEMMA RefuseStep ==
    ASSUME NEW t \in Tasks, OnlySeen(t), WaitOf[t] # <<>>, BlockedOn[t] = NoFutex,
           word[WaitOf[t][1]] # WaitOf[t][2],
           WaitOf'[t] = <<>>, ResultOf'[t] = EAGAIN, BlockedOn' = BlockedOn
    PROVE  Contract!Refuse(t)
  <1>1. /\ WaitOf' = [WaitOf EXCEPT ![t] = <<>>]
        /\ ResultOf' = [ResultOf EXCEPT ![t] = ResultOf'[t]]
        /\ ResultOf'[t] \in {-11}
    BY Views DEF OnlySeen, EAGAIN
  <1> QED BY <1>1 DEF Contract!Refuse, Contract!Result

LEMMA FinishStep ==
    ASSUME NEW t \in Tasks, OnlySeen(t), WaitOf[t] # <<>>, WaitOf'[t] = <<>>,
           ResultOf'[t] \in {0, EINTR, ENOMEM, EFAULT, ETIMEDOUT},
           BlockedOn'[t] = NoFutex, \A u \in Tasks \ {t} : BlockedOn'[u] = BlockedOn[u]
    PROVE  Contract!Finish(t)
  <1>1. /\ WaitOf' = [WaitOf EXCEPT ![t] = <<>>]
        /\ BlockedOn' = [BlockedOn EXCEPT ![t] = NoFutex]
        /\ ResultOf' = [ResultOf EXCEPT ![t] = ResultOf'[t]]
    BY Views DEF OnlySeen
  <1>2. ResultOf'[t] \in {0, -4, -12, -14, -110}
    BY DEF EINTR, ENOMEM, EFAULT, ETIMEDOUT
  <1> QED BY <1>1, <1>2 DEF Contract!Finish, Contract!Result

LEMMA FailStep ==
    ASSUME NEW t \in Tasks, OnlySeen(t), WaitOf[t] = <<>>, WaitOf'[t] = <<>>,
           ResultOf'[t] \in {0, EAGAIN, EFAULT, EINVAL, ENOSYS}, BlockedOn' = BlockedOn
    PROVE  Contract!Fail(t)
  <1>1. WaitOf' = WaitOf /\ ResultOf' = [ResultOf EXCEPT ![t] = ResultOf'[t]]
    BY Views DEF OnlySeen
  <1>2. ResultOf'[t] \in {0, -11, -14, -22, -38}
    BY DEF EAGAIN, EFAULT, EINVAL, ENOSYS
  <1> QED BY <1>1, <1>2 DEF Contract!Fail, Contract!Result

\* A task is blocked on a futex if it is linked, or about to be with the lock held.
BlockedRight ==
    \A u \in Tasks :
        /\ BlockedOn[u] \in Addrs \cup {NoFutex}
        /\ \A a \in Addrs :
              BlockedOn[u] = a <=> (pc[u] = "enq" /\ futex[u] = a) \/ u \in Range(queue[a])

LEMMA BlockedWhen == IInv => BlockedRight
  <1> SUFFICES ASSUME IInv, NEW u \in Tasks
               PROVE  /\ BlockedOn[u] \in Addrs \cup {NoFutex}
                      /\ \A a \in Addrs : BlockedOn[u] = a
                            <=> (pc[u] = "enq" /\ futex[u] = a) \/ u \in Range(queue[a])
    BY DEF BlockedRight
  <1>1. \A a \in Addrs : u \in Range(queue[a]) => pc[u] \in Waiting /\ futex[u] = a
    BY DEF IInv, QueueConsistent
  <1>2. futex[u] \in Addrs \cup {NoFutex}
    BY DEF IInv, TypeOK
  <1> QED BY <1>1, <1>2, AddrsAssumption DEF BlockedOn

LEMMA BlockedAfter == IInv' => BlockedRight'
  BY BlockedWhen, PTL

\* Nobody is blocked or released by a step that leaves the linked tasks linked.
LEMMA BlockedSame ==
    ASSUME BlockedRight, BlockedRight', NEW u \in Tasks,
           \A a \in Addrs :
              /\ (pc'[u] = "enq" /\ futex'[u] = a) <=> (pc[u] = "enq" /\ futex[u] = a)
              /\ u \in Range(queue'[a]) <=> u \in Range(queue[a])
    PROVE  BlockedOn'[u] = BlockedOn[u]
  BY AddrsAssumption DEF BlockedRight

\* A queue is as long as the set of its waiters is large.
LEMMA CountQueue ==
    ASSUME NEW s \in Seq(Tasks), NoRepeat(s)
    PROVE  IsFiniteSet(Range(s)) /\ Cardinality(Range(s)) = Len(s) /\ Len(s) \in Nat
  <1>1. /\ Len(s) \in Nat /\ s \in [1 .. Len(s) -> Range(s)]
        /\ Range(s) = {s[i] : i \in 1 .. Len(s)}
    BY RangeIndex
  <1>2. s \in Surjection(1 .. Len(s), Range(s))
    BY <1>1 DEF Surjection
  <1>3. s \in Injection(1 .. Len(s), Range(s))
    BY <1>1, InjectiveSeq DEF Injection
  <1>4. IsFiniteSet(1 .. Len(s)) /\ Cardinality(1 .. Len(s)) = Len(s)
    <2>1. 1 \in Int /\ Len(s) \in Int
      BY <1>1
    <2>2. /\ IsFiniteSet(1 .. Len(s))
          /\ Cardinality(1 .. Len(s)) = IF 1 > Len(s) THEN 0 ELSE Len(s) - 1 + 1
      BY <2>1, FS_Interval
    <2> QED BY <1>1, <2>2
  <1> QED BY <1>1, <1>2, <1>3, <1>4, FS_Surjection

\* The contract counts as the model does.
LEMMA SameCount == \A S : Contract!Cardinality(S) = Cardinality(S)
  BY DEF Contract!Cardinality, Cardinality

\* No task is about to link itself while futex_lock is free, or another holds it.
NobodyLinking == \A u \in Tasks : pc[u] # "enq"

\* Of the waiters of a, W were woken and M moved to b.
Woken(a, b, W, M) ==
    /\ W \subseteq Range(queue[a]) /\ M \subseteq Range(queue[a]) \ W
    /\ a = b => M = {}
    /\ \A c \in Addrs : \A u : u \in Range(queue'[c])
          <=> \/ u \in Range(queue[c]) /\ u \notin W /\ u \notin M
              \/ c = b /\ u \in M

\* What the guest sees of that.
LEMMA WokenSeen ==
    ASSUME BlockedRight, BlockedRight', NobodyLinking, NobodyLinking', Linking(queue),
           NEW a \in Addrs, NEW b \in Addrs, NEW W, NEW M, Woken(a, b, W, M)
    PROVE  /\ Contract!On(a) = Range(queue[a])
           /\ \A u \in Range(queue[a]) :
                 /\ BlockedOn'[u] = NoFutex <=> u \in W
                 /\ BlockedOn'[u] # a <=> u \in W \cup M
                 /\ a # b => (BlockedOn'[u] = b <=> u \in M)
           /\ \A u \in Tasks : u \notin W =>
                 \/ BlockedOn'[u] = BlockedOn[u]
                 \/ u \in Range(queue[a]) /\ BlockedOn'[u] = b
  <1>0. /\ W \subseteq Range(queue[a]) /\ M \subseteq Range(queue[a]) \ W
        /\ a = b => M = {}
        /\ \A c \in Addrs : \A u : u \in Range(queue'[c])
              <=> \/ u \in Range(queue[c]) /\ u \notin W /\ u \notin M
                  \/ c = b /\ u \in M
    BY DEF Woken
  <1>1. \A u \in Tasks : /\ BlockedOn[u] \in Addrs \cup {NoFutex}
                         /\ BlockedOn'[u] \in Addrs \cup {NoFutex}
                         /\ \A c \in Addrs : /\ BlockedOn[u] = c <=> u \in Range(queue[c])
                                             /\ BlockedOn'[u] = c <=> u \in Range(queue'[c])
    BY DEF BlockedRight, NobodyLinking
  <1>2. \A c \in Addrs : Range(queue[c]) \subseteq Tasks
    BY RangeIndex DEF Linking, Queues
  <1>3. \A c \in Addrs : c # a => Range(queue[a]) \cap Range(queue[c]) = {}
    BY DEF Linking
  <1>4. Contract!On(a) = Range(queue[a])
    BY <1>1, <1>2 DEF Contract!On
  <1>5. \A u \in W : BlockedOn'[u] = NoFutex
    <2>1. ASSUME NEW u \in W, NEW c \in Addrs PROVE u \notin Range(queue'[c])
      BY <1>0, <2>1
    <2> QED BY <1>0, <1>1, <1>2, <2>1
  <1>6. \A u \in M : BlockedOn'[u] = b
    BY <1>0, <1>1, <1>2
  <1>7. \A u \in (Range(queue[a]) \ W) \ M : BlockedOn'[u] = a
    BY <1>0, <1>1, <1>2
  <1>8. \A u \in Tasks \ Range(queue[a]) : BlockedOn'[u] = BlockedOn[u]
    <2>1. ASSUME NEW u \in Tasks \ Range(queue[a]), NEW c \in Addrs
          PROVE  u \in Range(queue'[c]) <=> u \in Range(queue[c])
      BY <1>0, <2>1
    <2> QED BY <1>1, <2>1, AddrsAssumption
  <1>9. \A u \in Range(queue[a]) :
           /\ BlockedOn'[u] = NoFutex <=> u \in W
           /\ BlockedOn'[u] # a <=> u \in W \cup M
           /\ a # b => (BlockedOn'[u] = b <=> u \in M)
    BY <1>0, <1>5, <1>6, <1>7, AddrsAssumption
  <1>10. \A u \in Tasks : u \notin W =>
            \/ BlockedOn'[u] = BlockedOn[u]
            \/ u \in Range(queue[a]) /\ BlockedOn'[u] = b
    <2>1. ASSUME NEW u \in Range(queue[a]), u \notin W, u \notin M
          PROVE  BlockedOn'[u] = BlockedOn[u]
      BY <1>1, <1>2, <1>7, <2>1
    <2>2. ASSUME NEW u \in Tasks, u \in M
          PROVE  u \in Range(queue[a]) /\ BlockedOn'[u] = b
      BY <1>0, <1>6, <2>2
    <2> QED BY <1>0, <1>8, <2>1, <2>2
  <1> QED BY <1>4, <1>9, <1>10

\* A call that wakes and requeues shows as one step of the contract.
LEMMA WakeRequeueStep ==
    ASSUME BlockedRight, BlockedRight', NobodyLinking, NobodyLinking', TypeOK, QueueConsistent,
           NEW t \in Tasks, WaitOf[t] = <<>>, pc[t] \notin Waiting,
           NEW a \in Addrs, NEW b \in Addrs, NEW n \in Counts, NEW m \in Counts \cup {0},
           NEW rc, WakeAndRequeue(t, rc, a, n, b, m)
    PROVE  Contract!WakeRequeue(t)
  <1> DEFINE q == Dequeue(queue, a, n)
             W == Range(Taken(queue, a, n))
             M == Moved(q, a, b, m)
             k == Len(Taken(queue, a, n)) + Requeued(q, a, b, m)
             S == Contract!On(a)
  <1>1. Linking(queue) /\ n \in Nat /\ m \in Nat
    BY InvLinking, CountsAssumption
  <1>2. /\ Linking(q) /\ W \subseteq Range(queue[a])
        /\ \A c \in Addrs : Range(q[c]) = Range(queue[c]) \ W
    BY <1>1, DequeueEffect
  <1>3. /\ M \subseteq Range(q[a]) /\ (a = b => M = {})
        /\ \A c \in Addrs : Range(Transfer(q, a, b, m)[c])
              = (Range(q[c]) \ M) \cup (IF c = b THEN M ELSE {})
    BY <1>1, <1>2, TransferEffect
  <1>4. /\ queue' = Transfer(q, a, b, m)
        /\ pc' = [pc EXCEPT ![t] = "done"] /\ arg' = [arg EXCEPT ![t] = NoArgs]
        /\ ret' = [ret EXCEPT ![t] = k]
    BY DEF WakeAndRequeue, Return, Goto
  <1>5. OnlySeen(t) /\ WaitOf' = WaitOf /\ ResultOf'[t] = k
    <2>1. pc \in [Tasks -> PCs] /\ ret \in [Tasks -> Int] /\ arg \in [Tasks -> Args]
      BY DEF TypeOK
    <2>2. OnlySeen(t)
      BY <1>4, <2>1, OthersUnseen
    <2>3. pc'[t] = "done" /\ ret'[t] = k
      BY <1>4, <2>1
    <2>4. WaitOf'[t] = <<>> /\ ResultOf'[t] = k
      BY <2>3 DEF WaitOf, ResultOf, Waiting, InLoop
    <2> QED BY <2>2, <2>4, Views DEF OnlySeen
  <1>6. /\ queue[a] \in Seq(Tasks) /\ NoRepeat(queue[a]) /\ q[a] \in Seq(Tasks) /\ NoRepeat(q[a])
    BY <1>1, <1>2 DEF Linking, Queues
  <1>7. /\ IsFiniteSet(W) /\ Len(queue[a]) \in Nat
        /\ Cardinality(W) = LowerOf(n, Len(queue[a])) /\ Len(Taken(queue, a, n)) = Cardinality(W)
        /\ Cardinality(Range(queue[a])) = Len(queue[a])
    <2>1. /\ Taken(queue, a, n) \in Seq(Tasks) /\ NoRepeat(Taken(queue, a, n))
          /\ Len(Taken(queue, a, n)) = LowerOf(n, Len(queue[a]))
      BY <1>1, <1>6, WakeSplits
    <2>2. /\ IsFiniteSet(W) /\ Cardinality(W) = Len(Taken(queue, a, n))
      BY <2>1, CountQueue
    <2>3. Len(queue[a]) \in Nat /\ Cardinality(Range(queue[a])) = Len(queue[a])
      BY <1>6, CountQueue
    <2> QED BY <2>1, <2>2, <2>3
  <1>8. /\ Len(q[a]) \in Nat /\ Cardinality(Range(q[a])) = Len(q[a])
        /\ IsFiniteSet(Range(Taken(q, a, m)))
        /\ Cardinality(Range(Taken(q, a, m))) = LowerOf(m, Len(q[a]))
    <2> HIDE DEF q
    <2>1. /\ Taken(q, a, m) \in Seq(Tasks) /\ NoRepeat(Taken(q, a, m))
          /\ Len(Taken(q, a, m)) = LowerOf(m, Len(q[a]))
      BY <1>1, <1>6, WakeSplits
    <2>2. /\ IsFiniteSet(Range(Taken(q, a, m)))
          /\ Cardinality(Range(Taken(q, a, m))) = Len(Taken(q, a, m))
      BY <2>1, CountQueue
    <2>3. Len(q[a]) \in Nat /\ Cardinality(Range(q[a])) = Len(q[a])
      BY <1>6, CountQueue
    <2> QED BY <2>1, <2>2, <2>3
  <1>9. a # b => M = Range(Taken(q, a, m)) /\ Requeued(q, a, b, m) = LowerOf(m, Len(q[a]))
    BY DEF Moved, Requeued
  <1>10. a = b => Requeued(q, a, b, m) \in 0 .. m
    BY <1>1, <1>8 DEF Requeued, LowerOf
  <1> HIDE DEF q, W, M, k
  <1>11. /\ S = Range(queue[a])
         /\ {u \in S : BlockedOn'[u] = NoFutex} = W
         /\ {u \in S : BlockedOn'[u] # a} = W \cup M
         /\ a # b => {u \in S : BlockedOn'[u] = b} = M
         /\ \A u \in Tasks : \/ BlockedOn'[u] = BlockedOn[u]
                             \/ u \in W
                             \/ u \in S /\ BlockedOn'[u] = b
    <2>1. \A c \in Addrs : \A u : u \in Range(queue'[c])
             <=> \/ u \in Range(queue[c]) /\ u \notin W /\ u \notin M
                 \/ c = b /\ u \in M
      BY <1>2, <1>3, <1>4
    <2>2. M \subseteq Range(queue[a]) \ W /\ W \subseteq Range(queue[a]) /\ (a = b => M = {})
      BY <1>2, <1>3
    <2>3. Woken(a, b, W, M)
      BY <2>1, <2>2 DEF Woken
    <2>4. /\ S = Range(queue[a])
          /\ \A u \in Range(queue[a]) :
                /\ BlockedOn'[u] = NoFutex <=> u \in W
                /\ BlockedOn'[u] # a <=> u \in W \cup M
                /\ a # b => (BlockedOn'[u] = b <=> u \in M)
          /\ \A u \in Tasks : u \notin W =>
                \/ BlockedOn'[u] = BlockedOn[u]
                \/ u \in Range(queue[a]) /\ BlockedOn'[u] = b
      BY <1>1, <2>3, WokenSeen
    <2> HIDE DEF S
    <2> QED BY <2>2, <2>4
  <1>12. Range(q[a]) = S \ W
    BY <1>2, <1>11
  <1>13. Cardinality(W) = Contract!Lower(n, Cardinality(S))
    BY <1>7, <1>11 DEF Contract!Lower, LowerOf
  <1>14. \/ /\ a # b
            /\ Cardinality({u \in S : BlockedOn'[u] = b}) = Contract!Lower(m, Cardinality(S \ W))
            /\ ResultOf'[t] = Cardinality({u \in S : BlockedOn'[u] # a})
         \/ a = b /\ ResultOf'[t] \in Cardinality(W) .. Cardinality(W) + m
    <2>1. CASE a # b
      <3>1. Cardinality(M) = Contract!Lower(m, Cardinality(S \ W))
        BY <1>8, <1>9, <1>12, <2>1 DEF Contract!Lower, LowerOf
      <3>2. Cardinality(W \cup M) = Cardinality(W) + Cardinality(M)
        <4>1. W \cap M = {} /\ IsFiniteSet(W) /\ IsFiniteSet(M)
          BY <1>2, <1>3, <1>7, <1>8, <1>9, <2>1
        <4>2. Cardinality(W \cup M) = Cardinality(W) + Cardinality(M) - Cardinality(W \cap M)
          BY <4>1, FS_Union
        <4>3. Cardinality(W) \in Nat /\ Cardinality(M) \in Nat
          BY <4>1, FS_CardinalityType
        <4>4. Cardinality(W \cap M) = 0
          BY <4>1, FS_EmptySet
        <4> QED BY <4>2, <4>3, <4>4
      <3>3. k = Cardinality(W) + Cardinality(M)
        BY <1>7, <1>8, <1>9, <2>1 DEF k
      <3> QED BY <1>5, <1>11, <2>1, <3>1, <3>2, <3>3
    <2>2. CASE a = b
      <3>1. k = Cardinality(W) + Requeued(q, a, b, m) /\ Cardinality(W) \in Nat
        BY <1>7, FS_CardinalityType DEF k
      <3> QED BY <1>1, <1>5, <1>10, <2>2, <3>1
    <2> QED BY <2>1, <2>2
  <1>15. ResultOf' = [ResultOf EXCEPT ![t] = ResultOf'[t]]
    BY <1>5, Views DEF OnlySeen
  <1>16. /\ \A u \in Tasks : BlockedOn'[u] = BlockedOn[u]
               \/ u \in {v \in S : BlockedOn'[v] = NoFutex} \/ (u \in S /\ BlockedOn'[u] = b)
         /\ Contract!Wakes(S, n)
    BY <1>11, <1>13, SameCount DEF Contract!Wakes
  <1>17. \/ /\ a # b
            /\ Cardinality({u \in S : BlockedOn'[u] = b})
                 = Contract!Lower(m, Cardinality(S \ {u \in S : BlockedOn'[u] = NoFutex}))
            /\ Contract!Result(t, {Cardinality({u \in S : BlockedOn'[u] # a})})
         \/ /\ a = b
            /\ Contract!Result(t, Cardinality({u \in S : BlockedOn'[u] = NoFutex})
                                  .. Cardinality({u \in S : BlockedOn'[u] = NoFutex}) + m)
    BY <1>11, <1>14, <1>15 DEF Contract!Result
  <1> QED BY <1>5, <1>16, <1>17, SameCount DEF Contract!WakeRequeue

\* A call that returns shows its result and is over.
LEMMA ReturnSeen ==
    ASSUME TypeOK, NEW t \in Tasks, NEW r, Return(t, r)
    PROVE  OnlySeen(t) /\ WaitOf'[t] = <<>> /\ ResultOf'[t] = r
  <1>1. /\ pc \in [Tasks -> PCs] /\ ret \in [Tasks -> Int] /\ arg \in [Tasks -> Args]
        /\ pc' = [pc EXCEPT ![t] = "done"] /\ arg' = [arg EXCEPT ![t] = NoArgs]
        /\ ret' = [ret EXCEPT ![t] = r]
    BY DEF TypeOK, Return, Goto
  <1>2. OnlySeen(t)
    BY <1>1, OthersUnseen
  <1>3. pc'[t] = "done" /\ ret'[t] = r
    BY <1>1
  <1>4. WaitOf'[t] = <<>> /\ ResultOf'[t] = r
    BY <1>3 DEF WaitOf, ResultOf, Waiting, InLoop
  <1> QED BY <1>2, <1>4

\* W have been taken off their queues, and nobody was moved.
Released(W) ==
    \A c \in Addrs : \A u : u \in Range(queue'[c]) <=> u \in Range(queue[c]) /\ u \notin W

\* What the guest sees of that.
LEMMA ReleasedSeen ==
    ASSUME BlockedRight, BlockedRight', NobodyLinking, NobodyLinking', Linking(queue),
           NEW W, Released(W)
    PROVE  /\ \A c \in Addrs : Contract!On(c) = Range(queue[c])
           /\ \A c \in Addrs : \A u \in Range(queue[c]) :
                 BlockedOn'[u] = NoFutex <=> u \in W
           /\ \A u \in Tasks : u \notin W => BlockedOn'[u] = BlockedOn[u]
           /\ \A u \in Tasks : BlockedOn'[u] = BlockedOn[u] \/ BlockedOn'[u] = NoFutex
  <1>1. \A u \in Tasks : /\ BlockedOn[u] \in Addrs \cup {NoFutex}
                         /\ BlockedOn'[u] \in Addrs \cup {NoFutex}
                         /\ \A c \in Addrs : /\ BlockedOn[u] = c <=> u \in Range(queue[c])
                                             /\ BlockedOn'[u] = c <=> u \in Range(queue'[c])
    BY DEF BlockedRight, NobodyLinking
  <1>2. \A c \in Addrs : Range(queue[c]) \subseteq Tasks
    BY RangeIndex DEF Linking, Queues
  <1>3. \A c \in Addrs : Contract!On(c) = Range(queue[c])
    BY <1>1, <1>2 DEF Contract!On
  <1>4. ASSUME NEW u \in Tasks, u \notin W PROVE BlockedOn'[u] = BlockedOn[u]
    <2>1. \A c \in Addrs : u \in Range(queue'[c]) <=> u \in Range(queue[c])
      BY <1>4 DEF Released
    <2> QED BY <1>1, <2>1, AddrsAssumption
  <1>5. ASSUME NEW u \in Tasks, u \in W PROVE BlockedOn'[u] = NoFutex
    <2>1. \A c \in Addrs : u \notin Range(queue'[c])
      BY <1>5 DEF Released
    <2> QED BY <1>1, <2>1
  <1>6. ASSUME NEW c \in Addrs, NEW u \in Range(queue[c])
        PROVE  BlockedOn'[u] = NoFutex <=> u \in W
    <2>1. u \in Tasks /\ BlockedOn[u] = c
      BY <1>1, <1>2, <1>6
    <2> QED BY <1>4, <1>5, <2>1, AddrsAssumption
  <1> QED BY <1>3, <1>4, <1>5, <1>6

\* How many a wake takes off a queue.
LEMMA TakenCount ==
    ASSUME NEW q, Linking(q), NEW a \in Addrs, NEW n \in Nat
    PROVE  /\ IsFiniteSet(Range(Taken(q, a, n))) /\ IsFiniteSet(Range(q[a]))
           /\ Len(Taken(q, a, n)) = Cardinality(Range(Taken(q, a, n)))
           /\ Cardinality(Range(Taken(q, a, n))) = LowerOf(n, Cardinality(Range(q[a])))
           /\ Cardinality(Range(q[a])) \in Nat
  <1>1. q[a] \in Seq(Tasks) /\ NoRepeat(q[a])
    BY DEF Linking, Queues
  <1>2. /\ Taken(q, a, n) \in Seq(Tasks) /\ NoRepeat(Taken(q, a, n))
        /\ Len(Taken(q, a, n)) = LowerOf(n, Len(q[a]))
    BY <1>1, WakeSplits
  <1>3. /\ IsFiniteSet(Range(Taken(q, a, n)))
        /\ Cardinality(Range(Taken(q, a, n))) = Len(Taken(q, a, n))
    BY <1>2, CountQueue
  <1>4. /\ IsFiniteSet(Range(q[a])) /\ Cardinality(Range(q[a])) = Len(q[a])
        /\ Len(q[a]) \in Nat
    BY <1>1, CountQueue
  <1> QED BY <1>2, <1>3, <1>4

\* The size of two disjoint sets together.
LEMMA DisjointCount ==
    ASSUME NEW V, NEW W, IsFiniteSet(V), IsFiniteSet(W), V \cap W = {}
    PROVE  /\ Cardinality(V \cup W) = Cardinality(V) + Cardinality(W)
           /\ Cardinality(V) \in Nat /\ Cardinality(W) \in Nat
  <1>1. Cardinality(V \cup W) = Cardinality(V) + Cardinality(W) - Cardinality(V \cap W)
    BY FS_Union
  <1>2. Cardinality(V) \in Nat /\ Cardinality(W) \in Nat /\ Cardinality(V \cap W) = 0
    BY FS_CardinalityType, FS_EmptySet
  <1> QED BY <1>1, <1>2

\* A wake_op shows as one step of the contract, though it walks two queues.
LEMMA WakeTwoStep ==
    ASSUME BlockedRight, BlockedRight', NobodyLinking, NobodyLinking', TypeOK, QueueConsistent,
           NEW t \in Tasks, WaitOf[t] = <<>>,
           NEW a \in Addrs, NEW b \in Addrs, NEW n \in Counts, NEW m \in Counts \cup {0},
           NEW q, q = Dequeue(queue, a, n), queue' = Dequeue(q, b, m),
           Return(t, Len(Taken(queue, a, n)) + Len(Taken(q, b, m)))
    PROVE  Contract!WakeTwo(t)
  <1> DEFINE V == Range(Taken(queue, a, n))
             W == Range(Taken(q, b, m))
             On(c) == Contract!On(c)
  <1>1. Linking(queue) /\ n \in Nat /\ m \in Nat
    BY InvLinking, CountsAssumption
  <1>2. /\ Linking(q) /\ V \subseteq Range(queue[a])
        /\ \A c \in Addrs : Range(q[c]) = Range(queue[c]) \ V
    BY <1>1, DequeueEffect
  <1>3. /\ W \subseteq Range(q[b])
        /\ \A c \in Addrs : Range(queue'[c]) = Range(q[c]) \ W
    BY <1>1, <1>2, DequeueEffect
  <1>4. /\ IsFiniteSet(V) /\ IsFiniteSet(Range(queue[a]))
        /\ Len(Taken(queue, a, n)) = Cardinality(V)
        /\ Cardinality(V) = LowerOf(n, Cardinality(Range(queue[a])))
        /\ Cardinality(Range(queue[a])) \in Nat
    BY <1>1, TakenCount
  <1>5. /\ IsFiniteSet(W) /\ IsFiniteSet(Range(q[b]))
        /\ Len(Taken(q, b, m)) = Cardinality(W)
        /\ Cardinality(W) = LowerOf(m, Cardinality(Range(q[b])))
        /\ Cardinality(Range(q[b])) \in Nat
    BY <1>1, <1>2, TakenCount
  <1> HIDE DEF V, W
  <1>6. V \cap W = {}
    BY <1>2, <1>3
  <1>7. /\ Cardinality(V \cup W) = Cardinality(V) + Cardinality(W)
        /\ Cardinality(V) \in Nat /\ Cardinality(W) \in Nat
    BY <1>4, <1>5, <1>6, DisjointCount
  <1>8. OnlySeen(t) /\ WaitOf'[t] = <<>> /\ ResultOf'[t] = Cardinality(V \cup W)
    BY <1>4, <1>5, <1>7, ReturnSeen
  <1>9. WaitOf' = WaitOf /\ ResultOf' = [ResultOf EXCEPT ![t] = ResultOf'[t]]
    BY <1>8, Views DEF OnlySeen
  <1>10. Released(V \cup W)
    BY <1>2, <1>3 DEF Released
  <1>11. /\ On(a) = Range(queue[a]) /\ On(b) = Range(queue[b])
         /\ \A c \in {a, b} : \A u \in On(c) : BlockedOn'[u] = NoFutex <=> u \in V \cup W
         /\ \A u \in Tasks : u \notin V \cup W => BlockedOn'[u] = BlockedOn[u]
    BY <1>1, <1>10, ReleasedSeen
  <1> HIDE DEF On
  <1>12. {u \in On(a) \cup On(b) : BlockedOn'[u] = NoFutex} = V \cup W
    BY <1>2, <1>3, <1>11
  <1>13. Contract!Result(t, {Cardinality(V \cup W)})
    BY <1>8, <1>9 DEF Contract!Result
  <1>14. CASE a = b
    <2>1. Cardinality(Range(q[b])) = Cardinality(Range(queue[a])) - Cardinality(V)
      <3>1. /\ Range(q[b]) = Range(queue[a]) \ V /\ V \cap Range(q[b]) = {}
            /\ V \cup Range(q[b]) = Range(queue[a])
        BY <1>2, <1>14
      <3>2. Cardinality(V \cup Range(q[b])) = Cardinality(V) + Cardinality(Range(q[b]))
        BY <1>4, <1>5, <3>1, DisjointCount
      <3>3. Cardinality(Range(queue[a])) = Cardinality(V) + Cardinality(Range(q[b]))
        BY <3>1, <3>2
      <3>4. /\ Cardinality(Range(queue[a])) \in Nat /\ Cardinality(V) \in Nat
            /\ Cardinality(Range(q[b])) \in Nat
        BY <1>4, <1>5, <1>7
      <3> QED BY <3>3, <3>4
    <2>2. Cardinality(V \cup W) = Contract!Lower(n + m, Cardinality(On(a) \cup On(b)))
      <3>1. On(a) \cup On(b) = Range(queue[a])
        BY <1>11, <1>14
      <3>2. Contract!Lower(n + m, Cardinality(On(a) \cup On(b)))
              = LowerOf(n + m, Cardinality(Range(queue[a])))
        BY <3>1 DEF Contract!Lower, LowerOf
      <3> DEFINE x == Cardinality(Range(queue[a]))
                 v == Cardinality(V)
      <3>3. Cardinality(W) = LowerOf(m, x - v) /\ v = LowerOf(n, x) /\ x \in Nat /\ v \in Nat
        BY <1>4, <1>5, <1>7, <2>1
      <3>4. Cardinality(V \cup W) = v + Cardinality(W)
        BY <1>7
      <3> HIDE DEF x, v
      <3>5. v + LowerOf(m, x - v) = LowerOf(n + m, x)
        BY <1>1, <3>3 DEF LowerOf
      <3> QED BY <3>2, <3>3, <3>4, <3>5 DEF x
    <2>3. Contract!Wakes(On(a) \cup On(b), n + m)
      BY <1>12, <2>2, SameCount DEF Contract!Wakes
    <2> QED BY <1>9, <1>11, <1>12, <1>13, <1>14, <2>3, SameCount DEF Contract!WakeTwo, On
  <1>15. CASE a # b
    <2>1. Range(queue[a]) \cap Range(queue[b]) = {}
      BY <1>1, <1>15 DEF Linking
    <2>2. Range(q[b]) = Range(queue[b]) /\ V \cap Range(queue[b]) = {} /\ W \cap Range(queue[a]) = {}
      BY <1>2, <1>3, <2>1
    <2>3. /\ {u \in On(a) : BlockedOn'[u] = NoFutex} = V
          /\ {u \in On(b) : BlockedOn'[u] = NoFutex} = W
      BY <1>2, <1>3, <1>11, <2>2
    <2>4. Contract!Wakes(On(a), n) /\ Contract!Wakes(On(b), m)
      BY <1>4, <1>5, <1>11, <2>2, <2>3, SameCount DEF Contract!Wakes, Contract!Lower, LowerOf
    <2> QED BY <1>9, <1>11, <1>12, <1>13, <1>15, <2>4, SameCount DEF Contract!WakeTwo, On
  <1> QED BY <1>14, <1>15

\* The wake of an exiting thread.
LEMMA WakeOnExitStep ==
    ASSUME BlockedRight, BlockedRight', NobodyLinking, NobodyLinking', TypeOK, QueueConsistent,
           WaitOf' = WaitOf, ResultOf' = ResultOf,
           NEW a \in Addrs, queue' = Dequeue(queue, a, 1)
    PROVE  Contract!WakeOnExit
  <1> DEFINE V == Range(Taken(queue, a, 1))
  <1>1. Linking(queue)
    BY InvLinking
  <1>2. /\ V \subseteq Range(queue[a])
        /\ \A c \in Addrs : Range(queue'[c]) = Range(queue[c]) \ V
    BY <1>1, DequeueEffect
  <1>3. Cardinality(V) = LowerOf(1, Cardinality(Range(queue[a])))
    BY <1>1, TakenCount
  <1> HIDE DEF V
  <1>4. Released(V)
    BY <1>2 DEF Released
  <1>5. /\ Contract!On(a) = Range(queue[a])
        /\ \A u \in Range(queue[a]) : BlockedOn'[u] = NoFutex <=> u \in V
        /\ \A u \in Tasks : u \notin V => BlockedOn'[u] = BlockedOn[u]
    BY <1>1, <1>4, ReleasedSeen
  <1>6. {u \in Contract!On(a) : BlockedOn'[u] = NoFutex} = V
    BY <1>2, <1>5
  <1>7. Contract!Wakes(Contract!On(a), 1)
    BY <1>3, <1>5, <1>6, SameCount DEF Contract!Wakes, Contract!Lower, LowerOf
  <1>8. \A u \in Tasks : BlockedOn'[u] = BlockedOn[u]
                           \/ (BlockedOn[u] = a /\ BlockedOn'[u] = NoFutex)
    <2>1. \A u \in Tasks : u \in V => BlockedOn[u] = a
      BY <1>2, <1>5 DEF Contract!On
    <2> QED BY <1>2, <1>5, <2>1
  <1> QED BY <1>7, <1>8 DEF Contract!WakeOnExit

\* While futex_lock is free nobody is about to link itself.
LEMMA FreeLinking ==
    /\ IInv /\ lock = NoTask => NobodyLinking
    /\ IInv' /\ lock' = NoTask => NobodyLinking'
  BY TasksAssumption DEF IInv, LockExact, NobodyLinking, Holding

\* A step of t leaves what other tasks do and hold alone.
OnlyActs(t) ==
    \A u \in Tasks \ {t} : pc'[u] = pc[u] /\ arg'[u] = arg[u] /\ ret'[u] = ret[u]

LEMMA OnlySeenActs ==
    ASSUME NEW t \in Tasks, OnlyActs(t)
    PROVE  OnlySeen(t)
  BY OthersUnseen DEF OnlyActs

\* Promised depends on each task's own state.
LEMMA PromisedKept ==
    ASSUME Promised, NEW t \in Tasks, OnlyActs(t),
           pc'[t] = "leave" => ret'[t] \in {0, EINTR, EFAULT, ETIMEDOUT},
           pc'[t] \in {"cmp", "wakeop"} => arg'[t].wake \in Counts
    PROVE  Promised'
  BY DEF Promised, OnlyActs

\* Who is blocked stays so when the queues stay and t neither takes nor leaves
\* the place between the comparison and the queue.
LEMMA BlockedStays ==
    ASSUME BlockedRight, BlockedRight', NEW t \in Tasks, OnlyActs(t), queue' = queue,
           \A u \in Tasks \ {t} : futex'[u] = futex[u], pc[t] # "enq", pc'[t] # "enq"
    PROVE  BlockedOn' = BlockedOn
  <1>1. ASSUME NEW u \in Tasks, NEW a \in Addrs
        PROVE  /\ (pc'[u] = "enq" /\ futex'[u] = a) <=> (pc[u] = "enq" /\ futex[u] = a)
               /\ u \in Range(queue'[a]) <=> u \in Range(queue[a])
    BY DEF OnlyActs
  <1>2. \A u \in Tasks : BlockedOn'[u] = BlockedOn[u]
    BY <1>1, BlockedSame
  <1> QED BY <1>2, Views

\* A step of t within the loop, or within a call that is no wait, shows nowhere.
LEMMA MoveStill ==
    ASSUME BlockedRight, BlockedRight', NEW t \in Tasks, OnlyActs(t), queue' = queue,
           \A u \in Tasks \ {t} : futex'[u] = futex[u],
           \/ pc[t] \in Waiting /\ pc'[t] \in Waiting /\ arg'[t] = arg[t]
           \/ /\ pc[t] \notin Waiting \cup {"ptr", "enq", "done"}
              /\ pc'[t] \notin Waiting \cup {"ptr", "enq", "done"}
    PROVE  UNCHANGED Contract!contractVars
  <1>1. pc[t] # "enq" /\ pc'[t] # "enq" /\ pc[t] # "done" /\ pc'[t] # "done"
    BY DEF Waiting, InLoop
  <1>2. WaitOf'[t] = WaitOf[t] /\ ResultOf'[t] = ResultOf[t]
    BY <1>1 DEF WaitOf, ResultOf
  <1> QED BY <1>1, <1>2, BlockedStays, OnlySeenActs, StillStep

\* A call that fails, or whose result is consumed.
LEMMA MoveFail ==
    ASSUME BlockedRight, BlockedRight', NEW t \in Tasks, OnlyActs(t), queue' = queue,
           \A u \in Tasks \ {t} : futex'[u] = futex[u],
           pc[t] \notin Waiting \cup {"ptr", "enq"}, pc'[t] \notin Waiting \cup {"ptr", "enq"},
           pc'[t] = "done" => ret'[t] \in {0, EAGAIN, EFAULT, EINVAL, ENOSYS}
    PROVE  Contract!Fail(t)
  <1>1. BlockedOn' = BlockedOn
    BY BlockedStays
  <1>2. WaitOf[t] = <<>> /\ WaitOf'[t] = <<>>
    BY DEF WaitOf
  <1>3. ResultOf'[t] \in {0, EAGAIN, EFAULT, EINVAL, ENOSYS}
    BY DEF ResultOf
  <1> QED BY <1>1, <1>2, <1>3, OnlySeenActs, FailStep

\* A wait that ends, by whatever way out.
LEMMA MoveFinish ==
    ASSUME BlockedRight, BlockedRight', NEW t \in Tasks, OnlyActs(t),
           pc[t] \in Waiting \cup {"enq"}, pc'[t] \notin Waiting \cup {"ptr", "enq"},
           pc'[t] = "done" => ret'[t] \in {0, EINTR, ENOMEM, EFAULT, ETIMEDOUT},
           \A u \in Tasks \ {t} : futex'[u] = futex[u],
           \A a \in Addrs : Range(queue'[a]) = Range(queue[a]) \ {t}
    PROVE  Contract!Finish(t)
  <1>1. WaitOf[t] # <<>> /\ WaitOf'[t] = <<>>
    BY DEF WaitOf
  <1>2. ResultOf'[t] \in {0, EINTR, ENOMEM, EFAULT, ETIMEDOUT}
    BY DEF ResultOf
  <1>3. BlockedOn'[t] = NoFutex
    BY DEF BlockedRight
  <1>4. ASSUME NEW u \in Tasks \ {t} PROVE BlockedOn'[u] = BlockedOn[u]
    <2>1. ASSUME NEW a \in Addrs
          PROVE  /\ (pc'[u] = "enq" /\ futex'[u] = a) <=> (pc[u] = "enq" /\ futex[u] = a)
                 /\ u \in Range(queue'[a]) <=> u \in Range(queue[a])
      BY <1>4 DEF OnlyActs
    <2> QED BY <2>1, BlockedSame
  <1> QED BY <1>1, <1>2, <1>3, <1>4, OnlySeenActs, FinishStep

\* What is proved of every step.
Implements == Promised' /\ (Contract!Next \/ UNCHANGED Contract!contractVars)

\* What every step below starts from.
LEMMA StepFacts ==
    ASSUME IInv, IInv', NEW t \in Tasks
    PROVE  /\ BlockedRight /\ BlockedRight' /\ TypeOK /\ QueueConsistent
           /\ pc \in [Tasks -> PCs] /\ arg \in [Tasks -> Args] /\ ret \in [Tasks -> Int]
           /\ futex \in [Tasks -> Addrs \cup {NoFutex}]
           /\ arg[t].addr \in Addrs /\ arg[t].addr2 \in Addrs /\ arg[t].val \in Values
           /\ arg[t].requeue \in Counts \cup {0} /\ NoArgs.wake = 0
  <1>1. BlockedRight /\ BlockedRight'
    BY BlockedWhen, BlockedAfter
  <1>2. /\ TypeOK /\ QueueConsistent
        /\ pc \in [Tasks -> PCs] /\ arg \in [Tasks -> Args] /\ ret \in [Tasks -> Int]
        /\ futex \in [Tasks -> Addrs \cup {NoFutex}]
    BY DEF IInv, TypeOK
  <1>3. arg[t] \in Args
    BY <1>2
  <1> QED BY <1>1, <1>2, <1>3 DEF Args, NoArgs

\* The tests of futex_wait before the loop: comparing and blocking are one step
\* of the contract, that of the load.
LEMMA LoadImplements ==
    ASSUME IInv, IInv', Promised, NEW t \in Tasks, FutexWaitLoad(t)
    PROVE  Implements
  <1>0. /\ BlockedRight /\ BlockedRight' /\ TypeOK
        /\ pc \in [Tasks -> PCs] /\ arg \in [Tasks -> Args] /\ ret \in [Tasks -> Int]
        /\ futex \in [Tasks -> Addrs \cup {NoFutex}]
        /\ arg[t].addr \in Addrs /\ arg[t].val \in Values
    BY StepFacts
  <1>1. PICK v \in Loads(arg[t].addr) :
          IF v # arg[t].val
          THEN Release(t) /\ Return(t, EAGAIN)
          ELSE Goto(t, "enq") /\ UNCHANGED <<lock, refcount, arg, futex, ret>>
    BY DEF FutexWaitLoad
  <1>2. pc[t] = "ptr" /\ queue' = queue
    BY DEF FutexWaitLoad
  <1>3. WaitOf[t] = <<arg[t].addr, arg[t].val>> /\ WaitOf[t] # <<>> /\ ResultOf[t] = 0
    BY <1>2 DEF WaitOf, ResultOf
  <1>4. WaitOf[t][1] = arg[t].addr /\ WaitOf[t][2] = arg[t].val
    BY <1>3
  <1>5. BlockedOn[t] = NoFutex
    BY <1>2 DEF BlockedOn, Waiting, InLoop
  <1>6. CASE v # arg[t].val
    <2>1. /\ Return(t, EAGAIN) /\ futex' = [futex EXCEPT ![t] = NoFutex]
      BY <1>1, <1>6 DEF Release
    <2>2. OnlyActs(t) /\ pc'[t] = "done" /\ \A u \in Tasks \ {t} : futex'[u] = futex[u]
      BY <1>0, <2>1 DEF OnlyActs, Return, Goto
    <2>3. OnlySeen(t) /\ WaitOf'[t] = <<>> /\ ResultOf'[t] = EAGAIN
      BY <1>0, <2>1, ReturnSeen
    <2>4. BlockedOn' = BlockedOn
      BY <1>0, <1>2, <2>2, BlockedStays
    <2>5. word[arg[t].addr] # arg[t].val
      BY <1>0, <1>1, <1>6, ValuesAssumption DEF Loads
    <2>6. Contract!Refuse(t)
      BY <1>3, <1>4, <1>5, <2>3, <2>4, <2>5, RefuseStep
    <2>7. Promised'
      BY <2>2, PromisedKept
    <2> QED BY <2>6, <2>7 DEF Implements, Contract!Next
  <1>7. CASE v = arg[t].val
    <2>1. /\ pc' = [pc EXCEPT ![t] = "enq"] /\ arg' = arg /\ futex' = futex /\ ret' = ret
      BY <1>1, <1>7 DEF Goto
    <2>2. OnlyActs(t) /\ pc'[t] = "enq"
      BY <1>0, <2>1 DEF OnlyActs
    <2>3. WaitOf'[t] = WaitOf[t] /\ ResultOf'[t] = ResultOf[t]
      BY <1>2, <2>1, <2>2 DEF WaitOf, ResultOf
    <2>4. futex[t] = arg[t].addr
      BY <1>2 DEF IInv, FutexHeld, Holding
    <2>5. BlockedOn'[t] = arg[t].addr
      BY <2>1, <2>2, <2>4 DEF BlockedOn
    <2>6. ASSUME NEW u \in Tasks \ {t} PROVE BlockedOn'[u] = BlockedOn[u]
      <3>1. ASSUME NEW a \in Addrs
            PROVE  /\ (pc'[u] = "enq" /\ futex'[u] = a) <=> (pc[u] = "enq" /\ futex[u] = a)
                   /\ u \in Range(queue'[a]) <=> u \in Range(queue[a])
        BY <1>2, <2>1, <2>2 DEF OnlyActs
      <3> QED BY <1>0, <3>1, BlockedSame
    <2>7. word[arg[t].addr] \in {arg[t].val, Unmapped}
      BY <1>1, <1>7 DEF Loads
    <2>8. Contract!Block(t)
      BY <1>3, <1>4, <1>5, <2>2, <2>3, <2>5, <2>6, <2>7, OnlySeenActs, BlockStep
    <2>9. Promised'
      BY <2>2, PromisedKept
    <2> QED BY <2>8, <2>9 DEF Implements, Contract!Next
  <1> QED BY <1>6, <1>7

\* Linking the waiter shows nowhere: it has been blocked since the load.
LEMMA EnqueueImplements ==
    ASSUME IInv, IInv', Promised, NEW t \in Tasks, FutexWaitEnqueue(t)
    PROVE  Implements
  <1>0. /\ BlockedRight /\ BlockedRight' /\ TypeOK /\ QueueConsistent
        /\ pc \in [Tasks -> PCs] /\ futex \in [Tasks -> Addrs \cup {NoFutex}]
    BY StepFacts
  <1>1. /\ pc[t] = "enq" /\ pc' = [pc EXCEPT ![t] = "sleep"]
        /\ queue' = [queue EXCEPT ![futex[t]] = Append(@, t)]
        /\ arg' = arg /\ ret' = ret /\ futex' = futex
    BY DEF FutexWaitEnqueue, Goto
  <1>2. OnlyActs(t) /\ pc'[t] = "sleep"
    BY <1>0, <1>1 DEF OnlyActs
  <1>3. /\ futex[t] \in Addrs /\ Linking(queue)
        /\ \A c \in Addrs : t \notin Range(queue[c])
    <2>1. futex[t] \in Addrs
      BY <1>0, <1>1 DEF IInv, FutexHeld, Holding
    <2>2. /\ Linking(queue)
          /\ \A c \in Addrs : \A u \in Range(queue[c]) : pc[u] \in Waiting
      BY <1>0, InvLinking
    <2> QED BY <1>1, <2>1, <2>2 DEF Waiting, InLoop
  <1>4. \A a \in Addrs : Range(queue'[a])
           = IF a = futex[t] THEN Range(queue[a]) \cup {t} ELSE Range(queue[a])
    <2>1. queue[futex[t]] \in Seq(Tasks) /\ NoRepeat(queue[futex[t]]) /\ queue \in Queues
      BY <1>3 DEF Linking, Queues
    <2>2. Range(Append(queue[futex[t]], t)) = Range(queue[futex[t]]) \cup {t}
      BY <1>3, <2>1, AppendLinks
    <2> QED BY <1>1, <1>3, <2>1, <2>2 DEF Queues
  <1>5. ASSUME NEW u \in Tasks PROVE BlockedOn'[u] = BlockedOn[u]
    <2>1. CASE u = t
      <3>1. BlockedOn[t] = futex[t]
        BY <1>0, <1>1, <1>3 DEF BlockedRight
      <3>2. t \in Range(queue'[futex[t]])
        BY <1>3, <1>4
      <3>3. BlockedOn'[t] = futex[t]
        BY <1>0, <1>3, <3>2 DEF BlockedRight
      <3> QED BY <2>1, <3>1, <3>3
    <2>2. CASE u # t
      <3>1. ASSUME NEW a \in Addrs
            PROVE  /\ (pc'[u] = "enq" /\ futex'[u] = a) <=> (pc[u] = "enq" /\ futex[u] = a)
                   /\ u \in Range(queue'[a]) <=> u \in Range(queue[a])
        <4>1. pc'[u] = pc[u] /\ futex'[u] = futex[u]
          BY <1>1, <1>2, <2>2 DEF OnlyActs
        <4>2. u \in Range(queue'[a]) <=> u \in Range(queue[a])
          <5>1. CASE a = futex[t]
            <6>1. Range(queue'[a]) = Range(queue[a]) \cup {t}
              BY <1>4, <5>1
            <6> QED BY <2>2, <6>1
          <5>2. CASE a # futex[t]
            BY <1>4, <5>2
          <5> QED BY <5>1, <5>2
        <4> QED BY <4>1, <4>2
      <3> QED BY <1>0, <3>1, BlockedSame
    <2> QED BY <2>1, <2>2
  <1>6. BlockedOn' = BlockedOn
    BY <1>5, Views
  <1>7. WaitOf'[t] = WaitOf[t] /\ ResultOf'[t] = ResultOf[t]
    BY <1>1, <1>2 DEF WaitOf, ResultOf, Waiting, InLoop
  <1>8. Promised'
    BY <1>2, PromisedKept
  <1> QED BY <1>2, <1>6, <1>7, <1>8, OnlySeenActs, StillStep DEF Implements

\* The steps of the loop are between blocking and the end of the wait; whether a
\* waker has been there is the waker's step.
LEMMA LoopImplements ==
    ASSUME IInv, IInv', Promised, NEW t \in Tasks,
           \/ FutexWaitWoken(t) \/ FutexWaitPoll(t) \/ FutexWaitDeadline(t)
           \/ FutexWaitRecheck(t) \/ FutexWaitReload(t) \/ SafetyValve(t)
    PROVE  Implements
  <1>0. /\ BlockedRight /\ BlockedRight'
        /\ pc \in [Tasks -> PCs] /\ ret \in [Tasks -> Int]
    BY StepFacts
  <1>1. pc[t] \in Waiting /\ queue' = queue /\ arg' = arg /\ futex' = futex
    BY DEF FutexWaitWoken, FutexWaitPoll, FutexWaitDeadline, FutexWaitRecheck,
           FutexWaitReload, SafetyValve, Waiting, InLoop
  <1>2. \/ \E r \in {0, EINTR, EFAULT, ETIMEDOUT} : Break(t, r)
        \/ (\E l \in InLoop : Goto(t, l)) /\ ret' = ret
    <2>1. CASE FutexWaitWoken(t)
      BY <2>1 DEF FutexWaitWoken
    <2>2. CASE FutexWaitPoll(t)
      BY <2>2 DEF FutexWaitPoll, InLoop
    <2>3. CASE FutexWaitDeadline(t)
      BY <2>3 DEF FutexWaitDeadline
    <2>4. CASE FutexWaitRecheck(t)
      BY <2>4 DEF FutexWaitRecheck, InLoop
    <2>5. CASE FutexWaitReload(t)
      BY <2>5 DEF FutexWaitReload, InLoop
    <2>6. CASE SafetyValve(t)
      BY <2>6 DEF SafetyValve, InLoop
    <2> QED BY <2>1, <2>2, <2>3, <2>4, <2>5, <2>6
  <1>3. /\ OnlyActs(t) /\ pc'[t] \in Waiting /\ pc'[t] \notin {"cmp", "wakeop"}
        /\ pc'[t] = "leave" => ret'[t] \in {0, EINTR, EFAULT, ETIMEDOUT}
    <2>1. CASE \E r \in {0, EINTR, EFAULT, ETIMEDOUT} : Break(t, r)
      BY <1>0, <1>1, <2>1 DEF Break, Goto, OnlyActs, Waiting
    <2>2. CASE (\E l \in InLoop : Goto(t, l)) /\ ret' = ret
      BY <1>0, <1>1, <2>2 DEF Goto, OnlyActs, Waiting, InLoop
    <2> QED BY <1>2, <2>1, <2>2
  <1>4. Promised'
    BY <1>3, PromisedKept
  <1> QED BY <1>0, <1>1, <1>3, <1>4, MoveStill DEF Implements

\* Every way out of futex_wait ends the wait in the same step that unlinks.
LEMMA LeaveImplements ==
    ASSUME IInv, IInv', Promised, NEW t \in Tasks,
           FutexWaitNoPipe(t) \/ SafetyValveUnlink(t) \/ FutexWaitDone(t)
    PROVE  Implements
  <1>0. /\ BlockedRight /\ BlockedRight' /\ TypeOK /\ QueueConsistent
        /\ pc \in [Tasks -> PCs] /\ arg \in [Tasks -> Args] /\ ret \in [Tasks -> Int]
        /\ futex \in [Tasks -> Addrs \cup {NoFutex}]
    BY StepFacts
  <1>1. /\ Linking(queue) /\ queue \in Queues
        /\ \A c \in Addrs : \A u \in Range(queue[c]) : pc[u] \in Waiting /\ futex[u] = c
    BY <1>0, InvLinking DEF Linking
  <1>2. /\ pc[t] \in Waiting \cup {"enq"}
        /\ \/ Goto(t, "endgroup") /\ ret' = ret
           \/ Goto(t, "done") /\ ret' = [ret EXCEPT ![t] = ENOMEM]
           \/ Goto(t, "done") /\ ret' = [ret EXCEPT ![t] = ret[t]] /\ pc[t] = "leave"
        /\ arg' = [arg EXCEPT ![t] = NoArgs]
        /\ futex' = [futex EXCEPT ![t] = NoFutex]
    BY DEF FutexWaitNoPipe, SafetyValveUnlink, FutexWaitDone, Return, SetArgs, Release, Unlink,
           Waiting, InLoop
  <1>3. /\ OnlyActs(t) /\ pc'[t] \in {"endgroup", "done"}
        /\ \A u \in Tasks \ {t} : futex'[u] = futex[u]
        /\ pc'[t] = "done" => ret'[t] \in {0, EINTR, ENOMEM, EFAULT, ETIMEDOUT}
    BY <1>0, <1>2 DEF Promised, OnlyActs, Goto
  <1>4. pc'[t] \notin Waiting \cup {"ptr", "enq", "leave", "cmp", "wakeop"}
    BY <1>3 DEF Waiting, InLoop
  <1>5. \A a \in Addrs : Range(queue'[a]) = Range(queue[a]) \ {t}
    <2>1. CASE FutexWaitNoPipe(t)
      <3>1. queue' = queue /\ pc[t] = "enq"
        BY <2>1 DEF FutexWaitNoPipe
      <3>2. \A c \in Addrs : t \notin Range(queue[c])
        BY <1>1, <3>1 DEF Waiting, InLoop
      <3> QED BY <3>1, <3>2
    <2>2. CASE SafetyValveUnlink(t) \/ FutexWaitDone(t)
      <3>1. queue' = [queue EXCEPT ![futex[t]] = Without(@, t)] /\ pc[t] \in Waiting
        BY <2>2 DEF SafetyValveUnlink, FutexWaitDone, Unlink, Waiting, InLoop
      <3>2. futex[t] \in Addrs
        BY <1>0, <3>1 DEF IInv, FutexHeld
      <3>3. Range(Without(queue[futex[t]], t)) = Range(queue[futex[t]]) \ {t}
        BY <1>1, <3>2, WithoutUnlinks DEF Linking, Queues
      <3>4. queue'[futex[t]] = Without(queue[futex[t]], t)
        BY <1>1, <3>1, <3>2 DEF Queues
      <3>5. \A a \in Addrs : a # futex[t] => queue'[a] = queue[a] /\ t \notin Range(queue[a])
        BY <1>1, <3>1, <3>2 DEF Queues
      <3>6. ASSUME NEW a \in Addrs PROVE Range(queue'[a]) = Range(queue[a]) \ {t}
        <4>1. CASE a = futex[t]
          BY <3>3, <3>4, <4>1
        <4>2. CASE a # futex[t]
          BY <3>5, <4>2
        <4> QED BY <4>1, <4>2
      <3> QED BY <3>6
    <2> QED BY <2>1, <2>2
  <1>6. Contract!Finish(t)
    BY <1>0, <1>2, <1>3, <1>4, <1>5, MoveFinish
  <1>7. Promised'
    BY <1>3, <1>4, PromisedKept
  <1> QED BY <1>6, <1>7 DEF Implements, Contract!Next

\* A step that stays out of the wait and fails, or shows nothing yet.
LEMMA OutsideImplements ==
    ASSUME BlockedRight, BlockedRight', Promised, NEW t \in Tasks, OnlyActs(t), queue' = queue,
           \A u \in Tasks \ {t} : futex'[u] = futex[u],
           pc[t] \notin Waiting \cup {"ptr", "enq"}, pc'[t] \notin Waiting \cup {"ptr", "enq"},
           pc'[t] = "done" => ret'[t] \in {0, EAGAIN, EFAULT, EINVAL, ENOSYS},
           pc'[t] \in {"cmp", "wakeop"} => arg'[t].wake \in Counts
    PROVE  Implements
  <1>1. Contract!Fail(t)
    BY MoveFail
  <1>2. Promised'
    BY PromisedKept DEF Waiting
  <1> QED BY <1>1, <1>2 DEF Implements, Contract!Next

\* A call that returns keeps the promises of the others.
LEMMA ReturnPromised ==
    ASSUME TypeOK, Promised, NEW t \in Tasks, NEW r, Return(t, r)
    PROVE  Promised' /\ OnlyActs(t) /\ pc'[t] = "done" /\ ret'[t] = r
  <1>1. /\ pc \in [Tasks -> PCs] /\ ret \in [Tasks -> Int] /\ arg \in [Tasks -> Args]
        /\ pc' = [pc EXCEPT ![t] = "done"] /\ arg' = [arg EXCEPT ![t] = NoArgs]
        /\ ret' = [ret EXCEPT ![t] = r]
    BY DEF TypeOK, Return, Goto
  <1>2. OnlyActs(t) /\ pc'[t] = "done" /\ ret'[t] = r
    BY <1>1 DEF OnlyActs
  <1>3. Promised'
    BY <1>2, PromisedKept
  <1> QED BY <1>2, <1>3

\* Wake and requeue, under the lock the call takes or has.
LEMMA WakeImplements ==
    ASSUME IInv, IInv', Promised, NEW t \in Tasks, NobodyLinking, lock' = NoTask,
           pc[t] \in {"run", "cmp"},
           NEW a \in Addrs, NEW b \in Addrs, NEW n \in Counts, NEW m \in Counts \cup {0},
           NEW rc, WakeAndRequeue(t, rc, a, n, b, m)
    PROVE  Implements
  <1>0. BlockedRight /\ BlockedRight' /\ TypeOK /\ QueueConsistent /\ NobodyLinking'
    BY StepFacts, FreeLinking
  <1>1. WaitOf[t] = <<>> /\ pc[t] \notin Waiting
    BY DEF WaitOf, Waiting, InLoop
  <1>2. Contract!WakeRequeue(t)
    BY <1>0, <1>1, WakeRequeueStep
  <1>3. PICK r : Return(t, r)
    BY DEF WakeAndRequeue
  <1>4. Promised'
    BY <1>0, <1>3, ReturnPromised
  <1> QED BY <1>2, <1>4 DEF Implements, Contract!Next

\* The second half of futex_cmp_requeue.
LEMMA CmpRequeueImplements ==
    ASSUME IInv, IInv', Promised, NEW t \in Tasks, FutexCmpRequeue(t)
    PROVE  Implements
  <1>0. /\ BlockedRight /\ BlockedRight' /\ TypeOK
        /\ futex \in [Tasks -> Addrs \cup {NoFutex}]
        /\ arg[t].addr \in Addrs /\ arg[t].addr2 \in Addrs
        /\ arg[t].requeue \in Counts \cup {0}
    BY StepFacts
  <1>1. PICK v \in Loads(arg[t].addr) :
          IF v # arg[t].val
          THEN Release(t) /\ Return(t, EAGAIN) /\ UNCHANGED <<queue, pipe>>
          ELSE /\ lock' = NoTask
               /\ WakeAndRequeue(t, Put(refcount, arg[t].addr), arg[t].addr, arg[t].wake,
                                 arg[t].addr2, arg[t].requeue)
    BY DEF FutexCmpRequeue
  <1>2. pc[t] = "cmp" /\ arg[t].wake \in Counts
    BY DEF FutexCmpRequeue, Promised
  <1>3. NobodyLinking
    BY <1>2, TasksAssumption DEF IInv, LockExact, NobodyLinking, Holding
  <1>4. CASE v # arg[t].val
    <2>1. /\ Return(t, EAGAIN) /\ queue' = queue /\ futex' = [futex EXCEPT ![t] = NoFutex]
      BY <1>1, <1>4 DEF Release
    <2>2. OnlyActs(t) /\ pc'[t] = "done" /\ ret'[t] = EAGAIN
      BY <1>0, <2>1, ReturnPromised
    <2>3. \A u \in Tasks \ {t} : futex'[u] = futex[u]
      BY <1>0, <2>1
    <2> QED BY <1>0, <1>2, <2>1, <2>2, <2>3, OutsideImplements DEF Waiting, InLoop
  <1>5. CASE v = arg[t].val
    <2>1. /\ lock' = NoTask
          /\ WakeAndRequeue(t, Put(refcount, arg[t].addr), arg[t].addr, arg[t].wake,
                            arg[t].addr2, arg[t].requeue)
      BY <1>1, <1>5
    <2> QED BY <1>0, <1>2, <1>3, <2>1, WakeImplements
  <1> QED BY <1>4, <1>5

\* wake_op, and the wake of thread exit.
LEMMA NotifyImplements ==
    ASSUME IInv, IInv', Promised, NEW t \in Tasks, FutexWakeOp(t) \/ ExitWake(t)
    PROVE  Implements
  <1>0. /\ BlockedRight /\ BlockedRight' /\ TypeOK /\ QueueConsistent
        /\ pc \in [Tasks -> PCs] /\ arg \in [Tasks -> Args] /\ ret \in [Tasks -> Int]
        /\ arg[t].addr \in Addrs /\ arg[t].addr2 \in Addrs
        /\ arg[t].requeue \in Counts \cup {0}
    BY StepFacts
  <1>1. NobodyLinking /\ NobodyLinking'
    <2>1. lock = NoTask /\ lock' = NoTask
      BY DEF FutexWakeOp, ExitWake
    <2> QED BY <2>1, FreeLinking
  <1>2. CASE FutexWakeOp(t)
    <2> DEFINE a == arg[t].addr
               b == arg[t].addr2
               n == arg[t].wake
               m == IF arg[t].both THEN arg[t].requeue ELSE 0
               q == Dequeue(queue, a, n)
    <2>1. /\ pc[t] = "wakeop" /\ queue' = Dequeue(q, b, m)
          /\ Return(t, Len(Taken(queue, a, n)) + Len(Taken(q, b, m)))
      BY <1>2 DEF FutexWakeOp
    <2>2. n \in Counts /\ m \in Counts \cup {0} /\ a \in Addrs /\ b \in Addrs
      BY <1>0, <2>1 DEF Promised
    <2>3. WaitOf[t] = <<>>
      BY <2>1 DEF WaitOf, Waiting, InLoop
    <2>4. Promised'
      BY <1>0, <2>1, ReturnPromised
    <2>5. q = Dequeue(queue, a, n)
      OBVIOUS
    <2> HIDE DEF a, b, n, m, q
    <2>6. Contract!WakeTwo(t)
      BY <1>0, <1>1, <2>1, <2>2, <2>3, <2>5, WakeTwoStep
    <2> QED BY <2>4, <2>6 DEF Implements, Contract!Next
  <1>3. CASE ExitWake(t)
    <2>1. /\ pc[t] = "exiting" /\ queue' = Dequeue(queue, arg[t].addr, 1)
          /\ pc' = [pc EXCEPT ![t] = "gone"] /\ arg' = [arg EXCEPT ![t] = NoArgs] /\ ret' = ret
      BY <1>3 DEF ExitWake, Goto, SetArgs
    <2>2. OnlyActs(t) /\ pc'[t] = "gone"
      BY <1>0, <2>1 DEF OnlyActs
    <2>3. WaitOf'[t] = WaitOf[t] /\ ResultOf'[t] = ResultOf[t]
      BY <2>1, <2>2 DEF WaitOf, ResultOf, Waiting, InLoop
    <2>4. WaitOf' = WaitOf /\ ResultOf' = ResultOf
      BY <2>2, <2>3, OnlySeenActs, Views DEF OnlySeen
    <2>5. Contract!WakeOnExit
      BY <1>0, <1>1, <2>1, <2>4, WakeOnExitStep
    <2>6. Promised'
      BY <2>2, PromisedKept
    <2> QED BY <2>5, <2>6 DEF Implements, Contract!Next
  <1> QED BY <1>2, <1>3

\* The start of a wait.
LEMMA WaitGetImplements ==
    ASSUME IInv, IInv', Promised, NEW t \in Tasks, NEW a \in Addrs, NEW v \in Values,
           NEW timed \in BOOLEAN, FutexWaitGet(t, a, v, timed)
    PROVE  Implements
  <1>0. /\ BlockedRight /\ BlockedRight' /\ TypeOK
        /\ pc \in [Tasks -> PCs] /\ arg \in [Tasks -> Args]
        /\ futex \in [Tasks -> Addrs \cup {NoFutex}]
    BY StepFacts
  <1>1. pc[t] = "run" /\ queue' = queue
    BY DEF FutexWaitGet
  <1>2. CASE word[a] = Unmapped
    <2>1. Return(t, EFAULT) /\ futex' = futex
      BY <1>2 DEF FutexWaitGet
    <2>2. OnlyActs(t) /\ pc'[t] = "done" /\ ret'[t] = EFAULT
      BY <1>0, <2>1, ReturnPromised
    <2> QED BY <1>0, <1>1, <2>1, <2>2, OutsideImplements DEF Waiting, InLoop
  <1>3. CASE word[a] # Unmapped
    <2> DEFINE x == [NoArgs EXCEPT !.addr = a, !.val = v, !.timed = timed]
    <2>1. /\ pc' = [pc EXCEPT ![t] = "ptr"] /\ ret' = ret /\ arg' = [arg EXCEPT ![t] = x]
          /\ futex' = [futex EXCEPT ![t] = a]
      BY <1>3 DEF FutexWaitGet, Goto, SetArgs
    <2>2. x.addr = a /\ x.val = v
      BY DEF NoArgs
    <2> HIDE DEF x
    <2>3. /\ OnlyActs(t) /\ pc'[t] = "ptr" /\ arg'[t] = x
          /\ \A u \in Tasks \ {t} : futex'[u] = futex[u]
      BY <1>0, <2>1 DEF OnlyActs
    <2>4. /\ WaitOf[t] = <<>> /\ ResultOf[t] = 0 /\ ResultOf'[t] = 0
          /\ WaitOf'[t] = <<a, v>>
      BY <1>1, <2>2, <2>3 DEF WaitOf, ResultOf, Waiting, InLoop
    <2>5. BlockedOn' = BlockedOn
      BY <1>0, <1>1, <2>3, BlockedStays
    <2>6. Contract!Begin(t)
      <3>1. OnlySeen(t)
        BY <2>3, OnlySeenActs
      <3>2. WaitOf'[t] \in Addrs \X Values
        BY <2>4
      <3> QED BY <2>4, <2>5, <3>1, <3>2, BeginStep
    <2>7. Promised'
      BY <2>3, PromisedKept
    <2> QED BY <2>6, <2>7 DEF Implements, Contract!Next
  <1> QED BY <1>2, <1>3

\* The start of a compare-and-requeue, or its failure.
LEMMA CmpGetImplements ==
    ASSUME IInv, IInv', Promised, NEW t \in Tasks, NEW a \in Addrs, NEW b \in Addrs,
           NEW n \in Counts, NEW m \in Counts, NEW v \in Values,
           FutexCmpRequeueGet(t, a, n, b, m, v)
    PROVE  Implements
  <1>0. /\ BlockedRight /\ BlockedRight' /\ TypeOK
        /\ pc \in [Tasks -> PCs] /\ arg \in [Tasks -> Args]
        /\ futex \in [Tasks -> Addrs \cup {NoFutex}]
    BY StepFacts
  <1>1. pc[t] = "run" /\ queue' = queue
    BY DEF FutexCmpRequeueGet
  <1>2. CASE word[a] = Unmapped
    <2>1. Return(t, EFAULT) /\ futex' = futex
      BY <1>2 DEF FutexCmpRequeueGet
    <2>2. OnlyActs(t) /\ pc'[t] = "done" /\ ret'[t] = EFAULT
      BY <1>0, <2>1, ReturnPromised
    <2> QED BY <1>0, <1>1, <2>1, <2>2, OutsideImplements DEF Waiting, InLoop
  <1>3. CASE word[a] # Unmapped
    <2> DEFINE x == [NoArgs EXCEPT !.addr = a, !.wake = n, !.addr2 = b,
                                   !.requeue = m, !.val = v]
    <2>1. /\ pc' = [pc EXCEPT ![t] = "cmp"] /\ ret' = ret /\ arg' = [arg EXCEPT ![t] = x]
          /\ futex' = [futex EXCEPT ![t] = a]
      BY <1>3 DEF FutexCmpRequeueGet, Goto, SetArgs
    <2>2. x.wake = n
      BY DEF NoArgs
    <2> HIDE DEF x
    <2>3. /\ OnlyActs(t) /\ pc'[t] = "cmp" /\ arg'[t].wake \in Counts
          /\ \A u \in Tasks \ {t} : futex'[u] = futex[u]
      BY <1>0, <2>1, <2>2 DEF OnlyActs
    <2> QED BY <1>0, <1>1, <2>3, OutsideImplements DEF Waiting, InLoop
  <1> QED BY <1>2, <1>3

\* The read-modify-write of a wake_op.
LEMMA ModifyImplements ==
    ASSUME IInv, IInv', Promised, NEW t \in Tasks, NEW a \in Addrs, NEW b \in Addrs,
           NEW n \in Counts, NEW m \in Counts, NEW v \in Values, NEW w \in Values,
           FutexWakeOpModify(t, a, n, b, m, v, w)
    PROVE  Implements
  <1>0. /\ BlockedRight /\ BlockedRight' /\ TypeOK
        /\ pc \in [Tasks -> PCs] /\ arg \in [Tasks -> Args]
    BY StepFacts
  <1> DEFINE x == [NoArgs EXCEPT !.addr = a, !.wake = n, !.addr2 = b,
                                 !.requeue = m, !.both = (word[b] = w)]
  <1>1. /\ pc[t] = "run" /\ queue' = queue /\ futex' = futex
        /\ \/ Return(t, EFAULT)
           \/ Return(t, ENOSYS)
           \/ /\ pc' = [pc EXCEPT ![t] = "wakeop"] /\ ret' = ret
              /\ arg' = [arg EXCEPT ![t] = x]
    BY DEF FutexWakeOpModify, Goto, SetArgs
  <1>2. x.wake = n
    BY DEF NoArgs
  <1> HIDE DEF x
  <1>3. ASSUME NEW e \in {EFAULT, ENOSYS}, Return(t, e) PROVE Implements
    <2>1. OnlyActs(t) /\ pc'[t] = "done" /\ ret'[t] = e
      BY <1>0, <1>3, ReturnPromised
    <2> QED BY <1>0, <1>1, <2>1, OutsideImplements DEF Waiting, InLoop
  <1>4. CASE /\ pc' = [pc EXCEPT ![t] = "wakeop"] /\ ret' = ret
             /\ arg' = [arg EXCEPT ![t] = x]
    <2>1. OnlyActs(t) /\ pc'[t] = "wakeop" /\ arg'[t].wake \in Counts
      BY <1>0, <1>2, <1>4 DEF OnlyActs
    <2> QED BY <1>0, <1>1, <2>1, OutsideImplements DEF Waiting, InLoop
  <1> QED BY <1>1, <1>3, <1>4

\* Every call the guest makes.
LEMMA CallImplements ==
    ASSUME IInv, IInv', Promised, NEW t \in Tasks, Call(t)
    PROVE  Implements
  <1>0. BlockedRight /\ BlockedRight' /\ TypeOK
    BY StepFacts
  <1>1. ASSUME NEW a \in Addrs, NEW v \in Values, NEW timed \in BOOLEAN,
               FutexWaitGet(t, a, v, timed)
        PROVE  Implements
    BY <1>1, WaitGetImplements
  <1>2. ASSUME NEW a \in Addrs, NEW n \in Counts, FutexWake(t, a, n) PROVE Implements
    <2>1. /\ pc[t] = "run" /\ lock = NoTask /\ lock' = NoTask
          /\ WakeAndRequeue(t, refcount, a, n, a, 0)
      BY <1>2 DEF FutexWake
    <2>2. NobodyLinking
      BY <2>1, FreeLinking
    <2> QED BY <2>1, <2>2, WakeImplements
  <1>3. ASSUME NEW a \in Addrs, NEW b \in Addrs, NEW n \in Counts, NEW m \in Counts,
               FutexRequeue(t, a, n, b, m)
        PROVE  Implements
    <2>1. /\ pc[t] = "run" /\ lock = NoTask /\ lock' = NoTask
          /\ WakeAndRequeue(t, refcount, a, n, b, m)
      BY <1>3 DEF FutexRequeue
    <2>2. NobodyLinking
      BY <2>1, FreeLinking
    <2> QED BY <2>1, <2>2, WakeImplements
  <1>4. ASSUME NEW a \in Addrs, NEW b \in Addrs, NEW n \in Counts, NEW m \in Counts,
               NEW v \in Values, FutexCmpRequeueGet(t, a, n, b, m, v)
        PROVE  Implements
    BY <1>4, CmpGetImplements
  <1>5. ASSUME NEW a \in Addrs, NEW b \in Addrs, NEW n \in Counts, NEW m \in Counts,
               NEW v \in Values, NEW w \in Values, FutexWakeOpModify(t, a, n, b, m, v, w)
        PROVE  Implements
    BY <1>5, ModifyImplements
  <1>6. CASE FutexBad(t)
    <2>1. PICK e \in {EINVAL, ENOSYS, EFAULT} : Return(t, e)
      BY <1>6 DEF FutexBad
    <2>2. OnlyActs(t) /\ pc'[t] = "done" /\ ret'[t] = e
      BY <1>0, <2>1, ReturnPromised
    <2>3. pc[t] = "run" /\ queue' = queue /\ futex' = futex
      BY <1>6 DEF FutexBad
    <2> QED BY <1>0, <2>2, <2>3, OutsideImplements DEF Waiting, InLoop
  <1> QED BY <1>1, <1>2, <1>3, <1>4, <1>5, <1>6 DEF Call

\* A step that touches neither calls nor queues shows nowhere.
LEMMA QuietImplements ==
    ASSUME Promised, UNCHANGED <<pc, arg, ret, queue, futex>>
    PROVE  Implements
  <1>1. WaitOf' = WaitOf /\ BlockedOn' = BlockedOn /\ ResultOf' = ResultOf
    BY DEF WaitOf, BlockedOn, ResultOf
  <1>2. Promised'
    BY DEF Promised
  <1> QED BY <1>1, <1>2 DEF Implements, Contract!contractVars

\* What the guest and its threads' exits do.
LEMMA GuestImplements ==
    ASSUME IInv, IInv', Promised, NEW t \in Tasks, Guest(t) \/ Exit(t)
    PROVE  Implements
  <1>0. /\ BlockedRight /\ BlockedRight'
        /\ pc \in [Tasks -> PCs] /\ arg \in [Tasks -> Args] /\ ret \in [Tasks -> Int]
    BY StepFacts
  <1>1. CASE GuestResume(t)
    <2>1. /\ pc[t] = "done" /\ pc' = [pc EXCEPT ![t] = "run"] /\ ret' = [ret EXCEPT ![t] = 0]
          /\ arg' = arg /\ queue' = queue /\ futex' = futex
      BY <1>1 DEF GuestResume, Goto
    <2>2. OnlyActs(t) /\ pc'[t] = "run"
      BY <1>0, <2>1 DEF OnlyActs
    <2> QED BY <1>0, <2>1, <2>2, OutsideImplements DEF Waiting, InLoop
  <1>2. ASSUME \/ \E a \in Addrs, v \in Values : GuestStore(t, a, v)
               \/ \E a \in Addrs : GuestMap(t, a)
               \/ \E u \in Tasks : GuestSignal(t, u)
               \/ GuestFork(t)
        PROVE  Implements
    <2>1. UNCHANGED <<pc, arg, ret, queue, futex>>
      BY <1>2 DEF GuestStore, GuestMap, GuestSignal, GuestFork
    <2> QED BY <2>1, QuietImplements
  <1>3. ASSUME NEW a \in Addrs, ExitClear(t, a) PROVE Implements
    <2>1. /\ pc[t] \in {"dying", "run", "done"}
          /\ \E l \in {"gone", "exiting"} : pc' = [pc EXCEPT ![t] = l]
          /\ ret' = [ret EXCEPT ![t] = 0] /\ queue' = queue /\ futex' = futex
          /\ arg' = arg \/ \E x : arg' = [arg EXCEPT ![t] = x]
      BY <1>3 DEF ExitClear, Goto, SetArgs
    <2>2. OnlyActs(t) /\ pc'[t] \in {"gone", "exiting"}
      BY <1>0, <2>1 DEF OnlyActs
    <2> QED BY <1>0, <2>1, <2>2, OutsideImplements DEF Waiting, InLoop
  <1>4. CASE ExitGroup(t)
    <2>1. /\ pc[t] \in {"endgroup", "run"} /\ pc' = [pc EXCEPT ![t] = "dying"]
          /\ ret' = ret /\ arg' = arg /\ queue' = queue /\ futex' = futex
      BY <1>4 DEF ExitGroup, Goto
    <2>2. OnlyActs(t) /\ pc'[t] = "dying"
      BY <1>0, <2>1 DEF OnlyActs
    <2> QED BY <1>0, <2>1, <2>2, OutsideImplements DEF Waiting, InLoop
  <1> QED BY <1>1, <1>2, <1>3, <1>4 DEF Guest, Exit

\* The contract's initial states, and its steps.
LEMMA InitContract == Init => Contract!Init
  <1> SUFFICES ASSUME Init PROVE Contract!Init
    OBVIOUS
  <1>1. \A u \in Tasks : WaitOf[u] = <<>> /\ BlockedOn[u] = NoFutex /\ ResultOf[u] = 0
    BY DEF Init, WaitOf, BlockedOn, ResultOf, Waiting, InLoop
  <1> QED BY <1>1, Views DEF Contract!Init

LEMMA NextContract == IInv /\ IInv' /\ Promised /\ [Next]_vars => Implements
  <1> SUFFICES ASSUME IInv, IInv', Promised, [Next]_vars PROVE Implements
    OBVIOUS
  <1>1. ASSUME NEW t \in Tasks, Inside(t) PROVE Implements
    BY <1>1, LoadImplements, LeaveImplements, EnqueueImplements, LoopImplements,
       CmpRequeueImplements DEF Inside
  <1>2. ASSUME NEW t \in Tasks, Locking(t) PROVE Implements
    BY <1>2, LeaveImplements, NotifyImplements DEF Locking
  <1>3. ASSUME NEW t \in Tasks, FutexWaitDeadline(t) PROVE Implements
    BY <1>3, LoopImplements
  <1>4. ASSUME NEW t \in Tasks, Call(t) PROVE Implements
    BY <1>4, CallImplements
  <1>5. ASSUME NEW t \in Tasks, Guest(t) \/ Exit(t) PROVE Implements
    BY <1>5, GuestImplements
  <1>6. CASE ChildrenExit
    BY <1>6, QuietImplements DEF ChildrenExit
  <1>7. CASE UNCHANGED vars
    BY <1>7, QuietImplements DEF vars
  <1> QED BY <1>1, <1>2, <1>3, <1>4, <1>5, <1>6, <1>7 DEF Next

\* At first nobody leaves a wait and no call is in progress.
LEMMA InitPromised == Init => Promised
  BY DEF Init, Promised

\* The errors futex_wait ends with, and the counts of the calls in progress, are
\* those the contract allows.
THEOREM PromiseKept == Spec => []Promised
  <1>1. IInv /\ IInv' /\ Promised /\ [Next]_vars => Promised'
    BY NextContract DEF Implements
  <1> QED BY <1>1, InitPromised, InvariantHolds, PTL DEF Spec

\* The futex calls keep their contract, for every number of threads, addresses,
\* values and counts: comparing and blocking is one step for the guest, a wake
\* takes exactly as many threads as are there, up to the number asked for, and
\* whoever is woken, moved or released was blocked.
THEOREM ContractKept == Spec => ContractHolds
  <1>1. IInv /\ IInv' /\ Promised /\ [Next]_vars => [Contract!Next]_(Contract!contractVars)
    BY NextContract DEF Implements
  <1>2. Spec => Contract!Init /\ [][Contract!Next]_(Contract!contractVars)
    BY <1>1, InitContract, InvariantHolds, PromiseKept, PTL DEF Spec
  <1> QED BY <1>2 DEF ContractHolds, Contract!Spec

=============================================================================
