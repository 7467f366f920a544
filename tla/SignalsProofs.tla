--------------------------- MODULE SignalsProofs ---------------------------
(***************************************************************************)
(* Proofs about Signals for any number of threads, any signals, masks and  *)
(* actions, and any number of signals sent.                                *)
(***************************************************************************)
EXTENDS Signals, FiniteSetTheorems, SequenceTheorems, WellFoundedInduction, TLAPS

-----------------------------------------------------------------------------
(***************************************************************************)
(* Induction over positions.  receive_signals is a loop over the queue, and *)
(* what holds after it is proved entry by entry.                           *)
(***************************************************************************)

\* A set of natural numbers that has a member has a least one.
LEMMA LeastMember ==
    ASSUME NEW S \in SUBSET Nat, S # {}
    PROVE  \E n \in S : \A m \in S : n <= m
  <1>1. PICK x \in S : \A y \in S : ~ (<<y, x>> \in OpToRel(<, Nat))
    BY NatLessThanWellFounded, WFMin
  <1>2. ASSUME NEW y \in S PROVE x <= y
    <2>1. x \in Nat /\ y \in Nat
      OBVIOUS
    <2>2. ~ (y < x)
      BY <1>1, <2>1 DEF OpToRel
    <2> QED BY <2>1, <2>2
  <1> QED BY <1>2

\* A set that has 0 and with each number below n the next one has all up to n.
LEMMA CountUp ==
    ASSUME NEW n \in Nat, NEW S, 0 \in S, \A i \in 0 .. n - 1 : i \in S => i + 1 \in S
    PROVE  \A i \in 0 .. n : i \in S
  <1> DEFINE T == {i \in 0 .. n : i \notin S}
  <1> SUFFICES ASSUME T # {} PROVE FALSE
    OBVIOUS
  <1>0. T \in SUBSET Nat
    OBVIOUS
  <1>1. PICK k \in T : \A m \in T : k <= m
    BY <1>0, LeastMember
  <1>2. k # 0 /\ k - 1 \in 0 .. n - 1 /\ k - 1 \notin T
    BY <1>1
  <1> QED BY <1>1, <1>2

\* The walk over the queue up to its n-th entry is a function.
Entry(t, after, i) ==
    IF i = 0 THEN Start(t) ELSE Receive1(t, Skipped(t), after[i - 1], queue[t][i])
WalkTo(t, n, after) == after = [i \in 0 .. n |-> Entry(t, after, i)]

LEMMA WalkExists ==
    ASSUME NEW t, NEW n \in Nat
    PROVE  \E after : WalkTo(t, n, after)
  <1> DEFINE S == {i \in Nat : \E after : WalkTo(t, i, after)}
  <1>1. 0 \in S
    <2>1. WalkTo(t, 0, [i \in 0 .. 0 |-> Start(t)])
      BY DEF WalkTo, Entry
    <2> QED BY <2>1
  <1>2. ASSUME NEW i \in 0 .. n - 1, i \in S PROVE i + 1 \in S
    <2>1. PICK f : WalkTo(t, i, f)
      BY <1>2
    <2> DEFINE g == [j \in 0 .. i + 1 |-> IF j = i + 1 THEN Entry(t, f, j) ELSE f[j]]
    <2>2. ASSUME NEW j \in 0 .. i + 1 PROVE g[j] = Entry(t, g, j)
      <3>1. CASE j = i + 1
        <4>1. g[j] = Entry(t, f, j) /\ g[j - 1] = f[j - 1]
          BY <3>1
        <4> QED BY <4>1 DEF Entry
      <3>2. CASE j # i + 1
        <4>1. j \in 0 .. i /\ g[j] = f[j] /\ (j # 0 => g[j - 1] = f[j - 1])
          BY <3>2
        <4>2. f[j] = Entry(t, f, j)
          BY <2>1, <4>1 DEF WalkTo
        <4> QED BY <4>1, <4>2 DEF Entry
      <3> QED BY <3>1, <3>2
    <2>3. DOMAIN g = 0 .. i + 1
      OBVIOUS
    <2>4. g = [j \in 0 .. i + 1 |-> g[j]]
      OBVIOUS
    <2> HIDE DEF g
    <2>5. WalkTo(t, i + 1, g)
      BY <2>2, <2>4 DEF WalkTo
    <2> QED BY <2>5
  <1> HIDE DEF S
  <1>3. n \in S
    BY <1>1, <1>2, CountUp
  <1> QED BY <1>3 DEF S

\* The loop of receive_signals, entry by entry.
LEMMA WalkSteps ==
    ASSUME NEW t, Len(queue[t]) \in Nat
    PROVE  /\ Walk(t)[0] = Start(t)
           /\ \A i \in 0 .. Len(queue[t]) - 1 :
                Walk(t)[i + 1] = Receive1(t, Skipped(t), Walk(t)[i], queue[t][i + 1])
  <1> DEFINE w == Walk(t)
  <1>1. WalkTo(t, Len(queue[t]), w)
    BY WalkExists DEF Walk, WalkTo, Entry
  <1>2. \A i \in 0 .. Len(queue[t]) : w[i] = Entry(t, w, i)
    BY <1>1 DEF WalkTo
  <1> QED BY <1>2 DEF Entry

-----------------------------------------------------------------------------
(***************************************************************************)
(* One turn of the loop.                                                   *)
(***************************************************************************)

\* What the loop works on, but for the counts in owed.
RunState ==
    [action : [Sigs -> SigAction], stopped : BOOLEAN, killed : BOOLEAN, stuck : BOOLEAN,
     pending : SUBSET Sigs, queue : Seq(Sigs), blocked : SUBSET Sigs, asked : SUBSET Sigs,
     frames : Seq(Frame), resume : {"user", "read"}, restart : BOOLEAN, temp : BOOLEAN,
     owed : [RealTime -> Int]]

\* An entry that is left, and one that is taken off.
Left(mask, st, s) == st.killed \/ st.stuck \/ s \in mask
Took(st, s) ==
    [st EXCEPT !.pending = @ \ {s},
               !.owed = IF s \in RealTime THEN [st.owed EXCEPT ![s] = @ - 1] ELSE @]

LEMMA TookFields ==
    ASSUME NEW st \in RunState, NEW s \in Sigs
    PROVE  /\ Took(st, s) \in RunState
           /\ Took(st, s).pending = st.pending \ {s}
           /\ Took(st, s).owed \in [RealTime -> Int]
           /\ \A r \in RealTime : Took(st, s).owed[r] = st.owed[r] - (IF r = s THEN 1 ELSE 0)
           /\ Took(st, s).queue = st.queue /\ Took(st, s).frames = st.frames
           /\ Took(st, s).blocked = st.blocked /\ Took(st, s).asked = st.asked
           /\ Took(st, s).killed = st.killed /\ Took(st, s).stuck = st.stuck
           /\ Took(st, s).action = st.action
  <1> DEFINE o == IF s \in RealTime THEN [st.owed EXCEPT ![s] = @ - 1] ELSE st.owed
  <1>1. /\ o \in [RealTime -> Int]
        /\ \A r \in RealTime : o[r] = st.owed[r] - (IF r = s THEN 1 ELSE 0)
    <2>1. st.owed \in [RealTime -> Int]
      BY DEF RunState
    <2> QED BY <2>1
  <1>2. Took(st, s) = [st EXCEPT !.pending = st.pending \ {s}, !.owed = o]
    <2>1. CASE s \in RealTime
      BY <2>1 DEF Took, RunState
    <2>2. CASE s \notin RealTime
      BY <2>2 DEF Took, RunState
    <2> QED BY <2>1, <2>2
  <1> HIDE DEF o
  <1>3. st.pending \ {s} \in SUBSET Sigs
    BY DEF RunState
  <1>4. Took(st, s) \in RunState
    BY <1>1, <1>2, <1>3 DEF RunState
  <1>5. /\ Took(st, s).pending = st.pending \ {s}
        /\ Took(st, s).owed = o
        /\ Took(st, s).queue = st.queue /\ Took(st, s).frames = st.frames
        /\ Took(st, s).blocked = st.blocked /\ Took(st, s).asked = st.asked
        /\ Took(st, s).killed = st.killed /\ Took(st, s).stuck = st.stuck
        /\ Took(st, s).action = st.action
    BY <1>2 DEF RunState
  <1> QED BY <1>1, <1>4, <1>5

\* The handler's part of a new mask, and the frame pushed for it.
Widened(a, s) == a.mask \cup (IF a.nodefer THEN {} ELSE {s})
FrameOf(st, s) ==
    [sig |-> s, mask |-> st.blocked, believed |-> st.asked,
     resume |-> IF st.action[s].restart /\ st.restart THEN "read" ELSE st.resume,
     temp |-> st.temp]

\* What of the state such a turn leaves alone, and what pushing a frame does.
SameQueue(st, end) ==
    end.queue = st.queue /\ end.pending = st.pending /\ end.owed = st.owed
SameMask(st, end) ==
    end.frames = st.frames /\ end.blocked = st.blocked /\ end.asked = st.asked
Pushes(st, end, s) ==
    \E m \in SUBSET Sigs :
        /\ end.frames = Append(st.frames, FrameOf(st, s))
        /\ end.blocked = st.blocked \cup m /\ end.asked = st.asked \cup m

LEMMA FramedFields ==
    ASSUME NEW t, NEW st \in RunState, NEW s \in Sigs
    PROVE  /\ Framed(t, s, st) \in RunState
           /\ SameQueue(st, Framed(t, s, st))
           /\ SameMask(st, Framed(t, s, st)) \/ Pushes(st, Framed(t, s, st), s)
  <1> DEFINE a == st.action[s]
             m == Widened(a, s)
             end == Framed(t, s, st)
             act == [st.action EXCEPT ![s] = IF a.reset THEN Default ELSE a]
  <1>1. /\ a \in SigAction /\ m \in SUBSET Sigs /\ act \in [Sigs -> SigAction]
        /\ FrameOf(st, s) \in Frame
    <2>1. st.action \in [Sigs -> SigAction]
      BY DEF RunState
    <2>2. a \in SigAction /\ Default \in SigAction
      BY <2>1 DEF SigAction, Default
    <2>3. m \in SUBSET Sigs
      BY <2>2 DEF Widened, SigAction
    <2>4. FrameOf(st, s) \in Frame
      BY DEF FrameOf, Frame, RunState
    <2> QED BY <2>1, <2>2, <2>3, <2>4
  <1>2. CASE overflow[t]
    <2>1. end = [st EXCEPT !.stuck = TRUE]
      BY <1>2 DEF Framed
    <2>2. end \in RunState
      BY <2>1 DEF RunState
    <2>3. SameQueue(st, end) /\ SameMask(st, end)
      BY <2>1 DEF RunState, SameQueue, SameMask
    <2> QED BY <2>2, <2>3
  <1>3. CASE ~ overflow[t]
    <2>1. end = [st EXCEPT !.frames = Append(st.frames, FrameOf(st, s)),
                           !.blocked = st.blocked \cup m, !.asked = st.asked \cup m,
                           !.restart = FALSE, !.resume = "user", !.action = act]
      BY <1>3 DEF Framed, FrameOf, Widened
    <2> HIDE DEF a, m, act, end
    <2>2. /\ Append(st.frames, FrameOf(st, s)) \in Seq(Frame)
          /\ st.blocked \cup m \in SUBSET Sigs /\ st.asked \cup m \in SUBSET Sigs
      <3>1. st.frames \in Seq(Frame) /\ st.blocked \in SUBSET Sigs /\ st.asked \in SUBSET Sigs
        BY DEF RunState
      <3> QED BY <1>1, <3>1
    <2>3. end \in RunState
      BY <1>1, <2>1, <2>2 DEF RunState
    <2>4. SameQueue(st, end) /\ Pushes(st, end, s)
      BY <1>1, <2>1 DEF RunState, SameQueue, Pushes
    <2> QED BY <2>3, <2>4 DEF end
  <1> QED BY <1>2, <1>3

\* The turn leaves s on the queue, or takes it off and perhaps pushes a frame.
Leaves(st, end, s) ==
    /\ end.queue = Append(st.queue, s)
    /\ end.pending = st.pending /\ end.owed = st.owed
    /\ end.killed = st.killed /\ end.stuck = st.stuck
    /\ SameMask(st, end)

Takes(st, end, s) ==
    /\ end.queue = st.queue
    /\ end.pending = st.pending \ {s}
    /\ \A r \in RealTime : end.owed[r] = st.owed[r] - (IF r = s THEN 1 ELSE 0)
    /\ SameMask(st, end) \/ Pushes(st, end, s)

LEMMA Turn ==
    ASSUME NEW t, NEW mask, NEW st \in RunState, NEW s \in Sigs
    PROVE  LET end == Receive1(t, mask, st, s) IN
           /\ end \in RunState
           /\ Left(mask, st, s) => Leaves(st, end, s)
           /\ ~ Left(mask, st, s) => Takes(st, end, s)
  <1> DEFINE end == Receive1(t, mask, st, s)
             took == Took(st, s)
             d == Disposition(st.action, s)
  <1>1. CASE Left(mask, st, s)
    <2>1. end = [st EXCEPT !.queue = Append(st.queue, s)]
      BY <1>1 DEF Receive1, Left
    <2>2. Append(st.queue, s) \in Seq(Sigs)
      <3>1. st.queue \in Seq(Sigs)
        BY DEF RunState
      <3> QED BY <3>1
    <2> HIDE DEF end
    <2>3. end \in RunState
      BY <2>1, <2>2 DEF RunState
    <2>4. Leaves(st, end, s)
      BY <2>1 DEF RunState, Leaves, SameMask
    <2> QED BY <1>1, <2>3, <2>4 DEF end
  <1>2. CASE ~ Left(mask, st, s)
    <2>1. d \in {"ignore", "stop", "kill", "call"}
      BY DEF Disposition
    <2>2. end = CASE d = "ignore" -> took
                  [] d = "stop" -> [took EXCEPT !.stopped = TRUE]
                  [] d = "kill" -> [took EXCEPT !.killed = TRUE]
                  [] d = "call" -> Framed(t, s, took)
      BY <1>2 DEF Receive1, Left, Took
    <2> HIDE DEF end, took, d
    <2>3. /\ d = "ignore" => end = took
          /\ d = "stop" => end = [took EXCEPT !.stopped = TRUE]
          /\ d = "kill" => end = [took EXCEPT !.killed = TRUE]
          /\ d = "call" => end = Framed(t, s, took)
      BY <2>1, <2>2
    <2>4. /\ took \in RunState
          /\ took.pending = st.pending \ {s}
          /\ \A r \in RealTime : took.owed[r] = st.owed[r] - (IF r = s THEN 1 ELSE 0)
          /\ took.queue = st.queue /\ took.frames = st.frames
          /\ took.blocked = st.blocked /\ took.asked = st.asked
      BY TookFields DEF took
    <2>10. ASSUME d = "call"
           PROVE  /\ end \in RunState /\ SameQueue(took, end)
                  /\ SameMask(took, end) \/ Pushes(took, end, s)
      <3>1. end = Framed(t, s, took)
        BY <2>3, <2>10
      <3> QED BY <2>4, <3>1, FramedFields
    <2>5. end \in RunState
      <3>1. CASE d = "call"
        BY <2>10, <3>1
      <3>2. CASE d = "stop"
        BY <2>3, <2>4, <3>2 DEF RunState
      <3>3. CASE d = "kill"
        BY <2>3, <2>4, <3>3 DEF RunState
      <3> QED BY <2>1, <2>3, <2>4, <3>1, <3>2, <3>3
    <2>6. /\ SameQueue(took, end)
          /\ SameMask(took, end) \/ Pushes(took, end, s)
      <3>1. CASE d = "call"
        BY <2>10, <3>1
      <3>2. CASE d = "stop"
        BY <2>3, <2>4, <3>2 DEF RunState, SameMask, SameQueue
      <3>3. CASE d = "kill"
        BY <2>3, <2>4, <3>3 DEF RunState, SameMask, SameQueue
      <3>4. CASE d = "ignore"
        BY <2>3, <3>4 DEF SameMask, SameQueue
      <3> QED BY <2>1, <3>1, <3>2, <3>3, <3>4
    <2>7. FrameOf(took, s) = FrameOf(st, s)
      BY DEF FrameOf, took, Took, RunState
    <2>8. SameMask(st, end) \/ Pushes(st, end, s)
      BY <2>4, <2>6, <2>7 DEF SameMask, Pushes
    <2>9. Takes(st, end, s)
      BY <2>4, <2>6, <2>8 DEF Takes, SameQueue
    <2> QED BY <1>2, <2>5, <2>9 DEF end
  <1> QED BY <1>1, <1>2

-----------------------------------------------------------------------------
(***************************************************************************)
(* How often a signal is on a queue.                                       *)
(***************************************************************************)

\* The instances of s behind the first i entries.
Ahead(q, i, s) == {j \in i + 1 .. Len(q) : q[j] = s}

LEMMA InstancesCount ==
    ASSUME NEW q \in Seq(Sigs), NEW s
    PROVE  IsFiniteSet(Instances(q, s)) /\ Cardinality(Instances(q, s)) \in Nat
  <1>1. Instances(q, s) \in SUBSET (1 .. Len(q)) /\ IsFiniteSet(1 .. Len(q))
    BY FS_Interval DEF Instances
  <1>2. IsFiniteSet(Instances(q, s))
    BY <1>1, FS_Subset
  <1> QED BY <1>2, FS_CardinalityType

LEMMA AheadCount ==
    ASSUME NEW q \in Seq(Sigs), NEW s, NEW i \in 0 .. Len(q)
    PROVE  IsFiniteSet(Ahead(q, i, s)) /\ Cardinality(Ahead(q, i, s)) \in Nat
  <1>1. Ahead(q, i, s) \in SUBSET (1 .. Len(q)) /\ IsFiniteSet(1 .. Len(q))
    BY FS_Interval DEF Ahead
  <1>2. IsFiniteSet(Ahead(q, i, s))
    BY <1>1, FS_Subset
  <1> QED BY <1>2, FS_CardinalityType

LEMMA AppendCount ==
    ASSUME NEW q \in Seq(Sigs), NEW x \in Sigs, NEW s
    PROVE  Cardinality(Instances(Append(q, x), s)) =
             Cardinality(Instances(q, s)) + (IF x = s THEN 1 ELSE 0)
  <1> DEFINE n == Len(q) + 1
  <1>1. /\ x = s => Instances(Append(q, x), s) = Instances(q, s) \cup {n}
        /\ x # s => Instances(Append(q, x), s) = Instances(q, s)
    BY DEF Instances
  <1>2. n \notin Instances(q, s)
    BY DEF Instances
  <1>3. Cardinality(Instances(q, s) \cup {n}) = Cardinality(Instances(q, s)) + 1
    BY <1>2, InstancesCount, FS_AddElement
  <1>4. Cardinality(Instances(q, s)) \in Nat
    BY InstancesCount
  <1>5. CASE x = s
    BY <1>1, <1>3, <1>5
  <1>6. CASE x # s
    BY <1>1, <1>4, <1>6
  <1> QED BY <1>5, <1>6

LEMMA AheadStep ==
    ASSUME NEW q \in Seq(Sigs), NEW s, NEW i \in 0 .. Len(q) - 1
    PROVE  Cardinality(Ahead(q, i, s)) =
             Cardinality(Ahead(q, i + 1, s)) + (IF q[i + 1] = s THEN 1 ELSE 0)
  <1>1. /\ q[i + 1] = s => Ahead(q, i, s) = Ahead(q, i + 1, s) \cup {i + 1}
        /\ q[i + 1] # s => Ahead(q, i, s) = Ahead(q, i + 1, s)
    BY DEF Ahead
  <1>2. i + 1 \notin Ahead(q, i + 1, s) /\ i + 1 \in 0 .. Len(q)
    BY DEF Ahead
  <1>3. Cardinality(Ahead(q, i + 1, s) \cup {i + 1}) = Cardinality(Ahead(q, i + 1, s)) + 1
    BY <1>2, AheadCount, FS_AddElement
  <1>4. Cardinality(Ahead(q, i + 1, s)) \in Nat
    BY <1>2, AheadCount
  <1>5. CASE q[i + 1] = s
    BY <1>1, <1>3, <1>5
  <1>6. CASE q[i + 1] # s
    BY <1>1, <1>4, <1>6
  <1> QED BY <1>5, <1>6

LEMMA AheadEnds ==
    ASSUME NEW q \in Seq(Sigs), NEW s
    PROVE  /\ Ahead(q, 0, s) = Instances(q, s)
           /\ Ahead(q, Len(q), s) = {}
  BY DEF Ahead, Instances

\* RemoveAt keeps every entry but one, in order.
LEMMA RemoveEntries ==
    ASSUME NEW q \in Seq(Sigs), NEW k \in 1 .. Len(q)
    PROVE  /\ RemoveAt(q, k) \in Seq(Sigs)
           /\ Len(RemoveAt(q, k)) = Len(q) - 1
           /\ \A j \in 1 .. Len(q) - 1 : RemoveAt(q, k)[j] = IF j < k THEN q[j] ELSE q[j + 1]
  <1> DEFINE a == SubSeq(q, 1, k - 1)
             b == SubSeq(q, k + 1, Len(q))
  <1>1. /\ a \in Seq(Sigs) /\ Len(a) = k - 1
        /\ \A j \in 1 .. k - 1 : a[j] = q[j]
    OBVIOUS
  <1>2. /\ b \in Seq(Sigs) /\ Len(b) = Len(q) - k
        /\ \A j \in 1 .. Len(q) - k : b[j] = q[k + j]
    OBVIOUS
  <1> HIDE DEF a, b
  <1>3. RemoveAt(q, k) = a \o b
    BY DEF RemoveAt, a, b
  <1>4. /\ a \o b \in Seq(Sigs) /\ Len(a \o b) = Len(q) - 1
        /\ \A j \in 1 .. Len(q) - 1 :
             (a \o b)[j] = IF j <= k - 1 THEN a[j] ELSE b[j - (k - 1)]
    BY <1>1, <1>2
  <1>5. ASSUME NEW j \in 1 .. Len(q) - 1
        PROVE  (a \o b)[j] = IF j < k THEN q[j] ELSE q[j + 1]
    <2>1. CASE j < k
      BY <1>1, <1>4, <2>1
    <2>2. CASE ~ (j < k)
      <3>1. j - (k - 1) \in 1 .. Len(q) - k /\ k + (j - (k - 1)) = j + 1
        BY <2>2
      <3>2. b[j - (k - 1)] = q[j + 1]
        BY <1>2, <3>1
      <3> QED BY <1>4, <2>2, <3>2
    <2> QED BY <2>1, <2>2
  <1> QED BY <1>3, <1>4, <1>5

LEMMA RemoveCount ==
    ASSUME NEW q \in Seq(Sigs), NEW k \in 1 .. Len(q), NEW s
    PROVE  Cardinality(Instances(RemoveAt(q, k), s)) =
             Cardinality(Instances(q, s)) - (IF q[k] = s THEN 1 ELSE 0)
  <1> DEFINE r == RemoveAt(q, k)
             A == Instances(q, s) \ {k}
             B == Instances(r, s)
             f == [j \in A |-> IF j < k THEN j ELSE j - 1]
  <1>1. /\ r \in Seq(Sigs) /\ Len(r) = Len(q) - 1
        /\ \A j \in 1 .. Len(q) - 1 : r[j] = IF j < k THEN q[j] ELSE q[j + 1]
    BY RemoveEntries
  <1> HIDE DEF r
  <1>2. ASSUME NEW j \in A PROVE f[j] \in B
    BY <1>1 DEF Instances
  <1>3. ASSUME NEW i \in A, NEW j \in A, f[i] = f[j] PROVE i = j
    BY <1>3 DEF Instances
  <1>4. ASSUME NEW j \in B PROVE \E i \in A : f[i] = j
    <2>1. j \in 1 .. Len(q) - 1 /\ r[j] = s
      BY <1>1 DEF Instances
    <2>2. CASE j < k
      <3>1. j \in A
        BY <1>1, <2>1, <2>2 DEF Instances
      <3> QED BY <2>2, <3>1
    <2>3. CASE ~ (j < k)
      <3>1. j + 1 \in A /\ ~ (j + 1 < k) /\ (j + 1) - 1 = j
        BY <1>1, <2>1, <2>3 DEF Instances
      <3>2. f[j + 1] = j
        BY <3>1
      <3> QED BY <3>1, <3>2
    <2> QED BY <2>2, <2>3
  <1>5. f \in Bijection(A, B)
    BY <1>2, <1>3, <1>4 DEF Bijection, Injection, Surjection, IsInjective
  <1>6. IsFiniteSet(Instances(q, s)) /\ Cardinality(Instances(q, s)) \in Nat
    BY InstancesCount
  <1>7. /\ IsFiniteSet(A)
        /\ Cardinality(A) = IF k \in Instances(q, s) THEN Cardinality(Instances(q, s)) - 1
                            ELSE Cardinality(Instances(q, s))
    BY <1>6, FS_RemoveElement
  <1>8. Cardinality(B) = Cardinality(A)
    BY <1>5, <1>7, FS_Bijection DEF ExistsBijection
  <1>9. k \in Instances(q, s) <=> q[k] = s
    BY DEF Instances
  <1> QED BY <1>6, <1>7, <1>8, <1>9 DEF r

-----------------------------------------------------------------------------
(***************************************************************************)
(* The loop as a whole.                                                    *)
(***************************************************************************)

LEMMA StartTyped ==
    ASSUME TypeOK, NEW t \in Threads
    PROVE  Start(t) \in RunState /\ queue[t] \in Seq(Sigs)
  <1>1. /\ pending[t] \in SUBSET Sigs /\ asked[t] \in SUBSET Sigs
        /\ frames[t] \in Seq(Frame) /\ resume[t] \in {"user", "read"}
        /\ restart[t] \in BOOLEAN /\ owed[t] \in [RealTime -> Int]
        /\ action \in [Sigs -> SigAction] /\ stopped \in BOOLEAN
        /\ queue[t] \in Seq(Sigs)
    BY DEF TypeOK
  <1>2. Restored(t) \in SUBSET Sigs
    <2>1. blocked[t] \in SUBSET Sigs /\ saved[t] \in (SUBSET Sigs) \cup {NoMask}
      BY DEF TypeOK
    <2> QED BY <2>1 DEF Restored
  <1>3. <<>> \in Seq(Sigs) /\ (saved[t] # NoMask) \in BOOLEAN
    OBVIOUS
  <1> QED BY <1>1, <1>2, <1>3 DEF Start, RunState

LEMMA WalkTyped ==
    ASSUME TypeOK, NEW t \in Threads
    PROVE  \A i \in 0 .. Len(queue[t]) : Walk(t)[i] \in RunState
  <1> DEFINE n == Len(queue[t])
             S == {i \in 0 .. n : Walk(t)[i] \in RunState}
  <1>1. queue[t] \in Seq(Sigs) /\ n \in Nat /\ Start(t) \in RunState
    BY StartTyped
  <1>2. 0 \in S
    BY <1>1, WalkSteps
  <1>3. ASSUME NEW i \in 0 .. n - 1, i \in S PROVE i + 1 \in S
    <2>1. queue[t][i + 1] \in Sigs /\ i + 1 \in 0 .. n
      BY <1>1
    <2>2. Walk(t)[i + 1] = Receive1(t, Skipped(t), Walk(t)[i], queue[t][i + 1])
      BY <1>1, WalkSteps
    <2>3. Walk(t)[i] \in RunState
      BY <1>3
    <2>4. Walk(t)[i + 1] \in RunState
      BY <2>1, <2>2, <2>3, Turn
    <2> QED BY <2>1, <2>4
  <1> HIDE DEF S
  <1>4. \A i \in 0 .. n : i \in S
    BY <1>1, <1>2, <1>3, CountUp
  <1> QED BY <1>4 DEF S

\* One turn, between the entries i and i + 1.
LEMMA WalkTurn ==
    ASSUME TypeOK, NEW t \in Threads, NEW i \in 0 .. Len(queue[t]) - 1
    PROVE  /\ Walk(t)[i] \in RunState /\ Walk(t)[i + 1] \in RunState
           /\ queue[t] \in Seq(Sigs) /\ queue[t][i + 1] \in Sigs
           /\ i \in 0 .. Len(queue[t]) /\ i + 1 \in 1 .. Len(queue[t])
           /\ \/ /\ Left(Skipped(t), Walk(t)[i], queue[t][i + 1])
                 /\ Leaves(Walk(t)[i], Walk(t)[i + 1], queue[t][i + 1])
              \/ /\ ~ Left(Skipped(t), Walk(t)[i], queue[t][i + 1])
                 /\ Takes(Walk(t)[i], Walk(t)[i + 1], queue[t][i + 1])
  <1>1. queue[t] \in Seq(Sigs) /\ Len(queue[t]) \in Nat
    BY StartTyped
  <1>2. /\ queue[t][i + 1] \in Sigs
        /\ i \in 0 .. Len(queue[t]) /\ i + 1 \in 1 .. Len(queue[t]) /\ i + 1 \in 0 .. Len(queue[t])
    BY <1>1
  <1>3. Walk(t)[i + 1] = Receive1(t, Skipped(t), Walk(t)[i], queue[t][i + 1])
    BY <1>1, WalkSteps
  <1>4. Walk(t)[i] \in RunState /\ Walk(t)[i + 1] \in RunState
    BY <1>2, WalkTyped
  <1> QED BY <1>1, <1>2, <1>3, <1>4, Turn

\* A real-time instance is owed as long as it is on the queue that is kept or
\* still ahead.
LEMMA WalkOwed ==
    ASSUME TypeOK, RealTimeKept, NEW t \in Threads, NEW r \in RealTime
    PROVE  \A i \in 0 .. Len(queue[t]) :
             Walk(t)[i].owed[r] = Cardinality(Instances(Walk(t)[i].queue, r))
                                  + Cardinality(Ahead(queue[t], i, r))
  <1> DEFINE q == queue[t]
             w(i) == Walk(t)[i]
             Even(i) == w(i).owed[r] = Cardinality(Instances(w(i).queue, r))
                                       + Cardinality(Ahead(q, i, r))
             S == {i \in 0 .. Len(q) : Even(i)}
  <1>1. q \in Seq(Sigs) /\ Len(q) \in Nat
    BY StartTyped
  <1>2. 0 \in S
    <2>1. w(0) = Start(t)
      BY <1>1, WalkSteps
    <2>2. w(0).owed[r] = Cardinality(Instances(q, r)) /\ w(0).queue = <<>>
      BY <2>1 DEF Start, RealTimeKept
    <2>3. Instances(w(0).queue, r) = {}
      BY <2>2 DEF Instances
    <2>4. /\ Cardinality(Instances(q, r)) \in Nat
          /\ Cardinality(Instances(w(0).queue, r)) = 0
          /\ Cardinality(Ahead(q, 0, r)) = Cardinality(Instances(q, r))
      BY <1>1, <2>3, InstancesCount, FS_EmptySet, AheadEnds
    <2>5. Even(0)
      BY <2>2, <2>4
    <2> QED BY <1>1, <2>5
  <1>3. ASSUME NEW i \in 0 .. Len(q) - 1, i \in S PROVE i + 1 \in S
    <2> DEFINE s == q[i + 1]
               b == IF r = s THEN 1 ELSE 0
               c(j) == Cardinality(Instances(w(j).queue, r))
               a(j) == Cardinality(Ahead(q, j, r))
    <2>1. /\ w(i) \in RunState /\ w(i + 1) \in RunState /\ s \in Sigs
          /\ i \in 0 .. Len(q) /\ i + 1 \in 1 .. Len(q)
          /\ Leaves(w(i), w(i + 1), s) \/ Takes(w(i), w(i + 1), s)
      BY WalkTurn
    <2>8. i + 1 \in 0 .. Len(q)
      BY <1>1
    <2>2. w(i).queue \in Seq(Sigs) /\ w(i).owed \in [RealTime -> Int]
      BY <2>1 DEF RunState
    <2>3. w(i).owed[r] = c(i) + a(i) /\ w(i).owed[r] \in Int
      BY <1>3, <2>2
    <2>4. a(i) = a(i + 1) + b
      BY <1>1, AheadStep
    <2>5. a(i + 1) \in Nat /\ c(i) \in Nat /\ b \in Nat
      BY <1>1, <2>1, <2>2, <2>8, AheadCount, InstancesCount
    <2>6. CASE Leaves(w(i), w(i + 1), s)
      <3>1. w(i + 1).queue = Append(w(i).queue, s) /\ w(i + 1).owed = w(i).owed
        BY <2>6 DEF Leaves
      <3>2. c(i + 1) = c(i) + b
        BY <2>1, <2>2, <3>1, AppendCount
      <3>3. w(i + 1).owed[r] = c(i + 1) + a(i + 1)
        BY <2>3, <2>4, <2>5, <3>1, <3>2
      <3> QED BY <2>8, <3>3
    <2>7. CASE Takes(w(i), w(i + 1), s)
      <3>1. w(i + 1).queue = w(i).queue /\ w(i + 1).owed[r] = w(i).owed[r] - b
        BY <2>7 DEF Takes
      <3>2. c(i + 1) = c(i)
        BY <3>1
      <3>3. w(i + 1).owed[r] = c(i + 1) + a(i + 1)
        BY <2>3, <2>4, <2>5, <3>1, <3>2
      <3> QED BY <2>8, <3>3
    <2> QED BY <2>1, <2>6, <2>7
  <1> HIDE DEF S
  <1>4. \A i \in 0 .. Len(q) : i \in S
    BY <1>1, <1>2, <1>3, CountUp
  <1> QED BY <1>4 DEF S

\* Standard signals are on a queue once.
Once(q) == \A i, j \in DOMAIN q : i # j /\ q[i] = q[j] => q[i] \in RealTime

\* What is kept came off the queue; a loop that goes on keeps only what the mask
\* skips, and takes no bit of that.
Going(st) == ~ st.killed /\ ~ st.stuck
KeepsPart(t, st, i) ==
    /\ Once(st.queue)
    /\ \A k \in DOMAIN st.queue : \E j \in 1 .. i : queue[t][j] = st.queue[k]
KeepsSkipped(t, st) ==
    Going(st) =>
        /\ \A k \in DOMAIN st.queue : st.queue[k] \in Skipped(t)
        /\ \A s \in Skipped(t) : s \in pending[t] => s \in st.pending

LEMMA WalkKeepsPart ==
    ASSUME TypeOK, NEW t \in Threads, Once(queue[t])
    PROVE  \A i \in 0 .. Len(queue[t]) : KeepsPart(t, Walk(t)[i], i)
  <1> DEFINE q == queue[t]
             w(i) == Walk(t)[i]
             S == {i \in 0 .. Len(q) : KeepsPart(t, w(i), i)}
  <1>1. q \in Seq(Sigs) /\ Len(q) \in Nat
    BY StartTyped
  <1>2. 0 \in S
    <2>1. w(0) = Start(t)
      BY <1>1, WalkSteps
    <2>2. w(0).queue = <<>>
      BY <2>1 DEF Start
    <2>3. KeepsPart(t, w(0), 0)
      BY <2>2 DEF KeepsPart, Once
    <2> QED BY <1>1, <2>3
  <1>3. ASSUME NEW i \in 0 .. Len(q) - 1, i \in S PROVE i + 1 \in S
    <2> DEFINE s == q[i + 1]
               old == w(i).queue
               new == w(i + 1).queue
    <2>1. /\ w(i) \in RunState /\ w(i + 1) \in RunState /\ s \in Sigs
          /\ i \in 0 .. Len(q) /\ i + 1 \in 1 .. Len(q)
          /\ Leaves(w(i), w(i + 1), s) \/ Takes(w(i), w(i + 1), s)
      BY WalkTurn
    <2>2. i + 1 \in 0 .. Len(q) /\ old \in Seq(Sigs)
      BY <1>1, <2>1 DEF RunState
    <2>3. Once(old) /\ \A k \in DOMAIN old : \E j \in 1 .. i : q[j] = old[k]
      BY <1>3 DEF KeepsPart
    <2>4. new = old \/ new = Append(old, s)
      BY <2>1 DEF Leaves, Takes
    <2> HIDE DEF old, new
    <2>5. CASE new = old
      <3>1. \A k \in DOMAIN new : \E j \in 1 .. i + 1 : q[j] = new[k]
        BY <2>1, <2>3, <2>5
      <3>2. KeepsPart(t, w(i + 1), i + 1)
        BY <2>3, <2>5, <3>1 DEF KeepsPart, new
      <3> QED BY <2>2, <3>2
    <2>6. CASE new = Append(old, s)
      <3>1. /\ DOMAIN new = 1 .. Len(old) + 1 /\ new[Len(old) + 1] = s
            /\ DOMAIN old = 1 .. Len(old) /\ Len(old) \in Nat
            /\ \A k \in 1 .. Len(old) : new[k] = old[k]
        BY <2>2, <2>6
      <3>2. ASSUME NEW k \in DOMAIN new PROVE \E j \in 1 .. i + 1 : q[j] = new[k]
        <4>1. CASE k \in DOMAIN old
          BY <2>1, <2>3, <3>1, <4>1
        <4>2. CASE k = Len(old) + 1
          BY <2>1, <3>1, <4>2
        <4> QED BY <3>1, <3>2, <4>1, <4>2
      <3>3. ASSUME NEW k \in DOMAIN old, old[k] = s PROVE s \in RealTime
        <4>1. PICK j \in 1 .. i : q[j] = s
          BY <2>3, <3>3
        <4>2. j \in DOMAIN q /\ i + 1 \in DOMAIN q /\ j # i + 1 /\ q[j] = q[i + 1]
          BY <1>1, <2>1, <4>1
        <4> QED BY <4>1, <4>2 DEF Once
      <3>4. ASSUME NEW k \in DOMAIN new, NEW l \in DOMAIN new, k # l, new[k] = new[l]
            PROVE  new[k] \in RealTime
        <4>1. CASE k \in DOMAIN old /\ l \in DOMAIN old
          BY <2>3, <3>1, <3>4, <4>1 DEF Once
        <4>2. CASE k \in DOMAIN old /\ l = Len(old) + 1
          BY <3>1, <3>3, <3>4, <4>2
        <4>3. CASE l \in DOMAIN old /\ k = Len(old) + 1
          BY <3>1, <3>3, <3>4, <4>3
        <4> QED BY <3>1, <3>4, <4>1, <4>2, <4>3
      <3>5. Once(new)
        BY <3>4 DEF Once
      <3>6. KeepsPart(t, w(i + 1), i + 1)
        BY <3>2, <3>5 DEF KeepsPart, new
      <3> QED BY <2>2, <3>6
    <2> QED BY <2>4, <2>5, <2>6
  <1> HIDE DEF S
  <1>4. \A i \in 0 .. Len(q) : i \in S
    BY <1>1, <1>2, <1>3, CountUp
  <1> QED BY <1>4 DEF S

LEMMA WalkKeepsSkipped ==
    ASSUME TypeOK, NEW t \in Threads
    PROVE  \A i \in 0 .. Len(queue[t]) : KeepsSkipped(t, Walk(t)[i])
  <1> DEFINE q == queue[t]
             w(i) == Walk(t)[i]
             S == {i \in 0 .. Len(q) : KeepsSkipped(t, w(i))}
  <1>1. q \in Seq(Sigs) /\ Len(q) \in Nat
    BY StartTyped
  <1>2. 0 \in S
    <2>1. w(0) = Start(t)
      BY <1>1, WalkSteps
    <2>2. w(0).queue = <<>> /\ w(0).pending = pending[t]
      BY <2>1 DEF Start
    <2>3. KeepsSkipped(t, w(0))
      BY <2>2 DEF KeepsSkipped
    <2> QED BY <1>1, <2>3
  <1>3. ASSUME NEW i \in 0 .. Len(q) - 1, i \in S PROVE i + 1 \in S
    <2> DEFINE s == q[i + 1]
    <2>1. /\ w(i) \in RunState /\ w(i + 1) \in RunState /\ s \in Sigs
          /\ i \in 0 .. Len(q) /\ i + 1 \in 1 .. Len(q)
          /\ \/ Left(Skipped(t), w(i), s) /\ Leaves(w(i), w(i + 1), s)
             \/ ~ Left(Skipped(t), w(i), s) /\ Takes(w(i), w(i + 1), s)
      BY WalkTurn
    <2>2. i + 1 \in 0 .. Len(q) /\ w(i).queue \in Seq(Sigs)
      BY <1>1, <2>1 DEF RunState
    <2>3. KeepsSkipped(t, w(i))
      BY <1>3
    <2> HIDE DEF w
    <2>4. CASE Left(Skipped(t), w(i), s) /\ Leaves(w(i), w(i + 1), s)
      <3> SUFFICES ASSUME Going(w(i + 1))
                   PROVE  /\ \A k \in DOMAIN w(i + 1).queue : w(i + 1).queue[k] \in Skipped(t)
                          /\ \A r \in Skipped(t) : r \in pending[t] => r \in w(i + 1).pending
        BY <2>2 DEF KeepsSkipped
      <3>1. Going(w(i)) /\ s \in Skipped(t)
        BY <2>4 DEF Left, Leaves, Going
      <3>2. w(i + 1).queue = Append(w(i).queue, s) /\ w(i + 1).pending = w(i).pending
        BY <2>4 DEF Leaves
      <3>3. /\ \A k \in DOMAIN w(i).queue : w(i).queue[k] \in Skipped(t)
            /\ \A r \in Skipped(t) : r \in pending[t] => r \in w(i).pending
        BY <2>3, <3>1 DEF KeepsSkipped
      <3> QED BY <2>2, <3>1, <3>2, <3>3
    <2>5. CASE ~ Left(Skipped(t), w(i), s) /\ Takes(w(i), w(i + 1), s)
      <3>1. Going(w(i)) /\ s \notin Skipped(t)
        BY <2>5 DEF Left, Going
      <3>2. w(i + 1).queue = w(i).queue /\ w(i + 1).pending = w(i).pending \ {s}
        BY <2>5 DEF Takes
      <3>3. KeepsSkipped(t, w(i + 1))
        BY <2>3, <3>1, <3>2 DEF KeepsSkipped
      <3> QED BY <2>2, <3>3
    <2> QED BY <2>1, <2>4, <2>5
  <1> HIDE DEF S
  <1>4. \A i \in 0 .. Len(q) : i \in S
    BY <1>1, <1>2, <1>3, CountUp
  <1> QED BY <1>4 DEF S

\* The mask in force is the one the guest knows of, in the state and in each frame.
MaskTogether(st) ==
    /\ st.blocked = st.asked
    /\ \A k \in DOMAIN st.frames : st.frames[k].mask = st.frames[k].believed
\* Without a frame SIGKILL and SIGSTOP are not blocked.
OnlyInHandler(st) == st.frames = <<>> => st.blocked \cap Unblockable = {}

LEMMA PushMask ==
    ASSUME NEW st \in RunState, NEW end, NEW s \in Sigs,
           SameMask(st, end) \/ Pushes(st, end, s)
    PROVE  /\ MaskTogether(st) => MaskTogether(end)
           /\ OnlyInHandler(st) => OnlyInHandler(end)
  <1>0. st.frames \in Seq(Frame)
    BY DEF RunState
  <1>1. CASE SameMask(st, end)
    BY <1>1 DEF SameMask, MaskTogether, OnlyInHandler
  <1>2. CASE Pushes(st, end, s)
    <2>1. PICK m \in SUBSET Sigs :
             /\ end.frames = Append(st.frames, FrameOf(st, s))
             /\ end.blocked = st.blocked \cup m /\ end.asked = st.asked \cup m
      BY <1>2 DEF Pushes
    <2> DEFINE old == st.frames
               new == end.frames
               f == FrameOf(st, s)
    <2>2. f.mask = st.blocked /\ f.believed = st.asked
      BY DEF FrameOf
    <2>3. new = Append(old, f) /\ old \in Seq(Frame)
      BY <1>0, <2>1
    <2> HIDE DEF old, new, f
    <2>4. /\ DOMAIN new = 1 .. Len(old) + 1 /\ new[Len(old) + 1] = f
          /\ DOMAIN old = 1 .. Len(old) /\ Len(old) \in Nat
          /\ \A k \in 1 .. Len(old) : new[k] = old[k]
          /\ new # <<>>
      BY <2>3
    <2>5. ASSUME MaskTogether(st) PROVE MaskTogether(end)
      <3>1. \A k \in DOMAIN old : old[k].mask = old[k].believed
        BY <2>5 DEF MaskTogether, old
      <3>2. f.mask = f.believed
        BY <2>2, <2>5 DEF MaskTogether
      <3>3. \A k \in DOMAIN new : new[k].mask = new[k].believed
        BY <2>4, <3>1, <3>2
      <3> QED BY <2>1, <2>5, <3>3 DEF MaskTogether, new
    <2>6. OnlyInHandler(end)
      BY <2>4 DEF OnlyInHandler, new
    <2> QED BY <2>5, <2>6
  <1> QED BY <1>1, <1>2

LEMMA WalkMask ==
    ASSUME TypeOK, NEW t \in Threads
    PROVE  \A i \in 0 .. Len(queue[t]) :
             /\ MaskTogether(Start(t)) => MaskTogether(Walk(t)[i])
             /\ OnlyInHandler(Start(t)) => OnlyInHandler(Walk(t)[i])
  <1> DEFINE n == Len(queue[t])
             w(i) == Walk(t)[i]
             Fine(i) == /\ MaskTogether(Start(t)) => MaskTogether(w(i))
                        /\ OnlyInHandler(Start(t)) => OnlyInHandler(w(i))
             S == {i \in 0 .. n : Fine(i)}
  <1>1. queue[t] \in Seq(Sigs) /\ n \in Nat
    BY StartTyped
  <1>2. 0 \in S
    <2>1. w(0) = Start(t)
      BY <1>1, WalkSteps
    <2> QED BY <1>1, <2>1
  <1>3. ASSUME NEW i \in 0 .. n - 1, i \in S PROVE i + 1 \in S
    <2> DEFINE s == queue[t][i + 1]
    <2>1. /\ w(i) \in RunState /\ s \in Sigs
          /\ Leaves(w(i), w(i + 1), s) \/ Takes(w(i), w(i + 1), s)
      BY WalkTurn
    <2>2. i + 1 \in 0 .. n
      BY <1>1
    <2>3. SameMask(w(i), w(i + 1)) \/ Pushes(w(i), w(i + 1), s)
      BY <2>1 DEF Leaves, Takes
    <2>4. Fine(i)
      BY <1>3
    <2>5. /\ MaskTogether(w(i)) => MaskTogether(w(i + 1))
          /\ OnlyInHandler(w(i)) => OnlyInHandler(w(i + 1))
      <3> DEFINE a == w(i)
                 b == w(i + 1)
      <3>1. a \in RunState /\ s \in Sigs /\ (SameMask(a, b) \/ Pushes(a, b, s))
        BY <2>1, <2>3
      <3> HIDE DEF a, b
      <3>2. /\ MaskTogether(a) => MaskTogether(b)
            /\ OnlyInHandler(a) => OnlyInHandler(b)
        BY <3>1, PushMask
      <3> QED BY <3>2 DEF a, b
    <2>6. Fine(i + 1)
      BY <2>4, <2>5
    <2> QED BY <2>2, <2>6
  <1> HIDE DEF S
  <1>4. \A i \in 0 .. n : i \in S
    BY <1>1, <1>2, <1>3, CountUp
  <1> QED BY <1>4 DEF S

-----------------------------------------------------------------------------
(***************************************************************************)
(* The steps that leave the queues alone.                                  *)
(***************************************************************************)

\* What IInv says of the masks of one thread.
MaskAt(t) ==
    /\ pc[t] \in {"user", "stopwait", "pause", "read", "twait"} =>
         saved[t] = NoMask /\ blocked[t] = asked[t]
    /\ pc[t] \in {"suspend", "poll"} => saved[t] = asked[t]
    /\ pc[t] = "receive" => Restored(t) = asked[t]
    /\ \A i \in DOMAIN frames[t] : frames[t][i].mask = frames[t][i].believed
    /\ frames[t] = <<>> =>
         blocked[t] \cap Unblockable = {} /\ Restored(t) \cap Unblockable = {}

LEMMA MasksApart == MaskHistory /\ NoFrameNoBlock <=> \A t \in Threads : MaskAt(t)
  BY DEF MaskHistory, NoFrameNoBlock, MaskAt

\* A step of t moves t and changes no other thread's masks.
OnlyOf(t) == \A u \in Threads \ {t} :
    /\ pc'[u] = pc[u] /\ saved'[u] = saved[u] /\ blocked'[u] = blocked[u]
    /\ asked'[u] = asked[u] /\ frames'[u] = frames[u]

LEMMA MasksKept ==
    ASSUME MaskHistory, NoFrameNoBlock, NEW t \in Threads, OnlyOf(t), MaskAt(t)'
    PROVE  MaskHistory' /\ NoFrameNoBlock'
  <1>1. ASSUME NEW u \in Threads PROVE MaskAt(u)'
    <2>1. CASE u = t
      BY <2>1
    <2>2. CASE u # t
      <3>1. MaskAt(u)
        BY MasksApart
      <3> QED BY <2>2, <3>1 DEF OnlyOf, MaskAt, Restored
    <2> QED BY <2>1, <2>2
  <1> QED BY <1>1 DEF MaskHistory, NoFrameNoBlock, MaskAt

LEMMA QueuesKept ==
    ASSUME QueueHasBits, RealTimeKept, NEW t \in Threads, OnlyOf(t), pc[t] # "stuck",
           UNCHANGED <<pending, queue, owed, exited>>
    PROVE  QueueHasBits' /\ RealTimeKept'
  <1>1. Unlocked' => Unlocked
    BY DEF OnlyOf, Unlocked
  <1> QED BY <1>1 DEF QueueHasBits, RealTimeKept

\* A step of t that leaves the queues alone keeps the invariant if it keeps t's masks.
LEMMA QuietStep ==
    ASSUME IInv, NEW t \in Threads, OnlyOf(t), pc[t] # "stuck",
           UNCHANGED <<pending, queue, owed, exited, clears, sent>>, TypeOK', MaskAt(t)'
    PROVE  IInv'
  <1>1. clears' <= sent'
    BY DEF IInv
  <1> QED BY <1>1, MasksKept, QueuesKept DEF IInv

\* The types of a step that only moves t to l and sets its restart mark to r.
LEMMA MoveTypes ==
    ASSUME TypeOK, NEW t \in Threads, NEW l \in PCs, pc' = [pc EXCEPT ![t] = l],
           restart' \in [Threads -> BOOLEAN],
           UNCHANGED <<shared, pending, queue, masks, resume, frames, overflow, history>>
    PROVE  TypeOK' /\ OnlyOf(t) /\ pc'[t] = l
  BY DEF TypeOK, OnlyOf, shared, masks, history

LEMMA RestartTypes ==
    ASSUME TypeOK, NEW t \in Threads, NEW r \in BOOLEAN, restart' = [restart EXCEPT ![t] = r]
    PROVE  restart' \in [Threads -> BOOLEAN]
  BY DEF TypeOK

\* Going to sleep without a mask of one's own, and coming back.
LEMMA MoveKeeps ==
    ASSUME IInv, NEW t \in Threads, NEW l \in PCs, pc' = [pc EXCEPT ![t] = l],
           restart' \in [Threads -> BOOLEAN], pc[t] # "stuck",
           UNCHANGED <<shared, pending, queue, masks, resume, frames, overflow, history>>,
           \/ /\ pc[t] \in {"user", "stopwait", "pause", "read", "twait"}
              /\ l \in {"user", "stopwait", "pause", "read", "twait", "receive"}
           \/ pc[t] \in {"suspend", "poll"} /\ l = "receive"
    PROVE  IInv'
  <1>1. TypeOK /\ TypeOK' /\ OnlyOf(t) /\ pc'[t] = l
    BY MoveTypes DEF IInv
  <1>2. MaskAt(t)
    BY MasksApart DEF IInv
  <1>3. asked[t] # NoMask
    BY <1>1, MaskAssumption DEF TypeOK
  <1>4. MaskAt(t)'
    BY <1>1, <1>2, <1>3 DEF MaskAt, Restored, masks, history
  <1> QED BY <1>1, <1>4, QuietStep DEF shared, history

LEMMA BlockingKeeps ==
    ASSUME IInv, NEW t \in Threads,
           Blocking(t, "pause", "pause") \/ Blocking(t, "read", "read")
    PROVE  IInv'
  <1>1. PICK l \in {"pause", "read"} : Blocking(t, l, l)
    OBVIOUS
  <1>2. TypeOK /\ l \in PCs
    BY DEF IInv, PCs, Asleep
  <1>3. restart' \in [Threads -> BOOLEAN]
    BY <1>1, <1>2, RestartTypes DEF Blocking, Enter
  <1> QED BY <1>1, <1>2, <1>3, MoveKeeps DEF Blocking, Enter, Goto

LEMMA InterruptedKeeps ==
    ASSUME IInv, NEW t \in Threads, Interrupted(t)
    PROVE  IInv'
  <1>1. TypeOK /\ "receive" \in PCs
    BY DEF IInv, PCs
  <1>2. restart' \in [Threads -> BOOLEAN]
    <2>1. (pc[t] = "read") \in BOOLEAN
      OBVIOUS
    <2> QED BY <1>1, <2>1, RestartTypes DEF Interrupted
  <1>3. pc[t] \in {"suspend", "pause", "poll", "read"}
    BY DEF Interrupted, Asleep
  <1> QED BY <1>1, <1>2, <1>3, MoveKeeps DEF Interrupted, Goto

LEMMA CompletedKeeps ==
    ASSUME IInv, NEW t \in Threads, Completed(t)
    PROVE  IInv'
  <1>1. TypeOK /\ "receive" \in PCs /\ restart' \in [Threads -> BOOLEAN]
    BY DEF IInv, PCs, TypeOK, Completed, guest
  <1> QED BY <1>1, MoveKeeps DEF Completed, Goto, guest

LEMMA InterruptKeeps ==
    ASSUME IInv, NEW t \in Threads, Interrupt(t)
    PROVE  IInv'
  <1>1. TypeOK /\ "receive" \in PCs
    BY DEF IInv, PCs
  <1>2. restart' \in [Threads -> BOOLEAN]
    <2>1. PICK past \in {restart[t], FALSE} : restart' = [restart EXCEPT ![t] = past]
      BY DEF Interrupt
    <2>2. past \in BOOLEAN
      BY <1>1 DEF TypeOK
    <2> QED BY <1>1, <2>1, <2>2, RestartTypes
  <1> QED BY <1>1, <1>2, MoveKeeps DEF Interrupt, Goto

LEMMA ReturnKeeps ==
    ASSUME IInv, NEW t \in Threads, Return(t)
    PROVE  IInv'
  <1>1. TypeOK /\ "user" \in PCs /\ restart' \in [Threads -> BOOLEAN]
    BY DEF IInv, PCs, TypeOK, Return, guest
  <1> QED BY <1>1, MoveKeeps DEF Return, Goto, guest

LEMMA RestartKeeps ==
    ASSUME IInv, NEW t \in Threads, Restart(t)
    PROVE  IInv'
  <1>1. TypeOK /\ MaskAt(t)
    BY MasksApart DEF IInv
  <1>2. /\ pc[t] = "user" /\ pc' = [pc EXCEPT ![t] = "read"]
        /\ resume' = [resume EXCEPT ![t] = "user"]
        /\ restart' = [restart EXCEPT ![t] = FALSE]
        /\ UNCHANGED <<shared, pending, queue, masks, frames, overflow, history>>
    BY DEF Restart, Goto
  <1>3. TypeOK' /\ OnlyOf(t) /\ pc'[t] = "read"
    BY <1>1, <1>2 DEF TypeOK, OnlyOf, shared, masks, history, PCs, Asleep
  <1>4. MaskAt(t)'
    BY <1>1, <1>2, <1>3 DEF MaskAt, Restored, masks, history
  <1> QED BY <1>2, <1>3, <1>4, QuietStep DEF shared, history

LEMMA OverflowKeeps ==
    ASSUME IInv, NEW t \in Threads, Overflow(t)
    PROVE  IInv'
  <1>1. TypeOK /\ MaskAt(t)
    BY MasksApart DEF IInv
  <1>2. /\ pc[t] = "user" /\ pc' = pc
        /\ overflow' = [overflow EXCEPT ![t] = TRUE]
        /\ restart' = [restart EXCEPT ![t] = FALSE]
        /\ UNCHANGED <<shared, pending, queue, masks, resume, frames, history>>
    BY DEF Overflow
  <1>3. TypeOK' /\ OnlyOf(t)
    BY <1>1, <1>2 DEF TypeOK, OnlyOf, shared, masks, history
  <1>4. MaskAt(t)'
    BY <1>1, <1>2 DEF MaskAt, Restored, masks, history
  <1> QED BY <1>2, <1>3, <1>4, QuietStep DEF shared, history

LEMMA SigactionKeeps ==
    ASSUME IInv, NEW t \in Threads, NEW s \in Sigs, NEW a \in Actions[s], SigactionCall(t, s, a)
    PROVE  IInv'
  <1>1. TypeOK /\ MaskAt(t) /\ a \in SigAction
    BY MasksApart, GuestAssumption DEF IInv
  <1>2. /\ pc[t] = "user" /\ pc' = [pc EXCEPT ![t] = "receive"]
        /\ action' = [action EXCEPT ![s] = a]
        /\ restart' = [restart EXCEPT ![t] = FALSE]
        /\ UNCHANGED <<stopped, exited, clears, late, pending, queue, masks, resume, frames,
                       overflow, history>>
    BY DEF SigactionCall, Enter, Goto
  <1>3. TypeOK' /\ OnlyOf(t) /\ pc'[t] = "receive"
    BY <1>1, <1>2 DEF TypeOK, OnlyOf, masks, history, PCs
  <1>4. MaskAt(t)'
    BY <1>1, <1>2, <1>3 DEF MaskAt, Restored, masks, history
  <1> QED BY <1>2, <1>3, <1>4, QuietStep DEF history

LEMMA SigprocmaskKeeps ==
    ASSUME IInv, NEW t \in Threads, NEW m \in Masks, Sigprocmask(t, m)
    PROVE  IInv'
  <1>1. TypeOK /\ MaskAt(t) /\ m \in SUBSET Sigs
    BY MasksApart, GuestAssumption DEF IInv
  <1>2. /\ pc[t] = "user" /\ pc' = [pc EXCEPT ![t] = "receive"]
        /\ restart' = [restart EXCEPT ![t] = FALSE]
        /\ UNCHANGED <<shared, pending, queue, waiting, saved, resume, frames, overflow,
                       sent, owed>>
    BY DEF Sigprocmask, Enter, Goto
  <1>3. PICK new \in SUBSET Sigs :
           /\ blocked' = [blocked EXCEPT ![t] = new \ Unblockable]
           /\ asked' = [asked EXCEPT ![t] = new \ Unblockable]
    <2>1. blocked[t] \in SUBSET Sigs
      BY <1>1 DEF TypeOK
    <2>2. {m, blocked[t] \cup m, blocked[t] \ m} \subseteq SUBSET Sigs
      BY <1>1, <2>1
    <2> QED BY <2>2 DEF Sigprocmask, SigmaskSet
  <1>4. new \ Unblockable \in SUBSET Sigs
    OBVIOUS
  <1>5. TypeOK' /\ OnlyOf(t) /\ pc'[t] = "receive"
    BY <1>1, <1>2, <1>3, <1>4 DEF TypeOK, OnlyOf, shared, PCs
  <1>6. blocked'[t] = new \ Unblockable /\ asked'[t] = new \ Unblockable
    BY <1>1, <1>3 DEF TypeOK
  <1>7. MaskAt(t)'
    BY <1>1, <1>2, <1>5, <1>6 DEF MaskAt, Restored
  <1> QED BY <1>2, <1>5, <1>7, QuietStep DEF shared

LEMMA TempMaskKeeps ==
    ASSUME IInv, NEW t \in Threads, NEW c, NEW m \in Masks, NEW l \in {"suspend", "poll"},
           TempMask(t, c, m, l)
    PROVE  IInv'
  <1>1. TypeOK /\ MaskAt(t) /\ m \in SUBSET Sigs
    BY MasksApart, GuestAssumption DEF IInv
  <1>2. /\ pc[t] = "user" /\ pc' = [pc EXCEPT ![t] = l]
        /\ restart' = [restart EXCEPT ![t] = FALSE]
        /\ saved' = [saved EXCEPT ![t] = blocked[t]]
        /\ blocked' = [blocked EXCEPT ![t] = m \ Unblockable]
        /\ UNCHANGED <<shared, pending, queue, waiting, resume, frames, overflow, history>>
    BY DEF TempMask, Enter, Goto, SigmaskSet
  <1>3. blocked[t] \in SUBSET Sigs /\ m \ Unblockable \in SUBSET Sigs
    BY <1>1 DEF TypeOK
  <1>4. TypeOK' /\ OnlyOf(t) /\ pc'[t] = l
    BY <1>1, <1>2, <1>3 DEF TypeOK, OnlyOf, shared, history, PCs, Asleep
  <1>5. /\ blocked'[t] = m \ Unblockable /\ saved'[t] = blocked[t]
        /\ asked'[t] = asked[t] /\ frames'[t] = frames[t] /\ blocked[t] # NoMask
    BY <1>1, <1>2, <1>3, MaskAssumption DEF TypeOK, history
  <1>6. MaskAt(t)'
    BY <1>1, <1>2, <1>4, <1>5 DEF MaskAt, Restored
  <1> QED BY <1>2, <1>4, <1>6, QuietStep DEF shared, history

LEMMA SigtimedwaitKeeps ==
    ASSUME IInv, NEW t \in Threads, NEW m \in Masks, Sigtimedwait(t, m)
    PROVE  IInv'
  <1>1. TypeOK /\ MaskAt(t) /\ m \in SUBSET Sigs
    BY MasksApart, GuestAssumption DEF IInv
  <1>2. /\ pc[t] = "user" /\ pc' = [pc EXCEPT ![t] = "twait"]
        /\ restart' = [restart EXCEPT ![t] = FALSE]
        /\ waiting' = [waiting EXCEPT ![t] = m]
        /\ UNCHANGED <<shared, pending, queue, blocked, saved, resume, frames, overflow,
                       history>>
    BY DEF Sigtimedwait, Enter, Goto
  <1>3. TypeOK' /\ OnlyOf(t) /\ pc'[t] = "twait"
    BY <1>1, <1>2 DEF TypeOK, OnlyOf, shared, history, PCs, Asleep
  <1>4. MaskAt(t)'
    BY <1>1, <1>2, <1>3 DEF MaskAt, Restored, history
  <1> QED BY <1>2, <1>3, <1>4, QuietStep DEF shared, history

LEMMA TimeoutKeeps ==
    ASSUME IInv, NEW t \in Threads, SigtimedwaitTimeout(t)
    PROVE  IInv'
  <1>1. TypeOK /\ MaskAt(t)
    BY MasksApart DEF IInv
  <1>2. /\ pc[t] = "twait" /\ pc' = [pc EXCEPT ![t] = "receive"]
        /\ waiting' = [waiting EXCEPT ![t] = {}]
        /\ UNCHANGED <<queue, owed>>
        /\ UNCHANGED <<shared, pending, blocked, saved, guest, sent, asked>>
    BY DEF SigtimedwaitTimeout, Goto
  <1>3. TypeOK' /\ OnlyOf(t) /\ pc'[t] = "receive"
    BY <1>1, <1>2 DEF TypeOK, OnlyOf, shared, guest, PCs
  <1>4. MaskAt(t)'
    BY <1>1, <1>2, <1>3 DEF MaskAt, Restored, guest
  <1> QED BY <1>2, <1>3, <1>4, QuietStep DEF shared

LEMMA SigreturnKeeps ==
    ASSUME IInv, NEW t \in Threads, Sigreturn(t)
    PROVE  IInv'
  <1> DEFINE f == Last(frames[t])
  <1>1. TypeOK /\ MaskAt(t) /\ frames[t] \in Seq(Frame) /\ frames[t] # <<>>
    BY MasksApart DEF IInv, TypeOK, Sigreturn
  <1>2. f \in Frame /\ f.mask = f.believed
    <2>1. Len(frames[t]) \in DOMAIN frames[t] /\ f = frames[t][Len(frames[t])]
      BY <1>1 DEF Last
    <2> QED BY <1>1, <2>1 DEF MaskAt
  <1>3. /\ Front(frames[t]) \in Seq(Frame)
        /\ \A i \in DOMAIN Front(frames[t]) :
             i \in DOMAIN frames[t] /\ Front(frames[t])[i] = frames[t][i]
    BY <1>1 DEF Front
  <1>4. /\ pc[t] = "user" /\ pc' = [pc EXCEPT ![t] = "receive"]
        /\ blocked' = [blocked EXCEPT ![t] = f.mask \ Unblockable]
        /\ asked' = [asked EXCEPT ![t] = f.believed \ Unblockable]
        /\ resume' = [resume EXCEPT ![t] = f.resume]
        /\ restart' = [restart EXCEPT ![t] = FALSE]
        /\ frames' = [frames EXCEPT ![t] = Front(frames[t])]
        /\ UNCHANGED <<shared, pending, queue, waiting, saved, overflow, sent, owed>>
    BY DEF Sigreturn, Goto, SigmaskSet
  <1> HIDE DEF f
  <1>5. /\ f.mask \ Unblockable \in SUBSET Sigs /\ f.believed \ Unblockable \in SUBSET Sigs
        /\ f.resume \in {"user", "read"}
    BY <1>2 DEF Frame
  <1>6. OnlyOf(t) /\ pc'[t] = "receive"
    BY <1>1, <1>4 DEF TypeOK, OnlyOf
  <1>7. TypeOK'
    BY <1>1, <1>3, <1>4, <1>5 DEF TypeOK, shared, PCs
  <1>8. /\ blocked'[t] = f.mask \ Unblockable /\ asked'[t] = f.mask \ Unblockable
        /\ frames'[t] = Front(frames[t]) /\ saved'[t] = NoMask
    BY <1>1, <1>2, <1>4 DEF TypeOK, MaskAt
  <1>9. MaskAt(t)'
    BY <1>1, <1>3, <1>6, <1>8 DEF MaskAt, Restored
  <1> QED BY <1>4, <1>6, <1>7, <1>9, QuietStep DEF shared

-----------------------------------------------------------------------------
(***************************************************************************)
(* The steps that queue and take signals.                                  *)
(***************************************************************************)

LEMMA ContinueKeeps ==
    ASSUME IInv, Continue
    PROVE  IInv'
  <1>1. TypeOK /\ clears > 0 /\ clears' = clears - 1 /\ stopped' = FALSE /\ late' = FALSE
    BY DEF IInv, Continue
  <1>2. UNCHANGED <<action, exited, pc, pending, queue, masks, guest, history>>
    BY DEF Continue
  <1>3. TypeOK'
    <2>1. clears' \in 0 .. MaxSends /\ {stopped', exited', late'} \subseteq BOOLEAN
      <3>1. clears \in 0 .. MaxSends /\ exited \in BOOLEAN /\ exited' = exited
        BY <1>1, <1>2 DEF TypeOK
      <3>2. clears - 1 \in 0 .. MaxSends
        BY <1>1, <3>1, SendsAssumption
      <3> QED BY <1>1, <3>1, <3>2
    <2> QED BY <1>1, <1>2, <2>1 DEF TypeOK, masks, guest, history
  <1>4. clears' <= sent'
    BY <1>1, <1>2, SendsAssumption DEF IInv, TypeOK, history
  <1>5. QueueHasBits' /\ RealTimeKept'
    BY <1>2 DEF IInv, QueueHasBits, RealTimeKept, Unlocked, history
  <1>6. MaskHistory' /\ NoFrameNoBlock'
    BY <1>2 DEF IInv, MaskHistory, NoFrameNoBlock, Restored, masks, guest, history
  <1> QED BY <1>3, <1>4, <1>5, <1>6 DEF IInv

\* What a queue has to satisfy while the lock is free.
Queued(t) == ToSet(queue[t]) \subseteq pending[t] /\ Once(queue[t])

LEMMA QueuedBits == QueueHasBits <=> (~ exited /\ Unlocked => \A t \in Threads : Queued(t))
  BY DEF QueueHasBits, Queued, Once

\* One queue changes, under the lock.
LEMMA OneQueue ==
    ASSUME QueueHasBits, NEW t \in Threads, ~ exited, Unlocked,
           \A u \in Threads \ {t} : queue'[u] = queue[u] /\ pending'[u] = pending[u],
           ~ exited' /\ Unlocked' => Queued(t)'
    PROVE  QueueHasBits'
  <1>1. ASSUME ~ exited', Unlocked', NEW u \in Threads PROVE Queued(u)'
    <2>1. CASE u = t
      BY <1>1, <2>1
    <2>2. CASE u # t
      <3>1. Queued(u)
        BY QueuedBits
      <3> QED BY <2>2, <3>1 DEF Queued
    <2> QED BY <2>1, <2>2
  <1> QED BY <1>1 DEF QueueHasBits, Queued, Once

\* One thread's instances change, and what is owed of them.
LEMMA OneOwed ==
    ASSUME RealTimeKept, NEW t \in Threads,
           \A u \in Threads \ {t} : queue'[u] = queue[u] /\ owed'[u] = owed[u],
           \A r \in RealTime : owed'[t][r] = Cardinality(Instances(queue'[t], r))
    PROVE  RealTimeKept'
  <1>1. ASSUME NEW u \in Threads, NEW r \in RealTime
        PROVE  owed'[u][r] = Cardinality(Instances(queue'[u], r))
    <2>1. CASE u = t
      BY <2>1
    <2>2. CASE u # t
      BY <2>2 DEF RealTimeKept
    <2> QED BY <2>1, <2>2
  <1>2. \A q, r : Instances(q, r)' = Instances(q', r')
    BY DEF Instances
  <1> QED BY <1>1, <1>2 DEF RealTimeKept

LEMMA DeliverKeeps ==
    ASSUME IInv, NEW t \in Threads, NEW s \in Sigs, ~ exited, Unlocked,
           UNCHANGED <<exited, pc>>, Deliver(t, s),
           owed' = IF s \in RealTime THEN [owed EXCEPT ![t][s] = @ + 1] ELSE owed
    PROVE  /\ QueueHasBits' /\ RealTimeKept'
           /\ pending' \in [Threads -> SUBSET Sigs] /\ queue' \in [Threads -> Seq(Sigs)]
           /\ owed' \in [Threads -> [RealTime -> Nat]]
  <1> DEFINE again == s \in pending[t] \ RealTime
             q == queue[t]
  <1>1. /\ TypeOK /\ Queued(t) /\ QueueHasBits /\ RealTimeKept
        /\ q \in Seq(Sigs) /\ pending[t] \in SUBSET Sigs /\ owed[t] \in [RealTime -> Nat]
    BY QueuedBits DEF IInv, TypeOK
  <1>2. /\ pending'[t] = pending[t] \cup {s}
        /\ queue'[t] = IF again THEN q ELSE Append(q, s)
        /\ \A u \in Threads \ {t} : queue'[u] = queue[u] /\ pending'[u] = pending[u]
        /\ pending' \in [Threads -> SUBSET Sigs]
        /\ queue' \in [Threads -> Seq(Sigs)]
    BY <1>1 DEF Deliver, TypeOK
  <1>3. /\ \A u \in Threads \ {t} : owed'[u] = owed[u]
        /\ \A r \in RealTime : owed'[t][r] = owed[t][r] + (IF r = s THEN 1 ELSE 0)
        /\ owed' \in [Threads -> [RealTime -> Nat]]
    <2>1. CASE s \in RealTime
      <3>1. owed' = [owed EXCEPT ![t] = [owed[t] EXCEPT ![s] = owed[t][s] + 1]]
        BY <2>1
      <3> QED BY <1>1, <2>1, <3>1 DEF TypeOK
    <2>2. CASE s \notin RealTime
      <3>1. owed' = owed
        BY <2>2
      <3> QED BY <1>1, <2>2, <3>1 DEF TypeOK
    <2> QED BY <2>1, <2>2
  <1>4. Queued(t)'
    <2>1. CASE again
      BY <1>1, <1>2, <2>1 DEF Queued, ToSet
    <2>2. CASE ~ again
      <3>1. /\ DOMAIN queue'[t] = 1 .. Len(q) + 1 /\ queue'[t][Len(q) + 1] = s
            /\ DOMAIN q = 1 .. Len(q) /\ Len(q) \in Nat
            /\ \A k \in 1 .. Len(q) : queue'[t][k] = q[k]
        BY <1>1, <1>2, <2>2
      <3>2. \A k \in DOMAIN q : q[k] \in pending[t]
        BY <1>1 DEF Queued, ToSet
      <3>3. \A k \in DOMAIN queue'[t] : queue'[t][k] \in pending'[t]
        BY <1>2, <3>1, <3>2
      <3>4. ToSet(queue'[t]) \subseteq pending'[t]
        BY <3>3 DEF ToSet
      <3>5. ASSUME NEW k \in DOMAIN queue'[t], NEW l \in DOMAIN queue'[t], k # l,
                   queue'[t][k] = queue'[t][l]
            PROVE  queue'[t][k] \in RealTime
        <4>1. CASE k \in DOMAIN q /\ l \in DOMAIN q
          BY <1>1, <3>1, <3>5, <4>1 DEF Queued, Once
        <4>2. CASE k = Len(q) + 1 \/ l = Len(q) + 1
          <5>1. queue'[t][k] = s /\ s \in pending[t]
            BY <3>1, <3>2, <3>5, <4>2
          <5> QED BY <2>2, <5>1
        <4> QED BY <3>1, <3>5, <4>1, <4>2
      <3>6. Once(queue'[t])
        BY <3>5 DEF Once
      <3> QED BY <3>4, <3>6 DEF Queued, ToSet, Once
    <2> QED BY <2>1, <2>2
  <1>5. QueueHasBits'
    BY <1>1, <1>2, <1>4, OneQueue
  <1>6. ASSUME NEW r \in RealTime
        PROVE  owed'[t][r] = Cardinality(Instances(queue'[t], r))
    <2>1. owed[t][r] = Cardinality(Instances(q, r)) /\ Cardinality(Instances(q, r)) \in Nat
      BY <1>1, InstancesCount DEF RealTimeKept
    <2>2. CASE again
      BY <1>2, <1>3, <2>1, <2>2
    <2>3. CASE ~ again
      <3>1. Cardinality(Instances(queue'[t], r)) =
              Cardinality(Instances(q, r)) + (IF s = r THEN 1 ELSE 0)
        BY <1>1, <1>2, <2>3, AppendCount
      <3> QED BY <1>3, <2>1, <3>1
    <2> QED BY <2>2, <2>3
  <1>7. RealTimeKept'
    BY <1>1, <1>2, <1>3, <1>6, OneOwed
  <1> QED BY <1>2, <1>3, <1>5, <1>7

LEMMA SendKeeps ==
    ASSUME IInv, NEW t \in Threads, NEW s \in Sigs, Send(t, s)
    PROVE  IInv'
  <1>1. /\ TypeOK /\ ~ exited /\ Unlocked /\ sent < MaxSends /\ sent' = sent + 1
        /\ clears' = clears + (IF s \in Resumes THEN 1 ELSE 0)
        /\ UNCHANGED <<action, stopped, exited, late, pc, masks, guest, asked>>
    BY DEF IInv, Send
  <1>2. /\ QueueHasBits' /\ RealTimeKept'
        /\ pending' \in [Threads -> SUBSET Sigs] /\ queue' \in [Threads -> Seq(Sigs)]
        /\ owed' \in [Threads -> [RealTime -> Nat]]
    <2>1. CASE Disposition(action, s) = "ignore"
      <3>1. UNCHANGED <<pending, queue, owed>>
        BY <2>1 DEF Send
      <3>2. QueueHasBits' /\ RealTimeKept'
        BY <1>1, <3>1 DEF IInv, QueueHasBits, RealTimeKept, Unlocked
      <3> QED BY <1>1, <3>1, <3>2 DEF TypeOK
    <2>2. CASE Disposition(action, s) # "ignore"
      <3>1. /\ Deliver(t, s)
            /\ owed' = IF s \in RealTime THEN [owed EXCEPT ![t][s] = @ + 1] ELSE owed
        BY <2>2 DEF Send
      <3> QED BY <1>1, <3>1, DeliverKeeps
    <2> QED BY <2>1, <2>2
  <1>3. clears' \in 0 .. MaxSends /\ sent' \in 0 .. MaxSends /\ clears' <= sent'
    BY <1>1, SendsAssumption DEF IInv, TypeOK
  <1>4. TypeOK'
    BY <1>1, <1>2, <1>3 DEF TypeOK, masks, guest
  <1>5. MaskHistory' /\ NoFrameNoBlock'
    BY <1>1 DEF IInv, MaskHistory, NoFrameNoBlock, Restored, masks, guest
  <1> QED BY <1>2, <1>3, <1>4, <1>5 DEF IInv

\* rt_sigtimedwait finds the position of an entry, or 0.
LEMMA FoundEntry ==
    ASSUME TypeOK, NEW t \in Threads, Found(t) # 0
    PROVE  Found(t) \in 1 .. Len(queue[t])
  <1> DEFINE q == queue[t]
             I == {i \in 1 .. Len(q) : q[i] \in waiting[t]}
  <1>1. q \in Seq(Sigs) /\ I \in SUBSET Nat
    BY DEF TypeOK
  <1>2. I # {} /\ Found(t) = Min(I)
    BY DEF Found, SelectInSeq
  <1>3. \E x \in I : \A y \in I : x <= y
    BY <1>1, <1>2, LeastMember
  <1>4. Min(I) \in I
    BY <1>3 DEF Min
  <1> QED BY <1>2, <1>4

LEMMA RemoveKeeps ==
    ASSUME IInv, NEW t \in Threads, NEW k \in 1 .. Len(queue[t]), ~ exited, Unlocked,
           UNCHANGED <<exited, pending>>,
           queue' = [queue EXCEPT ![t] = RemoveAt(queue[t], k)],
           owed' = IF queue[t][k] \in RealTime
                   THEN [owed EXCEPT ![t][queue[t][k]] = @ - 1] ELSE owed
    PROVE  /\ QueueHasBits' /\ RealTimeKept'
           /\ queue' \in [Threads -> Seq(Sigs)] /\ owed' \in [Threads -> [RealTime -> Nat]]
  <1> DEFINE q == queue[t]
             s == q[k]
             r == RemoveAt(q, k)
  <1>1. /\ TypeOK /\ Queued(t) /\ QueueHasBits /\ RealTimeKept
        /\ q \in Seq(Sigs) /\ pending[t] \in SUBSET Sigs /\ owed[t] \in [RealTime -> Nat]
    BY QueuedBits DEF IInv, TypeOK
  <1>2. /\ r \in Seq(Sigs) /\ Len(r) = Len(q) - 1
        /\ \A j \in 1 .. Len(q) - 1 : r[j] = IF j < k THEN q[j] ELSE q[j + 1]
    BY <1>1, RemoveEntries
  <1> HIDE DEF r
  <1>3. /\ queue'[t] = r
        /\ \A u \in Threads \ {t} : queue'[u] = queue[u] /\ pending'[u] = pending[u]
        /\ queue' \in [Threads -> Seq(Sigs)]
    BY <1>1, <1>2 DEF TypeOK, r
  <1>4. /\ \A u \in Threads \ {t} : owed'[u] = owed[u]
        /\ \A x \in RealTime : owed'[t][x] = owed[t][x] - (IF s = x THEN 1 ELSE 0)
    <2>1. CASE s \in RealTime
      <3>1. owed' = [owed EXCEPT ![t] = [owed[t] EXCEPT ![s] = owed[t][s] - 1]]
        BY <2>1
      <3> QED BY <1>1, <2>1, <3>1 DEF TypeOK
    <2>2. CASE s \notin RealTime
      <3>1. owed' = owed
        BY <2>2
      <3> QED BY <1>1, <2>2, <3>1 DEF TypeOK
    <2> QED BY <2>1, <2>2
  <1>5. Queued(t)'
    <2> DEFINE at(j) == IF j < k THEN j ELSE j + 1
    <2>0. /\ DOMAIN q = 1 .. Len(q) /\ DOMAIN r = 1 .. Len(q) - 1
          /\ Len(q) \in Nat /\ k \in Nat
      BY <1>1, <1>2
    <2>1. ASSUME NEW j \in DOMAIN r
          PROVE  at(j) \in DOMAIN q /\ r[j] = q[at(j)]
      <3>1. j \in Nat /\ j \in 1 .. Len(q) /\ j + 1 \in 1 .. Len(q)
        BY <2>0
      <3> QED BY <1>2, <2>0, <3>1
    <2>2. ASSUME NEW i \in DOMAIN r, NEW j \in DOMAIN r, i # j
          PROVE  at(i) # at(j)
      <3>1. i \in Nat /\ j \in Nat
        BY <2>0
      <3> QED BY <2>0, <2>2, <3>1
    <2> HIDE DEF at
    <2>3. \A j \in DOMAIN r : r[j] \in pending[t]
      BY <1>1, <2>1 DEF Queued, ToSet
    <2>4. \A i, j \in DOMAIN r : i # j /\ r[i] = r[j] => r[i] \in RealTime
      BY <1>1, <2>1, <2>2 DEF Queued, Once
    <2> QED BY <1>3, <2>3, <2>4 DEF Queued, ToSet, Once
  <1>6. QueueHasBits'
    BY <1>1, <1>3, <1>5, OneQueue
  <1>7. ASSUME NEW x \in RealTime
        PROVE  owed'[t][x] = Cardinality(Instances(queue'[t], x)) /\ owed'[t][x] \in Nat
    <2>1. owed[t][x] = Cardinality(Instances(q, x)) /\ Cardinality(Instances(q, x)) \in Nat
      BY <1>1, InstancesCount DEF RealTimeKept
    <2>2. /\ Cardinality(Instances(r, x)) =
               Cardinality(Instances(q, x)) - (IF s = x THEN 1 ELSE 0)
          /\ Cardinality(Instances(r, x)) \in Nat
      BY <1>1, <1>2, RemoveCount, InstancesCount DEF r
    <2> QED BY <1>3, <1>4, <2>1, <2>2
  <1>8. RealTimeKept'
    BY <1>1, <1>3, <1>4, <1>7, OneOwed
  <1>9. owed' \in [Threads -> [RealTime -> Nat]]
    <2>1. CASE s \in RealTime
      <3>1. owed' = [owed EXCEPT ![t] = [owed[t] EXCEPT ![s] = owed[t][s] - 1]]
        BY <2>1
      <3>2. [owed[t] EXCEPT ![s] = owed[t][s] - 1] = owed'[t]
        BY <1>1, <3>1 DEF TypeOK
      <3>3. [owed[t] EXCEPT ![s] = owed[t][s] - 1] \in [RealTime -> Nat]
        BY <1>1, <1>7, <3>2
      <3> QED BY <1>1, <3>1, <3>3 DEF TypeOK
    <2>2. CASE s \notin RealTime
      BY <1>1, <2>2 DEF TypeOK
    <2> QED BY <2>1, <2>2
  <1> QED BY <1>3, <1>6, <1>8, <1>9

LEMMA SigtimedwaitEndKeeps ==
    ASSUME IInv, NEW t \in Threads, SigtimedwaitEnd(t)
    PROVE  IInv'
  <1>1. TypeOK /\ MaskAt(t)
    BY MasksApart DEF IInv
  <1>2. /\ ~ exited /\ Unlocked /\ pc[t] = "twait" /\ pc' = [pc EXCEPT ![t] = "receive"]
        /\ waiting' = [waiting EXCEPT ![t] = {}]
        /\ UNCHANGED <<shared, pending, blocked, saved, guest, sent, asked>>
    BY DEF SigtimedwaitEnd, Goto
  <1>3. OnlyOf(t) /\ pc'[t] = "receive"
    BY <1>1, <1>2 DEF TypeOK, OnlyOf, guest
  <1>4. /\ QueueHasBits' /\ RealTimeKept'
        /\ queue' \in [Threads -> Seq(Sigs)] /\ owed' \in [Threads -> [RealTime -> Nat]]
    <2>1. CASE Found(t) # 0 /\ queue' = [queue EXCEPT ![t] = RemoveAt(@, Found(t))]
      <3> DEFINE k == Found(t)
      <3>1. /\ k \in 1 .. Len(queue[t])
            /\ queue' = [queue EXCEPT ![t] = RemoveAt(queue[t], k)]
        BY <1>1, <2>1, FoundEntry
      <3>2. owed' = IF queue[t][k] \in RealTime
                    THEN [owed EXCEPT ![t][queue[t][k]] = @ - 1] ELSE owed
        BY <2>1 DEF SigtimedwaitEnd
      <3> HIDE DEF k
      <3> QED BY <1>2, <3>1, <3>2, RemoveKeeps DEF shared
    <2>2. CASE UNCHANGED <<queue, owed>>
      <3>1. QueueHasBits' /\ RealTimeKept'
        BY <1>2, <1>3, <2>2, QueuesKept DEF IInv, shared
      <3> QED BY <1>1, <2>2, <3>1 DEF TypeOK
    <2> QED BY <2>1, <2>2 DEF SigtimedwaitEnd
  <1>5. TypeOK'
    BY <1>1, <1>2, <1>4 DEF TypeOK, shared, guest, PCs
  <1>6. MaskAt(t)'
    BY <1>1, <1>2, <1>3 DEF MaskAt, Restored, guest
  <1>7. MaskHistory' /\ NoFrameNoBlock'
    BY <1>3, <1>6, MasksKept DEF IInv
  <1>8. clears' <= sent'
    BY <1>2 DEF IInv, shared
  <1> QED BY <1>4, <1>5, <1>7, <1>8 DEF IInv


-----------------------------------------------------------------------------
(***************************************************************************)
(* receive_signals as a whole.                                             *)
(***************************************************************************)

\* What the loop leaves: the types, and nothing of the queue ahead of it.
End(t) == Walk(t)[Len(queue[t])]

LEMMA EndTyped ==
    ASSUME TypeOK, NEW t \in Threads
    PROVE  End(t) \in RunState /\ Len(queue[t]) \in 0 .. Len(queue[t])
  <1>1. Len(queue[t]) \in 0 .. Len(queue[t])
    BY StartTyped
  <1> QED BY <1>1, WalkTyped DEF End

\* The variables after the step, for the thread itself and for the others.
LEMMA ReceiveFields ==
    ASSUME TypeOK, NEW t \in Threads, Receive(t)
    PROVE  /\ ~ exited /\ Unlocked /\ pc[t] = "receive"
           /\ action' = End(t).action /\ stopped' = End(t).stopped /\ exited' = End(t).killed
           /\ pending' = [pending EXCEPT ![t] = End(t).pending]
           /\ queue' = [queue EXCEPT ![t] = End(t).queue]
           /\ blocked' = [blocked EXCEPT ![t] = End(t).blocked]
           /\ asked' = [asked EXCEPT ![t] = End(t).asked]
           /\ frames' = [frames EXCEPT ![t] = End(t).frames]
           /\ resume' = [resume EXCEPT ![t] = End(t).resume]
           /\ restart' = [restart EXCEPT ![t] = End(t).restart]
           /\ owed' = [owed EXCEPT ![t] = End(t).owed]
           /\ pc' = [pc EXCEPT ![t] = IF End(t).stuck THEN "stuck" ELSE "stopwait"]
           /\ saved' = [saved EXCEPT ![t] = NoMask]
           /\ UNCHANGED <<clears, waiting, overflow, sent>>
           /\ late' = (late \/ (KillPast /\ Stop \in ToSet(queue[t]) \ ToSet(End(t).queue)))
  BY DEF Receive, End, Goto

\* The types, but for owed, which WalkOwed counts.
LEMMA ReceiveTypes ==
    ASSUME TypeOK, NEW t \in Threads, Receive(t), owed' \in [Threads -> [RealTime -> Nat]]
    PROVE  TypeOK'
  <1> DEFINE end == End(t)
  <1>1. end \in RunState
    BY EndTyped
  <1>0. /\ action' = end.action /\ stopped' = end.stopped /\ exited' = end.killed
        /\ pending' = [pending EXCEPT ![t] = end.pending]
        /\ queue' = [queue EXCEPT ![t] = end.queue]
        /\ blocked' = [blocked EXCEPT ![t] = end.blocked]
        /\ asked' = [asked EXCEPT ![t] = end.asked]
        /\ frames' = [frames EXCEPT ![t] = end.frames]
        /\ resume' = [resume EXCEPT ![t] = end.resume]
        /\ restart' = [restart EXCEPT ![t] = end.restart]
        /\ pc' = [pc EXCEPT ![t] = IF end.stuck THEN "stuck" ELSE "stopwait"]
    BY ReceiveFields
  <1> HIDE DEF end
  <1>2. /\ end.action \in [Sigs -> SigAction] /\ end.stopped \in BOOLEAN
        /\ end.killed \in BOOLEAN /\ end.stuck \in BOOLEAN
        /\ end.pending \in SUBSET Sigs /\ end.queue \in Seq(Sigs)
        /\ end.blocked \in SUBSET Sigs /\ end.asked \in SUBSET Sigs
        /\ end.frames \in Seq(Frame) /\ end.resume \in {"user", "read"}
        /\ end.restart \in BOOLEAN
    BY <1>1 DEF RunState
  <1>3. action' \in [Sigs -> SigAction] /\ stopped' \in BOOLEAN /\ exited' \in BOOLEAN
    BY <1>0, <1>2
  <1>4. pending' \in [Threads -> SUBSET Sigs] /\ queue' \in [Threads -> Seq(Sigs)]
    BY <1>0, <1>2 DEF TypeOK
  <1>5. blocked' \in [Threads -> SUBSET Sigs] /\ asked' \in [Threads -> SUBSET Sigs]
    BY <1>0, <1>2 DEF TypeOK
  <1>6. frames' \in [Threads -> Seq(Frame)] /\ resume' \in [Threads -> {"user", "read"}]
    BY <1>0, <1>2 DEF TypeOK
  <1>7. restart' \in [Threads -> BOOLEAN] /\ pc' \in [Threads -> PCs]
    BY <1>0, <1>2 DEF TypeOK, PCs
  <1>8. /\ saved' \in [Threads -> (SUBSET Sigs) \cup {NoMask}]
        /\ waiting' \in [Threads -> SUBSET Sigs] /\ overflow' \in [Threads -> BOOLEAN]
        /\ clears' \in 0 .. MaxSends /\ sent' \in 0 .. MaxSends
    BY ReceiveFields DEF TypeOK
  <1>9. late' \in BOOLEAN
    <2>1. late' = (late \/ (KillPast /\ Stop \in ToSet(queue[t]) \ ToSet(End(t).queue)))
      BY ReceiveFields
    <2> QED BY <2>1
  <1> QED BY <1>3, <1>4, <1>5, <1>6, <1>7, <1>8, <1>9 DEF TypeOK

\* Every instance of a real-time signal is on the queue still, or was taken.
LEMMA ReceiveOwed ==
    ASSUME TypeOK, RealTimeKept, NEW t \in Threads, Receive(t)
    PROVE  RealTimeKept' /\ owed' \in [Threads -> [RealTime -> Nat]]
  <1> DEFINE end == End(t)
             q == queue[t]
  <1>1. end \in RunState /\ Len(q) \in 0 .. Len(q) /\ q \in Seq(Sigs)
    BY EndTyped, StartTyped
  <1>2. ASSUME NEW r \in RealTime
        PROVE  end.owed[r] = Cardinality(Instances(end.queue, r)) /\ end.owed[r] \in Nat
    <2>1. end.owed[r] = Cardinality(Instances(end.queue, r))
                          + Cardinality(Ahead(q, Len(q), r))
      BY <1>1, WalkOwed DEF End
    <2>2. Cardinality(Ahead(q, Len(q), r)) = 0
      BY <1>1, AheadEnds, FS_EmptySet
    <2>3. end.queue \in Seq(Sigs)
      BY <1>1 DEF RunState
    <2>4. Cardinality(Instances(end.queue, r)) \in Nat
      BY <2>3, InstancesCount
    <2> HIDE DEF end
    <2> QED BY <2>1, <2>2, <2>4
  <1> HIDE DEF end
  <1>3. end.owed \in [RealTime -> Int]
    BY <1>1 DEF RunState
  <1>4. end.owed \in [RealTime -> Nat]
    BY <1>2, <1>3
  <1>5. owed' = [owed EXCEPT ![t] = end.owed] /\ queue' = [queue EXCEPT ![t] = end.queue]
    BY ReceiveFields DEF end
  <1>6. owed' \in [Threads -> [RealTime -> Nat]]
    BY <1>4, <1>5 DEF TypeOK
  <1>7. /\ \A u \in Threads \ {t} : queue'[u] = queue[u] /\ owed'[u] = owed[u]
        /\ owed'[t] = end.owed /\ queue'[t] = end.queue
    BY <1>5 DEF TypeOK
  <1>8. RealTimeKept'
    BY <1>2, <1>7, OneOwed
  <1> QED BY <1>6, <1>8

\* What is left on the queue has its bit still.
LEMMA ReceiveBits ==
    ASSUME TypeOK, QueueHasBits, NEW t \in Threads, Receive(t)
    PROVE  QueueHasBits'
  <1> DEFINE end == End(t)
             q == queue[t]
  <1>1. /\ end \in RunState /\ Len(q) \in 0 .. Len(q) /\ q \in Seq(Sigs)
        /\ ~ exited /\ Unlocked /\ Queued(t)
    BY EndTyped, StartTyped, ReceiveFields, QueuedBits
  <1>2. KeepsPart(t, end, Len(q)) /\ KeepsSkipped(t, end)
    BY <1>1, WalkKeepsPart, WalkKeepsSkipped DEF Queued, End
  <1> HIDE DEF end
  <1>3. /\ \A u \in Threads \ {t} : queue'[u] = queue[u] /\ pending'[u] = pending[u]
        /\ queue'[t] = end.queue /\ pending'[t] = end.pending /\ exited' = end.killed
        /\ pc'[t] = IF end.stuck THEN "stuck" ELSE "stopwait"
    BY ReceiveFields DEF end, TypeOK
  <1>4. ASSUME ~ exited', Unlocked' PROVE Queued(t)'
    <2>1. Going(end)
      BY <1>3, <1>4 DEF Unlocked, Going
    <2>2. ASSUME NEW k \in DOMAIN end.queue PROVE end.queue[k] \in end.pending
      <3>1. PICK j \in 1 .. Len(q) : q[j] = end.queue[k]
        BY <1>2 DEF KeepsPart
      <3>2. q[j] \in pending[t]
        BY <1>1, <3>1 DEF Queued, ToSet
      <3> QED BY <1>2, <2>1, <3>1, <3>2 DEF KeepsSkipped
    <2>3. Once(end.queue)
      BY <1>2 DEF KeepsPart
    <2> QED BY <1>3, <2>2, <2>3 DEF Queued, ToSet, Once
  <1> QED BY <1>1, <1>3, <1>4, OneQueue

LEMMA ReceiveMasks ==
    ASSUME TypeOK, MaskHistory, NoFrameNoBlock, NEW t \in Threads, Receive(t)
    PROVE  MaskHistory' /\ NoFrameNoBlock'
  <1> DEFINE end == End(t)
  <1>1. /\ Len(queue[t]) \in 0 .. Len(queue[t]) /\ pc[t] = "receive" /\ MaskAt(t)
    BY EndTyped, ReceiveFields, MasksApart
  <1>2. /\ Start(t).blocked = Restored(t) /\ Start(t).asked = asked[t]
        /\ Start(t).frames = frames[t]
    BY DEF Start
  <1>3. MaskTogether(Start(t)) /\ OnlyInHandler(Start(t))
    BY <1>1, <1>2 DEF MaskTogether, OnlyInHandler, MaskAt
  <1>4. MaskTogether(end) /\ OnlyInHandler(end)
    BY <1>1, <1>3, WalkMask DEF End
  <1> HIDE DEF end
  <1>5. /\ OnlyOf(t)
        /\ blocked'[t] = end.blocked /\ asked'[t] = end.asked /\ frames'[t] = end.frames
        /\ saved'[t] = NoMask
        /\ pc'[t] = IF end.stuck THEN "stuck" ELSE "stopwait"
    BY ReceiveFields DEF end, TypeOK, OnlyOf
  <1>6. MaskAt(t)'
    BY <1>4, <1>5 DEF MaskAt, Restored, MaskTogether, OnlyInHandler
  <1> QED BY <1>5, <1>6, MasksKept

LEMMA ReceiveKeeps ==
    ASSUME IInv, NEW t \in Threads, Receive(t)
    PROVE  IInv'
  <1>1. QueueHasBits' /\ MaskHistory' /\ NoFrameNoBlock'
    BY ReceiveBits, ReceiveMasks DEF IInv
  <1>2. RealTimeKept' /\ TypeOK'
    BY ReceiveOwed, ReceiveTypes DEF IInv
  <1>3. clears' <= sent'
    BY ReceiveFields DEF IInv
  <1> QED BY <1>1, <1>2, <1>3 DEF IInv


-----------------------------------------------------------------------------
(***************************************************************************)
(* The invariant, and what follows from it.                                *)
(***************************************************************************)

LEMMA InitIInv == Init => IInv
  <1> SUFFICES ASSUME Init PROVE IInv
    OBVIOUS
  <1>1. Default \in SigAction /\ MaxSends \in Nat /\ {} \in SUBSET Sigs
    BY SendsAssumption DEF Default, SigAction
  <1>2. TypeOK
    <2>0. action = [s \in Sigs |-> Default]
      BY DEF Init
    <2>7. action \in [Sigs -> SigAction]
      BY <1>1, <2>0
    <2>8. stopped = FALSE /\ exited = FALSE /\ clears = 0 /\ sent = 0 /\ late = FALSE
      BY DEF Init
    <2>1. clears \in 0 .. MaxSends /\ sent \in 0 .. MaxSends
      BY <1>1, <2>8
    <2>9. {stopped, exited, late} \subseteq BOOLEAN
      BY <2>8, Zenon
    <2>6. pc \in [Threads -> PCs]
      BY DEF Init, PCs
    <2>2. /\ pending \in [Threads -> SUBSET Sigs] /\ blocked \in [Threads -> SUBSET Sigs]
          /\ waiting \in [Threads -> SUBSET Sigs] /\ asked \in [Threads -> SUBSET Sigs]
          /\ saved \in [Threads -> (SUBSET Sigs) \cup {NoMask}]
      BY <1>1 DEF Init
    <2>3. <<>> \in Seq(Sigs) /\ <<>> \in Seq(Frame)
      OBVIOUS
    <2>4. queue \in [Threads -> Seq(Sigs)] /\ frames \in [Threads -> Seq(Frame)]
      BY <2>3 DEF Init
    <2>5. /\ restart \in [Threads -> BOOLEAN] /\ resume \in [Threads -> {"user", "read"}]
          /\ overflow \in [Threads -> BOOLEAN]
          /\ owed \in [Threads -> [RealTime -> Nat]]
      BY DEF Init
    <2> QED BY <2>1, <2>2, <2>4, <2>5, <2>6, <2>7, <2>9 DEF TypeOK
  <1>3. QueueHasBits
    BY DEF Init, QueueHasBits, ToSet
  <1>4. RealTimeKept
    <2>1. ASSUME NEW s PROVE Instances(<<>>, s) = {} /\ Cardinality({}) = 0
      BY FS_EmptySet DEF Instances
    <2> QED BY <2>1 DEF Init, RealTimeKept
  <1>5. MaskHistory /\ NoFrameNoBlock
    BY DEF Init, MaskHistory, NoFrameNoBlock, Restored
  <1> QED BY <1>2, <1>3, <1>4, <1>5 DEF Init, IInv

LEMMA StutterKeeps == IInv /\ UNCHANGED vars => IInv'
  BY DEF vars, shared, masks, guest, history, IInv, TypeOK, QueueHasBits, RealTimeKept,
         Instances, MaskHistory, NoFrameNoBlock, Restored, Unlocked

LEMMA NextIInv == IInv /\ [Next]_vars => IInv'
  <1> SUFFICES ASSUME IInv, Next PROVE IInv'
    BY StutterKeeps
  <1>1. CASE Continue
    BY <1>1, ContinueKeeps
  <1>2. ASSUME NEW t \in Threads, Kernel(t) PROVE IInv'
    BY <1>2, InterruptedKeeps, SigtimedwaitEndKeeps, ReceiveKeeps, ReturnKeeps DEF Kernel
  <1>3. ASSUME NEW t \in Threads, Interrupt(t) PROVE IInv'
    BY <1>3, InterruptKeeps
  <1>4. ASSUME NEW t \in Threads, NEW s \in Directed[t], Send(t, s) PROVE IInv'
    <2>1. s \in Sigs
      BY GuestAssumption
    <2> QED BY <1>4, <2>1, SendKeeps
  <1>5. ASSUME NEW t \in Threads, Guest(t) PROVE IInv'
    <2>1. ASSUME NEW s \in Sigs, NEW a \in Actions[s], SigactionCall(t, s, a) PROVE IInv'
      BY <2>1, SigactionKeeps
    <2>2. ASSUME NEW m \in Masks, Sigprocmask(t, m) PROVE IInv'
      BY <2>2, SigprocmaskKeeps
    <2>3. ASSUME NEW m \in Masks,
                 TempMask(t, "sigsuspend", m, "suspend") \/ TempMask(t, "ppoll", m, "poll")
          PROVE  IInv'
      BY <2>3, TempMaskKeeps
    <2>4. ASSUME NEW m \in Masks, Sigtimedwait(t, m) PROVE IInv'
      BY <2>4, SigtimedwaitKeeps
    <2>5. CASE Blocking(t, "pause", "pause") \/ Blocking(t, "read", "read")
      BY <2>5, BlockingKeeps
    <2>6. CASE Restart(t)
      BY <2>6, RestartKeeps
    <2>7. CASE Sigreturn(t)
      BY <2>7, SigreturnKeeps
    <2>8. CASE Overflow(t)
      BY <2>8, OverflowKeeps
    <2>9. CASE Completed(t)
      BY <2>9, CompletedKeeps
    <2>10. CASE SigtimedwaitTimeout(t)
      BY <2>10, TimeoutKeeps
    <2> QED BY <1>5, <2>1, <2>2, <2>3, <2>4, <2>5, <2>6, <2>7, <2>8, <2>9, <2>10 DEF Guest
  <1> QED BY <1>1, <1>2, <1>3, <1>4, <1>5 DEF Next

\* Bits, queues, masks and frames agree however the senders, the calls of the
\* guest, receive_signals and sigreturn take turns.
THEOREM InvariantHolds == Spec => []IInv
  BY InitIInv, NextIInv, PTL DEF Spec

\* Every variable keeps its type: no signal, mask or frame is made up.
THEOREM TypeCorrect == Spec => []TypeOK
  <1>1. IInv => TypeOK
    BY DEF IInv
  <1> QED BY <1>1, InvariantHolds, PTL

\* While the sighand lock is free, every queued signal has its bit in
\* task->pending and no standard signal is queued twice, though receive_signals
\* clears bits in the middle of its walk and sigtimedwait clears none.
THEOREM BitsMatchQueue == Spec => []QueueHasBits
  <1>1. IInv => QueueHasBits
    BY DEF IInv
  <1> QED BY <1>1, InvariantHolds, PTL

\* deliver_signal_unlocked never coalesces real-time signals: the accepted
\* instances that were not taken are exactly the ones on the queue.
THEOREM NoInstanceLost == Spec => []RealTimeKept
  <1>1. IInv => RealTimeKept
    BY DEF IInv
  <1> QED BY <1>1, InvariantHolds, PTL

\* The temporary mask of sigsuspend, ppoll and epoll_pwait never becomes the
\* mask of guest code, neither directly nor through a signal frame.
THEOREM NoMaskLeaks == Spec => []MaskKept
  <1>1. IInv => MaskKept
    BY DEF IInv, MaskHistory, MaskKept
  <1> QED BY <1>1, InvariantHolds, PTL

\* No mask that sigmask_set or rt_sigreturn puts in force blocks SIGKILL or
\* SIGSTOP for a thread that is in no handler.
THEOREM KillAndStopGetThrough == Spec => []UnblockableInHandlerOnly
  <1>1. IInv => UnblockableInHandlerOnly
    BY DEF IInv, NoFrameNoBlock, UnblockableInHandlerOnly
  <1> QED BY <1>1, InvariantHolds, PTL
=============================================================================
