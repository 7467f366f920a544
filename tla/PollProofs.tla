----------------------------- MODULE PollProofs -----------------------------
(***************************************************************************)
(* Proofs about Poll for any number of threads, members and registrations. *)
(***************************************************************************)
EXTENDS Poll, FiniteSetTheorems, TLAPS

RegRec == [mode : AllModes \cup {"none"}, masked : BOOLEAN, fired : BOOLEAN]
CallRec == [at : Places, fd : Descs \cup {Nobody}, todo : SUBSET Regs,
            named : SUBSET Descs, read : BOOLEAN]

-----------------------------------------------------------------------------
(***************************************************************************)
(* The records.                                                            *)
(***************************************************************************)

\* The fields of a new or an idle record.
LEMMA FreshRecords ==
    /\ NoReg \in RegRec /\ NoReg.mode = "none"
    /\ \A m \in AllModes : /\ NewReg(m) \in RegRec /\ NewReg(m).mode = m
                           /\ ~ NewReg(m).masked /\ ~ NewReg(m).fired
    /\ Idle \in CallRec /\ Idle.at = "idle" /\ Idle.fd = Nobody
    /\ Idle.todo = {} /\ Idle.named = {} /\ ~ Idle.read
  BY DEF NoReg, NewReg, RegRec, CallRec, Idle, Places, AllModes

\* No registration has the mode of an absent one.
LEMMA ModesReal == \A m \in AllModes : m # "none"
  BY DEF AllModes

\* What one step does to the table of calls.
LEMMA SetCall ==
    ASSUME TypeOK, NEW t \in Tasks, NEW c \in CallRec, call' = [call EXCEPT ![t] = c]
    PROVE  /\ call' \in [Tasks -> CallRec]
           /\ call'[t] = c
           /\ \A u \in Tasks \ {t} : call'[u] = call[u]
  BY DEF TypeOK, CallRec

\* A task moves on in the call it is in.
LEMMA Moves ==
    ASSUME TypeOK, NEW t \in Tasks, NEW p \in Places, call' = [call EXCEPT ![t].at = p]
    PROVE  /\ call' \in [Tasks -> CallRec]
           /\ call'[t].at = p
           /\ call'[t].fd = call[t].fd /\ call'[t].todo = call[t].todo
           /\ call'[t].named = call[t].named /\ call'[t].read = call[t].read
           /\ \A u \in Tasks \ {t} : call'[u] = call[u]
  <1> DEFINE c == [call[t] EXCEPT !.at = p]
  <1>1. call[t] \in CallRec
    BY DEF TypeOK, CallRec
  <1>2. /\ c \in CallRec /\ c.at = p /\ c.fd = call[t].fd /\ c.todo = call[t].todo
        /\ c.named = call[t].named /\ c.read = call[t].read
    BY <1>1 DEF CallRec
  <1>3. call' = [call EXCEPT ![t] = c]
    OBVIOUS
  <1> HIDE DEF c
  <1> QED BY <1>2, <1>3, SetCall

\* A wakeup begins its walk over the registrations of its member.
LEMMA WakingMoves ==
    ASSUME TypeOK, NEW t \in Tasks, RegsOf(call[t].fd) \in SUBSET Regs,
           call' = [call EXCEPT ![t].at = "waking", ![t].todo = RegsOf(call[t].fd)]
    PROVE  /\ call' \in [Tasks -> CallRec]
           /\ call'[t].at = "waking" /\ call'[t].todo = RegsOf(call[t].fd)
           /\ call'[t].fd = call[t].fd /\ call'[t].read = call[t].read
           /\ \A u \in Tasks \ {t} : call'[u] = call[u]
  <1> DEFINE R == RegsOf(call[t].fd)
             c == [[call[t] EXCEPT !.at = "waking"] EXCEPT !.todo = R]
  <1>1. call[t] \in CallRec
    BY DEF TypeOK, CallRec
  <1>2. /\ c \in CallRec /\ c.at = "waking" /\ c.fd = call[t].fd /\ c.todo = R
        /\ c.read = call[t].read
    <2> HIDE DEF R
    <2>1. R \in SUBSET Regs
      BY DEF R
    <2> QED BY <1>1, <2>1 DEF CallRec, Places
  <1>3. call' = [call EXCEPT ![t] = c]
    BY DEF TypeOK
  <1> HIDE DEF c
  <1> QED BY <1>2, <1>3, SetCall

\* The same for a clean-up.
LEMMA CleaningMoves ==
    ASSUME TypeOK, NEW t \in Tasks, RegsOf(call[t].fd) \in SUBSET Regs,
           call' = [call EXCEPT ![t].at = "cleaning", ![t].todo = RegsOf(call[t].fd)]
    PROVE  /\ call' \in [Tasks -> CallRec]
           /\ call'[t].at = "cleaning" /\ call'[t].todo = RegsOf(call[t].fd)
           /\ call'[t].fd = call[t].fd /\ call'[t].read = call[t].read
           /\ \A u \in Tasks \ {t} : call'[u] = call[u]
  <1> DEFINE R == RegsOf(call[t].fd)
             c == [[call[t] EXCEPT !.at = "cleaning"] EXCEPT !.todo = R]
  <1>1. call[t] \in CallRec
    BY DEF TypeOK, CallRec
  <1>2. /\ c \in CallRec /\ c.at = "cleaning" /\ c.fd = call[t].fd /\ c.todo = R
        /\ c.read = call[t].read
    <2> HIDE DEF R
    <2>1. R \in SUBSET Regs
      BY DEF R
    <2> QED BY <1>1, <2>1 DEF CallRec, Places
  <1>3. call' = [call EXCEPT ![t] = c]
    BY DEF TypeOK
  <1> HIDE DEF c
  <1> QED BY <1>2, <1>3, SetCall

\* A task comes back from the host with the members it names.
LEMMA Named ==
    ASSUME TypeOK, NEW t \in Tasks, NEW D \in SUBSET Descs,
           call' = [call EXCEPT ![t].at = "back", ![t].named = D]
    PROVE  /\ call' \in [Tasks -> CallRec]
           /\ call'[t].at = "back" /\ call'[t].named = D
           /\ call'[t].fd = call[t].fd /\ call'[t].todo = call[t].todo
           /\ call'[t].read = call[t].read
           /\ \A u \in Tasks \ {t} : call'[u] = call[u]
  <1> DEFINE c == [[call[t] EXCEPT !.at = "back"] EXCEPT !.named = D]
  <1>1. call[t] \in CallRec
    BY DEF TypeOK, CallRec
  <1>2. /\ c \in CallRec /\ c.at = "back" /\ c.fd = call[t].fd /\ c.todo = call[t].todo
        /\ c.named = D /\ c.read = call[t].read
    BY <1>1 DEF CallRec, Places
  <1>3. call' = [call EXCEPT ![t] = c]
    BY DEF TypeOK
  <1> HIDE DEF c
  <1> QED BY <1>2, <1>3, SetCall

\* A turn of a walk takes one registration off the list of those to visit.
LEMMA Visits ==
    ASSUME TypeOK, NEW t \in Tasks, NEW r,
           call' = [call EXCEPT ![t].todo = @ \ {r}]
    PROVE  /\ call' \in [Tasks -> CallRec]
           /\ call'[t].todo = call[t].todo \ {r}
           /\ call'[t].at = call[t].at /\ call'[t].fd = call[t].fd
           /\ call'[t].named = call[t].named /\ call'[t].read = call[t].read
           /\ \A u \in Tasks \ {t} : call'[u] = call[u]
  <1> DEFINE c == [call[t] EXCEPT !.todo = @ \ {r}]
  <1>1. call[t] \in CallRec
    BY DEF TypeOK, CallRec
  <1>2. /\ c \in CallRec /\ c.at = call[t].at /\ c.fd = call[t].fd
        /\ c.todo = call[t].todo \ {r}
        /\ c.named = call[t].named /\ c.read = call[t].read
    BY <1>1 DEF CallRec
  <1>3. call' = [call EXCEPT ![t] = c]
    OBVIOUS
  <1> HIDE DEF c
  <1> QED BY <1>2, <1>3, SetCall

\* What the guest has been told changes no mode.
LEMMA ToldFields ==
    ASSUME NEW x \in RegRec
    PROVE  Told(x) \in RegRec /\ Told(x).mode = x.mode
  BY DEF Told, RegRec, IsOneshot, IsEdge

\* Clearing the edge of a registration.
LEMMA UnmaskFields ==
    ASSUME NEW x \in RegRec
    PROVE  /\ Unmasked(x) \in RegRec /\ ~ Hides(Unmasked(x))
           /\ Unmasked(x).mode = x.mode /\ Unmasked(x).fired = x.fired
  BY DEF RegRec, Unmasked, Hides, IsEdge

\* Re-arming a registration.
LEMMA ModFields ==
    ASSUME NEW x \in RegRec, NEW m \in AllModes, NEW y,
           y = [[x EXCEPT !.mode = m] EXCEPT !.fired = FALSE]
    PROVE  y \in RegRec /\ y.mode = m /\ ~ y.fired /\ y.masked = x.masked
  BY DEF RegRec

\* One registration of the set changes.
LEMMA SetReg ==
    ASSUME TypeOK, NEW r \in Regs, NEW x \in RegRec, reg' = [reg EXCEPT ![r] = x]
    PROVE  /\ reg' \in [Regs -> RegRec] /\ reg'[r] = x
           /\ \A q \in Regs \ {r} : reg'[q] = reg[q]
  BY DEF TypeOK, RegRec

-----------------------------------------------------------------------------
(***************************************************************************)
(* The threads in poll_wait, counted.                                      *)
(***************************************************************************)

Inside == {t \in Tasks : InWait(t)}

\* They can be counted, and are not more than there are threads.
LEMMA InsideCount ==
    /\ IsFiniteSet(Inside) /\ Cardinality(Inside) \in Nat
    /\ Cardinality(Inside) <= Cardinality(Tasks) /\ Cardinality(Tasks) \in Nat
    /\ \A t \in Inside : Cardinality(Inside) > 0
  <1>1. Inside \subseteq Tasks
    BY DEF Inside
  <1>2. /\ IsFiniteSet(Inside) /\ Cardinality(Inside) \in Nat
        /\ Cardinality(Inside) <= Cardinality(Tasks) /\ Cardinality(Tasks) \in Nat
    BY <1>1, TasksAssumption, FS_Subset, FS_CardinalityType
  <1>3. ASSUME NEW t \in Inside PROVE Cardinality(Inside) > 0
    BY <1>2, <1>3, FS_EmptySet
  <1> QED BY <1>2, <1>3

\* The same threads are inside, or one more, or one less.
LEMMA InsideSame ==
    ASSUME \A u \in Tasks : InWait(u)' <=> InWait(u)
    PROVE  Inside' = Inside
  BY DEF Inside

LEMMA InsideEnter ==
    ASSUME NEW t \in Tasks, ~ InWait(t), InWait(t)',
           \A u \in Tasks \ {t} : InWait(u)' <=> InWait(u)
    PROVE  Cardinality(Inside') = Cardinality(Inside) + 1
  <1>1. Inside' = Inside \cup {t} /\ t \notin Inside
    BY DEF Inside
  <1> QED BY <1>1, InsideCount, FS_AddElement

LEMMA InsideLeave ==
    ASSUME NEW t \in Tasks, InWait(t), ~ InWait(t)',
           \A u \in Tasks \ {t} : InWait(u)' <=> InWait(u)
    PROVE  Cardinality(Inside') = Cardinality(Inside) - 1
  <1>1. Inside' = Inside \ {t} /\ t \in Inside
    BY DEF Inside
  <1> QED BY <1>1, InsideCount, FS_RemoveElement

\* A step that leaves poll_wait, the count and the pipe alone.
LEMMA PipeKept ==
    ASSUME IInv, waiters' = waiters, pipe' = -1 <=> pipe = -1,
           \A u \in Tasks : InWait(u)' <=> InWait(u)
    PROVE  PipeExact'
  <1>1. Inside' = Inside
    BY InsideSame
  <1>2. waiters = Cardinality(Inside) /\ ((pipe = -1) <=> (waiters = 0))
    BY DEF IInv, PipeExact, Inside
  <1>3. waiters' = Cardinality(Inside')
    BY <1>1, <1>2
  <1> QED BY <1>2, <1>3 DEF PipeExact, Inside

\* A thread that enters or is inside, and one that leaves.
LEMMA PipeStays ==
    ASSUME IInv, NEW t \in Tasks, InWait(t)',
           \A u \in Tasks \ {t} : InWait(u)' <=> InWait(u),
           waiters' = IF InWait(t) THEN waiters ELSE waiters + 1,
           pipe' # -1
    PROVE  PipeExact' /\ waiters' \in 0 .. Cardinality(Tasks)
  <1>1. waiters = Cardinality(Inside) /\ waiters \in Nat
    BY InsideCount DEF IInv, PipeExact, Inside
  <1>2. waiters' = Cardinality(Inside') /\ waiters' # 0
    <2>1. CASE InWait(t)
      <3>1. Inside' = Inside /\ t \in Inside
        BY <2>1, InsideSame DEF Inside
      <3> QED BY <1>1, <2>1, <3>1, InsideCount
    <2>2. CASE ~ InWait(t)
      BY <1>1, <2>2, InsideEnter
    <2> QED BY <2>1, <2>2
  <1>3. waiters' \in 0 .. Cardinality(Tasks)
    <2>1. /\ Cardinality(Inside') \in Nat /\ Cardinality(Inside') <= Cardinality(Tasks)
      <3>1. Inside' \subseteq Tasks
        BY DEF Inside
      <3> QED BY <3>1, TasksAssumption, FS_Subset, FS_CardinalityType
    <2> QED BY <1>2, <2>1, InsideCount
  <1> QED BY <1>2, <1>3 DEF PipeExact, Inside

LEMMA PipeLeft ==
    ASSUME IInv, NEW t \in Tasks, ~ InWait(t)',
           \A u \in Tasks \ {t} : InWait(u)' <=> InWait(u),
           NEW w, w = (IF InWait(t) THEN waiters ELSE waiters + 1),
           NEW b, b \in 0 .. PipeMax, Leave(w, b)
    PROVE  /\ PipeExact' /\ waiters' \in 0 .. Cardinality(Tasks)
           /\ pipe' \in -1 .. PipeMax
           /\ \A u \in Tasks : InWait(u)' => pipe' = b
  <1>1. waiters = Cardinality(Inside) /\ waiters \in Nat
    BY InsideCount DEF IInv, PipeExact, Inside
  <1>2. waiters' = Cardinality(Inside') /\ w \in Nat /\ w # 0
    <2>1. CASE InWait(t)
      <3>1. t \in Inside /\ Cardinality(Inside) > 0
        BY <2>1, InsideCount DEF Inside
      <3>2. Cardinality(Inside') = Cardinality(Inside) - 1
        BY <2>1, InsideLeave
      <3> QED BY <1>1, <2>1, <3>1, <3>2 DEF Leave
    <2>2. CASE ~ InWait(t)
      <3>1. Inside' = Inside
        BY <2>2, InsideSame
      <3>2. w = waiters + 1 /\ waiters' = w - 1
        BY <2>2 DEF Leave
      <3> QED BY <1>1, <3>1, <3>2
    <2> QED BY <2>1, <2>2
  <1>3. PipeMax \in Nat \ {0}
    BY BoundAssumption
  <1>4. (pipe' = -1) <=> (waiters' = 0)
    BY <1>2, <1>3 DEF Leave
  <1>5. Inside' \subseteq Tasks /\ IsFiniteSet(Inside') /\ Cardinality(Inside') \in Nat
    <2>1. Inside' \subseteq Tasks
      BY DEF Inside
    <2> QED BY <2>1, TasksAssumption, FS_Subset, FS_CardinalityType
  <1>6. waiters' \in 0 .. Cardinality(Tasks)
    BY <1>2, <1>5, TasksAssumption, InsideCount, FS_Subset
  <1>7. pipe' \in -1 .. PipeMax
    BY <1>3 DEF Leave
  <1>8. ASSUME NEW u \in Tasks, InWait(u)' PROVE pipe' = b
    <2>1. u \in Inside'
      BY <1>8 DEF Inside
    <2>2. Cardinality(Inside') # 0
      BY <1>5, <2>1, FS_EmptySet
    <2> QED BY <1>2, <2>2 DEF Leave
  <1>9. PipeExact'
    BY <1>2, <1>4 DEF PipeExact, Inside
  <1> QED BY <1>6, <1>7, <1>8, <1>9

-----------------------------------------------------------------------------
(***************************************************************************)
(* poll_wait.                                                              *)
(***************************************************************************)

\* The registrations a turn of the loop begins with: those there are, with some
\* edges cleared.
Cleared(regs, D) ==
    /\ regs \in [Regs -> RegRec]
    /\ \A r \in Regs :
         /\ regs[r].mode = reg[r].mode /\ regs[r].fired = reg[r].fired
         /\ IF r[1] \in D THEN ~ Hides(regs[r]) ELSE Hides(regs[r]) <=> Hides(reg[r])

\* What poll_real_refresh leaves.
LEMMA RefreshedEdge ==
    ASSUME TypeOK, NEW regs, NEW D
    PROVE  /\ Refreshed(regs, D) \in [Descs -> BOOLEAN]
           /\ \A d \in Descs :
                \/ Refreshed(regs, D)[d] = hostEdge[d] /\ ~ (d \in D /\ Kind[d] = "host")
                \/ d \in D /\ Refreshed(regs, D)[d] = (HostHas(regs, d) /\ ready[d])
  <1>1. \A d \in Descs : HostHas(regs, d) \in BOOLEAN
    BY DEF HostHas
  <1> QED BY <1>1 DEF Refreshed, TypeOK

\* A scan keeps modes, and leaves as posted only the events it does not find
\* wanted; those it reports or leaves behind are posted no longer.
LEMMA ScanKeeps ==
    ASSUME IInv, NEW t \in Tasks, NEW regs, NEW D, Cleared(regs, D), NEW w, NEW b,
           Scan(t, regs, w, b)
    PROVE  /\ reg' \in [Regs -> RegRec]
           /\ news' \in [Regs -> {"none", "posted", "left", "hidden"}]
           /\ hostEdge' \in [Descs -> BOOLEAN]
           /\ \A r \in Regs :
                /\ reg'[r].mode = reg[r].mode
                /\ news'[r] = "posted" =>
                     news[r] = "posted" /\ reg'[r] = regs[r] /\ ~ Wanted(regs, r)
           /\ \A d \in Descs : \/ hostEdge'[d] = hostEdge[d]
                               \/ hostEdge'[d] = (HostHas(reg', d) /\ ready[d])
  <1> DEFINE wanted == {r \in Regs : Wanted(regs, r)}
  <1>t. TypeOK
    BY DEF IInv
  <1>0. news \in [Regs -> {"none", "posted", "left", "hidden"}] /\ hostEdge \in [Descs -> BOOLEAN]
    BY <1>t DEF TypeOK
  <1>1. CASE wanted = {} /\ reg' = regs /\ UNCHANGED <<hostEdge, news>>
    BY <1>0, <1>1 DEF Cleared
  <1>2. CASE \E told \in SUBSET wanted :
               /\ reg' = [r \in Regs |-> IF r \in told THEN Told(regs[r]) ELSE regs[r]]
               /\ hostEdge' = Refreshed(reg', {r[1] : r \in {r \in told : IsOneshot(regs[r])}})
               /\ news' = [r \in Regs |->
                    IF r \in told THEN "none"
                    ELSE IF r \in wanted /\ news[r] = "posted" THEN "left" ELSE news[r]]
    <2>1. PICK told \in SUBSET wanted :
               /\ reg' = [r \in Regs |-> IF r \in told THEN Told(regs[r]) ELSE regs[r]]
               /\ hostEdge' = Refreshed(reg', {r[1] : r \in {r \in told : IsOneshot(regs[r])}})
               /\ news' = [r \in Regs |->
                    IF r \in told THEN "none"
                    ELSE IF r \in wanted /\ news[r] = "posted" THEN "left" ELSE news[r]]
      BY <1>2
    <2>2. \A r \in Regs : regs[r] \in RegRec /\ regs[r].mode = reg[r].mode
      BY DEF Cleared
    <2>3. \A r \in Regs : Told(regs[r]) \in RegRec /\ Told(regs[r]).mode = regs[r].mode
      BY <2>2, ToldFields
    <2>4. reg' \in [Regs -> RegRec] /\ \A r \in Regs : reg'[r].mode = reg[r].mode
      BY <2>1, <2>2, <2>3
    <2>5. news' \in [Regs -> {"none", "posted", "left", "hidden"}]
      BY <1>0, <2>1
    <2>6. ASSUME NEW r \in Regs, news'[r] = "posted"
          PROVE  news[r] = "posted" /\ reg'[r] = regs[r] /\ ~ Wanted(regs, r)
      BY <2>1, <2>6
    <2>7. /\ hostEdge' \in [Descs -> BOOLEAN]
          /\ \A d \in Descs : \/ hostEdge'[d] = hostEdge[d]
                              \/ hostEdge'[d] = (HostHas(reg', d) /\ ready[d])
      BY <1>t, <2>1, RefreshedEdge
    <2> QED BY <2>4, <2>5, <2>6, <2>7
  <1> QED BY <1>1, <1>2 DEF Scan

\* After a scan the thread is out, or asleep if nothing was wanted.
LEMMA ScanMoves ==
    ASSUME IInv, NEW t \in Tasks, NEW regs, NEW w, NEW b, Scan(t, regs, w, b),
           w = (IF InWait(t) THEN waiters ELSE waiters + 1), b \in 0 .. PipeMax
    PROVE  /\ call' \in [Tasks -> CallRec]
           /\ call'[t].at \in {"idle", "asleep"}
           /\ call'[t].fd = Nobody /\ call'[t].todo = {}
           /\ \A u \in Tasks \ {t} : call'[u] = call[u]
           /\ PipeExact' /\ waiters' \in 0 .. Cardinality(Tasks)
           /\ pipe' \in -1 .. PipeMax
           /\ \A u \in Tasks : InWait(u)' => pipe' = b
  <1>t. TypeOK
    BY DEF IInv
  <1>m. PipeMax \in Nat \ {0}
    BY BoundAssumption
  <1>1. CASE Return(t) /\ Leave(w, b)
    <2>1. /\ call' \in [Tasks -> CallRec] /\ call'[t] = Idle
          /\ \A u \in Tasks \ {t} : call'[u] = call[u]
      BY <1>t, <1>1, FreshRecords, SetCall DEF Return
    <2>2. ~ InWait(t)' /\ \A u \in Tasks \ {t} : InWait(u)' <=> InWait(u)
      BY <2>1, FreshRecords DEF InWait
    <2>3. /\ PipeExact' /\ waiters' \in 0 .. Cardinality(Tasks)
          /\ pipe' \in -1 .. PipeMax
          /\ \A u \in Tasks : InWait(u)' => pipe' = b
      BY <1>1, <2>2, PipeLeft
    <2> QED BY <2>1, <2>3, FreshRecords
  <1>2. CASE /\ call' = [call EXCEPT ![t] = [Idle EXCEPT !.at = "asleep"]]
             /\ waiters' = w /\ pipe' = b
    <2> DEFINE c == [Idle EXCEPT !.at = "asleep"]
    <2>1. c \in CallRec /\ c.at = "asleep" /\ c.fd = Nobody /\ c.todo = {}
      BY DEF CallRec, Idle, Places
    <2> HIDE DEF c
    <2>2. /\ call' \in [Tasks -> CallRec] /\ call'[t] = c
          /\ \A u \in Tasks \ {t} : call'[u] = call[u]
      BY <1>t, <1>2, <2>1, SetCall DEF c
    <2>3. InWait(t)' /\ \A u \in Tasks \ {t} : InWait(u)' <=> InWait(u)
      BY <2>1, <2>2 DEF InWait
    <2>4. pipe' = b /\ b # -1 /\ b \in -1 .. PipeMax
      BY <1>2, <1>m
    <2>5. PipeExact' /\ waiters' \in 0 .. Cardinality(Tasks)
      BY <1>2, <2>3, <2>4, PipeStays
    <2> QED BY <2>1, <2>2, <2>4, <2>5
  <1> QED BY <1>1, <1>2 DEF Scan

\* The parts of the invariant about calls, members and locks.
Structure == LockOwners /\ CallHasMember /\ MakerAlone /\ VisitsExist /\ MembersKnown

WaitPlaces == {"idle", "asleep", "back", "valve"}

\* A step of poll_wait keeps them: it works on no member.
LEMMA WaitStructure ==
    ASSUME IInv, NEW t \in Tasks,
           call[t].at \in WaitPlaces, call'[t].at \in WaitPlaces,
           call'[t].fd \in {Nobody, call[t].fd},
           \A u \in Tasks \ {t} : call'[u] = call[u],
           \A u \in Tasks : pollLock' = u <=> call'[u].at = "valve",
           \A r \in Regs : reg'[r].mode = reg[r].mode,
           UNCHANGED <<fdLock, pidsLock, pidfdLock, members>>
    PROVE  Structure'
  <1> USE DEF IInv, WaitPlaces, members
  <1>1. call[t].at \notin {"wake", "waking", "pidfd", "cleanup", "cleaning", "closing", "exit"}
        /\ call'[t].at \notin {"wake", "waking", "pidfd", "cleanup", "cleaning", "closing", "exit"}
    OBVIOUS
  <1>2. LockOwners'
    BY <1>1 DEF LockOwners, At, Walking
  <1>3. CallHasMember'
    BY <1>1 DEF CallHasMember, At
  <1>4. MakerAlone'
    <2>1. ASSUME NEW u \in Tasks, At(u, "pidfd") PROVE call[u].fd # Nobody
      BY <2>1, NobodyAssumption DEF CallHasMember, At
    <2> QED BY <1>1, <2>1 DEF MakerAlone, At
  <1>5. VisitsExist'
    <2>1. \A u \in Tasks : call[u].todo \subseteq Regs
      BY DEF TypeOK
    <2> QED BY <1>1, <2>1 DEF VisitsExist, Walking
  <1>6. MembersKnown'
    BY DEF MembersKnown
  <1> QED BY <1>2, <1>3, <1>4, <1>5, <1>6 DEF Structure

\* A turn of the loop leaves no posted event unannounced.
LEMMA ScanOwed ==
    ASSUME IInv, NEW t \in Tasks, NEW regs, NEW D, Cleared(regs, D),
           call[t].at \in WaitPlaces, call'[t].at \in WaitPlaces,
           \A d \in D : At(t, "back") /\ d \in call[t].named,
           \A d \in call[t].named : At(t, "back") => d \in D,
           \A u \in Tasks \ {t} : call'[u] = call[u],
           \A r \in Regs :
                /\ reg'[r].mode = reg[r].mode
                /\ news'[r] = "posted" =>
                     news[r] = "posted" /\ reg'[r] = regs[r] /\ ~ Wanted(regs, r),
           \A d \in Descs : \/ hostEdge'[d] = hostEdge[d]
                            \/ hostEdge'[d] = (HostHas(reg', d) /\ ready[d]),
           UNCHANGED <<ready, members>>
    PROVE  Owed'
  <1> USE DEF WaitPlaces, members
  <1> SUFFICES ASSUME NEW r \in Regs, news'[r] = "posted"
               PROVE  PostedTo(r)' /\ (reg'[r].mode # "none" => Announced(r)')
    BY DEF Owed
  <1>1. /\ news[r] = "posted" /\ reg'[r] = regs[r] /\ ~ Wanted(regs, r)
        /\ reg'[r].mode = reg[r].mode /\ r[1] \in Descs
    BY RegsAssumption
  <1>2. PostedTo(r) /\ (reg[r].mode # "none" => Announced(r))
    BY <1>1 DEF IInv, Owed
  <1>3. PostedTo(r)'
    BY <1>1, <1>2 DEF PostedTo, At
  <1>4. ASSUME reg'[r].mode # "none" PROVE Announced(r)'
    <2>1. Announced(r) /\ reg[r].mode # "none" /\ ~ reg[r].fired /\ ready[r[1]]
      BY <1>1, <1>2, <1>4 DEF Announced
    <2>2. ~ reg'[r].fired /\ ready'[r[1]] /\ Armed(reg'[r])
      BY <1>1, <1>4, <2>1 DEF Cleared, Armed
    <2>3. Hides(regs[r]) /\ r[1] \notin D /\ Hides(reg[r])
      BY <1>1, <2>1, <2>2 DEF Wanted, Cleared
    <2>4. CASE Kind[r[1]] = "host"
      <3>1. hostEdge[r[1]] \/ HostNamed(r[1])
        BY <2>1, <2>4 DEF Announced, HostTells
      <3>2. CASE hostEdge[r[1]]
        <4>1. HostHas(reg', r[1])
          BY <2>2, <2>4 DEF HostHas
        <4> QED BY <1>1, <2>1, <2>2, <2>4, <3>2, <4>1 DEF Announced, HostTells
      <3>3. CASE HostNamed(r[1])
        <4>1. PICK u \in Tasks : At(u, "back") /\ r[1] \in call[u].named
          BY <3>3 DEF HostNamed
        <4>2. u # t
          BY <2>3, <4>1
        <4>3. HostNamed(r[1])'
          BY <4>1, <4>2 DEF HostNamed, At
        <4> QED BY <2>2, <2>4, <4>3 DEF Announced, HostTells
      <3> QED BY <3>1, <3>2, <3>3
    <2>5. CASE Kind[r[1]] # "host"
      <3>1. WakeComing(r)
        BY <2>1, <2>3, <2>5 DEF Announced
      <3>2. PICK u \in Tasks : /\ call[u].fd = r[1] /\ call[u].read
                               /\ At(u, "wake") \/ (At(u, "waking") /\ r \in call[u].todo)
        BY <3>1 DEF WakeComing
      <3>3. u # t
        BY <3>2 DEF At
      <3>4. WakeComing(r)'
        BY <3>2, <3>3 DEF WakeComing, At
      <3> QED BY <2>2, <2>5, <3>4 DEF Announced
    <2> QED BY <2>4, <2>5
  <1> QED BY <1>3, <1>4

\* The members of the type invariant that a scan changes, and the others.
LEMMA ScanTypes ==
    ASSUME IInv, call' \in [Tasks -> CallRec], reg' \in [Regs -> RegRec],
           news' \in [Regs -> {"none", "posted", "left", "hidden"}],
           hostEdge' \in [Descs -> BOOLEAN],
           waiters' \in 0 .. Cardinality(Tasks), pipe' \in -1 .. PipeMax,
           pollLock' \in Tasks \cup {Nobody},
           UNCHANGED <<ready, fdLock, pidsLock, pidfdLock, members>>
    PROVE  TypeOK'
  BY DEF IInv, TypeOK, CallRec, RegRec, members

\* The four places from which a turn of the loop is taken.
LEMMA ScanStep ==
    ASSUME IInv, NEW t \in Tasks, NEW regs, NEW D, Cleared(regs, D),
           call[t].at \in WaitPlaces,
           \A d \in D : At(t, "back") /\ d \in call[t].named,
           \A d \in call[t].named : At(t, "back") => d \in D,
           NEW w, NEW b, Scan(t, regs, w, b),
           w = (IF InWait(t) THEN waiters ELSE waiters + 1), b \in 0 .. PipeMax,
           pollLock' \in Tasks \cup {Nobody},
           \A u \in Tasks : pollLock' = u <=> (u # t /\ At(u, "valve")),
           UNCHANGED <<ready, fdLock, pidsLock, pidfdLock, members>>
    PROVE  IInv'
  <1>1. /\ reg' \in [Regs -> RegRec]
        /\ news' \in [Regs -> {"none", "posted", "left", "hidden"}]
        /\ hostEdge' \in [Descs -> BOOLEAN]
        /\ \A r \in Regs :
             /\ reg'[r].mode = reg[r].mode
             /\ news'[r] = "posted" =>
                  news[r] = "posted" /\ reg'[r] = regs[r] /\ ~ Wanted(regs, r)
        /\ \A d \in Descs : \/ hostEdge'[d] = hostEdge[d]
                            \/ hostEdge'[d] = (HostHas(reg', d) /\ ready[d])
    BY ScanKeeps
  <1>2. /\ call' \in [Tasks -> CallRec]
        /\ call'[t].at \in {"idle", "asleep"}
        /\ call'[t].fd = Nobody
        /\ \A u \in Tasks \ {t} : call'[u] = call[u]
        /\ PipeExact' /\ waiters' \in 0 .. Cardinality(Tasks)
        /\ pipe' \in -1 .. PipeMax
    BY ScanMoves
  <1>3. call'[t].at \in WaitPlaces /\ call'[t].at # "valve"
    BY <1>2 DEF WaitPlaces
  <1>4. \A u \in Tasks : pollLock' = u <=> call'[u].at = "valve"
    BY <1>2, <1>3 DEF At
  <1>5. Structure'
    BY <1>1, <1>2, <1>3, <1>4, WaitStructure
  <1>6. Owed'
    BY <1>1, <1>2, <1>3, ScanOwed
  <1>7. TypeOK'
    BY <1>1, <1>2, ScanTypes
  <1> QED BY <1>2, <1>5, <1>6, <1>7 DEF IInv, Structure

\* A registration the loop does not clear is as it was.
LEMMA NothingCleared == IInv => Cleared(reg, {})
  BY DEF IInv, TypeOK, Cleared, RegRec

\* Who holds poll->lock: nobody, in the steps that need it free.
LEMMA ValveHolds ==
    ASSUME IInv, NEW t \in Tasks
    PROVE  pollLock = t <=> At(t, "valve")
  BY DEF IInv, LockOwners

\* There is a pipe while somebody is inside.
LEMMA PipeThere ==
    ASSUME IInv
    PROVE  /\ \A t \in Tasks : InWait(t) => pipe \in 0 .. PipeMax
           /\ waiters # 0 => pipe \in 0 .. PipeMax
           /\ waiters \in Nat
  <1>1. waiters = Cardinality(Inside) /\ ((pipe = -1) <=> (waiters = 0)) /\ pipe \in -1 .. PipeMax
    BY DEF IInv, PipeExact, Inside, TypeOK
  <1>2. ASSUME NEW t \in Tasks, InWait(t) PROVE waiters # 0
    <2>1. t \in Inside
      BY <1>2 DEF Inside
    <2> QED BY <1>1, <2>1, InsideCount
  <1>3. PipeMax \in Nat
    BY BoundAssumption
  <1>4. waiters # 0 => pipe \in 0 .. PipeMax
    BY <1>1, <1>3
  <1> QED BY <1>1, <1>2, <1>4, InsideCount

LEMMA WaitKeeps ==
    ASSUME IInv, NEW t \in Tasks, Wait(t)
    PROVE  IInv'
  <1> DEFINE b == IF waiters = 0 THEN 0 ELSE pipe
  <1>1. Cleared(reg, {}) /\ Scan(t, reg, waiters + 1, b)
    BY NothingCleared DEF Wait
  <1>2. call[t].at \in WaitPlaces /\ ~ InWait(t) /\ ~ At(t, "back") /\ ~ At(t, "valve")
    BY DEF Wait, WaitPlaces, InWait, At
  <1>3. b \in 0 .. PipeMax
    BY PipeThere, BoundAssumption
  <1>4. /\ pollLock' \in Tasks \cup {Nobody}
        /\ \A u \in Tasks : pollLock' = u <=> (u # t /\ At(u, "valve"))
    BY <1>2, ValveHolds, NobodyAssumption DEF Wait, locks
  <1>5. UNCHANGED <<ready, fdLock, pidsLock, pidfdLock, members>>
    BY DEF Wait, locks
  <1>6. waiters + 1 = IF InWait(t) THEN waiters ELSE waiters + 1
    BY <1>2
  <1> HIDE DEF b
  <1> QED BY <1>1, <1>2, <1>3, <1>4, <1>5, <1>6, ScanStep

LEMMA SliceKeeps ==
    ASSUME IInv, NEW t \in Tasks, Slice(t)
    PROVE  IInv'
  <1>1. Cleared(reg, {}) /\ Scan(t, reg, waiters, pipe)
    BY NothingCleared DEF Slice
  <1>2. call[t].at \in WaitPlaces /\ InWait(t) /\ ~ At(t, "back") /\ ~ At(t, "valve")
    BY DEF Slice, WaitPlaces, InWait, At
  <1>3. pipe \in 0 .. PipeMax
    BY <1>2, PipeThere
  <1>4. /\ pollLock' \in Tasks \cup {Nobody}
        /\ \A u \in Tasks : pollLock' = u <=> (u # t /\ At(u, "valve"))
    BY <1>2, ValveHolds, NobodyAssumption DEF Slice, locks
  <1>5. UNCHANGED <<ready, fdLock, pidsLock, pidfdLock, members>>
    BY DEF Slice, locks
  <1>6. waiters = IF InWait(t) THEN waiters ELSE waiters + 1
    BY <1>2
  <1> QED BY <1>1, <1>2, <1>3, <1>4, <1>5, <1>6, ScanStep

LEMMA BackKeeps ==
    ASSUME IInv, NEW t \in Tasks, Back(t)
    PROVE  IInv'
  <1> DEFINE D == call[t].named
             regs == [r \in Regs |-> IF r[1] \in D THEN Unmasked(reg[r]) ELSE reg[r]]
             b == IF pipe > 0 THEN pipe - 1 ELSE pipe
  <1>1. Cleared(regs, D)
    <2>1. \A r \in Regs : reg[r] \in RegRec
      BY DEF IInv, TypeOK, RegRec
    <2>2. \A r \in Regs : /\ Unmasked(reg[r]) \in RegRec /\ ~ Hides(Unmasked(reg[r]))
                           /\ Unmasked(reg[r]).mode = reg[r].mode
                           /\ Unmasked(reg[r]).fired = reg[r].fired
      BY <2>1, UnmaskFields
    <2> QED BY <2>1, <2>2 DEF Cleared
  <1>2. Scan(t, regs, waiters, b)
    BY DEF Back
  <1>3. call[t].at \in WaitPlaces /\ InWait(t) /\ At(t, "back") /\ ~ At(t, "valve")
    BY DEF Back, WaitPlaces, InWait, At
  <1>4. b \in 0 .. PipeMax
    <2>1. pipe \in 0 .. PipeMax /\ PipeMax \in Nat
      BY <1>3, PipeThere, BoundAssumption
    <2> QED BY <2>1
  <1>5. /\ pollLock' \in Tasks \cup {Nobody}
        /\ \A u \in Tasks : pollLock' = u <=> (u # t /\ At(u, "valve"))
    BY <1>3, ValveHolds, NobodyAssumption DEF Back, locks
  <1>6. UNCHANGED <<ready, fdLock, pidsLock, pidfdLock, members>>
    BY DEF Back, locks
  <1>7. waiters = IF InWait(t) THEN waiters ELSE waiters + 1
    BY <1>3
  <1>8. /\ \A d \in D : At(t, "back") /\ d \in call[t].named
        /\ \A d \in call[t].named : At(t, "back") => d \in D
    BY <1>3
  <1> HIDE DEF D, regs, b
  <1> QED BY <1>1, <1>2, <1>3, <1>4, <1>5, <1>6, <1>7, <1>8, ScanStep

\* A thread leaves without a last look: the group exits.
LEMMA LeaveStep ==
    ASSUME IInv, NEW t \in Tasks, InWait(t), Return(t), Leave(waiters, pipe),
           pollLock' \in Tasks \cup {Nobody}, ~ At(t, "back"),
           \A u \in Tasks : pollLock' = u <=> (u # t /\ At(u, "valve")),
           UNCHANGED <<reg, ready, hostEdge, fdLock, pidsLock, pidfdLock, members, news>>
    PROVE  IInv'
  <1>t. TypeOK
    BY DEF IInv
  <1>1. /\ call' \in [Tasks -> CallRec] /\ call'[t] = Idle
        /\ \A u \in Tasks \ {t} : call'[u] = call[u]
    BY <1>t, FreshRecords, SetCall DEF Return
  <1>2. /\ call'[t].at = "idle" /\ call'[t].fd = Nobody /\ call'[t].at \in WaitPlaces
        /\ call[t].at \in WaitPlaces
    BY <1>1, FreshRecords DEF WaitPlaces, InWait
  <1>3. /\ PipeExact' /\ waiters' \in 0 .. Cardinality(Tasks)
        /\ pipe' \in -1 .. PipeMax
        /\ \A u \in Tasks : InWait(u)' => pipe' = pipe
    <2>1. ~ InWait(t)' /\ \A u \in Tasks \ {t} : InWait(u)' <=> InWait(u)
      BY <1>1, <1>2 DEF InWait
    <2>2. pipe \in 0 .. PipeMax
      BY PipeThere
    <2> QED BY <2>1, <2>2, PipeLeft
  <1>4. \A u \in Tasks : pollLock' = u <=> call'[u].at = "valve"
    BY <1>1, <1>2 DEF At
  <1>5. Structure'
    BY <1>1, <1>2, <1>4, WaitStructure
  <1>6. TypeOK'
    BY <1>t, <1>1, <1>3, ScanTypes DEF TypeOK, RegRec
  <1>7. Owed'
    <2> SUFFICES ASSUME NEW r \in Regs, news'[r] = "posted"
                 PROVE  PostedTo(r)' /\ (reg'[r].mode # "none" => Announced(r)')
      BY DEF Owed
    <2>1. PostedTo(r) /\ (reg[r].mode # "none" => Announced(r))
      BY DEF IInv, Owed
    <2>2. PostedTo(r)'
      BY <1>1, <1>2, <2>1 DEF PostedTo, At, members
    <2>3. WakeComing(r) => WakeComing(r)'
      BY <1>1, <1>2 DEF WakeComing, At, WaitPlaces
    <2>4. HostNamed(r[1]) => HostNamed(r[1])'
      BY <1>1 DEF HostNamed, At
    <2>5. (\E u \in Tasks : At(u, "back")) => \E u \in Tasks : At(u, "back")'
      BY <1>1 DEF At
    <2>6. ASSUME NEW u \in Tasks, At(u, "asleep")' PROVE At(u, "asleep") /\ pipe' = pipe
      BY <1>1, <1>2, <1>3, <2>6 DEF At, InWait
    <2>7. Announced(r) => Announced(r)'
      BY <2>3, <2>4, <2>5, <2>6 DEF Announced, HostTells, Stirred
    <2> QED BY <2>1, <2>2, <2>7
  <1> QED BY <1>3, <1>5, <1>6, <1>7 DEF IInv, Structure

LEMMA SliceExitKeeps ==
    ASSUME IInv, NEW t \in Tasks, SliceExit(t)
    PROVE  IInv'
  <1>1. InWait(t) /\ ~ At(t, "back") /\ ~ At(t, "valve")
    BY DEF SliceExit, At, InWait
  <1>2. /\ pollLock' \in Tasks \cup {Nobody}
        /\ \A u \in Tasks : pollLock' = u <=> (u # t /\ At(u, "valve"))
    BY <1>1, ValveHolds, NobodyAssumption DEF SliceExit, locks
  <1> QED BY <1>1, <1>2, LeaveStep DEF SliceExit, locks

LEMMA ValveKeeps ==
    ASSUME IInv, NEW t \in Tasks, Valve(t)
    PROVE  IInv'
  <1>1. InWait(t) /\ ~ At(t, "back") /\ At(t, "valve") /\ call[t].at \in WaitPlaces
    BY DEF Valve, At, InWait, WaitPlaces
  <1>2. pollLock = t
    BY <1>1, ValveHolds
  <1>3. /\ pollLock' = Nobody
        /\ \A u \in Tasks : pollLock' = u <=> (u # t /\ At(u, "valve"))
    BY <1>2, ValveHolds, NobodyAssumption DEF Valve
  <1>4. UNCHANGED <<ready, fdLock, pidsLock, pidfdLock, members>>
    BY DEF Valve
  <1>5. CASE Scan(t, reg, waiters, pipe)
    <2>1. Cleared(reg, {})
      BY NothingCleared
    <2>2. waiters = IF InWait(t) THEN waiters ELSE waiters + 1
      BY <1>1
    <2>3. pipe \in 0 .. PipeMax
      BY <1>1, PipeThere
    <2> QED BY <1>1, <1>3, <1>4, <1>5, <2>1, <2>2, <2>3, ScanStep
  <1>6. CASE Return(t) /\ Leave(waiters, pipe) /\ UNCHANGED <<reg, hostEdge, news>>
    BY <1>1, <1>3, <1>4, <1>6, LeaveStep
  <1> QED BY <1>5, <1>6 DEF Valve

-----------------------------------------------------------------------------
(***************************************************************************)
(* A posted event that a step does not make.                               *)
(***************************************************************************)

\* The event of r is owed as before when the step keeps what announces it.
LEMMA OwedStill ==
    ASSUME IInv, NEW r \in Regs, news[r] = "posted",
           r[1] \in open' <=> r[1] \in open, dead => dead',
           \A u \in Tasks : At(u, "pidfd")' /\ call'[u].fd = r[1]
                                => At(u, "pidfd") /\ call[u].fd = r[1],
           r[1] \in open /\ reg[r].mode # "none" => reg'[r].mode # "none",
           reg'[r].mode # "none" =>
              /\ reg[r].mode # "none" /\ (reg'[r].fired => reg[r].fired)
              /\ ready'[r[1]] = ready[r[1]]
              /\ Kind[r[1]] = "host" => (HostTells(r[1]) => HostTells(r[1])')
              /\ Kind[r[1]] # "host" =>
                   /\ WakeComing(r) => WakeComing(r)' \/ (~ Hides(reg'[r]) /\ Stirred')
                   /\ ~ WakeComing(r) /\ ~ Hides(reg[r]) /\ Stirred
                         => ~ Hides(reg'[r]) /\ Stirred'
    PROVE  PostedTo(r)' /\ (reg'[r].mode # "none" => Announced(r)')
  <1>1. PostedTo(r) /\ (reg[r].mode # "none" => Announced(r))
    BY DEF IInv, Owed
  <1>2. PostedTo(r)'
    BY <1>1 DEF PostedTo
  <1>3. ASSUME reg'[r].mode # "none" PROVE Announced(r)'
    <2>1. Announced(r)
      BY <1>1, <1>3
    <2> QED BY <1>3, <2>1 DEF Announced
  <1> QED BY <1>2, <1>3

\* What a step of t keeps of what other threads do.
LEMMA OthersKept ==
    ASSUME NEW t \in Tasks, \A u \in Tasks \ {t} : call'[u] = call[u]
    PROVE  /\ \A r \in Regs : call[t].at \notin {"wake", "waking"} =>
                 (WakeComing(r) => WakeComing(r)')
           /\ hostEdge' = hostEdge /\ call[t].at # "back" =>
                 \A d \in Descs : HostTells(d) => HostTells(d)'
           /\ (pipe > 0 => pipe' > 0) /\ call[t].at # "back" /\ call'[t].at # "asleep" =>
                 (Stirred => Stirred')
  <1>1. ASSUME NEW r \in Regs, call[t].at \notin {"wake", "waking"}, WakeComing(r)
        PROVE  WakeComing(r)'
    BY <1>1 DEF WakeComing, At
  <1>2. ASSUME hostEdge' = hostEdge, call[t].at # "back", NEW d \in Descs, HostTells(d)
        PROVE  HostTells(d)'
    BY <1>2 DEF HostTells, HostNamed, At
  <1>3. ASSUME pipe > 0 => pipe' > 0, call[t].at # "back", call'[t].at # "asleep", Stirred
        PROVE  Stirred'
    BY <1>3 DEF Stirred, At
  <1> QED BY <1>1, <1>2, <1>3

\* A step that changes neither registrations nor events.
LEMMA OwedQuiet ==
    ASSUME IInv, NEW t \in Tasks, \A u \in Tasks \ {t} : call'[u] = call[u],
           UNCHANGED <<reg, hostEdge, pipe>>, dead => dead',
           \A r \in Regs : news'[r] = "posted" =>
              /\ news[r] = "posted" /\ ready'[r[1]] = ready[r[1]]
              /\ r[1] \in open' <=> r[1] \in open
              /\ At(t, "pidfd")' => call'[t].fd # r[1]
              /\ WakeComing(r) /\ reg[r].mode # "none" => WakeComing(r)',
           call[t].at # "back", call'[t].at # "asleep"
    PROVE  Owed'
  <1> SUFFICES ASSUME NEW r \in Regs, news'[r] = "posted"
               PROVE  PostedTo(r)' /\ (reg'[r].mode # "none" => Announced(r)')
    BY DEF Owed
  <1>1. r[1] \in Descs
    BY RegsAssumption
  <1>2. HostTells(r[1]) => HostTells(r[1])'
    BY <1>1, OthersKept
  <1>3. Stirred => Stirred'
    BY OthersKept
  <1>4. \A u \in Tasks : At(u, "pidfd")' /\ call'[u].fd = r[1]
                                => At(u, "pidfd") /\ call[u].fd = r[1]
    BY DEF At
  <1> QED BY <1>2, <1>3, <1>4, OwedStill

LEMMA HostWakeKeeps ==
    ASSUME IInv, NEW t \in Tasks, HostWake(t)
    PROVE  IInv'
  <1>t. TypeOK
    BY DEF IInv
  <1>1. PICK D \in SUBSET Descs :
          /\ call' = [call EXCEPT ![t].at = "back", ![t].named = D]
          /\ hostEdge' = [d \in Descs |-> hostEdge[d] /\ d \notin D]
    BY DEF HostWake
  <1>2. /\ call' \in [Tasks -> CallRec]
        /\ call'[t].at = "back" /\ call'[t].named = D
        /\ call'[t].fd = call[t].fd
        /\ \A u \in Tasks \ {t} : call'[u] = call[u]
    BY <1>t, <1>1, Named
  <1>3. At(t, "asleep") /\ UNCHANGED <<reg, ready, waiters, pipe, locks, members, news>>
    BY DEF HostWake
  <1>4. call[t].at \in WaitPlaces /\ call'[t].at \in WaitPlaces
    BY <1>2, <1>3 DEF WaitPlaces, At
  <1>5. \A u \in Tasks : pollLock' = u <=> call'[u].at = "valve"
    BY <1>2, <1>3, ValveHolds DEF At, locks
  <1>6. Structure'
    BY <1>2, <1>3, <1>4, <1>5, WaitStructure DEF locks
  <1>7. TypeOK'
    <2>1. hostEdge' \in [Descs -> BOOLEAN]
      BY <1>t, <1>1 DEF TypeOK
    <2> QED BY <1>t, <1>2, <1>3, <2>1, ScanTypes DEF TypeOK, RegRec, locks
  <1>8. PipeExact'
    BY <1>2, <1>3, PipeKept DEF InWait, At
  <1>9. Owed'
    <2> SUFFICES ASSUME NEW r \in Regs, news'[r] = "posted"
                 PROVE  PostedTo(r)' /\ (reg'[r].mode # "none" => Announced(r)')
      BY DEF Owed
    <2>1. WakeComing(r) => WakeComing(r)'
      BY <1>2, <1>3, OthersKept DEF At
    <2>2. HostTells(r[1]) => HostTells(r[1])'
      <3>1. CASE r[1] \in D
        BY <1>2, <3>1 DEF HostTells, HostNamed, At
      <3>2. CASE r[1] \notin D /\ hostEdge[r[1]]
        BY <1>1, <3>2, RegsAssumption DEF HostTells
      <3>3. CASE HostNamed(r[1])
        BY <1>2, <1>3, <3>3 DEF HostTells, HostNamed, At
      <3> QED BY <3>1, <3>2, <3>3 DEF HostTells
    <2>3. Stirred'
      BY <1>2 DEF Stirred, At
    <2>4. \A u \in Tasks : At(u, "pidfd")' /\ call'[u].fd = r[1]
                                => At(u, "pidfd") /\ call[u].fd = r[1]
      BY <1>2 DEF At
    <2> QED BY <1>3, <2>1, <2>2, <2>3, <2>4, OwedStill DEF members
  <1> QED BY <1>6, <1>7, <1>8, <1>9 DEF IInv, Structure

LEMMA SliceIdleKeeps ==
    ASSUME IInv, NEW t \in Tasks, SliceIdle(t)
    PROVE  IInv'
  <1>t. TypeOK
    BY DEF IInv
  <1>1. /\ call' \in [Tasks -> CallRec]
        /\ call'[t].at = "valve" /\ call'[t].fd = call[t].fd
        /\ \A u \in Tasks \ {t} : call'[u] = call[u]
    <2>1. "valve" \in Places
      BY DEF Places
    <2> QED BY <1>t, <2>1, Moves DEF SliceIdle, Goto
  <1>2. /\ At(t, "asleep") /\ pollLock = Nobody /\ pollLock' = t
        /\ UNCHANGED <<reg, ready, hostEdge, waiters, pipe, fdLock, pidsLock, pidfdLock,
                       members, news>>
    BY DEF SliceIdle
  <1>3. call[t].at \in WaitPlaces /\ call'[t].at \in WaitPlaces
    BY <1>1, <1>2 DEF WaitPlaces, At
  <1>4. \A u \in Tasks : pollLock' = u <=> call'[u].at = "valve"
    BY <1>1, <1>2, ValveHolds, NobodyAssumption DEF At
  <1>5. Structure'
    BY <1>1, <1>2, <1>3, <1>4, WaitStructure
  <1>6. TypeOK'
    BY <1>t, <1>1, <1>2, ScanTypes DEF TypeOK, RegRec
  <1>7. PipeExact'
    BY <1>1, <1>2, PipeKept DEF InWait, At
  <1>8. Owed'
    <2>1. \A r \in Regs : WakeComing(r) => WakeComing(r)'
      BY <1>1, <1>2, OthersKept DEF At
    <2> QED BY <1>1, <1>2, <2>1, OwedQuiet DEF At, members
  <1> QED BY <1>5, <1>6, <1>7, <1>8 DEF IInv, Structure

-----------------------------------------------------------------------------
(***************************************************************************)
(* Members become ready, and wake.                                         *)
(***************************************************************************)

\* What Post makes posted, and what Consume leaves posted.
LEMMA PostNews ==
    ASSUME TypeOK, NEW d \in Descs, Post(d)
    PROVE  /\ news' \in [Regs -> {"none", "posted", "left", "hidden"}]
           /\ \A r \in Regs : news'[r] = "posted" =>
                \/ r[1] = d /\ reg[r].mode # "none" /\ ~ reg[r].fired
                \/ news[r] = "posted" /\ (r[1] = d => reg[r].mode = "none")
  BY DEF Post, RegsOf, TypeOK

LEMMA ConsumeNews ==
    ASSUME TypeOK, NEW d, Consume(d)
    PROVE  /\ news' \in [Regs -> {"none", "posted", "left", "hidden"}]
           /\ \A r \in Regs : news'[r] = "posted" => news[r] = "posted" /\ r[1] # d
  BY DEF Consume, TypeOK

\* A member that is not being made is nobody's to make.
LEMMA NotMaking ==
    ASSUME IInv, NEW d, d \in open \cup listed, NEW u \in Tasks, At(u, "pidfd")
    PROVE  call[u].fd # d
  BY DEF IInv, CallHasMember, At

\* A thread begins to work on an open member, with no lock.
LEMMA BeginsStructure ==
    ASSUME IInv, NEW t \in Tasks, At(t, "idle"), NEW d \in open,
           call'[t].at = "wake", call'[t].fd = d,
           \A u \in Tasks \ {t} : call'[u] = call[u],
           UNCHANGED <<reg, locks, members>>
    PROVE  Structure'
  <1> USE DEF IInv, locks, members
  <1>1. LockOwners'
    BY DEF LockOwners, At, Walking
  <1>2. CallHasMember'
    <2>1. pidsLock # t /\ d \in Descs
      BY DEF LockOwners, At, TypeOK
    <2> QED BY <2>1 DEF CallHasMember, At
  <1>3. MakerAlone'
    <2>1. \A u \in Tasks : At(u, "pidfd") => call[u].fd # d
      BY NotMaking
    <2> QED BY <2>1 DEF MakerAlone, At
  <1>4. VisitsExist'
    BY DEF VisitsExist, Walking
  <1>5. MembersKnown'
    BY DEF MembersKnown
  <1> QED BY <1>1, <1>2, <1>3, <1>4, <1>5 DEF Structure

LEMMA EventWriteKeeps ==
    ASSUME IInv, NEW t \in Tasks, EventWrite(t)
    PROVE  IInv'
  <1>t. TypeOK
    BY DEF IInv
  <1>1. PICK d \in open :
          /\ At(t, "idle") /\ Kind[d] = "event"
          /\ ready' = [ready EXCEPT ![d] = TRUE]
          /\ Post(d)
          /\ call' = [call EXCEPT ![t] = [Idle EXCEPT !.at = "wake", !.fd = d, !.read = TRUE]]
          /\ UNCHANGED <<reg, hostEdge, waiters, pipe, locks, members>>
    BY DEF EventWrite
  <1>2. d \in Descs
    BY <1>t DEF TypeOK
  <1>3. /\ call' \in [Tasks -> CallRec]
        /\ call'[t].at = "wake" /\ call'[t].fd = d /\ call'[t].read
        /\ \A u \in Tasks \ {t} : call'[u] = call[u]
    <2> DEFINE c == [Idle EXCEPT !.at = "wake", !.fd = d, !.read = TRUE]
    <2>1. c \in CallRec /\ c.at = "wake" /\ c.fd = d /\ c.read
      BY <1>2 DEF CallRec, Idle, Places
    <2>2. call' = [call EXCEPT ![t] = c]
      BY <1>1
    <2> HIDE DEF c
    <2> QED BY <1>t, <2>1, <2>2, SetCall
  <1>4. Structure'
    BY <1>1, <1>3, BeginsStructure
  <1>5. /\ ready' \in [Descs -> BOOLEAN] /\ ready'[d]
        /\ \A e \in Descs : e # d => ready'[e] = ready[e]
    BY <1>t, <1>1, <1>2 DEF TypeOK
  <1>6. /\ news' \in [Regs -> {"none", "posted", "left", "hidden"}]
        /\ \A r \in Regs : news'[r] = "posted" =>
             \/ r[1] = d /\ reg[r].mode # "none" /\ ~ reg[r].fired
             \/ news[r] = "posted" /\ (r[1] = d => reg[r].mode = "none")
    BY <1>t, <1>1, <1>2, PostNews
  <1>7. TypeOK'
    BY <1>t, <1>1, <1>3, <1>5, <1>6 DEF TypeOK, CallRec, locks, members
  <1>8. PipeExact'
    BY <1>1, <1>3, PipeKept DEF InWait, At
  <1>9. Owed'
    <2> SUFFICES ASSUME NEW r \in Regs, news'[r] = "posted"
                 PROVE  PostedTo(r)' /\ (reg'[r].mode # "none" => Announced(r)')
      BY DEF Owed
    <2>1. CASE r[1] = d /\ reg[r].mode # "none" /\ ~ reg[r].fired
      <3>1. PostedTo(r)'
        BY <1>1, <2>1 DEF PostedTo, members
      <3>2. WakeComing(r)'
        BY <1>3, <2>1 DEF WakeComing, At
      <3> QED BY <1>1, <1>5, <2>1, <3>1, <3>2 DEF Announced
    <2>2. CASE news[r] = "posted" /\ (r[1] = d => reg[r].mode = "none")
      <3>1. r[1] \in Descs /\ call[t].at \notin {"wake", "waking", "back"}
        BY <1>1, RegsAssumption DEF At
      <3>2. /\ HostTells(r[1]) => HostTells(r[1])'
            /\ WakeComing(r) => WakeComing(r)'
            /\ Stirred => Stirred'
        BY <1>1, <1>3, <3>1, OthersKept
      <3>3. \A u \in Tasks : At(u, "pidfd")' /\ call'[u].fd = r[1]
                                => At(u, "pidfd") /\ call[u].fd = r[1]
        BY <1>3 DEF At
      <3> QED BY <1>1, <1>5, <2>2, <3>1, <3>2, <3>3, OwedStill DEF members
    <2> QED BY <1>6, <2>1, <2>2
  <1> QED BY <1>4, <1>7, <1>8, <1>9 DEF IInv, Structure

LEMMA EventReadKeeps ==
    ASSUME IInv, NEW t \in Tasks, EventRead(t)
    PROVE  IInv'
  <1>t. TypeOK
    BY DEF IInv
  <1>1. PICK d \in open :
          /\ At(t, "idle")
          /\ ready' = [ready EXCEPT ![d] = FALSE]
          /\ Consume(d)
          /\ call' = [call EXCEPT ![t] = [Idle EXCEPT !.at = "wake", !.fd = d]]
          /\ UNCHANGED <<reg, hostEdge, waiters, pipe, locks, members>>
    BY DEF EventRead
  <1>2. d \in Descs
    BY <1>t DEF TypeOK
  <1>3. /\ call' \in [Tasks -> CallRec]
        /\ call'[t].at = "wake" /\ call'[t].fd = d
        /\ \A u \in Tasks \ {t} : call'[u] = call[u]
    <2> DEFINE c == [Idle EXCEPT !.at = "wake", !.fd = d]
    <2>1. c \in CallRec /\ c.at = "wake" /\ c.fd = d
      BY <1>2 DEF CallRec, Idle, Places
    <2>2. call' = [call EXCEPT ![t] = c]
      BY <1>1
    <2> HIDE DEF c
    <2> QED BY <1>t, <2>1, <2>2, SetCall
  <1>4. Structure'
    BY <1>1, <1>3, BeginsStructure
  <1>5. /\ ready' \in [Descs -> BOOLEAN]
        /\ \A e \in Descs : e # d => ready'[e] = ready[e]
    BY <1>t, <1>1, <1>2 DEF TypeOK
  <1>6. /\ news' \in [Regs -> {"none", "posted", "left", "hidden"}]
        /\ \A r \in Regs : news'[r] = "posted" => news[r] = "posted" /\ r[1] # d
    BY <1>t, <1>1, ConsumeNews
  <1>7. TypeOK'
    BY <1>t, <1>1, <1>3, <1>5, <1>6 DEF TypeOK, CallRec, locks, members
  <1>8. PipeExact'
    BY <1>1, <1>3, PipeKept DEF InWait, At
  <1>9. Owed'
    <2>1. \A r \in Regs : WakeComing(r) => WakeComing(r)'
      BY <1>1, <1>3, OthersKept DEF At
    <2> QED BY <1>1, <1>3, <1>5, <1>6, <2>1, RegsAssumption, OwedQuiet DEF At, members
  <1> QED BY <1>4, <1>7, <1>8, <1>9 DEF IInv, Structure

LEMMA HostDataKeeps ==
    ASSUME IInv, HostData
    PROVE  IInv'
  <1>t. TypeOK
    BY DEF IInv
  <1>1. PICK d \in open :
          /\ Kind[d] = "host"
          /\ \/ /\ ready' = [ready EXCEPT ![d] = TRUE]
                /\ hostEdge' = [hostEdge EXCEPT ![d] = HostHas(reg, d)]
                /\ Post(d)
             \/ /\ ready' = [ready EXCEPT ![d] = FALSE]
                /\ hostEdge' = [hostEdge EXCEPT ![d] = FALSE]
                /\ Consume(d)
    BY DEF HostData
  <1>2. UNCHANGED <<reg, waiters, pipe, locks, members, call>>
    BY DEF HostData
  <1>3. d \in Descs
    BY <1>t DEF TypeOK
  <1>4. Structure'
    BY <1>2 DEF IInv, Structure, LockOwners, CallHasMember, MakerAlone, VisitsExist,
                MembersKnown, At, Walking, locks, members
  <1>5. /\ ready' \in [Descs -> BOOLEAN] /\ hostEdge' \in [Descs -> BOOLEAN]
        /\ \A e \in Descs : e # d => ready'[e] = ready[e] /\ hostEdge'[e] = hostEdge[e]
    <2>1. HostHas(reg, d) \in BOOLEAN
      BY DEF HostHas
    <2> QED BY <1>t, <1>1, <1>3, <2>1 DEF TypeOK
  <1>6. /\ news' \in [Regs -> {"none", "posted", "left", "hidden"}]
        /\ \A r \in Regs : news'[r] = "posted" =>
             \/ /\ r[1] = d /\ reg[r].mode # "none" /\ ~ reg[r].fired
                /\ ready' = [ready EXCEPT ![d] = TRUE]
                /\ hostEdge' = [hostEdge EXCEPT ![d] = HostHas(reg, d)]
             \/ news[r] = "posted" /\ (r[1] = d => reg[r].mode = "none")
    <2>1. CASE Post(d) /\ ready' = [ready EXCEPT ![d] = TRUE]
               /\ hostEdge' = [hostEdge EXCEPT ![d] = HostHas(reg, d)]
      BY <1>t, <1>3, <2>1, PostNews
    <2>2. CASE Consume(d)
      BY <1>t, <2>2, ConsumeNews
    <2> QED BY <1>1, <2>1, <2>2
  <1>7. TypeOK'
    BY <1>t, <1>2, <1>5, <1>6 DEF TypeOK, locks, members
  <1>8. PipeExact'
    BY <1>2, PipeKept DEF InWait
  <1>9. Owed'
    <2> SUFFICES ASSUME NEW r \in Regs, news'[r] = "posted"
                 PROVE  PostedTo(r)' /\ (reg'[r].mode # "none" => Announced(r)')
      BY DEF Owed
    <2>1. CASE /\ r[1] = d /\ reg[r].mode # "none" /\ ~ reg[r].fired
               /\ ready' = [ready EXCEPT ![d] = TRUE]
               /\ hostEdge' = [hostEdge EXCEPT ![d] = HostHas(reg, d)]
      <3>1. PostedTo(r)'
        BY <1>1, <1>2, <2>1 DEF PostedTo, members
      <3>2. HostHas(reg, d)
        BY <1>1, <2>1 DEF HostHas, Armed
      <3>3. ready'[d] /\ hostEdge'[d]
        BY <1>t, <1>3, <2>1, <3>2 DEF TypeOK
      <3> QED BY <1>1, <1>2, <2>1, <3>1, <3>3 DEF Announced, HostTells
    <2>2. CASE news[r] = "posted" /\ (r[1] = d => reg[r].mode = "none")
      <3>1. r[1] \in Descs
        BY RegsAssumption
      <3>2. r[1] # d => (HostTells(r[1]) => HostTells(r[1])')
        BY <1>2, <1>5, <3>1 DEF HostTells, HostNamed, At
      <3>3. (WakeComing(r) => WakeComing(r)') /\ (Stirred => Stirred')
        BY <1>2 DEF WakeComing, Stirred, At
      <3>4. \A u \in Tasks : At(u, "pidfd")' /\ call'[u].fd = r[1]
                                => At(u, "pidfd") /\ call[u].fd = r[1]
        BY <1>2 DEF At
      <3> QED BY <1>2, <1>5, <2>2, <3>1, <3>2, <3>3, <3>4, OwedStill DEF members
    <2> QED BY <1>6, <2>1, <2>2
  <1> QED BY <1>4, <1>7, <1>8, <1>9 DEF IInv, Structure

\* A walk begins: with the lock of the member, over all its registrations.
LEMMA WalkStructure ==
    ASSUME IInv, NEW t \in Tasks,
           \/ At(t, "wake") /\ call'[t].at = "waking"
           \/ At(t, "cleanup") /\ call'[t].at = "cleaning",
           call'[t].fd = call[t].fd, call'[t].todo = RegsOf(call[t].fd),
           \A u \in Tasks \ {t} : call'[u] = call[u],
           fdLock[call[t].fd] = Nobody, fdLock' = [fdLock EXCEPT ![call[t].fd] = t],
           UNCHANGED <<reg, pollLock, pidsLock, pidfdLock, members>>
    PROVE  Structure'
  <1> USE DEF IInv, members
  <1>1. LockOwners'
    <2>1. /\ call[t].fd \in Descs /\ fdLock' \in [Descs -> Tasks \cup {Nobody}]
          /\ fdLock'[call[t].fd] = t
          /\ \A d \in Descs : d # call[t].fd => fdLock'[d] = fdLock[d]
      BY DEF CallHasMember, At, TypeOK
    <2>2. ~ Walking(t) /\ Walking(t)'
      BY DEF Walking, At
    <2>3. \A u \in Tasks \ {t} : Walking(u)' <=> Walking(u)
      BY DEF Walking
    <2>4. ASSUME NEW u \in Tasks, NEW d \in Descs
          PROVE  fdLock'[d] = u <=> Walking(u)' /\ call'[u].fd = d
      <3>1. fdLock[d] = u <=> Walking(u) /\ call[u].fd = d
        BY DEF LockOwners
      <3> QED BY <2>1, <2>2, <2>3, <3>1, NobodyAssumption
    <2>5. \A u \in Tasks : /\ At(u, "valve")' <=> At(u, "valve")
                           /\ At(u, "exit")' <=> At(u, "exit")
                           /\ call'[u].at \in {"exit", "wake", "waking"}
                                <=> call[u].at \in {"exit", "wake", "waking"}
      BY DEF At
    <2> QED BY <2>4, <2>5 DEF LockOwners
  <1>2. CallHasMember'
    BY DEF CallHasMember, At
  <1>3. MakerAlone'
    BY DEF MakerAlone, At
  <1>4. VisitsExist'
    BY DEF VisitsExist, Walking, RegsOf
  <1>5. MembersKnown'
    BY DEF MembersKnown
  <1> QED BY <1>1, <1>2, <1>3, <1>4, <1>5 DEF Structure

LEMMA WakeStartKeeps ==
    ASSUME IInv, NEW t \in Tasks, WakeStart(t)
    PROVE  IInv'
  <1>t. TypeOK
    BY DEF IInv
  <1>1. /\ At(t, "wake") /\ fdLock[call[t].fd] = Nobody
        /\ fdLock' = [fdLock EXCEPT ![call[t].fd] = t]
        /\ call' = [call EXCEPT ![t].at = "waking", ![t].todo = RegsOf(call[t].fd)]
        /\ UNCHANGED <<reg, ready, hostEdge, waiters, pipe, pollLock, pidsLock, pidfdLock,
                       members, news>>
    BY DEF WakeStart
  <1>2. /\ call' \in [Tasks -> CallRec]
        /\ call'[t].at = "waking" /\ call'[t].todo = RegsOf(call[t].fd)
        /\ call'[t].fd = call[t].fd /\ call'[t].read = call[t].read
        /\ \A u \in Tasks \ {t} : call'[u] = call[u]
    <2>1. RegsOf(call[t].fd) \in SUBSET Regs
      BY DEF RegsOf
    <2> QED BY <1>t, <1>1, <2>1, WakingMoves
  <1>3. Structure'
    BY <1>1, <1>2, WalkStructure
  <1>4. TypeOK'
    BY <1>t, <1>1, <1>2 DEF TypeOK, CallRec, members
  <1>5. PipeExact'
    BY <1>1, <1>2, PipeKept DEF InWait, At
  <1>6. Owed'
    <2>1. ASSUME NEW r \in Regs, WakeComing(r), reg[r].mode # "none"
          PROVE  WakeComing(r)'
      <3>1. PICK u \in Tasks : /\ call[u].fd = r[1] /\ call[u].read
                               /\ At(u, "wake") \/ (At(u, "waking") /\ r \in call[u].todo)
        BY <2>1 DEF WakeComing
      <3>2. CASE u = t
        BY <1>1, <1>2, <2>1, <3>1, <3>2 DEF WakeComing, At, RegsOf
      <3>3. CASE u # t
        BY <1>2, <3>1, <3>3 DEF WakeComing, At
      <3> QED BY <3>2, <3>3
    <2> QED BY <1>1, <1>2, <2>1, OwedQuiet DEF At, members
  <1> QED BY <1>3, <1>4, <1>5, <1>6 DEF IInv, Structure

LEMMA WakeOneKeeps ==
    ASSUME IInv, NEW t \in Tasks, WakeOne(t)
    PROVE  IInv'
  <1>t. TypeOK
    BY DEF IInv
  <1>1. PICK q \in call[t].todo :
          /\ At(t, "waking")
          /\ IF reg[q].fired THEN UNCHANGED <<reg, pipe>>
             ELSE /\ reg' = IF call[t].read THEN [reg EXCEPT ![q] = Unmasked(@)] ELSE reg
                  /\ pipe' = IF pipe \in {-1, PipeMax} THEN pipe ELSE pipe + 1
          /\ call' = [call EXCEPT ![t].todo = @ \ {q}]
          /\ UNCHANGED <<ready, hostEdge, waiters, locks, members, news>>
    BY DEF WakeOne
  <1>2. /\ call' \in [Tasks -> CallRec]
        /\ call'[t].todo = call[t].todo \ {q}
        /\ call'[t].at = call[t].at /\ call'[t].fd = call[t].fd
        /\ call'[t].read = call[t].read
        /\ \A u \in Tasks \ {t} : call'[u] = call[u]
    BY <1>t, <1>1, Visits
  <1>3. q \in Regs /\ \A u \in Tasks : call[u].todo \subseteq Regs
    BY <1>t DEF TypeOK
  <1>4. /\ reg' \in [Regs -> RegRec]
        /\ \A r \in Regs : r # q => reg'[r] = reg[r]
        /\ reg'[q].mode = reg[q].mode /\ reg'[q].fired = reg[q].fired
        /\ Hides(reg'[q]) => Hides(reg[q])
        /\ call[t].read /\ ~ reg[q].fired => ~ Hides(reg'[q])
    <2>0. reg \in [Regs -> RegRec]
      BY <1>t DEF TypeOK, RegRec
    <2>1. CASE reg' = reg /\ ~ (call[t].read /\ ~ reg[q].fired)
      BY <2>0, <2>1
    <2>2. CASE reg' = [reg EXCEPT ![q] = Unmasked(@)]
      <3> DEFINE y == Unmasked(reg[q])
      <3>1. y \in RegRec /\ y.mode = reg[q].mode /\ y.fired = reg[q].fired /\ ~ Hides(y)
        BY <1>3, <2>0, UnmaskFields
      <3>2. reg' = [reg EXCEPT ![q] = y]
        BY <2>2
      <3> HIDE DEF y
      <3> QED BY <1>t, <1>3, <3>1, <3>2, SetReg
    <2> QED BY <1>1, <2>1, <2>2
  <1>5. /\ pipe' \in -1 .. PipeMax /\ (pipe' = -1 <=> pipe = -1) /\ (pipe > 0 => pipe' > 0)
        /\ ~ reg[q].fired /\ pipe # -1 => pipe' > 0
    <2>1. pipe \in -1 .. PipeMax /\ PipeMax \in Nat /\ PipeMax > 0
      BY <1>t, BoundAssumption DEF TypeOK
    <2> QED BY <1>1, <2>1
  <1>6. Structure'
    <2> USE DEF IInv, locks, members
    <2>1. LockOwners'
      BY <1>1, <1>2 DEF LockOwners, At, Walking
    <2>2. CallHasMember'
      BY <1>1, <1>2 DEF CallHasMember, At
    <2>3. MakerAlone'
      BY <1>1, <1>2 DEF MakerAlone, At
    <2>4. VisitsExist'
      <3>1. \A r \in Regs : reg'[r].mode = reg[r].mode
        BY <1>4
      <3> QED BY <1>1, <1>2, <1>3, <3>1 DEF VisitsExist, Walking, At
    <2>5. MembersKnown'
      BY <1>1 DEF MembersKnown
    <2> QED BY <2>1, <2>2, <2>3, <2>4, <2>5 DEF Structure
  <1>7. TypeOK'
    BY <1>t, <1>1, <1>2, <1>4, <1>5 DEF TypeOK, CallRec, RegRec, locks, members
  <1>8. PipeExact'
    BY <1>1, <1>2, <1>5, PipeKept DEF InWait, At
  <1>9. Owed'
    <2> SUFFICES ASSUME NEW r \in Regs, news'[r] = "posted"
                 PROVE  PostedTo(r)' /\ (reg'[r].mode # "none" => Announced(r)')
      BY DEF Owed
    <2>0. reg[r].mode # "none" => Announced(r)
      BY <1>1 DEF IInv, Owed
    <2>1. HostTells(r[1]) => HostTells(r[1])'
      BY <1>1, RegsAssumption, <1>2, OthersKept DEF At
    <2>2. Stirred => Stirred'
      BY <1>1, <1>2, <1>5, OthersKept DEF At
    <2>3. reg[r].mode # "none" /\ WakeComing(r) => WakeComing(r)' \/ (~ Hides(reg'[r]) /\ Stirred')
      <3> SUFFICES ASSUME reg[r].mode # "none", WakeComing(r)
                   PROVE  WakeComing(r)' \/ (~ Hides(reg'[r]) /\ Stirred')
        OBVIOUS
      <3>1. PICK u \in Tasks : /\ call[u].fd = r[1] /\ call[u].read
                               /\ At(u, "wake") \/ (At(u, "waking") /\ r \in call[u].todo)
        BY DEF WakeComing
      <3>2. CASE u # t \/ r # q
        BY <1>1, <1>2, <3>1, <3>2 DEF WakeComing, At
      <3>3. CASE u = t /\ r = q
        <4>1. ~ reg[q].fired /\ call[t].read
          BY <2>0, <3>1, <3>3 DEF Announced
        <4>2. ASSUME NEW v \in Tasks, At(v, "asleep")' PROVE pipe' > 0
          <5>1. InWait(v)
            BY <1>2, <4>2 DEF At, InWait
          <5>2. pipe # -1
            BY <5>1, PipeThere
          <5> QED BY <1>5, <4>1, <5>2
        <4> QED BY <1>4, <3>3, <4>1, <4>2 DEF Stirred
      <3> QED BY <3>2, <3>3
    <2>4. \A u \in Tasks : At(u, "pidfd")' /\ call'[u].fd = r[1]
                                => At(u, "pidfd") /\ call[u].fd = r[1]
      BY <1>2 DEF At
    <2>5. /\ reg'[r].mode = reg[r].mode /\ reg'[r].fired = reg[r].fired
          /\ Hides(reg'[r]) => Hides(reg[r])
      BY <1>4
    <2>6. ready'[r[1]] = ready[r[1]] /\ open' = open /\ dead' = dead /\ news[r] = "posted"
      BY <1>1 DEF members
    <2> QED BY <2>1, <2>2, <2>3, <2>4, <2>5, <2>6, OwedStill
  <1> QED BY <1>6, <1>7, <1>8, <1>9 DEF IInv, Structure

LEMMA WakeEndKeeps ==
    ASSUME IInv, NEW t \in Tasks, WakeEnd(t)
    PROVE  IInv'
  <1>t. TypeOK
    BY DEF IInv
  <1>1. /\ At(t, "waking") /\ call[t].todo = {}
        /\ fdLock' = [fdLock EXCEPT ![call[t].fd] = Nobody]
        /\ pidsLock' = IF pidsLock = t THEN Nobody ELSE pidsLock
        /\ pidfdLock' = IF pidfdLock = t THEN Nobody ELSE pidfdLock
        /\ UNCHANGED <<reg, ready, hostEdge, waiters, pipe, pollLock, members, news>>
    BY DEF WakeEnd
  <1>2. /\ call' \in [Tasks -> CallRec] /\ call'[t].at = "idle" /\ call'[t].fd = Nobody
        /\ \A u \in Tasks \ {t} : call'[u] = call[u]
    BY <1>t, FreshRecords, SetCall DEF WakeEnd, Return
  <1>3. Structure'
    <2> USE DEF IInv, members
    <2>1. LockOwners'
      <3>1. /\ call[t].fd \in Descs /\ fdLock' \in [Descs -> Tasks \cup {Nobody}]
            /\ fdLock'[call[t].fd] = Nobody
            /\ \A d \in Descs : d # call[t].fd => fdLock'[d] = fdLock[d]
        BY <1>1 DEF CallHasMember, At, TypeOK
      <3>2. Walking(t) /\ ~ Walking(t)' /\ fdLock[call[t].fd] = t
        BY <1>1, <1>2, <3>1 DEF Walking, At, LockOwners
      <3>3. \A u \in Tasks \ {t} : Walking(u)' <=> Walking(u)
        BY <1>2 DEF Walking
      <3>4. ASSUME NEW u \in Tasks, NEW d \in Descs
            PROVE  fdLock'[d] = u <=> Walking(u)' /\ call'[u].fd = d
        <4>1. fdLock[d] = u <=> Walking(u) /\ call[u].fd = d
          BY DEF LockOwners
        <4>2. fdLock[d] = t <=> Walking(t) /\ call[t].fd = d
          BY DEF LockOwners
        <4> QED BY <1>2, <3>1, <3>2, <3>3, <4>1, <4>2, NobodyAssumption
      <3>5. \A u \in Tasks : u # Nobody
        BY NobodyAssumption
      <3> QED BY <1>1, <1>2, <3>4, <3>5 DEF LockOwners, At
    <2>2. CallHasMember'
      BY <1>1, <1>2, NobodyAssumption DEF CallHasMember, At
    <2>3. MakerAlone'
      BY <1>1, <1>2, NobodyAssumption DEF MakerAlone, At, CallHasMember
    <2>4. VisitsExist'
      BY <1>1, <1>2 DEF VisitsExist, Walking
    <2>5. MembersKnown'
      BY <1>1 DEF MembersKnown
    <2> QED BY <2>1, <2>2, <2>3, <2>4, <2>5 DEF Structure
  <1>4. TypeOK'
    <2>1. fdLock' \in [Descs -> Tasks \cup {Nobody}]
      BY <1>t, <1>1 DEF TypeOK
    <2> QED BY <1>t, <1>1, <1>2, <2>1 DEF TypeOK, CallRec, members
  <1>5. PipeExact'
    BY <1>1, <1>2, PipeKept DEF InWait, At
  <1>6. Owed'
    <2>1. ASSUME NEW r \in Regs, WakeComing(r) PROVE WakeComing(r)'
      BY <1>1, <1>2, <2>1 DEF WakeComing, At
    <2> QED BY <1>1, <1>2, <2>1, OwedQuiet DEF At, members
  <1> QED BY <1>3, <1>4, <1>5, <1>6 DEF IInv, Structure

-----------------------------------------------------------------------------
(***************************************************************************)
(* epoll_ctl.                                                              *)
(***************************************************************************)

\* A registration changes under fd->poll_lock, and the host's side follows.
LEMMA ChangedStep ==
    ASSUME IInv, NEW t \in Tasks, NEW r \in Regs, NEW x \in RegRec, Changed(t, r, x),
           news' \in [Regs -> {"none", "posted", "left", "hidden"}],
           \A q \in Regs : news'[q] = "posted" =>
              /\ news[q] = "posted"
              /\ q = r => /\ reg[r].mode # "none" /\ x.mode # "none" /\ ~ x.fired
                          /\ Hides(x) => Hides(reg[r]) \/ WakeComing(r) \/ Kind[r[1]] = "host"
    PROVE  IInv'
  <1>t. TypeOK
    BY DEF IInv
  <1>1. /\ At(t, "idle") /\ r[1] \in open /\ fdLock[r[1]] = Nobody
        /\ reg' = [reg EXCEPT ![r] = x]
        /\ hostEdge' = Refreshed(reg', {r[1]})
        /\ UNCHANGED <<ready, waiters, pipe, locks, members, call>>
    BY DEF Changed
  <1>2. /\ reg' \in [Regs -> RegRec] /\ reg'[r] = x
        /\ \A q \in Regs \ {r} : reg'[q] = reg[q]
    BY <1>t, <1>1, SetReg
  <1>3. /\ hostEdge' \in [Descs -> BOOLEAN]
        /\ \A d \in Descs :
             \/ hostEdge'[d] = hostEdge[d] /\ ~ (d = r[1] /\ Kind[d] = "host")
             \/ d = r[1] /\ hostEdge'[d] = (HostHas(reg', d) /\ ready[d])
    BY <1>t, <1>1, RefreshedEdge
  <1>4. Structure'
    <2> USE DEF IInv, locks, members
    <2>1. LockOwners'
      BY <1>1 DEF LockOwners, At, Walking
    <2>2. CallHasMember'
      BY <1>1 DEF CallHasMember, At
    <2>3. MakerAlone'
      BY <1>1 DEF MakerAlone, At
    <2>4. VisitsExist'
      <3> SUFFICES ASSUME NEW u \in Tasks, Walking(u), NEW q \in call[u].todo
                   PROVE  q[1] = call[u].fd /\ reg'[q].mode # "none"
        BY <1>1 DEF VisitsExist, Walking
      <3>1. q \in Regs /\ q[1] = call[u].fd /\ reg[q].mode # "none"
        BY <1>t DEF VisitsExist, TypeOK
      <3>2. fdLock[q[1]] = u /\ u # Nobody
        BY <3>1, RegsAssumption, NobodyAssumption DEF LockOwners
      <3>3. q # r
        BY <1>1, <3>2
      <3> QED BY <1>2, <3>1, <3>3
    <2>5. MembersKnown'
      BY <1>1 DEF MembersKnown
    <2> QED BY <2>1, <2>2, <2>3, <2>4, <2>5 DEF Structure
  <1>5. TypeOK'
    BY <1>t, <1>1, <1>2, <1>3 DEF TypeOK, RegRec, locks, members
  <1>6. PipeExact'
    BY <1>1, PipeKept DEF InWait
  <1>7. Owed'
    <2> SUFFICES ASSUME NEW q \in Regs, news'[q] = "posted"
                 PROVE  PostedTo(q)' /\ (reg'[q].mode # "none" => Announced(q)')
      BY DEF Owed
    <2>0. /\ news[q] = "posted" /\ q[1] \in Descs
          /\ reg[q].mode # "none" => Announced(q)
      BY RegsAssumption DEF IInv, Owed
    <2>1. /\ reg'[q].mode # "none" <=> reg[q].mode # "none"
          /\ reg'[q].fired => reg[q].fired
          /\ Hides(reg'[q]) => Hides(reg[q]) \/ WakeComing(q) \/ Kind[q[1]] = "host"
      BY <1>2
    <2>2. (WakeComing(q) => WakeComing(q)') /\ (Stirred => Stirred')
      BY <1>1 DEF WakeComing, Stirred, At
    <2>3. reg'[q].mode # "none" => (HostTells(q[1]) => HostTells(q[1])')
      <3>1. CASE hostEdge'[q[1]] = hostEdge[q[1]]
        BY <1>1, <3>1 DEF HostTells, HostNamed, At
      <3>2. CASE reg'[q].mode # "none" /\ q[1] = r[1] /\ Kind[q[1]] = "host"
                 /\ hostEdge'[q[1]] = (HostHas(reg', q[1]) /\ ready[q[1]])
        <4>1. ~ reg'[q].fired /\ ready[q[1]]
          BY <2>0, <2>1, <3>2 DEF Announced
        <4>2. HostHas(reg', q[1])
          BY <3>2, <4>1 DEF HostHas, Armed
        <4> QED BY <3>2, <4>1, <4>2 DEF HostTells
      <3>3. CASE Kind[q[1]] # "host" /\ q[1] = r[1]
                 /\ hostEdge'[q[1]] = (HostHas(reg', q[1]) /\ ready[q[1]])
        <4>1. Refreshed(reg', {r[1]})[q[1]] = hostEdge[q[1]]
          BY <2>0, <3>3 DEF Refreshed
        <4> QED BY <1>1, <4>1 DEF HostTells, HostNamed, At
      <3> QED BY <1>3, <2>0, <3>1, <3>2, <3>3
    <2>4. \A u \in Tasks : At(u, "pidfd")' /\ call'[u].fd = q[1]
                                => At(u, "pidfd") /\ call[u].fd = q[1]
      BY <1>1 DEF At
    <2> QED BY <1>1, <2>0, <2>1, <2>2, <2>3, <2>4, OwedStill DEF members
  <1> QED BY <1>4, <1>5, <1>6, <1>7 DEF IInv, Structure

LEMMA CtlAddKeeps ==
    ASSUME IInv, NEW t \in Tasks, CtlAdd(t)
    PROVE  IInv'
  <1>1. PICK r \in Regs : \E m \in Modes[r] :
          reg[r].mode = "none" /\ Changed(t, r, NewReg(m)) /\ UNCHANGED news
    BY DEF CtlAdd
  <1>2. PICK m \in Modes[r] : Changed(t, r, NewReg(m))
    BY <1>1
  <1>3. NewReg(m) \in RegRec
    BY ModesAssumption, FreshRecords
  <1>4. news' = news /\ news \in [Regs -> {"none", "posted", "left", "hidden"}]
    BY <1>1 DEF IInv, TypeOK
  <1>5. news[r] # "posted"
    BY <1>1, <1>2 DEF IInv, Owed, PostedTo, Changed
  <1> QED BY <1>2, <1>3, <1>4, <1>5, ChangedStep

LEMMA CtlModKeeps ==
    ASSUME IInv, NEW t \in Tasks, CtlMod(t)
    PROVE  IInv'
  <1>1. PICK r \in Regs : \E m \in Modes[r] :
          LET x == [reg[r] EXCEPT !.mode = m, !.fired = FALSE] IN
          /\ reg[r].mode # "none"
          /\ Changed(t, r, x)
          /\ news' = IF Hidden(r, x) THEN [news EXCEPT ![r] = "hidden"] ELSE news
    BY DEF CtlMod
  <1>2. PICK m \in Modes[r] :
          LET x == [reg[r] EXCEPT !.mode = m, !.fired = FALSE] IN
          /\ Changed(t, r, x)
          /\ news' = IF Hidden(r, x) THEN [news EXCEPT ![r] = "hidden"] ELSE news
    BY <1>1
  <1> DEFINE x == [reg[r] EXCEPT !.mode = m, !.fired = FALSE]
  <1>3. x \in RegRec /\ x.mode = m /\ ~ x.fired /\ x.masked = reg[r].masked
    <2>1. m \in AllModes /\ reg[r] \in RegRec
      BY ModesAssumption DEF IInv, TypeOK, RegRec
    <2> QED BY <2>1 DEF RegRec
  <1>4. m # "none"
    BY ModesAssumption, ModesReal
  <1>5. Changed(t, r, x) /\ news' = IF Hidden(r, x) THEN [news EXCEPT ![r] = "hidden"] ELSE news
    BY <1>2
  <1> HIDE DEF x
  <1>6. /\ news' \in [Regs -> {"none", "posted", "left", "hidden"}]
        /\ \A q \in Regs : news'[q] = "posted" => news[q] = "posted" /\ (q = r => ~ Hidden(r, x))
    BY <1>5 DEF IInv, TypeOK
  <1>7. news'[r] = "posted" => (Hides(x) => Hides(reg[r]) \/ WakeComing(r) \/ Kind[r[1]] = "host")
    BY <1>3, <1>6 DEF Hidden, Hides
  <1> QED BY <1>1, <1>3, <1>4, <1>5, <1>6, <1>7, ChangedStep

LEMMA CtlDelKeeps ==
    ASSUME IInv, NEW t \in Tasks, CtlDel(t)
    PROVE  IInv'
  <1>1. PICK r \in Regs : Changed(t, r, NoReg) /\ news' = [news EXCEPT ![r] = "none"]
    BY DEF CtlDel
  <1>2. /\ news' \in [Regs -> {"none", "posted", "left", "hidden"}] /\ news'[r] = "none"
        /\ \A q \in Regs : q # r => news'[q] = news[q]
    BY <1>1 DEF IInv, TypeOK
  <1> QED BY <1>1, <1>2, FreshRecords, ChangedStep

-----------------------------------------------------------------------------
(***************************************************************************)
(* The last close of a member.                                             *)
(***************************************************************************)

LEMMA CloseKeeps ==
    ASSUME IInv, NEW t \in Tasks, Close(t)
    PROVE  IInv'
  <1>t. TypeOK
    BY DEF IInv
  <1>1. PICK d \in open :
          /\ At(t, "idle")
          /\ \A u \in Tasks : call[u].fd = d => call[u].at \in {"wake", "waking"} /\ pidsLock = u
          /\ open' = open \ {d}
          /\ call' = [call EXCEPT ![t] = [Idle EXCEPT !.at = "cleanup", !.fd = d]]
          /\ Consume(d)
          /\ UNCHANGED <<reg, ready, hostEdge, waiters, pipe, locks, listed, dead>>
    BY DEF Close
  <1>2. d \in Descs
    BY <1>t DEF TypeOK
  <1>3. /\ call' \in [Tasks -> CallRec]
        /\ call'[t].at = "cleanup" /\ call'[t].fd = d
        /\ \A u \in Tasks \ {t} : call'[u] = call[u]
    <2> DEFINE c == [Idle EXCEPT !.at = "cleanup", !.fd = d]
    <2>1. c \in CallRec /\ c.at = "cleanup" /\ c.fd = d
      BY <1>2 DEF CallRec, Idle, Places
    <2>2. call' = [call EXCEPT ![t] = c]
      BY <1>1
    <2> HIDE DEF c
    <2> QED BY <1>t, <2>1, <2>2, SetCall
  <1>4. Structure'
    <2> USE DEF IInv, locks
    <2>1. LockOwners'
      BY <1>1, <1>3 DEF LockOwners, At, Walking
    <2>2. CallHasMember'
      BY <1>1, <1>2, <1>3 DEF CallHasMember, At
    <2>3. MakerAlone'
      <3>1. \A u \in Tasks : At(u, "pidfd") => call[u].fd # d
        BY NotMaking
      <3> QED BY <1>3, <3>1 DEF MakerAlone, At
    <2>4. VisitsExist'
      BY <1>1, <1>3 DEF VisitsExist, Walking
    <2>5. MembersKnown'
      BY <1>1 DEF MembersKnown
    <2> QED BY <2>1, <2>2, <2>3, <2>4, <2>5 DEF Structure
  <1>5. /\ news' \in [Regs -> {"none", "posted", "left", "hidden"}]
        /\ \A r \in Regs : news'[r] = "posted" => news[r] = "posted" /\ r[1] # d
    BY <1>t, <1>1, ConsumeNews
  <1>6. TypeOK'
    BY <1>t, <1>1, <1>3, <1>5 DEF TypeOK, CallRec, locks
  <1>7. PipeExact'
    BY <1>1, <1>3, PipeKept DEF InWait, At
  <1>8. Owed'
    <2>1. \A r \in Regs : WakeComing(r) => WakeComing(r)'
      BY <1>1, <1>3, OthersKept DEF At
    <2> QED BY <1>1, <1>3, <1>5, <2>1, OwedQuiet DEF At
  <1> QED BY <1>4, <1>6, <1>7, <1>8 DEF IInv, Structure

LEMMA CleanupStartKeeps ==
    ASSUME IInv, NEW t \in Tasks, CleanupStart(t)
    PROVE  IInv'
  <1>t. TypeOK
    BY DEF IInv
  <1>1. /\ At(t, "cleanup") /\ fdLock[call[t].fd] = Nobody
        /\ fdLock' = [fdLock EXCEPT ![call[t].fd] = t]
        /\ call' = [call EXCEPT ![t].at = "cleaning", ![t].todo = RegsOf(call[t].fd)]
        /\ UNCHANGED <<reg, ready, hostEdge, waiters, pipe, pollLock, pidsLock, pidfdLock,
                       members, news>>
    BY DEF CleanupStart
  <1>2. /\ call' \in [Tasks -> CallRec]
        /\ call'[t].at = "cleaning" /\ call'[t].todo = RegsOf(call[t].fd)
        /\ call'[t].fd = call[t].fd /\ call'[t].read = call[t].read
        /\ \A u \in Tasks \ {t} : call'[u] = call[u]
    <2>1. RegsOf(call[t].fd) \in SUBSET Regs
      BY DEF RegsOf
    <2> QED BY <1>t, <1>1, <2>1, CleaningMoves
  <1>3. Structure'
    BY <1>1, <1>2, WalkStructure
  <1>4. TypeOK'
    BY <1>t, <1>1, <1>2 DEF TypeOK, CallRec, members
  <1>5. PipeExact'
    BY <1>1, <1>2, PipeKept DEF InWait, At
  <1>6. Owed'
    <2>1. \A r \in Regs : WakeComing(r) => WakeComing(r)'
      BY <1>1, <1>2, OthersKept DEF At
    <2> QED BY <1>1, <1>2, <2>1, OwedQuiet DEF At, members
  <1> QED BY <1>3, <1>4, <1>5, <1>6 DEF IInv, Structure

LEMMA CleanupOneKeeps ==
    ASSUME IInv, NEW t \in Tasks, CleanupOne(t)
    PROVE  IInv'
  <1>t. TypeOK
    BY DEF IInv
  <1>1. PICK q \in call[t].todo :
          /\ At(t, "cleaning")
          /\ reg' = [reg EXCEPT ![q] = NoReg]
          /\ hostEdge' = [hostEdge EXCEPT ![q[1]] = FALSE]
          /\ call' = [call EXCEPT ![t].todo = @ \ {q}]
          /\ UNCHANGED <<ready, waiters, pipe, locks, members, news>>
    BY DEF CleanupOne
  <1>2. /\ call' \in [Tasks -> CallRec]
        /\ call'[t].todo = call[t].todo \ {q}
        /\ call'[t].at = call[t].at /\ call'[t].fd = call[t].fd
        /\ \A u \in Tasks \ {t} : call'[u] = call[u]
    BY <1>t, <1>1, Visits
  <1>3. q \in Regs /\ q[1] \in Descs /\ \A u \in Tasks : call[u].todo \subseteq Regs
    BY <1>t, RegsAssumption DEF TypeOK
  <1>4. /\ reg' \in [Regs -> RegRec] /\ reg'[q].mode = "none"
        /\ \A r \in Regs \ {q} : reg'[r] = reg[r]
    BY <1>t, <1>1, <1>3, FreshRecords, SetReg
  <1>5. /\ hostEdge' \in [Descs -> BOOLEAN]
        /\ \A d \in Descs : d # q[1] => hostEdge'[d] = hostEdge[d]
    BY <1>t, <1>1, <1>3 DEF TypeOK
  <1>6. Walking(t) /\ q[1] = call[t].fd /\ q[1] \notin open
    BY <1>1 DEF IInv, VisitsExist, Walking, CallHasMember, At
  <1>7. Structure'
    <2> USE DEF IInv, locks, members
    <2>1. LockOwners'
      BY <1>1, <1>2 DEF LockOwners, At, Walking
    <2>2. CallHasMember'
      BY <1>1, <1>2 DEF CallHasMember, At
    <2>3. MakerAlone'
      BY <1>1, <1>2 DEF MakerAlone, At
    <2>4. VisitsExist'
      <3> SUFFICES ASSUME NEW u \in Tasks, Walking(u)', NEW r \in call'[u].todo
                   PROVE  r[1] = call'[u].fd /\ reg'[r].mode # "none"
        BY DEF VisitsExist
      <3>1. /\ Walking(u) /\ r \in call[u].todo /\ call'[u].fd = call[u].fd
            /\ u = t => r # q
        BY <1>2 DEF Walking
      <3>2. r \in Regs /\ r[1] = call[u].fd /\ reg[r].mode # "none"
        BY <1>3, <3>1 DEF VisitsExist
      <3>3. r # q
        <4>1. CASE u # t
          <5>1. fdLock[r[1]] = u
            BY <3>1, <3>2, RegsAssumption DEF LockOwners
          <5>2. fdLock[q[1]] = t
            BY <1>3, <1>6 DEF LockOwners
          <5> QED BY <4>1, <5>1, <5>2
        <4> QED BY <3>1, <4>1
      <3> QED BY <1>4, <3>1, <3>2, <3>3
    <2>5. MembersKnown'
      BY <1>1 DEF MembersKnown
    <2> QED BY <2>1, <2>2, <2>3, <2>4, <2>5 DEF Structure
  <1>8. TypeOK'
    BY <1>t, <1>1, <1>2, <1>4, <1>5 DEF TypeOK, CallRec, RegRec, locks, members
  <1>9. PipeExact'
    BY <1>1, <1>2, PipeKept DEF InWait, At
  <1>10. Owed'
    <2> SUFFICES ASSUME NEW r \in Regs, news'[r] = "posted"
                 PROVE  PostedTo(r)' /\ (reg'[r].mode # "none" => Announced(r)')
      BY DEF Owed
    <2>0. news[r] = "posted" /\ PostedTo(r) /\ r[1] \in Descs
      BY <1>1, RegsAssumption DEF IInv, Owed
    <2>1. (WakeComing(r) => WakeComing(r)') /\ (Stirred => Stirred')
      BY <1>1, <1>2, OthersKept DEF At
    <2>2. Kind[r[1]] = "host" => r[1] # q[1]
      BY <1>6, <2>0 DEF PostedTo
    <2>3. Kind[r[1]] = "host" => (HostTells(r[1]) => HostTells(r[1])')
      BY <1>1, <1>2, <1>5, <2>0, <2>2 DEF HostTells, HostNamed, At
    <2>4. \A u \in Tasks : At(u, "pidfd")' /\ call'[u].fd = r[1]
                                => At(u, "pidfd") /\ call[u].fd = r[1]
      BY <1>2 DEF At
    <2>5. r[1] \in open => r # q
      BY <1>6
    <2>6. reg'[r].mode # "none" => reg'[r] = reg[r]
      BY <1>4
    <2>7. ready' = ready /\ open' = open /\ dead' = dead
      BY <1>1 DEF members
    <2> QED BY <1>4, <2>0, <2>1, <2>3, <2>4, <2>5, <2>6, <2>7, OwedStill
  <1> QED BY <1>7, <1>8, <1>9, <1>10 DEF IInv, Structure

LEMMA CleanupEndKeeps ==
    ASSUME IInv, NEW t \in Tasks, CleanupEnd(t)
    PROVE  IInv'
  <1>t. TypeOK
    BY DEF IInv
  <1>1. /\ At(t, "cleaning") /\ call[t].todo = {}
        /\ fdLock' = [fdLock EXCEPT ![call[t].fd] = Nobody]
        /\ UNCHANGED <<reg, ready, hostEdge, waiters, pipe, pollLock, pidsLock, pidfdLock,
                       members, news>>
    BY DEF CleanupEnd
  <1>2. /\ call' \in [Tasks -> CallRec]
        /\ \/ call'[t].at = "closing" /\ call'[t].fd = call[t].fd
           \/ call'[t].at = "idle" /\ call'[t].fd = Nobody
        /\ \A u \in Tasks \ {t} : call'[u] = call[u]
    <2>1. CASE Return(t)
      BY <1>t, <2>1, FreshRecords, SetCall DEF Return
    <2>2. CASE Goto(t, "closing")
      <3>1. "closing" \in Places
        BY DEF Places
      <3> QED BY <1>t, <2>2, <3>1, Moves DEF Goto
    <2> QED BY <2>1, <2>2 DEF CleanupEnd
  <1>3. Structure'
    <2> USE DEF IInv, members
    <2>0. call[t].fd \in Descs /\ call[t].fd \notin open
      BY <1>1 DEF CallHasMember, At
    <2>1. LockOwners'
      <3>1. /\ fdLock' \in [Descs -> Tasks \cup {Nobody}]
            /\ fdLock'[call[t].fd] = Nobody
            /\ \A d \in Descs : d # call[t].fd => fdLock'[d] = fdLock[d]
        BY <1>1, <2>0 DEF TypeOK
      <3>2. Walking(t) /\ ~ Walking(t)' /\ fdLock[call[t].fd] = t
        BY <1>1, <1>2, <2>0 DEF Walking, At, LockOwners
      <3>3. \A u \in Tasks \ {t} : Walking(u)' <=> Walking(u)
        BY <1>2 DEF Walking
      <3>4. ASSUME NEW u \in Tasks, NEW d \in Descs
            PROVE  fdLock'[d] = u <=> Walking(u)' /\ call'[u].fd = d
        <4>1. fdLock[d] = u <=> Walking(u) /\ call[u].fd = d
          BY DEF LockOwners
        <4>2. fdLock[d] = t <=> Walking(t) /\ call[t].fd = d
          BY DEF LockOwners
        <4> QED BY <1>2, <3>1, <3>2, <3>3, <4>1, <4>2, NobodyAssumption
      <3>5. \A u \in Tasks : /\ At(u, "valve")' <=> At(u, "valve")
                             /\ At(u, "exit")' <=> At(u, "exit")
                             /\ call'[u].at \in {"exit", "wake", "waking"}
                                  <=> call[u].at \in {"exit", "wake", "waking"}
        BY <1>1, <1>2 DEF At
      <3> QED BY <1>1, <3>4, <3>5 DEF LockOwners
    <2>2. CallHasMember'
      BY <1>1, <1>2, <2>0 DEF CallHasMember, At
    <2>3. MakerAlone'
      <3>1. ASSUME NEW u \in Tasks, At(u, "pidfd") PROVE call[u].fd # Nobody
        BY <3>1, NobodyAssumption DEF CallHasMember, At
      <3> QED BY <1>1, <1>2, <3>1 DEF MakerAlone, At
    <2>4. VisitsExist'
      BY <1>1, <1>2 DEF VisitsExist, Walking
    <2>5. MembersKnown'
      BY <1>1 DEF MembersKnown
    <2> QED BY <2>1, <2>2, <2>3, <2>4, <2>5 DEF Structure
  <1>4. TypeOK'
    <2>1. fdLock' \in [Descs -> Tasks \cup {Nobody}]
      BY <1>t, <1>1 DEF TypeOK
    <2> QED BY <1>t, <1>1, <1>2, <2>1 DEF TypeOK, CallRec, members
  <1>5. PipeExact'
    BY <1>1, <1>2, PipeKept DEF InWait, At
  <1>6. Owed'
    <2>1. \A r \in Regs : WakeComing(r) => WakeComing(r)'
      BY <1>1, <1>2, OthersKept DEF At
    <2> QED BY <1>1, <1>2, <2>1, OwedQuiet DEF At, members
  <1> QED BY <1>3, <1>4, <1>5, <1>6 DEF IInv, Structure

LEMMA PidfdCloseKeeps ==
    ASSUME IInv, NEW t \in Tasks, PidfdClose(t)
    PROVE  IInv'
  <1>t. TypeOK
    BY DEF IInv
  <1>1. /\ At(t, "closing") /\ pidfdLock = Nobody
        /\ listed' = listed \ {call[t].fd}
        /\ UNCHANGED <<reg, ready, hostEdge, waiters, pipe, locks, dead, open, news>>
    BY DEF PidfdClose
  <1>2. /\ call' \in [Tasks -> CallRec] /\ call'[t].at = "idle" /\ call'[t].fd = Nobody
        /\ \A u \in Tasks \ {t} : call'[u] = call[u]
    BY <1>t, FreshRecords, SetCall DEF PidfdClose, Return
  <1>3. Structure'
    <2> USE DEF IInv, locks
    <2>1. LockOwners'
      BY <1>1, <1>2 DEF LockOwners, At, Walking
    <2>2. CallHasMember'
      <3>1. ASSUME NEW u \in Tasks, call[u].at \in {"wake", "waking"} PROVE pidsLock # u
        BY <1>1, <3>1, NobodyAssumption DEF LockOwners, At
      <3> QED BY <1>1, <1>2, <3>1 DEF CallHasMember, At
    <2>3. MakerAlone'
      <3>1. ASSUME NEW u \in Tasks, At(u, "pidfd") PROVE call[u].fd # Nobody
        BY <3>1, NobodyAssumption DEF CallHasMember, At
      <3> QED BY <1>1, <1>2, <3>1 DEF MakerAlone, At
    <2>4. VisitsExist'
      BY <1>1, <1>2 DEF VisitsExist, Walking
    <2>5. MembersKnown'
      BY <1>1 DEF MembersKnown
    <2> QED BY <2>1, <2>2, <2>3, <2>4, <2>5 DEF Structure
  <1>4. TypeOK'
    BY <1>t, <1>1, <1>2 DEF TypeOK, CallRec, locks
  <1>5. PipeExact'
    BY <1>1, <1>2, PipeKept DEF InWait, At
  <1>6. Owed'
    <2>1. \A r \in Regs : WakeComing(r) => WakeComing(r)'
      BY <1>1, <1>2, OthersKept DEF At
    <2> QED BY <1>1, <1>2, <2>1, OwedQuiet DEF At
  <1> QED BY <1>3, <1>4, <1>5, <1>6 DEF IInv, Structure

-----------------------------------------------------------------------------
(***************************************************************************)
(* pidfd_open, and the exit of the process.                                *)
(***************************************************************************)

LEMMA PidfdOpenKeeps ==
    ASSUME IInv, NEW t \in Tasks, PidfdOpen(t)
    PROVE  IInv'
  <1>t. TypeOK
    BY DEF IInv
  <1>1. PICK d \in Descs \ open :
          /\ At(t, "idle") /\ Kind[d] = "pidfd" /\ d \notin listed
          /\ \A u \in Tasks : call[u].fd # d
          /\ ~ dead
          /\ call' = [call EXCEPT ![t] = [Idle EXCEPT !.at = "pidfd", !.fd = d]]
          /\ ready' = [ready EXCEPT ![d] = FALSE]
          /\ UNCHANGED <<reg, hostEdge, waiters, pipe, locks, members, news>>
    BY DEF PidfdOpen
  <1>2. /\ call' \in [Tasks -> CallRec]
        /\ call'[t].at = "pidfd" /\ call'[t].fd = d
        /\ \A u \in Tasks \ {t} : call'[u] = call[u]
    <2> DEFINE c == [Idle EXCEPT !.at = "pidfd", !.fd = d]
    <2>1. c \in CallRec /\ c.at = "pidfd" /\ c.fd = d
      BY DEF CallRec, Idle, Places
    <2>2. call' = [call EXCEPT ![t] = c]
      BY <1>1
    <2> HIDE DEF c
    <2> QED BY <1>t, <2>1, <2>2, SetCall
  <1>3. Structure'
    <2> USE DEF IInv, locks, members
    <2>1. LockOwners'
      BY <1>1, <1>2 DEF LockOwners, At, Walking
    <2>2. CallHasMember'
      BY <1>1, <1>2 DEF CallHasMember, At
    <2>3. MakerAlone'
      BY <1>1, <1>2 DEF MakerAlone, At
    <2>4. VisitsExist'
      BY <1>1, <1>2 DEF VisitsExist, Walking
    <2>5. MembersKnown'
      BY <1>1 DEF MembersKnown
    <2> QED BY <2>1, <2>2, <2>3, <2>4, <2>5 DEF Structure
  <1>4. /\ ready' \in [Descs -> BOOLEAN]
        /\ \A e \in Descs : e # d => ready'[e] = ready[e]
    BY <1>t, <1>1 DEF TypeOK
  <1>5. TypeOK'
    BY <1>t, <1>1, <1>2, <1>4 DEF TypeOK, CallRec, locks, members
  <1>6. PipeExact'
    BY <1>1, <1>2, PipeKept DEF InWait, At
  <1>7. Owed'
    <2>1. \A r \in Regs : WakeComing(r) => WakeComing(r)'
      BY <1>1, <1>2, OthersKept DEF At
    <2>2. ASSUME NEW r \in Regs, news[r] = "posted" PROVE r[1] # d
      BY <1>1, <2>2 DEF IInv, Owed, PostedTo
    <2>3. ASSUME NEW r \in Regs, news'[r] = "posted"
          PROVE  /\ news[r] = "posted" /\ ready'[r[1]] = ready[r[1]]
                 /\ open' = open /\ call'[t].fd # r[1]
      BY <1>1, <1>2, <1>4, <2>2, <2>3, RegsAssumption DEF members
    <2>4. call[t].at # "back" /\ call'[t].at # "asleep" /\ dead' = dead
      BY <1>1, <1>2 DEF At, members
    <2> QED BY <1>1, <1>2, <2>1, <2>3, <2>4, OwedQuiet
  <1> QED BY <1>3, <1>5, <1>6, <1>7 DEF IInv, Structure

LEMMA PidfdListKeeps ==
    ASSUME IInv, NEW t \in Tasks, PidfdList(t)
    PROVE  IInv'
  <1>t. TypeOK
    BY DEF IInv
  <1>1. /\ At(t, "pidfd")
        /\ listed' = listed \cup {call[t].fd} /\ open' = open \cup {call[t].fd}
        /\ UNCHANGED <<reg, ready, hostEdge, waiters, pipe, locks, dead, news>>
    BY DEF PidfdList
  <1>2. /\ call' \in [Tasks -> CallRec] /\ call'[t].at = "idle" /\ call'[t].fd = Nobody
        /\ \A u \in Tasks \ {t} : call'[u] = call[u]
    BY <1>t, FreshRecords, SetCall DEF PidfdList, Return
  <1>3. /\ call[t].fd \in Descs /\ Kind[call[t].fd] = "pidfd" /\ call[t].fd \notin open
        /\ \A u \in Tasks \ {t} : call[u].fd # call[t].fd
    BY <1>1 DEF IInv, CallHasMember, MakerAlone, At
  <1>4. Structure'
    <2> USE DEF IInv, locks
    <2>1. LockOwners'
      BY <1>1, <1>2 DEF LockOwners, At, Walking
    <2>2. CallHasMember'
      BY <1>1, <1>2, <1>3 DEF CallHasMember, At
    <2>3. MakerAlone'
      <3>1. ASSUME NEW u \in Tasks, At(u, "pidfd") PROVE call[u].fd # Nobody
        BY <3>1, NobodyAssumption DEF CallHasMember, At
      <3> QED BY <1>1, <1>2, <3>1 DEF MakerAlone, At
    <2>4. VisitsExist'
      BY <1>1, <1>2 DEF VisitsExist, Walking
    <2>5. MembersKnown'
      BY <1>1, <1>3 DEF MembersKnown
    <2> QED BY <2>1, <2>2, <2>3, <2>4, <2>5 DEF Structure
  <1>5. TypeOK'
    BY <1>t, <1>1, <1>2, <1>3 DEF TypeOK, CallRec, locks
  <1>6. PipeExact'
    BY <1>1, <1>2, PipeKept DEF InWait, At
  <1>7. Owed'
    <2>1. \A r \in Regs : WakeComing(r) => WakeComing(r)'
      BY <1>1, <1>2, OthersKept DEF At
    <2>2. ASSUME NEW r \in Regs, news[r] = "posted" PROVE r[1] # call[t].fd
      BY <1>1, <1>3, <2>2 DEF IInv, Owed, PostedTo
    <2> QED BY <1>1, <1>2, <2>1, <2>2, OwedQuiet DEF At
  <1> QED BY <1>4, <1>5, <1>6, <1>7 DEF IInv, Structure

LEMMA ExitKeeps ==
    ASSUME IInv, NEW t \in Tasks, Exit(t)
    PROVE  IInv'
  <1>t. TypeOK
    BY DEF IInv
  <1>1. /\ At(t, "idle") /\ pidsLock = Nobody /\ dead' /\ dead' \in BOOLEAN /\ pidsLock' = t
        /\ UNCHANGED <<reg, ready, hostEdge, waiters, pipe, pollLock, fdLock, pidfdLock,
                       listed, open, news>>
    BY DEF Exit
  <1>2. /\ call' \in [Tasks -> CallRec]
        /\ call'[t].at = "exit" /\ call'[t].fd = call[t].fd
        /\ \A u \in Tasks \ {t} : call'[u] = call[u]
    <2>1. "exit" \in Places
      BY DEF Places
    <2> QED BY <1>t, <2>1, Moves DEF Exit, Goto
  <1>3. Structure'
    <2> USE DEF IInv
    <2>1. LockOwners'
      <3>1. \A u \in Tasks : u # Nobody
        BY NobodyAssumption
      <3> QED BY <1>1, <1>2, <3>1 DEF LockOwners, At, Walking
    <2>2. CallHasMember'
      <3>1. \A u \in Tasks : u # Nobody
        BY NobodyAssumption
      <3> QED BY <1>1, <1>2, <3>1 DEF CallHasMember, At
    <2>3. MakerAlone'
      BY <1>1, <1>2 DEF MakerAlone, At
    <2>4. VisitsExist'
      BY <1>1, <1>2 DEF VisitsExist, Walking
    <2>5. MembersKnown'
      BY <1>1 DEF MembersKnown
    <2> QED BY <2>1, <2>2, <2>3, <2>4, <2>5 DEF Structure
  <1>4. TypeOK'
    BY <1>t, <1>1, <1>2 DEF TypeOK, CallRec
  <1>5. PipeExact'
    BY <1>1, <1>2, PipeKept DEF InWait, At
  <1>6. Owed'
    <2>1. \A r \in Regs : WakeComing(r) => WakeComing(r)'
      BY <1>1, <1>2, OthersKept DEF At
    <2> QED BY <1>1, <1>2, <2>1, OwedQuiet DEF At
  <1> QED BY <1>3, <1>4, <1>5, <1>6 DEF IInv, Structure

LEMMA NotifyExitKeeps ==
    ASSUME IInv, NEW t \in Tasks, NotifyExit(t)
    PROVE  IInv'
  <1>t. TypeOK
    BY DEF IInv
  <1>1. /\ At(t, "exit") /\ pidfdLock = Nobody /\ pidsLock = t /\ dead
        /\ UNCHANGED <<reg, hostEdge, waiters, pipe, pollLock, fdLock, members>>
    BY NobodyAssumption DEF NotifyExit, IInv, LockOwners, MembersKnown
  <1>n. \A u \in Tasks : u # Nobody
    BY NobodyAssumption
  <1>2. CASE /\ pidsLock' = Nobody /\ Return(t)
             /\ UNCHANGED <<ready, pidfdLock, news>>
    <2>1. /\ call' \in [Tasks -> CallRec] /\ call'[t].at = "idle" /\ call'[t].fd = Nobody
          /\ \A u \in Tasks \ {t} : call'[u] = call[u]
      BY <1>t, <1>2, FreshRecords, SetCall DEF Return
    <2>2. Structure'
      <3> USE DEF IInv, members
      <3>1. LockOwners'
        BY <1>1, <1>2, <1>n, <2>1 DEF LockOwners, At, Walking
      <3>2. CallHasMember'
        BY <1>1, <1>2, <1>n, <2>1 DEF CallHasMember, At
      <3>3. MakerAlone'
        <4>1. ASSUME NEW u \in Tasks, At(u, "pidfd") PROVE call[u].fd # Nobody
          BY <4>1, NobodyAssumption DEF CallHasMember, At
        <4> QED BY <1>1, <2>1, <4>1 DEF MakerAlone, At
      <3>4. VisitsExist'
        BY <1>1, <2>1 DEF VisitsExist, Walking
      <3>5. MembersKnown'
        BY <1>1, <1>2 DEF MembersKnown
      <3> QED BY <3>1, <3>2, <3>3, <3>4, <3>5 DEF Structure
    <2>3. TypeOK'
      BY <1>t, <1>1, <1>2, <2>1 DEF TypeOK, CallRec, members
    <2>4. PipeExact'
      BY <1>1, <2>1, PipeKept DEF InWait, At
    <2>5. Owed'
      <3>1. \A r \in Regs : WakeComing(r) => WakeComing(r)'
        BY <1>1, <2>1, OthersKept DEF At
      <3> QED BY <1>1, <1>2, <2>1, <3>1, OwedQuiet DEF At, members
    <2> QED BY <2>2, <2>3, <2>4, <2>5 DEF IInv, Structure
  <1>3. ASSUME NEW d \in listed,
               ready' = [ready EXCEPT ![d] = TRUE], Post(d), pidfdLock' = t,
               call' = [call EXCEPT ![t] = [Idle EXCEPT !.at = "wake", !.fd = d, !.read = TRUE]],
               UNCHANGED pidsLock
        PROVE  IInv'
    <2>1. d \in Descs /\ Kind[d] = "pidfd"
      BY <1>t DEF TypeOK, IInv, MembersKnown
    <2>2. /\ call' \in [Tasks -> CallRec]
          /\ call'[t].at = "wake" /\ call'[t].fd = d /\ call'[t].read
          /\ \A u \in Tasks \ {t} : call'[u] = call[u]
      <3> DEFINE c == [Idle EXCEPT !.at = "wake", !.fd = d, !.read = TRUE]
      <3>1. c \in CallRec /\ c.at = "wake" /\ c.fd = d /\ c.read
        BY <2>1 DEF CallRec, Idle, Places
      <3>2. call' = [call EXCEPT ![t] = c]
        BY <1>3
      <3> HIDE DEF c
      <3> QED BY <1>t, <3>1, <3>2, SetCall
    <2>n. \A u \in Tasks : At(u, "pidfd") => call[u].fd # d
      BY NotMaking
    <2>3. Structure'
      <3> USE DEF IInv, members
      <3>1. LockOwners'
        BY <1>1, <1>3, <1>n, <2>2 DEF LockOwners, At, Walking
      <3>2. CallHasMember'
        BY <1>1, <1>3, <2>1, <2>2 DEF CallHasMember, At
      <3>3. MakerAlone'
        BY <1>1, <2>2, <2>n DEF MakerAlone, At
      <3>4. VisitsExist'
        BY <1>1, <2>2 DEF VisitsExist, Walking
      <3>5. MembersKnown'
        BY <1>1, <1>3 DEF MembersKnown
      <3> QED BY <3>1, <3>2, <3>3, <3>4, <3>5 DEF Structure
    <2>4. /\ ready' \in [Descs -> BOOLEAN] /\ ready'[d]
          /\ \A e \in Descs : e # d => ready'[e] = ready[e]
      BY <1>t, <1>3, <2>1 DEF TypeOK
    <2>5. /\ news' \in [Regs -> {"none", "posted", "left", "hidden"}]
          /\ \A r \in Regs : news'[r] = "posted" =>
               \/ r[1] = d /\ reg[r].mode # "none" /\ ~ reg[r].fired
               \/ news[r] = "posted" /\ (r[1] = d => reg[r].mode = "none")
      BY <1>t, <1>3, <2>1, PostNews
    <2>6. TypeOK'
      BY <1>t, <1>1, <1>3, <2>2, <2>4, <2>5 DEF TypeOK, CallRec, members
    <2>7. PipeExact'
      BY <1>1, <2>2, PipeKept DEF InWait, At
    <2>8. Owed'
      <3> SUFFICES ASSUME NEW r \in Regs, news'[r] = "posted"
                   PROVE  PostedTo(r)' /\ (reg'[r].mode # "none" => Announced(r)')
        BY DEF Owed
      <3>1. CASE r[1] = d /\ reg[r].mode # "none" /\ ~ reg[r].fired
        <4>1. PostedTo(r)'
          BY <1>1, <2>1, <2>2, <2>n, <3>1 DEF PostedTo, members, At
        <4>2. WakeComing(r)'
          BY <2>2, <3>1 DEF WakeComing, At
        <4> QED BY <1>1, <2>1, <2>4, <3>1, <4>1, <4>2 DEF Announced
      <3>2. CASE news[r] = "posted" /\ (r[1] = d => reg[r].mode = "none")
        <4>1. r[1] \in Descs /\ call[t].at \notin {"wake", "waking", "back"}
          BY <1>1, RegsAssumption DEF At
        <4>2. /\ HostTells(r[1]) => HostTells(r[1])'
              /\ WakeComing(r) => WakeComing(r)'
              /\ Stirred => Stirred'
          BY <1>1, <2>2, <4>1, OthersKept
        <4>3. \A u \in Tasks : At(u, "pidfd")' /\ call'[u].fd = r[1]
                                  => At(u, "pidfd") /\ call[u].fd = r[1]
          BY <2>2 DEF At
        <4> QED BY <1>1, <2>4, <3>2, <4>1, <4>2, <4>3, OwedStill DEF members
      <3> QED BY <2>5, <3>1, <3>2
    <2> QED BY <2>3, <2>6, <2>7, <2>8 DEF IInv, Structure
  <1> QED BY <1>2, <1>3 DEF NotifyExit

-----------------------------------------------------------------------------
(***************************************************************************)
(* The theorems.                                                           *)
(***************************************************************************)

LEMMA InitIInv == Init => IInv
  <1> SUFFICES ASSUME Init PROVE IInv
    OBVIOUS
  <1> USE DEF Init
  <1>1. \A t \in Tasks : call[t] = Idle /\ call[t].at = "idle" /\ call[t].fd = Nobody
    BY FreshRecords
  <1>2. TypeOK
    <2>1. 0 \in 0 .. Cardinality(Tasks)
      BY TasksAssumption, FS_CardinalityType
    <2>2. -1 \in -1 .. PipeMax
      BY BoundAssumption
    <2>3. call \in [Tasks -> CallRec] /\ reg \in [Regs -> RegRec]
      BY FreshRecords
    <2> QED BY <2>1, <2>2, <2>3 DEF TypeOK, CallRec, RegRec
  <1>3. PipeExact
    <2>1. {t \in Tasks : InWait(t)} = {}
      BY <1>1 DEF InWait
    <2> QED BY <2>1, FS_EmptySet DEF PipeExact
  <1>4. LockOwners
    BY <1>1, NobodyAssumption DEF LockOwners, At, Walking
  <1>5. CallHasMember
    BY <1>1 DEF CallHasMember, At
  <1>6. MakerAlone
    BY <1>1 DEF MakerAlone, At
  <1>7. VisitsExist
    BY <1>1 DEF VisitsExist, Walking
  <1>8. MembersKnown
    BY DEF MembersKnown
  <1>9. Owed
    BY DEF Owed
  <1> QED BY <1>2, <1>3, <1>4, <1>5, <1>6, <1>7, <1>8, <1>9 DEF IInv

\* Every step keeps the inductive invariant.
LEMMA NextIInv == IInv /\ [Next]_vars => IInv'
  <1> SUFFICES ASSUME IInv, [Next]_vars PROVE IInv'
    OBVIOUS
  <1>1. CASE HostData
    BY <1>1, HostDataKeeps
  <1>2. ASSUME NEW t \in Tasks,
               \/ Wait(t) \/ HostWake(t) \/ Back(t)
               \/ Slice(t) \/ SliceExit(t) \/ SliceIdle(t) \/ Valve(t)
        PROVE  IInv'
    BY <1>2, WaitKeeps, HostWakeKeeps, BackKeeps, SliceKeeps, SliceExitKeeps,
       SliceIdleKeeps, ValveKeeps
  <1>3. ASSUME NEW t \in Tasks,
               \/ EventWrite(t) \/ EventRead(t) \/ WakeStart(t) \/ WakeOne(t) \/ WakeEnd(t)
        PROVE  IInv'
    BY <1>3, EventWriteKeeps, EventReadKeeps, WakeStartKeeps, WakeOneKeeps, WakeEndKeeps
  <1>4. ASSUME NEW t \in Tasks, CtlAdd(t) \/ CtlMod(t) \/ CtlDel(t)
        PROVE  IInv'
    BY <1>4, CtlAddKeeps, CtlModKeeps, CtlDelKeeps
  <1>5. ASSUME NEW t \in Tasks,
               \/ Close(t) \/ CleanupStart(t) \/ CleanupOne(t) \/ CleanupEnd(t)
               \/ PidfdClose(t)
        PROVE  IInv'
    BY <1>5, CloseKeeps, CleanupStartKeeps, CleanupOneKeeps, CleanupEndKeeps, PidfdCloseKeeps
  <1>6. ASSUME NEW t \in Tasks,
               PidfdOpen(t) \/ PidfdList(t) \/ Exit(t) \/ NotifyExit(t)
        PROVE  IInv'
    BY <1>6, PidfdOpenKeeps, PidfdListKeeps, ExitKeeps, NotifyExitKeeps
  <1>7. CASE UNCHANGED vars
    BY <1>7 DEF vars, locks, members, IInv, TypeOK, PipeExact, InWait, LockOwners, CallHasMember,
       MakerAlone, VisitsExist, MembersKnown, Owed, PostedTo, Announced, HostTells, HostNamed,
       WakeComing, Stirred, Walking, At
  <1> QED BY <1>1, <1>2, <1>3, <1>4, <1>5, <1>6, <1>7 DEF Next

\* The inductive invariant: who holds each lock and works on which member, and
\* who will tell the guest of each posted event.
THEOREM InvariantHolds == Spec => []IInv
  <1> QED BY InitIInv, NextIInv, PTL DEF Spec

\* Every variable keeps its type; above all the count of waiters stays between
\* none and all threads and the pipe never holds more than it takes.
THEOREM TypeCorrect == Spec => []TypeOK
  <1>1. IInv => TypeOK
    BY DEF IInv
  <1> QED BY <1>1, InvariantHolds, PTL

\* poll->waiters counts the threads inside poll_wait, and the notify pipe exists
\* while there are any, on every way in and out.
THEOREM WaitersCounted == Spec => []PipeExact
  <1>1. IInv => PipeExact
    BY DEF IInv
  <1> QED BY <1>1, InvariantHolds, PTL

\* poll_wakeup and poll_cleanup_fd never visit a registration that epoll_ctl or
\* another walk has freed, though they give poll->lock back at every turn.
THEOREM NothingFreedUnderWalk == Spec => []VisitsExist
  <1>1. IInv => VisitsExist
    BY DEF IInv
  <1> QED BY <1>1, InvariantHolds, PTL

\* What an announced event of a registration amounts to.
LEMMA HostAnnounced ==
    ASSUME TypeOK, NEW r \in Regs, Kind[r[1]] = "host", Armed(reg[r]), ready[r[1]],
           HostTells(r[1])
    PROVE  HostReports(r[1]) \/ HostNamed(r[1])
  <1>1. HostHas(reg, r[1])
    BY DEF HostHas
  <1> QED BY <1>1 DEF HostTells, HostReports

\* A new event of an edge-triggered registration is not taken for the old one.
THEOREM EdgesKept == Spec => []EdgeKept
  <1>1. IInv => EdgeKept
    <2> SUFFICES ASSUME IInv, NEW r \in Regs, news[r] = "posted", Armed(reg[r]), ready[r[1]]
                 PROVE  \/ Wanted(reg, r) \/ WakeComing(r)
                        \/ HostReports(r[1]) \/ HostNamed(r[1])
      BY DEF EdgeKept
    <2>1. Announced(r)
      BY DEF IInv, Owed, Armed
    <2>2. CASE Kind[r[1]] = "host"
      BY <2>1, <2>2, HostAnnounced DEF Announced, IInv
    <2>3. CASE Kind[r[1]] # "host"
      BY <2>1, <2>3 DEF Announced, Wanted
    <2> QED BY <2>2, <2>3
  <1> QED BY <1>1, InvariantHolds, PTL

\* No thread sleeps in poll_wait on an event that nobody has told the guest of
\* or is about to.
THEOREM NoLostWakeup == Spec => []NoSleepThrough
  <1>1. IInv => NoSleepThrough
    <2> SUFFICES ASSUME IInv, NEW t \in Tasks, NEW r \in Regs, At(t, "asleep"),
                        news[r] = "posted", Armed(reg[r]), ready[r[1]]
                 PROVE  \/ pipe > 0 \/ WakeComing(r)
                        \/ HostReports(r[1]) \/ HostNamed(r[1])
                        \/ \E u \in Tasks : At(u, "back")
      BY DEF NoSleepThrough
    <2>1. Announced(r)
      BY DEF IInv, Owed, Armed
    <2>2. CASE Kind[r[1]] = "host"
      BY <2>1, <2>2, HostAnnounced DEF Announced, IInv
    <2>3. CASE Kind[r[1]] # "host"
      BY <2>1, <2>3 DEF Announced, Stirred
    <2> QED BY <2>2, <2>3
  <1> QED BY <1>1, InvariantHolds, PTL

=============================================================================
