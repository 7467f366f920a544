--------------------------- MODULE ProcessProofs ---------------------------
(***************************************************************************)
(* Theorems about Process, without the safety valve of do_exit_group.      *)
(***************************************************************************)
EXTENDS Process, Integers, FiniteSetTheorems, TLAPS

\* Where a thread is while sys_clone has a child in hand that has not run.
Making == {"create", "copied", "start", "unmade"}

\* Where a thread is before it has left its group.
Active == Making \cup {"guest", "stuck", "vfork", "wait", "asleep", "groupwait",
                       "doexit", "release"}

\* The faults that are left without the valve.
Left == {"task", "vfork", "adrift", "noinit"}

-----------------------------------------------------------------------------
(* Types                                                                   *)

\* The type of everything but the reference counts, and what sys_clone has in
\* hand.
Typed ==
    /\ state \in [Tasks -> {"free", "new", "live", "destroyed", "freed"}]
    /\ pc \in [Tasks -> Active \cup {"none", "cleanup", "over"}]
    /\ child \in [Tasks -> Tasks \cup {NoTask}]
    /\ parent \in [Tasks -> Tasks \cup {NoTask}]
    /\ group \in [Tasks -> Tasks \cup {NoTask}]
    /\ exiting \in [Tasks -> BOOLEAN]
    /\ zombie \in [Tasks -> BOOLEAN]
    /\ code \in [Tasks -> Codes]
    /\ groupMem \in [Tasks -> {"none", "live", "freed"}]
    /\ threads \in [Tasks -> SUBSET Tasks]
    /\ doing \in [Tasks -> BOOLEAN]
    /\ groupCode \in [Tasks -> Codes]
    /\ ignores \in [Tasks -> BOOLEAN]
    /\ mm \in [Tasks -> Tasks \cup {NoTask}]
    /\ mmRefs \in [Tasks -> Int]
    /\ deferred \in [Tasks -> BOOLEAN]
    /\ \A t \in Tasks : ~deferred[t]
    /\ vfork \in [Tasks -> Tasks \cup {NoTask}]
    /\ vforkDone \in [Tasks -> BOOLEAN]
    /\ sigchld \in [Tasks -> Codes \cup {NoTask}]
    /\ adrift \subseteq Tasks /\ handed \subseteq Tasks
    /\ fault \subseteq Left
    /\ halted \in BOOLEAN

\* A member of a group is alive, and so is the group.
Members == \A g, t \in Tasks : t \in threads[g] =>
    group[t] = g /\ state[t] = "live" /\ ~exiting[t] /\ groupMem[g] = "live"

\* A host thread on its way is a member of its group.
Actors == \A t \in Tasks : pc[t] \in Active => group[t] \in Tasks /\ t \in threads[group[t]]

\* A group struct lives with its leader's task; the leader is a zombie once
\* the last member has left.
Leaders == \A g \in Tasks :
    /\ groupMem[g] = "live" <=> state[g] = "live" /\ group[g] = g
    /\ groupMem[g] = "live" => (zombie[g] <=> threads[g] = {})
    /\ zombie[g] => groupMem[g] = "live"
    /\ groupMem[g] = "live" => (exiting[g] <=> g \notin threads[g])

\* The task that t makes is t's child, and has not run: it is in no group yet,
\* or on the list of t's group or of one of its own, or off it again.
Unborn(t) ==
    /\ child[t] \in Tasks /\ parent[child[t]] = t /\ pc[child[t]] = "none"
    /\ pc[t] \in {"create", "copied"} => state[child[t]] = "new"
    /\ pc[t] # "start" => group[child[t]] = group[t]
    /\ pc[t] = "start" => /\ group[child[t]] \in {child[t], group[t]}
                          /\ child[t] \in threads[group[child[t]]]
                          /\ group[child[t]] = child[t] => threads[child[t]] = {child[t]}
    /\ pc[t] = "unmade" => /\ Exists(child[t]) /\ ~exiting[child[t]]
                           /\ child[t] \notin threads[group[t]]

\* It belongs to one caller.
Newborn ==
    /\ \A t \in Tasks :
        /\ pc[t] \in Making => Unborn(t)
        /\ pc[t] = "vfork" => child[t] \in Tasks
        /\ state[t] \in {"free", "new"} => (pc[t] = "none" \/ halted) /\ ~exiting[t]
        /\ halted => pc[t] = "over"
    /\ \A t, u \in Tasks :
        pc[t] \in Making /\ pc[u] \in Making /\ child[t] = child[u] => t = u

\* A task that is neither leader nor member is being made.
Strays == \A t \in Tasks : Exists(t) =>
    /\ group[t] \in Tasks
    /\ group[t] # t /\ t \notin threads[group[t]] /\ ~halted =>
         parent[t] \in Tasks /\ pc[parent[t]] \in Making /\ child[parent[t]] = t

\* init is never released; when its last thread was not pid 1, it is a zombie
\* and its own parent.
InitThere ==
    /\ state[InitTask] = "live" /\ group[InitTask] = InitTask
    /\ parent[InitTask] \in {NoTask, InitTask}
    /\ parent[InitTask] = InitTask => zombie[InitTask]

Sound == Typed /\ Members /\ Actors /\ Leaders /\ Newborn /\ Strays /\ InitThere /\ NoOrphan

USE DEF Active, Making, Left, IsLeader, Goto

LEMMA SoundInit == Init => Sound
<1> SUFFICES ASSUME Init PROVE Sound
  OBVIOUS
<1> USE InitAssumption, CodesAssumption
<1>1. Typed
  <2>1. code \in [Tasks -> Codes] /\ groupCode = code
    BY DEF Init
  <2>2. mmRefs \in [Tasks -> Int]
    BY DEF Init
  <2>3. sigchld \in [Tasks -> Codes \cup {NoTask}] /\ fault \subseteq Left
    BY DEF Init
  <2> QED BY <2>1, <2>2, <2>3 DEF Init, Typed
<1>2. Members /\ Actors /\ Leaders /\ InitThere
  BY DEF Init, Members, Actors, Leaders, InitThere
<1>3. Newborn /\ NoOrphan /\ Strays
  BY DEF Init, Newborn, NoOrphan, Strays, GroupLive, Exists
<1> QED
  BY <1>1, <1>2, <1>3 DEF Sound

-----------------------------------------------------------------------------
(* sys_clone                                                               *)

\* What holds of the child in hand and of its maker's group.
LEMMA ChildInHand ==
    ASSUME Sound, NEW t \in Tasks, pc[t] \in Making
    PROVE  /\ child[t] \in Tasks /\ child[t] # t /\ child[t] # InitTask
           /\ parent[child[t]] = t /\ pc[child[t]] = "none" /\ ~halted
           /\ group[t] \in Tasks /\ t \in threads[group[t]] /\ groupMem[group[t]] = "live"
           /\ state[t] = "live" /\ state[child[t]] \in {"new", "live"} /\ ~exiting[child[t]]
<1> USE InitAssumption
<1>1. Unborn(t) /\ group[t] \in Tasks /\ t \in threads[group[t]] /\ ~halted
  BY DEF Sound, Newborn, Actors
<1>2. groupMem[group[t]] = "live" /\ state[t] = "live"
  BY <1>1 DEF Sound, Members
<1>3. child[t] \in Tasks /\ child[t] # t /\ parent[child[t]] = t /\ pc[child[t]] = "none"
  BY <1>1 DEF Unborn
<1>4. state[child[t]] \in {"new", "live"} /\ ~exiting[child[t]]
  BY <1>1, <1>3 DEF Sound, Typed, Newborn, Members, Unborn, Exists
<1>5. child[t] # InitTask
  BY <1>3, <1>1 DEF Sound, InitThere, Leaders, Members
<1> QED BY <1>1, <1>2, <1>3, <1>4, <1>5

\* The address space that copy_task gives the child.
LEMMA RetainTyped ==
    ASSUME NEW c \in Tasks, NEW k, NEW m \in Tasks \cup {NoTask}, Retain(c, m, k),
           mm \in [Tasks -> Tasks \cup {NoTask}], mmRefs \in [Tasks -> Int]
    PROVE  mm' \in [Tasks -> Tasks \cup {NoTask}] /\ mmRefs' \in [Tasks -> Int]
<1>1. mm' = [mm EXCEPT ![c] = m] /\ mmRefs' = [mmRefs EXCEPT ![m] = @ + 1]
  BY DEF Retain
<1>2. mm' \in [Tasks -> Tasks \cup {NoTask}]
  BY <1>1
<1>3. CASE m \in Tasks
  <2>1. mmRefs[m] + 1 \in Int
    BY <1>3
  <2> QED BY <1>1, <1>2, <2>1
<1>4. CASE m \notin Tasks
  BY <1>1, <1>2, <1>4
<1> QED BY <1>3, <1>4

\* What the first half of copy_task leaves.
LEMMA CopyMmEffect ==
    ASSUME Sound, NEW t \in Tasks, NEW k \in Kinds, CopyMm(t, k)
    PROVE  /\ pc[t] = "create"
           /\ Retain(child[t], IF k = "fork" THEN child[t] ELSE mm[t], k)
           /\ vfork' = [vfork EXCEPT ![child[t]] = IF k = "vfork" THEN t ELSE NoTask]
           /\ vforkDone' = [vforkDone EXCEPT ![t] = FALSE]
           /\ pc' = [pc EXCEPT ![t] = "copied"]
           /\ UNCHANGED <<state, child, taskVars, groupVars, deferred, adrift, handed,
                          fault, halted>>
<1>1. pc[t] = "create"
  BY DEF CopyMm
<1>2. group[t] # NoTask
  BY <1>1, ChildInHand, InitAssumption
<1> QED BY <1>1, <1>2 DEF CopyMm

LEMMA CopyMmSound ==
    ASSUME Sound, NEW t \in Tasks, NEW k \in Kinds, CopyMm(t, k)
    PROVE  Sound'
<1> USE InitAssumption
<1> DEFINE c == child[t]
           m == IF k = "fork" THEN c ELSE mm[t]
<1>1. /\ pc[t] = "create" /\ Retain(c, m, k)
      /\ vfork' = [vfork EXCEPT ![c] = IF k = "vfork" THEN t ELSE NoTask]
      /\ vforkDone' = [vforkDone EXCEPT ![t] = FALSE]
      /\ pc' = [pc EXCEPT ![t] = "copied"]
      /\ UNCHANGED <<state, child, taskVars, groupVars, deferred, adrift, handed, fault, halted>>
  BY CopyMmEffect
<1>2. c \in Tasks /\ c # t
  BY <1>1, ChildInHand
<1>3. m \in Tasks \cup {NoTask} /\ mm \in [Tasks -> Tasks \cup {NoTask}]
      /\ mmRefs \in [Tasks -> Int]
  BY <1>2 DEF Sound, Typed
<1> HIDE DEF c, m
<1>4. mm' \in [Tasks -> Tasks \cup {NoTask}] /\ mmRefs' \in [Tasks -> Int]
  BY <1>1, <1>2, <1>3, RetainTyped
<1> USE DEF taskVars, groupVars
<1>5. Typed'
  BY <1>1, <1>2, <1>4 DEF Sound, Typed
<1>6. Members' /\ Actors' /\ Leaders' /\ InitThere' /\ NoOrphan'
  BY <1>1 DEF Sound, Typed, Members, Actors, Leaders, InitThere, NoOrphan, GroupLive, Exists
<1>7. Newborn'
  BY <1>1, <1>2 DEF Sound, Typed, Newborn, Unborn, Exists
<1>8. Strays'
  BY <1>1 DEF Sound, Typed, Strays, Exists
<1> QED BY <1>5, <1>6, <1>7, <1>8 DEF Sound

\* What the second half of copy_task leaves.
LEMMA CopyGroupEffect ==
    ASSUME Sound, NEW t \in Tasks, CopyGroup(t), NEW c, c = child[t]
    PROVE  /\ pc[t] = "copied" /\ pc' = [pc EXCEPT ![t] = "start"]
           /\ state' = [state EXCEPT ![c] = "live"]
           /\ \E g \in {c, group[t]} :
                /\ group' = [group EXCEPT ![c] = g]
                /\ groupMem' = [groupMem EXCEPT ![g] = "live"]
                /\ threads' = [threads EXCEPT ![g] = @ \cup {c}]
                /\ ignores' = [ignores EXCEPT ![g] = ignores[group[t]]]
           /\ UNCHANGED <<child, parent, exiting, zombie, code, doing, groupCode,
                          sigchld, memVars, vforkVars, adrift, handed, fault, halted>>
<1>1. pc[t] = "copied"
  BY DEF CopyGroup
<1>2. group[c] = group[t]
  BY <1>1 DEF Sound, Newborn, Unborn
<1>3. GroupLive(group[c])
  BY <1>1, <1>2, ChildInHand DEF GroupLive
<1> QED BY <1>1, <1>2, <1>3 DEF CopyGroup

\* A new thread joins its maker's group, a new process has a group of its own.
LEMMA CopyGroupSound ==
    ASSUME Sound, NEW t \in Tasks, CopyGroup(t)
    PROVE  Sound'
<1> SUFFICES ASSUME NEW c, c = child[t] PROVE Sound'
  OBVIOUS
<1> USE InitAssumption
<1>1. /\ pc[t] = "copied" /\ c \in Tasks /\ c # t /\ parent[c] = t /\ ~exiting[c]
      /\ pc[c] = "none" /\ state[c] = "new" /\ c # InitTask /\ ~halted
      /\ group[t] \in Tasks /\ groupMem[group[t]] = "live" /\ t \in threads[group[t]]
  <2>1. pc[t] = "copied"
    BY CopyGroupEffect
  <2> QED BY <2>1, ChildInHand DEF Sound, Newborn, Unborn
<1>2. groupMem[c] # "live" /\ threads[c] = {} /\ \A h \in Tasks : c \notin threads[h]
  BY <1>1 DEF Sound, Typed, Members, Leaders
<1>3. PICK g \in {c, group[t]} :
        /\ group' = [group EXCEPT ![c] = g]
        /\ groupMem' = [groupMem EXCEPT ![g] = "live"]
        /\ threads' = [threads EXCEPT ![g] = @ \cup {c}]
        /\ ignores' = [ignores EXCEPT ![g] = ignores[group[t]]]
  BY CopyGroupEffect
<1>4. /\ state' = [state EXCEPT ![c] = "live"] /\ pc' = [pc EXCEPT ![t] = "start"]
      /\ UNCHANGED <<child, parent, exiting, zombie, code, doing, groupCode,
                     sigchld, memVars, vforkVars, adrift, handed, fault, halted>>
  BY CopyGroupEffect
<1>6. g \in Tasks
  BY <1>1
<1> USE DEF memVars, vforkVars
<1>7. Typed'
  <2>1. /\ state' \in [Tasks -> {"free", "new", "live", "destroyed", "freed"}]
        /\ group' \in [Tasks -> Tasks \cup {NoTask}]
        /\ groupMem' \in [Tasks -> {"none", "live", "freed"}]
        /\ threads' \in [Tasks -> SUBSET Tasks]
        /\ pc' \in [Tasks -> Active \cup {"none", "cleanup", "over"}]
        /\ ignores' \in [Tasks -> BOOLEAN]
    BY <1>1, <1>3, <1>4, <1>6 DEF Sound, Typed
  <2> QED BY <1>4, <2>1 DEF Sound, Typed
<1>8. Members' /\ Actors'
  BY <1>1, <1>2, <1>3, <1>4 DEF Sound, Typed, Members, Actors
<1>9. Leaders'
  BY <1>1, <1>2, <1>3, <1>4 DEF Sound, Typed, Members, Leaders
<1>10. Newborn'
  <2>1. ASSUME NEW u \in Tasks, pc'[u] \in Making PROVE Unborn(u)'
    <3>1. CASE u = t
      BY <1>1, <1>2, <1>3, <1>4, <2>1, <3>1 DEF Sound, Typed, Newborn, Unborn, Exists
    <3>2. CASE u # t
      <4>1. pc[u] \in Making /\ pc'[u] = pc[u] /\ Unborn(u) /\ child[u] # c
        BY <1>1, <1>4, <2>1, <3>2 DEF Sound, Typed, Newborn
      <4>2. child[u] \in Tasks /\ child[u] # t /\ u # c /\ u \in threads[group[u]] /\ group[u] \in Tasks
        BY <1>1, <4>1 DEF Unborn, Sound, Actors
      <4>3. group'[child[u]] = group[child[u]] /\ state'[child[u]] = state[child[u]]
            /\ group'[u] = group[u] /\ pc'[child[u]] = pc[child[u]]
        BY <1>1, <1>3, <1>4, <4>1, <4>2 DEF Sound, Typed
      <4>4. pc[u] = "start" /\ group[child[u]] = child[u] => threads'[child[u]] = {child[u]}
        <5> SUFFICES ASSUME pc[u] = "start", group[child[u]] = child[u]
                     PROVE  threads'[child[u]] = {child[u]}
          OBVIOUS
        <5>1. threads[child[u]] = {child[u]}
          BY <4>1 DEF Unborn
        <5>2. g # child[u]
          BY <1>1, <4>1, <4>2, <5>1 DEF Unborn
        <5> QED BY <1>3, <4>2, <5>1, <5>2 DEF Sound, Typed
      <4>5. child[u] \in threads[group[child[u]]] /\ group[child[u]] \in Tasks
              => child[u] \in threads'[group[child[u]]]
        BY <1>3, <1>6 DEF Sound, Typed
      <4>6. child[u] \notin threads[group[u]] => child[u] \notin threads'[group[u]]
        BY <1>3, <1>6, <4>1, <4>2 DEF Sound, Typed
      <4> QED BY <1>4, <4>1, <4>2, <4>3, <4>4, <4>5, <4>6 DEF Unborn, Exists
    <3> QED BY <3>1, <3>2
  <2>2. \A u \in Tasks : pc'[u] = "vfork" => child'[u] \in Tasks
    BY <1>1, <1>4 DEF Sound, Typed, Newborn
  <2>3. \A u \in Tasks : /\ state'[u] \in {"free", "new"} => (pc'[u] = "none" \/ halted') /\ ~exiting'[u]
                         /\ halted' => pc'[u] = "over"
    BY <1>1, <1>4 DEF Sound, Typed, Newborn
  <2>4. \A u, v \in Tasks :
          pc'[u] \in Making /\ pc'[v] \in Making /\ child'[u] = child'[v] => u = v
    BY <1>1, <1>4 DEF Sound, Typed, Newborn
  <2> QED BY <2>1, <2>2, <2>3, <2>4 DEF Newborn
<1>11. Strays'
  BY <1>1, <1>2, <1>3, <1>4, <1>6 DEF Sound, Typed, Strays, Exists
<1>12. InitThere'
  BY <1>1, <1>3, <1>4 DEF Sound, Typed, InitThere
<1>13. NoOrphan'
  <2>1. \A h \in Tasks : groupMem[h] = "live" =>
            groupMem'[h] = "live" /\ threads[h] \subseteq threads'[h]
    BY <1>3, <1>6 DEF Sound, Typed
  <2>2. \A u \in Tasks : state'[u] \in {"new", "live"} <=> state[u] \in {"new", "live"}
    BY <1>1, <1>4 DEF Sound, Typed
  <2> QED BY <1>4, <2>1, <2>2 DEF Sound, NoOrphan, GroupLive, Exists
<1> QED BY <1>7, <1>8, <1>9, <1>10, <1>11, <1>12, <1>13 DEF Sound

\* mm_release keeps the counts numbers.
LEMMA ReleaseTyped ==
    ASSUME Typed, NEW t \in Tasks, ReleaseMm(t)
    PROVE  /\ mm' \in [Tasks -> Tasks \cup {NoTask}]
           /\ mmRefs' \in [Tasks -> Int]
           /\ deferred' \in [Tasks -> BOOLEAN]
           /\ \A u \in Tasks : ~deferred'[u]
<1>1. mm' \in [Tasks -> Tasks \cup {NoTask}]
  BY DEF Typed, ReleaseMm
<1>2. CASE mm[t] = NoTask
  BY <1>2 DEF Typed, ReleaseMm
<1>3. CASE mm[t] # NoTask
  <2>1. mm[t] \in Tasks /\ mmRefs[mm[t]] - 1 \in Int
    BY <1>3 DEF Typed
  <2> QED BY <1>3, <2>1 DEF Typed, ReleaseMm
<1>4. deferred' \in [Tasks -> BOOLEAN] /\ \A u \in Tasks : ~deferred'[u]
  BY DEF Typed, ReleaseMm
<1> QED BY <1>1, <1>2, <1>3, <1>4

\* A child without a group is given up.
LEMMA CopyFailsSound == ASSUME Sound, NEW t \in Tasks, CopyFails(t) PROVE Sound'
<1> USE InitAssumption DEF CopyFails
<1>1. /\ child[t] \in Tasks /\ child[t] # t /\ ~exiting[child[t]] /\ pc[t] \in Making
      /\ group[t] \in Tasks
  BY ChildInHand
<1>2. /\ mm' \in [Tasks -> Tasks \cup {NoTask}] /\ mmRefs' \in [Tasks -> Int]
      /\ deferred' \in [Tasks -> BOOLEAN] /\ \A u \in Tasks : ~deferred'[u]
  BY <1>1, ReleaseTyped DEF Sound
<1> USE DEF taskVars, groupVars
<1>3. Typed'
  BY <1>1, <1>2 DEF Sound, Typed
<1>4. Members' /\ Actors' /\ Leaders' /\ InitThere' /\ NoOrphan'
  BY DEF Sound, Typed, Members, Actors, Leaders, InitThere, NoOrphan, GroupLive, Exists
<1>5. Newborn'
  <2>1. Unborn(t)'
    <3>1. Unborn(t) /\ state[child[t]] = "new"
      BY DEF Sound, Newborn, Unborn
    <3>2. child[t] \notin threads[group[t]]
      BY <1>1, <3>1 DEF Sound, Members
    <3> QED BY <1>1, <3>1, <3>2 DEF Unborn, Sound, Typed, Exists
  <2>2. \A u \in Tasks \ {t} : pc[u] \in Making => Unborn(u)'
    BY <1>1 DEF Sound, Typed, Newborn, Unborn, Exists
  <2> QED BY <1>1, <2>1, <2>2 DEF Sound, Typed, Newborn
<1>6. Strays'
  BY DEF Sound, Typed, Strays, Exists
<1> QED BY <1>3, <1>4, <1>5, <1>6 DEF Sound

\* What fail_unlink_group leaves of the group g that c was in.
Unlinked(c, g) ==
    /\ group[c] = g /\ groupMem[g] = "live" /\ c \in threads[g]
    /\ g = c => threads[c] = {c}
    /\ threads' = [threads EXCEPT ![g] = @ \ {c}]
    /\ groupMem' = IF g = c THEN [groupMem EXCEPT ![c] = "freed"] ELSE groupMem

LEMMA UnlinkEffect ==
    ASSUME Sound, NEW t \in Tasks, UnlinkGroup(t), NEW c, c = child[t]
    PROVE  /\ pc[t] = "start" /\ pc' = [pc EXCEPT ![t] = "unmade"]
           /\ group' = [group EXCEPT ![c] = group[t]]
           /\ group[c] \in {c, group[t]} /\ Unlinked(c, group[c])
           /\ ReleaseMm(c) /\ vfork' = [vfork EXCEPT ![c] = NoTask]
           /\ adrift' = adrift \cup Children(c)
           /\ UNCHANGED <<state, child, parent, exiting, zombie, code, doing, groupCode,
                          ignores, sigchld, vforkDone, handed, fault, halted>>
<1>1. pc[t] = "start"
  BY DEF UnlinkGroup
<1>2. c \in Tasks /\ group[t] \in Tasks /\ groupMem[group[t]] = "live"
  BY <1>1, ChildInHand
<1>3. /\ group[c] \in {c, group[t]} /\ c \in threads[group[c]]
      /\ group[c] = c => threads[c] = {c}
  BY <1>1 DEF Sound, Newborn, Unborn
<1>4. groupMem[group[c]] = "live"
  BY <1>2, <1>3 DEF Sound, Members
<1>5. group[t] # NoTask /\ GroupLive(group[t]) /\ GroupLive(group[c])
  BY <1>2, <1>4, InitAssumption DEF GroupLive
<1>6. Unlinked(c, group[c])
  BY <1>3, <1>4, <1>5 DEF UnlinkGroup, Unlinked
<1> QED BY <1>1, <1>3, <1>5, <1>6 DEF UnlinkGroup

\* The child leaves the list of threads again; what was handed over to it is
\* adrift.
LEMMA UnlinkSound == ASSUME Sound, NEW t \in Tasks, UnlinkGroup(t) PROVE Sound'
<1> SUFFICES ASSUME NEW c, c = child[t] PROVE Sound'
  OBVIOUS
<1> USE InitAssumption
<1>1. /\ pc[t] = "start" /\ pc' = [pc EXCEPT ![t] = "unmade"]
      /\ group' = [group EXCEPT ![c] = group[t]]
      /\ ReleaseMm(c) /\ vfork' = [vfork EXCEPT ![c] = NoTask]
      /\ adrift' = adrift \cup Children(c)
      /\ UNCHANGED <<state, child, parent, exiting, zombie, code, doing, groupCode,
                     ignores, sigchld, vforkDone, handed, fault, halted>>
  BY UnlinkEffect
<1>a. PICK g : g \in {c, group[t]} /\ Unlinked(c, g)
  BY UnlinkEffect
<1>2. /\ g \in {c, group[t]} /\ group[c] = g /\ groupMem[g] = "live" /\ c \in threads[g]
      /\ g = c => threads[c] = {c}
      /\ threads' = [threads EXCEPT ![g] = @ \ {c}]
      /\ groupMem' = IF g = c THEN [groupMem EXCEPT ![c] = "freed"] ELSE groupMem
  BY <1>a DEF Unlinked
<1>3. /\ c \in Tasks /\ c # t /\ parent[c] = t /\ ~exiting[c] /\ pc[c] = "none"
      /\ c # InitTask /\ ~halted /\ state[t] = "live"
      /\ group[t] \in Tasks /\ groupMem[group[t]] = "live" /\ t \in threads[group[t]]
  BY <1>1, ChildInHand
<1>4. /\ g \in Tasks /\ state[c] = "live" /\ group[t] # c
      /\ \A h \in Tasks : c \in threads[h] => h = g
  BY <1>2, <1>3 DEF Sound, Members
<1>5. /\ mm' \in [Tasks -> Tasks \cup {NoTask}] /\ mmRefs' \in [Tasks -> Int]
      /\ deferred' \in [Tasks -> BOOLEAN] /\ \A u \in Tasks : ~deferred'[u]
  BY <1>1, <1>3, ReleaseTyped DEF Sound
<1>6. Typed'
  <2>1. /\ group' \in [Tasks -> Tasks \cup {NoTask}]
        /\ groupMem' \in [Tasks -> {"none", "live", "freed"}]
        /\ threads' \in [Tasks -> SUBSET Tasks]
        /\ pc' \in [Tasks -> Active \cup {"none", "cleanup", "over"}]
        /\ vfork' \in [Tasks -> Tasks \cup {NoTask}]
        /\ adrift' \subseteq Tasks
    BY <1>1, <1>2, <1>3, <1>4 DEF Sound, Typed, Children
  <2> HIDE <1>2
  <2> QED BY <1>1, <1>5, <2>1 DEF Sound, Typed
<1>7. Members' /\ Actors'
  BY <1>1, <1>2, <1>3, <1>4 DEF Sound, Typed, Members, Actors
<1>8. Leaders'
  <2>1. CASE g = c
    BY <1>1, <1>2, <1>3, <1>4, <2>1 DEF Sound, Typed, Members, Leaders
  <2>2. CASE g = group[t]
    <3>1. groupMem' = groupMem /\ t \in threads'[g] /\ g # c
      BY <1>2, <1>3, <1>4, <2>2 DEF Sound, Typed
    <3>2. \A h \in Tasks : /\ threads'[h] = {} <=> threads[h] = {}
                           /\ h \in threads'[h] <=> h \in threads[h]
                           /\ group'[h] = h <=> group[h] = h
      BY <1>1, <1>2, <1>3, <1>4, <2>2, <3>1 DEF Sound, Typed
    <3> QED BY <1>1, <3>1, <3>2 DEF Sound, Leaders
  <2> QED BY <1>2, <2>1, <2>2
<1>9. Newborn'
  <2>1. Unborn(t)'
    BY <1>1, <1>2, <1>3, <1>4 DEF Sound, Typed, Unborn, Exists
  <2>2. ASSUME NEW u \in Tasks \ {t}, pc[u] \in Making PROVE Unborn(u)'
    <3>1. Unborn(u) /\ child[u] # c
      BY <1>1, <2>2 DEF Sound, Newborn
    <3>2. child[u] \in Tasks /\ child[u] # t /\ u # c /\ u \in threads[group[u]] /\ group[u] \in Tasks
      <4>1. child[u] \in Tasks /\ pc[child[u]] = "none"
        BY <3>1 DEF Unborn
      <4>2. u \in threads[group[u]] /\ group[u] \in Tasks
        BY <2>2 DEF Sound, Actors
      <4>3. pc[t] = "start" /\ pc[c] = "none"
        BY <1>1, <1>3
      <4>4. child[u] # t
        BY <4>1, <4>3
      <4>5. u # c
        BY <2>2, <4>3
      <4> QED BY <4>1, <4>2, <4>4, <4>5
    <3>3. /\ group'[child[u]] = group[child[u]] /\ group'[u] = group[u]
          /\ pc'[child[u]] = pc[child[u]] /\ pc'[u] = pc[u]
      BY <1>1, <1>3, <3>1, <3>2 DEF Sound, Typed
    <3>4. \A h \in Tasks : child[u] \in threads'[h] <=> child[u] \in threads[h]
      BY <1>2, <1>4, <3>1, <3>2 DEF Sound, Typed
    <3>5. threads[child[u]] = {child[u]} => threads'[child[u]] = {child[u]}
      BY <1>2, <1>4, <3>1, <3>2 DEF Sound, Typed
    <3>6. pc[u] = "start" => group[child[u]] \in Tasks
      BY <3>1, <3>2 DEF Unborn
    <3> QED BY <1>1, <3>1, <3>2, <3>3, <3>4, <3>5, <3>6 DEF Unborn, Exists
  <2> QED BY <1>1, <2>1, <2>2 DEF Sound, Typed, Newborn
<1>10. Strays'
  <2> SUFFICES ASSUME NEW u \in Tasks, Exists(u)
               PROVE  /\ group'[u] \in Tasks
                      /\ group'[u] # u /\ u \notin threads'[group'[u]] =>
                           /\ parent[u] \in Tasks /\ pc'[parent[u]] \in Making
                           /\ child[parent[u]] = u
    BY <1>1 DEF Strays, Exists
  <2>1. CASE u = c
    BY <1>1, <1>3, <2>1 DEF Sound, Typed
  <2>2. CASE u # c
    <3>1. group'[u] = group[u] /\ group[u] \in Tasks
      BY <1>1, <2>2 DEF Sound, Typed, Strays
    <3>2. u \in threads'[group[u]] <=> u \in threads[group[u]]
      BY <1>2, <1>4, <2>2, <3>1 DEF Sound, Typed
    <3>3. \A v \in Tasks : pc[v] \in Making => pc'[v] \in Making
      BY <1>1 DEF Sound, Typed
    <3> QED BY <1>3, <3>1, <3>2, <3>3 DEF Sound, Strays
  <2> QED BY <2>1, <2>2
<1>11. InitThere'
  BY <1>1, <1>3 DEF Sound, Typed, InitThere
<1>12. NoOrphan'
  <2> SUFFICES ASSUME NEW u \in Tasks \ {InitTask}, u \notin adrift, parent[u] # c,
                      Exists(u), parent[u] # InitTask
               PROVE  \E h \in Tasks : groupMem'[h] = "live" /\ parent[u] \in threads'[h]
    BY <1>1, <1>3 DEF NoOrphan, GroupLive, Children, Exists
  <2>1. PICK h \in Tasks : groupMem[h] = "live" /\ parent[u] \in threads[h]
    BY DEF Sound, NoOrphan, GroupLive
  <2>2. parent[u] \in threads'[h]
    BY <1>2, <1>4, <2>1 DEF Sound, Typed
  <2>3. groupMem'[h] = "live"
    BY <1>2, <1>4, <2>1 DEF Sound, Typed
  <2> QED BY <2>1, <2>2, <2>3
<1> QED BY <1>6, <1>7, <1>8, <1>9, <1>10, <1>11, <1>12 DEF Sound

LEMMA FlushTyped ==
    ASSUME NEW st \in [Tasks -> {"free", "new", "live", "destroyed", "freed"}], NEW t \in Tasks
    PROVE  /\ Flush(st, t) \in [Tasks -> {"free", "new", "live", "destroyed", "freed"}]
           /\ \A u \in Tasks : /\ u # t /\ st[u] # "destroyed" => Flush(st, t)[u] = st[u]
                               /\ Flush(st, t)[u] \in {"free", "new", "live"} =>
                                    u # t /\ Flush(st, t)[u] = st[u]
BY DEF Flush

\* What sys_clone destroys.
LEMMA UnmakeEffect ==
    ASSUME Sound, NEW t \in Tasks, Unmake(t), NEW c, c = child[t]
    PROVE  /\ pc[t] = "unmade" /\ pc' = [pc EXCEPT ![t] = "guest"]
           /\ state' = Flush(state, c)
           /\ parent' = Zero(parent, {c}, NoTask)
           /\ group' = Zero(group, {c}, NoTask)
           /\ exiting' = Zero(exiting, {c}, FALSE)
           /\ child' = [child EXCEPT ![t] = NoTask]
           /\ UNCHANGED <<zombie, code, groupVars, memVars, vforkVars, adrift, handed,
                          fault, halted>>
<1>1. pc[t] = "unmade"
  BY DEF Unmake
<1>2. parent[c] = t /\ state[t] = "live"
  BY <1>1, ChildInHand
<1>3. ~Dangles(c)
  BY <1>2 DEF Dangles
<1> QED BY <1>1, <1>3 DEF Unmake

LEMMA UnmakeSound == ASSUME Sound, NEW t \in Tasks, Unmake(t) PROVE Sound'
<1> SUFFICES ASSUME NEW c, c = child[t] PROVE Sound'
  OBVIOUS
<1> USE InitAssumption
<1>1. /\ pc[t] = "unmade" /\ pc' = [pc EXCEPT ![t] = "guest"]
      /\ state' = Flush(state, c)
      /\ parent' = Zero(parent, {c}, NoTask)
      /\ group' = Zero(group, {c}, NoTask)
      /\ exiting' = Zero(exiting, {c}, FALSE)
      /\ child' = [child EXCEPT ![t] = NoTask]
      /\ UNCHANGED <<zombie, code, groupVars, memVars, vforkVars, adrift, handed, fault, halted>>
  BY UnmakeEffect
<1>2. /\ c \in Tasks /\ c # t /\ parent[c] = t /\ ~exiting[c] /\ pc[c] = "none"
      /\ c # InitTask /\ ~halted /\ group[c] = group[t] /\ c \notin threads[group[t]]
      /\ group[t] \in Tasks /\ t \in threads[group[t]] /\ state[c] \in {"new", "live"}
  BY <1>1, ChildInHand DEF Sound, Newborn, Unborn
<1>3. (\A h \in Tasks : c \notin threads[h]) /\ group[c] # c /\ groupMem[c] # "live"
  BY <1>2 DEF Sound, Members, Leaders
<1>4. /\ state' \in [Tasks -> {"free", "new", "live", "destroyed", "freed"}]
      /\ \A u \in Tasks : /\ u # c /\ state[u] # "destroyed" => state'[u] = state[u]
                          /\ state'[u] \in {"free", "new", "live"} =>
                               u # c /\ state'[u] = state[u]
  <2>1. /\ Flush(state, c) \in [Tasks -> {"free", "new", "live", "destroyed", "freed"}]
        /\ \A u \in Tasks :
             /\ u # c /\ state[u] # "destroyed" => Flush(state, c)[u] = state[u]
             /\ Flush(state, c)[u] \in {"free", "new", "live"} =>
                  u # c /\ Flush(state, c)[u] = state[u]
    BY <1>2, FlushTyped DEF Sound, Typed
  <2> QED BY <1>1, <2>1
<1>5. /\ parent' \in [Tasks -> Tasks \cup {NoTask}] /\ group' \in [Tasks -> Tasks \cup {NoTask}]
      /\ exiting' \in [Tasks -> BOOLEAN] /\ group'[c] = NoTask
      /\ \A u \in Tasks : exiting'[u] <=> exiting[u]
      /\ \A u \in Tasks \ {c} : parent'[u] = parent[u] /\ group'[u] = group[u]
  BY <1>1, <1>2 DEF Zero, Sound, Typed
<1> USE DEF groupVars, memVars, vforkVars
<1>6. Typed'
  BY <1>1, <1>2, <1>4, <1>5 DEF Sound, Typed
<1>7. Members'
  <2> SUFFICES ASSUME NEW h \in Tasks, NEW u \in Tasks, u \in threads[h]
               PROVE  group'[u] = h /\ state'[u] = "live" /\ ~exiting'[u] /\ groupMem[h] = "live"
    BY <1>1 DEF Members
  <2>1. group[u] = h /\ state[u] = "live" /\ ~exiting[u] /\ groupMem[h] = "live"
    BY DEF Sound, Members
  <2>2. u # c
    BY <1>3
  <2> QED BY <1>4, <1>5, <2>1, <2>2
<1>13. Actors'
  <2> SUFFICES ASSUME NEW u \in Tasks, pc'[u] \in Active
               PROVE  group'[u] \in Tasks /\ u \in threads[group'[u]]
    BY <1>1 DEF Actors
  <2>1. pc[t] = "unmade" /\ pc[c] = "none" /\ pc'[c] = "none"
    BY <1>1, <1>2 DEF Sound, Typed
  <2>2. pc[u] \in Active /\ u # c
    BY <1>1, <2>1 DEF Sound, Typed
  <2>3. group[u] \in Tasks /\ u \in threads[group[u]]
    BY <2>2 DEF Sound, Actors
  <2> QED BY <1>5, <2>2, <2>3
<1>8. Leaders'
  <2>1. \A h \in Tasks : /\ state'[h] = "live" /\ group'[h] = h <=> state[h] = "live" /\ group[h] = h
                         /\ exiting'[h] <=> exiting[h]
    BY <1>2, <1>3, <1>4, <1>5 DEF Sound, Typed
  <2> QED BY <1>1, <2>1 DEF Sound, Leaders
<1>9. Newborn'
  <2>1. ASSUME NEW u \in Tasks, pc'[u] \in Making PROVE Unborn(u)'
    <3>1. u # t /\ pc[u] \in Making /\ pc'[u] = pc[u]
      BY <1>1, <2>1 DEF Sound, Typed
    <3>2. child[u] \in Tasks /\ state[child[u]] \in {"new", "live"} /\ pc[child[u]] = "none"
      BY <3>1, ChildInHand
    <3>a. Unborn(u) /\ child[u] # c
      BY <1>1, <3>1 DEF Sound, Newborn
    <3>b. pc[t] = "unmade" /\ pc[c] = "none"
      BY <1>1, <1>2
    <3>3. child[u] # t /\ u # c /\ child'[u] = child[u]
      BY <1>1, <3>1, <3>2, <3>b DEF Sound, Typed
    <3>4. state'[child[u]] = state[child[u]] /\ pc'[child[u]] = pc[child[u]]
      BY <1>1, <1>4, <3>2, <3>3, <3>a DEF Sound, Typed
    <3>5. /\ parent'[child[u]] = parent[child[u]] /\ group'[child[u]] = group[child[u]]
          /\ group'[u] = group[u] /\ (exiting'[child[u]] <=> exiting[child[u]])
          /\ threads' = threads
      BY <1>1, <1>5, <3>2, <3>3, <3>a
    <3> QED BY <3>1, <3>2, <3>a, <3>3, <3>4, <3>5 DEF Unborn, Exists
  <2>2. \A u \in Tasks : pc'[u] = "vfork" => child'[u] \in Tasks
    BY <1>1 DEF Sound, Typed, Newborn
  <2>3. ASSUME NEW u \in Tasks
        PROVE  /\ state'[u] \in {"free", "new"} => (pc'[u] = "none" \/ halted') /\ ~exiting'[u]
               /\ halted' => pc'[u] = "over"
    <3>1. ~halted' /\ state[t] = "live"
      BY <1>1, <1>2, ChildInHand
    <3> SUFFICES ASSUME state'[u] \in {"free", "new"} PROVE pc'[u] = "none" /\ ~exiting'[u]
      BY <3>1
    <3>2. state[u] \in {"free", "new"} /\ u # t
      BY <1>4, <3>1
    <3>3. pc[u] = "none" /\ ~exiting[u]
      BY <1>2, <3>2 DEF Sound, Newborn
    <3> QED BY <1>1, <1>5, <3>2, <3>3 DEF Sound, Typed
  <2>4. \A u, v \in Tasks :
          pc'[u] \in Making /\ pc'[v] \in Making /\ child'[u] = child'[v] => u = v
    <3> SUFFICES ASSUME NEW u \in Tasks, NEW v \in Tasks, pc'[u] \in Making, pc'[v] \in Making,
                        child'[u] = child'[v]
                 PROVE  u = v
      OBVIOUS
    <3>1. u # t /\ v # t /\ pc[u] \in Making /\ pc[v] \in Making /\ child[u] = child[v]
      BY <1>1 DEF Sound, Typed
    <3> QED BY <3>1 DEF Sound, Newborn
  <2> QED BY <2>1, <2>2, <2>3, <2>4 DEF Newborn
<1>10. Strays'
  <2> SUFFICES ASSUME NEW u \in Tasks, state'[u] \in {"new", "live"}
               PROVE  /\ group'[u] \in Tasks
                      /\ group'[u] # u /\ u \notin threads[group'[u]] =>
                           /\ parent'[u] \in Tasks /\ pc'[parent'[u]] \in Making
                           /\ child'[parent'[u]] = u
    BY <1>1 DEF Strays, Exists
  <2>1. u # c /\ Exists(u) /\ group'[u] = group[u] /\ parent'[u] = parent[u]
    BY <1>4, <1>5 DEF Exists
  <2>2. group[u] \in Tasks /\ (group[u] # u /\ u \notin threads[group[u]] =>
          parent[u] \in Tasks /\ pc[parent[u]] \in Making /\ child[parent[u]] = u)
    BY <1>2, <2>1 DEF Sound, Strays
  <2>3. parent[u] \in Tasks /\ pc[parent[u]] \in Making /\ child[parent[u]] = u =>
          pc'[parent[u]] \in Making /\ child'[parent[u]] = u
    <3> SUFFICES ASSUME parent[u] \in Tasks, pc[parent[u]] \in Making, child[parent[u]] = u
                 PROVE  pc'[parent[u]] \in Making /\ child'[parent[u]] = u
      OBVIOUS
    <3>1. parent[u] # t
      BY <2>1
    <3> QED BY <1>1, <3>1 DEF Sound, Typed
  <2> QED BY <2>1, <2>2, <2>3
<1>11. InitThere'
  BY <1>1, <1>2, <1>4, <1>5 DEF Sound, Typed, InitThere
<1>12. NoOrphan'
  <2> SUFFICES ASSUME NEW u \in Tasks \ ({InitTask} \cup adrift), state'[u] \in {"new", "live"}
               PROVE  \/ parent'[u] = InitTask
                      \/ \E h \in Tasks : groupMem[h] = "live" /\ parent'[u] \in threads[h]
    BY <1>1 DEF NoOrphan, GroupLive, Exists
  <2>1. u # c /\ state[u] \in {"new", "live"}
    BY <1>4
  <2>2. parent'[u] = parent[u]
    BY <1>5, <2>1
  <2> QED BY <2>1, <2>2 DEF Sound, NoOrphan, GroupLive, Exists
<1> QED BY <1>6, <1>13, <1>7, <1>8, <1>9, <1>10, <1>11, <1>12 DEF Sound

-----------------------------------------------------------------------------
(* do_exit                                                                 *)

\* The parent of a task that is not adrift is not freed.
LEMMA Attached ==
    ASSUME Sound, NEW t \in Tasks, Exists(t), t \notin adrift
    PROVE  ~Dangles(t)
<1> USE InitAssumption
<1>1. CASE t = InitTask
  BY <1>1 DEF Dangles, Sound, InitThere
<1>2. CASE t # InitTask
  <2>1. parent[t] = InitTask \/ \E h \in Tasks : parent[t] \in threads[h]
    BY <1>2 DEF Sound, NoOrphan
  <2>2. state[parent[t]] = "live"
    BY <2>1 DEF Sound, InitThere, Typed, Members
  <2> QED BY <2>2 DEF Dangles
<1> QED BY <1>1, <1>2

\* Where the second half of do_exit finds the group; of the things it follows
\* without a look, a parent adrift and an init that is a zombie can be missing.
LEMMA ExitFinds ==
    ASSUME Sound, NEW t \in Tasks, pc[t] = "release"
    PROVE  /\ group[t] \in Tasks /\ t \in threads[group[t]]
           /\ state[t] = "live" /\ ~halted /\ ~exiting[t]
           /\ groupMem[group[t]] = "live" /\ state[group[t]] = "live"
           /\ group[group[t]] = group[t] /\ ~zombie[group[t]]
           /\ LockedFault(t) \in {"none", "adrift", "noinit"}
           /\ LockedFault(t) = "none" /\ NoTask \in NewParents(t) => Children(t) = {}
<1> USE InitAssumption
<1> DEFINE g == group[t]
           up == Parent(g)
<1>2. g \in Tasks /\ t \in threads[g] /\ ~halted
  BY DEF Sound, Actors, Newborn
<1>3. state[t] = "live" /\ groupMem[g] = "live" /\ ~exiting[t]
  BY <1>2 DEF Sound, Members
<1>4. state[g] = "live" /\ group[g] = g /\ ~zombie[g]
  BY <1>2, <1>3 DEF Sound, Typed, Leaders
<1>5. g \notin adrift => group[up] # NoTask /\ GroupLive(group[up])
  <2> SUFFICES ASSUME g \notin adrift PROVE group[up] # NoTask /\ GroupLive(group[up])
    OBVIOUS
  <2>2. CASE up = InitTask
    BY <2>2 DEF Sound, InitThere, Leaders, GroupLive
  <2>3. CASE \E h \in Tasks : GroupLive(h) /\ up \in threads[h]
    BY <2>3 DEF Sound, Typed, Members, GroupLive
  <2> QED BY <1>2, <1>4, <2>2, <2>3 DEF Sound, NoOrphan, Parent, Exists
<1>6. t \notin adrift => ~Dangles(t)
  BY <1>3, Attached DEF Exists
<1>7. LockedFault(t) \in {"none", "adrift", "noinit"}
  BY <1>2, <1>3, <1>5, <1>6 DEF LockedFault, GroupLive
<1>8. LockedFault(t) = "none" /\ NoTask \in NewParents(t) => Children(t) = {}
  BY <1>2, <1>3 DEF LockedFault, GroupLive
<1> QED BY <1>2, <1>3, <1>4, <1>7, <1>8

\* The second half of do_exit in terms of what goes and what stays.
Leaves(t, g, p, gone, last) ==
    /\ last <=> threads[g] = {t}
    /\ t # g => t \in gone
    /\ g \in gone => last
    /\ InitTask \notin gone
    /\ state' \in [Tasks -> {"free", "new", "live", "destroyed", "freed"}]
    /\ \A u \in Tasks : /\ u \notin gone /\ state[u] # "destroyed" => state'[u] = state[u]
                        /\ state'[u] \in {"free", "new", "live"} =>
                             u \notin gone /\ state'[u] = state[u]
    /\ parent' = [u \in Tasks |-> IF u \in gone THEN NoTask
                                  ELSE IF u = g /\ last /\ g = InitTask THEN InitTask
                                  ELSE IF u \in Children(t) THEN p ELSE parent[u]]
    /\ threads' = [threads EXCEPT ![g] = @ \ {t}]
    /\ exiting' = [u \in Tasks |-> IF u \in gone THEN FALSE ELSE (u = t \/ exiting[u])]
    /\ zombie' = [u \in Tasks |-> IF u \in gone THEN FALSE
                                  ELSE IF u = g THEN last ELSE zombie[u]]
    /\ group' = [u \in Tasks |-> IF u \in gone THEN NoTask ELSE group[u]]
    /\ groupMem' = IF g \in gone THEN [groupMem EXCEPT ![g] = "freed"] ELSE groupMem
    /\ pc' \in [Tasks -> Active \cup {"none", "cleanup", "over"}]
    /\ pc'[t] \in {"over", "cleanup"}
    /\ \A u \in Tasks \ {t} : pc'[u] = pc[u] \/ (pc[u] = "asleep" /\ pc'[u] = "wait")
    /\ mm' = [u \in Tasks |-> IF u \in gone THEN NoTask ELSE mm[u]]
    /\ vfork' = [u \in Tasks |-> IF u \in gone THEN NoTask ELSE vfork[u]]
    /\ deferred' = [u \in Tasks |-> IF u \in gone THEN FALSE ELSE deferred[u]]
    /\ sigchld' = IF last THEN [sigchld EXCEPT ![g] = code[t]] ELSE sigchld
    /\ VforkNotify(t)
    /\ handed' \subseteq Tasks
    /\ UNCHANGED <<child, code, doing, groupCode, ignores, mmRefs, adrift, fault, halted>>

LEMMA ExitEffect ==
    ASSUME Sound, NEW t \in Tasks, NEW g \in Tasks, g = group[t], pc[t] = "release",
           ~InitEnds(t), NEW p, ExitLocked(t, p)
    PROVE  \E gone \in SUBSET {t, g}, last \in BOOLEAN : Leaves(t, g, p, gone, last)
<1> USE InitAssumption
<1> DEFINE last == threads[g] = {t}
           up == IF g = InitTask THEN InitTask ELSE Reparent(t, p)[g]
           auto == last /\ AutoReap(up)
           gone == Gone(t, auto)
           st1 == IF g \in gone THEN Flush(state, g) ELSE state
           heirs == IF last /\ g = InitTask THEN [Reparent(t, p) EXCEPT ![g] = up]
                    ELSE Reparent(t, p)
<1>1. gone \subseteq {t, g} /\ (t # g => t \in gone) /\ (g \in gone <=> auto)
  BY DEF Gone
<1>a. InitTask \notin gone
  <2>1. g = InitTask => ~auto
    <3> SUFFICES ASSUME g = InitTask, last PROVE ~AutoReap(InitTask)
      OBVIOUS
    <3>1. t # InitTask
      BY DEF InitEnds
    <3>2. InitTask \notin threads[InitTask] /\ groupMem[InitTask] = "live"
      BY <3>1 DEF Sound, InitThere, Leaders
    <3>3. exiting[InitTask]
      BY <3>2 DEF Sound, Leaders
    <3> QED BY <3>3 DEF AutoReap
  <2>2. t = InitTask => g = t
    BY DEF Sound, InitThere
  <2>3. t = InitTask => t \notin gone
    BY <2>1, <2>2 DEF Gone
  <2>4. g = InitTask => g \notin gone
    BY <1>1, <2>1
  <2> QED BY <1>1, <2>3, <2>4
<1>e. state \in [Tasks -> {"free", "new", "live", "destroyed", "freed"}]
  BY DEF Sound, Typed
<1>2. state' = IF t \in gone \ {g} THEN Flush(st1, t) ELSE st1
  BY DEF ExitLocked
<1>3. /\ state' \in [Tasks -> {"free", "new", "live", "destroyed", "freed"}]
      /\ \A u \in Tasks : /\ u \notin gone /\ state[u] # "destroyed" => state'[u] = state[u]
                          /\ state'[u] \in {"free", "new", "live"} =>
                               u \notin gone /\ state'[u] = state[u]
  <2> HIDE DEF gone
  <2>1. /\ st1 \in [Tasks -> {"free", "new", "live", "destroyed", "freed"}]
        /\ \A u \in Tasks :
            /\ u \notin gone /\ state[u] # "destroyed" => st1[u] = state[u]
            /\ st1[u] \in {"free", "new", "live"} =>
                 u \notin (gone \cap {g}) /\ st1[u] = state[u]
    <3>1. CASE g \in gone
      <4>1. st1 = Flush(state, g)
        BY <3>1
      <4>2. /\ Flush(state, g) \in [Tasks -> {"free", "new", "live", "destroyed", "freed"}]
            /\ \A u \in Tasks :
                 /\ u # g /\ state[u] # "destroyed" => Flush(state, g)[u] = state[u]
                 /\ Flush(state, g)[u] \in {"free", "new", "live"} =>
                      u # g /\ Flush(state, g)[u] = state[u]
        BY <1>e, FlushTyped
      <4> HIDE DEF st1
      <4> QED BY <3>1, <4>1, <4>2
    <3>2. CASE g \notin gone
      BY <1>e, <3>2
    <3> QED BY <3>1, <3>2
  <2> HIDE DEF st1
  <2>2. CASE t \in gone \ {g}
    BY <1>1, <1>2, <2>1, <2>2, FlushTyped
  <2>3. CASE t \notin gone \ {g}
    BY <1>1, <1>2, <2>1, <2>3
  <2> QED BY <2>2, <2>3
<1>b. parent' = [u \in Tasks |-> IF u \in gone THEN NoTask
                                 ELSE IF u = g /\ last /\ g = InitTask THEN InitTask
                                 ELSE IF u \in Children(t) THEN p ELSE parent[u]]
  <2>1. parent' = Zero(heirs, gone, NoTask)
    BY DEF ExitLocked
  <2>2. heirs = [u \in Tasks |-> IF u = g /\ last /\ g = InitTask THEN InitTask
                                 ELSE IF u \in Children(t) THEN p ELSE parent[u]]
    BY DEF Reparent
  <2> HIDE DEF gone, heirs, last
  <2> QED BY <2>1, <2>2 DEF Zero
<1>4. /\ threads' = [threads EXCEPT ![g] = @ \ {t}]
      /\ group' = [u \in Tasks |-> IF u \in gone THEN NoTask ELSE group[u]]
      /\ mm' = [u \in Tasks |-> IF u \in gone THEN NoTask ELSE mm[u]]
      /\ vfork' = [u \in Tasks |-> IF u \in gone THEN NoTask ELSE vfork[u]]
      /\ deferred' = [u \in Tasks |-> IF u \in gone THEN FALSE ELSE deferred[u]]
  <2>1. /\ threads' = [threads EXCEPT ![g] = @ \ {t}]
        /\ group' = Zero(group, gone, NoTask)
        /\ mm' = Zero(mm, gone, NoTask)
        /\ vfork' = Zero(vfork, gone, NoTask)
        /\ deferred' = Zero(deferred, gone, FALSE)
    BY DEF ExitLocked
  <2> HIDE DEF gone
  <2> QED BY <2>1 DEF Zero
<1>5. exiting' = [u \in Tasks |-> IF u \in gone THEN FALSE ELSE (u = t \/ exiting[u])]
  <2>1. exiting' = Zero([exiting EXCEPT ![t] = TRUE], gone, FALSE)
    BY DEF ExitLocked
  <2> HIDE DEF gone
  <2> QED BY <2>1 DEF Zero, Sound, Typed
<1>6. zombie' = [u \in Tasks |-> IF u \in gone THEN FALSE
                                 ELSE IF u = g THEN last ELSE zombie[u]]
  <2>1. zombie' = Zero([zombie EXCEPT ![g] = last], gone, FALSE)
    BY DEF ExitLocked
  <2> HIDE DEF gone, last
  <2> QED BY <2>1 DEF Zero, Sound, Typed
<1>7. /\ groupMem' = IF auto THEN [groupMem EXCEPT ![g] = "freed"] ELSE groupMem
      /\ sigchld' = IF last THEN [sigchld EXCEPT ![g] = code[t]] ELSE sigchld
      /\ VforkNotify(t)
      /\ UNCHANGED <<child, code, doing, groupCode, ignores, mmRefs, adrift, fault, halted>>
  BY DEF ExitLocked
<1>c. /\ pc' \in [Tasks -> Active \cup {"none", "cleanup", "over"}]
      /\ pc'[t] \in {"over", "cleanup"}
      /\ \A u \in Tasks \ {t} : pc'[u] = pc[u] \/ (pc[u] = "asleep" /\ pc'[u] = "wait")
  <2>1. pc' = [u \in Tasks |->
                 IF u = t THEN IF t \in gone THEN "over" ELSE "cleanup"
                 ELSE IF last /\ Woken(u, up) THEN "wait" ELSE pc[u]]
    BY DEF ExitLocked
  <2> HIDE DEF gone, last, up
  <2> QED BY <2>1 DEF Sound, Typed, Woken
<1>d. handed' \subseteq Tasks
  <2>1. handed' = (handed \cup {c \in Children(t) : zombie[c]}) \ gone
    BY DEF ExitLocked
  <2> HIDE DEF gone
  <2> QED BY <2>1 DEF Sound, Typed, Children
<1>8. groupMem' = IF g \in gone THEN [groupMem EXCEPT ![g] = "freed"] ELSE groupMem
  BY <1>1, <1>7
<1>9. g \in gone => last
  BY <1>1
<1>10. last <=> threads[g] = {t}
  OBVIOUS
<1> last \in BOOLEAN /\ gone \in SUBSET {t, g}
  BY <1>1
<1> HIDE DEF gone, auto, st1, last, heirs, up
<1> WITNESS gone \in SUBSET {t, g}, last \in BOOLEAN
<1> QED
  <2>1. /\ last <=> threads[g] = {t}
        /\ t # g => t \in gone
        /\ g \in gone => last
        /\ InitTask \notin gone
    BY <1>1, <1>9, <1>10, <1>a
  <2> QED BY <2>1, <1>3, <1>4, <1>5, <1>6, <1>7, <1>8, <1>b, <1>c, <1>d DEF Leaves

\* Neither the task that sys_clone has in hand nor its maker goes.
LEMMA MakersStay ==
    ASSUME Sound, NEW t \in Tasks, pc[t] = "release", NEW g \in Tasks, g = group[t],
           NEW gone, gone \subseteq {t, g}, g \in gone => threads[g] = {t},
           NEW u \in Tasks, pc[u] \in Making
    PROVE  /\ u # t /\ u \notin gone /\ child[u] \in Tasks /\ child[u] # t
           /\ child[u] \notin gone /\ child[u] \notin Children(t)
<1>1. /\ child[u] \in Tasks /\ child[u] # u /\ parent[child[u]] = u /\ pc[child[u]] = "none"
      /\ group[u] \in Tasks /\ u \in threads[group[u]]
  BY ChildInHand
<1>2. Unborn(u) /\ u # t /\ child[u] # t /\ child[u] \notin Children(t)
  BY <1>1 DEF Sound, Newborn, Children
<1>3. /\ g \in gone => threads[g] = {t}
      /\ t \in threads[g] /\ group[g] = g /\ state[g] = "live"
  BY ExitFinds
<1>4. u \notin gone
  BY <1>1, <1>2, <1>3
<1>5. child[u] \notin gone
  <2> SUFFICES ASSUME child[u] = g, threads[g] = {t} PROVE FALSE
    BY <1>2, <1>3
  <2>1. pc[u] = "start"
    BY <1>1, <1>2, <1>3 DEF Unborn
  <2> QED BY <1>2, <1>3, <2>1 DEF Unborn
<1> QED BY <1>1, <1>2, <1>4, <1>5

\* The second half of do_exit: the children go to a live thread or to init, the
\* last thread leaves a zombie or releases the process.
LEMMA ExitSound ==
    ASSUME Sound, NEW t \in Tasks, DoExitLocked(t), LockedFault(t) = "none"
    PROVE  Sound'
<1> USE InitAssumption
<1> SUFFICES ASSUME NEW g, g = group[t] PROVE Sound'
  OBVIOUS
<1>0. pc[t] = "release" /\ ~InitEnds(t)
  BY DEF DoExitLocked
<1>1. /\ g \in Tasks /\ t \in threads[g] /\ state[t] = "live"
      /\ groupMem[g] = "live" /\ state[g] = "live" /\ group[g] = g /\ ~zombie[g]
      /\ ~halted /\ ~exiting[t]
      /\ NoTask \in NewParents(t) => Children(t) = {}
  BY <1>0, ExitFinds
<1>2. PICK p \in NewParents(t) : ExitLocked(t, p)
  BY DEF DoExitLocked
<1>3. Children(t) # {} => p \in Tasks /\ (p = InitTask \/ (p \in threads[g] /\ p # t))
  BY <1>1 DEF NewParents, Init1, Sound, Typed
<1>4. PICK gone \in SUBSET {t, g}, last \in BOOLEAN : Leaves(t, g, p, gone, last)
  BY <1>0, <1>1, <1>2, ExitEffect
\* Whoever goes had no other thread to answer for.
<1>5. /\ \A u \in gone : u = t \/ (u = g /\ threads[g] = {t})
      /\ InitTask \notin gone
      /\ \A u \in gone : state[u] = "live"
  BY <1>1, <1>4 DEF Leaves
<1>s. /\ state' \in [Tasks -> {"free", "new", "live", "destroyed", "freed"}]
      /\ \A u \in Tasks : /\ u \notin gone /\ state[u] # "destroyed" => state'[u] = state[u]
                          /\ state'[u] \in {"free", "new", "live"} =>
                               u \notin gone /\ state'[u] = state[u]
  BY <1>4 DEF Leaves
<1>p. /\ pc' \in [Tasks -> Active \cup {"none", "cleanup", "over"}]
      /\ pc'[t] \in {"over", "cleanup"}
      /\ \A u \in Tasks \ {t} : pc'[u] = pc[u] \/ (pc[u] = "asleep" /\ pc'[u] = "wait")
  BY <1>4 DEF Leaves
<1>q. \A u \in Tasks : /\ pc'[u] \in Making <=> pc[u] \in Making
                       /\ pc[u] \in Making => pc'[u] = pc[u]
  BY <1>0, <1>p
<1>g. \A u \in Tasks : group'[u] = IF u \in gone THEN NoTask ELSE group[u]
  BY <1>4 DEF Leaves
<1>k. \A u \in Tasks : groupMem'[u] = IF u = g /\ g \in gone THEN "freed" ELSE groupMem[u]
  BY <1>1, <1>4 DEF Leaves, Sound, Typed
<1>h. /\ threads'[g] = threads[g] \ {t}
      /\ \A u \in Tasks \ {g} : threads'[u] = threads[u]
  BY <1>1, <1>4 DEF Leaves, Sound, Typed
<1>t. \A h \in Tasks : \A u : u \in threads'[h] <=> u \in threads[h] /\ ~(h = g /\ u = t)
  BY <1>h
<1>x. \A u \in Tasks : /\ exiting'[u] <=> u \notin gone /\ (u = t \/ exiting[u])
                       /\ zombie'[u] <=> u \notin gone /\ (IF u = g THEN last ELSE zombie[u])
  BY <1>4 DEF Leaves
<1>r. \A u \in Tasks : parent'[u] = IF u \in gone THEN NoTask
                                    ELSE IF u = g /\ last /\ g = InitTask THEN InitTask
                                    ELSE IF u \in Children(t) THEN p ELSE parent[u]
  BY <1>4 DEF Leaves
<1>l. (last <=> threads[g] = {t}) /\ (t # g => t \in gone) /\ (g \in gone => last)
  BY <1>4 DEF Leaves
<1>u. UNCHANGED <<child, code, doing, groupCode, ignores, mmRefs, adrift, fault, halted>>
  BY <1>4 DEF Leaves
<1>6. Typed'
  <2>1. /\ exiting' \in [Tasks -> BOOLEAN] /\ zombie' \in [Tasks -> BOOLEAN]
        /\ deferred' \in [Tasks -> BOOLEAN] /\ \A u \in Tasks : ~deferred'[u]
    BY <1>4 DEF Leaves, Sound, Typed
  <2>2. vforkDone' \in [Tasks -> BOOLEAN]
    BY <1>4 DEF Leaves, Sound, Typed, VforkNotify
  <2>3. parent' \in [Tasks -> Tasks \cup {NoTask}]
    BY <1>3, <1>4 DEF Leaves, Sound, Typed
  <2>4. /\ group' \in [Tasks -> Tasks \cup {NoTask}]
        /\ mm' \in [Tasks -> Tasks \cup {NoTask}]
        /\ vfork' \in [Tasks -> Tasks \cup {NoTask}]
        /\ groupMem' \in [Tasks -> {"none", "live", "freed"}]
        /\ threads' \in [Tasks -> SUBSET Tasks]
    BY <1>1, <1>4 DEF Leaves, Sound, Typed
  <2>5. sigchld' \in [Tasks -> Codes \cup {NoTask}] /\ handed' \subseteq Tasks
    BY <1>1, <1>4 DEF Leaves, Sound, Typed
  <2> QED BY <1>s, <1>p, <1>u, <2>1, <2>2, <2>3, <2>4, <2>5 DEF Sound, Typed
<1>7. Members'
  <2> SUFFICES ASSUME NEW h \in Tasks, NEW u \in Tasks, u \in threads'[h]
               PROVE  group'[u] = h /\ state'[u] = "live" /\ ~exiting'[u] /\ groupMem'[h] = "live"
    BY DEF Members
  <2>1. u \in threads[h] /\ ~(h = g /\ u = t)
    BY <1>t
  <2>2. group[u] = h /\ state[u] = "live" /\ ~exiting[u] /\ groupMem[h] = "live"
    BY <2>1 DEF Sound, Members
  <2>3. u # t
    BY <2>1, <2>2
  <2>4. u \notin gone /\ (h = g => g \notin gone)
    BY <1>1, <1>l, <1>5, <2>1, <2>2, <2>3
  <2> QED BY <1>s, <1>g, <1>k, <1>x, <2>2, <2>3, <2>4
<1>8. Actors'
  <2> SUFFICES ASSUME NEW u \in Tasks, pc'[u] \in Active
               PROVE  group'[u] \in Tasks /\ u \in threads'[group'[u]]
    BY DEF Actors
  <2>1. u # t /\ pc[u] \in Active
    BY <1>p
  <2>2. group[u] \in Tasks /\ u \in threads[group[u]]
    BY <2>1 DEF Sound, Actors
  <2>3. u \notin gone
    BY <1>1, <1>5, <2>1, <2>2
  <2> QED BY <1>g, <1>t, <2>1, <2>2, <2>3
<1>9. Leaders'
  <2> SUFFICES ASSUME NEW h \in Tasks
               PROVE  /\ groupMem'[h] = "live" <=> state'[h] = "live" /\ group'[h] = h
                      /\ groupMem'[h] = "live" => (zombie'[h] <=> threads'[h] = {})
                      /\ zombie'[h] => groupMem'[h] = "live"
                      /\ groupMem'[h] = "live" => (exiting'[h] <=> h \notin threads'[h])
    BY DEF Leaders
  <2>1. /\ groupMem[h] = "live" <=> state[h] = "live" /\ group[h] = h
        /\ groupMem[h] = "live" => (zombie[h] <=> threads[h] = {})
        /\ zombie[h] => groupMem[h] = "live"
        /\ groupMem[h] = "live" => (exiting[h] <=> h \notin threads[h])
    BY DEF Sound, Leaders
  <2>2. CASE h = g /\ g \in gone
    BY <1>s, <1>g, <1>k, <1>x, <2>2
  <2>3. CASE h = g /\ g \notin gone
    <3>1. groupMem'[g] = "live" /\ state'[g] = "live" /\ group'[g] = g
      BY <1>1, <1>s, <1>g, <1>k, <2>3
    <3>2. (zombie'[g] <=> last) /\ (threads'[g] = {} <=> last)
      BY <1>1, <1>h, <1>x, <1>l, <2>3
    <3>3. exiting'[g] <=> g \notin threads'[g]
      BY <1>1, <1>t, <1>x, <2>1, <2>3
    <3> QED BY <2>3, <3>1, <3>2, <3>3
  <2>4. CASE h # g
    <3>1. h = t => h \in gone /\ groupMem[h] # "live"
      BY <1>l, <2>1, <2>4
    <3>2. h # t => h \notin gone
      BY <1>5, <2>4
    <3>3. threads'[h] = threads[h] /\ groupMem'[h] = groupMem[h]
      BY <1>h, <1>k, <2>4
    <3>4. CASE h = t
      BY <1>s, <1>x, <3>1, <3>3, <3>4
    <3>5. CASE h # t
      <4>1. /\ zombie'[h] <=> zombie[h]
            /\ exiting'[h] <=> exiting[h]
            /\ group'[h] = group[h]
            /\ state'[h] = "live" <=> state[h] = "live"
        BY <1>s, <1>g, <1>x, <2>4, <3>2, <3>5
      <4> QED BY <2>1, <3>3, <4>1
    <3> QED BY <3>4, <3>5
  <2> QED BY <2>2, <2>3, <2>4
<1>m. \A u \in Tasks : pc[u] \in Making =>
          /\ u # t /\ u \notin gone /\ child[u] \in Tasks /\ child[u] # t
          /\ child[u] \notin gone /\ child[u] \notin Children(t)
  <2> SUFFICES ASSUME NEW u \in Tasks, pc[u] \in Making
               PROVE  /\ u # t /\ u \notin gone /\ child[u] \in Tasks /\ child[u] # t
                      /\ child[u] \notin gone /\ child[u] \notin Children(t)
    OBVIOUS
  <2>1. gone \subseteq {t, g} /\ (g \in gone => threads[g] = {t})
    BY <1>4, <1>l
  <2> QED BY <1>0, <1>1, <2>1, MakersStay
<1>10. Newborn'
  <2>1. ASSUME NEW u \in Tasks, pc'[u] \in Making PROVE Unborn(u)'
    <3>1. pc[u] \in Making /\ pc'[u] = pc[u] /\ child'[u] = child[u]
      BY <1>q, <1>u, <2>1
    <3>2. /\ child[u] \in Tasks /\ child[u] # t /\ child[u] \notin gone
          /\ u \notin gone /\ child[u] \notin Children(t) /\ u # t
      BY <3>1, <1>m
    <3>3. Unborn(u) /\ child[u] # InitTask /\ pc[child[u]] = "none"
          /\ state[child[u]] \in {"new", "live"} /\ ~exiting[child[u]] /\ group[u] \in Tasks
      BY <3>1, ChildInHand DEF Sound, Newborn
    <3>4. /\ state'[child[u]] = state[child[u]] /\ pc'[child[u]] = pc[child[u]]
          /\ group'[child[u]] = group[child[u]] /\ group'[u] = group[u]
          /\ ~exiting'[child[u]] /\ parent'[child[u]] = parent[child[u]]
      <4>1. state'[child[u]] = state[child[u]] /\ pc'[child[u]] = pc[child[u]]
        BY <1>s, <1>p, <3>2, <3>3
      <4>2. group'[child[u]] = group[child[u]] /\ group'[u] = group[u] /\ ~exiting'[child[u]]
        BY <1>g, <1>x, <3>2, <3>3
      <4>3. parent'[child[u]] = parent[child[u]]
        BY <1>r, <3>2, <3>3
      <4> QED BY <4>1, <4>2, <4>3
    <3>5. \A h \in Tasks : child[u] \in threads'[h] <=> child[u] \in threads[h]
      BY <1>t, <3>2
    <3>7. threads[child[u]] = {child[u]} => threads'[child[u]] = threads[child[u]]
      BY <1>1, <1>h, <3>2
    <3>6. pc[u] = "start" => group[child[u]] \in Tasks
      BY <3>2, <3>3 DEF Unborn
    <3> QED BY <3>1, <3>2, <3>3, <3>4, <3>5, <3>6, <3>7 DEF Unborn, Exists
  <2>2. \A u \in Tasks : pc'[u] = "vfork" => child'[u] \in Tasks
    BY <1>p, <1>u DEF Sound, Newborn
  <2>3. ASSUME NEW u \in Tasks, state'[u] \in {"free", "new"} PROVE pc'[u] = "none" /\ ~exiting'[u]
    <3>1. state[u] \in {"free", "new"} /\ u # t
      BY <1>1, <1>s, <2>3
    <3>2. pc[u] = "none" /\ ~exiting[u]
      BY <1>1, <3>1 DEF Sound, Newborn
    <3> QED BY <1>p, <1>x, <3>1, <3>2
  <2>4. \A u, v \in Tasks :
          pc'[u] \in Making /\ pc'[v] \in Making /\ child'[u] = child'[v] => u = v
    <3> SUFFICES ASSUME NEW u \in Tasks, NEW v \in Tasks, pc'[u] \in Making, pc'[v] \in Making,
                        child'[u] = child'[v]
                 PROVE  u = v
      OBVIOUS
    <3>1. pc[u] \in Making /\ pc[v] \in Making /\ child[u] = child[v]
      BY <1>q, <1>u
    <3> QED BY <3>1 DEF Sound, Newborn
  <2>5. ~halted'
    BY <1>1, <1>u
  <2> QED BY <2>1, <2>2, <2>3, <2>4, <2>5 DEF Newborn
<1>13. Strays'
  <2> SUFFICES ASSUME NEW u \in Tasks, state'[u] \in {"new", "live"}
               PROVE  /\ group'[u] \in Tasks
                      /\ group'[u] # u /\ u \notin threads'[group'[u]] =>
                           /\ parent'[u] \in Tasks /\ pc'[parent'[u]] \in Making
                           /\ child'[parent'[u]] = u
    BY DEF Strays, Exists
  <2>1. u \notin gone /\ state[u] \in {"new", "live"}
    BY <1>s
  <2>2. group[u] \in Tasks /\ (group[u] # u /\ u \notin threads[group[u]] =>
          parent[u] \in Tasks /\ pc[parent[u]] \in Making /\ child[parent[u]] = u)
    BY <1>1, <2>1 DEF Sound, Strays, Exists
  <2>3. group'[u] = group[u]
    BY <1>g, <2>1
  <2> SUFFICES ASSUME group[u] # u, u \notin threads'[group[u]]
               PROVE  parent'[u] \in Tasks /\ pc'[parent'[u]] \in Making /\ child'[parent'[u]] = u
    BY <2>2, <2>3
  <2>4. u # t /\ u # InitTask
    BY <1>l, <2>1 DEF Sound, InitThere
  <2>5. u \notin threads[group[u]]
    BY <1>t, <2>2, <2>4
  <2>6. parent[u] \in Tasks /\ pc[parent[u]] \in Making /\ child[parent[u]] = u
    BY <2>2, <2>5
  <2>7. parent'[u] = parent[u]
    BY <1>r, <1>m, <2>1, <2>4, <2>6
  <2> QED BY <1>q, <1>u, <2>6, <2>7
<1>11. InitThere'
  <2>1. state'[InitTask] = "live" /\ group'[InitTask] = InitTask
    BY <1>5, <1>s, <1>g DEF Sound, InitThere
  <2>2. CASE g = InitTask /\ last
    BY <1>5, <1>r, <1>x, <2>1, <2>2 DEF InitThere
  <2>3. CASE ~(g = InitTask /\ last)
    <3>1. InitTask \notin Children(t)
      BY <1>1 DEF Children, Sound, InitThere
    <3>2. parent'[InitTask] = parent[InitTask]
      BY <1>5, <1>r, <2>3, <3>1
    <3>3. zombie[InitTask] => g # InitTask
      BY <1>1
    <3>4. zombie[InitTask] => zombie'[InitTask]
      BY <1>5, <1>x, <3>3
    <3> QED BY <2>1, <3>2, <3>4 DEF Sound, InitThere
  <2> QED BY <2>2, <2>3
<1>12. NoOrphan'
  <2> SUFFICES ASSUME NEW u \in Tasks \ ({InitTask} \cup adrift), state'[u] \in {"new", "live"}
               PROVE  \/ parent'[u] = InitTask
                      \/ \E h \in Tasks : groupMem'[h] = "live" /\ parent'[u] \in threads'[h]
    BY <1>u DEF NoOrphan, GroupLive, Exists
  <2>1. u \notin gone /\ state[u] \in {"new", "live"}
    BY <1>s
  <2>2. CASE u \in Children(t)
    <3>1. parent'[u] = p /\ (p = InitTask \/ (p \in threads[g] /\ p # t))
      BY <1>3, <1>r, <2>1, <2>2
    <3>2. CASE p \in threads[g] /\ p # t
      <4>1. g \notin gone
        BY <1>l, <3>2
      <4> QED BY <1>1, <1>k, <1>t, <3>1, <3>2, <4>1
    <3> QED BY <3>1, <3>2
  <2>3. CASE u \notin Children(t)
    <3>1. parent'[u] = parent[u] /\ parent[u] # t
      BY <1>r, <2>1, <2>3 DEF Children, Exists
    <3>2. CASE parent[u] = InitTask
      BY <3>1, <3>2
    <3>3. ASSUME NEW h \in Tasks, groupMem[h] = "live", parent[u] \in threads[h]
          PROVE  groupMem'[h] = "live" /\ parent[u] \in threads'[h]
      <4>1. parent[u] \in threads'[h]
        BY <1>t, <3>1, <3>3
      <4>2. h = g => g \notin gone
        BY <1>l, <3>1, <3>3
      <4> QED BY <1>k, <3>3, <4>1, <4>2
    <3> QED BY <2>1, <3>1, <3>2, <3>3 DEF Sound, NoOrphan, GroupLive, Exists
  <2> QED BY <2>2, <2>3
<1> QED BY <1>6, <1>7, <1>8, <1>9, <1>10, <1>11, <1>12, <1>13 DEF Sound

-----------------------------------------------------------------------------
(* do_wait                                                                 *)

\* Nobody waits for init.
LEMMA InitStays ==
    ASSUME Sound, NEW t \in Tasks, NEW c \in Tasks, Reap(t, c)
    PROVE  c # InitTask
<1> USE InitAssumption
<1>1. pc[t] = "wait" /\ Waitable(t, c) /\ zombie[c]
  BY DEF Reap
<1> SUFFICES ASSUME c = InitTask PROVE FALSE
  OBVIOUS
<1>2. threads[InitTask] = {} /\ ~halted /\ group[t] \in Tasks /\ t \in threads[group[t]]
  BY <1>1 DEF Sound, Leaders, InitThere, Actors, Newborn
<1>3. CASE c \in Children(t)
  <2>1. t = InitTask
    BY <1>3 DEF Children, Sound, InitThere
  <2> QED BY <1>2, <2>1 DEF Sound, InitThere
<1>4. ASSUME NEW x \in Tasks, Exists(x), parent[x] # NoTask, group[parent[x]] = group[t],
             group[x] = InitTask
      PROVE  FALSE
  <2>1. x # InitTask
    BY <1>2, <1>4 DEF Sound, InitThere
  <2>2. parent[x] \in Tasks /\ pc[parent[x]] \in Making /\ child[parent[x]] = x
    BY <1>2, <1>4, <2>1 DEF Sound, Strays
  <2>3. Unborn(parent[x]) /\ group[parent[x]] \in Tasks /\ parent[x] \in threads[group[parent[x]]]
    BY <2>2 DEF Sound, Newborn, Actors
  <2> QED BY <1>2, <1>4, <2>2, <2>3 DEF Unborn
<1> QED BY <1>1, <1>3, <1>4 DEF Waitable, Sound, Typed

\* What the waiter releases has no thread, and nobody's parent.
LEMMA ReapSound ==
    ASSUME Sound, NEW t \in Tasks, NEW c \in Tasks, Reap(t, c)
    PROVE  Sound'
<1> USE InitAssumption
<1>1. /\ zombie[c] /\ pc[t] = "wait" /\ state[c] = "live" /\ group[c] = c
      /\ groupMem[c] = "live" /\ threads[c] = {} /\ c # InitTask /\ exiting[c]
      /\ \A h \in Tasks : c \notin threads[h]
  BY InitStays DEF Reap, Sound, Typed, Members, Leaders
<1>2. pc[c] \notin Active /\ t # c /\ ~halted /\ state[t] = "live"
  BY <1>1 DEF Sound, Actors, Newborn, Members
<1>3. /\ state' = Flush(state, c) /\ groupMem' = [groupMem EXCEPT ![c] = "freed"]
      /\ child' = [child EXCEPT ![t] = NoTask] /\ pc' = [pc EXCEPT ![t] = "guest"]
      /\ handed' = handed \ {c}
      /\ UNCHANGED <<code, threads, doing, groupCode, ignores, sigchld, mmRefs, vforkDone,
                     adrift, fault, halted>>
  BY DEF Reap, Reaped
<1>4. /\ parent' \in [Tasks -> Tasks \cup {NoTask}] /\ group' \in [Tasks -> Tasks \cup {NoTask}]
      /\ mm' \in [Tasks -> Tasks \cup {NoTask}] /\ vfork' \in [Tasks -> Tasks \cup {NoTask}]
      /\ group'[c] = NoTask
      /\ \A u \in Tasks \ {c} : parent'[u] = parent[u] /\ group'[u] = group[u]
  BY DEF Reap, Reaped, Zero, Sound, Typed
<1>5. /\ exiting' \in [Tasks -> BOOLEAN] /\ zombie' \in [Tasks -> BOOLEAN]
      /\ deferred' \in [Tasks -> BOOLEAN]
      /\ ~zombie'[c] /\ \A u \in Tasks \ {c} : (zombie'[u] <=> zombie[u]) /\ (exiting'[u] <=> exiting[u])
      /\ \A u \in Tasks : ~deferred'[u] /\ (exiting'[u] => exiting[u])
  BY DEF Reap, Reaped, Zero, Sound, Typed
<1>6. /\ state' \in [Tasks -> {"free", "new", "live", "destroyed", "freed"}]
      /\ \A u \in Tasks : /\ u # c /\ state[u] # "destroyed" => state'[u] = state[u]
                          /\ state'[u] \in {"free", "new", "live"} =>
                               u # c /\ state'[u] = state[u]
  <2>1. /\ Flush(state, c) \in [Tasks -> {"free", "new", "live", "destroyed", "freed"}]
        /\ \A u \in Tasks :
             /\ u # c /\ state[u] # "destroyed" => Flush(state, c)[u] = state[u]
             /\ Flush(state, c)[u] \in {"free", "new", "live"} =>
                  u # c /\ Flush(state, c)[u] = state[u]
    BY FlushTyped DEF Sound, Typed
  <2> QED BY <1>3, <2>1
<1>7. Typed'
  BY <1>1, <1>3, <1>4, <1>5, <1>6 DEF Sound, Typed
<1>8. Members'
  BY <1>1, <1>3, <1>4, <1>5, <1>6 DEF Sound, Typed, Members
<1>9. Actors'
  BY <1>1, <1>2, <1>3, <1>4 DEF Sound, Typed, Actors
<1>11. Leaders'
  BY <1>1, <1>3, <1>4, <1>5, <1>6 DEF Sound, Typed, Leaders
<1>q. \A u \in Tasks : /\ pc'[u] \in Making <=> pc[u] \in Making
                       /\ pc[u] \in Making => pc'[u] = pc[u] /\ child'[u] = child[u] /\ u # t
  BY <1>1, <1>3 DEF Sound, Typed
<1>12. Newborn'
  <2>1. ASSUME NEW u \in Tasks, pc'[u] \in Making PROVE Unborn(u)'
    <3>1. pc[u] \in Making /\ pc'[u] = pc[u] /\ child'[u] = child[u] /\ u # t
      BY <1>q, <2>1
    <3>2. Unborn(u) /\ child[u] \in Tasks /\ ~exiting[child[u]] /\ pc[child[u]] = "none"
          /\ state[child[u]] \in {"new", "live"}
      BY <3>1, ChildInHand DEF Sound, Newborn
    <3>3. child[u] # c /\ u # c /\ child[u] # t
      BY <1>1, <1>2, <3>1, <3>2
    <3>4. /\ state'[child[u]] = state[child[u]] /\ pc'[child[u]] = pc[child[u]]
          /\ group'[child[u]] = group[child[u]] /\ group'[u] = group[u]
          /\ ~exiting'[child[u]] /\ parent'[child[u]] = parent[child[u]] /\ threads' = threads
      BY <1>3, <1>4, <1>5, <1>6, <3>2, <3>3 DEF Sound, Typed
    <3> QED BY <3>1, <3>2, <3>4 DEF Unborn, Exists
  <2>2. \A u \in Tasks : pc'[u] = "vfork" => child'[u] \in Tasks
    BY <1>3 DEF Sound, Typed, Newborn
  <2>3. ASSUME NEW u \in Tasks, state'[u] \in {"free", "new"} PROVE pc'[u] = "none" /\ ~exiting'[u]
    <3>1. state[u] \in {"free", "new"} /\ u # t /\ u # c
      BY <1>2, <1>6, <2>3
    <3>2. pc[u] = "none" /\ ~exiting[u]
      BY <1>2, <3>1 DEF Sound, Newborn
    <3> QED BY <1>3, <1>5, <3>1, <3>2 DEF Sound, Typed
  <2>4. \A u, v \in Tasks :
          pc'[u] \in Making /\ pc'[v] \in Making /\ child'[u] = child'[v] => u = v
    BY <1>q DEF Sound, Newborn
  <2>5. ~halted'
    BY <1>2, <1>3
  <2> QED BY <2>1, <2>2, <2>3, <2>4, <2>5 DEF Newborn
<1>15. Strays'
  <2> SUFFICES ASSUME NEW u \in Tasks, state'[u] \in {"new", "live"}
               PROVE  /\ group'[u] \in Tasks
                      /\ group'[u] # u /\ u \notin threads[group'[u]] =>
                           /\ parent'[u] \in Tasks /\ pc'[parent'[u]] \in Making
                           /\ child'[parent'[u]] = u
    BY <1>3 DEF Strays, Exists
  <2>1. u # c /\ state[u] \in {"new", "live"}
    BY <1>6
  <2>2. group[u] \in Tasks /\ (group[u] # u /\ u \notin threads[group[u]] =>
          parent[u] \in Tasks /\ pc[parent[u]] \in Making /\ child[parent[u]] = u)
    BY <1>2, <2>1 DEF Sound, Strays, Exists
  <2>3. group'[u] = group[u] /\ parent'[u] = parent[u]
    BY <1>4, <2>1
  <2> QED BY <1>q, <2>2, <2>3
<1>13. InitThere'
  BY <1>1, <1>3, <1>4, <1>5, <1>6 DEF Sound, Typed, InitThere
<1>14. NoOrphan'
  <2> SUFFICES ASSUME NEW u \in Tasks \ ({InitTask} \cup adrift), state'[u] \in {"new", "live"}
               PROVE  \/ parent'[u] = InitTask
                      \/ \E h \in Tasks : groupMem'[h] = "live" /\ parent'[u] \in threads[h]
    BY <1>3 DEF NoOrphan, GroupLive, Exists
  <2>1. u # c /\ state[u] \in {"new", "live"} /\ parent'[u] = parent[u]
    BY <1>4, <1>6
  <2>2. \A h \in Tasks : groupMem[h] = "live" /\ h # c => groupMem'[h] = "live"
    BY <1>3 DEF Sound, Typed
  <2> QED BY <1>1, <2>1, <2>2 DEF Sound, NoOrphan, GroupLive, Exists
<1> QED BY <1>7, <1>8, <1>9, <1>11, <1>12, <1>13, <1>14, <1>15 DEF Sound

-----------------------------------------------------------------------------
(* Steps that only move a thread to another place                          *)

Moves(t) ==
    \/ VforkReturn(t) \/ GroupWaitDone(t) \/ Killed(t) \/ Abandoned(t) \/ Block(t) \/ Unblock(t)
    \/ (DoExitLocked(t) /\ LockedFault(t) # "none")
    \/ (\E x \in Codes : SysExit(t, x)) \/ (\E c \in Tasks \cup {NoTask} : WaitFor(t, c))
    \/ NoChild(t) \/ WaitSleep(t) \/ WaitTimeout(t) \/ WaitInterrupted(t)

\* What such a step leaves.
Moved(t) ==
    /\ pc[t] \in Active \ Making
    /\ \E to \in (Active \ (Making \cup {"vfork", "release"})) \cup {"over"} :
         pc' = [pc EXCEPT ![t] = to]
    /\ \E x \in Tasks \cup {NoTask} : child' = [child EXCEPT ![t] = x]
    /\ code' \in [Tasks -> Codes] /\ fault' \subseteq Left
    /\ vfork' \in [Tasks -> Tasks \cup {NoTask}] /\ vforkDone' \in [Tasks -> BOOLEAN]
    /\ UNCHANGED <<state, parent, group, exiting, zombie, groupVars, memVars, adrift, handed,
                   halted>>

LEMMA MoveStep == ASSUME Sound, NEW t \in Tasks, Moves(t) PROVE Moved(t)
<1> USE InitAssumption DEF taskVars, vforkVars, Moved
<1>0. /\ child = [child EXCEPT ![t] = child[t]] /\ child[t] \in Tasks \cup {NoTask}
      /\ code \in [Tasks -> Codes] /\ groupCode \in [Tasks -> Codes] /\ fault \subseteq Left
      /\ vfork \in [Tasks -> Tasks \cup {NoTask}] /\ vforkDone \in [Tasks -> BOOLEAN]
  BY DEF Sound, Typed
<1>a. pc[t] \in Active => /\ group[t] \in Tasks /\ group[t] # NoTask /\ state[t] = "live"
                          /\ groupMem[group[t]] = "live" /\ ~exiting[t]
  BY DEF Sound, Actors, Members
<1>b. code' \in {code, [code EXCEPT ![t] = groupCode[group[t]]]} /\ pc[t] \in Active
        => code' \in [Tasks -> Codes]
  BY <1>0, <1>a
<1>1. CASE VforkReturn(t)
  <2>1. pc[t] = "vfork" /\ child[t] \in Tasks
    BY <1>1 DEF VforkReturn, Sound, Newborn
  <2>2. CASE state[child[t]] = "freed"
    BY <1>0, <1>1, <2>1, <2>2 DEF VforkReturn, Fault
  <2>3. CASE state[child[t]] # "freed"
    <3>1. /\ vfork' = [vfork EXCEPT ![child[t]] = NoTask]
          /\ vforkDone' = [vforkDone EXCEPT ![t] = FALSE]
          /\ child' = [child EXCEPT ![t] = NoTask]
          /\ pc' = [pc EXCEPT ![t] = "guest"]
          /\ UNCHANGED <<state, taskVars, groupVars, memVars, adrift, handed, fault, halted>>
      BY <1>1, <2>3 DEF VforkReturn
    <3>2. vfork' \in [Tasks -> Tasks \cup {NoTask}] /\ vforkDone' \in [Tasks -> BOOLEAN]
      BY <1>0, <2>1, <3>1
    <3> QED BY <1>0, <2>1, <3>1, <3>2
  <2> QED BY <2>2, <2>3
<1>2. CASE GroupWaitDone(t)
  BY <1>0, <1>2 DEF GroupWaitDone
<1>3. CASE Killed(t)
  <2>1. /\ pc[t] \in {"guest", "wait", "asleep"} /\ code' = [code EXCEPT ![t] = groupCode[group[t]]]
        /\ pc' = [pc EXCEPT ![t] = "doexit"] /\ child' = [child EXCEPT ![t] = NoTask]
        /\ UNCHANGED <<state, parent, group, exiting, zombie, groupVars, memVars,
                       vforkVars, adrift, handed, fault, halted>>
    BY <1>a, <1>3 DEF Killed, GroupLive
  <2> QED BY <1>0, <1>b, <2>1
<1>4. CASE Abandoned(t)
  BY <1>a, <1>4 DEF Abandoned
<1>5. CASE Block(t)
  BY <1>0, <1>5 DEF Block, Runs
<1>6. CASE Unblock(t)
  <2>1. /\ pc[t] = "stuck" /\ code' \in {code, [code EXCEPT ![t] = groupCode[group[t]]]}
        /\ \E to \in {"doexit", "guest"} : pc' = [pc EXCEPT ![t] = to]
        /\ UNCHANGED <<state, child, parent, group, exiting, zombie, groupVars, memVars,
                       vforkVars, adrift, handed, fault, halted>>
    BY <1>a, <1>6 DEF Unblock
  <2> QED BY <1>0, <1>b, <2>1
<1>7. CASE DoExitLocked(t) /\ LockedFault(t) # "none"
  <2>1. pc[t] = "release" /\ Fault(t, LockedFault(t))
    BY <1>7 DEF DoExitLocked
  <2>2. LockedFault(t) \in Left
    BY <1>7, <2>1, ExitFinds
  <2> QED BY <1>0, <2>1, <2>2 DEF Fault
<1>8. ASSUME NEW x \in Codes, SysExit(t, x) PROVE Moved(t)
  BY <1>0, <1>8 DEF SysExit, Runs
<1>9. ASSUME NEW c \in Tasks \cup {NoTask}, WaitFor(t, c) PROVE Moved(t)
  BY <1>0, <1>9 DEF WaitFor, Runs
<1>10. CASE NoChild(t)
  <2>1. child[t] \in Tasks /\ Exists(child[t]) /\ child[t] \notin adrift => ~Dangles(child[t])
    BY Attached
  <2>2. pc[t] = "wait"
    BY <1>10 DEF NoChild
  <2>3. CASE child[t] # NoTask /\ Exists(child[t]) /\ Dangles(child[t])
    <3>1. Fault(t, "adrift")
      BY <1>0, <1>10, <2>1, <2>3 DEF NoChild
    <3> QED BY <1>0, <2>2, <3>1 DEF Fault
  <2>4. CASE ~(child[t] # NoTask /\ Exists(child[t]) /\ Dangles(child[t]))
    BY <1>0, <1>10, <2>2, <2>4 DEF NoChild
  <2> QED BY <2>3, <2>4
<1>11. CASE WaitSleep(t) \/ WaitTimeout(t)
  BY <1>0, <1>11 DEF WaitSleep, WaitTimeout
<1>12. CASE WaitInterrupted(t)
  BY <1>0, <1>12 DEF WaitInterrupted
<1> QED
  BY <1>1, <1>2, <1>3, <1>4, <1>5, <1>6, <1>7, <1>8, <1>9, <1>10, <1>11, <1>12 DEF Moves

LEMMA MoveSound == ASSUME Sound, NEW t \in Tasks, Moved(t) PROVE Sound'
<1> USE InitAssumption
<1>1. PICK to \in (Active \ (Making \cup {"vfork", "release"})) \cup {"over"} :
        pc' = [pc EXCEPT ![t] = to]
  BY DEF Moved
<1>2. PICK x \in Tasks \cup {NoTask} : child' = [child EXCEPT ![t] = x]
  BY DEF Moved
<1>3. /\ pc[t] \in Active \ Making
      /\ UNCHANGED <<state, parent, group, exiting, zombie, groupVars, memVars, adrift, handed,
                     halted>>
  BY DEF Moved
<1>4. \A u \in Tasks : /\ pc'[u] \in Making <=> pc[u] \in Making
                       /\ pc[u] \in Making => pc'[u] = pc[u] /\ child'[u] = child[u] /\ u # t
  BY <1>1, <1>2, <1>3 DEF Sound, Typed
<1> USE DEF groupVars, memVars
<1>5. Typed'
  <2>1. /\ pc' \in [Tasks -> Active \cup {"none", "cleanup", "over"}]
        /\ child' \in [Tasks -> Tasks \cup {NoTask}]
    BY <1>1, <1>2 DEF Sound, Typed
  <2>2. /\ code' \in [Tasks -> Codes] /\ fault' \subseteq Left
        /\ vfork' \in [Tasks -> Tasks \cup {NoTask}] /\ vforkDone' \in [Tasks -> BOOLEAN]
    BY DEF Moved
  <2> QED BY <1>3, <2>1, <2>2 DEF Sound, Typed
<1>6. Members' /\ Actors' /\ Leaders' /\ InitThere' /\ NoOrphan'
  BY <1>1, <1>3 DEF Sound, Typed, Members, Actors, Leaders, InitThere, NoOrphan, GroupLive, Exists
<1>7. Newborn'
  <2>1. ASSUME NEW u \in Tasks, pc'[u] \in Making PROVE Unborn(u)'
    <3>1. pc[u] \in Making /\ pc'[u] = pc[u] /\ child'[u] = child[u]
      BY <1>4, <2>1
    <3>2. Unborn(u) /\ child[u] \in Tasks /\ pc[child[u]] = "none" /\ child[u] # t
      BY <1>3, <3>1, ChildInHand DEF Sound, Newborn
    <3>3. pc'[child[u]] = "none"
      BY <1>1, <3>2 DEF Sound, Typed
    <3> QED BY <1>3, <3>1, <3>2, <3>3 DEF Unborn, Exists
  <2>2. ~halted' /\ state[t] = "live"
    BY <1>3 DEF Sound, Newborn, Actors, Members
  <2> QED BY <1>1, <1>2, <1>3, <1>4, <2>1, <2>2 DEF Sound, Typed, Newborn
<1>8. Strays'
  BY <1>3, <1>4 DEF Sound, Strays, Exists
<1> QED BY <1>5, <1>6, <1>7, <1>8 DEF Sound

-----------------------------------------------------------------------------
(* The other steps                                                         *)

\* The new task runs; it is in its group already.
LEMMA StartSound == ASSUME Sound, NEW t \in Tasks, TaskStart(t) PROVE Sound'
<1> SUFFICES ASSUME NEW c, c = child[t] PROVE Sound'
  OBVIOUS
<1> USE InitAssumption
<1>1. /\ pc[t] = "start" /\ c \in Tasks /\ c # t /\ ~halted /\ state[t] = "live"
      /\ pc[c] = "none" /\ t \in threads[group[t]] /\ group[t] \in Tasks
      /\ group[c] \in Tasks /\ c \in threads[group[c]]
  <2>1. pc[t] = "start"
    BY DEF TaskStart
  <2>2. group[c] \in {c, group[t]} /\ c \in threads[group[c]]
    BY <2>1 DEF Sound, Newborn, Unborn
  <2> QED BY <2>1, <2>2, ChildInHand
<1>2. state[c] = "live"
  BY <1>1 DEF Sound, Members
<1>3. PICK at \in {"guest", "doexit"}, to \in {"guest", "vfork"} :
        /\ pc' = [pc EXCEPT ![c] = at, ![t] = to]
        /\ child' = IF to = "vfork" THEN child ELSE [child EXCEPT ![t] = NoTask]
  BY DEF TaskStart, FirstLoop
<1>4. /\ code' = [code EXCEPT ![c] = groupCode[group[c]]]
      /\ UNCHANGED <<state, parent, group, exiting, zombie, groupVars, memVars, vforkVars,
                     adrift, handed, fault, halted>>
  BY DEF TaskStart
<1>5. \A u \in Tasks : /\ pc'[u] = IF u = t THEN to ELSE IF u = c THEN at ELSE pc[u]
                       /\ u # t => child'[u] = child[u]
  BY <1>1, <1>3 DEF Sound, Typed
<1>6. \A u \in Tasks : pc'[u] \in Making => u # t /\ u # c /\ pc[u] \in Making /\ pc'[u] = pc[u]
  BY <1>5
<1> USE DEF groupVars, memVars, vforkVars
<1>7. Typed'
  <2>1. pc' \in [Tasks -> Active \cup {"none", "cleanup", "over"}]
        /\ child' \in [Tasks -> Tasks \cup {NoTask}] /\ code' \in [Tasks -> Codes]
    BY <1>1, <1>3, <1>4 DEF Sound, Typed
  <2> QED BY <1>4, <2>1 DEF Sound, Typed
<1>8. Members' /\ Leaders' /\ InitThere' /\ NoOrphan'
  BY <1>4 DEF Sound, Typed, Members, Leaders, InitThere, NoOrphan, GroupLive, Exists
<1>9. Actors'
  BY <1>1, <1>4, <1>5 DEF Sound, Actors
<1>10. Newborn'
  <2>1. ASSUME NEW u \in Tasks, pc'[u] \in Making PROVE Unborn(u)'
    <3>1. pc[u] \in Making /\ pc'[u] = pc[u] /\ child'[u] = child[u] /\ u # t
      BY <1>5, <1>6, <2>1
    <3>2. Unborn(u) /\ child[u] \in Tasks /\ pc[child[u]] = "none" /\ child[u] # c
      BY <1>1, <3>1, ChildInHand DEF Sound, Newborn
    <3>3. pc'[child[u]] = "none"
      BY <1>1, <1>5, <3>2
    <3> QED BY <1>4, <3>1, <3>2, <3>3 DEF Unborn, Exists
  <2>2. \A u \in Tasks : pc'[u] = "vfork" => child'[u] \in Tasks
    BY <1>1, <1>3, <1>5 DEF Sound, Newborn
  <2>3. \A u \in Tasks : state'[u] \in {"free", "new"} => pc'[u] = "none" /\ ~exiting'[u]
    BY <1>1, <1>2, <1>4, <1>5 DEF Sound, Newborn
  <2>4. \A u, v \in Tasks :
          pc'[u] \in Making /\ pc'[v] \in Making /\ child'[u] = child'[v] => u = v
    BY <1>5, <1>6 DEF Sound, Newborn
  <2> QED BY <1>1, <1>4, <2>1, <2>2, <2>3, <2>4 DEF Newborn
<1>11. Strays'
  <2> SUFFICES ASSUME NEW u \in Tasks, Exists(u)
               PROVE  /\ group[u] \in Tasks
                      /\ group[u] # u /\ u \notin threads[group[u]] =>
                           /\ parent[u] \in Tasks /\ pc'[parent[u]] \in Making
                           /\ child'[parent[u]] = u
    BY <1>4 DEF Strays, Exists
  <2>1. group[u] \in Tasks /\ (group[u] # u /\ u \notin threads[group[u]] =>
          parent[u] \in Tasks /\ pc[parent[u]] \in Making /\ child[parent[u]] = u)
    BY <1>1 DEF Sound, Strays
  <2>2. u \notin threads[group[u]] /\ child[parent[u]] = u => parent[u] # t
    BY <1>1
  <2> QED BY <1>1, <1>5, <2>1, <2>2
<1> QED BY <1>7, <1>8, <1>9, <1>10, <1>11 DEF Sound

\* The next pid: the new task is its maker's child and in no group.
LEMMA CreateSound ==
    ASSUME Sound, NEW t \in Tasks, NEW c \in Tasks, TaskCreate(t, c)
    PROVE  Sound'
<1> USE InitAssumption
<1>1. /\ pc[t] = "guest" /\ state[c] = "free"
      /\ state' = [state EXCEPT ![c] = "new"] /\ parent' = [parent EXCEPT ![c] = t]
      /\ group' = [group EXCEPT ![c] = group[t]] /\ child' = [child EXCEPT ![t] = c]
      /\ pc' = [pc EXCEPT ![t] = "create"]
      /\ UNCHANGED <<exiting, zombie, code, groupVars, memVars, vforkVars, adrift, handed,
                     fault, halted>>
  BY DEF TaskCreate, Runs
<1>2. /\ group[t] \in Tasks /\ t \in threads[group[t]] /\ groupMem[group[t]] = "live"
      /\ state[t] = "live" /\ ~halted /\ t # c
  BY <1>1 DEF Sound, Actors, Members, Newborn
<1>3. /\ pc[c] = "none" /\ ~exiting[c] /\ (\A h \in Tasks : c \notin threads[h])
      /\ groupMem[c] # "live" /\ c # InitTask
  BY <1>1, <1>2 DEF Sound, Newborn, Members, Leaders, InitThere
<1>4. \A u \in Tasks : pc'[u] = IF u = t THEN "create" ELSE pc[u]
  BY <1>1 DEF Sound, Typed
<1>5. \A u \in Tasks \ {t} : child'[u] = child[u]
  BY <1>1 DEF Sound, Typed
<1>6. \A u \in Tasks \ {c} : state'[u] = state[u] /\ parent'[u] = parent[u] /\ group'[u] = group[u]
  BY <1>1 DEF Sound, Typed
<1>7. state'[c] = "new" /\ parent'[c] = t /\ group'[c] = group[t] /\ child'[t] = c
  BY <1>1, <1>2 DEF Sound, Typed
<1> USE DEF groupVars, memVars, vforkVars
<1>8. Typed'
  BY <1>1, <1>2 DEF Sound, Typed
<1>9. Members' /\ Actors'
  BY <1>1, <1>2, <1>3, <1>4, <1>6 DEF Sound, Members, Actors
<1>10. Leaders' /\ InitThere'
  BY <1>1, <1>3, <1>6, <1>7 DEF Sound, Leaders, InitThere
<1>11. Newborn'
  <2>1. Unborn(t)'
    BY <1>2, <1>3, <1>4, <1>6, <1>7 DEF Unborn
  <2>2. ASSUME NEW u \in Tasks \ {t}, pc'[u] \in Making PROVE Unborn(u)' /\ child[u] # c
    <3>1. pc[u] \in Making /\ pc'[u] = pc[u] /\ child'[u] = child[u]
      BY <1>4, <1>5, <2>2
    <3>2. Unborn(u) /\ child[u] \in Tasks /\ pc[child[u]] = "none" /\ child[u] # c
          /\ child[u] # t /\ u # c
      BY <1>1, <1>3, <3>1, ChildInHand DEF Sound, Newborn
    <3>3. /\ pc'[child[u]] = "none" /\ state'[child[u]] = state[child[u]]
          /\ parent'[child[u]] = parent[child[u]] /\ group'[child[u]] = group[child[u]]
          /\ group'[u] = group[u]
      BY <1>4, <1>6, <3>2
    <3> QED BY <1>1, <3>1, <3>2, <3>3 DEF Unborn, Exists
  <2>3. \A u \in Tasks : pc'[u] = "vfork" => child'[u] \in Tasks
    BY <1>4, <1>5 DEF Sound, Newborn
  <2>4. \A u \in Tasks : state'[u] \in {"free", "new"} => pc'[u] = "none" /\ ~exiting'[u]
    BY <1>1, <1>2, <1>3, <1>4, <1>6 DEF Sound, Newborn
  <2>5. \A u, v \in Tasks :
          pc'[u] \in Making /\ pc'[v] \in Making /\ child'[u] = child'[v] => u = v
    BY <1>4, <1>5, <1>7, <2>2 DEF Sound, Newborn
  <2> QED BY <1>1, <1>2, <2>1, <2>2, <2>3, <2>4, <2>5 DEF Newborn
<1>12. Strays'
  <2> SUFFICES ASSUME NEW u \in Tasks, state'[u] \in {"new", "live"}
               PROVE  /\ group'[u] \in Tasks
                      /\ group'[u] # u /\ u \notin threads[group'[u]] =>
                           /\ parent'[u] \in Tasks /\ pc'[parent'[u]] \in Making
                           /\ child'[parent'[u]] = u
    BY <1>1 DEF Strays, Exists
  <2>1. CASE u = c
    BY <1>2, <1>4, <1>7, <2>1
  <2>2. CASE u # c
    <3>1. group[u] \in Tasks /\ (group[u] # u /\ u \notin threads[group[u]] =>
            parent[u] \in Tasks /\ pc[parent[u]] \in Making /\ child[parent[u]] = u)
      BY <1>2, <1>6, <2>2 DEF Sound, Strays, Exists
    <3>2. pc[parent[u]] \in Making => parent[u] # t
      BY <1>1
    <3> QED BY <1>4, <1>5, <1>6, <2>2, <3>1, <3>2
  <2> QED BY <2>1, <2>2
<1>13. NoOrphan'
  <2> SUFFICES ASSUME NEW u \in Tasks \ ({InitTask} \cup adrift), state'[u] \in {"new", "live"}
               PROVE  \/ parent'[u] = InitTask
                      \/ \E h \in Tasks : groupMem[h] = "live" /\ parent'[u] \in threads[h]
    BY <1>1 DEF NoOrphan, GroupLive, Exists
  <2> QED BY <1>2, <1>6, <1>7 DEF Sound, NoOrphan, GroupLive, Exists
<1> QED BY <1>8, <1>9, <1>10, <1>11, <1>12, <1>13 DEF Sound

\* Steps that leave the tree of tasks and groups as it is and move t out of
\* no group.
LEMMA QuietSound ==
    ASSUME Sound, NEW t \in Tasks, Typed', pc[t] \notin Making \cup {"none"},
           pc'[t] \in Active => pc[t] \in Active, pc'[t] \notin Making \cup {"vfork"},
           pc[t] # "over", \A u \in Tasks \ {t} : pc'[u] = pc[u],
           UNCHANGED <<state, child, parent, group, exiting, zombie, groupMem, threads,
                       adrift, halted>>
    PROVE  Sound'
<1> USE InitAssumption
<1>1. Members' /\ Actors' /\ Leaders' /\ InitThere' /\ NoOrphan'
  BY DEF Sound, Members, Actors, Leaders, InitThere, NoOrphan, GroupLive, Exists
<1>2. Newborn'
  <2>1. ASSUME NEW u \in Tasks, pc'[u] \in Making PROVE Unborn(u)'
    <3>1. pc[u] \in Making /\ pc'[u] = pc[u]
      BY <2>1
    <3>2. Unborn(u) /\ child[u] \in Tasks /\ pc[child[u]] = "none" /\ child[u] # t
      BY <3>1, ChildInHand DEF Sound, Newborn
    <3> QED BY <3>1, <3>2 DEF Unborn, Exists
  <2>2. ~halted /\ state[t] \notin {"free", "new"}
    BY DEF Sound, Newborn
  <2> QED BY <2>1, <2>2 DEF Sound, Newborn
<1>3. Strays'
  BY DEF Sound, Strays, Exists
<1> QED BY <1>1, <1>2, <1>3 DEF Sound

\* The whole program ends with pid 1.
LEMMA HaltSound == ASSUME Sound, NEW t \in Tasks, Halt(t) PROVE Sound'
<1> USE InitAssumption DEF Halt, taskVars, groupVars, memVars, vforkVars
<1>1. Typed'
  BY DEF Sound, Typed
<1>2. Members' /\ Actors' /\ Leaders' /\ InitThere' /\ NoOrphan'
  BY DEF Sound, Members, Actors, Leaders, InitThere, NoOrphan, GroupLive, Exists
<1>3. Newborn' /\ Strays'
  BY DEF Sound, Newborn, Strays, Exists
<1> QED BY <1>1, <1>2, <1>3 DEF Sound

\* Each step keeps the task tree sound.
LEMMA SoundStep == ValveFires = FALSE /\ Sound /\ [Next]_vars => Sound'
<1> SUFFICES ASSUME ValveFires = FALSE, Sound, [Next]_vars PROVE Sound'
  OBVIOUS
<1> USE InitAssumption
<1>1. CASE UNCHANGED vars
  BY <1>1 DEF vars, Sound, Typed, Members, Actors, Leaders, Newborn, Unborn, Strays, InitThere,
     NoOrphan, GroupLive, Exists, taskVars, groupVars, memVars, vforkVars
<1>2. ASSUME NEW t \in Tasks, Step(t) \/ Guest(t) PROVE Sound'
  <2>1. CASE Moves(t)
    BY <2>1, MoveStep, MoveSound
  <2>2. CASE (\E k \in Kinds : CopyMm(t, k)) \/ CopyGroup(t) \/ CopyFails(t)
    BY <2>2, CopyMmSound, CopyGroupSound, CopyFailsSound
  <2>3. CASE UnlinkGroup(t) \/ Unmake(t) \/ TaskStart(t) \/ Halt(t)
    BY <2>3, UnlinkSound, UnmakeSound, StartSound, HaltSound
  <2>4. CASE DoExit(t)
    <3>1. pc[t] = "doexit" /\ ~exiting[t]
      BY <2>4 DEF DoExit, Sound, Members, Actors
    <3>2. /\ pc' = [pc EXCEPT ![t] = "release"] /\ ReleaseMm(t)
          /\ UNCHANGED <<state, child, taskVars, groupVars, vforkVars, adrift, handed, fault,
                         halted>>
      BY <3>1, <2>4 DEF DoExit
    <3> USE DEF taskVars, groupVars, vforkVars
    <3>3. Typed'
      BY <3>2, ReleaseTyped DEF Sound, Typed
    <3>4. pc'[t] = "release" /\ \A u \in Tasks \ {t} : pc'[u] = pc[u]
      BY <3>2 DEF Sound, Typed
    <3> QED BY <3>1, <3>2, <3>3, <3>4, QuietSound
  <2>5. CASE DoExitLocked(t) /\ LockedFault(t) = "none"
    BY <2>5, ExitSound
  <2>6. CASE Cleanup(t)
    <3>1. ~deferred[t]
      BY DEF Sound, Typed
    <3>2. /\ pc[t] = "cleanup" /\ pc' = [pc EXCEPT ![t] = "over"]
          /\ fault' \in {fault, fault \cup {"task"}}
          /\ UNCHANGED <<state, child, taskVars, groupVars, memVars, vforkVars, adrift, handed,
                         halted>>
      BY <2>6, <3>1 DEF Cleanup, Fault
    <3> USE DEF taskVars, groupVars, memVars, vforkVars
    <3>3. Typed'
      BY <3>2 DEF Sound, Typed
    <3>4. pc'[t] = "over" /\ \A u \in Tasks \ {t} : pc'[u] = pc[u]
      BY <3>2 DEF Sound, Typed
    <3> QED BY <3>2, <3>3, <3>4, QuietSound
  <2>7. ASSUME NEW c \in Tasks, Reap(t, c) \/ TaskCreate(t, c) PROVE Sound'
    BY <2>7, ReapSound, CreateSound
  <2>8. CASE Exec(t) \/ Ignore(t)
    <3>1. /\ pc[t] = "guest"
          /\ UNCHANGED <<state, pc, child, parent, group, exiting, zombie, groupMem, threads,
                         adrift, halted>>
      BY <2>8 DEF Exec, Ignore, Runs, taskVars, groupVars
    <3>2. CASE Exec(t)
      <4>1. mm[t] \in Tasks /\ mm' = [mm EXCEPT ![t] = t] /\ VforkNotify(t)
            /\ mmRefs' = [mmRefs EXCEPT ![mm[t]] = @ - 1, ![t] = 1]
            /\ UNCHANGED <<code, doing, groupCode, ignores, sigchld, deferred, vfork, handed, fault>>
        BY <3>2 DEF Exec, Sound, Typed, taskVars, groupVars
      <4>2. mmRefs[mm[t]] - 1 \in Int
        BY <4>1 DEF Sound, Typed
      <4>3. mmRefs' \in [Tasks -> Int] /\ vforkDone' \in [Tasks -> BOOLEAN]
        BY <4>1, <4>2 DEF Sound, Typed, VforkNotify
      <4>4. Typed'
        BY <3>1, <4>1, <4>3 DEF Sound, Typed
      <4> QED BY <3>1, <4>4, QuietSound
    <3>3. CASE Ignore(t)
      <4>2. /\ ignores' \in [Tasks -> BOOLEAN]
            /\ UNCHANGED <<code, doing, groupCode, sigchld, memVars, vforkVars, handed, fault>>
        BY <3>3 DEF Ignore, Sound, Typed, taskVars
      <4>1. Typed'
        BY <3>1, <4>2 DEF Sound, Typed, memVars, vforkVars
      <4> QED BY <3>1, <4>1, QuietSound
    <3> QED BY <2>8, <3>2, <3>3
  <2>9. ASSUME NEW x \in Codes, DoExitGroup(t, x) PROVE Sound'
    <3>1. /\ pc[t] = "guest" /\ \E to \in {"groupwait", "doexit"} : pc' = [pc EXCEPT ![t] = to]
          /\ UNCHANGED <<state, child, parent, group, exiting, zombie, groupMem, threads,
                         ignores, sigchld, memVars, vforkVars, adrift, handed, fault, halted>>
      BY <2>9 DEF DoExitGroup, Runs
    <3>2. group[t] \in Tasks
      BY <3>1 DEF Sound, Actors
    <3>3. doing' \in [Tasks -> BOOLEAN] /\ groupCode' \in [Tasks -> Codes] /\ code' \in [Tasks -> Codes]
      BY <2>9, <3>2 DEF DoExitGroup, Sound, Typed
    <3>6. pc' \in [Tasks -> Active \cup {"none", "cleanup", "over"}]
      BY <3>1 DEF Sound, Typed
    <3>4. Typed'
      <4> HIDE <2>9
      <4> QED BY <3>1, <3>3, <3>6 DEF Sound, Typed, memVars, vforkVars
    <3>5. pc'[t] \in {"groupwait", "doexit"} /\ \A u \in Tasks \ {t} : pc'[u] = pc[u]
      BY <3>1 DEF Sound, Typed
    <3> QED BY <3>1, <3>4, <3>5, QuietSound
  <2>10. CASE SafetyValve(t)
    BY <2>10 DEF SafetyValve
  <2> QED
    BY <1>2, <2>1, <2>2, <2>3, <2>4, <2>5, <2>6, <2>7, <2>8, <2>9, <2>10 DEF Step, Guest, Moves
<1> QED
  BY <1>1, <1>2 DEF Next

-----------------------------------------------------------------------------
(* References to address spaces                                            *)

\* Who holds a reference is in its group and has not begun to leave, or is
\* being made, or went down with the whole program.
Holds(t) ==
    \/ group[t] \in Tasks /\ t \in threads[group[t]] /\ pc[t] # "release"
    \/ /\ state[t] = "new" /\ parent[t] \in Tasks
       /\ pc[parent[t]] = "copied" /\ child[parent[t]] = t
    \/ halted

Holders == \A t \in Tasks : mm[t] # NoTask => Holds(t)

\* An address space in use was made for a task that uses it or no other.
Owned == \A t, u \in Tasks : mm[u] = t =>
    state[t] # "free" /\ mm[t] \in {t, NoTask} /\ (state[t] = "new" => u = t)

Counted == Holders /\ Owned /\ MmRefsExact

LEMMA CountedInit == Init => Counted
<1> SUFFICES ASSUME Init PROVE Counted
  OBVIOUS
<1> USE InitAssumption
<1>1. Holders /\ Owned
  BY DEF Init, Holders, Holds, Owned
<1>2. ASSUME NEW m \in Tasks PROVE mmRefs[m] = Cardinality({t \in Tasks : mm[t] = m})
  <2>1. CASE m = InitTask
    <3>1. {t \in Tasks : mm[t] = m} = {InitTask}
      BY <2>1 DEF Init
    <3> QED BY <2>1, <3>1, FS_Singleton DEF Init
  <2>2. CASE m # InitTask
    <3>1. {t \in Tasks : mm[t] = m} = {}
      BY <2>2 DEF Init
    <3> QED BY <2>2, <3>1, FS_EmptySet DEF Init
  <2> QED BY <2>1, <2>2
<1> QED BY <1>1, <1>2 DEF Counted, MmRefsExact

Users(f, m) == {t \in Tasks : f[t] = m}

\* When c goes from one address space to another, the one has a user less and
\* the other a user more.
LEMMA MoveUser ==
    ASSUME mm \in [Tasks -> Tasks \cup {NoTask}], NEW c \in Tasks,
           NEW m \in Tasks \cup {NoTask}, mm[c] # m, mm' = [mm EXCEPT ![c] = m]
    PROVE  /\ Cardinality(Users(mm', m)) = Cardinality(Users(mm, m)) + 1
           /\ Cardinality(Users(mm', mm[c])) = Cardinality(Users(mm, mm[c])) - 1
           /\ \A x : x # m /\ x # mm[c] => Users(mm', x) = Users(mm, x)
<1>1. IsFiniteSet(Users(mm, m)) /\ IsFiniteSet(Users(mm', mm[c]))
  BY TasksAssumption, FS_Subset DEF Users
<1>2. c \notin Users(mm, m) /\ c \notin Users(mm', mm[c])
  BY DEF Users
<1>3. Users(mm', m) = Users(mm, m) \cup {c}
  BY DEF Users
<1>4. Users(mm, mm[c]) = Users(mm', mm[c]) \cup {c}
  BY DEF Users
<1>5. Cardinality(Users(mm', m)) = Cardinality(Users(mm, m)) + 1
  BY <1>1, <1>2, <1>3, FS_AddElement
<1>6. Cardinality(Users(mm, mm[c])) = Cardinality(Users(mm', mm[c])) + 1
  BY <1>1, <1>2, <1>4, FS_AddElement
<1>7. Cardinality(Users(mm', mm[c])) \in Nat
  BY <1>1, FS_CardinalityType
<1>8. \A x : x # m /\ x # mm[c] => Users(mm', x) = Users(mm, x)
  BY DEF Users
<1>9. Cardinality(Users(mm', mm[c])) = Cardinality(Users(mm, mm[c])) - 1
  BY <1>6, <1>7
<1> QED BY <1>5, <1>8, <1>9

LEMMA ExactUsers ==
    /\ MmRefsExact <=> \A m \in Tasks : mmRefs[m] = Cardinality(Users(mm, m))
    /\ MmRefsExact' <=> \A m \in Tasks : mmRefs'[m] = Cardinality(Users(mm', m))
BY DEF MmRefsExact, Users


\* A task without an address space gets one: CLONE_VM shares, fork copies.
LEMMA CopyMmCounted ==
    ASSUME Sound, Counted, NEW t \in Tasks, NEW k \in Kinds, CopyMm(t, k)
    PROVE  Counted'
<1> SUFFICES ASSUME NEW c, c = child[t], NEW m, m = IF k = "fork" THEN c ELSE mm[t]
             PROVE  Counted'
  OBVIOUS
<1> USE InitAssumption
<1>1. /\ pc[t] = "create" /\ mm' = [mm EXCEPT ![c] = m] /\ mmRefs' = [mmRefs EXCEPT ![m] = @ + 1]
      /\ pc' = [pc EXCEPT ![t] = "copied"]
      /\ UNCHANGED <<state, child, parent, group, threads, halted>>
  BY CopyMmEffect DEF Retain, taskVars, groupVars
<1>2. /\ c \in Tasks /\ c # t /\ parent[c] = t /\ state[c] = "new" /\ state[t] = "live"
      /\ ~halted /\ pc[c] = "none" /\ \A h \in Tasks : c \notin threads[h]
  BY <1>1, ChildInHand DEF Sound, Newborn, Unborn, Members
<1>3. mm[c] = NoTask
  BY <1>1, <1>2 DEF Counted, Holders, Holds
<1>4. m \in Tasks \cup {NoTask}
  BY <1>2 DEF Sound, Typed
<1>5. \A u \in Tasks : mm'[u] = IF u = c THEN m ELSE mm[u]
  BY <1>1 DEF Sound, Typed
<1>6. \A u \in Tasks : pc'[u] = IF u = t THEN "copied" ELSE pc[u]
  BY <1>1 DEF Sound, Typed
<1>7. Holders'
  <2> SUFFICES ASSUME NEW u \in Tasks, mm'[u] # NoTask PROVE Holds(u)'
    BY DEF Holders
  <2>1. CASE u = c
    BY <1>1, <1>2, <1>6, <2>1 DEF Holds
  <2>2. CASE u # c
    <3>1. Holds(u)
      BY <1>5, <2>2 DEF Counted, Holders
    <3> QED BY <1>1, <1>2, <1>6, <3>1 DEF Holds
  <2> QED BY <2>1, <2>2
<1>8. Owned'
  <2>1. \A u \in Tasks : mm[u] # c
    BY <1>2, <1>3 DEF Counted, Owned
  <2>2. m # c /\ m # NoTask => state[m] \notin {"free", "new"} /\ mm[m] \in {m, NoTask}
    BY <1>2 DEF Counted, Owned, Sound, Typed
  <2> QED BY <1>1, <1>2, <1>5, <2>1, <2>2 DEF Counted, Owned
<1>9. MmRefsExact'
  <2>1. CASE m = NoTask
    <3>1. mm' = mm /\ mmRefs' = mmRefs
      BY <1>1, <1>3, <2>1 DEF Sound, Typed
    <3> QED BY <3>1 DEF Counted, MmRefsExact
  <2>2. CASE m # NoTask
    <3>1. m \in Tasks /\ \A x \in Tasks : mmRefs'[x] = IF x = m THEN mmRefs[m] + 1 ELSE mmRefs[x]
      BY <1>1, <1>4, <2>2 DEF Sound, Typed
    <3>2. /\ Cardinality(Users(mm', m)) = Cardinality(Users(mm, m)) + 1
          /\ \A x : x # m /\ x # NoTask => Users(mm', x) = Users(mm, x)
      <4>1. /\ mm \in [Tasks -> Tasks \cup {NoTask}] /\ mm[c] # m
            /\ m \in Tasks \cup {NoTask}
        BY <1>3, <1>4, <2>2 DEF Sound, Typed
      <4>2. c \in Tasks /\ mm' = [mm EXCEPT ![c] = m]
        BY <1>1, <1>2
      <4>3. /\ Cardinality(Users(mm', m)) = Cardinality(Users(mm, m)) + 1
            /\ \A x : x # m /\ x # mm[c] => Users(mm', x) = Users(mm, x)
        BY <4>1, <4>2, MoveUser
      <4> QED BY <1>3, <4>3
    <3> QED BY <3>1, <3>2, ExactUsers DEF Counted
  <2> QED BY <2>1, <2>2
<1> QED BY <1>7, <1>8, <1>9 DEF Counted

\* From then on it is in a group.
LEMMA CopyGroupCounted ==
    ASSUME Sound, Counted, NEW t \in Tasks, CopyGroup(t)
    PROVE  Counted'
<1> SUFFICES ASSUME NEW c, c = child[t] PROVE Counted'
  OBVIOUS
<1> USE InitAssumption
<1>1. PICK g \in {c, group[t]} :
        /\ group' = [group EXCEPT ![c] = g]
        /\ threads' = [threads EXCEPT ![g] = @ \cup {c}]
  BY CopyGroupEffect
<1>2. /\ pc[t] = "copied" /\ pc' = [pc EXCEPT ![t] = "start"] /\ state' = [state EXCEPT ![c] = "live"]
      /\ UNCHANGED <<child, parent, mm, mmRefs, halted>>
  BY CopyGroupEffect DEF memVars
<1>3. c \in Tasks /\ c # t /\ group[t] \in Tasks /\ pc[c] = "none"
  BY <1>2, ChildInHand
<1>4. Holders'
  <2> SUFFICES ASSUME NEW u \in Tasks, mm[u] # NoTask PROVE Holds(u)'
    BY <1>2 DEF Holders
  <2>1. CASE u = c
    BY <1>1, <1>2, <1>3, <2>1 DEF Holds, Sound, Typed
  <2>2. CASE u # c
    <3>1. Holds(u)
      BY DEF Counted, Holders
    <3>2. group'[u] = group[u] /\ state'[u] = state[u]
      BY <1>1, <1>2, <2>2 DEF Sound, Typed
    <3>3. \A h \in Tasks : u \in threads[h] => u \in threads'[h]
      BY <1>1, <1>3 DEF Sound, Typed
    <3>4. \A v \in Tasks : v # t => pc'[v] = pc[v]
      BY <1>2 DEF Sound, Typed
    <3>5. pc'[t] = "start"
      BY <1>2 DEF Sound, Typed
    <3> QED BY <1>2, <2>2, <3>1, <3>2, <3>3, <3>4, <3>5 DEF Holds
  <2> QED BY <2>1, <2>2
<1>5. Owned'
  <2>1. \A x \in Tasks : /\ state'[x] = "new" => state[x] = "new"
                         /\ state[x] # "free" => state'[x] # "free"
    BY <1>2, <1>3 DEF Sound, Typed
  <2> QED BY <1>2, <2>1 DEF Counted, Owned
<1> QED BY <1>2, <1>4, <1>5 DEF Counted, MmRefsExact

\* exec leaves the address space of the vfork parent for one of its own.
LEMMA ExecCounted ==
    ASSUME Sound, Counted, NEW t \in Tasks, Exec(t)
    PROVE  Counted'
<1> SUFFICES ASSUME NEW m, m = mm[t] PROVE Counted'
  OBVIOUS
<1> USE InitAssumption
<1>1. /\ m \in Tasks /\ m # t /\ mm' = [mm EXCEPT ![t] = t]
      /\ mmRefs' = [mmRefs EXCEPT ![m] = @ - 1, ![t] = 1]
      /\ UNCHANGED <<state, pc, child, parent, group, threads, halted>>
  BY DEF Exec, Sound, Typed, taskVars, groupVars
<1>2. \A u \in Tasks : mm[u] # t
  BY <1>1 DEF Counted, Owned
<1>3. state[t] = "live"
  BY DEF Exec, Runs, Sound, Actors, Members
<1>6. \A u \in Tasks : mm'[u] = IF u = t THEN t ELSE mm[u]
  BY <1>1 DEF Sound, Typed
<1>7. Holders'
  BY <1>1, <1>6 DEF Counted, Holders, Holds
<1>4. Owned'
  BY <1>1, <1>2, <1>3, <1>6 DEF Counted, Owned
<1>5. MmRefsExact'
  <2>1. \A x \in Tasks : mmRefs'[x] = IF x = t THEN 1 ELSE IF x = m THEN mmRefs[m] - 1 ELSE mmRefs[x]
    BY <1>1 DEF Sound, Typed
  <2>2. Users(mm, t) = {}
    BY <1>2 DEF Users
  <2>3. Cardinality(Users(mm, t)) = 0
    BY <2>2, FS_EmptySet
  <2>4. /\ Cardinality(Users(mm', t)) = Cardinality(Users(mm, t)) + 1
        /\ Cardinality(Users(mm', m)) = Cardinality(Users(mm, m)) - 1
        /\ \A x : x # t /\ x # m => Users(mm', x) = Users(mm, x)
    <3>1. /\ mm \in [Tasks -> Tasks \cup {NoTask}] /\ mm[t] # t
          /\ t \in Tasks \cup {NoTask}
      BY <1>1 DEF Sound, Typed
    <3> QED BY <1>1, <3>1, MoveUser
  <2>5. ASSUME NEW x \in Tasks PROVE mmRefs'[x] = Cardinality(Users(mm', x))
    <3>1. mmRefs[x] = Cardinality(Users(mm, x))
      BY ExactUsers DEF Counted
    <3>2. CASE x = t
      BY <2>1, <2>3, <2>4, <3>2
    <3>3. CASE x # t /\ x = m
      BY <2>1, <2>4, <3>1, <3>3
    <3>4. CASE x # t /\ x # m
      BY <2>1, <2>4, <3>1, <3>4
    <3> QED BY <3>2, <3>3, <3>4
  <2> QED BY <2>5, ExactUsers
<1> QED BY <1>4, <1>5, <1>7 DEF Counted


\* mm_release of the reference that u holds.
LEMMA ReleaseCounted ==
    ASSUME Sound, Counted, NEW u \in Tasks, ReleaseMm(u)
    PROVE  MmRefsExact' /\ \A v \in Tasks : mm'[v] = IF v = u THEN NoTask ELSE mm[v]
<1> SUFFICES ASSUME NEW m, m = mm[u]
             PROVE  MmRefsExact' /\ \A v \in Tasks : mm'[v] = IF v = u THEN NoTask ELSE mm[v]
  OBVIOUS
<1> USE InitAssumption
<1>1. /\ mm' = [mm EXCEPT ![u] = NoTask]
      /\ mmRefs' = IF m = NoTask THEN mmRefs ELSE [mmRefs EXCEPT ![m] = @ - 1]
  BY DEF ReleaseMm
<1>2. \A v \in Tasks : mm'[v] = IF v = u THEN NoTask ELSE mm[v]
  BY <1>1 DEF Sound, Typed
<1>3. CASE m = NoTask
  <2>2. \A v \in Tasks : mm'[v] = mm[v]
    BY <1>2, <1>3
  <2>1. mm' = mm /\ mmRefs' = mmRefs
    BY <1>1, <1>3, <2>2 DEF Sound, Typed
  <2> QED BY <1>2, <2>1 DEF Counted, MmRefsExact
<1>4. CASE m # NoTask
  <2>1. m \in Tasks /\ \A x \in Tasks : mmRefs'[x] = IF x = m THEN mmRefs[m] - 1 ELSE mmRefs[x]
    BY <1>1, <1>4 DEF Sound, Typed
  <2>2. /\ Cardinality(Users(mm', m)) = Cardinality(Users(mm, m)) - 1
        /\ \A x : x # NoTask /\ x # m => Users(mm', x) = Users(mm, x)
    <3>1. /\ mm \in [Tasks -> Tasks \cup {NoTask}] /\ mm[u] # NoTask
          /\ NoTask \in Tasks \cup {NoTask}
      BY <1>4 DEF Sound, Typed
    <3> QED BY <1>1, <3>1, MoveUser
  <2> QED BY <1>2, <2>1, <2>2, ExactUsers DEF Counted
<1> QED BY <1>3, <1>4

\* The first half of do_exit gives the reference back, a clone that fails that
\* of the child.
LEMMA GiveBackCounted ==
    ASSUME Sound, Counted, NEW t \in Tasks, DoExit(t) \/ CopyFails(t) \/ UnlinkGroup(t)
    PROVE  Counted'
<1> USE InitAssumption
<1>1. CASE DoExit(t)
  <2>1. /\ pc[t] = "doexit" /\ pc' = [pc EXCEPT ![t] = "release"] /\ ReleaseMm(t)
        /\ UNCHANGED <<state, child, parent, group, threads, halted>>
    BY <1>1 DEF DoExit, Sound, Members, Actors, taskVars, groupVars
  <2>2. MmRefsExact' /\ \A v \in Tasks : mm'[v] = IF v = t THEN NoTask ELSE mm[v]
    BY <2>1, ReleaseCounted
  <2>3. \A v \in Tasks : v # t => pc'[v] = pc[v]
    BY <2>1 DEF Sound, Typed
  <2>4. Holders'
    BY <2>1, <2>2, <2>3 DEF Counted, Holders, Holds
  <2>5. Owned'
    BY <2>1, <2>2 DEF Counted, Owned
  <2> QED BY <2>2, <2>4, <2>5 DEF Counted
<1>2. CASE CopyFails(t)
  <2>1. /\ pc[t] \in {"create", "copied"} /\ pc' = [pc EXCEPT ![t] = "unmade"]
        /\ ReleaseMm(child[t])
        /\ UNCHANGED <<state, child, parent, group, threads, halted>>
    BY <1>2 DEF CopyFails, taskVars, groupVars
  <2>c. child[t] \in Tasks
    BY <2>1, ChildInHand
  <2>2. MmRefsExact' /\ \A v \in Tasks : mm'[v] = IF v = child[t] THEN NoTask ELSE mm[v]
    BY <2>1, <2>c, ReleaseCounted
  <2>3. (\A v \in Tasks : v # t => pc'[v] = pc[v]) /\ pc'[t] = "unmade"
    BY <2>1 DEF Sound, Typed
  <2>4. Holders'
    BY <2>1, <2>2, <2>3 DEF Counted, Holders, Holds
  <2>5. Owned'
    BY <2>1, <2>2 DEF Counted, Owned
  <2> QED BY <2>2, <2>4, <2>5 DEF Counted
<1>3. CASE UnlinkGroup(t)
  <2> SUFFICES ASSUME NEW c, c = child[t] PROVE Counted'
    OBVIOUS
  <2>1. /\ pc[t] = "start" /\ pc' = [pc EXCEPT ![t] = "unmade"]
        /\ group' = [group EXCEPT ![c] = group[t]] /\ Unlinked(c, group[c])
        /\ ReleaseMm(c) /\ UNCHANGED <<state, child, parent, halted>>
    BY <1>3, UnlinkEffect
  <2>c. c \in Tasks
    BY <2>1, ChildInHand
  <2>2. MmRefsExact' /\ \A v \in Tasks : mm'[v] = IF v = c THEN NoTask ELSE mm[v]
    BY <2>1, <2>c, ReleaseCounted
  <2>3. (\A v \in Tasks : v # t => pc'[v] = pc[v]) /\ pc'[t] = "unmade"
    BY <2>1 DEF Sound, Typed
  <2>4. \A v \in Tasks : v # c => group'[v] = group[v]
    BY <2>1 DEF Sound, Typed
  <2>5. \A v, h \in Tasks : v # c /\ v \in threads[h] => v \in threads'[h]
    BY <2>1 DEF Unlinked, Sound, Typed
  <2>6. Holders'
    BY <2>1, <2>2, <2>3, <2>4, <2>5 DEF Counted, Holders, Holds
  <2>7. Owned'
    BY <2>1, <2>2 DEF Counted, Owned
  <2> QED BY <2>2, <2>6, <2>7 DEF Counted
<1> QED BY <1>1, <1>2, <1>3

\* What is destroyed held nothing any more.
LEMMA GoneCounted ==
    ASSUME Sound, Counted, NEW gone, \A u \in gone \cap Tasks : mm[u] = NoTask,
           mm' = [u \in Tasks |-> IF u \in gone THEN NoTask ELSE mm[u]] \/ mm' = mm,
           mmRefs' = mmRefs,
           \A u \in Tasks : /\ state'[u] \in {"free", "new"} => state'[u] = state[u]
                            /\ mm[u] # NoTask => Holds(u)'
    PROVE  Counted'
<1> USE InitAssumption
<1>1. mm' = mm
  BY DEF Sound, Typed
<1>2. Holders' /\ Owned'
  BY <1>1 DEF Counted, Holders, Owned
<1> QED BY <1>1, <1>2 DEF Counted, MmRefsExact

LEMMA ExitCounted ==
    ASSUME Sound, Counted, NEW t \in Tasks, DoExitLocked(t), LockedFault(t) = "none"
    PROVE  Counted'
<1> USE InitAssumption
<1> SUFFICES ASSUME NEW g, g = group[t] PROVE Counted'
  OBVIOUS
<1>0. pc[t] = "release" /\ ~InitEnds(t)
  BY DEF DoExitLocked
<1>1. /\ g \in Tasks /\ t \in threads[g] /\ group[g] = g /\ state[t] = "live"
      /\ state[g] = "live" /\ ~halted
  BY <1>0, ExitFinds
<1>2. PICK p \in NewParents(t) : ExitLocked(t, p)
  BY DEF DoExitLocked
<1>4. PICK gone \in SUBSET {t, g}, last \in BOOLEAN : Leaves(t, g, p, gone, last)
  BY <1>0, <1>1, <1>2, ExitEffect
<1>5. /\ gone \subseteq {t, g} /\ (g \in gone => threads[g] = {t}) /\ (t # g => t \in gone)
  BY <1>4 DEF Leaves
<1>6. \A u \in gone \cup {t} : mm[u] = NoTask
  BY <1>0, <1>1, <1>5 DEF Counted, Holders, Holds
<1>7. /\ mm' = [u \in Tasks |-> IF u \in gone THEN NoTask ELSE mm[u]] /\ mmRefs' = mmRefs
      /\ UNCHANGED <<child, halted>>
      /\ \A u \in Tasks : state'[u] \in {"free", "new", "live"} => state'[u] = state[u]
      /\ \A u \in Tasks : u \notin gone /\ state[u] # "destroyed" => state'[u] = state[u]
      /\ \A u \in Tasks \ {t} : pc'[u] = pc[u] \/ (pc[u] = "asleep" /\ pc'[u] = "wait")
  BY <1>4 DEF Leaves
<1>8. /\ \A u \in Tasks \ gone : group'[u] = group[u]
      /\ \A h \in Tasks, u \in Tasks \ {t} : u \in threads[h] => u \in threads'[h]
      /\ \A u \in Tasks \ (gone \cup {g} \cup Children(t)) : parent'[u] = parent[u]
  BY <1>1, <1>4 DEF Leaves, Sound, Typed
<1>9. ASSUME NEW u \in Tasks, mm[u] # NoTask PROVE Holds(u)'
  <2>1. u \notin gone /\ u # t /\ Holds(u)
    BY <1>6, <1>9 DEF Counted, Holders
  <2>2. CASE group[u] \in Tasks /\ u \in threads[group[u]] /\ pc[u] # "release"
    BY <1>7, <1>8, <2>1, <2>2 DEF Holds
  <2>3. CASE state[u] = "new" /\ parent[u] \in Tasks /\ pc[parent[u]] = "copied"
              /\ child[parent[u]] = u
    <3>1. parent[u] # t /\ u # g /\ u \notin Children(t)
      BY <1>0, <1>1, <2>3 DEF Children
    <3> QED BY <1>7, <1>8, <2>1, <2>3, <3>1 DEF Holds
  <2> QED BY <1>1, <2>1, <2>2, <2>3 DEF Holds
<1> QED BY <1>6, <1>7, <1>9, GoneCounted

LEMMA DestroyCounted ==
    ASSUME Sound, Counted, NEW t \in Tasks, NEW c \in Tasks, Reap(t, c) \/ (Unmake(t) /\ c = child[t])
    PROVE  Counted'
<1> USE InitAssumption
<1>1. /\ state' = Flush(state, c) /\ group' = Zero(group, {c}, NoTask) /\ parent' = Zero(parent, {c}, NoTask)
      /\ pc[t] \in {"wait", "unmade"} /\ pc' = [pc EXCEPT ![t] = "guest"]
      /\ child' = [child EXCEPT ![t] = NoTask] /\ UNCHANGED <<threads, mmRefs, halted>>
      /\ mm' = [u \in Tasks |-> IF u \in {c} THEN NoTask ELSE mm[u]] \/ mm' = mm
  <2>1. CASE Reap(t, c)
    BY <2>1 DEF Reap, Reaped, Zero
  <2>2. CASE Unmake(t) /\ c = child[t]
    BY <2>2, UnmakeEffect DEF memVars, groupVars
  <2> QED BY <2>1, <2>2
<1>2. mm[c] = NoTask
  <2>1. CASE Reap(t, c)
    <3>1. (\A h \in Tasks : c \notin threads[h]) /\ state[c] = "live" /\ ~halted
      BY <2>1 DEF Reap, Sound, Typed, Members, Leaders, Newborn
    <3> QED BY <3>1 DEF Counted, Holders, Holds
  <2>2. CASE Unmake(t) /\ c = child[t]
    <3>1. pc[t] = "unmade"
      BY <2>2 DEF Unmake
    <3>2. parent[c] = t /\ ~halted /\ group[c] = group[t] /\ c \notin threads[group[t]]
      BY <2>2, <3>1, ChildInHand DEF Sound, Newborn, Unborn
    <3> QED BY <3>1, <3>2 DEF Counted, Holders, Holds
  <2> QED BY <2>1, <2>2
<1>3. \A u \in Tasks : /\ u # c /\ state[u] # "destroyed" => state'[u] = state[u]
                       /\ state'[u] \in {"free", "new", "live"} => state'[u] = state[u]
  BY <1>1 DEF Flush
<1>4. \A u \in Tasks \ {c} : group'[u] = group[u] /\ parent'[u] = parent[u]
  BY <1>1 DEF Zero
<1>5. \A u \in Tasks \ {t} : pc'[u] = pc[u] /\ child'[u] = child[u]
  BY <1>1 DEF Sound, Typed
<1>6. pc'[t] = "guest"
  BY <1>1 DEF Sound, Typed
<1>7. ASSUME NEW u \in Tasks, mm[u] # NoTask PROVE Holds(u)'
  <2>1. u # c /\ Holds(u)
    BY <1>2, <1>7 DEF Counted, Holders
  <2>2. CASE group[u] \in Tasks /\ u \in threads[group[u]] /\ pc[u] # "release"
    BY <1>1, <1>4, <1>5, <1>6, <2>1, <2>2 DEF Holds
  <2>3. CASE state[u] = "new" /\ parent[u] \in Tasks /\ pc[parent[u]] = "copied"
              /\ child[parent[u]] = u
    <3>1. state'[u] = "new" /\ parent'[u] = parent[u] /\ parent[u] # t
      BY <1>1, <1>3, <1>4, <2>1, <2>3
    <3> QED BY <1>5, <2>3, <3>1 DEF Holds
  <2>4. CASE halted
    BY <1>1, <2>4 DEF Holds
  <2> QED BY <2>1, <2>2, <2>3, <2>4 DEF Holds
<1> QED BY <1>1, <1>2, <1>3, <1>7, GoneCounted

\* Steps that touch no reference.
LEMMA KeepCounted ==
    ASSUME Sound, Counted, NEW t \in Tasks, pc[t] # "copied",
           pc[t] # "release" => pc'[t] # "release",
           \A u \in Tasks \ {t} : /\ pc'[u] = pc[u] \/ (pc[u] = "none" /\ pc'[u] # "release")
                                  /\ child'[u] = child[u],
           UNCHANGED <<state, parent, group, threads, mm, mmRefs, halted>>
    PROVE  Counted'
<1>1. Holders'
  <2> SUFFICES ASSUME NEW u \in Tasks, mm[u] # NoTask PROVE Holds(u)'
    BY DEF Holders
  <2>1. Holds(u)
    BY DEF Counted, Holders
  <2> QED BY <2>1 DEF Holds
<1> QED BY <1>1 DEF Counted, Owned, MmRefsExact

\* Each step keeps the references exact.
LEMMA CountedStep == ValveFires = FALSE /\ Sound /\ Counted /\ [Next]_vars => Counted'
<1> SUFFICES ASSUME ValveFires = FALSE, Sound, Counted, [Next]_vars PROVE Counted'
  OBVIOUS
<1> USE InitAssumption DEF taskVars, groupVars, memVars, vforkVars
<1>1. CASE UNCHANGED vars
  BY <1>1 DEF vars, Counted, Holders, Holds, Owned, MmRefsExact
<1>2. ASSUME NEW t \in Tasks, Step(t) \/ Guest(t) PROVE Counted'
  <2>1. CASE Moves(t)
    <3>1. Moved(t)
      BY <2>1, MoveStep
    <3>2. PICK to \in (Active \ (Making \cup {"vfork", "release"})) \cup {"over"} :
            pc' = [pc EXCEPT ![t] = to]
      BY <3>1 DEF Moved
    <3>3. PICK x \in Tasks \cup {NoTask} : child' = [child EXCEPT ![t] = x]
      BY <3>1 DEF Moved
    <3>4. pc[t] # "copied" /\ UNCHANGED <<state, parent, group, threads, mm, mmRefs, halted>>
      BY <3>1 DEF Moved
    <3>5. pc'[t] # "release" /\ \A u \in Tasks \ {t} : pc'[u] = pc[u] /\ child'[u] = child[u]
      BY <3>2, <3>3 DEF Sound, Typed
    <3> QED BY <3>4, <3>5, KeepCounted
  <2>2. CASE (\E k \in Kinds : CopyMm(t, k)) \/ CopyGroup(t)
    BY <2>2, CopyMmCounted, CopyGroupCounted
  <2>3. CASE DoExit(t) \/ CopyFails(t) \/ UnlinkGroup(t)
    BY <2>3, GiveBackCounted
  <2>4. CASE Unmake(t)
    <3>1. child[t] \in Tasks
      BY <2>4, ChildInHand DEF Unmake
    <3> QED BY <2>4, <3>1, DestroyCounted
  <2>5. CASE TaskStart(t)
    <3> SUFFICES ASSUME NEW c, c = child[t] PROVE Counted'
      OBVIOUS
    <3>1. /\ pc[t] = "start" /\ UNCHANGED <<state, parent, group, threads, mm, mmRefs, halted>>
          /\ \E at \in {"guest", "doexit"}, to \in {"guest", "vfork"} : pc' = [pc EXCEPT ![c] = at, ![t] = to]
          /\ child' \in {child, [child EXCEPT ![t] = NoTask]}
      BY <2>5 DEF TaskStart, FirstLoop
    <3>2. c \in Tasks /\ pc[c] = "none" /\ c # t
      BY <3>1, ChildInHand
    <3>3. /\ pc'[t] # "release"
          /\ \A u \in Tasks \ {t} : /\ pc'[u] = pc[u] \/ (pc[u] = "none" /\ pc'[u] # "release")
                                    /\ child'[u] = child[u]
      BY <3>1, <3>2 DEF Sound, Typed
    <3> QED BY <3>1, <3>3, KeepCounted
  <2>6. CASE DoExitLocked(t) /\ LockedFault(t) = "none"
    BY <2>6, ExitCounted
  <2>7. CASE Halt(t)
    BY <2>7 DEF Halt, Counted, Holders, Holds, Owned, MmRefsExact
  <2>8. CASE Cleanup(t)
    <3>1. ~deferred[t]
      BY DEF Sound, Typed
    <3>2. /\ pc[t] = "cleanup" /\ pc' = [pc EXCEPT ![t] = "over"]
          /\ UNCHANGED <<state, child, parent, group, threads, mm, mmRefs, halted>>
      BY <2>8, <3>1 DEF Cleanup, Fault
    <3>3. pc'[t] # "release" /\ \A u \in Tasks \ {t} : pc'[u] = pc[u] /\ child'[u] = child[u]
      BY <3>2 DEF Sound, Typed
    <3> QED BY <3>2, <3>3, KeepCounted
  <2>9. ASSUME NEW c \in Tasks, Reap(t, c) PROVE Counted'
    BY <2>9, DestroyCounted
  <2>10. ASSUME NEW c \in Tasks, TaskCreate(t, c) PROVE Counted'
    <3>1. /\ pc[t] = "guest" /\ state[c] = "free" /\ pc' = [pc EXCEPT ![t] = "create"]
          /\ state' = [state EXCEPT ![c] = "new"] /\ parent' = [parent EXCEPT ![c] = t]
          /\ group' = [group EXCEPT ![c] = group[t]] /\ child' = [child EXCEPT ![t] = c]
          /\ UNCHANGED <<threads, mm, mmRefs, halted>>
      BY <2>10 DEF TaskCreate, Runs
    <3>2. \A u \in Tasks : mm[u] # c
      BY <3>1 DEF Counted, Owned
    <3>3. ~halted /\ \A h \in Tasks : c \notin threads[h]
      BY <3>1 DEF Sound, Newborn, Members
    <3>4. mm[c] = NoTask
      BY <3>1, <3>3 DEF Counted, Holders, Holds
    <3>5. \A u \in Tasks \ {c} : state'[u] = state[u] /\ parent'[u] = parent[u] /\ group'[u] = group[u]
      BY <3>1 DEF Sound, Typed
    <3>6. \A u \in Tasks \ {t} : pc'[u] = pc[u] /\ child'[u] = child[u]
      BY <3>1 DEF Sound, Typed
    <3>7. pc'[t] = "create"
      BY <3>1 DEF Sound, Typed
    <3>8. ASSUME NEW u \in Tasks, mm[u] # NoTask PROVE Holds(u)'
      <4>1. u # c /\ Holds(u)
        BY <3>4, <3>8 DEF Counted, Holders
      <4> QED BY <3>1, <3>5, <3>6, <3>7, <4>1 DEF Holds
    <3>9. Owned'
      BY <3>1, <3>2, <3>5 DEF Counted, Owned
    <3> QED BY <3>1, <3>8, <3>9 DEF Counted, Holders, MmRefsExact
  <2>11. CASE Exec(t)
    BY <2>11, ExecCounted
  <2>12. CASE Ignore(t)
    BY <2>12 DEF Ignore, Counted, Holders, Holds, Owned, MmRefsExact
  <2>13. ASSUME NEW x \in Codes, DoExitGroup(t, x) PROVE Counted'
    <3>1. /\ pc[t] = "guest" /\ \E to \in {"groupwait", "doexit"} : pc' = [pc EXCEPT ![t] = to]
          /\ UNCHANGED <<state, child, parent, group, threads, mm, mmRefs, halted>>
      BY <2>13 DEF DoExitGroup, Runs
    <3>2. pc'[t] # "release" /\ \A u \in Tasks \ {t} : pc'[u] = pc[u] /\ child'[u] = child[u]
      BY <3>1 DEF Sound, Typed
    <3> QED BY <3>1, <3>2, KeepCounted
  <2>14. CASE SafetyValve(t)
    BY <2>14 DEF SafetyValve
  <2> QED
    BY <1>2, <2>1, <2>2, <2>3, <2>4, <2>5, <2>6, <2>7, <2>8, <2>9, <2>10, <2>11, <2>12,
       <2>13, <2>14 DEF Step, Guest, Moves
<1> QED
  BY <1>1, <1>2 DEF Next

-----------------------------------------------------------------------------
(* What follows for the properties that the runs check                     *)

LEMMA SoundInvariant ==
    ASSUME ValveFires = FALSE
    PROVE  Spec => [](Sound /\ Counted)
<1>1. Init => Sound /\ Counted
  BY SoundInit, CountedInit
<1>2. Sound /\ Counted /\ [Next]_vars => (Sound /\ Counted)'
  BY SoundStep, CountedStep
<1> QED BY <1>1, <1>2, PTL DEF Spec

\* mm->refcount is the number of tasks that will still release the address
\* space, through every clone, exec, exit and group exit.
THEOREM MmRefsCorrect ==
    ASSUME ValveFires = FALSE
    PROVE  Spec => []MmRefsExact
<1>1. Sound /\ Counted => MmRefsExact
  BY DEF Counted
<1> QED BY <1>1, SoundInvariant, PTL

\* Every variable of the task tree keeps its type; a reference count does not
\* go below zero.
THEOREM TypeCorrect ==
    ASSUME ValveFires = FALSE
    PROVE  Spec => []TypeOK
<1>1. Sound /\ Counted => TypeOK
  <2> SUFFICES ASSUME Sound, Counted PROVE TypeOK
    OBVIOUS
  <2>1. ASSUME NEW m \in Tasks PROVE mmRefs[m] \in Nat
    <3>1. IsFiniteSet(Users(mm, m))
      BY TasksAssumption, FS_Subset DEF Users
    <3> QED BY <3>1, FS_CardinalityType, ExactUsers DEF Counted
  <2>2. mmRefs \in [Tasks -> Nat]
    BY <2>1 DEF Sound, Typed
  <2> QED BY <2>2 DEF Sound, Typed, TypeOK
<1> QED BY <1>1, SoundInvariant, PTL

\* Groups, their leaders and zombies agree: a group is freed neither before its
\* zombie is reaped nor with a thread in it.
THEOREM GroupCorrect ==
    ASSUME ValveFires = FALSE
    PROVE  Spec => []GroupSound
<1>1. Sound /\ Counted => GroupSound
  BY DEF Sound, Typed, Members, Leaders, GroupSound, GroupLive
<1> QED BY <1>1, SoundInvariant, PTL

\* Whoever exits and whatever clone fails half-made, every task that exists,
\* not adrift, has as parent a thread that will still hand it on in do_exit, or
\* else init.
THEOREM ParentCorrect ==
    ASSUME ValveFires = FALSE
    PROVE  Spec => []NoOrphan
<1>1. Sound /\ Counted => NoOrphan
  BY DEF Sound
<1> QED BY <1>1, SoundInvariant, PTL

\* do_exit, do_wait and a clone that fails find the group, the link and the
\* parent where they follow them without a look: what is left are the parent of
\* a task adrift and an init that is a zombie.
THEOREM AccessCorrect ==
    ASSUME ValveFires = FALSE
    PROVE  Spec => []NoDangling
<1>1. Sound /\ Counted => NoDangling
  BY DEF Sound, Typed, NoDangling
<1> QED BY <1>1, SoundInvariant, PTL
=============================================================================
