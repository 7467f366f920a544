----------------------------- MODULE TimerProofs -----------------------------
(***************************************************************************)
(* Theorems about Timer.                                                   *)
(***************************************************************************)
EXTENDS Timer, TLAPS

USE DEF Now, Groups

\* What a thread and a worker may do next.
Call(u, s) ==
    \/ timerfd_create(u, s)
    \/ \E m \in Methods : timer_create(u, s, m)
    \/ SetBegin(u, s) \/ PollBegin(u, s) \/ timerfd_read(u, s) \/ DeleteBegin(u, s) \/ CloseBegin(u, s)
Act(u) == TimerCreateFails(u) \/ ExitBegin(u) \/ ForkBegin(u) \/ UserStep(u)

-----------------------------------------------------------------------------
(* Types                                                                   *)

LEMMA TypedInit == Init => TypeOK
BY TimesAssumption, PlacesAssumption, ActorsAssumption
   DEF Init, TypeOK, TimerType, Memory, Methods, Locks, Actors, Freeing

\* Where the other timers and threads stay as they are.
OthersSame(t) == \A x \in Timers : x # t => tm'[x] = tm[x]
WorkersTyped ==
    /\ wpc' \in [Workers -> {"none", "look", "doze", "sleep", "call", "wakeup"}]
    /\ serves' \in [Workers -> Timers \cup {None}]
    /\ nap' \in [Workers -> Int]

\* The fields of a timer.
LEMMA Fields ==
    ASSUME TypeOK, NEW t \in Timers
    PROVE  /\ tm[t] \in TimerType
           /\ tm[t].st \in {"unused", "live", "freed"}
           /\ tm[t].active \in BOOLEAN /\ tm[t].running \in BOOLEAN /\ tm[t].dead \in BOOLEAN
           /\ tm[t].end \in Int /\ tm[t].base \in Int
           /\ tm[t].interval \in Nat /\ tm[t].shots \in Nat
           /\ tm[t].home \in Slots \cup {None} /\ tm[t].maker \in Users \cup {None}
<1>1. tm[t] \in TimerType
  BY DEF TypeOK
<1> QED
  BY <1>1 DEF TimerType

\* One timer is replaced.
LEMMA Replaced ==
    ASSUME TypeOK, NEW t \in Timers, NEW r \in TimerType, tm' = [tm EXCEPT ![t] = r]
    PROVE  tm' \in [Timers -> TimerType] /\ tm'[t] = r /\ OthersSame(t)
BY DEF TypeOK, OthersSame

LEMMA MemoryTyped ==
    ASSUME NEW state \in {"unused", "live", "freed"}
    PROVE  /\ Memory(state) \in TimerType
           /\ Memory(state).st = state /\ Memory(state).home = None
           /\ ~ Memory(state).active /\ ~ Memory(state).running /\ ~ Memory(state).dead
           /\ Memory(state).end = 0 /\ Memory(state).base = 0
           /\ Memory(state).interval = 0 /\ Memory(state).shots = 0
BY DEF Memory, TimerType

\* timer_new: a timer that is not armed.
LEMMA NewEffect ==
    ASSUME TypeOK, NEW s \in Slots, NEW u \in Users, timer_new(s, u)
    PROVE  /\ tm' \in [Timers -> TimerType]
           /\ ptr' \in [Slots -> Timers \cup {None}]
           /\ \E t \in Timers :
                /\ tm[t].st = "unused"
                /\ OthersSame(t)
                /\ tm'[t].st = "live" /\ tm'[t].home = s
                /\ ~ tm'[t].active /\ ~ tm'[t].running /\ ~ tm'[t].dead
                /\ tm'[t].shots = 0
                /\ ptr' = [ptr EXCEPT ![s] = t]
<1> DEFINE m == Memory("live")
           o == IF Kind[s] = "itimer" THEN u ELSE None
           r == [m EXCEPT !.home = s, !.maker = o]
<1>1. /\ m \in TimerType /\ m.st = "live"
      /\ ~ m.active /\ ~ m.running /\ ~ m.dead /\ m.shots = 0
  BY MemoryTyped
<1>2. o \in Users \cup {None}
  OBVIOUS
<1> HIDE DEF m, o
<1>3. /\ r \in TimerType
      /\ r.st = "live" /\ r.home = s /\ ~ r.active /\ ~ r.running /\ ~ r.dead /\ r.shots = 0
  BY <1>1, <1>2 DEF TimerType
<1> USE DEF m, o
<1>4. PICK t \in Timers : tm[t].st = "unused" /\ tm' = [tm EXCEPT ![t] = r] /\ ptr' = [ptr EXCEPT ![s] = t]
  BY DEF timer_new
<1> HIDE DEF r, m, o
<1>5. tm' \in [Timers -> TimerType] /\ tm'[t] = r /\ OthersSame(t)
  BY <1>3, <1>4, Replaced
<1>6. ptr' \in [Slots -> Timers \cup {None}]
  BY <1>4 DEF TypeOK
<1> QED
  BY <1>3, <1>4, <1>5, <1>6

\* pthread_kill moves at most the thread of the timer, out of its sleep.
LEMMA InterruptEffect ==
    ASSUME TypeOK, NEW t, Interrupt(t)
    PROVE  /\ WorkersTyped
           /\ serves' = serves
           /\ \A w \in Workers : wpc'[w] = wpc[w]
                                 \/ (serves[w] = t /\ wpc[w] = "sleep" /\ wpc'[w] = "look")
BY DEF Interrupt, TypeOK, WorkersTyped

\* timer_set: the new times, and a thread if there was none.
LEMMA SetEffect ==
    ASSUME TypeOK, NEW t, NEW v \in Values, NEW i \in Intervals, timer_set(t, v, i)
    PROVE  /\ t \in Timers /\ tm[t].st = "live" /\ holder[t] = Nobody
           /\ tm' \in [Timers -> TimerType]
           /\ OthersSame(t)
           /\ tm'[t].st = "live" /\ tm'[t].home = tm[t].home /\ tm'[t].dead = tm[t].dead
           /\ tm'[t].end = now + v /\ tm'[t].base = now + v
           /\ tm'[t].interval = i /\ tm'[t].shots = 0
           /\ (tm'[t].running <=> tm[t].running \/ v # 0)
           /\ WorkersTyped
           /\ \/ /\ serves' = serves
                 /\ \A w \in Workers : wpc'[w] = wpc[w]
                                       \/ (serves[w] = t /\ wpc[w] = "sleep" /\ wpc'[w] = "look")
              \/ /\ ~ tm[t].running
                 /\ tm'[t].running
                 /\ \E w \in Workers : /\ wpc[w] = "none"
                                       /\ wpc' = [wpc EXCEPT ![w] = "look"]
                                       /\ serves' = [serves EXCEPT ![w] = t]
<1> DEFINE r == [tm[t] EXCEPT !.end = now + v, !.interval = i, !.active = v # 0,
                              !.running = tm[t].running \/ v # 0,
                              !.base = now + v, !.shots = 0]
<1>1. t \in Timers /\ tm[t].st = "live" /\ holder[t] = Nobody
  BY DEF timer_set, Live, Free
<1>2. tm[t] \in TimerType
  BY <1>1, Fields
<1>3. now + v \in Int /\ i \in Nat
  BY TimesAssumption DEF TypeOK
<1>4. /\ r \in TimerType
      /\ r.st = tm[t].st /\ r.home = tm[t].home /\ r.dead = tm[t].dead
      /\ r.end = now + v /\ r.base = now + v /\ r.interval = i /\ r.shots = 0
      /\ (r.running <=> tm[t].running \/ v # 0)
  BY <1>2, <1>3 DEF TimerType
<1>5. tm' = [tm EXCEPT ![t] = r]
  BY DEF timer_set
<1> HIDE DEF r
<1>6. tm' \in [Timers -> TimerType] /\ tm'[t] = r /\ OthersSame(t)
  BY <1>1, <1>4, <1>5, Replaced
<1>7. CASE tm[t].running
  BY <1>1, <1>4, <1>6, <1>7, InterruptEffect DEF timer_set
<1>8. CASE ~ tm[t].running
  <2>1. CASE v = 0
    <3>1. UNCHANGED workers
      BY <1>8, <2>1 DEF timer_set
    <3>2. WorkersTyped /\ serves' = serves /\ wpc' = wpc
      BY <3>1 DEF workers, TypeOK, WorkersTyped
    <3> QED
      BY <1>1, <1>4, <1>6, <3>2
  <2>2. CASE v # 0
    <3>1. PICK w \in Workers : /\ wpc[w] = "none"
                               /\ wpc' = [wpc EXCEPT ![w] = "look"]
                               /\ serves' = [serves EXCEPT ![w] = t]
                               /\ UNCHANGED nap
      BY <1>8, <2>2 DEF timer_set
    <3>2. WorkersTyped
      BY <1>1, <3>1 DEF TypeOK, WorkersTyped
    <3> QED
      BY <1>1, <1>4, <1>6, <1>8, <2>2, <3>1, <3>2
  <2> QED
    BY <2>1, <2>2
<1> QED
  BY <1>7, <1>8

\* timer_free: a timer without a thread is freed, one with a thread is marked.
LEMMA FreeEffect ==
    ASSUME TypeOK, NEW t, timer_free(t)
    PROVE  /\ t \in Timers /\ tm[t].st = "live" /\ holder[t] = Nobody
           /\ tm' \in [Timers -> TimerType]
           /\ OthersSame(t)
           /\ ~ tm'[t].active
           /\ \/ ~ tm[t].running /\ tm'[t].st = "freed" /\ tm'[t].shots = 0
              \/ /\ tm[t].running /\ tm'[t].running /\ tm'[t].st = "live"
                 /\ tm'[t].home = tm[t].home
                 /\ tm'[t].shots = tm[t].shots /\ tm'[t].interval = tm[t].interval
                 /\ tm'[t].base = tm[t].base /\ tm'[t].end = tm[t].end
           /\ WorkersTyped
           /\ serves' = serves
           /\ \A w \in Workers : wpc'[w] = wpc[w]
                                 \/ (serves[w] = t /\ wpc[w] = "sleep" /\ wpc'[w] = "look")
<1> DEFINE r == [tm[t] EXCEPT !.active = FALSE, !.dead = TRUE]
<1>1. t \in Timers /\ tm[t].st = "live" /\ holder[t] = Nobody
  BY DEF timer_free, Live, Free
<1>2. tm[t] \in TimerType
  BY <1>1, Fields
<1>3. CASE tm[t].running
  <2>1. /\ r \in TimerType /\ ~ r.active /\ r.running = tm[t].running /\ r.st = tm[t].st
        /\ r.home = tm[t].home /\ r.shots = tm[t].shots /\ r.interval = tm[t].interval
        /\ r.base = tm[t].base /\ r.end = tm[t].end
    BY <1>2 DEF TimerType
  <2>2. tm' = [tm EXCEPT ![t] = r] /\ Interrupt(t)
    BY <1>3 DEF timer_free
  <2> HIDE DEF r
  <2>3. tm' \in [Timers -> TimerType] /\ tm'[t] = r /\ OthersSame(t)
    BY <1>1, <2>1, <2>2, Replaced
  <2> QED
    BY <1>1, <1>3, <2>1, <2>2, <2>3, InterruptEffect
<1>4. CASE ~ tm[t].running
  <2>1. tm' = [tm EXCEPT ![t] = Memory("freed")] /\ UNCHANGED workers
    BY <1>4 DEF timer_free
  <2>2. tm' \in [Timers -> TimerType] /\ tm'[t] = Memory("freed") /\ OthersSame(t)
    BY <1>1, <2>1, MemoryTyped, Replaced
  <2>3. WorkersTyped /\ serves' = serves /\ wpc' = wpc
    BY <2>1 DEF workers, TypeOK, WorkersTyped
  <2> QED
    BY <1>1, <1>4, <2>2, <2>3, MemoryTyped
<1> QED
  BY <1>3, <1>4

\* The thread of a timer leaves it.
LEMMA LeaveEffect ==
    ASSUME TypeOK, NEW w \in Workers, Leave(w), Live(serves[w])
    PROVE  LET t == serves[w] IN
           /\ tm' \in [Timers -> TimerType]
           /\ OthersSame(t)
           /\ ~ tm'[t].running
           /\ \/ tm[t].dead /\ tm'[t].st = "freed" /\ tm'[t].shots = 0
              \/ /\ ~ tm[t].dead /\ ~ tm'[t].dead /\ tm'[t].st = "live"
                 /\ tm'[t].home = tm[t].home /\ tm'[t].active = tm[t].active
                 /\ tm'[t].shots = tm[t].shots /\ tm'[t].interval = tm[t].interval
                 /\ tm'[t].base = tm[t].base /\ tm'[t].end = tm[t].end
           /\ holder' = [holder EXCEPT ![t] = Nobody]
           /\ wpc' = [wpc EXCEPT ![w] = "none"]
           /\ serves' = [serves EXCEPT ![w] = None]
<1> DEFINE t == serves[w]
           r == [tm[t] EXCEPT !.running = FALSE]
<1>1. t \in Timers /\ tm[t].st = "live"
  BY DEF Live
<1>2. tm[t] \in TimerType
  BY <1>1, Fields
<1>3. /\ holder' = [holder EXCEPT ![t] = Nobody]
      /\ wpc' = [wpc EXCEPT ![w] = "none"]
      /\ serves' = [serves EXCEPT ![w] = None]
  BY DEF Leave
<1>4. CASE tm[t].dead
  <2>1. tm' = [tm EXCEPT ![t] = Memory("freed")]
    BY <1>4 DEF Leave
  <2>2. tm' \in [Timers -> TimerType] /\ tm'[t] = Memory("freed") /\ OthersSame(t)
    BY <1>1, <2>1, MemoryTyped, Replaced
  <2> QED
    BY <1>1, <1>3, <1>4, <2>2, MemoryTyped
<1>5. CASE ~ tm[t].dead
  <2>1. /\ r \in TimerType /\ ~ r.running /\ r.st = tm[t].st /\ r.dead = tm[t].dead
        /\ r.home = tm[t].home /\ r.active = tm[t].active
        /\ r.shots = tm[t].shots /\ r.interval = tm[t].interval
        /\ r.base = tm[t].base /\ r.end = tm[t].end
    BY <1>2 DEF TimerType
  <2>2. tm' = [tm EXCEPT ![t] = r]
    BY <1>5 DEF Leave
  <2> HIDE DEF r
  <2>3. tm' \in [Timers -> TimerType] /\ tm'[t] = r /\ OthersSame(t)
    BY <1>1, <2>1, <2>2, Replaced
  <2> QED
    BY <1>1, <1>3, <1>5, <2>1, <2>3
<1> QED
  BY <1>4, <1>5

\* After a callback: on to the next period, or away.
LEMMA RearmEffect ==
    ASSUME TypeOK, NEW w \in Workers, Rearm(w), Live(serves[w])
    PROVE  LET t == serves[w] IN
           \/ ~ (tm[t].active /\ tm[t].interval > 0) /\ Leave(w)
           \/ /\ tm[t].active /\ tm[t].interval > 0
              /\ tm' \in [Timers -> TimerType]
              /\ OthersSame(t)
              /\ tm'[t].st = tm[t].st /\ tm'[t].home = tm[t].home
              /\ tm'[t].active /\ tm'[t].running = tm[t].running /\ tm'[t].dead = tm[t].dead
              /\ tm'[t].end = tm[t].end + tm[t].interval
              /\ tm'[t].shots = tm[t].shots /\ tm'[t].interval = tm[t].interval
              /\ tm'[t].base = tm[t].base
              /\ wpc' = [wpc EXCEPT ![w] = "look"]
              /\ UNCHANGED <<holder, serves>>
<1> DEFINE t == serves[w]
           r == [tm[t] EXCEPT !.end = tm[t].end + tm[t].interval]
<1>1. t \in Timers
  BY DEF Live
<1>2. tm[t] \in TimerType /\ tm[t].end \in Int /\ tm[t].interval \in Nat
  BY <1>1, Fields
<1>3. CASE tm[t].active /\ tm[t].interval > 0
  <2>1. /\ r \in TimerType /\ r.st = tm[t].st /\ r.home = tm[t].home
        /\ r.active = tm[t].active /\ r.running = tm[t].running /\ r.dead = tm[t].dead
        /\ r.end = tm[t].end + tm[t].interval
        /\ r.shots = tm[t].shots /\ r.interval = tm[t].interval /\ r.base = tm[t].base
    BY <1>2 DEF TimerType
  <2>2. tm' = [tm EXCEPT ![t] = r] /\ wpc' = [wpc EXCEPT ![w] = "look"] /\ UNCHANGED <<holder, serves>>
    BY <1>3 DEF Rearm
  <2> HIDE DEF r
  <2>3. tm' \in [Timers -> TimerType] /\ tm'[t] = r /\ OthersSame(t)
    BY <1>1, <2>1, <2>2, Replaced
  <2> QED
    BY <1>3, <2>1, <2>2, <2>3
<1>4. CASE ~ (tm[t].active /\ tm[t].interval > 0)
  BY <1>4 DEF Rearm
<1> QED
  BY <1>3, <1>4

\* The turn of the loop that calls back counts it.
LEMMA LookEffect ==
    ASSUME TypeOK, NEW w \in Workers, Look(w)
    PROVE  LET t == serves[w] IN
           /\ Live(t) /\ wpc[w] = "look" /\ holder[t] \in {Nobody, w}
           /\ \/ ~ tm[t].active /\ Leave(w) /\ nap' = nap
              \/ /\ tm[t].active /\ tm' = tm
                 /\ holder' = [holder EXCEPT ![t] = Nobody]
                 /\ wpc' = [wpc EXCEPT ![w] = "doze"]
                 /\ serves' = serves /\ nap' \in [Workers -> Int]
              \/ /\ tm[t].active /\ tm[t].end <= now
                 /\ tm' \in [Timers -> TimerType]
                 /\ OthersSame(t)
                 /\ tm'[t].st = tm[t].st /\ tm'[t].home = tm[t].home
                 /\ tm'[t].active /\ tm'[t].running = tm[t].running /\ tm'[t].dead = tm[t].dead
                 /\ tm'[t].end = tm[t].end /\ tm'[t].interval = tm[t].interval
                 /\ tm'[t].base = tm[t].base /\ tm'[t].shots = tm[t].shots + 1
                 /\ holder' = [holder EXCEPT ![t] = w]
                 /\ wpc' = [wpc EXCEPT ![w] = "call"]
                 /\ serves' = serves /\ nap' = nap
<1> DEFINE t == serves[w]
           r == [tm[t] EXCEPT !.shots = tm[t].shots + 1]
<1>1. t \in Timers /\ Live(t) /\ wpc[w] = "look" /\ holder[t] \in {Nobody, w}
  BY DEF Look, Live
<1>2. tm[t] \in TimerType /\ tm[t].shots \in Nat /\ tm[t].end \in Int
  BY <1>1, Fields
<1>3. CASE ~ tm[t].active
  BY <1>1, <1>3 DEF Look
<1>4. CASE tm[t].active /\ tm[t].end > now
  <2>1. tm[t].end - now \in Int
    BY <1>2 DEF TypeOK
  <2>2. ~ (tm[t].end <= now)
    BY <1>2, <1>4 DEF TypeOK
  <2> QED
    BY <1>1, <1>4, <2>1, <2>2 DEF Look, TypeOK
<1>5. CASE tm[t].active /\ ~ (tm[t].end > now)
  <2>1. /\ r \in TimerType /\ r.st = tm[t].st /\ r.home = tm[t].home
        /\ r.active = tm[t].active /\ r.running = tm[t].running /\ r.dead = tm[t].dead
        /\ r.end = tm[t].end /\ r.interval = tm[t].interval /\ r.base = tm[t].base
        /\ r.shots = tm[t].shots + 1
    BY <1>2 DEF TimerType
  <2>2. /\ tm[t].end <= now
        /\ tm' = [tm EXCEPT ![t] = r]
        /\ holder' = [holder EXCEPT ![t] = w] /\ wpc' = [wpc EXCEPT ![w] = "call"]
        /\ serves' = serves /\ nap' = nap
    BY <1>5 DEF Look
  <2> HIDE DEF r
  <2>3. tm' \in [Timers -> TimerType] /\ tm'[t] = r /\ OthersSame(t)
    BY <1>1, <2>1, <2>2, Replaced
  <2> QED
    BY <1>1, <1>5, <2>1, <2>2, <2>3
<1> QED
  BY <1>3, <1>4, <1>5

\* Each step leaves the types as they are.
LEMMA TypedStep == IInv /\ [Next]_vars => TypeOK'
<1> SUFFICES ASSUME IInv, [Next]_vars PROVE TypeOK'
  OBVIOUS
<1>a. /\ TypeOK
      /\ \A w \in Workers : Calling(w) => Live(serves[w]) /\ tm[serves[w]].home \in Slots
  BY DEF IInv, Serving, Pointing, Calling, Live
<1>b. ASSUME NEW w \in Workers, Leave(w), Live(serves[w])
      PROVE  /\ tm' \in [Timers -> TimerType]
             /\ holder' \in [Locks -> Actors \cup {Nobody, Lost}]
             /\ wpc' \in [Workers -> {"none", "look", "doze", "sleep", "call", "wakeup"}]
             /\ serves' \in [Workers -> Timers \cup {None}]
  <2>1. tm' \in [Timers -> TimerType]
    BY <1>a, <1>b, LeaveEffect
  <2>2. /\ holder' = [holder EXCEPT ![serves[w]] = Nobody]
        /\ wpc' = [wpc EXCEPT ![w] = "none"]
        /\ serves' = [serves EXCEPT ![w] = None]
    BY <1>b DEF Leave
  <2> QED
    BY <1>a, <2>1, <2>2 DEF TypeOK
<1>c. ASSUME NEW w \in Workers, Rearm(w), Live(serves[w]), UNCHANGED nap
      PROVE  /\ tm' \in [Timers -> TimerType]
             /\ holder' \in [Locks -> Actors \cup {Nobody, Lost}]
             /\ wpc' \in [Workers -> {"none", "look", "doze", "sleep", "call", "wakeup"}]
             /\ serves' \in [Workers -> Timers \cup {None}]
  <2>1. CASE Leave(w)
    BY <1>b, <1>c, <2>1
  <2>2. CASE ~ Leave(w)
    <3>1. /\ tm' \in [Timers -> TimerType] /\ wpc' = [wpc EXCEPT ![w] = "look"]
          /\ UNCHANGED <<holder, serves>>
      BY <1>a, <1>c, <2>2, RearmEffect
    <3> QED
      BY <1>a, <3>1 DEF TypeOK
  <2> QED
    BY <2>1, <2>2
<1>1. CASE UNCHANGED vars
  BY <1>a, <1>1 DEF vars, slots, users, workers, TypeOK
<1>2. ASSUME NEW u \in Users, NEW s \in Slots, Call(u, s) PROVE TypeOK'
  <2>1. CASE timerfd_create(u, s)
    <3>1. tm' \in [Timers -> TimerType] /\ ptr' \in [Slots -> Timers \cup {None}]
      BY <1>a, <2>1, NewEffect DEF timerfd_create
    <3> QED
      BY <1>a, <2>1, <3>1 DEF timerfd_create, TypeOK, users, workers
  <2>2. ASSUME NEW m \in Methods, timer_create(u, s, m) PROVE TypeOK'
    <3>1. tm' \in [Timers -> TimerType] /\ ptr' \in [Slots -> Timers \cup {None}]
      BY <1>a, <2>2, NewEffect DEF timer_create
    <3> QED
      BY <1>a, <2>2, <3>1 DEF timer_create, TypeOK, users, workers
  <2>3. CASE SetBegin(u, s)
    <3>1. tm' \in [Timers -> TimerType] /\ ptr' \in [Slots -> Timers \cup {None}]
      <4>1. CASE UNCHANGED <<tm, ptr>>
        BY <1>a, <4>1 DEF TypeOK
      <4>2. CASE timer_new(s, u)
        BY <1>a, <4>2, NewEffect
      <4> QED
        BY <2>3, <4>1, <4>2 DEF SetBegin
    <3> QED
      BY <1>a, <2>3, <3>1 DEF SetBegin, TypeOK, Actors, Enter, workers
  <2>4. CASE timerfd_read(u, s)
    BY <1>a, <2>4 DEF timerfd_read, TypeOK, users, workers
  <2>5. CASE DeleteBegin(u, s)
    BY <1>a, <2>5 DEF DeleteBegin, TypeOK, Actors, Freeing, Enter, slots, workers
  <2>6. CASE CloseBegin(u, s)
    BY <1>a, <2>6 DEF CloseBegin, TypeOK, Freeing, Enter, slots, workers
  <2>7. CASE PollBegin(u, s)
    BY <1>a, <2>7 DEF PollBegin, TypeOK, Actors, Enter, slots, workers
  <2> QED
    BY <1>2, <2>1, <2>2, <2>3, <2>4, <2>5, <2>6, <2>7 DEF Call
<1>3. ASSUME NEW u \in Users, Act(u) PROVE TypeOK'
  <2>1. CASE TimerCreateFails(u)
    BY <1>a, <2>1 DEF TimerCreateFails, TypeOK, slots, users, workers
  <2>2. CASE ExitBegin(u)
    BY <1>a, <2>2 DEF ExitBegin, TypeOK, Actors, Freeing, Enter, slots, workers
  <2>3. CASE ForkBegin(u)
    BY <1>a, <2>3 DEF ForkBegin, TypeOK, Actors, Enter, slots, workers
  <2>4. CASE SetEnd(u)
    <3>1. PICK v \in Values, i \in Intervals : timer_set(ptr[on[u]], v, i)
      BY <2>4 DEF SetEnd
    <3>2. tm' \in [Timers -> TimerType] /\ WorkersTyped
      BY <1>a, <3>1, SetEffect
    <3> QED
      BY <1>a, <2>4, <3>2 DEF SetEnd, TypeOK, WorkersTyped, Return, slots
  <2>5. CASE DeleteEnd(u)
    <3>1. timer_free(ptr[on[u]])
      BY <2>5 DEF DeleteEnd
    <3>2. tm' \in [Timers -> TimerType] /\ WorkersTyped
      BY <1>a, <3>1, FreeEffect
    <3> QED
      BY <1>a, <2>5, <3>2 DEF DeleteEnd, TypeOK, WorkersTyped, Return
  <2>6. CASE CloseEnd(u)
    <3>1. timer_free(ptr[on[u]])
      BY <2>6 DEF CloseEnd
    <3>2. tm' \in [Timers -> TimerType] /\ WorkersTyped
      BY <1>a, <3>1, FreeEffect
    <3> QED
      BY <1>a, <2>6, <3>2 DEF CloseEnd, TypeOK, WorkersTyped, Return
  <2>7. CASE ExitEnd(u)
    <3>1. tm' \in [Timers -> TimerType] /\ WorkersTyped
      <4>1. CASE UNCHANGED <<tm, workers>>
        BY <1>a, <4>1 DEF TypeOK, WorkersTyped, workers
      <4>2. ASSUME NEW t \in Itimers(u), timer_free(t)
            PROVE  tm' \in [Timers -> TimerType] /\ WorkersTyped
        BY <1>a, <4>2, FreeEffect
      <4> QED
        BY <2>7, <4>1, <4>2 DEF ExitEnd
    <3>2. group' \in [Groups -> {"new", "live", "dead", "freed"}]
      <4>1. group' = group \/ group' = [group EXCEPT ![GroupOf[u]] = "dead"]
        BY <2>7 DEF ExitEnd
      <4> QED
        BY <1>a, <4>1 DEF TypeOK
    <3>3. /\ at' = [at EXCEPT ![u] = "gone"] /\ on' = [on EXCEPT ![u] = None]
          /\ holder' = [holder EXCEPT ![Pids] = Nobody]
          /\ UNCHANGED <<now, copied, ptr, method, open, ready>>
      BY <2>7 DEF ExitEnd, Enter, slots
    <3> QED
      BY <1>a, <3>1, <3>2, <3>3 DEF TypeOK, WorkersTyped
  <2>8. CASE ForkEnd(u)
    <3> DEFINE copies == {s \in Slots : Home[s] = Child /\ Kind[s] = "posix"}
    <3>1. /\ ptr' = [s \in Slots |-> IF s \in copies THEN ptr[Original[s]] ELSE ptr[s]]
          /\ method' = [s \in Slots |-> IF s \in copies THEN method[Original[s]] ELSE method[s]]
          /\ copied' = copied \cup ({ptr[Original[s]] : s \in copies} \ {None})
      BY <2>8 DEF ForkEnd
    <3>2. \A s \in Slots : ptr[s] \in Timers \cup {None} /\ method[s] \in Methods /\ Original[s] \in Slots
      BY <1>a, PlacesAssumption DEF TypeOK
    <3>3. ptr' \in [Slots -> Timers \cup {None}]
      BY <3>1, <3>2
    <3>4. method' \in [Slots -> Methods]
      BY <3>1, <3>2
    <3>5. copied' \subseteq Timers
      BY <1>a, <3>1, <3>2 DEF TypeOK
    <3> QED
      BY <1>a, <2>8, <3>3, <3>4, <3>5 DEF ForkEnd, TypeOK, Return, workers
  <2>9. CASE PollEnd(u)
    BY <1>a, <2>9 DEF PollEnd, TypeOK, Return, slots, workers
  <2> QED
    BY <1>3, <2>1, <2>2, <2>3, <2>4, <2>5, <2>6, <2>7, <2>8, <2>9 DEF Act, UserStep
<1>4. ASSUME NEW g \in Groups, Reap(g) PROVE TypeOK'
  BY <1>a, <1>4 DEF Reap, TypeOK, slots, users, workers
<1>5. ASSUME NEW w \in Workers, WorkerStep(w) PROVE TypeOK'
  <2>1. CASE Look(w)
    <3>1. CASE Leave(w) /\ nap' = nap
      BY <1>a, <1>b, <2>1, <3>1, LookEffect DEF Look, TypeOK, slots, users
    <3>2. CASE ~ (Leave(w) /\ nap' = nap)
      <4>1. tm' \in [Timers -> TimerType] /\ serves' = serves /\ nap' \in [Workers -> Int]
        BY <1>a, <2>1, <3>2, LookEffect DEF TypeOK
      <4>2. /\ wpc' \in [Workers -> {"none", "look", "doze", "sleep", "call", "wakeup"}]
            /\ holder' \in [Locks -> Actors \cup {Nobody, Lost}]
        BY <1>a, <2>1, <3>2, LookEffect DEF TypeOK, Actors
      <4> QED
        BY <1>a, <2>1, <4>1, <4>2 DEF Look, TypeOK, slots, users
    <3> QED
      BY <3>1, <3>2
  <2>2. CASE Sleep(w)
    BY <1>a, <2>2, TimesAssumption DEF Sleep, TypeOK, slots, users
  <2>3. CASE Wake(w)
    BY <1>a, <2>3 DEF Wake, TypeOK, slots, users
  <2>4. CASE CallTimerfd(w)
    BY <1>a, <2>4 DEF CallTimerfd, TypeOK, Calling, users
  <2>5. CASE PollWakeup(w)
    BY <1>a, <1>c, <2>5 DEF PollWakeup, TypeOK, Calling, slots, users
  <2>6. CASE CallSignal(w)
    BY <1>a, <1>c, <2>6 DEF CallSignal, TypeOK, Calling, slots, users
  <2> QED
    BY <1>5, <2>1, <2>2, <2>3, <2>4, <2>5, <2>6 DEF WorkerStep
<1>6. CASE Tick
  BY <1>a, <1>6, TimesAssumption DEF Tick, TypeOK, slots, users, workers
<1> QED
  BY <1>1, <1>2, <1>3, <1>4, <1>5, <1>6 DEF Next, Call, Act

-----------------------------------------------------------------------------
(* Who serves a timer, and how often it has called back                    *)

\* What the callers of the following lemmas know of a worker and its timer.
LEMMA Served ==
    ASSUME IInv
    PROVE  /\ TypeOK /\ Serving /\ Counting
           /\ None \notin Timers
           /\ \A w \in Workers : serves[w] \in Timers \cup {None} /\ w # Nobody
           /\ \A w \in Workers : wpc[w] # "none" => serves[w] \in Timers /\ Live(serves[w])
BY LocksAssumption, ActorsAssumption DEF IInv, Serving, TypeOK, Live

\* A step that leaves the workers and the timers in use alone.
LEMMA Quiet ==
    ASSUME IInv, UNCHANGED <<wpc, serves>>, now' \in Int, now <= now',
           \A t \in Timers : tm'[t] = tm[t] \/ (~ Live(t) /\ tm'[t].shots = 0),
           \A t \in Timers : holder'[t] = holder[t]
    PROVE  Serving' /\ Counting'
<1>1. \A w \in Workers : serves[w] # None => serves[w] \in Timers /\ tm'[serves[w]] = tm[serves[w]]
  BY Served DEF Serving
<1>2. Serving'
  BY Served, <1>1 DEF Serving, Calling, Live
<1>3. NotEarly'
  <2> SUFFICES ASSUME NEW t \in Timers, tm'[t].shots > 0
               PROVE  /\ tm'[t].base + (tm'[t].shots - 1) * tm'[t].interval <= now'
                      /\ tm'[t].interval = 0 => tm'[t].shots = 1
    BY DEF NotEarly
  <2>1. tm'[t] = tm[t]
    OBVIOUS
  <2>2. tm[t].base + (tm[t].shots - 1) * tm[t].interval <= now
    BY <2>1, Served DEF Counting, NotEarly
  <2> DEFINE c == (tm[t].shots - 1) * tm[t].interval
  <2>3. c \in Int /\ tm[t].base \in Int /\ now \in Int
    BY Served, Fields DEF TypeOK
  <2>4. tm[t].base + c <= now
    BY <2>2
  <2> HIDE DEF c
  <2>5. tm[t].base + c <= now'
    BY <2>3, <2>4
  <2>6. tm[t].interval = 0 => tm[t].shots = 1
    BY <2>1, Served DEF Counting, NotEarly
  <2> QED
    BY <2>1, <2>5, <2>6 DEF c
<1>4. ASSUME NEW w \in Workers
      PROVE  wpc'[w] # "none" => serves'[w] = serves[w] /\ tm'[serves'[w]] = tm[serves[w]]
  BY Served, <1>1 DEF Serving
<1> QED
  BY <1>2, <1>3, <1>4, Served DEF Counting, Calling

\* One timer and its worker change: what remains to be shown of them.
LEMMA OneTimer ==
    ASSUME IInv, NEW t \in Timers, OthersSame(t), now' = now,
           \A x \in Timers : x # t => holder'[x] = holder[x],
           \A w \in Workers :
              \/ serves[w] = serves'[w] /\ wpc[w] = wpc'[w]
              \/ serves[w] \in {t, None} /\ serves'[w] \in {t, None},
           \A w \in Workers : serves'[w] = None <=> wpc'[w] = "none",
           \A w, x \in Workers : serves'[w] = t /\ serves'[x] = t => w = x,
           \A w \in Workers : serves'[w] = t => /\ tm'[t].st = "live" /\ tm'[t].running
                                                /\ Calling(w)' => holder'[t] = w /\ tm'[t].active,
           tm'[t].shots > 0 => /\ tm'[t].base + (tm'[t].shots - 1) * tm'[t].interval <= now
                               /\ tm'[t].interval = 0 => tm'[t].shots = 1,
           \A w \in Workers : serves'[w] = t =>
              /\ Calling(w)' => tm'[t].shots > 0 /\ tm'[t].end = tm'[t].base + (tm'[t].shots - 1) * tm'[t].interval
              /\ wpc'[w] \in {"look", "doze", "sleep"} /\ tm'[t].active =>
                    /\ tm'[t].end = tm'[t].base + tm'[t].shots * tm'[t].interval
                    /\ tm'[t].interval = 0 => tm'[t].shots = 0
    PROVE  Serving' /\ Counting'
<1>1. ASSUME NEW w \in Workers, serves'[w] # t, serves'[w] # None
      PROVE  /\ serves[w] = serves'[w] /\ wpc[w] = wpc'[w] /\ serves[w] \in Timers
             /\ tm'[serves[w]] = tm[serves[w]] /\ holder'[serves[w]] = holder[serves[w]]
  BY <1>1, Served DEF OthersSame
<1>2. Serving'
  <2>1. \A w \in Workers : serves'[w] # None => Live(serves[w])' /\ tm'[serves'[w]].running
    BY <1>1, Served DEF Serving, Live
  <2>2. \A w, x \in Workers : serves'[w] = serves'[x] /\ serves'[w] # None => w = x
    BY <1>1, Served DEF Serving
  <2>3. \A w \in Workers : Calling(w)' => holder'[serves'[w]] = w /\ tm'[serves'[w]].active
    <3> SUFFICES ASSUME NEW w \in Workers, Calling(w)'
                 PROVE  holder'[serves'[w]] = w /\ tm'[serves'[w]].active
      OBVIOUS
    <3>1. serves'[w] # None
      BY DEF Calling
    <3>2. CASE serves'[w] = t
      BY <3>2
    <3>3. CASE serves'[w] # t
      BY <1>1, <3>1, <3>3, Served DEF Serving, Calling
    <3> QED
      BY <3>2, <3>3
  <2> QED
    BY <2>1, <2>2, <2>3 DEF Serving
<1>3. NotEarly'
  <2> SUFFICES ASSUME NEW x \in Timers, tm'[x].shots > 0
               PROVE  /\ tm'[x].base + (tm'[x].shots - 1) * tm'[x].interval <= now'
                      /\ tm'[x].interval = 0 => tm'[x].shots = 1
    BY DEF NotEarly
  <2>1. CASE x = t
    BY <2>1
  <2>2. CASE x # t
    <3>1. tm'[x] = tm[x]
      BY <2>2 DEF OthersSame
    <3> QED
      BY <3>1, Served DEF Counting, NotEarly
  <2> QED
    BY <2>1, <2>2
<1>4. \A w \in Workers : LET r == tm'[serves'[w]] IN
          /\ Calling(w)' => r.shots > 0 /\ r.end = r.base + (r.shots - 1) * r.interval
          /\ wpc'[w] \in {"look", "doze", "sleep"} /\ r.active =>
                /\ r.end = r.base + r.shots * r.interval
                /\ r.interval = 0 => r.shots = 0
  <2> SUFFICES ASSUME NEW w \in Workers
               PROVE  LET r == tm'[serves'[w]] IN
          /\ Calling(w)' => r.shots > 0 /\ r.end = r.base + (r.shots - 1) * r.interval
          /\ wpc'[w] \in {"look", "doze", "sleep"} /\ r.active =>
                /\ r.end = r.base + r.shots * r.interval
                /\ r.interval = 0 => r.shots = 0
    OBVIOUS
  <2>1. CASE wpc'[w] = "none"
    BY <2>1 DEF Calling
  <2>2. CASE serves'[w] = t
    BY <2>2
  <2>3. CASE wpc'[w] # "none" /\ serves'[w] # t
    <3>1. serves'[w] # None
      BY <2>3
    <3>2. tm'[serves'[w]] = tm[serves[w]] /\ wpc'[w] = wpc[w]
      BY <1>1, <2>3, <3>1
    <3> QED
      BY <3>2, Served DEF Counting, Calling
  <2> QED
    BY <2>1, <2>2, <2>3
<1> QED
  BY <1>2, <1>3, <1>4 DEF Counting

\* timer_set: at most a new thread, for a timer that had none.
LEMMA SetServes ==
    ASSUME IInv, NEW t, NEW v \in Values, NEW i \in Intervals, timer_set(t, v, i),
           now' = now, \A x \in Timers : holder'[x] = holder[x]
    PROVE  Serving' /\ Counting'
<1>1. TypeOK /\ t \in Timers /\ OthersSame(t) /\ holder[t] = Nobody
  BY Served, SetEffect
<1>2. \A w \in Workers : serves[w] = t => ~ Calling(w)
  BY <1>1, Served DEF Serving
<1>3. /\ tm'[t].st = "live" /\ tm'[t].shots = 0 /\ tm'[t].interval = i
      /\ tm'[t].end = now + v /\ tm'[t].base = now + v
      /\ (tm'[t].running <=> tm[t].running \/ v # 0)
  BY <1>1, SetEffect
<1>4. now + v \in Int /\ i \in Nat /\ 0 * i = 0
  BY <1>1, TimesAssumption DEF TypeOK
<1>5. tm'[t].end = tm'[t].base + tm'[t].shots * tm'[t].interval
  BY <1>3, <1>4
<1>6. ~ (tm'[t].shots > 0)
  BY <1>3
<1>7. \/ /\ serves' = serves
         /\ \A w \in Workers : wpc'[w] = wpc[w]
                               \/ (serves[w] = t /\ wpc[w] = "sleep" /\ wpc'[w] = "look")
      \/ /\ ~ tm[t].running
         /\ tm'[t].running
         /\ \E w \in Workers : /\ wpc[w] = "none"
                               /\ wpc' = [wpc EXCEPT ![w] = "look"]
                               /\ serves' = [serves EXCEPT ![w] = t]
  BY <1>1, SetEffect
<1> DEFINE Kept ==
           \A w \in Workers : \/ serves[w] = serves'[w] /\ wpc[w] = wpc'[w]
                              \/ serves[w] \in {t, None} /\ serves'[w] \in {t, None}
           Apart == \A w, x \in Workers : serves'[w] = t /\ serves'[x] = t => w = x
           Both == \A w \in Workers : serves'[w] = None <=> wpc'[w] = "none"
           Runs == \A w \in Workers : serves'[w] = t => tm'[t].running /\ ~ (wpc'[w] \in {"call", "wakeup"})
<1>8. Kept /\ Apart /\ Both /\ Runs
  <2>1. CASE serves' = serves /\ \A w \in Workers : wpc'[w] = wpc[w]
                               \/ (serves[w] = t /\ wpc[w] = "sleep" /\ wpc'[w] = "look")
    <3>1. Kept
      BY <2>1, Served DEF Serving
    <3>4. Apart
      <4>1. t # None
        BY <1>1, Served
      <4> QED
        BY <2>1, <4>1, Served DEF Serving
    <3>2. Both
      BY <1>1, <2>1, Served DEF Serving
    <3>3. Runs
      BY <1>1, <1>2, <1>3, <2>1, Served DEF Serving, Calling
    <3> QED
      BY <3>1, <3>2, <3>3, <3>4
  <2>2. ASSUME ~ tm[t].running, tm'[t].running,
               NEW w \in Workers, wpc[w] = "none", wpc' = [wpc EXCEPT ![w] = "look"],
               serves' = [serves EXCEPT ![w] = t]
        PROVE  Kept /\ Apart /\ Both /\ Runs
    <3>1. \A x \in Workers : serves[x] # t
      BY <1>1, <2>2, Served DEF Serving
    <3>2. serves[w] = None
      BY <2>2, Served DEF Serving
    <3>3. /\ serves'[w] = t /\ wpc'[w] = "look"
          /\ \A x \in Workers : x # w => serves'[x] = serves[x] /\ wpc'[x] = wpc[x]
      BY <1>1, <2>2 DEF TypeOK
    <3>4. Kept
      BY <3>2, <3>3
    <3>5. Apart
      BY <3>1, <3>3
    <3>6. Both
      BY <1>1, <3>3, Served DEF Serving
    <3>7. Runs
      BY <2>2, <3>1, <3>3
    <3> QED
      BY <3>4, <3>5, <3>6, <3>7
  <2> QED
    BY <1>7, <2>1, <2>2
<1>9. \A w \in Workers : serves'[w] = t => ~ Calling(w)'
  BY <1>8 DEF Calling
<1> QED
  BY <1>1, <1>3, <1>4, <1>5, <1>6, <1>8, <1>9, OneTimer

\* timer_free: no thread comes or goes, and a callback is not under way.
LEMMA FreeServes ==
    ASSUME IInv, NEW t, timer_free(t), now' = now, \A x \in Timers : holder'[x] = holder[x]
    PROVE  Serving' /\ Counting'
<1>1. TypeOK /\ t \in Timers /\ OthersSame(t) /\ ~ tm'[t].active /\ serves' = serves /\ holder[t] = Nobody
  BY Served, FreeEffect
<1>2. \A w \in Workers : serves[w] = t => ~ Calling(w)
  BY <1>1, Served DEF Serving
<1>3. \/ ~ tm[t].running /\ tm'[t].st = "freed" /\ tm'[t].shots = 0
      \/ /\ tm[t].running /\ tm'[t].running /\ tm'[t].st = "live"
         /\ tm'[t].shots = tm[t].shots /\ tm'[t].interval = tm[t].interval
         /\ tm'[t].base = tm[t].base /\ tm'[t].end = tm[t].end
  BY <1>1, FreeEffect
<1>4. tm'[t].shots > 0 => /\ tm'[t].base + (tm'[t].shots - 1) * tm'[t].interval <= now
                          /\ tm'[t].interval = 0 => tm'[t].shots = 1
  BY <1>1, <1>3, Served DEF Counting, NotEarly
<1>5. \A w \in Workers : serves'[w] = t => tm[t].running
  <2>1. t # None
    BY <1>1, Served
  <2> QED
    BY <1>1, <2>1, Served DEF Serving
<1>6. \A w \in Workers : wpc'[w] = wpc[w] \/ (serves[w] = t /\ wpc[w] = "sleep" /\ wpc'[w] = "look")
  BY <1>1, FreeEffect
<1>7. /\ \A w \in Workers :
            \/ serves[w] = serves'[w] /\ wpc[w] = wpc'[w]
            \/ serves[w] \in {t, None} /\ serves'[w] \in {t, None}
      /\ \A w \in Workers : serves'[w] = None <=> wpc'[w] = "none"
      /\ \A w, x \in Workers : serves'[w] = t /\ serves'[x] = t => w = x
  <2>1. t # None
    BY <1>1, Served
  <2> QED
    BY <1>1, <1>6, <2>1, Served DEF Serving
<1>8. \A w \in Workers : serves'[w] = t => ~ Calling(w)' /\ tm'[t].st = "live" /\ tm'[t].running
  BY <1>1, <1>2, <1>3, <1>5, <1>6 DEF Calling
<1> QED
  BY <1>1, <1>4, <1>7, <1>8, OneTimer

\* The thread leaves.
LEMMA LeaveServes ==
    ASSUME IInv, NEW w \in Workers, wpc[w] # "none", Leave(w), now' = now
    PROVE  Serving' /\ Counting'
<1> DEFINE t == serves[w]
<1>1. TypeOK /\ t \in Timers /\ Live(t)
  BY Served
<1>2. /\ OthersSame(t)
      /\ \/ tm[t].dead /\ tm'[t].st = "freed" /\ tm'[t].shots = 0
         \/ /\ tm'[t].shots = tm[t].shots /\ tm'[t].interval = tm[t].interval
            /\ tm'[t].base = tm[t].base /\ tm'[t].end = tm[t].end
      /\ holder' = [holder EXCEPT ![t] = Nobody]
      /\ wpc' = [wpc EXCEPT ![w] = "none"]
      /\ serves' = [serves EXCEPT ![w] = None]
  BY <1>1, LeaveEffect
<1>3. tm'[t].shots > 0 => /\ tm'[t].base + (tm'[t].shots - 1) * tm'[t].interval <= now
                          /\ tm'[t].interval = 0 => tm'[t].shots = 1
  BY <1>1, <1>2, Served DEF Counting, NotEarly
<1>4. \A x \in Timers : x # t => holder'[x] = holder[x]
  BY <1>1, <1>2 DEF TypeOK, Locks
<1>5. /\ wpc'[w] = "none" /\ serves'[w] = None
      /\ \A x \in Workers : x # w => wpc'[x] = wpc[x] /\ serves'[x] = serves[x]
  BY <1>1, <1>2 DEF TypeOK
<1>6. \A x \in Workers : serves'[x] # t
  BY <1>1, <1>5, Served DEF Serving
<1>7. \A x \in Workers : serves'[x] = None <=> wpc'[x] = "none"
  BY <1>5, Served DEF Serving
<1> HIDE DEF t
<1>8. ASSUME NEW x \in Workers
      PROVE  \/ serves[x] = serves'[x] /\ wpc[x] = wpc'[x]
             \/ serves[x] \in {t, None} /\ serves'[x] \in {t, None}
  <2>1. CASE x = w
    BY <1>5, <2>1 DEF t
  <2>2. CASE x # w
    BY <1>5, <2>2
  <2> QED
    BY <2>1, <2>2
<1> QED
  BY <1>1, <1>2, <1>3, <1>4, <1>6, <1>7, <1>8, OneTimer

\* The turn of the loop: only a callback counts, at or after the deadline.
LEMMA LookServes ==
    ASSUME IInv, NEW w \in Workers, Look(w), now' = now
    PROVE  Serving' /\ Counting'
<1> DEFINE t == serves[w]
<1>1. TypeOK /\ t \in Timers /\ Live(t) /\ wpc[w] = "look"
  BY Served, LookEffect DEF Live
<1>2. CASE Leave(w)
  BY <1>1, <1>2, LeaveServes
<1>3. CASE /\ tm[t].active /\ tm' = tm
           /\ holder' = [holder EXCEPT ![t] = Nobody]
           /\ wpc' = [wpc EXCEPT ![w] = "doze"]
           /\ serves' = serves
  <2>1. wpc'[w] = "doze" /\ \A x \in Workers : x # w => wpc'[x] = wpc[x]
    BY <1>1, <1>3 DEF TypeOK
  <2>2. \A x \in Timers : x # t => holder'[x] = holder[x]
    BY <1>1, <1>3 DEF TypeOK, Locks
  <2>3. /\ \A x \in Workers : serves'[x] = t => x = w
        /\ tm'[t].st = "live" /\ tm'[t].running
    BY <1>1, <1>3, Served DEF Serving, Live
  <2>4. /\ tm'[t].end = tm'[t].base + tm'[t].shots * tm'[t].interval
        /\ tm'[t].interval = 0 => tm'[t].shots = 0
        /\ tm'[t].shots > 0 => /\ tm'[t].base + (tm'[t].shots - 1) * tm'[t].interval <= now
                               /\ tm'[t].interval = 0 => tm'[t].shots = 1
    BY <1>1, <1>3, Served DEF Counting, NotEarly
  <2>5. \A x \in Workers : serves'[x] = t => ~ Calling(x)'
    BY <2>1, <2>3 DEF Calling
  <2>6. \A x \in Workers : serves'[x] = None <=> wpc'[x] = "none"
    BY <1>1, <1>3, <2>1, Served DEF Serving
  <2>7. OthersSame(t)
    BY <1>3 DEF OthersSame
  <2>8. ASSUME NEW x \in Workers
        PROVE  \/ serves[x] = serves'[x] /\ wpc[x] = wpc'[x]
               \/ serves[x] \in {t, None} /\ serves'[x] \in {t, None}
    <3>1. CASE x = w
      BY <1>3, <3>1
    <3>2. CASE x # w
      BY <1>3, <2>1, <3>2
    <3> QED
      BY <3>1, <3>2
  <2> HIDE DEF t
  <2> QED
    BY <1>1, <2>2, <2>3, <2>4, <2>5, <2>6, <2>7, <2>8, OneTimer
<1>4. CASE /\ tm[t].active /\ tm[t].end <= now
           /\ tm' \in [Timers -> TimerType]
           /\ OthersSame(t)
           /\ tm'[t].st = tm[t].st
           /\ tm'[t].active /\ tm'[t].running = tm[t].running
           /\ tm'[t].end = tm[t].end /\ tm'[t].interval = tm[t].interval
           /\ tm'[t].base = tm[t].base /\ tm'[t].shots = tm[t].shots + 1
           /\ holder' = [holder EXCEPT ![t] = w]
           /\ wpc' = [wpc EXCEPT ![w] = "call"]
           /\ serves' = serves
  <2>1. wpc'[w] = "call" /\ \A x \in Workers : x # w => wpc'[x] = wpc[x]
    BY <1>1, <1>4 DEF TypeOK
  <2>2. holder'[t] = w /\ \A x \in Timers : x # t => holder'[x] = holder[x]
    BY <1>1, <1>4 DEF TypeOK, Locks
  <2>3. /\ \A x \in Workers : serves'[x] = t => x = w
        /\ tm'[t].st = "live" /\ tm'[t].running
    BY <1>1, <1>4, Served DEF Serving, Live
  <2>4. /\ tm[t].end = tm[t].base + tm[t].shots * tm[t].interval
        /\ tm[t].interval = 0 => tm[t].shots = 0
    BY <1>1, <1>4, Served DEF Counting
  <2>5. tm[t].shots \in Nat /\ tm'[t].shots = tm[t].shots + 1
    BY <1>1, <1>4, Fields
  <2>6. tm'[t].shots > 0 /\ tm'[t].shots - 1 = tm[t].shots
    BY <2>5
  <2>7. /\ tm'[t].end = tm'[t].base + (tm'[t].shots - 1) * tm'[t].interval
        /\ tm'[t].base + (tm'[t].shots - 1) * tm'[t].interval <= now
    BY <1>4, <2>4, <2>6
  <2>8. tm'[t].interval = 0 => tm'[t].shots = 1
    BY <1>4, <2>4, <2>5
  <2>9. \A x \in Workers : serves'[x] = None <=> wpc'[x] = "none"
    BY <1>1, <1>4, <2>1, Served DEF Serving
  <2>10. \A x \in Workers : serves'[x] = t => ~ (wpc'[x] \in {"look", "doze", "sleep"}) /\ holder'[t] = x
    BY <2>1, <2>2, <2>3
  <2>11. ASSUME NEW x \in Workers
         PROVE  \/ serves[x] = serves'[x] /\ wpc[x] = wpc'[x]
                \/ serves[x] \in {t, None} /\ serves'[x] \in {t, None}
    <3>1. CASE x = w
      BY <1>4, <3>1
    <3>2. CASE x # w
      BY <1>4, <2>1, <3>2
    <3> QED
      BY <3>1, <3>2
  <2> HIDE DEF t
  <2> QED
    BY <1>1, <1>4, <2>2, <2>3, <2>6, <2>7, <2>8, <2>9, <2>10, <2>11, OneTimer
<1> QED
  BY <1>1, <1>2, <1>3, <1>4, LookEffect

\* After a callback the next deadline is one period later.
LEMMA RearmServes ==
    ASSUME IInv, NEW w \in Workers, Calling(w), Rearm(w), now' = now
    PROVE  Serving' /\ Counting'
<1> DEFINE t == serves[w]
<1>1. TypeOK /\ t \in Timers /\ Live(t) /\ wpc[w] # "none"
  BY Served DEF Calling
<1>2. CASE Leave(w)
  BY <1>1, <1>2, LeaveServes
<1>3. CASE ~ Leave(w)
  <2>1. /\ tm[t].interval > 0
        /\ OthersSame(t)
        /\ tm'[t].st = tm[t].st /\ tm'[t].running = tm[t].running
        /\ tm'[t].end = tm[t].end + tm[t].interval
        /\ tm'[t].shots = tm[t].shots /\ tm'[t].interval = tm[t].interval
        /\ tm'[t].base = tm[t].base
        /\ wpc' = [wpc EXCEPT ![w] = "look"]
        /\ UNCHANGED <<holder, serves>>
    BY <1>1, <1>3, RearmEffect
  <2>2. wpc'[w] = "look" /\ \A x \in Workers : x # w => wpc'[x] = wpc[x]
    BY <1>1, <2>1 DEF TypeOK
  <2>3. /\ \A x \in Workers : serves'[x] = t => x = w
        /\ tm'[t].st = "live" /\ tm'[t].running
    BY <1>1, <2>1, Served DEF Serving, Live
  <2>4. tm[t].shots > 0 /\ tm[t].end = tm[t].base + (tm[t].shots - 1) * tm[t].interval
    BY Served DEF Counting
  <2>5. tm[t].shots \in Nat /\ tm[t].base \in Int /\ tm[t].interval \in Nat
    BY <1>1, Fields
  <2>6. (tm[t].shots - 1) * tm[t].interval = tm[t].shots * tm[t].interval - tm[t].interval
    BY <2>5
  <2>7. tm[t].shots * tm[t].interval \in Int
    BY <2>5
  <2>8. tm[t].end + tm[t].interval = tm[t].base + tm[t].shots * tm[t].interval
    BY <2>4, <2>5, <2>6, <2>7
  <2>9. tm'[t].end = tm'[t].base + tm'[t].shots * tm'[t].interval /\ tm'[t].interval # 0
    BY <2>1, <2>5, <2>8
  <2>10. tm'[t].shots > 0 => /\ tm'[t].base + (tm'[t].shots - 1) * tm'[t].interval <= now
                             /\ tm'[t].interval = 0 => tm'[t].shots = 1
    BY <1>1, <2>1, Served DEF Counting, NotEarly
  <2>11. \A x \in Workers : serves'[x] = None <=> wpc'[x] = "none"
    BY <1>1, <2>1, <2>2, Served DEF Serving
  <2>12. \A x \in Workers : serves'[x] = t => ~ Calling(x)'
    BY <2>2, <2>3 DEF Calling
  <2>13. ASSUME NEW x \in Workers
         PROVE  \/ serves[x] = serves'[x] /\ wpc[x] = wpc'[x]
                \/ serves[x] \in {t, None} /\ serves'[x] \in {t, None}
    <3>1. CASE x = w
      BY <2>1, <3>1
    <3>2. CASE x # w
      BY <2>1, <2>2, <3>2
    <3> QED
      BY <3>1, <3>2
  <2>14. \A x \in Timers : x # t => holder'[x] = holder[x]
    BY <2>1
  <2> HIDE DEF t
  <2> QED
    BY <1>1, <2>1, <2>3, <2>9, <2>10, <2>11, <2>12, <2>13, <2>14, OneTimer
<1> QED
  BY <1>2, <1>3

\* timer_new touches no timer in use.
LEMMA NewQuiet ==
    ASSUME IInv, NEW s \in Slots, NEW u \in Users, timer_new(s, u)
    PROVE  \A t \in Timers : tm'[t] = tm[t] \/ (~ Live(t) /\ tm'[t].shots = 0)
BY Served, NewEffect DEF OthersSame, Live

\* A lock of a slot, poll->lock and pids_lock are no timer's.
LEMMA OtherLocks ==
    ASSUME TypeOK, NEW l \in Slots \cup Groups \cup {Pids, Poll}, NEW v, holder' = [holder EXCEPT ![l] = v]
    PROVE  /\ \A t \in Timers : holder'[t] = holder[t]
           /\ holder'[l] = v /\ \A k \in Locks : k # l => holder'[k] = holder[k]
BY LocksAssumption DEF TypeOK, Locks

LEMMA OwnerLockKind ==
    ASSUME NEW s \in Slots
    PROVE  OwnerLock(s) \in Slots \cup Groups /\ Home[s] \in Groups
BY PlacesAssumption DEF OwnerLock

\* Every step keeps the threads of the timers in order, and their counts.
LEMMA ServingStep == IInv /\ [Next]_vars => Serving' /\ Counting'
<1> SUFFICES ASSUME IInv, [Next]_vars PROVE Serving' /\ Counting'
  OBVIOUS
<1>a. /\ TypeOK /\ now \in Int /\ now <= now
      /\ \A u \in Users : at[u] \in {"set", "delete", "close"} => on[u] \in Slots
  BY Served DEF TypeOK, IInv, InCalls
<1> USE DEF slots, workers
<1>1. CASE UNCHANGED vars
  BY <1>a, <1>1, Quiet DEF vars
<1>2. ASSUME NEW u \in Users, NEW s \in Slots, Call(u, s) PROVE Serving' /\ Counting'
  <2>1. CASE timerfd_create(u, s)
    BY <1>a, <2>1, NewQuiet, Quiet DEF timerfd_create
  <2>2. ASSUME NEW m \in Methods, timer_create(u, s, m) PROVE Serving' /\ Counting'
    BY <1>a, <2>2, NewQuiet, Quiet DEF timer_create
  <2>3. CASE SetBegin(u, s)
    <3>1. \A t \in Timers : tm'[t] = tm[t] \/ (~ Live(t) /\ tm'[t].shots = 0)
      BY <2>3, NewQuiet DEF SetBegin
    <3>2. \A t \in Timers : holder'[t] = holder[t]
      BY <1>a, <2>3, OwnerLockKind, OtherLocks DEF SetBegin
    <3> QED
      BY <1>a, <2>3, <3>1, <3>2, Quiet DEF SetBegin
  <2>4. CASE timerfd_read(u, s)
    BY <1>a, <2>4, Quiet DEF timerfd_read
  <2>5. CASE DeleteBegin(u, s)
    <3>1. \A t \in Timers : holder'[t] = holder[t]
      BY <1>a, <2>5, OwnerLockKind, OtherLocks DEF DeleteBegin
    <3> QED
      BY <1>a, <2>5, <3>1, Quiet DEF DeleteBegin
  <2>6. CASE CloseBegin(u, s)
    BY <1>a, <2>6, Quiet DEF CloseBegin
  <2>7. CASE PollBegin(u, s)
    <3>1. \A t \in Timers : holder'[t] = holder[t]
      BY <1>a, <2>7, OtherLocks DEF PollBegin
    <3> QED
      BY <1>a, <2>7, <3>1, Quiet DEF PollBegin
  <2> QED
    BY <1>2, <2>1, <2>2, <2>3, <2>4, <2>5, <2>6, <2>7 DEF Call
<1>3. ASSUME NEW u \in Users, Act(u) PROVE Serving' /\ Counting'
  <2>a. ASSUME NEW v, holder' = [holder EXCEPT ![Pids] = v] PROVE \A t \in Timers : holder'[t] = holder[t]
    BY <1>a, <2>a, OtherLocks
  <2>1. CASE TimerCreateFails(u)
    BY <1>a, <2>a, <2>1, Quiet DEF TimerCreateFails
  <2>2. CASE ExitBegin(u)
    BY <1>a, <2>a, <2>2, Quiet DEF ExitBegin
  <2>3. CASE ForkBegin(u)
    BY <1>a, <2>a, <2>3, Quiet DEF ForkBegin
  <2>4. CASE SetEnd(u)
    <3>1. PICK v \in Values, i \in Intervals : timer_set(ptr[on[u]], v, i)
      BY <2>4 DEF SetEnd
    <3>2. \A t \in Timers : holder'[t] = holder[t]
      BY <1>a, <2>4, OwnerLockKind, OtherLocks DEF SetEnd
    <3>3. now' = now
      BY <2>4 DEF SetEnd
    <3> QED
      BY <3>1, <3>2, <3>3, SetServes
  <2>5. CASE DeleteEnd(u)
    <3>1. \A t \in Timers : holder'[t] = holder[t]
      BY <1>a, <2>5, OwnerLockKind, OtherLocks DEF DeleteEnd
    <3> QED
      BY <2>5, <3>1, FreeServes DEF DeleteEnd
  <2>6. CASE CloseEnd(u)
    BY <2>6, FreeServes DEF CloseEnd
  <2>7. CASE ExitEnd(u)
    <3>1. now' = now /\ \A t \in Timers : holder'[t] = holder[t]
      BY <2>a, <2>7 DEF ExitEnd
    <3>2. CASE UNCHANGED <<tm, workers>>
      BY <1>a, <3>1, <3>2, Quiet
    <3>3. ASSUME NEW t \in Itimers(u), timer_free(t) PROVE Serving' /\ Counting'
      BY <3>1, <3>3, FreeServes
    <3> QED
      BY <2>7, <3>2, <3>3 DEF ExitEnd
  <2>8. CASE ForkEnd(u)
    BY <1>a, <2>a, <2>8, Quiet DEF ForkEnd
  <2>9. CASE PollEnd(u)
    <3>1. \A t \in Timers : holder'[t] = holder[t]
      BY <1>a, <2>9, OtherLocks DEF PollEnd
    <3> QED
      BY <1>a, <2>9, <3>1, Quiet DEF PollEnd
  <2> QED
    BY <1>3, <2>1, <2>2, <2>3, <2>4, <2>5, <2>6, <2>7, <2>8, <2>9 DEF Act, UserStep
<1>4. ASSUME NEW g \in Groups, Reap(g) PROVE Serving' /\ Counting'
  BY <1>a, <1>4, Quiet DEF Reap
<1>5. ASSUME NEW w \in Workers, WorkerStep(w) PROVE Serving' /\ Counting'
  <2>a. ASSUME NEW p \in {"look", "sleep", "wakeup"}, wpc' = [wpc EXCEPT ![w] = p],
               p # "wakeup" => ~ Calling(w) /\ wpc[w] \in {"doze", "sleep"}, p = "wakeup" => Calling(w),
               UNCHANGED <<now, tm, holder, serves>>
        PROVE  Serving' /\ Counting'
    <3>1. \A x \in Workers : /\ wpc'[x] # "none" <=> wpc[x] # "none"
                             /\ Calling(x)' <=> Calling(x)
                             /\ wpc'[x] \in {"look", "doze", "sleep"} <=> wpc[x] \in {"look", "doze", "sleep"}
      BY <1>a, <2>a DEF Calling, TypeOK
    <3>2. Serving'
      BY <2>a, <3>1, Served DEF Serving, Live
    <3>3. Counting'
      BY <2>a, <3>1, Served DEF Counting, NotEarly
    <3> QED
      BY <3>2, <3>3
  <2>1. CASE Look(w)
    BY <2>1, LookServes DEF Look
  <2>2. CASE Sleep(w)
    BY <2>a, <2>2 DEF Sleep, Calling
  <2>3. CASE Wake(w)
    BY <2>a, <2>3 DEF Wake, Calling
  <2>4. CASE CallTimerfd(w)
    BY <2>a, <2>4 DEF CallTimerfd, Calling
  <2>5. CASE PollWakeup(w)
    BY <2>5, RearmServes DEF PollWakeup, Calling
  <2>6. CASE CallSignal(w)
    BY <2>6, RearmServes DEF CallSignal, Calling
  <2> QED
    BY <1>5, <2>1, <2>2, <2>3, <2>4, <2>5, <2>6 DEF WorkerStep
<1>6. CASE Tick
  <2>1. now' = now + 1 /\ now' \in Int /\ now <= now'
    BY <1>a, <1>6 DEF Tick
  <2> QED
    BY <1>6, <2>1, Quiet DEF Tick
<1> QED
  BY <1>1, <1>2, <1>3, <1>4, <1>5, <1>6 DEF Next, Call, Act

-----------------------------------------------------------------------------
(* Calls in progress                                                       *)

\* A worker's lock is a timer's.
LEMMA WorkerLocks ==
    ASSUME IInv, NEW w \in Workers, WorkerStep(w)
    PROVE  \A l \in Slots \cup Groups \cup {Pids} : holder'[l] = holder[l]
<1>1. TypeOK
  BY Served
<1>2. ASSUME NEW v, holder' = [holder EXCEPT ![serves[w]] = v], serves[w] \in Timers
      PROVE  \A l \in Slots \cup Groups \cup {Pids} : holder'[l] = holder[l]
  BY <1>1, <1>2, LocksAssumption DEF TypeOK, Locks
<1>3. CASE Leave(w) /\ wpc[w] # "none"
  BY <1>2, <1>3, Served DEF Leave
<1>4. CASE UNCHANGED holder
  BY <1>4
<1>5. CASE Rearm(w) /\ wpc[w] # "none"
  BY <1>3, <1>4, <1>5 DEF Rearm
<1>6. CASE Look(w)
  <2>1. serves[w] \in Timers
    BY <1>6 DEF Look, Live
  <2> QED
    BY <1>2, <1>3, <1>6, <2>1 DEF Look
<1> QED
  BY <1>4, <1>5, <1>6 DEF WorkerStep, Sleep, Wake, CallTimerfd, PollWakeup, CallSignal

\* A step that changes none of what a call in progress has.
LEMMA InCallsKept ==
    ASSUME IInv, UNCHANGED <<at, on, ptr, open, group>>,
           \A l \in Slots \cup Groups \cup {Pids} : holder'[l] = holder[l]
    PROVE  InCalls'
<1>1. \A u \in Users : at[u] = "set" => OwnerLock(on[u]) \in Slots \cup Groups
  BY OwnerLockKind DEF IInv, InCalls
<1>2. \A u \in Users : at[u] = "delete" => Home[on[u]] \in Groups
  BY OwnerLockKind DEF IInv, InCalls
<1> QED
  BY <1>1, <1>2 DEF IInv, InCalls, Own, OwnerLock

\* A thread that enters or leaves a call.
LEMMA Turn ==
    ASSUME TypeOK, NEW u \in Users, NEW a, NEW s, Now(at, u, a), Now(on, u, s)
    PROVE  at'[u] = a /\ on'[u] = s /\ \A x \in Users : x # u => at'[x] = at[x] /\ on'[x] = on[x]
BY DEF TypeOK

\* Every step keeps the calls in progress valid.
LEMMA InCallsStep == IInv /\ [Next]_vars => InCalls'
<1> SUFFICES ASSUME IInv, [Next]_vars PROVE InCalls'
  OBVIOUS
<1>a. TypeOK /\ InCalls /\ Pointing
  BY DEF IInv
<1>b. \A l \in Slots \cup Groups : l # Pids /\ l # Poll /\ l \in Locks
  BY LocksAssumption DEF Locks
<1>c. \A u \in Users : u # Nobody /\ u # Lost
  BY ActorsAssumption
<1>d. \A u \in Users : at[u] \in {"set", "delete", "close"} =>
         OwnerLock(on[u]) \in Slots \cup Groups /\ Home[on[u]] \in Groups
  BY <1>a, OwnerLockKind DEF InCalls
<1>e. \A s \in Slots : /\ Kind[s] = "timerfd" => OwnerLock(s) = s
                       /\ Kind[s] # "timerfd" => OwnerLock(s) = Home[s]
  BY DEF OwnerLock
<1>1. CASE UNCHANGED vars
  BY <1>1, InCallsKept DEF vars, users, slots
<1>2. ASSUME NEW u \in Users, NEW s \in Slots, Call(u, s) PROVE InCalls'
  <2>a. ASSUME NEW t \in Timers, ptr' = [ptr EXCEPT ![s] = t]
        PROVE  \A x \in Slots : ptr[x] # None => ptr'[x] # None
    BY <1>a, <2>a, Served DEF TypeOK
  <2>b. timer_new(s, u) => \A x \in Slots : ptr[x] # None => ptr'[x] # None
    BY <1>a, <2>a, NewEffect
  <2>1. CASE timerfd_create(u, s)
    <3>1. \A x \in Slots : open[x] = "open" => open'[x] = "open"
      BY <1>a, <2>1 DEF timerfd_create, TypeOK
    <3> QED
      BY <1>a, <2>1, <2>b, <3>1 DEF timerfd_create, InCalls, users, Own, OwnerLock
  <2>2. ASSUME NEW m \in Methods, timer_create(u, s, m) PROVE InCalls'
    BY <1>a, <2>2, <2>b DEF timer_create, InCalls, users, Own, OwnerLock
  <2>3. CASE SetBegin(u, s)
    <3>1. /\ at'[u] = "set" /\ on'[u] = s
          /\ \A x \in Users : x # u => at'[x] = at[x] /\ on'[x] = on[x]
      BY <1>a, <2>3, Turn DEF SetBegin, Enter
    <3>2. /\ \A x \in Slots : ptr[x] # None => ptr'[x] # None
          /\ ptr'[s] = None => Kind[s] = "posix"
          /\ UNCHANGED <<open, group>>
      <4>1. CASE UNCHANGED <<tm, ptr>> /\ ~ (Kind[s] = "itimer" /\ ptr[s] = None)
        <5>1. ptr[s] = None => Kind[s] = "posix"
          BY <1>a, <2>3, <4>1, PlacesAssumption DEF SetBegin, InSet, Pointing, Kinds
        <5> QED
          BY <2>3, <4>1, <5>1 DEF SetBegin
      <4>2. CASE timer_new(s, u)
        <5>1. PICK t \in Timers : ptr' = [ptr EXCEPT ![s] = t]
          BY <1>a, <4>2, NewEffect
        <5>2. t # None
          BY Served
        <5> QED
          BY <1>a, <2>3, <2>b, <4>2, <5>1, <5>2 DEF SetBegin, TypeOK
      <4> QED
        BY <2>3, <4>1, <4>2 DEF SetBegin
    <3>3. /\ group[GroupOf[u]] = "live" /\ Own(u, s)
          /\ Kind[s] = "timerfd" => open[s] = "open" /\ \A x \in Users : at[x] = "close" => on[x] # s
      BY <2>3 DEF SetBegin, Idle, InSet
    <3>4. /\ holder[OwnerLock(s)] = Nobody /\ holder'[OwnerLock(s)] = u
          /\ \A k \in Locks : k # OwnerLock(s) => holder'[k] = holder[k]
      BY <1>a, <2>3, OwnerLockKind, OtherLocks DEF SetBegin, Free
    <3>5. \A l \in Locks, x \in Users : holder[l] = x => holder'[l] = x
      BY <1>c, <3>4
    <3>6. Pids \in Locks
      BY DEF Locks
    <3>7. \A x \in Users : at'[x] = "set" => holder'[OwnerLock(on'[x])] = x
      BY <1>a, <1>b, <1>d, <3>1, <3>4, <3>5 DEF InCalls
    <3>8. \A x \in Users : at'[x] = "delete" => Kind[on'[x]] = "posix" /\ holder'[Home[on'[x]]] = x
      BY <1>a, <1>b, <1>d, <3>1, <3>5 DEF InCalls
    <3>9. \A x \in Users : at'[x] = "close" =>
             /\ Kind[on'[x]] = "timerfd" /\ open'[on'[x]] = "open"
             /\ \A y \in Users : at'[y] \in {"set", "close"} /\ on'[y] = on'[x] => y = x
      BY <1>a, <3>1, <3>2, <3>3 DEF InCalls
    <3>10. \A x \in Users : at'[x] \in {"exit", "fork"} => holder'[Pids] = x
      BY <1>a, <3>1, <3>5, <3>6 DEF InCalls
    <3> QED
      BY <1>a, <3>1, <3>2, <3>3, <3>7, <3>8, <3>9, <3>10 DEF InCalls, Own, OwnerLock
  <2>4. CASE timerfd_read(u, s)
    BY <2>4, InCallsKept DEF timerfd_read, users
  <2>5. CASE DeleteBegin(u, s)
    <3>1. /\ at'[u] = "delete" /\ on'[u] = s
          /\ \A x \in Users : x # u => at'[x] = at[x] /\ on'[x] = on[x]
      BY <1>a, <2>5, Turn DEF DeleteBegin, Enter
    <3>2. /\ group[GroupOf[u]] = "live" /\ Own(u, s) /\ Kind[s] = "posix" /\ ptr[s] # None
          /\ UNCHANGED <<ptr, open, group>>
      BY <2>5 DEF DeleteBegin, Idle, slots
    <3>3. /\ holder[Home[s]] = Nobody /\ holder'[Home[s]] = u
          /\ \A k \in Locks : k # Home[s] => holder'[k] = holder[k]
      BY <1>a, <2>5, OwnerLockKind, OtherLocks DEF DeleteBegin, Free
    <3>4. \A l \in Locks, x \in Users : holder[l] = x => holder'[l] = x
      BY <1>c, <3>3
    <3>5. Pids \in Locks
      BY DEF Locks
    <3>6. \A x \in Users : at'[x] = "set" => holder'[OwnerLock(on'[x])] = x
      BY <1>a, <1>b, <1>d, <3>1, <3>4 DEF InCalls
    <3>7. \A x \in Users : at'[x] = "delete" => Kind[on'[x]] = "posix" /\ holder'[Home[on'[x]]] = x
      BY <1>a, <1>b, <1>d, <3>1, <3>2, <3>3, <3>4 DEF InCalls
    <3>8. \A x \in Users : at'[x] = "close" =>
             /\ Kind[on'[x]] = "timerfd" /\ open'[on'[x]] = "open"
             /\ \A y \in Users : at'[y] \in {"set", "close"} /\ on'[y] = on'[x] => y = x
      BY <1>a, <3>1, <3>2 DEF InCalls
    <3>9. \A x \in Users : at'[x] \in {"exit", "fork"} => holder'[Pids] = x
      BY <1>a, <3>1, <3>4, <3>5 DEF InCalls
    <3> QED
      BY <1>a, <3>1, <3>2, <3>6, <3>7, <3>8, <3>9 DEF InCalls, Own, OwnerLock
  <2>6. CASE CloseBegin(u, s)
    <3>1. /\ at'[u] = "close" /\ on'[u] = s
          /\ \A x \in Users : x # u => at'[x] = at[x] /\ on'[x] = on[x]
      BY <1>a, <2>6, Turn DEF CloseBegin, Enter
    <3>2. /\ group[GroupOf[u]] = "live" /\ Own(u, s) /\ open[s] = "open"
          /\ \A x \in Users : at[x] \in {"set", "close"} => on[x] # s
          /\ UNCHANGED <<ptr, open, group, holder>>
      BY <2>6 DEF CloseBegin, Idle, slots
    <3>3. Kind[s] = "timerfd" /\ ptr[s] # None
      BY <1>a, <3>2 DEF Pointing
    <3> QED
      BY <1>a, <3>1, <3>2, <3>3 DEF InCalls, Own, OwnerLock
  <2>7. CASE PollBegin(u, s)
    <3>1. /\ at'[u] = "poll"
          /\ \A x \in Users : x # u => at'[x] = at[x] /\ on'[x] = on[x]
      BY <1>a, <2>7, Turn DEF PollBegin, Enter
    <3>2. group[GroupOf[u]] = "live" /\ UNCHANGED <<ptr, open, group>>
      BY <2>7 DEF PollBegin, Idle, slots
    <3>3. \A k \in Locks : k # Poll => holder'[k] = holder[k]
      BY <1>a, <2>7, OtherLocks DEF PollBegin
    <3>4. Pids \in Locks /\ Pids # Poll
      BY LocksAssumption DEF Locks
    <3>5. \A x \in Users : at'[x] = "set" => x # u /\ holder'[OwnerLock(on'[x])] = x
      BY <1>a, <1>b, <1>d, <3>1, <3>3 DEF InCalls
    <3>6. \A x \in Users : at'[x] = "delete" => x # u /\ Kind[on'[x]] = "posix" /\ holder'[Home[on'[x]]] = x
      BY <1>a, <1>b, <1>d, <3>1, <3>3 DEF InCalls
    <3>7. \A x \in Users : at'[x] = "close" =>
             /\ Kind[on'[x]] = "timerfd" /\ open'[on'[x]] = "open"
             /\ \A y \in Users : at'[y] \in {"set", "close"} /\ on'[y] = on'[x] => y = x
      BY <1>a, <3>1, <3>2 DEF InCalls
    <3>8. \A x \in Users : at'[x] \in {"exit", "fork"} => holder'[Pids] = x
      BY <1>a, <3>1, <3>3, <3>4 DEF InCalls
    <3> QED
      BY <1>a, <3>1, <3>2, <3>5, <3>6, <3>7, <3>8 DEF InCalls, Own, OwnerLock
  <2> QED
    BY <1>2, <2>1, <2>2, <2>3, <2>4, <2>5, <2>6, <2>7 DEF Call
<1>3. ASSUME NEW u \in Users, Act(u) PROVE InCalls'
  <2>a. Pids \in Locks
    BY DEF Locks
  <2>b. ASSUME NEW v, holder' = [holder EXCEPT ![Pids] = v]
        PROVE  holder'[Pids] = v /\ \A l \in Slots \cup Groups : holder'[l] = holder[l]
    BY <1>a, <1>b, <2>a, <2>b DEF TypeOK
  <2>c. ASSUME \A l \in Slots \cup Groups : holder'[l] = holder[l],
               UNCHANGED <<ptr, open, group>>,
               \A x \in Users : x # u => at'[x] = at[x] /\ on'[x] = on[x],
               at'[u] \in {"idle", "gone", "exit", "fork"}, group[GroupOf[u]] = "live",
               \A x \in Users : at'[x] \in {"exit", "fork"} => holder'[Pids] = x,
               at'[u] = "fork" => GroupOf[u] = Parent /\ group[Child] = "new"
        PROVE  InCalls'
    <3>1. \A x \in Users : at'[x] = "set" => x # u /\ holder'[OwnerLock(on'[x])] = x
      BY <1>a, <1>d, <2>c DEF InCalls
    <3>2. \A x \in Users : at'[x] = "delete" => x # u /\ Kind[on'[x]] = "posix" /\ holder'[Home[on'[x]]] = x
      BY <1>a, <1>d, <2>c DEF InCalls
    <3>3. \A x \in Users : at'[x] = "close" =>
             /\ Kind[on'[x]] = "timerfd" /\ open'[on'[x]] = "open"
             /\ \A y \in Users : at'[y] \in {"set", "close"} /\ on'[y] = on'[x] => y = x
      BY <1>a, <2>c DEF InCalls
    <3> QED
      BY <1>a, <2>c, <3>1, <3>2, <3>3 DEF InCalls, Own, OwnerLock
  <2>1. CASE TimerCreateFails(u)
    <3>1. holder[Pids] = Nobody /\ \A l \in Slots \cup Groups : holder'[l] = holder[l]
      BY <2>1, <2>b DEF TimerCreateFails, Free
    <3>2. UNCHANGED <<at, on, ptr, open, group>> /\ at[u] = "idle" /\ group[GroupOf[u]] = "live"
      BY <2>1 DEF TimerCreateFails, users, slots, Idle
    <3>3. \A x \in Users : at[x] \notin {"exit", "fork"}
      BY <1>a, <1>c, <3>1 DEF InCalls
    <3> QED
      BY <2>c, <3>1, <3>2, <3>3
  <2>2. CASE ExitBegin(u)
    <3>1. at'[u] = "exit" /\ \A x \in Users : x # u => at'[x] = at[x] /\ on'[x] = on[x]
      BY <1>a, <2>2, Turn DEF ExitBegin, Enter
    <3>2. /\ holder[Pids] = Nobody /\ holder'[Pids] = u
          /\ \A l \in Slots \cup Groups : holder'[l] = holder[l]
      BY <2>2, <2>b DEF ExitBegin, Free
    <3>3. UNCHANGED <<ptr, open, group>> /\ group[GroupOf[u]] = "live"
      BY <2>2 DEF ExitBegin, slots, Idle
    <3>4. \A x \in Users : at[x] \notin {"exit", "fork"}
      BY <1>a, <1>c, <3>2 DEF InCalls
    <3> QED
      BY <2>c, <3>1, <3>2, <3>3, <3>4
  <2>3. CASE ForkBegin(u)
    <3>1. at'[u] = "fork" /\ \A x \in Users : x # u => at'[x] = at[x] /\ on'[x] = on[x]
      BY <1>a, <2>3, Turn DEF ForkBegin, Enter
    <3>2. /\ holder[Pids] = Nobody /\ holder'[Pids] = u
          /\ \A l \in Slots \cup Groups : holder'[l] = holder[l]
      BY <2>3, <2>b DEF ForkBegin, Free
    <3>3. /\ UNCHANGED <<ptr, open, group>> /\ group[GroupOf[u]] = "live"
          /\ GroupOf[u] = Parent /\ group[Child] = "new"
      BY <2>3 DEF ForkBegin, slots, Idle
    <3>4. \A x \in Users : at[x] \notin {"exit", "fork"}
      BY <1>a, <1>c, <3>2 DEF InCalls
    <3> QED
      BY <2>c, <3>1, <3>2, <3>3, <3>4
  <2>4. CASE SetEnd(u)
    <3>1. at'[u] = "idle" /\ \A x \in Users : x # u => at'[x] = at[x] /\ on'[x] = on[x]
      BY <1>a, <2>4, Turn DEF SetEnd, Return
    <3>2. at[u] = "set" /\ UNCHANGED <<ptr, open, group>>
      BY <2>4 DEF SetEnd, slots
    <3>3. \A k \in Locks : k # OwnerLock(on[u]) => holder'[k] = holder[k]
      BY <1>a, <1>b, <1>d, <2>4, <3>2, OtherLocks DEF SetEnd
    <3>4. holder[OwnerLock(on[u])] = u /\ OwnerLock(on[u]) # Pids
      BY <1>a, <1>b, <1>d, <3>2 DEF InCalls
    <3>5. \A l \in Locks, x \in Users : holder[l] = x /\ x # u => holder'[l] = x
      BY <3>3, <3>4
    <3>6. \A x \in Users : at'[x] = "set" => holder'[OwnerLock(on'[x])] = x
      BY <1>a, <1>b, <1>d, <3>1, <3>5 DEF InCalls
    <3>7. \A x \in Users : at'[x] = "delete" => Kind[on'[x]] = "posix" /\ holder'[Home[on'[x]]] = x
      BY <1>a, <1>b, <1>d, <3>1, <3>5 DEF InCalls
    <3>8. \A x \in Users : at'[x] = "close" =>
             /\ Kind[on'[x]] = "timerfd" /\ open'[on'[x]] = "open"
             /\ \A y \in Users : at'[y] \in {"set", "close"} /\ on'[y] = on'[x] => y = x
      BY <1>a, <3>1, <3>2 DEF InCalls
    <3>9. \A x \in Users : at'[x] \in {"exit", "fork"} => holder'[Pids] = x
      BY <1>a, <2>a, <3>1, <3>5 DEF InCalls
    <3> QED
      BY <1>a, <3>1, <3>2, <3>6, <3>7, <3>8, <3>9 DEF InCalls, Own, OwnerLock
  <2>5. CASE DeleteEnd(u)
    <3>1. at'[u] = "idle" /\ \A x \in Users : x # u => at'[x] = at[x] /\ on'[x] = on[x]
      BY <1>a, <2>5, Turn DEF DeleteEnd, Return
    <3>2. /\ at[u] = "delete" /\ UNCHANGED <<open, group>>
          /\ \A s \in Slots : s # on[u] => ptr'[s] = ptr[s]
      BY <1>a, <2>5 DEF DeleteEnd, slots, TypeOK
    <3>3. \A k \in Locks : k # Home[on[u]] => holder'[k] = holder[k]
      BY <1>a, <1>b, <1>d, <2>5, <3>2, OtherLocks DEF DeleteEnd
    <3>4. holder[Home[on[u]]] = u /\ Home[on[u]] # Pids /\ Kind[on[u]] = "posix"
      BY <1>a, <1>b, <1>d, <3>2 DEF InCalls
    <3>5. \A l \in Locks, x \in Users : holder[l] = x /\ x # u => holder'[l] = x
      BY <3>3, <3>4
    <3>6. \A x \in Users : at'[x] = "set" => holder'[OwnerLock(on'[x])] = x
      BY <1>a, <1>b, <1>d, <3>1, <3>5 DEF InCalls
    <3>7. \A x \in Users : at'[x] = "delete" => Kind[on'[x]] = "posix" /\ holder'[Home[on'[x]]] = x
      BY <1>a, <1>b, <1>d, <3>1, <3>5 DEF InCalls
    <3>8. \A x \in Users : at'[x] = "close" =>
             /\ Kind[on'[x]] = "timerfd" /\ open'[on'[x]] = "open"
             /\ \A y \in Users : at'[y] \in {"set", "close"} /\ on'[y] = on'[x] => y = x
      BY <1>a, <3>1, <3>2 DEF InCalls
    <3>9. \A x \in Users : at'[x] \in {"exit", "fork"} => holder'[Pids] = x
      BY <1>a, <2>a, <3>1, <3>5 DEF InCalls
    <3>10. \A x \in Users : x # u /\ at[x] \in {"set", "delete", "close"} => on[x] # on[u]
      <4> SUFFICES ASSUME NEW x \in Users, x # u, at[x] \in {"set", "delete", "close"}, on[x] = on[u]
                   PROVE  FALSE
        OBVIOUS
      <4>1. Kind[on[x]] = "posix" /\ on[x] \in Slots
        BY <1>a, <3>2, <3>4 DEF InCalls
      <4>2. at[x] # "close"
        BY <1>a, <4>1 DEF InCalls
      <4>3. OwnerLock(on[x]) = Home[on[x]]
        BY <1>e, <4>1
      <4>4. holder[Home[on[x]]] = x
        BY <1>a, <4>2, <4>3 DEF InCalls
      <4> QED
        BY <3>4, <4>4
    <3>11. \A x \in Users : at'[x] \in {"set", "delete", "close"} =>
              /\ on'[x] \in Slots /\ Own(x, on'[x])
              /\ ptr'[on'[x]] = None => at'[x] = "set" /\ Kind[on'[x]] = "posix"
      BY <1>a, <3>1, <3>2, <3>10 DEF InCalls, Own
    <3> QED
      BY <1>a, <3>1, <3>2, <3>6, <3>7, <3>8, <3>9, <3>11 DEF InCalls, Own, OwnerLock
  <2>6. CASE CloseEnd(u)
    <3>1. at'[u] = "idle" /\ \A x \in Users : x # u => at'[x] = at[x] /\ on'[x] = on[x]
      BY <1>a, <2>6, Turn DEF CloseEnd, Return
    <3>2. /\ at[u] = "close" /\ UNCHANGED <<group, holder>>
          /\ \A s \in Slots : s # on[u] => ptr'[s] = ptr[s] /\ open'[s] = open[s]
      BY <1>a, <2>6 DEF CloseEnd, TypeOK
    <3>3. \A x \in Users : x # u /\ at[x] \in {"set", "delete", "close"} => on[x] # on[u]
      BY <1>a, <3>2 DEF InCalls
    <3>4. \A x \in Users : at'[x] \in {"set", "delete", "close"} =>
             /\ on'[x] \in Slots /\ Own(x, on'[x]) /\ open'[on'[x]] = open[on'[x]]
             /\ ptr'[on'[x]] = None => at'[x] = "set" /\ Kind[on'[x]] = "posix"
      BY <1>a, <3>1, <3>2, <3>3 DEF InCalls, Own
    <3> QED
      BY <1>a, <3>1, <3>2, <3>4 DEF InCalls, Own, OwnerLock
  <2>7. CASE ExitEnd(u)
    <3>1. at'[u] = "gone" /\ \A x \in Users : x # u => at'[x] = at[x] /\ on'[x] = on[x]
      BY <1>a, <2>7, Turn DEF ExitEnd, Enter
    <3>2. /\ at[u] = "exit" /\ UNCHANGED <<ptr, open>>
          /\ \A l \in Slots \cup Groups : holder'[l] = holder[l]
      BY <2>7, <2>b DEF ExitEnd, slots
    <3>3. \/ group' = group
          \/ Others(u) = {} /\ group' = [group EXCEPT ![GroupOf[u]] = "dead"]
      BY <2>7 DEF ExitEnd
    <3>4. holder[Pids] = u /\ \A x \in Users : x # u => at[x] \notin {"exit", "fork"}
      BY <1>a, <3>2 DEF InCalls
    <3>5. \A x \in Users : x # u /\ at[x] \notin {"idle", "gone"} => group'[GroupOf[x]] = "live"
      BY <1>a, <3>3, PlacesAssumption DEF InCalls, TypeOK, Others
    <3>6. \A x \in Users : at'[x] = "set" => x # u /\ holder'[OwnerLock(on'[x])] = x
      BY <1>a, <1>d, <3>1, <3>2 DEF InCalls
    <3>7. \A x \in Users : at'[x] = "delete" => x # u /\ Kind[on'[x]] = "posix" /\ holder'[Home[on'[x]]] = x
      BY <1>a, <1>d, <3>1, <3>2 DEF InCalls
    <3>8. \A x \in Users : at'[x] = "close" =>
             /\ Kind[on'[x]] = "timerfd" /\ open'[on'[x]] = "open"
             /\ \A y \in Users : at'[y] \in {"set", "close"} /\ on'[y] = on'[x] => y = x
      BY <1>a, <3>1, <3>2 DEF InCalls
    <3> QED
      BY <1>a, <3>1, <3>2, <3>4, <3>5, <3>6, <3>7, <3>8 DEF InCalls, Own, OwnerLock
  <2>8. CASE ForkEnd(u)
    <3>1. at'[u] = "idle" /\ \A x \in Users : x # u => at'[x] = at[x] /\ on'[x] = on[x]
      BY <1>a, <2>8, Turn DEF ForkEnd, Return
    <3>2. /\ at[u] = "fork" /\ open' = open
          /\ \A l \in Slots \cup Groups : holder'[l] = holder[l]
          /\ \A s \in Slots : Home[s] # Child => ptr'[s] = ptr[s]
      BY <2>8, <2>b DEF ForkEnd
    <3>3. holder[Pids] = u /\ group[Child] = "new" /\ \A x \in Users : x # u => at[x] \notin {"exit", "fork"}
      BY <1>a, <3>2 DEF InCalls
    <3>4. \A x \in Users : at[x] \notin {"idle", "gone"} => GroupOf[x] # Child
      BY <1>a, <3>3 DEF InCalls
    <3>5. \A h \in Groups : h # Child => group'[h] = group[h]
      BY <1>a, <2>8 DEF ForkEnd, TypeOK
    <3>6. GroupOf \in [Users -> Groups]
      BY PlacesAssumption
    <3>7. \A x \in Users : at'[x] = "set" => x # u /\ holder'[OwnerLock(on'[x])] = x
      BY <1>a, <1>d, <3>1, <3>2 DEF InCalls
    <3>8. \A x \in Users : at'[x] = "delete" => x # u /\ Kind[on'[x]] = "posix" /\ holder'[Home[on'[x]]] = x
      BY <1>a, <1>d, <3>1, <3>2 DEF InCalls
    <3>9. \A x \in Users : at'[x] = "close" =>
             /\ Kind[on'[x]] = "timerfd" /\ open'[on'[x]] = "open"
             /\ \A y \in Users : at'[y] \in {"set", "close"} /\ on'[y] = on'[x] => y = x
      BY <1>a, <3>1, <3>2 DEF InCalls
    <3>10. \A x \in Users : at'[x] \in {"set", "delete", "close"} =>
              /\ on'[x] \in Slots /\ Own(x, on'[x])
              /\ ptr'[on'[x]] = None => at'[x] = "set" /\ Kind[on'[x]] = "posix"
      BY <1>a, <3>1, <3>2, <3>4 DEF InCalls, Own
    <3>11. \A x \in Users : at'[x] \notin {"idle", "gone"} => group'[GroupOf[x]] = "live"
      BY <1>a, <3>1, <3>4, <3>5, <3>6 DEF InCalls
    <3>12. \A x \in Users : at'[x] = "set" /\ Kind[on'[x]] = "timerfd" => open'[on'[x]] = "open"
      BY <1>a, <3>1, <3>2 DEF InCalls
    <3>13. \A x \in Users : at'[x] \notin {"exit", "fork"}
      BY <3>1, <3>3
    <3> QED
      BY <3>7, <3>8, <3>9, <3>10, <3>11, <3>12, <3>13 DEF InCalls
  <2>9. CASE PollEnd(u)
    <3>1. at'[u] = "idle" /\ \A x \in Users : x # u => at'[x] = at[x] /\ on'[x] = on[x]
      BY <1>a, <2>9, Turn DEF PollEnd, Return
    <3>2. at[u] = "poll" /\ UNCHANGED <<ptr, open, group>>
      BY <2>9 DEF PollEnd, slots
    <3>3. \A k \in Locks : k # Poll => holder'[k] = holder[k]
      BY <1>a, <2>9, OtherLocks DEF PollEnd
    <3>4. Pids # Poll /\ group[GroupOf[u]] = "live"
      BY <1>a, <3>2, LocksAssumption DEF InCalls
    <3>5. \A l \in Slots \cup Groups : holder'[l] = holder[l]
      BY <1>b, <3>3
    <3>6. \A x \in Users : at'[x] \in {"exit", "fork"} => holder'[Pids] = x
      BY <1>a, <2>a, <3>1, <3>3, <3>4 DEF InCalls
    <3> QED
      BY <2>c, <3>1, <3>2, <3>4, <3>5, <3>6
  <2> QED
    BY <1>3, <2>1, <2>2, <2>3, <2>4, <2>5, <2>6, <2>7, <2>8, <2>9 DEF Act, UserStep
<1>4. ASSUME NEW g \in Groups, Reap(g) PROVE InCalls'
  <2>1. group[g] = "dead" /\ \A h \in Groups : h # g => group'[h] = group[h]
    BY <1>a, <1>4 DEF Reap, TypeOK
  <2>2. GroupOf \in [Users -> Groups]
    BY PlacesAssumption
  <2>3. \A u \in Users : at[u] \notin {"idle", "gone"} => group'[GroupOf[u]] = "live"
    BY <1>a, <2>1, <2>2 DEF InCalls
  <2>4. \A u \in Users : at[u] = "fork" => group'[Child] = "new"
    BY <1>a, <2>1 DEF InCalls
  <2> QED
    BY <1>a, <1>4, <2>3, <2>4 DEF InCalls, Reap, users, slots, Own, OwnerLock
<1>5. ASSUME NEW w \in Workers, WorkerStep(w) PROVE InCalls'
  <2>1. UNCHANGED <<at, on, ptr, open, group>>
    BY <1>5 DEF WorkerStep, Look, Sleep, Wake, CallTimerfd, PollWakeup, CallSignal, users, slots
  <2> QED
    BY <1>5, <2>1, WorkerLocks, InCallsKept
<1>6. CASE Tick
  BY <1>6, InCallsKept DEF Tick, users, slots
<1> QED
  BY <1>1, <1>2, <1>3, <1>4, <1>5, <1>6 DEF Next, Call, Act

-----------------------------------------------------------------------------
(* Where the pointers lead                                                 *)

\* Timers may gain or lose a thread, times, or their memory, as long as none
\* that a slot leads to is given up, and as long as none is armed behind its
\* description's back.
LEMMA PointingKept ==
    ASSUME IInv, UNCHANGED <<ptr, open, copied>>,
           \A g \in Groups : group'[g] \in {"new", "live"} => group[g] \in {"new", "live"},
           \A t \in Timers : Live(t)' => /\ Live(t) /\ tm'[t].home = tm[t].home
                                         /\ tm'[t].active => tm[t].active,
           \A t \in Timers : Live(t) /\ ~ tm[t].dead => Live(t)' /\ ~ tm'[t].dead
    PROVE  Pointing'
<1>1. \A s \in Slots : Home[s] \in Groups
  BY OwnerLockKind
<1>2. Pointing /\ TypeOK
  BY DEF IInv
<1>3. \A s \in Slots : open'[s] = "open" => Kind[s] = "timerfd" /\ ptr'[s] # None
  BY <1>2 DEF Pointing
<1>4. \A s \in Slots :
         ptr'[s] # None /\ ptr'[s] \notin copied' /\ group'[Home[s]] \in {"new", "live"} =>
            ptr[s] \in Timers /\ Live(ptr[s])' /\ ~ tm'[ptr[s]].dead /\ tm'[ptr[s]].home = s
  BY <1>1, <1>2 DEF Pointing, Live
<1>5. \A t \in Timers : Live(t)' =>
         /\ tm'[t].home \in Slots
         /\ t \notin copied' /\ Kind[tm'[t].home] = "timerfd" /\ tm'[t].active =>
               open'[tm'[t].home] = "open" /\ ptr'[tm'[t].home] = t
  BY <1>2 DEF Pointing, Source
<1> QED
  BY <1>3, <1>4, <1>5 DEF Pointing, Source, Live

\* timer_new: the slot leads to the new timer.
LEMMA PointingNew ==
    ASSUME IInv, NEW s \in Slots, NEW u \in Users, timer_new(s, u), UNCHANGED <<copied, group>>,
           open[s] # "open",
           \A x \in Slots : open'[x] = "open" => open[x] = "open" \/ (x = s /\ Kind[s] = "timerfd"),
           \A x \in Slots : open[x] = "open" => open'[x] = "open"
    PROVE  Pointing'
<1>1. PICK t \in Timers :
         /\ tm[t].st = "unused"
         /\ OthersSame(t)
         /\ tm'[t].st = "live" /\ tm'[t].home = s
         /\ ~ tm'[t].active /\ ~ tm'[t].dead
         /\ ptr' = [ptr EXCEPT ![s] = t]
  BY Served, NewEffect
<1>2. Pointing /\ TypeOK /\ t # None /\ ~ Live(t)
  BY <1>1, Served DEF IInv, Live
<1>3. ptr'[s] = t /\ \A x \in Slots : x # s => ptr'[x] = ptr[x]
  BY <1>1, <1>2 DEF TypeOK
<1>4. \A x \in Slots : open'[x] = "open" => Kind[x] = "timerfd" /\ ptr'[x] # None
  BY <1>2, <1>3 DEF Pointing
<1>5. \A x \in Slots :
         ptr'[x] # None /\ ptr'[x] \notin copied' /\ group'[Home[x]] \in {"new", "live"} =>
            ptr'[x] \in Timers /\ tm'[ptr'[x]].st = "live" /\ ~ tm'[ptr'[x]].dead /\ tm'[ptr'[x]].home = x
  BY <1>1, <1>2, <1>3 DEF Pointing, Live, OthersSame
<1>6. \A x \in Timers : tm'[x].st = "live" =>
         /\ tm'[x].home \in Slots
         /\ x \notin copied' /\ Kind[tm'[x].home] = "timerfd" /\ tm'[x].active =>
               open'[tm'[x].home] = "open" /\ ptr'[tm'[x].home] = x
  <2> SUFFICES ASSUME NEW x \in Timers, tm'[x].st = "live"
               PROVE  /\ tm'[x].home \in Slots
                      /\ x \notin copied' /\ Kind[tm'[x].home] = "timerfd" /\ tm'[x].active =>
                           open'[tm'[x].home] = "open" /\ ptr'[tm'[x].home] = x
    OBVIOUS
  <2>1. CASE x = t
    BY <1>1, <2>1
  <2>2. CASE x # t
    <3>1. tm'[x] = tm[x] /\ Live(x)
      BY <1>1, <2>2 DEF OthersSame, Live
    <3> QED
      BY <1>2, <1>3, <3>1 DEF Pointing, Source
  <2> QED
    BY <2>1, <2>2
<1> QED
  BY <1>4, <1>5, <1>6 DEF Pointing, Source, Live

\* timer_free through a slot that is cleared, or whose process ends with it.
LEMMA PointingFree ==
    ASSUME IInv, NEW s \in Slots, ptr[s] # None, group[Home[s]] = "live", timer_free(ptr[s]),
           UNCHANGED copied,
           \A x \in Slots : x # s => ptr'[x] = ptr[x] /\ open'[x] = open[x],
           \A g \in Groups : group'[g] \in {"new", "live"} => group[g] \in {"new", "live"},
           \/ ptr'[s] = None /\ open'[s] # "open"
           \/ ptr'[s] = ptr[s] /\ open'[s] = open[s] /\ group'[Home[s]] \notin {"new", "live"}
    PROVE  Pointing'
<1> DEFINE t == ptr[s]
<1>1. /\ TypeOK /\ t \in Timers /\ Live(t)
      /\ OthersSame(t)
      /\ ~ tm'[t].active
      /\ tm'[t].st = "freed" \/ (tm'[t].st = "live" /\ tm'[t].home = tm[t].home)
  BY Served, FreeEffect DEF Live
<1>2. Pointing /\ \A x \in Slots : Home[x] \in Groups
  BY OwnerLockKind DEF IInv
<1>3. ptr'[s] \in {None, ptr[s]} /\ (open'[s] = "open" => open[s] = "open" /\ ptr'[s] = ptr[s])
  OBVIOUS
<1>4. \A x \in Slots : open'[x] = "open" => Kind[x] = "timerfd" /\ ptr'[x] # None
  BY <1>2, <1>3 DEF Pointing
<1>5. \A x \in Slots :
         ptr'[x] # None /\ ptr'[x] \notin copied' /\ group'[Home[x]] \in {"new", "live"} =>
            ptr'[x] \in Timers /\ tm'[ptr'[x]].st = "live" /\ ~ tm'[ptr'[x]].dead /\ tm'[ptr'[x]].home = x
  <2> SUFFICES ASSUME NEW x \in Slots, ptr'[x] # None, ptr'[x] \notin copied',
                      group'[Home[x]] \in {"new", "live"}
               PROVE  ptr'[x] \in Timers /\ tm'[ptr'[x]].st = "live" /\ ~ tm'[ptr'[x]].dead /\ tm'[ptr'[x]].home = x
    OBVIOUS
  <2>1. x # s /\ ptr'[x] = ptr[x]
    OBVIOUS
  <2>2. ptr[x] \in Timers /\ Live(ptr[x]) /\ ~ tm[ptr[x]].dead /\ tm[ptr[x]].home = x
    BY <1>2, <2>1 DEF Pointing, Live
  <2>3. ptr[x] # t
    <3> SUFFICES ASSUME ptr[x] = t PROVE FALSE
      OBVIOUS
    <3>1. tm[t].home = s
      BY <1>2, <2>1 DEF Pointing
    <3> QED
      BY <2>1, <2>2, <3>1
  <2> QED
    BY <1>1, <2>1, <2>2, <2>3 DEF OthersSame, Live
<1>6. \A x \in Timers : tm'[x].st = "live" =>
         /\ tm'[x].home \in Slots
         /\ x \notin copied' /\ Kind[tm'[x].home] = "timerfd" /\ tm'[x].active =>
               open'[tm'[x].home] = "open" /\ ptr'[tm'[x].home] = x
  <2> SUFFICES ASSUME NEW x \in Timers, tm'[x].st = "live"
               PROVE  /\ tm'[x].home \in Slots
                      /\ x \notin copied' /\ Kind[tm'[x].home] = "timerfd" /\ tm'[x].active =>
                           open'[tm'[x].home] = "open" /\ ptr'[tm'[x].home] = x
    OBVIOUS
  <2>1. CASE x = t
    BY <1>1, <1>2, <2>1 DEF Pointing
  <2>2. CASE x # t
    <3>1. tm'[x] = tm[x] /\ Live(x)
      BY <1>1, <2>2 DEF OthersSame, Live
    <3>2. /\ tm[x].home \in Slots
          /\ x \notin copied /\ Kind[tm[x].home] = "timerfd" /\ tm[x].active =>
                open[tm[x].home] = "open" /\ ptr[tm[x].home] = x
      BY <1>2, <3>1 DEF Pointing, Source
    <3> QED
      BY <2>2, <3>1, <3>2
  <2> QED
    BY <2>1, <2>2
<1> QED
  BY <1>4, <1>5, <1>6 DEF Pointing, Source, Live

\* timer_set through the slot of a process that lives.
LEMMA PointingSet ==
    ASSUME IInv, NEW s \in Slots, ptr[s] # None, group[Home[s]] = "live",
           Kind[s] = "timerfd" => open[s] = "open",
           NEW v \in Values, NEW i \in Intervals, timer_set(ptr[s], v, i),
           UNCHANGED <<ptr, open, group, copied>>
    PROVE  Pointing'
<1> DEFINE t == ptr[s]
<1>1. /\ TypeOK /\ t \in Timers /\ Live(t)
      /\ OthersSame(t)
      /\ tm'[t].st = "live" /\ tm'[t].home = tm[t].home /\ tm'[t].dead = tm[t].dead
  BY Served, SetEffect DEF Live
<1>2. Pointing
  BY DEF IInv
<1>3. t \notin copied => tm[t].home = s
  BY <1>2 DEF Pointing
<1>4. \A x \in Timers : Live(x)' => Live(x) /\ tm'[x].home = tm[x].home
  BY <1>1 DEF OthersSame, Live
<1>5. \A x \in Timers : Live(x) => Live(x)' /\ tm'[x].dead = tm[x].dead
  BY <1>1 DEF OthersSame, Live
<1>6. \A x \in Slots :
         ptr[x] # None /\ ptr[x] \notin copied /\ group[Home[x]] \in {"new", "live"} =>
            ptr[x] \in Timers /\ tm'[ptr[x]].st = "live" /\ ~ tm'[ptr[x]].dead /\ tm'[ptr[x]].home = x
  BY <1>2, <1>4, <1>5 DEF Pointing, Live
<1>7. ASSUME NEW x \in Timers, tm'[x].st = "live"
      PROVE  /\ tm'[x].home \in Slots
             /\ x \notin copied /\ Kind[tm'[x].home] = "timerfd" /\ tm'[x].active =>
                   open[tm'[x].home] = "open" /\ ptr[tm'[x].home] = x
  <2>1. Live(x) /\ tm'[x].home = tm[x].home
    BY <1>4, <1>7 DEF Live
  <2>2. CASE x = t
    BY <1>2, <1>3, <2>1, <2>2 DEF Pointing
  <2>3. CASE x # t
    BY <1>1, <1>2, <2>1, <2>3 DEF Pointing, Source, OthersSame
  <2> QED
    BY <2>2, <2>3
<1>8. \A x \in Slots : open[x] = "open" => Kind[x] = "timerfd" /\ ptr[x] # None
  BY <1>2 DEF Pointing
<1> QED
  BY <1>6, <1>7, <1>8 DEF Pointing, Source, Live

\* Every step keeps what the slots lead to.
LEMMA PointingStep == IInv /\ [Next]_vars => Pointing'
<1> SUFFICES ASSUME IInv, [Next]_vars PROVE Pointing'
  OBVIOUS
<1>a. TypeOK /\ Pointing /\ InCalls
  BY DEF IInv
<1>b. ASSUME UNCHANGED <<tm, ptr, open, copied, group>> PROVE Pointing'
  BY <1>b, PointingKept DEF Live
<1>1. CASE UNCHANGED vars
  BY <1>1, <1>b DEF vars, slots
<1>2. ASSUME NEW u \in Users, NEW s \in Slots, Call(u, s) PROVE Pointing'
  <2>1. CASE timerfd_create(u, s)
    <3>1. open' = [open EXCEPT ![s] = "open"] /\ open[s] = "none" /\ Kind[s] = "timerfd"
      BY <2>1 DEF timerfd_create
    <3>2. \A x \in Slots : /\ open'[x] = "open" => open[x] = "open" \/ x = s
                           /\ open[x] = "open" => open'[x] = "open"
      BY <1>a, <3>1 DEF TypeOK
    <3> QED
      BY <2>1, <3>1, <3>2, PointingNew DEF timerfd_create
  <2>2. ASSUME NEW m \in Methods, timer_create(u, s, m) PROVE Pointing'
    <3>1. open[s] # "open"
      BY <1>a, <2>2 DEF timer_create, Pointing
    <3> QED
      BY <2>2, <3>1, PointingNew DEF timer_create
  <2>3. CASE SetBegin(u, s)
    <3>1. CASE UNCHANGED <<tm, ptr>>
      BY <1>b, <2>3, <3>1 DEF SetBegin
    <3>2. CASE Kind[s] = "itimer" /\ timer_new(s, u)
      <4>1. open[s] # "open"
        BY <1>a, <3>2 DEF Pointing
      <4> QED
        BY <2>3, <3>2, <4>1, PointingNew DEF SetBegin
    <3> QED
      BY <2>3, <3>1, <3>2 DEF SetBegin
  <2>4. CASE timerfd_read(u, s)
    BY <1>b, <2>4 DEF timerfd_read
  <2>5. CASE DeleteBegin(u, s)
    BY <1>b, <2>5 DEF DeleteBegin, slots
  <2>6. CASE CloseBegin(u, s)
    BY <1>b, <2>6 DEF CloseBegin, slots
  <2>7. CASE PollBegin(u, s)
    BY <1>b, <2>7 DEF PollBegin, slots
  <2> QED
    BY <1>2, <2>1, <2>2, <2>3, <2>4, <2>5, <2>6, <2>7 DEF Call
<1>3. ASSUME NEW u \in Users, Act(u) PROVE Pointing'
  <2>1. CASE TimerCreateFails(u)
    BY <1>b, <2>1 DEF TimerCreateFails, slots
  <2>2. CASE ExitBegin(u)
    BY <1>b, <2>2 DEF ExitBegin, slots
  <2>3. CASE ForkBegin(u)
    BY <1>b, <2>3 DEF ForkBegin, slots
  <2>4. CASE SetEnd(u)
    <3>1. PICK v \in Values, i \in Intervals : timer_set(ptr[on[u]], v, i)
      BY <2>4 DEF SetEnd
    <3>a. ptr[on[u]] # None
      BY <3>1, Served DEF timer_set, Live
    <3>2. /\ on[u] \in Slots /\ ptr[on[u]] # None /\ group[Home[on[u]]] = "live"
          /\ Kind[on[u]] = "timerfd" => open[on[u]] = "open"
      BY <1>a, <2>4, <3>a DEF SetEnd, InCalls, Own
    <3>3. UNCHANGED <<ptr, open, group, copied>>
      BY <2>4 DEF SetEnd, slots
    <3> QED
      BY <3>1, <3>2, <3>3, PointingSet
  <2>5. CASE DeleteEnd(u)
    <3>1. /\ on[u] \in Slots /\ ptr[on[u]] # None /\ group[Home[on[u]]] = "live"
          /\ Kind[on[u]] = "posix"
      BY <1>a, <2>5 DEF DeleteEnd, InCalls, Own
    <3>2. open[on[u]] # "open"
      BY <1>a, <3>1 DEF Pointing
    <3>3. /\ timer_free(ptr[on[u]]) /\ UNCHANGED <<copied, group, open>>
          /\ ptr'[on[u]] = None /\ \A x \in Slots : x # on[u] => ptr'[x] = ptr[x]
      BY <1>a, <2>5, <3>1 DEF DeleteEnd, TypeOK
    <3> QED
      BY <3>1, <3>2, <3>3, PointingFree
  <2>6. CASE CloseEnd(u)
    <3>1. on[u] \in Slots /\ ptr[on[u]] # None /\ group[Home[on[u]]] = "live"
      BY <1>a, <2>6 DEF CloseEnd, InCalls, Own
    <3>2. /\ timer_free(ptr[on[u]]) /\ UNCHANGED <<copied, group>>
          /\ ptr'[on[u]] = None /\ open'[on[u]] = "closed"
          /\ \A x \in Slots : x # on[u] => ptr'[x] = ptr[x] /\ open'[x] = open[x]
      BY <1>a, <2>6, <3>1 DEF CloseEnd, TypeOK
    <3> QED
      BY <3>1, <3>2, PointingFree
  <2>7. CASE ExitEnd(u)
    <3>1. CASE UNCHANGED <<tm, group>>
      BY <1>b, <2>7, <3>1 DEF ExitEnd, slots
    <3>2. CASE group' = [group EXCEPT ![GroupOf[u]] = "dead"] /\ UNCHANGED tm
      <4>1. \A g \in Groups : group'[g] \in {"new", "live"} => group[g] \in {"new", "live"}
        BY <1>a, <3>2 DEF TypeOK
      <4> QED
        BY <2>7, <3>2, <4>1, PointingKept DEF ExitEnd, slots, Live
    <3>3. ASSUME NEW t \in Itimers(u), timer_free(t), group' = [group EXCEPT ![GroupOf[u]] = "dead"]
          PROVE  Pointing'
      <4>1. PICK s \in Slots : Own(u, s) /\ ptr[s] = t
        BY <3>3 DEF Itimers
      <4>2. ptr[s] # None /\ Home[s] = GroupOf[u] /\ group[Home[s]] = "live"
        BY <1>a, <2>7, <3>3, <4>1, Served, FreeEffect DEF ExitEnd, InCalls, Own
      <4>3. /\ group'[Home[s]] = "dead"
            /\ \A g \in Groups : group'[g] \in {"new", "live"} => group[g] \in {"new", "live"}
        BY <1>a, <3>3, <4>2, OwnerLockKind DEF TypeOK
      <4>4. UNCHANGED <<copied, ptr, open>>
        BY <2>7 DEF ExitEnd, slots
      <4> QED
        BY <3>3, <4>1, <4>2, <4>3, <4>4, PointingFree
    <3> QED
      BY <2>7, <3>1, <3>2, <3>3 DEF ExitEnd
  <2>8. CASE ForkEnd(u)
    <3> DEFINE copies == {s \in Slots : Home[s] = Child /\ Kind[s] = "posix"}
    <3>1. /\ UNCHANGED <<tm, open>> /\ group[Child] = "new" /\ group' = [group EXCEPT ![Child] = "live"]
          /\ ptr' = [s \in Slots |-> IF s \in copies THEN ptr[Original[s]] ELSE ptr[s]]
          /\ copied' = copied \cup ({ptr[Original[s]] : s \in copies} \ {None})
      BY <1>a, <2>8 DEF ForkEnd, InCalls
    <3>2. \A s \in copies : ptr'[s] # None => ptr'[s] \in copied'
      BY <3>1
    <3>3. \A s \in Slots \ copies : ptr'[s] = ptr[s]
      BY <3>1
    <3>4. copied \subseteq copied'
      BY <3>1
    <3>5. \A g \in Groups : group'[g] \in {"new", "live"} => group[g] \in {"new", "live"}
      BY <1>a, <3>1 DEF TypeOK
    <3>6. \A s \in Slots : Home[s] \in Groups
      BY OwnerLockKind
    <3>7. \A s \in Slots : Kind[s] = "timerfd" => s \notin copies
      OBVIOUS
    <3> HIDE DEF copies
    <3>8. \A s \in Slots : open'[s] = "open" => Kind[s] = "timerfd" /\ ptr'[s] # None
      BY <1>a, <3>1, <3>3, <3>7 DEF Pointing
    <3>9. \A s \in Slots :
             ptr'[s] # None /\ ptr'[s] \notin copied' /\ group'[Home[s]] \in {"new", "live"} =>
                ptr'[s] \in Timers /\ tm'[ptr'[s]].st = "live" /\ ~ tm'[ptr'[s]].dead /\ tm'[ptr'[s]].home = s
      BY <1>a, <3>1, <3>2, <3>3, <3>4, <3>5, <3>6 DEF Pointing, Live
    <3>10. \A t \in Timers : tm'[t].st = "live" =>
              /\ tm'[t].home \in Slots
              /\ t \notin copied' /\ Kind[tm'[t].home] = "timerfd" /\ tm'[t].active =>
                    open'[tm'[t].home] = "open" /\ ptr'[tm'[t].home] = t
      BY <1>a, <3>1, <3>3, <3>4, <3>7 DEF Pointing, Source, Live
    <3> QED
      BY <3>8, <3>9, <3>10 DEF Pointing, Source, Live
  <2>9. CASE PollEnd(u)
    BY <1>b, <2>9 DEF PollEnd, slots
  <2> QED
    BY <1>3, <2>1, <2>2, <2>3, <2>4, <2>5, <2>6, <2>7, <2>8, <2>9 DEF Act, UserStep
<1>4. ASSUME NEW g \in Groups, Reap(g) PROVE Pointing'
  <2>1. \A h \in Groups : group'[h] \in {"new", "live"} => group[h] \in {"new", "live"}
    BY <1>a, <1>4 DEF Reap, TypeOK
  <2> QED
    BY <1>4, <2>1, PointingKept DEF Reap, slots, Live
<1>5. ASSUME NEW w \in Workers, WorkerStep(w) PROVE Pointing'
  <2>1. UNCHANGED <<ptr, open, copied, group>>
    BY <1>5 DEF WorkerStep, Look, Sleep, Wake, CallTimerfd, PollWakeup, CallSignal, slots
  <2>a. ASSUME wpc[w] # "none", Leave(w) PROVE Pointing'
    <3> DEFINE t == serves[w]
    <3>1. /\ t \in Timers /\ Live(t) /\ OthersSame(t)
          /\ \/ tm[t].dead /\ tm'[t].st = "freed"
             \/ /\ ~ tm'[t].dead /\ tm'[t].st = "live"
                /\ tm'[t].home = tm[t].home /\ tm'[t].active = tm[t].active
      BY <2>a, Served, LeaveEffect
    <3>2. \A x \in Timers : Live(x)' => /\ Live(x) /\ tm'[x].home = tm[x].home
                                        /\ tm'[x].active => tm[x].active
      BY <3>1 DEF OthersSame, Live
    <3>3. \A x \in Timers : Live(x) /\ ~ tm[x].dead => Live(x)' /\ ~ tm'[x].dead
      BY <3>1 DEF OthersSame, Live
    <3> QED
      BY <2>1, <3>2, <3>3, PointingKept
  <2>b. ASSUME NEW t \in Timers, OthersSame(t), tm'[t].st = tm[t].st, tm'[t].home = tm[t].home,
               tm'[t].active => tm[t].active, tm'[t].dead = tm[t].dead
        PROVE  Pointing'
    <3>1. \A x \in Timers : Live(x)' => /\ Live(x) /\ tm'[x].home = tm[x].home
                                        /\ tm'[x].active => tm[x].active
      BY <2>b DEF OthersSame, Live
    <3>2. \A x \in Timers : Live(x) /\ ~ tm[x].dead => Live(x)' /\ ~ tm'[x].dead
      BY <2>b DEF OthersSame, Live
    <3> QED
      BY <2>1, <3>1, <3>2, PointingKept
  <2>c. ASSUME Calling(w), Rearm(w) PROVE Pointing'
    <3>1. wpc[w] # "none" /\ serves[w] \in Timers /\ Live(serves[w])
      BY <2>c, Served DEF Calling
    <3>2. CASE Leave(w)
      BY <2>a, <3>1, <3>2
    <3>3. CASE ~ Leave(w)
      BY <1>a, <2>b, <2>c, <3>1, <3>3, RearmEffect
    <3> QED
      BY <3>2, <3>3
  <2>2. CASE Look(w)
    <3>1. wpc[w] # "none" /\ serves[w] \in Timers
      BY <2>2 DEF Look, Live
    <3>2. CASE Leave(w)
      BY <2>a, <3>1, <3>2
    <3>3. CASE tm' = tm
      BY <1>b, <2>1, <3>3
    <3>4. CASE ~ Leave(w) /\ tm' # tm
      BY <1>a, <2>2, <2>b, <3>1, <3>4, LookEffect
    <3> QED
      BY <3>2, <3>3, <3>4
  <2>3. CASE PollWakeup(w)
    BY <2>3, <2>c DEF PollWakeup, Calling
  <2>4. CASE CallSignal(w)
    BY <2>4, <2>c DEF CallSignal, Calling
  <2>5. CASE Sleep(w) \/ Wake(w) \/ CallTimerfd(w)
    BY <1>b, <2>1, <2>5 DEF Sleep, Wake, CallTimerfd
  <2> QED
    BY <1>5, <2>2, <2>3, <2>4, <2>5 DEF WorkerStep
<1>6. CASE Tick
  BY <1>6, <1>b DEF Tick, slots
<1> QED
  BY <1>1, <1>2, <1>3, <1>4, <1>5, <1>6 DEF Next, Call, Act

-----------------------------------------------------------------------------
(* The theorems                                                            *)

LEMMA InductiveInit == Init => IInv
<1> SUFFICES ASSUME Init PROVE IInv
  OBVIOUS
<1>1. TypeOK
  BY TypedInit
<1>2. \A t \in Timers : tm[t].st = "unused" /\ tm[t].shots = 0
  BY DEF Init, Memory
<1>3. /\ \A w \in Workers : wpc[w] = "none" /\ serves[w] = None
      /\ \A u \in Users : at[u] = "idle"
      /\ \A s \in Slots : ptr[s] = None /\ open[s] = "none"
  BY DEF Init
<1>4. Serving
  BY <1>3 DEF Serving, Calling
<1>5. Counting
  BY <1>2, <1>3 DEF Counting, NotEarly, Calling
<1>6. InCalls
  BY <1>3 DEF InCalls
<1>7. Pointing
  BY <1>2, <1>3 DEF Pointing, Live
<1> QED
  BY <1>1, <1>4, <1>5, <1>6, <1>7 DEF IInv

LEMMA InductiveStep == IInv /\ [Next]_vars => IInv'
BY TypedStep, ServingStep, InCallsStep, PointingStep DEF IInv

\* The invariant leaves nothing freed in use: a callback that is under way has
\* an armed timer, and an armed timerfd has its description.
LEMMA InvariantSafe == IInv => NoUseAfterFree
<1> SUFFICES ASSUME IInv PROVE NoUseAfterFree
  OBVIOUS
<1>1. ASSUME NEW w \in Workers, wpc[w] # "none", serves[w] \notin copied
      PROVE  /\ Live(serves[w])
             /\ Calling(w) /\ Source(serves[w]) = "timerfd" => open[tm[serves[w]].home] = "open"
  BY <1>1, Served DEF IInv, Serving, Pointing
<1>2. ASSUME NEW u \in Users, at[u] \in {"set", "delete", "close"},
                    ptr[on[u]] \notin copied \cup {None}
      PROVE  Live(ptr[on[u]])
  <2>1. on[u] \in Slots /\ ptr[on[u]] # None /\ group[Home[on[u]]] = "live"
    BY <1>2 DEF IInv, InCalls, Own
  <2> QED
    BY <1>2, <2>1 DEF IInv, Pointing
<1> QED
  BY <1>1, <1>2 DEF NoUseAfterFree

\* The variables stay in their ranges: the fields of struct timer, the tables
\* that hold pointers to it, the locks and their holders (timer.h, time.c).
THEOREM TypeCorrect == Spec => []TypeOK
<1>1. IInv => TypeOK
  BY DEF IInv
<1> QED
  BY <1>1, InductiveInit, InductiveStep, PTL DEF Spec

\* The thread of a timer and the calls in progress use no timer that was freed,
\* and no callback has lost its description, whatever the threads, the timers
\* and their times: timer_free leaves a served timer to its thread (timer.c:20).
THEOREM UseCorrect == Spec => []NoUseAfterFree
BY InductiveInit, InductiveStep, InvariantSafe, PTL DEF Spec

\* A timer never calls back before its deadline, nor more often than it should,
\* for every interval: a late thread catches up and does not run ahead
\* (timer.c:46).
THEOREM NotEarlyCorrect == Spec => []NotEarly
<1>1. IInv => NotEarly
  BY DEF IInv, Counting
<1> QED
  BY <1>1, InductiveInit, InductiveStep, PTL DEF Spec
=============================================================================
