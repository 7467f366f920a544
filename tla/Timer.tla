-------------------------------- MODULE Timer --------------------------------
(***************************************************************************)
(* The timers: util/timer.c with its users in kernel/time.c (timerfd,      *)
(* setitimer and alarm, POSIX timers), and what kernel/exit.c and          *)
(* kernel/fork.c do to the timers of a process.                            *)
(*                                                                         *)
(* A struct timer is served by a host thread while it is armed.  The       *)
(* thread sleeps until the deadline with timer->lock free, and calls back  *)
(* with the lock held.  timer_set moves the deadline and timer_free asks   *)
(* for the end under the same lock; both wake the thread by a signal,      *)
(* which is lost while the thread has given back the lock but does not     *)
(* sleep yet.                                                              *)
(*                                                                         *)
(* A pointer to a timer is kept in a slot: a timerfd's description, the    *)
(* itimer of a group, or an entry of the group's POSIX timers.  The lock   *)
(* of the slot (fd->lock, group->lock) is held around timer_set, while the *)
(* callback takes fd->lock or pids_lock with timer->lock held.  The locks  *)
(* form cycles, and that is part of the behaviour: Stuck is the set of     *)
(* threads that wait for each other for ever.  The callback of a timerfd   *)
(* also takes poll->lock of the set that watches it, which is held by a    *)
(* thread in poll_wait while it takes fd->lock.                            *)
(***************************************************************************)
EXTENDS Integers, FiniteSets

CONSTANTS
    Users,      \* guest threads
    GroupOf,    \* the thread group of each
    Parent,     \* the group that exists at the start,
    Child,      \* and the one it may fork
    Slots,      \* where a pointer to a timer is kept
    Kind,       \* what a slot is: "timerfd", "itimer" or "posix"
    Home,       \* the group that has the slot
    Original,   \* the slot whose contents fork copies to this one
    Timers,     \* memory for timers; bound: each piece is used once
    Workers,    \* host threads that can serve a timer
    Values,     \* how long a call asks to wait; a negative value stands for an
                \* absolute time that has passed, zero disarms
    Intervals,
    Horizon,    \* bound: where the clock stops
    Pids,       \* pids_lock
    Poll,       \* poll->lock; bound: every timerfd is in one poll set
    Nobody,     \* holds a lock that is free
    Lost,       \* holds pids_lock after a call returned without giving it back
    None

Groups == {Parent, Child}
Kinds == {"timerfd", "itimer", "posix"}
Methods == {"signal", "none", "thread"}

ASSUME PlacesAssumption ==
    /\ Parent # Child
    /\ GroupOf \in [Users -> Groups]
    /\ Kind \in [Slots -> Kinds]
    /\ Home \in [Slots -> Groups]
    /\ Original \in [Slots -> Slots]
ASSUME TimesAssumption == Values \subseteq Int /\ Intervals \subseteq Nat /\ Horizon \in Nat
ASSUME ActorsAssumption ==
    /\ {Nobody, Lost} \cap (Users \cup Workers) = {}
    /\ Nobody # Lost
    /\ Users \cap Workers = {}
ASSUME LocksAssumption ==
    /\ Pids # Poll
    /\ {Pids, Poll, None} \cap (Timers \cup Slots \cup Groups) = {}
    /\ Timers \cap (Slots \cup Groups) = {}
    /\ Slots \cap Groups = {}

VARIABLES
    now,        \* the clock
    tm,         \* the timers: struct timer
    copied,     \* timers that a fork has left in two slots
    ptr,        \* the timer in a slot
    method,     \* how a POSIX timer notifies
    open,       \* a timerfd is none, open or closed
    ready,      \* timerfds whose expirations are not zero
    group,      \* a group is new, live, dead or freed
    holder,     \* who holds a lock between two steps
    at, on,     \* what a thread is doing, to which slot
    wpc, serves,\* what a worker is doing, for which timer
    nap         \* for how long it will sleep; once it sleeps, until when

slots == <<ptr, method, open, ready>>
users == <<at, on>>
workers == <<wpc, serves, nap>>
vars == <<now, tm, copied, slots, group, holder, users, workers>>

\* Besides the fields of the struct: whether its memory is in use, the slot it
\* was made for, which determines callback and data, and who made it (the data
\* of an itimer is that task). base is the deadline of the latest timer_set and
\* shots the number of callbacks since.
Memory(state) ==
    [st |-> state, active |-> FALSE, running |-> FALSE, dead |-> FALSE, end |-> 0, interval |-> 0,
     home |-> None, maker |-> None, base |-> 0, shots |-> 0]

Locks == Timers \cup Slots \cup Groups \cup {Pids, Poll}
Actors == Users \cup Workers
Free(l) == holder[l] = Nobody
Live(t) == t \in Timers /\ tm[t].st = "live"
Source(t) == Kind[tm[t].home]
\* fd->lock, or the lock of the group.
OwnerLock(s) == IF Kind[s] = "timerfd" THEN s ELSE Home[s]
Now(f, x, v) == f' = [f EXCEPT ![x] = v]
\* timer_settime has come to a POSIX timer that is not there: lock(NULL) is a
\* host SIGSEGV, and the program ends.
Ended == \E u \in Users : at[u] = "set" /\ ptr[on[u]] = None
\* A thread outside of these calls, in a process that lives.
Idle(u) == at[u] = "idle" /\ group[GroupOf[u]] = "live" /\ ~ Ended
Own(u, s) == Home[s] = GroupOf[u]
\* A timerfd that no close has begun to free: it is in the poll set.
InSet(s) == open[s] = "open" /\ \A x \in Users : at[x] = "close" => on[x] # s
Enter(u, call, s) == Now(at, u, call) /\ Now(on, u, s)
Return(u) == Now(at, u, "idle") /\ Now(on, u, None)
\* The calls that end in timer_free.
Freeing == {"delete", "close", "exit"}

Init ==
    /\ now = 0
    /\ tm = [t \in Timers |-> Memory("unused")]
    /\ copied = {}
    /\ ptr = [s \in Slots |-> None]
    /\ method = [s \in Slots |-> "none"]
    /\ open = [s \in Slots |-> "none"]
    /\ ready = {}
    /\ group = [g \in Groups |-> IF g = Parent THEN "live" ELSE "new"]
    /\ holder = [l \in Locks |-> Nobody]
    /\ at = [u \in Users |-> "idle"]
    /\ on = [u \in Users |-> None]
    /\ wpc = [w \in Workers |-> "none"]
    /\ serves = [w \in Workers |-> None]
    /\ nap = [w \in Workers |-> 0]

-----------------------------------------------------------------------------
(* util/timer.c as the calls see it. *)

\* timer_new for slot s.
timer_new(s, u) ==
    \E t \in Timers :
        /\ tm[t].st = "unused"
        /\ Now(tm, t, [Memory("live") EXCEPT !.home = s, !.maker = IF Kind[s] = "itimer" THEN u ELSE None])
        /\ Now(ptr, s, t)

\* pthread_kill of the thread that serves t: it ends a nanosleep, and does
\* nothing to a thread elsewhere.
Interrupt(t) ==
    LET woken == {w \in Workers : serves[w] = t /\ wpc[w] = "sleep"} IN
    /\ wpc' = [w \in Workers |-> IF w \in woken THEN "look" ELSE wpc[w]]
    /\ nap' = [w \in Workers |-> IF w \in woken THEN 0 ELSE nap[w]]
    /\ UNCHANGED serves

\* As timer_set would be if it asked for active where it asks for
\* thread_running.
SetStartsIdleOnly(t, value, every) ==
    /\ Live(t) /\ Free(t)
    /\ Now(tm, t, [tm[t] EXCEPT !.end = now + value, !.interval = every, !.active = value # 0,
                                !.running = tm[t].running \/ (value # 0 /\ ~ tm[t].active),
                                !.base = now + value, !.shots = 0])
    /\ IF tm[t].active THEN Interrupt(t)
       ELSE IF value = 0 \/ tm[t].running THEN UNCHANGED workers
       ELSE \E w \in Workers :
                /\ wpc[w] = "none"
                /\ Now(wpc, w, "look")
                /\ Now(serves, w, t)
                /\ UNCHANGED nap

\* timer_set: the whole of it is one critical section of timer->lock.
timer_set(t, value, every) ==
    /\ Live(t) /\ Free(t)
    /\ Now(tm, t, [tm[t] EXCEPT !.end = now + value, !.interval = every, !.active = value # 0,
                                !.running = tm[t].running \/ value # 0,
                                !.base = now + value, !.shots = 0])
    /\ IF tm[t].running THEN Interrupt(t)
       ELSE IF value = 0 THEN UNCHANGED workers
       ELSE \E w \in Workers :
                /\ wpc[w] = "none"
                /\ Now(wpc, w, "look")
                /\ Now(serves, w, t)
                /\ UNCHANGED nap

\* As timer_free would be if it did not leave the timer to its thread.
FreeServed(t) ==
    /\ Live(t) /\ Free(t)
    /\ Now(tm, t, Memory("freed"))
    /\ Interrupt(t)

\* timer_free: a timer that is served is left to its thread.
timer_free(t) ==
    /\ Live(t) /\ Free(t)
    /\ IF tm[t].running
       THEN Now(tm, t, [tm[t] EXCEPT !.active = FALSE, !.dead = TRUE]) /\ Interrupt(t)
       ELSE Now(tm, t, Memory("freed")) /\ UNCHANGED workers

-----------------------------------------------------------------------------
(* The calls that make and arm timers: kernel/time.c. *)

\* sys_timerfd_create: the description and its timer.
timerfd_create(u, s) ==
    /\ Idle(u) /\ Own(u, s)
    /\ Kind[s] = "timerfd" /\ open[s] = "none"
    /\ Now(open, s, "open")
    /\ timer_new(s, u)
    /\ UNCHANGED <<now, copied, method, ready, group, holder, users, workers>>

\* sys_timer_create, in one critical section of group->lock.
timer_create(u, s, m) ==
    /\ Idle(u) /\ Own(u, s)
    /\ Kind[s] = "posix" /\ ptr[s] = None
    /\ m = "thread" => Free(Pids)
    /\ Free(Home[s])
    /\ Now(method, s, m)
    /\ timer_new(s, u)
    /\ UNCHANGED <<now, copied, open, ready, group, holder, users, workers>>

\* sys_timer_create for a thread that does not exist returns with pids_lock.
TimerCreateFails(u) ==
    /\ Idle(u)
    /\ Free(Pids)
    /\ Now(holder, Pids, Lost)
    /\ UNCHANGED <<now, tm, copied, slots, group, users, workers>>

\* sys_timerfd_settime, sys_timer_settime and sys_setitimer take the lock of
\* the slot. The last makes the itimer if there is none; sys_timer_settime does
\* not look whether there is a timer.
SetBegin(u, s) ==
    /\ Idle(u) /\ Own(u, s)
    /\ Kind[s] = "timerfd" => InSet(s)
    /\ Free(OwnerLock(s))
    /\ IF Kind[s] = "itimer" /\ ptr[s] = None THEN timer_new(s, u) ELSE UNCHANGED <<tm, ptr>>
    /\ Now(holder, OwnerLock(s), u)
    /\ Enter(u, "set", s)
    /\ UNCHANGED <<now, copied, method, open, ready, group, workers>>

\* And call timer_set, with times that were read before.
SetEnd(u) ==
    /\ at[u] = "set"
    /\ \E value \in Values, every \in Intervals :
          now + value <= Horizon /\ timer_set(ptr[on[u]], value, every)
    /\ Now(holder, OwnerLock(on[u]), Nobody)
    /\ Return(u)
    /\ UNCHANGED <<now, copied, slots, group>>

\* timerfd_read returns the expirations and forgets them.
timerfd_read(u, s) ==
    /\ Idle(u) /\ Own(u, s)
    /\ open[s] = "open" /\ s \in ready
    /\ Free(s)
    /\ ready' = ready \ {s}
    /\ UNCHANGED <<now, tm, copied, ptr, method, open, group, holder, users, workers>>

\* poll_wait walks the set with poll->lock held, and comes to a timerfd,
PollBegin(u, s) ==
    /\ Idle(u) /\ Own(u, s)
    /\ Kind[s] = "timerfd" /\ InSet(s)
    /\ Free(Poll)
    /\ Now(holder, Poll, u)
    /\ Enter(u, "poll", s)
    /\ UNCHANGED <<now, tm, copied, slots, group, workers>>

\* of which timerfd_poll looks at the expirations, under fd->lock.
PollEnd(u) ==
    /\ at[u] = "poll"
    /\ Free(on[u])
    /\ Now(holder, Poll, Nobody)
    /\ Return(u)
    /\ UNCHANGED <<now, tm, copied, slots, group, workers>>

-----------------------------------------------------------------------------
(* The ways a timer is given up. *)

\* sys_timer_delete keeps group->lock while it calls timer_free.
DeleteBegin(u, s) ==
    /\ Idle(u) /\ Own(u, s)
    /\ Kind[s] = "posix" /\ ptr[s] # None
    /\ Free(Home[s])
    /\ Now(holder, Home[s], u)
    /\ Enter(u, "delete", s)
    /\ UNCHANGED <<now, tm, copied, slots, group, workers>>

DeleteEnd(u) ==
    /\ at[u] = "delete"
    /\ timer_free(ptr[on[u]])
    /\ Now(ptr, on[u], None)
    /\ Now(holder, Home[on[u]], Nobody)
    /\ Return(u)
    /\ UNCHANGED <<now, copied, method, open, ready, group>>

\* fd_close on the last reference, which no call holds any more:
\* poll_cleanup_fd takes it out of the poll set, timerfd_close runs without a
\* lock, then the description is freed.
CloseBegin(u, s) ==
    /\ Idle(u) /\ Own(u, s)
    /\ open[s] = "open"
    /\ \A x \in Users : at[x] \in {"set", "close"} => on[x] # s
    /\ Free(Poll)
    /\ Enter(u, "close", s)
    /\ UNCHANGED <<now, tm, copied, slots, group, holder, workers>>

CloseEnd(u) ==
    /\ at[u] = "close"
    /\ timer_free(ptr[on[u]])
    /\ Now(open, on[u], "closed")
    /\ Now(ptr, on[u], None)
    /\ ready' = ready \ {on[u]}
    /\ Return(u)
    /\ UNCHANGED <<now, copied, method, group, holder>>

Others(u) == {x \in Users \ {u} : GroupOf[x] = GroupOf[u] /\ at[x] # "gone"}
Itimers(u) == {ptr[s] : s \in {x \in Slots : Own(u, x) /\ Kind[x] = "itimer"}} \ {None}

\* do_exit: the descriptors are closed, then it takes pids_lock.
ExitBegin(u) ==
    /\ Idle(u)
    /\ Others(u) = {} => \A s \in Slots : Own(u, s) => open[s] # "open"
    /\ Free(Pids)
    /\ Now(holder, Pids, u)
    /\ Enter(u, "exit", None)
    /\ UNCHANGED <<now, tm, copied, slots, group, workers>>

\* exit_tgroup: the last thread frees the itimer, and no POSIX timer.
ExitEnd(u) ==
    /\ at[u] = "exit"
    /\ IF Others(u) # {}
       THEN UNCHANGED <<tm, workers, group>>
       ELSE /\ Now(group, GroupOf[u], "dead")
            /\ \/ Itimers(u) = {} /\ UNCHANGED <<tm, workers>>
               \/ \E t \in Itimers(u) : timer_free(t)
    /\ Now(holder, Pids, Nobody)
    /\ Enter(u, "gone", None)
    /\ UNCHANGED <<now, copied, slots>>

\* The parent's wait frees the group, with its POSIX timers in it.
Reap(g) ==
    /\ group[g] = "dead"
    /\ Free(Pids)
    /\ Now(group, g, "freed")
    /\ UNCHANGED <<now, tm, copied, slots, holder, users, workers>>

\* copy_task takes pids_lock, then group->lock;
ForkBegin(u) ==
    /\ Idle(u) /\ GroupOf[u] = Parent /\ group[Child] = "new"
    /\ Free(Pids)
    /\ Now(holder, Pids, u)
    /\ Enter(u, "fork", None)
    /\ UNCHANGED <<now, tm, copied, slots, group, workers>>

\* tgroup_copy takes over the pointers to the POSIX timers, not the itimer.
ForkEnd(u) ==
    /\ at[u] = "fork"
    /\ Free(Parent)
    /\ LET copies == {s \in Slots : Home[s] = Child /\ Kind[s] = "posix"} IN
       /\ ptr' = [s \in Slots |-> IF s \in copies THEN ptr[Original[s]] ELSE ptr[s]]
       /\ method' = [s \in Slots |-> IF s \in copies THEN method[Original[s]] ELSE method[s]]
       /\ copied' = copied \cup ({ptr[Original[s]] : s \in copies} \ {None})
    /\ Now(group, Child, "live")
    /\ Now(holder, Pids, Nobody)
    /\ Return(u)
    /\ UNCHANGED <<now, tm, open, ready, workers>>

-----------------------------------------------------------------------------
(* timer_thread *)

\* As the end of timer_thread would be without its look at dead.
LeaveUnfreed(w) ==
    LET t == serves[w] IN
    /\ Now(tm, t, [tm[t] EXCEPT !.running = FALSE])
    /\ Now(holder, t, Nobody)
    /\ Now(wpc, w, "none")
    /\ Now(serves, w, None)

\* The thread ends: it frees the timer if timer_free left that to it.
Leave(w) ==
    LET t == serves[w] IN
    /\ Now(tm, t, IF tm[t].dead THEN Memory("freed") ELSE [tm[t] EXCEPT !.running = FALSE])
    /\ Now(holder, t, Nobody)
    /\ Now(wpc, w, "none")
    /\ Now(serves, w, None)

\* As the loop would be if it did not compute the remaining time again after
\* a nanosleep.
LookTrusting(w) ==
    LET t == serves[w] IN
    /\ wpc[w] = "look"
    /\ Live(t) /\ holder[t] \in {Nobody, w}
    /\ \/ /\ tm[t].active
          /\ Now(holder, t, w)
          /\ Now(wpc, w, "call")
          /\ Now(tm, t, [tm[t] EXCEPT !.shots = tm[t].shots + 1])
          /\ UNCHANGED <<serves, nap>>
       \/ ~ tm[t].active /\ Leave(w) /\ UNCHANGED nap
    /\ UNCHANGED <<now, copied, slots, group, users>>

\* The top of the loop, with the lock taken, or kept since the callback.
Look(w) ==
    LET t == serves[w] IN
    /\ wpc[w] = "look"
    /\ Live(t) /\ holder[t] \in {Nobody, w}
    /\ \/ /\ tm[t].active /\ tm[t].end > now
          /\ Now(holder, t, Nobody)
          /\ Now(wpc, w, "doze")
          /\ Now(nap, w, tm[t].end - now)
          /\ UNCHANGED <<tm, serves>>
       \/ /\ tm[t].active /\ tm[t].end <= now
          /\ Now(holder, t, w)
          /\ Now(wpc, w, "call")
          /\ Now(tm, t, [tm[t] EXCEPT !.shots = tm[t].shots + 1])
          /\ UNCHANGED <<serves, nap>>
       \/ ~ tm[t].active /\ Leave(w) /\ UNCHANGED nap
    /\ UNCHANGED <<now, copied, slots, group, users>>

\* nanosleep begins, without the lock.
Sleep(w) ==
    /\ wpc[w] = "doze"
    /\ Now(wpc, w, "sleep")
    /\ Now(nap, w, IF now + nap[w] < Horizon THEN now + nap[w] ELSE Horizon)
    /\ UNCHANGED <<now, tm, copied, slots, group, holder, users, serves>>

\* It ends by itself.
Wake(w) ==
    /\ wpc[w] = "sleep" /\ nap[w] <= now
    /\ Now(wpc, w, "look")
    /\ Now(nap, w, 0)
    /\ UNCHANGED <<now, tm, copied, slots, group, holder, users, serves>>

\* What follows the callback: a periodic timer goes on from its last deadline,
\* without giving back the lock.
Rearm(w) ==
    LET t == serves[w] IN
    IF tm[t].active /\ tm[t].interval > 0
    THEN /\ Now(tm, t, [tm[t] EXCEPT !.end = tm[t].end + tm[t].interval])
         /\ Now(wpc, w, "look")
         /\ UNCHANGED <<holder, serves>>
    ELSE Leave(w)

\* timerfd_callback, up to its poll_wakeup
CallTimerfd(w) ==
    LET s == tm[serves[w]].home IN
    /\ wpc[w] = "call" /\ Kind[s] = "timerfd"
    /\ Free(s)
    /\ ready' = ready \cup {s}
    /\ Now(wpc, w, "wakeup")
    /\ UNCHANGED <<now, tm, copied, ptr, method, open, group, holder, users, serves, nap>>

\* poll_wakeup takes poll->lock of the set the timerfd is in, with timer->lock
\* held.
PollWakeup(w) ==
    /\ wpc[w] = "wakeup"
    /\ InSet(tm[serves[w]].home) => Free(Poll)
    /\ Rearm(w)
    /\ UNCHANGED <<now, copied, slots, group, users, nap>>

\* itimer_notify takes none of these locks. posix_timer_callback takes
\* pids_lock, unless the timer does not notify.
CallSignal(w) ==
    LET s == tm[serves[w]].home IN
    /\ wpc[w] = "call" /\ Kind[s] # "timerfd"
    /\ Kind[s] = "posix" /\ method[s] # "none" => Free(Pids)
    /\ Rearm(w)
    /\ UNCHANGED <<now, copied, slots, group, users, nap>>

Tick ==
    /\ now < Horizon
    /\ now' = now + 1
    /\ UNCHANGED <<tm, copied, slots, group, holder, users, workers>>

-----------------------------------------------------------------------------
UserStep(u) == SetEnd(u) \/ PollEnd(u) \/ DeleteEnd(u) \/ CloseEnd(u) \/ ExitEnd(u) \/ ForkEnd(u)
WorkerStep(w) ==
    Look(w) \/ Sleep(w) \/ Wake(w) \/ CallTimerfd(w) \/ PollWakeup(w) \/ CallSignal(w)

Next ==
    \/ \E u \in Users, s \in Slots :
          \/ timerfd_create(u, s)
          \/ \E m \in Methods : timer_create(u, s, m)
          \/ SetBegin(u, s)
          \/ PollBegin(u, s)
          \/ timerfd_read(u, s)
          \/ DeleteBegin(u, s)
          \/ CloseBegin(u, s)
    \/ \E u \in Users : TimerCreateFails(u) \/ ExitBegin(u) \/ ForkBegin(u) \/ UserStep(u)
    \/ \E g \in Groups : Reap(g)
    \/ \E w \in Workers : WorkerStep(w)
    \/ Tick

Spec == Init /\ [][Next]_vars

\* Host threads run, and get the locks they wait for; time passes. Nothing
\* makes a guest begin a call.
Fairness ==
    /\ WF_vars(Tick)
    /\ \A u \in Users : SF_vars(UserStep(u))
    /\ \A w \in Workers : SF_vars(WorkerStep(w))
FairSpec == Spec /\ Fairness

-----------------------------------------------------------------------------
(* Properties *)

TimerType ==
    [st : {"unused", "live", "freed"}, active : BOOLEAN, running : BOOLEAN, dead : BOOLEAN,
     end : Int, interval : Nat, home : Slots \cup {None}, maker : Users \cup {None},
     base : Int, shots : Nat]

\* What the variables range over.
TypeOK ==
    /\ now \in 0 .. Horizon
    /\ tm \in [Timers -> TimerType]
    /\ copied \subseteq Timers
    /\ ptr \in [Slots -> Timers \cup {None}]
    /\ method \in [Slots -> Methods]
    /\ open \in [Slots -> {"none", "open", "closed"}]
    /\ ready \subseteq Slots
    /\ group \in [Groups -> {"new", "live", "dead", "freed"}]
    /\ holder \in [Locks -> Actors \cup {Nobody, Lost}]
    /\ at \in [Users -> {"idle", "set", "poll", "fork", "gone"} \cup Freeing]
    /\ on \in [Users -> Slots \cup {None}]
    /\ wpc \in [Workers -> {"none", "look", "doze", "sleep", "call", "wakeup"}]
    /\ serves \in [Workers -> Timers \cup {None}]
    /\ nap \in [Workers -> Int]

Calling(w) == wpc[w] \in {"call", "wakeup"}

\* Neither the thread of a timer nor a call in progress uses a timer that has
\* been freed, and no callback runs on a description that has been freed:
\* whoever returns from timer_free may free what the callback uses (timer.c:20).
\* Timers that a fork has copied are exempt: the code frees them twice. A call
\* that finds no timer at all is not one that uses a freed timer: SetHasTimer.
NoUseAfterFree ==
    /\ \A w \in Workers : wpc[w] # "none" /\ serves[w] \notin copied =>
          /\ Live(serves[w])
          /\ Calling(w) /\ Source(serves[w]) = "timerfd" => open[tm[serves[w]].home] = "open"
    /\ \A u \in Users : at[u] \in {"set", "delete", "close"} /\ ptr[on[u]] \notin copied \cup {None} =>
          Live(ptr[on[u]])

\* A timer calls back once for each timer_set, and if it is periodic no more
\* often than periods have passed since the deadline; a late thread catches up
\* and never runs ahead (timer.c:46).
NotEarly ==
    \A t \in Timers : tm[t].shots > 0 =>
        /\ tm[t].base + (tm[t].shots - 1) * tm[t].interval <= now
        /\ tm[t].interval = 0 => tm[t].shots = 1

\* What a thread waits for: timer->lock, a lock of the slot, poll->lock,
\* pids_lock.
Wants(u) ==
    IF at[u] \in {"set", "delete", "close"} THEN {ptr[on[u]]}
    ELSE IF at[u] = "poll" THEN {on[u]}
    ELSE IF at[u] = "exit" /\ Others(u) = {} THEN Itimers(u)
    ELSE IF at[u] = "fork" THEN {Parent}
    ELSE {}
Awaits(w) ==
    LET s == tm[serves[w]].home IN
    CASE wpc[w] = "look" -> {serves[w]}
      [] wpc[w] = "call" /\ Kind[s] = "timerfd" -> {s}
      [] wpc[w] = "call" /\ Kind[s] = "posix" /\ method[s] # "none" -> {Pids}
      [] wpc[w] = "wakeup" /\ InSet(s) -> {Poll}
      [] OTHER -> {}
WaitsFor(a) == IF a \in Users THEN Wants(a) ELSE Awaits(a)
\* Threads that wait for each other, for a lock that was lost, or that have
\* come upon a freed timer.
Stuck ==
    UNION {S \in SUBSET Actors : \A a \in S : \E l \in WaitsFor(a) \ {None} :
              holder[l] \in (S \cup {Lost}) \ {a} \/ (l \in Timers /\ ~ Live(l))}
StuckOn(t) ==
    \/ \E w \in Workers : serves[w] = t /\ w \in Stuck
    \/ \E u \in Users : t \in Wants(u) /\ u \in Stuck

\* A timer whose deadline comes calls back, and the callback returns, unless it
\* is disarmed or set again first: the signal that timer_set sends may be lost
\* (timer.c:39), the deadline may not. A cycle of locks is exempt, and the end
\* of the program.
Armed(t) == Live(t) /\ tm[t].active /\ tm[t].shots = 0 /\ tm[t].end <= Horizon
Fired(t) == tm[t].shots > 0 /\ \A w \in Workers : serves[w] = t => ~ Calling(w)
ArmedFires == \A t \in Timers : Armed(t) ~> ~ tm[t].active \/ Fired(t) \/ StuckOn(t) \/ Ended

\* What timer_free was called for is freed in the end, and its caller returns
\* (timer.c:54). A cycle of locks and the end of the program are exempt, and a
\* timer that a fork has copied: the other process may set it again.
Asked(t) == tm[t].dead \/ \E u \in Users : at[u] \in Freeing /\ t \in Wants(u)
FreedInTheEnd ==
    \A t \in Timers : Asked(t) ~> tm[t].st = "freed" \/ t \in copied \/ StuckOn(t) \/ Ended

-----------------------------------------------------------------------------
(* The inductive invariant *)

\* A thread serves a timer that is there and marked as served; no other thread
\* does. It calls back with timer->lock held.
Serving ==
    /\ \A w \in Workers : serves[w] = None <=> wpc[w] = "none"
    /\ \A w \in Workers : serves[w] # None => Live(serves[w]) /\ tm[serves[w]].running
    /\ \A w, x \in Workers : serves[w] = serves[x] /\ serves[w] # None => w = x
    /\ \A w \in Workers : Calling(w) => holder[serves[w]] = w /\ tm[serves[w]].active

\* The deadline is where the callbacks so far put it, so that an armed timer
\* that does not repeat has not called back yet.
Counting ==
    /\ NotEarly
    /\ \A w \in Workers : LET r == tm[serves[w]] IN
          /\ Calling(w) => r.shots > 0 /\ r.end = r.base + (r.shots - 1) * r.interval
          /\ wpc[w] \in {"look", "doze", "sleep"} /\ r.active =>
                /\ r.end = r.base + r.shots * r.interval
                /\ r.interval = 0 => r.shots = 0

\* A call in progress works on a slot of its process, which lives, and holds
\* the lock of the slot; a close has the description for itself. Only the slot
\* of a POSIX timer that is set may be empty.
InCalls ==
    /\ \A u \in Users : at[u] \notin {"idle", "gone"} => group[GroupOf[u]] = "live"
    /\ \A u \in Users : at[u] \in {"set", "delete", "close"} =>
          /\ on[u] \in Slots /\ Own(u, on[u])
          /\ ptr[on[u]] = None => at[u] = "set" /\ Kind[on[u]] = "posix"
    /\ \A u \in Users : at[u] = "set" =>
          /\ holder[OwnerLock(on[u])] = u
          /\ Kind[on[u]] = "timerfd" => open[on[u]] = "open"
    /\ \A u \in Users : at[u] = "delete" => Kind[on[u]] = "posix" /\ holder[Home[on[u]]] = u
    /\ \A u \in Users : at[u] = "close" =>
          /\ Kind[on[u]] = "timerfd" /\ open[on[u]] = "open"
          /\ \A x \in Users : at[x] \in {"set", "close"} /\ on[x] = on[u] => x = u
    /\ \A u \in Users : at[u] \in {"exit", "fork"} => holder[Pids] = u
    /\ \A u \in Users : at[u] = "fork" => GroupOf[u] = Parent /\ group[Child] = "new"

\* As long as its group lives, a slot leads to a timer that was made for it and
\* that nobody has freed; an armed timerfd has its description.
Pointing ==
    /\ \A s \in Slots : open[s] = "open" => Kind[s] = "timerfd" /\ ptr[s] # None
    /\ \A s \in Slots :
          ptr[s] # None /\ ptr[s] \notin copied /\ group[Home[s]] \in {"new", "live"} =>
             Live(ptr[s]) /\ ~ tm[ptr[s]].dead /\ tm[ptr[s]].home = s
    /\ \A t \in Timers : Live(t) =>
          /\ tm[t].home \in Slots
          /\ t \notin copied /\ Source(t) = "timerfd" /\ tm[t].active =>
                open[tm[t].home] = "open" /\ ptr[tm[t].home] = t

IInv == TypeOK /\ Serving /\ Counting /\ InCalls /\ Pointing

-----------------------------------------------------------------------------
(* What the code does not keep. *)

\* timer_settime works on a timer: it does not look whether one was created and
\* not deleted, as timer_gettime does (time.c:399, 423).
SetHasTimer == \A u \in Users : at[u] = "set" => ptr[on[u]] # None

\* The locks form no cycle, and none is lost: timerfd_settime takes fd->lock,
\* then timer->lock, timerfd_callback the other way round (time.c:483), and
\* poll_wait takes poll->lock, then fd->lock, while the callback waits for
\* poll->lock with timer->lock held (time.c:487).
NoLockCycle == Stuck = {}

\* The task that made an itimer is there when SIGALRM is sent to it: a thread
\* may leave before its group (time.c:111).
ItimerTaskThere ==
    \A w \in Workers : Calling(w) /\ Source(serves[w]) = "itimer" => at[tm[serves[w]].maker] # "gone"

\* The group is there when a POSIX timer, which is part of it, calls back:
\* nobody stops these timers when their process ends (time.c:309).
PosixGroupThere ==
    \A w \in Workers : Calling(w) /\ Source(serves[w]) = "posix" => group[Home[tm[serves[w]].home]] # "freed"

\* A fork gives the child no timer of its parent (fork.c:53).
CopiesNothing == copied = {}
=============================================================================
