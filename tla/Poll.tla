--------------------------------- MODULE Poll ---------------------------------
(***************************************************************************)
(* An epoll set and its members: fs/poll.c, kernel/epoll.c, with eventfds  *)
(* (kernel/eventfd.c), pidfds (kernel/pidfd.c) and host descriptors.       *)
(*                                                                         *)
(* A registration belongs to a pair of a description and a descriptor      *)
(* number.  A waiter scans the registrations under poll->lock, sleeps in   *)
(* the host's multiplexer without it, for a second at most, and scans      *)
(* again.  Members the host knows wake it there; the others write a byte   *)
(* to a pipe that exists while somebody waits.  The lock order is          *)
(* fd->poll_lock, then poll->lock.                                         *)
(*                                                                         *)
(* The only event is POLL_READ.  Everything done under poll->lock is one   *)
(* step: an event that is posted during a scan can only show in it before  *)
(* or after its turn, and its wakeup comes after the scan.                 *)
(***************************************************************************)
EXTENDS Integers, FiniteSets

CONSTANTS
    Tasks,
    Descs,      \* members: struct fd
    Kind,       \* Kind[d]: "event", "pidfd" or "host"
    Regs,       \* pairs of a member and a number it is registered by: after a
                \* dup there are several
    Modes,      \* Modes[r]: the kinds in which r is registered
    Batch,      \* max_events of epoll_wait
    PipeMax,    \* bytes the notify pipe takes
    ValveArmed, \* the group can be idle for 60 s without a live child
    MaxRegs,    \* bound: registrations at a time
    Nobody

AllModes == {"level", "edge", "oneshot", "edge_oneshot"}

ASSUME KindAssumption == Kind \in [Descs -> {"event", "pidfd", "host"}]
ASSUME RegsAssumption == \A r \in Regs : r[1] \in Descs
ASSUME ModesAssumption == Modes \in [Regs -> SUBSET AllModes]
ASSUME BoundAssumption == {Batch, PipeMax, MaxRegs} \subseteq Nat \ {0}
ASSUME NobodyAssumption == Nobody \notin Tasks /\ Nobody \notin Descs
ASSUME ValveAssumption == ValveArmed \in BOOLEAN
ASSUME TasksAssumption == IsFiniteSet(Tasks)

VARIABLES
    reg,        \* the set: poll->poll_fds, and fd->poll_fds
    ready,      \* ops->poll(fd) has POLL_READ
    hostEdge,   \* the host multiplexer has an edge of the member to report
    waiters,    \* poll->waiters
    pipe,       \* bytes in the notify pipe, -1 when there is none
    pollLock,   \* the holder of poll->lock between two steps
    fdLock,     \* the holder of fd->poll_lock
    pidsLock,
    pidfdLock,
    listed,     \* pidfds in pidfd_list
    dead,       \* the process the pidfds refer to has exited
    open,       \* descriptions that are open
    call,       \* what a task is doing
    news        \* history: the last event of a registration and who is owed it

vars == <<reg, ready, hostEdge, waiters, pipe, pollLock, fdLock, pidsLock, pidfdLock,
          listed, dead, open, call, news>>
locks == <<pollLock, fdLock, pidsLock, pidfdLock>>
members == <<listed, dead, open>>

NoReg == [mode |-> "none", masked |-> FALSE, fired |-> FALSE]
NewReg(m) == [mode |-> m, masked |-> FALSE, fired |-> FALSE]

\* call[t]: where the task is, the member it works on, the registrations its
\* wakeup or clean-up has yet to visit, the members the host named, and whether
\* its wakeup is for POLL_READ.
Idle == [at |-> "idle", fd |-> Nobody, todo |-> {}, named |-> {}, read |-> FALSE]
At(t, where) == call[t].at = where
Goto(t, where) == call' = [call EXCEPT ![t].at = where]
Return(t) == call' = [call EXCEPT ![t] = Idle]
InWait(t) == call[t].at \in {"asleep", "back", "valve"}
Places == {"idle", "asleep", "back", "valve", "wake", "waking",
           "pidfd", "exit", "cleanup", "cleaning", "closing"}

IsEdge(x) == x.mode \in {"edge", "edge_oneshot"}
IsOneshot(x) == x.mode \in {"oneshot", "edge_oneshot"}
Armed(x) == x.mode # "none" /\ ~ x.fired
\* triggered_types is looked at, and cleared, only while r is edge-triggered.
Hides(x) == IsEdge(x) /\ x.masked
Unmasked(x) == IF IsEdge(x) THEN [x EXCEPT !.masked = FALSE] ELSE x
Wanted(regs, r) == Armed(regs[r]) /\ ready[r[1]] /\ ~ Hides(regs[r])
RegsOf(d) == {r \in Regs : r[1] = d /\ reg[r].mode # "none"}

\* The shared host registration of a member: poll_real_refresh.
HostHas(regs, d) == Kind[d] = "host" /\ \E r \in Regs : r[1] = d /\ Armed(regs[r])
HostEdged(regs, d) == \E r \in Regs : r[1] = d /\ Armed(regs[r]) /\ IsEdge(regs[r])
Refreshed(regs, D) == [d \in Descs |->
    IF d \in D /\ Kind[d] = "host" THEN HostHas(regs, d) /\ ready[d] ELSE hostEdge[d]]
HostReports(d) ==
    HostHas(reg, d) /\ ready[d] /\ (HostEdged(reg, d) => hostEdge[d])

Init ==
    /\ reg = [r \in Regs |-> NoReg]
    /\ ready = [d \in Descs |-> FALSE]
    /\ hostEdge = [d \in Descs |-> FALSE]
    /\ waiters = 0
    /\ pipe = -1
    /\ pollLock = Nobody
    /\ fdLock = [d \in Descs |-> Nobody]
    /\ pidsLock = Nobody
    /\ pidfdLock = Nobody
    /\ listed = {}
    /\ dead = FALSE
    /\ open = {d \in Descs : Kind[d] # "pidfd"}
    /\ call = [t \in Tasks |-> Idle]
    /\ news = [r \in Regs |-> "none"]

-----------------------------------------------------------------------------
(* poll_wait                                                               *)

\* poll_release_wait, when w threads wait and the pipe holds b bytes.
Leave(w, b) ==
    /\ waiters' = w - 1
    /\ pipe' = IF w = 1 THEN -1 ELSE b

\* What the guest has been told: a oneshot is disarmed, an edge masked.
Told(x) == [x EXCEPT !.fired = @ \/ IsOneshot(x), !.masked = @ \/ IsEdge(x)]

\* One turn of the loop with the registrations regs: report up to a batch of
\* those that want it, or else give up (a signal, the deadline) or sleep.
Scan(t, regs, w, b) ==
    LET wanted == {r \in Regs : Wanted(regs, r)}
        n == IF Cardinality(wanted) < Batch THEN Cardinality(wanted) ELSE Batch
    IN
    \/ /\ wanted # {}
       /\ \E told \in SUBSET wanted :
            /\ Cardinality(told) = n
            /\ reg' = [r \in Regs |-> IF r \in told THEN Told(regs[r]) ELSE regs[r]]
            /\ hostEdge' = Refreshed(reg', {r[1] : r \in {r \in told : IsOneshot(regs[r])}})
            /\ news' = [r \in Regs |->
                    IF r \in told THEN "none"
                    ELSE IF r \in wanted /\ news[r] = "posted" THEN "left" ELSE news[r]]
       /\ Return(t)
       /\ Leave(w, b)
    \/ /\ wanted = {}
       /\ reg' = regs
       /\ UNCHANGED <<hostEdge, news>>
       /\ \/ Return(t) /\ Leave(w, b)
          \/ /\ call' = [call EXCEPT ![t] = [Idle EXCEPT !.at = "asleep"]]
             /\ waiters' = w
             /\ pipe' = b

\* Entry: the first waiter makes the pipe.
Wait(t) ==
    /\ At(t, "idle")
    /\ pollLock = Nobody
    /\ Scan(t, reg, waiters + 1, IF waiters = 0 THEN 0 ELSE pipe)
    /\ UNCHANGED <<ready, locks, members>>

\* The host names members, and an edge it has named it does not name again.
HostWake(t) ==
    /\ At(t, "asleep")
    /\ \E named \in SUBSET {d \in Descs : HostReports(d)} :
        /\ named # {} \/ pipe > 0
        /\ call' = [call EXCEPT ![t].at = "back", ![t].named = named]
        /\ hostEdge' = [d \in Descs |-> hostEdge[d] /\ d \notin named]
    /\ UNCHANGED <<reg, ready, waiters, pipe, locks, members, news>>

\* Clear the edges of what the host named, take one byte, and go round.
Back(t) ==
    /\ At(t, "back")
    /\ pollLock = Nobody
    /\ Scan(t, [r \in Regs |-> IF r[1] \in call[t].named THEN Unmasked(reg[r]) ELSE reg[r]],
            waiters, IF pipe > 0 THEN pipe - 1 ELSE pipe)
    /\ UNCHANGED <<ready, locks, members>>

\* The second is over: go round, or leave because the group exits or the host's
\* call failed, which a signal does; after a
\* minute without progress look for live children, which takes pids_lock.
Slice(t) ==
    /\ At(t, "asleep")
    /\ pollLock = Nobody
    /\ Scan(t, reg, waiters, pipe)
    /\ UNCHANGED <<ready, locks, members>>
SliceExit(t) ==
    /\ At(t, "asleep")
    /\ pollLock = Nobody
    /\ Return(t)
    /\ Leave(waiters, pipe)
    /\ UNCHANGED <<reg, ready, hostEdge, locks, members, news>>
SliceIdle(t) ==
    /\ ValveArmed
    /\ At(t, "asleep")
    /\ pollLock = Nobody
    /\ pollLock' = t
    /\ Goto(t, "valve")
    /\ UNCHANGED <<reg, ready, hostEdge, waiters, pipe, fdLock, pidsLock, pidfdLock, members, news>>
\* A mutant of Valve: the thread that exits is still counted.
ValveCounted(t) ==
    /\ At(t, "valve")
    /\ pidsLock = Nobody
    /\ pollLock' = Nobody
    /\ Return(t)
    /\ UNCHANGED <<reg, ready, hostEdge, waiters, pipe, fdLock, pidsLock, pidfdLock, members, news>>
Valve(t) ==
    /\ At(t, "valve")
    /\ pidsLock = Nobody
    /\ pollLock' = Nobody
    /\ \/ Scan(t, reg, waiters, pipe)   \* there is a live child
       \/ /\ Return(t)                 \* exits; the task stands for another now
          /\ Leave(waiters, pipe)
          /\ UNCHANGED <<reg, hostEdge, news>>
    /\ UNCHANGED <<ready, fdLock, pidsLock, pidfdLock, members>>

-----------------------------------------------------------------------------
(* Members become ready, and wake                                          *)

\* The event of member d is news for its registrations.
Post(d) == news' = [r \in Regs |->
    IF r \in RegsOf(d) THEN (IF reg[r].fired THEN "left" ELSE "posted") ELSE news[r]]
Consume(d) == news' = [r \in Regs |-> IF r[1] = d THEN "none" ELSE news[r]]

\* eventfd_write and eventfd_read, up to the call of poll_wakeup.
EventWrite(t) == \E d \in open :
    /\ At(t, "idle") /\ Kind[d] = "event"
    /\ ready' = [ready EXCEPT ![d] = TRUE]
    /\ Post(d)
    /\ call' = [call EXCEPT ![t] = [Idle EXCEPT !.at = "wake", !.fd = d, !.read = TRUE]]
    /\ UNCHANGED <<reg, hostEdge, waiters, pipe, locks, members>>
EventRead(t) == \E d \in open :
    /\ At(t, "idle") /\ Kind[d] = "event" /\ ready[d]
    /\ ready' = [ready EXCEPT ![d] = FALSE]
    /\ Consume(d)
    /\ call' = [call EXCEPT ![t] = [Idle EXCEPT !.at = "wake", !.fd = d]]
    /\ UNCHANGED <<reg, hostEdge, waiters, pipe, locks, members>>

\* Data for a host descriptor arrives and is read; nobody calls poll_wakeup.
HostData == \E d \in open :
    /\ Kind[d] = "host"
    /\ \/ /\ ready' = [ready EXCEPT ![d] = TRUE]
          /\ hostEdge' = [hostEdge EXCEPT ![d] = HostHas(reg, d)]
          /\ Post(d)
       \/ /\ ready' = [ready EXCEPT ![d] = FALSE]
          /\ hostEdge' = [hostEdge EXCEPT ![d] = FALSE]
          /\ Consume(d)
    /\ UNCHANGED <<reg, waiters, pipe, locks, members, call>>

\* poll_wakeup: fd->poll_lock, then each registration under poll->lock.
WakeStart(t) ==
    LET d == call[t].fd IN
    /\ At(t, "wake")
    /\ fdLock[d] = Nobody
    /\ fdLock' = [fdLock EXCEPT ![d] = t]
    /\ call' = [call EXCEPT ![t].at = "waking", ![t].todo = RegsOf(d)]
    /\ UNCHANGED <<reg, ready, hostEdge, waiters, pipe, pollLock, pidsLock, pidfdLock, members, news>>
\* Mutants of WakeOne: the edge stays masked, or no byte is written.
WakeOneMasked(t) == \E r \in call[t].todo :
    /\ At(t, "waking") /\ pollLock = Nobody
    /\ pipe' = IF reg[r].fired \/ pipe \in {-1, PipeMax} THEN pipe ELSE pipe + 1
    /\ call' = [call EXCEPT ![t].todo = @ \ {r}]
    /\ UNCHANGED <<reg, ready, hostEdge, waiters, locks, members, news>>
WakeOneSilent(t) == \E r \in call[t].todo :
    /\ At(t, "waking") /\ pollLock = Nobody
    /\ reg' = IF call[t].read /\ ~ reg[r].fired THEN [reg EXCEPT ![r] = Unmasked(@)] ELSE reg
    /\ call' = [call EXCEPT ![t].todo = @ \ {r}]
    /\ UNCHANGED <<ready, hostEdge, waiters, pipe, locks, members, news>>
WakeOne(t) == \E r \in call[t].todo :
    /\ At(t, "waking")
    /\ pollLock = Nobody
    /\ IF reg[r].fired THEN UNCHANGED <<reg, pipe>>
       ELSE /\ reg' = IF call[t].read THEN [reg EXCEPT ![r] = Unmasked(@)] ELSE reg
            /\ pipe' = IF pipe \in {-1, PipeMax} THEN pipe ELSE pipe + 1
    /\ call' = [call EXCEPT ![t].todo = @ \ {r}]
    /\ UNCHANGED <<ready, hostEdge, waiters, locks, members, news>>
\* A wakeup that will still visit registration r.
WakeComing(r) == \E t \in Tasks :
    /\ call[t].fd = r[1] /\ call[t].read
    /\ At(t, "wake") \/ (At(t, "waking") /\ r \in call[t].todo)

\* The locks of an exiting process go after its wakeup.
WakeEnd(t) ==
    /\ At(t, "waking") /\ call[t].todo = {}
    /\ fdLock' = [fdLock EXCEPT ![call[t].fd] = Nobody]
    /\ pidsLock' = IF pidsLock = t THEN Nobody ELSE pidsLock
    /\ pidfdLock' = IF pidfdLock = t THEN Nobody ELSE pidfdLock
    /\ Return(t)
    /\ UNCHANGED <<reg, ready, hostEdge, waiters, pipe, pollLock, members, news>>

-----------------------------------------------------------------------------
(* epoll_ctl                                                               *)

\* poll_add_fd, poll_mod_fd, poll_del_fd, with the refresh of the host's side.
\* They take fd->poll_lock and poll->lock and hold nothing else, so that they
\* are taken together here.  A mutant of Changed: without fd->poll_lock.
ChangedUnlocked(t, r, x) ==
    /\ At(t, "idle") /\ r[1] \in open
    /\ pollLock = Nobody
    /\ reg' = [reg EXCEPT ![r] = x]
    /\ hostEdge' = Refreshed(reg', {r[1]})
    /\ UNCHANGED <<ready, waiters, pipe, locks, members, call>>
Changed(t, r, x) ==
    /\ At(t, "idle") /\ r[1] \in open
    /\ fdLock[r[1]] = Nobody /\ pollLock = Nobody
    /\ reg' = [reg EXCEPT ![r] = x]
    /\ hostEdge' = Refreshed(reg', {r[1]})
    /\ UNCHANGED <<ready, waiters, pipe, locks, members, call>>
CtlAdd(t) == \E r \in Regs : \E m \in Modes[r] :
    /\ reg[r].mode = "none"
    /\ Cardinality({q \in Regs : reg[q].mode # "none"}) < MaxRegs
    /\ Changed(t, r, NewReg(m))
    /\ UNCHANGED news
\* The mask of an edge survives the change to another mode, is not cleared there,
\* and hides what came in between once r is edge-triggered again; the refresh
\* makes a host report its descriptors anew.
Hidden(r, x) ==
    /\ Kind[r[1]] # "host" /\ news[r] = "posted" /\ ~ WakeComing(r)
    /\ Hides(x) /\ ~ IsEdge(reg[r])
CtlMod(t) == \E r \in Regs : \E m \in Modes[r] :
    LET x == [reg[r] EXCEPT !.mode = m, !.fired = FALSE] IN
    /\ reg[r].mode # "none"
    /\ Changed(t, r, x)
    /\ news' = IF Hidden(r, x) THEN [news EXCEPT ![r] = "hidden"] ELSE news
CtlDel(t) == \E r \in Regs :
    /\ reg[r].mode # "none"
    /\ Changed(t, r, NoReg)
    /\ news' = [news EXCEPT ![r] = "none"]

-----------------------------------------------------------------------------
(* The last close of a member                                              *)

\* Nobody is in a call on d, which would hold a reference; the wakeup of an
\* exiting process holds none, it finds d on the list.
Close(t) == \E d \in open :
    /\ At(t, "idle")
    /\ \A u \in Tasks : call[u].fd = d => call[u].at \in {"wake", "waking"} /\ pidsLock = u
    /\ open' = open \ {d}
    /\ call' = [call EXCEPT ![t] = [Idle EXCEPT !.at = "cleanup", !.fd = d]]
    /\ Consume(d)
    /\ UNCHANGED <<reg, ready, hostEdge, waiters, pipe, locks, listed, dead>>
\* poll_cleanup_fd.  The first of its turns takes d from the host; the model
\* lets the host name d until the last.
CleanupStart(t) ==
    LET d == call[t].fd IN
    /\ At(t, "cleanup")
    /\ fdLock[d] = Nobody
    /\ fdLock' = [fdLock EXCEPT ![d] = t]
    /\ call' = [call EXCEPT ![t].at = "cleaning", ![t].todo = RegsOf(d)]
    /\ UNCHANGED <<reg, ready, hostEdge, waiters, pipe, pollLock, pidsLock, pidfdLock, members, news>>
CleanupOne(t) == \E r \in call[t].todo :
    /\ At(t, "cleaning")
    /\ pollLock = Nobody
    /\ reg' = [reg EXCEPT ![r] = NoReg]
    /\ hostEdge' = [hostEdge EXCEPT ![r[1]] = FALSE]
    /\ call' = [call EXCEPT ![t].todo = @ \ {r}]
    /\ UNCHANGED <<ready, waiters, pipe, locks, members, news>>
CleanupEnd(t) ==
    LET d == call[t].fd IN
    /\ At(t, "cleaning") /\ call[t].todo = {}
    /\ fdLock' = [fdLock EXCEPT ![d] = Nobody]
    /\ IF Kind[d] = "pidfd" THEN Goto(t, "closing") ELSE Return(t)
    /\ UNCHANGED <<reg, ready, hostEdge, waiters, pipe, pollLock, pidsLock, pidfdLock, members, news>>
\* pidfd_close.
PidfdClose(t) ==
    /\ At(t, "closing")
    /\ pidfdLock = Nobody
    /\ listed' = listed \ {call[t].fd}
    /\ Return(t)
    /\ UNCHANGED <<reg, ready, hostEdge, waiters, pipe, locks, dead, open, news>>

-----------------------------------------------------------------------------
(* pidfd_open and the exit of the process it names                         *)

\* The process is looked up under pids_lock, the pidfd listed later.
PidfdOpen(t) == \E d \in Descs \ open :
    /\ At(t, "idle") /\ Kind[d] = "pidfd" /\ d \notin listed
    /\ \A u \in Tasks : call[u].fd # d
    /\ pidsLock = Nobody
    /\ ~ dead
    /\ call' = [call EXCEPT ![t] = [Idle EXCEPT !.at = "pidfd", !.fd = d]]
    /\ ready' = [ready EXCEPT ![d] = FALSE]
    /\ UNCHANGED <<reg, hostEdge, waiters, pipe, locks, members, news>>
PidfdList(t) ==
    /\ At(t, "pidfd")
    /\ pidfdLock = Nobody
    /\ listed' = listed \cup {call[t].fd}
    /\ open' = open \cup {call[t].fd}
    /\ Return(t)
    /\ UNCHANGED <<reg, ready, hostEdge, waiters, pipe, locks, dead, news>>

\* do_exit turns the process into a zombie with pids_lock held, and then
\* pidfd_notify_exit marks a listed pidfd and wakes its pollers.
Exit(t) ==
    /\ At(t, "idle")
    /\ pidsLock = Nobody
    /\ ~ dead
    /\ dead' = TRUE
    /\ pidsLock' = t
    /\ Goto(t, "exit")
    /\ UNCHANGED <<reg, ready, hostEdge, waiters, pipe, pollLock, fdLock, pidfdLock, listed, open, news>>
NotifyExit(t) ==
    /\ At(t, "exit")
    /\ pidfdLock = Nobody
    /\ \/ /\ listed = {}
          /\ pidsLock' = Nobody
          /\ Return(t)
          /\ UNCHANGED <<ready, pidfdLock, news>>
       \/ \E d \in listed :
          /\ ready' = [ready EXCEPT ![d] = TRUE]
          /\ Post(d)
          /\ pidfdLock' = t
          /\ call' = [call EXCEPT ![t] = [Idle EXCEPT !.at = "wake", !.fd = d, !.read = TRUE]]
          /\ UNCHANGED pidsLock
    /\ UNCHANGED <<reg, hostEdge, waiters, pipe, pollLock, fdLock, members>>

Next ==
    \/ HostData
    \/ \E t \in Tasks :
        \/ Wait(t) \/ HostWake(t) \/ Back(t)
        \/ Slice(t) \/ SliceExit(t) \/ SliceIdle(t) \/ Valve(t)
        \/ EventWrite(t) \/ EventRead(t) \/ WakeStart(t) \/ WakeOne(t) \/ WakeEnd(t)
        \/ CtlAdd(t) \/ CtlMod(t) \/ CtlDel(t)
        \/ Close(t) \/ CleanupStart(t) \/ CleanupOne(t) \/ CleanupEnd(t) \/ PidfdClose(t)
        \/ PidfdOpen(t) \/ PidfdList(t) \/ Exit(t) \/ NotifyExit(t)

Spec == Init /\ [][Next]_vars

-----------------------------------------------------------------------------
(* Properties                                                              *)

TypeOK ==
    /\ reg \in [Regs -> [mode : AllModes \cup {"none"}, masked : BOOLEAN, fired : BOOLEAN]]
    /\ ready \in [Descs -> BOOLEAN]
    /\ hostEdge \in [Descs -> BOOLEAN]
    /\ waiters \in 0..Cardinality(Tasks)
    /\ pipe \in -1..PipeMax
    /\ {pollLock, pidsLock, pidfdLock} \subseteq Tasks \cup {Nobody}
    /\ fdLock \in [Descs -> Tasks \cup {Nobody}]
    /\ listed \subseteq Descs /\ open \subseteq Descs
    /\ dead \in BOOLEAN
    /\ call \in [Tasks -> [at : Places, fd : Descs \cup {Nobody}, todo : SUBSET Regs,
                          named : SUBSET Descs, read : BOOLEAN]]
    /\ news \in [Regs -> {"none", "posted", "left", "hidden"}]

\* poll->waiters counts the threads inside poll_wait, on whichever of its ways
\* out they left, and the notify pipe exists while there are any: the first
\* waiter asserts that there is none (fs/poll.c:364).
PipeExact ==
    /\ waiters = Cardinality({t \in Tasks : InWait(t)})
    /\ (pipe = -1) <=> (waiters = 0)

HostNamed(d) == \E t \in Tasks : At(t, "back") /\ d \in call[t].named

\* An event that came after the guest was told of the one before is not taken
\* for the old one: an edge-triggered registration that still masks it is about
\* to be unmasked, by poll_wakeup or by what the host reports.  Only what came
\* while EPOLL_CTL_MOD had made the registration level-triggered in between is
\* not owed (NoEventHidden).
EdgeKept == \A r \in Regs :
    news[r] = "posted" /\ Armed(reg[r]) /\ ready[r[1]] =>
        \/ Wanted(reg, r)
        \/ WakeComing(r)
        \/ HostReports(r[1]) \/ HostNamed(r[1])

\* No thread sleeps in poll_wait on an event nobody has told the guest of: the
\* host will wake it, a byte is in the pipe or about to be, or a thread that was
\* woken is on its way to report it.  An event beyond a full batch, or posted
\* while a oneshot was disarmed, or hidden as NoEventHidden says, is not owed a
\* wakeup.
NoSleepThrough == \A t \in Tasks, r \in Regs :
    At(t, "asleep") /\ news[r] = "posted" /\ Armed(reg[r]) /\ ready[r[1]] =>
        \/ pipe > 0
        \/ WakeComing(r)
        \/ HostReports(r[1]) \/ HostNamed(r[1])
        \/ \E u \in Tasks : At(u, "back")

\* A wakeup or a clean-up walks the list of a member's registrations and gives
\* poll->lock back at every turn (fs/poll.c:330, 270): none of those it has yet
\* to visit is freed meanwhile, by epoll_ctl or by another walk.
Walking(t) == call[t].at \in {"waking", "cleaning"}
VisitsExist == \A t \in Tasks :
    Walking(t) => \A r \in call[t].todo : r[1] = call[t].fd /\ reg[r].mode # "none"

\* "The bits are cleared by poll_wakeup" (fs/poll.h:53): a mask does not outlast
\* the event it is for.  It does when EPOLL_CTL_MOD changes the mode and back.
NoEventHidden == \A r \in Regs : news[r] # "hidden"

\* A process that exits holds pids_lock and wants poll->lock to wake a pidfd's
\* pollers; kernel/pidfd.c:84 says the other order does not exist.  It does: a
\* poller that has idled for a minute holds poll->lock and wants pids_lock.
NoLockCycle == \A t, u \in Tasks :
    ~ (pollLock = t /\ At(t, "valve") /\ pidsLock = u /\ At(u, "waking") /\ call[u].todo # {})
-----------------------------------------------------------------------------
(* The inductive invariant                                                 *)

\* Each lock is held in exactly these places; who wakes a pidfd's pollers took
\* pids_lock and pidfd_lock on the way there.
LockOwners == \A t \in Tasks :
    /\ \A d \in Descs : fdLock[d] = t <=> Walking(t) /\ call[t].fd = d
    /\ pollLock = t <=> At(t, "valve")
    /\ At(t, "exit") => pidsLock = t
    /\ pidsLock = t => call[t].at \in {"exit", "wake", "waking"}
    /\ pidfdLock = t <=> pidsLock = t /\ ~ At(t, "exit")

\* A call that works on a member has one, and its description still exists: it
\* is open, or in the hands of the call that closes or makes it, or a pidfd that
\* is on the list, where pidfd_lock keeps it.
CallHasMember == \A t \in Tasks :
    LET d == call[t].fd IN
    /\ call[t].at \in {"wake", "waking", "pidfd", "cleanup", "cleaning", "closing"} => d \in Descs
    /\ call[t].at \in {"wake", "waking"} =>
         IF pidsLock = t THEN d \in listed ELSE d \in open
    /\ call[t].at \in {"pidfd", "cleanup", "cleaning", "closing"} => d \notin open
    /\ At(t, "pidfd") => d \notin listed /\ Kind[d] = "pidfd"

\* One call makes a pidfd, and nobody else knows of it.
MakerAlone == \A t, u \in Tasks :
    At(t, "pidfd") /\ u # t => call[u].fd # call[t].fd

MembersKnown ==
    /\ \A d \in listed : Kind[d] = "pidfd"
    /\ pidsLock # Nobody => dead

\* A posted event of a member that is not closed has a registration; of one that
\* is, only the exit of its process can be posted.
PostedTo(r) ==
    IF r[1] \in open THEN reg[r].mode # "none"
    ELSE dead /\ Kind[r[1]] = "pidfd" /\ \A t \in Tasks : At(t, "pidfd") => call[t].fd # r[1]

\* Who will tell the guest of the posted event of r: the host, a wakeup, or a
\* thread that the last wakeup has stirred.
Stirred == \A t \in Tasks : At(t, "asleep") => pipe > 0 \/ \E u \in Tasks : At(u, "back")
HostTells(d) == hostEdge[d] \/ HostNamed(d)
Announced(r) ==
    /\ ~ reg[r].fired /\ ready[r[1]]
    /\ IF Kind[r[1]] = "host" THEN HostTells(r[1])
       ELSE WakeComing(r) \/ (~ Hides(reg[r]) /\ Stirred)

Owed == \A r \in Regs : news[r] = "posted" =>
    PostedTo(r) /\ (reg[r].mode # "none" => Announced(r))

IInv ==
    /\ TypeOK
    /\ PipeExact
    /\ LockOwners
    /\ CallHasMember
    /\ MakerAlone
    /\ VisitsExist
    /\ MembersKnown
    /\ Owed
=============================================================================
