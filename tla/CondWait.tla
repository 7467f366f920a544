------------------------------ MODULE CondWait ------------------------------
(***************************************************************************)
(* Blocking on a condition that a guest signal must be able to interrupt:  *)
(* wait_for (util/sync.c) against deliver_signal_unlocked (kernel/signal.c) *)
(* and the code that posts the event and calls notify.                     *)
(*                                                                         *)
(* Every blocking read of an eventfd, timerfd or tty, every file lock,     *)
(* sigsuspend, pause and wait4 is a loop around wait_for.  What differs is *)
(* the lock that goes with the condition:                                  *)
(*   sighand  the waiter's own sighand lock (sigsuspend, pause)            *)
(*   pids     pids_lock (wait4)                                            *)
(*   object   the lock of a file, inode or tty                             *)
(* The waiting thread looks for a pending signal, registers the condition  *)
(* in waiting_cond, and then waits.  The sender makes the signal pending   *)
(* under the sighand lock, drops that lock, and broadcasts whatever        *)
(* condition it finds registered, without taking the condition's lock.     *)
(*                                                                         *)
(* Control states of a waiter:                                             *)
(*   run         not waiting                                               *)
(*   check       has the lock, about to look at the event                  *)
(*   test        in wait_for, about to look for a signal                   *)
(*   register    saw no signal, about to set waiting_cond                  *)
(*   enter       registered, about to call pthread_cond_wait               *)
(*   asleep      in pthread_cond_wait, lock released                       *)
(*   relock      awake, about to get the lock back                         *)
(*   unregister  has the lock back, about to clear waiting_cond            *)
(*   verdict     about to choose what wait_for returns                     *)
(***************************************************************************)
EXTENDS Naturals, FiniteSets

CONSTANTS
    Waiters,    \* the threads that block
    Senders,    \* the threads that send signals
    Kind,       \* Kind[w]: which lock goes with the condition of w
    Timed,      \* Timed[w]: wait_for is called with a timeout
    HoldsPids,  \* HoldsPids[s]: s sends with pids_lock held (kill, not itimer)
    Nobody      \* a free lock, or no target

Kinds == {"sighand", "pids", "object"}

ASSUME KindAssumption == Kind \in [Waiters -> Kinds]
ASSUME TimedAssumption == Timed \in [Waiters -> BOOLEAN]
ASSUME HoldsAssumption == HoldsPids \in [Senders -> BOOLEAN]
ASSUME NobodyAssumption ==
    /\ Nobody \notin Waiters \cup Senders
    /\ Waiters \cap Senders = {}
    /\ Waiters \cap Kinds = {}

VARIABLES
    owner,      \* the holder of each lock; sighand locks are named by their task
    pc,
    registered, \* waiting_cond is set
    woken,      \* the condition was broadcast while asleep
    expired,    \* pthread_cond_timedwait returned ETIMEDOUT
    ready,      \* the event w waits for has happened
    pending,    \* pending & ~blocked of the task is not empty
    result,     \* what the blocking call of w last returned
    spc,        \* control state of a sender
    target      \* the task a sender is signalling

vars == <<owner, pc, registered, woken, expired, ready, pending, result, spc, target>>

Locks == Waiters \cup {"pids", "object"}
WaitLock(w) == IF Kind[w] = "sighand" THEN w ELSE Kind[w]

Holding == {"check", "test", "register", "enter", "unregister", "verdict"}
InWait == {"test", "register", "enter", "asleep", "relock", "unregister", "verdict"}
PCs == {"run", "check"} \cup InWait

Init ==
    /\ owner = [l \in Locks |-> Nobody]
    /\ pc = [w \in Waiters |-> "run"]
    /\ registered = [w \in Waiters |-> FALSE]
    /\ woken = [w \in Waiters |-> FALSE]
    /\ expired = [w \in Waiters |-> FALSE]
    /\ ready = [w \in Waiters |-> FALSE]
    /\ pending = [w \in Waiters |-> FALSE]
    /\ result = [w \in Waiters |-> "none"]
    /\ spc = [s \in Senders |-> "idle"]
    /\ target = [s \in Senders |-> Nobody]

Free(l) == owner[l] = Nobody
Goto(w, l) == pc' = [pc EXCEPT ![w] = l]

\* Can w look at its own pending set now?  is_signal_pending takes the sighand
\* lock unless that is the lock it was given.
CanTest(w) == Kind[w] = "sighand" \/ Free(w)

\* w gives its lock back and the blocking call returns r.
Return(w, r) ==
    /\ Goto(w, "run")
    /\ result' = [result EXCEPT ![w] = r]
    /\ owner' = [owner EXCEPT ![WaitLock(w)] = Nobody]

-----------------------------------------------------------------------------
(***************************************************************************)
(* The waiter                                                              *)
(***************************************************************************)

\* The blocking call takes the lock.
Begin(w) ==
    /\ pc[w] = "run" /\ Free(WaitLock(w))
    /\ owner' = [owner EXCEPT ![WaitLock(w)] = w]
    /\ Goto(w, "check")
    /\ result' = [result EXCEPT ![w] = "none"]
    /\ UNCHANGED <<registered, woken, expired, ready, pending, spc, target>>

\* The head of the loop around wait_for: take the event if it is there.
Check(w) ==
    /\ pc[w] = "check"
    /\ IF ready[w]
       THEN /\ ready' = [ready EXCEPT ![w] = FALSE]
            /\ Return(w, "0")
       ELSE /\ Goto(w, "test")
            /\ UNCHANGED <<ready, result, owner>>
    /\ UNCHANGED <<registered, woken, expired, pending, spc, target>>

\* Mutant of Test: wait_for does not look before it sleeps.
TestSkipped(w) ==
    /\ pc[w] = "test" /\ CanTest(w)
    /\ Goto(w, "register") /\ UNCHANGED <<result, owner>>
    /\ UNCHANGED <<registered, woken, expired, ready, pending, spc, target>>

\* The first is_signal_pending of wait_for.
Test(w) ==
    /\ pc[w] = "test" /\ CanTest(w)
    /\ IF pending[w]
       THEN Return(w, "EINTR")
       ELSE Goto(w, "register") /\ UNCHANGED <<result, owner>>
    /\ UNCHANGED <<registered, woken, expired, ready, pending, spc, target>>

\* Mutant of Register: the condition is not put in waiting_cond.
RegisterNothing(w) ==
    /\ pc[w] = "register"
    /\ Goto(w, "enter")
    /\ UNCHANGED <<owner, registered, woken, expired, ready, pending, result, spc, target>>

\* waiting_cond is set under waiting_cond_lock.
Register(w) ==
    /\ pc[w] = "register"
    /\ registered' = [registered EXCEPT ![w] = TRUE]
    /\ Goto(w, "enter")
    /\ UNCHANGED <<owner, woken, expired, ready, pending, result, spc, target>>

\* pthread_cond_wait gives the lock back and sleeps, in one step.
Sleep(w) ==
    /\ pc[w] = "enter"
    /\ owner' = [owner EXCEPT ![WaitLock(w)] = Nobody]
    /\ woken' = [woken EXCEPT ![w] = FALSE]
    /\ Goto(w, "asleep")
    /\ UNCHANGED <<registered, expired, ready, pending, result, spc, target>>

\* The condition was broadcast.
Wake(w) ==
    /\ pc[w] = "asleep" /\ woken[w]
    /\ Goto(w, "relock")
    /\ UNCHANGED <<owner, registered, woken, expired, ready, pending, result, spc, target>>

\* The timeout expires.
Expire(w) ==
    /\ pc[w] = "asleep" /\ Timed[w]
    /\ expired' = [expired EXCEPT ![w] = TRUE]
    /\ Goto(w, "relock")
    /\ UNCHANGED <<owner, registered, woken, ready, pending, result, spc, target>>

\* POSIX allows a wakeup for no reason.
Spurious(w) ==
    /\ pc[w] = "asleep"
    /\ Goto(w, "relock")
    /\ UNCHANGED <<owner, registered, woken, expired, ready, pending, result, spc, target>>

\* pthread_cond_wait returns with the lock held.
Relock(w) ==
    /\ pc[w] = "relock" /\ Free(WaitLock(w))
    /\ owner' = [owner EXCEPT ![WaitLock(w)] = w]
    /\ Goto(w, "unregister")
    /\ UNCHANGED <<registered, woken, expired, ready, pending, result, spc, target>>

Unregister(w) ==
    /\ pc[w] = "unregister"
    /\ registered' = [registered EXCEPT ![w] = FALSE]
    /\ Goto(w, "verdict")
    /\ UNCHANGED <<owner, woken, expired, ready, pending, result, spc, target>>

\* What wait_for returns, and what its caller makes of it.  wait4 goes round
\* its loop again after a timeout, and after a signal looks once more for a
\* child; the others return the error.
Verdict(w) ==
    /\ pc[w] = "verdict"
    /\ expired[w] \/ CanTest(w)
    /\ expired' = [expired EXCEPT ![w] = FALSE]
    /\ \/ /\ expired[w] /\ Kind[w] # "pids"
          /\ Return(w, "ETIMEDOUT")
          /\ UNCHANGED ready
       \/ /\ ~expired[w] /\ pending[w]
          /\ IF Kind[w] = "pids" /\ ready[w]
             THEN Return(w, "0") /\ ready' = [ready EXCEPT ![w] = FALSE]
             ELSE Return(w, "EINTR") /\ UNCHANGED ready
       \/ /\ IF expired[w] THEN Kind[w] = "pids" ELSE ~pending[w]
          /\ Goto(w, "check")
          /\ UNCHANGED <<ready, result, owner>>
    /\ UNCHANGED <<registered, woken, pending, spc, target>>

\* Back in the guest, the task receives its signal.
Receive(w) ==
    /\ pc[w] = "run" /\ pending[w] /\ Free(w)
    /\ pending' = [pending EXCEPT ![w] = FALSE]
    /\ UNCHANGED <<owner, pc, registered, woken, expired, ready, result, spc, target>>

-----------------------------------------------------------------------------
(***************************************************************************)
(* The other side                                                          *)
(***************************************************************************)

\* Broadcast the condition that the tasks in S wait on.
Broadcast(S) ==
    woken' = [w \in Waiters |-> woken[w] \/ (w \in S /\ pc[w] = "asleep")]

\* Mutant of Post: the event is posted but nobody notified.
PostSilent(w) ==
    /\ Kind[w] # "sighand" /\ Free(WaitLock(w))
    /\ ready' = [ready EXCEPT ![w] = TRUE]
    /\ UNCHANGED <<owner, pc, registered, woken, expired, pending, result, spc, target>>

\* The event of w happens: under the lock, the state changes and notify wakes
\* everybody on that condition (eventfd_write, tty_input, do_exit...).
Post(w) ==
    /\ Kind[w] # "sighand" /\ Free(WaitLock(w))
    /\ ready' = [ready EXCEPT ![w] = TRUE]
    /\ Broadcast({u \in Waiters : Kind[u] = Kind[w]})
    /\ UNCHANGED <<owner, pc, registered, expired, pending, result, spc, target>>

\* deliver_signal_unlocked up to the unlock of the sighand lock, for a signal
\* the task does not block.  Another instance of a pending standard signal is
\* dropped, a step without effect; any other signal may come while one is
\* pending.
Send(s, w) ==
    /\ spc[s] = "idle" /\ Free(w)
    /\ HoldsPids[s] => Free("pids")
    /\ pending' = [pending EXCEPT ![w] = TRUE]
    /\ spc' = [spc EXCEPT ![s] = "kick"]
    /\ target' = [target EXCEPT ![s] = w]
    /\ owner' = IF HoldsPids[s] THEN [owner EXCEPT !["pids"] = s] ELSE owner
    /\ UNCHANGED <<pc, registered, woken, expired, ready, result>>

\* notify(task->waiting_cond) under waiting_cond_lock, without waiting_lock.
\* The broadcast reaches everybody who sleeps on the same condition.
Kick(s) ==
    /\ spc[s] = "kick"
    /\ LET w == target[s]
       IN IF ~registered[w] THEN UNCHANGED woken
          ELSE Broadcast({u \in Waiters : u = w \/ (Kind[w] # "sighand" /\ Kind[u] = Kind[w])})
    /\ spc' = [spc EXCEPT ![s] = "finish"]
    /\ UNCHANGED <<owner, pc, registered, expired, ready, pending, result, target>>

\* Take the sighand lock back for the caller, who releases it.
Finish(s) ==
    /\ spc[s] = "finish" /\ Free(target[s])
    /\ spc' = [spc EXCEPT ![s] = "idle"]
    /\ target' = [target EXCEPT ![s] = Nobody]
    /\ owner' = IF HoldsPids[s] THEN [owner EXCEPT !["pids"] = Nobody] ELSE owner
    /\ UNCHANGED <<pc, registered, woken, expired, ready, pending, result>>

-----------------------------------------------------------------------------

Step(w) ==
    \/ Check(w) \/ Test(w) \/ Register(w) \/ Sleep(w) \/ Wake(w)
    \/ Relock(w) \/ Unregister(w) \/ Verdict(w)

Next ==
    \/ \E w \in Waiters :
         Step(w) \/ Begin(w) \/ Expire(w) \/ Spurious(w) \/ Receive(w) \/ Post(w)
    \/ \E s \in Senders : Kick(s) \/ Finish(s) \/ \E w \in Waiters : Send(s, w)

Spec == Init /\ [][Next]_vars

(***************************************************************************)
(* Host threads keep running and a thread blocked on a mutex gets it in    *)
(* the end, so the steps of a call and of a delivery in progress are       *)
(* strongly fair.  A timeout expires.  Nothing makes the guest call, send  *)
(* or post anything, and nothing makes a wakeup spurious.                  *)
(***************************************************************************)
Fairness ==
    /\ \A w \in Waiters : SF_vars(Step(w)) /\ WF_vars(Expire(w))
    /\ \A s \in Senders : SF_vars(Kick(s)) /\ SF_vars(Finish(s))

FairSpec == Spec /\ Fairness

-----------------------------------------------------------------------------
(***************************************************************************)
(* Properties                                                              *)
(***************************************************************************)

TypeOK ==
    /\ owner \in [Locks -> Waiters \cup Senders \cup {Nobody}]
    /\ pc \in [Waiters -> PCs]
    /\ registered \in [Waiters -> BOOLEAN]
    /\ woken \in [Waiters -> BOOLEAN]
    /\ expired \in [Waiters -> BOOLEAN]
    /\ ready \in [Waiters -> BOOLEAN]
    /\ pending \in [Waiters -> BOOLEAN]
    /\ result \in [Waiters -> {"none", "0", "EINTR", "ETIMEDOUT"}]
    /\ spc \in [Senders -> {"idle", "kick", "finish"}]
    /\ target \in [Senders -> Waiters \cup {Nobody}]

\* w sleeps, nothing has woken it, and a signal is pending that nobody is still
\* about to wake it for.
Missed(w) ==
    /\ pc[w] = "asleep" /\ ~woken[w] /\ pending[w]
    /\ ~\E s \in Senders : spc[s] = "kick" /\ target[s] = w

\* The waits whose sender cannot come between the look for a signal and the
\* sleep: the lock of the condition is one the sender needs as well.
Synchronised(w) ==
    \/ Kind[w] = "sighand"
    \/ Kind[w] = "pids" /\ \A s \in Senders : HoldsPids[s]

\* No signal is missed by sigsuspend or pause, nor by wait4 when it is sent
\* with pids_lock held, although deliver_signal_unlocked drops the sighand lock
\* before it looks at waiting_cond and never takes waiting_lock.
NoMissedSignal == \A w \in Waiters : Synchronised(w) => ~Missed(w)

\* "wait_for *should* be safe from this race because of synchronization
\* involving the waiting_cond_lock" (util/sync.c): no wait at all misses a
\* signal.
NeverMissed == \A w \in Waiters : ~Missed(w)

\* Nobody sleeps through an event: whoever is asleep while its event has
\* happened has been woken.
NoMissedEvent == \A w \in Waiters : (pc[w] = "asleep" /\ ready[w]) => woken[w]

\* A signal ends every wait that is synchronised or has a timeout.
SignalInterrupts ==
    \A w \in Waiters :
        (Synchronised(w) \/ Timed[w]) =>
            ((pc[w] \in InWait /\ pending[w]) ~> pc[w] = "run")

\* A task holds the lock of its condition exactly where the code believes it
\* does, so the event is never looked at without it.
LockHeld ==
    \A w \in Waiters : pc[w] \in Holding <=> owner[WaitLock(w)] = w

-----------------------------------------------------------------------------
(***************************************************************************)
(* The inductive invariant.  NoMissedSignal is not inductive.  What makes  *)
(* it so: a task that goes to sleep has its condition registered           *)
(* (Registered), a sender in the middle of a delivery still has pids_lock  *)
(* if it took it (SenderBusy), and between its look for a signal and its   *)
(* sleep a synchronised waiter cannot be sent one (Quiet); for events,     *)
(* Unready is the same fact.                                               *)
(***************************************************************************)

Registered ==
    \A w \in Waiters :
        pc[w] \in {"enter", "asleep", "relock", "unregister"} => registered[w]

SenderBusy ==
    \A s \in Senders :
        spc[s] # "idle" => /\ target[s] \in Waiters
                           /\ HoldsPids[s] => owner["pids"] = s

Quiet ==
    \A w \in Waiters :
        Synchronised(w) /\ pc[w] \in {"register", "enter"} => ~pending[w]

Unready ==
    \A w \in Waiters : pc[w] \in {"test", "register", "enter"} => ~ready[w]

IInv ==
    /\ TypeOK /\ LockHeld /\ Registered /\ SenderBusy
    /\ Quiet /\ Unready /\ NoMissedSignal /\ NoMissedEvent
=============================================================================
