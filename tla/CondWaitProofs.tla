--------------------------- MODULE CondWaitProofs ---------------------------
(***************************************************************************)
(* Proofs about CondWait for any number of waiting tasks and senders.      *)
(*                                                                         *)
(* NoMissedSignal is not inductive; IInv of CondWait is, which says where  *)
(* a task stands in its registration and what a sender holds in the middle *)
(* of a delivery.                                                          *)
(***************************************************************************)
EXTENDS CondWait, TLAPS

-----------------------------------------------------------------------------
(***************************************************************************)
(* The locks                                                               *)
(***************************************************************************)

\* The lock of a wait is a lock; two waits share one only if their kinds say
\* so, and no sighand lock is one of the shared locks.
LEMMA LockNames ==
    ASSUME NEW w \in Waiters
    PROVE  /\ WaitLock(w) \in Locks
           /\ WaitLock(w) = "pids" <=> Kind[w] = "pids"
           /\ Kind[w] = "sighand" => WaitLock(w) = w
           /\ Kind[w] \in Kinds
           /\ w \in Locks /\ "pids" \in Locks
  BY KindAssumption, NobodyAssumption DEF WaitLock, Locks, Kinds

\* A task that takes its free lock, or gives its own lock back, takes nothing
\* from a sender.
LEMMA LockStep ==
    ASSUME TypeOK, SenderBusy, NEW w \in Waiters, NEW x \in {w, Nobody},
           owner[WaitLock(w)] \in {w, Nobody},
           owner' = [owner EXCEPT ![WaitLock(w)] = x],
           UNCHANGED <<spc, target>>
    PROVE  SenderBusy'
  BY LockNames, NobodyAssumption DEF TypeOK, SenderBusy

-----------------------------------------------------------------------------
(***************************************************************************)
(* The invariant                                                           *)
(***************************************************************************)

LEMMA InitInv == Init => IInv
  <1> SUFFICES ASSUME Init PROVE IInv
    OBVIOUS
  <1>1. TypeOK
    BY DEF Init, TypeOK, PCs, InWait
  <1>2. LockHeld
    BY NobodyAssumption, LockNames DEF Init, LockHeld, Holding
  <1>3. Registered /\ SenderBusy /\ Quiet /\ Unready /\ NoMissedSignal /\ NoMissedEvent
    BY DEF Init, Registered, SenderBusy, Quiet, Unready, NoMissedSignal, NoMissedEvent, Missed
  <1> QED BY <1>1, <1>2, <1>3 DEF IInv

\* Taking the lock disturbs nobody: it was free.
LEMMA BeginInv ==
    ASSUME IInv, NEW w \in Waiters, Begin(w)
    PROVE  IInv'
  <1>1. TypeOK'
    BY LockNames DEF TypeOK, PCs, InWait, IInv, Begin, Goto, Free
  <1>2. LockHeld'
    BY LockNames, NobodyAssumption DEF LockHeld, WaitLock, Holding, TypeOK,
       IInv, Begin, Goto, Free
  <1>3. SenderBusy'
    BY LockStep DEF SenderBusy, TypeOK, IInv, Begin, Goto, Free
  <1>4. Registered' /\ Quiet' /\ Unready' /\ NoMissedSignal' /\ NoMissedEvent'
    BY DEF Registered, Quiet, Synchronised, Unready, NoMissedSignal, Missed,
       NoMissedEvent, TypeOK, IInv, Begin, Goto, Free
  <1> QED BY <1>1, <1>2, <1>3, <1>4 DEF IInv

\* Getting the lock back in pthread_cond_wait: it was free.
LEMMA RelockInv ==
    ASSUME IInv, NEW w \in Waiters, Relock(w)
    PROVE  IInv'
  <1>1. TypeOK'
    BY LockNames DEF TypeOK, PCs, InWait, IInv, Relock, Goto, Free
  <1>2. LockHeld'
    BY LockNames, NobodyAssumption DEF LockHeld, WaitLock, Holding, TypeOK,
       IInv, Relock, Goto, Free
  <1>3. SenderBusy'
    BY LockStep DEF SenderBusy, TypeOK, IInv, Relock, Goto, Free
  <1>4. Registered' /\ Quiet' /\ Unready' /\ NoMissedSignal' /\ NoMissedEvent'
    BY DEF Registered, Quiet, Synchronised, Unready, NoMissedSignal, Missed,
       NoMissedEvent, TypeOK, IInv, Relock, Goto, Free
  <1> QED BY <1>1, <1>2, <1>3, <1>4 DEF IInv

\* The event was looked at under the lock, so it is not there when wait_for begins.
LEMMA CheckInv ==
    ASSUME IInv, NEW w \in Waiters, Check(w)
    PROVE  IInv'
  <1>1. TypeOK'
    <2>1. CASE ready[w]
      BY <2>1, LockNames DEF TypeOK, PCs, IInv, Check, Return, Goto
    <2>2. CASE ~ready[w]
      BY <2>2 DEF TypeOK, PCs, InWait, IInv, Check, Goto
    <2> QED BY <2>1, <2>2
  <1>2. LockHeld'
    BY LockNames, NobodyAssumption DEF LockHeld, WaitLock, Holding, TypeOK,
       IInv, Check, Return, Goto
  <1>3. SenderBusy'
    BY LockStep DEF SenderBusy, TypeOK, IInv, Check, Return, Goto, LockHeld,
       Holding
  <1>4. Registered' /\ Unready' /\ NoMissedEvent'
    BY DEF Registered, Unready, NoMissedEvent, TypeOK, IInv, Check, Return,
       Goto
  <1>5. Quiet' /\ NoMissedSignal'
    BY DEF Quiet, Synchronised, NoMissedSignal, Missed, TypeOK, IInv, Check,
       Return, Goto
  <1> QED BY <1>1, <1>2, <1>3, <1>4, <1>5 DEF IInv

\* The signal was looked for under the lock that its sender needs.
LEMMA TestInv ==
    ASSUME IInv, NEW w \in Waiters, Test(w)
    PROVE  IInv'
  <1>1. TypeOK'
    BY LockNames DEF TypeOK, PCs, InWait, IInv, Test, Return, Goto
  <1>2. LockHeld'
    BY LockNames, NobodyAssumption DEF LockHeld, WaitLock, Holding, TypeOK,
       IInv, Test, Return, Goto
  <1>3. SenderBusy'
    BY LockStep DEF SenderBusy, TypeOK, IInv, Test, Return, Goto, LockHeld,
       Holding
  <1>4. Registered' /\ Unready' /\ NoMissedEvent'
    BY DEF Registered, Unready, NoMissedEvent, TypeOK, IInv, Test, Return, Goto
  <1>5. Quiet' /\ NoMissedSignal'
    BY DEF Quiet, Synchronised, NoMissedSignal, Missed, TypeOK, IInv, Test,
       Return, Goto
  <1> QED BY <1>1, <1>2, <1>3, <1>4, <1>5 DEF IInv

\* The condition is registered before the task sleeps.
LEMMA RegisterInv ==
    ASSUME IInv, NEW w \in Waiters, Register(w)
    PROVE  IInv'
  <1>1. TypeOK'
    BY DEF TypeOK, PCs, InWait, IInv, Register, Goto
  <1>2. LockHeld'
    BY DEF LockHeld, WaitLock, Holding, TypeOK, IInv, Register, Goto
  <1>3. Registered' /\ SenderBusy' /\ Quiet' /\ Unready' /\ NoMissedSignal' /\ NoMissedEvent'
    BY DEF Registered, SenderBusy, Quiet, Synchronised, Unready,
       NoMissedSignal, Missed, NoMissedEvent, TypeOK, IInv, Register, Goto
  <1> QED BY <1>1, <1>2, <1>3 DEF IInv

\* A broadcast wakes the task.
LEMMA WakeInv ==
    ASSUME IInv, NEW w \in Waiters, Wake(w)
    PROVE  IInv'
  <1>1. TypeOK'
    BY DEF TypeOK, PCs, InWait, IInv, Wake, Goto
  <1>2. LockHeld'
    BY DEF LockHeld, WaitLock, Holding, TypeOK, IInv, Wake, Goto
  <1>3. Registered' /\ SenderBusy' /\ Quiet' /\ Unready' /\ NoMissedSignal' /\ NoMissedEvent'
    BY DEF Registered, SenderBusy, Quiet, Synchronised, Unready,
       NoMissedSignal, Missed, NoMissedEvent, TypeOK, IInv, Wake, Goto
  <1> QED BY <1>1, <1>2, <1>3 DEF IInv

\* The timeout wakes the task.
LEMMA ExpireInv ==
    ASSUME IInv, NEW w \in Waiters, Expire(w)
    PROVE  IInv'
  <1>1. TypeOK'
    BY DEF TypeOK, PCs, InWait, IInv, Expire, Goto
  <1>2. LockHeld'
    BY DEF LockHeld, WaitLock, Holding, TypeOK, IInv, Expire, Goto
  <1>3. Registered' /\ SenderBusy' /\ Quiet' /\ Unready' /\ NoMissedSignal' /\ NoMissedEvent'
    BY DEF Registered, SenderBusy, Quiet, Synchronised, Unready,
       NoMissedSignal, Missed, NoMissedEvent, TypeOK, IInv, Expire, Goto
  <1> QED BY <1>1, <1>2, <1>3 DEF IInv

\* The task wakes for no reason.
LEMMA SpuriousInv ==
    ASSUME IInv, NEW w \in Waiters, Spurious(w)
    PROVE  IInv'
  <1>1. TypeOK'
    BY DEF TypeOK, PCs, InWait, IInv, Spurious, Goto
  <1>2. LockHeld'
    BY DEF LockHeld, WaitLock, Holding, TypeOK, IInv, Spurious, Goto
  <1>3. Registered' /\ SenderBusy' /\ Quiet' /\ Unready' /\ NoMissedSignal' /\ NoMissedEvent'
    BY DEF Registered, SenderBusy, Quiet, Synchronised, Unready,
       NoMissedSignal, Missed, NoMissedEvent, TypeOK, IInv, Spurious, Goto
  <1> QED BY <1>1, <1>2, <1>3 DEF IInv

\* The task is awake and has its lock.
LEMMA UnregisterInv ==
    ASSUME IInv, NEW w \in Waiters, Unregister(w)
    PROVE  IInv'
  <1>1. TypeOK'
    BY DEF TypeOK, PCs, InWait, IInv, Unregister, Goto
  <1>2. LockHeld'
    BY DEF LockHeld, WaitLock, Holding, TypeOK, IInv, Unregister, Goto
  <1>3. Registered' /\ SenderBusy' /\ Quiet' /\ Unready' /\ NoMissedSignal' /\ NoMissedEvent'
    BY DEF Registered, SenderBusy, Quiet, Synchronised, Unready,
       NoMissedSignal, Missed, NoMissedEvent, TypeOK, IInv, Unregister, Goto
  <1> QED BY <1>1, <1>2, <1>3 DEF IInv

\* Going to sleep: neither a signal nor the event came since the task looked.
LEMMA SleepInv ==
    ASSUME IInv, NEW w \in Waiters, Sleep(w)
    PROVE  IInv'
  <1>1. TypeOK'
    BY LockNames DEF TypeOK, PCs, InWait, IInv, Sleep, Goto
  <1>2. LockHeld'
    BY LockNames, NobodyAssumption DEF LockHeld, WaitLock, Holding, TypeOK,
       IInv, Sleep, Goto
  <1>3. SenderBusy'
    BY LockStep DEF SenderBusy, TypeOK, IInv, Sleep, Goto, LockHeld, Holding
  <1>4. Registered' /\ Unready'
    BY DEF Registered, Unready, TypeOK, IInv, Sleep, Goto
  <1>5. Quiet' /\ NoMissedSignal'
    BY DEF Quiet, Synchronised, NoMissedSignal, Missed, TypeOK, IInv, Sleep,
       Goto
  <1>6. NoMissedEvent'
    BY DEF NoMissedEvent, TypeOK, IInv, Sleep, Goto, Unready
  <1> QED BY <1>1, <1>2, <1>3, <1>4, <1>5, <1>6 DEF IInv

\* What wait_for returns is chosen with the lock held.
LEMMA VerdictInv ==
    ASSUME IInv, NEW w \in Waiters, Verdict(w)
    PROVE  IInv'
  <1>1. TypeOK'
    BY LockNames DEF TypeOK, PCs, InWait, IInv, Verdict, Return, Goto
  <1>2. LockHeld'
    BY LockNames, NobodyAssumption DEF LockHeld, WaitLock, Holding, TypeOK,
       IInv, Verdict, Return, Goto
  <1>3. SenderBusy'
    BY LockStep DEF SenderBusy, TypeOK, IInv, Verdict, Return, Goto, LockHeld,
       Holding
  <1>4. Registered' /\ Unready' /\ NoMissedEvent'
    BY DEF Registered, Unready, NoMissedEvent, TypeOK, IInv, Verdict, Return,
       Goto
  <1>5. Quiet' /\ NoMissedSignal'
    BY DEF Quiet, Synchronised, NoMissedSignal, Missed, TypeOK, IInv, Verdict,
       Return, Goto
  <1> QED BY <1>1, <1>2, <1>3, <1>4, <1>5 DEF IInv

\* Only a task that is not waiting receives a signal.
LEMMA ReceiveInv ==
    ASSUME IInv, NEW w \in Waiters, Receive(w)
    PROVE  IInv'
  <1>1. TypeOK'
    BY DEF TypeOK, PCs, InWait, IInv, Receive
  <1>2. LockHeld' /\ Registered' /\ SenderBusy' /\ Quiet' /\ Unready' /\ NoMissedSignal' /\ NoMissedEvent'
    BY DEF LockHeld, WaitLock, Holding, Registered, SenderBusy, Quiet,
       Synchronised, Unready, NoMissedSignal, Missed, NoMissedEvent, TypeOK,
       IInv, Receive
  <1> QED BY <1>1, <1>2 DEF IInv

\* An event is posted under the lock, and its broadcast finds the sleeper.
LEMMA PostInv ==
    ASSUME IInv, NEW w \in Waiters, Post(w)
    PROVE  IInv'
  <1>1. TypeOK'
    BY DEF TypeOK, PCs, InWait, IInv, Post, Free, Broadcast
  <1>2. LockHeld' /\ Registered' /\ SenderBusy' /\ Quiet'
    BY DEF LockHeld, WaitLock, Holding, Registered, SenderBusy, Quiet,
       Synchronised, TypeOK, IInv, Post, Free, Broadcast
  <1>3. Unready'
    BY LockNames, NobodyAssumption DEF Unready, TypeOK, IInv, Post, Free,
       Broadcast, LockHeld, Holding
  <1>4. NoMissedSignal' /\ NoMissedEvent'
    BY DEF NoMissedSignal, Missed, Synchronised, NoMissedEvent, TypeOK, IInv,
       Post, Free, Broadcast
  <1> QED BY <1>1, <1>2, <1>3, <1>4 DEF IInv

\* A signal is sent under locks that a synchronised waiter holds until it sleeps.
LEMMA SendInv ==
    ASSUME IInv, NEW s \in Senders, NEW w \in Waiters, Send(s, w)
    PROVE  IInv'
  <1>1. TypeOK'
    BY LockNames DEF TypeOK, PCs, InWait, IInv, Send, Free
  <1>2. LockHeld'
    BY LockNames, NobodyAssumption DEF LockHeld, WaitLock, Holding, TypeOK,
       IInv, Send, Free
  <1>3. SenderBusy'
    BY LockNames, NobodyAssumption DEF SenderBusy, TypeOK, IInv, Send, Free
  <1>4. Quiet'
    BY LockNames, NobodyAssumption DEF Quiet, Synchronised, TypeOK, IInv, Send,
       Free, LockHeld, Holding
  <1>5. Registered' /\ Unready' /\ NoMissedEvent'
    BY DEF Registered, Unready, NoMissedEvent, TypeOK, IInv, Send, Free
  <1>6. NoMissedSignal'
    BY DEF NoMissedSignal, Missed, Synchronised, TypeOK, IInv, Send, Free
  <1> QED BY <1>1, <1>2, <1>3, <1>4, <1>5, <1>6 DEF IInv

\* The broadcast finds the condition registered if its target sleeps.
LEMMA KickInv ==
    ASSUME IInv, NEW s \in Senders, Kick(s)
    PROVE  IInv'
  <1>1. TypeOK'
    BY DEF TypeOK, PCs, InWait, IInv, Kick, Broadcast, SenderBusy
  <1>2. LockHeld' /\ Registered' /\ Quiet' /\ Unready' /\ NoMissedEvent'
    BY DEF LockHeld, WaitLock, Holding, Registered, Quiet, Synchronised,
       Unready, NoMissedEvent, TypeOK, IInv, Kick, Broadcast
  <1>3. SenderBusy'
    BY DEF SenderBusy, TypeOK, IInv, Kick, Broadcast
  <1>4. NoMissedSignal'
    BY DEF NoMissedSignal, Missed, Synchronised, TypeOK, IInv, Kick, Broadcast,
       SenderBusy, Registered
  <1> QED BY <1>1, <1>2, <1>3, <1>4 DEF IInv

\* The sender gives pids_lock back if it took it.
LEMMA FinishInv ==
    ASSUME IInv, NEW s \in Senders, Finish(s)
    PROVE  IInv'
  <1>1. TypeOK'
    BY LockNames DEF TypeOK, PCs, InWait, IInv, Finish, Free
  <1>2. LockHeld'
    BY LockNames, NobodyAssumption DEF LockHeld, WaitLock, Holding, TypeOK,
       IInv, Finish, Free, SenderBusy
  <1>3. SenderBusy'
    BY LockNames, NobodyAssumption DEF SenderBusy, TypeOK, IInv, Finish, Free
  <1>4. Registered' /\ Quiet' /\ Unready' /\ NoMissedSignal' /\ NoMissedEvent'
    BY DEF Registered, Quiet, Synchronised, Unready, NoMissedSignal, Missed,
       NoMissedEvent, TypeOK, IInv, Finish, Free
  <1> QED BY <1>1, <1>2, <1>3, <1>4 DEF IInv

\* IInv is inductive.
LEMMA NextInv == IInv /\ [Next]_vars => IInv'
  <1> SUFFICES ASSUME IInv, [Next]_vars PROVE IInv'
    OBVIOUS
  <1>1. CASE UNCHANGED vars
    BY <1>1 DEF vars, IInv, TypeOK, LockHeld, Registered, SenderBusy, Quiet, Unready,
                NoMissedSignal, Missed, NoMissedEvent
  <1>2. ASSUME NEW w \in Waiters, Step(w) PROVE IInv'
    BY <1>2, CheckInv, TestInv, RegisterInv, SleepInv, WakeInv, RelockInv, UnregisterInv,
       VerdictInv DEF Step
  <1>3. ASSUME NEW w \in Waiters,
               Begin(w) \/ Expire(w) \/ Spurious(w) \/ Receive(w) \/ Post(w)
        PROVE  IInv'
    BY <1>3, BeginInv, ExpireInv, SpuriousInv, ReceiveInv, PostInv
  <1>4. ASSUME NEW s \in Senders, Kick(s) \/ Finish(s) \/ \E w \in Waiters : Send(s, w)
        PROVE  IInv'
    BY <1>4, KickInv, FinishInv, SendInv
  <1> QED BY <1>1, <1>2, <1>3, <1>4 DEF Next

THEOREM InvariantHolds == Spec => []IInv
  BY InitInv, NextInv, PTL DEF Spec

-----------------------------------------------------------------------------
(***************************************************************************)
(* The results                                                             *)
(***************************************************************************)

\* The task structs, locks and conditions keep their types.
THEOREM TypeCorrect == Spec => []TypeOK
  <1>1. IInv => TypeOK
    BY DEF IInv
  <1> QED BY <1>1, InvariantHolds, PTL

\* wait_for looks at the event, and returns to its caller, with the lock of the
\* condition held, and with no other lock of a wait.
THEOREM LockDiscipline == Spec => []LockHeld
  <1>1. IInv => LockHeld
    BY DEF IInv
  <1> QED BY <1>1, InvariantHolds, PTL

\* deliver_signal_unlocked drops the sighand lock and never takes the lock of
\* the condition it broadcasts, and still no signal is lost by sigsuspend or
\* pause, nor by wait4 if every sender holds pids_lock.
THEOREM SignalsNotMissed == Spec => []NoMissedSignal
  <1>1. IInv => NoMissedSignal
    BY DEF IInv
  <1> QED BY <1>1, InvariantHolds, PTL

\* An event that is posted with notify under the lock is never slept through.
THEOREM EventsNotMissed == Spec => []NoMissedEvent
  <1>1. IInv => NoMissedEvent
    BY DEF IInv
  <1> QED BY <1>1, InvariantHolds, PTL
=============================================================================
