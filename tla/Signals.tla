------------------------------ MODULE Signals ------------------------------
(***************************************************************************)
(* Signals inside one process (kernel/signal.c and the way out of          *)
(* handle_interrupt in kernel/calls.c): what a sender queues, what a       *)
(* blocking call looks at, and what receive_signals makes of the queue     *)
(* when a thread goes back to the guest.                                   *)
(*                                                                         *)
(* The threads share a sighand: every access to a mask, a queue or an      *)
(* action is made under its lock, so each locked section is one step.  That *)
(* a thread asleep in one of the calls is woken for a signal is the        *)
(* business of CondWait; here it simply looks.                             *)
(***************************************************************************)
EXTENDS Integers, Sequences, FiniteSets, SequencesExt

CONSTANTS
    Threads,
    Sigs,
    RealTime,   \* the signals that queue (SIGRTMIN and above)
    Kill, Stop, Cont,
    Ignored,    \* ignored by default (SIGCONT, SIGCHLD, ...); others kill
    Masks,      \* the masks the guest uses
    Actions,    \* Actions[s]: the dispositions the guest may install for s
    Directed,   \* Directed[t]: the signals others send to thread t
    Calls,      \* the system calls the guest makes
    MaxSends,   \* bound: signals sent
    NoMask      \* no mask is put aside

Unblockable == {Kill, Stop}
Kinds == {"sigaction", "sigprocmask", "sigsuspend", "pause", "ppoll", "read",
          "sigtimedwait", "overflow"}
SigAction == [handler : {"dfl", "ign", "fn"}, mask : SUBSET Sigs,
              restart : BOOLEAN, nodefer : BOOLEAN, reset : BOOLEAN]

ASSUME SigsAssumption ==
    /\ {Kill, Stop, Cont} \cup RealTime \subseteq Sigs
    /\ Ignored \subseteq Sigs /\ Cont \in Ignored
    /\ Kill # Stop /\ Unblockable \cap (Ignored \cup RealTime) = {}
ASSUME GuestAssumption ==
    /\ Masks \subseteq SUBSET Sigs /\ Actions \in [Sigs -> SUBSET SigAction]
    /\ Directed \in [Threads -> SUBSET Sigs] /\ Calls \subseteq Kinds
ASSUME SendsAssumption == MaxSends \in Nat
ASSUME MaskAssumption == \A m \in SUBSET Sigs : NoMask # m

VARIABLES
    action,     \* the shared sighand: what each signal does
    stopped,    \* group->stopped
    exited,     \* a fatal signal was received: do_exit_group
    clears,     \* senders between queueing SIGCONT or SIGKILL and their second half
    late,       \* history: a stop was received past a queued SIGKILL's second half
    pc,         \* where each thread is
    pending,    \* task->pending, a set
    queue,      \* task->queue
    blocked,    \* task->blocked
    waiting,    \* task->waiting, of sigtimedwait
    saved,      \* task->saved_mask, or NoMask without has_saved_mask
    restart,    \* the call just left is restartable and the PC still past its svc
    resume,     \* what the PC points at: ordinary code or the svc of a read
    frames,     \* the signal frames on the guest stack
    overflow,   \* the guest stack of the thread has no room for a frame
    sent,       \* history: number of signals sent
    asked,      \* history: the mask the guest knows it has
    owed        \* history: real-time signals accepted and not yet taken

shared == <<action, stopped, exited, clears, late>>
masks == <<blocked, waiting, saved>>
guest == <<restart, resume, frames, overflow>>
history == <<sent, asked, owed>>
vars == <<shared, pc, pending, queue, masks, guest, history>>

Default == [handler |-> "dfl", mask |-> {}, restart |-> FALSE,
            nodefer |-> FALSE, reset |-> FALSE]

Asleep == {"suspend", "pause", "poll", "read", "twait"}
PCs == {"user", "receive", "stopwait", "stuck"} \cup Asleep

Init ==
    /\ action = [s \in Sigs |-> Default]
    /\ stopped = FALSE /\ exited = FALSE /\ clears = 0 /\ late = FALSE
    /\ pc = [t \in Threads |-> "user"]
    /\ pending = [t \in Threads |-> {}]
    /\ queue = [t \in Threads |-> <<>>]
    /\ blocked = [t \in Threads |-> {}]
    /\ waiting = [t \in Threads |-> {}]
    /\ saved = [t \in Threads |-> NoMask]
    /\ restart = [t \in Threads |-> FALSE]
    /\ resume = [t \in Threads |-> "user"]
    /\ frames = [t \in Threads |-> <<>>]
    /\ overflow = [t \in Threads |-> FALSE]
    /\ sent = 0
    /\ asked = [t \in Threads |-> {}]
    /\ owed = [t \in Threads |-> [s \in RealTime |-> 0]]

\* The sighand lock can be taken: no thread waits for it while holding it.
Unlocked == \A t \in Threads : pc[t] # "stuck"

Goto(t, l) == pc' = [pc EXCEPT ![t] = l]

\* signal_action
Disposition(act, s) ==
    CASE s \notin Unblockable /\ act[s].handler = "ign" -> "ignore"
      [] s \notin Unblockable /\ act[s].handler = "fn" -> "call"
      [] OTHER -> IF s \in Ignored THEN "ignore" ELSE IF s = Stop THEN "stop" ELSE "kill"

-----------------------------------------------------------------------------
(***************************************************************************)
(* Senders                                                                 *)
(***************************************************************************)

\* Mutant of Deliver: real-time signals coalesce like the others.
DeliverOnce(t, s) ==
    /\ pending' = [pending EXCEPT ![t] = @ \cup {s}]
    /\ queue' = IF s \in pending[t] THEN queue ELSE [queue EXCEPT ![t] = Append(@, s)]

\* Mutant of Deliver: a standard signal is queued once more while pending.
DeliverAgain(t, s) ==
    /\ pending' = [pending EXCEPT ![t] = @ \cup {s}]
    /\ queue' = [queue EXCEPT ![t] = Append(@, s)]

\* deliver_signal_unlocked: a standard signal that is pending is not queued
\* again, a real-time signal is.
Deliver(t, s) ==
    /\ pending' = [pending EXCEPT ![t] = @ \cup {s}]
    /\ queue' = IF s \in pending[t] \ RealTime
                THEN queue ELSE [queue EXCEPT ![t] = Append(@, s)]

\* Mutant of Resumes: SIGKILL leaves a stopped group stopped.
ResumesCont == {Cont}

\* The signals that end a stop the moment they are sent.
Resumes == {Cont, Kill}

\* send_signal to a thread that has not exited, first half: queue the signal
\* unless it is ignored, whatever the thread blocks.
Send(t, s) ==
    /\ ~exited /\ Unlocked /\ sent < MaxSends
    /\ sent' = sent + 1
    /\ IF Disposition(action, s) = "ignore"
       THEN UNCHANGED <<pending, queue, owed>>
       ELSE /\ Deliver(t, s)
            /\ owed' = IF s \in RealTime THEN [owed EXCEPT ![t][s] = @ + 1] ELSE owed
    /\ clears' = clears + (IF s \in Resumes THEN 1 ELSE 0)
    /\ UNCHANGED <<action, stopped, exited, late, pc, masks, guest, asked>>

\* Second half, under the lock of the group: the group is stopped no more.
Continue ==
    /\ ~exited /\ clears > 0
    /\ clears' = clears - 1
    /\ stopped' = FALSE /\ late' = FALSE
    /\ UNCHANGED <<action, exited, pc, pending, queue, masks, guest, history>>

-----------------------------------------------------------------------------
(***************************************************************************)
(* System calls                                                            *)
(***************************************************************************)

\* The guest makes a system call: the PC is past its svc.
Enter(t, c) ==
    /\ ~exited /\ pc[t] = "user" /\ resume[t] = "user" /\ c \in Calls
    /\ restart' = [restart EXCEPT ![t] = FALSE]

\* rt_sigaction
SigactionCall(t, s, a) ==
    /\ Enter(t, "sigaction") /\ Unlocked /\ s \notin Unblockable
    /\ action' = [action EXCEPT ![s] = a]
    /\ Goto(t, "receive")
    /\ UNCHANGED <<stopped, exited, clears, late, pending, queue, masks, resume, frames,
                   overflow, history>>

\* Mutant of SigmaskSet: every signal can be blocked.
SigmaskSetAll(t, m) == blocked' = [blocked EXCEPT ![t] = m]

\* sigmask_set
SigmaskSet(t, m) == blocked' = [blocked EXCEPT ![t] = m \ Unblockable]

\* rt_sigprocmask, all three of its ways.
Sigprocmask(t, m) ==
    /\ Enter(t, "sigprocmask") /\ Unlocked
    /\ \E new \in {m, blocked[t] \cup m, blocked[t] \ m} :
         /\ SigmaskSet(t, new)
         /\ asked' = [asked EXCEPT ![t] = new \ Unblockable]
    /\ Goto(t, "receive")
    /\ UNCHANGED <<shared, pending, queue, waiting, saved, resume, frames, overflow,
                   sent, owed>>

\* sigmask_set_temp: rt_sigsuspend sleeps on, ppoll and epoll_pwait poll with a
\* mask of their own.
TempMask(t, c, m, l) ==
    /\ Enter(t, c) /\ Unlocked
    /\ saved' = [saved EXCEPT ![t] = blocked[t]]
    /\ SigmaskSet(t, m)
    /\ Goto(t, l)
    /\ UNCHANGED <<shared, pending, queue, waiting, resume, frames, overflow, history>>

\* pause, and a read that blocks.
Blocking(t, c, l) ==
    /\ Enter(t, c)
    /\ Goto(t, l)
    /\ UNCHANGED <<shared, pending, queue, masks, resume, frames, overflow, history>>

\* A handler that wanted SA_RESTART has returned: the svc is executed again.
Restart(t) ==
    /\ ~exited /\ pc[t] = "user" /\ resume[t] = "read"
    /\ resume' = [resume EXCEPT ![t] = "user"]
    /\ restart' = [restart EXCEPT ![t] = FALSE]
    /\ Goto(t, "read")
    /\ UNCHANGED <<shared, pending, queue, masks, frames, overflow, history>>

\* rt_sigtimedwait up to its wait.
Sigtimedwait(t, m) ==
    /\ Enter(t, "sigtimedwait") /\ Unlocked /\ m # {}
    /\ waiting' = [waiting EXCEPT ![t] = m]
    /\ Goto(t, "twait")
    /\ UNCHANGED <<shared, pending, queue, blocked, saved, resume, frames, overflow,
                   history>>

\* rt_sigreturn: mask and PC come back from the frame.
Sigreturn(t) ==
    /\ ~exited /\ pc[t] = "user" /\ resume[t] = "user" /\ Unlocked
    /\ frames[t] # <<>>
    /\ SigmaskSet(t, Last(frames[t]).mask)
    /\ resume' = [resume EXCEPT ![t] = Last(frames[t]).resume]
    /\ restart' = [restart EXCEPT ![t] = FALSE]
    /\ asked' = [asked EXCEPT ![t] = Last(frames[t]).believed \ Unblockable]
    /\ frames' = [frames EXCEPT ![t] = Front(@)]
    /\ Goto(t, "receive")
    /\ UNCHANGED <<shared, pending, queue, waiting, saved, overflow, sent, owed>>

\* The guest runs into the end of its stack.
Overflow(t) ==
    /\ ~exited /\ pc[t] = "user" /\ resume[t] = "user" /\ "overflow" \in Calls
    /\ overflow' = [overflow EXCEPT ![t] = TRUE]
    /\ restart' = [restart EXCEPT ![t] = FALSE]
    /\ UNCHANGED <<shared, pc, pending, queue, masks, resume, frames, history>>

-----------------------------------------------------------------------------
(***************************************************************************)
(* The ends of the blocking calls                                          *)
(***************************************************************************)

\* Mutant of SignalPending: the mask the call replaced is looked at.
SignalPendingSaved(t) ==
    pending[t] \ (IF saved[t] = NoMask THEN blocked[t] ELSE saved[t]) # {}

\* is_signal_pending: what sigtimedwait waits for makes no difference.
SignalPending(t) == pending[t] \ blocked[t] # {}

\* EINTR.  Of the calls here only read (futex, epoll_pwait and write behave
\* alike) is restarted.
Interrupted(t) ==
    /\ ~exited /\ pc[t] \in Asleep \ {"twait"} /\ Unlocked
    /\ SignalPending(t)
    /\ restart' = [restart EXCEPT ![t] = pc[t] = "read"]
    /\ Goto(t, "receive")
    /\ UNCHANGED <<shared, pending, queue, masks, resume, frames, overflow, history>>

\* A read or a poll ends with what it waited for.
Completed(t) ==
    /\ ~exited /\ pc[t] \in {"poll", "read"}
    /\ Goto(t, "receive")
    /\ UNCHANGED <<shared, pending, queue, masks, guest, history>>

\* The first queue entry sigtimedwait waits for, or 0.
Found(t) == SelectInSeq(queue[t], LAMBDA s : s \in waiting[t])

\* Mutant of SigtimedwaitEnd: the entry is reported and stays on the queue.
SigtimedwaitEndPeek(t) ==
    /\ ~exited /\ pc[t] = "twait" /\ Unlocked
    /\ SignalPending(t)
    /\ owed' = LET s == queue[t][Found(t)] IN
               IF Found(t) # 0 /\ s \in RealTime
               THEN [owed EXCEPT ![t][s] = @ - 1] ELSE owed
    /\ waiting' = [waiting EXCEPT ![t] = {}]
    /\ Goto(t, "receive")
    /\ UNCHANGED <<shared, pending, queue, blocked, saved, guest, sent, asked>>

\* The end of rt_sigtimedwait: a signal that is not blocked ends the wait; the
\* first entry waited for is unlinked, its bit in pending stays.
SigtimedwaitEnd(t) ==
    /\ ~exited /\ pc[t] = "twait" /\ Unlocked
    /\ SignalPending(t)
    /\ \/ /\ Found(t) # 0
          /\ queue' = [queue EXCEPT ![t] = RemoveAt(@, Found(t))]
          /\ owed' = LET s == queue[t][Found(t)] IN
                     IF s \in RealTime THEN [owed EXCEPT ![t][s] = @ - 1] ELSE owed
       \/ Found(t) = 0 /\ UNCHANGED <<queue, owed>>
    /\ waiting' = [waiting EXCEPT ![t] = {}]
    /\ Goto(t, "receive")
    /\ UNCHANGED <<shared, pending, blocked, saved, guest, sent, asked>>

\* The timeout of rt_sigtimedwait, which does not look at the queue.
SigtimedwaitTimeout(t) ==
    /\ ~exited /\ pc[t] = "twait" /\ Unlocked
    /\ waiting' = [waiting EXCEPT ![t] = {}]
    /\ UNCHANGED <<queue, owed>>
    /\ Goto(t, "receive")
    /\ UNCHANGED <<shared, pending, blocked, saved, guest, sent, asked>>

-----------------------------------------------------------------------------
(***************************************************************************)
(* receive_signals                                                         *)
(***************************************************************************)

\* A timer interrupt or a poke: the thread leaves the translated code, at the
\* instruction after the svc or further on.
Interrupt(t) ==
    /\ ~exited /\ pc[t] = "user"
    /\ \E past \in {restart[t], FALSE} : restart' = [restart EXCEPT ![t] = past]
    /\ Goto(t, "receive")
    /\ UNCHANGED <<shared, pending, queue, masks, resume, frames, overflow, history>>

\* receive_signal for a signal with a handler.  Without room for the frame it
\* calls deliver_signal, which takes the sighand lock it already holds.
Framed(t, s, st) ==
    LET a == st.action[s]
        new == a.mask \cup (IF a.nodefer THEN {} ELSE {s})
    IN IF overflow[t] THEN [st EXCEPT !.stuck = TRUE]
       ELSE [st EXCEPT
               !.frames = Append(@,
                   [sig |-> s, mask |-> st.blocked, believed |-> st.asked,
                    resume |-> IF a.restart /\ st.restart THEN "read" ELSE st.resume,
                    temp |-> st.temp]),
               !.blocked = @ \cup new,
               !.asked = @ \cup new,
               !.restart = FALSE,
               !.resume = "user",
               !.action[s] = IF a.reset THEN Default ELSE a]

\* One entry of the queue: left where it is or taken off and received.
\* mask is the copy of the mask made before the first one.
Receive1(t, mask, st, s) ==
    IF st.killed \/ st.stuck \/ s \in mask
    THEN [st EXCEPT !.queue = Append(@, s)]
    ELSE LET took == [st EXCEPT !.pending = @ \ {s},
                                !.owed = IF s \in RealTime THEN [st.owed EXCEPT ![s] = @ - 1] ELSE @]
             d == Disposition(st.action, s)
         IN CASE d = "ignore" -> took
              [] d = "stop" -> [took EXCEPT !.stopped = TRUE]
              [] d = "kill" -> [took EXCEPT !.killed = TRUE]
              [] d = "call" -> Framed(t, s, took)

\* Mutant of Restored: the mask comes back for the next system call only.
RestoredLate(t) == blocked[t]

\* The mask a call put aside is the mask again before any frame is made.
Restored(t) == IF saved[t] = NoMask THEN blocked[t] ELSE saved[t]

\* A signal is left alone if the mask of the call and the mask put aside by it
\* both block it.
Skipped(t) == blocked[t] \cap Restored(t)

\* What receive_signals works on, before the first entry and after the i-th.
Start(t) ==
    [action |-> action, stopped |-> stopped, killed |-> FALSE, stuck |-> FALSE,
     pending |-> pending[t], queue |-> <<>>, blocked |-> Restored(t), asked |-> asked[t],
     frames |-> frames[t], resume |-> resume[t], restart |-> restart[t],
     temp |-> saved[t] # NoMask, owed |-> owed[t]]

Walk(t) ==
    LET after[i \in 0 .. Len(queue[t])] ==
          IF i = 0 THEN Start(t)
          ELSE Receive1(t, Skipped(t), after[i - 1], queue[t][i])
    IN after

\* No sender has the stop still to clear, and a SIGKILL is on some queue.
KillPast == clears = 0 /\ \E u \in Threads : Kill \in ToSet(queue[u])

\* receive_signals, one critical section, and the look at group->stopped.
Receive(t) ==
    /\ ~exited /\ pc[t] = "receive" /\ Unlocked
    /\ \E end \in {Walk(t)[Len(queue[t])]} :
          /\ action' = end.action
          /\ stopped' = end.stopped
          /\ exited' = end.killed
          /\ late' = (late \/ (KillPast /\ Stop \in ToSet(queue[t]) \ ToSet(end.queue)))
          /\ pending' = [pending EXCEPT ![t] = end.pending]
          /\ queue' = [queue EXCEPT ![t] = end.queue]
          /\ blocked' = [blocked EXCEPT ![t] = end.blocked]
          /\ asked' = [asked EXCEPT ![t] = end.asked]
          /\ frames' = [frames EXCEPT ![t] = end.frames]
          /\ resume' = [resume EXCEPT ![t] = end.resume]
          /\ restart' = [restart EXCEPT ![t] = end.restart]
          /\ owed' = [owed EXCEPT ![t] = end.owed]
          /\ Goto(t, IF end.stuck THEN "stuck" ELSE "stopwait")
    /\ saved' = [saved EXCEPT ![t] = NoMask]
    /\ UNCHANGED <<clears, waiting, overflow, sent>>

\* handle_interrupt goes back to the guest unless the group is stopped.
Return(t) ==
    /\ ~exited /\ pc[t] = "stopwait" /\ ~stopped
    /\ Goto(t, "user")
    /\ UNCHANGED <<shared, pending, queue, masks, guest, history>>

-----------------------------------------------------------------------------
\* What the thread does by itself, without a decision of the guest.
Kernel(t) == Interrupted(t) \/ SigtimedwaitEnd(t) \/ Receive(t) \/ Return(t)

Guest(t) ==
    \/ \E s \in Sigs : \E a \in Actions[s] : SigactionCall(t, s, a)
    \/ \E m \in Masks :
         \/ Sigprocmask(t, m)
         \/ TempMask(t, "sigsuspend", m, "suspend")
         \/ TempMask(t, "ppoll", m, "poll")
         \/ Sigtimedwait(t, m)
    \/ Blocking(t, "pause", "pause")
    \/ Blocking(t, "read", "read")
    \/ Restart(t)
    \/ Sigreturn(t)
    \/ Overflow(t)
    \/ Completed(t)
    \/ SigtimedwaitTimeout(t)

Next ==
    \/ \E t \in Threads :
         Kernel(t) \/ Interrupt(t) \/ Guest(t) \/ \E s \in Directed[t] : Send(t, s)
    \/ Continue

Spec == Init /\ [][Next]_vars

\* Host threads are scheduled, the translated code is left again and again,
\* and a sender finishes what it began.  The guest owes no system call.
FairSpec ==
    /\ Spec
    /\ \A t \in Threads : WF_vars(Kernel(t)) /\ WF_vars(Interrupt(t))
    /\ WF_vars(Continue)

-----------------------------------------------------------------------------
Frame == [sig : Sigs, mask : SUBSET Sigs, believed : SUBSET Sigs,
          resume : {"user", "read"}, temp : BOOLEAN]

TypeOK ==
    /\ action \in [Sigs -> SigAction]
    /\ {stopped, exited, late} \subseteq BOOLEAN
    /\ clears \in 0 .. MaxSends
    /\ pc \in [Threads -> PCs]
    /\ pending \in [Threads -> SUBSET Sigs]
    /\ queue \in [Threads -> Seq(Sigs)]
    /\ blocked \in [Threads -> SUBSET Sigs]
    /\ waiting \in [Threads -> SUBSET Sigs]
    /\ saved \in [Threads -> (SUBSET Sigs) \cup {NoMask}]
    /\ restart \in [Threads -> BOOLEAN]
    /\ resume \in [Threads -> {"user", "read"}]
    /\ frames \in [Threads -> Seq(Frame)]
    /\ overflow \in [Threads -> BOOLEAN]
    /\ sent \in 0 .. MaxSends
    /\ asked \in [Threads -> SUBSET Sigs]
    /\ owed \in [Threads -> [RealTime -> Nat]]

\* While the sighand lock is free, what is queued has its bit in pending, so a
\* blocking call that looks at the bits misses no queued signal; and a standard
\* signal is queued once, however the senders, the receiver and sigtimedwait
\* take turns.
QueueHasBits ==
    ~exited /\ Unlocked =>
        \A t \in Threads :
            /\ ToSet(queue[t]) \subseteq pending[t]
            /\ \A i, j \in DOMAIN queue[t] :
                 i # j /\ queue[t][i] = queue[t][j] => queue[t][i] \in RealTime

Instances(q, s) == {i \in DOMAIN q : q[i] = s}

\* "Real-time signals queue: each delivery is a distinct instance and must not
\* be coalesced" (the comment at deliver_signal_unlocked): every instance that
\* was accepted is on the queue until it is taken, and is taken once.
RealTimeKept ==
    \A t \in Threads, s \in RealTime :
        owed[t][s] = Cardinality(Instances(queue[t], s))

\* A thread that runs guest code has the mask it asked for, widened by the
\* handlers it is in: the mask of a sigsuspend, ppoll or epoll_pwait never
\* leaks into the program, neither directly nor through a signal frame.
MaskKept == \A t \in Threads : pc[t] = "user" => blocked[t] = asked[t]

\* SIGKILL and SIGSTOP are only ever blocked inside a handler.  (They are
\* there: receive_signal adds sa_mask without taking the two out.)
UnblockableInHandlerOnly ==
    \A t \in Threads : blocked[t] \cap Unblockable # {} => frames[t] # <<>>

Deliverable(t) == ToSet(queue[t]) \ blocked[t]

\* A SIGKILL that is queued and not blocked ends the process, stopped or not,
\* unless a thread hangs on the sighand lock, or a thread received a stop after
\* the sender of the SIGKILL had cleared the stop (late): the thread that has to
\* take the SIGKILL then sleeps without looking at its signals.
KillEnds ==
    (\E t \in Threads : Kill \in Deliverable(t)) ~> (exited \/ late \/ ~Unlocked)

\* The same without the late stop.  The code does not keep it: a SIGSTOP sent to
\* one thread and a SIGKILL to another are received in the wrong order, and only
\* another SIGCONT or SIGKILL lets the process end.
KillBeatsStop ==
    (\E t \in Threads : Kill \in Deliverable(t)) ~> (exited \/ ~Unlocked)

\* Queued signals that are not blocked are all taken or become blocked, whatever
\* call the thread sleeps in, unless the process stops, ends or hangs.
SignalTaken ==
    \A t \in Threads :
        Deliverable(t) # {} ~> (Deliverable(t) = {} \/ exited \/ stopped \/ ~Unlocked)

\* "By default the signal will be blocked while in the handler" (the comment in
\* receive_signal): no handler starts for a signal that the handlers before it
\* block.  A frame made on the way out of sigsuspend or ppoll is exempt: the
\* call let the signal in.
HandlerMasked ==
    \A t \in Threads : \A i \in DOMAIN frames[t] :
        ~frames[t][i].temp => frames[t][i].sig \notin frames[t][i].mask

-----------------------------------------------------------------------------
\* The inductive invariant

\* Where the mask the guest knows of is, at each place of a thread: in force, put
\* aside by a call, or in the frames that will bring it back.
MaskHistory == \A t \in Threads :
    /\ pc[t] \in {"user", "stopwait", "pause", "read", "twait"} =>
         saved[t] = NoMask /\ blocked[t] = asked[t]
    /\ pc[t] \in {"suspend", "poll"} => saved[t] = asked[t]
    /\ pc[t] = "receive" => Restored(t) = asked[t]
    /\ \A i \in DOMAIN frames[t] : frames[t][i].mask = frames[t][i].believed

\* Without a frame neither the mask nor the one put aside has SIGKILL or SIGSTOP.
NoFrameNoBlock == \A t \in Threads :
    frames[t] = <<>> => blocked[t] \cap Unblockable = {} /\ Restored(t) \cap Unblockable = {}

IInv ==
    /\ TypeOK
    /\ clears <= sent
    /\ QueueHasBits
    /\ RealTimeKept
    /\ MaskHistory
    /\ NoFrameNoBlock
=============================================================================
