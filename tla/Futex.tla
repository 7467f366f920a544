------------------------------- MODULE Futex -------------------------------
(***************************************************************************)
(* The futexes of one guest process (kernel/futex.c) with the part of      *)
(* thread exit that uses them (kernel/exit.c).                             *)
(*                                                                         *)
(* Tasks are the threads of one thread group, sharing one address space,   *)
(* so a struct futex is identified by its address alone.  A struct futex   *)
(* exists while its refcount is positive.  A waiter sleeps in host poll()  *)
(* on a pipe of its own; futex_wake_queue writes one byte to that pipe and *)
(* unlinks the waiter.  futex_lock serialises everything that touches      *)
(* refcounts and queues, but not the guest words: the guest stores to them *)
(* at any time, so loading a word and acting on the value are two steps.   *)
(*                                                                         *)
(* A task's control state:                                                 *)
(*   run      executing guest code                                         *)
(*   ptr      futex_wait: has the lock and the host pointer of the word    *)
(*   enq      futex_wait: has the lock, loaded the expected value          *)
(*   sleep    top of the poll loop                                         *)
(*   recheck  poll returned without a byte, no exit and no signal pending  *)
(*   reload   recheck has fetched the host pointer of the word             *)
(*   valve    stalled too long, about to run the safety valve              *)
(*   abandon  the valve has decided to end the process                     *)
(*   leave    left the loop, about to take the lock and unlink itself      *)
(*   cmp      futex_cmp_requeue: has the lock and the host pointer         *)
(*   wakeop   futex_wake_op: word updated, about to take the lock          *)
(*   done     the call has returned; ret is its result                     *)
(*   endgroup the safety valve has decided on do_exit_group                *)
(*   dying    do_exit_group has flagged the group and calls do_exit        *)
(*   exiting  do_exit has cleared the clear_tid word                       *)
(*   gone     do_exit is past its futex part                               *)
(***************************************************************************)
EXTENDS Integers, Sequences, FiniteSets, SequencesExt

CONSTANTS
    Tasks,      \* the threads of the process
    Addrs,      \* addresses of guest words used as futexes
    Values,     \* the values a word may hold
    Counts,     \* the numbers of waiters a call asks to wake or requeue
    Calls,      \* Calls[t]: what the guest program of thread t may do
    StallMax,   \* polls before the safety valve (1800 in the code)
    Unmapped,   \* content of a word whose page is not mapped
    NoTask,     \* futex_lock is free
    NoFutex     \* a task holds no reference to a struct futex

Ops == {"wait", "timedwait", "wake", "requeue", "cmp_requeue", "wake_op", "bad",
        "store", "map", "signal", "fork", "exit", "exit_group"}

ASSUME ValuesAssumption == 0 \in Values /\ Unmapped \notin Values
ASSUME CountsAssumption == Counts \subseteq Nat
ASSUME CallsAssumption == Calls \in [Tasks -> SUBSET Ops]
ASSUME StallAssumption == StallMax \in Nat \ {0}
ASSUME TasksAssumption == IsFiniteSet(Tasks) /\ NoTask \notin Tasks
ASSUME AddrsAssumption == NoFutex \notin Addrs /\ Addrs # {}

EFAULT == -14
EAGAIN == -11
EINTR == -4
ENOMEM == -12
EINVAL == -22
ENOSYS == -38
ETIMEDOUT == -110

VARIABLES
    word,       \* guest memory
    refcount,   \* futex->refcount; 0 when there is no struct futex
    queue,      \* futex->queue
    lock,       \* holder of futex_lock
    pc,         \* control state of each task
    arg,        \* arguments of the call a task is in
    futex,      \* the struct futex a task holds a reference to (wait.futex)
    ret,        \* err while in the call, the call's result afterwards
    pipe,       \* bytes in futex_pipe; -1 before it is created
    stall,      \* stall_count
    pending,    \* current->pending & ~current->blocked is not empty
    groupExit,  \* group->doing_group_exit
    children    \* the process has a live child process

vars == <<word, refcount, queue, lock, pc, arg, futex, ret, pipe, stall,
          pending, groupExit, children>>

\* What a call and its local variables touch besides pc.
env == <<pending, groupExit, children>>

Holding == {"ptr", "enq", "cmp"}
InLoop == {"sleep", "recheck", "reload", "valve", "abandon"}
Waiting == InLoop \cup {"leave"}
PCs == {"run", "done", "wakeop", "endgroup", "dying", "exiting", "gone"}
         \cup Holding \cup Waiting

Args == [addr : Addrs, addr2 : Addrs, val : Values, timed : BOOLEAN,
         wake : Counts \cup {0}, requeue : Counts \cup {0}, both : BOOLEAN]

AnyAddr == CHOOSE a \in Addrs : TRUE

NoArgs == [addr |-> AnyAddr, addr2 |-> AnyAddr, val |-> 0, timed |-> FALSE,
           wake |-> 0, requeue |-> 0, both |-> FALSE]

Init ==
    /\ word = [a \in Addrs |-> 0]
    /\ refcount = [a \in Addrs |-> 0]
    /\ queue = [a \in Addrs |-> <<>>]
    /\ lock = NoTask
    /\ pc = [t \in Tasks |-> "run"]
    /\ arg = [t \in Tasks |-> NoArgs]
    /\ futex = [t \in Tasks |-> NoFutex]
    /\ ret = [t \in Tasks |-> 0]
    /\ pipe = [t \in Tasks |-> -1]
    /\ stall = [t \in Tasks |-> 0]
    /\ pending = [t \in Tasks |-> FALSE]
    /\ groupExit = FALSE
    /\ children = FALSE

-----------------------------------------------------------------------------
(***************************************************************************)
(* Pieces the handlers share.                                              *)
(***************************************************************************)

LowerOf(m, n) == IF m <= n THEN m ELSE n

Goto(t, l) == pc' = [pc EXCEPT ![t] = l]

\* The call of t returns r to the guest; its arguments are out of scope.
Return(t, r) ==
    /\ Goto(t, "done")
    /\ ret' = [ret EXCEPT ![t] = r]
    /\ arg' = [arg EXCEPT ![t] = NoArgs]

SetArgs(t, r) == arg' = [arg EXCEPT ![t] = r]

\* t breaks out of the poll loop with err = r.
Break(t, r) ==
    /\ Goto(t, "leave")
    /\ ret' = [ret EXCEPT ![t] = r]

\* What a load through a host pointer to word a can yield.  The pointer was
\* fetched under mem->lock, which has been released since: when the page has
\* gone meanwhile the load reads whatever is there.
Loads(a) == IF word[a] = Unmapped THEN Values ELSE {word[a]}

\* futex_get_unlocked and futex_put_unlocked on the refcounts rc.
Get(rc, a) == [rc EXCEPT ![a] = @ + 1]
Put(rc, a) == [rc EXCEPT ![a] = @ - 1]

\* futex_wake_queue: the waiters it takes off queue[a] of q, the queues it
\* leaves, and the bytes it writes.
Taken(q, a, n) == SubSeq(q[a], 1, LowerOf(n, Len(q[a])))
Rest(q, a, n) == SubSeq(q[a], LowerOf(n, Len(q[a])) + 1, Len(q[a]))
Dequeue(q, a, n) == [q EXCEPT ![a] = Rest(q, a, n)]
Notify(p, woken) ==
    [t \in Tasks |-> IF t \in Range(woken) /\ p[t] # -1 THEN p[t] + 1 ELSE p[t]]

\* Mutant of Requeued: the moved waiters are not counted.
RequeuedForgotten(q, a, b, n) == 0

\* The requeue loop moves up to n waiters from the head of a to the tail of b.
\* For a = b every waiter it appends comes round again, so the loop only ends
\* with its count, except that a single waiter is visited once.
Requeued(q, a, b, n) ==
    IF a = b /\ Len(q[a]) > 1 THEN n ELSE LowerOf(n, Len(q[a]))
Turns(q, a, n) == IF q[a] = <<>> THEN 0 ELSE n % Len(q[a])
Transfer(q, a, b, n) ==
    IF a = b
    THEN [q EXCEPT ![a] = Rest(q, a, Turns(q, a, n)) \o Taken(q, a, Turns(q, a, n))]
    ELSE [q EXCEPT ![a] = Rest(q, a, n), ![b] = @ \o Taken(q, a, n)]
Moved(q, a, b, n) == IF a = b THEN {} ELSE Range(Taken(q, a, n))

\* Mutant of MoveRefs: one side of the handover is forgotten.
MoveRefsKeepSource(rc, a, b, ts) ==
    IF a = b THEN rc ELSE [rc EXCEPT ![b] = @ + Cardinality(ts)]

\* The refcounts after moving the waiters ts from a to b.
MoveRefs(rc, a, b, ts) ==
    IF a = b THEN rc
    ELSE [rc EXCEPT ![a] = @ - Cardinality(ts), ![b] = @ + Cardinality(ts)]

\* Wake n waiters of a, requeue m to b, return how many that was.  The caller
\* holds futex_lock; rc are the refcounts without the caller's own references.
WakeAndRequeue(t, rc, a, n, b, m) ==
    LET q == Dequeue(queue, a, n)
        moved == Moved(q, a, b, m)
    IN /\ queue' = Transfer(q, a, b, m)
       /\ pipe' = Notify(pipe, Taken(queue, a, n))
       /\ refcount' = MoveRefs(rc, a, b, moved)
       /\ futex' = [u \in Tasks |->
                      IF u = t THEN NoFutex ELSE IF u \in moved THEN b ELSE futex[u]]
       /\ Return(t, Len(Taken(queue, a, n)) + Requeued(q, a, b, m))

\* Mutant of Without: a waiter that gives up stays linked.
WithoutNothing(s, t) == s

\* list_remove_safe: a sequence without its element t, if it has one.
Without(s, t) ==
    IF t \in Range(s) THEN RemoveAt(s, CHOOSE i \in DOMAIN s : s[i] = t) ELSE s

\* The list_remove_safe / futex_put_unlocked pair that ends a wait, its local
\* stall_count with it.
Unlink(t) ==
    /\ lock = NoTask
    /\ stall' = [stall EXCEPT ![t] = 0]
    /\ queue' = [queue EXCEPT ![futex[t]] = Without(@, t)]
    /\ refcount' = Put(refcount, futex[t])
    /\ futex' = [futex EXCEPT ![t] = NoFutex]

\* Leave a handler that holds the lock and one reference without waiting.
Release(t) ==
    /\ lock' = NoTask
    /\ refcount' = Put(refcount, futex[t])
    /\ futex' = [futex EXCEPT ![t] = NoFutex]

-----------------------------------------------------------------------------
(***************************************************************************)
(* futex_wait                                                              *)
(***************************************************************************)

\* futex_get, then mem_ptr in futex_load.
FutexWaitGet(t, a, v, timed) ==
    /\ pc[t] = "run" /\ (IF timed THEN "timedwait" ELSE "wait") \in Calls[t]
    /\ lock = NoTask
    /\ IF word[a] = Unmapped
       THEN /\ Return(t, EFAULT)
            /\ UNCHANGED <<lock, refcount, futex>>
       ELSE /\ Goto(t, "ptr")
            /\ SetArgs(t, [NoArgs EXCEPT !.addr = a, !.val = v, !.timed = timed])
            /\ lock' = t
            /\ refcount' = Get(refcount, a)
            /\ futex' = [futex EXCEPT ![t] = a]
            /\ UNCHANGED ret
    /\ UNCHANGED <<word, queue, pipe, stall, env>>

\* The load of the word in futex_load, and the comparison.
FutexWaitLoad(t) ==
    /\ pc[t] = "ptr"
    /\ \E v \in Loads(arg[t].addr) :
         IF v # arg[t].val
         THEN Release(t) /\ Return(t, EAGAIN)
         ELSE Goto(t, "enq") /\ UNCHANGED <<lock, refcount, arg, futex, ret>>
    /\ UNCHANGED <<word, queue, pipe, stall, env>>

\* pipe() fails.
FutexWaitNoPipe(t) ==
    /\ pc[t] = "enq" /\ pipe[t] = -1
    /\ Release(t) /\ Return(t, ENOMEM)
    /\ UNCHANGED <<word, queue, pipe, stall, env>>

\* Mutant of FutexWaitEnqueue: the bytes of earlier wakeups are not drained.
FutexWaitEnqueueUndrained(t) ==
    /\ pc[t] = "enq"
    /\ pipe' = [pipe EXCEPT ![t] = IF @ = -1 THEN 0 ELSE @]
    /\ queue' = [queue EXCEPT ![futex[t]] = Append(@, t)]
    /\ lock' = NoTask
    /\ stall' = [stall EXCEPT ![t] = 0]
    /\ Goto(t, "sleep")
    /\ UNCHANGED <<word, refcount, arg, futex, ret, env>>

\* Create or drain the pipe, link into the queue, unlock.
FutexWaitEnqueue(t) ==
    /\ pc[t] = "enq"
    /\ pipe' = [pipe EXCEPT ![t] = 0]
    /\ queue' = [queue EXCEPT ![futex[t]] = Append(@, t)]
    /\ lock' = NoTask
    /\ stall' = [stall EXCEPT ![t] = 0]
    /\ Goto(t, "sleep")
    /\ UNCHANGED <<word, refcount, arg, futex, ret, env>>

\* The deadline has passed at the top of the loop.
FutexWaitDeadline(t) ==
    /\ pc[t] = "sleep" /\ arg[t].timed
    /\ Break(t, ETIMEDOUT)
    /\ UNCHANGED <<word, refcount, queue, lock, arg, futex, pipe, stall, env>>

\* poll reports a byte: drain the pipe, break with 0.
FutexWaitWoken(t) ==
    /\ pc[t] = "sleep" /\ pipe[t] > 0
    /\ pipe' = [pipe EXCEPT ![t] = 0]
    /\ Break(t, 0)
    /\ UNCHANGED <<word, refcount, queue, lock, arg, futex, stall, env>>

\* Mutant of FutexWaitPoll: signals are not looked at.
FutexWaitPollDeaf(t) ==
    /\ pc[t] = "sleep" /\ pipe[t] = 0
    /\ stall' = [stall EXCEPT ![t] = LowerOf(@ + 1, StallMax)]
    /\ IF groupExit THEN Break(t, EINTR) ELSE Goto(t, "recheck") /\ UNCHANGED ret
    /\ UNCHANGED <<word, refcount, queue, lock, arg, futex, pipe, env>>

\* poll times out or is interrupted: count it, look for an exit or a signal.
\* stall_count is capped at StallMax; the code only asks whether it is that high.
FutexWaitPoll(t) ==
    /\ pc[t] = "sleep" /\ pipe[t] = 0
    /\ stall' = [stall EXCEPT ![t] = LowerOf(@ + 1, StallMax)]
    /\ IF groupExit \/ pending[t]
       THEN Break(t, EINTR)
       ELSE Goto(t, "recheck") /\ UNCHANGED ret
    /\ UNCHANGED <<word, refcount, queue, lock, arg, futex, pipe, env>>

\* mem_ptr of the periodic check.
FutexWaitRecheck(t) ==
    /\ pc[t] = "recheck"
    /\ IF word[arg[t].addr] = Unmapped
       THEN Break(t, EFAULT)
       ELSE Goto(t, "reload") /\ UNCHANGED ret
    /\ UNCHANGED <<word, refcount, queue, lock, arg, futex, pipe, stall, env>>

\* Mutant of FutexWaitReload: the periodic check compares nothing.
FutexWaitReloadBlind(t) ==
    /\ pc[t] = "reload"
    /\ Goto(t, IF ~arg[t].timed /\ stall[t] >= StallMax THEN "valve" ELSE "sleep")
    /\ UNCHANGED <<word, refcount, queue, lock, arg, futex, ret, pipe, stall, env>>

\* The load of the periodic check.
FutexWaitReload(t) ==
    /\ pc[t] = "reload"
    /\ \E v \in Loads(arg[t].addr) :
         IF v # arg[t].val
         THEN Break(t, 0)
         ELSE /\ Goto(t, IF ~arg[t].timed /\ stall[t] >= StallMax THEN "valve" ELSE "sleep")
              /\ UNCHANGED ret
    /\ UNCHANGED <<word, refcount, queue, lock, arg, futex, pipe, stall, env>>

Live == {t \in Tasks : pc[t] # "gone"}

\* Mutant of SafetyValve: off by one in the number of threads.
SafetyValveTwoOthers(t) ==
    /\ pc[t] = "valve"
    /\ Goto(t, IF ~children /\ Cardinality(Live) > 2 THEN "abandon" ELSE "sleep")
    /\ stall' = [stall EXCEPT ![t] = IF children THEN 0 ELSE @]
    /\ UNCHANGED <<word, refcount, queue, lock, arg, futex, ret, pipe, env>>

\* The safety valve counts threads and live children under pids_lock.
SafetyValve(t) ==
    /\ pc[t] = "valve"
    /\ Goto(t, IF ~children /\ Cardinality(Live) > 1 THEN "abandon" ELSE "sleep")
    /\ stall' = [stall EXCEPT ![t] = IF children THEN 0 ELSE @]
    /\ UNCHANGED <<word, refcount, queue, lock, arg, futex, ret, pipe, env>>

\* It takes the waiter off its queue and goes on to do_exit_group(0).
SafetyValveUnlink(t) ==
    /\ pc[t] = "abandon"
    /\ Unlink(t)
    /\ Goto(t, "endgroup")
    /\ SetArgs(t, NoArgs)
    /\ UNCHANGED <<word, lock, ret, pipe, env>>

\* After the loop: lock, unlink, put, unlock, return err.
FutexWaitDone(t) ==
    /\ pc[t] = "leave"
    /\ Unlink(t)
    /\ Return(t, ret[t])
    /\ UNCHANGED <<word, lock, pipe, env>>

-----------------------------------------------------------------------------
(***************************************************************************)
(* FUTEX_WAKE, FUTEX_REQUEUE, FUTEX_CMP_REQUEUE, FUTEX_WAKE_OP             *)
(***************************************************************************)

\* futex_wakelike(FUTEX_WAKE_).
FutexWake(t, a, n) ==
    /\ pc[t] = "run" /\ "wake" \in Calls[t]
    /\ lock = NoTask
    /\ WakeAndRequeue(t, refcount, a, n, a, 0)
    /\ UNCHANGED <<word, lock, stall, env>>

\* futex_wakelike(FUTEX_REQUEUE_).
FutexRequeue(t, a, n, b, m) ==
    /\ pc[t] = "run" /\ "requeue" \in Calls[t]
    /\ lock = NoTask
    /\ WakeAndRequeue(t, refcount, a, n, b, m)
    /\ UNCHANGED <<word, lock, stall, env>>

\* futex_cmp_requeue up to mem_ptr in futex_load.
FutexCmpRequeueGet(t, a, n, b, m, v) ==
    /\ pc[t] = "run" /\ "cmp_requeue" \in Calls[t]
    /\ lock = NoTask
    /\ IF word[a] = Unmapped
       THEN /\ Return(t, EFAULT)
            /\ UNCHANGED <<lock, refcount, futex>>
       ELSE /\ Goto(t, "cmp")
            /\ SetArgs(t, [NoArgs EXCEPT !.addr = a, !.wake = n, !.addr2 = b,
                                         !.requeue = m, !.val = v])
            /\ lock' = t
            /\ refcount' = Get(refcount, a)
            /\ futex' = [futex EXCEPT ![t] = a]
            /\ UNCHANGED ret
    /\ UNCHANGED <<word, queue, pipe, stall, env>>

\* The load, the comparison and, still under the lock, the wake and requeue.
FutexCmpRequeue(t) ==
    /\ pc[t] = "cmp"
    /\ \E v \in Loads(arg[t].addr) :
         IF v # arg[t].val
         THEN Release(t) /\ Return(t, EAGAIN) /\ UNCHANGED <<queue, pipe>>
         ELSE /\ lock' = NoTask
              /\ WakeAndRequeue(t, Put(refcount, arg[t].addr), arg[t].addr, arg[t].wake,
                                arg[t].addr2, arg[t].requeue)
    /\ UNCHANGED <<word, stall, env>>

\* futex_wake_op: the read-modify-write of *uaddr2, under mem->lock.  The new
\* value and the outcome of the comparison stand for what val3 encodes.
FutexWakeOpModify(t, a, n, b, m, new, cmparg) ==
    /\ pc[t] = "run" /\ "wake_op" \in Calls[t]
    /\ IF word[b] = Unmapped
       THEN Return(t, EFAULT) /\ UNCHANGED word
       ELSE /\ word' = [word EXCEPT ![b] = new]
            /\ \/ /\ Goto(t, "wakeop")
                  /\ SetArgs(t, [NoArgs EXCEPT !.addr = a, !.wake = n, !.addr2 = b,
                                               !.requeue = m, !.both = (word[b] = cmparg)])
                  /\ UNCHANGED ret
               \/ Return(t, ENOSYS)    \* unknown cmp_code
    /\ UNCHANGED <<refcount, queue, lock, futex, pipe, stall, env>>

\* futex_wake_op: wake waiters of uaddr and, if the comparison held, of uaddr2.
FutexWakeOp(t) ==
    /\ pc[t] = "wakeop"
    /\ lock = NoTask
    /\ LET a == arg[t].addr
           b == arg[t].addr2
           n == arg[t].wake
           m == IF arg[t].both THEN arg[t].requeue ELSE 0
           q == Dequeue(queue, a, n)
       IN /\ queue' = Dequeue(q, b, m)
          /\ pipe' = Notify(Notify(pipe, Taken(queue, a, n)), Taken(q, b, m))
          /\ Return(t, Len(Taken(queue, a, n)) + Len(Taken(q, b, m)))
    /\ UNCHANGED <<word, refcount, lock, futex, stall, env>>

\* An operation sys_futex or futex_wake_op refuses before touching anything.
FutexBad(t) ==
    /\ pc[t] = "run" /\ "bad" \in Calls[t]
    /\ \E e \in {EINVAL, ENOSYS, EFAULT} : Return(t, e)
    /\ UNCHANGED <<word, refcount, queue, lock, futex, pipe, stall, env>>

-----------------------------------------------------------------------------
(***************************************************************************)
(* Thread exit                                                             *)
(***************************************************************************)

\* do_exit up to the store to clear_tid, which set_tid_address or clone may
\* have put at any address.  When the store faults there is no wake.
ExitClear(t, a) ==
    /\ \/ pc[t] = "dying"
       \/ pc[t] = "run" /\ "exit" \in Calls[t]
       \/ pc[t] \in {"run", "done"} /\ groupExit
    /\ IF word[a] = Unmapped
       THEN /\ Goto(t, "gone")
            /\ pipe' = [pipe EXCEPT ![t] = -1]
            /\ UNCHANGED <<word, arg>>
       ELSE /\ word' = [word EXCEPT ![a] = 0]
            /\ SetArgs(t, [NoArgs EXCEPT !.addr = a])
            /\ Goto(t, "exiting")
            /\ UNCHANGED pipe
    /\ ret' = [ret EXCEPT ![t] = 0]
    /\ UNCHANGED <<refcount, queue, lock, futex, stall, env>>

\* futex_wake(clear_tid, 1), then the pipe is closed.
ExitWake(t) ==
    /\ pc[t] = "exiting"
    /\ lock = NoTask
    /\ LET a == arg[t].addr
       IN /\ queue' = Dequeue(queue, a, 1)
          /\ pipe' = [Notify(pipe, Taken(queue, a, 1)) EXCEPT ![t] = -1]
    /\ Goto(t, "gone")
    /\ SetArgs(t, NoArgs)
    /\ UNCHANGED <<word, refcount, lock, futex, ret, stall, env>>

\* do_exit_group: flag the group, SIGKILL to everybody in it; the caller then
\* exits like any other thread.
ExitGroup(t) ==
    /\ \/ pc[t] = "endgroup"
       \/ pc[t] = "run" /\ "exit_group" \in Calls[t]
    /\ groupExit' = TRUE
    /\ pending' = [u \in Tasks |-> pc[u] # "gone"]
    /\ Goto(t, "dying")
    /\ UNCHANGED <<word, refcount, queue, lock, arg, futex, ret, pipe, stall, children>>

-----------------------------------------------------------------------------
(***************************************************************************)
(* The guest program and the rest of the system                            *)
(***************************************************************************)

\* The guest consumes the result of its last call and goes on; a deliverable
\* signal is received on the way.
GuestResume(t) ==
    /\ pc[t] = "done" /\ ~groupExit
    /\ Goto(t, "run")
    /\ ret' = [ret EXCEPT ![t] = 0]
    /\ pending' = [pending EXCEPT ![t] = FALSE]
    /\ UNCHANGED <<word, refcount, queue, lock, arg, futex, pipe, stall, groupExit, children>>

GuestStore(t, a, v) ==
    /\ pc[t] = "run" /\ "store" \in Calls[t]
    /\ word[a] # Unmapped
    /\ word' = [word EXCEPT ![a] = v]
    /\ UNCHANGED <<refcount, queue, lock, pc, arg, futex, ret, pipe, stall, env>>

\* munmap and mmap of the page of a word.
GuestMap(t, a) ==
    /\ pc[t] = "run" /\ "map" \in Calls[t]
    /\ word' = [word EXCEPT ![a] = IF @ = Unmapped THEN 0 ELSE Unmapped]
    /\ UNCHANGED <<refcount, queue, lock, pc, arg, futex, ret, pipe, stall, env>>

\* A thread sends an unblocked signal to another.
GuestSignal(t, u) ==
    /\ pc[t] = "run" /\ "signal" \in Calls[t]
    /\ pc[u] # "gone"
    /\ pending' = [pending EXCEPT ![u] = TRUE]
    /\ UNCHANGED <<word, refcount, queue, lock, pc, arg, futex, ret, pipe, stall,
                   groupExit, children>>

GuestFork(t) ==
    /\ pc[t] = "run" /\ "fork" \in Calls[t]
    /\ ~children
    /\ children' = TRUE
    /\ UNCHANGED <<word, refcount, queue, lock, pc, arg, futex, ret, pipe, stall,
                   pending, groupExit>>

\* The last live child process exits.
ChildrenExit ==
    /\ children
    /\ children' = FALSE
    /\ UNCHANGED <<word, refcount, queue, lock, pc, arg, futex, ret, pipe, stall,
                   pending, groupExit>>

-----------------------------------------------------------------------------

\* A step inside a call or inside do_exit that needs no lock.
Inside(t) ==
    \/ FutexWaitLoad(t) \/ FutexWaitNoPipe(t) \/ FutexWaitEnqueue(t)
    \/ FutexWaitWoken(t) \/ FutexWaitPoll(t)
    \/ FutexWaitRecheck(t) \/ FutexWaitReload(t)
    \/ SafetyValve(t) \/ FutexCmpRequeue(t)

\* A step of a call in progress that takes futex_lock.
Locking(t) ==
    \/ SafetyValveUnlink(t) \/ FutexWaitDone(t) \/ FutexWakeOp(t) \/ ExitWake(t)

Call(t) ==
    \/ \E a \in Addrs :
         \/ \E v \in Values, timed \in BOOLEAN : FutexWaitGet(t, a, v, timed)
         \/ \E n \in Counts : FutexWake(t, a, n)
         \/ \E b \in Addrs, n \in Counts, m \in Counts :
              \/ FutexRequeue(t, a, n, b, m)
              \/ \E v \in Values : FutexCmpRequeueGet(t, a, n, b, m, v)
              \/ \E v \in Values, w \in Values : FutexWakeOpModify(t, a, n, b, m, v, w)
    \/ FutexBad(t)

Guest(t) ==
    \/ GuestResume(t)
    \/ \E a \in Addrs, v \in Values : GuestStore(t, a, v)
    \/ \E a \in Addrs : GuestMap(t, a)
    \/ \E u \in Tasks : GuestSignal(t, u)
    \/ GuestFork(t)

Exit(t) == (\E a \in Addrs : ExitClear(t, a)) \/ ExitGroup(t)

Next ==
    \/ \E t \in Tasks : Inside(t) \/ Locking(t) \/ FutexWaitDeadline(t)
                          \/ Call(t) \/ Guest(t) \/ Exit(t)
    \/ ChildrenExit

Spec == Init /\ [][Next]_vars

(***************************************************************************)
(* A host thread inside a call keeps running, so its steps are weakly fair. *)
(* The steps that take futex_lock are enabled and disabled as others take   *)
(* it, and a thread blocked in pthread_mutex_lock gets it eventually: strong *)
(* fairness.  A deadline that has passed stays passed, and is looked at on  *)
(* every turn of the loop: strong fairness.  What the guest does next is up *)
(* to the guest, except that a thread in an exiting group exits.            *)
(***************************************************************************)
Fairness ==
    \A t \in Tasks :
      /\ WF_vars(Inside(t))
      /\ SF_vars(Locking(t))
      /\ SF_vars(FutexWaitDeadline(t))
      /\ WF_vars(pc[t] = "endgroup" /\ ExitGroup(t))
      /\ WF_vars((groupExit \/ pc[t] = "dying") /\ \E a \in Addrs : ExitClear(t, a))

FairSpec == Spec /\ Fairness

-----------------------------------------------------------------------------
(***************************************************************************)
(* Properties                                                              *)
(***************************************************************************)

\* The type invariant.
TypeOK ==
    /\ word \in [Addrs -> Values \cup {Unmapped}]
    /\ refcount \in [Addrs -> Nat]
    /\ queue \in [Addrs -> Seq(Tasks)]
    /\ lock \in Tasks \cup {NoTask}
    /\ pc \in [Tasks -> PCs]
    /\ arg \in [Tasks -> Args]
    /\ futex \in [Tasks -> Addrs \cup {NoFutex}]
    /\ ret \in [Tasks -> Int]
    /\ pipe \in [Tasks -> Int]
    /\ stall \in [Tasks -> 0 .. StallMax]
    /\ pending \in [Tasks -> BOOLEAN]
    /\ groupExit \in BOOLEAN
    /\ children \in BOOLEAN

\* A struct futex is freed exactly when its last user lets go of it: the
\* refcount is the number of tasks that hold a pointer to it, through every
\* requeue, failed wait and thread exit.  A higher count leaks the struct, a
\* lower one frees it under a waiter.
RefcountExact ==
    \A a \in Addrs : refcount[a] = Cardinality({t \in Tasks : futex[t] = a})

\* What futex_wake_queue dereferences: every entry of a queue is the wait
\* struct of a task that is still inside futex_wait, is linked once only, and
\* whose wait.futex is the futex that queue belongs to.  An entry left behind
\* by a task that returned or exited would be a dangling stack pointer.
QueueConsistent ==
    \A a \in Addrs :
        /\ IsInjective(queue[a])
        /\ \A t \in Range(queue[a]) : pc[t] \in Waiting /\ futex[t] = a

\* assert(list_empty(&futex->queue)) in futex_put_unlocked: no waiter is on
\* the queue of a struct futex that is freed.
QueueEmptyWhenFree == \A a \in Addrs : refcount[a] = 0 => queue[a] = <<>>

\* A waiter in the poll loop has a byte in its pipe if and only if somebody
\* took it off its queue: no wake is lost between the two, no stale byte of an
\* earlier call ends a new wait, and a requeue is not taken for a wake.
WakeByteExact ==
    \A t \in Tasks : pc[t] \in InLoop =>
        pipe[t] = IF t \in Range(queue[futex[t]]) THEN 0 ELSE 1

\* The parts of the inductive invariant that are not properties of their own:
\* who holds futex_lock, who holds a reference, whose pipe exists.
LockExact == \A t \in Tasks : lock = t <=> pc[t] \in Holding

FutexHeld ==
    \A t \in Tasks :
        /\ futex[t] # NoFutex <=> pc[t] \in Holding \cup Waiting
        /\ pc[t] \in Holding => futex[t] = arg[t].addr

PipeOpen == \A t \in Tasks : pc[t] \in Waiting => pipe[t] >= 0

IInv ==
    /\ TypeOK
    /\ LockExact
    /\ FutexHeld
    /\ PipeOpen
    /\ QueueConsistent
    /\ RefcountExact
    /\ WakeByteExact

\* "We must hold mem->lock across mem_ptr+atomic op so the mapping can't
\* vanish" (the comment in futex_wake_op): a word is mapped whenever a task is
\* about to go through a host pointer to it.  futex_load and the periodic
\* check give the lock back before they dereference.
MappedWhenDereferenced ==
    \A t \in Tasks : pc[t] \in {"ptr", "reload", "cmp"} => word[arg[t].addr] # Unmapped

\* A waiter somebody has taken off its queue.
Dequeued(t) == pc[t] \in Waiting /\ t \notin Range(queue[futex[t]])

\* What a guest sees of the calls: the FUTEX_WAIT a thread is in, the address it
\* is blocked on, and the result it has not consumed yet.
WaitOf == [t \in Tasks |-> IF pc[t] \in {"ptr", "enq"} \cup Waiting
                            THEN <<arg[t].addr, arg[t].val>> ELSE <<>>]
BlockedOn == [t \in Tasks |->
    IF pc[t] = "enq" \/ (pc[t] \in Waiting /\ t \in Range(queue[futex[t]]))
    THEN futex[t] ELSE NoFutex]
ResultOf == [t \in Tasks |-> IF pc[t] = "done" THEN ret[t] ELSE 0]

\* What the contract needs besides IInv: with which errors futex_wait leaves its
\* loop, and that a call still has the count the guest gave it.
Promised ==
    \A t \in Tasks :
        /\ pc[t] = "leave" => ret[t] \in {0, EINTR, EFAULT, ETIMEDOUT}
        /\ pc[t] \in {"cmp", "wakeop"} => arg[t].wake \in Counts

\* The futex calls keep their contract: seen from the guest, comparing and
\* blocking is one atomic step, every wake counts exactly the blocked threads
\* it takes, and a thread is blocked from the moment its comparison succeeds,
\* though the word is read outside any lock the writer holds.
Contract ==
    INSTANCE FutexContract WITH
      call <- WaitOf, on <- BlockedOn, result <- ResultOf

ContractHolds == Contract!Spec

\* Every waiter that was woken, has a signal pending, waits with a timeout or
\* belongs to an exiting group gets out of futex_wait.
WaiterReleased ==
    \A t \in Tasks :
        (pc[t] \in Waiting /\ (Dequeued(t) \/ pending[t] \/ groupExit \/ arg[t].timed))
            ~> pc[t] \notin Waiting

\* A waiter whose word stays mapped and different from the expected value, or
\* stays unmapped, returns even if nobody ever wakes it: the periodic check.
ChangedWordNoticed ==
    \A t \in Tasks :
        /\ ~<>[](pc[t] \in Waiting /\ word[arg[t].addr] \notin {arg[t].val, Unmapped})
        /\ ~<>[](pc[t] \in Waiting /\ word[arg[t].addr] = Unmapped)

\* A process whose threads all wait for each other does not hang: with no live
\* child left, a thread stuck in an untimed wait next to another thread ends
\* the whole group.
StallBroken ==
    \A t \in Tasks :
        ~<>[](pc[t] \in Waiting /\ ~arg[t].timed /\ ~children /\ Cardinality(Live) > 1)
=============================================================================
