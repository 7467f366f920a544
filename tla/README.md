# A verification of the ShellBox kernel

ShellBox runs AArch64 Linux programs inside one host process. Guest code is
translated to host code (`asbestos/`, `emu/`), and a Linux kernel written in C
(`kernel/`, `fs/`, `util/`) answers the system calls. Each guest task is a host
pthread, so the kernel is an ordinary multi-threaded program: what is hard about
it is not a single call but what happens when several host threads are inside
it at once.

This directory holds TLA+ models of that kernel, the instances TLC checks, and
proofs that TLAPS checks. Every model is translated from the C code named in the
`map` of `PROJECT.json`.

Contents: [Inventory](#inventory), [Plan](#plan), [Models](#models),
[Runs](#runs), [Fairness](#fairness), [Proofs](#proofs),
[Where code and comments differ](#where-code-and-comments-differ),
[Not modelled](#not-modelled), [Running](#running).

## Inventory

### Components, their state and operations

| Component | Code | State | Operations |
|---|---|---|---|
| Futexes | `kernel/futex.c` | hash of `struct futex` (refcount, queue of `futex_wait`) under `futex_lock`; a pipe per task | wait, wake, requeue, cmp_requeue, wake_op; wake by thread exit |
| Interruptible waits | `util/sync.c`, used by eventfd, tty, file locks, `wait4`, sigsuspend | `waiting_cond`/`waiting_lock` of the task under `waiting_cond_lock`; the caller's lock and condition | `wait_for`, `notify`, delivery of a signal |
| Task lifecycle | `kernel/fork.c`, `exit.c`, `task.c` | task tree and pid table under `pids_lock`; thread group under its own lock; deferred frees; mm refcounts | clone, vfork, exec, exit, group exit with safety valve, wait, reap |
| Signals | `kernel/signal.c`, end of `handle_interrupt` in `calls.c` | per task: queue, pending, blocked, saved mask; shared: actions, under `sighand->lock`; `group->stopped` | kill family, sigaction, sigprocmask, sigsuspend, sigtimedwait, receive, sigreturn, stop and continue |
| System call dispatch | `kernel/calls.c` | restart information, `blocking` flag, `last_unblocked_ns` | dispatch, page faults, interrupts |
| Timers | `util/timer.c`, `kernel/time.c` | `struct timer` under its own lock, the host thread that serves it; pointers in a timerfd, a group's itimer, its POSIX timers | create, set, expire, read, delete, close, exit, fork |
| Groups, sessions, pids | `kernel/group.c`, `task.c` | pgid, sid, lists of each pid, controlling tty | setpgid, setsid, pid allocation, kill of a group |
| Descriptors | `fs/fd.c` | table, cloexec bits under its lock; refcount of a description; references held by a system call | open, close, dup, fork, exec |
| Poll | `fs/poll.c`, `kernel/poll.c`, `epoll.c`, `pidfd.c` | registrations, edge and oneshot state, notify pipe with a count of waiters | ctl, wait, wakeup, close |
| Record locks, inodes | `fs/lock.c`, `inode.c` | list of locks per inode; inode table | set, test, remove on close |
| Mounts, path walk | `fs/mount.c`, `path.c`, `generic.c` | list of mounts by descending length, refcounts | mount, umount, find |
| fakefs | `fs/fake.c`, `fake-db.c` | SQLite rows (path, inode, stat) beside host files | create, link, unlink, rename, rebuild |
| Terminals | `fs/tty.c`, `pty.c`, `tty-real.c` | line buffer, packet flags, session, foreground group | input, read, write, hang-up |
| Sockets | `fs/sock.c`, `sockrestart.c` | listening sockets to reopen, tasks in accept | punt, resume |
| Memory | `kernel/memory.c`, `mmap.c`, `emu/tlb.c` | page table with shared data, under a rwlock; TLB per thread | map, unmap, copy on write, fault |
| Translator | `asbestos/asbestos.c` | block hash, block caches of each thread, jumps between blocks, jetsam list; `P_CODE` on pages | translate, chain, invalidate, free |
| Exec, offload, ptrace, the rest | see `PROJECT.json` | | |

### How they interact

* A **blocking call** of any component ends in `wait_for` (a condition), in host
  `poll` on a pipe (futexes) or in the host's own multiplexer (poll, epoll).
  **Signals** must be able to end each of them: `deliver_signal_unlocked` sets
  the pending bit, sends SIGUSR1 to the host thread, and broadcasts whatever
  condition the target has registered.
* **Thread exit** writes the tid word and wakes a futex, releases the address
  space, hands over its children and perhaps sends SIGCHLD, which may be ignored
  and then reaps the task at once.
* **Group exit** sets `doing_group_exit`, which the dispatcher, the futex loop,
  the poll loop and the start of a new thread look at.
* The **dispatcher** calls `receive_signals` after every interrupt, and then
  holds the thread while its group is stopped.
* **exec, exit and fork** share, copy and release descriptor **tables**; a close
  removes the table's record locks and, with the last reference, cleans the
  description out of every **poll** set. The exit of a process wakes the pollers
  of its **pidfds** with `pids_lock` held.
* **Stores, remaps and forks** change page flags that the **translator** relies
  on: a store to a page with translated code must come through a TLB miss, which
  unmarks the page and invalidates its blocks.
* **Timers** call back from a host thread of their own, without a current task:
  they wake the readers and pollers of a timerfd, or send a signal. Exit frees the itimer of a
  group, fork copies its POSIX timers.

### What is hard, and what must hold

* *Two threads between two locks.* A guest word is read outside `futex_lock`;
  a signal is delivered with the sighand lock dropped in the middle; `do_exit`
  releases its resources before it takes `pids_lock`. Correct means: comparing
  and blocking look like one step, no sleeper misses its event or its signal,
  group, parent and refcounts agree at every moment.
* *Objects freed early or late.* Task structs live one `task_destroy` longer
  than their zombie; a thread is listed in its group before the clone that makes it can fail for the last time; descriptions live as long as slots, calls and hands hold
  them; translated blocks as long as some thread may be inside translated code.
* *Checks that stores can overtake.* A block is compiled from bytes that other
  threads change without a lock; it counts only if a later look shows that none
  did.
* *Edges.* An edge-triggered or one-shot registration remembers what it has
  reported; an event that comes while it is being reported is not the old one.
* *Everybody waits.* Safety valves end a process whose threads all wait; they
  must fire when nothing else can help.
* *Order.* Masks put aside by sigsuspend, handlers nested in handlers, instances
  of real-time signals: all taken once, in order, nothing lost.

The hazards, each at its line with the properties meant for it, are listed in
`PROJECT.json`. Most important first: lost wakeups, dangling task and group
pointers, refcounts, masks, masked edges, stale code, then the components still
to come.

## Plan

In this order, each with its instance, its properties and their proofs:

| | Module | Composes | Abstract specification | Worth proving |
|---|---|---|---|---|
| done | `Futex` | exit | `FutexContract` (refinement checked and proved) | types, refcounts, queues, wake bytes, the contract: proved |
| done | `CondWait` | signals | | types, no missed signal or event, lock discipline: proved |
| done | `Process` | | | types, `GroupSound`, `NoOrphan`, `MmRefsExact`, `NoDangling`: proved while the valve does not fire |
| done | `Signals` | | | types, `QueueHasBits`, `RealTimeKept`, `MaskKept`, `UnblockableInHandlerOnly`: proved |
| done | `FileLock` | | `FileLockContract`, a map from bytes to holders (refinement checked and proved) | types, the list stays grouped, disjoint and merged, it implements the map, writers exclude: proved |
| done | `Files` | fork, exec, exit, record locks | | types, `RefsExact`, `LookupAlive`, `CloexecOpen`, `LocksOwned`: proved, each for what no unlocked store has overtaken |
| done | `Poll` with pidfd | closing of descriptions, exit | | types, `PipeExact`, `EdgeKept`, `NoSleepThrough`, `VisitsExist`: proved |
| done | `CodeCache` | page flags, TLB, fork | | types, `NoFreedRun`, `ChainsLive`, `NoWritableOnCode`, `VerifiedWhole`: proved |
| done | `Timer` | exit, fork | | types, `NoUseAfterFree`, `NotEarly`: proved |
| 1 | `ProcGroup` with pid reuse | `Signals` | a group is a set of processes | lists agree with `pgid` and `sid` |
| 2 | `Memory`, its contents | `Process`, `CodeCache` | each address space a function from pages to contents | no write of one process shows in another |
| 3 | `FakeDb`, mounts, `Tty`, `SockRestart` | | crash-free database | rows and files agree after recovery |

There are twelve runs, and that is the budget: a module that comes in gets the
place of a run whose question another run answers as well.

Modules that have proofs use no `RECURSIVE` operator; what is recursive in the
code (the walk over a queue) is a function.

## Models

| Module | What it is |
|---|---|
| `Futex` | the futexes of one process, its thread exit, its safety valve |
| `FutexContract` | what the futex calls promise a guest |
| `CondWait` | `wait_for`, `notify` and delivery of a signal |
| `Process` | clone, vfork, exec, exit, group exit, wait, deferred frees |
| `Signals` | masks, queues, handlers, stops of one process |
| `Files` | descriptor tables, descriptions and their references, close-on-exec |
| `FileLock` | the list of record locks of one inode |
| `FileLockContract` | record locks as a map from bytes to holders |
| `Poll` | an epoll set with eventfds, pidfds and host descriptors |
| `CodeCache` | translated blocks, the jumps between them, page flags and TLBs |
| `Timer` | timers, the host threads that serve them, and the calls of a process and its child that use them |
| `FutexProofs`, `CondWaitProofs`, `ProcessProofs`, `SignalsProofs`, `FilesProofs`, `PollProofs`, `CodeCacheProofs`, `TimerProofs` | theorems about the modules they name; `FilesProofs` also about `FileLock`, whose `LockInit`, `LockNext`, `LockSpec` and so on have their prefix so that one module can extend both |
| `MC...` | the constants of the instances |

An operator named `...` + a deviation, with the comment *Mutant of*, is a
changed version of a definition: a plausible bug. Each property is broken by at
least one of them, which shows that it says something about the code.

### Futex

`Tasks` are the threads of one process, so the key of a `struct futex` is its
address. A struct futex exists while `refcount` is positive; `queue` is its list
of waiters; `futex[t]` is `wait.futex`, which a requeue changes under the
sleeper; `pipe[t]` is the number of bytes in `futex_pipe`. What happens under
`futex_lock` is a step, except that the loads of the guest word are steps of
their own with the lock held (`FutexWaitLoad`, `FutexCmpRequeue`), because guest
stores (`GuestStore`) respect no lock. The loop of `futex_wait` is split where
the code goes from one test to the next: `FutexWaitWoken`/`FutexWaitPoll` for
the host `poll`, `FutexWaitRecheck` and `FutexWaitReload` for the look at the
word each second, `SafetyValve` for a wait that has stalled. The exit of a
thread is two steps, the store of zero and the wake, as in `do_exit`.

Bounds: `StallMax` is the number of turns before the valve (1800 in the code, 1
in the instances: only the fact that the count is reached matters). `Counts` are
the numbers passed to wake and requeue.

`FutexContract` has no pipes, no locks and no queues: `Block` compares and
blocks in one step, `Wake` takes a set of blocked threads of exactly the size
it reports, a requeue moves threads. `Contract` in `Futex` is the mapping: a
thread is blocked from the moment its load saw the expected value with
`futex_lock` held, until a waker unlinks it; `WaitOf`, `BlockedOn` and `ResultOf`
are these views of a thread. This holds because a waker changes
the word *before* it takes `futex_lock`. For a word whose page is not mapped the contract
leaves both outcomes open, because what the stale host pointer yields is open.

### CondWait

A waiter goes through `check` (look at the event), `test` (look for a
signal), `register`, `enter`, `asleep`, `relock`, `unregister`, `verdict`, as
`wait_for` does. A sender queues (`Send`), then with the sighand lock dropped
broadcasts the registered condition (`Kick`), then finishes. `Kind` says which lock goes
with the condition: the waiter's own sighand lock (sigsuspend, pause,
sigtimedwait), `pids_lock` (`wait4`), or the lock of an object (eventfd, tty,
record locks). `HoldsPids` says which senders hold `pids_lock`: all but the
interval timer (`itimer_notify`).

### Process

A task is named by its pid, and a pid is used once; `Tasks` bounds how many there
are. A group is named by its leader. What happens under `pids_lock` is a step;
`do_exit` is two (`DoExit` gives up memory, files and sighand, `DoExitLocked` leaves
the group, hands over the children, becomes a zombie or is reaped at once, and
notifies the vfork parent), and `Cleanup` is what the host thread does afterwards.
sys_clone goes through `TaskCreate`, `CopyMm`, `CopyGroup` and `TaskStart`, because other
threads see the child in between: from `CopyGroup` on it is on the list of its group. It fails
before that (`CopyFails`) or after it (`UnlinkGroup`, `fail_unlink_group`), and then
destroys the child (`Unmake`). A sibling that exits between `CopyGroup` and
`UnlinkGroup` may choose the child as the new parent of its own children; these are kept in
`adrift`, since nobody takes them from there. `do_wait` looks (`Reap`, `NoChild`) or
sleeps (`WaitSleep`), and an exit wakes the sleepers of its parent's group (`Woken`);
`handed` holds the zombies that changed parents, of which no notify tells. The host halts (`Halt`)
when the last thread of init's group is pid 1; when it is another one, the code finds init itself
as the parent, and init becomes a zombie like any other leader.
`task_destroy` frees what the call before it destroyed (`Flush`), so
state goes `live`, `destroyed`, `freed`. An access to memory that may be gone is
recorded in `fault` and ends the host thread in the model; the properties then say that
certain faults do not occur. `Blocking` allows a thread to be stuck in a host
call that SIGUSR1 does not end, `ValveFires` allows the valve of
`do_exit_group` to fire, `Ignoring` is the set of tasks that may ignore SIGCHLD,
`Makers` that of tasks that clone.

### Signals

A process with its shared actions; each critical section of `sighand->lock` is a
step. `Send` queues; the clearing of a stop by SIGCONT and SIGKILL is a second
step (`Continue`), as it takes another lock. `Receive` is `receive_signals`:
`Start` is what the loop finds, `Walk` a function from the number of entries passed to what they
have left, with the mask copied before the first one. A frame
records the mask and the PC to return to; `resume` is `"read"` when the PC was
put back to the `svc` of a read for SA_RESTART. The histories `asked` (the mask
the guest believes it has), `owed` (instances of real-time signals accepted and not
taken) and `late` (a thread has received a stop after the sender of a SIGKILL lifted the last
one) serve the properties only. `Directed` says which signals are sent to which thread; in
**signals_live** both threads get stops and kills, as `tgkill` allows. `MaxSends` bounds the number of signals sent.
A thread that fails to write a frame calls `deliver_signal` with the sighand
lock held; the model then has it `stuck` for ever, together with
everybody who wants the lock, and the properties exempt the state.

### Files

A description is `born` once; `ref` is its refcount, and with 0 it is freed. A
table that was freed may be allocated again (`Tables` bounds how many exist at a
time). `slots`, `cloexec` and `size` are the table's arrays; `refs[t]` is
`syscall_refs`, which `f_get` fills and the return of the call gives back.
Calls under `table->lock` are steps (`Open`, `Close`, `Dup`, `Fork`, `Exec`).
dup3, F_DUPFD and F_SETFD work without it and are split; `grown` holds the arrays
`fdtable_resize` has filled and not yet published. They run on shared tables too, and other
threads come in between. Two histories say what that costs: `raced`, the
descriptions that an unlocked store wrote over or brought back, and `stray`, the slots whose
close-on-exec bit was set while they were closed. `MaxAccidents` bounds how many
of both there may be before nothing more happens. A record lock is reduced to its owner;
`late` keeps apart the locks that no close removes: those `fcntl_setlk` placed
through a description whose slots another thread had closed meanwhile, and those
of a descriptor that was stored over without a close.

### FileLock

Each call holds `inode->lock` throughout and is a step. `locks` is
`posix_locks` with its order: `Placed` is `file_lock_acquire`, whose `Walk` goes over the
run of the owner's locks (`Group`) with the cases of the code (swallow, merge, cut, split).
`answer` is what the call returned. `FileLockContract` knows neither list nor
ranges: each owner holds each byte for reading, for writing or not; `Set`, `Test` and
`Forget` name sets of bytes. The mapping reads the list as that function,
and the answer of F_GETLK (start and length) as a set of bytes.

### Poll

`reg` is the set: for each pair of a description and a number its mode, whether an
edge is `masked` (already reported, `triggered_types`) and whether a one-shot has `fired`. The mark
is looked at and cleared only while the mode is edge-triggered (`Hides`, `Unmasked`), and EPOLL_CTL_MOD
keeps it. A waiter goes
through `Wait` (count itself, perhaps make the pipe, scan), `asleep`,
`HostWake`, `Back` (scan again), or after a second `Slice`; after sixty idle
slices the `Valve` looks for a live child with `poll->lock` held. A wakeup is
`WakeStart` (take `fd->poll_lock`), `WakeOne` per registration, `WakeEnd`, as
the lock of the set is taken for each. `Ctl...` are the three operations of
epoll_ctl; closing and clean-up are steps of their own, as are the look-up and the listing of
a pidfd and the exit that walks the list. Host descriptors are known to the
host's multiplexer, whose edge is `hostEdge`; eventfds and pidfds write to the
pipe. `news` is a history: the latest event of a registration and whether the guest
has been told, `left` where it is not owed a wakeup, `hidden` where a change of
mode and back has put an old mark over it (`Hidden`).

### CodeCache

The threads share `asbestos` and `mem`. `st`, `addr`, `jump` describe the blocks
(`free`, `new`, `live`, `jetsam`), `cache` and `current` the caches of a thread
and whether they are of the latest `invalidate_gen`; `code`, `cow` and
`writable` are the page flags and the TLB entries. `seen` and `steady` stand for
comparisons of `mmu->changes` with a value remembered. Compilation is the
protocol of `asbestos_compile_block`: mark the first page, bump the counter,
read, mark the last page if it is another, bump, verify, insert. A store is a TLB hit
(one step), or a miss, clear or copy, stamp, and a landing. Leaving
translated code releases `jetsam_lock`; the clean-up needs it for writing.
`torn` is what a store has done to the bytes a block was made from.

### Timer

`tm` holds the timers, each with the fields of `struct timer` and the slot it
was made for. A slot is where a pointer to one is kept: a timerfd, the itimer of
a group, an entry of its POSIX timers; `ptr` is that pointer. `home` and `maker`
stand for the callback and its data, `base` and `shots` for the latest
`timer_set` and the callbacks since. Each piece of memory is used once, so a
pointer to a freed timer is recognised.

`wpc` is where the host thread of a timer is: at the top of its loop (`look`,
`Look`), between giving back the lock and sleeping (`doze`), in `nanosleep`
(`sleep`), in the callback (`call`, and for a timerfd `wakeup`, after
`fd->lock`). `timer_set` and `timer_free` are critical sections of
`timer->lock` and are steps; the signal they send (`Interrupt`) moves a thread
that sleeps, and is lost on one that dozes. A callback keeps `timer->lock` while
it waits for another lock.

The calls are two steps wherever they wait for `timer->lock` with another lock held:
`SetBegin`, `DeleteBegin` take the lock of the slot, `SetEnd`, `DeleteEnd` are
`timer_set` and `timer_free`; `ExitBegin` and `ForkBegin` take `pids_lock`.
`timer_settime` does not look whether the slot has a timer: `SetBegin` goes on without one,
and the program then ends with the host's SIGSEGV (`Ended`). A timerfd is in a poll set:
`PollBegin` takes `poll->lock` (`Poll`), `PollEnd` is `timerfd_poll` under `fd->lock`, and `PollWakeup`
waits for `poll->lock` with `timer->lock` held. `holder` says who has a lock between steps. Threads can wait for each other for ever,
and `Stuck` is the set of those that do. The clock is `now`, up to `Horizon`;
a negative member of `Values` stands for an absolute deadline that has passed.

## Runs

States are distinct states found by TLC.

| Run | States | Properties |
|---|---|---|
| futex_queue | 667 558 | `RefcountExact`, `QueueConsistent`, `WakeByteExact`, refinement `ContractHolds` |
| futex_live | 53 252 | `WaiterReleased`, `ChangedWordNoticed`, `StallBroken` |
| condwait | 84 373 | `NoMissedSignal`, `NoMissedEvent`, `SignalInterrupts` |
| process_tree | 992 851 | `GroupSound`, `NoOrphan`, `MmRefsExact`, `NoDangling`, `NoSleepBesideZombie` |
| process_live | 49 503 | `GroupExitEnds` |
| signals_safe | 1 721 180 | `TypeOK`, `QueueHasBits`, `RealTimeKept`, `MaskKept`, `UnblockableInHandlerOnly` |
| signals_live | 47 245 | `KillEnds`, `SignalTaken` |
| files_safe | 1 609 488 | `RefsExact`, `LocksOwned`, `CloexecOpen` |
| filelock_map | 9 937 | `ListSound`, refinement `ContractHolds` |
| poll_wake | 1 188 229 | `PipeExact`, `EdgeKept`, `NoSleepThrough`, `VisitsExist` |
| codecache | 2 469 522 | `NoFreedRun`, `ChainsLive`, `NoWritableOnCode`, `VerifiedWhole` |
| timer | 198 366 | `NoUseAfterFree`, `NotEarly`, `ArmedFires`, `FreedInTheEnd` |

### Futexes

* **futex_queue**: two waiters, a third thread that compare-requeues and does
  wake_op, two addresses, two values. The two addresses allow a requeue onto
  another and onto the same address, and the wake of two words in one call; three
  threads are the smallest number with two waiters on a queue whose order
  matters. The two waiters are interchangeable, so symmetry over them is sound for
  these safety properties; the contract's formula is symmetric in them too.
* **futex_live**: a thread that waits or exits and one that also wakes,
  requeues, stores, unmaps, is signalled, forks, exits the group.

### Waits

* **condwait**: sigsuspend beside a timed read with two senders, one of them
  without `pids_lock`. The read is timed because an untimed wait on an object's lock can sleep
  through its signal (see below), and then nothing else ends it; the liveness
  property is about sigsuspend, which is untimed.

### Tasks

* **process_tree**: four task structs that fork, vfork, exec, make threads, fail half-way through
  a clone, and wait, without stuck calls and without the valve. Four is the
  first number at which a child's parent can be a non-leader thread whose group
  outlives it while a grandchild exits; at which a sibling thread can reap the child that another
  one sleeps for; and at which an exiting thread can hand its child to one that is only half made.
  `NoSleepBesideZombie` is here and not among the liveness
  properties: what a lost notify would leave is a sleeper beside a zombie, and the recheck of every
  second, which would hide that, is not yet due in such a state. Only a zombie that was handed over waits for that recheck.
* **process_live**: three task structs, stuck calls, the valve, failing clones, and an init that
  may ignore SIGCHLD, so that a child is reaped by its own exit. Three are a thread that exits the
  group, one that is stuck in it and one that joins meanwhile.

### Signals

* **signals_safe**: one thread, all calls, two handlers (one with
  a full `sa_mask` and SA_RESTART, for either signal, and one with SA_NODEFER and
  SA_RESETHAND, for the real-time one), three signals sent. Three are enough for two instances of a real-time signal and a
  standard one between them, and for a handler inside a handler inside a call.
* **signals_live**: two threads; SIGSTOP and SIGKILL to either, SIGCONT to the
  leader and a real-time signal to the other. Two threads are enough for a stop that one receives
  after the SIGKILL to the other has lifted the last one.

### Descriptors and record locks

* **files_safe**: two tasks, two tables (shared or copied), two descriptions of
  one inode, two slots. With two slots dup3 can meet a free and an occupied
  target, F_DUPFD a full table, and a table of size one has to grow; with two
  tables the locks of one owner must survive the close by the other. A behaviour ends with its first
  accident (`MaxAccidents` is 1), since a table whose slots two threads have written at once has lost what the
  counts speak of; the theorems hold for any number.
* **filelock_map**: three owners and three bytes, with requests that name a
  length, run to the end, or have a negative length. Three owners are the
  smallest number for which the locks of one can stand between others'; three
  bytes the smallest number that a lock can be split in.

### Poll

* **poll_wake**: two threads, an eventfd, a pidfd and a host descriptor that is
  registered under two numbers, at most two registrations at a time; the eventfd and the
  first host registration are edge-triggered or one-shot, the second is one-shot, the pidfd
  edge-triggered; one event per wait and one byte in the pipe. Batch and pipe have the
  size at which each is full at once.

### Translator

* **codecache**: two threads, two pages, a block within the second page and one
  that reaches from the first into it, each of which jumps to the other. Two
  blocks and two threads are the smallest numbers for a jump to what the other
  thread invalidates. Both blocks and both threads are interchangeable.

### Timers

* **timer**: two threads of a process that may fork, one timer that is used as a timerfd, as the
  itimer or as a POSIX timer (which fork copies), one host thread to serve it,
  relative, zero and past times, one-shot and periodic, three instants, one poll set that every timerfd is in. Two threads are needed
  for a call that waits for the lock its callback waits for, for a delete or a close against a
  set, and for the thread that set the itimer to leave first. One timer is enough
  for every step of its own life, and a second one shares with it only the locks of its owner; with
  more of both there are the proofs.

Deadlock checking is off where the guest may simply have nothing more to do
(all threads gone, every permitted signal sent, every task struct used, no memory
for another block or timer, the clock at its horizon); `CondWait` and `FileLock` have no such state and are checked for deadlock.

## Fairness

Host threads are scheduled by the host kernel, and a host mutex is obtained
in the end by a thread that waits for it: steps inside a call are weakly fair,
steps that wait for a lock held by others are strongly fair. Timeouts expire.
Nothing obliges the guest to make a call, to store a word, to send a
signal, or a stuck host call to return, except that

* in `Futex` a thread of an exiting group exits (the dispatcher looks at
  `doing_group_exit` after each interrupt);
* in `Process` the safety valve of `do_exit_group` fires in the end, because it counts time;
* in `Timer` time passes, up to the horizon, and a call that holds a lock goes on;
* in `Signals` a thread leaves the translated code again and again, because of
  the timer interrupt.

The deadline of a futex wait is strongly fair: once passed it stays passed, and each turn
of the loop looks at it.

## Proofs

`FutexProofs` proves for every finite set of tasks, every set of addresses,
values and counts, that `IInv` (in `Futex`) is invariant, and from it
`TypeOK`, `RefcountExact`, `QueueConsistent`, `WakeByteExact` and
`QueueEmptyWhenFree`. `IInv` adds to the properties who holds `futex_lock` and
in which control states (`LockExact`), who holds a reference (`FutexHeld`) and
whose pipe exists (`PipeOpen`). It is needed because
`RefcountExact` by itself does not survive a put: the code decrements the count
of `wait.futex`, and that this is the futex the task counts for follows from
`FutexHeld`; and `WakeByteExact` does not survive a wake unless every entry
of a queue is a task inside the loop on *that* futex with an open pipe.
The core is `WakeAndRequeueKeeps`: what a call takes off the front of a
queue, what it moves to another one and what stays make up the
queue it found, each waiter once (lemmas `WakeSplits`, `ConcatJoins`,
`TransferEffect`), and the counts move with the waiters (`HoldersMove`).

The refinement (`ContractKept`) is proved from `IInv` and `Promised`, which says with which
results `futex_wait` leaves its loop. Each step of `Futex` changes the views of one thread or, in a wake, of
those it takes off the queues (`OnlyActs`, `BlockedStays`), and is one step of the contract or
none: the call begins when it stores its arguments; the load is `Block` or `Refuse`;
linking the waiter, which the contract does not see, shows nowhere because the thread already counted as blocked;
a turn of the loop is none; leaving it is `Finish`, or nothing yet when the
result is still to be fetched. For wakes the number reported must be the size of the set
that stops being blocked: `WakeRequeueStep`, `WakeTwoStep` and `WakeOnExitStep` count it from
`QueueConsistent` (each waiter stands once, in one queue), and `FreeLinking` says that no other thread is
between its comparison and its queue while a waker has `futex_lock`, without which
a requeue would leave that thread behind.

`CondWaitProofs` proves for any number of waiters and senders `LockHeld`,
`NoMissedSignal` and `NoMissedEvent`. The inductive invariant (`IInv` in `CondWait`) adds that a
registered condition belongs to a thread inside the wait (`Registered`), what locks
a sender holds (`SenderBusy`), that no signal is pending in a synchronised
wait between its look and its sleep (`Quiet`), and that no event is ready there
(`Unready`). `Quiet` is the heart: it holds for sigsuspend because the sender
needs the sighand lock the waiter keeps, and for `wait4` because the sender
keeps `pids_lock`; for an object's lock it is false.

`PollProofs` proves for a finite set of threads, any descriptions, registrations, modes and sizes of
batch and pipe, with the valve armed or not, all that **poll_wake** checks. `IInv` (in `Poll`) adds who holds
which lock where (`LockOwners`), that a member a call works on still exists (`CallHasMember`, `MakerAlone`,
`MembersKnown`), and `Owed`. `VisitsExist` holds because only the holder of `fd->poll_lock`
frees registrations of that description, and so a walk, which gives `poll->lock` back at every turn, meets none that
is gone. Neither `EdgeKept` nor `NoSleepThrough` survives a step alone: when one of
several sleepers drains the pipe, that nobody sleeps through the event depends on that sleeper's
scan, hence on the mark `masked` hiding nothing, hence on the wakeup that clears it not having passed
the registration yet. `Owed` says for each event posted and not told who will tell the guest: the host,
the wakeup on its way, or, if the mark hides nothing, the thread the pipe has
stirred. `CtlMod` is the one step that can put an old mark over a new event; it calls that
event `hidden`, which `Owed` and the two theorems leave out and nothing else. `PipeExact` is a count of those inside `poll_wait` (`InsideCount`, `PipeLeft`).

`CodeCacheProofs` proves for any number of threads, pages, addresses and blocks
what the run checks. `NoWritableOnCode` needs only the memory's half (`Guarded`):
a writable entry for a marked page exists only before the bump, and a thread whose view
is `steady` cannot hold one. `VerifiedWhole` adds `Made`, which relates a block under
construction to the pages its thread has marked, and `TornSeen`: a torn block's thread is no longer
steady. `Safe` is about freed blocks: a block in reach of a thread inside
translated code is live or jetsam, the jumps out of live blocks lead to live ones, and those out of
jetsam to live ones or jetsam; jetsam is freed only when no thread is inside.

`SignalsProofs` proves for any threads, signals, masks, actions and number of signals sent, what
**signals_safe** checks; queues and handlers nest to any depth. `IInv` (in `Signals`) adds to the
properties where the mask the guest believes in is at each place of a thread (`MaskHistory`:
in force, put aside by the call, or in the frames), without which `MaskKept` does not survive
rt_sigreturn, and that without a frame neither the mask nor the one put aside has
SIGKILL or SIGSTOP (`NoFrameNoBlock`), without which the latter does not survive receive_signals. The step that takes work is
`Receive`, a loop over a queue of any length. That `Walk` exists and goes from entry to entry is proved
(`WalkExists`, `WalkSteps`), by induction over a set of positions (`CountUp`, which needs only that sets
of naturals have a least member). `Turn` says what one entry does, and four lemmas carry an
invariant of the loop to its end: instances owed are those kept and those still ahead
(`WalkOwed`); what is kept came off the queue, each standard signal once
(`WalkKeepsPart`); a loop that was not cut short by a death or a full stack keeps only what the mask
skips, and clears the bits of nothing it keeps (`WalkKeepsSkipped`); mask and frames stay
what the guest believes (`WalkMask`). `QueueHasBits` holds although clearing the bit of a real-time
signal ignores further instances, because the same walk takes them all: the copy of the mask is not
widened by the handlers on the way. That is also why `HandlerMasked` (below) fails.

`ProcessProofs` proves for every finite set of tasks what **process_tree** checks, under the
assumption `ValveFires = FALSE` that the theorems state: with the valve the
properties do not hold (`UnlinkedOnce`, `ParentThere` below). `NoSleepBesideZombie` is only
model-checked. The inductive invariant has
two layers. `Sound` needs no counting: a member of a group is alive and has not
begun to exit (`Members`), a host thread on its way is a member (`Actors`),
group struct, leader and zombie go together (`Leaders`), a task in the making
belongs to one caller of sys_clone and is on exactly the list that caller's place says (`Newborn`, `Unborn`),
who is neither leader nor member is being made (`Strays`), init's struct is there for ever (`InitThere`).
`NoOrphan` does not survive an exit without them: the new parent that
`reparent_children` takes is found through the group's list. That list may lead to a child that
is half made and will be destroyed, and then the code does lose the children: `NoOrphan` exempts
them (`adrift`) and speaks of all others, and `NoDangling` has the faults of following their
parent, and of asking for an init that is a zombie, under names of their own. Nothing is assumed about which
thread of init leaves last. `Counted` rests on `Sound`: whoever holds
a reference is a member that has not begun to release (`Holders`), and an
address space in use was made for a task that uses it or none any more
(`Owned`), without which exec could set the count of a space in use to one. A clone that fails gives back
the one reference it took, from whichever place it fails.

`FilesProofs` proves for finite sets of tasks and tables, any descriptions, inodes and limit, what
**files_safe** checks, and `LookupAlive`, which that run need not check because it follows
from `RefsExact`; nothing is assumed about who shares a table with whom. dup3, F_DUPFD and F_SETFD run on a shared
table without its lock, and leave its slots, its size and its bits in any state; so no invariant can
say that what such a call looked at still holds. `TablesSound` says what holds all the
same: nothing is open beyond the size of a table or in one without users (`Within`), which is why fork
may fill a table it finds unused; a copy in `grown` fits the size it will be published with, and
a call works on a description that was created (`Tidy`). The store past the end of a table another thread
made shorter is where `Within` needs the case in `Put`. `RefsExact` is then a count: each step moves
a description between the slots, the calls and the hands, and the lemmas
`CloseCount`, `PutCount`, `InstallEffect` and `TakenCounts` say by how much. An unlocked store adds
to `raced` exactly the descriptions it takes from a slot, puts into one or drops past the end without
moving a reference (`PutEffect`, `PublishEffect`), and for every other one the count stays exact
(`PlacingCounts`, `PublishCounts`), however many stores went before. `LocksOwned` needs that
a close takes the locks of exactly the files whose descriptors it closes (`CloseLocks`), `CloexecOpen` that a
bit on a free slot was set there, or copied with the table (`stray`).

The second half of `FilesProofs` proves for any owners, any requests and any end of the file what **filelock_map** checks:
`ListSound`, and that each call is a step of `FileLockContract`, with which no byte written by one owner is held
by another (`WritersExclude`). `ListSound` with proper ranges and types is inductive (`LockIInv` in `FileLock`); the
work is in `file_lock_acquire`. The walk keeps `Fine`: what it has kept are parts of locks it passed, apart from
each other and from the request as it has grown (`KeptApart`); the request has grown only by the owner's bytes
of its own type (`GrownByOwn`); and no byte passed is lost (`NoneLost`). A lock still ahead is apart from all
that was kept, because it was apart from what that was cut from (`KeptAhead`). From `Fine`
at the end of the run come the order (`PlacedGrouped`), the disjointness (`PlacedApart`) and the change
in what owners hold: the request's bytes of its owner and no others (`PlacedHas`). A byte is then in
one lock of an owner at most (`HeldIs`), so the map is well defined, and a lock conflicts with
a request exactly when the map blocks it (`BlockedIs`).

`TimerProofs` proves for any threads, timers, host threads and times, that `IInv` (in `Timer`)
is invariant. `NoUseAfterFree` rests on three facts that hold together only: a timer
marked `running` has one thread, and a thread serves a live timer so marked
(`Serving`), so that `timer_free` can tell by the mark whom to leave the timer to; a slot
of a group that lives leads to a live timer made for it that nobody gave up, and an armed timerfd
has its description (`Pointing`), so that two calls of `timer_free` never meet on one timer unless fork
copied it; a call in progress holds the lock of its slot, or
has the description for itself (`InCalls`), so that the slot is not cleared behind it. The slot may have been
empty from the start: `InCalls` allows that for `timer_settime` only, and `NoUseAfterFree` says of a call that it
uses no timer that was *freed* (that it has one at all is `SetHasTimer`, below). `NotEarly` needs where
the deadline is between callbacks (`Counting`): at `base` plus one interval per callback.
The steps of the record fields are in the `...Effect` lemmas; `OneTimer` and
`PointingKept` carry everything about other timers.

Assumptions are those on the constants: finitely many tasks (`Futex`, `Process`, `Files` and `Poll`) and tables, `Unmapped` not a
value, `NoTask` not a task, locks named apart, `None` and `Nobody` not
among what they stand beside, `NoMask` not a mask, two different groups in `Timer`, requests that start between 0 and `MaxOff` in `FileLock`. Nothing else is assumed.

Proved and not in a run, because a run with the other properties shows it too:
the type invariants of `Files`, `FileLock`, `Process`, `Futex`, `CondWait`, `Poll`, `CodeCache` and `Timer`, `LockHeld`, and
`QueueEmptyWhenFree` (the assertion in `futex_put_unlocked`).

Loops over sequences (the walk over the record locks, over the queue of signals) are recursive functions;
that such a function exists and goes from turn to turn is a lemma (`LoopRuns`, `WalkSteps`), and what it computes is
proved turn by turn with a first-order form of induction over positions (`CountUp`, from well-foundedness of `<`).

Only model-checked: liveness, `NoSleepBesideZombie`, and of `Process` everything with the valve.

## Where code and comments differ

The modules state what the code does not keep. No run lists these; put one in a
configuration of the same module to see its trace:

* `Files!AlwaysAlive` (`fs/fd.c:341`): dup3, F_DUPFD and F_SETFD use the descriptor
  table without its lock; a close by another thread between the copying and the
  publication of a grown array leaves a slot that leads to a freed description, which
  the comment at `f_get` (`fs/fd.c:210`) excludes.
* `Files!NoStrayBit` (`fs/fd.c:341`): a close-on-exec bit set on a slot another thread has just closed stays, and
  dup3, which clears none, gives it to the descriptor it puts there.
* `CondWait!NeverMissed` (`util/sync.c:42`): a signal that comes between the
  look for one and the sleep is slept through where the condition goes with an
  object's lock; the comments in `sync.c` and `signal.c` claim otherwise.
* `Process!VforkChildThere` (`kernel/fork.c:274`): the parent uses the vfork child's
  struct, which may have been freed; the comment saves only the pid.
* `Signals!HandlerMasked` (`kernel/signal.c:586`): a second instance of a real-time
  signal starts the handler inside itself, although the comment at line 504 says
  that the signal is masked.
* `Signals!KillBeatsStop` (`kernel/signal.c:135`): a SIGSTOP sent to one thread and a SIGKILL sent to another are
  received in the wrong order. The stop is then set after the SIGKILL has lifted it, and the thread that should take the
  SIGKILL sleeps without looking at its signals until another SIGCONT or SIGKILL comes.
* `Futex!MappedWhenDereferenced`: the word is loaded after `mem->lock` was given
  back (`futex.c:109`, `futex.c:239`), although `futex.c:449` asks for it.
* `Process!OwnTaskThere`: `task_run_tlb_cleanup` reads the task struct of a
  thread whose zombie may have been reaped and freed (`task.c:175`).
* `Process!ParentThere` (`kernel/fork.c:159`): a clone that fails after its thread was listed
  (`fork.c:196`) destroys a task that `find_new_parent` (`exit.c:47`) may have chosen; the children it
  was given follow a freed parent when they exit, "known to be alive" in the comment there (`exit.c:235`).
* `Process!InitDeathHalts` (`kernel/exit.c:173`): when the last thread of init's group is not pid 1, its parent is
  looked up as `pid_get_task(1)`, which is the leader itself, and `halt_system` is not called. The orphans that come later
  get no parent at all, as `pid_get_task` finds no zombie (`exit.c:51`; the fault `noinit` in the model).
* `Process!UnlinkedOnce`, `Process!ParentThere`, `Process!MemoryReclaimed`: a
  thread the valve has given up on, and which then moves, unlinks itself twice
  (`exit.c:26`); its children find a parent without a group (`exit.c:235`); its
  address space is not freed (`exit.c:76`). These need `ValveFires = TRUE`.
* `Process!SigchldAgrees`: SIGCHLD carries the status of the thread that left
  last, `wait4` that of the leader (`exit.c:244`, `exit.c:607`).
* `Poll!NoEventHidden` (`fs/poll.c:239`): EPOLL_CTL_MOD keeps the mark of a reported edge, and while the mode is not
  edge-triggered neither a wakeup (`poll.c:337`) nor the host's report (`poll.c:606`) clears it; back in edge-triggered mode
  it hides an event that came in between, although `fs/poll.h:53` says that the bits are cleared by `poll_wakeup`.
* `Poll!NoLockCycle`: a poller in its valve holds `poll->lock` and wants
  `pids_lock` (`fs/poll.c:551`), an exiting process the other way round;
  `kernel/pidfd.c:84` says that order does not exist.
* `Timer!NoLockCycle`: `timerfd_callback` takes `fd->lock` with `timer->lock` held
  (`kernel/time.c:483`), `timerfd_settime` the other way round; its `poll_wakeup` takes `poll->lock` with `timer->lock`
  held (`time.c:487`), `poll_wait` takes `fd->lock` with `poll->lock` held (`fs/poll.c:415`), and with `timerfd_settime` that
  is a cycle of three; a POSIX timer's callback (`timer->lock`,
  then `pids_lock`, `time.c:318`), `timer_settime` (the group's lock, then `timer->lock`,
  `time.c:399`) and fork (`pids_lock`, then the group's lock, `fork.c:144`) do so in three; a
  `timer_create` for an unknown thread returns with `pids_lock` held (`time.c:354`).
* `Timer!SetHasTimer` (`kernel/time.c:399`): `timer_settime` on an id that has no timer, or none any more, goes on
  with NULL, where `timer_gettime` (`time.c:423`) looks.
* `Timer!ItimerTaskThere`: the itimer keeps the task of the thread that made it, which may leave before its group (`time.c:111`).
* `Timer!PosixGroupThere`: nobody frees the POSIX timers of a process that exits; they
  call back with a group that was freed (`time.c:309`).
* `Timer!CopiesNothing`: fork copies the group struct with its POSIX timers (`fork.c:53`), and parent and
  child may each delete them.

Read off the code while modelling; the model has the behaviour, or the note
says why it has not:

* Translator. A store that translated its address before the page was marked
  lands during the compilation unseen (`torn` is then `late`), although
  `asbestos.c:534` rules it out. A block that has been verified but not
  inserted is missed by the unlocked look at an empty page list
  (`asbestos.c:402`), contrary to `memory.c:837`. The chaining in `control.S:31` does not compare
  `mem_changes` as the comment in `entry.S` says. A block that jumps to itself
  keeps its jump when it is invalidated (harmless: nobody enters it).
  Compilation takes `mem->lock` for writing under `asbestos->lock`, others the other way round.
* Poll. Between edge-triggered modes EPOLL_CTL_MOD keeps the mark as well: an event posted while a one-shot was disarmed
  is not reported when it is armed again (`fs/poll.c:239`). A process
  that exits between the look-up of its pid and the listing of the pidfd never makes it
  readable (`pidfd.c:48`). `poll_cleanup_fd` puts the registration on the set's free list after
  it has given back the set's lock (`fs/poll.c:277`), which `poll_add_fd` needs for the same list. Adding a member that is ready does not wake a
  sleeper; it finds out after its slice of a second.
* Files. `close_range` with a last of 2^31 or more closes nothing.
  F_DUPFD_CLOEXEC sets the bit even when the installation failed. F_SETLKW never
  waits: `fd.c:451` compares the command with that of the other width.
* Record locks. A lock set by a call that overlaps a close stays until its table closes another
  descriptor of the file. The end of a range may overflow. Removal by owner
  notifies nobody (`lock.c:245`).
* Waits. A deadline whose nanoseconds add up to exactly a second is not normalised (`sync.c:70`).
* Timers. A SIGEV_SIGNAL timer keeps 0 for the thread it notifies (`time.c:382`), looks that up as a pid
  and sends nothing, although the comment at line 337 expects a signal. `timer_settime` accepts the number
  `TIMERS_MAX` (`time.c:396`). The first `timer_set` reports an
  uninitialised end and interval (`timer.c:65`). An absolute deadline equal to the present
  disarms. The signal of `timer_set` is lost between `unlock` and `nanosleep` (`timer.c:39`), so that an
  earlier deadline is met late: the model has the delay, and shows that it is only a delay.
* Threads share the alternate stack through sighand (`signal.c:487`).

Modelled as the code has it, and worth knowing when reading the properties: a
handler's `sa_mask` may block SIGKILL and SIGSTOP (`signal.c:508`);
sigtimedwait is not ended by the blocked signal it waits for, restarts its
timeout at each wakeup, and leaves the pending bit of what it took
(`signal.c:935`); SIGCONT does not discard a queued SIGSTOP; `wait4` for any
child looks at the children of the calling thread only (`exit.c:734`).

## Not modelled

* Futexes: failing `malloc`, process-shared keys, robust lists (the pointer is
  stored and never used), the debug dumps.
* Waits: the numeric deadline, the writer-priority lock, LOCK_DEBUG.
* Tasks: stops and continues seen by `wait4`, ptrace, WNOWAIT, process groups,
  rusage, failing host threads, WNOHANG, pid reuse.
* Signals: ptrace stops, the alternate stack, siginfo, groups as targets,
  `try_self_signal`, the recovery code for JavaScript engines' traps, the
  SIGCHLD of a stop.
* Files: status flags and the other fcntl commands, failing allocations,
  growth beyond one step, `O_PATH`. Of the calls that overtake each other on a shared table: memory of a freed
  description that is used again, two threads that free the same old arrays in `fdtable_resize`, what a store past the end
  of a shrunk table writes over, the bit F_DUPFD_CLOEXEC sets at a negative number after it failed (see above); the scan of F_DUPFD is one step.
* FileLock: the sleep of F_SETLKW (never entered, see above), flock, the inode table.
* Poll: poll(2) and select(2) with their private sets, `poll_destroy`, failing
  allocations, the handing of a freed member to a late wakeup.
* CodeCache: the limits of sixteen and eight attempts (a thread tries again for ever), collisions in the
  hash of pages, writes by the kernel through host pointers, unmapped pages, blocks
  with more than one patchable jump, resizing, crash recovery. Steps merged: the clearing of a mark
  and its bump, the check of a miss and its lock, the filling of the TLB, the
  cache maintenance instruction, the clean-up.
* Timer: clocks and their conversion, sleeps, `timer_gettime`'s unlocked reads, the count of expirations
  beyond zero or not, overruns, a timerfd inherited by a child, the wait of `timerfd_read`
  (`CondWait`), what becomes of the signals (`Signals`), a failing `pthread_create`; timer ids beyond the table
  (`timer_settime` accepts one, `timer_delete` any), poll sets other than the one that has every timerfd.
* All other components: see the plan, and the notes in `PROJECT.json`. The bulk of
  the repository's lines is the generator of the translator, one case for
  each instruction, without a protocol; the prebuilt output of the offload tests;
  and vendored code. None of it has behaviour that a state machine would add to.

## Running

    tlc -workers 2 -config FutexQueue.cfg MCFutex
    tlapm FutexProofs.tla

Each run finishes within three minutes on two cores, each proof within six. Obligations: `FilesProofs`
4532, `FutexProofs` 2982, `ProcessProofs` 2488, `TimerProofs` 2262, `PollProofs` 2234,
`SignalsProofs` 1561, `CodeCacheProofs` 727, `CondWaitProofs` 258.
