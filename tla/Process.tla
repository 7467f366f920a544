------------------------------ MODULE Process ------------------------------
(***************************************************************************)
(* Tasks, thread groups, and the end of both: clone and vfork (fork.c),    *)
(* do_exit and do_exit_group with its safety valve, do_wait (exit.c), and  *)
(* the life of a task struct (task.c).                                     *)
(*                                                                         *)
(* A thread group is named by its leader, an address space by the task it  *)
(* was made for.  A task is named by its pid, and a pid is used once:      *)
(* Tasks bounds the number of clones.  pids_lock makes an action of each   *)
(* of its critical sections; what the code does between two of them is an  *)
(* action of its own.                                                      *)
(*                                                                         *)
(* Where the host thread of a task is:                                     *)
(*   guest      in guest code or a syscall that a signal interrupts        *)
(*   stuck      in a host syscall that nothing interrupts                  *)
(*   create     in sys_clone, after task_create_                           *)
(*   copied     in copy_task, the child has memory and no group            *)
(*   start      in copy_task, the child is on the list of its group        *)
(*   unmade     in sys_clone, about to destroy a child it could not make   *)
(*   vfork      in sys_clone, until the child lets go of the memory        *)
(*   wait       in do_wait, about to look                                  *)
(*   asleep     in do_wait, in wait_for(child_exit)                        *)
(*   groupwait  in do_exit_group, polling for the other threads to go      *)
(*   doexit     about to enter do_exit                                     *)
(*   release    in do_exit, resources given up, pids_lock not yet taken    *)
(*   cleanup    past do_exit, about to run task_run_tlb_cleanup            *)
(*   over       gone                                                       *)
(* Not modelled here: stops, ptrace and process groups.                    *)
(***************************************************************************)
EXTENDS Naturals, FiniteSets

CONSTANTS
    Tasks,      \* the tasks there may ever be, by pid
    InitTask,   \* pid 1
    Codes,      \* exit statuses
    Kinds,      \* which clones the guest makes: "thread", "fork", "vfork"
    Makers,     \* the tasks that may clone
    Ignoring,   \* the tasks that may ignore SIGCHLD
    Blocking,   \* host syscalls may get stuck
    ValveFires, \* do_exit_group may lose patience
    NoTask      \* NULL

ASSUME TasksAssumption == Tasks \subseteq Nat /\ IsFiniteSet(Tasks)
ASSUME InitAssumption == InitTask \in Tasks /\ NoTask \notin Tasks
ASSUME CodesAssumption == Codes # {}
ASSUME KindsAssumption == Kinds \subseteq {"thread", "fork", "vfork"}
ASSUME FlagsAssumption == {Makers, Ignoring} \subseteq SUBSET Tasks /\ {Blocking, ValveFires} \subseteq BOOLEAN

VARIABLES
    state,      \* the task struct: free, new, live, destroyed (zeroed), freed
    pc,
    child,      \* the task sys_clone is making, or do_wait was asked for
    parent,
    group,      \* the group of a task, by leader
    exiting,
    zombie,
    code,       \* exit_code, and the status on its way there
    groupMem,   \* the group struct: none, live, freed
    threads,    \* group->threads
    doing,      \* doing_group_exit
    groupCode,  \* group_exit_code
    ignores,    \* the process ignores SIGCHLD
    mm,         \* the address space a task holds a reference to
    mmRefs,     \* mm->refcount
    deferred,   \* mm_release_deferred
    vfork,      \* task->vfork: the task whose vfork_info it points to
    vforkDone,  \* vfork_info.done
    sigchld,    \* the status in the SIGCHLD about a group
    adrift,     \* the tasks whose parent is a clone that failed
    handed,     \* the zombies that got another parent since their end
    fault,      \* accesses to freed memory and other undefined behaviour so far
    halted      \* halt_system has run

taskVars == <<parent, group, exiting, zombie, code>>
groupVars == <<groupMem, threads, doing, groupCode, ignores, sigchld>>
memVars == <<mm, mmRefs, deferred>>
vforkVars == <<vfork, vforkDone>>
vars == <<state, pc, child, taskVars, groupVars, memVars, vforkVars, adrift, handed, fault, halted>>

Init ==
    /\ state = [t \in Tasks |-> IF t = InitTask THEN "live" ELSE "free"]
    /\ pc = [t \in Tasks |-> IF t = InitTask THEN "guest" ELSE "none"]
    /\ child = [t \in Tasks |-> NoTask]
    /\ parent = [t \in Tasks |-> NoTask]
    /\ group = [t \in Tasks |-> IF t = InitTask THEN t ELSE NoTask]
    /\ exiting = [t \in Tasks |-> FALSE]
    /\ zombie = [t \in Tasks |-> FALSE]
    /\ code \in [Tasks -> Codes] /\ \A t, u \in Tasks : code[t] = code[u]
    /\ groupMem = [t \in Tasks |-> IF t = InitTask THEN "live" ELSE "none"]
    /\ threads = [t \in Tasks |-> IF t = InitTask THEN {t} ELSE {}]
    /\ doing = [t \in Tasks |-> FALSE]
    /\ groupCode = code
    /\ ignores = [t \in Tasks |-> FALSE]
    /\ mm = [t \in Tasks |-> IF t = InitTask THEN t ELSE NoTask]
    /\ mmRefs = [t \in Tasks |-> IF t = InitTask THEN 1 ELSE 0]
    /\ deferred = [t \in Tasks |-> FALSE]
    /\ vfork = [t \in Tasks |-> NoTask]
    /\ vforkDone = [t \in Tasks |-> FALSE]
    /\ sigchld = [t \in Tasks |-> NoTask]
    /\ adrift = {}
    /\ handed = {}
    /\ fault = {}
    /\ halted = FALSE

-----------------------------------------------------------------------------

Goto(t, l) == pc' = [pc EXCEPT ![t] = l]
Exists(t) == state[t] \in {"new", "live"}
Children(t) == {c \in Tasks : Exists(c) /\ parent[c] = t}
IsLeader(t) == group[t] = t

\* May t make a request?  A thread the safety valve gave up on makes none: it
\* was poked, and its next dispatch sees the group exit.
Runs(t) == pc[t] = "guest" /\ ~exiting[t] /\ group[t] # NoTask
GroupLive(g) == groupMem[g] = "live"

\* Undefined behaviour: record it, and follow this host thread no further.
Fault(t, what) ==
    /\ fault' = fault \cup {what}
    /\ Goto(t, "over")
    /\ UNCHANGED <<state, child, taskVars, groupVars, memVars, vforkVars, adrift, handed, halted>>

\* Is the parent of t freed?  A task's own list_remove writes to its parent.
Dangles(t) == parent[t] # NoTask /\ state[parent[t]] = "freed"

\* mm_release of t's own reference.
ReleaseMm(t) ==
    /\ mm' = [mm EXCEPT ![t] = NoTask]
    /\ mmRefs' = IF mm[t] = NoTask THEN mmRefs ELSE [mmRefs EXCEPT ![mm[t]] = @ - 1]
    /\ deferred' = [deferred EXCEPT ![t] = FALSE]

\* task_destroy: the struct is zeroed now, and freed by the next task_destroy.
Flush(st, t) ==
    [u \in Tasks |-> IF u = t THEN "destroyed"
                     ELSE IF st[u] = "destroyed" THEN "freed" ELSE st[u]]

\* memset(task, 0, ...): whatever the task still pointed to is forgotten.
Zero(f, D, zero) == [t \in Tasks |-> IF t \in D THEN zero ELSE f[t]]

-----------------------------------------------------------------------------
(***************************************************************************)
(* sys_clone                                                               *)
(***************************************************************************)

\* task_create_: the next pid, and a struct that is a copy of the parent's.
TaskCreate(t, c) ==
    /\ Runs(t) /\ t \in Makers
    /\ state[c] = "free" /\ \A d \in Tasks : state[d] = "free" => c <= d
    /\ state' = [state EXCEPT ![c] = "new"]
    /\ parent' = [parent EXCEPT ![c] = t]
    /\ group' = [group EXCEPT ![c] = group[t]]
    /\ child' = [child EXCEPT ![t] = c]
    /\ Goto(t, "create")
    /\ UNCHANGED <<exiting, zombie, code, groupVars, memVars, vforkVars, adrift, handed, fault, halted>>

\* Mutant of Retain: CLONE_VM does not retain.
RetainNot(c, m, kind) ==
    /\ mm' = [mm EXCEPT ![c] = m]
    /\ mmRefs' = [mmRefs EXCEPT ![c] = IF kind = "fork" THEN 1 ELSE @]

\* One more reference to m, for c.
Retain(c, m, kind) ==
    /\ mm' = [mm EXCEPT ![c] = m]
    /\ mmRefs' = [mmRefs EXCEPT ![m] = @ + 1]

\* copy_task, the memory: mm_retain with CLONE_VM, mm_copy without.  (The
\* pointer to vfork_info, set once copy_task is done, is set here: nobody reads
\* it before the child runs.)
CopyMm(t, kind) ==
    /\ pc[t] = "create"
    /\ IF group[t] = NoTask THEN Fault(t, "task")
       ELSE /\ Retain(child[t], IF kind = "fork" THEN child[t] ELSE mm[t], kind)
            /\ vfork' = [vfork EXCEPT ![child[t]] = IF kind = "vfork" THEN t ELSE NoTask]
            /\ vforkDone' = [vforkDone EXCEPT ![t] = FALSE]
            /\ Goto(t, "copied")
            /\ UNCHANGED <<state, child, taskVars, groupVars, deferred, adrift, handed, fault, halted>>

\* copy_task, under pids_lock: from here on the child is a thread of its group
\* for everybody who walks the list.  What shares the memory and is not a
\* vfork's child is a thread.
CopyGroup(t) ==
    LET c == child[t]
        g == IF mm[c] = c \/ vfork[c] = t THEN c ELSE group[c]
    IN /\ pc[t] = "copied"
       /\ IF ~GroupLive(group[c]) THEN Fault(t, "group")
          ELSE /\ state' = [state EXCEPT ![c] = "live"]
               /\ group' = [group EXCEPT ![c] = g]
               /\ groupMem' = [groupMem EXCEPT ![g] = "live"]
               /\ threads' = [threads EXCEPT ![g] = @ \cup {c}]
               /\ ignores' = [ignores EXCEPT ![g] = ignores[group[c]]]
               /\ Goto(t, "start")
               /\ UNCHANGED <<child, parent, exiting, zombie, code, doing, groupCode,
                              sigchld, memVars, vforkVars, adrift, handed, fault, halted>>

\* Memory, descriptors, or the fs and sighand structs cannot be copied: the
\* child has no group yet.
CopyFails(t) ==
    /\ pc[t] \in {"create", "copied"}
    /\ ReleaseMm(child[t])
    /\ vfork' = [vfork EXCEPT ![child[t]] = NoTask]
    /\ Goto(t, "unmade")
    /\ UNCHANGED <<state, child, taskVars, groupVars, vforkDone, adrift, handed, fault, halted>>

\* fail_unlink_group: the address for the new tid is bad.  The child leaves the
\* list, and a group made for it is freed.  A thread that exited meanwhile may
\* have handed its children over to it: nobody takes them from there.
UnlinkGroup(t) ==
    LET c == child[t]
        g == group[c]
    IN /\ pc[t] = "start"
       /\ IF group[t] = NoTask \/ ~GroupLive(group[t]) \/ ~GroupLive(g) THEN Fault(t, "group")
          ELSE IF c \notin threads[g] THEN Fault(t, "unlink")
          ELSE /\ threads' = [threads EXCEPT ![g] = @ \ {c}]
               /\ groupMem' = IF g = c THEN [groupMem EXCEPT ![c] = "freed"] ELSE groupMem
               /\ group' = [group EXCEPT ![c] = group[t]]
               /\ ReleaseMm(c)
               /\ vfork' = [vfork EXCEPT ![c] = NoTask]
               /\ adrift' = adrift \cup Children(c)
               /\ Goto(t, "unmade")
               /\ UNCHANGED <<state, child, parent, exiting, zombie, code, doing, groupCode,
                              ignores, sigchld, vforkDone, handed, fault, halted>>

\* sys_clone destroys what it could not make.
Unmake(t) ==
    LET c == child[t]
    IN /\ pc[t] = "unmade"
       /\ IF Dangles(c) THEN Fault(t, "parent")
          ELSE /\ state' = Flush(state, c)
               /\ parent' = Zero(parent, {c}, NoTask)
               /\ group' = Zero(group, {c}, NoTask)
               /\ exiting' = Zero(exiting, {c}, FALSE)
               /\ child' = [child EXCEPT ![t] = NoTask]
               /\ Goto(t, "guest")
               /\ UNCHANGED <<zombie, code, groupVars, memVars, vforkVars, adrift, handed, fault, halted>>

\* Mutant of FirstLoop: a thread runs before it looks at its group.
FirstLoopBlind(c) == "guest"

\* task_run_current looks at the group before it enters guest code: a thread
\* that joins a group after the SIGKILLs were sent leaves again.
FirstLoop(c) == IF doing[group[c]] THEN "doexit" ELSE "guest"

\* task_start; vfork then waits.
TaskStart(t) ==
    LET c == child[t]
    IN /\ pc[t] = "start"
       /\ pc' = [pc EXCEPT ![c] = FirstLoop(c), ![t] = IF vfork[c] = t THEN "vfork" ELSE "guest"]
       /\ code' = [code EXCEPT ![c] = groupCode[group[c]]]
       /\ child' = IF vfork[c] = t THEN child ELSE [child EXCEPT ![t] = NoTask]
       /\ UNCHANGED <<state, parent, group, exiting, zombie, groupVars, memVars, vforkVars,
                      adrift, handed, fault, halted>>

\* The child has exec'd or exited; its general_lock is taken to clear its vfork.
VforkReturn(t) ==
    /\ pc[t] = "vfork" /\ vforkDone[t]
    /\ IF state[child[t]] = "freed" THEN Fault(t, "vfork")
       ELSE /\ vfork' = [vfork EXCEPT ![child[t]] = NoTask]
            /\ vforkDone' = [vforkDone EXCEPT ![t] = FALSE]
            /\ child' = [child EXCEPT ![t] = NoTask]
            /\ Goto(t, "guest")
            /\ UNCHANGED <<state, taskVars, groupVars, memVars, adrift, handed, fault, halted>>

VforkNotify(t) ==
    vforkDone' = IF vfork[t] = NoTask THEN vforkDone
                 ELSE [vforkDone EXCEPT ![vfork[t]] = TRUE]

\* execve of a task that has the memory of its vfork parent: an address space
\* of its own, and the parent goes on.
Exec(t) ==
    /\ Runs(t) /\ mm[t] \notin {t, NoTask} /\ IsLeader(t)
    /\ mm' = [mm EXCEPT ![t] = t]
    /\ mmRefs' = [mmRefs EXCEPT ![mm[t]] = @ - 1, ![t] = 1]
    /\ VforkNotify(t)
    /\ UNCHANGED <<state, pc, child, taskVars, groupVars, deferred, vfork, adrift, handed, fault, halted>>

\* signal(SIGCHLD, SIG_IGN).
Ignore(t) ==
    /\ t \in Ignoring /\ Runs(t)
    /\ ignores' = [ignores EXCEPT ![group[t]] = TRUE]
    /\ UNCHANGED <<state, pc, child, taskVars, groupMem, threads, doing, groupCode,
                   sigchld, memVars, vforkVars, adrift, handed, fault, halted>>

-----------------------------------------------------------------------------
(***************************************************************************)
(* do_exit                                                                 *)
(***************************************************************************)

\* sys_exit.
SysExit(t, x) ==
    /\ Runs(t)
    /\ code' = [code EXCEPT ![t] = x]
    /\ Goto(t, "doexit")
    /\ UNCHANGED <<state, child, parent, group, exiting, zombie, groupVars, memVars,
                   vforkVars, adrift, handed, fault, halted>>

\* The first half of do_exit, without a lock.  A thread that the safety valve
\* has given up on leaves at once, with current NULL for the cleanup handler.
DoExit(t) ==
    /\ pc[t] = "doexit"
    /\ IF exiting[t]
       THEN Goto(t, "over") /\ UNCHANGED memVars
       ELSE Goto(t, "release") /\ ReleaseMm(t)
    /\ UNCHANGED <<state, child, taskVars, groupVars, vforkVars, adrift, handed, fault, halted>>

\* pid_get_task(1): a zombie is not found.
Init1 == IF zombie[InitTask] THEN NoTask ELSE InitTask

\* Mutant of NewParents: any thread of the group, on its way out or not.
NewParentsAny(t) == IF threads[group[t]] # {} THEN threads[group[t]] ELSE {Init1}

\* find_new_parent.
NewParents(t) ==
    LET live == {u \in threads[group[t]] : u # t /\ ~exiting[u]}
    IN IF live # {} THEN live ELSE {Init1}

\* Mutant of Reparent: nobody takes the children over.
ReparentNobody(t, p) == parent

Reparent(t, p) == [c \in Tasks |-> IF c \in Children(t) THEN p ELSE parent[c]]

\* leader->parent.  That of init is looked up by pid: when the last thread of
\* init's group is not pid 1, it is init itself.
Parent(g) == IF g = InitTask THEN InitTask ELSE parent[g]

\* Is the child of u released when it dies, without a wait?
AutoReap(u) == ~exiting[u] /\ ignores[group[u]]

\* Mutant of Gone: every task destroys itself, leaders too.
GoneSelf(t, auto) == {t}

\* The task structs do_exit destroys: that of a thread, and that of the leader
\* if nobody will wait for it.
Gone(t, auto) == (IF auto THEN {group[t]} ELSE {}) \cup (IF IsLeader(t) THEN {} ELSE {t})

\* Mutant of Woken: only the parent is woken, not its group.
WokenParent(u, up) == pc[u] = "asleep" /\ u = up

\* notify(&parent->group->child_exit).
Woken(u, up) == pc[u] = "asleep" /\ group[u] = group[up]

\* The second half of do_exit, under pids_lock, with p the new parent of t's
\* children.  The last thread makes its leader a zombie and tells the leader's
\* parent, or releases the process when that parent ignores SIGCHLD.
ExitLocked(t, p) ==
    LET g == group[t]
        last == threads[g] = {t}
        up == IF g = InitTask THEN InitTask ELSE Reparent(t, p)[g]
        auto == last /\ AutoReap(up)
        gone == Gone(t, auto)
        st1 == IF g \in gone THEN Flush(state, g) ELSE state
        heirs == IF last /\ g = InitTask THEN [Reparent(t, p) EXCEPT ![g] = up]
                 ELSE Reparent(t, p)
    IN /\ parent' = Zero(heirs, gone, NoTask)
       /\ threads' = [threads EXCEPT ![g] = @ \ {t}]
       /\ exiting' = Zero([exiting EXCEPT ![t] = TRUE], gone, FALSE)
       /\ zombie' = Zero([zombie EXCEPT ![g] = last], gone, FALSE)
       /\ sigchld' = IF last THEN [sigchld EXCEPT ![g] = code[t]] ELSE sigchld
       /\ VforkNotify(t)
       /\ vfork' = Zero(vfork, gone, NoTask)
       /\ state' = IF t \in gone \ {g} THEN Flush(st1, t) ELSE st1
       /\ group' = Zero(group, gone, NoTask)
       /\ groupMem' = IF auto THEN [groupMem EXCEPT ![g] = "freed"] ELSE groupMem
       /\ mm' = Zero(mm, gone, NoTask)
       /\ deferred' = Zero(deferred, gone, FALSE)
       /\ pc' = [u \in Tasks |->
                   IF u = t THEN IF t \in gone THEN "over" ELSE "cleanup"
                   ELSE IF last /\ Woken(u, up) THEN "wait" ELSE pc[u]]
       /\ handed' = (handed \cup {c \in Children(t) : zombie[c]}) \ gone
       /\ UNCHANGED <<child, code, doing, groupCode, ignores, mmRefs, adrift, fault, halted>>

\* The last thread of init is pid 1, which has no parent.
InitEnds(t) == t = InitTask /\ threads[InitTask] = {t}

\* halt_system takes the host process, and every host thread with it, down.
Halt(t) ==
    /\ pc[t] = "release" /\ InitEnds(t)
    /\ halted' = TRUE
    /\ pc' = [u \in Tasks |-> "over"]
    /\ UNCHANGED <<state, child, taskVars, groupVars, memVars, vforkVars, adrift, handed, fault>>

\* What do_exit follows without a look at whether it is still there: the group,
\* its link on group->threads, init for the orphans, parent->group, and, when
\* the task is destroyed, the list of its parent's children.
LockedFault(t) ==
    LET g == group[t]
        lost(u) == IF u \in adrift THEN "adrift" ELSE "parent"
    IN IF g = NoTask \/ ~GroupLive(g) THEN "group"
       ELSE IF NoTask \in NewParents(t) /\ Children(t) # {} THEN "noinit"
       ELSE IF t \notin threads[g] THEN "unlink"
       ELSE IF threads[g] = {t} /\ (group[Parent(g)] = NoTask \/ ~GroupLive(group[Parent(g)]))
       THEN lost(g)
       ELSE IF g # t /\ Dangles(t) THEN lost(t) ELSE "none"

DoExitLocked(t) ==
    /\ pc[t] = "release" /\ ~InitEnds(t)
    /\ IF LockedFault(t) # "none" THEN Fault(t, LockedFault(t))
       ELSE \E p \in NewParents(t) : ExitLocked(t, p)

\* task_run_tlb_cleanup, run by pthread_exit after pids_lock was given back.
Cleanup(t) ==
    /\ pc[t] = "cleanup"
    /\ IF state[t] = "freed" THEN Fault(t, "task")
       ELSE /\ Goto(t, "over")
            /\ IF deferred[t] THEN ReleaseMm(t) ELSE UNCHANGED memVars
            /\ UNCHANGED <<state, child, taskVars, groupVars, vforkVars, adrift, handed, fault, halted>>

-----------------------------------------------------------------------------
(***************************************************************************)
(* do_exit_group                                                           *)
(***************************************************************************)

\* The first caller sets the status for all and waits for the other threads;
\* a later one goes on to do_exit with that status.
DoExitGroup(t, x) ==
    LET g == group[t]
        first == ~doing[g]
    IN /\ Runs(t)
       /\ doing' = [doing EXCEPT ![g] = TRUE]
       /\ groupCode' = IF first THEN [groupCode EXCEPT ![g] = x] ELSE groupCode
       /\ code' = [code EXCEPT ![t] = IF first THEN x ELSE groupCode[g]]
       /\ Goto(t, IF first /\ threads[g] # {t} THEN "groupwait" ELSE "doexit")
       /\ UNCHANGED <<state, child, parent, group, exiting, zombie, groupMem, threads,
                      ignores, sigchld, memVars, vforkVars, adrift, handed, fault, halted>>

\* Every other thread has left the list.
GroupWaitDone(t) ==
    /\ pc[t] = "groupwait" /\ threads[group[t]] \subseteq {t}
    /\ Goto(t, "doexit")
    /\ UNCHANGED <<state, child, taskVars, groupVars, memVars, vforkVars, adrift, handed, fault, halted>>

\* The threads that are still there after the time allowed are marked, taken
\* off the list, and left to release their memory themselves.
SafetyValve(t) ==
    /\ ValveFires /\ pc[t] = "groupwait" /\ ~(threads[group[t]] \subseteq {t})
    /\ LET stuck == {u \in threads[group[t]] : u # t /\ ~exiting[u]}
       IN /\ exiting' = [u \in Tasks |-> exiting[u] \/ u \in stuck]
          /\ deferred' = [u \in Tasks |-> deferred[u] \/ u \in stuck]
          /\ threads' = [threads EXCEPT ![group[t]] = @ \ stuck]
    /\ Goto(t, "doexit")
    /\ UNCHANGED <<state, child, parent, group, zombie, code, groupMem, doing, groupCode,
                   ignores, sigchld, mm, mmRefs, vforkVars, adrift, handed, fault, halted>>

\* A thread notices that its group exits: SIGKILL ends its syscall or its guest
\* code.  On the way out of a syscall a thread that was given up on goes no
\* further.
Killed(t) ==
    /\ pc[t] \in {"guest", "wait", "asleep"} /\ group[t] # NoTask
    /\ doing[group[t]]
    /\ IF pc[t] = "guest" /\ ~GroupLive(group[t]) THEN Fault(t, "group")
       ELSE /\ code' = [code EXCEPT ![t] = groupCode[group[t]]]
            /\ Goto(t, IF pc[t] # "guest" /\ exiting[t] THEN "cleanup" ELSE "doexit")
            /\ child' = [child EXCEPT ![t] = NoTask]
            /\ UNCHANGED <<state, parent, group, exiting, zombie, groupVars, memVars,
                           vforkVars, adrift, handed, fault, halted>>

\* The task struct was destroyed under a thread that had been given up on.
Abandoned(t) ==
    /\ pc[t] \in {"guest", "wait", "asleep"} /\ group[t] = NoTask
    /\ IF state[t] = "freed" THEN Fault(t, "task")
       ELSE /\ Goto(t, "cleanup")
            /\ UNCHANGED <<state, child, taskVars, groupVars, memVars, vforkVars, adrift, handed, fault, halted>>

\* A host syscall that cannot be interrupted.
Block(t) ==
    /\ Blocking /\ Runs(t)
    /\ Goto(t, "stuck")
    /\ UNCHANGED <<state, child, taskVars, groupVars, memVars, vforkVars, adrift, handed, fault, halted>>

\* It returns after all, to the checks at the end of handle_interrupt.
Unblock(t) ==
    /\ pc[t] = "stuck"
    /\ IF state[t] = "freed" THEN Fault(t, "task")
       ELSE /\ Goto(t, IF exiting[t] \/ group[t] = NoTask THEN "cleanup"
                       ELSE IF doing[group[t]] THEN "doexit" ELSE "guest")
            /\ code' = IF exiting[t] \/ group[t] = NoTask \/ ~doing[group[t]] THEN code
                       ELSE [code EXCEPT ![t] = groupCode[group[t]]]
            /\ UNCHANGED <<state, child, parent, group, exiting, zombie, groupVars, memVars,
                           vforkVars, adrift, handed, fault, halted>>

-----------------------------------------------------------------------------
(***************************************************************************)
(* do_wait                                                                 *)
(***************************************************************************)

\* wait for any child, or (P_PID) for c.  A look that finds nobody to wait for
\* is ECHILD at once.
WaitFor(t, c) ==
    /\ Runs(t)
    /\ IF c = NoTask THEN \E u \in Children(t) : IsLeader(u)
       ELSE Exists(c) /\ parent[c] # NoTask /\ (Dangles(c) \/ group[parent[c]] = group[t])
    /\ child' = [child EXCEPT ![t] = c]
    /\ Goto(t, "wait")
    /\ UNCHANGED <<state, taskVars, groupVars, memVars, vforkVars, adrift, handed, fault, halted>>

\* May the child c of the group of t be waited for by t?  With P_ALL the loop
\* over the threads of the group looks at the children of t every time.
Waitable(t, c) ==
    \/ child[t] = NoTask /\ c \in Children(t) /\ IsLeader(c)
    \/ /\ child[t] # NoTask /\ Exists(child[t]) /\ parent[child[t]] # NoTask
       /\ ~Dangles(child[t])
       /\ group[parent[child[t]]] = group[t]
       /\ c = group[child[t]]

\* The end of reap_if_zombie: the group and the task are destroyed.
Reaped(t, c) ==
    /\ groupMem' = [groupMem EXCEPT ![c] = "freed"]
    /\ state' = Flush(state, c)
    /\ parent' = Zero(parent, {c}, NoTask)
    /\ group' = Zero(group, {c}, NoTask)
    /\ exiting' = Zero(exiting, {c}, FALSE)
    /\ zombie' = Zero(zombie, {c}, FALSE)
    /\ mm' = Zero(mm, {c}, NoTask)
    /\ deferred' = Zero(deferred, {c}, FALSE)
    /\ vfork' = Zero(vfork, {c}, NoTask)
    /\ child' = [child EXCEPT ![t] = NoTask]
    /\ handed' = handed \ {c}
    /\ Goto(t, "guest")
    /\ UNCHANGED <<code, threads, doing, groupCode, ignores, sigchld, mmRefs, vforkDone,
                   adrift, fault, halted>>

\* reap_if_zombie.
Reap(t, c) ==
    /\ pc[t] = "wait" /\ Waitable(t, c) /\ zombie[c]
    /\ Reaped(t, c)

\* ECHILD.
NoChild(t) ==
    /\ pc[t] = "wait" /\ ~\E c \in Tasks : Waitable(t, c)
    /\ IF child[t] # NoTask /\ Exists(child[t]) /\ Dangles(child[t])
       THEN Fault(t, IF child[t] \in adrift THEN "adrift" ELSE "parent")
       ELSE /\ child' = [child EXCEPT ![t] = NoTask]
            /\ Goto(t, "guest")
            /\ UNCHANGED <<state, taskVars, groupVars, memVars, vforkVars, adrift, handed, fault, halted>>

NoZombie(t) == \A c \in Tasks : Waitable(t, c) => ~zombie[c]

\* The look and the sleep are one under pids_lock.
WaitSleep(t) ==
    /\ pc[t] = "wait" /\ NoZombie(t) /\ \E c \in Tasks : Waitable(t, c)
    /\ Goto(t, "asleep")
    /\ UNCHANGED <<state, child, taskVars, groupVars, memVars, vforkVars, adrift, handed, fault, halted>>

\* The second is over: look again.
WaitTimeout(t) ==
    /\ pc[t] = "asleep"
    /\ Goto(t, "wait")
    /\ UNCHANGED <<state, child, taskVars, groupVars, memVars, vforkVars, adrift, handed, fault, halted>>

\* EINTR, after one more look.
WaitInterrupted(t) ==
    /\ pc[t] = "asleep" /\ NoZombie(t)
    /\ child' = [child EXCEPT ![t] = NoTask]
    /\ Goto(t, "guest")
    /\ UNCHANGED <<state, taskVars, groupVars, memVars, vforkVars, adrift, handed, fault, halted>>

-----------------------------------------------------------------------------

\* Steps that a host thread takes by itself.
Step(t) ==
    \/ (\E k \in Kinds : CopyMm(t, k)) \/ CopyGroup(t) \/ Unmake(t)
    \/ TaskStart(t) \/ VforkReturn(t)
    \/ DoExit(t) \/ DoExitLocked(t) \/ Halt(t) \/ Cleanup(t)
    \/ GroupWaitDone(t) \/ SafetyValve(t) \/ Killed(t) \/ Abandoned(t)
    \/ NoChild(t) \/ WaitSleep(t) \/ WaitTimeout(t) \/ (\E c \in Tasks : Reap(t, c))

\* What the guest asks for.
Guest(t) ==
    \/ (\E c \in Tasks : TaskCreate(t, c)) \/ CopyFails(t) \/ UnlinkGroup(t)
    \/ Exec(t) \/ Ignore(t)
    \/ (\E x \in Codes : SysExit(t, x) \/ DoExitGroup(t, x))
    \/ (\E c \in Tasks \cup {NoTask} : WaitFor(t, c)) \/ WaitInterrupted(t)
    \/ Block(t) \/ Unblock(t)

Next == \E t \in Tasks : Step(t) \/ Guest(t)

Spec == Init /\ [][Next]_vars

(***************************************************************************)
(* Host threads run, and one that is blocked on pids_lock gets it: the     *)
(* steps of a thread are weakly fair.  do_wait looks again once a second.  *)
(* The valve's patience ends.  Nothing makes a guest exit, and nothing     *)
(* makes a stuck syscall return.                                           *)
(***************************************************************************)
Fairness == \A t \in Tasks : WF_vars(Step(t))

FairSpec == Spec /\ Fairness

-----------------------------------------------------------------------------
(***************************************************************************)
(* Properties                                                              *)
(***************************************************************************)

TypeOK ==
    /\ state \in [Tasks -> {"free", "new", "live", "destroyed", "freed"}]
    /\ pc \in [Tasks -> {"none", "guest", "stuck", "create", "copied", "start", "unmade",
                         "vfork", "wait", "asleep", "groupwait", "doexit", "release", "cleanup", "over"}]
    /\ child \in [Tasks -> Tasks \cup {NoTask}]
    /\ parent \in [Tasks -> Tasks \cup {NoTask}]
    /\ group \in [Tasks -> Tasks \cup {NoTask}]
    /\ exiting \in [Tasks -> BOOLEAN]
    /\ zombie \in [Tasks -> BOOLEAN]
    /\ code \in [Tasks -> Codes]
    /\ groupMem \in [Tasks -> {"none", "live", "freed"}]
    /\ threads \in [Tasks -> SUBSET Tasks]
    /\ doing \in [Tasks -> BOOLEAN]
    /\ groupCode \in [Tasks -> Codes]
    /\ ignores \in [Tasks -> BOOLEAN]
    /\ mm \in [Tasks -> Tasks \cup {NoTask}]
    /\ mmRefs \in [Tasks -> Nat]
    /\ deferred \in [Tasks -> BOOLEAN]
    /\ vfork \in [Tasks -> Tasks \cup {NoTask}]
    /\ vforkDone \in [Tasks -> BOOLEAN]
    /\ sigchld \in [Tasks -> Codes \cup {NoTask}]
    /\ {adrift, handed} \subseteq SUBSET Tasks
    /\ fault \subseteq {"task", "group", "parent", "unlink", "vfork", "adrift", "noinit"}
    /\ halted \in BOOLEAN

\* The group struct lives exactly as long as its leader's task: while it has
\* threads, and then until the zombie is reaped, by whichever of wait, another
\* thread's wait or an ignored SIGCHLD comes.
GroupSound ==
    \A g \in Tasks :
        /\ \A t \in threads[g] : state[t] = "live" /\ group[t] = g
        /\ GroupLive(g) <=> (state[g] = "live" /\ group[g] = g)
        /\ GroupLive(g) => (zombie[g] <=> threads[g] = {})

\* Every task but init has a parent that has not finished do_exit, or else init,
\* dead or alive; only a child that was handed over to a clone that failed has
\* none.
NoOrphan ==
    \A t \in Tasks \ ({InitTask} \cup adrift) :
        Exists(t) => \/ parent[t] = InitTask
                     \/ \E g \in Tasks : GroupLive(g) /\ parent[t] \in threads[g]

\* mm->refcount counts the tasks that will still release the address space.
MmRefsExact ==
    \A m \in Tasks : mmRefs[m] = Cardinality({t \in Tasks : mm[t] = m})

\* do_exit, do_wait and a clone that fails never touch a group that was freed, a
\* link that was removed, or a parent that is gone: except the parent of a task
\* adrift ("adrift") and, for orphans, an init that is a zombie ("noinit").
NoDangling == fault \cap {"group", "unlink", "parent"} = {}

\* Nobody leaves the list of threads twice, although the valve takes a thread
\* off it that may be in the middle of do_exit.
UnlinkedOnce == "unlink" \notin fault

\* "while the parent is known to be alive" (exit.c): whoever dies last in its
\* group finds the group of its parent.
ParentThere == fault \cap {"parent", "adrift"} = {}

\* "init died, so the guest is over" (exit.c), whichever of its threads is last.
InitDeathHalts == zombie[InitTask] => halted

\* "saves the pid" (fork.c): sys_clone does not touch a child that may be gone.
VforkChildThere == "vfork" \notin fault

\* "gives leaked/exiting pthreads time to finish accessing `current`" (task.c).
OwnTaskThere == "task" \notin fault

\* "the whole guest address space [is reclaimed] once the host pthread finally
\* terminates" (exit.c).
MemoryReclaimed ==
    ~halted => \A m \in Tasks :
        mmRefs[m] > 0 => \E t \in Tasks : mm[t] = m /\ pc[t] # "over"

\* The SIGCHLD and the wait status "are the same question asked from different
\* sides" (exit.c).
SigchldAgrees ==
    \A g \in Tasks :
        zombie[g] => sigchld[g] = (IF doing[g] THEN groupCode[g] ELSE code[g])

\* A group exit ends, however many threads are stuck, and a thread that joins
\* the group in the middle of it does not survive.
GroupExitEnds ==
    \A g \in Tasks : doing[g] ~> (threads[g] = {} \/ halted \/ fault # {})

\* A child that dies wakes whoever waits for it, in its parent's group: nobody
\* sleeps in do_wait beside a zombie that it would reap, except one that was
\* handed over as a zombie, which no notify announces and the recheck once a
\* second finds.
NoSleepBesideZombie ==
    \A t, c \in Tasks :
        (pc[t] = "asleep" /\ Waitable(t, c) /\ zombie[c]) => c \in handed
=============================================================================
