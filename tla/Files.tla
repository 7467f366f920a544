-------------------------------- MODULE Files --------------------------------
(***************************************************************************)
(* File descriptors: fs/fd.c, and what clone, exec and exit do to a table. *)
(*                                                                         *)
(* A description (struct fd) is shared by the slots of several tables, a   *)
(* table by the threads of a process.  Three things keep a description     *)
(* alive: the slots, the reference f_get takes for the system call that    *)
(* looked the slot up (syscall_refs, given back when the call returns),    *)
(* and a reference a call holds in its hand while it installs it.          *)
(*                                                                         *)
(* What happens under table->lock is one step.  dup3, F_DUPFD and the      *)
(* setting of a close-on-exec bit work on the table without its lock; they *)
(* are split where another thread can come in between, a growing table at  *)
(* the point where the new arrays have been filled but not published.      *)
(* Freeing at refcount zero is part of the step that drops the last        *)
(* reference; record locks are kept as the set of their owners.            *)
(***************************************************************************)
EXTENDS Integers, FiniteSets

CONSTANTS
    Tasks,
    Tables,     \* struct fdtable; one that was freed may be allocated again
    Descs,      \* struct fd, each used once
    Files,      \* inodes that take record locks
    File,       \* File[d]: the inode of d, or NoFile (sockets, pipes)
    Limit,      \* RLIMIT_NOFILE
    MaxAccidents, \* bound: raced descriptions and stray bits after which nothing more happens
    NoDesc, NoTable, NoFile

ASSUME FiniteAssumption == IsFiniteSet(Tasks) /\ IsFiniteSet(Tables)
ASSUME LimitAssumption == Limit \in Nat \ {0} /\ MaxAccidents \in Nat
ASSUME FileAssumption == File \in [Descs -> Files \cup {NoFile}]
ASSUME NoneAssumption ==
    /\ NoDesc \notin Descs
    /\ NoTable \notin Tables
    /\ NoFile \notin Files

Slots == 0 .. Limit - 1

VARIABLES
    table,      \* current->files of a task, NoTable before clone and after exit
    users,      \* table->refcount
    size,       \* table->size
    slots,      \* table->files; a slot beyond size holds NoDesc
    cloexec,    \* the slots whose close-on-exec bit is set
    grown,      \* the arrays fdtable_resize has filled and not yet published
    born,       \* descriptions that were created
    ref,        \* fd->refcount; a description that was born and has 0 is freed
    refs,       \* task->syscall_refs
    call,       \* the system call a task is inside of
    owners,     \* the tables that own a record lock on an inode
    late,       \* locks of tables that had no such file open when they were placed,
                \* or lost it to an unlocked store
    raced,      \* history: descriptions an unlocked store lost or brought back
    stray       \* history: slots whose bit was set while they were closed, until their next close

vars == <<table, users, size, slots, cloexec, grown, born, ref, refs, call, owners, late,
          raced, stray>>

\* What a call keeps in its local variables: where it is, its struct fd, the
\* slot it goes for and whether that slot is to be closed on exec.
Idle == [at |-> "idle", fd |-> NoDesc, to |-> 0, bit |-> FALSE]
Places == {"idle", "use", "dup", "setlk", "setfd", "dup3", "dup3_close", "dup3_put",
           "find", "put", "return", "exit"}
Calls == [at : Places, fd : Descs \cup {NoDesc}, to : Slots, bit : BOOLEAN]

\* grown[t] of a task that is not growing a table.
NotGrown == [slots |-> [f \in Slots |-> NoDesc], cloexec |-> {}, size |-> 0]

Init ==
    /\ \E t0 \in Tasks, T0 \in Tables :
        /\ table = [t \in Tasks |-> IF t = t0 THEN T0 ELSE NoTable]
        /\ users = [T \in Tables |-> IF T = T0 THEN 1 ELSE 0]
        /\ size = [T \in Tables |-> IF T = T0 THEN 1 ELSE 0]
    /\ slots = [T \in Tables |-> [f \in Slots |-> NoDesc]]
    /\ cloexec = [T \in Tables |-> {}]
    /\ grown = [t \in Tasks |-> NotGrown]
    /\ born = {}
    /\ ref = [d \in Descs |-> 0]
    /\ refs = [t \in Tasks |-> {}]
    /\ call = [t \in Tasks |-> Idle]
    /\ owners = [i \in Files |-> {}]
    /\ late = {} /\ raced = {} /\ stray = {}

-----------------------------------------------------------------------------
(* Operators                                                               *)

At(t, where) == table[t] # NoTable /\ call[t].at = where
Goto(t, where) == call' = [call EXCEPT ![t].at = where]
Done(t, where) == call' = [call EXCEPT ![t] = [Idle EXCEPT !.at = where]]

\* On to the setting of the bit.
SetBit(t) == call' = [call EXCEPT ![t] = [@ EXCEPT !.at = "setfd", !.fd = NoDesc]]

OpenSlots(T) == {f \in Slots : slots[T][f] # NoDesc}
HasFile(T, i) == \E f \in OpenSlots(T) : File[slots[T][f]] = i

\* Mutants of CloseSlots: the table's record locks stay, as do the bits.
CloseSlotsKeepLocks(T, S, ref0) ==
    /\ slots' = [slots EXCEPT ![T] = [f \in Slots |-> IF f \in S THEN NoDesc ELSE @[f]]]
    /\ cloexec' = [cloexec EXCEPT ![T] = @ \ S]
    /\ ref' = [d \in Descs |-> ref0[d] - Cardinality({f \in S : slots[T][f] = d})]
    /\ stray' = stray \ ({T} \X S)
    /\ UNCHANGED <<owners, late>>
CloseSlotsKeepBits(T, S, ref0) ==
    /\ slots' = [slots EXCEPT ![T] = [f \in Slots |-> IF f \in S THEN NoDesc ELSE @[f]]]
    /\ ref' = [d \in Descs |-> ref0[d] - Cardinality({f \in S : slots[T][f] = d})]
    /\ UNCHANGED <<cloexec, stray, owners, late>>

\* fdtable_close of every slot of S, with the counts ref0: the record locks the
\* table owns on an inode go with any of its descriptors.
CloseSlots(T, S, ref0) ==
    LET gone == {File[slots[T][f]] : f \in S \cap OpenSlots(T)}
    IN  /\ slots' = [slots EXCEPT ![T] =
                        [f \in Slots |-> IF f \in S THEN NoDesc ELSE @[f]]]
        /\ cloexec' = [cloexec EXCEPT ![T] = @ \ S]
        /\ ref' = [d \in Descs |-> ref0[d] - Cardinality({f \in S : slots[T][f] = d})]
        /\ owners' = [i \in Files |-> IF i \in gone THEN owners[i] \ {T} ELSE owners[i]]
        /\ late' = {l \in late : l[1] \notin gone \/ l[2] # T}
        /\ stray' = stray \ ({T} \X S)

\* fdtable_release; the last user closes every slot and frees the table.
Release(t) ==
    LET T == table[t] IN
    /\ table' = [table EXCEPT ![t] = NoTable]
    /\ users' = [users EXCEPT ![T] = @ - 1]
    /\ IF users[T] = 1
       THEN /\ CloseSlots(T, Slots, ref)
            /\ size' = [size EXCEPT ![T] = 0]
       ELSE UNCHANGED <<slots, cloexec, ref, owners, late, size, stray>>

\* Slots that f_install_start may take: the first free one from start on, which
\* may lie just past the end of the table.
Candidates(T, start) ==
    {f \in start .. Limit - 1 : f >= size[T] \/ slots[T][f] = NoDesc}
FirstFree(T, start) == CHOOSE f \in Candidates(T, start) : \A g \in Candidates(T, start) : f <= g

\* f_install_start, given the caller's reference in ref0: install d or drop it.
Install(T, d, bit, ref0) ==
    IF Candidates(T, 0) = {}
    THEN /\ ref' = [ref0 EXCEPT ![d] = @ - 1]
         /\ UNCHANGED <<slots, size, cloexec>>
    ELSE LET f == FirstFree(T, 0) IN
         /\ slots' = [slots EXCEPT ![T][f] = d]
         /\ size' = [size EXCEPT ![T] = IF @ > f THEN @ ELSE f + 1]
         /\ cloexec' = [cloexec EXCEPT ![T] = IF bit THEN @ \cup {f} ELSE @ \ {f}]
         /\ ref' = ref0

\* A store that does not look at what the slots of T hold by now: the descriptions
\* in lost are gone without a close, those in wrong are in a slot without a
\* reference for it or have one without a slot.
Lose(T, lost, wrong) ==
    /\ raced' = raced \cup lost \cup wrong
    /\ late' = late \cup {<<i, T>> : i \in {j \in Files : /\ T \in owners[j]
                                                         /\ \E d \in lost : File[d] = j}}

\* The description a call holds goes to its slot, whatever is there by now; in a
\* table that another thread made shorter meanwhile it goes past the end.
Put(t) ==
    LET T == table[t]
        f == call[t].to
    IN IF f < size[T]
       THEN /\ slots' = [slots EXCEPT ![T][f] = call[t].fd]
            /\ Lose(T, {slots[T][f]} \ {NoDesc}, {})
       ELSE /\ slots' = slots
            /\ Lose(T, {}, {call[t].fd})

-----------------------------------------------------------------------------
(* Looking a descriptor up, and giving the reference back                  *)

\* Mutant of Hold: each look-up takes a reference, the list has one entry.
HoldEach(t, d) ==
    /\ refs' = [refs EXCEPT ![t] = @ \cup {d}]
    /\ ref' = [ref EXCEPT ![d] = @ + 1]

\* f_get: one reference per description and call, however often it is looked up.
Hold(t, d) ==
    /\ refs' = [refs EXCEPT ![t] = @ \cup {d}]
    /\ ref' = IF d \in refs[t] THEN ref ELSE [ref EXCEPT ![d] = @ + 1]

\* A call on descriptor f: f_get, then on to where it works on the description.
Get(t, f, where, to, bit) ==
    LET d == slots[table[t]][f] IN
    /\ d # NoDesc
    /\ Hold(t, d)
    /\ call' = [call EXCEPT ![t] = [at |-> where, to |-> to, bit |-> bit,
                                    fd |-> IF where \in {"use", "setfd"} THEN NoDesc ELSE d]]
    /\ UNCHANGED <<table, users, size, slots, cloexec, grown, born, owners, late, raced, stray>>

\* read, write, poll and the like; a call may look up several descriptors.
Use(t) == /\ At(t, "idle") \/ At(t, "use")
          /\ \E f \in Slots : Get(t, f, "use", 0, FALSE)

\* The call comes to its end, or the thread exits from inside it.
Finish(t) ==
    /\ At(t, "use")
    /\ \E where \in {"return", "exit"} : Done(t, where)
    /\ UNCHANGED <<table, users, size, slots, cloexec, grown, born, ref, refs, owners, late,
                   raced, stray>>

\* syscall_refs_drain at the end of the call and at the start of do_exit.
Drain(t) ==
    /\ At(t, "return") \/ At(t, "exit")
    /\ \E d \in refs[t] :
        /\ refs' = [refs EXCEPT ![t] = @ \ {d}]
        /\ ref' = [ref EXCEPT ![d] = @ - 1]
        /\ call' = IF refs[t] = {d} /\ call[t].at = "return"
                   THEN [call EXCEPT ![t] = Idle]
                   ELSE call
    /\ UNCHANGED <<table, users, size, slots, cloexec, grown, born, owners, late, raced, stray>>

-----------------------------------------------------------------------------
(* Calls that work under the table's lock                                  *)

\* open, socket, pipe: a new description, then f_install.
Open(t) ==
    /\ At(t, "idle")
    /\ \E d \in Descs \ born, bit \in BOOLEAN :
        /\ born' = born \cup {d}
        /\ Install(table[t], d, bit, [ref EXCEPT ![d] = 1])
    /\ UNCHANGED <<table, users, grown, refs, call, owners, late, raced, stray>>

\* sys_dup: f_get, then a reference for the table and f_install.
Dup(t) == At(t, "idle") /\ \E f \in Slots : Get(t, f, "dup", 0, FALSE)
DupInstall(t) ==
    /\ At(t, "dup")
    /\ Install(table[t], call[t].fd, FALSE, [ref EXCEPT ![call[t].fd] = @ + 1])
    /\ Done(t, "return")
    /\ UNCHANGED <<table, users, grown, born, refs, owners, late, raced, stray>>

\* sys_close.
Close(t) ==
    /\ At(t, "idle")
    /\ \E f \in OpenSlots(table[t]) : CloseSlots(table[t], {f}, ref)
    /\ UNCHANGED <<table, users, size, grown, born, refs, call, raced>>

\* sys_close_range; a last of 2^31 and more (-1 here) is negative as fd_t.
CloseRange(t) ==
    LET T == table[t] IN
    /\ At(t, "idle")
    /\ \E first \in Slots, last \in Slots \cup {-1}, mark \in BOOLEAN :
        LET last0 == IF last >= size[T] THEN size[T] - 1 ELSE last
            S == (first .. last0) \cap OpenSlots(T)
        IN
        /\ last = -1 \/ first <= last
        /\ IF mark
           THEN /\ cloexec' = [cloexec EXCEPT ![T] = @ \cup S]
                /\ UNCHANGED <<slots, ref, owners, late, stray>>
           ELSE CloseSlots(T, S, ref)
    /\ UNCHANGED <<table, users, size, grown, born, refs, call, raced>>

\* fdtable_do_cloexec, at exec.
Exec(t) ==
    /\ At(t, "idle")
    /\ CloseSlots(table[t], cloexec[table[t]] \cap OpenSlots(table[t]), ref)
    /\ UNCHANGED <<table, users, size, grown, born, refs, call, raced>>

\* copy_task: a thread shares the table, a process gets fdtable_copy of it.
Clone(t) ==
    /\ At(t, "idle")
    /\ \E u \in Tasks :
        /\ table[u] = NoTable
        /\ call[u].at = "idle"
        /\ table' = [table EXCEPT ![u] = table[t]]
        /\ users' = [users EXCEPT ![table[t]] = @ + 1]
    /\ UNCHANGED <<size, slots, cloexec, grown, born, ref, refs, call, owners, late, raced, stray>>
Fork(t) ==
    LET T == table[t] IN
    /\ At(t, "idle")
    /\ \E u \in Tasks, U \in Tables :
        /\ table[u] = NoTable /\ users[U] = 0
        /\ call[u].at = "idle"
        /\ table' = [table EXCEPT ![u] = U]
        /\ users' = [users EXCEPT ![U] = 1]
        /\ size' = [size EXCEPT ![U] = size[T]]
        /\ slots' = [slots EXCEPT ![U] = slots[T]]
        /\ cloexec' = [cloexec EXCEPT ![U] = cloexec[T]]
        /\ stray' = stray \cup ({U} \X {f \in Slots : <<T, f>> \in stray})
    /\ ref' = [d \in Descs |-> ref[d] + Cardinality({f \in Slots : slots[T][f] = d})]
    /\ UNCHANGED <<grown, born, refs, call, owners, late, raced>>

\* do_exit, after the drain.  A call that ran no f_get has nothing to drain.
Exit(t) ==
    /\ At(t, "idle") \/ (At(t, "exit") /\ refs[t] = {})
    /\ Release(t)
    /\ call' = [call EXCEPT ![t] = Idle]
    /\ UNCHANGED <<grown, born, refs, raced>>

-----------------------------------------------------------------------------
(* Record locks: fcntl_setlk works on the description f_get returned        *)

Setlk(t) == At(t, "idle") /\ \E f \in Slots :
    /\ slots[table[t]][f] # NoDesc
    /\ File[slots[table[t]][f]] # NoFile
    /\ Get(t, f, "setlk", 0, FALSE)
\* file_lock_acquire: a lock is placed, the owner's last one removed, or EAGAIN.
SetlkAcquire(t) ==
    LET T == table[t]
        i == File[call[t].fd]
    IN
    /\ At(t, "setlk")
    /\ \/ /\ owners' = [owners EXCEPT ![i] = @ \cup {T}]
          /\ late' = IF HasFile(T, i) THEN late \ {<<i, T>>} ELSE late \cup {<<i, T>>}
       \/ /\ owners' = [owners EXCEPT ![i] = @ \ {T}]
          /\ late' = late \ {<<i, T>>}
       \/ UNCHANGED <<owners, late>>
    /\ Done(t, "return")
    /\ UNCHANGED <<table, users, size, slots, cloexec, grown, born, ref, refs, raced, stray>>

-----------------------------------------------------------------------------
(* Calls that work on the table without its lock                           *)

\* F_SETFD and FIOCLEX: f_get, then the bit.  dup3 and F_DUPFD_CLOEXEC set theirs
\* in the same way, after they have stored the description.
SetFd(t) == At(t, "idle") /\ \E f \in Slots, bit \in BOOLEAN : Get(t, f, "setfd", f, bit)
SetFdBit(t) ==
    LET T == table[t] IN
    /\ At(t, "setfd")
    /\ cloexec' = [cloexec EXCEPT ![T] =
                      IF call[t].bit THEN @ \cup {call[t].to} ELSE @ \ {call[t].to}]
    /\ stray' = IF call[t].bit /\ slots[T][call[t].to] = NoDesc
                THEN stray \cup {<<T, call[t].to>>} ELSE stray
    /\ Done(t, "return")
    /\ UNCHANGED <<table, users, size, slots, grown, born, ref, refs, owners, late, raced>>

\* fdtable_resize up to and including slot f: filling, then publishing.
Grow(t, f) ==
    LET T == table[t] IN
    grown' = [grown EXCEPT ![t] = [slots |-> slots[T], cloexec |-> cloexec[T], size |-> f + 1]]
Publish(t) ==
    LET T == table[t]
        changed == {f \in Slots : slots[T][f] # grown[t].slots[f]}
    IN
    /\ grown[t].size > 0
    /\ Lose(T, {slots[T][f] : f \in changed} \ {NoDesc},
               {grown[t].slots[f] : f \in changed} \ {NoDesc})
    /\ slots' = [slots EXCEPT ![T] = grown[t].slots]
    /\ cloexec' = [cloexec EXCEPT ![T] = grown[t].cloexec]
    /\ size' = [size EXCEPT ![T] = grown[t].size]
    /\ grown' = [grown EXCEPT ![t] = NotGrown]
    /\ stray' = {x \in stray : x[1] # T}
                  \cup ({T} \X {f \in grown[t].cloexec : grown[t].slots[f] = NoDesc})
    /\ UNCHANGED <<table, users, born, ref, refs, call, owners>>

\* sys_dup3 (and dup2): expand, retain, f_close of the target, store.
Dup3(t) == At(t, "idle") /\ \E f, to \in Slots, bit \in BOOLEAN : Get(t, f, "dup3", to, bit)
Dup3Expand(t) ==
    /\ At(t, "dup3")
    /\ Goto(t, "dup3_close")
    /\ IF call[t].to >= size[table[t]] THEN Grow(t, call[t].to) ELSE UNCHANGED grown
    /\ UNCHANGED <<table, users, size, slots, cloexec, born, ref, refs, owners, late, raced, stray>>
Dup3Close(t) ==
    LET d == call[t].fd IN
    /\ At(t, "dup3_close")
    /\ grown[t].size = 0
    /\ CloseSlots(table[t], {call[t].to} \cap OpenSlots(table[t]), [ref EXCEPT ![d] = @ + 1])
    /\ Goto(t, "dup3_put")
    /\ UNCHANGED <<table, users, size, grown, born, refs, raced>>
Dup3Put(t) ==
    /\ At(t, "dup3_put")
    /\ Put(t)
    /\ IF call[t].bit THEN SetBit(t) ELSE Done(t, "return")
    /\ UNCHANGED <<table, users, size, cloexec, grown, born, ref, refs, owners, stray>>

\* F_DUPFD and F_DUPFD_CLOEXEC: retain, f_install_start from the slot asked for.
DupFd(t) == At(t, "idle") /\ \E f, start \in Slots, bit \in BOOLEAN : Get(t, f, "find", start, bit)
DupFdFind(t) ==
    LET T == table[t]
        d == call[t].fd
        f == FirstFree(T, call[t].to)
    IN
    /\ At(t, "find")
    /\ IF Candidates(T, call[t].to) = {}
       THEN /\ Done(t, "return")
            /\ UNCHANGED <<ref, grown>>
       ELSE /\ ref' = [ref EXCEPT ![d] = @ + 1]
            /\ call' = [call EXCEPT ![t] = [@ EXCEPT !.at = "put", !.to = f]]
            /\ IF f >= size[T] THEN Grow(t, f) ELSE UNCHANGED grown
    /\ UNCHANGED <<table, users, size, slots, cloexec, born, refs, owners, late, raced, stray>>
DupFdPut(t) ==
    /\ At(t, "put")
    /\ grown[t].size = 0
    /\ Put(t)
    /\ cloexec' = [cloexec EXCEPT ![table[t]] = @ \ {call[t].to}]
    /\ IF call[t].bit THEN SetBit(t) ELSE Done(t, "return")
    /\ UNCHANGED <<table, users, size, grown, born, ref, refs, owners, stray>>

Next ==
    /\ Cardinality(raced) + Cardinality(stray) < MaxAccidents
    /\ \E t \in Tasks :
        \/ Use(t) \/ Finish(t) \/ Drain(t)
        \/ Open(t) \/ Dup(t) \/ DupInstall(t) \/ Close(t) \/ CloseRange(t)
        \/ Clone(t) \/ Fork(t) \/ Exec(t) \/ Exit(t)
        \/ Setlk(t) \/ SetlkAcquire(t)
        \/ SetFd(t) \/ SetFdBit(t) \/ Publish(t)
        \/ Dup3(t) \/ Dup3Expand(t) \/ Dup3Close(t) \/ Dup3Put(t)
        \/ DupFd(t) \/ DupFdFind(t) \/ DupFdPut(t)

Spec == Init /\ [][Next]_vars

-----------------------------------------------------------------------------
(* Properties                                                              *)

TypeOK ==
    /\ table \in [Tasks -> Tables \cup {NoTable}]
    /\ users \in [Tables -> Nat]
    /\ size \in [Tables -> 0 .. Limit]
    /\ slots \in [Tables -> [Slots -> Descs \cup {NoDesc}]]
    /\ cloexec \in [Tables -> SUBSET Slots]
    /\ grown \in [Tasks -> [slots : [Slots -> Descs \cup {NoDesc}],
                            cloexec : SUBSET Slots, size : 0 .. Limit]]
    /\ born \subseteq Descs
    /\ ref \in [Descs -> Int]
    /\ \A d \in Descs \ raced : ref[d] >= 0
    /\ refs \in [Tasks -> SUBSET Descs]
    /\ call \in [Tasks -> Calls]
    /\ owners \in [Files -> SUBSET Tables]
    /\ late \subseteq Files \X Tables
    /\ raced \subseteq born /\ stray \subseteq Tables \X Slots

\* The count of a description is the number of slots, of system calls and of
\* hands that hold it: it is freed with the last of them, neither while a call
\* works on it nor never.  Only a description is exempt that dup3 or F_DUPFD, which
\* write the table without its lock, stored over or brought back.
RefsExact == \A d \in Descs \ raced :
    ref[d] = Cardinality({x \in Tables \X Slots : slots[x[1]][x[2]] = d})
           + Cardinality({t \in Tasks : d \in refs[t]})
           + Cardinality({t \in Tasks : call[t].fd = d /\ call[t].at \in {"dup3_put", "put"}})

\* A record lock belongs to a table that has the file open, so that some close
\* will remove it; except for a lock that a call placed through a description
\* whose slots had been closed since it looked it up, and for one whose
\* descriptor was stored over without a close.
LocksOwned == \A i \in Files : \A T \in owners[i] : HasFile(T, i) \/ <<i, T>> \in late

\* A close-on-exec bit belongs to an open descriptor, unless a call set it after
\* another thread had closed the slot.
CloexecOpen == \A T \in Tables : \A f \in cloexec[T] :
    f \in OpenSlots(T) \/ <<T, f>> \in stray

\* What the table leads to has a reference, but for what was raced.
LookupAlive == \A T \in Tables, f \in Slots :
    slots[T][f] \notin raced \cup {NoDesc} => ref[slots[T][f]] > 0

\* The comment at f_get (fs/fd.c:210) makes no exception: what the table leads to
\* cannot be freed between the look-up and the use.  Not kept when the table is
\* shared and one of its threads is in dup3, which grows and fills it without the
\* lock.
AlwaysAlive == \A T \in Tables, f \in Slots : slots[T][f] # NoDesc => ref[slots[T][f]] > 0

\* No bit is left on a free slot, where dup3, which clears none, would give it to
\* the descriptor it puts there.  Not kept on a shared table.
NoStrayBit == \A T \in Tables : cloexec[T] \subseteq OpenSlots(T)

=============================================================================
