------------------------------ MODULE CodeCache ------------------------------
(***************************************************************************)
(* The translator's cache of blocks: asbestos/asbestos.c, with the page    *)
(* flags and the change counter of kernel/memory.c and the per-thread TLB  *)
(* of emu/tlb.c.                                                           *)
(*                                                                         *)
(* The threads of one address space share the blocks translated from guest *)
(* code.  A block is found through a hash table, through the caches of a   *)
(* thread and through the jumps of other blocks that were patched to lead  *)
(* to it.  A store to its page invalidates it: it becomes jetsam, and is   *)
(* freed once no thread executes translated code.                          *)
(*                                                                         *)
(* Blocks are compiled under asbestos->lock, but stores take no lock.  A   *)
(* page is marked P_CODE before it is read, which makes every writable TLB *)
(* entry for it stale, and what was compiled counts only if no store has   *)
(* unmarked the page meanwhile.                                            *)
(*                                                                         *)
(* The counters mmu->changes and asbestos->invalidate_gen are represented  *)
(* by who has seen their latest value.  Each block has one jump that can   *)
(* be patched.  All pages are mapped.                                      *)
(***************************************************************************)
EXTENDS Naturals, FiniteSets

CONSTANTS
    Tasks,      \* the threads that share the address space
    Pages,
    Written,    \* pages mapped with P_WRITE
    Private,    \* pages mapped without P_SHARED
    Addrs,      \* guest addresses where a block starts
    First, Last,\* the page a block starts in and the one it ends in
    Succ,       \* the address the block jumps to
    Blocks,     \* memory for blocks; bound: a compilation waits for some
    None

ASSUME PagesAssumption == First \in [Addrs -> Pages] /\ Last \in [Addrs -> Pages]
ASSUME WrittenAssumption == Written \subseteq Pages /\ Private \subseteq Pages
ASSUME SuccAssumption == Succ \in [Addrs -> Addrs]
ASSUME NoneAssumption == None \notin Tasks \cup Pages \cup Addrs \cup Blocks

VARIABLES
    code,       \* pages marked P_CODE
    cow,        \* pages marked P_COW
    writable,   \* <<t, p>>: t's TLB has p writable, and mmu->changes is as it was
    seen,       \* threads whose tlb->mem_changes is mmu->changes
    steady,     \* threads in a translation or a compilation since whose start
                \* mmu->changes has not moved
    st,         \* a block is free, new (being made), live, or jetsam
    addr,       \* where it starts
    torn,       \* has a store changed its bytes since they were read?  It is
                \* "late" if its thread translated the page before the mark
    jump,       \* where the jump of a block was patched to
    cache,      \* blocks in the block cache and the return cache of a thread
    current,    \* threads whose block_cache_gen is invalidate_gen
    lock,       \* the holder of asbestos->lock between two steps
    pc,         \* what a thread is doing
    ip,         \* the address it wants to run
    blk,        \* the block it has
    last,       \* frame->last_block: the one it ran before
    page        \* the page it stores to

memory == <<code, cow, writable, seen, steady>>
blocks == <<st, addr, torn, jump>>
caches == <<cache, current>>
regs == <<ip, blk, last, page>>
vars == <<memory, blocks, caches, lock, pc, regs>>

PagesOf(b) == {First[addr[b]], Last[addr[b]]}
At(t, where) == pc[t] = where
Goto(t, where) == pc' = [pc EXCEPT ![t] = where]
Now(f, t, x) == f' = [f EXCEPT ![t] = x]
Places == {"out", "loop", "lookup", "mark", "mark_bump", "read", "tail", "tail_bump", "verify",
           "insert", "found", "run", "miss", "miss_clear", "miss_cow", "miss_stamp", "land", "leave"}

\* Threads that hold jetsam_lock for reading; the same, apart from one that
\* copies a page, hold mem->lock for reading.
Inside(t) == pc[t] \notin {"out", "leave"}
HoldsMem(t) == Inside(t) /\ ~ At(t, "miss_cow")

Init ==
    /\ code = {}
    /\ cow = {}
    /\ writable = {}
    /\ seen = {}
    /\ steady = {}
    /\ st = [b \in Blocks |-> "free"]
    /\ addr = [b \in Blocks |-> None]
    /\ torn = [b \in Blocks |-> "no"]
    /\ jump = [b \in Blocks |-> None]
    /\ cache = [t \in Tasks |-> {}]
    /\ current = Tasks
    /\ lock = None
    /\ pc = [t \in Tasks |-> "out"]
    /\ ip = [t \in Tasks |-> None]
    /\ blk = [t \in Tasks |-> None]
    /\ last = [t \in Tasks |-> None]
    /\ page = [t \in Tasks |-> None]

\* mem_changed.
Bump == writable' = {} /\ seen' = {} /\ steady' = {}

-----------------------------------------------------------------------------
(* Invalidation                                                            *)

\* Live blocks on page p: the page's lists.
On(p) == {b \in Blocks : st[b] = "live" /\ p \in PagesOf(b)}

\* A mutant of Invalidate: the jumps to an invalidated block stay.
InvalidateLinked(S) ==
    /\ st' = [b \in Blocks |-> IF b \in S THEN "jetsam" ELSE st[b]]
    /\ current' = IF S = {} THEN current ELSE {}
    /\ UNCHANGED <<addr, torn, jump>>

\* asbestos_invalidate_range, under the lock, of the blocks S.  A live block
\* that jumps to one of them gets its jump back as it was; one that is itself
\* in S only if its turn comes later.
Invalidate(S) ==
    /\ st' = [b \in Blocks |-> IF b \in S THEN "jetsam" ELSE st[b]]
    /\ \E early \in SUBSET {b \in S : jump[b] \in S} :
        jump' = [b \in Blocks |->
            IF st[b] = "live" /\ jump[b] \in S /\ b \notin early THEN None ELSE jump[b]]
    /\ current' = IF S = {} THEN current ELSE {}
    /\ UNCHANGED <<addr, torn>>

-----------------------------------------------------------------------------
(* The dispatch loop of cpu_step_to_interrupt                              *)

Enter(t) ==
    /\ At(t, "out")
    /\ Goto(t, "loop")
    /\ seen' = seen \cup {t}        \* tlb_refresh
    /\ UNCHANGED <<code, cow, writable, steady, blocks, caches, lock, regs>>

\* Drop the caches after an invalidation, and look in them for the block at the
\* address that comes next.
Loop(t) ==
    LET kept == IF t \in current THEN cache[t] ELSE {} IN
    /\ At(t, "loop")
    /\ Now(cache, t, kept)
    /\ current' = current \cup {t}
    /\ \/ \E b \in kept : Goto(t, "found") /\ Now(blk, t, b) /\ UNCHANGED ip
       \/ \E a \in Addrs : Goto(t, "lookup") /\ Now(ip, t, a) /\ UNCHANGED blk
    /\ UNCHANGED <<memory, blocks, lock, last, page>>

\* Under the lock, find the block in the hash table or begin to compile it.
LookupHit(t) == \E b \in Blocks :
    /\ At(t, "lookup")
    /\ lock = None
    /\ st[b] = "live" /\ addr[b] = ip[t]
    /\ Now(cache, t, cache[t] \cup {b})
    /\ Goto(t, "found") /\ Now(blk, t, b) /\ Now(ip, t, None)
    /\ UNCHANGED <<memory, blocks, current, lock, last, page>>
LookupMiss(t) ==
    /\ At(t, "lookup")
    /\ lock = None
    /\ ~ \E b \in Blocks : st[b] = "live" /\ addr[b] = ip[t]
    /\ lock' = t
    /\ Goto(t, "mark")
    /\ UNCHANGED <<memory, blocks, caches, regs>>

\* Patch the jump of the block that ran before, if the lock is free now and
\* neither block has become jetsam.
Chain(t) ==
    LET b == blk[t]
        l == last[t]
        fits == l # None /\ jump[l] = None /\ Succ[addr[l]] = addr[b]
    IN
    /\ At(t, "found")
    /\ IF fits /\ lock = None /\ st[l] = "live" /\ st[b] = "live"
       THEN Now(jump, l, b) ELSE UNCHANGED jump
    /\ Goto(t, "run") /\ Now(last, t, None)
    /\ UNCHANGED <<memory, st, addr, torn, caches, lock, ip, blk, page>>

\* Blocks whose jump the translated code that t is in may take: the one it is
\* in, or on a return one in the caches.
Near(t) == {b \in cache[t] \cup {blk[t]} : b # None}

\* The block goes on to the one its jump was patched to.  A call puts the block
\* it is in into the return cache; a return goes where the jump of a block from
\* there leads, or back to the loop to have that one patched.
Jump(t) == \E b \in Near(t), calls \in SUBSET {blk[t]} :
    /\ At(t, "run")
    /\ jump[b] # None
    /\ Now(blk, t, jump[b])
    /\ Now(cache, t, cache[t] \cup calls)
    /\ UNCHANGED <<memory, blocks, current, lock, pc, ip, last, page>>
Exit(t) ==
    /\ At(t, "run")
    /\ Goto(t, "loop") /\ Now(blk, t, None)
    /\ IF t \in seen
       THEN /\ \E b \in Near(t) : Now(last, t, b)
            /\ UNCHANGED <<seen, caches>>
       ELSE /\ seen' = seen \cup {t}
            /\ Now(cache, t, {})
            /\ current' = current \cup {t}
            /\ UNCHANGED last
    /\ UNCHANGED <<code, cow, writable, steady, blocks, lock, ip, page>>

\* An interrupt: the thread leaves translated code.
Leave(t) ==
    /\ At(t, "loop")
    /\ Goto(t, "leave") /\ Now(last, t, None)
    /\ UNCHANGED <<memory, blocks, caches, lock, ip, blk, page>>

-----------------------------------------------------------------------------
(* fiber_block_compile_protected, with asbestos->lock held                 *)

\* mmu_mark_code_page of page p, in two steps, the second if it was not marked.
Mark(t) ==
    LET p == First[ip[t]] IN
    /\ At(t, "mark")
    /\ code' = code \cup {p}
    /\ Goto(t, IF p \in code THEN "read" ELSE "mark_bump")
    /\ UNCHANGED <<cow, writable, seen, steady, blocks, caches, lock, regs>>
\* A mutant of MarkBump: the writable entries stay in the TLBs.
MarkBumpNot(t) ==
    /\ At(t, "mark_bump")
    /\ Goto(t, "read")
    /\ UNCHANGED <<memory, blocks, caches, lock, regs>>
MarkBump(t) ==
    /\ At(t, "mark_bump")
    /\ Bump
    /\ Goto(t, "read")
    /\ UNCHANGED <<code, cow, blocks, caches, lock, regs>>

\* Load the counter, and compile.
Read(t) == \E b \in Blocks :
    /\ At(t, "read")
    /\ st[b] = "free"
    /\ steady' = steady \cup {t}
    /\ Now(st, b, "new") /\ Now(addr, b, ip[t]) /\ Now(torn, b, "no")
    /\ Goto(t, IF First[ip[t]] = Last[ip[t]] THEN "verify" ELSE "tail") /\ Now(blk, t, b)
    /\ UNCHANGED <<code, cow, writable, seen, jump, caches, lock, ip, last, page>>

\* Throw the block away and begin again.
Discard(t) ==
    /\ Now(st, blk[t], "free") /\ Now(addr, blk[t], None) /\ Now(torn, blk[t], "no")
    /\ Goto(t, "mark") /\ Now(blk, t, None)

\* The block ends in another page: if that was not marked, again.
Tail(t) ==
    LET p == Last[ip[t]] IN
    /\ At(t, "tail")
    /\ code' = code \cup {p}
    /\ Goto(t, IF p \in code THEN "verify" ELSE "tail_bump")
    /\ UNCHANGED <<cow, writable, seen, steady, blocks, caches, lock, regs>>
TailBump(t) ==
    /\ At(t, "tail_bump")
    /\ Bump
    /\ Discard(t)
    /\ UNCHANGED <<code, cow, jump, caches, lock, ip, last, page>>

\* A mutant of Verified: that the counter has not moved is enough.
VerifiedUnmoved(t) == t \in steady
Verified(t) == t \in steady /\ PagesOf(blk[t]) \subseteq code
Verify(t) ==
    /\ At(t, "verify")
    /\ steady' = steady \ {t}
    /\ IF Verified(t) THEN Goto(t, "insert") /\ UNCHANGED <<st, addr, torn, blk>> ELSE Discard(t)
    /\ UNCHANGED <<code, cow, writable, seen, jump, caches, lock, ip, last, page>>

\* fiber_insert, and back to the loop without the lock.
Insert(t) ==
    /\ At(t, "insert")
    /\ Now(st, blk[t], "live")
    /\ Now(cache, t, cache[t] \cup {blk[t]})
    /\ lock' = None
    /\ Goto(t, "found") /\ Now(ip, t, None)
    /\ UNCHANGED <<memory, addr, torn, jump, current, blk, last, page>>

-----------------------------------------------------------------------------
(* Stores and loads of a running block                                     *)

\* A store that finds the page writable in the TLB lands in a second step.
StoreHit(t) == \E p \in Pages :
    /\ At(t, "run")
    /\ <<t, p>> \in writable
    /\ Goto(t, "land") /\ Now(page, t, p)
    /\ UNCHANGED <<memory, blocks, caches, lock, ip, blk, last>>
Land(t) ==
    LET p == page[t]
        now == IF <<t, p>> \in writable THEN "yes" ELSE "late"
    IN
    /\ At(t, "land")
    /\ torn' = [b \in Blocks |->
            IF st[b] = "new" /\ p \in PagesOf(b) /\ torn[b] # "yes" THEN now ELSE torn[b]]
    /\ Goto(t, "run") /\ Now(page, t, None)
    /\ UNCHANGED <<memory, st, addr, jump, caches, lock, ip, blk, last>>

\* Otherwise tlb_handle_miss loads the counter and calls mem_ptr, which looks
\* without the lock whether the page has blocks, and invalidates them with it.
Try(t, p) ==
    /\ On(p) # {} => lock = None
    /\ Invalidate(On(p))
    /\ steady' = steady \cup {t}
    /\ seen' = seen \cup {t}
    /\ Goto(t, "miss_clear") /\ Now(page, t, p)
    /\ UNCHANGED <<code, cow, writable, cache, lock, ip, blk, last>>
StoreMiss(t) == \E p \in Written :
    /\ At(t, "run")
    /\ <<t, p>> \notin writable
    /\ Try(t, p)
MissAgain(t) == At(t, "miss") /\ Try(t, page[t])
\* mem_ptr unmarks the page and moves the counter.  They are one step here: what
\* comes between is undone by the move.
MissClear(t) ==
    /\ At(t, "miss_clear")
    /\ IF page[t] \in code
       THEN code' = code \ {page[t]} /\ Bump
       ELSE UNCHANGED <<code, writable, seen, steady>>
    /\ Goto(t, IF page[t] \in cow THEN "miss_cow" ELSE "miss_stamp")
    /\ UNCHANGED <<cow, blocks, caches, lock, regs>>
\* A page to be copied: the thread trades mem->lock for its writing side, which
\* needs the other threads out of translated code, while it stays in.
MissCow(t) ==
    /\ At(t, "miss_cow")
    /\ \A u \in Tasks : ~ HoldsMem(u)
    /\ Goto(t, "miss_stamp")
    /\ IF page[t] \in cow
       THEN /\ lock = None
            /\ Invalidate(On(page[t]))
            /\ cow' = cow \ {page[t]}
            /\ Bump
       ELSE UNCHANGED <<cow, writable, seen, steady, blocks, current>>
    /\ UNCHANGED <<code, cache, lock, regs>>
\* The translation counts if the counter has not moved since it began.
MissStamp(t) ==
    /\ At(t, "miss_stamp")
    /\ IF t \in steady
       THEN writable' = writable \cup {<<t, page[t]>>} /\ Goto(t, "land")
       ELSE Goto(t, "miss") /\ UNCHANGED writable
    /\ steady' = steady \ {t}
    /\ UNCHANGED <<code, cow, seen, blocks, caches, lock, regs>>

\* A load that misses makes the entry writable if the page may be written
\* without a further look: translate_write_nofault.  One step: should the
\* counter move meanwhile, the entry is stale from the start.
MayWrite(p) == p \in Written \ (code \cup cow)
Fill(t) == \E p \in Pages :
    /\ At(t, "run")
    /\ writable' = IF MayWrite(p) THEN writable \cup {<<t, p>>} ELSE writable
    /\ seen' = seen \cup {t}
    /\ UNCHANGED <<code, cow, steady, blocks, caches, lock, pc, regs>>

\* IC IVAU: the guest says that it has changed the code of a page.
Ivau(t) == \E p \in Pages :
    /\ At(t, "run")
    /\ lock = None
    /\ Invalidate(On(p))
    /\ UNCHANGED <<memory, cache, lock, pc, regs>>

-----------------------------------------------------------------------------
(* System calls and clean-up, outside translated code                      *)

\* pt_map over a page, pt_unmap: with mem->lock for writing.
Remap(t) == \E p \in Pages :
    /\ At(t, "out")
    /\ \A u \in Tasks : ~ HoldsMem(u)
    /\ lock = None
    /\ Invalidate(On(p))
    /\ code' = code \ {p}
    /\ cow' = cow \ {p}
    /\ Bump
    /\ UNCHANGED <<cache, lock, pc, regs>>
\* fork: pt_copy_on_write of the address space.
Fork(t) ==
    /\ At(t, "out")
    /\ \A u \in Tasks : ~ HoldsMem(u)
    /\ cow' = Private
    /\ Bump
    /\ UNCHANGED <<code, blocks, caches, lock, pc, regs>>

\* The end of cpu_run_to_interrupt: if there is jetsam and nobody executes
\* translated code, free it.
\* A mutant of Alone: the clean-up does not wait for the others.
AloneNever == TRUE
Alone == \A u \in Tasks : ~ Inside(u)   \* write_wrtrylock of jetsam_lock succeeds
Swept(f, none) == [b \in Blocks |-> IF st[b] = "jetsam" THEN none ELSE f[b]]
Clean(t) ==
    /\ At(t, "leave")
    /\ lock = None
    /\ Goto(t, "out")
    /\ IF Alone
       THEN /\ st' = Swept(st, "free") /\ addr' = Swept(addr, None)
            /\ torn' = Swept(torn, "no") /\ jump' = Swept(jump, None)
       ELSE UNCHANGED blocks
    /\ UNCHANGED <<memory, caches, lock, regs>>

Next == \E t \in Tasks :
    \/ Enter(t) \/ Loop(t) \/ LookupHit(t) \/ LookupMiss(t) \/ Chain(t) \/ Jump(t)
    \/ Exit(t) \/ Leave(t)
    \/ Mark(t) \/ MarkBump(t) \/ Read(t) \/ Tail(t) \/ TailBump(t) \/ Verify(t) \/ Insert(t)
    \/ StoreHit(t) \/ Land(t) \/ StoreMiss(t) \/ MissAgain(t) \/ MissClear(t) \/ MissCow(t)
    \/ MissStamp(t) \/ Fill(t) \/ Ivau(t) \/ Remap(t) \/ Fork(t) \/ Clean(t)

Spec == Init /\ [][Next]_vars

-----------------------------------------------------------------------------
(* Properties                                                              *)

TypeOK ==
    /\ code \subseteq Pages /\ cow \subseteq Pages
    /\ writable \subseteq Tasks \X Pages
    /\ seen \subseteq Tasks /\ steady \subseteq Tasks /\ current \subseteq Tasks
    /\ st \in [Blocks -> {"free", "new", "live", "jetsam"}]
    /\ addr \in [Blocks -> Addrs \cup {None}]
    /\ torn \in [Blocks -> {"no", "yes", "late"}]
    /\ jump \in [Blocks -> Blocks \cup {None}]
    /\ cache \in [Tasks -> SUBSET Blocks]
    /\ lock \in Tasks \cup {None}
    /\ pc \in [Tasks -> Places]
    /\ ip \in [Tasks -> Addrs \cup {None}]
    /\ blk \in [Tasks -> Blocks \cup {None}] /\ last \in [Tasks -> Blocks \cup {None}]
    /\ page \in [Tasks -> Pages \cup {None}]

\* Blocks a thread inside translated code can come to without a further look at
\* the generation of its caches.
InReach(t) ==
    ({blk[t], last[t]} \ {None})
        \cup (IF t \in current \/ ~ At(t, "loop") THEN cache[t] ELSE {})

\* No thread runs, patches, or follows a pointer to a block that was freed,
\* whichever stores, remaps and clean-ups other threads make.
NoFreedRun == \A t \in Tasks : Inside(t) => \A b \in InReach(t) :
    st[b] # "free" /\ (jump[b] # None => st[jump[b]] # "free")

\* A patched jump of a block that can still be found leads to a block that can
\* still be found, at the address the guest code names: what was invalidated is
\* not entered again.
ChainsLive == \A b \in Blocks : st[b] = "live" /\ jump[b] # None =>
    st[jump[b]] = "live" /\ addr[jump[b]] = Succ[addr[b]]

\* While a page holds translated code no thread can store to it behind the
\* translator's back, apart from the moment in which it is being marked.
Marking(p) == \E u \in Tasks : \/ At(u, "mark_bump") /\ First[ip[u]] = p
                               \/ At(u, "tail_bump") /\ Last[ip[u]] = p
NoWritableOnCode == \A t \in Tasks, p \in code : <<t, p>> \in writable => Marking(p)

\* A block that passes the verification has whole code: no store has changed it
\* since it was read, but one that had translated its address before the page
\* was marked, which nothing keeps from landing late.
VerifiedWhole == \A t \in Tasks : At(t, "verify") /\ Verified(t) => torn[blk[t]] # "yes"
=============================================================================
