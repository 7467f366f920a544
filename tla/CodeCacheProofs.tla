-------------------------- MODULE CodeCacheProofs --------------------------
(***************************************************************************)
(* Theorems about CodeCache.                                               *)
(***************************************************************************)
EXTENDS CodeCache, TLAPS

\* Where a thread holds asbestos->lock between two steps, where it has a block
\* that nobody else can find, where it has one it executes, and where it is
\* storing to a page.
Compiling == {"mark", "mark_bump", "read", "tail", "tail_bump", "verify", "insert"}
Building == {"tail", "tail_bump", "verify", "insert"}
Running == {"found", "run", "miss", "miss_clear", "miss_cow", "miss_stamp", "land"}
Storing == {"miss", "miss_clear", "miss_cow", "miss_stamp", "land"}

\* What a thread may do next.
Act(t) ==
    \/ Enter(t) \/ Loop(t) \/ LookupHit(t) \/ LookupMiss(t) \/ Chain(t) \/ Jump(t)
    \/ Exit(t) \/ Leave(t)
    \/ Mark(t) \/ MarkBump(t) \/ Read(t) \/ Tail(t) \/ TailBump(t) \/ Verify(t) \/ Insert(t)
    \/ StoreHit(t) \/ Land(t) \/ StoreMiss(t) \/ MissAgain(t) \/ MissClear(t) \/ MissCow(t)
    \/ MissStamp(t) \/ Fill(t) \/ Ivau(t) \/ Remap(t) \/ Fork(t) \/ Clean(t)

USE DEF At, Goto, Now, Compiling, Building, Running, Storing

-----------------------------------------------------------------------------
(* Types                                                                   *)

\* What a thread has at which place.
CallShape == \A t \in Tasks :
    /\ pc[t] \in Compiling \cup {"lookup"} => ip[t] \in Addrs
    /\ pc[t] \in Running \cup Building => blk[t] \in Blocks
    /\ pc[t] \in Storing => page[t] \in Pages

Typed == TypeOK /\ CallShape

LEMMA TypedInit == Init => Typed
BY NoneAssumption DEF Init, Typed, TypeOK, CallShape, Places

\* Each step leaves the types as they are.
LEMMA TypedStep == Typed /\ [Next]_vars => Typed'
<1> SUFFICES ASSUME Typed, [Next]_vars PROVE Typed'
  OBVIOUS
<1> USE PagesAssumption, WrittenAssumption, SuccAssumption, NoneAssumption
        DEF Typed, TypeOK, CallShape, Places, memory, blocks, caches, regs
<1>1. CASE UNCHANGED vars
  BY <1>1 DEF vars
<1>2. CASE Next
  <2> PICK t \in Tasks : Act(t)
    BY <1>2 DEF Next, Act
  <2>1. CASE Enter(t)
    BY <2>1 DEF Enter
  <2>2. CASE Loop(t)
    BY <2>2 DEF Loop
  <2>3. CASE LookupHit(t)
    BY <2>3 DEF LookupHit
  <2>4. CASE LookupMiss(t)
    BY <2>4 DEF LookupMiss
  <2>5. CASE Chain(t)
    BY <2>5 DEF Chain
  <2>6. CASE Jump(t)
    BY <2>6 DEF Jump, Near
  <2>7. CASE Exit(t)
    BY <2>7 DEF Exit, Near
  <2>8. CASE Leave(t)
    BY <2>8 DEF Leave
  <2>9. CASE Mark(t)
    BY <2>9 DEF Mark
  <2>10. CASE MarkBump(t)
    BY <2>10 DEF MarkBump, Bump
  <2>11. CASE Read(t)
    BY <2>11 DEF Read
  <2>12. CASE Tail(t)
    BY <2>12 DEF Tail
  <2>13. CASE TailBump(t)
    BY <2>13 DEF TailBump, Bump, Discard
  <2>14. CASE Verify(t)
    BY <2>14 DEF Verify, Discard
  <2>15. CASE Insert(t)
    BY <2>15 DEF Insert
  <2>16. CASE StoreHit(t)
    BY <2>16 DEF StoreHit
  <2>17. CASE Land(t)
    BY <2>17 DEF Land
  <2>18. CASE StoreMiss(t)
    BY <2>18 DEF StoreMiss, Try, Invalidate, On
  <2>19. CASE MissAgain(t)
    BY <2>19 DEF MissAgain, Try, Invalidate, On
  <2>20. CASE MissClear(t)
    BY <2>20 DEF MissClear, Bump
  <2>21. CASE MissCow(t)
    BY <2>21 DEF MissCow, Bump, Invalidate, On
  <2>22. CASE MissStamp(t)
    BY <2>22 DEF MissStamp
  <2>23. CASE Fill(t)
    BY <2>23 DEF Fill
  <2>24. CASE Ivau(t)
    BY <2>24 DEF Ivau, Invalidate, On
  <2>25. CASE Remap(t)
    BY <2>25 DEF Remap, Bump, Invalidate, On
  <2>26. CASE Fork(t)
    BY <2>26 DEF Fork, Bump
  <2>27. CASE Clean(t)
    BY <2>27 DEF Clean, Swept
  <2> QED
    BY <2>1, <2>2, <2>3, <2>4, <2>5, <2>6, <2>7, <2>8, <2>9, <2>10, <2>11, <2>12, <2>13,
       <2>14, <2>15, <2>16, <2>17, <2>18, <2>19, <2>20, <2>21, <2>22, <2>23, <2>24,
       <2>25, <2>26, <2>27 DEF Act
<1> QED
  BY <1>1, <1>2

\* The variables of the code cache keep their types.
THEOREM TypeCorrect == Spec => []TypeOK
<1>1. Spec => []Typed
  BY TypedInit, TypedStep, PTL DEF Spec
<1> QED
  BY <1>1, PTL DEF Typed

-----------------------------------------------------------------------------
(* Stores and marks                                                        *)

\* A store that has looked at the page, and may still make it writable in the
\* TLB, will find the counter moved if the page was marked since.
StampSafe == \A t \in Tasks :
    pc[t] \in {"miss_cow", "miss_stamp"} /\ t \in steady /\ page[t] \in code =>
        Marking(page[t])
Guarded == NoWritableOnCode /\ StampSafe

LEMMA GuardedInit == Init => Guarded
BY DEF Init, Guarded, NoWritableOnCode, StampSafe

\* Each step keeps stores out of marked pages: a mark moves the counter, and a
\* translation looks at the marks before it counts.
LEMMA GuardedStep == Typed /\ Guarded /\ [Next]_vars => Guarded'
<1> SUFFICES ASSUME Typed, Guarded, [Next]_vars PROVE Guarded'
  OBVIOUS
<1> USE PagesAssumption, WrittenAssumption, SuccAssumption, NoneAssumption
        DEF Typed, TypeOK, CallShape, Places, Guarded, NoWritableOnCode, StampSafe,
            Marking, memory, blocks, caches, regs
<1>1. CASE UNCHANGED vars
  BY <1>1 DEF vars
<1>2. CASE Next
  <2> PICK t \in Tasks : Act(t)
    BY <1>2 DEF Next, Act
  <2>1. CASE Enter(t)
    BY <2>1 DEF Enter
  <2>2. CASE Loop(t)
    BY <2>2 DEF Loop
  <2>3. CASE LookupHit(t)
    BY <2>3 DEF LookupHit
  <2>4. CASE LookupMiss(t)
    BY <2>4 DEF LookupMiss
  <2>5. CASE Chain(t)
    BY <2>5 DEF Chain
  <2>6. CASE Jump(t)
    BY <2>6 DEF Jump, Near
  <2>7. CASE Exit(t)
    BY <2>7 DEF Exit, Near
  <2>8. CASE Leave(t)
    BY <2>8 DEF Leave
  <2>9. CASE Mark(t)
    BY <2>9 DEF Mark
  <2>10. CASE MarkBump(t)
    BY <2>10 DEF MarkBump, Bump
  <2>11. CASE Read(t)
    BY <2>11 DEF Read
  <2>12. CASE Tail(t)
    BY <2>12 DEF Tail
  <2>13. CASE TailBump(t)
    BY <2>13 DEF TailBump, Bump, Discard
  <2>14. CASE Verify(t)
    BY <2>14 DEF Verify, Discard
  <2>15. CASE Insert(t)
    BY <2>15 DEF Insert
  <2>16. CASE StoreHit(t)
    BY <2>16 DEF StoreHit
  <2>17. CASE Land(t)
    BY <2>17 DEF Land
  <2>18. CASE StoreMiss(t)
    BY <2>18 DEF StoreMiss, Try, Invalidate, On
  <2>19. CASE MissAgain(t)
    BY <2>19 DEF MissAgain, Try, Invalidate, On
  <2>20. CASE MissClear(t)
    BY <2>20 DEF MissClear, Bump
  <2>21. CASE MissCow(t)
    BY <2>21 DEF MissCow, Bump, Invalidate, On
  <2>22. CASE MissStamp(t)
    BY <2>22 DEF MissStamp
  <2>23. CASE Fill(t)
    BY <2>23 DEF Fill, MayWrite
  <2>24. CASE Ivau(t)
    BY <2>24 DEF Ivau, Invalidate, On
  <2>25. CASE Remap(t)
    BY <2>25 DEF Remap, Bump, Invalidate, On
  <2>26. CASE Fork(t)
    BY <2>26 DEF Fork, Bump
  <2>27. CASE Clean(t)
    BY <2>27 DEF Clean, Swept
  <2> QED
    BY <2>1, <2>2, <2>3, <2>4, <2>5, <2>6, <2>7, <2>8, <2>9, <2>10, <2>11, <2>12, <2>13,
       <2>14, <2>15, <2>16, <2>17, <2>18, <2>19, <2>20, <2>21, <2>22, <2>23, <2>24,
       <2>25, <2>26, <2>27 DEF Act
<1> QED
  BY <1>1, <1>2

\* No thread has a page writable in its TLB that is marked as code, but for the
\* moment of the marking: P_CODE and mmu->changes together keep stores away.
THEOREM MarkedNotWritable == Spec => []NoWritableOnCode
<1>1. Spec => [](Typed /\ Guarded)
  BY TypedInit, TypedStep, GuardedInit, GuardedStep, PTL DEF Spec
<1> QED
  BY <1>1, PTL DEF Guarded

-----------------------------------------------------------------------------
(* The lock, and the block being made                                      *)

\* asbestos->lock is held by the thread that compiles.
LockExact == \A t \in Tasks : pc[t] \in Compiling <=> lock = t

\* A new block is in the hands of that thread, and of no other.
BlockShape ==
    /\ \A t \in Tasks : pc[t] \in Building => st[blk[t]] = "new" /\ addr[blk[t]] = ip[t]
    /\ \A b \in Blocks : st[b] = "new" => \E t \in Tasks : pc[t] \in Building /\ blk[t] = b
    /\ \A b \in Blocks : st[b] # "free" => addr[b] \in Addrs
    /\ \A t \in Tasks : pc[t] = "tail" => First[ip[t]] # Last[ip[t]]
    /\ \A t \in Tasks : pc[t] \notin Running \cup Building => blk[t] = None
Made == LockExact /\ BlockShape

LEMMA MadeInit == Init => Made
BY NoneAssumption DEF Init, Made, LockExact, BlockShape

\* Each step keeps the lock and the new block together.
LEMMA MadeStep == Typed /\ Made /\ [Next]_vars => Made'
<1> SUFFICES ASSUME Typed, Made, [Next]_vars PROVE Made'
  OBVIOUS
<1> USE PagesAssumption, WrittenAssumption, SuccAssumption, NoneAssumption
        DEF Typed, TypeOK, CallShape, Places, Made, LockExact, BlockShape, memory,
            blocks, caches, regs
<1>1. CASE UNCHANGED vars
  BY <1>1 DEF vars
<1>2. CASE Next
  <2> PICK t \in Tasks : Act(t)
    BY <1>2 DEF Next, Act
  <2>1. CASE Enter(t)
    BY <2>1 DEF Enter
  <2>2. CASE Loop(t)
    BY <2>2 DEF Loop
  <2>3. CASE LookupHit(t)
    BY <2>3 DEF LookupHit
  <2>4. CASE LookupMiss(t)
    BY <2>4 DEF LookupMiss
  <2>5. CASE Chain(t)
    BY <2>5 DEF Chain
  <2>6. CASE Jump(t)
    BY <2>6 DEF Jump, Near
  <2>7. CASE Exit(t)
    BY <2>7 DEF Exit, Near
  <2>8. CASE Leave(t)
    BY <2>8 DEF Leave
  <2>9. CASE Mark(t)
    BY <2>9 DEF Mark
  <2>10. CASE MarkBump(t)
    BY <2>10 DEF MarkBump, Bump
  <2>11. CASE Read(t)
    BY <2>11 DEF Read
  <2>12. CASE Tail(t)
    BY <2>12 DEF Tail
  <2>13. CASE TailBump(t)
    BY <2>13 DEF TailBump, Bump, Discard
  <2>14. CASE Verify(t)
    BY <2>14 DEF Verify, Discard
  <2>15. CASE Insert(t)
    BY <2>15 DEF Insert
  <2>16. CASE StoreHit(t)
    BY <2>16 DEF StoreHit
  <2>17. CASE Land(t)
    BY <2>17 DEF Land
  <2>18. CASE StoreMiss(t)
    BY <2>18 DEF StoreMiss, Try, Invalidate, On
  <2>19. CASE MissAgain(t)
    BY <2>19 DEF MissAgain, Try, Invalidate, On
  <2>20. CASE MissClear(t)
    BY <2>20 DEF MissClear, Bump
  <2>21. CASE MissCow(t)
    BY <2>21 DEF MissCow, Bump, Invalidate, On
  <2>22. CASE MissStamp(t)
    BY <2>22 DEF MissStamp
  <2>23. CASE Fill(t)
    BY <2>23 DEF Fill
  <2>24. CASE Ivau(t)
    BY <2>24 DEF Ivau, Invalidate, On
  <2>25. CASE Remap(t)
    BY <2>25 DEF Remap, Bump, Invalidate, On
  <2>26. CASE Fork(t)
    BY <2>26 DEF Fork, Bump
  <2>27. CASE Clean(t)
    BY <2>27 DEF Clean, Swept
  <2> QED
    BY <2>1, <2>2, <2>3, <2>4, <2>5, <2>6, <2>7, <2>8, <2>9, <2>10, <2>11, <2>12, <2>13,
       <2>14, <2>15, <2>16, <2>17, <2>18, <2>19, <2>20, <2>21, <2>22, <2>23, <2>24,
       <2>25, <2>26, <2>27 DEF Act
<1> QED
  BY <1>1, <1>2

-----------------------------------------------------------------------------
(* The verification                                                        *)

\* A store that changed the bytes of a block being made, behind the back of the
\* change counter, went to a page that was not marked; and whoever marks it now
\* throws the block away.
TornSeen == \A t \in Tasks :
    pc[t] \in {"tail", "verify"} /\ t \in steady /\ torn[blk[t]] = "yes" =>
        ~ (PagesOf(blk[t]) \subseteq code)

LEMMA TornInit == Init => TornSeen
BY DEF Init, TornSeen

\* Each step keeps the trace of a store to the bytes of the new block.
LEMMA TornStep == Typed /\ Made /\ Guarded /\ TornSeen /\ [Next]_vars => TornSeen'
<1> SUFFICES ASSUME Typed, Made, Guarded, TornSeen, [Next]_vars PROVE TornSeen'
  OBVIOUS
<1> USE PagesAssumption, WrittenAssumption, SuccAssumption, NoneAssumption
        DEF Typed, TypeOK, CallShape, Places, Made, LockExact, BlockShape, Guarded,
            NoWritableOnCode, Marking, TornSeen, PagesOf, memory, blocks, caches, regs
<1>1. CASE UNCHANGED vars
  BY <1>1 DEF vars
<1>2. CASE Next
  <2> PICK t \in Tasks : Act(t)
    BY <1>2 DEF Next, Act
  <2>1. CASE Enter(t)
    BY <2>1 DEF Enter
  <2>2. CASE Loop(t)
    BY <2>2 DEF Loop
  <2>3. CASE LookupHit(t)
    BY <2>3 DEF LookupHit
  <2>4. CASE LookupMiss(t)
    BY <2>4 DEF LookupMiss
  <2>5. CASE Chain(t)
    BY <2>5 DEF Chain
  <2>6. CASE Jump(t)
    BY <2>6 DEF Jump, Near
  <2>7. CASE Exit(t)
    BY <2>7 DEF Exit, Near
  <2>8. CASE Leave(t)
    BY <2>8 DEF Leave
  <2>9. CASE Mark(t)
    BY <2>9 DEF Mark
  <2>10. CASE MarkBump(t)
    BY <2>10 DEF MarkBump, Bump
  <2>11. CASE Read(t)
    BY <2>11 DEF Read
  <2>12. CASE Tail(t)
    BY <2>12 DEF Tail
  <2>13. CASE TailBump(t)
    BY <2>13 DEF TailBump, Bump, Discard
  <2>14. CASE Verify(t)
    BY <2>14 DEF Verify, Discard
  <2>15. CASE Insert(t)
    BY <2>15 DEF Insert
  <2>16. CASE StoreHit(t)
    BY <2>16 DEF StoreHit
  <2>17. CASE Land(t)
    BY <2>17 DEF Land
  <2>18. CASE StoreMiss(t)
    BY <2>18 DEF StoreMiss, Try, Invalidate, On
  <2>19. CASE MissAgain(t)
    BY <2>19 DEF MissAgain, Try, Invalidate, On
  <2>20. CASE MissClear(t)
    BY <2>20 DEF MissClear, Bump
  <2>21. CASE MissCow(t)
    BY <2>21 DEF MissCow, Bump, Invalidate, On
  <2>22. CASE MissStamp(t)
    BY <2>22 DEF MissStamp
  <2>23. CASE Fill(t)
    BY <2>23 DEF Fill
  <2>24. CASE Ivau(t)
    BY <2>24 DEF Ivau, Invalidate, On
  <2>25. CASE Remap(t)
    BY <2>25 DEF Remap, Bump, Invalidate, On
  <2>26. CASE Fork(t)
    BY <2>26 DEF Fork, Bump
  <2>27. CASE Clean(t)
    BY <2>27 DEF Clean, Swept
  <2> QED
    BY <2>1, <2>2, <2>3, <2>4, <2>5, <2>6, <2>7, <2>8, <2>9, <2>10, <2>11, <2>12, <2>13,
       <2>14, <2>15, <2>16, <2>17, <2>18, <2>19, <2>20, <2>21, <2>22, <2>23, <2>24,
       <2>25, <2>26, <2>27 DEF Act
<1> QED
  BY <1>1, <1>2

\* A block that passes the verification is whole: the marks on its pages and the
\* counter together show every store to them.
THEOREM VerifiedCorrect == Spec => []VerifiedWhole
<1>1. TornSeen => VerifiedWhole
  BY DEF TornSeen, VerifiedWhole, Verified
<1>2. Spec => [](Typed /\ Made /\ Guarded /\ TornSeen)
  BY TypedInit, TypedStep, MadeInit, MadeStep, GuardedInit, GuardedStep, TornInit, TornStep,
     PTL DEF Spec
<1> QED
  BY <1>1, <1>2, PTL

-----------------------------------------------------------------------------
(* Pointers to blocks                                                      *)

\* Only blocks that have been inserted, and not yet freed, have a patched jump
\* or are the target of one.
JumpsKept == \A b \in Blocks : jump[b] # None =>
    st[b] \in {"live", "jetsam"} /\ st[jump[b]] \in {"live", "jetsam"}
Chained == ChainsLive /\ JumpsKept

\* A thread whose generation is the latest has only live blocks.
Fresh == \A t \in current :
    /\ \A b \in cache[t] : st[b] = "live"
    /\ pc[t] \in Running => st[blk[t]] = "live"

\* The blocks a thread may come to have been inserted and not been freed; it
\* takes none along when it leaves translated code.
Kept == \A t \in Tasks :
    /\ Inside(t) /\ pc[t] # "loop" => \A b \in cache[t] : st[b] \in {"live", "jetsam"}
    /\ pc[t] \in Running => st[blk[t]] \in {"live", "jetsam"}
    /\ last[t] # None => Inside(t) /\ st[last[t]] \in {"live", "jetsam"}
Safe == Chained /\ Fresh /\ Kept

LEMMA SafeInit == Init => Safe
BY DEF Init, Safe, Chained, ChainsLive, JumpsKept, Fresh, Kept, Inside

\* Each step keeps the chains: invalidation undoes the jumps to a block with the
\* lock under which jumps are patched.
LEMMA ChainedStep == Typed /\ Made /\ Chained /\ [Next]_vars => Chained'
<1> SUFFICES ASSUME Typed, Made, Chained, [Next]_vars PROVE Chained'
  OBVIOUS
<1> USE PagesAssumption, WrittenAssumption, SuccAssumption, NoneAssumption
        DEF Typed, TypeOK, CallShape, Places, Made, LockExact, BlockShape, Chained,
            ChainsLive, JumpsKept, PagesOf, memory, blocks, caches, regs
<1>1. CASE UNCHANGED vars
  BY <1>1 DEF vars
<1>2. CASE Next
  <2> PICK t \in Tasks : Act(t)
    BY <1>2 DEF Next, Act
  <2>1. CASE Enter(t)
    BY <2>1 DEF Enter
  <2>2. CASE Loop(t)
    BY <2>2 DEF Loop
  <2>3. CASE LookupHit(t)
    BY <2>3 DEF LookupHit
  <2>4. CASE LookupMiss(t)
    BY <2>4 DEF LookupMiss
  <2>5. CASE Chain(t)
    BY <2>5 DEF Chain
  <2>6. CASE Jump(t)
    BY <2>6 DEF Jump, Near
  <2>7. CASE Exit(t)
    BY <2>7 DEF Exit, Near
  <2>8. CASE Leave(t)
    BY <2>8 DEF Leave
  <2>9. CASE Mark(t)
    BY <2>9 DEF Mark
  <2>10. CASE MarkBump(t)
    BY <2>10 DEF MarkBump, Bump
  <2>11. CASE Read(t)
    BY <2>11 DEF Read
  <2>12. CASE Tail(t)
    BY <2>12 DEF Tail
  <2>13. CASE TailBump(t)
    BY <2>13 DEF TailBump, Bump, Discard
  <2>14. CASE Verify(t)
    BY <2>14 DEF Verify, Discard
  <2>15. CASE Insert(t)
    BY <2>15 DEF Insert
  <2>16. CASE StoreHit(t)
    BY <2>16 DEF StoreHit
  <2>17. CASE Land(t)
    BY <2>17 DEF Land
  <2>18. CASE StoreMiss(t)
    BY <2>18 DEF StoreMiss, Try, Invalidate, On
  <2>19. CASE MissAgain(t)
    BY <2>19 DEF MissAgain, Try, Invalidate, On
  <2>20. CASE MissClear(t)
    BY <2>20 DEF MissClear, Bump
  <2>21. CASE MissCow(t)
    BY <2>21 DEF MissCow, Bump, Invalidate, On
  <2>22. CASE MissStamp(t)
    BY <2>22 DEF MissStamp
  <2>23. CASE Fill(t)
    BY <2>23 DEF Fill
  <2>24. CASE Ivau(t)
    BY <2>24 DEF Ivau, Invalidate, On
  <2>25. CASE Remap(t)
    BY <2>25 DEF Remap, Bump, Invalidate, On
  <2>26. CASE Fork(t)
    BY <2>26 DEF Fork, Bump
  <2>27. CASE Clean(t)
    BY <2>27 DEF Clean, Swept
  <2> QED
    BY <2>1, <2>2, <2>3, <2>4, <2>5, <2>6, <2>7, <2>8, <2>9, <2>10, <2>11, <2>12, <2>13,
       <2>14, <2>15, <2>16, <2>17, <2>18, <2>19, <2>20, <2>21, <2>22, <2>23, <2>24,
       <2>25, <2>26, <2>27 DEF Act
<1> QED
  BY <1>1, <1>2

\* Each step keeps the caches of the threads that are up to date.
LEMMA FreshStep == Typed /\ Made /\ Chained /\ Fresh /\ [Next]_vars => Fresh'
<1> SUFFICES ASSUME Typed, Made, Chained, Fresh, [Next]_vars PROVE Fresh'
  OBVIOUS
<1> USE PagesAssumption, WrittenAssumption, SuccAssumption, NoneAssumption
        DEF Typed, TypeOK, CallShape, Places, Made, LockExact, BlockShape, Chained,
            ChainsLive, JumpsKept, Fresh, memory, blocks, caches, regs
<1>1. CASE UNCHANGED vars
  BY <1>1 DEF vars
<1>2. CASE Next
  <2> PICK t \in Tasks : Act(t)
    BY <1>2 DEF Next, Act
  <2>1. CASE Enter(t)
    BY <2>1 DEF Enter
  <2>2. CASE Loop(t)
    BY <2>2 DEF Loop
  <2>3. CASE LookupHit(t)
    BY <2>3 DEF LookupHit
  <2>4. CASE LookupMiss(t)
    BY <2>4 DEF LookupMiss
  <2>5. CASE Chain(t)
    BY <2>5 DEF Chain
  <2>6. CASE Jump(t)
    BY <2>6 DEF Jump, Near
  <2>7. CASE Exit(t)
    BY <2>7 DEF Exit, Near
  <2>8. CASE Leave(t)
    BY <2>8 DEF Leave
  <2>9. CASE Mark(t)
    BY <2>9 DEF Mark
  <2>10. CASE MarkBump(t)
    BY <2>10 DEF MarkBump, Bump
  <2>11. CASE Read(t)
    BY <2>11 DEF Read
  <2>12. CASE Tail(t)
    BY <2>12 DEF Tail
  <2>13. CASE TailBump(t)
    BY <2>13 DEF TailBump, Bump, Discard
  <2>14. CASE Verify(t)
    BY <2>14 DEF Verify, Discard
  <2>15. CASE Insert(t)
    BY <2>15 DEF Insert
  <2>16. CASE StoreHit(t)
    BY <2>16 DEF StoreHit
  <2>17. CASE Land(t)
    BY <2>17 DEF Land
  <2>18. CASE StoreMiss(t)
    BY <2>18 DEF StoreMiss, Try, Invalidate, On
  <2>19. CASE MissAgain(t)
    BY <2>19 DEF MissAgain, Try, Invalidate, On
  <2>20. CASE MissClear(t)
    BY <2>20 DEF MissClear, Bump
  <2>21. CASE MissCow(t)
    BY <2>21 DEF MissCow, Bump, Invalidate, On
  <2>22. CASE MissStamp(t)
    BY <2>22 DEF MissStamp
  <2>23. CASE Fill(t)
    BY <2>23 DEF Fill
  <2>24. CASE Ivau(t)
    BY <2>24 DEF Ivau, Invalidate, On
  <2>25. CASE Remap(t)
    BY <2>25 DEF Remap, Bump, Invalidate, On
  <2>26. CASE Fork(t)
    BY <2>26 DEF Fork, Bump
  <2>27. CASE Clean(t)
    BY <2>27 DEF Clean, Swept
  <2> QED
    BY <2>1, <2>2, <2>3, <2>4, <2>5, <2>6, <2>7, <2>8, <2>9, <2>10, <2>11, <2>12, <2>13,
       <2>14, <2>15, <2>16, <2>17, <2>18, <2>19, <2>20, <2>21, <2>22, <2>23, <2>24,
       <2>25, <2>26, <2>27 DEF Act
<1> QED
  BY <1>1, <1>2

\* Each step keeps the blocks somebody may come to: only a thread that is alone
\* frees, and it is on its way out.
LEMMA KeptStep == Typed /\ Made /\ Safe /\ [Next]_vars => Kept'
<1> SUFFICES ASSUME Typed, Made, Safe, [Next]_vars PROVE Kept'
  OBVIOUS
<1> USE PagesAssumption, WrittenAssumption, SuccAssumption, NoneAssumption
        DEF Typed, TypeOK, CallShape, Places, Made, LockExact, BlockShape, Safe,
            Chained, ChainsLive, JumpsKept, Fresh, Kept, Inside, Alone, memory, blocks,
            caches, regs
<1>1. CASE UNCHANGED vars
  BY <1>1 DEF vars
<1>2. CASE Next
  <2> PICK t \in Tasks : Act(t)
    BY <1>2 DEF Next, Act
  <2>1. CASE Enter(t)
    BY <2>1 DEF Enter
  <2>2. CASE Loop(t)
    BY <2>2 DEF Loop
  <2>3. CASE LookupHit(t)
    BY <2>3 DEF LookupHit
  <2>4. CASE LookupMiss(t)
    BY <2>4 DEF LookupMiss
  <2>5. CASE Chain(t)
    BY <2>5 DEF Chain
  <2>6. CASE Jump(t)
    BY <2>6 DEF Jump, Near
  <2>7. CASE Exit(t)
    BY <2>7 DEF Exit, Near
  <2>8. CASE Leave(t)
    BY <2>8 DEF Leave
  <2>9. CASE Mark(t)
    BY <2>9 DEF Mark
  <2>10. CASE MarkBump(t)
    BY <2>10 DEF MarkBump, Bump
  <2>11. CASE Read(t)
    BY <2>11 DEF Read
  <2>12. CASE Tail(t)
    BY <2>12 DEF Tail
  <2>13. CASE TailBump(t)
    BY <2>13 DEF TailBump, Bump, Discard
  <2>14. CASE Verify(t)
    BY <2>14 DEF Verify, Discard
  <2>15. CASE Insert(t)
    BY <2>15 DEF Insert
  <2>16. CASE StoreHit(t)
    BY <2>16 DEF StoreHit
  <2>17. CASE Land(t)
    BY <2>17 DEF Land
  <2>18. CASE StoreMiss(t)
    BY <2>18 DEF StoreMiss, Try, Invalidate, On
  <2>19. CASE MissAgain(t)
    BY <2>19 DEF MissAgain, Try, Invalidate, On
  <2>20. CASE MissClear(t)
    BY <2>20 DEF MissClear, Bump
  <2>21. CASE MissCow(t)
    BY <2>21 DEF MissCow, Bump, Invalidate, On
  <2>22. CASE MissStamp(t)
    BY <2>22 DEF MissStamp
  <2>23. CASE Fill(t)
    BY <2>23 DEF Fill
  <2>24. CASE Ivau(t)
    BY <2>24 DEF Ivau, Invalidate, On
  <2>25. CASE Remap(t)
    BY <2>25 DEF Remap, Bump, Invalidate, On
  <2>26. CASE Fork(t)
    BY <2>26 DEF Fork, Bump
  <2>27. CASE Clean(t)
    BY <2>27 DEF Clean, Swept
  <2> QED
    BY <2>1, <2>2, <2>3, <2>4, <2>5, <2>6, <2>7, <2>8, <2>9, <2>10, <2>11, <2>12, <2>13,
       <2>14, <2>15, <2>16, <2>17, <2>18, <2>19, <2>20, <2>21, <2>22, <2>23, <2>24,
       <2>25, <2>26, <2>27 DEF Act
<1> QED
  BY <1>1, <1>2

\* A patched jump of a live block leads to a live block at the right address.
THEOREM ChainsCorrect == Spec => []ChainsLive
<1>1. Init => Chained
  BY SafeInit DEF Safe
<1>2. Spec => [](Typed /\ Made /\ Chained)
  BY <1>1, TypedInit, TypedStep, MadeInit, MadeStep, ChainedStep, PTL DEF Spec
<1> QED
  BY <1>2, PTL DEF Chained

\* No thread comes to a block that was freed.
THEOREM FreedNotRun == Spec => []NoFreedRun
<1>1. Typed /\ Made /\ Safe => NoFreedRun
    BY NoneAssumption DEF Typed, TypeOK, CallShape, Places, Made, BlockShape, Safe,
       Chained,
     JumpsKept, Fresh, Kept, NoFreedRun, InReach, Inside
<1>2. Typed /\ Made /\ Safe /\ [Next]_vars => Safe'
  BY ChainedStep, FreshStep, KeptStep DEF Safe
<1>3. Spec => [](Typed /\ Made /\ Safe)
  BY <1>2, TypedInit, TypedStep, MadeInit, MadeStep, SafeInit, PTL DEF Spec
<1> QED
  BY <1>1, <1>3, PTL
=============================================================================
