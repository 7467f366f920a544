----------------------------- MODULE FilesProofs -----------------------------
(***************************************************************************)
(* Theorems about Files, for any tasks, tables, descriptions and bounds;   *)
(* and, in the second half, theorems about FileLock for any owners,        *)
(* requests and end of the file.                                           *)
(*                                                                         *)
(* Calls that work on a shared table without its lock may leave its slots, *)
(* its size and its bits in any state.  What holds all the same is that    *)
(* nothing is open past the end of a table or in one without a user, that  *)
(* a call keeps a description that was created, and that a description     *)
(* whose count is wrong by now was in one of the slots such a store wrote. *)
(*                                                                         *)
(* The list of locks is sound when its locks are proper, those of an owner *)
(* stand together (Grouped), and no two of them overlap or, being of one   *)
(* type, touch (AllApart).  That this is kept, and that the list is the    *)
(* map of FileLockContract, comes from an invariant of the walk over the   *)
(* owner's run (Fine): whatever has been passed is still there in parts,   *)
(* apart from the request as it has grown, or is covered by it, and the    *)
(* request has grown only by the owner's bytes of its type.                *)
(***************************************************************************)
EXTENDS Files, FileLock, FiniteSetTheorems, SequenceTheorems, WellFoundedInduction, TLAPS

\* Where a call has a description in its local variables.
Working == {"dup", "setlk", "dup3", "dup3_close", "dup3_put", "find", "put"}

Copies == [slots : [Slots -> Descs \cup {NoDesc}], cloexec : SUBSET Slots, size : 0 .. Limit]

-----------------------------------------------------------------------------
(* The inductive invariant                                                 *)

\* The types, without the sign of the counts; what a slot or a call leads to
\* was created.
Typed ==
    /\ table \in [Tasks -> Tables \cup {NoTable}]
    /\ users \in [Tables -> Int]
    /\ size \in [Tables -> 0 .. Limit]
    /\ slots \in [Tables -> [Slots -> born \cup {NoDesc}]]
    /\ cloexec \in [Tables -> SUBSET Slots]
    /\ grown \in [Tasks -> Copies]
    /\ born \subseteq Descs
    /\ ref \in [Descs -> Int]
    /\ refs \in [Tasks -> SUBSET born]
    /\ call \in [Tasks -> Calls]
    /\ owners \in [Files -> SUBSET Tables]
    /\ late \subseteq Files \X Tables
    /\ raced \subseteq born
    /\ stray \subseteq Tables \X Slots

\* What a call keeps in its local variables: a description that was created, and
\* while its table grows a copy of the slots that fits the new size.
Tidy(t) ==
    /\ call[t].at \in Working => call[t].fd \in born
    /\ call[t].at = "setlk" => File[call[t].fd] \in Files
    /\ grown[t].size > 0 =>
            /\ call[t].at \in {"dup3_close", "put"}
            /\ table[t] \in Tables
            /\ \A f \in Slots : grown[t].slots[f] # NoDesc =>
                    grown[t].slots[f] \in born /\ f < grown[t].size

\* What is open lies within a table that has a user.
Within == \A T \in Tables, f \in Slots :
    slots[T][f] # NoDesc => f < size[T] /\ \E t \in Tasks : table[t] = T

\* table->refcount is the number of the table's users.
UsersExact == \A T \in Tables : users[T] = Cardinality({t \in Tasks : table[t] = T})

TablesSound == Typed /\ Within /\ UsersExact /\ \A t \in Tasks : Tidy(t)

\* The three kinds of reference to a description.
SlotsOf(d) == {x \in Tables \X Slots : slots[x[1]][x[2]] = d}
CallsOf(d) == {t \in Tasks : d \in refs[t]}
HandsOf(d) == {t \in Tasks : call[t].fd = d /\ call[t].at \in {"dup3_put", "put"}}
Counted(d) == ref[d] = Cardinality(SlotsOf(d)) + Cardinality(CallsOf(d)) + Cardinality(HandsOf(d))

-----------------------------------------------------------------------------
(* Sets and their sizes                                                    *)

\* A set of numbers that is not empty has a least one.
LEMMA Least ==
    ASSUME NEW n \in Nat, NEW S \in SUBSET (0 .. n), S # {}
    PROVE  \E x \in S : \A y \in S : x <= y
<1> DEFINE R == StrictSubsetOrdering(0 .. n)
           below == {0 .. x : x \in S}
<1>1. IsWellFoundedOn(R, FiniteSubsetsOf(0 .. n))
  BY FS_StrictSubsetOrderingWellFounded
<1>2. FiniteSubsetsOf(0 .. n) = SUBSET (0 .. n)
  <2>1. IsFiniteSet(0 .. n)
    BY FS_Interval
  <2> QED BY <2>1, FS_FiniteSubsetsOfFinite
<1>3. below # {} /\ below \subseteq FiniteSubsetsOf(0 .. n)
  <2>1. \A x \in S : 0 .. x \in SUBSET (0 .. n)
    OBVIOUS
  <2>2. below \subseteq SUBSET (0 .. n)
    BY <2>1
  <2>3. below # {}
    OBVIOUS
  <2> QED BY <1>2, <2>2, <2>3
<1>4. ASSUME NEW x \in S, NEW y \in S, y < x PROVE <<0 .. y, 0 .. x>> \in R
  <2>1. 0 .. y \subseteq 0 .. x /\ 0 .. x \subseteq 0 .. n
    BY <1>4
  <2>2. x \in 0 .. x /\ x \notin 0 .. y
    BY <1>4
  <2> QED BY <2>1, <2>2 DEF StrictSubsetOrdering
<1> HIDE DEF R
<1>5. PICK B \in below : \A A \in below : ~ (<<A, B>> \in R)
  BY <1>1, <1>3, WFMin
<1>6. PICK x \in S : B = 0 .. x
  BY <1>5
<1>7. ASSUME NEW y \in S PROVE x <= y
  <2>1. 0 .. y \in below
    OBVIOUS
  <2>2. ~ (y < x)
    BY <1>4, <1>5, <1>6, <2>1
  <2> QED BY <2>2
<1> QED BY <1>7

LEMMA OneMore ==
    ASSUME NEW S, NEW x, IsFiniteSet(S)
    PROVE  /\ x \in S => Cardinality(S \cup {x}) = Cardinality(S)
           /\ x \notin S => Cardinality(S \cup {x}) = Cardinality(S) + 1
<1>1. CASE x \in S
  <2>1. S \cup {x} = S
    BY <1>1
  <2> QED BY <1>1, <2>1
<1>2. CASE x \notin S
  BY <1>2, FS_AddElement
<1> QED BY <1>1, <1>2

LEMMA OneLess ==
    ASSUME NEW S, NEW x, IsFiniteSet(S)
    PROVE  /\ x \in S => Cardinality(S \ {x}) = Cardinality(S) - 1
           /\ x \notin S => Cardinality(S \ {x}) = Cardinality(S)
<1>1. CASE x \notin S
  <2>1. S \ {x} = S
    BY <1>1
  <2> QED BY <1>1, <2>1
<1>2. CASE x \in S
  BY <1>2, FS_RemoveElement
<1> QED BY <1>1, <1>2

LEMMA DisjointCount ==
    ASSUME NEW S, NEW R, IsFiniteSet(S), IsFiniteSet(R), S \cap R = {}
    PROVE  Cardinality(S \cup R) = Cardinality(S) + Cardinality(R)
<1>1. Cardinality(S) \in Nat /\ Cardinality(R) \in Nat /\ Cardinality({}) = 0
  BY FS_CardinalityType, FS_EmptySet
<1>2. Cardinality(S \cup R) = Cardinality(S) + Cardinality(R) - Cardinality(S \cap R)
  BY FS_Union
<1>3. Cardinality(S \cap R) = 0
  BY <1>1
<1> QED BY <1>1, <1>2, <1>3

LEMMA SlotsFinite == IsFiniteSet(Slots) /\ IsFiniteSet(Tables \X Slots) /\ 0 \in Slots
<1>1. IsFiniteSet(Slots) /\ 0 \in Slots
  BY LimitAssumption, FS_Interval DEF Slots
<1> QED BY <1>1, FiniteAssumption, FS_Product

\* The slots of one table, counted alone or as pairs.
LEMMA RowSize ==
    ASSUME NEW T \in Tables, NEW F \in SUBSET Slots
    PROVE  IsFiniteSet({T} \X F) /\ Cardinality({T} \X F) = Cardinality(F) /\ IsFiniteSet(F)
           /\ Cardinality(F) \in Nat
<1>1. IsFiniteSet(F) /\ Cardinality(F) \in Nat
  BY SlotsFinite, FS_Subset, FS_CardinalityType
<1>2. IsFiniteSet({T}) /\ Cardinality({T}) = 1
  BY FS_Singleton
<1>3. IsFiniteSet({T} \X F) /\ Cardinality({T} \X F) = Cardinality({T}) * Cardinality(F)
  BY <1>1, <1>2, FS_Product
<1> QED BY <1>1, <1>2, <1>3

LEMMA CountsTyped ==
    ASSUME NEW d
    PROVE  /\ IsFiniteSet(SlotsOf(d)) /\ Cardinality(SlotsOf(d)) \in Nat
           /\ IsFiniteSet(CallsOf(d)) /\ Cardinality(CallsOf(d)) \in Nat
           /\ IsFiniteSet(HandsOf(d)) /\ Cardinality(HandsOf(d)) \in Nat
<1>1. SlotsOf(d) \in SUBSET (Tables \X Slots) /\ CallsOf(d) \in SUBSET Tasks
      /\ HandsOf(d) \in SUBSET Tasks
  BY DEF SlotsOf, CallsOf, HandsOf
<1> QED BY <1>1, SlotsFinite, FiniteAssumption, FS_Subset, FS_CardinalityType

LEMMA CountsTypedNext ==
    ASSUME NEW d
    PROVE  /\ IsFiniteSet(SlotsOf(d)') /\ Cardinality(SlotsOf(d)') \in Nat
           /\ IsFiniteSet(CallsOf(d)') /\ Cardinality(CallsOf(d)') \in Nat
           /\ IsFiniteSet(HandsOf(d)') /\ Cardinality(HandsOf(d)') \in Nat
<1>1. SlotsOf(d)' \in SUBSET (Tables \X Slots) /\ CallsOf(d)' \in SUBSET Tasks
      /\ HandsOf(d)' \in SUBSET Tasks
  BY DEF SlotsOf, CallsOf, HandsOf
<1> QED BY <1>1, SlotsFinite, FiniteAssumption, FS_Subset, FS_CardinalityType

-----------------------------------------------------------------------------
(* What the operators do                                                   *)

\* Closing a set of slots takes exactly the references of the slots that were
\* open.
LEMMA CloseCount ==
    ASSUME Typed, NEW T \in Tables, NEW S \in SUBSET Slots, NEW ref0 \in [Descs -> Int],
           CloseSlots(T, S, ref0), NEW d \in Descs
    PROVE  /\ ref'[d] = ref0[d] + Cardinality(SlotsOf(d)') - Cardinality(SlotsOf(d))
           /\ ref'[d] \in Int
<1>0. slots' = [slots EXCEPT ![T] = [f \in Slots |-> IF f \in S THEN NoDesc ELSE slots[T][f]]]
  BY DEF CloseSlots, Typed
<1> DEFINE F == {f \in S : slots[T][f] = d}
<1>1. F \in SUBSET Slots
  OBVIOUS
<1>2. IsFiniteSet({T} \X F) /\ Cardinality({T} \X F) = Cardinality(F) /\ Cardinality(F) \in Nat
  BY <1>1, RowSize
<1>3. SlotsOf(d)' = SlotsOf(d) \ ({T} \X F)
  <2>1. ASSUME NEW U \in Tables, NEW f \in Slots
        PROVE  slots'[U][f] = d <=> slots[U][f] = d /\ ~ (U = T /\ f \in F)
    BY <1>0, NoneAssumption DEF Typed
  <2> HIDE DEF F
  <2> QED BY <2>1 DEF SlotsOf
<1>4. SlotsOf(d) \cap ({T} \X F) = {T} \X F
  BY DEF SlotsOf
<1>5. Cardinality(SlotsOf(d)') = Cardinality(SlotsOf(d)) - Cardinality(F)
  <2>1. IsFiniteSet(SlotsOf(d))
    BY CountsTyped
  <2>2. Cardinality(SlotsOf(d) \ ({T} \X F)) =
        Cardinality(SlotsOf(d)) - Cardinality(SlotsOf(d) \cap ({T} \X F))
    BY <2>1, FS_Difference
  <2> QED BY <1>2, <1>3, <1>4, <2>2
<1>6. ref'[d] = ref0[d] - Cardinality(F)
  BY DEF CloseSlots
<1> QED BY <1>2, <1>5, <1>6, CountsTyped, CountsTypedNext

LEMMA CloseEffect ==
    ASSUME Typed, NEW T \in Tables, NEW S \in SUBSET Slots, NEW ref0 \in [Descs -> Int],
           CloseSlots(T, S, ref0)
    PROVE  /\ slots' \in [Tables -> [Slots -> born \cup {NoDesc}]]
           /\ \A f \in Slots : slots'[T][f] = IF f \in S THEN NoDesc ELSE slots[T][f]
           /\ cloexec' \in [Tables -> SUBSET Slots] /\ cloexec'[T] = cloexec[T] \ S
           /\ \A U \in Tables : U # T => slots'[U] = slots[U] /\ cloexec'[U] = cloexec[U]
           /\ ref' \in [Descs -> Int]
           /\ owners' \in [Files -> SUBSET Tables]
           /\ late' \subseteq Files \X Tables
           /\ stray' = stray \ ({T} \X S) /\ stray' \subseteq Tables \X Slots
<1> DEFINE row == [f \in Slots |-> IF f \in S THEN NoDesc ELSE slots[T][f]]
<1>1. slots' = [slots EXCEPT ![T] = row]
  BY DEF CloseSlots, Typed
<1>2. row \in [Slots -> born \cup {NoDesc}]
      /\ \A f \in Slots : row[f] = IF f \in S THEN NoDesc ELSE slots[T][f]
  BY DEF Typed
<1> HIDE DEF row
<1>3. /\ slots' \in [Tables -> [Slots -> born \cup {NoDesc}]]
      /\ \A f \in Slots : slots'[T][f] = IF f \in S THEN NoDesc ELSE slots[T][f]
      /\ \A U \in Tables : U # T => slots'[U] = slots[U]
  BY <1>1, <1>2 DEF Typed
<1>4. /\ cloexec' \in [Tables -> SUBSET Slots] /\ cloexec'[T] = cloexec[T] \ S
      /\ \A U \in Tables : U # T => cloexec'[U] = cloexec[U]
  BY DEF CloseSlots, Typed
<1>5. owners' \in [Files -> SUBSET Tables] /\ late' \subseteq Files \X Tables
  BY DEF CloseSlots, Typed
<1>6. stray' = stray \ ({T} \X S) /\ stray' \subseteq Tables \X Slots
  BY DEF CloseSlots, Typed
<1>7. \A d \in Descs : ref'[d] \in Int
  BY CloseCount
<1>8. ref' \in [Descs -> Int]
  BY <1>7 DEF CloseSlots
<1> QED BY <1>3, <1>4, <1>5, <1>6, <1>8

\* What a description stored in a slot does to the counts, when that slot had
\* another description or none.
LEMMA PutCount ==
    ASSUME Typed, NEW T \in Tables, NEW f \in Slots, NEW d \in Descs,
           slots' = [slots EXCEPT ![T][f] = d], NEW e \in Descs, slots[T][f] # e
    PROVE  Cardinality(SlotsOf(e)') = Cardinality(SlotsOf(e)) + (IF e = d THEN 1 ELSE 0)
<1>1. \A U \in Tables, g \in Slots : slots'[U][g] = IF U = T /\ g = f THEN d ELSE slots[U][g]
  BY DEF Typed
<1>2. IsFiniteSet(SlotsOf(e)) /\ Cardinality(SlotsOf(e)) \in Nat
  BY CountsTyped
<1>3. CASE e = d
  <2>1. SlotsOf(e)' = SlotsOf(e) \cup {<<T, f>>} /\ <<T, f>> \notin SlotsOf(e)
    BY <1>1, <1>3 DEF SlotsOf
  <2> QED BY <1>2, <1>3, <2>1, FS_AddElement
<1>4. CASE e # d
  <2>1. SlotsOf(e)' = SlotsOf(e)
    BY <1>1, <1>4 DEF SlotsOf
  <2> QED BY <1>2, <1>4, <2>1
<1> QED BY <1>3, <1>4

\* The slot f_install_start chooses is free.
LEMMA FreeSlot ==
    ASSUME Typed, Within, NEW T \in Tables, NEW s \in Slots, Candidates(T, s) # {}
    PROVE  FirstFree(T, s) \in Slots /\ slots[T][FirstFree(T, s)] = NoDesc
<1>1. Candidates(T, s) \in SUBSET (0 .. Limit) /\ Candidates(T, s) \subseteq Slots
  BY LimitAssumption DEF Candidates, Slots
<1>2. \E f \in Candidates(T, s) : \A g \in Candidates(T, s) : f <= g
  BY <1>1, Least, LimitAssumption
<1>3. FirstFree(T, s) \in Candidates(T, s)
  BY <1>2 DEF FirstFree
<1>4. FirstFree(T, s) \in Slots
  BY <1>1, <1>3
<1>5. FirstFree(T, s) >= size[T] \/ slots[T][FirstFree(T, s)] = NoDesc
  BY <1>3 DEF Candidates
<1>6. FirstFree(T, s) \in Int /\ size[T] \in Int
  BY <1>4, LimitAssumption DEF Slots, Typed
<1> QED BY <1>4, <1>5, <1>6 DEF Within

\* Either the table is full and the reference is dropped, or a free slot has it.
LEMMA InstallEffect ==
    ASSUME Typed, Within, NEW T \in Tables, NEW d \in Descs, NEW bit \in BOOLEAN,
           NEW ref0 \in [Descs -> Int], Install(T, d, bit, ref0)
    PROVE  /\ ref' \in [Descs -> Int]
           /\ \A e \in Descs : ref'[e] = ref0[e] + Cardinality(SlotsOf(e)')
                             - Cardinality(SlotsOf(e)) - (IF e = d THEN 1 ELSE 0)
           /\ \/ UNCHANGED <<slots, size, cloexec>>
              \/ \E f \in Slots :
                    /\ slots[T][f] = NoDesc
                    /\ slots' = [slots EXCEPT ![T][f] = d]
                    /\ size' = [size EXCEPT ![T] = IF @ > f THEN @ ELSE f + 1]
                    /\ cloexec' = [cloexec EXCEPT ![T] = IF bit THEN @ \cup {f} ELSE @ \ {f}]
<1>1. CASE Candidates(T, 0) = {}
  <2>1. ref' = [ref0 EXCEPT ![d] = @ - 1] /\ UNCHANGED <<slots, size, cloexec>>
    BY <1>1 DEF Install
  <2>2. \A e \in Descs : SlotsOf(e)' = SlotsOf(e)
    BY <2>1 DEF SlotsOf
  <2> QED BY <2>1, <2>2, CountsTyped
<1>2. CASE Candidates(T, 0) # {}
  <2> DEFINE f == FirstFree(T, 0)
  <2>1. f \in Slots /\ slots[T][f] = NoDesc
    BY <1>2, FreeSlot, SlotsFinite
  <2>2. /\ slots' = [slots EXCEPT ![T][f] = d]
        /\ size' = [size EXCEPT ![T] = IF @ > f THEN @ ELSE f + 1]
        /\ cloexec' = [cloexec EXCEPT ![T] = IF bit THEN @ \cup {f} ELSE @ \ {f}]
        /\ ref' = ref0
    BY <1>2 DEF Install
  <2> HIDE DEF f
  <2>3. \A e \in Descs : Cardinality(SlotsOf(e)') =
                Cardinality(SlotsOf(e)) + (IF e = d THEN 1 ELSE 0)
    <3>1. \A e \in Descs : slots[T][f] # e
      BY <2>1, NoneAssumption
    <3> QED BY <2>1, <2>2, <3>1, PutCount
  <2>4. \A e \in Descs : ref'[e] = ref0[e] + Cardinality(SlotsOf(e)')
                             - Cardinality(SlotsOf(e)) - (IF e = d THEN 1 ELSE 0)
    BY <2>2, <2>3, CountsTyped
  <2> QED BY <2>1, <2>2, <2>4
<1> QED BY <1>1, <1>2

-----------------------------------------------------------------------------
(* The tables                                                              *)

\* A step leaves a call alone whose local variables and table it keeps.
LEMMA KeptTidy ==
    ASSUME NEW u \in Tasks, Tidy(u), call'[u] = call[u], grown'[u] = grown[u],
           table[u] \in Tables => table'[u] = table[u], born \subseteq born'
    PROVE  Tidy(u)'
BY DEF Tidy

LEMMA OthersTidy ==
    ASSUME \A u \in Tasks : Tidy(u), NEW t \in Tasks,
           \A u \in Tasks \ {t} : call'[u] = call[u] /\ grown'[u] = grown[u]
                               /\ (table[u] \in Tables => table'[u] = table[u]),
           born \subseteq born'
    PROVE  \A u \in Tasks \ {t} : Tidy(u)'
BY KeptTidy

\* A step of t after which it is in none of the places Tidy says more about.
LEMMA QuietTidy ==
    ASSUME NEW t \in Tasks, grown'[t] = grown[t], Tidy(t), call[t].at \notin {"dup3_close", "put"},
           call'[t].at \notin Working
    PROVE  Tidy(t)'
BY DEF Tidy, Working

LEMMA Locals ==
    ASSUME Typed, NEW t \in Tasks
    PROVE  /\ call[t].at \in Places /\ call[t].to \in Slots /\ call[t].bit \in BOOLEAN
           /\ call[t].fd \in Descs \cup {NoDesc}
           /\ grown[t].size \in 0 .. Limit /\ grown[t].size \in Int
           /\ grown[t].slots \in [Slots -> Descs \cup {NoDesc}] /\ grown[t].cloexec \subseteq Slots
           /\ table[t] \in Tables \cup {NoTable}
<1>1. call[t] \in Calls /\ grown[t] \in Copies /\ table[t] \in Tables \cup {NoTable}
  BY DEF Typed
<1> QED BY <1>1, LimitAssumption DEF Calls, Copies

\* Looking a descriptor up changes nothing of the tables.
LEMMA GetTidy ==
    ASSUME TablesSound, NEW t \in Tasks, NEW f \in Slots, NEW where \in Places \ {"dup3_close",
           "dup3_put", "put"}, NEW to \in Slots, NEW bit \in BOOLEAN,
           At(t, "idle") \/ At(t, "use"), Get(t, f, where, to, bit),
           where = "setlk" => File[slots[table[t]][f]] \in Files
    PROVE  TablesSound' /\ call'[t].at = where
<1> DEFINE d == slots[table[t]][f]
           held == IF where \in {"use", "setfd"} THEN NoDesc ELSE d
<1>1. table[t] \in Tables /\ call[t].at \in {"idle", "use"}
  BY DEF At, TablesSound, Typed
<1>2. d # NoDesc /\ d \in born
  BY <1>1 DEF Get, TablesSound, Typed
<1>3. /\ call' = [call EXCEPT ![t] = [at |-> where, fd |-> held, to |-> to, bit |-> bit]]
      /\ UNCHANGED <<table, users, size, slots, cloexec, grown, born, owners, late, raced, stray>>
  BY DEF Get
<1>4. refs' \in [Tasks -> SUBSET born] /\ ref' \in [Descs -> Int]
  BY <1>2 DEF Get, Hold, TablesSound, Typed
<1>5. held \in Descs \cup {NoDesc} /\ (where \in Working => held = d)
  BY <1>2 DEF TablesSound, Typed, Working
<1> HIDE DEF d, held
<1>6. call' \in [Tasks -> Calls] /\ call'[t].at = where /\ call'[t].fd = held
      /\ \A u \in Tasks \ {t} : call'[u] = call[u]
  BY <1>3, <1>5 DEF TablesSound, Typed, Calls
<1>7. Typed'
  BY <1>3, <1>4, <1>6 DEF TablesSound, Typed
<1>8. Within' /\ UsersExact'
  BY <1>3 DEF TablesSound, Within, UsersExact
<1>9. Tidy(t)'
  <2>1. ~ (grown[t].size > 0)
    BY <1>1 DEF TablesSound, Tidy
  <2>2. "setlk" \in Working
    BY DEF Working
  <2> QED BY <1>1, <1>2, <1>3, <1>5, <1>6, <2>1, <2>2 DEF Tidy, d
<1>10. \A u \in Tasks \ {t} : Tidy(u)'
  BY <1>3, <1>6, OthersTidy DEF TablesSound
<1> QED BY <1>6, <1>7, <1>8, <1>9, <1>10 DEF TablesSound

LEMMA DoneEffect ==
    ASSUME Typed, NEW t \in Tasks, NEW where \in Places, Done(t, where)
    PROVE  /\ call' \in [Tasks -> Calls] /\ call'[t].at = where /\ call'[t].fd = NoDesc
           /\ \A u \in Tasks \ {t} : call'[u] = call[u]
BY SlotsFinite DEF Typed, Done, Calls, Idle

LEMMA GotoEffect ==
    ASSUME Typed, NEW t \in Tasks, NEW where \in Places, Goto(t, where)
    PROVE  /\ call' \in [Tasks -> Calls] /\ call'[t].at = where /\ call'[t].fd = call[t].fd
           /\ call'[t].to = call[t].to
           /\ \A u \in Tasks \ {t} : call'[u] = call[u]
BY DEF Typed, Goto, Calls

LEMMA SetBitEffect ==
    ASSUME Typed, NEW t \in Tasks, SetBit(t)
    PROVE  /\ call' \in [Tasks -> Calls] /\ call'[t].at = "setfd"
           /\ \A u \in Tasks \ {t} : call'[u] = call[u]
<1> DEFINE c == [call[t] EXCEPT !.at = "setfd", !.fd = NoDesc]
<1>1. call' = [call EXCEPT ![t] = c] /\ call \in [Tasks -> Calls]
  BY DEF SetBit, Typed
<1>2. c \in Calls /\ c.at = "setfd"
  BY <1>1 DEF Calls, Places
<1> HIDE DEF c
<1> QED BY <1>1, <1>2

\* A step that changes nothing but what a call holds, and is no longer at work.
LEMMA EndTidy ==
    ASSUME TablesSound, NEW t \in Tasks, call' \in [Tasks -> Calls], call'[t].at \notin Working,
           \A u \in Tasks \ {t} : call'[u] = call[u], call[t].at \notin {"dup3_close", "put"},
           UNCHANGED <<table, users, size, slots, grown, born, raced>>,
           cloexec' \in [Tables -> SUBSET Slots], stray' \subseteq Tables \X Slots,
           ref' \in [Descs -> Int], refs' \in [Tasks -> SUBSET born],
           owners' \in [Files -> SUBSET Tables], late' \subseteq Files \X Tables
    PROVE  TablesSound'
<1>1. Typed'
  BY DEF TablesSound, Typed
<1>2. Within' /\ UsersExact'
  BY DEF TablesSound, Within, UsersExact
<1>3. Tidy(t)'
  BY QuietTidy DEF TablesSound
<1>4. \A u \in Tasks \ {t} : Tidy(u)'
  BY OthersTidy DEF TablesSound
<1> QED BY <1>1, <1>2, <1>3, <1>4 DEF TablesSound

LEMMA FinishSound ==
    ASSUME TablesSound, NEW t \in Tasks, Finish(t)
    PROVE  TablesSound'
<1>1. PICK where \in {"return", "exit"} : Done(t, where)
  BY DEF Finish
<1>2. call[t].at = "use" /\ UNCHANGED <<table, users, size, slots, cloexec, grown, born, ref, refs,
                                        owners, late, raced, stray>>
  BY DEF Finish, At
<1>3. /\ call' \in [Tasks -> Calls] /\ call'[t].at = where
      /\ \A u \in Tasks \ {t} : call'[u] = call[u]
  BY <1>1, DoneEffect DEF TablesSound, Places
<1> QED BY <1>2, <1>3, EndTidy DEF TablesSound, Typed, Working

LEMMA DrainSound ==
    ASSUME TablesSound, NEW t \in Tasks, Drain(t)
    PROVE  TablesSound'
<1>1. PICK d \in refs[t] :
        /\ refs' = [refs EXCEPT ![t] = @ \ {d}]
        /\ ref' = [ref EXCEPT ![d] = @ - 1]
        /\ call' = IF refs[t] = {d} /\ call[t].at = "return"
                   THEN [call EXCEPT ![t] = Idle]
                   ELSE call
  BY DEF Drain
<1>2. call[t].at \in {"return", "exit"}
      /\ UNCHANGED <<table, users, size, slots, cloexec, grown, born, owners, late, raced, stray>>
  BY DEF Drain, At
<1>3. Idle \in Calls /\ Idle.at = "idle"
  BY SlotsFinite DEF Idle, Calls, Places
<1>4. /\ call' \in [Tasks -> Calls] /\ call'[t].at \in {"idle", "return", "exit"}
      /\ \A u \in Tasks \ {t} : call'[u] = call[u]
  BY <1>1, <1>2, <1>3 DEF TablesSound, Typed
<1>5. refs' \in [Tasks -> SUBSET born] /\ ref' \in [Descs -> Int]
  BY <1>1 DEF TablesSound, Typed
<1> QED BY <1>2, <1>4, <1>5, EndTidy DEF TablesSound, Typed, Working

LEMMA SetlkAcquireSound ==
    ASSUME TablesSound, NEW t \in Tasks, SetlkAcquire(t)
    PROVE  TablesSound'
<1>1. call[t].at = "setlk" /\ table[t] \in Tables /\ File[call[t].fd] \in Files
  BY DEF SetlkAcquire, At, TablesSound, Typed, Tidy, Working
<1>2. UNCHANGED <<table, users, size, slots, cloexec, grown, born, ref, refs, raced, stray>>
      /\ Done(t, "return")
  BY DEF SetlkAcquire
<1>3. /\ call' \in [Tasks -> Calls] /\ call'[t].at = "return"
      /\ \A u \in Tasks \ {t} : call'[u] = call[u]
  BY <1>2, DoneEffect DEF TablesSound, Places
<1>4. owners' \in [Files -> SUBSET Tables]
  <2> DEFINE i == File[call[t].fd]
  <2>1. \/ owners' = [owners EXCEPT ![i] = @ \cup {table[t]}]
        \/ owners' = [owners EXCEPT ![i] = @ \ {table[t]}]
        \/ owners' = owners
    BY DEF SetlkAcquire
  <2> HIDE DEF i
  <2> QED BY <1>1, <2>1 DEF TablesSound, Typed
<1>5. late' \subseteq Files \X Tables
  BY <1>1 DEF SetlkAcquire, TablesSound, Typed
<1> QED BY <1>1, <1>2, <1>3, <1>4, <1>5, EndTidy DEF TablesSound, Typed, Working

LEMMA SetFdBitEffect ==
    ASSUME TablesSound, NEW t \in Tasks, SetFdBit(t)
    PROVE  /\ call[t].at = "setfd" /\ table[t] \in Tables /\ call[t].to \in Slots
           /\ call' \in [Tasks -> Calls] /\ call'[t].at = "return"
           /\ \A u \in Tasks \ {t} : call'[u] = call[u]
           /\ cloexec' \in [Tables -> SUBSET Slots]
           /\ \A T \in Tables : cloexec'[T] \subseteq
                cloexec[T] \cup (IF T = table[t] /\ call[t].bit THEN {call[t].to} ELSE {})
           /\ stray' \subseteq Tables \X Slots /\ stray \subseteq stray'
           /\ call[t].bit /\ slots[table[t]][call[t].to] = NoDesc =>
                <<table[t], call[t].to>> \in stray'
           /\ UNCHANGED <<table, users, size, slots, grown, born, ref, refs, owners, late, raced>>
<1> DEFINE T == table[t]
           f == call[t].to
<1>1. call[t].at = "setfd" /\ T \in Tables /\ f \in Slots
  BY Locals DEF SetFdBit, At, TablesSound, Typed
<1>2. /\ UNCHANGED <<table, users, size, slots, grown, born, ref, refs, owners, late, raced>>
      /\ Done(t, "return")
      /\ cloexec' = [cloexec EXCEPT ![T] = IF call[t].bit THEN @ \cup {f} ELSE @ \ {f}]
      /\ stray' = IF call[t].bit /\ slots[T][f] = NoDesc THEN stray \cup {<<T, f>>} ELSE stray
  BY DEF SetFdBit
<1>3. /\ call' \in [Tasks -> Calls] /\ call'[t].at = "return"
      /\ \A u \in Tasks \ {t} : call'[u] = call[u]
  BY <1>2, DoneEffect DEF TablesSound, Places
<1> HIDE DEF T, f
<1>4. /\ cloexec' \in [Tables -> SUBSET Slots]
      /\ \A U \in Tables : cloexec'[U] \subseteq
            cloexec[U] \cup (IF U = T /\ call[t].bit THEN {f} ELSE {})
  BY <1>1, <1>2 DEF TablesSound, Typed
<1>5. stray' \subseteq Tables \X Slots /\ stray \subseteq stray'
      /\ (call[t].bit /\ slots[T][f] = NoDesc => <<T, f>> \in stray')
  BY <1>1, <1>2 DEF TablesSound, Typed
<1> QED BY <1>1, <1>2, <1>3, <1>4, <1>5 DEF T, f

LEMMA SetFdBitSound ==
    ASSUME TablesSound, NEW t \in Tasks, SetFdBit(t)
    PROVE  TablesSound'
BY SetFdBitEffect, EndTidy DEF TablesSound, Typed, Working

\* What publishing a grown table does: the slots come back as they were copied,
\* and what was in a slot that has changed since is raced.
LEMMA PublishEffect ==
    ASSUME TablesSound, NEW t \in Tasks, Publish(t)
    PROVE  /\ call[t].at \in {"dup3_close", "put"} /\ table[t] \in Tables
           /\ slots' \in [Tables -> [Slots -> born \cup {NoDesc}]]
           /\ \A f \in Slots : slots'[table[t]][f] = grown[t].slots[f]
           /\ cloexec' \in [Tables -> SUBSET Slots] /\ cloexec'[table[t]] = grown[t].cloexec
           /\ \A T \in Tables : T # table[t] => slots'[T] = slots[T] /\ cloexec'[T] = cloexec[T]
           /\ \A f \in Slots : slots'[table[t]][f] # slots[table[t]][f] =>
                /\ slots[table[t]][f] # NoDesc => slots[table[t]][f] \in raced'
                /\ slots'[table[t]][f] # NoDesc => slots'[table[t]][f] \in raced'
                /\ \A i \in Files : table[t] \in owners[i] /\ File[slots[table[t]][f]] = i
                        /\ slots[table[t]][f] # NoDesc => <<i, table[t]>> \in late'
           /\ raced \subseteq raced' /\ raced' \subseteq born
           /\ late \subseteq late' /\ late' \subseteq Files \X Tables
           /\ stray' \subseteq Tables \X Slots
           /\ \A x \in stray : x[1] # table[t] => x \in stray'
           /\ \A f \in grown[t].cloexec : grown[t].slots[f] = NoDesc => <<table[t], f>> \in stray'
           /\ UNCHANGED <<table, users, born, ref, refs, call, owners>>
<1> DEFINE T == table[t]
           copy == grown[t].slots
           changed == {f \in Slots : slots[T][f] # copy[f]}
           lost == {slots[T][f] : f \in changed} \ {NoDesc}
           wrong == {copy[f] : f \in changed} \ {NoDesc}
<1>1. /\ grown[t].size > 0
      /\ Lose(T, lost, wrong)
      /\ slots' = [slots EXCEPT ![T] = copy]
      /\ cloexec' = [cloexec EXCEPT ![T] = grown[t].cloexec]
      /\ stray' = {x \in stray : x[1] # T}
                  \cup ({T} \X {f \in grown[t].cloexec : copy[f] = NoDesc})
      /\ UNCHANGED <<table, users, born, ref, refs, call, owners>>
  BY DEF Publish
<1>2. /\ call[t].at \in {"dup3_close", "put"} /\ T \in Tables
      /\ \A f \in Slots : copy[f] # NoDesc => copy[f] \in born
  BY <1>1 DEF TablesSound, Tidy
<1>3. copy \in [Slots -> Descs \cup {NoDesc}] /\ grown[t].cloexec \subseteq Slots
  BY Locals DEF TablesSound
<1>4. copy \in [Slots -> born \cup {NoDesc}]
  BY <1>2, <1>3
<1>5. lost \subseteq born /\ wrong \subseteq born
  BY <1>2, <1>4 DEF TablesSound, Typed
<1>6. /\ \A f \in changed : slots[T][f] # NoDesc => slots[T][f] \in lost
      /\ \A f \in changed : copy[f] # NoDesc => copy[f] \in wrong
      /\ \A f \in Slots : slots[T][f] # copy[f] => f \in changed
  OBVIOUS
<1> HIDE DEF lost, wrong, changed, copy, T
<1>7. /\ slots' \in [Tables -> [Slots -> born \cup {NoDesc}]]
      /\ \A f \in Slots : slots'[T][f] = copy[f]
      /\ \A U \in Tables : U # T => slots'[U] = slots[U]
  BY <1>1, <1>2, <1>4 DEF TablesSound, Typed
<1>8. /\ cloexec' \in [Tables -> SUBSET Slots] /\ cloexec'[T] = grown[t].cloexec
      /\ \A U \in Tables : U # T => cloexec'[U] = cloexec[U]
  BY <1>1, <1>2, <1>3 DEF TablesSound, Typed
<1>9. /\ raced \subseteq raced' /\ raced' \subseteq born
      /\ \A d \in lost \cup wrong : d \in raced'
  BY <1>1, <1>5 DEF Lose, TablesSound, Typed
<1>10. /\ late \subseteq late' /\ late' \subseteq Files \X Tables
       /\ \A i \in Files, d \in lost : T \in owners[i] /\ File[d] = i => <<i, T>> \in late'
  BY <1>1, <1>2 DEF Lose, TablesSound, Typed
<1>11. /\ stray' \subseteq Tables \X Slots
       /\ \A x \in stray : x[1] # T => x \in stray'
       /\ \A f \in grown[t].cloexec : copy[f] = NoDesc => <<T, f>> \in stray'
  BY <1>1, <1>2, <1>3 DEF TablesSound, Typed
<1>12. \A f \in Slots : slots'[T][f] # slots[T][f] =>
                /\ slots[T][f] # NoDesc => slots[T][f] \in raced'
                /\ slots'[T][f] # NoDesc => slots'[T][f] \in raced'
                /\ \A i \in Files : T \in owners[i] /\ File[slots[T][f]] = i
                        /\ slots[T][f] # NoDesc => <<i, T>> \in late'
  BY <1>6, <1>7, <1>9, <1>10
<1> QED BY <1>1, <1>2, <1>7, <1>8, <1>9, <1>10, <1>11, <1>12 DEF T, copy

LEMMA PublishSound ==
    ASSUME TablesSound, NEW t \in Tasks, Publish(t)
    PROVE  TablesSound'
<1> DEFINE T == table[t]
<1>1. /\ slots' \in [Tables -> [Slots -> born \cup {NoDesc}]]
      /\ \A f \in Slots : slots'[T][f] = grown[t].slots[f]
      /\ \A U \in Tables : U # T => slots'[U] = slots[U]
      /\ cloexec' \in [Tables -> SUBSET Slots]
      /\ raced' \subseteq born /\ late' \subseteq Files \X Tables /\ stray' \subseteq Tables \X Slots
      /\ T \in Tables /\ UNCHANGED <<table, users, born, ref, refs, call, owners>>
  BY PublishEffect
<1>2. /\ size' = [size EXCEPT ![T] = grown[t].size]
      /\ grown' = [grown EXCEPT ![t] = NotGrown] /\ grown[t].size > 0
  BY DEF Publish
<1>3. NotGrown \in Copies /\ ~ (NotGrown.size > 0)
  BY LimitAssumption DEF NotGrown, Copies
<1>4. grown[t].size \in 0 .. Limit
  BY Locals DEF TablesSound
<1> HIDE DEF T
<1>5. size' \in [Tables -> 0 .. Limit] /\ size'[T] = grown[t].size
      /\ \A U \in Tables : U # T => size'[U] = size[U]
  BY <1>1, <1>2, <1>4 DEF TablesSound, Typed
<1>6. grown' \in [Tasks -> Copies] /\ grown'[t] = NotGrown
      /\ \A u \in Tasks \ {t} : grown'[u] = grown[u]
  BY <1>2, <1>3 DEF TablesSound, Typed
<1>7. Typed'
  BY <1>1, <1>5, <1>6 DEF TablesSound, Typed
<1>8. Within'
  <2>1. \A f \in Slots : grown[t].slots[f] # NoDesc => f < grown[t].size
    BY <1>2 DEF TablesSound, Tidy
  <2> QED BY <1>1, <1>5, <2>1 DEF TablesSound, Within, T
<1>9. UsersExact'
  BY <1>1 DEF TablesSound, UsersExact
<1>10. Tidy(t)'
  BY <1>1, <1>3, <1>6 DEF TablesSound, Tidy
<1>11. \A u \in Tasks \ {t} : Tidy(u)'
  BY <1>1, <1>6, OthersTidy DEF TablesSound
<1> QED BY <1>7, <1>8, <1>9, <1>10, <1>11 DEF TablesSound

\* The copy of a table that dup3 and F_DUPFD make before they publish it.
LEMMA GrowEffect ==
    ASSUME Typed, Within, NEW t \in Tasks, NEW f \in Slots, table[t] \in Tables,
           IF f >= size[table[t]] THEN Grow(t, f) ELSE UNCHANGED grown
    PROVE  /\ grown' \in [Tasks -> Copies]
           /\ \A u \in Tasks \ {t} : grown'[u] = grown[u]
           /\ \/ grown' = grown
              \/ \A g \in Slots : grown'[t].slots[g] # NoDesc =>
                    grown'[t].slots[g] \in born /\ g < grown'[t].size
<1>1. f \in Int /\ f + 1 \in 0 .. Limit /\ size[table[t]] \in Int /\ Slots \subseteq Int
  BY LimitAssumption DEF Slots, Typed
<1>2. CASE f >= size[table[t]]
  <2> DEFINE copy == [slots |-> slots[table[t]], cloexec |-> cloexec[table[t]], size |-> f + 1]
  <2>1. grown' = [grown EXCEPT ![t] = copy]
    BY <1>2 DEF Grow
  <2>2. slots[table[t]] \in [Slots -> Descs \cup {NoDesc}]
    BY DEF Typed
  <2>3. copy \in Copies
    BY <1>1, <2>2 DEF Typed, Copies
  <2>4. copy.slots = slots[table[t]] /\ copy.size = f + 1
    OBVIOUS
  <2>5. \A g \in Slots : slots[table[t]][g] # NoDesc =>
            slots[table[t]][g] \in born /\ g < size[table[t]]
    BY DEF Typed, Within
  <2>6. \A g \in Slots : g < size[table[t]] => g < f + 1
    BY <1>1, <1>2
  <2> HIDE DEF copy
  <2>7. grown' \in [Tasks -> Copies] /\ grown'[t] = copy
        /\ \A u \in Tasks \ {t} : grown'[u] = grown[u]
    BY <2>1, <2>3 DEF Typed
  <2> QED BY <2>4, <2>5, <2>6, <2>7
<1>3. CASE ~ (f >= size[table[t]])
  BY <1>3 DEF Typed
<1> QED BY <1>2, <1>3

LEMMA Dup3ExpandSound ==
    ASSUME TablesSound, NEW t \in Tasks, Dup3Expand(t)
    PROVE  TablesSound'
<1>1. call[t].at = "dup3" /\ table[t] \in Tables /\ call[t].to \in Slots /\ call[t].fd \in born
      /\ ~ (grown[t].size > 0)
  <2>1. call[t].at = "dup3" /\ table[t] # NoTable
    BY DEF Dup3Expand, At
  <2>2. Tidy(t) /\ Typed
    BY DEF TablesSound
  <2> QED BY <2>1, <2>2, Locals DEF Tidy, Working
<1>2. /\ UNCHANGED <<table, users, size, slots, cloexec, born, ref, refs, owners, late, raced, stray>>
      /\ Goto(t, "dup3_close")
      /\ IF call[t].to >= size[table[t]] THEN Grow(t, call[t].to) ELSE UNCHANGED grown
  BY DEF Dup3Expand
<1>3. /\ call' \in [Tasks -> Calls] /\ call'[t].at = "dup3_close" /\ call'[t].fd = call[t].fd
      /\ \A u \in Tasks \ {t} : call'[u] = call[u]
  BY <1>2, GotoEffect DEF TablesSound, Places
<1>4. /\ grown' \in [Tasks -> Copies]
      /\ \A u \in Tasks \ {t} : grown'[u] = grown[u]
      /\ \/ grown' = grown
         \/ \A g \in Slots : grown'[t].slots[g] # NoDesc =>
               grown'[t].slots[g] \in born /\ g < grown'[t].size
  BY <1>1, <1>2, GrowEffect DEF TablesSound
<1>5. Typed' /\ Within' /\ UsersExact'
  BY <1>2, <1>3, <1>4 DEF TablesSound, Typed, Within, UsersExact
<1>6. Tidy(t)'
  BY <1>1, <1>2, <1>3, <1>4 DEF Tidy
<1>7. \A u \in Tasks \ {t} : Tidy(u)'
  BY <1>2, <1>3, <1>4, OthersTidy DEF TablesSound
<1> QED BY <1>5, <1>6, <1>7 DEF TablesSound

LEMMA FirstFreeSlot ==
    ASSUME Typed, NEW T \in Tables, NEW s \in Slots, Candidates(T, s) # {}
    PROVE  FirstFree(T, s) \in Slots
<1>1. Candidates(T, s) \in SUBSET (0 .. Limit) /\ Candidates(T, s) \subseteq Slots
  BY LimitAssumption DEF Candidates, Slots
<1>2. \E f \in Candidates(T, s) : \A g \in Candidates(T, s) : f <= g
  BY <1>1, Least, LimitAssumption
<1>3. FirstFree(T, s) \in Candidates(T, s)
  BY <1>2 DEF FirstFree
<1> QED BY <1>1, <1>3

LEMMA DupFdFindSound ==
    ASSUME TablesSound, NEW t \in Tasks, DupFdFind(t)
    PROVE  TablesSound'
<1>1. call[t].at = "find" /\ table[t] \in Tables /\ call[t].to \in Slots /\ call[t].fd \in born
      /\ ~ (grown[t].size > 0) /\ call[t].fd \in Descs
  <2>1. call[t].at = "find" /\ table[t] # NoTable
    BY DEF DupFdFind, At
  <2>2. Tidy(t) /\ Typed
    BY DEF TablesSound
  <2> QED BY <2>1, <2>2, Locals DEF Tidy, Working, Typed
<1>2. UNCHANGED <<table, users, size, slots, cloexec, born, refs, owners, late, raced, stray>>
  BY DEF DupFdFind
<1>3. CASE Candidates(table[t], call[t].to) = {}
  <2>1. Done(t, "return") /\ UNCHANGED <<ref, grown>>
    BY <1>3 DEF DupFdFind
  <2>2. /\ call' \in [Tasks -> Calls] /\ call'[t].at = "return"
        /\ \A u \in Tasks \ {t} : call'[u] = call[u]
    BY <2>1, DoneEffect DEF TablesSound, Places
  <2> QED BY <1>1, <1>2, <2>1, <2>2, EndTidy DEF TablesSound, Typed, Working
<1>4. CASE Candidates(table[t], call[t].to) # {}
  <2> DEFINE f == FirstFree(table[t], call[t].to)
             c == [call[t] EXCEPT !.at = "put", !.to = f]
  <2>1. f \in Slots
    BY <1>1, <1>4, FirstFreeSlot DEF TablesSound
  <2>2. /\ ref' = [ref EXCEPT ![call[t].fd] = @ + 1]
        /\ call' = [call EXCEPT ![t] = c]
        /\ IF f >= size[table[t]] THEN Grow(t, f) ELSE UNCHANGED grown
    BY <1>4 DEF DupFdFind
  <2> HIDE DEF f
  <2>3. c \in Calls /\ c.at = "put" /\ c.fd = call[t].fd
    BY <2>1 DEF TablesSound, Typed, Calls, Places
  <2> HIDE DEF c
  <2>4. /\ call' \in [Tasks -> Calls] /\ call'[t] = c
        /\ \A u \in Tasks \ {t} : call'[u] = call[u]
    BY <2>2, <2>3 DEF TablesSound, Typed
  <2>5. /\ grown' \in [Tasks -> Copies]
        /\ \A u \in Tasks \ {t} : grown'[u] = grown[u]
        /\ \/ grown' = grown
           \/ \A g \in Slots : grown'[t].slots[g] # NoDesc =>
                 grown'[t].slots[g] \in born /\ g < grown'[t].size
    BY <1>1, <2>1, <2>2, GrowEffect DEF TablesSound
  <2>6. ref' \in [Descs -> Int]
    BY <1>1, <2>2 DEF TablesSound, Typed
  <2>7. Typed' /\ Within' /\ UsersExact'
    BY <1>2, <2>4, <2>5, <2>6 DEF TablesSound, Typed, Within, UsersExact
  <2>8. Tidy(t)'
    BY <1>1, <1>2, <2>3, <2>4, <2>5 DEF Tidy
  <2>9. \A u \in Tasks \ {t} : Tidy(u)'
    BY <1>2, <2>4, <2>5, OthersTidy DEF TablesSound
  <2> QED BY <2>7, <2>8, <2>9 DEF TablesSound
<1> QED BY <1>3, <1>4

\* dup3 and F_DUPFD store the description they hold: over what is in the slot by
\* now, which is raced, or past the end of the table, where their own is.
LEMMA PutEffect ==
    ASSUME TablesSound, NEW t \in Tasks, Dup3Put(t) \/ DupFdPut(t)
    PROVE  /\ call[t].at \in {"dup3_put", "put"} /\ table[t] \in Tables
           /\ call[t].to \in Slots /\ call[t].fd \in born /\ call[t].fd \in Descs
           /\ ~ (grown[t].size > 0)
           /\ call' \in [Tasks -> Calls] /\ call'[t].at \in {"return", "setfd"}
           /\ \A u \in Tasks \ {t} : call'[u] = call[u]
           /\ \/ /\ slots' = [slots EXCEPT ![table[t]][call[t].to] = call[t].fd]
                 /\ call[t].to < size[table[t]]
                 /\ slots[table[t]][call[t].to] # NoDesc => slots[table[t]][call[t].to] \in raced'
                 /\ \A i \in Files : /\ table[t] \in owners[i]
                                     /\ slots[table[t]][call[t].to] # NoDesc
                                     /\ File[slots[table[t]][call[t].to]] = i
                                     => <<i, table[t]>> \in late'
              \/ slots' = slots /\ call[t].fd \in raced'
           /\ raced \subseteq raced' /\ raced' \subseteq born
           /\ late \subseteq late' /\ late' \subseteq Files \X Tables
           /\ cloexec' \in [Tables -> SUBSET Slots]
           /\ \A T \in Tables : cloexec'[T] \subseteq cloexec[T]
           /\ UNCHANGED <<table, users, size, grown, born, ref, refs, owners, stray>>
<1> DEFINE T == table[t]
           f == call[t].to
           d == call[t].fd
           old == {slots[T][f]} \ {NoDesc}
<1>1. /\ call[t].at = "dup3_put" \/ (call[t].at = "put" /\ grown[t].size = 0)
      /\ T # NoTable /\ Put(t)
      /\ SetBit(t) \/ Done(t, "return")
      /\ cloexec' = cloexec \/ cloexec' = [cloexec EXCEPT ![T] = @ \ {f}]
      /\ UNCHANGED <<table, users, size, grown, born, ref, refs, owners, stray>>
  <2>1. CASE Dup3Put(t)
    BY <2>1 DEF Dup3Put, At
  <2>2. CASE DupFdPut(t)
    BY <2>2 DEF DupFdPut, At
  <2> QED BY <2>1, <2>2
<1>2. T \in Tables /\ f \in Slots /\ d \in born /\ d \in Descs
  BY <1>1, Locals DEF TablesSound, Typed, Tidy, Working
<1>3. ~ (grown[t].size > 0)
  <2>1. CASE call[t].at = "dup3_put"
    BY <2>1 DEF TablesSound, Tidy
  <2>2. CASE grown[t].size = 0
    BY <2>2
  <2> QED BY <1>1, <2>1, <2>2
<1>4. call' \in [Tasks -> Calls] /\ call'[t].at \in {"return", "setfd"}
      /\ \A u \in Tasks \ {t} : call'[u] = call[u]
  <2>1. CASE SetBit(t)
    BY <2>1, SetBitEffect DEF TablesSound
  <2>2. CASE Done(t, "return")
    BY <2>2, DoneEffect DEF TablesSound, Places
  <2> QED BY <1>1, <2>1, <2>2
<1>5. /\ cloexec' \in [Tables -> SUBSET Slots]
      /\ \A U \in Tables : cloexec'[U] \subseteq cloexec[U]
  <2>1. cloexec \in [Tables -> SUBSET Slots]
    BY DEF TablesSound, Typed
  <2>2. CASE cloexec' = cloexec
    BY <2>1, <2>2
  <2> HIDE DEF T, f
  <2>3. CASE cloexec' = [cloexec EXCEPT ![T] = @ \ {f}]
    BY <1>2, <2>1, <2>3
  <2> QED BY <1>1, <2>2, <2>3
<1>6. \/ /\ f < size[T] /\ slots' = [slots EXCEPT ![T][f] = d] /\ Lose(T, old, {})
      \/ slots' = slots /\ Lose(T, {}, {d})
  BY <1>1 DEF Put
<1>7. slots[T][f] # NoDesc => slots[T][f] \in old /\ slots[T][f] \in born
  BY <1>2 DEF TablesSound, Typed
<1>8. old \subseteq born
  BY <1>2 DEF TablesSound, Typed
<1> HIDE DEF old, T, f, d
<1>9. ASSUME NEW lost \in SUBSET born, NEW wrong \in SUBSET born, Lose(T, lost, wrong)
      PROVE  /\ raced \subseteq raced' /\ raced' \subseteq born
             /\ \A e \in lost \cup wrong : e \in raced'
             /\ late \subseteq late' /\ late' \subseteq Files \X Tables
             /\ \A i \in Files, e \in lost : T \in owners[i] /\ File[e] = i => <<i, T>> \in late'
  BY <1>2, <1>9 DEF Lose, TablesSound, Typed
<1>10. /\ raced \subseteq raced' /\ raced' \subseteq born
       /\ late \subseteq late' /\ late' \subseteq Files \X Tables
       /\ \/ /\ slots' = [slots EXCEPT ![T][f] = d]
             /\ f < size[T]
             /\ slots[T][f] # NoDesc => slots[T][f] \in raced'
             /\ \A i \in Files : T \in owners[i] /\ slots[T][f] # NoDesc /\ File[slots[T][f]] = i
                                 => <<i, T>> \in late'
          \/ slots' = slots /\ d \in raced'
  <2>1. CASE f < size[T] /\ slots' = [slots EXCEPT ![T][f] = d] /\ Lose(T, old, {})
    <3>1. /\ raced \subseteq raced' /\ raced' \subseteq born
          /\ \A e \in old : e \in raced'
          /\ late \subseteq late' /\ late' \subseteq Files \X Tables
          /\ \A i \in Files, e \in old : T \in owners[i] /\ File[e] = i => <<i, T>> \in late'
      BY <1>8, <1>9, <2>1
    <3> QED BY <1>7, <2>1, <3>1
  <2>2. CASE slots' = slots /\ Lose(T, {}, {d})
    <3>1. {d} \subseteq born
      BY <1>2
    <3>2. /\ raced \subseteq raced' /\ raced' \subseteq born /\ d \in raced'
          /\ late \subseteq late' /\ late' \subseteq Files \X Tables
      BY <1>9, <2>2, <3>1
    <3> QED BY <2>2, <3>2
  <2> QED BY <1>6, <2>1, <2>2
<1> QED BY <1>1, <1>2, <1>3, <1>4, <1>5, <1>10 DEF T, f, d

LEMMA PutSound ==
    ASSUME TablesSound, NEW t \in Tasks, Dup3Put(t) \/ DupFdPut(t)
    PROVE  TablesSound'
<1> DEFINE T == table[t]
           d == call[t].fd
           f == call[t].to
<1>1. /\ T \in Tables /\ f \in Slots /\ d \in born /\ ~ (grown[t].size > 0)
      /\ call' \in [Tasks -> Calls] /\ call'[t].at \in {"return", "setfd"}
      /\ \A u \in Tasks \ {t} : call'[u] = call[u]
      /\ (slots' = [slots EXCEPT ![T][f] = d] /\ f < size[T]) \/ slots' = slots
      /\ raced' \subseteq born /\ late' \subseteq Files \X Tables
      /\ cloexec' \in [Tables -> SUBSET Slots]
      /\ UNCHANGED <<table, users, size, grown, born, ref, refs, owners, stray>>
  BY PutEffect
<1> HIDE DEF d, f
<1>2. /\ slots' \in [Tables -> [Slots -> born \cup {NoDesc}]]
      /\ \A U \in Tables, g \in Slots :
            slots'[U][g] = slots[U][g] \/ (U = T /\ g = f /\ f < size[T])
  <2>1. slots \in [Tables -> [Slots -> born \cup {NoDesc}]]
    BY DEF TablesSound, Typed
  <2>2. CASE slots' = slots
    BY <2>1, <2>2
  <2> HIDE DEF T
  <2>3. CASE slots' = [slots EXCEPT ![T][f] = d] /\ f < size[T]
    <3>1. [slots[T] EXCEPT ![f] = d] \in [Slots -> born \cup {NoDesc}]
      BY <1>1, <2>1
    <3> QED BY <1>1, <2>1, <2>3, <3>1
  <2> QED BY <1>1, <2>2, <2>3
<1>3. Typed'
  BY <1>1, <1>2 DEF TablesSound, Typed
<1>4. Within' /\ UsersExact'
  BY <1>1, <1>2 DEF TablesSound, Within, UsersExact
<1>5. Tidy(t)'
  BY <1>1 DEF Tidy, Working
<1>6. \A u \in Tasks \ {t} : Tidy(u)'
  BY <1>1, OthersTidy DEF TablesSound
<1> QED BY <1>3, <1>4, <1>5, <1>6 DEF TablesSound

\* f_install_start on the table of a task that is not at work on it.
LEMMA InstallSound ==
    ASSUME TablesSound, NEW t \in Tasks, table[t] \in Tables, NEW d \in Descs,
           NEW bit \in BOOLEAN, NEW ref0 \in [Descs -> Int], Install(table[t], d, bit, ref0),
           d \in born', born \subseteq born', born' \subseteq Descs,
           call[t].at \notin {"dup3_close", "put"}, call'[t].at \notin Working,
           call' \in [Tasks -> Calls], \A u \in Tasks \ {t} : call'[u] = call[u],
           UNCHANGED <<table, users, grown, refs, owners, late, raced, stray>>
    PROVE  TablesSound'
<1> DEFINE T == table[t]
<1>1. /\ ref' \in [Descs -> Int]
      /\ \/ UNCHANGED <<slots, size, cloexec>>
         \/ \E f \in Slots :
               /\ slots[T][f] = NoDesc
               /\ slots' = [slots EXCEPT ![T][f] = d]
               /\ size' = [size EXCEPT ![T] = IF @ > f THEN @ ELSE f + 1]
               /\ cloexec' = [cloexec EXCEPT ![T] = IF bit THEN @ \cup {f} ELSE @ \ {f}]
  <2>1. Typed /\ Within
    BY DEF TablesSound
  <2>2. T \in Tables
    OBVIOUS
  <2> HIDE DEF T
  <2>3. Install(T, d, bit, ref0)
    BY DEF T
  <2> QED BY <2>1, <2>2, <2>3, InstallEffect
<1>2. /\ size' \in [Tables -> 0 .. Limit] /\ cloexec' \in [Tables -> SUBSET Slots]
      /\ slots' \in [Tables -> [Slots -> born' \cup {NoDesc}]]
      /\ \A U \in Tables : U # T => slots'[U] = slots[U] /\ size'[U] = size[U]
                                 /\ cloexec'[U] = cloexec[U]
      /\ \A U \in Tables, g \in Slots : slots'[U][g] # NoDesc =>
            (U = T /\ g < size'[U]) \/ slots[U][g] # NoDesc
      /\ \A U \in Tables : size[U] \in Int /\ size'[U] \in Int /\ size[U] <= size'[U]
  <2>1. \A U \in Tables : size[U] \in Int /\ size[U] \in 0 .. Limit
    BY LimitAssumption DEF TablesSound, Typed
  <2>2. CASE UNCHANGED <<slots, size, cloexec>>
    BY <2>1, <2>2 DEF TablesSound, Typed
  <2>3. ASSUME NEW f \in Slots,
               slots[T][f] = NoDesc,
               slots' = [slots EXCEPT ![T][f] = d],
               size' = [size EXCEPT ![T] = IF @ > f THEN @ ELSE f + 1],
               cloexec' = [cloexec EXCEPT ![T] = IF bit THEN @ \cup {f} ELSE @ \ {f}]
        PROVE  /\ size' \in [Tables -> 0 .. Limit] /\ cloexec' \in [Tables -> SUBSET Slots]
               /\ slots' \in [Tables -> [Slots -> born' \cup {NoDesc}]]
               /\ \A U \in Tables : U # T => slots'[U] = slots[U] /\ size'[U] = size[U]
                                          /\ cloexec'[U] = cloexec[U]
               /\ \A U \in Tables, g \in Slots : slots'[U][g] # NoDesc =>
                     (U = T /\ g < size'[U]) \/ slots[U][g] # NoDesc
               /\ \A U \in Tables : size[U] \in Int /\ size'[U] \in Int /\ size[U] <= size'[U]
    <3>1. f \in Int /\ f + 1 \in 0 .. Limit
      BY LimitAssumption DEF Slots
    <3>2. /\ size' \in [Tables -> 0 .. Limit]
          /\ \A U \in Tables : size'[U] \in Int /\ size[U] <= size'[U]
          /\ f < size'[T] /\ \A U \in Tables : U # T => size'[U] = size[U]
      BY <2>1, <2>3, <3>1 DEF TablesSound, Typed
    <3>3. cloexec' \in [Tables -> SUBSET Slots] /\ \A U \in Tables : U # T => cloexec'[U] = cloexec[U]
      BY <2>3 DEF TablesSound, Typed
    <3>4. /\ slots' \in [Tables -> [Slots -> born' \cup {NoDesc}]]
          /\ \A U \in Tables : U # T => slots'[U] = slots[U]
          /\ \A U \in Tables, g \in Slots : slots'[U][g] = IF U = T /\ g = f THEN d ELSE slots[U][g]
      BY <2>3 DEF TablesSound, Typed
    <3>5. \A U \in Tables, g \in Slots : slots'[U][g] # NoDesc =>
            (U = T /\ g < size'[U]) \/ slots[U][g] # NoDesc
      BY <3>2, <3>4
    <3> QED BY <2>1, <3>2, <3>3, <3>4, <3>5
  <2> QED BY <1>1, <2>2, <2>3
<1>3. Typed'
  <2>1. refs \in [Tasks -> SUBSET born'] /\ raced \subseteq born'
    BY DEF TablesSound, Typed
  <2> QED BY <1>1, <1>2, <2>1 DEF TablesSound, Typed
<1>4. Within'
  BY <1>2, LimitAssumption DEF TablesSound, Within, Slots
<1>5. UsersExact'
  BY DEF TablesSound, UsersExact
<1>6. Tidy(t)'
  BY QuietTidy DEF TablesSound
<1>7. \A u \in Tasks \ {t} : Tidy(u)'
  BY OthersTidy DEF TablesSound
<1> QED BY <1>3, <1>4, <1>5, <1>6, <1>7 DEF TablesSound

LEMMA OpenEffect ==
    ASSUME TablesSound, NEW t \in Tasks, Open(t)
    PROVE  /\ table[t] \in Tables /\ call[t].at = "idle"
           /\ \E d \in Descs \ born, bit \in BOOLEAN :
                /\ born' = born \cup {d} /\ [ref EXCEPT ![d] = 1] \in [Descs -> Int]
                /\ Install(table[t], d, bit, [ref EXCEPT ![d] = 1])
           /\ UNCHANGED <<table, users, grown, refs, call, owners, late, raced, stray>>
<1>1. table[t] \in Tables /\ call[t].at = "idle"
  BY DEF Open, At, TablesSound, Typed
<1>2. \A d \in Descs : [ref EXCEPT ![d] = 1] \in [Descs -> Int]
  BY DEF TablesSound, Typed
<1> QED BY <1>1, <1>2 DEF Open

LEMMA OpenSound ==
    ASSUME TablesSound, NEW t \in Tasks, Open(t)
    PROVE  TablesSound'
<1>1. /\ table[t] \in Tables /\ call[t].at = "idle"
      /\ UNCHANGED <<table, users, grown, refs, call, owners, late, raced, stray>>
  BY OpenEffect
<1>2. PICK d \in Descs \ born, bit \in BOOLEAN :
            /\ born' = born \cup {d} /\ [ref EXCEPT ![d] = 1] \in [Descs -> Int]
            /\ Install(table[t], d, bit, [ref EXCEPT ![d] = 1])
  BY OpenEffect
<1> DEFINE ref0 == [ref EXCEPT ![d] = 1]
<1>3. call' \in [Tasks -> Calls] /\ born \subseteq Descs
  BY <1>1 DEF TablesSound, Typed
<1>4. d \in born' /\ born \subseteq born' /\ born' \subseteq Descs
  BY <1>2, <1>3
<1>5. ref0 \in [Descs -> Int] /\ Install(table[t], d, bit, ref0)
  BY <1>2
<1>6. call' = call /\ "idle" \notin Working
  BY <1>1 DEF Working
<1> HIDE DEF ref0
<1> QED BY <1>1, <1>3, <1>4, <1>5, <1>6, InstallSound

LEMMA DupInstallEffect ==
    ASSUME TablesSound, NEW t \in Tasks, DupInstall(t)
    PROVE  /\ table[t] \in Tables /\ call[t].at = "dup" /\ call[t].fd \in born
           /\ call[t].fd \in Descs
           /\ [ref EXCEPT ![call[t].fd] = @ + 1] \in [Descs -> Int]
           /\ Install(table[t], call[t].fd, FALSE, [ref EXCEPT ![call[t].fd] = @ + 1])
           /\ call' \in [Tasks -> Calls] /\ call'[t].at = "return"
           /\ \A u \in Tasks \ {t} : call'[u] = call[u]
           /\ UNCHANGED <<table, users, grown, born, refs, owners, late, raced, stray>>
<1>1. table[t] # NoTable /\ call[t].at = "dup"
  BY DEF DupInstall, At
<1>2. call[t].fd \in born /\ call[t].fd \in Descs /\ table[t] \in Tables
  BY <1>1 DEF TablesSound, Typed, Tidy, Working
<1>3. [ref EXCEPT ![call[t].fd] = @ + 1] \in [Descs -> Int]
  BY <1>2 DEF TablesSound, Typed
<1>4. /\ call' \in [Tasks -> Calls] /\ call'[t].at = "return"
      /\ \A u \in Tasks \ {t} : call'[u] = call[u]
  BY DoneEffect DEF DupInstall, TablesSound, Places
<1> QED BY <1>1, <1>2, <1>3, <1>4 DEF DupInstall

LEMMA DupInstallSound ==
    ASSUME TablesSound, NEW t \in Tasks, DupInstall(t)
    PROVE  TablesSound'
BY DupInstallEffect, InstallSound DEF TablesSound, Typed, Working

\* CloseEffect, for the table of a task.
LEMMA CloseOfTask ==
    ASSUME Typed, NEW t \in Tasks, table[t] \in Tables, NEW S \in SUBSET Slots,
           NEW ref0 \in [Descs -> Int], CloseSlots(table[t], S, ref0)
    PROVE  /\ slots' \in [Tables -> [Slots -> born \cup {NoDesc}]]
           /\ \A f \in Slots : slots'[table[t]][f] = IF f \in S THEN NoDesc ELSE slots[table[t]][f]
           /\ cloexec' \in [Tables -> SUBSET Slots]
           /\ \A U \in Tables : U # table[t] => slots'[U] = slots[U]
           /\ ref' \in [Descs -> Int]
           /\ owners' \in [Files -> SUBSET Tables]
           /\ late' \subseteq Files \X Tables
           /\ stray' \subseteq Tables \X Slots
<1>1. PICK T \in Tables : T = table[t]
  OBVIOUS
<1>2. CloseSlots(T, S, ref0)
  BY <1>1
<1>3. slots' \in [Tables -> [Slots -> born \cup {NoDesc}]]
  BY <1>2, CloseEffect
<1>4. /\ \A f \in Slots : slots'[T][f] = IF f \in S THEN NoDesc ELSE slots[T][f]
      /\ \A U \in Tables : U # T => slots'[U] = slots[U]
  <2> DEFINE row == [f \in Slots |-> IF f \in S THEN NoDesc ELSE slots[T][f]]
  <2>1. slots' = [slots EXCEPT ![T] = row]
    BY <1>2 DEF CloseSlots, Typed
  <2>2. \A f \in Slots : row[f] = IF f \in S THEN NoDesc ELSE slots[T][f]
    OBVIOUS
  <2> HIDE DEF row
  <2> QED BY <2>1, <2>2 DEF Typed
<1>5. cloexec' \in [Tables -> SUBSET Slots]
  BY <1>2, CloseEffect
<1>6. ref' \in [Descs -> Int]
  BY <1>2, CloseEffect
<1>7. owners' \in [Files -> SUBSET Tables] /\ late' \subseteq Files \X Tables
  BY <1>2, CloseEffect
<1>8. stray' \subseteq Tables \X Slots
  BY <1>2, CloseEffect
<1> QED BY <1>1, <1>3, <1>4, <1>5, <1>6, <1>7, <1>8

\* Closing slots of a table without shortening it.
LEMMA CloseSound ==
    ASSUME TablesSound, NEW t \in Tasks, table[t] \in Tables, NEW S \in SUBSET Slots,
           NEW ref0 \in [Descs -> Int], CloseSlots(table[t], S, ref0),
           call' \in [Tasks -> Calls], \A u \in Tasks \ {t} : call'[u] = call[u],
           UNCHANGED <<table, users, size, grown, born, refs, raced>>
    PROVE  /\ Typed' /\ Within' /\ UsersExact'
           /\ \A u \in Tasks \ {t} : Tidy(u)'
<1> DEFINE T == table[t]
<1>1. /\ slots' \in [Tables -> [Slots -> born \cup {NoDesc}]]
      /\ \A f \in Slots : slots'[T][f] = IF f \in S THEN NoDesc ELSE slots[T][f]
      /\ cloexec' \in [Tables -> SUBSET Slots]
      /\ \A U \in Tables : U # T => slots'[U] = slots[U]
      /\ ref' \in [Descs -> Int]
      /\ owners' \in [Files -> SUBSET Tables]
      /\ late' \subseteq Files \X Tables
      /\ stray' \subseteq Tables \X Slots
  BY CloseOfTask DEF TablesSound
<1>2. Typed'
  BY <1>1 DEF TablesSound, Typed
<1>3. Within'
  BY <1>1 DEF TablesSound, Within
<1>4. UsersExact'
  BY DEF TablesSound, UsersExact
<1>5. \A u \in Tasks \ {t} : Tidy(u)'
  BY OthersTidy DEF TablesSound
<1> QED BY <1>2, <1>3, <1>4, <1>5

LEMMA CloseIdleSound ==
    ASSUME TablesSound, NEW t \in Tasks, At(t, "idle"), NEW S \in SUBSET Slots,
           CloseSlots(table[t], S, ref),
           UNCHANGED <<table, users, size, grown, born, refs, call, raced>>
    PROVE  TablesSound'
<1>1. table[t] \in Tables /\ call[t].at = "idle" /\ ref \in [Descs -> Int] /\ call' \in [Tasks -> Calls]
  BY DEF At, TablesSound, Typed
<1>2. Typed' /\ Within' /\ UsersExact' /\ \A u \in Tasks \ {t} : Tidy(u)'
  BY <1>1, CloseSound
<1>3. Tidy(t)'
  BY <1>1, QuietTidy DEF TablesSound, Working
<1> QED BY <1>2, <1>3 DEF TablesSound

LEMMA CloseRangeEffect ==
    ASSUME TablesSound, NEW t \in Tasks, CloseRange(t)
    PROVE  /\ At(t, "idle") /\ UNCHANGED <<table, users, size, grown, born, refs, call, raced>>
           /\ \E S \in SUBSET OpenSlots(table[t]) :
                \/ /\ cloexec' = [cloexec EXCEPT ![table[t]] = @ \cup S]
                   /\ UNCHANGED <<slots, ref, owners, late, stray>>
                \/ CloseSlots(table[t], S, ref)
<1> DEFINE T == table[t]
<1>1. At(t, "idle") /\ UNCHANGED <<table, users, size, grown, born, refs, call, raced>>
  BY DEF CloseRange
<1>2. PICK first \in Slots, last \in Slots \cup {-1}, mark \in BOOLEAN :
        LET last0 == IF last >= size[T] THEN size[T] - 1 ELSE last
            S == (first .. last0) \cap OpenSlots(T)
        IN
        IF mark
        THEN /\ cloexec' = [cloexec EXCEPT ![T] = @ \cup S]
             /\ UNCHANGED <<slots, ref, owners, late, stray>>
        ELSE CloseSlots(T, S, ref)
  BY DEF CloseRange
<1> DEFINE S == (first .. (IF last >= size[T] THEN size[T] - 1 ELSE last)) \cap OpenSlots(T)
<1>3. S \in SUBSET OpenSlots(T)
  OBVIOUS
<1>4. \/ /\ cloexec' = [cloexec EXCEPT ![T] = @ \cup S]
         /\ UNCHANGED <<slots, ref, owners, late, stray>>
      \/ CloseSlots(T, S, ref)
  BY <1>2
<1> HIDE DEF S
<1> QED BY <1>1, <1>3, <1>4

LEMMA CloseRangeSound ==
    ASSUME TablesSound, NEW t \in Tasks, CloseRange(t)
    PROVE  TablesSound'
<1>1. At(t, "idle") /\ UNCHANGED <<table, users, size, grown, born, refs, call, raced>>
  BY CloseRangeEffect
<1>2. PICK S \in SUBSET OpenSlots(table[t]) :
        \/ /\ cloexec' = [cloexec EXCEPT ![table[t]] = @ \cup S]
           /\ UNCHANGED <<slots, ref, owners, late, stray>>
        \/ CloseSlots(table[t], S, ref)
  BY CloseRangeEffect
<1>3. S \in SUBSET Slots
  BY DEF OpenSlots
<1>4. CASE /\ cloexec' = [cloexec EXCEPT ![table[t]] = @ \cup S]
           /\ UNCHANGED <<slots, ref, owners, late, stray>>
  <2>1. table[t] \in Tables /\ call[t].at = "idle" /\ call' \in [Tasks -> Calls]
    BY <1>1 DEF At, TablesSound, Typed
  <2>2. cloexec' \in [Tables -> SUBSET Slots]
    BY <1>3, <1>4, <2>1 DEF TablesSound, Typed
  <2> QED BY <1>1, <1>4, <2>1, <2>2, EndTidy DEF TablesSound, Typed, Working
<1>5. CASE CloseSlots(table[t], S, ref)
  BY <1>1, <1>3, <1>5, CloseIdleSound
<1> QED BY <1>2, <1>4, <1>5

LEMMA Dup3CloseEffect ==
    ASSUME TablesSound, NEW t \in Tasks, Dup3Close(t)
    PROVE  /\ table[t] \in Tables /\ call[t].at = "dup3_close" /\ call[t].fd \in born
           /\ call[t].fd \in Descs /\ grown[t].size = 0
           /\ [ref EXCEPT ![call[t].fd] = @ + 1] \in [Descs -> Int]
           /\ \E S \in SUBSET Slots :
                CloseSlots(table[t], S, [ref EXCEPT ![call[t].fd] = @ + 1])
           /\ call' \in [Tasks -> Calls] /\ call'[t].at = "dup3_put" /\ call'[t].fd = call[t].fd
           /\ \A u \in Tasks \ {t} : call'[u] = call[u]
           /\ UNCHANGED <<table, users, size, grown, born, refs, raced>>
<1>1. table[t] # NoTable /\ call[t].at = "dup3_close" /\ grown[t].size = 0
  BY DEF Dup3Close, At
<1>2. {call[t].to} \cap OpenSlots(table[t]) \in SUBSET Slots
  BY DEF OpenSlots
<1>3. call[t].fd \in born /\ call[t].fd \in Descs /\ table[t] \in Tables
  BY <1>1 DEF TablesSound, Typed, Tidy, Working
<1>4. [ref EXCEPT ![call[t].fd] = @ + 1] \in [Descs -> Int]
  BY <1>3 DEF TablesSound, Typed
<1>5. /\ call' \in [Tasks -> Calls] /\ call'[t].at = "dup3_put" /\ call'[t].fd = call[t].fd
      /\ \A u \in Tasks \ {t} : call'[u] = call[u]
  BY GotoEffect DEF Dup3Close, TablesSound, Places
<1> QED BY <1>1, <1>2, <1>3, <1>4, <1>5 DEF Dup3Close

LEMMA Dup3CloseSound ==
    ASSUME TablesSound, NEW t \in Tasks, Dup3Close(t)
    PROVE  TablesSound'
<1> DEFINE ref0 == [ref EXCEPT ![call[t].fd] = @ + 1]
<1>1. /\ table[t] \in Tables /\ call[t].fd \in born /\ grown[t].size = 0
      /\ ref0 \in [Descs -> Int]
      /\ \E S \in SUBSET Slots : CloseSlots(table[t], S, ref0)
      /\ call' \in [Tasks -> Calls] /\ call'[t].at = "dup3_put" /\ call'[t].fd = call[t].fd
      /\ \A u \in Tasks \ {t} : call'[u] = call[u]
      /\ UNCHANGED <<table, users, size, grown, born, refs, raced>>
  BY Dup3CloseEffect
<1> HIDE DEF ref0
<1>2. /\ Typed' /\ Within' /\ UsersExact'
      /\ \A u \in Tasks \ {t} : Tidy(u)'
  BY <1>1, CloseSound
<1>3. Tidy(t)'
  <2>1. ~ (grown'[t].size > 0)
    BY <1>1
  <2> QED BY <1>1, <2>1 DEF Tidy
<1> QED BY <1>2, <1>3 DEF TablesSound

\* A task that comes to a table, alone or beside others.
LEMMA UserAdded ==
    ASSUME Typed, UsersExact, NEW u \in Tasks, table[u] = NoTable, NEW T \in Tables,
           table' = [table EXCEPT ![u] = T],
           users' = [users EXCEPT ![T] = @ + 1]
    PROVE  UsersExact' /\ users' \in [Tables -> Int] /\ table' \in [Tasks -> Tables \cup {NoTable}]
<1>1. users' \in [Tables -> Int] /\ table' \in [Tasks -> Tables \cup {NoTable}]
  BY DEF Typed
<1>2. ASSUME NEW U \in Tables
      PROVE  users'[U] = Cardinality({t \in Tasks : table'[t] = U})
  <2> DEFINE S == {t \in Tasks : table[t] = U}
  <2>1. IsFiniteSet(S) /\ Cardinality(S) \in Nat /\ users[U] = Cardinality(S)
    BY FiniteAssumption, FS_Subset, FS_CardinalityType DEF UsersExact
  <2>2. CASE U = T
    <3>1. {t \in Tasks : table'[t] = U} = S \cup {u} /\ u \notin S
      BY <2>2, NoneAssumption DEF Typed
    <3>2. Cardinality(S \cup {u}) = Cardinality(S) + 1
      BY <2>1, <3>1, FS_AddElement
    <3>3. users'[U] = users[U] + 1
      BY <2>2 DEF Typed
    <3> QED BY <2>1, <3>1, <3>2, <3>3
  <2>3. CASE U # T
    <3>1. {t \in Tasks : table'[t] = U} = S
      BY <2>3, NoneAssumption DEF Typed
    <3>2. users'[U] = users[U]
      BY <2>3 DEF Typed
    <3> QED BY <2>1, <3>1, <3>2
  <2> QED BY <2>2, <2>3
<1> QED BY <1>1, <1>2 DEF UsersExact

LEMMA UserGone ==
    ASSUME Typed, UsersExact, NEW u \in Tasks, NEW T \in Tables, table[u] = T,
           table' = [table EXCEPT ![u] = NoTable],
           users' = [users EXCEPT ![T] = @ - 1]
    PROVE  UsersExact' /\ users' \in [Tables -> Int] /\ table' \in [Tasks -> Tables \cup {NoTable}]
<1>1. users' \in [Tables -> Int] /\ table' \in [Tasks -> Tables \cup {NoTable}]
  BY DEF Typed
<1>2. ASSUME NEW U \in Tables
      PROVE  users'[U] = Cardinality({t \in Tasks : table'[t] = U})
  <2> DEFINE S == {t \in Tasks : table[t] = U}
  <2>1. IsFiniteSet(S) /\ Cardinality(S) \in Nat /\ users[U] = Cardinality(S)
    BY FiniteAssumption, FS_Subset, FS_CardinalityType DEF UsersExact
  <2>2. CASE U = T
    <3>1. {t \in Tasks : table'[t] = U} = S \ {u} /\ u \in S
      BY <2>2, NoneAssumption DEF Typed
    <3>2. Cardinality(S \ {u}) = Cardinality(S) - 1
      BY <2>1, <3>1, FS_RemoveElement
    <3>3. users'[U] = users[U] - 1
      BY <2>2 DEF Typed
    <3> QED BY <2>1, <3>1, <3>2, <3>3
  <2>3. CASE U # T
    <3>1. {t \in Tasks : table'[t] = U} = S
      BY <2>3, NoneAssumption DEF Typed
    <3>2. users'[U] = users[U]
      BY <2>3 DEF Typed
    <3> QED BY <2>1, <3>1, <3>2
  <2> QED BY <2>2, <2>3
<1> QED BY <1>1, <1>2 DEF UsersExact

LEMMA UnusedTable ==
    ASSUME UsersExact, NEW U \in Tables, users[U] = 0
    PROVE  \A t \in Tasks : table[t] # U
<1> DEFINE S == {t \in Tasks : table[t] = U}
<1>1. IsFiniteSet(S) /\ Cardinality(S) = 0
  BY FiniteAssumption, FS_Subset DEF UsersExact
<1>2. S = {}
  BY <1>1, FS_EmptySet
<1> QED BY <1>2

LEMMA OtherUser ==
    ASSUME UsersExact, NEW t \in Tasks, table[t] \in Tables, users[table[t]] # 1
    PROVE  \E u \in Tasks \ {t} : table[u] = table[t]
<1> SUFFICES ASSUME \A u \in Tasks \ {t} : table[u] # table[t] PROVE FALSE
  OBVIOUS
<1> DEFINE S == {u \in Tasks : table[u] = table[t]}
<1>1. S = {t}
  OBVIOUS
<1>2. Cardinality({t}) = 1
  BY FS_Singleton
<1>3. users[table[t]] = Cardinality(S)
  BY DEF UsersExact
<1> HIDE DEF S
<1> QED BY <1>1, <1>2, <1>3

LEMMA CloneSound ==
    ASSUME TablesSound, NEW t \in Tasks, Clone(t)
    PROVE  TablesSound'
<1>1. table[t] \in Tables
  BY DEF Clone, At, TablesSound, Typed
<1>2. PICK u \in Tasks :
        /\ table[u] = NoTable /\ call[u].at = "idle"
        /\ table' = [table EXCEPT ![u] = table[t]]
        /\ users' = [users EXCEPT ![table[t]] = @ + 1]
  BY DEF Clone
<1>3. UNCHANGED <<size, slots, cloexec, grown, born, ref, refs, call, owners, late, raced, stray>>
  BY DEF Clone
<1>4. UsersExact' /\ users' \in [Tables -> Int] /\ table' \in [Tasks -> Tables \cup {NoTable}]
  BY <1>1, <1>2, UserAdded DEF TablesSound
<1>5. \A w \in Tasks \ {u} : table'[w] = table[w]
  BY <1>2 DEF TablesSound, Typed
<1>6. Typed'
  BY <1>3, <1>4 DEF TablesSound, Typed
<1>7. Within'
  BY <1>2, <1>3, <1>5, NoneAssumption DEF TablesSound, Within
<1>8. \A w \in Tasks : Tidy(w)'
  <2>1. \A w \in Tasks : table[w] \in Tables => table'[w] = table[w]
    BY <1>2, <1>5, NoneAssumption
  <2> QED BY <1>3, <2>1, KeptTidy DEF TablesSound
<1> QED BY <1>4, <1>6, <1>7, <1>8 DEF TablesSound

\* fork copies the slots into a table that nobody uses.
LEMMA ForkEffect ==
    ASSUME TablesSound, NEW t \in Tasks, Fork(t)
    PROVE  \E u \in Tasks, U \in Tables :
              /\ table[t] \in Tables /\ U # table[t] /\ table[u] = NoTable
              /\ \A f \in Slots : slots[U][f] = NoDesc
              /\ table' = [table EXCEPT ![u] = U] /\ users' = [users EXCEPT ![U] = @ + 1]
              /\ size' = [size EXCEPT ![U] = size[table[t]]]
              /\ slots' = [slots EXCEPT ![U] = slots[table[t]]]
              /\ cloexec' = [cloexec EXCEPT ![U] = cloexec[table[t]]]
              /\ stray' = stray \cup ({U} \X {f \in Slots : <<table[t], f>> \in stray})
              /\ ref' = [d \in Descs |-> ref[d] +
                            Cardinality({f \in Slots : slots[table[t]][f] = d})]
              /\ UNCHANGED <<grown, born, refs, call, owners, late, raced>>
<1>1. table[t] \in Tables
  BY DEF Fork, At, TablesSound, Typed
<1>2. PICK u \in Tasks, U \in Tables :
        /\ table[u] = NoTable /\ users[U] = 0
        /\ table' = [table EXCEPT ![u] = U] /\ users' = [users EXCEPT ![U] = 1]
        /\ size' = [size EXCEPT ![U] = size[table[t]]]
        /\ slots' = [slots EXCEPT ![U] = slots[table[t]]]
        /\ cloexec' = [cloexec EXCEPT ![U] = cloexec[table[t]]]
        /\ stray' = stray \cup ({U} \X {f \in Slots : <<table[t], f>> \in stray})
  BY DEF Fork
<1>3. \A w \in Tasks : table[w] # U
  BY <1>2, UnusedTable DEF TablesSound
<1>4. \A f \in Slots : slots[U][f] = NoDesc
  BY <1>3 DEF TablesSound, Within
<1>5. users' = [users EXCEPT ![U] = @ + 1]
  BY <1>2
<1>6. /\ ref' = [d \in Descs |-> ref[d] + Cardinality({f \in Slots : slots[table[t]][f] = d})]
      /\ UNCHANGED <<grown, born, refs, call, owners, late, raced>>
  BY DEF Fork
<1> QED BY <1>1, <1>2, <1>3, <1>4, <1>5, <1>6

LEMMA ForkSound ==
    ASSUME TablesSound, NEW t \in Tasks, Fork(t)
    PROVE  TablesSound'
<1>1. PICK u \in Tasks, U \in Tables :
              /\ table[t] \in Tables /\ U # table[t] /\ table[u] = NoTable
              /\ \A f \in Slots : slots[U][f] = NoDesc
              /\ table' = [table EXCEPT ![u] = U] /\ users' = [users EXCEPT ![U] = @ + 1]
              /\ size' = [size EXCEPT ![U] = size[table[t]]]
              /\ slots' = [slots EXCEPT ![U] = slots[table[t]]]
              /\ cloexec' = [cloexec EXCEPT ![U] = cloexec[table[t]]]
              /\ stray' = stray \cup ({U} \X {f \in Slots : <<table[t], f>> \in stray})
              /\ ref' = [d \in Descs |-> ref[d] +
                            Cardinality({f \in Slots : slots[table[t]][f] = d})]
              /\ UNCHANGED <<grown, born, refs, call, owners, late, raced>>
  BY ForkEffect
<1>2. UsersExact' /\ users' \in [Tables -> Int] /\ table' \in [Tasks -> Tables \cup {NoTable}]
  BY <1>1, UserAdded DEF TablesSound
<1>3. ref' \in [Descs -> Int]
  <2>1. \A d \in Descs : ref[d] \in Int /\ Cardinality({f \in Slots : slots[table[t]][f] = d}) \in Nat
    BY <1>1, RowSize DEF TablesSound, Typed
  <2> QED BY <1>1, <2>1
<1>4. /\ slots' \in [Tables -> [Slots -> born \cup {NoDesc}]] /\ cloexec' \in [Tables -> SUBSET Slots]
      /\ size' \in [Tables -> 0 .. Limit] /\ stray' \subseteq Tables \X Slots
  BY <1>1 DEF TablesSound, Typed
<1>5. Typed'
  BY <1>1, <1>2, <1>3, <1>4 DEF TablesSound, Typed
<1>6. /\ \A w \in Tasks \ {u} : table'[w] = table[w]
      /\ table'[u] = U /\ slots'[U] = slots[table[t]] /\ size'[U] = size[table[t]]
      /\ \A T \in Tables \ {U} : slots'[T] = slots[T] /\ size'[T] = size[T]
  BY <1>1 DEF TablesSound, Typed
<1>7. Within'
  BY <1>1, <1>6, NoneAssumption DEF TablesSound, Within
<1>8. \A w \in Tasks : Tidy(w)'
  <2>1. \A w \in Tasks : table[w] \in Tables => table'[w] = table[w]
    BY <1>1, <1>6, NoneAssumption
  <2> QED BY <1>1, <2>1, KeptTidy DEF TablesSound
<1> QED BY <1>2, <1>5, <1>7, <1>8 DEF TablesSound

\* fdtable_release: the last user closes the slots.
LEMMA ExitEffect ==
    ASSUME TablesSound, NEW t \in Tasks, Exit(t)
    PROVE  /\ table[t] \in Tables /\ call[t].at \in {"idle", "exit"}
           /\ table' = [table EXCEPT ![t] = NoTable]
           /\ users' = [users EXCEPT ![table[t]] = @ - 1]
           /\ call' \in [Tasks -> Calls] /\ call'[t].at = "idle"
           /\ \A u \in Tasks \ {t} : call'[u] = call[u]
           /\ UNCHANGED <<grown, born, refs, raced>>
           /\ \/ /\ CloseSlots(table[t], Slots, ref)
                 /\ size' = [size EXCEPT ![table[t]] = 0]
              \/ /\ \E u \in Tasks \ {t} : table[u] = table[t]
                 /\ UNCHANGED <<slots, cloexec, ref, owners, late, size, stray>>
<1>1. table[t] \in Tables /\ call[t].at \in {"idle", "exit"}
  BY DEF Exit, At, TablesSound, Typed
<1>2. Idle \in Calls /\ Idle.at = "idle"
  BY SlotsFinite DEF Idle, Calls, Places
<1>3. /\ call' \in [Tasks -> Calls] /\ call'[t].at = "idle"
      /\ \A u \in Tasks \ {t} : call'[u] = call[u]
  BY <1>2 DEF Exit, TablesSound, Typed
<1>4. /\ table' = [table EXCEPT ![t] = NoTable]
      /\ users' = [users EXCEPT ![table[t]] = @ - 1]
      /\ UNCHANGED <<grown, born, refs, raced>>
      /\ IF users[table[t]] = 1
         THEN /\ CloseSlots(table[t], Slots, ref)
              /\ size' = [size EXCEPT ![table[t]] = 0]
         ELSE UNCHANGED <<slots, cloexec, ref, owners, late, size, stray>>
  BY DEF Exit, Release
<1>5. CASE users[table[t]] = 1
  BY <1>1, <1>3, <1>4, <1>5
<1>6. CASE users[table[t]] # 1
  <2>1. \E u \in Tasks \ {t} : table[u] = table[t]
    BY <1>1, <1>6, OtherUser DEF TablesSound
  <2> QED BY <1>1, <1>3, <1>4, <1>6, <2>1
<1> QED BY <1>5, <1>6

LEMMA ExitSound ==
    ASSUME TablesSound, NEW t \in Tasks, Exit(t)
    PROVE  TablesSound'
<1> DEFINE T == table[t]
<1>1. /\ T \in Tables /\ call[t].at \in {"idle", "exit"}
      /\ table' = [table EXCEPT ![t] = NoTable]
      /\ users' = [users EXCEPT ![T] = @ - 1]
      /\ call' \in [Tasks -> Calls] /\ call'[t].at = "idle"
      /\ \A u \in Tasks \ {t} : call'[u] = call[u]
      /\ UNCHANGED <<grown, born, refs, raced>>
  BY ExitEffect
<1>2. \/ /\ CloseSlots(T, Slots, ref)
         /\ size' = [size EXCEPT ![T] = 0]
      \/ /\ \E u \in Tasks \ {t} : table[u] = T
         /\ UNCHANGED <<slots, cloexec, ref, owners, late, size, stray>>
  BY ExitEffect
<1>3. UsersExact' /\ users' \in [Tables -> Int] /\ table' \in [Tasks -> Tables \cup {NoTable}]
  BY <1>1, UserGone DEF TablesSound
<1>4. \A w \in Tasks \ {t} : table'[w] = table[w]
  BY <1>1 DEF TablesSound, Typed
<1>5. Tidy(t)'
  BY <1>1, QuietTidy DEF TablesSound, Working
<1>6. \A w \in Tasks \ {t} : Tidy(w)'
  BY <1>1, <1>4, OthersTidy DEF TablesSound
<1>7. CASE /\ CloseSlots(T, Slots, ref)
           /\ size' = [size EXCEPT ![T] = 0]
  <2>1. /\ slots' \in [Tables -> [Slots -> born \cup {NoDesc}]]
        /\ cloexec' \in [Tables -> SUBSET Slots]
        /\ ref' \in [Descs -> Int]
        /\ owners' \in [Files -> SUBSET Tables]
        /\ late' \subseteq Files \X Tables
        /\ stray' \subseteq Tables \X Slots
        /\ \A f \in Slots : slots'[T][f] = NoDesc
        /\ \A U \in Tables : U # T => slots'[U] = slots[U]
    <3> DEFINE S == Slots
               ref0 == ref
    <3>1. CloseSlots(T, S, ref0) /\ S \in SUBSET Slots /\ ref0 \in [Descs -> Int] /\ Typed
          /\ \A f \in Slots : f \in S
      BY <1>7 DEF TablesSound, Typed
    <3> HIDE DEF S, ref0
    <3>2. /\ slots' \in [Tables -> [Slots -> born \cup {NoDesc}]]
          /\ \A f \in Slots : slots'[T][f] = IF f \in S THEN NoDesc ELSE slots[T][f]
          /\ cloexec' \in [Tables -> SUBSET Slots]
          /\ \A U \in Tables : U # T => slots'[U] = slots[U]
          /\ ref' \in [Descs -> Int]
          /\ owners' \in [Files -> SUBSET Tables]
          /\ late' \subseteq Files \X Tables
          /\ stray' \subseteq Tables \X Slots
      BY <1>1, <3>1, CloseOfTask
    <3> QED BY <3>1, <3>2
  <2> HIDE DEF T
  <2>2. size' \in [Tables -> 0 .. Limit] /\ \A U \in Tables : U # T => size'[U] = size[U]
    <3>1. size \in [Tables -> 0 .. Limit] /\ 0 \in 0 .. Limit
      BY LimitAssumption DEF TablesSound, Typed
    <3> QED BY <1>7, <3>1
  <2>3. Typed'
    BY <1>1, <1>3, <2>1, <2>2 DEF TablesSound, Typed
  <2>4. Within'
    BY <1>4, <2>1, <2>2 DEF TablesSound, Within, T
  <2> QED BY <1>3, <1>5, <1>6, <2>3, <2>4 DEF TablesSound
<1>8. CASE /\ \E u \in Tasks \ {t} : table[u] = T
           /\ UNCHANGED <<slots, cloexec, ref, owners, late, size, stray>>
  <2>1. Typed'
    BY <1>1, <1>3, <1>8 DEF TablesSound, Typed
  <2>2. Within'
    BY <1>4, <1>8 DEF TablesSound, Within
  <2> QED BY <1>3, <1>5, <1>6, <2>1, <2>2 DEF TablesSound
<1> QED BY <1>2, <1>7, <1>8

\* The calls that begin by looking a descriptor up.
Looking(t) == Use(t) \/ Dup(t) \/ Setlk(t) \/ SetFd(t) \/ Dup3(t) \/ DupFd(t)

LEMMA LookingEffect ==
    ASSUME TablesSound, NEW t \in Tasks, Looking(t)
    PROVE  \E f \in Slots, to \in Slots, bit \in BOOLEAN,
              where \in Places \ {"dup3_close", "dup3_put", "put"} :
                /\ At(t, "idle") \/ At(t, "use")
                /\ Get(t, f, where, to, bit)
                /\ where = "setlk" => File[slots[table[t]][f]] \in Files
<1>1. {"use", "dup", "setlk", "setfd", "dup3", "find"} \subseteq
        Places \ {"dup3_close", "dup3_put", "put"} /\ 0 \in Slots
  BY SlotsFinite DEF Places
<1>2. At(t, "idle") \/ At(t, "use")
  BY DEF Looking, Use, Dup, Setlk, SetFd, Dup3, DupFd
<1>3. table[t] \in Tables
  BY <1>2 DEF At, TablesSound, Typed
<1>4. CASE Use(t)
  BY <1>1, <1>2, <1>4 DEF Use
<1>5. CASE Dup(t)
  BY <1>1, <1>2, <1>5 DEF Dup
<1>6. CASE Setlk(t)
  <2>1. PICK f \in Slots : /\ slots[table[t]][f] # NoDesc /\ File[slots[table[t]][f]] # NoFile
                           /\ Get(t, f, "setlk", 0, FALSE)
    BY <1>6 DEF Setlk
  <2>2. slots[table[t]][f] \in Descs
    BY <1>3, <2>1 DEF TablesSound, Typed
  <2>3. File[slots[table[t]][f]] \in Files
    BY <2>1, <2>2, FileAssumption
  <2> QED BY <1>1, <1>2, <2>1, <2>3
<1>7. CASE SetFd(t)
  BY <1>1, <1>2, <1>7 DEF SetFd
<1>8. CASE Dup3(t)
  BY <1>1, <1>2, <1>8 DEF Dup3
<1>9. CASE DupFd(t)
  BY <1>1, <1>2, <1>9 DEF DupFd
<1> QED BY <1>4, <1>5, <1>6, <1>7, <1>8, <1>9 DEF Looking

LEMMA LookingSound ==
    ASSUME TablesSound, NEW t \in Tasks, Looking(t)
    PROVE  TablesSound'
<1>1. PICK f \in Slots, to \in Slots, bit \in BOOLEAN,
            where \in Places \ {"dup3_close", "dup3_put", "put"} :
                /\ At(t, "idle") \/ At(t, "use")
                /\ Get(t, f, where, to, bit)
                /\ where = "setlk" => File[slots[table[t]][f]] \in Files
  BY LookingEffect
<1> QED BY <1>1, GetTidy

LEMMA ExecSound ==
    ASSUME TablesSound, NEW t \in Tasks, Exec(t)
    PROVE  TablesSound'
<1> DEFINE S == cloexec[table[t]] \cap OpenSlots(table[t])
<1>1. At(t, "idle") /\ CloseSlots(table[t], S, ref)
      /\ UNCHANGED <<table, users, size, grown, born, refs, call, raced>>
  BY DEF Exec
<1>2. S \in SUBSET Slots
  BY DEF OpenSlots
<1> HIDE DEF S
<1> QED BY <1>1, <1>2, CloseIdleSound

LEMMA SysCloseSound ==
    ASSUME TablesSound, NEW t \in Tasks, Close(t)
    PROVE  TablesSound'
<1>1. PICK f \in OpenSlots(table[t]) : CloseSlots(table[t], {f}, ref)
  BY DEF Close
<1>2. At(t, "idle") /\ UNCHANGED <<table, users, size, grown, born, refs, call, raced>>
  BY DEF Close
<1>3. {f} \in SUBSET Slots
  BY DEF OpenSlots
<1> QED BY <1>1, <1>2, <1>3, CloseIdleSound

\* The steps, by what they do to the counts.
Quietly(t) == Finish(t) \/ SetlkAcquire(t) \/ SetFdBit(t) \/ Dup3Expand(t) \/ Clone(t)
Closing(t) == Close(t) \/ CloseRange(t) \/ Exec(t) \/ Exit(t)
Placing(t) == Dup3Put(t) \/ DupFdPut(t)

LEMMA NextSplits ==
    ASSUME Next
    PROVE  \E t \in Tasks : \/ Quietly(t) \/ Closing(t) \/ Placing(t) \/ Looking(t)
                            \/ Drain(t) \/ Open(t) \/ DupInstall(t) \/ Fork(t)
                            \/ Dup3Close(t) \/ DupFdFind(t) \/ Publish(t)
BY DEF Next, Quietly, Closing, Placing, Looking

LEMMA TablesStep ==
    ASSUME TablesSound, [Next]_vars
    PROVE  TablesSound'
<1>1. CASE UNCHANGED vars
  BY <1>1 DEF vars, TablesSound, Typed, Within, UsersExact, Tidy
<1>2. CASE Next
  <2>1. PICK t \in Tasks : \/ Quietly(t) \/ Closing(t) \/ Placing(t) \/ Looking(t)
                           \/ Drain(t) \/ Open(t) \/ DupInstall(t) \/ Fork(t)
                           \/ Dup3Close(t) \/ DupFdFind(t) \/ Publish(t)
    BY <1>2, NextSplits
  <2>2. CASE Quietly(t)
    BY <2>2, FinishSound, SetlkAcquireSound, SetFdBitSound, Dup3ExpandSound,
       CloneSound DEF Quietly
  <2>3. CASE Closing(t)
    BY <2>3, SysCloseSound, CloseRangeSound, ExecSound, ExitSound DEF Closing
  <2>4. CASE Placing(t)
    BY <2>4, PutSound DEF Placing
  <2>5. CASE Looking(t)
    BY <2>5, LookingSound
  <2>6. CASE Drain(t) \/ Open(t) \/ DupInstall(t)
    BY <2>6, DrainSound, OpenSound, DupInstallSound
  <2>7. CASE Fork(t) \/ Dup3Close(t) \/ DupFdFind(t) \/ Publish(t)
    BY <2>7, ForkSound, Dup3CloseSound, DupFdFindSound, PublishSound
  <2> QED BY <2>1, <2>2, <2>3, <2>4, <2>5, <2>6, <2>7
<1> QED BY <1>1, <1>2

LEMMA TablesInit == Init => TablesSound
<1> SUFFICES ASSUME Init PROVE TablesSound
  OBVIOUS
<1>1. PICK t0 \in Tasks, T0 \in Tables :
        /\ table = [t \in Tasks |-> IF t = t0 THEN T0 ELSE NoTable]
        /\ users = [T \in Tables |-> IF T = T0 THEN 1 ELSE 0]
        /\ size = [T \in Tables |-> IF T = T0 THEN 1 ELSE 0]
  BY DEF Init
<1>2. Idle \in Calls /\ Idle.at = "idle" /\ NotGrown \in Copies /\ ~ (NotGrown.size > 0)
  BY SlotsFinite, LimitAssumption DEF Idle, Calls, Places, NotGrown, Copies
<1>3. Typed
  <2>1. 0 \in 0 .. Limit /\ 1 \in 0 .. Limit
    BY LimitAssumption
  <2>2. table \in [Tasks -> Tables \cup {NoTable}] /\ users \in [Tables -> Int]
        /\ size \in [Tables -> 0 .. Limit]
    BY <1>1, <2>1
  <2>3. grown \in [Tasks -> Copies] /\ call \in [Tasks -> Calls]
    BY <1>2 DEF Init
  <2> QED BY <2>2, <2>3 DEF Init, Typed
<1>4. Within
  BY DEF Init, Within
<1>5. \A t \in Tasks : Tidy(t)
  BY <1>2 DEF Init, Tidy, Working
<1>6. ASSUME NEW T \in Tables PROVE users[T] = Cardinality({t \in Tasks : table[t] = T})
  <2>1. CASE T = T0
    <3>1. {t \in Tasks : table[t] = T} = {t0}
      BY <1>1, <2>1, NoneAssumption
    <3> QED BY <1>1, <2>1, <3>1, FS_Singleton
  <2>2. CASE T # T0
    <3>1. {t \in Tasks : table[t] = T} = {}
      BY <1>1, <2>2, NoneAssumption
    <3> QED BY <1>1, <2>2, <3>1, FS_EmptySet
  <2> QED BY <2>1, <2>2
<1> QED BY <1>3, <1>4, <1>5, <1>6 DEF TablesSound, UsersExact

-----------------------------------------------------------------------------
(* The counts                                                              *)

InHand == {"dup3_put", "put"}

\* A call whose hands are empty before and after.
LEMMA SameHands ==
    ASSUME NEW t \in Tasks, \A u \in Tasks \ {t} : call'[u] = call[u],
           call[t].at \notin InHand, call'[t].at \notin InHand, NEW d
    PROVE  HandsOf(d)' = HandsOf(d)
BY DEF HandsOf, InHand

LEMMA QuietlyCounts ==
    ASSUME TablesSound, NEW t \in Tasks, Quietly(t), NEW d \in Descs, Counted(d)
    PROVE  Counted(d)'
<1>1. slots' = slots /\ refs' = refs /\ ref' = ref
  BY DEF Quietly, Finish, SetlkAcquire, SetFdBit, Dup3Expand, Clone
<1>2. HandsOf(d)' = HandsOf(d)
  <2>1. CASE Clone(t)
    <3>1. call' = call
      BY <2>1 DEF Clone
    <3> QED BY <3>1 DEF HandsOf
  <2>2. CASE Finish(t)
    <3>1. call[t].at = "use"
      BY <2>2 DEF Finish, At
    <3>2. PICK where \in {"return", "exit"} : Done(t, where)
      BY <2>2 DEF Finish
    <3>3. call'[t].at = where /\ \A u \in Tasks \ {t} : call'[u] = call[u]
      BY <3>2, DoneEffect DEF TablesSound, Places
    <3> QED BY <3>1, <3>3, SameHands DEF InHand
  <2>3. CASE SetlkAcquire(t) \/ SetFdBit(t)
    <3>1. call[t].at \in {"setlk", "setfd"} /\ Done(t, "return")
      BY <2>3 DEF SetlkAcquire, SetFdBit, At
    <3>2. call'[t].at = "return" /\ \A u \in Tasks \ {t} : call'[u] = call[u]
      BY <3>1, DoneEffect DEF TablesSound, Places
    <3> QED BY <3>1, <3>2, SameHands DEF InHand
  <2>4. CASE Dup3Expand(t)
    <3>1. call[t].at = "dup3" /\ Goto(t, "dup3_close")
      BY <2>4 DEF Dup3Expand, At
    <3>2. call'[t].at = "dup3_close" /\ \A u \in Tasks \ {t} : call'[u] = call[u]
      BY <3>1, GotoEffect DEF TablesSound, Places
    <3> QED BY <3>1, <3>2, SameHands DEF InHand
  <2> QED BY <2>1, <2>2, <2>3, <2>4 DEF Quietly
<1>3. SlotsOf(d)' = SlotsOf(d) /\ CallsOf(d)' = CallsOf(d)
  BY <1>1 DEF SlotsOf, CallsOf
<1> QED BY <1>1, <1>2, <1>3 DEF Counted

LEMMA ClosingEffect ==
    ASSUME TablesSound, NEW t \in Tasks, Closing(t)
    PROVE  /\ call[t].at \in {"idle", "exit"} /\ call'[t].at \in {"idle", "exit"}
           /\ \A u \in Tasks \ {t} : call'[u] = call[u]
           /\ table[t] \in Tables /\ UNCHANGED <<refs, born, raced>>
           /\ \/ \E S \in SUBSET Slots : CloseSlots(table[t], S, ref)
              \/ /\ \E S \in SUBSET OpenSlots(table[t]) :
                        cloexec' = [cloexec EXCEPT ![table[t]] = @ \cup S]
                 /\ UNCHANGED <<slots, ref, owners, late, stray>>
              \/ UNCHANGED <<slots, cloexec, ref, owners, late, stray>>
<1>1. CASE Exit(t)
  <2>1. /\ table[t] \in Tables /\ call[t].at \in {"idle", "exit"} /\ call'[t].at = "idle"
        /\ \A u \in Tasks \ {t} : call'[u] = call[u]
        /\ UNCHANGED <<born, refs, raced>>
    BY <1>1, ExitEffect
  <2>2. \/ CloseSlots(table[t], Slots, ref)
        \/ UNCHANGED <<slots, cloexec, ref, owners, late, stray>>
    BY <1>1, ExitEffect
  <2>3. Slots \in SUBSET Slots
    OBVIOUS
  <2> QED BY <2>1, <2>2, <2>3
<1>2. CASE ~ Exit(t)
  <2>1. At(t, "idle") /\ UNCHANGED <<call, refs, born, raced>>
    BY <1>2 DEF Closing, Close, CloseRange, Exec
  <2>2. table[t] \in Tables /\ call[t].at = "idle"
    BY <2>1 DEF At, TablesSound, Typed
  <2>3. OpenSlots(table[t]) \subseteq Slots
    BY DEF OpenSlots
  <2>4. CASE Close(t)
    <3>1. PICK f \in OpenSlots(table[t]) : CloseSlots(table[t], {f}, ref)
      BY <2>4 DEF Close
    <3>2. {f} \in SUBSET Slots
      BY <2>3
    <3> QED BY <2>1, <2>2, <3>1, <3>2
  <2>5. CASE CloseRange(t)
    <3>1. PICK S \in SUBSET OpenSlots(table[t]) :
            \/ /\ cloexec' = [cloexec EXCEPT ![table[t]] = @ \cup S]
               /\ UNCHANGED <<slots, ref, owners, late, stray>>
            \/ CloseSlots(table[t], S, ref)
      BY <2>5, CloseRangeEffect
    <3>2. S \in SUBSET Slots
      BY <2>3
    <3>3. CASE /\ cloexec' = [cloexec EXCEPT ![table[t]] = @ \cup S]
               /\ UNCHANGED <<slots, ref, owners, late, stray>>
      BY <2>1, <2>2, <3>3
    <3>4. CASE CloseSlots(table[t], S, ref)
      BY <2>1, <2>2, <3>2, <3>4
    <3> QED BY <3>1, <3>3, <3>4
  <2>6. CASE Exec(t)
    <3>1. CloseSlots(table[t], cloexec[table[t]] \cap OpenSlots(table[t]), ref)
          /\ cloexec[table[t]] \cap OpenSlots(table[t]) \in SUBSET Slots
      BY <2>3, <2>6 DEF Exec
    <3> QED BY <2>1, <2>2, <3>1
  <2> QED BY <1>2, <2>4, <2>5, <2>6 DEF Closing
<1> QED BY <1>1, <1>2

LEMMA ClosingCounts ==
    ASSUME TablesSound, NEW t \in Tasks, Closing(t), NEW d \in Descs, Counted(d)
    PROVE  Counted(d)'
<1>1. /\ call[t].at \in {"idle", "exit"} /\ call'[t].at \in {"idle", "exit"}
      /\ \A u \in Tasks \ {t} : call'[u] = call[u]
      /\ table[t] \in Tables /\ refs' = refs
  BY ClosingEffect
<1>2. \/ \E S \in SUBSET Slots : CloseSlots(table[t], S, ref)
      \/ UNCHANGED <<slots, ref>>
  BY ClosingEffect
<1>3. HandsOf(d)' = HandsOf(d) /\ CallsOf(d)' = CallsOf(d)
  BY <1>1, SameHands DEF CallsOf, InHand
<1>4. Typed /\ ref \in [Descs -> Int] /\ ref[d] \in Int
  BY DEF TablesSound, Typed
<1>5. ASSUME NEW S \in SUBSET Slots, CloseSlots(table[t], S, ref)
      PROVE  Counted(d)'
  <2> DEFINE ref0 == ref
  <2>2. CloseSlots(table[t], S, ref0) /\ ref0 \in [Descs -> Int] /\ ref0[d] = ref[d]
    BY <1>4, <1>5
  <2> HIDE DEF ref0
  <2>3. ref'[d] = ref0[d] + Cardinality(SlotsOf(d)') - Cardinality(SlotsOf(d))
    BY <1>1, <1>4, <2>2, CloseCount
  <2>1. ref'[d] = ref[d] + Cardinality(SlotsOf(d)') - Cardinality(SlotsOf(d))
    BY <2>2, <2>3
  <2> QED BY <1>3, <1>4, <2>1, CountsTyped, CountsTypedNext DEF Counted
<1>6. CASE UNCHANGED <<slots, ref>>
  BY <1>3, <1>6 DEF Counted, SlotsOf
<1> QED BY <1>2, <1>5, <1>6

LEMMA PlacingCounts ==
    ASSUME TablesSound, NEW t \in Tasks, Placing(t), NEW d \in Descs, Counted(d), d \notin raced'
    PROVE  Counted(d)'
<1> DEFINE c == call[t].fd
<1>1. /\ call[t].at \in InHand /\ table[t] \in Tables /\ call[t].to \in Slots /\ c \in Descs
      /\ call'[t].at \in {"return", "setfd"} /\ \A u \in Tasks \ {t} : call'[u] = call[u]
      /\ ref' = ref /\ refs' = refs
  BY PutEffect DEF Placing, InHand
<1>2. \/ /\ slots' = [slots EXCEPT ![table[t]][call[t].to] = c]
         /\ slots[table[t]][call[t].to] # d
      \/ slots' = slots /\ c # d
  <2>1. d # NoDesc
    BY NoneAssumption
  <2> QED BY <2>1, PutEffect DEF Placing
<1>3. Cardinality(SlotsOf(d)') = Cardinality(SlotsOf(d)) + (IF d = c THEN 1 ELSE 0)
  <2>1. CASE /\ slots' = [slots EXCEPT ![table[t]][call[t].to] = c]
             /\ slots[table[t]][call[t].to] # d
    BY <1>1, <2>1, PutCount DEF TablesSound
  <2>2. CASE slots' = slots /\ c # d
    <3>1. SlotsOf(d)' = SlotsOf(d)
      BY <2>2 DEF SlotsOf
    <3> QED BY <2>2, <3>1, CountsTyped
  <2> QED BY <1>2, <2>1, <2>2
<1>4. HandsOf(d)' = HandsOf(d) \ {t} /\ (t \in HandsOf(d) <=> d = c)
  BY <1>1 DEF HandsOf, InHand
<1>5. IsFiniteSet(HandsOf(d)) /\ Cardinality(HandsOf(d)) \in Nat
      /\ Cardinality(SlotsOf(d)) \in Nat /\ Cardinality(CallsOf(d)) \in Nat
  BY CountsTyped
<1>6. Cardinality(HandsOf(d)') = Cardinality(HandsOf(d)) - (IF d = c THEN 1 ELSE 0)
  BY <1>4, <1>5, OneLess
<1>7. CallsOf(d)' = CallsOf(d)
  BY <1>1 DEF CallsOf
<1> QED BY <1>1, <1>3, <1>5, <1>6, <1>7 DEF Counted

\* A description that is not raced by it is in no slot that a grown table changes.
LEMMA PublishCounts ==
    ASSUME TablesSound, NEW t \in Tasks, Publish(t), NEW d \in Descs, Counted(d), d \notin raced'
    PROVE  Counted(d)'
<1>1. /\ table[t] \in Tables /\ UNCHANGED <<ref, refs, call>>
      /\ \A T \in Tables : T # table[t] => slots'[T] = slots[T]
  BY PublishEffect
<1>2. \A f \in Slots : slots'[table[t]][f] # slots[table[t]][f] =>
            slots[table[t]][f] # d /\ slots'[table[t]][f] # d
  <2>1. \A f \in Slots : slots'[table[t]][f] # slots[table[t]][f] =>
                /\ slots[table[t]][f] # NoDesc => slots[table[t]][f] \in raced'
                /\ slots'[table[t]][f] # NoDesc => slots'[table[t]][f] \in raced'
    BY PublishEffect
  <2> QED BY <2>1, NoneAssumption
<1>3. \A T \in Tables, f \in Slots : slots'[T][f] = d <=> slots[T][f] = d
  BY <1>1, <1>2
<1>4. SlotsOf(d)' = SlotsOf(d)
  BY <1>3 DEF SlotsOf
<1>5. CallsOf(d)' = CallsOf(d) /\ HandsOf(d)' = HandsOf(d)
  BY <1>1 DEF CallsOf, HandsOf
<1> QED BY <1>1, <1>4, <1>5 DEF Counted

\* A call takes the description it holds into its hand, with a reference.
LEMMA TakenCounts ==
    ASSUME TablesSound, NEW t \in Tasks, NEW c \in Descs, NEW d \in Descs, Counted(d),
           c = call[t].fd, call'[t].fd = c, call[t].at \notin InHand, call'[t].at \in InHand,
           \A u \in Tasks \ {t} : call'[u] = call[u], refs' = refs,
           ref'[d] = ref[d] + (IF d = c THEN 1 ELSE 0)
                     + Cardinality(SlotsOf(d)') - Cardinality(SlotsOf(d))
    PROVE  Counted(d)'
<1>1. HandsOf(d)' = (IF d = c THEN HandsOf(d) \cup {t} ELSE HandsOf(d)) /\ t \notin HandsOf(d)
  BY DEF HandsOf, InHand
<1>2. IsFiniteSet(HandsOf(d)) /\ Cardinality(HandsOf(d)) \in Nat
      /\ Cardinality(SlotsOf(d)) \in Nat /\ Cardinality(CallsOf(d)) \in Nat
      /\ Cardinality(SlotsOf(d)') \in Nat
  BY CountsTyped, CountsTypedNext
<1>3. Cardinality(HandsOf(d)') = Cardinality(HandsOf(d)) + (IF d = c THEN 1 ELSE 0)
  BY <1>1, <1>2, OneMore
<1>4. CallsOf(d)' = CallsOf(d) /\ ref[d] \in Int
  BY DEF CallsOf, TablesSound, Typed
<1> QED BY <1>2, <1>3, <1>4 DEF Counted

LEMMA Dup3CloseCounts ==
    ASSUME TablesSound, NEW t \in Tasks, Dup3Close(t), NEW d \in Descs, Counted(d)
    PROVE  Counted(d)'
<1> DEFINE c == call[t].fd
           ref0 == [ref EXCEPT ![c] = @ + 1]
<1>1. /\ table[t] \in Tables /\ call[t].at = "dup3_close" /\ c \in Descs
      /\ ref0 \in [Descs -> Int] /\ \E S \in SUBSET Slots : CloseSlots(table[t], S, ref0)
      /\ call'[t].at = "dup3_put" /\ call'[t].fd = c
      /\ \A u \in Tasks \ {t} : call'[u] = call[u]
      /\ refs' = refs
  BY Dup3CloseEffect
<1>2. ref0[d] = ref[d] + (IF d = c THEN 1 ELSE 0) /\ ref[d] \in Int /\ Typed
  BY <1>1 DEF TablesSound, Typed
<1> HIDE DEF ref0
<1>3. PICK S \in SUBSET Slots : CloseSlots(table[t], S, ref0)
  BY <1>1
<1>4. ref'[d] = ref0[d] + Cardinality(SlotsOf(d)') - Cardinality(SlotsOf(d))
  BY <1>1, <1>2, <1>3, CloseCount
<1>5. ref'[d] = ref[d] + (IF d = c THEN 1 ELSE 0)
                + Cardinality(SlotsOf(d)') - Cardinality(SlotsOf(d))
  BY <1>2, <1>4
<1> QED BY <1>1, <1>5, TakenCounts DEF InHand

LEMMA DupFdFindCounts ==
    ASSUME TablesSound, NEW t \in Tasks, DupFdFind(t), NEW d \in Descs, Counted(d)
    PROVE  Counted(d)'
<1> DEFINE c == call[t].fd
<1>1. call[t].at = "find" /\ slots' = slots /\ refs' = refs
  BY DEF DupFdFind, At
<1>2. c \in Descs /\ Typed /\ ref[d] \in Int
  BY <1>1 DEF TablesSound, Typed, Tidy, Working
<1>3. SlotsOf(d)' = SlotsOf(d) /\ CallsOf(d)' = CallsOf(d)
  BY <1>1 DEF SlotsOf, CallsOf
<1>4. CASE Candidates(table[t], call[t].to) = {}
  <2>1. Done(t, "return") /\ ref' = ref
    BY <1>4 DEF DupFdFind
  <2>2. call'[t].at = "return" /\ \A u \in Tasks \ {t} : call'[u] = call[u]
    BY <1>2, <2>1, DoneEffect DEF Places
  <2>3. HandsOf(d)' = HandsOf(d)
    BY <1>1, <2>2, SameHands DEF InHand
  <2> QED BY <1>3, <2>1, <2>3 DEF Counted
<1>5. CASE Candidates(table[t], call[t].to) # {}
  <2> DEFINE f == FirstFree(table[t], call[t].to)
             r == [call[t] EXCEPT !.at = "put", !.to = f]
  <2>1. ref' = [ref EXCEPT ![c] = @ + 1] /\ call' = [call EXCEPT ![t] = r]
    BY <1>5 DEF DupFdFind
  <2>2. r.at = "put" /\ r.fd = c
    BY <1>2 DEF Typed, Calls
  <2> HIDE DEF r
  <2>3. call'[t].at = "put" /\ call'[t].fd = c /\ \A u \in Tasks \ {t} : call'[u] = call[u]
    BY <1>2, <2>1, <2>2 DEF Typed
  <2>4. ref'[d] = ref[d] + (IF d = c THEN 1 ELSE 0)
    BY <1>2, <2>1 DEF Typed
  <2>5. ref'[d] = ref[d] + (IF d = c THEN 1 ELSE 0)
                + Cardinality(SlotsOf(d)') - Cardinality(SlotsOf(d))
    BY <1>2, <1>3, <2>4, CountsTyped
  <2> QED BY <1>1, <1>2, <2>3, <2>5, TakenCounts DEF InHand
<1> QED BY <1>4, <1>5

LEMMA LookingCounts ==
    ASSUME TablesSound, NEW t \in Tasks, Looking(t), NEW d \in Descs, Counted(d)
    PROVE  Counted(d)'
<1>1. PICK f \in Slots, to \in Slots, bit \in BOOLEAN,
            where \in Places \ {"dup3_close", "dup3_put", "put"} :
                /\ At(t, "idle") \/ At(t, "use")
                /\ Get(t, f, where, to, bit)
                /\ where = "setlk" => File[slots[table[t]][f]] \in Files
  BY LookingEffect
<1> DEFINE c == slots[table[t]][f]
           held == IF where \in {"use", "setfd"} THEN NoDesc ELSE c
<1>2. call[t].at \in {"idle", "use"} /\ c # NoDesc /\ slots' = slots /\ Hold(t, c)
      /\ call' = [call EXCEPT ![t] = [at |-> where, fd |-> held, to |-> to, bit |-> bit]]
  BY <1>1 DEF At, Get
<1> HIDE DEF held
<1>3. call'[t].at = where /\ \A u \in Tasks \ {t} : call'[u] = call[u]
  BY <1>2 DEF TablesSound, Typed
<1>4. HandsOf(d)' = HandsOf(d) /\ SlotsOf(d)' = SlotsOf(d)
  BY <1>2, <1>3, SameHands DEF InHand, SlotsOf
<1>5. CallsOf(d)' = IF d = c THEN CallsOf(d) \cup {t} ELSE CallsOf(d)
  BY <1>2 DEF Hold, CallsOf, TablesSound, Typed
<1>6. ref'[d] = ref[d] + (IF d = c /\ t \notin CallsOf(d) THEN 1 ELSE 0)
  BY <1>2 DEF Hold, CallsOf, TablesSound, Typed
<1>7. IsFiniteSet(CallsOf(d)) /\ Cardinality(HandsOf(d)) \in Nat
      /\ Cardinality(SlotsOf(d)) \in Nat /\ Cardinality(CallsOf(d)) \in Nat
  BY CountsTyped
<1>8. Cardinality(CallsOf(d)') = Cardinality(CallsOf(d))
        + (IF d = c /\ t \notin CallsOf(d) THEN 1 ELSE 0)
  <2>1. CASE d = c
    BY <1>5, <1>7, <2>1, OneMore
  <2>2. CASE d # c
    BY <1>5, <1>7, <2>2
  <2> QED BY <2>1, <2>2
<1> QED BY <1>4, <1>6, <1>7, <1>8 DEF Counted

LEMMA DrainCounts ==
    ASSUME TablesSound, NEW t \in Tasks, Drain(t), NEW d \in Descs, Counted(d)
    PROVE  Counted(d)'
<1>1. PICK c \in refs[t] :
        /\ refs' = [refs EXCEPT ![t] = @ \ {c}]
        /\ ref' = [ref EXCEPT ![c] = @ - 1]
        /\ call' = IF refs[t] = {c} /\ call[t].at = "return"
                   THEN [call EXCEPT ![t] = Idle]
                   ELSE call
  BY DEF Drain
<1>2. call[t].at \in {"return", "exit"} /\ slots' = slots
  BY DEF Drain, At
<1>3. call'[t].at \notin InHand /\ \A u \in Tasks \ {t} : call'[u] = call[u]
  BY <1>1, <1>2 DEF TablesSound, Typed, Idle, InHand
<1>4. HandsOf(d)' = HandsOf(d) /\ SlotsOf(d)' = SlotsOf(d)
  BY <1>2, <1>3, SameHands DEF InHand, SlotsOf
<1>5. c \in Descs /\ t \in CallsOf(c)
  BY DEF CallsOf, TablesSound, Typed
<1>6. CallsOf(d)' = IF d = c THEN CallsOf(d) \ {t} ELSE CallsOf(d)
  BY <1>1 DEF CallsOf, TablesSound, Typed
<1>7. ref'[d] = ref[d] - (IF d = c THEN 1 ELSE 0)
  BY <1>1, <1>5 DEF TablesSound, Typed
<1>8. IsFiniteSet(CallsOf(d)) /\ Cardinality(HandsOf(d)) \in Nat
      /\ Cardinality(SlotsOf(d)) \in Nat /\ Cardinality(CallsOf(d)) \in Nat
  BY CountsTyped
<1>9. Cardinality(CallsOf(d)') = Cardinality(CallsOf(d)) - (IF d = c THEN 1 ELSE 0)
  <2>1. CASE d = c
    BY <1>5, <1>6, <1>8, <2>1, OneLess
  <2>2. CASE d # c
    BY <1>6, <1>8, <2>2
  <2> QED BY <2>1, <2>2
<1> QED BY <1>4, <1>7, <1>8, <1>9 DEF Counted

LEMMA OpenCounts ==
    ASSUME TablesSound, NEW t \in Tasks, Open(t), NEW d \in Descs, Counted(d)
    PROVE  Counted(d)'
<1>1. /\ table[t] \in Tables
      /\ UNCHANGED <<refs, call>>
  BY OpenEffect
<1>2. PICK c \in Descs \ born, bit \in BOOLEAN :
            /\ born' = born \cup {c} /\ [ref EXCEPT ![c] = 1] \in [Descs -> Int]
            /\ Install(table[t], c, bit, [ref EXCEPT ![c] = 1])
  BY OpenEffect
<1> DEFINE ref0 == [ref EXCEPT ![c] = 1]
<1>3. HandsOf(d)' = HandsOf(d) /\ CallsOf(d)' = CallsOf(d)
  BY <1>1 DEF HandsOf, CallsOf
<1>4. ASSUME d = c PROVE ref[d] = 0
  <2>1. SlotsOf(d) = {} /\ CallsOf(d) = {} /\ HandsOf(d) = {}
    BY <1>2, <1>4, NoneAssumption
    DEF SlotsOf, CallsOf, HandsOf, TablesSound, Typed, Tidy, Working
  <2>2. Cardinality({}) = 0
    BY FS_EmptySet
  <2> QED BY <2>1, <2>2 DEF Counted
<1>5. ref[d] \in Int /\ ref0[d] = ref[d] + (IF d = c THEN 1 ELSE 0)
  BY <1>2, <1>4 DEF TablesSound, Typed
<1>6. ref0 \in [Descs -> Int] /\ Install(table[t], c, bit, ref0) /\ Typed /\ Within /\ c \in Descs
  BY <1>2 DEF TablesSound
<1> HIDE DEF ref0
<1>7. ref'[d] = ref0[d] + Cardinality(SlotsOf(d)') - Cardinality(SlotsOf(d))
                - (IF d = c THEN 1 ELSE 0)
  BY <1>1, <1>6, InstallEffect
<1> QED BY <1>3, <1>5, <1>7, CountsTyped, CountsTypedNext DEF Counted

LEMMA DupInstallCounts ==
    ASSUME TablesSound, NEW t \in Tasks, DupInstall(t), NEW d \in Descs, Counted(d)
    PROVE  Counted(d)'
<1> DEFINE c == call[t].fd
           ref0 == [ref EXCEPT ![c] = @ + 1]
<1>1. /\ table[t] \in Tables /\ call[t].at = "dup" /\ c \in Descs
      /\ ref0 \in [Descs -> Int] /\ Install(table[t], c, FALSE, ref0)
      /\ call'[t].at = "return" /\ \A u \in Tasks \ {t} : call'[u] = call[u]
      /\ refs' = refs
  BY DupInstallEffect
<1>2. HandsOf(d)' = HandsOf(d) /\ CallsOf(d)' = CallsOf(d)
  BY <1>1, SameHands DEF CallsOf, InHand
<1>3. ref[d] \in Int /\ ref0[d] = ref[d] + (IF d = c THEN 1 ELSE 0)
  BY <1>1 DEF TablesSound, Typed
<1>4. Typed /\ Within
  BY DEF TablesSound
<1> HIDE DEF ref0
<1>5. ref'[d] = ref0[d] + Cardinality(SlotsOf(d)') - Cardinality(SlotsOf(d))
                - (IF d = c THEN 1 ELSE 0)
  <2>1. \A bit \in BOOLEAN : bit = FALSE => Install(table[t], c, bit, ref0)
    BY <1>1
  <2>2. \A bit \in BOOLEAN : bit = FALSE => (ref'[d] = ref0[d] + Cardinality(SlotsOf(d)')
                                    - Cardinality(SlotsOf(d)) - (IF d = c THEN 1 ELSE 0))
    <3> HIDE DEF c
    <3> QED BY <1>1, <1>4, <2>1, InstallEffect
  <2> QED BY <2>2
<1> QED BY <1>2, <1>3, <1>5, CountsTyped, CountsTypedNext DEF Counted

LEMMA ForkCounts ==
    ASSUME TablesSound, NEW t \in Tasks, Fork(t), NEW d \in Descs, Counted(d)
    PROVE  Counted(d)'
<1>1. PICK u \in Tasks, U \in Tables :
              /\ table[t] \in Tables /\ U # table[t]
              /\ \A f \in Slots : slots[U][f] = NoDesc
              /\ slots' = [slots EXCEPT ![U] = slots[table[t]]]
              /\ ref' = [e \in Descs |-> ref[e] +
                            Cardinality({f \in Slots : slots[table[t]][f] = e})]
              /\ UNCHANGED <<refs, call>>
  BY ForkEffect
<1> DEFINE F == {f \in Slots : slots[table[t]][f] = d}
<1>2. HandsOf(d)' = HandsOf(d) /\ CallsOf(d)' = CallsOf(d)
  BY <1>1 DEF HandsOf, CallsOf
<1>3. F \in SUBSET Slots
  OBVIOUS
<1>4. SlotsOf(d)' = SlotsOf(d) \cup ({U} \X F) /\ SlotsOf(d) \cap ({U} \X F) = {}
  <2>1. ASSUME NEW T \in Tables, NEW f \in Slots
        PROVE  slots'[T][f] = d <=> slots[T][f] = d \/ (T = U /\ f \in F)
    BY <1>1, NoneAssumption DEF TablesSound, Typed
  <2>2. \A f \in Slots : slots[U][f] # d
    BY <1>1, NoneAssumption
  <2> HIDE DEF F
  <2> QED BY <1>3, <2>1, <2>2 DEF SlotsOf
<1>5. ref'[d] = ref[d] + Cardinality(F)
  BY <1>1
<1> HIDE DEF F
<1>6. IsFiniteSet({U} \X F) /\ Cardinality({U} \X F) = Cardinality(F) /\ Cardinality(F) \in Nat
  BY <1>3, RowSize
<1>7. IsFiniteSet(SlotsOf(d)) /\ Cardinality(HandsOf(d)) \in Nat /\ ref[d] \in Int
      /\ Cardinality(SlotsOf(d)) \in Nat /\ Cardinality(CallsOf(d)) \in Nat
  BY CountsTyped DEF TablesSound, Typed
<1>8. Cardinality(SlotsOf(d) \cup ({U} \X F)) = Cardinality(SlotsOf(d)) + Cardinality(F)
  BY <1>4, <1>6, <1>7, DisjointCount
<1>9. Cardinality(SlotsOf(d)') = Cardinality(SlotsOf(d)) + Cardinality(F)
  BY <1>4, <1>8
<1> QED BY <1>2, <1>5, <1>6, <1>7, <1>9 DEF Counted

LEMMA RefsInit == Init => RefsExact
<1> SUFFICES ASSUME Init, NEW d \in Descs PROVE Counted(d)
  BY DEF RefsExact, Counted, SlotsOf, CallsOf, HandsOf
<1>1. SlotsOf(d) = {} /\ CallsOf(d) = {} /\ HandsOf(d) = {}
  BY NoneAssumption DEF Init, SlotsOf, CallsOf, HandsOf, Idle
<1>2. Cardinality({}) = 0
  BY FS_EmptySet
<1>3. ref[d] = 0
  BY DEF Init
<1> QED BY <1>1, <1>2, <1>3 DEF Counted

\* What has been raced stays so.
LEMMA RacedStays ==
    ASSUME TablesSound, [Next]_vars
    PROVE  raced \subseteq raced'
<1>1. CASE UNCHANGED vars
  BY <1>1 DEF vars
<1>2. CASE Next
  <2>1. PICK t \in Tasks : \/ Quietly(t) \/ Closing(t) \/ Placing(t) \/ Looking(t)
                           \/ Drain(t) \/ Open(t) \/ DupInstall(t) \/ Fork(t)
                           \/ Dup3Close(t) \/ DupFdFind(t) \/ Publish(t)
    BY <1>2, NextSplits
  <2>2. CASE Quietly(t) \/ Looking(t)
    BY <2>2 DEF Quietly, Finish, SetlkAcquire, SetFdBit, Dup3Expand, Clone, Looking, Use, Dup,
       Setlk, SetFd, Dup3, DupFd, Get
  <2>3. CASE Closing(t)
    BY <2>3, ClosingEffect
  <2>4. CASE Placing(t) \/ Publish(t)
    BY <2>4, PutEffect, PublishEffect DEF Placing
  <2>5. CASE Drain(t) \/ Open(t) \/ DupInstall(t) \/ Fork(t) \/ Dup3Close(t) \/ DupFdFind(t)
    BY <2>5 DEF Drain, Open, DupInstall, Fork, Dup3Close, DupFdFind
  <2> QED BY <2>1, <2>2, <2>3, <2>4, <2>5
<1> QED BY <1>1, <1>2

LEMMA RefsStep ==
    ASSUME TablesSound, RefsExact, [Next]_vars
    PROVE  RefsExact'
<1> SUFFICES ASSUME NEW d \in Descs, d \notin raced' PROVE Counted(d)'
  BY DEF RefsExact, Counted, SlotsOf, CallsOf, HandsOf
<1>0. d \notin raced
  BY RacedStays
<1>1. Counted(d)
  BY <1>0 DEF RefsExact, Counted, SlotsOf, CallsOf, HandsOf
<1>2. CASE UNCHANGED vars
  BY <1>1, <1>2 DEF vars, Counted, SlotsOf, CallsOf, HandsOf
<1>3. CASE Next
  <2>1. PICK t \in Tasks : \/ Quietly(t) \/ Closing(t) \/ Placing(t) \/ Looking(t)
                           \/ Drain(t) \/ Open(t) \/ DupInstall(t) \/ Fork(t)
                           \/ Dup3Close(t) \/ DupFdFind(t) \/ Publish(t)
    BY <1>3, NextSplits
  <2>2. CASE Quietly(t) \/ Closing(t)
    BY <1>1, <2>2, QuietlyCounts, ClosingCounts
  <2>3. CASE Looking(t) \/ Drain(t) \/ Fork(t)
    BY <1>1, <2>3, LookingCounts, DrainCounts, ForkCounts
  <2>4. CASE Open(t) \/ DupInstall(t)
    BY <1>1, <2>4, OpenCounts, DupInstallCounts
  <2>5. CASE Dup3Close(t) \/ DupFdFind(t)
    BY <1>1, <2>5, Dup3CloseCounts, DupFdFindCounts
  <2>6. CASE Placing(t) \/ Publish(t)
    BY <1>1, <2>6, PlacingCounts, PublishCounts
  <2> QED BY <2>1, <2>2, <2>3, <2>4, <2>5, <2>6
<1> QED BY <1>2, <1>3

-----------------------------------------------------------------------------
(* Close-on-exec bits and record locks                                     *)

\* What is open stays so, and a bit is an old one, one of an open slot or stray.
BitsKept ==
    /\ \A T \in Tables, f \in Slots : slots[T][f] # NoDesc => slots'[T][f] # NoDesc
    /\ \A T \in Tables : \A f \in cloexec'[T] :
            f \in Slots /\ (f \in cloexec[T] \/ slots'[T][f] # NoDesc \/ <<T, f>> \in stray')
    /\ stray \subseteq stray'

\* What is open stays and leads to the same description, or the locks on its
\* file are late from now on.
LocksKept ==
    /\ owners' = owners /\ late \subseteq late'
    /\ \A T \in Tables, f \in Slots : slots[T][f] # NoDesc =>
            \/ slots'[T][f] = slots[T][f]
            \/ \A i \in Files : T \in owners[i] /\ File[slots[T][f]] = i => <<i, T>> \in late'

LEMMA KeptBits ==
    ASSUME CloexecOpen, BitsKept
    PROVE  CloexecOpen'
BY DEF CloexecOpen, BitsKept, OpenSlots

LEMMA KeptLocks ==
    ASSUME Typed, LocksOwned, LocksKept
    PROVE  LocksOwned'
<1> SUFFICES ASSUME NEW i \in Files, NEW U \in owners'[i], <<i, U>> \notin late'
             PROVE  HasFile(U, i)'
  BY DEF LocksOwned
<1>1. U \in owners[i] /\ U \in Tables /\ <<i, U>> \notin late
  BY DEF Typed, LocksKept
<1>2. PICK f \in OpenSlots(U) : File[slots[U][f]] = i
  BY <1>1 DEF LocksOwned, HasFile
<1>3. slots'[U][f] = slots[U][f] /\ f \in OpenSlots(U)'
  BY <1>1, <1>2 DEF LocksKept, OpenSlots
<1> QED BY <1>2, <1>3 DEF HasFile

\* Steps that leave the slots, and the bits but for F_SETFD.
LEMMA QuietlyKept ==
    ASSUME TablesSound, NEW t \in Tasks, Quietly(t) \/ Looking(t) \/ Drain(t) \/ DupFdFind(t)
    PROVE  BitsKept /\ (SetlkAcquire(t) \/ LocksKept)
<1>1. slots' = slots
  BY DEF Quietly, Finish, SetlkAcquire, SetFdBit, Dup3Expand, Clone, Looking, Use, Dup, Setlk,
     SetFd, Dup3, DupFd, Get, Drain, DupFdFind
<1>2. SetlkAcquire(t) \/ UNCHANGED <<owners, late>>
  BY DEF Quietly, Finish, SetFdBit, Dup3Expand, Clone, Looking, Use, Dup, Setlk, SetFd, Dup3,
     DupFd, Get, Drain, DupFdFind
<1>3. CASE SetFdBit(t)
  <2> DEFINE f == call[t].to
  <2>1. /\ cloexec' \in [Tables -> SUBSET Slots]
        /\ \A T \in Tables : cloexec'[T] \subseteq
                cloexec[T] \cup (IF T = table[t] /\ call[t].bit THEN {f} ELSE {})
        /\ stray \subseteq stray'
        /\ call[t].bit /\ slots[table[t]][f] = NoDesc => <<table[t], f>> \in stray'
    BY <1>3, SetFdBitEffect
  <2> HIDE DEF f
  <2> QED BY <1>1, <1>2, <2>1 DEF BitsKept, LocksKept
<1>4. CASE ~ SetFdBit(t)
  <2>1. UNCHANGED <<cloexec, stray>>
    BY <1>4 DEF Quietly, Finish, SetlkAcquire, Dup3Expand, Clone, Looking, Use, Dup, Setlk,
       SetFd, Dup3, DupFd, Get, Drain, DupFdFind
  <2> QED BY <1>1, <1>2, <2>1 DEF BitsKept, LocksKept, TablesSound, Typed
<1> QED BY <1>3, <1>4

LEMMA InstallKept ==
    ASSUME TablesSound, NEW t \in Tasks, table[t] \in Tables, NEW d \in Descs,
           NEW bit \in BOOLEAN, NEW ref0 \in [Descs -> Int], Install(table[t], d, bit, ref0),
           UNCHANGED <<owners, late, stray>>
    PROVE  BitsKept /\ LocksKept
<1> DEFINE T == table[t]
<1>1. Typed /\ Within /\ T \in Tables /\ Install(T, d, bit, ref0)
  BY DEF TablesSound
<1> HIDE DEF T
<1>2. \/ UNCHANGED <<slots, size, cloexec>>
      \/ \E f \in Slots :
            /\ slots[T][f] = NoDesc
            /\ slots' = [slots EXCEPT ![T][f] = d]
            /\ cloexec' = [cloexec EXCEPT ![T] = IF bit THEN @ \cup {f} ELSE @ \ {f}]
  BY <1>1, InstallEffect
<1>3. CASE UNCHANGED <<slots, size, cloexec>>
  BY <1>1, <1>3 DEF BitsKept, LocksKept, Typed
<1>4. ASSUME NEW f \in Slots, slots[T][f] = NoDesc, slots' = [slots EXCEPT ![T][f] = d],
             cloexec' = [cloexec EXCEPT ![T] = IF bit THEN @ \cup {f} ELSE @ \ {f}]
      PROVE  BitsKept /\ LocksKept
  <2>1. \A U \in Tables, g \in Slots : slots'[U][g] = IF U = T /\ g = f THEN d ELSE slots[U][g]
    BY <1>1, <1>4 DEF Typed
  <2>2. \A U \in Tables : cloexec'[U] \subseteq cloexec[U] \cup (IF U = T THEN {f} ELSE {})
    BY <1>1, <1>4 DEF Typed
  <2>3. \A U \in Tables : cloexec[U] \subseteq Slots
    BY <1>1 DEF Typed
  <2> QED BY <1>4, <2>1, <2>2, <2>3, NoneAssumption DEF BitsKept, LocksKept
<1> QED BY <1>2, <1>3, <1>4

LEMMA InstallingKept ==
    ASSUME TablesSound, NEW t \in Tasks, Open(t) \/ DupInstall(t)
    PROVE  BitsKept /\ LocksKept
<1>1. CASE Open(t)
  <2>1. table[t] \in Tables /\ UNCHANGED <<owners, late, stray>>
    BY <1>1, OpenEffect
  <2>2. PICK d \in Descs \ born, bit \in BOOLEAN :
            /\ [ref EXCEPT ![d] = 1] \in [Descs -> Int]
            /\ Install(table[t], d, bit, [ref EXCEPT ![d] = 1])
    BY <1>1, OpenEffect
  <2> DEFINE ref0 == [ref EXCEPT ![d] = 1]
  <2>3. ref0 \in [Descs -> Int] /\ Install(table[t], d, bit, ref0) /\ d \in Descs
    BY <2>2
  <2> HIDE DEF ref0
  <2> QED BY <2>1, <2>3, InstallKept
<1>2. CASE DupInstall(t)
  <2> DEFINE d == call[t].fd
             ref0 == [ref EXCEPT ![call[t].fd] = @ + 1]
             bit == FALSE
  <2>1. table[t] \in Tables /\ UNCHANGED <<owners, late, stray>> /\ d \in Descs
        /\ ref0 \in [Descs -> Int] /\ Install(table[t], d, bit, ref0) /\ bit \in BOOLEAN
    BY <1>2, DupInstallEffect
  <2> HIDE DEF d, ref0, bit
  <2> QED BY <2>1, InstallKept
<1> QED BY <1>1, <1>2

\* dup3 and F_DUPFD store over what is there by now.
LEMMA PlacingKept ==
    ASSUME TablesSound, NEW t \in Tasks, Placing(t)
    PROVE  BitsKept /\ LocksKept
<1> DEFINE T == table[t]
           f == call[t].to
           d == call[t].fd
<1>1. /\ T \in Tables /\ f \in Slots /\ d \in Descs
      /\ late \subseteq late' /\ owners' = owners /\ stray' = stray
      /\ \A U \in Tables : cloexec'[U] \subseteq cloexec[U]
  BY PutEffect DEF Placing
<1>2. \/ /\ slots' = [slots EXCEPT ![T][f] = d]
         /\ \A i \in Files : T \in owners[i] /\ slots[T][f] # NoDesc /\ File[slots[T][f]] = i
                             => <<i, T>> \in late'
      \/ slots' = slots
  BY PutEffect DEF Placing
<1> HIDE DEF T, f, d
<1>3. \A U \in Tables, g \in Slots :
            slots'[U][g] = slots[U][g] \/ (U = T /\ g = f /\ slots'[U][g] = d)
  BY <1>1, <1>2 DEF TablesSound, Typed
<1>4. \A U \in Tables : cloexec[U] \subseteq Slots
  BY DEF TablesSound, Typed
<1>5. BitsKept
  BY <1>1, <1>3, <1>4, NoneAssumption DEF BitsKept
<1>6. LocksKept
  <2>1. CASE slots' = slots
    BY <1>1, <2>1 DEF LocksKept
  <2>2. CASE \A i \in Files : T \in owners[i] /\ slots[T][f] # NoDesc /\ File[slots[T][f]] = i
                              => <<i, T>> \in late'
    BY <1>1, <1>3, <2>2 DEF LocksKept
  <2> QED BY <1>2, <2>1, <2>2
<1> QED BY <1>5, <1>6

LEMMA PublishKept ==
    ASSUME TablesSound, CloexecOpen, NEW t \in Tasks, Publish(t)
    PROVE  CloexecOpen' /\ LocksKept
<1> DEFINE T == table[t]
<1>1. /\ T \in Tables /\ cloexec' \in [Tables -> SUBSET Slots] /\ cloexec'[T] = grown[t].cloexec
      /\ \A f \in Slots : slots'[T][f] = grown[t].slots[f]
      /\ \A U \in Tables : U # T => slots'[U] = slots[U] /\ cloexec'[U] = cloexec[U]
      /\ \A x \in stray : x[1] # T => x \in stray'
      /\ \A f \in grown[t].cloexec : grown[t].slots[f] = NoDesc => <<T, f>> \in stray'
  BY PublishEffect
<1>2. /\ owners' = owners /\ late \subseteq late'
      /\ \A f \in Slots : slots'[T][f] # slots[T][f] =>
            \A i \in Files : T \in owners[i] /\ File[slots[T][f]] = i
                        /\ slots[T][f] # NoDesc => <<i, T>> \in late'
  BY PublishEffect
<1> HIDE DEF T
<1>3. CloexecOpen'
  <2> SUFFICES ASSUME NEW U \in Tables, NEW f \in cloexec'[U], <<U, f>> \notin stray'
               PROVE  f \in Slots /\ slots'[U][f] # NoDesc
    BY DEF CloexecOpen, OpenSlots
  <2>1. f \in Slots
    BY <1>1
  <2>2. CASE U = T
    BY <1>1, <2>1, <2>2
  <2>3. CASE U # T
    <3>1. f \in cloexec[U] /\ <<U, f>> \notin stray
      BY <1>1, <2>3
    <3> QED BY <1>1, <2>3, <3>1 DEF CloexecOpen, OpenSlots
  <2> QED BY <2>1, <2>2, <2>3
<1>4. LocksKept
  BY <1>1, <1>2 DEF LocksKept
<1> QED BY <1>3, <1>4

LEMMA ForkKept ==
    ASSUME TablesSound, CloexecOpen, NEW t \in Tasks, Fork(t)
    PROVE  CloexecOpen' /\ LocksKept
<1>1. PICK U \in Tables :
              /\ table[t] \in Tables /\ U # table[t]
              /\ \A f \in Slots : slots[U][f] = NoDesc
              /\ slots' = [slots EXCEPT ![U] = slots[table[t]]]
              /\ cloexec' = [cloexec EXCEPT ![U] = cloexec[table[t]]]
              /\ stray' = stray \cup ({U} \X {f \in Slots : <<table[t], f>> \in stray})
              /\ UNCHANGED <<owners, late>>
  BY ForkEffect
<1>2. slots'[U] = slots[table[t]] /\ cloexec'[U] = cloexec[table[t]]
      /\ \A T \in Tables \ {U} : slots'[T] = slots[T] /\ cloexec'[T] = cloexec[T]
  BY <1>1 DEF TablesSound, Typed
<1>3. LocksKept
  BY <1>1, <1>2 DEF LocksKept
<1>4. stray \subseteq stray' /\ \A f \in Slots : <<table[t], f>> \in stray => <<U, f>> \in stray'
  BY <1>1
<1>5. CloexecOpen'
  <2> SUFFICES ASSUME NEW T \in Tables, NEW f \in cloexec'[T], <<T, f>> \notin stray'
               PROVE  f \in Slots /\ slots'[T][f] # NoDesc
    BY DEF CloexecOpen, OpenSlots
  <2> DEFINE V == IF T = U THEN table[t] ELSE T
  <2>1. V \in Tables /\ f \in cloexec[V] /\ slots'[T] = slots[V]
    BY <1>1, <1>2
  <2>2. f \in Slots
    BY <2>1 DEF TablesSound, Typed
  <2>3. <<V, f>> \notin stray
    BY <1>4, <2>2
  <2> HIDE DEF V
  <2> QED BY <2>1, <2>3 DEF CloexecOpen, OpenSlots
<1> QED BY <1>3, <1>5

\* A close takes the bits of the slots it closes.
LEMMA CloseCloexec ==
    ASSUME Typed, CloexecOpen, NEW T \in Tables, NEW S \in SUBSET Slots,
           NEW ref0 \in [Descs -> Int], CloseSlots(T, S, ref0)
    PROVE  CloexecOpen'
<1>1. /\ slots' = [slots EXCEPT ![T] = [f \in Slots |-> IF f \in S THEN NoDesc
                                                        ELSE slots[T][f]]]
      /\ cloexec' = [cloexec EXCEPT ![T] = @ \ S]
      /\ stray' = stray \ ({T} \X S)
  BY DEF CloseSlots, Typed
<1>2. SUFFICES ASSUME NEW U \in Tables, NEW f \in cloexec'[U], <<U, f>> \notin stray'
               PROVE  f \in Slots /\ slots'[U][f] # NoDesc
  BY DEF CloexecOpen, OpenSlots
<1>3. f \in cloexec[U] /\ (U = T => f \notin S)
  BY <1>1 DEF Typed
<1>4. <<U, f>> \notin stray
  BY <1>1, <1>2, <1>3
<1>5. f \in Slots /\ slots[U][f] # NoDesc
  BY <1>3, <1>4 DEF CloexecOpen, OpenSlots
<1>6. slots'[U][f] = slots[U][f]
  BY <1>1, <1>3, <1>5 DEF Typed
<1> QED BY <1>5, <1>6

\* A close takes the locks its table owns on the files it closes; a lock that
\* stays has another descriptor of its file, or was placed late.
LEMMA CloseLocks ==
    ASSUME Typed, LocksOwned, NEW T \in Tables, NEW S \in SUBSET Slots,
           NEW ref0 \in [Descs -> Int], CloseSlots(T, S, ref0)
    PROVE  LocksOwned'
<1> DEFINE open == S \cap OpenSlots(T)
           gone == {File[slots[T][f]] : f \in open}
<1>1. slots' = [slots EXCEPT ![T] = [f \in Slots |-> IF f \in S THEN NoDesc
                                                     ELSE slots[T][f]]]
  BY DEF CloseSlots, Typed
<1>2. /\ owners' = [i \in Files |-> IF i \in gone THEN owners[i] \ {T} ELSE owners[i]]
      /\ late' = {l \in late : l[1] \notin gone \/ l[2] # T}
  BY DEF CloseSlots
<1>3. SUFFICES ASSUME NEW i \in Files, NEW U \in owners'[i], <<i, U>> \notin late'
               PROVE  HasFile(U, i)'
  BY DEF LocksOwned
<1>4. U \in owners[i] /\ U \in Tables /\ (U = T => i \notin gone)
  BY <1>2 DEF Typed
<1> HIDE DEF gone
<1>5. <<i, U>> \notin late
  BY <1>2, <1>3, <1>4
<1>6. PICK f \in OpenSlots(U) : File[slots[U][f]] = i
  BY <1>4, <1>5 DEF LocksOwned, HasFile
<1>7. U = T => f \notin S
  BY <1>4, <1>6 DEF gone
<1>8. slots'[U][f] = slots[U][f] /\ f \in OpenSlots(U)'
  BY <1>1, <1>4, <1>6, <1>7 DEF Typed, OpenSlots
<1> QED BY <1>6, <1>8 DEF HasFile

LEMMA SetlkLocks ==
    ASSUME TablesSound, LocksOwned, NEW t \in Tasks, SetlkAcquire(t)
    PROVE  LocksOwned'
<1> DEFINE T == table[t]
           i == File[call[t].fd]
<1>1. /\ \/ /\ owners' = [owners EXCEPT ![i] = @ \cup {T}]
            /\ late' = IF HasFile(T, i) THEN late \ {<<i, T>>} ELSE late \cup {<<i, T>>}
         \/ /\ owners' = [owners EXCEPT ![i] = @ \ {T}]
            /\ late' = late \ {<<i, T>>}
         \/ UNCHANGED <<owners, late>>
      /\ slots' = slots
  BY DEF SetlkAcquire
<1> HIDE DEF i, T
<1>2. SUFFICES ASSUME NEW j \in Files, NEW U \in owners'[j], <<j, U>> \notin late'
               PROVE  HasFile(U, j)'
  BY DEF LocksOwned
<1>3. HasFile(U, j)' = HasFile(U, j)
  BY <1>1 DEF HasFile, OpenSlots
<1>4. CASE U = T /\ j = i
  <2>1. \/ HasFile(T, i)
        \/ T \in owners[i] /\ <<i, T>> \notin late
    BY <1>1, <1>2, <1>4 DEF TablesSound, Typed
  <2> QED BY <1>2, <1>3, <1>4, <2>1 DEF LocksOwned
<1>5. CASE ~ (U = T /\ j = i)
  <2>1. U \in owners[j]
    BY <1>1, <1>2, <1>5 DEF TablesSound, Typed
  <2>2. <<j, U>> \notin late
    BY <1>1, <1>2, <1>5
  <2> QED BY <1>2, <1>3, <2>1, <2>2 DEF LocksOwned
<1> QED BY <1>4, <1>5

\* The steps that close slots.
LEMMA ClosingSound ==
    ASSUME TablesSound, CloexecOpen, LocksOwned, NEW t \in Tasks, Closing(t) \/ Dup3Close(t)
    PROVE  CloexecOpen' /\ LocksOwned'
<1>1. ASSUME table[t] \in Tables, NEW S \in SUBSET Slots, NEW ref0 \in [Descs -> Int],
             CloseSlots(table[t], S, ref0)
      PROVE  CloexecOpen' /\ LocksOwned'
  <2> DEFINE T == table[t]
  <2>1. T \in Tables /\ CloseSlots(T, S, ref0) /\ Typed
    BY <1>1 DEF TablesSound
  <2> HIDE DEF T
  <2> QED BY <2>1, CloseCloexec, CloseLocks
<1>2. CASE Dup3Close(t)
  <2> DEFINE ref0 == [ref EXCEPT ![call[t].fd] = @ + 1]
  <2>1. /\ table[t] \in Tables /\ ref0 \in [Descs -> Int]
        /\ \E S \in SUBSET Slots : CloseSlots(table[t], S, ref0)
    BY <1>2, Dup3CloseEffect
  <2> HIDE DEF ref0
  <2> QED BY <1>1, <2>1
<1>3. CASE Closing(t)
  <2>1. table[t] \in Tables
    BY <1>3, ClosingEffect
  <2>2. \/ \E S \in SUBSET Slots : CloseSlots(table[t], S, ref)
        \/ /\ \E S \in SUBSET OpenSlots(table[t]) :
                  cloexec' = [cloexec EXCEPT ![table[t]] = @ \cup S]
           /\ UNCHANGED <<slots, ref, owners, late, stray>>
        \/ UNCHANGED <<slots, cloexec, ref, owners, late, stray>>
    BY <1>3, ClosingEffect
  <2>3. CASE \E S \in SUBSET Slots : CloseSlots(table[t], S, ref)
    <3> DEFINE ref0 == ref
    <3>1. PICK S \in SUBSET Slots : CloseSlots(table[t], S, ref0)
      BY <2>3
    <3>2. ref0 \in [Descs -> Int]
      BY DEF TablesSound, Typed
    <3> HIDE DEF ref0
    <3> QED BY <1>1, <2>1, <3>1, <3>2
  <2>4. CASE /\ UNCHANGED <<slots, owners, late, stray>>
             /\ \E S \in SUBSET OpenSlots(table[t]) :
                  cloexec' = [cloexec EXCEPT ![table[t]] = @ \cup S]
    <3>1. \A T \in Tables : cloexec'[T] \subseteq cloexec[T] \cup OpenSlots(T)
      BY <2>4 DEF TablesSound, Typed
    <3>2. BitsKept /\ LocksKept
      BY <2>4, <3>1 DEF BitsKept, LocksKept, OpenSlots, TablesSound, Typed
    <3> QED BY <3>2, KeptBits, KeptLocks DEF TablesSound
  <2>5. CASE UNCHANGED <<slots, cloexec, ref, owners, late, stray>>
    <3>1. BitsKept /\ LocksKept
      BY <2>5 DEF BitsKept, LocksKept, TablesSound, Typed
    <3> QED BY <3>1, KeptBits, KeptLocks DEF TablesSound
  <2> QED BY <2>2, <2>3, <2>4, <2>5
<1> QED BY <1>2, <1>3

LEMMA OwnedStep ==
    ASSUME TablesSound, CloexecOpen, LocksOwned, [Next]_vars
    PROVE  CloexecOpen' /\ LocksOwned'
<1>1. CASE UNCHANGED vars
  BY <1>1 DEF vars, CloexecOpen, LocksOwned, HasFile, OpenSlots
<1>2. CASE Next
  <2>1. PICK t \in Tasks : \/ Quietly(t) \/ Closing(t) \/ Placing(t) \/ Looking(t)
                           \/ Drain(t) \/ Open(t) \/ DupInstall(t) \/ Fork(t)
                           \/ Dup3Close(t) \/ DupFdFind(t) \/ Publish(t)
    BY <1>2, NextSplits
  <2>2. CASE Closing(t) \/ Dup3Close(t)
    BY <2>2, ClosingSound
  <2>3. CASE Placing(t) \/ Open(t) \/ DupInstall(t)
    <3>1. BitsKept /\ LocksKept
      BY <2>3, PlacingKept, InstallingKept
    <3> QED BY <3>1, KeptBits, KeptLocks DEF TablesSound
  <2>4. CASE Publish(t) \/ Fork(t)
    <3>1. CloexecOpen' /\ LocksKept
      BY <2>4, PublishKept, ForkKept
    <3> QED BY <3>1, KeptLocks DEF TablesSound
  <2>5. CASE Quietly(t) \/ Looking(t) \/ Drain(t) \/ DupFdFind(t)
    <3>1. BitsKept /\ (SetlkAcquire(t) \/ LocksKept)
      BY <2>5, QuietlyKept
    <3>2. LocksOwned'
      BY <3>1, SetlkLocks, KeptLocks DEF TablesSound
    <3> QED BY <3>1, <3>2, KeptBits
  <2> QED BY <2>1, <2>2, <2>3, <2>4, <2>5
<1> QED BY <1>1, <1>2

-----------------------------------------------------------------------------
(* The theorems                                                            *)

Sound == TablesSound /\ RefsExact /\ CloexecOpen /\ LocksOwned

LEMMA Invariance == Spec => []Sound
<1>1. Init => Sound
  <2>1. Init => CloexecOpen /\ LocksOwned
    BY DEF Init, CloexecOpen, LocksOwned
  <2> QED BY <2>1, TablesInit, RefsInit DEF Sound
<1>2. Sound /\ [Next]_vars => Sound'
  BY TablesStep, RefsStep, OwnedStep DEF Sound
<1> QED BY <1>1, <1>2, PTL DEF Spec

\* f_get, f_retain, f_install, fd_close and the drain keep fd->refcount equal to
\* the slots, calls and hands that hold the description, whatever a table is
\* shared by; but for a description that dup3 or F_DUPFD stored over, or brought
\* back, in a table another thread had changed.
THEOREM RefsCorrect == Spec => []RefsExact
<1>1. Sound => RefsExact
  BY DEF Sound
<1> QED BY <1>1, Invariance, PTL

\* A description that a slot leads to has a reference, unless it was raced: f_get
\* returns a freed one only after dup3 or F_DUPFD wrote a shared table.
THEOREM LookupCorrect == Spec => []LookupAlive
<1>1. Sound => LookupAlive
  <2> SUFFICES ASSUME Sound, NEW T \in Tables, NEW f \in Slots,
                      slots[T][f] \notin raced \cup {NoDesc}
               PROVE  ref[slots[T][f]] > 0
    BY DEF LookupAlive
  <2>1. slots[T][f] \in Descs /\ TablesSound /\ RefsExact
    BY DEF Sound, TablesSound, Typed
  <2> DEFINE d == slots[T][f]
  <2>2. d \in Descs /\ d \notin raced /\ <<T, f>> \in SlotsOf(d)
    BY <2>1 DEF SlotsOf
  <2> HIDE DEF d
  <2>3. Counted(d)
    BY <2>1, <2>2 DEF RefsExact, Counted, SlotsOf, CallsOf, HandsOf
  <2>4. Cardinality(SlotsOf(d)) # 0
    BY <2>2, CountsTyped, FS_EmptySet
  <2>5. ref[d] > 0
    BY <2>3, <2>4, CountsTyped DEF Counted
  <2> QED BY <2>5 DEF d
<1> QED BY <1>1, Invariance, PTL

\* The state is well-typed; no count falls below zero, but of a raced description.
THEOREM TypeCorrect == Spec => []TypeOK
<1>1. Sound => TypeOK
  <2> SUFFICES ASSUME Sound PROVE TypeOK
    OBVIOUS
  <2>1. Typed /\ UsersExact /\ RefsExact
    BY DEF Sound, TablesSound
  <2>2. users \in [Tables -> Nat]
    <3>1. ASSUME NEW T \in Tables PROVE users[T] \in Nat
      <4> DEFINE S == {t \in Tasks : table[t] = T}
      <4>1. Cardinality(S) \in Nat
        BY FiniteAssumption, FS_Subset, FS_CardinalityType
      <4> QED BY <2>1, <4>1 DEF UsersExact
    <3> QED BY <2>1, <3>1 DEF Typed
  <2>3. ASSUME NEW d \in Descs \ raced PROVE ref[d] >= 0
    <3>1. Counted(d)
      BY <2>1 DEF RefsExact, Counted, SlotsOf, CallsOf, HandsOf
    <3> QED BY <3>1, CountsTyped DEF Counted
  <2>4. slots \in [Tables -> [Slots -> Descs \cup {NoDesc}]] /\ refs \in [Tasks -> SUBSET Descs]
    BY <2>1 DEF Typed
  <2> QED BY <2>1, <2>2, <2>3, <2>4 DEF Typed, TypeOK, Copies
<1> QED BY <1>1, Invariance, PTL

\* A close-on-exec bit outlives its descriptor only when F_SETFD, dup3 or F_DUPFD
\* set it, or a growing table brought it back, after another thread's close; and
\* then until the slot's next close.
THEOREM CloexecCorrect == Spec => []CloexecOpen
<1>1. Sound => CloexecOpen
  BY DEF Sound
<1> QED BY <1>1, Invariance, PTL

\* A record lock outlives the descriptors of its file only when it was placed
\* after the last of them was closed, or when one was stored over without a close.
THEOREM LocksCorrect == Spec => []LocksOwned
<1>1. Sound => LocksOwned
  BY DEF Sound
<1> QED BY <1>1, Invariance, PTL

-----------------------------------------------------------------------------
(***************************************************************************)
(* Induction over positions, for the loops over the list.                  *)
(***************************************************************************)

\* A set of natural numbers that has a member has a least one.
LEMMA LeastMember ==
    ASSUME NEW S \in SUBSET Nat, S # {}
    PROVE  \E n \in S : \A m \in S : n <= m
  <1>1. PICK x \in S : \A y \in S : ~ (<<y, x>> \in OpToRel(<, Nat))
    BY NatLessThanWellFounded, WFMin
  <1>2. ASSUME NEW y \in S PROVE x <= y
    <2>1. x \in Nat /\ y \in Nat
      OBVIOUS
    <2>2. ~ (y < x)
      BY <1>1, <2>1 DEF OpToRel
    <2> QED BY <2>1, <2>2
  <1> QED BY <1>2

\* A set that has 0 and with each number below n the next one has all up to n.
LEMMA CountUp ==
    ASSUME NEW n \in Nat, NEW S, 0 \in S, \A i \in 0 .. n - 1 : i \in S => i + 1 \in S
    PROVE  \A i \in 0 .. n : i \in S
  <1> DEFINE T == {i \in 0 .. n : i \notin S}
  <1> SUFFICES ASSUME T # {} PROVE FALSE
    OBVIOUS
  <1>0. T \in SUBSET Nat
    OBVIOUS
  <1>1. PICK k \in T : \A m \in T : k <= m
    BY <1>0, LeastMember
  <1>2. k # 0 /\ k - 1 \in 0 .. n - 1 /\ k - 1 \notin T
    BY <1>1
  <1> QED BY <1>1, <1>2

\* A loop of n turns from a, whose i-th turn makes turn[<<i, x>>] of x.
Runs(f, n, a, turn) == f = [i \in 0 .. n |-> IF i = 0 THEN a ELSE turn[<<i, f[i - 1]>>]]

LEMMA LoopRuns ==
    ASSUME NEW n \in Nat, NEW X, NEW a \in X, NEW turn \in [(1 .. n) \X X -> X]
    PROVE  \E f \in [0 .. n -> X] : Runs(f, n, a, turn)
  <1> DEFINE S == {i \in 0 .. n : \E f \in [0 .. i -> X] : Runs(f, i, a, turn)}
  <1>1. 0 \in S
    <2>1. [i \in 0 .. 0 |-> a] \in [0 .. 0 -> X] /\ Runs([i \in 0 .. 0 |-> a], 0, a, turn)
      BY DEF Runs
    <2> QED BY <2>1
  <1>2. ASSUME NEW i \in 0 .. n - 1, i \in S PROVE i + 1 \in S
    <2>1. PICK f \in [0 .. i -> X] : Runs(f, i, a, turn)
      BY <1>2
    <2> DEFINE g == [j \in 0 .. i + 1 |-> IF j = i + 1 THEN turn[<<j, f[i]>>] ELSE f[j]]
    <2>2. i \in 0 .. i /\ i + 1 \in 1 .. n /\ f[i] \in X
      OBVIOUS
    <2>3. g \in [0 .. i + 1 -> X]
      BY <2>2
    <2>4. ASSUME NEW j \in 0 .. i + 1
          PROVE  g[j] = IF j = 0 THEN a ELSE turn[<<j, g[j - 1]>>]
      <3>1. CASE j = 0
        BY <2>1, <3>1 DEF Runs
      <3>2. CASE j = i + 1
        BY <2>2, <3>2
      <3>3. CASE j # 0 /\ j # i + 1
        <4>1. j \in 0 .. i /\ j - 1 \in 0 .. i
          BY <3>3
        <4>2. f[j] = turn[<<j, f[j - 1]>>]
          BY <2>1, <3>3, <4>1 DEF Runs
        <4>3. j - 1 \in 0 .. i + 1 /\ j - 1 # i + 1
          BY <4>1
        <4>4. g[j] = f[j] /\ g[j - 1] = f[j - 1]
          BY <3>3, <4>3
        <4> QED BY <3>3, <4>2, <4>4
      <3> QED BY <3>1, <3>2, <3>3
    <2> HIDE DEF g
    <2>5. Runs(g, i + 1, a, turn)
      BY <2>3, <2>4 DEF Runs
    <2> QED BY <2>2, <2>3, <2>5
  <1> HIDE DEF S
  <1>3. n \in S
    BY <1>1, <1>2, CountUp
  <1> QED BY <1>3 DEF S

-----------------------------------------------------------------------------
(***************************************************************************)
(* Requests and bytes.                                                     *)
(***************************************************************************)

\* The locks a list may have, and the requests.
Lock == {l \in [owner : Owners, type : {"read", "write"}, start : Bytes, end : Bytes] :
            l.start <= l.end}
Request == {r \in [owner : Owners, type : Types, start : Bytes, end : Bytes] :
               r.start <= r.end}

LEMMA RangeBounds ==
    ASSUME NEW r \in Ranges
    PROVE  r.start \in Int /\ r.end \in Int /\ r.start <= r.end /\ r.end <= MaxOff
  <1>1. PICK ask \in Asks : r = FromFlock(ask[1], ask[2]) /\ r.end <= MaxOff
    BY DEF Ranges
  <1>2. ask[1] \in 0 .. MaxOff /\ ask[2] \in Int /\ MaxOff \in Nat
    BY OffAssumption
  <1> QED BY <1>1, <1>2 DEF FromFlock

\* From every byte a request starts at, all that follow.
LEMMA BytesUp ==
    /\ Bytes \subseteq Int
    /\ \A b \in Bytes, c \in Int : b <= c /\ c <= MaxOff => c \in Bytes
    /\ \A b \in Bytes : b <= MaxOff
    /\ \A r \in Ranges : r.start \in Bytes /\ r.end \in Bytes
  <1>1. MaxOff \in Nat
    BY OffAssumption
  <1>2. \A b : b \in Bytes <=> \E r \in Ranges : b \in r.start .. MaxOff
    BY DEF Bytes
  <1> QED BY <1>1, <1>2, RangeBounds

LEMMA RequestTyped ==
    ASSUME NEW types \in SUBSET Types, NEW r \in Requests(types)
    PROVE  /\ r \in Request /\ r.type \in types
           /\ \E s \in Ranges : r.start = s.start /\ r.end = s.end
  <1>1. PICK o \in Owners, type \in types, s \in Ranges :
            r = [owner |-> o, type |-> type, start |-> s.start, end |-> s.end]
    BY DEF Requests
  <1> QED BY <1>1, RangeBounds, BytesUp DEF Request

-----------------------------------------------------------------------------
(***************************************************************************)
(* Pairs of locks.                                                         *)
(***************************************************************************)

\* Two locks of one owner that may stand in the list together, and a lock that
\* is a part of another.
Apart(x, y) == ~ Overlap(x, y) /\ (x.type = y.type => ~ Adjacent(x, y))
PartOf(x, y) == /\ x.owner = y.owner /\ x.type = y.type
                /\ y.start <= x.start /\ x.end <= y.end

AllApart(s) == \A j, k \in DOMAIN s :
    j # k /\ s[j].owner = s[k].owner => Apart(s[j], s[k])
Grouped(s) == \A j, k \in DOMAIN s : j < k /\ s[j].owner = s[k].owner =>
    \A n \in j .. k : s[n].owner = s[j].owner

Between(l) == l.start \in Int /\ l.end \in Int /\ l.start <= l.end

LEMMA LockBetween ==
    /\ \A l \in Lock : Between(l) /\ l.type \in {"read", "write"} /\ l.owner \in Owners
    /\ \A r \in Request : Between(r) /\ r.type \in Types /\ r.owner \in Owners
  BY BytesUp DEF Lock, Request, Between

LEMMA ApartSwaps ==
    ASSUME NEW x, NEW y, Between(x), Between(y), Apart(x, y)
    PROVE  Apart(y, x)
  BY DEF Between, Apart, Overlap, Adjacent

\* Parts of what is apart are apart.
LEMMA PartsApart ==
    ASSUME NEW x, NEW y, NEW x0, NEW y0,
           Between(x), Between(y), Between(x0), Between(y0),
           PartOf(x, x0), PartOf(y, y0), Apart(x0, y0)
    PROVE  Apart(x, y)
  BY DEF Between, PartOf, Apart, Overlap, Adjacent

LEMMA SpanOf ==
    ASSUME NEW x, NEW y, Between(x), Between(y)
    PROVE  /\ ~ Overlap(x, y) <=> \A b \in Int : ~ (b \in Span(x) /\ b \in Span(y))
           /\ Span(x) \subseteq Int /\ x.start \in Span(x)
  <1>1. /\ Span(x) \subseteq Int /\ x.start \in Span(x)
    BY DEF Between, Span
  <1>2. ASSUME ~ Overlap(x, y), NEW b \in Int, b \in Span(x), b \in Span(y) PROVE FALSE
    BY <1>2 DEF Between, Span, Overlap
  <1>3. ASSUME Overlap(x, y) PROVE \E b \in Int : b \in Span(x) /\ b \in Span(y)
    <2>1. CASE x.start <= y.start
      BY <1>3, <2>1 DEF Between, Span, Overlap
    <2>2. CASE y.start <= x.start
      BY <1>3, <2>2 DEF Between, Span, Overlap
    <2> QED BY <2>1, <2>2 DEF Between
  <1> QED BY <1>1, <1>2, <1>3

\* The list in these terms.
LEMMA ListTerms ==
    ASSUME locks \in Seq(Lock)
    PROVE  ListSound <=> Grouped(locks) /\ AllApart(locks)
  <1>1. \A k \in DOMAIN locks : Between(locks[k])
    BY LockBetween
  <1>2. DOMAIN locks \subseteq Nat
    OBVIOUS
  <1>3. ASSUME ListSound, NEW j \in DOMAIN locks, NEW k \in DOMAIN locks, j # k,
               locks[j].owner = locks[k].owner
        PROVE  Apart(locks[j], locks[k])
    <2>1. CASE j < k
      BY <1>3, <2>1 DEF ListSound, Apart
    <2>2. CASE k < j
      <3>1. Apart(locks[k], locks[j])
        BY <1>3, <2>2 DEF ListSound, Apart
      <3> QED BY <1>1, <3>1, ApartSwaps
    <2> QED BY <1>2, <1>3, <2>1, <2>2
  <1>4. ListSound => Grouped(locks)
    BY DEF ListSound, Grouped
  <1>5. ASSUME Grouped(locks), AllApart(locks) PROVE ListSound
    BY <1>2, <1>5 DEF ListSound, Grouped, AllApart, Apart
  <1> QED BY <1>3, <1>4, <1>5 DEF AllApart

LEMMA ListTyped == LockIInv => /\ locks \in Seq(Lock) /\ Grouped(locks) /\ AllApart(locks)
  <1> SUFFICES ASSUME LockIInv
               PROVE  locks \in Seq(Lock) /\ Grouped(locks) /\ AllApart(locks)
    OBVIOUS
  <1>1. locks \in Seq(Lock)
    <2> DEFINE AnyLock == [owner : Owners, type : Types \ {"none"}, start : Bytes, end : Bytes]
    <2>1. locks \in Seq(AnyLock)
      BY DEF LockIInv, LockTypeOK
    <2> HIDE DEF AnyLock
    <2>2. \A k \in DOMAIN locks : locks[k] \in AnyLock
      BY <2>1
    <2>5. \A k \in DOMAIN locks : locks[k].start <= locks[k].end
      BY DEF LockIInv, Proper
    <2>3. Types \ {"none"} = {"read", "write"}
      BY DEF Types
    <2>4. \A k \in DOMAIN locks : locks[k] \in Lock
      BY <2>2, <2>3, <2>5 DEF Lock, AnyLock
    <2> QED BY <2>1, <2>4
  <1> QED BY <1>1, ListTerms DEF LockIInv

-----------------------------------------------------------------------------
(***************************************************************************)
(* One lock of the owner meets the request.                                *)
(***************************************************************************)

\* The parts of l before and behind r, and what covers both.
Front(l, r) == [l EXCEPT !.end = r.start - 1]
Back(l, r) == [l EXCEPT !.start = r.end + 1]
Hull(l, r) == [r EXCEPT !.start = IF l.start < r.start THEN l.start ELSE r.start,
                        !.end = IF l.end > r.end THEN l.end ELSE r.end]

LEMMA FrontIs ==
    ASSUME NEW l \in Lock, NEW r \in Request, Overlap(l, r), l.start < r.start
    PROVE  /\ Front(l, r) \in Lock /\ PartOf(Front(l, r), l)
           /\ Front(l, r).start = l.start /\ Front(l, r).end = r.start - 1
  <1>1. Between(l) /\ Between(r) /\ r.start - 1 \in Int
    BY LockBetween DEF Between
  <1>2. r.start - 1 \in Bytes
    <2>1. l.start \in Bytes /\ r.start \in Bytes /\ r.start <= MaxOff
      BY BytesUp DEF Lock, Request
    <2>2. l.start <= r.start - 1 /\ r.start - 1 <= MaxOff
      BY <1>1, <2>1, OffAssumption DEF Between
    <2> QED BY <1>1, <2>1, <2>2, BytesUp
  <1> QED BY <1>1, <1>2 DEF Front, Lock, PartOf, Between, Overlap

LEMMA BackIs ==
    ASSUME NEW l \in Lock, NEW r \in Request, Overlap(l, r), l.end > r.end
    PROVE  /\ Back(l, r) \in Lock /\ PartOf(Back(l, r), l)
           /\ Back(l, r).start = r.end + 1 /\ Back(l, r).end = l.end
  <1>1. Between(l) /\ Between(r) /\ r.end + 1 \in Int
    BY LockBetween DEF Between
  <1>2. r.end + 1 \in Bytes
    <2>1. l.end \in Bytes /\ r.end \in Bytes /\ l.end <= MaxOff
      BY BytesUp DEF Lock, Request
    <2>2. r.end <= r.end + 1 /\ r.end + 1 <= MaxOff
      BY <1>1, <2>1, OffAssumption DEF Between
    <2> QED BY <1>1, <2>1, <2>2, BytesUp
  <1> QED BY <1>1, <1>2 DEF Back, Lock, PartOf, Between, Overlap

LEMMA HullIs ==
    ASSUME NEW l \in Lock, NEW r \in Request
    PROVE  /\ Hull(l, r) \in Request
           /\ Hull(l, r).owner = r.owner /\ Hull(l, r).type = r.type
           /\ Hull(l, r).start = IF l.start < r.start THEN l.start ELSE r.start
           /\ Hull(l, r).end = IF l.end > r.end THEN l.end ELSE r.end
  <1>1. Between(l) /\ Between(r)
    BY LockBetween
  <1>2. /\ Hull(l, r).owner = r.owner /\ Hull(l, r).type = r.type
        /\ Hull(l, r).start = IF l.start < r.start THEN l.start ELSE r.start
        /\ Hull(l, r).end = IF l.end > r.end THEN l.end ELSE r.end
    BY DEF Hull, Request
  <1> DEFINE s == IF l.start < r.start THEN l.start ELSE r.start
             e == IF l.end > r.end THEN l.end ELSE r.end
  <1>3. s \in Bytes /\ e \in Bytes /\ s <= e
    BY <1>1 DEF Lock, Request, Between
  <1>4. Hull(l, r) = [r EXCEPT !.start = s, !.end = e]
    BY DEF Hull
  <1> HIDE DEF s, e
  <1>5. Hull(l, r) \in Request
    BY <1>3, <1>4 DEF Request
  <1> QED BY <1>2, <1>5

\* What is left of a lock: parts of it that do not touch each other and cover it
\* but for the request.
LEMMA RestIs ==
    ASSUME NEW l \in Lock, NEW r \in Request, Overlap(l, r)
    PROVE  /\ Rest(l, r) \in Seq(Lock)
           /\ \A k \in DOMAIN Rest(l, r) :
                PartOf(Rest(l, r)[k], l) /\ ~ Overlap(Rest(l, r)[k], r)
           /\ \A j, k \in DOMAIN Rest(l, r) : j # k => Apart(Rest(l, r)[j], Rest(l, r)[k])
           /\ \A b \in Span(l) : b \in Span(r)
                \/ \E k \in DOMAIN Rest(l, r) : b \in Span(Rest(l, r)[k])
  <1> DEFINE f == Front(l, r)
             g == Back(l, r)
             left == Rest(l, r)
  <1>1. Between(l) /\ Between(r)
    BY LockBetween
  <1>2. CASE l.start < r.start /\ l.end > r.end
    <2>0. left = <<f>> \o <<g>>
      BY <1>2 DEF Rest, Front, Back
    <2>2. f \in Lock /\ g \in Lock /\ PartOf(f, l) /\ PartOf(g, l)
      BY <1>2, FrontIs, BackIs
    <2>3. /\ f.start = l.start /\ f.end = r.start - 1
          /\ g.start = r.end + 1 /\ g.end = l.end
      BY <1>2, FrontIs, BackIs
    <2> HIDE DEF f, g, left
    <2>1. /\ left \in Seq(Lock) /\ Len(left) = 2
          /\ left[1] = f /\ left[2] = g
      <3>1. <<f>> \in Seq(Lock) /\ <<g>> \in Seq(Lock) /\ Len(<<f>>) = 1 /\ Len(<<g>>) = 1
        BY <2>2
      <3> QED BY <2>0, <3>1, ConcatProperties
    <2>4. Apart(f, g) /\ Apart(g, f) /\ ~ Overlap(f, r) /\ ~ Overlap(g, r)
      BY <1>1, <2>3 DEF Between, Apart, Overlap, Adjacent
    <2>5. \A b \in Span(l) : b \in Span(r) \/ b \in Span(f) \/ b \in Span(g)
      BY <1>1, <2>3 DEF Between, Span
    <2>6. /\ DOMAIN left = {1, 2} /\ left[1] = f /\ left[2] = g /\ left \in Seq(Lock)
      BY <2>1, <2>2
    <2>7. /\ \A k \in DOMAIN left : PartOf(left[k], l) /\ ~ Overlap(left[k], r)
          /\ \A j, k \in DOMAIN left : j # k => Apart(left[j], left[k])
      BY <2>2, <2>4, <2>6
    <2>8. \A b \in Span(l) : b \in Span(r) \/ \E k \in DOMAIN left : b \in Span(left[k])
      BY <2>5, <2>6
    <2> QED BY <2>6, <2>7, <2>8 DEF left
  <1>3. CASE l.start < r.start /\ ~ l.end > r.end
    <2>1. left = <<f>>
      BY <1>3 DEF Rest, Front
    <2>2. f \in Lock /\ PartOf(f, l) /\ f.start = l.start /\ f.end = r.start - 1
      BY <1>3, FrontIs
    <2> HIDE DEF f, left
    <2>3. ~ Overlap(f, r)
      BY <1>1, <2>2 DEF Between, Overlap
    <2>4. \A b \in Span(l) : b \in Span(r) \/ b \in Span(f)
      BY <1>1, <1>3, <2>2 DEF Between, Span
    <2>5. DOMAIN left = {1} /\ left[1] = f /\ left \in Seq(Lock)
      BY <2>1, <2>2
    <2>6. /\ \A k \in DOMAIN left : PartOf(left[k], l) /\ ~ Overlap(left[k], r)
          /\ \A j, k \in DOMAIN left : j # k => Apart(left[j], left[k])
          /\ \A b \in Span(l) : b \in Span(r) \/ \E k \in DOMAIN left : b \in Span(left[k])
      BY <2>2, <2>3, <2>4, <2>5
    <2> QED BY <2>5, <2>6 DEF left
  <1>4. CASE ~ l.start < r.start /\ l.end > r.end
    <2>1. left = <<g>>
      BY <1>4 DEF Rest, Back
    <2>2. g \in Lock /\ PartOf(g, l) /\ g.start = r.end + 1 /\ g.end = l.end
      BY <1>4, BackIs
    <2> HIDE DEF g, left
    <2>3. ~ Overlap(g, r)
      BY <1>1, <2>2 DEF Between, Overlap
    <2>4. \A b \in Span(l) : b \in Span(r) \/ b \in Span(g)
      BY <1>1, <1>4, <2>2 DEF Between, Span
    <2>5. DOMAIN left = {1} /\ left[1] = g /\ left \in Seq(Lock)
      BY <2>1, <2>2
    <2>6. /\ \A k \in DOMAIN left : PartOf(left[k], l) /\ ~ Overlap(left[k], r)
          /\ \A j, k \in DOMAIN left : j # k => Apart(left[j], left[k])
          /\ \A b \in Span(l) : b \in Span(r) \/ \E k \in DOMAIN left : b \in Span(left[k])
      BY <2>2, <2>3, <2>4, <2>5
    <2> QED BY <2>5, <2>6 DEF left
  <1>5. CASE ~ l.start < r.start /\ ~ l.end > r.end
    <2>1. left = <<>>
      BY <1>5 DEF Rest
    <2>2. \A b \in Span(l) : b \in Span(r)
      BY <1>1, <1>5 DEF Between, Span
    <2>3. <<>> \in Seq(Lock) /\ DOMAIN <<>> = {}
      OBVIOUS
    <2> QED BY <2>1, <2>2, <2>3
  <1> QED BY <1>2, <1>3, <1>4, <1>5

\* What the walk has made of the request and the locks it has passed.
Acc == [request : Request, kept : Seq(Lock)]

Merges(l, r) == l.type = r.type /\ (Overlap(l, r) \/ Adjacent(r, l))
Cuts(l, r) == l.type # r.type /\ Overlap(l, r)

LEMMA AbsorbIs ==
    ASSUME NEW acc \in Acc, NEW l \in Lock
    PROVE  /\ Absorb(acc, l) \in Acc
           /\ Merges(l, acc.request) =>
                /\ Absorb(acc, l).request = Hull(l, acc.request)
                /\ Absorb(acc, l).kept = acc.kept
           /\ Cuts(l, acc.request) =>
                /\ Absorb(acc, l).request = acc.request
                /\ Absorb(acc, l).kept = acc.kept \o Rest(l, acc.request)
           /\ ~ Merges(l, acc.request) /\ ~ Cuts(l, acc.request) =>
                /\ Absorb(acc, l).request = acc.request
                /\ Absorb(acc, l).kept = Append(acc.kept, l)
  <1> DEFINE r == acc.request
             h == Hull(l, r)
             left == Rest(l, r)
             new == Absorb(acc, l)
  <1>1. r \in Request /\ acc.kept \in Seq(Lock)
    BY DEF Acc
  <1>2. CASE Merges(l, r)
    <2>1. new = [acc EXCEPT !.request.start = IF l.start < r.start THEN l.start ELSE r.start,
                            !.request.end = IF l.end > r.end THEN l.end ELSE r.end]
      BY <1>2 DEF Absorb, Merges
    <2>2. new = [acc EXCEPT !.request = h]
      BY <2>1 DEF Acc, Hull, Request
    <2>3. h \in Request
      BY <1>1, HullIs
    <2>4. ~ Cuts(l, r)
      BY <1>2 DEF Merges, Cuts
    <2> HIDE DEF h, new
    <2>5. new \in Acc /\ new.request = h /\ new.kept = acc.kept
      BY <2>2, <2>3 DEF Acc
    <2> QED BY <1>2, <2>4, <2>5 DEF h, new
  <1>3. CASE Cuts(l, r)
    <2>1. new = [acc EXCEPT !.kept = acc.kept \o left]
      BY <1>3 DEF Absorb, Cuts
    <2>2. left \in Seq(Lock)
      BY <1>1, <1>3, RestIs DEF Cuts
    <2>3. ~ Merges(l, r)
      BY <1>3 DEF Merges, Cuts
    <2> HIDE DEF left, new
    <2>4. acc.kept \o left \in Seq(Lock)
      BY <1>1, <2>2, ConcatProperties
    <2>5. new \in Acc /\ new.request = r /\ new.kept = acc.kept \o left
      BY <2>1, <2>4 DEF Acc
    <2> QED BY <1>3, <2>3, <2>5 DEF left, new
  <1>4. CASE ~ Merges(l, r) /\ ~ Cuts(l, r)
    <2>1. new = [acc EXCEPT !.kept = Append(acc.kept, l)]
      BY <1>4 DEF Absorb, Merges, Cuts
    <2>2. Append(acc.kept, l) \in Seq(Lock)
      BY <1>1
    <2> HIDE DEF new
    <2>3. new \in Acc /\ new.request = r /\ new.kept = Append(acc.kept, l)
      BY <2>1, <2>2 DEF Acc
    <2> QED BY <1>4, <2>3 DEF new
  <1> QED BY <1>2, <1>3, <1>4

-----------------------------------------------------------------------------
(***************************************************************************)
(* The walk over the run of an owner, g, for a request r.                  *)
(***************************************************************************)

\* The request has only grown.
Grown(r, acc) == PartOf(r, acc.request)

\* What is kept is apart, from each other and from the request, and is part of
\* the locks passed.
KeptApart(acc) ==
    /\ AllApart(acc.kept)
    /\ \A k \in DOMAIN acc.kept : Apart(acc.kept[k], acc.request)
KeptParts(g, i, acc) ==
    \A k \in DOMAIN acc.kept : \E j \in 1 .. i : PartOf(acc.kept[k], g[j])

\* The request has grown by locks of its type only, and no other byte is lost.
GrownByOwn(g, i, r, acc) == \A b \in Span(acc.request) :
    b \in Span(r) \/ \E j \in 1 .. i : b \in Span(g[j]) /\ g[j].type = r.type
NoneLost(g, i, r, acc) == \A j \in 1 .. i : \A b \in Span(g[j]) :
    \/ b \in Span(r)
    \/ \E k \in DOMAIN acc.kept : b \in Span(acc.kept[k]) /\ acc.kept[k].type = g[j].type
    \/ g[j].type = r.type /\ b \in Span(acc.request)

Run(o, g) == g \in Seq(Lock) /\ AllApart(g) /\ \A j \in DOMAIN g : g[j].owner = o
Fine(g, i, r, acc) ==
    /\ Grown(r, acc) /\ KeptApart(acc) /\ KeptParts(g, i, acc)
    /\ GrownByOwn(g, i, r, acc) /\ NoneLost(g, i, r, acc)

LEMMA StartFine ==
    ASSUME NEW r \in Request, NEW g
    PROVE  Fine(g, 0, r, [request |-> r, kept |-> <<>>])
  <1>1. Between(r)
    BY LockBetween
  <1> QED BY <1>1 DEF Fine, Grown, PartOf, Between, KeptApart, AllApart, KeptParts,
                      GrownByOwn, NoneLost

LEMMA ConcatMembers ==
    ASSUME NEW a \in Seq(Lock), NEW m \in Seq(Lock)
    PROVE  /\ a \o m \in Seq(Lock)
           /\ \A k \in DOMAIN (a \o m) :
                \/ k \in DOMAIN a /\ (a \o m)[k] = a[k]
                \/ k - Len(a) \in DOMAIN m /\ (a \o m)[k] = m[k - Len(a)]
           /\ \A j \in DOMAIN a : j \in DOMAIN (a \o m) /\ (a \o m)[j] = a[j]
           /\ \A j \in DOMAIN m :
                j + Len(a) \in DOMAIN (a \o m) /\ (a \o m)[j + Len(a)] = m[j]
  <1> DEFINE c == a \o m
  <1>1. /\ Len(a) \in Nat /\ DOMAIN a = 1 .. Len(a)
        /\ Len(m) \in Nat /\ DOMAIN m = 1 .. Len(m)
    BY LenProperties
  <1>2. /\ c \in Seq(Lock) /\ Len(c) = Len(a) + Len(m) /\ DOMAIN c = 1 .. Len(c)
        /\ \A k \in 1 .. Len(a) + Len(m) : c[k] = IF k <= Len(a) THEN a[k] ELSE m[k - Len(a)]
    BY ConcatProperties, LenProperties
  <1> HIDE DEF c
  <1>3. ASSUME NEW k \in DOMAIN c
        PROVE  \/ k \in DOMAIN a /\ c[k] = a[k]
               \/ k - Len(a) \in DOMAIN m /\ c[k] = m[k - Len(a)]
    BY <1>1, <1>2
  <1>4. ASSUME NEW j \in DOMAIN a PROVE j \in DOMAIN c /\ c[j] = a[j]
    BY <1>1, <1>2
  <1>5. ASSUME NEW j \in DOMAIN m PROVE j + Len(a) \in DOMAIN c /\ c[j + Len(a)] = m[j]
    <2>1. j \in Nat /\ 1 <= j /\ j <= Len(m)
      BY <1>1
    <2>2. j + Len(a) \in 1 .. Len(a) + Len(m) /\ ~ j + Len(a) <= Len(a) /\ j + Len(a) - Len(a) = j
      BY <1>1, <2>1
    <2> QED BY <1>2, <2>2
  <1> QED BY <1>2, <1>3, <1>4, <1>5 DEF c

LEMMA JoinApart ==
    ASSUME NEW a \in Seq(Lock), NEW m \in Seq(Lock), AllApart(a), AllApart(m),
           \A j \in DOMAIN a, k \in DOMAIN m : a[j].owner = m[k].owner => Apart(a[j], m[k])
    PROVE  AllApart(a \o m)
  <1> DEFINE c == a \o m
  <1>1. \A k \in DOMAIN c : \/ k \in DOMAIN a /\ c[k] = a[k]
                            \/ k - Len(a) \in DOMAIN m /\ c[k] = m[k - Len(a)]
    BY ConcatMembers
  <1>2. \A k \in DOMAIN a : Between(a[k])
    BY LockBetween
  <1>3. \A k \in DOMAIN m : Between(m[k])
    BY LockBetween
  <1>4. DOMAIN c \subseteq Int /\ Len(a) \in Int
    <2>1. c \in Seq(Lock)
      BY ConcatMembers
    <2> HIDE DEF c
    <2> QED BY <2>1
  <1> HIDE DEF c
  <1>5. ASSUME NEW j \in DOMAIN c, NEW k \in DOMAIN c, j # k, c[j].owner = c[k].owner
        PROVE  Apart(c[j], c[k])
    <2>1. CASE j \in DOMAIN a /\ c[j] = a[j] /\ k \in DOMAIN a /\ c[k] = a[k]
      BY <1>5, <2>1 DEF AllApart
    <2>2. CASE /\ j - Len(a) \in DOMAIN m /\ c[j] = m[j - Len(a)]
               /\ k - Len(a) \in DOMAIN m /\ c[k] = m[k - Len(a)]
      <3>1. j - Len(a) # k - Len(a)
        BY <1>4, <1>5
      <3> QED BY <1>5, <2>2, <3>1 DEF AllApart
    <2>3. CASE j \in DOMAIN a /\ c[j] = a[j] /\ k - Len(a) \in DOMAIN m /\ c[k] = m[k - Len(a)]
      BY <1>5, <2>3
    <2>4. CASE k \in DOMAIN a /\ c[k] = a[k] /\ j - Len(a) \in DOMAIN m /\ c[j] = m[j - Len(a)]
      <3>1. Apart(c[k], c[j])
        BY <1>5, <2>4
      <3> QED BY <1>2, <1>3, <2>4, <3>1, ApartSwaps
    <2> QED BY <1>1, <2>1, <2>2, <2>3, <2>4
  <1> QED BY <1>5 DEF AllApart, c

\* What is kept and the locks ahead are apart.
LEMMA KeptAhead ==
    ASSUME NEW g, NEW o, Run(o, g), NEW i \in 0 .. Len(g) - 1, NEW acc \in Acc,
           KeptParts(g, i, acc), NEW k \in DOMAIN acc.kept
    PROVE  Apart(acc.kept[k], g[i + 1]) /\ acc.kept[k].owner = o
  <1>1. g \in Seq(Lock) /\ acc.kept \in Seq(Lock)
    BY DEF Run, Acc
  <1>2. PICK j \in 1 .. i : PartOf(acc.kept[k], g[j])
    BY DEF KeptParts
  <1>3. j \in DOMAIN g /\ i + 1 \in DOMAIN g /\ j # i + 1
    BY <1>1
  <1>4. /\ Apart(g[j], g[i + 1]) /\ g[j].owner = o
    BY <1>3 DEF Run, AllApart
  <1>5. g[j] \in Lock /\ g[i + 1] \in Lock /\ acc.kept[k] \in Lock
    BY <1>1, <1>3
  <1>6. PartOf(g[i + 1], g[i + 1])
    BY <1>5, LockBetween DEF PartOf, Between
  <1>7. Apart(acc.kept[k], g[i + 1])
    BY <1>2, <1>4, <1>5, <1>6, LockBetween, PartsApart
  <1> QED BY <1>2, <1>4, <1>7 DEF PartOf

LEMMA HullApart ==
    ASSUME NEW l \in Lock, NEW r \in Request, Merges(l, r), NEW x, Between(x),
           Apart(x, l), Apart(x, r)
    PROVE  Apart(x, Hull(l, r))
  <1>1. Between(l) /\ Between(r)
    BY LockBetween
  <1> DEFINE h == Hull(l, r)
  <1>2. /\ h.type = r.type
        /\ h.start = IF l.start < r.start THEN l.start ELSE r.start
        /\ h.end = IF l.end > r.end THEN l.end ELSE r.end
    BY HullIs
  <1> HIDE DEF h
  <1>3. Apart(x, h)
    BY <1>1, <1>2 DEF Merges, Apart, Overlap, Adjacent, Between
  <1> QED BY <1>3 DEF h

LEMMA HullSpan ==
    ASSUME NEW l \in Lock, NEW r \in Request, Merges(l, r)
    PROVE  /\ \A b \in Span(Hull(l, r)) : b \in Span(l) \/ b \in Span(r)
           /\ \A b \in Span(l) : b \in Span(Hull(l, r))
           /\ \A b \in Span(r) : b \in Span(Hull(l, r))
  <1>1. Between(l) /\ Between(r)
    BY LockBetween
  <1> DEFINE h == Hull(l, r)
  <1>2. /\ h.start = IF l.start < r.start THEN l.start ELSE r.start
        /\ h.end = IF l.end > r.end THEN l.end ELSE r.end
    BY HullIs
  <1> HIDE DEF h
  <1>3. /\ \A b \in Span(h) : b \in Span(l) \/ b \in Span(r)
        /\ \A b \in Span(l) : b \in Span(h)
        /\ \A b \in Span(r) : b \in Span(h)
    BY <1>1, <1>2 DEF Merges, Overlap, Adjacent, Between, Span
  <1> QED BY <1>3 DEF h

\* The turn that merges the lock.
LEMMA MergeFine ==
    ASSUME NEW g, NEW r \in Request, Run(r.owner, g), NEW i \in 0 .. Len(g) - 1,
           NEW acc \in Acc, Fine(g, i, r, acc), Merges(g[i + 1], acc.request)
    PROVE  Fine(g, i + 1, r, Absorb(acc, g[i + 1]))
  <1> DEFINE l == g[i + 1]
             q == acc.request
             h == Hull(l, q)
             new == Absorb(acc, l)
  <1>1. /\ g \in Seq(Lock) /\ i \in Nat /\ i + 1 \in DOMAIN g /\ l \in Lock /\ q \in Request
        /\ acc.kept \in Seq(Lock) /\ l.type = q.type
    BY DEF Run, Acc, Merges
  <1>2. new.request = h /\ new.kept = acc.kept
    BY <1>1, AbsorbIs
  <1>3. /\ PartOf(r, q) /\ Between(r) /\ Between(q) /\ Between(l)
    BY <1>1, LockBetween DEF Fine, Grown
  <1>4. /\ h.owner = q.owner /\ h.type = q.type
        /\ h.start = IF l.start < q.start THEN l.start ELSE q.start
        /\ h.end = IF l.end > q.end THEN l.end ELSE q.end
    BY <1>1, HullIs
  <1>5. /\ \A b \in Span(h) : b \in Span(l) \/ b \in Span(q)
        /\ \A b \in Span(l) : b \in Span(h)
        /\ \A b \in Span(q) : b \in Span(h)
    BY <1>1, HullSpan
  <1>6. ASSUME NEW k \in DOMAIN acc.kept PROVE Apart(acc.kept[k], h)
    <2>1. acc.kept[k] \in Lock
      BY <1>1
    <2>2. Apart(acc.kept[k], l)
      BY KeptAhead DEF Fine
    <2>3. Apart(acc.kept[k], q)
      BY DEF Fine, KeptApart
    <2> QED BY <1>1, <2>1, <2>2, <2>3, HullApart, LockBetween
  <1>7. /\ \A j \in 1 .. i : j \in 1 .. i + 1
        /\ \A j \in 1 .. i + 1 : j \in 1 .. i \/ j = i + 1
        /\ i + 1 \in 1 .. i + 1
    BY <1>1
  <1> HIDE DEF h, new, q
  <1>8. Grown(r, new)
    BY <1>2, <1>3, <1>4 DEF Grown, PartOf, Between
  <1>9. KeptApart(new)
    BY <1>2, <1>6 DEF Fine, KeptApart
  <1>10. KeptParts(g, i + 1, new)
    BY <1>2, <1>7 DEF Fine, KeptParts
  <1>11. GrownByOwn(g, i + 1, r, new)
    <2>1. l.type = r.type
      BY <1>1, <1>3 DEF PartOf
    <2>2. \A b \in Span(q) :
            b \in Span(r) \/ \E j \in 1 .. i : b \in Span(g[j]) /\ g[j].type = r.type
      BY DEF Fine, GrownByOwn, q
    <2> QED BY <1>2, <1>5, <1>7, <2>1, <2>2 DEF GrownByOwn
  <1>12. NoneLost(g, i + 1, r, new)
    <2>1. l.type = r.type
      BY <1>1, <1>3 DEF PartOf
    <2>2. ASSUME NEW j \in 1 .. i, NEW b \in Span(g[j])
          PROVE  \/ b \in Span(r)
                 \/ \E k \in DOMAIN new.kept :
                      b \in Span(new.kept[k]) /\ new.kept[k].type = g[j].type
                 \/ g[j].type = r.type /\ b \in Span(new.request)
      BY <1>2, <1>5 DEF Fine, NoneLost, q
    <2> QED BY <1>2, <1>5, <1>7, <2>1, <2>2 DEF NoneLost
  <1>13. Fine(g, i + 1, r, new)
    BY <1>8, <1>9, <1>10, <1>11, <1>12 DEF Fine
  <1> QED BY <1>13 DEF new

\* What a turn leaves of a lock it does not merge.
Leaves(l, q, x) ==
    /\ x \in Seq(Lock) /\ AllApart(x)
    /\ \A k \in DOMAIN x : PartOf(x[k], l) /\ Apart(x[k], q)
    /\ \A b \in Span(l) :
         (l.type # q.type /\ b \in Span(q)) \/ \E k \in DOMAIN x : b \in Span(x[k])

LEMMA CutLeaves ==
    ASSUME NEW l \in Lock, NEW q \in Request, Cuts(l, q)
    PROVE  Leaves(l, q, Rest(l, q))
  BY RestIs DEF Leaves, Cuts, AllApart, Apart, PartOf

LEMMA PassLeaves ==
    ASSUME NEW l \in Lock, NEW q \in Request, ~ Merges(l, q), ~ Cuts(l, q)
    PROVE  Leaves(l, q, <<l>>)
  <1>1. Between(l) /\ Between(q)
    BY LockBetween
  <1>2. Apart(l, q)
    BY <1>1 DEF Merges, Cuts, Apart, Adjacent
  <1>3. PartOf(l, l)
    BY <1>1 DEF PartOf, Between
  <1>4. <<l>> \in Seq(Lock) /\ DOMAIN <<l>> = {1} /\ <<l>>[1] = l
    OBVIOUS
  <1> QED BY <1>2, <1>3, <1>4 DEF Leaves, AllApart

LEMMA KeepFine ==
    ASSUME NEW g, NEW r \in Request, Run(r.owner, g), NEW i \in 0 .. Len(g) - 1,
           NEW acc \in Acc, Fine(g, i, r, acc), NEW x, Leaves(g[i + 1], acc.request, x),
           NEW new \in Acc, new.request = acc.request, new.kept = acc.kept \o x
    PROVE  Fine(g, i + 1, r, new)
  <1> DEFINE l == g[i + 1]
             q == acc.request
             a == acc.kept
             c == a \o x
  <1>1. /\ g \in Seq(Lock) /\ i \in Nat /\ i + 1 \in DOMAIN g /\ l \in Lock /\ q \in Request
        /\ a \in Seq(Lock) /\ x \in Seq(Lock)
    BY DEF Run, Acc, Leaves
  <1>2. /\ \A j \in 1 .. i : j \in 1 .. i + 1
        /\ \A j \in 1 .. i + 1 : j \in 1 .. i \/ j = i + 1
        /\ i + 1 \in 1 .. i + 1
    BY <1>1
  <1>3. /\ \A k \in DOMAIN c : \/ k \in DOMAIN a /\ c[k] = a[k]
                               \/ k - Len(a) \in DOMAIN x /\ c[k] = x[k - Len(a)]
        /\ \A j \in DOMAIN a : j \in DOMAIN c /\ c[j] = a[j]
        /\ \A j \in DOMAIN x : j + Len(a) \in DOMAIN c /\ c[j + Len(a)] = x[j]
    BY <1>1, ConcatMembers
  <1>4. /\ new.request = q /\ new.kept = c
        /\ Grown(r, acc) /\ KeptApart(acc) /\ KeptParts(g, i, acc)
        /\ GrownByOwn(g, i, r, acc) /\ NoneLost(g, i, r, acc)
        /\ Leaves(l, q, x)
    BY DEF Fine
  <1>5. AllApart(c)
    <2>1. ASSUME NEW j \in DOMAIN a, NEW k \in DOMAIN x PROVE Apart(a[j], x[k])
      <3>1. a[j] \in Lock /\ x[k] \in Lock
        BY <1>1
      <3>2. Apart(a[j], l)
        BY <1>4, KeptAhead
      <3>3. PartOf(x[k], l)
        BY <1>4 DEF Leaves
      <3>4. PartOf(a[j], a[j])
        BY <3>1, LockBetween DEF PartOf, Between
      <3> QED BY <1>1, <3>1, <3>2, <3>3, <3>4, PartsApart, LockBetween
    <2>2. AllApart(a) /\ AllApart(x)
      BY <1>4 DEF KeptApart, Leaves
    <2> QED BY <1>1, <2>1, <2>2, JoinApart
  <1> HIDE DEF c, a, q
  <1>6. Grown(r, new)
    BY <1>4 DEF Grown, q
  <1>7. KeptApart(new)
    <2>1. \A k \in DOMAIN a : Apart(a[k], q)
      BY <1>4 DEF KeptApart, a, q
    <2>2. \A k \in DOMAIN x : Apart(x[k], q)
      BY <1>4 DEF Leaves
    <2>3. \A k \in DOMAIN c : Apart(c[k], q)
      BY <1>3, <2>1, <2>2
    <2> QED BY <1>4, <1>5, <2>3 DEF KeptApart
  <1>8. KeptParts(g, i + 1, new)
    <2>1. \A k \in DOMAIN a : \E j \in 1 .. i : PartOf(a[k], g[j])
      BY <1>4 DEF KeptParts, a
    <2>2. \A k \in DOMAIN x : PartOf(x[k], l)
      BY <1>4 DEF Leaves
    <2>3. \A k \in DOMAIN c : \E j \in 1 .. i + 1 : PartOf(c[k], g[j])
      BY <1>2, <1>3, <2>1, <2>2
    <2> QED BY <1>4, <2>3 DEF KeptParts
  <1>9. GrownByOwn(g, i + 1, r, new)
    BY <1>2, <1>4 DEF GrownByOwn, q
  <1>10. NoneLost(g, i + 1, r, new)
    <2>1. ASSUME NEW j \in 1 .. i, NEW b \in Span(g[j])
          PROVE  \/ b \in Span(r)
                 \/ \E k \in DOMAIN c : b \in Span(c[k]) /\ c[k].type = g[j].type
                 \/ g[j].type = r.type /\ b \in Span(q)
      <3>1. \/ b \in Span(r)
            \/ \E k \in DOMAIN a : b \in Span(a[k]) /\ a[k].type = g[j].type
            \/ g[j].type = r.type /\ b \in Span(q)
        BY <1>4 DEF NoneLost, a, q
      <3> QED BY <1>3, <3>1
    <2>2. ASSUME NEW b \in Span(l)
          PROVE  \/ b \in Span(r)
                 \/ \E k \in DOMAIN c : b \in Span(c[k]) /\ c[k].type = l.type
      <3>1. CASE \E k \in DOMAIN x : b \in Span(x[k])
        <4>1. \A k \in DOMAIN x : x[k].type = l.type
          BY <1>4 DEF Leaves, PartOf
        <4>2. PICK k \in DOMAIN x : b \in Span(x[k])
          BY <3>1
        <4>3. k + Len(a) \in DOMAIN c /\ c[k + Len(a)] = x[k]
          BY <1>3
        <4> QED BY <4>1, <4>2, <4>3
      <3>2. CASE l.type # q.type /\ b \in Span(q)
        <4>1. q.type = r.type
          BY <1>4 DEF Grown, PartOf, q
        <4>2. SUFFICES ASSUME NEW j \in 1 .. i, b \in Span(g[j]), g[j].type = r.type
                       PROVE  FALSE
          BY <1>4, <3>2 DEF GrownByOwn, q
        <4>3. j \in DOMAIN g /\ j # i + 1
          BY <1>1
        <4>4. Apart(g[j], l)
          BY <1>1, <4>3 DEF Run, AllApart
        <4>5. Between(g[j]) /\ Between(l)
          BY <1>1, <4>3, LockBetween
        <4>6. b \in Int
          BY <4>5, SpanOf
        <4> QED BY <4>2, <4>4, <4>5, <4>6, SpanOf DEF Apart
      <3> QED BY <1>4, <3>1, <3>2 DEF Leaves
    <2> QED BY <1>2, <1>4, <2>1, <2>2 DEF NoneLost
  <1> QED BY <1>6, <1>7, <1>8, <1>9, <1>10 DEF Fine

LEMMA TurnFine ==
    ASSUME NEW g, NEW r \in Request, Run(r.owner, g), NEW i \in 0 .. Len(g) - 1,
           NEW acc \in Acc, Fine(g, i, r, acc)
    PROVE  Fine(g, i + 1, r, Absorb(acc, g[i + 1]))
  <1> DEFINE l == g[i + 1]
             q == acc.request
             new == Absorb(acc, l)
  <1>1. /\ g \in Seq(Lock) /\ i + 1 \in DOMAIN g /\ l \in Lock /\ q \in Request
        /\ acc.kept \in Seq(Lock)
    BY DEF Run, Acc
  <1>2. CASE Merges(l, q)
    BY <1>2, MergeFine
  <1>3. CASE Cuts(l, q) /\ ~ Merges(l, q)
    <2>1. new \in Acc /\ new.request = q /\ new.kept = acc.kept \o Rest(l, q)
      BY <1>1, <1>3, AbsorbIs
    <2>2. Leaves(l, q, Rest(l, q))
      BY <1>1, <1>3, CutLeaves
    <2> HIDE DEF new
    <2>3. Fine(g, i + 1, r, new)
      BY <2>1, <2>2, KeepFine
    <2> QED BY <2>3 DEF new
  <1>4. CASE ~ Cuts(l, q) /\ ~ Merges(l, q)
    <2>1. new \in Acc /\ new.request = q /\ new.kept = Append(acc.kept, l)
      BY <1>1, <1>4, AbsorbIs
    <2>2. Leaves(l, q, <<l>>)
      BY <1>1, <1>4, PassLeaves
    <2> HIDE DEF new
    <2>3. new.kept = acc.kept \o <<l>>
      BY <1>1, <2>1, AppendIsConcat
    <2>4. Fine(g, i + 1, r, new)
      BY <2>1, <2>2, <2>3, KeepFine
    <2> QED BY <2>4 DEF new
  <1> QED BY <1>2, <1>3, <1>4

\* The walk exists, and goes from lock to lock.
LEMMA WalkSteps ==
    ASSUME NEW r \in Request, Group(r.owner) \in Seq(Lock)
    PROVE  /\ \A i \in 0 .. Len(Group(r.owner)) : Walk(r)[i] \in Acc
           /\ Walk(r)[0] = [request |-> r, kept |-> <<>>]
           /\ \A i \in 0 .. Len(Group(r.owner)) - 1 :
                Walk(r)[i + 1] = Absorb(Walk(r)[i], Group(r.owner)[i + 1])
  <1> DEFINE g == Group(r.owner)
             n == Len(g)
             a == [request |-> r, kept |-> <<>>]
             turn == [p \in (1 .. n) \X Acc |-> Absorb(p[2], g[p[1]])]
             IsWalk(f) == f = [i \in 0 .. n |-> IF i = 0 THEN a ELSE Absorb(f[i - 1], g[i])]
  <1>1. n \in Nat /\ a \in Acc
    <2>1. <<>> \in Seq(Lock)
      OBVIOUS
    <2> QED BY <2>1 DEF Acc
  <1>2. turn \in [(1 .. n) \X Acc -> Acc]
    <2>1. ASSUME NEW p \in (1 .. n) \X Acc PROVE Absorb(p[2], g[p[1]]) \in Acc
      <3>1. p[2] \in Acc /\ p[1] \in 1 .. n /\ g[p[1]] \in Lock
        BY <1>1
      <3> QED BY <3>1, AbsorbIs
    <2> QED BY <2>1
  <1>3. PICK f \in [0 .. n -> Acc] : Runs(f, n, a, turn)
    <2> HIDE DEF turn, a, n
    <2> QED BY <1>1, <1>2, LoopRuns
  <1>4. ASSUME NEW i \in 0 .. n
        PROVE  f[i] = IF i = 0 THEN a ELSE Absorb(f[i - 1], g[i])
    <2>1. f[i] = IF i = 0 THEN a ELSE turn[<<i, f[i - 1]>>]
      <3> HIDE DEF turn, a
      <3> QED BY <1>3 DEF Runs
    <2>2. CASE i = 0
      BY <2>1, <2>2
    <2>3. CASE i # 0
      <3>1. i \in 1 .. n /\ i - 1 \in 0 .. n /\ f[i - 1] \in Acc
        BY <1>1, <2>3
      <3>2. turn[<<i, f[i - 1]>>] = Absorb(f[i - 1], g[i])
        BY <3>1
      <3> QED BY <2>1, <2>3, <3>2
    <2> QED BY <2>2, <2>3
  <1>5. IsWalk(f)
    <2> HIDE DEF a, n
    <2> QED BY <1>4
  <1>6. IsWalk(Walk(r))
    BY <1>5 DEF Walk
  <1>7. ASSUME NEW h, IsWalk(h)
        PROVE  /\ h[0] = a
               /\ \A i \in 0 .. n - 1 : h[i + 1] = Absorb(h[i], g[i + 1])
    <2> HIDE DEF a
    <2>1. \A i \in 0 .. n : h[i] = IF i = 0 THEN a ELSE Absorb(h[i - 1], g[i])
      BY <1>7
    <2>2. ASSUME NEW i \in 0 .. n - 1 PROVE h[i + 1] = Absorb(h[i], g[i + 1])
      <3>1. i + 1 \in 0 .. n /\ i + 1 # 0 /\ i + 1 - 1 = i
        BY <1>1
      <3> QED BY <2>1, <3>1
    <2> QED BY <1>1, <2>1, <2>2
  <1>8. /\ Walk(r)[0] = a
        /\ \A i \in 0 .. n - 1 : Walk(r)[i + 1] = Absorb(Walk(r)[i], g[i + 1])
    BY <1>6, <1>7
  <1>9. \A i \in 0 .. n : Walk(r)[i] \in Acc
    <2> DEFINE S == {i \in 0 .. n : Walk(r)[i] \in Acc}
    <2>1. 0 \in S
      BY <1>1, <1>8
    <2>2. ASSUME NEW i \in 0 .. n - 1, i \in S PROVE i + 1 \in S
      <3>1. i + 1 \in 0 .. n /\ g[i + 1] \in Lock /\ Walk(r)[i] \in Acc
        BY <1>1, <2>2
      <3>2. Walk(r)[i + 1] \in Acc
        BY <1>8, <3>1, AbsorbIs
      <3> QED BY <3>1, <3>2
    <2> HIDE DEF S
    <2>3. \A i \in 0 .. n : i \in S
      BY <1>1, <2>1, <2>2, CountUp
    <2> QED BY <2>3 DEF S
  <1> QED BY <1>8, <1>9

LEMMA WalkFine ==
    ASSUME NEW r \in Request, Run(r.owner, Group(r.owner))
    PROVE  /\ End(r) \in Acc
           /\ Fine(Group(r.owner), Len(Group(r.owner)), r, End(r))
  <1> DEFINE g == Group(r.owner)
             n == Len(g)
             S == {i \in 0 .. n : Fine(g, i, r, Walk(r)[i])}
  <1>1. g \in Seq(Lock) /\ n \in Nat
    BY DEF Run
  <1>2. 0 \in S
    <2>1. Walk(r)[0] = [request |-> r, kept |-> <<>>]
      BY <1>1, WalkSteps
    <2> QED BY <1>1, <2>1, StartFine
  <1>3. ASSUME NEW i \in 0 .. n - 1, i \in S PROVE i + 1 \in S
    <2>0. i \in 0 .. n /\ i + 1 \in 0 .. n /\ Fine(g, i, r, Walk(r)[i])
      BY <1>1, <1>3
    <2>1. Walk(r)[i] \in Acc /\ Walk(r)[i + 1] = Absorb(Walk(r)[i], g[i + 1])
      BY <1>1, <2>0, WalkSteps
    <2>2. Fine(g, i + 1, r, Walk(r)[i + 1])
      <3> HIDE DEF g
      <3> QED BY <2>0, <2>1, TurnFine DEF g
    <2> QED BY <2>0, <2>2
  <1> HIDE DEF S
  <1>4. \A i \in 0 .. n : i \in S
    BY <1>1, <1>2, <1>3, CountUp
  <1>5. n \in 0 .. n
    BY <1>1
  <1> QED BY <1>1, <1>4, <1>5, WalkSteps DEF S, End

-----------------------------------------------------------------------------
(***************************************************************************)
(* The list before and after a request.                                    *)
(***************************************************************************)

\* The run of an owner has all locks of the owner and no other.
LEMMA RunBounds ==
    ASSUME locks \in Seq(Lock), Grouped(locks), NEW o
    PROVE  /\ GroupStart(o) \in 1 .. Len(locks) + 1
           /\ GroupEnd(o) \in GroupStart(o) .. Len(locks) + 1
           /\ GroupStart(o) = GroupEnd(o) => GroupStart(o) = Len(locks) + 1
           /\ \A k \in GroupStart(o) .. GroupEnd(o) - 1 : locks[k].owner = o
           /\ \A k \in DOMAIN locks : k < GroupStart(o) \/ GroupEnd(o) <= k => locks[k].owner # o
  <1> DEFINE n == Len(locks)
             from == GroupStart(o)
             to == GroupEnd(o)
             own == {k \in DOMAIN locks : locks[k].owner = o}
             others == {k \in from .. n : locks[k].owner # o}
  <1>1. n \in Nat /\ DOMAIN locks = 1 .. n /\ own \in SUBSET Nat
    BY LenProperties
  <1>2. /\ own = {} => from = n + 1
        /\ own # {} => from \in own /\ \A j \in own : from <= j
    <2>1. CASE own = {}
      BY <2>1 DEF GroupStart
    <2>2. CASE own # {}
      <3>1. \E k \in own : \A j \in own : k <= j
        BY <1>1, <2>2, LeastMember
      <3>2. from = CHOOSE k \in own : \A j \in own : k <= j
        BY <2>2 DEF GroupStart
      <3> HIDE DEF from, own
      <3> QED BY <2>2, <3>1, <3>2
    <2> QED BY <2>1, <2>2
  <1>3. from \in 1 .. n + 1
    <2> HIDE DEF from
    <2> QED BY <1>1, <1>2
  <1> HIDE DEF from
  <1>4. others \in SUBSET Nat
    BY <1>1, <1>3
  <1>5. /\ others = {} => to = n + 1
        /\ others # {} => to \in others /\ \A j \in others : to <= j
    <2>1. CASE others = {}
      BY <2>1 DEF GroupEnd, from
    <2>2. CASE others # {}
      <3>1. \E k \in others : \A j \in others : k <= j
        BY <1>4, <2>2, LeastMember
      <3>2. to = CHOOSE k \in others : \A j \in others : k <= j
        BY <2>2 DEF GroupEnd, from
      <3> HIDE DEF to, others
      <3> QED BY <2>2, <3>1, <3>2
    <2> QED BY <2>1, <2>2
  <1> HIDE DEF to
  <1>6. to \in from .. n + 1
    BY <1>1, <1>3, <1>5
  <1>7. from = to => from = n + 1
    <2>1. CASE own = {}
      BY <1>2, <2>1
    <2>2. CASE own # {}
      BY <1>1, <1>2, <1>3, <1>5, <2>2
    <2> QED BY <2>1, <2>2
  <1>8. ASSUME NEW k \in from .. to - 1 PROVE locks[k].owner = o
    <2>1. k \in from .. n
      BY <1>1, <1>3, <1>6
    <2>2. k \notin others
      BY <1>1, <1>3, <1>5, <1>6
    <2> QED BY <2>1, <2>2
  <1>9. ASSUME NEW k \in DOMAIN locks, k < from \/ to <= k, locks[k].owner = o PROVE FALSE
    <2>1. k \in own /\ from \in own /\ from <= k
      BY <1>2, <1>9
    <2>2. to <= k /\ to \in others /\ from <= to
      BY <1>1, <1>3, <1>5, <1>6, <1>9, <2>1
    <2>3. from < k /\ to \in from .. k
      BY <1>1, <1>3, <1>6, <2>1, <2>2
    <2>4. locks[to].owner = locks[from].owner
      BY <1>9, <2>1, <2>3 DEF Grouped
    <2> QED BY <2>1, <2>2, <2>4
  <1> QED BY <1>3, <1>6, <1>7, <1>8, <1>9 DEF from, to

\* The list in its three parts.
LEMMA ThreeParts ==
    ASSUME locks \in Seq(Lock), Grouped(locks), NEW o
    PROVE  /\ Before(o) \in Seq(Lock) /\ Group(o) \in Seq(Lock) /\ Behind(o) \in Seq(Lock)
           /\ Len(Before(o)) = GroupStart(o) - 1
           /\ Len(Group(o)) = GroupEnd(o) - GroupStart(o)
           /\ Len(Behind(o)) = Len(locks) + 1 - GroupEnd(o)
           /\ \A k \in DOMAIN Before(o) : Before(o)[k] = locks[k]
           /\ \A k \in DOMAIN Group(o) : Group(o)[k] = locks[GroupStart(o) + k - 1]
           /\ \A k \in DOMAIN Behind(o) : Behind(o)[k] = locks[GroupEnd(o) + k - 1]
  <1> DEFINE n == Len(locks)
             from == GroupStart(o)
             to == GroupEnd(o)
  <1>1. n \in Nat /\ from \in 1 .. n + 1 /\ to \in from .. n + 1
    BY RunBounds
  <1> HIDE DEF from, to
  <1>2. /\ 1 \in 1 .. n + 1 /\ from - 1 \in 0 .. n
        /\ to - 1 \in from - 1 .. n /\ n \in to - 1 .. n
    BY <1>1
  <1>3. /\ SubSeq(locks, 1, from - 1) \in Seq(Lock)
        /\ Len(SubSeq(locks, 1, from - 1)) = from - 1
        /\ \A k \in 1 .. from - 1 : SubSeq(locks, 1, from - 1)[k] = locks[k]
    BY <1>1, <1>2
  <1>4. /\ SubSeq(locks, from, to - 1) \in Seq(Lock)
        /\ Len(SubSeq(locks, from, to - 1)) = to - from
        /\ \A k \in 1 .. to - from : SubSeq(locks, from, to - 1)[k] = locks[from + k - 1]
    BY <1>1, <1>2
  <1>5. /\ SubSeq(locks, to, n) \in Seq(Lock)
        /\ Len(SubSeq(locks, to, n)) = n + 1 - to
        /\ \A k \in 1 .. n + 1 - to : SubSeq(locks, to, n)[k] = locks[to + k - 1]
    BY <1>1, <1>2
  <1>6. /\ DOMAIN SubSeq(locks, 1, from - 1) = 1 .. from - 1
        /\ DOMAIN SubSeq(locks, from, to - 1) = 1 .. to - from
        /\ DOMAIN SubSeq(locks, to, n) = 1 .. n + 1 - to
    BY <1>3, <1>4, <1>5, LenProperties
  <1> QED BY <1>3, <1>4, <1>5, <1>6 DEF Before, Group, Behind, from, to

\* An owner has a byte of a list in a mode.
Has(s, o, b, m) == \E k \in DOMAIN s : s[k].owner = o /\ b \in Span(s[k]) /\ s[k].type = m

LEMMA HasJoins ==
    ASSUME NEW a \in Seq(Lock), NEW c \in Seq(Lock), NEW o, NEW b, NEW m
    PROVE  Has(a \o c, o, b, m) <=> Has(a, o, b, m) \/ Has(c, o, b, m)
  <1> DEFINE s == a \o c
  <1>1. /\ \A k \in DOMAIN s : \/ k \in DOMAIN a /\ s[k] = a[k]
                               \/ k - Len(a) \in DOMAIN c /\ s[k] = c[k - Len(a)]
        /\ \A j \in DOMAIN a : j \in DOMAIN s /\ s[j] = a[j]
        /\ \A j \in DOMAIN c : j + Len(a) \in DOMAIN s /\ s[j + Len(a)] = c[j]
    BY ConcatMembers
  <1> HIDE DEF s
  <1>2. Has(s, o, b, m) => Has(a, o, b, m) \/ Has(c, o, b, m)
    BY <1>1 DEF Has
  <1>3. Has(a, o, b, m) => Has(s, o, b, m)
    BY <1>1 DEF Has
  <1>4. ASSUME Has(c, o, b, m) PROVE Has(s, o, b, m)
    <2>1. PICK j \in DOMAIN c : c[j].owner = o /\ b \in Span(c[j]) /\ c[j].type = m
      BY <1>4 DEF Has
    <2>2. j + Len(a) \in DOMAIN s /\ s[j + Len(a)] = c[j]
      BY <1>1
    <2> QED BY <2>1, <2>2 DEF Has
  <1>5. Has(s, o, b, m) <=> Has(a, o, b, m) \/ Has(c, o, b, m)
    BY <1>2, <1>3, <1>4
  <1> QED BY <1>5 DEF s

LEMMA GroupRun ==
    ASSUME locks \in Seq(Lock), Grouped(locks), AllApart(locks), NEW o
    PROVE  Run(o, Group(o))
  <1> DEFINE n == Len(locks)
             from == GroupStart(o)
             to == GroupEnd(o)
             g == Group(o)
  <1>1. /\ n \in Nat /\ DOMAIN locks = 1 .. n
        /\ from \in 1 .. n + 1 /\ to \in from .. n + 1
        /\ \A k \in from .. to - 1 : locks[k].owner = o
    BY RunBounds, LenProperties
  <1>2. /\ g \in Seq(Lock) /\ DOMAIN g = 1 .. to - from
        /\ \A k \in DOMAIN g : g[k] = locks[from + k - 1]
    BY ThreeParts, LenProperties
  <1> HIDE DEF g, from, to
  <1>3. ASSUME NEW k \in DOMAIN g
        PROVE  from + k - 1 \in DOMAIN locks /\ from + k - 1 \in from .. to - 1
    BY <1>1, <1>2
  <1>4. \A k \in DOMAIN g : g[k].owner = o
    BY <1>1, <1>2, <1>3
  <1>5. ASSUME NEW j \in DOMAIN g, NEW k \in DOMAIN g, j # k PROVE Apart(g[j], g[k])
    <2>1. from + j - 1 # from + k - 1
      BY <1>1, <1>2, <1>5
    <2>2. locks[from + j - 1].owner = locks[from + k - 1].owner
      BY <1>1, <1>3
    <2> QED BY <1>2, <1>3, <2>1, <2>2 DEF AllApart
  <1> QED BY <1>2, <1>4, <1>5 DEF Run, AllApart, g

\* The run with the request in it.
Merged(r) == End(r).kept \o New(r)

LEMMA MergedSound ==
    ASSUME NEW r \in Request, Run(r.owner, Group(r.owner))
    PROVE  /\ Merged(r) \in Seq(Lock) /\ AllApart(Merged(r))
           /\ \A k \in DOMAIN Merged(r) : Merged(r)[k].owner = r.owner
  <1> DEFINE a == End(r).kept
             q == End(r).request
             g == Group(r.owner)
             x == New(r)
  <1>1. End(r) \in Acc /\ Fine(g, Len(g), r, End(r))
    BY WalkFine
  <1>2. /\ a \in Seq(Lock) /\ q \in Request /\ PartOf(r, q) /\ AllApart(a)
        /\ \A k \in DOMAIN a : Apart(a[k], q)
    BY <1>1 DEF Acc, Fine, Grown, KeptApart
  <1>3. x \in Seq(Lock) /\ \A k \in DOMAIN x : k = 1 /\ x[k] = q
    <2>1. CASE r.type = "none"
      <3>1. x = <<>>
        BY <2>1 DEF New
      <3>2. <<>> \in Seq(Lock) /\ DOMAIN <<>> = {}
        OBVIOUS
      <3> QED BY <3>1, <3>2
    <2>2. CASE r.type # "none"
      <3>1. x = <<q>>
        BY <2>2 DEF New
      <3>2. q.type \in {"read", "write"}
        BY <1>2, <2>2 DEF Request, Types, PartOf
      <3>3. q \in Lock
        BY <1>2, <3>2 DEF Request, Lock
      <3> HIDE DEF q, x
      <3> QED BY <3>1, <3>3
    <2> QED BY <2>1, <2>2
  <1>4. ASSUME NEW k \in DOMAIN a PROVE a[k].owner = r.owner
    <2>1. PICK j \in 1 .. Len(g) : PartOf(a[k], g[j])
      BY <1>1 DEF Fine, KeptParts
    <2>2. g[j].owner = r.owner
      BY DEF Run
    <2> QED BY <2>1, <2>2 DEF PartOf
  <1> HIDE DEF a, x, q
  <1>5. \A k \in DOMAIN (a \o x) : \/ k \in DOMAIN a /\ (a \o x)[k] = a[k]
                                   \/ k - Len(a) \in DOMAIN x /\ (a \o x)[k] = x[k - Len(a)]
    BY <1>2, <1>3, ConcatMembers
  <1>6. \A k \in DOMAIN (a \o x) : (a \o x)[k].owner = r.owner
    BY <1>2, <1>3, <1>4, <1>5 DEF PartOf
  <1>7. AllApart(x)
    BY <1>3 DEF AllApart
  <1>8. AllApart(a \o x)
    BY <1>2, <1>3, <1>7, JoinApart
  <1>9. a \o x \in Seq(Lock)
    BY <1>2, <1>3, ConcatProperties
  <1> QED BY <1>6, <1>8, <1>9 DEF Merged, a, x

\* It has the bytes of the request as asked, and the others as before.
LEMMA MergedHas ==
    ASSUME NEW r \in Request, Run(r.owner, Group(r.owner)), NEW b,
           NEW m \in {"read", "write"}
    PROVE  Has(Merged(r), r.owner, b, m)
             <=> IF b \in Span(r) THEN m = r.type ELSE Has(Group(r.owner), r.owner, b, m)
  <1> DEFINE a == End(r).kept
             q == End(r).request
             g == Group(r.owner)
             o == r.owner
  <1>1. End(r) \in Acc /\ Fine(g, Len(g), r, End(r)) /\ g \in Seq(Lock)
    BY WalkFine DEF Run
  <1>2. /\ a \in Seq(Lock) /\ q \in Request /\ PartOf(r, q)
        /\ \A k \in DOMAIN a : Apart(a[k], q)
        /\ \A k \in DOMAIN a : \E j \in 1 .. Len(g) : PartOf(a[k], g[j])
        /\ \A c \in Span(q) : \/ c \in Span(r)
                              \/ \E j \in 1 .. Len(g) : c \in Span(g[j]) /\ g[j].type = r.type
        /\ \A j \in 1 .. Len(g) : \A c \in Span(g[j]) :
             \/ c \in Span(r)
             \/ \E k \in DOMAIN a : c \in Span(a[k]) /\ a[k].type = g[j].type
             \/ g[j].type = r.type /\ c \in Span(q)
    BY <1>1 DEF Acc, Fine, Grown, KeptApart, KeptParts, GrownByOwn, NoneLost
  <1>3. DOMAIN g = 1 .. Len(g) /\ \A j \in DOMAIN g : g[j] \in Lock /\ g[j].owner = o
    BY <1>1 DEF Run
  <1>4. \A k \in DOMAIN Merged(r) : Merged(r)[k].owner = o
    BY MergedSound
  <1>5. Has(Merged(r), o, b, m) <=>
          \/ \E k \in DOMAIN a : b \in Span(a[k]) /\ a[k].type = m
          \/ r.type # "none" /\ b \in Span(q) /\ q.type = m
    <2>1. ASSUME NEW k \in DOMAIN a PROVE a[k].owner = o
      <3>1. PICK j \in 1 .. Len(g) : PartOf(a[k], g[j])
        BY <1>2
      <3> QED BY <1>3, <3>1 DEF PartOf
    <2>2. CASE r.type = "none"
      <3>1. New(r) = <<>>
        BY <2>2 DEF New
      <3>2. Merged(r) = a
        BY <1>2, <3>1, ConcatEmptySeq DEF Merged
      <3> QED BY <2>1, <2>2, <3>2 DEF Has
    <2>3. CASE r.type # "none"
      <3>1. New(r) = <<q>>
        BY <2>3 DEF New
      <3>2. q.type \in {"read", "write"}
        BY <1>2, <2>3 DEF Request, Types, PartOf
      <3>3. q \in Lock
        BY <1>2, <3>2 DEF Request, Lock
      <3>4. q.owner = o
        BY <1>2 DEF PartOf
      <3> HIDE DEF a, q, o
      <3>5. <<q>> \in Seq(Lock) /\ DOMAIN <<q>> = {1} /\ <<q>>[1] = q
        BY <3>3
      <3>6. Has(<<q>>, o, b, m) <=> b \in Span(q) /\ q.type = m
        BY <3>4, <3>5 DEF Has
      <3>7. Has(a, o, b, m) <=> \E k \in DOMAIN a : b \in Span(a[k]) /\ a[k].type = m
        BY <2>1 DEF Has
      <3>8. Has(a \o <<q>>, o, b, m) <=> Has(a, o, b, m) \/ Has(<<q>>, o, b, m)
        BY <1>2, <3>5, HasJoins
      <3>9. Merged(r) = a \o <<q>>
        BY <3>1 DEF Merged, a
      <3> QED BY <2>3, <3>6, <3>7, <3>8, <3>9
    <2> QED BY <2>2, <2>3
  <1>6. Has(g, o, b, m) <=> \E j \in 1 .. Len(g) : b \in Span(g[j]) /\ g[j].type = m
    BY <1>3 DEF Has
  <1> HIDE DEF a, q, g
  <1>7. /\ Between(q) /\ Between(r) /\ q.type = r.type
        /\ \A c \in Span(r) : c \in Span(q)
        /\ \A j \in 1 .. Len(g) : Between(g[j])
        /\ \A k \in DOMAIN a : Between(a[k])
    <2>1. Between(q) /\ Between(r) /\ q.type = r.type
      BY <1>2, LockBetween DEF PartOf
    <2>2. \A c \in Span(r) : c \in Span(q)
      BY <1>2, <2>1 DEF PartOf, Span, Between
    <2> QED BY <1>2, <1>3, <2>1, <2>2, LockBetween
  <1>8. CASE b \in Span(r)
    <2>1. b \in Span(q) /\ b \in Int
      BY <1>7, <1>8, SpanOf
    <2>2. \A k \in DOMAIN a : b \notin Span(a[k])
      BY <1>2, <1>7, <2>1, SpanOf DEF Apart
    <2>3. r.type # "none" <=> r.type \in {"read", "write"}
      BY DEF Request, Types
    <2> QED BY <1>5, <1>7, <1>8, <2>1, <2>2, <2>3
  <1>9. CASE b \notin Span(r)
    <2>1. ASSUME NEW k \in DOMAIN a, b \in Span(a[k]), a[k].type = m
          PROVE  Has(g, o, b, m)
      <3>1. PICK j \in 1 .. Len(g) : PartOf(a[k], g[j])
        BY <1>2
      <3>2. b \in Span(g[j]) /\ g[j].type = m
        BY <1>7, <2>1, <3>1 DEF PartOf, Span, Between
      <3> QED BY <1>6, <3>2
    <2>2. ASSUME b \in Span(q), q.type = m PROVE Has(g, o, b, m)
      BY <1>2, <1>6, <1>7, <1>9, <2>2
    <2>3. ASSUME NEW j \in 1 .. Len(g), b \in Span(g[j]), g[j].type = m
          PROVE  Has(Merged(r), o, b, m)
      <3>1. \/ \E k \in DOMAIN a : b \in Span(a[k]) /\ a[k].type = m
            \/ m = r.type /\ b \in Span(q)
        BY <1>2, <1>9, <2>3
      <3> QED BY <1>5, <1>7, <3>1
    <2>4. Has(Merged(r), o, b, m) => Has(g, o, b, m)
      BY <1>5, <2>1, <2>2
    <2>5. Has(g, o, b, m) => Has(Merged(r), o, b, m)
      BY <1>6, <2>3
    <2> QED BY <1>9, <2>4, <2>5 DEF g
  <1> QED BY <1>8, <1>9 DEF g

\* The pieces of the old list that stay, and the new one.
LEMMA PlacedIs ==
    ASSUME NEW r
    PROVE  Placed(r) = (Before(r.owner) \o Merged(r)) \o Behind(r.owner)
  BY DEF Placed, Merged

LEMMA LocksAre ==
    ASSUME locks \in Seq(Lock), Grouped(locks), NEW o
    PROVE  locks = (Before(o) \o Group(o)) \o Behind(o)
  <1> DEFINE n == Len(locks)
             from == GroupStart(o)
             to == GroupEnd(o)
  <1>1. n \in Nat /\ from \in 1 .. n + 1 /\ to \in from .. n + 1
    BY RunBounds
  <1> HIDE DEF from, to
  <1>2. /\ 1 \in 1 .. n + 1 /\ from - 1 \in 0 .. n /\ to - 1 \in from - 1 .. n
        /\ n \in to - 1 .. n /\ to - 1 \in 0 .. n /\ from - 1 + 1 = from /\ to - 1 + 1 = to
        /\ 1 - 1 = 0
    BY <1>1
  <1>3. SubSeq(locks, 1, from - 1) \o SubSeq(locks, from - 1 + 1, to - 1)
          = SubSeq(locks, 1, to - 1)
    BY <1>2, ConcatAdjacentSubSeq
  <1>4. SubSeq(locks, 1, to - 1) \o SubSeq(locks, to - 1 + 1, n) = SubSeq(locks, 1, n)
    BY <1>2, ConcatAdjacentSubSeq
  <1>5. SubSeq(locks, 1, n) = locks
    BY SubSeqFull
  <1> QED BY <1>2, <1>3, <1>4, <1>5 DEF Before, Group, Behind, from, to

\* No lock outside of the run is the owner's.
LEMMA OutsideOthers ==
    ASSUME locks \in Seq(Lock), Grouped(locks), NEW o
    PROVE  /\ \A k \in DOMAIN Before(o) :
                k \in DOMAIN locks /\ k < GroupStart(o) /\ Before(o)[k] = locks[k]
                /\ Before(o)[k].owner # o
           /\ \A k \in DOMAIN Behind(o) :
                /\ GroupEnd(o) + k - 1 \in DOMAIN locks /\ GroupEnd(o) <= GroupEnd(o) + k - 1
                /\ Behind(o)[k] = locks[GroupEnd(o) + k - 1] /\ Behind(o)[k].owner # o
  <1> DEFINE n == Len(locks)
             from == GroupStart(o)
             to == GroupEnd(o)
             a == Before(o)
             c == Behind(o)
  <1>1. /\ n \in Nat /\ from \in 1 .. n + 1 /\ to \in from .. n + 1 /\ DOMAIN locks = 1 .. n
        /\ \A k \in DOMAIN locks : k < from \/ to <= k => locks[k].owner # o
    BY RunBounds, LenProperties
  <1>2. /\ DOMAIN a = 1 .. from - 1 /\ DOMAIN c = 1 .. n + 1 - to
        /\ \A k \in DOMAIN a : a[k] = locks[k]
        /\ \A k \in DOMAIN c : c[k] = locks[to + k - 1]
    BY ThreeParts, LenProperties
  <1> HIDE DEF from, to, a, c
  <1>3. ASSUME NEW k \in DOMAIN a
        PROVE  k \in DOMAIN locks /\ k < from /\ a[k] = locks[k] /\ a[k].owner # o
    BY <1>1, <1>2
  <1>4. ASSUME NEW k \in DOMAIN c
        PROVE  /\ to + k - 1 \in DOMAIN locks /\ to <= to + k - 1
               /\ c[k] = locks[to + k - 1] /\ c[k].owner # o
    <2>1. to + k - 1 \in DOMAIN locks /\ to <= to + k - 1
      BY <1>1, <1>2
    <2> QED BY <1>1, <1>2, <2>1
  <1> QED BY <1>3, <1>4 DEF from, to, a, c

LEMMA PlacedApart ==
    ASSUME locks \in Seq(Lock), Grouped(locks), AllApart(locks), NEW r \in Request
    PROVE  Placed(r) \in Seq(Lock) /\ AllApart(Placed(r))
  <1> DEFINE o == r.owner
             a == Before(o)
             c == Behind(o)
             m == Merged(r)
             from == GroupStart(o)
             to == GroupEnd(o)
             n == Len(locks)
  <1>1. /\ m \in Seq(Lock) /\ AllApart(m) /\ \A k \in DOMAIN m : m[k].owner = o
    BY GroupRun, MergedSound
  <1>2. /\ a \in Seq(Lock) /\ c \in Seq(Lock)
        /\ n \in Nat /\ from \in 1 .. n + 1 /\ to \in from .. n + 1
        /\ \A k \in DOMAIN a :
             k \in DOMAIN locks /\ k < from /\ a[k] = locks[k] /\ a[k].owner # o
        /\ \A k \in DOMAIN c :
             /\ to + k - 1 \in DOMAIN locks /\ to <= to + k - 1
             /\ c[k] = locks[to + k - 1] /\ c[k].owner # o
    <2>1. a \in Seq(Lock) /\ c \in Seq(Lock)
      BY ThreeParts
    <2>2. n \in Nat /\ from \in 1 .. n + 1 /\ to \in from .. n + 1
      BY RunBounds
    <2>3. ASSUME NEW k \in DOMAIN a
          PROVE  k \in DOMAIN locks /\ k < from /\ a[k] = locks[k] /\ a[k].owner # o
      BY ThreeParts, OutsideOthers, RunBounds
    <2>4. ASSUME NEW k \in DOMAIN c
          PROVE  /\ to + k - 1 \in DOMAIN locks /\ to <= to + k - 1
                 /\ c[k] = locks[to + k - 1] /\ c[k].owner # o
      BY ThreeParts, OutsideOthers, RunBounds
    <2> QED BY <2>1, <2>2, <2>3, <2>4
  <1>3. DOMAIN a \subseteq Int /\ DOMAIN c \subseteq Int
    BY <1>2, LenProperties
  <1> HIDE DEF a, c, m, from, to, n, o
  <1>4. AllApart(a)
    BY <1>2 DEF AllApart
  <1>5. AllApart(c)
    <2>1. ASSUME NEW j \in DOMAIN c, NEW k \in DOMAIN c, j # k, c[j].owner = c[k].owner
          PROVE  Apart(c[j], c[k])
      <3>1. to + j - 1 # to + k - 1
        BY <1>2, <1>3, <2>1
      <3> QED BY <1>2, <2>1, <3>1 DEF AllApart
    <2> QED BY <2>1 DEF AllApart
  <1>6. AllApart(a \o m) /\ a \o m \in Seq(Lock)
    BY <1>1, <1>2, <1>4, JoinApart, ConcatProperties
  <1>7. ASSUME NEW j \in DOMAIN (a \o m), NEW k \in DOMAIN c,
               (a \o m)[j].owner = c[k].owner
        PROVE  Apart((a \o m)[j], c[k])
    <2>1. CASE j \in DOMAIN a /\ (a \o m)[j] = a[j]
      <3>1. j # to + k - 1
        BY <1>2, <1>3, <2>1
      <3>2. Apart(locks[j], locks[to + k - 1])
        BY <1>2, <1>7, <2>1, <3>1 DEF AllApart
      <3> QED BY <1>2, <2>1, <3>2
    <2>2. CASE j - Len(a) \in DOMAIN m /\ (a \o m)[j] = m[j - Len(a)]
      BY <1>1, <1>2, <1>7, <2>2
    <2>3. \/ j \in DOMAIN a /\ (a \o m)[j] = a[j]
          \/ j - Len(a) \in DOMAIN m /\ (a \o m)[j] = m[j - Len(a)]
      BY <1>1, <1>2, ConcatMembers
    <2> QED BY <2>1, <2>2, <2>3
  <1>8. AllApart((a \o m) \o c) /\ (a \o m) \o c \in Seq(Lock)
    BY <1>2, <1>5, <1>6, <1>7, JoinApart, ConcatProperties
  <1> QED BY <1>8, PlacedIs DEF a, c, m, o

\* A list t whose locks of o are those from `from` up to `to`, and a list s that
\* has `room` locks of o in their place: what stands behind them moves by d.
Replaces(s, t, o, n, from, to, room, d) ==
    /\ DOMAIN t = 1 .. n /\ DOMAIN s = 1 .. n + d /\ d = from + room - to
    /\ from = to => from = n + 1
    /\ \A k \in from .. to - 1 : t[k].owner = o
    /\ \A k \in DOMAIN s : k < from => s[k] = t[k] /\ t[k].owner # o
    /\ \A k \in DOMAIN s : from <= k /\ k < from + room => s[k].owner = o
    /\ \A k \in DOMAIN s : from + room <= k => s[k] = t[k - d] /\ t[k - d].owner # o

LEMMA ReplacedGrouped ==
    ASSUME NEW n \in Nat, NEW from \in 1 .. n + 1, NEW to \in from .. n + 1, NEW room \in Nat,
           NEW d \in Int, NEW s, NEW t, NEW o,
           Replaces(s, t, o, n, from, to, room, d), Grouped(t)
    PROVE  Grouped(s)
  <1> SUFFICES ASSUME NEW j \in DOMAIN s, NEW k \in DOMAIN s, j < k, s[j].owner = s[k].owner,
                      NEW i \in j .. k
               PROVE  s[i].owner = s[j].owner
    BY DEF Grouped
  <1>1. /\ n \in Int /\ from \in Int /\ to \in Int /\ room \in Int /\ d = from + room - to
        /\ 1 <= from /\ from <= to /\ to <= n + 1 /\ 0 <= room
        /\ DOMAIN s = 1 .. n + d /\ DOMAIN t = 1 .. n
    BY DEF Replaces
  <1>2. /\ j \in Int /\ k \in Int /\ i \in Int /\ i \in DOMAIN s
        /\ 1 <= j /\ j <= i /\ i <= k /\ k <= n + d
    BY <1>1
  <1>3. \A h \in DOMAIN s : s[h].owner = o <=> from <= h /\ h < from + room
    <2> SUFFICES ASSUME NEW h \in DOMAIN s
                 PROVE  s[h].owner = o <=> from <= h /\ h < from + room
      OBVIOUS
    <2>1. h < from \/ (from <= h /\ h < from + room) \/ from + room <= h
      BY <1>1
    <2>2. h < from => ~ (from <= h /\ h < from + room)
      BY <1>1
    <2>3. from + room <= h => ~ (from <= h /\ h < from + room)
      BY <1>1
    <2> QED BY <2>1, <2>2, <2>3 DEF Replaces
  <1>4. CASE s[j].owner = o
    <2>1. from <= j /\ k < from + room
      BY <1>3, <1>4
    <2>2. from <= i /\ i < from + room
      BY <1>1, <1>2, <2>1
    <2> QED BY <1>2, <1>3, <1>4, <2>2
  <1>5. CASE s[j].owner # o
    <2>1. ~ (from <= j /\ j < from + room) /\ ~ (from <= k /\ k < from + room)
      BY <1>3, <1>5
    <2>2. CASE k < from
      <3>1. /\ i < from /\ j < from
            /\ i \in DOMAIN t /\ j \in DOMAIN t /\ k \in DOMAIN t
        BY <1>1, <1>2, <2>2
      <3>2. s[j] = t[j] /\ s[k] = t[k] /\ s[i] = t[i]
        BY <1>2, <2>2, <3>1 DEF Replaces
      <3> QED BY <3>1, <3>2 DEF Grouped
    <2>3. CASE from + room <= j
      <3>1. /\ from + room <= i /\ from + room <= k
            /\ i - d \in (j - d) .. (k - d) /\ j - d < k - d
            /\ j - d \in DOMAIN t /\ k - d \in DOMAIN t
        BY <1>1, <1>2, <2>3
      <3>2. s[j] = t[j - d] /\ s[k] = t[k - d] /\ s[i] = t[i - d]
        BY <1>2, <2>3, <3>1 DEF Replaces
      <3>3. t[j - d].owner = t[k - d].owner
        BY <3>2
      <3>4. t[i - d].owner = t[j - d].owner
        BY <3>1, <3>3 DEF Grouped
      <3> QED BY <3>2, <3>4
    <2>4. CASE j < from /\ from + room <= k
      <3>1. /\ j < k - d /\ j \in DOMAIN t /\ k - d \in DOMAIN t
            /\ from < n + 1
        BY <1>1, <1>2, <2>4
      <3>2. from # to
        BY <1>1, <3>1 DEF Replaces
      <3>3. from \in from .. to - 1 /\ from \in j .. (k - d)
        BY <1>1, <1>2, <2>4, <3>2
      <3>4. s[j] = t[j] /\ s[k] = t[k - d]
        BY <2>4 DEF Replaces
      <3>5. t[from].owner = o
        BY <3>3 DEF Replaces
      <3>6. t[j].owner = t[k - d].owner
        BY <3>4
      <3>7. t[from].owner = t[j].owner
        BY <3>1, <3>3, <3>6 DEF Grouped
      <3> QED BY <1>5, <3>4, <3>5, <3>7
    <2>5. k < from \/ from + room <= j \/ (j < from /\ from + room <= k)
      BY <1>1, <1>2, <2>1
    <2> QED BY <2>2, <2>3, <2>4, <2>5
  <1> QED BY <1>4, <1>5

\* The locks of an owner still stand together.
LEMMA PlacedGrouped ==
    ASSUME locks \in Seq(Lock), Grouped(locks), AllApart(locks), NEW r \in Request
    PROVE  Grouped(Placed(r))
  <1> DEFINE o == r.owner
             a == Before(o)
             c == Behind(o)
             m == Merged(r)
             from == GroupStart(o)
             to == GroupEnd(o)
             n == Len(locks)
             s == (a \o m) \o c
             room == Len(m)
             d == from + room - to
  <1>1. m \in Seq(Lock) /\ room \in Nat /\ DOMAIN m = 1 .. room /\ \A k \in DOMAIN m : m[k].owner = o
    BY GroupRun, MergedSound, LenProperties
  <1>2. /\ a \in Seq(Lock) /\ c \in Seq(Lock)
        /\ n \in Nat /\ from \in 1 .. n + 1 /\ to \in from .. n + 1
        /\ Len(a) = from - 1 /\ Len(c) = n + 1 - to
        /\ from = to => from = n + 1
        /\ \A k \in from .. to - 1 : locks[k].owner = o
    BY ThreeParts, RunBounds
  <1>3. DOMAIN a = 1 .. from - 1 /\ DOMAIN c = 1 .. n + 1 - to /\ DOMAIN locks = 1 .. n
    BY <1>2, LenProperties
  <1>4. /\ \A k \in DOMAIN a : a[k] = locks[k] /\ a[k].owner # o
        /\ \A k \in DOMAIN c : c[k] = locks[to + k - 1] /\ c[k].owner # o
    BY OutsideOthers
  <1> HIDE DEF o, a, c, m, from, to, n, s, room, d
  <1>5. /\ a \o m \in Seq(Lock) /\ Len(a \o m) = Len(a) + Len(m)
        /\ \A k \in 1 .. Len(a) + Len(m) :
             (a \o m)[k] = IF k <= Len(a) THEN a[k] ELSE m[k - Len(a)]
    BY <1>1, <1>2, ConcatProperties
  <1>6. /\ s \in Seq(Lock) /\ Len(s) = Len(a \o m) + Len(c)
        /\ \A k \in 1 .. Len(a \o m) + Len(c) :
             s[k] = IF k <= Len(a \o m) THEN (a \o m)[k] ELSE c[k - Len(a \o m)]
    <2> DEFINE am == a \o m
    <2>1. am \in Seq(Lock) /\ s = am \o c
      BY <1>5 DEF s
    <2> HIDE DEF am
    <2>2. /\ am \o c \in Seq(Lock) /\ Len(am \o c) = Len(am) + Len(c)
          /\ \A k \in 1 .. Len(am) + Len(c) :
               (am \o c)[k] = IF k <= Len(am) THEN am[k] ELSE c[k - Len(am)]
      BY <1>2, <2>1, ConcatProperties
    <2> QED BY <2>1, <2>2 DEF am
  <1>7. /\ n \in Int /\ from \in Int /\ to \in Int /\ room \in Int
        /\ 1 <= from /\ from <= to /\ to <= n + 1 /\ 0 <= room
        /\ d \in Int /\ d = from + room - to
    BY <1>1, <1>2 DEF d
  <1>8. Len(a \o m) = from - 1 + room /\ Len(s) = n + d
    <2>1. Len(a \o m) = from - 1 + room
      BY <1>2, <1>5 DEF room
    <2> QED BY <1>2, <1>6, <1>7, <2>1
  <1>9. DOMAIN s = 1 .. n + d
    BY <1>6, <1>8, LenProperties
  <1>10. ASSUME NEW k \in DOMAIN s, k < from PROVE s[k] = locks[k] /\ locks[k].owner # o
    <2>1. /\ k \in 1 .. from - 1 /\ k \in 1 .. from - 1 + room /\ k <= from - 1
          /\ k <= from - 1 + room /\ k \in 1 .. n + d
      BY <1>7, <1>9, <1>10
    <2>2. s[k] = (a \o m)[k]
      BY <1>6, <1>8, <2>1
    <2>3. (a \o m)[k] = a[k]
      BY <1>2, <1>5, <1>8, <2>1
    <2> QED BY <1>3, <1>4, <2>1, <2>2, <2>3
  <1>11. ASSUME NEW k \in DOMAIN s, from <= k, k < from + room PROVE s[k].owner = o
    <2>1. /\ k - (from - 1) \in 1 .. room /\ k \in 1 .. from - 1 + room /\ ~ k <= from - 1
          /\ k <= from - 1 + room /\ k \in 1 .. n + d
      BY <1>7, <1>9, <1>11
    <2>2. s[k] = (a \o m)[k]
      BY <1>6, <1>8, <2>1
    <2>3. (a \o m)[k] = m[k - (from - 1)]
      BY <1>2, <1>5, <1>8, <2>1
    <2> QED BY <1>1, <2>1, <2>2, <2>3
  <1>12. ASSUME NEW k \in DOMAIN s, from + room <= k
         PROVE  s[k] = locks[k - d] /\ locks[k - d].owner # o
    <2>1. /\ k - (from - 1 + room) \in 1 .. n + 1 - to /\ ~ k <= from - 1 + room
          /\ k \in 1 .. n + d
          /\ to + (k - (from - 1 + room)) - 1 = k - d
      BY <1>7, <1>9, <1>12
    <2>2. s[k] = c[k - (from - 1 + room)]
      BY <1>6, <1>8, <2>1
    <2> QED BY <1>3, <1>4, <2>1, <2>2
  <1>13. Replaces(s, locks, o, n, from, to, room, d)
    BY <1>2, <1>3, <1>7, <1>9, <1>10, <1>11, <1>12 DEF Replaces
  <1>14. Grouped(s)
    BY <1>1, <1>2, <1>7, <1>13, ReplacedGrouped
  <1> QED BY <1>14, PlacedIs DEF s, a, c, m, o

\* What the request changes of what owners have: its own bytes of its own owner.
LEMMA PlacedHas ==
    ASSUME locks \in Seq(Lock), Grouped(locks), AllApart(locks), NEW r \in Request,
           NEW o, NEW b, NEW m \in {"read", "write"}
    PROVE  Has(Placed(r), o, b, m)
             <=> IF o = r.owner /\ b \in Span(r) THEN m = r.type ELSE Has(locks, o, b, m)
  <1> DEFINE x == Before(r.owner)
             y == Merged(r)
             z == Behind(r.owner)
             g == Group(r.owner)
  <1>1. /\ Run(r.owner, g) /\ y \in Seq(Lock)
        /\ \A k \in DOMAIN y : y[k].owner = r.owner
    BY GroupRun, MergedSound
  <1>2. /\ x \in Seq(Lock) /\ z \in Seq(Lock) /\ g \in Seq(Lock)
        /\ \A k \in DOMAIN x : x[k].owner # r.owner
        /\ \A k \in DOMAIN z : z[k].owner # r.owner
        /\ \A k \in DOMAIN g : g[k].owner = r.owner
    BY <1>1, ThreeParts, OutsideOthers DEF Run
  <1>3. Placed(r) = (x \o y) \o z /\ locks = (x \o g) \o z
    BY PlacedIs, LocksAre
  <1>4. Has(y, r.owner, b, m)
          <=> IF b \in Span(r) THEN m = r.type ELSE Has(g, r.owner, b, m)
    BY <1>1, MergedHas
  <1> HIDE DEF x, y, z, g
  <1>5. x \o y \in Seq(Lock) /\ x \o g \in Seq(Lock)
    BY <1>1, <1>2, ConcatProperties
  <1>6. Has(Placed(r), o, b, m) <=> Has(x, o, b, m) \/ Has(y, o, b, m) \/ Has(z, o, b, m)
    <2>1. Has(x \o y, o, b, m) <=> Has(x, o, b, m) \/ Has(y, o, b, m)
      BY <1>1, <1>2, HasJoins
    <2>2. Has((x \o y) \o z, o, b, m) <=> Has(x \o y, o, b, m) \/ Has(z, o, b, m)
      BY <1>2, <1>5, HasJoins
    <2> QED BY <1>3, <2>1, <2>2
  <1>7. Has(locks, o, b, m) <=> Has(x, o, b, m) \/ Has(g, o, b, m) \/ Has(z, o, b, m)
    <2>1. Has(x \o g, o, b, m) <=> Has(x, o, b, m) \/ Has(g, o, b, m)
      BY <1>2, HasJoins
    <2>2. Has((x \o g) \o z, o, b, m) <=> Has(x \o g, o, b, m) \/ Has(z, o, b, m)
      BY <1>2, <1>5, HasJoins
    <2> QED BY <1>3, <2>1, <2>2
  <1>8. CASE o = r.owner
    <2>1. ~ Has(x, o, b, m) /\ ~ Has(z, o, b, m)
      BY <1>2, <1>8 DEF Has
    <2> QED BY <1>4, <1>6, <1>7, <1>8, <2>1
  <1>9. CASE o # r.owner
    <2>1. ~ Has(y, o, b, m) /\ ~ Has(g, o, b, m)
      BY <1>1, <1>2, <1>9 DEF Has
    <2> QED BY <1>6, <1>7, <1>9, <2>1
  <1> QED BY <1>8, <1>9

-----------------------------------------------------------------------------
(***************************************************************************)
(* The locks of others, which stay when an owner's are removed.            *)
(***************************************************************************)

\* Each lock of s stands for one of the first i of the list, in the same order
\* (at[k] is its place); they are those that are not the owner's.
Keeps(s, at, o, i) ==
    /\ s \in Seq(Lock) /\ at \in [1 .. Len(s) -> 1 .. i]
    /\ \A k \in 1 .. Len(s) : s[k] = locks[at[k]] /\ s[k].owner # o
    /\ \A j, k \in 1 .. Len(s) : j < k => at[j] < at[k]
    /\ \A n \in 1 .. i : locks[n].owner # o => \E k \in 1 .. Len(s) : at[k] = n

LEMMA OthersSteps ==
    ASSUME locks \in Seq(Lock), NEW o
    PROVE  /\ Others(o)[0] = <<>>
           /\ \A i \in 1 .. Len(locks) :
                Others(o)[i] = IF locks[i].owner = o THEN Others(o)[i - 1]
                               ELSE Append(Others(o)[i - 1], locks[i])
  <1> DEFINE n == Len(locks)
             next(i, s) == IF locks[i].owner = o THEN s ELSE Append(s, locks[i])
             turn == [x \in (1 .. n) \X Seq(Lock) |-> next(x[1], x[2])]
             f == Others(o)
  <1>1. n \in Nat /\ <<>> \in Seq(Lock) /\ DOMAIN locks = 1 .. n
    BY LenProperties
  <1>2. ASSUME NEW i \in 1 .. n, NEW s \in Seq(Lock) PROVE next(i, s) \in Seq(Lock)
    <2>1. locks[i] \in Lock
      BY <1>1
    <2> QED BY <2>1
  <1>3. turn \in [(1 .. n) \X Seq(Lock) -> Seq(Lock)]
    <2> HIDE DEF next
    <2> QED BY <1>2
  <1>4. \A i \in 1 .. n, s \in Seq(Lock) : turn[<<i, s>>] = next(i, s)
    OBVIOUS
  <1> HIDE DEF turn
  <1>5. PICK g \in [0 .. n -> Seq(Lock)] : Runs(g, n, <<>>, turn)
    BY <1>1, <1>3, LoopRuns
  <1>6. \A i \in 0 .. n : i # 0 => i \in 1 .. n /\ i - 1 \in 0 .. n
    BY <1>1
  <1>7. \A i \in 0 .. n : g[i] = IF i = 0 THEN <<>> ELSE next(i, g[i - 1])
    <2> HIDE DEF next
    <2>1. \A i \in 0 .. n : g[i] = IF i = 0 THEN <<>> ELSE turn[<<i, g[i - 1]>>]
      BY <1>5 DEF Runs
    <2>2. \A i \in 0 .. n : i # 0 => turn[<<i, g[i - 1]>>] = next(i, g[i - 1])
      BY <1>4, <1>6
    <2> QED BY <2>1, <2>2
  <1>8. g = [i \in 0 .. n |-> IF i = 0 THEN <<>> ELSE next(i, g[i - 1])]
    <2> HIDE DEF next
    <2> QED BY <1>7
  <1>9. f = CHOOSE h : h = [i \in 0 .. n |-> IF i = 0 THEN <<>> ELSE next(i, h[i - 1])]
    BY DEF Others
  <1>10. f = [i \in 0 .. n |-> IF i = 0 THEN <<>> ELSE next(i, f[i - 1])]
    <2> HIDE DEF next
    <2> QED BY <1>8, <1>9
  <1>11. f[0] = <<>> /\ \A i \in 1 .. n : f[i] = next(i, f[i - 1])
    <2> HIDE DEF f, next
    <2>1. 0 \in 0 .. n /\ \A i \in 1 .. n : i \in 0 .. n /\ i # 0
      BY <1>1
    <2> QED BY <1>10, <2>1
  <1> QED BY <1>11

LEMMA OthersKeep ==
    ASSUME locks \in Seq(Lock), NEW o
    PROVE  \E at : Keeps(Others(o)[Len(locks)], at, o, Len(locks))
  <1> DEFINE n == Len(locks)
             f == Others(o)
             S == {i \in 0 .. n : \E at : Keeps(f[i], at, o, i)}
  <1>1. n \in Nat /\ DOMAIN locks = 1 .. n
    BY LenProperties
  <1>2. f[0] = <<>> /\ \A i \in 1 .. n :
            f[i] = IF locks[i].owner = o THEN f[i - 1] ELSE Append(f[i - 1], locks[i])
    BY OthersSteps
  <1> HIDE DEF f
  <1>3. 0 \in S
    <2>1. <<>> \in Seq(Lock) /\ Len(<<>>) = 0 /\ 1 .. 0 = {}
      OBVIOUS
    <2>2. [k \in 1 .. 0 |-> 0] \in [1 .. 0 -> 1 .. 0]
      OBVIOUS
    <2>3. Keeps(<<>>, [k \in 1 .. 0 |-> 0], o, 0)
      BY <2>1, <2>2 DEF Keeps
    <2> QED BY <1>1, <1>2, <2>3
  <1>4. ASSUME NEW i \in 0 .. n - 1, i \in S PROVE i + 1 \in S
    <2> DEFINE s == f[i]
               e == i + 1
               l == locks[e]
               ls == Len(s)
    <2>1. PICK at : Keeps(s, at, o, i)
      BY <1>4
    <2>2. e \in 1 .. n /\ e \in 0 .. n /\ e - 1 = i /\ i \in Int /\ e \in Int /\ l \in Lock
      BY <1>1
    <2>3. f[e] = IF l.owner = o THEN s ELSE Append(s, l)
      BY <1>2, <2>2
    <2>4. /\ s \in Seq(Lock) /\ ls \in Nat /\ at \in [1 .. ls -> 1 .. i]
          /\ \A k \in 1 .. ls : s[k] = locks[at[k]] /\ s[k].owner # o
          /\ \A j, k \in 1 .. ls : j < k => at[j] < at[k]
          /\ \A x \in 1 .. i : locks[x].owner # o => \E k \in 1 .. ls : at[k] = x
      BY <2>1 DEF Keeps
    <2>5. /\ \A k \in 1 .. ls : at[k] \in 1 .. i /\ at[k] \in 1 .. e /\ at[k] < e /\ at[k] \in Int
          /\ \A x \in 1 .. e : x = e \/ x \in 1 .. i
      <3> HIDE DEF s, l, S, ls
      <3>1. /\ \A y \in 1 .. i : y \in 1 .. e /\ y < e /\ y \in Int
            /\ \A x \in 1 .. e : x = e \/ x \in 1 .. i
        BY <2>2
      <3>2. \A k \in 1 .. ls : at[k] \in 1 .. i
        BY <2>4
      <3> HIDE DEF e
      <3> QED BY <3>1, <3>2
    <2> HIDE DEF s, ls, l, e, S
    <2>6. CASE l.owner = o
      <3>1. at \in [1 .. ls -> 1 .. e]
        BY <2>4, <2>5
      <3>2. \A x \in 1 .. e : locks[x].owner # o => \E k \in 1 .. ls : at[k] = x
        BY <2>4, <2>5, <2>6 DEF l
      <3>3. Keeps(s, at, o, e)
        BY <2>4, <3>1, <3>2 DEF Keeps, ls
      <3> QED BY <2>2, <2>3, <2>6, <3>3 DEF S, e
    <2>7. CASE l.owner # o
      <3> DEFINE t == Append(s, l)
                 new == [k \in 1 .. ls + 1 |-> IF k = ls + 1 THEN e ELSE at[k]]
      <3>1. t \in Seq(Lock) /\ Len(t) = ls + 1 /\ t[ls + 1] = l /\ \A k \in 1 .. ls : t[k] = s[k]
        BY <2>2, <2>4, AppendProperties DEF ls
      <3>2. \A k \in 1 .. ls + 1 : k = ls + 1 \/ (k \in 1 .. ls /\ k # ls + 1)
        BY <2>4
      <3>3. /\ ls + 1 \in 1 .. ls + 1 /\ e \in 1 .. e
            /\ \A k \in 1 .. ls : k \in 1 .. ls + 1 /\ k # ls + 1
        BY <2>2, <2>4
      <3>4. new[ls + 1] = e /\ \A k \in 1 .. ls : new[k] = at[k]
        BY <3>3
      <3>5. new \in [1 .. ls + 1 -> 1 .. e]
        BY <2>5, <3>2, <3>3
      <3> HIDE DEF t, new
      <3>6. ASSUME NEW k \in 1 .. ls + 1 PROVE t[k] = locks[new[k]] /\ t[k].owner # o
        <4>1. CASE k = ls + 1
          BY <2>7, <3>1, <3>4, <4>1 DEF l
        <4>2. CASE k \in 1 .. ls
          BY <2>4, <3>1, <3>4, <4>2
        <4> QED BY <3>2, <4>1, <4>2
      <3>7. ASSUME NEW j \in 1 .. ls + 1, NEW k \in 1 .. ls + 1, j < k PROVE new[j] < new[k]
        <4>1. j \in 1 .. ls
          BY <2>4, <3>7
        <4>2. CASE k = ls + 1
          BY <2>5, <3>4, <4>1, <4>2
        <4>3. CASE k \in 1 .. ls
          BY <2>4, <3>4, <3>7, <4>1, <4>3
        <4> QED BY <3>2, <4>2, <4>3
      <3>8. ASSUME NEW x \in 1 .. e, locks[x].owner # o
            PROVE  \E k \in 1 .. ls + 1 : new[k] = x
        <4>1. CASE x = e
          BY <3>3, <3>4, <4>1
        <4>2. CASE x \in 1 .. i
          <5>1. PICK k \in 1 .. ls : at[k] = x
            BY <2>4, <3>8, <4>2
          <5> QED BY <3>3, <3>4, <5>1
        <4> QED BY <2>5, <4>1, <4>2
      <3>9. Keeps(t, new, o, e)
        BY <3>1, <3>5, <3>6, <3>7, <3>8 DEF Keeps
      <3>10. f[e] = t
        BY <2>3, <2>7 DEF t
      <3> QED BY <2>2, <3>9, <3>10 DEF S, e
    <2> QED BY <2>6, <2>7
  <1> HIDE DEF S
  <1>5. \A i \in 0 .. n : i \in S
    BY <1>1, <1>3, <1>4, CountUp
  <1>6. n \in S
    BY <1>1, <1>5
  <1> QED BY <1>6 DEF S, f

\* So what is left is as sound as the list was, and only the owner loses bytes.
LEMMA OthersSound ==
    ASSUME locks \in Seq(Lock), Grouped(locks), AllApart(locks), NEW o,
           NEW p, NEW b, NEW m
    PROVE  LET left == Others(o)[Len(locks)] IN
           /\ left \in Seq(Lock) /\ Grouped(left) /\ AllApart(left)
           /\ Has(left, p, b, m) <=> p # o /\ Has(locks, p, b, m)
  <1> DEFINE n == Len(locks)
             s == Others(o)[n]
             ls == Len(s)
  <1>1. PICK at : Keeps(s, at, o, n)
    BY OthersKeep
  <1> HIDE DEF s
  <1>2. n \in Nat /\ DOMAIN locks = 1 .. n /\ s \in Seq(Lock)
    BY <1>1, LenProperties DEF Keeps
  <1>3. ls \in Nat /\ DOMAIN s = 1 .. ls
    BY <1>2, LenProperties
  <1> HIDE DEF n, ls
  <1>4. /\ \A k \in DOMAIN s : at[k] \in DOMAIN locks /\ s[k] = locks[at[k]] /\ s[k].owner # o
        /\ \A j, k \in DOMAIN s : j < k => at[j] < at[k]
        /\ \A x \in DOMAIN locks : locks[x].owner # o => \E k \in DOMAIN s : at[k] = x
    BY <1>1, <1>2, <1>3 DEF Keeps, ls
  <1>5. DOMAIN s \subseteq Int /\ DOMAIN locks \subseteq Int
    BY <1>2, <1>3
  <1>6. Grouped(s)
    <2> SUFFICES ASSUME NEW j \in DOMAIN s, NEW k \in DOMAIN s, j < k, s[j].owner = s[k].owner,
                        NEW i \in j .. k
                 PROVE  s[i].owner = s[j].owner
      BY DEF Grouped
    <2>1. i \in DOMAIN s /\ j \in Int /\ k \in Int /\ i \in Int /\ j <= i /\ i <= k
      BY <1>3, <1>5
    <2>2. /\ at[j] \in Int /\ at[k] \in Int /\ at[i] \in Int /\ at[j] < at[k]
          /\ j < i => at[j] < at[i]
          /\ i < k => at[i] < at[k]
      BY <1>4, <1>5, <2>1
    <2>3. j = i \/ j < i
      BY <2>1
    <2>4. i = k \/ i < k
      BY <2>1
    <2>5. at[i] \in at[j] .. at[k]
      BY <2>2, <2>3, <2>4
    <2>6. locks[at[i]].owner = locks[at[j]].owner
      BY <1>4, <2>2, <2>5 DEF Grouped
    <2> QED BY <1>4, <2>1, <2>6
  <1>7. AllApart(s)
    <2> SUFFICES ASSUME NEW j \in DOMAIN s, NEW k \in DOMAIN s, j # k, s[j].owner = s[k].owner
                 PROVE  Apart(s[j], s[k])
      BY DEF AllApart
    <2>1. at[j] # at[k]
      <3>1. j < k \/ k < j
        BY <1>5
      <3> QED BY <1>4, <1>5, <3>1
    <2> QED BY <1>4, <2>1 DEF AllApart
  <1>8. ASSUME Has(s, p, b, m) PROVE p # o /\ Has(locks, p, b, m)
    BY <1>4, <1>8 DEF Has
  <1>9. ASSUME p # o, Has(locks, p, b, m) PROVE Has(s, p, b, m)
    <2>1. PICK x \in DOMAIN locks :
            locks[x].owner = p /\ b \in Span(locks[x]) /\ locks[x].type = m
      BY <1>9 DEF Has
    <2>2. PICK k \in DOMAIN s : at[k] = x
      BY <1>4, <1>9, <2>1
    <2> QED BY <1>4, <2>1, <2>2 DEF Has
  <1> QED BY <1>2, <1>6, <1>7, <1>8, <1>9 DEF s, n

-----------------------------------------------------------------------------
(***************************************************************************)
(* The invariant.                                                          *)
(***************************************************************************)

ListFine == locks \in Seq(Lock) /\ Grouped(locks) /\ AllApart(locks)

ListOK == /\ locks \in Seq([owner : Owners, type : Types \ {"none"}, start : Bytes, end : Bytes])
          /\ Proper /\ ListSound

Answers == {"0", "EAGAIN", "unlocked", "read", "write"} \X Int \X Nat

LEMMA FineGives == ListFine => ListOK
  <1> SUFFICES ASSUME ListFine PROVE ListOK
    OBVIOUS
  <1> DEFINE AnyLock == [owner : Owners, type : Types \ {"none"}, start : Bytes, end : Bytes]
  <1>1. locks \in Seq(Lock)
    BY DEF ListFine
  <1>2. Types \ {"none"} = {"read", "write"}
    BY DEF Types
  <1>3. \A k \in DOMAIN locks : locks[k] \in AnyLock /\ locks[k].start <= locks[k].end
    BY <1>1, <1>2 DEF Lock
  <1> HIDE DEF AnyLock
  <1>4. locks \in Seq(AnyLock)
    BY <1>1, <1>3
  <1>5. ListSound
    BY <1>1, ListTerms DEF ListFine
  <1> QED BY <1>3, <1>4, <1>5 DEF ListOK, Proper, AnyLock

LEMMA LockInvariantParts ==
    /\ LockIInv => ListFine /\ answer \in Answers
    /\ ListOK /\ answer \in Answers => LockIInv
  <1>1. LockIInv => ListFine
    BY ListTyped DEF ListFine
  <1> QED BY <1>1 DEF LockIInv, LockTypeOK, ListOK, Answers

LEMMA InitFine == LockInit => ListFine /\ answer \in Answers
  <1> SUFFICES ASSUME LockInit PROVE ListFine /\ answer \in Answers
    OBVIOUS
  <1>1. locks = <<>> /\ answer = <<"0", 0, 0>>
    BY DEF LockInit
  <1>2. <<>> \in Seq(Lock) /\ DOMAIN <<>> = {}
    OBVIOUS
  <1> QED BY <1>1, <1>2 DEF ListFine, Grouped, AllApart, Answers

\* The length that F_GETLK reports names the range of the lock again.
LEMMA LenOfIs ==
    ASSUME NEW l \in Lock
    PROVE  LenOf(l) \in Nat /\ Span(FromFlock(l.start, LenOf(l))) = Span(l)
  <1>1. Between(l) /\ l.end <= MaxOff /\ MaxOff \in Nat
    BY LockBetween, BytesUp, OffAssumption DEF Lock
  <1>2. CASE l.end = MaxOff
    <2>1. LenOf(l) = 0
      BY <1>2 DEF LenOf
    <2>2. FromFlock(l.start, 0) = [start |-> l.start, end |-> MaxOff]
      BY DEF FromFlock
    <2> QED BY <1>2, <2>1, <2>2 DEF Span
  <1>3. CASE l.end # MaxOff
    <2>1. LenOf(l) = l.end - l.start + 1
      BY <1>3 DEF LenOf
    <2>2. LenOf(l) \in Nat /\ LenOf(l) > 0 /\ l.start + LenOf(l) - 1 = l.end
      BY <1>1, <2>1 DEF Between
    <2>3. FromFlock(l.start, LenOf(l)) = [start |-> l.start, end |-> l.end]
      BY <2>2 DEF FromFlock
    <2> QED BY <2>2, <2>3 DEF Span
  <1> QED BY <1>2, <1>3

\* The lock that F_GETLK reports stands in the way.
LEMMA FirstConflicting ==
    ASSUME ListFine, NEW r, Conflicting(r) # {}
    PROVE  LET k == CHOOSE k \in Conflicting(r) : \A j \in Conflicting(r) : k <= j
           IN  k \in DOMAIN locks /\ locks[k] \in Lock /\ Conflict(locks[k], r)
  <1>1. locks \in Seq(Lock) /\ Conflicting(r) \in SUBSET Nat
    <2>1. locks \in Seq(Lock)
      BY DEF ListFine
    <2> QED BY <2>1, LenProperties DEF Conflicting
  <1>2. \E k \in Conflicting(r) : \A j \in Conflicting(r) : k <= j
    BY <1>1, LeastMember
  <1> DEFINE k == CHOOSE k \in Conflicting(r) : \A j \in Conflicting(r) : k <= j
  <1>3. k \in Conflicting(r)
    BY <1>2
  <1> HIDE DEF k
  <1>4. k \in DOMAIN locks /\ Conflict(locks[k], r)
    BY <1>3 DEF Conflicting
  <1> QED BY <1>1, <1>4 DEF k

LEMMA NextFine ==
    ASSUME ListFine, answer \in Answers, [LockNext]_lockVars
    PROVE  ListFine' /\ (answer \in Answers)'
  <1>1. ASSUME NEW r \in Requests(Types), answer' \in Answers, locks' = Placed(r)
        PROVE  ListFine'
    <2>1. r \in Request
      BY RequestTyped
    <2>2. Placed(r) \in Seq(Lock) /\ Grouped(Placed(r)) /\ AllApart(Placed(r))
      BY <2>1, PlacedApart, PlacedGrouped DEF ListFine
    <2> QED BY <1>1, <2>2 DEF ListFine
  <1>2. ASSUME UNCHANGED locks PROVE ListFine'
    BY <1>2 DEF ListFine
  <1>3. CASE SetLk
    <2>1. PICK r \in Requests(Types) :
            IF r.type # "none" /\ Conflicting(r) # {}
            THEN answer' = <<"EAGAIN", 0, 0>> /\ UNCHANGED locks
            ELSE answer' = <<"0", 0, 0>> /\ locks' = Placed(r)
      BY <1>3 DEF SetLk
    <2>2. <<"EAGAIN", 0, 0>> \in Answers /\ <<"0", 0, 0>> \in Answers
      BY DEF Answers
    <2> QED BY <1>1, <1>2, <2>1, <2>2
  <1>4. CASE GetLk
    <2> DEFINE first(r) == CHOOSE k \in Conflicting(r) : \A j \in Conflicting(r) : k <= j
    <2>1. PICK r \in Requests({"read", "write"}) :
            /\ answer' = IF Conflicting(r) = {} THEN <<"unlocked", 0, 0>>
                         ELSE <<locks[first(r)].type, locks[first(r)].start,
                                LenOf(locks[first(r)])>>
            /\ UNCHANGED locks
      BY <1>4 DEF GetLk
    <2>2. CASE Conflicting(r) = {}
      BY <1>2, <2>1, <2>2 DEF Answers
    <2>3. CASE Conflicting(r) # {}
      <3> DEFINE l == locks[first(r)]
      <3>1. l \in Lock
        BY <2>3, FirstConflicting
      <3>2. answer' = <<l.type, l.start, LenOf(l)>>
        BY <2>1, <2>3
      <3> HIDE DEF l
      <3>3. l.type \in {"read", "write"} /\ l.start \in Int /\ LenOf(l) \in Nat
        BY <3>1, LockBetween, LenOfIs DEF Between
      <3> QED BY <1>2, <2>1, <3>2, <3>3 DEF Answers
    <2> QED BY <2>2, <2>3
  <1>5. CASE RemoveOwnedBy
    <2>1. PICK o \in Owners : locks' = Others(o)[Len(locks)] /\ UNCHANGED answer
      BY <1>5 DEF RemoveOwnedBy
    <2> DEFINE left == Others(o)[Len(locks)]
    <2>2. left \in Seq(Lock) /\ Grouped(left) /\ AllApart(left)
      BY OthersSound DEF ListFine
    <2> HIDE DEF left
    <2>3. locks' = left
      BY <2>1 DEF left
    <2> QED BY <2>1, <2>2, <2>3 DEF ListFine
  <1>6. CASE UNCHANGED lockVars
    BY <1>2, <1>6 DEF lockVars
  <1> QED BY <1>3, <1>4, <1>5, <1>6 DEF LockNext

\* The invariant the proofs rest on: the list is of proper locks, those of an
\* owner next to each other, apart and merged.
THEOREM LockInvariantHolds == LockSpec => []LockIInv
  <1> DEFINE All == ListFine /\ answer \in Answers
  <1>1. LockInit => All
    BY InitFine
  <1>2. All /\ [LockNext]_lockVars => All'
    BY NextFine
  <1>3. All => LockIInv
    BY FineGives, LockInvariantParts
  <1> HIDE DEF All
  <1> QED BY <1>1, <1>2, <1>3, PTL DEF LockSpec

\* Every lock is of an owner, of a mode and of bytes that requests reach.
THEOREM LockTypeCorrect == LockSpec => []LockTypeOK
  <1>1. LockIInv => LockTypeOK
    BY DEF LockIInv
  <1> QED BY <1>1, LockInvariantHolds, PTL

\* Locks of an owner stand together, do not overlap and are merged where they
\* touch, after any calls (file_lock_acquire, file_lock_remove_owned_by).
THEOREM ListStaysSound == LockSpec => []ListSound
  <1>1. LockIInv => ListSound
    BY DEF LockIInv
  <1> QED BY <1>1, LockInvariantHolds, PTL

-----------------------------------------------------------------------------
(***************************************************************************)
(* The list as a map from bytes to modes: each call does what the contract *)
(* says.                                                                   *)
(***************************************************************************)

HeldMeans == \A o, b :
    /\ Held(o, b) \in {"none", "read", "write"}
    /\ \A m \in {"read", "write"} : Held(o, b) = m <=> Has(locks, o, b, m)

\* The locks of an owner do not overlap, so a byte is of one of them at most.
LEMMA HeldIs == ListFine => HeldMeans
  <1> SUFFICES ASSUME ListFine, NEW o, NEW b
               PROVE  /\ Held(o, b) \in {"none", "read", "write"}
                      /\ \A m \in {"read", "write"} : Held(o, b) = m <=> Has(locks, o, b, m)
    BY DEF HeldMeans
  <1> DEFINE mine == {k \in DOMAIN locks :
                        locks[k].owner = o /\ b \in locks[k].start .. locks[k].end}
             at == CHOOSE k \in mine : TRUE
  <1>1. locks \in Seq(Lock) /\ AllApart(locks)
    BY DEF ListFine
  <1>2. \A k \in DOMAIN locks : Between(locks[k]) /\ locks[k].type \in {"read", "write"}
    BY <1>1, LockBetween
  <1>3. \A k : k \in mine <=>
          k \in DOMAIN locks /\ locks[k].owner = o /\ b \in Span(locks[k])
    BY DEF Span
  <1>4. Held(o, b) = IF mine = {} THEN "none" ELSE locks[at].type
    BY DEF Held
  <1>5. mine # {} => at \in mine
    OBVIOUS
  <1> HIDE DEF at, mine
  <1>6. CASE mine = {}
    <2>1. \A m : ~ Has(locks, o, b, m)
      BY <1>3, <1>6 DEF Has
    <2> QED BY <1>4, <1>6, <2>1
  <1>7. CASE mine # {}
    <2>1. at \in DOMAIN locks /\ locks[at].owner = o /\ b \in Span(locks[at])
      BY <1>3, <1>5, <1>7
    <2>2. ASSUME NEW k \in DOMAIN locks, locks[k].owner = o, b \in Span(locks[k])
          PROVE  k = at
      <3> SUFFICES ASSUME k # at PROVE FALSE
        OBVIOUS
      <3>1. ~ Overlap(locks[k], locks[at])
        BY <1>1, <2>1, <2>2 DEF AllApart, Apart
      <3>2. Span(locks[k]) \subseteq Int
        BY <1>2, SpanOf
      <3> QED BY <1>2, <2>1, <2>2, <3>1, <3>2, SpanOf
    <2>3. \A m : Has(locks, o, b, m) <=> locks[at].type = m
      BY <2>1, <2>2 DEF Has
    <2> QED BY <1>2, <1>4, <1>7, <2>1, <2>3
  <1> QED BY <1>6, <1>7

LEMMA BytesFill ==
    ASSUME NEW first \in Bytes, NEW last \in Bytes
    PROVE  first .. last \subseteq Bytes
  <1>1. first \in Int /\ last \in Int /\ last <= MaxOff /\ MaxOff \in Int
    BY BytesUp, OffAssumption
  <1>2. \A b \in first .. last : b \in Int /\ first <= b /\ b <= MaxOff
    BY <1>1
  <1> QED BY <1>2, BytesUp

\* The bytes of a request are those of one of the ranges, and reachable.
LEMMA RequestSpan ==
    ASSUME NEW types \in SUBSET Types, NEW r \in Requests(types)
    PROVE  /\ Span(r) \in {Span(s) : s \in Ranges}
           /\ Span(r) \subseteq Bytes
           /\ r \in Request /\ r.owner \in Owners /\ r.type \in types
  <1>1. /\ r \in Request /\ r.type \in types
        /\ \E s \in Ranges : r.start = s.start /\ r.end = s.end
    BY RequestTyped
  <1>2. PICK s \in Ranges : r.start = s.start /\ r.end = s.end
    BY <1>1
  <1>3. Span(r) = Span(s)
    BY <1>2 DEF Span
  <1>4. Span(r) \subseteq Bytes
    <2>1. r.start \in Bytes /\ r.end \in Bytes
      BY <1>1 DEF Request
    <2> QED BY <2>1, BytesFill DEF Span
  <1> QED BY <1>1, <1>3, <1>4, LockBetween

LEMMA LockSpan ==
    ASSUME NEW l \in Lock
    PROVE  Span(l) \subseteq Bytes
  <1>1. l.start \in Bytes /\ l.end \in Bytes
    BY DEF Lock
  <1> QED BY <1>1, BytesFill DEF Span

\* A lock conflicts with a request exactly when its owner's bytes block it.
LEMMA BlockedIs ==
    ASSUME ListFine, NEW types \in SUBSET Types, NEW r \in Requests(types)
    PROVE  Contract!Blocked(r.owner, r.type, Span(r))
             <=> r.type # "none" /\ Conflicting(r) # {}
  <1>1. /\ Span(r) \subseteq Bytes /\ r \in Request /\ Between(r)
        /\ r.type \in {"none", "read", "write"}
    BY RequestSpan, LockBetween DEF Types
  <1>2. /\ locks \in Seq(Lock)
        /\ \A k \in DOMAIN locks : /\ locks[k] \in Lock /\ Between(locks[k])
                                   /\ locks[k].owner \in Owners
                                   /\ locks[k].type \in {"read", "write"}
    BY LockBetween DEF ListFine
  <1>3. HeldMeans
    BY HeldIs
  <1>4. ASSUME Contract!Blocked(r.owner, r.type, Span(r))
        PROVE  r.type # "none" /\ Conflicting(r) # {}
    <2>1. PICK p \in Owners \ {r.owner}, b \in Span(r) :
            /\ r.type # "none" /\ Holding[p][b] # "none"
            /\ "write" \in {r.type, Holding[p][b]}
      BY <1>4 DEF Contract!Blocked, Contract!Clash
    <2>2. Holding[p][b] = Held(p, b)
      BY <1>1 DEF Holding
    <2>3. Held(p, b) \in {"read", "write"} /\ Has(locks, p, b, Held(p, b))
      BY <1>3, <2>1, <2>2 DEF HeldMeans
    <2>4. PICK k \in DOMAIN locks :
            locks[k].owner = p /\ b \in Span(locks[k]) /\ locks[k].type = Held(p, b)
      BY <2>3 DEF Has
    <2>5. b \in Int
      BY <1>1, SpanOf
    <2>6. Overlap(locks[k], r)
      BY <1>1, <1>2, <2>4, <2>5, SpanOf
    <2>7. Conflict(locks[k], r)
      BY <2>1, <2>2, <2>4, <2>6 DEF Conflict
    <2> QED BY <2>1, <2>7 DEF Conflicting
  <1>5. ASSUME r.type # "none", NEW k \in DOMAIN locks, Conflict(locks[k], r)
        PROVE  Contract!Blocked(r.owner, r.type, Span(r))
    <2> DEFINE l == locks[k]
    <2>1. l.owner # r.owner /\ Overlap(l, r) /\ "write" \in {l.type, r.type}
      BY <1>5 DEF Conflict
    <2>2. PICK b \in Int : b \in Span(l) /\ b \in Span(r)
      BY <1>1, <1>2, <2>1, SpanOf
    <2>3. Has(locks, l.owner, b, l.type)
      BY <2>2 DEF Has
    <2>4. Held(l.owner, b) = l.type
      BY <1>2, <1>3, <2>3 DEF HeldMeans
    <2>5. l.owner \in Owners /\ Holding[l.owner][b] = l.type
      BY <1>1, <1>2, <2>2, <2>4 DEF Holding
    <2>6. l.type # "none"
      BY <1>2
    <2> HIDE DEF l
    <2> QED BY <1>5, <2>1, <2>2, <2>5, <2>6 DEF Contract!Blocked, Contract!Clash
  <1> QED BY <1>4, <1>5 DEF Conflicting

\* SetLk that succeeds.
LEMMA SetHolds ==
    ASSUME ListFine, ListFine', NEW r \in Requests(Types), locks' = Placed(r)
    PROVE  Holding' = [Holding EXCEPT ![r.owner] =
                         [b \in Bytes |-> IF b \in Span(r) THEN r.type ELSE @[b]]]
  <1> DEFINE new == [p \in Owners |-> [b \in Bytes |->
                       IF p = r.owner /\ b \in Span(r) THEN r.type ELSE Held(p, b)]]
  <1>1. r \in Request /\ r.owner \in Owners /\ r.type \in {"none", "read", "write"}
    BY RequestSpan DEF Types
  <1>2. HeldMeans /\ HeldMeans'
    <2>1. HeldMeans
      BY HeldIs
    <2>2. (ListFine => HeldMeans)'
      BY HeldIs, PTL
    <2> QED BY <2>1, <2>2
  <1>3. ASSUME NEW p, NEW b
        PROVE  Held(p, b)' = IF p = r.owner /\ b \in Span(r) THEN r.type ELSE Held(p, b)
    <2>1. \A m \in {"read", "write"} : Has(Placed(r), p, b, m)
            <=> IF p = r.owner /\ b \in Span(r) THEN m = r.type ELSE Has(locks, p, b, m)
      BY <1>1, PlacedHas DEF ListFine
    <2>2. /\ Held(p, b)' \in {"none", "read", "write"}
          /\ \A m \in {"read", "write"} : Held(p, b)' = m <=> Has(Placed(r), p, b, m)
      <3>1. /\ Held(p, b)' \in {"none", "read", "write"}
            /\ \A m \in {"read", "write"} : Held(p, b)' = m <=> Has(locks', p, b, m)
        BY <1>2 DEF HeldMeans, Has
      <3> QED BY <3>1
    <2>3. /\ Held(p, b) \in {"none", "read", "write"}
          /\ \A m \in {"read", "write"} : Held(p, b) = m <=> Has(locks, p, b, m)
      BY <1>2 DEF HeldMeans
    <2> QED BY <1>1, <2>1, <2>2, <2>3
  <1>4. Holding' = new
    BY <1>3 DEF Holding
  <1>5. Holding = [p \in Owners |-> [b \in Bytes |-> Held(p, b)]]
    BY DEF Holding
  <1>6. new = [Holding EXCEPT ![r.owner] =
                 [b \in Bytes |-> IF b \in Span(r) THEN r.type ELSE @[b]]]
    <2> HIDE DEF Span, Held
    <2> QED BY <1>1, <1>5
  <1> QED BY <1>4, <1>6

\* RemoveOwnedBy.
LEMMA ForgetHolds ==
    ASSUME ListFine, ListFine', NEW o \in Owners, locks' = Others(o)[Len(locks)]
    PROVE  Holding' = [Holding EXCEPT ![o] = [b \in Bytes |-> "none"]]
  <1> DEFINE new == [p \in Owners |-> [b \in Bytes |-> IF p = o THEN "none" ELSE Held(p, b)]]
             left == Others(o)[Len(locks)]
  <1>2. HeldMeans /\ HeldMeans'
    <2>1. HeldMeans
      BY HeldIs
    <2>2. (ListFine => HeldMeans)'
      BY HeldIs, PTL
    <2> QED BY <2>1, <2>2
  <1>3. ASSUME NEW p, NEW b
        PROVE  Held(p, b)' = IF p = o THEN "none" ELSE Held(p, b)
    <2>1. \A m \in {"read", "write"} : Has(left, p, b, m) <=> p # o /\ Has(locks, p, b, m)
      BY OthersSound DEF ListFine
    <2>2. /\ Held(p, b)' \in {"none", "read", "write"}
          /\ \A m \in {"read", "write"} : Held(p, b)' = m <=> Has(left, p, b, m)
      <3>1. /\ Held(p, b)' \in {"none", "read", "write"}
            /\ \A m \in {"read", "write"} : Held(p, b)' = m <=> Has(locks', p, b, m)
        BY <1>2 DEF HeldMeans, Has
      <3> QED BY <3>1
    <2>3. /\ Held(p, b) \in {"none", "read", "write"}
          /\ \A m \in {"read", "write"} : Held(p, b) = m <=> Has(locks, p, b, m)
      BY <1>2 DEF HeldMeans
    <2> HIDE DEF left
    <2> QED BY <2>1, <2>2, <2>3
  <1>4. Holding' = new
    BY <1>3 DEF Holding
  <1>5. Holding = [p \in Owners |-> [b \in Bytes |-> Held(p, b)]]
    BY DEF Holding
  <1>6. new = [Holding EXCEPT ![o] = [b \in Bytes |-> "none"]]
    <2> HIDE DEF Held
    <2> QED BY <1>5
  <1> QED BY <1>4, <1>6

\* GetLk: the lock it reports is one other owner's, and stands in the way.
LEMMA GetTests ==
    ASSUME ListFine, NEW r \in Requests({"read", "write"}),
           answer' = IF Conflicting(r) = {} THEN <<"unlocked", 0, 0>>
                     ELSE LET k == CHOOSE k \in Conflicting(r) : \A j \in Conflicting(r) : k <= j
                          IN  <<locks[k].type, locks[k].start, LenOf(locks[k])>>,
           UNCHANGED locks
    PROVE  Contract!Test(r.owner, r.type, Span(r))
  <1>0. {"read", "write"} \in SUBSET Types
    BY DEF Types
  <1>1. /\ Span(r) \subseteq Bytes /\ r \in Request /\ Between(r) /\ r.owner \in Owners
        /\ r.type \in {"read", "write"}
    BY <1>0, RequestSpan, LockBetween
  <1>2. UNCHANGED Holding
    BY DEF Holding, Held
  <1>3. CASE Conflicting(r) = {}
    <2>1. Reported' = <<"unlocked", {}>>
      BY <1>3 DEF Reported
    <2>2. ~ Contract!Blocked(r.owner, r.type, Span(r))
      BY <1>0, <1>3, BlockedIs
    <2> QED BY <1>2, <2>1, <2>2 DEF Contract!Test
  <1>4. CASE Conflicting(r) # {}
    <2> DEFINE k == CHOOSE k \in Conflicting(r) : \A j \in Conflicting(r) : k <= j
               l == locks[k]
    <2>1. k \in DOMAIN locks /\ l \in Lock /\ Conflict(l, r)
      BY <1>4, FirstConflicting
    <2>2. answer' = <<l.type, l.start, LenOf(l)>>
      BY <1>4
    <2> HIDE DEF k
    <2>3. /\ l.owner \in Owners /\ l.owner # r.owner /\ l.type \in {"read", "write"}
          /\ Between(l) /\ Overlap(l, r) /\ "write" \in {l.type, r.type}
      BY <2>1, LockBetween DEF Conflict
    <2>4. Reported' = <<l.type, Span(l)>>
      <3>1. Reported' = <<answer'[1], IF answer'[1] \in {"read", "write"}
                            THEN Span(FromFlock(answer'[2], answer'[3])) ELSE {}>>
        BY DEF Reported
      <3>2. Span(FromFlock(l.start, LenOf(l))) = Span(l)
        BY <2>1, LenOfIs
      <3> HIDE DEF l
      <3>3. answer'[1] = l.type /\ answer'[2] = l.start /\ answer'[3] = LenOf(l)
        BY <2>2
      <3> QED BY <2>3, <3>1, <3>2, <3>3
    <2>5. Span(l) \in SUBSET Bytes /\ Span(l) \cap Span(r) # {}
      <3>1. \E b \in Int : b \in Span(l) /\ b \in Span(r)
        BY <1>1, <2>3, SpanOf
      <3>2. Span(l) \subseteq Bytes
        BY <2>1, LockSpan
      <3> QED BY <3>1, <3>2
    <2>6. ASSUME NEW b \in Span(l) PROVE Holding[l.owner][b] = l.type
      <3>1. Has(locks, l.owner, b, l.type)
        BY <2>1 DEF Has
      <3>2. Held(l.owner, b) = l.type
        BY <2>3, <3>1, HeldIs DEF HeldMeans
      <3> QED BY <2>3, <2>5, <3>2 DEF Holding
    <2> HIDE DEF l
    <2>7. Contract!Clash(r.type, l.type) /\ l.type \in Contract!Modes
      BY <1>1, <2>3 DEF Contract!Clash, Contract!Modes
    <2> QED BY <1>2, <2>3, <2>4, <2>5, <2>6, <2>7 DEF Contract!Test
  <1> QED BY <1>3, <1>4

LEMMA InitMaps == LockInit => Contract!Init
  <1> SUFFICES ASSUME LockInit PROVE Contract!Init
    OBVIOUS
  <1>1. locks = <<>> /\ answer = <<"0", 0, 0>>
    BY DEF LockInit
  <1>2. DOMAIN locks = {}
    BY <1>1
  <1>3. \A o, b : Held(o, b) = "none"
    BY <1>2 DEF Held
  <1>4. Holding = [o \in Owners |-> [b \in Bytes |-> "none"]]
    BY <1>3 DEF Holding
  <1>5. Reported = <<"0", {}>>
    BY <1>1 DEF Reported
  <1> QED BY <1>4, <1>5 DEF Contract!Init

LEMMA StepMaps ==
    ASSUME ListFine, ListFine', [LockNext]_lockVars
    PROVE  [Contract!Next]_<<Holding, Reported>>
  <1>1. CASE SetLk
    <2>1. PICK r \in Requests(Types) :
            IF r.type # "none" /\ Conflicting(r) # {}
            THEN answer' = <<"EAGAIN", 0, 0>> /\ UNCHANGED locks
            ELSE answer' = <<"0", 0, 0>> /\ locks' = Placed(r)
      BY <1>1 DEF SetLk
    <2>2. /\ Span(r) \in {Span(s) : s \in Ranges} /\ r.owner \in Owners
          /\ r.type \in Contract!Modes
      BY RequestSpan DEF Types, Contract!Modes
    <2>3. Contract!Blocked(r.owner, r.type, Span(r)) <=> r.type # "none" /\ Conflicting(r) # {}
      BY BlockedIs
    <2>4. CASE r.type # "none" /\ Conflicting(r) # {}
      <3>1. answer' = <<"EAGAIN", 0, 0>> /\ UNCHANGED locks
        BY <2>1, <2>4
      <3>2. Reported' = <<"EAGAIN", {}>>
        BY <3>1 DEF Reported
      <3>3. UNCHANGED Holding
        BY <3>1 DEF Holding, Held
      <3> QED BY <2>2, <2>3, <2>4, <3>2, <3>3 DEF Contract!Set, Contract!Next
    <2>5. CASE ~ (r.type # "none" /\ Conflicting(r) # {})
      <3>1. answer' = <<"0", 0, 0>> /\ locks' = Placed(r)
        BY <2>1, <2>5
      <3>2. Reported' = <<"0", {}>>
        BY <3>1 DEF Reported
      <3>3. Holding' = [Holding EXCEPT ![r.owner] =
                         [b \in Bytes |-> IF b \in Span(r) THEN r.type ELSE @[b]]]
        BY <3>1, SetHolds
      <3>4. Contract!Set(r.owner, r.type, Span(r))
        BY <2>3, <2>5, <3>2, <3>3 DEF Contract!Set
      <3> QED BY <2>2, <3>4 DEF Contract!Next
    <2> QED BY <2>4, <2>5
  <1>2. CASE GetLk
    <2>1. PICK r \in Requests({"read", "write"}) :
            /\ answer' = IF Conflicting(r) = {} THEN <<"unlocked", 0, 0>>
                         ELSE LET k == CHOOSE k \in Conflicting(r) : \A j \in Conflicting(r) : k <= j
                              IN  <<locks[k].type, locks[k].start, LenOf(locks[k])>>
            /\ UNCHANGED locks
      BY <1>2 DEF GetLk
    <2>2. Contract!Test(r.owner, r.type, Span(r))
      BY <2>1, GetTests
    <2>3. {"read", "write"} \in SUBSET Types
      BY DEF Types
    <2>4. /\ Span(r) \in {Span(s) : s \in Ranges} /\ r.owner \in Owners
          /\ r.type \in Contract!Modes \ {"none"}
      BY <2>3, RequestSpan DEF Contract!Modes
    <2> QED BY <2>2, <2>4 DEF Contract!Next
  <1>3. CASE RemoveOwnedBy
    <2>1. PICK o \in Owners : locks' = Others(o)[Len(locks)] /\ UNCHANGED answer
      BY <1>3 DEF RemoveOwnedBy
    <2>2. Holding' = [Holding EXCEPT ![o] = [b \in Bytes |-> "none"]]
      BY <2>1, ForgetHolds
    <2>3. UNCHANGED Reported
      BY <2>1 DEF Reported
    <2> QED BY <2>2, <2>3 DEF Contract!Forget, Contract!Next
  <1>4. CASE UNCHANGED lockVars
    <2>1. UNCHANGED Holding /\ UNCHANGED Reported
      BY <1>4 DEF lockVars, Holding, Held, Reported
    <2> QED BY <2>1
  <1> QED BY <1>1, <1>2, <1>3, <1>4 DEF LockNext

\* Whatever the requests merge, cut and split, the list is the map from bytes to
\* modes that the contract speaks of, and every call does what it promises.
THEOREM ContractKept == LockSpec => ContractHolds
  <1> DEFINE All == ListFine /\ answer \in Answers
  <1>1. LockInit => All /\ Contract!Init
    BY InitFine, InitMaps
  <1>2. All /\ [LockNext]_lockVars => All'
    BY NextFine
  <1>3. All /\ All' /\ [LockNext]_lockVars => [Contract!Next]_<<Holding, Reported>>
    BY StepMaps
  <1> HIDE DEF All
  <1> QED BY <1>1, <1>2, <1>3, PTL DEF LockSpec, ContractHolds, Contract!Spec

-----------------------------------------------------------------------------
(***************************************************************************)
(* What the contract gives: readers share a byte, a writer does not.       *)
(***************************************************************************)

HeldOK == Holding \in [Owners -> [Bytes -> Contract!Modes]]

\* A request that nobody blocks clashes with no other owner's bytes.
LEMMA RecordSetKeeps ==
    ASSUME HeldOK, Contract!NoClash, NEW o \in Owners, NEW mode \in Contract!Modes,
           NEW R \in {Span(q) : q \in Ranges}, Contract!Set(o, mode, R)
    PROVE  HeldOK' /\ Contract!NoClash'
<1>1. CASE UNCHANGED Holding
    BY <1>1 DEF HeldOK, Contract!NoClash
<1>2. CASE /\ Holding' = [Holding EXCEPT ![o] = [b \in Bytes |-> IF b \in R THEN mode ELSE @[b]]]
           /\ ~ Contract!Blocked(o, mode, R)
    <2>1. HeldOK'
        BY <1>2 DEF HeldOK
    <2>2. ASSUME NEW p \in Owners, p # o, NEW b \in Bytes
          PROVE  /\ Holding'[p][b] = Holding[p][b]
                 /\ ~ Contract!Clash(Holding'[o][b], Holding'[p][b])
        <3>1. Holding'[p] = Holding[p] /\ Holding'[o][b] = IF b \in R THEN mode ELSE Holding[o][b]
            BY <1>2, <2>2 DEF HeldOK
        <3>2. CASE b \in R
            BY <1>2, <2>2, <3>1, <3>2 DEF Contract!Blocked
        <3>3. CASE b \notin R
            BY <2>2, <3>1, <3>3 DEF Contract!NoClash
        <3> QED BY <3>1, <3>2, <3>3
    <2>3. ASSUME NEW p \in Owners, NEW q \in Owners, p # q, NEW b \in Bytes
          PROVE  ~ Contract!Clash(Holding'[p][b], Holding'[q][b])
        <3>1. CASE p = o
            BY <2>2, <2>3, <3>1
        <3>2. CASE q = o
            BY <2>2, <2>3, <3>2 DEF Contract!Clash
        <3>3. CASE p # o /\ q # o
            BY <2>2, <2>3, <3>3 DEF Contract!NoClash
        <3> QED BY <3>1, <3>2, <3>3
    <2> QED BY <2>1, <2>3 DEF Contract!NoClash
<1> QED BY <1>1, <1>2 DEF Contract!Set

\* Closing a descriptor gives bytes up and takes none.
LEMMA RecordForgetKeeps ==
    ASSUME HeldOK, Contract!NoClash, NEW o \in Owners, Contract!Forget(o)
    PROVE  HeldOK' /\ Contract!NoClash'
<1>1. Holding' = [Holding EXCEPT ![o] = [b \in Bytes |-> "none"]]
    BY DEF Contract!Forget
<1>2. HeldOK'
    BY <1>1 DEF HeldOK, Contract!Modes
<1>3. ASSUME NEW p \in Owners, NEW b \in Bytes
      PROVE  Holding'[p][b] = IF p = o THEN "none" ELSE Holding[p][b]
    BY <1>1 DEF HeldOK
<1>4. Contract!NoClash'
    BY <1>3 DEF Contract!NoClash, Contract!Clash
<1> QED BY <1>2, <1>4

LEMMA ContractExcludes == Contract!Spec => []Contract!NoClash
<1>1. Contract!Init => HeldOK /\ Contract!NoClash
    BY DEF Contract!Init, HeldOK, Contract!NoClash, Contract!Clash, Contract!Modes
<1>2. HeldOK /\ Contract!NoClash /\ [Contract!Next]_<<Holding, Reported>>
      => HeldOK' /\ Contract!NoClash'
    <2> SUFFICES ASSUME HeldOK, Contract!NoClash, [Contract!Next]_<<Holding, Reported>>
                 PROVE  HeldOK' /\ Contract!NoClash'
        OBVIOUS
    <2>1. CASE UNCHANGED Holding
        BY <2>1 DEF HeldOK, Contract!NoClash
    <2>2. ASSUME NEW o \in Owners, NEW mode \in Contract!Modes, NEW R \in {Span(q) : q \in Ranges},
                 Contract!Test(o, mode, R)
          PROVE  UNCHANGED Holding
        BY <2>2 DEF Contract!Test
    <2> QED
        BY <2>1, <2>2, RecordSetKeeps, RecordForgetKeeps DEF Contract!Next
<1> QED BY <1>1, <1>2, PTL DEF Contract!Spec

\* A byte one owner has locked for writing is in no lock of another, whatever
\* calls fcntl and close make (fs/lock.c, file_lock_acquire).
THEOREM WritersExclude == LockSpec => []Contract!NoClash
  <1>1. ContractHolds => []Contract!NoClash
    BY ContractExcludes DEF ContractHolds
  <1> QED BY <1>1, ContractKept, PTL
=============================================================================
