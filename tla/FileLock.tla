------------------------------- MODULE FileLock -------------------------------
(***************************************************************************)
(* Record locks of one inode: fs/lock.c.                                   *)
(*                                                                         *)
(* inode->posix_locks is a list in which the locks of an owner (a          *)
(* descriptor table) stand next to each other.  Each call takes            *)
(* inode->lock for its whole length and is one step.  F_SETLKW does not    *)
(* wait: fs/fd.c compares the command of the 32-bit call with that of the  *)
(* 64-bit one and the other way round, so `blocking` is always false and   *)
(* the loop around wait_for is never entered; a lock in the way gives      *)
(* EAGAIN, as for F_SETLK.                                                 *)
(*                                                                         *)
(* Starts are the values of flock.start plus the offset of whence.  Ranges *)
(* whose end is not an off_t are left out: the code does not look for the  *)
(* overflow.                                                               *)
(*                                                                         *)
(* LockInit, LockNext and so on have names of their own so that a module   *)
(* can extend this one beside Files.                                       *)
(***************************************************************************)
EXTENDS Integers, Sequences, TLC

CONSTANTS
    Owners,
    Asks,       \* pairs of a start and a flock.len: positive, negative (before
                \* the start) or 0 (to the end)
    MaxOff      \* OFF_T_MAX

ASSUME OffAssumption == MaxOff \in Nat /\ Asks \subseteq (0 .. MaxOff) \X Int

VARIABLES
    locks,      \* inode->posix_locks
    answer      \* what the last call returned: errno, or the flock of F_GETLK

lockVars == <<locks, answer>>

Types == {"none", "read", "write"}      \* F_UNLCK, F_RDLCK, F_WRLCK

\* file_lock_from_flock and flock_from_file_lock.
FromFlock(start, len) ==
    CASE len > 0 -> [start |-> start, end |-> start + len - 1]
      [] len < 0 -> [start |-> start + len, end |-> start - 1]
      [] len = 0 -> [start |-> start, end |-> MaxOff]
LenOf(l) == IF l.end = MaxOff THEN 0 ELSE l.end - l.start + 1

Ranges == {r \in {FromFlock(ask[1], ask[2]) : ask \in Asks} : r.end <= MaxOff}
Requests(types) == {[owner |-> o, type |-> type, start |-> r.start, end |-> r.end] :
                      o \in Owners, type \in types, r \in Ranges}

Overlap(a, b) == a.end >= b.start /\ b.end >= a.start
Adjacent(a, b) == a.end = b.start - 1 \/ b.end = a.start - 1
Conflict(a, b) == a.owner # b.owner /\ Overlap(a, b) /\ "write" \in {a.type, b.type}

Conflicting(r) == {k \in DOMAIN locks : Conflict(locks[k], r)}

-----------------------------------------------------------------------------
(* file_lock_acquire                                                       *)

\* Mutant of Rest: a lock that sticks out on both ends is cut, not split.
RestCut(l, r) ==
    IF l.start < r.start THEN <<[l EXCEPT !.end = r.start - 1]>>
    ELSE IF l.end > r.end THEN <<[l EXCEPT !.start = r.end + 1]>> ELSE <<>>

\* What is left of a lock of another type that the request overlaps: the part
\* before it and the part behind it, where there is one.
Rest(l, r) ==
    (IF l.start < r.start THEN <<[l EXCEPT !.end = r.start - 1]>> ELSE <<>>)
    \o (IF l.end > r.end THEN <<[l EXCEPT !.start = r.end + 1]>> ELSE <<>>)

\* One lock of the owner: the request swallows it, cuts it, or leaves it alone.
Absorb(acc, l) ==
    LET r == acc.request IN
    IF l.type = r.type /\ (Overlap(l, r) \/ Adjacent(r, l))
    THEN [acc EXCEPT !.request.start = IF l.start < @ THEN l.start ELSE @,
                     !.request.end = IF l.end > @ THEN l.end ELSE @]
    ELSE IF l.type # r.type /\ Overlap(l, r)
    THEN [acc EXCEPT !.kept = @ \o Rest(l, r)]
    ELSE [acc EXCEPT !.kept = Append(@, l)]

\* The run of the owner's locks: from the first one up to another's or the end.
GroupStart(o) ==
    LET own == {k \in DOMAIN locks : locks[k].owner = o} IN
    IF own = {} THEN Len(locks) + 1 ELSE CHOOSE k \in own : \A j \in own : k <= j
GroupEnd(o) ==
    LET others == {k \in GroupStart(o) .. Len(locks) : locks[k].owner # o} IN
    IF others = {} THEN Len(locks) + 1 ELSE CHOOSE k \in others : \A j \in others : k <= j

Group(o) == SubSeq(locks, GroupStart(o), GroupEnd(o) - 1)

\* The request and what is kept of the run after each lock of it.
Walk(r) ==
    LET after[i \in 0 .. Len(Group(r.owner))] ==
          IF i = 0 THEN [request |-> r, kept |-> <<>>]
          ELSE Absorb(after[i - 1], Group(r.owner)[i])
    IN after

\* The run with the request in it, at the end.
End(r) == Walk(r)[Len(Group(r.owner))]

\* What comes into the list: the request with all it has merged.
New(r) == IF r.type = "none" THEN <<>> ELSE <<End(r).request>>

Before(o) == SubSeq(locks, 1, GroupStart(o) - 1)
Behind(o) == SubSeq(locks, GroupEnd(o), Len(locks))

\* Mutant of Placed: the request goes to the end of the whole list.
PlacedLast(r) == Before(r.owner) \o End(r).kept \o Behind(r.owner) \o New(r)

\* The list with the request in it, at the end of its owner's run.
Placed(r) == Before(r.owner) \o (End(r).kept \o New(r)) \o Behind(r.owner)

-----------------------------------------------------------------------------
(* The calls                                                               *)

LockInit == locks = <<>> /\ answer = <<"0", 0, 0>>

\* fcntl_setlk on a descriptor that is open for what is asked.
SetLk == \E r \in Requests(Types) :
    IF r.type # "none" /\ Conflicting(r) # {}
    THEN answer' = <<"EAGAIN", 0, 0>> /\ UNCHANGED locks
    ELSE answer' = <<"0", 0, 0>> /\ locks' = Placed(r)

\* fcntl_getlk: the first lock of the list that stands in the way.
GetLk == \E r \in Requests({"read", "write"}) :
    /\ answer' = IF Conflicting(r) = {} THEN <<"unlocked", 0, 0>>
                 ELSE LET k == CHOOSE k \in Conflicting(r) : \A j \in Conflicting(r) : k <= j
                      IN  <<locks[k].type, locks[k].start, LenOf(locks[k])>>
    /\ UNCHANGED locks

\* The locks of others among the first i.
Others(o) ==
    LET kept[i \in 0 .. Len(locks)] ==
          IF i = 0 THEN <<>>
          ELSE IF locks[i].owner = o THEN kept[i - 1] ELSE Append(kept[i - 1], locks[i])
    IN kept

\* file_lock_remove_owned_by, when a table closes a descriptor of the file.
RemoveOwnedBy == \E o \in Owners :
    /\ locks' = Others(o)[Len(locks)]
    /\ UNCHANGED answer

LockNext == SetLk \/ GetLk \/ RemoveOwnedBy

LockSpec == LockInit /\ [][LockNext]_lockVars

-----------------------------------------------------------------------------
(* Properties                                                              *)

\* The bytes requests reach, below zero too where the length is negative.
Bytes == UNION {r.start .. MaxOff : r \in Ranges}

LockTypeOK ==
    /\ locks \in Seq([owner : Owners, type : Types \ {"none"}, start : Bytes, end : Bytes])
    /\ answer \in {"0", "EAGAIN", "unlocked", "read", "write"} \X Int \X Nat

\* The locks of an owner stand together, which the walk relies on when it stops
\* at the first lock of another; they do not overlap, and two of one type that
\* touch have been merged.
ListSound == \A j, k \in DOMAIN locks : j < k /\ locks[j].owner = locks[k].owner =>
    /\ \A n \in j .. k : locks[n].owner = locks[j].owner
    /\ ~ Overlap(locks[j], locks[k])
    /\ locks[j].type = locks[k].type => ~ Adjacent(locks[j], locks[k])

\* The list is read as a map from bytes to modes: whatever requests merged, cut
\* and split, exactly the bytes asked for have changed, F_SETLK fails exactly
\* when another owner is in the way, and F_GETLK tells the truth.
Held(o, b) ==
    LET mine == {k \in DOMAIN locks : locks[k].owner = o /\ b \in locks[k].start .. locks[k].end}
    IN  IF mine = {} THEN "none" ELSE locks[CHOOSE k \in mine : TRUE].type
Span(l) == l.start .. l.end
Holding == [o \in Owners |-> [b \in Bytes |-> Held(o, b)]]
Reported == <<answer[1], IF answer[1] \in {"read", "write"}
                         THEN Span(FromFlock(answer[2], answer[3])) ELSE {}>>
Contract == INSTANCE FileLockContract WITH
    Spans <- {Span(r) : r \in Ranges}, held <- Holding, answer <- Reported
ContractHolds == Contract!Spec

-----------------------------------------------------------------------------
(* The inductive invariant                                                 *)

\* No lock is of an empty range.
Proper == \A k \in DOMAIN locks : locks[k].start <= locks[k].end

LockIInv == LockTypeOK /\ Proper /\ ListSound
=============================================================================
