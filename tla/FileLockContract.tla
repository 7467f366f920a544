--------------------------- MODULE FileLockContract ---------------------------
(***************************************************************************)
(* What F_SETLK and F_GETLK promise about the record locks of one file:    *)
(* each owner holds each byte for reading, for writing or not at all, and  *)
(* a byte that one owner holds for writing nobody else holds.              *)
(***************************************************************************)
CONSTANTS Owners, Bytes,
    Spans       \* the sets of bytes, subsets of Bytes, a request may name

VARIABLES
    held,       \* how each owner holds each byte
    answer      \* what the last call returned

Modes == {"none", "read", "write"}
Clash(m, n) == m # "none" /\ n # "none" /\ "write" \in {m, n}

\* Somebody else holds a byte of R in a way that a request of o cannot share.
Blocked(o, mode, R) == \E p \in Owners \ {o}, b \in R : Clash(mode, held[p][b])

Init ==
    /\ held = [o \in Owners |-> [b \in Bytes |-> "none"]]
    /\ answer = <<"0", {}>>

\* F_SETLK, with mode "none" for F_UNLCK: all of the range or nothing.
Set(o, mode, R) ==
    \/ /\ answer' = <<"EAGAIN", {}>>
       /\ Blocked(o, mode, R)
       /\ UNCHANGED held
    \/ /\ answer' = <<"0", {}>>
       /\ held' = [held EXCEPT ![o] = [b \in Bytes |-> IF b \in R THEN mode ELSE @[b]]]
       /\ ~ Blocked(o, mode, R)

\* F_GETLK: bytes that one other owner holds in one mode and that stand in the
\* way, or none when the request would succeed.
Test(o, mode, R) ==
    /\ \/ /\ answer' = <<"unlocked", {}>>
          /\ ~ Blocked(o, mode, R)
       \/ \E p \in Owners \ {o}, m \in Modes, S \in SUBSET Bytes :
            /\ answer' = <<m, S>>
            /\ Clash(mode, m) /\ S \cap R # {}
            /\ \A b \in S : held[p][b] = m
    /\ UNCHANGED held

\* close of any descriptor of the file.
Forget(o) ==
    /\ held' = [held EXCEPT ![o] = [b \in Bytes |-> "none"]]
    /\ UNCHANGED answer

Next == \E o \in Owners :
    \/ \E mode \in Modes, R \in Spans : Set(o, mode, R)
    \/ \E mode \in Modes \ {"none"}, R \in Spans : Test(o, mode, R)
    \/ Forget(o)

Spec == Init /\ [][Next]_<<held, answer>>

\* No byte is held for writing by one owner and held at all by another.
NoClash == \A o, p \in Owners : o # p =>
    \A b \in Bytes : ~ Clash(held[o][b], held[p][b])
=============================================================================
