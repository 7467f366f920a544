----------------------------- MODULE MCSignals -----------------------------
(***************************************************************************)
(* Small instances of Signals.                                             *)
(***************************************************************************)
EXTENDS Signals

CONSTANTS t1, t2, kill, stop, cont, usr, rt

\* A handler that blocks everything, as sigfillset makes it, and one that may
\* run inside itself, once.
FillHandler == [handler |-> "fn", mask |-> {kill, stop, cont, usr, rt},
                restart |-> TRUE, nodefer |-> FALSE, reset |-> FALSE]
OnceHandler == [handler |-> "fn", mask |-> {}, restart |-> FALSE,
                nodefer |-> TRUE, reset |-> TRUE]
PlainHandler == [handler |-> "fn", mask |-> {}, restart |-> FALSE,
                 nodefer |-> FALSE, reset |-> FALSE]
IgnoreSignal == [handler |-> "ign", mask |-> {}, restart |-> FALSE,
                 nodefer |-> FALSE, reset |-> FALSE]

Nothing == [s \in Sigs |-> {}]
ActionsMixed == [Nothing EXCEPT ![usr] = {FillHandler}, ![rt] = {FillHandler, OnceHandler}]
ActionsIgnore == [Nothing EXCEPT ![rt] = {PlainHandler, IgnoreSignal}]
MasksUsr == {{}, {usr, rt, kill}}
MasksRt == {{}, {rt}}

\* kill(2) reaches the leader, tgkill any thread.
DirectedOne == t1 :> {kill, usr, rt}
DirectedTwo == t1 :> {kill, stop, cont} @@ t2 :> {kill, stop, rt}
=============================================================================
