----------------------------- MODULE MCProcess -----------------------------
(***************************************************************************)
(* Small instances of Process: the pids are numbers, and NULL is 0.        *)
(***************************************************************************)
EXTENDS Process, TLC
=============================================================================
