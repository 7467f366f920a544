----------------------------- MODULE MCCondWait -----------------------------
(***************************************************************************)
(* Small instances of CondWait.                                            *)
(***************************************************************************)
EXTENDS CondWait, TLC

CONSTANTS w1, w2, s1, s2

\* sigsuspend beside a read with a timeout.
KindPair == w1 :> "sighand" @@ w2 :> "object"
TimedSecond == w1 :> FALSE @@ w2 :> TRUE

\* kill and the posix timers hold pids_lock, the interval timer does not.
HoldsSome == s1 :> TRUE @@ s2 :> FALSE
=============================================================================
