------------------------------ MODULE MCFutex ------------------------------
(***************************************************************************)
(* Small instances of Futex: which thread makes which calls.               *)
(***************************************************************************)
EXTENDS Futex, TLC

CONSTANTS t1, t2, t3, a1, a2

\* Two waiters and a thread that requeues, wakes and changes the word.
CallsQueue ==
    (t1 :> {"wait"} @@ t2 :> {"wait"}
       @@ t3 :> {"cmp_requeue", "wake_op"})

\* Two threads that may wait for each other for ever, exit one by one or as a
\* group, and lose their pages.
CallsLive ==
    (t1 :> {"wait", "timedwait", "exit"}
       @@ t2 :> {"wait", "wake", "requeue", "store", "bad", "map", "signal", "fork",
                 "exit_group"})

\* The two waiters make the same calls.
Alike == Permutations({t1, t2})
=============================================================================
