--------------------------- MODULE FutexContract ---------------------------
(***************************************************************************)
(* What the futex calls promise a guest program, with no pipes, polls,     *)
(* locks or reference counts: comparing the word and blocking is one step, *)
(* and so is waking or moving any number of blocked threads.               *)
(*                                                                         *)
(* word is the guest's memory.  It changes at any time, so no action here  *)
(* constrains its next value; FUTEX_WAIT looks at it.                      *)
(***************************************************************************)
EXTENDS Integers, FiniteSets

CONSTANTS Tasks, Addrs, Values, Counts, Unmapped, NoFutex

VARIABLES
    word,   \* guest memory, an input
    call,   \* call[t]: <<address, value>> of the FUTEX_WAIT t is in, or <<>>
    on,     \* the address t is blocked on, or NoFutex
    result  \* result of the last call of t, 0 once the guest has consumed it

contractVars == <<call, on, result>>

Init ==
    /\ call = [t \in Tasks |-> <<>>]
    /\ on = [t \in Tasks |-> NoFutex]
    /\ result = [t \in Tasks |-> 0]

On(a) == {t \in Tasks : on[t] = a}

Lower(m, n) == IF m <= n THEN m ELSE n

\* The call of t returns one of the values in R.
Result(t, R) == result'[t] \in R /\ result' = [result EXCEPT ![t] = result'[t]]

Begin(t) ==
    /\ call[t] = <<>> /\ result[t] = 0
    /\ call'[t] \in Addrs \X Values
    /\ call' = [call EXCEPT ![t] = call'[t]]
    /\ UNCHANGED <<on, result>>

\* The word still has the expected value at the moment the thread blocks.
Block(t) ==
    /\ call[t] # <<>> /\ on[t] = NoFutex
    /\ word[call[t][1]] \in {call[t][2], Unmapped}
    /\ on' = [on EXCEPT ![t] = call[t][1]]
    /\ UNCHANGED <<call, result>>

\* EAGAIN means that the word has another value at this moment.
Refuse(t) ==
    /\ call[t] # <<>> /\ on[t] = NoFutex
    /\ word[call[t][1]] # call[t][2]
    /\ call' = [call EXCEPT ![t] = <<>>]
    /\ Result(t, {-11})
    /\ UNCHANGED on

\* A wait ends: the thread was woken, or gives up and is blocked no longer.
\* Thread exit may end it without a result.
Finish(t) ==
    /\ call[t] # <<>>
    /\ call' = [call EXCEPT ![t] = <<>>]
    /\ on' = [on EXCEPT ![t] = NoFutex]
    /\ Result(t, {0, -4, -12, -14, -110})

\* Some calls fail, and a guest consumes a result.
Fail(t) ==
    /\ call[t] = <<>>
    /\ Result(t, {0, -11, -14, -22, -38})
    /\ UNCHANGED <<call, on>>

\* Of the threads in S, this step wakes as many as n allows.
Wakes(S, n) ==
    Cardinality({u \in S : on'[u] = NoFutex}) = Lower(n, Cardinality(S))

\* Exactly min(n, blocked on a) threads are woken and, of the others, exactly
\* as many as m allows moved to b; the result says how many that was.
WakeRequeue(t) ==
    /\ call[t] = <<>>
    /\ UNCHANGED call
    /\ \E a \in Addrs, b \in Addrs :
         LET S == On(a)
             W == {u \in S : on'[u] = NoFutex}
         IN /\ \A u \in Tasks : on'[u] = on[u] \/ u \in W \/ (u \in S /\ on'[u] = b)
            /\ \E n \in Counts : Wakes(S, n)
            /\ \E m \in Counts \cup {0} :
                 \/ /\ a # b
                    /\ Cardinality({u \in S : on'[u] = b}) = Lower(m, Cardinality(S \ W))
                    /\ Result(t, {Cardinality({u \in S : on'[u] # a})})
                 \/ a = b /\ Result(t, Cardinality(W) .. Cardinality(W) + m)

\* FUTEX_WAKE_OP wakes threads on two addresses.
WakeTwo(t) ==
    /\ call[t] = <<>>
    /\ UNCHANGED call
    /\ \E a \in Addrs, b \in Addrs :
         LET S == On(a) \cup On(b)
             W == {u \in S : on'[u] = NoFutex}
         IN /\ \A u \in Tasks \ W : on'[u] = on[u]
            /\ \E n \in Counts, m \in Counts \cup {0} :
                 IF a = b THEN Wakes(S, n + m)
                          ELSE Wakes(On(a), n) /\ Wakes(On(b), m)
            /\ Result(t, {Cardinality(W)})

\* A thread that exits wakes one thread blocked on its clear_tid address.
WakeOnExit ==
    /\ \E a \in Addrs :
         /\ Wakes(On(a), 1)
         /\ \A u \in Tasks : on'[u] = on[u] \/ (on[u] = a /\ on'[u] = NoFutex)
    /\ UNCHANGED <<call, result>>

Next ==
    \/ \E t \in Tasks :
         Begin(t) \/ Block(t) \/ Refuse(t) \/ Finish(t) \/ Fail(t)
           \/ WakeRequeue(t) \/ WakeTwo(t)
    \/ WakeOnExit

Spec == Init /\ [][Next]_contractVars
=============================================================================
