-------------------------------- MODULE MCPoll --------------------------------
\* Instances of Poll for TLC.
EXTENDS Poll, TLC

CONSTANTS a, b,     \* tasks
    e, h, p         \* an eventfd, a host descriptor and a pidfd

KindAll == e :> "event" @@ h :> "host" @@ p :> "pidfd"
\* What is edge-triggered and what fires once, on either kind of member.
ModesSome == <<e, 1>> :> {"edge", "oneshot"} @@ <<h, 1>> :> {"edge", "oneshot"}
          @@ <<h, 2>> :> {"oneshot"} @@ <<p, 1>> :> {"edge"}
RegsAll == {<<e, 1>>, <<h, 1>>, <<h, 2>>, <<p, 1>>}
Interchangeable == Permutations(Tasks)
=============================================================================
