------------------------------- MODULE RpcFifo -------------------------------
(***************************************************************************)
(* What the client-server command channel promises to the rest of the      *)
(* engine: within one session the commands handed to it are executed by    *)
(* the API server exactly once and in the order they were queued, and      *)
(* each receives its own result, once, in the same order and after its     *)
(* execution.  Commands are numbered in queueing order; a logout discards  *)
(* what is left and starts a new session.                                  *)
(***************************************************************************)
EXTENDS Naturals, Sequences

VARIABLES
    session,      \* number of logouts so far
    queued,       \* number of commands queued in this session
    executed,     \* the commands the server has executed in this session
    delivered     \* <<command, result>> pairs, in order of their callbacks

vars == <<session, queued, executed, delivered>>

Init ==
    /\ session = 0
    /\ queued = 0
    /\ executed = << >>
    /\ delivered = << >>

\* the engine queues any number of further commands
Queue ==
    /\ queued' \in Nat /\ queued' >= queued
    /\ UNCHANGED <<session, executed, delivered>>

\* the server executes the next commands, some number n of them
Execute ==
    \E n \in 0 .. (queued - Len(executed)) :
        /\ executed' = executed \o [i \in 1 .. n |-> Len(executed) + i]
        /\ UNCHANGED <<session, queued, delivered>>

\* the next n executed commands receive their results; the callbacks may
\* queue more commands
Deliver ==
    \E n \in 0 .. (Len(executed) - Len(delivered)) :
        /\ delivered' = delivered \o
               [i \in 1 .. n |-> <<Len(delivered) + i, Len(delivered) + i>>]
        /\ queued' \in Nat /\ queued' >= queued
        /\ UNCHANGED <<session, executed>>

\* a logout, possibly from a callback that goes on to queue commands
Restart ==
    /\ session' = session + 1
    /\ queued' \in Nat
    /\ executed' = << >>
    /\ delivered' = << >>

Next == Queue \/ Execute \/ Deliver \/ Restart

Spec == Init /\ [][Next]_vars
=============================================================================
