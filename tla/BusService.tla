------------------------------ MODULE BusService ------------------------------
(***************************************************************************)
(* The agent as the message bus sees it: a name that has an owner or not,  *)
(* and method calls that wait, are answered or fail.  The bus holds a call *)
(* while the name has no owner and starts the daemon for it (the           *)
(* activation that org.tizen.machinelearning.service.service asks for);    *)
(* what an owner has not answered when it goes, fails.                     *)
(*                                                                         *)
(* AgentLifecycle implements this service, the life of one process after   *)
(* the other; AgentIpc is built from its actions.                          *)
(***************************************************************************)
EXTENDS Naturals

CONSTANT Calls     \* the calls that may be made: numbers, in the order in which they are

VARIABLES
    up,         \* the name has an owner
    waiting,    \* the calls under way
    answered,   \* the calls that got an answer
    failed      \* the calls that got an error from the bus, or nothing

vars == <<up, waiting, answered, failed>>

Init ==
    /\ up = FALSE
    /\ waiting = {}
    /\ answered = {} /\ failed = {}

\* Everyone else who waits has called later.
First(k) == k \in waiting /\ \A j \in waiting : k <= j

\* The calls of gone leave without an answer.
Fail(gone) ==
    /\ waiting' = waiting \ gone
    /\ failed' = failed \cup (waiting \cap gone)
    /\ UNCHANGED answered

\* The call k is made; it waits, or fails at once.
Send(k) ==
    /\ \A j \in waiting \cup answered \cup failed : j < k
    /\ \/ waiting' = waiting \cup {k} /\ UNCHANGED failed
       \/ failed' = failed \cup {k} /\ UNCHANGED waiting
    /\ UNCHANGED <<up, answered>>

\* The first to have called gets an answer from the owner.
Answer(k) ==
    /\ up /\ First(k)
    /\ answered' = answered \cup {k}
    /\ waiting' = waiting \ {k}
    /\ UNCHANGED <<up, failed>>

\* The first to have called gets an error from the owner.
Reject(k) ==
    /\ up /\ First(k)
    /\ Fail({k})
    /\ UNCHANGED up

\* The daemon gets the name, and the calls the bus has held; those for an
\* interface it does not have fail.
Acquire(gone) ==
    /\ ~up /\ up' = TRUE
    /\ gone \subseteq waiting /\ Fail(gone)

\* The owner goes, with every call it has not answered.
Release ==
    /\ up /\ up' = FALSE
    /\ Fail(waiting)

\* The bus gives up starting the daemon.
Unreachable ==
    /\ ~up
    /\ Fail(waiting)
    /\ UNCHANGED up

Next ==
    \/ \E k \in Calls : Send(k) \/ Answer(k) \/ Reject(k)
    \/ \E gone \in SUBSET waiting : Acquire(gone)
    \/ Release \/ Unreachable

Spec == Init /\ [][Next]_vars

=============================================================================
