----------------------------- MODULE AndroidAgent -----------------------------
(***************************************************************************)
(* daemon/mlops-agent-android.c with mlops-agent-internal.c: the agent as  *)
(* a library.  The threads of an application call the service database and *)
(* the node table directly; mlops_node_create reads the description of the *)
(* pipeline it launches from the database, other threads change it, and    *)
(* ml_agent_initialize and ml_agent_finalize bring both parts up and down. *)
(*                                                                         *)
(* A composition: ServiceDB and MlopsNode take their own steps, a thread   *)
(* is in one of them at a time.  Here are only the functions that touch    *)
(* both.  The functions for models and resources do no more than call      *)
(* svcdb_*, which ServiceDB has with several callers.                      *)
(***************************************************************************)
EXTENDS Integers, Sequences, FiniteSets

CONSTANTS
    Threads, Nodes, NoNode, NoThread, Modes, MaxClock, MaxCalls,   \* MlopsNode
    Names, Descs, Empty, FaultKinds, MaxFaults,                    \* ServiceDB
    NoDesc,      \* no description
    MaxSets      \* bound on changes of descriptions

ASSUME AndroidBounds ==
    /\ MaxSets \in Nat /\ MaxFaults \in Nat
    /\ MaxClock \in Nat \ {0} /\ MaxCalls \in Nat
ASSUME AndroidThreads == IsFiniteSet(Threads)
ASSUME AndroidNulls ==
    /\ NoDesc \notin Descs /\ Empty \notin Names \cup Descs
    /\ NoNode \notin Nodes /\ NoThread \notin Threads
ASSUME AndroidModes == Modes \subseteq [anyId : BOOLEAN, distinct : BOOLEAN]

VARIABLES
    disk, work, intx, conn, dbpc, req, dbret, ver, lastRow, changed, faults, crashes,
    up, table, tlock, heap, pc, op, cur, victims, ret, known, now, calls, broken, mode,
    life,     \* progress of ml_agent_initialize and ml_agent_finalize
    target,   \* target[t]: the name t is launching
    runs,     \* runs[n]: the description of the node in cell n
    hist,     \* history: hist[s], what has been written under name s, oldest first
    mine,     \* history: mine[t], the entry the call of t has written, or 0
    acked     \* history: acked[t][s], the last entry t was told has been written

dbVars == <<disk, work, intx, conn, dbpc, req, dbret, ver, lastRow, changed, faults, crashes>>
nodeVars == <<up, table, tlock, heap, pc, op, cur, victims, ret, known, now, calls, broken, mode>>
histVars == <<hist, mine, acked>>
vars == <<dbVars, nodeVars, life, target, runs, histVars>>

DB == INSTANCE ServiceDB WITH
          Callers <- Threads, Paths <- {}, Apps <- {}, pc <- dbpc, ret <- dbret,
          Ops <- {"set_pipeline", "get_pipeline", "delete_pipeline"},
          GintMax <- 1, MaxVersion <- 1, MaxRowid <- 1, MaxCrashes <- 0

Node == INSTANCE MlopsNode

\* As in ServiceDB: a roll-back hits the transaction of no other thread.
ASSUME AndroidFaults ==
    /\ FaultKinds \subseteq DB!AllFaults
    /\ "rollback" \in FaultKinds => \A s, t \in Threads : s = t

Idle(t) == dbpc[t] = "idle" /\ pc[t] = "idle"
AllIdle == \A t \in Threads : Idle(t)

Setters == {"set_pipeline", "delete_pipeline"}

TypeOK ==
    /\ DB!TypeOK /\ Node!TypeOK
    /\ life \in {"down", "opened", "up", "failed", "closing", "aborted"}
    /\ target \in [Threads -> Names \cup {Empty}]
    /\ runs \in [Nodes -> Descs \cup {NoDesc}]
    /\ \A s \in Names : \A i \in DOMAIN hist[s] : hist[s][i] \in Descs \cup {NoDesc}
    /\ \A t \in Threads : \A s \in Names : acked[t][s] \in DOMAIN hist[s]
    /\ mine \in [Threads -> 0..(MaxSets + 1)]

-----------------------------------------------------------------------------
(* ml_agent_initialize and ml_agent_finalize, which an application calls   *)
(* while none of its threads is in another call.                           *)

\* Mutant: a failing svcdb_initialize is only reported.
OpenDatabaseOnly ==
    /\ life \in {"down", "up"} /\ AllIdle
    /\ DB!Initialize
    /\ life' = IF conn' = "open" THEN "opened" ELSE life
    /\ UNCHANGED <<nodeVars, target, runs, histVars>>

\* svcdb_initialize; when it fails, ml_agent_finalize asserts a node table.
OpenDatabase ==
    /\ life \in {"down", "up"} /\ AllIdle
    /\ DB!Initialize
    /\ life' = IF conn' = "open" THEN "opened" ELSE IF up THEN "failed" ELSE "aborted"
    /\ UNCHANGED <<nodeVars, target, runs, histVars>>

\* mlops_node_initialize
OpenTable ==
    /\ life = "opened"
    /\ Node!Initialize
    /\ life' = "up"
    /\ UNCHANGED <<dbVars, mode, target, runs, histVars>>

\* mlops_node_finalize: it asserts a node table.
CloseTable(t) ==
    /\ AllIdle
    /\ \/ /\ life \in {"up", "failed"} /\ Node!Finalize(t)
          /\ life' = "closing"
          /\ UNCHANGED mode
       \/ /\ life = "down" /\ ~up
          /\ life' = "aborted"
          /\ UNCHANGED nodeVars
    /\ UNCHANGED <<dbVars, target, runs, histVars>>

\* svcdb_finalize
CloseDatabase ==
    /\ life = "closing" /\ AllIdle
    /\ DB!Finalize
    /\ life' = "down"
    /\ UNCHANGED <<nodeVars, target, runs, histVars>>

-----------------------------------------------------------------------------
(* The descriptions. *)

\* ml_agent_pipeline_set_description, ml_agent_pipeline_delete
ChangeDescription(t) ==
    /\ life = "up" /\ Idle(t)
    /\ DB!Call(t) /\ req'[t].op \in Setters
    /\ LET s == req'[t].name
       IN  Len(hist[s]) + Cardinality({u \in Threads : req'[u].op \in Setters}) <= MaxSets + 1
    /\ mine' = [mine EXCEPT ![t] = 0]
    /\ UNCHANGED <<nodeVars, life, target, runs, hist, acked>>

\* One statement of svcdb_*, for the application or for mlops_node_create.
Statement(t) ==
    LET r == req[t]
        writes == dbpc[t] \in {"insert", "delete"} /\ dbpc'[t] # "idle"
        acks == r.op \in Setters /\ dbpc'[t] = "idle" /\ dbret'[t].code = "OK"
    IN  /\ DB!Step(t) /\ UNCHANGED <<conn, crashes>>
        /\ IF writes
           THEN /\ hist' = [hist EXCEPT ![r.name] =
                               Append(@, IF r.op = "set_pipeline" THEN r.desc ELSE NoDesc)]
                /\ mine' = [mine EXCEPT ![t] = Len(hist[r.name]) + 1]
           ELSE UNCHANGED <<hist, mine>>
        /\ acked' = IF acks THEN [acked EXCEPT ![t][r.name] = mine[t]] ELSE acked
        /\ UNCHANGED <<nodeVars, life, target, runs>>

-----------------------------------------------------------------------------
(* The pipelines. *)

\* ml_agent_pipeline_launch: mlops_node_create calls svcdb_pipeline_get first.
Launch(t) ==
    /\ life = "up" /\ Idle(t)
    /\ Node!Launch(t)
    /\ DB!Call(t) /\ req'[t].op = "get_pipeline"
    /\ target' = [target EXCEPT ![t] = req'[t].name]
    /\ UNCHANGED <<mode, life, runs, histVars>>

\* The rest of mlops_node_create up to the lock of the table.
Parse(t) ==
    /\ dbpc[t] = "idle" /\ pc[t] = "parse"
    /\ Node!Parse(t)
    /\ dbret[t].code = "OK" => ret'[t] # "EINVAL"
    /\ dbret[t].code # "OK" => ret'[t] = "EINVAL"
    /\ runs' = IF pc'[t] = "insert"
               THEN [runs EXCEPT ![cur'[t]] = (CHOOSE r \in dbret[t].rows : TRUE).desc]
               ELSE runs
    /\ target' = [target EXCEPT ![t] = Empty]
    /\ UNCHANGED <<dbVars, mode, life, histVars>>

\* ml_agent_pipeline_start, _stop, _destroy, _get_state
UsePipeline(t) ==
    /\ life = "up" /\ Idle(t)
    /\ Node!UseId(t)
    /\ UNCHANGED <<dbVars, mode, life, target, runs, histVars>>

NodeStep(t) ==
    /\ dbpc[t] = "idle" /\ pc[t] # "parse"
    /\ Node!Step(t)
    /\ UNCHANGED <<dbVars, mode, life, target, runs, histVars>>

Tick ==
    /\ Node!Tick
    /\ UNCHANGED <<dbVars, mode, life, target, runs, histVars>>

Init ==
    /\ DB!Init /\ Node!Init
    /\ life = "down"
    /\ target = [t \in Threads |-> Empty]
    /\ runs = [n \in Nodes |-> NoDesc]
    /\ hist = [s \in Names |-> <<NoDesc>>]
    /\ mine = [t \in Threads |-> 0]
    /\ acked = [t \in Threads |-> [s \in Names |-> 1]]

Next ==
    /\ ~broken /\ life # "aborted"
    /\ \/ OpenDatabase \/ OpenTable \/ CloseDatabase \/ Tick
       \/ \E t \in Threads :
            \/ CloseTable(t) \/ ChangeDescription(t) \/ Statement(t)
            \/ Launch(t) \/ Parse(t) \/ UsePipeline(t) \/ NodeStep(t)

Spec == Init /\ [][Next]_vars

-----------------------------------------------------------------------------

(* The library has both parts or none: after ml_agent_initialize or        *)
(* ml_agent_finalize has returned, whatever failed on the way and however  *)
(* often they are called, there is a node table just when there is an open *)
(* database, and without them no pipeline is left.                         *)
BothOrNeither ==
    life \in {"up", "down"} /\ AllIdle =>
        /\ up = (conn = "open")
        /\ ~up => \A n \in Nodes : ~Node!Live(n)

(* A thread that was told its description is set, or deleted, launches     *)
(* that description or one written later, never an older one, and it is    *)
(* refused only if the name has been without a description since: what     *)
(* mlops_node_create reads is not older than what its caller knows, while  *)
(* other threads write between its two steps.                              *)
LaunchSeesOwnSet ==
    [][\A t \in Threads : pc[t] = "parse" /\ pc'[t] # "parse" =>
          LET s == target[t]
              read == IF dbret[t].code = "OK" THEN runs'[cur'[t]] ELSE NoDesc
          IN  pc'[t] = "insert" \/ ret'[t] = "EINVAL" =>
                 \E i \in acked[t][s]..Len(hist[s]) : hist[s][i] = read]_vars

(* A set_pipeline that answers an error has written nothing, not even on   *)
(* the connection all threads share: with BEGIN as the only guard between  *)
(* them, no thread can have launched a description that was refused.       *)
RefusedSetsAreUnseen ==
    [][\A t \in Threads :
          req[t].op = "set_pipeline" /\ dbpc'[t] = "idle" /\ dbret'[t].code # "OK" =>
             mine[t] = 0]_vars
=============================================================================
