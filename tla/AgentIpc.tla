------------------------------- MODULE AgentIpc -------------------------------
(***************************************************************************)
(* A call through the client library: daemon/mlops-agent-interface.c on    *)
(* the client's side, the method handlers of pipeline-dbus-impl.cc on the  *)
(* daemon's.  A client thread blocks in a synchronous D-Bus call, which    *)
(* may time out while it is queued or being answered.  The messages fare   *)
(* as BusService lets them: every step of the bus and of the daemon is one *)
(* of its actions, with what it does to the contents.                      *)
(*                                                                         *)
(* Descriptions are kept in a database, which ServiceDB has in detail:     *)
(* here a call runs its statements in one step, and one of them may fail.  *)
(* No failure is followed by a ROLLBACK, so a set may leave its            *)
(* transaction open, in which later deletes run that are answered but not  *)
(* yet in the file.  Launched pipelines are in the memory of the daemon.   *)
(*                                                                         *)
(* Every call has a number.  What the daemon stores under a name is the    *)
(* number of the set call that wrote it.                                   *)
(***************************************************************************)
EXTENDS SqliteConn, Integers, Sequences, FiniteSets

CONSTANTS
    Clients,     \* client threads
    Names,       \* the names they use
    Ops,         \* the operations they use, of Stores and Pipes
    NoCall,      \* no call
    MaxCalls,    \* bound on calls
    MaxDeaths,   \* bound on deaths of the daemon
    MaxFaults    \* bound on failing statements of the database

Stores == {"set", "get", "delete", "launch"}   \* calls for a name
Pipes == {"use", "destroy"}                    \* calls for the id of a pipeline

ASSUME IpcBounds == MaxCalls \in Nat \ {0} /\ MaxDeaths \in Nat /\ MaxFaults \in Nat
ASSUME IpcOps == Ops \subseteq Stores \cup Pipes

\* The tables disk and work (SqliteConn) give for a name the number of the set
\* call in force, 0 for none.
VARIABLES
    call,     \* call[c]: the call c is in
    result,   \* result[c]: what the last call of c returned
    up,       \* the daemon owns its name
    mail,     \* method calls under way
    answered, \* the numbers of the calls that got an answer
    failed,   \* the numbers of the calls that got an error, or nothing
    replies,  \* replies on their way to the clients
    nodes,    \* the pipelines in the daemon: id, and the call that launched it
    done,     \* history: the calls the handlers have executed, with the answer
    known,    \* known[c]: the ids c was given
    acked,    \* history: acked[c][n], the last set or delete of n that c saw succeed
    calls,    \* calls so far; the first stands for what an earlier boot has stored
    deaths,   \* deaths of the daemon so far
    faults    \* failed statements so far

busVars == <<up, mail, answered, failed>>
vars == <<call, result, busVars, replies, store, nodes, done, known, acked, calls, deaths, faults>>

Numbers(messages) == {m.id : m \in messages}

Bus == INSTANCE BusService WITH Calls <- 2..MaxCalls, waiting <- Numbers(mail)

\* What ret may hold when nothing has set it: zero or something else.
Garbage == {"OK", "EINVAL"}

Nothing == [code |-> "none", replied |-> FALSE, value |-> 0, pipe |-> 0]

Answer(code, value, pipe) == [code |-> code, replied |-> TRUE, value |-> value, pipe |-> pipe]

TypeOK ==
    /\ \A c \in Clients : /\ call[c] # NoCall => call[c].client = c /\ call[c].id \in 2..calls
                          /\ call[c] # NoCall => result[c] = Nothing
                          /\ result[c].code \in Garbage \cup {"none", "EIO", "ESTRPIPE"}
    /\ Numbers(mail) \subseteq 2..calls
    /\ disk \in [Names -> 0..calls] /\ work \in [Names -> 0..calls] /\ intx \in BOOLEAN
    /\ \A n \in nodes : n.id \in 1..calls /\ n.by \in Clients
    /\ known \in [Clients -> SUBSET (1..calls)]
    /\ acked \in [Clients -> [Names -> 0..calls]]
    /\ calls \in 1..MaxCalls /\ deaths \in 0..MaxDeaths /\ faults \in 0..MaxFaults

-----------------------------------------------------------------------------
(* The client library. *)

\* An ml_agent_* function with arguments that pass its checks, up to the
\* synchronous call of the proxy; the message waits, or is refused at once.
Send(c) ==
    /\ call[c] = NoCall /\ calls < MaxCalls
    /\ calls' = calls + 1
    /\ \E m \in [id : {calls + 1}, client : {c}, op : Ops \cap Stores, name : Names, pipe : {0}]
           \cup [id : {calls + 1}, client : {c}, op : Ops \cap Pipes, name : {"none"},
                 pipe : known[c]] :
          /\ call' = [call EXCEPT ![c] = m]
          /\ mail' \in {mail \cup {m}, mail}
    /\ Bus!Send(calls + 1)
    /\ result' = [result EXCEPT ![c] = Nothing]
    /\ UNCHANGED <<replies, store, nodes, done, known, acked, deaths, faults>>

\* Mutant: the call is not forgotten.
LeaveCall(c, r) ==
    /\ result' = [result EXCEPT ![c] = r]
    /\ UNCHANGED call

Leave(c, r) ==
    /\ call' = [call EXCEPT ![c] = NoCall]
    /\ result' = [result EXCEPT ![c] = r]

\* result is FALSE: the function returns ret, which nothing has set.
LeaveUnset(c) == \E g \in Garbage : Leave(c, [Nothing EXCEPT !.code = g])

\* An invalid argument, no proxy on the system or the session bus, or a proxy
\* whose call fails at once: the wrong bus.
FailAtOnce(c) ==
    /\ call[c] = NoCall
    /\ \/ Leave(c, [Nothing EXCEPT !.code = "EINVAL"])
       \/ Leave(c, [Nothing EXCEPT !.code = "EIO"])
       \/ LeaveUnset(c)
    /\ UNCHANGED <<busVars, replies, store, nodes, done, known, acked, calls, deaths, faults>>

\* What a client learns from the reply r to its call.  The history keeps the
\* writes that a later call relies on: not those of an abandoned transaction.
Learn(c, r) ==
    /\ Leave(c, r.answer)
    /\ acked' = IF r.answer.code = "OK" /\ r.lasts /\ call[c].op \in {"set", "delete"}
                THEN [acked EXCEPT ![c][call[c].name] = call[c].id] ELSE acked
    /\ known' = IF r.answer.code = "OK" /\ call[c].op = "launch"
                THEN [known EXCEPT ![c] = @ \cup {r.answer.pipe}] ELSE known

\* The reply of the call arrives.
Accept(c) ==
    /\ call[c] # NoCall
    /\ \E r \in replies :
         /\ r.call = call[c]
         /\ replies' = replies \ {r}
         /\ Learn(c, r)
    /\ UNCHANGED <<busVars, store, nodes, done, calls, deaths, faults>>

\* Mutant: the call is sent once more.
TimeoutRetries(c) ==
    /\ call[c] # NoCall
    /\ mail' = mail \cup {call[c]}
    /\ UNCHANGED <<call, result, up, answered, failed, replies, store, nodes, done, known, acked,
                   calls, deaths, faults>>

\* The D-Bus call times out, or comes back with an error.  A message that is
\* still under way stays there; nobody waits for its reply any more.
Timeout(c) ==
    /\ call[c] # NoCall
    /\ LeaveUnset(c)
    /\ replies' = {r \in replies : r.call # call[c]}
    /\ UNCHANGED <<busVars, store, nodes, done, known, acked, calls, deaths, faults>>

-----------------------------------------------------------------------------
(* What svcdb_* or mlops_node_* makes of a call. *)

\* Mutant: ids that count from the start of the daemon.
CountedStamp == Cardinality(nodes) + 1

\* g_get_monotonic_time goes on when the daemon does not.
Stamp == Cardinality({i \in DOMAIN done : done[i].call.op = "launch"}) + 1

Outcome(d, w, open, ns, answer) ==
    [disk |-> d, work |-> w, intx |-> open, nodes |-> ns, answer |-> answer]

\* Nothing changes, or only the pipelines do.
Refusal(code) == Outcome(disk, work, intx, nodes, Answer(code, 0, 0))
Only(ns, value, pipe) == Outcome(disk, work, intx, ns, Answer("OK", value, pipe))

\* Mutant: the call is answered, the transaction is not ended.
WrittenNotEnded(w, value) == Outcome(disk, w, TRUE, nodes, Answer("OK", value, 0))

\* The table w, committed unless a transaction is open.
Written(w, value) ==
    Outcome(IF intx THEN disk ELSE w, w, intx, nodes, Answer("OK", value, 0))

\* An open transaction refuses the BEGIN of a set.  GStreamer may refuse a
\* launch or a change of state.
Outcomes(m) ==
    LET stored == work[m.name] # 0
        there == \E n \in nodes : n.id = m.pipe
        node == [id |-> Stamp, by |-> m.client]
    IN  CASE m.op = "set" ->
               {IF intx THEN Refusal("EIO") ELSE Written([work EXCEPT ![m.name] = m.id], m.id)}
          [] m.op = "get" -> {IF stored THEN Only(nodes, work[m.name], 0) ELSE Refusal("EINVAL")}
          [] m.op = "delete" ->
               {IF stored THEN Written([work EXCEPT ![m.name] = 0], 0) ELSE Refusal("EINVAL")}
          [] m.op = "launch" ->
               IF stored THEN {Only(nodes \cup {node}, work[m.name], node.id), Refusal("ESTRPIPE")}
                         ELSE {Refusal("EINVAL")}
          [] m.op = "use" ->
               IF there THEN {Only(nodes, 0, m.pipe), Refusal("ESTRPIPE")} ELSE {Refusal("EINVAL")}
          [] m.op = "destroy" ->
               {IF there THEN Only({n \in nodes : n.id # m.pipe}, 0, m.pipe) ELSE Refusal("EINVAL")}

\* The same when a statement fails: BEGIN, INSERT or END of a set, the last two
\* with the transaction left open; a DELETE, which may take a transaction that
\* is open back; or a SELECT, which then finds nothing.
Failures(m) ==
    LET failing(w, open) == Outcome(disk, w, open, nodes, Answer("EIO", 0, 0))
    IN  CASE m.op = "set" ->
               IF intx THEN {}
               ELSE {failing(work, FALSE), failing(work, TRUE),
                     failing([work EXCEPT ![m.name] = m.id], TRUE)}
          [] m.op = "delete" -> {failing(work, intx), failing(disk, FALSE)}
          [] m.op \in {"get", "launch"} -> {Refusal("EINVAL")}
          [] m.op \in Pipes -> {}

-----------------------------------------------------------------------------
(* The daemon. *)

\* The call m with its answer; lasts: it ran outside an abandoned transaction.
Entry(m, answer) == [call |-> m, answer |-> answer, lasts |-> ~intx]

\* GDBus drops the reply to a call that timed out.
Awaited(entry) == {r \in {entry} : call[entry.call.client] = entry.call}

\* The daemon executes m with the outcome o; history keeps it.
Handle(m, o, replied) ==
    /\ \/ o \in Outcomes(m) /\ UNCHANGED faults
       \/ o \in Failures(m) /\ faults < MaxFaults /\ faults' = faults + 1
    /\ done' = Append(done, Entry(m, [o.answer EXCEPT !.replied = replied]))

\* Mutant: handlers run in threads that overtake each other.
ServeAnyOrder ==
    /\ up
    /\ \E m \in mail : \E o \in Outcomes(m) \cup Failures(m) :
          /\ Handle(m, o, TRUE)
          /\ disk' = o.disk /\ work' = o.work /\ intx' = o.intx /\ nodes' = o.nodes
          /\ replies' = replies \cup Awaited(Entry(m, o.answer))
          /\ mail' = mail \ {m}
          /\ answered' = answered \cup {m.id}
    /\ UNCHANGED <<call, result, up, failed, known, acked, calls, deaths>>

\* A handler: the svcdb or node call and machinelearning_service_*_complete_*.
Serve ==
    /\ \E m \in mail : \E o \in Outcomes(m) \cup Failures(m) :
          /\ Handle(m, o, TRUE)
          /\ disk' = o.disk /\ work' = o.work /\ intx' = o.intx /\ nodes' = o.nodes
          /\ replies' = replies \cup Awaited(Entry(m, o.answer))
          /\ mail' = mail \ {m}
          /\ Bus!Answer(m.id)
    /\ UNCHANGED <<call, result, known, acked, calls, deaths>>

\* The connection of the daemon answers a call with an error: its interface
\* has no handlers (any more).
Refuse ==
    /\ \E m \in mail : mail' = mail \ {m} /\ Bus!Reject(m.id)
    /\ UNCHANGED <<call, result, replies, store, nodes, done, known, acked, calls, deaths, faults>>

\* The daemon dies or ends, before or after the last statement of the call it
\* is serving; the messages it has received die with it.
Die ==
    /\ deaths < MaxDeaths /\ deaths' = deaths + 1
    /\ \/ Disconnect /\ UNCHANGED <<done, faults>>
       \/ \E m \in mail : \E o \in Outcomes(m) \cup Failures(m) :
             /\ Bus!First(m.id)
             /\ Handle(m, o, FALSE)
             /\ disk' = o.disk /\ work' = o.disk /\ intx' = FALSE
    /\ mail' = {} /\ nodes' = {}
    /\ Bus!Release
    /\ UNCHANGED <<call, result, replies, known, acked, calls>>

\* Activation, or an administrator, starts it; calls for an interface that it
\* could not export fail.
Start ==
    /\ \E gone \in SUBSET mail : mail' = mail \ gone /\ Bus!Acquire(Numbers(gone))
    /\ UNCHANGED <<call, result, replies, store, nodes, done, known, acked, calls, deaths, faults>>

\* The activation fails: the bus drops the messages it holds.
StartFails ==
    /\ mail' = {}
    /\ Bus!Unreachable
    /\ UNCHANGED <<call, result, replies, store, nodes, done, known, acked, calls, deaths, faults>>

\* The file may hold descriptions from an earlier boot.
Init ==
    /\ call = [c \in Clients |-> NoCall]
    /\ result = [c \in Clients |-> Nothing]
    /\ mail = {} /\ replies = {} /\ Bus!Init
    /\ disk \in [Names -> {0, 1}] /\ work = disk /\ intx = FALSE
    /\ nodes = {} /\ done = <<>>
    /\ known = [c \in Clients |-> {}]
    /\ acked = [c \in Clients |-> [n \in Names |-> 0]]
    /\ calls = 1 /\ deaths = 0 /\ faults = 0

Client(c) == Send(c) \/ FailAtOnce(c) \/ Accept(c) \/ Timeout(c)

Next == (\E c \in Clients : Client(c)) \/ Serve \/ Refuse \/ Die \/ Start \/ StartFails

Spec == Init /\ [][Next]_vars

-----------------------------------------------------------------------------

(* A call is executed at most once, and the calls of one client in the     *)
(* order in which it made them: a call that timed out may still run, but   *)
(* never after a later call of that client, whose effect it would undo.    *)
ProgramOrder ==
    \A i, j \in DOMAIN done :
        i < j /\ done[i].call.client = done[j].call.client => done[i].call.id < done[j].call.id

(* An id belongs to one launch for ever: whoever starts, stops or destroys *)
(* a pipeline meets the one it launched itself, or nothing, although the   *)
(* daemon may have died and launched pipelines for others since.           *)
OwnPipeline(j) ==
    \E i \in 1..(j - 1) :
        /\ done[i].call.op = "launch" /\ done[i].answer.pipe = done[j].call.pipe
        /\ done[i].call.client = done[j].call.client
        /\ \A k \in (i + 1)..(j - 1) :
              done[k].call.op = "launch" => done[k].answer.pipe # done[j].call.pipe

IdsAreNotReused ==
    \A j \in DOMAIN done :
        done[j].call.op \in Pipes /\ done[j].answer.code = "OK" => OwnPipeline(j)

(* A client that reads a description, or launches it, never gets one that  *)
(* was overwritten before the last set or delete it has seen succeed, nor  *)
(* one it had set itself before that call and lost patience with: across   *)
(* failing statements, time-outs, activation and a restart, a call that    *)
(* was given up does not come back.  The one exception is a delete that    *)
(* ran in a transaction which an earlier failure had left open: it is      *)
(* answered with success, and undone when the daemon dies (the run         *)
(* db_lost_delete shows it in the code of the database).                   *)
Place(k) == IF \E i \in DOMAIN done : done[i].call.id = k
            THEN CHOOSE i \in DOMAIN done : done[i].call.id = k ELSE 0

Older(c, k, than) ==
    \/ Place(k) < Place(than)
    \/ k < than /\ Place(k) # 0 /\ done[Place(k)].call.client = c

ReadsAreNotStale ==
    [][\A c \in Clients :
          call[c] # NoCall /\ call[c].op \in {"get", "launch"} /\ result'[c].code = "OK"
          /\ result'[c].replied =>
             ~Older(c, result'[c].value, acked[c][call[c].name])]_vars

(* mlops-agent-interface.h:23, "0 on success, a negative error value if    *)
(* failed": a function that returns 0 has had its call executed.           *)
SuccessMeansDone ==
    [][\A c \in Clients : call[c] # NoCall /\ call'[c] = NoCall /\ result'[c].code = "OK" =>
          \E i \in DOMAIN done : done[i].call = call[c]]_vars
=============================================================================
