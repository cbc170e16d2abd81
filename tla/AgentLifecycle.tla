---------------------------- MODULE AgentLifecycle ----------------------------
(***************************************************************************)
(* The life of the daemon process: main.c, mlops-agent-internal.c,         *)
(* modules.c, gdbus-util.c and the probe and exit functions of the three   *)
(* *-dbus-impl.cc modules.  The main thread walks through start-up, the    *)
(* main loop and shutdown; any step of start-up may fail; D-Bus calls and  *)
(* SIGTERM arrive whenever they like.  A process that has ended may be     *)
(* started again; the bus holds the calls that come in between.            *)
(***************************************************************************)
EXTENDS Integers, FiniteSets

CONSTANTS
    Modules,     \* the modules add_module has registered
    Handlers,    \* the number of method handlers of a module
    MayFail,     \* the steps of start-up that may fail
    MaxTerms,    \* bound on SIGTERMs
    MaxCalls,    \* bound on D-Bus method calls
    MaxStarts    \* bound on starts of the process

StartupSteps == {"args", "path", "db", "bus", "instance", "connect", "export", "name"}

ASSUME LifeBounds == Handlers \in Nat \ {0} /\ MaxTerms \in Nat /\ MaxCalls \in Nat
                      /\ MaxStarts \in Nat \ {0}
ASSUME LifeFailures == MayFail \subseteq StartupSteps

VARIABLES
    pc,         \* where the main thread is
    todo,       \* modules init_modules or exit_modules has not visited yet
    m,          \* the module it is visiting
    modules,    \* module_head
    instance,   \* modules whose g_gdbus_instance is not NULL
    handlers,   \* handlers[x]: the handler_infos of x with a handler_id > 0
    exported,   \* modules whose interface is exported on the connection
    db,         \* g_svcdb_instance is open
    table,      \* g_mlops_node_table # NULL
    bus,        \* g_dbus_sys_conn # NULL
    loop,       \* g_mainloop: "null", "made", "running", "quit" or "freed"
    installed,  \* handle_sigterm is the handler of SIGTERM
    name,       \* the bus name: "none", "requested" or "owned"
    ready,      \* systemd was told READY=1
    inbox,      \* method calls under way, numbered in the order in which they were
                \* made: in the main context if the name is owned, else held by the bus
    answered,   \* the calls that a handler has completed
    failed,     \* the calls that came back with an error
    calls,      \* method calls so far
    terms,      \* SIGTERMs so far
    starts      \* starts of the process so far

vars == <<pc, todo, m, modules, instance, handlers, exported, db, table, bus, loop,
          installed, name, ready, inbox, answered, failed, calls, terms, starts>>

moduleVars == <<modules, instance, handlers, exported>>
serviceVars == <<db, table>>
callVars == <<inbox, answered, failed, calls>>
clientVars == <<name, ready, callVars, terms, starts>>

NoModule == "none"

All == 1..Handlers

TypeOK ==
    /\ pc \in {"args", "initialize", "bus", "modules", "probe", "connect", "export", "signal",
               "name", "run", "loop", "exit_modules", "put_bus", "unref", "forget", "error",
               "exit", "exited", "killed", "aborted"}
    /\ todo \subseteq Modules /\ m \in Modules \cup {NoModule}
    /\ modules \subseteq Modules /\ instance \subseteq Modules /\ exported \subseteq Modules
    /\ handlers \in [Modules -> SUBSET All]
    /\ db \in BOOLEAN /\ table \in BOOLEAN /\ bus \in BOOLEAN
    /\ loop \in {"null", "made", "running", "quit", "freed"}
    /\ installed \in BOOLEAN /\ ready \in BOOLEAN
    /\ name \in {"none", "requested", "owned"}
    /\ inbox \subseteq [id : 1..calls, module : Modules]
    /\ answered \subseteq 1..calls /\ failed \subseteq 1..calls
    /\ calls \in 0..MaxCalls /\ terms \in 0..MaxTerms /\ starts \in 1..MaxStarts

Init ==
    /\ pc = "args"
    /\ todo = {} /\ m = NoModule
    /\ modules = Modules /\ instance = {} /\ exported = {}
    /\ handlers = [x \in Modules |-> {}]
    /\ db = FALSE /\ table = FALSE /\ bus = FALSE
    /\ loop = "null"
    /\ installed = FALSE /\ name = "none" /\ ready = FALSE
    /\ inbox = {} /\ answered = {} /\ failed = {}
    /\ calls = 0 /\ terms = 0 /\ starts = 1

Fails(step) == step \in MayFail

-----------------------------------------------------------------------------
(* Calls on the bus. *)

CallIds(some) == {k.id : k \in some}

\* The bus drops calls, or the connection answers them with an error.
Reject(gone) ==
    /\ inbox' = {k \in inbox : k.id \notin gone}
    /\ failed' = failed \cup gone

\* The process ends: its name goes, and the calls it has received with it.
EndOfProcess ==
    /\ name' = "none"
    /\ Reject(IF name = "owned" THEN CallIds(inbox) ELSE {})
    /\ UNCHANGED <<ready, answered, calls, terms, starts>>

-----------------------------------------------------------------------------
(* main, up to the modules. *)

ParseArgs ==
    /\ pc = "args"
    /\ \/ pc' = "initialize"
       \/ Fails("args") /\ pc' = "error"
    /\ UNCHANGED <<todo, m, moduleVars, serviceVars, bus, loop, installed, clientVars>>

\* mlops_node_finalize asserts the table and svcdb_finalize follows.
Finalized ==
    /\ db' = (db /\ ~table)
    /\ table' = FALSE

\* Mutant: the result of svcdb_initialize is not looked at.
InitializeAnyway ==
    /\ pc = "initialize"
    /\ db' \in BOOLEAN /\ table' = TRUE /\ pc' = "bus"
    /\ UNCHANGED <<todo, m, moduleVars, bus, loop, installed, clientVars>>

\* ml_agent_initialize, which finalizes by itself when the database fails.
Initialize ==
    /\ pc = "initialize"
    /\ \/ db' = TRUE /\ table' = TRUE /\ pc' = "bus"
       \/ Fails("path") /\ pc' = "error" /\ UNCHANGED serviceVars
       \/ Fails("db") /\ Finalized /\ pc' = IF table THEN "error" ELSE "aborted"
    /\ UNCHANGED <<todo, m, moduleVars, bus, loop, installed, clientVars>>

\* Mutant: the name is asked for as soon as there is a connection.
ConnectAndOwn ==
    /\ pc = "bus"
    /\ loop' = "made" /\ bus' = TRUE /\ name' = "requested"
    /\ pc' = "modules" /\ todo' = modules
    /\ UNCHANGED <<m, moduleVars, serviceVars, installed, ready, callVars, terms, starts>>

\* g_main_loop_new and gdbus_get_system_connection; a failure leaves the loop.
Connect ==
    /\ pc = "bus"
    /\ loop' = "made"
    /\ \/ bus' = TRUE /\ pc' = "modules" /\ todo' = modules
       \/ Fails("bus") /\ bus' = FALSE /\ pc' = "error" /\ UNCHANGED todo
    /\ UNCHANGED <<m, moduleVars, serviceVars, installed, clientVars>>

-----------------------------------------------------------------------------
(* init_modules and probe_*_module. *)

InitModules ==
    /\ pc = "modules"
    /\ \/ \E x \in todo : m' = x /\ todo' = todo \ {x} /\ pc' = "probe"
       \/ todo = {} /\ pc' = "signal" /\ UNCHANGED <<todo, m>>
    /\ UNCHANGED <<moduleVars, serviceVars, bus, loop, installed, clientVars>>

\* The instance of the skeleton; without it the module is removed.
Probe ==
    /\ pc = "probe"
    /\ \/ instance' = instance \cup {m} /\ pc' = "connect" /\ UNCHANGED modules
       \/ /\ Fails("instance")
          /\ modules' = modules \ {m} /\ pc' = "modules" /\ UNCHANGED instance
    /\ UNCHANGED <<todo, m, handlers, exported, serviceVars, bus, loop, installed, clientVars>>

\* Mutant: a failed probe leaves the handlers connected.
GiveUpConnected ==
    /\ instance' = instance \ {m}
    /\ modules' = modules \ {m}
    /\ pc' = "modules"
    /\ UNCHANGED handlers

\* gdbus_disconnect_signal, then gdbus_put_*_instance and the removal from
\* the list: the clean-up of a failed probe.
GiveUp ==
    /\ handlers' = [handlers EXCEPT ![m] = {}]
    /\ instance' = instance \ {m}
    /\ modules' = modules \ {m}
    /\ pc' = "modules"

\* Mutant: i <= num_signals.
ConnectOneTooMany ==
    /\ pc = "connect"
    /\ \E h \in 1..(Handlers + 1) \ handlers[m] :
          /\ \A g \in All : g < h => g \in handlers[m]
          /\ handlers' = [handlers EXCEPT ![m] = @ \cup {h}]
          /\ pc' = IF h > Handlers THEN "export" ELSE "connect"
    /\ UNCHANGED <<modules, instance, todo, m, exported, serviceVars, bus, loop, installed, clientVars>>

\* gdbus_connect_signal, one handler after the other.
ConnectSignal ==
    /\ pc = "connect"
    /\ \/ \E h \in All \ handlers[m] :
            /\ \A g \in All : g < h => g \in handlers[m]
            /\ handlers' = [handlers EXCEPT ![m] = @ \cup {h}]
            /\ pc' = IF h = Handlers THEN "export" ELSE "connect"
            /\ UNCHANGED <<modules, instance>>
       \/ Fails("connect") /\ GiveUp
    /\ UNCHANGED <<todo, m, exported, serviceVars, bus, loop, installed, clientVars>>

\* gdbus_export_interface; the init function of the module does nothing.
Export ==
    /\ pc = "export"
    /\ \/ exported' = exported \cup {m} /\ pc' = "modules" /\ UNCHANGED <<modules, instance, handlers>>
       \/ Fails("export") /\ GiveUp /\ UNCHANGED exported
    /\ UNCHANGED <<todo, m, serviceVars, bus, loop, installed, clientVars>>

-----------------------------------------------------------------------------
(* postinit, the main loop and the way out. *)

InstallHandler ==
    /\ pc = "signal"
    /\ installed' = TRUE
    /\ pc' = "name"
    /\ UNCHANGED <<todo, m, moduleVars, serviceVars, bus, loop, clientVars>>

\* gdbus_get_name only asks for the name; the answer comes in the loop.
GetName ==
    /\ pc = "name"
    /\ \/ name' = "requested" /\ pc' = "run"
       \/ Fails("name") /\ pc' = "error" /\ UNCHANGED name
    /\ UNCHANGED <<todo, m, moduleVars, serviceVars, bus, loop, installed, ready, callVars,
                   terms, starts>>

\* g_main_loop_run forgets a g_main_loop_quit that came before it.
RunLoop ==
    /\ pc = "run"
    /\ loop' = "running"
    /\ pc' = "loop"
    /\ UNCHANGED <<todo, m, moduleVars, serviceVars, bus, installed, clientVars>>

\* The main context has received no call before k.
Oldest(k) == k \in inbox /\ \A j \in inbox : k.id <= j.id

\* Mutant: a handler returns without completing its invocation.
DispatchSilently ==
    /\ pc = "loop"
    /\ \E k \in inbox : inbox' = inbox \ {k}
    /\ UNCHANGED <<pc, todo, m, moduleVars, serviceVars, bus, loop, installed, name, ready,
                   answered, failed, calls, terms, starts>>

\* Mutant: the newest call first.
DispatchNewest ==
    /\ pc = "loop" /\ name = "owned"
    /\ \E k \in inbox :
         /\ \A j \in inbox : j.id <= k.id
         /\ inbox' = inbox \ {k}
         /\ answered' = answered \cup {k.id}
    /\ UNCHANGED <<pc, todo, m, moduleVars, serviceVars, bus, loop, installed, name, ready,
                   failed, calls, terms, starts>>

\* The main context dispatches a call to the handler of its module, which
\* completes it; a skeleton without handlers answers with an error.
Dispatch ==
    /\ pc = "loop" /\ name = "owned"
    /\ \E k \in inbox :
         /\ Oldest(k)
         /\ \/ /\ handlers[k.module] # {}
               /\ inbox' = inbox \ {k}
               /\ answered' = answered \cup {k.id}
               /\ UNCHANGED failed
            \/ /\ handlers[k.module] = {}
               /\ Reject({k.id})
               /\ UNCHANGED answered
    /\ UNCHANGED <<pc, todo, m, moduleVars, serviceVars, bus, loop, installed, name, ready,
                   calls, terms, starts>>

\* name_acquired_cb, or nothing at all if another process owns the name.
NameAcquired ==
    /\ pc = "loop" /\ name = "owned" /\ ~ready
    /\ ready' = TRUE
    /\ UNCHANGED <<pc, todo, m, moduleVars, serviceVars, bus, loop, installed, name, callVars,
                   terms, starts>>

\* Mutant: the loop is left only when all calls have been made.
LeaveLoopWhenDrained ==
    /\ pc = "loop" /\ loop = "quit"
    /\ Cardinality(answered \cup failed) = MaxCalls
    /\ pc' = "exit_modules"
    /\ todo' = modules
    /\ UNCHANGED <<m, moduleVars, serviceVars, bus, loop, installed, clientVars>>

LeaveLoop ==
    /\ pc = "loop" /\ loop = "quit"
    /\ pc' = "exit_modules"
    /\ todo' = modules
    /\ UNCHANGED <<m, moduleVars, serviceVars, bus, loop, installed, clientVars>>

\* Mutant: the instances are not put.
ExitKeepsInstance ==
    /\ pc = "exit_modules"
    /\ \/ \E x \in todo :
            /\ todo' = todo \ {x}
            /\ m' = x
            /\ handlers' = [handlers EXCEPT ![x] = {}]
            /\ UNCHANGED pc
       \/ todo = {} /\ pc' = "put_bus" /\ UNCHANGED <<todo, m, handlers>>
    /\ UNCHANGED <<instance, modules, exported, serviceVars, bus, loop, installed, clientVars>>

\* exit_modules: disconnects the handlers and puts the instance, with which
\* its export goes; the list stays.
ExitModules ==
    /\ pc = "exit_modules"
    /\ \/ \E x \in todo :
            /\ todo' = todo \ {x}
            /\ m' = x
            /\ handlers' = [handlers EXCEPT ![x] = {}]
            /\ instance' = instance \ {x}
            /\ exported' = exported \ {x}
            /\ UNCHANGED pc
       \/ todo = {} /\ pc' = "put_bus" /\ UNCHANGED <<todo, m, handlers, instance, exported>>
    /\ UNCHANGED <<modules, serviceVars, bus, loop, installed, clientVars>>

\* gdbus_put_system_connection; g_bus_own_name_on_connection keeps a reference
\* of its own, so connection and name stay until the process ends.
PutConnection ==
    /\ pc = "put_bus"
    /\ bus' = FALSE
    /\ pc' = "unref"
    /\ UNCHANGED <<todo, m, moduleVars, serviceVars, loop, installed, clientVars>>

\* g_main_loop_unref, and only then g_mainloop = NULL
UnrefLoop ==
    /\ \/ pc = "unref" /\ loop' = "freed" /\ pc' = "forget"
       \/ pc = "forget" /\ loop' = "null" /\ pc' = "error"
    /\ UNCHANGED <<todo, m, moduleVars, serviceVars, bus, installed, clientVars>>

\* ml_agent_finalize at the label error: of main, which the normal way out
\* passes as well.  It aborts without a table.
Finalize ==
    /\ pc = "error"
    /\ Finalized
    /\ \/ table /\ pc' = "exit" /\ UNCHANGED clientVars
       \/ ~table /\ pc' = "aborted" /\ EndOfProcess
    /\ UNCHANGED <<todo, m, moduleVars, bus, loop, installed>>

\* main returns.
Exit ==
    /\ pc = "exit"
    /\ pc' = "exited"
    /\ EndOfProcess
    /\ UNCHANGED <<todo, m, moduleVars, serviceVars, bus, loop, installed>>

-----------------------------------------------------------------------------
(* The environment. *)

Alive == pc \notin {"exited", "killed", "aborted"}

\* A client calls a method.  The owner of the name refuses an interface it has
\* not exported; without an owner the bus holds the call.
Send ==
    /\ calls < MaxCalls
    /\ calls' = calls + 1
    /\ \E x \in Modules :
         \/ /\ name = "owned" /\ x \notin exported
            /\ failed' = failed \cup {calls + 1}
            /\ UNCHANGED inbox
         \/ /\ name = "owned" => x \in exported
            /\ inbox' = inbox \cup {[id |-> calls + 1, module |-> x]}
            /\ UNCHANGED failed
    /\ UNCHANGED <<pc, todo, m, moduleVars, serviceVars, bus, loop, installed, name, ready,
                   answered, terms, starts>>

\* The bus makes the daemon the owner of the name and passes on what it has held.
GrantName ==
    /\ Alive /\ name = "requested"
    /\ name' = "owned"
    /\ Reject(CallIds({k \in inbox : k.module \notin exported}))
    /\ UNCHANGED <<pc, todo, m, moduleVars, serviceVars, bus, loop, installed, ready, answered,
                   calls, terms, starts>>

\* The activation fails, or takes longer than the bus waits.
ActivationFails ==
    /\ name # "owned" /\ inbox # {}
    /\ Reject(CallIds(inbox))
    /\ UNCHANGED <<pc, todo, m, moduleVars, serviceVars, bus, loop, installed, name, ready,
                   answered, calls, terms, starts>>

\* Activation, or an administrator, starts the process again.
Restart ==
    /\ ~Alive /\ starts < MaxStarts
    /\ starts' = starts + 1
    /\ pc' = "args" /\ todo' = {} /\ m' = NoModule
    /\ modules' = Modules /\ instance' = {} /\ exported' = {}
    /\ handlers' = [x \in Modules |-> {}]
    /\ db' = FALSE /\ table' = FALSE /\ bus' = FALSE
    /\ loop' = "null" /\ installed' = FALSE /\ ready' = FALSE
    /\ UNCHANGED <<name, callVars, terms>>

\* handle_sigterm calls g_main_loop_quit, which ignores NULL; without the
\* handler SIGTERM kills.  Between g_main_loop_unref and g_mainloop = NULL it
\* touches freed memory and may crash.
Sigterm ==
    /\ Alive /\ terms < MaxTerms
    /\ terms' = terms + 1
    /\ \/ /\ installed
          /\ loop' = IF loop = "running" THEN "quit" ELSE loop
          /\ UNCHANGED <<pc, name, callVars>>
       \/ /\ ~installed \/ loop = "freed"
          /\ pc' = "killed" /\ name' = "none"
          /\ Reject(IF name = "owned" THEN CallIds(inbox) ELSE {})
          /\ UNCHANGED <<loop, answered, calls>>
    /\ UNCHANGED <<todo, m, moduleVars, serviceVars, bus, installed, ready, starts>>

Main ==
    \/ ParseArgs \/ Initialize \/ Connect
    \/ InitModules \/ Probe \/ ConnectSignal \/ Export
    \/ InstallHandler \/ GetName \/ RunLoop
    \/ LeaveLoop \/ ExitModules \/ PutConnection \/ UnrefLoop \/ Finalize \/ Exit

Environment == Send \/ GrantName \/ ActivationFails \/ Restart \/ Sigterm

Next == Main \/ Dispatch \/ NameAcquired \/ Environment

Spec == Init /\ [][Next]_vars

\* The main thread is scheduled; its loop looks at is_running after every
\* dispatched event, so no stream of calls keeps it from leaving, and it
\* dispatches what is there.  The bus waits for an activation only so long.
FairSpec == Spec /\ WF_vars(Main) /\ WF_vars(Dispatch) /\ WF_vars(ActivationFails)

-----------------------------------------------------------------------------

(* A method handler runs only while the database is open, the node table   *)
(* exists and the bus connection is there: it never dereferences what      *)
(* start-up has not made yet or shutdown has already taken away.           *)
ServedByServices ==
    [][\A k \in inbox : k.id \in answered' \ answered =>
          /\ db /\ table /\ bus
          /\ handlers[k.module] = All /\ k.module \in instance]_vars

(* Probing a module is all or nothing: outside the visit of its probe or   *)
(* exit function, a module of the list has its instance, all its handlers  *)
(* and its export, and a module that failed has none of them.              *)
Whole(x) == x \in instance /\ handlers[x] = All /\ x \in exported
Bare(x) == x \notin instance /\ handlers[x] = {}

ProbedAllOrNothing ==
    pc \in {"signal", "name", "run", "loop"} =>
        \A x \in Modules : IF x \in modules THEN Whole(x) ELSE Bare(x) /\ x \notin exported

(* Whoever finds an owner of the bus name, and systemd told READY=1, finds *)
(* a daemon that has finished start-up: SIGTERM is handled, and until it   *)
(* leaves its loop database, table and connection are there and every      *)
(* module left is exported and serves.  After the loop the name stays up   *)
(* to the end of the process; calls that come then are not dispatched.     *)
NameAfterModules ==
    name = "owned" =>
        /\ installed
        /\ pc \in {"run", "loop"} => db /\ table /\ bus /\ \A x \in modules : Whole(x)

(* A daemon that exits after running has released everything.              *)
ExitsClean ==
    pc = "exited" /\ loop = "null" =>
        /\ ~db /\ ~table /\ ~bus
        /\ exported = {} /\ \A x \in Modules : Bare(x)

(* SIGTERM stops a running daemon: the loop is left, the modules exit and  *)
(* the process ends, whatever calls are waiting or still come.             *)
TermEndsLoop == loop = "quit" ~> ~Alive

(* Whoever calls gets an answer or an error: no call is forgotten, neither *)
(* by a handler nor between a shutdown and the next start, whatever fails. *)
EveryCallReturns ==
    \A k \in 1..MaxCalls : k \in CallIds(inbox) ~> k \in answered \cup failed

(* To its clients, one process after the other is the service AgentIpc is  *)
(* built from: calls are answered in order by the owner of the name, once, *)
(* and fail when it goes.                                                  *)
Bus == INSTANCE BusService WITH
           Calls <- 1..MaxCalls, up <- name = "owned",
           waiting <- CallIds(inbox)

ImplementsBusService == Bus!Spec

(* mlops-agent-node.c:145, g_assert (g_mlops_node_table != NULL): the      *)
(* daemon never finalizes a table it does not have.                        *)
FinalizeFindsTable == pc # "aborted"
=============================================================================
