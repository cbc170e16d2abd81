------------------------- MODULE AgentLifecycleProofs -------------------------
(***************************************************************************)
(* For any modules and handlers, whichever steps of start-up fail, however *)
(* often the process is started and whenever SIGTERM and calls arrive:     *)
(* every property of a state or a step in AgentLifecycle, and the service  *)
(* that AgentIpc is built from.                                            *)
(*                                                                         *)
(* The inductive invariant follows the main thread: what it has made, what *)
(* it has taken away again and what each module has, section by section.   *)
(***************************************************************************)
EXTENDS AgentLifecycle, TLAPS

Starting == {"args", "initialize", "bus"}
Probing == {"modules", "probe", "connect", "export"}
Settled == {"signal", "name", "run", "loop"}
Leaving == {"put_bus", "unref", "forget"}

\* Database, table, bus connection and loop, as main makes and releases them.
ServicesOK ==
    /\ pc \in Probing \cup Settled \cup Leaving \cup {"bus", "exit_modules"} => db /\ table
    /\ pc \in {"args", "initialize"} => ~table
    /\ pc \in Probing \cup Settled \cup {"exit_modules", "put_bus"} => bus
    /\ pc \in Starting => loop = "null"
    /\ pc \in Probing \cup {"signal", "name", "run"} => loop = "made"
    /\ pc = "loop" => loop \in {"running", "quit"}
    /\ pc \in {"exit_modules", "put_bus", "unref"} => loop = "quit"
    /\ pc = "forget" => loop = "freed"
    /\ pc = "name" => installed

\* Nobody can ask for the daemon before it has finished start-up.
NameOK == name # "none" =>
    /\ pc \in {"run", "loop", "exit_modules", "error", "exit"} \cup Leaving
    /\ installed

\* The visit of m, and the modules that are still to be visited.
VisitOK ==
    /\ pc \in {"probe", "connect", "export"} => m \in modules /\ m \notin todo
    /\ pc \in Probing \cup {"exit_modules"} => todo \subseteq modules

New(x) == Bare(x) /\ x \notin exported

Done(x) == IF x \in modules THEN Whole(x) ELSE New(x)

\* The loop is NULL again only if main has passed exit_modules.
Released ==
    \/ pc \in {"unref", "forget"}
    \/ pc = "error" /\ loop = "null" /\ table
    \/ pc \in {"exit", "exited"} /\ loop = "null"

\* What module x has.
ModuleOK(x) ==
    /\ pc \in Starting => New(x)
    /\ pc \in Probing =>
         /\ x \in todo \/ (x = m /\ pc = "probe") => New(x)
         /\ x = m /\ pc \in {"connect", "export"} => x \in instance /\ x \notin exported
         /\ x = m /\ pc = "export" => handlers[x] = All
         /\ x \notin todo /\ (x = m => pc = "modules") => Done(x)
    /\ pc \in Settled => Done(x)
    /\ pc = "exit_modules" /\ x \notin todo => New(x)
    /\ pc = "put_bus" \/ Released => New(x)

ReleasedOK ==
    /\ Released => ~bus
    /\ pc \in {"exit", "exited"} => ~db /\ ~table

\* A number belongs to one call.
CallsOK == \A j, k \in inbox : j.id = k.id => j = k

Process == ServicesOK /\ NameOK /\ VisitOK /\ ReleasedOK /\ \A x \in Modules : ModuleOK(x)

IInv == TypeOK /\ Process /\ CallsOK

-----------------------------------------------------------------------------
(* The calls on the bus. *)

\* What a step may do to the calls: nothing is numbered twice.
CallsTyped ==
    /\ inbox' \subseteq [id : 1..calls', module : Modules]
    /\ answered' \subseteq 1..calls' /\ failed' \subseteq 1..calls'
    /\ calls' \in 0..MaxCalls
    /\ CallsOK'

\* Dropping calls keeps the numbers apart.
LEMMA Rejected ==
    ASSUME IInv, NEW gone \in SUBSET CallIds(inbox), Reject(gone), UNCHANGED <<answered, calls>>
    PROVE  CallsTyped
<1>1. CallIds(inbox) \subseteq 1..calls
  BY DEF IInv, TypeOK, CallIds
<1> QED  BY <1>1 DEF IInv, TypeOK, Reject, CallsTyped, CallsOK

\* So does leaving them alone.
LEMMA CallsKept ==
    ASSUME IInv, UNCHANGED callVars
    PROVE  CallsTyped
  BY DEF IInv, TypeOK, CallsTyped, CallsOK, callVars

\* The options are read, or main gives up.
LEMMA ParseArgsStep ==
    ASSUME IInv, ParseArgs
    PROVE  IInv'
<1>1. CallsTyped
  BY CallsKept DEF ParseArgs, clientVars, callVars
<1>2. TypeOK'
  BY <1>1, LifeBounds DEF IInv, Process, TypeOK, CallsTyped, VisitOK, ParseArgs, moduleVars,
         serviceVars, clientVars
<1>3. ServicesOK' /\ NameOK' /\ VisitOK' /\ ReleasedOK'
  BY DEF IInv, Process, ServicesOK, NameOK, VisitOK, ReleasedOK, Released,
         Starting, Probing, Settled, Leaving, ParseArgs, moduleVars, serviceVars, clientVars
<1>4. ASSUME NEW x \in Modules PROVE ModuleOK(x)'
  BY <1>4 DEF IInv, Process, TypeOK, ServicesOK, VisitOK, ModuleOK, New, Done, Whole, Bare,
         Released,
         Starting, Probing, Settled, Leaving, ParseArgs, moduleVars, serviceVars, clientVars
<1> QED  BY <1>1, <1>2, <1>3, <1>4 DEF IInv, Process, CallsTyped

\* ml_agent_initialize opens the database and makes the table, or neither.
LEMMA InitializeStep ==
    ASSUME IInv, Initialize
    PROVE  IInv'
<1>1. CallsTyped
  BY CallsKept DEF Initialize, clientVars, callVars
<1>2. TypeOK'
  <2>1. db' \in BOOLEAN /\ table' \in BOOLEAN
    BY DEF IInv, TypeOK, Initialize, Finalized, serviceVars
  <2>2. pc' \in {"bus", "error", "aborted"}
    BY DEF Initialize
  <2> QED
    BY <1>1, <2>1, <2>2, LifeBounds DEF IInv, TypeOK, CallsTyped, Initialize,
         moduleVars, serviceVars, clientVars
<1>3. ServicesOK' /\ NameOK' /\ VisitOK' /\ ReleasedOK'
  BY DEF IInv, Process, ServicesOK, NameOK, VisitOK, ReleasedOK, Released,
         Starting, Probing, Settled, Leaving, Initialize, Finalized, moduleVars, serviceVars,
         clientVars
<1>4. ASSUME NEW x \in Modules PROVE ModuleOK(x)'
  BY <1>4 DEF IInv, Process, TypeOK, ServicesOK, VisitOK, ModuleOK, New, Done, Whole, Bare,
         Released,
         Starting, Probing, Settled, Leaving, Initialize, Finalized, moduleVars, serviceVars,
         clientVars
<1> QED  BY <1>1, <1>2, <1>3, <1>4 DEF IInv, Process, CallsTyped

\* The main loop and the bus connection, or the way out.
LEMMA ConnectStep ==
    ASSUME IInv, Connect
    PROVE  IInv'
<1>1. CallsTyped
  BY CallsKept DEF Connect, clientVars, callVars
<1>2. TypeOK'
  BY <1>1, LifeBounds DEF IInv, Process, TypeOK, CallsTyped, VisitOK, Connect, moduleVars,
         serviceVars, clientVars
<1>3. ServicesOK' /\ NameOK' /\ VisitOK' /\ ReleasedOK'
  BY DEF IInv, Process, ServicesOK, NameOK, VisitOK, ReleasedOK, Released,
         Starting, Probing, Settled, Leaving, Connect, moduleVars, serviceVars, clientVars
<1>4. ASSUME NEW x \in Modules PROVE ModuleOK(x)'
  BY <1>4 DEF IInv, Process, TypeOK, ServicesOK, VisitOK, ModuleOK, New, Done, Whole, Bare,
         Released,
         Starting, Probing, Settled, Leaving, Connect, moduleVars, serviceVars, clientVars
<1> QED  BY <1>1, <1>2, <1>3, <1>4 DEF IInv, Process, CallsTyped

\* The next module, or postinit after the last.
LEMMA InitModulesStep ==
    ASSUME IInv, InitModules
    PROVE  IInv'
<1>1. CallsTyped
  BY CallsKept DEF InitModules, clientVars, callVars
<1>2. TypeOK'
  BY <1>1, LifeBounds DEF IInv, Process, TypeOK, CallsTyped, VisitOK, InitModules, moduleVars,
         serviceVars, clientVars
<1>3. ServicesOK' /\ NameOK' /\ VisitOK' /\ ReleasedOK'
  BY DEF IInv, Process, ServicesOK, NameOK, VisitOK, ReleasedOK, Released,
         Starting, Probing, Settled, Leaving, InitModules, moduleVars, serviceVars, clientVars
<1>4. ASSUME NEW x \in Modules PROVE ModuleOK(x)'
  BY <1>4 DEF IInv, Process, TypeOK, ServicesOK, VisitOK, ModuleOK, New, Done, Whole, Bare,
         Released,
         Starting, Probing, Settled, Leaving, InitModules, moduleVars, serviceVars, clientVars
<1> QED  BY <1>1, <1>2, <1>3, <1>4 DEF IInv, Process, CallsTyped

\* The instance of the skeleton, or the removal of the module.
LEMMA ProbeStep ==
    ASSUME IInv, Probe
    PROVE  IInv'
<1>1. CallsTyped
  BY CallsKept DEF Probe, clientVars, callVars
<1>2. TypeOK'
  BY <1>1, LifeBounds DEF IInv, Process, TypeOK, CallsTyped, VisitOK, Probe, moduleVars,
         serviceVars, clientVars
<1>3. ServicesOK' /\ NameOK' /\ VisitOK' /\ ReleasedOK'
  BY DEF IInv, Process, ServicesOK, NameOK, VisitOK, ReleasedOK, Released,
         Starting, Probing, Settled, Leaving, Probe, moduleVars, serviceVars, clientVars
<1>4. ASSUME NEW x \in Modules PROVE ModuleOK(x)'
  BY <1>4 DEF IInv, Process, TypeOK, ServicesOK, VisitOK, ModuleOK, New, Done, Whole, Bare,
         Released,
         Starting, Probing, Settled, Leaving, Probe, moduleVars, serviceVars, clientVars
<1> QED  BY <1>1, <1>2, <1>3, <1>4 DEF IInv, Process, CallsTyped

\* One more handler, or all of them go and the module with them.
LEMMA ConnectSignalStep ==
    ASSUME IInv, ConnectSignal
    PROVE  IInv'
<1>1. CallsTyped
  BY CallsKept DEF ConnectSignal, clientVars, callVars
<1>2. TypeOK'
  BY <1>1, LifeBounds DEF IInv, Process, TypeOK, CallsTyped, VisitOK, ConnectSignal, GiveUp,
         All, moduleVars, serviceVars, clientVars
<1>3. ServicesOK' /\ NameOK' /\ VisitOK' /\ ReleasedOK'
  BY DEF IInv, Process, ServicesOK, NameOK, VisitOK, ReleasedOK, Released,
         Starting, Probing, Settled, Leaving, ConnectSignal, GiveUp, moduleVars, serviceVars,
         clientVars
<1>4. ASSUME NEW x \in Modules PROVE ModuleOK(x)'
  <2>1. /\ pc = "connect" /\ m \in modules /\ m \notin todo /\ todo \subseteq modules
        /\ m \in instance /\ m \notin exported /\ ModuleOK(x)
        /\ handlers \in [Modules -> SUBSET All] /\ modules \subseteq Modules
        /\ UNCHANGED <<todo, m, exported, bus, table, loop>>
    BY DEF IInv, Process, TypeOK, VisitOK, ModuleOK, Probing, ConnectSignal, serviceVars
  <2>2. CASE GiveUp
    <3>1. /\ pc' = "modules" /\ modules' = modules \ {m} /\ instance' = instance \ {m}
          /\ handlers' = [handlers EXCEPT ![m] = {}]
      BY <2>2 DEF GiveUp
    <3>2. x \in todo => New(x)'
      BY <2>1, <3>1 DEF ModuleOK, Probing, New, Bare
    <3>3. x \notin todo => Done(x)'
      BY <2>1, <3>1 DEF ModuleOK, Probing, New, Done, Whole, Bare
    <3> QED  BY <2>1, <3>1, <3>2, <3>3 DEF ModuleOK, Released, Starting, Probing, Settled
  <2>3. CASE ~GiveUp
    <3>1. PICK h \in All \ handlers[m] :
             /\ \A g \in All : g < h => g \in handlers[m]
             /\ handlers' = [handlers EXCEPT ![m] = @ \cup {h}]
             /\ pc' = IF h = Handlers THEN "export" ELSE "connect"
             /\ UNCHANGED <<modules, instance>>
      BY <2>3 DEF ConnectSignal
    <3>2. h = Handlers => handlers'[m] = All
      <4>1. handlers[m] \subseteq All /\ handlers'[m] = handlers[m] \cup {h}
        BY <2>1, <3>1
      <4>2. h = Handlers => \A g \in All : g < h \/ g = h
        BY LifeBounds DEF All
      <4> QED  BY <3>1, <4>1, <4>2
    <3>3. x \in todo => New(x)'
      BY <2>1, <3>1 DEF ModuleOK, Probing, New, Bare
    <3>4. x \notin todo /\ x # m => Done(x)'
      BY <2>1, <3>1 DEF ModuleOK, Probing, New, Done, Whole, Bare
    <3>5. pc' \in {"connect", "export"} /\ (pc' = "export" => handlers'[m] = All)
      BY <3>1, <3>2
    <3>6. instance' = instance
      BY <3>1
    <3> QED
      BY <2>1, <3>3, <3>4, <3>5, <3>6 DEF ModuleOK, Released, Starting, Probing, Settled
  <2> QED  BY <2>2, <2>3
<1> QED  BY <1>1, <1>2, <1>3, <1>4 DEF IInv, Process, CallsTyped

\* The export of a module that has all its handlers, or its removal.
LEMMA ExportStep ==
    ASSUME IInv, Export
    PROVE  IInv'
<1>1. CallsTyped
  BY CallsKept DEF Export, clientVars, callVars
<1>2. TypeOK'
  BY <1>1, LifeBounds DEF IInv, Process, TypeOK, CallsTyped, VisitOK, Export, GiveUp,
         moduleVars, serviceVars, clientVars
<1>3. ServicesOK' /\ NameOK' /\ VisitOK' /\ ReleasedOK'
  BY DEF IInv, Process, ServicesOK, NameOK, VisitOK, ReleasedOK, Released,
         Starting, Probing, Settled, Leaving, Export, GiveUp, moduleVars, serviceVars, clientVars
<1>4. ASSUME NEW x \in Modules PROVE ModuleOK(x)'
  BY <1>4 DEF IInv, Process, TypeOK, ServicesOK, VisitOK, ModuleOK, New, Done, Whole, Bare,
         Released,
         Starting, Probing, Settled, Leaving, Export, GiveUp, moduleVars, serviceVars, clientVars
<1> QED  BY <1>1, <1>2, <1>3, <1>4 DEF IInv, Process, CallsTyped

\* The handler of SIGTERM.
LEMMA InstallHandlerStep ==
    ASSUME IInv, InstallHandler
    PROVE  IInv'
<1>1. CallsTyped
  BY CallsKept DEF InstallHandler, clientVars, callVars
<1>2. TypeOK'
  BY <1>1, LifeBounds DEF IInv, Process, TypeOK, CallsTyped, VisitOK, InstallHandler,
         moduleVars, serviceVars, clientVars
<1>3. ServicesOK' /\ NameOK' /\ VisitOK' /\ ReleasedOK'
  BY DEF IInv, Process, ServicesOK, NameOK, VisitOK, ReleasedOK, Released,
         Starting, Probing, Settled, Leaving, InstallHandler, moduleVars, serviceVars, clientVars
<1>4. ASSUME NEW x \in Modules PROVE ModuleOK(x)'
  BY <1>4 DEF IInv, Process, TypeOK, ServicesOK, VisitOK, ModuleOK, New, Done, Whole, Bare,
         Released,
         Starting, Probing, Settled, Leaving, InstallHandler, moduleVars, serviceVars, clientVars
<1> QED  BY <1>1, <1>2, <1>3, <1>4 DEF IInv, Process, CallsTyped

\* The request for the name, when every module has been visited.
LEMMA GetNameStep ==
    ASSUME IInv, GetName
    PROVE  IInv'
<1>1. CallsTyped
  BY CallsKept DEF GetName, clientVars, callVars
<1>2. TypeOK'
  BY <1>1, LifeBounds DEF IInv, Process, TypeOK, CallsTyped, VisitOK, GetName, moduleVars,
         serviceVars, clientVars
<1>3. ServicesOK' /\ NameOK' /\ VisitOK' /\ ReleasedOK'
  BY DEF IInv, Process, ServicesOK, NameOK, VisitOK, ReleasedOK, Released,
         Starting, Probing, Settled, Leaving, GetName, moduleVars, serviceVars, clientVars
<1>4. ASSUME NEW x \in Modules PROVE ModuleOK(x)'
  BY <1>4 DEF IInv, Process, TypeOK, ServicesOK, VisitOK, ModuleOK, New, Done, Whole, Bare,
         Released,
         Starting, Probing, Settled, Leaving, GetName, moduleVars, serviceVars, clientVars
<1> QED  BY <1>1, <1>2, <1>3, <1>4 DEF IInv, Process, CallsTyped

\* The main loop starts.
LEMMA RunLoopStep ==
    ASSUME IInv, RunLoop
    PROVE  IInv'
<1>1. CallsTyped
  BY CallsKept DEF RunLoop, clientVars, callVars
<1>2. TypeOK'
  BY <1>1, LifeBounds DEF IInv, Process, TypeOK, CallsTyped, VisitOK, RunLoop, moduleVars,
         serviceVars, clientVars
<1>3. ServicesOK' /\ NameOK' /\ VisitOK' /\ ReleasedOK'
  BY DEF IInv, Process, ServicesOK, NameOK, VisitOK, ReleasedOK, Released,
         Starting, Probing, Settled, Leaving, RunLoop, moduleVars, serviceVars, clientVars
<1>4. ASSUME NEW x \in Modules PROVE ModuleOK(x)'
  BY <1>4 DEF IInv, Process, TypeOK, ServicesOK, VisitOK, ModuleOK, New, Done, Whole, Bare,
         Released,
         Starting, Probing, Settled, Leaving, RunLoop, moduleVars, serviceVars, clientVars
<1> QED  BY <1>1, <1>2, <1>3, <1>4 DEF IInv, Process, CallsTyped

\* The main loop has been quit.
LEMMA LeaveLoopStep ==
    ASSUME IInv, LeaveLoop
    PROVE  IInv'
<1>1. CallsTyped
  BY CallsKept DEF LeaveLoop, clientVars, callVars
<1>2. TypeOK'
  BY <1>1, LifeBounds DEF IInv, Process, TypeOK, CallsTyped, VisitOK, LeaveLoop, moduleVars,
         serviceVars, clientVars
<1>3. ServicesOK' /\ NameOK' /\ VisitOK' /\ ReleasedOK'
  BY DEF IInv, Process, ServicesOK, NameOK, VisitOK, ReleasedOK, Released,
         Starting, Probing, Settled, Leaving, LeaveLoop, moduleVars, serviceVars, clientVars
<1>4. ASSUME NEW x \in Modules PROVE ModuleOK(x)'
  BY <1>4 DEF IInv, Process, TypeOK, ServicesOK, VisitOK, ModuleOK, New, Done, Whole, Bare,
         Released,
         Starting, Probing, Settled, Leaving, LeaveLoop, moduleVars, serviceVars, clientVars
<1> QED  BY <1>1, <1>2, <1>3, <1>4 DEF IInv, Process, CallsTyped

\* A module loses its handlers, its instance and its export.
LEMMA ExitModulesStep ==
    ASSUME IInv, ExitModules
    PROVE  IInv'
<1>1. CallsTyped
  BY CallsKept DEF ExitModules, clientVars, callVars
<1>2. TypeOK'
  BY <1>1, LifeBounds DEF IInv, Process, TypeOK, CallsTyped, VisitOK, ExitModules, moduleVars,
         serviceVars, clientVars
<1>3. ServicesOK' /\ NameOK' /\ VisitOK' /\ ReleasedOK'
  BY DEF IInv, Process, ServicesOK, NameOK, VisitOK, ReleasedOK, Released,
         Starting, Probing, Settled, Leaving, ExitModules, moduleVars, serviceVars, clientVars
<1>4. ASSUME NEW x \in Modules PROVE ModuleOK(x)'
  BY <1>4 DEF IInv, Process, TypeOK, ServicesOK, VisitOK, ModuleOK, New, Done, Whole, Bare,
         Released,
         Starting, Probing, Settled, Leaving, ExitModules, moduleVars, serviceVars, clientVars
<1> QED  BY <1>1, <1>2, <1>3, <1>4 DEF IInv, Process, CallsTyped

\* The connection is released.
LEMMA PutConnectionStep ==
    ASSUME IInv, PutConnection
    PROVE  IInv'
<1>1. CallsTyped
  BY CallsKept DEF PutConnection, clientVars, callVars
<1>2. TypeOK'
  BY <1>1, LifeBounds DEF IInv, Process, TypeOK, CallsTyped, VisitOK, PutConnection,
         moduleVars, serviceVars, clientVars
<1>3. ServicesOK' /\ NameOK' /\ VisitOK' /\ ReleasedOK'
  BY DEF IInv, Process, ServicesOK, NameOK, VisitOK, ReleasedOK, Released,
         Starting, Probing, Settled, Leaving, PutConnection, moduleVars, serviceVars, clientVars
<1>4. ASSUME NEW x \in Modules PROVE ModuleOK(x)'
  BY <1>4 DEF IInv, Process, TypeOK, ServicesOK, VisitOK, ModuleOK, New, Done, Whole, Bare,
         Released,
         Starting, Probing, Settled, Leaving, PutConnection, moduleVars, serviceVars, clientVars
<1> QED  BY <1>1, <1>2, <1>3, <1>4 DEF IInv, Process, CallsTyped

\* The loop is freed and forgotten.
LEMMA UnrefLoopStep ==
    ASSUME IInv, UnrefLoop
    PROVE  IInv'
<1>1. CallsTyped
  BY CallsKept DEF UnrefLoop, clientVars, callVars
<1>2. TypeOK'
  BY <1>1, LifeBounds DEF IInv, Process, TypeOK, CallsTyped, VisitOK, UnrefLoop, moduleVars,
         serviceVars, clientVars
<1>3. ServicesOK' /\ NameOK' /\ VisitOK' /\ ReleasedOK'
  BY DEF IInv, Process, ServicesOK, NameOK, VisitOK, ReleasedOK, Released,
         Starting, Probing, Settled, Leaving, UnrefLoop, moduleVars, serviceVars, clientVars
<1>4. ASSUME NEW x \in Modules PROVE ModuleOK(x)'
  BY <1>4 DEF IInv, Process, TypeOK, ServicesOK, VisitOK, ModuleOK, New, Done, Whole, Bare,
         Released,
         Starting, Probing, Settled, Leaving, UnrefLoop, moduleVars, serviceVars, clientVars
<1> QED  BY <1>1, <1>2, <1>3, <1>4 DEF IInv, Process, CallsTyped

-----------------------------------------------------------------------------
(* The end of the process, calls and the environment. *)

\* Whatever the end of the process does to the calls and the name.
LEMMA Ends ==
    ASSUME IInv, EndOfProcess
    PROVE  CallsTyped
  BY Rejected DEF EndOfProcess, CallIds

\* The error path, which the normal way out takes as well.
LEMMA FinalizeStep ==
    ASSUME IInv, Finalize
    PROVE  IInv'
<1>1. CASE table
  <2>1. /\ CallsTyped /\ pc' = "exit" /\ pc = "error" /\ db' = FALSE /\ table' = FALSE
        /\ UNCHANGED <<name, todo, m, modules, instance, handlers, exported, bus, loop, installed,
                       ready, terms, starts>>
    BY <1>1, CallsKept DEF Finalize, Finalized, moduleVars, clientVars, callVars, IInv, TypeOK
  <2>2. TypeOK'
    BY <2>1 DEF IInv, TypeOK, CallsTyped
  <2>3. Process'
    BY <1>1, <2>1 DEF IInv, Process, ServicesOK, NameOK, VisitOK, ReleasedOK, Released, ModuleOK,
                      New, Bare, Starting, Probing, Settled, Leaving
  <2> QED  BY <2>1, <2>2, <2>3 DEF IInv, CallsTyped
<1>2. CASE ~table
  <2>1. /\ CallsTyped /\ name' = "none" /\ pc' = "aborted" /\ db' \in BOOLEAN /\ table' = FALSE
        /\ UNCHANGED <<todo, m, modules, instance, handlers, exported, bus, loop, installed, ready,
                       terms, starts>>
    BY <1>2, Ends DEF Finalize, Finalized, EndOfProcess, moduleVars, IInv, TypeOK
  <2>2. TypeOK'
    BY <2>1 DEF IInv, TypeOK, CallsTyped
  <2>3. Process'
    BY <2>1 DEF IInv, Process, ServicesOK, NameOK, VisitOK, ReleasedOK, Released, ModuleOK,
                Starting, Probing, Settled, Leaving
  <2> QED  BY <2>1, <2>2, <2>3 DEF IInv, CallsTyped
<1> QED  BY <1>1, <1>2

\* main returns, and the name goes.
LEMMA ExitStep ==
    ASSUME IInv, Exit
    PROVE  IInv'
<1>1. /\ CallsTyped /\ name' = "none" /\ pc' = "exited" /\ pc = "exit"
      /\ UNCHANGED <<todo, m, modules, instance, handlers, exported, db, table, bus, loop,
                     installed, ready, terms, starts>>
  BY Ends DEF Exit, EndOfProcess, moduleVars, serviceVars
<1>2. TypeOK'
  BY <1>1 DEF IInv, TypeOK, CallsTyped
<1>3. Process'
  BY <1>1 DEF IInv, Process, ServicesOK, NameOK, VisitOK, ReleasedOK, Released, ModuleOK, New, Bare,
              Starting, Probing, Settled, Leaving
<1> QED  BY <1>1, <1>2, <1>3 DEF IInv, CallsTyped

\* Steps that concern only calls, the name and counters.
LEMMA OtherStep ==
    ASSUME IInv, CallsTyped, ready' = ready \/ ready' = TRUE,
           UNCHANGED <<pc, todo, m, moduleVars, serviceVars, bus, loop, installed, terms, starts>>,
           name' = name \/ (name = "requested" /\ name' = "owned")
    PROVE  IInv'
<1>1. TypeOK'
  <2>1. ready' \in BOOLEAN /\ name' \in {"none", "requested", "owned"}
    BY DEF IInv, TypeOK
  <2> QED  BY <2>1 DEF IInv, TypeOK, CallsTyped, moduleVars, serviceVars
<1>2. Process'
  BY DEF IInv, Process, ServicesOK, NameOK, VisitOK, ReleasedOK, Released, ModuleOK, New, Done, Whole,
         Bare, moduleVars, serviceVars
<1> QED  BY <1>1, <1>2 DEF IInv, CallsTyped

\* A call leaves the inbox, answered or refused.
LEMMA DispatchStep ==
    ASSUME IInv, Dispatch
    PROVE  IInv'
<1>1. PICK k \in inbox :
         \/ inbox' = inbox \ {k} /\ answered' = answered \cup {k.id} /\ UNCHANGED failed
         \/ Reject({k.id}) /\ UNCHANGED answered
  BY DEF Dispatch
<1>2. UNCHANGED <<pc, todo, m, moduleVars, serviceVars, bus, loop, installed, name, ready, calls,
                  terms, starts>>
  BY DEF Dispatch
<1>3. CASE inbox' = inbox \ {k} /\ answered' = answered \cup {k.id} /\ UNCHANGED failed
  <2>1. CallsTyped
    BY <1>2, <1>3 DEF IInv, TypeOK, CallsTyped, CallsOK
  <2> QED  BY <1>2, <2>1, OtherStep
<1>4. CASE Reject({k.id}) /\ UNCHANGED answered
  <2>1. CallsTyped
    BY <1>2, <1>4, Rejected DEF CallIds
  <2> QED  BY <1>2, <2>1, OtherStep
<1> QED  BY <1>1, <1>3, <1>4

\* systemd is told.
LEMMA NameAcquiredStep ==
    ASSUME IInv, NameAcquired
    PROVE  IInv'
  BY CallsKept, OtherStep DEF NameAcquired

\* A call is made, with the next number.
LEMMA SendStep ==
    ASSUME IInv, Send
    PROVE  IInv'
<1>1. CallsTyped
  <2>1. /\ calls \in Nat /\ calls' = calls + 1 /\ calls' \in 0..MaxCalls
        /\ inbox \subseteq [id : 1..calls', module : Modules] /\ \A k \in inbox : k.id # calls + 1
        /\ answered \subseteq 1..calls' /\ failed \subseteq 1..calls' /\ calls + 1 \in 1..calls'
    BY LifeBounds DEF IInv, TypeOK, Send
  <2>2. UNCHANGED answered
    BY DEF Send
  <2>3. PICK x \in Modules : \/ failed' = failed \cup {calls + 1} /\ UNCHANGED inbox
                             \/ /\ inbox' = inbox \cup {[id |-> calls + 1, module |-> x]}
                                /\ UNCHANGED failed
    BY DEF Send
  <2>4. CallsOK'
    BY <2>1, <2>3 DEF IInv, CallsOK
  <2>5. inbox' \subseteq [id : 1..calls', module : Modules]
    BY <2>1, <2>3
  <2>6. failed' \subseteq 1..calls'
    BY <2>1, <2>3
  <2> QED  BY <2>1, <2>2, <2>4, <2>5, <2>6 DEF CallsTyped
<1> QED  BY <1>1, OtherStep DEF Send

\* The name arrives, and with it the calls the bus has held.
LEMMA GrantNameStep ==
    ASSUME IInv, GrantName
    PROVE  IInv'
<1>1. CallsTyped
  BY Rejected DEF GrantName, CallIds
<1> QED  BY <1>1, OtherStep DEF GrantName

\* The bus drops what it holds.
LEMMA ActivationFailsStep ==
    ASSUME IInv, ActivationFails
    PROVE  IInv'
<1>1. CallsTyped
  BY Rejected DEF ActivationFails
<1> QED  BY <1>1, OtherStep DEF ActivationFails

\* A new process starts from nothing.
LEMMA RestartStep ==
    ASSUME IInv, Restart
    PROVE  IInv'
<1>1. /\ CallsTyped /\ name = "none" /\ UNCHANGED <<name, terms>> /\ starts' \in 1..MaxStarts
      /\ pc' = "args" /\ todo' = {} /\ m' = NoModule
      /\ modules' = Modules /\ instance' = {} /\ exported' = {}
      /\ handlers' = [x \in Modules |-> {}]
      /\ db' = FALSE /\ table' = FALSE /\ bus' = FALSE
      /\ loop' = "null" /\ installed' = FALSE /\ ready' = FALSE
  <2>1. name = "none"
    BY DEF Restart, Alive, IInv, Process, NameOK, Leaving
  <2>2. starts' \in 1..MaxStarts
    BY LifeBounds DEF Restart, IInv, TypeOK
  <2> QED  BY <2>1, <2>2, CallsKept DEF Restart
<1>2. TypeOK'
  BY <1>1 DEF IInv, TypeOK, CallsTyped
<1>3. Process'
  BY <1>1 DEF Process, ServicesOK, NameOK, VisitOK, ReleasedOK, Released, ModuleOK, New, Bare,
              Starting, Probing, Settled, Leaving
<1> QED  BY <1>1, <1>2, <1>3 DEF IInv, CallsTyped

\* SIGTERM quits the loop, does nothing, or kills.
LEMMA SigtermStep ==
    ASSUME IInv, Sigterm
    PROVE  IInv'
<1>1. /\ UNCHANGED <<todo, m, modules, instance, handlers, exported, db, table, bus, installed, ready,
                     starts>>
      /\ terms' \in 0..MaxTerms
  BY LifeBounds DEF Sigterm, moduleVars, serviceVars, IInv, TypeOK
<1>2. CASE /\ loop' = IF loop = "running" THEN "quit" ELSE loop
           /\ UNCHANGED <<pc, name, callVars>>
  <2>1. CallsTyped
    BY <1>2, CallsKept
  <2>2. TypeOK'
    BY <1>1, <1>2, <2>1 DEF IInv, TypeOK, CallsTyped
  <2>3. Process'
    BY <1>1, <1>2 DEF IInv, Process, ServicesOK, NameOK, VisitOK, ReleasedOK, Released, ModuleOK, New,
                      Done, Whole, Bare, Starting, Probing, Settled, Leaving
  <2> QED  BY <2>1, <2>2, <2>3 DEF IInv, CallsTyped
<1>3. CASE /\ pc' = "killed" /\ name' = "none"
           /\ Reject(IF name = "owned" THEN CallIds(inbox) ELSE {})
           /\ UNCHANGED <<loop, answered, calls>>
  <2>1. CallsTyped
    BY <1>3, Rejected
  <2>2. TypeOK'
    BY <1>1, <1>3, <2>1 DEF IInv, TypeOK, CallsTyped
  <2>3. Process'
    BY <1>1, <1>3 DEF IInv, Process, ServicesOK, NameOK, VisitOK, ReleasedOK, Released, ModuleOK,
                      Starting, Probing, Settled, Leaving
  <2> QED  BY <2>1, <2>2, <2>3 DEF IInv, CallsTyped
<1> QED  BY <1>2, <1>3 DEF Sigterm

-----------------------------------------------------------------------------
(* The invariant. *)

\* Nothing has been made, no call is under way.
LEMMA InitInv == Init => IInv
<1> SUFFICES ASSUME Init PROVE IInv
  OBVIOUS
<1>1. TypeOK
  <2>1. handlers \in [Modules -> SUBSET All] /\ starts \in 1..MaxStarts
    BY LifeBounds DEF Init
  <2>2. terms \in 0..MaxTerms /\ calls \in 0..MaxCalls
    BY LifeBounds DEF Init
  <2> QED  BY <2>1, <2>2 DEF Init, TypeOK
<1>2. Process
  BY DEF Init, Process, ServicesOK, NameOK, VisitOK, ReleasedOK, Released, ModuleOK, New, Bare,
         Starting, Probing, Settled, Leaving
<1> QED  BY <1>1, <1>2 DEF IInv, Init, CallsOK

\* Every step keeps it.
LEMMA NextInv == IInv /\ [Next]_vars => IInv'
<1> SUFFICES ASSUME IInv, [Next]_vars PROVE IInv'
  OBVIOUS
<1>1. CASE ParseArgs \/ Initialize \/ Connect \/ InitModules \/ Probe \/ ConnectSignal \/ Export
  BY <1>1, ParseArgsStep, InitializeStep, ConnectStep, InitModulesStep, ProbeStep, ConnectSignalStep,
     ExportStep
<1>2. CASE InstallHandler \/ GetName \/ RunLoop \/ LeaveLoop \/ ExitModules \/ PutConnection
  BY <1>2, InstallHandlerStep, GetNameStep, RunLoopStep, LeaveLoopStep, ExitModulesStep,
     PutConnectionStep
<1>3. CASE UnrefLoop \/ Finalize \/ Exit \/ Dispatch \/ NameAcquired
  BY <1>3, UnrefLoopStep, FinalizeStep, ExitStep, DispatchStep, NameAcquiredStep
<1>4. CASE Environment
  BY <1>4, SendStep, GrantNameStep, ActivationFailsStep, RestartStep, SigtermStep DEF Environment
<1>5. CASE UNCHANGED vars
  BY <1>5, CallsKept, OtherStep DEF vars, callVars, moduleVars, serviceVars
<1> QED  BY <1>1, <1>2, <1>3, <1>4, <1>5 DEF Next, Main

\* The inductive invariant holds throughout.
THEOREM Inductive == Spec => []IInv
<1> QED  BY InitInv, NextInv, PTL DEF Spec

\* Every variable of the daemon keeps its type; no more handlers are connected
\* than there are (gdbus_connect_signal counts to num_signals).
THEOREM TypeCorrect == Spec => []TypeOK
<1>1. IInv => TypeOK
  BY DEF IInv
<1> QED  BY <1>1, Inductive, PTL

\* After init_modules every module has its instance, all handlers and its
\* export, or none of them, whichever probes have failed at whichever step.
THEOREM ProbedWhole == Spec => []ProbedAllOrNothing
<1>1. IInv => ProbedAllOrNothing
  BY DEF IInv, Process, ModuleOK, Settled, Done, New, ProbedAllOrNothing
<1> QED  BY <1>1, Inductive, PTL

\* The daemon gets its name only after start-up has finished (gdbus_get_name
\* follows init_modules and postinit), and while it is the owner and has not
\* left its loop, database, table, connection and modules are there.
THEOREM NamedWhenReady == Spec => []NameAfterModules
<1>1. IInv => NameAfterModules
  <2>1. IInv /\ name = "owned" => installed
    BY DEF IInv, Process, NameOK
  <2>2. IInv /\ pc \in {"run", "loop"} => db /\ table /\ bus /\ \A x \in modules : Whole(x)
    BY DEF IInv, Process, TypeOK, ServicesOK, ModuleOK, Settled, Done
  <2> QED  BY <2>1, <2>2 DEF NameAfterModules
<1> QED  BY <1>1, Inductive, PTL

\* A daemon that comes out of its main loop and exits has released everything.
THEOREM CleanExit == Spec => []ExitsClean
<1>1. IInv => ExitsClean
  BY DEF IInv, Process, TypeOK, ReleasedOK, Released, ModuleOK, New, ExitsClean
<1> QED  BY <1>1, Inductive, PTL

\* Only Dispatch answers a call, and it answers one.
LEMMA Answers ==
    ASSUME IInv, [Next]_vars, NEW k \in inbox, k.id \in answered' \ answered
    PROVE  pc = "loop" /\ handlers[k.module] # {}
<1>1. Dispatch
  BY DEF Next, Main, Environment, ParseArgs, Initialize, Connect, InitModules, Probe, ConnectSignal,
         Export, InstallHandler, GetName, RunLoop, LeaveLoop, ExitModules, PutConnection, UnrefLoop,
         Finalize, Exit, EndOfProcess, NameAcquired, Send, GrantName, ActivationFails, Restart, Sigterm, vars,
         clientVars, callVars
<1>2. PICK j \in inbox : handlers[j.module] # {} /\ answered' = answered \cup {j.id}
  BY <1>1 DEF Dispatch
<1>3. j = k
  BY <1>2 DEF IInv, CallsOK
<1> QED  BY <1>1, <1>2, <1>3 DEF Dispatch

\* Every call that is answered finds the database, the table and the connection
\* there, and its module with all its handlers.
THEOREM ServedSafely == Spec => ServedByServices
<1>1. ASSUME IInv, [Next]_vars, NEW k \in inbox, k.id \in answered' \ answered
      PROVE  db /\ table /\ bus /\ handlers[k.module] = All /\ k.module \in instance
  <2>1. pc = "loop" /\ handlers[k.module] # {} /\ k.module \in Modules
    BY <1>1, Answers DEF IInv, TypeOK
  <2> QED  BY <2>1, <1>1 DEF IInv, Process, ServicesOK, ModuleOK, Settled, Done, New, Whole, Bare
<1>2. IInv /\ [Next]_vars =>
         [\A k \in inbox : k.id \in answered' \ answered =>
             /\ db /\ table /\ bus
             /\ handlers[k.module] = All /\ k.module \in instance]_vars
  BY <1>1
<1> QED  BY <1>2, Inductive, PTL DEF Spec, ServedByServices

-----------------------------------------------------------------------------
(* The daemon is the service that AgentIpc is built from. *)

\* Rejecting calls is failing them.
LEMMA RejectFails ==
    ASSUME NEW gone \in SUBSET CallIds(inbox), Reject(gone), UNCHANGED answered
    PROVE  Bus!Fail(gone)
<1>1. CallIds(inbox)' = CallIds(inbox) \ gone
  BY DEF Reject, CallIds
<1> QED  BY <1>1 DEF Reject, Bus!Fail

\* A step that leaves calls and name alone is none of the service's.
LEMMA Stutters ==
    ASSUME UNCHANGED <<inbox, answered, failed>>, (name' = "owned") = (name = "owned")
    PROVE  UNCHANGED Bus!vars
  BY DEF Bus!vars, CallIds

\* The end of the process, however it comes about.
LEMMA EndReleases ==
    ASSUME name' = "none", Reject(IF name = "owned" THEN CallIds(inbox) ELSE {}), UNCHANGED answered
    PROVE  [Bus!Next]_(Bus!vars)
<1>1. CASE name = "owned"
  BY <1>1, RejectFails DEF Bus!Next, Bus!Release
<1>2. CASE name # "owned"
  BY <1>2, Stutters DEF Reject
<1> QED  BY <1>1, <1>2

\* The oldest call gets its answer or its error.
LEMMA DispatchAnswers ==
    ASSUME IInv, Dispatch
    PROVE  Bus!Next
<1>1. name = "owned" /\ UNCHANGED name
  BY DEF Dispatch
<1>2. PICK k \in inbox :
         /\ Oldest(k)
         /\ \/ inbox' = inbox \ {k} /\ answered' = answered \cup {k.id} /\ UNCHANGED failed
            \/ Reject({k.id}) /\ UNCHANGED answered
  BY DEF Dispatch
<1>3. k.id \in 1..MaxCalls /\ k.id \in CallIds(inbox) /\ Bus!First(k.id)
  <2>1. k.id \in 1..calls /\ calls \in 0..MaxCalls
    BY DEF IInv, TypeOK
  <2>2. k.id \in 1..MaxCalls
    BY <2>1, LifeBounds
  <2> QED  BY <1>2, <2>2 DEF Oldest, CallIds, Bus!First
<1>4. CASE inbox' = inbox \ {k} /\ answered' = answered \cup {k.id} /\ UNCHANGED failed
  <2>1. CallIds(inbox)' = CallIds(inbox) \ {k.id}
    BY <1>4 DEF IInv, CallsOK, CallIds
  <2>2. Bus!Answer(k.id)
    BY <1>1, <1>3, <1>4, <2>1 DEF Bus!Answer
  <2> QED  BY <1>3, <2>2 DEF Bus!Next
<1>5. CASE Reject({k.id}) /\ UNCHANGED answered
  <2>1. Bus!Reject(k.id)
    BY <1>1, <1>3, <1>5, RejectFails DEF Bus!Reject
  <2> QED  BY <1>3, <2>1 DEF Bus!Next
<1> QED  BY <1>2, <1>4, <1>5

\* A call that is made waits, or is refused by an owner without the interface.
LEMMA SendSends ==
    ASSUME IInv, Send
    PROVE  Bus!Next
<1> DEFINE k == calls + 1
<1>1. k \in 1..MaxCalls /\ \A j \in CallIds(inbox) \cup answered \cup failed : j < k
  <2>1. calls \in Nat /\ k \in 1..MaxCalls
    BY LifeBounds DEF IInv, TypeOK, Send
  <2>2. CallIds(inbox) \cup answered \cup failed \subseteq 1..calls
    BY DEF IInv, TypeOK, CallIds
  <2> QED  BY <2>1, <2>2
<1>2. UNCHANGED <<name, answered>>
  BY DEF Send
<1>3. PICK x \in Modules : \/ failed' = failed \cup {k} /\ UNCHANGED inbox
                           \/ inbox' = inbox \cup {[id |-> k, module |-> x]} /\ UNCHANGED failed
  BY DEF Send
<1>4. CASE failed' = failed \cup {k} /\ UNCHANGED inbox
  <2>1. Bus!Send(k)
    BY <1>1, <1>2, <1>4 DEF Bus!Send, CallIds
  <2> QED  BY <1>1, <2>1 DEF Bus!Next
<1>5. CASE inbox' = inbox \cup {[id |-> k, module |-> x]} /\ UNCHANGED failed
  <2>1. CallIds(inbox)' = CallIds(inbox) \cup {k}
    <3>1. [id |-> k, module |-> x].id = k
      OBVIOUS
    <3>2. \A r : r \in inbox' <=> r \in inbox \/ r = [id |-> k, module |-> x]
      BY <1>5
    <3> QED  BY <3>1, <3>2, Zenon DEF CallIds
  <2>2. Bus!Send(k)
    BY <1>1, <1>2, <1>5, <2>1 DEF Bus!Send
  <2> QED  BY <1>1, <2>2 DEF Bus!Next
<1> QED  BY <1>3, <1>4, <1>5

\* The steps of main that touch neither the calls nor their owner.
LEMMA MainStutters ==
    ASSUME IInv, Main, ~Finalize, ~Exit
    PROVE  UNCHANGED Bus!vars
<1>1. CASE GetName
  <2>1. name # "owned" /\ name' # "owned"
    BY <1>1 DEF IInv, Process, NameOK, Leaving, GetName
  <2> QED  BY <1>1, <2>1, Stutters DEF GetName, callVars
<1>2. CASE ParseArgs \/ Initialize \/ Connect \/ InitModules \/ Probe \/ ConnectSignal \/ Export
  BY <1>2, Stutters DEF ParseArgs, Initialize, Connect, InitModules, Probe, ConnectSignal, Export,
                        clientVars, callVars
<1>3. CASE InstallHandler \/ RunLoop \/ LeaveLoop \/ ExitModules \/ PutConnection \/ UnrefLoop
  BY <1>3, Stutters DEF InstallHandler, RunLoop, LeaveLoop, ExitModules, PutConnection, UnrefLoop,
                        clientVars, callVars
<1> QED  BY <1>1, <1>2, <1>3 DEF Main

\* Every step of the daemon is a step of the service, or none.
LEMMA NextImplements == IInv /\ [Next]_vars => [Bus!Next]_(Bus!vars)
<1> SUFFICES ASSUME IInv, [Next]_vars PROVE [Bus!Next]_(Bus!vars)
  OBVIOUS
<1>1. CASE Main
  <2>1. CASE Finalize
    BY <2>1, EndReleases, Stutters DEF Finalize, EndOfProcess, clientVars, callVars
  <2>2. CASE Exit
    BY <2>2, EndReleases DEF Exit, EndOfProcess
  <2> QED  BY <1>1, <2>1, <2>2, MainStutters
<1>2. CASE Dispatch
  BY <1>2, DispatchAnswers
<1>3. CASE NameAcquired
  BY <1>3, Stutters DEF NameAcquired, callVars
<1>4. CASE Send
  BY <1>4, SendSends
<1>5. CASE GrantName
  <2> DEFINE gone == CallIds({k \in inbox : k.module \notin exported})
  <2>1. gone \in SUBSET CallIds(inbox) /\ Bus!Fail(gone)
    <3>1. gone \in SUBSET CallIds(inbox)
      BY DEF CallIds
    <3>2. Reject(gone) /\ UNCHANGED answered
      BY <1>5 DEF GrantName
    <3> HIDE DEF gone
    <3> QED  BY <3>1, <3>2, RejectFails
  <2> HIDE DEF gone
  <2>2. Bus!Acquire(gone)
    BY <1>5, <2>1 DEF GrantName, Bus!Acquire
  <2> QED  BY <2>1, <2>2 DEF Bus!Next
<1>6. CASE ActivationFails
  BY <1>6, RejectFails DEF ActivationFails, Bus!Next, Bus!Unreachable
<1>7. CASE Restart
  BY <1>7, Stutters DEF Restart, callVars
<1>8. CASE Sigterm
  <2>1. CASE UNCHANGED <<pc, name, callVars>>
    BY <2>1, Stutters DEF callVars
  <2>2. CASE /\ name' = "none" /\ UNCHANGED answered
             /\ Reject(IF name = "owned" THEN CallIds(inbox) ELSE {})
    BY <2>2, EndReleases
  <2> QED  BY <1>8, <2>1, <2>2 DEF Sigterm
<1>9. CASE UNCHANGED vars
  BY <1>9, Stutters DEF vars
<1> QED  BY <1>1, <1>2, <1>3, <1>4, <1>5, <1>6, <1>7, <1>8, <1>9 DEF Next, Environment

\* One process of the daemon after the other is the service that AgentIpc takes
\* it to be: calls are held, answered once and in order, or fail with the owner.
THEOREM IsBusService == Spec => ImplementsBusService
<1>1. Init => Bus!Init
  BY DEF Init, Bus!Init, CallIds
<1> QED  BY <1>1, NextImplements, Inductive, PTL DEF Spec, ImplementsBusService, Bus!Spec
=============================================================================
