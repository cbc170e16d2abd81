-------------------------- MODULE AndroidAgentProofs --------------------------
(***************************************************************************)
(* For any threads, cells, names and descriptions: the library has both    *)
(* parts or none, and what a thread launches is not older than what it was *)
(* told has been written.                                                  *)
(*                                                                         *)
(* A step of the composition is a step, or none, of ServiceDB and of       *)
(* MlopsNode, so their inductive invariants hold here too.  To these the   *)
(* composition adds how far the two parts are up (LifeOK, DownOK), which   *)
(* statement belongs to which call (CallOK) and what the histories say of  *)
(* the calls under way (HistOK).  The last part, what the table of         *)
(* descriptions and the answers show of the histories (RowsOK, ReadOK),    *)
(* needs the faults to leave no transaction open.                          *)
(***************************************************************************)
EXTENDS AndroidAgent, FiniteSetTheorems, TLAPS

DBP == INSTANCE ServiceDBProofs WITH
          Callers <- Threads, Paths <- {}, Apps <- {}, pc <- dbpc, ret <- dbret,
          Ops <- {"set_pipeline", "get_pipeline", "delete_pipeline"},
          GintMax <- 1, MaxVersion <- 1, MaxRowid <- 1, MaxCrashes <- 0

NodeP == INSTANCE MlopsNodeProofs

Components == DBP!IInv /\ NodeP!IInv

Lives == {"down", "opened", "up", "failed", "closing", "aborted"}

OwnTypes ==
    /\ life \in Lives
    /\ target \in [Threads -> Names \cup {Empty}]
    /\ runs \in [Nodes -> Descs \cup {NoDesc}]
    /\ hist \in [Names -> Seq(Descs \cup {NoDesc})]
    /\ acked \in [Threads -> [Names -> Nat]]
    /\ mine \in [Threads -> Nat]

\* How far the two parts are up.
LifeOK ==
    /\ life = "down" => ~up /\ conn = "closed"
    /\ life \in {"opened", "up"} => conn = "open"
    /\ life \in {"up", "failed"} => up
    /\ life = "closing" /\ up => \E t \in Threads : pc[t] = "finalize"
    /\ \A t \in Threads : pc[t] = "finalize" => life = "closing"

\* Without a table nobody but the thread that destroyed it is in a call.
DownOK == ~up =>
    /\ \A i \in Node!Ids : table[i] = NoNode
    /\ \A t \in Threads : /\ pc[t] \in {"idle", "free", "unref"}
                          /\ pc[t] # "idle" => op[t].kind = "finalize"

\* The statement t runs next belongs to the call it is in.
CallOK(t) ==
    /\ req[t].op \in {"none", "get_pipeline"} \cup Setters
    /\ (dbpc[t] = "idle") = (req[t].op = "none")
    /\ req[t].op = "none" => req[t] = DB!NoReq
    /\ req[t].op = "set_pipeline" => dbpc[t] \in {"begin", "insert", "end"}
    /\ req[t].op = "delete_pipeline" => dbpc[t] \in {"delete", "changes"}
    /\ req[t].op = "get_pipeline" =>
          dbpc[t] = "select" /\ pc[t] = "parse" /\ target[t] = req[t].name
    /\ req[t].op \in Setters => pc[t] = "idle" /\ req[t].name \in Names
    /\ req[t].op = "set_pipeline" => req[t].desc \in Descs
    /\ pc[t] = "parse" => target[t] \in Names /\ ret[t] = "none"

\* The answer mlops_node_create launches from.
AnswerOK(t) ==
    pc[t] = "parse" /\ dbpc[t] = "idle" /\ dbret[t].code = "OK" =>
        dbret[t].rows # {} /\ \A r \in dbret[t].rows : r.desc \in Descs

\* The call of t has not written yet, or its entry is the one in mine[t].
MineOK(t) ==
    /\ dbpc[t] \in {"begin", "insert", "delete"} => mine[t] = 0
    /\ dbpc[t] \in {"end", "changes"} => mine[t] \in DOMAIN hist[req[t].name]

Pending(s) == {u \in Threads : /\ dbpc[u] \in {"begin", "insert", "delete"}
                               /\ req[u].name = s}

HistOK ==
    /\ \A t \in Threads : MineOK(t) /\ mine[t] <= MaxSets + 1
    /\ \A t \in Threads : \A s \in Names : acked[t][s] \in DOMAIN hist[s]
    /\ \A s \in Names : Len(hist[s]) + Cardinality(Pending(s)) <= MaxSets + 1

IInv ==
    /\ Components /\ OwnTypes /\ LifeOK /\ DownOK /\ HistOK
    /\ \A t \in Threads : CallOK(t) /\ AnswerOK(t)

\* No transaction is open that nobody will end.
Owned == intx => \E t \in Threads : dbpc[t] \in {"insert", "end"}

Latest(s) == hist[s][Len(hist[s])]

RowsOf(s) == IF Latest(s) = NoDesc THEN {} ELSE {[name |-> s, desc |-> Latest(s)]}

RowsOK == \A s \in Names : DB!Named(work.pipelines, s) = RowsOf(s)

Answered(t) ==
    IF dbret[t].code = "OK" THEN (CHOOSE r \in dbret[t].rows : TRUE).desc ELSE NoDesc

ReadOK(t) ==
    pc[t] = "parse" /\ dbpc[t] = "idle" =>
        \E i \in acked[t][target[t]]..Len(hist[target[t]]) : hist[target[t]][i] = Answered(t)

ReadInv == IInv /\ Owned /\ RowsOK /\ \A t \in Threads : ReadOK(t)

-----------------------------------------------------------------------------
(* The components. *)

\* The assumptions of the two components, for the constants they have here.
LEMMA ComponentConstants ==
    /\ DBP!BoundsAssumption /\ DBP!ValuesAssumption /\ DBP!RollbackAssumption
    /\ NodeP!NodeBounds /\ NodeP!NodeModes /\ NodeP!NodeNulls
<1>1. DBP!BoundsAssumption
  BY AndroidBounds, AndroidFaults DEF DBP!BoundsAssumption, DBP!AllFaults, DB!AllFaults
<1>2. DBP!ValuesAssumption /\ DBP!RollbackAssumption
  BY AndroidNulls, AndroidFaults DEF DBP!ValuesAssumption, DBP!RollbackAssumption
<1>3. NodeP!NodeBounds /\ NodeP!NodeModes /\ NodeP!NodeNulls
  BY AndroidBounds, AndroidModes, AndroidNulls
     DEF NodeP!NodeBounds, NodeP!NodeModes, NodeP!NodeNulls
<1> QED  BY <1>1, <1>2, <1>3

\* A statement is one of the three operations on pipelines.
LEMMA PipelineStatement ==
    ASSUME NEW t \in Threads, CallOK(t), DB!Step(t)
    PROVE  DB!SetPipeline(t) \/ DB!GetPipeline(t) \/ DB!DeletePipeline(t)
  BY DEF CallOK, Setters, DB!Step, DB!SetPipeline, DB!GetPipeline, DB!DeletePipeline,
         DB!SetModel, DB!UpdateDescription, DB!ActivateModel, DB!GetModel, DB!DeleteModel,
         DB!SetResource, DB!GetResource, DB!DeleteResource

\* The database of the library takes the steps ServiceDBProofs is about.
LEMMA DatabaseSteps ==
    /\ \A t : DB!SetPipeline(t) => DBP!SetPipeline(t)
    /\ \A t : DB!GetPipeline(t) => DBP!GetPipeline(t)
    /\ \A t : DB!DeletePipeline(t) => DBP!DeletePipeline(t)
    /\ \A t : DB!Call(t) => DBP!Call(t)
    /\ DB!Initialize => DBP!Initialize
    /\ DB!Finalize => DBP!Finalize
    /\ DB!Init => DBP!Init
<1> USE DEF DB!Works, DBP!Works, DB!Fails, DBP!Fails, DB!Goto, DBP!Goto, DB!Return, DBP!Return,
            DB!store, DBP!store, DB!Named, DBP!Named, DB!NoReq, DBP!NoReq, DB!NoRow, DBP!NoRow,
            DB!Answer, DBP!Answer, DB!NoAnswer, DBP!NoAnswer, DB!Ok, DBP!Ok,
            DB!EINVAL, DBP!EINVAL, DB!EIO, DBP!EIO
<1>1. \A t, label : DB!Begin(t, label) => DBP!Begin(t, label)
  BY DEF DB!Begin, DBP!Begin, DB!BeginTransaction, DBP!BeginTransaction, DB!CanBegin, DBP!CanBegin
<1>2. \A t, a : DB!End(t, a) => DBP!End(t, a)
  BY DEF DB!End, DBP!End, DB!EndTransaction, DBP!EndTransaction, DB!CanEnd, DBP!CanEnd,
         DB!AutoRollback, DBP!AutoRollback
<1>3. \A t, a, b, c, d : DB!Write(t, a, b, c, d) => DBP!Write(t, a, b, c, d)
  BY DEF DB!Write, DBP!Write, DB!Execute, DBP!Execute, DB!AutoRollback, DBP!AutoRollback
<1>4. \A t : DB!SetPipeline(t) => DBP!SetPipeline(t)
  BY <1>1, <1>2, <1>3 DEF DB!SetPipeline, DBP!SetPipeline
<1>5. \A t : DB!GetPipeline(t) => DBP!GetPipeline(t)
  BY DEF DB!GetPipeline, DBP!GetPipeline, DB!Select, DBP!Select
<1>6. \A t : DB!DeletePipeline(t) => DBP!DeletePipeline(t)
  BY <1>3 DEF DB!DeletePipeline, DBP!DeletePipeline, DB!Changes, DBP!Changes
<1>7. \A t : DB!Call(t) => DBP!Call(t)
  BY DEF DB!Call, DBP!Call, DB!Room, DBP!Room, DB!Requests, DBP!Requests, DB!UintMax, DBP!UintMax,
         DB!ValidArgs, DBP!ValidArgs, DB!Entry, DBP!Entry, DB!Versions, DBP!Versions,
         DB!Rowids, DBP!Rowids
<1>8. (DB!Initialize => DBP!Initialize) /\ (DB!Finalize => DBP!Finalize)
  BY DEF DB!Initialize, DBP!Initialize, DB!Finalize, DBP!Finalize, DB!Idle, DBP!Idle,
         DB!Disconnect, DBP!Disconnect
<1>9. DB!Init => DBP!Init
  BY DEF DB!Init, DBP!Init, DB!NoTables, DBP!NoTables
<1> QED  BY <1>4, <1>5, <1>6, <1>7, <1>8, <1>9

\* The node table of the library takes the steps MlopsNodeProofs is about.
LEMMA TableSteps ==
    /\ \A t : Node!Step(t) => NodeP!Step(t)
    /\ \A t : Node!Launch(t) => NodeP!Launch(t)
    /\ \A t : Node!UseId(t) => NodeP!UseId(t)
    /\ \A t : Node!Finalize(t) => NodeP!Finalize(t)
    /\ Node!Initialize => NodeP!Initialize
    /\ Node!Tick => NodeP!Tick
    /\ Node!Init => NodeP!Init
<1> USE DEF Node!Goto, NodeP!Goto, Node!Return, NodeP!Return, Node!NoOp, NodeP!NoOp,
            Node!UseAfterFree, NodeP!UseAfterFree, Node!TakeTable, NodeP!TakeTable,
            Node!Live, NodeP!Live, Node!Ids, NodeP!Ids
<1>1. \A t : Node!Lookup(t) => NodeP!Lookup(t)
  BY DEF Node!Lookup, NodeP!Lookup
<1>2. \A t : Node!LockNode(t) => NodeP!LockNode(t)
  BY DEF Node!LockNode, NodeP!LockNode
<1>3. \A t : Node!SetState(t) => NodeP!SetState(t)
  BY DEF Node!SetState, NodeP!SetState, Node!Target, NodeP!Target
<1>4. \A t : Node!Parse(t) => NodeP!Parse(t)
  BY DEF Node!Parse, NodeP!Parse, Node!Stamp, NodeP!Stamp
<1>5. \A t : Node!Insert(t) => NodeP!Insert(t)
  BY DEF Node!Insert, NodeP!Insert
<1>6. \A t : Node!ReadId(t) => NodeP!ReadId(t)
  BY DEF Node!ReadId, NodeP!ReadId
<1>7. \A t : Node!Remove(t) => NodeP!Remove(t)
  BY DEF Node!Remove, NodeP!Remove
<1>8. \A t : Node!DestroyTable(t) => NodeP!DestroyTable(t)
  BY DEF Node!DestroyTable, NodeP!DestroyTable
<1>9. \A t : Node!Free(t) => NodeP!Free(t)
  BY DEF Node!Free, NodeP!Free
<1>10. \A t : Node!Unref(t) => NodeP!Unref(t)
  BY DEF Node!Unref, NodeP!Unref, Node!Freed, NodeP!Freed, Node!Unused, NodeP!Unused
<1>11. \A t : Node!Step(t) => NodeP!Step(t)
  BY <1>1, <1>2, <1>3, <1>4, <1>5, <1>6, <1>7, <1>8, <1>9, <1>10 DEF Node!Step, NodeP!Step
<1> USE DEF Node!Call, NodeP!Call, Node!Serving, NodeP!Serving, Node!Idle, NodeP!Idle
<1>12. \A t : /\ Node!Launch(t) => NodeP!Launch(t)
              /\ Node!UseId(t) => NodeP!UseId(t)
              /\ Node!Finalize(t) => NodeP!Finalize(t)
  BY DEF Node!Launch, NodeP!Launch, Node!UseId, NodeP!UseId, Node!Finalize, NodeP!Finalize
<1>13. (Node!Initialize => NodeP!Initialize) /\ (Node!Tick => NodeP!Tick)
  BY DEF Node!Initialize, NodeP!Initialize, Node!Tick, NodeP!Tick
<1>14. Node!Init => NodeP!Init
  BY DEF Node!Init, NodeP!Init, Node!Unused, NodeP!Unused
<1> QED  BY <1>11, <1>12, <1>13, <1>14

\* The types of the components are part of their invariants.
LEMMA ComponentTypes == Components => DB!TypeOK /\ Node!TypeOK
<1>1. DBP!IInv => DB!TypeOK
  BY DEF DBP!IInv, DBP!StoreOK, DBP!Typed, DB!TypeOK, DBP!Tables, DB!Tables,
         DBP!ModelRow, DB!ModelRow, DBP!PipelineRow, DB!PipelineRow,
         DBP!ResourceRow, DB!ResourceRow, DBP!Labels, DB!Labels, DBP!Requests, DB!Requests,
         DBP!UintMax, DB!UintMax, DBP!NoReq, DB!NoReq, DBP!Codes, DB!Codes, DBP!NoRow, DB!NoRow
<1>2. NodeP!IInv => Node!TypeOK
  BY DEF NodeP!IInv, NodeP!TypeOK, Node!TypeOK, NodeP!Ids, Node!Ids, NodeP!Cells, Node!Cells,
         NodeP!GstStates, Node!GstStates, NodeP!Sections, Node!Sections,
         NodeP!Operations, Node!Operations
<1> QED  BY <1>1, <1>2 DEF Components

LEMMA ComponentsInit == Init => Components
<1>1. Init => DBP!IInv
  BY DatabaseSteps, DBP!InitInv, ComponentConstants DEF Init
<1>2. Init => NodeP!IInv
  BY TableSteps, NodeP!InitInv, ComponentConstants DEF Init
<1> QED  BY <1>1, <1>2 DEF Components

\* A step of the library is at most one step of each component.
LEMMA ComponentsNext ==
    ASSUME Components, \A t \in Threads : CallOK(t), [Next]_vars
    PROVE  Components'
<1>1. [DBP!Next]_(DBP!vars)
  <2> USE DatabaseSteps DEF DBP!Next
  <2>1. CASE OpenDatabase \/ CloseDatabase
    BY <2>1 DEF OpenDatabase, CloseDatabase
  <2>2. ASSUME NEW t \in Threads, ChangeDescription(t) \/ Launch(t) PROVE DBP!Next
    BY <2>2 DEF ChangeDescription, Launch
  <2>3. ASSUME NEW t \in Threads, Statement(t) PROVE DBP!Next
    BY <2>3, PipelineStatement DEF Statement, DBP!Step
  <2>4. CASE UNCHANGED dbVars
    BY <2>4 DEF dbVars, DBP!vars
  <2> QED  BY <2>1, <2>2, <2>3, <2>4
           DEF Next, vars, OpenTable, Tick, CloseTable, Parse, UsePipeline, NodeStep
<1>2. [NodeP!Next]_(NodeP!vars)
  <2> USE TableSteps DEF NodeP!Next
  <2>1. CASE UNCHANGED nodeVars
    BY <2>1 DEF nodeVars, NodeP!vars
  <2>2. CASE Next /\ (OpenTable \/ Tick)
    BY <2>2 DEF OpenTable, Tick, Next
  <2>3. ASSUME Next, NEW t \in Threads, Launch(t) \/ UsePipeline(t) PROVE NodeP!Next
    BY <2>3 DEF Launch, UsePipeline, Next
  <2>5. ASSUME Next, NEW t \in Threads, CloseTable(t) PROVE NodeP!Next \/ UNCHANGED nodeVars
    BY <2>5 DEF CloseTable, Next
  <2>4. ASSUME Next, NEW t \in Threads, Parse(t) \/ NodeStep(t) PROVE NodeP!Next
    BY <2>4 DEF Parse, NodeStep, Next, Node!Step, nodeVars
  <2> QED  BY <2>1, <2>2, <2>3, <2>4, <2>5
           DEF Next, vars, OpenDatabase, CloseDatabase, ChangeDescription, Statement
<1> QED  BY <1>1, <1>2, DBP!NextInv, NodeP!NextInv, ComponentConstants DEF Components

-----------------------------------------------------------------------------
(* What a step of a thread does. *)

\* t goes on to another section of its call, or to another call, but to no launch.
Moves(t) ==
    /\ pc'[t] # "parse"
    /\ \A s \in Threads \ {t} : pc'[s] = pc[s] /\ ret'[s] = ret[s] /\ op'[s] = op[s]

LEMMA NodeMoves ==
    ASSUME Components, NEW t \in Threads,
           CloseTable(t) \/ UsePipeline(t) \/ Parse(t) \/ NodeStep(t)
    PROVE  Moves(t) /\ dbpc[t] = "idle"
<1>1. Node!TypeOK
  BY ComponentTypes
<1>2. CASE CloseTable(t) \/ UsePipeline(t)
  <2>1. CASE UNCHANGED nodeVars /\ AllIdle
    BY <2>1 DEF Moves, nodeVars, AllIdle, Idle
  <2>2. CASE (Node!Finalize(t) /\ AllIdle) \/ UsePipeline(t)
    BY <1>1, <2>2 DEF Moves, UsePipeline, AllIdle, Idle, Node!TypeOK, Node!Finalize,
                      Node!UseId, Node!Call
  <2> QED  BY <1>2, <2>1, <2>2 DEF CloseTable
<1>3. CASE Parse(t)
  BY <1>1, <1>3 DEF Moves, Parse, Node!TypeOK, Node!Parse, Node!Return, Node!Goto
<1>4. CASE NodeStep(t)
  <2> USE <1>1, <1>4 DEF Moves, NodeStep, Node!TypeOK, Node!Return, Node!Goto, Node!UseAfterFree
  <2>1. CASE Node!Lookup(t) \/ Node!LockNode(t) \/ Node!SetState(t)
    BY <2>1 DEF Node!Lookup, Node!LockNode, Node!SetState
  <2>2. CASE Node!Insert(t) \/ Node!ReadId(t) \/ Node!Remove(t)
    BY <2>2 DEF Node!Insert, Node!ReadId, Node!Remove
  <2>3. CASE Node!DestroyTable(t) \/ Node!Free(t) \/ Node!Unref(t)
    BY <2>3 DEF Node!DestroyTable, Node!Free, Node!Unref
  <2>4. ~Node!Parse(t)
    BY DEF Node!Parse
  <2> QED  BY <2>1, <2>2, <2>3, <2>4 DEF Node!Step
<1> QED  BY <1>2, <1>3, <1>4

\* t calls the database with the request r.
Requests(t, r) ==
    /\ dbpc' = [dbpc EXCEPT ![t] = DB!Entry(r.op)]
    /\ req' = [req EXCEPT ![t] = r]
    /\ r.name \in Names
    /\ r.op = "set_pipeline" => r.desc \in Descs

LEMMA CallRequests ==
    ASSUME Components, NEW t \in Threads, CallOK(t), dbpc[t] = "idle", DB!Call(t),
           req'[t].op # "none"
    PROVE  \E r : Requests(t, r) /\ r.op = req'[t].op /\ r.name = req'[t].name
<1>1. DB!TypeOK
  BY ComponentTypes
<1>2. PICK r \in DB!Requests :
           /\ DB!ValidArgs(r)
           /\ dbpc' = [dbpc EXCEPT ![t] = DB!Entry(r.op)]
           /\ req' = [req EXCEPT ![t] = r]
  BY DEF DB!Call, CallOK
<1>3. r.name \in Names /\ (r.op = "set_pipeline" => r.desc \in Descs)
  BY <1>2 DEF DB!Requests, DB!ValidArgs
<1>4. req'[t] = r
  BY <1>1, <1>2 DEF DB!TypeOK
<1> QED  BY <1>2, <1>3, <1>4 DEF Requests

\* The BEGIN of a set works.
Opens(t) ==
    /\ dbpc[t] = "begin" /\ req[t].op = "set_pipeline"
    /\ DB!Goto(t, "insert")
    /\ intx' = TRUE
    /\ UNCHANGED <<work, histVars>>

\* What a set or delete leaves under its name.
Written(r) == IF r.op = "set_pipeline" THEN r.desc ELSE NoDesc

\* The INSERT or DELETE works.
Writes(t) ==
    LET s == req[t].name
        d == Written(req[t])
    IN  /\ \/ /\ dbpc[t] = "insert" /\ req[t].op = "set_pipeline"
              /\ DB!Goto(t, "end")
           \/ /\ dbpc[t] = "delete" /\ req[t].op = "delete_pipeline"
              /\ DB!Goto(t, "changes")
        /\ \A u \in Names : DB!Named(work'.pipelines, u) =
              IF u # s THEN DB!Named(work.pipelines, u)
              ELSE IF req[t].op = "set_pipeline" THEN {[name |-> s, desc |-> d]} ELSE {}
        /\ intx' = intx
        /\ hist' = [hist EXCEPT ![s] = Append(@, d)]
        /\ mine' = [mine EXCEPT ![t] = Len(hist[s]) + 1]
        /\ acked' = acked

\* The call returns a.
Answers(t, a) ==
    LET told == req[t].op \in Setters /\ a.code = "OK"
    IN  /\ DB!Return(t, a)
        /\ req[t].op # "none"
        /\ told => dbpc[t] \in {"end", "changes"}
        /\ acked' = IF told THEN [acked EXCEPT ![t][req[t].name] = mine[t]] ELSE acked
        /\ req[t].op = "get_pipeline" /\ a.code = "OK" =>
              a.rows = DB!Named(work.pipelines, req[t].name) /\ a.rows # {}
        /\ UNCHANGED <<hist, mine>>

LEMMA StatementEffect ==
    ASSUME Components, NEW t \in Threads, CallOK(t), Statement(t)
    PROVE  Opens(t) \/ Writes(t) \/ \E a : Answers(t, a)
<1>1. DB!TypeOK
  BY ComponentTypes
<1>2. work \in DB!Tables /\ dbpc \in [Threads -> DB!Labels]
  BY <1>1 DEF DB!TypeOK
<1>3. DB!SetPipeline(t) \/ DB!GetPipeline(t) \/ DB!DeletePipeline(t)
  BY PipelineStatement DEF Statement
<1> DEFINE r == req[t]
           told == r.op \in Setters /\ dbpc'[t] = "idle" /\ dbret'[t].code = "OK"
<1>4. /\ dbpc[t] \in {"insert", "delete"} /\ dbpc'[t] # "idle" =>
            /\ hist' = [hist EXCEPT ![r.name] = Append(@, Written(r))]
            /\ mine' = [mine EXCEPT ![t] = Len(hist[r.name]) + 1]
      /\ ~(dbpc[t] \in {"insert", "delete"} /\ dbpc'[t] # "idle") => UNCHANGED <<hist, mine>>
      /\ acked' = IF told THEN [acked EXCEPT ![t][r.name] = mine[t]] ELSE acked
  BY DEF Statement, Written
<1>5. ASSUME NEW a, DB!Return(t, a) PROVE dbpc'[t] = "idle" /\ dbret'[t] = a
  BY <1>1, <1>5 DEF DB!TypeOK, DB!Return
<1>6. ASSUME NEW l, DB!Goto(t, l) PROVE dbpc'[t] = l
  BY <1>2, <1>6 DEF DB!Goto
<1>7. \A a : /\ DB!Return(t, a) /\ r.op # "none"
             /\ r.op \in Setters /\ a.code = "OK" => dbpc[t] \in {"end", "changes"}
             /\ r.op = "get_pipeline" /\ a.code = "OK" =>
                   a.rows = DB!Named(work.pipelines, r.name) /\ a.rows # {}
             => Answers(t, a)
  BY <1>4, <1>5 DEF Answers
<1>8. DB!EIO.code # "OK" /\ DB!EINVAL.code # "OK" /\ DB!Ok.code = "OK"
  BY DEF DB!EIO, DB!EINVAL, DB!Ok, DB!Answer
<1>9. CASE DB!SetPipeline(t)
  <2>1. CASE DB!Begin(t, "insert")
    <3>1. CASE DB!BeginTransaction /\ DB!Goto(t, "insert")
      BY <1>4, <1>6, <1>9, <2>1, <3>1
         DEF Opens, DB!SetPipeline, DB!Begin, DB!BeginTransaction, histVars
    <3>2. CASE DB!Return(t, DB!EIO)
      BY <1>7, <1>8, <1>9, <3>2 DEF DB!SetPipeline
    <3> QED  BY <2>1, <3>1, <3>2 DEF DB!Begin
  <2>2. CASE dbpc[t] = "insert" /\ DB!Return(t, DB!EIO)
    BY <1>7, <1>8, <1>9, <2>2 DEF DB!SetPipeline
  <2> DEFINE row == [name |-> r.name, desc |-> r.desc]
             t2 == [work EXCEPT !.pipelines =
                      (work.pipelines \ DB!Named(work.pipelines, r.name)) \cup {row}]
  <2>3. CASE dbpc[t] = "insert" /\ DB!Execute(t2) /\ DB!Goto(t, "end")
    <3>1. work'.pipelines = (work.pipelines \ DB!Named(work.pipelines, r.name)) \cup {row}
      BY <1>2, <2>3 DEF DB!Execute, DB!Tables
    <3>2. \A u \in Names : DB!Named(work'.pipelines, u) =
            IF u # r.name THEN DB!Named(work.pipelines, u) ELSE {row}
      BY <3>1 DEF DB!Named
    <3>3. row = [name |-> r.name, desc |-> Written(r)] /\ r.op = "set_pipeline"
      BY <1>9 DEF DB!SetPipeline, Written
    <3>4. intx' = intx /\ dbpc'[t] = "end"
      BY <1>6, <2>3 DEF DB!Execute
    <3>5. ~told /\ dbpc'[t] # "idle"
      BY <3>4
    <3> HIDE DEF row, told
    <3> QED  BY <1>4, <2>3, <3>2, <3>3, <3>4, <3>5 DEF Writes
  <2>4. CASE DB!End(t, DB!Ok)
    <3>1. dbpc[t] = "end" /\ (DB!Return(t, DB!Ok) \/ DB!Return(t, DB!EIO))
      BY <2>4 DEF DB!End
    <3>2. r.op = "set_pipeline"
      BY <1>9 DEF DB!SetPipeline
    <3> QED  BY <1>7, <1>8, <3>1, <3>2
  <2> QED  BY <1>9, <2>1, <2>2, <2>3, <2>4 DEF DB!SetPipeline, DB!Write
<1>10. CASE DB!GetPipeline(t)
  <2> DEFINE rows == DB!Named(work.pipelines, r.name)
  <2>1. \/ rows # {} /\ DB!Return(t, DB!Answer("OK", 0, rows))
        \/ DB!Return(t, DB!EINVAL)
    BY <1>10 DEF DB!GetPipeline, DB!Select
  <2>2. r.op = "get_pipeline" /\ DB!Answer("OK", 0, rows).rows = rows
    BY <1>10 DEF DB!GetPipeline, DB!Answer
  <2> HIDE DEF rows
  <2>3. CASE rows # {} /\ DB!Return(t, DB!Answer("OK", 0, rows))
    BY <1>7, <2>2, <2>3 DEF Setters, rows
  <2>4. CASE DB!Return(t, DB!EINVAL)
    BY <1>7, <1>8, <2>2, <2>4 DEF Setters
  <2> QED  BY <2>1, <2>3, <2>4
<1>11. CASE DB!DeletePipeline(t)
  <2> DEFINE rows == DB!Named(work.pipelines, r.name)
             t2 == [work EXCEPT !.pipelines = work.pipelines \ rows]
  <2>1. r.op = "delete_pipeline"
    BY <1>11 DEF DB!DeletePipeline
  <2>2. CASE dbpc[t] = "delete" /\ DB!Return(t, DB!EIO)
    BY <1>7, <1>8, <2>1, <2>2
  <2>3. CASE dbpc[t] = "delete" /\ DB!Execute(t2) /\ DB!Goto(t, "changes")
    <3>1. work'.pipelines = work.pipelines \ rows
      BY <1>2, <2>3 DEF DB!Execute, DB!Tables
    <3>2. \A u \in Names : DB!Named(work'.pipelines, u) =
            IF u # r.name THEN DB!Named(work.pipelines, u) ELSE {}
      BY <3>1 DEF DB!Named
    <3>3. intx' = intx /\ dbpc'[t] = "changes"
      BY <1>6, <2>3 DEF DB!Execute
    <3>4. ~told /\ dbpc'[t] # "idle"
      BY <3>3
    <3> HIDE DEF rows, told
    <3> QED  BY <1>4, <2>1, <2>3, <3>2, <3>3, <3>4 DEF Writes
  <2>4. CASE DB!Changes(t)
    <3>1. dbpc[t] = "changes" /\ (DB!Return(t, DB!Ok) \/ DB!Return(t, DB!EINVAL))
      BY <2>4 DEF DB!Changes
    <3> QED  BY <1>7, <1>8, <2>1, <3>1
  <2> QED  BY <1>11, <2>2, <2>3, <2>4 DEF DB!DeletePipeline, DB!Write
<1> QED  BY <1>3, <1>9, <1>10, <1>11

-----------------------------------------------------------------------------
(* The calls. *)

LEMMA IdleCall ==
    ASSUME NEW t \in Threads, CallOK(t), dbpc[t] = "idle"
    PROVE  req[t] = DB!NoReq /\ req[t].op = "none"
  BY DEF CallOK, DB!NoReq

\* What the next statement of another thread is, its call and its launch stay.
LEMMA OthersCall ==
    ASSUME NEW s \in Threads, CallOK(s),
           UNCHANGED <<dbpc[s], req[s], pc[s], ret[s], target[s]>>
    PROVE  CallOK(s)'
  BY DEF CallOK, Setters, DB!NoReq

\* A thread whose call on the database is over and that launches nothing.
LEMMA FreeCall ==
    ASSUME NEW t \in Threads, dbpc'[t] = "idle", req'[t] = DB!NoReq, pc'[t] # "parse"
    PROVE  CallOK(t)'
  BY DEF CallOK, Setters, DB!NoReq

LEMMA CallStep ==
    ASSUME Components, OwnTypes, \A t \in Threads : CallOK(t), [Next]_vars
    PROVE  \A t \in Threads : CallOK(t)'
<1>1. DB!TypeOK /\ Node!TypeOK
  BY ComponentTypes
<1>2. CASE UNCHANGED <<dbpc, req, pc, ret, target>>
  BY <1>2, OthersCall
<1>3. CASE OpenDatabase \/ CloseDatabase
  BY <1>2, <1>3 DEF OpenDatabase, CloseDatabase, DB!Initialize, DB!Finalize, nodeVars
<1>4. CASE OpenTable \/ Tick
  BY <1>2, <1>4 DEF OpenTable, Tick, Node!Initialize, Node!Tick, dbVars
<1>5. ASSUME NEW t \in Threads, CloseTable(t) \/ UsePipeline(t) \/ Parse(t) \/ NodeStep(t)
      PROVE  \A s \in Threads : CallOK(s)'
  <2>1. Moves(t) /\ dbpc[t] = "idle"
    BY <1>5, NodeMoves
  <2>2. UNCHANGED <<dbpc, req>> /\ \A s \in Threads \ {t} : target'[s] = target[s]
    BY <1>5 DEF CloseTable, UsePipeline, Parse, NodeStep, dbVars, OwnTypes
  <2>3. CallOK(t)'
    BY <2>1, <2>2, IdleCall, FreeCall DEF Moves
  <2>4. ASSUME NEW s \in Threads \ {t} PROVE CallOK(s)'
    BY <2>1, <2>2, OthersCall DEF Moves
  <2> QED  BY <2>3, <2>4
<1>6. ASSUME NEW t \in Threads, ChangeDescription(t) \/ Launch(t)
      PROVE  \A s \in Threads : CallOK(s)'
  <2>1. dbpc[t] = "idle" /\ pc[t] = "idle" /\ DB!Call(t)
    BY <1>6 DEF ChangeDescription, Launch, Idle
  <2>2. req'[t].op # "none"
    BY <1>6 DEF ChangeDescription, Launch, Setters
  <2>3. PICK r : Requests(t, r) /\ r.op = req'[t].op /\ r.name = req'[t].name
    BY <2>1, <2>2, CallRequests
  <2>4. dbpc'[t] = DB!Entry(r.op) /\ req'[t] = r
    BY <1>1, <2>3 DEF Requests, DB!TypeOK
  <2>5. CASE ChangeDescription(t)
    <3>1. r.op \in Setters /\ UNCHANGED <<pc, ret, target>>
      BY <2>3, <2>5 DEF ChangeDescription, nodeVars
    <3>2. CallOK(t)'
      BY <2>1, <2>3, <2>4, <3>1 DEF CallOK, Setters, DB!Entry, Requests
    <3>3. ASSUME NEW s \in Threads \ {t} PROVE CallOK(s)'
      BY <1>1, <2>3, <3>1, OthersCall DEF Requests, DB!TypeOK
    <3> QED  BY <3>2, <3>3
  <2>6. CASE Launch(t)
    <3>1. /\ r.op = "get_pipeline" /\ target' = [target EXCEPT ![t] = r.name]
          /\ pc'[t] = "parse" /\ ret'[t] = "none"
          /\ \A s \in Threads \ {t} : pc'[s] = pc[s] /\ ret'[s] = ret[s]
      BY <1>1, <2>3, <2>6 DEF Launch, Node!Launch, Node!Call, Node!TypeOK
    <3>2. CallOK(t)'
      BY <2>3, <2>4, <3>1 DEF CallOK, Setters, DB!Entry, Requests, OwnTypes
    <3>3. ASSUME NEW s \in Threads \ {t} PROVE CallOK(s)'
      BY <1>1, <2>3, <3>1, OthersCall DEF Requests, DB!TypeOK, OwnTypes
    <3> QED  BY <3>2, <3>3
  <2> QED  BY <1>6, <2>5, <2>6
<1>7. ASSUME NEW t \in Threads, Statement(t)
      PROVE  \A s \in Threads : CallOK(s)'
  <2>1. UNCHANGED <<pc, ret, target>>
    BY <1>7 DEF Statement, nodeVars
  <2>2. ASSUME NEW s \in Threads \ {t}, UNCHANGED <<dbpc[s], req[s]>> PROVE CallOK(s)'
    BY <2>1, <2>2, OthersCall
  <2>3. CASE Opens(t) \/ Writes(t)
    <3>1. /\ req' = req /\ \A s \in Threads \ {t} : dbpc'[s] = dbpc[s]
          /\ \/ req[t].op = "set_pipeline" /\ dbpc'[t] \in {"insert", "end"}
             \/ req[t].op = "delete_pipeline" /\ dbpc'[t] = "changes"
      BY <1>1, <2>3 DEF Opens, Writes, DB!Goto, DB!TypeOK
    <3>2. CallOK(t)'
      BY <2>1, <3>1 DEF CallOK, Setters
    <3> QED  BY <2>2, <3>1, <3>2
  <2>4. ASSUME NEW a, Answers(t, a) PROVE \A s \in Threads : CallOK(s)'
    <3>1. /\ dbpc'[t] = "idle" /\ req'[t] = DB!NoReq
          /\ \A s \in Threads \ {t} : dbpc'[s] = dbpc[s] /\ req'[s] = req[s]
      BY <1>1, <2>4 DEF Answers, DB!Return, DB!TypeOK
    <3>2. CallOK(t)'
      BY <2>1, <3>1 DEF CallOK, Setters, DB!NoReq
    <3> QED  BY <2>2, <3>1, <3>2
  <2> QED  BY <1>7, <2>3, <2>4, StatementEffect
<1> QED  BY <1>2, <1>3, <1>4, <1>5, <1>6, <1>7 DEF Next, vars, dbVars, nodeVars

\* What a get has answered is a row of the table.
LEMMA AnswerStep ==
    ASSUME Components, \A t \in Threads : CallOK(t) /\ AnswerOK(t), [Next]_vars
    PROVE  \A t \in Threads : AnswerOK(t)'
<1>1. DB!TypeOK /\ Node!TypeOK
  BY ComponentTypes
<1>2. ASSUME NEW t \in Threads, UNCHANGED <<pc[t], dbpc[t], dbret[t]>> PROVE AnswerOK(t)'
  BY <1>2 DEF AnswerOK
<1>3. CASE OpenDatabase \/ CloseDatabase
  BY <1>2, <1>3 DEF OpenDatabase, CloseDatabase, DB!Initialize, DB!Finalize, nodeVars
<1>4. CASE OpenTable \/ Tick
  BY <1>2, <1>4 DEF OpenTable, Tick, Node!Initialize, Node!Tick, dbVars
<1>5. ASSUME NEW t \in Threads, CloseTable(t) \/ UsePipeline(t) \/ Parse(t) \/ NodeStep(t)
      PROVE  \A s \in Threads : AnswerOK(s)'
  <2>1. Moves(t)
    BY <1>5, NodeMoves
  <2>2. UNCHANGED <<dbpc, dbret>>
    BY <1>5 DEF CloseTable, UsePipeline, Parse, NodeStep, dbVars
  <2> QED  BY <1>2, <2>1, <2>2 DEF Moves, AnswerOK
<1>6. ASSUME NEW t \in Threads, ChangeDescription(t) \/ Launch(t)
      PROVE  \A s \in Threads : AnswerOK(s)'
  <2>1. /\ \A s \in Threads \ {t} : /\ pc'[s] = pc[s] /\ dbpc'[s] = dbpc[s]
                                    /\ dbret'[s] = dbret[s]
        /\ dbpc[t] = "idle"
    BY <1>1, <1>6 DEF ChangeDescription, Launch, Idle, nodeVars, DB!Call, Node!Launch, Node!Call,
                      DB!TypeOK, Node!TypeOK
  <2>2. req'[t].op # "none"
    BY <1>6 DEF ChangeDescription, Launch, Setters
  <2>3. PICK r : Requests(t, r) /\ r.op = req'[t].op
    BY <1>6, <2>1, <2>2, CallRequests DEF ChangeDescription, Launch
  <2>4. r.op \in {"set_pipeline", "delete_pipeline", "get_pipeline"} /\ dbpc'[t] = DB!Entry(r.op)
    BY <1>1, <1>6, <2>3 DEF ChangeDescription, Launch, Setters, Requests, DB!TypeOK
  <2> QED  BY <1>2, <2>1, <2>4 DEF AnswerOK, DB!Entry
<1>7. ASSUME NEW t \in Threads, Statement(t)
      PROVE  \A s \in Threads : AnswerOK(s)'
  <2>1. pc' = pc
    BY <1>7 DEF Statement, nodeVars
  <2>2. CASE Opens(t) \/ Writes(t)
    <3>1. dbpc'[t] # "idle" /\ \A s \in Threads \ {t} : dbpc'[s] = dbpc[s] /\ dbret'[s] = dbret[s]
      BY <1>1, <2>2 DEF Opens, Writes, DB!Goto, DB!TypeOK
    <3> QED  BY <1>2, <2>1, <3>1 DEF AnswerOK
  <2>3. ASSUME NEW a, Answers(t, a) PROVE \A s \in Threads : AnswerOK(s)'
    <3>1. dbret'[t] = a /\ \A s \in Threads \ {t} : dbpc'[s] = dbpc[s] /\ dbret'[s] = dbret[s]
      BY <1>1, <2>3 DEF Answers, DB!Return, DB!TypeOK
    <3>2. \A r \in DB!Named(work.pipelines, req[t].name) : r.desc \in Descs
      BY <1>1 DEF DB!TypeOK, DB!Tables, DB!PipelineRow, DB!Named
    <3>3. pc[t] = "parse" => req[t].op = "get_pipeline"
      BY <2>3 DEF Answers, CallOK, Setters
    <3>4. AnswerOK(t)'
      BY <2>1, <2>3, <3>1, <3>2, <3>3 DEF Answers, AnswerOK
    <3> QED  BY <1>2, <2>1, <3>1, <3>4
  <2> QED  BY <1>7, <2>2, <2>3, StatementEffect
<1> QED  BY <1>2, <1>3, <1>4, <1>5, <1>6, <1>7 DEF Next, vars, dbVars, nodeVars

LEMMA TypesStep ==
    ASSUME Components, OwnTypes, \A t \in Threads : CallOK(t) /\ AnswerOK(t), [Next]_vars
    PROVE  OwnTypes'
<1>1. Node!TypeOK
  BY ComponentTypes
<1>2. CASE UNCHANGED <<target, runs, hist, acked, mine>> /\ life' \in Lives
  BY <1>2 DEF OwnTypes
<1>3. CASE OpenDatabase \/ CloseDatabase \/ OpenTable \/ Tick
  BY <1>2, <1>3 DEF OpenDatabase, CloseDatabase, OpenTable, Tick, histVars, OwnTypes, Lives
<1>4. ASSUME NEW t \in Threads, CloseTable(t) \/ UsePipeline(t) \/ NodeStep(t)
      PROVE  OwnTypes'
  BY <1>2, <1>4 DEF CloseTable, UsePipeline, NodeStep, histVars, OwnTypes, Lives
<1>5. ASSUME NEW t \in Threads, ChangeDescription(t) PROVE OwnTypes'
  BY <1>5 DEF ChangeDescription, OwnTypes
<1>6. ASSUME NEW t \in Threads, Launch(t) PROVE OwnTypes'
  <2>1. req'[t].name \in Names
    BY <1>6, CallRequests DEF Launch, Idle, Requests
  <2> QED  BY <1>6, <2>1 DEF Launch, OwnTypes, histVars
<1>7. ASSUME NEW t \in Threads, Parse(t) PROVE OwnTypes'
  <2>1. pc'[t] = "insert" => ret'[t] = "none"
    BY <1>1, <1>7 DEF Parse, Node!Parse, Node!Return, Node!TypeOK, CallOK
  <2>2. pc'[t] = "insert" => dbret[t].code = "OK"
    BY <1>7, <2>1 DEF Parse
  <2>3. pc'[t] = "insert" => (CHOOSE r \in dbret[t].rows : TRUE).desc \in Descs
    BY <1>7, <2>2 DEF Parse, AnswerOK
  <2>4. runs' \in [Nodes -> Descs \cup {NoDesc}]
    BY <1>7, <2>3 DEF Parse, OwnTypes
  <2> QED  BY <1>7, <2>4 DEF Parse, OwnTypes, histVars
<1>8. ASSUME NEW t \in Threads, Statement(t) PROVE OwnTypes'
  <2>1. UNCHANGED <<life, target, runs>>
    BY <1>8 DEF Statement
  <2>2. CASE Opens(t)
    BY <2>1, <2>2 DEF Opens, histVars, OwnTypes
  <2>3. CASE Writes(t)
    <3>1. req[t].name \in Names /\ Written(req[t]) \in Descs \cup {NoDesc}
      BY <2>3 DEF Writes, CallOK, Setters, Written
    <3>2. hist[req[t].name] \in Seq(Descs \cup {NoDesc})
      BY <3>1 DEF OwnTypes
    <3>3. /\ Append(hist[req[t].name], Written(req[t])) \in Seq(Descs \cup {NoDesc})
          /\ Len(hist[req[t].name]) + 1 \in Nat
      BY <3>1, <3>2
    <3> QED  BY <2>1, <2>3, <3>1, <3>3 DEF Writes, OwnTypes
  <2>4. ASSUME NEW a, Answers(t, a) PROVE OwnTypes'
    <3>1. req[t].op \in Setters => req[t].name \in Names /\ mine[t] \in Nat
      BY DEF CallOK, OwnTypes
    <3> QED  BY <2>1, <2>4, <3>1 DEF Answers, OwnTypes
  <2> QED  BY <1>8, <2>2, <2>3, <2>4, StatementEffect
<1> QED  BY <1>2, <1>3, <1>4, <1>5, <1>6, <1>7, <1>8 DEF Next, vars, histVars, OwnTypes

-----------------------------------------------------------------------------
(* The life of the library. *)

LEMMA NodeStepLife ==
    ASSUME Components, LifeOK, DownOK, NEW t \in Threads, NodeStep(t)
    PROVE  LifeOK' /\ DownOK'
<1>1. Node!TypeOK
  BY ComponentTypes
<1>2. Node!Step(t) /\ UNCHANGED <<life, conn>> /\ ~Node!Parse(t)
  BY DEF NodeStep, dbVars, Node!Parse
<1>3. CASE Node!DestroyTable(t)
  <2>1. op[t].kind = "finalize" /\ \A s \in Threads \ {t} : pc[s] = "idle"
    BY <1>3 DEF Components, NodeP!IInv, NodeP!AtSection, NodeP!LocksOK, NodeP!Alone,
                Node!DestroyTable
  <2>2. /\ ~up' /\ pc'[t] = "free" /\ op' = op
        /\ \A s \in Threads \ {t} : pc'[s] = pc[s]
        /\ \A i \in Node!Ids : table'[i] = NoNode
    BY <1>1, <1>3 DEF Node!DestroyTable, Node!Goto, Node!TypeOK
  <2>3. life = "closing"
    BY <1>3 DEF Node!DestroyTable, LifeOK
  <2> QED  BY <1>2, <2>1, <2>2, <2>3 DEF LifeOK, DownOK
<1>4. CASE ~Node!DestroyTable(t)
  <2>1. /\ up' = up /\ pc[t] # "finalize" /\ pc'[t] # "finalize"
        /\ \A s \in Threads \ {t} : pc'[s] = pc[s] /\ op'[s] = op[s]
    <3> USE <1>1, <1>2, <1>4 DEF Node!TypeOK, Node!Return, Node!Goto, Node!UseAfterFree
    <3>1. CASE Node!Lookup(t) \/ Node!LockNode(t) \/ Node!SetState(t)
      BY <3>1 DEF Node!Lookup, Node!LockNode, Node!SetState
    <3>2. CASE Node!Insert(t) \/ Node!ReadId(t) \/ Node!Remove(t)
      BY <3>2 DEF Node!Insert, Node!ReadId, Node!Remove
    <3>3. CASE Node!Free(t) \/ Node!Unref(t)
      BY <3>3 DEF Node!Free, Node!Unref
    <3> QED  BY <3>1, <3>2, <3>3 DEF Node!Step
  <2>2. LifeOK'
    BY <1>2, <2>1 DEF LifeOK
  <2>3. ASSUME ~up
        PROVE  /\ table' = table /\ pc'[t] \in {"idle", "free", "unref"}
               /\ pc'[t] # "idle" => op'[t].kind = "finalize"
    <3>1. pc[t] \in {"idle", "free", "unref"} /\ (pc[t] # "idle" => op[t].kind = "finalize")
      BY <2>3 DEF DownOK
    <3>2. Node!Free(t) \/ Node!Unref(t)
      BY <1>2, <1>4, <3>1 DEF Node!Step, Node!Lookup, Node!LockNode, Node!SetState, Node!Insert,
                              Node!ReadId, Node!Remove
    <3> QED  BY <1>1, <3>1, <3>2 DEF Node!Free, Node!Unref, Node!TypeOK, Node!Return, Node!Goto
  <2>4. DownOK'
    BY <2>1, <2>3 DEF DownOK, Node!Ids
  <2> QED  BY <2>2, <2>4
<1> QED  BY <1>3, <1>4

LEMMA LifeStep ==
    ASSUME Components, OwnTypes, LifeOK, DownOK, [Next]_vars
    PROVE  LifeOK' /\ DownOK'
<1>1. DB!TypeOK /\ Node!TypeOK
  BY ComponentTypes
<1>2. CASE OpenDatabase
  <2>1. nodeVars' = nodeVars /\ conn' \in {"open", "closed"} /\ \A t \in Threads : pc[t] = "idle"
    BY <1>2 DEF OpenDatabase, DB!Initialize, AllIdle, Idle
  <2> QED  BY <1>2, <2>1 DEF OpenDatabase, LifeOK, DownOK, nodeVars, Node!Ids
<1>3. CASE OpenTable
  BY <1>3 DEF OpenTable, Node!Initialize, Node!Idle, LifeOK, DownOK, dbVars
<1>4. CASE CloseDatabase
  <2>1. /\ nodeVars' = nodeVars /\ conn' = "closed" /\ life = "closing"
        /\ \A t \in Threads : pc[t] = "idle"
    BY <1>4 DEF CloseDatabase, DB!Finalize, AllIdle, Idle
  <2> QED  BY <1>4, <2>1 DEF CloseDatabase, LifeOK, DownOK, nodeVars, Node!Ids
<1>5. CASE Tick
  BY <1>5 DEF Tick, Node!Tick, LifeOK, DownOK, dbVars, Node!Ids
<1>6. ASSUME NEW t \in Threads, CloseTable(t) PROVE LifeOK' /\ DownOK'
  <2>1. CASE Node!Finalize(t) /\ life' = "closing"
    BY <1>1, <1>6, <2>1 DEF CloseTable, Node!Finalize, Node!Call, LifeOK, DownOK, dbVars,
                            Node!TypeOK
  <2>2. CASE life' = "aborted" /\ UNCHANGED nodeVars
    <3>1. \A s \in Threads : pc[s] = "idle"
      BY <1>6 DEF CloseTable, AllIdle, Idle
    <3> QED  BY <1>6, <2>2, <3>1 DEF CloseTable, LifeOK, DownOK, dbVars, nodeVars, Node!Ids
  <2> QED  BY <1>6, <2>1, <2>2 DEF CloseTable
<1>7. ASSUME NEW t \in Threads, ChangeDescription(t) \/ Statement(t) PROVE LifeOK' /\ DownOK'
  BY <1>7 DEF ChangeDescription, Statement, DB!Call, LifeOK, DownOK, nodeVars, Node!Ids
<1>8. ASSUME NEW t \in Threads, Launch(t) \/ UsePipeline(t) PROVE LifeOK' /\ DownOK'
  <2>1. /\ pc'[t] \in {"parse", "lookup"} /\ \A s \in Threads \ {t} : pc'[s] = pc[s]
        /\ pc[t] = "idle" /\ up /\ up' /\ UNCHANGED <<life, conn>>
    BY <1>1, <1>8 DEF Launch, UsePipeline, Idle, Node!Launch, Node!UseId, Node!Call, Node!Serving,
                      Node!TypeOK, DB!Call, dbVars
  <2> QED  BY <2>1 DEF LifeOK, DownOK
<1>9. ASSUME NEW t \in Threads, Parse(t) PROVE LifeOK' /\ DownOK'
  <2>1. /\ pc'[t] \in {"idle", "insert"} /\ \A s \in Threads \ {t} : pc'[s] = pc[s]
        /\ pc[t] = "parse" /\ UNCHANGED <<up, life, conn>>
    BY <1>1, <1>9 DEF Parse, Node!Parse, Node!Return, Node!Goto, Node!TypeOK, dbVars
  <2>2. up
    BY <2>1 DEF DownOK
  <2> QED  BY <2>1, <2>2 DEF LifeOK, DownOK
<1>10. ASSUME NEW t \in Threads, NodeStep(t) PROVE LifeOK' /\ DownOK'
  BY <1>10, NodeStepLife
<1>11. CASE UNCHANGED vars
  BY <1>11 DEF vars, dbVars, nodeVars, LifeOK, DownOK, Node!Ids
<1> QED  BY <1>2, <1>3, <1>4, <1>5, <1>6, <1>7, <1>8, <1>9, <1>10, <1>11 DEF Next

-----------------------------------------------------------------------------
(* The histories. *)

LEMMA PendingFinite ==
    ASSUME NEW s
    PROVE  /\ IsFiniteSet(Pending(s)) /\ Cardinality(Pending(s)) \in Nat
           /\ IsFiniteSet(Pending(s)') /\ Cardinality(Pending(s)') \in Nat
<1>1. Pending(s) \in SUBSET Threads /\ Pending(s)' \in SUBSET Threads
  BY DEF Pending
<1> QED  BY <1>1, AndroidThreads, FS_Subset, FS_CardinalityType

\* No call starts or writes.
LEMMA HistStays ==
    ASSUME OwnTypes, HistOK, UNCHANGED histVars,
           \A u \in Threads : dbpc'[u] \in {"begin", "insert", "delete", "end", "changes"} =>
              /\ req'[u] = req[u]
              /\ (dbpc'[u] \in {"end", "changes"}) = (dbpc[u] \in {"end", "changes"})
              /\ (dbpc'[u] \in {"begin", "insert", "delete"}) =
                    (dbpc[u] \in {"begin", "insert", "delete"})
    PROVE  HistOK'
<1>1. \A t \in Threads : MineOK(t)' /\ mine'[t] <= MaxSets + 1
  BY DEF HistOK, MineOK, histVars
<1>2. \A t \in Threads : \A s \in Names : acked'[t][s] \in DOMAIN hist'[s]
  BY DEF HistOK, histVars
<1>3. ASSUME NEW s \in Names
      PROVE  Len(hist'[s]) + Cardinality(Pending(s)') <= MaxSets + 1
  <2>1. Pending(s)' \in SUBSET Pending(s)
    BY DEF Pending
  <2>2. Cardinality(Pending(s)') <= Cardinality(Pending(s))
    BY <2>1, PendingFinite, FS_Subset
  <2>3. hist' = hist /\ Len(hist[s]) \in Nat
    BY DEF histVars, OwnTypes
  <2> QED  BY <2>2, <2>3, PendingFinite, AndroidBounds DEF HistOK
<1> QED  BY <1>1, <1>2, <1>3 DEF HistOK

\* The bound on changes leaves room for the call that starts.
LEMMA HistChange ==
    ASSUME Components, OwnTypes, HistOK, \A t \in Threads : CallOK(t),
           NEW t \in Threads, ChangeDescription(t)
    PROVE  HistOK'
<1>1. DB!TypeOK
  BY ComponentTypes
<1>2. PICK r : Requests(t, r) /\ r.op = req'[t].op /\ r.name = req'[t].name
  BY CallRequests DEF ChangeDescription, Idle, Setters
<1>3. /\ dbpc'[t] = DB!Entry(r.op) /\ req'[t] = r /\ r.op \in Setters
      /\ \A u \in Threads \ {t} : dbpc'[u] = dbpc[u] /\ req'[u] = req[u]
  BY <1>1, <1>2 DEF Requests, DB!TypeOK, ChangeDescription
<1>4. dbpc'[t] \in {"begin", "delete"} /\ r.name \in Names
  BY <1>2, <1>3 DEF DB!Entry, Setters, Requests
<1>5. hist' = hist /\ acked' = acked /\ mine' = [mine EXCEPT ![t] = 0]
  BY DEF ChangeDescription
<1>6. ASSUME NEW u \in Threads PROVE MineOK(u)' /\ mine'[u] <= MaxSets + 1
  <2>1. CASE u = t
    <3>1. mine'[u] = 0 /\ dbpc'[u] \notin {"end", "changes"}
      BY <1>4, <1>5, <2>1 DEF OwnTypes
    <3> QED  BY <3>1, AndroidBounds DEF MineOK
  <2>2. CASE u # t
    BY <1>3, <1>5, <2>2 DEF HistOK, MineOK, OwnTypes
  <2> QED  BY <2>1, <2>2
<1>7. \A u \in Threads : \A s \in Names : acked'[u][s] \in DOMAIN hist'[s]
  BY <1>5 DEF HistOK
<1>8. ASSUME NEW s \in Names
      PROVE  Len(hist'[s]) + Cardinality(Pending(s)') <= MaxSets + 1
  <2>1. CASE s = r.name
    <3> DEFINE all == {u \in Threads : req'[u].op \in Setters}
    <3>1. Len(hist[s]) + Cardinality(all) <= MaxSets + 1
      BY <1>3, <2>1 DEF ChangeDescription
    <3>2. Pending(s)' \in SUBSET all
      BY <1>3 DEF Pending, CallOK, Setters
    <3>3. IsFiniteSet(all)
      BY AndroidThreads, FS_Subset
    <3> HIDE DEF all
    <3>4. Cardinality(Pending(s)') <= Cardinality(all) /\ Cardinality(all) \in Nat
      BY <3>2, <3>3, FS_Subset, FS_CardinalityType
    <3>5. Len(hist[s]) \in Nat
      BY DEF OwnTypes
    <3> QED  BY <1>5, <3>1, <3>4, <3>5, PendingFinite, AndroidBounds
  <2>2. CASE s # r.name
    <3>1. Pending(s)' = Pending(s)
      <4>1. \A u \in Threads : u \in Pending(s)' <=> u \in Pending(s)
        BY <1>3, <2>2 DEF Pending, CallOK, ChangeDescription, Idle
      <4> QED  BY <4>1 DEF Pending
    <3> QED  BY <1>5, <3>1 DEF HistOK
  <2> QED  BY <2>1, <2>2
<1> QED  BY <1>6, <1>7, <1>8 DEF HistOK

\* What is written is one entry more, and one call less that may write.
LEMMA HistWrite ==
    ASSUME Components, OwnTypes, HistOK, \A t \in Threads : CallOK(t),
           NEW t \in Threads, Writes(t)
    PROVE  HistOK'
<1>1. DB!TypeOK
  BY ComponentTypes
<1> PICK n \in Names : n = req[t].name
  BY DEF Writes, CallOK, Setters
<1>2. hist[n] \in Seq(Descs \cup {NoDesc}) /\ Written(req[t]) \in Descs \cup {NoDesc}
  BY DEF Writes, CallOK, Setters, OwnTypes, Written
<1>3. /\ dbpc[t] \in {"insert", "delete"} /\ dbpc'[t] \in {"end", "changes"} /\ req' = req
      /\ \A u \in Threads \ {t} : dbpc'[u] = dbpc[u]
  BY <1>1 DEF Writes, DB!Goto, DB!TypeOK
<1>4. /\ Len(hist'[n]) = Len(hist[n]) + 1 /\ Len(hist[n]) \in Nat
      /\ DOMAIN hist'[n] = 1..Len(hist'[n]) /\ DOMAIN hist[n] = 1..Len(hist[n])
      /\ \A s \in Names \ {n} : hist'[s] = hist[s]
  BY <1>2 DEF Writes, OwnTypes
<1>5. mine' = [mine EXCEPT ![t] = Len(hist[n]) + 1] /\ acked' = acked
  BY DEF Writes
<1>6. t \in Pending(n)
  BY <1>3 DEF Pending
<1>7. Pending(n)' = Pending(n) \ {t} /\ \A s \in Names \ {n} : Pending(s)' = Pending(s)
  BY <1>3 DEF Pending
<1>8. Cardinality(Pending(n)') = Cardinality(Pending(n)) - 1
  BY <1>6, <1>7, PendingFinite, FS_RemoveElement
<1>9. ASSUME NEW s \in Names
      PROVE  Len(hist'[s]) + Cardinality(Pending(s)') <= MaxSets + 1
  <2>1. CASE s = n
    BY <1>4, <1>8, <2>1, PendingFinite, AndroidBounds DEF HistOK
  <2>2. CASE s # n
    BY <1>4, <1>7, <2>2 DEF HistOK
  <2> QED  BY <2>1, <2>2
<1>10. Len(hist[n]) + 1 <= MaxSets + 1
  BY <1>2, <1>4, <1>9, PendingFinite, AndroidBounds
<1>11. \A s \in Names : DOMAIN hist[s] \subseteq DOMAIN hist'[s]
  BY <1>4
<1>12. ASSUME NEW u \in Threads PROVE MineOK(u)' /\ mine'[u] <= MaxSets + 1
  <2>1. CASE u = t
    BY <1>3, <1>4, <1>5, <1>10, <2>1 DEF MineOK, OwnTypes
  <2>2. CASE u # t
    <3>1. dbpc'[u] = dbpc[u] /\ req'[u] = req[u] /\ mine'[u] = mine[u]
      BY <1>3, <1>5, <2>2 DEF OwnTypes
    <3>2. dbpc[u] \in {"end", "changes"} => req[u].name \in Names
      BY DEF CallOK, Setters
    <3> QED  BY <1>11, <3>1, <3>2 DEF HistOK, MineOK
  <2> QED  BY <2>1, <2>2
<1> QED  BY <1>5, <1>9, <1>11, <1>12 DEF HistOK

\* A thread is told of the entry its call has written.
LEMMA HistAnswer ==
    ASSUME Components, OwnTypes, HistOK, \A t \in Threads : CallOK(t),
           NEW t \in Threads, NEW a, Answers(t, a)
    PROVE  HistOK'
<1>1. DB!TypeOK
  BY ComponentTypes
<1>2. /\ dbpc'[t] = "idle" /\ UNCHANGED <<hist, mine>>
      /\ \A u \in Threads \ {t} : dbpc'[u] = dbpc[u] /\ req'[u] = req[u]
  BY <1>1 DEF Answers, DB!Return, DB!TypeOK
<1>3. \A u \in Threads : MineOK(u)' /\ mine'[u] <= MaxSets + 1
  BY <1>2 DEF HistOK, MineOK
<1>4. ASSUME NEW u \in Threads, NEW s \in Names
      PROVE  acked'[u][s] \in DOMAIN hist'[s]
  <2>1. CASE req[t].op \in Setters /\ a.code = "OK" /\ u = t /\ s = req[t].name
    <3>1. acked'[u][s] = mine[t]
      BY <2>1 DEF Answers, OwnTypes
    <3>2. mine[t] \in DOMAIN hist[s]
      BY <2>1 DEF Answers, HistOK, MineOK
    <3> QED  BY <1>2, <3>1, <3>2
  <2>2. CASE ~(req[t].op \in Setters /\ a.code = "OK" /\ u = t /\ s = req[t].name)
    <3>1. acked'[u][s] = acked[u][s]
      BY <2>2 DEF Answers, OwnTypes, CallOK
    <3> QED  BY <1>2, <3>1 DEF HistOK
  <2> QED  BY <2>1, <2>2
<1>5. ASSUME NEW s \in Names
      PROVE  Len(hist'[s]) + Cardinality(Pending(s)') <= MaxSets + 1
  <2>1. Pending(s)' \in SUBSET Pending(s)
    BY <1>2 DEF Pending
  <2>2. Cardinality(Pending(s)') <= Cardinality(Pending(s))
    BY <2>1, PendingFinite, FS_Subset
  <2>3. hist' = hist /\ Len(hist[s]) \in Nat
    BY <1>2 DEF OwnTypes
  <2> QED  BY <2>2, <2>3, PendingFinite, AndroidBounds DEF HistOK
<1> QED  BY <1>3, <1>4, <1>5 DEF HistOK

LEMMA HistStep ==
    ASSUME IInv, [Next]_vars
    PROVE  HistOK'
<1>1. DB!TypeOK
  BY ComponentTypes DEF IInv
<1>2. CASE UNCHANGED <<dbpc, req, histVars>>
  BY <1>2, HistStays DEF IInv
<1>3. CASE OpenDatabase \/ CloseDatabase \/ OpenTable \/ Tick
  BY <1>2, <1>3 DEF OpenDatabase, CloseDatabase, OpenTable, Tick, DB!Initialize, DB!Finalize, dbVars
<1>4. ASSUME NEW t \in Threads, CloseTable(t) \/ UsePipeline(t) \/ Parse(t) \/ NodeStep(t)
      PROVE  HistOK'
  BY <1>2, <1>4 DEF CloseTable, UsePipeline, Parse, NodeStep, dbVars
<1>5. ASSUME NEW t \in Threads, Launch(t) PROVE HistOK'
  <2>1. PICK r : Requests(t, r) /\ r.op = "get_pipeline"
    BY <1>5, CallRequests DEF Launch, Idle, IInv
  <2>2. /\ dbpc[t] = "idle" /\ dbpc'[t] = "select"
        /\ \A u \in Threads \ {t} : dbpc'[u] = dbpc[u] /\ req'[u] = req[u]
    BY <1>1, <1>5, <2>1 DEF Requests, DB!TypeOK, DB!Entry, Launch, Idle
  <2> QED  BY <1>5, <2>2, HistStays DEF IInv, Launch
<1>6. ASSUME NEW t \in Threads, ChangeDescription(t) PROVE HistOK'
  BY <1>6, HistChange DEF IInv
<1>7. ASSUME NEW t \in Threads, Statement(t) PROVE HistOK'
  <2>1. CASE Opens(t)
    <3>1. /\ dbpc[t] = "begin" /\ dbpc'[t] = "insert" /\ req' = req
          /\ \A u \in Threads \ {t} : dbpc'[u] = dbpc[u]
      BY <1>1, <2>1 DEF Opens, DB!Goto, DB!TypeOK
    <3> QED  BY <2>1, <3>1, HistStays DEF IInv, Opens
  <2> QED  BY <1>7, <2>1, StatementEffect, HistWrite, HistAnswer DEF IInv
<1> QED  BY <1>2, <1>3, <1>4, <1>5, <1>6, <1>7 DEF Next, vars, dbVars

-----------------------------------------------------------------------------
(* The inductive invariant. *)

LEMMA InitInv == Init => IInv
<1> SUFFICES ASSUME Init PROVE IInv
  OBVIOUS
<1>1. Components
  BY ComponentsInit
<1>2. OwnTypes
  BY DEF Init, OwnTypes, Lives
<1>3. /\ conn = "closed" /\ ~up /\ \A i \in Node!Ids : table[i] = NoNode
      /\ \A t \in Threads : pc[t] = "idle" /\ dbpc[t] = "idle" /\ req[t] = DB!NoReq
  BY DEF Init, DB!Init, Node!Init
<1>4. LifeOK /\ DownOK
  BY <1>3 DEF Init, LifeOK, DownOK
<1>5. HistOK
  <2>1. \A s : Pending(s) = {}
    BY <1>3 DEF Pending
  <2>2. \A s \in Names : Len(hist[s]) = 1 /\ DOMAIN hist[s] = {1} /\ Cardinality(Pending(s)) = 0
    BY <2>1, FS_EmptySet DEF Init
  <2> QED  BY <1>3, <2>2, AndroidBounds DEF Init, HistOK, MineOK
<1>6. \A t \in Threads : CallOK(t) /\ AnswerOK(t)
  BY <1>3 DEF CallOK, AnswerOK, Setters, DB!NoReq
<1> QED  BY <1>1, <1>2, <1>4, <1>5, <1>6 DEF IInv

LEMMA NextInv == IInv /\ [Next]_vars => IInv'
  BY ComponentsNext, TypesStep, LifeStep, HistStep, CallStep, AnswerStep DEF IInv

-----------------------------------------------------------------------------
(* The theorems. *)

(* The invariant of the composition holds in every reachable state, and    *)
(* with it those of the database and of the node table.                    *)
THEOREM Inductive == Spec => []IInv
  BY InitInv, NextInv, PTL DEF Spec

(* Every variable keeps its type, for any threads, cells and descriptions  *)
(* and whichever statements fail.                                          *)
THEOREM TypeCorrect == Spec => []TypeOK
<1>1. IInv => TypeOK
  <2> SUFFICES ASSUME IInv PROVE TypeOK
    OBVIOUS
  <2>1. DB!TypeOK /\ Node!TypeOK
    BY ComponentTypes DEF IInv
  <2>2. \A s \in Names : \A i \in DOMAIN hist[s] : hist[s][i] \in Descs \cup {NoDesc}
    BY DEF IInv, OwnTypes
  <2>3. mine \in [Threads -> 0..(MaxSets + 1)]
    BY AndroidBounds DEF IInv, OwnTypes, HistOK
  <2> QED  BY <2>1, <2>2, <2>3 DEF IInv, OwnTypes, Lives, HistOK, TypeOK
<1> QED  BY <1>1, Inductive, PTL

(* After ml_agent_initialize or ml_agent_finalize has returned, there is a *)
(* node table just when there is an open database, and without them no     *)
(* pipeline is left, whatever has failed on the way.                       *)
THEOREM AllOrNothing == Spec => []BothOrNeither
<1>1. IInv => BothOrNeither
  <2> SUFFICES ASSUME IInv, life \in {"up", "down"}, AllIdle
               PROVE  up = (conn = "open") /\ (~up => \A n \in Nodes : ~Node!Live(n))
    BY DEF BothOrNeither
  <2>1. up \in BOOLEAN /\ up = (conn = "open")
    BY ComponentTypes DEF IInv, LifeOK, Node!TypeOK
  <2>2. ASSUME ~up, NEW n \in Nodes, Node!Live(n) PROVE FALSE
    <3>1. NodeP!CellsOK /\ NodeP!LocksOK
      BY DEF IInv, Components, NodeP!IInv
    <3>2. heap[n].id \in Node!Ids /\ NodeP!Live(n)
      BY <2>2, <3>1 DEF NodeP!CellsOK, Node!Live, NodeP!Live, NodeP!Ids, Node!Ids
    <3>3. table[heap[n].id] # n
      BY <2>2, <3>2, AndroidNulls DEF IInv, DownOK
    <3>4. \A t \in Threads : pc[t] = "idle"
      BY DEF AllIdle, Idle
    <3>5. \A t \in Threads : victims[t] = {}
      BY <3>1, <3>4 DEF NodeP!LocksOK, NodeP!Locked
    <3> QED  BY <3>1, <3>2, <3>3, <3>4, <3>5 DEF NodeP!CellsOK, NodeP!AllOwned
  <2> QED  BY <2>1, <2>2
<1> QED  BY <1>1, Inductive, PTL

-----------------------------------------------------------------------------
(* What a launch reads, when no statement fails that leaves a transaction  *)
(* open or loses an answer.                                                *)

Quiet == FaultKinds \subseteq {"open", "begin"}

\* Then END succeeds, INSERT does not fail, and a get answers what is in the table.
LEMMA QuietAnswer ==
    ASSUME Quiet, IInv, NEW t \in Threads, Statement(t), NEW a, Answers(t, a)
    PROVE  /\ work' = work
           /\ dbpc[t] = "end" => ~intx' /\ a.code = "OK"
           /\ dbpc[t] # "end" => dbpc[t] # "insert" /\ intx' = intx
           /\ req[t].op = "get_pipeline" /\ a.code # "OK" =>
                 DB!Named(work.pipelines, req[t].name) = {}
<1>1. DB!TypeOK /\ CallOK(t)
  BY ComponentTypes DEF IInv
<1>2. dbpc'[t] = "idle" /\ dbret'[t] = a
  BY <1>1 DEF Answers, DB!Return, DB!TypeOK
<1>3. \A l : DB!Goto(t, l) => l = "idle"
  BY <1>1, <1>2 DEF DB!Goto, DB!TypeOK
<1>4. ~DB!Fails("write") /\ ~DB!Fails("rollback") /\ ~DB!Fails("end") /\ ~DB!Fails("read")
  BY DEF Quiet, DB!Fails
<1>5. DB!SetPipeline(t) \/ DB!GetPipeline(t) \/ DB!DeletePipeline(t)
  BY <1>1, PipelineStatement DEF Statement
<1>6. CASE DB!SetPipeline(t)
  <2>1. CASE DB!Begin(t, "insert")
    <3>1. UNCHANGED DB!store /\ dbpc[t] = "begin" /\ req[t].op = "set_pipeline"
      BY <1>3, <1>6, <2>1 DEF DB!Begin, DB!SetPipeline
    <3> QED  BY <3>1 DEF DB!store
  <2>2. ASSUME NEW u, DB!Write(t, u, TRUE, DB!NoRow, "end") PROVE FALSE
    BY <1>3, <1>4, <2>2 DEF DB!Write
  <2>3. CASE DB!End(t, DB!Ok)
    <3>1. dbpc[t] = "end" /\ req[t].op = "set_pipeline"
      BY <1>6, <2>3 DEF DB!End, DB!SetPipeline
    <3>2. intx
      BY <3>1 DEF IInv, Components, DBP!IInv, DBP!TransactionsExclusive, DBP!InTransaction,
                  DBP!InTxLabels
    <3>3. DB!EndTransaction /\ DB!Return(t, DB!Ok)
      BY <1>4, <2>3, <3>2 DEF DB!End, DB!CanEnd
    <3>4. a = DB!Ok
      BY <1>1, <1>2, <3>3 DEF DB!Return, DB!TypeOK
    <3> QED  BY <3>1, <3>3, <3>4 DEF DB!EndTransaction, DB!Ok, DB!Answer
  <2> QED  BY <1>6, <2>1, <2>2, <2>3 DEF DB!SetPipeline
<1>7. CASE DB!GetPipeline(t)
  <2> DEFINE rows == DB!Named(work.pipelines, req[t].name)
  <2>1. /\ UNCHANGED DB!store /\ dbpc[t] = "select" /\ req[t].op = "get_pipeline"
        /\ rows # {} => DB!Return(t, DB!Answer("OK", 0, rows))
    BY <1>4, <1>7 DEF DB!GetPipeline, DB!Select
  <2>2. rows # {} => a = DB!Answer("OK", 0, rows)
    BY <1>1, <1>2, <2>1 DEF DB!Return, DB!TypeOK
  <2> QED  BY <2>1, <2>2 DEF DB!Answer, DB!store
<1>8. CASE DB!DeletePipeline(t)
  <2>1. req[t].op = "delete_pipeline"
    BY <1>8 DEF DB!DeletePipeline
  <2>2. ASSUME NEW u, NEW b, DB!Write(t, u, b, lastRow, "changes") PROVE FALSE
    BY <1>3, <1>4, <2>2 DEF DB!Write
  <2>3. CASE DB!Changes(t)
    BY <2>1, <2>3 DEF DB!Changes, DB!store
  <2> QED  BY <1>8, <2>2, <2>3 DEF DB!DeletePipeline
<1> QED  BY <1>5, <1>6, <1>7, <1>8

\* Steps other than statements keep the table of descriptions.
LEMMA OtherRows ==
    ASSUME ReadInv, [Next]_vars, \A t \in Threads : ~Statement(t)
    PROVE  /\ work' = work /\ (intx' => intx)
           /\ \A t \in Threads : dbpc[t] # "idle" => dbpc'[t] = dbpc[t]
           /\ UNCHANGED <<hist, acked>>
<1>1. DB!TypeOK
  BY ComponentTypes DEF ReadInv, IInv
<1>2. CASE OpenDatabase \/ CloseDatabase
  <2>1. ~intx
    BY <1>2 DEF ReadInv, Owned, OpenDatabase, CloseDatabase, AllIdle, Idle
  <2>2. work = disk
    BY <2>1 DEF ReadInv, IInv, Components, DBP!IInv, DBP!StoreOK, DBP!NothingPending
  <2> QED  BY <1>2, <2>1, <2>2
           DEF OpenDatabase, CloseDatabase, DB!Initialize, DB!Finalize, DB!Disconnect, histVars
<1>3. ASSUME NEW t \in Threads, ChangeDescription(t) \/ Launch(t)
      PROVE  /\ work' = work /\ intx' = intx /\ UNCHANGED <<hist, acked>>
             /\ \A u \in Threads : dbpc[u] # "idle" => dbpc'[u] = dbpc[u]
  BY <1>1, <1>3 DEF ChangeDescription, Launch, DB!Call, DB!store, Idle, histVars, DB!TypeOK
<1>4. CASE OpenTable \/ Tick
  BY <1>4 DEF OpenTable, Tick, dbVars, histVars
<1>5. ASSUME NEW t \in Threads, CloseTable(t) \/ UsePipeline(t) \/ Parse(t) \/ NodeStep(t)
      PROVE  UNCHANGED dbVars /\ UNCHANGED <<hist, acked>>
  BY <1>5 DEF CloseTable, UsePipeline, Parse, NodeStep, histVars
<1> QED  BY <1>2, <1>3, <1>4, <1>5 DEF Next, vars, dbVars, histVars

LEMMA OwnedStep ==
    ASSUME Quiet, ReadInv, [Next]_vars
    PROVE  Owned'
<1>1. DB!TypeOK
  BY ComponentTypes DEF ReadInv, IInv
<1>2. CASE \A t \in Threads : ~Statement(t)
  BY <1>2, OtherRows DEF ReadInv, Owned
<1>3. ASSUME NEW t \in Threads, Statement(t) PROVE Owned'
  <2>1. CASE Opens(t)
    <3>1. dbpc'[t] = "insert"
      BY <1>1, <2>1 DEF Opens, DB!Goto, DB!TypeOK
    <3> QED  BY <3>1 DEF Owned
  <2>2. CASE Writes(t)
    <3>1. /\ intx' = intx
          /\ dbpc'[t] = "end" \/ dbpc[t] = "delete"
          /\ \A u \in Threads \ {t} : dbpc'[u] = dbpc[u]
      BY <1>1, <2>2 DEF Writes, DB!Goto, DB!TypeOK
    <3> QED  BY <3>1 DEF ReadInv, Owned
  <2>3. ASSUME NEW a, Answers(t, a) PROVE Owned'
    <3>1. \A u \in Threads \ {t} : dbpc'[u] = dbpc[u]
      BY <1>1, <2>3 DEF Answers, DB!Return, DB!TypeOK
    <3>2. intx' => intx /\ dbpc[t] \notin {"insert", "end"}
      BY <1>3, <2>3, QuietAnswer DEF ReadInv
    <3> QED  BY <3>1, <3>2 DEF ReadInv, Owned
  <2> QED  BY <1>3, <2>1, <2>2, <2>3, StatementEffect DEF ReadInv, IInv
<1> QED  BY <1>2, <1>3

LEMMA RowsStep ==
    ASSUME Quiet, ReadInv, [Next]_vars
    PROVE  RowsOK'
<1>1. CASE work' = work /\ hist' = hist
  BY <1>1 DEF ReadInv, RowsOK, RowsOf, Latest, DB!Named
<1>2. CASE \A t \in Threads : ~Statement(t)
  BY <1>1, <1>2, OtherRows
<1>3. ASSUME NEW t \in Threads, Writes(t) PROVE RowsOK'
  <2>1. PICK n \in Names : n = req[t].name
    BY <1>3 DEF ReadInv, IInv, Writes, CallOK, Setters
  <2>2. PICK d \in Descs \cup {NoDesc} :
           /\ d = Written(req[t])
           /\ req[t].op = "set_pipeline" => d # NoDesc
           /\ req[t].op # "set_pipeline" => d = NoDesc
    BY AndroidNulls DEF ReadInv, IInv, CallOK, Written
  <2>3. hist[n] \in Seq(Descs \cup {NoDesc})
    BY DEF ReadInv, IInv, OwnTypes
  <2>4. /\ hist'[n] = Append(hist[n], d)
        /\ \A s \in Names \ {n} : hist'[s] = hist[s]
    BY <1>3, <2>1, <2>2 DEF Writes, ReadInv, IInv, OwnTypes
  <2>5. hist'[n][Len(hist'[n])] = d
    BY <2>3, <2>4
  <2>6. \A u \in Names : DB!Named(work'.pipelines, u) =
           IF u # n THEN DB!Named(work.pipelines, u)
           ELSE IF d # NoDesc THEN {[name |-> n, desc |-> d]} ELSE {}
    BY <1>3, <2>1, <2>2 DEF Writes
  <2>7. \A s \in Names : DB!Named(work'.pipelines, s) = RowsOf(s)'
    BY <2>4, <2>5, <2>6 DEF ReadInv, RowsOK, RowsOf, Latest
  <2> QED  BY <2>7 DEF RowsOK, DB!Named
<1>4. ASSUME NEW t \in Threads, Statement(t) PROVE RowsOK'
  <2>1. CASE Opens(t)
    BY <1>1, <2>1 DEF Opens, histVars
  <2>2. ASSUME NEW a, Answers(t, a) PROVE RowsOK'
    BY <1>1, <1>4, <2>2, QuietAnswer DEF Answers, ReadInv
  <2> QED  BY <1>3, <1>4, <2>1, <2>2, StatementEffect DEF ReadInv, IInv
<1> QED  BY <1>2, <1>4

\* What was read stays in the history, however it grows.
LEMMA ReadStays ==
    ASSUME OwnTypes, HistOK, NEW t \in Threads, CallOK(t), ReadOK(t),
           UNCHANGED <<pc[t], dbpc[t], dbret[t], target[t], acked[t]>>,
           \A s \in Names : hist'[s] = hist[s] \/ \E d \in Descs \cup {NoDesc} : hist'[s] = Append(hist[s], d)
    PROVE  ReadOK(t)'
<1> SUFFICES ASSUME pc[t] = "parse", dbpc[t] = "idle" PROVE ReadOK(t)'
  BY DEF ReadOK
<1>1. PICK s \in Names : s = target[t]
  BY DEF CallOK
<1>2. PICK i \in acked[t][s]..Len(hist[s]) : hist[s][i] = Answered(t)
  BY <1>1 DEF ReadOK
<1>3. hist[s] \in Seq(Descs \cup {NoDesc}) /\ acked[t][s] \in 1..Len(hist[s])
  BY DEF OwnTypes, HistOK
<1>4. i \in acked[t][s]..Len(hist'[s]) /\ hist'[s][i] = hist[s][i]
  BY <1>2, <1>3
<1>5. Answered(t)' = Answered(t) /\ acked'[t] = acked[t] /\ target'[t] = s
  BY <1>1 DEF Answered
<1> QED  BY <1>2, <1>4, <1>5 DEF ReadOK

LEMMA ReadStep ==
    ASSUME Quiet, ReadInv, [Next]_vars
    PROVE  \A t \in Threads : ReadOK(t)'
<1>1. DB!TypeOK /\ Node!TypeOK /\ IInv
  BY ComponentTypes DEF ReadInv, IInv
<1>2. ASSUME NEW u \in Threads, hist' = hist, UNCHANGED <<pc[u], dbpc[u], dbret[u], target[u], acked[u]>>
      PROVE  ReadOK(u)'
  BY <1>1, <1>2, ReadStays DEF ReadInv, IInv
<1>3. CASE UNCHANGED <<pc, dbpc, dbret, target, acked, hist>>
  BY <1>2, <1>3
<1>4. CASE OpenDatabase \/ CloseDatabase \/ OpenTable \/ Tick
  BY <1>3, <1>4 DEF OpenDatabase, CloseDatabase, OpenTable, Tick, DB!Initialize, DB!Finalize,
                    Node!Initialize, Node!Tick, nodeVars, dbVars, histVars
<1>5. ASSUME NEW t \in Threads, CloseTable(t) \/ UsePipeline(t) \/ Parse(t) \/ NodeStep(t)
      PROVE  \A u \in Threads : ReadOK(u)'
  <2>1. Moves(t)
    BY <1>1, <1>5, NodeMoves DEF IInv
  <2>2. /\ UNCHANGED <<dbpc, dbret, hist, acked>>
        /\ \A u \in Threads \ {t} : target'[u] = target[u]
    BY <1>1, <1>5 DEF CloseTable, UsePipeline, Parse, NodeStep, dbVars, histVars, IInv, OwnTypes
  <2>3. ReadOK(t)'
    BY <2>1 DEF Moves, ReadOK
  <2> QED  BY <1>2, <2>1, <2>2, <2>3 DEF Moves
<1>6. ASSUME NEW t \in Threads, ChangeDescription(t) \/ Launch(t)
      PROVE  \A u \in Threads : ReadOK(u)'
  <2>1. /\ \A u \in Threads \ {t} : /\ pc'[u] = pc[u] /\ dbpc'[u] = dbpc[u]
                                    /\ dbret'[u] = dbret[u] /\ target'[u] = target[u]
        /\ UNCHANGED <<hist, acked>>
    BY <1>1, <1>6 DEF ChangeDescription, Launch, nodeVars, histVars, DB!Call, Node!Launch, Node!Call,
                      DB!TypeOK, Node!TypeOK, IInv, OwnTypes
  <2>2. \A u \in Threads : CallOK(u)'
    BY <1>1, CallStep DEF IInv
  <2>3. CASE ChangeDescription(t)
    <3>1. pc'[t] = "idle"
      BY <2>3 DEF ChangeDescription, Idle, nodeVars
    <3> QED  BY <1>2, <2>1, <3>1 DEF ReadOK
  <2>4. CASE Launch(t)
    <3>1. dbpc'[t] # "idle"
      BY <2>2, <2>4 DEF CallOK, Launch
    <3> QED  BY <1>2, <2>1, <3>1 DEF ReadOK
  <2> QED  BY <1>6, <2>3, <2>4
<1>7. ASSUME NEW t \in Threads, Statement(t)
      PROVE  \A u \in Threads : ReadOK(u)'
  <2>1. UNCHANGED <<pc, target>>
    BY <1>7 DEF Statement, nodeVars
  <2>2. CASE Opens(t)
    <3>1. /\ dbpc'[t] # "idle" /\ UNCHANGED <<hist, acked>>
          /\ \A u \in Threads \ {t} : dbpc'[u] = dbpc[u] /\ dbret'[u] = dbret[u]
      BY <1>1, <2>2 DEF Opens, DB!Goto, DB!TypeOK, histVars
    <3> QED  BY <1>2, <2>1, <3>1 DEF ReadOK
  <2>3. CASE Writes(t)
    <3>1. /\ dbpc'[t] # "idle" /\ acked' = acked
          /\ \A u \in Threads \ {t} : dbpc'[u] = dbpc[u] /\ dbret'[u] = dbret[u]
      BY <1>1, <2>3 DEF Writes, DB!Goto, DB!TypeOK
    <3>2. PICK d \in Descs \cup {NoDesc} : d = Written(req[t])
      BY <1>1 DEF IInv, CallOK, Written
    <3>3. \A s \in Names : hist'[s] = hist[s] \/ hist'[s] = Append(hist[s], d)
      BY <1>1, <2>3, <3>2 DEF Writes, IInv, OwnTypes
    <3>4. ASSUME NEW u \in Threads \ {t} PROVE ReadOK(u)'
      BY <1>1, <2>1, <3>1, <3>3, ReadStays DEF ReadInv, IInv
    <3> QED  BY <3>1, <3>4 DEF ReadOK
  <2>4. ASSUME NEW a, Answers(t, a) PROVE \A u \in Threads : ReadOK(u)'
    <3>1. /\ dbret'[t] = a /\ hist' = hist
          /\ \A u \in Threads \ {t} : /\ dbpc'[u] = dbpc[u] /\ dbret'[u] = dbret[u]
                                      /\ acked'[u] = acked[u]
      BY <1>1, <2>4 DEF Answers, DB!Return, DB!TypeOK, IInv, OwnTypes
    <3>2. ASSUME pc[t] = "parse" PROVE ReadOK(t)'
      <4>1. req[t].op = "get_pipeline" /\ acked' = acked
        BY <1>1, <2>4, <3>2 DEF Answers, IInv, CallOK, Setters
      <4>2. PICK s \in Names : s = target[t] /\ s = req[t].name
        BY <1>1, <4>1, <3>2 DEF IInv, CallOK
      <4>3. hist[s] \in Seq(Descs \cup {NoDesc}) /\ acked[t][s] \in 1..Len(hist[s])
        BY <1>1 DEF IInv, OwnTypes, HistOK
      <4>4. Len(hist[s]) \in acked[t][s]..Len(hist[s])
        BY <4>3
      <4>5. IF a.code = "OK" THEN a.rows = RowsOf(s) /\ a.rows # {} ELSE RowsOf(s) = {}
        BY <1>1, <1>7, <2>4, <4>1, <4>2, QuietAnswer DEF Answers, ReadInv, RowsOK
      <4>6. Answered(t)' = IF a.code = "OK" THEN (CHOOSE r \in a.rows : TRUE).desc ELSE NoDesc
        BY <3>1 DEF Answered
      <4>7. Answered(t)' = hist[s][Len(hist[s])]
        <5>1. CASE a.code = "OK"
          <6>1. RowsOf(s) = {[name |-> s, desc |-> Latest(s)]}
            BY <4>5, <5>1 DEF RowsOf
          <6> QED  BY <4>5, <4>6, <5>1, <6>1 DEF Latest
        <5>2. CASE a.code # "OK"
          BY <4>5, <4>6, <5>2 DEF RowsOf, Latest
        <5> QED  BY <5>1, <5>2
      <4> QED  BY <2>1, <3>1, <4>1, <4>2, <4>4, <4>7 DEF ReadOK
    <3>3. ReadOK(t)'
      BY <2>1, <3>2 DEF ReadOK
    <3> QED  BY <1>2, <2>1, <3>1, <3>3
  <2> QED  BY <1>1, <1>7, <2>2, <2>3, <2>4, StatementEffect DEF IInv
<1> QED  BY <1>3, <1>4, <1>5, <1>6, <1>7 DEF Next, vars, dbVars, nodeVars, histVars

(* Unless a statement fails that leaves a transaction open, the table has  *)
(* the latest description of every name and a launch reads one its caller  *)
(* may see.                                                                *)
THEOREM InductiveRead == ASSUME Quiet PROVE Spec => []ReadInv
<1>1. Init => ReadInv
  <2> SUFFICES ASSUME Init PROVE ReadInv
    OBVIOUS
  <2>1. Owned /\ \A t \in Threads : ReadOK(t)
    BY DEF Init, DB!Init, Node!Init, Owned, ReadOK
  <2>2. RowsOK
    BY DEF Init, DB!Init, DB!NoTables, DB!Named, RowsOK, RowsOf, Latest
  <2> QED  BY <2>1, <2>2, InitInv DEF ReadInv
<1>2. ReadInv /\ [Next]_vars => ReadInv'
  BY NextInv, OwnedStep, RowsStep, ReadStep DEF ReadInv
<1> QED  BY <1>1, <1>2, PTL DEF Spec

(* A thread that was told its description is set, or deleted, launches     *)
(* that description or one written later, and is refused only if the name  *)
(* has been without a description since: for any number of threads that    *)
(* write between the two steps of mlops_node_create.                       *)
THEOREM OwnSetSeen == ASSUME Quiet PROVE Spec => LaunchSeesOwnSet
<1> DEFINE Seen(t) ==
             pc[t] = "parse" /\ pc'[t] # "parse" =>
                LET s == target[t]
                    read == IF dbret[t].code = "OK" THEN runs'[cur'[t]] ELSE NoDesc
                IN  pc'[t] = "insert" \/ ret'[t] = "EINVAL" =>
                       \E i \in acked[t][s]..Len(hist[s]) : hist[s][i] = read
<1>1. ASSUME ReadInv, Next, NEW t \in Threads, pc[t] = "parse", pc'[t] # "parse",
             pc'[t] = "insert" \/ ret'[t] = "EINVAL"
      PROVE  \E i \in acked[t][target[t]]..Len(hist[target[t]]) : hist[target[t]][i] =
                IF dbret[t].code = "OK" THEN runs'[cur'[t]] ELSE NoDesc
  <2>1. DB!TypeOK /\ Node!TypeOK /\ IInv
    BY <1>1, ComponentTypes DEF ReadInv, IInv
  <2>2. Parse(t)
    <3>1. ~AllIdle /\ ~Idle(t)
      BY <1>1 DEF AllIdle, Idle
    <3>2. ~OpenDatabase /\ ~CloseDatabase /\ ~OpenTable /\ ~Tick
      BY <1>1, <3>1 DEF OpenDatabase, CloseDatabase, OpenTable, Tick, Node!Initialize, Node!Tick
    <3>3. \A u \in Threads : ~Statement(u) /\ ~ChangeDescription(u) /\ ~CloseTable(u)
      BY <1>1, <3>1 DEF Statement, ChangeDescription, CloseTable, nodeVars
    <3>4. \A u \in Threads : ~Launch(u)
      BY <1>1, <2>1, <3>1 DEF Launch, Node!Launch, Node!Call, Node!TypeOK, Idle
    <3>5. \A u \in Threads \ {t} : ~UsePipeline(u) /\ ~Parse(u) /\ ~NodeStep(u)
      BY <1>1, <2>1, NodeMoves DEF IInv, Moves
    <3>6. ~UsePipeline(t) /\ ~NodeStep(t)
      BY <1>1, <3>1 DEF UsePipeline, NodeStep
    <3> QED  BY <1>1, <3>2, <3>3, <3>4, <3>5, <3>6 DEF Next
  <2>3. \E i \in acked[t][target[t]]..Len(hist[target[t]]) : hist[target[t]][i] = Answered(t)
    BY <1>1, <2>2 DEF ReadInv, ReadOK, Parse
  <2>4. CASE pc'[t] = "insert"
    <3>1. ret'[t] = "none" /\ cur'[t] \in Nodes
      BY <2>1, <2>2, <2>4 DEF Parse, Node!Parse, Node!Return, Node!TypeOK, IInv, CallOK
    <3>2. dbret[t].code = "OK"
      BY <2>2, <3>1 DEF Parse
    <3>3. runs'[cur'[t]] = (CHOOSE r \in dbret[t].rows : TRUE).desc
      BY <2>1, <2>2, <2>4, <3>1 DEF Parse, IInv, OwnTypes
    <3> QED  BY <2>3, <3>2, <3>3 DEF Answered
  <2>5. CASE ret'[t] = "EINVAL"
    <3>1. dbret[t].code # "OK"
      BY <2>2, <2>5 DEF Parse
    <3> QED  BY <2>3, <3>1 DEF Answered
  <2> QED  BY <1>1, <2>4, <2>5
<1>2. ReadInv /\ [Next]_vars => [\A t \in Threads : Seen(t)]_vars
  BY <1>1
<1> QED  BY <1>2, InductiveRead, PTL DEF Spec, LaunchSeesOwnSet

(* A set_description that answers an error has written nothing, for any    *)
(* number of threads: BEGIN alone keeps them apart.                        *)
THEOREM RefusedUnseen == ASSUME Quiet PROVE Spec => RefusedSetsAreUnseen
<1> DEFINE Unseen(t) ==
             req[t].op = "set_pipeline" /\ dbpc'[t] = "idle" /\ dbret'[t].code # "OK" =>
                mine[t] = 0
<1>1. ASSUME ReadInv, Next, NEW t \in Threads, req[t].op = "set_pipeline", dbpc'[t] = "idle",
             dbret'[t].code # "OK"
      PROVE  mine[t] = 0
  <2>1. DB!TypeOK /\ IInv /\ CallOK(t) /\ dbpc[t] \in {"begin", "insert", "end"}
    BY <1>1, ComponentTypes DEF ReadInv, IInv, CallOK
  <2>2. CASE dbpc[t] \in {"begin", "insert"}
    BY <2>1, <2>2 DEF IInv, HistOK, MineOK
  <2>3. CASE dbpc[t] = "end"
    <3>1. PICK u \in Threads : Statement(u)
      BY <1>1, <2>1, <2>3, OtherRows DEF ReadInv
    <3>2. CASE u = t
      <4>1. ~Opens(t) /\ ~Writes(t)
        BY <2>3 DEF Opens, Writes
      <4>2. PICK a : Answers(t, a)
        BY <2>1, <3>1, <3>2, <4>1, StatementEffect DEF IInv
      <4>3. a.code = "OK" /\ dbret'[t] = a
        BY <2>1, <2>3, <3>1, <3>2, <4>2, QuietAnswer DEF Answers, DB!Return, DB!TypeOK
      <4> QED  BY <1>1, <4>3
    <3>3. CASE u # t
      <4>1. ASSUME NEW a, Answers(u, a) PROVE FALSE
        BY <1>1, <2>1, <2>3, <3>3, <4>1 DEF Answers, DB!Return, DB!TypeOK
      <4>2. ~Opens(u) /\ ~Writes(u)
        BY <1>1, <2>1, <2>3, <3>3 DEF Opens, Writes, DB!Goto, DB!TypeOK
      <4> QED  BY <2>1, <3>1, <4>1, <4>2, StatementEffect DEF IInv
    <3> QED  BY <3>2, <3>3
  <2> QED  BY <2>1, <2>2, <2>3
<1>2. ReadInv /\ [Next]_vars => [\A t \in Threads : Unseen(t)]_vars
  BY <1>1
<1> QED  BY <1>2, InductiveRead, PTL DEF Spec, RefusedSetsAreUnseen
=============================================================================
