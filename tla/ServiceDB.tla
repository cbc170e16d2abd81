------------------------------ MODULE ServiceDB ------------------------------
(***************************************************************************)
(* daemon/service-db.cc: the store of pipeline descriptions, model         *)
(* versions and resources that both builds of the agent share.  In the     *)
(* daemon the D-Bus handlers call it one at a time from the main loop (one *)
(* caller); in the Android library every application thread calls it       *)
(* directly over the same connection (several callers).                    *)
(*                                                                         *)
(* A call is a request in req[c]; pc[c] names the SQL statement it runs    *)
(* next, so the statements of several callers interleave.  Any statement   *)
(* may fail, within MaxFaults; the process may crash, within MaxCrashes.   *)
(***************************************************************************)
EXTENDS SqliteConn, Integers, FiniteSets

CONSTANTS
    Callers,      \* the threads that call svcdb_*
    Names,        \* names of pipelines, models and resources
    Paths,        \* paths of models and resources
    Descs,        \* descriptions
    Apps,         \* app_info strings
    Empty,        \* the empty string
    Ops,          \* the operations callers may request
    FaultKinds,   \* which statements may fail, and how
    GintMax,      \* largest gint; guint goes to 2 * GintMax + 1
    MaxVersion,   \* bound on model versions
    MaxRowid,     \* bound on rowids of the resource table
    MaxFaults,    \* bound on failing statements
    MaxCrashes    \* bound on crashes

UintMax == 2 * GintMax + 1

AllFaults == {"open", "begin", "read", "write", "rollback", "end"}

ASSUME BoundsAssumption ==
    /\ MaxVersion \in Nat \ {0} /\ MaxRowid \in Nat \ {0}
    /\ GintMax \in Nat /\ MaxVersion <= GintMax
    /\ MaxFaults \in Nat /\ MaxCrashes \in Nat
    /\ FaultKinds \subseteq AllFaults

ASSUME ValuesAssumption == Empty \notin Names \cup Paths \cup Descs

(* A statement of one thread that rolls back the transaction of another is *)
(* outside this model: it is allowed only where a single caller runs.      *)
ASSUME RollbackAssumption ==
    "rollback" \in FaultKinds => \A c, d \in Callers : c = d

VARIABLES
    conn,      \* g_svcdb_instance: "open" or "closed"
    pc,        \* pc[c]: the statement c runs next, "idle" between calls
    req,       \* req[c]: the request c is executing
    ret,       \* ret[c]: what the last call of c returned
    ver,       \* ver[c]: the local _version of set_model
    lastRow,   \* the model row sqlite3_last_insert_rowid names
    changed,   \* whether sqlite3_changes is positive
    faults,    \* failed statements so far
    crashes    \* crashes so far

vars == <<disk, work, intx, conn, pc, req, ret, ver, lastRow, changed, faults, crashes>>

-----------------------------------------------------------------------------
(* The tables.  The key of a row (the prefixed name) and the primary keys  *)
(* (key), (key, version) and (key, path) are those of the schema.  The     *)
(* resource table also shows the rowid, which get_resource orders by.      *)

ModelRow == [name : Names, version : 1..MaxVersion, active : BOOLEAN,
             path : Paths, desc : Descs \cup {Empty}, app : Apps]

PipelineRow == [name : Names, desc : Descs]

ResourceRow == [name : Names, path : Paths, desc : Descs \cup {Empty},
                app : Apps, rowid : 1..MaxRowid]

Tables == [models : SUBSET ModelRow, pipelines : SUBSET PipelineRow,
           resources : SUBSET ResourceRow]

NoTables == [models |-> {}, pipelines |-> {}, resources |-> {}]

Named(rows, n) == {r \in rows : r.name = n}

\* Mutant: the largest version without the + 1.
IsLargest(used, i) ==
    IF used = {} THEN i = 1
                 ELSE i \in used /\ \A j \in used : j <= i

\* "version + 1 of the row with the largest version, else 1", and the
\* rowid SQLite gives a new row.
IsNext(used, i) ==
    IF used = {} THEN i = 1
                 ELSE i - 1 \in used /\ \A j \in used : j < i

Versions(rows, n) == {r.version : r \in Named(rows, n)}

Rowids(rows) == {r.rowid : r \in rows}

Registered(rows, n, v) == \E r \in Named(rows, n) : v > 0 => r.version = v

Activated(rows, n, v) == \E r \in Named(rows, n) : r.version = v /\ r.active

-----------------------------------------------------------------------------
(* Requests and answers. *)

Requests ==
    {r \in [op : {"set_pipeline"}, name : Names \cup {Empty}, desc : Descs \cup {Empty}]
      \cup [op : {"get_pipeline", "delete_pipeline"}, name : Names \cup {Empty}]
      \cup [op : {"set_model"}, name : Names \cup {Empty}, path : Paths \cup {Empty},
            active : BOOLEAN, desc : Descs \cup {Empty}, app : Apps]
      \cup [op : {"update_description"}, name : Names \cup {Empty},
            version : 0..MaxVersion, desc : Descs \cup {Empty}]
      \cup [op : {"activate_model"}, name : Names \cup {Empty}, version : 0..MaxVersion]
      \cup [op : {"get_model"}, name : Names \cup {Empty}, version : 0..UintMax]
      \cup [op : {"get_activated"}, name : Names \cup {Empty}]
      \cup [op : {"delete_model"}, name : Names \cup {Empty}, version : 0..MaxVersion,
            force : BOOLEAN]
      \cup [op : {"set_resource"}, name : Names \cup {Empty}, path : Paths \cup {Empty},
            desc : Descs \cup {Empty}, app : Apps]
      \cup [op : {"get_resource", "delete_resource"}, name : Names \cup {Empty}] :
     r.op \in Ops}

NoReq == [op |-> "none"]

\* The argument checks at the head of every operation.
ValidArgs(r) ==
    /\ r.name # Empty
    /\ r.op \in {"set_model", "set_resource"} => r.path # Empty
    /\ r.op \in {"set_pipeline", "update_description"} => r.desc # Empty
    /\ r.op \in {"update_description", "activate_model"} => r.version # 0

Codes == {"none", "OK", "EINVAL", "EIO"}

\* What a call returns: the code, the version set_model gives out and the
\* rows a get_* call prints.
Answer(code, version, rows) == [code |-> code, version |-> version, rows |-> rows]
NoAnswer == Answer("none", 0, {})
Ok == Answer("OK", 0, {})
EINVAL == Answer("EINVAL", 0, {})
EIO == Answer("EIO", 0, {})

\* The first statement of an operation.
Entry(op) ==
    CASE op \in {"set_pipeline", "set_model", "set_resource"} -> "begin"
      [] op = "get_pipeline" -> "select"
      [] op = "delete_pipeline" -> "delete"
      [] OTHER -> "check"

\* No row was inserted, or one of another table.
NoRow == [name |-> Empty, version |-> 0]

Labels == {"idle", "check", "guard", "begin", "deactivate", "insert", "version",
           "update", "activate", "end", "select", "delete", "changes"}

InTxLabels == {"deactivate", "insert", "version", "update", "activate", "end"}

Idle == \A c \in Callers : pc[c] = "idle"

TypeOK ==
    /\ disk \in Tables /\ work \in Tables /\ intx \in BOOLEAN
    /\ conn \in {"open", "closed"}
    /\ pc \in [Callers -> Labels]
    /\ req \in [Callers -> Requests \cup {NoReq}]
    /\ DOMAIN ret = Callers /\ \A c \in Callers : ret[c].code \in Codes
    /\ ver \in [Callers -> 0..MaxVersion]
    /\ lastRow \in {NoRow} \cup [name : Names, version : 1..MaxVersion]
    /\ changed \in BOOLEAN
    /\ faults \in 0..MaxFaults /\ crashes \in 0..MaxCrashes

-----------------------------------------------------------------------------
(* One statement of a caller. *)

Works == UNCHANGED faults

Fails(kind) ==
    /\ kind \in FaultKinds
    /\ faults < MaxFaults
    /\ faults' = faults + 1

Goto(c, label) ==
    /\ pc' = [pc EXCEPT ![c] = label]
    /\ UNCHANGED <<req, ret>>

Return(c, answer) ==
    /\ pc' = [pc EXCEPT ![c] = "idle"]
    /\ req' = [req EXCEPT ![c] = NoReq]
    /\ ret' = [ret EXCEPT ![c] = answer]

\* is_model_registered, is_resource_registered: a failing SELECT answers no.
Check(c, registered, next) ==
    /\ pc[c] = "check"
    /\ \/ Works /\ registered /\ Goto(c, next)
       \/ Works /\ ~registered /\ Return(c, EINVAL)
       \/ Fails("read") /\ Return(c, EINVAL)
    /\ UNCHANGED <<store, ver, lastRow, changed>>

\* Mutant: no transaction is opened.
BeginNothing(c, next) ==
    /\ pc[c] = "begin"
    /\ Works /\ Goto(c, next)
    /\ UNCHANGED <<store, ver, lastRow, changed>>

\* set_transaction (true)
Begin(c, next) ==
    /\ pc[c] = "begin"
    /\ \/ Works /\ BeginTransaction /\ Goto(c, next)
       \/ Works /\ ~CanBegin /\ UNCHANGED store /\ Return(c, EIO)
       \/ Fails("begin") /\ UNCHANGED store /\ Return(c, EIO)
    /\ UNCHANGED <<ver, lastRow, changed>>

\* INSERT, UPDATE or DELETE.  No caller answers a failure with a ROLLBACK.
Write(c, tables, affected, row, next) ==
    /\ \/ /\ Works
          /\ Execute(tables)
          /\ changed' = affected
          /\ lastRow' = row
          /\ Goto(c, next)
       \/ /\ \/ Fails("write") /\ UNCHANGED store
             \/ Fails("rollback") /\ AutoRollback
          /\ UNCHANGED <<changed, lastRow>>
          /\ Return(c, EIO)
    /\ UNCHANGED ver

\* Mutant: the call answers before the transaction ends.
EndNothing(c, answer) ==
    /\ pc[c] = "end"
    /\ Works /\ Return(c, answer)
    /\ ver' = [ver EXCEPT ![c] = 0]
    /\ UNCHANGED <<store, lastRow, changed>>

\* set_transaction (false)
End(c, answer) ==
    /\ pc[c] = "end"
    /\ \/ Works /\ EndTransaction /\ Return(c, answer)
       \/ Works /\ ~CanEnd /\ UNCHANGED store /\ Return(c, EIO)
       \/ Fails("end") /\ UNCHANGED store /\ Return(c, EIO)
       \/ Fails("rollback") /\ AutoRollback /\ Return(c, EIO)
    /\ ver' = [ver EXCEPT ![c] = 0]
    /\ UNCHANGED <<lastRow, changed>>

\* The last SELECT of a get_* call; an aggregate prints even no rows.
Select(c, rows, aggregate) ==
    /\ pc[c] = "select"
    /\ \/ Works /\ (aggregate \/ rows # {}) /\ Return(c, Answer("OK", 0, rows))
       \/ Works /\ ~(aggregate \/ rows # {}) /\ Return(c, EINVAL)
       \/ Fails("read") /\ Return(c, EINVAL)
    /\ UNCHANGED <<store, ver, lastRow, changed>>

\* sqlite3_changes () == 0 after a DELETE
Changes(c) ==
    /\ pc[c] = "changes"
    /\ Return(c, IF changed THEN Ok ELSE EINVAL)
    /\ UNCHANGED <<store, ver, lastRow, changed, faults>>

-----------------------------------------------------------------------------
(* The pipeline descriptions. *)

\* Mutant: INSERT OR IGNORE keeps the description a name already has.
SetPipelineIgnores(c) ==
    LET r == req[c]
        same == Named(work.pipelines, r.name)
        row == [name |-> r.name, desc |-> r.desc]
    IN  /\ r.op = "set_pipeline"
        /\ \/ Begin(c, "insert")
           \/ /\ pc[c] = "insert"
              /\ Write(c, [work EXCEPT !.pipelines = IF same = {} THEN @ \cup {row} ELSE @],
                       TRUE, NoRow, "end")
           \/ End(c, Ok)

SetPipeline(c) ==
    LET r == req[c]
        row == [name |-> r.name, desc |-> r.desc]
        others == work.pipelines \ Named(work.pipelines, r.name)
    IN  /\ r.op = "set_pipeline"
        /\ \/ Begin(c, "insert")
           \/ /\ pc[c] = "insert"
              /\ Write(c, [work EXCEPT !.pipelines = others \cup {row}], TRUE, NoRow, "end")
           \/ End(c, Ok)

GetPipeline(c) ==
    /\ req[c].op = "get_pipeline"
    /\ Select(c, Named(work.pipelines, req[c].name), FALSE)

DeletePipeline(c) ==
    LET rows == Named(work.pipelines, req[c].name)
    IN  /\ req[c].op = "delete_pipeline"
        /\ \/ /\ pc[c] = "delete"
              /\ Write(c, [work EXCEPT !.pipelines = @ \ rows], rows # {}, lastRow, "changes")
           \/ Changes(c)

-----------------------------------------------------------------------------
(* The models. *)

\* Mutant: the active version is not deactivated first.
DeactivatedNone(rows, n) == rows

\* UPDATE tblModel SET active = 'F' WHERE key = n
Deactivated(rows, n) ==
    {IF r.name = n THEN [r EXCEPT !.active = FALSE] ELSE r : r \in rows}

\* UPDATE tblModel SET active = 'T' WHERE key = n AND version = v
ActivatedAt(rows, n, v) ==
    {IF r.name = n /\ r.version = v THEN [r EXCEPT !.active = TRUE] ELSE r : r \in rows}

\* UPDATE tblModel SET description = d WHERE key = n AND version = v
DescribedAt(rows, n, v, d) ==
    {IF r.name = n /\ r.version = v THEN [r EXCEPT !.desc = d] ELSE r : r \in rows}

\* Mutant: versions that count from 0.
NewModelFromZero(r, v) ==
    [name |-> r.name, version |-> v - 1, active |-> r.active, path |-> r.path,
     desc |-> r.desc, app |-> r.app]

NewModel(r, v) ==
    [name |-> r.name, version |-> v, active |-> r.active, path |-> r.path,
     desc |-> r.desc, app |-> r.app]

\* SELECT version FROM tblModel WHERE rowid = <the last inserted row>
InsertedVersion ==
    {r.version : r \in {m \in work.models : m.name = lastRow.name /\ m.version = lastRow.version}}

SetModel(c) ==
    LET r == req[c]
        named == Named(work.models, r.name)
    IN  /\ r.op = "set_model"
        /\ \/ Begin(c, IF r.active THEN "deactivate" ELSE "insert")
           \/ /\ pc[c] = "deactivate"
              /\ Write(c, [work EXCEPT !.models = Deactivated(@, r.name)],
                       named # {}, lastRow, "insert")
           \/ /\ pc[c] = "insert"
              /\ \E v \in 1..MaxVersion :
                    /\ IsNext(Versions(work.models, r.name), v)
                    /\ Write(c, [work EXCEPT !.models = @ \cup {NewModel(r, v)}],
                             TRUE, [name |-> r.name, version |-> v], "version")
           \/ /\ pc[c] = "version"
              /\ \/ /\ Works
                    /\ \/ \E v \in InsertedVersion : ver' = [ver EXCEPT ![c] = v]
                       \/ InsertedVersion = {} /\ ver' = ver
                 \/ Fails("read") /\ ver' = ver
              /\ Goto(c, "end")
              /\ UNCHANGED <<store, lastRow, changed>>
           \/ End(c, IF ver[c] = 0 THEN EINVAL ELSE Answer("OK", ver[c], {}))

UpdateDescription(c) ==
    LET r == req[c]
    IN  /\ r.op = "update_description"
        /\ \/ Check(c, Registered(work.models, r.name, r.version), "begin")
           \/ Begin(c, "update")
           \/ /\ pc[c] = "update"
              /\ Write(c, [work EXCEPT !.models = DescribedAt(@, r.name, r.version, r.desc)],
                       Registered(work.models, r.name, r.version), lastRow, "end")
           \/ End(c, Ok)

ActivateModel(c) ==
    LET r == req[c]
    IN  /\ r.op = "activate_model"
        /\ \/ Check(c, Registered(work.models, r.name, r.version), "begin")
           \/ Begin(c, "deactivate")
           \/ /\ pc[c] = "deactivate"
              /\ Write(c, [work EXCEPT !.models = Deactivated(@, r.name)],
                       Named(work.models, r.name) # {}, lastRow, "activate")
           \/ /\ pc[c] = "activate"
              /\ Write(c, [work EXCEPT !.models = ActivatedAt(@, r.name, r.version)],
                       Registered(work.models, r.name, r.version), lastRow, "end")
           \/ End(c, Ok)

\* svcdb_model_get passes its guint version on as a gint; svcdb_model_get_activated
\* passes -1.
ToGint(u) == IF u <= GintMax THEN u ELSE u - (2 * GintMax + 2)

WantedVersion(r) == IF r.op = "get_activated" THEN -1 ELSE ToGint(r.version)

\* The rows get_model prints for the signed version w.
WantedModels(rows, n, w) ==
    CASE w = 0  -> Named(rows, n)
      [] w > 0  -> {r \in Named(rows, n) : r.version = w}
      [] w = -1 -> {r \in Named(rows, n) :
                      r.active /\ \A s \in Named(rows, n) : s.active => s.version <= r.version}
      [] OTHER  -> {}

GetModel(c) ==
    LET r == req[c]
        w == WantedVersion(r)
    IN  /\ r.op \in {"get_model", "get_activated"}
        /\ \/ Check(c, Registered(work.models, r.name, w) /\ w >= -1, "select")
           \/ Select(c, WantedModels(work.models, r.name, w), w = 0)

DeleteModel(c) ==
    LET r == req[c]
        rows == {m \in Named(work.models, r.name) : r.version > 0 => m.version = r.version}
    IN  /\ r.op = "delete_model"
        /\ \/ Check(c, Registered(work.models, r.name, r.version),
                    IF r.version > 0 /\ ~r.force THEN "guard" ELSE "delete")
           \/ /\ pc[c] = "guard"   \* is_model_activated: a failing SELECT answers no
              /\ \/ Works /\ Activated(work.models, r.name, r.version) /\ Return(c, EINVAL)
                 \/ Works /\ ~Activated(work.models, r.name, r.version) /\ Goto(c, "delete")
                 \/ Fails("read") /\ Goto(c, "delete")
              /\ UNCHANGED <<store, ver, lastRow, changed>>
           \/ /\ pc[c] = "delete"
              /\ Write(c, [work EXCEPT !.models = @ \ rows], rows # {}, lastRow, "changes")
           \/ Changes(c)

-----------------------------------------------------------------------------
(* The resources: one name has several paths, listed by rowid.  Replacing  *)
(* the row of a path gives it a new rowid.                                 *)

NewResource(r, i) ==
    [name |-> r.name, path |-> r.path, desc |-> r.desc, app |-> r.app, rowid |-> i]

\* Mutant: INSERT OR IGNORE keeps the row a path already has.
SetResourceIgnores(c) ==
    LET r == req[c]
        same == {s \in Named(work.resources, r.name) : s.path = r.path}
    IN  /\ r.op = "set_resource"
        /\ \/ Begin(c, "insert")
           \/ /\ pc[c] = "insert"
              /\ \E i \in 1..MaxRowid :
                    /\ IsNext(Rowids(work.resources), i)
                    /\ Write(c, [work EXCEPT !.resources = IF same = {} THEN @ \cup {NewResource(r, i)}
                                                                   ELSE @],
                             TRUE, NoRow, "end")
           \/ End(c, Ok)

SetResource(c) ==
    LET r == req[c]
        same == {s \in Named(work.resources, r.name) : s.path = r.path}
    IN  /\ r.op = "set_resource"
        /\ \/ Begin(c, "insert")
           \/ /\ pc[c] = "insert"
              /\ \E i \in 1..MaxRowid :
                    /\ IsNext(Rowids(work.resources), i)
                    /\ Write(c, [work EXCEPT !.resources = (@ \ same) \cup {NewResource(r, i)}],
                             TRUE, NoRow, "end")
           \/ End(c, Ok)

GetResource(c) ==
    LET r == req[c]
    IN  /\ r.op = "get_resource"
        /\ \/ Check(c, Registered(work.resources, r.name, 0), "select")
           \/ Select(c, Named(work.resources, r.name), TRUE)

DeleteResource(c) ==
    LET r == req[c]
        rows == Named(work.resources, r.name)
    IN  /\ r.op = "delete_resource"
        /\ \/ Check(c, Registered(work.resources, r.name, 0), "delete")
           \/ /\ pc[c] = "delete"
              /\ Write(c, [work EXCEPT !.resources = @ \ rows], rows # {}, lastRow, "changes")
           \/ Changes(c)

-----------------------------------------------------------------------------
(* Calls, the life of the connection, crashes. *)

\* The bounds MaxVersion and MaxRowid: no set_* call starts that could pass them.
Room(r) ==
    LET sets == Cardinality({c \in Callers : req[c].op = r.op})
    IN  /\ r.op = "set_model" =>
              \A v \in {0} \cup Versions(work.models \cup disk.models, r.name) :
                 v + sets < MaxVersion
        /\ r.op = "set_resource" =>
              \A i \in {0} \cup Rowids(work.resources \cup disk.resources) :
                 i + sets < MaxRowid

\* The argument checks are inside the operations.  A call without an open
\* database runs into the assertion of svcdb_get: it is a Crash.
Call(c) ==
    /\ conn = "open"
    /\ pc[c] = "idle"
    /\ \E r \in Requests :
          /\ Room(r)
          /\ \/ /\ ValidArgs(r)
                /\ pc' = [pc EXCEPT ![c] = Entry(r.op)]
                /\ req' = [req EXCEPT ![c] = r]
                /\ ret' = [ret EXCEPT ![c] = NoAnswer]
             \/ /\ ~ValidArgs(r)
                /\ ret' = [ret EXCEPT ![c] = EINVAL]
                /\ UNCHANGED <<pc, req>>
    /\ UNCHANGED <<store, conn, ver, lastRow, changed, faults, crashes>>

\* svcdb_initialize: closes an open connection first; initDB works in one
\* transaction that leaves the rows alone, and any failure closes again.
Initialize ==
    /\ Idle
    /\ Disconnect
    /\ \/ Works /\ conn' = "open"
       \/ Fails("open") /\ conn' = "closed"
    /\ lastRow' = NoRow
    /\ changed' = FALSE
    /\ UNCHANGED <<pc, req, ret, ver, crashes>>

\* svcdb_finalize
Finalize ==
    /\ Idle
    /\ Disconnect
    /\ conn' = "closed"
    /\ UNCHANGED <<pc, req, ret, ver, lastRow, changed, faults, crashes>>

\* The process dies: between any two statements, or in an assertion.
Crash ==
    /\ crashes < MaxCrashes
    /\ crashes' = crashes + 1
    /\ Disconnect
    /\ conn' = "closed"
    /\ pc' = [c \in Callers |-> "idle"]
    /\ req' = [c \in Callers |-> NoReq]
    /\ ret' = [c \in Callers |-> NoAnswer]
    /\ ver' = [c \in Callers |-> 0]
    /\ lastRow' = NoRow
    /\ changed' = FALSE
    /\ UNCHANGED faults

Init ==
    /\ disk = NoTables /\ work = NoTables /\ intx = FALSE
    /\ conn = "closed"
    /\ pc = [c \in Callers |-> "idle"]
    /\ req = [c \in Callers |-> NoReq]
    /\ ret = [c \in Callers |-> NoAnswer]
    /\ ver = [c \in Callers |-> 0]
    /\ lastRow = NoRow
    /\ changed = FALSE
    /\ faults = 0
    /\ crashes = 0

Step(c) ==
    \/ SetPipeline(c) \/ GetPipeline(c) \/ DeletePipeline(c)
    \/ SetModel(c) \/ UpdateDescription(c) \/ ActivateModel(c)
    \/ GetModel(c) \/ DeleteModel(c)
    \/ SetResource(c) \/ GetResource(c) \/ DeleteResource(c)

Next ==
    \/ \E c \in Callers : Call(c)
    \/ \E c \in Callers : Step(c) /\ UNCHANGED <<conn, crashes>>
    \/ Initialize
    \/ Finalize
    \/ Crash

Spec == Init /\ [][Next]_vars

-----------------------------------------------------------------------------
(* Safety. *)

OneActive(rows) == \A a, b \in rows : a.name = b.name /\ a.active /\ b.active => a = b

UniqueKeys(rows) == \A a, b \in rows : a.name = b.name /\ a.version = b.version => a = b

(* A model name never has two active versions, neither in the file (so not *)
(* after a crash either) nor for a reader on the connection, although      *)
(* set_model and activate_model take several statements to move the flag.  *)
AtMostOneActive == OneActive(disk.models) /\ OneActive(work.models)

(* The version number that IFNULL (max + 1, 1) computes is fresh: two      *)
(* registrations never end in one row, whoever else runs in between.       *)
OneRowPerVersion == UniqueKeys(disk.models) /\ UniqueKeys(work.models)

(* Transactions of several threads never overlap on the connection they    *)
(* share: a thread between BEGIN and END is the only one, and the          *)
(* transaction it believes in is open.                                     *)
InTransaction(c) == pc[c] \in InTxLabels

TransactionsExclusive ==
    \A c \in Callers : InTransaction(c) =>
        intx /\ \A d \in Callers : InTransaction(d) => d = c

(* What has been answered with success is in the file: the statements of   *)
(* set_pipeline, set_model, update_description, activate_model and         *)
(* set_resource all ran, and END committed them before the call returned.  *)
Acknowledges(c, op) == req[c].op = op /\ pc'[c] = "idle" /\ ret'[c].code = "OK"

Committed(c) ==
    LET r == req[c]
    IN  /\ Acknowledges(c, "set_pipeline") =>
              Named(disk'.pipelines, r.name) = {[name |-> r.name, desc |-> r.desc]}
        /\ Acknowledges(c, "set_model") => NewModel(r, ret'[c].version) \in disk'.models
        /\ Acknowledges(c, "update_description") =>
              \E m \in Named(disk'.models, r.name) : m.version = r.version /\ m.desc = r.desc
        /\ Acknowledges(c, "activate_model") => Activated(disk'.models, r.name, r.version)
        /\ Acknowledges(c, "set_resource") =>
              \E s \in Named(disk'.resources, r.name) :
                 /\ s.path = r.path /\ s.desc = r.desc
                 /\ \A t \in disk'.resources : t.rowid <= s.rowid

AcknowledgedSetsAreDurable == [][\A c \in Callers : Committed(c)]_vars

(* The same for the deletions, which run outside a transaction of their    *)
(* own: what was deleted with success is not in the file any more.         *)
Deleted(c) ==
    LET r == req[c]
    IN  /\ Acknowledges(c, "delete_pipeline") => Named(disk'.pipelines, r.name) = {}
        /\ Acknowledges(c, "delete_model") => ~Registered(disk'.models, r.name, r.version)
        /\ Acknowledges(c, "delete_resource") => Named(disk'.resources, r.name) = {}

AcknowledgedDeletesAreDurable == [][\A c \in Callers : Deleted(c)]_vars

(* Once a name has an active version in the file, it keeps one: writes     *)
(* that fail half-way, transactions that stay open and crashes included.   *)
(* Only delete_model with force, or of all versions, may end that; in the  *)
(* code so may one without force whose SELECT of is_model_activated fails  *)
(* (service-db.cc:702) or before whose DELETE another thread activates the *)
(* version, so this is for one caller and SELECTs that work.               *)
HasActive(rows, n) == \E m \in Named(rows, n) : m.active

MayDropActive(n) ==
    \E c \in Callers : /\ req[c].op = "delete_model" /\ pc[c] = "delete"
                       /\ req[c].name = n /\ (req[c].force \/ req[c].version = 0)

ActiveModelPersists ==
    [][\A n \in Names : HasActive(disk.models, n) /\ ~MayDropActive(n)
                            => HasActive(disk'.models, n)]_vars
=============================================================================
