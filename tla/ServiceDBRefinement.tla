------------------------ MODULE ServiceDBRefinement ------------------------
(***************************************************************************)
(* service-db.cc implements MLServiceStore.  The abstract tables are read  *)
(* off the committed image, so a request takes effect when its END, or its *)
(* DELETE outside a transaction, reaches the file.  A DELETE is answered   *)
(* one statement after it took effect (sqlite3_changes), hence asked and   *)
(* answer look ahead at the label "changes".                               *)
(***************************************************************************)
EXTENDS ServiceDB

\* The rows of a name, as the store lists them.
RowsByVersion(rows, n) ==
    [v \in Versions(rows, n) |->
        LET m == CHOOSE m \in Named(rows, n) : m.version = v
        IN  [path |-> m.path, desc |-> m.desc, app |-> m.app]]

ActiveVersion(rows, n) ==
    LET flagged == {m \in Named(rows, n) : m.active}
    IN  IF flagged = {} THEN 0 ELSE (CHOOSE m \in flagged : TRUE).version

Description(rows, n) ==
    IF Named(rows, n) = {} THEN Empty ELSE (CHOOSE p \in Named(rows, n) : TRUE).desc

Place(s, rows) == Cardinality({t \in rows : t.rowid <= s.rowid})

ByRowid(rows) ==
    [i \in 1..Cardinality(rows) |->
        LET s == CHOOSE s \in rows : Place(s, rows) = i
        IN  [path |-> s.path, desc |-> s.desc, app |-> s.app]]

\* The abstract tables that the tables d stand for.
ModelsIn(d) == [n \in Names |-> RowsByVersion(d.models, n)]
ActiveIn(d) == [n \in Names |-> ActiveVersion(d.models, n)]
PipelinesIn(d) == [n \in Names |-> Description(d.pipelines, n)]
ResourcesIn(d) == [n \in Names |-> ByRowid(Named(d.resources, n))]

\* A printed resource row shows its place in the list, not its rowid.
Printed(rows) ==
    {IF "rowid" \in DOMAIN s
     THEN [name |-> s.name, place |-> Place(s, rows), path |-> s.path,
           desc |-> s.desc, app |-> s.app]
     ELSE s : s \in rows}

AnswerOf(c) ==
    IF pc[c] = "changes" THEN (IF changed THEN Ok ELSE EINVAL)
                         ELSE [ret[c] EXCEPT !.rows = Printed(@)]

Store == INSTANCE MLServiceStore WITH
    Clients   <- Callers,
    Requests  <- {r \in Requests : ValidArgs(r)},
    Minus1    <- UintMax,
    models    <- ModelsIn(disk),
    active    <- ActiveIn(disk),
    pipelines <- PipelinesIn(disk),
    resources <- ResourcesIn(disk),
    asked     <- [c \in Callers |-> IF pc[c] = "changes" THEN NoReq ELSE req[c]],
    answer    <- [c \in Callers |-> AnswerOf(c)]

(* For one caller, whatever BEGIN refuses, whatever statement SQLite rolls *)
(* back and wherever the process dies, the database serves every request   *)
(* in one step with the answer the abstract store gives, or fails it       *)
(* without a trace.                                                        *)
ImplementsStore == Store!Spec

(* For one caller and every kind of failure, the file only ever changes by *)
(* the whole effect of one request: no failing statement and no crash      *)
(* leaves half of set_model, activate_model or set_resource behind.        *)
TablesChangeAtomically == Store!TablesSpec
=============================================================================
