--------------------------- MODULE ServiceDBProofs ---------------------------
(***************************************************************************)
(* For any set of callers, names, paths and versions, any faults and any   *)
(* crashes: the store is well-typed, transactions exclude each other, and  *)
(* a model name never has two active versions.                             *)
(*                                                                         *)
(* The inductive invariant adds to these what a caller may rely on between *)
(* two statements: nothing is pending outside a transaction, a request     *)
(* under way passed its argument checks, and after the UPDATE that clears  *)
(* the flags no version of the name is active until the caller sets one.   *)
(***************************************************************************)
EXTENDS ServiceDB, TLAPS

StoreOK ==
    /\ disk \in Tables /\ work \in Tables /\ intx \in BOOLEAN
    /\ NothingPending
    /\ AtMostOneActive
    /\ OneRowPerVersion

\* c is about to flag a version of its model and every flag is down.
Cleared(c) ==
    /\ pc[c] = "activate" => ~HasActive(work.models, req[c].name)
    /\ pc[c] = "insert" /\ req[c].op = "set_model" /\ req[c].active
          => ~HasActive(work.models, req[c].name)

CallOK(c) == req[c] # NoReq => ValidArgs(req[c])

Typed ==
    /\ pc \in [Callers -> Labels]
    /\ req \in [Callers -> Requests \cup {NoReq}]
    /\ ver \in [Callers -> 0..MaxVersion]
    /\ DOMAIN ret = Callers /\ \A c \in Callers : ret[c].code \in Codes
    /\ lastRow \in {NoRow} \cup [name : Names, version : 1..MaxVersion]
    /\ changed \in BOOLEAN
    /\ faults \in 0..MaxFaults

IInv ==
    /\ StoreOK
    /\ Typed
    /\ conn \in {"open", "closed"} /\ crashes \in 0..MaxCrashes
    /\ \A c \in Callers : CallOK(c) /\ Cleared(c)
    /\ TransactionsExclusive

-----------------------------------------------------------------------------
(* What one statement of c does to the store and to c's place in its call. *)

\* The call of c moves on or returns; the calls of others stay where they are.
Moves(c) ==
    /\ pc' \in [Callers -> Labels]
    /\ req' \in [Callers -> Requests \cup {NoReq}]
    /\ DOMAIN ret' = Callers /\ \A d \in Callers : ret'[d].code \in Codes
    /\ \A d \in Callers : d # c => pc'[d] = pc[d] /\ req'[d] = req[d]
    /\ CallOK(c)'

Local(c) == Moves(c) /\ Typed' /\ Cleared(c)'

StoreStep(c) ==
    \/ UNCHANGED store /\ (InTransaction(c)' => InTransaction(c))
    \/ /\ \E t \in Tables : Execute(t) /\ t.models \subseteq work.models
       /\ ~InTransaction(c)'
    \/ /\ \E t \in Tables : Execute(t) /\ OneActive(t.models) /\ UniqueKeys(t.models)
       /\ InTransaction(c)
    \/ BeginTransaction /\ ~InTransaction(c)
    \/ EndTransaction /\ InTransaction(c) /\ ~InTransaction(c)'
    \/ AutoRollback /\ ~InTransaction(c)' /\ \A d \in Callers : d = c

-----------------------------------------------------------------------------
(* Rows *)

\* The fields of a request that passed the argument checks.
LEMMA RequestFields ==
    ASSUME NEW r \in Requests \cup {NoReq}, r # NoReq => ValidArgs(r)
    PROVE  /\ r.op # "none" => r.name \in Names
           /\ r.op = "set_pipeline" => r.desc \in Descs
           /\ r.op = "set_model" =>
                 /\ r.path \in Paths /\ r.active \in BOOLEAN
                 /\ r.desc \in Descs \cup {Empty} /\ r.app \in Apps
           /\ r.op = "update_description" => r.version \in 1..MaxVersion /\ r.desc \in Descs
           /\ r.op = "activate_model" => r.version \in 1..MaxVersion
           /\ r.op = "delete_model" => r.version \in 0..MaxVersion /\ r.force \in BOOLEAN
           /\ r.op = "set_resource" =>
                 r.path \in Paths /\ r.desc \in Descs \cup {Empty} /\ r.app \in Apps
  BY BoundsAssumption DEF Requests, NoReq, ValidArgs

\* UPDATE ... SET active = 'F' clears the name and disturbs nothing else.
LEMMA DeactivatedRows ==
    ASSUME NEW rows \in SUBSET ModelRow, NEW n,
           OneActive(rows), UniqueKeys(rows)
    PROVE  /\ Deactivated(rows, n) \in SUBSET ModelRow
           /\ OneActive(Deactivated(rows, n)) /\ UniqueKeys(Deactivated(rows, n))
           /\ ~HasActive(Deactivated(rows, n), n)
<1> DEFINE f(r) == IF r.name = n THEN [r EXCEPT !.active = FALSE] ELSE r
<1>1. \A r \in rows : /\ f(r) \in ModelRow /\ f(r).name = r.name /\ f(r).version = r.version
                      /\ f(r).active => r.active /\ r.name # n
  BY DEF ModelRow
<1>2. Deactivated(rows, n) = {f(r) : r \in rows}
  BY DEF Deactivated
<1> HIDE DEF f
<1> QED  BY <1>1, <1>2 DEF OneActive, UniqueKeys, HasActive, Named

\* UPDATE ... SET active = 'T' flags one row, since version is a key of the name.
LEMMA ActivatedRows ==
    ASSUME NEW rows \in SUBSET ModelRow, NEW n, NEW v,
           OneActive(rows), UniqueKeys(rows), ~HasActive(rows, n)
    PROVE  /\ ActivatedAt(rows, n, v) \in SUBSET ModelRow
           /\ OneActive(ActivatedAt(rows, n, v)) /\ UniqueKeys(ActivatedAt(rows, n, v))
<1> DEFINE f(r) == IF r.name = n /\ r.version = v THEN [r EXCEPT !.active = TRUE] ELSE r
<1>1. \A r \in rows : /\ f(r) \in ModelRow /\ f(r).name = r.name /\ f(r).version = r.version
                      /\ f(r).active => r.active \/ (r.name = n /\ r.version = v)
  BY DEF ModelRow
<1>2. ActivatedAt(rows, n, v) = {f(r) : r \in rows}
  BY DEF ActivatedAt
<1>3. \A r \in rows : r.name = n => ~r.active
  BY DEF HasActive, Named
<1> HIDE DEF f
<1> QED  BY <1>1, <1>2, <1>3 DEF OneActive, UniqueKeys

\* The rows update_model_description writes keep types, keys and the active row.
LEMMA DescribedRows ==
    ASSUME NEW rows \in SUBSET ModelRow, NEW n, NEW v, NEW d \in Descs,
           OneActive(rows), UniqueKeys(rows)
    PROVE  /\ DescribedAt(rows, n, v, d) \in SUBSET ModelRow
           /\ OneActive(DescribedAt(rows, n, v, d)) /\ UniqueKeys(DescribedAt(rows, n, v, d))
<1> DEFINE f(r) == IF r.name = n /\ r.version = v THEN [r EXCEPT !.desc = d] ELSE r
<1>1. \A r \in rows : /\ f(r) \in ModelRow /\ f(r).name = r.name
                      /\ f(r).version = r.version /\ f(r).active = r.active
  BY DEF ModelRow
<1>2. DescribedAt(rows, n, v, d) = {f(r) : r \in rows}
  BY DEF DescribedAt
<1> HIDE DEF f
<1> QED  BY <1>1, <1>2 DEF OneActive, UniqueKeys

\* The version IsNext picks is fresh, so the new row has a key of its own.
LEMMA InsertedRow ==
    ASSUME NEW rows \in SUBSET ModelRow, NEW m \in ModelRow,
           IsNext(Versions(rows, m.name), m.version),
           m.active => ~HasActive(rows, m.name),
           OneActive(rows), UniqueKeys(rows)
    PROVE  OneActive(rows \cup {m}) /\ UniqueKeys(rows \cup {m})
<1>1. \A r \in rows : r.name = m.name => r.version # m.version
  BY DEF IsNext, Versions, Named, ModelRow
<1>2. \A r \in rows : r.name = m.name /\ r.active => ~m.active
  BY DEF HasActive, Named
<1> QED  BY <1>1, <1>2 DEF OneActive, UniqueKeys

\* A step of the store keeps it well-typed and keeps both invariants of the rows.
LEMMA StoreStepOK ==
    ASSUME IInv, NEW c \in Callers, StoreStep(c)
    PROVE  StoreOK'
<1> USE DEF StoreOK, NothingPending, AtMostOneActive, OneRowPerVersion, IInv
<1>1. CASE UNCHANGED store
  BY <1>1 DEF store
<1>2. ASSUME NEW t \in Tables, Execute(t), OneActive(t.models), UniqueKeys(t.models)
      PROVE  StoreOK'
  BY <1>2 DEF Execute
<1>3. ASSUME NEW t \in Tables, Execute(t), t.models \subseteq work.models
      PROVE  StoreOK'
  <2>1. OneActive(t.models) /\ UniqueKeys(t.models)
    BY <1>3 DEF OneActive, UniqueKeys
  <2> QED  BY <2>1, <1>2, <1>3
<1>4. CASE BeginTransaction \/ EndTransaction \/ AutoRollback
  BY <1>4 DEF BeginTransaction, EndTransaction, AutoRollback, CanBegin, CanEnd
<1> QED  BY <1>1, <1>2, <1>3, <1>4 DEF StoreStep

-----------------------------------------------------------------------------
(* Callers *)

\* Going on to another statement of the same call moves only that caller.
LEMMA GotoMoves ==
    ASSUME IInv, NEW c \in Callers, NEW label \in Labels, Goto(c, label)
    PROVE  Moves(c) /\ pc'[c] = label /\ req'[c] = req[c]
  BY DEF IInv, Typed, Goto, Moves, CallOK, ValidArgs

\* Returning with an answer moves only that caller, back to idle.
LEMMA ReturnMoves ==
    ASSUME IInv, NEW c \in Callers, NEW a, a.code \in Codes, Return(c, a)
    PROVE  Moves(c) /\ pc'[c] = "idle" /\ req'[c] = NoReq
  BY DEF IInv, Typed, Return, Moves, CallOK, Labels

\* Every answer a call can give is one of the codes.
LEMMA AnswerCodes ==
    /\ Ok.code \in Codes /\ EINVAL.code \in Codes /\ EIO.code \in Codes
    /\ NoAnswer.code \in Codes
    /\ \A v, rows : Answer("OK", v, rows).code \in Codes
  BY DEF Ok, EINVAL, EIO, NoAnswer, Answer, Codes

\* A statement that works or fails keeps the count of faults in its bound.
LEMMA FaultsTyped ==
    ASSUME faults \in 0..MaxFaults, Works \/ \E kind : Fails(kind)
    PROVE  faults' \in 0..MaxFaults
  BY BoundsAssumption DEF Works, Fails

\* Another caller's place is safe from a step of c: if d is inside its transaction,
\* c is outside, and the only write c may do there deletes rows.
LEMMA CallerStep ==
    ASSUME IInv, NEW c \in Callers, StoreStep(c), Local(c),
           conn' = conn, crashes' = crashes
    PROVE  IInv'
<1>1. StoreOK'
  BY StoreStepOK
<1>2. Typed' /\ conn' \in {"open", "closed"} /\ crashes' \in 0..MaxCrashes
  BY DEF IInv, Local
<1>3. ASSUME NEW d \in Callers, InTransaction(d), d # c
      PROVE  /\ ~InTransaction(c) /\ ~InTransaction(c)' /\ intx'
             /\ work'.models \subseteq work.models
  <2>1. intx /\ ~InTransaction(c)
    BY <1>3 DEF IInv, TransactionsExclusive
  <2>2. CASE UNCHANGED store /\ (InTransaction(c)' => InTransaction(c))
    BY <2>1, <2>2 DEF store
  <2>3. CASE \E t \in Tables : Execute(t) /\ t.models \subseteq work.models /\ ~InTransaction(c)'
    BY <2>1, <2>3 DEF Execute
  <2> QED  BY <2>1, <2>2, <2>3, <1>3 DEF StoreStep, BeginTransaction, CanBegin
<1>4. ASSUME NEW d \in Callers PROVE CallOK(d)' /\ Cleared(d)'
  <2>1. CASE d = c
    BY <2>1 DEF Local, Moves
  <2>2. CASE d # c
    <3>1. pc'[d] = pc[d] /\ req'[d] = req[d]
      BY <2>2 DEF Local, Moves
    <3>2. CallOK(d)'
      BY <3>1 DEF IInv, CallOK, ValidArgs
    <3>3. CASE InTransaction(d)
      <4>1. work'.models \subseteq work.models
        BY <2>2, <3>3, <1>3
      <4> QED  BY <3>1, <3>2, <4>1 DEF IInv, Cleared, HasActive, Named
    <3>4. CASE ~InTransaction(d)
      BY <3>1, <3>2, <3>4 DEF Cleared, InTransaction, InTxLabels
    <3> QED  BY <3>3, <3>4
  <2> QED  BY <2>1, <2>2
<1>5. TransactionsExclusive'
  <2> SUFFICES ASSUME NEW d \in Callers, InTransaction(d)'
               PROVE  intx' /\ \A e \in Callers : InTransaction(e)' => e = d
    BY DEF TransactionsExclusive, InTransaction
  <2>1. \A e \in Callers : e # c => (InTransaction(e)' <=> InTransaction(e))
    BY DEF Local, Moves, InTransaction
  <2>2. CASE d # c
    BY <2>1, <2>2, <1>3 DEF IInv, TransactionsExclusive
  <2>3. CASE d = c
    <3>1. \A e \in Callers : InTransaction(e)' => e = c
      BY <2>1, <2>3, <1>3
    <3>2. CASE InTransaction(c)
      BY <2>3, <3>1, <3>2
         DEF IInv, TransactionsExclusive, StoreStep, store, Execute, BeginTransaction
    <3>3. CASE ~InTransaction(c)
      BY <2>3, <3>1, <3>3 DEF StoreStep, BeginTransaction
    <3> QED  BY <3>2, <3>3
  <2> QED  BY <2>2, <2>3
<1> QED  BY <1>1, <1>2, <1>4, <1>5 DEF IInv

-----------------------------------------------------------------------------
(* The statements *)

\* An is_*_registered check, failing or not, keeps the caller well formed.
LEMMA CheckStep ==
    ASSUME IInv, NEW c \in Callers, NEW found, NEW next \in Labels \ InTxLabels,
           Check(c, found, next)
    PROVE  StoreStep(c) /\ Local(c)
<1>1. Moves(c) /\ pc'[c] \in {next, "idle"}
  BY GotoMoves, ReturnMoves, AnswerCodes DEF Check
<1>2. Typed'
  BY <1>1, FaultsTyped DEF Check, IInv, Typed, Moves
<1> QED  BY <1>1, <1>2 DEF Check, StoreStep, Local, Cleared, InTransaction, InTxLabels

\* A SELECT, failing or not, keeps the caller well formed.
LEMMA SelectStep ==
    ASSUME IInv, NEW c \in Callers, NEW rows, NEW aggregate, Select(c, rows, aggregate)
    PROVE  StoreStep(c) /\ Local(c)
<1>1. Moves(c) /\ pc'[c] = "idle"
  BY ReturnMoves, AnswerCodes DEF Select
<1>2. Typed'
  BY <1>1, FaultsTyped DEF Select, IInv, Typed, Moves
<1> QED  BY <1>1, <1>2 DEF Select, StoreStep, Local, Cleared, InTransaction, InTxLabels

\* Reading sqlite3_changes keeps the caller well formed.
LEMMA ChangesStep ==
    ASSUME IInv, NEW c \in Callers, Changes(c)
    PROVE  StoreStep(c) /\ Local(c)
<1>1. Moves(c) /\ pc'[c] = "idle"
  BY ReturnMoves, AnswerCodes DEF Changes
<1>2. Typed'
  BY <1>1 DEF Changes, IInv, Typed, Moves
<1> QED  BY <1>1, <1>2 DEF Changes, StoreStep, Local, Cleared, InTransaction, InTxLabels

\* BEGIN opens a transaction for a caller while no other caller is inside one.
LEMMA BeginStep ==
    ASSUME IInv, NEW c \in Callers, NEW next \in Labels \ {"activate"},
           Begin(c, next),
           next = "insert" => ~(req[c].op = "set_model" /\ req[c].active)
    PROVE  StoreStep(c) /\ Local(c)
<1>1. /\ Moves(c) /\ req'[c] \in {req[c], NoReq}
      /\ pc'[c] = "idle" \/ (BeginTransaction /\ pc'[c] = next /\ req'[c] = req[c])
  BY GotoMoves, ReturnMoves, AnswerCodes DEF Begin
<1>2. Typed'
  BY <1>1, FaultsTyped DEF Begin, IInv, Typed, Moves
<1>3. Cleared(c)'
  BY <1>1 DEF Cleared, NoReq
<1>4. StoreStep(c)
  BY <1>1 DEF Begin, StoreStep, InTransaction, InTxLabels
<1> QED  BY <1>1, <1>2, <1>3, <1>4 DEF Local

\* END closes the transaction of its caller, and its failure leaves it open.
LEMMA EndStep ==
    ASSUME IInv, NEW c \in Callers, NEW a, a.code \in Codes, End(c, a)
    PROVE  StoreStep(c) /\ Local(c)
<1>1. Moves(c) /\ pc'[c] = "idle"
  BY ReturnMoves, AnswerCodes DEF End
<1>2. Typed'
  <2>1. faults' \in 0..MaxFaults
    BY FaultsTyped DEF End, IInv, Typed
  <2>2. ver' \in [Callers -> 0..MaxVersion]
    BY BoundsAssumption DEF End, IInv, Typed
  <2> QED  BY <1>1, <2>1, <2>2 DEF End, IInv, Typed, Moves
<1>3. Fails("rollback") => \A d \in Callers : d = c
  BY RollbackAssumption DEF Fails
<1> QED  BY <1>1, <1>2, <1>3
         DEF End, StoreStep, Local, Cleared, InTransaction, InTxLabels

\* A write inside or outside a transaction keeps the tables if its rows are good.
LEMMA WriteStep ==
    ASSUME IInv, NEW c \in Callers, NEW t \in Tables, NEW affected \in BOOLEAN,
           NEW row \in {NoRow} \cup [name : Names, version : 1..MaxVersion],
           NEW next \in Labels, Write(c, t, affected, row, next),
           \/ InTransaction(c) /\ OneActive(t.models) /\ UniqueKeys(t.models)
           \/ t.models \subseteq work.models /\ next \notin InTxLabels,
           next = "activate" => ~HasActive(t.models, req[c].name),
           next = "insert" /\ req[c].op = "set_model" => ~HasActive(t.models, req[c].name)
    PROVE  StoreStep(c) /\ Local(c)
<1>1. CASE Works /\ Execute(t) /\ changed' = affected /\ lastRow' = row /\ Goto(c, next)
  <2>1. Moves(c) /\ pc'[c] = next /\ req'[c] = req[c]
    BY <1>1, GotoMoves
  <2>2. Typed'
    BY <1>1, <2>1, FaultsTyped DEF Write, IInv, Typed, Moves
  <2>3. Cleared(c)'
    BY <1>1, <2>1 DEF Cleared, Execute, HasActive, Named
  <2>4. StoreStep(c)
    BY <1>1, <2>1 DEF StoreStep, InTransaction
  <2> QED  BY <2>1, <2>2, <2>3, <2>4 DEF Local
<1>2. CASE /\ \/ Fails("write") /\ UNCHANGED store
              \/ Fails("rollback") /\ AutoRollback
           /\ UNCHANGED <<changed, lastRow>>
           /\ Return(c, EIO)
  <2>1. Moves(c) /\ pc'[c] = "idle"
    BY <1>2, ReturnMoves, AnswerCodes
  <2>2. Typed'
    BY <1>2, <2>1, FaultsTyped DEF Write, IInv, Typed, Moves
  <2>3. Fails("rollback") => \A d \in Callers : d = c
    BY RollbackAssumption DEF Fails
  <2> QED  BY <1>2, <2>1, <2>2, <2>3
           DEF StoreStep, Local, Cleared, InTransaction, InTxLabels
<1> QED  BY <1>1, <1>2 DEF Write

-----------------------------------------------------------------------------
(* The operations *)

\* Unchanged models keep both invariants of the rows.
LEMMA SameModels ==
    ASSUME IInv, NEW t, t.models = work.models
    PROVE  OneActive(t.models) /\ UniqueKeys(t.models)
  BY DEF IInv, StoreOK, AtMostOneActive, OneRowPerVersion

\* A caller with a request under way has well-typed arguments.
LEMMA ArgsTyped ==
    ASSUME IInv, NEW c \in Callers, req[c].op # "none"
    PROVE  req[c] \in Requests /\ ValidArgs(req[c])
  BY DEF IInv, Typed, CallOK, NoReq

\* set_pipeline preserves the invariant.
LEMMA SetPipelineStep ==
    ASSUME IInv, NEW c \in Callers, SetPipeline(c)
    PROVE  StoreStep(c) /\ Local(c)
<1> DEFINE r == req[c]
           row == [name |-> r.name, desc |-> r.desc]
           t == [work EXCEPT !.pipelines =
                   (work.pipelines \ Named(work.pipelines, r.name)) \cup {row}]
<1>1. r.op = "set_pipeline" /\ r.name \in Names /\ r.desc \in Descs
  BY ArgsTyped, RequestFields DEF SetPipeline
<1>2. CASE Begin(c, "insert")
  BY <1>1, <1>2, BeginStep DEF Labels
<1>3. CASE pc[c] = "insert" /\ Write(c, t, TRUE, NoRow, "end")
  <2>1. t \in Tables /\ t.models = work.models
    BY <1>1 DEF IInv, StoreOK, Tables, PipelineRow, Named
  <2>2. InTransaction(c) /\ OneActive(t.models) /\ UniqueKeys(t.models)
    BY <1>3, <2>1, SameModels DEF InTransaction, InTxLabels
  <2> HIDE DEF t
  <2> QED  BY <1>3, <2>1, <2>2, WriteStep DEF Labels
<1>4. CASE End(c, Ok)
  BY <1>4, EndStep, AnswerCodes
<1> QED  BY <1>2, <1>3, <1>4 DEF SetPipeline

\* get_pipeline preserves the invariant.
LEMMA GetPipelineStep ==
    ASSUME IInv, NEW c \in Callers, GetPipeline(c)
    PROVE  StoreStep(c) /\ Local(c)
  BY SelectStep DEF GetPipeline

\* delete_pipeline preserves the invariant.
LEMMA DeletePipelineStep ==
    ASSUME IInv, NEW c \in Callers, DeletePipeline(c)
    PROVE  StoreStep(c) /\ Local(c)
<1> DEFINE rows == Named(work.pipelines, req[c].name)
           t == [work EXCEPT !.pipelines = work.pipelines \ rows]
<1>1. CASE pc[c] = "delete" /\ Write(c, t, rows # {}, lastRow, "changes")
  <2>1. t \in Tables /\ t.models \subseteq work.models
    BY DEF IInv, StoreOK, Tables
  <2>2. lastRow \in {NoRow} \cup [name : Names, version : 1..MaxVersion]
    BY DEF IInv, Typed
  <2> HIDE DEF t, rows
  <2> QED  BY <1>1, <2>1, <2>2, WriteStep DEF Labels, InTxLabels
<1>2. CASE Changes(c)
  BY <1>2, ChangesStep
<1> QED  BY <1>1, <1>2 DEF DeletePipeline

\* The tables after a statement on the models.
LEMMA ModelTables ==
    ASSUME IInv, NEW rows \in SUBSET ModelRow
    PROVE  /\ [work EXCEPT !.models = rows] \in Tables
           /\ [work EXCEPT !.models = rows].models = rows
  BY DEF IInv, StoreOK, Tables

\* Good model rows have one active row per name and distinct keys.
LEMMA ModelRows ==
    ASSUME IInv
    PROVE  /\ work.models \in SUBSET ModelRow
           /\ OneActive(work.models) /\ UniqueKeys(work.models)
           /\ lastRow \in {NoRow} \cup [name : Names, version : 1..MaxVersion]
  BY DEF IInv, StoreOK, Tables, AtMostOneActive, OneRowPerVersion, Typed

\* The UPDATE that clears the flags, of set_model and of activate_model.
LEMMA DeactivateStep ==
    ASSUME IInv, NEW c \in Callers, pc[c] = "deactivate", NEW affected \in BOOLEAN,
           NEW next \in {"insert", "activate"},
           Write(c, [work EXCEPT !.models = Deactivated(work.models, req[c].name)],
                 affected, lastRow, next)
    PROVE  StoreStep(c) /\ Local(c)
<1> DEFINE rows == Deactivated(work.models, req[c].name)
           t == [work EXCEPT !.models = rows]
<1>1. /\ rows \in SUBSET ModelRow /\ OneActive(rows) /\ UniqueKeys(rows)
      /\ ~HasActive(rows, req[c].name)
  BY ModelRows, DeactivatedRows
<1> HIDE DEF rows
<1>2. t \in Tables /\ t.models = rows
  BY <1>1, ModelTables
<1>3. InTransaction(c) /\ next \in Labels
  BY DEF InTransaction, InTxLabels, Labels
<1>4. Write(c, t, affected, lastRow, next)
  BY DEF rows
<1> HIDE DEF t
<1> QED  BY <1>1, <1>2, <1>3, <1>4, ModelRows, WriteStep

\* set_model, statement by statement, preserves the invariant.
LEMMA SetModelStep ==
    ASSUME IInv, NEW c \in Callers, SetModel(c)
    PROVE  StoreStep(c) /\ Local(c)
<1> DEFINE r == req[c]
<1>1. /\ r.op = "set_model" /\ r.name \in Names /\ r.path \in Paths
      /\ r.active \in BOOLEAN /\ r.desc \in Descs \cup {Empty} /\ r.app \in Apps
  BY ArgsTyped, RequestFields DEF SetModel
<1>2. CASE Begin(c, IF r.active THEN "deactivate" ELSE "insert")
  BY <1>1, <1>2, BeginStep DEF Labels
<1>3. CASE /\ pc[c] = "deactivate"
           /\ Write(c, [work EXCEPT !.models = Deactivated(work.models, r.name)],
                    Named(work.models, r.name) # {}, lastRow, "insert")
  BY <1>3, DeactivateStep
<1>4. ASSUME pc[c] = "insert", NEW v \in 1..MaxVersion,
             IsNext(Versions(work.models, r.name), v),
             Write(c, [work EXCEPT !.models = work.models \cup {NewModel(r, v)}],
                   TRUE, [name |-> r.name, version |-> v], "version")
      PROVE  StoreStep(c) /\ Local(c)
  <2> DEFINE m == NewModel(r, v)
             rows == work.models \cup {m}
             t == [work EXCEPT !.models = rows]
  <2>1. m \in ModelRow /\ m.name = r.name /\ m.version = v /\ m.active = r.active
    BY <1>1 DEF NewModel, ModelRow
  <2>2. r.active => ~HasActive(work.models, r.name)
    BY <1>1, <1>4 DEF IInv, Cleared
  <2> HIDE DEF m
  <2>3. rows \in SUBSET ModelRow /\ OneActive(rows) /\ UniqueKeys(rows)
    BY <1>4, <2>1, <2>2, ModelRows, InsertedRow
  <2>4. t \in Tables /\ t.models = rows
    BY <2>3, ModelTables
  <2>5. Write(c, t, TRUE, [name |-> r.name, version |-> v], "version")
    BY <1>4 DEF m
  <2>6. InTransaction(c) /\ "version" \in Labels
    BY <1>4 DEF InTransaction, InTxLabels, Labels
  <2>7. [name |-> r.name, version |-> v] \in {NoRow} \cup [name : Names, version : 1..MaxVersion]
    BY <1>1
  <2> HIDE DEF t, rows
  <2> QED  BY <2>3, <2>4, <2>5, <2>6, <2>7, WriteStep
<1>5. CASE /\ pc[c] = "version"
           /\ \/ /\ Works
                 /\ \/ \E v \in InsertedVersion : ver' = [ver EXCEPT ![c] = v]
                    \/ InsertedVersion = {} /\ ver' = ver
              \/ Fails("read") /\ ver' = ver
           /\ Goto(c, "end")
           /\ UNCHANGED <<store, lastRow, changed>>
  <2>1. Moves(c) /\ pc'[c] = "end"
    BY <1>5, GotoMoves DEF Labels
  <2>2. InsertedVersion \subseteq 0..MaxVersion
    BY ModelRows, BoundsAssumption DEF InsertedVersion, ModelRow
  <2>3. faults' \in 0..MaxFaults
    BY <1>5, FaultsTyped DEF IInv, Typed
  <2>4. ver' \in [Callers -> 0..MaxVersion]
    BY <1>5, <2>2 DEF IInv, Typed
  <2>5. Typed'
    BY <1>5, <2>1, <2>3, <2>4 DEF IInv, Typed, Moves
  <2> QED  BY <1>5, <2>1, <2>5 DEF StoreStep, Local, Cleared, InTransaction, InTxLabels
<1>6. CASE End(c, IF ver[c] = 0 THEN EINVAL ELSE Answer("OK", ver[c], {}))
  BY <1>6, EndStep, AnswerCodes
<1> QED  BY <1>2, <1>3, <1>4, <1>5, <1>6 DEF SetModel

\* update_model_description preserves the invariant.
LEMMA UpdateDescriptionStep ==
    ASSUME IInv, NEW c \in Callers, UpdateDescription(c)
    PROVE  StoreStep(c) /\ Local(c)
<1> DEFINE r == req[c]
           found == Registered(work.models, r.name, r.version)
           rows == DescribedAt(work.models, r.name, r.version, r.desc)
           t == [work EXCEPT !.models = rows]
<1>1. r.op = "update_description" /\ r.desc \in Descs
  BY ArgsTyped, RequestFields DEF UpdateDescription
<1>2. CASE Check(c, found, "begin")
  BY <1>2, CheckStep DEF Labels, InTxLabels
<1>3. CASE Begin(c, "update")
  BY <1>3, BeginStep DEF Labels
<1>4. CASE pc[c] = "update" /\ Write(c, t, found, lastRow, "end")
  <2>1. rows \in SUBSET ModelRow /\ OneActive(rows) /\ UniqueKeys(rows)
    BY <1>1, ModelRows, DescribedRows
  <2> HIDE DEF rows
  <2>2. t \in Tables /\ t.models = rows
    BY <2>1, ModelTables
  <2>3. InTransaction(c) /\ "end" \in Labels /\ found \in BOOLEAN
    BY <1>4 DEF InTransaction, InTxLabels, Labels, Registered
  <2> HIDE DEF t, found
  <2> QED  BY <1>4, <2>1, <2>2, <2>3, ModelRows, WriteStep
<1>5. CASE End(c, Ok)
  BY <1>5, EndStep, AnswerCodes
<1> QED  BY <1>2, <1>3, <1>4, <1>5 DEF UpdateDescription

\* activate_model preserves the invariant.
LEMMA ActivateModelStep ==
    ASSUME IInv, NEW c \in Callers, ActivateModel(c)
    PROVE  StoreStep(c) /\ Local(c)
<1> DEFINE r == req[c]
           found == Registered(work.models, r.name, r.version)
           rows == ActivatedAt(work.models, r.name, r.version)
           t == [work EXCEPT !.models = rows]
<1>1. CASE Check(c, found, "begin")
  BY <1>1, CheckStep DEF Labels, InTxLabels
<1>2. CASE Begin(c, "deactivate")
  BY <1>2, BeginStep DEF Labels
<1>3. CASE /\ pc[c] = "deactivate"
           /\ Write(c, [work EXCEPT !.models = Deactivated(work.models, r.name)],
                    Named(work.models, r.name) # {}, lastRow, "activate")
  BY <1>3, DeactivateStep
<1>4. CASE pc[c] = "activate" /\ Write(c, t, found, lastRow, "end")
  <2>1. ~HasActive(work.models, r.name)
    BY <1>4 DEF IInv, Cleared
  <2>2. rows \in SUBSET ModelRow /\ OneActive(rows) /\ UniqueKeys(rows)
    BY <2>1, ModelRows, ActivatedRows
  <2> HIDE DEF rows
  <2>3. t \in Tables /\ t.models = rows
    BY <2>2, ModelTables
  <2>4. InTransaction(c) /\ "end" \in Labels /\ found \in BOOLEAN
    BY <1>4 DEF InTransaction, InTxLabels, Labels, Registered
  <2> HIDE DEF t, found
  <2> QED  BY <1>4, <2>2, <2>3, <2>4, ModelRows, WriteStep
<1>5. CASE End(c, Ok)
  BY <1>5, EndStep, AnswerCodes
<1> QED  BY <1>1, <1>2, <1>3, <1>4, <1>5 DEF ActivateModel

\* get_model preserves the invariant.
LEMMA GetModelStep ==
    ASSUME IInv, NEW c \in Callers, GetModel(c)
    PROVE  StoreStep(c) /\ Local(c)
  BY CheckStep, SelectStep DEF GetModel, Labels, InTxLabels

\* delete_model preserves the invariant.
LEMMA DeleteModelStep ==
    ASSUME IInv, NEW c \in Callers, DeleteModel(c)
    PROVE  StoreStep(c) /\ Local(c)
<1> DEFINE r == req[c]
           rows == {m \in Named(work.models, r.name) : r.version > 0 => m.version = r.version}
           t == [work EXCEPT !.models = work.models \ rows]
<1>1. CASE Check(c, Registered(work.models, r.name, r.version),
                 IF r.version > 0 /\ ~r.force THEN "guard" ELSE "delete")
  BY <1>1, CheckStep DEF Labels, InTxLabels
<1>2. CASE /\ pc[c] = "guard"
           /\ \/ Works /\ Activated(work.models, r.name, r.version) /\ Return(c, EINVAL)
              \/ Works /\ ~Activated(work.models, r.name, r.version) /\ Goto(c, "delete")
              \/ Fails("read") /\ Goto(c, "delete")
           /\ UNCHANGED <<store, ver, lastRow, changed>>
  <2>1. Moves(c) /\ pc'[c] \in {"idle", "delete"}
    BY <1>2, GotoMoves, ReturnMoves, AnswerCodes DEF Labels
  <2>2. Typed'
    BY <1>2, <2>1, FaultsTyped DEF IInv, Typed, Moves
  <2> QED  BY <1>2, <2>1, <2>2 DEF StoreStep, Local, Cleared, InTransaction, InTxLabels
<1>3. CASE pc[c] = "delete" /\ Write(c, t, rows # {}, lastRow, "changes")
  <2>1. work.models \ rows \in SUBSET ModelRow
    BY ModelRows
  <2>2. t \in Tables /\ t.models \subseteq work.models
    BY <2>1, ModelTables
  <2> HIDE DEF t, rows
  <2> QED  BY <1>3, <2>2, ModelRows, WriteStep DEF Labels, InTxLabels
<1>4. CASE Changes(c)
  BY <1>4, ChangesStep
<1> QED  BY <1>1, <1>2, <1>3, <1>4 DEF DeleteModel

\* set_resource preserves the invariant.
LEMMA SetResourceStep ==
    ASSUME IInv, NEW c \in Callers, SetResource(c)
    PROVE  StoreStep(c) /\ Local(c)
<1> DEFINE r == req[c]
           same == {s \in Named(work.resources, r.name) : s.path = r.path}
           t(i) == [work EXCEPT !.resources = (work.resources \ same) \cup {NewResource(r, i)}]
<1>1. /\ r.op = "set_resource" /\ r.name \in Names /\ r.path \in Paths
      /\ r.desc \in Descs \cup {Empty} /\ r.app \in Apps
  BY ArgsTyped, RequestFields DEF SetResource
<1>2. CASE Begin(c, "insert")
  BY <1>1, <1>2, BeginStep DEF Labels
<1>3. ASSUME pc[c] = "insert", NEW i \in 1..MaxRowid, Write(c, t(i), TRUE, NoRow, "end")
      PROVE  StoreStep(c) /\ Local(c)
  <2>1. NewResource(r, i) \in ResourceRow
    BY <1>1 DEF NewResource, ResourceRow
  <2>2. t(i) \in Tables /\ t(i).models = work.models
    BY <2>1 DEF IInv, StoreOK, Tables
  <2>3. InTransaction(c) /\ OneActive(t(i).models) /\ UniqueKeys(t(i).models)
    BY <1>3, <2>2, SameModels DEF InTransaction, InTxLabels
  <2> HIDE DEF t
  <2> QED  BY <1>3, <2>2, <2>3, WriteStep DEF Labels
<1>4. CASE End(c, Ok)
  BY <1>4, EndStep, AnswerCodes
<1> QED  BY <1>2, <1>3, <1>4 DEF SetResource

\* get_resource preserves the invariant.
LEMMA GetResourceStep ==
    ASSUME IInv, NEW c \in Callers, GetResource(c)
    PROVE  StoreStep(c) /\ Local(c)
  BY CheckStep, SelectStep DEF GetResource, Labels, InTxLabels

\* delete_resource preserves the invariant.
LEMMA DeleteResourceStep ==
    ASSUME IInv, NEW c \in Callers, DeleteResource(c)
    PROVE  StoreStep(c) /\ Local(c)
<1> DEFINE rows == Named(work.resources, req[c].name)
           t == [work EXCEPT !.resources = work.resources \ rows]
<1>1. CASE Check(c, Registered(work.resources, req[c].name, 0), "delete")
  BY <1>1, CheckStep DEF Labels, InTxLabels
<1>2. CASE pc[c] = "delete" /\ Write(c, t, rows # {}, lastRow, "changes")
  <2>1. t \in Tables /\ t.models \subseteq work.models
    BY DEF IInv, StoreOK, Tables
  <2> HIDE DEF t, rows
  <2> QED  BY <1>2, <2>1, ModelRows, WriteStep DEF Labels, InTxLabels
<1>3. CASE Changes(c)
  BY <1>3, ChangesStep
<1> QED  BY <1>1, <1>2, <1>3 DEF DeleteResource

\* Every statement of every operation preserves the invariant.
LEMMA OperationStep ==
    ASSUME IInv, NEW c \in Callers, Step(c)
    PROVE  StoreStep(c) /\ Local(c)
  BY SetPipelineStep, GetPipelineStep, DeletePipelineStep, SetModelStep,
     UpdateDescriptionStep, ActivateModelStep, GetModelStep, DeleteModelStep,
     SetResourceStep, GetResourceStep, DeleteResourceStep DEF Step

\* The start of a call, its argument checks included, preserves the invariant.
LEMMA CallStep ==
    ASSUME IInv, NEW c \in Callers, Call(c)
    PROVE  StoreStep(c) /\ Local(c)
<1>1. PICK r \in Requests :
         \/ /\ ValidArgs(r)
            /\ pc' = [pc EXCEPT ![c] = Entry(r.op)]
            /\ req' = [req EXCEPT ![c] = r]
            /\ ret' = [ret EXCEPT ![c] = NoAnswer]
         \/ /\ ~ValidArgs(r)
            /\ ret' = [ret EXCEPT ![c] = EINVAL]
            /\ UNCHANGED <<pc, req>>
  BY DEF Call
<1>2. Entry(r.op) \in {"begin", "select", "delete", "check"}
  BY DEF Entry
<1>3. Moves(c) /\ pc'[c] \in {"idle", "begin", "select", "delete", "check"}
  <2>1. pc[c] = "idle"
    BY DEF Call
  <2> HIDE DEF Requests
  <2> QED  BY <1>1, <1>2, <2>1, AnswerCodes DEF IInv, Typed, Moves, CallOK, Labels, ValidArgs
<1>4. Typed'
  BY <1>3 DEF Call, IInv, Typed, Moves
<1> QED  BY <1>3, <1>4 DEF Call, StoreStep, Local, Cleared, InTransaction, InTxLabels

-----------------------------------------------------------------------------
(* The life of the connection *)

\* Closing the connection falls back to the committed tables, which are good.
LEMMA DisconnectOK ==
    ASSUME IInv, Disconnect
    PROVE  StoreOK'
  BY DEF IInv, StoreOK, Disconnect, NothingPending, AtMostOneActive, OneRowPerVersion

\* Closing the connection is harmless where nobody is inside a call.
LEMMA IdleOK ==
    ASSUME IInv, Disconnect, Typed', \A c \in Callers : pc'[c] = "idle" /\ CallOK(c)',
           conn' \in {"open", "closed"}, crashes' \in 0..MaxCrashes
    PROVE  IInv'
<1>1. \A c \in Callers : Cleared(c)' /\ ~InTransaction(c)'
  BY DEF Cleared, InTransaction, InTxLabels
<1> QED  BY <1>1, DisconnectOK DEF IInv, TransactionsExclusive, InTransaction

\* svcdb_initialize preserves the invariant.
LEMMA InitializeStep ==
    ASSUME IInv, Initialize
    PROVE  IInv'
<1>1. Typed'
  BY FaultsTyped DEF Initialize, IInv, Typed
<1>2. \A c \in Callers : pc'[c] = "idle" /\ CallOK(c)'
  BY DEF Initialize, Idle, IInv, CallOK, ValidArgs
<1> QED  BY <1>1, <1>2, IdleOK DEF Initialize, IInv

\* svcdb_finalize preserves the invariant.
LEMMA FinalizeStep ==
    ASSUME IInv, Finalize
    PROVE  IInv'
<1>1. Typed'
  BY DEF Finalize, IInv, Typed
<1>2. \A c \in Callers : pc'[c] = "idle" /\ CallOK(c)'
  BY DEF Finalize, Idle, IInv, CallOK, ValidArgs
<1> QED  BY <1>1, <1>2, IdleOK DEF Finalize, IInv

\* The values Init and Crash give the callers.
LEMMA FreshArrays ==
    /\ [c \in Callers |-> "idle"] \in [Callers -> Labels]
    /\ [c \in Callers |-> NoReq] \in [Callers -> Requests \cup {NoReq}]
    /\ [c \in Callers |-> 0] \in [Callers -> 0..MaxVersion]
    /\ 0 \in 0..MaxFaults /\ 0 \in 0..MaxCrashes
    /\ NoAnswer.code \in Codes
<1>1. 0 \in 0..MaxVersion /\ 0 \in 0..MaxFaults /\ 0 \in 0..MaxCrashes
  BY BoundsAssumption
<1>2. NoAnswer.code \in Codes
  BY AnswerCodes
<1> QED  BY <1>1, <1>2 DEF Labels

\* The death of the process preserves the invariant.
LEMMA CrashStep ==
    ASSUME IInv, Crash
    PROVE  IInv'
<1>1. Typed'
  BY FreshArrays DEF Crash, IInv, Typed
<1>2. \A c \in Callers : pc'[c] = "idle" /\ CallOK(c)'
  BY DEF Crash, CallOK
<1>3. conn' \in {"open", "closed"} /\ crashes' \in 0..MaxCrashes
  BY BoundsAssumption DEF Crash, IInv
<1> QED  BY <1>1, <1>2, <1>3, IdleOK DEF Crash

\* The invariant holds of an empty database without a connection.
LEMMA InitInv == Init => IInv
<1> SUFFICES ASSUME Init PROVE IInv
  OBVIOUS
<1>1. StoreOK
  BY DEF Init, NoTables, StoreOK, Tables, NothingPending, AtMostOneActive, OneRowPerVersion,
         OneActive, UniqueKeys
<1>2. Typed
  BY FreshArrays DEF Init, Typed
<1>3. \A c \in Callers : CallOK(c) /\ Cleared(c) /\ ~InTransaction(c)
  BY DEF Init, CallOK, Cleared, InTransaction, InTxLabels
<1> QED  BY <1>1, <1>2, <1>3, BoundsAssumption DEF Init, IInv, TransactionsExclusive

\* Every step preserves the invariant.
LEMMA NextInv == IInv /\ [Next]_vars => IInv'
<1> SUFFICES ASSUME IInv, [Next]_vars PROVE IInv'
  OBVIOUS
<1>1. ASSUME NEW c \in Callers, Call(c) PROVE IInv'
  BY <1>1, CallStep, CallerStep DEF Call
<1>2. ASSUME NEW c \in Callers, Step(c), UNCHANGED <<conn, crashes>> PROVE IInv'
  BY <1>2, OperationStep, CallerStep
<1>3. CASE Initialize
  BY <1>3, InitializeStep
<1>4. CASE Finalize
  BY <1>4, FinalizeStep
<1>5. CASE Crash
  BY <1>5, CrashStep
<1>6. CASE UNCHANGED vars
  BY <1>6 DEF vars, IInv, StoreOK, Typed, CallOK, Cleared, TransactionsExclusive, InTransaction,
              NothingPending, AtMostOneActive, OneRowPerVersion, HasActive, Named, ValidArgs
<1> QED  BY <1>1, <1>2, <1>3, <1>4, <1>5, <1>6 DEF Next

-----------------------------------------------------------------------------
(* The results *)

(* IInv is an invariant of the service database.                           *)
THEOREM Inductive == Spec => []IInv
  BY InitInv, NextInv, PTL DEF Spec

(* Every variable keeps its type, for any callers, values and bounds.      *)
THEOREM TypeCorrect == Spec => []TypeOK
<1>1. IInv => TypeOK
  BY DEF IInv, StoreOK, Typed, TypeOK
<1> QED  BY <1>1, Inductive, PTL

(* However many threads share the connection, whichever statements fail    *)
(* and wherever the process crashes, neither the file nor a reader ever    *)
(* shows two active versions of one model.                                 *)
THEOREM OneActiveModel == Spec => []AtMostOneActive
<1>1. IInv => AtMostOneActive
  BY DEF IInv, StoreOK
<1> QED  BY <1>1, Inductive, PTL

(* A version number is never given to two rows of one model.               *)
THEOREM FreshVersions == Spec => []OneRowPerVersion
<1>1. IInv => OneRowPerVersion
  BY DEF IInv, StoreOK
<1> QED  BY <1>1, Inductive, PTL

(* Transactions of different threads never overlap, though the connection  *)
(* has no lock around them: the BEGIN of the second one is refused.        *)
THEOREM Exclusion == Spec => []TransactionsExclusive
<1>1. IInv => TransactionsExclusive
  BY DEF IInv
<1> QED  BY <1>1, Inductive, PTL
=============================================================================
