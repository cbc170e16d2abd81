----------------------- MODULE ServiceDBRefinementProofs -----------------------
(***************************************************************************)
(* Where the calls come one after the other (Solo), the file only changes  *)
(* by the whole effect of one request, whichever statements fail and       *)
(* wherever the process dies: service-db.cc implements the tables of       *)
(* MLServiceStore.  Where a failing statement also leaves no transaction   *)
(* open (RollsBack), it answers as MLServiceStore does, and loses no       *)
(* delete it has acknowledged.                                             *)
(*                                                                         *)
(* The proof has five parts.  Whole says in rows what a request makes of   *)
(* the tables, and Half what a call under way has made of them so far, so  *)
(* that END and a DELETE change the file by Whole.  Keys are the keys of   *)
(* the pipelines and resources, which Whole keeps.  Under them Whole maps  *)
(* to the effect of the request on the abstract tables; for resources,     *)
(* whose place in the list is counted, this needs that places are a        *)
(* numbering of the rows (Places).  Last come the answers: Missing says in *)
(* rows what the store refuses and Found what it prints, and AInv that     *)
(* what a check has found is still so when END, DELETE or SELECT runs; and *)
(* DInv, that a delete is acknowledged when its rows are out of the file.  *)
(***************************************************************************)
EXTENDS ServiceDBRefinement, ServiceDBCallProofs, FiniteSetTheorems, SequenceTheorems

Keys(d) ==
    /\ \A p, q \in d.pipelines : p.name = q.name => p = q
    /\ \A s, t \in d.resources : s.rowid = t.rowid => s = t
    /\ \A s, t \in d.resources : s.name = t.name /\ s.path = t.path => s = t

\* w is what the request r makes of the tables d.
Whole(r, d, w) ==
    LET versions == {m \in Named(d.models, r.name) : r.version > 0 => m.version = r.version}
        same == {s \in Named(d.resources, r.name) : s.path = r.path}
    IN  \/ /\ r.op = "set_pipeline"
           /\ w = [d EXCEPT !.pipelines =
                     (@ \ Named(@, r.name)) \cup {[name |-> r.name, desc |-> r.desc]}]
        \/ /\ r.op = "delete_pipeline"
           /\ w = [d EXCEPT !.pipelines = @ \ Named(@, r.name)]
        \/ /\ r.op = "set_model"
           /\ \E v \in 1..MaxVersion :
                 /\ IsNext(Versions(d.models, r.name), v)
                 /\ w = [d EXCEPT !.models = (IF r.active THEN Deactivated(@, r.name) ELSE @)
                                                \cup {NewModel(r, v)}]
        \/ /\ r.op = "update_description"
           /\ Registered(d.models, r.name, r.version)
           /\ w = [d EXCEPT !.models = DescribedAt(@, r.name, r.version, r.desc)]
        \/ /\ r.op = "activate_model"
           /\ Registered(d.models, r.name, r.version)
           /\ w = [d EXCEPT !.models = ActivatedAt(Deactivated(@, r.name), r.name, r.version)]
        \/ /\ r.op = "delete_model"
           /\ w = [d EXCEPT !.models = @ \ versions]
        \/ /\ r.op = "set_resource"
           /\ \E i \in 1..MaxRowid :
                 /\ IsNext(Rowids(d.resources), i)
                 /\ w = [d EXCEPT !.resources = (@ \ same) \cup {NewResource(r, i)}]
        \/ /\ r.op = "delete_resource"
           /\ w = [d EXCEPT !.resources = @ \ Named(@, r.name)]

\* What the call of c has made of the file so far.
Half(c) ==
    /\ pc[c] \in {"deactivate", "update"} \/ (pc[c] = "insert" /\ ~MovesFlag(c)) => work = disk
    /\ MovesFlag(c) => work = [disk EXCEPT !.models = Deactivated(@, req[c].name)]
    /\ pc[c] \in {"version", "end"} => Whole(req[c], disk, work)

RInv == SoloInv /\ Keys(disk) /\ \A c \in Callers : Half(c)

\* A step changes the file by a whole request, or not at all.
Changed == disk' = disk \/ \E r \in Requests : ValidArgs(r) /\ Whole(r, disk, disk')

-----------------------------------------------------------------------------
(* What one statement has made of the file. *)

StepHalf(c) == Half(c)' /\ (disk' = disk \/ Whole(req[c], disk, disk'))

\* Outside a transaction nothing is half done.
LEMMA Outside ==
    ASSUME NEW c \in Callers, pc'[c] \notin InTxLabels
    PROVE  Half(c)'
  BY DEF Half, MovesFlag, InTxLabels

\* BEGIN has made nothing yet.
LEMMA BeginHalf ==
    ASSUME SoloInv, NEW c \in Callers, NEW next \in {"deactivate", "insert", "update"},
           Begin(c, next),
           next = "insert" => ~(req[c].op = "set_model" /\ req[c].active)
    PROVE  StepHalf(c)
<1>1. CASE Works /\ BeginTransaction /\ Goto(c, next)
  <2>1. pc'[c] = next /\ req'[c] = req[c]
    BY <1>1, Going DEF SoloInv
  <2>2. disk' = disk /\ work' = disk
    BY <1>1 DEF BeginTransaction, CanBegin, SoloInv, IInv, StoreOK, NothingPending
  <2> QED  BY <2>1, <2>2 DEF StepHalf, Half, MovesFlag
<1>2. CASE UNCHANGED store /\ Return(c, EIO)
  BY <1>2, Returning, Outside DEF store, SoloInv, StepHalf, InTxLabels
<1> QED  BY <1>1, <1>2 DEF Begin

\* END commits what the request has made.
LEMMA EndHalf ==
    ASSUME SoloInv, NEW c \in Callers, Half(c), NEW a, End(c, a)
    PROVE  StepHalf(c)
<1>1. pc[c] = "end" /\ pc'[c] = "idle"
  BY Returning DEF End, SoloInv
<1>2. disk' = disk \/ disk' = work
  BY DEF End, EndTransaction, AutoRollback, store
<1> QED  BY <1>1, <1>2, Outside DEF StepHalf, Half, InTxLabels

\* A statement inside the transaction changes work only.
LEMMA InsideHalf ==
    ASSUME SoloInv, NEW c \in Callers, InTransaction(c),
           NEW t, NEW affected, NEW row, NEW next, Write(c, t, affected, row, next),
           disk' = disk /\ work' = t /\ pc'[c] = next /\ req'[c] = req[c] => Half(c)'
    PROVE  StepHalf(c)
<1>1. CASE Works /\ Execute(t) /\ Goto(c, next)
  <2>1. intx
    BY DEF SoloInv, IInv, TransactionsExclusive
  <2>2. disk' = disk /\ work' = t /\ pc'[c] = next /\ req'[c] = req[c]
    BY <1>1, <2>1, Going DEF Execute, SoloInv
  <2> QED  BY <2>2 DEF StepHalf
<1>2. CASE (UNCHANGED store \/ AutoRollback) /\ Return(c, EIO)
  <2>1. disk' = disk
    BY <1>2 DEF store, AutoRollback
  <2> QED  BY <1>2, <2>1, Returning, Outside DEF SoloInv, StepHalf, InTxLabels
<1> QED  BY <1>1, <1>2 DEF Write

\* A DELETE is a request of its own, or runs in an abandoned transaction.
LEMMA DeleteHalf ==
    ASSUME SoloInv, NEW c \in Callers,
           NEW t, NEW affected, NEW row, Write(c, t, affected, row, "changes"),
           work = disk => Whole(req[c], disk, t)
    PROVE  StepHalf(c)
<1>1. CASE Works /\ Execute(t) /\ Goto(c, "changes")
  <2>1. disk' = disk \/ (disk' = t /\ work = disk)
    BY <1>1 DEF Execute, SoloInv, IInv, StoreOK, NothingPending
  <2>2. pc'[c] = "changes"
    BY <1>1, Going DEF SoloInv
  <2> QED  BY <2>1, <2>2, Outside DEF StepHalf, InTxLabels
<1>2. CASE (UNCHANGED store \/ AutoRollback) /\ Return(c, EIO)
  <2>1. disk' = disk
    BY <1>2 DEF store, AutoRollback
  <2> QED  BY <1>2, <2>1, Returning, Outside DEF SoloInv, StepHalf, InTxLabels
<1> QED  BY <1>1, <1>2 DEF Write

\* A check, a SELECT or sqlite3_changes leaves the file alone.
LEMMA ReadHalf ==
    ASSUME SoloInv, NEW c \in Callers, disk' = disk,
           \/ \E next : Goto(c, next) /\ next \notin InTxLabels
           \/ \E a : Return(c, a)
    PROVE  StepHalf(c)
<1>1. pc'[c] \notin InTxLabels
  BY Going, Returning DEF SoloInv, InTxLabels
<1> QED  BY <1>1, Outside DEF StepHalf

LEMMA CheckHalf ==
    ASSUME SoloInv, NEW c \in Callers, NEW found, NEW next, next \notin InTxLabels,
           Check(c, found, next)
    PROVE  StepHalf(c)
  BY ReadHalf DEF Check, store

LEMMA ChangesHalf ==
    ASSUME SoloInv, NEW c \in Callers, Changes(c)
    PROVE  StepHalf(c)
  BY ReadHalf DEF Changes, store

LEMMA SelectHalf ==
    ASSUME SoloInv, NEW c \in Callers, NEW rows, NEW aggregate, Select(c, rows, aggregate)
    PROVE  StepHalf(c)
  BY ReadHalf DEF Select, store

-----------------------------------------------------------------------------
(* What the operations make of the file. *)

\* The UPDATEs of tblModel rewrite columns of rows, not versions.
LEMMA SameVersions ==
    ASSUME NEW rows \in SUBSET ModelRow, NEW n, NEW k
    PROVE  /\ Versions(Deactivated(rows, n), k) = Versions(rows, k)
           /\ \A v : Registered(Deactivated(rows, n), k, v) => Registered(rows, k, v)
<1> DEFINE f(r) == IF r.name = n THEN [r EXCEPT !.active = FALSE] ELSE r
<1>1. \A r \in rows : f(r).name = r.name /\ f(r).version = r.version
  BY DEF ModelRow
<1>2. Deactivated(rows, n) = {f(r) : r \in rows}
  BY DEF Deactivated
<1> HIDE DEF f
<1> QED  BY <1>1, <1>2 DEF Versions, Named, Registered

\* The second UPDATE of a column replaces what the first has made of it.
LEMMA Rewritten ==
    ASSUME NEW d \in Tables, NEW x, NEW y
    PROVE  /\ [d EXCEPT !.models = x].models = x
           /\ [[d EXCEPT !.models = x] EXCEPT !.models = y] = [d EXCEPT !.models = y]
  BY DEF Tables

LEMMA SetPipelineHalf ==
    ASSUME SoloInv, NEW c \in Callers, Half(c), SetPipeline(c)
    PROVE  StepHalf(c)
<1> DEFINE r == req[c]
           t == [work EXCEPT !.pipelines = (work.pipelines \ Named(work.pipelines, r.name))
                                              \cup {[name |-> r.name, desc |-> r.desc]}]
<1>1. r.op = "set_pipeline"
  BY DEF SetPipeline
<1>2. CASE Begin(c, "insert")
  BY <1>1, <1>2, BeginHalf
<1>3. CASE pc[c] = "insert" /\ Write(c, t, TRUE, NoRow, "end")
  <2>1. work = disk /\ InTransaction(c)
    BY <1>1, <1>3 DEF Half, MovesFlag, InTransaction, InTxLabels
  <2>2. Whole(r, disk, t)
    BY <1>1, <2>1 DEF Whole
  <2>3. Write(c, t, TRUE, NoRow, "end")
    BY <1>3
  <2> HIDE DEF t
  <2>4. disk' = disk /\ work' = t /\ pc'[c] = "end" /\ req'[c] = req[c] => Half(c)'
    BY <2>2 DEF Half, MovesFlag
  <2> QED  BY <2>1, <2>3, <2>4, InsideHalf
<1>4. CASE End(c, Ok)
  BY <1>4, EndHalf
<1> QED  BY <1>2, <1>3, <1>4 DEF SetPipeline

LEMMA DeletePipelineHalf ==
    ASSUME SoloInv, NEW c \in Callers, DeletePipeline(c)
    PROVE  StepHalf(c)
<1> DEFINE r == req[c]
           rows == Named(work.pipelines, r.name)
           t == [work EXCEPT !.pipelines = work.pipelines \ rows]
<1>1. r.op = "delete_pipeline"
  BY DEF DeletePipeline
<1>2. CASE Write(c, t, rows # {}, lastRow, "changes")
  <2>1. work = disk => Whole(r, disk, t)
    BY <1>1 DEF Whole
  <2> HIDE DEF t, rows
  <2> QED  BY <1>2, <2>1, DeleteHalf
<1> QED  BY <1>2, ChangesHalf DEF DeletePipeline

LEMMA SetModelHalf ==
    ASSUME SoloInv, NEW c \in Callers, Half(c), SetModel(c)
    PROVE  StepHalf(c)
<1> DEFINE r == req[c]
           low == Deactivated(disk.models, r.name)
<1>1. r.op = "set_model" /\ r.active \in BOOLEAN
  BY Facts, RequestFields DEF SetModel
<1>2. disk \in Tables /\ disk.models \in SUBSET ModelRow
  BY DEF SoloInv, IInv, StoreOK, Tables
<1>3. CASE Begin(c, IF r.active THEN "deactivate" ELSE "insert")
  BY <1>1, <1>3, BeginHalf
<1>4. ASSUME pc[c] = "deactivate", NEW affected, NEW row,
             Write(c, [work EXCEPT !.models = Deactivated(work.models, r.name)],
                   affected, row, "insert")
      PROVE  StepHalf(c)
  <2>1. r.active /\ work = disk /\ InTransaction(c)
    BY <1>1, <1>4, Facts DEF Progress, Lowers, Half, InTransaction, InTxLabels
  <2> DEFINE t == [disk EXCEPT !.models = Deactivated(disk.models, r.name)]
  <2>2. Write(c, t, affected, row, "insert")
    BY <1>4, <2>1
  <2>3. disk' = disk /\ work' = t /\ pc'[c] = "insert" /\ req'[c] = req[c] => Half(c)'
    BY <1>1, <2>1 DEF Half, MovesFlag
  <2> HIDE DEF t
  <2> QED  BY <2>1, <2>2, <2>3, InsideHalf
<1>5. ASSUME pc[c] = "insert", NEW v \in 1..MaxVersion, IsNext(Versions(work.models, r.name), v),
             NEW row,
             Write(c, [work EXCEPT !.models = work.models \cup {NewModel(r, v)}],
                   TRUE, row, "version")
      PROVE  StepHalf(c)
  <2> DEFINE t == [work EXCEPT !.models = work.models \cup {NewModel(r, v)}]
             old == IF r.active THEN low ELSE disk.models
  <2>1. work.models = old /\ t = [disk EXCEPT !.models = old \cup {NewModel(r, v)}]
    <3>1. CASE r.active
      <4>1. work = [disk EXCEPT !.models = low]
        BY <1>1, <1>5, <3>1 DEF Half, MovesFlag
      <4> HIDE DEF low
      <4> QED  BY <1>2, <3>1, <4>1, Rewritten
    <3>2. CASE ~r.active
      BY <1>1, <1>5, <3>2 DEF Half, MovesFlag
    <3> QED  BY <3>1, <3>2
  <2>2. IsNext(Versions(disk.models, r.name), v)
    BY <1>2, <1>5, <2>1, SameVersions
  <2>3. Whole(r, disk, t)
    BY <1>1, <2>1, <2>2 DEF Whole
  <2>4. Write(c, t, TRUE, row, "version") /\ InTransaction(c)
    BY <1>5 DEF InTransaction, InTxLabels
  <2> HIDE DEF t
  <2>5. disk' = disk /\ work' = t /\ pc'[c] = "version" /\ req'[c] = req[c] => Half(c)'
    BY <2>3 DEF Half, MovesFlag
  <2> QED  BY <2>4, <2>5, InsideHalf
<1>6. CASE pc[c] = "version" /\ Goto(c, "end") /\ UNCHANGED store
  <2>1. pc'[c] = "end" /\ req'[c] = r /\ work' = work /\ disk' = disk
    BY <1>6, Going DEF store, SoloInv
  <2> QED  BY <1>6, <2>1 DEF Half, MovesFlag, StepHalf
<1>7. ASSUME NEW a, End(c, a) PROVE StepHalf(c)
  BY <1>7, EndHalf
<1> QED  BY <1>3, <1>4, <1>5, <1>6, <1>7 DEF SetModel, store

LEMMA UpdateDescriptionHalf ==
    ASSUME SoloInv, NEW c \in Callers, Half(c), UpdateDescription(c)
    PROVE  StepHalf(c)
<1> DEFINE r == req[c]
           t == [work EXCEPT !.models = DescribedAt(work.models, r.name, r.version, r.desc)]
<1>1. r.op = "update_description"
  BY DEF UpdateDescription
<1>2. ASSUME NEW found, Check(c, found, "begin") PROVE StepHalf(c)
  BY <1>2, CheckHalf DEF InTxLabels
<1>3. CASE Begin(c, "update")
  BY <1>3, BeginHalf
<1>4. ASSUME pc[c] = "update", NEW affected, Write(c, t, affected, lastRow, "end") PROVE StepHalf(c)
  <2>1. work = disk /\ InTransaction(c) /\ Registered(work.models, r.name, r.version)
    BY <1>1, <1>4, Facts DEF Progress, Rechecked, Half, InTransaction, InTxLabels
  <2>2. Whole(r, disk, t)
    BY <1>1, <2>1 DEF Whole
  <2>3. Write(c, t, affected, lastRow, "end")
    BY <1>4
  <2> HIDE DEF t
  <2>4. disk' = disk /\ work' = t /\ pc'[c] = "end" /\ req'[c] = req[c] => Half(c)'
    BY <2>2 DEF Half, MovesFlag
  <2> QED  BY <2>1, <2>3, <2>4, InsideHalf
<1>5. CASE End(c, Ok)
  BY <1>5, EndHalf
<1> QED  BY <1>2, <1>3, <1>4, <1>5 DEF UpdateDescription

LEMMA ActivateModelHalf ==
    ASSUME SoloInv, NEW c \in Callers, Half(c), ActivateModel(c)
    PROVE  StepHalf(c)
<1> DEFINE r == req[c]
           low == Deactivated(disk.models, r.name)
<1>1. r.op = "activate_model"
  BY DEF ActivateModel
<1>2. disk \in Tables /\ disk.models \in SUBSET ModelRow
  BY DEF SoloInv, IInv, StoreOK, Tables
<1>3. ASSUME NEW found, Check(c, found, "begin") PROVE StepHalf(c)
  BY <1>3, CheckHalf DEF InTxLabels
<1>4. CASE Begin(c, "deactivate")
  BY <1>4, BeginHalf
<1>5. ASSUME pc[c] = "deactivate", NEW affected,
             Write(c, [work EXCEPT !.models = Deactivated(work.models, r.name)],
                   affected, lastRow, "activate")
      PROVE  StepHalf(c)
  <2>1. work = disk /\ InTransaction(c)
    BY <1>5 DEF Half, InTransaction, InTxLabels
  <2> DEFINE t == [disk EXCEPT !.models = Deactivated(disk.models, r.name)]
  <2>2. Write(c, t, affected, lastRow, "activate")
    BY <1>5, <2>1
  <2>3. disk' = disk /\ work' = t /\ pc'[c] = "activate" /\ req'[c] = req[c] => Half(c)'
    BY DEF Half, MovesFlag
  <2> HIDE DEF t
  <2> QED  BY <2>1, <2>2, <2>3, InsideHalf
<1>6. ASSUME pc[c] = "activate", NEW affected,
             Write(c, [work EXCEPT !.models = ActivatedAt(work.models, r.name, r.version)],
                   affected, lastRow, "end")
      PROVE  StepHalf(c)
  <2> DEFINE t == [work EXCEPT !.models = ActivatedAt(work.models, r.name, r.version)]
  <2>1. /\ work = [disk EXCEPT !.models = low] /\ InTransaction(c)
        /\ Registered(work.models, r.name, r.version)
    BY <1>1, <1>6, Facts DEF Progress, Rechecked, Half, MovesFlag, InTransaction, InTxLabels
  <2>2. /\ work.models = low
        /\ t = [disk EXCEPT !.models = ActivatedAt(low, r.name, r.version)]
    <3> HIDE DEF low
    <3> QED  BY <1>2, <2>1, Rewritten
  <2>3. Registered(disk.models, r.name, r.version)
    BY <1>2, <2>1, <2>2, SameVersions
  <2>4. Whole(r, disk, t)
    BY <1>1, <2>2, <2>3 DEF Whole
  <2>5. Write(c, t, affected, lastRow, "end")
    BY <1>6
  <2> HIDE DEF t
  <2>6. disk' = disk /\ work' = t /\ pc'[c] = "end" /\ req'[c] = req[c] => Half(c)'
    BY <2>4 DEF Half, MovesFlag
  <2> QED  BY <2>1, <2>5, <2>6, InsideHalf
<1>7. CASE End(c, Ok)
  BY <1>7, EndHalf
<1> QED  BY <1>3, <1>4, <1>5, <1>6, <1>7 DEF ActivateModel

LEMMA DeleteModelHalf ==
    ASSUME SoloInv, NEW c \in Callers, DeleteModel(c)
    PROVE  StepHalf(c)
<1> DEFINE r == req[c]
           rows == {m \in Named(work.models, r.name) : r.version > 0 => m.version = r.version}
           t == [work EXCEPT !.models = work.models \ rows]
<1>1. r.op = "delete_model"
  BY DEF DeleteModel
<1>2. ASSUME NEW found, Check(c, found, IF r.version > 0 /\ ~r.force THEN "guard" ELSE "delete")
      PROVE  StepHalf(c)
  BY <1>2, CheckHalf DEF InTxLabels
<1>3. CASE UNCHANGED store /\ (Return(c, EINVAL) \/ Goto(c, "delete"))
  BY <1>3, ReadHalf DEF store, InTxLabels
<1>4. CASE Write(c, t, rows # {}, lastRow, "changes")
  <2>1. work = disk => Whole(r, disk, t)
    BY <1>1 DEF Whole
  <2> HIDE DEF t, rows
  <2> QED  BY <1>4, <2>1, DeleteHalf
<1> QED  BY <1>2, <1>3, <1>4, ChangesHalf DEF DeleteModel, store

LEMMA SetResourceHalf ==
    ASSUME SoloInv, NEW c \in Callers, Half(c), SetResource(c)
    PROVE  StepHalf(c)
<1> DEFINE r == req[c]
           same == {s \in Named(work.resources, r.name) : s.path = r.path}
<1>1. r.op = "set_resource"
  BY DEF SetResource
<1>2. CASE Begin(c, "insert")
  BY <1>1, <1>2, BeginHalf
<1>3. ASSUME pc[c] = "insert", NEW i \in 1..MaxRowid, IsNext(Rowids(work.resources), i),
             Write(c, [work EXCEPT !.resources = (work.resources \ same) \cup {NewResource(r, i)}],
                   TRUE, NoRow, "end")
      PROVE  StepHalf(c)
  <2> DEFINE t == [work EXCEPT !.resources = (work.resources \ same) \cup {NewResource(r, i)}]
  <2>1. work = disk /\ InTransaction(c)
    BY <1>1, <1>3 DEF Half, MovesFlag, InTransaction, InTxLabels
  <2>2. Whole(r, disk, t)
    BY <1>1, <1>3, <2>1 DEF Whole
  <2>3. Write(c, t, TRUE, NoRow, "end")
    BY <1>3
  <2> HIDE DEF t
  <2>4. disk' = disk /\ work' = t /\ pc'[c] = "end" /\ req'[c] = req[c] => Half(c)'
    BY <2>2 DEF Half, MovesFlag
  <2> QED  BY <2>1, <2>3, <2>4, InsideHalf
<1>4. CASE End(c, Ok)
  BY <1>4, EndHalf
<1> QED  BY <1>2, <1>3, <1>4 DEF SetResource

LEMMA DeleteResourceHalf ==
    ASSUME SoloInv, NEW c \in Callers, DeleteResource(c)
    PROVE  StepHalf(c)
<1> DEFINE r == req[c]
           rows == Named(work.resources, r.name)
           t == [work EXCEPT !.resources = work.resources \ rows]
<1>1. r.op = "delete_resource"
  BY DEF DeleteResource
<1>2. ASSUME NEW found, Check(c, found, "delete") PROVE StepHalf(c)
  BY <1>2, CheckHalf DEF InTxLabels
<1>3. CASE Write(c, t, rows # {}, lastRow, "changes")
  <2>1. work = disk => Whole(r, disk, t)
    BY <1>1 DEF Whole
  <2> HIDE DEF t, rows
  <2> QED  BY <1>3, <2>1, DeleteHalf
<1> QED  BY <1>2, <1>3, ChangesHalf DEF DeleteResource

LEMMA GetHalf ==
    ASSUME SoloInv, NEW c \in Callers, GetPipeline(c) \/ GetModel(c) \/ GetResource(c)
    PROVE  StepHalf(c)
<1>1. ASSUME NEW found, Check(c, found, "select") PROVE StepHalf(c)
  BY <1>1, CheckHalf DEF InTxLabels
<1> QED  BY <1>1, SelectHalf DEF GetPipeline, GetModel, GetResource

\* Every step changes the file by a whole request, if at all.
LEMMA NextHalf ==
    ASSUME Solo, SoloInv, \A c \in Callers : Half(c), [Next]_vars
    PROVE  (\A c \in Callers : Half(c)') /\ Changed
<1>1. CASE \E d \in Callers : Step(d)
  <2>1. PICK d \in Callers : Step(d)
    BY <1>1
  <2>2. StepHalf(d)
    BY <2>1, SetPipelineHalf, DeletePipelineHalf, SetModelHalf, UpdateDescriptionHalf,
       ActivateModelHalf, DeleteModelHalf, SetResourceHalf, DeleteResourceHalf, GetHalf DEF Step
  <2>3. \A c \in Callers : Half(c)'
    BY <2>2 DEF Solo, StepHalf
  <2>4. req[d] \in Requests /\ ValidArgs(req[d])
    BY <2>1, Facts DEF Step, SetPipeline, GetPipeline, DeletePipeline, SetModel,
       UpdateDescription, ActivateModel, GetModel, DeleteModel, SetResource, GetResource,
       DeleteResource
  <2> QED  BY <2>2, <2>3, <2>4 DEF Changed, StepHalf
<1>2. CASE \E d \in Callers : Call(d)
  <2>1. PICK d \in Callers : Call(d)
    BY <1>2
  <2>2. disk' = disk
    BY <2>1 DEF Call, store
  <2>3. pc'[d] \notin InTxLabels
    BY <2>1, Facts DEF Call, Entry, InTxLabels, IInv, Typed
  <2> QED  BY <2>1, <2>2, <2>3, Outside DEF Solo, Changed
<1>3. CASE Initialize \/ Finalize \/ Crash
  <2>1. disk' = disk /\ \A c \in Callers : pc'[c] = "idle"
    BY <1>3 DEF Initialize, Finalize, Crash, Disconnect, Idle
  <2> QED  BY <2>1, Outside DEF Changed, InTxLabels
<1>4. CASE UNCHANGED vars
  BY <1>4 DEF vars, Half, MovesFlag, Changed
<1> QED  BY <1>1, <1>2, <1>3, <1>4 DEF Next

-----------------------------------------------------------------------------
(* What a request makes of the abstract models. *)

\* Tables as the invariants have them.
Sound(d) == d \in Tables /\ OneActive(d.models) /\ UniqueKeys(d.models) /\ Keys(d)

Cols(m) == [path |-> m.path, desc |-> m.desc, app |-> m.app]

\* A row of the file is the entry of its version.
LEMMA VersionRow ==
    ASSUME NEW rows, UniqueKeys(rows), NEW m \in rows
    PROVE  /\ m.version \in Versions(rows, m.name)
           /\ RowsByVersion(rows, m.name)[m.version] = Cols(m)
<1>1. m \in Named(rows, m.name) /\ m.version \in Versions(rows, m.name)
  BY DEF Named, Versions
<1>2. \A x \in Named(rows, m.name) : x.version = m.version => x = m
  BY DEF Named, UniqueKeys
<1>3. (CHOOSE x \in Named(rows, m.name) : x.version = m.version) = m
  BY <1>1, <1>2
<1> QED  BY <1>1, <1>3 DEF RowsByVersion, Cols

\* The version of a flagged row is the active one.
LEMMA ActiveRow ==
    ASSUME NEW rows, OneActive(rows), NEW n
    PROVE  /\ \A m \in Named(rows, n) : m.active => ActiveVersion(rows, n) = m.version
           /\ ~HasActive(rows, n) => ActiveVersion(rows, n) = 0
<1> DEFINE flagged == {m \in Named(rows, n) : m.active}
<1>1. ASSUME NEW m \in Named(rows, n), m.active PROVE ActiveVersion(rows, n) = m.version
  <2>1. m \in flagged /\ \A x \in flagged : x = m
    BY <1>1 DEF Named, OneActive
  <2>2. (CHOOSE x \in flagged : TRUE) = m
    BY <2>1
  <2>3. flagged # {}
    BY <2>1
  <2> QED  BY <2>2, <2>3 DEF ActiveVersion
<1>2. ~HasActive(rows, n) => flagged = {}
  BY DEF HasActive
<1> QED  BY <1>1, <1>2 DEF ActiveVersion

\* The entries of a name are a function on its versions.
LEMMA Entries ==
    ASSUME NEW rows, NEW n
    PROVE  RowsByVersion(rows, n) = [v \in Versions(rows, n) |-> RowsByVersion(rows, n)[v]]
  BY DEF RowsByVersion

\* A name whose rows are the same has the same entries.
LEMMA SameName ==
    ASSUME NEW rows, NEW other, NEW n, Named(rows, n) = Named(other, n)
    PROVE  /\ RowsByVersion(rows, n) = RowsByVersion(other, n)
           /\ ActiveVersion(rows, n) = ActiveVersion(other, n)
  BY DEF RowsByVersion, ActiveVersion, Versions

\* Rows that keep their columns keep their entries.
LEMMA SameColumns ==
    ASSUME NEW rows, NEW other, UniqueKeys(rows), UniqueKeys(other),
           NEW m \in rows, NEW k \in other,
           m.name = k.name, m.version = k.version, Cols(m) = Cols(k)
    PROVE  RowsByVersion(rows, m.name)[m.version] = RowsByVersion(other, m.name)[m.version]
<1>1. RowsByVersion(rows, m.name)[m.version] = Cols(m)
  BY VersionRow
<1>2. RowsByVersion(other, k.name)[k.version] = Cols(k)
  BY VersionRow
<1> QED  BY <1>1, <1>2

\* max + 1 is the number IsNext describes.
LEMMA NextVersion ==
    ASSUME NEW used \in SUBSET Nat, NEW v \in Nat, IsNext(used, v)
    PROVE  v = (IF used = {} THEN 0 ELSE Store!Max(used)) + 1 /\ v \notin used
<1>1. CASE used = {}
  BY <1>1 DEF IsNext
<1>2. CASE used # {}
  <2>1. v - 1 \in used /\ \A j \in used : j < v
    BY <1>2 DEF IsNext
  <2>2. \A j \in used : j \in Int /\ v - 1 >= j
    BY <2>1
  <2>3. \A x \in used : (\A j \in used : x >= j) => x = v - 1
    BY <2>1, <2>2
  <2>4. Store!Max(used) = v - 1
    BY <2>1, <2>2, <2>3 DEF Store!Max
  <2> QED  BY <1>2, <2>1, <2>4
<1> QED  BY <1>1, <1>2

\* set_model adds the next version and, when asked to, moves the flag.
LEMMA SetModelEntries ==
    ASSUME NEW rows \in SUBSET ModelRow, OneActive(rows), UniqueKeys(rows),
           NEW r \in Requests, ValidArgs(r), r.op = "set_model",
           NEW v \in 1..MaxVersion, IsNext(Versions(rows, r.name), v),
           NEW new, new = (IF r.active THEN Deactivated(rows, r.name) ELSE rows) \cup {NewModel(r, v)},
           OneActive(new), UniqueKeys(new)
    PROVE  /\ \A k \in Names \ {r.name} : Named(new, k) = Named(rows, k)
           /\ v \notin Versions(rows, r.name)
           /\ RowsByVersion(new, r.name) =
                [u \in Versions(rows, r.name) \cup {v} |->
                   IF u = v THEN Cols(NewModel(r, v)) ELSE RowsByVersion(rows, r.name)[u]]
           /\ ActiveVersion(new, r.name) = IF r.active THEN v ELSE ActiveVersion(rows, r.name)
<1> DEFINE f(m) == IF r.active /\ m.name = r.name THEN [m EXCEPT !.active = FALSE] ELSE m
           x == NewModel(r, v)
           n == r.name
<1>1. \A m \in rows : /\ f(m).name = m.name /\ f(m).version = m.version /\ Cols(f(m)) = Cols(m)
                      /\ m.name # n => f(m) = m
                      /\ f(m).active => m.active /\ ~(r.active /\ m.name = n)
                      /\ m.active /\ ~r.active => f(m).active
  BY DEF ModelRow, Cols
<1>2. new = {f(m) : m \in rows} \cup {x}
  BY DEF Deactivated
<1>3. x.name = n /\ x.version = v /\ x.active = r.active /\ n \in Names /\ r.active \in BOOLEAN
  BY RequestFields DEF NewModel
<1> HIDE DEF f, x
<1>4. \A k \in Names \ {n} : Named(new, k) = Named(rows, k)
  BY <1>1, <1>2, <1>3 DEF Named
<1>5. v \notin Versions(rows, n)
  BY BoundsAssumption, NextVersion DEF Versions, Named, ModelRow
<1>6. Versions(new, n) = Versions(rows, n) \cup {v}
  BY <1>1, <1>2, <1>3 DEF Versions, Named
<1>7. RowsByVersion(new, n)[v] = Cols(x)
  BY <1>2, <1>3, VersionRow
<1>8. ASSUME NEW u \in Versions(rows, n)
      PROVE  RowsByVersion(new, n)[u] = RowsByVersion(rows, n)[u]
  <2>1. PICK m \in rows : m.name = n /\ m.version = u
    BY DEF Versions, Named
  <2>2. f(m) \in new
    BY <1>2
  <2> QED  BY <1>1, <2>1, <2>2, SameColumns
<1>9. ActiveVersion(new, n) = IF r.active THEN v ELSE ActiveVersion(rows, n)
  <2>1. CASE r.active
    <3>1. x \in Named(new, n) /\ x.active
      BY <1>2, <1>3, <2>1 DEF Named
    <3> QED  BY <1>3, <2>1, <3>1, ActiveRow
  <2>2. CASE ~r.active /\ HasActive(rows, n)
    <3>1. PICK m \in Named(rows, n) : m.active
      BY <2>2 DEF HasActive
    <3>2. f(m) \in Named(new, n) /\ f(m).active /\ f(m).version = m.version
      BY <1>1, <1>2, <2>2, <3>1 DEF Named
    <3> QED  BY <2>2, <3>1, <3>2, ActiveRow
  <2>3. CASE ~r.active /\ ~HasActive(rows, n)
    <3>1. ~HasActive(new, n)
      BY <1>1, <1>2, <1>3, <2>3 DEF HasActive, Named
    <3> QED  BY <2>3, <3>1, ActiveRow
  <2> QED  BY <1>3, <2>1, <2>2, <2>3
<1>10. RowsByVersion(new, n) =
         [u \in Versions(rows, n) \cup {v} |->
            IF u = v THEN Cols(x) ELSE RowsByVersion(rows, n)[u]]
  BY <1>5, <1>6, <1>7, <1>8, Entries
<1> QED  BY <1>4, <1>5, <1>9, <1>10 DEF x

\* A new description changes one column of one version.
LEMMA UpdateEntries ==
    ASSUME NEW rows \in SUBSET ModelRow, OneActive(rows), UniqueKeys(rows),
           NEW n \in Names, NEW v \in 1..MaxVersion, NEW d, Registered(rows, n, v),
           NEW new, new = DescribedAt(rows, n, v, d), OneActive(new), UniqueKeys(new)
    PROVE  /\ \A k \in Names \ {n} : Named(new, k) = Named(rows, k)
           /\ v \in Versions(rows, n)
           /\ RowsByVersion(new, n) = [RowsByVersion(rows, n) EXCEPT ![v].desc = d]
           /\ ActiveVersion(new, n) = ActiveVersion(rows, n)
<1> DEFINE f(m) == IF m.name = n /\ m.version = v THEN [m EXCEPT !.desc = d] ELSE m
<1>1. \A m \in rows : /\ f(m).name = m.name /\ f(m).version = m.version /\ f(m).active = m.active
                      /\ m.name # n => f(m) = m
                      /\ m.version # v => Cols(f(m)) = Cols(m)
                      /\ m.name = n /\ m.version = v => Cols(f(m)) = [Cols(m) EXCEPT !.desc = d]
  BY DEF ModelRow, Cols
<1>2. new = {f(m) : m \in rows}
  BY DEF DescribedAt
<1>3. PICK y \in rows : y.name = n /\ y.version = v
  BY DEF Registered, Named
<1> HIDE DEF f
<1>4. \A k \in Names \ {n} : Named(new, k) = Named(rows, k)
  BY <1>1, <1>2 DEF Named
<1>5. Versions(new, n) = Versions(rows, n) /\ v \in Versions(rows, n)
  BY <1>1, <1>2, <1>3 DEF Versions, Named
<1>6. RowsByVersion(new, n)[v] = [RowsByVersion(rows, n)[v] EXCEPT !.desc = d]
  <2>1. RowsByVersion(rows, n)[v] = Cols(y)
    BY <1>3, VersionRow
  <2>2. f(y) \in new
    BY <1>2, <1>3
  <2>3. RowsByVersion(new, n)[v] = Cols(f(y))
    BY <1>1, <1>3, <2>2, VersionRow
  <2> QED  BY <1>1, <1>3, <2>1, <2>3
<1>7. ASSUME NEW u \in Versions(rows, n), u # v
      PROVE  RowsByVersion(new, n)[u] = RowsByVersion(rows, n)[u]
  <2>1. PICK m \in rows : m.name = n /\ m.version = u
    BY DEF Versions, Named
  <2>2. f(m) \in new
    BY <1>2
  <2> QED  BY <1>1, <1>7, <2>1, <2>2, SameColumns
<1>8. ActiveVersion(new, n) = ActiveVersion(rows, n)
  <2>1. ASSUME NEW m \in Named(rows, n), m.active PROVE ActiveVersion(new, n) = m.version
    <3>1. f(m) \in Named(new, n) /\ f(m).active /\ f(m).version = m.version
      BY <1>1, <1>2, <2>1 DEF Named
    <3> QED  BY <3>1, ActiveRow
  <2>2. ~HasActive(rows, n) => ~HasActive(new, n)
    BY <1>1, <1>2 DEF HasActive, Named
  <2> QED  BY <2>1, <2>2, ActiveRow DEF HasActive
<1>9. RowsByVersion(new, n) = [RowsByVersion(rows, n) EXCEPT ![v].desc = d]
  <2> DEFINE g == RowsByVersion(rows, n)
             h == RowsByVersion(new, n)
  <2>1. DOMAIN g = Versions(rows, n) /\ DOMAIN h = Versions(rows, n)
    BY <1>5 DEF RowsByVersion
  <2>2. g = [u \in DOMAIN g |-> g[u]] /\ h = [u \in DOMAIN h |-> h[u]]
    BY DEF RowsByVersion
  <2>3. \A u \in DOMAIN g : h[u] = IF u = v THEN [g[v] EXCEPT !.desc = d] ELSE g[u]
    BY <1>6, <1>7, <2>1
  <2> HIDE DEF g, h
  <2> QED  BY <2>1, <2>2, <2>3 DEF g, h
<1> QED  BY <1>4, <1>5, <1>8, <1>9

\* The entries of versions whose rows only change their flag stay.
LEMMA ActivateEntries ==
    ASSUME NEW rows \in SUBSET ModelRow, OneActive(rows), UniqueKeys(rows),
           NEW n \in Names, NEW v \in 1..MaxVersion, Registered(rows, n, v),
           NEW new, new = ActivatedAt(Deactivated(rows, n), n, v), OneActive(new), UniqueKeys(new)
    PROVE  /\ \A k \in Names \ {n} : Named(new, k) = Named(rows, k)
           /\ v \in Versions(rows, n)
           /\ RowsByVersion(new, n) = RowsByVersion(rows, n)
           /\ ActiveVersion(new, n) = v
<1> DEFINE low(m) == IF m.name = n THEN [m EXCEPT !.active = FALSE] ELSE m
           up(m) == IF m.name = n /\ m.version = v THEN [m EXCEPT !.active = TRUE] ELSE m
           f(m) == up(low(m))
<1>1. \A m \in rows : /\ low(m) \in ModelRow /\ low(m).name = m.name /\ low(m).version = m.version
                      /\ Cols(low(m)) = Cols(m)
                      /\ m.name # n => low(m) = m
  BY DEF ModelRow, Cols
<1>2. \A m \in ModelRow : /\ up(m).name = m.name /\ up(m).version = m.version
                          /\ Cols(up(m)) = Cols(m)
                          /\ m.name # n => up(m) = m
                          /\ m.name = n /\ m.version = v => up(m).active
  BY DEF ModelRow, Cols
<1>3. new = {f(m) : m \in rows}
  <2>1. new = {up(x) : x \in {low(m) : m \in rows}}
    BY DEF ActivatedAt, Deactivated
  <2> HIDE DEF up, low
  <2> QED  BY <2>1
<1>4. PICK y \in rows : y.name = n /\ y.version = v
  BY DEF Registered, Named
<1> HIDE DEF up, low
<1>5. \A m \in rows : /\ f(m).name = m.name /\ f(m).version = m.version
                      /\ Cols(f(m)) = Cols(m)
                      /\ m.name # n => f(m) = m
  BY <1>1, <1>2
<1>6. f(y).active
  BY <1>1, <1>2, <1>4
<1> HIDE DEF f
<1>7. \A k \in Names \ {n} : Named(new, k) = Named(rows, k)
  BY <1>3, <1>5 DEF Named
<1>8. Versions(new, n) = Versions(rows, n) /\ v \in Versions(rows, n)
  BY <1>3, <1>4, <1>5 DEF Versions, Named
<1>9. ASSUME NEW u \in Versions(rows, n)
      PROVE  RowsByVersion(new, n)[u] = RowsByVersion(rows, n)[u]
  <2>1. PICK m \in rows : m.name = n /\ m.version = u
    BY DEF Versions, Named
  <2>2. f(m) \in new
    BY <1>3
  <2> QED  BY <1>5, <2>1, <2>2, SameColumns
<1>10. RowsByVersion(new, n) = RowsByVersion(rows, n)
  BY <1>8, <1>9, Entries
<1>11. ActiveVersion(new, n) = v
  <2>1. f(y) \in Named(new, n) /\ f(y).version = v
    BY <1>3, <1>4, <1>5 DEF Named
  <2> QED  BY <1>6, <2>1, ActiveRow
<1> QED  BY <1>7, <1>8, <1>10, <1>11

\* A deletion takes entries away, and the flag with the flagged one.
LEMMA DeleteEntries ==
    ASSUME NEW rows \in SUBSET ModelRow, OneActive(rows), UniqueKeys(rows),
           NEW n \in Names, NEW gone, NEW new,
           \A m : m \in new <=> m \in rows /\ (m.name = n => m.version \notin gone)
    PROVE  /\ \A k \in Names \ {n} : Named(new, k) = Named(rows, k)
           /\ RowsByVersion(new, n) = Store!Restrict(RowsByVersion(rows, n), Versions(rows, n) \ gone)
           /\ ActiveVersion(new, n) =
                IF ActiveVersion(rows, n) \in gone THEN 0 ELSE ActiveVersion(rows, n)
<1>1. new \subseteq rows
  OBVIOUS
<1>2. OneActive(new) /\ UniqueKeys(new)
  BY <1>1 DEF OneActive, UniqueKeys
<1>4. \A k \in Names \ {n} : Named(new, k) = Named(rows, k)
  BY DEF Named
<1>5. Versions(new, n) = Versions(rows, n) \ gone
  BY DEF Named, Versions
<1>6. ASSUME NEW u \in Versions(new, n)
      PROVE  RowsByVersion(new, n)[u] = RowsByVersion(rows, n)[u]
  <2>1. PICK m \in new : m.name = n /\ m.version = u
    BY DEF Versions, Named
  <2>2. m \in rows
    BY <1>1
  <2> QED  BY <1>2, <2>1, <2>2, SameColumns
<1>7. RowsByVersion(new, n) = Store!Restrict(RowsByVersion(rows, n), Versions(rows, n) \ gone)
  BY <1>5, <1>6, Entries DEF Store!Restrict
<1>8. CASE HasActive(rows, n)
  <2>1. PICK m \in Named(rows, n) : m.active
    BY <1>8 DEF HasActive
  <2>2. ActiveVersion(rows, n) = m.version
    BY <2>1, ActiveRow
  <2>3. CASE m.version \in gone
    <3>1. ~HasActive(new, n)
      BY <2>1, <2>3 DEF HasActive, Named, OneActive
    <3> QED  BY <1>2, <1>4, <1>7, <2>2, <2>3, <3>1, ActiveRow
  <2>4. CASE m.version \notin gone
    <3>1. m \in Named(new, n)
      BY <2>1, <2>4 DEF Named
    <3> QED  BY <1>2, <1>4, <1>7, <2>1, <2>2, <2>4, <3>1, ActiveRow
  <2> QED  BY <2>3, <2>4
<1>9. CASE ~HasActive(rows, n)
  <2>1. ~HasActive(new, n)
    BY <1>1, <1>9 DEF HasActive, Named
  <2> QED  BY <1>2, <1>4, <1>7, <1>9, <2>1, ActiveRow
<1> QED  BY <1>8, <1>9

\* The tables a request does not touch stay as they are.
LEMMA SameRows ==
    ASSUME NEW d, NEW w
    PROVE  /\ w.models = d.models => ModelsIn(w) = ModelsIn(d) /\ ActiveIn(w) = ActiveIn(d)
           /\ w.pipelines = d.pipelines => PipelinesIn(w) = PipelinesIn(d)
           /\ w.resources = d.resources => ResourcesIn(w) = ResourcesIn(d)
  BY DEF ModelsIn, ActiveIn, PipelinesIn, ResourcesIn

LEMMA SetModelEffect ==
    ASSUME Sound(disk), Sound(disk'), NEW r \in Requests, ValidArgs(r), r.op = "set_model",
           Whole(r, disk, disk')
    PROVE  Store!SetModel(r)
<1> DEFINE n == r.name
           d == disk
           w == disk'
           M == ModelsIn(d)
           A == ActiveIn(d)
<1>1. n \in Names /\ r.active \in BOOLEAN
  BY RequestFields
<1>2. PICK v \in 1..MaxVersion :
         /\ IsNext(Versions(d.models, n), v)
         /\ w = [d EXCEPT !.models = (IF r.active THEN Deactivated(d.models, n) ELSE d.models)
                                        \cup {NewModel(r, v)}]
  BY DEF Whole
<1>3. /\ w.models = (IF r.active THEN Deactivated(d.models, n) ELSE d.models) \cup {NewModel(r, v)}
      /\ w.pipelines = d.pipelines /\ w.resources = d.resources
  BY <1>2 DEF Sound, Tables
<1>4. d.models \in SUBSET ModelRow
  BY DEF Sound, Tables
<1>5. /\ \A k \in Names \ {n} : Named(w.models, k) = Named(d.models, k)
      /\ v \notin Versions(d.models, n)
      /\ RowsByVersion(w.models, n) =
            [u \in Versions(d.models, n) \cup {v} |->
               IF u = v THEN Cols(NewModel(r, v)) ELSE RowsByVersion(d.models, n)[u]]
      /\ ActiveVersion(w.models, n) = IF r.active THEN v ELSE ActiveVersion(d.models, n)
  BY <1>2, <1>3, <1>4, SetModelEntries DEF Sound
<1>6. \A k \in Names \ {n} : /\ RowsByVersion(w.models, k) = RowsByVersion(d.models, k)
                             /\ ActiveVersion(w.models, k) = ActiveVersion(d.models, k)
  BY <1>5, SameName
<1>7. M[n] = RowsByVersion(d.models, n) /\ DOMAIN M[n] = Versions(d.models, n)
  BY <1>1 DEF ModelsIn, RowsByVersion
<1>8. Cols(NewModel(r, v)) = Store!Info(r)
  BY DEF Cols, NewModel, Store!Info
<1>9. Store!Newest(n) + 1 = v
  <2>1. Versions(d.models, n) \in SUBSET Nat /\ v \in Nat
    BY <1>4, BoundsAssumption DEF Versions, Named, ModelRow
  <2> QED  BY <1>2, <1>7, <2>1, NextVersion DEF Store!Newest, Store!Versions
<1>10. ModelsIn(w) = [M EXCEPT ![n] = [u \in DOMAIN M[n] \cup {v} |->
                                         IF u = v THEN Store!Info(r) ELSE M[n][u]]]
  BY <1>1, <1>5, <1>6, <1>7, <1>8 DEF ModelsIn
<1>11. ActiveIn(w) = IF r.active THEN [A EXCEPT ![n] = v] ELSE A
  BY <1>1, <1>5, <1>6 DEF ActiveIn
<1>12. PipelinesIn(w) = PipelinesIn(d) /\ ResourcesIn(w) = ResourcesIn(d)
  BY <1>3, SameRows
<1> QED  BY <1>9, <1>10, <1>11, <1>12 DEF Store!SetModel

LEMMA UpdateEffect ==
    ASSUME Sound(disk), Sound(disk'), NEW r \in Requests, ValidArgs(r),
           r.op = "update_description", Whole(r, disk, disk')
    PROVE  Store!UpdateDescription(r)
<1> DEFINE n == r.name
           v == r.version
           d == disk
           w == disk'
           M == ModelsIn(d)
<1>1. n \in Names /\ v \in 1..MaxVersion
  BY RequestFields
<1>2. w = [d EXCEPT !.models = DescribedAt(d.models, n, v, r.desc)] /\ Registered(d.models, n, v)
  BY DEF Whole
<1>3. /\ w.models = DescribedAt(d.models, n, v, r.desc)
      /\ w.pipelines = d.pipelines /\ w.resources = d.resources
  BY <1>2 DEF Sound, Tables
<1>4. /\ \A k \in Names \ {n} : Named(w.models, k) = Named(d.models, k)
      /\ v \in Versions(d.models, n)
      /\ RowsByVersion(w.models, n) = [RowsByVersion(d.models, n) EXCEPT ![v].desc = r.desc]
      /\ ActiveVersion(w.models, n) = ActiveVersion(d.models, n)
  <2>1. d.models \in SUBSET ModelRow
    BY DEF Sound, Tables
  <2> QED  BY <1>1, <1>2, <1>3, <2>1, UpdateEntries DEF Sound
<1>5. \A k \in Names \ {n} : /\ RowsByVersion(w.models, k) = RowsByVersion(d.models, k)
                             /\ ActiveVersion(w.models, k) = ActiveVersion(d.models, k)
  BY <1>4, SameName
<1>6. M[n] = RowsByVersion(d.models, n) /\ DOMAIN M[n] = Versions(d.models, n)
  BY <1>1 DEF ModelsIn, RowsByVersion
<1>7. ModelsIn(w) = [M EXCEPT ![n][v].desc = r.desc]
  BY <1>1, <1>4, <1>5, <1>6 DEF ModelsIn
<1>8. ActiveIn(w) = ActiveIn(d)
  BY <1>4, <1>5 DEF ActiveIn
<1>9. PipelinesIn(w) = PipelinesIn(d) /\ ResourcesIn(w) = ResourcesIn(d)
  BY <1>3, SameRows
<1> QED  BY <1>4, <1>6, <1>7, <1>8, <1>9 DEF Store!UpdateDescription, Store!Versions

LEMMA ActivateEffect ==
    ASSUME Sound(disk), Sound(disk'), NEW r \in Requests, ValidArgs(r),
           r.op = "activate_model", Whole(r, disk, disk')
    PROVE  Store!ActivateModel(r)
<1> DEFINE n == r.name
           v == r.version
           d == disk
           w == disk'
           M == ModelsIn(d)
<1>1. n \in Names /\ v \in 1..MaxVersion
  BY RequestFields
<1>2. /\ w = [d EXCEPT !.models = ActivatedAt(Deactivated(d.models, n), n, v)]
      /\ Registered(d.models, n, v)
  BY DEF Whole
<1>3. /\ w.models = ActivatedAt(Deactivated(d.models, n), n, v)
      /\ w.pipelines = d.pipelines /\ w.resources = d.resources
  BY <1>2 DEF Sound, Tables
<1>4. /\ \A k \in Names \ {n} : Named(w.models, k) = Named(d.models, k)
      /\ v \in Versions(d.models, n)
      /\ RowsByVersion(w.models, n) = RowsByVersion(d.models, n)
      /\ ActiveVersion(w.models, n) = v
  <2>1. d.models \in SUBSET ModelRow
    BY DEF Sound, Tables
  <2> QED  BY <1>1, <1>2, <1>3, <2>1, ActivateEntries DEF Sound
<1>5. \A k \in Names \ {n} : /\ RowsByVersion(w.models, k) = RowsByVersion(d.models, k)
                             /\ ActiveVersion(w.models, k) = ActiveVersion(d.models, k)
  BY <1>4, SameName
<1>6. DOMAIN M[n] = Versions(d.models, n)
  BY <1>1 DEF ModelsIn, RowsByVersion
<1>7. ModelsIn(w) = M
  BY <1>4, <1>5 DEF ModelsIn
<1>8. ActiveIn(w) = [ActiveIn(d) EXCEPT ![n] = v]
  BY <1>1, <1>4, <1>5 DEF ActiveIn
<1>9. PipelinesIn(w) = PipelinesIn(d) /\ ResourcesIn(w) = ResourcesIn(d)
  BY <1>3, SameRows
<1> QED  BY <1>4, <1>6, <1>7, <1>8, <1>9 DEF Store!ActivateModel, Store!Versions

LEMMA DeleteEffect ==
    ASSUME Sound(disk), Sound(disk'), NEW r \in Requests, ValidArgs(r),
           r.op = "delete_model", Whole(r, disk, disk')
    PROVE  Store!DeleteModel(r)
<1> DEFINE n == r.name
           v == r.version
           d == disk
           w == disk'
           M == ModelsIn(d)
           gone == IF v = 0 THEN Versions(d.models, n) ELSE {v}
           rows == {m \in Named(d.models, n) : v > 0 => m.version = v}
<1>1. n \in Names /\ v \in 0..MaxVersion
  BY RequestFields
<1>2. w = [d EXCEPT !.models = d.models \ rows]
  BY DEF Whole
<1>3. /\ w.models = d.models \ rows
      /\ w.pipelines = d.pipelines /\ w.resources = d.resources
  <2> HIDE DEF rows
  <2> QED  BY <1>2 DEF Sound, Tables
<1>4. /\ \A k \in Names \ {n} : Named(w.models, k) = Named(d.models, k)
      /\ RowsByVersion(w.models, n) =
            Store!Restrict(RowsByVersion(d.models, n), Versions(d.models, n) \ gone)
      /\ ActiveVersion(w.models, n) =
            IF ActiveVersion(d.models, n) \in gone THEN 0 ELSE ActiveVersion(d.models, n)
  <2>1. d.models \in SUBSET ModelRow /\ OneActive(d.models) /\ UniqueKeys(d.models)
    BY DEF Sound, Tables
  <2>2. \A m : m \in w.models <=> m \in d.models /\ (m.name = n => m.version \notin gone)
    BY <1>1, <1>3, <2>1, BoundsAssumption DEF Named, Versions, ModelRow
  <2> HIDE DEF gone
  <2> QED  BY <1>1, <2>1, <2>2, DeleteEntries
<1>5. \A k \in Names \ {n} : /\ RowsByVersion(w.models, k) = RowsByVersion(d.models, k)
                             /\ ActiveVersion(w.models, k) = ActiveVersion(d.models, k)
  BY <1>4, SameName
<1>6. M[n] = RowsByVersion(d.models, n) /\ DOMAIN M[n] = Versions(d.models, n)
  BY <1>1 DEF ModelsIn, RowsByVersion
<1> HIDE DEF gone
<1>7. ModelsIn(w) = [M EXCEPT ![n] = Store!Restrict(M[n], DOMAIN M[n] \ gone)]
  BY <1>1, <1>4, <1>5, <1>6 DEF ModelsIn
<1>8. ActiveIn(w) = IF ActiveIn(d)[n] \in gone THEN [ActiveIn(d) EXCEPT ![n] = 0] ELSE ActiveIn(d)
  BY <1>1, <1>4, <1>5 DEF ActiveIn
<1>9. PipelinesIn(w) = PipelinesIn(d) /\ ResourcesIn(w) = ResourcesIn(d)
  BY <1>3, SameRows
<1> QED  BY <1>6, <1>7, <1>8, <1>9 DEF gone, Store!DeleteModel, Store!Versions

-----------------------------------------------------------------------------
(* What a request makes of the abstract pipelines. *)

LEMMA PipelineEffect ==
    ASSUME Sound(disk), Sound(disk'), NEW r \in Requests, ValidArgs(r),
           r.op \in {"set_pipeline", "delete_pipeline"}, Whole(r, disk, disk')
    PROVE  Store!SetPipeline(r) \/ Store!DeletePipeline(r)
<1> DEFINE n == r.name
           d == disk
           w == disk'
           row == [name |-> n, desc |-> r.desc]
           left == IF r.op = "set_pipeline" THEN {row} ELSE {}
<1>1. n \in Names
  BY RequestFields
<1>2. w = [d EXCEPT !.pipelines = (d.pipelines \ Named(d.pipelines, n)) \cup left]
  BY DEF Whole
<1>3. left = {} \/ left = {row}
  OBVIOUS
<1>4. /\ w.pipelines = (d.pipelines \ Named(d.pipelines, n)) \cup left
      /\ w.models = d.models /\ w.resources = d.resources
  <2> HIDE DEF left
  <2> QED  BY <1>2 DEF Sound, Tables
<1>5. Named(w.pipelines, n) = left /\ \A k \in Names \ {n} : Named(w.pipelines, k) = Named(d.pipelines, k)
  <2>1. \A x \in left : x.name = n
    OBVIOUS
  <2> HIDE DEF left
  <2> QED  BY <1>4, <2>1 DEF Named
<1>6. \A k \in Names \ {n} : Description(w.pipelines, k) = Description(d.pipelines, k)
  <2> TAKE k \in Names \ {n}
  <2>1. Named(w.pipelines, k) = Named(d.pipelines, k)
    BY <1>5
  <2> QED  BY <2>1 DEF Description
<1>7. Description(w.pipelines, n) = IF r.op = "set_pipeline" THEN r.desc ELSE Empty
  <2>1. CASE r.op = "set_pipeline"
    <3>1. Named(w.pipelines, n) = {row} /\ (CHOOSE p \in {row} : TRUE) = row
      BY <1>5, <2>1
    <3> QED  BY <2>1, <3>1 DEF Description
  <2>2. CASE r.op # "set_pipeline"
    BY <1>5, <2>2 DEF Description
  <2> QED  BY <2>1, <2>2
<1>8. PipelinesIn(w) =
         [PipelinesIn(d) EXCEPT ![n] = IF r.op = "set_pipeline" THEN r.desc ELSE Empty]
  BY <1>1, <1>6, <1>7 DEF PipelinesIn
<1>9. ModelsIn(w) = ModelsIn(d) /\ ActiveIn(w) = ActiveIn(d) /\ ResourcesIn(w) = ResourcesIn(d)
  BY <1>4, SameRows
<1> QED  BY <1>8, <1>9 DEF Store!SetPipeline, Store!DeletePipeline

-----------------------------------------------------------------------------
(* The places of the resources. *)

Countable(rows) ==
    /\ IsFiniteSet(rows)
    /\ \A s \in rows : s.rowid \in Nat
    /\ \A s, t \in rows : s.rowid = t.rowid => s = t

UpTo(s, rows) == {t \in rows : t.rowid <= s.rowid}

\* Places number the rows from 1, in the order of their rowids.
LEMMA Places ==
    ASSUME NEW rows, Countable(rows)
    PROVE  /\ Cardinality(rows) \in Nat
           /\ \A s \in rows : Place(s, rows) \in 1..Cardinality(rows)
           /\ \A s, t \in rows : s.rowid < t.rowid => Place(s, rows) < Place(t, rows)
           /\ \A i \in 1..Cardinality(rows) : \E s \in rows : Place(s, rows) = i
<1> DEFINE N == Cardinality(rows)
           P(s) == Place(s, rows)
<1>1. IsFiniteSet(rows) /\ N \in Nat
  BY FS_CardinalityType DEF Countable
<1>2. \A s \in rows : P(s) = Cardinality(UpTo(s, rows)) /\ UpTo(s, rows) \in SUBSET rows
  BY DEF Place, UpTo
<1>3. ASSUME NEW s \in rows PROVE IsFiniteSet(UpTo(s, rows)) /\ P(s) \in 1..N
  <2>1. IsFiniteSet(UpTo(s, rows)) /\ P(s) <= N /\ P(s) \in Nat
    BY <1>1, <1>2, FS_Subset, FS_CardinalityType
  <2>2. s \in UpTo(s, rows)
    BY DEF UpTo, Countable
  <2>3. P(s) # 0
    BY <1>2, <2>1, <2>2, FS_EmptySet
  <2> QED  BY <2>1, <2>3
<1>4. ASSUME NEW s \in rows, NEW t \in rows, s.rowid < t.rowid PROVE P(s) < P(t)
  <2>1. UpTo(s, rows) \in SUBSET UpTo(t, rows)
    BY <1>4 DEF UpTo, Countable
  <2>2. t \in UpTo(t, rows) /\ t \notin UpTo(s, rows)
    BY <1>4 DEF UpTo, Countable
  <2>3. IsFiniteSet(UpTo(t, rows)) /\ P(s) \in Nat /\ P(t) \in Nat
    BY <1>3
  <2>4. P(s) <= P(t) /\ P(s) # P(t)
    BY <1>2, <2>1, <2>2, <2>3, FS_Subset
  <2> QED  BY <2>3, <2>4
<1>5. ASSUME NEW i \in 1..N PROVE \E s \in rows : P(s) = i
  <2> DEFINE f == [s \in rows |-> P(s)]
  <2>1. f \in [rows -> 1..N]
    BY <1>3
  <2>2. \A s, t \in rows : f[s] = f[t] => s = t
    <3> SUFFICES ASSUME NEW s \in rows, NEW t \in rows, P(s) = P(t) PROVE s = t
      OBVIOUS
    <3>1. s.rowid \in Nat /\ t.rowid \in Nat
      BY DEF Countable
    <3>2. ~(s.rowid < t.rowid) /\ ~(t.rowid < s.rowid)
      BY <1>3, <1>4
    <3> QED  BY <3>1, <3>2 DEF Countable
  <2>3. f \in Injection(rows, 1..N)
    BY <2>1, <2>2 DEF Injection, IsInjective
  <2>4. IsFiniteSet(1..N) /\ Cardinality(1..N) = N
    BY <1>1, FS_Interval
  <2>5. f \in Surjection(rows, 1..N)
    BY <2>3, <2>4, FS_Injection
  <2> QED  BY <2>5 DEF Surjection
<1> QED  BY <1>1, <1>3, <1>4, <1>5

\* The entry at the place of a row is the row.
LEMMA AtPlace ==
    ASSUME NEW rows, Countable(rows), NEW s \in rows
    PROVE  ByRowid(rows)[Place(s, rows)] = Cols(s)
<1>1. Place(s, rows) \in 1..Cardinality(rows)
  BY Places
<1>2. ASSUME NEW t \in rows, Place(t, rows) = Place(s, rows) PROVE t = s
  <2>1. s.rowid \in Nat /\ t.rowid \in Nat /\ Place(s, rows) \in Nat
    BY <1>1 DEF Countable
  <2>2. /\ s.rowid < t.rowid => Place(s, rows) < Place(t, rows)
        /\ t.rowid < s.rowid => Place(t, rows) < Place(s, rows)
    BY Places
  <2> QED  BY <1>2, <2>1, <2>2 DEF Countable
<1>3. (CHOOSE t \in rows : Place(t, rows) = Place(s, rows)) = s
  BY <1>2
<1> QED  BY <1>1, <1>3 DEF ByRowid, Cols

LEMMA ListLength ==
    ASSUME NEW rows, Countable(rows), NEW S, \A s \in rows : Cols(s) \in S
    PROVE  ByRowid(rows) \in Seq(S) /\ Len(ByRowid(rows)) = Cardinality(rows)
<1> DEFINE N == Cardinality(rows)
           list == ByRowid(rows)
<1>1. N \in Nat /\ \A i \in 1..N : \E s \in rows : Place(s, rows) = i
  BY Places
<1>2. \A i \in 1..N : list[i] \in S
  BY <1>1, AtPlace
<1>3. list = [i \in 1..N |-> list[i]]
  BY DEF ByRowid
<1> HIDE DEF list, N
<1>4. list \in [1..N -> S]
  BY <1>2, <1>3
<1>5. list \in Seq(S)
  BY <1>1, <1>4, SeqDef
<1>6. Len(list) = N
  BY <1>1, <1>4, <1>5, LenProperties
<1> QED  BY <1>5, <1>6 DEF list, N

\* A row with a larger rowid comes last.
LEMMA AddLast ==
    ASSUME NEW rows, Countable(rows), NEW x, x.rowid \in Nat,
           \A s \in rows : s.rowid < x.rowid
    PROVE  /\ Countable(rows \cup {x})
           /\ ByRowid(rows \cup {x}) = Append(ByRowid(rows), Cols(x))
<1> DEFINE R == rows \cup {x}
           N == Cardinality(rows)
           list == ByRowid(rows)
           more == ByRowid(R)
<1>1. x \notin rows
  BY DEF Countable
<1>2. Countable(R)
  BY FS_AddElement DEF Countable
<1>3. N \in Nat /\ Cardinality(R) = N + 1
  BY <1>1, FS_AddElement, FS_CardinalityType DEF Countable
<1>4. ASSUME NEW i \in 1..N PROVE more[i] = list[i]
  <2>1. PICK s \in rows : Place(s, rows) = i
    BY Places
  <2>2. {t \in R : t.rowid <= s.rowid} = {t \in rows : t.rowid <= s.rowid}
    BY DEF Countable
  <2>3. Place(s, R) = i
    BY <2>1, <2>2 DEF Place
  <2> QED  BY <1>2, <2>1, <2>3, AtPlace
<1>5. more[N + 1] = Cols(x)
  <2>1. {t \in R : t.rowid <= x.rowid} = R
    BY DEF Countable
  <2>2. Place(x, R) = N + 1
    BY <1>3, <2>1 DEF Place
  <2> QED  BY <1>2, <2>2, AtPlace
<1> DEFINE S == {Cols(s) : s \in R}
<1>6. more \in Seq(S) /\ Len(more) = N + 1 /\ list \in Seq(S) /\ Len(list) = N /\ Cols(x) \in S
  BY <1>2, <1>3, ListLength
<1> HIDE DEF more, list, N, S
<1>7. /\ Append(list, Cols(x)) \in Seq(S) /\ Len(Append(list, Cols(x))) = N + 1
      /\ \A i \in 1..N : Append(list, Cols(x))[i] = list[i]
      /\ Append(list, Cols(x))[N + 1] = Cols(x)
  BY <1>6, AppendProperties
<1>8. \A i \in 1..(N + 1) : more[i] = Append(list, Cols(x))[i]
  BY <1>3, <1>4, <1>5, <1>7
<1>9. more = Append(list, Cols(x))
  BY <1>6, <1>7, <1>8, SeqEqual
<1> QED  BY <1>2, <1>9 DEF more, list

\* Without a row, those behind it move up.
LEMMA RemoveOne ==
    ASSUME NEW rows, Countable(rows), NEW y \in rows
    PROVE  /\ Countable(rows \ {y})
           /\ ByRowid(rows \ {y}) = Store!RemoveAt(ByRowid(rows), Place(y, rows))
<1> DEFINE R == rows \ {y}
           N == Cardinality(rows)
           list == ByRowid(rows)
           less == ByRowid(R)
           k == Place(y, rows)
<1>1. Countable(R)
  BY FS_RemoveElement DEF Countable
<1>2. N \in Nat /\ Cardinality(R) = N - 1 /\ k \in 1..N
  BY FS_RemoveElement, Places DEF Countable
<1>3. ASSUME NEW s \in R
      PROVE  Place(s, R) = IF Place(s, rows) < k THEN Place(s, rows) ELSE Place(s, rows) - 1
  <2>1. s.rowid \in Nat /\ y.rowid \in Nat /\ s.rowid # y.rowid
    BY DEF Countable
  <2>2. Place(s, rows) \in 1..N
    BY Places
  <2>3. CASE s.rowid < y.rowid
    <3>1. Place(s, rows) < k
      BY <2>3, Places
    <3>2. {t \in R : t.rowid <= s.rowid} = {t \in rows : t.rowid <= s.rowid}
      BY <2>1, <2>3 DEF Countable
    <3> QED  BY <3>1, <3>2 DEF Place
  <2>4. CASE y.rowid < s.rowid
    <3>1. k < Place(s, rows)
      BY <2>4, Places
    <3>2. UpTo(s, R) = UpTo(s, rows) \ {y} /\ y \in UpTo(s, rows)
      BY <2>1, <2>4 DEF UpTo
    <3>3. UpTo(s, rows) \in SUBSET rows
      BY DEF UpTo
    <3>4. IsFiniteSet(UpTo(s, rows))
      BY <3>3, FS_Subset DEF Countable
    <3>5. Cardinality(UpTo(s, R)) = Cardinality(UpTo(s, rows)) - 1
      BY <3>2, <3>4, FS_RemoveElement
    <3>6. Place(s, R) = Place(s, rows) - 1
      BY <3>5 DEF Place, UpTo
    <3> QED  BY <1>2, <2>2, <3>1, <3>6
  <2> QED  BY <2>1, <2>3, <2>4
<1>4. ASSUME NEW i \in 1..(N - 1) PROVE less[i] = list[IF i < k THEN i ELSE i + 1]
  <2> DEFINE j == IF i < k THEN i ELSE i + 1
  <2>1. j \in 1..N /\ j # k
    BY <1>2
  <2>2. PICK s \in rows : Place(s, rows) = j
    BY <2>1, Places
  <2>3. s \in R
    BY <2>1, <2>2
  <2>4. Place(s, R) = i
    BY <1>2, <1>3, <2>2, <2>3
  <2> QED  BY <1>1, <2>2, <2>3, <2>4, AtPlace
<1> DEFINE S == {Cols(s) : s \in rows}
<1>5. less \in Seq(S) /\ Len(less) = N - 1 /\ list \in Seq(S) /\ Len(list) = N
  BY <1>1, <1>2, ListLength
<1> HIDE DEF less, list, N, k, S
<1> DEFINE before == SubSeq(list, 1, k - 1)
           behind == SubSeq(list, k + 1, N)
<1>6. \A i \in 1..N : list[i] \in S
  BY <1>5, ElementOfSeq
<1>7. /\ before \in Seq(S) /\ Len(before) = k - 1
      /\ \A i \in 1..(k - 1) : before[i] = list[i]
  BY <1>2, <1>6, SubSeqProperties
<1>8. /\ behind \in Seq(S) /\ Len(behind) = N - k
      /\ \A i \in 1..(N - k) : behind[i] = list[k + i]
  BY <1>2, <1>6, SubSeqProperties
<1> HIDE DEF before, behind
<1>9. /\ before \o behind \in Seq(S) /\ Len(before \o behind) = N - 1
      /\ \A i \in 1..(N - 1) : (before \o behind)[i] = list[IF i < k THEN i ELSE i + 1]
  <2>1. /\ before \o behind \in Seq(S) /\ Len(before \o behind) = N - 1
        /\ \A i \in 1..(N - 1) : (before \o behind)[i] =
              IF i <= k - 1 THEN before[i] ELSE behind[i - (k - 1)]
    BY <1>2, <1>7, <1>8, ConcatProperties
  <2>2. ASSUME NEW i \in 1..(N - 1)
        PROVE  (before \o behind)[i] = list[IF i < k THEN i ELSE i + 1]
    <3>1. CASE i < k
      BY <1>2, <1>7, <2>1, <3>1
    <3>2. CASE k <= i
      <4> DEFINE j == i - (k - 1)
      <4>1. j \in 1..(N - k) /\ k + j = i + 1 /\ ~(i <= k - 1) /\ ~(i < k)
        BY <1>2, <3>2
      <4>2. (before \o behind)[i] = behind[j]
        BY <2>1, <4>1
      <4> HIDE DEF j
      <4>3. behind[j] = list[i + 1]
        BY <1>8, <4>1
      <4> QED  BY <4>1, <4>2, <4>3
    <3>3. i < k \/ k <= i
      BY <1>2
    <3> QED  BY <3>1, <3>2, <3>3
  <2> QED  BY <2>1, <2>2
<1>10. less = before \o behind
  <2>1. \A i \in 1..(N - 1) : less[i] = (before \o behind)[i]
    BY <1>4, <1>9
  <2> QED  BY <1>5, <1>9, <2>1, SeqEqual
<1>11. less = Store!RemoveAt(list, k)
  BY <1>5, <1>10 DEF Store!RemoveAt, before, behind
<1> QED  BY <1>1, <1>11 DEF less, list, k

-----------------------------------------------------------------------------
(* What a request makes of the abstract resources. *)

\* The rows of a name can be counted.
LEMMA FiniteRows ==
    ASSUME NEW d, Sound(d), NEW n
    PROVE  /\ Countable(Named(d.resources, n))
           /\ \A s, t \in Named(d.resources, n) : s.path = t.path => s = t
<1> DEFINE rows == Named(d.resources, n)
           f == [s \in rows |-> s.rowid]
<1>1. /\ \A s \in rows : s.rowid \in 1..MaxRowid
      /\ \A s, t \in rows : s.rowid = t.rowid => s = t
      /\ \A s, t \in rows : s.path = t.path => s = t
  BY DEF Sound, Tables, ResourceRow, Keys, Named
<1> HIDE DEF rows
<1>2. f \in Injection(rows, 1..MaxRowid)
  BY <1>1 DEF Injection, IsInjective
<1>3. IsFiniteSet(1..MaxRowid)
  BY BoundsAssumption, FS_Interval
<1>4. IsFiniteSet(rows)
  BY <1>2, <1>3, FS_Injection
<1> QED  BY <1>1, <1>4, BoundsAssumption DEF Countable, rows

\* The abstract store replaces the entry of the path, and so does the INSERT.
LEMMA ReplaceLast ==
    ASSUME NEW rows, Countable(rows), \A s, t \in rows : s.path = t.path => s = t,
           NEW x, x.rowid \in Nat, \A s \in rows : s.rowid < x.rowid,
           NEW same, \A s : s \in same <=> s \in rows /\ s.path = x.path
    PROVE  ByRowid((rows \ same) \cup {x}) =
             Append(Store!Without(ByRowid(rows), x.path), Cols(x))
<1> DEFINE list == ByRowid(rows)
           N == Cardinality(rows)
           at == {i \in DOMAIN list : list[i].path = x.path}
<1>1. DOMAIN list = 1..N
  BY DEF ByRowid
<1>2. \A i \in 1..N : \E s \in rows : Place(s, rows) = i /\ list[i] = Cols(s)
  BY Places, AtPlace
<1>3. \A s \in rows : Place(s, rows) \in 1..N /\ list[Place(s, rows)] = Cols(s)
  BY Places, AtPlace
<1>4. \A s : Cols(s).path = s.path
  BY DEF Cols
<1>0. Store!Without(ByRowid(rows), x.path) =
        IF at = {} THEN ByRowid(rows) ELSE Store!RemoveAt(ByRowid(rows), CHOOSE i \in at : TRUE)
  BY DEF Store!Without
<1> HIDE DEF list, N, at
<1>5. CASE same = {}
  <2>1. at = {}
    BY <1>1, <1>2, <1>4, <1>5 DEF at
  <2>2. (rows \ same) \cup {x} = rows \cup {x}
    BY <1>5
  <2> QED  BY <1>0, <2>1, <2>2, AddLast
<1>6. ASSUME NEW y \in same PROVE same = {y} /\ at = {Place(y, rows)}
  <2>1. same = {y} /\ y \in rows /\ y.path = x.path
    BY <1>6
  <2>2. Place(y, rows) \in at
    BY <1>1, <1>3, <1>4, <2>1 DEF at
  <2>3. ASSUME NEW i \in at PROVE i = Place(y, rows)
    <3>1. i \in 1..N /\ list[i].path = x.path
      BY <1>1 DEF at
    <3>2. PICK s \in rows : Place(s, rows) = i /\ list[i] = Cols(s)
      BY <1>2, <3>1
    <3>3. s.path = x.path
      BY <1>4, <3>1, <3>2
    <3> QED  BY <2>1, <3>2, <3>3
  <2> QED  BY <2>1, <2>2, <2>3
<1>7. CASE same # {}
  <2>1. PICK y \in same : TRUE
    BY <1>7
  <2>2. same = {y} /\ y \in rows /\ at = {Place(y, rows)}
    BY <1>6
  <2>3. (CHOOSE i \in at : TRUE) = Place(y, rows) /\ at # {}
    BY <2>2
  <2>4. Countable(rows \ {y}) /\ ByRowid(rows \ {y}) = Store!RemoveAt(ByRowid(rows), Place(y, rows))
    BY <2>2, RemoveOne
  <2>5. ByRowid((rows \ {y}) \cup {x}) = Append(ByRowid(rows \ {y}), Cols(x))
    BY <2>4, AddLast
  <2> QED  BY <1>0, <2>2, <2>3, <2>4, <2>5
<1> QED  BY <1>5, <1>7

LEMMA SetResourceEffect ==
    ASSUME Sound(disk), Sound(disk'), NEW r \in Requests, ValidArgs(r), r.op = "set_resource",
           Whole(r, disk, disk')
    PROVE  Store!SetResource(r)
<1> DEFINE n == r.name
           d == disk
           w == disk'
           rows == Named(d.resources, n)
           same == {s \in rows : s.path = r.path}
           list == ByRowid(rows)
<1>1. n \in Names
  BY RequestFields
<1>2. PICK i \in 1..MaxRowid :
         /\ IsNext(Rowids(d.resources), i)
         /\ w = [d EXCEPT !.resources = (d.resources \ same) \cup {NewResource(r, i)}]
  BY DEF Whole
<1> DEFINE x == NewResource(r, i)
<1>3. x.name = n /\ x.path = r.path /\ x.rowid = i /\ Cols(x) = Store!Info(r)
  BY DEF NewResource, Cols, Store!Info
<1>4. \A s \in d.resources : s.rowid < i
  BY <1>2 DEF IsNext, Rowids
<1>5. \A s \in same : s.name = n
  BY DEF Named
<1> HIDE DEF x, same
<1>6. /\ w.resources = (d.resources \ same) \cup {x}
      /\ w.models = d.models /\ w.pipelines = d.pipelines
  BY <1>2 DEF x, Sound, Tables
<1>7. Named(w.resources, n) = (rows \ same) \cup {x}
  BY <1>3, <1>6 DEF Named
<1>8. \A k \in Names \ {n} : Named(w.resources, k) = Named(d.resources, k)
  BY <1>3, <1>5, <1>6 DEF Named
<1>9. ByRowid((rows \ same) \cup {x}) =
        Append(Store!Without(list, r.path), Cols(x))
  <2>1. Countable(rows) /\ \A s, t \in rows : s.path = t.path => s = t
    BY FiniteRows
  <2>2. x.rowid \in Nat /\ \A s \in rows : s.rowid < x.rowid
    BY <1>3, <1>4, BoundsAssumption DEF Named
  <2>3. \A s : s \in same <=> s \in rows /\ s.path = x.path
    BY <1>3 DEF same
  <2> HIDE DEF rows
  <2> QED  BY <1>3, <2>1, <2>2, <2>3, ReplaceLast
<1>10. ResourcesIn(d)[n] = list
  BY <1>1 DEF ResourcesIn
<1> HIDE DEF list
<1>11. ResourcesIn(w) = [ResourcesIn(d) EXCEPT ![n] =
          Append(Store!Without(list, r.path), Store!Info(r))]
  BY <1>1, <1>3, <1>7, <1>8, <1>9 DEF ResourcesIn
<1>12. ModelsIn(w) = ModelsIn(d) /\ ActiveIn(w) = ActiveIn(d) /\ PipelinesIn(w) = PipelinesIn(d)
  BY <1>6, SameRows
<1> QED  BY <1>10, <1>11, <1>12 DEF Store!SetResource

LEMMA DeleteResourceEffect ==
    ASSUME Sound(disk), Sound(disk'), NEW r \in Requests, ValidArgs(r),
           r.op = "delete_resource", Whole(r, disk, disk')
    PROVE  Store!DeleteResource(r)
<1> DEFINE n == r.name
           d == disk
           w == disk'
<1>1. n \in Names
  BY RequestFields
<1>2. w = [d EXCEPT !.resources = d.resources \ Named(d.resources, n)]
  BY DEF Whole
<1>3. /\ w.resources = d.resources \ Named(d.resources, n)
      /\ w.models = d.models /\ w.pipelines = d.pipelines
  BY <1>2 DEF Sound, Tables
<1>4. Named(w.resources, n) = {} /\ \A k \in Names \ {n} : Named(w.resources, k) = Named(d.resources, k)
  BY <1>3 DEF Named
<1>5. ByRowid({}) = <<>>
  BY FS_EmptySet DEF ByRowid
<1>6. ResourcesIn(w) = [ResourcesIn(d) EXCEPT ![n] = <<>>]
  BY <1>1, <1>4, <1>5 DEF ResourcesIn
<1>7. ModelsIn(w) = ModelsIn(d) /\ ActiveIn(w) = ActiveIn(d) /\ PipelinesIn(w) = PipelinesIn(d)
  BY <1>3, SameRows
<1> QED  BY <1>6, <1>7 DEF Store!DeleteResource

-----------------------------------------------------------------------------
(* Every request. *)

\* The keys of the pipelines and resources survive a request.
LEMMA KeysKept ==
    ASSUME NEW d \in Tables, NEW w, Keys(d), NEW r \in Requests, Whole(r, d, w)
    PROVE  Keys(w)
<1> DEFINE rows == {s \in Named(d.resources, r.name) : s.path = r.path}
           row == [name |-> r.name, desc |-> r.desc]
<1>1. CASE w.pipelines = d.pipelines /\ w.resources = d.resources
  BY <1>1 DEF Keys
<1>2. CASE w.pipelines \subseteq d.pipelines /\ w.resources \subseteq d.resources
  BY <1>2 DEF Keys
<1>3. CASE /\ w.pipelines = (d.pipelines \ Named(d.pipelines, r.name)) \cup {row}
           /\ w.resources = d.resources
  <2>1. row.name = r.name
    OBVIOUS
  <2> HIDE DEF row
  <2> QED  BY <1>3, <2>1 DEF Keys, Named
<1>4. ASSUME NEW i \in 1..MaxRowid, IsNext(Rowids(d.resources), i),
             w.resources = (d.resources \ rows) \cup {NewResource(r, i)},
             w.pipelines = d.pipelines
      PROVE  Keys(w)
  <2> DEFINE x == NewResource(r, i)
  <2>1. x.name = r.name /\ x.path = r.path /\ x.rowid = i
    BY DEF NewResource
  <2>2. \A s \in d.resources : s.rowid # i
    <3>1. \A s \in d.resources : s.rowid \in Nat
      BY BoundsAssumption DEF Tables, ResourceRow
    <3>2. Rowids(d.resources) \in SUBSET Nat
      BY <3>1 DEF Rowids
    <3>3. i \notin Rowids(d.resources)
      BY <1>4, <3>2, BoundsAssumption, NextVersion
    <3> QED  BY <3>3 DEF Rowids
  <2> HIDE DEF x
  <2>3. w.resources = (d.resources \ rows) \cup {x}
    BY <1>4 DEF x
  <2> QED  BY <1>4, <2>1, <2>2, <2>3 DEF Keys, Named
<1> HIDE DEF rows, row
<1> QED  BY <1>1, <1>2, <1>3, <1>4 DEF Whole, Tables, rows, row

LEMMA WholeEffect ==
    ASSUME Sound(disk), Sound(disk'), NEW r \in Requests, ValidArgs(r), Whole(r, disk, disk')
    PROVE  Store!Effect(r)
<1>1. r.op \in {"set_pipeline", "delete_pipeline", "set_model", "update_description",
                "activate_model", "delete_model", "set_resource", "delete_resource"}
  BY DEF Whole
<1> QED  BY <1>1, PipelineEffect, SetModelEffect, UpdateEffect, ActivateEffect, DeleteEffect,
            SetResourceEffect, DeleteResourceEffect DEF Store!Effect

LEMMA InitRInv == Init => RInv
<1>1. ASSUME Init PROVE Keys(disk) /\ \A c \in Callers : Half(c)
  BY <1>1 DEF Init, Keys, NoTables, Half, MovesFlag
<1> QED  BY <1>1, InitSolo DEF RInv

\* The empty tables are the empty store.
LEMMA InitTables == Init => Store!TablesInit
<1> SUFFICES ASSUME Init PROVE Store!TablesInit
  OBVIOUS
<1>1. disk.models = {} /\ disk.pipelines = {} /\ disk.resources = {}
  BY DEF Init, NoTables
<1>2. \A n : Named({}, n) = {}
  BY DEF Named
<1>3. \A n : RowsByVersion({}, n) = <<>> /\ ActiveVersion({}, n) = 0 /\ Description({}, n) = Empty
  BY <1>2 DEF RowsByVersion, Versions, ActiveVersion, Description
<1>4. ByRowid({}) = <<>>
  BY FS_EmptySet DEF ByRowid
<1> QED  BY <1>1, <1>2, <1>3, <1>4
         DEF Store!TablesInit, ModelsIn, ActiveIn, PipelinesIn, ResourcesIn

LEMMA NextRInv ==
    ASSUME Solo, RInv, [Next]_vars
    PROVE  RInv' /\ Changed
<1>1. SoloInv' /\ (\A c \in Callers : Half(c)') /\ Changed
  BY NextSolo, NextHalf DEF RInv
<1>2. disk \in Tables
  BY DEF RInv, SoloInv, IInv, StoreOK
<1>3. Keys(disk)'
  BY <1>1, <1>2, KeysKept DEF Changed, RInv, Keys
<1> QED  BY <1>1, <1>3 DEF RInv

LEMMA SoundDisk == (RInv => Sound(disk)) /\ (RInv' => Sound(disk'))
  BY DEF RInv, SoloInv, IInv, StoreOK, AtMostOneActive, OneRowPerVersion, Sound

-----------------------------------------------------------------------------
(* The result. *)

\* The inductive invariant of the refinement.
THEOREM InductiveHalf ==
    ASSUME Solo
    PROVE  Spec => []RInv
  BY InitRInv, NextRInv, PTL DEF Spec

\* Where calls come one after the other, every change of the file is the whole
\* effect of one request on the abstract tables: no failing statement and no
\* crash leaves half of set_model, activate_model or set_resource behind.
THEOREM RefinesTables ==
    ASSUME Solo
    PROVE  Spec => TablesChangeAtomically
<1>1. ASSUME RInv, RInv', Changed
      PROVE  [Store!TablesNext]_(Store!tables)
  <2>1. CASE disk' = disk
    BY <2>1 DEF Store!tables, ModelsIn, ActiveIn, PipelinesIn, ResourcesIn
  <2>2. ASSUME NEW r \in Requests, ValidArgs(r), Whole(r, disk, disk')
        PROVE  Store!Effect(r)
    <3>1. Sound(disk) /\ Sound(disk')
      BY <1>1, SoundDisk
    <3> QED  BY <2>2, <3>1, WholeEffect
  <2> QED  BY <1>1, <2>1, <2>2 DEF Changed, Store!TablesNext
<1>2. RInv /\ [Next]_vars => [Store!TablesNext]_(Store!tables)
  BY <1>1, NextRInv
<1> QED  BY <1>2, InitTables, InductiveHalf, PTL DEF Spec, TablesChangeAtomically, Store!TablesSpec

-----------------------------------------------------------------------------
(* The answers. *)

\* No failing statement leaves a transaction open: it fails at BEGIN, or takes
\* the transaction with it.  Reads work, because a failing one in a check is
\* answered EINVAL as if the row were missing.
RollsBack == FaultKinds \subseteq {"open", "begin", "rollback"}

\* The abstract store refuses what the checks and the SELECTs find missing.
Missing(r, d) ==
    \/ r.op \in {"get_pipeline", "delete_pipeline"} /\ Named(d.pipelines, r.name) = {}
    \/ r.op \in {"get_resource", "delete_resource"} /\ Named(d.resources, r.name) = {}
    \/ /\ r.op \in {"update_description", "activate_model", "delete_model"}
       /\ ~Registered(d.models, r.name, r.version)
    \/ /\ r.op = "delete_model" /\ r.version > 0 /\ ~r.force
       /\ Activated(d.models, r.name, r.version)
    \/ /\ r.op \in {"get_model", "get_activated"}
       /\ WantedModels(d.models, r.name, WantedVersion(r)) = {}

\* What the checks of c have found is still so, and the version that
\* set_model will answer is the next one of the file.
Asked(c) ==
    LET r == req[c]
    IN  /\ pc[c] = "delete" /\ r.op \in {"delete_model", "delete_resource"} => ~Missing(r, disk)
        /\ pc[c] = "guard" =>
              r.version > 0 /\ ~r.force /\ Registered(disk.models, r.name, r.version)
        /\ pc[c] = "select" /\ r.op = "get_resource" => ~Missing(r, disk)
        /\ pc[c] = "select" /\ r.op \in {"get_model", "get_activated"} =>
              Registered(disk.models, r.name, WantedVersion(r)) /\ WantedVersion(r) >= -1
        /\ pc[c] = "version" => IsNext(Versions(disk.models, r.name), lastRow.version)
        /\ pc[c] = "end" /\ r.op = "set_model" =>
              ver[c] > 0 /\ IsNext(Versions(disk.models, r.name), ver[c])

AInv == RInv /\ \A c \in Callers : Asked(c) /\ (intx => InTransaction(c))

-----------------------------------------------------------------------------
(* What the abstract store refuses and prints, in rows. *)

\* The abstract tables of a name.
LEMMA AbstractTables ==
    ASSUME NEW d, NEW n \in Names
    PROVE  /\ ModelsIn(d)[n] = RowsByVersion(d.models, n)
           /\ DOMAIN ModelsIn(d)[n] = Versions(d.models, n)
           /\ ActiveIn(d)[n] = ActiveVersion(d.models, n)
           /\ PipelinesIn(d)[n] = Description(d.pipelines, n)
           /\ ResourcesIn(d)[n] = ByRowid(Named(d.resources, n))
  BY DEF ModelsIn, ActiveIn, PipelinesIn, ResourcesIn, RowsByVersion

\* Only the version of a flagged row is a positive active version.
LEMMA ActiveIsFlagged ==
    ASSUME NEW d, Sound(d), NEW n, NEW v \in Nat \ {0}
    PROVE  v = ActiveVersion(d.models, n) <=> Activated(d.models, n, v)
<1>1. Activated(d.models, n, v) => v = ActiveVersion(d.models, n)
  BY ActiveRow DEF Sound, Activated
<1>2. ASSUME v = ActiveVersion(d.models, n) PROVE Activated(d.models, n, v)
  <2>1. HasActive(d.models, n)
    BY <1>2, ActiveRow DEF Sound
  <2>2. PICK m \in Named(d.models, n) : m.active
    BY <2>1 DEF HasActive
  <2>3. m.version = v
    BY <1>2, <2>2, ActiveRow DEF Sound
  <2> QED  BY <2>2, <2>3 DEF Activated
<1> QED  BY <1>1, <1>2

\* A registered version is one of the versions.
LEMMA RegisteredVersion ==
    ASSUME NEW rows, NEW n, NEW v
    PROVE  /\ v > 0 => (Registered(rows, n, v) <=> v \in Versions(rows, n))
           /\ ~(v > 0) => (Registered(rows, n, v) <=> Versions(rows, n) # {})
  BY DEF Registered, Versions

\* A pipeline has a description, and no other row.
LEMMA PipelineRows ==
    ASSUME NEW d, Sound(d), NEW n
    PROVE  /\ Description(d.pipelines, n) = Empty <=> Named(d.pipelines, n) = {}
           /\ Named(d.pipelines, n) # {} =>
                 Named(d.pipelines, n) = {[name |-> n, desc |-> Description(d.pipelines, n)]}
<1>1. ASSUME NEW p \in Named(d.pipelines, n)
      PROVE  /\ Description(d.pipelines, n) = p.desc /\ p.desc # Empty
             /\ Named(d.pipelines, n) = {p} /\ p = [name |-> n, desc |-> p.desc]
  <2>1. Named(d.pipelines, n) = {p}
    BY <1>1 DEF Named, Sound, Keys
  <2>2. (CHOOSE q \in {p} : TRUE) = p
    OBVIOUS
  <2>3. p \in PipelineRow /\ p.name = n
    BY <1>1 DEF Named, Sound, Tables
  <2> QED  BY <2>1, <2>2, <2>3, ValuesAssumption DEF Description, PipelineRow
<1>2. Named(d.pipelines, n) = {} => Description(d.pipelines, n) = Empty
  BY DEF Description
<1> QED  BY <1>1, <1>2

\* The list of a name is empty when there are no rows.
LEMMA EmptyList ==
    ASSUME NEW d, Sound(d), NEW n
    PROVE  /\ DOMAIN ByRowid(Named(d.resources, n)) = 1..Cardinality(Named(d.resources, n))
           /\ ByRowid(Named(d.resources, n)) = <<>> <=> Named(d.resources, n) = {}
<1> DEFINE rows == Named(d.resources, n)
<1>1. IsFiniteSet(rows)
  BY FiniteRows DEF Countable
<1>2. Cardinality(rows) \in Nat /\ (Cardinality(rows) = 0 <=> rows = {})
  BY <1>1, FS_CardinalityType, FS_EmptySet
<1>3. DOMAIN ByRowid(rows) = 1..Cardinality(rows)
  BY DEF ByRowid
<1> HIDE DEF rows
<1>4. rows = {} => ByRowid(rows) = <<>>
  BY <1>2 DEF ByRowid
<1>5. ByRowid(rows) = <<>> => 1..Cardinality(rows) = {}
  BY <1>3
<1> QED  BY <1>2, <1>3, <1>4, <1>5 DEF rows

\* The fields of the requests that read.
LEMMA GetFields ==
    ASSUME NEW r \in Requests, ValidArgs(r)
    PROVE  /\ r.name \in Names
           /\ r.op = "get_model" => r.version \in 0..UintMax
           /\ r.op = "delete_model" => r.version \in 0..MaxVersion /\ r.force \in BOOLEAN
           /\ r.op \in {"update_description", "activate_model"} => r.version \in 1..MaxVersion
  BY BoundsAssumption, RequestFields DEF Requests, ValidArgs, UintMax

\* The rows of a get_model are those of the wanted versions.
LEMMA WantedRows ==
    ASSUME Sound(disk), NEW r \in Requests, ValidArgs(r), r.op \in {"get_model", "get_activated"}
    PROVE  \A m \in disk.models :
              m \in WantedModels(disk.models, r.name, WantedVersion(r)) <=>
                 m.name = r.name /\ m.version \in Store!Wanted(r)
<1> DEFINE n == r.name
           rows == disk.models
           w == WantedVersion(r)
<1>1. n \in Names /\ (r.op = "get_model" => r.version \in 0..UintMax)
  BY GetFields
<1>2. GintMax \in Nat /\ MaxVersion \in Nat /\ MaxVersion <= GintMax
      /\ UintMax = 2 * GintMax + 1
  BY BoundsAssumption DEF UintMax
<1>3. Store!Versions(n) = Versions(rows, n) /\ ActiveIn(disk)[n] = ActiveVersion(rows, n)
  BY <1>1, AbstractTables DEF Store!Versions
<1>4. \A m \in Named(rows, n) : /\ m.version \in 1..MaxVersion /\ m.version \in Versions(rows, n)
                                /\ m.version = ActiveVersion(rows, n) <=> m.active
  <2> TAKE m \in Named(rows, n)
  <2>1. m \in ModelRow /\ m.name = n
    BY DEF Named, Sound, Tables
  <2>2. m.version \in 1..MaxVersion /\ m.version \in Versions(rows, n)
    BY <2>1 DEF ModelRow, Versions
  <2>3. m.version = ActiveVersion(rows, n) <=> Activated(rows, n, m.version)
    BY <1>2, <2>2, ActiveIsFlagged
  <2>4. Activated(rows, n, m.version) <=> m.active
    BY DEF Activated, Named, Sound, UniqueKeys
  <2> QED  BY <2>2, <2>3, <2>4
<1>5. CASE w = -1
  <2>1. r.op = "get_activated" \/ r.version = UintMax
    BY <1>1, <1>2, <1>5 DEF WantedVersion, ToGint
  <2>2. Store!Wanted(r) = {ActiveVersion(rows, n)} \cap Versions(rows, n)
    BY <1>2, <1>3, <2>1 DEF Store!Wanted
  <2>3. WantedModels(rows, n, w) =
          {m \in Named(rows, n) : m.active /\ \A s \in Named(rows, n) : s.active => s.version <= m.version}
    BY <1>5 DEF WantedModels
  <2>4. \A m, s \in Named(rows, n) : m.active /\ s.active => s = m /\ s.version <= m.version
    BY <1>2, <1>4 DEF Named, Sound, OneActive
  <2> QED  BY <1>4, <2>2, <2>3, <2>4 DEF Named
<1>6. CASE w # -1
  <2>1. /\ r.op = "get_model" /\ r.version # UintMax
        /\ w = 0 <=> r.version = 0
        /\ w > 0 => w = r.version
        /\ w < 0 => r.version > MaxVersion
        /\ w \in Int /\ r.version \in Nat
    BY <1>1, <1>2, <1>6 DEF WantedVersion, ToGint
  <2>2. Store!Wanted(r) = IF r.version = 0 THEN Versions(rows, n) ELSE {r.version} \cap Versions(rows, n)
    BY <1>3, <2>1 DEF Store!Wanted
  <2>3. WantedModels(rows, n, w) = IF w = 0 THEN Named(rows, n)
                                   ELSE IF w > 0 THEN {m \in Named(rows, n) : m.version = w} ELSE {}
    BY <1>6, <2>1 DEF WantedModels
  <2> QED  BY <1>2, <1>4, <2>1, <2>2, <2>3 DEF Named
<1> QED  BY <1>5, <1>6

\* There is a wanted version where there is a wanted row.
LEMMA WantedFacts ==
    ASSUME Sound(disk), NEW r \in Requests, ValidArgs(r), r.op \in {"get_model", "get_activated"}
    PROVE  /\ WantedModels(disk.models, r.name, WantedVersion(r)) \subseteq Named(disk.models, r.name)
           /\ Store!Wanted(r) \subseteq Versions(disk.models, r.name)
           /\ Store!Wanted(r) = {} <=> WantedModels(disk.models, r.name, WantedVersion(r)) = {}
<1> DEFINE n == r.name
           rows == disk.models
           wanted == WantedModels(rows, n, WantedVersion(r))
<1>1. r.name \in Names
  BY GetFields
<1>2. wanted \subseteq Named(rows, n)
  BY DEF WantedModels
<1>3. Store!Wanted(r) \subseteq Versions(rows, n)
  <2>1. Store!Versions(n) = Versions(rows, n)
    BY <1>1, AbstractTables DEF Store!Versions
  <2> QED  BY <2>1 DEF Store!Wanted
<1>4. \A v \in Store!Wanted(r) : \E m \in rows : m.name = n /\ m.version = v
  BY <1>3 DEF Versions, Named
<1>5. wanted \subseteq rows
  BY <1>2 DEF Named
<1> QED  BY <1>2, <1>3, <1>4, <1>5, WantedRows

\* The abstract store refuses a request when its rows are missing.
LEMMA RefusedIsMissing ==
    ASSUME Sound(disk), NEW r \in Requests, ValidArgs(r)
    PROVE  Store!Refused(r) <=> Missing(r, disk)
<1> DEFINE n == r.name
<1>1. /\ n \in Names
      /\ r.op = "delete_model" => r.version \in 0..MaxVersion /\ r.force \in BOOLEAN
      /\ r.op \in {"update_description", "activate_model"} => r.version \in 1..MaxVersion
      /\ MaxVersion \in Nat
  BY GetFields, BoundsAssumption
<1>2. /\ Store!Versions(n) = Versions(disk.models, n) /\ ActiveIn(disk)[n] = ActiveVersion(disk.models, n)
      /\ PipelinesIn(disk)[n] = Description(disk.pipelines, n)
      /\ ResourcesIn(disk)[n] = ByRowid(Named(disk.resources, n))
  BY <1>1, AbstractTables DEF Store!Versions
<1>3. CASE r.op \in {"get_pipeline", "delete_pipeline"}
  BY <1>2, <1>3, PipelineRows DEF Store!Refused, Missing
<1>4. CASE r.op \in {"get_resource", "delete_resource"}
  BY <1>2, <1>4, EmptyList DEF Store!Refused, Missing
<1>5. CASE r.op \in {"update_description", "activate_model"}
  <2>1. r.version > 0
    BY <1>1, <1>5
  <2> QED  BY <1>2, <1>5, <2>1, RegisteredVersion DEF Store!Refused, Missing
<1>6. CASE r.op \in {"get_model", "get_activated"}
  BY <1>6, WantedFacts DEF Store!Refused, Missing
<1>7. CASE r.op = "delete_model"
  <2>1. r.version > 0 => (r.version = ActiveVersion(disk.models, n) <=> Activated(disk.models, n, r.version))
    BY <1>1, <1>7, ActiveIsFlagged
  <2>2. /\ r.version > 0 => (Registered(disk.models, n, r.version) <=> r.version \in Versions(disk.models, n))
        /\ ~(r.version > 0) => (Registered(disk.models, n, r.version) <=> Versions(disk.models, n) # {})
    BY RegisteredVersion
  <2>3. Store!Refused(r) <=>
           \/ Versions(disk.models, n) = {}
           \/ r.version > 0 /\ r.version \notin Versions(disk.models, n)
           \/ r.version > 0 /\ ~r.force /\ r.version = ActiveVersion(disk.models, n)
    BY <1>2, <1>7 DEF Store!Refused
  <2>4. Missing(r, disk) <=>
           \/ ~Registered(disk.models, n, r.version)
           \/ r.version > 0 /\ ~r.force /\ Activated(disk.models, n, r.version)
    BY <1>7 DEF Missing
  <2> QED  BY <2>1, <2>2, <2>3, <2>4
<1>8. CASE r.op \notin {"get_pipeline", "delete_pipeline", "get_resource", "delete_resource",
                        "update_description", "activate_model", "get_model", "get_activated",
                        "delete_model"}
  BY <1>8 DEF Store!Refused, Missing
<1> QED  BY <1>3, <1>4, <1>5, <1>6, <1>7, <1>8

\* The rows the last SELECT of a get call finds.
Found(r, d) ==
    CASE r.op = "get_pipeline" -> Named(d.pipelines, r.name)
      [] r.op \in {"get_model", "get_activated"} ->
            WantedModels(d.models, r.name, WantedVersion(r))
      [] r.op = "get_resource" -> Named(d.resources, r.name)
      [] OTHER -> {}

\* No rows print as none.
LEMMA NothingPrinted == Printed({}) = {}
  BY DEF Printed

\* Rows without a rowid are printed as they are.
LEMMA PlainRows ==
    ASSUME NEW rows, \A s \in rows : "rowid" \notin DOMAIN s
    PROVE  Printed(rows) = rows
<1> DEFINE f(s) == IF "rowid" \in DOMAIN s
                   THEN [name |-> s.name, place |-> Place(s, rows), path |-> s.path,
                         desc |-> s.desc, app |-> s.app]
                   ELSE s
<1>1. Printed(rows) = {f(s) : s \in rows}
  BY DEF Printed
<1>2. \A s \in rows : f(s) = s
  OBVIOUS
<1> HIDE DEF f
<1> QED  BY <1>1, <1>2

\* A row of the file is printed as the abstract store prints its version.
LEMMA PrintedModels ==
    ASSUME Sound(disk), NEW r \in Requests, ValidArgs(r), r.op \in {"get_model", "get_activated"}
    PROVE  Printed(Found(r, disk)) = Store!Printed(r)
<1> DEFINE n == r.name
           rows == disk.models
           wanted == WantedModels(rows, n, WantedVersion(r))
           entry(v) == [name |-> n, version |-> v, active |-> v = ActiveVersion(rows, n),
                        path |-> RowsByVersion(rows, n)[v].path,
                        desc |-> RowsByVersion(rows, n)[v].desc,
                        app |-> RowsByVersion(rows, n)[v].app]
<1>1. n \in Names /\ rows \in SUBSET ModelRow /\ UniqueKeys(rows) /\ OneActive(rows)
  BY GetFields DEF Sound, Tables
<1>2. Store!Printed(r) = {entry(v) : v \in Store!Wanted(r)}
  BY <1>1, AbstractTables DEF Store!Printed
<1>3. Found(r, disk) = wanted
  BY DEF Found
<1>4. \A m \in rows : m \in wanted <=> m.name = n /\ m.version \in Store!Wanted(r)
  BY WantedRows
<1>5. wanted \subseteq Named(rows, n) /\ Store!Wanted(r) \subseteq Versions(rows, n)
  BY WantedFacts
<1>6. ASSUME NEW m \in rows, m.name = n PROVE entry(m.version) = m
  <2>1. RowsByVersion(rows, n)[m.version] = Cols(m)
    BY <1>1, <1>6, VersionRow
  <2>2. m.version = ActiveVersion(rows, n) <=> m.active
    <3>1. m.version \in Nat \ {0}
      BY <1>1, BoundsAssumption DEF ModelRow
    <3>2. m.version = ActiveVersion(rows, n) <=> Activated(rows, n, m.version)
      BY <3>1, ActiveIsFlagged
    <3> QED  BY <1>1, <1>6, <3>2 DEF Activated, Named, UniqueKeys
  <2>3. m = [name |-> m.name, version |-> m.version, active |-> m.active, path |-> m.path,
             desc |-> m.desc, app |-> m.app] /\ m.active \in BOOLEAN
    BY <1>1 DEF ModelRow
  <2>4. (m.version = ActiveVersion(rows, n)) = m.active
    BY <2>2, <2>3
  <2> QED  BY <1>6, <2>1, <2>3, <2>4 DEF Cols
<1>7. Printed(wanted) = wanted
  <2>1. \A s \in wanted : "rowid" \notin DOMAIN s
    BY <1>1, <1>5 DEF Named, ModelRow
  <2> QED  BY <2>1, PlainRows
<1> HIDE DEF entry, wanted
<1>8. wanted = {entry(v) : v \in Store!Wanted(r)}
  <2>1. ASSUME NEW m \in wanted PROVE m \in {entry(v) : v \in Store!Wanted(r)}
    <3>1. m \in rows /\ m.name = n /\ m.version \in Store!Wanted(r)
      BY <1>4, <1>5 DEF Named
    <3> QED  BY <1>6, <3>1
  <2>2. ASSUME NEW v \in Store!Wanted(r) PROVE entry(v) \in wanted
    <3>1. PICK m \in rows : m.name = n /\ m.version = v
      BY <1>5 DEF Versions, Named
    <3> QED  BY <1>4, <1>6, <3>1
  <2> QED  BY <2>1, <2>2
<1> QED  BY <1>2, <1>3, <1>7, <1>8

\* The description of a name is printed as the abstract store prints it.
LEMMA PrintedPipelines ==
    ASSUME Sound(disk), NEW r \in Requests, ValidArgs(r), r.op = "get_pipeline",
           Found(r, disk) # {}
    PROVE  Printed(Found(r, disk)) = Store!Printed(r)
<1> DEFINE n == r.name
           row == [name |-> n, desc |-> Description(disk.pipelines, n)]
<1>1. Found(r, disk) = {row}
  BY PipelineRows DEF Found
<1>2. Store!Printed(r) = {row}
  BY GetFields, AbstractTables DEF Store!Printed
<1>3. \A s \in {row} : "rowid" \notin DOMAIN s
  OBVIOUS
<1> QED  BY <1>1, <1>2, <1>3, PlainRows

\* A resource is printed at its place in the list.
LEMMA PrintedResources ==
    ASSUME Sound(disk), NEW r \in Requests, ValidArgs(r), r.op = "get_resource"
    PROVE  Printed(Found(r, disk)) = Store!Printed(r)
<1> DEFINE n == r.name
           rows == Named(disk.resources, n)
           list == ByRowid(rows)
           entry(i) == [name |-> n, place |-> i, path |-> list[i].path,
                        desc |-> list[i].desc, app |-> list[i].app]
           shown(s) == [name |-> s.name, place |-> Place(s, rows), path |-> s.path,
                        desc |-> s.desc, app |-> s.app]
<1>1. Store!Printed(r) = {entry(i) : i \in DOMAIN list}
  BY GetFields, AbstractTables DEF Store!Printed
<1>2. Printed(rows) = {shown(s) : s \in rows}
  <2>1. \A s \in rows : "rowid" \in DOMAIN s
    BY DEF Named, Sound, Tables, ResourceRow
  <2> QED  BY <2>1 DEF Printed
<1>3. Found(r, disk) = rows
  BY DEF Found
<1>4. Countable(rows) /\ DOMAIN list = 1..Cardinality(rows)
  BY FiniteRows, EmptyList
<1>5. ASSUME NEW s \in rows PROVE entry(Place(s, rows)) = shown(s)
  <2>1. list[Place(s, rows)] = Cols(s) /\ s.name = n
    BY <1>4, AtPlace DEF Named
  <2> QED  BY <2>1 DEF Cols
<1> HIDE DEF entry, shown, list, rows
<1>6. \A s \in rows : Place(s, rows) \in DOMAIN list
  BY <1>4, Places
<1>7. \A i \in DOMAIN list : \E s \in rows : Place(s, rows) = i
  BY <1>4, Places
<1>8. {shown(s) : s \in rows} = {entry(i) : i \in DOMAIN list}
  <2>1. ASSUME NEW s \in rows PROVE shown(s) \in {entry(i) : i \in DOMAIN list}
    BY <1>5, <1>6
  <2>2. ASSUME NEW i \in DOMAIN list PROVE entry(i) \in {shown(s) : s \in rows}
    BY <1>5, <1>7
  <2> QED  BY <2>1, <2>2
<1> QED  BY <1>1, <1>2, <1>3, <1>8 DEF rows

\* What a get call has found is what the abstract store prints.
LEMMA PrintedFound ==
    ASSUME Sound(disk), NEW r \in Requests, ValidArgs(r), ~Missing(r, disk)
    PROVE  Printed(Found(r, disk)) = Store!Printed(r)
<1>1. CASE r.op = "get_pipeline"
  BY <1>1, PrintedPipelines DEF Missing, Found
<1>2. CASE r.op \in {"get_model", "get_activated"}
  BY <1>2, PrintedModels
<1>3. CASE r.op = "get_resource"
  BY <1>3, PrintedResources
<1>4. CASE r.op \notin {"get_pipeline", "get_model", "get_activated", "get_resource"}
  BY <1>4, NothingPrinted DEF Found, Store!Printed
<1> QED  BY <1>1, <1>2, <1>3, <1>4

-----------------------------------------------------------------------------
(* What a step looks like to a client. *)

AskedNow == [c \in Callers |-> IF pc[c] = "changes" THEN NoReq ELSE req[c]]

AnswerNow == [c \in Callers |-> AnswerOf(c)]

\* c gets the answer a to its request.
Answered(c, a) ==
    /\ AskedNow[c] = req[c] /\ req[c] # NoReq
    /\ AskedNow' = [AskedNow EXCEPT ![c] = NoReq]
    /\ AnswerNow' = [AnswerNow EXCEPT ![c] = a]

Implemented == Store!Next \/ UNCHANGED Store!vars

\* What a step of c achieves.
Kept(c) == Implemented /\ Asked(c)' /\ (intx' => InTransaction(c)')

\* What the steps may rely on.
Before(c) ==
    /\ Solo /\ RollsBack /\ AInv /\ RInv'
    /\ req[c] # NoReq /\ req[c] \in Requests /\ ValidArgs(req[c])

\* There is only one caller to look at.
LEMMA OneCaller ==
    ASSUME Solo, NEW c \in Callers, NEW f, NEW g, DOMAIN f = Callers, DOMAIN g = Callers,
           f = [d \in Callers |-> f[d]], g = [d \in Callers |-> g[d]]
    PROVE  \A x : g[c] = x => g = [f EXCEPT ![c] = x]
<1>1. \A d \in Callers : d = c
  BY DEF Solo
<1> QED  BY <1>1

\* While the file stays the same, so do the abstract tables.
LEMMA SameTables == ASSUME disk' = disk PROVE UNCHANGED Store!tables
  BY DEF Store!tables, ModelsIn, ActiveIn, PipelinesIn, ResourcesIn

\* A step that changes neither the file nor what c asks and is answered does not show.
LEMMA Stutters ==
    ASSUME Solo, NEW c \in Callers, disk' = disk,
           AskedNow'[c] = AskedNow[c], AnswerNow'[c] = AnswerNow[c]
    PROVE  Implemented
<1>1. \A d \in Callers : d = c
  BY DEF Solo
<1>2. AskedNow' = [d \in Callers |-> AskedNow'[d]] /\ AskedNow = [d \in Callers |-> AskedNow[d]]
  BY DEF AskedNow
<1>3. AnswerNow' = [d \in Callers |-> AnswerNow'[d]] /\ AnswerNow = [d \in Callers |-> AnswerNow[d]]
  BY DEF AnswerNow
<1>4. AskedNow' = AskedNow /\ AnswerNow' = AnswerNow
  BY <1>1, <1>2, <1>3
<1>5. UNCHANGED Store!tables
  BY SameTables
<1> QED  BY <1>4, <1>5 DEF Implemented, Store!vars, Store!tables, AskedNow, AnswerNow

\* A call that goes on does not show.
LEMMA GoesOn ==
    ASSUME Solo, NEW c \in Callers, disk' = disk, pc'[c] # "changes", pc[c] # "changes",
           req'[c] = req[c], ret'[c] = ret[c]
    PROVE  Implemented
<1>1. AskedNow'[c] = AskedNow[c]
  BY DEF AskedNow
<1>2. AnswerNow'[c] = AnswerNow[c]
  BY DEF AnswerNow, AnswerOf
<1> QED  BY <1>1, <1>2, Stutters

\* A request that is answered is no longer asked.
LEMMA AnswerFrom ==
    ASSUME NEW c \in Callers, Before(c), pc[c] # "changes", NEW a, 
           AskedNow'[c] = NoReq, AnswerNow'[c] = a
    PROVE  Answered(c, a)
<1>1. Solo /\ AskedNow[c] = req[c] /\ req[c] # NoReq
  BY DEF AskedNow, Before
<1>2. AskedNow' = [AskedNow EXCEPT ![c] = NoReq]
  BY <1>1, OneCaller DEF AskedNow
<1>3. AnswerNow' = [AnswerNow EXCEPT ![c] = a]
  BY <1>1, OneCaller DEF AnswerNow
<1> QED  BY <1>1, <1>2, <1>3 DEF Answered

\* Return answers the request, with the rows as they are printed.
LEMMA ReturnAnswers ==
    ASSUME NEW c \in Callers, Before(c), pc[c] # "changes",
           NEW code, NEW v, NEW rows, Return(c, Answer(code, v, rows))
    PROVE  Answered(c, Answer(code, v, Printed(rows)))
<1>1. pc'[c] = "idle" /\ req'[c] = NoReq /\ ret'[c] = Answer(code, v, rows)
  BY Returning DEF Before, AInv, RInv, SoloInv
<1>2. AskedNow'[c] = NoReq /\ AnswerNow'[c] = Answer(code, v, Printed(rows))
  BY <1>1 DEF AskedNow, AnswerNow, AnswerOf, Answer
<1> QED  BY <1>2, AnswerFrom

\* The three ways in which the abstract store answers.
LEMMA FailImplemented ==
    ASSUME NEW c \in Callers, Answered(c, EIO), disk' = disk
    PROVE  Implemented
<1>1. Store!Fail(c)
  <2>1. UNCHANGED Store!tables
    BY SameTables
  <2> QED  BY <2>1 DEF Store!Fail, Answered, AskedNow, AnswerNow, EIO, Answer, Store!Answer
<1> QED  BY <1>1 DEF Implemented, Store!Next

\* Nothing changes where rows are missing.
LEMMA RefuseImplemented ==
    ASSUME NEW c \in Callers, Before(c), Answered(c, EINVAL), disk' = disk, Missing(req[c], disk)
    PROVE  Implemented
<1>1. Store!Refused(req[c])
  BY RefusedIsMissing, SoundDisk DEF Before, AInv
<1>2. Store!Refuse(c)
  <2>1. UNCHANGED Store!tables
    BY SameTables
  <2> QED  BY <1>1, <2>1
           DEF Store!Refuse, Answered, AskedNow, AnswerNow, EINVAL, Answer, Store!Answer
<1> QED  BY <1>2 DEF Implemented, Store!Next

\* The whole effect and the reply come in one step.
LEMMA ServeImplemented ==
    ASSUME NEW c \in Callers, Before(c), NEW v, ~Missing(req[c], disk),
           Answered(c, Answer("OK", v, Store!Printed(req[c]))),
           v = IF req[c].op = "set_model" THEN Store!Newest(req[c].name) + 1 ELSE 0,
           Store!Effect(req[c])
    PROVE  Implemented
<1>1. ~Store!Refused(req[c])
  BY RefusedIsMissing, SoundDisk DEF Before, AInv
<1>2. Store!Serve(c)
  BY <1>1 DEF Store!Serve, Answered, AskedNow, AnswerNow, Answer, Store!Answer, Store!Reply
<1> QED  BY <1>2 DEF Implemented, Store!Next

-----------------------------------------------------------------------------
(* One statement. *)

\* The faults that are left.
LEMMA FewFaults ==
    ASSUME RollsBack
    PROVE  /\ "read" \notin FaultKinds /\ "write" \notin FaultKinds /\ "end" \notin FaultKinds
           /\ ~Fails("read") /\ ~Fails("write") /\ ~Fails("end")
  BY DEF RollsBack, Fails

\* What the invariants say of c.
LEMMA BeforeFacts ==
    ASSUME NEW c \in Callers, Before(c)
    PROVE  /\ SoloInv /\ IInv /\ Half(c) /\ Asked(c) /\ Progress(c) /\ Sound(disk) /\ Sound(disk')
           /\ intx <=> InTransaction(c)
           /\ ~InTransaction(c) => work = disk
<1>1. RInv /\ RInv' /\ Asked(c) /\ (intx => InTransaction(c))
  BY DEF Before, AInv
<1>2. Sound(disk) /\ Sound(disk')
  BY <1>1, SoundDisk
<1>3. SoloInv /\ IInv /\ Half(c) /\ Progress(c)
  BY <1>1 DEF RInv, SoloInv
<1>4. InTransaction(c) => intx
  BY <1>3 DEF IInv, TransactionsExclusive
<1>5. ~intx => work = disk
  BY <1>3 DEF IInv, StoreOK, NothingPending
<1> QED  BY <1>1, <1>2, <1>3, <1>4, <1>5

\* Outside a call and in its transactions nothing is claimed of the checks.
LEMMA NotAsked ==
    ASSUME NEW c \in Callers,
           pc'[c] \in {"idle", "begin", "deactivate", "insert", "update", "activate", "changes"}
    PROVE  Asked(c)'
  BY DEF Asked

\* A statement that fails the call leaves nothing behind.
LEMMA FailsKept ==
    ASSUME NEW c \in Callers, Before(c), pc[c] # "changes", Return(c, EIO), disk' = disk, ~intx'
    PROVE  Kept(c)
<1>1. Answered(c, EIO)
  BY ReturnAnswers, NothingPrinted DEF EIO
<1>2. pc'[c] = "idle"
  BY BeforeFacts, Returning
<1> QED  BY <1>1, <1>2, FailImplemented, NotAsked DEF Kept

\* A check that finds nothing refuses the request.
LEMMA RefusesKept ==
    ASSUME NEW c \in Callers, Before(c), pc[c] # "changes", Return(c, EINVAL), disk' = disk, ~intx',
           Missing(req[c], disk)
    PROVE  Kept(c)
<1>1. Answered(c, EINVAL)
  BY ReturnAnswers, NothingPrinted DEF EINVAL
<1>2. pc'[c] = "idle"
  BY BeforeFacts, Returning
<1> QED  BY <1>1, <1>2, RefuseImplemented, NotAsked DEF Kept

\* What a check has found is what the abstract store asks for.
LEMMA CheckKept ==
    ASSUME NEW c \in Callers, Before(c), NEW found \in BOOLEAN, NEW next \in {"guard", "delete", "begin", "select"},
           Check(c, found, next), ~found => Missing(req[c], disk),
           found /\ disk' = disk /\ pc'[c] = next /\ req'[c] = req[c] => Asked(c)'
    PROVE  Kept(c)
<1>1. pc[c] = "check" /\ disk' = disk /\ intx' = intx /\ ~InTransaction(c)
  BY DEF Check, store, InTransaction, InTxLabels
<1>2. ~intx
  BY <1>1, BeforeFacts
<1>3. CASE found /\ Goto(c, next)
  <2>1. pc'[c] = next /\ req'[c] = req[c] /\ ret'[c] = ret[c]
    BY <1>3, BeforeFacts, Going
  <2> QED  BY <1>1, <1>2, <1>3, <2>1, GoesOn DEF Kept, Before
<1>4. CASE ~found /\ Return(c, EINVAL)
  BY <1>1, <1>2, <1>4, RefusesKept
<1> QED  BY <1>3, <1>4, FewFaults DEF Check, Before

\* BEGIN refuses the call or opens its transaction; neither shows.
LEMMA BeginKept ==
    ASSUME NEW c \in Callers, Before(c), NEW next \in {"deactivate", "insert", "update"},
           Begin(c, next)
    PROVE  Kept(c)
<1>1. pc[c] = "begin" /\ ~InTransaction(c)
  BY DEF Begin, InTransaction, InTxLabels
<1>2. ~intx
  BY <1>1, BeforeFacts
<1>3. CASE BeginTransaction /\ Goto(c, next)
  <2>1. pc'[c] = next /\ req'[c] = req[c] /\ ret'[c] = ret[c]
    BY <1>3, BeforeFacts, Going
  <2>2. disk' = disk /\ InTransaction(c)'
    BY <1>3, <2>1 DEF BeginTransaction, InTransaction, InTxLabels
  <2> QED  BY <1>1, <2>1, <2>2, GoesOn, NotAsked DEF Kept, Before
<1>4. CASE UNCHANGED store /\ Return(c, EIO)
  BY <1>1, <1>2, <1>4, FailsKept DEF store
<1> QED  BY <1>3, <1>4 DEF Begin

\* A statement inside the transaction does not show.
LEMMA InsideKept ==
    ASSUME NEW c \in Callers, Before(c), InTransaction(c),
           NEW t, NEW affected, NEW row, NEW next \in InTxLabels, Write(c, t, affected, row, next),
           disk' = disk /\ lastRow' = row /\ pc'[c] = next /\ req'[c] = req[c] => Asked(c)'
    PROVE  Kept(c)
<1>1. intx /\ pc[c] # "changes"
  BY BeforeFacts DEF InTransaction, InTxLabels
<1>2. CASE Execute(t) /\ lastRow' = row /\ Goto(c, next)
  <2>1. pc'[c] = next /\ req'[c] = req[c] /\ ret'[c] = ret[c]
    BY <1>2, BeforeFacts, Going
  <2>2. disk' = disk /\ InTransaction(c)' /\ next # "changes"
    BY <1>1, <1>2, <2>1 DEF Execute, InTransaction, InTxLabels
  <2> QED  BY <1>1, <1>2, <2>1, <2>2, GoesOn DEF Kept, Before
<1>3. CASE AutoRollback /\ Return(c, EIO)
  BY <1>1, <1>3, FailsKept DEF AutoRollback
<1> QED  BY <1>2, <1>3, FewFaults DEF Write, Before

\* END serves the request.
LEMMA EndKept ==
    ASSUME NEW c \in Callers, Before(c), NEW v, ~Missing(req[c], disk), Found(req[c], disk) = {},
           v = IF req[c].op = "set_model" THEN Store!Newest(req[c].name) + 1 ELSE 0,
           End(c, Answer("OK", v, {}))
    PROVE  Kept(c)
<1>1. pc[c] = "end" /\ InTransaction(c) /\ intx
  BY BeforeFacts DEF End, InTransaction, InTxLabels
<1>2. CASE EndTransaction /\ Return(c, Answer("OK", v, {}))
  <2>1. Answered(c, Answer("OK", v, {}))
    BY <1>1, <1>2, ReturnAnswers, NothingPrinted
  <2>2. Store!Printed(req[c]) = {}
    BY BeforeFacts, PrintedFound, NothingPrinted DEF Before
  <2>3. Whole(req[c], disk, disk')
    BY <1>1, <1>2, BeforeFacts DEF Half, EndTransaction
  <2>4. Store!Effect(req[c])
    BY <2>3, BeforeFacts, WholeEffect DEF Before
  <2>5. Implemented
    BY <2>1, <2>2, <2>4, ServeImplemented
  <2>6. pc'[c] = "idle" /\ ~intx'
    BY <1>2, BeforeFacts, Returning DEF EndTransaction
  <2> QED  BY <2>5, <2>6, NotAsked DEF Kept
<1>3. CASE AutoRollback /\ Return(c, EIO)
  BY <1>1, <1>3, FailsKept DEF AutoRollback
<1> QED  BY <1>1, <1>2, <1>3, FewFaults DEF End, CanEnd, Before

\* A DELETE serves the request, or refuses it where it finds no rows.
LEMMA DeleteKept ==
    ASSUME NEW c \in Callers, Before(c), pc[c] = "delete", Found(req[c], disk) = {},
           req[c].op # "set_model",
           NEW t, NEW affected \in BOOLEAN, NEW row, Write(c, t, affected, row, "changes"),
           affected => ~Missing(req[c], disk) /\ Whole(req[c], disk, t),
           ~affected => Missing(req[c], disk) /\ t = disk
    PROVE  Kept(c)
<1>1. ~intx
  BY BeforeFacts DEF InTransaction, InTxLabels
<1>2. Execute(t) /\ changed' = affected /\ Goto(c, "changes")
  BY <1>1, FewFaults DEF Write, Before, AutoRollback
<1>3. pc'[c] = "changes" /\ req'[c] = req[c] /\ disk' = t /\ ~intx'
  BY <1>1, <1>2, BeforeFacts, Going DEF Execute
<1>4. AskedNow'[c] = NoReq /\ AnswerNow'[c] = IF affected THEN Ok ELSE EINVAL
  BY <1>2, <1>3 DEF AskedNow, AnswerNow, AnswerOf
<1>5. Answered(c, IF affected THEN Ok ELSE EINVAL)
  BY <1>4, AnswerFrom
<1>6. CASE affected
  <2>1. Store!Printed(req[c]) = {}
    BY <1>6, BeforeFacts, PrintedFound, NothingPrinted DEF Before
  <2>2. Store!Effect(req[c])
    BY <1>3, <1>6, BeforeFacts, WholeEffect DEF Before
  <2>3. Answered(c, Answer("OK", 0, Store!Printed(req[c])))
    BY <1>5, <1>6, <2>1 DEF Ok
  <2> QED  BY <1>6, <2>2, <2>3, ServeImplemented, <1>3, NotAsked DEF Kept
<1>7. CASE ~affected
  BY <1>3, <1>5, <1>7, RefuseImplemented, NotAsked DEF Kept
<1> QED  BY <1>6, <1>7

\* The answer of sqlite3_changes has been given with the DELETE.
LEMMA ChangesKept ==
    ASSUME NEW c \in Callers, Before(c), Changes(c)
    PROVE  Kept(c)
<1>1. pc[c] = "changes" /\ disk' = disk /\ intx' = intx /\ Return(c, IF changed THEN Ok ELSE EINVAL)
  BY DEF Changes, store
<1>2. pc'[c] = "idle" /\ req'[c] = NoReq /\ ret'[c] = IF changed THEN Ok ELSE EINVAL
  BY <1>1, BeforeFacts, Returning
<1>3. AskedNow'[c] = AskedNow[c] 
  BY <1>1, <1>2 DEF AskedNow
<1>4. AnswerNow'[c] = AnswerNow[c]
  BY <1>1, <1>2, NothingPrinted DEF AnswerNow, AnswerOf, Ok, EINVAL, Answer
<1>5. ~intx
  BY <1>1, BeforeFacts DEF InTransaction, InTxLabels
<1> QED  BY <1>1, <1>2, <1>3, <1>4, <1>5, Stutters, NotAsked DEF Kept, Before

\* The last SELECT serves the request, or refuses it where it finds no rows.
LEMMA SelectKept ==
    ASSUME NEW c \in Callers, Before(c), NEW aggregate \in BOOLEAN, NEW rows,
           Select(c, rows, aggregate), rows = Found(req[c], disk),
           req[c].op \in {"get_pipeline", "get_model", "get_activated", "get_resource"},
           aggregate => ~Missing(req[c], disk)
    PROVE  Kept(c)
<1>1. pc[c] = "select" /\ disk' = disk /\ intx' = intx
  BY DEF Select, store
<1>2. ~intx
  BY <1>1, BeforeFacts DEF InTransaction, InTxLabels
<1>3. rows = {} <=> Missing(req[c], disk)
  BY DEF Found, Missing
<1>4. CASE ~Missing(req[c], disk) /\ Return(c, Answer("OK", 0, rows))
  <2>1. Answered(c, Answer("OK", 0, Store!Printed(req[c])))
    BY <1>1, <1>4, BeforeFacts, ReturnAnswers, PrintedFound DEF Before
  <2>2. Store!Effect(req[c])
    BY <1>1, SameTables DEF Store!Effect, Store!Get
  <2>3. pc'[c] = "idle"
    BY <1>4, BeforeFacts, Returning
  <2> QED  BY <1>1, <1>2, <1>4, <2>1, <2>2, <2>3, ServeImplemented, NotAsked DEF Kept
<1>5. CASE Missing(req[c], disk) /\ Return(c, EINVAL)
  BY <1>1, <1>2, <1>5, RefusesKept
<1> QED  BY <1>3, <1>4, <1>5, FewFaults DEF Select, Before

-----------------------------------------------------------------------------
(* The operations. *)

\* set_pipeline serves its request at END.
LEMMA SetPipelineKept ==
    ASSUME NEW c \in Callers, Before(c), SetPipeline(c)
    PROVE  Kept(c)
<1> DEFINE r == req[c]
<1>1. r.op = "set_pipeline"
  BY DEF SetPipeline
<1>2. ~Missing(r, disk) /\ Found(r, disk) = {}
  BY <1>1 DEF Missing, Found
<1>3. CASE Begin(c, "insert")
  BY <1>3, BeginKept
<1>4. ASSUME pc[c] = "insert", NEW t, Write(c, t, TRUE, NoRow, "end") PROVE Kept(c)
  <2>1. InTransaction(c)
    BY <1>4 DEF InTransaction, InTxLabels
  <2>2. pc'[c] = "end" /\ req'[c] = req[c] => Asked(c)'
    BY <1>1 DEF Asked
  <2> QED  BY <1>4, <2>1, <2>2, InsideKept DEF InTxLabels
<1>5. CASE End(c, Ok)
  BY <1>1, <1>2, <1>5, EndKept DEF Ok
<1> QED  BY <1>3, <1>4, <1>5 DEF SetPipeline

\* set_resource serves its request at END.
LEMMA SetResourceKept ==
    ASSUME NEW c \in Callers, Before(c), SetResource(c)
    PROVE  Kept(c)
<1> DEFINE r == req[c]
<1>1. r.op = "set_resource"
  BY DEF SetResource
<1>2. ~Missing(r, disk) /\ Found(r, disk) = {}
  BY <1>1 DEF Missing, Found
<1>3. CASE Begin(c, "insert")
  BY <1>3, BeginKept
<1>4. ASSUME pc[c] = "insert", NEW t, Write(c, t, TRUE, NoRow, "end") PROVE Kept(c)
  <2>1. InTransaction(c)
    BY <1>4 DEF InTransaction, InTxLabels
  <2>2. pc'[c] = "end" /\ req'[c] = req[c] => Asked(c)'
    BY <1>1 DEF Asked
  <2> QED  BY <1>4, <2>1, <2>2, InsideKept DEF InTxLabels
<1>5. CASE End(c, Ok)
  BY <1>1, <1>2, <1>5, EndKept DEF Ok
<1> QED  BY <1>3, <1>4, <1>5 DEF SetResource

\* update_description and activate_model end with the version they have checked.
LEMMA RegisteredAtEnd ==
    ASSUME NEW c \in Callers, Before(c), pc[c] = "end",
           req[c].op \in {"update_description", "activate_model"}
    PROVE  ~Missing(req[c], disk) /\ Found(req[c], disk) = {}
<1>1. Whole(req[c], disk, work)
  BY BeforeFacts DEF Half
<1>2. Registered(disk.models, req[c].name, req[c].version)
  BY <1>1 DEF Whole
<1> QED  BY <1>2 DEF Missing, Found

\* update_description serves its request at END.
LEMMA UpdateDescriptionKept ==
    ASSUME NEW c \in Callers, Before(c), UpdateDescription(c)
    PROVE  Kept(c)
<1> DEFINE r == req[c]
<1>1. r.op = "update_description"
  BY DEF UpdateDescription
<1>2. CASE Check(c, Registered(work.models, r.name, r.version), "begin")
  <2> DEFINE found == Registered(work.models, r.name, r.version)
  <2>1. found \in BOOLEAN
    BY DEF Registered
  <2>2. work = disk
    BY <1>2, BeforeFacts DEF Check, InTransaction, InTxLabels
  <2>3. ~found => Missing(r, disk)
    BY <1>1, <2>2 DEF Missing
  <2>4. pc'[c] = "begin" => Asked(c)'
    BY NotAsked
  <2> HIDE DEF found
  <2> QED  BY <1>2, <2>1, <2>3, <2>4, CheckKept DEF found
<1>3. CASE Begin(c, "update")
  BY <1>3, BeginKept
<1>4. ASSUME pc[c] = "update", NEW t, NEW affected, Write(c, t, affected, lastRow, "end")
      PROVE  Kept(c)
  <2>1. InTransaction(c)
    BY <1>4 DEF InTransaction, InTxLabels
  <2>2. pc'[c] = "end" /\ req'[c] = req[c] => Asked(c)'
    BY <1>1 DEF Asked
  <2> QED  BY <1>4, <2>1, <2>2, InsideKept DEF InTxLabels
<1>5. CASE End(c, Ok)
  <2>1. ~Missing(r, disk) /\ Found(r, disk) = {}
    BY <1>1, <1>5, RegisteredAtEnd DEF End
  <2> QED  BY <1>1, <1>5, <2>1, EndKept DEF Ok
<1> QED  BY <1>2, <1>3, <1>4, <1>5 DEF UpdateDescription

\* activate_model serves its request at END.
LEMMA ActivateModelKept ==
    ASSUME NEW c \in Callers, Before(c), ActivateModel(c)
    PROVE  Kept(c)
<1> DEFINE r == req[c]
<1>1. r.op = "activate_model"
  BY DEF ActivateModel
<1>2. CASE Check(c, Registered(work.models, r.name, r.version), "begin")
  <2> DEFINE found == Registered(work.models, r.name, r.version)
  <2>1. found \in BOOLEAN
    BY DEF Registered
  <2>2. work = disk
    BY <1>2, BeforeFacts DEF Check, InTransaction, InTxLabels
  <2>3. ~found => Missing(r, disk)
    BY <1>1, <2>2 DEF Missing
  <2>4. pc'[c] = "begin" => Asked(c)'
    BY NotAsked
  <2> HIDE DEF found
  <2> QED  BY <1>2, <2>1, <2>3, <2>4, CheckKept DEF found
<1>3. CASE Begin(c, "deactivate")
  BY <1>3, BeginKept
<1>4. ASSUME pc[c] \in {"deactivate", "activate"}, NEW t, NEW affected,
             NEW next \in {"activate", "end"}, Write(c, t, affected, lastRow, next)
      PROVE  Kept(c)
  <2>1. InTransaction(c)
    BY <1>4 DEF InTransaction, InTxLabels
  <2>2. pc'[c] = next /\ req'[c] = req[c] => Asked(c)'
    BY <1>1 DEF Asked
  <2> QED  BY <1>4, <2>1, <2>2, InsideKept DEF InTxLabels
<1>5. CASE End(c, Ok)
  <2>1. ~Missing(r, disk) /\ Found(r, disk) = {}
    BY <1>1, <1>5, RegisteredAtEnd DEF End
  <2> QED  BY <1>1, <1>5, <2>1, EndKept DEF Ok
<1> QED  BY <1>2, <1>3, <1>4, <1>5 DEF ActivateModel

\* get_pipeline prints the description of the name.
LEMMA GetPipelineKept ==
    ASSUME NEW c \in Callers, Before(c), GetPipeline(c)
    PROVE  Kept(c)
<1> DEFINE rows == Named(work.pipelines, req[c].name)
<1>1. req[c].op = "get_pipeline" /\ Select(c, rows, FALSE)
  BY DEF GetPipeline
<1>2. work = disk
  BY <1>1, BeforeFacts DEF Select, InTransaction, InTxLabels
<1>3. rows = Found(req[c], disk)
  BY <1>1, <1>2 DEF Found
<1> HIDE DEF rows
<1> QED  BY <1>1, <1>3, SelectKept

\* get_model and get_activated print the wanted versions.
LEMMA GetModelKept ==
    ASSUME NEW c \in Callers, Before(c), GetModel(c)
    PROVE  Kept(c)
<1> DEFINE r == req[c]
           w == WantedVersion(r)
           found == Registered(work.models, r.name, w) /\ w >= -1
           rows == WantedModels(work.models, r.name, w)
<1>1. r.op \in {"get_model", "get_activated"}
  BY DEF GetModel
<1>2. w \in Int
  BY <1>1, GetFields, BoundsAssumption DEF WantedVersion, ToGint, UintMax, Before
<1>3. pc[c] \in {"check", "select"} => work = disk
  BY BeforeFacts DEF InTransaction, InTxLabels
<1>4. CASE Check(c, found, "select")
  <2>1. found \in BOOLEAN
    BY DEF Registered
  <2>2. work = disk
    BY <1>3, <1>4 DEF Check
  <2>3. ~found => Missing(r, disk)
    <3>1. w >= -1 \/ ~(w >= -1)
      OBVIOUS
    <3>2. ASSUME ~(w >= -1) PROVE WantedModels(disk.models, r.name, w) = {}
      BY <1>2, <3>2 DEF WantedModels
    <3>3. ASSUME ~Registered(disk.models, r.name, w) PROVE WantedModels(disk.models, r.name, w) = {}
      BY <1>2, <3>3 DEF WantedModels, Registered
    <3> QED  BY <1>1, <2>2, <3>2, <3>3 DEF Missing
  <2>4. found /\ disk' = disk /\ pc'[c] = "select" /\ req'[c] = r => Asked(c)'
    BY <1>1, <2>2 DEF Asked, WantedVersion, ToGint
  <2> HIDE DEF found
  <2> QED  BY <1>4, <2>1, <2>3, <2>4, CheckKept
<1>5. CASE Select(c, rows, w = 0)
  <2>1. work = disk /\ pc[c] = "select"
    BY <1>3, <1>5 DEF Select
  <2>2. rows = Found(r, disk)
    BY <1>1, <2>1 DEF Found
  <2>3. w = 0 => ~Missing(r, disk)
    <3>1. Registered(disk.models, r.name, w)
      BY <1>1, <2>1, BeforeFacts DEF Asked
    <3> QED  BY <1>1, <3>1 DEF Missing, WantedModels, Registered
  <2>4. (w = 0) \in BOOLEAN
    OBVIOUS
  <2> HIDE DEF rows, w
  <2> QED  BY <1>1, <1>5, <2>2, <2>3, <2>4, SelectKept
<1> QED  BY <1>4, <1>5 DEF GetModel

\* get_resource prints the list of the name.
LEMMA GetResourceKept ==
    ASSUME NEW c \in Callers, Before(c), GetResource(c)
    PROVE  Kept(c)
<1> DEFINE r == req[c]
           found == Registered(work.resources, r.name, 0)
           rows == Named(work.resources, r.name)
<1>1. r.op = "get_resource"
  BY DEF GetResource
<1>2. pc[c] \in {"check", "select"} => work = disk
  BY BeforeFacts DEF InTransaction, InTxLabels
<1>3. CASE Check(c, found, "select")
  <2>1. found \in BOOLEAN
    BY DEF Registered
  <2>2. work = disk
    BY <1>2, <1>3 DEF Check
  <2>3. found <=> ~Missing(r, disk)
    BY <1>1, <2>2 DEF Missing, Registered
  <2>4. found /\ disk' = disk /\ pc'[c] = "select" /\ req'[c] = r => Asked(c)'
    BY <1>1, <2>3 DEF Asked, Missing
  <2> HIDE DEF found
  <2> QED  BY <1>3, <2>1, <2>3, <2>4, CheckKept
<1>4. CASE Select(c, rows, TRUE)
  <2>1. work = disk /\ pc[c] = "select"
    BY <1>2, <1>4 DEF Select
  <2>2. rows = Found(r, disk)
    BY <1>1, <2>1 DEF Found
  <2>3. ~Missing(r, disk)
    BY <1>1, <2>1, BeforeFacts DEF Asked
  <2> HIDE DEF rows
  <2> QED  BY <1>1, <1>4, <2>2, <2>3, SelectKept
<1> QED  BY <1>3, <1>4 DEF GetResource

\* delete_pipeline asks sqlite3_changes whether there was one.
LEMMA DeletePipelineKept ==
    ASSUME NEW c \in Callers, Before(c), DeletePipeline(c)
    PROVE  Kept(c)
<1> DEFINE r == req[c]
           rows == Named(work.pipelines, r.name)
           t == [work EXCEPT !.pipelines = work.pipelines \ rows]
<1>1. r.op = "delete_pipeline" /\ Found(r, disk) = {}
  BY DEF DeletePipeline, Found
<1>2. CASE pc[c] = "delete" /\ Write(c, t, rows # {}, lastRow, "changes")
  <2>1. work = disk /\ disk \in Tables
    BY <1>2, BeforeFacts DEF InTransaction, InTxLabels, Sound
  <2>2. rows = {} <=> Missing(r, disk)
    BY <1>1, <2>1 DEF Missing
  <2>3. Whole(r, disk, t)
    BY <1>1, <2>1 DEF Whole
  <2>4. rows = {} => t = disk
    BY <2>1 DEF Tables
  <2>5. (rows # {}) \in BOOLEAN /\ pc[c] = "delete" /\ Write(c, t, rows # {}, lastRow, "changes")
    BY <1>2
  <2> HIDE DEF t, rows
  <2> QED  BY <1>1, <2>2, <2>3, <2>4, <2>5, DeleteKept
<1>3. CASE Changes(c)
  BY <1>3, ChangesKept
<1> QED  BY <1>2, <1>3 DEF DeletePipeline

\* delete_resource has checked that there are rows.
LEMMA DeleteResourceKept ==
    ASSUME NEW c \in Callers, Before(c), DeleteResource(c)
    PROVE  Kept(c)
<1> DEFINE r == req[c]
           found == Registered(work.resources, r.name, 0)
           rows == Named(work.resources, r.name)
           t == [work EXCEPT !.resources = work.resources \ rows]
<1>1. r.op = "delete_resource" /\ Found(r, disk) = {}
  BY DEF DeleteResource, Found
<1>2. pc[c] \in {"check", "delete"} => work = disk
  BY BeforeFacts DEF InTransaction, InTxLabels
<1>3. CASE Check(c, found, "delete")
  <2>1. found \in BOOLEAN
    BY DEF Registered
  <2>2. work = disk
    BY <1>2, <1>3 DEF Check
  <2>3. found <=> ~Missing(r, disk)
    BY <1>1, <2>2 DEF Missing, Registered
  <2>4. found /\ disk' = disk /\ pc'[c] = "delete" /\ req'[c] = r => Asked(c)'
    BY <1>1, <2>3 DEF Asked, Missing
  <2> HIDE DEF found
  <2> QED  BY <1>3, <2>1, <2>3, <2>4, CheckKept
<1>4. CASE pc[c] = "delete" /\ Write(c, t, rows # {}, lastRow, "changes")
  <2>1. work = disk
    BY <1>2, <1>4
  <2>2. ~Missing(r, disk)
    BY <1>1, <1>4, BeforeFacts DEF Asked
  <2>3. rows # {}
    BY <1>1, <2>1, <2>2 DEF Missing
  <2>4. Whole(r, disk, t)
    BY <1>1, <2>1 DEF Whole
  <2>5. (rows # {}) \in BOOLEAN /\ pc[c] = "delete" /\ Write(c, t, rows # {}, lastRow, "changes")
    BY <1>4
  <2> HIDE DEF t, rows
  <2> QED  BY <1>1, <2>2, <2>3, <2>4, <2>5, DeleteKept
<1>5. CASE Changes(c)
  BY <1>5, ChangesKept
<1> QED  BY <1>3, <1>4, <1>5 DEF DeleteResource

\* delete_model refuses an active version unless it is forced.
LEMMA DeleteModelKept ==
    ASSUME NEW c \in Callers, Before(c), DeleteModel(c)
    PROVE  Kept(c)
<1> DEFINE r == req[c]
           found == Registered(work.models, r.name, r.version)
           next == IF r.version > 0 /\ ~r.force THEN "guard" ELSE "delete"
           rows == {m \in Named(work.models, r.name) : r.version > 0 => m.version = r.version}
           t == [work EXCEPT !.models = work.models \ rows]
<1>1. r.op = "delete_model" /\ Found(r, disk) = {}
  BY DEF DeleteModel, Found
<1>2. pc[c] \in {"check", "guard", "delete"} => work = disk
  BY BeforeFacts DEF InTransaction, InTxLabels
<1>3. CASE Check(c, found, next)
  <2>1. found \in BOOLEAN
    BY DEF Registered
  <2>2. work = disk
    BY <1>2, <1>3 DEF Check
  <2>3. ~found => Missing(r, disk)
    BY <1>1, <2>2 DEF Missing
  <2>4. found /\ disk' = disk /\ pc'[c] = next /\ req'[c] = r => Asked(c)'
    BY <1>1, <2>2 DEF Asked, Missing
  <2>5. next \in {"guard", "delete"}
    OBVIOUS
  <2> HIDE DEF found, next
  <2> QED  BY <1>3, <2>1, <2>3, <2>4, <2>5, CheckKept
<1>4. CASE /\ pc[c] = "guard" /\ UNCHANGED store
           /\ \/ Works /\ Activated(work.models, r.name, r.version) /\ Return(c, EINVAL)
              \/ Works /\ ~Activated(work.models, r.name, r.version) /\ Goto(c, "delete")
  <2>1. work = disk /\ disk' = disk /\ ~intx /\ ~intx'
    BY <1>2, <1>4, BeforeFacts DEF InTransaction, InTxLabels, store
  <2>2. r.version > 0 /\ ~r.force /\ Registered(disk.models, r.name, r.version)
    BY <1>4, BeforeFacts DEF Asked
  <2>3. CASE Activated(disk.models, r.name, r.version) /\ Return(c, EINVAL)
    <3>1. Missing(r, disk)
      BY <1>1, <2>2, <2>3 DEF Missing
    <3> QED  BY <1>4, <2>1, <2>3, <3>1, RefusesKept
  <2>4. CASE ~Activated(disk.models, r.name, r.version) /\ Goto(c, "delete")
    <3>1. pc'[c] = "delete" /\ req'[c] = r /\ ret'[c] = ret[c]
      BY <2>4, BeforeFacts, Going
    <3>2. ~Missing(r, disk)
      BY <1>1, <2>2, <2>4 DEF Missing
    <3>3. Asked(c)'
      BY <1>1, <2>1, <3>1, <3>2 DEF Asked, Missing
    <3>4. Implemented
      BY <1>4, <2>1, <3>1, GoesOn DEF Before
    <3> QED  BY <2>1, <3>3, <3>4 DEF Kept
  <2> QED  BY <1>4, <2>1, <2>3, <2>4
<1>5. CASE pc[c] = "delete" /\ Write(c, t, rows # {}, lastRow, "changes")
  <2>1. work = disk
    BY <1>2, <1>5
  <2>2. ~Missing(r, disk)
    BY <1>1, <1>5, BeforeFacts DEF Asked
  <2>3. rows # {}
    BY <1>1, <2>1, <2>2 DEF Missing, Registered
  <2>4. Whole(r, disk, t)
    BY <1>1, <2>1 DEF Whole
  <2>5. (rows # {}) \in BOOLEAN /\ pc[c] = "delete" /\ Write(c, t, rows # {}, lastRow, "changes")
    BY <1>5
  <2> HIDE DEF t, rows
  <2> QED  BY <1>1, <2>2, <2>3, <2>4, <2>5, DeleteKept
<1>6. CASE Changes(c)
  BY <1>6, ChangesKept
<1> QED  BY <1>3, <1>4, <1>5, <1>6, FewFaults DEF DeleteModel, store, Before

\* set_model answers the version of the row it has inserted, the next one.
LEMMA SetModelKept ==
    ASSUME NEW c \in Callers, Before(c), SetModel(c)
    PROVE  Kept(c)
<1> DEFINE r == req[c]
           used == Versions(disk.models, r.name)
<1>1. /\ r.op = "set_model" /\ r.active \in BOOLEAN /\ r.name \in Names
      /\ ~Missing(r, disk) /\ Found(r, disk) = {}
  BY RequestFields DEF SetModel, Missing, Found, Before
<1>2. disk \in Tables /\ disk.models \in SUBSET ModelRow
  BY BeforeFacts DEF Sound, Tables
<1>3. CASE Begin(c, IF r.active THEN "deactivate" ELSE "insert")
  BY <1>1, <1>3, BeginKept
<1>4. ASSUME pc[c] = "deactivate", NEW t, NEW affected, Write(c, t, affected, lastRow, "insert")
      PROVE  Kept(c)
  <2>1. InTransaction(c)
    BY <1>4 DEF InTransaction, InTxLabels
  <2> QED  BY <1>4, <2>1, NotAsked, InsideKept DEF InTxLabels
<1>5. ASSUME pc[c] = "insert", NEW v \in 1..MaxVersion, IsNext(Versions(work.models, r.name), v),
             NEW t, Write(c, t, TRUE, [name |-> r.name, version |-> v], "version")
      PROVE  Kept(c)
  <2>1. work.models = IF r.active THEN Deactivated(disk.models, r.name) ELSE disk.models
    <3>1. CASE r.active
      <4>1. work = [disk EXCEPT !.models = Deactivated(disk.models, r.name)]
        BY <1>1, <1>5, <3>1, BeforeFacts DEF Half, MovesFlag
      <4> QED  BY <1>2, <3>1, <4>1, Rewritten
    <3>2. CASE ~r.active
      BY <1>1, <1>5, <3>2, BeforeFacts DEF Half, MovesFlag
    <3> QED  BY <3>1, <3>2
  <2>2. IsNext(used, v)
    BY <1>2, <1>5, <2>1, SameVersions
  <2>3. InTransaction(c)
    BY <1>5 DEF InTransaction, InTxLabels
  <2>4. disk' = disk /\ lastRow' = [name |-> r.name, version |-> v]
        /\ pc'[c] = "version" /\ req'[c] = r => Asked(c)'
    BY <2>2 DEF Asked
  <2> QED  BY <1>5, <2>3, <2>4, InsideKept DEF InTxLabels
<1>6. ASSUME pc[c] = "version", Goto(c, "end"), UNCHANGED store,
             \/ \E v \in InsertedVersion : ver' = [ver EXCEPT ![c] = v]
             \/ InsertedVersion = {} /\ ver' = ver
      PROVE  Kept(c)
  <2>1. pc'[c] = "end" /\ req'[c] = r /\ ret'[c] = ret[c] /\ disk' = disk /\ intx' = intx
    BY <1>6, BeforeFacts, Going DEF store
  <2>2. NewModel(r, lastRow.version) \in work.models /\ lastRow.name = r.name
    BY <1>1, <1>6, BeforeFacts DEF Progress, Counted
  <2>3. InsertedVersion = {lastRow.version}
    <3>1. \A m \in {m \in work.models : m.name = lastRow.name /\ m.version = lastRow.version} :
             m.version = lastRow.version
      OBVIOUS
    <3>2. NewModel(r, lastRow.version).name = r.name
          /\ NewModel(r, lastRow.version).version = lastRow.version
      BY DEF NewModel
    <3> QED  BY <2>2, <3>1, <3>2 DEF InsertedVersion
  <2>4. ver'[c] = lastRow.version
    BY <1>6, <2>3, BeforeFacts DEF IInv, Typed
  <2>5. lastRow.version \in 1..MaxVersion
    <3>1. work.models \in SUBSET ModelRow
      BY BeforeFacts DEF IInv, StoreOK, Tables
    <3>2. NewModel(r, lastRow.version).version \in 1..MaxVersion
      BY <2>2, <3>1 DEF ModelRow
    <3> QED  BY <3>2 DEF NewModel
  <2>6. IsNext(used, lastRow.version)
    BY <1>6, BeforeFacts DEF Asked
  <2>7. Asked(c)'
    BY <2>1, <2>4, <2>5, <2>6, BoundsAssumption DEF Asked
  <2>8. Implemented
    BY <1>6, <2>1, GoesOn DEF Before
  <2> QED  BY <2>1, <2>7, <2>8 DEF Kept, InTransaction, InTxLabels
<1>7. ASSUME End(c, IF ver[c] = 0 THEN EINVAL ELSE Answer("OK", ver[c], {})) PROVE Kept(c)
  <2>1. ver[c] > 0 /\ IsNext(used, ver[c])
    BY <1>1, <1>7, BeforeFacts DEF Asked, End
  <2>2. ver[c] \in Nat
    BY BoundsAssumption, BeforeFacts DEF IInv, Typed
  <2>3. used \in SUBSET Nat
    BY <1>2, BoundsAssumption DEF Versions, Named, ModelRow
  <2>4. Store!Newest(r.name) + 1 = ver[c]
    <3>1. Store!Versions(r.name) = used
      BY <1>1, AbstractTables DEF Store!Versions
    <3> QED  BY <2>1, <2>2, <2>3, <3>1, NextVersion DEF Store!Newest
  <2>5. End(c, Answer("OK", ver[c], {}))
    BY <1>7, <2>1, <2>2
  <2> QED  BY <1>1, <2>4, <2>5, EndKept
<1> QED  BY <1>3, <1>4, <1>5, <1>6, <1>7, FewFaults DEF SetModel, store, Before

\* Every statement of every operation.
LEMMA OperationKept ==
    ASSUME NEW c \in Callers, Before(c), Step(c)
    PROVE  Kept(c)
  BY SetPipelineKept, GetPipelineKept, DeletePipelineKept, SetModelKept, UpdateDescriptionKept,
     ActivateModelKept, GetModelKept, DeleteModelKept, SetResourceKept, GetResourceKept,
     DeleteResourceKept DEF Step

-----------------------------------------------------------------------------
(* Every step. *)

\* A call asks, or is turned down for its arguments.
LEMMA CallKept ==
    ASSUME Solo, AInv, NEW c \in Callers, Call(c)
    PROVE  Kept(c)
<1>1. /\ SoloInv /\ IInv /\ pc[c] = "idle" /\ req[c] = NoReq /\ disk' = disk /\ intx' = intx
      /\ intx => InTransaction(c)
  BY Facts DEF AInv, RInv, Call, store, Progress
<1>2. ~intx
  BY <1>1 DEF InTransaction, InTxLabels
<1>3. UNCHANGED Store!tables
  BY <1>1, SameTables
<1>4. AskedNow[c] = NoReq
  BY <1>1 DEF AskedNow
<1>5. ASSUME NEW r \in Requests, ValidArgs(r), pc' = [pc EXCEPT ![c] = Entry(r.op)],
             req' = [req EXCEPT ![c] = r], ret' = [ret EXCEPT ![c] = NoAnswer]
      PROVE  Kept(c)
  <2>1. pc'[c] = Entry(r.op) /\ req'[c] = r /\ ret'[c] = NoAnswer
    BY <1>1, <1>5 DEF IInv, Typed
  <2>2. /\ pc'[c] \in {"begin", "select", "delete", "check"}
        /\ pc'[c] = "select" => r.op = "get_pipeline"
        /\ pc'[c] = "delete" => r.op = "delete_pipeline"
    BY <2>1 DEF Entry
  <2>3. Asked(c)'
    BY <2>1, <2>2 DEF Asked
  <2>4. AskedNow'[c] = r /\ AnswerNow'[c] = NoAnswer
    BY <2>1, <2>2, NothingPrinted DEF AskedNow, AnswerNow, AnswerOf, NoAnswer, Answer
  <2>5. AskedNow' = [AskedNow EXCEPT ![c] = r]
    BY <2>4, OneCaller DEF AskedNow
  <2>6. AnswerNow' = [AnswerNow EXCEPT ![c] = NoAnswer]
    BY <2>4, OneCaller DEF AnswerNow
  <2>7. Store!Ask(c)
    BY <1>3, <1>4, <1>5, <2>5, <2>6
       DEF Store!Ask, AskedNow, AnswerNow, NoAnswer, Answer, Store!NoAnswer, Store!Answer
  <2> QED  BY <1>1, <1>2, <2>3, <2>7 DEF Kept, Implemented, Store!Next
<1>6. CASE ret' = [ret EXCEPT ![c] = EINVAL] /\ UNCHANGED <<pc, req>>
  <2>1. pc'[c] = "idle" /\ req'[c] = NoReq /\ ret'[c] = EINVAL
    BY <1>1, <1>6 DEF IInv, Typed
  <2>2. AskedNow' = AskedNow
    BY <1>6 DEF AskedNow
  <2>3. AnswerNow'[c] = EINVAL
    BY <2>1, NothingPrinted DEF AnswerNow, AnswerOf, EINVAL, Answer
  <2>4. AnswerNow' = [AnswerNow EXCEPT ![c] = EINVAL]
    BY <2>3, OneCaller DEF AnswerNow
  <2>5. Store!TurnDown(c)
    BY <1>3, <1>4, <2>2, <2>4
       DEF Store!TurnDown, Store!tables, AskedNow, AnswerNow, EINVAL, Answer, Store!Answer
  <2> QED  BY <1>1, <1>2, <2>1, <2>5, NotAsked DEF Kept, Implemented, Store!Next
<1> QED  BY <1>5, <1>6 DEF Call

\* Between calls the abstract store rests, and after a crash it restarts.
LEMMA OtherKept ==
    ASSUME Solo, AInv, Initialize \/ Finalize \/ Crash \/ UNCHANGED vars
    PROVE  Implemented /\ \A c \in Callers : Asked(c)' /\ (intx' => InTransaction(c)')
<1>1. disk' = disk
  BY DEF Initialize, Finalize, Crash, Disconnect, vars
<1>2. UNCHANGED Store!tables
  BY <1>1, SameTables
<1>3. CASE Initialize \/ Finalize
  <2>1. ~intx' /\ \A c \in Callers : pc[c] = "idle" /\ pc'[c] = "idle"
    BY <1>3 DEF Initialize, Finalize, Disconnect, Idle
  <2>2. UNCHANGED <<pc, req, ret>>
    BY <1>3 DEF Initialize, Finalize
  <2>3. AskedNow' = AskedNow /\ AnswerNow' = AnswerNow
    BY <2>1, <2>2 DEF AskedNow, AnswerNow, AnswerOf
  <2> QED  BY <1>2, <2>1, <2>3, NotAsked
           DEF Implemented, Store!vars, Store!tables, AskedNow, AnswerNow
<1>4. CASE Crash
  <2>1. ~intx' /\ \A c \in Callers : pc'[c] = "idle" /\ req'[c] = NoReq /\ ret'[c] = NoAnswer
    BY <1>4 DEF Crash, Disconnect
  <2>2. AskedNow' = [c \in Callers |-> NoReq]
    BY <2>1 DEF AskedNow
  <2>3. AnswerNow' = [c \in Callers |-> NoAnswer]
    BY <2>1, NothingPrinted DEF AnswerNow, AnswerOf, NoAnswer, Answer
  <2>4. Store!Restart
    BY <1>2, <2>2, <2>3
       DEF Store!Restart, AskedNow, AnswerNow, NoAnswer, Answer, Store!NoAnswer, Store!Answer
  <2> QED  BY <2>1, <2>4, NotAsked DEF Implemented, Store!Next
<1>5. CASE UNCHANGED vars
  <2>1. AskedNow' = AskedNow /\ AnswerNow' = AnswerNow
    BY <1>5 DEF vars, AskedNow, AnswerNow, AnswerOf
  <2>2. \A c \in Callers : Asked(c)' /\ (intx' => InTransaction(c)')
    BY <1>5 DEF vars, AInv, Asked, InTransaction
  <2> QED  BY <1>2, <2>1, <2>2 DEF Implemented, Store!vars, Store!tables, AskedNow, AnswerNow
<1> QED  BY <1>3, <1>4, <1>5

\* Only a call with a request takes a step.
LEMMA StepRequest ==
    ASSUME SoloInv, NEW c \in Callers, Step(c)
    PROVE  req[c] # NoReq /\ req[c] \in Requests /\ ValidArgs(req[c])
<1>1. req[c].op # "none"
  BY DEF Step, SetPipeline, GetPipeline, DeletePipeline, SetModel, UpdateDescription,
         ActivateModel, GetModel, DeleteModel, SetResource, GetResource, DeleteResource
<1> QED  BY <1>1, Facts DEF NoReq

\* Every step is a step of the abstract store, or does not show.
LEMMA NextAInv ==
    ASSUME Solo, RollsBack, AInv, [Next]_vars
    PROVE  AInv' /\ Implemented
<1>1. RInv /\ RInv'
  BY NextRInv DEF AInv
<1>2. ASSUME NEW c \in Callers, Step(c) PROVE Kept(c)
  <2>1. req[c] # NoReq /\ req[c] \in Requests /\ ValidArgs(req[c])
    BY <1>1, <1>2, StepRequest DEF RInv
  <2>2. Before(c)
    BY <1>1, <2>1 DEF Before
  <2> QED  BY <1>2, <2>2, OperationKept
<1>3. ASSUME NEW c \in Callers, Kept(c) PROVE AInv' /\ Implemented
  <2>1. \A d \in Callers : d = c
    BY DEF Solo
  <2> QED  BY <1>1, <1>3, <2>1 DEF Kept, AInv
<1>4. CASE \E c \in Callers : Call(c) \/ Step(c)
  BY <1>2, <1>3, <1>4, CallKept
<1>5. CASE Initialize \/ Finalize \/ Crash \/ UNCHANGED vars
  BY <1>1, <1>5, OtherKept DEF AInv
<1> QED  BY <1>4, <1>5 DEF Next

\* No call has started yet.
LEMMA InitAInv == Init => AInv
<1> SUFFICES ASSUME Init PROVE AInv
  OBVIOUS
<1>1. RInv
  BY InitRInv
<1>2. \A c \in Callers : pc[c] = "idle" /\ ~intx
  BY DEF Init
<1> QED  BY <1>1, <1>2 DEF AInv, Asked

\* The empty store has been asked nothing.
LEMMA InitStore == Init => Store!Init
<1> SUFFICES ASSUME Init PROVE Store!Init
  OBVIOUS
<1>1. \A c \in Callers : pc[c] = "idle" /\ req[c] = NoReq /\ ret[c] = NoAnswer
  BY DEF Init
<1>2. AskedNow = [c \in Callers |-> NoReq]
  BY <1>1 DEF AskedNow
<1>3. AnswerNow = [c \in Callers |-> NoAnswer]
  BY <1>1, NothingPrinted DEF AnswerNow, AnswerOf, NoAnswer, Answer
<1> QED  BY <1>2, <1>3, InitTables
         DEF Store!Init, Store!TablesInit, AskedNow, AnswerNow, NoAnswer, Answer,
             Store!NoAnswer, Store!Answer

-----------------------------------------------------------------------------
(* The result, with the answers. *)

\* The inductive invariant of the refinement with its answers.
THEOREM InductiveAnswers ==
    ASSUME Solo, RollsBack
    PROVE  Spec => []AInv
  BY InitAInv, NextAInv, PTL DEF Spec

\* Where calls come one after the other and a failing statement takes its
\* transaction with it, service-db.cc serves every request in one step, with the
\* code, the version and the rows the abstract store answers, or fails it
\* without a trace.
THEOREM RefinesStore ==
    ASSUME Solo, RollsBack
    PROVE  Spec => ImplementsStore
<1>1. AInv /\ [Next]_vars => [Store!Next]_(Store!vars)
  BY NextAInv DEF Implemented
<1> QED  BY <1>1, InitStore, InductiveAnswers, PTL DEF Spec, ImplementsStore, Store!Spec

-----------------------------------------------------------------------------
(* The deletes that were acknowledged. *)

\* What r was to delete is not in d.
Gone(r, d) ==
    /\ r.op = "delete_pipeline" => Named(d.pipelines, r.name) = {}
    /\ r.op = "delete_model" => ~Registered(d.models, r.name, r.version)
    /\ r.op = "delete_resource" => Named(d.resources, r.name) = {}

\* While sqlite3_changes is asked, the rows are gone from the file.
GoneNow(c) == pc[c] = "changes" => Gone(req[c], disk)

\* The inductive invariant of the deletes.
DInv == AInv /\ \A c \in Callers : GoneNow(c)

\* A call that goes on or fails acknowledges nothing.
LEMMA GoesOnDeleted ==
    ASSUME NEW c \in Callers, IInv,
           \/ \E next : Goto(c, next) /\ next \notin {"idle", "changes"}
           \/ \E a : Return(c, a) /\ a.code # "OK"
    PROVE  GoneNow(c)' /\ Deleted(c)
<1>1. ASSUME NEW next, Goto(c, next), next \notin {"idle", "changes"} PROVE GoneNow(c)' /\ Deleted(c)
  BY <1>1, Going DEF GoneNow, Deleted, Acknowledges
<1>2. ASSUME NEW a, Return(c, a), a.code # "OK" PROVE GoneNow(c)' /\ Deleted(c)
  BY <1>2, Returning DEF GoneNow, Deleted, Acknowledges
<1> QED  BY <1>1, <1>2

\* A call that deletes nothing says nothing of deletes.
LEMMA OthersDeleted ==
    ASSUME NEW c \in Callers, IInv, req[c].op \notin {"delete_pipeline", "delete_model", "delete_resource"},
           \/ \E next : Goto(c, next) /\ next # "changes"
           \/ \E a : Return(c, a)
    PROVE  GoneNow(c)' /\ Deleted(c)
<1>1. pc'[c] # "changes"
  BY Going, Returning
<1> QED  BY <1>1 DEF GoneNow, Deleted, Acknowledges

\* Outside a transaction the DELETE reaches the file.
LEMMA DeleteGone ==
    ASSUME NEW c \in Callers, Before(c), pc[c] = "delete", NEW t, NEW affected, NEW row,
           Write(c, t, affected, row, "changes"), Gone(req[c], t)
    PROVE  GoneNow(c)' /\ Deleted(c)
<1>1. ~intx /\ IInv
  BY BeforeFacts DEF InTransaction, InTxLabels
<1>2. Execute(t) /\ Goto(c, "changes")
  BY <1>1, FewFaults DEF Write, Before, AutoRollback
<1>3. pc'[c] = "changes" /\ req'[c] = req[c] /\ disk' = t
  BY <1>1, <1>2, Going DEF Execute
<1> QED  BY <1>3 DEF GoneNow, Deleted, Acknowledges, Gone

\* The answer comes when the rows are gone.
LEMMA ChangesDeleted ==
    ASSUME NEW c \in Callers, IInv, GoneNow(c), Changes(c)
    PROVE  GoneNow(c)' /\ Deleted(c)
<1>1. pc[c] = "changes" /\ disk' = disk /\ pc'[c] = "idle"
  BY Returning DEF Changes, store
<1> QED  BY <1>1 DEF GoneNow, Deleted, Acknowledges, Gone

\* Only a DELETE leads to sqlite3_changes, and only that answers a delete.
LEMMA StepDeleted ==
    ASSUME NEW c \in Callers, Before(c), GoneNow(c), Step(c)
    PROVE  GoneNow(c)' /\ Deleted(c)
<1> DEFINE r == req[c]
<1>1. IInv /\ work \in Tables
  BY BeforeFacts DEF IInv, StoreOK
<1>2. ASSUME NEW found, NEW next \in {"guard", "delete"}, Check(c, found, next)
      PROVE  GoneNow(c)' /\ Deleted(c)
  BY <1>1, <1>2, Codes3, GoesOnDeleted DEF Check
<1>3. CASE DeletePipeline(c)
  <2> DEFINE rows == Named(work.pipelines, r.name)
             t == [work EXCEPT !.pipelines = work.pipelines \ rows]
  <2>1. CASE pc[c] = "delete" /\ Write(c, t, rows # {}, lastRow, "changes")
    <3>1. Gone(r, t)
      BY <1>1, <1>3 DEF Gone, DeletePipeline, Named, Tables
    <3> HIDE DEF t
    <3> QED  BY <2>1, <3>1, DeleteGone
  <2> QED  BY <1>1, <1>3, <2>1, ChangesDeleted DEF DeletePipeline
<1>4. CASE DeleteResource(c)
  <2> DEFINE rows == Named(work.resources, r.name)
             t == [work EXCEPT !.resources = work.resources \ rows]
  <2>1. CASE pc[c] = "delete" /\ Write(c, t, rows # {}, lastRow, "changes")
    <3>1. Gone(r, t)
      BY <1>1, <1>4 DEF Gone, DeleteResource, Named, Tables
    <3> HIDE DEF t
    <3> QED  BY <2>1, <3>1, DeleteGone
  <2> QED  BY <1>1, <1>2, <1>4, <2>1, ChangesDeleted DEF DeleteResource
<1>5. CASE DeleteModel(c)
  <2> DEFINE rows == {m \in Named(work.models, r.name) : r.version > 0 => m.version = r.version}
             t == [work EXCEPT !.models = work.models \ rows]
             next == IF r.version > 0 /\ ~r.force THEN "guard" ELSE "delete"
  <2>1. CASE pc[c] = "delete" /\ Write(c, t, rows # {}, lastRow, "changes")
    <3>1. t.models = work.models \ rows
      BY <1>1 DEF Tables
    <3>2. ~Registered(t.models, r.name, r.version)
      BY <3>1 DEF Registered, Named
    <3>3. Gone(r, t)
      BY <1>5, <3>2 DEF Gone, DeleteModel
    <3> HIDE DEF t, rows
    <3> QED  BY <2>1, <3>3, DeleteGone
  <2>2. CASE Check(c, Registered(work.models, r.name, r.version), next)
    BY <1>2, <2>2
  <2>3. CASE Return(c, EINVAL) \/ Goto(c, "delete")
    BY <1>1, <2>3, Codes3, GoesOnDeleted
  <2> QED  BY <1>1, <1>5, <2>1, <2>2, <2>3, ChangesDeleted DEF DeleteModel
<1>6. CASE \/ SetPipeline(c) \/ GetPipeline(c) \/ SetModel(c) \/ UpdateDescription(c)
           \/ ActivateModel(c) \/ GetModel(c) \/ SetResource(c) \/ GetResource(c)
  <2>1. r.op \notin {"delete_pipeline", "delete_model", "delete_resource"}
    BY <1>6 DEF SetPipeline, GetPipeline, SetModel, UpdateDescription, ActivateModel, GetModel,
                SetResource, GetResource
  <2> DEFINE Moved == \/ \E next : Goto(c, next) /\ next # "changes"
                      \/ \E a : Return(c, a)
  <2>2. ASSUME NEW found, NEW next, next # "changes", Check(c, found, next) \/ Begin(c, next)
        PROVE  Moved
    BY <2>2 DEF Check, Begin
  <2>3. ASSUME NEW t, NEW affected, NEW row, NEW next, next # "changes",
               Write(c, t, affected, row, next)
        PROVE  Moved
    BY <2>3 DEF Write
  <2>4. ASSUME NEW a, NEW rows, NEW aggregate, End(c, a) \/ Select(c, rows, aggregate) PROVE Moved
    BY <2>4 DEF End, Select
  <2>5. ASSUME Goto(c, "end") PROVE Moved
    BY <2>5
  <2> HIDE DEF Moved
  <2>6. ASSUME SetPipeline(c) \/ SetResource(c) PROVE Moved
    BY <2>2, <2>3, <2>4, <2>6 DEF SetPipeline, SetResource
  <2>7. ASSUME SetModel(c) PROVE Moved
    BY <2>2, <2>3, <2>4, <2>5, <2>7 DEF SetModel
  <2>8. ASSUME UpdateDescription(c) \/ ActivateModel(c) PROVE Moved
    BY <2>2, <2>3, <2>4, <2>8 DEF UpdateDescription, ActivateModel
  <2>9. ASSUME GetPipeline(c) \/ GetModel(c) \/ GetResource(c) PROVE Moved
    BY <2>2, <2>4, <2>9 DEF GetPipeline, GetModel, GetResource
  <2>10. Moved
    BY <1>6, <2>6, <2>7, <2>8, <2>9
  <2> QED  BY <1>1, <2>1, <2>10, OthersDeleted DEF Moved
<1> QED  BY <1>3, <1>4, <1>5, <1>6 DEF Step

\* Every step keeps the rows of an answered delete out of the file.
LEMMA NextDInv ==
    ASSUME Solo, RollsBack, DInv, [Next]_vars
    PROVE  DInv' /\ \A c \in Callers : Deleted(c)
<1>1. AInv /\ AInv' /\ RInv /\ RInv' /\ IInv
  BY NextAInv DEF DInv, AInv, RInv, SoloInv
<1>2. ASSUME NEW c \in Callers PROVE GoneNow(c)' /\ Deleted(c)
  <2>1. CASE Step(c)
    BY <1>1, <2>1, StepRequest, StepDeleted DEF DInv, Before, RInv
  <2>2. CASE Call(c)
    <3>1. pc[c] = "idle" /\ req[c] = NoReq /\ pc'[c] # "changes"
      BY <1>1, <2>2, Facts DEF Call, Progress, RInv, Entry, IInv, Typed
    <3> QED  BY <3>1 DEF GoneNow, Deleted, Acknowledges, NoReq
  <2>3. CASE Initialize \/ Finalize
    <3>1. pc'[c] = "idle" /\ req[c] = NoReq
      BY <1>1, <2>3, Facts DEF Initialize, Finalize, Idle, Progress, RInv
    <3> QED  BY <3>1 DEF GoneNow, Deleted, Acknowledges, NoReq
  <2>4. CASE Crash
    <3>1. pc'[c] = "idle" /\ ret'[c].code # "OK"
      BY <2>4 DEF Crash, NoAnswer, Answer
    <3> QED  BY <3>1 DEF GoneNow, Deleted, Acknowledges
  <2>5. CASE UNCHANGED vars
    <3>1. pc'[c] = "idle" => req[c] = NoReq
      BY <1>1, <2>5, Facts DEF vars, Progress, RInv
    <3>2. Deleted(c)
      BY <3>1 DEF Deleted, Acknowledges, NoReq
    <3> QED  BY <2>5, <3>2 DEF DInv, GoneNow, vars
  <2> QED  BY <2>1, <2>2, <2>3, <2>4, <2>5 DEF Next, Solo
<1> QED  BY <1>1, <1>2 DEF DInv

\* No delete has run yet.
LEMMA InitDInv == Init => DInv
<1>1. ASSUME Init PROVE \A c \in Callers : GoneNow(c)
  BY <1>1 DEF Init, GoneNow
<1> QED  BY <1>1, InitAInv DEF DInv

\* What was deleted with success is not in the file any more, as long as no
\* failing statement leaves a transaction open: this is the assumption that the
\* lost deletes of the finding break.
THEOREM DeletesAreDurable ==
    ASSUME Solo, RollsBack
    PROVE  Spec => AcknowledgedDeletesAreDurable
<1>1. DInv /\ [Next]_vars => DInv' /\ [\A c \in Callers : Deleted(c)]_vars
  BY NextDInv
<1> QED  BY <1>1, InitDInv, PTL DEF Spec, AcknowledgedDeletesAreDurable
=============================================================================
