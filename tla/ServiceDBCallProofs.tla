------------------------- MODULE ServiceDBCallProofs -------------------------
(***************************************************************************)
(* What one call of the service database achieves, where the calls come    *)
(* one after the other, as from the main loop of the daemon (Solo): what   *)
(* was acknowledged is in the file, and no failing statement, abandoned    *)
(* transaction or crash takes the active version of a model away.          *)
(*                                                                         *)
(* With several callers neither holds: a DELETE of another thread runs     *)
(* inside the transaction of a set call.                                   *)
(*                                                                         *)
(* The inductive invariant adds to that of ServiceDBProofs how far the     *)
(* call has come (Progress): what its checks have found is still so, what  *)
(* its statements have written is in work, and every name that has an      *)
(* active version in the file has one in work, but for the name whose flag *)
(* the call is moving.                                                     *)
(***************************************************************************)
EXTENDS ServiceDBProofs

\* One caller: the handlers of the daemon run in its main loop.
Solo == \A c, d \in Callers : c = d

\* The version that the call changes is registered.
Rechecked(c) ==
    LET r == req[c]
    IN  r.op \in {"activate_model", "update_description"}
        /\ pc[c] \in {"begin", "deactivate", "activate", "update"} =>
           Registered(work.models, r.name, r.version)

\* set_model lowers the flags only where it will set one.
Lowers(c) == pc[c] = "deactivate" /\ req[c].op = "set_model" => req[c].active

\* What END would commit of a set call is what was asked for.
Written(c) ==
    LET r == req[c]
    IN  pc[c] = "end" =>
        /\ r.op = "set_pipeline" =>
              Named(work.pipelines, r.name) = {[name |-> r.name, desc |-> r.desc]}
        /\ r.op = "set_model" /\ ver[c] # 0 => NewModel(r, ver[c]) \in work.models
        /\ r.op = "update_description" =>
              \E m \in Named(work.models, r.name) : m.version = r.version /\ m.desc = r.desc
        /\ r.op = "activate_model" => Activated(work.models, r.name, r.version)
        /\ r.op = "set_resource" =>
              \E s \in Named(work.resources, r.name) :
                 /\ s.path = r.path /\ s.desc = r.desc
                 /\ \A t \in work.resources : t.rowid <= s.rowid

\* The local _version is that of the row just inserted.
Counted(c) ==
    /\ pc[c] # "end" => ver[c] = 0
    /\ pc[c] = "version" /\ req[c].op = "set_model" =>
          lastRow.name = req[c].name /\ NewModel(req[c], lastRow.version) \in work.models

\* A delete without force has found its version not active.
Unflagged(c) ==
    "read" \notin FaultKinds /\ pc[c] = "delete" /\ req[c].op = "delete_model"
    /\ req[c].version > 0 /\ ~req[c].force =>
       ~Activated(work.models, req[c].name, req[c].version)

\* The flag of the model is down, and c is about to set it.
MovesFlag(c) ==
    pc[c] = "activate" \/ (pc[c] = "insert" /\ req[c].op = "set_model" /\ req[c].active)

KeepsFlags(c) ==
    InTransaction(c) => \A n \in Names : HasActive(disk.models, n) =>
        HasActive(work.models, n) \/ (n = req[c].name /\ MovesFlag(c))

Progress(c) ==
    /\ pc[c] = "idle" => req[c] = NoReq
    /\ Rechecked(c) /\ Lowers(c) /\ Written(c) /\ Counted(c) /\ Unflagged(c) /\ KeepsFlags(c)

SoloInv == IInv /\ \A c \in Callers : Progress(c)

\* What the theorems say of a step.
FlagsPersist ==
    \A n \in Names : HasActive(disk.models, n) /\ ~MayDropActive(n) => HasActive(disk'.models, n)

StepOK(c) ==
    /\ Committed(c)
    /\ "read" \notin FaultKinds => FlagsPersist

-----------------------------------------------------------------------------
(* One statement. *)

\* Where Goto and Return leave the caller.
LEMMA Going ==
    ASSUME IInv, NEW c \in Callers, NEW label, Goto(c, label)
    PROVE  pc'[c] = label /\ req'[c] = req[c] /\ ret'[c] = ret[c]
  BY DEF IInv, Typed, Goto

LEMMA Returning ==
    ASSUME IInv, NEW c \in Callers, NEW a, Return(c, a)
    PROVE  pc'[c] = "idle" /\ req'[c] = NoReq /\ ret'[c] = a
  BY DEF IInv, Typed, Return

\* Between calls nothing is claimed.
LEMMA IdleProgress ==
    ASSUME NEW c \in Callers, pc'[c] = "idle", req'[c] = NoReq, ver'[c] = 0
    PROVE  Progress(c)'
  BY DEF Progress, Rechecked, Lowers, Written, Counted, Unflagged, KeepsFlags, InTransaction,
         InTxLabels

\* A step that leaves the file alone and acknowledges no set call.
LEMMA QuietStep ==
    ASSUME NEW c \in Callers, disk' = disk,
           pc'[c] = "idle" /\ ret'[c].code = "OK" =>
              req[c].op \notin {"set_pipeline", "set_model", "update_description",
                                "activate_model", "set_resource"},
           pc'[c] # "changes"
    PROVE  StepOK(c)
<1>1. Committed(c)
  BY DEF Committed, Acknowledges
<1>2. FlagsPersist
  BY DEF FlagsPersist
<1> QED  BY <1>1, <1>2 DEF StepOK

\* The call ends without END.
LEMMA EarlyReturn ==
    ASSUME SoloInv, NEW c \in Callers, NEW a, Return(c, a), pc[c] # "end", ver' = ver, disk' = disk,
           a.code = "OK" =>
              req[c].op \notin {"set_pipeline", "set_model", "update_description",
                                "activate_model", "set_resource"}
    PROVE  Progress(c)' /\ StepOK(c)
<1>1. pc'[c] = "idle" /\ req'[c] = NoReq /\ ret'[c] = a
  BY Returning DEF SoloInv
<1>2. ver'[c] = 0
  BY DEF SoloInv, Progress, Counted
<1>3. Progress(c)'
  BY <1>1, <1>2, IdleProgress
<1> QED  BY <1>1, <1>3, QuietStep

\* A check that fails, or a SELECT that is refused, is such an end.
LEMMA Codes3 == Ok.code = "OK" /\ EINVAL.code # "OK" /\ EIO.code # "OK"
  BY DEF Ok, EINVAL, EIO, Answer

\* BEGIN finds the file and the connection agree.
LEMMA BeginOK ==
    ASSUME SoloInv, NEW c \in Callers, NEW next \in InTxLabels, Begin(c, next),
           next \notin {"end", "version"},
           next = "deactivate" /\ req[c].op = "set_model" => req[c].active
    PROVE  Progress(c)' /\ StepOK(c)
<1>1. CASE Works /\ BeginTransaction /\ Goto(c, next)
  <2>1. pc'[c] = next /\ req'[c] = req[c] /\ disk' = disk /\ work' = work /\ work = disk
    BY <1>1, Going DEF SoloInv, IInv, StoreOK, NothingPending, BeginTransaction, CanBegin
  <2>2. pc[c] = "begin" /\ ver' = ver /\ lastRow' = lastRow
    BY DEF Begin
  <2>3. next # "idle" /\ next # "changes" /\ next # "delete" /\ next # "begin"
    BY DEF InTxLabels
  <2>4. Progress(c)
    BY DEF SoloInv
  <2>5. Rechecked(c)' /\ Lowers(c)' /\ Written(c)' /\ Counted(c)' /\ Unflagged(c)'
    BY <2>1, <2>2, <2>3, <2>4
       DEF Progress, Rechecked, Lowers, Written, Counted, Unflagged, Registered, Named
  <2>6. KeepsFlags(c)'
    BY <2>1 DEF KeepsFlags, HasActive, Named
  <2>7. StepOK(c)
    BY <2>1, <2>3, QuietStep
  <2> QED  BY <2>1, <2>3, <2>5, <2>6, <2>7 DEF Progress
<1>2. CASE UNCHANGED store /\ Return(c, EIO)
  <2>1. disk' = disk /\ ver' = ver /\ pc[c] # "end"
    BY <1>2 DEF Begin, store
  <2> QED  BY <1>2, <2>1, EarlyReturn, Codes3
<1> QED  BY <1>1, <1>2 DEF Begin

\* END makes what was written durable, or leaves the file as it was.
LEMMA EndOK ==
    ASSUME SoloInv, NEW c \in Callers, NEW a, End(c, a),
           a.code = "OK" /\ req[c].op = "set_model" => a.version = ver[c] /\ ver[c] # 0
    PROVE  Progress(c)' /\ StepOK(c)
<1>1. pc[c] = "end" /\ pc'[c] = "idle" /\ req'[c] = NoReq /\ ver'[c] = 0 /\ ret'[c] \in {a, EIO}
  BY Returning DEF End, SoloInv, IInv, Typed
<1>2. Progress(c)'
  BY <1>1, IdleProgress
<1>3. CASE EndTransaction /\ Return(c, a)
  <2>1. disk' = work /\ ret'[c] = a
    BY <1>3, Returning DEF EndTransaction, SoloInv
  <2>2. Progress(c)
    BY DEF SoloInv
  <2>3. Committed(c)
    BY <1>1, <2>1, <2>2 DEF Progress, Written, Committed, Acknowledges
  <2>4. FlagsPersist
    BY <1>1, <2>1, <2>2 DEF Progress, KeepsFlags, MovesFlag, FlagsPersist, InTransaction, InTxLabels
  <2> QED  BY <1>2, <2>3, <2>4 DEF StepOK
<1>4. CASE (UNCHANGED store \/ AutoRollback) /\ Return(c, EIO)
  <2>1. disk' = disk /\ ret'[c] = EIO
    BY <1>4, Returning DEF AutoRollback, store, SoloInv
  <2> QED  BY <1>1, <1>2, <2>1, QuietStep, Codes3
<1> QED  BY <1>3, <1>4 DEF End

\* A statement inside the transaction of c works, or ends the call.
Wrote(c, t, row, next) ==
    /\ work' = t /\ disk' = disk /\ lastRow' = row /\ ver' = ver
    /\ pc'[c] = next /\ req'[c] = req[c]

LEMMA WriteInside ==
    ASSUME SoloInv, NEW c \in Callers, InTransaction(c), pc[c] # "end",
           NEW t, NEW affected \in BOOLEAN, NEW row, NEW next,
           Write(c, t, affected, row, next),
           next \notin {"idle", "changes"}
    PROVE  \/ Progress(c)' /\ StepOK(c)
           \/ Wrote(c, t, row, next) /\ StepOK(c)
<1>1. CASE Works /\ Execute(t) /\ changed' = affected /\ lastRow' = row /\ Goto(c, next)
  <2>1. intx
    BY DEF SoloInv, IInv, TransactionsExclusive
  <2>2. Wrote(c, t, row, next)
    BY <1>1, <2>1, Going DEF Write, Wrote, Execute, SoloInv
  <2> QED  BY <2>2, QuietStep DEF Wrote
<1>2. CASE /\ \/ Fails("write") /\ UNCHANGED store
              \/ Fails("rollback") /\ AutoRollback
           /\ Return(c, EIO)
  <2>1. disk' = disk /\ ver' = ver
    BY <1>2 DEF Write, AutoRollback, store
  <2> QED  BY <1>2, <2>1, EarlyReturn, Codes3
<1> QED  BY <1>1, <1>2 DEF Write

-----------------------------------------------------------------------------
(* The operations. *)

\* What no statement of a set call but the one at hand changes.
LEMMA Facts ==
    ASSUME SoloInv, NEW c \in Callers
    PROVE  IInv /\ Progress(c) /\ (req[c].op # "none" => req[c] \in Requests /\ ValidArgs(req[c]))
  BY ArgsTyped DEF SoloInv

\* set_pipeline stores what it acknowledges.
LEMMA SetPipelineCall ==
    ASSUME SoloInv, NEW c \in Callers, SetPipeline(c)
    PROVE  Progress(c)' /\ StepOK(c)
<1> DEFINE r == req[c]
           row == [name |-> r.name, desc |-> r.desc]
           t == [work EXCEPT !.pipelines =
                   (work.pipelines \ Named(work.pipelines, r.name)) \cup {row}]
<1>1. r.op = "set_pipeline"
  BY DEF SetPipeline
<1>2. CASE Begin(c, "insert")
  BY <1>2, BeginOK DEF InTxLabels
<1>3. CASE pc[c] = "insert" /\ Write(c, t, TRUE, NoRow, "end")
  <2>1. t.models = work.models /\ Named(t.pipelines, r.name) = {row}
    BY Facts DEF IInv, StoreOK, Tables, Named
  <2> HIDE DEF t
  <2>2. CASE Wrote(c, t, NoRow, "end") /\ StepOK(c)
    <3>1. /\ work' = t /\ disk' = disk /\ pc'[c] = "end" /\ req'[c] = r
      BY <2>2 DEF Wrote
    <3>2. Written(c)'
      BY <1>1, <2>1, <3>1 DEF Written
    <3>3. KeepsFlags(c)'
      BY <1>1, <1>3, <2>1, <3>1, Facts
         DEF Progress, KeepsFlags, MovesFlag, InTransaction, InTxLabels, HasActive
    <3> QED  BY <1>1, <2>2, <3>1, <3>2, <3>3 DEF Progress, Rechecked, Lowers, Counted, Unflagged
  <2>3. InTransaction(c) /\ pc[c] # "end" /\ "end" \notin {"idle", "changes"}
    BY <1>3 DEF InTransaction, InTxLabels
  <2>4. Write(c, t, TRUE, NoRow, "end")
    BY <1>3
  <2>5. \/ Progress(c)' /\ StepOK(c)
        \/ Wrote(c, t, NoRow, "end") /\ StepOK(c)
    BY <2>3, <2>4, WriteInside
  <2> QED  BY <2>2, <2>5
<1>4. CASE End(c, Ok)
  BY <1>1, <1>4, EndOK
<1> QED  BY <1>2, <1>3, <1>4 DEF SetPipeline

\* UPDATE ... SET active = 'F' leaves the flags of the other names.
LEMMA DeactivatedFlags ==
    ASSUME NEW rows \in SUBSET ModelRow, NEW n, NEW k, NEW v
    PROVE  /\ k # n /\ HasActive(rows, k) => HasActive(Deactivated(rows, n), k)
           /\ Registered(rows, n, v) => Registered(Deactivated(rows, n), n, v)
<1> DEFINE f(r) == IF r.name = n THEN [r EXCEPT !.active = FALSE] ELSE r
<1>1. \A r \in rows : /\ f(r).name = r.name /\ f(r).version = r.version
                      /\ r.name # n => f(r).active = r.active
  BY DEF ModelRow
<1>2. Deactivated(rows, n) = {f(r) : r \in rows}
  BY DEF Deactivated
<1> HIDE DEF f
<1> QED  BY <1>1, <1>2 DEF HasActive, Registered, Named

LEMMA DeactivateCall ==
    ASSUME SoloInv, NEW c \in Callers, pc[c] = "deactivate", NEW affected \in BOOLEAN,
           NEW next \in {"insert", "activate"},
           \/ next = "activate" /\ req[c].op = "activate_model"
           \/ next = "insert" /\ req[c].op = "set_model" /\ req[c].active,
           Write(c, [work EXCEPT !.models = Deactivated(work.models, req[c].name)],
                 affected, lastRow, next)
    PROVE  Progress(c)' /\ StepOK(c)
<1> DEFINE rows == Deactivated(work.models, req[c].name)
           t == [work EXCEPT !.models = rows]
<1>1. t.models = rows /\ work.models \in SUBSET ModelRow
  BY Facts DEF IInv, StoreOK, Tables
<1>2. /\ \A k : k # req[c].name /\ HasActive(work.models, k) => HasActive(rows, k)
      /\ Registered(work.models, req[c].name, req[c].version)
            => Registered(rows, req[c].name, req[c].version)
  BY <1>1, DeactivatedFlags
<1>3. Write(c, t, affected, lastRow, next)
  OBVIOUS
<1> HIDE DEF t, rows
<1>4. CASE Wrote(c, t, lastRow, next) /\ StepOK(c)
  <2>1. /\ work'.models = rows /\ disk' = disk /\ pc'[c] = next /\ req'[c] = req[c] /\ ver' = ver
    BY <1>1, <1>4 DEF Wrote
  <2>2. Rechecked(c)' /\ Lowers(c)' /\ Written(c)' /\ Counted(c)' /\ Unflagged(c)'
    BY <1>2, <2>1, Facts DEF Progress, Rechecked, Lowers, Written, Counted, Unflagged
  <2>3. KeepsFlags(c)'
    <3>1. InTransaction(c) /\ ~MovesFlag(c)
      BY DEF InTransaction, InTxLabels, MovesFlag
    <3>2. \A n \in Names : HasActive(disk.models, n) => HasActive(work.models, n)
      BY <3>1, Facts DEF Progress, KeepsFlags
    <3>3. MovesFlag(c)'
      BY <2>1 DEF MovesFlag
    <3> QED  BY <1>2, <2>1, <3>2, <3>3 DEF KeepsFlags
  <2> QED  BY <1>4, <2>1, <2>2, <2>3 DEF Progress
<1>5. InTransaction(c)
  BY DEF InTransaction, InTxLabels
<1> QED  BY <1>3, <1>4, <1>5, WriteInside

\* set_model gives out the version of the row that END commits.
LEMMA SetModelCall ==
    ASSUME SoloInv, NEW c \in Callers, SetModel(c)
    PROVE  Progress(c)' /\ StepOK(c)
<1> DEFINE r == req[c]
<1>1. r.op = "set_model" /\ r.name \in Names /\ r.active \in BOOLEAN
  BY Facts, RequestFields DEF SetModel
<1>2. CASE Begin(c, IF r.active THEN "deactivate" ELSE "insert")
  BY <1>1, <1>2, BeginOK DEF InTxLabels
<1>3. CASE /\ pc[c] = "deactivate"
           /\ Write(c, [work EXCEPT !.models = Deactivated(work.models, r.name)],
                    Named(work.models, r.name) # {}, lastRow, "insert")
  <2>1. r.active
    BY <1>1, <1>3, Facts DEF Progress, Lowers
  <2> QED  BY <1>1, <1>3, <2>1, DeactivateCall
<1>4. ASSUME pc[c] = "insert", NEW v \in 1..MaxVersion,
             Write(c, [work EXCEPT !.models = work.models \cup {NewModel(r, v)}],
                   TRUE, [name |-> r.name, version |-> v], "version")
      PROVE  Progress(c)' /\ StepOK(c)
  <2> DEFINE m == NewModel(r, v)
             t == [work EXCEPT !.models = work.models \cup {m}]
             last == [name |-> r.name, version |-> v]
  <2>1. t.models = work.models \cup {m} /\ m.name = r.name /\ m.active = r.active
    BY Facts DEF IInv, StoreOK, Tables, NewModel
  <2>2. last.name = r.name /\ NewModel(r, last.version) = m
    OBVIOUS
  <2>3. Write(c, t, TRUE, last, "version")
    BY <1>4
  <2> HIDE DEF t, m, last
  <2>4. CASE Wrote(c, t, last, "version") /\ StepOK(c)
    <3>1. /\ work'.models = work.models \cup {m} /\ disk' = disk /\ pc'[c] = "version"
          /\ req'[c] = r /\ ver' = ver /\ lastRow' = last
      BY <2>1, <2>4 DEF Wrote
    <3>2. Counted(c)'
      BY <1>4, <2>2, <3>1, Facts DEF Progress, Counted
    <3>3. KeepsFlags(c)'
      <4>1. \A n \in Names : HasActive(disk.models, n) =>
               HasActive(work.models, n) \/ (n = r.name /\ r.active)
        BY <1>4, Facts DEF Progress, KeepsFlags, MovesFlag, InTransaction, InTxLabels
      <4>2. r.active => HasActive(work'.models, r.name)
        BY <2>1, <3>1 DEF HasActive, Named
      <4>3. \A n : HasActive(work.models, n) => HasActive(work'.models, n)
        BY <3>1 DEF HasActive, Named
      <4> QED  BY <3>1, <4>1, <4>2, <4>3 DEF KeepsFlags
    <3> QED  BY <1>1, <2>4, <3>1, <3>2, <3>3 DEF Progress, Rechecked, Lowers, Written, Unflagged
  <2>5. InTransaction(c) /\ pc[c] # "end" /\ "version" \notin {"idle", "changes"}
    BY <1>4 DEF InTransaction, InTxLabels
  <2>6. \/ Progress(c)' /\ StepOK(c)
        \/ Wrote(c, t, last, "version") /\ StepOK(c)
    BY <2>3, <2>5, WriteInside
  <2> QED  BY <2>4, <2>6
<1>5. CASE /\ pc[c] = "version"
           /\ \/ /\ Works
                 /\ \/ \E v \in InsertedVersion : ver' = [ver EXCEPT ![c] = v]
                    \/ InsertedVersion = {} /\ ver' = ver
              \/ Fails("read") /\ ver' = ver
           /\ Goto(c, "end")
           /\ UNCHANGED <<store, lastRow, changed>>
  <2>1. pc'[c] = "end" /\ req'[c] = r /\ work' = work /\ disk' = disk
    BY <1>5, Going, Facts DEF store
  <2>2. \A v \in InsertedVersion : v = lastRow.version
    BY DEF InsertedVersion
  <2>3. ver'[c] = 0 \/ ver'[c] = lastRow.version
    BY <1>5, <2>2, Facts DEF Progress, Counted, IInv, Typed
  <2>4. Written(c)'
    BY <1>1, <1>5, <2>1, <2>3, Facts DEF Progress, Counted, Written
  <2>5. KeepsFlags(c)'
    BY <1>5, <2>1, Facts DEF Progress, KeepsFlags, MovesFlag, InTransaction, InTxLabels
  <2>6. Progress(c)'
    BY <1>1, <2>1, <2>4, <2>5 DEF Progress, Rechecked, Lowers, Counted, Unflagged
  <2> QED  BY <2>1, <2>6, QuietStep
<1>6. CASE End(c, IF ver[c] = 0 THEN EINVAL ELSE Answer("OK", ver[c], {}))
  <2> DEFINE a == IF ver[c] = 0 THEN EINVAL ELSE Answer("OK", ver[c], {})
  <2>1. a.code = "OK" => a.version = ver[c] /\ ver[c] # 0
    BY DEF Answer, EINVAL
  <2>2. End(c, a)
    BY <1>6
  <2> HIDE DEF a
  <2> QED  BY <2>1, <2>2, EndOK
<1> QED  BY <1>2, <1>3, <1>4, <1>5, <1>6 DEF SetModel

\* UPDATE ... SET description, or SET active = 'T', leaves the flags that are up.
LEMMA DescribedFlags ==
    ASSUME NEW rows \in SUBSET ModelRow, NEW n, NEW v, NEW d
    PROVE  /\ \A k : HasActive(rows, k) => HasActive(DescribedAt(rows, n, v, d), k)
           /\ Registered(rows, n, v) /\ v > 0 =>
                 \E m \in Named(DescribedAt(rows, n, v, d), n) : m.version = v /\ m.desc = d
<1> DEFINE f(r) == IF r.name = n /\ r.version = v THEN [r EXCEPT !.desc = d] ELSE r
<1>1. \A r \in rows : /\ f(r).name = r.name /\ f(r).version = r.version /\ f(r).active = r.active
                      /\ r.name = n /\ r.version = v => f(r).desc = d
  BY DEF ModelRow
<1>2. DescribedAt(rows, n, v, d) = {f(r) : r \in rows}
  BY DEF DescribedAt
<1> HIDE DEF f
<1> QED  BY <1>1, <1>2 DEF HasActive, Registered, Named

LEMMA ActivatedFlags ==
    ASSUME NEW rows \in SUBSET ModelRow, NEW n, NEW v
    PROVE  /\ \A k : HasActive(rows, k) => HasActive(ActivatedAt(rows, n, v), k)
           /\ Registered(rows, n, v) /\ v > 0 =>
                 /\ Activated(ActivatedAt(rows, n, v), n, v)
                 /\ HasActive(ActivatedAt(rows, n, v), n)
<1> DEFINE f(r) == IF r.name = n /\ r.version = v THEN [r EXCEPT !.active = TRUE] ELSE r
<1>1. \A r \in rows : /\ f(r).name = r.name /\ f(r).version = r.version
                      /\ r.active => f(r).active
                      /\ r.name = n /\ r.version = v => f(r).active
  BY DEF ModelRow
<1>2. ActivatedAt(rows, n, v) = {f(r) : r \in rows}
  BY DEF ActivatedAt
<1> HIDE DEF f
<1> QED  BY <1>1, <1>2 DEF HasActive, Registered, Activated, Named

\* is_*_registered and is_model_activated: what they have found is kept.
LEMMA CheckCall ==
    ASSUME SoloInv, NEW c \in Callers, NEW found, NEW next \in {"begin", "select", "guard", "delete"},
           Check(c, found, next),
           found /\ next = "begin" /\ req[c].op \in {"activate_model", "update_description"} =>
              Registered(work.models, req[c].name, req[c].version),
           next = "delete" /\ req[c].op = "delete_model" => req[c].version = 0 \/ req[c].force,
           req[c].op = "delete_model" => req[c].version \in Nat
    PROVE  Progress(c)' /\ StepOK(c)
<1>1. disk' = disk /\ work' = work /\ ver' = ver /\ pc[c] = "check" /\ ver[c] = 0
  BY Facts DEF Check, store, Progress, Counted
<1>2. CASE found /\ Goto(c, next)
  <2>1. pc'[c] = next /\ req'[c] = req[c]
    BY <1>2, Going, Facts
  <2>2. Rechecked(c)' /\ Lowers(c)' /\ Written(c)' /\ Counted(c)' /\ Unflagged(c)' /\ KeepsFlags(c)'
    BY <1>1, <1>2, <2>1
       DEF Rechecked, Lowers, Written, Counted, Unflagged, KeepsFlags, InTransaction, InTxLabels
  <2>3. StepOK(c)
    BY <1>1, <2>1, QuietStep
  <2> QED  BY <2>1, <2>2, <2>3 DEF Progress
<1>3. CASE Return(c, EINVAL)
  BY <1>1, <1>3, EarlyReturn, Codes3
<1> QED  BY <1>2, <1>3 DEF Check

\* The get_* functions return with what they have read.
LEMMA SelectCall ==
    ASSUME SoloInv, NEW c \in Callers, NEW rows, NEW aggregate, Select(c, rows, aggregate),
           req[c].op \in {"get_pipeline", "get_model", "get_activated", "get_resource"}
    PROVE  Progress(c)' /\ StepOK(c)
<1>1. disk' = disk /\ ver' = ver /\ pc[c] # "end"
  BY DEF Select, store
<1>2. PICK a : Return(c, a)
  BY DEF Select
<1> QED  BY <1>1, <1>2, EarlyReturn

LEMMA ChangesCall ==
    ASSUME SoloInv, NEW c \in Callers, Changes(c),
           req[c].op \in {"delete_pipeline", "delete_model", "delete_resource"}
    PROVE  Progress(c)' /\ StepOK(c)
<1>1. disk' = disk /\ ver' = ver /\ pc[c] # "end"
  BY DEF Changes, store
<1>2. PICK a : Return(c, a)
  BY DEF Changes
<1> QED  BY <1>1, <1>2, EarlyReturn

\* A DELETE, outside a transaction or in one that was abandoned.
LEMMA DeleteCall ==
    ASSUME SoloInv, NEW c \in Callers, pc[c] = "delete", NEW t, NEW affected \in BOOLEAN, NEW row,
           Write(c, t, affected, row, "changes"),
           "read" \notin FaultKinds => \A m \in work.models \ t.models : m.active =>
              /\ req[c].op = "delete_model" /\ m.name = req[c].name
              /\ req[c].force \/ req[c].version = 0,
           req[c].op = "delete_model" => req[c].version \in Nat
    PROVE  Progress(c)' /\ StepOK(c)
<1>1. CASE Works /\ Execute(t) /\ changed' = affected /\ lastRow' = row /\ Goto(c, "changes")
  <2>1. pc'[c] = "changes" /\ req'[c] = req[c] /\ ver' = ver /\ ver[c] = 0
    BY <1>1, Going, Facts DEF Write, Progress, Counted
  <2>2. Progress(c)'
    BY <2>1 DEF Progress, Rechecked, Lowers, Written, Counted, Unflagged, KeepsFlags,
                InTransaction, InTxLabels
  <2>3. Committed(c)
    BY <2>1 DEF Committed, Acknowledges
  <2>4. work' = t /\ disk' \in {disk, t} /\ (disk' # disk => work = disk)
    BY <1>1, Facts DEF Execute, IInv, StoreOK, NothingPending
  <2>5. ASSUME "read" \notin FaultKinds PROVE FlagsPersist
    <3>1. ASSUME NEW n \in Names, HasActive(disk.models, n), ~MayDropActive(n), disk' # disk
          PROVE  HasActive(disk'.models, n)
      <4>1. PICK m \in work.models : m.name = n /\ m.active
        BY <2>4, <3>1 DEF HasActive, Named
      <4>2. m \in t.models
        BY <2>5, <3>1, <4>1 DEF MayDropActive
      <4> QED  BY <2>4, <3>1, <4>1, <4>2 DEF HasActive, Named
    <3> QED  BY <3>1 DEF FlagsPersist
  <2> QED  BY <2>2, <2>3, <2>5 DEF StepOK
<1>2. CASE /\ \/ Fails("write") /\ UNCHANGED store
              \/ Fails("rollback") /\ AutoRollback
           /\ Return(c, EIO)
  <2>1. disk' = disk /\ ver' = ver
    BY <1>2 DEF Write, AutoRollback, store
  <2> QED  BY <1>2, <2>1, EarlyReturn, Codes3
<1> QED  BY <1>1, <1>2 DEF Write

\* An UPDATE that is followed by END.
LEMMA UpdateCall ==
    ASSUME SoloInv, NEW c \in Callers, pc[c] \in {"update", "activate"},
           NEW t, NEW affected \in BOOLEAN, Write(c, t, affected, lastRow, "end"),
           \A n : HasActive(work.models, n) => HasActive(t.models, n),
           \/ /\ req[c].op = "update_description" /\ pc[c] = "update"
              /\ \E m \in Named(t.models, req[c].name) :
                    m.version = req[c].version /\ m.desc = req[c].desc
           \/ /\ req[c].op = "activate_model"
              /\ Activated(t.models, req[c].name, req[c].version)
              /\ HasActive(t.models, req[c].name)
    PROVE  Progress(c)' /\ StepOK(c)
<1>1. CASE Wrote(c, t, lastRow, "end") /\ StepOK(c)
  <2>1. work' = t /\ disk' = disk /\ pc'[c] = "end" /\ req'[c] = req[c] /\ ver' = ver
    BY <1>1 DEF Wrote
  <2>2. Written(c)'
    BY <2>1 DEF Written
  <2>3. Rechecked(c)' /\ Lowers(c)' /\ Counted(c)' /\ Unflagged(c)'
    BY <2>1 DEF Rechecked, Lowers, Counted, Unflagged
  <2>4. KeepsFlags(c)'
    <3>1. \A n \in Names : HasActive(disk.models, n) =>
             HasActive(work.models, n) \/ (n = req[c].name /\ MovesFlag(c))
      BY Facts DEF Progress, KeepsFlags, InTransaction, InTxLabels
    <3>2. MovesFlag(c) => HasActive(t.models, req[c].name)
      BY DEF MovesFlag
    <3> QED  BY <2>1, <3>1, <3>2 DEF KeepsFlags
  <2> QED  BY <1>1, <2>1, <2>2, <2>3, <2>4 DEF Progress
<1>2. InTransaction(c) /\ pc[c] # "end"
  BY DEF InTransaction, InTxLabels
<1> QED  BY <1>1, <1>2, WriteInside

LEMMA UpdateDescriptionCall ==
    ASSUME SoloInv, NEW c \in Callers, UpdateDescription(c)
    PROVE  Progress(c)' /\ StepOK(c)
<1> DEFINE r == req[c]
           found == Registered(work.models, r.name, r.version)
           rows == DescribedAt(work.models, r.name, r.version, r.desc)
           t == [work EXCEPT !.models = rows]
<1>1. r.op = "update_description" /\ r.version > 0
  BY Facts, RequestFields DEF UpdateDescription
<1>2. CASE Check(c, found, "begin")
  BY <1>1, <1>2, CheckCall
<1>3. CASE Begin(c, "update")
  BY <1>1, <1>3, BeginOK DEF InTxLabels
<1>4. CASE pc[c] = "update" /\ Write(c, t, found, lastRow, "end")
  <2>1. found /\ work.models \in SUBSET ModelRow
    BY <1>1, <1>4, Facts DEF Progress, Rechecked, IInv, StoreOK, Tables
  <2>2. t.models = rows
    BY Facts DEF IInv, StoreOK, Tables
  <2>3. /\ \A n : HasActive(work.models, n) => HasActive(rows, n)
        /\ \E m \in Named(rows, r.name) : m.version = r.version /\ m.desc = r.desc
    BY <1>1, <2>1, DescribedFlags
  <2>4. Write(c, t, found, lastRow, "end") /\ found \in BOOLEAN
    BY <1>4 DEF Registered
  <2> HIDE DEF t, rows, found
  <2> QED  BY <1>1, <1>4, <2>2, <2>3, <2>4, UpdateCall
<1>5. CASE End(c, Ok)
  BY <1>1, <1>5, EndOK
<1> QED  BY <1>2, <1>3, <1>4, <1>5 DEF UpdateDescription

LEMMA ActivateModelCall ==
    ASSUME SoloInv, NEW c \in Callers, ActivateModel(c)
    PROVE  Progress(c)' /\ StepOK(c)
<1> DEFINE r == req[c]
           found == Registered(work.models, r.name, r.version)
           rows == ActivatedAt(work.models, r.name, r.version)
           t == [work EXCEPT !.models = rows]
<1>1. r.op = "activate_model" /\ r.version > 0
  BY Facts, RequestFields DEF ActivateModel
<1>2. CASE Check(c, found, "begin")
  BY <1>1, <1>2, CheckCall
<1>3. CASE Begin(c, "deactivate")
  BY <1>1, <1>3, BeginOK DEF InTxLabels
<1>4. CASE /\ pc[c] = "deactivate"
           /\ Write(c, [work EXCEPT !.models = Deactivated(work.models, r.name)],
                    Named(work.models, r.name) # {}, lastRow, "activate")
  BY <1>1, <1>4, DeactivateCall
<1>5. CASE pc[c] = "activate" /\ Write(c, t, found, lastRow, "end")
  <2>1. found /\ work.models \in SUBSET ModelRow
    BY <1>1, <1>5, Facts DEF Progress, Rechecked, IInv, StoreOK, Tables
  <2>2. t.models = rows
    BY Facts DEF IInv, StoreOK, Tables
  <2>3. /\ \A n : HasActive(work.models, n) => HasActive(rows, n)
        /\ Activated(rows, r.name, r.version) /\ HasActive(rows, r.name)
    BY <1>1, <2>1, ActivatedFlags
  <2>4. Write(c, t, found, lastRow, "end") /\ found \in BOOLEAN
    BY <1>5 DEF Registered
  <2> HIDE DEF t, rows, found
  <2> QED  BY <1>1, <1>5, <2>2, <2>3, <2>4, UpdateCall
<1>6. CASE End(c, Ok)
  BY <1>1, <1>6, EndOK
<1> QED  BY <1>2, <1>3, <1>4, <1>5, <1>6 DEF ActivateModel

LEMMA DeleteModelCall ==
    ASSUME SoloInv, NEW c \in Callers, DeleteModel(c)
    PROVE  Progress(c)' /\ StepOK(c)
<1> DEFINE r == req[c]
           rows == {m \in Named(work.models, r.name) : r.version > 0 => m.version = r.version}
           t == [work EXCEPT !.models = work.models \ rows]
           next == IF r.version > 0 /\ ~r.force THEN "guard" ELSE "delete"
<1>1. r.op = "delete_model" /\ r.version \in Nat /\ r.force \in BOOLEAN
  BY Facts, RequestFields, BoundsAssumption DEF DeleteModel
<1>2. CASE Check(c, Registered(work.models, r.name, r.version), next)
  <2>1. next \in {"guard", "delete"} /\ (next = "delete" => r.version = 0 \/ r.force)
    BY <1>1
  <2> HIDE DEF next
  <2> QED  BY <1>1, <1>2, <2>1, CheckCall
<1>3. CASE /\ pc[c] = "guard"
           /\ \/ Works /\ Activated(work.models, r.name, r.version) /\ Return(c, EINVAL)
              \/ Works /\ ~Activated(work.models, r.name, r.version) /\ Goto(c, "delete")
              \/ Fails("read") /\ Goto(c, "delete")
           /\ UNCHANGED <<store, ver, lastRow, changed>>
  <2>1. disk' = disk /\ work' = work /\ ver' = ver /\ ver[c] = 0
    BY <1>3, Facts DEF store, Progress, Counted
  <2>2. CASE /\ Goto(c, "delete")
             /\ "read" \notin FaultKinds => ~Activated(work.models, r.name, r.version)
    <3>1. pc'[c] = "delete" /\ req'[c] = r
      BY <2>2, Going, Facts
    <3>2. Progress(c)'
      BY <2>1, <2>2, <3>1
         DEF Progress, Rechecked, Lowers, Written, Counted, Unflagged, KeepsFlags,
             InTransaction, InTxLabels
    <3> QED  BY <2>1, <3>1, <3>2, QuietStep
  <2>3. CASE Return(c, EINVAL)
    BY <1>3, <2>1, <2>3, EarlyReturn, Codes3
  <2> QED  BY <1>3, <2>2, <2>3 DEF Fails
<1>4. CASE pc[c] = "delete" /\ Write(c, t, rows # {}, lastRow, "changes")
  <2>1. work.models \ t.models = rows \cap work.models
    BY Facts DEF IInv, StoreOK, Tables
  <2>2. ASSUME "read" \notin FaultKinds, NEW m \in rows, m.active
        PROVE  m.name = r.name /\ (r.force \/ r.version = 0)
    <3>1. r.version > 0 /\ ~r.force => ~Activated(work.models, r.name, r.version)
      BY <1>1, <1>4, <2>2, Facts DEF Progress, Unflagged
    <3> QED  BY <1>1, <2>2, <3>1 DEF Activated, Named
  <2>3. Write(c, t, rows # {}, lastRow, "changes")
    BY <1>4
  <2> HIDE DEF t, rows
  <2> QED  BY <1>1, <1>4, <2>1, <2>2, <2>3, DeleteCall
<1>5. CASE Changes(c)
  BY <1>1, <1>5, ChangesCall
<1> QED  BY <1>2, <1>3, <1>4, <1>5 DEF DeleteModel

LEMMA DeletePipelineCall ==
    ASSUME SoloInv, NEW c \in Callers, DeletePipeline(c)
    PROVE  Progress(c)' /\ StepOK(c)
<1> DEFINE rows == Named(work.pipelines, req[c].name)
           t == [work EXCEPT !.pipelines = work.pipelines \ rows]
<1>1. req[c].op = "delete_pipeline"
  BY DEF DeletePipeline
<1>2. CASE pc[c] = "delete" /\ Write(c, t, rows # {}, lastRow, "changes")
  <2>1. t.models = work.models
    BY Facts DEF IInv, StoreOK, Tables
  <2> HIDE DEF t, rows
  <2> QED  BY <1>1, <1>2, <2>1, DeleteCall
<1> QED  BY <1>1, <1>2, ChangesCall DEF DeletePipeline

LEMMA DeleteResourceCall ==
    ASSUME SoloInv, NEW c \in Callers, DeleteResource(c)
    PROVE  Progress(c)' /\ StepOK(c)
<1> DEFINE rows == Named(work.resources, req[c].name)
           t == [work EXCEPT !.resources = work.resources \ rows]
<1>1. req[c].op = "delete_resource"
  BY DEF DeleteResource
<1>2. CASE pc[c] = "delete" /\ Write(c, t, rows # {}, lastRow, "changes")
  <2>1. t.models = work.models
    BY Facts DEF IInv, StoreOK, Tables
  <2> HIDE DEF t, rows
  <2> QED  BY <1>1, <1>2, <2>1, DeleteCall
<1>3. CASE Check(c, Registered(work.resources, req[c].name, 0), "delete")
  BY <1>1, <1>3, CheckCall
<1> QED  BY <1>1, <1>2, <1>3, ChangesCall DEF DeleteResource

LEMMA GetCall ==
    ASSUME SoloInv, NEW c \in Callers, GetPipeline(c) \/ GetModel(c) \/ GetResource(c)
    PROVE  Progress(c)' /\ StepOK(c)
<1>1. CASE GetPipeline(c)
  BY <1>1, SelectCall DEF GetPipeline
<1>2. CASE GetModel(c)
  BY <1>2, SelectCall, CheckCall DEF GetModel
<1>3. CASE GetResource(c)
  BY <1>3, SelectCall, CheckCall DEF GetResource
<1> QED  BY <1>1, <1>2, <1>3

\* The row that add_resource has written is the last of all rows.
LEMMA SetResourceCall ==
    ASSUME SoloInv, NEW c \in Callers, SetResource(c)
    PROVE  Progress(c)' /\ StepOK(c)
<1> DEFINE r == req[c]
           same == {s \in Named(work.resources, r.name) : s.path = r.path}
<1>1. r.op = "set_resource"
  BY DEF SetResource
<1>2. CASE Begin(c, "insert")
  BY <1>1, <1>2, BeginOK DEF InTxLabels
<1>3. ASSUME pc[c] = "insert", NEW i \in 1..MaxRowid, IsNext(Rowids(work.resources), i),
             Write(c, [work EXCEPT !.resources = (work.resources \ same) \cup {NewResource(r, i)}],
                   TRUE, NoRow, "end")
      PROVE  Progress(c)' /\ StepOK(c)
  <2> DEFINE s == NewResource(r, i)
             t == [work EXCEPT !.resources = (work.resources \ same) \cup {s}]
  <2>1. t.models = work.models /\ t.resources = (work.resources \ same) \cup {s}
    BY Facts DEF IInv, StoreOK, Tables
  <2>2. s.name = r.name /\ s.path = r.path /\ s.desc = r.desc /\ s.rowid = i
    BY DEF NewResource
  <2>3. \A u \in work.resources : u.rowid <= i
    <3>1. \A u \in work.resources : u.rowid \in 1..MaxRowid
      BY Facts DEF IInv, StoreOK, Tables, ResourceRow
    <3>2. \A u \in work.resources : u.rowid < i
      BY <1>3 DEF IsNext, Rowids
    <3> QED  BY <3>1, <3>2
  <2>4. Write(c, t, TRUE, NoRow, "end")
    BY <1>3
  <2>5. InTransaction(c) /\ pc[c] # "end" /\ ~MovesFlag(c) /\ "end" \notin {"idle", "changes"}
    BY <1>1, <1>3 DEF InTransaction, InTxLabels, MovesFlag
  <2> HIDE DEF t, s
  <2>6. CASE Wrote(c, t, NoRow, "end") /\ StepOK(c)
    <3>1. work' = t /\ disk' = disk /\ pc'[c] = "end" /\ req'[c] = r
      BY <2>6 DEF Wrote
    <3>2. Written(c)'
      <4>1. s \in Named(t.resources, r.name)
        BY <2>1, <2>2 DEF Named
      <4>2. \A u \in t.resources : u.rowid <= s.rowid
        BY <2>1, <2>2, <2>3
      <4> QED  BY <1>1, <2>2, <3>1, <4>1, <4>2 DEF Written
    <3>3. KeepsFlags(c)'
      BY <2>1, <2>5, <3>1, Facts DEF Progress, KeepsFlags
    <3> QED  BY <1>1, <2>6, <3>1, <3>2, <3>3
             DEF Progress, Rechecked, Lowers, Counted, Unflagged
  <2>7. \/ Progress(c)' /\ StepOK(c)
        \/ Wrote(c, t, NoRow, "end") /\ StepOK(c)
    BY <2>4, <2>5, WriteInside
  <2> QED  BY <2>6, <2>7
<1>4. CASE End(c, Ok)
  BY <1>1, <1>4, EndOK
<1> QED  BY <1>2, <1>3, <1>4 DEF SetResource

-----------------------------------------------------------------------------
(* Every step. *)

\* The arguments are checked before the first statement, so that nothing is
\* found yet.
LEMMA StartOfCall ==
    ASSUME SoloInv, NEW c \in Callers, Call(c)
    PROVE  Progress(c)' /\ StepOK(c)
<1>1. disk' = disk /\ ver' = ver /\ ver[c] = 0 /\ pc[c] = "idle" /\ req[c] = NoReq
  BY Facts DEF Call, store, Progress, Counted
<1>2. CASE \E r \in Requests : /\ pc' = [pc EXCEPT ![c] = Entry(r.op)]
                               /\ req' = [req EXCEPT ![c] = r]
  <2>1. PICK r \in Requests : pc'[c] = Entry(r.op) /\ req'[c] = r
    BY <1>2, Facts DEF IInv, Typed
  <2>2. /\ pc'[c] \in {"begin", "select", "delete", "check"}
        /\ pc'[c] = "begin" => req'[c].op \in {"set_pipeline", "set_model", "set_resource"}
        /\ pc'[c] = "delete" => req'[c].op = "delete_pipeline"
    BY <2>1 DEF Entry
  <2>3. Progress(c)'
    BY <1>1, <2>2 DEF Progress, Rechecked, Lowers, Written, Counted, Unflagged, KeepsFlags,
                      InTransaction, InTxLabels
  <2> QED  BY <1>1, <2>2, <2>3, QuietStep
<1>3. CASE ret' = [ret EXCEPT ![c] = EINVAL] /\ UNCHANGED <<pc, req>>
  BY <1>1, <1>3, IdleProgress, QuietStep, Codes3 DEF NoReq
<1> QED  BY <1>2, <1>3 DEF Call

LEMMA StatementOfCall ==
    ASSUME SoloInv, NEW c \in Callers, Step(c)
    PROVE  Progress(c)' /\ StepOK(c)
  BY SetPipelineCall, GetCall, DeletePipelineCall, SetModelCall, UpdateDescriptionCall,
     ActivateModelCall, DeleteModelCall, SetResourceCall, DeleteResourceCall DEF Step

\* Initialize, finalize, a crash and stuttering leave the file alone.
LEMMA OtherSteps ==
    ASSUME SoloInv, NEW c \in Callers, Initialize \/ Finalize \/ Crash \/ UNCHANGED vars
    PROVE  Progress(c)' /\ StepOK(c)
<1>1. disk' = disk
  BY DEF Initialize, Finalize, Crash, Disconnect, vars
<1>2. CASE Initialize \/ Finalize
  <2>1. pc'[c] = "idle" /\ req'[c] = NoReq /\ req[c] = NoReq /\ ver'[c] = 0
    BY <1>2, Facts DEF Initialize, Finalize, Idle, Progress, Counted
  <2> QED  BY <1>1, <2>1, IdleProgress, QuietStep DEF NoReq
<1>3. CASE Crash
  <2>1. pc'[c] = "idle" /\ req'[c] = NoReq /\ ret'[c] = NoAnswer /\ ver'[c] = 0
    BY <1>3 DEF Crash
  <2> QED  BY <1>1, <2>1, IdleProgress, QuietStep DEF NoAnswer, Answer
<1>4. CASE UNCHANGED vars
  <2>1. Progress(c)'
    BY <1>4, Facts
       DEF vars, Progress, Rechecked, Lowers, Written, Counted, Unflagged, KeepsFlags, MovesFlag,
           InTransaction, HasActive, Registered, Activated, Named
  <2>2. pc'[c] = "idle" => req[c] = NoReq
    BY <1>4, Facts DEF vars, Progress
  <2>3. Committed(c)
    BY <2>2 DEF Committed, Acknowledges, NoReq
  <2>4. FlagsPersist
    BY <1>1, <1>4 DEF FlagsPersist, vars
  <2> QED  BY <2>1, <2>3, <2>4 DEF StepOK
<1> QED  BY <1>2, <1>3, <1>4

LEMMA NextSolo ==
    ASSUME Solo, SoloInv, [Next]_vars
    PROVE  SoloInv' /\ \A c \in Callers : StepOK(c)
<1>1. IInv'
  BY NextInv DEF SoloInv
<1>2. ASSUME NEW c \in Callers PROVE Progress(c)' /\ StepOK(c)
  <2>1. ASSUME NEW d \in Callers, Call(d) \/ Step(d) PROVE Progress(c)' /\ StepOK(c)
    BY <2>1, StartOfCall, StatementOfCall DEF Solo
  <2> QED  BY <2>1, OtherSteps DEF Next
<1> QED  BY <1>1, <1>2 DEF SoloInv

LEMMA InitSolo == Init => SoloInv
<1> SUFFICES ASSUME Init PROVE SoloInv
  OBVIOUS
<1>1. \A c \in Callers : Progress(c)
  BY DEF Init, Progress, Rechecked, Lowers, Written, Counted, Unflagged, KeepsFlags,
         InTransaction, InTxLabels, NoReq
<1> QED  BY <1>1, InitInv DEF SoloInv

-----------------------------------------------------------------------------
(* The results. *)

\* The inductive invariant of one caller.
THEOREM InductiveSolo ==
    ASSUME Solo
    PROVE  Spec => []SoloInv
  BY InitSolo, NextSolo, PTL DEF Spec

\* Whatever fails and wherever the process dies: a set call that was answered
\* with success has all its rows in the file.
THEOREM SetsAreDurable ==
    ASSUME Solo
    PROVE  Spec => AcknowledgedSetsAreDurable
<1>1. SoloInv /\ [Next]_vars => [\A c \in Callers : Committed(c)]_vars
  BY NextSolo DEF StepOK
<1> QED  BY <1>1, InductiveSolo, PTL DEF Spec, AcknowledgedSetsAreDurable

\* Writes that fail half-way, transactions that stay open and crashes never leave
\* a model in the file without the active version it had.  A SELECT that fails may:
\* is_model_activated takes it for an inactive version.
THEOREM ActivePersists ==
    ASSUME Solo, "read" \notin FaultKinds
    PROVE  Spec => ActiveModelPersists
<1>1. ASSUME SoloInv, [Next]_vars PROVE FlagsPersist
  <2>1. CASE Callers = {}
    BY <1>1, <2>1 DEF FlagsPersist, Next, Initialize, Finalize, Crash, Disconnect, vars
  <2>2. ASSUME NEW c \in Callers PROVE FlagsPersist
    BY <1>1, <2>2, NextSolo DEF StepOK
  <2> QED  BY <2>1, <2>2
<1>2. SoloInv /\ [Next]_vars =>
        [\A n \in Names : HasActive(disk.models, n) /\ ~MayDropActive(n)
                             => HasActive(disk'.models, n)]_vars
  BY <1>1 DEF FlagsPersist
<1> QED  BY <1>2, InductiveSolo, PTL DEF Spec, ActiveModelPersists
=============================================================================
