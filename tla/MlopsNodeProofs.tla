--------------------------- MODULE MlopsNodeProofs ---------------------------
(***************************************************************************)
(* For any threads, cells, ids and clock, and whatever the callers do: a   *)
(* node is always in the hands of exactly one that has to free it, and a   *)
(* pipeline changes its state only by calls for its own id.  With callers  *)
(* that keep to the ids of their own launches, no freed node is ever used  *)
(* and every launched pipeline stays until its owner destroys it.          *)
(*                                                                         *)
(* The inductive invariant says what holds between two critical sections:  *)
(* who has which lock (LocksOK), which cell is where (CellsOK), and with   *)
(* careful callers, which thread may name which id (Ownership).            *)
(***************************************************************************)
EXTENDS MlopsNode, TLAPS

Users == {"start", "stop", "get_state"}

\* The operation a thread is in is one that has the section it is about to enter.
AtSection(t) ==
    LET k == op[t].kind
    IN  /\ (k = "none") = (pc[t] = "idle")
        /\ pc[t] = "lookup" => k \in Users \cup {"destroy"}
        /\ pc[t] \in {"lock", "set"} => k \in Users
        /\ pc[t] = "remove" => k = "destroy"
        /\ pc[t] \in {"parse", "insert", "readid"} => k = "launch"
        /\ pc[t] = "finalize" => k = "finalize"
        /\ pc[t] \in {"free", "unref"} => k \in {"launch", "destroy", "finalize"}
        /\ pc[t] \in {"lookup", "lock", "set", "remove", "insert", "readid"} => op[t].id \in Ids
        /\ k = "launch" /\ pc[t] \in {"free", "unref"} => op[t].id \in Ids /\ cur[t] \in Nodes
        /\ pc[t] \in {"lock", "set", "insert", "readid"} => cur[t] \in Nodes
        /\ pc[t] \in {"lock", "set"} => heap[cur[t]].use # "unused"

\* The table lock is held just while its holder frees nodes, the lock of a node
\* while its holder changes the pipeline; mlops_node_finalize runs alone.
Locked(t) ==
    /\ (tlock = t) = (pc[t] \in {"free", "unref"})
    /\ victims[t] # {} => tlock = t
    /\ pc[t] = "set" => heap[cur[t]].lock = t /\ Live(cur[t])

NodeLocked(n) ==
    heap[n].lock # NoThread => pc[heap[n].lock] = "set" /\ cur[heap[n].lock] = n

Alone(t) == op[t].kind = "finalize" =>
    \A s \in Threads : known[s] = {} /\ (s # t => pc[s] = "idle")

LocksOK ==
    /\ \A t \in Threads : Locked(t) /\ Alone(t)
    /\ \A n \in Nodes : NodeLocked(n)

\* A node is in the table under its id, or with the one thread that frees nodes,
\* or with its maker; and in one place only.
InTable(i) == table[i] # NoNode => heap[table[i]].use = "live" /\ heap[table[i]].id = i

Condemned(t) == \A n \in victims[t] : Live(n) /\ table[heap[n].id] # n

Made(t) == pc[t] = "insert" =>
    /\ heap[cur[t]].use = "live" /\ heap[cur[t]].id = op[t].id
    /\ table[op[t].id] # cur[t]
    /\ \A s \in Threads : cur[t] \notin victims[s]
    /\ \A s \in Threads : pc[s] = "insert" /\ cur[s] = cur[t] => s = t

\* The node a call has looked up is, as long as it lives, the one of its id.
LookedUp(t) ==
    pc[t] \in {"lock", "set"} /\ Live(cur[t]) => heap[cur[t]].id = op[t].id

AllOwned ==
    \A n \in Nodes : Live(n) =>
        \/ table[heap[n].id] = n
        \/ \E t \in Threads : \/ pc[t] = "insert" /\ cur[t] = n
                              \/ n \in victims[t]

CellsOK ==
    /\ \A n \in Nodes : Live(n) => heap[n].id \in Ids
    /\ \A i \in Ids : InTable(i)
    /\ \A t \in Threads : Condemned(t) /\ Made(t) /\ LookedUp(t)
    /\ AllOwned

\* The id t is launching a pipeline under, or removing one from.
Launching(t) == op[t].kind = "launch" /\ pc[t] # "parse"
Destroying(t) == op[t].kind = "destroy" /\ pc[t] \in {"lookup", "remove"}

\* t may name i, and nobody else may.
Owns(t, i) ==
    \/ i \in known[t]
    \/ Launching(t) /\ op[t].id = i
    \/ Destroying(t) /\ op[t].id = i

\* What t knows of the ids it owns.
Claims(t) ==
    /\ \A i \in known[t] : table[i] # NoNode
    /\ Launching(t) => op[t].id \notin known[t]
    /\ Launching(t) /\ pc[t] # "insert" => cur[t] \in Nodes /\ table[op[t].id] = cur[t]
    /\ Destroying(t) => op[t].id \notin known[t] /\ table[op[t].id] # NoNode
    /\ pc[t] \in {"lookup", "lock", "set"} /\ op[t].kind \in Users => op[t].id \in known[t]
    /\ pc[t] \in {"lock", "set"} => table[op[t].id] = cur[t]

SoleOwner == \A s, t \in Threads : \A i \in Ids : Owns(s, i) /\ Owns(t, i) => s = t

UniqueIds == \A n, m \in Nodes : Live(n) /\ Live(m) /\ heap[n].id = heap[m].id => n = m

Ownership == ~broken /\ UniqueIds /\ SoleOwner /\ \A t \in Threads : Claims(t)

IInv ==
    /\ TypeOK
    /\ \A t \in Threads : AtSection(t)
    /\ LocksOK
    /\ CellsOK
    /\ Careful => Ownership

-----------------------------------------------------------------------------
(* What a step does. *)

Codes == {"none", "OK", "EINVAL", "ESTRPIPE"}

\* t goes to label with the operation o and the node c; the others stay.
Moves(t, label, o, c) ==
    /\ pc' \in [Threads -> Sections] /\ op' \in [Threads -> Operations]
    /\ cur' \in [Threads -> Nodes \cup {NoNode}]
    /\ pc'[t] = label /\ op'[t] = o /\ cur'[t] = c
    /\ \A s \in Threads \ {t} : pc'[s] = pc[s] /\ op'[s] = op[s] /\ cur'[s] = cur[s]

\* No cell changes its use or its id, and no node its place.
Quiet ==
    /\ heap' \in [Nodes -> Cells]
    /\ \A n \in Nodes : heap'[n].use = heap[n].use /\ heap'[n].id = heap[n].id
    /\ UNCHANGED <<table, victims>>

\* The lock of n is the only one that changes, to l.
LockSet(n, l) ==
    \A m \in Nodes : heap'[m].lock = IF m = n THEN l ELSE heap[m].lock

LEMMA NoOpTyped == NoOp \in Operations
  BY NodeBounds DEF NoOp, Operations

LEMMA MovesTo ==
    ASSUME TypeOK, NEW t \in Threads, NEW label \in Sections, NEW o \in Operations,
           NEW c \in Nodes \cup {NoNode},
           pc' = [pc EXCEPT ![t] = label], op' = [op EXCEPT ![t] = o],
           cur' = [cur EXCEPT ![t] = c]
    PROVE  Moves(t, label, o, c)
  BY DEF TypeOK, Moves

LEMMA GoesTo ==
    ASSUME TypeOK, NEW t \in Threads, NEW label \in Sections, Goto(t, label), UNCHANGED <<op, cur>>
    PROVE  Moves(t, label, op[t], cur[t])
  BY DEF TypeOK, Moves, Goto

LEMMA Returns ==
    ASSUME TypeOK, NEW t \in Threads, NEW code \in Codes, Return(t, code)
    PROVE  Moves(t, "idle", NoOp, NoNode) /\ ret' \in [Threads -> Codes]
<1>1. ret' \in [Threads -> Codes]
  BY DEF Return, TypeOK, Codes
<1> QED  BY <1>1, MovesTo, NoOpTyped DEF Return, Sections

\* A quiet step leaves every node in its place.
LEMMA QuietCells ==
    ASSUME IInv, Quiet, NEW t \in Threads,
           \A s \in Threads \ {t} : pc'[s] = pc[s] /\ op'[s] = op[s] /\ cur'[s] = cur[s],
           pc[t] # "insert", pc'[t] # "insert", LookedUp(t)'
    PROVE  CellsOK'
<1>1. \A n \in Nodes : Live(n)' = Live(n)
  BY DEF Quiet, Live
<1>2. \A s \in Threads : LookedUp(s)'
  BY <1>1 DEF IInv, CellsOK, LookedUp, Quiet, AtSection
<1>3. \A s \in Threads : Condemned(s)'
  BY <1>1 DEF IInv, CellsOK, Condemned, Quiet, TypeOK
<1>4. \A s \in Threads : Made(s)'
  BY DEF IInv, CellsOK, Made, Quiet, AtSection
<1>5. AllOwned'
  BY <1>1 DEF IInv, CellsOK, AllOwned, Quiet
<1>6. \A i \in Ids : InTable(i)'
  BY DEF IInv, CellsOK, InTable, Quiet, TypeOK
<1> QED  BY <1>1, <1>2, <1>3, <1>4, <1>5, <1>6 DEF IInv, CellsOK, Quiet

\* A quiet step in which t gains no id keeps everybody else's.
LEMMA QuietOwners ==
    ASSUME IInv, Ownership, Quiet, ~broken', NEW t \in Threads,
           \A s \in Threads \ {t} :
              pc'[s] = pc[s] /\ op'[s] = op[s] /\ cur'[s] = cur[s] /\ known'[s] = known[s],
           \A i \in Ids : Owns(t, i)' => Owns(t, i),
           Claims(t)'
    PROVE  Ownership'
<1>1. \A s \in Threads \ {t}, i \in Ids : Owns(s, i)' = Owns(s, i)
  BY DEF Owns, Launching, Destroying
<1>2. SoleOwner'
  BY <1>1 DEF Ownership, SoleOwner
<1>3. UniqueIds'
  BY DEF Ownership, UniqueIds, Quiet, Live
<1>4. \A s \in Threads \ {t} : Claims(s)'
  BY DEF Ownership, Claims, Launching, Destroying, Quiet
<1> QED  BY <1>2, <1>3, <1>4 DEF Ownership

\* A call that ends owns no more than it has been told.
LEMMA ReturnedOwner ==
    ASSUME IInv, Ownership, NEW t \in Threads, Moves(t, "idle", NoOp, NoNode), UNCHANGED table,
           known'[t] = known[t]
    PROVE  Claims(t)' /\ \A i \in Ids : Owns(t, i)' => Owns(t, i)
  BY DEF Ownership, Claims, Launching, Destroying, Moves, NoOp, Owns


\* Changing the entry of an id that t owns takes nothing from the others.
LEMMA OthersClaim ==
    ASSUME IInv, Ownership, NEW t \in Threads, NEW i \in Ids, Owns(t, i),
           \A j \in Ids \ {i} : table'[j] = table[j],
           NEW s \in Threads \ {t},
           pc'[s] = pc[s], op'[s] = op[s], cur'[s] = cur[s], known'[s] = known[s]
    PROVE  Claims(s)'
<1>1. /\ Claims(s) /\ \A j \in Ids : Owns(s, j) => table'[j] = table[j]
      /\ known[s] \subseteq Ids
  BY DEF IInv, Ownership, SoleOwner, TypeOK
<1>2. \A j \in known[s] : table'[j] # NoNode
  BY <1>1 DEF Claims, Owns
<1>3. Launching(s) /\ pc[s] # "insert" => table'[op[s].id] = table[op[s].id]
  <2>1. Launching(s) => op[s].id \in Ids
    BY DEF IInv, TypeOK, Sections, AtSection, Launching, Users
  <2> QED  BY <1>1, <2>1 DEF Owns
<1>4. Destroying(s) => table'[op[s].id] = table[op[s].id]
  BY <1>1 DEF Owns, Destroying, IInv, AtSection
<1>5. pc[s] \in {"lock", "set"} => table'[op[s].id] = table[op[s].id]
  BY <1>1 DEF Claims, Owns, IInv, AtSection
<1> QED  BY <1>1, <1>2, <1>3, <1>4, <1>5 DEF Claims, Launching, Destroying
-----------------------------------------------------------------------------
(* The operations on a node that is in the table. *)

\* The lookup, under the table lock.
LEMMA LookupStep ==
    ASSUME IInv, NEW t \in Threads, Lookup(t), UNCHANGED mode
    PROVE  IInv'
<1> DEFINE n == table[op[t].id]
           label == IF n = NoNode THEN "idle"
                    ELSE IF op[t].kind = "destroy" THEN "remove" ELSE "lock"
<1>1. /\ TypeOK /\ pc[t] = "lookup" /\ op[t].id \in Ids /\ n \in Nodes \cup {NoNode}
      /\ op[t].kind \in Users \cup {"destroy"} /\ op[t] \in Operations
  BY DEF IInv, Lookup, AtSection, TypeOK
<1>2. UNCHANGED <<up, table, tlock, heap, victims, known, now, calls, broken, mode>>
  BY DEF Lookup
<1>3. /\ Moves(t, label, IF n = NoNode THEN NoOp ELSE op[t], n)
      /\ ret' \in [Threads -> Codes]
  <2>1. CASE n = NoNode
    BY <1>1, <2>1, Returns DEF Lookup, Codes
  <2>2. CASE n # NoNode
    BY <1>1, <2>2, MovesTo DEF Lookup, Goto, Sections, TypeOK, Codes
  <2> QED  BY <2>1, <2>2
<1>4. TypeOK' /\ Quiet
  BY <1>1, <1>2, <1>3 DEF TypeOK, Moves, Quiet, Codes, Ids
<1>5. \A s \in Threads : AtSection(s)'
  BY <1>1, <1>2, <1>3 DEF IInv, AtSection, Moves, NoOp, CellsOK, InTable
<1>6. LocksOK'
  <2>1. \A s \in Threads : Locked(s)' /\ Alone(s)'
    BY <1>1, <1>2, <1>3 DEF IInv, LocksOK, Locked, Alone, Moves, NoOp, Live, Users
  <2>2. \A m \in Nodes : NodeLocked(m)'
    BY <1>1, <1>2, <1>3 DEF IInv, LocksOK, NodeLocked, Moves, TypeOK, Cells
  <2> QED  BY <2>1, <2>2 DEF LocksOK
<1>7. CellsOK'
  <2>1. LookedUp(t)'
    BY <1>1, <1>2, <1>3 DEF IInv, CellsOK, InTable, LookedUp, Moves
  <2> QED  BY <1>1, <1>3, <1>4, <2>1, QuietCells DEF Moves
<1>8. ASSUME Careful PROVE Ownership'
  <2>1. Claims(t)' /\ \A i \in Ids : Owns(t, i)' => Owns(t, i)
    BY <1>1, <1>2, <1>3, <1>8 DEF IInv, Ownership, Claims, Owns, Launching, Destroying, Moves, NoOp, Users
  <2> QED  BY <1>2, <1>3, <1>4, <1>8, <2>1, QuietOwners DEF IInv, Ownership, Moves
<1> QED  BY <1>2, <1>4, <1>5, <1>6, <1>7, <1>8 DEF IInv, Careful

\* Changing or reading the state of a pipeline.
LEMMA SetStateStep ==
    ASSUME IInv, NEW t \in Threads, SetState(t), UNCHANGED mode
    PROVE  IInv'
<1> DEFINE n == cur[t]
<1>1. /\ TypeOK /\ pc[t] = "set" /\ op[t].kind \in Users /\ n \in Nodes /\ op[t].id \in Ids
      /\ heap[n] \in Cells
  BY DEF IInv, SetState, AtSection, TypeOK
<1>2. UNCHANGED <<up, table, tlock, victims, known, now, calls, broken, mode>>
  BY DEF SetState
<1>3. PICK st \in GstStates, code \in Codes :
         heap' = [heap EXCEPT ![n].state = st, ![n].lock = NoThread] /\ Return(t, code)
  <2>1. Target(op[t].kind) \in GstStates /\ heap[n].state \in GstStates
    BY <1>1 DEF Target, GstStates, Cells
  <2> QED  BY <2>1 DEF SetState, Codes
<1>4. Moves(t, "idle", NoOp, NoNode) /\ ret' \in [Threads -> Codes]
  BY <1>1, <1>3, Returns
<1>5. Quiet /\ LockSet(n, NoThread)
  BY <1>1, <1>2, <1>3 DEF Quiet, LockSet, TypeOK, Cells
<1>6. TypeOK'
  BY <1>1, <1>2, <1>4, <1>5 DEF TypeOK, Moves, Quiet, Codes, Ids
<1>7. \A s \in Threads : AtSection(s)'
  BY <1>4, <1>5 DEF IInv, AtSection, Moves, NoOp, Quiet
<1>8. LocksOK'
  <2>1. \A s \in Threads : Locked(s)' /\ Alone(s)'
    BY <1>1, <1>2, <1>4, <1>5 DEF IInv, LocksOK, Locked, Alone, Moves, NoOp, Quiet, LockSet, Live, AtSection
  <2>2. \A m \in Nodes : NodeLocked(m)'
    BY <1>1, <1>2, <1>4, <1>5 DEF IInv, LocksOK, NodeLocked, Moves, NoOp, LockSet, TypeOK, Cells
  <2> QED  BY <2>1, <2>2 DEF LocksOK
<1>9. CellsOK'
  BY <1>1, <1>4, <1>5, QuietCells DEF Moves, LookedUp
<1>10. ASSUME Careful PROVE Ownership'
  BY <1>1, <1>2, <1>4, <1>5, <1>10, QuietOwners, ReturnedOwner DEF IInv, Ownership, Moves
<1> QED  BY <1>2, <1>6, <1>7, <1>8, <1>9, <1>10 DEF IInv, Careful


\* g_mutex_lock of the node the call has looked up.
LEMMA LockNodeStep ==
    ASSUME IInv, NEW t \in Threads, LockNode(t), UNCHANGED mode
    PROVE  IInv'
<1> DEFINE n == cur[t]
<1>1. /\ TypeOK /\ pc[t] = "lock" /\ op[t].kind \in Users /\ n \in Nodes /\ op[t].id \in Ids
      /\ heap[n] \in Cells /\ op[t] \in Operations
  BY DEF IInv, LockNode, AtSection, TypeOK
<1>2. CASE ~Live(n)
  <2>1. UNCHANGED <<up, table, tlock, heap, pc, op, cur, victims, ret, known, now, calls, mode>>
        /\ broken' = TRUE
    BY <1>2 DEF LockNode, UseAfterFree
  <2>2. TypeOK' /\ (\A s \in Threads : AtSection(s)') /\ LocksOK' /\ CellsOK'
    BY <2>1 DEF IInv, TypeOK, AtSection, LocksOK, Locked, NodeLocked, Alone, Live, CellsOK, InTable,
                Condemned, Made, LookedUp, AllOwned
  <2>3. ~Careful
    BY <1>1, <1>2 DEF IInv, Ownership, Claims, CellsOK, InTable, Live
  <2> QED  BY <2>1, <2>2, <2>3 DEF IInv, Careful
<1>3. CASE Live(n)
  <2>2. /\ UNCHANGED <<up, table, tlock, op, cur, victims, ret, known, now, calls, broken, mode>>
        /\ heap' = [heap EXCEPT ![n].lock = t] /\ heap[n].lock = NoThread /\ Goto(t, "set")
    BY <1>3 DEF LockNode
  <2>3. Moves(t, "set", op[t], n)
    BY <1>1, <2>2, GoesTo DEF Sections
  <2>4. Quiet /\ LockSet(n, t)
    BY <1>1, <2>2 DEF Quiet, LockSet, TypeOK, Cells
  <2>5. TypeOK'
    BY <1>1, <2>2, <2>3, <2>4 DEF TypeOK, Moves, Quiet, Ids
  <2>6. \A s \in Threads : AtSection(s)'
    BY <1>1, <1>3, <2>3, <2>4 DEF IInv, AtSection, Moves, Quiet, Users
  <2>7. LocksOK'
    <3>1. \A s \in Threads : Alone(s)'
      BY <1>1, <2>2, <2>3 DEF IInv, LocksOK, Alone, Moves, AtSection, Users
    <3>3. Locked(t)'
      BY <1>1, <1>3, <2>2, <2>3, <2>4 DEF IInv, LocksOK, Locked, Moves, Quiet, LockSet, Live
    <3>4. ASSUME NEW s \in Threads \ {t} PROVE Locked(s)'
      <4>1. pc[s] = "set" => cur[s] # n
        BY <2>2, NodeNulls DEF IInv, LocksOK, Locked
      <4> QED  BY <2>2, <2>3, <2>4, <4>1 DEF IInv, LocksOK, Locked, Moves, Quiet, LockSet, Live, AtSection
    <3>2. \A m \in Nodes : NodeLocked(m)'
      BY <1>1, <2>2, <2>3, <2>4, NodeNulls DEF IInv, LocksOK, NodeLocked, Moves, LockSet, TypeOK, Cells
    <3> QED  BY <3>1, <3>2, <3>3, <3>4 DEF LocksOK
  <2>8. CellsOK'
    <3>1. LookedUp(t)'
      BY <1>1, <1>3, <2>3, <2>4 DEF IInv, CellsOK, LookedUp, Moves, Quiet
    <3> QED  BY <1>1, <2>3, <2>4, <3>1, QuietCells DEF Moves
  <2>9. ASSUME Careful PROVE Ownership'
    <3>1. Claims(t)' /\ \A i \in Ids : Owns(t, i)' => Owns(t, i)
      BY <1>1, <2>2, <2>3, <2>9 DEF IInv, Ownership, Claims, Owns, Launching, Destroying, Moves, Users
    <3> QED  BY <2>2, <2>3, <2>4, <2>9, <3>1, QuietOwners DEF IInv, Ownership, Moves
  <2> QED  BY <2>2, <2>5, <2>6, <2>7, <2>8, <2>9 DEF IInv, Careful
<1> QED  BY <1>2, <1>3

-----------------------------------------------------------------------------
(* mlops_node_create. *)

\* A launch that fails, and the end of any call that changed no node.
LEMMA ParseStep ==
    ASSUME IInv, NEW t \in Threads, Parse(t), UNCHANGED mode
    PROVE  IInv'
<1>1. /\ TypeOK /\ pc[t] = "parse" /\ op[t].kind = "launch" /\ op[t] \in Operations
      /\ UNCHANGED <<up, table, tlock, victims, known, now, calls, broken, mode>>
  BY DEF IInv, Parse, AtSection, TypeOK
<1>2. ASSUME NEW code \in {"EINVAL", "ESTRPIPE"}, Return(t, code), UNCHANGED heap
      PROVE  IInv'
  <2>1. Moves(t, "idle", NoOp, NoNode) /\ ret' \in [Threads -> Codes]
    BY <1>1, <1>2, Returns DEF Codes
  <2>2. TypeOK' /\ Quiet
    BY <1>1, <1>2, <2>1 DEF TypeOK, Moves, Quiet, Codes, Ids
  <2>3. \A s \in Threads : AtSection(s)'
    BY <1>2, <2>1 DEF IInv, AtSection, Moves, NoOp
  <2>4. LocksOK'
    <3>1. \A s \in Threads : Locked(s)' /\ Alone(s)'
      BY <1>1, <1>2, <2>1 DEF IInv, LocksOK, Locked, Alone, Moves, NoOp, Live
    <3>2. \A m \in Nodes : NodeLocked(m)'
      BY <1>1, <1>2, <2>1 DEF IInv, LocksOK, NodeLocked, Moves, TypeOK, Cells
    <3> QED  BY <3>1, <3>2 DEF LocksOK
  <2>5. CellsOK'
    BY <1>1, <2>1, <2>2, QuietCells DEF Moves, LookedUp
  <2>6. ASSUME Careful PROVE Ownership'
    BY <1>1, <2>1, <2>2, <2>6, QuietOwners, ReturnedOwner DEF IInv, Ownership, Moves
  <2> QED  BY <1>1, <2>2, <2>3, <2>4, <2>5, <2>6 DEF IInv, Careful
<1>3. ASSUME NEW n \in Nodes,
             heap[n].use = "unused",
             mode.distinct => \A m \in Nodes : heap[m].id # now,
             heap' = [heap EXCEPT ![n] =
                [use |-> "live", id |-> now, state |-> "PAUSED", lock |-> NoThread]],
             cur' = [cur EXCEPT ![t] = n], op' = [op EXCEPT ![t].id = now],
             Goto(t, "insert"), UNCHANGED ret
      PROVE  IInv'
  <2> DEFINE o == [kind |-> "launch", id |-> now]
  <2>1. o \in Operations /\ now \in Ids
    BY <1>1 DEF TypeOK, Operations, Ids
  <2>2. Moves(t, "insert", o, n)
    <3>1. op' = [op EXCEPT ![t] = o]
      <4>1. [op[t] EXCEPT !.id = now] = o
        BY <1>1 DEF Operations
      <4> QED  BY <1>3, <4>1
    <3> QED  BY <1>1, <1>3, <2>1, <3>1, MovesTo DEF Goto, Sections
  <2>3. /\ heap' \in [Nodes -> Cells]
        /\ heap'[n] = [use |-> "live", id |-> now, state |-> "PAUSED", lock |-> NoThread]
        /\ \A m \in Nodes \ {n} : heap'[m] = heap[m]
    BY <1>1, <1>3 DEF TypeOK, Cells, GstStates, Ids
  <2>4. TypeOK'
    BY <1>1, <1>3, <2>2, <2>3 DEF TypeOK, Moves, Ids
  <2>5. /\ \A s \in Threads : n \notin victims[s]
        /\ \A s \in Threads : pc[s] \in {"lock", "set", "insert"} => cur[s] # n
        /\ \A i \in Ids : table[i] # n
    <3>1. \A s \in Threads : n \notin victims[s]
      BY <1>3 DEF IInv, CellsOK, Condemned, Live
    <3>2. \A s \in Threads : pc[s] \in {"lock", "set", "insert"} => cur[s] # n
      BY <1>3 DEF IInv, AtSection, CellsOK, Made
    <3>3. \A i \in Ids : table[i] # n
      BY <1>1, <1>3, NodeNulls DEF IInv, CellsOK, InTable
    <3> QED  BY <3>1, <3>2, <3>3
  <2>6. \A s \in Threads : AtSection(s)'
    BY <1>1, <2>1, <2>2, <2>3, <2>5 DEF IInv, AtSection, Moves
  <2>7. LocksOK'
    <3>1. \A s \in Threads : Locked(s)' /\ Alone(s)'
      BY <1>1, <2>2, <2>3, <2>5 DEF IInv, LocksOK, Locked, Alone, Moves, Live, AtSection
    <3>2. \A m \in Nodes : NodeLocked(m)'
      BY <1>1, <2>2, <2>3 DEF IInv, LocksOK, NodeLocked, Moves, TypeOK, Cells
    <3> QED  BY <3>1, <3>2 DEF LocksOK
  <2>8. CellsOK'
    <3>1. \A m \in Nodes : Live(m)' => heap'[m].id \in Ids
      BY <2>1, <2>3 DEF IInv, CellsOK, Live
    <3>2. \A i \in Ids : InTable(i)'
      BY <1>1, <2>3, <2>5 DEF IInv, CellsOK, InTable, TypeOK
    <3>3. \A s \in Threads : Condemned(s)'
      BY <1>1, <2>3, <2>5 DEF IInv, CellsOK, Condemned, Live, TypeOK
    <3>4. \A s \in Threads : Made(s)'
      BY <1>1, <2>1, <2>2, <2>3, <2>5 DEF IInv, CellsOK, Made, Moves, AtSection
    <3>5. \A s \in Threads : LookedUp(s)'
      BY <1>1, <2>2, <2>3, <2>5 DEF IInv, CellsOK, LookedUp, Moves, AtSection, Live
    <3>6. AllOwned'
      BY <1>1, <2>2, <2>3, <2>5 DEF IInv, CellsOK, AllOwned, Moves, Live
    <3> QED  BY <3>1, <3>2, <3>3, <3>4, <3>5, <3>6 DEF CellsOK
  <2>9. ASSUME Careful PROVE Ownership'
    <3>1. /\ ~broken /\ UniqueIds /\ SoleOwner /\ \A s \in Threads : Claims(s)
          /\ \A m \in Nodes : heap[m].id # now
      BY <1>3, <2>9 DEF IInv, Ownership, Careful
    <3>2. \A s \in Threads : ~Owns(s, now)
      <4>1. table[now] = NoNode
        BY <1>1, <2>1, <3>1 DEF IInv, CellsOK, InTable, TypeOK
      <4>2. ASSUME NEW s \in Threads, Launching(s) PROVE op[s].id # now
        <5>1. CASE pc[s] = "insert"
          BY <3>1, <5>1 DEF IInv, CellsOK, Made, AtSection
        <5>2. CASE pc[s] # "insert"
          BY <3>1, <4>1, <4>2, <5>2, NodeNulls DEF Claims
        <5> QED  BY <5>1, <5>2
      <4>3. \A s \in Threads : now \notin known[s] /\ (Destroying(s) => op[s].id # now)
        BY <3>1, <4>1 DEF Claims
      <4> QED  BY <4>2, <4>3 DEF Owns
    <3>3. UniqueIds'
      BY <2>3, <3>1 DEF UniqueIds, Live
    <3>4. /\ \A s \in Threads \ {t}, i \in Ids : Owns(s, i)' = Owns(s, i)
          /\ \A i \in Ids : Owns(t, i)' => Owns(t, i) \/ i = now
      BY <1>1, <2>2 DEF Moves, Owns, Launching, Destroying
    <3>5. SoleOwner'
      BY <3>1, <3>2, <3>4 DEF SoleOwner
    <3>6. \A s \in Threads : Claims(s)'
      BY <1>1, <2>2, <3>1, <3>2 DEF Moves, Claims, Launching, Destroying, Owns, Users
    <3> QED  BY <1>1, <3>1, <3>3, <3>5, <3>6 DEF Ownership
  <2> QED  BY <1>1, <2>4, <2>6, <2>7, <2>8, <2>9 DEF IInv, Careful
<1> QED  BY <1>2, <1>3 DEF Parse, Stamp

\* The new entry; a node it replaces becomes the thread's to free.
LEMMA InsertStep ==
    ASSUME IInv, NEW t \in Threads, Insert(t), UNCHANGED mode
    PROVE  IInv'
<1> DEFINE n == cur[t]
           i == op[t].id
<1>1. /\ TypeOK /\ pc[t] = "insert" /\ op[t].kind = "launch" /\ i \in Ids /\ n \in Nodes
      /\ op[t] \in Operations /\ tlock = NoThread /\ tlock' = t
      /\ UNCHANGED <<up, heap, op, cur, ret, known, now, calls, broken, mode>>
  BY DEF IInv, Insert, TakeTable, AtSection, TypeOK
<1>2. Moves(t, "free", op[t], n)
  BY <1>1, GoesTo DEF Insert, Sections
<1>3. /\ table' \in [Ids -> Nodes \cup {NoNode}] /\ table'[i] = n
      /\ \A j \in Ids \ {i} : table'[j] = table[j]
      /\ victims' \in [Threads -> SUBSET Nodes] /\ victims'[t] = {table[i]} \ {NoNode}
      /\ \A s \in Threads \ {t} : victims'[s] = {}
  BY <1>1, NodeNulls DEF Insert, TypeOK, IInv, LocksOK, Locked
<1>4. TypeOK'
  BY <1>1, <1>2, <1>3 DEF TypeOK, Moves, Ids
<1>5. \A s \in Threads : AtSection(s)'
  BY <1>1, <1>2 DEF IInv, AtSection, Moves
<1>6. LocksOK'
  <2>1. \A s \in Threads : Locked(s)'
    BY <1>1, <1>2, <1>3, NodeNulls DEF IInv, LocksOK, Locked, Moves, Live
  <2>2. \A s \in Threads : Alone(s)'
    BY <1>1, <1>2 DEF IInv, LocksOK, Alone, Moves
  <2>3. \A m \in Nodes : NodeLocked(m)'
    BY <1>1, <1>2 DEF IInv, LocksOK, NodeLocked, Moves, TypeOK, Cells
  <2> QED  BY <2>1, <2>2, <2>3 DEF LocksOK
<1>7. CellsOK'
  <2>1. \A m \in Nodes : Live(m)' => heap'[m].id \in Ids
    BY <1>1 DEF IInv, CellsOK, Live
  <2>2. \A j \in Ids : InTable(j)'
    BY <1>1, <1>3 DEF IInv, CellsOK, InTable, Made
  <2>3. \A s \in Threads : Condemned(s)'
    BY <1>1, <1>3 DEF IInv, CellsOK, Condemned, Made, InTable, Live
  <2>4. \A s \in Threads : Made(s)'
    BY <1>1, <1>2, <1>3 DEF IInv, CellsOK, Made, InTable, Moves, AtSection
  <2>5. \A s \in Threads : LookedUp(s)'
    BY <1>1, <1>2 DEF IInv, CellsOK, LookedUp, Moves, Live
  <2>6. AllOwned'
    BY <1>1, <1>2, <1>3, NodeNulls DEF IInv, CellsOK, AllOwned, Made, Moves, Live, LocksOK, Locked
  <2> QED  BY <2>1, <2>2, <2>3, <2>4, <2>5, <2>6 DEF CellsOK
<1>8. ASSUME Careful PROVE Ownership'
  <2>1. /\ ~broken /\ UniqueIds /\ SoleOwner /\ \A s \in Threads : Claims(s)
    BY <1>8 DEF IInv, Ownership
  <2>2. \A s \in Threads, j \in Ids : Owns(s, j)' = Owns(s, j)
    BY <1>1, <1>2 DEF Moves, Owns, Launching, Destroying
  <2>3. SoleOwner' /\ UniqueIds'
    BY <1>1, <2>1, <2>2 DEF SoleOwner, UniqueIds, Live
  <2>4. \A s \in Threads \ {t} : ~Owns(s, i)
    BY <1>1, <2>1 DEF SoleOwner, Owns, Launching
  <2>5. Claims(t)'
    BY <1>1, <1>2, <1>3, <2>1, NodeNulls DEF Moves, Claims, Launching, Destroying, TypeOK
  <2>6. ASSUME NEW s \in Threads \ {t} PROVE Claims(s)'
    <3>1. Owns(t, i)
      BY <1>1 DEF Owns, Launching
    <3> QED  BY <1>1, <1>2, <1>3, <1>8, <3>1, OthersClaim DEF Moves, IInv
  <2> QED  BY <1>1, <2>1, <2>3, <2>5, <2>6 DEF Ownership
<1> QED  BY <1>1, <1>4, <1>5, <1>6, <1>7, <1>8 DEF IInv, Careful

\* The id the caller is given, read outside the lock.
LEMMA ReadIdStep ==
    ASSUME IInv, NEW t \in Threads, ReadId(t), UNCHANGED mode
    PROVE  IInv'
<1> DEFINE n == cur[t]
<1>1. /\ TypeOK /\ pc[t] = "readid" /\ op[t].kind = "launch" /\ n \in Nodes /\ op[t].id \in Ids
  BY DEF IInv, ReadId, AtSection, TypeOK
<1>2. CASE ~Live(n)
  <2>1. UNCHANGED <<up, table, tlock, heap, pc, op, cur, victims, ret, known, now, calls, mode>>
        /\ broken' = TRUE
    BY <1>2 DEF ReadId, UseAfterFree
  <2>2. TypeOK' /\ (\A s \in Threads : AtSection(s)') /\ LocksOK' /\ CellsOK'
    BY <2>1 DEF IInv, TypeOK, AtSection, LocksOK, Locked, NodeLocked, Alone, Live, CellsOK, InTable,
                Condemned, Made, LookedUp, AllOwned
  <2>3. ~Careful
    BY <1>1, <1>2, NodeNulls DEF IInv, Ownership, Claims, Launching, CellsOK, InTable, Live
  <2> QED  BY <2>1, <2>2, <2>3 DEF IInv, Careful
<1>3. CASE Live(n)
  <2>1. /\ UNCHANGED <<up, table, tlock, heap, victims, now, calls, broken, mode>>
        /\ known' = [known EXCEPT ![t] = @ \cup {heap[n].id}] /\ Return(t, "OK")
        /\ heap[n].id \in Ids
    BY <1>1, <1>3 DEF ReadId, IInv, CellsOK
  <2>2. Moves(t, "idle", NoOp, NoNode) /\ ret' \in [Threads -> Codes]
    BY <1>1, <2>1, Returns DEF Codes
  <2>3. /\ known' \in [Threads -> SUBSET Ids] /\ known'[t] = known[t] \cup {heap[n].id}
        /\ \A s \in Threads \ {t} : known'[s] = known[s]
    BY <1>1, <2>1 DEF TypeOK
  <2>4. TypeOK' /\ Quiet
    BY <1>1, <2>1, <2>2, <2>3 DEF TypeOK, Moves, Quiet, Codes, Ids
  <2>5. \A s \in Threads : AtSection(s)'
    BY <2>1, <2>2 DEF IInv, AtSection, Moves, NoOp
  <2>6. LocksOK'
    <3>1. \A s \in Threads : Locked(s)'
      BY <1>1, <2>1, <2>2 DEF IInv, LocksOK, Locked, Moves, Live
    <3>2. \A s \in Threads : Alone(s)'
      BY <1>1, <2>2, <2>3 DEF IInv, LocksOK, Alone, Moves, NoOp, AtSection
    <3>3. \A m \in Nodes : NodeLocked(m)'
      BY <1>1, <2>1, <2>2 DEF IInv, LocksOK, NodeLocked, Moves, TypeOK, Cells
    <3> QED  BY <3>1, <3>2, <3>3 DEF LocksOK
  <2>7. CellsOK'
    BY <1>1, <2>2, <2>4, QuietCells DEF Moves, LookedUp
  <2>8. ASSUME Careful PROVE Ownership'
    <3>1. Ownership /\ table[op[t].id] = n /\ heap[n].id = op[t].id
      BY <1>1, <2>8, NodeNulls DEF IInv, Ownership, Claims, Launching, CellsOK, InTable
    <3>2. Claims(t)' /\ \A j \in Ids : Owns(t, j)' => Owns(t, j)
      BY <1>1, <2>1, <2>2, <2>3, <3>1, NodeNulls
         DEF Ownership, Claims, Owns, Launching, Destroying, Moves, NoOp
    <3> QED  BY <2>1, <2>2, <2>3, <2>4, <3>1, <3>2, QuietOwners DEF Ownership, Moves
  <2> QED  BY <2>1, <2>4, <2>5, <2>6, <2>7, <2>8 DEF IInv, Careful
<1> QED  BY <1>2, <1>3

-----------------------------------------------------------------------------
(* Removing and freeing. *)

\* The entry goes and its node becomes the thread's to free.
LEMMA RemoveStep ==
    ASSUME IInv, NEW t \in Threads, Remove(t), UNCHANGED mode
    PROVE  IInv'
<1> DEFINE i == op[t].id
<1>1. /\ TypeOK /\ pc[t] = "remove" /\ op[t].kind = "destroy" /\ i \in Ids
      /\ op[t] \in Operations /\ tlock = NoThread /\ tlock' = t
      /\ UNCHANGED <<up, heap, op, cur, ret, known, now, calls, broken, mode>>
  BY DEF IInv, Remove, TakeTable, AtSection, TypeOK
<1>2. Moves(t, "free", op[t], cur[t])
  BY <1>1, GoesTo DEF Remove, Sections
<1>3. /\ table' \in [Ids -> Nodes \cup {NoNode}] /\ table'[i] = NoNode
      /\ \A j \in Ids \ {i} : table'[j] = table[j]
      /\ victims' \in [Threads -> SUBSET Nodes] /\ victims'[t] = {table[i]} \ {NoNode}
      /\ \A s \in Threads \ {t} : victims'[s] = {}
  BY <1>1, NodeNulls DEF Remove, TypeOK, IInv, LocksOK, Locked
<1>4. TypeOK'
  BY <1>1, <1>2, <1>3 DEF TypeOK, Moves, Ids
<1>5. \A s \in Threads : AtSection(s)'
  BY <1>1, <1>2 DEF IInv, AtSection, Moves
<1>6. LocksOK'
  <2>1. \A s \in Threads : Locked(s)'
    BY <1>1, <1>2, <1>3, NodeNulls DEF IInv, LocksOK, Locked, Moves, Live
  <2>2. \A s \in Threads : Alone(s)'
    BY <1>1, <1>2 DEF IInv, LocksOK, Alone, Moves
  <2>3. \A m \in Nodes : NodeLocked(m)'
    BY <1>1, <1>2 DEF IInv, LocksOK, NodeLocked, Moves, TypeOK, Cells
  <2> QED  BY <2>1, <2>2, <2>3 DEF LocksOK
<1>7. CellsOK'
  <2>1. \A m \in Nodes : Live(m)' => heap'[m].id \in Ids
    BY <1>1 DEF IInv, CellsOK, Live
  <2>2. \A j \in Ids : InTable(j)'
    BY <1>1, <1>3 DEF IInv, CellsOK, InTable
  <2>3. \A s \in Threads : Condemned(s)'
    BY <1>1, <1>3 DEF IInv, CellsOK, Condemned, InTable, Live
  <2>4. \A s \in Threads : Made(s)'
    BY <1>1, <1>2, <1>3, NodeNulls DEF IInv, CellsOK, Made, InTable, Moves, AtSection
  <2>5. \A s \in Threads : LookedUp(s)'
    BY <1>1, <1>2 DEF IInv, CellsOK, LookedUp, Moves, Live
  <2>6. AllOwned'
    BY <1>1, <1>2, <1>3, NodeNulls DEF IInv, CellsOK, AllOwned, Moves, Live, LocksOK, Locked
  <2> QED  BY <2>1, <2>2, <2>3, <2>4, <2>5, <2>6 DEF CellsOK
<1>8. ASSUME Careful PROVE Ownership'
  <2>1. Ownership /\ Owns(t, i)
    BY <1>1, <1>8 DEF IInv, Owns, Destroying
  <2>2. \A s \in Threads, j \in Ids : Owns(s, j)' => Owns(s, j)
    BY <1>1, <1>2 DEF Moves, Owns, Launching, Destroying
  <2>3. SoleOwner' /\ UniqueIds'
    BY <1>1, <2>1, <2>2 DEF Ownership, SoleOwner, UniqueIds, Live
  <2>4. Claims(t)'
    BY <1>1, <1>2, <1>3, <2>1 DEF Moves, Ownership, Claims, Launching, Destroying, TypeOK
  <2>5. \A s \in Threads \ {t} : Claims(s)'
    BY <1>1, <1>2, <1>3, <2>1, OthersClaim DEF Moves
  <2> QED  BY <1>1, <2>1, <2>3, <2>4, <2>5 DEF Ownership
<1> QED  BY <1>1, <1>4, <1>5, <1>6, <1>7, <1>8 DEF IInv, Careful

\* The whole table goes, when nobody else is in a call.
LEMMA DestroyTableStep ==
    ASSUME IInv, NEW t \in Threads, DestroyTable(t), UNCHANGED mode
    PROVE  IInv'
<1>1. /\ TypeOK /\ pc[t] = "finalize" /\ op[t].kind = "finalize" /\ op[t] \in Operations
      /\ tlock = NoThread /\ tlock' = t /\ up' = FALSE
      /\ \A s \in Threads : known[s] = {} /\ (s # t => pc[s] = "idle" /\ op[s].kind = "none")
      /\ UNCHANGED <<heap, op, cur, ret, known, now, calls, broken, mode>>
  BY DEF IInv, DestroyTable, TakeTable, AtSection, TypeOK, LocksOK, Alone
<1>2. Moves(t, "free", op[t], cur[t])
  BY <1>1, GoesTo DEF DestroyTable, Sections
<1>3. /\ table' \in [Ids -> Nodes \cup {NoNode}] /\ \A j \in Ids : table'[j] = NoNode
      /\ victims' \in [Threads -> SUBSET Nodes]
      /\ victims'[t] = {table[j] : j \in Ids} \ {NoNode}
      /\ \A s \in Threads \ {t} : victims'[s] = {}
  BY <1>1, NodeNulls DEF DestroyTable, TypeOK, IInv, LocksOK, Locked
<1>4. TypeOK'
  BY <1>1, <1>2, <1>3 DEF TypeOK, Moves, Ids
<1>5. \A s \in Threads : AtSection(s)'
  BY <1>1, <1>2 DEF IInv, AtSection, Moves
<1>6. LocksOK'
  <2>1. \A s \in Threads : Locked(s)'
    BY <1>1, <1>2, <1>3, NodeNulls DEF IInv, LocksOK, Locked, Moves, Live
  <2>2. \A s \in Threads : Alone(s)'
    BY <1>1, <1>2 DEF IInv, LocksOK, Alone, Moves
  <2>3. \A m \in Nodes : NodeLocked(m)'
    BY <1>1, <1>2 DEF IInv, LocksOK, NodeLocked, Moves, TypeOK, Cells
  <2> QED  BY <2>1, <2>2, <2>3 DEF LocksOK
<1>7. CellsOK'
  <2>1. \A m \in Nodes : Live(m)' => heap'[m].id \in Ids /\ table'[heap'[m].id] = NoNode
    BY <1>1, <1>3 DEF IInv, CellsOK, Live
  <2>2. \A s \in Threads : Condemned(s)'
    BY <1>1, <1>3, <2>1, NodeNulls DEF IInv, CellsOK, Condemned, InTable, Live
  <2>3. \A s \in Threads : Made(s)' /\ LookedUp(s)'
    BY <1>1, <1>2 DEF Made, LookedUp, Moves
  <2>4. AllOwned'
    BY <1>1, <1>2, <1>3, NodeNulls DEF IInv, CellsOK, AllOwned, Moves, Live, LocksOK, Locked
  <2> QED  BY <1>3, <2>1, <2>2, <2>3, <2>4 DEF CellsOK, InTable
<1>8. ASSUME Careful PROVE Ownership'
  <2>1. \A s \in Threads : ~Launching(s)' /\ ~Destroying(s)' /\ known'[s] = {}
    BY <1>1, <1>2 DEF Moves, Launching, Destroying
  <2>2. SoleOwner' /\ \A s \in Threads : Claims(s)'
    BY <1>1, <1>2, <2>1 DEF SoleOwner, Owns, Claims, Moves
  <2> QED  BY <1>1, <1>8, <2>2 DEF IInv, Ownership, UniqueIds, Live
<1> QED  BY <1>1, <1>4, <1>5, <1>6, <1>7, <1>8 DEF IInv, Careful

\* Stopping a victim, and the end of freeing.
LEMMA FreeStep ==
    ASSUME IInv, NEW t \in Threads, Free(t), UNCHANGED mode
    PROVE  IInv'
<1>1. /\ TypeOK /\ pc[t] = "free" /\ op[t].kind \in {"launch", "destroy", "finalize"}
      /\ op[t] \in Operations
      /\ UNCHANGED <<up, table, victims, known, now, calls, mode>>
  BY DEF IInv, Free, AtSection, TypeOK
<1>2. ASSUME NEW n \in victims[t], heap[n].lock = NoThread,
             heap' = [heap EXCEPT ![n].state = "NULL", ![n].use = "stopped"],
             broken' = ~Live(n), Goto(t, "unref"), UNCHANGED <<tlock, op, cur, ret>>
      PROVE  IInv'
  <2>1. /\ n \in Nodes /\ Live(n) /\ \A i \in Ids : table[i] # n
        /\ \A s \in Threads : pc[s] = "insert" => cur[s] # n
    BY <1>1, NodeNulls DEF IInv, CellsOK, InTable, Condemned, Made, TypeOK
  <2>9. broken' = FALSE
    BY <1>2, <2>1
  <2>2. Moves(t, "unref", op[t], cur[t])
    BY <1>1, <1>2, GoesTo DEF Sections
  <2>3. /\ heap' \in [Nodes -> Cells] /\ heap'[n].use = "stopped"
        /\ \A m \in Nodes : heap'[m].id = heap[m].id /\ heap'[m].lock = heap[m].lock
        /\ \A m \in Nodes \ {n} : heap'[m].use = heap[m].use
        /\ \A m \in Nodes : Live(m)' = Live(m)
    <3>1. heap[n] \in Cells
      BY <1>1, <2>1 DEF TypeOK
    <3>2. /\ heap'[n] = [heap[n] EXCEPT !.state = "NULL", !.use = "stopped"]
          /\ \A m \in Nodes \ {n} : heap'[m] = heap[m]
      BY <1>1, <1>2, <2>1 DEF TypeOK
    <3>3. heap'[n] \in Cells
      BY <3>1, <3>2 DEF Cells, GstStates
    <3>4. heap' \in [Nodes -> Cells]
      BY <1>1, <1>2, <3>2, <3>3 DEF TypeOK
    <3>5. /\ heap'[n].use = "stopped" /\ heap'[n].id = heap[n].id
          /\ heap'[n].lock = heap[n].lock
      BY <3>1, <3>2 DEF Cells
    <3>6. \A m \in Nodes : Live(m)' = Live(m)
      <4>1. Live(n) /\ Live(n)'
        BY <2>1, <3>5 DEF Live
      <4>2. \A m \in Nodes \ {n} : Live(m)' = Live(m)
        BY <3>2 DEF Live
      <4> QED  BY <4>1, <4>2 DEF Live
    <3>7. \A m \in Nodes : heap'[m].id = heap[m].id /\ heap'[m].lock = heap[m].lock
      BY <3>2, <3>5
    <3>8. \A m \in Nodes \ {n} : heap'[m].use = heap[m].use
      BY <3>2
    <3> QED  BY <3>4, <3>5, <3>6, <3>7, <3>8
  <2>4. TypeOK'
    BY <1>1, <1>2, <2>2, <2>3, <2>9 DEF TypeOK, Moves, Ids
  <2>5. \A s \in Threads : AtSection(s)'
    BY <1>1, <2>2, <2>3 DEF IInv, AtSection, Moves
  <2>6. LocksOK'
    <3>1. \A s \in Threads : Locked(s)'
      BY <1>1, <1>2, <2>2, <2>3 DEF IInv, LocksOK, Locked, Moves, AtSection
    <3>2. \A s \in Threads : Alone(s)'
      BY <1>1, <2>2 DEF IInv, LocksOK, Alone, Moves
    <3>3. \A m \in Nodes : NodeLocked(m)'
      BY <1>1, <2>2, <2>3 DEF IInv, LocksOK, NodeLocked, Moves, TypeOK, Cells
    <3> QED  BY <3>1, <3>2, <3>3 DEF LocksOK
  <2>7. CellsOK'
    <3>1. \A i \in Ids : InTable(i)'
      BY <1>1, <2>1, <2>3 DEF IInv, CellsOK, InTable, TypeOK
    <3>2. \A s \in Threads : Condemned(s)'
      BY <1>1, <2>3 DEF IInv, CellsOK, Condemned, TypeOK
    <3>3. \A s \in Threads : Made(s)'
      BY <1>1, <2>1, <2>2, <2>3 DEF IInv, CellsOK, Made, Moves, AtSection
    <3>4. \A s \in Threads : LookedUp(s)'
      BY <1>1, <2>2, <2>3 DEF IInv, CellsOK, LookedUp, Moves, AtSection
    <3>5. AllOwned'
      BY <1>1, <2>2, <2>3 DEF IInv, CellsOK, AllOwned, Moves
    <3> QED  BY <2>3, <3>1, <3>2, <3>3, <3>4, <3>5 DEF IInv, CellsOK
  <2>8. ASSUME Careful PROVE Ownership'
    <3>1. Ownership /\ UniqueIds'
      BY <2>3, <2>8 DEF IInv, Ownership, UniqueIds
    <3>2. \A s \in Threads : Claims(s)' /\ \A i \in Ids : Owns(s, i)' = Owns(s, i)
      BY <1>1, <2>2, <3>1 DEF Ownership, Claims, Owns, Launching, Destroying, Moves
    <3> QED  BY <1>1, <2>9, <3>1, <3>2 DEF Ownership, SoleOwner
  <2> QED  BY <1>1, <2>4, <2>5, <2>6, <2>7, <2>8 DEF IInv, Careful
<1>3. ASSUME victims[t] = {}, tlock' = NoThread, UNCHANGED <<heap, broken>>,
             IF op[t].kind = "launch" THEN Goto(t, "readid") /\ UNCHANGED <<op, cur, ret>>
             ELSE Return(t, "OK")
      PROVE  IInv'
  <2> DEFINE end == op[t].kind = "launch"
  <2>1. /\ Moves(t, IF end THEN "readid" ELSE "idle", IF end THEN op[t] ELSE NoOp,
                 IF end THEN cur[t] ELSE NoNode)
        /\ ret' \in [Threads -> Codes]
    <3>1. CASE end
      BY <1>1, <1>3, <3>1, GoesTo DEF Sections, TypeOK, Codes
    <3>2. CASE ~end
      BY <1>1, <1>3, <3>2, Returns DEF Codes
    <3> QED  BY <3>1, <3>2
  <2>2. TypeOK' /\ Quiet
    BY <1>1, <1>3, <2>1 DEF TypeOK, Moves, Quiet, Codes, Ids
  <2>3. \A s \in Threads : AtSection(s)'
    BY <1>1, <1>3, <2>1 DEF IInv, AtSection, Moves, NoOp
  <2>4. LocksOK'
    <3>1. \A s \in Threads : Locked(s)'
      BY <1>1, <1>3, <2>1, NodeNulls DEF IInv, LocksOK, Locked, Moves, Live
    <3>2. \A s \in Threads : Alone(s)'
      BY <1>1, <2>1 DEF IInv, LocksOK, Alone, Moves, NoOp
    <3>3. \A m \in Nodes : NodeLocked(m)'
      BY <1>1, <1>3, <2>1 DEF IInv, LocksOK, NodeLocked, Moves, TypeOK, Cells
    <3> QED  BY <3>1, <3>2, <3>3 DEF LocksOK
  <2>5. CellsOK'
    BY <1>1, <2>1, <2>2, QuietCells DEF Moves, LookedUp
  <2>6. ASSUME Careful PROVE Ownership'
    <3>1. Claims(t)' /\ \A i \in Ids : Owns(t, i)' => Owns(t, i)
      BY <1>1, <2>1, <2>6 DEF IInv, Ownership, Claims, Owns, Launching, Destroying, Moves, NoOp
    <3> QED  BY <1>1, <1>3, <2>1, <2>2, <2>6, <3>1, QuietOwners DEF IInv, Ownership, Moves
  <2> QED  BY <1>1, <1>3, <2>2, <2>3, <2>4, <2>5, <2>6 DEF IInv, Careful
<1> QED  BY <1>2, <1>3 DEF Free

\* The cell itself.
LEMMA UnrefStep ==
    ASSUME IInv, NEW t \in Threads, Unref(t), UNCHANGED mode
    PROVE  IInv'
<1>1. /\ TypeOK /\ pc[t] = "unref" /\ op[t].kind \in {"launch", "destroy", "finalize"}
      /\ op[t] \in Operations
      /\ UNCHANGED <<up, table, tlock, op, cur, ret, known, now, calls, mode>>
  BY DEF IInv, Unref, AtSection, TypeOK
<1>2. PICK n \in victims[t] :
         /\ heap[n].lock = NoThread
         /\ heap' = [heap EXCEPT ![n] = Freed]
         /\ broken' = ~Live(n)
         /\ victims' = [victims EXCEPT ![t] = @ \ {n}]
  BY DEF Unref
<1>3. /\ n \in Nodes /\ Live(n) /\ \A i \in Ids : table[i] # n
      /\ \A s \in Threads : pc[s] = "insert" => cur[s] # n
      /\ \A s \in Threads : pc[s] = "set" => cur[s] # n
  BY <1>1, <1>2, NodeNulls DEF IInv, CellsOK, InTable, Condemned, Made, TypeOK, LocksOK, Locked
<1>12. broken' = FALSE
  BY <1>2, <1>3
<1>4. Moves(t, "free", op[t], cur[t])
  BY <1>1, GoesTo DEF Unref, Sections
<1>5. /\ heap' \in [Nodes -> Cells] /\ heap'[n].use = "freed" /\ heap'[n].lock = NoThread
      /\ \A m \in Nodes \ {n} : heap'[m] = heap[m]
  BY <1>1, <1>2, <1>3, NodeBounds DEF TypeOK, Cells, GstStates, Freed, Unused
<1>6. /\ victims' \in [Threads -> SUBSET Nodes] /\ victims'[t] = victims[t] \ {n}
      /\ \A s \in Threads \ {t} : victims'[s] = {} /\ victims[s] = {}
  BY <1>1, <1>2 DEF TypeOK, IInv, LocksOK, Locked
<1>7. TypeOK'
  BY <1>1, <1>4, <1>5, <1>6, <1>12 DEF TypeOK, Moves, Ids
<1>8. \A s \in Threads : AtSection(s)'
  BY <1>1, <1>4, <1>5 DEF IInv, AtSection, Moves
<1>9. LocksOK'
  <2>1. \A s \in Threads : Locked(s)'
    BY <1>1, <1>3, <1>4, <1>5, <1>6 DEF IInv, LocksOK, Locked, Moves, AtSection, Live
  <2>2. \A s \in Threads : Alone(s)'
    BY <1>1, <1>4 DEF IInv, LocksOK, Alone, Moves
  <2>3. \A m \in Nodes : NodeLocked(m)'
    BY <1>1, <1>4, <1>5 DEF IInv, LocksOK, NodeLocked, Moves, TypeOK, Cells
  <2> QED  BY <2>1, <2>2, <2>3 DEF LocksOK
<1>10. CellsOK'
  <2>1. \A i \in Ids : InTable(i)'
    BY <1>1, <1>3, <1>5 DEF IInv, CellsOK, InTable, TypeOK
  <2>2. \A s \in Threads : Condemned(s)'
    BY <1>1, <1>5, <1>6 DEF IInv, CellsOK, Condemned, TypeOK, Live
  <2>3. \A s \in Threads : Made(s)'
    BY <1>1, <1>3, <1>4, <1>5, <1>6 DEF IInv, CellsOK, Made, Moves, AtSection
  <2>4. \A s \in Threads : LookedUp(s)'
    BY <1>1, <1>4, <1>5 DEF IInv, CellsOK, LookedUp, Moves, AtSection, Live
  <2>5. AllOwned'
    BY <1>1, <1>4, <1>5, <1>6 DEF IInv, CellsOK, AllOwned, Moves, Live
  <2>6. \A m \in Nodes : Live(m)' => heap'[m].id \in Ids
    BY <1>5 DEF IInv, CellsOK, Live
  <2> QED  BY <2>1, <2>2, <2>3, <2>4, <2>5, <2>6 DEF CellsOK
<1>11. ASSUME Careful PROVE Ownership'
  <2>1. Ownership /\ UniqueIds'
    BY <1>5, <1>11 DEF IInv, Ownership, UniqueIds, Live
  <2>2. \A s \in Threads : Claims(s)' /\ \A i \in Ids : Owns(s, i)' = Owns(s, i)
    BY <1>1, <1>4, <2>1 DEF Ownership, Claims, Owns, Launching, Destroying, Moves
  <2> QED  BY <1>1, <1>12, <2>1, <2>2 DEF Ownership, SoleOwner
<1> QED  BY <1>1, <1>7, <1>8, <1>9, <1>10, <1>11 DEF IInv, Careful

-----------------------------------------------------------------------------
(* The callers. *)

\* A call of kind on id, of which the thread has made no step yet.
LEMMA Calls ==
    ASSUME TypeOK, NEW t \in Threads, NEW label \in Sections, NEW kind, NEW id,
           [kind |-> kind, id |-> id] \in Operations, Call(t, kind, id, label), UNCHANGED cur
    PROVE  /\ Moves(t, label, [kind |-> kind, id |-> id], cur[t])
           /\ ret' \in [Threads -> Codes] /\ calls' \in 0..MaxCalls
<1>1. ret' \in [Threads -> Codes] /\ calls' \in 0..MaxCalls
  BY NodeBounds DEF Call, TypeOK, Codes
<1>2. Moves(t, label, [kind |-> kind, id |-> id], cur[t])
  BY MovesTo DEF Call, TypeOK
<1> QED  BY <1>1, <1>2

\* An idle thread holds no lock.
LEMMA CallLocks ==
    ASSUME IInv, NEW t \in Threads, pc[t] = "idle", NEW label \in {"parse", "lookup", "finalize"},
           Moves(t, label, op'[t], cur[t]), UNCHANGED <<tlock, heap, victims>>
    PROVE  (\A s \in Threads : Locked(s)') /\ (\A m \in Nodes : NodeLocked(m)')
<1>1. \A s \in Threads : Locked(s)'
  BY DEF IInv, LocksOK, Locked, Moves, Live
<1>2. \A m \in Nodes : NodeLocked(m)'
  BY DEF IInv, LocksOK, NodeLocked, Moves, TypeOK, Cells
<1> QED  BY <1>1, <1>2

\* A call of mlops_node_create.
LEMMA LaunchStep ==
    ASSUME IInv, NEW t \in Threads, Launch(t), UNCHANGED mode
    PROVE  IInv'
<1> DEFINE o == [kind |-> "launch", id |-> 0]
<1>1. /\ TypeOK /\ pc[t] = "idle" /\ o \in Operations
      /\ \A s \in Threads : op[s].kind # "finalize"
      /\ UNCHANGED <<up, table, tlock, heap, cur, victims, known, now, broken, mode>>
  BY NodeBounds DEF IInv, Launch, Serving, Operations
<1>2. Moves(t, "parse", o, cur[t]) /\ ret' \in [Threads -> Codes] /\ calls' \in 0..MaxCalls
  BY <1>1, Calls DEF Launch, Sections
<1>3. TypeOK' /\ Quiet
  BY <1>1, <1>2 DEF TypeOK, Moves, Quiet, Codes, Ids
<1>4. \A s \in Threads : AtSection(s)'
  BY <1>1, <1>2 DEF IInv, AtSection, Moves
<1>5. LocksOK'
  <2>1. \A s \in Threads : Alone(s)'
    BY <1>1, <1>2 DEF Alone, Moves
  <2>2. op'[t] = o
    BY <1>2 DEF Moves
  <2> QED  BY <1>1, <1>2, <2>1, <2>2, CallLocks DEF LocksOK
<1>6. CellsOK'
  BY <1>1, <1>2, <1>3, QuietCells DEF Moves, LookedUp
<1>7. ASSUME Careful PROVE Ownership'
  <2>1. Claims(t)' /\ \A i \in Ids : Owns(t, i)' => Owns(t, i)
    BY <1>1, <1>2, <1>7 DEF IInv, Ownership, Claims, Owns, Launching, Destroying, Moves, Users
  <2> QED  BY <1>1, <1>2, <1>3, <1>7, <2>1, QuietOwners DEF IInv, Ownership, Moves
<1> QED  BY <1>1, <1>3, <1>4, <1>5, <1>6, <1>7 DEF IInv, Careful

\* A call that passes an id.
LEMMA UseIdStep ==
    ASSUME IInv, NEW t \in Threads, UseId(t), UNCHANGED mode
    PROVE  IInv'
<1>1. /\ TypeOK /\ pc[t] = "idle" /\ \A s \in Threads : op[s].kind # "finalize"
      /\ UNCHANGED <<up, table, tlock, heap, cur, victims, now, broken, mode>>
  BY DEF IInv, UseId, Serving
<1>2. PICK kind \in Users \cup {"destroy"}, i \in IF mode.anyId THEN Ids ELSE known[t] :
         /\ Call(t, kind, i, "lookup")
         /\ known' = [known EXCEPT ![t] = IF kind = "destroy" THEN @ \ {i} ELSE @]
  BY DEF UseId, Users
<1> DEFINE o == [kind |-> kind, id |-> i]
<1>3. i \in Ids /\ o \in Operations
  BY <1>1 DEF TypeOK, Ids, Operations, Users
<1>4. Moves(t, "lookup", o, cur[t]) /\ ret' \in [Threads -> Codes] /\ calls' \in 0..MaxCalls
  BY <1>1, <1>2, <1>3, Calls DEF Sections
<1>5. /\ known' \in [Threads -> SUBSET Ids] /\ \A s \in Threads \ {t} : known'[s] = known[s]
      /\ known'[t] = IF kind = "destroy" THEN known[t] \ {i} ELSE known[t]
  BY <1>1, <1>2 DEF TypeOK
<1>6. TypeOK' /\ Quiet
  BY <1>1, <1>4, <1>5 DEF TypeOK, Moves, Quiet, Codes, Ids
<1>7. \A s \in Threads : AtSection(s)'
  BY <1>1, <1>3, <1>4 DEF IInv, AtSection, Moves, Users
<1>8. LocksOK'
  <2>1. \A s \in Threads : Alone(s)'
    BY <1>1, <1>4 DEF Alone, Moves, Users
  <2>2. op'[t] = o
    BY <1>4 DEF Moves
  <2> QED  BY <1>1, <1>4, <2>1, <2>2, CallLocks DEF LocksOK
<1>9. CellsOK'
  BY <1>1, <1>4, <1>6, QuietCells DEF Moves, LookedUp
<1>10. ASSUME Careful PROVE Ownership'
  <2>1. Ownership /\ i \in known[t]
    BY <1>10 DEF IInv, Careful
  <2>2. \A j \in Ids : Owns(t, j)' => Owns(t, j)
    BY <1>1, <1>4, <1>5, <2>1 DEF Owns, Launching, Destroying, Moves, Users
  <2>3. Claims(t)'
    BY <1>1, <1>4, <1>5, <2>1 DEF Ownership, Claims, Launching, Destroying, Moves, Users
  <2> QED  BY <1>1, <1>4, <1>5, <1>6, <2>1, <2>2, <2>3, QuietOwners DEF Ownership, Moves
<1> QED  BY <1>1, <1>6, <1>7, <1>8, <1>9, <1>10 DEF IInv, Careful

\* mlops_node_finalize begins when every other call has returned.
LEMMA FinalizeStep ==
    ASSUME IInv, NEW t \in Threads, Finalize(t), UNCHANGED mode
    PROVE  IInv'
<1> DEFINE o == [kind |-> "finalize", id |-> 0]
<1>1. /\ TypeOK /\ o \in Operations /\ \A s \in Threads : pc[s] = "idle" /\ op[s].kind = "none"
      /\ known' = [s \in Threads |-> {}]
      /\ UNCHANGED <<up, table, tlock, heap, cur, victims, now, broken, mode>>
  BY NodeBounds DEF IInv, Finalize, Idle, Operations, AtSection
<1>2. Moves(t, "finalize", o, cur[t]) /\ ret' \in [Threads -> Codes] /\ calls' \in 0..MaxCalls
  BY <1>1, Calls DEF Finalize, Sections
<1>3. TypeOK' /\ Quiet
  BY <1>1, <1>2 DEF TypeOK, Moves, Quiet, Codes, Ids
<1>4. \A s \in Threads : AtSection(s)'
  BY <1>1, <1>2 DEF IInv, AtSection, Moves
<1>5. LocksOK'
  <2>1. \A s \in Threads : Alone(s)'
    BY <1>1, <1>2 DEF Alone, Moves
  <2>2. op'[t] = o
    BY <1>2 DEF Moves
  <2> QED  BY <1>1, <1>2, <2>1, <2>2, CallLocks DEF LocksOK
<1>6. CellsOK'
  BY <1>1, <1>2, <1>3, QuietCells DEF Moves, LookedUp
<1>7. ASSUME Careful PROVE Ownership'
  <2>1. \A s \in Threads : ~Launching(s)' /\ ~Destroying(s)' /\ known'[s] = {}
    BY <1>1, <1>2 DEF Moves, Launching, Destroying
  <2>2. SoleOwner' /\ \A s \in Threads : Claims(s)'
    BY <1>1, <1>2, <2>1 DEF SoleOwner, Owns, Claims, Moves, Users
  <2> QED  BY <1>1, <1>7, <2>2 DEF IInv, Ownership, UniqueIds, Live
<1> QED  BY <1>1, <1>3, <1>4, <1>5, <1>6, <1>7 DEF IInv, Careful

\* The table is made, or the clock moves: no node is concerned.
LEMMA OtherStep ==
    ASSUME IInv, up' \in BOOLEAN, now' \in Ids,
           UNCHANGED <<table, tlock, heap, pc, op, cur, victims, ret, known, calls, broken, mode>>
    PROVE  IInv'
<1>1. TypeOK' /\ \A s \in Threads : AtSection(s)'
  BY DEF IInv, TypeOK, AtSection
<1>2. LocksOK'
  BY DEF IInv, LocksOK, Locked, NodeLocked, Alone, Live
<1>3. CellsOK'
  BY DEF IInv, CellsOK, InTable, Condemned, Made, LookedUp, AllOwned, Live
<1>4. ASSUME Careful PROVE Ownership'
  BY <1>4 DEF IInv, Ownership, UniqueIds, SoleOwner, Owns, Claims, Launching, Destroying, Live
<1> QED  BY <1>1, <1>2, <1>3, <1>4 DEF IInv, Careful

-----------------------------------------------------------------------------
(* The invariant. *)

\* No table, no node, nobody in a call.
LEMMA InitInv == Init => IInv
<1> SUFFICES ASSUME Init PROVE IInv
  OBVIOUS
<1>1. TypeOK
  <2>1. Unused \in Cells
    BY NodeBounds DEF Cells, Unused, GstStates
  <2>2. 1 \in Ids /\ 0 \in 0..MaxCalls /\ "idle" \in Sections
    BY NodeBounds DEF Ids, Sections
  <2> QED  BY <2>1, <2>2, NoOpTyped DEF Init, TypeOK
<1>2. (\A t \in Threads : AtSection(t)) /\ LocksOK
  BY NodeNulls DEF Init, AtSection, LocksOK, Locked, NodeLocked, Alone, NoOp, Unused, Users
<1>3. CellsOK
  BY DEF Init, CellsOK, InTable, Condemned, Made, LookedUp, AllOwned, Live, Unused
<1>4. Ownership
  BY DEF Init, Ownership, UniqueIds, SoleOwner, Owns, Claims, Launching, Destroying, Live, Unused, NoOp
<1> QED  BY <1>1, <1>2, <1>3, <1>4 DEF IInv

\* Every step keeps it.
LEMMA NextInv == IInv /\ [Next]_vars => IInv'
<1> SUFFICES ASSUME IInv, [Next]_vars PROVE IInv'
  OBVIOUS
<1>1. ASSUME NEW t \in Threads, Launch(t) \/ UseId(t) \/ Finalize(t), UNCHANGED mode
      PROVE  IInv'
  BY <1>1, LaunchStep, UseIdStep, FinalizeStep
<1>2. ASSUME NEW t \in Threads, Lookup(t) \/ LockNode(t) \/ SetState(t), UNCHANGED mode
      PROVE  IInv'
  BY <1>2, LookupStep, LockNodeStep, SetStateStep
<1>3. ASSUME NEW t \in Threads, Parse(t) \/ Insert(t) \/ ReadId(t), UNCHANGED mode
      PROVE  IInv'
  BY <1>3, ParseStep, InsertStep, ReadIdStep
<1>4. ASSUME NEW t \in Threads, Remove(t) \/ DestroyTable(t) \/ Free(t) \/ Unref(t), UNCHANGED mode
      PROVE  IInv'
  BY <1>4, RemoveStep, DestroyTableStep, FreeStep, UnrefStep
<1>5. CASE Initialize /\ UNCHANGED mode
  BY <1>5, OtherStep DEF Initialize, IInv, TypeOK
<1>6. CASE Tick /\ UNCHANGED mode
  BY <1>6, OtherStep, NodeBounds DEF Tick, IInv, TypeOK, Ids
<1>7. CASE UNCHANGED vars
  BY <1>7, OtherStep DEF vars, IInv, TypeOK
<1> QED  BY <1>1, <1>2, <1>3, <1>4, <1>5, <1>6, <1>7 DEF Next, Step

\* The inductive invariant holds throughout.
THEOREM Inductive == Spec => []IInv
<1> QED  BY InitInv, NextInv, PTL DEF Spec

\* The state of the table, of the nodes and of every caller is of its type,
\* whatever the callers do.
THEOREM TypeCorrect == Spec => []TypeOK
<1>1. IInv => TypeOK
  BY DEF IInv
<1> QED  BY <1>1, Inductive, PTL

\* No freed node is used by callers that keep to the ids of their own launches
\* (_mlops_node_get gives the node out of the lock, and others free meanwhile).
THEOREM UseAfterFreeSafe == Spec => []NoUseAfterFree
<1>1. IInv => NoUseAfterFree
  BY DEF IInv, Ownership, NoUseAfterFree
<1> QED  BY <1>1, Inductive, PTL

\* Whatever the callers do, an allocated node is in the table under its id, or
\* with the launch that made it, or with the thread that is freeing it; and no
\* node is freed twice.
THEOREM LeakFree == Spec => []NothingLeaks
<1>1. IInv => NothingLeaks
  <2> SUFFICES ASSUME IInv PROVE NothingLeaks
    OBVIOUS
  <2>1. \A n \in Nodes : Live(n) =>
           \/ table[heap[n].id] = n
           \/ \E t \in Threads : \/ pc[t] = "insert" /\ cur[t] = n
                                 \/ n \in victims[t]
    BY DEF IInv, CellsOK, AllOwned
  <2>2. ASSUME NEW t \in Threads, NEW n \in victims[t]
        PROVE  /\ Live(n) /\ \A i \in Ids : table[i] # n
               /\ \A s \in Threads \ {t} : n \notin victims[s] /\ ~(pc[s] = "insert" /\ cur[s] = n)
    <3>1. n \in Nodes /\ Live(n) /\ table[heap[n].id] # n
      BY <2>2 DEF IInv, TypeOK, CellsOK, Condemned
    <3>2. \A i \in Ids : table[i] # n
      BY <3>1, NodeNulls DEF IInv, CellsOK, InTable
    <3>3. \A s \in Threads \ {t} : n \notin victims[s]
      BY <2>2 DEF IInv, LocksOK, Locked
    <3>4. \A s \in Threads : pc[s] = "insert" => cur[s] # n
      BY <2>2 DEF IInv, CellsOK, Made
    <3> QED  BY <3>1, <3>2, <3>3, <3>4
  <2> QED  BY <2>1, <2>2 DEF NothingLeaks
<1> QED  BY <1>1, Inductive, PTL

\* The pipeline of a careful caller is in the table, alive and nobody's victim
\* until that caller destroys it.
THEOREM LaunchedStaysUpSafe == Spec => []LaunchedStaysUp
<1>1. IInv => LaunchedStaysUp
  <2> SUFFICES ASSUME IInv, Careful
               PROVE  /\ \A s, t \in Threads : s # t => known[s] \cap known[t] = {}
                      /\ \A t \in Threads : \A i \in known[t] :
                            /\ table[i] \in Nodes
                            /\ heap[table[i]].use = "live" /\ heap[table[i]].id = i
                            /\ \A s \in Threads : table[i] \notin victims[s]
    BY DEF LaunchedStaysUp
  <2>1. \A s, t \in Threads : s # t => known[s] \cap known[t] = {}
    BY DEF IInv, Ownership, SoleOwner, Owns, TypeOK
  <2>2. \A t \in Threads : \A i \in known[t] : i \in Ids /\ table[i] \in Nodes
    BY DEF IInv, Ownership, Claims, TypeOK
  <2>3. \A t \in Threads : \A i \in known[t] :
           heap[table[i]].use = "live" /\ heap[table[i]].id = i
    BY <2>2, NodeNulls DEF IInv, CellsOK, InTable
  <2>4. \A t \in Threads : \A i \in known[t] : \A s \in Threads : table[i] \notin victims[s]
    BY <2>2, <2>3 DEF IInv, CellsOK, Condemned
  <2> QED  BY <2>1, <2>2, <2>3, <2>4
<1> QED  BY <1>1, Inductive, PTL

\* A start or a stop changes the state of the node that has the id it was
\* called with, and of no other (set_pipeline_state).
THEOREM OwnIdOnly == Spec => StateChangesByOwnId
<1> DEFINE Caller(n, t) == \/ op[t].kind \in {"start", "stop"} /\ op[t].id = heap[n].id
                           \/ n \in victims[t]
           Changed(n) == heap[n].use = "live" /\ heap'[n].state # heap[n].state
<1>1. ASSUME IInv, Next, NEW n \in Nodes, Changed(n)
      PROVE  \E t \in Threads : Caller(n, t)
  <2>1. heap' # heap
    BY <1>1
  <2>2. PICK t \in Threads : LockNode(t) \/ SetState(t) \/ Parse(t) \/ Free(t) \/ Unref(t)
    BY <1>1, <2>1 DEF Next, Step, Launch, UseId, Finalize, Initialize, Tick, Lookup, Insert, ReadId,
                      Remove, DestroyTable, UseAfterFree
  <2>3. TypeOK /\ heap[n] \in Cells
    BY <1>1 DEF IInv, TypeOK
  <2>4. CASE LockNode(t)
    <3>1. PICK m \in Nodes : heap' = [heap EXCEPT ![m].lock = t]
      BY <1>1, <2>1, <2>4 DEF LockNode, UseAfterFree, IInv, AtSection
    <3> QED  BY <1>1, <2>3, <3>1 DEF TypeOK, Cells
  <2>5. CASE SetState(t)
    <3>1. /\ Live(cur[t]) /\ cur[t] \in Nodes /\ op[t].kind \in Users
          /\ heap[cur[t]].id = op[t].id
      BY <1>1, <2>5 DEF IInv, SetState, AtSection, LocksOK, Locked, CellsOK, LookedUp
    <3>2. PICK st \in GstStates :
             /\ heap' = [heap EXCEPT ![cur[t]].state = st, ![cur[t]].lock = NoThread]
             /\ op[t].kind = "get_state" => st = heap[cur[t]].state
      <4>1. Target(op[t].kind) \in GstStates /\ heap[cur[t]].state \in GstStates
        BY <2>3, <3>1 DEF Target, GstStates, TypeOK, Cells
      <4> QED  BY <2>5, <4>1 DEF SetState
    <3>3. n = cur[t] /\ st # heap[n].state
      BY <1>1, <2>3, <3>1, <3>2 DEF TypeOK, Cells
    <3> QED  BY <3>1, <3>2, <3>3 DEF Users
  <2>6. CASE Parse(t)
    BY <1>1, <2>1, <2>3, <2>6 DEF Parse, TypeOK
  <2>7. CASE Free(t)
    <3>1. PICK m \in victims[t] : heap' = [heap EXCEPT ![m].state = "NULL", ![m].use = "stopped"]
      BY <2>1, <2>7 DEF Free
    <3> QED  BY <1>1, <2>3, <3>1 DEF TypeOK, Cells
  <2>8. CASE Unref(t)
    BY <1>1, <2>3, <2>8 DEF Unref, TypeOK
  <2> QED  BY <2>2, <2>4, <2>5, <2>6, <2>7, <2>8
<1>2. IInv /\ [Next]_vars => [\A n \in Nodes : Changed(n) => \E t \in Threads : Caller(n, t)]_vars
  BY <1>1
<1> QED  BY <1>2, Inductive, PTL DEF Spec, StateChangesByOwnId
=============================================================================
