------------------------------ MODULE MlopsNode ------------------------------
(***************************************************************************)
(* daemon/mlops-agent-node.c: the table of launched pipelines.  A node is  *)
(* a heap cell; the table maps the id given out by mlops_node_create to    *)
(* the cell and frees the cell when its entry goes.  In the daemon one     *)
(* thread (the main loop) calls it with whatever ids the clients send; in  *)
(* the Android library every application thread calls it.                  *)
(*                                                                         *)
(* pc[t] is the next critical section of thread t.  Using a freed cell is  *)
(* undefined behaviour: it sets broken, and nothing is claimed from there. *)
(***************************************************************************)
EXTENDS Integers, FiniteSets

CONSTANTS
    Threads,        \* the threads that call mlops_node_*
    Nodes,          \* the heap cells g_new0 may return, each once
    NoNode,         \* the NULL pointer
    NoThread,       \* nobody holds a lock
    Modes,          \* how the callers may behave, see mode
    MaxClock,       \* bound on the monotonic clock
    MaxCalls        \* bound on calls

ASSUME NodeBounds == MaxClock \in Nat \ {0} /\ MaxCalls \in Nat
ASSUME NodeModes == Modes \subseteq [anyId : BOOLEAN, distinct : BOOLEAN]
ASSUME NodeNulls == NoNode \notin Nodes /\ NoThread \notin Threads

VARIABLES
    up,       \* g_mlops_node_table # NULL
    table,    \* g_mlops_node_table: the cell of each id
    tlock,    \* holder of the lock mlops_node_table
    heap,     \* heap[n]: use of the cell, its id, GStreamer state and lock
    pc,       \* pc[t]: the critical section t enters next
    op,       \* op[t]: the operation t is executing and its id
    cur,      \* cur[t]: the local variable node
    victims,  \* victims[t]: cells t still has to free under the table lock
    ret,      \* ret[t]: what the last call of t returned
    known,    \* known[t]: ids launched and not yet destroyed by t
    now,      \* g_get_monotonic_time
    calls,    \* calls so far
    broken,   \* a freed cell was used
    mode      \* fixed: anyId, callers pass any id, else only ids of their own
              \* launches; distinct, no two launches read the same time

vars == <<up, table, tlock, heap, pc, op, cur, victims, ret, known, now, calls, broken, mode>>

Ids == 1..MaxClock
GstStates == {"NULL", "PAUSED", "PLAYING"}
NoOp == [kind |-> "none", id |-> 0]

Unused == [use |-> "unused", id |-> 0, state |-> "NULL", lock |-> NoThread]
Freed == [Unused EXCEPT !.use = "freed"]

\* The cell is allocated: it may be dereferenced.
Live(n) == heap[n].use \in {"live", "stopped"}

Cells == [use : {"unused", "live", "stopped", "freed"}, id : 0..MaxClock,
          state : GstStates, lock : Threads \cup {NoThread}]
Sections == {"idle", "lookup", "lock", "set", "parse", "insert", "readid", "remove", "free",
             "unref", "finalize"}
Operations == [kind : {"none", "launch", "start", "stop", "destroy", "get_state", "finalize"},
               id : 0..MaxClock]

TypeOK ==
    /\ up \in BOOLEAN /\ broken \in BOOLEAN
    /\ table \in [Ids -> Nodes \cup {NoNode}]
    /\ tlock \in Threads \cup {NoThread}
    /\ heap \in [Nodes -> Cells]
    /\ pc \in [Threads -> Sections]
    /\ op \in [Threads -> Operations]
    /\ cur \in [Threads -> Nodes \cup {NoNode}]
    /\ victims \in [Threads -> SUBSET Nodes]
    /\ ret \in [Threads -> {"none", "OK", "EINVAL", "ESTRPIPE"}]
    /\ known \in [Threads -> SUBSET Ids]
    /\ now \in Ids /\ calls \in 0..MaxCalls /\ mode \in Modes

-----------------------------------------------------------------------------
(* A thread between two critical sections. *)

Goto(t, label) == pc' = [pc EXCEPT ![t] = label]

Return(t, code) ==
    /\ pc' = [pc EXCEPT ![t] = "idle"]
    /\ op' = [op EXCEPT ![t] = NoOp]
    /\ cur' = [cur EXCEPT ![t] = NoNode]
    /\ ret' = [ret EXCEPT ![t] = code]

\* Undefined behaviour: the thread goes nowhere we could follow.
UseAfterFree(t) ==
    /\ broken' = TRUE
    /\ UNCHANGED <<up, table, tlock, heap, pc, op, cur, victims, ret, known, now, calls>>

TakeTable(t) == tlock = NoThread /\ tlock' = t

-----------------------------------------------------------------------------
(* _mlops_node_get: the lookup is inside the lock, the use of its result   *)
(* is not.                                                                 *)

Lookup(t) ==
    /\ pc[t] = "lookup"
    /\ tlock = NoThread
    /\ LET n == table[op[t].id]
       IN  IF n = NoNode
           THEN Return(t, "EINVAL")
           ELSE /\ cur' = [cur EXCEPT ![t] = n]
                /\ Goto(t, IF op[t].kind = "destroy" THEN "remove" ELSE "lock")
                /\ UNCHANGED <<op, ret>>
    /\ UNCHANGED <<up, table, tlock, heap, victims, known, now, calls, broken>>

\* g_mutex_lock (&node->lock) in set_pipeline_state and get_state
LockNode(t) ==
    LET n == cur[t]
    IN  /\ pc[t] = "lock"
        /\ \/ ~Live(n) /\ UseAfterFree(t)
           \/ /\ Live(n) /\ heap[n].lock = NoThread
              /\ heap' = [heap EXCEPT ![n].lock = t]
              /\ Goto(t, "set")
              /\ UNCHANGED <<up, table, tlock, op, cur, victims, ret, known, now, calls, broken>>

\* Mutant: stopping resets the pipeline.
StopToReady(kind) == IF kind = "start" THEN "PLAYING" ELSE "READY"

Target(kind) == IF kind = "start" THEN "PLAYING" ELSE "PAUSED"

\* Mutant: get_state goes through the code that sets PAUSED.
GetStatePauses(t) ==
    LET n == cur[t]
    IN  /\ pc[t] = "set"
        /\ heap' = [heap EXCEPT ![n].state = Target(op[t].kind), ![n].lock = NoThread]
        /\ Return(t, "OK")
        /\ UNCHANGED <<up, table, tlock, victims, known, now, calls, broken>>

\* gst_element_set_state or gst_element_get_state, and the unlock; GStreamer
\* may refuse either.
SetState(t) ==
    LET n == cur[t]
        Set(s) == heap' = [heap EXCEPT ![n].state = s, ![n].lock = NoThread]
    IN  /\ pc[t] = "set"
        /\ \/ op[t].kind # "get_state" /\ Set(Target(op[t].kind)) /\ Return(t, "OK")
           \/ op[t].kind = "get_state" /\ Set(heap[n].state) /\ Return(t, "OK")
           \/ Set(heap[n].state) /\ Return(t, "ESTRPIPE")
        /\ UNCHANGED <<up, table, tlock, victims, known, now, calls, broken>>

-----------------------------------------------------------------------------
(* mlops_node_create *)

\* Mutant: a clock of half the resolution.
CoarseStamp == (now + 1) \div 2

\* node->id = g_get_monotonic_time ()
Stamp == now

\* The description, gst_parse_launch and the PAUSED state may each fail; what
\* they made is released again.  The new cell is not shared yet.
Parse(t) ==
    /\ pc[t] = "parse"
    /\ \/ /\ \E code \in {"EINVAL", "ESTRPIPE"} : Return(t, code)
          /\ UNCHANGED heap
       \/ \E n \in Nodes :
            /\ heap[n].use = "unused"
            /\ mode.distinct => \A m \in Nodes : heap[m].id # now
            /\ heap' = [heap EXCEPT ![n] =
                           [use |-> "live", id |-> Stamp, state |-> "PAUSED", lock |-> NoThread]]
            /\ cur' = [cur EXCEPT ![t] = n]
            /\ op' = [op EXCEPT ![t].id = Stamp]
            /\ Goto(t, "insert")
            /\ UNCHANGED ret
    /\ UNCHANGED <<up, table, tlock, victims, known, now, calls, broken>>

\* g_hash_table_insert frees the value it replaces, inside the lock.
Insert(t) ==
    LET n == cur[t]
        i == op[t].id
    IN  /\ pc[t] = "insert"
        /\ TakeTable(t)
        /\ table' = [table EXCEPT ![i] = n]
        /\ victims' = [victims EXCEPT ![t] = {table[i]} \ {NoNode}]
        /\ Goto(t, "free")
        /\ UNCHANGED <<up, heap, op, cur, ret, known, now, calls, broken>>

\* *id = node->id, outside the lock
ReadId(t) ==
    LET n == cur[t]
    IN  /\ pc[t] = "readid"
        /\ \/ ~Live(n) /\ UseAfterFree(t)
           \/ /\ Live(n)
              /\ known' = [known EXCEPT ![t] = @ \cup {heap[n].id}]
              /\ Return(t, "OK")
              /\ UNCHANGED <<up, table, tlock, heap, victims, now, calls, broken>>

-----------------------------------------------------------------------------
(* Freeing: mlops_node_destroy, mlops_node_finalize and a replaced entry   *)
(* free cells with _mlops_node_free while they hold the table lock.        *)

\* Mutant: the entry goes but nobody frees the cell.
RemoveStealsEntry(t) ==
    LET i == op[t].id
    IN  /\ pc[t] = "remove"
        /\ TakeTable(t)
        /\ table' = [table EXCEPT ![i] = NoNode]
        /\ Goto(t, "free")
        /\ UNCHANGED <<up, heap, op, cur, victims, ret, known, now, calls, broken>>

\* g_hash_table_remove in mlops_node_destroy
Remove(t) ==
    LET i == op[t].id
    IN  /\ pc[t] = "remove"
        /\ TakeTable(t)
        /\ table' = [table EXCEPT ![i] = NoNode]
        /\ victims' = [victims EXCEPT ![t] = {table[i]} \ {NoNode}]
        /\ Goto(t, "free")
        /\ UNCHANGED <<up, heap, op, cur, ret, known, now, calls, broken>>

\* Mutant: returning without releasing the table lock.
FreeKeepsLock(t) ==
    /\ pc[t] = "free"
    /\ \/ \E n \in victims[t] :
            /\ heap[n].lock = NoThread
            /\ heap' = [heap EXCEPT ![n].state = "NULL", ![n].use = "stopped"]
            /\ Goto(t, "unref")
            /\ UNCHANGED <<op, cur, ret>>
       \/ victims[t] = {} /\ Return(t, "OK") /\ UNCHANGED heap
    /\ UNCHANGED <<up, table, tlock, victims, known, now, calls, broken>>

\* _mlops_node_free: the state NULL under the node's lock; once no cell is
\* left, the table lock is released.
Free(t) ==
    /\ pc[t] = "free"
    /\ \/ \E n \in victims[t] :
            /\ heap[n].lock = NoThread
            /\ heap' = [heap EXCEPT ![n].state = "NULL", ![n].use = "stopped"]
            /\ broken' = ~Live(n)
            /\ Goto(t, "unref")
            /\ UNCHANGED <<tlock, op, cur, ret>>
       \/ /\ victims[t] = {}
          /\ tlock' = NoThread
          /\ IF op[t].kind = "launch"
             THEN Goto(t, "readid") /\ UNCHANGED <<op, cur, ret>>
             ELSE Return(t, "OK")
          /\ UNCHANGED <<heap, broken>>
    /\ UNCHANGED <<up, table, victims, known, now, calls>>

\* _mlops_node_free: the element and the strings under the lock, then the cell
Unref(t) ==
    /\ pc[t] = "unref"
    /\ \E n \in victims[t] :
         /\ heap[n].use # "live" /\ heap[n].lock = NoThread
         /\ heap' = [heap EXCEPT ![n] = Freed]
         /\ broken' = ~Live(n)
         /\ victims' = [victims EXCEPT ![t] = @ \ {n}]
    /\ Goto(t, "free")
    /\ UNCHANGED <<up, table, tlock, op, cur, ret, known, now, calls>>

\* g_hash_table_destroy in mlops_node_finalize
DestroyTable(t) ==
    /\ pc[t] = "finalize"
    /\ TakeTable(t)
    /\ up' = FALSE
    /\ table' = [i \in Ids |-> NoNode]
    /\ victims' = [victims EXCEPT ![t] = {table[i] : i \in Ids} \ {NoNode}]
    /\ Goto(t, "free")
    /\ UNCHANGED <<heap, op, cur, ret, known, now, calls, broken>>

-----------------------------------------------------------------------------
(* The callers. *)

Idle == \A t \in Threads : pc[t] = "idle"

Call(t, kind, id, label) ==
    /\ calls < MaxCalls
    /\ calls' = calls + 1
    /\ pc' = [pc EXCEPT ![t] = label]
    /\ op' = [op EXCEPT ![t] = [kind |-> kind, id |-> id]]
    /\ ret' = [ret EXCEPT ![t] = "none"]

Serving == up /\ \A t \in Threads : op[t].kind # "finalize"

\* mlops_node_create
Launch(t) ==
    /\ pc[t] = "idle" /\ Serving
    /\ Call(t, "launch", 0, "parse")
    /\ UNCHANGED <<up, table, tlock, heap, cur, victims, known, now, broken>>

\* mlops_node_start, _stop, _destroy and _get_state.  A caller forgets an id it
\* destroys.
UseId(t) ==
    /\ pc[t] = "idle" /\ Serving
    /\ \E kind \in {"start", "stop", "destroy", "get_state"},
          i \in IF mode.anyId THEN Ids ELSE known[t] :
            /\ Call(t, kind, i, "lookup")
            /\ known' = [known EXCEPT ![t] = IF kind = "destroy" THEN @ \ {i} ELSE @]
    /\ UNCHANGED <<up, table, tlock, heap, cur, victims, now, broken>>

\* mlops_node_initialize: an existing table is kept.
Initialize ==
    /\ Idle
    /\ up' = TRUE
    /\ UNCHANGED <<table, tlock, heap, pc, op, cur, victims, ret, known, now, calls, broken>>

\* mlops_node_finalize, called after all other calls have returned.
Finalize(t) ==
    /\ Idle /\ up
    /\ Call(t, "finalize", 0, "finalize")
    /\ known' = [s \in Threads |-> {}]
    /\ UNCHANGED <<up, table, tlock, heap, cur, victims, now, broken>>

Tick ==
    /\ now < MaxClock
    /\ now' = now + 1
    /\ UNCHANGED <<up, table, tlock, heap, pc, op, cur, victims, ret, known, calls, broken>>

Init ==
    /\ up = FALSE
    /\ table = [i \in Ids |-> NoNode]
    /\ tlock = NoThread
    /\ heap = [n \in Nodes |-> Unused]
    /\ pc = [t \in Threads |-> "idle"]
    /\ op = [t \in Threads |-> NoOp]
    /\ cur = [t \in Threads |-> NoNode]
    /\ victims = [t \in Threads |-> {}]
    /\ ret = [t \in Threads |-> "none"]
    /\ known = [t \in Threads |-> {}]
    /\ now = 1
    /\ calls = 0
    /\ broken = FALSE
    /\ mode \in Modes

Step(t) ==
    \/ Lookup(t) \/ LockNode(t) \/ SetState(t)
    \/ Parse(t) \/ Insert(t) \/ ReadId(t)
    \/ Remove(t) \/ DestroyTable(t) \/ Free(t) \/ Unref(t)

Next ==
    /\ ~broken
    /\ \/ \E t \in Threads : Launch(t) \/ UseId(t) \/ Finalize(t)
       \/ \E t \in Threads : Step(t)
       \/ Initialize
       \/ Tick
    /\ UNCHANGED mode

\* A thread inside a call goes on running; the locks need no stronger
\* fairness because the calls, and so the holders of a lock, are finitely many.
Spec == Init /\ [][Next]_vars /\ \A t \in Threads : WF_vars(~broken /\ Step(t) /\ UNCHANGED mode)

-----------------------------------------------------------------------------
(* Safety and liveness. *)

(* Threads that keep to the ids of their own launches, made at different   *)
(* times.                                                                  *)
Careful == ~mode.anyId /\ mode.distinct

(* The pointer that _mlops_node_get hands out of the lock is never used    *)
(* after its cell has been freed, if the callers are careful.              *)
NoUseAfterFree == Careful => ~broken

(* Every allocated cell is reachable by exactly those who must free it:    *)
(* the table under the id in the cell, the launch that has not inserted it *)
(* yet, or the thread that is freeing it.  mlops_node_finalize, which      *)
(* empties the table, so leaves none.  And none is freed twice: what a     *)
(* thread is freeing is allocated, not in the table and nobody else's,     *)
(* even where two launches got one id or any id is passed.                 *)
NothingLeaks ==
    /\ \A n \in Nodes : Live(n) =>
          \/ table[heap[n].id] = n
          \/ \E t \in Threads : \/ pc[t] = "insert" /\ cur[t] = n
                                \/ n \in victims[t]
    /\ \A t \in Threads : \A n \in victims[t] :
          /\ Live(n) /\ \A i \in Ids : table[i] # n
          /\ \A s \in Threads \ {t} : n \notin victims[s] /\ ~(pc[s] = "insert" /\ cur[s] = n)

(* With careful callers, an id names the pipeline of one launch: no two    *)
(* threads got the same id, and until its owner destroys it the table      *)
(* leads from it to a cell that is in use and is nobody's victim, whatever *)
(* is launched or destroyed beside it.                                     *)
LaunchedStaysUp == Careful =>
    /\ \A s, t \in Threads : s # t => known[s] \cap known[t] = {}
    /\ \A t \in Threads : \A i \in known[t] :
          /\ table[i] \in Nodes
          /\ heap[table[i]].use = "live" /\ heap[table[i]].id = i
          /\ \A s \in Threads : table[i] \notin victims[s]

(* A pipeline changes its state only by calls for its own id: a cell whose *)
(* state a start or stop changes is the one the table has under that id.   *)
StateChangesByOwnId ==
    [][\A n \in Nodes : heap[n].use = "live" /\ heap'[n].state # heap[n].state =>
          \E t \in Threads : \/ op[t].kind \in {"start", "stop"} /\ op[t].id = heap[n].id
                             \/ n \in victims[t]]_vars

(* Every call returns: nobody waits for ever on the table lock or on the   *)
(* lock of a node, although freeing takes the second inside the first and  *)
(* callers without care may free what others are about to lock.            *)
CallsReturn == \A t \in Threads : pc[t] # "idle" ~> pc[t] = "idle" \/ broken
=============================================================================
