------------------------------ MODULE SqliteConn ------------------------------
(***************************************************************************)
(* The one SQLite connection of the agent, as service-db.cc uses it: a     *)
(* committed image of the tables, the image the connection works on, and   *)
(* whether a transaction is open.  The tables themselves are opaque here.  *)
(*                                                                         *)
(* SQLite is a library outside the repository.  Only what the calls in     *)
(* service-db.cc rely on is described: outside a transaction a statement   *)
(* commits by itself; inside one it changes the working image only; a      *)
(* failing statement leaves the transaction open, or (on a full disk, an   *)
(* I/O error, no memory) rolls the whole transaction back; closing the     *)
(* connection, or losing the process, forgets what was not committed.      *)
(***************************************************************************)
VARIABLES
    disk,   \* the tables as committed in the file .ml-service.db
    work,   \* the tables as every statement on the connection sees them
    intx    \* TRUE between a BEGIN TRANSACTION and its END or roll-back

store == <<disk, work, intx>>

\* A statement that leaves the tables as t.
Execute(t) ==
    /\ work' = t
    /\ disk' = IF intx THEN disk ELSE t
    /\ intx' = intx

\* BEGIN inside a transaction is an error: SQLite does not nest them.
CanBegin == ~intx

BeginTransaction ==
    /\ CanBegin
    /\ intx' = TRUE
    /\ UNCHANGED <<disk, work>>

\* END without a transaction is an error too.
CanEnd == intx

EndTransaction ==
    /\ CanEnd
    /\ disk' = work
    /\ intx' = FALSE
    /\ UNCHANGED work

\* Some errors of a statement undo the whole transaction around it.
AutoRollback ==
    /\ intx
    /\ work' = disk
    /\ intx' = FALSE
    /\ UNCHANGED disk

\* sqlite3_close, and what a new connection finds after a crash.
Disconnect ==
    /\ work' = disk
    /\ intx' = FALSE
    /\ UNCHANGED disk

\* Outside a transaction there is nothing uncommitted.
NothingPending == ~intx => work = disk
=============================================================================
