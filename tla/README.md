# Verification of the MLOps agent

TLA+ models of the agent of this repository (`nnstreamer/deviceMLOps.MLAgent`),
the TLC configurations that check them on small instances, and TLAPS proofs that
hold for every instance, about each of the components modelled.

The agent keeps pipeline descriptions, model versions and resources in an SQLite
file and launches GStreamer pipelines from the descriptions. It exists in two
builds: a daemon that serves D-Bus calls from one main loop, with a client
library, and an Android library whose `ml_agent_*` functions call the same code
directly from the threads of an application. On Tizen a plugin of the package
manager feeds it from resource packages (rpk).

## 1. Inventory

| component | source | state | operations |
|---|---|---|---|
| service database | `daemon/service-db.cc` | three tables in a file, one connection, its open transaction, `g_svcdb_instance` | `svcdb_pipeline_*`, `svcdb_model_*`, `svcdb_resource_*`, initialize, finalize |
| node table | `daemon/mlops-agent-node.c` | `g_mlops_node_table`, its lock, the nodes with a lock and a GStreamer element each | initialize, finalize, create, start, stop, destroy, get_state |
| life cycle | `daemon/main.c`, `mlops-agent-internal.c`, `modules.c`, `gdbus-util.c` | main loop, module list, bus connection and name, exported interfaces | start-up, probing, SIGTERM, shutdown |
| handlers | `daemon/{pipeline,model,resource}-dbus-impl.cc` | skeleton instance and handler ids | one handler per D-Bus method |
| client library | `daemon/mlops-agent-interface.c` | none: a proxy per call | 18 `ml_agent_*` functions |
| Android library | `daemon/mlops-agent-android.c` | none | the same functions, called directly |
| package plugin | `plugin-parser/mlops-plugin-parser.cc` | none: what it put into the store | INSTALL, UNINSTALL, UPGRADE, RECOVER*, CLEAN, UNDO |

How they interact. A client function makes a proxy and a synchronous D-Bus call;
the daemon's main context dispatches the call to the handler, which calls
`svcdb_*` or `mlops_node_*` and completes the invocation. `mlops_node_create`
reads the pipeline's description from the database. `main` opens the database
and creates the table before it exports the modules, and takes both down last.
When nobody owns the name, the bus starts the daemon (`SystemdService` in the
`.service` file), holds the calls until the name is there, and fails them when it
takes too long. On Android, `ml_agent_initialize` and `ml_agent_finalize` do what
`main` does, whenever the application calls them. The plugin is a client like any
other, so applications run beside it.

What makes it hard:

* a request is several SQL statements, any of which may fail; nothing in
  `service-db.cc` ever issues a ROLLBACK; the process may die between two of them;
* in the Android library the statements of several threads interleave on one
  connection, with its one transaction, one `sqlite3_changes` and one last rowid;
* a node pointer leaves the lock of the table that owns the node; freeing a node
  takes its lock inside the lock of the table; ids are time stamps;
* start-up has eight steps that may fail, with one label `error:` for all; a signal
  may arrive at any of them;
* a call that the client has given up may still be executed, and its reply may
  come late; the daemon may die and be restarted in between, with the calls the bus
  holds for it and the ids of the pipelines that died with it still in use;
* a launch reads its description in one step and publishes the pipeline in another;
* the plugin does many calls for one event, without a transaction around them.

What makes each component correct:

* database: one active version per model, no version number in two rows, a
  request is all or nothing, what was acknowledged survives a crash, an active
  version stays until a delete that may take it;
* node table: no freed node is used, every node is freed once, an id leads to the
  pipeline of its launch until it is destroyed, calls return;
* life cycle: handlers run only between start-up and shutdown, probing is all or
  nothing, the name comes last, SIGTERM ends the daemon, everything is released;
* calls: each is answered or fails; executed at most once and in a client's order,
  a client reads nothing older than its own writes, an id leads to the
  client's own pipeline or nowhere, 0 means done;
* Android library: database and table are up or down together, a launch runs a
  description no older than what its caller was told is set;
* plugin: an installed package is complete, a recovered or removed one is gone,
  what applications registered is left alone, paths in packages are resolved.

`PROJECT.json` lists every place where one of these is at risk, with the properties
that cover it.

## 2. Modules

| module | what it is |
|---|---|
| `SqliteConn` | the connection: committed image, working image, open transaction. SQLite is external; the module says only what `service-db.cc` relies on |
| `ServiceDB` | `service-db.cc`, one action per operation, each a disjunction of its SQL statements; extends `SqliteConn` |
| `MCServiceDB` | the symmetry set for TLC |
| `MLServiceStore` | the abstract store: each request is one step or fails without a trace |
| `ServiceDBRefinement` | the mapping from `ServiceDB` to `MLServiceStore` |
| `ServiceDBProofs` | the inductive invariant and the theorems for any number of callers |
| `ServiceDBCallProofs` | what one call achieves when calls come one after the other |
| `ServiceDBRefinementProofs` | the refinement of `MLServiceStore` by such calls: its tables, and its answers |
| `MlopsNode`, `MCMlopsNode` | `mlops-agent-node.c`, one action per critical section; the kinds of callers for TLC |
| `MlopsNodeProofs` | its inductive invariant and theorems |
| `AndroidAgent`, `MCAndroidAgent` | `mlops-agent-android.c`: the composition of `ServiceDB` and `MlopsNode` under one application |
| `AndroidAgentProofs` | its inductive invariants, on top of those of the two components, and theorems |
| `BusService` | the abstract service: a name, and calls that wait, are answered or fail |
| `AgentLifecycle` | `main.c`, `modules.c`, `gdbus-util.c`, probe and exit functions, one process after the other; implements `BusService` |
| `AgentLifecycleProofs` | its inductive invariant, theorems and the refinement of `BusService` |
| `AgentIpc`, `MCAgentIpc` | the client library and the handlers; its messages move by the actions of `BusService` |
| `AgentIpcProofs` | its inductive invariant and theorems |
| `PluginParser`, `MCPluginParser` | the plugin and the path resolution of the client library; packages for TLC |
| `PluginParserProofs` | its inductive invariants and theorems |

### ServiceDB

`req[c]` is the request caller `c` is executing, `pc[c]` the statement it runs
next: `check` is `is_model_registered` or `is_resource_registered`, `guard` is
`is_model_activated`, `begin` and `end` are `set_transaction`, `deactivate`,
`insert`, `update`, `activate`, `delete`, `select` and `version` are the statements
themselves, and `changes` is the look at `sqlite3_changes`. `ret[c]` is what the
`svcdb_*` wrapper returned: `invalid_argument` is `EINVAL`, any other exception
`EIO`. Statements read `work`, the image the connection sees; `disk` is what a
crash leaves.

Strings are model values; the key prefix is left out, because the tables are
separate. Prepare, bind and step of a statement are one step that works or fails.
`FaultKinds` says which may fail: `open`, `begin`, `read`, `write`, `end`, and
`rollback`, the errors (full disk, I/O, no memory) after which SQLite has rolled the
transaction back by itself. A roll-back that one thread's statement causes in another
thread's transaction is excluded by `RollbackAssumption`, so runs and proofs about
several callers are about the other kinds of failure. A request whose arguments do
not pass the checks returns at once. A `guint` is a number up to `2 * GintMax + 1`;
`ToGint` is its conversion to `gint`. The width is small (`GintMax = 3`).

Bounds: `MaxVersion`, `MaxRowid` (no set call starts when versions or rowids could
pass them), `MaxFaults`, `MaxCrashes`.

### MLServiceStore and the refinement

The abstract store has, per model name, a function from versions to their data and
the number of the active version; per resource name a sequence. `Serve` gives a
request its effect and its answer in one step, `Refuse` and `Fail` answer `EINVAL`
and `EIO` and change nothing. The mapping reads the tables off `disk`; a rowid
becomes a place in the sequence. A request takes effect when END, or the DELETE
outside a transaction, reaches the file; because a DELETE is answered a statement
later, the mapping looks ahead at the label `changes`.

The refinement cannot hold with every failure, because an abandoned transaction is
visible to later calls (see the findings): `ImplementsStore` is checked with the
failures that leave no transaction open, and the weaker `TablesChangeAtomically`
(tables without answers) with the failing writes and ENDs too, for the operations that use
transactions and for the delete of a model.

That a delete without force leaves the active version alone is part of this refinement and
of no property of its own: it needs a single caller and SELECTs that work (section 3).
A call without an open database meets the assertion in `svcdb_get`; this is one of the
ways a `Crash` may come about.

### MlopsNode

`heap` holds the cells `g_new0` may return; a cell goes from unused to live to
stopped (state NULL, element still there) to freed, and is not reused, so every
access to a freed cell is seen, and freeing a freed cell too. It sets `broken`, the model of undefined behaviour:
nothing is claimed after it. `victims[t]` are the cells thread `t` is freeing while
it holds the table lock. `known[t]` is what `t`'s application believes it owns.
`mode`, chosen once, is the kind of callers: with `anyId` they pass arbitrary ids,
with `distinct` no two launches read the same time. What holds only for callers that
keep to their own ids at distinct times says so (`Careful => ...`). GStreamer may
refuse any state change. `mlops_node_finalize` is called when no other call is running,
as in the daemon and as the Android library requires.

### AndroidAgent

The functions for models and resources only call `svcdb_*`, so this module has the
rest: `ml_agent_initialize` and `ml_agent_finalize` (`life`, in the order of
`mlops-agent-internal.c`, with the assertion on the table, which a failed initialization and a
finalization without a table meet), and the functions for pipelines. `DB` and `Node` are instances of `ServiceDB`
and `MlopsNode` with variables of their own; `Launch` starts `mlops_node_create` and the
`svcdb_pipeline_get` in it, `Statement` is a statement of either, and `Parse` takes the
description over. `hist`, `mine` and `acked` are history: what has been written under a
name, and what a thread has been told.

### AgentLifecycle

`pc` walks through `main`; `Modules` and `Handlers` are the registered modules and
the method handlers of each; `MayFail` says which steps of start-up may fail.
`GiveUp` is the clean-up of a failed probe. `Sigterm` is the signal: the default
action kills before `signal (SIGTERM, handle_sigterm)`, the handler quits a running
loop after it, ignores a loop that does not run, and may crash between
`g_main_loop_unref` and `g_mainloop = NULL`.

Calls wait in `inbox`, held by the bus while the name has no owner, in the main
context of the owner otherwise, until the loop dispatches them. `inbox` is a set of
numbered calls, and `Oldest` the one that is next: the bus keeps the order in which
calls were made. `GrantName` is the bus
making the daemon the owner; `ActivationFails` is the bus giving up. `Finalize` is
`ml_agent_finalize` and `Exit` the return of `main`: the code never gives the name up, so it is
owned without database and table in between, and calls come that no loop dispatches. At the
end of the process the name goes, and with it the calls it had received. `Restart` begins the
next process. The mapping to `BusService` reads `up` off `name` and forgets the modules.

### AgentIpc

The 18 client functions have one shape; those for pipelines stand for all, as six operations:
set, get and delete under a name, launch a pipeline by its name, use one (start, stop, state)
and destroy one by its id. A call has a number. `nodes` are the pipelines in the memory of the
daemon. The stamp of a launch goes up across restarts of the daemon, because the monotonic
clock is the machine's. `Timeout` stands for every way in which the synchronous call ends
without a reply, and leaves the message where it is. The function then returns `ret`, which
nothing has set: `LeaveUnset`. GDBus brings a reply to the call it belongs to and drops it
when nobody waits any more (`Awaited`); this is external and assumed.

How messages fare is not said again: `up`, `mail`, `answered` and `failed` change by the actions of
`BusService` and no others. Calls are held, refused at once, answered in their order, answered
with an error, lost with the daemon or with a failed activation, just as `BusService` allows,
and the daemon of `AgentLifecycle` implements `BusService` (`ImplementsBusService`).

The database is that of `SqliteConn`: `disk` is the file, `work` what the connection sees, and
an entry is the number of the set call in force, 0 for none. A handler is one step, in which
one statement may fail (`Failures`, at most `MaxFaults` times). As in `ServiceDB` a failing INSERT
or END leaves the transaction open: later sets are refused, later deletes run inside it, are
answered 0 and come back when the daemon dies. `lasts` marks the calls executed outside such a
transaction, and `acked` remembers only these: `ReadsAreNotStale` makes no claim for a delete
that ran inside one, and `db_lost_delete` shows why it cannot.

### PluginParser

`Config[p]` is the content of `rpk_config.json`, flattened to items in order; a
resource item has paths. A row of the store carries the package or the `app_info`
it was registered with. `pc` is the call the plugin makes next, `found` the versions
`ml_agent_model_get_all` has listed. Any call may fail with or without its effect
(a call without a reply). Applications use the items of the
packages at any time: they register and delete versions, set and delete pipelines, add and
delete resources. `taken` remembers the rows of a package they deleted or replaced.
`phase[p]` is what the package manager has been told; it calls `RECOVER<X>` after X has
failed. `base[p]` is history: the rows of p when the INSTALL that its recovery would undo
began. `PluginConfig` names the shape of a configuration; an item without a name or with an
empty path fails at its call like an unsupported one, and stands for it. Which version is
active is left out: `ServiceDB` has it.

`_uninstall_rpk` looks at the `app_info` of each listed version. An empty one and a JSON
object whose `is_rpk` is `F` are passed over (`Skipped`); what is no JSON object (`garbage`) and
an object without `is_rpk` (`bare`) end the removal of the model (`Cutting`, `job.cut`);
everything else counts as an rpk's and is deleted. The rows come in any order, because the
SELECT of `get_all` names none.
`Resolved` is the loop with which the client library completes the paths of
package versions in what `get_all` lists (`_resolve_rpk_path_in_json`), as a fold over
the rows that takes the newest one (`Newest`) last; `PathsAreResolved` compares it with a
definition without a loop, in every state and for every set of packages an application may
read. The fold takes the rows in the order of
their versions, that of the primary key by which SQLite finds the rows of one name. To this loop
`F` and `bare` are nothing (`Passed`), and the rest ends it. In the run applications register
with the empty `app_info`, which the plugin skips and the loop ends at, and with `bare`, for which it
is the other way round; the proofs are for all kinds.

## 3. Runs

| run | question | bounds |
|---|---|---|
| `db_store_models`, `db_store_rest` | does one caller see the abstract store? | 1 name, 2 paths for resources, 3 versions, 1 failure, 1 crash |
| `db_faults` | with every failing write and END: are requests all or nothing, are acknowledged sets durable, does an active version survive? | 2 versions, 1 failure, 1 crash |
| `db_threads` | two threads on one connection | 2 versions, 1 failing write, 1 crash, symmetry of threads |
| `node_threads` | two threads, careful ones or not: is a freed node used, do pipelines stay up, who frees a node, do calls return? | 2 cells, 2 times, 6 calls |
| `android_launch` | two threads set, delete and launch one name, with initialize and finalize: what does a launch run? | 2 descriptions, 2 changes, 3 node calls, 1 failing open or BEGIN |
| `life_start` | start-up, shutdown and the next start with every failure; what becomes of the calls? | 3 modules of 2 handlers, 3 calls, 2 SIGTERMs, 2 starts |
| `ipc_order` | two clients, time-outs, failing statements, a death and activation: are calls executed in order and once, what do clients read, whose pipelines do they use? | 2 clients, 1 name, 3 calls and an earlier boot, 1 failing statement, 1 death |
| `plugin_items` | packages, failures and applications that use the same models, pipelines and resources | 3 packages, 2 versions, 1 failure, 3 events |

The bounds are the smallest at which the interesting cases happen: two versions for
a change of the active one, three for a hole in the numbers; two threads for every
race; two cells, the second to replace or outlive the first; three calls so that a
late execution and a late reply can meet a later call of the same client and of
another, or a launch, a death and a launch by somebody else a use of the first id; three
calls to the daemon so that one is being dispatched, one waits and one comes for the
next process; two changes of a description, one before and one during a launch; three
events for an installation, its recovery or removal, and one more.
Each property has a mutant of the modelled code that breaks it under the run's own
bounds.

Runs that expect a violation, each a disagreement between the code and a sentence of
the repository (`PROJECT.json` quotes it):

| run | what the trace shows |
|---|---|
| `db_lost_delete` | a delete that answered 0 is undone by a crash, because it ran inside a transaction that an earlier failed call had left open |
| `life_bad_start` | a failing start-up aborts on `g_assert (g_mlops_node_table != NULL)` |
| `ipc_unset_ret` | a call without a reply may return 0 |

Some properties hold only on one side of a line that the models can cross by changing
a constant of the run's configuration:

* `ActiveModelPersists` fails with `"read"` among the failures of `db_faults` (a failing
  SELECT in `is_model_activated` counts as "not active", service-db.cc:702), and with two
  callers, among others when the version is activated between that SELECT and the DELETE
  (service-db.cc:712): both ways a delete without force takes the active version;
* `LaunchedStaysUp` and `NoUseAfterFree` fail when two launches read the same time, or
  when threads pass each other's ids;
* `LaunchSeesOwnSet` fails with `"write"` among the failures of `android_launch`: a
  delete that was acknowledged inside an abandoned transaction is rolled back by the next
  `ml_agent_initialize`, and the pipeline is launched again;
* `InstalledIsComplete` fails when two packages list a model, pipeline or resource of the
  same name (the removal of one takes the rows of the other along), and
  `RecoveryUndoesInstall` when a pipeline is listed twice, in one package or in two
  (undoing the second copy finds nothing to delete and stops there); the plugin checks
  neither;
* asking for version `G_MAXUINT` answers with the active model: the abstract store
  has this number as `Minus1`;
* in `AgentLifecycle`, a SIGTERM between `signal ()` and `g_main_loop_run` is forgotten;
  `TermEndsLoop` therefore starts from a loop that was running.

Deadlock is checked in the database runs. In the others the system may stop: the
calls are bounded, and a process exits.

## 4. Fairness

`MlopsNode`: weak fairness of each thread's step inside a call, that is, the
scheduler runs every thread. Neither lock is assumed fair. Each thread makes
finitely many calls, so a waiting thread is not overtaken for ever; what could
remain is a real deadlock.

`AgentLifecycle`: weak fairness of the main thread, inside and outside the loop. Inside
`g_main_loop_run` the loop looks at `is_running` after each dispatch, so leaving it is
not delayed by waiting calls, and it dispatches what is there as long as it runs. The
bus waits for an activation only so long (its time-out is part of `dbus-daemon`), so
calls that are held either reach an owner or fail.

Nothing is assumed of clients, signals, failures, restarts or the name on the bus.

## 5. Proofs

The theorems hold for any sets of threads, callers, cells, names, descriptions, modules
and packages, any numbers of failures, crashes and calls. What they assume is in the
`ASSUME`s of the modelled modules, which TLC evaluates in every run, and, where a theorem
needs more, in its own `ASSUME`: `Solo`, `RollsBack`, `Quiet`, `NamesApart`, `PipelinesApart`,
each explained below. Every inductive invariant was first checked with TLC under the bounds of
the component's run.

**Database, any callers** (`ServiceDBProofs`): `TypeCorrect`, `OneActiveModel`,
`FreshVersions` and `Exclusion`, that is `TypeOK`, one active version per model, no
version given twice, and no overlap of transactions. Assumed are natural bounds with
`MaxVersion <= GintMax`, that the empty string is no name, and `RollbackAssumption`.

None of the four is inductive. That a version may be flagged active is safe only
because all flags of the name were cleared by an earlier statement of the same
transaction and nobody has set one since. Hence `IInv` adds: outside a transaction
`work = disk`; a request under way passed its checks; and `Cleared(c)`, that at the
statement which sets a flag no version of the name is active in `work`. `Cleared` is
kept against other threads by two facts: their transactions exclude each other, and
what runs outside a transaction (a DELETE) only removes model rows. `StoreStep`
captures just that: a statement leaves the store alone, or shrinks the models
outside the caller's transaction, or writes good rows inside it, or begins, ends or
rolls back. `CallerStep` proves from `StoreStep` and `Local` that `IInv` survives; one
lemma per kind of statement (`CheckStep`, `BeginStep`, `WriteStep`, ...) and one per
operation establish them; `NextInv` adds calls, opening, closing and crashes.

**Database, one call at a time** (`ServiceDBCallProofs`): `SetsAreDurable` and
`ActivePersists` state `AcknowledgedSetsAreDurable` and
`ActiveModelPersists`. `Solo` is that there is one caller, as in the daemon; with two, TLC
refutes both. The second also assumes that `"read"` is not among the failures, for the reason
given in section 3. `SoloInv` adds to `IInv` how far the call has come: what its checks
found still holds (`Rechecked`, `Unflagged`), what its statements wrote is in `work` when
END commits it (`Written`, `Counted`), and every name with an active version in `disk`
has one in `work`, except the name whose flag the call is moving (`KeepsFlags`).

**Database, refinement** (`ServiceDBRefinementProofs`): `RefinesTables` states
`TablesChangeAtomically`, under `Solo` (TLC refutes it with two callers) and with every kind of
failure, failing reads included. `Whole` says what a request makes of the tables, in rows. The
invariant `RInv` adds to `SoloInv` what the statements so far have made of `work`
(`Half`: nothing, or the flags of the name cleared, or all), and the keys of pipelines and
resources (`Keys`); it follows that a step changes `disk` by `Whole` of one request or not at
all (`Changed`). There is one lemma per request that `Whole` is its effect in `MLServiceStore`.
The one for `set_resource` is the long one: the abstract list is numbered by counting
rowids, so `Places` shows, from the library's theorems on cardinality, that places number the rows
without a gap, `AddLast` that a row with the largest rowid is appended, and `RemoveOne` that
the rows behind a removed one move up.

`RefinesStore` states `ImplementsStore`, the whole refinement, under `Solo` and `RollsBack`, that
the failures are those of opening, of BEGIN and those that roll back by themselves. Both are
needed: what an abandoned transaction has written shows in later answers, and a failing read in
a check answers `EINVAL`, as if the row were missing. `Missing` says in rows what the store
refuses, `Found` what its reads print; `RefusedIsMissing` and `PrintedFound` relate them to the
abstract store. The invariant `AInv` adds `Asked` to `RInv`: what a check has
found is still so when the statement that takes effect runs, and the version that
`set_model` will answer is the next one of the file. A step then does not show (`Stutters`),
refuses or fails (`RefusesKept`, `FailsKept`), or is the one in which effect and answer come
together (`EndKept`, `DeleteKept`, `SelectKept`); there is a lemma per operation, and `OperationKept`
collects them.

`DeletesAreDurable` states `AcknowledgedDeletesAreDurable` under the same assumptions: when
`sqlite3_changes` is asked, the rows are gone from the file (`DInv`). The run `db_lost_delete` shows
the property violated with a failing write; the theorem shows that one caller
loses no delete when failing writes take their transaction with them, as a ROLLBACK in the error
paths would have it.

**Node table** (`MlopsNodeProofs`): `TypeCorrect`, `UseAfterFreeSafe`, `LeakFree`,
`LaunchedStaysUpSafe`, and `OwnIdOnly` for `StateChangesByOwnId`. `IInv` says what holds
between two critical sections. `LocksOK`: who has which lock, and that finalize is alone.
`CellsOK`: a node that lives is in the table under its id, or with the one thread that is
freeing it, or with its maker. `Ownership`, for careful callers: an id is known to one thread,
is in the table as long as it is known, and leads to the cell that a call of its owner
has looked up. Without it `NoUseAfterFree` is not inductive, because the pointer a
call took under the lock of the table says nothing after the unlock. `LeakFree` needs `CellsOK`
only: with any callers, a cell that is being freed is allocated, out of the table and no other
thread's, so that it is freed once.

**Life cycle** (`AgentLifecycleProofs`): `TypeCorrect`, `ProbedWhole`, `NamedWhenReady`,
`CleanExit`, `ServedSafely`, and `IsBusService`, that the daemon implements `BusService`.
`IInv` follows the main thread section by section: which of database, table, connection
and loop exist (`ServicesOK`), since when there is a name (`NameOK`), which modules are
still to be visited (`VisitOK`), and what each module has (`ModuleOK`). The refinement maps a
step of the bus, a dispatch and the end of a process to a step of `BusService` each, and all of
start-up and shutdown to a stutter; only that a call is answered at most once and by
an owner of the name needs the invariant.

**Calls** (`AgentIpcProofs`): `TypeCorrect`, `CallsKeepOrder`, `IdsStayOwn` and
`ReadsAreFresh`, whatever statements fail. The
invariant is about the history of executed calls: calls are executed in the order of their numbers
and those in the queue come after (`InOrder`), a reply is that of an executed call (`Replied`),
an id has one launch and only its client uses it (`PipesOK`), and what file and connection have
or a client has read was written by the last write that is to last, or a later one (`StoreOK`,
`ReadOK`, `AckedOK`). `OutcomeEffect` says of a call, whatever statement of it fails, what it may
make of the two tables.
The stamp of a launch is fresh because it counts launches (`Launches`), over all
processes of the daemon.

**Android library** (`AndroidAgentProofs`): `TypeCorrect`, `AllOrNothing`, `OwnSetSeen`,
`RefusedUnseen`. A step of the composition is a step or a stutter of `ServiceDB` and of `MlopsNode`, so
the first conjunct of `IInv` is the invariants of both, kept by the lemmas `NextInv` of their
proof modules. To them it adds how far the two parts are up (`LifeOK`, `DownOK`), which
statement belongs to which call (`CallOK`), and that the histories have an entry for what
a thread was told (`HistOK`). `OwnSetSeen` and `RefusedUnseen` (`LaunchSeesOwnSet`,
`RefusedSetsAreUnseen`) need that the table shows the latest entry of the history
(`RowsOK`) and that a description just read is among the entries since the caller's own (`ReadOK`). Both assume
`Quiet`, that only opening and BEGIN fail, since an abandoned transaction breaks them (section 3).

**Plugin** (`PluginParserProofs`): `TypeCorrect`, `AppVersionsSafe`, `RemovedGone` without further
assumption. `IInv` relates the call under way to the package (`JobOK`), what was
listed to what is there or was taken away by an application (`FoundOK`), every row of a
package to an item of its configuration (`Listed`), and in a removal, the rows left to the items
not yet visited (`Removing`). `InstalledComplete` needs `CInv`: a package at rest
has all of its items (`Complete`), and an installation has registered the items it is past
(`Installing`). It assumes `NamesApart`. `RecoveryUndone` needs `UInv`: RECOVERINSTALL
visits the items from the first and stops at the first it cannot delete, so INSTALL must have added
nothing behind such an item: there is a place `hi` before which every item can be deleted (`Kept`)
and behind which nothing was added (`Added`), in the failed installation (`Stopped`) and all
along the undoing of it (`Undoing`). It assumes `PipelinesApart`. TLC finds both
properties violated by configurations that break these assumptions.

`PathsResolved` (`PathsAreResolved`) is about what a loop computes for any number of rows, an
induction over data. It is done by contradiction: the library's theorem on well-founded sets
gives the smallest number of rows for which the loop goes wrong (`Least`), and `OneTurn` shows
that taking the newest row away leaves a smaller one. `Outcome` is what the loop has at the
end, said without a loop, `LoopOutcome` that it has this, `ResolvedPaths` that the
property follows.

What the proofs found in the models: "after RECOVERINSTALL no row of the package is
left" held only because of the bound of one failure. An uninstallation ignores a failing delete of a
resource, and a later RECOVERINSTALL leaves that row too; `RecoveryUndoesInstall` says what the code
achieves, that nothing is left which the installation added. The end of an event was a CASE with
overlapping arms, of which TLC takes the first and TLA+ any.

Only model-checked are the three liveness properties, `CallsReturn`, `TermEndsLoop` and
`EveryCallReturns`: they rest on fairness, and the provers at hand have no rules for ENABLED.

## 6. Not modelled

* the D-Bus XML, bus policy, packaging, build files, logging: no state of their own;
* printing of JSON and key prefixes: conversions that no property is about;
* the inside of SQLite, GLib, GDBus and GStreamer, beyond what the calls rely on:
  among them whether `g_main_loop_quit` may be called from a signal handler, and what
  a NULL string in a reply does;
* the creation of tables in `initDB`: one transaction before any request, whose
  failure closes the database;
* claims about what the models can do and nothing in the repository promises to avoid:
  a launch that timed out and runs under an id nobody was given, a register made twice,
  the rows of others that `ml_agent_resource_delete` takes along, the answer of a
  delete beside other threads. The wrong one of system and session bus is a proxy whose
  call fails.

## 7. Plan

Modelled and checked, in this order: the database, its abstract store and refinement;
the node table; the life cycle with restarts; calls over D-Bus with activation, and
`BusService` between the two; the Android composition; the plugin with the resolution
of paths. Proved: all safety invariants and action properties of every component, the
refinement of `BusService` by the daemon, and that of `MLServiceStore` by the database, its tables under every failure and its answers
under the failures for which they are right.

What is left is liveness, which TLC checks.
