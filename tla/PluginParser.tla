----------------------------- MODULE PluginParser -----------------------------
(***************************************************************************)
(* plugin-parser/mlops-plugin-parser.cc: Tizen's package manager calls the *)
(* plugin when a resource package (rpk) is installed, upgraded or removed, *)
(* and the plugin registers or deletes what rpk_config.json lists through  *)
(* the client library, one call after the other.  Any call may fail, with  *)
(* or without its effect; applications use the same store meanwhile.       *)
(***************************************************************************)
EXTENDS Integers, Sequences, FiniteSets, SequencesExt

CONSTANTS
    Packages,     \* the packages
    Rpks,         \* those of type rpk
    Config,       \* Config[p]: the items of rpk_config.json, member by member
    AppInfos,     \* app_info of the models that applications register, see Skipped and Cutting
    MaxVersion,   \* bound on model versions
    MaxFaults,    \* bound on failing calls
    MaxJobs       \* bound on calls of the plugin

ASSUME PluginBounds == MaxVersion \in Nat /\ MaxFaults \in Nat /\ MaxJobs \in Nat
ASSUME PluginValues ==
    /\ Rpks \subseteq Packages
    /\ AppInfos \subseteq {"", "F", "bare", "garbage", "T"}
    /\ {"", "F", "bare", "garbage", "T"} \cap Packages = {}

\* An item without a name or with an empty list of paths fails both events, as
\* a member of an unsupported type does.
ASSUME PluginConfig ==
    \A p \in Packages :
        /\ Config[p] \in Seq(Range(Config[p]))
        /\ \A item \in Range(Config[p]) :
              /\ item.type \in {"model", "pipeline", "resource", "unsupported"}
              /\ item.type = "resource" => item.paths \in Seq(Range(item.paths)) \ {<<>>}

\* The app_info of models that the plugin leaves alone: empty, or a JSON object
\* whose is_rpk is "F".
Skipped == {"", "F"}

\* Those at which the plugin stops: a JSON object without is_rpk, and what is no
\* JSON object at all.  Whatever has another is_rpk is an rpk's to the plugin:
\* the app_info of a package, and "T" for that of a package that is not there.
Cutting == {"bare", "garbage"}

\* The info of a pipeline or resource that an application has set or added.
Foreign == ""

\* The app_info that names no package and does not stop the resolution of paths.
Passed == {"F", "bare"}

VARIABLES
    models,      \* rows [name, version, info]; info is a package or an app_info
    pipelines,   \* rows [name, info]; info is a package or Foreign
    resources,   \* rows [name, path, info], as well
    phase,       \* phase[p]: "absent", "installed", "lost" or the call that failed
    pc,          \* "idle", "config", "item" or "delete"
    job,         \* the entry point that runs, its package, its event; history: the
                 \* failures before it, and whether a removal in it was cut short
    idx,         \* the next item of the configuration
    pidx,        \* the next path of a resource item
    found,       \* the rows _uninstall_rpk still has to look at
    taken,       \* history: rows of a package that applications have deleted or replaced
    base,        \* history: base[p], what the store had of p when it was last to be installed
    faults, jobs

store == <<models, pipelines, resources>>
vars == <<store, phase, pc, job, idx, pidx, found, taken, base, faults, jobs>>

NoJob == [entry |-> "none", pkg |-> "", event |-> "none", again |-> FALSE,
          before |-> 0, cut |-> FALSE]

Entries == {"INSTALL", "UNINSTALL", "UPGRADE", "RECOVERINSTALL", "RECOVERUPGRADE",
            "RECOVERUNINSTALL"}

ItemsOf(p) == Range(Config[p])

Items(type) == {x \in UNION {ItemsOf(p) : p \in Packages} : x.type = type}

Models == {x.name : x \in Items("model")}

Item == Config[job.pkg][idx]

ModelRow(n, v, info) == [name |-> n, version |-> v, info |-> info]
PipelineRow(n, info) == [name |-> n, info |-> info]
ResourceRow(n, path, info) == [name |-> n, path |-> path, info |-> info]

\* What the store has of package p.
Of(p) == {x \in models \cup pipelines \cup resources : x.info = p}

TypeOK ==
    /\ models \subseteq [name : Models, version : 1..MaxVersion, info : Packages \cup AppInfos]
    /\ \A x \in resources \cup pipelines : x.info \in Packages \cup {Foreign}
    /\ \A x \in taken : x.info \in Packages
    /\ phase \in [Packages -> {"absent", "installed", "lost"} \cup Entries]
    /\ pc \in {"idle", "config", "item", "delete"}
    /\ pc = "idle" <=> job = NoJob
    /\ pc \in {"item", "delete"} => idx \in 1..(Len(Config[job.pkg]) + 1)
    /\ pidx \in Nat \ {0}
    /\ found \subseteq [name : Models, version : 1..MaxVersion, info : Packages \cup AppInfos]
    /\ DOMAIN base = Packages
    /\ faults \in 0..MaxFaults /\ jobs \in 0..MaxJobs

-----------------------------------------------------------------------------
(* The calls of the client library. *)

Works == UNCHANGED faults

Fails == faults < MaxFaults /\ faults' = faults + 1

Named(rows, n) == {x \in rows : x.name = n}

Registered(n, info) ==
    LET used == {x.version : x \in Named(models, n)} \cup {0}
    IN  \E v \in 1..MaxVersion :
            /\ v - 1 \in used /\ \A j \in used : j < v
            /\ models' = models \cup {ModelRow(n, v, info)}

\* What an INSTALL event does for the item at idx.
Installed(n, info) ==
    CASE Item.type = "model" ->
           Registered(n, info) /\ UNCHANGED <<pipelines, resources>>
      [] Item.type = "pipeline" ->
           /\ pipelines' = (pipelines \ Named(pipelines, n)) \cup {PipelineRow(n, info)}
           /\ UNCHANGED <<models, resources>>
      [] Item.type = "resource" ->
           LET path == Item.paths[pidx]
               same == {x \in Named(resources, n) : x.path = path}
           IN  /\ resources' = (resources \ same) \cup {ResourceRow(n, path, info)}
               /\ UNCHANGED <<models, pipelines>>

-----------------------------------------------------------------------------
(* _set_pkgmgr_plugin and _get_json_config. *)

\* Mutant: the job is not forgotten.
FinishKeepsJob(code) ==
    /\ idx' = 1 /\ pidx' = 1 /\ found' = {} /\ pc' = "idle"
    /\ UNCHANGED <<job, phase>>

\* An event ends: UPGRADE goes on with INSTALL whatever UNINSTALL returned.
Finish(code) ==
    /\ idx' = 1 /\ pidx' = 1 /\ found' = {}
    /\ IF job.again
       THEN /\ job' = [job EXCEPT !.event = "install", !.again = FALSE]
            /\ pc' = "config"
            /\ UNCHANGED phase
       ELSE /\ job' = NoJob
            /\ pc' = "idle"
            /\ phase' = [phase EXCEPT ![job.pkg] =
                  IF code = 0
                  THEN IF job.entry \in {"UNINSTALL", "RECOVERINSTALL"} THEN "absent" ELSE "installed"
                  ELSE IF job.entry \in {"INSTALL", "UNINSTALL", "UPGRADE"} THEN job.entry ELSE "lost"]

\* The package information and the file: any of them may be missing.
ReadConfig ==
    /\ pc = "config"
    /\ \/ Fails /\ Finish(-1)
       \/ Works /\ job.pkg \notin Rpks /\ Finish(0)
       \/ /\ Works /\ job.pkg \in Rpks
          /\ pc' = "item" /\ idx' = 1 /\ pidx' = 1
          /\ UNCHANGED <<phase, job, found>>
    /\ UNCHANGED <<store, taken, base, jobs>>

NextItem ==
    /\ idx' = idx + 1 /\ pidx' = 1 /\ pc' = "item" /\ found' = {}
    /\ UNCHANGED <<phase, job>>

\* No item is left, or it is of an unsupported type.
EndOfConfig ==
    /\ pc = "item"
    /\ \/ idx > Len(Config[job.pkg]) /\ Finish(0)
       \/ idx <= Len(Config[job.pkg]) /\ Item.type = "unsupported" /\ Finish(-1)
    /\ Works /\ UNCHANGED <<store, taken, base, jobs>>

AtItem(event, types) ==
    /\ pc = "item" /\ job.event = event
    /\ idx <= Len(Config[job.pkg]) /\ Item.type \in types

-----------------------------------------------------------------------------
(* _parse_json *)

\* Mutant: a failing call is only logged.
InstallGoesOn ==
    /\ AtItem("install", {"model", "pipeline", "resource"})
    /\ \/ Works /\ Installed(Item.name, job.pkg)
       \/ Fails /\ UNCHANGED store
    /\ IF Item.type = "resource" /\ pidx < Len(Item.paths)
       THEN pidx' = pidx + 1 /\ UNCHANGED <<phase, pc, job, idx, found>>
       ELSE NextItem
    /\ UNCHANGED <<taken, base, jobs>>

\* ml_agent_model_register, _pipeline_set_description, _resource_add
InstallItem ==
    /\ AtItem("install", {"model", "pipeline", "resource"})
    /\ \/ /\ Works /\ Installed(Item.name, job.pkg)
          /\ IF Item.type = "resource" /\ pidx < Len(Item.paths)
             THEN pidx' = pidx + 1 /\ UNCHANGED <<phase, pc, job, idx, found>>
             ELSE NextItem
       \/ /\ Fails
          /\ Installed(Item.name, job.pkg) \/ UNCHANGED store
          /\ Finish(-1)
    /\ UNCHANGED <<taken, base, jobs>>

\* ml_agent_model_get_all: a model that is not there is skipped.
UninstallModel ==
    LET rows == Named(models, Item.name)
    IN  /\ AtItem("uninstall", {"model"})
        /\ \/ /\ Works /\ rows # {}
              /\ found' = rows
              /\ pc' = "delete"
              /\ UNCHANGED <<phase, job, idx, pidx>>
           \/ Works /\ rows = {} /\ NextItem
           \/ Fails /\ NextItem
        /\ UNCHANGED <<store, taken, base, jobs>>

\* Mutant: a failing pipeline delete is only logged.
UninstallPipelineLogs ==
    LET rows == Named(pipelines, Item.name)
    IN  /\ AtItem("uninstall", {"pipeline"})
        /\ \/ Works /\ pipelines' = pipelines \ rows
           \/ Fails /\ UNCHANGED pipelines
        /\ NextItem
        /\ UNCHANGED <<models, resources, taken, base, jobs>>

\* ml_agent_pipeline_delete: a pipeline that is not there is an error.
UninstallPipeline ==
    LET rows == Named(pipelines, Item.name)
    IN  /\ AtItem("uninstall", {"pipeline"})
        /\ \/ Works /\ rows # {} /\ pipelines' = pipelines \ rows /\ NextItem
           \/ Works /\ rows = {} /\ UNCHANGED pipelines /\ Finish(-1)
           \/ Fails /\ pipelines' \in {pipelines, pipelines \ rows} /\ Finish(-1)
        /\ UNCHANGED <<models, resources, taken, base, jobs>>

\* ml_agent_resource_delete: every path of the name; the result is ignored.
UninstallResource ==
    LET rows == Named(resources, Item.name)
    IN  /\ AtItem("uninstall", {"resource"})
        /\ \/ Works /\ resources' = resources \ rows
           \/ Fails /\ resources' \in {resources, resources \ rows}
        /\ NextItem
        /\ UNCHANGED <<models, pipelines, taken, base, jobs>>

\* Mutant: app_info is not looked at.
DeleteEveryModel ==
    /\ pc = "delete"
    /\ \/ found = {} /\ NextItem /\ UNCHANGED models
       \/ \E x \in found :
            /\ found' = found \ {x}
            /\ models' = {y \in models : y.name # x.name \/ y.version # x.version}
            /\ UNCHANGED <<phase, pc, job, idx, pidx>>
    /\ Works /\ UNCHANGED <<pipelines, resources, taken, base, jobs>>

\* _uninstall_rpk: the rows of the list get_all answered, in any order; a row
\* without a JSON object or without is_rpk ends it, the versions of any rpk are
\* deleted by force.
DeleteModel ==
    /\ pc = "delete"
    /\ \/ found = {} /\ Works /\ NextItem /\ UNCHANGED models
       \/ \E x \in found :
            \/ /\ x.info \in Cutting /\ Works
               /\ found' = {} /\ job' = [job EXCEPT !.cut = TRUE]
               /\ UNCHANGED <<models, phase, pc, idx, pidx>>
            \/ /\ x.info \in Skipped /\ Works
               /\ found' = found \ {x}
               /\ UNCHANGED <<models, phase, pc, job, idx, pidx>>
            \/ /\ x.info \notin Skipped \cup Cutting
               /\ LET rest == {y \in models : y.name # x.name \/ y.version # x.version}
                  IN  \/ Works /\ models' = rest
                      \/ Fails /\ models' \in {models, rest}
               /\ found' = found \ {x}
               /\ UNCHANGED <<phase, pc, job, idx, pidx>>
    /\ UNCHANGED <<pipelines, resources, taken, base, jobs>>

-----------------------------------------------------------------------------
(* PKGMGR_MDPARSER_PLUGIN_*: the package manager calls RECOVER<X> after X  *)
(* has failed; CLEAN and UNDO do nothing.                                  *)

\* Mutant: RECOVERINSTALL tries once more.
EventAgain(entry) ==
    IF entry \in {"INSTALL", "RECOVERINSTALL", "RECOVERUNINSTALL"} THEN "install" ELSE "uninstall"

Event(entry) ==
    IF entry \in {"INSTALL", "RECOVERUNINSTALL"} THEN "install" ELSE "uninstall"

Again(entry) == entry \in {"UPGRADE", "RECOVERUPGRADE"}

MayCall(entry, p) ==
    CASE entry = "INSTALL"                -> phase[p] = "absent"
      [] entry \in {"UNINSTALL", "UPGRADE"} -> phase[p] = "installed"
      [] entry = "RECOVERINSTALL"         -> phase[p] = "INSTALL"
      [] entry = "RECOVERUPGRADE"         -> phase[p] = "UPGRADE"
      [] entry = "RECOVERUNINSTALL"       -> phase[p] = "UNINSTALL"

Plugin ==
    /\ pc = "idle" /\ jobs < MaxJobs
    /\ \E p \in Packages, entry \in Entries :
         /\ MayCall(entry, p)
         /\ job' = [entry |-> entry, pkg |-> p, event |-> Event(entry),
                     again |-> Again(entry), before |-> faults, cut |-> FALSE]
    /\ pc' = "config"
    /\ jobs' = jobs + 1
    /\ taken' = IF job'.entry = "RECOVERINSTALL" THEN taken ELSE {x \in taken : x.info # job'.pkg}
    /\ base' = IF job'.entry = "INSTALL" THEN [base EXCEPT ![job'.pkg] = Of(job'.pkg)] ELSE base
    /\ UNCHANGED <<store, phase, idx, pidx, found, faults>>

\* Applications use what the packages have: they register, set and add items
\* of the same names, and delete them.
Taking(rows) == taken' = taken \cup {x \in rows : x.info \in Packages}

AppRegister ==
    /\ \E n \in Models, info \in AppInfos : Registered(n, info)
    /\ UNCHANGED <<pipelines, resources, taken>>

AppDelete ==
    /\ \E x \in models : models' = models \ {x} /\ Taking({x})
    /\ UNCHANGED <<pipelines, resources>>

AppPipeline ==
    /\ \E item \in Items("pipeline"), new \in BOOLEAN :
          LET rows == Named(pipelines, item.name)
          IN  /\ pipelines' = (pipelines \ rows)
                                \cup (IF new THEN {PipelineRow(item.name, Foreign)} ELSE {})
              /\ Taking(rows)
    /\ UNCHANGED <<models, resources>>

AppAddResource ==
    /\ \E item \in Items("resource") : \E path \in Range(item.paths) :
          LET same == {x \in Named(resources, item.name) : x.path = path}
          IN  /\ resources' = (resources \ same) \cup {ResourceRow(item.name, path, Foreign)}
              /\ Taking(same)
    /\ UNCHANGED <<models, pipelines>>

AppDeleteResource ==
    /\ \E item \in Items("resource") :
          LET rows == Named(resources, item.name)
          IN  resources' = resources \ rows /\ Taking(rows)
    /\ UNCHANGED <<models, pipelines>>

App ==
    /\ AppRegister \/ AppDelete \/ AppPipeline \/ AppAddResource \/ AppDeleteResource
    /\ UNCHANGED <<phase, pc, job, idx, pidx, found, base, faults, jobs>>

-----------------------------------------------------------------------------
(* _resolve_rpk_path_in_json: what an application gets from                *)
(* ml_agent_model_get_all.  The paths of a package are relative to a       *)
(* directory that the applications the package lets in may ask for.  The   *)
(* plugin itself is no application and gets the list as it is.             *)

\* Mutant: an app_info that names no package ends the loop too.
ResolveOneStrict(acc, row, reach) ==
    IF ~acc.going THEN acc
    ELSE IF row.info \notin reach THEN [acc EXCEPT !.going = FALSE]
    ELSE [acc EXCEPT !.versions = @ \cup {row.version}]

\* One turn of the loop: it ends at an app_info that is no JSON object, and at a
\* package whose directory the application may not ask for.
ResolveOne(acc, row, reach) ==
    IF ~acc.going \/ row.info \in Passed THEN acc
    ELSE IF row.info \notin reach THEN [acc EXCEPT !.going = FALSE]
    ELSE [acc EXCEPT !.versions = @ \cup {row.version}]

Newest(rows) == CHOOSE x \in rows : \A y \in rows : y.version <= x.version

\* The versions of n whose path an application that reach lets in gets resolved:
\* the last turn is that of the newest version, in the order of the primary key
\* (key, version) by which SQLite finds the rows of a key.
Resolved(n, reach) ==
    MapThenFoldSet(LAMBDA row, acc : ResolveOne(acc, row, reach),
                   [going |-> TRUE, versions |-> {}],
                   LAMBDA row : row, Newest, Named(models, n)).versions

Init ==
    /\ models = {} /\ pipelines = {} /\ resources = {}
    /\ phase = [p \in Packages |-> "absent"]
    /\ pc = "idle" /\ job = NoJob
    /\ idx = 1 /\ pidx = 1 /\ found = {} /\ taken = {}
    /\ base = [p \in Packages |-> {}]
    /\ faults = 0 /\ jobs = 0

Next ==
    \/ Plugin \/ ReadConfig \/ EndOfConfig
    \/ InstallItem \/ UninstallModel \/ UninstallPipeline \/ UninstallResource
    \/ DeleteModel
    \/ App

Spec == Init /\ [][Next]_vars

-----------------------------------------------------------------------------

(* "If app info is empty string, it is not installed from rpk"             *)
(* (mlops-plugin-parser.cc:146): of the model versions applications have   *)
(* registered without claiming to be an rpk, the plugin deletes one only   *)
(* if the version had been an rpk's when get_all listed it, an application *)
(* has deleted it meanwhile and was given the same number again.           *)
AppVersionsSurvive ==
    [][found' # found =>
          \A x \in models \ models' :
             x.info \in Skipped \cup Cutting =>
                \E y \in found : /\ y.name = x.name /\ y.version = x.version
                                 /\ y.info \notin Skipped \cup Cutting
                                 /\ y.info \in Packages => y \in taken]_vars

(* What the store has of the items of a package, or had until an           *)
(* application took it.                                                    *)
Has(p, item) ==
    CASE item.type = "model" ->
           \E v \in 1..MaxVersion : ModelRow(item.name, v, p) \in models \cup taken
      [] item.type = "pipeline" -> PipelineRow(item.name, p) \in pipelines \cup taken
      [] item.type = "resource" ->
           \A path \in Range(item.paths) : ResourceRow(item.name, path, p) \in resources \cup taken
      [] OTHER -> FALSE

(* A package the plugin has reported as installed, at the first try, by an *)
(* upgrade or by recovering a failed removal, is in the store with every   *)
(* item and every path of its configuration, although each took a call     *)
(* that could fail, but for what applications have deleted or replaced.    *)
InstalledIsComplete ==
    \A p \in Rpks : phase[p] = "installed" /\ job.pkg # p =>
        \A item \in ItemsOf(p) : Has(p, item)

(* An application that may ask for the directory of a package finds the    *)
(* full path of each of the package's versions, but for those behind a     *)
(* lower version that somebody registered with an app_info that is no JSON *)
(* object, as "" is, or that is of an rpk it may not ask for.              *)
PathsAreResolved ==
    \A n \in Models : \A reach \in SUBSET Packages :
        \A x \in Named(models, n) :
            x.version \in Resolved(n, reach) <=>
                x.info \in reach /\ \A y \in Named(models, n) :
                                      y.version < x.version => y.info \in reach \cup Passed

(* When INSTALL has stopped at a call that failed, RECOVERINSTALL leaves   *)
(* nothing of what it has registered behind, although it runs the same     *)
(* configuration from the start and gives up at the item INSTALL gave up   *)
(* at, unless calls fail again during the recovery, the app_info of an     *)
(* application, without a JSON object or without is_rpk, has cut the       *)
(* deletes of a model short, or an application has taken a pipeline the    *)
(* recovery then does not find (mlops-plugin-parser.cc:299-301).  What an  *)
(* earlier removal has left may stay.                                      *)
RecoveryUndoesInstall ==
    [][\A p \in Rpks :
          job.entry = "RECOVERINSTALL" /\ job.pkg = p /\ pc' = "idle"
          /\ faults' = job.before /\ ~job.cut
          /\ (\A item \in ItemsOf(p) :
                item.type = "pipeline" => PipelineRow(item.name, p) \notin taken)
             => Of(p)' \subseteq base[p]]_vars

(* The package manager sees a removal succeed only when the pipelines of   *)
(* the package are gone, and its models and resources too, unless one of   *)
(* the calls, whose results the plugin only logs, has failed or the        *)
(* app_info of an application, without a JSON object or without is_rpk,    *)
(* has cut the deletes of a model short.                                   *)
RemovedIsGone ==
    [][\A p \in Rpks :
          job.entry = "UNINSTALL" /\ job.pkg = p /\ pc' = "idle" /\ phase'[p] = "absent" =>
             /\ \A x \in pipelines' : x.info # p
             /\ faults' = job.before /\ ~job.cut => Of(p)' = {}]_vars
=============================================================================
