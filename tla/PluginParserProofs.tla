------------------------- MODULE PluginParserProofs -------------------------
(***************************************************************************)
(* For any packages, configurations, applications and failing calls: what  *)
(* the plugin may delete, what a removal and an undone installation leave, *)
(* what an installed package has, and which paths applications find.       *)
(*                                                                         *)
(* Undone and complete installations relate the rows of the store to items *)
(* the plugin worked on in earlier events, so they need invariants of      *)
(* their own (CInv, UInv) on top of IInv, and that different items do not  *)
(* share a name: the code does not check it, and both fail when two do.    *)
(*                                                                         *)
(* The loop over the versions of a model is a recursive function: Outcome  *)
(* says what it computes, Outcome takes the same turns (OneTurn), and      *)
(* nothing else does, by the least version bound at which two solutions    *)
(* could differ (Least, LoopOutcome).                                      *)
(***************************************************************************)
EXTENDS PluginParser, TLAPS, WellFoundedInduction

\* Item lo..hi of package p that is of this type and has this name.
Lists(p, type, lo, hi, n) ==
    \E i \in DOMAIN Config[p] : i \in lo..hi /\ Config[p][i].type = type /\ Config[p][i].name = n

Size(p) == Len(Config[p])

Running == pc # "idle"

Jobs == [entry : Entries, pkg : Packages, event : {"install", "uninstall"},
         again : BOOLEAN, before : 0..MaxFaults, cut : BOOLEAN]

\* The event belongs to the entry point, and the item is one of the package.
JobOK ==
    /\ Running =>
          /\ job \in Jobs /\ job.before <= faults
          /\ phase[job.pkg] = "INSTALL" <=> job.entry = "RECOVERINSTALL"
          /\ \/ job.event = Event(job.entry) /\ job.again = Again(job.entry)
             \/ job.event = "install" /\ Again(job.entry) /\ ~job.again
    /\ pc \in {"item", "delete"} => job.pkg \in Rpks
    /\ pc = "item" /\ idx <= Size(job.pkg) /\ Item.type = "resource" => pidx \in 1..Len(Item.paths)
    /\ pc = "delete" => job.event = "uninstall" /\ idx <= Size(job.pkg) /\ Item.type = "model"

SameKey(x, y) == x.name = y.name /\ x.version = y.version

UniqueVersions == \A x, y \in models : SameKey(x, y) => x = y

\* What get_all has listed is there, unless an application took it away.
FoundOK ==
    /\ UniqueVersions
    /\ \A x, y \in found : SameKey(x, y) => x = y
    /\ \A y \in found : y.info \in Packages => y \in models \cup taken
    /\ pc # "delete" => found = {}
    /\ \A y \in found : y.name = Item.name

\* The rows of a package are those of items of its configuration.
Listed ==
    /\ \A x \in models : x.info \in Packages => Lists(x.info, "model", 1, Size(x.info), x.name)
    /\ \A x \in pipelines : x.info \in Packages => Lists(x.info, "pipeline", 1, Size(x.info), x.name)
    /\ \A x \in resources : x.info \in Packages => Lists(x.info, "resource", 1, Size(x.info), x.name)

Pending(x) == pc = "delete" /\ x.name = Item.name => x \in found

\* A removal has left no row of the items it is past.
Removing ==
    pc \in {"item", "delete"} /\ job.event = "uninstall" =>
        /\ \A x \in pipelines : x.info = job.pkg =>
              Lists(job.pkg, "pipeline", idx, Size(job.pkg), x.name)
        /\ faults = job.before => \A x \in resources : x.info = job.pkg =>
              Lists(job.pkg, "resource", idx, Size(job.pkg), x.name)
        /\ faults = job.before /\ ~job.cut => \A x \in models : x.info = job.pkg =>
              Lists(job.pkg, "model", idx, Size(job.pkg), x.name) /\ Pending(x)

IInv == TypeOK /\ JobOK /\ FoundOK /\ Listed /\ Removing

Resting(p) == pc = "idle" \/ job.pkg # p

\* InstalledIsComplete, also between the events of the package itself.
Complete ==
    \A p \in Rpks : phase[p] = "installed" /\ Resting(p) =>
        \A i \in DOMAIN Config[p] : Has(p, Config[p][i])

\* An installation has registered the items and paths it is past.
Installing ==
    pc = "item" /\ job.event = "install" =>
        /\ \A i \in DOMAIN Config[job.pkg] : i < idx => Has(job.pkg, Config[job.pkg][i])
        /\ idx <= Size(job.pkg) /\ Item.type = "resource" =>
              \A k \in 1..(pidx - 1) :
                 ResourceRow(Item.name, Item.paths[k], job.pkg) \in resources \cup taken

CInv == IInv /\ Complete /\ Installing

\* No two packages have a model, pipeline or resource of the same name.
NamesApart ==
    \A p, q \in Rpks : p # q =>
        \A i \in DOMAIN Config[p], j \in DOMAIN Config[q] :
            Config[p][i].type = Config[q][j].type /\ Config[p][i].type # "unsupported" =>
                Config[p][i].name # Config[q][j].name

\* Undoing the items of p from lo on does not stop before hi, unless an
\* application has taken a pipeline.
Kept(p, lo, hi) ==
    \A i \in DOMAIN Config[p] : i \in lo..(hi - 1) =>
        /\ Config[p][i].type # "unsupported"
        /\ Config[p][i].type = "pipeline" =>
              PipelineRow(Config[p][i].name, p) \in pipelines \cup taken

\* What p has beside base is of the items lo..hi.
Added(p, lo, hi) ==
    /\ \A x \in models : x.info = p => x \in base[p] \/ Lists(p, "model", lo, hi, x.name)
    /\ \A x \in pipelines : x.info = p => x \in base[p] \/ Lists(p, "pipeline", lo, hi, x.name)
    /\ \A x \in resources : x.info = p => x \in base[p] \/ Lists(p, "resource", lo, hi, x.name)

Undoable(p, lo) == \E hi \in 1..(Size(p) + 1) : Kept(p, lo, hi) /\ Added(p, lo, hi)

\* INSTALL has failed and RECOVERINSTALL has not started on an item.
Stopped == \A p \in Rpks :
    phase[p] = "INSTALL" /\ (pc = "config" \/ Resting(p)) => Undoable(p, 1)

\* RECOVERINSTALL is under way and no call of it has failed.
Undoing ==
    pc \in {"item", "delete"} /\ job.entry = "RECOVERINSTALL" /\ faults = job.before /\ ~job.cut =>
       /\ Undoable(job.pkg, idx)
       /\ \A x \in models : x.info = job.pkg => x \in base[job.pkg] \/ Pending(x)

\* INSTALL is under way.
Doing ==
    /\ pc = "config" /\ job.entry = "INSTALL" => Of(job.pkg) \subseteq base[job.pkg]
    /\ pc = "item" /\ job.entry = "INSTALL" => Kept(job.pkg, 1, idx) /\ Added(job.pkg, 1, idx)

UInv == IInv /\ Stopped /\ Undoing /\ Doing

\* No pipeline is listed twice, in one configuration or in two.
PipelinesApart ==
    \A p, q \in Rpks : \A i \in DOMAIN Config[p], j \in DOMAIN Config[q] :
        /\ Config[p][i].type = "pipeline" /\ Config[q][j].type = "pipeline"
        /\ Config[p][i].name = Config[q][j].name
        => p = q /\ i = j

-----------------------------------------------------------------------------
(* The configurations. *)

(* A configuration is a sequence of items, and a resource has paths.       *)
LEMMA Shapes ==
    ASSUME NEW p \in Packages
    PROVE  /\ Size(p) \in Nat /\ DOMAIN Config[p] = 1..Size(p)
           /\ \A i \in DOMAIN Config[p] :
                 /\ Config[p][i].type \in {"model", "pipeline", "resource", "unsupported"}
                 /\ Config[p][i].type = "model" => Config[p][i].name \in Models
                 /\ Config[p][i].type = "resource" =>
                       /\ Len(Config[p][i].paths) \in Nat \ {0}
                       /\ DOMAIN Config[p][i].paths = 1..Len(Config[p][i].paths)
<1>1. Config[p] \in Seq(Range(Config[p]))
  BY PluginConfig
<1>2. Size(p) \in Nat /\ DOMAIN Config[p] = 1..Size(p)
  BY <1>1 DEF Size
<1>3. ASSUME NEW i \in DOMAIN Config[p]
      PROVE  /\ Config[p][i].type \in {"model", "pipeline", "resource", "unsupported"}
             /\ Config[p][i].type = "model" => Config[p][i].name \in Models
             /\ Config[p][i].type = "resource" =>
                   /\ Len(Config[p][i].paths) \in Nat \ {0}
                   /\ DOMAIN Config[p][i].paths = 1..Len(Config[p][i].paths)
  <2>. DEFINE item == Config[p][i]
  <2>1. item \in Range(Config[p])
    BY DEF Range
  <2>2. /\ item.type \in {"model", "pipeline", "resource", "unsupported"}
        /\ item.type = "resource" => item.paths \in Seq(Range(item.paths)) \ {<<>>}
    BY <2>1, PluginConfig
  <2>3. ASSUME item.type = "model" PROVE item.name \in Models
    <3>1. item \in Items("model")
      BY <2>1, <2>3 DEF Items, ItemsOf
    <3>. QED
      BY <3>1 DEF Models
  <2>4. ASSUME item.type = "resource"
        PROVE  Len(item.paths) \in Nat \ {0} /\ DOMAIN item.paths = 1..Len(item.paths)
    BY <2>2, <2>4
  <2>. QED
    BY <2>2, <2>3, <2>4
<1>. QED
  BY <1>2, <1>3

(* The item the plugin is at.                                              *)
LEMMA AtItemShape ==
    ASSUME TypeOK, JobOK, pc \in {"item", "delete"}, idx <= Size(job.pkg)
    PROVE  /\ job.pkg \in Packages /\ job.pkg \in Rpks
           /\ Size(job.pkg) \in Nat /\ DOMAIN Config[job.pkg] = 1..Size(job.pkg)
           /\ idx \in DOMAIN Config[job.pkg]
           /\ Item.type \in {"model", "pipeline", "resource", "unsupported"}
           /\ Item.type = "model" => Item.name \in Models
           /\ Item.type = "resource" =>
                 /\ Len(Item.paths) \in Nat \ {0}
                 /\ DOMAIN Item.paths = 1..Len(Item.paths)
<1>1. job.pkg \in Packages /\ job.pkg \in Rpks
  BY PluginValues DEF JobOK
<1>2. idx \in 1..(Size(job.pkg) + 1)
  BY DEF TypeOK, Size
<1>3. idx \in DOMAIN Config[job.pkg]
  BY <1>1, <1>2, Shapes
<1>. QED
  BY <1>1, <1>3, Shapes DEF Item

(* Listing fewer items lists less.                                         *)
LEMMA ListsWider ==
    ASSUME NEW p \in Packages, NEW t, NEW n, NEW lo \in Int, NEW hi \in Int,
           NEW lo2 \in Int, NEW hi2 \in Int, lo2 <= lo, hi <= hi2, Lists(p, t, lo, hi, n)
    PROVE  Lists(p, t, lo2, hi2, n)
BY Shapes DEF Lists

(* An item that does not match can be left out.                            *)
LEMMA ListsNext ==
    ASSUME NEW p \in Packages, NEW t, NEW n, NEW lo \in Int, NEW hi \in Int,
           Lists(p, t, lo, hi, n), ~ (Config[p][lo].type = t /\ Config[p][lo].name = n)
    PROVE  Lists(p, t, lo + 1, hi, n)
BY Shapes DEF Lists

(* What the rows say, and that no application calls itself a package.      *)
LEMMA RowFields ==
    ASSUME NEW n, NEW v, NEW info
    PROVE  /\ ModelRow(n, v, info).name = n /\ ModelRow(n, v, info).version = v
           /\ ModelRow(n, v, info).info = info
           /\ PipelineRow(n, info).name = n /\ PipelineRow(n, info).info = info
           /\ ResourceRow(n, v, info).name = n /\ ResourceRow(n, v, info).path = v
           /\ ResourceRow(n, v, info).info = info
BY DEF ModelRow, PipelineRow, ResourceRow

LEMMA InfosApart ==
    /\ Foreign \notin Packages
    /\ \A info \in Skipped \cup Cutting \cup Passed : info \notin Packages
<1>1. "" \notin Packages /\ "F" \notin Packages /\ "bare" \notin Packages /\ "garbage" \notin Packages
  BY PluginValues
<1>. QED
  BY <1>1, Zenon DEF Foreign, Skipped, Cutting, Passed

-----------------------------------------------------------------------------
(* How an event goes on. *)

LEMMA NoJobEntry == NoJob.entry \notin Entries
<1>1. NoJob.entry = "none"
  BY DEF NoJob
<1>2. "none" \notin Entries
  BY DEF Entries
<1>. QED
  BY <1>1, <1>2

(* Nothing is found, and no removal goes on, when an event is over.        *)
LEMMA FinishStep ==
    ASSUME TypeOK, JobOK, Running, NEW code \in {0, -1}, Finish(code), faults' \in 0..MaxFaults,
           faults' >= faults
    PROVE  /\ phase' \in [Packages -> {"absent", "installed", "lost"} \cup Entries]
           /\ pc' \in {"idle", "config"} /\ (pc' = "idle" <=> job' = NoJob)
           /\ JobOK' /\ found' = {} /\ pidx' = 1
<1>1. job \in Jobs /\ job.entry \in Entries /\ job.pkg \in Packages /\ job.before <= faults
  BY DEF JobOK, Jobs
<1>2. found' = {} /\ idx' = 1 /\ pidx' = 1
  BY DEF Finish
<1>3. CASE job.again
  <2>1. job' = [job EXCEPT !.event = "install", !.again = FALSE] /\ pc' = "config" /\ phase' = phase
    BY <1>3 DEF Finish
  <2>2. job' \in Jobs /\ job'.entry = job.entry /\ job'.pkg = job.pkg
        /\ job'.before = job.before /\ job'.event = "install" /\ job'.again = FALSE
    BY <1>1, <2>1 DEF Jobs
  <2>3. job' # NoJob
    BY <1>1, <2>2, NoJobEntry
  <2>4. Again(job.entry)
    BY <1>3 DEF JobOK
  <2>5. phase'[job'.pkg] = "INSTALL" <=> job'.entry = "RECOVERINSTALL"
    BY <2>1, <2>2 DEF JobOK
  <2>6. job'.before <= faults'
    BY <1>1, <2>2, PluginBounds DEF TypeOK, Jobs
  <2>7. JobOK'
    BY <2>1, <2>2, <2>4, <2>5, <2>6 DEF JobOK, Running
  <2>. QED
    BY <1>2, <2>1, <2>3, <2>7 DEF TypeOK
<1>4. CASE ~job.again
  <2>1. job' = NoJob /\ pc' = "idle"
    BY <1>4 DEF Finish
  <2>2. PICK what \in {"absent", "installed", "lost"} \cup Entries :
           phase' = [phase EXCEPT ![job.pkg] = what]
    <3>1. CASE code # 0
      BY <1>1, <1>4, <3>1 DEF Finish
    <3>2. CASE code = 0
      BY <1>1, <1>4, <3>2 DEF Finish
    <3>. QED
      BY <3>1, <3>2
  <2>3. JobOK'
    BY <2>1 DEF JobOK, Running
  <2>. QED
    BY <1>2, <2>1, <2>2, <2>3 DEF TypeOK
<1>. QED
  BY <1>3, <1>4

(* The plugin goes on to the next item.                                    *)
LEMMA NextItemStep ==
    ASSUME TypeOK, JobOK, pc \in {"item", "delete"}, idx <= Size(job.pkg), NextItem,
           faults' \in 0..MaxFaults, faults' >= faults
    PROVE  /\ phase' = phase /\ job' = job /\ found' = {} /\ idx' = idx + 1
           /\ pc' = "item" /\ pidx' = 1 /\ job' # NoJob
           /\ idx' \in 1..(Size(job.pkg) + 1) /\ JobOK'
<1>1. phase' = phase /\ job' = job /\ found' = {} /\ idx' = idx + 1 /\ pidx' = 1 /\ pc' = "item"
  BY DEF NextItem
<1>2. job \in Jobs /\ job.before <= faults /\ job.entry \in Entries
  BY DEF JobOK, Running, Jobs
<1>3. idx \in 1..Size(job.pkg) /\ Size(job.pkg) \in Nat /\ DOMAIN Config[job.pkg] = 1..Size(job.pkg)
      /\ job.pkg \in Rpks /\ job.pkg \in Packages
  BY AtItemShape
<1>4. job # NoJob
  BY <1>2, NoJobEntry
<1>5. idx' <= Size(job'.pkg) /\ Item'.type = "resource" => pidx' \in 1..Len(Item'.paths)
  <2>1. ASSUME idx + 1 <= Size(job.pkg)
        PROVE  Config[job.pkg][idx + 1].type = "resource" =>
                  Len(Config[job.pkg][idx + 1].paths) \in Nat \ {0}
    BY <1>3, <2>1, Shapes
  <2>. QED
    BY <1>1, <2>1 DEF Item
<1>6. phase'[job'.pkg] = "INSTALL" <=> job'.entry = "RECOVERINSTALL"
  BY <1>1 DEF JobOK, Running
<1>7. job'.before <= faults'
  BY <1>1, <1>2, PluginBounds DEF TypeOK, Jobs
<1>8. JobOK'
  BY <1>1, <1>2, <1>3, <1>5, <1>6, <1>7 DEF JobOK, Running
<1>. QED
  BY <1>1, <1>3, <1>4, <1>8

-----------------------------------------------------------------------------
(* What a call does to the rows. *)

(* A registered version is a new one.                                      *)
LEMMA RegisteredStep ==
    ASSUME TypeOK, NEW n \in Models, NEW info \in Packages \cup AppInfos, Registered(n, info)
    PROVE  \E v \in 1..MaxVersion :
             /\ models' = models \cup {ModelRow(n, v, info)}
             /\ \A x \in models : x.name = n => x.version # v
<1>1. PICK v \in 1..MaxVersion :
         /\ \A j \in {x.version : x \in Named(models, n)} \cup {0} : j < v
         /\ models' = models \cup {ModelRow(n, v, info)}
  BY DEF Registered
<1>2. ASSUME NEW x \in models, x.name = n PROVE x.version # v
  <2>1. x.version \in {y.version : y \in Named(models, n)}
    BY <1>2 DEF Named
  <2>2. x.version < v
    BY <1>1, <2>1
  <2>. QED
    BY <2>2, PluginBounds DEF TypeOK
<1>. QED
  BY <1>1, <1>2

(* Whoever registers, the versions of a model stay different and those of  *)
(* a package are listed in its configuration.                              *)
LEMMA RegisteredRows ==
    ASSUME TypeOK, UniqueVersions, Listed, NEW n \in Models, NEW info \in Packages \cup AppInfos,
           Registered(n, info), pipelines' = pipelines, resources' = resources,
           info \in Packages => Lists(info, "model", 1, Size(info), n)
    PROVE  /\ models' \subseteq [name : Models, version : 1..MaxVersion, info : Packages \cup AppInfos]
           /\ UniqueVersions' /\ Listed' /\ models \subseteq models'
           /\ \A x \in models' \ models : x.name = n /\ x.info = info
           /\ \E v \in 1..MaxVersion : ModelRow(n, v, info) \in models'
<1>1. PICK v \in 1..MaxVersion :
         /\ models' = models \cup {ModelRow(n, v, info)}
         /\ \A x \in models : x.name = n => x.version # v
  BY RegisteredStep
<1>. DEFINE row == ModelRow(n, v, info)
<1>2. row.name = n /\ row.version = v /\ row.info = info
      /\ row \in [name : Models, version : 1..MaxVersion, info : Packages \cup AppInfos]
  BY DEF ModelRow
<1>3. models' = models \cup {row} /\ \E w \in 1..MaxVersion : ModelRow(n, w, info) \in models'
  BY <1>1
<1>. HIDE DEF row
<1>4. models' \subseteq [name : Models, version : 1..MaxVersion, info : Packages \cup AppInfos]
  BY <1>2, <1>3 DEF TypeOK
<1>5. \A x \in models : ~SameKey(x, row) /\ ~SameKey(row, x)
  BY <1>1, <1>2 DEF SameKey
<1>6. UniqueVersions'
  BY <1>3, <1>5 DEF UniqueVersions
<1>7. Listed'
  BY <1>2, <1>3 DEF Listed
<1>. QED
  BY <1>2, <1>3, <1>4, <1>6, <1>7

(* An INSTALL call leaves what the store has but for a row it replaces,    *)
(* and adds a row of the item.                                             *)
LEMMA InstalledRows ==
    ASSUME TypeOK, JobOK, UniqueVersions, Listed, AtItem("install", {"model", "pipeline", "resource"}),
           Installed(Item.name, job.pkg)
    PROVE  /\ models' \subseteq [name : Models, version : 1..MaxVersion, info : Packages \cup AppInfos]
           /\ \A x \in resources' \cup pipelines' : x.info \in Packages \cup {Foreign}
           /\ UniqueVersions' /\ Listed'
           /\ models \subseteq models'
           /\ \A x \in models' \ models :
                 Item.type = "model" /\ x.name = Item.name /\ x.info = job.pkg
           /\ \A x \in pipelines' \ pipelines :
                 Item.type = "pipeline" /\ x.name = Item.name /\ x.info = job.pkg
           /\ \A x \in resources' \ resources :
                 Item.type = "resource" /\ x.name = Item.name /\ x.info = job.pkg
           /\ \A x \in pipelines \ pipelines' : Item.type = "pipeline" /\ x.name = Item.name
           /\ \A x \in resources \ resources' :
                 Item.type = "resource" /\ x.name = Item.name /\ x.path = Item.paths[pidx]
           /\ Item.type = "model" => \E v \in 1..MaxVersion : ModelRow(Item.name, v, job.pkg) \in models'
           /\ Item.type = "pipeline" => PipelineRow(Item.name, job.pkg) \in pipelines'
           /\ Item.type = "resource" =>
                 ResourceRow(Item.name, Item.paths[pidx], job.pkg) \in resources'
<1>. DEFINE p == job.pkg
            n == Item.name
<1>1. pc = "item" /\ idx <= Size(p) /\ Item.type \in {"model", "pipeline", "resource"}
  BY DEF AtItem, Size
<1>2. p \in Packages /\ idx \in DOMAIN Config[p] /\ DOMAIN Config[p] = 1..Size(p)
      /\ (Item.type = "model" => n \in Models)
  BY <1>1, AtItemShape
<1>3. Lists(p, Item.type, 1, Size(p), n)
  BY <1>2 DEF Lists, Item
<1>4. CASE Item.type = "model"
  <2>1. Registered(n, p) /\ pipelines' = pipelines /\ resources' = resources
    BY <1>4 DEF Installed
  <2>2. p \in Packages \cup AppInfos /\ n \in Models
    BY <1>2, <1>4
  <2>3. /\ models' \subseteq [name : Models, version : 1..MaxVersion, info : Packages \cup AppInfos]
        /\ UniqueVersions' /\ Listed' /\ models \subseteq models'
        /\ \A x \in models' \ models : x.name = n /\ x.info = p
        /\ \E v \in 1..MaxVersion : ModelRow(n, v, p) \in models'
    BY <1>3, <1>4, <2>1, <2>2, RegisteredRows
  <2>4. \A x \in resources' \cup pipelines' : x.info \in Packages \cup {Foreign}
    BY <2>1 DEF TypeOK
  <2>. QED
    BY <1>4, <2>1, <2>3, <2>4
<1>5. CASE Item.type = "pipeline"
  <2>. DEFINE row == PipelineRow(n, p)
  <2>1. pipelines' = (pipelines \ Named(pipelines, n)) \cup {row} /\ models' = models
        /\ resources' = resources
    BY <1>5 DEF Installed
  <2>2. row.name = n /\ row.info = p
    BY RowFields
  <2>. HIDE DEF row
  <2>3. \A x \in pipelines \ pipelines' : x.name = n
    BY <2>1 DEF Named
  <2>4. \A x \in pipelines' : x \in pipelines \/ x = row
    BY <2>1
  <2>5. row \in pipelines' /\ PipelineRow(n, p) \in pipelines'
    BY <2>1 DEF row
  <2>6. Listed'
    BY <1>3, <1>5, <2>1, <2>2, <2>4 DEF Listed
  <2>7. UniqueVersions'
    BY <2>1 DEF UniqueVersions
  <2>8. \A x \in resources' \cup pipelines' : x.info \in Packages \cup {Foreign}
    BY <1>2, <2>1, <2>2, <2>4 DEF TypeOK
  <2>. QED
    BY <1>5, <2>1, <2>2, <2>3, <2>4, <2>5, <2>6, <2>7, <2>8 DEF TypeOK
<1>6. CASE Item.type = "resource"
  <2>. DEFINE row == ResourceRow(n, Item.paths[pidx], p)
              same == {x \in Named(resources, n) : x.path = Item.paths[pidx]}
  <2>1. resources' = (resources \ same) \cup {row} /\ models' = models
        /\ pipelines' = pipelines
    BY <1>6 DEF Installed
  <2>2. row.name = n /\ row.info = p /\ row.path = Item.paths[pidx]
    BY RowFields
  <2>3. \A x \in same : x.name = n /\ x.path = Item.paths[pidx]
    BY DEF Named
  <2>. HIDE DEF row, same
  <2>4. \A x \in resources' : x \in resources \/ x = row
    BY <2>1
  <2>5. /\ row \in resources' /\ \A x \in resources \ resources' : x \in same
        /\ ResourceRow(n, Item.paths[pidx], p) \in resources'
    BY <2>1 DEF row
  <2>6. Listed'
    BY <1>3, <1>6, <2>1, <2>2, <2>4 DEF Listed
  <2>7. UniqueVersions'
    BY <2>1 DEF UniqueVersions
  <2>8. \A x \in resources' \cup pipelines' : x.info \in Packages \cup {Foreign}
    BY <1>2, <2>1, <2>2, <2>4 DEF TypeOK
  <2>. QED
    BY <1>6, <2>1, <2>2, <2>3, <2>4, <2>5, <2>6, <2>7, <2>8 DEF TypeOK
<1>. QED
  BY <1>1, <1>4, <1>5, <1>6

-----------------------------------------------------------------------------
(* IInv is inductive. *)

(* An event that is over has nothing left to find or to remove.            *)
LEMMA RestsOK ==
    ASSUME UniqueVersions', found' = {}, pc' \in {"idle", "config"}
    PROVE  FoundOK' /\ Removing'
BY DEF FoundOK, Removing

LEMMA StutterStep == ASSUME IInv, UNCHANGED vars PROVE IInv'
<1>. USE DEF vars, store
<1>1. TypeOK'
  BY DEF IInv, TypeOK
<1>2. JobOK'
  BY DEF IInv, JobOK, Running, Item
<1>3. FoundOK'
  BY DEF IInv, FoundOK, UniqueVersions, Item
<1>4. Listed'
  BY DEF IInv, Listed
<1>5. Removing'
  BY DEF IInv, Removing, Pending, Item
<1>. QED
  BY <1>1, <1>2, <1>3, <1>4, <1>5 DEF IInv

LEMMA PluginStep == ASSUME IInv, Plugin PROVE IInv'
<1>. USE DEF IInv
<1>1. PICK p \in Packages, entry \in Entries :
         /\ MayCall(entry, p)
         /\ job' = [entry |-> entry, pkg |-> p, event |-> Event(entry),
                     again |-> Again(entry), before |-> faults, cut |-> FALSE]
  BY DEF Plugin
<1>2. pc = "idle" /\ pc' = "config" /\ UNCHANGED <<store, phase, idx, pidx, found, faults>>
      /\ jobs < MaxJobs /\ jobs' = jobs + 1
  BY DEF Plugin
<1>3. Event(entry) \in {"install", "uninstall"} /\ Again(entry) \in BOOLEAN
  BY DEF Event, Again
<1>4. job'.entry = entry /\ job'.pkg = p /\ job'.event = Event(entry)
      /\ job'.again = Again(entry) /\ job'.before = faults /\ job' \in Jobs
  BY <1>1, <1>3 DEF Jobs, TypeOK
<1>5. job' # NoJob
  BY <1>4, NoJobEntry
<1>6. phase[p] = "INSTALL" <=> entry = "RECOVERINSTALL"
  BY <1>1 DEF MayCall, Entries
<1>7. TypeOK'
  <2>1. taken' \subseteq taken /\ DOMAIN base' = DOMAIN base
    BY DEF Plugin
  <2>. QED
    BY <1>2, <1>5, <2>1, PluginBounds DEF TypeOK, store
<1>8. JobOK'
  BY <1>2, <1>4, <1>6, PluginBounds DEF JobOK, Running, TypeOK
<1>9. UniqueVersions' /\ found' = {} /\ Listed'
  BY <1>2 DEF store, FoundOK, UniqueVersions, Listed
<1>. QED
  BY <1>2, <1>7, <1>8, <1>9, RestsOK

LEMMA ReadConfigStep == ASSUME IInv, ReadConfig PROVE IInv'
<1>. USE DEF IInv
<1>1. pc = "config" /\ UNCHANGED <<store, taken, base, jobs>> /\ faults' \in 0..MaxFaults /\ faults' >= faults
  BY PluginBounds DEF ReadConfig, Works, Fails, TypeOK
<1>2. UniqueVersions' /\ Listed' /\ Running
  BY <1>1 DEF store, FoundOK, UniqueVersions, Listed, Running
<1>3. CASE Finish(0) \/ Finish(-1)
  <2>1. /\ phase' \in [Packages -> {"absent", "installed", "lost"} \cup Entries]
        /\ pc' \in {"idle", "config"} /\ (pc' = "idle" <=> job' = NoJob)
        /\ JobOK' /\ found' = {} /\ pidx' = 1
    BY <1>1, <1>2, <1>3, FinishStep
  <2>2. TypeOK'
    BY <1>1, <2>1 DEF TypeOK, store
  <2>. QED
    BY <1>2, <2>1, <2>2, RestsOK
<1>4. CASE /\ Works /\ job.pkg \in Rpks /\ pc' = "item" /\ idx' = 1 /\ pidx' = 1
           /\ UNCHANGED <<phase, job, found>>
  <2>1. faults' = faults /\ job.pkg \in Packages /\ job \in Jobs /\ job # NoJob
    BY <1>2, <1>4 DEF Works, JobOK, Jobs, TypeOK, Running
  <2>2. Size(job.pkg) \in Nat /\ DOMAIN Config[job.pkg] = 1..Size(job.pkg)
    BY <2>1, Shapes
  <2>3. TypeOK'
    BY <1>1, <1>4, <2>1, <2>2 DEF TypeOK, store, Size
  <2>4. idx' <= Size(job'.pkg) /\ Item'.type = "resource" => pidx' \in 1..Len(Item'.paths)
    <3>1. ASSUME 1 <= Size(job.pkg), Config[job.pkg][1].type = "resource"
          PROVE  Len(Config[job.pkg][1].paths) \in Nat \ {0}
      BY <2>1, <2>2, <3>1, Shapes
    <3>. QED
      BY <1>4, <3>1 DEF Item
  <2>5. JobOK'
    BY <1>1, <1>4, <2>1, <2>4 DEF JobOK, Running
  <2>6. FoundOK'
    BY <1>1, <1>2, <1>4 DEF FoundOK
  <2>7. Removing'
    BY <1>1, <1>4, <2>1 DEF Removing, Listed, Pending, store
  <2>. QED
    BY <1>2, <2>3, <2>5, <2>6, <2>7
<1>. QED
  BY <1>3, <1>4 DEF ReadConfig

LEMMA EndOfConfigStep == ASSUME IInv, EndOfConfig PROVE IInv'
<1>. USE DEF IInv
<1>1. pc = "item" /\ UNCHANGED <<store, taken, base, jobs>> /\ faults' = faults
  BY DEF EndOfConfig, Works
<1>2. UniqueVersions' /\ Listed' /\ Running /\ faults' \in 0..MaxFaults /\ faults' >= faults
  BY <1>1, PluginBounds DEF store, FoundOK, UniqueVersions, Listed, Running, TypeOK
<1>3. Finish(0) \/ Finish(-1)
  BY DEF EndOfConfig
<1>4. /\ phase' \in [Packages -> {"absent", "installed", "lost"} \cup Entries]
      /\ pc' \in {"idle", "config"} /\ (pc' = "idle" <=> job' = NoJob)
      /\ JobOK' /\ found' = {} /\ pidx' = 1
  BY <1>2, <1>3, FinishStep
<1>5. TypeOK'
  BY <1>1, <1>4 DEF TypeOK, store
<1>. QED
  BY <1>2, <1>4, <1>5, RestsOK

LEMMA InstallItemStep == ASSUME IInv, InstallItem PROVE IInv'
<1>. USE DEF IInv
<1>1. /\ AtItem("install", {"model", "pipeline", "resource"})
      /\ UNCHANGED <<taken, base, jobs>>
      /\ Installed(Item.name, job.pkg) \/ UNCHANGED store
      /\ faults' \in 0..MaxFaults /\ faults' >= faults
  BY PluginBounds DEF InstallItem, Works, Fails, TypeOK
<1>2. /\ pc = "item" /\ job.event = "install" /\ idx <= Size(job.pkg) /\ Running
      /\ Item.type \in {"model", "pipeline", "resource"}
  BY <1>1 DEF AtItem, Size, Running
<1>3. /\ models' \subseteq [name : Models, version : 1..MaxVersion, info : Packages \cup AppInfos]
      /\ \A x \in resources' \cup pipelines' : x.info \in Packages \cup {Foreign}
      /\ UniqueVersions' /\ Listed'
  <2>1. CASE Installed(Item.name, job.pkg)
    BY <1>1, <2>1, InstalledRows DEF FoundOK
  <2>2. CASE UNCHANGED store
    BY <2>2 DEF store, TypeOK, FoundOK, UniqueVersions, Listed
  <2>. QED
    BY <1>1, <2>1, <2>2
<1>4. CASE Finish(-1)
  <2>1. /\ phase' \in [Packages -> {"absent", "installed", "lost"} \cup Entries]
        /\ pc' \in {"idle", "config"} /\ (pc' = "idle" <=> job' = NoJob)
        /\ JobOK' /\ found' = {} /\ pidx' = 1
    BY <1>1, <1>2, <1>4, FinishStep
  <2>2. TypeOK'
    BY <1>1, <1>3, <2>1 DEF TypeOK
  <2>. QED
    BY <1>3, <2>1, <2>2, RestsOK
<1>5. CASE NextItem
  <2>1. /\ phase' = phase /\ job' = job /\ found' = {} /\ idx' = idx + 1
        /\ pc' = "item" /\ pidx' = 1 /\ job' # NoJob
        /\ idx' \in 1..(Size(job.pkg) + 1) /\ JobOK'
    BY <1>1, <1>2, <1>5, NextItemStep
  <2>2. TypeOK'
    BY <1>1, <1>3, <2>1 DEF TypeOK, Size
  <2>3. FoundOK' /\ Removing'
    BY <1>2, <1>3, <2>1 DEF FoundOK, Removing
  <2>. QED
    BY <1>3, <2>1, <2>2, <2>3
<1>6. CASE /\ Item.type = "resource" /\ pidx < Len(Item.paths) /\ pidx' = pidx + 1
           /\ Works /\ UNCHANGED <<phase, pc, job, idx, found>>
  <2>1. pidx \in 1..Len(Item.paths) /\ Len(Item.paths) \in Nat
    BY <1>2, <1>6, AtItemShape DEF JobOK
  <2>2. pidx' \in 1..Len(Item.paths)
    BY <1>6, <2>1
  <2>3. JobOK'
    BY <1>2, <1>6, <2>2 DEF JobOK, Running, Works, Item
  <2>4. TypeOK'
    BY <1>1, <1>3, <1>6 DEF TypeOK, Size
  <2>5. FoundOK' /\ Removing'
    BY <1>2, <1>3, <1>6 DEF FoundOK, Removing
  <2>. QED
    BY <1>3, <2>3, <2>4, <2>5
<1>. QED
  BY <1>4, <1>5, <1>6 DEF InstallItem

\* What an action of UNINSTALL starts from.
LEMMA RemovalStart ==
    ASSUME IInv, NEW t \in {"model", "pipeline", "resource"}, AtItem("uninstall", {t})
    PROVE  /\ pc = "item" /\ job.event = "uninstall" /\ Item.type = t /\ Running
           /\ idx <= Size(job.pkg) /\ idx \in DOMAIN Config[job.pkg] /\ idx \in Nat
           /\ job.pkg \in Packages /\ job.pkg \in Rpks
           /\ Size(job.pkg) \in Nat /\ job.before \in Nat /\ faults \in Nat /\ job.before <= faults
           /\ found = {}
<1>1. pc = "item" /\ job.event = "uninstall" /\ Item.type = t /\ idx <= Size(job.pkg) /\ Running
  BY DEF AtItem, Size, Running
<1>2. idx \in DOMAIN Config[job.pkg] /\ job.pkg \in Packages /\ job.pkg \in Rpks
      /\ Size(job.pkg) \in Nat /\ idx \in Nat
  BY <1>1, AtItemShape, Shapes DEF IInv
<1>3. job.before \in Nat /\ faults \in Nat /\ job.before <= faults
  BY <1>1, PluginBounds DEF IInv, JobOK, Jobs, TypeOK
<1>. QED
  BY <1>1, <1>2, <1>3 DEF IInv, FoundOK

LEMMA UninstallModelStep == ASSUME IInv, UninstallModel PROVE IInv'
<1>. USE DEF IInv
<1>1. /\ AtItem("uninstall", {"model"})
      /\ UNCHANGED <<models, pipelines, resources, taken, base, jobs>>
      /\ faults' \in 0..MaxFaults /\ faults' >= faults
  BY PluginBounds DEF UninstallModel, Works, Fails, TypeOK, store
<1>2. /\ pc = "item" /\ job.event = "uninstall" /\ Item.type = "model" /\ Running
      /\ idx <= Size(job.pkg) /\ idx \in DOMAIN Config[job.pkg] /\ idx \in Nat
      /\ job.pkg \in Packages /\ job.pkg \in Rpks
      /\ Size(job.pkg) \in Nat /\ job.before \in Nat /\ faults \in Nat /\ job.before <= faults
  BY <1>1, RemovalStart
<1>3. UniqueVersions' /\ Listed'
  BY <1>1 DEF FoundOK, UniqueVersions, Listed
<1>4. CASE /\ Works /\ found' = Named(models, Item.name) /\ pc' = "delete"
           /\ UNCHANGED <<phase, job, idx, pidx>>
  <2>1. faults' = faults /\ Item' = Item
    BY <1>4 DEF Works, Item
  <2>2. TypeOK'
    BY <1>1, <1>2, <1>4, <2>1 DEF TypeOK, Named, Size
  <2>3. JobOK'
    BY <1>2, <1>4, <2>1 DEF JobOK, Running
  <2>4. FoundOK'
    BY <1>1, <1>3, <1>4, <2>1 DEF FoundOK, UniqueVersions, Named
  <2>5. Removing'
    BY <1>1, <1>2, <1>4, <2>1 DEF Removing, Pending, Named
  <2>. QED
    BY <1>3, <2>2, <2>3, <2>4, <2>5
<1>5. CASE NextItem /\ ((Works /\ Named(models, Item.name) = {}) \/ Fails)
  <2>1. /\ phase' = phase /\ job' = job /\ found' = {} /\ idx' = idx + 1
        /\ pc' = "item" /\ pidx' = 1 /\ job' # NoJob
        /\ idx' \in 1..(Size(job.pkg) + 1) /\ JobOK'
    BY <1>1, <1>2, <1>5, NextItemStep
  <2>2. TypeOK'
    BY <1>1, <2>1 DEF TypeOK, Size
  <2>3. FoundOK'
    BY <1>3, <2>1 DEF FoundOK
  <2>4. \A x \in pipelines : x.info = job.pkg =>
           Lists(job.pkg, "pipeline", idx + 1, Size(job.pkg), x.name)
    BY <1>2, ListsNext DEF Removing, Item
  <2>5. faults' = job.before => \A x \in resources : x.info = job.pkg =>
           Lists(job.pkg, "resource", idx + 1, Size(job.pkg), x.name)
    BY <1>1, <1>2, ListsNext DEF Removing, Item
  <2>6. ASSUME faults' = job.before, ~job.cut, NEW x \in models, x.info = job.pkg
        PROVE  Lists(job.pkg, "model", idx + 1, Size(job.pkg), x.name)
    <3>1. faults = job.before /\ ~Fails
      BY <1>1, <1>2, <2>6 DEF Fails
    <3>2. x.name # Item.name
      BY <1>5, <3>1 DEF Named
    <3>3. Lists(job.pkg, "model", idx, Size(job.pkg), x.name)
      BY <1>2, <2>6, <3>1 DEF Removing
    <3>. QED
      BY <1>2, <3>2, <3>3, ListsNext DEF Item
  <2>7. Removing'
    BY <1>1, <2>1, <2>4, <2>5, <2>6 DEF Removing, Pending
  <2>. QED
    BY <1>3, <2>1, <2>2, <2>3, <2>7
<1>. QED
  BY <1>4, <1>5 DEF UninstallModel

LEMMA UninstallPipelineStep == ASSUME IInv, UninstallPipeline PROVE IInv'
<1>. USE DEF IInv
<1>1. /\ AtItem("uninstall", {"pipeline"})
      /\ UNCHANGED <<models, resources, taken, base, jobs>>
      /\ pipelines' \in {pipelines, pipelines \ Named(pipelines, Item.name)}
      /\ faults' \in 0..MaxFaults /\ faults' >= faults
  BY PluginBounds DEF UninstallPipeline, Works, Fails, TypeOK
<1>2. /\ pc = "item" /\ job.event = "uninstall" /\ Item.type = "pipeline" /\ Running
      /\ idx <= Size(job.pkg) /\ idx \in DOMAIN Config[job.pkg] /\ idx \in Nat
      /\ job.pkg \in Packages /\ job.pkg \in Rpks
      /\ Size(job.pkg) \in Nat /\ job.before \in Nat /\ faults \in Nat /\ job.before <= faults
  BY <1>1, RemovalStart
<1>3. pipelines' \subseteq pipelines
  BY <1>1
<1>4. UniqueVersions' /\ Listed'
  BY <1>1, <1>3 DEF FoundOK, UniqueVersions, Listed
<1>5. CASE Finish(-1)
  <2>1. /\ phase' \in [Packages -> {"absent", "installed", "lost"} \cup Entries]
        /\ pc' \in {"idle", "config"} /\ (pc' = "idle" <=> job' = NoJob)
        /\ JobOK' /\ found' = {} /\ pidx' = 1
    BY <1>1, <1>2, <1>5, FinishStep
  <2>2. TypeOK'
    BY <1>1, <1>3, <2>1 DEF TypeOK
  <2>. QED
    BY <1>4, <2>1, <2>2, RestsOK
<1>6. CASE NextItem /\ Works /\ pipelines' = pipelines \ Named(pipelines, Item.name)
  <2>1. /\ phase' = phase /\ job' = job /\ found' = {} /\ idx' = idx + 1
        /\ pc' = "item" /\ pidx' = 1 /\ job' # NoJob
        /\ idx' \in 1..(Size(job.pkg) + 1) /\ JobOK'
    BY <1>1, <1>2, <1>6, NextItemStep
  <2>2. TypeOK'
    BY <1>1, <1>3, <2>1 DEF TypeOK, Size
  <2>3. FoundOK'
    BY <1>4, <2>1 DEF FoundOK
  <2>4. ASSUME NEW x \in pipelines', x.info = job.pkg
        PROVE  Lists(job.pkg, "pipeline", idx + 1, Size(job.pkg), x.name)
    <3>1. x \in pipelines /\ x.name # Item.name
      BY <1>6 DEF Named
    <3>2. Lists(job.pkg, "pipeline", idx, Size(job.pkg), x.name)
      BY <1>2, <2>4, <3>1 DEF Removing
    <3>. QED
      BY <1>2, <3>1, <3>2, ListsNext DEF Item
  <2>5. faults = job.before => \A x \in resources : x.info = job.pkg =>
           Lists(job.pkg, "resource", idx + 1, Size(job.pkg), x.name)
    BY <1>2, ListsNext DEF Removing, Item
  <2>6. faults = job.before /\ ~job.cut => \A x \in models : x.info = job.pkg =>
           Lists(job.pkg, "model", idx + 1, Size(job.pkg), x.name)
    BY <1>2, ListsNext DEF Removing, Item
  <2>7. Removing'
    BY <1>1, <1>6, <2>1, <2>4, <2>5, <2>6 DEF Removing, Pending, Works
  <2>. QED
    BY <1>4, <2>1, <2>2, <2>3, <2>7
<1>. QED
  BY <1>5, <1>6 DEF UninstallPipeline

LEMMA UninstallResourceStep == ASSUME IInv, UninstallResource PROVE IInv'
<1>. USE DEF IInv
<1>1. /\ AtItem("uninstall", {"resource"})
      /\ UNCHANGED <<models, pipelines, taken, base, jobs>> /\ NextItem
      /\ \/ Works /\ resources' = resources \ Named(resources, Item.name)
         \/ Fails /\ resources' \in {resources, resources \ Named(resources, Item.name)}
      /\ faults' \in 0..MaxFaults /\ faults' >= faults
  BY PluginBounds DEF UninstallResource, Works, Fails, TypeOK
<1>2. /\ pc = "item" /\ job.event = "uninstall" /\ Item.type = "resource" /\ Running
      /\ idx <= Size(job.pkg) /\ idx \in DOMAIN Config[job.pkg] /\ idx \in Nat
      /\ job.pkg \in Packages /\ job.pkg \in Rpks
      /\ Size(job.pkg) \in Nat /\ job.before \in Nat /\ faults \in Nat /\ job.before <= faults
  BY <1>1, RemovalStart
<1>3. resources' \subseteq resources
  BY <1>1
<1>4. UniqueVersions' /\ Listed'
  BY <1>1, <1>3 DEF FoundOK, UniqueVersions, Listed
<1>5. /\ phase' = phase /\ job' = job /\ found' = {} /\ idx' = idx + 1
      /\ pc' = "item" /\ pidx' = 1 /\ job' # NoJob
      /\ idx' \in 1..(Size(job.pkg) + 1) /\ JobOK'
  BY <1>1, <1>2, NextItemStep
<1>6. TypeOK'
  BY <1>1, <1>3, <1>5 DEF TypeOK, Size
<1>7. FoundOK'
  BY <1>4, <1>5 DEF FoundOK
<1>8. \A x \in pipelines : x.info = job.pkg =>
         Lists(job.pkg, "pipeline", idx + 1, Size(job.pkg), x.name)
  BY <1>2, ListsNext DEF Removing, Item
<1>9. ASSUME faults' = job.before, NEW x \in resources', x.info = job.pkg
      PROVE  Lists(job.pkg, "resource", idx + 1, Size(job.pkg), x.name)
  <2>1. faults = job.before /\ ~Fails
    BY <1>1, <1>2, <1>9 DEF Fails
  <2>2. x \in resources /\ x.name # Item.name
    BY <1>1, <2>1 DEF Named
  <2>3. Lists(job.pkg, "resource", idx, Size(job.pkg), x.name)
    BY <1>2, <1>9, <2>1, <2>2 DEF Removing
  <2>. QED
    BY <1>2, <2>2, <2>3, ListsNext DEF Item
<1>10. faults' = job.before /\ ~job.cut => \A x \in models : x.info = job.pkg =>
          Lists(job.pkg, "model", idx + 1, Size(job.pkg), x.name)
  BY <1>1, <1>2, ListsNext DEF Removing, Item
<1>11. Removing'
  BY <1>1, <1>5, <1>8, <1>9, <1>10 DEF Removing, Pending
<1>. QED
  BY <1>4, <1>5, <1>6, <1>7, <1>11

\* What a delete starts from.
LEMMA DeleteStart ==
    ASSUME IInv, pc = "delete"
    PROVE  /\ job.event = "uninstall" /\ Item.type = "model" /\ Running
           /\ idx <= Size(job.pkg) /\ idx \in DOMAIN Config[job.pkg] /\ idx \in Nat
           /\ job.pkg \in Packages /\ job.pkg \in Rpks /\ job \in Jobs
           /\ Size(job.pkg) \in Nat /\ job.before \in Nat /\ faults \in Nat /\ job.before <= faults
<1>1. job.event = "uninstall" /\ Item.type = "model" /\ idx <= Size(job.pkg) /\ Running
  BY DEF IInv, JobOK, Running
<1>2. idx \in DOMAIN Config[job.pkg] /\ job.pkg \in Packages /\ job.pkg \in Rpks
      /\ Size(job.pkg) \in Nat /\ idx \in Nat
  BY <1>1, AtItemShape, Shapes DEF IInv
<1>3. job \in Jobs /\ job.before \in Nat /\ faults \in Nat /\ job.before <= faults
  BY <1>1, PluginBounds DEF IInv, JobOK, Jobs, TypeOK
<1>. QED
  BY <1>1, <1>2, <1>3

LEMMA DeleteModelStep == ASSUME IInv, DeleteModel PROVE IInv'
<1>. USE DEF IInv
<1>1. /\ pc = "delete" /\ UNCHANGED <<pipelines, resources, taken, base, jobs>>
      /\ faults' \in 0..MaxFaults /\ faults' >= faults
  <2>1. pc = "delete" /\ UNCHANGED <<pipelines, resources, taken, base, jobs>> /\ (Works \/ Fails)
    BY DEF DeleteModel
  <2>. QED
    BY <2>1, PluginBounds DEF Works, Fails, TypeOK
<1>2. /\ job.event = "uninstall" /\ Item.type = "model" /\ Running
      /\ idx <= Size(job.pkg) /\ idx \in DOMAIN Config[job.pkg] /\ idx \in Nat
      /\ job.pkg \in Packages /\ job.pkg \in Rpks /\ job \in Jobs
      /\ Size(job.pkg) \in Nat /\ job.before \in Nat /\ faults \in Nat /\ job.before <= faults
  BY <1>1, DeleteStart
<1>3. CASE found = {} /\ Works /\ NextItem /\ UNCHANGED models
  <2>1. /\ phase' = phase /\ job' = job /\ found' = {} /\ idx' = idx + 1
        /\ pc' = "item" /\ pidx' = 1 /\ job' # NoJob
        /\ idx' \in 1..(Size(job.pkg) + 1) /\ JobOK'
    BY <1>1, <1>2, <1>3, NextItemStep
  <2>2. UniqueVersions' /\ Listed'
    BY <1>1, <1>3 DEF FoundOK, UniqueVersions, Listed
  <2>3. TypeOK'
    BY <1>1, <1>3, <2>1 DEF TypeOK, Size
  <2>4. FoundOK'
    BY <2>1, <2>2 DEF FoundOK
  <2>5. faults' = faults
    BY <1>3 DEF Works
  <2>6. \A x \in pipelines : x.info = job.pkg =>
           Lists(job.pkg, "pipeline", idx + 1, Size(job.pkg), x.name)
    BY <1>1, <1>2, ListsNext DEF Removing, Item
  <2>7. faults = job.before => \A x \in resources : x.info = job.pkg =>
           Lists(job.pkg, "resource", idx + 1, Size(job.pkg), x.name)
    BY <1>1, <1>2, ListsNext DEF Removing, Item
  <2>8. ASSUME faults = job.before, ~job.cut, NEW x \in models, x.info = job.pkg
        PROVE  Lists(job.pkg, "model", idx + 1, Size(job.pkg), x.name)
    <3>1. Lists(job.pkg, "model", idx, Size(job.pkg), x.name) /\ Pending(x)
      BY <1>1, <1>2, <2>8 DEF Removing
    <3>2. x.name # Item.name
      BY <1>1, <1>3, <3>1 DEF Pending
    <3>. QED
      BY <1>2, <3>1, <3>2, ListsNext DEF Item
  <2>9. Removing'
    BY <1>1, <1>3, <2>1, <2>5, <2>6, <2>7, <2>8 DEF Removing, Pending
  <2>. QED
    BY <2>1, <2>2, <2>3, <2>4, <2>9
<1>4. ASSUME NEW x \in found, x.info \in Cutting, Works, found' = {},
             job' = [job EXCEPT !.cut = TRUE], UNCHANGED <<models, phase, pc, idx, pidx>>
      PROVE  IInv'
  <2>1. /\ job' \in Jobs /\ job'.entry = job.entry /\ job'.pkg = job.pkg /\ job'.event = job.event
        /\ job'.again = job.again /\ job'.before = job.before /\ job'.cut = TRUE
        /\ job' # NoJob /\ faults' = faults /\ Item' = Item
    <3>1. /\ job' \in Jobs /\ job'.entry = job.entry /\ job'.pkg = job.pkg /\ job'.event = job.event
          /\ job'.again = job.again /\ job'.before = job.before /\ job'.cut = TRUE
      BY <1>2, <1>4 DEF Jobs
    <3>2. job.entry \in Entries
      BY <1>2 DEF Jobs
    <3>. QED
      BY <1>4, <3>1, <3>2, NoJobEntry DEF Item, Works
  <2>2. TypeOK'
    BY <1>1, <1>2, <1>4, <2>1 DEF TypeOK, Size
  <2>3. JobOK'
    BY <1>1, <1>2, <1>4, <2>1 DEF JobOK, Running
  <2>4. FoundOK' /\ Listed'
    BY <1>1, <1>4 DEF FoundOK, UniqueVersions, Listed
  <2>5. Removing'
    BY <1>1, <1>2, <1>4, <2>1 DEF Removing
  <2>. QED
    BY <2>2, <2>3, <2>4, <2>5
<1>5. ASSUME NEW x \in found, found' = found \ {x}, UNCHANGED <<phase, pc, job, idx, pidx>>,
             \/ x.info \in Skipped /\ Works /\ models' = models
             \/ /\ x.info \notin Skipped \cup Cutting
                /\ \/ Works /\ models' = {y \in models : ~SameKey(y, x)}
                   \/ Fails /\ models' \in {models, {y \in models : ~SameKey(y, x)}}
      PROVE  IInv'
  <2>1. Item' = Item /\ models' \subseteq models
    BY <1>5 DEF Item
  <2>2. TypeOK'
    BY <1>1, <1>2, <1>5, <2>1 DEF TypeOK, Size
  <2>3. JobOK'
    <3>1. job' = job
      BY <1>5
    <3>2. job'.before <= faults'
      BY <1>1, <1>2, <3>1, PluginBounds
    <3>. QED
      BY <1>1, <1>2, <1>5, <2>1, <3>2 DEF JobOK, Running
  <2>4. UniqueVersions' /\ Listed'
    BY <1>1, <2>1 DEF FoundOK, UniqueVersions, Listed
  <2>5. ASSUME NEW y \in found', y.info \in Packages PROVE y \in models' \cup taken'
    <3>1. y \in found /\ y # x /\ ~SameKey(y, x)
      BY <1>5 DEF FoundOK
    <3>2. y \in models \cup taken
      BY <2>5, <3>1 DEF FoundOK
    <3>. QED
      BY <1>1, <1>5, <3>1, <3>2
  <2>6. FoundOK'
    BY <1>1, <1>5, <2>1, <2>4, <2>5 DEF FoundOK
  <2>7. ASSUME faults' = job.before, ~job.cut, NEW y \in models', y.info = job.pkg
        PROVE  Lists(job.pkg, "model", idx, Size(job.pkg), y.name) /\ Pending(y)'
    <3>1. faults = job.before /\ ~Fails
      BY <1>1, <1>2, <2>7 DEF Fails
    <3>2. Lists(job.pkg, "model", idx, Size(job.pkg), y.name) /\ Pending(y)
      BY <1>1, <1>2, <2>1, <2>7, <3>1 DEF Removing
    <3>3. y # x
      <4>1. CASE x.info \in Skipped
        BY <1>2, <2>7, <4>1, InfosApart
      <4>2. CASE x.info \notin Skipped
        BY <1>5, <2>7, <3>1, <4>2 DEF SameKey
      <4>. QED
        BY <4>1, <4>2
    <3>. QED
      BY <1>1, <1>5, <2>1, <3>2, <3>3 DEF Pending
  <2>8. Removing'
    <3>1. /\ \A y \in pipelines : y.info = job.pkg =>
                Lists(job.pkg, "pipeline", idx, Size(job.pkg), y.name)
          /\ faults = job.before => \A y \in resources : y.info = job.pkg =>
                Lists(job.pkg, "resource", idx, Size(job.pkg), y.name)
      BY <1>1, <1>2 DEF Removing
    <3>2. faults' = job.before => faults = job.before
      BY <1>1, <1>2
    <3>. QED
      BY <1>1, <1>5, <2>7, <3>1, <3>2 DEF Removing
  <2>. QED
    BY <2>2, <2>3, <2>4, <2>6, <2>8
<1>6. \A x, y : SameKey(y, x) <=> ~ (y.name # x.name \/ y.version # x.version)
  BY DEF SameKey
<1>. QED
  BY <1>3, <1>4, <1>5, <1>6 DEF DeleteModel

(* What applications may do to the rows: those of the packages stay or are *)
(* taken.                                                                  *)
AppRows ==
    /\ models' \subseteq [name : Models, version : 1..MaxVersion, info : Packages \cup AppInfos]
    /\ UniqueVersions' /\ taken \subseteq taken'
    /\ \A x \in resources' \cup pipelines' : x.info \in Packages \cup {Foreign}
    /\ \A x \in taken' : x.info \in Packages
    /\ \A x \in models' : x.info \in Packages => x \in models
    /\ \A x \in pipelines' : x.info \in Packages => x \in pipelines
    /\ \A x \in resources' : x.info \in Packages => x \in resources
    /\ \A x \in models : x.info \in Packages => x \in models' \cup taken'
    /\ \A x \in pipelines : x.info \in Packages => x \in pipelines' \cup taken'
    /\ \A x \in resources : x.info \in Packages => x \in resources' \cup taken'

LEMMA AppFrame ==
    ASSUME IInv, App
    PROVE  AppRows /\ UNCHANGED <<phase, pc, job, idx, pidx, found, base, faults, jobs, Item>>
<1>. USE DEF IInv
<1>1. UNCHANGED <<phase, pc, job, idx, pidx, found, base, faults, jobs, Item>>
  BY DEF App, Item
<1>2. /\ \A x \in resources \cup pipelines : x.info \in Packages \cup {Foreign}
      /\ \A x \in taken : x.info \in Packages
      /\ models \subseteq [name : Models, version : 1..MaxVersion, info : Packages \cup AppInfos]
      /\ UniqueVersions /\ Foreign \notin Packages
  BY InfosApart DEF TypeOK, FoundOK
<1>3. CASE AppRegister
  <2>1. PICK n \in Models, info \in AppInfos : Registered(n, info)
    BY <1>3 DEF AppRegister
  <2>2. UNCHANGED <<pipelines, resources, taken>>
    BY <1>3 DEF AppRegister
  <2>3. info \notin Packages
    BY PluginValues
  <2>4. /\ models' \subseteq [name : Models, version : 1..MaxVersion, info : Packages \cup AppInfos]
        /\ UniqueVersions' /\ models \subseteq models'
        /\ \A x \in models' \ models : x.info = info
    BY <2>1, <2>2, <2>3, RegisteredRows DEF FoundOK
  <2>. QED
    BY <1>1, <1>2, <2>2, <2>3, <2>4 DEF AppRows
<1>4. CASE AppDelete
  <2>1. PICK x \in models :
           models' = models \ {x} /\ taken' = taken \cup {y \in {x} : y.info \in Packages}
    BY <1>4 DEF AppDelete, Taking
  <2>2. UNCHANGED <<pipelines, resources>>
    BY <1>4 DEF AppDelete
  <2>3. UniqueVersions'
    BY <1>2, <2>1 DEF UniqueVersions
  <2>. QED
    BY <1>1, <1>2, <2>1, <2>2, <2>3 DEF AppRows
<1>5. CASE AppPipeline
  <2>1. PICK n, new : /\ pipelines' = (pipelines \ Named(pipelines, n))
                                        \cup (IF new THEN {PipelineRow(n, Foreign)} ELSE {})
                      /\ Taking(Named(pipelines, n))
    BY <1>5 DEF AppPipeline
  <2>2. taken' = taken \cup {x \in Named(pipelines, n) : x.info \in Packages}
    BY <2>1 DEF Taking
  <2>3. \A x \in pipelines' : x \in pipelines \/ x.info = Foreign
    BY <2>1, RowFields
  <2>4. \A x \in pipelines : x \in pipelines' \/ x \in Named(pipelines, n)
    BY <2>1
  <2>5. Named(pipelines, n) \subseteq pipelines
    BY DEF Named
  <2>6. UNCHANGED <<models, resources>>
    BY <1>5 DEF AppPipeline
  <2>7. UniqueVersions'
    BY <1>2, <2>6 DEF UniqueVersions
  <2>. QED
    BY <1>1, <1>2, <2>2, <2>3, <2>4, <2>5, <2>6, <2>7 DEF AppRows
<1>6. CASE AppAddResource \/ AppDeleteResource
  <2>1. PICK rows \in SUBSET resources : /\ \A x \in resources' : x \in resources \/ x.info = Foreign
                                         /\ \A x \in resources : x \in resources' \/ x \in rows
                                         /\ taken' = taken \cup {x \in rows : x.info \in Packages}
    <3>1. CASE AppAddResource
      <4>1. PICK n, path : LET same == {x \in Named(resources, n) : x.path = path}
                           IN  /\ resources' = (resources \ same) \cup {ResourceRow(n, path, Foreign)}
                               /\ Taking(same)
        BY <3>1 DEF AppAddResource
      <4>. DEFINE same == {x \in Named(resources, n) : x.path = path}
      <4>2. same \subseteq resources
        BY DEF Named
      <4>3. /\ resources' = (resources \ same) \cup {ResourceRow(n, path, Foreign)}
            /\ taken' = taken \cup {x \in same : x.info \in Packages}
        BY <4>1 DEF Taking
      <4>. HIDE DEF same
      <4>4. /\ \A x \in resources' : x \in resources \/ x.info = Foreign
            /\ \A x \in resources : x \in resources' \/ x \in same
        BY <4>3, RowFields
      <4>. QED
        BY <4>2, <4>3, <4>4
    <3>2. CASE AppDeleteResource
      <4>1. PICK n : resources' = resources \ Named(resources, n) /\ Taking(Named(resources, n))
        BY <3>2 DEF AppDeleteResource
      <4>2. Named(resources, n) \subseteq resources
        BY DEF Named
      <4>3. /\ \A x \in resources' : x \in resources
            /\ \A x \in resources : x \in resources' \/ x \in Named(resources, n)
        BY <4>1
      <4>4. taken' = taken \cup {x \in Named(resources, n) : x.info \in Packages}
        BY <4>1 DEF Taking
      <4>. QED
        BY <4>2, <4>3, <4>4
    <3>. QED
      BY <1>6, <3>1, <3>2
  <2>3. UNCHANGED <<models, pipelines>>
    BY <1>6 DEF AppAddResource, AppDeleteResource
  <2>4. UniqueVersions'
    BY <1>2, <2>3 DEF UniqueVersions
  <2>. QED
    <3>1. \A x \in resources' : x.info \in Packages => x \in resources
      BY <1>2, <2>1
    <3>2. \A x \in resources' \cup pipelines' : x.info \in Packages \cup {Foreign}
      BY <1>2, <2>1, <2>3
    <3>3. taken \subseteq taken' /\ \A x \in taken' : x.info \in Packages
      <4>1. taken' = taken \cup {x \in rows : x.info \in Packages}
        BY <2>1, Zenon
      <4>2. \A x \in taken : x.info \in Packages
        BY <1>2
      <4>. QED
        BY <4>1, <4>2
    <3>4. \A x \in resources : x.info \in Packages => x \in resources' \cup taken'
      BY <2>1
    <3>5. /\ \A x \in models' : x.info \in Packages => x \in models
          /\ \A x \in pipelines' : x.info \in Packages => x \in pipelines
          /\ \A x \in models : x.info \in Packages => x \in models' \cup taken'
          /\ \A x \in pipelines : x.info \in Packages => x \in pipelines' \cup taken'
      BY <2>3
    <3>6. models' \subseteq [name : Models, version : 1..MaxVersion, info : Packages \cup AppInfos]
      BY <1>2, <2>3
    <3>. QED
      BY <1>1, <2>4, <3>1, <3>2, <3>3, <3>4, <3>5, <3>6 DEF AppRows
<1>. QED
  BY <1>3, <1>4, <1>5, <1>6 DEF App

LEMMA AppStep == ASSUME IInv, App PROVE IInv'
<1>. USE DEF IInv
<1>1. AppRows /\ UNCHANGED <<phase, pc, job, idx, pidx, found, base, faults, jobs, Item>>
  BY AppFrame
<1>2. TypeOK'
  BY <1>1 DEF AppRows, TypeOK
<1>3. JobOK'
  BY <1>1 DEF JobOK, Running
<1>4. FoundOK'
  <2>1. \A y \in found : y.info \in Packages => y \in models' \cup taken'
    BY <1>1 DEF AppRows, FoundOK
  <2>. QED
    BY <1>1, <2>1 DEF AppRows, FoundOK
<1>5. Listed'
  BY <1>1 DEF AppRows, Listed
<1>6. Removing'
  <2>1. pc \in {"item", "delete"} => job.pkg \in Packages
    BY PluginValues DEF JobOK
  <2>. QED
    BY <1>1, <2>1 DEF AppRows, Removing, Pending
<1>. QED
  BY <1>2, <1>3, <1>4, <1>5, <1>6

LEMMA InitInv == ASSUME Init PROVE IInv
<1>. USE DEF Init
<1>1. TypeOK
  BY PluginBounds DEF TypeOK
<1>2. JobOK
  BY DEF JobOK, Running
<1>3. FoundOK /\ Listed /\ Removing
  BY DEF FoundOK, UniqueVersions, Listed, Removing
<1>. QED
  BY <1>1, <1>2, <1>3 DEF IInv

LEMMA NextInv == ASSUME IInv, [Next]_vars PROVE IInv'
<1>1. CASE UNCHANGED vars
  BY <1>1, StutterStep
<1>2. CASE Next
  BY <1>2, PluginStep, ReadConfigStep, EndOfConfigStep, InstallItemStep, UninstallModelStep,
     UninstallPipelineStep, UninstallResourceStep, DeleteModelStep, AppStep DEF Next
<1>. QED
  BY <1>1, <1>2

(* Whatever is installed and removed, whichever calls fail and whatever    *)
(* applications do meanwhile, the invariant holds: the rows of a package   *)
(* are those its configuration lists, what get_all listed is still there   *)
(* or was deleted by an application, and a removal has left nothing of the *)
(* items it is past, unless a call failed or a list was cut short by an    *)
(* app_info without a JSON object or without is_rpk.                       *)
THEOREM Inductive == Spec => []IInv
BY InitInv, NextInv, PTL DEF Spec

(* For any packages, configurations and numbers of failures, the variables *)
(* of the plugin keep their types.                                         *)
THEOREM TypeCorrect == Spec => []TypeOK
<1>1. IInv => TypeOK
  BY DEF IInv
<1>. QED
  BY <1>1, Inductive, PTL

LEMMA SurviveStep ==
    ASSUME IInv, Next, found' # found
    PROVE  \A x \in models \ models' :
              x.info \in Skipped \cup Cutting =>
                 \E y \in found : /\ y.name = x.name /\ y.version = x.version
                                  /\ y.info \notin Skipped \cup Cutting
                                  /\ y.info \in Packages => y \in taken
<1>. SUFFICES ASSUME NEW x \in models \ models', x.info \in Skipped \cup Cutting
              PROVE  \E y \in found : /\ y.name = x.name /\ y.version = x.version
                                      /\ y.info \notin Skipped \cup Cutting
                                      /\ y.info \in Packages => y \in taken
  OBVIOUS
<1>. USE DEF IInv
<1>1. CASE DeleteModel
  <2>1. PICK y \in found : /\ y.info \notin Skipped \cup Cutting
                          /\ x.name = y.name /\ x.version = y.version
    BY <1>1 DEF DeleteModel
  <2>2. SameKey(x, y) /\ x # y
    BY <2>1 DEF SameKey
  <2>3. y \notin models
    BY <2>2 DEF FoundOK, UniqueVersions
  <2>4. y.info \in Packages => y \in taken
    BY <2>3 DEF FoundOK
  <2>. QED
    BY <2>1, <2>4
<1>2. CASE InstallItem
  <2>1. models \subseteq models'
    <3>1. AtItem("install", {"model", "pipeline", "resource"})
          /\ (Installed(Item.name, job.pkg) \/ UNCHANGED store)
      BY <1>2 DEF InstallItem
    <3>2. CASE Installed(Item.name, job.pkg)
      BY <3>1, <3>2, InstalledRows DEF FoundOK
    <3>. QED
      BY <3>1, <3>2 DEF store
  <2>. QED
    BY <2>1
<1>3. CASE Plugin \/ App
  BY <1>3 DEF Plugin, App
<1>4. CASE ReadConfig \/ EndOfConfig \/ UninstallModel \/ UninstallPipeline \/ UninstallResource
  BY <1>4 DEF ReadConfig, EndOfConfig, UninstallModel, UninstallPipeline, UninstallResource, store
<1>. QED
  BY <1>1, <1>2, <1>3, <1>4 DEF Next

(* The plugin deletes a version that an application has registered without *)
(* calling itself an rpk only when get_all had listed an rpk's version of  *)
(* that number, which an application had deleted meanwhile.                *)
THEOREM AppVersionsSafe == Spec => AppVersionsSurvive
<1>1. ASSUME IInv, [Next]_vars
      PROVE  [found' # found =>
                \A x \in models \ models' :
                   x.info \in Skipped \cup Cutting =>
                      \E y \in found : /\ y.name = x.name /\ y.version = x.version
                                       /\ y.info \notin Skipped \cup Cutting
                                       /\ y.info \in Packages => y \in taken]_vars
  <2>1. CASE UNCHANGED vars
    BY <2>1 DEF vars
  <2>2. CASE Next
    BY <1>1, <2>2, SurviveStep
  <2>. QED
    BY <1>1, <2>1, <2>2
<1>. QED
  BY <1>1, Inductive, PTL DEF Spec, AppVersionsSurvive

\* With no item left, or at the first one of no supported type, EndOfConfig ends it.
LEMMA EndedAt ==
    ASSUME IInv, EndOfConfig, pc' = "idle"
    PROVE  /\ ~job.again /\ job.pkg \in Packages /\ job.pkg \in Rpks /\ UNCHANGED <<store, faults>>
           /\ \/ idx = Size(job.pkg) + 1 /\ Finish(0)
              \/ idx \in DOMAIN Config[job.pkg] /\ Item.type = "unsupported" /\ Finish(-1)
<1>. USE DEF IInv
<1>1. pc = "item" /\ job.pkg \in Packages /\ job.pkg \in Rpks /\ UNCHANGED <<store, faults>>
  BY PluginValues DEF EndOfConfig, JobOK, Works
<1>2. ~job.again
  BY DEF EndOfConfig, Finish
<1>3. idx \in 1..(Size(job.pkg) + 1) /\ Size(job.pkg) \in Nat
  BY <1>1, Shapes DEF TypeOK, Size
<1>4. CASE idx > Size(job.pkg) /\ Finish(0)
  BY <1>1, <1>2, <1>3, <1>4
<1>5. CASE idx <= Size(job.pkg) /\ Item.type = "unsupported" /\ Finish(-1)
  BY <1>1, <1>2, <1>5, AtItemShape
<1>. QED
  BY <1>4, <1>5 DEF EndOfConfig, Size

\* A failed UNINSTALL is reported as that.
LEMMA FinishFails ==
    ASSUME IInv, Running, job.entry = "UNINSTALL", Finish(-1), pc' = "idle"
    PROVE  phase'[job.pkg] = "UNINSTALL"
<1>1. ~job.again /\ job.pkg \in Packages
  BY DEF Finish, IInv, JobOK, Jobs
<1>2. phase' = [phase EXCEPT ![job.pkg] = "UNINSTALL"]
  BY <1>1 DEF Finish
<1>. QED
  BY <1>1, <1>2 DEF IInv, TypeOK

LEMMA RemovedStep ==
    ASSUME IInv, Next, NEW p \in Rpks, job.entry = "UNINSTALL", job.pkg = p, pc' = "idle",
           phase'[p] = "absent"
    PROVE  /\ \A x \in pipelines' : x.info # p
           /\ faults' = job.before /\ ~job.cut => Of(p)' = {}
<1>. USE DEF IInv
<1>1. Running /\ job.event = "uninstall"
  <2>1. job # NoJob
    BY NoJobEntry DEF Entries
  <2>2. Running
    BY <2>1 DEF TypeOK, Running
  <2>. QED
    BY <2>2 DEF JobOK, Again, Event
<1>2. ~Finish(-1)
  BY <1>1, FinishFails
<1>3. CASE EndOfConfig
  <2>1. idx = Size(p) + 1 /\ UNCHANGED <<store, faults>> /\ p \in Packages /\ pc = "item"
    BY <1>2, <1>3, EndedAt DEF EndOfConfig
  <2>2. \A t, n : ~Lists(p, t, idx, Size(p), n)
    BY <2>1, Shapes DEF Lists
  <2>3. \A x \in pipelines : x.info # p
    BY <1>1, <2>1, <2>2 DEF Removing
  <2>4. faults = job.before => \A x \in resources : x.info # p
    BY <1>1, <2>1, <2>2 DEF Removing
  <2>5. faults = job.before /\ ~job.cut => \A x \in models : x.info # p
    BY <1>1, <2>1, <2>2 DEF Removing
  <2>. QED
    BY <2>1, <2>3, <2>4, <2>5 DEF Of, store
<1>4. CASE Plugin \/ App
  BY <1>1, <1>4 DEF Plugin, App, Running
<1>5. CASE ReadConfig
  BY <1>2, <1>5 DEF ReadConfig
<1>6. CASE InstallItem
  BY <1>1, <1>6 DEF InstallItem, AtItem
<1>7. CASE UninstallModel \/ UninstallPipeline \/ UninstallResource \/ DeleteModel
  BY <1>2, <1>7 DEF UninstallModel, UninstallPipeline, UninstallResource, DeleteModel, NextItem
<1>. QED
  BY <1>3, <1>4, <1>5, <1>6, <1>7 DEF Next

(* A removal that is reported as done has left no pipeline of the package, *)
(* and nothing at all of it when no call failed and no app_info without a  *)
(* JSON object or without is_rpk cut the deletes of a model short.         *)
THEOREM RemovedGone == Spec => RemovedIsGone
<1>1. ASSUME IInv, [Next]_vars
      PROVE  [\A p \in Rpks :
                job.entry = "UNINSTALL" /\ job.pkg = p /\ pc' = "idle" /\ phase'[p] = "absent" =>
                   /\ \A x \in pipelines' : x.info # p
                   /\ faults' = job.before /\ ~job.cut => Of(p)' = {}]_vars
  BY <1>1, RemovedStep
<1>. QED
  BY <1>1, Inductive, PTL DEF Spec, RemovedIsGone

-----------------------------------------------------------------------------
(* What is installed stays complete. *)

\* The item the plugin is at is of this type and has this name.
AtNamed(t, n) ==
    /\ pc \in {"item", "delete"} /\ job.pkg \in Rpks /\ idx \in DOMAIN Config[job.pkg]
    /\ Item.type = t /\ Item.name = n

\* Which rows a step may take away.
Losses ==
    /\ \A x \in models : x \in models' \/ (x.info \in Packages => x \in taken')
                                     \/ (job.event = "uninstall" /\ AtNamed("model", x.name))
    /\ \A x \in taken : \/ x \in taken'
                        \/ /\ pc = "idle" /\ pc' = "config" /\ job'.pkg = x.info
                           /\ phase[x.info] # "INSTALL"
    /\ \A x \in pipelines : x \in pipelines' \/ (x.info \in Packages => x \in taken')
                                           \/ AtNamed("pipeline", x.name)
    /\ \A x \in resources : x \in resources' \/ (x.info \in Packages => x \in taken')
                                           \/ AtNamed("resource", x.name)

LEMMA LossStep == ASSUME IInv, Next PROVE Losses
<1>. USE DEF IInv
<1>1. CASE Plugin
  <2>1. UNCHANGED store /\ pc = "idle" /\ pc' = "config"
    BY <1>1 DEF Plugin
  <2>2. PICK p \in Packages, entry \in Entries :
           MayCall(entry, p) /\ job'.pkg = p /\ job'.entry = entry
    BY <1>1 DEF Plugin
  <2>3. entry # "RECOVERINSTALL" => phase[p] # "INSTALL"
    BY <2>2 DEF MayCall, Entries
  <2>4. \A x \in taken : x \in taken' \/ (x.info = p /\ entry # "RECOVERINSTALL")
    BY <1>1, <2>2 DEF Plugin
  <2>. QED
    BY <2>1, <2>2, <2>3, <2>4 DEF Losses, store
<1>2. CASE ReadConfig \/ EndOfConfig \/ UninstallModel
  BY <1>2 DEF ReadConfig, EndOfConfig, UninstallModel, store, Losses
<1>3. CASE InstallItem
  <2>1. AtItem("install", {"model", "pipeline", "resource"}) /\ taken' = taken
        /\ (Installed(Item.name, job.pkg) \/ UNCHANGED store)
    BY <1>3 DEF InstallItem
  <2>2. CASE Installed(Item.name, job.pkg)
    <3>1. /\ models \subseteq models'
          /\ \A x \in pipelines \ pipelines' : Item.type = "pipeline" /\ x.name = Item.name
          /\ \A x \in resources \ resources' : Item.type = "resource" /\ x.name = Item.name
      BY <2>1, <2>2, InstalledRows DEF FoundOK
    <3>2. pc = "item" /\ job.pkg \in Rpks /\ idx \in DOMAIN Config[job.pkg]
      BY <2>1, AtItemShape DEF AtItem, Size
    <3>. QED
      BY <2>1, <3>1, <3>2 DEF Losses, AtNamed
  <2>. QED
    BY <2>1, <2>2 DEF store, Losses
<1>4. CASE UninstallPipeline
  <2>1. /\ AtItem("uninstall", {"pipeline"}) /\ UNCHANGED <<models, resources, taken>>
        /\ pipelines' \in {pipelines, pipelines \ Named(pipelines, Item.name)}
    BY <1>4 DEF UninstallPipeline
  <2>2. pc = "item" /\ job.pkg \in Rpks /\ idx \in DOMAIN Config[job.pkg] /\ Item.type = "pipeline"
    BY <2>1, RemovalStart
  <2>. QED
    BY <2>1, <2>2 DEF Losses, AtNamed, Named
<1>5. CASE UninstallResource
  <2>1. /\ AtItem("uninstall", {"resource"}) /\ UNCHANGED <<models, pipelines, taken>>
        /\ resources' \in {resources, resources \ Named(resources, Item.name)}
    BY <1>5 DEF UninstallResource
  <2>2. pc = "item" /\ job.pkg \in Rpks /\ idx \in DOMAIN Config[job.pkg] /\ Item.type = "resource"
    BY <2>1, RemovalStart
  <2>. QED
    BY <2>1, <2>2 DEF Losses, AtNamed, Named
<1>6. CASE DeleteModel
  <2>1. pc = "delete" /\ UNCHANGED <<pipelines, resources, taken>>
    BY <1>6 DEF DeleteModel
  <2>2. job.event = "uninstall" /\ Item.type = "model" /\ idx \in DOMAIN Config[job.pkg] /\ job.pkg \in Rpks
    BY <2>1, DeleteStart
  <2>3. ASSUME NEW x \in models, x \notin models' PROVE x.name = Item.name
    <3>1. PICK y \in found : x.name = y.name
      BY <1>6, <2>3 DEF DeleteModel
    <3>. QED
      BY <3>1 DEF FoundOK
  <2>. QED
    BY <2>1, <2>2, <2>3 DEF Losses, AtNamed
<1>7. CASE App
  BY <1>7, AppFrame DEF AppRows, Losses
<1>. QED
  BY <1>1, <1>2, <1>3, <1>4, <1>5, <1>6, <1>7 DEF Next

\* An item keeps what it has when each of its rows stays or is written again.
LEMMA HasKept ==
    ASSUME NEW p \in Packages, NEW i \in DOMAIN Config[p], Has(p, Config[p][i]),
           Config[p][i].type = "model" =>
              \A v : ModelRow(Config[p][i].name, v, p) \in models \cup taken =>
                     ModelRow(Config[p][i].name, v, p) \in models' \cup taken',
           Config[p][i].type = "pipeline" =>
              (PipelineRow(Config[p][i].name, p) \in pipelines \cup taken =>
               PipelineRow(Config[p][i].name, p) \in pipelines' \cup taken'),
           Config[p][i].type = "resource" =>
              \A path : ResourceRow(Config[p][i].name, path, p) \in resources \cup taken =>
                        ResourceRow(Config[p][i].name, path, p) \in resources' \cup taken'
    PROVE  Has(p, Config[p][i])'
<1>. DEFINE item == Config[p][i]
<1>1. item.type \in {"model", "pipeline", "resource", "unsupported"}
  BY Shapes
<1>2. CASE item.type = "model"
  BY <1>2 DEF Has
<1>3. CASE item.type = "pipeline"
  BY <1>3 DEF Has
<1>4. CASE item.type = "resource"
  BY <1>4 DEF Has
<1>5. CASE item.type = "unsupported"
  BY <1>5 DEF Has
<1>. QED
  BY <1>1, <1>2, <1>3, <1>4, <1>5

\* So it does when no row of the package is lost.
LEMMA HasStays ==
    ASSUME NEW p \in Packages, NEW i \in DOMAIN Config[p], Has(p, Config[p][i]),
           Config[p][i].type = "model" =>
              \A x \in models \cup taken : x.name = Config[p][i].name /\ x.info = p =>
                 x \in models' \cup taken',
           Config[p][i].type = "pipeline" =>
              \A x \in pipelines \cup taken : x.name = Config[p][i].name /\ x.info = p =>
                 x \in pipelines' \cup taken',
           Config[p][i].type = "resource" =>
              \A x \in resources \cup taken : x.name = Config[p][i].name /\ x.info = p =>
                 x \in resources' \cup taken'
    PROVE  Has(p, Config[p][i])'
<1>. DEFINE n == Config[p][i].name
<1>1. \A v : ModelRow(n, v, p).name = n /\ ModelRow(n, v, p).info = p
  BY RowFields
<1>2. PipelineRow(n, p).name = n /\ PipelineRow(n, p).info = p
  BY RowFields
<1>3. \A path : ResourceRow(n, path, p).name = n /\ ResourceRow(n, path, p).info = p
  BY RowFields
<1>. QED
  BY <1>1, <1>2, <1>3, HasKept

\* A package that nobody is working on keeps its items.
LEMMA RestingKeeps ==
    ASSUME IInv, NamesApart, Next, NEW p \in Rpks, Resting(p), Resting(p)',
           NEW i \in DOMAIN Config[p], Has(p, Config[p][i])
    PROVE  Has(p, Config[p][i])'
<1>1. Losses /\ p \in Packages
  BY LossStep, PluginValues
<1>2. ASSUME NEW t \in {"model", "pipeline", "resource"}, AtNamed(t, Config[p][i].name)
      PROVE  Config[p][i].type # t
  <2>1. job.pkg # p /\ job.pkg \in Rpks /\ idx \in DOMAIN Config[job.pkg]
        /\ Config[job.pkg][idx].type = t /\ Config[job.pkg][idx].name = Config[p][i].name
    BY <1>2 DEF AtNamed, Resting, Item
  <2>. QED
    BY <2>1 DEF NamesApart
<1>3. \A x \in taken : x.info = p => x \in taken'
  BY <1>1 DEF Losses, Resting
<1>. QED
  BY <1>1, <1>2, <1>3, HasStays DEF Losses

\* How an event ends, and what stays as it is while one is handled.
LEMMA JobStep ==
    ASSUME IInv, Next, Running
    PROVE  /\ job.pkg \in Packages /\ base' = base
           /\ pc' # "idle" => /\ job'.pkg = job.pkg /\ job'.entry = job.entry /\ job'.before = job.before
                             /\ phase' = phase
           /\ pc' = "idle" => /\ ~job.again
                             /\ \/ Finish(0) /\ (EndOfConfig \/ (ReadConfig /\ job.pkg \notin Rpks))
                                \/ Finish(-1)
<1>. USE DEF IInv
<1>1. job \in Jobs /\ job.pkg \in Packages
  BY DEF JobOK, Jobs
<1>2. ASSUME NEW code \in {0, -1}, Finish(code)
      PROVE  /\ pc' # "idle" => /\ job'.pkg = job.pkg /\ job'.entry = job.entry
                                /\ job'.before = job.before /\ phase' = phase
             /\ pc' = "idle" => ~job.again
  BY <1>1, <1>2 DEF Finish, Jobs
<1>3. ASSUME NextItem PROVE pc' # "idle" /\ job' = job /\ phase' = phase
  BY <1>3 DEF NextItem
<1>4. CASE ReadConfig
  BY <1>1, <1>2, <1>4 DEF ReadConfig
<1>5. CASE EndOfConfig
  BY <1>1, <1>2, <1>5 DEF EndOfConfig
<1>6. CASE InstallItem
  BY <1>1, <1>2, <1>3, <1>6 DEF InstallItem, AtItem
<1>7. CASE UninstallModel \/ UninstallResource
  BY <1>1, <1>3, <1>7 DEF UninstallModel, UninstallResource
<1>8. CASE UninstallPipeline
  BY <1>1, <1>2, <1>3, <1>8 DEF UninstallPipeline
<1>9. CASE DeleteModel
  <2>1. \/ NextItem
        \/ UNCHANGED <<phase, pc, job>>
        \/ job' = [job EXCEPT !.cut = TRUE] /\ UNCHANGED <<phase, pc>>
    BY <1>9 DEF DeleteModel
  <2>2. pc = "delete" /\ base' = base
    BY <1>9 DEF DeleteModel
  <2>3. ASSUME job' = [job EXCEPT !.cut = TRUE]
        PROVE  job'.pkg = job.pkg /\ job'.entry = job.entry /\ job'.before = job.before
    BY <1>1, <2>3 DEF Jobs
  <2>. QED
    BY <1>1, <1>3, <2>1, <2>2, <2>3
<1>10. CASE Plugin \/ App
  BY <1>1, <1>10 DEF Plugin, App, Running
<1>. QED
  BY <1>4, <1>5, <1>6, <1>7, <1>8, <1>9, <1>10 DEF Next

LEMMA IdleStep ==
    ASSUME IInv, Next, ~Running
    PROVE  phase' = phase /\ pc' \in {"idle", "config"} /\ (pc' = "idle" => job' = job /\ base' = base)
BY DEF Next, Plugin, App, ReadConfig, EndOfConfig, InstallItem, UninstallModel,
       UninstallPipeline, UninstallResource, DeleteModel, AtItem, Running

LEMMA CompleteStep == ASSUME CInv, NamesApart, Next PROVE Complete'
<1>. USE DEF CInv
<1>1. SUFFICES ASSUME NEW p \in Rpks, phase'[p] = "installed", Resting(p)', NEW i \in DOMAIN Config[p]
               PROVE  Has(p, Config[p][i])'
  BY DEF Complete
<1>2. p \in Packages
  BY PluginValues
<1>3. CASE Resting(p)
  <2>1. phase'[p] = phase[p]
    <3>1. CASE ~Running
      BY <3>1, IdleStep
    <3>2. CASE Running
      <4>1. job.pkg # p /\ (phase' = phase \/ (\E code \in {0, -1} : Finish(code)))
        BY <1>3, <3>2, JobStep DEF Resting, Running
      <4>2. \/ phase' = phase
            \/ \E v : phase' = [phase EXCEPT ![job.pkg] = v]
        BY <4>1 DEF Finish
      <4>. QED
        BY <1>2, <4>1, <4>2 DEF IInv, TypeOK
    <3>. QED
      BY <3>1, <3>2
  <2>2. Has(p, Config[p][i])
    BY <1>1, <1>3, <2>1 DEF Complete
  <2>. QED
    BY <1>1, <1>3, <2>2, RestingKeeps
<1>4. CASE ~Resting(p)
  <2>1. Running /\ job.pkg = p
    BY <1>4 DEF Resting, Running
  <2>2. pc' = "idle"
    BY <1>1, <2>1, JobStep DEF Resting
  <2>3. ~job.again /\ (Finish(-1) \/ (Finish(0) /\ EndOfConfig))
    BY <2>1, <2>2, JobStep
  <2>4. ~Finish(-1)
    <3>1. ASSUME Finish(-1)
          PROVE  phase' = [phase EXCEPT ![p] =
                    IF job.entry \in {"INSTALL", "UNINSTALL", "UPGRADE"} THEN job.entry ELSE "lost"]
      BY <2>1, <2>3, <3>1 DEF Finish
    <3>. QED
      BY <1>1, <1>2, <3>1 DEF IInv, TypeOK
  <2>5. Finish(0) /\ EndOfConfig
    BY <2>3, <2>4
  <2>6. job.entry \notin {"UNINSTALL", "RECOVERINSTALL"}
    <3>1. ASSUME job.entry \in {"UNINSTALL", "RECOVERINSTALL"}
          PROVE  phase' = [phase EXCEPT ![p] = "absent"]
      BY <2>1, <2>3, <2>5, <3>1 DEF Finish
    <3>. QED
      BY <1>1, <1>2, <3>1 DEF IInv, TypeOK
  <2>7. job.event = "install"
    BY <2>1, <2>3, <2>6 DEF IInv, JobOK, Jobs, Event, Again, Entries
  <2>8. idx = Size(p) + 1 /\ UNCHANGED store /\ pc = "item" /\ taken' = taken
    <3>1. \/ idx = Size(p) + 1
          \/ idx \in DOMAIN Config[p] /\ Item.type = "unsupported" /\ Finish(-1)
      BY <2>1, <2>2, <2>5, EndedAt
    <3>. QED
      BY <2>4, <2>5, <3>1 DEF EndOfConfig
  <2>9. i < idx
    BY <1>2, <2>8, Shapes
  <2>10. Has(p, Config[p][i])
    BY <2>1, <2>7, <2>8, <2>9 DEF Installing
  <2>. QED
    BY <1>2, <2>8, <2>10, HasKept DEF store
<1>. QED
  BY <1>3, <1>4

(* An INSTALL call leaves what earlier ones have registered.               *)
LEMMA InstalledKeeps ==
    ASSUME IInv, AtItem("install", {"model", "pipeline", "resource"}), taken' = taken,
           Installed(Item.name, job.pkg), NEW p \in Packages, job.pkg = p,
           NEW i \in DOMAIN Config[p], Has(p, Config[p][i])
    PROVE  Has(p, Config[p][i])'
<1>. DEFINE n == Config[p][i].name
<1>1. /\ models \subseteq models'
      /\ \A x \in pipelines \ pipelines' : Item.type = "pipeline" /\ x.name = Item.name
      /\ \A x \in resources \ resources' :
            Item.type = "resource" /\ x.name = Item.name /\ x.path = Item.paths[pidx]
      /\ Item.type = "pipeline" => PipelineRow(Item.name, p) \in pipelines'
      /\ Item.type = "resource" => ResourceRow(Item.name, Item.paths[pidx], p) \in resources'
  BY InstalledRows DEF IInv, FoundOK
<1>2. PipelineRow(n, p).name = n
  BY RowFields
<1>3. PipelineRow(n, p) \in pipelines => PipelineRow(n, p) \in pipelines'
  BY <1>1, <1>2
<1>4. ASSUME NEW path, ResourceRow(n, path, p) \in resources PROVE ResourceRow(n, path, p) \in resources'
  <2>1. ResourceRow(n, path, p).name = n /\ ResourceRow(n, path, p).path = path
    BY RowFields
  <2>. QED
    BY <1>1, <1>4, <2>1
<1>. QED
  BY <1>1, <1>3, <1>4, HasKept

LEMMA InstallingStep == ASSUME CInv, NamesApart, Next PROVE Installing'
<1>. USE DEF CInv, IInv
<1>1. CASE ReadConfig
  <2>1. pc' = "item" => idx' = 1 /\ pidx' = 1
    BY <1>1 DEF ReadConfig, Finish
  <2>2. pc' = "item" => job' = job
    BY <1>1 DEF ReadConfig, Finish
  <2>3. job.pkg \in Packages
    BY <1>1 DEF ReadConfig, JobOK, Jobs, Running
  <2>. QED
    BY <2>1, <2>2, <2>3, Shapes DEF Installing
<1>2. CASE EndOfConfig \/ Plugin
  BY <1>2 DEF EndOfConfig, Finish, Plugin, Installing
<1>3. CASE UninstallModel \/ UninstallPipeline \/ UninstallResource
  BY <1>3 DEF UninstallModel, UninstallPipeline, UninstallResource, AtItem, NextItem, Finish, Installing
<1>4. CASE DeleteModel
  <2>1. job.event = "uninstall" /\ job \in Jobs
    BY <1>4, DeleteStart DEF DeleteModel
  <2>2. \/ job' = job
        \/ job' = [job EXCEPT !.cut = TRUE]
    BY <1>4 DEF DeleteModel, NextItem
  <2>3. job'.event = "uninstall"
    BY <2>1, <2>2 DEF Jobs
  <2>. QED
    BY <2>3 DEF Installing
<1>5. CASE App
  <2>1. AppRows /\ UNCHANGED <<pc, job, idx, pidx, Item>>
    BY <1>5, AppFrame
  <2>2. ASSUME pc = "item", NEW i \in DOMAIN Config[job.pkg], Has(job.pkg, Config[job.pkg][i])
        PROVE  Has(job.pkg, Config[job.pkg][i])'
    <3>1. job.pkg \in Packages
      BY <2>2 DEF JobOK, Jobs, Running
    <3>2. PICK p \in Packages : p = job.pkg
      BY <3>1
    <3>3. /\ \A x \in models \cup taken : x.info = p => x \in models' \cup taken'
          /\ \A x \in pipelines \cup taken : x.info = p => x \in pipelines' \cup taken'
          /\ \A x \in resources \cup taken : x.info = p => x \in resources' \cup taken'
      BY <2>1, <3>2 DEF AppRows
    <3>4. Has(p, Config[p][i])'
      BY <2>2, <3>2, <3>3, HasStays
    <3>. QED
      BY <2>1, <3>2, <3>4
  <2>3. ASSUME pc = "item", NEW k, ResourceRow(Item.name, k, job.pkg) \in resources \cup taken
        PROVE  ResourceRow(Item.name, k, job.pkg) \in resources' \cup taken'
    <3>1. job.pkg \in Packages
      BY <2>3 DEF JobOK, Jobs, Running
    <3>2. ResourceRow(Item.name, k, job.pkg).info = job.pkg
      BY RowFields
    <3>. QED
      BY <2>1, <2>3, <3>1, <3>2 DEF AppRows
  <2>4. (\A i \in DOMAIN Config[job.pkg] : i < idx => Has(job.pkg, Config[job.pkg][i])) /\ pc = "item" =>
           \A i \in DOMAIN Config[job.pkg] : i < idx => Has(job.pkg, Config[job.pkg][i])'
    BY <2>2
  <2>. QED
    BY <2>1, <2>3, <2>4 DEF Installing
<1>6. CASE InstallItem
  <2>1. AtItem("install", {"model", "pipeline", "resource"}) /\ taken' = taken
    BY <1>6 DEF InstallItem
  <2>2. pc = "item" /\ job.event = "install" /\ idx <= Size(job.pkg)
        /\ Item.type \in {"model", "pipeline", "resource"}
    BY <2>1 DEF AtItem, Size
  <2>3. /\ job.pkg \in Packages /\ Size(job.pkg) \in Nat /\ DOMAIN Config[job.pkg] = 1..Size(job.pkg)
        /\ idx \in DOMAIN Config[job.pkg]
        /\ Item.type = "resource" => Len(Item.paths) \in Nat /\ DOMAIN Item.paths = 1..Len(Item.paths)
                                     /\ pidx \in 1..Len(Item.paths)
    BY <2>2, AtItemShape DEF JobOK
  <2>4. CASE Finish(-1)
    BY <2>4 DEF Finish, Installing
  <2>. SUFFICES ASSUME ~Finish(-1) PROVE Installing'
    BY <2>4
  <2>5. Installed(Item.name, job.pkg)
    BY <1>6 DEF InstallItem
  <2>. PICK p \in Packages : p = job.pkg
    BY <2>3
  <2>6. \A i \in DOMAIN Config[p] : i < idx => Has(p, Config[p][i])'
    BY <2>1, <2>2, <2>5, InstalledKeeps DEF Installing
  <2>7. /\ Item.type = "model" => \E v \in 1..MaxVersion : ModelRow(Item.name, v, job.pkg) \in models'
        /\ Item.type = "pipeline" => PipelineRow(Item.name, job.pkg) \in pipelines'
        /\ Item.type = "resource" => ResourceRow(Item.name, Item.paths[pidx], job.pkg) \in resources'
        /\ \A x \in resources \ resources' :
              Item.type = "resource" /\ x.name = Item.name /\ x.path = Item.paths[pidx]
    BY <2>1, <2>5, InstalledRows DEF FoundOK
  <2>8. Item.type = "resource" =>
           \A k \in 1..pidx : ResourceRow(Item.name, Item.paths[k], job.pkg) \in resources' \cup taken'
    <3>1. SUFFICES ASSUME Item.type = "resource", NEW k \in 1..pidx, k # pidx
                   PROVE  ResourceRow(Item.name, Item.paths[k], job.pkg) \in resources' \cup taken'
      BY <2>7
    <3>2. k \in 1..(pidx - 1)
      BY <2>3, <3>1
    <3>. DEFINE row == ResourceRow(Item.name, Item.paths[k], job.pkg)
    <3>3. row \in resources \cup taken
      BY <2>2, <3>1, <3>2 DEF Installing
    <3>4. row.name = Item.name /\ row.path = Item.paths[k]
      BY RowFields
    <3>5. row \in resources \ resources' => row = ResourceRow(Item.name, Item.paths[pidx], job.pkg)
      BY <2>7, <3>4
    <3>. QED
      BY <2>1, <2>7, <3>1, <3>3, <3>5
  <2>9. CASE Item.type = "resource" /\ pidx < Len(Item.paths)
    <3>1. pidx' = pidx + 1 /\ UNCHANGED <<phase, pc, job, idx, found>>
      BY <1>6, <2>9 DEF InstallItem
    <3>2. Item' = Item /\ pidx' - 1 = pidx
      BY <2>3, <2>9, <3>1 DEF Item
    <3>. QED
      BY <2>6, <2>8, <2>9, <3>1, <3>2 DEF Installing
  <2>10. CASE ~ (Item.type = "resource" /\ pidx < Len(Item.paths))
    <3>1. idx' = idx + 1 /\ pidx' = 1 /\ job' = job
      BY <1>6, <2>10 DEF InstallItem, NextItem
    <3>2. Item.type = "resource" => pidx = Len(Item.paths)
      BY <2>3, <2>10
    <3>3. ASSUME NEW i \in DOMAIN Config[p], i = idx PROVE Has(p, Config[p][i])'
      <4>1. Config[p][i] = Item
        BY <3>3 DEF Item
      <4>2. CASE Item.type = "model"
        BY <2>7, <4>1, <4>2 DEF Has
      <4>3. CASE Item.type = "pipeline"
        BY <2>7, <4>1, <4>3 DEF Has
      <4>4. CASE Item.type = "resource"
        <5>1. \A path \in Range(Item.paths) :
                 ResourceRow(Item.name, path, job.pkg) \in resources' \cup taken'
          BY <2>3, <2>8, <3>2, <4>1, <4>4 DEF Range
        <5>. QED
          BY <4>1, <4>4, <5>1 DEF Has
      <4>. QED
        BY <2>2, <4>2, <4>3, <4>4
    <3>4. \A i \in DOMAIN Config[p] : i < idx + 1 => i < idx \/ i = idx
      BY <2>3
    <3>5. \A i \in DOMAIN Config[p] : i < idx' => Has(p, Config[p][i])'
      BY <2>6, <3>1, <3>3, <3>4
    <3>6. Item'.type = "resource" => 1..(pidx' - 1) = {}
      BY <3>1
    <3>. QED
      BY <3>1, <3>5, <3>6 DEF Installing
  <2>. QED
    BY <2>9, <2>10
<1>. QED
  BY <1>1, <1>2, <1>3, <1>4, <1>5, <1>6 DEF Next

LEMMA InitCInv == ASSUME Init PROVE CInv
<1>1. Complete /\ Installing
  BY PluginValues DEF Init, Complete, Installing
<1>. QED
  BY <1>1, InitInv DEF CInv

LEMMA NextCInv == ASSUME CInv, NamesApart, [Next]_vars PROVE CInv'
<1>1. IInv'
  BY NextInv DEF CInv
<1>2. CASE Next
  BY <1>1, <1>2, CompleteStep, InstallingStep DEF CInv
<1>3. CASE UNCHANGED vars
  <2>. USE <1>3 DEF vars, store
  <2>1. Complete'
    BY DEF CInv, Complete, Resting, Has
  <2>2. Installing'
    BY DEF CInv, Installing, Has, Item
  <2>. QED
    BY <1>1, <2>1, <2>2 DEF CInv
<1>. QED
  BY <1>2, <1>3

(* What the package manager was told is installed has all its items and    *)
(* paths in the store, whatever failed before and whatever becomes of      *)
(* other packages, as long as no two packages use the same name.           *)
THEOREM InstalledComplete ==
    ASSUME NamesApart
    PROVE  Spec => []InstalledIsComplete
<1>1. CInv => InstalledIsComplete
  <2>. SUFFICES ASSUME CInv, NEW p \in Rpks, phase[p] = "installed", job.pkg # p,
                       NEW item \in ItemsOf(p)
                PROVE  Has(p, item)
    BY DEF InstalledIsComplete
  <2>1. PICK i \in DOMAIN Config[p] : item = Config[p][i]
    BY DEF ItemsOf, Range
  <2>. QED
    BY <2>1 DEF CInv, Complete, Resting
<1>2. NamesApart
  OBVIOUS
<1>3. CInv /\ [Next]_vars => CInv'
  BY <1>2, NextCInv
<1>. QED
  BY <1>1, <1>3, InitCInv, PTL DEF Spec

-----------------------------------------------------------------------------
(* What a failed installation has registered can be undone. *)

\* Which rows of a package a step may add.
Gains ==
    /\ \A x \in models' \ models : x.info \in Packages =>
          pc = "item" /\ job.event = "install" /\ x.info = job.pkg /\ AtNamed("model", x.name)
    /\ \A x \in pipelines' \ pipelines : x.info \in Packages =>
          pc = "item" /\ job.event = "install" /\ x.info = job.pkg /\ AtNamed("pipeline", x.name)
    /\ \A x \in resources' \ resources : x.info \in Packages =>
          pc = "item" /\ job.event = "install" /\ x.info = job.pkg /\ AtNamed("resource", x.name)

LEMMA GainStep == ASSUME IInv, Next PROVE Gains
<1>. USE DEF IInv
<1>1. CASE InstallItem
  <2>1. AtItem("install", {"model", "pipeline", "resource"})
        /\ (Installed(Item.name, job.pkg) \/ UNCHANGED store)
    BY <1>1 DEF InstallItem
  <2>2. CASE Installed(Item.name, job.pkg)
    <3>1. /\ \A x \in models' \ models :
                Item.type = "model" /\ x.name = Item.name /\ x.info = job.pkg
          /\ \A x \in pipelines' \ pipelines :
                Item.type = "pipeline" /\ x.name = Item.name /\ x.info = job.pkg
          /\ \A x \in resources' \ resources :
                Item.type = "resource" /\ x.name = Item.name /\ x.info = job.pkg
      BY <2>1, <2>2, InstalledRows DEF FoundOK
    <3>2. pc = "item" /\ job.event = "install" /\ job.pkg \in Rpks /\ idx \in DOMAIN Config[job.pkg]
      BY <2>1, AtItemShape DEF AtItem, Size
    <3>. QED
      BY <3>1, <3>2 DEF Gains, AtNamed
  <2>. QED
    BY <2>1, <2>2 DEF store, Gains
<1>2. CASE App
  BY <1>2, AppFrame DEF AppRows, Gains
<1>3. CASE Plugin \/ ReadConfig \/ EndOfConfig \/ UninstallModel
  BY <1>3 DEF Plugin, ReadConfig, EndOfConfig, UninstallModel, store, Gains
<1>4. CASE UninstallPipeline \/ UninstallResource \/ DeleteModel
  <2>1. models' \subseteq models /\ pipelines' \subseteq pipelines /\ resources' \subseteq resources
    BY <1>4 DEF UninstallPipeline, UninstallResource, DeleteModel
  <2>. QED
    BY <2>1 DEF Gains
<1>. QED
  BY <1>1, <1>2, <1>3, <1>4 DEF Next

\* Undoing the items of p stays possible when none of its rows is added and no
\* pipeline of its items goes but to an application.
LEMMA UndoKept ==
    ASSUME NEW p \in Packages, NEW lo, NEW hi, Kept(p, lo, hi), Added(p, lo, hi),
           base'[p] = base[p],
           \A x \in models' : x.info = p => x \in models,
           \A x \in pipelines' : x.info = p => x \in pipelines,
           \A x \in resources' : x.info = p => x \in resources,
           \A i \in DOMAIN Config[p] : Config[p][i].type = "pipeline" =>
              (PipelineRow(Config[p][i].name, p) \in pipelines \cup taken =>
               PipelineRow(Config[p][i].name, p) \in pipelines' \cup taken')
    PROVE  Kept(p, lo, hi)' /\ Added(p, lo, hi)'
<1>1. Kept(p, lo, hi)'
  BY DEF Kept
<1>2. Added(p, lo, hi)'
  BY DEF Added
<1>. QED
  BY <1>1, <1>2

LEMMA UndoStays ==
    ASSUME NEW p \in Packages, NEW lo, Undoable(p, lo), base'[p] = base[p],
           \A x \in models' : x.info = p => x \in models,
           \A x \in pipelines' : x.info = p => x \in pipelines,
           \A x \in resources' : x.info = p => x \in resources,
           \A i \in DOMAIN Config[p] : Config[p][i].type = "pipeline" =>
              (PipelineRow(Config[p][i].name, p) \in pipelines \cup taken =>
               PipelineRow(Config[p][i].name, p) \in pipelines' \cup taken')
    PROVE  Undoable(p, lo)'
<1>1. PICK hi \in 1..(Size(p) + 1) : Kept(p, lo, hi) /\ Added(p, lo, hi)
  BY DEF Undoable
<1>2. Kept(p, lo, hi)' /\ Added(p, lo, hi)'
  BY <1>1, UndoKept
<1>. QED
  BY <1>2 DEF Undoable

\* What applications do leaves what can be undone.
LEMMA AppUndo ==
    ASSUME IInv, App, NEW p \in Packages
    PROVE  /\ \A x \in models' : x.info = p => x \in models
           /\ \A x \in pipelines' : x.info = p => x \in pipelines
           /\ \A x \in resources' : x.info = p => x \in resources
           /\ \A n : PipelineRow(n, p) \in pipelines \cup taken =>
                     PipelineRow(n, p) \in pipelines' \cup taken'
           /\ UNCHANGED <<phase, pc, job, idx, pidx, found, base, faults, jobs, Item>>
<1>1. AppRows /\ UNCHANGED <<phase, pc, job, idx, pidx, found, base, faults, jobs, Item>>
  BY AppFrame
<1>2. \A n : PipelineRow(n, p).info = p
  BY RowFields
<1>. QED
  BY <1>1, <1>2 DEF AppRows

\* What an installation stopped at stays undoable while others work.
LEMMA RestingUndo ==
    ASSUME IInv, PipelinesApart, Next, NEW p \in Rpks, NEW lo \in Nat, Undoable(p, lo),
           base'[p] = base[p], Resting(p) \/ pc = "config", phase[p] = "INSTALL"
    PROVE  Undoable(p, lo)'
<1>1. p \in Packages /\ Losses /\ Gains
  BY PluginValues, LossStep, GainStep
<1>2. pc = "config" \/ pc = "idle" \/ job.pkg # p
  BY DEF Resting
<1>3. /\ \A x \in models' : x.info = p => x \in models
      /\ \A x \in pipelines' : x.info = p => x \in pipelines
      /\ \A x \in resources' : x.info = p => x \in resources
  BY <1>1, <1>2 DEF Gains
<1>4. ASSUME NEW i \in DOMAIN Config[p], Config[p][i].type = "pipeline",
             PipelineRow(Config[p][i].name, p) \in pipelines \cup taken
      PROVE  PipelineRow(Config[p][i].name, p) \in pipelines' \cup taken'
  <2>. DEFINE row == PipelineRow(Config[p][i].name, p)
  <2>1. row.name = Config[p][i].name /\ row.info = p
    BY RowFields
  <2>2. ~AtNamed("pipeline", row.name)
    BY <1>2, <1>4, <2>1 DEF AtNamed, Item, PipelinesApart
  <2>. HIDE DEF row
  <2>3. row \in pipelines => row \in pipelines' \cup taken'
    BY <1>1, <2>1, <2>2 DEF Losses
  <2>4. row \in taken => row \in taken'
    BY <1>1, <2>1 DEF Losses
  <2>. QED
    BY <1>4, <2>3, <2>4 DEF row
<1>. QED
  BY <1>1, <1>3, <1>4, UndoStays

\* An INSTALL call leaves what can be undone, whether or not it took effect.
LEMMA InstallUndo ==
    ASSUME IInv, AtItem("install", {"model", "pipeline", "resource"}),
           Installed(Item.name, job.pkg) \/ UNCHANGED store, base' = base, taken' = taken,
           NEW p \in Packages, p = job.pkg, NEW k \in Nat, k = idx, Kept(p, 1, k), Added(p, 1, k)
    PROVE  /\ Kept(p, 1, k)' /\ Added(p, 1, k)'
           /\ Installed(Item.name, job.pkg) => Kept(p, 1, k + 1)' /\ Added(p, 1, k + 1)'
<1>1. /\ k \in DOMAIN Config[p] /\ Item = Config[p][k] /\ Size(p) \in Nat
      /\ Item.type \in {"model", "pipeline", "resource"} /\ DOMAIN Config[p] = 1..Size(p)
  BY AtItemShape DEF AtItem, IInv, Size, Item
<1>2. CASE UNCHANGED store /\ ~Installed(Item.name, job.pkg)
  BY <1>2 DEF store, Kept, Added
<1>3. CASE Installed(Item.name, job.pkg)
  <2>1. /\ \A x \in models' \ models :
              Item.type = "model" /\ x.name = Item.name /\ x.info = job.pkg
        /\ \A x \in pipelines' \ pipelines :
              Item.type = "pipeline" /\ x.name = Item.name /\ x.info = job.pkg
        /\ \A x \in resources' \ resources :
              Item.type = "resource" /\ x.name = Item.name /\ x.info = job.pkg
        /\ \A x \in pipelines \ pipelines' : Item.type = "pipeline" /\ x.name = Item.name
        /\ Item.type = "pipeline" => PipelineRow(Item.name, p) \in pipelines'
    BY <1>3, InstalledRows DEF IInv, FoundOK
  <2>2. ASSUME NEW n, PipelineRow(n, p) \in pipelines \cup taken
        PROVE  PipelineRow(n, p) \in pipelines' \cup taken'
    <3>1. PipelineRow(n, p).name = n
      BY RowFields
    <3>. QED
      BY <2>1, <2>2, <3>1
  <2>3. Kept(p, 1, k)'
    BY <2>2 DEF Kept
  <2>4. Item.type = "pipeline" => PipelineRow(Item.name, p) \in pipelines' \cup taken'
    BY <2>1
  <2>5. Kept(p, 1, k + 1)'
    <3>1. SUFFICES ASSUME NEW i \in DOMAIN Config[p], i \in 1..k
                   PROVE  /\ Config[p][i].type # "unsupported"
                          /\ Config[p][i].type = "pipeline" =>
                                PipelineRow(Config[p][i].name, p) \in pipelines' \cup taken'
      BY <1>1 DEF Kept
    <3>2. CASE i = k
      BY <1>1, <2>4, <3>2
    <3>3. CASE i # k
      <4>1. i \in 1..(k - 1)
        BY <3>1, <3>3
      <4>. QED
        BY <2>2, <4>1 DEF Kept
    <3>. QED
      BY <3>2, <3>3
  <2>6. Lists(p, Item.type, 1, k, Item.name)
    BY <1>1 DEF Lists
  <2>7. Added(p, 1, k)'
    BY <2>1, <2>6 DEF Added
  <2>8. Added(p, 1, k + 1)'
    <3>1. \A t, n : Lists(p, t, 1, k, n) => Lists(p, t, 1, k + 1, n)
      BY ListsWider
    <3>. HIDE DEF Added
    <3>. QED
      BY <2>7, <3>1 DEF Added
  <2>. QED
    BY <2>3, <2>5, <2>7, <2>8
<1>. QED
  BY <1>2, <1>3

\* What the plugin does for RECOVERINSTALL takes it back: its event is UNINSTALL.
LEMMA EventOf ==
    ASSUME IInv, Running
    PROVE  /\ job.entry = "INSTALL" => job.event = "install" /\ ~job.again
           /\ job.entry = "RECOVERINSTALL" => job.event = "uninstall" /\ ~job.again
           /\ phase[job.pkg] = "INSTALL" <=> job.entry = "RECOVERINSTALL"
           /\ job.pkg \in Packages /\ job.before \in Nat /\ faults \in Nat /\ job.before <= faults
BY PluginBounds DEF IInv, JobOK, Jobs, Event, Again, TypeOK

LEMMA DoingStep == ASSUME UInv, PipelinesApart, Next PROVE Doing'
<1>. USE DEF UInv
<1>1. IInv /\ IInv' /\ Gains
  BY NextInv, GainStep
<1>2. SUFFICES ASSUME pc' \in {"config", "item"}, job'.entry = "INSTALL"
               PROVE  Doing'
  BY DEF Doing
<1>3. PICK p \in Packages : p = job'.pkg
  BY <1>1, <1>2 DEF IInv, JobOK, Jobs, Running
<1>4. CASE Plugin
  <2>1. pc' = "config" /\ UNCHANGED store /\ base' = [base EXCEPT ![p] = Of(p)]
    BY <1>2, <1>3, <1>4 DEF Plugin
  <2>2. Of(p)' = Of(p) /\ base'[p] = Of(p)
    BY <1>1, <2>1 DEF Of, store, IInv, TypeOK
  <2>. QED
    BY <1>3, <2>1, <2>2 DEF Doing
<1>. SUFFICES ASSUME ~Plugin PROVE Doing'
  BY <1>4
<1>5. Running /\ job.pkg = p /\ job.entry = "INSTALL" /\ base' = base /\ job.event = "install" /\ ~job.again
  <2>1. Running
    <3>1. ASSUME ~Running PROVE App
      BY <3>1 DEF Next, Running, ReadConfig, EndOfConfig, InstallItem, UninstallModel,
         UninstallPipeline, UninstallResource, DeleteModel, AtItem
    <3>. QED
      BY <1>2, <3>1 DEF Running, App
  <2>2. job.pkg = p /\ job.entry = "INSTALL" /\ base' = base
    BY <1>2, <1>3, <2>1, JobStep
  <2>. QED
    BY <1>1, <2>1, <2>2, EventOf
<1>6. ~Finish(0) /\ ~Finish(-1)
  BY <1>2, <1>5 DEF Finish
<1>7. CASE ReadConfig
  <2>1. pc = "config" /\ pc' = "item" /\ idx' = 1 /\ UNCHANGED store
    BY <1>6, <1>7 DEF ReadConfig
  <2>2. Of(p) \subseteq base[p]
    BY <1>5, <2>1 DEF Doing
  <2>3. Kept(p, 1, 1)'
    BY DEF Kept
  <2>4. Added(p, 1, 1)'
    BY <1>5, <2>1, <2>2 DEF Added, Of, store
  <2>. QED
    BY <1>3, <2>1, <2>3, <2>4 DEF Doing
<1>8. CASE InstallItem
  <2>1. /\ AtItem("install", {"model", "pipeline", "resource"}) /\ Installed(Item.name, job.pkg)
        /\ pc = "item" /\ pc' = "item" /\ taken' = taken
    BY <1>6, <1>8 DEF InstallItem, AtItem, NextItem
  <2>2. PICK k \in Nat : k = idx
    BY <1>1, <2>1 DEF IInv, TypeOK
  <2>3. Kept(p, 1, k) /\ Added(p, 1, k)
    BY <1>5, <2>1, <2>2 DEF Doing
  <2>4. Kept(p, 1, k)' /\ Added(p, 1, k)' /\ Kept(p, 1, k + 1)' /\ Added(p, 1, k + 1)'
    BY <1>1, <1>5, <2>1, <2>2, <2>3, InstallUndo
  <2>5. idx' \in {k, k + 1}
    BY <1>6, <1>8, <2>2 DEF InstallItem, NextItem
  <2>. QED
    BY <1>3, <2>1, <2>4, <2>5 DEF Doing
<1>9. CASE App
  <2>1. /\ \A x \in models' : x.info = p => x \in models
        /\ \A x \in pipelines' : x.info = p => x \in pipelines
        /\ \A x \in resources' : x.info = p => x \in resources
        /\ \A n : PipelineRow(n, p) \in pipelines \cup taken =>
                  PipelineRow(n, p) \in pipelines' \cup taken'
        /\ UNCHANGED <<pc, job, idx, base>>
    BY <1>1, <1>9, AppUndo
  <2>2. Of(p)' \subseteq Of(p)
    BY <2>1 DEF Of
  <2>3. ASSUME NEW k, Kept(p, 1, k), Added(p, 1, k) PROVE Kept(p, 1, k)' /\ Added(p, 1, k)'
    BY <2>1, <2>3, UndoKept
  <2>. QED
    BY <1>3, <1>5, <2>1, <2>2, <2>3 DEF Doing
<1>10. CASE EndOfConfig
  BY <1>6, <1>10 DEF EndOfConfig
<1>11. CASE UninstallModel \/ UninstallPipeline \/ UninstallResource
  BY <1>5, <1>11 DEF UninstallModel, UninstallPipeline, UninstallResource, AtItem
<1>12. CASE DeleteModel
  BY <1>1, <1>5, <1>12, DeleteStart DEF DeleteModel
<1>. QED
  BY <1>7, <1>8, <1>9, <1>10, <1>11, <1>12 DEF Next

LEMMA StoppedStep == ASSUME UInv, PipelinesApart, Next PROVE Stopped'
<1>. USE DEF UInv
<1>1. IInv /\ IInv' /\ Gains
  BY NextInv, GainStep
<1>2. SUFFICES ASSUME NEW p \in Rpks, phase'[p] = "INSTALL", (pc = "config" \/ Resting(p))'
               PROVE  Undoable(p, 1)'
  BY DEF Stopped
<1>3. p \in Packages
  BY PluginValues
<1>4. CASE phase[p] = "INSTALL" /\ (pc = "config" \/ Resting(p))
  <2>1. Undoable(p, 1)
    BY <1>4 DEF Stopped
  <2>2. base'[p] = base[p]
    <3>1. CASE Running
      BY <3>1, <1>1, JobStep
    <3>2. CASE ~Running /\ pc' = "idle"
      BY <3>2, <1>1, IdleStep
    <3>3. CASE Plugin
      <4>1. job'.entry = "INSTALL" => job'.pkg # p
        BY <1>4, <3>3 DEF Plugin, MayCall
      <4>. QED
        BY <1>1, <1>3, <3>3, <4>1 DEF Plugin, IInv, TypeOK
    <3>4. CASE ~Running /\ pc' # "idle" /\ ~Plugin
      BY <3>4 DEF Next, Running, ReadConfig, EndOfConfig, InstallItem, UninstallModel,
         UninstallPipeline, UninstallResource, DeleteModel, AtItem, App
    <3>. QED
      BY <3>1, <3>2, <3>3, <3>4
  <2>. QED
    BY <1>1, <1>4, <2>1, <2>2, RestingUndo
<1>5. CASE ~ (phase[p] = "INSTALL" /\ (pc = "config" \/ Resting(p)))
  <2>1. Running /\ job.pkg = p
    <3>1. ASSUME ~Running PROVE FALSE
      BY <1>2, <1>5, <3>1, <1>1, IdleStep DEF Resting, Running
    <3>2. Running
      BY <3>1
    <3>3. ASSUME job.pkg # p PROVE FALSE
      <4>1. phase[p] # "INSTALL"
        BY <1>5, <3>3 DEF Resting
      <4>2. \/ phase' = phase
            \/ \E v : phase' = [phase EXCEPT ![job.pkg] = v]
        BY <1>1, <3>2, JobStep DEF Finish
      <4>. QED
        BY <1>1, <1>2, <1>3, <3>3, <4>1, <4>2 DEF IInv, TypeOK
    <3>. QED
      BY <3>2, <3>3
  <2>2. pc' = "idle"
    <3>1. ASSUME pc' # "idle" PROVE FALSE
      <4>1. phase' = phase /\ job'.pkg = job.pkg /\ job'.entry = job.entry
        BY <1>1, <2>1, <3>1, JobStep
      <4>2. pc' = "config"
        BY <1>2, <2>1, <3>1, <4>1 DEF Resting
      <4>3. job.entry = "RECOVERINSTALL" /\ ~job.again /\ pc # "config"
        BY <1>1, <1>2, <1>5, <2>1, <4>1, EventOf
      <4>4. ~Finish(0) /\ ~Finish(-1)
        BY <3>1, <4>3 DEF Finish
      <4>. QED
        BY <2>1, <4>2, <4>3, <4>4 DEF Next, Plugin, ReadConfig, EndOfConfig, InstallItem, UninstallModel,
           UninstallPipeline, UninstallResource, DeleteModel, App, NextItem, Running
    <3>. QED
      BY <3>1
  <2>3. ~job.again /\ (Finish(0) \/ Finish(-1)) /\ base' = base
    BY <1>1, <2>1, <2>2, JobStep
  <2>4. ~Finish(0)
    <3>1. ASSUME Finish(0)
          PROVE  phase' = [phase EXCEPT ![p] =
                    IF job.entry \in {"UNINSTALL", "RECOVERINSTALL"} THEN "absent" ELSE "installed"]
      BY <2>1, <2>3, <3>1 DEF Finish
    <3>. QED
      BY <1>1, <1>2, <1>3, <3>1 DEF IInv, TypeOK
  <2>5. job.entry = "INSTALL"
    <3>1. phase' = [phase EXCEPT ![p] =
                    IF job.entry \in {"INSTALL", "UNINSTALL", "UPGRADE"} THEN job.entry ELSE "lost"]
      BY <2>1, <2>3, <2>4 DEF Finish
    <3>. QED
      BY <1>1, <1>2, <1>3, <3>1 DEF IInv, TypeOK
  <2>6. job.event = "install"
    BY <1>1, <2>1, <2>5, EventOf
  <2>7. 1 \in 1..(Size(p) + 1)
    BY <1>3, Shapes
  <2>8. CASE ReadConfig
    <3>1. Of(p) \subseteq base[p] /\ UNCHANGED store
      BY <2>1, <2>5, <2>8 DEF Doing, ReadConfig
    <3>2. Kept(p, 1, 1)'
      BY DEF Kept
    <3>3. Added(p, 1, 1)'
      BY <2>3, <3>1 DEF Added, Of, store
    <3>. QED
      BY <2>7, <3>2, <3>3 DEF Undoable
  <2>9. CASE InstallItem \/ EndOfConfig
    <3>1. pc = "item" /\ idx \in 1..(Size(p) + 1) /\ idx \in Nat
      BY <1>1, <1>3, <2>1, <2>9, Shapes DEF InstallItem, EndOfConfig, AtItem, IInv, TypeOK, Size
    <3>2. PICK k \in 1..(Size(p) + 1) : k = idx
      BY <3>1
    <3>3. Kept(p, 1, k) /\ Added(p, 1, k)
      BY <2>1, <2>5, <3>1, <3>2 DEF Doing
    <3>4. CASE InstallItem
      <4>1. AtItem("install", {"model", "pipeline", "resource"}) /\ taken' = taken
            /\ (Installed(Item.name, job.pkg) \/ UNCHANGED store)
        BY <3>4 DEF InstallItem
      <4>2. Kept(p, 1, k)' /\ Added(p, 1, k)'
        BY <1>1, <1>3, <2>1, <2>3, <3>1, <3>2, <3>3, <4>1, InstallUndo
      <4>. QED
        BY <4>2 DEF Undoable
    <3>5. CASE EndOfConfig
      <4>1. UNCHANGED store /\ taken' = taken
        BY <3>5 DEF EndOfConfig
      <4>2. Kept(p, 1, k)' /\ Added(p, 1, k)'
        BY <2>3, <3>3, <4>1 DEF Kept, Added, store
      <4>. QED
        BY <4>2 DEF Undoable
    <3>. QED
      BY <2>9, <3>4, <3>5
  <2>10. CASE UninstallModel \/ UninstallPipeline \/ UninstallResource
    BY <2>6, <2>10 DEF UninstallModel, UninstallPipeline, UninstallResource, AtItem
  <2>11. CASE DeleteModel
    BY <1>1, <2>6, <2>11, DeleteStart DEF DeleteModel
  <2>12. CASE Plugin \/ App
    BY <2>1, <2>2, <2>12 DEF Plugin, App, Running
  <2>. QED
    BY <2>8, <2>9, <2>10, <2>11, <2>12 DEF Next
<1>. QED
  BY <1>4, <1>5

\* Once an item has no row left outside base, undoing goes on with the next one.
LEMMA UndoNext ==
    ASSUME NEW p \in Packages, NEW lo \in DOMAIN Config[p], Undoable(p, lo), base' = base,
           models' \subseteq models, pipelines' \subseteq pipelines, resources' \subseteq resources,
           \A x \in models' : x.info = p /\ Config[p][lo].type = "model" =>
              x \in base[p] \/ x.name # Config[p][lo].name,
           \A x \in pipelines' : x.info = p /\ Config[p][lo].type = "pipeline" => x.name # Config[p][lo].name,
           \A x \in resources' : x.info = p /\ Config[p][lo].type = "resource" => x.name # Config[p][lo].name,
           \A i \in DOMAIN Config[p] : i # lo /\ Config[p][i].type = "pipeline" =>
              (PipelineRow(Config[p][i].name, p) \in pipelines \cup taken =>
               PipelineRow(Config[p][i].name, p) \in pipelines' \cup taken')
    PROVE  Undoable(p, lo + 1)'
<1>1. PICK hi \in 1..(Size(p) + 1) : Kept(p, lo, hi) /\ Added(p, lo, hi)
  BY DEF Undoable
<1>2. Size(p) \in Nat /\ lo \in Int /\ hi \in Int /\ DOMAIN Config[p] = 1..Size(p)
  BY Shapes
<1>3. Kept(p, lo + 1, hi)'
  <2>1. SUFFICES ASSUME NEW i \in DOMAIN Config[p], i \in (lo + 1)..(hi - 1)
                 PROVE  /\ Config[p][i].type # "unsupported"
                        /\ Config[p][i].type = "pipeline" =>
                              PipelineRow(Config[p][i].name, p) \in pipelines' \cup taken'
    BY DEF Kept
  <2>2. i \in lo..(hi - 1) /\ i # lo
    BY <1>2, <2>1
  <2>. QED
    BY <1>1, <2>2 DEF Kept
<1>4. ASSUME NEW t, NEW n, Lists(p, t, lo, hi, n), ~ (Config[p][lo].type = t /\ Config[p][lo].name = n)
      PROVE  Lists(p, t, lo + 1, hi, n)
  BY <1>2, <1>4, ListsNext
<1>5. Added(p, lo + 1, hi)'
  BY <1>1, <1>4 DEF Added
<1>. QED
  BY <1>3, <1>5 DEF Undoable

LEMMA UndoingStep == ASSUME UInv, PipelinesApart, Next PROVE Undoing'
<1>. USE DEF UInv
<1>1. IInv /\ IInv' /\ Gains
  BY NextInv, GainStep
<1>2. SUFFICES ASSUME (/\ pc \in {"item", "delete"} /\ job.entry = "RECOVERINSTALL"
                       /\ faults = job.before /\ ~job.cut)'
               PROVE  Undoing'
  BY DEF Undoing
<1>3. PICK p \in Packages : p = job'.pkg /\ p \in Rpks
  BY <1>1, <1>2, PluginValues DEF IInv, JobOK
<1>4. Running
  BY <1>1, <1>2, IdleStep
<1>5. /\ job.pkg = p /\ job.entry = "RECOVERINSTALL" /\ base' = base /\ job.before = job'.before
      /\ phase' = phase
  BY <1>2, <1>3, <1>4, JobStep
<1>6. job.event = "uninstall" /\ ~job.again /\ phase[p] = "INSTALL"
      /\ job.before \in Nat /\ faults \in Nat /\ job.before <= faults
  BY <1>1, <1>4, <1>5, EventOf
<1>7. ~Fails
  BY <1>2, <1>5, <1>6 DEF Fails
<1>8. ~Finish(0) /\ ~Finish(-1)
  BY <1>2, <1>6 DEF Finish
<1>9. ASSUME ~ReadConfig
      PROVE  /\ pc \in {"item", "delete"} /\ faults = job.before
  <2>1. pc \in {"item", "delete"}
    BY <1>2, <1>9, <1>8 DEF Next, Plugin, ReadConfig, EndOfConfig, InstallItem, UninstallModel,
       UninstallPipeline, UninstallResource, DeleteModel, App, AtItem
  <2>2. faults' = faults
    BY <1>7, <1>8, <1>9 DEF Next, Plugin, EndOfConfig, InstallItem, UninstallModel,
       UninstallPipeline, UninstallResource, DeleteModel, App, Works
  <2>. QED
    BY <1>2, <1>5, <2>1, <2>2
<1>10. ASSUME ~ReadConfig, ~job.cut
       PROVE  /\ Undoable(p, idx)
              /\ \A x \in models : x.info = p => x \in base[p] \/ Pending(x)
  BY <1>5, <1>9, <1>10 DEF Undoing
<1>11. ASSUME NEW i \in DOMAIN Config[p], NEW j \in DOMAIN Config[p], i # j,
              Config[p][i].type = "pipeline", Config[p][j].type = "pipeline"
       PROVE  Config[p][i].name # Config[p][j].name
  BY <1>3, <1>11 DEF PipelinesApart
<1>12. CASE ReadConfig
  <2>1. pc = "config" /\ pc' = "item" /\ idx' = 1 /\ UNCHANGED store /\ taken' = taken
    BY <1>8, <1>12 DEF ReadConfig
  <2>2. Undoable(p, 1)
    BY <1>3, <1>6, <2>1 DEF Stopped
  <2>3. Undoable(p, 1)'
    BY <1>5, <2>1, <2>2, UndoStays DEF store
  <2>. QED
    BY <1>3, <2>1, <2>3 DEF Undoing, Pending
<1>13. CASE NextItem /\ UninstallModel
  <2>1. /\ AtItem("uninstall", {"model"}) /\ Named(models, Item.name) = {} /\ UNCHANGED store /\ job' = job
        /\ idx' = idx + 1 /\ pc' = "item" /\ taken' = taken
    BY <1>7, <1>13 DEF UninstallModel, NextItem
  <2>2. PICK lo \in DOMAIN Config[p] : lo = idx /\ Config[p][lo] = Item
    BY <1>1, <1>5, <2>1, RemovalStart DEF Item
  <2>3. Undoable(p, lo)
    BY <1>2, <1>10, <2>1, <2>2 DEF UninstallModel, ReadConfig, AtItem
  <2>4. Undoable(p, lo + 1)'
    BY <1>5, <2>1, <2>2, <2>3, UndoNext DEF store, Named, AtItem
  <2>. QED
    BY <1>3, <2>1, <2>2, <2>4 DEF Undoing, Pending
<1>14. CASE ~NextItem /\ UninstallModel
  <2>1. /\ found' = Named(models, Item.name) /\ UNCHANGED store /\ UNCHANGED <<job, idx, taken>>
        /\ pc = "item"
    BY <1>7, <1>14 DEF UninstallModel, AtItem
  <2>2. PICK lo \in Nat : lo = idx
    BY <1>1, <2>1 DEF IInv, TypeOK
  <2>3. Undoable(p, lo)
    BY <1>2, <1>10, <2>1, <2>2 DEF ReadConfig
  <2>4. Undoable(p, lo)'
    BY <1>5, <2>1, <2>3, UndoStays DEF store
  <2>5. \A x \in models' : Pending(x)'
    BY <2>1 DEF Pending, Named, Item, store
  <2>. QED
    BY <1>3, <2>1, <2>2, <2>4, <2>5 DEF Undoing
<1>15. CASE UninstallPipeline
  <2>1. /\ AtItem("uninstall", {"pipeline"}) /\ pipelines' = pipelines \ Named(pipelines, Item.name)
        /\ UNCHANGED <<models, resources, taken>> /\ job' = job /\ idx' = idx + 1 /\ pc' = "item"
    BY <1>8, <1>15 DEF UninstallPipeline, NextItem
  <2>2. PICK lo \in DOMAIN Config[p] : lo = idx /\ Config[p][lo] = Item
    BY <1>1, <1>5, <2>1, RemovalStart DEF Item
  <2>3. Undoable(p, lo)
    BY <1>2, <1>10, <2>1, <2>2 DEF ReadConfig, AtItem
  <2>4. Item.type = "pipeline"
    BY <2>1 DEF AtItem
  <2>5. ASSUME NEW i \in DOMAIN Config[p], i # lo, Config[p][i].type = "pipeline",
               PipelineRow(Config[p][i].name, p) \in pipelines \cup taken
        PROVE  PipelineRow(Config[p][i].name, p) \in pipelines' \cup taken'
    <3>1. PipelineRow(Config[p][i].name, p).name = Config[p][i].name
      BY RowFields
    <3>2. Config[p][i].name # Item.name
      BY <1>11, <2>2, <2>4, <2>5
    <3>. QED
      BY <2>1, <2>5, <3>1, <3>2 DEF Named
  <2>6. pipelines' \subseteq pipelines /\ \A x \in pipelines' : x.name # Item.name
    BY <2>1 DEF Named
  <2>7. Undoable(p, lo + 1)'
    BY <1>5, <2>1, <2>2, <2>3, <2>4, <2>5, <2>6, UndoNext
  <2>. QED
    BY <1>3, <2>1, <2>2, <2>7 DEF Undoing, Pending
<1>16. CASE UninstallResource
  <2>1. /\ AtItem("uninstall", {"resource"}) /\ resources' = resources \ Named(resources, Item.name)
        /\ UNCHANGED <<models, pipelines, taken>> /\ job' = job /\ idx' = idx + 1 /\ pc' = "item"
    BY <1>7, <1>16 DEF UninstallResource, NextItem
  <2>2. PICK lo \in DOMAIN Config[p] : lo = idx /\ Config[p][lo] = Item
    BY <1>1, <1>5, <2>1, RemovalStart DEF Item
  <2>3. Undoable(p, lo)
    BY <1>2, <1>10, <2>1, <2>2 DEF ReadConfig, AtItem
  <2>4. Item.type = "resource"
    BY <2>1 DEF AtItem
  <2>5. resources' \subseteq resources /\ \A x \in resources' : x.name # Item.name
    BY <2>1 DEF Named
  <2>6. Undoable(p, lo + 1)'
    BY <1>5, <2>1, <2>2, <2>3, <2>4, <2>5, UndoNext
  <2>. QED
    BY <1>3, <2>1, <2>2, <2>6 DEF Undoing, Pending
<1>17. CASE DeleteModel
  <2>1. pc = "delete" /\ UNCHANGED <<pipelines, resources, taken>> /\ models' \subseteq models
    BY <1>17 DEF DeleteModel
  <2>2. PICK lo \in DOMAIN Config[p] : lo = idx /\ Config[p][lo] = Item /\ Item.type = "model"
    BY <1>1, <1>5, <2>1, DeleteStart DEF Item
  <2>3. ~job.cut /\ job' = job
    <3>1. job \in Jobs
      BY <1>1, <2>1, DeleteStart
    <3>2. job' = job \/ job' = [job EXCEPT !.cut = TRUE]
      BY <1>17 DEF DeleteModel, NextItem
    <3>. QED
      BY <1>2, <3>1, <3>2 DEF Jobs
  <2>4. Undoable(p, lo) /\ \A x \in models : x.info = p => x \in base[p] \/ Pending(x)
    BY <1>10, <2>1, <2>2, <2>3 DEF ReadConfig
  <2>5. CASE NextItem
    <3>1. idx' = idx + 1 /\ pc' = "item"
      BY <2>5 DEF NextItem
    <3>2. found = {}
      BY <1>17, <2>1, <3>1 DEF DeleteModel
    <3>3. \A x \in models' : x.info = p => x \in base[p] \/ x.name # Item.name
      BY <2>1, <2>4, <3>2 DEF Pending
    <3>4. Undoable(p, lo + 1)'
      BY <1>5, <2>1, <2>2, <2>4, <3>3, UndoNext
    <3>. QED
      BY <1>3, <2>2, <3>1, <3>4 DEF Undoing, Pending
  <2>6. CASE ~NextItem
    <3>1. PICK x \in found :
             /\ found' = found \ {x} /\ UNCHANGED <<pc, idx>>
             /\ \/ x.info \in Skipped
                \/ models' = {y \in models : y.name # x.name \/ y.version # x.version}
      <4>1. PICK x \in found :
              \/ found' = {} /\ job' = [job EXCEPT !.cut = TRUE]
              \/ x.info \in Skipped /\ found' = found \ {x} /\ UNCHANGED <<pc, idx>>
              \/ /\ models' = {y \in models : y.name # x.name \/ y.version # x.version}
                 /\ found' = found \ {x} /\ UNCHANGED <<pc, idx>>
        BY <1>7, <1>17, <2>6 DEF DeleteModel
      <4>2. job' # [job EXCEPT !.cut = TRUE]
        <5>1. job \in Jobs
          BY <1>1, <2>1, DeleteStart
        <5>. QED
          BY <2>3, <5>1 DEF Jobs
      <4>. QED
        BY <4>1, <4>2
    <3>2. \A y \in models' : y.info = p => y # x
      BY <1>3, <3>1, InfosApart
    <3>3. \A y \in models' : y.info = p => y \in base'[p] \/ Pending(y)'
      BY <1>5, <2>1, <2>3, <2>4, <3>1, <3>2 DEF Pending, Item
    <3>4. Undoable(p, lo)'
      <4>1. lo \in Nat
        BY Shapes
      <4>. QED
        BY <1>5, <2>1, <2>4, <4>1, UndoStays
    <3>. QED
      BY <1>3, <2>2, <3>1, <3>3, <3>4 DEF Undoing
  <2>. QED
    BY <2>5, <2>6
<1>18. CASE App
  <2>1. /\ \A x \in models' : x.info = p => x \in models
        /\ \A x \in pipelines' : x.info = p => x \in pipelines
        /\ \A x \in resources' : x.info = p => x \in resources
        /\ \A n : PipelineRow(n, p) \in pipelines \cup taken =>
                  PipelineRow(n, p) \in pipelines' \cup taken'
        /\ UNCHANGED <<pc, job, idx, found, base, Item>>
    BY <1>1, <1>18, AppUndo
  <2>2. pc \in {"item", "delete"} /\ ~job.cut /\ ~ReadConfig
    BY <1>2, <2>1 DEF ReadConfig
  <2>3. Undoable(p, idx)'
    BY <1>10, <2>1, <2>2, UndoStays
  <2>4. \A x \in models' : x.info = p => x \in base'[p] \/ Pending(x)'
    BY <1>10, <2>1, <2>2 DEF Pending
  <2>. QED
    BY <1>3, <2>1, <2>3, <2>4 DEF Undoing
<1>19. CASE EndOfConfig \/ InstallItem \/ Plugin
  BY <1>4, <1>6, <1>8, <1>19 DEF EndOfConfig, InstallItem, AtItem, Plugin, Running
<1>. QED
  BY <1>12, <1>13, <1>14, <1>15, <1>16, <1>17, <1>18, <1>19 DEF Next

\* Where undoing can go no further, nothing of the package is left outside base.
LEMMA NothingLeft ==
    ASSUME NEW p \in Packages, NEW lo \in Nat \ {0}, Undoable(p, lo),
           \/ lo = Size(p) + 1
           \/ /\ lo \in DOMAIN Config[p]
              /\ \/ Config[p][lo].type = "unsupported"
                 \/ /\ Config[p][lo].type = "pipeline"
                    /\ Named(pipelines, Config[p][lo].name) = {}
                    /\ PipelineRow(Config[p][lo].name, p) \notin taken
    PROVE  Of(p) \subseteq base[p]
<1>1. PICK hi \in 1..(Size(p) + 1) : Kept(p, lo, hi) /\ Added(p, lo, hi)
  BY DEF Undoable
<1>2. Size(p) \in Nat /\ hi \in Nat /\ DOMAIN Config[p] = 1..Size(p)
  BY Shapes
<1>3. hi <= lo
  <2>1. CASE lo = Size(p) + 1
    BY <1>2, <2>1
  <2>2. CASE lo \in DOMAIN Config[p]
    <3>1. ASSUME ~ (hi <= lo) PROVE FALSE
      <4>1. lo \in lo..(hi - 1)
        BY <1>2, <3>1
      <4>2. lo # Size(p) + 1
        BY <1>2, <2>2
      <4>3. PipelineRow(Config[p][lo].name, p).name = Config[p][lo].name
        BY RowFields
      <4>. QED
        BY <1>1, <2>2, <4>1, <4>2, <4>3 DEF Kept, Named
    <3>. QED
      BY <3>1
  <2>. QED
    BY <2>1, <2>2
<1>4. ASSUME NEW t, NEW n, Lists(p, t, lo, hi, n)
      PROVE  lo \in DOMAIN Config[p] /\ Config[p][lo].type = t /\ Config[p][lo].name = n
  BY <1>2, <1>3, <1>4 DEF Lists
<1>5. ASSUME NEW t, NEW n, Lists(p, t, lo, hi, n)
      PROVE  t = "unsupported" \/ (t = "pipeline" /\ Named(pipelines, n) = {})
  <2>1. lo # Size(p) + 1
    BY <1>2, <1>4, <1>5
  <2>. QED
    BY <1>4, <1>5, <2>1
<1>6. ASSUME NEW x \in models, x.info = p PROVE x \in base[p]
  BY <1>1, <1>5, <1>6 DEF Added
<1>7. ASSUME NEW x \in pipelines, x.info = p PROVE x \in base[p]
  <2>1. Named(pipelines, x.name) # {}
    BY DEF Named
  <2>. QED
    BY <1>1, <1>5, <1>7, <2>1 DEF Added
<1>8. ASSUME NEW x \in resources, x.info = p PROVE x \in base[p]
  BY <1>1, <1>5, <1>8 DEF Added
<1>. QED
  BY <1>6, <1>7, <1>8 DEF Of

LEMMA RecoveryStep ==
    ASSUME UInv, Next, NEW p \in Rpks, job.entry = "RECOVERINSTALL", job.pkg = p, pc' = "idle",
           faults' = job.before, ~job.cut,
           \A item \in ItemsOf(p) : item.type = "pipeline" => PipelineRow(item.name, p) \notin taken
    PROVE  Of(p)' \subseteq base[p]
<1>. USE DEF UInv
<1>1. Running
  <2>1. job # NoJob
    BY NoJobEntry DEF Entries
  <2>. QED
    BY <2>1 DEF IInv, TypeOK, Running
<1>2. job.event = "uninstall" /\ ~job.again /\ p \in Packages
      /\ job.before \in Nat /\ faults \in Nat /\ job.before <= faults
  BY <1>1, EventOf
<1>3. ~Fails
  BY <1>2 DEF Fails
<1>4. CASE EndOfConfig
  <2>1. UNCHANGED <<store, faults>>
        /\ (idx = Size(p) + 1 \/ (idx \in DOMAIN Config[p] /\ Item.type = "unsupported"))
    BY <1>4, EndedAt
  <2>2. pc = "item"
    BY <1>4 DEF EndOfConfig
  <2>3. PICK lo \in Nat \ {0} : lo = idx
    BY <2>2 DEF IInv, TypeOK
  <2>4. Undoable(p, lo)
    BY <2>1, <2>2, <2>3 DEF Undoing
  <2>5. lo = Size(p) + 1 \/ (lo \in DOMAIN Config[p] /\ Config[p][lo].type = "unsupported")
    BY <2>1, <2>3 DEF Item
  <2>6. Of(p) \subseteq base[p]
    BY <1>2, <2>4, <2>5, NothingLeft
  <2>. QED
    BY <2>1, <2>6 DEF Of, store
<1>5. CASE UninstallPipeline
  <2>1. /\ AtItem("uninstall", {"pipeline"}) /\ Named(pipelines, Item.name) = {}
        /\ UNCHANGED <<store, faults>>
    BY <1>3, <1>5 DEF UninstallPipeline, NextItem, Works, store
  <2>2. pc = "item" /\ idx \in DOMAIN Config[p] /\ Item.type = "pipeline"
    BY <2>1, RemovalStart
  <2>3. PICK lo \in Nat \ {0} : lo = idx
    BY <2>2 DEF IInv, TypeOK
  <2>4. Undoable(p, lo)
    BY <2>1, <2>2, <2>3 DEF Undoing
  <2>5. /\ lo \in DOMAIN Config[p] /\ Config[p][lo].type = "pipeline"
        /\ Named(pipelines, Config[p][lo].name) = {}
        /\ PipelineRow(Config[p][lo].name, p) \notin taken
    BY <2>1, <2>2, <2>3 DEF Item, ItemsOf, Range
  <2>6. Of(p) \subseteq base[p]
    BY <1>2, <2>4, <2>5, NothingLeft
  <2>. QED
    BY <2>1, <2>6 DEF Of, store
<1>6. CASE ReadConfig
  BY <1>3, <1>6 DEF ReadConfig
<1>7. CASE Plugin \/ App \/ InstallItem
  BY <1>1, <1>2, <1>7 DEF Plugin, App, InstallItem, AtItem, Running
<1>8. CASE UninstallModel \/ UninstallResource \/ DeleteModel
  BY <1>8 DEF UninstallModel, UninstallResource, DeleteModel, NextItem
<1>. QED
  BY <1>4, <1>5, <1>6, <1>7, <1>8 DEF Next

LEMMA InitUInv == ASSUME Init PROVE UInv
<1>1. Stopped /\ Undoing /\ Doing
  BY PluginValues DEF Init, Stopped, Undoing, Doing
<1>. QED
  BY <1>1, InitInv DEF UInv

LEMMA NextUInv == ASSUME UInv, PipelinesApart, [Next]_vars PROVE UInv'
<1>1. IInv'
  BY NextInv DEF UInv
<1>2. CASE Next
  BY <1>1, <1>2, StoppedStep, UndoingStep, DoingStep DEF UInv
<1>3. CASE UNCHANGED vars
  <2>. USE <1>3 DEF vars, store
  <2>1. \A p, lo, hi : (Kept(p, lo, hi)' <=> Kept(p, lo, hi)) /\ (Added(p, lo, hi)' <=> Added(p, lo, hi))
    BY DEF Kept, Added
  <2>2. \A p, lo : Undoable(p, lo)' <=> Undoable(p, lo)
    BY <2>1 DEF Undoable
  <2>3. Stopped'
    BY <2>2 DEF UInv, Stopped, Resting
  <2>4. Undoing'
    BY <2>2 DEF UInv, Undoing, Pending, Item
  <2>5. Doing'
    BY <2>1 DEF UInv, Doing, Of
  <2>. QED
    BY <1>1, <2>3, <2>4, <2>5 DEF UInv
<1>. QED
  BY <1>2, <1>3

(* Recovering a failed installation takes back all it has registered, as   *)
(* long as no pipeline is listed twice, no further call fails, no app_info *)
(* cuts the deletes of a model short and no application takes a pipeline.  *)
THEOREM RecoveryUndone ==
    ASSUME PipelinesApart
    PROVE  Spec => RecoveryUndoesInstall
<1>1. UInv /\ [Next]_vars => UInv'
  BY NextUInv
<1>2. ASSUME UInv, [Next]_vars
      PROVE  [\A p \in Rpks :
                job.entry = "RECOVERINSTALL" /\ job.pkg = p /\ pc' = "idle"
                /\ faults' = job.before /\ ~job.cut
                /\ (\A item \in ItemsOf(p) :
                      item.type = "pipeline" => PipelineRow(item.name, p) \notin taken)
                   => Of(p)' \subseteq base[p]]_vars
  BY <1>2, RecoveryStep
<1>. QED
  BY <1>1, <1>2, InitUInv, PTL DEF Spec, RecoveryUndoesInstall

-----------------------------------------------------------------------------
(* What an application gets resolved: the loop of                          *)
(* _resolve_rpk_path_in_json, turn by turn.                                *)

\* What the turns make of the rows s, the last of them that of the newest row.
Turn(rows, reach, f) ==
    [s \in SUBSET rows |->
        IF s = {} THEN [going |-> TRUE, versions |-> {}]
        ELSE ResolveOne(f[s \ {Newest(s)}], Newest(s), reach)]

Loop(rows, reach) == CHOOSE f : f = Turn(rows, reach, f)

\* Resolved is this loop over all rows of the name.
LEMMA ResolvedLoop ==
    ASSUME NEW n, NEW reach
    PROVE  Resolved(n, reach) = Loop(Named(models, n), reach)[Named(models, n)].versions
  BY DEF Resolved, MapThenFoldSet, Loop, Turn

\* The rows of one model, as the store has them.
Versioned(rows) ==
    /\ \A x \in rows : x.version \in 1..MaxVersion
    /\ \A x, y \in rows : x.version = y.version => x = y

\* What the loop has found in the rows s.
Lets(s, reach) == \A y \in s : y.info \in reach \cup Passed

Reached(s, reach) ==
    {x \in s : x.info \in reach /\ Lets({y \in s : y.version < x.version}, reach)}

Outcome(s, reach) ==
    [going |-> Lets(s, reach), versions |-> {x.version : x \in Reached(s, reach)}]

\* Every set of natural numbers that is not empty has a least one.
LEMMA Least ==
    ASSUME NEW T \in SUBSET Nat, T # {}
    PROVE  \E k \in T : \A j \in T : k <= j
<1> DEFINE R == {ss \in Nat \X Nat : ss[1] < ss[2]}
<1>1. IsWellFoundedOn(R, Nat)
  BY NatLessThanWellFounded DEF OpToRel
<1> HIDE DEF R
<1>2. PICK k \in T : \A j \in T : <<j, k>> \notin R
  BY <1>1, WFMin
<1>3. \A j \in T : ~(j < k)
  BY <1>2 DEF R
<1> QED  BY <1>2, <1>3

\* The newest of some rows is one of them, and newer than the others.
LEMMA NewestRow ==
    ASSUME NEW s, Versioned(s), s # {}
    PROVE  Newest(s) \in s /\ \A y \in s : y # Newest(s) => y.version < Newest(s).version
<1> DEFINE T == {MaxVersion - x.version : x \in s}
<1>1. T \in SUBSET Nat /\ T # {} /\ MaxVersion \in Nat
  BY PluginBounds DEF Versioned
<1>2. PICK k \in T : \A j \in T : k <= j
  BY <1>1, Least
<1>3. PICK x \in s : k = MaxVersion - x.version
  BY <1>2
<1>4. \A y \in s : MaxVersion - x.version <= MaxVersion - y.version
  BY <1>2, <1>3
<1>5. \A y \in s : y.version <= x.version
  BY <1>1, <1>4 DEF Versioned
<1>6. Newest(s) \in s /\ \A y \in s : y.version <= Newest(s).version
  BY <1>5 DEF Newest
<1> QED  BY <1>1, <1>6 DEF Versioned

\* One turn finds what its row adds to the rows before it.
LEMMA OneTurn ==
    ASSUME NEW reach \in SUBSET Packages, NEW s, Versioned(s), s # {}
    PROVE  ResolveOne(Outcome(s \ {Newest(s)}, reach), Newest(s), reach) = Outcome(s, reach)
<1> DEFINE x == Newest(s)
           t == s \ {x}
<1>1. x \in s /\ \A y \in t : y.version < x.version
  BY NewestRow
<1>2. \A y \in s : y.version \in Nat
  BY PluginBounds DEF Versioned
<1>3. \A info \in Passed : info \notin reach
  BY InfosApart
<1> HIDE DEF x
<1>4. Lets(s, reach) <=> Lets(t, reach) /\ x.info \in reach \cup Passed
  BY <1>1 DEF Lets
<1>5. \A y \in t : {z \in s : z.version < y.version} = {z \in t : z.version < y.version}
  BY <1>1, <1>2
<1>6. {z \in s : z.version < x.version} = t
  BY <1>1, <1>2
<1>7. Reached(s, reach) = Reached(t, reach) \cup
         (IF x.info \in reach /\ Lets(t, reach) THEN {x} ELSE {})
  BY <1>1, <1>5, <1>6 DEF Reached
<1>8. {y.version : y \in Reached(s, reach)} = {y.version : y \in Reached(t, reach)} \cup
         (IF x.info \in reach /\ Lets(t, reach) THEN {x.version} ELSE {})
  BY <1>7
<1> DEFINE old == Outcome(t, reach)
<1>9. old.going = Lets(t, reach) /\ old.versions = {y.version : y \in Reached(t, reach)}
      /\ old = [going |-> old.going, versions |-> old.versions]
  BY DEF Outcome
<1>10. Outcome(s, reach).going = Lets(s, reach)
  BY DEF Outcome
<1>11. Lets(t, reach) \in BOOLEAN /\ Lets(s, reach) \in BOOLEAN
  BY DEF Lets
<1> HIDE DEF t, old
<1>12. CASE ~Lets(t, reach) \/ x.info \in Passed
  <2>1. Lets(s, reach) = Lets(t, reach)
    BY <1>4, <1>11, <1>12
  <2>2. {y.version : y \in Reached(s, reach)} = {y.version : y \in Reached(t, reach)}
    BY <1>3, <1>8, <1>12
  <2>3. ResolveOne(old, x, reach) = old
    BY <1>9, <1>12 DEF ResolveOne
  <2> QED  BY <2>1, <2>2, <2>3 DEF Outcome, old, t, x
<1>13. CASE Lets(t, reach) /\ x.info \notin Passed /\ x.info \notin reach
  <2>1. Lets(s, reach) = FALSE
    BY <1>4, <1>11, <1>13
  <2>2. {y.version : y \in Reached(s, reach)} = old.versions
    BY <1>8, <1>9, <1>13
  <2>3. ResolveOne(old, x, reach) = [going |-> FALSE, versions |-> old.versions]
    BY <1>9, <1>13 DEF ResolveOne
  <2> QED  BY <2>1, <2>2, <2>3 DEF Outcome, old, t, x
<1>14. CASE Lets(t, reach) /\ x.info \notin Passed /\ x.info \in reach
  <2>1. Lets(s, reach) = TRUE /\ old.going = TRUE
    BY <1>4, <1>9, <1>11, <1>14
  <2>2. {y.version : y \in Reached(s, reach)} = old.versions \cup {x.version}
    BY <1>8, <1>9, <1>14
  <2>3. ResolveOne(old, x, reach) = [going |-> TRUE, versions |-> old.versions \cup {x.version}]
    BY <1>9, <1>14, <2>1 DEF ResolveOne
  <2> QED  BY <2>1, <2>2, <2>3 DEF Outcome, old, t, x
<1> QED  BY <1>12, <1>13, <1>14

\* The loop computes Outcome: Outcome takes the same turns, and what takes these
\* turns is determined by them, version by version.
LEMMA LoopOutcome ==
    ASSUME NEW reach \in SUBSET Packages, NEW rows, Versioned(rows)
    PROVE  Loop(rows, reach)[rows] = Outcome(rows, reach)
<1> DEFINE g == [s \in SUBSET rows |-> Outcome(s, reach)]
           f == Loop(rows, reach)
<1>1. \A s \in SUBSET rows : Versioned(s)
  BY DEF Versioned
<1>2. Outcome({}, reach) = [going |-> TRUE, versions |-> {}]
  BY DEF Outcome, Lets, Reached
<1>3. g = Turn(rows, reach, g)
  <2>1. ASSUME NEW s \in SUBSET rows
        PROVE  g[s] = IF s = {} THEN [going |-> TRUE, versions |-> {}]
                      ELSE ResolveOne(g[s \ {Newest(s)}], Newest(s), reach)
    BY <1>1, <1>2, OneTurn
  <2> HIDE DEF g
  <2>2. g = [s \in SUBSET rows |-> g[s]]
    BY DEF g
  <2> QED  BY <2>1, <2>2 DEF Turn
<1> HIDE DEF g
<1>4. f = Turn(rows, reach, f)
  BY <1>3 DEF Loop
<1> HIDE DEF f
<1> DEFINE UpTo(k) == {x \in rows : x.version <= k}
           Bad == {k \in Nat : \E s \in SUBSET UpTo(k) : f[s] # g[s]}
<1>5. ASSUME Bad # {} PROVE FALSE
  <2>1. PICK k \in Bad : \A j \in Bad : k <= j
    BY <1>5, Least
  <2>2. PICK s \in SUBSET UpTo(k) : f[s] # g[s]
    BY <2>1
  <2>3. s \in SUBSET rows /\ k \in Nat
    BY <2>1, <2>2
  <2>4. s # {}
    BY <1>3, <1>4, <2>2, <2>3 DEF Turn
  <2>5. Newest(s) \in s /\ \A y \in s \ {Newest(s)} : y.version < Newest(s).version
    BY <1>1, <2>3, <2>4, NewestRow
  <2>6. \A y \in s : y.version \in 1..k
    BY <2>2, <2>3, PluginBounds DEF Versioned
  <2>7. k - 1 \in Nat /\ k - 1 \notin Bad
    BY <2>1, <2>3, <2>5, <2>6
  <2>8. s \ {Newest(s)} \in SUBSET UpTo(k - 1)
    BY <2>3, <2>5, <2>6
  <2>9. f[s \ {Newest(s)}] = g[s \ {Newest(s)}]
    BY <2>7, <2>8
  <2> QED  BY <1>3, <1>4, <2>2, <2>3, <2>4, <2>9 DEF Turn
<1>6. rows \in SUBSET UpTo(MaxVersion) /\ MaxVersion \in Nat
  BY PluginBounds DEF Versioned
<1>7. f[rows] = g[rows]
  BY <1>5, <1>6
<1> QED  BY <1>7 DEF f, g

\* The same in every state the invariant admits.
LEMMA ResolvedPaths == ASSUME IInv PROVE PathsAreResolved
<1> SUFFICES ASSUME NEW n \in Models, NEW reach \in SUBSET Packages,
                    NEW x \in Named(models, n)
             PROVE  x.version \in Resolved(n, reach) <=>
                       x.info \in reach /\ \A y \in Named(models, n) :
                          y.version < x.version => y.info \in reach \cup Passed
  BY DEF PathsAreResolved
<1> DEFINE rows == Named(models, n)
<1>1. Versioned(rows)
  <2>1. \A y \in rows : y \in models /\ y.name = n
    BY DEF Named
  <2>2. \A y \in models : y.version \in 1..MaxVersion
    BY DEF IInv, TypeOK
  <2>3. UniqueVersions
    BY DEF IInv, FoundOK
  <2> QED  BY <2>1, <2>2, <2>3 DEF Versioned, UniqueVersions, SameKey
<1>2. Resolved(n, reach) = Outcome(rows, reach).versions
  BY <1>1, ResolvedLoop, LoopOutcome
<1>3. Resolved(n, reach) = {y.version : y \in Reached(rows, reach)}
  BY <1>2 DEF Outcome
<1> HIDE DEF rows
<1>4. x \in rows
  BY DEF rows
<1>5. x.version \in Resolved(n, reach) <=> x \in Reached(rows, reach)
  <2>1. ASSUME NEW y \in Reached(rows, reach), y.version = x.version PROVE y = x
    BY <1>1, <1>4, <2>1 DEF Reached, Versioned
  <2> QED  BY <1>3, <2>1
<1>6. x \in Reached(rows, reach) <=>
         x.info \in reach /\ \A y \in rows : y.version < x.version => y.info \in reach \cup Passed
  BY <1>4 DEF Reached, Lets
<1> QED  BY <1>5, <1>6 DEF rows

\* An application finds the full path of each version of the packages that let
\* it in, but for those behind a lower version whose app_info is no JSON object,
\* or that belongs to another package.
THEOREM PathsResolved == Spec => []PathsAreResolved
  BY Inductive, ResolvedPaths, PTL
=============================================================================
