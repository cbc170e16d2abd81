--------------------------- MODULE MLServiceStore ---------------------------
(***************************************************************************)
(* What the service database promises its clients, free of SQL: a request  *)
(* is served in one step, or fails without a trace.  Each model name has a *)
(* set of registered versions and at most one of them is the active one by *)
(* construction; resources are lists in insertion order.                   *)
(***************************************************************************)
EXTENDS Integers, Sequences, FiniteSets, SequencesExt

CONSTANTS
    Clients,    \* who asks
    Requests,   \* what can be asked, records with a field op
    NoReq,      \* nothing is being asked
    Names,
    Empty,      \* no description
    Minus1      \* the version number that stands for -1

VARIABLES
    models,     \* models[n]: registered version |-> path, desc, app
    active,     \* active[n]: the active version of n, 0 if there is none
    pipelines,  \* pipelines[n]: the description, Empty if there is none
    resources,  \* resources[n]: the sequence of path, desc, app
    asked,      \* asked[c]: the request of c that is not answered yet
    answer      \* answer[c]: the last answer c got

tables == <<models, active, pipelines, resources>>
vars == <<models, active, pipelines, resources, asked, answer>>

Info(r) == [path |-> r.path, desc |-> r.desc, app |-> r.app]

Versions(n) == DOMAIN models[n]

Newest(n) == IF Versions(n) = {} THEN 0 ELSE Max(Versions(n))

-----------------------------------------------------------------------------
(* The effect of a request on the tables. *)

SetPipeline(r) ==
    /\ r.op = "set_pipeline"
    /\ pipelines' = [pipelines EXCEPT ![r.name] = r.desc]
    /\ UNCHANGED <<models, active, resources>>

DeletePipeline(r) ==
    /\ r.op = "delete_pipeline"
    /\ pipelines' = [pipelines EXCEPT ![r.name] = Empty]
    /\ UNCHANGED <<models, active, resources>>

SetModel(r) ==
    LET new == Newest(r.name) + 1
    IN  /\ r.op = "set_model"
        /\ models' = [models EXCEPT ![r.name] =
                        [v \in DOMAIN @ \cup {new} |-> IF v = new THEN Info(r) ELSE @[v]]]
        /\ active' = IF r.active THEN [active EXCEPT ![r.name] = new] ELSE active
        /\ UNCHANGED <<pipelines, resources>>

UpdateDescription(r) ==
    /\ r.op = "update_description"
    /\ r.version \in Versions(r.name)
    /\ models' = [models EXCEPT ![r.name][r.version].desc = r.desc]
    /\ UNCHANGED <<active, pipelines, resources>>

ActivateModel(r) ==
    /\ r.op = "activate_model"
    /\ r.version \in Versions(r.name)
    /\ active' = [active EXCEPT ![r.name] = r.version]
    /\ UNCHANGED <<models, pipelines, resources>>

DeleteModel(r) ==
    LET gone == IF r.version = 0 THEN Versions(r.name) ELSE {r.version}
    IN  /\ r.op = "delete_model"
        /\ models' = [models EXCEPT ![r.name] = Restrict(@, DOMAIN @ \ gone)]
        /\ active' = IF active[r.name] \in gone THEN [active EXCEPT ![r.name] = 0]
                                                ELSE active
        /\ UNCHANGED <<pipelines, resources>>

\* The list without its entry for the path, if there is one.
Without(list, path) ==
    LET same == {i \in DOMAIN list : list[i].path = path}
    IN  IF same = {} THEN list ELSE RemoveAt(list, CHOOSE i \in same : TRUE)

SetResource(r) ==
    /\ r.op = "set_resource"
    /\ resources' = [resources EXCEPT ![r.name] = Append(Without(@, r.path), Info(r))]
    /\ UNCHANGED <<models, active, pipelines>>

DeleteResource(r) ==
    /\ r.op = "delete_resource"
    /\ resources' = [resources EXCEPT ![r.name] = <<>>]
    /\ UNCHANGED <<models, active, pipelines>>

Get(r) ==
    /\ r.op \in {"get_pipeline", "get_model", "get_activated", "get_resource"}
    /\ UNCHANGED tables

Effect(r) ==
    \/ SetPipeline(r) \/ DeletePipeline(r)
    \/ SetModel(r) \/ UpdateDescription(r) \/ ActivateModel(r) \/ DeleteModel(r)
    \/ SetResource(r) \/ DeleteResource(r)
    \/ Get(r)

-----------------------------------------------------------------------------
(* Which requests are refused, and what the others are answered. *)

\* The versions a get call prints.
Wanted(r) ==
    CASE r.op = "get_activated" \/ r.version = Minus1 ->
            {active[r.name]} \cap Versions(r.name)
      [] r.op = "get_model" /\ r.version = 0 -> Versions(r.name)
      [] OTHER -> {r.version} \cap Versions(r.name)

Refused(r) ==
    CASE r.op \in {"get_pipeline", "delete_pipeline"} -> pipelines[r.name] = Empty
      [] r.op \in {"get_resource", "delete_resource"} -> resources[r.name] = <<>>
      [] r.op \in {"update_description", "activate_model"} -> r.version \notin Versions(r.name)
      [] r.op \in {"get_model", "get_activated"} -> Wanted(r) = {}
      [] r.op = "delete_model" ->
            \/ Versions(r.name) = {}
            \/ r.version > 0 /\ r.version \notin Versions(r.name)
            \/ r.version > 0 /\ ~r.force /\ r.version = active[r.name]
      [] OTHER -> FALSE

Printed(r) ==
    CASE r.op = "get_pipeline" -> {[name |-> r.name, desc |-> pipelines[r.name]]}
      [] r.op \in {"get_model", "get_activated"} ->
            {[name |-> r.name, version |-> v, active |-> v = active[r.name],
              path |-> models[r.name][v].path, desc |-> models[r.name][v].desc,
              app |-> models[r.name][v].app] : v \in Wanted(r)}
      [] r.op = "get_resource" ->
            LET list == resources[r.name]
            IN  {[name |-> r.name, place |-> i, path |-> list[i].path,
                  desc |-> list[i].desc, app |-> list[i].app] : i \in DOMAIN list}
      [] OTHER -> {}

Answer(code, version, rows) == [code |-> code, version |-> version, rows |-> rows]

NoAnswer == Answer("none", 0, {})

Reply(r) ==
    Answer("OK", IF r.op = "set_model" THEN Newest(r.name) + 1 ELSE 0, Printed(r))

-----------------------------------------------------------------------------

Init ==
    /\ models = [n \in Names |-> <<>>]
    /\ active = [n \in Names |-> 0]
    /\ pipelines = [n \in Names |-> Empty]
    /\ resources = [n \in Names |-> <<>>]
    /\ asked = [c \in Clients |-> NoReq]
    /\ answer = [c \in Clients |-> NoAnswer]

Ask(c) ==
    /\ asked[c] = NoReq
    /\ asked' \in {[asked EXCEPT ![c] = r] : r \in Requests}
    /\ answer' = [answer EXCEPT ![c] = NoAnswer]
    /\ UNCHANGED tables

\* A request without a name or a value is turned down at once.
TurnDown(c) ==
    /\ asked[c] = NoReq
    /\ answer' = [answer EXCEPT ![c] = Answer("EINVAL", 0, {})]
    /\ UNCHANGED <<models, active, pipelines, resources, asked>>

Serve(c) ==
    /\ asked[c] # NoReq
    /\ ~Refused(asked[c])
    /\ Effect(asked[c])
    /\ answer' = [answer EXCEPT ![c] = Reply(asked[c])]
    /\ asked' = [asked EXCEPT ![c] = NoReq]

Refuse(c) ==
    /\ asked[c] # NoReq
    /\ Refused(asked[c])
    /\ answer' = [answer EXCEPT ![c] = Answer("EINVAL", 0, {})]
    /\ asked' = [asked EXCEPT ![c] = NoReq]
    /\ UNCHANGED tables

\* An error of the database: the request leaves no trace.
Fail(c) ==
    /\ asked[c] # NoReq
    /\ answer' = [answer EXCEPT ![c] = Answer("EIO", 0, {})]
    /\ asked' = [asked EXCEPT ![c] = NoReq]
    /\ UNCHANGED tables

\* A crash forgets requests and answers, never what was served.
Restart ==
    /\ asked' = [c \in Clients |-> NoReq]
    /\ answer' = [c \in Clients |-> NoAnswer]
    /\ UNCHANGED tables

Next ==
    \/ \E c \in Clients : Ask(c) \/ TurnDown(c) \/ Serve(c) \/ Refuse(c) \/ Fail(c)
    \/ Restart

Spec == Init /\ [][Next]_vars

(* The same promise without the answers: the tables only ever change by    *)
(* the whole effect of one request.                                        *)
TablesInit ==
    /\ models = [n \in Names |-> <<>>]
    /\ active = [n \in Names |-> 0]
    /\ pipelines = [n \in Names |-> Empty]
    /\ resources = [n \in Names |-> <<>>]

TablesNext == \E r \in Requests : Effect(r)

TablesSpec == TablesInit /\ [][TablesNext]_tables
=============================================================================
