------------------------------ MODULE Startup -------------------------------
(***************************************************************************)
(* From the command line to a listening server (main.rs): `validate`, as a *)
(* pipeline runs it before a deployment, and then `serve`, over the same   *)
(* document in the same world.  Both resolve the path and load the         *)
(* configuration; `validate` ends with the offline check of the engines,   *)
(* `serve` goes on to telemetry, the engines, the state and the listener.  *)
(* Every step either passes or ends the process with an error: the verdict *)
(* of a command is the name of the step that failed, or "ok".              *)
(*                                                                         *)
(* What the outside does at boot is a choice: an embedding API or the ONNX *)
(* runtime may fail, and so may an exporter, an HTTP client, or the bind.  *)
(***************************************************************************)
EXTENDS Config, Planning

CONSTANT Scenarios  \* a document and the world both commands run in

Commands == {"validate", "serve"}

(* Where a configuration may be found.                                      *)
Extensions == {"toml", "yaml", "yml", "json", "other"}
Path == [dir : {"explicit", "user", "etc"}, ext : Extensions]

(* `explicit` is the path of `--config` (at most one); `files` exist;       *)
(* `home` is whether there is a user directory; a keyring entry is missing, *)
(* empty or a secret; `adc` is whether credentials are discovered; `cgroup` *)
(* and `total` are 0 if they cannot be read.                                *)
World ==
  [explicit : SUBSET Path, files : SUBSET Path, home : BOOLEAN,
   env : [Variables -> Contents \cup {"unset"}],
   keyring : [Entries -> {"missing", "empty", "secret"}],
   adc : BOOLEAN, cores : Nat, cgroup : Nat, total : Nat]

ASSUME StartupAssumption ==
  /\ Scenarios \subseteq [doc : Document, world : World]
  /\ \A s \in Scenarios : Cardinality(s.world.explicit) <= 1

VARIABLES
  doc, world,  \* the scenario
  command,     \* the command that runs
  phase,       \* the step it is at, "serving", or "ended"
  cfg,         \* the decoded configuration
  roster,      \* the engines built so far, in the document's order
  ladder,      \* the roster by ascending budget
  pool,        \* the sessions of the embedded engine
  metrics,     \* the instruments of the server: unbound, noop or real
  effects,     \* what each command did outside the process
  verdict      \* how each command ended

vars == <<doc, world, command, phase, cfg, roster, ladder, pool, metrics, effects, verdict>>

scenario == <<doc, world>>
built    == <<roster, ladder, pool>>

NoConfig == [auth |-> <<>>, tables |-> <<>>]
NoPool   == [size |-> 0, intra |-> 0, warned |-> {}]
NoEffect == [keyring |-> {}, adc |-> 0, remote |-> {}]

Init ==
  /\ \E s \in Scenarios : doc = s.doc /\ world = s.world
  /\ command = "validate"
  /\ phase = "path"
  /\ cfg = NoConfig
  /\ roster = <<>> /\ ladder = <<>> /\ pool = NoPool
  /\ metrics = "unbound"
  /\ effects = [c \in Commands |-> NoEffect]
  /\ verdict = [c \in Commands |-> "pending"]

End(result) ==
  /\ phase' = "ended"
  /\ verdict' = [verdict EXCEPT ![command] = result]

(* The step at `p` passes, on to `q`, or ends the process.                  *)
Pass(p, q) == phase = p /\ phase' = q /\ UNCHANGED verdict
Refuse(p)  == phase = p /\ End(p)
Step(p, q, holds) ==
  /\ phase = p
  /\ \/ holds /\ Pass(p, q)
     \/ ~holds /\ Refuse(p)

----------------------------------------------------------------------------
(* Loading. *)

(* The well-known places, in the order in which they are tried.             *)
Names == <<"toml", "yaml", "yml", "json">>

Candidates ==
  (IF world.home THEN [i \in 1..4 |-> [dir |-> "user", ext |-> Names[i]]] ELSE <<>>) \o
  [i \in 1..4 |-> [dir |-> "etc", ext |-> Names[i]]]

Present == {i \in DOMAIN Candidates : Candidates[i] \in world.files}

(* `resolve_config_path`: an explicit path is taken as it is.               *)
ConfigPath ==
  IF world.explicit # {} THEN CHOOSE p \in world.explicit : TRUE
  ELSE Candidates[CHOOSE i \in Present : \A j \in Present : i <= j]

FormatOf(ext) == IF ext = "yml" THEN "yaml" ELSE ext

ResolvePath ==
  /\ Step("path", "format", world.explicit # {} \/ Present # {})
  /\ UNCHANGED <<scenario, command, cfg, built, metrics, effects>>

FormatForPath ==
  /\ Step("format", "read", FormatOf(ConfigPath.ext) \in Formats)
  /\ UNCHANGED <<scenario, command, cfg, built, metrics, effects>>

Read ==
  /\ Step("read", "syntax", ConfigPath \in world.files)
  /\ UNCHANGED <<scenario, command, cfg, built, metrics, effects>>

(* The first pass of `parse_with_format`. *)
Parse ==
  /\ Step("syntax", "environment", FormatOf(ConfigPath.ext) \in doc.syntax)
  /\ UNCHANGED <<scenario, command, cfg, built, metrics, effects>>

ExpandEnv ==
  /\ Step("environment", "schema", Expandable(doc, world.env))
  /\ UNCHANGED <<scenario, command, cfg, built, metrics, effects>>

(* The second pass, into the schema. *)
Deserialize ==
  /\ Step("schema", "validate", Decodable(doc, world.env))
  /\ cfg' = IF Decodable(doc, world.env) THEN Decode(doc, world.env) ELSE cfg
  /\ UNCHANGED <<scenario, command, built, metrics, effects>>

Validate ==
  /\ Step("validate", "keyring", Valid(doc))
  /\ UNCHANGED <<scenario, command, cfg, built, metrics, effects>>

(* The lookups end at the first entry that cannot be read. *)
ResolveKeyring ==
  LET slots == Slots(doc, cfg)
      readable == Unreadable(slots, world.keyring) = {}
  IN /\ Step("keyring", IF command = "serve" THEN "telemetry" ELSE "engines", readable)
     /\ cfg' = IF readable THEN ResolveSecrets(doc, cfg, world.keyring) ELSE cfg
     /\ effects' = [effects EXCEPT ![command].keyring = @ \cup LookedUp(slots, world.keyring)]
     /\ UNCHANGED <<scenario, command, built, metrics>>

----------------------------------------------------------------------------
(* The engines. *)

(* `validate_config`, the last step of `validate` and the first of the      *)
(* roster's construction in `serve`.                                        *)
CheckEngines ==
  /\ phase = "engines"
  /\ \/ ~EnginesValid(doc, cfg) /\ Refuse("engines")
     \/ EnginesValid(doc, cfg) /\ command = "validate" /\ End("ok")
     \/ EnginesValid(doc, cfg) /\ command = "serve" /\ Pass("engines", "build")
  /\ UNCHANGED <<scenario, command, cfg, built, metrics, effects>>

(* After `validate`, whatever its verdict, the server is started.           *)
Deploy ==
  /\ phase = "ended" /\ command = "validate"
  /\ command' = "serve" /\ phase' = "path"
  /\ cfg' = NoConfig
  /\ UNCHANGED <<scenario, built, metrics, effects, verdict>>

(* `telemetry::init`: the providers are global from here on.                *)
InitTelemetry ==
  /\ phase = "telemetry"
  /\ \/ Pass("telemetry", "engines")
     \/ doc.telemetry.on /\ Refuse("telemetry")
  /\ UNCHANGED <<scenario, command, cfg, built, metrics, effects>>

Building == phase = "build" /\ Len(roster) < Len(Selected(doc))
Current  == Selected(doc)[Len(roster) + 1]

(* The slip of a setting that is taken as it is, left out or not. *)
AsWritten(setting, default) == setting

OrElse(setting, default) == IF setting = -1 THEN default ELSE setting

(* `DebertaV3XsmallZeroshot::from_config`: an explicit size is honoured,    *)
(* with a warning, and an engine has at least one session.                  *)
BuildLocal ==
  LET budget == DetectMemoryBudget(world.cgroup, world.total)
      plan   == PlanInference(world.cores, budget)
      size   == OrElse(doc.inference_pool_size, plan.pool)
      intra  == OrElse(doc.intra_op_threads, plan.intra)
  IN /\ Building /\ Current = Local
     /\ \/ /\ roster' = Append(roster, Current)
           /\ pool' = [size |-> AtLeastOne(size), intra |-> intra,
                       warned |-> OvercommitWarnings(size, intra, world.cores, budget)]
           /\ UNCHANGED <<phase, verdict>>
        \/ End("sessions") /\ UNCHANGED <<roster, pool>>
     /\ UNCHANGED <<scenario, command, cfg, ladder, metrics, effects>>

(* How constructing a remote engine ends: its credentials and its header    *)
(* come first, then the HTTP client, the semaphore, which panics beyond its *)
(* maximum, and the anchors, embedded over the network.                     *)
Outcomes(e) ==
  LET table  == cfg.tables[e]
      secret == IF Surface(e, table) = "vertex" THEN table.access_token ELSE table.api_key
  IN IF NeedsAdc(e, table) /\ ~world.adc THEN {"adc"}
     ELSE IF Refers(secret) THEN {"unresolved"}
     ELSE IF ~QuotaProjectSendable(e, table) THEN {"quota_project"}
     ELSE {"client"} \cup
          (IF doc.tables[e].max_concurrency = "beyond" THEN {"max_concurrency"}
           ELSE {"anchors", "built"})

(* `build` of a remote engine; credentials are discovered unless there is a *)
(* static one.                                                              *)
BuildRemote ==
  /\ Building /\ Current # Local
  /\ \E outcome \in Outcomes(Current) :
       /\ \/ outcome = "built" /\ roster' = Append(roster, Current) /\ UNCHANGED <<phase, verdict>>
          \/ outcome # "built" /\ End(outcome) /\ UNCHANGED roster
       /\ effects' = [effects EXCEPT
            ![command].adc    = @ + (IF NeedsAdc(Current, cfg.tables[Current]) THEN 1 ELSE 0),
            ![command].remote = @ \cup (IF outcome \in {"anchors", "built"} THEN {Current} ELSE {})]
  /\ UNCHANGED <<scenario, command, cfg, ladder, pool, metrics>>

(* `EngineRoster::new`. *)
Assemble ==
  /\ phase = "build" /\ ~Building
  /\ \E rungs \in ByBudget([i \in DOMAIN roster |-> Budgets[roster[i]]]) :
       \/ Accepted(rungs) /\ ladder' = rungs /\ Pass("build", "state")
       \/ ~Accepted(rungs) /\ ladder' = ladder /\ End("roster")
  /\ UNCHANGED <<scenario, command, cfg, roster, pool, metrics, effects>>

----------------------------------------------------------------------------
(* The state and the listener. *)

(* `RoutedModel::resolve_all` discovers credentials once, for the first     *)
(* model that asks for them.                                                *)
Discoveries(auth) == IF \E i \in DOMAIN auth : auth[i].kind = "google-adc" THEN 1 ELSE 0

(* `AppState::new`: the client, the models' credentials, the instruments,   *)
(* which are those of the meter provider that is installed by now.          *)
NewState ==
  LET adc == Discoveries(cfg.auth)
      unusable(i) == Refers(cfg.auth[i]) \/ (cfg.auth[i].kind = "google-adc" /\ ~world.adc)
      bad == {i \in DOMAIN cfg.auth : unusable(i)}
  IN /\ phase = "state"
     /\ \/ End("client") /\ UNCHANGED <<metrics, effects>>
        \/ /\ bad # {}
           /\ LET i == CHOOSE i \in bad : \A j \in bad : i <= j
              IN End(IF Refers(cfg.auth[i]) THEN "unresolved" ELSE "adc")
           /\ effects' = [effects EXCEPT ![command].adc = @ + adc]
           /\ UNCHANGED metrics
        \/ /\ bad = {}
           /\ Pass("state", "bind")
           /\ effects' = [effects EXCEPT ![command].adc = @ + adc]
           /\ metrics' = IF doc.telemetry.on /\ doc.telemetry.metrics THEN "real" ELSE "noop"
     /\ UNCHANGED <<scenario, command, cfg, built>>

Bind ==
  /\ phase = "bind"
  /\ \/ Refuse("bind")
     \/ phase' = "serving" /\ verdict' = [verdict EXCEPT ![command] = "ok"]
  /\ UNCHANGED <<scenario, command, cfg, built, metrics, effects>>

Next ==
  \/ ResolvePath \/ FormatForPath \/ Read \/ Parse \/ ExpandEnv \/ Deserialize
  \/ Validate \/ ResolveKeyring \/ InitTelemetry \/ CheckEngines \/ Deploy
  \/ BuildLocal \/ BuildRemote \/ Assemble \/ NewState \/ Bind

Spec == Init /\ [][Next]_vars

----------------------------------------------------------------------------
Configuration == [auth : Seq(Secret), tables : [Remotes -> DecodedTable]]

(* The steps that need only the document, the files, the environment and    *)
(* the keyring, and those that need the rest of the world.                  *)
Offline ==
  {"path", "format", "read", "syntax", "environment", "schema", "validate", "keyring", "engines"}
AtBoot ==
  {"telemetry", "sessions", "client", "adc", "quota_project", "max_concurrency", "anchors", "bind"}

(* Every variable stays in its range: in particular the sessions are at     *)
(* least one once there is an engine that needs them, and no step fails     *)
(* that is not listed here.                                                 *)
TypeOK ==
  /\ [doc |-> doc, world |-> world] \in Scenarios
  /\ command \in Commands
  /\ phase \in Offline \cup {"telemetry", "build", "state", "bind", "serving", "ended"}
  /\ cfg = NoConfig \/ cfg \in Configuration
  /\ roster \in Seq(Engines)
  /\ ladder \in Seq(Rung)
  /\ pool \in [size : Nat, intra : Nat, warned : SUBSET {"cpu", "memory"}]
  /\ Local \in Range(roster) => pool.size > 0
  /\ metrics \in {"unbound", "noop", "real"}
  /\ effects \in [Commands -> [keyring : SUBSET Entries, adc : Nat, remote : SUBSET Remotes]]
  /\ verdict \in [Commands -> {"pending", "ok"} \cup Offline \cup AtBoot]

(* "A config it rejects is rejected here identically": what `validate`      *)
(* refuses, `serve` refuses at the same step (or at the exporters, which it *)
(* sets up before it checks the engines), before it builds an engine, looks *)
(* for credentials or reaches the network; what `validate` accepts, `serve` *)
(* refuses for nothing that could have been checked offline but the quota   *)
(* project and the size of a semaphore.                                     *)
ValidateForetells ==
  verdict["serve"] # "pending" =>
    /\ verdict["validate"] # "ok" =>
         /\ \/ verdict["serve"] = verdict["validate"]
            \/ verdict["serve"] = "telemetry" /\ verdict["validate"] = "engines"
         /\ effects["serve"] = effects["validate"]
         /\ roster = <<>> /\ metrics = "unbound"
    /\ verdict["validate"] = "ok" => verdict["serve"] \in AtBoot \cup {"ok"}
    /\ effects["validate"].adc = 0 /\ effects["validate"].remote = {}

(* The keyring entries of what runs: the routed models' and the selected    *)
(* engines'.                                                                *)
RunningEntries ==
  LET keys == {doc.models[i].api_key : i \in DOMAIN doc.models} \cup
              UNION {{doc.tables[e].api_key, doc.tables[e].access_token} : e \in Active(doc)}
  IN {k.entry : k \in {x \in keys : x.source = "keyring"}}

(* The keyring, which may prompt or fail, is asked only for what runs, and  *)
(* only once the configuration is valid: an entry that nothing selected     *)
(* refers to is neither read nor able to stop a command.                    *)
KeyringOnlyForRunning ==
  \A c \in Commands :
    /\ effects[c].keyring \subseteq RunningEntries
    /\ effects[c].keyring # {} => Valid(doc)
    /\ verdict[c] = "keyring" => \E e \in RunningEntries : world.keyring[e] = "missing"

(* A server that listens has all it needs: every selected engine on a       *)
(* strictly ascending ladder, each with the one credential its surface      *)
(* takes, every model's secret looked up, credentials discovered once for   *)
(* each engine without a static token and once for all the models, and      *)
(* instruments that record if metrics are on.                               *)
ServesWhole ==
  phase = "serving" =>
    /\ \A i \in 1..(Len(ladder) - 1) : ladder[i].context < ladder[i + 1].context
    /\ Range(ladder) = {Budgets[e] : e \in Active(doc) \cup (Range(Selected(doc)) \cap {Local})}
    /\ Len(ladder) = Len(Selected(doc))
    /\ \A e \in Active(doc) :
         LET table == cfg.tables[e]
         IN \/ table.api_key.kind = "static" /\ Blank(table.project)
            \/ /\ table.api_key.kind = "none" /\ ProjectAndLocation(table)
               /\ table.access_token.kind = "static" \/ (table.access_token.kind = "none" /\ world.adc)
    /\ effects["serve"].remote = Active(doc)
    /\ \A i \in DOMAIN cfg.auth :
         /\ ~Refers(cfg.auth[i])
         /\ cfg.auth[i].kind = "google-adc" => world.adc
    /\ effects["serve"].adc =
         Cardinality({e \in Active(doc) : NeedsAdc(e, cfg.tables[e])}) +
         (IF \E i \in DOMAIN cfg.auth : cfg.auth[i].kind = "google-adc" THEN 1 ELSE 0)
    /\ metrics = IF doc.telemetry.on /\ doc.telemetry.metrics THEN "real" ELSE "noop"

(* The embedded engine fits the host unless it is told not to: a pool that  *)
(* is planned has no more threads than cores, and needs no more memory than *)
(* there is unless it is a single session; an explicit pool is as large as  *)
(* it says, and overcommitted only with a warning.                          *)
PoolFits ==
  Local \in Range(roster) =>
    LET budget   == DetectMemoryBudget(world.cgroup, world.total)
        threads  == pool.size * AtLeastOne(pool.intra)
        memory   == BaselineMemory + pool.size * SessionMemory
        planned  == doc.inference_pool_size = -1 /\ doc.intra_op_threads = -1
        explicit == doc.inference_pool_size > 0
    IN /\ planned => threads <= AtLeastOne(world.cores)
       /\ planned /\ budget # 0 /\ pool.size > 1 => memory <= budget
       /\ explicit => pool.size = doc.inference_pool_size
       /\ doc.inference_pool_size # 0 =>
            /\ threads > AtLeastOne(world.cores) <=> "cpu" \in pool.warned
            /\ budget # 0 /\ memory > budget <=> "memory" \in pool.warned
=============================================================================
