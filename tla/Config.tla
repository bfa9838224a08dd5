------------------------------- MODULE Config -------------------------------
(***************************************************************************)
(* The configuration (config/mod.rs, config/engines.rs, config/load.rs,    *)
(* engines/mod.rs): what a document may say, and what is made of it, step  *)
(* by step: environment references are expanded in its string values, the  *)
(* values are decoded into the schema, the whole is validated, the secrets *)
(* are looked up, and the selected engines' tables are validated.          *)
(*                                                                         *)
(* Of a string only what these steps tell apart is kept: whether it is     *)
(* empty, blank, an http(s) URL, plain ASCII, or neither.                  *)
(***************************************************************************)
EXTENDS Integers, FiniteSets, Roster

CONSTANTS
  Variables,  \* names of environment variables
  Entries     \* service and user of keyring entries

Contents == {"empty", "blank", "word", "url", "odd"}

Formats == {"toml", "yaml", "json"}

----------------------------------------------------------------------------
(* The document. *)

(* A string value: left out, literal, a reference `${VAR}` with or without  *)
(* a default, or the escaped `$${VAR}`.                                     *)
Text ==
  [form : {"omitted", "escaped"}] \cup
  [form : {"literal"}, content : Contents] \cup
  [form : {"reference"}, var : Variables, default : Contents \cup {"none"}]

(* A secret as it is written: left out, a string, a table that names a      *)
(* keyring entry, `{ source = "google-adc" }`, or any other table.          *)
Key ==
  [source : {"omitted", "google-adc", "malformed"}] \cup
  [source : {"string"}, text : Text] \cup
  [source : {"keyring"}, entry : Entries]

(* The table of a remote engine. *)
Table ==
  [api_key : Key, access_token : Key, project : Text, location : Text,
   quota_project : Text, base_url : Text,
   max_concurrency : {"omitted", "usable", "beyond"}]

RoutedModel == [api_key : Key, base_url : Text, modalities : SUBSET {"text", "image"}]

(* A `[telemetry]` table, or none (`on` is false).                          *)
TelemetryTable ==
  [on : BOOLEAN, endpoint : Text, traces : BOOLEAN, metrics : BOOLEAN,
   ratio_in_range : BOOLEAN, interval : Nat]

(* `syntax` has the formats its text is well-formed in; `schema` is whether *)
(* it has the fields, types and names of the schema; `model` of the table   *)
(* `[classifier]` is left out, one engine, or a list; a pool size or thread *)
(* count left out is -1.                                                    *)
Document ==
  [syntax : SUBSET Formats, schema : BOOLEAN,
   model : [form : {"omitted", "one", "list"}, ids : Seq(Engines)],
   tables : [Remotes -> Table], models : Seq(RoutedModel),
   telemetry : TelemetryTable,
   inference_pool_size : Nat \cup {-1}, intra_op_threads : Nat \cup {-1}]

(* `one_or_many_models`. *)
Selected(doc) == IF doc.model.form = "omitted" THEN <<Local>> ELSE doc.model.ids

(* The remote engines that run, each of which has a table.                  *)
Active(doc) == Range(Selected(doc)) \ {Local}

----------------------------------------------------------------------------
(* Environment references. *)

(* Every key, and every string value, of a document, whichever engines it   *)
(* selects.                                                                 *)
AllKeys(doc) ==
  {doc.models[i].api_key : i \in DOMAIN doc.models} \cup
  UNION {{doc.tables[e].api_key, doc.tables[e].access_token} : e \in Remotes}

AllTexts(doc) ==
  {k.text : k \in {x \in AllKeys(doc) : x.source = "string"}} \cup
  {doc.models[i].base_url : i \in DOMAIN doc.models} \cup
  {doc.telemetry.endpoint} \cup
  UNION {{doc.tables[e].project, doc.tables[e].location,
          doc.tables[e].quota_project, doc.tables[e].base_url} : e \in Remotes}

(* A variable that is set to the empty string counts as unset.              *)
Missing(text, env) ==
  /\ text.form = "reference" /\ text.default = "none"
  /\ env[text.var] \in {"unset", "empty"}

Expand(text, env) ==
  CASE text.form = "omitted"   -> "absent"
    [] text.form = "escaped"   -> "word"
    [] text.form = "literal"   -> text.content
    [] text.form = "reference" ->
         IF env[text.var] \notin {"unset", "empty"} THEN env[text.var]
         ELSE IF text.default # "none" THEN text.default ELSE "empty"

(* All of the document's missing variables are reported in one error.       *)
Expandable(doc, env) == \A t \in AllTexts(doc) : ~Missing(t, env)

----------------------------------------------------------------------------
(* Decoding. *)

(* A decoded secret: none, static, an unresolved keyring reference, or the  *)
(* marker of a token that is fetched per request.                           *)
NoSecret     == [kind |-> "none"]
StaticSecret == [kind |-> "static"]

Secret ==
  [kind : {"none", "static", "google-adc"}] \cup [kind : {"keyring"}, entry : Entries]

(* `deserialize_model_api_key`: an empty string is no secret.               *)
DecodeKey(key, env) ==
  CASE key.source = "omitted"    -> NoSecret
    [] key.source = "string"     ->
         IF Expand(key.text, env) \in {"absent", "empty"} THEN NoSecret ELSE StaticSecret
    [] key.source = "keyring"    -> [kind |-> "keyring", entry |-> key.entry]
    [] key.source = "google-adc" -> [kind |-> "google-adc"]
    [] key.source = "malformed"  -> NoSecret

IsUrl(text, env)    == Expand(text, env) = "url"
IsOptUrl(text, env) == Expand(text, env) \in {"absent", "url"}

(* A table of static secrets takes no `google-adc`, and the Vertex-only     *)
(* engine has no `api_key`.                                                 *)
TableDecodes(e, table, env) ==
  /\ {table.api_key.source, table.access_token.source} \cap {"malformed", "google-adc"} = {}
  /\ e = "text-embedding-005" => table.api_key.source = "omitted"
  /\ IsOptUrl(table.base_url, env)

Decodable(doc, env) ==
  /\ doc.schema
  /\ \A i \in DOMAIN doc.models :
       doc.models[i].api_key.source # "malformed" /\ IsUrl(doc.models[i].base_url, env)
  /\ \A e \in Remotes : TableDecodes(e, doc.tables[e], env)
  /\ doc.telemetry.on => IsUrl(doc.telemetry.endpoint, env)

(* What the later steps need of the decoded configuration: the secrets of   *)
(* the models and the tables.                                               *)
Decode(doc, env) ==
  [auth   |-> [i \in DOMAIN doc.models |-> DecodeKey(doc.models[i].api_key, env)],
   tables |-> [e \in Remotes |->
     [api_key       |-> DecodeKey(doc.tables[e].api_key, env),
      access_token  |-> DecodeKey(doc.tables[e].access_token, env),
      project       |-> Expand(doc.tables[e].project, env),
      location      |-> Expand(doc.tables[e].location, env),
      quota_project |-> Expand(doc.tables[e].quota_project, env)]]]

Decoded == Contents \cup {"absent"}

DecodedTable ==
  [api_key : Secret, access_token : Secret,
   project : Decoded, location : Decoded, quota_project : Decoded]

----------------------------------------------------------------------------
(* `RouterConfig::validate`. *)

TelemetryValid(t) ==
  t.on => t.ratio_in_range /\ (t.traces \/ t.metrics) /\ t.interval >= 1

Distinct(ids) == \A i, j \in DOMAIN ids : ids[i] = ids[j] => i = j

Valid(doc) ==
  /\ doc.models # <<>>
  /\ TelemetryValid(doc.telemetry)
  /\ Selected(doc) # <<>> /\ Distinct(Selected(doc))
  /\ \A i \in DOMAIN doc.models : doc.models[i].modalities # {}
  /\ \E i \in DOMAIN doc.models : "text" \in doc.models[i].modalities

----------------------------------------------------------------------------
(* `RouterConfig::resolve_secrets`. *)

(* The slip of looking up every table, selected or not. *)
SlotsOfAllTables(doc, cfg) ==
  cfg.auth \o
  [p \in 1..6 |->
     LET e == <<"gemini-embedding-001", "gemini-embedding-2", "text-embedding-005">>[(p + 1) \div 2]
     IN IF p % 2 = 1 THEN cfg.tables[e].api_key ELSE cfg.tables[e].access_token]

(* The slots that are looked up, in order: the key of every model, and the  *)
(* two of each selected engine's table.                                     *)
Slots(doc, cfg) ==
  cfg.auth \o
  [p \in 1..(2 * Len(Selected(doc))) |->
     LET e == Selected(doc)[(p + 1) \div 2]
     IN IF e = Local THEN NoSecret
        ELSE IF p % 2 = 1 THEN cfg.tables[e].api_key ELSE cfg.tables[e].access_token]

Refers(secret) == secret.kind = "keyring"

Unreadable(slots, keyring) ==
  {p \in DOMAIN slots : Refers(slots[p]) /\ keyring[slots[p].entry] = "missing"}

(* The entries that are read: those up to the first that cannot be.         *)
LookedUp(slots, keyring) ==
  {slots[p].entry : p \in {q \in DOMAIN slots :
     Refers(slots[q]) /\ \A u \in Unreadable(slots, keyring) : u >= q}}

(* An entry that is empty is no secret. *)
Resolved(secret, keyring) ==
  IF ~Refers(secret) THEN secret
  ELSE IF keyring[secret.entry] = "empty" THEN NoSecret ELSE StaticSecret

ResolveSecrets(doc, cfg, keyring) ==
  [auth   |-> [i \in DOMAIN cfg.auth |-> Resolved(cfg.auth[i], keyring)],
   tables |-> [e \in Remotes |->
     IF e \notin Active(doc) THEN cfg.tables[e]
     ELSE [cfg.tables[e] EXCEPT !.api_key      = Resolved(@, keyring),
                                !.access_token = Resolved(@, keyring)]]]

----------------------------------------------------------------------------
(* `engines::validate_config`. *)

Blank(content) == content \in {"absent", "empty", "blank"}

(* The slip of a surface that is guessed when both are set. *)
GuessedSurface(e, table) ==
  IF e = "text-embedding-005" \/ ~Blank(table.project) THEN "vertex"
  ELSE IF table.api_key.kind # "none" THEN "generative-language" ELSE "ambiguous"

(* The API surface that the authentication fields of a table choose, after  *)
(* the keyring was read: exactly one of `api_key` and `project`.            *)
Surface(e, table) ==
  LET keyed == table.api_key.kind # "none"
  IN IF e = "text-embedding-005" \/ (~keyed /\ ~Blank(table.project)) THEN "vertex"
     ELSE IF keyed /\ Blank(table.project) THEN "generative-language" ELSE "ambiguous"

ProjectAndLocation(table) == ~Blank(table.project) /\ ~Blank(table.location)

TableValid(e, table) ==
  CASE Surface(e, table) = "vertex"              -> ProjectAndLocation(table)
    [] Surface(e, table) = "generative-language" -> TRUE
    [] Surface(e, table) = "ambiguous"           -> FALSE

(* The slip of leaving the ladder to `EngineRoster::new`. *)
TablesValid(doc, cfg) == \A e \in Active(doc) : TableValid(e, cfg.tables[e])

EnginesValid(doc, cfg) ==
  /\ \A e \in Active(doc) : TableValid(e, cfg.tables[e])
  /\ \A i, j \in DOMAIN Selected(doc) :
       i # j => Budgets[Selected(doc)[i]].context # Budgets[Selected(doc)[j]].context

(* What constructing a remote engine adds: a token or credentials to        *)
(* discover, and a quota project that must be a header value.               *)
NeedsAdc(e, table) ==
  Surface(e, table) = "vertex" /\ table.access_token.kind = "none"

QuotaProjectSendable(e, table) ==
  Surface(e, table) = "vertex" => table.quota_project # "odd"
=============================================================================
