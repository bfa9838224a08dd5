----------------------------- MODULE MCStartup ------------------------------
(* Instances of Startup for TLC: families of scenarios that vary what one   *)
(* group of steps tells apart, around a plain document in a plain world.    *)
EXTENDS Startup

Omitted    == [form |-> "omitted"]
Literal(c) == [form |-> "literal", content |-> c]
Reference(v, d) == [form |-> "reference", var |-> v, default |-> d]

NoKey     == [source |-> "omitted"]
Adc       == [source |-> "google-adc"]
Malformed == [source |-> "malformed"]
String(t) == [source |-> "string", text |-> t]
Keyring(e) == [source |-> "keyring", entry |-> e]

EmptyTable ==
  [api_key |-> NoKey, access_token |-> NoKey, project |-> Omitted, location |-> Omitted,
   quota_project |-> Omitted, base_url |-> Omitted, max_concurrency |-> "omitted"]

KeyTable    == [EmptyTable EXCEPT !.api_key = String(Literal("word"))]
VertexTable == [EmptyTable EXCEPT !.project = Literal("word"), !.location = Literal("word")]

PlainModel ==
  [api_key |-> NoKey, base_url |-> Literal("url"), modalities |-> {"text"}]

NoTelemetry ==
  [on |-> FALSE, endpoint |-> Omitted, traces |-> TRUE, metrics |-> TRUE,
   ratio_in_range |-> TRUE, interval |-> 60]

PlainDoc ==
  [syntax |-> Formats, schema |-> TRUE, model |-> [form |-> "omitted", ids |-> <<>>],
   tables |-> [e \in Remotes |-> EmptyTable], models |-> <<PlainModel>>,
   telemetry |-> NoTelemetry, inference_pool_size |-> -1, intra_op_threads |-> -1]

At(d, x) == [dir |-> d, ext |-> x]

PlainWorld ==
  [explicit |-> {}, files |-> {At("user", "toml")}, home |-> TRUE,
   env |-> [v \in Variables |-> "unset"], keyring |-> [e \in Entries |-> "secret"],
   adc |-> TRUE, cores |-> 4, cgroup |-> 0, total |-> 400]

Select(ids) == [form |-> IF Len(ids) = 1 THEN "one" ELSE "list", ids |-> ids]

(* Where the configuration is, and which format its text has.               *)
PathScenarios ==
  [doc : {[PlainDoc EXCEPT !.syntax = x, !.schema = s] :
            x \in {{"toml"}, {"yaml", "json"}, {}}, s \in BOOLEAN},
   world : {[PlainWorld EXCEPT !.explicit = p, !.files = f, !.home = h] :
     p \in {{}, {At("explicit", "yml")}, {At("explicit", "other")}},
     f \in SUBSET {At("user", "json"), At("user", "toml"), At("etc", "yaml"), At("explicit", "yml")},
     h \in BOOLEAN}]

(* The selected engines, with the tables, secrets and credentials they may  *)
(* have.                                                                    *)
Keys == {NoKey, Keyring("k1"), Keyring("k2"), String(Literal("word")), String(Reference("v1", "none"))}

GeminiTables ==
  {[EmptyTable EXCEPT !.api_key = a, !.access_token = t, !.project = p, !.location = l] :
     a \in Keys, t \in {NoKey, Keyring("k2")},
     p \in {Omitted, Literal("word"), Reference("v1", "blank")}, l \in {Omitted, Literal("word")}}

EngineWorlds ==
  {[PlainWorld EXCEPT !.env = [v \in Variables |-> c],
                      !.keyring = [e \in Entries |-> IF e = "k1" THEN a ELSE b], !.adc = d] :
     c \in {"unset", "word"}, a \in {"missing", "empty", "secret"},
     b \in {"missing", "secret"}, d \in BOOLEAN}

GeminiScenarios ==
  [doc : {[PlainDoc EXCEPT !.model = Select(ids), !.tables["gemini-embedding-2"] = t] :
            ids \in {<<"gemini-embedding-2">>, <<Local>>, <<"gemini-embedding-2", Local>>},
            t \in GeminiTables},
   world : EngineWorlds]

(* Every list of up to three engines, and what only the construction of a   *)
(* Vertex engine, or only the decoding of its table, finds out.             *)
VertexTables ==
  {VertexTable, EmptyTable, [VertexTable EXCEPT !.access_token = Keyring("k1")]} \cup
  {[VertexTable EXCEPT !.quota_project = Literal(q)] : q \in {"blank", "word", "odd"}} \cup
  {[VertexTable EXCEPT !.max_concurrency = "beyond"],
   [VertexTable EXCEPT !.base_url = Literal("word")],
   [VertexTable EXCEPT !.access_token = Adc]}

LadderScenarios ==
  [doc : {[PlainDoc EXCEPT !.model = [form |-> "list", ids |-> ids],
             !.tables = [e \in Remotes |-> IF e = "text-embedding-005" THEN t ELSE g],
             !.telemetry.on = o, !.telemetry.endpoint = Literal("url")] :
            ids \in UNION {[1..n -> Engines] : n \in 0..3},
            t \in VertexTables, g \in {KeyTable, VertexTable}, o \in BOOLEAN},
   world : {[PlainWorld EXCEPT !.adc = d] : d \in BOOLEAN}]

(* The catalogue and the telemetry table.                                   *)
Models ==
  {[PlainModel EXCEPT !.api_key = k, !.modalities = m] :
     k \in {NoKey, Adc, Keyring("k1"), String(Literal("empty")), Malformed},
     m \in {{}, {"text"}, {"image"}}} \cup
  {[PlainModel EXCEPT !.base_url = u] :
     u \in {Literal("word"), Reference("v1", "none"), [form |-> "escaped"]}}

Telemetries ==
  {NoTelemetry} \cup
  {[NoTelemetry EXCEPT !.on = TRUE, !.endpoint = e, !.traces = t, !.metrics = m, !.interval = i] :
     e \in {Literal("url"), Literal("odd")}, t \in BOOLEAN, m \in BOOLEAN, i \in 0..1}

CatalogueScenarios ==
  [doc : {[PlainDoc EXCEPT !.models = m, !.telemetry = t] :
            m \in UNION {[1..n -> Models] : n \in 0..2},
            t \in {NoTelemetry, [NoTelemetry EXCEPT !.on = TRUE, !.endpoint = Literal("url")]}} \cup
         {[PlainDoc EXCEPT !.telemetry = t] : t \in Telemetries},
   world : {[PlainWorld EXCEPT !.env = [v \in Variables |-> c], !.keyring["k1"] = k, !.adc = d] :
              c \in {"empty", "url"}, k \in {"missing", "empty", "secret"}, d \in BOOLEAN}]

(* The host: memory in units of 10 MiB.                                     *)
HostScenarios ==
  [doc : {[PlainDoc EXCEPT !.inference_pool_size = p, !.intra_op_threads = i] :
            p \in {-1, 0, 1, 3}, i \in {-1, 0, 1, 4}},
   world : {[PlainWorld EXCEPT !.cores = c, !.cgroup = g, !.total = t] :
              c \in {0, 1, 2, 3, 5, 8}, g \in {0, 50, 70, 100, 120}, t \in {0, 65, 160}}]

MCScenarios ==
  PathScenarios \cup GeminiScenarios \cup LadderScenarios \cup CatalogueScenarios \cup HostScenarios
=============================================================================
