# A TLA+ model of hyper-mcp-router

hyper-mcp-router is an HTTP server with one virtual model. It classifies every
chat-completion request, selects one of the configured backends by modality,
context window and complexity tier, and forwards the request there. These
modules model its core logic: what is read of a request, the routing decision,
the life of a request and of the server, the admission of classifications to the
embedded model, the remote embedding engines, the ladder of engines with the
window of text that they judge and the verdict they give, the usage found at the
end of a stream, and the way from a
configuration file to a listening server. TLC checks small instances of each,
and TLAPS proves every safety property for every value of the constants, with
theorems beyond what the runs check.

Paths below are those of the repository (`src/proxy.rs`, ...).

## The system

| component | state it keeps | operations | who it interacts with |
| --- | --- | --- | --- |
| embedded NLI engine, `src/engines/deberta_v3_xsmall_zeroshot.rs` | semaphore permits and their queue; the vector of idle ONNX sessions with its mutex and condition variable; the closures on tokio's blocking pool | `classify` (async), `classify_sync`, `SessionPool::acquire`, drop of a `PooledSession` | called by the handler; runs on blocking threads; dropped with the handler |
| selection policy, `src/selection.rs` | none (pure) | `select_candidate`, `count_candidates` | called by the handler, twice or more per request |
| request handler, `src/proxy.rs`, `src/respond.rs` | the request and its route, local to the future; counters | `chat_completions`, `resolve_route`, `ModelAuth::bearer`, the two passthroughs | clients, the engine, the token endpoint, the upstream |
| server, `src/main.rs` | serving or draining | `serve`, `shutdown_signal` | waits for every handler, then flushes telemetry |
| remote engines, `src/engines/embedding.rs`, `gemini/`, `vertex/` | a semaphore; at boot the attempt; per fan-out a `JoinSet` | `connect` with `retry_transient`, `classify`, `embed` | the remote API, Google credentials |
| engine roster, `src/classifier.rs`, `src/engines/mod.rs` | the rungs, fixed at boot | `EngineRoster::new`, `select` | built at boot, asked by the handler |
| classification window, `src/prompt.rs` | none | `build_classification_window`, `extract_prompt`, `estimate_request_tokens`, the lexical filters | called by the handler |
| modality detection, `src/modality.rs` | none | `detect_required_modalities`, `is_superset` | called by the handler and the selection |
| usage reporting, `src/usage.rs` | the last 16 KiB of a stream, whether it reported | `StreamUsageTap::poll_next`, `report_upstream_usage` | wraps the body of an answer |
| configuration, `src/config/`, `src/engines/mod.rs` | the parsed file | `resolve_config_path`, `parse_with_format`, `expand_env`, `validate`, `resolve_secrets`, `validate_config` | read by both commands; asks the keyring |
| commands, `src/main.rs`, `src/cli.rs` | none besides the configuration | `validate`, `serve` up to the listener | file system, keyring, exporters, engines |
| planning, `src/planning.rs` | none | `plan_inference`, `detect_memory_budget`, `overcommit_warnings` | construction of the embedded engine |
| credentials, `src/gcp_auth.rs` | a token cached by the library | discovery, `bearer` | startup, handler and engines |
| telemetry and logging | exporters of third-party libraries | `init`, counters, `shutdown` | everyone |

There is no database and nothing is persisted: a restart begins from `Init`, so
there is no recovery to model. What is hard here is concurrency inside one
process, futures that can be dropped at any `await`, an upstream that owes
nothing, and policies with several interacting preferences:

* **dropped futures.** axum drops a handler when its client disconnects. A
  closure given to `spawn_blocking` is not stopped by that, a `JoinSet` aborts
  its tasks only later, a semaphore's waiter leaves the queue at once.
* **two layers of admission** in the embedded engine, and callers that bypass
  the first.
* **no retries** of completions and of classifications, but a retry of the
  anchors at boot, with what earlier attempts left behind.
* **deadlines that differ**: a total deadline for requests that are not streams,
  an idle guard (that can be off) for all.
* **inferred requirements**: image intent is guessed twice and must never make a
  request unroutable.
* **two readers of one configuration**: `validate` runs in a pipeline, `serve` on
  the host; both repeat a chain of fatal checks, and whatever `serve` checks later
  it finds after it has done something outside (looked up secrets, discovered
  credentials, embedded the anchors).

What makes each component correct:

* embedded engine: permits and sessions are conserved, no more blocking threads
  than sessions, no lost wake-up, first come first served, nobody starves;
* selection and routing: hard requirements always hold, soft ones never cost a
  request its route, the tier order, skipping classification changes nothing;
* request life: what is counted agrees with what happened, usage is reported
  only for successes whose body came to its end, every guarded request ends, the
  drain ends, the flush is last;
* usage of a stream: the tail is the end of what came, and the last counts are
  reported, once, exactly if they fit it;
* remote engines: permits are conserved through aborts, vectors end up at their
  texts, boot decides, every embed ends;
* ladder, window and verdict: the budget holds, the window is the recent end of
  the user's text, escalation is neither needless nor blind, what is
  sent to a model has text and fits its budget, a tier is earned by its scores, a
  trivial follow-up inherits its context;
* request body: what it carries is served by the backend, and the size the
  client asks for has room;
* startup: `validate` foretells `serve`, secrets are read only for what runs, what
  listens is complete, the planned pool fits the host.

## The modules

| module | models | code |
| --- | --- | --- |
| `Admission` | abstract: a service with slots and a first-come, first-served line | the promise in the comments of both engines |
| `SessionPool` | the embedded engine's admission | `deberta_v3_xsmall_zeroshot.rs` |
| `SessionPoolProofs` | proofs about `SessionPool` | |
| `Selection` | the selection policy, as operators | `selection.rs`, `modality.rs`, `config/mod.rs` |
| `Router` (extends `Selection`) | a request, from connection to answer, and the shutdown | `proxy.rs`, `respond.rs`, `usage.rs`, `main.rs` |
| `RouterProofs` | proofs about `Selection`, `Router` and `Request` | |
| `UsageTail` | the bounded tail of a stream and the usage found in it | `usage.rs` |
| `UsageTailProofs` | proofs about `UsageTail` | |
| `Embedding` | the remote engines: boot, classification, three transports | `engines/embedding.rs`, `gemini/`, `vertex/` |
| `EmbeddingProofs` | proofs about `Embedding` | |
| `Request` (extends `Router`) | what is read of a body, in front of the handler | `modality.rs`, `prompt.rs` |
| `Sizes` | the size of a text in pieces, as a recursive function | `prompt.rs`, `usage.rs` |
| `Roster` | the engines' budgets, the order and shape of a ladder | `classifier.rs`, `engines/` |
| `Ladder` (extends `Roster`) | the window, the selection of an engine | `classifier.rs`, `prompt.rs`, `engines/mod.rs` |
| `Classify` (extends `Ladder`) | the verdict of an engine, or of none | `proxy.rs`, `deberta_v3_xsmall_zeroshot.rs`, `embedding.rs` |
| `LadderProofs` | proofs about `Ladder` and `Classify` | |
| `Config` (extends `Roster`) | what a document may say and what is made of it, as operators | `config/`, `engines/mod.rs` |
| `Planning` | sessions and threads for a host, as operators | `planning.rs` |
| `Startup` (extends both) | the commands `validate` and `serve` | `main.rs`, `config/load.rs`, `engines/mod.rs`, `proxy.rs`, `telemetry.rs` |
| `StartupProofs`, `ServingProofs` | proofs about `Startup` | |
| `DataLemmas` | lemmas on naturals, sequences, totals and lines | |
| `MC...` | constants of the runs | |

In each module an operator whose comment calls it a *slip* is a variant of the
definition after it, as a plausible mistake would leave it. No specification
uses a slip; `PROJECT.json` says which property each of them breaks.

### SessionPool

A call has a future (`fut`) and a task (`task`), which live apart once the
closure is spawned. `classify` is three actions, cut at its await points:
`ClassifyAtOnce` or `ClassifyQueued`, then `ResumeClassify`, then `Join`. At each
of these points `Drop` can happen: the future leaves the queue, gives a permit
back that it was handed and has not used, or leaves its closure to run alone.
`Finish` is the end of the closure, where `_permit` is dropped, and `EndTask` the end
of the task behind it; between the two the permit may already be another's. So
"no more blocking threads than sessions" is said of closures that still work: a
thread on its way out holds nothing and is not counted. The critical
sections of the pool's mutex are `Checkout`, `Park` and `ReturnSession`; a
session returns in `Drop for PooledSession`, hence after success, error and
panic alike, and `notify_one` wakes one of the parked tasks. `SpuriousWake` is
allowed by the condition variable. tokio's semaphore is external: it is fair and
hands a released permit to the oldest waiter (`ReleasePermit`). `DirectCalls`
are the callers of `classify_sync`, tests and benchmarks; the binary has none.

The abstract specification `Admission` has a `line` and the set `served`; the
mapping takes the semaphore's queue for the line, and for `served` the calls
that own a permit, in the hand-over or in a closure. A closure that outlives its
client is still served: this is what makes the bound real.

### Selection and Router

A catalogue is a sequence of models as `RouterConfig::validate` accepts it. The
configuration and the content of every request are arbitrary and fixed in
`Init`; of the JSON the model keeps what routing reads. `pc` follows the handler
from await to await. `Resolve` is the synchronous part of `resolve_route` (the
lexical prefilter, the count of candidates, the two answers that need no
engine); `Classified` and `ClassifyFails` are the engine's verdict and its
failure; `Select` is the selection with its 422; `Authorized` and `AuthFails` the
bearer. `Responds` counts the request when the headers are in and moves to
"read" or "stream", and what follows (`BodyRead`, `BodyFails`, `StreamEnds`,
`StreamCut`, the timers) is only what the client and the usage report see.
`BooksBalance` says which label stands for which end; what has none is a request
that ended before it had a route, one whose token could not be had (finding 2), and
one that was abandoned before the upstream answered. A buffered answer's usage is
reported when its body has been read, just before the client is given it.
`Disconnect` drops the future at any await. `Shutdown` stops new connections,
`Flush` is `telemetry.shutdown()` after `axum::serve` has returned.

`TimerArmed` says when a silent upstream is cut off: the total deadline is set on
requests that are not streams, and the idle guard (`read_timeout` of the client)
on all, unless `stream_idle_timeout_secs` is 0. Statuses are abstracted to "2xx"
and "other", and someone is taken to listen for usage (telemetry or debug
logging on, an upstream that sends its usage, counts that fit the tail).

### UsageTail

What `Router` takes as one step when a stream ends is looked at here byte by byte.
The upstream sends lines, each of some size and some with counts; `PollChunk` lets
any further number of bytes go by, within a line or across several, and `Extend` is
`SseTail::extend` with its two cases (a chunk of at least `CAP` bytes replaces the
tail). A byte is its position in the stream, so a gap or a wrong order in the buffer
shows. `PollEnd` is the end of the stream, which may be polled again, and `PollError`
a stream that breaks. `Usage` looks for whole lines in what was kept, and takes the
last with counts. `UsageIfItFits` makes the comment's "best-effort" precise: the last
counts are reported exactly if they and whatever follows them fit the cap, and
older counts never are.

### Embedding

An embed is the anchors' at boot or one classification's; a job is a request of
one of its attempts: one for all texts (`gemini`, `predict`), or one task per text
(`embedContent`). A job acquires a permit, sends, and is answered; failures are
"transient", "permanent" or "body" (the connection breaks within a success, which
the code does not mark as transient). In the fan-out the tasks finish in any order and are joined
one at a time; the first failure ends the embed and drops the `JoinSet`: finished
tasks are discarded, the others are `aborted` and dropped by a worker later
(`Reap`), or finish the poll they are in. `Fail` and `Retry` are the loop of
`retry_transient_with_backoff`.

### Request

`RInit` gives every request a body, and makes `Router`'s `input` of it with the
operators that stand for `detect_required_modalities`, `estimate_request_tokens`
(whose sum wraps at `U64`), `looks_trivial` over the user's turns and the image
pattern within the part of the current turn that an engine sees. That part
depends on the engine the window selects, so the budget is any of `TurnBudgets`.
The steps are `Router`'s; the properties compare the answer with the body
itself, not with `input`.

### Roster, Ladder and Classify

`Boot` is `EngineRoster::new`; the walk over the messages is one step per message
(`Skip`, `Take`); `SelectEngine` ends it. A message is reduced to its author, the
whitespace it begins with (`lead`) and the length of its trimmed text, whether it is
trivial filler, how far it must be read for an image pattern to be seen for good, and
the cuts that make one which the whole text does not have (a `\b` of the pattern holds
where the text is cut, so "text to image" can be seen in "text to imagery").
`WindowChars` adds the newlines of `join("\n")`.

`Classify` judges what the walk selected: `WithoutModel` is
`classify_without_model`, `ByNli` the scoring of `combine` over the batch of eight
rows, `ByEmbedding` that of `combine_similarities`, `Fails` the balanced default of
an engine that fails. The current turn is cut to the budget with its leading
whitespace and then trimmed (`TurnChars`), so it may have no text left, and is then not
sent; a verdict keeps what was sent and the scores of its tier. `NliTier` walks over the
rows as the code does, and `NearestTier` over the prototypes; `TierIsEarned` says
what must come out of either, with ties and scores that are not numbers, without
saying how. Scores are only compared, so they are small integers, and
`NaN` stands in every comparison as IEEE arithmetic has it. `CSpec` adds these
steps and leaves the walk alone (`ClassifyKeepsTheWalk`), so everything checked
of the window holds under it too.

### Config, Planning and Startup

A document is a record of the values that routing and startup read. A string is
left out, a literal, a reference to a variable with or without a default, or an
escaped reference; what it says is empty, blank, a word, a URL, or something a
header cannot carry ("odd"). `Config` has one operator per transformation, in the
order of the code: `Expandable` and `Expand` (every string value, whatever the
document selects), `Decodable` and `Decode`, `Valid`, `Slots` and `ResolveSecrets` (the
models' and the selected engines' entries), `Surface` and `EnginesValid`. `Startup`
runs them as the steps of a command: each `Pass`es to the next or ends the command
with its own name as the verdict. `validate` runs first, then `serve`, over the same
document and world; after the checks they share come `InitTelemetry`, `BuildLocal` or
`BuildRemote` for each engine, `Assemble`, `NewState` and `Bind`. What the outside
does (an exporter, the ONNX runtime, the embedding API, the socket) is a choice.
`effects` remembers which keyring entries were read, how often credentials were
discovered and which APIs were reached by each command.

## The runs

All runs end with every reachable state explored; "violation" runs end with the
counterexample that the finding describes.

| run | instance | states | what it shows |
| --- | --- | --- | --- |
| `session_pool` | 4 calls, 2 sessions | 13 948 | safety, fairness of the queue, refinement of `Admission` with its liveness |
| `session_pool_direct` | 3 calls, 2 direct callers, 2 sessions, symmetry | 5 455 | the condition variable under competition |
| `router_routing` | 1 request of 49 bodies; all catalogues of 1-2 models over 3 tiers, 2 windows, 3 modality sets, triples, and pairs with other abilities | 370 654 | the routing properties, and that the body is served |
| `router_lifecycle` | 2 requests of 4 contents, guard on and off | 29 138 | the books, the ends, the drain |
| `embedding` | 2 classifications, 1 permit, 2 attempts | 20 360 | permits, order of vectors, refinement of `Admission`, liveness of boot and of embeds |
| `ladder` | all rosters of up to 2 of 9 rungs and triples of 5, conversations of up to 3 of 10 messages, 17 answers, 2 thresholds | 795 949 | the window, the escalation, the verdict |
| `usage_tail` | streams of up to 4 lines of 1, 2, 4 or 5 bytes, with counts or without, a tail of 4 bytes | 122 379 | what is reported of a stream, however it is cut |
| `startup` | families of paths, engines and secrets, ladders, catalogues and hosts | 403 744 | `validate` against `serve`, the keyring, the server, the pool |
| `router_tier_skipped`, `router_auth_uncounted`, `embedding_blip`, `ladder_covers` | as above | | the findings |

Why the bounds are enough to meet the interesting cases. Two sessions and four
calls give a full pool with a queue of two behind it, so hand-over, overtaking
and a drop in the middle of a queue can happen; with two direct callers more
tasks compete for sessions than there are, so tasks park. Routing treats one
request at a time and independently, so one request suffices there; two windows
and three sizes give "fits all", "fits the larger" and "fits none", and triples are
needed for ties and for a tier above and below the wanted one. The routing runs
stop where the route is decided (`UpToRoute`). Two requests suffice for the
lifecycle, where they meet only in the drain. One permit with two texts
makes the fan-out queue behind itself and behind what a failed attempt has left: it
is where a lost permit starves at once. The tasks still reach the permit in any
order, so vectors arrive in any order too; `TransportFailureRetried` is checked with
three attempts, the code's number, and the proofs hold for any number of permits,
attempts and texts. `U64` is 8,
so that completions of up to 7 meet a wrap, a window, and room beyond it; bodies
carry each kind of part, tool trace and budget at least once, alone and together
with a plain current turn. Three
messages give a window whose oldest piece is cut behind a whole one, and budgets
of 2 to 5 characters meet it at, below and above each piece. The answers lead to
every tier, tie two or all of them, put the image at, above and below a threshold
and a tier, and have NaN in every place it can decide. A turn with leading whitespace is cut
before, within and behind it. Lines are shorter than the tail, as long, and longer,
so counts fit, just fit, or are pushed out by what follows, and chunks meet both
cases of `extend`.

A product of everything `Startup` reads would be astronomic and mostly say the same;
each family of `MCStartup` varies what one group of steps tells apart around a
plain document in a plain world: where the file is and what format its text has;
keys, projects and locations of an engine with two surfaces in every state of the
keyring and the environment; every list of up to three engines with the values
that only construction rejects; catalogues of up to two models and the telemetry
table; hosts of 0 to 8 cores with memory below, at and above the cost of a session.
The proofs carry the properties from these families to all scenarios.

`CHECK_DEADLOCK FALSE` stands where the system does stop: the server exits after
the flush, a boot that failed exits, a conversation is walked once, a stream that
broke is not polled again, a command ends or listens. In
`SessionPool` calls are reused for ever, and deadlock is checked.

### Fairness

* `SessionPool`: a woken future is polled, a spawned closure gets a thread
  (at most `pool_size` work on the blocking pool, whose default is 512), the mutex
  is granted, a pass over a bounded tensor ends. Nobody has to call or to disconnect.
* `Router`: a runnable handler is polled; the engine and the token endpoint
  answer, since their clients have deadlines; an armed timer fires; a client
  sends what it began or goes. The upstream owes nothing: `Responds`, `BodyRead`
  and `StreamEnds` have no fairness. Weak fairness of `StreamTimesOut` stands for
  a guarded stream that ends or falls silent; a stream that trickles for ever is
  not bounded by the code, and neither is one with the guard off, which the
  liveness properties exclude by name.
* `Embedding`: tasks are polled, a request ends at its deadline (`request_timeout`
  of the engine), the token library answers, aborted tasks are reaped.
* `Startup`, `Ladder`, `Classify` and `UsageTail` have safety properties only; they are sequential
  and end after a bounded number of steps, or wait in a call of the outside.

### Findings

1. `router_tier_skipped`: classification is skipped when *no* model fits, although the
   tier then ranks the models that share the largest window.
2. `router_auth_uncounted`: a failed token fetch answers 502 and is not counted.
3. `embedding_blip`: a transport failure while a body is read is not retried at boot.
4. `ladder_covers`: the newlines of the window are not charged to the budget, so
   the selected engine's budget need not cover it.

Met while modelling, and not the subject of a run:

* `src/main.rs:26-28` says of `validate` that credentials are not exercised and that
  a config can validate and still fail at boot on keyring problems; but `config::load`
  looks the keyring up for both commands, so `validate` does fail on a missing entry.
* `src/engines/mod.rs:145-148` promises "everything `build_roster` would reject that
  can be checked without constructing engines". Two things are left to the boot: a
  `quota_project` that is no header value (`src/engines/vertex/mod.rs:473`), and a
  `max_concurrency` beyond `Semaphore::MAX_PERMITS`, at which the constructor panics
  (`src/engines/vertex/mod.rs:337`, `:417`, `src/engines/gemini/mod.rs:110`).
  `ValidateForetells` names both as the exceptions.
* When telemetry fails to initialise and the engine tables are wrong, `validate`
  reports the tables and `serve` the telemetry.
* A missing variable in the table of an engine nobody selected stops both commands;
  a missing keyring entry there does not.
* A keyring `api_key` that is empty counts as no key, so it can make a table with
  both fields valid, or one with the key alone ambiguous.
* `inference_pool_size = 0` becomes 1 in `new`, after the warnings were computed with 0.
* `max_completion_tokens: null` hides a `max_tokens` beside it from the estimate, and
  a completion near 2^64 wraps it (`src/prompt.rs:157-164`). `RoomForAll` excludes
  both by name (`Plain`).
* `cosine` is "never NaN" (`src/engines/embedding.rs:506`) for finite vectors only; an
  infinite component gives NaN, which the comparisons take for "not nearer".

## The proofs

All are for arbitrary constants under the named `ASSUME`s: finite sets of calls
and requests, at least one session, catalogues that pass validation, rungs with a
window, any scenarios. Each theorem listed in `PROJECT.json` follows one pattern: an
inductive invariant stronger than the property, a lemma per action or group of
actions that it is kept, and a temporal step.

`SessionPoolProofs`. `TypeOK` is not inductive: that the head of the queue is a
call without a permit needs the queue linked to the futures, that a call can be
used again needs its future and its task to end together, that the pool gets a
session back needs the leases to match the tasks. `ShapeInv` adds these three, and
is proved with one step per action (`ShapeStep`). On top of it:
`PermitsAlwaysConserved` (each action moves the sum of free permits and holders
by nothing, `PermitMoves`), hence `BlockingAlwaysBounded` and `TypeCorrect`;
`SessionsAlwaysConserved`; `AdmittedAlwaysFindsSession`, by counting: a task that
holds a permit and no session leaves a session idle; `WakeupNeverLost`;
`QueueAlwaysExact` (every future that waits is in the line, `WaitersInLine`, and no
permit is free beside it, `NoIdlePermit`); and `PoolImplementsAdmission`, in which
every step maps to a step of `Admission` or a stutter. Two theorems say of the line
what the liveness runs rely on. `NobodyIsOvertaken` is an action property: no call is
served before one that was ahead of it and still waits; it needs only how the queue
can change (`PermitMoves`) and that those who stay in a line keep their order
(`LineKeepsOrder` of `DataLemmas`). `LayersNeverDeadlock` puts permits, sessions and
wake-ups together: while a call waits for a permit or a task for a session, some
closure runs or is about to. A permit's holder may itself be parked; then either a
session is out, or a task is woken for one.

`RouterProofs`, about `Selection`. A least rank exists (`LeastNat`), so `BestRanked` is defined and
is the first of the least; hence `SelectionServes` and `SoleCandidateNeedsNoTier`.
`SelectionIsBest` restates the selection without its steps: the one model that is
better than every other (`Better`, in which no two models are better than each
other). What an operator may rely on when requests or catalogues change follows from
it: `HigherTierNeverLowers`, `SelectionIsStable` (a model is left only when it no
longer serves) and `AddedModelWinsByMerit`.

`RouterProofs`, about `Router` and `Request`. `TypeOK` is inductive. The routing properties need `RouteInv`: what
a request requires is what it states, or that and an image intent some model
serves within its window; a skipped classification means at most one candidate;
the backend is the selection's value. With the lemmas about the selection it
implies `RefusedOnlyUncovered`, `BackendCovers`, `OverflowOnlyUnavoidable`,
`TierHonoured` and `SkippedSoleCandidate`. `BooksBalance` and `UsageForWholeAnswers`
follow from `BookInv`, which ties the status and the answer to the place of the
handler; with "flushed means that nobody is in flight" it also gives
`NothingAfterFlush`. A request with a body is handled as any other
(`RequestIsHandled`), and what the handler works with is what was read of its body
(`BodyAlwaysRead`); so `BodyServed` follows from `BackendCovers` and
`RefusedOnlyUncovered` with `NeedsAreCarried`, and `RoomForAll` from
`OverflowOnlyUnavoidable` with `EstimateIsExact`. The length of a body is a sum over
its messages: it is written as a recursive function (`Total`), and that it is a
natural, and no less than the length of any beginning of the conversation, is proved
by induction over a *set* (`NatSetInduction`, from the well-foundedness of the
naturals), which needs no theorem with an operator for a parameter. Hence
`LongerTalkNarrows`: the models that serve a conversation within their window serve
each of its beginnings so. `InferenceDivertsOnlyForNeed` follows from the
stability of the selection: an inferred image intent takes a request from the model it
would have gone to only when that model does not serve the intent. And
`RequestsOnlyAdvance` is an action property over `RouteInv` and `BookInv`: each step
takes its request further, and route, backend, status and answer are never revised.

`EmbeddingProofs`. `ShapeInv` has the ranges, the queue linked to the waiting jobs,
that the anchors are idle while the boot backs off (`Backoff`), and that the jobs of
attempts which have not begun do not exist (`Fresh`): without the last two a
new attempt could meet jobs of its own number. `PermitsAlways` counts as above, with
the jobs for the calls; the aborted tasks of earlier attempts are holders like any
other. `TransportsImplementAdmission` follows. `VectorsAlwaysInOrder` needs
`VectorInv`: an embed has one batch (`OneBatch`), a live job is not aborted
(`LiveNotAborted`), and while jobs run the vectors so far are exactly those of the
joined ones (`Covered`). `LiveInv` adds what liveness starts from: no permit is free
beside a line (`NoneSpare`), an embed that waits for its jobs has one in its current
attempt that is about (`AllGoing`), a boot has an embed under way (`BootGoes`);
with `LiveNotAborted` it gives `NobodyEverWaitsInVain`, the absence of deadlock that
`BootDecides` and `EmbedEnds` turn into progress under fairness. `EngineOnlyAdvances`
is an action property: a job only goes on, an embed that is over keeps its vectors,
the boot decides once. `NobodyIsOvertaken` is as above, across all the embeds that
share a semaphore.

`LadderProofs`. The invariant of the walk says that what was taken so far are the
substantive turns of the user above the place it has reached, each whole but for
the last, which fills the budget, and that the budget spent is the total of their
lengths (`SumInv`); it gives `TextWithinBudget` and `WindowIsRecent`. With it
`OnlyNewlinesAreLost` bounds finding 4: a window exceeds the selected engine's budget
by less than its number of pieces, only in the top engine, and only where no engine
could have covered it.
`EscalationSound` needs that neighbours in order make the whole ladder ordered
(`NeighboursSuffice`). `Classify` extends the walk by steps that stutter in it
(`ClassifyKeepsTheWalk`), so `JudgedInv` can use the walk's invariant.
`TextsAlwaysFit` follows from the budget that was spent and the engine it selected
(`TextsFit`). `TierIsAlwaysEarned` needs the walk over the scores: the row that leads
after n rows is the first of the best among them (`OneMoreRow`, `LeadingRow`,
`FirstOfTheBest`), and as the rows stand in ascending order of their tiers, the first
of the best is the lowest tier that has it.

`UsageTailProofs`. The invariant gives the tail as a function of how much was received:
its last `CAP` bytes, whatever the chunks were (`ExtendRecent`). So a line is found
exactly if it and what follows it fit (`FoundIfItFits`), the last line with counts is
found if any is, and the report of the end is that of `UsageIfItFits` (`UsageAtEnd`).

`StartupProofs`. `CommonInv` says where a command is, or ended, in terms of the
scenario alone: every check before that place passes and the one of a verdict
fails (`Stage`, over the `Rank` of the checks), what the configuration is by then
(`CfgStage`), what the keyring was asked (`Asked`), and that nothing else was done
before the engines (`Quiet`). As both commands share the scenario, the verdict of
one determines the other's: `ValidateForetells` follows with `BuildInv`, which shows
that neither unresolved secrets nor a bad ladder are left for the construction.
`KeyringOnlyForRunning` follows from `Asked`.

`ServingProofs`. `PoolInv` says the pool is made as planned or as written, and the
arithmetic of the plan is a lemma (`PlanStaysWithin`). It gives nothing away either
(`PlanIsLargest`: one session more oversubscribes the cores, or leaves less than the
tenth of the memory that is kept free), and a larger host never gets a smaller pool
(`PlanGrowsWithHost`, which the tests ask of a few hosts). `ServeInv` accounts for every
engine built, every discovery and the instruments; with the sortedness of the
ladder it gives `ServesWhole`. `TypeInv` covers what these leave open, for `TypeOK`.

Proved and not listed in a run: `BackendCovers`, `TextWithinBudget`, `TailIsRecent` and
`UsageTail`'s `TypeOK`. They hold on the way to `BodyServed` and `RoomForAll`,
`TextsFitEngine`, and `UsageIfItFits`, which the runs check.

Only model-checked: every liveness property (`QueuedIsServed`,
`AbandonedIsReclaimed`, `EveryRequestEnds`, `Drains`, `BootDecides`, `EmbedEnds`) and
the liveness half of `SessionPool`'s refinement, since the prover does no fairness
and no ENABLED. What is proved of them is that nobody waits for nobody, and that
nobody is overtaken.

## Not modelled

* what inference computes before the scores: tokenizer, logits, embeddings, means
  and cosines;
* the regular expressions and word lists of the lexical filters: their results
  belong to a message;
* the grammars of TOML, YAML and JSON, and the wording of errors;
* the JSON of a usage chunk (`src/usage.rs`), which is reduced to whether it carries
  counts; that the rest of a line which the cap cut off, or one whose bytes are no
  UTF-8, could read as an event of its own is left out;
* header copying, error bodies, log and span formats, exporters;
* the token's lifetime: there is no clock, and `google-cloud-auth` refreshes it;
* the connection to a slow client, which belongs to the HTTP server;
* the module `lib.rs`, test fixtures, build scripts, packaging and pipelines.
