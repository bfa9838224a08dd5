------------------------------- MODULE Router -------------------------------
(***************************************************************************)
(* The life of requests to /v1/chat/completions (proxy.rs, respond.rs) in  *)
(* a server that can be told to shut down (main.rs).                       *)
(*                                                                         *)
(* A request is resolved to a route (the modalities it requires and, when  *)
(* there is something to rank, the tier a classifier gives it), selected a *)
(* backend for (Selection.tla), authorized, forwarded, and answered from   *)
(* what the upstream does.  Its handler is a future: at each await point   *)
(* it can be dropped, because the client has gone.                         *)
(*                                                                         *)
(* The configuration and the content of each request are arbitrary and     *)
(* fixed in Init.  Of a request's JSON the model keeps what routing reads: *)
(*   valid    whether it is an object that asks for one completion         *)
(*   needs    the modalities `detect_required_modalities` finds            *)
(*   estimate what `estimate_request_tokens` returns                       *)
(*   text     "substantive" when the classification window is not empty,   *)
(*            "filler" when there is text and all of it is trivial, "none" *)
(*   lexical  whether the current turn looks like image generation         *)
(*   stream   whether it asks for a stream                                 *)
(***************************************************************************)
EXTENDS Selection

CONSTANTS
  Requests,   \* the requests clients make
  Catalogues, \* the model catalogues to consider
  Inputs      \* the request contents to consider

Texts == {"none", "filler", "substantive"}

(* Filler matches no image pattern, so a lexical match has a window. *)
Input ==
  {x \in [valid : BOOLEAN, needs : SUBSET Modalities, estimate : Nat,
          text : Texts, lexical : BOOLEAN, stream : BOOLEAN] :
     /\ "text" \in x.needs
     /\ x.lexical => x.text = "substantive"}

ASSUME RouterAssumption ==
  /\ IsFiniteSet(Requests)
  /\ Catalogues \subseteq Catalogue
  /\ Inputs \subseteq Input

VARIABLES
  models,    \* the catalogue (`AppState::models`)
  idleGuard, \* whether `server.stream_idle_timeout_secs` is not 0
  input,     \* the content of each request
  server,    \* "serving", "draining" after the signal, "flushed" at the end
  pc,        \* where each request's handler is
  required,  \* the modalities it requires so far
  source,    \* why it requires image-output (`image_source`)
  tier,      \* `classified`: its tier, or "skipped"
  backend,   \* the position of the selected model
  status,    \* the upstream's status, once its headers are in
  answer,    \* the outcome its client got
  counted,   \* the `status` labels counted for it in `requests`
  usage      \* how often its token usage was reported

config == <<models, idleGuard, input>>
route  == <<required, source, tier>>
books  == <<status, answer, counted, usage>>
vars   == <<models, idleGuard, input, server, pc, required, source, tier, backend,
            status, answer, counted, usage>>

(***************************************************************************)
(* pc: "idle"     not begun               "auth"    awaiting its bearer    *)
(*     "receive"  awaiting its content    "send"    awaiting the headers   *)
(*     "resolve"  about to be resolved    "read"    awaiting the whole body*)
(*     "classify" awaiting the engine     "stream"  piping the body        *)
(*     "select"   about to be selected                                     *)
(*     "ended"    answered                "gone"    dropped by its client  *)
(***************************************************************************)
Awaiting == {"receive", "classify", "auth", "send", "read", "stream"}
InFlight == {"resolve", "select"} \cup Awaiting
Place    == {"idle", "ended", "gone"} \cup InFlight

Sources  == {"none", "explicit", "lexical", "nli-threshold"}
Statuses == {"2xx", "other"}
Labels   == Statuses \cup {"422", "upstream_timeout", "upstream_unavailable"}
Failures == {"upstream_timeout", "upstream_unavailable"}
Answers  == Labels \cup {"none", "400", "upstream_auth_failed",
                         "upstream_body_error", "cut"}

Moves(r, from, to) == pc[r] = from /\ pc' = [pc EXCEPT ![r] = to]

(* The timer that ends the wait for a silent upstream: the total deadline of *)
(* a request that is not a stream, or the idle guard of the HTTP client.     *)
TimerArmed(r) == ~input[r].stream \/ idleGuard

(* `record_request_metrics`. *)
Count(r, label) == counted' = [counted EXCEPT ![r] = Append(@, label)]

Init ==
  /\ models \in Catalogues
  /\ idleGuard \in BOOLEAN
  /\ input \in [Requests -> Inputs]
  /\ server = "serving"
  /\ pc = [r \in Requests |-> "idle"]
  /\ required = [r \in Requests |-> {}]
  /\ source = [r \in Requests |-> "none"]
  /\ tier = [r \in Requests |-> "skipped"]
  /\ backend = [r \in Requests |-> None]
  /\ status = [r \in Requests |-> "none"]
  /\ answer = [r \in Requests |-> "none"]
  /\ counted = [r \in Requests |-> <<>>]
  /\ usage = [r \in Requests |-> 0]

----------------------------------------------------------------------------
(* A client begins a request. *)
Connect(r) ==
  /\ server = "serving"
  /\ Moves(r, "idle", "receive")
  /\ UNCHANGED <<config, server, route, backend, books>>

(* Its content is in.  One that does not parse, or asks for several         *)
(* completions, is refused before any routing.                              *)
Receive(r) ==
  /\ \/ /\ input[r].valid
        /\ Moves(r, "receive", "resolve")
        /\ UNCHANGED answer
     \/ /\ ~input[r].valid
        /\ Moves(r, "receive", "ended")
        /\ answer' = [answer EXCEPT ![r] = "400"]
  /\ UNCHANGED <<config, server, route, backend, status, counted, usage>>

----------------------------------------------------------------------------
(* `resolve_route`. *)

WithImage(needs) == needs \cup {"image-output"}

(* The slip of taking up every inferred intent. *)
ImageAlways(r) == TRUE

(* The slip of an inferred modality that only has to be covered. *)
ImageIfCovered(r) == Covering(models, WithImage(input[r].needs)) # {}

(* `try_require_image_output`: an inferred image intent is taken up only    *)
(* when some model then serves the request within its window.               *)
ImageServable(r) ==
  CountCandidates(models, WithImage(input[r].needs), input[r].estimate) > 0

(* The requirement and its source after the lexical prefilter. *)
LexicalRoute(r) ==
  LET needs == input[r].needs
  IN CASE "image-output" \in needs -> <<needs, "explicit">>
       [] input[r].lexical /\ "image-output" \notin needs /\ ImageServable(r) ->
            <<WithImage(needs), "lexical">>
       [] OTHER -> <<needs, "none">>

(* The slip of an off-by-one: two candidates are not ranked either. *)
SkipsAtTwo(r) ==
  CountCandidates(models, LexicalRoute(r)[1], input[r].estimate) <= 2

(* Nothing to rank: at most one model serves the request within its window. *)
SkipsClassification(r) ==
  CountCandidates(models, LexicalRoute(r)[1], input[r].estimate) <= 1

(* The synchronous start, up to the engine's await or, when the engine is   *)
(* not needed, to the selection.                                            *)
Resolve(r) ==
  /\ required' = [required EXCEPT ![r] = LexicalRoute(r)[1]]
  /\ source' = [source EXCEPT ![r] = LexicalRoute(r)[2]]
  /\ \/ /\ SkipsClassification(r)
        /\ Moves(r, "resolve", "select")
        /\ UNCHANGED tier
     \/ /\ ~SkipsClassification(r)
        /\ input[r].text # "substantive"
        /\ Moves(r, "resolve", "select")
        /\ tier' = [tier EXCEPT ![r] =
                      IF input[r].text = "filler" THEN "fast" ELSE "balanced"]
     \/ /\ ~SkipsClassification(r)
        /\ input[r].text = "substantive"
        /\ Moves(r, "resolve", "classify")
        /\ UNCHANGED tier
  /\ UNCHANGED <<config, server, backend, books>>

(* The engine's verdict: a tier, and whether it sees image generation.  A   *)
(* lexical match is one already, so then a model was looked for already.    *)
Classified(r) ==
  /\ Moves(r, "classify", "select")
  /\ \E t \in Tiers, image \in BOOLEAN :
       LET upgraded == /\ image /\ ~input[r].lexical
                       /\ "image-output" \notin required[r]
                       /\ ImageServable(r)
       IN /\ tier' = [tier EXCEPT ![r] = t]
          /\ required' = [required EXCEPT ![r] = IF upgraded THEN WithImage(@) ELSE @]
          /\ source' = [source EXCEPT ![r] = IF upgraded THEN "nli-threshold" ELSE @]
  /\ UNCHANGED <<config, server, backend, books>>

(* The engine fails: the balanced default, without a retry. *)
ClassifyFails(r) ==
  /\ Moves(r, "classify", "select")
  /\ tier' = [tier EXCEPT ![r] = "balanced"]
  /\ UNCHANGED <<config, server, required, source, backend, books>>

----------------------------------------------------------------------------
(* The tier that ranks: "when skipped, any value selects the sole (or zero) *)
(* candidate".                                                              *)
Wanted(r) == IF tier[r] = "skipped" THEN "balanced" ELSE tier[r]

(* A backend is selected, or the request is refused with 422. *)
Select(r) ==
  LET chosen == SelectCandidate(models, required[r], Wanted(r), input[r].estimate)
  IN /\ \/ /\ chosen # None
           /\ Moves(r, "select", "auth")
           /\ UNCHANGED <<answer, counted>>
        \/ /\ chosen = None
           /\ Moves(r, "select", "ended")
           /\ answer' = [answer EXCEPT ![r] = "422"]
           /\ Count(r, "422")
     /\ backend' = [backend EXCEPT ![r] = chosen]
     /\ UNCHANGED <<config, server, route, status, usage>>

(* The bearer is at hand: none, a static one, or a token that was fetched. *)
Authorized(r) ==
  /\ Moves(r, "auth", "send")
  /\ UNCHANGED <<config, server, route, backend, books>>

(* A google-adc backend's token cannot be fetched: 502, not counted. *)
AuthFails(r) ==
  /\ Moves(r, "auth", "ended")
  /\ models[backend[r]].adc
  /\ answer' = [answer EXCEPT ![r] = "upstream_auth_failed"]
  /\ UNCHANGED <<config, server, route, backend, status, counted, usage>>

----------------------------------------------------------------------------
(* The upstream call; there is one, and no retry. *)

(* The slip of counting a response with its body and not with its status. *)
RespondsUncounted(r) ==
  /\ \E s \in Statuses :
       /\ Moves(r, "send", IF input[r].stream /\ s = "2xx" THEN "stream" ELSE "read")
       /\ status' = [status EXCEPT ![r] = s]
       /\ counted' = [counted EXCEPT ![r] = IF s = "2xx" /\ input[r].stream THEN @ ELSE Append(@, s)]
  /\ UNCHANGED <<config, server, route, backend, answer, usage>>

(* The response's headers are in: a successful stream is piped, any other   *)
(* response is read to its end first.                                       *)
Responds(r) ==
  /\ \E s \in Statuses :
       /\ Moves(r, "send", IF input[r].stream /\ s = "2xx" THEN "stream" ELSE "read")
       /\ status' = [status EXCEPT ![r] = s]
       /\ Count(r, s)
  /\ UNCHANGED <<config, server, route, backend, answer, usage>>

(* The connection is refused or breaks, or the connect timer fires. *)
SendFails(r) ==
  /\ Moves(r, "send", "ended")
  /\ \E failure \in Failures :
       /\ answer' = [answer EXCEPT ![r] = failure]
       /\ Count(r, failure)
  /\ UNCHANGED <<config, server, route, backend, status, usage>>

(* The slip of a deadline set on the streams instead. *)
StreamSendTimesOut(r) ==
  /\ input[r].stream /\ idleGuard
  /\ Moves(r, "send", "ended")
  /\ answer' = [answer EXCEPT ![r] = "upstream_timeout"]
  /\ Count(r, "upstream_timeout")
  /\ UNCHANGED <<config, server, route, backend, status, usage>>

(* The upstream has been silent for too long. *)
SendTimesOut(r) ==
  /\ TimerArmed(r)
  /\ Moves(r, "send", "ended")
  /\ answer' = [answer EXCEPT ![r] = "upstream_timeout"]
  /\ Count(r, "upstream_timeout")
  /\ UNCHANGED <<config, server, route, backend, status, usage>>

(* `buffered_passthrough`: the body is in, and passed on; a success reports *)
(* its token usage.                                                         *)
BodyRead(r) ==
  /\ Moves(r, "read", "ended")
  /\ answer' = [answer EXCEPT ![r] = status[r]]
  /\ usage' = [usage EXCEPT ![r] = IF status[r] = "2xx" THEN @ + 1 ELSE @]
  /\ UNCHANGED <<config, server, route, backend, status, counted>>

(* The slip of a second entry in the books for a body that failed. *)
BodyFailsCounted(r) ==
  /\ Moves(r, "read", "ended")
  /\ answer' = [answer EXCEPT ![r] = "upstream_body_error"]
  /\ Count(r, "upstream_body_error")
  /\ UNCHANGED <<config, server, route, backend, status, usage>>

(* ... or the connection breaks first. *)
BodyFails(r) ==
  /\ Moves(r, "read", "ended")
  /\ answer' = [answer EXCEPT ![r] = "upstream_body_error"]
  /\ UNCHANGED <<config, server, route, backend, status, counted, usage>>

(* The slip of a deadline that ends with the headers. *)
BodyNeverTimesOut(r) == FALSE /\ BodyFails(r)

(* ... or a timer fires first, with the same answer. *)
BodyTimesOut(r) ==
  /\ TimerArmed(r)
  /\ BodyFails(r)

(* `stream_passthrough`: the upstream closes the stream; the tap reports.   *)
StreamEnds(r) ==
  /\ Moves(r, "stream", "ended")
  /\ answer' = [answer EXCEPT ![r] = "2xx"]
  /\ usage' = [usage EXCEPT ![r] = @ + 1]
  /\ UNCHANGED <<config, server, route, backend, status, counted>>

(* The slip of a tap that reports whenever the stream is over. *)
StreamCutReported(r) ==
  /\ Moves(r, "stream", "ended")
  /\ answer' = [answer EXCEPT ![r] = "cut"]
  /\ usage' = [usage EXCEPT ![r] = @ + 1]
  /\ UNCHANGED <<config, server, route, backend, status, counted>>

(* The stream breaks under way: the client sees it cut off. *)
StreamCut(r) ==
  /\ Moves(r, "stream", "ended")
  /\ answer' = [answer EXCEPT ![r] = "cut"]
  /\ UNCHANGED <<config, server, route, backend, status, counted, usage>>

(* ... or the idle guard cuts it. *)
StreamTimesOut(r) ==
  /\ TimerArmed(r)
  /\ StreamCut(r)

(* The client disconnects, and the handler's future is dropped.  (Only a    *)
(* token that is fetched is awaited in "auth".)                             *)
Disconnect(r) ==
  /\ pc[r] \in Awaiting
  /\ pc[r] = "auth" => models[backend[r]].adc
  /\ pc' = [pc EXCEPT ![r] = "gone"]
  /\ UNCHANGED <<config, server, route, backend, books>>

----------------------------------------------------------------------------
(* SIGTERM or SIGINT: no new request is accepted. *)
Shutdown ==
  /\ server = "serving"
  /\ server' = "draining"
  /\ UNCHANGED <<config, pc, route, backend, books>>

(* The slip of a flush that does not wait for the open streams. *)
FlushEarly ==
  /\ server = "draining"
  /\ \A r \in Requests : pc[r] \notin InFlight \ {"stream"}
  /\ server' = "flushed"
  /\ UNCHANGED <<config, pc, route, backend, books>>

(* Every request in flight has ended: telemetry is flushed, `serve` returns. *)
Flush ==
  /\ server = "draining"
  /\ \A r \in Requests : pc[r] \notin InFlight
  /\ server' = "flushed"
  /\ UNCHANGED <<config, pc, route, backend, books>>

Handler(r) ==
  \/ Receive(r) \/ Resolve(r) \/ Classified(r) \/ ClassifyFails(r)
  \/ Select(r) \/ Authorized(r) \/ AuthFails(r)

Upstream(r) ==
  \/ Responds(r) \/ SendFails(r) \/ SendTimesOut(r)
  \/ BodyRead(r) \/ BodyFails(r) \/ BodyTimesOut(r)
  \/ StreamEnds(r) \/ StreamCut(r) \/ StreamTimesOut(r)

Next ==
  \/ \E r \in Requests : Connect(r) \/ Handler(r) \/ Upstream(r) \/ Disconnect(r)
  \/ Shutdown \/ Flush

Spec == Init /\ [][Next]_vars

(* A runnable handler is polled; a client sends what it began or goes; the  *)
(* engine and the token endpoint answer (their clients have a deadline of   *)
(* their own); an armed timer fires, unless the wait ends before; a stream  *)
(* that is guarded ends or falls silent.  The upstream owes nothing.        *)
Fairness ==
  /\ \A r \in Requests :
       /\ WF_vars(Receive(r)) /\ WF_vars(Resolve(r))
       /\ WF_vars(Classified(r) \/ ClassifyFails(r))
       /\ WF_vars(Select(r)) /\ WF_vars(Authorized(r) \/ AuthFails(r))
       /\ WF_vars(SendTimesOut(r)) /\ WF_vars(BodyTimesOut(r))
       /\ WF_vars(StreamTimesOut(r))
  /\ WF_vars(Flush)

FairSpec == Spec /\ Fairness

----------------------------------------------------------------------------
(* Every variable stays in its range. *)
TypeOK ==
  /\ models \in Catalogue
  /\ idleGuard \in BOOLEAN
  /\ input \in [Requests -> Input]
  /\ server \in {"serving", "draining", "flushed"}
  /\ pc \in [Requests -> Place]
  /\ required \in [Requests -> SUBSET Modalities]
  /\ source \in [Requests -> Sources]
  /\ tier \in [Requests -> Tiers \cup {"skipped"}]
  /\ backend \in [Requests -> Nat]
  /\ status \in [Requests -> Statuses \cup {"none"}]
  /\ answer \in [Requests -> Answers]
  /\ counted \in [Requests -> Seq(Labels)]
  /\ usage \in [Requests -> Nat]

(* A request is refused with 422 only when no model covers the modalities   *)
(* it states itself: inferred image intent is "never [applied] at the cost  *)
(* of making the request unroutable".                                       *)
RefusedOnlyUncovered ==
  \A r \in Requests : answer[r] = "422" => Covering(models, input[r].needs) = {}

(* The selected backend covers everything the request requires, what it     *)
(* states and what was inferred.                                            *)
BackendCovers ==
  \A r \in Requests : backend[r] # None =>
    /\ backend[r] \in DOMAIN models
    /\ Covers(models[backend[r]], input[r].needs)
    /\ source[r] # "none" => Covers(models[backend[r]], WithImage(input[r].needs))

(* A window is overflowed only when it cannot be helped: if any model can   *)
(* serve the request as it was stated, the backend's window holds it, with  *)
(* or without inferred image intent; otherwise no covering model that the   *)
(* request could have gone to has a larger window.                          *)
OverflowOnlyUnavoidable ==
  \A r \in Requests :
    (backend[r] # None /\ ~Fits(models[backend[r]], input[r].estimate)) =>
      /\ Fitting(models, input[r].needs, input[r].estimate) = {}
      /\ \A i \in Covering(models, input[r].needs) :
           models[i].window <= models[backend[r]].window

(* The candidates the tier ranks for request r. *)
Candidates(r) ==
  LET fitting == Fitting(models, required[r], input[r].estimate)
  IN IF fitting # {} THEN fitting
     ELSE Widest(models, Covering(models, required[r]))

(* "Exact type -> nearest higher (escalation) -> highest lower (fallback)",  *)
(* and among equals the one declared first.                                  *)
TierHonoured ==
  \A r \in Requests : (backend[r] # None /\ tier[r] # "skipped") =>
    LET got(i) == TierLevel[models[i].tier]
        want == TierLevel[tier[r]]
        b == backend[r]
    IN \A i \in Candidates(r) :
         /\ got(b) > want => (got(i) < want \/ got(i) >= got(b))
         /\ got(b) < want => got(i) <= got(b)
         /\ i < b => got(i) # got(b)

(* Classification is skipped for a request some model serves within its     *)
(* window only when no tier could change where it goes.                     *)
SkippedSoleCandidate ==
  \A r \in Requests :
    /\ backend[r] # None /\ tier[r] = "skipped"
    /\ Fits(models[backend[r]], input[r].estimate)
    => \A t \in Tiers :
         backend[r] = SelectCandidate(models, required[r], t, input[r].estimate)

(* The books agree with what happened, and nothing is counted twice.  A     *)
(* request whose upstream answered is counted with that status, whatever    *)
(* becomes of the body.  One that the handler ended itself once it had a    *)
(* route is counted with the label of its answer (Labels): no model covers  *)
(* it, or the upstream could not be reached.  One that ended before it had  *)
(* a route, for whose backend no token could be had (AnsweredIsCounted), or *)
(* that was abandoned before the upstream answered is not counted.          *)
BooksBalance ==
  \A r \in Requests :
    counted[r] = IF status[r] # "none" THEN <<status[r]>>
                 ELSE IF pc[r] = "ended" /\ answer[r] \in Labels THEN <<answer[r]>>
                 ELSE <<>>

(* Token usage is reported once for each successful response whose body     *)
(* came from the upstream to its end, and for no other: not for one that    *)
(* failed, was cut off, or was dropped by the client while it came.  (What  *)
(* the end of a stream says of usage is UsageTail's question.)              *)
UsageForWholeAnswers ==
  \A r \in Requests :
    usage[r] = IF pc[r] = "ended" /\ answer[r] = "2xx" THEN 1 ELSE 0

(* Telemetry is flushed after the last entry is in the books: "the final    *)
(* span/metric batches must reach the collector before the process exits".  *)
NothingAfterFlush ==
  [][server = "flushed" => UNCHANGED <<counted, usage, answer>>]_vars

(* A request ends, or its client goes, however silent the upstream is --    *)
(* unless it is a stream and the operator has turned the idle guard off.    *)
EveryRequestEnds ==
  \A r \in Requests :
    (pc[r] = "receive" /\ (~input[r].stream \/ idleGuard)) ~> pc[r] \in {"ended", "gone"}

(* "It stops accepting new requests and lets in-flight ones finish": after  *)
(* the signal the server drains and exits, unless such a stream is open.    *)
Drains ==
  (/\ server = "draining"
   /\ \A r \in Requests : pc[r] \in InFlight => (~input[r].stream \/ idleGuard))
  ~> server = "flushed"

(* "When this is `<= 1` the complexity tier is irrelevant (nothing to       *)
(* rank)": false when no covering model fits and several are equally large. *)
TierIrrelevantWhenSkipped ==
  \A r \in Requests :
    (backend[r] # None /\ tier[r] = "skipped") =>
      \A t \in Tiers :
        backend[r] = SelectCandidate(models, required[r], t, input[r].estimate)

(* "Pre-routing 400s are deliberately not counted": every other answered    *)
(* request is.  False for a backend whose Google token cannot be fetched.   *)
AnsweredIsCounted ==
  \A r \in Requests :
    (pc[r] = "ended" /\ answer[r] # "400") => Len(counted[r]) = 1
=============================================================================
