----------------------------- MODULE Embedding -----------------------------
(***************************************************************************)
(* A remote embedding engine: its start-up and its classification calls    *)
(* (engines/embedding.rs) over the three transports (engines/gemini/mod.rs,*)
(* engines/vertex/mod.rs).                                                 *)
(*                                                                         *)
(* An embed turns a list of texts into one vector per text, in order.  The *)
(* batching transports ("gemini", "predict") send one request for all of   *)
(* them; "embedContent" sends one for each, as concurrent tasks of a       *)
(* JoinSet.  A request is sent by a job that holds a permit of the         *)
(* transport's semaphore.  With "predict" and "embedContent" a Google      *)
(* token is fetched: while the permit is held, or before the jobs begin.   *)
(*                                                                         *)
(* The engine is built by embedding the class anchors, in up to            *)
(* MaxAttempts attempts; afterwards each classification is one embed.  An  *)
(* embed that is over, because a job failed or its client has gone, drops  *)
(* its JoinSet, which aborts the other jobs: an aborted job is dropped by  *)
(* a worker later on, and the poll it may be in is finished first.         *)
(***************************************************************************)
EXTENDS Naturals, Sequences, FiniteSets, SequencesExt

CONSTANTS
  Anchors,     \* the embed of the class anchors, at start-up
  Calls,       \* the classification calls' embeds
  TextCount,   \* how many texts each embed has
  MaxPermits,  \* `max_concurrency`
  MaxAttempts  \* one more than the length of the backoff schedule

Embeds == {Anchors} \cup Calls

ASSUME EmbeddingAssumption ==
  /\ IsFiniteSet(Calls) /\ Anchors \notin Calls
  /\ TextCount \in [Embeds -> Nat \ {0}]
  /\ MaxPermits \in Nat \ {0}     \* `.max(1)`
  /\ MaxAttempts \in Nat \ {0}

Flavors == {"gemini", "predict", "embedContent"}

(* How a request can fail: "transient" if it cannot be sent, has no answer  *)
(* before the deadline, or is answered by 429 or a server error (marked by  *)
(* `TransientUpstream`); "permanent" if it is answered by another status,   *)
(* or by a body of another shape or number of vectors, or if there is no    *)
(* token; and "body" if the connection breaks, or the deadline passes,      *)
(* within the body of a success.                                            *)
Failures == {"transient", "permanent", "body"}

(* `is_transient`. *)
IsTransient(f) == f = "transient"

(* A job <<e, k, i>> works for the k-th attempt of embed e: on its text i,  *)
(* or on all of its texts if i = 0.                                         *)
Jobs ==
  UNION {{e} \X (IF e = Anchors THEN 1..MaxAttempts ELSE {1}) \X (0..TextCount[e]) : e \in Embeds}

VARIABLES
  flavor,   \* the transport, fixed by the configuration
  phase,    \* the engine: "boot", "backoff", "ready", or "failed"
  attempt,  \* the attempt at embedding the anchors
  embed,    \* the state of each embed
  out,      \* the vectors each embed has: out[e][i] = <<k, i>> is text i's
  failure,  \* what failed the latest attempt at the anchors
  job,      \* the state of each job
  aborted,  \* the jobs whose JoinSet was dropped
  permits,  \* the permits that nobody holds
  queue     \* the semaphore's waiters, the oldest first

vars == <<flavor, phase, attempt, embed, out, failure, job, aborted, permits, queue>>
semaphore == <<permits, queue>>

(***************************************************************************)
(* embed: "idle"   not begun           "ok"     has returned its vectors   *)
(*        "token"  awaiting the token  "failed" has returned an error      *)
(*        "jobs"   awaiting its jobs   "gone"   dropped by its client      *)
(* job:   "none"   not begun                                               *)
(*        "spawned" about to ask for a permit                              *)
(*        "queued" waiting for it                                          *)
(*        "granted" has it (and, with "predict", awaits the token)         *)
(*        "sent"   awaiting the response                                   *)
(*        an outcome, "vectors" or a failure: finished, not joined yet     *)
(*        "joined" its outcome was read, or it was dropped                 *)
(***************************************************************************)
EmbedState == {"idle", "token", "jobs", "ok", "failed", "gone"}
Holding    == {"granted", "sent"}
Outcomes   == {"vectors"} \cup Failures
JobState   == {"none", "spawned", "queued", "joined"} \cup Holding \cup Outcomes

FanOut == flavor = "embedContent"

Empty == <<>>   \* `Vec::new()`, before a vector is put in its place

(* The attempt that embed e is in. *)
Attempt(e) == IF e = Anchors THEN attempt ELSE 1

Current(e) == {j \in Jobs : j[1] = e /\ j[2] = Attempt(e)}
Unfinished(e) == {j \in Current(e) : job[j] \in {"spawned", "queued"} \cup Holding}

(* The texts of job j. *)
TextsOf(j) == IF j[3] = 0 THEN 1..TextCount[j[1]] ELSE {j[3]}

NoVectors(e) == [i \in 1..TextCount[e] |-> Empty]

Init ==
  /\ flavor \in Flavors
  /\ phase = "boot"
  /\ attempt = 1
  /\ embed = [e \in Embeds |-> "idle"]
  /\ out = [e \in Embeds |-> NoVectors(e)]
  /\ failure = "none"
  /\ job = [j \in Jobs |-> "none"]
  /\ aborted = {}
  /\ permits = MaxPermits
  /\ queue = <<>>

----------------------------------------------------------------------------
(* tokio's semaphore: the permit of job j goes to the oldest waiter, if any;*)
(* j itself is in state s afterwards.                                       *)

(* The slip of waking nobody. *)
ReleaseToNobody(j, s) ==
  /\ permits' = permits + 1
  /\ job' = [job EXCEPT ![j] = s]
  /\ UNCHANGED queue

(* The slip of a hand-over that does not spend the permit. *)
ReleaseAndGrant(j, s) ==
  /\ permits' = permits + 1
  /\ job' = IF queue = <<>> THEN [job EXCEPT ![j] = s]
            ELSE [job EXCEPT ![j] = s, ![Head(queue)] = "granted"]
  /\ queue' = IF queue = <<>> THEN queue ELSE Tail(queue)

(* The slip of a stack for a queue. *)
ReleaseToYoungest(j, s) ==
  IF queue = <<>> THEN ReleaseToNobody(j, s)
  ELSE /\ job' = [job EXCEPT ![j] = s, ![Last(queue)] = "granted"]
       /\ queue' = Front(queue)
       /\ UNCHANGED permits

Release(j, s) ==
  \/ /\ queue = <<>>
     /\ permits' = permits + 1
     /\ job' = [job EXCEPT ![j] = s]
     /\ UNCHANGED queue
  \/ /\ queue # <<>>
     /\ job' = [job EXCEPT ![j] = s, ![Head(queue)] = "granted"]
     /\ queue' = Tail(queue)
     /\ UNCHANGED permits

(* The slip of a job that is dropped with its permit. *)
LeaveForgetful(j) ==
  /\ job' = [job EXCEPT ![j] = "joined"]
  /\ queue' = SelectSeq(queue, LAMBDA w : w # j)
  /\ UNCHANGED permits

(* Job j's future is dropped: it leaves the queue, or gives its permit on.  *)
Leave(j) ==
  \/ /\ job[j] = "spawned"
     /\ job' = [job EXCEPT ![j] = "joined"]
     /\ UNCHANGED semaphore
  \/ /\ job[j] = "queued"
     /\ \E i \in DOMAIN queue : queue[i] = j /\ queue' = RemoveAt(queue, i)
     /\ job' = [job EXCEPT ![j] = "joined"]
     /\ UNCHANGED permits
  \/ /\ job[j] \in Holding
     /\ Release(j, "joined")

----------------------------------------------------------------------------
(* The ends of an embed. *)

(* The engine is constructed with the first anchors that are complete. *)
Succeed(e) ==
  /\ embed' = [embed EXCEPT ![e] = "ok"]
  /\ phase' = IF e = Anchors THEN "ready" ELSE phase
  /\ UNCHANGED <<failure, aborted>>

(* The JoinSet is dropped, if there is one. *)
Abandon(e) == aborted' = IF FanOut THEN aborted \cup Unfinished(e) ELSE aborted

(* A classification is not retried; an attempt at the anchors is, if it     *)
(* failed transiently and was not the last.                                 *)
Fail(e, f) ==
  /\ Abandon(e)
  /\ out' = [out EXCEPT ![e] = NoVectors(e)]
  /\ \/ /\ e \in Calls
        /\ embed' = [embed EXCEPT ![e] = "failed"]
        /\ UNCHANGED <<phase, failure>>
     \/ /\ e = Anchors /\ IsTransient(f) /\ attempt < MaxAttempts
        /\ embed' = [embed EXCEPT ![e] = "idle"]
        /\ phase' = "backoff"
        /\ failure' = f
     \/ /\ e = Anchors /\ ~(IsTransient(f) /\ attempt < MaxAttempts)
        /\ embed' = [embed EXCEPT ![e] = "failed"]
        /\ phase' = "failed"
        /\ failure' = f

----------------------------------------------------------------------------
(* An embed begins: the anchors at boot, a classification once the engine   *)
(* exists.                                                                  *)
Begin(e) ==
  /\ embed[e] = "idle"
  /\ phase = IF e = Anchors THEN "boot" ELSE "ready"
  /\ \/ /\ FanOut
        /\ embed' = [embed EXCEPT ![e] = "token"]
        /\ UNCHANGED job
     \/ /\ ~FanOut
        /\ embed' = [embed EXCEPT ![e] = "jobs"]
        /\ job' = [job EXCEPT ![<<e, Attempt(e), 0>>] = "spawned"]
  /\ UNCHANGED <<flavor, phase, attempt, out, failure, aborted, semaphore>>

(* The fan-out: the token is there, and a task is spawned for each text. *)
Fetched(e) ==
  /\ embed[e] = "token"
  /\ embed' = [embed EXCEPT ![e] = "jobs"]
  /\ job' = [j \in Jobs |-> IF j \in Current(e) /\ j[3] # 0 THEN "spawned" ELSE job[j]]
  /\ UNCHANGED <<flavor, phase, attempt, out, failure, aborted, semaphore>>

FetchFails(e) ==
  /\ embed[e] = "token"
  /\ Fail(e, "permanent")
  /\ UNCHANGED <<flavor, attempt, job, semaphore>>

(* A job takes a permit, or joins the queue. *)
Acquire(j) ==
  /\ phase # "failed" /\ job[j] = "spawned"
  /\ \/ /\ permits > 0
        /\ permits' = permits - 1
        /\ job' = [job EXCEPT ![j] = "granted"]
        /\ UNCHANGED queue
     \/ /\ permits = 0
        /\ queue' = Append(queue, j)
        /\ job' = [job EXCEPT ![j] = "queued"]
        /\ UNCHANGED permits
  /\ UNCHANGED <<flavor, phase, attempt, embed, out, failure, aborted>>

(* The request is sent (with "predict", once the token is there). *)
Send(j) ==
  /\ phase # "failed" /\ job[j] = "granted"
  /\ job' = [job EXCEPT ![j] = "sent"]
  /\ UNCHANGED <<flavor, phase, attempt, embed, out, failure, aborted, semaphore>>

(* "predict": the token cannot be fetched, while the permit is held. *)
TokenFails(j) ==
  /\ flavor = "predict" /\ phase # "failed" /\ job[j] = "granted"
  /\ Release(j, "joined")
  /\ Fail(j[1], "permanent")
  /\ UNCHANGED <<flavor, attempt>>

(* The response is in, or the client's deadline has passed.  The batch is   *)
(* its embed's only job: the vectors are those of all its texts, in order.  *)
(* A task of the fan-out finishes, to be joined.                            *)
Answer(j, outcome) ==
  /\ phase # "failed" /\ job[j] = "sent"
  /\ \/ /\ FanOut
        /\ Release(j, IF j \in aborted THEN "joined" ELSE outcome)
        /\ UNCHANGED <<phase, embed, out, failure, aborted>>
     \/ /\ ~FanOut /\ outcome = "vectors"
        /\ Release(j, "joined")
        /\ out' = [out EXCEPT ![j[1]] = [i \in 1..TextCount[j[1]] |-> <<j[2], i>>]]
        /\ Succeed(j[1])
     \/ /\ ~FanOut /\ outcome # "vectors"
        /\ Release(j, "joined")
        /\ Fail(j[1], outcome)
  /\ UNCHANGED <<flavor, attempt>>

(* The tasks of e whose outcome is yet to be read, or to come. *)
Pending(e) == {k \in Current(e) : job[k] \notin {"none", "joined"}}

(* The slip of collecting the vectors in the order they arrive. *)
JoinInArrivalOrder(j) ==
  LET e == j[1]
      next == CHOOSE i \in 1..TextCount[e] :
                out[e][i] = Empty /\ \A h \in 1..(i - 1) : out[e][h] # Empty
  IN /\ FanOut /\ embed[e] = "jobs" /\ j \in Current(e) /\ job[j] = "vectors"
     /\ job' = [job EXCEPT ![j] = "joined"]
     /\ out' = [out EXCEPT ![e][next] = <<j[2], j[3]>>]
     /\ \/ Pending(e) = {j} /\ Succeed(e)
        \/ Pending(e) # {j} /\ UNCHANGED <<embed, phase, failure, aborted>>
     /\ UNCHANGED <<flavor, attempt, semaphore>>

(* A finished task is joined: its vector is put in its text's place; the    *)
(* last one completes the embed.                                            *)
Join(j) ==
  LET e == j[1]
  IN /\ FanOut /\ embed[e] = "jobs" /\ j \in Current(e) /\ job[j] = "vectors"
     /\ job' = [job EXCEPT ![j] = "joined"]
     /\ out' = [out EXCEPT ![e][j[3]] = <<j[2], j[3]>>]
     /\ \/ Pending(e) = {j} /\ Succeed(e)
        \/ Pending(e) # {j} /\ UNCHANGED <<embed, phase, failure, aborted>>
     /\ UNCHANGED <<flavor, attempt, semaphore>>

(* What finished tasks of e are when its JoinSet is dropped. *)
Discarded(e) ==
  [k \in Jobs |-> IF k \in Current(e) /\ job[k] \in Outcomes THEN "joined" ELSE job[k]]

(* The first failure that is joined ends the embed. *)
JoinFails(j) ==
  LET e == j[1]
  IN /\ FanOut /\ embed[e] = "jobs" /\ j \in Current(e) /\ job[j] \in Failures
     /\ job' = Discarded(e)
     /\ Fail(e, job[j])
     /\ UNCHANGED <<flavor, attempt, semaphore>>

(* A worker drops an aborted task. *)
Reap(j) ==
  /\ phase # "failed" /\ j \in aborted
  /\ Leave(j)
  /\ UNCHANGED <<flavor, phase, attempt, embed, out, failure, aborted>>

(* A classification's client disconnects, and its future is dropped: with   *)
(* it the batch's only job, or the JoinSet.                                 *)
Drop(c) ==
  /\ embed[c] \in {"token", "jobs"}
  /\ embed' = [embed EXCEPT ![c] = "gone"]
  /\ \/ /\ FanOut
        /\ job' = Discarded(c)
        /\ UNCHANGED semaphore
     \/ /\ ~FanOut
        /\ Leave(<<c, 1, 0>>)
  /\ Abandon(c)
  /\ out' = [out EXCEPT ![c] = NoVectors(c)]
  /\ UNCHANGED <<flavor, phase, attempt, failure>>

(* The backoff is over. *)
Retry ==
  /\ phase = "backoff"
  /\ phase' = "boot"
  /\ attempt' = attempt + 1
  /\ UNCHANGED <<flavor, embed, out, failure, job, aborted, semaphore>>

Next ==
  \/ \E e \in Embeds : Begin(e) \/ Fetched(e) \/ FetchFails(e)
  \/ \E j \in Jobs :
       \/ Acquire(j) \/ Send(j) \/ TokenFails(j) \/ Join(j) \/ JoinFails(j)
       \/ Reap(j)
       \/ \E outcome \in Outcomes : Answer(j, outcome)
  \/ \E c \in Calls : Drop(c)
  \/ Retry

Spec == Init /\ [][Next]_vars

(* The runtime polls what is runnable; a request has a deadline; the auth   *)
(* library answers; the anchors are embedded, and clients are not obliged.  *)
Fairness ==
  /\ WF_vars(Begin(Anchors)) /\ WF_vars(Retry)
  /\ \A e \in Embeds : WF_vars(Fetched(e) \/ FetchFails(e))
  /\ \A j \in Jobs :
       /\ WF_vars(Acquire(j)) /\ WF_vars(Send(j) \/ TokenFails(j))
       /\ WF_vars(Answer(j, "transient")) /\ WF_vars(Join(j) \/ JoinFails(j))
       /\ WF_vars(Reap(j))

FairSpec == Spec /\ Fairness

----------------------------------------------------------------------------
(* Every variable stays in its range. *)
TypeOK ==
  /\ flavor \in Flavors
  /\ phase \in {"boot", "backoff", "ready", "failed"}
  /\ attempt \in 1..MaxAttempts
  /\ embed \in [Embeds -> EmbedState]
  /\ DOMAIN out = Embeds
  /\ failure \in Failures \cup {"none"}
  /\ job \in [Jobs -> JobState]
  /\ aborted \subseteq Jobs
  /\ permits \in 0..MaxPermits
  /\ queue \in Seq(Jobs)

Holders == {j \in Jobs : job[j] \in Holding}

(* "Bounds concurrent in-flight embedding requests": a permit is free or    *)
(* held by one job, whatever was aborted, dropped or retried before.        *)
PermitsConserved == permits + Cardinality(Holders) = MaxPermits

(* "Returning one vector per text in input order": an embed that succeeds   *)
(* has the vector of each text in its place, all of the same attempt, and   *)
(* an engine never exists without those of its anchors.                     *)
VectorsInOrder ==
  /\ phase = "ready" => embed[Anchors] = "ok"
  /\ \A e \in Embeds : embed[e] = "ok" =>
       out[e] = [i \in 1..TextCount[e] |-> <<Attempt(e), i>>]

(* Booting ends: with an engine, or with an error.  The tasks that earlier  *)
(* attempts left behind do not starve the later ones.                       *)
BootDecides == <>(phase \in {"ready", "failed"})

(* Every classification ends, whatever became of those before it. *)
EmbedEnds ==
  \A c \in Calls : embed[c] \in {"token", "jobs"} ~> embed[c] \in {"ok", "failed", "gone"}

(* The jobs are served first come, first served, by MaxPermits slots. *)
Promise == INSTANCE Admission WITH
  Calls  <- Jobs,
  Slots  <- MaxPermits,
  line   <- queue,
  served <- Holders

ImplementsAdmission == Promise!Safety

(* "Transport failures and 429/5xx statuses" are retried at start-up: false *)
(* of a connection that breaks, or is too slow, while a body is read.       *)
TransportFailureRetried ==
  (phase = "failed" /\ failure \in {"transient", "body"}) => attempt = MaxAttempts
=============================================================================
