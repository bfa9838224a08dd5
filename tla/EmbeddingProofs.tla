-------------------------- MODULE EmbeddingProofs --------------------------
(***************************************************************************)
(* Proofs about Embedding, for any number of classifications, texts,       *)
(* permits and attempts, and each of the three transports.                 *)
(***************************************************************************)
EXTENDS Embedding, DataLemmas, FiniteSetTheorems

(***************************************************************************)
(* The inductive invariant of the semaphore.  A release must find the      *)
(* oldest waiter waiting (QueueLinked); a job that is spawned must not be  *)
(* one that holds a permit already, so the jobs of an attempt have no      *)
(* state before it begins (Fresh), which needs to know where the anchors'  *)
(* embed is during the backoff (Backoff).                                  *)
(***************************************************************************)
Shape ==
  /\ flavor \in Flavors
  /\ phase \in {"boot", "backoff", "ready", "failed"}
  /\ attempt \in 1..MaxAttempts
  /\ embed \in [Embeds -> EmbedState]
  /\ failure \in Failures \cup {"none"}
  /\ job \in [Jobs -> JobState]
  /\ aborted \subseteq Jobs
  /\ permits \in Nat
  /\ queue \in Seq(Jobs)

QueueLinked ==
  /\ \A i \in 1..Len(queue) : job[queue[i]] = "queued"
  /\ \A i, j \in 1..Len(queue) : queue[i] = queue[j] => i = j

Backoff == phase = "backoff" => embed[Anchors] = "idle" /\ attempt < MaxAttempts

(* The attempts of e that have not begun. *)
Ahead(e, k) ==
  \/ k > Attempt(e)
  \/ k = Attempt(e) /\ embed[e] \in {"idle", "token"} /\ ~(e = Anchors /\ phase = "backoff")

Fresh == \A j \in Jobs : Ahead(j[1], j[2]) => job[j] = "none"

ShapeInv == Shape /\ QueueLinked /\ Backoff /\ Fresh

USE DEF EmbedState, JobState, Outcomes, Holding, Failures, Flavors

(* What a job is. *)
LEMMA JobParts ==
  /\ \A j \in Jobs : /\ j[1] \in Embeds /\ j[3] \in 0..TextCount[j[1]]
                     /\ j[2] \in 1..MaxAttempts /\ (j[1] # Anchors => j[2] = 1)
                     /\ j = <<j[1], j[2], j[3]>>
  /\ \A e \in Embeds, i \in Nat :
       attempt \in 1..MaxAttempts /\ i <= TextCount[e] => <<e, Attempt(e), i>> \in Jobs
<1>1. ASSUME NEW j \in Jobs
      PROVE  /\ j[1] \in Embeds /\ j[3] \in 0..TextCount[j[1]]
             /\ j[2] \in 1..MaxAttempts /\ (j[1] # Anchors => j[2] = 1)
             /\ j = <<j[1], j[2], j[3]>>
  <2>1. PICK e \in Embeds :
          j \in {e} \X (IF e = Anchors THEN 1..MaxAttempts ELSE {1}) \X (0..TextCount[e])
    BY DEF Jobs
  <2> QED
    BY <2>1, EmbeddingAssumption
<1>2. ASSUME NEW e \in Embeds, NEW i \in Nat, attempt \in 1..MaxAttempts, i <= TextCount[e]
      PROVE  <<e, Attempt(e), i>> \in Jobs
  <2>1. TextCount[e] \in Nat
    BY EmbeddingAssumption
  <2>2. i \in 0..TextCount[e]
    BY <1>2, <2>1
  <2>3. Attempt(e) \in (IF e = Anchors THEN 1..MaxAttempts ELSE {1})
    BY <1>2 DEF Attempt
  <2>4. <<e, Attempt(e), i>> \in
          {e} \X (IF e = Anchors THEN 1..MaxAttempts ELSE {1}) \X (0..TextCount[e])
    BY <2>2, <2>3
  <2> QED
    BY <2>4 DEF Jobs
<1> QED
  BY <1>1, <1>2

(* An engine that has not started has the shape: every job is idle, the     *)
(* queue is empty.                                                          *)
LEMMA ShapeInit == Init => ShapeInv
<1> SUFFICES ASSUME Init PROVE ShapeInv
  OBVIOUS
<1> QED
  BY EmbeddingAssumption DEF Init, ShapeInv, Shape, QueueLinked, Backoff, Fresh

----------------------------------------------------------------------------
(***************************************************************************)
(* What can happen to the jobs at the semaphore.  JobLeft: j is out of     *)
(* line and without a permit, in a state s, and a waiter may have j's.     *)
(***************************************************************************)
JobLeft(j, s) ==
  /\ job' \in [Jobs -> JobState] /\ job'[j] = s
  /\ \A k \in Jobs \ {j} :
       job'[k] = job[k] \/ (job[k] = "queued" /\ job'[k] = "granted")

QueueKept == queue' \in Seq(Jobs) /\ permits' \in Nat /\ QueueLinked'

(* A permit that is released leaves its job out of the queue and the queue  *)
(* linked to the jobs that wait, whether it goes to the next in line or     *)
(* back to the semaphore.                                                   *)
LEMMA ReleaseEffect ==
  ASSUME Shape, QueueLinked, NEW j \in Jobs, job[j] # "queued",
         NEW s \in JobState \ {"queued"}, Release(j, s)
  PROVE  JobLeft(j, s) /\ QueueKept
<1>1. CASE queue = <<>>
  BY <1>1 DEF Release, JobLeft, QueueKept, Shape, QueueLinked
<1>2. CASE queue # <<>>
  <2>1. /\ queue' = Tail(queue) /\ permits' = permits
        /\ job' = [job EXCEPT ![j] = s, ![Head(queue)] = "granted"]
    BY <1>2 DEF Release
  <2>2. /\ Len(queue) \in Nat /\ Len(queue) > 0
        /\ Head(queue) = queue[1] /\ Head(queue) \in Jobs
        /\ Tail(queue) \in Seq(Jobs)
        /\ Len(Tail(queue)) = Len(queue) - 1
        /\ \A i \in 1..(Len(queue) - 1) : Tail(queue)[i] = queue[i + 1]
    BY <1>2 DEF Shape
  <2>3. \A i \in 1..Len(queue) : queue[i] \in Jobs
    BY DEF Shape
  <2>4. ASSUME NEW i \in 1..(Len(queue) - 1)
        PROVE  job'[queue[i + 1]] = "queued"
    <3>1. i + 1 \in 1..Len(queue) /\ 1 \in 1..Len(queue) /\ i + 1 # 1
      BY <2>2
    <3>2. queue[i + 1] # queue[1] /\ job[queue[i + 1]] = "queued"
      BY <3>1 DEF QueueLinked
    <3>3. queue[i + 1] \in Jobs /\ queue[i + 1] # Head(queue) /\ queue[i + 1] # j
      BY <2>2, <2>3, <3>1, <3>2
    <3>4. job'[queue[i + 1]] = job[queue[i + 1]]
      BY <2>1, <3>3 DEF Shape
    <3> QED
      BY <3>2, <3>4
  <2>5. QueueLinked'
    <3>0. Len(queue') = Len(queue) - 1 /\ \A i \in 1..Len(queue') : queue'[i] = queue[i + 1]
      BY <2>1, <2>2
    <3>1. ASSUME NEW i \in 1..Len(queue')
          PROVE  job'[queue'[i]] = "queued"
      <4>1. i \in 1..(Len(queue) - 1) /\ queue'[i] = queue[i + 1]
        BY <3>0
      <4> QED
        BY <2>4, <4>1
    <3>2. \A i, k \in 1..Len(queue') : queue'[i] = queue'[k] => i = k
      BY <2>1, <2>2 DEF QueueLinked
    <3> QED
      BY <3>1, <3>2 DEF QueueLinked
  <2>6. job[Head(queue)] = "queued"
    BY <2>2 DEF QueueLinked
  <2> QED
    BY <2>1, <2>2, <2>5, <2>6 DEF JobLeft, QueueKept, Shape
<1> QED
  BY <1>1, <1>2

(* The same of a job that is dropped, wherever it was: before its acquire,  *)
(* in the line, or with a permit.                                           *)
LEMMA LeaveEffect ==
  ASSUME Shape, QueueLinked, NEW j \in Jobs, Leave(j)
  PROVE  /\ JobLeft(j, "joined") /\ QueueKept
         /\ job[j] \in {"spawned", "queued"} \cup Holding
<1>1. CASE job[j] = "spawned" /\ job' = [job EXCEPT ![j] = "joined"] /\ UNCHANGED semaphore
  BY <1>1 DEF semaphore, JobLeft, QueueKept, Shape, QueueLinked
<1>2. CASE /\ job[j] = "queued" /\ job' = [job EXCEPT ![j] = "joined"] /\ UNCHANGED permits
           /\ \E i \in DOMAIN queue : queue[i] = j /\ queue' = RemoveAt(queue, i)
  <2>1. PICK i \in 1..Len(queue) : queue[i] = j /\ queue' = RemoveAt(queue, i)
    BY <1>2 DEF Shape
  <2>2. Len(queue) \in Nat /\ queue \in Seq(Jobs)
    BY DEF Shape
  <2>3. /\ queue' \in Seq(Jobs)
        /\ Len(queue') = Len(queue) - 1
        /\ \A k \in 1..(Len(queue) - 1) :
             queue'[k] = IF k < i THEN queue[k] ELSE queue[k + 1]
    BY <2>1, <2>2, RemoveAtElements
  <2> DEFINE at(n) == IF n < i THEN n ELSE n + 1
  <2>4. \A k \in 1..(Len(queue) - 1) :
          at(k) \in 1..Len(queue) /\ at(k) # i /\ queue'[k] = queue[at(k)]
    BY <2>2, <2>3
  <2>5. \A k, m \in 1..(Len(queue) - 1) : at(k) = at(m) => k = m
    BY <2>2
  <2> HIDE DEF at
  <2>6. ASSUME NEW k \in 1..(Len(queue) - 1)
        PROVE  queue'[k] \in Jobs /\ queue'[k] # j /\ job[queue'[k]] = "queued"
    <3>1. queue[at(k)] # j /\ job[queue[at(k)]] = "queued" /\ queue[at(k)] \in Jobs
      BY <2>1, <2>2, <2>4 DEF QueueLinked
    <3> QED
      BY <2>4, <3>1
  <2>7. \A k \in 1..Len(queue') : job'[queue'[k]] = "queued"
    BY <1>2, <2>3, <2>6 DEF Shape
  <2>8. ASSUME NEW k \in 1..Len(queue'), NEW m \in 1..Len(queue'), queue'[k] = queue'[m]
        PROVE  k = m
    <3>1. k \in 1..(Len(queue) - 1) /\ m \in 1..(Len(queue) - 1)
      BY <2>3
    <3>2. /\ at(k) \in 1..Len(queue) /\ at(m) \in 1..Len(queue)
          /\ queue[at(k)] = queue[at(m)]
      BY <2>4, <2>8, <3>1
    <3>3. at(k) = at(m)
      BY <3>2 DEF QueueLinked
    <3> QED
      BY <2>5, <3>1, <3>3
  <2> QED
    BY <1>2, <2>3, <2>7, <2>8 DEF JobLeft, QueueKept, QueueLinked, Shape
<1>3. CASE job[j] \in Holding /\ Release(j, "joined")
  BY <1>3, ReleaseEffect
<1> QED
  BY <1>1, <1>2, <1>3 DEF Leave

(***************************************************************************)
(* What the end of an embed does to the engine and to the others.          *)
(***************************************************************************)
EngineKept ==
  /\ phase' \in {"boot", "backoff", "ready", "failed"}
  /\ embed' \in [Embeds -> EmbedState]
  /\ failure' \in Failures \cup {"none"}
  /\ aborted' \subseteq Jobs
  /\ Backoff'
  /\ \A e \in Embeds, k \in Nat : Ahead(e, k)' => Ahead(e, k)

(* A failed embed moves the boot or its classification on, and what it      *)
(* aborts are jobs of its own.                                              *)
LEMMA FailEffect ==
  ASSUME Shape, Backoff, NEW e \in Embeds, NEW f \in Failures, Fail(e, f), attempt' = attempt
  PROVE  EngineKept
<1>1. aborted' \subseteq Jobs
  BY DEF Fail, Abandon, Unfinished, Current, Shape
<1>2. CASE e \in Calls /\ embed' = [embed EXCEPT ![e] = "failed"] /\ UNCHANGED <<phase, failure>>
  BY <1>1, <1>2, EmbeddingAssumption DEF EngineKept, Shape, Backoff, Ahead, Attempt, Embeds
<1>3. CASE /\ e = Anchors /\ attempt < MaxAttempts /\ embed' = [embed EXCEPT ![e] = "idle"]
           /\ phase' = "backoff" /\ failure' = f
  BY <1>1, <1>3 DEF EngineKept, Shape, Backoff, Ahead, Attempt
<1>4. CASE /\ e = Anchors /\ embed' = [embed EXCEPT ![e] = "failed"]
           /\ phase' = "failed" /\ failure' = f
  BY <1>1, <1>4 DEF EngineKept, Shape, Backoff, Ahead, Attempt
<1> QED
  BY <1>2, <1>3, <1>4 DEF Fail

(* So does an embed that has all its vectors, which aborts nothing.         *)
LEMMA SucceedEffect ==
  ASSUME Shape, Backoff, NEW e \in Embeds, Succeed(e), attempt' = attempt
  PROVE  EngineKept
BY EmbeddingAssumption DEF Succeed, EngineKept, Shape, Backoff, Ahead, Attempt, Embeds

(* A step in which an embed ends, or a job goes on, keeps the invariant. *)
JobsGoOn ==
  /\ job' \in [Jobs -> JobState]
  /\ \A j \in Jobs : job[j] = "none" => job'[j] = "none"

(* A step in the same attempt keeps the shape when it keeps each of its     *)
(* parts.                                                                   *)
LEMMA ShapeKept ==
  ASSUME ShapeInv, EngineKept, JobsGoOn, QueueKept, UNCHANGED <<flavor, attempt>>
  PROVE  ShapeInv'
<1>1. Fresh'
  BY JobParts DEF ShapeInv, EngineKept, JobsGoOn, Fresh
<1> QED
  BY <1>1 DEF ShapeInv, Shape, EngineKept, JobsGoOn, QueueKept

(* A step that leaves the boot and the embeds alone keeps their part.       *)
LEMMA EngineIdle ==
  ASSUME ShapeInv, UNCHANGED <<phase, attempt, embed, failure, aborted>>
  PROVE  EngineKept
BY DEF ShapeInv, Shape, EngineKept, Backoff, Ahead, Attempt

(* A step that leaves the semaphore and those who wait for it alone keeps   *)
(* the queue's part.                                                        *)
LEMMA QueueIdle ==
  ASSUME ShapeInv, UNCHANGED semaphore, \A k \in Jobs : job[k] = "queued" => job'[k] = "queued"
  PROVE  QueueKept
<1>1. \A i \in 1..Len(queue) : queue[i] \in Jobs
  BY DEF ShapeInv, Shape
<1> QED
  BY <1>1 DEF ShapeInv, Shape, semaphore, QueueKept, QueueLinked

----------------------------------------------------------------------------
(***************************************************************************)
(* Every step keeps the shape: one step of the proof per action.           *)
(***************************************************************************)
LEMMA ShapeStep ==
  ASSUME ShapeInv, [Next]_vars
  PROVE  ShapeInv'
<1>0. Shape /\ QueueLinked /\ Backoff /\ Fresh
  BY DEF ShapeInv
<1>1. ASSUME NEW e \in Embeds, Begin(e)
      PROVE  ShapeInv'
  <2>1. EngineKept
    BY <1>0, <1>1 DEF Begin, EngineKept, Shape, Backoff, Ahead, Attempt
  <2>2. CASE FanOut
    <3>1. JobsGoOn /\ job' = job /\ UNCHANGED semaphore
      BY <1>0, <1>1, <2>2 DEF Begin, JobsGoOn, Shape
    <3> QED
      BY <1>1, <2>1, <3>1, QueueIdle, ShapeKept DEF Begin
  <2>3. CASE ~FanOut
    <3> DEFINE j == <<e, Attempt(e), 0>>
    <3>1. j \in Jobs /\ j[1] = e /\ j[2] = Attempt(e)
      <4>1. 0 <= TextCount[e]
        BY EmbeddingAssumption
      <4> QED
        BY <1>0, <4>1, JobParts DEF Shape
    <3>2. job' = [job EXCEPT ![j] = "spawned"] /\ UNCHANGED semaphore
      BY <1>1, <2>3 DEF Begin
    <3>3. embed' = [embed EXCEPT ![e] = "jobs"] /\ UNCHANGED <<flavor, phase, attempt>>
      BY <1>1, <2>3 DEF Begin
    <3>4. Ahead(e, Attempt(e))
      BY <1>0, <1>1 DEF Begin, Ahead
    <3>5. job[j] = "none"
      BY <1>0, <3>1, <3>4 DEF Fresh
    <3> HIDE DEF j
    <3>6. QueueKept
      BY <1>0, <3>1, <3>2, <3>5, QueueIdle DEF Shape
    <3>7. \A k \in Jobs : Ahead(k[1], k[2])' => k # j /\ Ahead(k[1], k[2])
      <4>1. ~Ahead(e, Attempt(e))'
        BY <1>0, <3>3 DEF Ahead, Attempt, Shape
      <4>2. Attempt(e)' = Attempt(e)
        BY <3>3 DEF Attempt
      <4> QED
        BY <2>1, <3>1, <4>1, <4>2, JobParts DEF EngineKept
    <3>8. Fresh'
      BY <1>0, <3>2, <3>7 DEF Fresh, Shape
    <3> QED
      BY <1>0, <1>1, <2>1, <3>1, <3>2, <3>6, <3>8
         DEF Begin, ShapeInv, Shape, EngineKept, QueueKept
  <2> QED
    BY <2>2, <2>3
<1>2. ASSUME NEW e \in Embeds, Fetched(e)
      PROVE  ShapeInv'
  <2>1. /\ embed[e] = "token" /\ embed' = [embed EXCEPT ![e] = "jobs"]
        /\ UNCHANGED <<flavor, phase, attempt, failure, aborted>> /\ UNCHANGED semaphore
        /\ job' = [j \in Jobs |-> IF j \in Current(e) /\ j[3] # 0 THEN "spawned" ELSE job[j]]
    BY <1>2 DEF Fetched
  <2>2. EngineKept
    BY <1>0, <2>1 DEF EngineKept, Shape, Backoff, Ahead, Attempt
  <2>3. \A j \in Current(e) : job[j] = "none"
    BY <1>0, <2>1 DEF Current, Fresh, Ahead, Backoff
  <2>4. QueueKept
    BY <1>0, <2>1, <2>3, QueueIdle DEF Shape
  <2>5. ~Ahead(e, Attempt(e))' /\ Attempt(e)' = Attempt(e)
    BY <1>0, <2>1 DEF Ahead, Attempt, Shape
  <2>6. \A j \in Jobs : Ahead(j[1], j[2])' => j \notin Current(e) /\ Ahead(j[1], j[2])
    BY <2>2, <2>5, JobParts DEF EngineKept, Current
  <2>7. Fresh'
    BY <1>0, <2>1, <2>6 DEF Fresh, Shape
  <2>8. job' \in [Jobs -> JobState]
    BY <1>0, <2>1 DEF Shape
  <2> QED
    BY <1>0, <2>1, <2>2, <2>4, <2>7, <2>8 DEF ShapeInv, Shape, EngineKept, QueueKept
<1>3. ASSUME NEW e \in Embeds, FetchFails(e)
      PROVE  ShapeInv'
  <2>1. EngineKept
    BY <1>0, <1>3, FailEffect DEF FetchFails
  <2> QED
    BY <1>0, <1>3, <2>1, QueueIdle, ShapeKept DEF FetchFails, JobsGoOn, Shape
<1>4. ASSUME NEW j \in Jobs, Acquire(j)
      PROVE  ShapeInv'
  <2>1. EngineKept
    BY <1>4, EngineIdle DEF Acquire
  <2>2. CASE permits > 0 /\ permits' = permits - 1 /\ job' = [job EXCEPT ![j] = "granted"]
             /\ UNCHANGED queue
    <3>1. job[j] = "spawned" /\ \A i \in 1..Len(queue) : queue[i] \in Jobs
      BY <1>0, <1>4 DEF Acquire, Shape
    <3>2. QueueKept
      BY <1>0, <2>2, <3>1 DEF QueueKept, QueueLinked, Shape
    <3> QED
      BY <1>0, <1>4, <2>1, <2>2, <3>1, <3>2, ShapeKept DEF Acquire, JobsGoOn, Shape
  <2>3. CASE queue' = Append(queue, j) /\ job' = [job EXCEPT ![j] = "queued"]
             /\ UNCHANGED permits
    <3>1. job[j] = "spawned" /\ \A i \in 1..Len(queue) : queue[i] \in Jobs
      BY <1>0, <1>4 DEF Acquire, Shape
    <3>2. /\ Len(queue) \in Nat /\ queue' \in Seq(Jobs) /\ Len(queue') = Len(queue) + 1
          /\ \A i \in 1..Len(queue) : queue'[i] = queue[i]
          /\ queue'[Len(queue) + 1] = j
      BY <1>0, <2>3 DEF Shape
    <3>3. \A i \in 1..Len(queue) : queue[i] # j
      BY <1>0, <3>1 DEF QueueLinked
    <3>4. \A i \in 1..Len(queue') : i \in 1..Len(queue) \/ i = Len(queue) + 1
      BY <3>2
    <3>5. \A i \in 1..Len(queue') : job'[queue'[i]] = "queued"
      BY <1>0, <2>3, <3>1, <3>2, <3>3, <3>4 DEF QueueLinked, Shape
    <3>6. \A i, k \in 1..Len(queue') : queue'[i] = queue'[k] => i = k
      BY <1>0, <3>2, <3>3, <3>4 DEF QueueLinked
    <3>7. QueueKept
      BY <1>0, <2>3, <3>2, <3>5, <3>6 DEF QueueKept, QueueLinked, Shape
    <3> QED
      BY <1>0, <1>4, <2>1, <2>3, <3>1, <3>7, ShapeKept DEF Acquire, JobsGoOn, Shape
  <2> QED
    BY <1>4, <2>2, <2>3 DEF Acquire
<1>5. ASSUME NEW j \in Jobs, Send(j)
      PROVE  ShapeInv'
  <2>1. EngineKept
    BY <1>5, EngineIdle DEF Send
  <2>2. QueueKept
    BY <1>0, <1>5, QueueIdle DEF Send, Shape
  <2> QED
    BY <1>0, <1>5, <2>1, <2>2, ShapeKept DEF Send, JobsGoOn, Shape
<1>6. ASSUME NEW j \in Jobs, TokenFails(j)
      PROVE  ShapeInv'
  <2>1. EngineKept
    BY <1>0, <1>6, FailEffect, JobParts DEF TokenFails
  <2>2. JobLeft(j, "joined") /\ QueueKept
    BY <1>0, <1>6, ReleaseEffect DEF TokenFails
  <2>3. JobsGoOn
    BY <1>6, <2>2 DEF JobsGoOn, JobLeft, TokenFails
  <2> QED
    BY <1>6, <2>1, <2>2, <2>3, ShapeKept DEF TokenFails
<1>7. ASSUME NEW j \in Jobs, NEW outcome \in Outcomes, Answer(j, outcome)
      PROVE  ShapeInv'
  <2>1. EngineKept
    BY <1>0, <1>7, FailEffect, SucceedEffect, EngineIdle, JobParts DEF Answer
  <2>2. PICK s \in {"joined", outcome} : Release(j, s)
    BY <1>7 DEF Answer
  <2>3. JobLeft(j, s) /\ QueueKept
    BY <1>0, <1>7, <2>2, ReleaseEffect DEF Answer
  <2>4. JobsGoOn
    BY <1>7, <2>3 DEF JobsGoOn, JobLeft, Answer
  <2> QED
    BY <1>7, <2>1, <2>3, <2>4, ShapeKept DEF Answer
<1>8. ASSUME NEW j \in Jobs, Join(j)
      PROVE  ShapeInv'
  <2>1. EngineKept
    BY <1>0, <1>8, SucceedEffect, EngineIdle, JobParts DEF Join
  <2>2. QueueKept
    BY <1>0, <1>8, QueueIdle DEF Join, Shape
  <2> QED
    BY <1>0, <1>8, <2>1, <2>2, ShapeKept DEF Join, JobsGoOn, Shape
<1>9. ASSUME NEW j \in Jobs, JoinFails(j)
      PROVE  ShapeInv'
  <2>1. EngineKept
    BY <1>0, <1>9, FailEffect, JobParts DEF JoinFails
  <2>2. QueueKept
    BY <1>0, <1>9, QueueIdle DEF JoinFails, Discarded, Shape
  <2> QED
    BY <1>0, <1>9, <2>1, <2>2, ShapeKept DEF JoinFails, Discarded, JobsGoOn, Shape
<1>10. ASSUME NEW j \in Jobs, Reap(j)
       PROVE  ShapeInv'
  <2>1. EngineKept
    BY <1>10, EngineIdle DEF Reap
  <2>2. JobLeft(j, "joined") /\ QueueKept /\ job[j] # "none"
    BY <1>0, <1>10, LeaveEffect DEF Reap
  <2>3. JobsGoOn
    BY <2>2 DEF JobsGoOn, JobLeft
  <2> QED
    BY <1>10, <2>1, <2>2, <2>3, ShapeKept DEF Reap
<1>11. ASSUME NEW c \in Calls, Drop(c)
       PROVE  ShapeInv'
  <2>1. c \in Embeds /\ c # Anchors /\ aborted' \subseteq Jobs
    BY <1>0, <1>11, EmbeddingAssumption DEF Drop, Abandon, Unfinished, Current, Shape, Embeds
  <2>2. EngineKept
    BY <1>0, <1>11, <2>1 DEF Drop, EngineKept, Shape, Backoff, Ahead, Attempt
  <2>3. CASE FanOut
    <3>1. job' = Discarded(c) /\ UNCHANGED semaphore
      BY <1>11, <2>3 DEF Drop
    <3>2. QueueKept
      BY <1>0, <3>1, QueueIdle DEF Discarded, Shape
    <3> QED
      BY <1>0, <1>11, <2>2, <3>1, <3>2, ShapeKept DEF Drop, Discarded, JobsGoOn, Shape
  <2>4. CASE ~FanOut
    <3> DEFINE j == <<c, 1, 0>>
    <3>1. j \in Jobs
      <4>1. 0 <= TextCount[c] /\ Attempt(c) = 1
        BY <2>1, EmbeddingAssumption DEF Attempt
      <4> QED
        BY <1>0, <2>1, <4>1, JobParts DEF Shape
    <3>2. Leave(j)
      BY <1>11, <2>4 DEF Drop
    <3> HIDE DEF j
    <3>3. JobLeft(j, "joined") /\ QueueKept /\ job[j] # "none"
      BY <1>0, <3>1, <3>2, LeaveEffect
    <3>4. JobsGoOn
      BY <3>3 DEF JobsGoOn, JobLeft
    <3> QED
      BY <1>11, <2>2, <3>3, <3>4, ShapeKept DEF Drop
  <2> QED
    BY <2>3, <2>4
<1>12. CASE Retry
  <2>1. /\ attempt' = attempt + 1 /\ attempt' \in 1..MaxAttempts /\ phase' = "boot"
        /\ UNCHANGED <<flavor, embed, failure, job, aborted>> /\ UNCHANGED semaphore
    BY <1>0, <1>12, EmbeddingAssumption DEF Retry, Shape, Backoff
  <2>2. QueueKept
    BY <2>1, QueueIdle
  <2>3. \A e \in Embeds, k \in Nat : Ahead(e, k)' => Ahead(e, k)
    BY <1>0, <1>12, <2>1 DEF Retry, Ahead, Attempt, Shape
  <2>4. Fresh'
    BY <1>0, <2>1, <2>3, JobParts DEF Fresh
  <2> QED
    BY <1>0, <2>1, <2>2, <2>4 DEF ShapeInv, Shape, QueueKept, Backoff
<1>13. CASE UNCHANGED vars
  <2>1. EngineKept /\ QueueKept /\ JobsGoOn
    BY <1>0, <1>13, EngineIdle, QueueIdle DEF vars, semaphore, JobsGoOn, Shape
  <2> QED
    BY <1>13, <2>1, ShapeKept DEF vars
<1> QED
  BY <1>1, <1>2, <1>3, <1>4, <1>5, <1>6, <1>7, <1>8, <1>9, <1>10, <1>11, <1>12, <1>13
     DEF Next

(* The queue of the semaphore is exactly the waiting jobs, and the state of *)
(* the boot fits the state of its jobs, in every state of the engine.       *)
THEOREM ShapeAlways == Spec => []ShapeInv
<1>1. Init => ShapeInv
  BY ShapeInit
<1>2. ShapeInv /\ [Next]_vars => ShapeInv'
  BY ShapeStep
<1> QED
  BY <1>1, <1>2, PTL DEF Spec

----------------------------------------------------------------------------
(***************************************************************************)
(* The permits.  What a step can do to them, their owners and the line.    *)
(***************************************************************************)
Enters(j) ==
  /\ job[j] = "spawned" /\ permits > 0
  /\ permits' = permits - 1 /\ Holders' = Holders \cup {j} /\ queue' = queue

Waits(j) ==
  /\ job[j] = "spawned" /\ permits = 0
  /\ permits' = permits /\ Holders' = Holders /\ queue' = Append(queue, j)

Withdraws(j) ==
  /\ \E i \in DOMAIN queue : queue[i] = j /\ queue' = RemoveAt(queue, i)
  /\ permits' = permits /\ Holders' = Holders

Frees(j) ==
  /\ j \in Holders /\ queue = <<>>
  /\ permits' = permits + 1 /\ Holders' = Holders \ {j} /\ queue' = queue

HandsOn(j) ==
  /\ j \in Holders /\ queue # <<>> /\ Head(queue) \notin Holders
  /\ permits' = permits /\ queue' = Tail(queue)
  /\ Holders' = (Holders \ {j}) \cup {Head(queue)}

PermitMove(j) == Enters(j) \/ Waits(j) \/ Withdraws(j) \/ Frees(j) \/ HandsOn(j)

NoPermitMove == permits' = permits /\ Holders' = Holders /\ queue' = queue

(* A release frees one permit or moves it to one other job.                 *)
LEMMA ReleaseMoves ==
  ASSUME ShapeInv, NEW j \in Holders, NEW s \in JobState \ Holding, Release(j, s)
  PROVE  PermitMove(j)
<1>1. CASE queue = <<>>
  <2>1. Holders' = Holders \ {j}
    BY <1>1 DEF Release, Holders, ShapeInv, Shape
  <2> QED
    BY <1>1, <2>1 DEF Release, PermitMove, Frees
<1>2. CASE queue # <<>>
  <2>1. /\ permits' = permits /\ queue' = Tail(queue)
        /\ job' = [job EXCEPT ![j] = s, ![Head(queue)] = "granted"]
    BY <1>2 DEF Release
  <2>2. Head(queue) \in Jobs /\ job[Head(queue)] = "queued"
    BY <1>2 DEF ShapeInv, Shape, QueueLinked
  <2>3. Holders' = (Holders \ {j}) \cup {Head(queue)}
    BY <2>1, <2>2 DEF Holders, ShapeInv, Shape
  <2> QED
    BY <1>2, <2>1, <2>2, <2>3 DEF PermitMove, HandsOn, Holders
<1> QED
  BY <1>1, <1>2

(* A drop does the same if the job held a permit, and moves none if it did  *)
(* not.                                                                     *)
LEMMA LeaveMoves ==
  ASSUME ShapeInv, NEW j \in Jobs, Leave(j)
  PROVE  NoPermitMove \/ PermitMove(j)
<1>1. CASE job[j] = "spawned" /\ job' = [job EXCEPT ![j] = "joined"] /\ UNCHANGED semaphore
  BY <1>1 DEF semaphore, NoPermitMove, Holders, ShapeInv, Shape
<1>2. CASE /\ job[j] = "queued" /\ job' = [job EXCEPT ![j] = "joined"] /\ UNCHANGED permits
           /\ \E i \in DOMAIN queue : queue[i] = j /\ queue' = RemoveAt(queue, i)
  <2>1. Holders' = Holders
    BY <1>2 DEF Holders, ShapeInv, Shape
  <2> QED
    BY <1>2, <2>1 DEF PermitMove, Withdraws
<1>3. CASE job[j] \in Holding /\ Release(j, "joined")
  BY <1>3, ReleaseMoves DEF Holders
<1> QED
  BY <1>1, <1>2, <1>3 DEF Leave

(* No step moves more than one permit.                                      *)
LEMMA PermitMoves ==
  ASSUME ShapeInv, [Next]_vars
  PROVE  NoPermitMove \/ \E j \in Jobs : PermitMove(j)
<1>0. Shape /\ Fresh /\ Backoff
  BY DEF ShapeInv
<1>1. ASSUME NEW e \in Embeds, Begin(e) \/ Fetched(e)
      PROVE  NoPermitMove
  <2>1. /\ \A j \in Jobs : job'[j] = job[j] \/ (job[j] = "none" /\ job'[j] = "spawned")
        /\ UNCHANGED semaphore
    <3>1. CASE Begin(e)
      <4>1. Ahead(e, Attempt(e)) /\ <<e, Attempt(e), 0>> \in Jobs
        <5>1. 0 <= TextCount[e]
          BY EmbeddingAssumption
        <5> QED
          BY <1>0, <3>1, <5>1, JobParts DEF Begin, Ahead, Shape
      <4>2. job[<<e, Attempt(e), 0>>] = "none"
        BY <1>0, <4>1 DEF Fresh
      <4> QED
        BY <1>0, <3>1, <4>1, <4>2 DEF Begin, Shape
    <3>2. CASE Fetched(e)
      <4>1. \A j \in Current(e) : job[j] = "none"
        BY <1>0, <3>2 DEF Fetched, Current, Fresh, Ahead, Backoff
      <4> QED
        BY <3>2, <4>1 DEF Fetched
    <3> QED
      BY <1>1, <3>1, <3>2
  <2> QED
    BY <2>1 DEF semaphore, NoPermitMove, Holders
<1>2. ASSUME NEW e \in Embeds, FetchFails(e)
      PROVE  NoPermitMove
  BY <1>2 DEF FetchFails, semaphore, NoPermitMove, Holders
<1>3. ASSUME NEW j \in Jobs, Acquire(j)
      PROVE  PermitMove(j)
  <2>1. CASE permits > 0 /\ permits' = permits - 1 /\ job' = [job EXCEPT ![j] = "granted"]
             /\ UNCHANGED queue
    <3>1. Holders' = Holders \cup {j}
      BY <1>0, <2>1 DEF Holders, Shape
    <3> QED
      BY <1>3, <2>1, <3>1 DEF Acquire, PermitMove, Enters
  <2>2. CASE permits = 0 /\ queue' = Append(queue, j) /\ job' = [job EXCEPT ![j] = "queued"]
             /\ UNCHANGED permits
    <3>1. Holders' = Holders
      BY <1>0, <1>3, <2>2 DEF Acquire, Holders, Shape
    <3> QED
      BY <1>3, <2>2, <3>1 DEF Acquire, PermitMove, Waits
  <2> QED
    BY <1>3, <2>1, <2>2 DEF Acquire
<1>4. ASSUME NEW j \in Jobs, Send(j) \/ Join(j)
      PROVE  NoPermitMove
  BY <1>0, <1>4 DEF Send, Join, semaphore, NoPermitMove, Holders, Shape
<1>5. ASSUME NEW j \in Jobs, TokenFails(j)
      PROVE  PermitMove(j)
  BY <1>5, ReleaseMoves DEF TokenFails, Holders
<1>6. ASSUME NEW j \in Jobs, NEW outcome \in Outcomes, Answer(j, outcome)
      PROVE  PermitMove(j)
  <2>1. PICK s \in {"joined", outcome} : Release(j, s)
    BY <1>6 DEF Answer
  <2> QED
    BY <1>6, <2>1, ReleaseMoves DEF Answer, Holders
<1>7. ASSUME NEW j \in Jobs, JoinFails(j)
      PROVE  NoPermitMove
  BY <1>0, <1>7 DEF JoinFails, Discarded, semaphore, NoPermitMove, Holders, Shape
<1>8. ASSUME NEW j \in Jobs, Reap(j)
      PROVE  NoPermitMove \/ PermitMove(j)
  BY <1>8, LeaveMoves DEF Reap
<1>9. ASSUME NEW c \in Calls, Drop(c)
      PROVE  NoPermitMove \/ \E j \in Jobs : PermitMove(j)
  <2>1. CASE FanOut
    BY <1>0, <1>9, <2>1 DEF Drop, Discarded, semaphore, NoPermitMove, Holders, Shape
  <2>2. CASE ~FanOut
    <3>1. <<c, 1, 0>> \in Jobs
      <4>1. c \in Embeds /\ Attempt(c) = 1 /\ 0 <= TextCount[c]
        BY EmbeddingAssumption DEF Attempt, Embeds
      <4> QED
        BY <1>0, <4>1, JobParts DEF Shape
    <3> QED
      BY <1>9, <2>2, <3>1, LeaveMoves DEF Drop
  <2> QED
    BY <2>1, <2>2
<1>10. CASE Retry \/ UNCHANGED vars
  BY <1>10 DEF Retry, vars, semaphore, NoPermitMove, Holders
<1> QED
  BY <1>1, <1>2, <1>3, <1>4, <1>5, <1>6, <1>7, <1>8, <1>9, <1>10 DEF Next

(* The permits, with what their number needs: finitely many own one. *)
PermitsInv == IsFiniteSet(Holders) /\ PermitsConserved

(* No step loses a permit or makes one.                                     *)
LEMMA PermitsStep ==
  ASSUME ShapeInv, PermitsInv, [Next]_vars
  PROVE  PermitsInv'
<1>0. /\ permits + Cardinality(Holders) = MaxPermits /\ permits \in Nat
      /\ IsFiniteSet(Holders) /\ Cardinality(Holders) \in Nat
  BY FS_CardinalityType DEF PermitsInv, PermitsConserved, ShapeInv, Shape
<1>1. CASE NoPermitMove
  BY <1>0, <1>1 DEF NoPermitMove, PermitsInv, PermitsConserved
<1>2. ASSUME NEW j \in Jobs, Enters(j)
      PROVE  PermitsInv'
  <2>1. j \notin Holders
    BY <1>2 DEF Enters, Holders
  <2>2. /\ IsFiniteSet(Holders \cup {j})
        /\ Cardinality(Holders \cup {j}) = Cardinality(Holders) + 1
    BY <1>0, <2>1, FS_AddElement
  <2> QED
    BY <1>0, <1>2, <2>2 DEF Enters, PermitsInv, PermitsConserved
<1>3. ASSUME NEW j \in Jobs, Waits(j) \/ Withdraws(j)
      PROVE  PermitsInv'
  BY <1>0, <1>3 DEF Waits, Withdraws, PermitsInv, PermitsConserved
<1>4. ASSUME NEW j \in Jobs, Frees(j) \/ HandsOn(j)
      PROVE  PermitsInv'
  <2>1. j \in Holders
    BY <1>4 DEF Frees, HandsOn
  <2>2. IsFiniteSet(Holders \ {j}) /\ Cardinality(Holders \ {j}) = Cardinality(Holders) - 1
    BY <1>0, <2>1, FS_RemoveElement
  <2>3. CASE Frees(j)
    BY <1>0, <2>2, <2>3 DEF Frees, PermitsInv, PermitsConserved
  <2>4. CASE HandsOn(j)
    <3> DEFINE next == Head(queue)
    <3>1. next \notin Holders /\ Holders' = (Holders \ {j}) \cup {next} /\ permits' = permits
      BY <2>4 DEF HandsOn
    <3> HIDE DEF next
    <3>2. /\ IsFiniteSet((Holders \ {j}) \cup {next})
          /\ Cardinality((Holders \ {j}) \cup {next}) = Cardinality(Holders \ {j}) + 1
      BY <2>2, <3>1, FS_AddElement
    <3> QED
      BY <1>0, <2>2, <3>1, <3>2 DEF PermitsInv, PermitsConserved
  <2> QED
    BY <1>4, <2>3, <2>4
<1> QED
  BY <1>1, <1>2, <1>3, <1>4, PermitMoves DEF PermitMove

(* Permits are conserved, and none is free while a job waits.               *)
THEOREM PermitsAlways == Spec => []PermitsInv
<1>1. Init => PermitsInv
  <2> SUFFICES ASSUME Init PROVE PermitsInv
    OBVIOUS
  <2>1. Holders = {} /\ permits = MaxPermits /\ MaxPermits \in Nat
    BY EmbeddingAssumption DEF Init, Holders
  <2>2. IsFiniteSet(Holders) /\ Cardinality(Holders) = 0
    BY <2>1, FS_EmptySet
  <2> QED
    BY <2>1, <2>2 DEF PermitsInv, PermitsConserved
<1>2. ShapeInv /\ PermitsInv /\ [Next]_vars => PermitsInv'
  BY PermitsStep
<1> QED
  BY <1>1, <1>2, ShapeAlways, PTL DEF Spec

(***************************************************************************)
(* "Bounds concurrent in-flight embedding requests" (`limiter`): no task   *)
(* that is aborted, dropped or retried takes a permit with it, or gives it *)
(* back twice.                                                             *)
(***************************************************************************)
THEOREM PermitsAlwaysConserved == Spec => []PermitsConserved
<1>1. PermitsInv => PermitsConserved
  BY DEF PermitsInv
<1> QED
  BY <1>1, PermitsAlways, PTL

----------------------------------------------------------------------------
(***************************************************************************)
(* The transports implement Admission: each step is one of its steps under *)
(* the mapping line <- queue, served <- Holders, Slots <- MaxPermits, or   *)
(* changes neither.                                                        *)
(***************************************************************************)
LEMMA AdmissionStep ==
  ASSUME ShapeInv, PermitsInv, [Next]_vars
  PROVE  [Promise!Next]_(Promise!avars)
<1>0. /\ permits + Cardinality(Holders) = MaxPermits /\ permits \in Nat
      /\ IsFiniteSet(Holders) /\ Cardinality(Holders) \in Nat
  BY FS_CardinalityType DEF PermitsInv, PermitsConserved, ShapeInv, Shape
<1>1. CASE NoPermitMove
  BY <1>1 DEF NoPermitMove, Promise!avars
<1>2. ASSUME NEW j \in Jobs, job[j] = "spawned"
      PROVE  ~Promise!InLine(j) /\ j \notin Holders
  BY <1>2 DEF Promise!InLine, QueueLinked, ShapeInv, Shape, Holders
<1>3. Promise!Cardinality(Holders) = Cardinality(Holders)
  BY DEF Promise!Cardinality, Cardinality
<1>4. ASSUME NEW j \in Jobs, Enters(j)
      PROVE  Promise!Arrive(j)
  BY <1>0, <1>2, <1>4, <1>3 DEF Enters, Promise!Arrive
<1>5. ASSUME NEW j \in Jobs, Waits(j)
      PROVE  Promise!Arrive(j)
  BY <1>0, <1>2, <1>5, <1>3 DEF Waits, Promise!Arrive
<1>6. ASSUME NEW j \in Jobs, Withdraws(j)
      PROVE  Promise!GiveUp(j)
  BY <1>6 DEF Withdraws, Promise!GiveUp, RemoveAt, Promise!RemoveAt
<1>7. ASSUME NEW j \in Jobs, Frees(j) \/ HandsOn(j)
      PROVE  Promise!Leave(j)
  BY <1>7 DEF Frees, HandsOn, Promise!Leave
<1> QED
  BY <1>1, <1>4, <1>5, <1>6, <1>7, PermitMoves DEF PermitMove, Promise!Next

(* The three transports implement the first-come, first-served service of   *)
(* Admission, aborted tasks and retried attempts included: embed_texts with *)
(* its semaphore and its fan-out (vertex/mod.rs, gemini/mod.rs).            *)
THEOREM TransportsImplementAdmission == Spec => ImplementsAdmission
<1>1. Init => Promise!Init
  BY DEF Init, Promise!Init, Holders
<1>2. ShapeInv /\ PermitsInv /\ [Next]_vars => [Promise!Next]_(Promise!avars)
  BY AdmissionStep
<1> QED
  BY <1>1, <1>2, ShapeAlways, PermitsAlways, PTL DEF Spec, ImplementsAdmission, Promise!Safety

----------------------------------------------------------------------------
(***************************************************************************)
(* The vectors.  Of the fan-out, every text of the current attempt has its *)
(* vector in its place or a task that is not joined yet (Covered); for     *)
(* that, no task of a live attempt may be aborted (LiveNotAborted).  Of a  *)
(* batch, the only job that is about is the one of the current attempt of  *)
(* an embed that waits for it (OneBatch).                                  *)
(***************************************************************************)
OutShape ==
  /\ out = [e \in Embeds |-> out[e]]
  /\ \A e \in Embeds : out[e] = [i \in 1..TextCount[e] |-> out[e][i]]

OneBatch ==
  /\ \A e \in Embeds : ~FanOut => embed[e] # "token"
  /\ \A j \in Jobs : ~FanOut /\ job[j] \notin {"none", "joined"} =>
       embed[j[1]] = "jobs" /\ j[2] = Attempt(j[1]) /\ j[3] = 0

LiveNotAborted ==
  \A j \in aborted :
    /\ job[j] # "none"
    /\ FanOut /\ embed[j[1]] = "jobs" => j[2] # Attempt(j[1])

InPlace(e, i) == out[e][i] = <<Attempt(e), i>>

Covered ==
  \A e \in Embeds : FanOut /\ embed[e] = "jobs" =>
    \A i \in 1..TextCount[e] :
      InPlace(e, i) \/ job[<<e, Attempt(e), i>>] \notin {"none", "joined"}

Complete == \A e \in Embeds : embed[e] = "ok" => \A i \in 1..TextCount[e] : InPlace(e, i)

ReadyHasAnchors == phase = "ready" => embed[Anchors] = "ok"

VectorInv ==
  OutShape /\ OneBatch /\ LiveNotAborted /\ Covered /\ Complete /\ ReadyHasAnchors

(* Before the first attempt nothing is joined.                              *)
LEMMA VectorInit == Init => VectorInv
<1> SUFFICES ASSUME Init PROVE VectorInv
  OBVIOUS
<1> QED
  BY EmbeddingAssumption
     DEF Init, VectorInv, OutShape, OneBatch, LiveNotAborted, Covered, Complete,
         ReadyHasAnchors, NoVectors

(* The vectors of an embed are replaced. *)
LEMMA OutReplaced ==
  ASSUME OutShape, NEW e \in Embeds, NEW v, v = [i \in 1..TextCount[e] |-> v[i]],
         out' = [out EXCEPT ![e] = v]
  PROVE  /\ OutShape' /\ out'[e] = v
         /\ \A d \in Embeds \ {e} : out'[d] = out[d]
<1>1. out' = [d \in Embeds |-> IF d = e THEN v ELSE out[d]]
  BY DEF OutShape
<1> QED
  BY <1>1 DEF OutShape

(* Of a batch's embed, no other job is about. *)
LEMMA OneJob ==
  ASSUME OneBatch, ~FanOut, NEW j \in Jobs, job[j] \notin {"none", "joined"},
         NEW k \in Jobs, k[1] = j[1], k # j
  PROVE  job[k] \in {"none", "joined"}
<1> SUFFICES ASSUME job[k] \notin {"none", "joined"} PROVE FALSE
  OBVIOUS
<1>1. k[2] = j[2] /\ k[3] = j[3]
  BY DEF OneBatch
<1>2. j = <<j[1], j[2], j[3]>> /\ k = <<k[1], k[2], k[3]>>
  BY JobParts
<1> QED
  BY <1>1, <1>2

(* No job is done, or undone, that had not begun. *)
SameBegun == \A k \in Jobs : job[k] = "none" <=> job'[k] = "none"

(* Jobs go on while no embed ends: only aborted ones leave for good. *)
LEMMA WorkKept ==
  ASSUME ShapeInv, VectorInv, UNCHANGED <<flavor, phase, attempt, embed, out, aborted>>,
         SameBegun,
         \A k \in Jobs : job[k] = "joined" => job'[k] = "joined",
         \A k \in Jobs : FanOut /\ job'[k] = "joined" => job[k] = "joined" \/ k \in aborted
  PROVE  VectorInv'
<1>1. FanOut' = FanOut /\ \A e \in Embeds : Attempt(e)' = Attempt(e)
  BY DEF FanOut, Attempt
<1>2. OutShape' /\ Complete' /\ ReadyHasAnchors'
  BY <1>1 DEF VectorInv, OutShape, Complete, ReadyHasAnchors, InPlace
<1>3. OneBatch'
  BY <1>1, JobParts DEF VectorInv, OneBatch, SameBegun
<1>4. LiveNotAborted'
  BY <1>1, JobParts DEF VectorInv, LiveNotAborted, SameBegun, ShapeInv, Shape
<1>5. Covered'
  <2> SUFFICES ASSUME NEW e \in Embeds, FanOut, embed[e] = "jobs", NEW i \in 1..TextCount[e],
                      ~InPlace(e, i)
               PROVE  job'[<<e, Attempt(e), i>>] \notin {"none", "joined"}
    BY <1>1 DEF Covered, InPlace
  <2> DEFINE k == <<e, Attempt(e), i>>
  <2>1. k \in Jobs /\ k[1] = e /\ k[2] = Attempt(e)
    BY JobParts, EmbeddingAssumption DEF ShapeInv, Shape
  <2>2. job[k] \notin {"none", "joined"}
    BY DEF VectorInv, Covered
  <2>3. k \notin aborted
    BY <2>1 DEF VectorInv, LiveNotAborted
  <2> HIDE DEF k
  <2>4. job'[k] \notin {"none", "joined"}
    BY <2>1, <2>2, <2>3 DEF SameBegun
  <2> QED
    BY <2>4 DEF k
<1> QED
  BY <1>2, <1>3, <1>4, <1>5 DEF VectorInv

(* An embed ends without its vectors: what is left of it is aborted, or was *)
(* its only job.                                                           *)
LEMMA OverKept ==
  ASSUME ShapeInv, VectorInv, NEW e \in Embeds, NEW s \in {"idle", "failed", "gone"},
         embed' = [embed EXCEPT ![e] = s],
         out' = [out EXCEPT ![e] = NoVectors(e)], Abandon(e),
         UNCHANGED <<flavor, attempt>>,
         phase' = "ready" => phase = "ready" /\ e # Anchors,
         SameBegun,
         \A k \in Jobs : k[1] # e =>
           job'[k] = job[k] \/ (job[k] = "queued" /\ job'[k] = "granted"),
         ~FanOut => \A k \in Jobs : k[1] = e => job'[k] \in {"none", "joined"}
  PROVE  VectorInv'
<1>0. Shape
  BY DEF ShapeInv
<1>1. FanOut' = FanOut /\ \A d \in Embeds : Attempt(d)' = Attempt(d)
  BY DEF FanOut, Attempt
<1>2. OutShape' /\ \A d \in Embeds \ {e} : out'[d] = out[d]
  <2> DEFINE v == NoVectors(e)
  <2>1. v = [i \in 1..TextCount[e] |-> v[i]]
    BY DEF NoVectors
  <2> HIDE DEF v
  <2>2. out' = [out EXCEPT ![e] = v]
    BY DEF v
  <2> QED
    BY <2>1, <2>2, OutReplaced DEF VectorInv
<1>3. \A d \in Embeds : embed'[d] = IF d = e THEN s ELSE embed[d]
  BY <1>0 DEF Shape
<1>4. OneBatch'
  BY <1>1, <1>3, JobParts DEF VectorInv, OneBatch
<1>5. LiveNotAborted'
  <2> SUFFICES ASSUME NEW j \in aborted'
               PROVE  /\ job'[j] # "none"
                      /\ FanOut /\ embed'[j[1]] = "jobs" => j[2] # Attempt(j[1])'
    BY <1>1 DEF LiveNotAborted
  <2>1. CASE j \in aborted
    BY <1>0, <1>1, <1>3, <2>1, JobParts DEF Shape, VectorInv, LiveNotAborted, SameBegun
  <2>2. CASE j \in Unfinished(e)
    <3>1. j \in Jobs /\ j[1] = e /\ job[j] # "none"
      BY <2>2 DEF Unfinished, Current
    <3> QED
      BY <1>3, <3>1 DEF SameBegun
  <2> QED
    BY <2>1, <2>2 DEF Abandon
<1>6. Covered'
  <2> SUFFICES ASSUME NEW d \in Embeds \ {e}, FanOut, embed[d] = "jobs",
                      NEW i \in 1..TextCount[d], ~InPlace(d, i)
               PROVE  job'[<<d, Attempt(d), i>>] \notin {"none", "joined"}
    BY <1>1, <1>2, <1>3 DEF Covered, InPlace
  <2> DEFINE k == <<d, Attempt(d), i>>
  <2>1. k \in Jobs /\ k[1] = d
    BY <1>0, JobParts, EmbeddingAssumption DEF Shape
  <2>2. job[k] \notin {"none", "joined"}
    BY DEF VectorInv, Covered
  <2> HIDE DEF k
  <2>3. job'[k] \notin {"none", "joined"}
    BY <2>1, <2>2
  <2> QED
    BY <2>3 DEF k
<1>7. Complete'
  BY <1>1, <1>2, <1>3 DEF VectorInv, Complete, InPlace
<1>8. ReadyHasAnchors'
  BY <1>3 DEF VectorInv, ReadyHasAnchors, Embeds
<1> QED
  BY <1>2, <1>4, <1>5, <1>6, <1>7, <1>8 DEF VectorInv

(* A failure is such an end. *)
LEMMA FailKept ==
  ASSUME ShapeInv, VectorInv, NEW e \in Embeds, NEW f \in Failures, Fail(e, f),
         UNCHANGED <<flavor, attempt>>, SameBegun,
         \A k \in Jobs : k[1] # e =>
           job'[k] = job[k] \/ (job[k] = "queued" /\ job'[k] = "granted"),
         ~FanOut => \A k \in Jobs : k[1] = e => job'[k] \in {"none", "joined"}
  PROVE  VectorInv'
<1>1. PICK s \in {"idle", "failed"} : embed' = [embed EXCEPT ![e] = s]
  BY DEF Fail
<1>2. phase' = "ready" => phase = "ready" /\ e # Anchors
  BY EmbeddingAssumption DEF Fail
<1>3. out' = [out EXCEPT ![e] = NoVectors(e)] /\ Abandon(e)
  BY DEF Fail
<1> QED
  BY <1>1, <1>2, <1>3, OverKept

(* A task of the fan-out is joined. *)
LEMMA JoinKept ==
  ASSUME ShapeInv, VectorInv, NEW j \in Jobs, Join(j)
  PROVE  VectorInv'
<1> DEFINE e == j[1]
<1>0. /\ e \in Embeds /\ j[2] = Attempt(e) /\ j = <<e, Attempt(e), j[3]>> /\ FanOut
      /\ embed[e] = "jobs"
      /\ job[j] = "vectors" /\ Shape
  BY JobParts DEF Join, Current, ShapeInv
<1>1. /\ job' = [job EXCEPT ![j] = "joined"]
      /\ out' = [out EXCEPT ![e][j[3]] = <<Attempt(e), j[3]>>]
      /\ UNCHANGED <<flavor, attempt, aborted>>
  BY DEF Join, Succeed, Current
<1>2. FanOut' = FanOut /\ \A d \in Embeds : Attempt(d)' = Attempt(d)
  BY <1>1 DEF FanOut, Attempt
<1> HIDE DEF e
<1>3. /\ OutShape'
      /\ \A d \in Embeds : \A k \in 1..TextCount[d] :
           out'[d][k] = IF d = e /\ k = j[3] THEN <<Attempt(e), j[3]>> ELSE out[d][k]
  <2> DEFINE v == [k \in 1..TextCount[e] |-> IF k = j[3] THEN <<Attempt(e), j[3]>> ELSE out[e][k]]
  <2>1. out[e] = [k \in 1..TextCount[e] |-> out[e][k]]
    BY <1>0 DEF VectorInv, OutShape
  <2>2. [out[e] EXCEPT ![j[3]] = <<Attempt(e), j[3]>>] = v
    BY <2>1
  <2>3. out' = [out EXCEPT ![e] = v]
    BY <1>1, <2>2
  <2>4. v = [k \in 1..TextCount[e] |-> v[k]]
    OBVIOUS
  <2>5. \A k \in 1..TextCount[e] :
          v[k] = IF k = j[3] THEN <<Attempt(e), j[3]>> ELSE out[e][k]
    OBVIOUS
  <2> HIDE DEF v
  <2>6. out' = [d \in Embeds |-> IF d = e THEN v ELSE out[d]]
    BY <2>3 DEF VectorInv, OutShape
  <2>7. OutShape'
    BY <2>4, <2>6 DEF VectorInv, OutShape
  <2> QED
    BY <2>5, <2>6, <2>7
<1>4. \A d \in Embeds : \A k \in 1..TextCount[d] :
        InPlace(d, k)' <=> (d = e /\ k = j[3]) \/ InPlace(d, k)
  BY <1>2, <1>3 DEF InPlace
<1>5. OneBatch'
  BY <1>0, <1>2 DEF OneBatch
<1>6. ASSUME NEW d \in Embeds, NEW i \in 1..TextCount[d], ~(d = e /\ i = j[3])
      PROVE  /\ <<d, Attempt(d), i>> \in Jobs
             /\ <<d, Attempt(d), i>> # j
             /\ job'[<<d, Attempt(d), i>>] = job[<<d, Attempt(d), i>>]
  <2>1. <<d, Attempt(d), i>> \in Jobs
    BY <1>0, JobParts, EmbeddingAssumption DEF Shape
  <2>2. <<d, Attempt(d), i>> # j
    BY <1>0, <1>6
  <2> QED
    BY <1>0, <1>1, <2>1, <2>2 DEF Shape
<1>7. CASE Pending(e) # {j}
  <2>1. UNCHANGED <<embed, phase>>
    BY <1>7 DEF Join, e
  <2>2. LiveNotAborted'
    BY <1>0, <1>1, <1>2, <2>1, JobParts DEF LiveNotAborted, VectorInv, Shape
  <2>3. Covered'
    BY <1>2, <1>4, <1>6, <2>1 DEF Covered, VectorInv
  <2>4. Complete' /\ ReadyHasAnchors'
    BY <1>4, <2>1 DEF Complete, ReadyHasAnchors, VectorInv
  <2> QED
    BY <1>3, <1>5, <2>2, <2>3, <2>4 DEF VectorInv
<1>8. CASE Pending(e) = {j} /\ Succeed(e)
  <2>1. /\ \A d \in Embeds : embed'[d] = IF d = e THEN "ok" ELSE embed[d]
        /\ phase' = IF e = Anchors THEN "ready" ELSE phase
    BY <1>0, <1>8 DEF Succeed, Shape
  <2>2. ASSUME NEW i \in 1..TextCount[e], i # j[3]
        PROVE  InPlace(e, i)
    <3> DEFINE k == <<e, Attempt(e), i>>
    <3>1. k \in Jobs /\ k # j /\ k \in Current(e)
      BY <1>0, <1>6, <2>2 DEF Current
    <3>2. job[k] \in {"none", "joined"}
      BY <1>8, <3>1 DEF Pending
    <3> QED
      BY <1>0, <3>2 DEF VectorInv, Covered
  <2>3. Complete'
    BY <1>4, <2>1, <2>2 DEF Complete, VectorInv
  <2>4. LiveNotAborted'
    BY <1>0, <1>1, <1>2, <2>1, JobParts DEF LiveNotAborted, VectorInv, Shape
  <2>5. Covered'
    BY <1>2, <1>4, <1>6, <2>1 DEF Covered, VectorInv
  <2>6. ReadyHasAnchors'
    BY <2>1 DEF ReadyHasAnchors, VectorInv, Embeds
  <2> QED
    BY <1>3, <1>5, <2>3, <2>4, <2>5, <2>6 DEF VectorInv
<1> QED
  BY <1>7, <1>8 DEF Join, e

(* A batch's response brings all the vectors. *)
LEMMA BatchKept ==
  ASSUME ShapeInv, VectorInv, ~FanOut, NEW j \in Jobs, job[j] = "sent",
         JobLeft(j, "joined"), Succeed(j[1]), UNCHANGED <<flavor, attempt>>,
         out' = [out EXCEPT ![j[1]] = [i \in 1..TextCount[j[1]] |-> <<j[2], i>>]]
  PROVE  VectorInv'
<1> DEFINE e == j[1]
           v == [i \in 1..TextCount[e] |-> <<j[2], i>>]
<1>1. e \in Embeds /\ j[2] = Attempt(e) /\ Shape
  BY JobParts DEF VectorInv, OneBatch, ShapeInv
<1>2. ~FanOut' /\ \A d \in Embeds : Attempt(d)' = Attempt(d)
  BY DEF FanOut, Attempt
<1>3. v = [i \in 1..TextCount[e] |-> v[i]] /\ \A i \in 1..TextCount[e] : v[i] = <<Attempt(e), i>>
  BY <1>1
<1>4. /\ \A d \in Embeds : embed'[d] = IF d = e THEN "ok" ELSE embed[d]
      /\ phase' = IF e = Anchors THEN "ready" ELSE phase
      /\ aborted' = aborted
  BY <1>1 DEF Succeed, Shape
<1>5. \A k \in Jobs : job'[k] \notin {"none", "joined"} =>
        job[k] \notin {"none", "joined"} /\ k[1] # e
  BY OneJob DEF VectorInv, JobLeft
<1>6. out' = [out EXCEPT ![e] = v]
  OBVIOUS
<1> HIDE DEF e, v
<1>7. OutShape' /\ out'[e] = v /\ \A d \in Embeds \ {e} : out'[d] = out[d]
  BY <1>1, <1>3, <1>6, OutReplaced DEF VectorInv
<1>8. OneBatch'
  BY <1>2, <1>4, <1>5, JobParts DEF VectorInv, OneBatch
<1>9. LiveNotAborted'
  BY <1>1, <1>2, <1>4 DEF VectorInv, LiveNotAborted, JobLeft, Shape
<1>10. Covered'
  BY <1>2 DEF Covered
<1>11. Complete'
  <2> SUFFICES ASSUME NEW d \in Embeds, embed'[d] = "ok", NEW i \in 1..TextCount[d]
               PROVE  out'[d][i] = <<Attempt(d), i>>
    BY <1>2 DEF Complete, InPlace
  <2>1. CASE d = e
    BY <1>3, <1>7, <2>1
  <2>2. CASE d # e
    BY <1>4, <1>7, <2>2 DEF VectorInv, Complete, InPlace
  <2> QED
    BY <2>1, <2>2
<1>12. ReadyHasAnchors'
  BY <1>4 DEF VectorInv, ReadyHasAnchors, Embeds
<1> QED
  BY <1>7, <1>8, <1>9, <1>10, <1>11, <1>12 DEF VectorInv

(* No step puts a vector at another text, nor joins a job of a batch that   *)
(* is over.                                                                 *)
LEMMA VectorStep ==
  ASSUME ShapeInv, VectorInv, [Next]_vars
  PROVE  VectorInv'
<1>0. Shape /\ QueueLinked /\ Backoff /\ Fresh
  BY DEF ShapeInv
<1>1. ASSUME NEW e \in Embeds, Begin(e)
      PROVE  VectorInv'
  <2>1. /\ embed[e] = "idle" /\ (e = Anchors => phase # "ready")
        /\ UNCHANGED <<flavor, phase, attempt, out, aborted>>
        /\ \A d \in Embeds : embed'[d] = IF d = e THEN IF FanOut THEN "token" ELSE "jobs"
                                         ELSE embed[d]
    BY <1>0, <1>1 DEF Begin, Shape
  <2>2. FanOut' = FanOut /\ \A d \in Embeds : Attempt(d)' = Attempt(d)
    BY <2>1 DEF FanOut, Attempt
  <2>3. \A k \in Jobs :
          \/ job'[k] = job[k]
          \/ ~FanOut /\ k = <<e, Attempt(e), 0>> /\ job'[k] = "spawned"
    BY <1>0, <1>1 DEF Begin, Shape
  <2>4. OneBatch'
    <3> SUFFICES ASSUME ~FanOut
                 PROVE  /\ \A d \in Embeds : embed'[d] # "token"
                        /\ \A k \in Jobs : job'[k] \notin {"none", "joined"} =>
                             embed'[k[1]] = "jobs" /\ k[2] = Attempt(k[1]) /\ k[3] = 0
      BY <2>2, JobParts DEF OneBatch
    <3> QED
      BY <2>1, <2>3, JobParts DEF VectorInv, OneBatch
  <2>5. LiveNotAborted'
    BY <1>0, <2>1, <2>2, <2>3, JobParts DEF VectorInv, LiveNotAborted, Shape
  <2>6. Covered'
    <3> SUFFICES ASSUME NEW d \in Embeds, FanOut, embed'[d] = "jobs", NEW i \in 1..TextCount[d]
                 PROVE  InPlace(d, i) \/ job'[<<d, Attempt(d), i>>] \notin {"none", "joined"}
      BY <2>1, <2>2 DEF Covered, InPlace
    <3>1. embed[d] = "jobs" /\ job' = job
      BY <1>1, <2>1 DEF Begin
    <3> QED
      BY <3>1 DEF VectorInv, Covered
  <2>7. OutShape'
    BY <2>1 DEF VectorInv, OutShape
  <2>8. Complete'
    <3> SUFFICES ASSUME NEW d \in Embeds, embed'[d] = "ok", NEW i \in 1..TextCount[d]
                 PROVE  InPlace(d, i)'
      BY DEF Complete
    <3>1. embed[d] = "ok"
      BY <2>1
    <3>2. InPlace(d, i)
      BY <3>1 DEF VectorInv, Complete
    <3>3. out' = out /\ Attempt(d)' = Attempt(d)
      BY <2>1, <2>2
    <3> QED
      BY <3>2, <3>3 DEF InPlace
  <2>9. ReadyHasAnchors'
    <3> SUFFICES ASSUME phase = "ready"
                 PROVE  embed'[Anchors] = "ok"
      BY <2>1 DEF ReadyHasAnchors
    <3>1. embed[Anchors] = "ok" /\ Anchors # e /\ Anchors \in Embeds
      BY <2>1 DEF VectorInv, ReadyHasAnchors, Embeds
    <3> QED
      BY <2>1, <3>1
  <2> QED
    BY <2>4, <2>5, <2>6, <2>7, <2>8, <2>9 DEF VectorInv
<1>2. ASSUME NEW e \in Embeds, Fetched(e)
      PROVE  VectorInv'
  <2>1. /\ embed[e] = "token" /\ UNCHANGED <<flavor, phase, attempt, out, aborted>>
        /\ job' = [j \in Jobs |-> IF j \in Current(e) /\ j[3] # 0 THEN "spawned" ELSE job[j]]
        /\ \A d \in Embeds : embed'[d] = IF d = e THEN "jobs" ELSE embed[d]
    BY <1>0, <1>2 DEF Fetched, Shape
  <2>2. FanOut' = FanOut /\ FanOut /\ \A d \in Embeds : Attempt(d)' = Attempt(d)
    BY <2>1 DEF FanOut, Attempt, VectorInv, OneBatch
  <2>3. \A j \in Current(e) : job[j] = "none"
    BY <1>0, <2>1 DEF Current, Fresh, Ahead, Backoff
  <2>4. LiveNotAborted'
    <3> SUFFICES ASSUME NEW j \in aborted'
                 PROVE  /\ job'[j] # "none"
                        /\ embed'[j[1]] = "jobs" => j[2] # Attempt(j[1])'
      BY DEF LiveNotAborted
    <3>0. j \in aborted /\ j \in Jobs /\ j[1] \in Embeds
      BY <1>0, <2>1, JobParts DEF Shape
    <3>1. job[j] # "none" /\ j \notin Current(e)
      BY <2>3, <3>0 DEF VectorInv, LiveNotAborted
    <3>2. j[1] = e => j[2] # Attempt(e)
      BY <3>0, <3>1 DEF Current
    <3>3. Attempt(j[1])' = Attempt(j[1])
      BY <2>2, <3>0
    <3>4. embed[j[1]] = "jobs" => j[2] # Attempt(j[1])
      BY <2>2, <3>0 DEF VectorInv, LiveNotAborted
    <3> QED
      BY <2>1, <3>0, <3>1, <3>2, <3>3, <3>4
  <2>5. Covered'
    <3> SUFFICES ASSUME NEW d \in Embeds, embed'[d] = "jobs", NEW i \in 1..TextCount[d]
                 PROVE  InPlace(d, i) \/ job'[<<d, Attempt(d), i>>] \notin {"none", "joined"}
      BY <2>1, <2>2 DEF Covered, InPlace
    <3> DEFINE k == <<d, Attempt(d), i>>
    <3>1. k \in Jobs /\ k[1] = d /\ k[2] = Attempt(d) /\ k[3] = i /\ i # 0
      BY <1>0, JobParts, EmbeddingAssumption DEF Shape
    <3>2. CASE d = e
      <4>1. job'[k] = "spawned"
        BY <2>1, <3>1, <3>2 DEF Current
      <4> QED
        BY <4>1
    <3>3. CASE d # e
      <4>1. job'[k] = job[k] /\ embed[d] = "jobs"
        BY <2>1, <3>1, <3>3 DEF Current
      <4> QED
        BY <2>2, <4>1 DEF VectorInv, Covered
    <3> QED
      BY <3>2, <3>3
  <2>6. OneBatch'
    BY <2>2 DEF OneBatch
  <2>7. OutShape'
    BY <2>1 DEF VectorInv, OutShape
  <2>8. Complete'
    <3> SUFFICES ASSUME NEW d \in Embeds, embed'[d] = "ok", NEW i \in 1..TextCount[d]
                 PROVE  InPlace(d, i)'
      BY DEF Complete
    <3>1. embed[d] = "ok"
      BY <2>1
    <3>2. InPlace(d, i)
      BY <3>1 DEF VectorInv, Complete
    <3>3. out' = out /\ Attempt(d)' = Attempt(d)
      BY <2>1, <2>2
    <3> QED
      BY <3>2, <3>3 DEF InPlace
  <2>9. ReadyHasAnchors'
    <3> SUFFICES ASSUME phase = "ready"
                 PROVE  embed'[Anchors] = "ok"
      BY <2>1 DEF ReadyHasAnchors
    <3>1. embed[Anchors] = "ok" /\ Anchors # e /\ Anchors \in Embeds
      BY <2>1 DEF VectorInv, ReadyHasAnchors, Embeds
    <3> QED
      BY <2>1, <3>1
  <2> QED
    BY <2>4, <2>5, <2>6, <2>7, <2>8, <2>9 DEF VectorInv
<1>3. ASSUME NEW e \in Embeds, FetchFails(e)
      PROVE  VectorInv'
  <2>1. FanOut /\ SameBegun
    BY <1>3 DEF FetchFails, SameBegun, VectorInv, OneBatch
  <2> QED
    BY <1>3, <2>1, FailKept DEF FetchFails
<1>4. ASSUME NEW j \in Jobs, Acquire(j) \/ Send(j)
      PROVE  VectorInv'
  <2>1. /\ job[j] \in {"spawned", "granted"} /\ UNCHANGED <<flavor, phase, attempt, embed, out, aborted>>
        /\ \E s \in {"granted", "queued", "sent"} : job' = [job EXCEPT ![j] = s]
    BY <1>4 DEF Acquire, Send
  <2> QED
    BY <1>0, <2>1, WorkKept DEF SameBegun, Shape
<1>5. ASSUME NEW j \in Jobs, TokenFails(j)
      PROVE  VectorInv'
  <2>1. JobLeft(j, "joined") /\ ~FanOut /\ job[j] = "granted" /\ j[1] \in Embeds
    BY <1>0, <1>5, ReleaseEffect, JobParts DEF TokenFails, FanOut
  <2>2. /\ SameBegun
        /\ \A k \in Jobs : k[1] # j[1] =>
             job'[k] = job[k] \/ (job[k] = "queued" /\ job'[k] = "granted")
    BY <2>1 DEF JobLeft, SameBegun
  <2>3. \A k \in Jobs : k[1] = j[1] => job'[k] \in {"none", "joined"}
    BY <2>1, OneJob DEF JobLeft, VectorInv
  <2> QED
    BY <1>5, <2>1, <2>2, <2>3, FailKept DEF TokenFails
<1>6. ASSUME NEW j \in Jobs, NEW outcome \in Outcomes, Answer(j, outcome)
      PROVE  VectorInv'
  <2>1. PICK s \in {"joined", outcome} :
          /\ Release(j, s)
          /\ s = "joined" /\ FanOut => j \in aborted
          /\ ~FanOut => s = "joined"
    BY <1>6 DEF Answer
  <2>2. job[j] = "sent" /\ JobLeft(j, s) /\ j[1] \in Embeds /\ UNCHANGED <<flavor, attempt>>
    BY <1>0, <1>6, <2>1, ReleaseEffect, JobParts DEF Answer
  <2>3. /\ SameBegun
        /\ \A k \in Jobs : k # j =>
             job'[k] = job[k] \/ (job[k] = "queued" /\ job'[k] = "granted")
    BY <2>2 DEF JobLeft, SameBegun
  <2>4. CASE FanOut
    <3>1. UNCHANGED <<phase, embed, out, aborted>>
      BY <1>6, <2>4 DEF Answer
    <3>2. /\ \A k \in Jobs : job[k] = "joined" => job'[k] = "joined"
          /\ \A k \in Jobs : job'[k] = "joined" => job[k] = "joined" \/ k \in aborted
      BY <2>1, <2>2, <2>3, <2>4 DEF JobLeft
    <3> QED
      BY <2>2, <2>3, <3>1, <3>2, WorkKept
  <2>5. CASE ~FanOut /\ outcome = "vectors"
    BY <1>6, <2>1, <2>2, <2>5, BatchKept DEF Answer
  <2>6. CASE ~FanOut /\ outcome # "vectors"
    <3>1. \A k \in Jobs : k[1] = j[1] => job'[k] \in {"none", "joined"}
      BY <2>1, <2>2, <2>6, OneJob DEF JobLeft, VectorInv
    <3>2. outcome \in Failures /\ Fail(j[1], outcome)
      BY <1>6, <2>6 DEF Answer
    <3>3. \A k \in Jobs : k[1] # j[1] =>
            job'[k] = job[k] \/ (job[k] = "queued" /\ job'[k] = "granted")
      BY <2>3
    <3> QED
      BY <2>2, <2>3, <3>1, <3>2, <3>3, FailKept
  <2> QED
    BY <2>4, <2>5, <2>6
<1>7. ASSUME NEW j \in Jobs, JoinFails(j)
      PROVE  VectorInv'
  <2>1. j[1] \in Embeds /\ FanOut /\ job[j] \in Failures
    BY <1>7, JobParts DEF JoinFails
  <2>2. SameBegun /\ \A k \in Jobs : k[1] # j[1] => job'[k] = job[k]
    BY <1>7 DEF JoinFails, Discarded, Current, SameBegun
  <2> QED
    BY <1>7, <2>1, <2>2, FailKept DEF JoinFails
<1>8. ASSUME NEW j \in Jobs, Reap(j)
      PROVE  VectorInv'
  <2>1. /\ JobLeft(j, "joined") /\ job[j] # "none" /\ j \in aborted
        /\ UNCHANGED <<flavor, phase, attempt, embed, out, aborted>>
    BY <1>0, <1>8, LeaveEffect DEF Reap
  <2> QED
    BY <2>1, WorkKept DEF JobLeft, SameBegun
<1>9. ASSUME NEW c \in Calls, Drop(c)
      PROVE  VectorInv'
  <2>1. c \in Embeds /\ c # Anchors
    BY EmbeddingAssumption DEF Embeds
  <2>2. /\ SameBegun
        /\ \A k \in Jobs : k[1] # c =>
             job'[k] = job[k] \/ (job[k] = "queued" /\ job'[k] = "granted")
        /\ ~FanOut => \A k \in Jobs : k[1] = c => job'[k] \in {"none", "joined"}
    <3>1. CASE FanOut
      BY <1>9, <3>1 DEF Drop, Discarded, Current, SameBegun
    <3>2. CASE ~FanOut
      <4> DEFINE j == <<c, 1, 0>>
      <4>1. j \in Jobs /\ j[1] = c
        <5>1. 0 <= TextCount[c] /\ Attempt(c) = 1
          BY <2>1, EmbeddingAssumption DEF Attempt
        <5> QED
          BY <1>0, <2>1, <5>1, JobParts DEF Shape
      <4>2. Leave(j)
        BY <1>9, <3>2 DEF Drop
      <4> HIDE DEF j
      <4>3. JobLeft(j, "joined") /\ job[j] \notin {"none", "joined"}
        BY <1>0, <4>1, <4>2, LeaveEffect
      <4> QED
        BY <3>2, <4>1, <4>3, OneJob DEF JobLeft, SameBegun, VectorInv
    <3> QED
      BY <3>1, <3>2
  <2> QED
    BY <1>9, <2>1, <2>2, OverKept DEF Drop
<1>10. CASE Retry
  <2>1. /\ UNCHANGED <<flavor, embed, out, job, aborted>> /\ phase' = "boot"
        /\ embed[Anchors] = "idle"
    BY <1>0, <1>10 DEF Retry, Backoff
  <2>2. FanOut' = FanOut /\ \A d \in Embeds : d # Anchors => Attempt(d)' = Attempt(d)
    BY <2>1 DEF FanOut, Attempt
  <2>3. OneBatch' /\ LiveNotAborted'
    BY <1>0, <2>1, <2>2, JobParts DEF VectorInv, OneBatch, LiveNotAborted, Shape
  <2>4. Covered' /\ Complete'
    BY <2>1, <2>2 DEF VectorInv, Covered, Complete, InPlace
  <2>5. OutShape' /\ ReadyHasAnchors'
    BY <2>1 DEF VectorInv, OutShape, ReadyHasAnchors
  <2> QED
    BY <2>3, <2>4, <2>5 DEF VectorInv
<1>11. CASE UNCHANGED vars
  BY <1>11, WorkKept DEF vars, SameBegun
<1> QED
  BY <1>1, <1>2, <1>3, <1>4, <1>5, <1>6, <1>7, <1>8, <1>9, <1>10, <1>11, JoinKept DEF Next

(* In every state the vectors of an embed are those of its joined jobs.     *)
THEOREM VectorsAlways == Spec => []VectorInv
<1>1. Init => VectorInv
  BY VectorInit
<1>2. ShapeInv /\ VectorInv /\ [Next]_vars => VectorInv'
  BY VectorStep
<1> QED
  BY <1>1, <1>2, ShapeAlways, PTL DEF Spec

(***************************************************************************)
(* "Returning one vector per text in input order" (`embed`): whatever the  *)
(* order in which the tasks of the fan-out end, and whatever earlier       *)
(* attempts have left behind.                                              *)
(***************************************************************************)
THEOREM VectorsAlwaysInOrder == Spec => []VectorsInOrder
<1>1. VectorInv => VectorsInOrder
  <2> SUFFICES ASSUME VectorInv, NEW e \in Embeds, embed[e] = "ok"
               PROVE  out[e] = [i \in 1..TextCount[e] |-> <<Attempt(e), i>>]
    BY DEF VectorsInOrder, VectorInv, ReadyHasAnchors
  <2>1. out[e] = [i \in 1..TextCount[e] |-> out[e][i]]
    BY DEF VectorInv, OutShape
  <2>2. \A i \in 1..TextCount[e] : out[e][i] = <<Attempt(e), i>>
    BY DEF VectorInv, Complete, InPlace
  <2> QED
    BY <2>1, <2>2
<1> QED
  BY <1>1, VectorsAlways, PTL

(* Every variable stays in its range. *)
THEOREM TypeCorrect == Spec => []TypeOK
<1>1. ShapeInv /\ PermitsInv /\ VectorInv => TypeOK
  <2> SUFFICES ASSUME ShapeInv, PermitsInv, VectorInv PROVE TypeOK
    OBVIOUS
  <2>1. Cardinality(Holders) \in Nat /\ MaxPermits \in Nat
    BY FS_CardinalityType, EmbeddingAssumption DEF PermitsInv
  <2>2. permits \in 0..MaxPermits
    BY <2>1 DEF PermitsInv, PermitsConserved, ShapeInv, Shape
  <2>3. DOMAIN out = Embeds
    BY DEF VectorInv, OutShape
  <2> QED
    BY <2>2, <2>3 DEF TypeOK, ShapeInv, Shape
<1> QED
  BY <1>1, ShapeAlways, PermitsAlways, VectorsAlways, PTL
----------------------------------------------------------------------------
(***************************************************************************)
(* Nothing gets stuck.  While a job waits in line all permits are held     *)
(* (NoneSpare); an embed that waits for its jobs has one that is still     *)
(* about (AllGoing), which nobody has aborted (LiveNotAborted, BatchStays);*)
(* and the boot goes on as long as its embed does (BootGoes).              *)
(***************************************************************************)
NoneSpare == queue # <<>> => permits = 0

About(j) == job[j] \notin {"none", "joined"}

Going(e) == embed[e] = "jobs" => \E j \in Current(e) : About(j)

AllGoing == \A e \in Embeds : Going(e)

BatchStays == ~FanOut => aborted = {}

BootGoes ==
  /\ phase = "boot" => embed[Anchors] \in {"idle", "token", "jobs"}
  /\ phase = "failed" => embed[Anchors] = "failed"
  /\ embed[Anchors] \in {"token", "jobs"} => phase = "boot"

LiveInv == NoneSpare /\ AllGoing /\ BatchStays /\ BootGoes

(* Who waits, waits for somebody: a job in line for one that holds a permit *)
(* and will send or be answered; an embed for a job of its current attempt  *)
(* that no one has aborted; and the boot for its embed.                     *)
NobodyWaitsInVain ==
  /\ queue # <<>> => permits = 0 /\ Holders # {}
  /\ \A e \in Embeds : embed[e] = "jobs" => \E j \in Current(e) \ aborted : About(j)
  /\ phase = "boot" => embed[Anchors] \in {"idle", "token", "jobs"}
  /\ phase = "backoff" => embed[Anchors] = "idle" /\ attempt < MaxAttempts

(* Before the boot nobody waits. *)
LEMMA LiveInit == Init => LiveInv
<1> SUFFICES ASSUME Init PROVE LiveInv
  OBVIOUS
<1>1. Anchors \in Embeds
  BY DEF Embeds
<1> QED
  BY <1>1 DEF Init, LiveInv, NoneSpare, AllGoing, Going, BatchStays, BootGoes

(* No step frees a permit that a waiter could have. *)
LEMMA NoneSpareStep ==
  ASSUME ShapeInv, NoneSpare, [Next]_vars
  PROVE  NoneSpare'
<1>0. permits \in Nat /\ queue \in Seq(Jobs)
  BY DEF ShapeInv, Shape
<1>1. CASE NoPermitMove
  BY <1>1 DEF NoPermitMove, NoneSpare
<1>2. ASSUME NEW j \in Jobs, Enters(j) \/ Waits(j) \/ Frees(j)
      PROVE  NoneSpare'
  BY <1>0, <1>2 DEF Enters, Waits, Frees, NoneSpare
<1>3. ASSUME NEW j \in Jobs, Withdraws(j) \/ HandsOn(j)
      PROVE  NoneSpare'
  <2>1. queue # <<>>
    BY <1>0, <1>3 DEF Withdraws, HandsOn
  <2> QED
    BY <1>3, <2>1 DEF Withdraws, HandsOn, NoneSpare
<1> QED
  BY <1>1, <1>2, <1>3, PermitMoves DEF PermitMove

(* An embed keeps going while the jobs it has keep going. *)
LEMMA GoingKept ==
  ASSUME NEW e \in Embeds, Going(e), embed'[e] = embed[e], UNCHANGED attempt,
         \A k \in Current(e) : About(k) => About(k)'
  PROVE  Going(e)'
<1>1. Current(e)' = Current(e)
  BY DEF Current, Attempt
<1> QED
  BY <1>1 DEF Going

(* No step takes its last job from an embed that waits for it. *)
LEMMA GoingStep ==
  ASSUME ShapeInv, VectorInv, BatchStays, AllGoing, [Next]_vars, NEW d \in Embeds
  PROVE  Going(d)'
<1>0. Shape /\ QueueLinked /\ Backoff /\ Fresh /\ Going(d)
  BY DEF ShapeInv, AllGoing
<1>1. ASSUME NEW e \in Embeds, Begin(e)
      PROVE  Going(d)'
  <2>1. CASE d # e
    <3>1. embed'[d] = embed[d] /\ UNCHANGED attempt
      BY <1>0, <1>1, <2>1 DEF Begin, Shape
    <3>2. \A k \in Jobs : About(k) => About(k)'
      BY <1>0, <1>1 DEF Begin, About, Shape
    <3> QED
      BY <1>0, <3>1, <3>2, GoingKept DEF Current
  <2>2. CASE d = e /\ ~FanOut
    <3> DEFINE j == <<e, Attempt(e), 0>>
    <3>1. j \in Jobs /\ j[1] = e /\ j[2] = Attempt(e)
      <4>1. 0 <= TextCount[e]
        BY EmbeddingAssumption
      <4> QED
        BY <1>0, <4>1, JobParts DEF Shape
    <3>2. job'[j] = "spawned" /\ Attempt(e)' = Attempt(e)
      BY <1>0, <1>1, <2>2, <3>1 DEF Begin, Shape, Attempt
    <3> HIDE DEF j
    <3> QED
      BY <2>2, <3>1, <3>2 DEF Going, Current, About
  <2>3. CASE d = e /\ FanOut
    <3>1. embed'[d] = "token"
      BY <1>0, <1>1, <2>3 DEF Begin, Shape
    <3> QED
      BY <3>1 DEF Going
  <2> QED
    BY <2>1, <2>2, <2>3
<1>2. ASSUME NEW e \in Embeds, Fetched(e)
      PROVE  Going(d)'
  <2>1. CASE d # e
    <3>1. embed'[d] = embed[d] /\ UNCHANGED attempt
      BY <1>0, <1>2, <2>1 DEF Fetched, Shape
    <3>2. \A k \in Jobs : About(k) => About(k)'
      BY <1>0, <1>2 DEF Fetched, About, Shape
    <3> QED
      BY <1>0, <3>1, <3>2, GoingKept DEF Current
  <2>2. CASE d = e
    <3> DEFINE j == <<e, Attempt(e), 1>>
    <3>1. j \in Jobs /\ j[1] = e /\ j[2] = Attempt(e) /\ j[3] = 1
      <4>1. 1 <= TextCount[e]
        BY EmbeddingAssumption
      <4> QED
        BY <1>0, <4>1, JobParts DEF Shape
    <3>2. job'[j] = "spawned" /\ Attempt(e)' = Attempt(e)
      BY <1>0, <1>2, <2>2, <3>1 DEF Fetched, Shape, Attempt, Current
    <3> HIDE DEF j
    <3> QED
      BY <2>2, <3>1, <3>2 DEF Going, Current, About
  <2> QED
    BY <2>1, <2>2
<1>3. ASSUME NEW e \in Embeds, embed'[e] # "jobs", UNCHANGED attempt,
             d # e => embed'[d] = embed[d],
             \A k \in Jobs : k[1] # e /\ About(k) => About(k)'
      PROVE  Going(d)'
  <2>1. CASE d = e
    BY <1>3, <2>1 DEF Going
  <2>2. CASE d # e
    BY <1>0, <1>3, <2>2, GoingKept DEF Current
  <2> QED
    BY <2>1, <2>2
<1>4. ASSUME NEW e \in Embeds, NEW f \in Failures, Fail(e, f)
      PROVE  embed'[e] # "jobs" /\ (d # e => embed'[d] = embed[d])
  BY <1>0, <1>4 DEF Fail, Shape
<1>5. ASSUME NEW j \in Jobs, NEW s \in {"joined"} \cup Outcomes, JobLeft(j, s)
      PROVE  \A k \in Jobs \ {j} : About(k) => About(k)'
  BY <1>5 DEF JobLeft, About
<1>6. ASSUME NEW e \in Embeds, FetchFails(e)
      PROVE  Going(d)'
  <2>1. Fail(e, "permanent") /\ UNCHANGED <<attempt, job>>
    BY <1>6 DEF FetchFails
  <2> QED
    BY <1>3, <1>4, <2>1 DEF About
<1>7. ASSUME NEW j \in Jobs, Acquire(j) \/ Send(j)
      PROVE  Going(d)'
  <2>1. embed' = embed /\ UNCHANGED attempt /\ \A k \in Jobs : About(k) => About(k)'
    BY <1>0, <1>7 DEF Acquire, Send, About, Shape
  <2> QED
    BY <1>0, <2>1, GoingKept DEF Current
<1>8. ASSUME NEW j \in Jobs, TokenFails(j)
      PROVE  Going(d)'
  <2>1. JobLeft(j, "joined") /\ j[1] \in Embeds
    BY <1>0, <1>8, ReleaseEffect, JobParts DEF TokenFails
  <2>2. Fail(j[1], "permanent") /\ UNCHANGED attempt
    BY <1>8 DEF TokenFails
  <2>3. \A k \in Jobs : k[1] # j[1] /\ About(k) => About(k)'
    BY <1>5, <2>1
  <2> QED
    BY <1>3, <1>4, <2>1, <2>2, <2>3
<1>9. ASSUME NEW j \in Jobs, NEW outcome \in Outcomes, Answer(j, outcome)
      PROVE  Going(d)'
  <2>1. PICK s \in {"joined", outcome} :
          Release(j, s) /\ (FanOut /\ s = "joined" => j \in aborted)
    BY <1>9 DEF Answer
  <2>2. /\ JobLeft(j, s) /\ j[1] \in Embeds /\ UNCHANGED attempt
        /\ \A k \in Jobs \ {j} : About(k) => About(k)'
    <3>1. JobLeft(j, s) /\ j[1] \in Embeds /\ UNCHANGED attempt
      BY <1>0, <1>9, <2>1, ReleaseEffect, JobParts DEF Answer
    <3> QED
      BY <1>5, <3>1
  <2>3. CASE FanOut
    <3>1. embed' = embed
      BY <1>9, <2>3 DEF Answer
    <3>2. CASE s = "joined" /\ embed[d] = "jobs"
      <4>1. j \notin Current(d)
        BY <2>1, <2>3, <3>2 DEF VectorInv, LiveNotAborted, Current
      <4> QED
        BY <1>0, <2>2, <3>1, <4>1, GoingKept DEF Current
    <3>3. CASE s # "joined"
      <4>1. About(j)'
        BY <2>1, <2>2, <3>3 DEF JobLeft, About
      <4> QED
        BY <1>0, <2>2, <3>1, <4>1, GoingKept DEF Current
    <3>4. CASE embed[d] # "jobs"
      BY <3>1, <3>4 DEF Going
    <3> QED
      BY <3>2, <3>3, <3>4
  <2>4. CASE ~FanOut
    <3>1. embed'[j[1]] # "jobs" /\ (d # j[1] => embed'[d] = embed[d])
      <4>1. Succeed(j[1]) \/ \E f \in Failures : Fail(j[1], f)
        BY <1>9, <2>4 DEF Answer
      <4>2. CASE Succeed(j[1])
        BY <1>0, <2>2, <4>2 DEF Succeed, Shape
      <4> QED
        BY <1>4, <2>2, <4>1, <4>2
    <3> QED
      BY <1>3, <2>2, <3>1
  <2> QED
    BY <2>3, <2>4
<1>10. ASSUME NEW j \in Jobs, Join(j)
       PROVE  Going(d)'
  <2>1. /\ job' = [job EXCEPT ![j] = "joined"] /\ UNCHANGED attempt
        /\ j[1] \in Embeds /\ j \in Current(j[1])
        /\ \/ Pending(j[1]) = {j} /\ Succeed(j[1])
           \/ Pending(j[1]) # {j} /\ embed' = embed
        /\ j \in Pending(j[1])
    BY <1>10, JobParts DEF Join, Pending
  <2>2. \A k \in Jobs \ {j} : About(k) => About(k)'
    BY <1>0, <2>1 DEF About, Shape
  <2>3. CASE Succeed(j[1])
    <3>1. embed'[j[1]] # "jobs" /\ (d # j[1] => embed'[d] = embed[d])
      BY <1>0, <2>1, <2>3 DEF Succeed, Shape
    <3> QED
      BY <1>3, <2>1, <2>2, <3>1
  <2>4. CASE Pending(j[1]) # {j} /\ embed' = embed
    <3>1. CASE d = j[1]
      <4>1. PICK k \in Pending(j[1]) : k # j
        BY <2>1, <2>4
      <4>2. k \in Current(d) /\ k \in Jobs /\ About(k)
        BY <3>1, <4>1 DEF Pending, About, Current
      <4>3. Current(d)' = Current(d)
        BY <2>1 DEF Current, Attempt
      <4> QED
        BY <2>2, <4>1, <4>2, <4>3 DEF Going
    <3>2. CASE d # j[1]
      <4>1. j \notin Current(d)
        BY <2>1, <3>2 DEF Current
      <4> QED
        BY <1>0, <2>1, <2>2, <2>4, <4>1, GoingKept DEF Current
    <3> QED
      BY <3>1, <3>2
  <2> QED
    BY <2>1, <2>3, <2>4
<1>11. ASSUME NEW j \in Jobs, JoinFails(j)
       PROVE  Going(d)'
  <2>1. j[1] \in Embeds /\ job[j] \in Failures /\ Fail(j[1], job[j]) /\ UNCHANGED attempt
    BY <1>11, JobParts DEF JoinFails
  <2>2. \A k \in Jobs : k[1] # j[1] /\ About(k) => About(k)'
    BY <1>11 DEF JoinFails, Discarded, Current, About
  <2> QED
    BY <1>3, <1>4, <2>1, <2>2
<1>12. ASSUME NEW j \in Jobs, Reap(j)
       PROVE  Going(d)'
  <2>1. /\ JobLeft(j, "joined") /\ j \in aborted /\ FanOut
        /\ embed' = embed /\ UNCHANGED attempt
    BY <1>0, <1>12, LeaveEffect DEF Reap, BatchStays
  <2>2. CASE embed[d] = "jobs"
    <3>1. j \notin Current(d)
      BY <2>1, <2>2 DEF VectorInv, LiveNotAborted, Current
    <3> QED
      BY <1>0, <1>5, <2>1, <3>1, GoingKept DEF Current
  <2>3. CASE embed[d] # "jobs"
    BY <2>1, <2>3 DEF Going
  <2> QED
    BY <2>2, <2>3
<1>13. ASSUME NEW c \in Calls, Drop(c)
       PROVE  Going(d)'
  <2>1. /\ c \in Embeds /\ UNCHANGED attempt
        /\ embed'[c] # "jobs" /\ (d # c => embed'[d] = embed[d])
    BY <1>0, <1>13 DEF Drop, Shape, Embeds
  <2>2. \A k \in Jobs : k[1] # c /\ About(k) => About(k)'
    <3>1. CASE FanOut
      BY <1>13, <3>1 DEF Drop, Discarded, Current, About
    <3>2. CASE ~FanOut
      <4> DEFINE j == <<c, 1, 0>>
      <4>1. j \in Jobs /\ j[1] = c
        <5>1. 0 <= TextCount[c] /\ Attempt(c) = 1
          BY <2>1, EmbeddingAssumption DEF Attempt
        <5> QED
          BY <1>0, <2>1, <5>1, JobParts DEF Shape
      <4>2. Leave(j)
        BY <1>13, <3>2 DEF Drop
      <4> HIDE DEF j
      <4>3. JobLeft(j, "joined")
        BY <1>0, <4>1, <4>2, LeaveEffect
      <4> QED
        BY <1>5, <4>1, <4>3
    <3> QED
      BY <3>1, <3>2
  <2> QED
    BY <1>3, <2>1, <2>2
<1>14. CASE Retry
  <2>1. /\ UNCHANGED <<embed, job>> /\ embed[Anchors] = "idle"
    BY <1>0, <1>14 DEF Retry, Backoff
  <2>2. CASE d = Anchors
    BY <2>1, <2>2 DEF Going
  <2>3. CASE d # Anchors
    BY <1>0, <2>1, <2>3 DEF Going, Current, Attempt, About
  <2> QED
    BY <2>2, <2>3
<1>15. CASE UNCHANGED vars
  BY <1>0, <1>15, GoingKept DEF vars, About
<1> QED
  BY <1>1, <1>2, <1>6, <1>7, <1>8, <1>9, <1>10, <1>11, <1>12, <1>13, <1>14, <1>15 DEF Next

(* The batching transports abort nothing; and the boot follows its embed.   *)
LEMMA BootStep ==
  ASSUME ShapeInv, VectorInv, BatchStays, BootGoes, [Next]_vars
  PROVE  BatchStays' /\ BootGoes'
<1>0. Shape /\ Backoff /\ Anchors \in Embeds /\ Anchors \notin Calls
  BY EmbeddingAssumption DEF ShapeInv, Embeds
<1>1. ASSUME UNCHANGED <<flavor, phase, embed, aborted>>
      PROVE  BatchStays' /\ BootGoes'
  BY <1>1 DEF BatchStays, BootGoes, FanOut
<1>2. ASSUME NEW e \in Embeds, embed[e] \in {"token", "jobs"}, UNCHANGED flavor,
             Succeed(e) \/ \E f \in Failures : Fail(e, f)
      PROVE  BatchStays' /\ BootGoes'
  <2>1. BatchStays'
    BY <1>2 DEF BatchStays, FanOut, Succeed, Fail, Abandon
  <2>2. ASSUME Succeed(e)
        PROVE  BootGoes'
    BY <1>0, <1>2, <2>2 DEF BootGoes, Succeed, Shape
  <2>3. ASSUME NEW f \in Failures, Fail(e, f)
        PROVE  BootGoes'
    <3>1. CASE e = Anchors
      BY <1>0, <1>2, <2>3, <3>1 DEF BootGoes, Fail, Shape
    <3>2. CASE e # Anchors
      BY <1>0, <1>2, <2>3, <3>2 DEF BootGoes, Fail, Shape
    <3> QED
      BY <3>1, <3>2
  <2> QED
    BY <1>2, <2>1, <2>2, <2>3
<1>3. ASSUME NEW e \in Embeds, Begin(e) \/ Fetched(e)
      PROVE  BatchStays' /\ BootGoes'
  <2>1. UNCHANGED <<flavor, phase, aborted>>
    BY <1>3 DEF Begin, Fetched
  <2>2. BootGoes'
    BY <1>0, <1>3, <2>1 DEF BootGoes, Begin, Fetched, Shape
  <2> QED
    BY <2>1, <2>2 DEF BatchStays, FanOut
<1>4. ASSUME NEW e \in Embeds, FetchFails(e)
      PROVE  BatchStays' /\ BootGoes'
  BY <1>2, <1>4 DEF FetchFails
<1>5. ASSUME NEW j \in Jobs, Acquire(j) \/ Send(j) \/ Reap(j)
      PROVE  BatchStays' /\ BootGoes'
  BY <1>1, <1>5 DEF Acquire, Send, Reap
<1>6. ASSUME NEW j \in Jobs, TokenFails(j) \/ \E outcome \in Outcomes : Answer(j, outcome)
      PROVE  BatchStays' /\ BootGoes'
  <2>1. j[1] \in Embeds /\ UNCHANGED flavor /\ job[j] \in Holding
    BY <1>6, JobParts DEF TokenFails, Answer
  <2>2. \/ FanOut /\ UNCHANGED <<phase, embed, aborted>>
        \/ ~FanOut /\ (Succeed(j[1]) \/ \E f \in Failures : Fail(j[1], f))
    BY <1>6 DEF TokenFails, Answer, FanOut
  <2>3. ~FanOut => embed[j[1]] = "jobs"
    BY <2>1 DEF VectorInv, OneBatch
  <2>4. CASE UNCHANGED <<phase, embed, aborted>>
    BY <1>1, <2>1, <2>4
  <2>5. CASE ~FanOut /\ (Succeed(j[1]) \/ \E f \in Failures : Fail(j[1], f))
    <3>1. embed[j[1]] \in {"token", "jobs"}
      BY <2>3, <2>5
    <3> QED
      BY <1>2, <2>1, <2>5, <3>1
  <2> QED
    BY <2>2, <2>4, <2>5
<1>7. ASSUME NEW j \in Jobs, Join(j)
      PROVE  BatchStays' /\ BootGoes'
  <2>1. /\ j[1] \in Embeds /\ UNCHANGED flavor /\ embed[j[1]] \in {"token", "jobs"}
        /\ Succeed(j[1]) \/ UNCHANGED <<phase, embed, aborted>>
    BY <1>7, JobParts DEF Join
  <2>2. CASE Succeed(j[1])
    BY <1>2, <2>1, <2>2
  <2>3. CASE UNCHANGED <<phase, embed, aborted>>
    BY <1>1, <2>1, <2>3
  <2> QED
    BY <2>1, <2>2, <2>3
<1>8. ASSUME NEW j \in Jobs, JoinFails(j)
      PROVE  BatchStays' /\ BootGoes'
  BY <1>2, <1>8, JobParts DEF JoinFails
<1>9. ASSUME NEW c \in Calls, Drop(c)
      PROVE  BatchStays' /\ BootGoes'
  <2>1. BatchStays'
    BY <1>9 DEF Drop, Abandon, BatchStays, FanOut
  <2>2. embed'[Anchors] = embed[Anchors] /\ phase' = phase
    BY <1>0, <1>9 DEF Drop, Shape
  <2> QED
    BY <2>1, <2>2 DEF BootGoes
<1>10. CASE Retry
  BY <1>0, <1>10 DEF Retry, Backoff, BatchStays, BootGoes, FanOut
<1>11. CASE UNCHANGED vars
  BY <1>1, <1>11 DEF vars
<1> QED
  BY <1>3, <1>4, <1>5, <1>6, <1>7, <1>8, <1>9, <1>10, <1>11 DEF Next

(* So it stays, in every state. *)
LEMMA LiveAlways == Spec => [](ShapeInv /\ PermitsInv /\ VectorInv /\ LiveInv)
<1>1. Init => LiveInv
  BY LiveInit
<1>2. ShapeInv /\ VectorInv /\ LiveInv /\ [Next]_vars => LiveInv'
  BY NoneSpareStep, GoingStep, BootStep DEF LiveInv, AllGoing
<1> QED
  BY <1>1, <1>2, ShapeAlways, PermitsAlways, VectorsAlways, PTL DEF Spec

(***************************************************************************)
(* No deadlock among the embeds, whatever failed, was aborted, dropped or  *)
(* retried: who waits, waits for somebody who can move.  (That he does     *)
(* move is the fairness under which BootDecides and EmbedEnds are checked.)*)
(***************************************************************************)
THEOREM NobodyEverWaitsInVain == Spec => []NobodyWaitsInVain
<1>1. ASSUME ShapeInv, PermitsInv, VectorInv, LiveInv
      PROVE  NobodyWaitsInVain
  <2>1. queue # <<>> => permits = 0 /\ Holders # {}
    <3> SUFFICES ASSUME queue # <<>>
                 PROVE  permits = 0 /\ Holders # {}
      OBVIOUS
    <3>1. permits = 0
      BY <1>1 DEF LiveInv, NoneSpare
    <3>2. Cardinality(Holders) = MaxPermits /\ MaxPermits # 0
      <4>1. Cardinality(Holders) \in Nat /\ MaxPermits \in Nat \ {0}
        BY <1>1, FS_CardinalityType, EmbeddingAssumption DEF PermitsInv
      <4>2. permits + Cardinality(Holders) = MaxPermits
        BY <1>1 DEF PermitsInv, PermitsConserved
      <4> QED
        BY <3>1, <4>1, <4>2
    <3> QED
      BY <3>1, <3>2, FS_EmptySet
  <2>2. ASSUME NEW e \in Embeds, embed[e] = "jobs"
        PROVE  \E j \in Current(e) \ aborted : About(j)
    <3>1. PICK j \in Current(e) : About(j)
      BY <1>1, <2>2 DEF LiveInv, AllGoing, Going
    <3>2. j \notin aborted
      BY <1>1, <2>2, <3>1 DEF VectorInv, LiveNotAborted, LiveInv, BatchStays, Current
    <3> QED
      BY <3>1, <3>2
  <2> QED
    BY <1>1, <2>1, <2>2 DEF NobodyWaitsInVain, LiveInv, BootGoes, ShapeInv, Backoff
<1> QED
  BY <1>1, LiveAlways, PTL

(* A job that came to the semaphore later is not served before one that     *)
(* waits since earlier: it stays behind, or goes away without a permit.     *)
InOrder(c, d) ==
  PrecedesIn(queue, c, d) /\ IsIn(queue', c) =>
    PrecedesIn(queue', c, d) \/ ~(IsIn(queue', d) \/ d \in Holders')

NoneOvertaken == \A c, d \in Jobs : InOrder(c, d)

(***************************************************************************)
(* The semaphore is first come, first served, across the embeds that share *)
(* it, when jobs are aborted or dropped in line as well as when they end.  *)
(***************************************************************************)
THEOREM NobodyIsOvertaken == Spec => [][NoneOvertaken]_vars
<1>1. ASSUME ShapeInv, [Next]_vars
      PROVE  NoneOvertaken
  <2> SUFFICES ASSUME NEW c \in Jobs, NEW d \in Jobs, PrecedesIn(queue, c, d),
                      IsIn(queue', c), IsIn(queue', d) \/ d \in Holders'
               PROVE  PrecedesIn(queue', c, d)
    BY DEF NoneOvertaken, InOrder
  <2>1. /\ queue \in Seq(Jobs) /\ DOMAIN queue = 1..Len(queue)
        /\ \A i, j \in 1..Len(queue) : queue[i] = queue[j] => i = j
    BY <1>1 DEF ShapeInv, Shape, QueueLinked
  <2>2. \/ queue' = queue
        \/ \E e \in Jobs : queue' = Append(queue, e)
        \/ queue # <<>> /\ queue' = Tail(queue)
        \/ \E k \in 1..Len(queue) : queue' = RemoveAt(queue, k)
    BY <1>1, <2>1, PermitMoves
       DEF PermitMove, NoPermitMove, Enters, Waits, Withdraws, Frees, HandsOn
  <2>3. IsIn(queue', d)
    <3>1. PICK p, q \in 1..Len(queue) : p < q /\ queue[p] = c /\ queue[q] = d
      BY <2>1 DEF PrecedesIn
    <3>2. d \notin Holders
      BY <1>1, <3>1 DEF ShapeInv, QueueLinked, Holders
    <3>3. CASE d \in Holders'
      <4>1. PICK e \in Jobs : Enters(e) \/ HandsOn(e)
        BY <1>1, <3>2, <3>3, PermitMoves
           DEF PermitMove, NoPermitMove, Waits, Withdraws, Frees
      <4>2. CASE Enters(e)
        <5>1. d # e
          BY <1>1, <3>1, <4>2 DEF Enters, ShapeInv, QueueLinked
        <5> QED
          BY <3>2, <3>3, <4>2, <5>1 DEF Enters
      <4>3. CASE HandsOn(e)
        <5>1. d = queue[1] /\ 1 \in 1..Len(queue)
          BY <2>1, <3>2, <3>3, <4>3 DEF HandsOn
        <5>2. q = 1
          BY <2>1, <3>1, <5>1
        <5> QED
          BY <3>1, <5>2
      <4> QED
        BY <4>1, <4>2, <4>3
    <3> QED
      BY <3>3
  <2> QED
    BY <2>1, <2>2, <2>3, LineKeepsOrder
<1> QED
  BY <1>1, ShapeAlways, PTL DEF Spec

----------------------------------------------------------------------------
(***************************************************************************)
(* Nothing is undone: a job only goes on, so that no request is sent twice *)
(* for one attempt; what an embed returned stays what it was; the boot     *)
(* decides once; and an attempt is counted only after a backoff.           *)
(***************************************************************************)
Stage(s) ==
  CASE s = "none" -> 0
    [] s = "spawned" -> 1
    [] s = "queued" -> 2
    [] s = "granted" -> 3
    [] s = "sent" -> 4
    [] s \in Outcomes -> 5
    [] s = "joined" -> 6

Over == {"ok", "failed", "gone"}

Onward(j) == job'[j] = job[j] \/ Stage(job[j]) < Stage(job'[j])

Settled(e) == embed[e] \in Over => embed'[e] = embed[e] /\ out'[e] = out[e]

BootSettled ==
  /\ phase \in {"ready", "failed"} => phase' = phase
  /\ attempt' = attempt \/ (attempt' = attempt + 1 /\ phase = "backoff")

Advances == (\A j \in Jobs : Onward(j)) /\ (\A e \in Embeds : Settled(e)) /\ BootSettled

EngineAdvances == [][Advances]_vars

(* The states of a job in their order. *)
LEMMA StageValues ==
  /\ Stage("none") = 0 /\ Stage("spawned") = 1 /\ Stage("queued") = 2
  /\ Stage("granted") = 3 /\ Stage("sent") = 4 /\ Stage("joined") = 6
  /\ \A s \in Outcomes : Stage(s) = 5
BY DEF Stage

(* A job that leaves moves on, and so does the one that gets its permit.    *)
LEMMA LeftOnward ==
  ASSUME NEW j \in Jobs, NEW s \in {"joined"} \cup Outcomes, JobLeft(j, s),
         job[j] \in {"spawned", "queued"} \cup Holding
  PROVE  \A k \in Jobs : Onward(k)
<1>1. Onward(j)
  BY StageValues DEF JobLeft, Onward
<1>2. ASSUME NEW k \in Jobs \ {j}
      PROVE  Onward(k)
  BY <1>2, StageValues DEF JobLeft, Onward
<1> QED
  BY <1>1, <1>2

(* When a JoinSet is dropped its finished tasks go with it. *)
LEMMA DiscardedOnward ==
  ASSUME NEW e \in Embeds, job' = Discarded(e)
  PROVE  \A k \in Jobs : Onward(k)
BY StageValues DEF Discarded, Onward

(* Every step takes its jobs on. *)
LEMMA JobsAdvance ==
  ASSUME ShapeInv, VectorInv, Next
  PROVE  \A k \in Jobs : Onward(k)
<1>0. Shape /\ QueueLinked /\ Fresh /\ job \in [Jobs -> JobState] /\ attempt \in 1..MaxAttempts
  BY DEF ShapeInv, Shape
<1>1. ASSUME job' = job
      PROVE  \A k \in Jobs : Onward(k)
  BY <1>1 DEF Onward
<1>2. ASSUME NEW j \in Jobs, NEW s \in JobState, job' = [job EXCEPT ![j] = s],
             Stage(job[j]) < Stage(s)
      PROVE  \A k \in Jobs : Onward(k)
  BY <1>0, <1>2 DEF Onward
<1>3. ASSUME NEW e \in Embeds, Begin(e)
      PROVE  \A k \in Jobs : Onward(k)
  <2>1. CASE FanOut
    BY <1>1, <1>3, <2>1 DEF Begin
  <2>2. CASE ~FanOut
    <3> DEFINE j == <<e, Attempt(e), 0>>
    <3>1. j \in Jobs /\ j[1] = e /\ j[2] = Attempt(e)
      <4>1. 0 <= TextCount[e]
        BY EmbeddingAssumption
      <4> QED
        BY <1>0, <4>1, JobParts
    <3>2. job' = [job EXCEPT ![j] = "spawned"]
      BY <1>3, <2>2 DEF Begin
    <3>3. Ahead(e, Attempt(e))
      BY <1>3 DEF Begin, Ahead
    <3> HIDE DEF j
    <3>4. job[j] = "none"
      BY <1>0, <3>1, <3>3 DEF Fresh
    <3> QED
      <4>1. Stage(job[j]) < Stage("spawned")
        BY <3>4, StageValues
      <4> QED
        BY <1>2, <3>1, <3>2, <4>1
  <2> QED
    BY <2>1, <2>2
<1>4. ASSUME NEW e \in Embeds, Fetched(e)
      PROVE  \A k \in Jobs : Onward(k)
  <2> SUFFICES ASSUME NEW k \in Jobs, job'[k] # job[k] PROVE Onward(k)
    BY DEF Onward
  <2>1. k \in Current(e) /\ job'[k] = "spawned"
    BY <1>4 DEF Fetched
  <2>2. Ahead(k[1], k[2])
    <3>1. embed[e] = "token" /\ ~(e = Anchors /\ phase = "backoff")
      BY <1>4 DEF Fetched, ShapeInv, Backoff
    <3> QED
      BY <2>1, <3>1 DEF Ahead, Current
  <2>3. job[k] = "none"
    BY <1>0, <2>2 DEF Fresh
  <2> QED
    BY <2>1, <2>3, StageValues DEF Onward
<1>5. ASSUME NEW j \in Jobs, Acquire(j)
      PROVE  \A k \in Jobs : Onward(k)
  <2>1. PICK s \in {"granted", "queued"} : job' = [job EXCEPT ![j] = s]
    BY <1>5 DEF Acquire
  <2>2. Stage(job[j]) < Stage(s)
    BY <1>5, StageValues DEF Acquire
  <2> QED
    BY <1>2, <2>1, <2>2
<1>6. ASSUME NEW j \in Jobs, Send(j)
      PROVE  \A k \in Jobs : Onward(k)
  <2>1. job' = [job EXCEPT ![j] = "sent"] /\ Stage(job[j]) < Stage("sent")
    BY <1>6, StageValues DEF Send
  <2> QED
    BY <1>2, <2>1
<1>7. ASSUME NEW j \in Jobs, TokenFails(j)
      PROVE  \A k \in Jobs : Onward(k)
  <2>1. JobLeft(j, "joined") /\ job[j] \in Holding
    BY <1>0, <1>7, ReleaseEffect DEF TokenFails
  <2> QED
    BY <2>1, LeftOnward
<1>8. ASSUME NEW j \in Jobs, NEW outcome \in Outcomes, Answer(j, outcome)
      PROVE  \A k \in Jobs : Onward(k)
  <2>1. PICK s \in {"joined", outcome} : Release(j, s)
    BY <1>8 DEF Answer
  <2>2. JobLeft(j, s) /\ job[j] \in Holding
    BY <1>0, <1>8, <2>1, ReleaseEffect DEF Answer
  <2> QED
    BY <2>2, LeftOnward
<1>9. ASSUME NEW j \in Jobs, Join(j)
      PROVE  \A k \in Jobs : Onward(k)
  <2>1. job' = [job EXCEPT ![j] = "joined"] /\ Stage(job[j]) < Stage("joined")
    BY <1>9, StageValues DEF Join
  <2> QED
    BY <1>2, <2>1
<1>10. ASSUME NEW j \in Jobs, JoinFails(j)
       PROVE  \A k \in Jobs : Onward(k)
  BY <1>10, JobParts, DiscardedOnward DEF JoinFails
<1>11. ASSUME NEW j \in Jobs, Reap(j)
       PROVE  \A k \in Jobs : Onward(k)
  <2>1. JobLeft(j, "joined") /\ job[j] \in {"spawned", "queued"} \cup Holding
    BY <1>0, <1>11, LeaveEffect DEF Reap
  <2> QED
    BY <2>1, LeftOnward
<1>12. ASSUME NEW c \in Calls, Drop(c)
       PROVE  \A k \in Jobs : Onward(k)
  <2>1. c \in Embeds /\ c # Anchors
    BY EmbeddingAssumption DEF Embeds
  <2>2. CASE FanOut
    BY <1>12, <2>1, <2>2, DiscardedOnward DEF Drop
  <2>3. CASE ~FanOut
    <3> DEFINE j == <<c, 1, 0>>
    <3>1. j \in Jobs
      <4>1. 0 <= TextCount[c] /\ Attempt(c) = 1
        BY <2>1, EmbeddingAssumption DEF Attempt
      <4> QED
        BY <1>0, <2>1, <4>1, JobParts
    <3>2. Leave(j)
      BY <1>12, <2>3 DEF Drop
    <3> HIDE DEF j
    <3>3. JobLeft(j, "joined") /\ job[j] \in {"spawned", "queued"} \cup Holding
      BY <1>0, <3>1, <3>2, LeaveEffect
    <3> QED
      BY <3>1, <3>3, LeftOnward
  <2> QED
    BY <2>2, <2>3
<1>13. CASE \E e \in Embeds : FetchFails(e)
  BY <1>1, <1>13 DEF FetchFails
<1>14. CASE Retry
  BY <1>1, <1>14 DEF Retry
<1> QED
  BY <1>3, <1>4, <1>5, <1>6, <1>7, <1>8, <1>9, <1>10, <1>11, <1>12, <1>13, <1>14 DEF Next

(* A step concerns one embed, which is not over, or none; and the boot only *)
(* while it is not decided.                                                 *)
LEMMA EmbedsSettle ==
  ASSUME ShapeInv, VectorInv, BootGoes, Next
  PROVE  (\A d \in Embeds : Settled(d)) /\ BootSettled
<1>0. Shape /\ Backoff /\ DOMAIN out = Embeds /\ Anchors \notin Calls /\ Anchors \in Embeds
  BY EmbeddingAssumption DEF ShapeInv, VectorInv, OutShape, Embeds
<1> DEFINE Kept == (\A d \in Embeds : Settled(d)) /\ BootSettled
<1>1. ASSUME UNCHANGED <<embed, out, phase, attempt>>
      PROVE  Kept
  BY <1>1 DEF Settled, BootSettled
<1>2. ASSUME NEW e \in Embeds, embed[e] \notin Over,
             \A d \in Embeds \ {e} : embed'[d] = embed[d] /\ out'[d] = out[d],
             UNCHANGED attempt, e # Anchors \/ phase # "boot" => phase' = phase
      PROVE  Kept
  <2>1. \A d \in Embeds : Settled(d)
    BY <1>2 DEF Settled
  <2> QED
    BY <1>2, <2>1 DEF BootSettled
<1>3. ASSUME NEW e \in Embeds, embed[e] \in {"token", "jobs"}, UNCHANGED attempt,
             \E f \in Failures : Fail(e, f)
      PROVE  Kept
  <2>1. PICK f \in Failures : Fail(e, f)
    BY <1>3
  <2>2. \A d \in Embeds \ {e} : embed'[d] = embed[d] /\ out'[d] = out[d]
    BY <1>0, <2>1 DEF Fail, Shape
  <2>3. e # Anchors => phase' = phase
    BY <2>1 DEF Fail
  <2>4. e = Anchors => phase = "boot"
    BY <1>3 DEF BootGoes
  <2> QED
    BY <1>2, <1>3, <2>2, <2>3, <2>4 DEF Over
<1>4. ASSUME NEW e \in Embeds, embed[e] \in {"token", "jobs"}, UNCHANGED attempt, Succeed(e),
             \A d \in Embeds \ {e} : out'[d] = out[d]
      PROVE  Kept
  <2>1. \A d \in Embeds \ {e} : embed'[d] = embed[d]
    BY <1>0, <1>4 DEF Succeed, Shape
  <2>2. e # Anchors => phase' = phase
    BY <1>4 DEF Succeed
  <2>3. e = Anchors => phase = "boot"
    BY <1>4 DEF BootGoes
  <2> QED
    BY <1>2, <1>4, <2>1, <2>2, <2>3 DEF Over
<1>5. ASSUME NEW e \in Embeds, Begin(e) \/ Fetched(e)
      PROVE  Kept
  <2>1. embed[e] \in {"idle", "token"} /\ UNCHANGED <<out, phase, attempt>>
    BY <1>5 DEF Begin, Fetched
  <2>2. \A d \in Embeds \ {e} : embed'[d] = embed[d]
    BY <1>0, <1>5 DEF Begin, Fetched, Shape
  <2> QED
    BY <1>2, <2>1, <2>2 DEF Over
<1>6. ASSUME NEW e \in Embeds, FetchFails(e)
      PROVE  Kept
  BY <1>3, <1>6 DEF FetchFails
<1>7. ASSUME NEW j \in Jobs, Acquire(j) \/ Send(j) \/ Reap(j)
      PROVE  Kept
  BY <1>1, <1>7 DEF Acquire, Send, Reap
<1>8. ASSUME NEW j \in Jobs, job[j] \in Holding, ~FanOut
      PROVE  embed[j[1]] = "jobs" /\ j[1] \in Embeds
  BY <1>8, JobParts DEF VectorInv, OneBatch
<1>9. ASSUME NEW j \in Jobs, TokenFails(j)
      PROVE  Kept
  <2>1. embed[j[1]] = "jobs" /\ j[1] \in Embeds
    BY <1>8, <1>9 DEF TokenFails, FanOut
  <2> QED
    BY <1>3, <1>9, <2>1 DEF TokenFails
<1>10. ASSUME NEW j \in Jobs, NEW outcome \in Outcomes, Answer(j, outcome)
       PROVE  Kept
  <2>1. UNCHANGED attempt /\ job[j] \in Holding
    BY <1>10 DEF Answer
  <2>2. CASE FanOut
    BY <1>1, <1>10, <2>2 DEF Answer
  <2>3. CASE ~FanOut /\ outcome = "vectors"
    <3>1. Succeed(j[1]) /\ embed[j[1]] = "jobs" /\ j[1] \in Embeds
      BY <1>8, <1>10, <2>1, <2>3 DEF Answer
    <3>2. \A d \in Embeds \ {j[1]} : out'[d] = out[d]
      BY <1>0, <1>10, <2>3 DEF Answer
    <3> QED
      BY <1>4, <2>1, <3>1, <3>2
  <2>4. CASE ~FanOut /\ outcome # "vectors"
    <3>1. Fail(j[1], outcome) /\ embed[j[1]] = "jobs" /\ j[1] \in Embeds
      BY <1>8, <1>10, <2>1, <2>4 DEF Answer
    <3> QED
      BY <1>3, <2>1, <2>4, <3>1
  <2> QED
    BY <2>2, <2>3, <2>4
<1>11. ASSUME NEW j \in Jobs, Join(j)
       PROVE  Kept
  <2>1. /\ j[1] \in Embeds /\ embed[j[1]] = "jobs" /\ UNCHANGED attempt
        /\ Succeed(j[1]) \/ UNCHANGED <<embed, phase>>
    BY <1>11, JobParts DEF Join
  <2>2. \A d \in Embeds \ {j[1]} : out'[d] = out[d]
    BY <1>0, <1>11 DEF Join
  <2>3. CASE Succeed(j[1])
    BY <1>4, <2>1, <2>2, <2>3
  <2>4. CASE UNCHANGED <<embed, phase>>
    BY <1>2, <2>1, <2>2, <2>4 DEF Over
  <2> QED
    BY <2>1, <2>3, <2>4
<1>12. ASSUME NEW j \in Jobs, JoinFails(j)
       PROVE  Kept
  BY <1>3, <1>12, JobParts DEF JoinFails
<1>13. ASSUME NEW c \in Calls, Drop(c)
       PROVE  Kept
  <2>1. /\ c \in Embeds /\ embed[c] \in {"token", "jobs"} /\ UNCHANGED <<phase, attempt>>
        /\ \A d \in Embeds \ {c} : embed'[d] = embed[d] /\ out'[d] = out[d]
    BY <1>0, <1>13 DEF Drop, Shape, Embeds
  <2> QED
    BY <1>2, <2>1 DEF Over
<1>14. CASE Retry
  BY <1>14 DEF Retry, Settled, BootSettled
<1> QED
  BY <1>5, <1>6, <1>7, <1>9, <1>10, <1>11, <1>12, <1>13, <1>14 DEF Next

(***************************************************************************)
(* A JoinSet that is dropped aborts its tasks, and a retry embeds all the  *)
(* anchors anew: neither an abort, nor a straggler of an earlier attempt,  *)
(* nor a disconnect takes back what was sent, returned or decided.         *)
(***************************************************************************)
THEOREM EngineOnlyAdvances == Spec => EngineAdvances
<1>1. ShapeInv /\ VectorInv /\ LiveInv /\ [Next]_vars => [Advances]_vars
  BY JobsAdvance, EmbedsSettle DEF LiveInv, Advances
<1> QED
  BY <1>1, LiveAlways, PTL DEF Spec, EngineAdvances

=============================================================================
