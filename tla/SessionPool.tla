---------------------------- MODULE SessionPool ----------------------------
(***************************************************************************)
(* The two-layered admission of the embedded NLI engine                    *)
(* (engines/deberta_v3_xsmall_zeroshot.rs).                                *)
(*                                                                         *)
(* Layer 1 is asynchronous: `classify` takes one of PoolSize permits of a  *)
(* fair tokio semaphore and only then hands a closure, which OWNS the      *)
(* permit, to tokio's blocking pool.  Layer 2 is synchronous: the closure  *)
(* checks an ORT session out of a mutex-protected vector, waiting on a     *)
(* condition variable while the vector is empty.                           *)
(*                                                                         *)
(* A call's future can be dropped at any await point, because the client   *)
(* disconnects and the HTTP server drops the request handler.  Dropping    *)
(* the future does not stop a closure that has been spawned.               *)
(*                                                                         *)
(* DirectCalls are the callers of `classify_sync`, which bypass layer 1;   *)
(* the production binary has none (DirectCalls = {}).                      *)
(*                                                                         *)
(* Every critical section of the pool's mutex is one action.  Which idle   *)
(* session is popped is left open: the sessions are interchangeable.       *)
(***************************************************************************)
EXTENDS Naturals, Sequences, FiniteSets, SequencesExt

CONSTANTS
  Calls,        \* asynchronous classify calls (each can be used again)
  DirectCalls,  \* synchronous callers that take no permit
  Sessions,     \* the ORT sessions the engine built
  NoSession     \* the lease of a task that holds none

ASSUME PoolAssumption ==
  /\ IsFiniteSet(Calls) /\ IsFiniteSet(DirectCalls) /\ IsFiniteSet(Sessions)
  /\ Calls \cap DirectCalls = {}
  /\ Sessions # {}               \* `pool_size.max(1)`
  /\ NoSession \notin Sessions

PoolSize == Cardinality(Sessions)

Users == Calls \cup DirectCalls

VARIABLES
  permits,  \* permits of `admission` that nobody owns
  queue,    \* the semaphore's waiters, the oldest first
  fut,      \* the state of each call's `classify` future
  task,     \* the state of each user's run of `classify_sync`
  lease,    \* the session each task has checked out
  idle      \* the pool's vector of idle sessions

vars == <<permits, queue, fut, task, lease, idle>>

(***************************************************************************)
(* fut:  "idle"     no call in progress                                    *)
(*       "queued"   waiting in the semaphore                               *)
(*       "granted"  the semaphore has assigned it a permit; not polled yet *)
(*       "awaiting" awaiting the join handle of its blocking task          *)
(*       "dropped"  dropped by its owner while its task still runs         *)
(* task: "none"     not started                                            *)
(*       "spawned"  handed to the blocking pool, up to the pool's lock     *)
(*       "parked"   waiting on the condition variable                      *)
(*       "woken"    notified, the mutex not yet taken again                *)
(*       "leased"   running inference on its session                       *)
(*       "returned" has dropped its lease, still owns its permit           *)
(*       "ending"   has dropped its permit, its thread not yet given back  *)
(*       "done"     finished, its result not yet read                      *)
(***************************************************************************)
FutState  == {"idle", "queued", "granted", "awaiting", "dropped"}
TaskState == {"none", "spawned", "parked", "woken", "leased", "returned", "ending", "done"}

(* The states of a closure that has work to do in the blocking pool. *)
Running == {"spawned", "parked", "woken", "leased", "returned"}

RunningTasks == {c \in Calls : task[c] \in Running}
InTask(state) == {u \in Users : task[u] = state}

(* The calls that own a permit: in the semaphore's hand-over, or in a closure. *)
Holders == {c \in Calls : fut[c] = "granted" \/ task[c] \in Running}

----------------------------------------------------------------------------
(* tokio's semaphore.  A permit that call c gives back goes straight to the *)
(* oldest waiter, if there is one; c's own future is in state f afterwards. *)

(* The slip of waking nobody: the permit is freed and the waiters sleep on. *)
ReleaseToNobody(c, f) ==
  /\ permits' = permits + 1
  /\ fut' = [fut EXCEPT ![c] = f]
  /\ UNCHANGED queue

(* The slip of an unfair hand-over, to the call that came last. *)
ReleaseToYoungest(c, f) ==
  IF queue = <<>>
    THEN ReleaseToNobody(c, f)
    ELSE /\ queue' = Front(queue)
         /\ fut' = [fut EXCEPT ![c] = f, ![Last(queue)] = "granted"]
         /\ UNCHANGED permits

ReleasePermit(c, f) ==
  IF queue = <<>>
    THEN /\ permits' = permits + 1
         /\ fut' = [fut EXCEPT ![c] = f]
         /\ UNCHANGED queue
    ELSE /\ queue' = Tail(queue)
         /\ fut' = [fut EXCEPT ![c] = f, ![Head(queue)] = "granted"]
         /\ UNCHANGED permits

(* `notify_one`: wakes one of the parked tasks, if any.  t is the task      *)
(* function of the step that notifies.                                      *)
NotifyOne(t) ==
  IF InTask("parked") = {}
    THEN task' = t
    ELSE \E w \in InTask("parked") : task' = [t EXCEPT ![w] = "woken"]


----------------------------------------------------------------------------
(* The slip of a semaphore sized by another number than the pool. *)
InitOnePermitMore ==
  /\ permits = PoolSize + 1
  /\ queue = <<>>
  /\ fut = [c \in Calls |-> "idle"]
  /\ task = [u \in Users |-> "none"]
  /\ lease = [u \in Users |-> NoSession]
  /\ idle = Sessions

Init ==
  /\ permits = PoolSize
  /\ queue = <<>>
  /\ fut = [c \in Calls |-> "idle"]
  /\ task = [u \in Users |-> "none"]
  /\ lease = [u \in Users |-> NoSession]
  /\ idle = Sessions

(* `classify` is first polled while a permit is free: it takes the permit   *)
(* and spawns the closure in the same poll.                                 *)
ClassifyAtOnce(c) ==
  /\ fut[c] = "idle" /\ task[c] = "none"
  /\ permits > 0
  /\ permits' = permits - 1
  /\ fut' = [fut EXCEPT ![c] = "awaiting"]
  /\ task' = [task EXCEPT ![c] = "spawned"]
  /\ UNCHANGED <<queue, lease, idle>>

(* ... or while none is: the future joins the semaphore's queue. *)
ClassifyQueued(c) ==
  /\ fut[c] = "idle" /\ task[c] = "none"
  /\ permits = 0
  /\ queue' = Append(queue, c)
  /\ fut' = [fut EXCEPT ![c] = "queued"]
  /\ UNCHANGED <<permits, task, lease, idle>>

(* A call that was given a permit is polled again and spawns its closure. *)
ResumeClassify(c) ==
  /\ fut[c] = "granted"
  /\ fut' = [fut EXCEPT ![c] = "awaiting"]
  /\ task' = [task EXCEPT ![c] = "spawned"]
  /\ UNCHANGED <<permits, queue, lease, idle>>

(* The result of the closure (a panic included, as an error) is read. *)
Join(c) ==
  /\ fut[c] = "awaiting" /\ task[c] = "done"
  /\ fut' = [fut EXCEPT ![c] = "idle"]
  /\ task' = [task EXCEPT ![c] = "none"]
  /\ UNCHANGED <<permits, queue, lease, idle>>

----------------------------------------------------------------------------
(* The future is dropped: in the queue it leaves the line, with a permit    *)
(* already assigned it gives the permit back, and when its closure has been *)
(* spawned the closure runs on without it.                                  *)

(* The slip of a future that goes without leaving the line. *)
DropQueuedInPlace(c) ==
  /\ \E i \in DOMAIN queue : queue[i] = c
  /\ fut' = [fut EXCEPT ![c] = "idle"]
  /\ UNCHANGED <<permits, queue, task, lease, idle>>

DropQueued(c) ==
  /\ \E i \in DOMAIN queue : queue[i] = c /\ queue' = RemoveAt(queue, i)
  /\ fut' = [fut EXCEPT ![c] = "idle"]
  /\ UNCHANGED <<permits, task, lease, idle>>

DropGranted(c) ==
  /\ fut[c] = "granted"
  /\ ReleasePermit(c, "idle")
  /\ UNCHANGED <<task, lease, idle>>

(* The slip of a permit that belongs to the future and not to the closure. *)
DropAwaitingWithPermit(c) ==
  /\ fut[c] = "awaiting" /\ task[c] # "done"
  /\ ReleasePermit(c, "dropped")
  /\ UNCHANGED <<task, lease, idle>>

DropAwaiting(c) ==
  /\ fut[c] = "awaiting"
  /\ \/ /\ task[c] = "done"
        /\ fut' = [fut EXCEPT ![c] = "idle"]
        /\ task' = [task EXCEPT ![c] = "none"]
     \/ /\ task[c] # "done"
        /\ fut' = [fut EXCEPT ![c] = "dropped"]
        /\ UNCHANGED task
  /\ UNCHANGED <<permits, queue, lease, idle>>

Drop(c) == DropQueued(c) \/ DropGranted(c) \/ DropAwaiting(c)

----------------------------------------------------------------------------
(* The body of the closure, and of a direct call. *)

(* Tokenization or tensor construction fails before a session is asked for. *)
FailEarly(u) ==
  /\ task[u] = "spawned"
  /\ task' = [task EXCEPT ![u] = "returned"]
  /\ UNCHANGED <<permits, queue, fut, lease, idle>>

(* `acquire`, on its first look and after each wake-up: pop a session ... *)
Checkout(u) ==
  /\ task[u] \in {"spawned", "woken"}
  /\ \E s \in idle :
       /\ idle' = idle \ {s}
       /\ lease' = [lease EXCEPT ![u] = s]
  /\ task' = [task EXCEPT ![u] = "leased"]
  /\ UNCHANGED <<permits, queue, fut>>

(* ... or, while there is none, wait. *)
Park(u) ==
  /\ task[u] \in {"spawned", "woken"}
  /\ idle = {}
  /\ task' = [task EXCEPT ![u] = "parked"]
  /\ UNCHANGED <<permits, queue, fut, lease, idle>>

(* A condition variable may wake a thread that nobody notified. *)
SpuriousWake(u) ==
  /\ task[u] = "parked"
  /\ task' = [task EXCEPT ![u] = "woken"]
  /\ UNCHANGED <<permits, queue, fut, lease, idle>>

(* The slip of a pass that, when it panics, takes its session with it. *)
ReturnOrLoseSession(u) ==
  /\ task[u] = "leased"
  /\ idle' \in {idle, idle \cup {lease[u]}}
  /\ lease' = [lease EXCEPT ![u] = NoSession]
  /\ NotifyOne([task EXCEPT ![u] = "returned"])
  /\ UNCHANGED <<permits, queue, fut>>

(* The slip of a session that is pushed back without a notification. *)
ReturnUnnotified(u) ==
  /\ task[u] = "leased"
  /\ idle' = idle \cup {lease[u]}
  /\ lease' = [lease EXCEPT ![u] = NoSession]
  /\ task' = [task EXCEPT ![u] = "returned"]
  /\ UNCHANGED <<permits, queue, fut>>

(* The pass ends (with scores, an error, or a panic that unwinds) and       *)
(* `PooledSession::drop` pushes the session back and notifies.              *)
ReturnSession(u) ==
  /\ task[u] = "leased"
  /\ idle' = idle \cup {lease[u]}
  /\ lease' = [lease EXCEPT ![u] = NoSession]
  /\ NotifyOne([task EXCEPT ![u] = "returned"])
  /\ UNCHANGED <<permits, queue, fut>>

(* The slip of a finished task whose dropped future keeps the permit. *)
FinishForgetful(c) ==
  /\ task[c] = "returned"
  /\ task' = [task EXCEPT ![c] = "ending"]
  /\ IF fut[c] = "dropped"
       THEN UNCHANGED <<permits, queue, fut>>
       ELSE ReleasePermit(c, fut[c])
  /\ UNCHANGED <<lease, idle>>

(* The slip of a closure that ends only when somebody reads its result. *)
FinishIfAwaited(c) ==
  /\ task[c] = "returned" /\ fut[c] = "awaiting"
  /\ task' = [task EXCEPT ![c] = "ending"]
  /\ ReleasePermit(c, fut[c])
  /\ UNCHANGED <<lease, idle>>

(* The body of the closure ends: `_permit`, declared first, is dropped last.*)
Finish(c) ==
  /\ task[c] = "returned"
  /\ task' = [task EXCEPT ![c] = "ending"]
  /\ ReleasePermit(c, fut[c])
  /\ UNCHANGED <<lease, idle>>

(* Only then does its thread come free, while the next closure may already  *)
(* run on another.  The result of a call whose future is gone is thrown     *)
(* away.                                                                    *)
EndTask(c) ==
  /\ task[c] = "ending"
  /\ IF fut[c] = "dropped"
       THEN task' = [task EXCEPT ![c] = "none"] /\ fut' = [fut EXCEPT ![c] = "idle"]
       ELSE task' = [task EXCEPT ![c] = "done"] /\ UNCHANGED fut
  /\ UNCHANGED <<permits, queue, lease, idle>>

(* `classify_sync` called without a permit, and its return. *)
DirectCall(u) ==
  /\ task[u] = "none"
  /\ task' = [task EXCEPT ![u] = "spawned"]
  /\ UNCHANGED <<permits, queue, fut, lease, idle>>

DirectReturn(u) ==
  /\ task[u] = "returned"
  /\ task' = [task EXCEPT ![u] = "none"]
  /\ UNCHANGED <<permits, queue, fut, lease, idle>>

----------------------------------------------------------------------------
Future(c) == ClassifyAtOnce(c) \/ ClassifyQueued(c) \/ ResumeClassify(c) \/ Join(c)

Body(u) ==
  \/ FailEarly(u) \/ Checkout(u) \/ Park(u) \/ SpuriousWake(u) \/ ReturnSession(u)

Next ==
  \/ \E c \in Calls : Future(c) \/ Drop(c) \/ Finish(c) \/ EndTask(c)
  \/ \E u \in Users : Body(u)
  \/ \E u \in DirectCalls : DirectCall(u) \/ DirectReturn(u)

(* A woken future is polled, a spawned closure gets a thread, the mutex is  *)
(* granted, and a pass over a bounded tensor ends.  Nobody has to call or   *)
(* to disconnect.                                                           *)
Fairness ==
  /\ \A c \in Calls :
       WF_vars(ResumeClassify(c)) /\ WF_vars(Join(c)) /\ WF_vars(Finish(c))
         /\ WF_vars(EndTask(c))
  /\ \A u \in Users : WF_vars(Checkout(u)) /\ WF_vars(Park(u)) /\ WF_vars(ReturnSession(u))
  /\ \A u \in DirectCalls : WF_vars(DirectReturn(u))

Spec == Init /\ [][Next]_vars

FairSpec == Spec /\ Fairness

----------------------------------------------------------------------------
(* Every variable stays in its range. *)
TypeOK ==
  /\ permits \in 0..PoolSize
  /\ queue \in Seq(Calls)
  /\ fut \in [Calls -> FutState]
  /\ task \in [Users -> TaskState]
  /\ lease \in [Users -> Sessions \cup {NoSession}]
  /\ idle \in SUBSET Sessions

(* No permit is lost or duplicated, whichever of the future and its closure *)
(* ends first: the free permits and the calls that own one always add up.   *)
PermitsConserved == permits + Cardinality(Holders) = PoolSize

(* Every session is either idle or leased to exactly one task, through      *)
(* errors, panics and abandoned calls alike.                                *)
SessionsConserved ==
  /\ \A s \in Sessions : s \in idle <=> \A u \in Users : lease[u] # s
  /\ \A u, v \in Users : lease[u] = lease[v] /\ lease[u] # NoSession => u = v

(* "At most `pool_size` blocking threads ever exist": the closures that     *)
(* work, wait or are yet to start on tokio's blocking pool, those of        *)
(* disconnected clients included.  Not counted is a thread that has dropped *)
(* its permit and has nothing left but to hand over the result.             *)
BoundedBlocking == Cardinality(RunningTasks) <= PoolSize

(* The queue is exactly the futures that wait, each once, and nobody waits  *)
(* while a permit is free.                                                  *)
QueueExact ==
  /\ \A c \in Calls : fut[c] = "queued" <=> \E i \in DOMAIN queue : queue[i] = c
  /\ \A i, j \in DOMAIN queue : queue[i] = queue[j] => i = j
  /\ queue # <<>> => permits = 0

(* "With admission bounded upstream it never meaningfully blocks": without  *)
(* direct callers a task that reaches the pool finds a session, so no       *)
(* blocking thread ever waits on the condition variable.                    *)
AdmittedNeverParks == DirectCalls = {} => InTask("parked") = {}

(* No wake-up is lost: while a task is parked, every idle session has a     *)
(* woken task on its way to it.                                             *)
NoLostWakeup ==
  InTask("parked") # {} => Cardinality(idle) <= Cardinality(InTask("woken"))

(* A call in the queue is answered or dropped: nobody starves, however many *)
(* later calls arrive and however many clients disconnect.                  *)
QueuedIsServed == \A c \in Calls : fut[c] = "queued" ~> fut[c] # "queued"

(* The closure of a disconnected client ends and its permit comes back.     *)
AbandonedIsReclaimed == \A c \in Calls : fut[c] = "dropped" ~> c \notin Holders

(* The pool serves its calls first-come, first-served, PoolSize at a time.  *)
Promise ==
  INSTANCE Admission WITH Slots <- PoolSize, line <- queue, served <- Holders

ImplementsAdmission == Promise!Spec
=============================================================================
