------------------------- MODULE SessionPoolProofs -------------------------
(***************************************************************************)
(* Proofs about SessionPool, for any number of calls, direct callers and   *)
(* sessions.                                                               *)
(***************************************************************************)
EXTENDS SessionPool, DataLemmas, FiniteSetTheorems

(***************************************************************************)
(* The inductive invariant.  The type invariant alone cannot be preserved: *)
(* that the oldest waiter is a call without a permit and without a task    *)
(* needs the queue to match the futures (QueueLinked), and that a call can *)
(* be used again needs its future and its task to end together             *)
(* (FutureAndTask); that the pool gets a session back, and not NoSession,  *)
(* needs the leases to match the tasks (LeaseIffLeased).                   *)
(***************************************************************************)
Shape ==
  /\ permits \in Nat
  /\ queue \in Seq(Calls)
  /\ fut \in [Calls -> FutState]
  /\ task \in [Users -> TaskState]
  /\ lease \in [Users -> Sessions \cup {NoSession}]
  /\ idle \in SUBSET Sessions

QueueLinked ==
  /\ \A i \in 1..Len(queue) : fut[queue[i]] = "queued"
  /\ \A i, j \in 1..Len(queue) : queue[i] = queue[j] => i = j

FutureAndTask ==
  \A c \in Calls :
    /\ fut[c] \in {"idle", "queued", "granted"} => task[c] = "none"
    /\ fut[c] = "awaiting" => task[c] \in Running \cup {"ending", "done"}
    /\ fut[c] = "dropped" => task[c] \in Running \cup {"ending"}

LeaseIffLeased == \A u \in Users : lease[u] # NoSession <=> task[u] = "leased"

ShapeInv == Shape /\ QueueLinked /\ FutureAndTask /\ LeaseIffLeased

USE DEF Users, FutState, TaskState, Running

(* An engine nobody called has the shape.                                   *)
LEMMA ShapeInit == Init => ShapeInv
<1> SUFFICES ASSUME Init PROVE ShapeInv
  OBVIOUS
<1>1. PoolSize \in Nat
  BY PoolAssumption, FS_CardinalityType DEF PoolSize
<1> QED
  BY <1>1 DEF Init, ShapeInv, Shape, QueueLinked, FutureAndTask, LeaseIffLeased

(***************************************************************************)
(* The hand-over of a permit keeps the shape, whatever the call that gives *)
(* it back was doing, as long as that call is not itself in the queue.     *)
(***************************************************************************)
LEMMA ReleaseKeepsQueue ==
  ASSUME Shape, QueueLinked, NEW c \in Calls, fut[c] # "queued",
         NEW f \in FutState \ {"queued"}, ReleasePermit(c, f)
  PROVE  /\ permits' \in Nat
         /\ queue' \in Seq(Calls)
         /\ fut' \in [Calls -> FutState]
         /\ QueueLinked'
<1>1. CASE queue = <<>>
  BY <1>1 DEF ReleasePermit, Shape, QueueLinked
<1>2. CASE queue # <<>>
  <2>1. /\ queue' = Tail(queue)
        /\ fut' = [fut EXCEPT ![c] = f, ![Head(queue)] = "granted"]
        /\ permits' = permits
    BY <1>2 DEF ReleasePermit
  <2>2. /\ Len(queue) \in Nat /\ Len(queue) > 0
        /\ Head(queue) = queue[1] /\ Head(queue) \in Calls
        /\ Tail(queue) \in Seq(Calls)
        /\ Len(Tail(queue)) = Len(queue) - 1
        /\ \A i \in 1..(Len(queue) - 1) : Tail(queue)[i] = queue[i + 1]
    BY <1>2 DEF Shape
  <2>3. \A i \in 1..Len(queue) : queue[i] \in Calls
    BY DEF Shape
  <2>4. ASSUME NEW i \in 1..(Len(queue) - 1)
        PROVE  fut'[queue[i + 1]] = "queued"
    <3>1. i + 1 \in 1..Len(queue) /\ 1 \in 1..Len(queue) /\ i + 1 # 1
      BY <2>2
    <3>2. queue[i + 1] # queue[1] /\ fut[queue[i + 1]] = "queued"
      BY <3>1 DEF QueueLinked
    <3>3. queue[i + 1] # c
      BY <3>2
    <3>4. queue[i + 1] \in Calls /\ queue[i + 1] # Head(queue)
      BY <2>2, <2>3, <3>1, <3>2
    <3>5. fut'[queue[i + 1]] = fut[queue[i + 1]]
      BY <2>1, <3>3, <3>4 DEF Shape
    <3> QED
      BY <3>2, <3>5
  <2>5. QueueLinked'
    <3>0. Len(queue') = Len(queue) - 1 /\ \A i \in 1..Len(queue') : queue'[i] = queue[i + 1]
      BY <2>1, <2>2
    <3>1. ASSUME NEW i \in 1..Len(queue')
          PROVE  fut'[queue'[i]] = "queued"
      <4>1. i \in 1..(Len(queue) - 1) /\ queue'[i] = queue[i + 1]
        BY <3>0
      <4> QED
        BY <2>4, <4>1
    <3>2. \A i, j \in 1..Len(queue') : queue'[i] = queue'[j] => i = j
      BY <2>1, <2>2 DEF QueueLinked
    <3> QED
      BY <3>1, <3>2 DEF QueueLinked
  <2> QED
    BY <2>1, <2>2, <2>5 DEF Shape
<1> QED
  BY <1>1, <1>2

(* What a released permit does to the futures: the oldest waiter, if any,   *)
(* becomes its owner.                                                       *)
LEMMA ReleasedFutures ==
  ASSUME Shape, QueueLinked, NEW c \in Calls, fut[c] # "queued",
         NEW f \in FutState, ReleasePermit(c, f)
  PROVE  /\ fut'[c] = f
         /\ \A d \in Calls \ {c} :
              fut'[d] = fut[d] \/ (fut[d] = "queued" /\ fut'[d] = "granted")
<1>1. CASE queue = <<>>
  BY <1>1 DEF ReleasePermit, Shape
<1>2. CASE queue # <<>>
  <2>1. Head(queue) \in Calls /\ fut[Head(queue)] = "queued"
    BY <1>2 DEF Shape, QueueLinked
  <2> QED
    BY <1>2, <2>1 DEF ReleasePermit, Shape
<1> QED
  BY <1>1, <1>2

(* A call that leaves the queue leaves the others in it, in their order. *)
LEMMA RemoveKeepsQueue ==
  ASSUME Shape, QueueLinked, NEW c \in Calls, DropQueued(c)
  PROVE  /\ queue' \in Seq(Calls)
         /\ QueueLinked'
         /\ fut[c] = "queued"
<1>1. PICK i \in 1..Len(queue) : queue[i] = c /\ queue' = RemoveAt(queue, i)
  BY DEF DropQueued, Shape
<1>2. Len(queue) \in Nat /\ queue \in Seq(Calls)
  BY DEF Shape
<1>6. /\ queue' \in Seq(Calls)
      /\ Len(queue') = Len(queue) - 1
      /\ \A j \in 1..(Len(queue) - 1) :
           queue'[j] = IF j < i THEN queue[j] ELSE queue[j + 1]
  BY <1>1, <1>2, RemoveAtElements
<1>7. fut[c] = "queued"
  BY <1>1 DEF QueueLinked
<1>8. fut' = [fut EXCEPT ![c] = "idle"]
  BY DEF DropQueued
<1>9. ASSUME NEW j \in 1..(Len(queue) - 1)
      PROVE  /\ queue'[j] \in Calls
             /\ queue'[j] # c
             /\ fut[queue'[j]] = "queued"
  <2> DEFINE at == IF j < i THEN j ELSE j + 1
  <2>1. at \in 1..Len(queue) /\ at # i
    BY <1>2
  <2>2. queue'[j] = queue[at]
    BY <1>6
  <2> HIDE DEF at
  <2>3. queue[at] # c /\ fut[queue[at]] = "queued" /\ queue[at] \in Calls
    BY <1>1, <1>2, <2>1 DEF QueueLinked
  <2> QED
    BY <2>2, <2>3
<1>10. \A j \in 1..Len(queue') : fut'[queue'[j]] = "queued"
  BY <1>2, <1>6, <1>8, <1>9 DEF Shape
<1>11. ASSUME NEW j \in 1..Len(queue'), NEW k \in 1..Len(queue'), queue'[j] = queue'[k]
       PROVE  j = k
  <2> DEFINE at(n) == IF n < i THEN n ELSE n + 1
  <2>1. /\ at(j) \in 1..Len(queue) /\ at(k) \in 1..Len(queue)
        /\ queue'[j] = queue[at(j)] /\ queue'[k] = queue[at(k)]
    BY <1>2, <1>6
  <2>2. at(j) = at(k)
    BY <1>11, <2>1 DEF QueueLinked
  <2> QED
    BY <1>2, <1>6, <2>2
<1> QED
  BY <1>6, <1>7, <1>10, <1>11 DEF QueueLinked

(* Waking a task changes no other task, and wakes only a parked one. *)
LEMMA NotifyShape ==
  ASSUME NEW t \in [Users -> TaskState], Shape, NotifyOne(t)
  PROVE  /\ task' \in [Users -> TaskState]
         /\ \A u \in Users :
              \/ task'[u] = t[u]
              \/ task[u] = "parked" /\ task'[u] = "woken"
BY DEF NotifyOne, InTask, Shape

(***************************************************************************)
(* Every step keeps the shape: one step of the proof per action.           *)
(***************************************************************************)
LEMMA ShapeStep ==
  ASSUME ShapeInv, [Next]_vars
  PROVE  ShapeInv'
<1> USE DEF ShapeInv
<1>1. ASSUME NEW c \in Calls, ClassifyAtOnce(c)
      PROVE  ShapeInv'
  BY <1>1 DEF ClassifyAtOnce, Shape, QueueLinked, FutureAndTask, LeaseIffLeased
<1>2. ASSUME NEW c \in Calls, ClassifyQueued(c)
      PROVE  ShapeInv'
  <2>1. /\ Len(queue) \in Nat /\ queue' \in Seq(Calls) /\ Len(queue') = Len(queue) + 1
        /\ \A i \in 1..Len(queue) : queue'[i] = queue[i]
        /\ queue'[Len(queue) + 1] = c
        /\ fut[c] = "idle"
        /\ fut' = [fut EXCEPT ![c] = "queued"]
    BY <1>2 DEF ClassifyQueued, Shape
  <2>2. QueueLinked'
    <3>1. \A i \in 1..Len(queue) : queue[i] # c
      BY <2>1 DEF QueueLinked
    <3>2. \A i \in 1..Len(queue') : i \in 1..Len(queue) \/ i = Len(queue) + 1
      BY <2>1
    <3>3. \A i \in 1..Len(queue') : fut'[queue'[i]] = "queued"
      <4>1. ASSUME NEW i \in 1..Len(queue)
            PROVE  fut'[queue'[i]] = "queued"
        <5>1. queue'[i] = queue[i] /\ queue[i] \in Calls /\ queue[i] # c /\ fut[queue[i]] = "queued"
          BY <2>1, <3>1 DEF QueueLinked, Shape
        <5> QED
          BY <2>1, <5>1 DEF Shape
      <4>2. fut'[queue'[Len(queue) + 1]] = "queued"
        BY <2>1 DEF Shape
      <4> QED
        BY <3>2, <4>1, <4>2
    <3>4. \A i, j \in 1..Len(queue') : queue'[i] = queue'[j] => i = j
      BY <2>1, <3>1, <3>2 DEF QueueLinked
    <3> QED
      BY <3>3, <3>4 DEF QueueLinked
  <2>3. Shape'
    BY <1>2, <2>1 DEF ClassifyQueued, Shape
  <2>4. FutureAndTask'
    BY <1>2, <2>1 DEF ClassifyQueued, Shape, FutureAndTask, LeaseIffLeased
  <2>5. LeaseIffLeased'
    BY <1>2 DEF ClassifyQueued, LeaseIffLeased
  <2> QED
    BY <2>2, <2>3, <2>4, <2>5
<1>3. ASSUME NEW c \in Calls, ResumeClassify(c)
      PROVE  ShapeInv'
  BY <1>3 DEF ResumeClassify, Shape, QueueLinked, FutureAndTask, LeaseIffLeased
<1>4. ASSUME NEW c \in Calls, Join(c)
      PROVE  ShapeInv'
  BY <1>4 DEF Join, Shape, QueueLinked, FutureAndTask, LeaseIffLeased
<1>5. ASSUME NEW c \in Calls, DropQueued(c)
      PROVE  ShapeInv'
  <2>1. queue' \in Seq(Calls) /\ QueueLinked' /\ fut[c] = "queued"
    BY <1>5, RemoveKeepsQueue
  <2> QED
    BY <1>5, <2>1 DEF DropQueued, Shape, FutureAndTask, LeaseIffLeased
<1>6. ASSUME NEW c \in Calls, DropGranted(c)
      PROVE  ShapeInv'
  <2>1. /\ permits' \in Nat /\ queue' \in Seq(Calls)
        /\ fut' \in [Calls -> FutState] /\ QueueLinked'
    BY <1>6, ReleaseKeepsQueue DEF DropGranted
  <2>2. FutureAndTask'
    BY <1>6, ReleasedFutures DEF DropGranted, FutureAndTask, Shape
  <2> QED
    BY <1>6, <2>1, <2>2 DEF DropGranted, Shape, LeaseIffLeased
<1>7. ASSUME NEW c \in Calls, DropAwaiting(c)
      PROVE  ShapeInv'
  BY <1>7 DEF DropAwaiting, Shape, QueueLinked, FutureAndTask, LeaseIffLeased
<1>8. ASSUME NEW c \in Calls, Finish(c)
      PROVE  ShapeInv'
  <2> DEFINE f == fut[c]
  <2>1. f \in {"awaiting", "dropped"} /\ ReleasePermit(c, f)
    BY <1>8 DEF Finish, Shape, FutureAndTask
  <2>2. /\ permits' \in Nat /\ queue' \in Seq(Calls)
        /\ fut' \in [Calls -> FutState] /\ QueueLinked'
    BY <2>1, ReleaseKeepsQueue
  <2>3. /\ fut'[c] = fut[c]
        /\ \A d \in Calls \ {c} :
             fut'[d] = fut[d] \/ (fut[d] = "queued" /\ fut'[d] = "granted")
    BY <2>1, ReleasedFutures
  <2>4. FutureAndTask'
    BY <1>8, <2>1, <2>3 DEF Finish, FutureAndTask, Shape
  <2> QED
    BY <1>8, <2>2, <2>4 DEF Finish, Shape, LeaseIffLeased
<1>16. ASSUME NEW c \in Calls, EndTask(c)
       PROVE  ShapeInv'
  <2>1. fut[c] \in {"awaiting", "dropped"}
    BY <1>16 DEF EndTask, Shape, FutureAndTask
  <2> QED
    BY <1>16, <2>1 DEF EndTask, Shape, QueueLinked, FutureAndTask, LeaseIffLeased
<1>9. ASSUME NEW u \in Users, FailEarly(u)
      PROVE  ShapeInv'
  BY <1>9 DEF FailEarly, Shape, QueueLinked, FutureAndTask, LeaseIffLeased
<1>10. ASSUME NEW u \in Users, Checkout(u)
       PROVE  ShapeInv'
  BY <1>10, PoolAssumption DEF Checkout, Shape, QueueLinked, FutureAndTask, LeaseIffLeased
<1>11. ASSUME NEW u \in Users, Park(u)
       PROVE  ShapeInv'
  BY <1>11 DEF Park, Shape, QueueLinked, FutureAndTask, LeaseIffLeased
<1>12. ASSUME NEW u \in Users, SpuriousWake(u)
       PROVE  ShapeInv'
  BY <1>12 DEF SpuriousWake, Shape, QueueLinked, FutureAndTask, LeaseIffLeased
<1>13. ASSUME NEW u \in Users, ReturnSession(u)
       PROVE  ShapeInv'
  <2> DEFINE t == [task EXCEPT ![u] = "returned"]
  <2>1. t \in [Users -> TaskState] /\ NotifyOne(t)
    BY <1>13 DEF ReturnSession, Shape
  <2>2. /\ task' \in [Users -> TaskState]
        /\ \A v \in Users : task'[v] = t[v] \/ (task[v] = "parked" /\ task'[v] = "woken")
    <3> HIDE DEF t
    <3> QED
      BY <2>1, NotifyShape
  <2>3. FutureAndTask'
    BY <1>13, <2>2 DEF ReturnSession, FutureAndTask, Shape
  <2>4. LeaseIffLeased'
    BY <1>13, <2>2 DEF ReturnSession, LeaseIffLeased, Shape
  <2> QED
    BY <1>13, <2>2, <2>3, <2>4 DEF ReturnSession, Shape, QueueLinked, LeaseIffLeased
<1>14. ASSUME NEW u \in DirectCalls, DirectCall(u) \/ DirectReturn(u)
       PROVE  ShapeInv'
  BY <1>14, PoolAssumption
     DEF DirectCall, DirectReturn, Shape, QueueLinked, FutureAndTask, LeaseIffLeased
<1>15. CASE UNCHANGED vars
  BY <1>15 DEF vars, Shape, QueueLinked, FutureAndTask, LeaseIffLeased
<1> QED
  BY <1>1, <1>2, <1>3, <1>4, <1>5, <1>6, <1>7, <1>8, <1>9, <1>10, <1>11, <1>12,
     <1>13, <1>14, <1>15, <1>16 DEF Next, Future, Drop, Body

(* In every state the semaphore's queue is linked to the futures, futures   *)
(* and tasks end together, and leases match tasks.                          *)
THEOREM ShapeAlways == Spec => []ShapeInv
<1>1. Init => ShapeInv
  BY ShapeInit
<1>2. ShapeInv /\ [Next]_vars => ShapeInv'
  BY ShapeStep
<1> QED
  BY <1>1, <1>2, PTL DEF Spec

----------------------------------------------------------------------------
(***************************************************************************)
(* The permits.  Only the start of a call and the release of a permit      *)
(* change the set of the permits' owners; a release hands its permit on or *)
(* frees it, so the sum stays.                                             *)
(***************************************************************************)
LEMMA HoldersFinite ==
  /\ IsFiniteSet(Holders) /\ Cardinality(Holders) \in Nat
  /\ Holders \subseteq Calls
<1>1. Holders \subseteq Calls
  BY DEF Holders
<1> QED
  BY <1>1, PoolAssumption, FS_Subset, FS_CardinalityType

(* What a step can do to the permits, their owners and the queue.          *)
Enters(c) ==
  /\ fut[c] = "idle" /\ c \notin Holders /\ permits > 0
  /\ permits' = permits - 1 /\ Holders' = Holders \cup {c} /\ queue' = queue

Waits(c) ==
  /\ fut[c] = "idle" /\ c \notin Holders /\ permits = 0
  /\ permits' = permits /\ Holders' = Holders /\ queue' = Append(queue, c)

Withdraws(c) ==
  /\ \E i \in DOMAIN queue : queue[i] = c /\ queue' = RemoveAt(queue, i)
  /\ permits' = permits /\ Holders' = Holders

Frees(c) ==
  /\ c \in Holders /\ queue = <<>>
  /\ permits' = permits + 1 /\ Holders' = Holders \ {c} /\ queue' = queue

HandsOn(c) ==
  /\ c \in Holders /\ queue # <<>> /\ Head(queue) \notin Holders
  /\ permits' = permits /\ queue' = Tail(queue)
  /\ Holders' = (Holders \ {c}) \cup {Head(queue)}

PermitMove(c) == Enters(c) \/ Waits(c) \/ Withdraws(c) \/ Frees(c) \/ HandsOn(c)

NoPermitMove == permits' = permits /\ Holders' = Holders /\ queue' = queue

(* A closure that ends frees its permit or hands it to one future.          *)
LEMMA ReleaseMoves ==
  ASSUME ShapeInv, NEW c \in Holders,
         NEW f \in {"idle", "awaiting", "dropped"}, ReleasePermit(c, f),
         c \in Calls, fut[c] # "queued",
         task' \in [Users -> TaskState], task'[c] \notin Running,
         \A d \in Calls \ {c} : task'[d] = task[d]
  PROVE  Frees(c) \/ HandsOn(c)
<1> USE DEF ShapeInv
<1>1. CASE queue = <<>>
  <2>1. permits' = permits + 1 /\ fut' = [fut EXCEPT ![c] = f] /\ queue' = queue
    BY <1>1 DEF ReleasePermit
  <2>2. Holders' = Holders \ {c}
    BY <2>1 DEF Holders, Shape
  <2> QED
    BY <1>1, <2>1, <2>2 DEF Frees
<1>2. CASE queue # <<>>
  <2>1. /\ permits' = permits /\ queue' = Tail(queue)
        /\ fut' = [fut EXCEPT ![c] = f, ![Head(queue)] = "granted"]
    BY <1>2 DEF ReleasePermit
  <2>2. Head(queue) \in Calls /\ fut[Head(queue)] = "queued" /\ Head(queue) # c
    BY <1>2 DEF Shape, QueueLinked
  <2>3. Head(queue) \notin Holders
    BY <2>2 DEF Holders, FutureAndTask
  <2>4. Holders' = (Holders \ {c}) \cup {Head(queue)}
    BY <2>1, <2>2 DEF Holders, Shape
  <2> QED
    BY <1>2, <2>1, <2>3, <2>4 DEF HandsOn
<1> QED
  BY <1>1, <1>2

(* No step moves more than one permit.                                      *)
LEMMA PermitMoves ==
  ASSUME ShapeInv, [Next]_vars
  PROVE  NoPermitMove \/ \E c \in Calls : PermitMove(c)
<1> USE DEF ShapeInv
<1>1. ASSUME NEW c \in Calls, ClassifyAtOnce(c)
      PROVE  Enters(c)
  BY <1>1 DEF ClassifyAtOnce, Enters, Holders, Shape
<1>2. ASSUME NEW c \in Calls, ClassifyQueued(c)
      PROVE  Waits(c)
  <2>1. Holders' = Holders
    BY <1>2 DEF ClassifyQueued, Holders, Shape
  <2> QED
    BY <1>2, <2>1 DEF ClassifyQueued, Waits, Holders
<1>3. ASSUME NEW c \in Calls, ResumeClassify(c)
      PROVE  NoPermitMove
  BY <1>3 DEF ResumeClassify, Holders, Shape, NoPermitMove
<1>4. ASSUME NEW c \in Calls, Join(c)
      PROVE  NoPermitMove
  BY <1>4 DEF Join, Holders, Shape, NoPermitMove
<1>5. ASSUME NEW c \in Calls, DropQueued(c)
      PROVE  Withdraws(c)
  <2>1. fut[c] = "queued"
    BY <1>5, RemoveKeepsQueue
  <2>2. Holders' = Holders
    BY <1>5, <2>1 DEF DropQueued, Holders, Shape
  <2> QED
    BY <1>5, <2>2 DEF DropQueued, Withdraws
<1>6. ASSUME NEW c \in Calls, DropGranted(c)
      PROVE  Frees(c) \/ HandsOn(c)
  <2>1. c \in Holders /\ task[c] = "none" /\ task' = task
    BY <1>6 DEF DropGranted, Holders, FutureAndTask
  <2> QED
    BY <1>6, <2>1, ReleaseMoves DEF DropGranted, Shape
<1>7. ASSUME NEW c \in Calls, DropAwaiting(c)
      PROVE  NoPermitMove
  BY <1>7 DEF DropAwaiting, Holders, Shape, NoPermitMove
<1>8. ASSUME NEW c \in Calls, Finish(c)
      PROVE  Frees(c) \/ HandsOn(c)
  <2>1. c \in Holders /\ fut[c] \in {"awaiting", "dropped"}
    BY <1>8 DEF Finish, Holders, Shape, FutureAndTask
  <2>2. /\ task' \in [Users -> TaskState] /\ task'[c] \notin Running
        /\ \A d \in Calls \ {c} : task'[d] = task[d]
    BY <1>8 DEF Finish, Shape
  <2>3. ReleasePermit(c, fut[c])
    BY <1>8 DEF Finish
  <2> QED
    BY <2>1, <2>2, <2>3, ReleaseMoves
<1>9. ASSUME NEW u \in Users, FailEarly(u) \/ Checkout(u) \/ Park(u) \/ SpuriousWake(u)
      PROVE  NoPermitMove
  BY <1>9 DEF FailEarly, Checkout, Park, SpuriousWake, Holders, Shape, NoPermitMove
<1>10. ASSUME NEW u \in Users, ReturnSession(u)
       PROVE  NoPermitMove
  <2> DEFINE t == [task EXCEPT ![u] = "returned"]
  <2>1. t \in [Users -> TaskState] /\ NotifyOne(t)
    BY <1>10 DEF ReturnSession, Shape
  <2>2. /\ task' \in [Users -> TaskState]
        /\ \A v \in Users : task'[v] = t[v] \/ (task[v] = "parked" /\ task'[v] = "woken")
    <3> HIDE DEF t
    <3> QED
      BY <2>1, NotifyShape
  <2>3. \A v \in Users : task'[v] \in Running <=> task[v] \in Running
    BY <1>10, <2>2 DEF ReturnSession, Shape
  <2> QED
    BY <1>10, <2>3 DEF ReturnSession, Holders, NoPermitMove
<1>11. ASSUME NEW u \in DirectCalls, DirectCall(u) \/ DirectReturn(u)
       PROVE  NoPermitMove
  BY <1>11, PoolAssumption DEF DirectCall, DirectReturn, Holders, Shape, NoPermitMove
<1>12. CASE UNCHANGED vars
  BY <1>12 DEF vars, Holders, NoPermitMove
<1>13. ASSUME NEW c \in Calls, EndTask(c)
       PROVE  NoPermitMove
  BY <1>13 DEF EndTask, Holders, Shape, NoPermitMove
<1> QED
  BY <1>1, <1>2, <1>3, <1>4, <1>5, <1>6, <1>7, <1>8, <1>9, <1>10, <1>11, <1>12, <1>13
     DEF Next, Future, Drop, Body, PermitMove

(* No step loses a permit or makes one.                                     *)
LEMMA PermitsStep ==
  ASSUME ShapeInv, PermitsConserved, [Next]_vars
  PROVE  PermitsConserved'
<1> USE DEF ShapeInv
<1>0. permits + Cardinality(Holders) = Cardinality(Sessions) /\ permits \in Nat
  BY DEF PermitsConserved, PoolSize, Shape
<1>1. CASE NoPermitMove
  BY <1>0, <1>1 DEF NoPermitMove, PermitsConserved, PoolSize
<1>2. ASSUME NEW c \in Calls, Enters(c)
      PROVE  PermitsConserved'
  <2>1. Cardinality(Holders \cup {c}) = Cardinality(Holders) + 1
    BY <1>2, HoldersFinite, FS_AddElement DEF Enters
  <2> QED
    BY <1>0, <1>2, <2>1, HoldersFinite DEF Enters, PermitsConserved, PoolSize
<1>3. ASSUME NEW c \in Calls, Waits(c) \/ Withdraws(c)
      PROVE  PermitsConserved'
  BY <1>0, <1>3 DEF Waits, Withdraws, PermitsConserved, PoolSize
<1>4. ASSUME NEW c \in Calls, Frees(c) \/ HandsOn(c)
      PROVE  PermitsConserved'
  <2>1. c \in Holders
    BY <1>4 DEF Frees, HandsOn
  <2>2. IsFiniteSet(Holders \ {c}) /\ Cardinality(Holders \ {c}) = Cardinality(Holders) - 1
    BY <2>1, HoldersFinite, FS_RemoveElement
  <2>3. CASE Frees(c)
    BY <1>0, <2>2, <2>3, HoldersFinite DEF Frees, PermitsConserved, PoolSize
  <2>4. CASE HandsOn(c)
    <3> DEFINE next == Head(queue)
    <3>1. next \notin Holders /\ Holders' = (Holders \ {c}) \cup {next} /\ permits' = permits
      BY <2>4 DEF HandsOn
    <3> HIDE DEF next
    <3>2. Cardinality((Holders \ {c}) \cup {next}) = Cardinality(Holders \ {c}) + 1
      BY <2>2, <3>1, FS_AddElement
    <3> QED
      BY <1>0, <2>2, <3>1, <3>2, HoldersFinite DEF PermitsConserved, PoolSize
  <2> QED
    BY <1>4, <2>3, <2>4
<1> QED
  BY <1>1, <1>2, <1>3, <1>4, PermitMoves DEF PermitMove

(***************************************************************************)
(* The permits add up in every reachable state (`admission` in             *)
(* DebertaV3XsmallZeroshot): none is lost with a dropped future, none is   *)
(* freed twice.                                                            *)
(***************************************************************************)
THEOREM PermitsAlwaysConserved == Spec => []PermitsConserved
<1>1. Init => PermitsConserved
  <2> SUFFICES ASSUME Init PROVE PermitsConserved
    OBVIOUS
  <2>1. Holders = {} /\ permits = Cardinality(Sessions)
    BY DEF Init, Holders, PoolSize
  <2>2. Cardinality(Holders) = 0 /\ Cardinality(Sessions) \in Nat
    BY <2>1, PoolAssumption, FS_EmptySet, FS_CardinalityType
  <2> QED
    BY <2>1, <2>2 DEF PermitsConserved, PoolSize
<1>2. ShapeInv /\ PermitsConserved /\ [Next]_vars => PermitsConserved'
  BY PermitsStep
<1> QED
  BY <1>1, <1>2, ShapeAlways, PTL DEF Spec

(* A set of calls that all own a permit is no larger than the pool.         *)
LEMMA HoldersBounded ==
  ASSUME Shape, PermitsConserved, NEW S \in SUBSET Holders
  PROVE  IsFiniteSet(S) /\ Cardinality(S) \in Nat /\ Cardinality(S) <= PoolSize
<1>1. IsFiniteSet(S) /\ Cardinality(S) \in Nat /\ Cardinality(S) <= Cardinality(Holders)
  BY HoldersFinite, FS_Subset, FS_CardinalityType
<1>2. PoolSize \in Nat
  BY PoolAssumption, FS_CardinalityType DEF PoolSize
<1> QED
  BY <1>1, <1>2, HoldersFinite DEF PermitsConserved, Shape

(***************************************************************************)
(* However many clients come and go, the closures on the blocking pool are *)
(* never more than the sessions (the comment on SessionPool).              *)
(***************************************************************************)
THEOREM BlockingAlwaysBounded == Spec => []BoundedBlocking
<1>1. ShapeInv /\ PermitsConserved => BoundedBlocking
  <2> SUFFICES ASSUME ShapeInv, PermitsConserved PROVE BoundedBlocking
    OBVIOUS
  <2>1. RunningTasks \in SUBSET Holders
    BY DEF RunningTasks, Holders
  <2> QED
    BY <2>1, HoldersBounded DEF BoundedBlocking, ShapeInv
<1> QED
  BY <1>1, ShapeAlways, PermitsAlwaysConserved, PTL

(* Every variable stays in its range. *)
THEOREM TypeCorrect == Spec => []TypeOK
<1>1. ShapeInv /\ PermitsConserved => TypeOK
  <2> SUFFICES ASSUME ShapeInv, PermitsConserved PROVE TypeOK
    OBVIOUS
  <2>1. PoolSize \in Nat
    BY PoolAssumption, FS_CardinalityType DEF PoolSize
  <2>2. permits \in 0..PoolSize
    BY <2>1, HoldersFinite DEF PermitsConserved, ShapeInv, Shape
  <2> QED
    BY <2>2 DEF TypeOK, ShapeInv, Shape
<1> QED
  BY <1>1, ShapeAlways, PermitsAlwaysConserved, PTL

----------------------------------------------------------------------------
(***************************************************************************)
(* The sessions.  Each step that touches them moves one session between    *)
(* the idle ones and one task's lease.                                     *)
(***************************************************************************)
LEMMA SessionsStep ==
  ASSUME ShapeInv, SessionsConserved, [Next]_vars
  PROVE  SessionsConserved'
<1> USE DEF ShapeInv
<1>1. ASSUME UNCHANGED <<lease, idle>>
      PROVE  SessionsConserved'
  BY <1>1 DEF SessionsConserved
<1>2. ASSUME NEW u \in Users, Checkout(u)
      PROVE  SessionsConserved'
  <2>1. lease[u] = NoSession
    BY <1>2 DEF Checkout, LeaseIffLeased
  <2>2. PICK s \in idle : idle' = idle \ {s} /\ lease' = [lease EXCEPT ![u] = s]
    BY <1>2 DEF Checkout
  <2> QED
    BY <2>1, <2>2, PoolAssumption DEF SessionsConserved, Shape
<1>3. ASSUME NEW u \in Users, ReturnSession(u)
      PROVE  SessionsConserved'
  <2>1. /\ lease[u] \in Sessions
        /\ idle' = idle \cup {lease[u]}
        /\ lease' = [lease EXCEPT ![u] = NoSession]
    BY <1>3 DEF ReturnSession, LeaseIffLeased, Shape
  <2>2. \A s \in Sessions : s \in idle' <=> \A v \in Users : lease'[v] # s
    BY <2>1, PoolAssumption DEF SessionsConserved, Shape
  <2>3. \A v, w \in Users : lease'[v] = lease'[w] /\ lease'[v] # NoSession => v = w
    BY <2>1 DEF SessionsConserved, Shape
  <2> QED
    BY <2>2, <2>3 DEF SessionsConserved
<1>4. ASSUME NEW c \in Calls, Future(c) \/ Drop(c) \/ Finish(c) \/ EndTask(c)
      PROVE  SessionsConserved'
  BY <1>1, <1>4
     DEF Future, Drop, ClassifyAtOnce, ClassifyQueued, ResumeClassify, Join,
         DropQueued, DropGranted, DropAwaiting, Finish, EndTask
<1>5. ASSUME NEW u \in Users, FailEarly(u) \/ Park(u) \/ SpuriousWake(u)
      PROVE  SessionsConserved'
  BY <1>1, <1>5 DEF FailEarly, Park, SpuriousWake
<1>6. ASSUME NEW u \in DirectCalls, DirectCall(u) \/ DirectReturn(u)
      PROVE  SessionsConserved'
  BY <1>1, <1>6 DEF DirectCall, DirectReturn
<1>7. CASE UNCHANGED vars
  BY <1>1, <1>7 DEF vars
<1> QED
  BY <1>2, <1>3, <1>4, <1>5, <1>6, <1>7 DEF Next, Body

(***************************************************************************)
(* Every session is idle or leased to exactly one task (`SessionPool` and  *)
(* `PooledSession::drop`), whatever fails and whoever disconnects.         *)
(***************************************************************************)
THEOREM SessionsAlwaysConserved == Spec => []SessionsConserved
<1>1. Init => SessionsConserved
  BY PoolAssumption DEF Init, SessionsConserved
<1>2. ShapeInv /\ SessionsConserved /\ [Next]_vars => SessionsConserved'
  BY SessionsStep
<1> QED
  BY <1>1, <1>2, ShapeAlways, PTL DEF Spec

(***************************************************************************)
(* The heart of the two-layer scheme: if every task came through the       *)
(* semaphore, a task that is about to look into the pool owns a permit     *)
(* that no leased session accounts for, so the pool is not empty.          *)
(***************************************************************************)
LEMMA PermitMeansSession ==
  ASSUME ShapeInv, PermitsConserved, SessionsConserved, DirectCalls = {},
         NEW u \in Users, task[u] \in {"spawned", "woken"}
  PROVE  idle # {}
<1> USE DEF ShapeInv
<1>1. SUFFICES ASSUME idle = {}
               PROVE  FALSE
  OBVIOUS
<1>2. u \in Holders
  BY DEF Holders
<1>3. \A s \in Sessions : \E c \in Holders \ {u} : lease[c] = s
  <2> SUFFICES ASSUME NEW s \in Sessions
               PROVE  \E c \in Holders \ {u} : lease[c] = s
    OBVIOUS
  <2>1. PICK c \in Users : lease[c] = s
    BY <1>1 DEF SessionsConserved
  <2>2. task[c] = "leased"
    BY <2>1, PoolAssumption DEF LeaseIffLeased
  <2> QED
    BY <2>1, <2>2 DEF Holders
<1> DEFINE tenant == [s \in Sessions |-> CHOOSE c \in Holders \ {u} : lease[c] = s]
<1>4. tenant \in Injection(Sessions, Holders \ {u})
  <2>1. \A s \in Sessions : tenant[s] \in Holders \ {u} /\ lease[tenant[s]] = s
    BY <1>3
  <2> QED
    BY <2>1 DEF Injection, IsInjective
<1>5. /\ IsFiniteSet(Holders \ {u})
      /\ Cardinality(Holders \ {u}) = Cardinality(Holders) - 1
  BY <1>2, HoldersFinite, FS_RemoveElement
<1>6. Cardinality(Sessions) <= Cardinality(Holders \ {u})
  <2> HIDE DEF tenant
  <2> DEFINE others == Holders \ {u}
  <2>1. tenant \in Injection(Sessions, others) /\ IsFiniteSet(others)
    BY <1>4, <1>5
  <2> HIDE DEF others
  <2>2. Cardinality(Sessions) <= Cardinality(others)
    BY <2>1, FS_Injection
  <2> QED
    BY <2>2 DEF others
<1>7. Cardinality(Sessions) \in Nat
  BY PoolAssumption, FS_CardinalityType
<1> QED
  BY <1>5, <1>6, <1>7, HoldersFinite DEF PermitsConserved, PoolSize, Shape

(* Without direct callers no step parks a task on the condition variable.   *)
LEMMA NeverParksStep ==
  ASSUME ShapeInv, PermitsConserved, SessionsConserved, AdmittedNeverParks, [Next]_vars
  PROVE  AdmittedNeverParks'
<1> USE DEF ShapeInv
<1>1. SUFFICES ASSUME DirectCalls = {}, \A u \in Users : task[u] # "parked"
               PROVE  \A u \in Users : task'[u] # "parked"
  BY DEF AdmittedNeverParks, InTask
<1>2. ASSUME NEW u \in Users, Park(u)
      PROVE  FALSE
  BY <1>1, <1>2, PermitMeansSession DEF Park
<1>3. ASSUME NEW u \in Users, ReturnSession(u)
      PROVE  \A v \in Users : task'[v] # "parked"
  BY <1>1, <1>3 DEF ReturnSession, NotifyOne, InTask, Shape
<1>4. ASSUME NEW c \in Calls, Future(c) \/ Drop(c) \/ Finish(c) \/ EndTask(c)
      PROVE  \A v \in Users : task'[v] # "parked"
  BY <1>1, <1>4
     DEF Future, Drop, ClassifyAtOnce, ClassifyQueued, ResumeClassify, Join,
         DropQueued, DropGranted, DropAwaiting, Finish, EndTask, Shape
<1>5. ASSUME NEW u \in Users, FailEarly(u) \/ Checkout(u) \/ SpuriousWake(u)
      PROVE  \A v \in Users : task'[v] # "parked"
  BY <1>1, <1>5 DEF FailEarly, Checkout, SpuriousWake, Shape
<1>6. CASE UNCHANGED vars
  BY <1>1, <1>6 DEF vars
<1> QED
  BY <1>1, <1>2, <1>3, <1>4, <1>5, <1>6 DEF Next, Body

(***************************************************************************)
(* "With admission bounded upstream it never meaningfully blocks": in      *)
(* production no thread of the blocking pool ever waits for a session.     *)
(***************************************************************************)
THEOREM AdmittedAlwaysFindsSession == Spec => []AdmittedNeverParks
<1>1. Init => AdmittedNeverParks
  BY DEF Init, AdmittedNeverParks, InTask
<1>2. /\ ShapeInv /\ PermitsConserved /\ SessionsConserved
      /\ AdmittedNeverParks /\ [Next]_vars
      => AdmittedNeverParks'
  BY NeverParksStep
<1> QED
  BY <1>1, <1>2, ShapeAlways, PermitsAlwaysConserved, SessionsAlwaysConserved, PTL
     DEF Spec

----------------------------------------------------------------------------
(***************************************************************************)
(* The wake-ups.  Callers that bypass the semaphore may park, and a woken  *)
(* task may find its session taken by another; the count of woken tasks    *)
(* still covers the idle sessions as long as anybody is parked.            *)
(***************************************************************************)
LEMMA CountsFinite ==
  ASSUME Shape
  PROVE  /\ IsFiniteSet(InTask("woken")) /\ Cardinality(InTask("woken")) \in Nat
         /\ IsFiniteSet(idle) /\ Cardinality(idle) \in Nat
<1>1. IsFiniteSet(Users)
  BY PoolAssumption, FS_Union
<1>2. InTask("woken") \in SUBSET Users /\ idle \in SUBSET Sessions
  BY DEF InTask, Shape
<1> QED
  BY <1>1, <1>2, PoolAssumption, FS_Subset, FS_CardinalityType

(* No step leaves an idle session to a sleeping task with nobody on the way *)
(* to it.                                                                   *)
LEMMA WakeupStep ==
  ASSUME ShapeInv, ShapeInv', NoLostWakeup, [Next]_vars
  PROVE  NoLostWakeup'
<1> USE DEF ShapeInv
<1> DEFINE parked == InTask("parked")
           woken  == InTask("woken")
<1>0. ASSUME UNCHANGED <<idle>>, parked' = parked, woken' = woken
      PROVE  NoLostWakeup'
  BY <1>0 DEF NoLostWakeup
<1>1. ASSUME NEW u \in Users, Checkout(u), task[u] = "spawned"
      PROVE  NoLostWakeup'
  <2>1. PICK s \in idle : idle' = idle \ {s}
    BY <1>1 DEF Checkout
  <2>2. Cardinality(idle') = Cardinality(idle) - 1
    BY <2>1, CountsFinite, FS_RemoveElement
  <2>3. parked' = parked /\ woken' = woken
    BY <1>1 DEF Checkout, InTask, Shape
  <2> QED
    BY <2>2, <2>3, CountsFinite DEF NoLostWakeup
<1>2. ASSUME NEW u \in Users, Checkout(u), task[u] = "woken"
      PROVE  NoLostWakeup'
  <2>1. PICK s \in idle : idle' = idle \ {s}
    BY <1>2 DEF Checkout
  <2>2. Cardinality(idle') = Cardinality(idle) - 1
    BY <2>1, CountsFinite, FS_RemoveElement
  <2>3. parked' = parked /\ woken' = woken \ {u} /\ u \in woken
    BY <1>2 DEF Checkout, InTask, Shape
  <2>4. Cardinality(woken') = Cardinality(woken) - 1
    BY <2>3, CountsFinite, FS_RemoveElement
  <2> QED
    BY <2>2, <2>3, <2>4, CountsFinite DEF NoLostWakeup
<1>3. ASSUME NEW u \in Users, Park(u)
      PROVE  NoLostWakeup'
  <2>1. idle' = {}
    BY <1>3 DEF Park
  <2>2. Cardinality(idle') = 0
    BY <2>1, FS_EmptySet
  <2>3. Cardinality(woken') \in Nat
    <3>1. IsFiniteSet(Users) /\ woken' \in SUBSET Users
      BY PoolAssumption, FS_Union DEF InTask
    <3> QED
      BY <3>1, FS_Subset, FS_CardinalityType
  <2> QED
    BY <2>2, <2>3 DEF NoLostWakeup
<1>4. ASSUME NEW u \in Users, SpuriousWake(u)
      PROVE  NoLostWakeup'
  <2>1. u \in parked /\ u \notin woken /\ woken' = woken \cup {u} /\ idle' = idle
    BY <1>4 DEF SpuriousWake, InTask, Shape
  <2>2. Cardinality(woken') = Cardinality(woken) + 1
    BY <2>1, CountsFinite, FS_AddElement
  <2> QED
    BY <2>1, <2>2, CountsFinite DEF NoLostWakeup
<1>5. ASSUME NEW u \in Users, ReturnSession(u)
      PROVE  NoLostWakeup'
  <2> DEFINE t == [task EXCEPT ![u] = "returned"]
  <2>1. idle' = idle \cup {lease[u]} /\ NotifyOne(t) /\ task[u] = "leased"
    BY <1>5 DEF ReturnSession
  <2>2. CASE parked = {}
    <3>1. task' = t
      BY <2>1, <2>2 DEF NotifyOne
    <3>2. parked' = {}
      BY <2>2, <3>1 DEF InTask, Shape
    <3> QED
      BY <3>2 DEF NoLostWakeup
  <2>3. CASE parked # {}
    <3>1. PICK w \in parked : task' = [t EXCEPT ![w] = "woken"]
      BY <2>1, <2>3 DEF NotifyOne
    <3>2. w \notin woken /\ woken' = woken \cup {w}
      BY <2>1, <3>1 DEF InTask, Shape
    <3>3. Cardinality(woken') = Cardinality(woken) + 1
      BY <3>2, CountsFinite, FS_AddElement
    <3> DEFINE s == lease[u]
    <3>4. Cardinality(idle \cup {s}) = IF s \in idle THEN Cardinality(idle)
                                      ELSE Cardinality(idle) + 1
      <4> HIDE DEF s
      <4> QED
        BY CountsFinite, FS_AddElement
    <3>5. Cardinality(idle') \in Nat /\ Cardinality(idle') <= Cardinality(idle) + 1
      BY <2>1, <3>4, CountsFinite
    <3> QED
      BY <2>3, <3>3, <3>4, <3>5, CountsFinite DEF NoLostWakeup
  <2> QED
    BY <2>2, <2>3
<1>6. ASSUME NEW c \in Calls, Future(c) \/ Drop(c) \/ Finish(c) \/ EndTask(c)
      PROVE  NoLostWakeup'
  <2>1. idle' = idle
    BY <1>6
       DEF Future, Drop, ClassifyAtOnce, ClassifyQueued, ResumeClassify, Join,
           DropQueued, DropGranted, DropAwaiting, Finish, EndTask
  <2>2. \A u \in Users : /\ task[u] = "parked" <=> task'[u] = "parked"
                         /\ task[u] = "woken" <=> task'[u] = "woken"
    BY <1>6
       DEF Future, Drop, ClassifyAtOnce, ClassifyQueued, ResumeClassify, Join,
           DropQueued, DropGranted, DropAwaiting, Finish, EndTask, FutureAndTask, Shape
  <2> QED
    BY <1>0, <2>1, <2>2 DEF InTask
<1>7. ASSUME NEW u \in Users,
             FailEarly(u) \/ (u \in DirectCalls /\ (DirectCall(u) \/ DirectReturn(u)))
      PROVE  NoLostWakeup'
  BY <1>0, <1>7 DEF FailEarly, DirectCall, DirectReturn, InTask, Shape
<1>8. CASE UNCHANGED vars
  BY <1>0, <1>8 DEF vars, InTask
<1> QED
  <2>1. ASSUME NEW u \in Users, Checkout(u)
        PROVE  NoLostWakeup'
    BY <1>1, <1>2, <2>1 DEF Checkout
  <2> QED
    BY <2>1, <1>3, <1>4, <1>5, <1>6, <1>7, <1>8 DEF Next, Body

(***************************************************************************)
(* The condition variable of `SessionPool` loses no wake-up: "rely on the  *)
(* condvar alone, which is still correct -- just blocking".                *)
(***************************************************************************)
THEOREM WakeupNeverLost == Spec => []NoLostWakeup
<1>1. Init => NoLostWakeup
  BY DEF Init, NoLostWakeup, InTask
<1>2. ShapeInv /\ ShapeInv' /\ NoLostWakeup /\ [Next]_vars => NoLostWakeup'
  BY WakeupStep
<1> QED
  BY <1>1, <1>2, ShapeAlways, PTL DEF Spec

----------------------------------------------------------------------------
(***************************************************************************)
(* The pool implements Admission: each step is one of its steps under the  *)
(* mapping line <- queue, served <- Holders, Slots <- PoolSize, or changes *)
(* neither.  (Admission's fairness is checked by TLC only.)                *)
(***************************************************************************)
LEMMA AdmissionStep ==
  ASSUME ShapeInv, PermitsConserved, [Next]_vars
  PROVE  [Promise!Next]_(Promise!avars)
<1> USE DEF ShapeInv
<1>0. /\ permits + Cardinality(Holders) = PoolSize /\ permits \in Nat
      /\ Cardinality(Holders) \in Nat
  BY HoldersFinite DEF PermitsConserved, Shape
<1>1. CASE NoPermitMove
  BY <1>1 DEF NoPermitMove, Promise!avars
<1>2. ASSUME NEW c \in Calls, fut[c] = "idle"
      PROVE  ~Promise!InLine(c)
  BY <1>2 DEF Promise!InLine, QueueLinked, Shape
<1>3. Promise!Cardinality(Holders) = Cardinality(Holders)
  BY DEF Promise!Cardinality, Cardinality
<1>4. ASSUME NEW c \in Calls, Enters(c)
      PROVE  Promise!Arrive(c)
  BY <1>0, <1>2, <1>4, <1>3 DEF Enters, Promise!Arrive
<1>5. ASSUME NEW c \in Calls, Waits(c)
      PROVE  Promise!Arrive(c)
  BY <1>0, <1>2, <1>5, <1>3 DEF Waits, Promise!Arrive
<1>6. ASSUME NEW c \in Calls, Withdraws(c)
      PROVE  Promise!GiveUp(c)
  BY <1>6 DEF Withdraws, Promise!GiveUp, RemoveAt, Promise!RemoveAt
<1>7. ASSUME NEW c \in Calls, Frees(c) \/ HandsOn(c)
      PROVE  Promise!Leave(c)
  BY <1>7 DEF Frees, HandsOn, Promise!Leave
<1> QED
  BY <1>1, <1>4, <1>5, <1>6, <1>7, PermitMoves DEF PermitMove, Promise!Next

(* The embedded engine (classify, its permit and its closure) implements    *)
(* the first-come, first-served service of Admission: every step of it is   *)
(* one of the service, or none.                                             *)
THEOREM PoolImplementsAdmission == Spec => Promise!Safety
<1>1. Init => Promise!Init
  BY DEF Init, Promise!Init, Holders
<1>2. ShapeInv /\ PermitsConserved /\ [Next]_vars => [Promise!Next]_(Promise!avars)
  BY AdmissionStep
<1> QED
  BY <1>1, <1>2, ShapeAlways, PermitsAlwaysConserved, PTL DEF Spec, Promise!Safety

----------------------------------------------------------------------------
(***************************************************************************)
(* The queue and the waiting futures.  ShapeInv says that who is in the    *)
(* queue waits; this is the converse, and that nobody waits in vain.       *)
(***************************************************************************)
WaitersInLine ==
  \A c \in Calls : fut[c] = "queued" => \E i \in 1..Len(queue) : queue[i] = c

NoIdlePermit == queue # <<>> => permits = 0

(* A hand-over takes the oldest future from the line and lets the others    *)
(* wait.                                                                    *)
LEMMA ReleaseKeepsWaiters ==
  ASSUME ShapeInv, WaitersInLine, NEW c \in Calls, fut[c] # "queued",
         NEW f \in FutState \ {"queued"}, ReleasePermit(c, f)
  PROVE  WaitersInLine'
<1> USE DEF ShapeInv
<1>1. CASE queue = <<>>
  <2>1. queue' = queue /\ fut' = [fut EXCEPT ![c] = f]
    BY <1>1 DEF ReleasePermit
  <2> QED
    BY <2>1 DEF WaitersInLine, Shape
<1>2. CASE queue # <<>>
  <2>1. queue' = Tail(queue) /\ fut' = [fut EXCEPT ![c] = f, ![Head(queue)] = "granted"]
    BY <1>2 DEF ReleasePermit
  <2>2. /\ Len(queue) \in Nat /\ Len(Tail(queue)) = Len(queue) - 1
        /\ Head(queue) = queue[1] /\ Head(queue) \in Calls
        /\ \A i \in 1..(Len(queue) - 1) : Tail(queue)[i] = queue[i + 1]
    BY <1>2 DEF Shape
  <2>3. ASSUME NEW d \in Calls, fut'[d] = "queued"
        PROVE  \E i \in 1..Len(queue') : queue'[i] = d
    <3>1. d # Head(queue) /\ fut[d] = "queued"
      BY <2>1, <2>2, <2>3 DEF Shape
    <3>2. PICK i \in 1..Len(queue) : queue[i] = d
      BY <3>1 DEF WaitersInLine
    <3>3. i # 1 /\ i - 1 \in 1..(Len(queue) - 1) /\ (i - 1) + 1 = i
      BY <2>2, <3>1, <3>2
    <3> QED
      BY <2>1, <2>2, <3>2, <3>3
  <2> QED
    BY <2>3 DEF WaitersInLine
<1> QED
  BY <1>1, <1>2

(* Every future that waits is in the line, after every step.                *)
LEMMA WaitersStep ==
  ASSUME ShapeInv, WaitersInLine, [Next]_vars
  PROVE  WaitersInLine'
<1> USE DEF ShapeInv
<1>1. ASSUME NEW c \in Calls, ClassifyQueued(c)
      PROVE  WaitersInLine'
  <2>1. /\ Len(queue) \in Nat /\ Len(queue') = Len(queue) + 1 /\ queue'[Len(queue) + 1] = c
        /\ \A i \in 1..Len(queue) : queue'[i] = queue[i]
    BY <1>1 DEF ClassifyQueued, Shape
  <2>2. \A d \in Calls : fut'[d] = "queued" => d = c \/ fut[d] = "queued"
    BY <1>1 DEF ClassifyQueued, Shape
  <2>3. Len(queue) + 1 \in 1..Len(queue') /\ 1..Len(queue) \subseteq 1..Len(queue')
    BY <2>1
  <2> QED
    BY <2>1, <2>2, <2>3 DEF WaitersInLine
<1>2. ASSUME NEW c \in Calls, DropQueued(c)
      PROVE  WaitersInLine'
  <2>1. PICK i \in 1..Len(queue) : queue[i] = c /\ queue' = RemoveAt(queue, i)
    BY <1>2 DEF DropQueued, Shape
  <2>2. /\ Len(queue) \in Nat /\ Len(queue') = Len(queue) - 1
        /\ \A j \in 1..(Len(queue) - 1) :
             queue'[j] = IF j < i THEN queue[j] ELSE queue[j + 1]
    <3>1. queue \in Seq(Calls) /\ Len(queue) \in Nat
      BY DEF Shape
    <3>2. queue' = RemoveAt(queue, i)
      BY <2>1
    <3> QED
      BY <3>1, <3>2, RemoveAtElements
  <2>3. ASSUME NEW d \in Calls, fut'[d] = "queued"
        PROVE  \E j \in 1..Len(queue') : queue'[j] = d
    <3>1. d # c /\ fut[d] = "queued"
      BY <1>2, <2>3 DEF DropQueued, Shape
    <3>2. PICK j \in 1..Len(queue) : queue[j] = d
      BY <3>1 DEF WaitersInLine
    <3>3. j # i
      BY <2>1, <3>1, <3>2
    <3>4. CASE j < i
      <4>1. j \in 1..(Len(queue) - 1) /\ j \in 1..Len(queue')
        BY <2>2, <3>4
      <4> QED
        BY <2>2, <3>2, <3>4, <4>1
    <3>5. CASE j > i
      <4>1. /\ j - 1 \in 1..(Len(queue) - 1) /\ j - 1 \in 1..Len(queue')
            /\ ~(j - 1 < i) /\ (j - 1) + 1 = j
        BY <2>2, <3>5
      <4>2. queue'[j - 1] = queue[j]
        BY <2>2, <4>1
      <4> QED
        BY <3>2, <4>1, <4>2
    <3> QED
      BY <3>3, <3>4, <3>5
  <2> QED
    BY <2>3 DEF WaitersInLine
<1>3. ASSUME NEW c \in Calls, DropGranted(c) \/ Finish(c)
      PROVE  WaitersInLine'
  <2>1. fut[c] # "queued"
    BY <1>3 DEF DropGranted, Finish, FutureAndTask
  <2>2. PICK f \in {"idle", "awaiting", "dropped"} : ReleasePermit(c, f)
    BY <1>3 DEF DropGranted, Finish, FutureAndTask, Shape
  <2> QED
    BY <2>1, <2>2, ReleaseKeepsWaiters
<1>4. ASSUME NEW c \in Calls,
             ClassifyAtOnce(c) \/ ResumeClassify(c) \/ Join(c) \/ DropAwaiting(c) \/ EndTask(c)
      PROVE  WaitersInLine'
  BY <1>4 DEF ClassifyAtOnce, ResumeClassify, Join, DropAwaiting, EndTask, WaitersInLine, Shape
<1>5. ASSUME NEW u \in Users, Body(u)
      PROVE  WaitersInLine'
  BY <1>5 DEF Body, FailEarly, Checkout, Park, SpuriousWake, ReturnSession, WaitersInLine
<1>6. ASSUME NEW u \in DirectCalls, DirectCall(u) \/ DirectReturn(u)
      PROVE  WaitersInLine'
  BY <1>6 DEF DirectCall, DirectReturn, WaitersInLine
<1>7. CASE UNCHANGED vars
  BY <1>7 DEF vars, WaitersInLine
<1> QED
  BY <1>1, <1>2, <1>3, <1>4, <1>5, <1>6, <1>7 DEF Next, Future, Drop

(* No step leaves a permit free while the line is not empty.                *)
LEMMA NoIdlePermitStep ==
  ASSUME ShapeInv, NoIdlePermit, [Next]_vars
  PROVE  NoIdlePermit'
<1>1. permits \in Nat /\ queue \in Seq(Calls)
  BY DEF ShapeInv, Shape
<1>2. ASSUME NEW c \in Calls, Withdraws(c)
      PROVE  NoIdlePermit'
  <2>1. queue # <<>>
    BY <1>2 DEF Withdraws
  <2> QED
    BY <1>2, <2>1 DEF Withdraws, NoIdlePermit
<1>3. ASSUME NEW c \in Calls, Enters(c) \/ Waits(c) \/ Frees(c) \/ HandsOn(c)
      PROVE  NoIdlePermit'
  BY <1>1, <1>3 DEF Enters, Waits, Frees, HandsOn, NoIdlePermit
<1>4. CASE NoPermitMove
  BY <1>4 DEF NoPermitMove, NoIdlePermit
<1> QED
  BY <1>2, <1>3, <1>4, PermitMoves DEF PermitMove

(***************************************************************************)
(* The queue is exact in every reachable state: a future that waits is in  *)
(* it once, and no permit is free meanwhile.                               *)
(***************************************************************************)
THEOREM QueueAlwaysExact == Spec => []QueueExact
<1>1. Init => WaitersInLine /\ NoIdlePermit
  BY DEF Init, WaitersInLine, NoIdlePermit
<1>2. ShapeInv /\ WaitersInLine /\ NoIdlePermit /\ [Next]_vars
        => WaitersInLine' /\ NoIdlePermit'
  BY WaitersStep, NoIdlePermitStep
<1>3. ShapeInv /\ WaitersInLine /\ NoIdlePermit => QueueExact
  <2> SUFFICES ASSUME ShapeInv, WaitersInLine, NoIdlePermit
               PROVE  QueueExact
    OBVIOUS
  <2>1. DOMAIN queue = 1..Len(queue)
    BY DEF ShapeInv, Shape
  <2>2. \A c \in Calls : fut[c] = "queued" <=> \E i \in DOMAIN queue : queue[i] = c
    BY <2>1 DEF ShapeInv, QueueLinked, WaitersInLine
  <2>3. \A i, j \in DOMAIN queue : queue[i] = queue[j] => i = j
    BY <2>1 DEF ShapeInv, QueueLinked
  <2> QED
    BY <2>2, <2>3 DEF QueueExact, NoIdlePermit
<1> QED
  BY <1>1, <1>2, <1>3, ShapeAlways, PTL DEF Spec
----------------------------------------------------------------------------
(***************************************************************************)
(* Order and progress of the line.                                         *)
(***************************************************************************)
(* Who came later stays behind, or goes away unserved, for as long as who   *)
(* came earlier waits.                                                      *)
InOrder(c, d) ==
  PrecedesIn(queue, c, d) /\ IsIn(queue', c) =>
    PrecedesIn(queue', c, d) \/ ~(IsIn(queue', d) \/ d \in Holders')

NoneOvertaken == \A c, d \in Calls : InOrder(c, d)

(* Somebody waits: for a permit, or on the condition variable. *)
SomebodyWaits == queue # <<>> \/ InTask("parked") # {}

(* Somebody is about to run, or runs. *)
SomebodyRuns ==
  \/ \E c \in Calls : fut[c] = "granted"
  \/ \E u \in Users : task[u] \in {"spawned", "woken", "leased", "returned"}

(***************************************************************************)
(* The line is first come, first served: nobody is served before one who   *)
(* was ahead of him and still waits, whoever hangs up in between.  (The    *)
(* comments of the engine call the waiters futures that queue; tokio's     *)
(* semaphore is fair.)                                                     *)
(***************************************************************************)
THEOREM NobodyIsOvertaken == Spec => [][NoneOvertaken]_vars
<1>1. ASSUME ShapeInv, [Next]_vars
      PROVE  NoneOvertaken
  <2> SUFFICES ASSUME NEW c \in Calls, NEW d \in Calls, PrecedesIn(queue, c, d),
                      IsIn(queue', c), IsIn(queue', d) \/ d \in Holders'
               PROVE  PrecedesIn(queue', c, d)
    BY DEF NoneOvertaken, InOrder
  <2>1. /\ queue \in Seq(Calls) /\ DOMAIN queue = 1..Len(queue)
        /\ \A i, j \in 1..Len(queue) : queue[i] = queue[j] => i = j
    BY <1>1 DEF ShapeInv, Shape, QueueLinked
  <2>2. \/ queue' = queue
        \/ \E e \in Calls : queue' = Append(queue, e)
        \/ queue # <<>> /\ queue' = Tail(queue)
        \/ \E k \in 1..Len(queue) : queue' = RemoveAt(queue, k)
    BY <1>1, <2>1, PermitMoves
       DEF PermitMove, NoPermitMove, Enters, Waits, Withdraws, Frees, HandsOn
  <2>3. IsIn(queue', d)
    <3>1. PICK p, q \in 1..Len(queue) : p < q /\ queue[p] = c /\ queue[q] = d
      BY <2>1 DEF PrecedesIn
    <3>2. d \notin Holders
      BY <1>1, <3>1 DEF ShapeInv, QueueLinked, FutureAndTask, Holders
    <3>3. CASE d \in Holders'
      <4>1. PICK e \in Calls : Enters(e) \/ HandsOn(e)
        BY <1>1, <3>2, <3>3, PermitMoves
           DEF PermitMove, NoPermitMove, Waits, Withdraws, Frees
      <4>2. CASE Enters(e)
        <5>1. d # e
          BY <1>1, <3>1, <4>2 DEF Enters, ShapeInv, QueueLinked
        <5> QED
          BY <3>2, <3>3, <4>2, <5>1 DEF Enters
      <4>3. CASE HandsOn(e)
        <5>1. d = queue[1] /\ 1 \in 1..Len(queue)
          BY <2>1, <3>2, <3>3, <4>3 DEF HandsOn
        <5>2. q = 1
          BY <2>1, <3>1, <5>1
        <5> QED
          BY <3>1, <5>2
      <4> QED
        BY <4>1, <4>2, <4>3
    <3> QED
      BY <3>3
  <2> QED
    BY <2>1, <2>2, <2>3, LineKeepsOrder
<1> QED
  BY <1>1, ShapeAlways, PTL DEF Spec

(***************************************************************************)
(* The two layers cannot block each other: while a call waits for a permit *)
(* or a task for a session, some closure runs or is about to.  Permits are *)
(* held while the line is not empty, and who holds one may itself be       *)
(* parked, when direct callers have the sessions; but then a session is    *)
(* out, or a task is woken for it.                                         *)
(***************************************************************************)
THEOREM LayersNeverDeadlock == Spec => [](SomebodyWaits => SomebodyRuns)
<1>1. ASSUME ShapeInv, PermitsConserved, SessionsConserved, NoLostWakeup, QueueExact,
             SomebodyWaits
      PROVE  SomebodyRuns
  <2>1. ASSUME InTask("parked") # {}
        PROVE  SomebodyRuns
    <3>1. CASE InTask("woken") # {}
      BY <3>1 DEF InTask, SomebodyRuns
    <3>2. CASE InTask("woken") = {}
      <4>1. Cardinality(idle) <= 0
        BY <1>1, <2>1, <3>2, FS_EmptySet DEF NoLostWakeup
      <4>2. idle = {}
        BY <1>1, <4>1, CountsFinite, FS_EmptySet DEF ShapeInv
      <4>3. PICK s \in Sessions : TRUE
        BY PoolAssumption
      <4>4. PICK u \in Users : lease[u] = s
        BY <1>1, <4>2, <4>3 DEF SessionsConserved
      <4>5. task[u] = "leased"
        BY <1>1, <4>3, <4>4, PoolAssumption DEF ShapeInv, LeaseIffLeased
      <4> QED
        BY <4>5 DEF SomebodyRuns
    <3> QED
      BY <3>1, <3>2
  <2>2. ASSUME queue # <<>>
        PROVE  SomebodyRuns
    <3>1. permits = 0 /\ PoolSize \in Nat \ {0}
      <4>1. PoolSize \in Nat /\ PoolSize # 0
        BY PoolAssumption, FS_CardinalityType, FS_EmptySet DEF PoolSize
      <4> QED
        BY <1>1, <2>2, <4>1 DEF QueueExact
    <3>2. Cardinality(Holders) # 0
      BY <1>1, <3>1, HoldersFinite DEF PermitsConserved
    <3>3. PICK c \in Calls : fut[c] = "granted" \/ task[c] \in Running
      BY <3>2, FS_EmptySet DEF Holders
    <3>4. CASE task[c] = "parked"
      BY <2>1, <3>4 DEF InTask
    <3> QED
      BY <3>3, <3>4 DEF SomebodyRuns
  <2> QED
    BY <1>1, <2>1, <2>2 DEF SomebodyWaits
<1> QED
  BY <1>1, ShapeAlways, PermitsAlwaysConserved, SessionsAlwaysConserved,
     WakeupNeverLost, QueueAlwaysExact, PTL
=============================================================================
