--------------------------- MODULE ServingProofs ---------------------------
(***************************************************************************)
(* Proofs about the server that Startup starts: its sessions, its ladder,  *)
(* its credentials, and the types of all that is on the way to it.         *)
(***************************************************************************)
EXTENDS StartupProofs

USE DEF Offline, Commands

(***************************************************************************)
(* The sessions of the embedded engine.                                    *)
(***************************************************************************)

(* The smaller of two factors, the smaller product. *)
LEMMA ProductGrows ==
  ASSUME NEW a \in Nat, NEW b \in Nat, a <= b, NEW s \in Nat
  PROVE  a * s <= b * s
OBVIOUS

(* A plan stays within the cores, and a plan of more than one session       *)
(* within the memory.                                                      *)
LEMMA PlanStaysWithin ==
  ASSUME NEW cores \in Nat, NEW budget \in Nat
  PROVE  LET plan == PlanInference(cores, budget)
         IN /\ plan.pool \in Nat \ {0} /\ plan.intra \in {1, 2}
            /\ plan.pool * plan.intra <= AtLeastOne(cores)
            /\ budget # 0 /\ plan.pool > 1 => BaselineMemory + plan.pool * SessionMemory <= budget
<1> DEFINE c == AtLeastOne(cores)
           t == IntraOpThreads(cores)
           k == CorePool(cores)
           m == MaxSessions(budget)
           planned == PlanInference(cores, budget).pool
           room == UsableMemory(budget) - BaselineMemory
<1>1. c \in Nat \ {0} /\ t \in {1, 2} /\ (t = 2 => c >= 2)
  BY DEF AtLeastOne, IntraOpThreads
<1>2. k \in Nat \ {0} /\ k * t <= c
  <2>1. \A x \in Nat \ {0} : x \div 1 = x /\ x \div 2 \in Nat /\ (x >= 2 => x \div 2 # 0)
                             /\ (x \div 2) * 2 <= x
    OBVIOUS
  <2>2. k = AtLeastOne(c \div t)
    BY DEF CorePool
  <2> HIDE DEF c, t, k
  <2>3. CASE t = 1
    <3>1. k = c
      BY <1>1, <2>1, <2>2, <2>3 DEF AtLeastOne
    <3> QED
      BY <1>1, <2>3, <3>1
  <2>4. CASE t = 2
    <3>1. k = c \div 2 /\ k # 0
      BY <1>1, <2>1, <2>2, <2>4 DEF AtLeastOne
    <3> QED
      BY <1>1, <2>1, <2>4, <3>1
  <2> QED
    BY <1>1, <2>3, <2>4
<1>3. m \in Nat /\ (m > 0 => BaselineMemory + m * SessionMemory <= budget)
  <2>1. UsableMemory(budget) \in Nat /\ UsableMemory(budget) <= budget
    <3>1. budget \div 10 \in Nat /\ 9 * (budget \div 10) <= budget
      OBVIOUS
    <3> QED
      BY <3>1 DEF UsableMemory
  <2>2. CASE UsableMemory(budget) < BaselineMemory
    <3>1. m = 0
      BY <2>2 DEF MaxSessions
    <3> QED
      BY <3>1
  <2>3. CASE ~(UsableMemory(budget) < BaselineMemory)
    <3>1. room \in Nat /\ m = room \div SessionMemory
      BY <2>1, <2>3, PlanningAssumption DEF MaxSessions
    <3>2. \A x \in Nat : \A d \in Nat \ {0} : x \div d \in Nat /\ (x \div d) * d <= x
      OBVIOUS
    <3>3. m \in Nat /\ m * SessionMemory <= room
      BY <3>1, <3>2, PlanningAssumption
    <3> HIDE DEF m
    <3>4. m * SessionMemory \in Nat
      BY <3>3, PlanningAssumption
    <3> QED
      BY <2>1, <3>3, <3>4, PlanningAssumption
  <2> QED
    BY <2>2, <2>3
<1>4. /\ planned = IF budget = 0 THEN k ELSE AtLeastOne(Lesser(k, m))
      /\ PlanInference(cores, budget).intra = t
  BY DEF PlanInference
<1> HIDE DEF c, t, k, m, planned
<1>5. planned \in Nat \ {0} /\ planned <= k
  BY <1>2, <1>3, <1>4 DEF AtLeastOne, Lesser
<1>6. planned * t <= c
  <2>1. planned * t <= k * t
    BY <1>1, <1>2, <1>5, ProductGrows
  <2>2. planned * t \in Nat /\ k * t \in Nat
    BY <1>1, <1>2, <1>5
  <2> QED
    BY <1>1, <1>2, <2>1, <2>2
<1>7. ASSUME budget # 0, planned > 1
      PROVE  BaselineMemory + planned * SessionMemory <= budget
  <2>1. planned <= m /\ m > 0
    BY <1>2, <1>3, <1>4, <1>7 DEF AtLeastOne, Lesser
  <2>2. planned * SessionMemory <= m * SessionMemory
    BY <1>3, <1>5, <2>1, ProductGrows, PlanningAssumption
  <2>3. planned * SessionMemory \in Nat /\ m * SessionMemory \in Nat
    BY <1>3, <1>5, PlanningAssumption
  <2> QED
    BY <1>3, <2>1, <2>2, <2>3, PlanningAssumption
<1> QED
  BY <1>1, <1>4, <1>5, <1>6, <1>7 DEF planned, c

(* Rounding down loses less than a whole. *)
LEMMA NextQuotientExceeds ==
  ASSUME NEW x \in Nat, NEW d \in Nat \ {0}
  PROVE  x \div d \in Nat /\ (x \div d + 1) * d > x
OBVIOUS

(* A larger number of anything makes at least as many whole parts. *)
LEMMA QuotientGrows ==
  ASSUME NEW x \in Nat, NEW y \in Nat, x <= y, NEW d \in Nat \ {0}
  PROVE  x \div d <= y \div d
<1>1. /\ x \div d \in Nat /\ (x \div d) * d <= x
      /\ y \div d \in Nat /\ (y \div d + 1) * d > y
  OBVIOUS
<1> DEFINE a == x \div d
           b == y \div d
<1> HIDE DEF a, b
<1>2. a \in Nat /\ b \in Nat /\ a * d <= x /\ (b + 1) * d > y
  BY <1>1 DEF a, b
<1>3. ASSUME a >= b + 1
      PROVE  FALSE
  <2>1. (b + 1) * d <= a * d
    BY <1>2, <1>3, ProductGrows
  <2>2. (b + 1) * d \in Nat /\ a * d \in Nat
    BY <1>2
  <2> QED
    BY <1>2, <2>1, <2>2
<1>4. a <= b
  BY <1>2, <1>3
<1> QED
  BY <1>4 DEF a, b

(* The cores' share: at least a session, and one session more would have a  *)
(* thread too many.                                                         *)
LEMMA CorePoolIsLargest ==
  ASSUME NEW cores \in Nat
  PROVE  /\ CorePool(cores) \in Nat \ {0}
         /\ (CorePool(cores) + 1) * IntraOpThreads(cores) > AtLeastOne(cores)
<1> DEFINE c == AtLeastOne(cores)
           t == IntraOpThreads(cores)
<1>1. c \in Nat \ {0} /\ t \in Nat \ {0} /\ (t = 1 \/ (t = 2 /\ c >= 2))
  BY DEF AtLeastOne, IntraOpThreads
<1>2. CorePool(cores) = AtLeastOne(c \div t)
  BY DEF CorePool
<1> HIDE DEF c, t
<1>3. c \div t \in Nat /\ c \div t # 0
  BY <1>1
<1>4. CorePool(cores) = c \div t
  BY <1>2, <1>3 DEF AtLeastOne
<1> QED
  BY <1>1, <1>3, <1>4, NextQuotientExceeds DEF c, t

(* The memory's share: one session more would not be within nine tenths.    *)
LEMMA MaxSessionsIsLargest ==
  ASSUME NEW budget \in Nat
  PROVE  /\ MaxSessions(budget) \in Nat
         /\ BaselineMemory + (MaxSessions(budget) + 1) * SessionMemory > UsableMemory(budget)
<1> DEFINE u == UsableMemory(budget)
           m == MaxSessions(budget)
<1>1. u \in Nat
  <2>1. budget \div 10 \in Nat
    OBVIOUS
  <2> QED
    BY <2>1 DEF UsableMemory
<1>2. m = IF u < BaselineMemory THEN 0 ELSE (u - BaselineMemory) \div SessionMemory
  BY DEF MaxSessions
<1> HIDE DEF u, m
<1>3. CASE u < BaselineMemory
  BY <1>1, <1>2, <1>3, PlanningAssumption DEF u, m
<1>4. CASE ~(u < BaselineMemory)
  <2>1. u - BaselineMemory \in Nat /\ m = (u - BaselineMemory) \div SessionMemory
    BY <1>1, <1>2, <1>4, PlanningAssumption
  <2>2. m \in Nat /\ (m + 1) * SessionMemory > u - BaselineMemory
    BY <2>1, NextQuotientExceeds, PlanningAssumption
  <2>3. (m + 1) * SessionMemory \in Nat
    BY <2>2, PlanningAssumption
  <2> QED
    BY <1>1, <2>2, <2>3, PlanningAssumption DEF u, m
<1> QED
  BY <1>3, <1>4

(***************************************************************************)
(* "Take the minimum of the core-based and memory-based pool sizes": a     *)
(* plan gives nothing away.  With one session more there would be more     *)
(* threads than cores, or less than a tenth of the memory to spare.        *)
(***************************************************************************)
THEOREM PlanIsLargest ==
  ASSUME NEW cores \in Nat, NEW budget \in Nat
  PROVE  LET plan == PlanInference(cores, budget)
         IN \/ (plan.pool + 1) * plan.intra > AtLeastOne(cores)
            \/ /\ budget # 0
               /\ BaselineMemory + (plan.pool + 1) * SessionMemory > UsableMemory(budget)
<1> DEFINE k == CorePool(cores)
           m == MaxSessions(budget)
           planned == PlanInference(cores, budget).pool
<1>1. /\ planned = IF budget = 0 THEN k ELSE AtLeastOne(Lesser(k, m))
      /\ PlanInference(cores, budget).intra = IntraOpThreads(cores)
  BY DEF PlanInference
<1>2. /\ k \in Nat \ {0} /\ (k + 1) * IntraOpThreads(cores) > AtLeastOne(cores)
      /\ m \in Nat /\ BaselineMemory + (m + 1) * SessionMemory > UsableMemory(budget)
  BY CorePoolIsLargest, MaxSessionsIsLargest
<1> HIDE DEF k, m, planned
<1>3. CASE planned = k
  BY <1>1, <1>2, <1>3 DEF planned
<1>4. CASE planned # k
  <2>1. budget # 0 /\ planned = AtLeastOne(m)
    BY <1>1, <1>2, <1>4 DEF Lesser, AtLeastOne
  <2>2. planned \in Nat /\ m + 1 <= planned + 1
    BY <1>2, <2>1 DEF AtLeastOne
  <2>3. (m + 1) * SessionMemory <= (planned + 1) * SessionMemory
    BY <1>2, <2>2, ProductGrows, PlanningAssumption
  <2>4. UsableMemory(budget) \in Nat
    <3>1. budget \div 10 \in Nat
      OBVIOUS
    <3> QED
      BY <3>1 DEF UsableMemory
  <2>5. (m + 1) * SessionMemory \in Nat /\ (planned + 1) * SessionMemory \in Nat
    BY <1>2, <2>2, PlanningAssumption
  <2>6. BaselineMemory + (planned + 1) * SessionMemory > UsableMemory(budget)
    BY <1>2, <2>3, <2>4, <2>5, PlanningAssumption
  <2> QED
    BY <2>1, <2>6 DEF planned
<1> QED
  BY <1>3, <1>4

(***************************************************************************)
(* A larger host never gets a smaller pool, in cores or in memory (as the  *)
(* tests of `plan_inference` and `max_sessions_for_memory` ask of some).   *)
(***************************************************************************)
THEOREM PlanGrowsWithHost ==
  ASSUME NEW cores \in Nat, NEW budget \in Nat \ {0},
         NEW more \in Nat, NEW larger \in Nat, cores <= more, budget <= larger
  PROVE  PlanInference(cores, budget).pool <= PlanInference(more, larger).pool
<1>1. CorePool(cores) <= CorePool(more)
  <2> DEFINE Share(c) == IF c >= 2 THEN c \div 2 ELSE 1
  <2>1. ASSUME NEW n \in Nat
        PROVE  CorePool(n) = Share(AtLeastOne(n)) /\ AtLeastOne(n) \in Nat \ {0}
    <3>1. AtLeastOne(n) \in Nat \ {0}
      BY DEF AtLeastOne
    <3>2. \A x \in Nat \ {0} : x \div 1 = x /\ (x >= 2 => x \div 2 \in Nat /\ x \div 2 # 0)
      OBVIOUS
    <3>3. CASE AtLeastOne(n) >= 2
      <4>1. AtLeastOne(n) \div 2 # 0
        BY <3>1, <3>2, <3>3
      <4>2. CorePool(n) = AtLeastOne(AtLeastOne(n) \div 2)
        BY <3>3 DEF CorePool, IntraOpThreads
      <4>3. \A x \in Nat \ {0} : AtLeastOne(x) = x
        BY DEF AtLeastOne
      <4> QED
        BY <3>1, <3>2, <3>3, <4>2, <4>3
    <3>4. CASE ~(AtLeastOne(n) >= 2)
      <4>1. AtLeastOne(n) = 1
        BY <3>1, <3>4
      <4>2. CorePool(n) = AtLeastOne(1 \div 1)
        BY <3>4, <4>1 DEF CorePool, IntraOpThreads
      <4> QED
        BY <3>1, <3>4, <4>2 DEF AtLeastOne
    <3> QED
      BY <3>3, <3>4
  <2>2. \A c \in Nat \ {0}, d \in Nat \ {0} : c <= d => Share(c) <= Share(d)
    OBVIOUS
  <2>3. AtLeastOne(cores) <= AtLeastOne(more)
    BY DEF AtLeastOne
  <2> HIDE DEF Share
  <2> QED
    BY <2>1, <2>2, <2>3
<1>2. MaxSessions(budget) <= MaxSessions(larger)
  <2>1. /\ UsableMemory(budget) \in Nat /\ UsableMemory(larger) \in Nat
        /\ UsableMemory(budget) <= UsableMemory(larger)
    <3>1. /\ budget \div 10 \in Nat /\ larger \div 10 \in Nat
          /\ budget \div 10 <= larger \div 10
      OBVIOUS
    <3> QED
      BY <3>1 DEF UsableMemory
  <2>2. CASE UsableMemory(budget) < BaselineMemory
    <3>1. MaxSessions(budget) = 0 /\ MaxSessions(larger) \in Nat
      BY <2>2, MaxSessionsIsLargest DEF MaxSessions
    <3> QED
      BY <3>1
  <2>3. CASE ~(UsableMemory(budget) < BaselineMemory)
    <3>1. /\ MaxSessions(budget) = (UsableMemory(budget) - BaselineMemory) \div SessionMemory
          /\ MaxSessions(larger) = (UsableMemory(larger) - BaselineMemory) \div SessionMemory
      BY <2>1, <2>3, PlanningAssumption DEF MaxSessions
    <3>2. /\ UsableMemory(budget) - BaselineMemory \in Nat
          /\ UsableMemory(larger) - BaselineMemory \in Nat
          /\ UsableMemory(budget) - BaselineMemory <= UsableMemory(larger) - BaselineMemory
      BY <2>1, <2>3, PlanningAssumption
    <3> QED
      BY <3>1, <3>2, QuotientGrows, PlanningAssumption
  <2> QED
    BY <2>2, <2>3
<1>3. /\ PlanInference(cores, budget).pool
           = AtLeastOne(Lesser(CorePool(cores), MaxSessions(budget)))
      /\ PlanInference(more, larger).pool
           = AtLeastOne(Lesser(CorePool(more), MaxSessions(larger)))
  BY DEF PlanInference
<1> QED
  BY <1>1, <1>2, <1>3, CorePoolIsLargest, MaxSessionsIsLargest DEF AtLeastOne, Lesser

(* The pool that `from_config` makes of the settings and the plan. *)
PoolInv ==
  Local \in Range(roster) =>
    LET budget == DetectMemoryBudget(world.cgroup, world.total)
        plan   == PlanInference(world.cores, budget)
        size   == OrElse(doc.inference_pool_size, plan.pool)
        intra  == OrElse(doc.intra_op_threads, plan.intra)
    IN pool = [size |-> AtLeastOne(size), intra |-> intra,
               warned |-> OvercommitWarnings(size, intra, world.cores, budget)]

(* No step but the construction of the embedded engine touches the pool,    *)
(* and that makes it as planned.                                            *)
LEMMA PoolStep ==
  ASSUME CommonInv, PoolInv, [Next]_vars
  PROVE  PoolInv'
<1>0. UNCHANGED scenario /\ roster \in Seq(Engines)
  <2>1. UNCHANGED scenario
    BY DEF Next, vars, scenario, ResolvePath, FormatForPath, Read, Parse, ExpandEnv, Deserialize,
           Validate, ResolveKeyring, InitTelemetry, CheckEngines, Deploy, BuildLocal, BuildRemote,
           Assemble, NewState, Bind
  <2> QED
    BY <2>1 DEF CommonInv, Shape
<1>1. ASSUME UNCHANGED pool, Local \in Range(roster') => Local \in Range(roster)
      PROVE  PoolInv'
  BY <1>0, <1>1 DEF PoolInv, scenario
<1>2. CASE BuildLocal
  <2>1. CASE UNCHANGED <<roster, pool>>
    BY <1>1, <2>1
  <2>2. CASE ~UNCHANGED <<roster, pool>>
    BY <1>0, <1>2, <2>2 DEF BuildLocal, PoolInv, scenario
  <2> QED
    BY <2>1, <2>2
<1>3. CASE BuildRemote
  <2>1. CASE UNCHANGED roster
    BY <1>1, <1>3, <2>1 DEF BuildRemote
  <2>2. CASE roster' = Append(roster, Current)
    <3>1. UNCHANGED pool /\ Current # Local
      BY <1>3 DEF BuildRemote
    <3>2. \A e : \A i \in DOMAIN Append(roster, e) :
            Append(roster, e)[i] = e \/ (i \in DOMAIN roster /\ Append(roster, e)[i] = roster[i])
      BY <1>0
    <3>3. Local \in Range(roster') => Local \in Range(roster)
      BY <2>2, <3>1, <3>2 DEF Range
    <3> QED
      BY <1>1, <3>1, <3>3
  <2> QED
    BY <1>3, <2>1, <2>2 DEF BuildRemote
<1>4. CASE UNCHANGED <<roster, pool>>
  BY <1>1, <1>4
<1> QED
  BY <1>2, <1>3, <1>4
     DEF Next, vars, built, ResolvePath, FormatForPath, Read, Parse, ExpandEnv, Deserialize,
         Validate, ResolveKeyring, InitTelemetry, CheckEngines, Deploy, Assemble, NewState, Bind

(* A pool made as planned or as written fits the host as PoolFits says.     *)
LEMMA PoolIsFit == CommonInv /\ PoolInv => PoolFits
<1> SUFFICES ASSUME CommonInv, PoolInv, Local \in Range(roster)
             PROVE  PoolFits
  BY DEF PoolFits
<1> DEFINE budget == DetectMemoryBudget(world.cgroup, world.total)
           plan   == PlanInference(world.cores, budget)
           size   == OrElse(doc.inference_pool_size, plan.pool)
           intra  == OrElse(doc.intra_op_threads, plan.intra)
<1>1. /\ doc.inference_pool_size \in Nat \cup {-1} /\ doc.intra_op_threads \in Nat \cup {-1}
      /\ world.cores \in Nat /\ budget \in Nat
  BY SelectedEngines DEF CommonInv, Document, World, DetectMemoryBudget
<1>2. /\ plan.pool \in Nat \ {0} /\ plan.intra \in {1, 2}
      /\ plan.pool * plan.intra <= AtLeastOne(world.cores)
      /\ budget # 0 /\ plan.pool > 1 => BaselineMemory + plan.pool * SessionMemory <= budget
  BY <1>1, PlanStaysWithin
<1>3. /\ pool.size = AtLeastOne(size) /\ pool.intra = intra
      /\ pool.warned = OvercommitWarnings(size, intra, world.cores, budget)
  BY DEF PoolInv
<1> HIDE DEF budget, plan, size, intra
<1>4. ASSUME doc.inference_pool_size = -1, doc.intra_op_threads = -1
      PROVE  /\ pool.size * AtLeastOne(pool.intra) <= AtLeastOne(world.cores)
             /\ budget # 0 /\ pool.size > 1 => BaselineMemory + pool.size * SessionMemory <= budget
  <2>1. pool.size = plan.pool /\ AtLeastOne(pool.intra) = plan.intra
    BY <1>2, <1>3, <1>4 DEF OrElse, AtLeastOne, size, intra
  <2> QED
    BY <1>2, <2>1
<1>5. doc.inference_pool_size > 0 => pool.size = doc.inference_pool_size
  BY <1>1, <1>3 DEF OrElse, AtLeastOne, size
<1>6. ASSUME doc.inference_pool_size # 0
      PROVE  pool.size = size
  BY <1>1, <1>2, <1>3, <1>6 DEF OrElse, AtLeastOne, size
<1>7. ASSUME doc.inference_pool_size # 0
      PROVE  /\ pool.size * AtLeastOne(pool.intra) > AtLeastOne(world.cores) <=> "cpu" \in pool.warned
             /\ budget # 0 /\ BaselineMemory + pool.size * SessionMemory > budget
                  <=> "memory" \in pool.warned
  BY <1>3, <1>6, <1>7 DEF OvercommitWarnings
<1> QED
  BY <1>4, <1>5, <1>7 DEF PoolFits, budget

(* A planned pool fits the host, and an explicit one that does not is warned *)
(* of, whatever the host, the costs and the configuration.                  *)
THEOREM PoolAlwaysFits == Spec => []PoolFits
<1>1. Init => PoolInv
  BY DEF Init, PoolInv, Range
<1>2. CommonInv /\ PoolInv /\ [Next]_vars => PoolInv'
  BY PoolStep
<1> QED
  BY <1>1, <1>2, CommonAlways, PoolIsFit, PTL DEF Spec

(***************************************************************************)
(* The server that listens.                                                *)
(***************************************************************************)

(* The remote engines built so far, and those that discovered credentials.  *)
Hired == Range(roster) \ {Local}
Discoverers == {e \in Hired : NeedsAdc(e, Resolved1.tables[e])}

Instruments == IF doc.telemetry.on /\ doc.telemetry.metrics THEN "real" ELSE "noop"

(* What was done outside the process is accounted for by what was built.    *)
ServeInv ==
  /\ phase \in {"build", "state", "bind", "serving"} =>
       /\ effects["serve"].remote = Hired
       /\ effects["serve"].adc =
            Cardinality(Discoverers) +
            (IF phase \in {"bind", "serving"} THEN Discoveries(Resolved1.auth) ELSE 0)
       /\ Discoverers # {} => world.adc
  /\ phase \in {"state", "bind", "serving"} =>
       /\ Len(roster) = Len(Selected(doc))
       /\ ladder \in ByBudget([i \in DOMAIN roster |-> Budgets[roster[i]]])
       /\ Accepted(ladder)
  /\ phase \in {"bind", "serving"} =>
       /\ metrics = Instruments
       /\ \A i \in DOMAIN Resolved1.auth : Resolved1.auth[i].kind = "google-adc" => world.adc

(* What appending adds. *)
LEMMA AppendRange ==
  ASSUME NEW S, NEW s \in Seq(S), NEW e \in S
  PROVE  Range(Append(s, e)) = Range(s) \cup {e}
<1>1. /\ DOMAIN s = 1..Len(s) /\ Len(s) \in Nat
      /\ DOMAIN Append(s, e) = 1..(Len(s) + 1)
      /\ \A i \in 1..Len(s) : Append(s, e)[i] = s[i]
      /\ Append(s, e)[Len(s) + 1] = e
  OBVIOUS
<1>2. \A i \in 1..(Len(s) + 1) : i \in 1..Len(s) \/ i = Len(s) + 1
  BY <1>1
<1>3. 1..Len(s) \subseteq 1..(Len(s) + 1) /\ Len(s) + 1 \in 1..(Len(s) + 1)
  BY <1>1
<1> QED
  BY <1>1, <1>2, <1>3 DEF Range

(* Only finitely many engines have looked for credentials.                  *)
LEMMA DiscoverersFinite ==
  ASSUME roster \in Seq(Engines)
  PROVE  IsFiniteSet(Discoverers) /\ Cardinality(Discoverers) \in Nat
<1>1. IsFiniteSet(Engines)
  <2>1. Engines = (({} \cup {"deberta-v3-xsmall-zeroshot"}) \cup {"gemini-embedding-001"})
                    \cup {"gemini-embedding-2"} \cup {"text-embedding-005"}
    BY DEF Engines
  <2> QED
    BY <2>1, FS_EmptySet, FS_AddElement
<1>2. Discoverers \subseteq Engines
  BY DEF Discoverers, Hired, Range
<1> QED
  BY <1>1, <1>2, FS_Subset, FS_CardinalityType

(* Every engine built, every discovery and every instrument is accounted    *)
(* for, after every step.                                                   *)
LEMMA ServeStep ==
  ASSUME CommonInv, BuildInv, ServeInv, [Next]_vars
  PROVE  ServeInv'
<1>0. /\ UNCHANGED scenario /\ Selected(doc)' = Selected(doc) /\ Active(doc)' = Active(doc)
      /\ Resolved1' = Resolved1 /\ Instruments' = Instruments
      /\ roster \in Seq(Engines) /\ Selected(doc) \in Seq(Engines)
  <2>1. UNCHANGED scenario
    BY DEF Next, vars, scenario, ResolvePath, FormatForPath, Read, Parse, ExpandEnv, Deserialize,
           Validate, ResolveKeyring, InitTelemetry, CheckEngines, Deploy, BuildLocal, BuildRemote,
           Assemble, NewState, Bind
  <2> QED
    BY <2>1, SelectedEngines
       DEF CommonInv, Shape, Selected, Active, scenario, Resolved1, Decoded1, Instruments
<1>1. ASSUME phase' \notin {"build", "state", "bind", "serving"}
      PROVE  ServeInv'
  BY <1>1 DEF ServeInv
<1>2. UNCHANGED roster => Hired' = Hired /\ Discoverers' = Discoverers
  BY <1>0 DEF Hired, Discoverers
<1>3. CASE \/ ResolvePath \/ FormatForPath \/ Read \/ Parse \/ ExpandEnv \/ Deserialize
           \/ Validate \/ ResolveKeyring \/ InitTelemetry \/ Deploy
  <2>1. phase' \notin {"build", "state", "bind", "serving"}
    BY <1>3 DEF ResolvePath, FormatForPath, Read, Parse, ExpandEnv, Deserialize, Validate,
                ResolveKeyring, InitTelemetry, Deploy, Step, Pass, Refuse, End
  <2> QED
    BY <1>1, <2>1
<1>4. CASE CheckEngines
  <2>1. CASE phase' = "ended"
    BY <1>1, <2>1
  <2>2. CASE phase' # "ended"
    <3>1. /\ command = "serve" /\ phase = "engines" /\ phase' = "build"
          /\ UNCHANGED <<roster, effects>>
      BY <1>4, <2>2 DEF CheckEngines, Refuse, Pass, End, built
    <3>2. Reached("serve") = "engines"
      BY <3>1 DEF CommonInv, Turns, Reached
    <3>3. Rank("engines") = 10
      BY DEF Rank
    <3>4. effects["serve"].adc = 0 /\ effects["serve"].remote = {} /\ roster = <<>>
      BY <3>2, <3>3 DEF CommonInv, Quiet, Untouched
    <3>5. Hired = {} /\ Discoverers = {}
      BY <3>4 DEF Hired, Discoverers, Range
    <3>6. Cardinality(Discoverers) = 0
      BY <3>5, FS_EmptySet
    <3>7. Hired' = {} /\ Discoverers' = {} /\ Cardinality(Discoverers') = 0
      BY <1>2, <3>1, <3>5, <3>6
    <3>8. effects'["serve"].adc = Cardinality(Discoverers') + 0 /\ effects'["serve"].remote = Hired'
      BY <3>1, <3>4, <3>7
    <3> QED
      BY <3>1, <3>7, <3>8 DEF ServeInv
  <2> QED
    BY <2>1, <2>2
<1>5. CASE BuildLocal
  <2>1. CASE phase' = "ended"
    BY <1>1, <2>1
  <2>2. CASE phase' # "ended"
    <3>1. /\ roster' = Append(roster, Local) /\ phase = "build" /\ UNCHANGED <<phase, effects, world>>
      BY <1>5, <2>2 DEF BuildLocal, Building, End, scenario
    <3>2. Range(roster') = Range(roster) \cup {Local}
      <4>1. Local \in Engines
        BY DEF Local, Engines
      <4> QED
        BY <1>0, <3>1, <4>1, AppendRange
    <3>3. Hired' = Hired
      BY <3>2 DEF Hired
    <3>4. Discoverers' = Discoverers
      BY <1>0, <3>3 DEF Discoverers
    <3> QED
      BY <3>1, <3>3, <3>4 DEF ServeInv
  <2> QED
    BY <2>1, <2>2
<1>6. CASE BuildRemote
  <2>1. CASE phase' = "ended"
    BY <1>1, <2>1
  <2>2. CASE phase' # "ended"
    <3> DEFINE e == Current
               n == IF NeedsAdc(e, Resolved1.tables[e]) THEN 1 ELSE 0
    <3>1. /\ phase = "build" /\ phase' = "build" /\ command = "serve" /\ cfg = Resolved1
          /\ Len(roster) < Len(Selected(doc)) /\ e # Local
      BY <1>6, <2>2
         DEF BuildRemote, Building, End, CommonInv, Shape, Turns, CfgStage
    <3>2. /\ "built" \in Outcomes(e) /\ roster' = Append(roster, e)
          /\ effects' = [effects EXCEPT !["serve"].adc = @ + n, !["serve"].remote = @ \cup {e}]
      <4>1. PICK outcome \in Outcomes(e) :
              /\ \/ outcome = "built" /\ roster' = Append(roster, e)
                 \/ outcome # "built" /\ End(outcome)
              /\ effects' = [effects EXCEPT
                   ![command].adc    = @ + (IF NeedsAdc(e, cfg.tables[e]) THEN 1 ELSE 0),
                   ![command].remote = @ \cup (IF outcome \in {"anchors", "built"} THEN {e} ELSE {})]
        BY <1>6 DEF BuildRemote
      <4>2. outcome = "built"
        BY <2>2, <4>1 DEF End
      <4> QED
        BY <3>1, <4>1, <4>2
    <3>3. NeedsAdc(e, Resolved1.tables[e]) => world.adc
      BY <3>1, <3>2 DEF Outcomes
    <3>4. /\ Len(roster) + 1 \in 1..Len(Selected(doc)) /\ e = Selected(doc)[Len(roster) + 1]
          /\ e \in Engines
      <4>1. Len(roster) + 1 \in 1..Len(Selected(doc)) /\ e = Selected(doc)[Len(roster) + 1]
        BY <1>0, <3>1 DEF Current
      <4> QED
        BY <1>0, <4>1
    <3>5. e \notin Range(roster)
      <4>1. Holds("validate")
        BY <3>1 DEF CommonInv, Stage, Passed, Rank
      <4>2. Distinct(Selected(doc))
        BY <4>1 DEF Holds, Valid
      <4>3. \A i \in 1..Len(roster) : roster[i] = Selected(doc)[i] /\ i \in DOMAIN Selected(doc)
                                      /\ i # Len(roster) + 1
        BY <1>0, <3>4 DEF BuildInv, Built
      <4>4. DOMAIN roster = 1..Len(roster) /\ Len(roster) + 1 \in DOMAIN Selected(doc)
        BY <1>0, <3>4
      <4> QED
        BY <3>4, <4>2, <4>3, <4>4 DEF Distinct, Range
    <3> HIDE DEF e
    <3>6. Hired' = Hired \cup {e}
      <4>1. Range(roster') = Range(roster) \cup {e}
        BY <1>0, <3>2, <3>4, AppendRange
      <4> QED
        BY <3>1, <4>1 DEF Hired
    <3>7. Discoverers' = IF n = 1 THEN Discoverers \cup {e} ELSE Discoverers
      BY <1>0, <3>6 DEF Discoverers
    <3>8. e \notin Discoverers
      BY <3>5 DEF Discoverers, Hired
    <3>9. Cardinality(Discoverers') = Cardinality(Discoverers) + n
      <4>1. IsFiniteSet(Discoverers) /\ Cardinality(Discoverers) \in Nat
        BY <1>0, DiscoverersFinite
      <4>2. CASE n = 1
        <5>1. Discoverers' = Discoverers \cup {e}
          BY <3>7, <4>2
        <5>2. Cardinality(Discoverers \cup {e}) = Cardinality(Discoverers) + 1
          BY <3>8, <4>1, FS_AddElement
        <5> QED
          BY <4>2, <5>1, <5>2
      <4>3. CASE n = 0
        <5>1. Discoverers' = Discoverers
          BY <3>7, <4>3
        <5> QED
          BY <4>1, <4>3, <5>1
      <4> QED
        BY <4>2, <4>3
    <3>10. /\ effects'["serve"].remote = Hired'
           /\ effects'["serve"].adc = Cardinality(Discoverers')
      <4>1. /\ effects["serve"].remote = Hired
            /\ effects["serve"].adc = Cardinality(Discoverers) + 0
        BY <3>1 DEF ServeInv
      <4>2. /\ effects'["serve"].adc = effects["serve"].adc + n
            /\ effects'["serve"].remote = effects["serve"].remote \cup {e}
        <5>1. /\ effects = [c \in Commands |-> effects[c]]
              /\ effects["serve"] = [keyring |-> effects["serve"].keyring,
                                     adc |-> effects["serve"].adc,
                                     remote |-> effects["serve"].remote]
          BY DEF CommonInv, Shape
        <5> HIDE DEF n
        <5> QED
          BY <3>2, <5>1
      <4> QED
        BY <1>0, <3>6, <3>9, <4>1, <4>2, DiscoverersFinite
    <3>11. Discoverers' # {} => world'.adc
      BY <1>0, <3>1, <3>3, <3>7 DEF ServeInv, scenario
    <3>12. Cardinality(Discoverers') + 0 = Cardinality(Discoverers')
      BY <1>0, <3>9, DiscoverersFinite
    <3> QED
      BY <3>1, <3>10, <3>11, <3>12 DEF ServeInv
  <2> QED
    BY <2>1, <2>2
<1>7. CASE Assemble
  <2>1. CASE phase' = "ended"
    BY <1>1, <2>1
  <2>2. CASE phase' # "ended"
    <3>1. /\ phase = "build" /\ phase' = "state" /\ ~Building /\ UNCHANGED <<roster, effects, world>>
          /\ ladder' \in ByBudget([i \in DOMAIN roster |-> Budgets[roster[i]]])
          /\ Accepted(ladder')
      BY <1>0, <1>7, <2>2 DEF Assemble, Pass, End, scenario
    <3>2. Len(roster) = Len(Selected(doc))
      BY <1>0, <3>1 DEF Building, BuildInv, Built
    <3> QED
      BY <1>0, <1>2, <3>1, <3>2 DEF ServeInv
  <2> QED
    BY <2>1, <2>2
<1>8. CASE NewState
  <2>1. CASE phase' = "ended"
    BY <1>1, <2>1
  <2>2. CASE phase' # "ended"
    <3>1. /\ phase = "state" /\ phase' = "bind" /\ command = "serve" /\ cfg = Resolved1
          /\ UNCHANGED <<roster, ladder, world>>
      BY <1>0, <1>8, <2>2
         DEF NewState, End, Pass, built, scenario, CommonInv, Shape, Turns, CfgStage
    <3>2. /\ effects' = [effects EXCEPT !["serve"].adc = @ + Discoveries(Resolved1.auth)]
          /\ metrics' = Instruments
          /\ \A i \in DOMAIN Resolved1.auth : Resolved1.auth[i].kind = "google-adc" => world.adc
      BY <1>8, <2>2, <3>1 DEF NewState, End, Instruments
    <3>3. /\ effects'["serve"].adc = effects["serve"].adc + Discoveries(Resolved1.auth)
          /\ effects'["serve"].remote = effects["serve"].remote
      <4>1. /\ effects = [c \in Commands |-> effects[c]]
            /\ effects["serve"] = [keyring |-> effects["serve"].keyring,
                                   adc |-> effects["serve"].adc,
                                   remote |-> effects["serve"].remote]
        BY DEF CommonInv, Shape
      <4> QED
        BY <3>2, <4>1
    <3>4. effects["serve"].adc = Cardinality(Discoverers)
      BY <1>0, <3>1, DiscoverersFinite DEF ServeInv
    <3> QED
      BY <1>0, <1>2, <3>1, <3>2, <3>3, <3>4 DEF ServeInv, Discoveries
  <2> QED
    BY <2>1, <2>2
<1>9. CASE Bind
  <2>1. CASE phase' = "ended"
    BY <1>1, <2>1
  <2>2. CASE phase' # "ended"
    <3>1. /\ phase = "bind" /\ phase' = "serving"
          /\ UNCHANGED <<roster, ladder, effects, metrics, world>>
      BY <1>0, <1>9, <2>2 DEF Bind, Refuse, End, built, scenario
    <3> QED
      BY <1>0, <1>2, <3>1 DEF ServeInv, Discoveries
  <2> QED
    BY <2>1, <2>2
<1>10. CASE UNCHANGED vars
  BY <1>0, <1>2, <1>10 DEF vars, ServeInv, Discoveries, scenario
<1> QED
  BY <1>3, <1>4, <1>5, <1>6, <1>7, <1>8, <1>9, <1>10 DEF Next

(* What the tables of a running server hold. *)
LEMMA TablesUsable ==
  ASSUME CommonInv, ServeInv, phase = "serving", NEW e \in Active(doc), e \in Hired
  PROVE  LET table == cfg.tables[e]
         IN \/ table.api_key.kind = "static" /\ Blank(table.project)
            \/ /\ table.api_key.kind = "none" /\ ProjectAndLocation(table)
               /\ \/ table.access_token.kind = "static"
                  \/ table.access_token.kind = "none" /\ world.adc
<1> DEFINE t == Resolved1.tables[e]
           u == Decoded1.tables[e]
           w == doc.tables[e]
<1>1. /\ cfg = Resolved1 /\ e \in Remotes /\ doc \in Document
      /\ TableValid(e, t) /\ TableDecodes(e, w, world.env)
  <2>1. cfg = Resolved1 /\ Passed("serving")
    BY DEF CommonInv, CfgStage, Stage
  <2>2. Holds("engines") /\ Holds("schema")
    BY <2>1 DEF Passed, Rank
  <2>3. e \in Remotes /\ doc \in Document
    BY SelectedEngines DEF CommonInv
  <2> QED
    BY <2>1, <2>2, <2>3 DEF Holds, EnginesValid, Decodable
<1>2. w.api_key \in Key /\ w.access_token \in Key
  <2>1. w \in Table
    BY <1>1 DEF Document
  <2> QED
    BY <2>1 DEF Table
<1>3. /\ u.api_key = DecodeKey(w.api_key, world.env)
      /\ u.access_token = DecodeKey(w.access_token, world.env)
      /\ u = [api_key |-> u.api_key, access_token |-> u.access_token, project |-> u.project,
              location |-> u.location, quota_project |-> u.quota_project]
  BY <1>1 DEF Decoded1, Decode
<1>4. /\ t.api_key = Resolved(u.api_key, world.keyring)
      /\ t.access_token = Resolved(u.access_token, world.keyring)
  <2> HIDE DEF u
  <2>1. t = [u EXCEPT !.api_key      = Resolved(u.api_key, world.keyring),
                      !.access_token = Resolved(u.access_token, world.keyring)]
    BY <1>1 DEF Resolved1, ResolveSecrets, u
  <2> QED
    BY <1>3, <2>1
<1> HIDE DEF t, u, w
<1>5. ASSUME NEW k \in Key, k.source \notin {"malformed", "google-adc"}
      PROVE  /\ Resolved(DecodeKey(k, world.env), world.keyring).kind \in {"none", "static"}
             /\ k.source = "omitted" =>
                  Resolved(DecodeKey(k, world.env), world.keyring).kind = "none"
  <2>1. k.source \in {"omitted", "string", "keyring"}
    BY <1>5 DEF Key
  <2> QED
    BY <2>1 DEF DecodeKey, Resolved, Refers, NoSecret, StaticSecret
<1>6. /\ t.api_key.kind \in {"none", "static"} /\ t.access_token.kind \in {"none", "static"}
      /\ e = "text-embedding-005" => t.api_key.kind = "none"
  BY <1>1, <1>2, <1>3, <1>4, <1>5 DEF TableDecodes
<1>7. NeedsAdc(e, t) => world.adc
  BY DEF ServeInv, Discoverers, t
<1> QED
  BY <1>1, <1>6, <1>7 DEF TableValid, Surface, NeedsAdc, ProjectAndLocation, t

(* A server whose account is complete has all that ServesWhole asks for.    *)
LEMMA ServesWholeHolds == CommonInv /\ BuildInv /\ ServeInv => ServesWhole
<1> SUFFICES ASSUME CommonInv, BuildInv, ServeInv, phase = "serving"
             PROVE  ServesWhole
  BY DEF ServesWhole
<1> DEFINE n == Len(roster)
           all == Active(doc) \cup (Range(Selected(doc)) \cap {Local})
<1>1. /\ cfg = Resolved1 /\ roster \in Seq(Engines) /\ Selected(doc) \in Seq(Engines)
      /\ n = Len(Selected(doc)) /\ n \in Nat /\ DOMAIN roster = 1..n
      /\ \A i \in 1..n : roster[i] = Selected(doc)[i]
      /\ Range(roster) = Range(Selected(doc)) /\ Hired = Active(doc)
  <2>1. cfg = Resolved1 /\ roster \in Seq(Engines) /\ Selected(doc) \in Seq(Engines)
    BY SelectedEngines DEF CommonInv, Shape, CfgStage
  <2>2. n = Len(Selected(doc)) /\ \A i \in 1..n : roster[i] = Selected(doc)[i]
    BY DEF ServeInv, BuildInv, Built
  <2>3. Range(roster) = Range(Selected(doc))
    <3>1. DOMAIN roster = 1..n /\ DOMAIN Selected(doc) = 1..n
      BY <2>1, <2>2
    <3> QED
      BY <2>2, <3>1 DEF Range
  <2> QED
    BY <2>1, <2>2, <2>3 DEF Hired, Active
<1> HIDE DEF n
<1>2. PICK p \in Bijection(1..n, 1..n) :
        /\ ladder = [i \in 1..n |-> Budgets[roster[p[i]]]]
        /\ \A i, j \in 1..n : i < j => ladder[i].context <= ladder[j].context
  <2>1. ladder \in ByBudget([i \in DOMAIN roster |-> Budgets[roster[i]]])
    BY DEF ServeInv
  <2> QED
    BY <1>1, <2>1, SortedRoster DEF n
<1>3. /\ p \in [1..n -> 1..n] /\ \A i \in 1..n : \E j \in 1..n : p[j] = i
  BY <1>2 DEF Bijection, Injection, Surjection
<1>4. Len(ladder) = n /\ DOMAIN ladder = 1..n
  BY <1>1, <1>2
<1>5. \A i \in 1..(Len(ladder) - 1) : ladder[i].context < ladder[i + 1].context
  <2> SUFFICES ASSUME NEW i \in 1..(n - 1)
               PROVE  ladder[i].context < ladder[i + 1].context
    BY <1>4
  <2>1. i \in 1..n /\ i + 1 \in 1..n /\ i < i + 1
    BY <1>1
  <2>2. ladder[i].context <= ladder[i + 1].context
    BY <1>2, <2>1
  <2>3. ladder[i].context # ladder[i + 1].context
    BY <1>4 DEF ServeInv, Accepted
  <2>4. \A j \in 1..n : ladder[j].context \in Nat
    <3>1. \A j \in 1..n : roster[p[j]] \in Engines
      <4>1. \A l \in DOMAIN roster : roster[l] \in Engines
        BY <1>1
      <4> QED
        BY <1>1, <1>3, <4>1
    <3>2. \A e \in Engines : Budgets[e].context \in Nat
      BY DEF Budgets, Engines, Local
    <3> QED
      BY <1>2, <3>1, <3>2
  <2> QED
    BY <2>1, <2>2, <2>3, <2>4
<1>6. Range(ladder) = {Budgets[e] : e \in all}
  <2>1. all = Range(roster)
    BY <1>1 DEF Active
  <2>2. \A j \in 1..n : Budgets[roster[j]] \in Range(ladder)
    BY <1>2, <1>3, <1>4 DEF Range
  <2>3. \A x \in Range(ladder) : \E j \in 1..n : x = Budgets[roster[j]]
    BY <1>2, <1>3, <1>4 DEF Range
  <2>4. \A e : e \in all <=> \E j \in 1..n : e = roster[j]
    BY <1>1, <2>1 DEF Range
  <2> HIDE DEF all
  <2>5. Range(ladder) \subseteq {Budgets[e] : e \in all}
    BY <2>3, <2>4
  <2>6. {Budgets[e] : e \in all} \subseteq Range(ladder)
    BY <2>2, <2>4
  <2> QED
    BY <2>5, <2>6
<1>7. \A e \in Active(doc) :
        LET table == cfg.tables[e]
        IN \/ table.api_key.kind = "static" /\ Blank(table.project)
           \/ /\ table.api_key.kind = "none" /\ ProjectAndLocation(table)
              /\ table.access_token.kind = "static" \/ (table.access_token.kind = "none" /\ world.adc)
  BY <1>1, TablesUsable
<1>8. /\ effects["serve"].remote = Active(doc)
      /\ effects["serve"].adc =
           Cardinality({e \in Active(doc) : NeedsAdc(e, cfg.tables[e])}) + Discoveries(cfg.auth)
      /\ metrics = Instruments
  BY <1>1 DEF ServeInv, Discoverers
<1>9. \A i \in DOMAIN cfg.auth : /\ ~Refers(cfg.auth[i])
                                 /\ cfg.auth[i].kind = "google-adc" => world.adc
  BY <1>1, NothingRefers DEF ServeInv, CommonInv
<1> QED
  BY <1>1, <1>4, <1>5, <1>6, <1>7, <1>8, <1>9 DEF ServesWhole, Discoveries, Instruments

(* A server that listens has every engine, credential and instrument that   *)
(* its configuration asks for, and no more.                                 *)
THEOREM ServesAlwaysWhole == Spec => []ServesWhole
<1>1. Init => ServeInv
  BY DEF Init, ServeInv
<1>2. CommonInv /\ BuildInv /\ ServeInv /\ [Next]_vars => ServeInv'
  BY ServeStep
<1> QED
  BY <1>1, <1>2, CommonAlways, BuildAlways, ServesWholeHolds, PTL DEF Spec

(***************************************************************************)
(* Types.                                                                  *)
(***************************************************************************)

(* What is decoded of a document is a configuration.                        *)
LEMMA DecodeTyped ==
  ASSUME Shape
  PROVE  Decoded1 \in Configuration
<1>1. doc \in Document /\ world.env \in [Variables -> Contents \cup {"unset"}]
  BY SelectedEngines DEF World
<1>2. ASSUME NEW t \in Text
      PROVE  Expand(t, world.env) \in Decoded
  <2>1. CASE t.form = "literal"
    <3>1. t.content \in Contents
      BY <2>1 DEF Text
    <3> QED
      BY <2>1, <3>1 DEF Expand, Decoded
  <2>2. CASE t.form = "reference"
    <3>1. t.var \in Variables /\ t.default \in Contents \cup {"none"}
      BY <2>2 DEF Text
    <3>2. world.env[t.var] \in Contents \cup {"unset"}
      BY <1>1, <3>1
    <3> QED
      BY <2>2, <3>1, <3>2 DEF Expand, Decoded, Contents
  <2>3. CASE t.form \in {"omitted", "escaped"}
    BY <2>3 DEF Expand, Decoded, Contents
  <2>4. t.form \in {"omitted", "escaped", "literal", "reference"}
    BY DEF Text
  <2> QED
    BY <2>1, <2>2, <2>3, <2>4
<1>3. ASSUME NEW k \in Key
      PROVE  DecodeKey(k, world.env) \in Secret
  <2>1. k.source \in {"omitted", "google-adc", "malformed", "string", "keyring"}
    BY DEF Key
  <2>2. k.source = "keyring" => k.entry \in Entries
    BY DEF Key
  <2> QED
    BY <2>1, <2>2 DEF DecodeKey, Secret, NoSecret, StaticSecret
<1>4. Decoded1.auth \in Seq(Secret)
  <2>1. doc.models \in Seq(RoutedModel)
    BY <1>1 DEF Document
  <2>2. Decoded1.auth = [i \in 1..Len(doc.models) |-> DecodeKey(doc.models[i].api_key, world.env)]
    BY <2>1 DEF Decoded1, Decode
  <2>3. \A i \in 1..Len(doc.models) : doc.models[i].api_key \in Key
    <3>1. \A i \in 1..Len(doc.models) : doc.models[i] \in RoutedModel
      BY <2>1
    <3> QED
      BY <3>1 DEF RoutedModel
  <2>4. Decoded1.auth \in [1..Len(doc.models) -> Secret] /\ Len(doc.models) \in Nat
    BY <1>3, <2>1, <2>2, <2>3
  <2> QED
    BY <2>4
<1>5. Decoded1.tables \in [Remotes -> DecodedTable]
  <2> SUFFICES ASSUME NEW e \in Remotes
               PROVE  [api_key       |-> DecodeKey(doc.tables[e].api_key, world.env),
                       access_token  |-> DecodeKey(doc.tables[e].access_token, world.env),
                       project       |-> Expand(doc.tables[e].project, world.env),
                       location      |-> Expand(doc.tables[e].location, world.env),
                       quota_project |-> Expand(doc.tables[e].quota_project, world.env)]
                        \in DecodedTable
    BY DEF Decoded1, Decode
  <2>1. doc.tables[e] \in Table
    BY <1>1 DEF Document
  <2> QED
    BY <1>2, <1>3, <2>1 DEF Table, DecodedTable
<1>6. Decoded1 = [auth |-> Decoded1.auth, tables |-> Decoded1.tables]
  BY DEF Decoded1, Decode
<1> QED
  BY <1>4, <1>5, <1>6 DEF Configuration

(* So is what the keyring makes of it.                                      *)
LEMMA ResolveTyped ==
  ASSUME Shape
  PROVE  Resolved1 \in Configuration
<1>1. ASSUME NEW s \in Secret
      PROVE  Resolved(s, world.keyring) \in Secret
  BY DEF Resolved, Secret, NoSecret, StaticSecret
<1>2. Decoded1.auth \in Seq(Secret) /\ Decoded1.tables \in [Remotes -> DecodedTable]
  BY DecodeTyped DEF Configuration
<1> DEFINE d == Decoded1
<1>3. /\ Resolved1.auth = [i \in DOMAIN d.auth |-> Resolved(d.auth[i], world.keyring)]
      /\ Resolved1.tables =
           [e \in Remotes |->
              IF e \notin Active(doc) THEN d.tables[e]
              ELSE [d.tables[e] EXCEPT !.api_key      = Resolved(@, world.keyring),
                                       !.access_token = Resolved(@, world.keyring)]]
      /\ Resolved1 = [auth |-> Resolved1.auth, tables |-> Resolved1.tables]
  BY DEF Resolved1, ResolveSecrets
<1> HIDE DEF d
<1>4. Resolved1.auth \in Seq(Secret)
  <2>1. \A i \in 1..Len(d.auth) : d.auth[i] \in Secret
    BY <1>2 DEF d
  <2>2. DOMAIN d.auth = 1..Len(d.auth) /\ Len(d.auth) \in Nat
    BY <1>2 DEF d
  <2>3. Resolved1.auth \in [1..Len(d.auth) -> Secret]
    BY <1>1, <1>3, <2>1, <2>2
  <2> QED
    BY <2>2, <2>3
<1>5. Resolved1.tables \in [Remotes -> DecodedTable]
  <2>1. ASSUME NEW t \in DecodedTable, NEW a \in Secret, NEW b \in Secret
        PROVE  [t EXCEPT !.api_key = a, !.access_token = b] \in DecodedTable
    BY DEF DecodedTable
  <2>2. \A e \in Remotes : d.tables[e] \in DecodedTable
    BY <1>2 DEF d
  <2>3. \A e \in Remotes : d.tables[e].api_key \in Secret /\ d.tables[e].access_token \in Secret
    BY <2>2 DEF DecodedTable
  <2>4. \A e \in Remotes : Resolved1.tables[e] \in DecodedTable
    <3> SUFFICES ASSUME NEW e \in Remotes
                 PROVE  Resolved1.tables[e] \in DecodedTable
      OBVIOUS
    <3>1. CASE e \notin Active(doc)
      BY <1>3, <2>2, <3>1
    <3>2. CASE e \in Active(doc)
      <4>1. Resolved1.tables[e] =
              [d.tables[e] EXCEPT !.api_key = Resolved(d.tables[e].api_key, world.keyring),
                                  !.access_token = Resolved(d.tables[e].access_token, world.keyring)]
        <5>1. \A t \in DecodedTable :
                [t EXCEPT !.api_key      = Resolved(@, world.keyring),
                          !.access_token = Resolved(@, world.keyring)] =
                [t EXCEPT !.api_key      = Resolved(t.api_key, world.keyring),
                          !.access_token = Resolved(t.access_token, world.keyring)]
          BY DEF DecodedTable
        <5> QED
          BY <1>3, <2>2, <3>2, <5>1
      <4> DEFINE a == Resolved(d.tables[e].api_key, world.keyring)
                 b == Resolved(d.tables[e].access_token, world.keyring)
                 t == d.tables[e]
      <4>2. a \in Secret /\ b \in Secret /\ t \in DecodedTable
        BY <1>1, <2>2, <2>3
      <4>3. Resolved1.tables[e] = [t EXCEPT !.api_key = a, !.access_token = b]
        BY <4>1
      <4> HIDE DEF a, b, t
      <4>4. [t EXCEPT !.api_key = a, !.access_token = b] \in DecodedTable
        BY <2>1, <4>2
      <4> QED
        BY <4>3, <4>4
    <3> QED
      BY <3>1, <3>2
  <2> QED
    BY <1>3, <2>4
<1> QED
  BY <1>3, <1>4, <1>5 DEF Configuration

(* What the ordering of a roster returns. *)
LEMMA LadderTyped ==
  ASSUME roster \in Seq(Engines),
         NEW rungs \in ByBudget([i \in DOMAIN roster |-> Budgets[roster[i]]])
  PROVE  rungs \in Seq(Rung)
<1>1. PICK p \in Bijection(1..Len(roster), 1..Len(roster)) :
        rungs = [i \in 1..Len(roster) |-> Budgets[roster[p[i]]]]
  BY SortedRoster
<1>2. p \in [1..Len(roster) -> 1..Len(roster)] /\ Len(roster) \in Nat
  BY <1>1 DEF Bijection, Injection
<1>3. \A e \in Engines : Budgets[e] \in Rung
  BY DEF Budgets, Engines, Local, Rung
<1>4. \A i \in 1..Len(roster) : roster[i] \in Engines
  OBVIOUS
<1>5. rungs \in [1..Len(roster) -> Rung]
  BY <1>1, <1>2, <1>3, <1>4
<1> QED
  BY <1>2, <1>5, SeqDef

Pool == [size : Nat, intra : Nat, warned : SUBSET {"cpu", "memory"}]

(* What the other parts of the invariant do not say of the variables.       *)
TypeInv ==
  /\ cfg \in {NoConfig, Decoded1, Resolved1}
  /\ ladder \in Seq(Rung)
  /\ pool \in Pool
  /\ metrics \in {"unbound", "noop", "real"}
  /\ \A c \in Commands : effects[c].adc \in Nat /\ effects[c].remote \subseteq Remotes

(* Every step keeps the variables the other invariants do not speak of in   *)
(* their range.                                                             *)
LEMMA TypeStep ==
  ASSUME CommonInv, TypeInv, [Next]_vars
  PROVE  TypeInv'
<1>0. /\ UNCHANGED scenario /\ Decoded1' = Decoded1 /\ Resolved1' = Resolved1
      /\ roster \in Seq(Engines) /\ command \in Commands
      /\ effects = [c \in Commands |-> effects[c]]
      /\ \A c \in Commands : effects[c] = [keyring |-> effects[c].keyring, adc |-> effects[c].adc,
                                           remote |-> effects[c].remote]
  <2>1. UNCHANGED scenario
    BY DEF Next, vars, scenario, ResolvePath, FormatForPath, Read, Parse, ExpandEnv, Deserialize,
           Validate, ResolveKeyring, InitTelemetry, CheckEngines, Deploy, BuildLocal, BuildRemote,
           Assemble, NewState, Bind
  <2> QED
    BY <2>1 DEF CommonInv, Shape, scenario, Decoded1, Resolved1
<1>1. ASSUME UNCHANGED <<ladder, pool, metrics>>,
             cfg' \in {cfg, NoConfig, Decoded1, Resolved1},
             \A c \in Commands : /\ effects'[c].adc = effects[c].adc
                                 /\ effects'[c].remote = effects[c].remote
      PROVE  TypeInv'
  BY <1>0, <1>1 DEF TypeInv
<1>2. CASE \/ ResolvePath \/ FormatForPath \/ Read \/ Parse \/ ExpandEnv \/ Validate
           \/ InitTelemetry \/ CheckEngines \/ Bind \/ UNCHANGED vars
  <2>1. UNCHANGED <<ladder, pool, metrics, cfg, effects>>
    BY <1>2 DEF ResolvePath, FormatForPath, Read, Parse, ExpandEnv, Validate, InitTelemetry,
                CheckEngines, Bind, vars, built
  <2> QED
    BY <1>1, <2>1
<1>3. CASE Deserialize \/ Deploy
  <2>1. UNCHANGED <<ladder, pool, metrics, effects>> /\ cfg' \in {cfg, NoConfig, Decoded1}
    BY <1>3 DEF Deserialize, Deploy, built, Decoded1
  <2> QED
    BY <1>1, <2>1
<1>4. CASE ResolveKeyring
  <2>1. UNCHANGED <<ladder, pool, metrics>> /\ cfg = Decoded1
    BY <1>4 DEF ResolveKeyring, built, Step, CommonInv, CfgStage
  <2>2. cfg' \in {cfg, Resolved1}
    BY <1>4, <2>1 DEF ResolveKeyring, Resolved1
  <2>3. \E l : effects' = [effects EXCEPT ![command].keyring = l]
    BY <1>4 DEF ResolveKeyring
  <2>4. \A c \in Commands : /\ effects'[c].adc = effects[c].adc
                            /\ effects'[c].remote = effects[c].remote
    BY <1>0, <2>3
  <2> QED
    BY <1>1, <2>1, <2>2, <2>4
<1>5. CASE BuildLocal
  <2> DEFINE budget == DetectMemoryBudget(world.cgroup, world.total)
             plan   == PlanInference(world.cores, budget)
             size   == OrElse(doc.inference_pool_size, plan.pool)
             intra  == OrElse(doc.intra_op_threads, plan.intra)
             warned == OvercommitWarnings(size, intra, world.cores, budget)
  <2>1. /\ UNCHANGED <<cfg, ladder, metrics, effects>>
        /\ pool' = [size |-> AtLeastOne(size), intra |-> intra, warned |-> warned] \/ pool' = pool
    BY <1>5 DEF BuildLocal
  <2>2. /\ doc.inference_pool_size \in Nat \cup {-1} /\ doc.intra_op_threads \in Nat \cup {-1}
        /\ plan.pool \in Nat /\ plan.intra \in Nat
    <3>1. /\ doc.inference_pool_size \in Nat \cup {-1} /\ doc.intra_op_threads \in Nat \cup {-1}
          /\ world.cores \in Nat /\ budget \in Nat
      BY SelectedEngines DEF CommonInv, Document, World, DetectMemoryBudget
    <3>2. plan.pool \in Nat \ {0} /\ plan.intra \in {1, 2}
      BY <3>1, PlanStaysWithin
    <3> HIDE DEF plan, budget
    <3> QED
      BY <3>1, <3>2
  <2>3. warned \subseteq {"cpu", "memory"}
    BY DEF OvercommitWarnings
  <2> HIDE DEF plan, warned
  <2>4. size \in Nat /\ intra \in Nat
    BY <2>2 DEF OrElse
  <2>5. AtLeastOne(size) \in Nat
    BY <2>4 DEF AtLeastOne
  <2> HIDE DEF size, intra
  <2>6. pool' \in Pool
    <3>1. pool \in Pool
      BY DEF TypeInv
    <3>2. [size |-> AtLeastOne(size), intra |-> intra, warned |-> warned] \in Pool
      BY <2>3, <2>4, <2>5 DEF Pool
    <3> QED
      BY <2>1, <3>1, <3>2
  <2> QED
    BY <1>0, <2>1, <2>6 DEF TypeInv
<1>6. CASE BuildRemote
  <2>1. UNCHANGED <<cfg, ladder, pool, metrics>>
    BY <1>6 DEF BuildRemote
  <2>2. Current \in Remotes
    <3>1. Selected(doc) \in Seq(Engines) /\ Len(roster) < Len(Selected(doc)) /\ Current # Local
      BY <1>6, SelectedEngines DEF BuildRemote, Building, CommonInv
    <3>2. Len(roster) + 1 \in 1..Len(Selected(doc))
      BY <1>0, <3>1
    <3> QED
      BY <3>1, <3>2 DEF Current, Remotes
  <2>3. PICK n \in Nat, r \in SUBSET Remotes :
          effects' = [effects EXCEPT ![command].adc = @ + n, ![command].remote = @ \cup r]
    <3>1. PICK outcome \in Outcomes(Current) :
            effects' = [effects EXCEPT
              ![command].adc    = @ + (IF NeedsAdc(Current, cfg.tables[Current]) THEN 1 ELSE 0),
              ![command].remote = @ \cup (IF outcome \in {"anchors", "built"}
                                          THEN {Current} ELSE {})]
      BY <1>6 DEF BuildRemote
    <3>2. /\ (IF NeedsAdc(Current, cfg.tables[Current]) THEN 1 ELSE 0) \in Nat
          /\ (IF outcome \in {"anchors", "built"} THEN {Current} ELSE {}) \in SUBSET Remotes
      BY <2>2
    <3> QED
      BY <3>1, <3>2
  <2>4. \A c \in Commands : effects'[c].adc \in Nat /\ effects'[c].remote \subseteq Remotes
    <3>1. \A c \in Commands \ {command} : effects'[c] = effects[c]
      BY <1>0, <2>3
    <3>2. /\ effects'[command].adc = effects[command].adc + n
          /\ effects'[command].remote = effects[command].remote \cup r
      BY <1>0, <2>3
    <3> QED
      BY <3>1, <3>2 DEF TypeInv
  <2> QED
    BY <1>0, <2>1, <2>4 DEF TypeInv
<1>7. CASE Assemble
  <2>1. UNCHANGED <<cfg, pool, metrics, effects>>
    BY <1>7 DEF Assemble
  <2>2. ladder' \in Seq(Rung)
    BY <1>0, <1>7, LadderTyped DEF Assemble, TypeInv
  <2> QED
    BY <1>0, <2>1, <2>2 DEF TypeInv
<1>8. CASE NewState
  <2>1. UNCHANGED <<cfg, ladder, pool>> /\ metrics' \in {metrics, "real", "noop"}
    BY <1>8 DEF NewState, built
  <2>2. \/ effects' = effects
        \/ effects' = [effects EXCEPT ![command].adc = @ + Discoveries(cfg.auth)]
    BY <1>8 DEF NewState
  <2>3. Discoveries(cfg.auth) \in Nat
    BY DEF Discoveries
  <2>4. \A c \in Commands : effects'[c].adc \in Nat /\ effects'[c].remote \subseteq Remotes
    <3>1. CASE effects' = effects
      BY <3>1 DEF TypeInv
    <3>2. CASE effects' = [effects EXCEPT ![command].adc = @ + Discoveries(cfg.auth)]
      <4>1. \A c \in Commands \ {command} : effects'[c] = effects[c]
        BY <1>0, <3>2
      <4>2. /\ effects'[command].adc = effects[command].adc + Discoveries(cfg.auth)
            /\ effects'[command].remote = effects[command].remote
        BY <1>0, <3>2
      <4> QED
        BY <2>3, <4>1, <4>2 DEF TypeInv
    <3> QED
      BY <2>2, <3>1, <3>2
  <2> QED
    BY <1>0, <2>1, <2>4 DEF TypeInv
<1> QED
  BY <1>2, <1>3, <1>4, <1>5, <1>6, <1>7, <1>8 DEF Next

(* The entries of what runs are keyring entries.                            *)
LEMMA RunningEntriesTyped ==
  ASSUME Shape
  PROVE  RunningEntries \subseteq Entries
<1>1. doc \in Document /\ Active(doc) \subseteq Remotes
  BY SelectedEngines
<1>2. \A k \in Key : k.source = "keyring" => k.entry \in Entries
  BY DEF Key
<1>3. \A i \in DOMAIN doc.models : doc.models[i].api_key \in Key
  <2>1. doc.models \in Seq(RoutedModel)
    BY <1>1 DEF Document
  <2>2. \A i \in DOMAIN doc.models : doc.models[i] \in RoutedModel
    BY <2>1
  <2> QED
    BY <2>2 DEF RoutedModel
<1>4. \A e \in Active(doc) : doc.tables[e].api_key \in Key /\ doc.tables[e].access_token \in Key
  <2>1. \A e \in Active(doc) : doc.tables[e] \in Table
    BY <1>1 DEF Document
  <2> QED
    BY <2>1 DEF Table
<1> QED
  BY <1>2, <1>3, <1>4 DEF RunningEntries

(* The invariants together give every variable its range.                   *)
LEMMA TypesHold == CommonInv /\ BuildInv /\ PoolInv /\ TypeInv => TypeOK
<1> SUFFICES ASSUME CommonInv, BuildInv, PoolInv, TypeInv
             PROVE  TypeOK
  OBVIOUS
<1>1. cfg = NoConfig \/ cfg \in Configuration
  BY DecodeTyped, ResolveTyped DEF TypeInv, CommonInv
<1>2. Local \in Range(roster) => pool.size > 0
  <2> SUFFICES ASSUME Local \in Range(roster)
               PROVE  pool.size > 0
    OBVIOUS
  <2>1. PICK n \in Int : pool.size = AtLeastOne(n)
    <3> DEFINE budget == DetectMemoryBudget(world.cgroup, world.total)
               plan   == PlanInference(world.cores, budget)
               size   == OrElse(doc.inference_pool_size, plan.pool)
    <3>1. pool.size = AtLeastOne(size)
      BY DEF PoolInv
    <3>2. /\ doc.inference_pool_size \in Nat \cup {-1} /\ world.cores \in Nat /\ budget \in Nat
      BY SelectedEngines DEF CommonInv, Document, World, DetectMemoryBudget
    <3>3. plan.pool \in Nat
      BY <3>2, PlanStaysWithin
    <3> HIDE DEF plan
    <3>4. size \in Int
      BY <3>2, <3>3 DEF OrElse
    <3> QED
      BY <3>1, <3>4
  <2>2. pool.size \in Nat
    BY DEF TypeInv, Pool
  <2> QED
    BY <2>1, <2>2 DEF AtLeastOne
<1>3. effects \in [Commands -> [keyring : SUBSET Entries, adc : Nat, remote : SUBSET Remotes]]
  <2>1. \A c \in Commands : effects[c].keyring \subseteq Entries
    BY KeyringOnly, RunningEntriesTyped DEF KeyringOnlyForRunning, CommonInv
  <2>2. \A c \in Commands :
          effects[c] \in [keyring : SUBSET Entries, adc : Nat, remote : SUBSET Remotes]
    <3> SUFFICES ASSUME NEW c \in Commands
                 PROVE  effects[c] \in [keyring : SUBSET Entries, adc : Nat, remote : SUBSET Remotes]
      OBVIOUS
    <3>1. effects[c] = [keyring |-> effects[c].keyring, adc |-> effects[c].adc,
                        remote |-> effects[c].remote]
      BY DEF CommonInv, Shape
    <3> QED
      BY <2>1, <3>1 DEF TypeInv
  <2> QED
    BY <2>2 DEF CommonInv, Shape
<1>4. verdict \in [Commands -> {"pending", "ok"} \cup Offline \cup AtBoot]
  BY DEF CommonInv, Shape, BuildInv, Verdicts
<1> QED
  BY <1>1, <1>2, <1>3, <1>4 DEF TypeOK, CommonInv, Shape, Turns, TypeInv, Pool

(* Every variable stays in its range: no command ends for a reason that is  *)
(* not listed, and the embedded engine has a session.                       *)
THEOREM TypeCorrect == Spec => []TypeOK
<1>1. Init => PoolInv /\ TypeInv
  BY DEF Init, PoolInv, Range, TypeInv, Pool, NoPool, NoEffect
<1>2. CommonInv /\ PoolInv /\ [Next]_vars => PoolInv'
  BY PoolStep
<1>3. CommonInv /\ TypeInv /\ [Next]_vars => TypeInv'
  BY TypeStep
<1> QED
  BY <1>1, <1>2, <1>3, CommonAlways, BuildAlways, TypesHold, PTL DEF Spec
=============================================================================
