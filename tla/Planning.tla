------------------------------ MODULE Planning ------------------------------
(***************************************************************************)
(* Inference planning (planning.rs): how many sessions of the embedded     *)
(* engine the host can support, by cores and by memory, and what is said   *)
(* of an explicit configuration it cannot.  Memory is counted in one unit; *)
(* a budget of 0 is one that could not be read.                            *)
(***************************************************************************)
EXTENDS Integers

CONSTANTS
  SessionMemory,   \* what a session costs under load
  BaselineMemory   \* what the process costs without any

ASSUME PlanningAssumption ==
  /\ SessionMemory \in Nat \ {0}
  /\ BaselineMemory \in Nat

AtLeastOne(n) == IF n = 0 THEN 1 ELSE n

Lesser(a, b) == IF a <= b THEN a ELSE b

(* A tenth is left for buffers and for the roughness of the costs.          *)
UsableMemory(budget) == 9 * (budget \div 10)

(* `max_sessions_for_memory`, which saturates at 0.                         *)
MaxSessions(budget) ==
  IF UsableMemory(budget) < BaselineMemory THEN 0
  ELSE (UsableMemory(budget) - BaselineMemory) \div SessionMemory

(* Two threads a session where there are two cores.                         *)
IntraOpThreads(cores) == IF AtLeastOne(cores) >= 2 THEN 2 ELSE 1

CorePool(cores) == AtLeastOne(AtLeastOne(cores) \div IntraOpThreads(cores))

(* The slip of a plan by the cores alone. *)
PlanByCores(cores, budget) ==
  [pool |-> CorePool(cores), intra |-> IntraOpThreads(cores)]

PlanInference(cores, budget) ==
  [pool  |-> IF budget = 0 THEN CorePool(cores)
             ELSE AtLeastOne(Lesser(CorePool(cores), MaxSessions(budget))),
   intra |-> IntraOpThreads(cores)]

(* The limit of the control group, or else the memory of the host.          *)
DetectMemoryBudget(cgroup, total) == IF cgroup > 0 THEN cgroup ELSE total

(* What an overcommitted pool is warned of. *)
OvercommitWarnings(pool, intra, cores, budget) ==
  {w \in {"cpu", "memory"} :
     \/ w = "cpu" /\ pool * AtLeastOne(intra) > AtLeastOne(cores)
     \/ w = "memory" /\ budget # 0 /\ BaselineMemory + pool * SessionMemory > budget}
=============================================================================
