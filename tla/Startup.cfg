\* `validate` and then `serve` over families of documents and worlds.
SPECIFICATION Spec
CONSTANTS
  Variables = {"v1"}
  Entries = {"k1", "k2"}
  SessionMemory = 20
  BaselineMemory = 42
  Scenarios <- MCScenarios
INVARIANTS TypeOK ValidateForetells KeyringOnlyForRunning ServesWhole PoolFits
CHECK_DEADLOCK FALSE
