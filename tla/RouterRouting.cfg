\* One request, read from its body, through every routing decision of many catalogues.
SPECIFICATION RSpec
CONSTANTS
  Requests = {r1}
  Catalogues <- MCCatalogues
  Bodies <- MCBodies
  Inputs <- MCInputs
  TurnBudgets = {1, 2}
  U64 = 8
CONSTRAINT UpToRoute
INVARIANTS RefusedOnlyUncovered OverflowOnlyUnavoidable TierHonoured SkippedSoleCandidate BodyServed RoomForAll
CHECK_DEADLOCK FALSE
