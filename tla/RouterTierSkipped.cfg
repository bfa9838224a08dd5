\* Requests for which classification is skipped, in catalogues with equally large windows.
SPECIFICATION Spec
CONSTANTS
  Requests = {r1}
  Catalogues <- RoutingCatalogues
  Inputs <- RoutingInputs
CONSTRAINT UpToRoute
INVARIANT TierIrrelevantWhenSkipped
CHECK_DEADLOCK FALSE
