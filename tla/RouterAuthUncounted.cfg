\* A request to a backend whose Google token cannot be fetched.
SPECIFICATION Spec
CONSTANTS
  Requests = {r1, r2}
  Catalogues <- PairCatalogue
  Inputs <- LifecycleInputs
INVARIANT AnsweredIsCounted
CHECK_DEADLOCK FALSE
