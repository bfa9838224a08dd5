\* Two requests, with and without the idle guard, against an upstream that owes nothing.
SPECIFICATION FairSpec
CONSTANTS
  Requests = {r1, r2}
  Catalogues <- PairCatalogue
  Inputs <- LifecycleInputs
INVARIANTS TypeOK BooksBalance UsageForWholeAnswers
PROPERTIES NothingAfterFlush EveryRequestEnds Drains
CHECK_DEADLOCK FALSE
