\* Boot in up to two attempts, then classifications that compete with each other
\* and with what an attempt has left, over one permit.
SPECIFICATION FairSpec
CONSTANTS
  anchors = anchors
  c1 = c1
  c2 = c2
  Anchors = anchors
  Calls = {c1, c2}
  TextCount <- MixedTexts
  MaxPermits = 1
  MaxAttempts = 2
INVARIANTS TypeOK PermitsConserved VectorsInOrder
PROPERTIES ImplementsAdmission BootDecides EmbedEnds
CHECK_DEADLOCK FALSE
