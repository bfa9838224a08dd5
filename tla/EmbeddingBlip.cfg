\* A boot whose connection breaks while the body of a success is read.
SPECIFICATION Spec
CONSTANTS
  anchors = anchors
  c1 = c1
  c2 = c2
  Anchors = anchors
  Calls = {c1}
  TextCount <- BootTexts
  MaxPermits = 1
  MaxAttempts = 3
INVARIANT TransportFailureRetried
CHECK_DEADLOCK FALSE
