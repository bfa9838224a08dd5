\* Callers of classify_sync compete with the admitted calls for the sessions.
SPECIFICATION Spec
CONSTANTS
  Calls = {c1, c2, c3}
  DirectCalls = {d1, d2}
  Sessions = {s1, s2}
  NoSession = NoSession
SYMMETRY Symmetry
INVARIANTS NoLostWakeup SessionsConserved
