\* Production: every classification goes through the semaphore.
SPECIFICATION FairSpec
CONSTANTS
  Calls = {c1, c2, c3, c4}
  DirectCalls = {}
  Sessions = {s1, s2}
  NoSession = NoSession
INVARIANTS TypeOK PermitsConserved BoundedBlocking QueueExact AdmittedNeverParks
PROPERTIES QueuedIsServed AbandonedIsReclaimed ImplementsAdmission
