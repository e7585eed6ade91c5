\* The legacy path, where every writer holds the account timeline lock.
SPECIFICATION Spec
CONSTANTS
  Segment = {s1}
  Version = {v1, v2}
  Label = {l1}
  Worker = {w1}
  MaxAttempts = 3
  RetryDelay <- MCRetryDelay
  LeaseDuration = 2
  KafkaPath = FALSE
  NoVersion = NoVersion
  Unclassified = Unclassified
  Failed = Failed
  NoOne = NoOne
SYMMETRY Symmetry

INVARIANTS VersionHeldByLock
PROPERTIES WritesForCurrentVersion
