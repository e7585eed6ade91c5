\* Kafka batches against the promise that the lock holds the version.
SPECIFICATION Spec
CONSTANTS
  Segment = {s1}
  Version = {v1}
  Label = {l1}
  Worker = {w1}
  MaxAttempts = 3
  RetryDelay <- MCRetryDelay
  LeaseDuration = 2
  KafkaPath = TRUE
  NoVersion = NoVersion
  Unclassified = Unclassified
  Failed = Failed
  NoOne = NoOne
INVARIANTS VersionHeldByLock
