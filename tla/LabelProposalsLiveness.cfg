\* Two workers under fairness, with crashes and lock timeouts.
SPECIFICATION FairSpec
CONSTANTS
  Segment = {s1}
  Version = {v1}
  Label = {l1}
  Worker = {w1, w2}
  MaxAttempts = 2
  RetryDelay <- MCOneRetry
  LeaseDuration = 2
  KafkaPath = TRUE
  NoVersion = NoVersion
  Unclassified = Unclassified
  Failed = Failed
  NoOne = NoOne
PROPERTIES EveryVersionSettles
