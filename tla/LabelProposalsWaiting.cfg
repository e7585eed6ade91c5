\* One version that leaves and returns: a superseded proposal is shown as waiting.
SPECIFICATION FairSpec
CONSTANTS
  Segment = {s1}
  Version = {v1}
  Label = {l1}
  Worker = {w1}
  MaxAttempts = 3
  RetryDelay <- MCRetryDelay
  LeaseDuration = 2
  KafkaPath = FALSE
  NoVersion = NoVersion
  Unclassified = Unclassified
  Failed = Failed
  NoOne = NoOne
PROPERTIES WaitingIsServed
