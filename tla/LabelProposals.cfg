\* Two workers on the constants of the source; batches arrive through Kafka.
SPECIFICATION Spec
CONSTANTS
  Segment = {s1}
  Version = {v1}
  Label = {l1}
  Worker = {w1, w2}
  MaxAttempts = 3
  RetryDelay <- MCRetryDelay
  LeaseDuration = 2
  KafkaPath = TRUE
  NoVersion = NoVersion
  Unclassified = Unclassified
  Failed = Failed
  NoOne = NoOne
SYMMETRY Symmetry
INVARIANTS TypeOK SingleOwner NewestAttemptUndisturbed
PROPERTIES SettledIsFinal UserChoiceWins ImplementsOutcomes
