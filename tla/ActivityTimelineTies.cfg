\* Records of two devices at one instant, against the promise of a full replay.
SPECIFICATION Spec
CONSTANTS
  MaxGap = 1
  Open = Open
  Times1 = {0, 1, 2, 3}
  Times2 = {1, 2}
  Kinds1 = {"A"}
  Kinds2 = {"B"}
  Clock = {9}
  Batches <- Singles
  Legacies <- NoHistory
  Midnights <- DayStarts
  Reads = {0, 1, 2, 3, 9}
  Unclassified = "unclassified"
  Pending = "pending"
  Confirmed <- ConfirmedLabels
INVARIANTS MatchesFullReplay
CHECK_DEADLOCK FALSE
