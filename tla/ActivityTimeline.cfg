\* Single and paired records of two devices in any order, accounts with history.
SPECIFICATION Spec
CONSTANTS
  MaxGap = 1
  Open = Open
  Times1 = {0, 1, 2, 3}
  Times2 = {1, 2}
  Kinds1 = {"A"}
  Kinds2 = {"B", "suspended"}
  Clock = {1, 9}
  Batches <- Mixed
  Legacies <- Histories
  Midnights <- DayStarts
  Reads = {2, 3, 9}
  Unclassified = "unclassified"
  Pending = "pending"
  Confirmed <- ConfirmedLabels
INVARIANTS TypeOK FoldGroups DayIsTold
PROPERTIES ReplayIsExact IdentityKept VersionStands
CHECK_DEADLOCK FALSE
