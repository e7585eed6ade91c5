\* A worker's session ends while the other works on in the same process.
SPECIFICATION Spec
CONSTANTS
  Workers = {w1, w2}
  Partitions = {p1, p2}
  p1 = p1
  p2 = p2
  Length <- Lengths
  MaxRebalances = 1
  Losable = {w1}
  NoWorker = NoWorker
  MaxSegment = 4
  PageSize = 2
  MaxProcessed = 1
  MaxScanned = 3
  MaxChanges = 1
  unformatted = unformatted
  good = good
  bad = bad
  Agents = {a1, a2}
  Texts = {unformatted, good, bad}
  Clean = Clean
  Formatted <- Format
  Verdict <- Verdicts
  Passing = "passing"
  Broken = "broken"
  MaxBlocks = 2
  MaxEdits = 2
  MaxStops = 3
  Nothing = Nothing
  Hooks = {h1, h2}
  Facts <- Lines
  Entrypoint <- Entrypoints
  LastInstant = 1
  MaxLines = 2
  DayLength = 1
  TrendDays = 1
  Null = Null
INVARIANT BatchesInOrder
CHECK_DEADLOCK FALSE
