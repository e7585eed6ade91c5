SPECIFICATION FairSpec
CONSTANTS
  b1 = b1
  b2 = b2
  b3 = b3
  x = x
  y = y
  Batch = {b1, b2, b3}
  Content = {x, y}
  Sent <- AllSent
  Terminal <- Refusals
  Request = {r1, r2}
  Consumer = {c1, c2}
  MaxFaults = 1
  NoOne = NoOne
  NoClaim = NoClaim
PROPERTIES
  AcceptedIsProcessed
CHECK_DEADLOCK FALSE
