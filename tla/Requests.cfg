\* Sign-ins, transactions, focus sessions and confirmations, each with concurrent requests.
SPECIFICATION Spec
CONSTANTS
  Attempts = {a1, a2}
  Browsers = {browser}
  Users = {u1, u2}
  Exchanges = {x1, x2}
  TTL = 1
  MaxTime = 1
  NoAttempt = NoAttempt
  Malformed = Malformed
  Rows = {row1, row2}
  MaxVersion = 2
  MaxEvents = 3
  phone = phone
  tablet = tablet
  stranger = stranger
  Sessions = {session}
  Devices = {phone, tablet, stranger}
  Owner <- Owners
  Labels = {work, foreign}
  ActiveLabels = {work}
  Calls = {c1, c2, c3}
  Instants = {0, 1}
  Works = {0, 1}
  Targets = {1}
  NotYet = NotYet
  Segments = {s1, s2}
  Versions = {v1, v2}
  LabelIds = {label}
  Unclassified = Unclassified
  Requests = {r1, r2}
  Clocks = {0, 2}
  MaxReprojections = 1
  Nothing = Nothing
  MaxRecords = 2
  Timezones = {"UTC"}
  Null = Null
  Arrivals = {arrival1}
  Bodies <- Arriving
  Limit = 2
  Clients = {"account", "another"}
  DeviceOwner <- Whose
  Registrations = {d1, d2, d3}
  Registrants = {"account", "another"}
  Keys = {"key", "other"}
  NoDevice = NoDevice
SYMMETRY Symmetry
INVARIANTS TypeOK DefaultsOnce TokensAreExclusive FreshReads SessionCoversRecords RepeatsAnsweredAlike AnswersAreTrue DecodedAsSent
PROPERTIES LiveCodeKept EventsHandledBeforeCommit BatchesHold ChangesMoveForward
CHECK_DEADLOCK FALSE
