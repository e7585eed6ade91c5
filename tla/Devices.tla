------------------------------- MODULE Devices -------------------------------
(***************************************************************************)
(* Registering a device: an app that gets no answer repeats its request    *)
(* with the same key (identity/application/devices.py,                     *)
(* infrastructure/devices.py).                                             *)
(***************************************************************************)
CONSTANTS
  Registrations,  \* requests, whose names stand for the identifiers they generate
  Registrants,    \* accounts
  Keys,           \* idempotency keys
  NoDevice

VARIABLES
  devices,       \* rows
  registration   \* each request

deviceVars == <<devices, registration>>

DeviceRow == [id : Registrations, account : Registrants, key : Keys]

RegistrationState ==
  [step : {"idle", "sent", "inserted", "conflict", "answered", "failed"},
   account : Registrants \union {NoDevice}, key : Keys \union {NoDevice},
   device : Registrations \union {NoDevice}]

NewRegistration == [step |-> "idle", account |-> NoDevice, key |-> NoDevice, device |-> NoDevice]

DeviceInit == devices = {} /\ registration = [c \in Registrations |-> NewRegistration]

SendRegistration(c, account, key) ==
  /\ registration[c].step = "idle"
  /\ registration' = [registration EXCEPT ![c] =
       [NewRegistration EXCEPT !.step = "sent", !.account = account, !.key = key]]
  /\ UNCHANGED devices

Asks(c) == <<registration[c].account, registration[c].key>>

RowsOf(c) == {row \in devices : <<row.account, row.key>> = Asks(c)}

\* The unique constraint: an insert waits for another's that has not ended.
MayInsert(c) == ~\E d \in Registrations : registration[d].step = "inserted" /\ Asks(d) = Asks(c)

\* ON CONFLICT DO NOTHING
InsertDevice(c) ==
  /\ registration[c].step = "sent" /\ MayInsert(c)
  /\ registration' = [registration EXCEPT
       ![c].step = IF RowsOf(c) = {} THEN "inserted" ELSE "conflict",
       ![c].device = IF RowsOf(c) = {} THEN c ELSE NoDevice]
  /\ UNCHANGED devices

\* The row that was there first: nothing takes it away.
FindDevice(c) ==
  /\ registration[c].step = "conflict"
  /\ \E row \in RowsOf(c) :
       registration' = [registration EXCEPT ![c].step = "answered", ![c].device = row.id]
  /\ UNCHANGED devices

\* RegisterDevice: the transaction commits, and the answer follows.
CommitDevice(c) ==
  /\ registration[c].step = "inserted"
  /\ devices' = devices \union {[id |-> c, account |-> registration[c].account, key |-> registration[c].key]}
  /\ registration' = [registration EXCEPT ![c].step = "answered"]

\* An error or a crash: rolled back, or no answer to what was committed.
FailRegistration(c) ==
  /\ registration[c].step \in {"sent", "inserted", "conflict", "answered"}
  /\ registration' = [registration EXCEPT ![c].step = "failed"]
  /\ UNCHANGED devices

Register(c) ==
  \/ \E account \in Registrants, key \in Keys : SendRegistration(c, account, key)
  \/ InsertDevice(c) \/ FindDevice(c) \/ CommitDevice(c) \/ FailRegistration(c)

DeviceNext == \E c \in Registrations : Register(c)

DeviceSpec == DeviceInit /\ [][DeviceNext]_deviceVars

-----------------------------------------------------------------------------
(* Properties *)

\* The shape of the state.
DeviceTypeOK ==
  /\ devices \subseteq DeviceRow
  /\ registration \in [Registrations -> RegistrationState]

\* Answers to one account's requests with one key name one device, and others another,
\* which is registered, however the requests overlap and fail (RegisterDevice).
OneDevicePerKey ==
  \A c, d \in Registrations :
    registration[c].step = "answered" /\ registration[d].step = "answered" =>
      /\ (registration[c].device = registration[d].device) <=> (Asks(c) = Asks(d))
      /\ \E row \in devices : row.id = registration[c].device /\ <<row.account, row.key>> = Asks(c)
=============================================================================
