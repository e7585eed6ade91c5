-------------------------- MODULE ActivityContract --------------------------
(***************************************************************************)
(* What a batch of activity records is, on the wire and after it: as the   *)
(* app sends it to the API, as the API publishes it, as the consumer reads *)
(* it back (observation/presentation/activities/schemas.py, mappers.py,    *)
(* observation/presentation/messages.py).                                  *)
(*                                                                         *)
(* A JSON object is a record with the keys it has; null is Null; a text is *)
(* its length in bytes.  A time is the digits of its fraction, their value *)
(* and its zone.                                                           *)
(***************************************************************************)
EXTENDS Integers, Sequences

CONSTANTS
  MaxRecords,  \* the records a batch may have
  Timezones,   \* Timezone
  Null         \* null and None

ASSUME ContractAssumption == MaxRecords \in Nat \ {0}

Text == Nat

\* A model has its fields and no other key (extra="forbid"); some have defaults.
Has(object, required, optional) ==
  /\ required \subseteq DOMAIN object
  /\ DOMAIN object \subseteq required \union optional

\* A union is told by its discriminator.
Told(object, key, choices) == key \in DOMAIN object /\ object[key] \in choices

\* The defaults of the keys that an object leaves out
WithDefaults(object, defaults) ==
  [k \in DOMAIN object \union DOMAIN defaults |-> IF k \in DOMAIN object THEN object[k] ELSE defaults[k]]

-----------------------------------------------------------------------------
(* What the models accept *)

CapturedString(v) == Has(v, {"status", "value"}, {}) /\ v.value \in Text

TextDefaults == [truncated |-> FALSE, originalByteLength |-> Null]

\* The validator of truncation metadata runs on what the defaults have completed.
CapturedText(v) ==
  /\ Has(v, {"status", "value"}, DOMAIN TextDefaults)
  /\ v.value \in Text
  /\ LET text == WithDefaults(v, TextDefaults)
     IN /\ text.truncated <=> text.originalByteLength # Null
        /\ text.originalByteLength # Null => text.originalByteLength > text.value

AbsentValue(v) == Has(v, {"status"}, {})

\* UnavailableValue and RedactedValue: a reason that is not empty
Reasoned(v) == Has(v, {"status", "reason"}, {}) /\ v.reason > 0

Unread(v) == IF v.status = "absent" THEN AbsentValue(v) ELSE Reasoned(v)

AppField(v) ==
  /\ Told(v, "status", {"captured", "absent", "unavailable"})
  /\ IF v.status = "captured" THEN CapturedString(v) ELSE Unread(v)

TitleField(v) ==
  /\ Told(v, "status", {"captured", "absent", "unavailable", "redacted"})
  /\ IF v.status = "captured" THEN CapturedText(v) ELSE Unread(v)

UrlField(v) ==
  /\ Told(v, "status", {"captured", "absent", "unavailable", "redacted"})
  /\ IF v.status = "captured" THEN CapturedString(v) ELSE Unread(v)

AppContext(a) == Has(a, {"bundleId", "name"}, {}) /\ AppField(a.bundleId) /\ AppField(a.name)

WindowContext(w) ==
  /\ Told(w, "status", {"captured", "absent", "unavailable"})
  /\ IF w.status = "captured"
     THEN Has(w, {"status", "title"}, {}) /\ Told(w.title, "status", {"captured"}) /\ CapturedText(w.title)
     ELSE Unread(w)

WebContext(w) ==
  /\ Told(w, "kind", {"not_applicable", "browser"})
  /\ IF w.kind = "browser"
     THEN Has(w, {"kind", "tabTitle", "url"}, {}) /\ TitleField(w.tabTitle) /\ UrlField(w.url)
     ELSE Has(w, {"kind"}, {})

ActivityContext(c) ==
  /\ Told(c, "kind", {"detailed", "opaque"})
  /\ IF c.kind = "detailed"
     THEN Has(c, {"kind", "app", "window", "web"}, {})
            /\ AppContext(c.app) /\ WindowContext(c.window) /\ WebContext(c.web)
     ELSE Has(c, {"kind"}, {})

\* OBSERVATION_TIMESTAMP_PATTERN: UTC, at most six digits of a fraction
Timestamp(t) == t.zone = "Z" /\ t.digits \in 0..6 /\ t.fraction \in Nat

RecordDefaults == [focusSessionId |-> Null]
RecordFields == {"recordType", "eventId", "sequence", "observedAt", "timezoneId", "utcOffsetMinutes"}

BatchRecordBase(r, more) ==
  /\ Has(r, RecordFields \union more, DOMAIN RecordDefaults)
  /\ r.sequence >= 0
  /\ Timestamp(r.observedAt)
  /\ r.timezoneId \in Timezones

BatchActivityObservation(r) == BatchRecordBase(r, {"context"}) /\ ActivityContext(r.context)

\* Nothing recorded while collection is suspended belongs to a focus session.
BatchCollectionStateChanged(r) ==
  /\ BatchRecordBase(r, {"state", "reason"})
  /\ r.state \in {"active", "suspended"} /\ r.reason > 0
  /\ r.state = "suspended" => WithDefaults(r, RecordDefaults).focusSessionId = Null

BatchRecord(r) ==
  /\ Told(r, "recordType", {"activity_observation", "collection_state_changed"})
  /\ IF r.recordType = "activity_observation"
     THEN BatchActivityObservation(r) ELSE BatchCollectionStateChanged(r)

Records(records) ==
  /\ records \in Seq({records[i] : i \in DOMAIN records}) /\ Len(records) \in 1..MaxRecords
  /\ \A i \in DOMAIN records : BatchRecord(records[i])

ActivityBatchRequest(w) == Has(w, {"batchId", "deviceId", "records"}, {}) /\ Records(w.records)

ActivityRegistrationRequested(w) ==
  Has(w, {"accountId", "batchId", "deviceId", "records"}, {}) /\ Records(w.records)

-----------------------------------------------------------------------------
(* What they make of it, and write again *)

\* _parse_observation_timestamp: an instant, in microseconds
ParsedTime(t) == t.fraction * 10^(6 - t.digits)

ParsedTitle(v) == IF v.status = "captured" THEN WithDefaults(v, TextDefaults) ELSE v
ParsedWindow(w) == IF w.status = "captured" THEN [w EXCEPT !.title = ParsedTitle(w.title)] ELSE w
ParsedWeb(w) == IF w.kind = "browser" THEN [w EXCEPT !.tabTitle = ParsedTitle(w.tabTitle)] ELSE w
ParsedContext(c) ==
  IF c.kind = "detailed" THEN [c EXCEPT !.window = ParsedWindow(c.window), !.web = ParsedWeb(c.web)] ELSE c

ParsedRecord(r) ==
  LET record == [WithDefaults(r, RecordDefaults) EXCEPT !.observedAt = ParsedTime(r.observedAt)]
  IN IF r.recordType = "activity_observation"
     THEN [record EXCEPT !.context = ParsedContext(r.context)] ELSE record

Parsed(w) == [w EXCEPT !.records = [i \in DOMAIN w.records |-> ParsedRecord(w.records[i])]]

\* Mutant of DumpedTime: as the API's other times are written, to the second.
DumpedTimeToSecond(instant) == [zone |-> "Z", digits |-> 0, fraction |-> 0]

\* A time has no fraction, or all of its digits.
DumpedTime(instant) ==
  IF instant = 0 THEN [zone |-> "Z", digits |-> 0, fraction |-> 0]
  ELSE [zone |-> "Z", digits |-> 6, fraction |-> instant]

\* model_dump, model_dump_json: every field is written, those with defaults too.
DumpedRecord(r) == [r EXCEPT !.observedAt = DumpedTime(r.observedAt)]
Dumped(m) == [m EXCEPT !.records = [i \in DOMAIN m.records |-> DumpedRecord(m.records[i])]]

\* batch_fingerprint; a digest stands for what it is made of.
Fingerprint(batch) == Dumped(batch)

\* to_entity, activity_records: the records of the batch's device
Entity(record, device) ==
  [event_id |-> record.eventId, device_id |-> device, focus_session_id |-> record.focusSessionId,
   sequence |-> record.sequence, observed_at |-> record.observedAt, timezone |-> record.timezoneId,
   offset |-> record.utcOffsetMinutes,
   payload |-> IF record.recordType = "activity_observation" THEN record.context
               ELSE <<record.state, record.reason>>]

\* activity_batch
ActivityBatch(batch) ==
  [batch_id |-> batch.batchId, device_id |-> batch.deviceId, fingerprint |-> Fingerprint(batch),
   records |-> [i \in DOMAIN batch.records |-> Entity(batch.records[i], batch.deviceId)]]

-----------------------------------------------------------------------------
(* The message *)

\* from_batch
FromBatch(account, batch) == WithDefaults(batch, [accountId |-> account])

\* to_activity_batch
ToActivityBatch(message) ==
  ActivityBatch([batchId |-> message.batchId, deviceId |-> message.deviceId, records |-> message.records])

Key(message) == message.accountId

\* ActivityBatchPublisher.publish
Published(account, batch) ==
  LET message == FromBatch(account, batch) IN [key |-> Key(message), value |-> Dumped(message)]

\* decode_batch accepts the message.
Decodes(m) == ActivityRegistrationRequested(m.value) /\ m.key = m.value.accountId
=============================================================================
