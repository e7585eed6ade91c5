--------------------------- MODULE RequestsProofs ---------------------------
(***************************************************************************)
(* Theorems about what a request is answered, for every limit, batch and   *)
(* device (BatchAdmission), about the unit of work its use case runs in,   *)
(* and about all the components together (MCRequests).                     *)
(***************************************************************************)
EXTENDS MCRequests, AccountProofs, LabelConfirmationsProofs, SequenceLemmas

-----------------------------------------------------------------------------
(* Batches on the wire *)

\* Defaults are filled in once.
LEMMA Defaulted ==
  ASSUME NEW v, NEW d
  PROVE  /\ DOMAIN WithDefaults(v, d) = DOMAIN v \union DOMAIN d
         /\ \A k \in DOMAIN v : WithDefaults(v, d)[k] = v[k]
         /\ WithDefaults(WithDefaults(v, d), d) = WithDefaults(v, d)
<1> DEFINE w == WithDefaults(v, d)
<1>1. w = [k \in DOMAIN v \union DOMAIN d |-> w[k]] /\ DOMAIN w = DOMAIN v \union DOMAIN d
      /\ \A k \in DOMAIN v : w[k] = v[k]
  BY DEF WithDefaults
<1> HIDE DEF w
<1>2. WithDefaults(w, d) = [k \in DOMAIN w \union DOMAIN d |-> w[k]]
  BY <1>1 DEF WithDefaults
<1>3. WithDefaults(w, d) = w
  BY <1>1, <1>2
<1>4. QED
  BY <1>1, <1>3 DEF w

\* A text is read as it was written, and read again says the same.
LEMMA TitleTwice ==
  ASSUME NEW v, TitleField(v)
  PROVE  /\ TitleField(ParsedTitle(v)) /\ ParsedTitle(ParsedTitle(v)) = ParsedTitle(v)
         /\ v.status = "captured" =>
              CapturedText(ParsedTitle(v)) /\ ParsedTitle(v).status = "captured"
         /\ "status" \in DOMAIN ParsedTitle(v)
<1>1. CASE v.status = "captured"
  <2> DEFINE w == WithDefaults(v, TextDefaults)
  <2>1. CapturedText(v) /\ DOMAIN TextDefaults = {"truncated", "originalByteLength"}
    BY <1>1 DEF TitleField, TextDefaults
  <2>2. {"status", "value"} \subseteq DOMAIN v /\ DOMAIN v \subseteq {"status", "value"} \union DOMAIN TextDefaults
    BY <2>1 DEF CapturedText, Has
  <2>3. /\ DOMAIN w = {"status", "value"} \union DOMAIN TextDefaults /\ WithDefaults(w, TextDefaults) = w
        /\ w["status"] = v["status"] /\ w["value"] = v["value"]
    <3>1. /\ DOMAIN w = DOMAIN v \union DOMAIN TextDefaults /\ WithDefaults(w, TextDefaults) = w
          /\ \A k \in DOMAIN v : w[k] = v[k]
      BY Defaulted
    <3> HIDE DEF w
    <3>2. QED
      BY <2>2, <3>1
  <2>4. ParsedTitle(v) = w
    BY <1>1 DEF ParsedTitle
  <2>5. w.status = v.status /\ w.value = v.value
    BY <2>3
  <2>6. CapturedText(w)
    <3>1. /\ w.truncated <=> w.originalByteLength # Null
          /\ w.originalByteLength # Null => w.originalByteLength > w.value
      BY <2>1, <2>5 DEF CapturedText
    <3>2. w.value \in Text
      BY <2>1, <2>5 DEF CapturedText
    <3> HIDE DEF w
    <3>3. Has(w, {"status", "value"}, DOMAIN TextDefaults)
      BY <2>3 DEF Has
    <3>4. QED
      BY <2>3, <3>1, <3>2, <3>3 DEF CapturedText
  <2> HIDE DEF w
  <2>7. TitleField(w) /\ ParsedTitle(w) = w /\ "status" \in DOMAIN w
    BY <1>1, <2>3, <2>5, <2>6 DEF TitleField, Told, ParsedTitle
  <2>8. QED
    BY <1>1, <2>4, <2>5, <2>6, <2>7
<1>2. CASE v.status # "captured"
  BY <1>2 DEF ParsedTitle, TitleField, Told
<1>3. QED
  BY <1>1, <1>2

\* A time is written with what it has of a fraction, and read as the same instant.
LEMMA TimeTwice ==
  ASSUME NEW t, Timestamp(t)
  PROVE  /\ Timestamp(DumpedTime(ParsedTime(t)))
         /\ ParsedTime(DumpedTime(ParsedTime(t))) = ParsedTime(t)
<1> DEFINE n == ParsedTime(t)
<1>1. n \in Nat
  <2>1. t.digits \in 0..6 /\ t.fraction \in Nat
    BY DEF Timestamp
  <2>2. 6 - t.digits \in {0, 1, 2, 3, 4, 5, 6}
    BY <2>1
  <2>3. 10^0 \in Nat /\ 10^1 \in Nat /\ 10^2 \in Nat /\ 10^3 \in Nat /\ 10^4 \in Nat /\ 10^5 \in Nat /\ 10^6 \in Nat
    OBVIOUS
  <2>4. 10^(6 - t.digits) \in Nat
    BY <2>2, <2>3
  <2>5. QED
    BY <2>1, <2>4 DEF ParsedTime
<1> HIDE DEF n
<1>2. CASE n = 0
  <2>1. DumpedTime(n) = [zone |-> "Z", digits |-> 0, fraction |-> 0]
    BY <1>2 DEF DumpedTime
  <2>2. 10^(6 - 0) \in Nat
    OBVIOUS
  <2>3. ParsedTime(DumpedTime(n)) = 0 * 10^(6 - 0)
    BY <2>1 DEF ParsedTime
  <2>4. Timestamp(DumpedTime(n))
    BY <2>1 DEF Timestamp
  <2>5. QED
    BY <1>2, <2>2, <2>3, <2>4 DEF n
<1>3. CASE n # 0
  <2>1. DumpedTime(n) = [zone |-> "Z", digits |-> 6, fraction |-> n]
    BY <1>3 DEF DumpedTime
  <2>2. 10^(6 - 6) = 1
    OBVIOUS
  <2>3. ParsedTime(DumpedTime(n)) = n * 10^(6 - 6)
    BY <2>1 DEF ParsedTime
  <2>4. Timestamp(DumpedTime(n))
    BY <1>1, <2>1 DEF Timestamp
  <2>5. QED
    BY <1>1, <2>2, <2>3, <2>4 DEF n
<1>4. QED
  BY <1>2, <1>3

\* The same of a window, ...
LEMMA WindowTwice ==
  ASSUME NEW w, WindowContext(w)
  PROVE  WindowContext(ParsedWindow(w)) /\ ParsedWindow(ParsedWindow(w)) = ParsedWindow(w)
<1>1. CASE w.status = "captured"
  <2> DEFINE t == ParsedTitle(w.title)
             u == [w EXCEPT !.title = t]
  <2>1. Has(w, {"status", "title"}, {}) /\ Told(w.title, "status", {"captured"}) /\ CapturedText(w.title)
    BY <1>1 DEF WindowContext
  <2>2. TitleField(w.title) /\ w.title.status = "captured"
    BY <2>1 DEF TitleField, Told
  <2>3. /\ ParsedTitle(t) = t /\ t.status = "captured" /\ CapturedText(t) /\ "status" \in DOMAIN t
    <3>1. /\ ParsedTitle(ParsedTitle(w.title)) = ParsedTitle(w.title) /\ "status" \in DOMAIN ParsedTitle(w.title)
          /\ CapturedText(ParsedTitle(w.title)) /\ ParsedTitle(w.title).status = "captured"
      BY <2>2, TitleTwice
    <3>2. QED
      BY <3>1
  <2> HIDE DEF t
  <2>4. DOMAIN w = {"status", "title"}
    BY <2>1 DEF Has
  <2>5. u.title = t /\ u.status = w.status /\ DOMAIN u = DOMAIN w /\ [u EXCEPT !.title = t] = u
    BY <2>4
  <2>6. ParsedWindow(w) = u
    BY <1>1 DEF ParsedWindow, t
  <2> HIDE DEF u
  <2>7. ParsedWindow(u) = u
    BY <1>1, <2>3, <2>5 DEF ParsedWindow
  <2>8. WindowContext(u)
    BY <1>1, <2>3, <2>4, <2>5 DEF WindowContext, Has, Told
  <2>9. QED
    BY <2>6, <2>7, <2>8
<1>2. CASE w.status # "captured"
  BY <1>2 DEF ParsedWindow
<1>3. QED
  BY <1>1, <1>2

\* ... of a web page, ...
LEMMA WebTwice ==
  ASSUME NEW w, WebContext(w)
  PROVE  WebContext(ParsedWeb(w)) /\ ParsedWeb(ParsedWeb(w)) = ParsedWeb(w)
<1>1. CASE w.kind = "browser"
  <2> DEFINE t == ParsedTitle(w.tabTitle)
             u == [w EXCEPT !.tabTitle = t]
  <2>1. Has(w, {"kind", "tabTitle", "url"}, {}) /\ TitleField(w.tabTitle) /\ UrlField(w.url)
    BY <1>1 DEF WebContext
  <2>2. ParsedTitle(t) = t /\ TitleField(t)
    <3>1. TitleField(ParsedTitle(w.tabTitle)) /\ ParsedTitle(ParsedTitle(w.tabTitle)) = ParsedTitle(w.tabTitle)
      BY <2>1, TitleTwice
    <3>2. QED
      BY <3>1
  <2>3. ParsedWeb(w) = u
    BY <1>1 DEF ParsedWeb
  <2> HIDE DEF t
  <2>4. DOMAIN w = {"kind", "tabTitle", "url"}
    BY <2>1 DEF Has
  <2>5. u.tabTitle = t /\ u.kind = w.kind /\ u.url = w.url /\ DOMAIN u = DOMAIN w /\ [u EXCEPT !.tabTitle = t] = u
    BY <2>4
  <2> HIDE DEF u
  <2>6. ParsedWeb(u) = u
    BY <1>1, <2>2, <2>5 DEF ParsedWeb
  <2>7. WebContext(u)
    BY <1>1, <2>1, <2>2, <2>4, <2>5 DEF WebContext, Has, Told
  <2>8. QED
    BY <2>3, <2>6, <2>7
<1>2. CASE w.kind # "browser"
  BY <1>2 DEF ParsedWeb
<1>3. QED
  BY <1>1, <1>2

\* ... and of a context.
LEMMA ContextTwice ==
  ASSUME NEW c, ActivityContext(c)
  PROVE  ActivityContext(ParsedContext(c)) /\ ParsedContext(ParsedContext(c)) = ParsedContext(c)
<1>1. CASE c.kind = "detailed"
  <2> DEFINE w == ParsedWindow(c.window)
             b == ParsedWeb(c.web)
             u == [c EXCEPT !.window = w, !.web = b]
  <2>1. /\ Has(c, {"kind", "app", "window", "web"}, {})
        /\ AppContext(c.app) /\ WindowContext(c.window) /\ WebContext(c.web)
    BY <1>1 DEF ActivityContext
  <2>2. /\ WindowContext(w) /\ ParsedWindow(w) = w /\ WebContext(b) /\ ParsedWeb(b) = b
    BY <2>1, WindowTwice, WebTwice
  <2>3. ParsedContext(c) = u
    BY <1>1, <2>1 DEF ParsedContext, Has
  <2> HIDE DEF w, b
  <2>4. DOMAIN c = {"kind", "app", "window", "web"}
    BY <2>1 DEF Has
  <2>5. /\ u.window = w /\ u.web = b /\ u.kind = c.kind /\ u.app = c.app /\ DOMAIN u = DOMAIN c
        /\ [u EXCEPT !.window = w, !.web = b] = u
    BY <2>4
  <2> HIDE DEF u
  <2>6. ParsedContext(u) = [u EXCEPT !.window = ParsedWindow(u.window), !.web = ParsedWeb(u.web)]
    BY <1>1, <2>4, <2>5 DEF ParsedContext
  <2>7. ActivityContext(u)
    BY <1>1, <2>1, <2>2, <2>4, <2>5 DEF ActivityContext, Has, Told
  <2>8. QED
    BY <2>2, <2>3, <2>5, <2>6, <2>7
<1>2. CASE c.kind # "detailed"
  BY <1>2 DEF ParsedContext
<1>3. QED
  BY <1>1, <1>2

\* A record that was accepted is accepted when it is written, and read as the same record.
LEMMA RecordTwice ==
  ASSUME NEW r, BatchRecord(r)
  PROVE  /\ BatchRecord(DumpedRecord(ParsedRecord(r)))
         /\ ParsedRecord(DumpedRecord(ParsedRecord(r))) = ParsedRecord(r)
<1> DEFINE q == WithDefaults(r, RecordDefaults)
           n == ParsedTime(r.observedAt)
           t == DumpedTime(n)
           c == ParsedContext(r.context)
           observed == r.recordType = "activity_observation"
           s == [q EXCEPT !.observedAt = n]
           p == IF observed THEN [s EXCEPT !.context = c] ELSE s
           d == [p EXCEPT !.observedAt = t]
<1>1. /\ Told(r, "recordType", {"activity_observation", "collection_state_changed"})
      /\ observed => BatchRecordBase(r, {"context"}) /\ ActivityContext(r.context)
      /\ ~observed => BatchCollectionStateChanged(r) /\ BatchRecordBase(r, {"state", "reason"})
  BY DEF BatchRecord, BatchActivityObservation, BatchCollectionStateChanged
<1>2. Timestamp(r.observedAt) /\ r.sequence >= 0 /\ r.timezoneId \in Timezones
  BY <1>1 DEF BatchRecordBase
<1>3. /\ RecordFields \subseteq DOMAIN r /\ (observed => "context" \in DOMAIN r)
      /\ ~observed => {"state", "reason"} \subseteq DOMAIN r
      /\ observed => DOMAIN r \subseteq RecordFields \union {"context"} \union {"focusSessionId"}
      /\ ~observed => DOMAIN r \subseteq RecordFields \union {"state", "reason"} \union {"focusSessionId"}
  BY <1>1 DEF BatchRecordBase, Has, RecordDefaults
<1>4. /\ DOMAIN q = DOMAIN r \union {"focusSessionId"} /\ \A k \in DOMAIN r : q[k] = r[k]
  <2>1. DOMAIN RecordDefaults = {"focusSessionId"}
    BY DEF RecordDefaults
  <2>2. QED
    BY <2>1, Defaulted
<1>5. /\ Timestamp(t) /\ ParsedTime(t) = n
  BY <1>2, TimeTwice
<1>6. observed => ActivityContext(c) /\ ParsedContext(c) = c
  BY <1>1, ContextTwice
<1>7. ParsedRecord(r) = p /\ DumpedRecord(p) = d
  BY DEF ParsedRecord, DumpedRecord
<1>8. q = [k \in DOMAIN q |-> q[k]]
  BY DEF WithDefaults
<1> HIDE DEF q, n, t, c
<1>9. "observedAt" \in DOMAIN q /\ (observed => "context" \in DOMAIN q)
  BY <1>3, <1>4 DEF RecordFields
<1>10. /\ DOMAIN s = DOMAIN q /\ s.observedAt = n /\ \A k \in DOMAIN q \ {"observedAt"} : s[k] = q[k]
  BY <1>8, <1>9
<1>11. s = [k \in DOMAIN s |-> s[k]]
  BY <1>8
<1> HIDE DEF s
<1>12. /\ DOMAIN p = DOMAIN q /\ p.observedAt = n /\ (observed => p.context = c)
       /\ \A k \in DOMAIN q \ {"observedAt", "context"} : p[k] = q[k]
       /\ ~observed => \A k \in DOMAIN q \ {"observedAt"} : p[k] = q[k]
       /\ p = [k \in DOMAIN p |-> p[k]]
  BY <1>9, <1>10, <1>11
<1> HIDE DEF p
<1>13. /\ DOMAIN d = DOMAIN q /\ d.observedAt = t /\ (observed => d.context = c)
       /\ \A k \in DOMAIN q \ {"observedAt", "context"} : d[k] = q[k]
       /\ ~observed => \A k \in DOMAIN q \ {"observedAt"} : d[k] = q[k]
       /\ d = [k \in DOMAIN d |-> d[k]]
       /\ [d EXCEPT !.observedAt = n] = p
  BY <1>9, <1>12
<1> HIDE DEF d
<1>14. "recordType" \in DOMAIN q /\ q.recordType = r.recordType /\ d.recordType = r.recordType
  BY <1>3, <1>4, <1>13 DEF RecordFields
<1>15. WithDefaults(d, RecordDefaults) = d
  <2>1. DOMAIN d \union DOMAIN RecordDefaults = DOMAIN d
    BY <1>4, <1>13 DEF RecordDefaults
  <2>2. QED
    BY <1>13, <2>1 DEF WithDefaults
<1>16. ParsedRecord(d) = p
  <2>1. [d EXCEPT !.observedAt = ParsedTime(d.observedAt)] = p
    BY <1>5, <1>13
  <2>2. ParsedRecord(d) = IF observed THEN [p EXCEPT !.context = ParsedContext(d.context)] ELSE p
    BY <1>14, <1>15, <2>1 DEF ParsedRecord
  <2>3. observed => [p EXCEPT !.context = c] = p
    BY <1>12
  <2>4. QED
    BY <1>6, <1>13, <2>2, <2>3
<1>17. d.sequence = r.sequence /\ d.timezoneId = r.timezoneId
  BY <1>3, <1>4, <1>13 DEF RecordFields
<1>18. DOMAIN d = DOMAIN r \union {"focusSessionId"} /\ DOMAIN RecordDefaults = {"focusSessionId"}
  BY <1>4, <1>13 DEF RecordDefaults
<1>19. CASE observed
  <2>1. Has(d, RecordFields \union {"context"}, DOMAIN RecordDefaults)
    BY <1>3, <1>18, <1>19 DEF Has
  <2>2. BatchRecordBase(d, {"context"})
    BY <1>2, <1>5, <1>13, <1>17, <2>1 DEF BatchRecordBase
  <2>3. BatchRecord(d)
    BY <1>6, <1>13, <1>14, <1>19, <1>3, <1>4, <2>2 DEF BatchRecord, BatchActivityObservation, Told
  <2>4. QED
    BY <1>7, <1>16, <2>3
<1>20. CASE ~observed
  <2>1. Has(d, RecordFields \union {"state", "reason"}, DOMAIN RecordDefaults)
    BY <1>3, <1>18, <1>20 DEF Has
  <2>2. BatchRecordBase(d, {"state", "reason"})
    BY <1>2, <1>5, <1>13, <1>17, <2>1 DEF BatchRecordBase
  <2>3. {"state", "reason"} \subseteq DOMAIN r /\ "observedAt" \notin {"state", "reason", "focusSessionId"}
    BY <1>3, <1>20
  <2>4. d.state = r.state /\ d.reason = r.reason /\ d.focusSessionId = q.focusSessionId
    BY <1>4, <1>13, <1>20, <2>3
  <2>5. r.state = "suspended" => q.focusSessionId = Null
    BY <1>1, <1>20 DEF BatchCollectionStateChanged, q
  <2>6. BatchCollectionStateChanged(d)
    BY <1>1, <1>15, <1>20, <2>2, <2>4, <2>5 DEF BatchCollectionStateChanged
  <2>7. BatchRecord(d)
    BY <1>1, <1>4, <1>13, <1>14, <1>20, <2>6 DEF BatchRecord, Told
  <2>8. QED
    BY <1>7, <1>16, <2>7
<1>21. QED
  BY <1>19, <1>20

\* A batch that was accepted is decoded from its message, for the account and as the batch it was.
LEMMA RequestTwice ==
  ASSUME NEW w, NEW account, ActivityBatchRequest(w)
  PROVE  LET m == Published(account, Parsed(w))
         IN /\ Decodes(m) /\ Parsed(m.value).accountId = account
            /\ ToActivityBatch(Parsed(m.value)) = ActivityBatch(Parsed(w))
<1> DEFINE n == Len(w.records)
           P == Parsed(w)
           m == FromBatch(account, P)
           v == Dumped(m)
           V == Parsed(v)
<1>1. /\ DOMAIN w = {"batchId", "deviceId", "records"} /\ w.records \in Seq({w.records[i] : i \in DOMAIN w.records})
      /\ n \in 1..MaxRecords /\ \A i \in DOMAIN w.records : BatchRecord(w.records[i])
  BY DEF ActivityBatchRequest, Records, Has
<1>2. n \in Nat /\ DOMAIN w.records = 1..n
  <2>1. \A S, s : s \in Seq(S) => Len(s) \in Nat /\ DOMAIN s = 1..Len(s)
    OBVIOUS
  <2>2. QED
    BY <1>1, <2>1
<1> HIDE DEF n
<1>3. /\ P = [k \in {"batchId", "deviceId", "records"} |-> P[k]]
      /\ P["records"] = [i \in 1..n |-> ParsedRecord(w.records[i])]
  BY <1>1, <1>2 DEF Parsed
<1> HIDE DEF P
<1>4. /\ DOMAIN m = {"batchId", "deviceId", "records", "accountId"} /\ m["accountId"] = account
      /\ m["batchId"] = P["batchId"] /\ m["deviceId"] = P["deviceId"] /\ m["records"] = P["records"]
      /\ m = [k \in {"batchId", "deviceId", "records", "accountId"} |-> m[k]]
  <2>1. DOMAIN P = {"batchId", "deviceId", "records"} /\ DOMAIN [accountId |-> account] = {"accountId"}
    BY <1>3
  <2>2. m = [k \in {"batchId", "deviceId", "records"} \union {"accountId"} |->
               IF k \in {"batchId", "deviceId", "records"} THEN P[k] ELSE [accountId |-> account][k]]
    BY <2>1 DEF FromBatch, WithDefaults
  <2> HIDE DEF m
  <2>3. QED
    BY <2>2
<1>5. Published(account, P) = [key |-> account, value |-> v]
  BY <1>4 DEF Published, Key
<1> HIDE DEF m
<1>6. /\ DOMAIN v = DOMAIN m /\ v["accountId"] = account /\ v["batchId"] = P["batchId"] /\ v["deviceId"] = P["deviceId"]
      /\ v["records"] = [i \in 1..n |-> DumpedRecord(ParsedRecord(w.records[i]))]
  <2>1. v = [m EXCEPT !["records"] = [i \in DOMAIN m["records"] |-> DumpedRecord(m["records"][i])]]
    BY DEF Dumped
  <2>2. [i \in DOMAIN m["records"] |-> DumpedRecord(m["records"][i])] = [i \in 1..n |-> DumpedRecord(ParsedRecord(w.records[i]))]
    BY <1>3, <1>4
  <2> HIDE DEF v
  <2>3. QED
    BY <1>4, <2>1, <2>2
<1> HIDE DEF v
<1>7. \A i \in 1..n : /\ BatchRecord(DumpedRecord(ParsedRecord(w.records[i])))
                      /\ ParsedRecord(DumpedRecord(ParsedRecord(w.records[i]))) = ParsedRecord(w.records[i])
  BY <1>1, <1>2, RecordTwice
<1>8. /\ V["accountId"] = account /\ V["batchId"] = P["batchId"] /\ V["deviceId"] = P["deviceId"] /\ V["records"] = P["records"]
  <2>1. V = [v EXCEPT !["records"] = [i \in DOMAIN v["records"] |-> ParsedRecord(v["records"][i])]]
    BY DEF Parsed
  <2>2. [i \in DOMAIN v["records"] |-> ParsedRecord(v["records"][i])] = [i \in 1..n |-> ParsedRecord(w.records[i])]
    BY <1>6, <1>7
  <2> HIDE DEF V
  <2>3. QED
    BY <1>3, <1>4, <1>6, <2>1, <2>2
<1>9. ActivityRegistrationRequested(v)
  <2> DEFINE records == v["records"]
  <2>1. DOMAIN records = 1..n /\ records = [i \in 1..n |-> records[i]] /\ \A i \in 1..n : BatchRecord(records[i])
    BY <1>6, <1>7
  <2>2. Has(v, {"accountId", "batchId", "deviceId", "records"}, {})
    BY <1>4, <1>6 DEF Has
  <2> HIDE DEF records
  <2>3. records \in Seq({records[i] : i \in DOMAIN records}) /\ Len(records) = n
    BY <1>2, <2>1
  <2>4. Records(records)
    BY <1>1, <2>1, <2>3 DEF Records, n
  <2>5. QED
    BY <2>2, <2>4 DEF ActivityRegistrationRequested, records
<1> HIDE DEF V
<1>10. [batchId |-> V.batchId, deviceId |-> V.deviceId, records |-> V.records] = P
  BY <1>3, <1>8
<1>11. ToActivityBatch(V) = ActivityBatch(P)
  BY <1>10 DEF ToActivityBatch
<1>12. Decodes([key |-> account, value |-> v])
  BY <1>6, <1>9 DEF Decodes
<1>13. QED
  BY <1>5, <1>8, <1>11, <1>12 DEF P, V

-----------------------------------------------------------------------------
(* Answers to batches *)

\* A batch of the request's own device that was received within the limit.
Sound(r) == OwnDevice(r) /\ arrival[r].body.chunks <= Limit

\* A request that is not answered: what has been done of it so far.
Unanswered(r) ==
  LET a == arrival[r]
  IN /\ a.answers = <<>>
     /\ a.step \in {"idle", "receiving", "handling"} => r \notin processed /\ ~a.sent
     /\ a.step = "handling" => a.body.chunks <= Limit
     /\ a.step = "publishing" => a.sent /\ ~a.legacy /\ r \notin processed
     /\ a.step = "processing" => a.legacy /\ ~a.sent /\ r \notin processed /\ a.body.chunks <= Limit
     /\ a.step = "done" => r \notin processed /\ ~a.sent

\* What an answer that has started says is so.
TrueAnswer(r, code) ==
  /\ code = 202 => Message(r) \in topic
  /\ code = 200 => r \in processed
  /\ arrival[r].legacy /\ code = 503 => r \notin processed
  /\ code \in {401, 404, 409, 413, 422} => r \notin processed /\ ~arrival[r].sent

\* One answer that is true, or the one second answer after a refusal.
AnsweredTruly(r) ==
  \/ \E code \in Codes : arrival[r].answers = <<code>> /\ TrueAnswer(r, code)
  \/ RefusedLate(r) /\ r \notin processed /\ ~arrival[r].sent

ArrivalOK(r) ==
  /\ arrival[r].step = "answering" => AnsweredTruly(r)
  /\ arrival[r].step = "refusing" => arrival[r].answers = <<413>> /\ TrueAnswer(r, 413)
  /\ arrival[r].step = "done" => Unanswered(r) \/ AnsweredTruly(r)
  /\ arrival[r].step \notin {"answering", "refusing", "done"} => Unanswered(r)
  /\ arrival[r].sent => ~arrival[r].legacy /\ Sound(r)
  /\ r \in processed => arrival[r].legacy /\ Sound(r)

AdmissionInv ==
  /\ AdmissionTypeOK
  /\ \A r \in Arrivals : ArrivalOK(r)

\* A step of one request, seen from another.
LEMMA OtherArrivals ==
  ASSUME AdmissionInv, NEW r \in Arrivals, NEW q \in Arrivals \ {r}, arrival'[q] = arrival[q],
         topic \subseteq topic', processed' \in {processed, processed \union {r}}
  PROVE  ArrivalOK(q)'
<1>1. ArrivalOK(q) /\ (q \in processed' <=> q \in processed)
  BY DEF AdmissionInv
<1>2. Message(q)' = Message(q) /\ Sound(q)' = Sound(q)
  BY DEF Message, Sound, OwnDevice
<1>3. \A code : TrueAnswer(q, code) => TrueAnswer(q, code)'
  BY <1>1, <1>2 DEF TrueAnswer
<1>4. Unanswered(q)' = Unanswered(q)
  BY <1>1 DEF Unanswered
<1>5. AnsweredTruly(q) => AnsweredTruly(q)'
  BY <1>1, <1>3 DEF AnsweredTruly, RefusedLate
<1>6. QED
  BY <1>1, <1>2, <1>3, <1>4, <1>5 DEF ArrivalOK

\* What an answer says of the batch is so when it starts.
StartsTruly(r, code) ==
  /\ arrival[r].step \notin {"idle", "answering", "refusing", "done"}
  /\ UNCHANGED <<enabled, topic>> /\ processed' \in {processed, processed \union {r}}
  /\ code = 202 => Message(r) \in topic
  /\ code = 200 => r \in processed'
  /\ r \in processed' => arrival[r].legacy /\ Sound(r) /\ code \in {200, 500}
  /\ code \in {401, 404, 409, 413, 422} => ~arrival[r].sent

\* An answer that starts.
LEMMA AnswerStarts ==
  ASSUME AdmissionInv, NEW r \in Arrivals, NEW code \in Codes, NEW a \in ArrivalState,
         arrival' = [arrival EXCEPT ![r] = a],
         a.step = "answering" \/ (a.step = "refusing" /\ code = 413),
         a.answers = Append(arrival[r].answers, code),
         a.legacy = arrival[r].legacy, a.body = arrival[r].body, a.client = arrival[r].client,
         a.sent = arrival[r].sent,
         StartsTruly(r, code)
  PROVE  AdmissionInv'
<1> USE DEF AdmissionInv, AdmissionTypeOK, StartsTruly
<1>1. arrival[r] \in ArrivalState /\ ArrivalOK(r) /\ Unanswered(r)
  BY DEF ArrivalOK
<1>2. a.answers = <<code>>
  BY <1>1 DEF Unanswered
<1>3. /\ arrival'[r] = a /\ \A q \in Arrivals \ {r} : arrival'[q] = arrival[q]
      /\ arrival' \in [Arrivals -> ArrivalState]
  OBVIOUS
<1>4. Message(r)' = Message(r) /\ Sound(r)' = Sound(r)
  BY <1>3 DEF Message, Sound, OwnDevice
<1>5. TrueAnswer(r, code)'
  BY <1>3, <1>4 DEF TrueAnswer
<1>6. ArrivalOK(r)'
  BY <1>1, <1>2, <1>3, <1>4, <1>5 DEF ArrivalOK, AnsweredTruly
<1>7. \A q \in Arrivals \ {r} : ArrivalOK(q)'
  BY <1>3, OtherArrivals
<1>8. QED
  BY <1>3, <1>6, <1>7

LEMMA RespondsKeeps ==
  ASSUME AdmissionInv, NEW r \in Arrivals, NEW code \in Codes, NEW step \in {"answering", "refusing"},
         Responds(r, step, code), step = "refusing" => code = 413, StartsTruly(r, code)
  PROVE  AdmissionInv'
<1> DEFINE a == [arrival[r] EXCEPT !.step = step, !.answers = Append(arrival[r].answers, code)]
<1>1. arrival \in [Arrivals -> ArrivalState] /\ arrival[r] \in ArrivalState
  BY DEF AdmissionInv, AdmissionTypeOK
<1>2. arrival' = [arrival EXCEPT ![r] = a]
  BY <1>1 DEF Responds, ArrivalState
<1>3. Append(arrival[r].answers, code) \in Seq(Codes)
  BY <1>1 DEF ArrivalState
<1>4. /\ a \in ArrivalState /\ a.step = step /\ a.answers = Append(arrival[r].answers, code)
      /\ a.legacy = arrival[r].legacy /\ a.body = arrival[r].body /\ a.client = arrival[r].client
      /\ a.sent = arrival[r].sent
  BY <1>1, <1>3 DEF ArrivalState
<1> HIDE DEF a
<1>5. QED
  BY <1>2, <1>4, AnswerStarts

LEMMA AnswersKeeps ==
  ASSUME AdmissionInv, NEW r \in Arrivals, NEW code \in Codes, Answers(r, code),
         StartsTruly(r, code)
  PROVE  AdmissionInv'
BY RespondsKeeps DEF Answers

\* Any other step of one request.
LEMMA ArrivalMoves ==
  ASSUME AdmissionInv, NEW r \in Arrivals, NEW a \in ArrivalState, arrival' = [arrival EXCEPT ![r] = a],
         UNCHANGED <<enabled, topic, processed>>, ArrivalOK(r)'
  PROVE  AdmissionInv'
<1>1. \A q \in Arrivals \ {r} : arrival'[q] = arrival[q]
  BY DEF AdmissionInv, AdmissionTypeOK
<1>2. \A q \in Arrivals \ {r} : ArrivalOK(q)'
  BY <1>1, OtherArrivals
<1>3. QED
  BY <1>2 DEF AdmissionInv, AdmissionTypeOK

LEMMA SecondAnswer ==
  /\ <<413, 503>> \in Seq(Codes)
  /\ Append(<<413>>, 503) = <<413, 503>>
<1>1. 413 \in Codes /\ 503 \in Codes
  BY DEF Codes
<1> HIDE DEF Codes
<1>2. <<413>> \in Seq(Codes) /\ <<413, 503>> \in Seq(Codes)
  BY <1>1
<1>3. /\ Append(<<413>>, 503) \in Seq(Codes) /\ Len(Append(<<413>>, 503)) = 2
      /\ Append(<<413>>, 503)[1] = 413 /\ Append(<<413>>, 503)[2] = 503
  BY <1>1, <1>2
<1>4. Len(<<413, 503>>) = 2 /\ <<413, 503>>[1] = 413 /\ <<413, 503>>[2] = 503
  OBVIOUS
<1> DEFINE s == Append(<<413>>, 503)
           t == <<413, 503>>
<1>5. s \in Seq(Codes) /\ t \in Seq(Codes) /\ Len(s) = Len(t) /\ \A i \in 1..Len(s) : s[i] = t[i]
  BY <1>2, <1>3, <1>4
<1> HIDE DEF s, t
<1>6. s = t
  BY <1>5
<1>7. QED
  BY <1>2, <1>6 DEF s, t

\* The limit of receiving ends while the refusal is sent.
LEMMA RefusedLateKeeps ==
  ASSUME AdmissionInv, NEW r \in Arrivals, ReceiveTimesOut(r), arrival[r].step = "refusing"
  PROVE  AdmissionInv'
<1> DEFINE second == <<413, 503>>
           a == [arrival[r] EXCEPT !.step = "answering", !.answers = second]
<1>1. /\ arrival \in [Arrivals -> ArrivalState] /\ arrival[r] \in ArrivalState /\ ArrivalOK(r)
      /\ arrival[r].legacy /\ UNCHANGED <<enabled, topic, processed>>
  BY DEF AdmissionInv, AdmissionTypeOK, ReceiveTimesOut, Limited
<1>2. arrival[r].answers = <<413>> /\ r \notin processed /\ ~arrival[r].sent
  BY <1>1 DEF ArrivalOK, TrueAnswer
<1>3. second \in Seq(Codes) /\ Append(arrival[r].answers, 503) = second
  BY <1>2, SecondAnswer
<1>4. RefusedLate(r)' <=> (arrival[r].legacy' /\ arrival'[r].answers = second)
  BY DEF RefusedLate
<1> HIDE DEF second
<1>5. arrival' = [arrival EXCEPT ![r].step = "answering", ![r].answers = Append(arrival[r].answers, 503)]
  BY <1>1 DEF ReceiveTimesOut, Answers, Responds
<1>6. arrival' = [arrival EXCEPT ![r] = a]
  BY <1>1, <1>3, <1>5 DEF ArrivalState
<1>7. /\ a \in ArrivalState /\ a.step = "answering" /\ a.answers = second
      /\ a.legacy = arrival[r].legacy /\ a.sent = arrival[r].sent
  <2>1. arrival[r] \in ArrivalState /\ second \in Seq(Codes)
    BY <1>1, <1>3
  <2>2. QED
    BY <2>1 DEF ArrivalState
<1> HIDE DEF a
<1>8. arrival'[r] = a
  BY <1>1, <1>6
<1>9. AnsweredTruly(r)'
  BY <1>1, <1>2, <1>4, <1>7, <1>8 DEF AnsweredTruly
<1>10. ArrivalOK(r)'
  BY <1>1, <1>2, <1>7, <1>8, <1>9 DEF ArrivalOK
<1>11. QED
  BY <1>1, <1>6, <1>7, <1>10, ArrivalMoves

LEMMA ReceivingKeeps ==
  ASSUME AdmissionInv, NEW r \in Arrivals,
         \/ \E legacy \in BOOLEAN, body \in Bodies, client \in Clients \union {Null} :
              Arrive(r, legacy, body, client)
         \/ ReceiveChunk(r) \/ Disconnect(r) \/ ReceiveTimesOut(r)
  PROVE  AdmissionInv'
<1>1. arrival \in [Arrivals -> ArrivalState] /\ arrival[r] \in ArrivalState /\ ArrivalOK(r)
  BY DEF AdmissionInv, AdmissionTypeOK
<1>2. ASSUME NEW legacy \in BOOLEAN, NEW body \in Bodies, NEW client \in Clients \union {Null},
             Arrive(r, legacy, body, client)
      PROVE  AdmissionInv'
  <2> DEFINE a == [NewArrival EXCEPT !.step = "receiving", !.legacy = legacy, !.body = body, !.client = client]
  <2>1. /\ arrival' = [arrival EXCEPT ![r] = a] /\ UNCHANGED <<enabled, topic, processed>>
        /\ arrival[r].step = "idle"
    BY <1>2 DEF Arrive
  <2>2. 0 \in 0..Limit /\ <<>> \in Seq(Codes)
    BY AdmissionAssumption
  <2>3. NewArrival \in ArrivalState /\ NewArrival.answers = <<>> /\ ~NewArrival.sent
    BY <2>2 DEF NewArrival, ArrivalState
  <2>4. a \in ArrivalState /\ a.step = "receiving" /\ a.answers = <<>> /\ ~a.sent
    BY <2>3 DEF ArrivalState
  <2> HIDE DEF a
  <2>5. ArrivalOK(r)'
    BY <1>1, <2>1, <2>4 DEF ArrivalOK, Unanswered
  <2>6. QED
    BY <2>1, <2>4, <2>5, ArrivalMoves
<1>3. ASSUME NEW code \in {413, 503}, NEW step \in {"answering", "refusing"}, Responds(r, step, code),
             step = "refusing" => code = 413, arrival[r].step = "receiving",
             UNCHANGED <<enabled, topic, processed>>
      PROVE  AdmissionInv'
  <2>1. r \notin processed /\ ~arrival[r].sent /\ code \in Codes
    BY <1>1, <1>3 DEF ArrivalOK, Unanswered, Codes
  <2>2. QED
    BY <1>3, <2>1, RespondsKeeps DEF StartsTruly
<1>4. ASSUME NEW received \in 0..Limit, NEW step \in {"receiving", "handling", "done"},
             arrival' = [arrival EXCEPT ![r] = [@ EXCEPT !.received = received, !.step = step]],
             arrival[r].step = "receiving", step = "handling" => received = arrival[r].body.chunks,
             UNCHANGED <<enabled, topic, processed>>
      PROVE  AdmissionInv'
  <2> DEFINE a == [arrival[r] EXCEPT !.received = received, !.step = step]
  <2>1. arrival' = [arrival EXCEPT ![r] = a]
    BY <1>4
  <2>2. /\ a \in ArrivalState /\ a.step = step /\ a.answers = arrival[r].answers
        /\ a.body = arrival[r].body /\ a.sent = arrival[r].sent
    BY <1>1, <1>4 DEF ArrivalState
  <2> HIDE DEF a
  <2>3. step = "handling" => arrival[r].body.chunks <= Limit
    BY <1>4, AdmissionAssumption
  <2>4. ArrivalOK(r)'
    BY <1>1, <1>4, <2>1, <2>2, <2>3 DEF ArrivalOK, Unanswered
  <2>5. QED
    BY <1>4, <2>1, <2>2, <2>4, ArrivalMoves
<1>5. CASE ReceiveChunk(r) /\ arrival[r].received + 1 > Limit
  BY <1>3, <1>5 DEF ReceiveChunk
<1>6. CASE ReceiveChunk(r) /\ ~(arrival[r].received + 1 > Limit)
  <2> DEFINE step == IF arrival[r].received + 1 = arrival[r].body.chunks THEN "handling" ELSE "receiving"
             received == arrival[r].received + 1
  <2>1. received \in 0..Limit
    BY <1>1, <1>6, AdmissionAssumption DEF ArrivalState
  <2>2. arrival' = [arrival EXCEPT ![r] = [@ EXCEPT !.received = received, !.step = step]]
    BY <1>1, <1>6 DEF ReceiveChunk, ArrivalState
  <2>3. /\ step \in {"receiving", "handling", "done"} /\ (step = "handling" => received = arrival[r].body.chunks)
        /\ arrival[r].step = "receiving" /\ UNCHANGED <<enabled, topic, processed>>
    BY <1>6 DEF ReceiveChunk
  <2> HIDE DEF step, received
  <2>4. QED
    BY <1>4, <2>1, <2>2, <2>3
<1>7. CASE Disconnect(r)
  <2>1. /\ arrival' = [arrival EXCEPT ![r] = [@ EXCEPT !.received = arrival[r].received, !.step = "done"]]
        /\ arrival[r].received \in 0..Limit
    BY <1>1, <1>7 DEF Disconnect, ArrivalState
  <2>2. QED
    BY <1>4, <1>7, <2>1 DEF Disconnect
<1>8. CASE ReceiveTimesOut(r)
  <2>1. CASE arrival[r].step = "receiving"
    BY <1>3, <1>8, <2>1 DEF ReceiveTimesOut, Answers
  <2>2. CASE arrival[r].step = "refusing"
    BY <1>8, <2>2, RefusedLateKeeps
  <2>3. QED
    BY <1>8, <2>1, <2>2 DEF ReceiveTimesOut
<1>9. QED
  BY <1>2, <1>5, <1>6, <1>7, <1>8

\* The outer limit ends: an answer starts, or the one that has is cut off.
LEMMA TimesOutKeeps ==
  ASSUME AdmissionInv, NEW r \in Arrivals, AdmissionTimesOut(r)
  PROVE  AdmissionInv'
<1>1. /\ arrival \in [Arrivals -> ArrivalState] /\ arrival[r] \in ArrivalState /\ ArrivalOK(r)
      /\ ~arrival[r].legacy /\ arrival[r].step \notin {"idle", "done"}
      /\ UNCHANGED <<enabled, topic, processed>>
  BY DEF AdmissionInv, AdmissionTypeOK, AdmissionTimesOut, Limited
<1>2. ASSUME MayAnswer(r), NEW code \in Codes, code = 503 PROVE AdmissionInv'
  <2>1. arrival[r].step \notin {"answering", "refusing"}
    BY <1>1, <1>2 DEF ArrivalOK, AnsweredTruly, RefusedLate, MayAnswer
  <2> DEFINE answers == Append(arrival[r].answers, code)
             a == [arrival[r] EXCEPT !.overdue = TRUE, !.step = "answering", !.answers = answers]
  <2>2. arrival' = [arrival EXCEPT ![r] = a]
    BY <1>1, <1>2 DEF AdmissionTimesOut, ArrivalState
  <2>3. r \notin processed /\ code \notin {200, 202, 401, 404, 409, 413, 422}
    BY <1>1, <1>2 DEF ArrivalOK
  <2>4. answers \in Seq(Codes)
    BY <1>1, <2>3 DEF ArrivalState
  <2> HIDE DEF answers
  <2>5. a \in ArrivalState
    BY <1>1, <2>4 DEF ArrivalState
  <2>6. /\ a.step = "answering" /\ a.answers = answers
        /\ a.legacy = arrival[r].legacy /\ a.body = arrival[r].body /\ a.client = arrival[r].client
        /\ a.sent = arrival[r].sent
    BY <1>1 DEF ArrivalState
  <2> HIDE DEF a
  <2>7. a.answers = Append(arrival[r].answers, code)
    BY <2>6 DEF answers
  <2>8. StartsTruly(r, code)
    BY <1>1, <2>1, <2>3 DEF StartsTruly
  <2>9. QED
    BY <2>2, <2>5, <2>6, <2>7, <2>8, AnswerStarts
<1>3. CASE ~MayAnswer(r)
  <2> DEFINE a == [arrival[r] EXCEPT !.overdue = TRUE, !.step = "done"]
  <2>1. arrival' = [arrival EXCEPT ![r] = a]
    BY <1>1, <1>3 DEF AdmissionTimesOut, ArrivalState
  <2>2. /\ a \in ArrivalState /\ a.step = "done" /\ a.answers = arrival[r].answers /\ a.sent = arrival[r].sent
        /\ a.legacy = arrival[r].legacy /\ a.body = arrival[r].body /\ a.client = arrival[r].client
    BY <1>1 DEF ArrivalState
  <2> HIDE DEF a
  <2>3. arrival'[r] = a
    BY <1>1, <2>1
  <2>4. PICK code \in Codes : arrival[r].answers = <<code>> /\ TrueAnswer(r, code)
    <3>1. arrival[r].step \in {"answering", "refusing"}
      BY <1>1, <1>3 DEF ArrivalOK, Unanswered, MayAnswer
    <3>2. 413 \in Codes
      BY DEF Codes
    <3>3. QED
      BY <1>1, <3>1, <3>2 DEF ArrivalOK, AnsweredTruly, RefusedLate
  <2>5. Message(r)' = Message(r) /\ Sound(r)' = Sound(r)
    BY <2>2, <2>3 DEF Message, Sound, OwnDevice
  <2>6. TrueAnswer(r, code)'
    BY <1>1, <2>2, <2>3, <2>4, <2>5 DEF TrueAnswer
  <2>7. ArrivalOK(r)'
    BY <1>1, <2>2, <2>3, <2>4, <2>5, <2>6 DEF ArrivalOK, AnsweredTruly
  <2>8. QED
    BY <1>1, <2>1, <2>2, <2>7, ArrivalMoves
<1>4. 503 \in Codes
  BY DEF Codes
<1>5. QED
  BY <1>2, <1>3, <1>4

\* accept_batch and process_batch_legacy refuse, or hand the batch on.
LEMMA HandleKeeps ==
  ASSUME AdmissionInv, NEW r \in Arrivals, HandleBatch(r)
  PROVE  AdmissionInv'
<1>1. /\ arrival \in [Arrivals -> ArrivalState] /\ arrival[r] \in ArrivalState /\ ArrivalOK(r) /\ Unanswered(r)
      /\ arrival[r].step = "handling" /\ UNCHANGED <<enabled, topic, processed>>
  BY DEF AdmissionInv, AdmissionTypeOK, HandleBatch, ArrivalOK
<1>2. r \notin processed /\ ~arrival[r].sent /\ arrival[r].body.chunks <= Limit
  BY <1>1 DEF Unanswered
<1>3. ASSUME NEW code \in {401, 404, 422, 503}, Answers(r, code) PROVE AdmissionInv'
  <2>1. code \in Codes
    BY DEF Codes
  <2>2. QED
    BY <1>1, <1>2, <1>3, <2>1, AnswersKeeps DEF StartsTruly
<1>4. ASSUME arrival' = [arrival EXCEPT ![r].step = "processing"], arrival[r].legacy PROVE AdmissionInv'
  <2> DEFINE a == [arrival[r] EXCEPT !.step = "processing"]
  <2>1. arrival' = [arrival EXCEPT ![r] = a]
    BY <1>4
  <2>2. /\ a \in ArrivalState /\ a.step = "processing" /\ a.answers = arrival[r].answers
        /\ a.sent = arrival[r].sent /\ a.legacy = arrival[r].legacy /\ a.body = arrival[r].body
    BY <1>1 DEF ArrivalState
  <2> HIDE DEF a
  <2>3. ArrivalOK(r)'
    BY <1>1, <1>2, <1>4, <2>1, <2>2 DEF ArrivalOK, Unanswered
  <2>4. QED
    BY <1>1, <2>1, <2>2, <2>3, ArrivalMoves
<1>5. ASSUME arrival' = [arrival EXCEPT ![r].step = "publishing", ![r].sent = TRUE],
             ~arrival[r].legacy, OwnDevice(r)
      PROVE  AdmissionInv'
  <2> DEFINE a == [arrival[r] EXCEPT !.step = "publishing", !.sent = TRUE]
  <2>1. arrival' = [arrival EXCEPT ![r] = a]
    BY <1>1, <1>5 DEF ArrivalState
  <2>2. /\ a \in ArrivalState /\ a.step = "publishing" /\ a.answers = arrival[r].answers
        /\ a.sent /\ a.legacy = arrival[r].legacy /\ a.body = arrival[r].body /\ a.client = arrival[r].client
    BY <1>1 DEF ArrivalState
  <2> HIDE DEF a
  <2>3. arrival'[r] = a
    BY <1>1, <2>1
  <2>4. Sound(r)'
    BY <1>2, <1>5, <2>2, <2>3 DEF Sound, OwnDevice
  <2>5. ArrivalOK(r)'
    BY <1>1, <1>2, <1>5, <2>2, <2>3, <2>4 DEF ArrivalOK, Unanswered
  <2>6. QED
    BY <1>1, <2>1, <2>2, <2>5, ArrivalMoves
<1>6. QED
  BY <1>3, <1>4, <1>5 DEF HandleBatch

LEMMA PublishKeeps ==
  ASSUME AdmissionInv, NEW r \in Arrivals, Acknowledged(r) \/ PublishFails(r)
  PROVE  AdmissionInv'
<1>1. /\ ArrivalOK(r) /\ arrival[r].step = "publishing" /\ UNCHANGED <<enabled, topic, processed>>
  BY DEF AdmissionInv, Acknowledged, PublishFails
<1>2. r \notin processed
  BY <1>1 DEF ArrivalOK, Unanswered
<1>3. 202 \in Codes /\ 503 \in Codes
  BY DEF Codes
<1>4. CASE Acknowledged(r)
  BY <1>1, <1>2, <1>3, <1>4, AnswersKeeps DEF StartsTruly, Acknowledged
<1>5. CASE PublishFails(r)
  BY <1>1, <1>2, <1>3, <1>5, AnswersKeeps DEF StartsTruly, PublishFails
<1>6. QED
  BY <1>4, <1>5

\* The message is written, for an answer or for nobody.
LEMMA WrittenKeeps ==
  ASSUME AdmissionInv, NEW r \in Arrivals, TopicWritten(r)
  PROVE  AdmissionInv'
<1>1. UNCHANGED <<enabled, arrival, processed>> /\ topic \subseteq topic'
  BY DEF TopicWritten
<1>2. ASSUME NEW q \in Arrivals PROVE ArrivalOK(q)'
  <2>1. ArrivalOK(q)
    BY DEF AdmissionInv
  <2>2. Message(q)' = Message(q) /\ Sound(q)' = Sound(q)
    BY <1>1 DEF Message, Sound, OwnDevice
  <2>3. \A code : TrueAnswer(q, code) => TrueAnswer(q, code)'
    BY <1>1, <2>2 DEF TrueAnswer
  <2>4. Unanswered(q)' = Unanswered(q)
    BY <1>1 DEF Unanswered
  <2>5. AnsweredTruly(q) => AnsweredTruly(q)'
    BY <1>1, <2>3 DEF AnsweredTruly, RefusedLate
  <2>6. QED
    BY <1>1, <2>1, <2>2, <2>3, <2>4, <2>5 DEF ArrivalOK
<1>3. QED
  BY <1>1, <1>2 DEF AdmissionInv, AdmissionTypeOK

\* The legacy path commits the batch or rolls it back, and answers.
LEMMA LegacyKeeps ==
  ASSUME AdmissionInv, NEW r \in Arrivals, ProcessLegacy(r)
  PROVE  AdmissionInv'
<1>1. ArrivalOK(r) /\ arrival[r].step = "processing" /\ UNCHANGED <<enabled, topic>>
  BY DEF AdmissionInv, ProcessLegacy
<1>2. arrival[r].legacy /\ ~arrival[r].sent /\ r \notin processed /\ arrival[r].body.chunks <= Limit
  BY <1>1 DEF ArrivalOK, Unanswered
<1>3. ASSUME NEW code \in {200, 404, 409, 422, 500, 503}, Answers(r, code),
             processed' \in {processed, processed \union {r}},
             processed' # processed => OwnDevice(r) /\ code \in {200, 500},
             code = 200 => r \in processed'
      PROVE  AdmissionInv'
  <2>1. code \in Codes
    BY DEF Codes
  <2>2. r \in processed' => Sound(r) /\ code \in {200, 500}
    BY <1>2, <1>3 DEF Sound
  <2>3. QED
    BY <1>1, <1>2, <1>3, <2>1, <2>2, AnswersKeeps DEF StartsTruly
<1>4. QED
  BY <1>3 DEF ProcessLegacy, Refusals

LEMMA EndAnswerKeeps ==
  ASSUME AdmissionInv, NEW r \in Arrivals, EndAnswer(r)
  PROVE  AdmissionInv'
<1> DEFINE a == [arrival[r] EXCEPT !.step = "done"]
<1>1. /\ arrival \in [Arrivals -> ArrivalState] /\ arrival[r] \in ArrivalState /\ ArrivalOK(r)
      /\ arrival[r].step \in {"answering", "refusing"} /\ UNCHANGED <<enabled, topic, processed>>
      /\ arrival' = [arrival EXCEPT ![r] = a]
  BY DEF AdmissionInv, AdmissionTypeOK, EndAnswer
<1>2. /\ a \in ArrivalState /\ a.step = "done" /\ a.answers = arrival[r].answers /\ a.sent = arrival[r].sent
      /\ a.legacy = arrival[r].legacy /\ a.body = arrival[r].body /\ a.client = arrival[r].client
  BY <1>1 DEF ArrivalState
<1> HIDE DEF a
<1>3. arrival'[r] = a
  BY <1>1
<1>4. Message(r)' = Message(r) /\ Sound(r)' = Sound(r)
  BY <1>2, <1>3 DEF Message, Sound, OwnDevice
<1>5. \A code : TrueAnswer(r, code) => TrueAnswer(r, code)'
  BY <1>1, <1>2, <1>3, <1>4 DEF TrueAnswer
<1>6. AnsweredTruly(r)'
  <2>1. AnsweredTruly(r)
    BY <1>1 DEF ArrivalOK, AnsweredTruly, Codes
  <2>2. QED
    BY <1>1, <1>2, <1>3, <1>5, <2>1 DEF AnsweredTruly, RefusedLate
<1>7. ArrivalOK(r)'
  BY <1>1, <1>2, <1>3, <1>4, <1>6 DEF ArrivalOK
<1>8. QED
  BY <1>1, <1>2, <1>7, ArrivalMoves

LEMMA AdmissionStepKeeps == AdmissionInv /\ [AdmissionNext]_admissionVars => AdmissionInv'
<1> SUFFICES ASSUME AdmissionInv, [AdmissionNext]_admissionVars PROVE AdmissionInv'
  OBVIOUS
<1>1. ASSUME NEW r \in Arrivals, Admission(r) PROVE AdmissionInv'
  BY <1>1, ReceivingKeeps, TimesOutKeeps, HandleKeeps, PublishKeeps, WrittenKeeps, LegacyKeeps, EndAnswerKeeps
     DEF Admission
<1>2. CASE UNCHANGED admissionVars
  BY <1>2 DEF admissionVars, AdmissionInv, AdmissionTypeOK, ArrivalOK, AnsweredTruly, RefusedLate, Unanswered,
              TrueAnswer, Message, Sound, OwnDevice
<1>3. QED
  BY <1>1, <1>2 DEF AdmissionNext

\* What is started is answered truly, and once but for RefusedLate: the invariant of taking
\* batches in.
THEOREM AdmissionInvariant == AdmissionSpec => []AdmissionInv
<1>1. AdmissionInit => AdmissionInv
  BY AdmissionAssumption DEF AdmissionInit, AdmissionInv, AdmissionTypeOK, ArrivalState, NewArrival, ArrivalOK, Unanswered
<1>2. QED
  BY <1>1, AdmissionStepKeeps, PTL DEF AdmissionSpec

\* What a request with a batch is told is what became of the batch, and it is told once: a
\* second response starts in one case only, after the refusal of a body that is too long on
\* the legacy path (BatchBodyLimitMiddleware, accept_batch, process_batch_legacy).
THEOREM BatchesAreAnsweredTruly == AdmissionSpec => []AnswersAreTrue
<1>1. AdmissionInv => AnswersAreTrue
  <2>1. SUFFICES ASSUME AdmissionInv, NEW r \in Arrivals
                 PROVE  LET answers == arrival[r].answers
                        IN /\ Len(answers) <= 1 \/ RefusedLate(r)
                           /\ answers = <<202>> => Message(r) \in topic
                           /\ answers = <<200>> => r \in processed
                           /\ arrival[r].legacy /\ answers = <<503>> => r \notin processed
                           /\ answers # <<>> /\ answers[1] \in {401, 404, 409, 413, 422}
                                => r \notin processed /\ ~arrival[r].sent
                           /\ r \in processed \/ arrival[r].sent => OwnDevice(r) /\ arrival[r].body.chunks <= Limit
                           /\ arrival[r].step = "done" /\ answers = <<>> => r \notin processed /\ ~arrival[r].sent
    BY DEF AnswersAreTrue
  <2>2. ArrivalOK(r)
    BY <2>1 DEF AdmissionInv
  <2>3. CASE Unanswered(r)
    BY <2>2, <2>3 DEF Unanswered, ArrivalOK, Sound
  <2>4. CASE \E code \in Codes : arrival[r].answers = <<code>> /\ TrueAnswer(r, code)
    <3>1. PICK code \in Codes : arrival[r].answers = <<code>> /\ TrueAnswer(r, code)
      BY <2>4
    <3>2. /\ Len(arrival[r].answers) = 1 /\ arrival[r].answers[1] = code /\ arrival[r].answers # <<>>
          /\ \A other : arrival[r].answers = <<other>> => other = code
      BY <3>1
    <3>3. QED
      BY <2>2, <3>1, <3>2 DEF TrueAnswer, ArrivalOK, Sound
  <2>5. CASE RefusedLate(r) /\ r \notin processed /\ ~arrival[r].sent
    <3>1. /\ arrival[r].answers # <<>> /\ arrival[r].answers[1] = 413
          /\ \A code : arrival[r].answers # <<code>>
      BY <2>5 DEF RefusedLate
    <3>2. QED
      BY <2>5, <3>1
  <2>6. CASE arrival[r].step = "refusing"
    <3>1. 413 \in Codes
      BY DEF Codes
    <3>2. QED
      BY <2>2, <2>4, <2>6, <3>1 DEF ArrivalOK
  <2>7. QED
    BY <2>2, <2>3, <2>4, <2>5, <2>6 DEF ArrivalOK, AnsweredTruly
<1>2. QED
  BY <1>1, AdmissionInvariant, PTL

\* What is sent was accepted, and the topic has what was sent.
SentInv ==
  /\ \A r \in Arrivals : arrival[r].sent => ActivityBatchRequest(arrival[r].body.object)
  /\ \A m \in topic : \E r \in Arrivals : arrival[r].sent /\ m = Message(r)

\* A request whose batch was sent keeps it.
LEMMA SentStays ==
  ASSUME AdmissionInv, NEW r \in Arrivals, Admission(r), NEW q \in Arrivals
  PROVE  /\ arrival[q].sent => /\ arrival'[q].sent /\ arrival'[q].body = arrival[q].body
                               /\ arrival'[q].client = arrival[q].client
         /\ arrival'[q].sent => arrival[q].sent \/ ActivityBatchRequest(arrival'[q].body.object)
<1>1. arrival \in [Arrivals -> ArrivalState] /\ arrival[r] \in ArrivalState /\ ArrivalOK(r)
  BY DEF AdmissionInv, AdmissionTypeOK
<1>2. CASE arrival' = arrival
  BY <1>2
<1>3. ASSUME NEW a, arrival' = [arrival EXCEPT ![r] = a],
             a.sent = arrival[r].sent, a.body = arrival[r].body, a.client = arrival[r].client
      PROVE  arrival'[q].sent = arrival[q].sent /\ arrival'[q].body = arrival[q].body
               /\ arrival'[q].client = arrival[q].client
  BY <1>1, <1>3
<1>4. ASSUME NEW code, NEW step, Responds(r, step, code) PROVE arrival'[q].sent = arrival[q].sent
               /\ arrival'[q].body = arrival[q].body /\ arrival'[q].client = arrival[q].client
  BY <1>1, <1>4 DEF Responds, ArrivalState
<1>5. ASSUME NEW legacy \in BOOLEAN, NEW body \in Bodies, NEW client \in Clients \union {Null},
             Arrive(r, legacy, body, client)
      PROVE  ~arrival[r].sent /\ ~arrival'[r].sent /\ (q # r => arrival'[q] = arrival[q])
  <2>1. ~arrival[r].sent
    BY <1>1, <1>5 DEF Arrive, ArrivalOK, Unanswered
  <2>2. QED
    BY <1>1, <1>5, <2>1 DEF Arrive, NewArrival
<1>6. CASE ReceiveChunk(r) \/ Disconnect(r) \/ ReceiveTimesOut(r)
  <2>1. CASE \E code, step : Responds(r, step, code)
    BY <1>4, <2>1
  <2>2. CASE Disconnect(r)
    BY <1>1, <2>2 DEF Disconnect, ArrivalState
  <2>3. CASE ReceiveChunk(r) /\ ~\E code, step : Responds(r, step, code)
    <3> DEFINE step == IF arrival[r].received + 1 = arrival[r].body.chunks THEN "handling" ELSE arrival[r].step
               a == [arrival[r] EXCEPT !.received = arrival[r].received + 1, !.step = step]
    <3>1. arrival' = [arrival EXCEPT ![r] = a]
      BY <1>1, <2>3 DEF ReceiveChunk, ArrivalState
    <3>2. a.sent = arrival[r].sent /\ a.body = arrival[r].body /\ a.client = arrival[r].client
      BY <1>1 DEF ArrivalState
    <3> HIDE DEF a
    <3>3. QED
      BY <1>3, <3>1, <3>2
  <2>4. QED
    BY <1>6, <2>1, <2>2, <2>3 DEF ReceiveTimesOut, Answers
<1>7. CASE AdmissionTimesOut(r)
  <2> DEFINE step == IF MayAnswer(r) THEN "answering" ELSE "done"
             answers == IF MayAnswer(r) THEN Append(arrival[r].answers, 503) ELSE arrival[r].answers
             a == [arrival[r] EXCEPT !.overdue = TRUE, !.step = step, !.answers = answers]
  <2>1. arrival' = [arrival EXCEPT ![r] = a]
    BY <1>1, <1>7 DEF AdmissionTimesOut, ArrivalState
  <2>2. a.sent = arrival[r].sent /\ a.body = arrival[r].body /\ a.client = arrival[r].client
    BY <1>1 DEF ArrivalState
  <2> HIDE DEF a
  <2>3. QED
    BY <1>3, <2>1, <2>2
<1>8. CASE HandleBatch(r)
  <2>1. CASE \E code : Answers(r, code)
    BY <1>4, <2>1 DEF Answers
  <2>2. CASE ~\E code : Answers(r, code)
    <3>1. /\ ActivityBatchRequest(arrival[r].body.object)
          /\ \/ arrival' = [arrival EXCEPT ![r].step = "processing"]
             \/ arrival' = [arrival EXCEPT ![r].step = "publishing", ![r].sent = TRUE]
      BY <1>8, <2>2 DEF HandleBatch
    <3>2. CASE arrival' = [arrival EXCEPT ![r].step = "processing"]
      BY <1>1, <3>2 DEF ArrivalState
    <3>3. CASE arrival' = [arrival EXCEPT ![r].step = "publishing", ![r].sent = TRUE]
      <4> DEFINE a == [arrival[r] EXCEPT !.step = "publishing", !.sent = TRUE]
      <4>1. arrival' = [arrival EXCEPT ![r] = a]
        BY <1>1, <3>3 DEF ArrivalState
      <4>2. a.sent /\ a.body = arrival[r].body /\ a.client = arrival[r].client
        BY <1>1 DEF ArrivalState
      <4> HIDE DEF a
      <4>3. (q = r => arrival'[q] = a) /\ (q # r => arrival'[q] = arrival[q])
        BY <1>1, <4>1
      <4>4. QED
        BY <3>1, <4>2, <4>3
    <3>4. QED
      BY <3>1, <3>2, <3>3
  <2>3. QED
    BY <2>1, <2>2
<1>9. CASE Acknowledged(r) \/ PublishFails(r) \/ ProcessLegacy(r)
  <2>1. \E code : Answers(r, code)
    BY <1>9 DEF Acknowledged, PublishFails, ProcessLegacy
  <2>2. QED
    BY <1>4, <2>1 DEF Answers
<1>10. CASE TopicWritten(r)
  BY <1>2, <1>10 DEF TopicWritten
<1>11. CASE EndAnswer(r)
  BY <1>1, <1>11 DEF EndAnswer, ArrivalState
<1>12. QED
  BY <1>5, <1>6, <1>7, <1>8, <1>9, <1>10, <1>11 DEF Admission

LEMMA SentStepKeeps == AdmissionInv /\ SentInv /\ [AdmissionNext]_admissionVars => SentInv'
<1> SUFFICES ASSUME AdmissionInv, SentInv, [AdmissionNext]_admissionVars PROVE SentInv'
  OBVIOUS
<1>1. ASSUME NEW r \in Arrivals, Admission(r) PROVE SentInv'
  <2>1. ASSUME NEW q \in Arrivals
        PROVE  /\ arrival[q].sent => /\ arrival'[q].sent /\ arrival'[q].body = arrival[q].body
                                     /\ arrival'[q].client = arrival[q].client
               /\ arrival'[q].sent => arrival[q].sent \/ ActivityBatchRequest(arrival'[q].body.object)
    BY <1>1, SentStays
  <2>2. topic' = topic \/ (arrival[r].sent /\ topic' = topic \union {Message(r)})
    BY <1>1 DEF Admission, Arrive, ReceiveChunk, Disconnect, ReceiveTimesOut, AdmissionTimesOut, HandleBatch,
                TopicWritten, Acknowledged, PublishFails, ProcessLegacy, EndAnswer
  <2>3. ASSUME NEW m \in topic' PROVE \E q \in Arrivals : arrival[q].sent /\ m = Message(q)
    BY <2>2 DEF SentInv
  <2>4. ASSUME NEW m \in topic' PROVE \E q \in Arrivals : arrival'[q].sent /\ m = Message(q)'
    <3>1. PICK q \in Arrivals : arrival[q].sent /\ m = Message(q)
      BY <2>3
    <3>2. arrival'[q].sent /\ Message(q)' = Message(q)
      BY <2>1, <3>1 DEF Message
    <3>3. QED
      BY <3>1, <3>2
  <2>5. ASSUME NEW q \in Arrivals, arrival'[q].sent PROVE ActivityBatchRequest(arrival'[q].body.object)
    BY <2>1, <2>5 DEF SentInv
  <2>6. QED
    BY <2>4, <2>5 DEF SentInv
<1>2. CASE UNCHANGED admissionVars
  BY <1>2 DEF admissionVars, SentInv, Message
<1>3. QED
  BY <1>1, <1>2 DEF AdmissionNext

\* Whatever is published is decoded, as a batch of the same account, and comes out as what the
\* legacy path would have made of the request (from_batch, decode_batch, to_activity_batch):
\* for every body that the request's models accept.
THEOREM PublishedIsDecoded == AdmissionSpec => []DecodedAsSent
<1>1. AdmissionInit => SentInv
  BY DEF AdmissionInit, SentInv, NewArrival
<1>2. SentInv => DecodedAsSent
  <2> SUFFICES ASSUME SentInv PROVE DecodedAsSent
    OBVIOUS
  <2>1. ASSUME NEW r \in Arrivals, arrival[r].sent
        PROVE  /\ Decodes(Message(r)) /\ Parsed(Message(r).value).accountId = arrival[r].client
               /\ ToActivityBatch(Parsed(Message(r).value)) = ActivityBatch(Parsed(arrival[r].body.object))
    <3>1. ActivityBatchRequest(arrival[r].body.object)
      BY <2>1 DEF SentInv
    <3>2. QED
      BY <3>1, RequestTwice DEF Message
  <2>2. QED
    BY <2>1 DEF SentInv, DecodedAsSent
<1>3. QED
  BY <1>1, <1>2, SentStepKeeps, AdmissionInvariant, PTL DEF AdmissionSpec

-----------------------------------------------------------------------------
(* The unit of work *)

\* The rows a transaction works on, and the objects the session has of them.
RowsInv ==
  /\ \A r \in written : rows[r] < MaxVersion
  /\ InTransaction => \A r \in Rows : began[r] <= rows[r] /\ (loaded[r] = -1 \/ loaded[r] >= began[r])

\* The events of the roots.
OfRoots == {e \in 1..MaxEvents : \E r \in Rows : e \in ToSet(pending[r])}

\* Every event is in one place, and there once.
InOnePlace ==
  /\ IsInjective(handled) /\ IsInjective(queue) /\ IsInjective(recorded)
  /\ ToSet(handled) \intersect ToSet(queue) = {} /\ ToSet(handled) \intersect ToSet(recorded) = {}
  /\ ToSet(queue) \intersect ToSet(recorded) = {}
  /\ \A r \in Rows : /\ IsInjective(pending[r]) /\ ToSet(pending[r]) \intersect ToSet(handled) = {}
                     /\ ToSet(pending[r]) \intersect ToSet(queue) = {}
                     /\ ToSet(pending[r]) \intersect ToSet(recorded) = {}
                     /\ \A q \in Rows \ {r} : ToSet(pending[r]) \intersect ToSet(pending[q]) = {}

\* Only a transaction has events, those of its roots among them, and only while it
\* dispatches has it taken any.
EventsInv ==
  /\ IsFiniteSet(tracked)
  /\ \A r \in Rows \ tracked : pending[r] = <<>>
  /\ phase \in {"none", "read"} => recorded = <<>> /\ \A r \in Rows : pending[r] = <<>>
  /\ phase # "dispatch" => queue = <<>>
  /\ InTransaction =>
       /\ raisedNow = ToSet(handled) \union ToSet(queue) \union ToSet(recorded) \union OfRoots
       /\ \A e \in raisedNow : e <= events
       /\ InOnePlace

UnitInv == UnitTypeOK /\ RowsInv /\ EventsInv

LEMMA EmptyEvents ==
  ToSet(<<>>) = {} /\ IsInjective(<<>>)
  BY DEF ToSet, IsInjective

\* A step that leaves every event where it is.
LEMMA EventsRest ==
  ASSUME UnitInv, UNCHANGED <<pending, recorded, queue, raisedNow, handled, events>>,
         phase' = phase \/ (phase = "body" /\ phase' = "dispatch"),
         tracked \subseteq tracked', IsFiniteSet(tracked')
  PROVE  EventsInv'
<1>1. OfRoots' = OfRoots /\ InOnePlace' = InOnePlace
  BY DEF OfRoots, InOnePlace
<1>2. InTransaction' => InTransaction
  BY DEF InTransaction
<1>3. QED
  BY <1>1, <1>2 DEF UnitInv, EventsInv

LEMMA BeginKeeps ==
  ASSUME UnitInv, NEW mode \in {"read", "body"}, Begin(mode)
  PROVE  UnitInv'
<1>1. /\ phase = "none" /\ phase' = mode /\ loaded' = [r \in Rows |-> -1] /\ tracked' = {} /\ written' = {}
      /\ raisedNow' = {} /\ handled' = <<>> /\ began' = rows
      /\ UNCHANGED <<rows, pending, recorded, queue, events, commits>>
  BY DEF Begin, Forget
<1>2. recorded = <<>> /\ queue = <<>> /\ \A r \in Rows : pending[r] = <<>>
  BY <1>1 DEF UnitInv, EventsInv
<1>3. UnitTypeOK'
  <2>1. -1 \in -1..MaxVersion
    BY UnitOfWorkAssumption
  <2>2. loaded' \in [Rows -> -1..MaxVersion] /\ \A S : <<>> \in Seq(S)
    BY <1>1, <2>1
  <2>3. handled' \in Seq(1..MaxEvents)
    BY <1>1, <2>2
  <2>4. /\ rows' \in [Rows -> 0..MaxVersion] /\ began' \in [Rows -> 0..MaxVersion]
        /\ pending' \in [Rows -> Seq(1..MaxEvents)] /\ recorded' \in Seq(1..MaxEvents)
        /\ queue' \in Seq(1..MaxEvents) /\ events' \in 0..MaxEvents /\ commits' \in 0..1
    BY <1>1 DEF UnitInv, UnitTypeOK
  <2>5. tracked' \subseteq Rows /\ written' \subseteq Rows /\ raisedNow' \subseteq 1..MaxEvents
    BY <1>1
  <2>6. phase' \in {"none", "read", "body", "dispatch"}
    BY <1>1
  <2>7. QED
    BY <2>2, <2>3, <2>4, <2>5, <2>6 DEF UnitTypeOK
<1>4. RowsInv'
  BY <1>1 DEF UnitInv, UnitTypeOK, RowsInv
<1>5. OfRoots' = {} /\ InOnePlace'
  BY <1>1, <1>2, EmptyEvents DEF OfRoots, InOnePlace
<1>6. IsFiniteSet(tracked')
  BY <1>1, FS_EmptySet
<1>7. EventsInv'
  BY <1>1, <1>2, <1>5, <1>6, EmptyEvents DEF EventsInv
<1>8. QED
  BY <1>3, <1>4, <1>7 DEF UnitInv

LEMMA LoadKeeps ==
  ASSUME UnitInv, NEW r \in Rows, Load(r)
  PROVE  UnitInv'
<1>1. UnitTypeOK'
  BY DEF UnitInv, UnitTypeOK, Load
<1>2. RowsInv'
  BY DEF UnitInv, UnitTypeOK, RowsInv, Load, InTransaction
<1>3. IsFiniteSet(tracked')
  BY FS_AddElement DEF UnitInv, EventsInv, Load
<1>4. EventsInv'
  BY <1>3, EventsRest DEF Load
<1>5. QED
  BY <1>1, <1>2, <1>4 DEF UnitInv

LEMMA ElsewhereKeeps ==
  ASSUME UnitInv, NEW r \in Rows, Elsewhere(r)
  PROVE  UnitInv'
<1>1. UnitTypeOK'
  <2>1. rows[r] + 1 \in 0..MaxVersion
    BY UnitOfWorkAssumption DEF UnitInv, UnitTypeOK, Elsewhere
  <2>2. QED
    BY <2>1 DEF UnitInv, UnitTypeOK, Elsewhere
<1>2. RowsInv'
  BY DEF UnitInv, UnitTypeOK, RowsInv, Elsewhere, InTransaction
<1>3. EventsInv'
  BY EventsRest DEF Elsewhere, UnitInv, EventsInv
<1>4. QED
  BY <1>1, <1>2, <1>3 DEF UnitInv

LEMMA EndBodyKeeps ==
  ASSUME UnitInv, EndBody
  PROVE  UnitInv'
<1>1. UnitTypeOK' /\ RowsInv'
  BY DEF UnitInv, UnitTypeOK, RowsInv, EndBody, InTransaction
<1>2. EventsInv'
  BY EventsRest DEF EndBody, UnitInv, EventsInv
<1>3. QED
  BY <1>1, <1>2 DEF UnitInv

\* An event is raised that no other has the number of.
LEMMA NewEvent ==
  ASSUME UnitInv, InTransaction, events < MaxEvents
  PROVE  /\ events + 1 \in 1..MaxEvents /\ events + 1 \notin raisedNow
         /\ \A e \in raisedNow : e <= events + 1
<1>1. events \in Nat /\ MaxEvents \in Nat /\ raisedNow \subseteq 1..MaxEvents
  BY UnitOfWorkAssumption DEF UnitInv, UnitTypeOK
<1>2. \A e \in raisedNow : e <= events
  BY DEF UnitInv, EventsInv
<1>3. QED
  BY <1>1, <1>2

LEMMA ChangeKeeps ==
  ASSUME UnitInv, NEW r \in Rows, Change(r)
  PROVE  UnitInv'
<1> DEFINE n == events + 1
           S == 1..MaxEvents
<1>1. /\ phase \in {"body", "dispatch"} /\ InTransaction /\ InTransaction' /\ r \in tracked /\ rows[r] < MaxVersion
      /\ events < MaxEvents /\ written' = written \union {r} /\ events' = n
      /\ pending' = [pending EXCEPT ![r] = Append(pending[r], n)]
      /\ raisedNow' = raisedNow \union {n}
      /\ UNCHANGED <<rows, phase, loaded, tracked, recorded, queue, handled, began, commits>>
  BY DEF Change, InTransaction
<1>2. n \in S /\ n \notin raisedNow /\ \A e \in raisedNow : e <= n
  BY <1>1, NewEvent
<1>3. /\ pending \in [Rows -> Seq(S)] /\ pending[r] \in Seq(S) /\ events \in 0..MaxEvents /\ MaxEvents \in Nat
  BY UnitOfWorkAssumption DEF UnitInv, UnitTypeOK
<1>4. n \in 0..MaxEvents /\ n <= n
  BY <1>1, <1>3
<1> HIDE DEF n, S
<1>5. /\ Append(pending[r], n) \in Seq(S) /\ ToSet(Append(pending[r], n)) = ToSet(pending[r]) \union {n}
      /\ IsInjective(pending[r]) /\ n \notin ToSet(pending[r]) => IsInjective(Append(pending[r], n))
  BY <1>2, <1>3, AppendSet
<1>6. /\ pending' \in [Rows -> Seq(S)] /\ pending'[r] = Append(pending[r], n)
      /\ \A q \in Rows \ {r} : pending'[q] = pending[q]
  BY <1>1, <1>3, <1>5
<1>7. UnitTypeOK'
  BY <1>1, <1>2, <1>4, <1>6 DEF UnitInv, UnitTypeOK, S
<1>8. RowsInv'
  BY <1>1 DEF UnitInv, RowsInv
<1>9. /\ raisedNow = ToSet(handled) \union ToSet(queue) \union ToSet(recorded) \union OfRoots /\ InOnePlace
  BY <1>1 DEF UnitInv, EventsInv
<1>10. OfRoots' = OfRoots \union {n}
  BY <1>2, <1>5, <1>6 DEF OfRoots, S
<1>11. \A q \in Rows : n \notin ToSet(pending[q])
  BY <1>2, <1>9 DEF OfRoots, S
<1>12. n \notin ToSet(handled) /\ n \notin ToSet(queue) /\ n \notin ToSet(recorded)
  BY <1>2, <1>9
<1>13. InOnePlace'
  BY <1>1, <1>5, <1>6, <1>9, <1>11, <1>12 DEF InOnePlace
<1>14. EventsInv'
  BY <1>1, <1>2, <1>4, <1>6, <1>9, <1>10, <1>13 DEF UnitInv, EventsInv
<1>15. QED
  BY <1>7, <1>8, <1>14 DEF UnitInv

LEMMA RecordKeeps ==
  ASSUME UnitInv, RecordEvent
  PROVE  UnitInv'
<1> DEFINE n == events + 1
           S == 1..MaxEvents
<1>1. /\ phase \in {"body", "dispatch"} /\ InTransaction /\ InTransaction' /\ events < MaxEvents /\ events' = n
      /\ recorded' = Append(recorded, n) /\ raisedNow' = raisedNow \union {n}
      /\ UNCHANGED <<rows, phase, loaded, tracked, written, pending, queue, handled, began, commits>>
  BY DEF RecordEvent, InTransaction
<1>2. n \in S /\ n \notin raisedNow /\ \A e \in raisedNow : e <= n
  BY <1>1, NewEvent
<1>3. recorded \in Seq(S) /\ events \in 0..MaxEvents /\ MaxEvents \in Nat
  BY UnitOfWorkAssumption DEF UnitInv, UnitTypeOK
<1>4. n \in 0..MaxEvents /\ n <= n
  BY <1>1, <1>3
<1> HIDE DEF n, S
<1>5. /\ Append(recorded, n) \in Seq(S) /\ ToSet(Append(recorded, n)) = ToSet(recorded) \union {n}
      /\ IsInjective(recorded) /\ n \notin ToSet(recorded) => IsInjective(Append(recorded, n))
  BY <1>2, <1>3, AppendSet
<1>6. UnitTypeOK'
  BY <1>1, <1>2, <1>4, <1>5 DEF UnitInv, UnitTypeOK, S
<1>7. RowsInv'
  BY <1>1 DEF UnitInv, RowsInv
<1>8. raisedNow = ToSet(handled) \union ToSet(queue) \union ToSet(recorded) \union OfRoots /\ InOnePlace
  BY <1>1 DEF UnitInv, EventsInv
<1>9. OfRoots' = OfRoots
  BY <1>1 DEF OfRoots
<1>10. \A q \in Rows : n \notin ToSet(pending[q])
  BY <1>2, <1>8 DEF OfRoots, S
<1>11. n \notin ToSet(handled) /\ n \notin ToSet(queue) /\ n \notin ToSet(recorded)
  BY <1>2, <1>8
<1>12. InOnePlace'
  BY <1>1, <1>5, <1>8, <1>10, <1>11 DEF InOnePlace
<1>13. EventsInv'
  BY <1>1, <1>2, <1>4, <1>5, <1>8, <1>9, <1>12 DEF UnitInv, EventsInv
<1>14. QED
  BY <1>6, <1>7, <1>13 DEF UnitInv

\* The events that are taken are those of the roots and the recorded ones, each once.
LEMMA TakenEvents ==
  ASSUME UnitInv, InTransaction
  PROVE  /\ Taken \in Seq(1..MaxEvents) /\ ToSet(Taken) = OfRoots \union ToSet(recorded)
         /\ IsInjective(Taken)
<1> DEFINE S == 1..MaxEvents
           n == Cardinality(tracked)
           roots == SetToSeq(tracked)
           seqs == [i \in 1..n |-> pending[roots[i]]]
<1>1. /\ pending \in [Rows -> Seq(S)] /\ recorded \in Seq(S) /\ tracked \subseteq Rows /\ InOnePlace
      /\ IsFiniteSet(tracked) /\ \A r \in Rows \ tracked : pending[r] = <<>>
  BY DEF UnitInv, UnitTypeOK, EventsInv
<1>2. /\ n \in Nat /\ roots \in [1..n -> tracked] /\ IsInjective(roots)
      /\ \A r \in tracked : \E i \in 1..n : roots[i] = r
  BY <1>1, SequenceOfSet
<1> HIDE DEF n, S, roots
<1>3. \A i \in 1..n : roots[i] \in Rows /\ pending[roots[i]] \in Seq(S)
  BY <1>1, <1>2
<1>4. /\ seqs \in Seq(Seq(S)) /\ Len(seqs) = n /\ \A i \in 1..n : seqs[i] = pending[roots[i]]
  BY <1>2, <1>3
<1>5. Taken = FlattenSeq(seqs) \o recorded
  BY DEF Taken, n, roots
<1> HIDE DEF seqs
<1>6. \A i, j \in 1..n : i # j => roots[i] # roots[j]
  BY <1>2 DEF IsInjective
<1>7. ASSUME NEW i \in 1..n, NEW j \in 1..n, i # j PROVE ToSet(seqs[i]) \intersect ToSet(seqs[j]) = {}
  <2>1. roots[i] \in Rows /\ roots[j] \in Rows \ {roots[i]}
    BY <1>3, <1>6, <1>7
  <2>2. ToSet(pending[roots[i]]) \intersect ToSet(pending[roots[j]]) = {}
    BY <1>1, <2>1 DEF InOnePlace
  <2>3. QED
    BY <1>4, <2>2
<1>8. Apart(seqs)
  BY <1>1, <1>3, <1>4, <1>7 DEF InOnePlace, Apart
<1>9. /\ FlattenSeq(seqs) \in Seq(S) /\ IsInjective(FlattenSeq(seqs))
      /\ \A x : x \in ToSet(FlattenSeq(seqs)) <=> \E i \in 1..n : x \in ToSet(pending[roots[i]])
  <2>1. /\ FlattenSeq(seqs) \in Seq(S) /\ IsInjective(FlattenSeq(seqs))
        /\ \A x : x \in ToSet(FlattenSeq(seqs)) <=> \E i \in 1..Len(seqs) : x \in ToSet(seqs[i])
    BY <1>4, <1>8, FlattenedSet
  <2>2. QED
    BY <1>4, <2>1
<1>10. \A r \in Rows : ToSet(pending[r]) \subseteq S
  BY <1>1 DEF ToSet
<1>11. ToSet(FlattenSeq(seqs)) = OfRoots
  <2>1. ASSUME NEW e \in OfRoots PROVE \E i \in 1..n : e \in ToSet(pending[roots[i]])
    <3>1. PICK r \in Rows : e \in ToSet(pending[r])
      BY <2>1 DEF OfRoots
    <3>2. r \in tracked
      BY <1>1, <3>1, EmptyEvents
    <3>3. QED
      BY <1>2, <3>1, <3>2
  <2>2. ASSUME NEW i \in 1..n, NEW e \in ToSet(pending[roots[i]]) PROVE e \in OfRoots
    BY <1>3, <1>10 DEF OfRoots, S
  <2>3. QED
    BY <1>9, <2>1, <2>2
<1>12. OfRoots \intersect ToSet(recorded) = {}
  BY <1>1 DEF OfRoots, InOnePlace
<1>13. QED
  BY <1>1, <1>5, <1>9, <1>11, <1>12, ConcatSet DEF InOnePlace, S

LEMMA TakeKeeps ==
  ASSUME UnitInv, Take
  PROVE  UnitInv'
<1>1. /\ phase = "dispatch" /\ InTransaction /\ InTransaction' /\ queue = <<>> /\ queue' = Taken /\ recorded' = <<>>
      /\ pending' = [r \in Rows |-> IF r \in tracked THEN <<>> ELSE pending[r]]
      /\ UNCHANGED <<rows, phase, loaded, tracked, written, raisedNow, handled, events, began, commits>>
  BY DEF Take, InTransaction
<1>2. /\ Taken \in Seq(1..MaxEvents) /\ ToSet(Taken) = OfRoots \union ToSet(recorded) /\ IsInjective(Taken)
  BY <1>1, TakenEvents
<1>3. /\ raisedNow = ToSet(handled) \union ToSet(queue) \union ToSet(recorded) \union OfRoots /\ InOnePlace
      /\ \A r \in Rows \ tracked : pending[r] = <<>>
  BY <1>1 DEF UnitInv, EventsInv
<1>4. \A r \in Rows : pending'[r] = <<>>
  BY <1>1, <1>3
<1>5. pending' \in [Rows -> Seq(1..MaxEvents)]
  <2>1. pending' = [r \in Rows |-> <<>>] /\ \A S : <<>> \in Seq(S)
    BY <1>1, <1>4
  <2>2. QED
    BY <2>1
<1>6. UnitTypeOK'
  BY <1>1, <1>2, <1>5 DEF UnitInv, UnitTypeOK
<1>7. RowsInv'
  BY <1>1 DEF UnitInv, RowsInv
<1>8. OfRoots' = {}
  BY <1>4, EmptyEvents DEF OfRoots
<1>9. ToSet(handled) \intersect OfRoots = {}
  BY <1>3 DEF InOnePlace, OfRoots
<1>10. InOnePlace'
  BY <1>1, <1>2, <1>3, <1>4, <1>9, EmptyEvents DEF InOnePlace
<1>11. EventsInv'
  BY <1>1, <1>2, <1>3, <1>4, <1>8, <1>10, EmptyEvents DEF UnitInv, EventsInv
<1>12. QED
  BY <1>6, <1>7, <1>11 DEF UnitInv

LEMMA HandleEventKeeps ==
  ASSUME UnitInv, Handle
  PROVE  UnitInv'
<1> DEFINE S == 1..MaxEvents
<1>1. /\ phase = "dispatch" /\ InTransaction /\ InTransaction' /\ queue # <<>>
      /\ handled' = Append(handled, Head(queue)) /\ queue' = Tail(queue)
      /\ UNCHANGED <<rows, phase, loaded, tracked, written, pending, recorded, raisedNow, events, began, commits>>
  BY DEF Handle, InTransaction
<1>2. queue \in Seq(S) /\ handled \in Seq(S)
  BY DEF UnitInv, UnitTypeOK
<1>3. /\ raisedNow = ToSet(handled) \union ToSet(queue) \union ToSet(recorded) \union OfRoots /\ InOnePlace
  BY <1>1 DEF UnitInv, EventsInv
<1> HIDE DEF S
<1>4. /\ Head(queue) \in S /\ Tail(queue) \in Seq(S) /\ ToSet(queue) = {Head(queue)} \union ToSet(Tail(queue))
      /\ IsInjective(Tail(queue)) /\ Head(queue) \notin ToSet(Tail(queue))
  BY <1>1, <1>2, <1>3, HeadTailSet DEF InOnePlace
<1>5. Head(queue) \notin ToSet(handled)
  BY <1>3, <1>4 DEF InOnePlace
<1>6. /\ handled' \in Seq(S) /\ ToSet(handled') = ToSet(handled) \union {Head(queue)} /\ IsInjective(handled')
  BY <1>1, <1>2, <1>3, <1>4, <1>5, AppendSet DEF InOnePlace
<1>7. UnitTypeOK'
  BY <1>1, <1>4, <1>6 DEF UnitInv, UnitTypeOK, S
<1>8. RowsInv'
  BY <1>1 DEF UnitInv, RowsInv
<1>9. OfRoots' = OfRoots
  BY <1>1 DEF OfRoots
<1>10. InOnePlace'
  BY <1>1, <1>3, <1>4, <1>6 DEF InOnePlace
<1>11. EventsInv'
  BY <1>1, <1>3, <1>4, <1>6, <1>9, <1>10 DEF UnitInv, EventsInv
<1>12. QED
  BY <1>7, <1>8, <1>11 DEF UnitInv

LEMMA CommitUnitKeeps ==
  ASSUME UnitInv, CommitUnit
  PROVE  UnitInv'
<1>1. /\ phase = "dispatch" /\ Emptied /\ phase' = "none" /\ written' = {}
      /\ rows' = [r \in Rows |-> IF r \in written THEN rows[r] + 1 ELSE rows[r]]
      /\ loaded' = [r \in Rows |-> IF r \in written THEN rows[r] + 1 ELSE loaded[r]]
      /\ commits' = (commits + 1) % 2
      /\ UNCHANGED <<tracked, pending, recorded, queue, raisedNow, handled, events, began>>
  BY DEF CommitUnit
<1>2. \A r \in written : rows[r] \in 0..MaxVersion /\ rows[r] < MaxVersion
  BY DEF UnitInv, UnitTypeOK, RowsInv
<1>3. \A r \in written : rows[r] + 1 \in 0..MaxVersion /\ rows[r] + 1 \in -1..MaxVersion
  BY <1>2, UnitOfWorkAssumption
<1>4. rows' \in [Rows -> 0..MaxVersion] /\ loaded' \in [Rows -> -1..MaxVersion]
  BY <1>1, <1>3 DEF UnitInv, UnitTypeOK
<1>5. commits' \in 0..1
  BY <1>1 DEF UnitInv, UnitTypeOK
<1>6. UnitTypeOK'
  BY <1>1, <1>4, <1>5 DEF UnitInv, UnitTypeOK
<1>7. RowsInv' /\ ~InTransaction'
  BY <1>1 DEF RowsInv, InTransaction
<1>8. recorded = <<>> /\ queue = <<>> /\ \A r \in Rows : pending[r] = <<>>
  BY <1>1 DEF Emptied, Pending, UnitInv, EventsInv
<1>9. EventsInv'
  BY <1>1, <1>7, <1>8 DEF UnitInv, EventsInv
<1>10. QED
  BY <1>6, <1>7, <1>9 DEF UnitInv

LEMMA DropKeeps ==
  ASSUME UnitInv, RollBack \/ EndRead
  PROVE  UnitInv'
<1>1. /\ phase' = "none" /\ recorded' = <<>>
      /\ pending' = [r \in Rows |-> IF r \in tracked THEN <<>> ELSE pending[r]]
      /\ queue' = <<>> /\ written' \in {{}, written} /\ loaded' \in {loaded, [r \in Rows |-> -1]}
      /\ UNCHANGED <<rows, tracked, raisedNow, handled, events, began, commits>>
  BY DEF RollBack, EndRead, Discarded, UnitInv, EventsInv
<1>2. \A r \in Rows : pending'[r] = <<>>
  BY <1>1 DEF UnitInv, EventsInv
<1>3. /\ pending' \in [Rows -> Seq(1..MaxEvents)] /\ recorded' \in Seq(1..MaxEvents) /\ queue' \in Seq(1..MaxEvents)
  <2>1. pending' = [r \in Rows |-> <<>>] /\ \A S : <<>> \in Seq(S)
    BY <1>1, <1>2
  <2>2. QED
    BY <1>1, <2>1
<1>4. -1 \in -1..MaxVersion
  BY UnitOfWorkAssumption
<1>5. loaded' \in [Rows -> -1..MaxVersion]
  BY <1>1, <1>4 DEF UnitInv, UnitTypeOK
<1>6. UnitTypeOK'
  BY <1>1, <1>3, <1>5 DEF UnitInv, UnitTypeOK
<1>7. RowsInv' /\ ~InTransaction'
  BY <1>1 DEF UnitInv, RowsInv, InTransaction
<1>8. EventsInv'
  BY <1>1, <1>2, <1>7 DEF UnitInv, EventsInv
<1>9. QED
  BY <1>6, <1>7, <1>8 DEF UnitInv

LEMMA UnitStepKeeps == UnitInv /\ [UnitNext]_unitVars => UnitInv'
<1> SUFFICES ASSUME UnitInv, [UnitNext]_unitVars PROVE UnitInv'
  OBVIOUS
<1>1. CASE UnitNext
  BY <1>1, BeginKeeps, LoadKeeps, ChangeKeeps, ElsewhereKeeps, RecordKeeps, EndBodyKeeps, TakeKeeps,
     HandleEventKeeps, CommitUnitKeeps, DropKeeps DEF UnitNext
<1>2. CASE UNCHANGED unitVars
  <2>1. UnitTypeOK' /\ RowsInv'
    BY <1>2 DEF unitVars, UnitInv, UnitTypeOK, RowsInv, InTransaction
  <2>2. EventsInv'
    BY <1>2, EventsRest DEF unitVars, UnitInv, EventsInv
  <2>3. QED
    BY <2>1, <2>2 DEF UnitInv
<1>3. QED
  BY <1>1, <1>2

\* What a transaction has loaded and which events it still owes: the unit of work's invariant.
THEOREM UnitInvariant == UnitSpec => []UnitInv
<1>1. UnitInit => UnitInv
  <2> SUFFICES ASSUME UnitInit PROVE UnitInv
    OBVIOUS
  <2>1. -1 \in -1..MaxVersion /\ 0 \in 0..MaxVersion /\ 0 \in 0..MaxEvents
    BY UnitOfWorkAssumption
  <2>2. rows \in [Rows -> 0..MaxVersion] /\ loaded \in [Rows -> -1..MaxVersion] /\ pending \in [Rows -> Seq(1..MaxEvents)]
    BY <2>1 DEF UnitInit
  <2>3. UnitTypeOK
    BY <2>1, <2>2 DEF UnitInit, UnitTypeOK
  <2>4. RowsInv /\ EventsInv
    BY FS_EmptySet DEF UnitInit, RowsInv, EventsInv, InTransaction
  <2>5. QED
    BY <2>3, <2>4 DEF UnitInv
<1>2. QED
  BY <1>1, UnitStepKeeps, PTL DEF UnitSpec

\* The unit of work's state has its shape.
THEOREM UnitTypeCorrect == UnitSpec => []UnitTypeOK
<1>1. UnitInv => UnitTypeOK
  BY DEF UnitInv
<1>2. QED
  BY <1>1, UnitInvariant, PTL

\* A transaction never works on a row as it was before the transaction began: the session
\* forgets what an earlier one loaded (reset_session).
THEOREM ReadsAreFresh == UnitSpec => []FreshReads
<1>1. UnitInv => FreshReads
  BY DEF UnitInv, RowsInv, FreshReads
<1>2. QED
  BY <1>1, UnitInvariant, PTL

\* What commits has had each of its events handled, and handled once (_dispatch_until_empty).
THEOREM EventsAreHandled == UnitSpec => EventsHandledBeforeCommit
<1>1. ASSUME UnitInv, UnitNext, commits' # commits
      PROVE  ToSet(handled) = raisedNow /\ Len(handled) = Cardinality(raisedNow)
  <2>1. CommitUnit
    BY <1>1 DEF UnitNext, Begin, Load, Change, Elsewhere, RecordEvent, EndBody, Take, Handle, RollBack, EndRead
  <2>2. InTransaction /\ recorded = <<>> /\ queue = <<>> /\ \A r \in Rows : pending[r] = <<>>
    BY <1>1, <2>1 DEF CommitUnit, Emptied, Pending, InTransaction, UnitInv, EventsInv
  <2>3. OfRoots = {}
    BY <2>2, EmptyEvents DEF OfRoots
  <2>4. ToSet(handled) = raisedNow /\ IsInjective(handled)
    BY <1>1, <2>2, <2>3, EmptyEvents DEF UnitInv, EventsInv, InOnePlace
  <2>5. handled \in Seq(1..MaxEvents)
    BY <1>1 DEF UnitInv, UnitTypeOK
  <2>6. Len(handled) = Cardinality(ToSet(handled))
    BY <2>4, <2>5, LengthOfInjective
  <2>7. QED
    BY <2>4, <2>6
<1>2. UnitInv /\ [UnitNext]_unitVars
        => [commits' # commits => ToSet(handled) = raisedNow /\ Len(handled) = Cardinality(raisedNow)]_unitVars
  BY <1>1
<1>3. QED
  BY <1>2, UnitInvariant, PTL DEF UnitSpec, EventsHandledBeforeCommit

-----------------------------------------------------------------------------
(* All the components together *)

\* A behaviour of the API's requests is one of each component.
LEMMA EachComponent ==
  Spec => SignInSpec /\ UnitSpec /\ FocusSpec /\ ConfirmSpec /\ AdmissionSpec /\ DeviceSpec
<1>1. Init => SignInInit /\ UnitInit /\ FocusInit /\ ConfirmInit /\ AdmissionInit /\ DeviceInit
  BY DEF Init
<1>2. [Next]_vars => [SignInNext]_signInVars /\ [UnitNext]_unitVars /\ [FocusNext]_focusVars
  BY DEF Next, vars
<1>3. [Next]_vars => [ConfirmNext]_confirmVars /\ [AdmissionNext]_admissionVars /\ [DeviceNext]_deviceVars
  BY DEF Next, vars
<1>4. QED
  BY <1>1, <1>2, <1>3, PTL DEF Spec, SignInSpec, UnitSpec, FocusSpec, ConfirmSpec, AdmissionSpec, DeviceSpec

\* Whichever component runs, its state has its shape.
THEOREM RequestsTypeCorrect == Spec => []TypeOK
<1>1. /\ SignInTypeOK /\ UnitTypeOK /\ FocusTypeOK /\ ConfirmTypeOK /\ AdmissionInv /\ DeviceInv
      => TypeOK
  BY DEF TypeOK, AdmissionInv, DeviceInv
<1>2. QED
  BY <1>1, EachComponent, SignInTypeCorrect, UnitTypeCorrect, FocusTypeCorrect, ConfirmTypeCorrect,
     AdmissionInvariant, DeviceInvariant, PTL

\* Repeating a request whose answer was lost is safe: a focus session is answered as before, and
\* a registration names the device that the first one registered.
THEOREM RepeatsAreSafe == Spec => []RepeatsAnsweredAlike
<1>1. AnswersStand /\ OneDevicePerKey => RepeatsAnsweredAlike
  BY DEF RepeatsAnsweredAlike
<1>2. QED
  BY <1>1, EachComponent, FocusAnswersStand, RepeatsNameOneDevice, PTL
=============================================================================
