--------------------------- MODULE BatchAdmission ---------------------------
(***************************************************************************)
(* How the API answers a request with a batch: the body is received up to  *)
(* a limit and within a time, then parsed; the batch is published, or on   *)
(* the legacy path processed (entrypoints/api/middleware.py,               *)
(* activity_batches.py, observation/presentation/activities/router.py).    *)
(*                                                                         *)
(* A time limit may end at any moment: clocks are left out, but for this:  *)
(* where the batch is published, the limit of receiving lies within an     *)
(* outer one of the same length that began before, and never ends first.   *)
(***************************************************************************)
EXTENDS ActivityContract, FiniteSets

CONSTANTS
  Arrivals,   \* requests
  Bodies,     \* what they may bring: an object and its chunks, white space and all
  Limit,      \* chunks of a body that are accepted
  Clients,    \* accounts of the requests' tokens; Null is no valid token
  DeviceOwner \* the account of each device

ASSUME AdmissionAssumption == Limit \in Nat /\ Null \notin DOMAIN DeviceOwner

VARIABLES
  enabled,   \* BATCH_ENABLED: a publisher exists while the API serves
  arrival,   \* each request
  topic,     \* messages the broker has written
  processed     \* requests whose batch is committed

admissionVars == <<enabled, arrival, topic, processed>>

Codes == {200, 202, 401, 404, 409, 413, 422, 500, 503}

\* Answers are the responses that have started.  `overdue`: the outer limit has ended.
\* "refusing": a body that is too long is answered for, still within the limit of receiving.
ArrivalState ==
  [step : {"idle", "receiving", "refusing", "handling", "publishing", "processing", "answering", "done"},
   legacy : BOOLEAN, body : Bodies \union {Null}, client : Clients \union {Null},
   received : 0..Limit, sent : BOOLEAN, answers : Seq(Codes), overdue : BOOLEAN]

NewArrival ==
  [step |-> "idle", legacy |-> FALSE, body |-> Null, client |-> Null, received |-> 0,
   sent |-> FALSE, answers |-> <<>>, overdue |-> FALSE]

AdmissionInit ==
  /\ enabled \in BOOLEAN
  /\ arrival = [r \in Arrivals |-> NewArrival]
  /\ topic = {} /\ processed = {}

Message(r) == Published(arrival[r].client, Parsed(arrival[r].body.object))

-----------------------------------------------------------------------------
Arrive(r, legacy, body, client) ==
  /\ arrival[r].step = "idle"
  /\ arrival' = [arrival EXCEPT ![r] = [NewArrival EXCEPT
       !.step = "receiving", !.legacy = legacy, !.body = body, !.client = client]]
  /\ UNCHANGED <<enabled, topic, processed>>

\* The response starts; its end is sent later.
Responds(r, step, code) ==
  arrival' = [arrival EXCEPT ![r].step = step, ![r].answers = Append(@, code)]

Answers(r, code) == Responds(r, "answering", code)

\* _bounded_request: a chunk that would pass the limit is answered for and not kept.
ReceiveChunk(r) ==
  /\ arrival[r].step = "receiving"
  /\ IF arrival[r].received + 1 > Limit
     THEN Responds(r, "refusing", 413)
     ELSE arrival' = [arrival EXCEPT ![r].received = @ + 1,
            ![r].step = IF arrival[r].received + 1 = arrival[r].body.chunks THEN "handling" ELSE @]
  /\ UNCHANGED <<enabled, topic, processed>>

\* The client goes away before the body's end: there is no one to answer.
Disconnect(r) ==
  /\ arrival[r].step = "receiving"
  /\ arrival' = [arrival EXCEPT ![r].step = "done"]
  /\ UNCHANGED <<enabled, topic, processed>>

\* Only what waits for Kafka is given up: processing may take longer.
Limited(r) == ~arrival[r].legacy

\* The limit of receiving the body, which is that of refusing it too: nothing asks here
\* whether a response has started.  A request with the outer limit is ended by that one.
ReceiveTimesOut(r) ==
  /\ ~Limited(r)
  /\ arrival[r].step \in {"receiving", "refusing"}
  /\ Answers(r, 503)
  /\ UNCHANGED <<enabled, topic, processed>>

\* Mutant of MayAnswer: whatever has started already.
MayAnswerAlways(r) == TRUE

\* response_started
MayAnswer(r) == arrival[r].answers = <<>>

\* The outer limit: what runs is cancelled; an answer that has started stays as it is.
AdmissionTimesOut(r) ==
  /\ Limited(r) /\ ~arrival[r].overdue
  /\ arrival[r].step \notin {"idle", "done"}
  /\ arrival' = [arrival EXCEPT ![r].overdue = TRUE,
       ![r].step = IF MayAnswer(r) THEN "answering" ELSE "done",
       ![r].answers = IF MayAnswer(r) THEN Append(@, 503) ELSE @]
  /\ UNCHANGED <<enabled, topic, processed>>

OwnDevice(r) == DeviceOwner[arrival[r].body.object.deviceId] = arrival[r].client

\* accept_batch and process_batch_legacy, up to what may take long; nothing has changed yet.
HandleBatch(r) ==
  /\ arrival[r].step = "handling"
  /\ CASE arrival[r].client = Null -> Answers(r, 401)
       [] arrival[r].client # Null /\ ~ActivityBatchRequest(arrival[r].body.object) -> Answers(r, 422)
       [] OTHER ->
            IF arrival[r].legacy THEN arrival' = [arrival EXCEPT ![r].step = "processing"]
            ELSE IF ~OwnDevice(r) THEN Answers(r, 404)
            ELSE IF ~enabled THEN Answers(r, 503)
            ELSE arrival' = [arrival EXCEPT ![r].step = "publishing", ![r].sent = TRUE]
  /\ UNCHANGED <<enabled, topic, processed>>

\* What was sent is written, whether anyone still waits for it or not.
TopicWritten(r) ==
  /\ arrival[r].sent
  /\ topic' = topic \union {Message(r)} /\ topic' # topic
  /\ UNCHANGED <<enabled, arrival, processed>>

Acknowledged(r) ==
  /\ arrival[r].step = "publishing" /\ Message(r) \in topic
  /\ Answers(r, 202)
  /\ UNCHANGED <<enabled, topic, processed>>

\* DeliveryUnavailableError: the acknowledgment's own limit, or a refusal.
PublishFails(r) ==
  /\ arrival[r].step = "publishing"
  /\ Answers(r, 503)
  /\ UNCHANGED <<enabled, topic, processed>>

\* What makes ProcessLegacyActivityBatch roll back, and its answer (TERMINAL_BATCH_ERRORS)
Refusals == {503, 404, 409, 422}

ProcessLegacy(r) ==
  /\ arrival[r].step = "processing"
  /\ \/ OwnDevice(r) /\ processed' = processed \union {r} /\ Answers(r, 200)
     \/ processed' = processed /\ \E code \in IF OwnDevice(r) THEN Refusals ELSE {404, 503} : Answers(r, code)
     \/ processed' \in {processed} \union (IF OwnDevice(r) THEN {processed \union {r}} ELSE {}) /\ Answers(r, 500)
  /\ UNCHANGED <<enabled, topic>>

EndAnswer(r) ==
  /\ arrival[r].step \in {"answering", "refusing"}
  /\ arrival' = [arrival EXCEPT ![r].step = "done"]
  /\ UNCHANGED <<enabled, topic, processed>>

Admission(r) ==
  \/ \E legacy \in BOOLEAN, body \in Bodies, client \in Clients \union {Null} :
       Arrive(r, legacy, body, client)
  \/ ReceiveChunk(r) \/ Disconnect(r) \/ ReceiveTimesOut(r) \/ AdmissionTimesOut(r)
  \/ HandleBatch(r) \/ TopicWritten(r) \/ Acknowledged(r) \/ PublishFails(r)
  \/ ProcessLegacy(r) \/ EndAnswer(r)

AdmissionNext == \E r \in Arrivals : Admission(r)

AdmissionSpec == AdmissionInit /\ [][AdmissionNext]_admissionVars

-----------------------------------------------------------------------------
(* Properties *)

\* The shape of the state.
AdmissionTypeOK ==
  /\ enabled \in BOOLEAN
  /\ arrival \in [Arrivals -> ArrivalState]
  /\ processed \subseteq Arrivals

\* The one second response there is: on the legacy path, a body that is too long was being
\* refused when its time ended (_bounded_request).
RefusedLate(r) == arrival[r].legacy /\ arrival[r].answers = <<413, 503>>

\* No second response starts, whichever limit ends while the first is sent, but for
\* RefusedLate; and what a request is told is true: 202 of a batch that Kafka has, 503 on
\* the legacy path of one that was not stored, an error in the request of one that went
\* nowhere, and no part of a body that is too long goes anywhere
\* (BatchBodyLimitMiddleware, accept_batch, process_batch_legacy).
AnswersAreTrue ==
  \A r \in Arrivals :
    LET answers == arrival[r].answers
    IN /\ Len(answers) <= 1 \/ RefusedLate(r)
       /\ answers = <<202>> => Message(r) \in topic
       /\ answers = <<200>> => r \in processed
       /\ arrival[r].legacy /\ answers = <<503>> => r \notin processed
       /\ answers # <<>> /\ answers[1] \in {401, 404, 409, 413, 422} => r \notin processed /\ ~arrival[r].sent
       /\ r \in processed \/ arrival[r].sent => OwnDevice(r) /\ arrival[r].body.chunks <= Limit
       /\ arrival[r].step = "done" /\ answers = <<>> => r \notin processed /\ ~arrival[r].sent

\* Whatever the API takes for a batch and publishes, a consumer accepts, as a batch of the
\* same account, and makes of it what the legacy path would have made of the request: the
\* same records to the microsecond, under one fingerprint (to_activity_batch).
DecodedAsSent ==
  /\ \A m \in topic : Decodes(m)
  /\ \A r \in Arrivals : arrival[r].sent =>
       LET message == Parsed(Message(r).value)
       IN /\ message.accountId = arrival[r].client
          /\ ToActivityBatch(message) = ActivityBatch(Parsed(arrival[r].body.object))
=============================================================================
