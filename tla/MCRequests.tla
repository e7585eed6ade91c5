----------------------------- MODULE MCRequests -----------------------------
(* Finite instances for TLC of what the API's requests do: signing in, the unit of work,
   focus sessions, confirmations, batches, devices. They share no state, so that a behaviour of all of them
   is an interleaving of one of each; TLC follows each of them while the others rest. *)
EXTENDS SignIn, UnitOfWork, FocusSessions, LabelConfirmations, BatchAdmission, Devices, TLC

VARIABLE live   \* the component that runs
vars == <<live, signInVars, unitVars, focusVars, confirmVars, admissionVars, deviceVars>>

CONSTANTS phone, tablet, stranger   \* devices, the last of another account

Owners == [d \in {phone, tablet, stranger} |-> IF d = stranger THEN "another" ELSE "account"]

\* Bodies: a captured title, times of every precision, defaults left out and spelled out, and
\* what each validator refuses.
At(digits, fraction) == [zone |-> "Z", digits |-> digits, fraction |-> fraction]
Bare(n, at) == [eventId |-> n, sequence |-> n, observedAt |-> at, timezoneId |-> "UTC", utcOffsetMinutes |-> 0]
Title(value) == [status |-> "captured", value |-> value]
Cut(value, length) == Title(value) @@ [truncated |-> TRUE, originalByteLength |-> length]
Why(status) == [status |-> status, reason |-> 1]
App == [bundleId |-> Title(3), name |-> [status |-> "absent"]]
Seen(n, at, window, web) ==
  Bare(n, at) @@ [recordType |-> "activity_observation",
    context |-> [kind |-> "detailed", app |-> App, window |-> window, web |-> web]]
Browser(title, url) == [kind |-> "browser", tabTitle |-> title, url |-> url]
NoWeb == [kind |-> "not_applicable"]
Window(title) == [status |-> "captured", title |-> title]
Opaque(n, at) == Bare(n, at) @@ [recordType |-> "activity_observation", context |-> [kind |-> "opaque"]]
State(n, state) ==
  Bare(n, At(0, 0)) @@ [recordType |-> "collection_state_changed", state |-> state, reason |-> 1]
In(record) == record @@ [focusSessionId |-> "focus"]
Batch(device, records) == [batchId |-> "batch", deviceId |-> device, records |-> records]
Accepted ==
  {<<Seen(1, At(1, 5), Window(Title(2)), NoWeb), In(State(2, "active"))>>,
   <<In(Seen(1, At(6, 123456), Window(Cut(2, 3)), Browser(Cut(0, 1), Why("redacted"))))>>,
   <<Seen(1, At(0, 0), Why("unavailable"), Browser(Why("redacted"), Title(1))), State(2, "suspended")>>,
   <<Opaque(1, At(3, 0)), Seen(2, At(2, 25), [status |-> "absent"], NoWeb)>>,
   <<Seen(1, At(0, 0), Window(Title(2) @@ [truncated |-> FALSE, originalByteLength |-> Null]), NoWeb)>>}
Refused ==
  {<<>>, <<Opaque(1, At(0, 0)), Opaque(2, At(0, 0)), Opaque(3, At(0, 0))>>,
   <<In(State(1, "suspended"))>>, <<Opaque(1, At(7, 1))>>,
   <<Opaque(1, [At(0, 0) EXCEPT !.zone = "+09:00"])>>,
   <<Seen(1, At(0, 0), Window(Cut(2, 2)), NoWeb)>>, <<Seen(1, At(0, 0), Window(Why("redacted")), NoWeb)>>,
   <<Seen(1, At(0, 0), Window(Title(2) @@ [originalByteLength |-> 3]), NoWeb)>>,
   <<Opaque(1, At(0, 0)) @@ [state |-> "active"]>>}
Arriving ==
  {[object |-> Batch("phone", records), chunks |-> 2] : records \in Accepted \union Refused}
    \union {[object |-> Batch("phone", records), chunks |-> 3] : records \in Accepted}
    \union {[object |-> Batch("stranger", records), chunks |-> 1] : records \in Accepted}
Whose == [d \in {"phone", "stranger"} |-> IF d = "phone" THEN "account" ELSE "another"]

\* Names that nothing tells apart.
Symmetry == Permutations(Calls) \union Permutations(Requests)

\* Where no component has started, any of them may be the one that runs.
Init ==
  /\ live \in {"sign in", "unit", "focus", "confirm", "batch", "device"}
  /\ SignInInit /\ UnitInit /\ FocusInit /\ ConfirmInit /\ AdmissionInit /\ DeviceInit
  /\ live # "batch" => enabled

Next ==
  /\ UNCHANGED live
  /\ \/ live = "sign in" /\ SignInNext /\ UNCHANGED <<unitVars, focusVars, confirmVars, admissionVars, deviceVars>>
     \/ live = "unit" /\ UnitNext /\ UNCHANGED <<signInVars, focusVars, confirmVars, admissionVars, deviceVars>>
     \/ live = "focus" /\ FocusNext /\ UNCHANGED <<signInVars, unitVars, confirmVars, admissionVars, deviceVars>>
     \/ live = "confirm" /\ ConfirmNext /\ UNCHANGED <<signInVars, unitVars, focusVars, admissionVars, deviceVars>>
     \/ live = "batch" /\ AdmissionNext /\ UNCHANGED <<signInVars, unitVars, focusVars, confirmVars, deviceVars>>
     \/ live = "device" /\ DeviceNext /\ UNCHANGED <<signInVars, unitVars, focusVars, confirmVars, admissionVars>>

Spec == Init /\ [][Next]_vars

\* The running component's state has its shape.
TypeOK ==
  /\ live = "sign in" => SignInTypeOK
  /\ live = "unit" => UnitTypeOK
  /\ live = "focus" => FocusTypeOK
  /\ live = "confirm" => ConfirmTypeOK
  /\ live = "batch" => AdmissionTypeOK
  /\ live = "device" => DeviceTypeOK

\* What is repeated because no answer came, of a focus session or of a device, is answered
\* like the first (AnswersStand, OneDevicePerKey).
RepeatsAnsweredAlike == AnswersStand /\ OneDevicePerKey
=============================================================================
