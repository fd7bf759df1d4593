---------------------------- MODULE TopicGateway ----------------------------
(***************************************************************************)
(* Topic generation: the host's browser asks, the Worker has the room      *)
(* authorize the request, reserves a call of the day's budget, calls the   *)
(* provider, books the result and answers; the browser applies the draft   *)
(* (app.js, worker.ts, model-routes.ts, model-provider.ts).  Every await   *)
(* is a step, so requests, edits of the room, other hosts, a failing       *)
(* database, a schema change and midnight come in between.                 *)
(***************************************************************************)
EXTENDS Integers, FiniteSets

CONSTANTS
  Browsers,           \* tokens that may be the host's, each in several tabs
  Flows,              \* requests under way at one time
  DailyLimit,         \* dailyCallLimit
  Tokens,             \* tokens a provider may bill a call
  MaxDay, MaxAsks, MaxEdits, MaxFaults

ASSUME GatewayAssumption ==
  /\ Browsers # {} /\ IsFiniteSet(Flows) /\ DailyLimit \in Nat \ {0} /\ Tokens \subseteq Nat
  /\ MaxDay \in Nat \ {0} /\ {MaxAsks, MaxEdits, MaxFaults} \subseteq Nat

VARIABLES
  room,               \* host, phase and topicGeneration, and the edits made so far
  request,            \* the request of each flow
  ledger,             \* model_usage_daily: per day, the global and the provider row
  supported,          \* whether the schema marker is one this release accepts
  day,
  sent,               \* calls sent to a provider, by the day they were reserved
  asked, faults

vars == <<room, request, ledger, supported, day, sent, asked, faults>>

Days == 1 .. MaxDay
FirstHost == CHOOSE token \in Browsers : TRUE

\* A request: who asked with which consent, the number and the edits of the room when it
\* was authorized, the day that pays, whether the theme has left and how the call ended,
\* and at last what the answer says of it.
NoOutcome == [code |-> "none", tokens |-> 0]
Rest == [pc |-> "rest", token |-> FirstHost, consent |-> FALSE, number |-> 0, edits |-> 0,
         day |-> 0, sent |-> FALSE, outcome |-> NoOutcome, external |-> FALSE]
EmptyRow == [reserved |-> 0, completed |-> 0, success |-> 0, failure |-> 0, tokens |-> 0]

At(f, pc) == request[f].pc = pc
GoesTo(f, pc) == request' = [request EXCEPT ![f].pc = pc]
Count(condition) == IF condition THEN 1 ELSE 0

-----------------------------------------------------------------------------
(* The answer of a provider, by what the code looks at, in the order it does. *)

Responses ==
  [reached : BOOLEAN, ok : BOOLEAN, fits : BOOLEAN, json : BOOLEAN, finished : BOOLEAN,
   topics : {"ten", "few", "duplicate", "overlong"}, billed : Tokens]

(* Usage is read off a parsed answer only; a refusal before that books no tokens. *)
Classified(response) ==
  IF ~(response.reached /\ response.ok) THEN [code |-> "REMOTE_ERROR", tokens |-> 0]
  ELSE IF ~response.fits THEN [code |-> "RESPONSE_TOO_LARGE", tokens |-> 0]
  ELSE IF ~response.json THEN [code |-> "INVALID_RESPONSE", tokens |-> 0]
  ELSE [code |-> IF response.finished /\ response.topics = "ten" THEN "ok" ELSE "INVALID_RESPONSE",
        tokens |-> response.billed]

Outcomes == {Classified(response) : response \in Responses}

-----------------------------------------------------------------------------
(* The browser *)

Ask(f, token, consent) ==
  /\ At(f, "rest") /\ asked < MaxAsks
  /\ asked' = asked + 1
  /\ request' = [request EXCEPT ![f] =
       [Rest EXCEPT !.pc = "authorize", !.token = token, !.consent = consent]]
  /\ UNCHANGED <<room, ledger, supported, day, sent, faults>>

(* A draft is applied with the number it was given; any other answer is only shown. *)
MayApply(f) == room.host = request[f].token /\ room.phase = "setup"

DraftIsCurrent_Newer(f) == request[f].number <= room.number
DraftIsCurrent(f) == request[f].number = room.number

NewList == [room EXCEPT !.number = @ + 1, !.edits = @ + 1]

ReceiveAnswer(f) ==
  /\ At(f, "answered")
  /\ room' = IF MayApply(f) /\ DraftIsCurrent(f) THEN NewList ELSE room
  /\ request' = [request EXCEPT ![f] = Rest]
  /\ UNCHANGED <<ledger, supported, day, sent, asked, faults>>

(* Whatever else changes the topics of the room, its host or its phase. *)
EditTopics ==
  /\ room.phase = "setup" /\ room.edits < MaxEdits
  /\ room' = NewList
  /\ UNCHANGED <<request, ledger, supported, day, sent, asked, faults>>

ChangeHost(token) ==
  /\ token # room.host
  /\ room' = [room EXCEPT !.host = token]
  /\ UNCHANGED <<request, ledger, supported, day, sent, asked, faults>>

ChangePhase ==
  /\ room' = [room EXCEPT !.phase = IF @ = "setup" THEN "playing" ELSE "setup"]
  /\ UNCHANGED <<request, ledger, supported, day, sent, asked, faults>>

-----------------------------------------------------------------------------
(* The Worker *)

(* What the operator has selected for the tier; a configured remote provider costs. *)
Selections == {"offline", "invalid", "unconfigured", "remote", "remote-without-limit"}
Remote == {"remote", "remote-without-limit"}

(* An answer keeps nothing of the call but whether the theme left. *)
Answer(f, external) ==
  request' = [request EXCEPT ![f] =
    [@ EXCEPT !.pc = "answered", !.day = 0, !.outcome = NoOutcome, !.external = external]]

OfflineDraft(f) == Answer(f, FALSE)

(* The room counts the request, so that older drafts are out of date.  Then, without an *)
(* await: an offline draft, a refusal, or the way to the budget of the day.              *)
AfterDescribe(f, selection) ==
  LET authorized == [request[f] EXCEPT !.number = room.number + 1, !.edits = room.edits]
      offline == [authorized EXCEPT !.pc = "answered"]
  IN  CASE selection \notin Remote -> offline
        [] selection \in Remote /\ ~authorized.consent -> Rest
        [] selection = "remote-without-limit" /\ authorized.consent -> offline
        [] OTHER -> [authorized EXCEPT !.pc = "marker", !.day = day]

Authorize(f, answerLost) ==
  /\ At(f, "authorize")
  /\ answerLost => faults < MaxFaults
  /\ faults' = faults + Count(answerLost)
  /\ LET granted == room.host = request[f].token /\ room.phase = "setup" IN
     /\ room' = IF granted THEN [room EXCEPT !.number = @ + 1] ELSE room
     /\ IF granted /\ ~answerLost
        THEN \E selection \in Selections : request' = [request EXCEPT ![f] = AfterDescribe(f, selection)]
        ELSE request' = [request EXCEPT ![f] = Rest]
  /\ UNCHANGED <<ledger, supported, day, sent, asked>>

ReadMarker(f) ==
  /\ At(f, "marker")
  /\ IF supported THEN GoesTo(f, "reserve") ELSE OfflineDraft(f)
  /\ UNCHANGED <<room, ledger, supported, day, sent, asked, faults>>

UnderLimit_OneMore(row) == row.reserved <= DailyLimit
UnderLimit(row) == row.reserved < DailyLimit

Reserved(f) == [ledger EXCEPT ![request[f].day].global.reserved = @ + 1]

Reserve(f) ==
  /\ At(f, "reserve")
  /\ IF UnderLimit(ledger[request[f].day].global)
     THEN ledger' = Reserved(f) /\ GoesTo(f, "call")
     ELSE UNCHANGED ledger /\ OfflineDraft(f)
  /\ UNCHANGED <<room, supported, day, sent, asked, faults>>

ReserveFails(f, committed) ==
  /\ At(f, "reserve") /\ faults < MaxFaults
  /\ faults' = faults + 1
  /\ ledger' = IF committed /\ UnderLimit(ledger[request[f].day].global) THEN Reserved(f) ELSE ledger
  /\ OfflineDraft(f)
  /\ UNCHANGED <<room, supported, day, sent, asked>>

(* The theme leaves; then the provider answers, or the time is up, though it may yet bill. *)
CallProvider(f) ==
  /\ At(f, "call")
  /\ request' = [request EXCEPT ![f] = [@ EXCEPT !.pc = "waiting", !.sent = TRUE]]
  /\ sent' = [sent EXCEPT ![request[f].day] = @ + 1]
  /\ UNCHANGED <<room, ledger, supported, day, asked, faults>>

Ended(f, outcome) ==
  /\ At(f, "waiting")
  /\ request' = [request EXCEPT ![f] = [@ EXCEPT !.pc = "recheck", !.outcome = outcome]]
  /\ UNCHANGED <<room, ledger, supported, day, sent, asked, faults>>

ProviderAnswers(f) ==
  \E outcome \in Outcomes : Ended(f, outcome)

TimesOut_Never(f) == FALSE
TimesOut(f) == Ended(f, [code |-> "TIMEOUT", tokens |-> 0])

(* A draft of the provider, or an offline one with the attempt disclosed. *)
Disclosed(f) == TRUE
Booked(f) == Answer(f, Disclosed(f))

RecheckMarker(f) ==
  /\ At(f, "recheck")
  /\ IF supported THEN GoesTo(f, "book") ELSE Booked(f)
  /\ UNCHANGED <<room, ledger, supported, day, sent, asked, faults>>

Completed(row, outcome) ==
  [row EXCEPT !.completed = @ + 1,
     !.success = @ + Count(outcome.code = "ok"), !.failure = @ + Count(outcome.code # "ok"),
     !.tokens = @ + outcome.tokens]

BookingDay(f) == request[f].day

(* One batch for both rows; a row may not complete more than it has reserved. *)
Reconciled(f) ==
  LET d == BookingDay(f)
      booked == [ledger EXCEPT ![d] = [global |-> Completed(@.global, request[f].outcome),
                                       provider |-> Completed(@.provider, request[f].outcome)]]
  IN  IF booked[d].global.completed <= booked[d].global.reserved THEN booked ELSE ledger

Reconcile(f) ==
  /\ At(f, "book")
  /\ ledger' = Reconciled(f)
  /\ Booked(f)
  /\ UNCHANGED <<room, supported, day, sent, asked, faults>>

ReconcileFails(f, committed) ==
  /\ At(f, "book") /\ faults < MaxFaults
  /\ faults' = faults + 1
  /\ ledger' = IF committed THEN Reconciled(f) ELSE ledger
  /\ Booked(f)
  /\ UNCHANGED <<room, supported, day, sent, asked>>

(* An isolate goes away with the request; the browser sees the connection break. *)
IsolateDies(f) ==
  /\ request[f].pc \notin {"rest", "answered"} /\ faults < MaxFaults
  /\ faults' = faults + 1
  /\ request' = [request EXCEPT ![f] = Rest]
  /\ UNCHANGED <<room, ledger, supported, day, sent, asked>>

-----------------------------------------------------------------------------
(* Migrations and roll-backs of the schema, and midnight. *)

SchemaChanges ==
  /\ faults < MaxFaults /\ faults' = faults + 1
  /\ supported' = ~supported
  /\ UNCHANGED <<room, request, ledger, day, sent, asked>>

Midnight ==
  /\ day < MaxDay /\ day' = day + 1
  /\ UNCHANGED <<room, request, ledger, supported, sent, asked, faults>>

-----------------------------------------------------------------------------
Init ==
  /\ room = [host |-> FirstHost, phase |-> "setup", number |-> 0, edits |-> 0]
  /\ request = [f \in Flows |-> Rest]
  /\ ledger = [d \in Days |-> [global |-> EmptyRow, provider |-> EmptyRow]]
  /\ supported = TRUE /\ day = 1 /\ asked = 0 /\ faults = 0
  /\ sent = [d \in Days |-> 0]

Serve(f) ==
  \/ Authorize(f, FALSE) \/ ReadMarker(f) \/ Reserve(f) \/ CallProvider(f) \/ TimesOut(f)
  \/ RecheckMarker(f) \/ Reconcile(f)

Fails(f) ==
  \/ Authorize(f, TRUE) \/ IsolateDies(f)
  \/ \E committed \in BOOLEAN : ReserveFails(f, committed) \/ ReconcileFails(f, committed)

Next ==
  \/ \E f \in Flows :
       \/ \E token \in Browsers, consent \in BOOLEAN : Ask(f, token, consent)
       \/ ReceiveAnswer(f) \/ Serve(f) \/ ProviderAnswers(f) \/ Fails(f)
  \/ EditTopics \/ ChangePhase \/ \E token \in Browsers : ChangeHost(token)
  \/ SchemaChanges \/ Midnight

(* Handlers run on; a waiting call ends by its time limit at the latest. *)
Fairness == \A f \in Flows : WF_vars(Serve(f) \/ ReceiveAnswer(f))

Spec == Init /\ [][Next]_vars /\ Fairness
=============================================================================
