-------------------------- MODULE TopicGatewayProofs --------------------------
(***************************************************************************)
(* The budget of the topic gateway is kept and its books are true, and     *)
(* what leaves for a provider or replaces the topics is the host's to      *)
(* decide, for any number of requests, days, edits and faults.             *)
(***************************************************************************)
EXTENDS TopicGatewayProperties, FiniteSetTheorems, TLAPS

(* A request that owes a call to the day that pays for it: it will be sent, *)
(* or it has been sent and is not booked.                                   *)
Owing(d) == {f \in Flows : request[f].pc = "call" /\ request[f].day = d}
Unbooked(d) == {f \in Flows : request[f].pc \in Called /\ request[f].day = d}
UnderWay(d) ==
  {f \in Flows : request[f].pc \in {"call"} \cup Called /\ request[f].day = d}

\* Every call on its way to the provider holds a place of its day's budget,
\* every call to be booked was sent, and what is missing is under way.
PlacesAreHeld ==
  \A d \in Days : LET g == ledger[d].global IN
    /\ g.reserved <= DailyLimit
    /\ sent[d] + Cardinality(Owing(d)) <= g.reserved
    /\ g.completed + Cardinality(Unbooked(d)) <= sent[d]
    /\ faults = 0 => g.reserved = g.completed + Cardinality(UnderWay(d))

RowsAgree ==
  \A d \in Days : LET g == ledger[d].global IN
    /\ ledger[d].provider = [g EXCEPT !.reserved = 0]
    /\ g.completed = g.success + g.failure

\* A request on its way has the day that pays for it.
DaysAreSet ==
  \A f \in Flows : request[f].pc \in {"marker", "reserve", "call"} \cup Called => request[f].day \in Days

BudgetInv ==
  /\ TypeOK
  /\ faults = 0 => supported
  /\ DaysAreSet
  /\ RowsAgree
  /\ PlacesAreHeld

-----------------------------------------------------------------------------
(* Types *)

LEMMA FirstHostType == FirstHost \in Browsers
BY GatewayAssumption DEF FirstHost

LEMMA RestType == Rest \in Requests
BY FirstHostType DEF Rest, Requests, NoOutcome, Codes, InService

LEMMA OutcomesType == ASSUME NEW outcome \in Outcomes PROVE outcome \in [code : Codes \ {"none"}, tokens : Nat]
<1>1. PICK response \in Responses : outcome = Classified(response)
  BY DEF Outcomes
<1>2. response.billed \in Nat
  BY GatewayAssumption DEF Responses
<1>3. QED
  BY <1>1, <1>2 DEF Classified, Codes

LEMMA InitTyped == Init => TypeOK
<1> SUFFICES ASSUME Init PROVE TypeOK
  OBVIOUS
<1>1. 1 \in Days
  BY GatewayAssumption DEF Days
<1>2. QED
  BY <1>1, FirstHostType, RestType DEF Init, TypeOK, Rows, EmptyRow

LEMMA RequestTyped ==
  ASSUME TypeOK, NEW f \in Flows, NEW r \in Requests, request' = [request EXCEPT ![f] = r]
  PROVE  request' \in [Flows -> Requests]
BY DEF TypeOK

LEMMA AnswerTyped ==
  ASSUME TypeOK, NEW f \in Flows, NEW external \in BOOLEAN, Answer(f, external)
  PROVE  request' \in [Flows -> Requests]
<1>1. request[f] \in Requests
  BY DEF TypeOK
<1>2. [request[f] EXCEPT !.pc = "answered", !.day = 0, !.outcome = NoOutcome,
                         !.external = external] \in Requests
  BY <1>1 DEF Requests, NoOutcome, Codes
<1>3. QED
  BY <1>2, RequestTyped DEF Answer, TypeOK

LEMMA GoesToTyped ==
  ASSUME TypeOK, NEW f \in Flows, NEW pc \in InService, GoesTo(f, pc)
  PROVE  request' \in [Flows -> Requests]
<1>1. [request[f] EXCEPT !.pc = pc] \in Requests
  BY DEF TypeOK, Requests
<1>2. request' = [request EXCEPT ![f] = [request[f] EXCEPT !.pc = pc]]
  BY DEF GoesTo, TypeOK
<1>3. QED
  BY <1>1, <1>2, RequestTyped

(* The batch that books a call, as a whole. *)
LEMMA BookingType ==
  ASSUME TypeOK, DaysAreSet, NEW f \in Flows, At(f, "book")
  PROVE  LET d == request[f].day IN
         /\ d \in Days
         /\ Completed(ledger[d].global, request[f].outcome) \in Rows
         /\ Completed(ledger[d].provider, request[f].outcome) \in Rows
         /\ \/ Reconciled(f) = ledger
            \/ Reconciled(f) = [ledger EXCEPT ![d] =
                 [global |-> Completed(ledger[d].global, request[f].outcome),
                  provider |-> Completed(ledger[d].provider, request[f].outcome)]]
<1> DEFINE d == request[f].day
<1>1. d \in Days
  BY DEF DaysAreSet, At, Called
<1>2. /\ request[f].outcome.code \in Codes /\ request[f].outcome.tokens \in Nat
      /\ ledger[d] \in [global : Rows, provider : Rows]
  BY <1>1 DEF TypeOK, Requests
<1>3. ASSUME NEW row \in Rows PROVE Completed(row, request[f].outcome) \in Rows
  <2>1. Count(request[f].outcome.code = "ok") \in Nat /\ Count(request[f].outcome.code # "ok") \in Nat
    BY DEF Count
  <2>2. /\ row.completed + 1 \in Nat
        /\ row.success + Count(request[f].outcome.code = "ok") \in Nat
        /\ row.failure + Count(request[f].outcome.code # "ok") \in Nat
        /\ row.tokens + request[f].outcome.tokens \in Nat
    BY <1>2, <2>1 DEF Rows
  <2>3. QED
    BY <2>2 DEF Rows, Completed
<1>4. QED
  BY <1>1, <1>2, <1>3 DEF Reconciled, BookingDay, TypeOK

Rooms == [host : Browsers, phase : {"setup", "playing"}, number : Nat, edits : Nat]

LEMMA RoomTyped ==
  ASSUME TypeOK
  PROVE  /\ room \in Rooms /\ NewList \in Rooms
         /\ NewList.number = room.number + 1 /\ NewList.edits = room.edits + 1
<1>1. room \in Rooms
  BY DEF TypeOK, Rooms
<1>2. room.number + 1 \in Nat /\ room.edits + 1 \in Nat
  BY <1>1 DEF Rooms
<1>3. QED
  BY <1>1, <1>2 DEF Rooms, NewList

LEMMA TypeNext == TypeOK /\ DaysAreSet /\ [Next]_vars => TypeOK'
<1> SUFFICES ASSUME TypeOK, DaysAreSet, [Next]_vars PROVE TypeOK'
  OBVIOUS
<1>1. \A f \in Flows : request[f] \in Requests
  BY DEF TypeOK
<1>2. ASSUME NEW f \in Flows, NEW token \in Browsers, NEW consent \in BOOLEAN, Ask(f, token, consent)
      PROVE  TypeOK'
  <2>1. [Rest EXCEPT !.pc = "authorize", !.token = token, !.consent = consent] \in Requests
    BY RestType DEF Requests, InService
  <2>2. request' \in [Flows -> Requests]
    BY <1>2, <2>1, RequestTyped DEF Ask
  <2>3. QED
    BY <1>2, <2>2 DEF Ask, TypeOK
<1>3. ASSUME NEW f \in Flows, ReceiveAnswer(f) PROVE TypeOK'
  <2>1. request' \in [Flows -> Requests]
    BY <1>3, RestType, RequestTyped DEF ReceiveAnswer
  <2>2. QED
    BY <1>3, <2>1, RoomTyped DEF ReceiveAnswer, TypeOK, Rooms
<1>4. ASSUME NEW f \in Flows, NEW answerLost \in BOOLEAN, Authorize(f, answerLost) PROVE TypeOK'
  <2>1. ASSUME NEW selection \in Selections PROVE AfterDescribe(f, selection) \in Requests
    <3>1. room.number + 1 \in Nat /\ room.edits \in Nat /\ day \in Days
      BY DEF TypeOK
    <3>2. [request[f] EXCEPT !.number = room.number + 1, !.edits = room.edits] \in Requests
      BY <1>1, <3>1 DEF Requests
    <3>3. ASSUME NEW r \in Requests
          PROVE  [r EXCEPT !.pc = "answered"] \in Requests
                 /\ [r EXCEPT !.pc = "marker", !.day = day] \in Requests
      BY <3>1 DEF Requests, InService
    <3>4. QED
      BY <3>2, <3>3, RestType DEF AfterDescribe
  <2>2. request' \in [Flows -> Requests]
    BY <1>4, <2>1, RestType, RequestTyped DEF Authorize
  <2>3. QED
    BY <1>4, <2>2 DEF Authorize, Count, TypeOK
<1>5. ASSUME NEW f \in Flows, ReadMarker(f) PROVE TypeOK'
  <2>1. request' \in [Flows -> Requests]
    BY <1>5, AnswerTyped, GoesToTyped DEF ReadMarker, OfflineDraft, InService
  <2>2. QED
    BY <1>5, <2>1 DEF ReadMarker, TypeOK
<1>6. ASSUME NEW f \in Flows, At(f, "reserve") PROVE Reserved(f) \in [Days -> [global : Rows, provider : Rows]]
  <2>1. request[f].day \in Days
    BY <1>6 DEF DaysAreSet, At
  <2>2. QED
    BY <2>1 DEF Reserved, TypeOK, Rows
<1>7. ASSUME NEW f \in Flows, Reserve(f) PROVE TypeOK'
  <2>1. request' \in [Flows -> Requests]
    BY <1>7, AnswerTyped, GoesToTyped DEF Reserve, OfflineDraft, InService
  <2>2. QED
    BY <1>6, <1>7, <2>1 DEF Reserve, TypeOK
<1>8. ASSUME NEW f \in Flows, NEW committed \in BOOLEAN, ReserveFails(f, committed) PROVE TypeOK'
  <2>1. request' \in [Flows -> Requests]
    BY <1>8, AnswerTyped DEF ReserveFails, OfflineDraft
  <2>2. QED
    BY <1>6, <1>8, <2>1 DEF ReserveFails, TypeOK
<1>9. ASSUME NEW f \in Flows, CallProvider(f) PROVE TypeOK'
  <2>1. [request[f] EXCEPT !.pc = "waiting", !.sent = TRUE] \in Requests
    BY <1>1 DEF Requests, InService, Called
  <2>2. request' \in [Flows -> Requests]
    BY <1>9, <2>1, RequestTyped DEF CallProvider, TypeOK
  <2>3. request[f].day \in Days
    BY <1>9 DEF CallProvider, DaysAreSet, At
  <2>4. QED
    BY <1>9, <2>2, <2>3 DEF CallProvider, TypeOK
<1>10. ASSUME NEW f \in Flows, NEW outcome \in [code : Codes, tokens : Nat], Ended(f, outcome) PROVE TypeOK'
  <2>1. [request[f] EXCEPT !.pc = "recheck", !.outcome = outcome] \in Requests
    BY <1>1 DEF Requests, InService, Called
  <2>2. request' \in [Flows -> Requests]
    BY <1>10, <2>1, RequestTyped DEF Ended, TypeOK
  <2>3. QED
    BY <1>10, <2>2 DEF Ended, TypeOK
<1>11. ASSUME NEW f \in Flows, RecheckMarker(f) PROVE TypeOK'
  <2>1. request' \in [Flows -> Requests]
    BY <1>11, AnswerTyped, GoesToTyped DEF RecheckMarker, Booked, Disclosed, InService, Called
  <2>2. QED
    BY <1>11, <2>1 DEF RecheckMarker, TypeOK
<1>12. ASSUME NEW f \in Flows, At(f, "book") PROVE Reconciled(f) \in [Days -> [global : Rows, provider : Rows]]
  <2>1. ledger \in [Days -> [global : Rows, provider : Rows]]
    BY DEF TypeOK
  <2> DEFINE d == request[f].day
             row == [global |-> Completed(ledger[d].global, request[f].outcome),
                     provider |-> Completed(ledger[d].provider, request[f].outcome)]
  <2>2. d \in Days /\ row \in [global : Rows, provider : Rows]
        /\ (Reconciled(f) = ledger \/ Reconciled(f) = [ledger EXCEPT ![d] = row])
    BY <1>12, BookingType
  <2> HIDE DEF row
  <2>3. QED
    BY <2>1, <2>2
<1>13. ASSUME NEW f \in Flows, Reconcile(f) PROVE TypeOK'
  <2>1. request' \in [Flows -> Requests]
    BY <1>13, AnswerTyped DEF Reconcile, Booked, Disclosed
  <2>2. QED
    BY <1>12, <1>13, <2>1 DEF Reconcile, TypeOK
<1>14. ASSUME NEW f \in Flows, NEW committed \in BOOLEAN, ReconcileFails(f, committed) PROVE TypeOK'
  <2>1. request' \in [Flows -> Requests]
    BY <1>14, AnswerTyped DEF ReconcileFails, Booked, Disclosed
  <2>2. QED
    BY <1>12, <1>14, <2>1 DEF ReconcileFails, TypeOK
<1>15. ASSUME NEW f \in Flows, IsolateDies(f) PROVE TypeOK'
  <2>1. request' \in [Flows -> Requests]
    BY <1>15, RestType, RequestTyped DEF IsolateDies
  <2>2. QED
    BY <1>15, <2>1 DEF IsolateDies, TypeOK
<1>16. CASE EditTopics
  BY <1>16, RoomTyped DEF EditTopics, TypeOK, Rooms
<1>17. CASE ChangePhase
  BY <1>17 DEF ChangePhase, TypeOK
<1>18. ASSUME NEW token \in Browsers, ChangeHost(token) PROVE TypeOK'
  BY <1>18 DEF ChangeHost, TypeOK
<1>19. CASE SchemaChanges
  BY <1>19 DEF SchemaChanges, TypeOK
<1>20. CASE Midnight
  <2>1. day + 1 \in Days
    BY <1>20, GatewayAssumption DEF Midnight, TypeOK, Days
  <2>2. QED
    BY <1>20, <2>1 DEF Midnight, TypeOK
<1>21. CASE UNCHANGED vars
  BY <1>21 DEF vars, TypeOK
<1>22. ASSUME NEW f \in Flows, ProviderAnswers(f) \/ TimesOut(f) PROVE TypeOK'
  <2>1. [code |-> "TIMEOUT", tokens |-> 0] \in [code : Codes, tokens : Nat]
    BY DEF Codes
  <2>2. \A outcome \in Outcomes : outcome \in [code : Codes, tokens : Nat]
    BY OutcomesType
  <2>3. PICK outcome \in [code : Codes, tokens : Nat] : Ended(f, outcome)
    BY <1>22, <2>1, <2>2 DEF ProviderAnswers, TimesOut
  <2>4. QED
    BY <1>10, <2>3
<1>23. QED
  BY <1>2, <1>3, <1>4, <1>5, <1>7, <1>8, <1>9, <1>11, <1>13, <1>14, <1>15, <1>16, <1>17,
     <1>18, <1>19, <1>20, <1>21, <1>22 DEF Next, Serve, Fails


-----------------------------------------------------------------------------
(* Counting the calls of a day                                             *)

LEMMA OneDiffers ==
  ASSUME NEW S, NEW T, NEW f, IsFiniteSet(S), S \ {f} = T \ {f}
  PROVE  /\ IsFiniteSet(T) /\ Cardinality(S) \in Nat /\ Cardinality(T) \in Nat
         /\ f \in S => Cardinality(S) > 0
         /\ Cardinality(T) + Count(f \in S) = Cardinality(S) + Count(f \in T)
<1>1. IsFiniteSet(S \ {f}) /\ Cardinality(S \ {f}) = Cardinality(S) - Count(f \in S)
  BY FS_RemoveElement, FS_CardinalityType DEF Count
<1>2. Cardinality(S) \in Nat /\ Cardinality(S \ {f}) \in Nat
  BY <1>1, FS_CardinalityType
<1>3. /\ IsFiniteSet((T \ {f}) \cup {f})
      /\ Cardinality((T \ {f}) \cup {f}) = Cardinality(T \ {f}) + 1
  BY <1>1, FS_AddElement
<1>4. IsFiniteSet(T) /\ Cardinality(T) = Cardinality(S \ {f}) + Count(f \in T)
  <2>1. CASE f \in T
    <3>1. T = (T \ {f}) \cup {f} /\ Count(f \in T) = 1
      BY <2>1 DEF Count
    <3>2. QED
      BY <1>3, <3>1
  <2>2. CASE f \notin T
    <3>1. T = S \ {f} /\ Count(f \in T) = 0
      BY <2>2 DEF Count
    <3>2. QED
      BY <1>1, <1>2, <3>1
  <2>3. QED
    BY <2>1, <2>2
<1>5. PICK m \in Nat, n \in Nat, k \in Nat :
        m = Cardinality(S \ {f}) /\ n = Cardinality(S) /\ k = Cardinality(T)
  BY <1>1, <1>2, <1>4, FS_CardinalityType
<1>6. PICK x \in {0, 1}, y \in {0, 1} : x = Count(f \in S) /\ y = Count(f \in T)
  BY DEF Count
<1>7. m = n - x /\ k = m + y /\ (f \in S => x = 1)
  BY <1>1, <1>4, <1>5, <1>6 DEF Count
<1>8. k + x = n + y /\ (x = 1 => n > 0)
  BY <1>7
<1>9. QED
  BY <1>4, <1>5, <1>6, <1>7, <1>8

Owes(r, d) == Count(r.pc = "call" /\ r.day = d)
Unbooks(r, d) == Count(r.pc \in Called /\ r.day = d)
IsUnderWay(r, d) == Count(r.pc \in {"call"} \cup Called /\ r.day = d)

(* One request moves: what the three counts of a day become.               *)
LEMMA Moved ==
  ASSUME request \in [Flows -> Requests], NEW f \in Flows, NEW r \in Requests,
         request' = [request EXCEPT ![f] = r], NEW d
  PROVE  /\ {Cardinality(Owing(d)), Cardinality(Unbooked(d)), Cardinality(UnderWay(d)),
              Cardinality(Owing(d)'), Cardinality(Unbooked(d)'), Cardinality(UnderWay(d)')}
               \subseteq Nat
         /\ Cardinality(Owing(d)') + Owes(request[f], d) = Cardinality(Owing(d)) + Owes(r, d)
         /\ Cardinality(Unbooked(d)') + Unbooks(request[f], d) = Cardinality(Unbooked(d)) + Unbooks(r, d)
         /\ Cardinality(UnderWay(d)') + IsUnderWay(request[f], d)
              = Cardinality(UnderWay(d)) + IsUnderWay(r, d)
<1>1. request'[f] = r /\ \A g \in Flows : g # f => request'[g] = request[g]
  OBVIOUS
<1>2. /\ Owing(d) \ {f} = Owing(d)' \ {f}
      /\ Unbooked(d) \ {f} = Unbooked(d)' \ {f}
      /\ UnderWay(d) \ {f} = UnderWay(d)' \ {f}
  BY <1>1 DEF Owing, Unbooked, UnderWay
<1>3. IsFiniteSet(Owing(d)) /\ IsFiniteSet(Unbooked(d)) /\ IsFiniteSet(UnderWay(d))
  BY GatewayAssumption, FS_Subset DEF Owing, Unbooked, UnderWay
<1>4. /\ Count(f \in Owing(d)) = Owes(request[f], d)
      /\ Count(f \in Owing(d)') = Owes(r, d)
      /\ Count(f \in Unbooked(d)) = Unbooks(request[f], d)
      /\ Count(f \in Unbooked(d)') = Unbooks(r, d)
      /\ Count(f \in UnderWay(d)) = IsUnderWay(request[f], d)
      /\ Count(f \in UnderWay(d)') = IsUnderWay(r, d)
  BY <1>1 DEF Owing, Unbooked, UnderWay, Owes, Unbooks, IsUnderWay, Count
<1>5. /\ Cardinality(Owing(d)) \in Nat /\ Cardinality(Owing(d)') \in Nat
      /\ Cardinality(Owing(d)') + Owes(request[f], d) = Cardinality(Owing(d)) + Owes(r, d)
  BY <1>2, <1>3, <1>4, OneDiffers
<1>6. /\ Cardinality(Unbooked(d)) \in Nat /\ Cardinality(Unbooked(d)') \in Nat
      /\ Cardinality(Unbooked(d)') + Unbooks(request[f], d) = Cardinality(Unbooked(d)) + Unbooks(r, d)
  BY <1>2, <1>3, <1>4, OneDiffers
<1>7. /\ Cardinality(UnderWay(d)) \in Nat /\ Cardinality(UnderWay(d)') \in Nat
      /\ Cardinality(UnderWay(d)') + IsUnderWay(request[f], d)
           = Cardinality(UnderWay(d)) + IsUnderWay(r, d)
  BY <1>2, <1>3, <1>4, OneDiffers
<1>8. QED
  BY <1>5, <1>6, <1>7

(* What a request and the ledger of a day may do together.                 *)
Balanced(old, new, g, h, before, after, d) ==
  /\ h.reserved <= DailyLimit
  /\ after + Owes(new, d) + g.reserved <= before + Owes(old, d) + h.reserved
  /\ h.completed + Unbooks(new, d) + before <= g.completed + Unbooks(old, d) + after

Settled(old, new, g, h, d) ==
  h.reserved + g.completed + IsUnderWay(old, d) = g.reserved + h.completed + IsUnderWay(new, d)

LEMMA Shifted ==
  ASSUME NEW x \in Nat, NEW y \in Nat, NEW old \in Nat, NEW new \in Nat,
         NEW before \in Nat, NEW after \in Nat, NEW upper \in Nat, NEW bound \in Nat,
         y + old = x + new, before + x <= upper, after + new + upper <= before + old + bound
  PROVE  after + y <= bound
OBVIOUS

LEMMA Balances ==
  ASSUME NEW x \in Nat, NEW y \in Nat, NEW old \in Nat, NEW new \in Nat,
         NEW before \in Nat, NEW after \in Nat, NEW total \in Nat, NEW later \in Nat,
         y + old = x + new, total = before + x, later + before + old = total + after + new
  PROVE  later = after + y
OBVIOUS

(* A step of one request keeps the books when each day is balanced.        *)
LEMMA PlacesKept ==
  ASSUME TypeOK, PlacesAreHeld, NEW f \in Flows, NEW r \in Requests,
         NEW l \in [Days -> [global : Rows, provider : Rows]], NEW s \in [Days -> Nat],
         request' = [request EXCEPT ![f] = r], ledger' = l, sent' = s,
         \A d \in Days : Balanced(request[f], r, ledger[d].global, l[d].global, sent[d], s[d], d),
         faults' = 0 => /\ faults = 0
                        /\ \A d \in Days :
                             Settled(request[f], r, ledger[d].global, l[d].global, d)
  PROVE  PlacesAreHeld'
<1> SUFFICES ASSUME NEW d \in Days
             PROVE  /\ l[d].global.reserved <= DailyLimit
                    /\ s[d] + Cardinality(Owing(d)') <= l[d].global.reserved
                    /\ l[d].global.completed + Cardinality(Unbooked(d)') <= s[d]
                    /\ faults' = 0 => l[d].global.reserved
                                      = l[d].global.completed + Cardinality(UnderWay(d)')
  BY DEF PlacesAreHeld
<1> DEFINE g == ledger[d].global
           h == l[d].global
<1>1. g \in Rows /\ h \in Rows /\ sent[d] \in Nat /\ s[d] \in Nat
  BY DEF TypeOK
<1>2. request \in [Flows -> Requests]
  BY DEF TypeOK
<1>3. PICK o \in Nat, u \in Nat, w \in Nat :
        o = Cardinality(Owing(d)) /\ u = Cardinality(Unbooked(d)) /\ w = Cardinality(UnderWay(d))
  BY <1>2, Moved
<1>4. PICK o2 \in Nat, u2 \in Nat, w2 \in Nat :
        o2 = Cardinality(Owing(d)') /\ u2 = Cardinality(Unbooked(d)') /\ w2 = Cardinality(UnderWay(d)')
  BY <1>2, Moved
<1>5. /\ o2 + Owes(request[f], d) = o + Owes(r, d)
      /\ u2 + Unbooks(request[f], d) = u + Unbooks(r, d)
      /\ w2 + IsUnderWay(request[f], d) = w + IsUnderWay(r, d)
  BY <1>2, <1>3, <1>4, Moved
<1>6. /\ sent[d] + o <= g.reserved /\ g.completed + u <= sent[d]
      /\ faults = 0 => g.reserved = g.completed + w
  BY <1>3 DEF PlacesAreHeld
<1>7. Balanced(request[f], r, g, h, sent[d], s[d], d)
  OBVIOUS
<1>8. faults' = 0 => faults = 0 /\ Settled(request[f], r, g, h, d)
  OBVIOUS
<1>9. h.reserved <= DailyLimit
  BY <1>7 DEF Balanced
<1> HIDE DEF g, h
<1>10. PICK before \in Nat, after \in Nat : before = sent[d] /\ after = s[d]
  BY <1>1
<1>11. PICK gr \in Nat, gc \in Nat, hr \in Nat, hc \in Nat :
         gr = g.reserved /\ gc = g.completed /\ hr = h.reserved /\ hc = h.completed
  BY <1>1 DEF Rows
<1>12. PICK a \in Nat, b \in Nat : a = Owes(request[f], d) /\ b = Owes(r, d)
  BY DEF Owes, Count
<1>13. PICK a2 \in Nat, b2 \in Nat : a2 = Unbooks(request[f], d) /\ b2 = Unbooks(r, d)
  BY DEF Unbooks, Count
<1>14. PICK a3 \in Nat, b3 \in Nat : a3 = IsUnderWay(request[f], d) /\ b3 = IsUnderWay(r, d)
  BY DEF IsUnderWay, Count
<1>15. after + o2 <= hr
  <2>1. o2 + a = o + b /\ before + o <= gr /\ after + b + gr <= before + a + hr
    BY <1>5, <1>6, <1>7, <1>10, <1>11, <1>12 DEF Balanced
  <2>2. QED
    BY <2>1, Shifted
<1>16. hc + u2 <= after
  <2>1. u2 + a2 = u + b2 /\ gc + u <= before /\ hc + b2 + before <= gc + a2 + after
    BY <1>5, <1>6, <1>7, <1>10, <1>11, <1>13 DEF Balanced
  <2>2. QED
    BY <2>1, Shifted
<1>17. faults' = 0 => hr = hc + w2
  <2>1. SUFFICES ASSUME faults' = 0 PROVE hr = hc + w2
    OBVIOUS
  <2>2. w2 + a3 = w + b3 /\ gr = gc + w /\ hr + gc + a3 = gr + hc + b3
    BY <1>5, <1>6, <1>8, <1>11, <1>14, <2>1 DEF Settled
  <2>3. QED
    BY <2>2, Balances
<1>18. QED
  BY <1>4, <1>9, <1>10, <1>11, <1>15, <1>16, <1>17 DEF h


-----------------------------------------------------------------------------
(* The invariant of the budget                                             *)

LEMMA Weights ==
  ASSUME NEW r, NEW d
  PROVE  /\ Owes(r, d) \in 0 .. 1 /\ Unbooks(r, d) \in 0 .. 1 /\ IsUnderWay(r, d) \in 0 .. 1
         /\ r.pc \notin {"call"} \cup Called =>
              Owes(r, d) = 0 /\ Unbooks(r, d) = 0 /\ IsUnderWay(r, d) = 0
         /\ r.pc = "call" =>
              Unbooks(r, d) = 0 /\ Owes(r, d) = Count(r.day = d) /\ IsUnderWay(r, d) = Count(r.day = d)
         /\ r.pc \in Called =>
              Owes(r, d) = 0 /\ Unbooks(r, d) = Count(r.day = d) /\ IsUnderWay(r, d) = Count(r.day = d)
BY DEF Owes, Unbooks, IsUnderWay, Count, Called

LEMMA DaysKept ==
  ASSUME TypeOK, DaysAreSet, NEW f \in Flows, NEW r, request' = [request EXCEPT ![f] = r],
         r.pc \in {"marker", "reserve", "call"} \cup Called => r.day \in Days
  PROVE  DaysAreSet'
BY DEF TypeOK, DaysAreSet

(* A request that begins, ends or moves on with the budget as it is.       *)
LEMMA QuietStep ==
  ASSUME BudgetInv, TypeOK', NEW f \in Flows, NEW r \in Requests,
         request' = [request EXCEPT ![f] = r], UNCHANGED <<ledger, sent, supported>>,
         r.pc \in {"marker", "reserve", "call"} \cup Called => r.day \in Days,
         \A d \in Days : Owes(r, d) <= Owes(request[f], d) /\ Unbooks(r, d) <= Unbooks(request[f], d),
         faults' = 0 => /\ faults = 0
                        /\ \A d \in Days : IsUnderWay(r, d) = IsUnderWay(request[f], d)
  PROVE  BudgetInv'
<1> USE DEF BudgetInv
<1>1. DaysAreSet'
  BY DaysKept
<1>2. RowsAgree'
  BY DEF RowsAgree
<1>3. ledger \in [Days -> [global : Rows, provider : Rows]] /\ sent \in [Days -> Nat]
  BY DEF TypeOK
<1>4. ASSUME NEW d \in Days
      PROVE  Balanced(request[f], r, ledger[d].global, ledger[d].global, sent[d], sent[d], d)
  <2>1. /\ ledger[d].global.reserved \in Nat /\ ledger[d].global.completed \in Nat
        /\ sent[d] \in Nat /\ ledger[d].global.reserved <= DailyLimit
    BY <1>3 DEF Rows, PlacesAreHeld
  <2>2. /\ Owes(r, d) \in Nat /\ Owes(request[f], d) \in Nat
        /\ Unbooks(r, d) \in Nat /\ Unbooks(request[f], d) \in Nat
    BY Weights
  <2>3. QED
    BY <2>1, <2>2 DEF Balanced
<1>5. ASSUME faults' = 0, NEW d \in Days
      PROVE  Settled(request[f], r, ledger[d].global, ledger[d].global, d)
  BY <1>5 DEF Settled
<1>6. PlacesAreHeld'
  BY <1>3, <1>4, <1>5, PlacesKept
<1>7. QED
  BY <1>1, <1>2, <1>6

(* A step that leaves requests and books.                                  *)
LEMMA NoRequestMoves ==
  ASSUME BudgetInv, TypeOK', UNCHANGED <<request, ledger, sent>>,
         faults' = 0 => faults = 0 /\ supported' = supported
  PROVE  BudgetInv'
<1> USE DEF BudgetInv
<1>1. DaysAreSet' /\ RowsAgree'
  BY DEF DaysAreSet, RowsAgree
<1>2. PlacesAreHeld'
  BY DEF PlacesAreHeld, Owing, Unbooked, UnderWay
<1>3. QED
  BY <1>1, <1>2

LEMMA AnsweredRequest ==
  ASSUME TypeOK, NEW f \in Flows, NEW external \in BOOLEAN, Answer(f, external)
  PROVE  \E r \in Requests :
           /\ request' = [request EXCEPT ![f] = r]
           /\ r.pc = "answered" /\ r.sent = request[f].sent /\ r.consent = request[f].consent
           /\ r.external = external /\ r.number = request[f].number /\ r.edits = request[f].edits
<1> DEFINE r == [request[f] EXCEPT !.pc = "answered", !.day = 0, !.outcome = NoOutcome,
                                  !.external = external]
<1>1. request[f] \in Requests
  BY DEF TypeOK
<1>2. r \in Requests
  BY <1>1 DEF Requests, NoOutcome, Codes
<1>3. /\ r.pc = "answered" /\ r.sent = request[f].sent /\ r.consent = request[f].consent
      /\ r.external = external /\ r.number = request[f].number /\ r.edits = request[f].edits
  BY <1>1 DEF Requests
<1>4. request' = [request EXCEPT ![f] = r]
  BY DEF Answer, TypeOK
<1>5. QED
  BY <1>2, <1>3, <1>4

LEMMA MovedRequest ==
  ASSUME TypeOK, NEW f \in Flows, NEW pc \in InService, GoesTo(f, pc)
  PROVE  \E r \in Requests :
           /\ request' = [request EXCEPT ![f] = r]
           /\ r = [request[f] EXCEPT !.pc = pc]
           /\ r.pc = pc /\ r.day = request[f].day
<1>1. request[f] \in Requests
  BY DEF TypeOK
<1>2. [request[f] EXCEPT !.pc = pc] \in Requests
  BY <1>1 DEF Requests
<1>3. request' = [request EXCEPT ![f] = [request[f] EXCEPT !.pc = pc]]
  BY DEF GoesTo, TypeOK
<1>4. QED
  BY <1>1, <1>2, <1>3 DEF Requests

LEMMA InitBudget == Init => BudgetInv
<1> SUFFICES ASSUME Init PROVE BudgetInv
  OBVIOUS
<1>1. TypeOK
  BY InitTyped
<1>2. \A f \in Flows : request[f].pc = "rest"
  BY DEF Init, Rest
<1>3. DaysAreSet
  BY <1>2 DEF DaysAreSet, Called
<1>4. \A d \in Days : ledger[d] = [global |-> EmptyRow, provider |-> EmptyRow] /\ sent[d] = 0
  BY DEF Init
<1>5. RowsAgree
  BY <1>4 DEF RowsAgree, EmptyRow
<1>6. ASSUME NEW d \in Days PROVE Owing(d) = {} /\ Unbooked(d) = {} /\ UnderWay(d) = {}
  BY <1>2 DEF Owing, Unbooked, UnderWay, Called
<1>7. PlacesAreHeld
  <2>1. Cardinality({}) = 0 /\ DailyLimit \in Nat
    BY FS_EmptySet, GatewayAssumption
  <2>2. ASSUME NEW d \in Days
        PROVE  /\ ledger[d].global.reserved = 0 /\ ledger[d].global.completed = 0 /\ sent[d] = 0
               /\ Cardinality(Owing(d)) = 0 /\ Cardinality(Unbooked(d)) = 0
               /\ Cardinality(UnderWay(d)) = 0
    BY <1>4, <1>6, <2>1 DEF EmptyRow
  <2>3. QED
    BY <2>1, <2>2 DEF PlacesAreHeld
<1>8. QED
  BY <1>1, <1>3, <1>5, <1>7 DEF BudgetInv, Init


(* A call is reserved within the limit; the request goes on, or its answer *)
(* is lost with the reservation.                                           *)
LEMMA ReservedOne ==
  ASSUME BudgetInv, TypeOK', NEW f \in Flows, At(f, "reserve"), NEW r \in Requests,
         request' = [request EXCEPT ![f] = r], ledger' = Reserved(f),
         UnderLimit(ledger[request[f].day].global), UNCHANGED <<sent, supported>>,
         \/ r.pc = "call" /\ r.day = request[f].day /\ faults' = faults
         \/ r.pc = "answered" /\ faults' # 0
  PROVE  BudgetInv'
<1> USE DEF BudgetInv
<1> DEFINE day0 == request[f].day
<1>1. day0 \in Days /\ request[f].pc = "reserve"
  BY DEF DaysAreSet, At
<1>2. PICK l \in [Days -> [global : Rows, provider : Rows]] : l = ledger'
  BY DEF TypeOK
<1>3. ledger \in [Days -> [global : Rows, provider : Rows]] /\ sent \in [Days -> Nat]
  BY DEF TypeOK
<1>4. \A d \in Days : /\ l[d].provider = ledger[d].provider
                      /\ d # day0 => l[d] = ledger[d]
                      /\ l[day0].global = [ledger[day0].global EXCEPT !.reserved = @ + 1]
  BY <1>1, <1>2, <1>3 DEF Reserved
<1>5. \A d \in Days : l[d].global.reserved = ledger[d].global.reserved + Count(d = day0)
                      /\ l[d].global.completed = ledger[d].global.completed
  <2>1. SUFFICES ASSUME NEW d \in Days
                 PROVE  l[d].global.reserved = ledger[d].global.reserved + Count(d = day0)
                        /\ l[d].global.completed = ledger[d].global.completed
    OBVIOUS
  <2>2. ledger[d].global.reserved \in Nat /\ ledger[d].global \in Rows
    BY <1>3 DEF Rows
  <2>3. CASE d = day0
    BY <1>4, <2>2, <2>3 DEF Count, Rows
  <2>4. CASE d # day0
    BY <1>4, <2>2, <2>4 DEF Count
  <2>5. QED
    BY <2>3, <2>4
<1>6. \A d \in Days : /\ Owes(request[f], d) = 0 /\ Unbooks(request[f], d) = 0
                      /\ IsUnderWay(request[f], d) = 0
  BY <1>1, Weights DEF Called
<1>7. \A d \in Days : /\ Unbooks(r, d) = 0 /\ Owes(r, d) <= Count(d = day0)
                      /\ Owes(r, d) \in 0 .. 1
                      /\ faults' = 0 => IsUnderWay(r, d) = Count(d = day0)
  BY Weights DEF Called, Count
<1>8. ledger[day0].global.reserved < DailyLimit
  BY DEF UnderLimit
<1>9. ASSUME NEW d \in Days
      PROVE  /\ Balanced(request[f], r, ledger[d].global, l[d].global, sent[d], sent[d], d)
             /\ faults' = 0 => Settled(request[f], r, ledger[d].global, l[d].global, d)
  <2>1. /\ ledger[d].global.reserved \in Nat /\ ledger[d].global.completed \in Nat
        /\ sent[d] \in Nat /\ ledger[d].global.reserved <= DailyLimit /\ DailyLimit \in Nat
    BY <1>3, GatewayAssumption DEF Rows, PlacesAreHeld
  <2>2. Count(d = day0) \in 0 .. 1 /\ (Count(d = day0) = 1 => d = day0)
    BY DEF Count
  <2>3. ledger[d].global.reserved + Count(d = day0) <= DailyLimit
    BY <1>8, <2>1, <2>2
  <2>4. Balanced(request[f], r, ledger[d].global, l[d].global, sent[d], sent[d], d)
    BY <1>5, <1>6, <1>7, <2>1, <2>2, <2>3 DEF Balanced
  <2>5. faults' = 0 => Settled(request[f], r, ledger[d].global, l[d].global, d)
    <3>1. SUFFICES ASSUME faults' = 0
                   PROVE  Settled(request[f], r, ledger[d].global, l[d].global, d)
      OBVIOUS
    <3>2. IsUnderWay(request[f], d) = 0 /\ IsUnderWay(r, d) = Count(d = day0)
      BY <1>6, <1>7, <3>1
    <3>3. PICK rest \in Nat, done \in Nat, one \in Nat :
            /\ rest = ledger[d].global.reserved /\ done = ledger[d].global.completed
            /\ one = Count(d = day0)
      BY <2>1, <2>2
    <3>4. /\ l[d].global.reserved = rest + one /\ l[d].global.completed = done
          /\ (rest + one) + done + 0 = rest + done + one
      BY <1>5, <3>3
    <3>5. QED
      BY <3>2, <3>3, <3>4 DEF Settled
  <2>6. QED
    BY <2>4, <2>5
<1>10. RowsAgree'
  <2>1. SUFFICES ASSUME NEW d \in Days
                 PROVE  /\ l[d].provider = [l[d].global EXCEPT !.reserved = 0]
                        /\ l[d].global.completed = l[d].global.success + l[d].global.failure
    BY <1>2 DEF RowsAgree
  <2>2. /\ ledger[d].provider = [ledger[d].global EXCEPT !.reserved = 0]
        /\ ledger[d].global.completed = ledger[d].global.success + ledger[d].global.failure
        /\ ledger[d].global \in Rows
    BY <1>3 DEF RowsAgree
  <2>3. CASE d = day0
    BY <1>4, <2>2, <2>3 DEF Rows
  <2>4. CASE d # day0
    BY <1>4, <2>2, <2>4
  <2>5. QED
    BY <2>3, <2>4
<1>11. DaysAreSet'
  BY <1>1, DaysKept DEF Called
<1>12. PlacesAreHeld'
  BY <1>2, <1>3, <1>9, PlacesKept DEF At
<1>13. faults' = 0 => supported'
  OBVIOUS
<1>14. QED
  BY <1>10, <1>11, <1>12, <1>13

(* The theme leaves: the place that was held is now a call that was sent.  *)
LEMMA SentOne ==
  ASSUME BudgetInv, TypeOK', NEW f \in Flows, CallProvider(f)
  PROVE  BudgetInv'
<1> USE DEF BudgetInv
<1> DEFINE day0 == request[f].day
           r == [request[f] EXCEPT !.pc = "waiting", !.sent = TRUE]
<1>1. request[f] \in Requests /\ request[f].pc = "call" /\ day0 \in Days
  BY DEF TypeOK, CallProvider, At, DaysAreSet
<1>2. r \in Requests /\ r.pc = "waiting" /\ r.day = day0
  BY <1>1 DEF Requests, InService, Called
<1>3. request' = [request EXCEPT ![f] = r] /\ UNCHANGED <<ledger, supported, faults>>
  BY DEF CallProvider, TypeOK
<1> HIDE DEF r
<1>4. ledger \in [Days -> [global : Rows, provider : Rows]] /\ sent \in [Days -> Nat]
  BY DEF TypeOK
<1>5. PICK s \in [Days -> Nat] : s = sent'
  BY DEF TypeOK
<1>6. \A d \in Days : s[d] = sent[d] + Count(d = day0)
  BY <1>1, <1>4, <1>5 DEF CallProvider, Count
<1>7. ASSUME NEW d \in Days
      PROVE  /\ Balanced(request[f], r, ledger[d].global, ledger[d].global, sent[d], s[d], d)
             /\ Settled(request[f], r, ledger[d].global, ledger[d].global, d)
  <2>1. /\ ledger[d].global.reserved \in Nat /\ ledger[d].global.completed \in Nat
        /\ sent[d] \in Nat /\ ledger[d].global.reserved <= DailyLimit
    BY <1>4 DEF Rows, PlacesAreHeld
  <2>2. Count(d = day0) = Count(day0 = d) /\ Count(d = day0) \in Nat
    BY DEF Count
  <2>3. /\ Owes(request[f], d) = Count(day0 = d) /\ Unbooks(request[f], d) = 0
        /\ IsUnderWay(request[f], d) = Count(day0 = d)
        /\ Owes(r, d) = 0 /\ Unbooks(r, d) = Count(day0 = d)
        /\ IsUnderWay(r, d) = Count(day0 = d)
    BY <1>1, <1>2, Weights DEF Called
  <2>4. Balanced(request[f], r, ledger[d].global, ledger[d].global, sent[d], s[d], d)
    BY <1>6, <2>1, <2>2, <2>3 DEF Balanced
  <2>5. Settled(request[f], r, ledger[d].global, ledger[d].global, d)
    BY <2>1, <2>2, <2>3 DEF Settled
  <2>6. QED
    BY <2>4, <2>5
<1>8. PlacesAreHeld'
  BY <1>2, <1>3, <1>4, <1>5, <1>7, PlacesKept
<1>9. RowsAgree'
  BY <1>3 DEF RowsAgree
<1>10. DaysAreSet'
  BY <1>1, <1>2, <1>3, DaysKept
<1>11. QED
  BY <1>3, <1>8, <1>9, <1>10


(* The call is booked, under the day that paid for it: the check of the    *)
(* batch always passes.  The answer may be lost, and then the booking too. *)
LEMMA BookedOne ==
  ASSUME BudgetInv, TypeOK', NEW f \in Flows, At(f, "book"), Booked(f),
         UNCHANGED <<sent, supported>>,
         \/ ledger' = Reconciled(f) /\ faults' = faults
         \/ ledger' \in {ledger, Reconciled(f)} /\ faults' # 0
  PROVE  BudgetInv'
<1> USE DEF BudgetInv
<1> DEFINE day0 == request[f].day
           outcome == request[f].outcome
           row == [global |-> Completed(ledger[day0].global, outcome),
                   provider |-> Completed(ledger[day0].provider, outcome)]
<1>1. /\ day0 \in Days /\ request[f].pc = "book" /\ row \in [global : Rows, provider : Rows]
      /\ Reconciled(f) = ledger \/ Reconciled(f) = [ledger EXCEPT ![day0] = row]
  BY BookingType DEF At
<1>2. PICK r \in Requests : request' = [request EXCEPT ![f] = r] /\ r.pc = "answered"
  BY AnsweredRequest DEF Booked, Disclosed
<1>3. ledger \in [Days -> [global : Rows, provider : Rows]] /\ sent \in [Days -> Nat]
  BY DEF TypeOK
<1>4. PICK l \in [Days -> [global : Rows, provider : Rows]] : l = ledger'
  BY DEF TypeOK
<1>5. \A d \in Days : Owes(request[f], d) = 0 /\ Unbooks(request[f], d) = Count(day0 = d)
                      /\ IsUnderWay(request[f], d) = Count(day0 = d)
  BY <1>1, Weights DEF Called
<1>6. \A d \in Days : Owes(r, d) = 0 /\ Unbooks(r, d) = 0 /\ IsUnderWay(r, d) = 0
  BY <1>2, Weights DEF Called
<1>7. \A d \in Days :
        /\ ledger[d].global.reserved \in Nat /\ ledger[d].global.completed \in Nat
        /\ sent[d] \in Nat /\ ledger[d].global.reserved <= DailyLimit
  BY <1>3 DEF Rows, PlacesAreHeld
<1>8. ledger[day0].global.completed < ledger[day0].global.reserved
  <2>1. f \in Unbooked(day0) /\ IsFiniteSet(Unbooked(day0))
    BY <1>1, FS_Subset, GatewayAssumption DEF Unbooked, Called
  <2>2. Cardinality(Unbooked(day0)) \in Nat /\ Cardinality(Unbooked(day0)) > 0
    BY <2>1, OneDiffers
  <2>3. request \in [Flows -> Requests]
    BY DEF TypeOK
  <2>4. Cardinality(Owing(day0)) \in Nat
    BY <1>2, <2>3, Moved
  <2>5. /\ sent[day0] + Cardinality(Owing(day0)) <= ledger[day0].global.reserved
        /\ ledger[day0].global.completed + Cardinality(Unbooked(day0)) <= sent[day0]
    BY <1>1 DEF PlacesAreHeld
  <2>6. ASSUME NEW c \in Nat, NEW u \in Nat, NEW o \in Nat, NEW s \in Nat, NEW v \in Nat,
               s + o <= v, c + u <= s, u > 0
        PROVE  c < v
    BY <2>6
  <2>7. QED
    BY <1>1, <1>7, <2>2, <2>4, <2>5, <2>6
<1>9. /\ row.global.reserved = ledger[day0].global.reserved
      /\ row.global.completed = ledger[day0].global.completed + 1
  BY <1>1, <1>3 DEF Completed, Rows
<1>10. Reconciled(f) = [ledger EXCEPT ![day0] = row]
  <2>1. row.global.completed <= row.global.reserved
    BY <1>1, <1>7, <1>8, <1>9
  <2>2. [ledger EXCEPT ![day0] = row][day0] = row
    BY <1>1, <1>3
  <2>3. QED
    BY <1>1, <1>3, <2>1, <2>2 DEF Reconciled, BookingDay
<1>11. \A d \in Days :
         /\ l[d].global.reserved = ledger[d].global.reserved
         /\ \/ l[d].global.completed = ledger[d].global.completed + Count(day0 = d)
            \/ l[d].global.completed = ledger[d].global.completed /\ faults' # 0
  <2>1. SUFFICES ASSUME NEW d \in Days
                 PROVE  /\ l[d].global.reserved = ledger[d].global.reserved
                        /\ \/ l[d].global.completed = ledger[d].global.completed + Count(day0 = d)
                           \/ l[d].global.completed = ledger[d].global.completed /\ faults' # 0
    OBVIOUS
  <2> HIDE DEF row
  <2>2. CASE l = ledger /\ faults' # 0
    BY <2>2
  <2>3. CASE l = [ledger EXCEPT ![day0] = row]
    <3>1. CASE d = day0
      <4>1. l[d] = row /\ Count(day0 = d) = 1
        BY <1>1, <1>3, <2>3, <3>1 DEF Count
      <4>2. QED
        BY <1>9, <3>1, <4>1
    <3>2. CASE d # day0
      <4>1. l[d] = ledger[d] /\ Count(day0 = d) = 0
        BY <1>1, <1>3, <2>3, <3>2 DEF Count
      <4>2. QED
        BY <1>7, <4>1
    <3>3. QED
      BY <3>1, <3>2
  <2>4. QED
    BY <1>4, <1>10, <2>2, <2>3
<1>12. ASSUME NEW d \in Days
       PROVE  /\ Balanced(request[f], r, ledger[d].global, l[d].global, sent[d], sent[d], d)
              /\ faults' = 0 => Settled(request[f], r, ledger[d].global, l[d].global, d)
  <2>1. Count(day0 = d) \in 0 .. 1
    BY DEF Count
  <2>2. l[d].global.completed <= ledger[d].global.completed + Count(day0 = d)
    BY <1>7, <1>11, <2>1
  <2>3. l[d].global.completed \in Nat
    BY <1>4 DEF Rows
  <2>4. Balanced(request[f], r, ledger[d].global, l[d].global, sent[d], sent[d], d)
    BY <1>5, <1>6, <1>7, <1>11, <2>1, <2>2, <2>3 DEF Balanced
  <2>5. ASSUME faults' = 0 PROVE Settled(request[f], r, ledger[d].global, l[d].global, d)
    <3>1. l[d].global.completed = ledger[d].global.completed + Count(day0 = d)
      BY <1>11, <2>5
    <3>2. IsUnderWay(request[f], d) = Count(day0 = d) /\ IsUnderWay(r, d) = 0
      BY <1>5, <1>6
    <3>3. PICK rest \in Nat, done \in Nat, one \in Nat :
            /\ rest = ledger[d].global.reserved /\ done = ledger[d].global.completed
            /\ one = Count(day0 = d)
      BY <1>7, <2>1
    <3>4. /\ l[d].global.reserved = rest /\ l[d].global.completed = done + one
          /\ rest + done + one = rest + (done + one) + 0
      BY <1>11, <3>1, <3>3
    <3>5. QED
      BY <3>2, <3>3, <3>4 DEF Settled
  <2>6. QED
    BY <2>4, <2>5
<1>13. PlacesAreHeld'
  <2>1. faults' = 0 => faults = 0
    OBVIOUS
  <2>2. QED
    BY <1>2, <1>3, <1>4, <1>12, <2>1, PlacesKept
<1>14. RowsAgree'
  <2>1. SUFFICES ASSUME NEW d \in Days
                 PROVE  /\ l[d].provider = [l[d].global EXCEPT !.reserved = 0]
                        /\ l[d].global.completed = l[d].global.success + l[d].global.failure
    BY <1>4 DEF RowsAgree
  <2>2. \A e \in Days :
          /\ ledger[e].provider = [ledger[e].global EXCEPT !.reserved = 0]
          /\ ledger[e].global.completed = ledger[e].global.success + ledger[e].global.failure
          /\ ledger[e].global \in Rows
    BY <1>3 DEF RowsAgree
  <2>3. row.provider = [row.global EXCEPT !.reserved = 0]
    <3>1. PICK g \in Rows : g = ledger[day0].global
      BY <1>1, <2>2
    <3>2. ledger[day0].provider = [g EXCEPT !.reserved = 0]
      BY <1>1, <2>2, <3>1
    <3>3. Completed([g EXCEPT !.reserved = 0], outcome) = [Completed(g, outcome) EXCEPT !.reserved = 0]
      BY DEF Completed, Rows
    <3>4. QED
      BY <3>1, <3>2, <3>3
  <2>4. row.global.completed = row.global.success + row.global.failure
    <3>1. PICK g \in Rows : g = ledger[day0].global
      BY <1>1, <2>2
    <3>2. /\ g.completed \in Nat /\ g.success \in Nat /\ g.failure \in Nat
          /\ g.completed = g.success + g.failure
      BY <1>1, <2>2, <3>1 DEF Rows
    <3>3. /\ row.global.completed = g.completed + 1
          /\ row.global.success = g.success + Count(outcome.code = "ok")
          /\ row.global.failure = g.failure + Count(outcome.code # "ok")
      BY <3>1, <3>2 DEF Completed, Rows
    <3>4. Count(outcome.code = "ok") + Count(outcome.code # "ok") = 1
          /\ Count(outcome.code = "ok") \in Nat /\ Count(outcome.code # "ok") \in Nat
      BY DEF Count
    <3> HIDE DEF row, outcome
    <3>5. QED
      BY <3>2, <3>3, <3>4
  <2> HIDE DEF row
  <2>5. l = ledger \/ l = [ledger EXCEPT ![day0] = row]
    BY <1>4, <1>10
  <2>6. l[d] = ledger[d] \/ l[d] = row
    BY <1>1, <1>3, <2>5
  <2>7. QED
    BY <2>2, <2>3, <2>4, <2>6
<1>15. DaysAreSet'
  BY <1>2, DaysKept DEF Called
<1>16. faults' = 0 => supported'
  OBVIOUS
<1>17. QED
  BY <1>13, <1>14, <1>15, <1>16


(* What AfterDescribe makes of an authorized request.                      *)
LEMMA Described ==
  ASSUME TypeOK, NEW f \in Flows, NEW selection \in Selections
  PROVE  LET r == AfterDescribe(f, selection) IN
         /\ r \in Requests
         /\ r.pc \in {"rest", "answered", "marker"}
         /\ r.pc = "marker" => r.day = day /\ r.consent
         /\ r.pc # "rest" => /\ r.sent = request[f].sent /\ r.external = request[f].external
                            /\ r.number = room.number + 1 /\ r.edits = room.edits
<1> DEFINE authorized == [request[f] EXCEPT !.number = room.number + 1, !.edits = room.edits]
           offline == [authorized EXCEPT !.pc = "answered"]
           marker == [authorized EXCEPT !.pc = "marker", !.day = day]
<1>1. request[f] \in Requests /\ room.number + 1 \in Nat /\ room.edits \in Nat /\ day \in Days
  BY DEF TypeOK
<1>2. /\ authorized \in Requests /\ authorized.sent = request[f].sent
      /\ authorized.external = request[f].external
      /\ authorized.number = room.number + 1 /\ authorized.edits = room.edits
  BY <1>1 DEF Requests
<1> HIDE DEF authorized
<1>3. /\ offline \in Requests /\ offline.pc = "answered" /\ offline.sent = request[f].sent
      /\ offline.external = request[f].external
      /\ offline.number = room.number + 1 /\ offline.edits = room.edits
  BY <1>2 DEF Requests
<1>4. /\ marker \in Requests /\ marker.pc = "marker" /\ marker.sent = request[f].sent
      /\ marker.day = day /\ marker.consent = authorized.consent
      /\ marker.external = request[f].external
      /\ marker.number = room.number + 1 /\ marker.edits = room.edits
  BY <1>1, <1>2 DEF Requests, InService
<1>5. Rest \in Requests /\ Rest.pc = "rest"
  BY RestType DEF Rest
<1>6. \/ AfterDescribe(f, selection) = offline
      \/ AfterDescribe(f, selection) = Rest
      \/ AfterDescribe(f, selection) = marker /\ authorized.consent
  <2>1. authorized.consent \in BOOLEAN
    BY <1>2 DEF Requests
  <2>2. CASE selection \notin Remote
    BY <2>2 DEF AfterDescribe, authorized
  <2>3. CASE selection \in Remote /\ ~authorized.consent
    BY <2>3 DEF AfterDescribe, authorized
  <2>4. CASE selection \in Remote /\ authorized.consent /\ selection = "remote-without-limit"
    BY <2>4 DEF AfterDescribe, authorized
  <2>5. CASE selection \in Remote /\ authorized.consent /\ selection # "remote-without-limit"
    BY <2>5 DEF AfterDescribe, authorized
  <2>6. QED
    BY <2>1, <2>2, <2>3, <2>4, <2>5
<1> HIDE DEF offline, marker
<1>7. QED
  BY <1>3, <1>4, <1>5, <1>6

LEMMA BudgetNext == BudgetInv /\ [Next]_vars => BudgetInv'
<1> SUFFICES ASSUME BudgetInv, [Next]_vars PROVE BudgetInv'
  OBVIOUS
<1>1. TypeOK /\ TypeOK' /\ DaysAreSet /\ faults \in Nat
  BY TypeNext DEF BudgetInv, TypeOK
<1>2. \A f \in Flows : request[f] \in Requests
  BY <1>1 DEF TypeOK
<1> DEFINE Idle(pc) == pc \notin {"marker", "reserve", "call"} \cup Called
           Uncounted(pc) == pc \notin {"call"} \cup Called
<1>3. ASSUME NEW f \in Flows, NEW r \in Requests, request' = [request EXCEPT ![f] = r],
             UNCHANGED <<ledger, sent, supported>>, faults' = 0 => faults = 0,
             Idle(r.pc) \/ r.day \in Days,
             \/ Uncounted(r.pc) /\ (Uncounted(request[f].pc) \/ faults' # 0)
             \/ r.pc \in Called /\ request[f].pc \in Called /\ r.day = request[f].day
      PROVE  BudgetInv'
  <2>1. ASSUME NEW d \in Days
        PROVE  Owes(r, d) <= Owes(request[f], d) /\ Unbooks(r, d) <= Unbooks(request[f], d)
               /\ (faults' = 0 => IsUnderWay(r, d) = IsUnderWay(request[f], d))
    <3>1. CASE Uncounted(r.pc) /\ (Uncounted(request[f].pc) \/ faults' # 0)
      <4>1. Owes(r, d) = 0 /\ Unbooks(r, d) = 0 /\ IsUnderWay(r, d) = 0
        BY <3>1, Weights
      <4>2. Owes(request[f], d) \in 0 .. 1 /\ Unbooks(request[f], d) \in 0 .. 1
        BY Weights
      <4>3. Uncounted(request[f].pc) => IsUnderWay(request[f], d) = 0
        BY Weights
      <4>4. QED
        BY <3>1, <4>1, <4>2, <4>3
    <3>2. CASE r.pc \in Called /\ request[f].pc \in Called /\ r.day = request[f].day
      <4>1. Owes(r, d) = Owes(request[f], d) /\ Unbooks(r, d) = Unbooks(request[f], d)
            /\ IsUnderWay(r, d) = IsUnderWay(request[f], d)
        BY <3>2, Weights
      <4>2. Owes(r, d) \in 0 .. 1 /\ Unbooks(r, d) \in 0 .. 1
        BY Weights
      <4>3. QED
        BY <4>1, <4>2
    <3>3. QED
      BY <1>3, <3>1, <3>2
  <2>2. QED
    BY <1>1, <1>3, <2>1, QuietStep
<1>4. ASSUME NEW f \in Flows, NEW token \in Browsers, NEW consent \in BOOLEAN, Ask(f, token, consent)
      PROVE  BudgetInv'
  <2>1. [Rest EXCEPT !.pc = "authorize", !.token = token, !.consent = consent] \in Requests
    BY RestType DEF Requests, InService
  <2>2. [Rest EXCEPT !.pc = "authorize", !.token = token, !.consent = consent].pc = "authorize"
    BY DEF Rest
  <2>3. QED
    BY <1>3, <1>4, <2>1, <2>2 DEF Ask, At, Called
<1>5. ASSUME NEW f \in Flows, ReceiveAnswer(f) PROVE BudgetInv'
  BY <1>3, <1>5, RestType DEF ReceiveAnswer, At, Rest, Called
<1>6. ASSUME NEW f \in Flows, NEW answerLost \in BOOLEAN, Authorize(f, answerLost) PROVE BudgetInv'
  <2>1. PICK r \in Requests :
          /\ request' = [request EXCEPT ![f] = r] /\ r.pc \in {"rest", "answered", "marker"}
          /\ r.pc = "marker" => r.day \in Days
    <3>1. Rest \in Requests /\ Rest.pc = "rest"
      BY RestType DEF Rest
    <3>2. day \in Days
      BY <1>1 DEF TypeOK
    <3>3. QED
      BY <1>1, <1>6, <3>1, <3>2, Described DEF Authorize
  <2>2. faults' = 0 => faults = 0
    BY <1>1, <1>6 DEF Authorize, Count
  <2>3. request[f].pc = "authorize" /\ UNCHANGED <<ledger, sent, supported>>
    BY <1>6 DEF Authorize, At
  <2>4. QED
    BY <1>3, <2>1, <2>2, <2>3 DEF Called
<1>7. ASSUME NEW f \in Flows, ReadMarker(f) PROVE BudgetInv'
  <2>1. /\ request[f].pc = "marker" /\ UNCHANGED <<ledger, sent, supported, faults>>
        /\ request[f].day \in Days
    BY <1>1, <1>7 DEF ReadMarker, At, DaysAreSet
  <2>2. PICK r \in Requests :
          /\ request' = [request EXCEPT ![f] = r]
          /\ r.pc = "answered" \/ (r.pc = "reserve" /\ r.day = request[f].day)
    <3>1. CASE supported
      BY <1>1, <1>7, <3>1, MovedRequest DEF ReadMarker, InService
    <3>2. CASE ~supported
      BY <1>1, <1>7, <3>2, AnsweredRequest DEF ReadMarker, OfflineDraft
    <3>3. QED
      BY <3>1, <3>2
  <2>3. QED
    BY <1>3, <2>1, <2>2 DEF Called
<1>8. ASSUME NEW f \in Flows, Reserve(f) PROVE BudgetInv'
  <2>1. request[f].pc = "reserve" /\ UNCHANGED <<sent, supported, faults>>
    BY <1>8 DEF Reserve, At
  <2>2. CASE UnderLimit(ledger[request[f].day].global)
    <3>1. PICK r \in Requests : request' = [request EXCEPT ![f] = r] /\ r.pc = "call" /\ r.day = request[f].day
      BY <1>1, <1>8, <2>2, MovedRequest DEF Reserve, InService
    <3>2. QED
      BY <1>1, <1>8, <2>1, <2>2, <3>1, ReservedOne DEF Reserve, At
  <2>3. CASE ~UnderLimit(ledger[request[f].day].global)
    <3>1. PICK r \in Requests : request' = [request EXCEPT ![f] = r] /\ r.pc = "answered"
      BY <1>1, <1>8, <2>3, AnsweredRequest DEF Reserve, OfflineDraft
    <3>2. QED
      BY <1>3, <1>8, <2>1, <2>3, <3>1 DEF Reserve, Called
  <2>4. QED
    BY <2>2, <2>3
<1>9. ASSUME NEW f \in Flows, NEW committed \in BOOLEAN, ReserveFails(f, committed) PROVE BudgetInv'
  <2>1. request[f].pc = "reserve" /\ UNCHANGED <<sent, supported>> /\ faults' # 0
    BY <1>1, <1>9 DEF ReserveFails, At
  <2>2. PICK r \in Requests : request' = [request EXCEPT ![f] = r] /\ r.pc = "answered"
    BY <1>1, <1>9, AnsweredRequest DEF ReserveFails, OfflineDraft
  <2>3. CASE committed /\ UnderLimit(ledger[request[f].day].global)
    BY <1>1, <1>9, <2>1, <2>2, <2>3, ReservedOne DEF ReserveFails, At
  <2>4. CASE ~(committed /\ UnderLimit(ledger[request[f].day].global))
    BY <1>3, <1>9, <2>1, <2>2, <2>4 DEF ReserveFails, Called
  <2>5. QED
    BY <2>3, <2>4
<1>10. ASSUME NEW f \in Flows, CallProvider(f) PROVE BudgetInv'
  BY <1>1, <1>10, SentOne
<1>11. ASSUME NEW f \in Flows, ProviderAnswers(f) \/ TimesOut(f) PROVE BudgetInv'
  <2>1. [code |-> "TIMEOUT", tokens |-> 0] \in [code : Codes, tokens : Nat]
    BY DEF Codes
  <2>2. \A outcome \in Outcomes : outcome \in [code : Codes, tokens : Nat]
    BY OutcomesType
  <2>3. PICK outcome \in [code : Codes, tokens : Nat] : Ended(f, outcome)
    BY <1>11, <2>1, <2>2 DEF ProviderAnswers, TimesOut
  <2>4. PICK r \in Requests :
          request' = [request EXCEPT ![f] = r] /\ r.pc = "recheck" /\ r.day = request[f].day
    <3>1. [request[f] EXCEPT !.pc = "recheck", !.outcome = outcome] \in Requests
      BY <1>2 DEF Requests, InService, Called
    <3>2. QED
      BY <1>1, <1>2, <2>3, <3>1 DEF Ended, TypeOK, Requests
  <2>5. request[f].pc = "waiting" /\ UNCHANGED <<ledger, sent, supported, faults>>
        /\ request[f].day \in Days
    BY <1>1, <2>3 DEF Ended, At, DaysAreSet, Called
  <2>6. QED
    BY <1>3, <2>4, <2>5 DEF Called
<1>12. ASSUME NEW f \in Flows, RecheckMarker(f) PROVE BudgetInv'
  <2>1. request[f].pc = "recheck" /\ UNCHANGED <<ledger, sent, supported, faults>>
        /\ request[f].day \in Days
    BY <1>1, <1>12 DEF RecheckMarker, At, DaysAreSet, Called
  <2>2. CASE supported
    <3>1. PICK r \in Requests : request' = [request EXCEPT ![f] = r] /\ r.pc = "book" /\ r.day = request[f].day
      BY <1>1, <1>12, <2>2, MovedRequest DEF RecheckMarker, InService, Called
    <3>2. QED
      BY <1>3, <2>1, <3>1 DEF Called
  <2>3. CASE ~supported
    <3>1. PICK r \in Requests : request' = [request EXCEPT ![f] = r] /\ r.pc = "answered"
      BY <1>1, <1>12, <2>3, AnsweredRequest DEF RecheckMarker, Booked, Disclosed
    <3>2. faults # 0
      BY <2>3 DEF BudgetInv
    <3>3. QED
      BY <1>3, <2>1, <3>1, <3>2 DEF Called
  <2>4. QED
    BY <2>2, <2>3
<1>13. ASSUME NEW f \in Flows, Reconcile(f) PROVE BudgetInv'
  BY <1>1, <1>13, BookedOne DEF Reconcile
<1>14. ASSUME NEW f \in Flows, NEW committed \in BOOLEAN, ReconcileFails(f, committed) PROVE BudgetInv'
  <2>1. faults' # 0 /\ ledger' \in {ledger, Reconciled(f)}
    BY <1>1, <1>14 DEF ReconcileFails
  <2>2. QED
    BY <1>1, <1>14, <2>1, BookedOne DEF ReconcileFails
<1>15. ASSUME NEW f \in Flows, IsolateDies(f) PROVE BudgetInv'
  <2>1. faults' # 0 /\ request' = [request EXCEPT ![f] = Rest] /\ UNCHANGED <<ledger, sent, supported>>
    BY <1>1, <1>15 DEF IsolateDies
  <2>2. Rest \in Requests /\ Rest.pc = "rest"
    BY RestType DEF Rest
  <2>3. QED
    BY <1>3, <2>1, <2>2 DEF Called
<1>16. ASSUME \/ EditTopics \/ ChangePhase \/ \E token \in Browsers : ChangeHost(token)
              \/ SchemaChanges \/ Midnight \/ UNCHANGED vars
       PROVE  BudgetInv'
  <2>1. UNCHANGED <<request, ledger, sent>>
    BY <1>16 DEF EditTopics, ChangePhase, ChangeHost, SchemaChanges, Midnight, vars
  <2>2. faults' = 0 => faults = 0 /\ supported' = supported
    BY <1>1, <1>16 DEF EditTopics, ChangePhase, ChangeHost, SchemaChanges, Midnight, vars
  <2>3. QED
    BY <1>1, <2>1, <2>2, NoRequestMoves
<1>17. QED
  BY <1>4, <1>5, <1>6, <1>7, <1>8, <1>9, <1>10, <1>11, <1>12, <1>13, <1>14, <1>15, <1>16
     DEF Next, Serve, Fails

(* No day sends more calls than the operator allows, each is booked at most *)
(* once and under the day that paid, and only a fault leaves one unbooked   *)
(* (reserveDailyCall, safelyReconcileUsage).                                *)
THEOREM BudgetKept == Spec => []BudgetIsKept
<1>1. BudgetInv => BudgetIsKept
  <2> SUFFICES ASSUME BudgetInv PROVE BudgetIsKept
    OBVIOUS
  <2>1. request \in [Flows -> Requests] /\ TypeOK
    BY DEF BudgetInv, TypeOK
  <2>2. ASSUME NEW d \in Days
        PROVE  /\ ledger[d].global.reserved \in Nat /\ ledger[d].global.completed \in Nat
               /\ sent[d] \in Nat /\ DailyLimit \in Nat
               /\ Cardinality(Owing(d)) \in Nat /\ Cardinality(Unbooked(d)) \in Nat
    <3>1. IsFiniteSet(Owing(d)) /\ IsFiniteSet(Unbooked(d))
      BY GatewayAssumption, FS_Subset DEF Owing, Unbooked
    <3>2. Cardinality(Owing(d)) \in Nat /\ Cardinality(Unbooked(d)) \in Nat
      BY <3>1, FS_CardinalityType
    <3>3. QED
      BY <2>1, <3>2, GatewayAssumption DEF TypeOK, Rows
  <2>3. ASSUME NEW d \in Days
        PROVE  /\ ledger[d].global.reserved <= DailyLimit
               /\ sent[d] <= ledger[d].global.reserved
               /\ ledger[d].global.completed <= sent[d]
               /\ sent[d] <= DailyLimit
    <3>1. /\ ledger[d].global.reserved <= DailyLimit
          /\ sent[d] + Cardinality(Owing(d)) <= ledger[d].global.reserved
          /\ ledger[d].global.completed + Cardinality(Unbooked(d)) <= sent[d]
      BY DEF BudgetInv, PlacesAreHeld
    <3>2. ASSUME NEW c \in Nat, NEW u \in Nat, NEW o \in Nat, NEW s \in Nat, NEW v \in Nat,
                 NEW m \in Nat, v <= m, s + o <= v, c + u <= s
          PROVE  s <= v /\ c <= s /\ s <= m
      BY <3>2
    <3>3. QED
      BY <2>2, <3>1, <3>2
  <2>4. BudgetHolds
    BY <2>3 DEF BudgetHolds
  <2>5. LedgerAgrees
    BY <2>3 DEF LedgerAgrees, BudgetInv, RowsAgree
  <2>6. UnbookedIsUnderWay
    BY DEF UnbookedIsUnderWay, BudgetInv, PlacesAreHeld, UnderWay
  <2>7. QED
    BY <2>1, <2>4, <2>5, <2>6 DEF BudgetIsKept
<1>2. QED
  BY <1>1, InitBudget, BudgetNext, PTL DEF Spec


-----------------------------------------------------------------------------
(* What leaves for the provider, and what replaces the topics              *)

\* A request has left its theme when it was sent, and not before; a theme leaves with
\* consent, and the answer says whether it left.
ThemeIsKept(r) ==
  /\ r.pc = "authorize" => ~r.sent /\ ~r.external
  /\ r.pc \in {"marker", "reserve", "call"} => ~r.sent /\ r.consent
  /\ r.pc \in Called => r.sent /\ r.consent
  /\ r.pc = "answered" => (r.sent => r.consent) /\ (r.external <=> r.sent)

\* The number a request was given tells whether the list was edited since.
NumberTells(r) ==
  r.pc \notin {"rest", "authorize"} =>
    /\ r.number <= room.number
    /\ r.number = room.number => r.edits = room.edits

HostInv == \A f \in Flows : ThemeIsKept(request[f]) /\ NumberTells(request[f])

LEMMA InitHost == Init => HostInv
BY DEF Init, HostInv, ThemeIsKept, NumberTells, Rest, Called

LEMMA NumberStays ==
  ASSUME TypeOK, TypeOK', NEW r \in Requests, NumberTells(r),
         \/ room'.number = room.number /\ room'.edits = room.edits
         \/ room'.number = room.number + 1
  PROVE  (r.pc \notin {"rest", "authorize"} =>
            /\ r.number <= room'.number
            /\ r.number = room'.number => r.edits = room'.edits)
<1>1. PICK n \in Nat, m \in Nat : n = room.number /\ m = room'.number
  BY DEF TypeOK
<1>2. r.number \in Nat
  BY DEF Requests
<1>3. CASE room'.number = room.number /\ room'.edits = room.edits
  BY <1>3 DEF NumberTells
<1>4. CASE room'.number = room.number + 1
  <2>1. m = n + 1
    BY <1>1, <1>4
  <2>2. r.number <= n => r.number <= m /\ r.number # m
    BY <1>1, <1>2, <2>1
  <2>3. QED
    BY <1>1, <2>2 DEF NumberTells
<1>5. QED
  BY <1>3, <1>4

(* One request moves, while the room may be given the next number.         *)
LEMMA HostStep ==
  ASSUME TypeOK, TypeOK', HostInv, NEW f \in Flows, NEW r \in Requests,
         request' = [request EXCEPT ![f] = r],
         \/ room'.number = room.number /\ room'.edits = room.edits
         \/ room'.number = room.number + 1,
         ThemeIsKept(r),
         \/ r.pc \in {"rest", "authorize"}
         \/ NumberTells(r)
         \/ r.number = room'.number /\ r.edits = room'.edits
  PROVE  HostInv'
<1> SUFFICES ASSUME NEW g \in Flows
             PROVE  /\ ThemeIsKept(request'[g])
                    /\ request'[g].pc \notin {"rest", "authorize"} =>
                         /\ request'[g].number <= room'.number
                         /\ request'[g].number = room'.number => request'[g].edits = room'.edits
  BY DEF HostInv, NumberTells, ThemeIsKept
<1>1. request'[f] = r /\ (g # f => request'[g] = request[g]) /\ request[g] \in Requests
  BY DEF TypeOK
<1>2. room'.number \in Nat
  BY DEF TypeOK
<1>3. CASE g # f
  BY <1>1, <1>3, NumberStays DEF HostInv
<1>4. CASE g = f
  <2>1. r.pc \notin {"rest", "authorize"} =>
          /\ r.number <= room'.number
          /\ r.number = room'.number => r.edits = room'.edits
    <3>1. CASE r.number = room'.number /\ r.edits = room'.edits
      BY <1>2, <3>1
    <3>2. CASE r.pc \in {"rest", "authorize"}
      BY <3>2
    <3>3. CASE NumberTells(r)
      BY <3>3, NumberStays
    <3>4. QED
      BY <3>1, <3>2, <3>3
  <2>2. QED
    BY <1>1, <1>4, <2>1
<1>5. QED
  BY <1>3, <1>4

LEMMA AnswerKeepsHost ==
  ASSUME TypeOK, TypeOK', HostInv, NEW f \in Flows, NEW external \in BOOLEAN, Answer(f, external),
         external = request[f].sent, request[f].pc \in {"marker", "reserve", "call"} \cup Called,
         UNCHANGED room
  PROVE  HostInv'
<1>1. PICK r \in Requests :
        /\ request' = [request EXCEPT ![f] = r]
        /\ r.pc = "answered" /\ r.sent = request[f].sent /\ r.consent = request[f].consent
        /\ r.external = external /\ r.number = request[f].number /\ r.edits = request[f].edits
  BY AnsweredRequest
<1>2. ThemeIsKept(r)
  BY <1>1 DEF HostInv, ThemeIsKept, Called
<1>3. NumberTells(r)
  BY <1>1 DEF HostInv, NumberTells, Called
<1>4. QED
  BY <1>1, <1>2, <1>3, HostStep

LEMMA HostNext == TypeOK /\ TypeOK' /\ HostInv /\ [Next]_vars => HostInv'
<1> SUFFICES ASSUME TypeOK, TypeOK', HostInv, [Next]_vars PROVE HostInv'
  OBVIOUS
<1>1. \A f \in Flows : request[f] \in Requests /\ ThemeIsKept(request[f]) /\ NumberTells(request[f])
  BY DEF TypeOK, HostInv
<1>2. Rest \in Requests /\ Rest.pc = "rest" /\ ThemeIsKept(Rest)
  BY RestType DEF Rest, ThemeIsKept, Called
<1>3. ASSUME NEW f \in Flows, NEW token \in Browsers, NEW consent \in BOOLEAN, Ask(f, token, consent)
      PROVE  HostInv'
  <2> DEFINE r == [Rest EXCEPT !.pc = "authorize", !.token = token, !.consent = consent]
  <2>1. r \in Requests /\ r.pc = "authorize" /\ ~r.sent /\ ~r.external
    BY RestType DEF Requests, InService, Rest
  <2>2. ThemeIsKept(r)
    BY <2>1 DEF ThemeIsKept, Called
  <2>3. request' = [request EXCEPT ![f] = r] /\ UNCHANGED room
    BY <1>3 DEF Ask
  <2> HIDE DEF r
  <2>4. QED
    BY <2>1, <2>2, <2>3, HostStep
<1>4. ASSUME NEW f \in Flows, ReceiveAnswer(f) PROVE HostInv'
  <2>1. room' = NewList \/ room' = room
    BY <1>4 DEF ReceiveAnswer
  <2>2. QED
    BY <1>2, <1>4, <2>1, RoomTyped, HostStep DEF ReceiveAnswer
<1>5. ASSUME NEW f \in Flows, NEW answerLost \in BOOLEAN, Authorize(f, answerLost) PROVE HostInv'
  <2>1. request[f].pc = "authorize" /\ ~request[f].sent /\ ~request[f].external
    BY <1>1, <1>5 DEF Authorize, At, ThemeIsKept
  <2>2. room' = room \/ (room'.number = room.number + 1 /\ room'.edits = room.edits)
    BY <1>5 DEF Authorize, TypeOK
  <2>3. CASE request' = [request EXCEPT ![f] = Rest]
    BY <1>2, <2>2, <2>3, HostStep
  <2>4. ASSUME NEW selection \in Selections, room'.number = room.number + 1, room'.edits = room.edits,
               request' = [request EXCEPT ![f] = AfterDescribe(f, selection)]
        PROVE  HostInv'
    <3>1. PICK r \in Requests :
            /\ r = AfterDescribe(f, selection) /\ r.pc \in {"rest", "answered", "marker"}
            /\ r.pc = "marker" => r.consent
            /\ r.pc # "rest" => /\ r.sent = request[f].sent /\ r.external = request[f].external
                               /\ r.number = room.number + 1 /\ r.edits = room.edits
      BY Described
    <3>2. ThemeIsKept(r)
      BY <2>1, <3>1 DEF ThemeIsKept, Called
    <3>3. r.pc \in {"rest", "authorize"} \/ (r.number = room'.number /\ r.edits = room'.edits)
      BY <2>4, <3>1
    <3>4. QED
      BY <2>4, <3>1, <3>2, <3>3, HostStep
  <2>5. QED
    BY <1>5, <2>2, <2>3, <2>4 DEF Authorize, TypeOK
<1>6. ASSUME NEW f \in Flows, NEW pc \in InService, GoesTo(f, pc), UNCHANGED room,
             \/ request[f].pc \in {"marker", "reserve"} /\ pc \in {"reserve", "call"}
             \/ request[f].pc \in Called /\ pc \in Called
      PROVE  HostInv'
  <2>1. PICK r \in Requests :
          request' = [request EXCEPT ![f] = r] /\ r = [request[f] EXCEPT !.pc = pc] /\ r.pc = pc
    BY <1>6, MovedRequest
  <2>2. /\ r.sent = request[f].sent /\ r.consent = request[f].consent
        /\ r.number = request[f].number /\ r.edits = request[f].edits
    BY <1>1, <2>1 DEF Requests
  <2>3. ThemeIsKept(r) /\ NumberTells(r)
    BY <1>1, <1>6, <2>1, <2>2 DEF ThemeIsKept, NumberTells, Called
  <2>4. QED
    BY <1>6, <2>1, <2>3, HostStep
<1>7. ASSUME NEW f \in Flows, ReadMarker(f) PROVE HostInv'
  <2>1. request[f].pc = "marker" /\ request[f].sent = FALSE /\ UNCHANGED room
    BY <1>1, <1>7 DEF ReadMarker, At, ThemeIsKept, Requests
  <2>2. QED
    BY <1>6, <1>7, <2>1, AnswerKeepsHost DEF ReadMarker, OfflineDraft, InService
<1>8. ASSUME NEW f \in Flows, Reserve(f) \/ \E committed \in BOOLEAN : ReserveFails(f, committed)
      PROVE  HostInv'
  <2>1. request[f].pc = "reserve" /\ request[f].sent = FALSE /\ UNCHANGED room
    BY <1>1, <1>8 DEF Reserve, ReserveFails, At, ThemeIsKept, Requests
  <2>2. GoesTo(f, "call") \/ Answer(f, FALSE)
    BY <1>8 DEF Reserve, ReserveFails, OfflineDraft
  <2>3. QED
    BY <1>6, <2>1, <2>2, AnswerKeepsHost DEF InService
<1>9. ASSUME NEW f \in Flows, NEW r \in Requests, request' = [request EXCEPT ![f] = r],
             r.pc \in Called, r.sent, r.consent = request[f].consent,
             r.number = request[f].number, r.edits = request[f].edits,
             request[f].pc \in {"call"} \cup Called, UNCHANGED room
      PROVE  HostInv'
  <2>1. ThemeIsKept(r) /\ NumberTells(r)
    BY <1>1, <1>9 DEF ThemeIsKept, NumberTells, Called
  <2>2. QED
    BY <1>9, <2>1, HostStep
<1>10. ASSUME NEW f \in Flows, CallProvider(f) PROVE HostInv'
  <2> DEFINE r == [request[f] EXCEPT !.pc = "waiting", !.sent = TRUE]
  <2>1. /\ r \in Requests /\ r.pc \in Called /\ r.sent /\ r.consent = request[f].consent
        /\ r.number = request[f].number /\ r.edits = request[f].edits
    BY <1>1 DEF Requests, InService, Called
  <2>2. /\ request' = [request EXCEPT ![f] = r] /\ request[f].pc = "call" /\ UNCHANGED room
    BY <1>10 DEF CallProvider, At, TypeOK
  <2> HIDE DEF r
  <2>3. QED
    BY <1>9, <2>1, <2>2
<1>11. ASSUME NEW f \in Flows, ProviderAnswers(f) \/ TimesOut(f) PROVE HostInv'
  <2>1. [code |-> "TIMEOUT", tokens |-> 0] \in [code : Codes, tokens : Nat]
    BY DEF Codes
  <2>2. \A outcome \in Outcomes : outcome \in [code : Codes, tokens : Nat]
    BY OutcomesType
  <2>3. PICK outcome \in [code : Codes, tokens : Nat] : Ended(f, outcome)
    BY <1>11, <2>1, <2>2 DEF ProviderAnswers, TimesOut
  <2> DEFINE r == [request[f] EXCEPT !.pc = "recheck", !.outcome = outcome]
  <2>4. request[f].pc = "waiting" /\ request[f].sent /\ UNCHANGED room
    BY <1>1, <2>3 DEF Ended, At, ThemeIsKept, Called
  <2>5. /\ r \in Requests /\ r.pc \in Called /\ r.sent = request[f].sent
        /\ r.consent = request[f].consent
        /\ r.number = request[f].number /\ r.edits = request[f].edits
    BY <1>1 DEF Requests, InService, Called
  <2>6. request' = [request EXCEPT ![f] = r]
    BY <2>3 DEF Ended, TypeOK
  <2> HIDE DEF r
  <2>7. QED
    BY <1>9, <2>4, <2>5, <2>6 DEF Called
<1>12. ASSUME NEW f \in Flows, Booked(f), request[f].pc \in Called, UNCHANGED room PROVE HostInv'
  <2>1. request[f].sent = TRUE
    BY <1>1, <1>12 DEF ThemeIsKept, Requests
  <2>2. QED
    BY <1>12, <2>1, AnswerKeepsHost DEF Booked, Disclosed
<1>13. ASSUME NEW f \in Flows, RecheckMarker(f) PROVE HostInv'
  <2>1. request[f].pc \in Called /\ UNCHANGED room /\ (GoesTo(f, "book") \/ Booked(f))
    BY <1>13 DEF RecheckMarker, At, Called
  <2>2. QED
    BY <1>6, <1>12, <2>1 DEF InService, Called
<1>14. ASSUME NEW f \in Flows, Reconcile(f) \/ \E committed \in BOOLEAN : ReconcileFails(f, committed)
       PROVE  HostInv'
  BY <1>12, <1>14 DEF Reconcile, ReconcileFails, At, Called
<1>15. ASSUME NEW f \in Flows, IsolateDies(f) PROVE HostInv'
  BY <1>2, <1>15, HostStep DEF IsolateDies
<1>16. ASSUME \/ EditTopics \/ ChangePhase \/ \E token \in Browsers : ChangeHost(token)
              \/ SchemaChanges \/ Midnight \/ UNCHANGED vars
       PROVE  HostInv'
  <2>1. UNCHANGED request
    BY <1>16 DEF EditTopics, ChangePhase, ChangeHost, SchemaChanges, Midnight, vars
  <2>2. \/ room'.number = room.number /\ room'.edits = room.edits
        \/ room'.number = room.number + 1
    BY <1>16, RoomTyped DEF EditTopics, ChangePhase, ChangeHost, SchemaChanges, Midnight, vars, TypeOK
  <2>3. QED
    BY <1>1, <2>1, <2>2, NumberStays DEF HostInv, NumberTells, ThemeIsKept
<1>17. QED
  BY <1>3, <1>4, <1>5, <1>7, <1>8, <1>10, <1>11, <1>13, <1>14, <1>15, <1>16
     DEF Next, Serve, Fails

(* An answer that moves the room was given its number for the list as it is. *)
LEMMA HostStepIsFair ==
  ASSUME TypeOK, HostInv, [Next]_vars
  PROVE  [\A f \in Flows : At(f, "answered") /\ ~At(f, "answered")' /\ room' # room
            => room.edits = request[f].edits]_vars
<1>1. SUFFICES ASSUME Next, NEW g \in Flows, request[g].pc = "answered",
                      request'[g].pc # "answered", room' # room
               PROVE  room.edits = request[g].edits
  BY DEF At
<1>2. ASSUME NEW f \in Flows, ReceiveAnswer(f) PROVE room.edits = request[g].edits
  <2>1. f = g
    BY <1>1, <1>2 DEF ReceiveAnswer, TypeOK
  <2>2. request[g].number = room.number
    BY <1>1, <1>2, <2>1 DEF ReceiveAnswer, DraftIsCurrent
  <2>3. QED
    BY <1>1, <2>2 DEF HostInv, NumberTells
<1>3. ASSUME NEW f \in Flows, Authorize(f, TRUE) \/ Authorize(f, FALSE)
      PROVE  FALSE
  <2>1. request[f].pc = "authorize" /\ f # g
    BY <1>1, <1>3 DEF Authorize, At
  <2>2. \E r : request' = [request EXCEPT ![f] = r]
    BY <1>3 DEF Authorize
  <2>3. request'[g] = request[g]
    BY <2>1, <2>2 DEF TypeOK
  <2>4. QED
    BY <1>1, <2>3
<1>4. ASSUME EditTopics \/ ChangePhase \/ \E token \in Browsers : ChangeHost(token)
      PROVE  FALSE
  BY <1>1, <1>4 DEF EditTopics, ChangePhase, ChangeHost
<1>5. ASSUME NEW f \in Flows,
             \/ \E token \in Browsers, consent \in BOOLEAN : Ask(f, token, consent)
             \/ ReadMarker(f) \/ Reserve(f) \/ CallProvider(f)
             \/ RecheckMarker(f) \/ Reconcile(f) \/ IsolateDies(f)
             \/ \E committed \in BOOLEAN : ReserveFails(f, committed) \/ ReconcileFails(f, committed)
      PROVE  FALSE
  BY <1>1, <1>5 DEF Ask, ReadMarker, Reserve, CallProvider, RecheckMarker, Reconcile, IsolateDies,
                    ReserveFails, ReconcileFails
<1>6. ASSUME NEW f \in Flows, ProviderAnswers(f) \/ TimesOut(f) PROVE FALSE
  BY <1>1, <1>6 DEF ProviderAnswers, TimesOut, Ended
<1>7. ASSUME SchemaChanges \/ Midnight PROVE FALSE
  BY <1>1, <1>7 DEF SchemaChanges, Midnight
<1>8. QED
  BY <1>1, <1>2, <1>3, <1>4, <1>5, <1>6, <1>7 DEF Next, Serve, Fails

(* HostDecides, for any browsers, requests and budget: a theme leaves with *)
(* consent only, the browser is told exactly when it left, and a generated *)
(* draft never replaces topics edited since it was asked for               *)
(* (model-routes.ts:210, 232, game.ts:345).                                *)
THEOREM HostDecided == Spec => HostDecides
<1> DEFINE Fair == [\A f \in Flows : At(f, "answered") /\ ~At(f, "answered")' /\ room' # room
                      => room.edits = request[f].edits]_vars
<1>1. BudgetInv => TypeOK
  BY DEF BudgetInv
<1>2. Init => HostInv
  BY InitHost
<1>3. BudgetInv /\ BudgetInv' => TypeOK /\ TypeOK'
  BY DEF BudgetInv
<1>4. BudgetInv /\ BudgetInv' /\ HostInv /\ [Next]_vars => HostInv'
  BY <1>3, HostNext
<1>5. BudgetInv /\ HostInv => ContactIsDisclosed
  <2>1. SUFFICES ASSUME TypeOK, HostInv, NEW f \in Flows, request[f].pc \notin {"rest", "authorize"}
                 PROVE  /\ request[f].sent => request[f].consent
                        /\ At(f, "answered") => (request[f].external <=> request[f].sent)
    BY <1>1 DEF ContactIsDisclosed
  <2>2. request[f].pc \in {"marker", "reserve", "call", "answered"} \cup Called /\ request[f].sent \in BOOLEAN
    BY <2>1 DEF TypeOK, Requests, InService
  <2>3. ThemeIsKept(request[f])
    BY <2>1 DEF HostInv
  <2>4. QED
    BY <2>2, <2>3 DEF ThemeIsKept, At
<1>6. BudgetInv /\ HostInv /\ [Next]_vars => Fair
  BY <1>1, HostStepIsFair
<1>7. Spec => [](BudgetInv /\ HostInv)
  BY <1>2, <1>4, InitBudget, BudgetNext, PTL DEF Spec
<1>8. Spec => []ContactIsDisclosed
  BY <1>5, <1>7, PTL
<1>9. Spec => NewerEditsSurvive
  BY <1>6, <1>7, PTL DEF Spec, NewerEditsSurvive
<1>10. QED
  BY <1>8, <1>9 DEF HostDecides

=============================================================================
