------------------------ MODULE TopicGatewayProperties ------------------------
(* What the topic gateway promises to the operator, the host and the room. *)
EXTENDS TopicGateway

Called == {"waiting", "recheck", "book"}
InService == {"authorize", "marker", "reserve", "call"} \cup Called

Rows == [reserved : Nat, completed : Nat, success : Nat, failure : Nat, tokens : Nat]

Codes == {"none", "ok", "REMOTE_ERROR", "RESPONSE_TOO_LARGE", "INVALID_RESPONSE", "TIMEOUT"}
Requests ==
  [pc : {"rest", "answered"} \cup InService, token : Browsers, consent : BOOLEAN,
   number : Nat, edits : Nat, day : {0} \cup Days, sent : BOOLEAN,
   outcome : [code : Codes, tokens : Nat], external : BOOLEAN]

(* The state has its type. *)
TypeOK ==
  /\ room \in [host : Browsers, phase : {"setup", "playing"}, number : Nat, edits : Nat]
  /\ request \in [Flows -> Requests]
  /\ ledger \in [Days -> [global : Rows, provider : Rows]]
  /\ sent \in [Days -> Nat]
  /\ supported \in BOOLEAN /\ day \in Days /\ {asked, faults} \subseteq Nat

(* No more calls are sent under the budget of a day than the operator allows, although *)
(* requests reserve at once, cross midnight and lose answers (model-routes.ts:30).       *)
BudgetHolds == \A d \in Days : sent[d] <= DailyLimit

(* The global and the provider row tell one story: each call is booked at most once, *)
(* under the day whose budget paid for it (model-routes.ts:43, 485).                  *)
LedgerAgrees ==
  \A d \in Days : LET g == ledger[d].global IN
    /\ ledger[d].provider = [g EXCEPT !.reserved = 0]
    /\ g.completed = g.success + g.failure
    /\ g.completed <= sent[d] /\ sent[d] <= g.reserved

(* As long as nothing has failed, every reserved call is booked or still under way: a *)
(* call stays unbooked only by a fault (model-routes.ts:485).                          *)
UnbookedIsUnderWay ==
  faults = 0 => \A d \in Days :
    ledger[d].global.reserved =
      ledger[d].global.completed
        + Cardinality({f \in Flows : request[f].pc \in {"call"} \cup Called /\ request[f].day = d})

(* The budget is kept and its books are true. *)
BudgetIsKept == TypeOK /\ BudgetHolds /\ LedgerAgrees /\ UnbookedIsUnderWay

(* The browser is told of an external contact exactly when the theme left, also when it *)
(* gets an offline draft after all, and the theme leaves with consent only               *)
(* (model-routes.ts:232, 329).                                                            *)
ContactIsDisclosed ==
  \A f \in Flows : request[f].pc \notin {"rest", "authorize"} =>
    /\ request[f].sent => request[f].consent
    /\ At(f, "answered") => (request[f].external <=> request[f].sent)

(* A generated draft replaces the topics only when nobody has changed them since the *)
(* request was authorized (game.ts:345, model-routes.ts:210).                         *)
NewerEditsSurvive ==
  [][\A f \in Flows : At(f, "answered") /\ ~At(f, "answered")' /\ room' # room
       => room.edits = request[f].edits]_vars

(* What leaves for the provider, and what replaces the topics, is the host's to decide. *)
HostDecides == []ContactIsDisclosed /\ NewerEditsSurvive

(* Every request ends with an answer or a broken connection, even when the provider *)
(* never answers and the database fails (model-provider.ts:289, 451).                *)
EveryRequestEnds == \A f \in Flows : ~At(f, "rest") ~> At(f, "rest")
=============================================================================
