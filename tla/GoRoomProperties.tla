--------------------------- MODULE GoRoomProperties ---------------------------
(* What a room of the Go edition promises its players. *)
EXTENDS GoRoom, RunningTotals

Turns == {Game.done[i] : i \in DOMAIN Game.done}
Pending == {i \in DOMAIN Game.done : Game.done[i].ai = "pending"}

TurnRecords ==
  [id : Nat, birth : Nat, player : {0} \cup Seats, spoken : 0 .. Duration, completed : BOOLEAN,
   score : Nat, ai : {"none", "pending", "done", "failed", "skipped"}, bonus : Nat]

Sessions ==
  [players : Seq(Seats), score : [Seats -> Nat], corrected : [Seats -> Int], ai : BOOLEAN,
   rounds : Nat \ {0}, topics : Nat, started : BOOLEAN, finished : BOOLEAN, current : Nat,
   round : Nat \ {0}, active : TurnRecords, done : Seq(TurnRecords),
   nextPlayer : 1 .. MaxSeat + 1, nextTurn : 1 .. MaxTurnID + 1]

Rooms ==
  [gone : {FALSE}, host : Tokens, away : Nat, members : [Tokens -> {0} \cup Seats],
   ghosts : SUBSET Seats, online : [Seats -> Nat], conns : [Tokens -> Nat], elapsed : -1 .. Duration + 1,
   generation : Nat, idle : Nat, game : Sessions]

Snapshots ==
  [gone : {FALSE}, host : Tokens, members : [Tokens -> {0} \cup Seats], game : Sessions, idle : Nat]

(* The state has its type. *)
TypeOK ==
  /\ room \in Rooms \cup {NoRoom} /\ saved \in Snapshots \cup {NoRoom}
  /\ streams \in [Tokens -> Nat] /\ joins \in [Tokens -> Nat]
  /\ graders \subseteq [index : Nat, id : Nat, birth : Nat]
  /\ asks \subseteq [token : Tokens, number : Nat, topics : Nat]
  /\ page \in [id : Nat, birth : Nat, after : Nat, epoch : Nat]
  /\ scope \in [Concerns -> Nat] /\ {births, epoch} \subseteq Nat

\* What each turn of a session pays a player.
Paid(g, p) == [i \in DOMAIN g.done |-> IF g.done[i].player = p THEN g.done[i].score ELSE 0]

PaidBonus(turn) == IF turn.ai = "done" THEN turn.bonus ELSE 0

(* The score of a player is the sum of its turns, each paid its verdict once, and of the *)
(* host's corrections: whatever verdicts come late, after a reset or never because of a    *)
(* restart (game.go:595, 634).                                                              *)
ScoresAddUp ==
  ~room.gone =>
    /\ \A p \in ToSet(Game.players) :
         Game.score[p] = Game.corrected[p] + Total(Paid(Game, p), Len(Game.done))
    /\ \A turn \in Turns : turn.score = Classic(turn) + PaidBonus(turn)

(* Every verdict that is awaited is still being asked for, and for that very turn: no *)
(* restart or reset leaves one behind that never comes (game.go:634, server.go:1085).   *)
PendingHasJudge ==
  ~room.gone => \A i \in Pending : \E grader \in graders :
    grader.index = i /\ grader.id = Game.done[i].id /\ grader.birth = Game.done[i].birth

(* Players speak in the order of the roster, round after round, and the game ends after *)
(* the last round (game.go:715).                                                          *)
TurnOrder ==
  ~room.gone /\ Game.started =>
    LET n == Len(Game.players) IN
    /\ \A i \in DOMAIN Game.done : Game.done[i].player = Game.players[((i - 1) % n) + 1]
    /\ Game.active # NoTurn =>
         /\ ~Game.finished
         /\ Game.active.player = Game.players[(Len(Game.done) % n) + 1]
    /\ Game.finished <=> Len(Game.done) = n * Game.rounds

(* A request from a page rendered earlier acts on the turn that page shows or on none, *)
(* as long as no restart has lost turns (game.go:92-94).                                 *)
LateActionsMiss ==
  ~room.gone /\ page.epoch = epoch /\ page.id # 0 =>
    \A t \in Tokens : MayAct(t, page.id) => page.birth = Game.active.birth

(* The clock runs for a turn only: a reset, a redraw or the end of a turn stops it *)
(* (room.go:487-502).                                                                *)
ClockBelongsToTurn == ~room.gone /\ room.elapsed # -1 => Game.active # NoTurn

(* Turns go in order, and with them the clock and the verdicts awaited. *)
TurnsAreInOrder == TurnOrder /\ ClockBelongsToTurn /\ PendingHasJudge

(* A seat belongs to one browser, and to one that is in the roster, and somebody in the *)
(* roster is to speak; a seat left behind by joining twice is nobody's (room.go:283-298,  *)
(* game.go:206, server.go:463-488).                                                       *)
SeatsAreHeld ==
  ~room.gone =>
    /\ Game.players # <<>> => Game.current + 1 \in DOMAIN Game.players
    /\ \A t \in Tokens : Seat(t) # 0 =>
         /\ HasPlayer(Game, Seat(t))
         /\ Seat(t) \notin room.ghosts
         /\ \A other \in Tokens \ {t} : Seat(other) # Seat(t)

(* The streams of a browser are counted exactly, so that a host who watches keeps the *)
(* room, and no seat is shown online that its browser does not watch; only a seat that   *)
(* a browser left behind by joining twice at once may be (room.go:348-397).              *)
PresenceIsCounted ==
  ~room.gone =>
    /\ room.conns = streams
    /\ \A p \in Seats \ room.ghosts : room.online[p] > 0 =>
         \E t \in Tokens : Seat(t) = p /\ room.online[p] <= streams[t]

(* Seats and streams are held and counted for who has them. *)
PresenceAgrees == TypeOK /\ SeatsAreHeld /\ PresenceIsCounted

(* A generated list replaces the topics only when nobody has chosen others since it was *)
(* asked for, and never in a started game (room.go:329).                                  *)
NewerTopicsSurvive ==
  [][\A ask \in asks \ asks' : epoch' = epoch /\ ~room.gone /\ ~room'.gone
       /\ Game'.topics # Game.topics => Game.topics = ask.topics /\ ~Game.started]_vars

(* What comes late changes nothing that has been decided since. *)
LateComersMiss == []LateActionsMiss /\ NewerTopicsSurvive

(* Every awaited verdict is given in the end, or its game is gone (server.go:1104). *)
VerdictsComeInTheEnd == \A i \in 1 .. 2 : (~room.gone /\ i \in Pending) ~> (room.gone \/ i \notin Pending)
=============================================================================
