------------------------------- MODULE GoGame -------------------------------
(***************************************************************************)
(* The rules of the Go edition (internal/game/game.go, scoring.go), as      *)
(* operators from one session to the next.  Topics are drawn from a deck    *)
(* that is left out here: a turn carries no topic.                          *)
(***************************************************************************)
EXTENDS Integers, FiniteSets, Sequences, SequencesExt

CONSTANTS
  MaxSeat,            \* player numbers handed out
  MaxTurnID,          \* MaxTurnIDNumber
  Duration,           \* speaking seconds of a turn
  CompletionBonus,
  Rounds              \* the rounds a host may set

ASSUME GameAssumption ==
  /\ {MaxSeat, Duration, CompletionBonus} \subseteq Nat
  /\ {MaxTurnID} \cup Rounds \subseteq Nat \ {0}

Seats == 1 .. MaxSeat

(* birth numbers the generations of turns for ever, also over restarts; no code has it. *)
NewTurn(id, player, birth) ==
  [id |-> id, birth |-> birth, player |-> player, spoken |-> 0, completed |-> FALSE,
   score |-> 0, ai |-> "none", bonus |-> 0]

NoTurn == NewTurn(0, 0, 0)

NewSession ==
  [players |-> <<>>, score |-> [p \in Seats |-> 0], corrected |-> [p \in Seats |-> 0],
   ai |-> FALSE, rounds |-> 1, topics |-> 0, started |-> FALSE, finished |-> FALSE,
   current |-> 0, round |-> 1, active |-> NoTurn, done |-> <<>>,
   nextPlayer |-> 1, nextTurn |-> 1]

HasPlayer(g, p) == p \in ToSet(g.players)

AddPlayer(g) ==
  [g EXCEPT !.players = Append(@, g.nextPlayer), !.nextPlayer = @ + 1]

(* The current player keeps its place, unless it is the one that goes. *)
RemovePlayer(g, p) ==
  IF ~HasPlayer(g, p) THEN g
  ELSE LET at == CHOOSE i \in DOMAIN g.players : g.players[i] = p
           rest == RemoveAt(g.players, at)
           shifted == IF at - 1 < g.current THEN g.current - 1 ELSE g.current
       IN  [g EXCEPT !.players = rest,
              !.active = IF @ # NoTurn /\ @.player = p THEN NoTurn ELSE @,
              !.current = IF shifted >= Len(rest) THEN 0 ELSE shifted,
              !.score[p] = 0, !.corrected[p] = 0]

MovePlayer(g, p, offset) ==
  LET from == CHOOSE i \in DOMAIN g.players : g.players[i] = p
      to == from + offset
      swapped == [g.players EXCEPT ![from] = g.players[to], ![to] = p]
      holder == g.players[g.current + 1]
  IN  IF HasPlayer(g, p) /\ to \in DOMAIN g.players
      THEN [g EXCEPT !.players = swapped,
              !.current = (CHOOSE i \in DOMAIN swapped : swapped[i] = holder) - 1]
      ELSE g

SetTopics(g) == [g EXCEPT !.topics = @ + 1]

-----------------------------------------------------------------------------
(* Turn ids: the counter is repaired from the ids in use, and may run out. *)

UsedIds(g) == {0, g.active.id} \cup {g.done[i].id : i \in DOMAIN g.done}

Exhausted(g) == g.nextTurn > MaxTurnID \/ MaxTurnID \in UsedIds(g)

RepairedNext(g) == Max({1, g.nextTurn, Max(UsedIds(g)) + 1})

TakeId(g) == [g EXCEPT !.nextTurn = RepairedNext(g) + 1]

-----------------------------------------------------------------------------
ClearedPlay(g) ==
  [g EXCEPT !.finished = FALSE, !.current = 0, !.round = 1, !.active = NoTurn, !.done = <<>>,
     !.nextTurn = RepairedNext(g),
     !.score = [p \in Seats |-> 0], !.corrected = [p \in Seats |-> 0]]

ResetForNewGame(g) == [ClearedPlay(g) EXCEPT !.started = FALSE]

CanStart(g) == Len(g.players) >= 2

Start(g) == [ClearedPlay(g) EXCEPT !.started = TRUE]

StartTurn(g, birth) ==
  IF g.active # NoTurn THEN g
  ELSE [TakeId(g) EXCEPT !.active = NewTurn(RepairedNext(g), g.players[g.current + 1], birth)]

RedrawActiveTurn(g, birth) ==
  [TakeId(g) EXCEPT !.active = [@ EXCEPT !.id = RepairedNext(g), !.birth = birth]]

Classic(turn) ==
  turn.spoken + IF turn.completed /\ turn.spoken >= Duration THEN CompletionBonus ELSE 0

Advance(g) ==
  LET wraps == g.current + 1 >= Len(g.players)
      round == IF wraps THEN g.round + 1 ELSE g.round
  IN  [g EXCEPT !.current = IF wraps THEN 0 ELSE @ + 1, !.round = round,
         !.finished = @ \/ round > g.rounds]

Pay(g, p, points) == IF HasPlayer(g, p) THEN [g EXCEPT !.score[p] = @ + points] ELSE g

Clamped(spoken) == IF spoken < 0 THEN 0 ELSE IF spoken > Duration THEN Duration ELSE spoken

EndedTurn(g, spoken, completed) ==
  LET timed == [g.active EXCEPT !.spoken = Clamped(spoken),
                  !.completed = completed /\ Clamped(spoken) >= Duration]
  IN  [timed EXCEPT !.score = Classic(timed)]

Recorded(g, turn) == [g EXCEPT !.done = Append(@, turn), !.active = NoTurn]

SubmitTurn(g, spoken, completed, eliminated) ==
  LET turn == EndedTurn(g, spoken, completed /\ ~eliminated) IN
  Advance(Recorded(Pay(g, turn.player, turn.score), turn))

-----------------------------------------------------------------------------
(* The judge's verdict on a completed turn *)

WithTurn(g, index, turn) == [g EXCEPT !.done[index] = turn]

MarkTurnAIPending(g) == WithTurn(g, Len(g.done), [Last(g.done) EXCEPT !.ai = "pending"])

IsPending_LatestOnly(g, index, id) ==
  index = Len(g.done) /\ index > 0 /\ g.done[index].id = id /\ g.done[index].ai = "pending"
IsPending(g, index, id) ==
  index \in DOMAIN g.done /\ g.done[index].id = id /\ g.done[index].ai = "pending"

Judged(turn, status, points) ==
  [turn EXCEPT !.ai = status, !.bonus = points, !.score = @ + points]

Points(status, bonus) == IF status = "done" THEN bonus ELSE 0

ResolveTurnAI_Unpaid(g, index, id, status, bonus) ==
  IF ~IsPending(g, index, id) THEN g
  ELSE WithTurn(g, index, Judged(g.done[index], status, Points(status, bonus)))
ResolveTurnAI(g, index, id, status, bonus) ==
  IF ~IsPending(g, index, id) THEN g
  ELSE WithTurn(Pay(g, g.done[index].player, Points(status, bonus)), index,
                Judged(g.done[index], status, Points(status, bonus)))

(* A restored session waits for no judge; the classic score stands. *)
ReconcilePendingAI(g) ==
  LET failed(turn) == [turn EXCEPT !.score = Classic(turn), !.ai = "failed", !.bonus = 0]
      stands(turn) == IF turn.ai = "pending" THEN failed(turn) ELSE turn
  IN  [g EXCEPT !.done = [i \in DOMAIN @ |-> stands(@[i])]]

OverrideScore(g, p, delta) ==
  LET floored == IF g.score[p] + delta < 0 THEN 0 ELSE g.score[p] + delta
  IN  [g EXCEPT !.score[p] = floored, !.corrected[p] = @ + floored - g.score[p]]
=============================================================================
