------------------------------- MODULE GoRoom -------------------------------
(***************************************************************************)
(* A room of the Go edition: the HTTP handlers (server.go), the room behind *)
(* its lock (room.go), the live streams, the judge's goroutines, the        *)
(* autosave and a restart from it (persist.go).  What runs under one lock   *)
(* is one step; a stream, a verdict, a generated topic list, a join (which  *)
(* looks under one lock and sits down under another) and a request from a   *)
(* page rendered earlier span several.                                      *)
(***************************************************************************)
EXTENDS GoGame

CONSTANTS
  Tokens, Creator,
  MaxPlayers,         \* MaxPlayersPerRoom
  MaxSubscribers, MaxSubscribersPerToken,
  ClaimGrace, IdleTTL, CompletionGrace,   \* in ticks of one second
  Bonuses,            \* what aiRelevanceBonus may return
  Scopes              \* what one behaviour may do how often and with which inputs, see Init

\* What is bounded: most of it by how often it happens, claims by the seconds claimed.
Concerns ==
  {"roster", "turns", "settings", "claims", "pages", "moves", "hosts", "edits", "drafts",
   "resets", "redraws", "corrections", "streams", "ticks", "saves", "crashes"}

ASSUME RoomAssumption ==
  /\ Creator \in Tokens /\ MaxPlayers \in 1 .. MaxSeat /\ Bonuses \subseteq Nat
  /\ Scopes \subseteq [Concerns -> Nat]
  /\ {ClaimGrace, IdleTTL, CompletionGrace, MaxSubscribers, MaxSubscribersPerToken} \subseteq Nat

VARIABLES
  room,               \* the room, its locks and clocks
  streams,            \* open event streams of each token
  joins,              \* joins of each token that have been let in and not been seated yet
  graders,            \* verdicts being asked for
  asks,               \* topic lists being generated
  page,               \* a page rendered earlier: the turn it shows and the last one it saw end
  saved,              \* the snapshot on disk
  scope, births, epoch

vars == <<room, streams, joins, graders, asks, page, saved, scope, births, epoch>>

NoRoom == [gone |-> TRUE]
NoPage == [id |-> 0, birth |-> 0, after |-> 0, epoch |-> 0]
Zero(S) == [x \in S |-> 0]

Spend(what) == scope[what] > 0 /\ scope' = [scope EXCEPT ![what] = @ - 1]

Game == room.game
IsHost(t) == t = room.host
Seat(t) == room.members[t]
Least(a, b) == IF a < b THEN a ELSE b

(* Every request of the host counts as presence; a mutation also keeps the room alive. *)
Seen(t) == IF IsHost(t) THEN 0 ELSE room.away

Request(t) == ~room.gone /\ t \in Tokens
Mutate(t, r) == room' = [r EXCEPT !.away = IF IsHost(t) THEN 0 ELSE @, !.idle = 0]
MutateGame(t, g) == Mutate(t, [room EXCEPT !.game = g])

HostInSetup(t) == Request(t) /\ IsHost(t) /\ ~Game.started

Others == <<streams, joins, graders, asks, page, saved, epoch>>

-----------------------------------------------------------------------------
(* Requests that are refused, or only look, still tell that the host is there. *)

Visit(t) ==
  /\ Request(t)
  /\ room' = [room EXCEPT !.away = Seen(t)]
  /\ UNCHANGED <<Others, scope, births>>

(* A page is rendered, and stays on some screen. *)
RenderRoomState ==
  /\ ~room.gone /\ Spend("pages")
  /\ page' = [id |-> Game.active.id, birth |-> Game.active.birth, epoch |-> epoch,
              after |-> IF Game.done = <<>> THEN 0 ELSE Last(Game.done).id]
  /\ UNCHANGED <<room, streams, joins, graders, asks, saved, births, epoch>>

-----------------------------------------------------------------------------
(* The roster *)

(* A join looks whether the browser is in the room already, and lets go of the lock. *)
LookMember(t) ==
  /\ Request(t) /\ Seat(t) = 0 /\ ~IsHost(t) /\ Spend("roster")
  /\ joins' = [joins EXCEPT ![t] = @ + 1]
  /\ UNCHANGED <<room, streams, graders, asks, page, saved, births, epoch>>

(* Then it takes the lock again and a seat, whatever the browser has become meanwhile: *)
(* the seat an earlier join gave it stays behind as a ghost that is nobody's.           *)
JoinRoom(t) ==
  /\ joins[t] > 0
  /\ joins' = [joins EXCEPT ![t] = @ - 1]
  /\ IF room.gone \/ Game.started \/ Len(Game.players) >= MaxPlayers THEN room' = room
     ELSE /\ Game.nextPlayer \in Seats
          /\ room' = [room EXCEPT !.game = AddPlayer(@), !.members[t] = Game.nextPlayer,
                                  !.ghosts = @ \cup ({Seat(t)} \ {0}), !.idle = 0]
  /\ UNCHANGED <<streams, graders, asks, page, saved, scope, births, epoch>>

HostAddsPlayer(t) ==
  /\ HostInSetup(t) /\ Game.nextPlayer \in Seats /\ Spend("roster")
  /\ MutateGame(t, IF Len(Game.players) >= MaxPlayers THEN Game ELSE AddPlayer(Game))
  /\ UNCHANGED <<Others, births>>

HostMovesPlayer(t, p, offset) ==
  /\ HostInSetup(t) /\ HasPlayer(Game, p) /\ Spend("moves")
  /\ MutateGame(t, MovePlayer(Game, p, offset))
  /\ UNCHANGED <<Others, births>>

UnbindPlayer_KeepsSeat(r, p) == [r EXCEPT !.online[p] = 0, !.ghosts = @ \ {p}]
UnbindPlayer(r, p) ==
  [r EXCEPT !.members = [t \in Tokens |-> IF @[t] = p THEN 0 ELSE @[t]], !.online[p] = 0,
            !.ghosts = @ \ {p}]

HostRemovesPlayer(t, p) ==
  /\ HostInSetup(t) /\ HasPlayer(Game, p) /\ Spend("roster")
  /\ Mutate(t, UnbindPlayer([room EXCEPT !.game = RemovePlayer(@, p)], p))
  /\ UNCHANGED <<Others, births>>

Leave(t) ==
  /\ Request(t) /\ Seat(t) # 0 /\ ~Game.started /\ Spend("roster")
  /\ Mutate(t, [room EXCEPT !.game = RemovePlayer(@, Seat(t)),
                            !.members[t] = 0, !.online[Seat(t)] = 0])
  /\ UNCHANGED <<Others, births>>

-----------------------------------------------------------------------------
(* The host *)

NewHost(t) ==
  room' = [room EXCEPT !.host = t, !.away = 0, !.generation = @ + 1, !.idle = 0]

TransferHost(t, to) ==
  /\ Request(t) /\ IsHost(t) /\ Seat(to) # 0 /\ Spend("hosts")
  /\ NewHost(to)
  /\ UNCHANGED <<Others, births>>

ClaimHost(t) ==
  /\ Request(t) /\ ~IsHost(t) /\ Seat(t) # 0 /\ Spend("hosts")
  /\ room.conns[room.host] = 0 /\ room.away >= ClaimGrace
  /\ NewHost(t)
  /\ UNCHANGED <<Others, births>>

-----------------------------------------------------------------------------
(* Settings and topics; a manual choice makes every draft under way out of date. *)

Invalidated_Not(r) == r
Invalidated(r) == [r EXCEPT !.generation = @ + 1]

Configured(g, ai, rounds) == [SetTopics(g) EXCEPT !.ai = ai, !.rounds = rounds]

ChangeSettings(t, ai, rounds) ==
  /\ HostInSetup(t) /\ Spend("settings")
  /\ Mutate(t, Invalidated([room EXCEPT !.game = Configured(@, ai, rounds)]))
  /\ UNCHANGED <<Others, births>>

CustomTopics(t) ==
  /\ HostInSetup(t) /\ Spend("edits")
  /\ Mutate(t, Invalidated([room EXCEPT !.game = SetTopics(@)]))
  /\ UNCHANGED <<Others, births>>

BeginTopicGeneration(t) ==
  /\ HostInSetup(t) /\ Spend("drafts")
  /\ room' = [room EXCEPT !.generation = @ + 1, !.away = 0]
  /\ asks' = asks \cup {[token |-> t, number |-> room.generation + 1, topics |-> Game.topics]}
  /\ UNCHANGED <<streams, joins, graders, page, saved, births, epoch>>

MayApply(ask) ==
  ~room.gone /\ IsHost(ask.token) /\ ~Game.started /\ ask.number = room.generation

ApplyTopicGeneration(ask, usable) ==
  /\ ask \in asks /\ asks' = asks \ {ask}
  /\ room' = IF usable /\ MayApply(ask)
             THEN [room EXCEPT !.game = SetTopics(@), !.idle = 0] ELSE room
  /\ UNCHANGED <<streams, joins, graders, page, saved, scope, births, epoch>>

-----------------------------------------------------------------------------
(* The game *)

NextBirth == births' = births + 1
StopClock(r) == [r EXCEPT !.elapsed = -1]

(* A start that fails for want of players has invalidated the drafts already. *)
StartGame(t) ==
  /\ Request(t) /\ IsHost(t)
  /\ \/ /\ Game.started
        /\ Mutate(t, room) /\ UNCHANGED <<births, scope>>
     \/ /\ ~Game.started /\ ~CanStart(Game) /\ Spend("edits")
        /\ Mutate(t, Invalidated(room)) /\ UNCHANGED births
     \/ /\ ~Game.started /\ CanStart(Game) /\ ~Exhausted(Game) /\ Spend("turns")
        /\ Mutate(t, StopClock(Invalidated([room EXCEPT !.game = StartTurn(Start(@), births + 1)])))
        /\ NextBirth
  /\ UNCHANGED Others

ResetGame(t) ==
  /\ Request(t) /\ IsHost(t) /\ (Game.started => Game.finished) /\ ~Exhausted(Game)
  /\ Spend("resets")
  /\ Mutate(t, StopClock(Invalidated([room EXCEPT !.game = ResetForNewGame(@)])))
  /\ UNCHANGED <<Others, births>>

MayStartTurn(t) ==
  IsHost(t) \/ (Seat(t) # 0 /\ Game.current < Len(Game.players)
                 /\ Seat(t) = Game.players[Game.current + 1])

(* A next-turn request names the turn it follows. *)
StartNextTurn(t, after) ==
  /\ Request(t) /\ MayStartTurn(t)
  /\ IF ~Game.started \/ Game.finished \/ Game.active # NoTurn
          \/ (Game.done # <<>> /\ after # Last(Game.done).id)
     THEN Mutate(t, room) /\ UNCHANGED <<births, scope>>
     ELSE /\ ~Exhausted(Game) /\ Spend("turns")
          /\ Mutate(t, StopClock([room EXCEPT !.game = StartTurn(@, births + 1)]))
          /\ NextBirth
  /\ UNCHANGED Others

MayAct(t, id) ==
  /\ id # 0 /\ Game.active.id = id
  /\ IsHost(t) \/ Seat(t) = Game.active.player

BeginTurn(t, id) ==
  /\ Request(t) /\ MayAct(t, id)
  /\ Mutate(t, [room EXCEPT !.elapsed = IF @ = -1 THEN 0 ELSE @])
  /\ UNCHANGED <<Others, scope, births>>

RedrawTurn(t, id) ==
  /\ Request(t) /\ MayAct(t, id) /\ room.elapsed = -1 /\ ~Exhausted(Game)
  /\ Spend("redraws")
  /\ Mutate(t, StopClock([room EXCEPT !.game = RedrawActiveTurn(@, births + 1)]))
  /\ NextBirth
  /\ UNCHANGED Others

(* What a remote speaker claims is bounded by the clock of the server. *)
Spoken(t, claim) ==
  IF IsHost(t) THEN IF claim >= 0 THEN claim ELSE IF room.elapsed > 0 THEN room.elapsed ELSE 0
  ELSE LET observed == IF room.elapsed < 0 THEN 0 ELSE Least(room.elapsed + 1, Duration)
           asked == IF claim >= 0 THEN claim ELSE IF room.elapsed > 0 THEN room.elapsed ELSE 0
       IN  Least(asked, observed)

RemoteCompletes(wants) == wants /\ room.elapsed >= 0 /\ room.elapsed + CompletionGrace >= Duration

Submitted(t, claim, completes, eliminated) ==
  IF ~IsHost(t) /\ RemoteCompletes(completes /\ ~eliminated)
  THEN SubmitTurn(Game, Duration, TRUE, FALSE)
  ELSE SubmitTurn(Game, Spoken(t, claim), IsHost(t) /\ completes, eliminated)

AfterSubmit_RunsOn(r) == r
AfterSubmit(r) == StopClock(r)

(* The judge is asked when there is a transcript and budget left for it. *)
SubmitResult(t, id, claim, completes, eliminated, judged) ==
  /\ Request(t) /\ MayAct(t, id)
  /\ LET g == Submitted(t, claim, completes, eliminated)
         last == Last(g.done)
         graded == IF ~g.ai THEN g
                   ELSE IF judged THEN MarkTurnAIPending(g)
                   ELSE ResolveTurnAI(MarkTurnAIPending(g), Len(g.done), last.id, "skipped", 0)
     IN  /\ judged => g.ai
         /\ Mutate(t, AfterSubmit([room EXCEPT !.game = graded]))
         /\ graders' = IF judged
                       THEN graders \cup {[index |-> Len(g.done), id |-> last.id, birth |-> last.birth]}
                       ELSE graders
  /\ UNCHANGED <<streams, joins, asks, page, saved, scope, births, epoch>>

(* The goroutine comes back: busy slots and errors fail the verdict. *)
GradeTurn(grader, status, bonus) ==
  /\ grader \in graders /\ graders' = graders \ {grader}
  /\ status = "failed" => bonus = 0
  /\ room' = IF room.gone THEN room
             ELSE [room EXCEPT !.idle = 0,
                     !.game = ResolveTurnAI(@, grader.index, grader.id, status, bonus)]
  /\ UNCHANGED <<streams, joins, asks, page, saved, scope, births, epoch>>

ScoreOverride(t, p, delta) ==
  /\ Request(t) /\ IsHost(t) /\ HasPlayer(Game, p) /\ Spend("corrections")
  /\ MutateGame(t, OverrideScore(Game, p, delta))
  /\ UNCHANGED <<Others, births>>

-----------------------------------------------------------------------------
(* Live streams *)

Full(t) ==
  FoldFunction(+, 0, streams) >= MaxSubscribers \/ room.conns[t] >= MaxSubscribersPerToken

Raised(online, t) == IF Seat(t) = 0 THEN online ELSE [online EXCEPT ![Seat(t)] = @ + 1]

Subscribe(t) ==
  /\ Request(t) /\ (IsHost(t) \/ Seat(t) # 0) /\ ~Full(t) /\ Spend("streams")
  /\ streams' = [streams EXCEPT ![t] = @ + 1]
  /\ room' = [room EXCEPT !.conns[t] = @ + 1, !.away = Seen(t),
                           !.online = Raised(@, t)]
  /\ UNCHANGED <<joins, graders, asks, page, saved, births, epoch>>

Fewer(n) == IF n > 1 THEN n - 1 ELSE 0

Dropped(online, t) == IF Seat(t) = 0 THEN online ELSE [online EXCEPT ![Seat(t)] = Fewer(@)]

(* The browser goes, or the room has expired: the seat of today is counted down. *)
Unsubscribe(t) ==
  /\ streams[t] > 0
  /\ streams' = [streams EXCEPT ![t] = @ - 1]
  /\ room' = IF room.gone THEN room
             ELSE [room EXCEPT !.conns[t] = Fewer(@), !.away = Seen(t),
                               !.online = Dropped(@, t)]
  /\ UNCHANGED <<joins, graders, asks, page, saved, scope, births, epoch>>

-----------------------------------------------------------------------------
(* Time, expiry, autosave and restart *)

Tick ==
  /\ Spend("ticks")
  /\ room' = IF room.gone THEN room
             ELSE [room EXCEPT !.away = Least(@ + 1, ClaimGrace), !.idle = Least(@ + 1, IdleTTL + 1),
                               !.elapsed = IF @ = -1 THEN @ ELSE Least(@ + 1, Duration + 1)]
  /\ saved' = IF saved.gone THEN saved ELSE [saved EXCEPT !.idle = Least(@ + 1, IdleTTL + 1)]
  /\ UNCHANGED <<streams, joins, graders, asks, page, births, epoch>>

(* Live streams do not extend the life of a room; they end with it. *)
Expire ==
  /\ ~room.gone /\ room.idle > IdleTTL
  /\ room' = NoRoom
  /\ UNCHANGED <<streams, joins, graders, asks, page, saved, scope, births, epoch>>

SaveTo ==
  /\ Spend("saves")
  /\ saved' = IF room.gone THEN NoRoom
              ELSE [gone |-> FALSE, host |-> room.host, members |-> room.members,
                    game |-> room.game, idle |-> room.idle]
  /\ UNCHANGED <<room, streams, joins, graders, asks, page, births, epoch>>

LoadFrom ==
  IF saved.gone \/ saved.idle > IdleTTL THEN NoRoom
  ELSE [gone |-> FALSE, host |-> saved.host, away |-> 0, members |-> saved.members,
        ghosts |-> {}, online |-> Zero(Seats), conns |-> Zero(Tokens), elapsed |-> -1,
        generation |-> 0, idle |-> saved.idle, game |-> ReconcilePendingAI(saved.game)]

(* The process dies with its streams, goroutines and requests, and starts again. *)
Restart ==
  /\ Spend("crashes")
  /\ room' = LoadFrom
  /\ streams' = Zero(Tokens) /\ joins' = Zero(Tokens) /\ graders' = {} /\ asks' = {}
  /\ epoch' = epoch + 1
  /\ UNCHANGED <<page, saved, births>>

-----------------------------------------------------------------------------
(* A room its creator has opened, with or without a name; its scope is one of Scopes. *)
CreateRoom ==
  \E named \in BOOLEAN :
    room = [gone |-> FALSE, host |-> Creator, away |-> 0,
            members |-> [Zero(Tokens) EXCEPT ![Creator] = IF named THEN 1 ELSE 0],
            ghosts |-> {}, online |-> Zero(Seats), conns |-> Zero(Tokens), elapsed |-> -1,
            generation |-> 0, idle |-> 0, game |-> IF named THEN AddPlayer(NewSession) ELSE NewSession]

Init ==
  /\ CreateRoom
  /\ streams = Zero(Tokens) /\ joins = Zero(Tokens) /\ graders = {} /\ asks = {}
  /\ page = NoPage /\ saved = NoRoom
  /\ scope \in Scopes /\ births = 0 /\ epoch = 0

(* The turn a request names: the one on the screen now, or on the page rendered earlier. *)
Named == IF room.gone THEN {} ELSE {Game.active.id, page.id}
NamedAfter == IF room.gone THEN {} ELSE {page.after} \cup {Game.done[i].id : i \in DOMAIN Game.done}

Setup(t) ==
  \/ LookMember(t) \/ JoinRoom(t) \/ Leave(t) \/ HostAddsPlayer(t)
  \/ \E p \in Seats : HostRemovesPlayer(t, p)
  \/ \E p \in Seats, offset \in {-1, 1} : HostMovesPlayer(t, p, offset)
  \/ \E ai \in BOOLEAN, rounds \in Rounds : ChangeSettings(t, ai, rounds)
  \/ CustomTopics(t) \/ BeginTopicGeneration(t)

Play(t) ==
  \/ StartGame(t) \/ ResetGame(t)
  \/ \E after \in NamedAfter : StartNextTurn(t, after)
  \/ \E id \in Named : BeginTurn(t, id) \/ RedrawTurn(t, id)
  \/ \E id \in Named, claim \in -1 .. scope.claims, completes, eliminated, judged \in BOOLEAN :
       SubmitResult(t, id, claim, completes, eliminated, judged)
  \/ \E p \in Seats, delta \in {-2, 2} : ScoreOverride(t, p, delta)

Next ==
  \/ \E t \in Tokens : \/ Visit(t) \/ Setup(t) \/ Play(t)
                       \/ ClaimHost(t) \/ \E to \in Tokens : TransferHost(t, to)
                       \/ Subscribe(t) \/ Unsubscribe(t)
  \/ \E ask \in asks, usable \in BOOLEAN : ApplyTopicGeneration(ask, usable)
  \/ \E grader \in graders, bonus \in Bonuses :
       \/ GradeTurn(grader, "done", bonus)
       \/ bonus = 0 /\ GradeTurn(grader, "failed", 0)
  \/ RenderRoomState \/ Tick \/ Expire \/ SaveTo \/ Restart

(* A judge's answer comes, by its time limit at the latest. *)
Fairness == WF_vars(\E grader \in graders : GradeTurn(grader, "failed", 0))

Spec == Init /\ [][Next]_vars /\ Fairness
=============================================================================
