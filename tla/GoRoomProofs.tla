---------------------------- MODULE GoRoomProofs ----------------------------
(***************************************************************************)
(* The rooms of the Go edition, for any browsers, limits and clocks: turns *)
(* go in order with the clock and the verdicts awaited, seats and streams  *)
(* are counted for who has them, what comes late changes nothing, and the  *)
(* scores add up.                                                          *)
(* First what each operator on a session keeps, then the steps of a room.  *)
(***************************************************************************)
EXTENDS GoRoomProperties, SequenceTheorems, WellFoundedInduction, TLAPS

-----------------------------------------------------------------------------
(* The inductive invariant of a session, which the room and the snapshot   *)
(* hold                                                                    *)

\* Players are different and older than the next; somebody is to speak.
RosterInv(g) ==
  /\ \A i, j \in DOMAIN g.players : g.players[i] = g.players[j] => i = j
  /\ \A i \in DOMAIN g.players : g.players[i] < g.nextPlayer
  /\ IF g.players = <<>> THEN g.current = 0 ELSE g.current < Len(g.players)

\* Ids are below the counter, so that the repair of the counter finds nothing to do.
IdsInv(g) ==
  /\ g.active # NoTurn => g.active.id # 0 /\ g.active.ai = "none"
  /\ \A id \in UsedIds(g) : id < g.nextTurn
  /\ \E top \in UsedIds(g) : \A id \in UsedIds(g) : id <= top

\* The turns that are over fill whole rounds and the players before the current one.
InOrder(g) ==
  /\ g.players # <<>>
  /\ Len(g.done) = Len(g.players) * (g.round - 1) + g.current
  /\ \A i \in DOMAIN g.done : g.done[i].player = g.players[((i - 1) % Len(g.players)) + 1]
  /\ g.active # NoTurn => ~g.finished /\ g.active.player = g.players[g.current + 1]
  /\ g.finished <=> g.round > g.rounds
  /\ g.finished => g.round = g.rounds + 1 /\ g.current = 0

PlayInv(g) ==
  /\ ~g.started => g.active = NoTurn /\ g.done = <<>> /\ ~g.finished
  /\ g.started => InOrder(g)

GameInv(g) == g \in Sessions /\ RosterInv(g) /\ IdsInv(g) /\ PlayInv(g)

\* How the ids of a session may go on.
Follows(g, h) ==
  /\ h.nextTurn >= g.nextTurn
  /\ \/ h.active = NoTurn
     \/ h.active.id = g.active.id /\ h.active.birth = g.active.birth
     \/ h.active.id >= g.nextTurn

-----------------------------------------------------------------------------
(* The inductive invariant of a room                                       *)

SeatsHeld(members, g) ==
  \A t \in Tokens : members[t] # 0 =>
    /\ HasPlayer(g, members[t])
    /\ \A other \in Tokens \ {t} : members[other] # members[t]

\* A seat left behind by joining twice is in the roster, and nobody's.
GhostsLeft(ghosts, members, g) ==
  \A p \in ghosts : HasPlayer(g, p) /\ \A t \in Tokens : members[t] # p

\* The session and the seats of the room are in order, and the clock is some turn's.
Sound(r) ==
  /\ r \in Rooms /\ GameInv(r.game) /\ SeatsHeld(r.members, r.game)
  /\ GhostsLeft(r.ghosts, r.members, r.game)
  /\ r.elapsed # -1 => r.game.active # NoTurn

Counted(r, open) ==
  /\ r.conns = open
  /\ \A p \in Seats \ r.ghosts : r.online[p] > 0 =>
       \E t \in Tokens : r.members[t] = p /\ r.online[p] <= open[t]

Awaited(g, judges) ==
  \A i \in DOMAIN g.done : g.done[i].ai = "pending" =>
    \E j \in judges : j.index = i /\ j.id = g.done[i].id /\ j.birth = g.done[i].birth

\* No list is asked for in the future, and one asked for now starts from the topics of now.
Current(r, lists) ==
  \A a \in lists : /\ a.number <= r.generation
                   /\ a.number = r.generation => a.topics = r.game.topics

Distinct(lists) == \A a, b \in lists : a.number = b.number => a = b

\* A page shows an id that is taken, and its own turn if that turn is on.
Shown(g, p, e) ==
  p.epoch = e =>
    /\ p.id < g.nextTurn
    /\ p.id # 0 /\ g.active.id = p.id => g.active.birth = p.birth

RoomInv ==
  /\ TypeOK /\ Distinct(asks) /\ page.epoch <= epoch
  /\ ~room.gone => /\ Sound(room) /\ Counted(room, streams) /\ Awaited(room.game, graders)
                   /\ Current(room, asks) /\ Shown(room.game, page, epoch)
  /\ ~saved.gone => GameInv(saved.game) /\ SeatsHeld(saved.members, saved.game)

-----------------------------------------------------------------------------
(* Arithmetic of rounds                                                    *)

LEMMA PlaceInRound ==
  ASSUME NEW n \in Nat \ {0}, NEW q \in Nat, NEW r \in 0 .. n - 1
  PROVE  (n * q + r) % n = r
OBVIOUS

LEMMA NextRound ==
  ASSUME NEW n \in Nat, NEW q \in Nat \ {0}
  PROVE  n * (q - 1) + n = n * ((q + 1) - 1)
OBVIOUS

LEMMA RoundsGrow ==
  ASSUME NEW n \in Nat, NEW a \in Nat, NEW b \in Nat, a <= b
  PROVE  n * a <= n * b
OBVIOUS

-----------------------------------------------------------------------------
(* The counter of turn ids                                                 *)

LEMMA Limits ==
  /\ MaxTurnID \in Nat \ {0} /\ MaxSeat \in Nat /\ Duration \in Nat /\ CompletionBonus \in Nat
  /\ \A n \in Rounds : n \in Nat \ {0}
BY GameAssumption

LEMMA NoTurnType == NoTurn \in TurnRecords /\ NoTurn.id = 0 /\ NoTurn.ai = "none"
BY GameAssumption DEF NoTurn, NewTurn, TurnRecords

LEMMA LargestOf ==
  ASSUME NEW S \in SUBSET Int, NEW top \in S, \A x \in S : x <= top
  PROVE  Max(S) \in S /\ \A x \in S : x <= Max(S)
<1>1. \E x \in S : \A y \in S : x >= y
  OBVIOUS
<1>2. Max(S) \in S /\ \A y \in S : Max(S) >= y
  BY <1>1 DEF Max
<1>3. QED
  BY <1>2

LEMMA RepairsNothing ==
  ASSUME NEW g \in Sessions, IdsInv(g)
  PROVE  RepairedNext(g) = g.nextTurn /\ UsedIds(g) \subseteq Nat
<1>1. g.done \in Seq(TurnRecords) /\ g.active \in TurnRecords /\ g.nextTurn \in Nat /\ g.nextTurn >= 1
  BY GameAssumption DEF Sessions
<1>2. UsedIds(g) \subseteq Nat
  <2>1. \A i \in DOMAIN g.done : g.done[i] \in TurnRecords
    BY <1>1, LenProperties, ElementOfSeq
  <2>2. \A i \in DOMAIN g.done : g.done[i].id \in Nat
    BY <2>1 DEF TurnRecords
  <2>3. g.active.id \in Nat
    BY <1>1 DEF TurnRecords
  <2>4. QED
    BY <2>2, <2>3 DEF UsedIds
<1>3. Max(UsedIds(g)) \in Nat /\ Max(UsedIds(g)) < g.nextTurn
  <2>1. PICK top \in UsedIds(g) : \A id \in UsedIds(g) : id <= top
    BY DEF IdsInv
  <2>2. Max(UsedIds(g)) \in UsedIds(g)
    BY <1>2, <2>1, LargestOf
  <2>3. QED
    BY <1>2, <2>2 DEF IdsInv
<1> DEFINE S == {1, g.nextTurn, Max(UsedIds(g)) + 1}
<1>4. S \in SUBSET Int /\ g.nextTurn \in S /\ \A x \in S : x <= g.nextTurn
  BY <1>1, <1>3
<1>5. Max(S) \in S /\ \A x \in S : x <= Max(S)
  BY <1>4, LargestOf
<1>6. Max(S) = g.nextTurn
  BY <1>1, <1>3, <1>4, <1>5
<1>7. QED
  BY <1>2, <1>6 DEF RepairedNext

LEMMA IdsLeft ==
  ASSUME NEW g \in Sessions, IdsInv(g), ~Exhausted(g)
  PROVE  g.nextTurn \in 1 .. MaxTurnID
<1>1. g.nextTurn \in 1 .. MaxTurnID + 1
  BY DEF Sessions
<1>2. MaxTurnID \in Nat
  BY GameAssumption
<1>3. ~(g.nextTurn > MaxTurnID)
  BY DEF Exhausted
<1>4. QED
  BY <1>1, <1>2, <1>3

-----------------------------------------------------------------------------
(* The roster and the settings, which change before a game only            *)

LEMMA SetUp ==
  ASSUME NEW g, GameInv(g), ~g.started, NEW h \in Sessions, RosterInv(h),
         h.active = g.active, h.done = g.done, h.nextTurn = g.nextTurn,
         h.started = g.started, h.finished = g.finished
  PROVE  GameInv(h) /\ Follows(g, h)
<1>1. UsedIds(h) = UsedIds(g)
  BY DEF UsedIds
<1>2. IdsInv(h)
  BY <1>1 DEF GameInv, IdsInv
<1>3. PlayInv(h)
  BY DEF GameInv, PlayInv
<1>4. Follows(g, h)
  BY GameAssumption DEF Follows, GameInv, Sessions
<1>5. QED
  BY <1>2, <1>3, <1>4 DEF GameInv

LEMMA PlayersOf ==
  ASSUME NEW g \in Sessions
  PROVE  /\ g.players \in Seq(Seats) /\ Len(g.players) \in Nat
         /\ DOMAIN g.players = 1 .. Len(g.players)
         /\ \A i \in 1 .. Len(g.players) : g.players[i] \in Seats
         /\ g.players # <<>> => Len(g.players) \in Nat \ {0}
<1>1. g.players \in Seq(Seats)
  BY DEF Sessions
<1>2. QED
  BY <1>1, LenProperties, ElementOfSeq, EmptySeq

LEMMA AddedPlayer ==
  ASSUME NEW g, GameInv(g), ~g.started, g.nextPlayer \in Seats, NEW h, h = AddPlayer(g)
  PROVE  /\ GameInv(h) /\ Follows(g, h)
         /\ h.done = g.done /\ h.active = g.active /\ h.topics = g.topics
         /\ ToSet(g.players) \cup {g.nextPlayer} \subseteq ToSet(h.players)
<1> DEFINE s == Append(g.players, g.nextPlayer)
           n == Len(g.players)
<1>1. g \in Sessions
  BY DEF GameInv
<1>2. /\ s \in Seq(Seats) /\ Len(s) = n + 1 /\ DOMAIN s = 1 .. n + 1
      /\ \A i \in 1 .. n : s[i] = g.players[i]
      /\ s[n + 1] = g.nextPlayer
  BY <1>1, PlayersOf, AppendProperties, LenProperties
<1>3. g.nextPlayer \in Nat /\ g.nextPlayer + 1 \in 1 .. MaxSeat + 1
  BY GameAssumption DEF Seats
<1>4. /\ h \in Sessions /\ h.players = s /\ h.nextPlayer = g.nextPlayer + 1
      /\ h.active = g.active /\ h.done = g.done /\ h.nextTurn = g.nextTurn
      /\ h.started = g.started /\ h.finished = g.finished /\ h.current = g.current
      /\ h.topics = g.topics
  BY <1>1, <1>2, <1>3 DEF AddPlayer, Sessions
<1>5. DOMAIN g.players = 1 .. n /\ n \in Nat /\ \A i \in 1 .. n : g.players[i] \in Nat
  BY <1>1, PlayersOf, GameAssumption DEF Seats
<1>6. g.current < n + 1 /\ s # <<>>
  <2>1. g.current \in Nat /\ (g.current = 0 \/ g.current < n)
    BY <1>1 DEF GameInv, RosterInv, Sessions
  <2>2. QED
    BY <1>1, <1>2, <1>5, <2>1, PlayersOf, AppendProperties
<1>7. RosterInv(h)
  <2>1. \A i \in DOMAIN s : s[i] < g.nextPlayer + 1
    BY <1>2, <1>3, <1>5 DEF GameInv, RosterInv
  <2>2. \A i, j \in DOMAIN s : s[i] = s[j] => i = j
    <3>1. SUFFICES ASSUME NEW i \in 1 .. n + 1, NEW j \in 1 .. n + 1, s[i] = s[j] PROVE i = j
      BY <1>2
    <3>2. CASE i \in 1 .. n /\ j \in 1 .. n
      BY <1>2, <1>5, <3>1, <3>2 DEF GameInv, RosterInv
    <3>3. \A k \in 1 .. n : s[k] < g.nextPlayer /\ s[k] \in Nat
      BY <1>2, <1>5 DEF GameInv, RosterInv
    <3>4. CASE (i = n + 1) # (j = n + 1)
      BY <1>2, <1>3, <1>5, <3>1, <3>3, <3>4
    <3>5. QED
      BY <1>5, <3>2, <3>4
  <2>3. QED
    BY <1>2, <1>4, <1>6, <2>1, <2>2 DEF RosterInv
<1>8. ToSet(g.players) \cup {g.nextPlayer} \subseteq ToSet(s)
  <2>1. \A p \in ToSet(g.players) : \E i \in 1 .. n : p = s[i]
    BY <1>2, <1>5 DEF ToSet
  <2>2. n + 1 \in DOMAIN s /\ 1 .. n \subseteq DOMAIN s
    BY <1>2, <1>5
  <2>3. QED
    BY <1>2, <2>1, <2>2 DEF ToSet
<1>9. GameInv(h) /\ Follows(g, h)
  <2> HIDE DEF s
  <2>1. QED
    BY <1>4, <1>7, SetUp
<1>10. QED
  BY <1>4, <1>8, <1>9

LEMMA MovedPlayer ==
  ASSUME NEW g, GameInv(g), ~g.started, NEW p \in Seats, NEW offset \in {-1, 1},
         NEW h, h = MovePlayer(g, p, offset)
  PROVE  /\ GameInv(h) /\ Follows(g, h)
         /\ h.done = g.done /\ h.active = g.active /\ h.topics = g.topics
         /\ ToSet(h.players) = ToSet(g.players)
<1> DEFINE n == Len(g.players)
           from == CHOOSE i \in DOMAIN g.players : g.players[i] = p
           to == from + offset
           s == [g.players EXCEPT ![from] = g.players[to], ![to] = p]
           holder == g.players[g.current + 1]
           place == CHOOSE i \in DOMAIN s : s[i] = holder
<1>1. g \in Sessions /\ n \in Nat /\ DOMAIN g.players = 1 .. n /\ g.players \in Seq(Seats)
      /\ \A i \in 1 .. n : g.players[i] \in Seats
  BY PlayersOf DEF GameInv
<1>2. CASE ~(HasPlayer(g, p) /\ to \in DOMAIN g.players)
  <2>1. h = g
    BY <1>2 DEF MovePlayer
  <2>2. RosterInv(g)
    BY DEF GameInv
  <2>3. QED
    BY <1>1, <2>1, <2>2, SetUp
<1>3. CASE HasPlayer(g, p) /\ to \in DOMAIN g.players
  <2>1. from \in 1 .. n /\ g.players[from] = p /\ to \in 1 .. n /\ to # from
    <3>1. \E i \in DOMAIN g.players : g.players[i] = p
      BY <1>3 DEF HasPlayer, ToSet
    <3>2. from \in DOMAIN g.players /\ g.players[from] = p
      BY <3>1
    <3> HIDE DEF from
    <3>3. QED
      BY <1>1, <1>3, <3>2
  <2>2. /\ s \in Seq(Seats) /\ Len(s) = n /\ DOMAIN s = 1 .. n
        /\ \A i \in 1 .. n : s[i] = IF i = to THEN p ELSE IF i = from THEN g.players[to] ELSE g.players[i]
    <3> DEFINE one == [g.players EXCEPT ![from] = g.players[to]]
    <3> HIDE DEF from, to
    <3>1. /\ one \in Seq(Seats) /\ Len(one) = n
          /\ \A i \in 1 .. n : one[i] = IF i = from THEN g.players[to] ELSE g.players[i]
      BY <1>1, <2>1, ExceptSeq
    <3>2. s = [one EXCEPT ![to] = p]
      OBVIOUS
    <3> HIDE DEF one, s
    <3>3. /\ s \in Seq(Seats) /\ Len(s) = n
          /\ \A i \in 1 .. n : s[i] = IF i = to THEN p ELSE one[i]
      BY <2>1, <3>1, <3>2, ExceptSeq
    <3>4. QED
      BY <3>1, <3>3, LenProperties
  <2>3. h = [g EXCEPT !.players = s, !.current = place - 1]
    BY <1>3 DEF MovePlayer
  <2> HIDE DEF from, to, s
  <2>4. n > 0 /\ g.players # <<>>
    BY <1>1, <2>1, EmptySeq
  <2>5. g.current + 1 \in 1 .. n
    BY <1>1, <2>4 DEF GameInv, RosterInv, Sessions
  <2>6. \E i \in 1 .. n : s[i] = holder
    <3>1. CASE g.current + 1 = to
      BY <2>1, <2>2, <3>1
    <3>2. CASE g.current + 1 = from
      BY <2>1, <2>2, <3>2
    <3>3. CASE g.current + 1 # to /\ g.current + 1 # from
      BY <2>1, <2>2, <2>5, <3>3
    <3>4. QED
      BY <3>1, <3>2, <3>3
  <2>7. place \in 1 .. n
    BY <2>2, <2>6
  <2> HIDE DEF holder, place
  <2>8. /\ h \in Sessions /\ h.players = s /\ h.nextPlayer = g.nextPlayer
        /\ h.active = g.active /\ h.done = g.done /\ h.nextTurn = g.nextTurn
        /\ h.started = g.started /\ h.finished = g.finished /\ h.current = place - 1
        /\ h.topics = g.topics
    <3>1. PICK c \in Nat : c = place - 1
      BY <1>1, <2>7
    <3>2. h = [g EXCEPT !.players = s, !.current = c]
      BY <2>3, <3>1
    <3>3. QED
      BY <1>1, <2>2, <3>1, <3>2 DEF Sessions
  <2>9. ToSet(s) = ToSet(g.players)
    <3>1. ASSUME NEW i \in 1 .. n PROVE \E j \in 1 .. n : g.players[j] = s[i]
      BY <2>1, <2>2
    <3>2. ASSUME NEW i \in 1 .. n PROVE \E j \in 1 .. n : s[j] = g.players[i]
      <4>1. CASE i = to
        BY <2>1, <2>2, <4>1
      <4>2. CASE i = from
        BY <2>1, <2>2, <4>2
      <4>3. CASE i # to /\ i # from
        BY <2>2, <4>3
      <4>4. QED
        BY <4>1, <4>2, <4>3
    <3>3. ASSUME NEW x PROVE x \in ToSet(s) <=> x \in ToSet(g.players)
      <4>1. x \in ToSet(s) <=> \E i \in 1 .. n : x = s[i]
        BY <2>2 DEF ToSet
      <4>2. x \in ToSet(g.players) <=> \E i \in 1 .. n : x = g.players[i]
        BY <1>1 DEF ToSet
      <4>3. QED
        BY <3>1, <3>2, <4>1, <4>2
    <3>4. QED
      BY <3>3
  <2>10. RosterInv(h)
    <3>1. /\ \A i, j \in 1 .. n : g.players[i] = g.players[j] => i = j
          /\ \A i \in 1 .. n : g.players[i] < g.nextPlayer
      BY <1>1 DEF GameInv, RosterInv
    <3>2. \A i \in 1 .. n : s[i] < g.nextPlayer
      BY <2>1, <2>2, <3>1
    <3>3. \A i, j \in 1 .. n : s[i] = s[j] => i = j
      BY <2>1, <2>2, <3>1
    <3>4. s # <<>> /\ place - 1 < n
      BY <1>1, <2>2, <2>4, <2>7, EmptySeq
    <3>5. QED
      BY <2>2, <2>8, <3>2, <3>3, <3>4 DEF RosterInv
  <2>11. QED
    BY <2>8, <2>9, <2>10, SetUp
<1>4. QED
  BY <1>2, <1>3

LEMMA Without ==
  ASSUME NEW S, NEW s \in Seq(S), NEW at \in 1 .. Len(s)
  PROVE  /\ RemoveAt(s, at) \in Seq(S) /\ Len(RemoveAt(s, at)) = Len(s) - 1
         /\ DOMAIN RemoveAt(s, at) = 1 .. Len(s) - 1
         /\ \A i \in 1 .. Len(s) - 1 : RemoveAt(s, at)[i] = IF i < at THEN s[i] ELSE s[i + 1]
<1> DEFINE n == Len(s)
           a == SubSeq(s, 1, at - 1)
           b == SubSeq(s, at + 1, n)
<1>1. n \in Nat /\ \A i \in 1 .. n : s[i] \in S
  BY LenProperties, ElementOfSeq
<1>2. a \in Seq(S) /\ Len(a) = at - 1 /\ \A i \in 1 .. at - 1 : a[i] = s[i]
  BY <1>1, SubSeqProperties
<1>3. b \in Seq(S) /\ Len(b) = n - at /\ \A i \in 1 .. n - at : b[i] = s[at + i]
  BY <1>1, SubSeqProperties
<1> HIDE DEF a, b
<1>4. /\ a \o b \in Seq(S) /\ Len(a \o b) = n - 1
      /\ \A i \in 1 .. n - 1 : (a \o b)[i] = IF i < at THEN s[i] ELSE s[i + 1]
  <2>1. /\ a \o b \in Seq(S) /\ Len(a \o b) = Len(a) + Len(b)
        /\ \A i \in 1 .. Len(a) + Len(b) : (a \o b)[i] = IF i <= Len(a) THEN a[i] ELSE b[i - Len(a)]
    BY <1>2, <1>3, ConcatProperties
  <2>2. Len(a) + Len(b) = n - 1
    BY <1>1, <1>2, <1>3
  <2>3. ASSUME NEW i \in 1 .. n - 1
        PROVE  (a \o b)[i] = IF i < at THEN s[i] ELSE s[i + 1]
    <3>1. CASE i < at
      BY <1>1, <1>2, <2>1, <2>2, <3>1
    <3>2. CASE i >= at
      <4>1. /\ ~(i <= Len(a)) /\ i - Len(a) \in 1 .. n - at
            /\ at + (i - Len(a)) = i + 1
        BY <1>1, <1>2, <3>2
      <4>2. (a \o b)[i] = b[i - Len(a)] /\ b[i - Len(a)] = s[at + (i - Len(a))]
        BY <1>3, <2>1, <2>2, <4>1
      <4>3. QED
        BY <3>2, <4>1, <4>2
    <3>3. QED
      <4>1. i \in Int /\ at \in Int
        BY <1>1
      <4>2. i < at \/ i >= at
        BY <4>1
      <4>3. QED
        BY <3>1, <3>2, <4>2
  <2>4. QED
    BY <2>1, <2>2, <2>3
<1>5. DOMAIN (a \o b) = 1 .. n - 1
  BY <1>4, LenProperties
<1>6. RemoveAt(s, at) = a \o b
  BY DEF RemoveAt, a, b
<1>7. QED
  BY <1>4, <1>5, <1>6

LEMMA RemovedPlayer ==
  ASSUME NEW g, GameInv(g), ~g.started, NEW p \in Seats, NEW h, h = RemovePlayer(g, p)
  PROVE  /\ GameInv(h) /\ Follows(g, h)
         /\ h.done = g.done /\ h.active = g.active /\ h.topics = g.topics
         /\ ToSet(g.players) \ {p} \subseteq ToSet(h.players)
<1> DEFINE n == Len(g.players)
           at == CHOOSE i \in DOMAIN g.players : g.players[i] = p
           s == RemoveAt(g.players, at)
           shifted == IF at - 1 < g.current THEN g.current - 1 ELSE g.current
           current == IF shifted >= Len(s) THEN 0 ELSE shifted
<1>1. g \in Sessions /\ n \in Nat /\ DOMAIN g.players = 1 .. n /\ g.players \in Seq(Seats)
      /\ \A i \in 1 .. n : g.players[i] \in Seats
  BY PlayersOf DEF GameInv
<1>2. CASE ~HasPlayer(g, p)
  <2>1. h = g
    BY <1>2 DEF RemovePlayer
  <2>2. RosterInv(g)
    BY DEF GameInv
  <2>3. QED
    BY <1>1, <2>1, <2>2, SetUp
<1>3. CASE HasPlayer(g, p)
  <2>1. at \in 1 .. n /\ g.players[at] = p
    <3>1. \E i \in DOMAIN g.players : g.players[i] = p
      BY <1>3 DEF HasPlayer, ToSet
    <3>2. QED
      BY <1>1, <3>1
  <2>2. h = [g EXCEPT !.players = s, !.active = IF @ # NoTurn /\ @.player = p THEN NoTurn ELSE @,
                      !.current = current, !.score[p] = 0, !.corrected[p] = 0]
    BY <1>3 DEF RemovePlayer
  <2> HIDE DEF at
  <2>3. /\ s \in Seq(Seats) /\ Len(s) = n - 1 /\ DOMAIN s = 1 .. n - 1
        /\ \A i \in 1 .. n - 1 : s[i] = IF i < at THEN g.players[i] ELSE g.players[i + 1]
    BY <1>1, <2>1, Without
  <2> HIDE DEF s
  <2>4. PICK c \in Nat : c = current /\ (s = <<>> => c = 0) /\ (s # <<>> => c < Len(s))
    <3>1. g.current \in Nat
      BY <1>1 DEF Sessions
    <3>2. shifted \in Nat
      BY <1>1, <2>1, <3>1
    <3> HIDE DEF shifted
    <3>3. n - 1 \in Nat
      BY <1>1, <2>1
    <3>4. (s # <<>> => Len(s) # 0) /\ (s = <<>> => Len(s) = 0)
      BY <2>3, EmptySeq
    <3>5. QED
      BY <2>3, <3>2, <3>3, <3>4
  <2> HIDE DEF current
  <2>5. g.active = NoTurn
    BY DEF GameInv, PlayInv
  <2>6. h = [g EXCEPT !.players = s, !.active = NoTurn, !.current = c, !.score[p] = 0,
                      !.corrected[p] = 0]
    BY <2>2, <2>4, <2>5
  <2>7. /\ h \in Sessions /\ h.players = s /\ h.nextPlayer = g.nextPlayer
        /\ h.active = g.active /\ h.done = g.done /\ h.nextTurn = g.nextTurn
        /\ h.started = g.started /\ h.finished = g.finished /\ h.current = c
        /\ h.topics = g.topics
    <3>1. [g.score EXCEPT ![p] = 0] \in [Seats -> Nat] /\ [g.corrected EXCEPT ![p] = 0] \in [Seats -> Int]
      BY <1>1 DEF Sessions
    <3>2. h = [g EXCEPT !.players = s, !.active = NoTurn, !.current = c,
                        !.score = [g.score EXCEPT ![p] = 0],
                        !.corrected = [g.corrected EXCEPT ![p] = 0]]
      BY <1>1, <2>6 DEF Sessions
    <3>3. NoTurn \in TurnRecords
      BY NoTurnType
    <3>4. h \in Sessions
      BY <1>1, <2>3, <3>1, <3>2, <3>3 DEF Sessions
    <3>5. QED
      BY <1>1, <2>5, <3>2, <3>4 DEF Sessions
  <2>8. \A x \in ToSet(g.players) \ {p} : x \in ToSet(s)
    <3>1. ASSUME NEW i \in 1 .. n, g.players[i] # p
          PROVE  \E j \in 1 .. n - 1 : s[j] = g.players[i]
      <4>1. CASE i < at
        BY <1>1, <2>1, <2>3, <4>1
      <4>2. CASE i > at
        <5>1. i - 1 \in 1 .. n - 1 /\ ~(i - 1 < at) /\ (i - 1) + 1 = i
          BY <1>1, <2>1, <4>2
        <5>2. QED
          BY <2>3, <5>1
      <4>3. QED
        BY <1>1, <2>1, <3>1, <4>1, <4>2
    <3>2. ASSUME NEW x \in ToSet(g.players) \ {p} PROVE x \in ToSet(s)
      <4>1. PICK i \in 1 .. n : x = g.players[i]
        BY <1>1, <3>2 DEF ToSet
      <4>2. PICK j \in 1 .. n - 1 : s[j] = x
        BY <3>1, <3>2, <4>1
      <4>3. QED
        BY <2>3, <4>2 DEF ToSet
    <3>3. QED
      BY <3>2
  <2>9. RosterInv(h)
    <3>1. /\ \A i, j \in 1 .. n : g.players[i] = g.players[j] => i = j
          /\ \A i \in 1 .. n : g.players[i] < g.nextPlayer
      BY <1>1 DEF GameInv, RosterInv
    <3>2. \A i \in 1 .. n - 1 : i \in 1 .. n /\ i + 1 \in 1 .. n
      BY <1>1
    <3>3. \A i \in 1 .. n - 1 : s[i] < g.nextPlayer
      BY <2>3, <3>1, <3>2
    <3>4. \A i, j \in 1 .. n - 1 : s[i] = s[j] => i = j
      BY <1>1, <2>1, <2>3, <3>1, <3>2
    <3>5. QED
      BY <2>3, <2>4, <2>7, <3>3, <3>4 DEF RosterInv
  <2>10. QED
    BY <2>7, <2>8, <2>9, SetUp
<1>4. QED
  BY <1>2, <1>3

LEMMA ChosenTopics ==
  ASSUME NEW g, GameInv(g), ~g.started, NEW ai \in BOOLEAN, NEW rounds \in Nat \ {0}, NEW h,
         h = SetTopics(g) \/ h = Configured(g, ai, rounds)
  PROVE  /\ GameInv(h) /\ Follows(g, h) /\ h.players = g.players
         /\ h.done = g.done /\ h.active = g.active
<1>1. g \in Sessions
  BY DEF GameInv
<1>2. /\ h \in Sessions /\ h.players = g.players /\ h.nextPlayer = g.nextPlayer
      /\ h.active = g.active /\ h.done = g.done /\ h.nextTurn = g.nextTurn
      /\ h.started = g.started /\ h.finished = g.finished /\ h.current = g.current
  <2>1. PICK t \in Nat : t = g.topics + 1
    BY <1>1 DEF Sessions
  <2>2. SetTopics(g) = [g EXCEPT !.topics = t] /\ [g EXCEPT !.topics = t] \in Sessions
    BY <1>1, <2>1 DEF SetTopics, Sessions
  <2>3. h = [g EXCEPT !.topics = t] \/ h = [[g EXCEPT !.topics = t] EXCEPT !.ai = ai, !.rounds = rounds]
    BY <2>2 DEF Configured
  <2>4. CASE h = [g EXCEPT !.topics = t]
    BY <1>1, <2>2, <2>4 DEF Sessions
  <2>5. CASE h = [[g EXCEPT !.topics = t] EXCEPT !.ai = ai, !.rounds = rounds]
    BY <1>1, <2>2, <2>5 DEF Sessions
  <2>6. QED
    BY <2>3, <2>4, <2>5
<1>3. RosterInv(h)
  BY <1>2 DEF GameInv, RosterInv
<1>4. QED
  BY <1>2, <1>3, SetUp

-----------------------------------------------------------------------------
(* The course of a game                                                    *)

LEMMA Cleared ==
  ASSUME NEW g, GameInv(g), NEW h, h = ClearedPlay(g)
  PROVE  /\ h \in Sessions /\ h.players = g.players /\ h.nextPlayer = g.nextPlayer
         /\ h.nextTurn = g.nextTurn /\ h.active = NoTurn /\ h.done = <<>> /\ h.current = 0
         /\ h.round = 1 /\ ~h.finished /\ h.rounds = g.rounds /\ h.topics = g.topics
<1>1. g \in Sessions /\ IdsInv(g)
  BY DEF GameInv
<1>2. RepairedNext(g) = g.nextTurn
  BY <1>1, RepairsNothing
<1> DEFINE zero == [p \in Seats |-> 0]
<1>3. zero \in [Seats -> Nat] /\ zero \in [Seats -> Int]
  OBVIOUS
<1>4. <<>> \in Seq(TurnRecords) /\ NoTurn \in TurnRecords
  BY EmptySeq, NoTurnType
<1>5. PICK none \in Nat, first \in Nat \ {0} : none = 0 /\ first = 1
  OBVIOUS
<1>6. h = [g EXCEPT !.finished = FALSE, !.current = none, !.round = first, !.active = NoTurn,
                    !.done = <<>>, !.nextTurn = g.nextTurn, !.score = zero, !.corrected = zero]
  BY <1>2, <1>5 DEF ClearedPlay
<1> HIDE DEF zero
<1>7. PICK mid : mid = [g EXCEPT !.finished = FALSE, !.current = none, !.round = first,
                                 !.active = NoTurn, !.done = <<>>]
  OBVIOUS
<1>8. mid \in Sessions
  BY <1>1, <1>4, <1>7 DEF Sessions
<1>9. g.nextTurn \in 1 .. MaxTurnID + 1
  BY <1>1 DEF Sessions
<1>10. h = [mid EXCEPT !.nextTurn = g.nextTurn, !.score = zero, !.corrected = zero]
  BY <1>1, <1>6, <1>7 DEF Sessions
<1>11. h \in Sessions
  BY <1>3, <1>8, <1>9, <1>10 DEF Sessions
<1>12. QED
  BY <1>1, <1>5, <1>7, <1>8, <1>10, <1>11 DEF Sessions

LEMMA NothingPlayed ==
  ASSUME NEW g, GameInv(g), NEW h \in Sessions, h.players = g.players,
         h.nextPlayer = g.nextPlayer, h.nextTurn = g.nextTurn, h.active = NoTurn, h.done = <<>>,
         h.current = 0, h.round = 1, ~h.finished, h.started => g.players # <<>>
  PROVE  GameInv(h) /\ Follows(g, h)
<1>1. g \in Sessions
  BY DEF GameInv
<1>2. RosterInv(h)
  <2>1. g.players # <<>> => Len(g.players) > 0
    BY <1>1, PlayersOf
  <2>2. QED
    BY <2>1 DEF GameInv, RosterInv
<1>3. UsedIds(h) = {0}
  <2>1. h.active.id = 0 /\ DOMAIN h.done = {}
    BY NoTurnType
  <2>2. QED
    BY <2>1 DEF UsedIds
<1>4. g.nextTurn >= 1 /\ g.nextTurn \in Nat
  BY <1>1, GameAssumption DEF Sessions
<1>5. IdsInv(h)
  BY <1>3, <1>4 DEF IdsInv
<1>6. PlayInv(h)
  <2>1. h.rounds \in Nat \ {0} /\ Len(h.players) \in Nat
    BY PlayersOf DEF Sessions
  <2>2. Len(h.done) = 0 /\ DOMAIN h.done = {}
    BY EmptySeq
  <2>3. 0 = Len(h.players) * (1 - 1) + 0
    BY <2>1
  <2>4. InOrder(h) \/ ~h.started
    BY <2>1, <2>2, <2>3 DEF InOrder
  <2>5. QED
    BY <2>4 DEF PlayInv
<1>7. QED
  BY <1>2, <1>4, <1>5, <1>6 DEF GameInv, Follows

LEMMA ResetGameKeeps ==
  ASSUME NEW g, GameInv(g), NEW h, h = ResetForNewGame(g)
  PROVE  /\ GameInv(h) /\ Follows(g, h) /\ h.players = g.players
         /\ h.done = <<>> /\ h.active = NoTurn /\ h.topics = g.topics
<1>1. PICK c : c = ClearedPlay(g)
  OBVIOUS
<1>2. h = [c EXCEPT !.started = FALSE]
  BY <1>1 DEF ResetForNewGame
<1>3. /\ c \in Sessions /\ c.players = g.players /\ c.nextPlayer = g.nextPlayer
      /\ c.nextTurn = g.nextTurn /\ c.active = NoTurn /\ c.done = <<>> /\ c.current = 0
      /\ c.round = 1 /\ ~c.finished /\ c.rounds = g.rounds /\ c.topics = g.topics
  BY <1>1, Cleared
<1>4. /\ h \in Sessions /\ h.players = g.players /\ h.nextPlayer = g.nextPlayer
      /\ h.nextTurn = g.nextTurn /\ h.active = NoTurn /\ h.done = <<>> /\ h.current = 0
      /\ h.round = 1 /\ ~h.finished /\ ~h.started /\ h.topics = g.topics
  BY <1>2, <1>3 DEF Sessions
<1>5. QED
  BY <1>4, NothingPlayed

LEMMA StartKeeps ==
  ASSUME NEW g, GameInv(g), CanStart(g), NEW h, h = Start(g)
  PROVE  /\ GameInv(h) /\ Follows(g, h) /\ h.players = g.players /\ h.started /\ ~h.finished
         /\ h.done = <<>> /\ h.active = NoTurn /\ h.topics = g.topics /\ h.nextTurn = g.nextTurn
<1>1. PICK c : c = ClearedPlay(g)
  OBVIOUS
<1>2. h = [c EXCEPT !.started = TRUE]
  BY <1>1 DEF Start
<1>3. /\ c \in Sessions /\ c.players = g.players /\ c.nextPlayer = g.nextPlayer
      /\ c.nextTurn = g.nextTurn /\ c.active = NoTurn /\ c.done = <<>> /\ c.current = 0
      /\ c.round = 1 /\ ~c.finished /\ c.rounds = g.rounds /\ c.topics = g.topics
  BY <1>1, Cleared
<1>4. /\ h \in Sessions /\ h.players = g.players /\ h.nextPlayer = g.nextPlayer
      /\ h.nextTurn = g.nextTurn /\ h.active = NoTurn /\ h.done = <<>> /\ h.current = 0
      /\ h.round = 1 /\ ~h.finished /\ h.started /\ h.topics = g.topics
  BY <1>2, <1>3 DEF Sessions
<1>5. g.players # <<>>
  BY EmptySeq DEF CanStart
<1>6. QED
  BY <1>4, <1>5, NothingPlayed

\* A turn that takes the next id, of the player whose turn it is.
LEMMA NextIdTaken ==
  ASSUME NEW g, GameInv(g), g.started, ~g.finished, g.nextTurn \in 1 .. MaxTurnID,
         NEW turn \in TurnRecords, turn.id = g.nextTurn, turn.ai = "none",
         turn.player = g.players[g.current + 1],
         NEW h \in Sessions, h.players = g.players, h.nextPlayer = g.nextPlayer,
         h.nextTurn = g.nextTurn + 1, h.active = turn, h.done = g.done, h.current = g.current,
         h.round = g.round, h.rounds = g.rounds, ~h.finished, h.started
  PROVE  GameInv(h) /\ Follows(g, h) /\ h.active # NoTurn
<1>1. g \in Sessions
  BY DEF GameInv
<1>2. RosterInv(h)
  BY DEF GameInv, RosterInv
<1>3. g.nextTurn \in Nat /\ g.nextTurn # 0 /\ h.nextTurn \in Nat
  BY Limits
<1>4. IdsInv(h)
  <2>1. UsedIds(h) \subseteq UsedIds(g) \cup {g.nextTurn} /\ g.nextTurn \in UsedIds(h)
    BY DEF UsedIds
  <2>2. UsedIds(g) \subseteq Nat /\ \A id \in UsedIds(g) : id < g.nextTurn
    BY <1>1, RepairsNothing DEF GameInv, IdsInv
  <2>3. \A id \in UsedIds(h) : id <= g.nextTurn /\ id < h.nextTurn
    <3>1. SUFFICES ASSUME NEW id \in Nat, id <= g.nextTurn PROVE id < h.nextTurn
      BY <1>3, <2>1, <2>2
    <3>2. QED
        BY <1>3, <3>1
  <2>4. QED
    BY <1>3, <2>1, <2>3 DEF IdsInv
<1>5. PlayInv(h)
  BY DEF GameInv, PlayInv, InOrder
<1>6. Follows(g, h)
  BY <1>3 DEF Follows
<1>7. h.active # NoTurn
  BY <1>3, NoTurnType
<1>8. QED
  BY <1>2, <1>4, <1>5, <1>6, <1>7 DEF GameInv

LEMMA StartTurnKeeps ==
  ASSUME NEW g, GameInv(g), g.started, ~g.finished, g.active = NoTurn,
         g.nextTurn \in 1 .. MaxTurnID, NEW birth \in Nat, NEW h, h = StartTurn(g, birth)
  PROVE  /\ GameInv(h) /\ Follows(g, h) /\ h.players = g.players /\ h.topics = g.topics
         /\ h.done = g.done /\ h.active # NoTurn
<1>1. g \in Sessions /\ IdsInv(g) /\ g.players # <<>> /\ g.current \in Nat /\ g.current < Len(g.players)
  BY DEF GameInv, PlayInv, InOrder, RosterInv, Sessions
<1>2. g.players[g.current + 1] \in Seats
  BY <1>1, PlayersOf
<1>3. PICK turn : turn = NewTurn(g.nextTurn, g.players[g.current + 1], birth)
  OBVIOUS
<1>4. /\ turn \in TurnRecords /\ turn.id = g.nextTurn /\ turn.ai = "none"
      /\ turn.player = g.players[g.current + 1]
  <2>1. g.nextTurn \in Nat /\ 0 \in 0 .. Duration
    BY Limits
  <2>2. QED
    BY <1>2, <1>3, <2>1 DEF NewTurn, TurnRecords
<1>5. PICK n \in 1 .. MaxTurnID + 1 : n = g.nextTurn + 1
  BY Limits
<1>6. h = [g EXCEPT !.nextTurn = n, !.active = turn]
  BY <1>1, <1>3, <1>5, RepairsNothing DEF StartTurn, TakeId
<1>7. /\ h \in Sessions /\ h.players = g.players /\ h.nextPlayer = g.nextPlayer
      /\ h.nextTurn = n /\ h.active = turn /\ h.done = g.done
      /\ h.current = g.current /\ h.round = g.round /\ h.rounds = g.rounds
      /\ h.finished = g.finished /\ h.started = g.started /\ h.topics = g.topics
  <2>1. h \in Sessions
    BY <1>1, <1>4, <1>6 DEF Sessions
  <2>2. QED
    BY <1>1, <1>6, <2>1 DEF Sessions
<1>8. GameInv(h) /\ Follows(g, h) /\ h.active # NoTurn
  BY <1>4, <1>5, <1>7, NextIdTaken
<1>9. QED
  BY <1>7, <1>8

LEMMA RedrawKeeps ==
  ASSUME NEW g, GameInv(g), g.active # NoTurn,
         g.nextTurn \in 1 .. MaxTurnID, NEW birth \in Nat, NEW h, h = RedrawActiveTurn(g, birth)
  PROVE  /\ GameInv(h) /\ Follows(g, h) /\ h.players = g.players /\ h.topics = g.topics
         /\ h.done = g.done /\ h.active # NoTurn
<1>1. g \in Sessions /\ IdsInv(g)
  BY DEF GameInv
<1>2. /\ g.started /\ ~g.finished /\ g.active.player = g.players[g.current + 1]
      /\ g.active.ai = "none" /\ g.active \in TurnRecords
  BY <1>1 DEF GameInv, PlayInv, InOrder, IdsInv, Sessions
<1>3. PICK turn : turn = [g.active EXCEPT !.id = g.nextTurn, !.birth = birth]
  OBVIOUS
<1>4. /\ turn \in TurnRecords /\ turn.id = g.nextTurn /\ turn.ai = "none"
      /\ turn.player = g.players[g.current + 1]
  <2>1. g.nextTurn \in Nat
    BY Limits
  <2>2. QED
    BY <1>2, <1>3, <2>1 DEF TurnRecords
<1>5. PICK n \in 1 .. MaxTurnID + 1 : n = g.nextTurn + 1
  BY Limits
<1>6. h = [g EXCEPT !.nextTurn = n, !.active = turn]
  BY <1>1, <1>3, <1>5, RepairsNothing DEF RedrawActiveTurn, TakeId, Sessions
<1>7. /\ h \in Sessions /\ h.players = g.players /\ h.nextPlayer = g.nextPlayer
      /\ h.nextTurn = n /\ h.active = turn /\ h.done = g.done
      /\ h.current = g.current /\ h.round = g.round /\ h.rounds = g.rounds
      /\ h.finished = g.finished /\ h.started = g.started /\ h.topics = g.topics
  <2>1. h \in Sessions
    BY <1>1, <1>4, <1>6 DEF Sessions
  <2>2. QED
    BY <1>1, <1>6, <2>1 DEF Sessions
<1>8. GameInv(h) /\ Follows(g, h) /\ h.active # NoTurn
  BY <1>2, <1>4, <1>5, <1>7, NextIdTaken
<1>9. QED
  BY <1>7, <1>8

\* Two sessions that differ in scores and in how turns are judged.
Rescored(g, h) ==
  /\ h.players = g.players /\ h.nextPlayer = g.nextPlayer /\ h.nextTurn = g.nextTurn
  /\ h.active = g.active /\ h.current = g.current /\ h.round = g.round
  /\ h.rounds = g.rounds /\ (h.finished <=> g.finished) /\ (h.started <=> g.started)
  /\ h.topics = g.topics
  /\ DOMAIN h.done = DOMAIN g.done /\ Len(h.done) = Len(g.done)
  /\ \A i \in DOMAIN g.done : /\ h.done[i].id = g.done[i].id
                              /\ h.done[i].birth = g.done[i].birth
                              /\ h.done[i].player = g.done[i].player

LEMMA RescoredKeeps ==
  ASSUME NEW g, GameInv(g), NEW h \in Sessions, Rescored(g, h)
  PROVE  GameInv(h) /\ Follows(g, h)
<1>1. g \in Sessions
  BY DEF GameInv
<1>2. UsedIds(h) = UsedIds(g)
  BY DEF UsedIds, Rescored
<1>3. IdsInv(h) /\ RosterInv(h)
  BY <1>2 DEF GameInv, IdsInv, RosterInv, Rescored
<1>4. g.done = <<>> => h.done = <<>>
  BY EmptySeq DEF Rescored, Sessions
<1>5. g.started => InOrder(h)
  <2>1. SUFFICES ASSUME g.started PROVE InOrder(h)
    OBVIOUS
  <2>2. InOrder(g)
    BY <2>1 DEF GameInv, PlayInv
  <2>3. QED
    BY <2>2 DEF InOrder, Rescored
<1>6. PlayInv(h)
  BY <1>4, <1>5 DEF GameInv, PlayInv, Rescored
<1>7. Follows(g, h)
  BY <1>1, Limits DEF Follows, Rescored, Sessions
<1>8. QED
  BY <1>3, <1>6, <1>7 DEF GameInv

LEMMA PayKeeps ==
  ASSUME NEW g \in Sessions, NEW p \in Seats, NEW points \in Nat, NEW h, h = Pay(g, p, points)
  PROVE  h \in Sessions /\ h.done = g.done /\ Rescored(g, h) /\ h.ai = g.ai
<1>1. CASE ~HasPlayer(g, p)
  BY <1>1 DEF Pay, Rescored
<1>2. CASE HasPlayer(g, p)
  <2>1. g.score \in [Seats -> Nat]
    BY DEF Sessions
  <2>2. PICK score \in [Seats -> Nat] : score = [g.score EXCEPT ![p] = @ + points]
    <3>1. PICK n \in Nat : n = g.score[p] + points
      BY <2>1
    <3>2. [g.score EXCEPT ![p] = n] \in [Seats -> Nat]
      BY <2>1
    <3>3. [g.score EXCEPT ![p] = @ + points] = [g.score EXCEPT ![p] = n]
      BY <3>1
    <3>4. QED
      BY <3>2, <3>3
  <2>3. h = [g EXCEPT !.score = score]
    BY <1>2, <2>2 DEF Pay, Sessions
  <2>4. h \in Sessions
    BY <2>3 DEF Sessions
  <2>5. QED
    BY <2>3, <2>4 DEF Rescored, Sessions
<1>3. QED
  BY <1>1, <1>2

LEMMA DoneOf ==
  ASSUME NEW g \in Sessions
  PROVE  /\ g.done \in Seq(TurnRecords) /\ Len(g.done) \in Nat
         /\ DOMAIN g.done = 1 .. Len(g.done)
         /\ \A i \in 1 .. Len(g.done) : g.done[i] \in TurnRecords
<1>1. g.done \in Seq(TurnRecords)
  BY DEF Sessions
<1>2. QED
  BY <1>1, LenProperties, ElementOfSeq

LEMMA MarkKeeps ==
  ASSUME NEW g, GameInv(g), NEW i \in 1 .. Len(g.done), NEW turn \in TurnRecords,
         turn.id = g.done[i].id, turn.birth = g.done[i].birth, turn.player = g.done[i].player,
         NEW h, h = WithTurn(g, i, turn)
  PROVE  /\ GameInv(h) /\ Follows(g, h) /\ h.players = g.players /\ h.topics = g.topics
         /\ h.active = g.active
         /\ DOMAIN h.done = DOMAIN g.done /\ h.done[i] = turn
         /\ \A j \in DOMAIN g.done \ {i} : h.done[j] = g.done[j]
<1>1. g \in Sessions
  BY DEF GameInv
<1>2. PICK done : done = [g.done EXCEPT ![i] = turn]
  OBVIOUS
<1>3. /\ done \in Seq(TurnRecords) /\ Len(done) = Len(g.done) /\ DOMAIN done = 1 .. Len(g.done)
      /\ \A j \in 1 .. Len(g.done) : done[j] = IF j = i THEN turn ELSE g.done[j]
  BY <1>1, <1>2, DoneOf, ExceptSeq, LenProperties
<1>4. h = [g EXCEPT !.done = done]
  BY <1>1, <1>2 DEF WithTurn, Sessions
<1>5. h \in Sessions
  BY <1>1, <1>3, <1>4 DEF Sessions
<1>6. /\ h.done = done /\ h.players = g.players /\ h.topics = g.topics /\ h.active = g.active
  BY <1>1, <1>4, <1>5 DEF Sessions
<1>7. Rescored(g, h)
  <2>1. /\ h.nextPlayer = g.nextPlayer /\ h.nextTurn = g.nextTurn /\ h.current = g.current
        /\ h.round = g.round /\ h.rounds = g.rounds
        /\ (h.finished <=> g.finished) /\ (h.started <=> g.started)
    BY <1>1, <1>4, <1>5 DEF Sessions
  <2>2. DOMAIN g.done = 1 .. Len(g.done)
    BY <1>1, DoneOf
  <2>3. QED
    BY <1>3, <1>6, <2>1, <2>2 DEF Rescored
<1>8. GameInv(h) /\ Follows(g, h)
  BY <1>5, <1>7, RescoredKeeps
<1>9. QED
  BY <1>1, <1>3, <1>6, <1>8, DoneOf

\* A session with a verdict more, and otherwise the same turns.
Regraded(g, h) ==
  /\ GameInv(h) /\ Follows(g, h) /\ h.players = g.players /\ h.topics = g.topics
  /\ h.active = g.active /\ DOMAIN h.done = DOMAIN g.done
  /\ \A i \in DOMAIN g.done : h.done[i].id = g.done[i].id /\ h.done[i].birth = g.done[i].birth

LEMMA ResolveKeeps ==
  ASSUME NEW g, GameInv(g), NEW index \in Nat, NEW id \in Nat,
         NEW status \in {"done", "failed", "skipped"}, NEW bonus \in Nat,
         NEW h, h = ResolveTurnAI(g, index, id, status, bonus)
  PROVE  /\ Regraded(g, h)
         /\ \A i \in DOMAIN g.done : h.done[i].ai = "pending" =>
              g.done[i].ai = "pending" /\ ~(i = index /\ g.done[i].id = id)
<1>1. g \in Sessions
  BY DEF GameInv
<1>2. CASE ~IsPending(g, index, id)
  <2>1. h = g
    BY <1>2 DEF ResolveTurnAI
  <2>2. Rescored(g, h)
    BY <2>1 DEF Rescored
  <2>3. \A i \in DOMAIN g.done : ~(i = index /\ g.done[i].id = id /\ g.done[i].ai = "pending")
    BY <1>2 DEF IsPending
  <2>4. QED
    BY <1>1, <2>1, <2>2, <2>3, RescoredKeeps DEF Regraded
<1>3. CASE IsPending(g, index, id)
  <2>1. index \in 1 .. Len(g.done) /\ g.done[index] \in TurnRecords
    BY <1>1, <1>3, DoneOf DEF IsPending
  <2>2. PICK points \in Nat : points = Points(status, bonus)
    BY DEF Points
  <2>3. PICK total \in Nat : total = g.done[index].score + points
    BY <2>1 DEF TurnRecords
  <2>4. PICK turn : turn = Judged(g.done[index], status, points)
    OBVIOUS
  <2>5. /\ turn \in TurnRecords /\ turn.id = g.done[index].id /\ turn.birth = g.done[index].birth
        /\ turn.player = g.done[index].player /\ turn.ai = status
    BY <2>1, <2>3, <2>4 DEF TurnRecords, Judged
  <2>6. PICK paid : paid = Pay(g, g.done[index].player, points)
    OBVIOUS
  <2>7. paid \in Sessions /\ paid.done = g.done /\ Rescored(g, paid)
    <3>1. CASE g.done[index].player \in Seats
      BY <1>1, <2>6, <3>1, PayKeeps
    <3>2. CASE g.done[index].player \notin Seats
      <4>1. ~HasPlayer(g, g.done[index].player)
        BY <1>1, <3>2, PlayersOf DEF HasPlayer, ToSet
      <4>2. QED
        BY <1>1, <2>6, <4>1 DEF Pay, Rescored
    <3>3. QED
      BY <3>1, <3>2
  <2>8. GameInv(paid) /\ Follows(g, paid)
    BY <2>7, RescoredKeeps
  <2>9. h = WithTurn(paid, index, turn)
    BY <1>3, <2>2, <2>4, <2>6, <2>7 DEF ResolveTurnAI
  <2>10. /\ GameInv(h) /\ Follows(paid, h) /\ h.players = paid.players /\ h.topics = paid.topics
         /\ h.active = paid.active
         /\ DOMAIN h.done = DOMAIN paid.done /\ h.done[index] = turn
         /\ \A j \in DOMAIN paid.done \ {index} : h.done[j] = paid.done[j]
    BY <2>1, <2>5, <2>7, <2>8, <2>9, MarkKeeps
  <2>11. Follows(g, h)
    BY <2>7, <2>10 DEF Follows, Rescored
  <2>12. QED
    BY <2>5, <2>7, <2>10, <2>11 DEF Rescored, Regraded
<1>4. QED
  BY <1>2, <1>3

LEMMA EndedType ==
  ASSUME NEW g \in Sessions, NEW spoken \in Int, NEW completed \in BOOLEAN,
         NEW turn, turn = EndedTurn(g, spoken, completed)
  PROVE  /\ turn \in TurnRecords /\ turn.id = g.active.id /\ turn.birth = g.active.birth
         /\ turn.player = g.active.player /\ turn.ai = g.active.ai
<1>1. g.active \in TurnRecords
  BY DEF Sessions
<1>2. PICK s \in 0 .. Duration : s = Clamped(spoken)
  BY Limits DEF Clamped
<1>3. PICK c \in BOOLEAN : c = (completed /\ s >= Duration)
  OBVIOUS
<1>4. PICK timed : timed = [g.active EXCEPT !.spoken = s, !.completed = c]
  OBVIOUS
<1>5. timed \in TurnRecords
  BY <1>1, <1>2, <1>3, <1>4 DEF TurnRecords
<1>6. PICK score \in Nat : score = Classic(timed)
  BY <1>5, Limits DEF Classic, TurnRecords
<1>7. turn = [timed EXCEPT !.score = score]
  BY <1>2, <1>3, <1>4, <1>6 DEF EndedTurn
<1>8. QED
  BY <1>1, <1>4, <1>5, <1>6, <1>7 DEF TurnRecords

LEMMA AdvanceKeeps ==
  ASSUME NEW g \in Sessions, g.current < Len(g.players), NEW h, h = Advance(g)
  PROVE  /\ h \in Sessions /\ h.players = g.players /\ h.nextPlayer = g.nextPlayer
         /\ h.nextTurn = g.nextTurn /\ h.active = g.active /\ h.done = g.done
         /\ h.rounds = g.rounds /\ h.topics = g.topics /\ h.started = g.started /\ h.ai = g.ai
         /\ h.current = IF g.current + 1 = Len(g.players) THEN 0 ELSE g.current + 1
         /\ h.round = IF g.current + 1 = Len(g.players) THEN g.round + 1 ELSE g.round
         /\ h.finished <=> g.finished \/ h.round > g.rounds
<1>1. /\ g.current \in Nat /\ g.round \in Nat \ {0} /\ g.rounds \in Nat \ {0} /\ g.finished \in BOOLEAN
      /\ Len(g.players) \in Nat
  BY PlayersOf DEF Sessions
<1>2. g.current + 1 >= Len(g.players) <=> g.current + 1 = Len(g.players)
  BY <1>1
<1>3. PICK c \in Nat : c = IF g.current + 1 >= Len(g.players) THEN 0 ELSE g.current + 1
  BY <1>1
<1>4. PICK r \in Nat \ {0} : r = IF g.current + 1 >= Len(g.players) THEN g.round + 1 ELSE g.round
  BY <1>1
<1>5. PICK f \in BOOLEAN : f = (g.finished \/ r > g.rounds)
  BY <1>1, <1>4
<1>6. h = [g EXCEPT !.current = c, !.round = r, !.finished = f]
  BY <1>3, <1>4, <1>5 DEF Advance
<1>7. h \in Sessions
  BY <1>6 DEF Sessions
<1>8. QED
  BY <1>2, <1>3, <1>4, <1>5, <1>6, <1>7 DEF Sessions

LEMMA TurnIsOver ==
  ASSUME NEW g, GameInv(g), g.active # NoTurn, NEW turn \in TurnRecords,
         turn.id = g.active.id, turn.player = g.active.player,
         NEW h \in Sessions, h.players = g.players, h.nextPlayer = g.nextPlayer,
         h.nextTurn = g.nextTurn, h.active = NoTurn, h.done = Append(g.done, turn),
         h.rounds = g.rounds, h.started = g.started,
         h.current = IF g.current + 1 = Len(g.players) THEN 0 ELSE g.current + 1,
         h.round = IF g.current + 1 = Len(g.players) THEN g.round + 1 ELSE g.round,
         h.finished <=> g.finished \/ h.round > g.rounds
  PROVE  GameInv(h) /\ Follows(g, h)
<1>1. g \in Sessions /\ g.started /\ InOrder(g) /\ ~g.finished
  BY DEF GameInv, PlayInv, InOrder
<1>2. PICK n \in Nat \ {0}, c \in Nat, r \in Nat \ {0}, rounds \in Nat, L \in Nat :
        n = Len(g.players) /\ c = g.current /\ r = g.round /\ rounds = g.rounds /\ L = Len(g.done)
  BY <1>1, PlayersOf, DoneOf DEF InOrder, Sessions
<1>3. c < n /\ L = n * (r - 1) + c /\ ~(r > rounds) /\ g.active.player = g.players[c + 1]
  BY <1>1, <1>2 DEF GameInv, RosterInv, InOrder
<1>4. /\ DOMAIN g.done = 1 .. L /\ DOMAIN h.done = 1 .. L + 1 /\ Len(h.done) = L + 1
      /\ \A i \in 1 .. L : h.done[i] = g.done[i]
      /\ h.done[L + 1] = turn
  BY <1>1, <1>2, DoneOf, AppendProperties, LenProperties
<1>5. RosterInv(h)
  <2>1. h.current < n
    BY <1>2, <1>3
  <2>2. QED
    BY <1>1, <1>2, <2>1 DEF GameInv, RosterInv, InOrder
<1>6. IdsInv(h)
  <2>1. UsedIds(h) = UsedIds(g)
    <3>1. \A id : (\E i \in DOMAIN h.done : id = h.done[i].id)
                   <=> (id = turn.id \/ \E i \in DOMAIN g.done : id = g.done[i].id)
      <4>1. SUFFICES ASSUME NEW id
                     PROVE  (\E i \in 1 .. L + 1 : id = h.done[i].id)
                            <=> (id = turn.id \/ \E i \in 1 .. L : id = g.done[i].id)
        BY <1>4
      <4>2. \A i \in 1 .. L + 1 : i \in 1 .. L \/ i = L + 1
        OBVIOUS
      <4>3. 1 .. L \subseteq 1 .. L + 1 /\ L + 1 \in 1 .. L + 1
        OBVIOUS
      <4>4. QED
        BY <1>4, <4>2, <4>3
    <3>2. h.active.id = 0
      BY NoTurnType
    <3>3. \A id : id \in UsedIds(h) <=> id \in UsedIds(g)
      BY <3>1, <3>2 DEF UsedIds
    <3>4. QED
      BY <3>3
  <2>2. QED
    BY <2>1 DEF GameInv, IdsInv
<1>7. InOrder(h)
  <2>1. Len(h.done) = n * (h.round - 1) + h.current
    <3>1. CASE c + 1 = n
      <4>1. n * (r - 1) + n = n * ((r + 1) - 1)
        BY NextRound
      <4>2. L + 1 = n * (r - 1) + n
        <5>1. PICK m \in Nat : m = n * (r - 1)
          OBVIOUS
        <5>2. QED
          BY <1>3, <3>1, <5>1
      <4>3. L + 1 = n * ((r + 1) - 1) + 0
        BY <4>1, <4>2
      <4>4. QED
        BY <1>2, <1>4, <3>1, <4>3
    <3>2. CASE c + 1 # n
      <4>1. L + 1 = n * (r - 1) + (c + 1)
        <5>1. PICK m \in Nat : m = n * (r - 1)
          OBVIOUS
        <5>2. QED
          BY <1>3, <5>1
      <4>2. QED
        BY <1>2, <1>4, <3>2, <4>1
    <3>3. QED
      BY <3>1, <3>2
  <2>2. ASSUME NEW i \in 1 .. L + 1
        PROVE  h.done[i].player = g.players[((i - 1) % n) + 1]
    <3>1. CASE i \in 1 .. L
      BY <1>1, <1>2, <1>4, <3>1 DEF InOrder
    <3>2. CASE i = L + 1
      <4>1. PICK q \in Nat : q = r - 1
        OBVIOUS
      <4>2. L % n = c
        BY <1>3, <4>1, PlaceInRound
      <4>3. i - 1 = L
        BY <3>2
      <4>4. QED
        BY <1>3, <1>4, <3>2, <4>2, <4>3
    <3>3. i \in 1 .. L \/ i = L + 1
      OBVIOUS
    <3>4. QED
      BY <3>1, <3>2, <3>3
  <2>3. h.finished <=> h.round > h.rounds
    BY <1>1
  <2>4. h.finished => h.round = h.rounds + 1 /\ h.current = 0
    <3>1. CASE c + 1 = n
      BY <1>2, <1>3, <2>3, <3>1
    <3>2. CASE c + 1 # n
      BY <1>2, <1>3, <2>3, <3>2
    <3>3. QED
      BY <3>1, <3>2
  <2>5. h.players # <<>>
    BY <1>1 DEF InOrder
  <2>6. /\ Len(h.done) = Len(h.players) * (h.round - 1) + h.current
        /\ \A i \in DOMAIN h.done : h.done[i].player = h.players[((i - 1) % Len(h.players)) + 1]
    BY <1>2, <1>4, <2>1, <2>2
  <2>7. QED
    BY <2>3, <2>4, <2>5, <2>6 DEF InOrder
<1>8. PlayInv(h)
  BY <1>1, <1>7 DEF PlayInv
<1>9. Follows(g, h)
  BY <1>1, Limits DEF Follows, Sessions
<1>10. QED
  BY <1>5, <1>6, <1>8, <1>9 DEF GameInv

\* A session in which the turn that was on is over.
TurnEnded(g, h) ==
  /\ GameInv(h) /\ Follows(g, h) /\ h.players = g.players /\ h.topics = g.topics
  /\ h.active = NoTurn
  /\ \E turn \in TurnRecords : h.done = Append(g.done, turn) /\ turn.ai = "none"

LEMMA SubmitKeeps ==
  ASSUME NEW g, GameInv(g), g.active # NoTurn, NEW spoken \in Int, NEW completed \in BOOLEAN,
         NEW eliminated \in BOOLEAN, NEW h, h = SubmitTurn(g, spoken, completed, eliminated)
  PROVE  TurnEnded(g, h)
<1>1. g \in Sessions /\ g.started /\ g.active.ai = "none" /\ g.current < Len(g.players)
      /\ g.active.player = g.players[g.current + 1] /\ g.active.id # 0
  BY DEF GameInv, PlayInv, InOrder, IdsInv, RosterInv
<1>2. PICK turn : turn = EndedTurn(g, spoken, completed /\ ~eliminated)
  OBVIOUS
<1>3. /\ turn \in TurnRecords /\ turn.id = g.active.id /\ turn.birth = g.active.birth
      /\ turn.player = g.active.player /\ turn.ai = "none"
  <2>1. PICK c \in BOOLEAN : c = (completed /\ ~eliminated)
    OBVIOUS
  <2>2. turn = EndedTurn(g, spoken, c)
    BY <1>2, <2>1
  <2>3. QED
    BY <1>1, <2>2, EndedType
<1>4. turn.player \in Seats /\ turn.score \in Nat
  <2>1. g.current \in Nat
    BY <1>1 DEF Sessions
  <2>2. QED
    BY <1>1, <1>3, <2>1, PlayersOf DEF TurnRecords
<1>5. PICK paid : paid = Pay(g, turn.player, turn.score)
  OBVIOUS
<1>6. paid \in Sessions /\ paid.done = g.done /\ Rescored(g, paid) /\ paid.ai = g.ai
  BY <1>1, <1>4, <1>5, PayKeeps
<1>7. PICK k : k = Recorded(paid, turn)
  OBVIOUS
<1>8. /\ k \in Sessions /\ k.done = Append(g.done, turn) /\ k.active = NoTurn
      /\ k.players = paid.players /\ k.nextPlayer = paid.nextPlayer /\ k.nextTurn = paid.nextTurn
      /\ k.current = paid.current /\ k.round = paid.round /\ k.rounds = paid.rounds
      /\ k.topics = paid.topics /\ k.ai = paid.ai
      /\ k.finished = paid.finished /\ k.started = paid.started
  <2>1. PICK done \in Seq(TurnRecords) : done = Append(g.done, turn)
    BY <1>1, <1>3, DoneOf, AppendProperties
  <2>2. k = [paid EXCEPT !.done = done, !.active = NoTurn]
    BY <1>6, <1>7, <2>1 DEF Recorded
  <2>3. k \in Sessions
    BY <1>6, <2>2, NoTurnType DEF Sessions
  <2>4. QED
    BY <1>6, <2>1, <2>2, <2>3 DEF Sessions
<1>9. h = Advance(k)
  BY <1>2, <1>5, <1>7 DEF SubmitTurn
<1>10. k.current < Len(k.players)
  BY <1>1, <1>6, <1>8 DEF Rescored
<1>11. /\ h \in Sessions /\ h.players = k.players /\ h.nextPlayer = k.nextPlayer
       /\ h.nextTurn = k.nextTurn /\ h.active = k.active /\ h.done = k.done
       /\ h.rounds = k.rounds /\ h.topics = k.topics /\ h.started = k.started /\ h.ai = k.ai
       /\ h.current = IF k.current + 1 = Len(k.players) THEN 0 ELSE k.current + 1
       /\ h.round = IF k.current + 1 = Len(k.players) THEN k.round + 1 ELSE k.round
       /\ h.finished <=> k.finished \/ h.round > k.rounds
  BY <1>8, <1>9, <1>10, AdvanceKeeps
<1>12. GameInv(h) /\ Follows(g, h)
  <2>1. /\ h.players = g.players /\ h.nextPlayer = g.nextPlayer /\ h.nextTurn = g.nextTurn
        /\ h.active = NoTurn /\ h.done = Append(g.done, turn) /\ h.rounds = g.rounds
        /\ h.current = IF g.current + 1 = Len(g.players) THEN 0 ELSE g.current + 1
        /\ h.round = IF g.current + 1 = Len(g.players) THEN g.round + 1 ELSE g.round
    BY <1>6, <1>8, <1>11 DEF Rescored
  <2>2. h.started = g.started /\ (h.finished <=> g.finished \/ h.round > g.rounds)
    BY <1>1, <1>6, <1>8, <1>11 DEF Rescored, Sessions
  <2>3. QED
    BY <1>3, <1>11, <2>1, <2>2, TurnIsOver
<1>13. QED
  BY <1>3, <1>6, <1>8, <1>11, <1>12 DEF Rescored, TurnEnded

LEMMA ReconcileKeeps ==
  ASSUME NEW g, GameInv(g), NEW h, h = ReconcilePendingAI(g)
  PROVE  /\ GameInv(h) /\ h.players = g.players
         /\ \A i \in DOMAIN h.done : h.done[i].ai # "pending"
<1>1. g \in Sessions
  BY DEF GameInv
<1> DEFINE stands(turn) == IF turn.ai = "pending"
                           THEN [turn EXCEPT !.score = Classic(turn), !.ai = "failed", !.bonus = 0]
                           ELSE turn
           done == [i \in DOMAIN g.done |-> stands(g.done[i])]
<1>2. ASSUME NEW turn \in TurnRecords
      PROVE  /\ stands(turn) \in TurnRecords /\ stands(turn).id = turn.id
             /\ stands(turn).birth = turn.birth /\ stands(turn).player = turn.player
             /\ stands(turn).ai # "pending"
  <2>1. PICK score \in Nat, none \in Nat : score = Classic(turn) /\ none = 0
    BY Limits DEF Classic, TurnRecords
  <2>2. CASE turn.ai = "pending"
    <3>1. stands(turn) = [turn EXCEPT !.score = score, !.ai = "failed", !.bonus = none]
      BY <2>1, <2>2
    <3> HIDE DEF stands
    <3>2. QED
      BY <3>1 DEF TurnRecords
  <2>3. CASE turn.ai # "pending"
    BY <2>3
  <2>4. QED
    BY <2>2, <2>3
<1> HIDE DEF stands
<1>3. DOMAIN g.done = 1 .. Len(g.done) /\ Len(g.done) \in Nat
      /\ \A i \in 1 .. Len(g.done) : g.done[i] \in TurnRecords
  BY <1>1, DoneOf
<1>4. /\ done \in Seq(TurnRecords) /\ Len(done) = Len(g.done) /\ DOMAIN done = DOMAIN g.done
      /\ \A i \in DOMAIN g.done : done[i] = stands(g.done[i])
  <2>1. done \in [1 .. Len(g.done) -> TurnRecords]
    BY <1>2, <1>3
  <2>2. QED
    BY <1>3, <2>1
<1>5. h = [g EXCEPT !.done = done]
  BY DEF ReconcilePendingAI, stands
<1> HIDE DEF done
<1>6. h \in Sessions
  BY <1>1, <1>4, <1>5 DEF Sessions
<1>7. Rescored(g, h) /\ h.done = done
  <2>1. /\ h.players = g.players /\ h.nextPlayer = g.nextPlayer /\ h.nextTurn = g.nextTurn
        /\ h.active = g.active /\ h.current = g.current /\ h.round = g.round
        /\ h.rounds = g.rounds /\ (h.finished <=> g.finished) /\ (h.started <=> g.started)
        /\ h.topics = g.topics /\ h.done = done
    BY <1>1, <1>5, <1>6 DEF Sessions
  <2>2. \A i \in DOMAIN g.done : /\ done[i].id = g.done[i].id
                                 /\ done[i].birth = g.done[i].birth
                                 /\ done[i].player = g.done[i].player
    BY <1>2, <1>3, <1>4
  <2>3. QED
    BY <1>4, <2>1, <2>2 DEF Rescored
<1>8. QED
  BY <1>2, <1>3, <1>4, <1>6, <1>7, RescoredKeeps DEF Rescored

LEMMA OverrideKeeps ==
  ASSUME NEW g, GameInv(g), NEW p \in Seats, NEW delta \in Int, NEW h, h = OverrideScore(g, p, delta)
  PROVE  /\ GameInv(h) /\ Follows(g, h) /\ h.players = g.players /\ h.topics = g.topics
         /\ h.done = g.done /\ h.active = g.active
<1>1. g \in Sessions /\ g.score \in [Seats -> Nat] /\ g.corrected \in [Seats -> Int]
  BY DEF GameInv, Sessions
<1>2. PICK floored \in Nat : floored = IF g.score[p] + delta < 0 THEN 0 ELSE g.score[p] + delta
  BY <1>1
<1>3. PICK total \in Int : total = g.corrected[p] + floored - g.score[p]
  BY <1>1
<1>4. PICK score, corrected : /\ score = [g.score EXCEPT ![p] = floored]
                              /\ corrected = [g.corrected EXCEPT ![p] = total]
  OBVIOUS
<1>5. score \in [Seats -> Nat] /\ corrected \in [Seats -> Int]
  BY <1>1, <1>4
<1>6. h = [g EXCEPT !.score = score, !.corrected = corrected]
  BY <1>2, <1>3, <1>4 DEF OverrideScore
<1>7. h \in Sessions
  BY <1>1, <1>5, <1>6 DEF Sessions
<1>8. Rescored(g, h) /\ h.done = g.done
  BY <1>1, <1>6, <1>7 DEF Sessions, Rescored
<1>9. QED
  BY <1>7, <1>8, RescoredKeeps DEF Rescored

-----------------------------------------------------------------------------
(* What a step keeps of a room                                             *)

\* The part of RoomInv that is about a room which has not gone.
Kept(r, open, judges, lists, p, e) ==
  /\ Sound(r) /\ Counted(r, open) /\ Awaited(r.game, judges)
  /\ Current(r, lists) /\ Shown(r.game, p, e)

LEMMA SeatsStay ==
  ASSUME NEW members \in [Tokens -> {0} \cup Seats], NEW g, NEW h, SeatsHeld(members, g),
         ToSet(g.players) \subseteq ToSet(h.players)
  PROVE  SeatsHeld(members, h)
BY DEF SeatsHeld, HasPlayer

LEMMA GhostsStay ==
  ASSUME NEW ghosts, NEW members, NEW g, NEW h, GhostsLeft(ghosts, members, g),
         ToSet(g.players) \subseteq ToSet(h.players)
  PROVE  GhostsLeft(ghosts, members, h)
BY DEF GhostsLeft, HasPlayer

LEMMA IdTypes ==
  ASSUME NEW g \in Sessions
  PROVE  g.nextTurn \in Nat /\ g.active.id \in Nat
<1>1. g.nextTurn \in 1 .. MaxTurnID + 1 /\ g.active \in TurnRecords
  BY DEF Sessions
<1>2. QED
  BY <1>1, Limits DEF TurnRecords

LEMMA StillShown ==
  ASSUME NEW g, NEW h, GameInv(g), GameInv(h), Follows(g, h),
         NEW p \in [id : Nat, birth : Nat, after : Nat, epoch : Nat], NEW e, Shown(g, p, e)
  PROVE  Shown(h, p, e)
<1>1. SUFFICES ASSUME p.epoch = e
               PROVE  p.id < h.nextTurn /\ (p.id # 0 /\ h.active.id = p.id => h.active.birth = p.birth)
  BY DEF Shown
<1>2. p.id < g.nextTurn /\ (p.id # 0 /\ g.active.id = p.id => g.active.birth = p.birth)
  BY <1>1 DEF Shown
<1>3. g.nextTurn \in Nat /\ h.nextTurn \in Nat /\ p.id \in Nat
      /\ g.active.id \in Nat /\ h.active.id \in Nat
  BY IdTypes DEF GameInv
<1>4. p.id < h.nextTurn
  BY <1>2, <1>3 DEF Follows
<1>5. ASSUME p.id # 0, h.active.id = p.id PROVE h.active.birth = p.birth
  <2>1. CASE h.active = NoTurn
    BY <1>5, <2>1, NoTurnType
  <2>2. CASE h.active.id = g.active.id /\ h.active.birth = g.active.birth
    BY <1>2, <1>5, <2>2
  <2>3. CASE h.active.id >= g.nextTurn
    BY <1>2, <1>3, <1>5, <2>3
  <2>4. QED
    BY <2>1, <2>2, <2>3 DEF Follows
<1>6. QED
  BY <1>4, <1>5

LEMMA GoesOn ==
  ASSUME NEW r, NEW open, NEW judges, NEW open2, NEW judges2,
         NEW lists \in SUBSET [token : Tokens, number : Nat, topics : Nat],
         NEW p \in [id : Nat, birth : Nat, after : Nat, epoch : Nat], NEW e,
         Kept(r, open, judges, lists, p, e),
         NEW q \in Rooms, GameInv(q.game), Follows(r.game, q.game), SeatsHeld(q.members, q.game),
         GhostsLeft(q.ghosts, q.members, q.game), Counted(q, open2), Awaited(q.game, judges2), q.elapsed # -1 => q.game.active # NoTurn,
         q.generation >= r.generation,
         q.generation = r.generation => q.game.topics = r.game.topics
  PROVE  Kept(q, open2, judges2, lists, p, e)
<1>1. Sound(q)
  BY DEF Sound
<1>2. Shown(q.game, p, e)
  BY StillShown DEF Kept, Sound
<1>3. Current(q, lists)
  <2>1. r.generation \in Nat /\ q.generation \in Nat
    BY DEF Kept, Sound, Rooms
  <2>2. ASSUME NEW a \in lists
        PROVE  a.number <= q.generation /\ (a.number = q.generation => a.topics = q.game.topics)
    <3>1. a.number \in Nat
      OBVIOUS
    <3>2. a.number <= r.generation /\ (a.number = r.generation => a.topics = r.game.topics)
      BY DEF Kept, Current
    <3>3. QED
      BY <2>1, <3>1, <3>2
  <2>3. QED
    BY <2>2 DEF Current
<1>4. QED
  BY <1>1, <1>2, <1>3 DEF Kept

\* The fields of a room a request may leave alone.
SameSeats(r, q) ==
  q.members = r.members /\ q.ghosts = r.ghosts /\ q.online = r.online /\ q.conns = r.conns

LEMMA RoomRenewed ==
  ASSUME NEW r \in Rooms, NEW h \in Sessions, NEW q, q = [r EXCEPT !.game = h]
  PROVE  /\ q \in Rooms /\ q.game = h /\ SameSeats(r, q) /\ q.host = r.host
         /\ q.elapsed = r.elapsed /\ q.generation = r.generation
BY DEF Rooms, SameSeats

LEMMA ClockStopped ==
  ASSUME NEW r \in Rooms, NEW q, q = StopClock(r)
  PROVE  /\ q \in Rooms /\ q.game = r.game /\ SameSeats(r, q) /\ q.host = r.host
         /\ q.elapsed = -1 /\ q.generation = r.generation
<1>1. PICK stopped \in -1 .. Duration + 1 : stopped = -1
  BY Limits
<1>2. q = [r EXCEPT !.elapsed = stopped]
  BY <1>1 DEF StopClock
<1>3. QED
  BY <1>1, <1>2 DEF Rooms, SameSeats

LEMMA DraftsStale ==
  ASSUME NEW r \in Rooms, NEW q, q = Invalidated(r)
  PROVE  /\ q \in Rooms /\ q.game = r.game /\ SameSeats(r, q) /\ q.host = r.host
         /\ q.elapsed = r.elapsed /\ q.generation = r.generation + 1
<1>1. PICK n \in Nat : n = r.generation + 1
  BY DEF Rooms
<1>2. q = [r EXCEPT !.generation = n]
  BY <1>1 DEF Invalidated
<1>3. QED
  BY <1>1, <1>2 DEF Rooms, SameSeats

LEMMA Mutated ==
  ASSUME room \in Rooms, NEW t \in Tokens, NEW r \in Rooms, Mutate(t, r)
  PROVE  /\ room' \in Rooms /\ room'.game = r.game /\ SameSeats(r, room') /\ room'.host = r.host
         /\ room'.elapsed = r.elapsed /\ room'.generation = r.generation
<1>1. PICK none \in Nat : none = 0
  OBVIOUS
<1>2. PICK away \in Nat : away = IF IsHost(t) THEN none ELSE r.away
  BY <1>1 DEF Rooms
<1>3. PICK q : q = [r EXCEPT !.away = away, !.idle = none]
  OBVIOUS
<1>4. room' = q
  BY <1>1, <1>2, <1>3 DEF Mutate
<1>5. /\ q \in Rooms /\ q.game = r.game /\ SameSeats(r, q) /\ q.host = r.host
      /\ q.elapsed = r.elapsed /\ q.generation = r.generation
  BY <1>1, <1>2, <1>3 DEF Rooms, SameSeats
<1>6. QED
  BY <1>4, <1>5

LEMMA Spent ==
  ASSUME scope \in [Concerns -> Nat], NEW what \in Concerns, Spend(what)
  PROVE  scope' \in [Concerns -> Nat]
BY DEF Spend

LEMMA OfRoom ==
  ASSUME RoomInv, ~room.gone
  PROVE  /\ room \in Rooms /\ Kept(room, streams, graders, asks, page, epoch)
         /\ GameInv(room.game) /\ SeatsHeld(room.members, room.game)
         /\ GhostsLeft(room.ghosts, room.members, room.game) /\ room.ghosts \in SUBSET Seats
         /\ room.game \in Sessions
         /\ room.members \in [Tokens -> {0} \cup Seats] /\ room.generation \in Nat
BY DEF RoomInv, Kept, Sound, Rooms

LEMMA RoomStep ==
  ASSUME RoomInv, UNCHANGED Others, scope' \in [Concerns -> Nat], births' \in Nat,
         room' \in Rooms, Kept(room', streams, graders, asks, page, epoch)
  PROVE  RoomInv'
<1>1. TypeOK'
  BY DEF RoomInv, TypeOK, Others
<1>2. QED
  BY <1>1 DEF RoomInv, Kept, Others, Distinct

LEMMA CountedStill ==
  ASSUME NEW r, NEW q, NEW open, Counted(r, open), SameSeats(r, q)
  PROVE  Counted(q, open)
BY DEF Counted, SameSeats

LEMMA GameStep ==
  ASSUME RoomInv, ~room.gone, UNCHANGED Others, scope' \in [Concerns -> Nat], births' \in Nat,
         NEW t \in Tokens, NEW r \in Rooms, Mutate(t, r), SameSeats(room, r),
         GameInv(r.game), Follows(room.game, r.game),
         ToSet(room.game.players) \subseteq ToSet(r.game.players),
         Awaited(r.game, graders), r.elapsed # -1 => r.game.active # NoTurn,
         r.generation >= room.generation,
         r.generation = room.generation => r.game.topics = room.game.topics
  PROVE  RoomInv'
<1>1. /\ room' \in Rooms /\ room'.game = r.game /\ SameSeats(r, room')
      /\ room'.elapsed = r.elapsed /\ room'.generation = r.generation
  BY OfRoom, Mutated
<1>2. PICK q \in Rooms : q = room'
  BY <1>1
<1>3. q.game = r.game /\ SameSeats(room, q) /\ q.elapsed = r.elapsed /\ q.generation = r.generation
  BY <1>1, <1>2 DEF SameSeats
<1>4. SeatsHeld(q.members, q.game) /\ GhostsLeft(q.ghosts, q.members, q.game)
  BY <1>3, OfRoom, SeatsStay, GhostsStay DEF SameSeats
<1>5. Counted(q, streams)
  BY <1>3, OfRoom, CountedStill DEF Kept
<1>6. /\ asks \in SUBSET [token : Tokens, number : Nat, topics : Nat]
      /\ page \in [id : Nat, birth : Nat, after : Nat, epoch : Nat]
  BY DEF RoomInv, TypeOK
<1>7. Kept(q, streams, graders, asks, page, epoch)
  BY <1>3, <1>4, <1>5, <1>6, OfRoom, GoesOn
<1>8. QED
  BY <1>1, <1>2, <1>7, RoomStep

LEMMA AwaitedStill ==
  ASSUME NEW g, NEW h, NEW judges, Awaited(g, judges), h.done = g.done \/ h.done = <<>>
  PROVE  Awaited(h, judges)
<1>1. CASE h.done = g.done
  BY <1>1 DEF Awaited
<1>2. CASE h.done = <<>>
  BY <1>2 DEF Awaited
<1>3. QED
  BY <1>1, <1>2

-----------------------------------------------------------------------------
(* The roster                                                              *)

LEMMA SeatIsOlder ==
  ASSUME NEW g, GameInv(g), NEW p, HasPlayer(g, p)
  PROVE  p \in Seats /\ p < g.nextPlayer
BY PlayersOf DEF GameInv, RosterInv, HasPlayer, ToSet

\* A step that lets a join in or answers one, and keeps what the invariant says of the room.
LEMMA JoinStep ==
  ASSUME RoomInv, UNCHANGED <<streams, graders, asks, page, saved, epoch>>,
         joins' \in [Tokens -> Nat], scope' \in [Concerns -> Nat], births' = births,
         \/ room' = room
         \/ room' \in Rooms /\ Kept(room', streams, graders, asks, page, epoch)
  PROVE  RoomInv'
<1>1. TypeOK'
  BY DEF RoomInv, TypeOK
<1>2. ~room'.gone => Kept(room', streams, graders, asks, page, epoch)
  BY OfRoom
<1>3. QED
  BY <1>1, <1>2 DEF RoomInv, Kept, Distinct

LEMMA LookMemberSafe ==
  ASSUME RoomInv, NEW t \in Tokens, LookMember(t)
  PROVE  RoomInv'
<1>1. /\ UNCHANGED <<streams, graders, asks, page, saved, epoch>> /\ births' = births
      /\ room' = room /\ scope' \in [Concerns -> Nat]
  BY Spent DEF LookMember, RoomInv, TypeOK, Concerns
<1>2. joins' \in [Tokens -> Nat]
  BY DEF LookMember, RoomInv, TypeOK
<1>3. QED
  BY <1>1, <1>2, JoinStep

LEMMA JoinRoomSafe ==
  ASSUME RoomInv, NEW t \in Tokens, JoinRoom(t)
  PROVE  RoomInv'
<1>1. /\ UNCHANGED <<streams, graders, asks, page, saved, epoch>> /\ births' = births
      /\ scope' \in [Concerns -> Nat] /\ joins' \in [Tokens -> Nat]
  BY DEF JoinRoom, RoomInv, TypeOK
<1>2. CASE room' = room
  BY <1>1, <1>2, JoinStep
<1>3. CASE room' # room
  <2>1. ~room.gone /\ ~room.game.started /\ room.game.nextPlayer \in Seats
    BY <1>3 DEF JoinRoom, Game
  <2>2. PICK h : h = AddPlayer(room.game)
    OBVIOUS
  <2>3. /\ GameInv(h) /\ Follows(room.game, h) /\ h.done = room.game.done
        /\ h.active = room.game.active /\ h.topics = room.game.topics
        /\ ToSet(room.game.players) \cup {room.game.nextPlayer} \subseteq ToSet(h.players)
    BY <2>1, <2>2, OfRoom, AddedPlayer
  <2>4. PICK m : m = [room.members EXCEPT ![t] = room.game.nextPlayer]
    OBVIOUS
  <2>5. m \in [Tokens -> {0} \cup Seats] /\ room.members \in [Tokens -> {0} \cup Seats]
    BY <2>1, <2>4, OfRoom
  <2>6. PICK left \in SUBSET Seats : left = room.ghosts \cup ({room.members[t]} \ {0})
    BY <2>1, <2>5, OfRoom
  <2>7. PICK none \in Nat : none = 0
    OBVIOUS
  <2>8. PICK q : q = [room EXCEPT !.game = h, !.members = m, !.ghosts = left, !.idle = none]
    OBVIOUS
  <2>9. room' = q
    BY <1>3, <2>1, <2>2, <2>4, <2>6, <2>7, <2>8, OfRoom DEF JoinRoom, Game, Seat, Rooms
  <2>10. /\ q \in Rooms /\ q.game = h /\ q.members = m /\ q.ghosts = left
         /\ q.online = room.online /\ q.conns = room.conns /\ q.elapsed = room.elapsed
         /\ q.generation = room.generation
    BY <2>1, <2>3, <2>5, <2>8, OfRoom DEF Rooms, GameInv
  <2>11. m[t] = room.game.nextPlayer /\ \A o \in Tokens \ {t} : m[o] = room.members[o]
    BY <2>4, <2>5
  <2>12. \A p : HasPlayer(room.game, p) => p # room.game.nextPlayer /\ HasPlayer(h, p)
    <3>1. ASSUME NEW p, HasPlayer(room.game, p) PROVE p # room.game.nextPlayer
      BY <2>1, <3>1, OfRoom, SeatIsOlder, Limits DEF Seats
    <3>2. QED
      BY <2>3, <3>1 DEF HasPlayer
  <2>13. \A o \in Tokens : room.members[o] # 0 => HasPlayer(room.game, room.members[o])
    BY <2>1, OfRoom DEF SeatsHeld
  <2>14. SeatsHeld(m, h)
    <3>1. ASSUME NEW u \in Tokens, m[u] # 0
          PROVE  HasPlayer(h, m[u]) /\ \A other \in Tokens \ {u} : m[other] # m[u]
      <4>1. CASE u = t
        <5>1. HasPlayer(h, m[u])
          BY <2>3, <2>11, <4>1 DEF HasPlayer
        <5>2. \A other \in Tokens \ {u} : m[other] # m[u]
          BY <2>11, <2>12, <2>13, <3>1, <4>1
        <5>3. QED
          BY <5>1, <5>2
      <4>2. CASE u # t
        <5>1. HasPlayer(h, m[u]) /\ m[t] # m[u]
          BY <2>11, <2>12, <2>13, <3>1, <4>2
        <5>2. \A other \in Tokens \ {u, t} : m[other] # m[u]
          BY <2>1, <2>11, <3>1, <4>2, OfRoom DEF SeatsHeld
        <5>3. QED
          BY <5>1, <5>2
      <4>3. QED
        BY <4>1, <4>2
    <3>2. QED
      BY <3>1 DEF SeatsHeld
  <2>15. GhostsLeft(left, m, h)
    <3>1. ASSUME NEW p \in left
          PROVE  HasPlayer(room.game, p) /\ \A u \in Tokens \ {t} : room.members[u] # p
      <4>1. CASE p \in room.ghosts
        BY <2>1, <4>1, OfRoom DEF GhostsLeft
      <4>2. CASE p \notin room.ghosts
        <5>1. p = room.members[t] /\ p # 0
          BY <2>6, <3>1, <4>2
        <5>2. QED
          BY <2>1, <2>13, <5>1, OfRoom DEF SeatsHeld
      <4>3. QED
        BY <4>1, <4>2
    <3>2. ASSUME NEW p \in left
          PROVE  HasPlayer(h, p) /\ \A u \in Tokens : m[u] # p
      <4>1. HasPlayer(h, p) /\ m[t] # p
        BY <2>11, <2>12, <3>1
      <4>2. \A u \in Tokens \ {t} : m[u] # p
        BY <2>11, <3>1
      <4>3. QED
        BY <4>1, <4>2
    <3>3. QED
      BY <3>2 DEF GhostsLeft
  <2>16. Counted(q, streams)
    <3>1. ASSUME NEW p \in Seats \ left, q.online[p] > 0
          PROVE  \E u \in Tokens : q.members[u] = p /\ q.online[p] <= streams[u]
      <4>1. p \in Seats \ room.ghosts /\ p # room.members[t]
        BY <2>6, <3>1, Limits DEF Seats
      <4>2. PICK u \in Tokens : room.members[u] = p /\ room.online[p] <= streams[u]
        BY <2>1, <2>10, <3>1, <4>1, OfRoom DEF Kept, Counted
      <4>3. QED
        BY <2>10, <2>11, <4>1, <4>2
    <3>2. q.conns = streams
      BY <2>1, <2>10, OfRoom DEF Kept, Counted
    <3>3. QED
      BY <2>10, <3>1, <3>2 DEF Counted
  <2>17. Kept(q, streams, graders, asks, page, epoch)
    <3>1. Awaited(h, graders)
      BY <2>1, <2>3, OfRoom, AwaitedStill DEF Kept
    <3>2. q.elapsed # -1 => h.active # NoTurn
      BY <2>1, <2>3, <2>10, OfRoom DEF Kept, Sound
    <3>3. /\ asks \in SUBSET [token : Tokens, number : Nat, topics : Nat]
          /\ page \in [id : Nat, birth : Nat, after : Nat, epoch : Nat]
          /\ q.generation >= room.generation
      BY <2>1, <2>10, OfRoom DEF RoomInv, TypeOK
    <3>4. QED
      BY <2>1, <2>3, <2>10, <2>14, <2>15, <2>16, <3>1, <3>2, <3>3, OfRoom, GoesOn
  <2>18. QED
    BY <1>1, <2>9, <2>10, <2>17, JoinStep
<1>4. QED
  BY <1>2, <1>3

LEMMA RosterStep ==
  ASSUME RoomInv, ~room.gone, UNCHANGED Others, scope' \in [Concerns -> Nat], births' = births,
         NEW t \in Tokens, NEW h, MutateGame(t, h), GameInv(h), Follows(room.game, h),
         ToSet(room.game.players) \subseteq ToSet(h.players),
         h.done = room.game.done, h.active = room.game.active, h.topics = room.game.topics
  PROVE  RoomInv'
<1>1. PICK r : r = [room EXCEPT !.game = h]
  OBVIOUS
<1>2. /\ r \in Rooms /\ r.game = h /\ SameSeats(room, r)
      /\ r.elapsed = room.elapsed /\ r.generation = room.generation
  BY <1>1, OfRoom, RoomRenewed DEF GameInv
<1>3. Mutate(t, r)
  BY <1>1 DEF MutateGame
<1>4. Awaited(r.game, graders) /\ (r.elapsed # -1 => r.game.active # NoTurn)
  BY <1>2, OfRoom, AwaitedStill DEF Kept, Sound
<1>5. births' \in Nat /\ r.generation >= room.generation
  BY <1>2, OfRoom DEF RoomInv, TypeOK
<1>6. QED
  BY <1>2, <1>3, <1>4, <1>5, GameStep

LEMMA Unmoved ==
  ASSUME NEW g, GameInv(g)
  PROVE  Follows(g, g)
BY IdTypes DEF Follows, GameInv

LEMMA HostAddsPlayerSafe ==
  ASSUME RoomInv, NEW t \in Tokens, HostAddsPlayer(t)
  PROVE  RoomInv'
<1>1. ~room.gone /\ ~room.game.started /\ room.game.nextPlayer \in Seats
  BY DEF HostAddsPlayer, HostInSetup, Request, Game
<1>2. PICK h : h = IF Len(room.game.players) >= MaxPlayers THEN room.game ELSE AddPlayer(room.game)
  OBVIOUS
<1>3. MutateGame(t, h) /\ UNCHANGED Others /\ births' = births /\ scope' \in [Concerns -> Nat]
  BY <1>2, Spent DEF HostAddsPlayer, Game, RoomInv, TypeOK, Concerns
<1>4. CASE h = room.game
  BY <1>1, <1>3, <1>4, OfRoom, Unmoved, RosterStep
<1>5. CASE h = AddPlayer(room.game)
  <2>1. /\ GameInv(h) /\ Follows(room.game, h) /\ h.done = room.game.done
        /\ h.active = room.game.active /\ h.topics = room.game.topics
        /\ ToSet(room.game.players) \cup {room.game.nextPlayer} \subseteq ToSet(h.players)
    BY <1>1, <1>5, OfRoom, AddedPlayer
  <2>2. QED
    BY <1>1, <1>3, <2>1, RosterStep
<1>6. QED
  BY <1>2, <1>4, <1>5

LEMMA HostMovesPlayerSafe ==
  ASSUME RoomInv, NEW t \in Tokens, NEW p \in Seats, NEW offset \in {-1, 1},
         HostMovesPlayer(t, p, offset)
  PROVE  RoomInv'
<1>1. ~room.gone /\ ~room.game.started
  BY DEF HostMovesPlayer, HostInSetup, Request, Game
<1>2. PICK h : h = MovePlayer(room.game, p, offset)
  OBVIOUS
<1>3. MutateGame(t, h) /\ UNCHANGED Others /\ births' = births /\ scope' \in [Concerns -> Nat]
  BY <1>2, Spent DEF HostMovesPlayer, Game, RoomInv, TypeOK, Concerns
<1>4. /\ GameInv(h) /\ Follows(room.game, h) /\ h.done = room.game.done
      /\ h.active = room.game.active /\ h.topics = room.game.topics
      /\ ToSet(h.players) = ToSet(room.game.players)
  BY <1>1, <1>2, OfRoom, MovedPlayer
<1>5. QED
  BY <1>1, <1>3, <1>4, RosterStep

LEMMA SeatFreed ==
  ASSUME RoomInv, ~room.gone, ~room.game.started, UNCHANGED Others,
         scope' \in [Concerns -> Nat], births' = births,
         NEW t \in Tokens, NEW p \in Seats, NEW r,
         r = UnbindPlayer([room EXCEPT !.game = RemovePlayer(room.game, p)], p),
         Mutate(t, r)
  PROVE  RoomInv'
<1>1. PICK h : h = RemovePlayer(room.game, p)
  OBVIOUS
<1>2. /\ GameInv(h) /\ Follows(room.game, h) /\ h.done = room.game.done
      /\ h.active = room.game.active /\ h.topics = room.game.topics
      /\ ToSet(room.game.players) \ {p} \subseteq ToSet(h.players)
  BY <1>1, OfRoom, RemovedPlayer
<1>3. PICK none \in {0} \cup Seats : none = 0
  OBVIOUS
<1>4. PICK m : m = [u \in Tokens |-> IF room.members[u] = p THEN none ELSE room.members[u]]
  OBVIOUS
<1>5. PICK on : on = [room.online EXCEPT ![p] = none]
  OBVIOUS
<1>5a. PICK left \in SUBSET Seats : left = room.ghosts \ {p}
  BY OfRoom
<1>6. m \in [Tokens -> {0} \cup Seats] /\ on \in [Seats -> Nat] /\ room.online \in [Seats -> Nat]
  BY <1>3, <1>4, <1>5, OfRoom, Limits DEF Seats, Rooms
<1>7. PICK between : between = [room EXCEPT !.game = h]
  OBVIOUS
<1>8. /\ between \in Rooms /\ between.game = h /\ SameSeats(room, between)
      /\ between.elapsed = room.elapsed /\ between.generation = room.generation
  BY <1>2, <1>7, OfRoom, RoomRenewed DEF GameInv
<1>9. r = [between EXCEPT !.members = m, !.online = on, !.ghosts = left]
  BY <1>1, <1>3, <1>4, <1>5, <1>5a, <1>7, <1>8 DEF UnbindPlayer, SameSeats
<1>10. /\ r \in Rooms /\ r.game = h /\ r.members = m /\ r.online = on /\ r.ghosts = left
       /\ r.conns = room.conns /\ r.elapsed = room.elapsed /\ r.generation = room.generation
  BY <1>6, <1>8, <1>9 DEF Rooms, SameSeats
<1>11. PICK q \in Rooms : /\ q = room' /\ q.game = h /\ q.members = m /\ q.online = on
                          /\ q.ghosts = left
                          /\ q.conns = room.conns /\ q.elapsed = room.elapsed
                          /\ q.generation = room.generation
  BY <1>10, OfRoom, Mutated DEF SameSeats
<1>12. SeatsHeld(m, h)
  <2>1. ASSUME NEW u \in Tokens, m[u] # 0
        PROVE  HasPlayer(h, m[u]) /\ \A other \in Tokens \ {u} : m[other] # m[u]
    <3>1. m[u] = room.members[u] /\ m[u] # p
      BY <1>3, <1>4, <2>1
    <3>2. HasPlayer(room.game, m[u]) /\ \A other \in Tokens \ {u} : room.members[other] # m[u]
      BY <2>1, <3>1, OfRoom DEF SeatsHeld
    <3>3. HasPlayer(h, m[u])
      BY <1>2, <3>1, <3>2 DEF HasPlayer
    <3>4. QED
      BY <1>3, <1>4, <2>1, <3>2, <3>3
  <2>2. QED
    BY <2>1 DEF SeatsHeld
<1>12a. GhostsLeft(left, m, h)
  <2>1. ASSUME NEW s \in left
        PROVE  HasPlayer(h, s) /\ \A u \in Tokens : m[u] # s
    <3>1. s # p /\ s # 0 /\ HasPlayer(room.game, s) /\ \A u \in Tokens : room.members[u] # s
      BY <1>5a, OfRoom, Limits DEF GhostsLeft, Seats
    <3>2. QED
      BY <1>2, <1>3, <1>4, <3>1 DEF HasPlayer
  <2>2. QED
    BY <2>1 DEF GhostsLeft
<1>13. Counted(q, streams)
  <2>1. ASSUME NEW s \in Seats \ left, q.online[s] > 0
        PROVE  \E u \in Tokens : q.members[u] = s /\ q.online[s] <= streams[u]
    <3>1. s # p /\ q.online[s] = room.online[s]
      BY <1>3, <1>5, <1>6, <1>11, <2>1
    <3>2. PICK u \in Tokens : room.members[u] = s /\ room.online[s] <= streams[u]
      BY <1>5a, <2>1, <3>1, OfRoom DEF Kept, Counted
    <3>3. q.members[u] = s
      BY <1>4, <1>11, <3>1, <3>2
    <3>4. QED
      BY <3>1, <3>2, <3>3
  <2>2. q.conns = streams
    BY <1>11, OfRoom DEF Kept, Counted
  <2>3. QED
    BY <1>11, <2>1, <2>2 DEF Counted
<1>14. Kept(q, streams, graders, asks, page, epoch)
  <2>1. Awaited(h, graders)
    BY <1>2, OfRoom, AwaitedStill DEF Kept
  <2>2. q.elapsed # -1 => h.active # NoTurn
    BY <1>2, <1>11, OfRoom DEF Kept, Sound
  <2>3. /\ asks \in SUBSET [token : Tokens, number : Nat, topics : Nat]
        /\ page \in [id : Nat, birth : Nat, after : Nat, epoch : Nat]
        /\ q.generation >= room.generation
    BY <1>11, OfRoom DEF RoomInv, TypeOK
  <2>4. QED
    BY <1>2, <1>11, <1>12, <1>12a, <1>13, <2>1, <2>2, <2>3, OfRoom, GoesOn
<1>15. births' \in Nat
  BY DEF RoomInv, TypeOK
<1>16. QED
  BY <1>11, <1>14, <1>15, RoomStep

LEMMA HostRemovesPlayerSafe ==
  ASSUME RoomInv, NEW t \in Tokens, NEW p \in Seats, HostRemovesPlayer(t, p)
  PROVE  RoomInv'
<1>1. ~room.gone /\ ~room.game.started
  BY DEF HostRemovesPlayer, HostInSetup, Request, Game
<1>2. PICK r : r = UnbindPlayer([room EXCEPT !.game = RemovePlayer(room.game, p)], p)
  OBVIOUS
<1>3. Mutate(t, r) /\ UNCHANGED Others /\ births' = births /\ scope' \in [Concerns -> Nat]
  BY <1>2, Spent DEF HostRemovesPlayer, RoomInv, TypeOK, Concerns
<1>4. QED
  BY <1>1, <1>2, <1>3, SeatFreed

LEMMA LeaveSafe ==
  ASSUME RoomInv, NEW t \in Tokens, Leave(t)
  PROVE  RoomInv'
<1>1. ~room.gone /\ ~room.game.started /\ room.members[t] # 0
  BY DEF Leave, Request, Seat, Game
<1>2. PICK p \in Seats : p = room.members[t]
  BY <1>1, OfRoom
<1>3. PICK r : r = UnbindPlayer([room EXCEPT !.game = RemovePlayer(room.game, p)], p)
  OBVIOUS
<1>4. Mutate(t, r)
  <2>1. Mutate(t, [room EXCEPT !.game = RemovePlayer(@, p), !.members[t] = 0, !.online[p] = 0])
    BY <1>2 DEF Leave, Seat
  <2>2. PICK a : a = [room EXCEPT !.game = RemovePlayer(room.game, p)]
    OBVIOUS
  <2>3. a.members = room.members /\ a.online = room.online
    BY <1>1, <2>2, OfRoom DEF Rooms
  <2>4. [room.members EXCEPT ![t] = 0]
          = [u \in Tokens |-> IF room.members[u] = p THEN 0 ELSE room.members[u]]
    <3>1. \A u \in Tokens \ {t} : room.members[u] # p
      BY <1>1, <1>2, OfRoom DEF SeatsHeld
    <3>2. QED
      BY <1>1, <1>2, <3>1, OfRoom
  <2>5. [room EXCEPT !.game = RemovePlayer(@, p), !.members[t] = 0, !.online[p] = 0]
          = [a EXCEPT !.members = [room.members EXCEPT ![t] = 0], !.online = [room.online EXCEPT ![p] = 0]]
    BY <1>1, <2>2, <2>3, OfRoom DEF Rooms
  <2>6. r = [a EXCEPT !.members = [u \in Tokens |-> IF room.members[u] = p THEN 0 ELSE room.members[u]],
                      !.online = [room.online EXCEPT ![p] = 0], !.ghosts = @ \ {p}]
    BY <1>3, <2>2, <2>3 DEF UnbindPlayer
  <2>6a. a.ghosts \ {p} = a.ghosts /\ DOMAIN a = DOMAIN room
    <3>1. a.ghosts = room.ghosts /\ DOMAIN a = DOMAIN room
      BY <1>1, <2>2, OfRoom DEF Rooms
    <3>2. p \notin room.ghosts
      BY <1>1, <1>2, OfRoom DEF GhostsLeft
    <3>3. QED
      BY <3>1, <3>2
  <2>6b. r = [a EXCEPT !.members = [u \in Tokens |-> IF room.members[u] = p THEN 0 ELSE room.members[u]],
                      !.online = [room.online EXCEPT ![p] = 0]]
    BY <1>1, <2>2, <2>6, <2>6a, OfRoom DEF Rooms
  <2>7. QED
    BY <2>1, <2>4, <2>5, <2>6b
<1>5. UNCHANGED Others /\ births' = births /\ scope' \in [Concerns -> Nat]
  BY Spent DEF Leave, RoomInv, TypeOK, Concerns
<1>6. QED
  BY <1>1, <1>3, <1>4, <1>5, SeatFreed

-----------------------------------------------------------------------------
(* Presence and the host                                                   *)

\* A step after which the session and the seats are the same.
LEMMA SameGame ==
  ASSUME RoomInv, ~room.gone, UNCHANGED <<streams, joins, graders, asks, page, saved, epoch>>,
         scope' \in [Concerns -> Nat], births' = births,
         NEW q \in Rooms, q = room', q.game = room.game, SameSeats(room, q),
         q.elapsed # -1 => room.elapsed # -1, q.generation >= room.generation
  PROVE  RoomInv'
<1>1. SeatsHeld(q.members, q.game) /\ GhostsLeft(q.ghosts, q.members, q.game)
  BY OfRoom DEF SameSeats
<1>2. Counted(q, streams)
  BY OfRoom, CountedStill DEF Kept
<1>3. Awaited(q.game, graders) /\ (q.elapsed # -1 => q.game.active # NoTurn)
  BY OfRoom DEF Kept, Sound
<1>4. /\ asks \in SUBSET [token : Tokens, number : Nat, topics : Nat]
      /\ page \in [id : Nat, birth : Nat, after : Nat, epoch : Nat]
  BY DEF RoomInv, TypeOK
<1>5. Kept(q, streams, graders, asks, page, epoch)
  BY <1>1, <1>2, <1>3, <1>4, OfRoom, Unmoved, GoesOn
<1>6. births' \in Nat /\ UNCHANGED Others
  BY DEF RoomInv, TypeOK, Others
<1>7. QED
  BY <1>5, <1>6, RoomStep

LEMMA Looked ==
  ASSUME room \in Rooms, NEW t \in Tokens
  PROVE  Seen(t) \in Nat
BY DEF Seen, Rooms

LEMMA VisitSafe ==
  ASSUME RoomInv, NEW t \in Tokens, Visit(t)
  PROVE  RoomInv'
<1>1. ~room.gone /\ UNCHANGED <<streams, joins, graders, asks, page, saved, epoch>> /\ births' = births
      /\ scope' \in [Concerns -> Nat]
  BY DEF Visit, Request, Others, RoomInv, TypeOK
<1>2. PICK q : q = [room EXCEPT !.away = Seen(t)]
  OBVIOUS
<1>3. /\ q \in Rooms /\ q.game = room.game /\ SameSeats(room, q) /\ q.elapsed = room.elapsed
      /\ q.generation = room.generation
  BY <1>1, <1>2, OfRoom, Looked DEF Rooms, SameSeats
<1>4. q = room' /\ q.generation >= room.generation
  BY <1>1, <1>2, <1>3, OfRoom DEF Visit
<1>5. QED
  BY <1>1, <1>3, <1>4, SameGame

LEMMA NewHostSafe ==
  ASSUME RoomInv, ~room.gone, NEW t \in Tokens, NewHost(t), UNCHANGED Others, births' = births,
         scope' \in [Concerns -> Nat]
  PROVE  RoomInv'
<1>1. PICK none \in Nat, n \in Nat : none = 0 /\ n = room.generation + 1
  BY OfRoom
<1>2. PICK q : q = [room EXCEPT !.host = t, !.away = none, !.generation = n, !.idle = none]
  OBVIOUS
<1>3. /\ q \in Rooms /\ q.game = room.game /\ SameSeats(room, q) /\ q.elapsed = room.elapsed
      /\ q.generation = n
  BY <1>1, <1>2, OfRoom DEF Rooms, SameSeats
<1>4. q = room'
  BY <1>1, <1>2 DEF NewHost
<1>5. q.generation >= room.generation
  BY <1>1, <1>3, OfRoom
<1>6. UNCHANGED <<streams, joins, graders, asks, page, saved, epoch>>
  BY DEF Others
<1>7. QED
  BY <1>3, <1>4, <1>5, <1>6, SameGame

LEMMA TransferHostSafe ==
  ASSUME RoomInv, NEW t \in Tokens, NEW to \in Tokens, TransferHost(t, to)
  PROVE  RoomInv'
<1>1. ~room.gone /\ NewHost(to) /\ UNCHANGED Others /\ births' = births
      /\ scope' \in [Concerns -> Nat]
  BY Spent DEF TransferHost, Request, RoomInv, TypeOK, Concerns
<1>2. QED
  BY <1>1, NewHostSafe

LEMMA ClaimHostSafe ==
  ASSUME RoomInv, NEW t \in Tokens, ClaimHost(t)
  PROVE  RoomInv'
<1>1. ~room.gone /\ NewHost(t) /\ UNCHANGED Others /\ births' = births
      /\ scope' \in [Concerns -> Nat]
  BY Spent DEF ClaimHost, Request, RoomInv, TypeOK, Concerns
<1>2. QED
  BY <1>1, NewHostSafe

-----------------------------------------------------------------------------
(* Settings and topics                                                     *)

LEMMA TopicsStep ==
  ASSUME RoomInv, ~room.gone, ~room.game.started, UNCHANGED Others, births' = births,
         scope' \in [Concerns -> Nat], NEW t \in Tokens, NEW ai \in BOOLEAN,
         NEW rounds \in Nat \ {0}, NEW h,
         h = SetTopics(room.game) \/ h = Configured(room.game, ai, rounds),
         Mutate(t, Invalidated([room EXCEPT !.game = h]))
  PROVE  RoomInv'
<1>1. /\ GameInv(h) /\ Follows(room.game, h) /\ h.players = room.game.players
      /\ h.done = room.game.done /\ h.active = room.game.active
  BY OfRoom, ChosenTopics
<1>2. PICK a : a = [room EXCEPT !.game = h]
  OBVIOUS
<1>3. /\ a \in Rooms /\ a.game = h /\ SameSeats(room, a) /\ a.elapsed = room.elapsed
      /\ a.generation = room.generation
  BY <1>1, <1>2, OfRoom, RoomRenewed DEF GameInv
<1>4. PICK r : r = Invalidated(a)
  OBVIOUS
<1>5. /\ r \in Rooms /\ r.game = h /\ SameSeats(room, r) /\ r.elapsed = room.elapsed
      /\ r.generation = room.generation + 1
  BY <1>3, <1>4, DraftsStale DEF SameSeats
<1>6. Awaited(r.game, graders) /\ (r.elapsed # -1 => r.game.active # NoTurn)
  BY <1>1, <1>5, OfRoom, AwaitedStill DEF Kept, Sound
<1>7. r.generation >= room.generation /\ r.generation # room.generation /\ births' \in Nat
  BY <1>5, OfRoom DEF RoomInv, TypeOK
<1>8. Mutate(t, r)
  BY <1>2, <1>4
<1>9. QED
  BY <1>1, <1>5, <1>6, <1>7, <1>8, GameStep

LEMMA ChangeSettingsSafe ==
  ASSUME RoomInv, NEW t \in Tokens, NEW ai \in BOOLEAN, NEW rounds \in Rounds,
         ChangeSettings(t, ai, rounds)
  PROVE  RoomInv'
<1>1. ~room.gone /\ ~room.game.started /\ UNCHANGED Others /\ births' = births
      /\ scope' \in [Concerns -> Nat] /\ rounds \in Nat \ {0}
  BY Spent, Limits DEF ChangeSettings, HostInSetup, Request, Game, RoomInv, TypeOK, Concerns
<1>2. PICK h : h = Configured(room.game, ai, rounds)
  OBVIOUS
<1>3. Mutate(t, Invalidated([room EXCEPT !.game = h]))
  BY <1>2 DEF ChangeSettings
<1>4. QED
  BY <1>1, <1>2, <1>3, TopicsStep

LEMMA CustomTopicsSafe ==
  ASSUME RoomInv, NEW t \in Tokens, CustomTopics(t)
  PROVE  RoomInv'
<1>1. ~room.gone /\ ~room.game.started /\ UNCHANGED Others /\ births' = births
      /\ scope' \in [Concerns -> Nat]
  BY Spent DEF CustomTopics, HostInSetup, Request, Game, RoomInv, TypeOK, Concerns
<1>2. PICK h : h = SetTopics(room.game)
  OBVIOUS
<1>3. Mutate(t, Invalidated([room EXCEPT !.game = h]))
  BY <1>2 DEF CustomTopics
<1>4. PICK rounds : rounds = 1
  OBVIOUS
<1>5. rounds \in Nat \ {0}
  BY <1>4
<1>6. PICK ai \in BOOLEAN : ai
  OBVIOUS
<1>7. QED
  BY <1>1, <1>2, <1>3, <1>5, TopicsStep

LEMMA BeginTopicGenerationSafe ==
  ASSUME RoomInv, NEW t \in Tokens, BeginTopicGeneration(t)
  PROVE  RoomInv'
<1>1. /\ ~room.gone /\ UNCHANGED <<streams, joins, graders, page, saved, births, epoch>>
      /\ scope' \in [Concerns -> Nat]
  BY Spent DEF BeginTopicGeneration, HostInSetup, Request, RoomInv, TypeOK, Concerns
<1>2. PICK none \in Nat, n \in Nat : none = 0 /\ n = room.generation + 1
  BY <1>1, OfRoom
<1>3. PICK q : q = [room EXCEPT !.generation = n, !.away = none]
  OBVIOUS
<1>4. /\ q \in Rooms /\ q.game = room.game /\ SameSeats(room, q) /\ q.elapsed = room.elapsed
      /\ q.generation = n
  BY <1>1, <1>2, <1>3, OfRoom DEF Rooms, SameSeats
<1>5. q = room'
  BY <1>2, <1>3 DEF BeginTopicGeneration
<1>6. PICK new \in [token : Tokens, number : Nat, topics : Nat] :
        new = [token |-> t, number |-> n, topics |-> room.game.topics]
  BY <1>1, <1>2, OfRoom DEF Sessions
<1>7. asks' = asks \cup {new} /\ asks \in SUBSET [token : Tokens, number : Nat, topics : Nat]
  BY <1>2, <1>6 DEF BeginTopicGeneration, Game, RoomInv, TypeOK
<1>8. \A a \in asks : a.number < n
  BY <1>1, <1>2, <1>7, OfRoom DEF Kept, Current
<1>9. Distinct(asks')
  <2>1. \A a \in asks : a.number # n
    BY <1>7, <1>8
  <2>2. QED
    BY <1>6, <1>7, <2>1 DEF RoomInv, Distinct
<1>10. Current(q, asks')
  <2>1. \A a \in asks : a.number <= n /\ a.number # n
    BY <1>7, <1>8
  <2>2. new.number = n /\ new.topics = q.game.topics /\ n <= n
    BY <1>4, <1>6
  <2>3. QED
    BY <1>4, <1>7, <2>1, <2>2 DEF Current
<1>11. Sound(q)
  BY <1>1, <1>4, OfRoom DEF Kept, Sound, SameSeats
<1>12. Counted(q, streams) /\ Awaited(q.game, graders) /\ Shown(q.game, page, epoch)
  BY <1>1, <1>4, OfRoom, CountedStill DEF Kept
<1>13. TypeOK'
  BY <1>1, <1>4, <1>5, <1>7 DEF RoomInv, TypeOK
<1>14. QED
  BY <1>1, <1>5, <1>9, <1>10, <1>11, <1>12, <1>13 DEF RoomInv, Distinct

LEMMA ApplyTopicGenerationSafe ==
  ASSUME RoomInv, NEW ask \in asks, NEW usable \in BOOLEAN, ApplyTopicGeneration(ask, usable)
  PROVE  /\ RoomInv' /\ asks \ asks' = {ask}
         /\ ~room.gone /\ ~room'.gone /\ room'.game.topics # room.game.topics =>
              room.game.topics = ask.topics /\ ~room.game.started
<1>1. /\ UNCHANGED <<streams, joins, graders, page, saved, scope, births, epoch>>
      /\ asks' = asks \ {ask} /\ asks \ asks' = {ask} /\ Distinct(asks')
  BY DEF ApplyTopicGeneration, RoomInv, Distinct
<1>2. ASSUME room' = room PROVE RoomInv'
  BY <1>1, <1>2 DEF RoomInv, TypeOK, Current
<1>3. CASE ~(usable /\ MayApply(ask))
  <2>1. room' = room
    BY <1>3 DEF ApplyTopicGeneration
  <2>2. QED
    BY <1>1, <1>2, <2>1
<1>4. CASE usable /\ MayApply(ask)
  <2>1. ~room.gone /\ ~room.game.started /\ ask.number = room.generation
    BY <1>4 DEF MayApply, Game
  <2>2. ask.topics = room.game.topics
    BY <2>1, OfRoom DEF Kept, Current
  <2>3. PICK h : h = SetTopics(room.game)
    OBVIOUS
  <2>4. PICK ai \in BOOLEAN : ai
    OBVIOUS
  <2>4a. PICK rounds : rounds = 1
    OBVIOUS
  <2>4b. rounds \in Nat \ {0}
    BY <2>4a
  <2>5. /\ GameInv(h) /\ Follows(room.game, h) /\ h.players = room.game.players
        /\ h.done = room.game.done /\ h.active = room.game.active
    BY <2>1, <2>3, <2>4b, OfRoom, ChosenTopics
  <2>6. PICK none \in Nat : none = 0
    OBVIOUS
  <2>7. PICK q : q = [room EXCEPT !.game = h, !.idle = none]
    OBVIOUS
  <2>8. /\ q \in Rooms /\ q.game = h /\ SameSeats(room, q) /\ q.elapsed = room.elapsed
        /\ q.generation = room.generation
    BY <2>1, <2>5, <2>6, <2>7, OfRoom DEF Rooms, SameSeats, GameInv
  <2>9. q = room'
    BY <1>4, <2>3, <2>6, <2>7 DEF ApplyTopicGeneration
  <2>10. Current(q, asks')
    <3>1. ASSUME NEW a \in asks \ {ask}
          PROVE  a.number <= room.generation /\ a.number # room.generation
      BY <2>1, <3>1, OfRoom DEF RoomInv, Distinct, Kept, Current
    <3>2. QED
      BY <1>1, <2>8, <3>1 DEF Current
  <2>11. Sound(q)
    <3>1. SeatsHeld(q.members, q.game) /\ GhostsLeft(q.ghosts, q.members, q.game)
      BY <2>1, <2>5, <2>8, OfRoom, SeatsStay, GhostsStay DEF SameSeats
    <3>2. QED
      BY <2>1, <2>5, <2>8, <3>1, OfRoom DEF Kept, Sound
  <2>12. Counted(q, streams) /\ Awaited(q.game, graders)
    BY <2>1, <2>5, <2>8, OfRoom, CountedStill, AwaitedStill DEF Kept
  <2>13. Shown(q.game, page, epoch)
    <3>1. page \in [id : Nat, birth : Nat, after : Nat, epoch : Nat]
      BY DEF RoomInv, TypeOK
    <3>2. QED
      BY <2>1, <2>5, <2>8, <3>1, OfRoom, StillShown DEF Kept
  <2>14. TypeOK'
    BY <1>1, <2>8, <2>9 DEF RoomInv, TypeOK
  <2>15. RoomInv'
    BY <1>1, <2>9, <2>10, <2>11, <2>12, <2>13, <2>14 DEF RoomInv
  <2>16. QED
    BY <1>1, <2>1, <2>2, <2>15
<1>5. QED
  BY <1>3, <1>4

-----------------------------------------------------------------------------
(* The course of a game                                                    *)

LEMMA FollowsOn ==
  ASSUME NEW g, NEW s, NEW h, GameInv(g), GameInv(s), GameInv(h), Follows(g, s), Follows(s, h),
         s.active = NoTurn
  PROVE  Follows(g, h)
<1>1. g.nextTurn \in Nat /\ s.nextTurn \in Nat /\ h.nextTurn \in Nat /\ h.active.id \in Nat
  BY IdTypes DEF GameInv
<1>2. h.nextTurn >= g.nextTurn
  BY <1>1 DEF Follows
<1>3. h.active = NoTurn \/ h.active.id >= g.nextTurn
  <2>1. h.active.id = s.active.id => h.active = NoTurn
    BY NoTurnType DEF GameInv, IdsInv
  <2>2. QED
    BY <1>1, <2>1 DEF Follows
<1>4. QED
  BY <1>2, <1>3 DEF Follows

\* The step that puts another session in the room and stops the clock.
LEMMA ClockStep ==
  ASSUME RoomInv, ~room.gone, UNCHANGED Others, births' \in Nat, scope' \in [Concerns -> Nat],
         NEW t \in Tokens, NEW a \in Rooms, SameSeats(room, a), Mutate(t, StopClock(a)),
         GameInv(a.game), Follows(room.game, a.game), a.game.players = room.game.players,
         a.game.topics = room.game.topics,
         a.game.done = room.game.done \/ a.game.done = <<>>,
         a.generation >= room.generation
  PROVE  RoomInv'
<1>1. PICK r : r = StopClock(a)
  OBVIOUS
<1>2. /\ r \in Rooms /\ r.game = a.game /\ SameSeats(room, r) /\ r.elapsed = -1
      /\ r.generation = a.generation
  BY <1>1, ClockStopped DEF SameSeats
<1>3. Awaited(r.game, graders) /\ Mutate(t, r)
  BY <1>1, <1>2, OfRoom, AwaitedStill DEF Kept
<1>4. QED
  BY <1>2, <1>3, GameStep

LEMMA SameStep ==
  ASSUME RoomInv, ~room.gone, UNCHANGED Others, births' = births, scope' \in [Concerns -> Nat],
         NEW t \in Tokens, NEW r \in Rooms, Mutate(t, r), r.game = room.game, SameSeats(room, r),
         r.elapsed # -1 => room.game.active # NoTurn, r.generation >= room.generation
  PROVE  RoomInv'
<1>1. Awaited(r.game, graders) /\ Follows(room.game, r.game) /\ GameInv(r.game)
  BY OfRoom, Unmoved DEF Kept
<1>2. births' \in Nat
  BY DEF RoomInv, TypeOK
<1>3. QED
  BY <1>1, <1>2, GameStep

LEMMA AsItWas ==
  ASSUME RoomInv, ~room.gone
  PROVE  /\ room \in Rooms /\ SameSeats(room, room) /\ room.generation >= room.generation
         /\ room.elapsed # -1 => room.game.active # NoTurn
BY OfRoom DEF SameSeats, Kept, Sound

LEMMA Typed ==
  ASSUME RoomInv
  PROVE  /\ births \in Nat /\ epoch \in Nat /\ scope \in [Concerns -> Nat]
         /\ \A w \in Concerns : Spend(w) => scope' \in [Concerns -> Nat]
         /\ "turns" \in Concerns /\ "edits" \in Concerns /\ "resets" \in Concerns
         /\ "redraws" \in Concerns /\ "corrections" \in Concerns
BY Spent DEF RoomInv, TypeOK, Concerns

LEMMA StartGameSafe ==
  ASSUME RoomInv, NEW t \in Tokens, StartGame(t)
  PROVE  RoomInv'
<1>1. ~room.gone /\ UNCHANGED Others
  BY DEF StartGame, Request
<1>2. CASE Game.started /\ Mutate(t, room) /\ UNCHANGED <<births, scope>>
  BY <1>1, <1>2, AsItWas, Typed, SameStep
<1>3. CASE ~CanStart(Game) /\ Spend("edits") /\ Mutate(t, Invalidated(room)) /\ UNCHANGED births
  <2>1. PICK r : r = Invalidated(room)
    OBVIOUS
  <2>2. /\ r \in Rooms /\ r.game = room.game /\ SameSeats(room, r) /\ r.elapsed = room.elapsed
        /\ r.generation = room.generation + 1
    BY <1>1, <2>1, OfRoom, DraftsStale
  <2>3. r.generation >= room.generation /\ Mutate(t, r)
    BY <1>1, <1>3, <2>1, <2>2, OfRoom
  <2>4. scope' \in [Concerns -> Nat]
    BY <1>3, Typed
  <2>5. QED
    BY <1>1, <1>3, <2>2, <2>3, <2>4, AsItWas, SameStep
<1>4. CASE /\ CanStart(Game) /\ ~Exhausted(Game) /\ Spend("turns")
           /\ Mutate(t, StopClock(Invalidated([room EXCEPT !.game = StartTurn(Start(@), births + 1)])))
           /\ NextBirth
  <2>1. PICK b \in Nat : b = births + 1
    BY Typed
  <2>2. PICK s : s = Start(room.game)
    OBVIOUS
  <2>3. PICK h : h = StartTurn(s, b)
    OBVIOUS
  <2>4. /\ GameInv(s) /\ Follows(room.game, s) /\ s.players = room.game.players /\ s.started
        /\ ~s.finished /\ s.done = <<>> /\ s.active = NoTurn /\ s.topics = room.game.topics
        /\ s.nextTurn = room.game.nextTurn
    BY <1>1, <1>4, <2>2, OfRoom, StartKeeps DEF Game
  <2>5. room.game.nextTurn \in 1 .. MaxTurnID
    BY <1>1, <1>4, OfRoom, IdsLeft DEF Game, GameInv
  <2>6. /\ GameInv(h) /\ Follows(s, h) /\ h.players = s.players /\ h.topics = s.topics
        /\ h.done = s.done /\ h.active # NoTurn
    BY <2>3, <2>4, <2>5, StartTurnKeeps
  <2>7. Follows(room.game, h)
    BY <1>1, <2>4, <2>6, OfRoom, FollowsOn
  <2>8. PICK c : c = [room EXCEPT !.game = h]
    OBVIOUS
  <2>9. c \in Rooms /\ c.game = h /\ SameSeats(room, c) /\ c.generation = room.generation
    BY <1>1, <2>6, <2>8, OfRoom, RoomRenewed DEF GameInv
  <2>10. PICK a : a = Invalidated(c)
    OBVIOUS
  <2>11. a \in Rooms /\ a.game = h /\ SameSeats(room, a) /\ a.generation = room.generation + 1
    BY <2>9, <2>10, DraftsStale DEF SameSeats
  <2>12. Mutate(t, StopClock(a)) /\ births' \in Nat /\ scope' \in [Concerns -> Nat]
         /\ a.generation >= room.generation
    BY <1>1, <1>4, <2>1, <2>2, <2>3, <2>8, <2>10, <2>11, OfRoom, Typed DEF NextBirth
  <2>13. QED
    BY <1>1, <2>4, <2>6, <2>7, <2>11, <2>12, ClockStep
<1>5. QED
  BY <1>2, <1>3, <1>4 DEF StartGame

LEMMA ResetGameSafe ==
  ASSUME RoomInv, NEW t \in Tokens, ResetGame(t)
  PROVE  RoomInv'
<1>1. ~room.gone /\ UNCHANGED Others /\ births' \in Nat /\ scope' \in [Concerns -> Nat]
  BY Typed DEF ResetGame, Request
<1>2. PICK h : h = ResetForNewGame(room.game)
  OBVIOUS
<1>3. /\ GameInv(h) /\ Follows(room.game, h) /\ h.players = room.game.players
      /\ h.done = <<>> /\ h.active = NoTurn /\ h.topics = room.game.topics
  BY <1>1, <1>2, OfRoom, ResetGameKeeps
<1>4. PICK c : c = [room EXCEPT !.game = h]
  OBVIOUS
<1>5. c \in Rooms /\ c.game = h /\ SameSeats(room, c) /\ c.generation = room.generation
  BY <1>1, <1>3, <1>4, OfRoom, RoomRenewed DEF GameInv
<1>6. PICK a : a = Invalidated(c)
  OBVIOUS
<1>7. a \in Rooms /\ a.game = h /\ SameSeats(room, a) /\ a.generation = room.generation + 1
  BY <1>5, <1>6, DraftsStale DEF SameSeats
<1>8. Mutate(t, StopClock(a)) /\ a.generation >= room.generation
  BY <1>1, <1>2, <1>4, <1>6, <1>7, OfRoom DEF ResetGame
<1>9. QED
  BY <1>1, <1>3, <1>7, <1>8, ClockStep

LEMMA StartNextTurnSafe ==
  ASSUME RoomInv, NEW t \in Tokens, NEW after, StartNextTurn(t, after)
  PROVE  RoomInv'
<1>1. ~room.gone /\ UNCHANGED Others
  BY DEF StartNextTurn, Request
<1>2. CASE Mutate(t, room) /\ UNCHANGED <<births, scope>>
  BY <1>1, <1>2, AsItWas, Typed, SameStep
<1>3. CASE /\ Game.started /\ ~Game.finished /\ Game.active = NoTurn
           /\ ~Exhausted(Game) /\ Spend("turns")
           /\ Mutate(t, StopClock([room EXCEPT !.game = StartTurn(@, births + 1)]))
           /\ NextBirth
  <2>1. PICK b \in Nat : b = births + 1
    BY Typed
  <2>2. PICK h : h = StartTurn(room.game, b)
    OBVIOUS
  <2>3. room.game.nextTurn \in 1 .. MaxTurnID
    BY <1>1, <1>3, OfRoom, IdsLeft DEF Game, GameInv
  <2>4. /\ GameInv(h) /\ Follows(room.game, h) /\ h.players = room.game.players
        /\ h.topics = room.game.topics /\ h.done = room.game.done
    BY <1>1, <1>3, <2>2, <2>3, OfRoom, StartTurnKeeps DEF Game
  <2>5. PICK a : a = [room EXCEPT !.game = h]
    OBVIOUS
  <2>6. a \in Rooms /\ a.game = h /\ SameSeats(room, a) /\ a.generation = room.generation
    BY <1>1, <2>4, <2>5, OfRoom, RoomRenewed DEF GameInv
  <2>7. Mutate(t, StopClock(a)) /\ births' \in Nat /\ scope' \in [Concerns -> Nat]
        /\ a.generation >= room.generation
    BY <1>1, <1>3, <2>1, <2>2, <2>5, <2>6, OfRoom, Typed DEF NextBirth
  <2>8. QED
    BY <1>1, <2>4, <2>6, <2>7, ClockStep
<1>4. QED
  BY <1>2, <1>3 DEF StartNextTurn

LEMMA TurnIsOn ==
  ASSUME NEW t, NEW id, MayAct(t, id)
  PROVE  room.game.active # NoTurn
BY NoTurnType DEF MayAct, Game

LEMMA BeginTurnSafe ==
  ASSUME RoomInv, NEW t \in Tokens, NEW id, BeginTurn(t, id)
  PROVE  RoomInv'
<1>1. ~room.gone /\ UNCHANGED Others /\ births' = births /\ scope' \in [Concerns -> Nat]
      /\ room.game.active # NoTurn
  BY TurnIsOn, Typed DEF BeginTurn, Request
<1>2. PICK e \in -1 .. Duration + 1 : e = IF room.elapsed = -1 THEN 0 ELSE room.elapsed
  <2>1. room.elapsed \in -1 .. Duration + 1
    BY <1>1, OfRoom DEF Rooms
  <2>2. QED
    BY <2>1, Limits
<1>3. PICK r : r = [room EXCEPT !.elapsed = e]
  OBVIOUS
<1>4. /\ r \in Rooms /\ r.game = room.game /\ SameSeats(room, r)
      /\ r.generation = room.generation
  BY <1>1, <1>3, OfRoom DEF Rooms, SameSeats
<1>5. Mutate(t, r) /\ r.generation >= room.generation
  BY <1>1, <1>2, <1>3, <1>4, OfRoom DEF BeginTurn
<1>6. QED
  BY <1>1, <1>4, <1>5, SameStep

LEMMA RedrawTurnSafe ==
  ASSUME RoomInv, NEW t \in Tokens, NEW id, RedrawTurn(t, id)
  PROVE  RoomInv'
<1>1. ~room.gone /\ UNCHANGED Others /\ scope' \in [Concerns -> Nat]
      /\ room.game.active # NoTurn /\ ~Exhausted(room.game)
  BY TurnIsOn, Typed DEF RedrawTurn, Request, Game
<1>2. PICK b \in Nat : b = births + 1
  BY Typed
<1>3. PICK h : h = RedrawActiveTurn(room.game, b)
  OBVIOUS
<1>4. room.game.nextTurn \in 1 .. MaxTurnID
  BY <1>1, OfRoom, IdsLeft DEF GameInv
<1>5. /\ GameInv(h) /\ Follows(room.game, h) /\ h.players = room.game.players
      /\ h.topics = room.game.topics /\ h.done = room.game.done
  BY <1>1, <1>3, <1>4, OfRoom, RedrawKeeps
<1>6. PICK a : a = [room EXCEPT !.game = h]
  OBVIOUS
<1>7. a \in Rooms /\ a.game = h /\ SameSeats(room, a) /\ a.generation = room.generation
  BY <1>1, <1>5, <1>6, OfRoom, RoomRenewed DEF GameInv
<1>8. Mutate(t, StopClock(a)) /\ births' \in Nat /\ a.generation >= room.generation
  BY <1>1, <1>2, <1>3, <1>6, <1>7, OfRoom DEF RedrawTurn, NextBirth
<1>9. QED
  BY <1>1, <1>5, <1>7, <1>8, ClockStep

LEMMA ScoreOverrideSafe ==
  ASSUME RoomInv, NEW t \in Tokens, NEW p \in Seats, NEW delta \in {-2, 2},
         ScoreOverride(t, p, delta)
  PROVE  RoomInv'
<1>1. ~room.gone /\ UNCHANGED Others /\ births' = births /\ scope' \in [Concerns -> Nat]
  BY Typed DEF ScoreOverride, Request
<1>2. PICK h : h = OverrideScore(room.game, p, delta)
  OBVIOUS
<1>3. delta \in Int
  OBVIOUS
<1>4. /\ GameInv(h) /\ Follows(room.game, h) /\ h.players = room.game.players
      /\ h.topics = room.game.topics /\ h.done = room.game.done
      /\ h.active = room.game.active
  BY <1>1, <1>2, <1>3, OfRoom, OverrideKeeps
<1>5. MutateGame(t, h)
  BY <1>2 DEF ScoreOverride, Game
<1>6. QED
  BY <1>1, <1>4, <1>5, RosterStep

-----------------------------------------------------------------------------
(* The end of a turn and its verdict                                       *)

LEMMA VerdictStep ==
  ASSUME RoomInv, ~room.gone, UNCHANGED <<streams, joins, asks, page, saved, scope, births, epoch>>,
         NEW judges \in SUBSET [index : Nat, id : Nat, birth : Nat], judges = graders',
         NEW q \in Rooms, q = room', SameSeats(room, q), GameInv(q.game),
         Follows(room.game, q.game), q.game.players = room.game.players,
         q.game.topics = room.game.topics, Awaited(q.game, judges),
         q.elapsed # -1 => q.game.active # NoTurn, q.generation = room.generation
  PROVE  RoomInv'
<1>1. SeatsHeld(q.members, q.game) /\ GhostsLeft(q.ghosts, q.members, q.game)
  BY OfRoom, SeatsStay, GhostsStay DEF SameSeats
<1>2. Counted(q, streams)
  BY OfRoom, CountedStill DEF Kept
<1>3. /\ asks \in SUBSET [token : Tokens, number : Nat, topics : Nat]
      /\ page \in [id : Nat, birth : Nat, after : Nat, epoch : Nat]
      /\ q.generation >= room.generation
  BY OfRoom DEF RoomInv, TypeOK
<1>4. Kept(q, streams, judges, asks, page, epoch)
  BY <1>1, <1>2, <1>3, OfRoom, GoesOn
<1>5. TypeOK'
  BY DEF RoomInv, TypeOK
<1>6. QED
  BY <1>4, <1>5 DEF RoomInv, Kept, Distinct

LEMMA SpokenType ==
  ASSUME RoomInv, ~room.gone, NEW t \in Tokens, NEW claim \in Int
  PROVE  Spoken(t, claim) \in Int
<1>1. PICK e \in Int : e = room.elapsed
  <2>1. room.elapsed \in -1 .. Duration + 1
    BY OfRoom DEF Rooms
  <2>2. QED
    BY <2>1, Limits
<1>2. PICK d \in Nat : d = Duration
  BY Limits
<1>3. QED
  BY <1>1, <1>2 DEF Spoken, Least

LEMMA SubmittedTurn ==
  ASSUME RoomInv, ~room.gone, NEW t \in Tokens, NEW claim \in Int, NEW completes \in BOOLEAN,
         NEW eliminated \in BOOLEAN
  PROVE  \E spoken \in Int, full \in BOOLEAN, out \in BOOLEAN :
           Submitted(t, claim, completes, eliminated) = SubmitTurn(room.game, spoken, full, out)
<1>1. CASE Submitted(t, claim, completes, eliminated) = SubmitTurn(room.game, Duration, TRUE, FALSE)
  <2>1. PICK d \in Int : d = Duration
    BY Limits
  <2>2. PICK yes \in BOOLEAN : yes = TRUE
    OBVIOUS
  <2>3. PICK no \in BOOLEAN : no = FALSE
    OBVIOUS
  <2>4. Submitted(t, claim, completes, eliminated) = SubmitTurn(room.game, d, yes, no)
    BY <1>1, <2>1, <2>2, <2>3
  <2>5. QED
    BY <2>4
<1>2. CASE Submitted(t, claim, completes, eliminated)
             = SubmitTurn(room.game, Spoken(t, claim), IsHost(t) /\ completes, eliminated)
  BY <1>2, SpokenType DEF IsHost
<1>3. QED
  BY <1>1, <1>2 DEF Submitted, Game

Extends(d, s, turn) ==
  /\ Last(d) = turn /\ Len(d) \in 1 .. Len(d) /\ d[Len(d)] = turn
  /\ \A i \in DOMAIN s : d[i] = s[i]
  /\ \A i \in DOMAIN d : i \in DOMAIN s \/ i = Len(d)

LEMMA LastOf ==
  ASSUME NEW s \in Seq(TurnRecords), NEW turn \in TurnRecords, NEW d, d = Append(s, turn)
  PROVE  Extends(d, s, turn)
<1>1. Len(s) \in Nat /\ DOMAIN s = 1 .. Len(s)
  BY LenProperties
<1>2. /\ d \in Seq(TurnRecords) /\ Len(d) = Len(s) + 1
      /\ \A i \in 1 .. Len(s) : d[i] = s[i]
      /\ d[Len(s) + 1] = turn
  BY AppendProperties
<1>3. DOMAIN d = 1 .. Len(s) + 1
  BY <1>1, <1>2, LenProperties
<1>4. Last(d) = turn
  BY <1>2 DEF Last
<1>5. \A i \in 1 .. Len(s) + 1 : i \in 1 .. Len(s) \/ i = Len(s) + 1
  BY <1>1
<1>6. QED
  BY <1>1, <1>2, <1>3, <1>4, <1>5 DEF Extends

LEMMA SubmitResultSafe ==
  ASSUME RoomInv, NEW t \in Tokens, NEW id, NEW claim \in Int, NEW completes \in BOOLEAN,
         NEW eliminated \in BOOLEAN, NEW judged \in BOOLEAN
  PROVE  SubmitResult(t, id, claim, completes, eliminated, judged) => RoomInv'
<1>0. SUFFICES ASSUME SubmitResult(t, id, claim, completes, eliminated, judged)
               PROVE  RoomInv'
  OBVIOUS
<1>1. /\ ~room.gone /\ UNCHANGED <<streams, joins, asks, page, saved, scope, births, epoch>>
      /\ room.game.active # NoTurn
  BY <1>0, TurnIsOn DEF SubmitResult, Request
<1>2. PICK g : g = Submitted(t, claim, completes, eliminated)
  OBVIOUS
<1>3. TurnEnded(room.game, g)
  <2>1. PICK spoken \in Int, full \in BOOLEAN, out \in BOOLEAN :
          g = SubmitTurn(room.game, spoken, full, out)
    BY <1>1, <1>2, SubmittedTurn
  <2>2. GameInv(room.game) /\ room.game.active # NoTurn
    BY <1>1, OfRoom
  <2>3. QED
    BY <2>1, <2>2, SubmitKeeps
<1>4. PICK turn \in TurnRecords : g.done = Append(room.game.done, turn) /\ turn.ai = "none"
  BY <1>3 DEF TurnEnded
<1>4a. /\ GameInv(g) /\ Follows(room.game, g) /\ g.players = room.game.players
       /\ g.topics = room.game.topics /\ g.active = NoTurn
  BY <1>3 DEF TurnEnded
<1>5. PICK last \in Nat : last = Len(g.done)
  BY <1>4a, DoneOf DEF GameInv
<1>6. /\ Last(g.done) = turn /\ last \in 1 .. Len(g.done) /\ g.done[last] = turn
      /\ \A i \in DOMAIN room.game.done : g.done[i] = room.game.done[i]
      /\ \A i \in DOMAIN g.done : i \in DOMAIN room.game.done \/ i = last
  <2>1. PICK s \in Seq(TurnRecords) : s = room.game.done
    BY <1>1, OfRoom DEF Sessions
  <2>2. PICK done : done = g.done
    OBVIOUS
  <2>3. done = Append(s, turn)
    BY <1>4, <2>1, <2>2
  <2>4. Extends(done, s, turn)
    BY <2>3, LastOf
  <2>5. QED
    BY <1>5, <2>1, <2>2, <2>4 DEF Extends
<1>7. Awaited(room.game, graders)
  BY <1>1, OfRoom DEF Kept
<1>8. PICK marked : marked = [turn EXCEPT !.ai = "pending"]
  OBVIOUS
<1>9. /\ marked \in TurnRecords /\ marked.id = turn.id /\ marked.birth = turn.birth
      /\ marked.player = turn.player
  BY <1>8 DEF TurnRecords
<1>10. PICK m : m = WithTurn(g, last, marked)
  OBVIOUS
<1>11. MarkTurnAIPending(g) = m
  BY <1>5, <1>6, <1>8, <1>10 DEF MarkTurnAIPending
<1>12. /\ GameInv(m) /\ Follows(g, m) /\ m.players = g.players /\ m.topics = g.topics
       /\ m.active = g.active /\ DOMAIN m.done = DOMAIN g.done /\ m.done[last] = marked
       /\ \A j \in DOMAIN g.done \ {last} : m.done[j] = g.done[j]
  <2>1. GameInv(g) /\ last \in 1 .. Len(g.done)
    BY <1>4a, <1>6
  <2>2. /\ marked.id = g.done[last].id /\ marked.birth = g.done[last].birth
        /\ marked.player = g.done[last].player /\ marked \in TurnRecords
    BY <1>6, <1>9
  <2>3. QED
    BY <2>1, <2>2, <1>10, MarkKeeps
<1>13. PICK none \in Nat : none = 0
  OBVIOUS
<1>13a. PICK skip \in {"done", "failed", "skipped"} : skip = "skipped"
  OBVIOUS
<1>14. PICK skipped : skipped = ResolveTurnAI(m, last, turn.id, skip, none)
  OBVIOUS
<1>15. /\ GameInv(skipped) /\ Follows(m, skipped) /\ skipped.players = m.players
       /\ skipped.topics = m.topics /\ skipped.active = m.active
       /\ DOMAIN skipped.done = DOMAIN m.done
       /\ \A i \in DOMAIN m.done :
            /\ skipped.done[i].id = m.done[i].id /\ skipped.done[i].birth = m.done[i].birth
            /\ skipped.done[i].ai = "pending" =>
                 m.done[i].ai = "pending" /\ ~(i = last /\ m.done[i].id = turn.id)
  <2>1. PICK id2 \in Nat : id2 = turn.id
    BY DEF TurnRecords
  <2>2. GameInv(m) /\ skipped = ResolveTurnAI(m, last, id2, skip, none)
    BY <1>12, <1>14, <2>1
  <2>3. /\ Regraded(m, skipped)
        /\ \A i \in DOMAIN m.done : skipped.done[i].ai = "pending" =>
              m.done[i].ai = "pending" /\ ~(i = last /\ m.done[i].id = id2)
    BY <2>2, ResolveKeeps
  <2>4. QED
    BY <2>1, <2>3 DEF Regraded
<1>16. PICK h : h = IF ~g.ai THEN g ELSE IF judged THEN m ELSE skipped
  OBVIOUS
<1>17. PICK judges : judges = IF judged
                              THEN graders \cup {[index |-> last, id |-> turn.id, birth |-> turn.birth]}
                              ELSE graders
  OBVIOUS
<1>18. /\ judges = graders' /\ (judged => g.ai)
       /\ Mutate(t, StopClock([room EXCEPT !.game = h]))
  BY <1>0, <1>2, <1>5, <1>6, <1>11, <1>13, <1>13a, <1>14, <1>16, <1>17 DEF SubmitResult, AfterSubmit
<1>19. judges \in SUBSET [index : Nat, id : Nat, birth : Nat]
  BY <1>17 DEF TurnRecords, RoomInv, TypeOK
<1>20. /\ GameInv(h) /\ Follows(room.game, h) /\ h.players = room.game.players
       /\ h.topics = room.game.topics
  <2>1. Follows(room.game, m) /\ Follows(room.game, skipped)
    <3>1. Follows(room.game, m)
      BY <1>1, <1>4a, <1>12, OfRoom, FollowsOn
    <3>2. QED
      BY <1>1, <1>4a, <1>12, <1>15, <3>1, OfRoom, FollowsOn
  <2>2. QED
    BY <1>4a, <1>12, <1>15, <1>16, <2>1
<1>21. Awaited(h, judges)
  <2>1. SUFFICES ASSUME NEW i \in DOMAIN h.done, h.done[i].ai = "pending"
                 PROVE  \E j \in judges : /\ j.index = i /\ j.id = h.done[i].id
                                          /\ j.birth = h.done[i].birth
    BY DEF Awaited
  <2>2. DOMAIN h.done = DOMAIN g.done
    BY <1>12, <1>15, <1>16
  <2>3. graders \subseteq judges
    BY <1>17
  <2>4. CASE i # last
    <3>1. i \in DOMAIN room.game.done /\ i \in DOMAIN g.done /\ i \in DOMAIN m.done
      BY <1>6, <1>12, <2>2, <2>4
    <3>2. m.done[i] = room.game.done[i] /\ g.done[i] = room.game.done[i]
      BY <1>6, <1>12, <2>4, <3>1
    <3>3. /\ room.game.done[i].ai = "pending" /\ h.done[i].id = room.game.done[i].id
          /\ h.done[i].birth = room.game.done[i].birth
      BY <1>15, <1>16, <2>1, <3>1, <3>2
    <3>4. QED
      BY <1>7, <2>3, <3>1, <3>3 DEF Awaited
  <2>5. CASE i = last
    <3>1. i \in DOMAIN m.done /\ m.done[i] = marked /\ g.done[i] = turn
      BY <1>6, <1>12, <2>2, <2>5
    <3>2. h = m /\ judged
      BY <1>4, <1>9, <1>15, <1>16, <2>1, <2>5, <3>1
    <3>3. [index |-> last, id |-> turn.id, birth |-> turn.birth] \in judges
      BY <1>17, <3>2
    <3>4. QED
      BY <1>9, <2>5, <3>1, <3>2, <3>3
  <2>6. QED
    BY <2>4, <2>5
<1>22. PICK a : a = [room EXCEPT !.game = h]
  OBVIOUS
<1>23. a \in Rooms /\ a.game = h /\ SameSeats(room, a) /\ a.generation = room.generation
  BY <1>1, <1>20, <1>22, OfRoom, RoomRenewed DEF GameInv
<1>24. PICK r : r = StopClock(a)
  OBVIOUS
<1>25. /\ r \in Rooms /\ r.game = h /\ SameSeats(room, r) /\ r.elapsed = -1
       /\ r.generation = room.generation
  BY <1>23, <1>24, ClockStopped DEF SameSeats
<1>26. Mutate(t, r)
  BY <1>18, <1>22, <1>24
<1>27. PICK q \in Rooms : /\ q = room' /\ q.game = h /\ SameSeats(room, q) /\ q.elapsed = -1
                          /\ q.generation = room.generation
  BY <1>1, <1>25, <1>26, OfRoom, Mutated DEF SameSeats
<1>28. QED
  BY <1>1, <1>18, <1>19, <1>20, <1>21, <1>27, VerdictStep

LEMMA GradeTurnSafe ==
  ASSUME RoomInv, NEW grader \in graders, NEW status \in {"done", "failed"}, NEW bonus \in Nat
  PROVE  GradeTurn(grader, status, bonus) => RoomInv'
<1>0. SUFFICES ASSUME GradeTurn(grader, status, bonus) PROVE RoomInv'
  OBVIOUS
<1>1. UNCHANGED <<streams, joins, asks, page, saved, scope, births, epoch>>
  BY <1>0 DEF GradeTurn
<1>2. PICK judges : judges = graders \ {grader}
  OBVIOUS
<1>3. judges = graders' /\ judges \in SUBSET [index : Nat, id : Nat, birth : Nat]
  BY <1>0, <1>2 DEF GradeTurn, RoomInv, TypeOK
<1>4. CASE room.gone
  <2>1. room' = room
    BY <1>0, <1>4 DEF GradeTurn
  <2>2. QED
    BY <1>1, <1>3, <1>4, <2>1 DEF RoomInv, TypeOK, Distinct
<1>5. CASE ~room.gone
  <2>1. PICK h : h = ResolveTurnAI(room.game, grader.index, grader.id, status, bonus)
    OBVIOUS
  <2>2. grader.index \in Nat /\ grader.id \in Nat
    BY DEF RoomInv, TypeOK
  <2>3. /\ GameInv(h) /\ Follows(room.game, h) /\ h.players = room.game.players
        /\ h.topics = room.game.topics /\ h.active = room.game.active
        /\ DOMAIN h.done = DOMAIN room.game.done
        /\ \A i \in DOMAIN room.game.done :
             /\ h.done[i].id = room.game.done[i].id /\ h.done[i].birth = room.game.done[i].birth
             /\ h.done[i].ai = "pending" =>
                  room.game.done[i].ai = "pending"
                    /\ ~(i = grader.index /\ room.game.done[i].id = grader.id)
    <3>1. GameInv(room.game)
      BY <1>5, OfRoom
    <3>2. PICK index \in Nat, id \in Nat : index = grader.index /\ id = grader.id
      BY <2>2
    <3>3. h = ResolveTurnAI(room.game, index, id, status, bonus)
      BY <2>1, <3>2
    <3>4. status \in {"done", "failed", "skipped"}
      OBVIOUS
    <3>5. /\ Regraded(room.game, h)
          /\ \A i \in DOMAIN room.game.done : h.done[i].ai = "pending" =>
               room.game.done[i].ai = "pending" /\ ~(i = index /\ room.game.done[i].id = id)
      BY <3>1, <3>3, <3>4, ResolveKeeps
    <3>6. QED
      BY <3>2, <3>5 DEF Regraded
  <2>4. Awaited(h, judges)
    <3>1. SUFFICES ASSUME NEW i \in DOMAIN h.done, h.done[i].ai = "pending"
                   PROVE  \E j \in judges : /\ j.index = i /\ j.id = h.done[i].id
                                            /\ j.birth = h.done[i].birth
      BY DEF Awaited
    <3>2. PICK j \in graders : /\ j.index = i /\ j.id = room.game.done[i].id
                               /\ j.birth = room.game.done[i].birth
      BY <1>5, <2>3, <3>1, OfRoom DEF Kept, Awaited
    <3>3. j # grader
      BY <2>3, <3>1, <3>2
    <3>4. QED
      BY <1>2, <2>3, <3>2, <3>3
  <2>5. PICK none \in Nat : none = 0
    OBVIOUS
  <2>6. PICK q : q = [room EXCEPT !.idle = none, !.game = h]
    OBVIOUS
  <2>7. /\ q \in Rooms /\ q.game = h /\ SameSeats(room, q) /\ q.elapsed = room.elapsed
        /\ q.generation = room.generation
    BY <1>5, <2>3, <2>5, <2>6, OfRoom DEF Rooms, SameSeats, GameInv
  <2>8. q = room'
    BY <1>5, <2>1, <2>5, <2>6, <1>0 DEF GradeTurn
  <2>9. q.elapsed # -1 => q.game.active # NoTurn
    BY <1>5, <2>3, <2>7, OfRoom DEF Kept, Sound
  <2>10. QED
    BY <1>1, <1>3, <1>5, <2>3, <2>4, <2>7, <2>8, <2>9, VerdictStep
<1>6. QED
  BY <1>4, <1>5

-----------------------------------------------------------------------------
(* Pages and live streams                                                  *)

LEMMA RenderRoomStateSafe ==
  ASSUME RoomInv, RenderRoomState
  PROVE  RoomInv'
<1>1. /\ ~room.gone /\ UNCHANGED <<room, streams, joins, graders, asks, saved, births, epoch>>
      /\ scope' \in [Concerns -> Nat]
  BY Spent DEF RenderRoomState, RoomInv, TypeOK, Concerns
<1>2. room.game.done \in Seq(TurnRecords) /\ room.game.active \in TurnRecords
  BY <1>1, OfRoom DEF Sessions
<1>3. PICK after \in Nat : after = IF room.game.done = <<>> THEN 0 ELSE Last(room.game.done).id
  <2>1. CASE room.game.done = <<>>
    BY <2>1
  <2>2. CASE room.game.done # <<>>
    <3>1. Last(room.game.done) \in TurnRecords
      <4>1. Len(room.game.done) \in 1 .. Len(room.game.done)
        BY <1>2, <2>2, LenProperties, EmptySeq
      <4>2. QED
        BY <1>2, <4>1, ElementOfSeq DEF Last
    <3>2. QED
      BY <2>2, <3>1 DEF TurnRecords
  <2>3. QED
    BY <2>1, <2>2
<1>4. PICK p : p = [id |-> room.game.active.id, birth |-> room.game.active.birth,
                    epoch |-> epoch, after |-> after]
  OBVIOUS
<1>5. page' = p
  BY <1>3, <1>4 DEF RenderRoomState, Game
<1>6. p \in [id : Nat, birth : Nat, after : Nat, epoch : Nat]
  BY <1>2, <1>3, <1>4 DEF TurnRecords, RoomInv, TypeOK
<1>7. Shown(room.game, p, epoch)
  <2>1. room.game.active.id < room.game.nextTurn
    BY <1>1, OfRoom DEF GameInv, IdsInv, UsedIds
  <2>2. QED
    BY <1>4, <2>1 DEF Shown
<1>8. p.epoch <= epoch
  BY <1>4 DEF RoomInv, TypeOK
<1>9. TypeOK'
  BY <1>1, <1>5, <1>6 DEF RoomInv, TypeOK
<1>10. QED
  BY <1>1, <1>5, <1>7, <1>8, <1>9 DEF RoomInv, Distinct

\* A step that opens or closes a stream, and with it counts.
LEMMA StreamStep ==
  ASSUME RoomInv, ~room.gone, UNCHANGED <<joins, graders, asks, page, saved, births, epoch>>,
         scope' \in [Concerns -> Nat], NEW open \in [Tokens -> Nat], open = streams',
         NEW q \in Rooms, q = room', q.game = room.game, q.members = room.members,
         q.ghosts = room.ghosts, q.elapsed = room.elapsed, q.generation = room.generation, Counted(q, open)
  PROVE  RoomInv'
<1>1. /\ SeatsHeld(q.members, q.game) /\ GhostsLeft(q.ghosts, q.members, q.game)
      /\ Follows(room.game, q.game)
  BY OfRoom, Unmoved
<1>2. /\ asks \in SUBSET [token : Tokens, number : Nat, topics : Nat]
      /\ page \in [id : Nat, birth : Nat, after : Nat, epoch : Nat]
      /\ q.generation >= room.generation
  BY OfRoom DEF RoomInv, TypeOK
<1>3. Awaited(q.game, graders) /\ (q.elapsed # -1 => q.game.active # NoTurn)
  BY OfRoom DEF Kept, Sound
<1>4. Kept(q, open, graders, asks, page, epoch)
  BY <1>1, <1>2, <1>3, OfRoom, GoesOn
<1>5. TypeOK'
  BY DEF RoomInv, TypeOK
<1>6. QED
  BY <1>4, <1>5 DEF RoomInv, Kept, Distinct

LEMMA SubscribeSafe ==
  ASSUME RoomInv, NEW t \in Tokens, Subscribe(t)
  PROVE  RoomInv'
<1>1. /\ ~room.gone /\ UNCHANGED <<joins, graders, asks, page, saved, births, epoch>>
      /\ scope' \in [Concerns -> Nat]
  BY Spent DEF Subscribe, Request, RoomInv, TypeOK, Concerns
<1>2. /\ streams \in [Tokens -> Nat] /\ room.conns = streams /\ room.online \in [Seats -> Nat]
      /\ room.members \in [Tokens -> {0} \cup Seats]
  BY <1>1, OfRoom DEF RoomInv, TypeOK, Kept, Counted, Rooms
<1>3. PICK open \in [Tokens -> Nat] : open = [streams EXCEPT ![t] = @ + 1]
  <2>1. PICK n \in Nat : n = streams[t] + 1
    BY <1>2
  <2>2. QED
    BY <1>2, <2>1
<1>4. PICK p \in {0} \cup Seats : p = room.members[t]
  BY <1>2
<1>5. PICK on \in [Seats -> Nat] :
        on = IF p = 0 THEN room.online ELSE [room.online EXCEPT ![p] = @ + 1]
  <2>1. CASE p = 0
    BY <1>2, <2>1
  <2>2. CASE p # 0
    <3>1. PICK n \in Nat : n = room.online[p] + 1
      BY <1>2, <2>2
    <3>2. QED
      BY <1>2, <2>2, <3>1
  <2>3. QED
    BY <2>1, <2>2
<1>6. PICK away \in Nat : away = Seen(t)
  BY <1>1, OfRoom, Looked
<1>7. PICK q : q = [room EXCEPT !.conns = open, !.away = away, !.online = on]
  OBVIOUS
<1>8. /\ q \in Rooms /\ q.game = room.game /\ q.members = room.members /\ q.ghosts = room.ghosts /\ q.conns = open
      /\ q.online = on /\ q.elapsed = room.elapsed /\ q.generation = room.generation
  BY <1>1, <1>7, OfRoom DEF Rooms
<1>9. q = room' /\ open = streams'
  <2>1. [room.conns EXCEPT ![t] = @ + 1] = open /\ open = streams'
    BY <1>2, <1>3 DEF Subscribe
  <2>2. Raised(room.online, t) = on
    BY <1>4, <1>5 DEF Seat, Raised
  <2>3. QED
    BY <1>6, <1>7, <2>1, <2>2 DEF Subscribe
<1>10. Counted(q, open)
  <2>1. ASSUME NEW s \in Seats \ room.ghosts, on[s] > 0
        PROVE  \E u \in Tokens : room.members[u] = s /\ on[s] <= open[u]
    <3>1. CASE s = p
      <4>1. p # 0 /\ on[s] = room.online[s] + 1 /\ open[t] = streams[t] + 1
        BY <1>2, <1>3, <1>5, <3>1, Limits DEF Seats
      <4>2. room.online[s] <= streams[t]
        <5>1. CASE room.online[s] > 0
          <6>1. PICK u \in Tokens : room.members[u] = s /\ room.online[s] <= streams[u]
            BY <1>1, <5>1, OfRoom DEF Kept, Counted
          <6>2. u = t
            BY <1>1, <1>4, <3>1, <4>1, <6>1, OfRoom DEF SeatsHeld
          <6>3. QED
            BY <6>1, <6>2
        <5>2. CASE ~(room.online[s] > 0)
          BY <1>2, <5>2
        <5>3. QED
          BY <5>1, <5>2
      <4>3. QED
        BY <1>2, <1>4, <3>1, <4>1, <4>2
    <3>2. CASE s # p
      <4>1. on[s] = room.online[s]
        BY <1>2, <1>5, <3>2
      <4>2. PICK u \in Tokens : room.members[u] = s /\ room.online[s] <= streams[u]
        BY <1>1, <2>1, <4>1, OfRoom DEF Kept, Counted
      <4>3. u # t
        BY <1>4, <3>2, <4>2
      <4>4. QED
        BY <1>2, <1>3, <4>1, <4>2, <4>3
    <3>3. QED
      BY <3>1, <3>2
  <2>2. QED
    BY <1>8, <2>1 DEF Counted
<1>11. QED
  BY <1>1, <1>8, <1>9, <1>10, StreamStep

LEMMA FewerOf ==
  ASSUME NEW n \in Nat
  PROVE  /\ Fewer(n) \in Nat /\ (n > 0 => Fewer(n) = n - 1)
         /\ \A m \in Nat : n <= m /\ m > 0 => Fewer(n) <= m - 1
         /\ Fewer(n) > 0 => n > 0
BY DEF Fewer

LEMMA UnsubscribeSafe ==
  ASSUME RoomInv, NEW t \in Tokens, Unsubscribe(t)
  PROVE  RoomInv'
<1>1. /\ UNCHANGED <<joins, graders, asks, page, saved, scope, births, epoch>> /\ streams[t] > 0
      /\ streams \in [Tokens -> Nat]
  BY DEF Unsubscribe, RoomInv, TypeOK
<1>2. PICK open \in [Tokens -> Nat] : open = [streams EXCEPT ![t] = @ - 1]
  <2>1. PICK n \in Nat : n = streams[t] - 1
    BY <1>1
  <2>2. QED
    BY <1>1, <2>1
<1>3. open = streams'
  BY <1>2 DEF Unsubscribe
<1>4. CASE room.gone
  <2>1. room' = room
    BY <1>4 DEF Unsubscribe
  <2>2. QED
    BY <1>1, <1>3, <1>4, <2>1 DEF RoomInv, TypeOK, Distinct
<1>5. CASE ~room.gone
  <2>1. /\ room.conns = streams /\ room.online \in [Seats -> Nat]
        /\ room.members \in [Tokens -> {0} \cup Seats]
    BY <1>5, OfRoom DEF Kept, Counted, Rooms
  <2>2. PICK p \in {0} \cup Seats : p = room.members[t]
    BY <2>1
  <2>3. PICK on \in [Seats -> Nat] :
          on = IF p = 0 THEN room.online ELSE [room.online EXCEPT ![p] = Fewer(@)]
    <3>1. CASE p = 0
      BY <2>1, <3>1
    <3>2. CASE p # 0
      <4>1. Fewer(room.online[p]) \in Nat
        BY <2>1, <3>2, FewerOf
      <4>2. QED
        BY <2>1, <3>2, <4>1
    <3>3. QED
      BY <3>1, <3>2
  <2>4. PICK away \in Nat : away = Seen(t)
    BY <1>5, OfRoom, Looked
  <2>5. [room.conns EXCEPT ![t] = Fewer(@)] = open
    <3>1. Fewer(streams[t]) = streams[t] - 1
      BY <1>1, FewerOf
    <3>2. QED
      BY <1>1, <1>2, <2>1, <3>1
  <2>6. PICK q : q = [room EXCEPT !.conns = open, !.away = away, !.online = on]
    OBVIOUS
  <2>7. /\ q \in Rooms /\ q.game = room.game /\ q.members = room.members /\ q.ghosts = room.ghosts /\ q.conns = open
        /\ q.online = on /\ q.elapsed = room.elapsed /\ q.generation = room.generation
    BY <1>5, <2>6, OfRoom DEF Rooms
  <2>8. q = room'
    BY <1>5, <2>2, <2>3, <2>4, <2>5, <2>6 DEF Unsubscribe, Dropped, Seat
  <2>9. Counted(q, open)
    <3>1. ASSUME NEW s \in Seats \ room.ghosts, on[s] > 0
          PROVE  \E u \in Tokens : room.members[u] = s /\ on[s] <= open[u]
      <4>1. CASE s = p
        <5>1. p # 0 /\ on[s] = Fewer(room.online[s]) /\ open[t] = streams[t] - 1
          BY <1>1, <1>2, <2>1, <2>3, <4>1, Limits DEF Seats
        <5>2. room.online[s] > 0
          BY <2>1, <3>1, <5>1, FewerOf
        <5>3. PICK u \in Tokens : room.members[u] = s /\ room.online[s] <= streams[u]
          BY <1>5, <5>2, OfRoom DEF Kept, Counted
        <5>4. u = t
          BY <1>5, <2>2, <4>1, <5>1, <5>3, OfRoom DEF SeatsHeld
        <5>5. Fewer(room.online[s]) <= streams[t] - 1
          BY <1>1, <2>1, <5>3, <5>4, FewerOf
        <5>6. QED
          BY <2>2, <4>1, <5>1, <5>5
      <4>2. CASE s # p
        <5>1. on[s] = room.online[s]
          BY <2>1, <2>3, <4>2
        <5>2. PICK u \in Tokens : room.members[u] = s /\ room.online[s] <= streams[u]
          BY <1>5, <3>1, <5>1, OfRoom DEF Kept, Counted
        <5>3. u # t
          BY <2>2, <4>2, <5>2
        <5>4. QED
          BY <1>1, <1>2, <5>1, <5>2, <5>3
      <4>3. QED
        BY <4>1, <4>2
    <3>2. QED
      BY <2>7, <3>1 DEF Counted
  <2>10. scope' \in [Concerns -> Nat] /\ UNCHANGED <<joins, graders, asks, page, saved, births, epoch>>
    BY <1>1 DEF RoomInv, TypeOK
  <2>11. QED
    BY <1>3, <1>5, <2>7, <2>8, <2>9, <2>10, StreamStep
<1>6. QED
  BY <1>4, <1>5

-----------------------------------------------------------------------------
(* Time, expiry, autosave and restart                                      *)

LEMMA Ticked ==
  ASSUME NEW n \in Nat
  PROVE  Least(n + 1, ClaimGrace) \in Nat /\ Least(n + 1, IdleTTL + 1) \in Nat
BY RoomAssumption DEF Least

LEMMA TickRoom ==
  ASSUME RoomInv, Tick
  PROVE  /\ room' \in Rooms \cup {NoRoom} /\ room'.gone = room.gone
         /\ ~room.gone => Kept(room', streams, graders, asks, page, epoch)
<1>1. CASE room.gone
  BY <1>1 DEF Tick, RoomInv, TypeOK
<1>2. CASE ~room.gone
  <2>1. room \in Rooms /\ room.away \in Nat /\ room.idle \in Nat
        /\ room.elapsed \in -1 .. Duration + 1
    BY <1>2, OfRoom DEF Rooms
  <2>2. PICK away \in Nat : away = Least(room.away + 1, ClaimGrace)
    BY <2>1, Ticked
  <2>3. PICK idle \in Nat : idle = Least(room.idle + 1, IdleTTL + 1)
    BY <2>1, Ticked
  <2>4. PICK e \in -1 .. Duration + 1 :
          e = IF room.elapsed = -1 THEN room.elapsed ELSE Least(room.elapsed + 1, Duration + 1)
    BY <2>1, Limits DEF Least
  <2>5. PICK q : q = [room EXCEPT !.away = away, !.idle = idle, !.elapsed = e]
    OBVIOUS
  <2>6. /\ q \in Rooms /\ q.game = room.game /\ SameSeats(room, q) /\ q.elapsed = e
        /\ q.generation = room.generation /\ q.gone = room.gone
    BY <2>1, <2>5 DEF Rooms, SameSeats
  <2>7. q = room'
    BY <1>2, <2>2, <2>3, <2>4, <2>5 DEF Tick
  <2>8. Counted(q, streams)
    BY <1>2, <2>6, OfRoom, CountedStill DEF Kept
  <2>9. Sound(q)
    BY <1>2, <2>4, <2>6, OfRoom DEF Kept, Sound, SameSeats
  <2>10. Kept(q, streams, graders, asks, page, epoch)
    BY <1>2, <2>6, <2>8, <2>9, OfRoom DEF Kept, Current
  <2>11. QED
    BY <1>2, <2>6, <2>7, <2>10
<1>3. QED
  BY <1>1, <1>2

LEMMA TickSafe ==
  ASSUME RoomInv, Tick
  PROVE  RoomInv'
<1>1. /\ UNCHANGED <<streams, joins, graders, asks, page, births, epoch>> /\ scope' \in [Concerns -> Nat]
  BY Spent DEF Tick, RoomInv, TypeOK, Concerns
<1>2. /\ saved' \in Snapshots \cup {NoRoom}
      /\ ~saved'.gone => GameInv(saved'.game) /\ SeatsHeld(saved'.members, saved'.game)
  <2>1. CASE saved.gone
    BY <2>1 DEF Tick, RoomInv, TypeOK
  <2>2. CASE ~saved.gone
    <3>1. saved \in Snapshots /\ GameInv(saved.game) /\ SeatsHeld(saved.members, saved.game)
      BY <2>2 DEF RoomInv, TypeOK, NoRoom
    <3>2. PICK idle \in Nat : idle = Least(saved.idle + 1, IdleTTL + 1)
      <4>1. saved.idle \in Nat
        BY <3>1 DEF Snapshots
      <4>2. QED
        BY <4>1, Ticked
    <3>3. PICK q : q = [saved EXCEPT !.idle = idle]
      OBVIOUS
    <3>4. q \in Snapshots /\ q.game = saved.game /\ q.members = saved.members
      BY <3>1, <3>3 DEF Snapshots
    <3>5. q = saved'
      BY <2>2, <3>2, <3>3 DEF Tick
    <3>6. QED
      BY <3>1, <3>4, <3>5
  <2>3. QED
    BY <2>1, <2>2
<1>3. TypeOK'
  BY <1>1, <1>2, TickRoom DEF RoomInv, TypeOK
<1>4. QED
  BY <1>1, <1>2, <1>3, TickRoom DEF RoomInv, Kept, Distinct

LEMMA ExpireSafe ==
  ASSUME RoomInv, Expire
  PROVE  RoomInv'
<1>1. room' = NoRoom /\ UNCHANGED <<streams, joins, graders, asks, page, saved, scope, births, epoch>>
  BY DEF Expire
<1>2. room'.gone
  BY <1>1 DEF NoRoom
<1>3. TypeOK'
  BY <1>1 DEF RoomInv, TypeOK
<1>4. QED
  BY <1>1, <1>2, <1>3 DEF RoomInv, Distinct

LEMMA SaveToSafe ==
  ASSUME RoomInv, SaveTo
  PROVE  RoomInv'
<1>1. UNCHANGED <<room, streams, joins, graders, asks, page, births, epoch>> /\ scope' \in [Concerns -> Nat]
  BY Spent DEF SaveTo, RoomInv, TypeOK, Concerns
<1>2. /\ saved' \in Snapshots \cup {NoRoom}
      /\ ~saved'.gone => GameInv(saved'.game) /\ SeatsHeld(saved'.members, saved'.game)
  <2>1. CASE room.gone
    BY <2>1 DEF SaveTo, NoRoom
  <2>2. CASE ~room.gone
    <3>1. PICK q : q = [gone |-> FALSE, host |-> room.host, members |-> room.members,
                        game |-> room.game, idle |-> room.idle]
      OBVIOUS
    <3>2. q = saved'
      BY <2>2, <3>1 DEF SaveTo
    <3>3. q \in Snapshots /\ q.game = room.game /\ q.members = room.members
      BY <2>2, <3>1, OfRoom DEF Rooms, Snapshots
    <3>4. QED
      BY <2>2, <3>2, <3>3, OfRoom
  <2>3. QED
    BY <2>1, <2>2
<1>3. TypeOK'
  BY <1>1, <1>2 DEF RoomInv, TypeOK
<1>4. QED
  BY <1>1, <1>2, <1>3 DEF RoomInv, Distinct

LEMMA RestartSafe ==
  ASSUME RoomInv, Restart
  PROVE  RoomInv'
<1>1. /\ UNCHANGED <<page, saved, births>> /\ scope' \in [Concerns -> Nat]
      /\ streams' = Zero(Tokens) /\ joins' = Zero(Tokens)
      /\ graders' = {} /\ asks' = {} /\ room' = LoadFrom
      /\ epoch' = epoch + 1 /\ epoch' \in Nat /\ page.epoch <= epoch'
      /\ page.epoch # epoch'
  <2>1. scope' \in [Concerns -> Nat]
    BY Spent DEF Restart, RoomInv, TypeOK, Concerns
  <2>2. epoch \in Nat /\ page.epoch \in Nat /\ page.epoch <= epoch
    BY DEF RoomInv, TypeOK
  <2>3. PICK e \in Nat : e = epoch + 1
    BY <2>2
  <2>4. epoch' = e
    BY <2>3 DEF Restart
  <2>5. e = epoch + 1 /\ page.epoch <= e /\ page.epoch # e
    BY <2>2, <2>3
  <2>6. QED
    BY <2>1, <2>4, <2>5 DEF Restart
<1>2. streams' \in [Tokens -> Nat] /\ joins' \in [Tokens -> Nat]
  BY <1>1 DEF Zero
<1>3. CASE saved.gone \/ saved.idle > IdleTTL
  <2>1. room' = NoRoom /\ room'.gone
    BY <1>1, <1>3 DEF LoadFrom, NoRoom
  <2>2. TypeOK'
    BY <1>1, <1>2, <2>1 DEF RoomInv, TypeOK
  <2>3. QED
    BY <1>1, <2>1, <2>2 DEF RoomInv, Distinct
<1>4. CASE ~saved.gone /\ ~(saved.idle > IdleTTL)
  <2>1. saved \in Snapshots /\ GameInv(saved.game) /\ SeatsHeld(saved.members, saved.game)
    BY <1>4 DEF RoomInv, TypeOK, NoRoom
  <2>2. PICK h : h = ReconcilePendingAI(saved.game)
    OBVIOUS
  <2>3. /\ GameInv(h) /\ h.players = saved.game.players
        /\ \A i \in DOMAIN h.done : h.done[i].ai # "pending"
    BY <2>1, <2>2, ReconcileKeeps
  <2>4. PICK none \in Nat, stopped \in -1 .. Duration + 1 : none = 0 /\ stopped = -1
    BY Limits
  <2>5. PICK q : q = [gone |-> FALSE, host |-> saved.host, away |-> none,
                      members |-> saved.members, ghosts |-> {},
                      online |-> Zero(Seats), conns |-> Zero(Tokens), elapsed |-> stopped, generation |-> none, idle |-> saved.idle, game |-> h]
    OBVIOUS
  <2>6. /\ q.gone = FALSE /\ q.members = saved.members /\ q.ghosts = {} /\ q.online = Zero(Seats)
        /\ q.conns = Zero(Tokens) /\ q.elapsed = stopped /\ q.game = h
    BY <2>5
  <2>7. q \in Rooms
    <3>1. Zero(Seats) \in [Seats -> Nat] /\ Zero(Tokens) \in [Tokens -> Nat]
      BY DEF Zero
    <3>2. QED
      BY <2>1, <2>3, <2>5, <3>1 DEF Rooms, Snapshots, GameInv
  <2>8. q = room'
    BY <1>1, <1>4, <2>2, <2>4, <2>5 DEF LoadFrom
  <2>9. Sound(q)
    <3>1. SeatsHeld(saved.members, h)
      BY <2>1, <2>3, SeatsStay DEF Snapshots
    <3>2. QED
      BY <2>3, <2>4, <2>6, <2>7, <3>1 DEF Sound, GhostsLeft
  <2>10. Counted(q, streams')
    BY <1>1, <2>6 DEF Counted, Zero
  <2>11. Awaited(h, {}) /\ Current(q, {}) /\ Shown(h, page, epoch')
    BY <1>1, <2>3 DEF Awaited, Current, Shown
  <2>12. TypeOK'
    BY <1>1, <1>2, <2>7, <2>8 DEF RoomInv, TypeOK
  <2>13. QED
    BY <1>1, <2>6, <2>8, <2>9, <2>10, <2>11, <2>12 DEF RoomInv, Distinct
<1>5. QED
  BY <1>3, <1>4

-----------------------------------------------------------------------------
(* The beginning, and every step                                           *)

LEMMA NewSessionKeeps ==
  ASSUME NEW g, g = NewSession
  PROVE  GameInv(g) /\ ~g.started /\ g.nextPlayer = 1 /\ g.done = <<>> /\ g.active = NoTurn
<1>1. PICK zero, one, nobody : zero = 0 /\ one = 1 /\ nobody = <<>>
  OBVIOUS
<1>2. PICK none, scores : none = NoTurn /\ scores = [p \in Seats |-> zero]
  OBVIOUS
<1>3. g = [players |-> nobody, score |-> scores, corrected |-> scores,
           ai |-> FALSE, rounds |-> one, topics |-> zero, started |-> FALSE, finished |-> FALSE,
           current |-> zero, round |-> one, active |-> none, done |-> nobody,
           nextPlayer |-> one, nextTurn |-> one]
  BY <1>1, <1>2 DEF NewSession
<1>4. /\ g.players = nobody /\ g.started = FALSE /\ g.finished = FALSE /\ g.current = zero
      /\ g.active = none /\ g.done = nobody /\ g.nextPlayer = one /\ g.nextTurn = one
  BY <1>3
<1>5. g \in Sessions
  <2>1. scores \in [Seats -> Nat] /\ scores \in [Seats -> Int]
    BY <1>1, <1>2
  <2>2. nobody \in Seq(Seats) /\ nobody \in Seq(TurnRecords)
    BY <1>1
  <2>3. one \in 1 .. MaxSeat + 1 /\ one \in 1 .. MaxTurnID + 1 /\ one \in Nat \ {0}
    BY <1>1, Limits
  <2>4. none \in TurnRecords
    BY <1>2, NoTurnType
  <2>5. QED
    BY <1>1, <1>3, <2>1, <2>2, <2>3, <2>4 DEF Sessions
<1>6. RosterInv(g)
  BY <1>1, <1>4 DEF RosterInv
<1>7. IdsInv(g)
  <2>1. UsedIds(g) = {0}
    BY <1>1, <1>2, <1>4, NoTurnType DEF UsedIds
  <2>2. QED
    BY <1>1, <1>2, <1>4, <2>1 DEF IdsInv
<1>8. PlayInv(g)
  BY <1>1, <1>2, <1>4 DEF PlayInv
<1>9. QED
  BY <1>1, <1>2, <1>4, <1>5, <1>6, <1>7, <1>8 DEF GameInv

LEMMA InitSafe ==
  ASSUME Init
  PROVE  RoomInv
<1>1. PICK named \in BOOLEAN :
        room = [gone |-> FALSE, host |-> Creator, away |-> 0,
                members |-> [Zero(Tokens) EXCEPT ![Creator] = IF named THEN 1 ELSE 0],
                ghosts |-> {}, online |-> Zero(Seats), conns |-> Zero(Tokens), elapsed |-> -1,
                generation |-> 0, idle |-> 0, game |-> IF named THEN AddPlayer(NewSession) ELSE NewSession]
  BY DEF Init, CreateRoom
<1>2. PICK g : g = NewSession
  OBVIOUS
<1>3. GameInv(g) /\ ~g.started /\ g.nextPlayer = 1 /\ g.done = <<>> /\ g.active = NoTurn
  BY <1>2, NewSessionKeeps
<1>4. PICK one \in Seats : one = 1
  BY RoomAssumption, Limits DEF Seats
<1>5. PICK a : a = AddPlayer(g)
  OBVIOUS
<1>6. /\ GameInv(a) /\ a.done = g.done /\ a.active = g.active /\ one \in ToSet(a.players)
  <2>1. g.nextPlayer \in Seats
    BY <1>3, <1>4
  <2>2. /\ GameInv(a) /\ Follows(g, a) /\ a.done = g.done /\ a.active = g.active
        /\ ToSet(g.players) \cup {g.nextPlayer} \subseteq ToSet(a.players)
    BY <1>3, <1>5, <2>1, AddedPlayer
  <2>3. QED
    BY <1>3, <1>4, <2>2
<1>7. PICK h : h = IF named THEN a ELSE g
  OBVIOUS
<1>8. PICK none, stopped \in -1 .. Duration + 1 : none = 0 /\ stopped = -1
  BY Limits
<1>9. PICK seat \in {0} \cup Seats : seat = IF named THEN one ELSE none
  BY <1>8
<1>10. PICK m : m = [Zero(Tokens) EXCEPT ![Creator] = seat]
  OBVIOUS
<1>11. /\ m \in [Tokens -> {0} \cup Seats] /\ Creator \in Tokens
       /\ m[Creator] = seat /\ \A t \in Tokens \ {Creator} : m[t] = 0
  BY <1>9, <1>10, RoomAssumption DEF Zero
<1>12. PICK q : q = [gone |-> FALSE, host |-> Creator, away |-> none, members |-> m,
                     ghosts |-> {}, online |-> Zero(Seats), conns |-> Zero(Tokens),
                     elapsed |-> stopped, generation |-> none, idle |-> none, game |-> h]
  OBVIOUS
<1>13. q = room
  BY <1>1, <1>2, <1>4, <1>5, <1>7, <1>8, <1>9, <1>10, <1>12
<1>14. /\ q.gone = FALSE /\ q.members = m /\ q.ghosts = {} /\ q.online = Zero(Seats) /\ q.conns = Zero(Tokens)
       /\ q.elapsed = stopped /\ q.game = h
  BY <1>12
<1>15. GameInv(h) /\ h.done = <<>> /\ (named => one \in ToSet(h.players))
  BY <1>3, <1>6, <1>7
<1>16. q \in Rooms /\ Zero(Tokens) \in [Tokens -> Nat]
  <2>1. Zero(Seats) \in [Seats -> Nat] /\ Zero(Tokens) \in [Tokens -> Nat] /\ none \in Nat
    BY <1>8 DEF Zero
  <2>2. QED
    BY <1>11, <1>12, <1>15, <2>1 DEF Rooms, GameInv
<1>17. SeatsHeld(m, h)
  <2>1. \A t \in Tokens : m[t] # 0 => t = Creator /\ named /\ m[t] = one
    BY <1>8, <1>9, <1>11
  <2>2. one # 0
    BY <1>4
  <2>3. QED
    BY <1>15, <2>1, <2>2 DEF SeatsHeld, HasPlayer
<1>18. Sound(q)
  BY <1>8, <1>14, <1>15, <1>16, <1>17 DEF Sound, GhostsLeft
<1>19. streams = Zero(Tokens) /\ joins = Zero(Tokens) /\ graders = {} /\ asks = {} /\ page = NoPage /\ saved = NoRoom
       /\ scope \in [Concerns -> Nat] /\ births = 0 /\ epoch = 0
  BY RoomAssumption DEF Init
<1>20. Counted(q, streams)
  BY <1>14, <1>19 DEF Counted, Zero
<1>21. Awaited(h, graders) /\ Current(q, asks) /\ Distinct(asks)
  BY <1>15, <1>19 DEF Awaited, Current, Distinct
<1>22. Shown(h, page, epoch) /\ page.epoch <= epoch
       /\ page \in [id : Nat, birth : Nat, after : Nat, epoch : Nat]
  <2>1. page.id = 0 /\ page.epoch = 0
        /\ page \in [id : Nat, birth : Nat, after : Nat, epoch : Nat]
    <3>1. PICK n \in Nat : n = 0
      OBVIOUS
    <3>2. page = [id |-> n, birth |-> n, after |-> n, epoch |-> n]
      BY <1>19, <3>1 DEF NoPage
    <3>3. QED
      BY <3>1, <3>2
  <2>2. 0 < h.nextTurn
    <3>1. h.nextTurn \in 1 .. MaxTurnID + 1
      BY <1>15 DEF GameInv, Sessions
    <3>2. QED
      BY <3>1, Limits
  <2>3. QED
    BY <1>19, <2>1, <2>2 DEF Shown
<1>23. TypeOK
  BY <1>13, <1>16, <1>19, <1>22 DEF TypeOK
<1>24. saved.gone
  BY <1>19 DEF NoRoom
<1>25. QED
  BY <1>13, <1>14, <1>18, <1>20, <1>21, <1>22, <1>23, <1>24 DEF RoomInv

LEMMA SetupSafe ==
  ASSUME RoomInv, NEW t \in Tokens, Setup(t)
  PROVE  RoomInv'
<1>1. ASSUME NEW p \in Seats, HostRemovesPlayer(t, p) PROVE RoomInv'
  BY <1>1, HostRemovesPlayerSafe
<1>2. ASSUME NEW p \in Seats, NEW offset \in {-1, 1}, HostMovesPlayer(t, p, offset) PROVE RoomInv'
  BY <1>2, HostMovesPlayerSafe
<1>3. ASSUME NEW ai \in BOOLEAN, NEW rounds \in Rounds, ChangeSettings(t, ai, rounds) PROVE RoomInv'
  BY <1>3, ChangeSettingsSafe
<1>4. QED
  BY <1>1, <1>2, <1>3, LookMemberSafe, JoinRoomSafe, LeaveSafe, HostAddsPlayerSafe, CustomTopicsSafe,
     BeginTopicGenerationSafe DEF Setup

LEMMA PlaySafe ==
  ASSUME RoomInv, NEW t \in Tokens, Play(t)
  PROVE  RoomInv'
<1>1. ASSUME NEW after, StartNextTurn(t, after) PROVE RoomInv'
  BY <1>1, StartNextTurnSafe
<1>2. ASSUME NEW id, BeginTurn(t, id) \/ RedrawTurn(t, id) PROVE RoomInv'
  BY <1>2, BeginTurnSafe, RedrawTurnSafe
<1>3. ASSUME NEW id, NEW claim \in -1 .. scope.claims, NEW completes \in BOOLEAN,
             NEW eliminated \in BOOLEAN, NEW judged \in BOOLEAN,
             SubmitResult(t, id, claim, completes, eliminated, judged)
      PROVE  RoomInv'
  <2>1. claim \in Int
    OBVIOUS
  <2>2. QED
    BY <1>3, <2>1, SubmitResultSafe
<1>4. ASSUME NEW p \in Seats, NEW delta \in {-2, 2}, ScoreOverride(t, p, delta) PROVE RoomInv'
  BY <1>4, ScoreOverrideSafe
<1>5. QED
  BY <1>1, <1>2, <1>3, <1>4, StartGameSafe, ResetGameSafe DEF Play

LEMMA NextSafe ==
  ASSUME RoomInv, [Next]_vars
  PROVE  RoomInv'
<1>1. ASSUME NEW t \in Tokens,
             \/ Visit(t) \/ Setup(t) \/ Play(t) \/ ClaimHost(t)
             \/ Subscribe(t) \/ Unsubscribe(t)
      PROVE  RoomInv'
  BY <1>1, VisitSafe, SetupSafe, PlaySafe, ClaimHostSafe, SubscribeSafe, UnsubscribeSafe
<1>2. ASSUME NEW t \in Tokens, NEW to \in Tokens, TransferHost(t, to) PROVE RoomInv'
  BY <1>2, TransferHostSafe
<1>3. ASSUME NEW ask \in asks, NEW usable \in BOOLEAN, ApplyTopicGeneration(ask, usable)
      PROVE  RoomInv'
  BY <1>3, ApplyTopicGenerationSafe
<1>4. ASSUME NEW grader \in graders, NEW bonus \in Bonuses, GradeTurn(grader, "done", bonus)
      PROVE  RoomInv'
  <2>1. bonus \in Nat
    BY RoomAssumption
  <2>2. PICK status \in {"done", "failed"} : status = "done"
    OBVIOUS
  <2>3. QED
    BY <1>4, <2>1, <2>2, GradeTurnSafe
<1>5. ASSUME NEW grader \in graders, GradeTurn(grader, "failed", 0)
      PROVE  RoomInv'
  <2>1. PICK none \in Nat : none = 0
    OBVIOUS
  <2>2. PICK status \in {"done", "failed"} : status = "failed"
    OBVIOUS
  <2>3. QED
    BY <1>5, <2>1, <2>2, GradeTurnSafe
<1>6. ASSUME RenderRoomState \/ Tick \/ Expire \/ SaveTo \/ Restart PROVE RoomInv'
  BY <1>6, RenderRoomStateSafe, TickSafe, ExpireSafe, SaveToSafe, RestartSafe
<1>7. CASE UNCHANGED vars
  <2>1. TypeOK'
    BY <1>7 DEF RoomInv, TypeOK, vars
  <2>2. QED
    BY <1>7, <2>1 DEF RoomInv, vars, Distinct
<1>8. CASE Next
  BY <1>1, <1>2, <1>3, <1>4, <1>5, <1>6, <1>8 DEF Next
<1>9. QED
  BY <1>7, <1>8

-----------------------------------------------------------------------------
(* Theorems                                                                *)

LEMMA OrderHolds ==
  ASSUME RoomInv
  PROVE  TurnOrder
<1>1. SUFFICES ASSUME ~room.gone, room.game.started
               PROVE  LET n == Len(room.game.players) IN
                      /\ \A i \in DOMAIN room.game.done :
                           room.game.done[i].player = room.game.players[((i - 1) % n) + 1]
                      /\ room.game.active # NoTurn =>
                           /\ ~room.game.finished
                           /\ room.game.active.player
                                = room.game.players[(Len(room.game.done) % n) + 1]
                      /\ room.game.finished <=> Len(room.game.done) = n * room.game.rounds
  BY DEF TurnOrder, Game
<1>2. PICK g : g = room.game
  OBVIOUS
<1>3. g \in Sessions /\ InOrder(g) /\ RosterInv(g)
  BY <1>1, <1>2, OfRoom DEF GameInv, PlayInv
<1>4. PICK n \in Nat \ {0}, c \in Nat, round \in Nat \ {0}, rounds \in Nat \ {0}, len \in Nat :
        /\ n = Len(g.players) /\ c = g.current /\ round = g.round /\ rounds = g.rounds
        /\ len = Len(g.done)
  BY <1>3, PlayersOf, DoneOf DEF InOrder, Sessions
<1>5. /\ c < n /\ len = n * (round - 1) + c /\ g.finished \in BOOLEAN
      /\ g.finished <=> round > rounds
      /\ g.finished => round = rounds + 1 /\ c = 0
  BY <1>3, <1>4 DEF InOrder, RosterInv, Sessions
<1>6. PICK q \in Nat : q = round - 1
  OBVIOUS
<1>7. len % n = c
  <2>1. len = n * q + c /\ c \in 0 .. (n - 1)
    BY <1>5, <1>6
  <2>2. QED
    BY <2>1, PlaceInRound
<1>8. g.finished <=> len = n * rounds
  <2>1. CASE g.finished
    <3>1. q = rounds
      BY <1>5, <1>6, <2>1
    <3>2. len = n * rounds + 0
      BY <1>5, <1>6, <2>1, <3>1
    <3>3. QED
      BY <2>1, <3>2
  <2>2. CASE ~g.finished
    <3>1. round <= rounds /\ q + 1 = round
      BY <1>5, <1>6, <2>2
    <3>2. n * (round - 1) + n = n * ((round + 1) - 1)
      BY NextRound
    <3>3. n * round <= n * rounds
      BY <3>1, RoundsGrow
    <3>4. PICK full \in Int, all \in Int, begun \in Int :
            full = n * round /\ all = n * rounds /\ begun = n * (round - 1)
      OBVIOUS
    <3>5. begun + n = full /\ full <= all /\ len = begun + c
      <4>1. (round + 1) - 1 = round
        OBVIOUS
      <4>2. QED
        BY <1>5, <3>2, <3>3, <3>4, <4>1
    <3>6. len < all
      BY <1>5, <3>5
    <3>7. QED
      BY <2>2, <3>4, <3>6
  <2>3. QED
    BY <1>5, <2>1, <2>2
<1>9. /\ \A i \in DOMAIN g.done : g.done[i].player = g.players[((i - 1) % n) + 1]
      /\ g.active # NoTurn => ~g.finished /\ g.active.player = g.players[c + 1]
  BY <1>3, <1>4 DEF InOrder
<1>10. QED
  BY <1>2, <1>4, <1>7, <1>8, <1>9

LEMMA LateMiss ==
  ASSUME RoomInv
  PROVE  LateActionsMiss
<1>1. SUFFICES ASSUME ~room.gone, page.epoch = epoch, page.id # 0, NEW t \in Tokens,
                      MayAct(t, page.id)
               PROVE  page.birth = room.game.active.birth
  BY DEF LateActionsMiss, Game
<1>2. room.game.active.id = page.id
  BY <1>1 DEF MayAct, Game
<1>3. QED
  BY <1>1, <1>2, OfRoom DEF Kept, Shown

\* What a step does to the lists asked for that it answers or drops.
TopicsSurvive ==
  \A ask \in asks \ asks' : epoch' = epoch /\ ~room.gone /\ ~room'.gone
    /\ Game'.topics # Game.topics => Game.topics = ask.topics /\ ~Game.started

LEMMA AsksStay ==
  ASSUME asks \subseteq asks'
  PROVE  TopicsSurvive
BY DEF TopicsSurvive

LEMMA StepSurvives ==
  ASSUME RoomInv, [Next]_vars
  PROVE  TopicsSurvive
<1>1. ASSUME NEW t \in Tokens, Setup(t) PROVE asks \subseteq asks'
  BY <1>1 DEF Setup, LookMember, JoinRoom, Leave, HostAddsPlayer, HostRemovesPlayer, HostMovesPlayer,
     ChangeSettings, CustomTopics, BeginTopicGeneration, Others
<1>2. ASSUME NEW t \in Tokens, Play(t) PROVE asks \subseteq asks'
  <2>1. ASSUME StartGame(t) \/ ResetGame(t) PROVE asks \subseteq asks'
    BY <2>1 DEF StartGame, ResetGame, Others
  <2>2. ASSUME NEW id, NEW after, BeginTurn(t, id) \/ RedrawTurn(t, id) \/ StartNextTurn(t, after)
        PROVE  asks \subseteq asks'
    BY <2>2 DEF BeginTurn, RedrawTurn, StartNextTurn, Others
  <2>3. ASSUME NEW id, NEW claim, NEW completes, NEW eliminated, NEW judged,
               SubmitResult(t, id, claim, completes, eliminated, judged)
        PROVE  asks \subseteq asks'
    BY <2>3 DEF SubmitResult
  <2>4. ASSUME NEW p, NEW delta, ScoreOverride(t, p, delta) PROVE asks \subseteq asks'
    BY <2>4 DEF ScoreOverride, Others
  <2>5. QED
    BY <1>2, <2>1, <2>2, <2>3, <2>4 DEF Play
<1>3. ASSUME NEW t \in Tokens, NEW to \in Tokens,
             \/ Visit(t) \/ ClaimHost(t) \/ TransferHost(t, to) \/ Subscribe(t) \/ Unsubscribe(t)
      PROVE  asks \subseteq asks'
  BY <1>3 DEF Visit, ClaimHost, TransferHost, Subscribe, Unsubscribe, Others
<1>4. ASSUME NEW ask \in asks, NEW usable \in BOOLEAN, ApplyTopicGeneration(ask, usable)
      PROVE  TopicsSurvive
  BY <1>4, ApplyTopicGenerationSafe DEF TopicsSurvive, Game
<1>5. ASSUME NEW grader \in graders, NEW status, NEW bonus, GradeTurn(grader, status, bonus)
      PROVE  asks \subseteq asks'
  BY <1>5 DEF GradeTurn
<1>6. ASSUME RenderRoomState \/ Tick \/ Expire \/ SaveTo PROVE asks \subseteq asks'
  BY <1>6 DEF RenderRoomState, Tick, Expire, SaveTo
<1>7. ASSUME Restart PROVE TopicsSurvive
  <2>1. epoch' # epoch
    BY <1>7 DEF Restart, RoomInv, TypeOK
  <2>2. QED
    BY <2>1 DEF TopicsSurvive
<1>8. CASE UNCHANGED vars
  BY <1>8, AsksStay DEF vars
<1>9. CASE Next
  BY <1>1, <1>2, <1>3, <1>4, <1>5, <1>6, <1>7, <1>9, AsksStay DEF Next
<1>10. QED
  BY <1>8, <1>9

(* The invariant every theorem below rests on: the session in order, seats and streams counted,
   verdicts asked for, and everything late older than what it would change (room.go:23-48). *)
THEOREM RoomInvariant == Spec => []RoomInv
<1>1. Init => RoomInv
  BY InitSafe
<1>2. RoomInv /\ [Next]_vars => RoomInv'
  BY NextSafe
<1>3. QED
  BY <1>1, <1>2, PTL DEF Spec

(* In every room the players speak in the order of the roster, round after round, the clock
   runs for a turn only and every verdict awaited is being asked for, whatever is reset,
   removed, restored or late (game.go:715, room.go:487, server.go:1085). *)
THEOREM TurnsInOrder == Spec => []TurnsAreInOrder
<1>1. RoomInv => TurnsAreInOrder
  <2>1. RoomInv => ClockBelongsToTurn
    BY OfRoom DEF ClockBelongsToTurn, Game, Kept, Sound
  <2>2. RoomInv => PendingHasJudge
    BY OfRoom DEF PendingHasJudge, Pending, Game, Kept, Awaited
  <2>3. QED
    BY <2>1, <2>2, OrderHolds DEF TurnsAreInOrder
<1>2. QED
  BY <1>1, RoomInvariant, PTL

(* A seat belongs to one browser and to a player of the roster, and the streams of each
   browser and player are counted for who holds them, through joining, leaving, removal,
   expiry and restart; only a seat that a browser left behind by joining twice at once may
   keep a count (room.go:283-298, 348-397, server.go:463-488). *)
THEOREM PresenceAgreed == Spec => []PresenceAgrees
<1>1. RoomInv => PresenceAgrees
  <2>1. RoomInv => TypeOK
    BY DEF RoomInv
  <2>2. RoomInv => SeatsAreHeld
    <3>1. SUFFICES ASSUME RoomInv, ~room.gone PROVE SeatsAreHeld
      BY DEF SeatsAreHeld
    <3>2. room.game.players # <<>> => room.game.current + 1 \in DOMAIN room.game.players
      BY <3>1, OfRoom, PlayersOf DEF GameInv, RosterInv, Sessions
    <3>3. SeatsHeld(room.members, room.game)
      BY <3>1, OfRoom
    <3>4. QED
      BY <3>1, <3>2, <3>3, OfRoom DEF SeatsAreHeld, SeatsHeld, GhostsLeft, Game, Seat
  <2>3. RoomInv => PresenceIsCounted
    BY OfRoom DEF PresenceIsCounted, Kept, Counted, Seat
  <2>4. QED
    BY <2>1, <2>2, <2>3 DEF PresenceAgrees
<1>2. QED
  BY <1>1, RoomInvariant, PTL

(* A request from an old page acts on the turn that page shows or on none, and a list of
   topics that comes late replaces no newer choice and none of a started game
   (game.go:92-94, room.go:329). *)
THEOREM LateComersMissed == Spec => LateComersMiss
<1>1. RoomInv => LateActionsMiss
  BY LateMiss
<1>2. RoomInv /\ [Next]_vars => [TopicsSurvive]_vars
  BY StepSurvives
<1>3. Spec => [][TopicsSurvive]_vars
  BY <1>2, RoomInvariant, PTL DEF Spec
<1>4. Spec => []LateActionsMiss
  BY <1>1, RoomInvariant, PTL
<1>5. NewerTopicsSurvive <=> [][TopicsSurvive]_vars
  BY DEF NewerTopicsSurvive, TopicsSurvive
<1>6. QED
  BY <1>3, <1>4, <1>5, PTL DEF LateComersMiss

-----------------------------------------------------------------------------
(* Running totals                                                          *)

\* A set of numbers that holds 0 and with each number the next one holds them all.
LEMMA HoldsAll ==
  ASSUME NEW S, 0 \in S, \A n \in Nat : n \in S => n + 1 \in S
  PROVE  Nat \subseteq S
<1> DEFINE R == {pair \in Nat \X Nat : pair[1] < pair[2]}
           T == Nat \ S
<1>1. IsWellFoundedOn(R, Nat)
  BY NatLessThanWellFounded DEF OpToRel
<1>2. T \subseteq Nat
  OBVIOUS
<1> SUFFICES ASSUME T # {} PROVE FALSE
  OBVIOUS
<1> HIDE DEF T, R
<1>3. PICK x \in T : \A y \in T : ~(<<y, x>> \in R)
  BY <1>1, <1>2, WFMin
<1> USE DEF T, R
<1>4. x - 1 \in T /\ <<x - 1, x>> \in R
  OBVIOUS
<1> QED
  BY <1>3, <1>4

LEMMA TotalsAreNumbers ==
  ASSUME NEW n \in Nat, NEW term, \A k \in 1 .. n : term[k] \in Int,
         NEW total, AreTotals(total, term, n)
  PROVE  \A k \in 0 .. n : total[k] \in Int
<1> DEFINE S == {k \in Nat : k <= n => total[k] \in Int}
<1>1. \A k \in 0 .. n : total[k] = IF k = 0 THEN 0 ELSE total[k - 1] + term[k]
  BY DEF AreTotals
<1>2. 0 \in S
  BY <1>1
<1>3. ASSUME NEW k \in Nat, k \in S PROVE k + 1 \in S
  BY <1>1, <1>3
<1>4. Nat \subseteq S
  <2> HIDE DEF S
  <2> QED
    BY <1>2, <1>3, HoldsAll
<1> QED
  BY <1>4

\* All totals of the terms there are, and there are some, end in the sum.
EndIn(term, n, sum) ==
  /\ \E total : AreTotals(total, term, n)
  /\ \A total : AreTotals(total, term, n) => total[n] = sum

LEMMA TotalIs ==
  ASSUME NEW term, NEW n, NEW sum, EndIn(term, n, sum)
  PROVE  Total(term, n) = sum
<1> DEFINE t == CHOOSE total : AreTotals(total, term, n)
<1>1. AreTotals(t, term, n)
  BY DEF EndIn
<1>2. Total(term, n) = t[n]
  BY DEF Total, AreTotals
<1> QED
  BY <1>1, <1>2 DEF EndIn

LEMMA NoTerms ==
  ASSUME NEW term
  PROVE  EndIn(term, 0, 0)
<1>1. AreTotals([k \in 0 .. 0 |-> 0], term, 0)
  BY DEF AreTotals
<1>2. ASSUME NEW total, AreTotals(total, term, 0) PROVE total[0] = 0
  BY <1>2 DEF AreTotals
<1> QED
  BY <1>1, <1>2 DEF EndIn

LEMMA OneMoreTerm ==
  ASSUME NEW n \in Nat, NEW term, NEW more, NEW sum \in Int, EndIn(term, n, sum),
         \A k \in 1 .. n : more[k] = term[k], more[n + 1] \in Int
  PROVE  EndIn(more, n + 1, sum + more[n + 1])
<1>1. \E total : AreTotals(total, more, n + 1)
  <2>1. PICK total : AreTotals(total, term, n)
    BY DEF EndIn
  <2> DEFINE next == [k \in 0 .. n + 1 |-> IF k = n + 1 THEN total[n] + more[k] ELSE total[k]]
  <2>2. \A k \in 0 .. n : total[k] = IF k = 0 THEN 0 ELSE total[k - 1] + term[k]
    BY <2>1 DEF AreTotals
  <2>3. ASSUME NEW k \in 0 .. n + 1
        PROVE  next[k] = IF k = 0 THEN 0 ELSE next[k - 1] + more[k]
    <3>1. CASE k = 0
      BY <2>2, <3>1
    <3>2. CASE k \in 1 .. n
      BY <2>2, <3>2
    <3>3. CASE k = n + 1
      BY <3>3
    <3> QED
      BY <3>1, <3>2, <3>3
  <2>4. AreTotals(next, more, n + 1)
    <3>1. next = [k \in 0 .. n + 1 |-> next[k]]
      OBVIOUS
    <3> HIDE DEF next
    <3> QED
      BY <2>3, <3>1 DEF AreTotals
  <2> QED
    BY <2>4
<1>2. ASSUME NEW total, AreTotals(total, more, n + 1)
      PROVE  total[n + 1] = sum + more[n + 1]
  <2> DEFINE before == [k \in 0 .. n |-> total[k]]
  <2>1. \A k \in 0 .. n + 1 : total[k] = IF k = 0 THEN 0 ELSE total[k - 1] + more[k]
    BY <1>2 DEF AreTotals
  <2>2. ASSUME NEW k \in 0 .. n
        PROVE  before[k] = IF k = 0 THEN 0 ELSE before[k - 1] + term[k]
    <3>1. CASE k = 0
      BY <2>1, <3>1
    <3>2. CASE k \in 1 .. n
      BY <2>1, <3>2
    <3> QED
      BY <3>1, <3>2
  <2>3. AreTotals(before, term, n)
    <3>1. before = [k \in 0 .. n |-> before[k]]
      OBVIOUS
    <3> HIDE DEF before
    <3> QED
      BY <2>2, <3>1 DEF AreTotals
  <2>4. total[n] = sum
    BY <2>3 DEF EndIn
  <2> QED
    BY <2>1, <2>4
<1> QED
  BY <1>1, <1>2 DEF EndIn

\* One term more or less moves the sum by as much.
LEMMA RaisedTerm ==
  ASSUME NEW n \in Nat, NEW at \in 1 .. n, NEW term, NEW more, NEW sum \in Int, NEW by \in Int,
         EndIn(term, n, sum), \A k \in 1 .. n : term[k] \in Int,
         \A k \in 1 .. n : more[k] = IF k = at THEN term[k] + by ELSE term[k]
  PROVE  EndIn(more, n, sum + by)
<1> DEFINE Lifted(total, d) == [k \in 0 .. n |-> IF k >= at THEN total[k] + d ELSE total[k]]
<1>1. ASSUME NEW total, NEW old, NEW new, NEW d \in Int, AreTotals(total, old, n),
             \A k \in 1 .. n : old[k] \in Int,
             \A k \in 1 .. n : new[k] = IF k = at THEN old[k] + d ELSE old[k]
      PROVE  AreTotals(Lifted(total, d), new, n) /\ total[n] \in Int
  <2>1. \A k \in 0 .. n : total[k] = IF k = 0 THEN 0 ELSE total[k - 1] + old[k]
    BY <1>1 DEF AreTotals
  <2>2. \A k \in 0 .. n : total[k] \in Int
    BY <1>1, TotalsAreNumbers
  <2> DEFINE r == Lifted(total, d)
  <2>3. ASSUME NEW k \in 0 .. n
        PROVE  r[k] = IF k = 0 THEN 0 ELSE r[k - 1] + new[k]
    <3>1. CASE k = 0
      BY <2>1, <3>1
    <3>2. CASE k \in 1 .. n
      <4>1. k - 1 \in 0 .. n /\ total[k - 1] \in Int /\ old[k] \in Int
        BY <1>1, <2>2, <3>2
      <4>2. total[k] = total[k - 1] + old[k]
        BY <2>1, <3>2
      <4>3. new[k] = IF k = at THEN old[k] + d ELSE old[k]
        BY <1>1, <3>2
      <4> QED
        BY <3>2, <4>1, <4>2, <4>3
    <3> QED
      BY <3>1, <3>2
  <2>4. r = [k \in 0 .. n |-> r[k]]
    OBVIOUS
  <2> HIDE DEF r
  <2>5. AreTotals(r, new, n)
    BY <2>3, <2>4 DEF AreTotals
  <2> QED
    BY <2>2, <2>5 DEF r
<1>2. \E total : AreTotals(total, more, n)
  <2>1. PICK total : AreTotals(total, term, n)
    BY DEF EndIn
  <2> HIDE DEF Lifted
  <2> QED
    BY <1>1, <2>1
<1>3. ASSUME NEW total, AreTotals(total, more, n)
      PROVE  total[n] = sum + by
  <2>1. PICK down \in Int : down = 0 - by
    OBVIOUS
  <2>2. /\ \A k \in 1 .. n : more[k] \in Int
        /\ \A k \in 1 .. n : term[k] = IF k = at THEN more[k] + down ELSE more[k]
    BY <2>1
  <2>3. AreTotals(Lifted(total, down), term, n) /\ total[n] \in Int
    <3> HIDE DEF Lifted
    <3> QED
      BY <1>1, <1>3, <2>2
  <2>4. Lifted(total, down)[n] = sum
    <3> HIDE DEF Lifted
    <3> QED
      BY <2>3 DEF EndIn
  <2> QED
    BY <2>1, <2>3, <2>4
<1> QED
  BY <1>2, <1>3 DEF EndIn

-----------------------------------------------------------------------------
(* Scores                                                                  *)

\* The scores of a session without the corrections are the totals of its turns.
Tallied(g) ==
  /\ \A p \in Seats : EndIn(Paid(g, p), Len(g.done), g.score[p] - g.corrected[p])
  /\ \A i \in DOMAIN g.done : g.done[i].score = Classic(g.done[i]) + PaidBonus(g.done[i])

LEMMA ScoreTypes ==
  ASSUME NEW g \in Sessions
  PROVE  g.score \in [Seats -> Nat] /\ g.corrected \in [Seats -> Int]
BY DEF Sessions

LEMMA SameTally ==
  ASSUME NEW g, Tallied(g), NEW h, h.done = g.done,
         \A p \in Seats : h.score[p] - h.corrected[p] = g.score[p] - g.corrected[p]
  PROVE  Tallied(h)
<1>1. \A p : Paid(h, p) = Paid(g, p)
  BY DEF Paid
<1> QED
  BY <1>1 DEF Tallied

LEMMA NothingToTally ==
  ASSUME NEW h, h.done = <<>>, \A p \in Seats : h.score[p] - h.corrected[p] = 0
  PROVE  Tallied(h)
BY NoTerms DEF Tallied

\* The players of the turns that are over have a seat in the roster.
LEMMA SpeakersAreSeated ==
  ASSUME NEW g, GameInv(g), NEW i \in 1 .. Len(g.done)
  PROVE  HasPlayer(g, g.done[i].player) /\ g.done[i].player \in Seats
<1>1. g \in Sessions /\ DOMAIN g.done = 1 .. Len(g.done) /\ Len(g.done) \in Nat
  BY DoneOf DEF GameInv
<1>2. g.started
  BY <1>1 DEF GameInv, PlayInv
<1>3. PICK n \in Nat \ {0} : n = Len(g.players)
  BY <1>1, <1>2, PlayersOf DEF GameInv, PlayInv, InOrder
<1>4. g.done[i].player = g.players[((i - 1) % n) + 1]
  BY <1>1, <1>2, <1>3 DEF GameInv, PlayInv, InOrder
<1>5. PICK k \in Int : k = (i - 1) % n
  OBVIOUS
<1>6. k + 1 \in 1 .. n
  BY <1>1, <1>3, <1>5
<1> QED
  BY <1>1, <1>3, <1>4, <1>5, <1>6, PlayersOf DEF HasPlayer, ToSet

LEMMA OverrideTallied ==
  ASSUME NEW g \in Sessions, Tallied(g), NEW p \in Seats, NEW delta \in Int
  PROVE  Tallied(OverrideScore(g, p, delta))
<1> DEFINE h == OverrideScore(g, p, delta)
<1>1. PICK floored \in Nat : floored = IF g.score[p] + delta < 0 THEN 0 ELSE g.score[p] + delta
  BY ScoreTypes
<1>2. h = [g EXCEPT !.score[p] = floored, !.corrected[p] = g.corrected[p] + floored - g.score[p]]
  BY <1>1 DEF OverrideScore, Sessions
<1>3. h.done = g.done /\ h.score = [g.score EXCEPT ![p] = floored]
      /\ h.corrected = [g.corrected EXCEPT ![p] = g.corrected[p] + floored - g.score[p]]
  BY <1>2 DEF Sessions
<1> HIDE DEF h
<1>4. ASSUME NEW q \in Seats PROVE h.score[q] - h.corrected[q] = g.score[q] - g.corrected[q]
  BY <1>3, ScoreTypes
<1>5. Tallied(h)
  BY <1>3, <1>4, SameTally
<1> QED
  BY <1>5 DEF h

LEMMA ReconciledTallied ==
  ASSUME NEW g, GameInv(g), Tallied(g)
  PROVE  Tallied(ReconcilePendingAI(g))
<1> DEFINE stands(turn) == IF turn.ai = "pending"
                           THEN [turn EXCEPT !.score = Classic(turn), !.ai = "failed", !.bonus = 0]
                           ELSE turn
           done == [i \in DOMAIN g.done |-> stands(g.done[i])]
           h == ReconcilePendingAI(g)
<1>1. g \in Sessions /\ DOMAIN g.done = 1 .. Len(g.done) /\ Len(g.done) \in Nat
      /\ \A i \in 1 .. Len(g.done) : g.done[i] \in TurnRecords
  BY DoneOf DEF GameInv
<1>2. h = [g EXCEPT !.done = done]
  BY DEF ReconcilePendingAI
<1>3. ASSUME NEW turn \in TurnRecords, turn.score = Classic(turn) + PaidBonus(turn)
      PROVE  /\ stands(turn).player = turn.player /\ stands(turn).score = turn.score
             /\ stands(turn).score = Classic(stands(turn)) + PaidBonus(stands(turn))
  <2>1. PICK classic \in Nat : classic = Classic(turn)
    BY Limits DEF Classic, TurnRecords
  <2>2. CASE turn.ai = "pending"
    <3>1. stands(turn) = [turn EXCEPT !.score = classic, !.ai = "failed", !.bonus = 0]
      BY <2>1, <2>2
    <3>2. stands(turn) \in TurnRecords /\ stands(turn).spoken = turn.spoken
          /\ stands(turn).completed = turn.completed /\ stands(turn).score = classic
          /\ stands(turn).ai = "failed" /\ stands(turn).player = turn.player
      BY <3>1 DEF TurnRecords
    <3> HIDE DEF stands
    <3>3. Classic(stands(turn)) = classic
      BY <2>1, <3>2 DEF Classic
    <3> QED
      BY <1>3, <2>1, <2>2, <3>2, <3>3 DEF PaidBonus
  <2>3. CASE turn.ai # "pending"
    BY <1>3, <2>3
  <2> QED
    BY <2>2, <2>3
<1> HIDE DEF stands
<1>4. Len(done) = Len(g.done) /\ DOMAIN done = DOMAIN g.done
      /\ \A i \in DOMAIN g.done : done[i] = stands(g.done[i])
  BY <1>1
<1> HIDE DEF done
<1>5. h.done = done /\ h.score = g.score /\ h.corrected = g.corrected
  BY <1>1, <1>2 DEF Sessions
<1> HIDE DEF h
<1>6. \A i \in DOMAIN g.done : g.done[i].score = Classic(g.done[i]) + PaidBonus(g.done[i])
  BY DEF Tallied
<1>7. ASSUME NEW p PROVE Paid(h, p) = Paid(g, p)
  BY <1>1, <1>3, <1>4, <1>5, <1>6 DEF Paid
<1>8. \A i \in DOMAIN h.done : h.done[i].score = Classic(h.done[i]) + PaidBonus(h.done[i])
  BY <1>1, <1>3, <1>4, <1>5, <1>6
<1>9. Tallied(h)
  BY <1>4, <1>5, <1>7, <1>8 DEF Tallied
<1> QED
  BY <1>9 DEF h

LEMMA PaidScores ==
  ASSUME NEW g \in Sessions, NEW p \in Seats, HasPlayer(g, p), NEW points \in Nat,
         NEW h, h = Pay(g, p, points)
  PROVE  /\ h \in Sessions /\ h.done = g.done /\ Rescored(g, h) /\ h.corrected = g.corrected
         /\ \A q \in Seats : h.score[q] = IF q = p THEN g.score[q] + points ELSE g.score[q]
<1>1. PICK total \in Nat : total = g.score[p] + points
  BY ScoreTypes
<1>2. h = [g EXCEPT !.score[p] = total]
  BY <1>1 DEF Pay
<1>3. h.score = [g.score EXCEPT ![p] = total] /\ h.corrected = g.corrected
  BY <1>2 DEF Sessions
<1>4. h \in Sessions /\ h.done = g.done /\ Rescored(g, h)
  BY PayKeeps
<1> QED
  BY <1>1, <1>3, <1>4, ScoreTypes

\* A turn that ends is paid its classic score.
LEMMA EndedScore ==
  ASSUME NEW g \in Sessions, g.active.ai = "none", NEW spoken \in Int, NEW completed \in BOOLEAN,
         NEW turn, turn = EndedTurn(g, spoken, completed)
  PROVE  turn.score = Classic(turn) + PaidBonus(turn) /\ turn.score \in Nat
<1>1. g.active \in TurnRecords
  BY DEF Sessions
<1>2. PICK s \in 0 .. Duration : s = Clamped(spoken)
  BY Limits DEF Clamped
<1>3. PICK c \in BOOLEAN : c = (completed /\ s >= Duration)
  OBVIOUS
<1>4. PICK timed : timed = [g.active EXCEPT !.spoken = s, !.completed = c]
  OBVIOUS
<1>5. timed \in TurnRecords /\ timed.ai = "none"
  BY <1>1, <1>2, <1>3, <1>4 DEF TurnRecords
<1>6. PICK score \in Nat : score = Classic(timed)
  BY <1>5, Limits DEF Classic, TurnRecords
<1>7. turn = [timed EXCEPT !.score = score]
  BY <1>2, <1>3, <1>4, <1>6 DEF EndedTurn
<1>8. turn.score = score /\ turn.spoken = timed.spoken /\ turn.completed = timed.completed
      /\ turn.ai = "none"
  BY <1>5, <1>7 DEF TurnRecords
<1>9. Classic(turn) = score
  BY <1>6, <1>8 DEF Classic
<1> QED
  BY <1>6, <1>8, <1>9 DEF PaidBonus

LEMMA SubmitTallied ==
  ASSUME NEW g, GameInv(g), Tallied(g), g.active # NoTurn, NEW spoken \in Int,
         NEW completed \in BOOLEAN, NEW eliminated \in BOOLEAN
  PROVE  Tallied(SubmitTurn(g, spoken, completed, eliminated))
<1> DEFINE h == SubmitTurn(g, spoken, completed, eliminated)
<1>1. g \in Sessions /\ g.started /\ g.active.ai = "none" /\ g.current < Len(g.players)
      /\ g.active.player = g.players[g.current + 1]
  BY DEF GameInv, PlayInv, InOrder, IdsInv, RosterInv
<1>2. PICK c \in BOOLEAN : c = (completed /\ ~eliminated)
  OBVIOUS
<1>3. PICK turn : turn = EndedTurn(g, spoken, c)
  OBVIOUS
<1>4. turn \in TurnRecords /\ turn.player = g.active.player
      /\ turn.score = Classic(turn) + PaidBonus(turn) /\ turn.score \in Nat
  BY <1>1, <1>3, EndedType, EndedScore
<1>5. HasPlayer(g, turn.player) /\ turn.player \in Seats
  <2>1. g.current + 1 \in 1 .. Len(g.players)
    <3>1. g.current \in Nat
      BY <1>1 DEF Sessions
    <3>2. Len(g.players) \in Nat
      BY <1>1, PlayersOf
    <3> QED
      BY <1>1, <3>1, <3>2
  <2> QED
    BY <1>1, <1>4, <2>1, PlayersOf DEF HasPlayer, ToSet
<1>6. PICK paid : paid = Pay(g, turn.player, turn.score)
  OBVIOUS
<1>7. /\ paid \in Sessions /\ paid.done = g.done /\ Rescored(g, paid)
      /\ paid.corrected = g.corrected
      /\ \A q \in Seats :
           paid.score[q] = IF q = turn.player THEN g.score[q] + turn.score ELSE g.score[q]
  BY <1>1, <1>4, <1>5, <1>6, PaidScores
<1>8. h = Advance(Recorded(paid, turn))
  BY <1>2, <1>3, <1>6 DEF SubmitTurn
<1>9. h.done = Append(g.done, turn) /\ h.score = paid.score /\ h.corrected = g.corrected
  <2>1. PICK k : k = Recorded(paid, turn)
    OBVIOUS
  <2>2. k.done = Append(g.done, turn) /\ k.score = paid.score /\ k.corrected = g.corrected
        /\ k = [paid EXCEPT !.done = Append(g.done, turn), !.active = NoTurn]
    BY <1>7, <2>1 DEF Recorded, Sessions
  <2> HIDE DEF h
  <2>3. PICK current, round, finished :
          h = [k EXCEPT !.current = current, !.round = round, !.finished = finished]
    BY <1>8, <2>1 DEF Advance
  <2>4. h.done = k.done /\ h.score = k.score /\ h.corrected = k.corrected
    <3>1. DOMAIN k = DOMAIN paid
      BY <2>2
    <3>2. {"done", "score", "corrected"} \subseteq DOMAIN paid
      BY <1>7 DEF Sessions
    <3> QED
      BY <2>3, <3>1, <3>2
  <2> QED
    BY <2>2, <2>4
<1> HIDE DEF h
<1>10. PICK n \in Nat : n = Len(g.done)
  BY <1>1, DoneOf
<1>11. /\ DOMAIN g.done = 1 .. n /\ DOMAIN h.done = 1 .. n + 1 /\ Len(h.done) = n + 1
       /\ \A i \in 1 .. n : h.done[i] = g.done[i]
       /\ h.done[n + 1] = turn
  BY <1>1, <1>4, <1>9, <1>10, DoneOf, AppendProperties, LenProperties
<1>12. ASSUME NEW p \in Seats
       PROVE  EndIn(Paid(h, p), n + 1, h.score[p] - h.corrected[p])
  <2>1. PICK gain \in Nat : gain = IF turn.player = p THEN turn.score ELSE 0
    BY <1>4
  <2>2. /\ \A k \in 1 .. n : Paid(h, p)[k] = Paid(g, p)[k]
        /\ Paid(h, p)[n + 1] = gain
    BY <1>11, <2>1 DEF Paid
  <2>3. PICK sum \in Int : sum = g.score[p] - g.corrected[p]
    BY <1>1, ScoreTypes
  <2>4. EndIn(Paid(g, p), n, sum)
    BY <1>10, <2>3 DEF Tallied
  <2>5. EndIn(Paid(h, p), n + 1, sum + Paid(h, p)[n + 1])
    BY <2>2, <2>4, OneMoreTerm
  <2>6. h.score[p] - h.corrected[p] = sum + gain
    BY <1>1, <1>4, <1>7, <1>9, <2>1, <2>3, ScoreTypes
  <2> QED
    BY <2>2, <2>5, <2>6
<1>13. \A i \in DOMAIN h.done : h.done[i].score = Classic(h.done[i]) + PaidBonus(h.done[i])
  <2>1. \A i \in 1 .. n + 1 : i \in 1 .. n \/ i = n + 1
    OBVIOUS
  <2> QED
    BY <1>4, <1>11, <2>1 DEF Tallied
<1>14. Tallied(h)
  BY <1>11, <1>12, <1>13 DEF Tallied
<1> QED
  BY <1>14 DEF h

LEMMA MarkTallied ==
  ASSUME NEW g, GameInv(g), Tallied(g), NEW i \in 1 .. Len(g.done), NEW turn \in TurnRecords,
         turn.player = g.done[i].player, turn.score = g.done[i].score,
         turn.score = Classic(turn) + PaidBonus(turn)
  PROVE  Tallied(WithTurn(g, i, turn))
<1> DEFINE h == WithTurn(g, i, turn)
<1>1. g \in Sessions
  BY DEF GameInv
<1>2. h.done = [g.done EXCEPT ![i] = turn] /\ h.score = g.score /\ h.corrected = g.corrected
  BY <1>1 DEF WithTurn, Sessions
<1> HIDE DEF h
<1>3. /\ Len(h.done) = Len(g.done) /\ DOMAIN h.done = DOMAIN g.done /\ DOMAIN g.done = 1 .. Len(g.done)
      /\ \A j \in DOMAIN g.done : h.done[j] = IF j = i THEN turn ELSE g.done[j]
  BY <1>1, <1>2, DoneOf, ExceptSeq, LenProperties
<1>4. \A p : Paid(h, p) = Paid(g, p)
  BY <1>3 DEF Paid
<1>5. Tallied(h)
  BY <1>2, <1>3, <1>4 DEF Tallied
<1> QED
  BY <1>5 DEF h

LEMMA ResolveTallied ==
  ASSUME NEW g, GameInv(g), Tallied(g), NEW index \in Nat, NEW id \in Nat,
         NEW status \in {"done", "failed", "skipped"}, NEW bonus \in Nat
  PROVE  Tallied(ResolveTurnAI(g, index, id, status, bonus))
<1> DEFINE h == ResolveTurnAI(g, index, id, status, bonus)
<1>1. g \in Sessions
  BY DEF GameInv
<1>2. CASE ~IsPending(g, index, id)
  BY <1>2 DEF ResolveTurnAI
<1>3. CASE IsPending(g, index, id)
  <2>1. PICK n \in Nat : n = Len(g.done)
    BY <1>1, DoneOf
  <2>2. index \in 1 .. n /\ DOMAIN g.done = 1 .. n /\ g.done[index] \in TurnRecords
        /\ g.done[index].ai = "pending" /\ \A i \in 1 .. n : g.done[i] \in TurnRecords
    BY <1>1, <1>3, <2>1, DoneOf DEF IsPending
  <2>3. PICK points \in Nat : points = Points(status, bonus)
    BY DEF Points
  <2>4. PICK p : p = g.done[index].player
    OBVIOUS
  <2>5. HasPlayer(g, p) /\ p \in Seats
    BY <2>1, <2>2, <2>4, SpeakersAreSeated
  <2>6. PICK classic \in Nat : classic = Classic(g.done[index])
    BY <2>2, Limits DEF Classic, TurnRecords
  <2>7. g.done[index].score = classic
    BY <2>2, <2>6 DEF Tallied, PaidBonus
  <2>8. PICK total \in Nat : total = g.done[index].score + points
    BY <2>7
  <2>9. PICK turn : turn = Judged(g.done[index], status, points)
    OBVIOUS
  <2>10. /\ turn \in TurnRecords /\ turn.player = p /\ turn.score = total
         /\ turn.spoken = g.done[index].spoken /\ turn.completed = g.done[index].completed
         /\ turn.ai = status /\ turn.bonus = points
    BY <2>2, <2>4, <2>8, <2>9 DEF TurnRecords, Judged
  <2>11. turn.score = Classic(turn) + PaidBonus(turn)
    <3>1. Classic(turn) = classic
      BY <2>6, <2>10 DEF Classic
    <3>2. PaidBonus(turn) = points
      BY <2>3, <2>10 DEF PaidBonus, Points
    <3> QED
      BY <2>7, <2>8, <2>10, <3>1, <3>2
  <2>12. PICK paid : paid = Pay(g, p, points)
    OBVIOUS
  <2>13. /\ paid \in Sessions /\ paid.done = g.done /\ paid.corrected = g.corrected
         /\ \A q \in Seats : paid.score[q] = IF q = p THEN g.score[q] + points ELSE g.score[q]
    BY <1>1, <2>5, <2>12, PaidScores
  <2>14. h = WithTurn(paid, index, turn)
    BY <1>3, <2>3, <2>4, <2>9, <2>12, <2>13 DEF ResolveTurnAI
  <2>15. /\ h.done = [g.done EXCEPT ![index] = turn] /\ h.score = paid.score
         /\ h.corrected = g.corrected
    BY <2>13, <2>14 DEF WithTurn, Sessions
  <2> HIDE DEF h
  <2>16. /\ Len(h.done) = n /\ DOMAIN h.done = 1 .. n
         /\ \A j \in 1 .. n : h.done[j] = IF j = index THEN turn ELSE g.done[j]
    BY <1>1, <2>1, <2>2, <2>10, <2>15, DoneOf, ExceptSeq, LenProperties
  <2>17. ASSUME NEW q \in Seats
         PROVE  EndIn(Paid(h, q), n, h.score[q] - h.corrected[q])
    <3>1. PICK by \in Nat : by = IF q = p THEN points ELSE 0
      OBVIOUS
    <3>2. \A k \in 1 .. n : Paid(g, q)[k] \in Int
      <4>1. \A k \in 1 .. n : g.done[k].score \in Nat
        BY <2>2 DEF TurnRecords
      <4> QED
        BY <2>2, <4>1 DEF Paid
    <3>3. \A k \in 1 .. n :
            Paid(h, q)[k] = IF k = index THEN Paid(g, q)[k] + by ELSE Paid(g, q)[k]
      BY <2>2, <2>4, <2>7, <2>8, <2>10, <2>16, <3>1 DEF Paid
    <3>4. PICK sum \in Int : sum = g.score[q] - g.corrected[q]
      BY <1>1, ScoreTypes
    <3>5. EndIn(Paid(g, q), n, sum)
      BY <2>1, <3>4 DEF Tallied
    <3>6. EndIn(Paid(h, q), n, sum + by)
      <4>1. PICK old, new : old = Paid(g, q) /\ new = Paid(h, q)
        OBVIOUS
      <4>2. index \in 1 .. n /\ EndIn(old, n, sum) /\ \A k \in 1 .. n : old[k] \in Int
        BY <2>2, <3>2, <3>5, <4>1
      <4>3. \A k \in 1 .. n : new[k] = IF k = index THEN old[k] + by ELSE old[k]
        BY <3>3, <4>1
      <4>4. EndIn(new, n, sum + by)
        BY <4>2, <4>3, RaisedTerm
      <4> QED
        BY <4>1, <4>4
    <3>7. h.score[q] - h.corrected[q] = sum + by
      BY <1>1, <2>13, <2>15, <3>1, <3>4, ScoreTypes
    <3> QED
      BY <3>6, <3>7
  <2>18. \A i \in DOMAIN h.done : h.done[i].score = Classic(h.done[i]) + PaidBonus(h.done[i])
    BY <2>2, <2>11, <2>16 DEF Tallied
  <2>19. Tallied(h)
    BY <2>16, <2>17, <2>18 DEF Tallied
  <2> QED
    BY <2>19 DEF h
<1> QED
  BY <1>2, <1>3

\* The session of the room and that of the snapshot are tallied.
ScoresInv ==
  /\ ~room.gone => Tallied(room.game)
  /\ ~saved.gone => Tallied(saved.game)

LEMMA InRoom ==
  ASSUME RoomInv, ScoresInv, ~room.gone
  PROVE  /\ room \in Rooms /\ GameInv(room.game) /\ room.game \in Sessions /\ Tallied(room.game)
         /\ "game" \in DOMAIN room
<1>1. room \in Rooms
  BY OfRoom
<1> QED
  BY <1>1, OfRoom DEF ScoresInv, Rooms

\* A request leaves the snapshot alone, and the room with the session it was given.
LEMMA TalliedStep ==
  ASSUME RoomInv, ScoresInv, ~room.gone, UNCHANGED saved, NEW t \in Tokens, NEW h, Tallied(h),
         \/ MutateGame(t, h)
         \/ Mutate(t, Invalidated([room EXCEPT !.game = h]))
         \/ Mutate(t, StopClock([room EXCEPT !.game = h]))
         \/ Mutate(t, StopClock(Invalidated([room EXCEPT !.game = h])))
  PROVE  ScoresInv'
<1>1. room'.game = h
  BY InRoom DEF MutateGame, Mutate, Invalidated, StopClock, Rooms
<1> QED
  BY <1>1 DEF ScoresInv

LEMMA SameGameTallied ==
  ASSUME ScoresInv, room'.gone \/ (~room.gone /\ room'.game = room.game), UNCHANGED saved
  PROVE  ScoresInv'
BY DEF ScoresInv

\* Before the start nothing is played, and no seat has a score but the host's corrections.
LEMMA SetupTallied ==
  ASSUME NEW g, GameInv(g), ~g.started, Tallied(g), NEW h, h.done = g.done,
         \A p \in Seats : \/ h.score[p] - h.corrected[p] = g.score[p] - g.corrected[p]
                          \/ h.score[p] = 0 /\ h.corrected[p] = 0
  PROVE  Tallied(h)
<1>1. g.done = <<>> /\ g \in Sessions
  BY DEF GameInv, PlayInv
<1>2. ASSUME NEW p \in Seats PROVE g.score[p] - g.corrected[p] = 0
  <2>1. EndIn(Paid(g, p), 0, g.score[p] - g.corrected[p])
    BY <1>1 DEF Tallied
  <2>2. EndIn(Paid(g, p), 0, 0)
    BY NoTerms
  <2> QED
    BY <2>1, <2>2 DEF EndIn
<1>3. \A p \in Seats : h.score[p] - h.corrected[p] = 0
  BY <1>2
<1> QED
  BY <1>1, <1>3, NothingToTally

LEMMA RosterTallied ==
  ASSUME NEW g, GameInv(g), ~g.started, Tallied(g)
  PROVE  /\ Tallied(AddPlayer(g))
         /\ \A p \in Seats : Tallied(RemovePlayer(g, p))
         /\ \A p \in Seats, offset \in {-1, 1} : Tallied(MovePlayer(g, p, offset))
         /\ Tallied(SetTopics(g))
         /\ \A ai, rounds : Tallied(Configured(g, ai, rounds))
<1>1. g \in Sessions /\ g.score \in [Seats -> Nat] /\ g.corrected \in [Seats -> Int]
  BY ScoreTypes DEF GameInv
<1>2. Tallied(AddPlayer(g))
  <2>1. PICK h : h = AddPlayer(g)
    OBVIOUS
  <2>2. h.done = g.done /\ h.score = g.score /\ h.corrected = g.corrected
    BY <1>1, <2>1 DEF AddPlayer, Sessions
  <2> QED
    BY <2>1, <2>2, SameTally
<1>3. ASSUME NEW p \in Seats PROVE Tallied(RemovePlayer(g, p))
  <2>1. CASE ~HasPlayer(g, p)
    BY <2>1 DEF RemovePlayer
  <2>2. CASE HasPlayer(g, p)
    <3>1. PICK h : h = RemovePlayer(g, p)
      OBVIOUS
    <3>2. PICK players, active, current :
            h = [g EXCEPT !.players = players, !.active = active, !.current = current,
                   !.score[p] = 0, !.corrected[p] = 0]
      BY <2>2, <3>1 DEF RemovePlayer
    <3>3. /\ h.done = g.done /\ h.score = [g.score EXCEPT ![p] = 0]
          /\ h.corrected = [g.corrected EXCEPT ![p] = 0]
      BY <1>1, <3>2 DEF Sessions
    <3>4. \A q \in Seats : \/ h.score[q] - h.corrected[q] = g.score[q] - g.corrected[q]
                           \/ h.score[q] = 0 /\ h.corrected[q] = 0
      BY <1>1, <3>3
    <3> QED
      BY <3>1, <3>3, <3>4, SetupTallied
  <2> QED
    BY <2>1, <2>2
<1>4. ASSUME NEW p \in Seats, NEW offset \in {-1, 1} PROVE Tallied(MovePlayer(g, p, offset))
  <2>1. PICK h : h = MovePlayer(g, p, offset)
    OBVIOUS
  <2>2. h = g \/ \E players, current : h = [g EXCEPT !.players = players, !.current = current]
    BY <2>1 DEF MovePlayer
  <2>3. h.done = g.done /\ h.score = g.score /\ h.corrected = g.corrected
    BY <1>1, <2>2 DEF Sessions
  <2> QED
    BY <2>1, <2>3, SameTally
<1>5. ASSUME NEW h, NEW ai, NEW rounds, h = SetTopics(g) \/ h = Configured(g, ai, rounds)
      PROVE  Tallied(h)
  <2>1. h.done = g.done /\ h.score = g.score /\ h.corrected = g.corrected
    BY <1>1, <1>5 DEF SetTopics, Configured, Sessions
  <2> QED
    BY <2>1, SameTally
<1> QED
  BY <1>2, <1>3, <1>4, <1>5

LEMMA ClearedTallied ==
  ASSUME NEW g \in Sessions
  PROVE  Tallied(Start(g)) /\ Tallied(ResetForNewGame(g))
<1>1. ASSUME NEW h, h = Start(g) \/ h = ResetForNewGame(g) PROVE Tallied(h)
  <2>1. h.done = <<>> /\ h.score = [p \in Seats |-> 0] /\ h.corrected = [p \in Seats |-> 0]
    BY <1>1 DEF Start, ResetForNewGame, ClearedPlay, Sessions
  <2> QED
    BY <2>1, NothingToTally
<1> QED
  BY <1>1

LEMMA TurnTallied ==
  ASSUME NEW g \in Sessions, Tallied(g), NEW birth
  PROVE  Tallied(StartTurn(g, birth)) /\ Tallied(RedrawActiveTurn(g, birth))
<1>1. ASSUME NEW h, h = StartTurn(g, birth) \/ h = RedrawActiveTurn(g, birth) PROVE Tallied(h)
  <2>1. h = g \/ \E active, next : h = [g EXCEPT !.nextTurn = next, !.active = active]
    <3>1. CASE h = StartTurn(g, birth)
      BY <3>1 DEF StartTurn, TakeId
    <3>2. CASE h = RedrawActiveTurn(g, birth)
      <4>1. PICK turn : turn = [g.active EXCEPT !.id = RepairedNext(g), !.birth = birth]
        OBVIOUS
      <4>2. h = [g EXCEPT !.nextTurn = RepairedNext(g) + 1, !.active = turn]
        BY <3>2, <4>1 DEF RedrawActiveTurn, TakeId, Sessions
      <4> QED
        BY <4>2
    <3> QED
      BY <1>1, <3>1, <3>2
  <2>2. h.done = g.done /\ h.score = g.score /\ h.corrected = g.corrected
    BY <2>1 DEF Sessions
  <2> QED
    BY <2>2, SameTally
<1> QED
  BY <1>1

LEMMA SetupStep ==
  ASSUME RoomInv, ScoresInv, NEW t \in Tokens, Setup(t)
  PROVE  ScoresInv'
<1>0. CASE LookMember(t) \/ (JoinRoom(t) /\ room' = room)
  BY <1>0 DEF LookMember, JoinRoom, ScoresInv
<1>a. SUFFICES ASSUME ~LookMember(t), ~(JoinRoom(t) /\ room' = room) PROVE ScoresInv'
  BY <1>0
<1>1. ~room.gone /\ UNCHANGED saved
  BY <1>a DEF Setup, JoinRoom, Leave, HostAddsPlayer, HostRemovesPlayer, HostMovesPlayer,
         ChangeSettings, CustomTopics, BeginTopicGeneration, HostInSetup, Request, Others
<1>2. room \in Rooms /\ GameInv(room.game) /\ Tallied(room.game)
  BY <1>1, InRoom
<1>3. CASE JoinRoom(t)
  <2>1. ~room.game.started /\ room'.game = AddPlayer(room.game)
    BY <1>2, <1>3, <1>a DEF JoinRoom, Game, Rooms
  <2> QED
    BY <1>1, <1>2, <2>1, RosterTallied DEF ScoresInv
<1>4. ASSUME NEW p \in Seats, ~room.game.started,
             room'.game = RemovePlayer(room.game, p)
      PROVE  ScoresInv'
  BY <1>1, <1>2, <1>4, RosterTallied DEF ScoresInv
<1>5. CASE Leave(t)
  <2>1. ~room.game.started /\ room'.game = RemovePlayer(room.game, Seat(t))
    BY <1>2, <1>5 DEF Leave, Game, Mutate, Rooms
  <2>2. Seat(t) \in Seats
    BY <1>2, <1>5 DEF Leave, Seat, Rooms
  <2> QED
    BY <1>4, <2>1, <2>2
<1>6. CASE HostAddsPlayer(t)
  <2>1. PICK h \in {room.game, AddPlayer(room.game)} : MutateGame(t, h)
    BY <1>6 DEF HostAddsPlayer, Game
  <2>2. ~room.game.started
    BY <1>6 DEF HostAddsPlayer, HostInSetup, Game
  <2> QED
    BY <1>1, <1>2, <2>1, <2>2, RosterTallied, TalliedStep
<1>7. ASSUME NEW p \in Seats, HostRemovesPlayer(t, p) PROVE ScoresInv'
  <2>1. ~room.game.started /\ room'.game = RemovePlayer(room.game, p)
    BY <1>2, <1>7 DEF HostRemovesPlayer, HostInSetup, UnbindPlayer, Game, Mutate, Rooms
  <2> QED
    BY <1>4, <2>1
<1>8. ASSUME NEW p \in Seats, NEW offset \in {-1, 1}, HostMovesPlayer(t, p, offset)
      PROVE  ScoresInv'
  <2>1. ~room.game.started /\ MutateGame(t, MovePlayer(room.game, p, offset))
    BY <1>8 DEF HostMovesPlayer, HostInSetup, Game
  <2>2. Tallied(MovePlayer(room.game, p, offset))
    BY <1>2, <2>1, RosterTallied
  <2> QED
    BY <1>1, <2>1, <2>2, TalliedStep
<1>9. ASSUME NEW ai, NEW rounds, ChangeSettings(t, ai, rounds) PROVE ScoresInv'
  <2>1. ~room.game.started
        /\ Mutate(t, Invalidated([room EXCEPT !.game = Configured(room.game, ai, rounds)]))
    BY <1>9 DEF ChangeSettings, HostInSetup, Game
  <2>2. Tallied(Configured(room.game, ai, rounds))
    BY <1>2, <2>1, RosterTallied
  <2> QED
    BY <1>1, <2>1, <2>2, TalliedStep
<1>10. CASE CustomTopics(t)
  <2>1. ~room.game.started
        /\ Mutate(t, Invalidated([room EXCEPT !.game = SetTopics(room.game)]))
    BY <1>10 DEF CustomTopics, HostInSetup, Game
  <2>2. Tallied(SetTopics(room.game))
    BY <1>2, <2>1, RosterTallied
  <2> QED
    BY <1>1, <2>1, <2>2, TalliedStep
<1>11. CASE BeginTopicGeneration(t)
  <2>1. room'.game = room.game
    BY <1>2, <1>11 DEF BeginTopicGeneration, Rooms
  <2> QED
    BY <1>1, <2>1, SameGameTallied
<1> QED
  BY <1>a, <1>3, <1>5, <1>6, <1>7, <1>8, <1>9, <1>10, <1>11 DEF Setup

\* What a turn is submitted with, and what the judge makes of it at once, keeps the tally.
LEMMA SubmitResultStep ==
  ASSUME RoomInv, ScoresInv, NEW t \in Tokens, NEW id, NEW claim \in Int,
         NEW completes \in BOOLEAN, NEW eliminated \in BOOLEAN, NEW judged \in BOOLEAN,
         SubmitResult(t, id, claim, completes, eliminated, judged)
  PROVE  ScoresInv'
<1>1. ~room.gone /\ UNCHANGED saved /\ MayAct(t, id)
  BY DEF SubmitResult, Request
<1>2. room \in Rooms /\ GameInv(room.game) /\ Tallied(room.game) /\ room.game \in Sessions
  BY <1>1, InRoom
<1>3. room.game.active # NoTurn
  BY <1>1, NoTurnType DEF MayAct, Game
<1>4. PICK g : g = Submitted(t, claim, completes, eliminated)
  OBVIOUS
<1>5. TurnEnded(room.game, g) /\ Tallied(g)
  <2>1. PICK spoken \in Int, done \in BOOLEAN, out \in BOOLEAN :
          g = SubmitTurn(room.game, spoken, done, out)
    <3>1. Duration \in Int
      BY Limits
    <3>2. Spoken(t, claim) \in Int
      BY <1>1, <1>2, SpokenType
    <3>3. PICK d \in BOOLEAN : d = (IsHost(t) /\ completes)
      OBVIOUS
    <3>4. \/ g = SubmitTurn(room.game, Duration, TRUE, FALSE)
          \/ g = SubmitTurn(room.game, Spoken(t, claim), IsHost(t) /\ completes, eliminated)
      BY <1>4 DEF Submitted, Game
    <3> QED
      BY <3>1, <3>2, <3>3, <3>4
  <2> QED
    BY <1>2, <1>3, <2>1, SubmitKeeps, SubmitTallied
<1>6. PICK n \in Nat : n = Len(g.done)
  BY <1>5, DoneOf DEF TurnEnded, GameInv
<1>7. /\ n \in 1 .. Len(g.done) /\ Last(g.done) = g.done[n] /\ g.done[n] \in TurnRecords
      /\ g.done[n].ai = "none" /\ g.done[n].score = Classic(g.done[n]) + PaidBonus(g.done[n])
      /\ GameInv(g)
  <2>1. PICK turn \in TurnRecords : g.done = Append(room.game.done, turn) /\ turn.ai = "none"
    BY <1>5 DEF TurnEnded
  <2>2. /\ Len(g.done) = Len(room.game.done) + 1 /\ g.done[Len(g.done)] = turn
        /\ Len(room.game.done) \in Nat /\ DOMAIN g.done = 1 .. Len(g.done)
    BY <1>2, <2>1, DoneOf, AppendProperties, LenProperties
  <2>3. n \in 1 .. Len(g.done) /\ g.done[n] = turn /\ n \in DOMAIN g.done
    BY <1>6, <2>2
  <2> QED
    BY <1>5, <1>6, <2>1, <2>3 DEF Last, TurnEnded, Tallied
<1>8. Tallied(MarkTurnAIPending(g)) /\ GameInv(MarkTurnAIPending(g))
  <2>1. PICK turn : turn = [g.done[n] EXCEPT !.ai = "pending"]
    OBVIOUS
  <2>2. /\ turn \in TurnRecords /\ turn.id = g.done[n].id /\ turn.birth = g.done[n].birth
        /\ turn.player = g.done[n].player /\ turn.score = g.done[n].score
        /\ turn.spoken = g.done[n].spoken /\ turn.completed = g.done[n].completed
        /\ turn.ai = "pending"
    BY <1>7, <2>1 DEF TurnRecords
  <2>3. turn.score = Classic(turn) + PaidBonus(turn)
    BY <1>7, <2>2 DEF Classic, PaidBonus
  <2>4. MarkTurnAIPending(g) = WithTurn(g, n, turn)
    BY <1>6, <1>7, <2>1 DEF MarkTurnAIPending
  <2> QED
    BY <1>5, <1>7, <2>2, <2>3, <2>4, MarkTallied, MarkKeeps
<1>9. Tallied(ResolveTurnAI(MarkTurnAIPending(g), Len(g.done), Last(g.done).id, "skipped", 0))
  <2>1. Len(g.done) \in Nat /\ Last(g.done).id \in Nat
    BY <1>6, <1>7 DEF TurnRecords
  <2>2. PICK status \in {"done", "failed", "skipped"}, bonus \in Nat : status = "skipped" /\ bonus = 0
    OBVIOUS
  <2> QED
    BY <1>8, <2>1, <2>2, ResolveTallied
<1>10. \E h : Tallied(h) /\ Mutate(t, StopClock([room EXCEPT !.game = h]))
  BY <1>4, <1>5, <1>8, <1>9 DEF SubmitResult, AfterSubmit
<1> QED
  BY <1>1, <1>10, TalliedStep

LEMMA PlayStep ==
  ASSUME RoomInv, ScoresInv, NEW t \in Tokens, Play(t)
  PROVE  ScoresInv'
<1>1. ~room.gone /\ UNCHANGED saved
  <2>1. ASSUME NEW id, NEW claim, NEW completes, NEW eliminated, NEW judged,
               SubmitResult(t, id, claim, completes, eliminated, judged)
        PROVE  ~room.gone /\ UNCHANGED saved
    BY <2>1 DEF SubmitResult, Request
  <2>2. ASSUME NEW p, NEW delta, ScoreOverride(t, p, delta) PROVE ~room.gone /\ UNCHANGED saved
    BY <2>2 DEF ScoreOverride, Request, Others
  <2>3. ASSUME NEW id, BeginTurn(t, id) \/ RedrawTurn(t, id)
        PROVE  ~room.gone /\ UNCHANGED saved
    BY <2>3 DEF BeginTurn, RedrawTurn, Request, Others
  <2>4. ASSUME NEW after, StartNextTurn(t, after) PROVE ~room.gone /\ UNCHANGED saved
    BY <2>4 DEF StartNextTurn, Request, Others
  <2>5. ASSUME StartGame(t) \/ ResetGame(t) PROVE ~room.gone /\ UNCHANGED saved
    BY <2>5 DEF StartGame, ResetGame, Request, Others
  <2> QED
    BY <2>1, <2>2, <2>3, <2>4, <2>5 DEF Play
<1>2. room \in Rooms /\ GameInv(room.game) /\ Tallied(room.game) /\ room.game \in Sessions
  BY <1>1, InRoom
<1>3. room = [room EXCEPT !.game = room.game]
  BY <1>2 DEF Rooms
<1>4. CASE StartGame(t)
  <2>1. CASE Mutate(t, room) \/ Mutate(t, Invalidated(room))
    <3>1. \/ MutateGame(t, room.game)
          \/ Mutate(t, Invalidated([room EXCEPT !.game = room.game]))
      <4>1. [room EXCEPT !.game = room.game] = room
        BY <1>3
      <4> QED
        BY <2>1, <4>1 DEF MutateGame
    <3> QED
      BY <1>1, <1>2, <3>1, TalliedStep
  <2>2. CASE ~(Mutate(t, room) \/ Mutate(t, Invalidated(room)))
    <3>1. PICK g : g = Start(room.game)
      OBVIOUS
    <3>2. /\ CanStart(room.game)
          /\ Mutate(t, StopClock(Invalidated([room EXCEPT !.game = StartTurn(g, births + 1)])))
      BY <1>4, <2>2, <3>1 DEF StartGame, Game
    <3>3. g \in Sessions /\ Tallied(g)
      BY <1>2, <3>1, <3>2, StartKeeps, ClearedTallied DEF GameInv
    <3>4. Tallied(StartTurn(g, births + 1))
      BY <3>3, TurnTallied
    <3> QED
      BY <1>1, <3>2, <3>4, TalliedStep
  <2> QED
    BY <2>1, <2>2
<1>5. CASE ResetGame(t)
  BY <1>1, <1>2, <1>5, ClearedTallied, TalliedStep DEF ResetGame, Game
<1>6. ASSUME NEW after, StartNextTurn(t, after) PROVE ScoresInv'
  <2>1. CASE Mutate(t, room)
    <3>1. MutateGame(t, room.game)
      BY <1>3, <2>1 DEF MutateGame
    <3> QED
      BY <1>1, <1>2, <3>1, TalliedStep
  <2>2. CASE ~Mutate(t, room)
    <3>1. Mutate(t, StopClock([room EXCEPT !.game = StartTurn(room.game, births + 1)]))
      BY <1>6, <2>2 DEF StartNextTurn, Game
    <3>2. Tallied(StartTurn(room.game, births + 1))
      BY <1>2, TurnTallied
    <3> QED
      BY <1>1, <3>1, <3>2, TalliedStep
  <2> QED
    BY <2>1, <2>2
<1>7. ASSUME NEW id, BeginTurn(t, id) \/ RedrawTurn(t, id) PROVE ScoresInv'
  <2>1. CASE BeginTurn(t, id)
    <3>1. room'.game = room.game
      BY <1>2, <2>1 DEF BeginTurn, Mutate, Rooms
    <3> QED
      BY <1>1, <3>1, SameGameTallied
  <2>2. CASE RedrawTurn(t, id)
    BY <1>1, <1>2, <2>2, TurnTallied, TalliedStep DEF RedrawTurn, Game
  <2> QED
    BY <1>7, <2>1, <2>2
<1>8. ASSUME NEW id, NEW claim \in -1 .. scope.claims, NEW completes \in BOOLEAN,
             NEW eliminated \in BOOLEAN, NEW judged \in BOOLEAN,
             SubmitResult(t, id, claim, completes, eliminated, judged)
      PROVE  ScoresInv'
  <2>1. claim \in Int
    OBVIOUS
  <2> QED
    BY <1>8, <2>1, SubmitResultStep
<1>9. ASSUME NEW p \in Seats, NEW delta \in {-2, 2}, ScoreOverride(t, p, delta) PROVE ScoresInv'
  <2>1. delta \in Int
    OBVIOUS
  <2>2. Tallied(OverrideScore(room.game, p, delta))
    BY <1>2, <2>1, OverrideTallied
  <2> QED
    BY <1>1, <1>9, <2>2, TalliedStep DEF ScoreOverride, Game
<1> QED
  BY <1>4, <1>5, <1>6, <1>7, <1>8, <1>9 DEF Play

LEMMA GradeTurnStep ==
  ASSUME RoomInv, ScoresInv, NEW grader \in graders, NEW status \in {"done", "failed"},
         NEW bonus \in Nat, GradeTurn(grader, status, bonus)
  PROVE  ScoresInv'
<1>1. UNCHANGED saved
  BY DEF GradeTurn
<1>2. CASE room.gone
  BY <1>2, SameGameTallied DEF GradeTurn
<1>3. CASE ~room.gone
  <2>1. room \in Rooms /\ GameInv(room.game) /\ Tallied(room.game)
    BY <1>3, InRoom
  <2>2. grader.index \in Nat /\ grader.id \in Nat
    BY DEF RoomInv, TypeOK
  <2>3. room'.game = ResolveTurnAI(room.game, grader.index, grader.id, status, bonus)
    BY <1>3, <2>1 DEF GradeTurn, Rooms
  <2> QED
    BY <1>1, <2>1, <2>2, <2>3, ResolveTallied DEF ScoresInv
<1> QED
  BY <1>2, <1>3

LEMMA TimeStep ==
  ASSUME RoomInv, ScoresInv, RenderRoomState \/ Tick \/ Expire \/ SaveTo \/ Restart
  PROVE  ScoresInv'
<1>1. CASE RenderRoomState
  BY <1>1 DEF RenderRoomState, ScoresInv
<1>2. CASE Tick
  <2>1. room' = room \/ (~room.gone /\ room'.gone = room.gone /\ room'.game = room.game)
    BY <1>2, InRoom DEF Tick, Rooms
  <2>2. saved' = saved \/ (~saved.gone /\ saved'.game = saved.game)
    <3>1. saved.gone \/ saved \in Snapshots
      BY DEF RoomInv, TypeOK, NoRoom
    <3> QED
      BY <1>2, <3>1 DEF Tick, Snapshots
  <2> QED
    BY <2>1, <2>2 DEF ScoresInv
<1>3. CASE Expire
  BY <1>3, SameGameTallied DEF Expire, NoRoom
<1>4. CASE SaveTo
  BY <1>4 DEF SaveTo, NoRoom, ScoresInv
<1>5. CASE Restart
  <2>1. UNCHANGED saved
    BY <1>5 DEF Restart
  <2>2. CASE saved.gone \/ saved.idle > IdleTTL
    BY <1>5, <2>1, <2>2 DEF Restart, LoadFrom, NoRoom, ScoresInv
  <2>3. CASE ~saved.gone /\ ~(saved.idle > IdleTTL)
    <3>1. room'.game = ReconcilePendingAI(saved.game)
      BY <1>5, <2>3 DEF Restart, LoadFrom
    <3>2. Tallied(ReconcilePendingAI(saved.game))
      BY <2>3, ReconciledTallied DEF RoomInv, ScoresInv
    <3> QED
      BY <2>1, <3>1, <3>2 DEF ScoresInv
  <2> QED
    BY <2>2, <2>3
<1> QED
  BY <1>1, <1>2, <1>3, <1>4, <1>5

LEMMA ScoresStep ==
  ASSUME RoomInv, ScoresInv, [Next]_vars
  PROVE  ScoresInv'
<1>1. ASSUME NEW t \in Tokens, Visit(t) \/ Subscribe(t) \/ Unsubscribe(t) \/ ClaimHost(t)
      PROVE  ScoresInv'
  <2>1. UNCHANGED saved
    BY <1>1 DEF Visit, Subscribe, Unsubscribe, ClaimHost, Others
  <2>2. room' = room \/ (~room.gone /\ room'.game = room.game)
    BY <1>1, InRoom DEF Visit, Subscribe, Unsubscribe, ClaimHost, NewHost, Request, Rooms
  <2> QED
    BY <2>1, <2>2 DEF ScoresInv
<1>2. ASSUME NEW t \in Tokens, NEW to \in Tokens, TransferHost(t, to) PROVE ScoresInv'
  <2>1. UNCHANGED saved /\ ~room.gone /\ room'.game = room.game
    BY <1>2, InRoom DEF TransferHost, NewHost, Request, Rooms, Others
  <2> QED
    BY <2>1, SameGameTallied
<1>3. ASSUME NEW ask \in asks, NEW usable \in BOOLEAN, ApplyTopicGeneration(ask, usable)
      PROVE  ScoresInv'
  <2>1. UNCHANGED saved
    BY <1>3 DEF ApplyTopicGeneration
  <2>2. CASE room' = room
    BY <2>1, <2>2 DEF ScoresInv
  <2>3. CASE room' # room
    <3>1. ~room.gone /\ ~room.game.started
      BY <1>3, <2>3 DEF ApplyTopicGeneration, MayApply, Game
    <3>2. room \in Rooms /\ GameInv(room.game) /\ Tallied(room.game)
      BY <3>1, InRoom
    <3>3. room'.game = SetTopics(room.game)
      BY <1>3, <2>3, <3>2 DEF ApplyTopicGeneration, Rooms
    <3> QED
      BY <2>1, <3>1, <3>2, <3>3, RosterTallied DEF ScoresInv
  <2> QED
    BY <2>2, <2>3
<1>4. ASSUME NEW grader \in graders, NEW bonus \in Bonuses,
             GradeTurn(grader, "done", bonus) \/ GradeTurn(grader, "failed", 0)
      PROVE  ScoresInv'
  <2>1. bonus \in Nat
    BY RoomAssumption
  <2>2. PICK none \in Nat : none = 0
    OBVIOUS
  <2>3. PICK done \in {"done", "failed"}, failed \in {"done", "failed"} :
          done = "done" /\ failed = "failed"
    OBVIOUS
  <2> QED
    BY <1>4, <2>1, <2>2, <2>3, GradeTurnStep
<1>5. CASE UNCHANGED vars
  BY <1>5 DEF vars, ScoresInv
<1> QED
  BY <1>1, <1>2, <1>3, <1>4, <1>5, SetupStep, PlayStep, TimeStep DEF Next

LEMMA ScoresInit == ASSUME Init PROVE ScoresInv
<1>1. saved.gone
  BY DEF Init, NoRoom
<1>2. room.game = NewSession \/ room.game = AddPlayer(NewSession)
  BY DEF Init, CreateRoom
<1>3. room.game.done = <<>> /\ room.game.score = [p \in Seats |-> 0]
      /\ room.game.corrected = [p \in Seats |-> 0]
  <2>1. NewSession.done = <<>> /\ NewSession.score = [p \in Seats |-> 0]
        /\ NewSession.corrected = [p \in Seats |-> 0]
    BY DEF NewSession
  <2>2. ASSUME room.game = AddPlayer(NewSession)
        PROVE  /\ room.game.done = NewSession.done /\ room.game.score = NewSession.score
               /\ room.game.corrected = NewSession.corrected
    BY <2>2 DEF AddPlayer, NewSession
  <2> QED
    BY <1>2, <2>1, <2>2
<1>4. Tallied(room.game)
  BY <1>3, NothingToTally
<1> QED
  BY <1>1, <1>4 DEF ScoresInv

(* The score of a player is the sum of its turns, each paid its verdict    *)
(* once, and of the host's corrections, in every room of the Go edition:   *)
(* whatever verdicts come late, after a reset or never because of a        *)
(* restart (game.go:595, 634).                                             *)
THEOREM ScoresSum == Spec => []ScoresAddUp
<1>1. Init => RoomInv /\ ScoresInv
  BY InitSafe, ScoresInit
<1>2. RoomInv /\ ScoresInv /\ [Next]_vars => RoomInv' /\ ScoresInv'
  BY NextSafe, ScoresStep
<1>3. RoomInv /\ ScoresInv => ScoresAddUp
  <2> SUFFICES ASSUME RoomInv, ScoresInv, ~room.gone PROVE ScoresAddUp
    BY DEF ScoresAddUp
  <2>1. room.game \in Sessions /\ Tallied(room.game)
    BY InRoom
  <2>2. ASSUME NEW p \in ToSet(room.game.players)
        PROVE  room.game.score[p] =
                 room.game.corrected[p] + Total(Paid(room.game, p), Len(room.game.done))
    <3>1. p \in Seats
      BY <2>1, <2>2, PlayersOf DEF ToSet
    <3>2. Total(Paid(room.game, p), Len(room.game.done)) = room.game.score[p] - room.game.corrected[p]
      BY <2>1, <3>1, TotalIs DEF Tallied
    <3> QED
      BY <2>1, <3>1, <3>2, ScoreTypes
  <2> QED
    BY <2>1, <2>2 DEF ScoresAddUp, Game, Turns, Tallied
<1> QED
  BY <1>1, <1>2, <1>3, PTL DEF Spec
=============================================================================
