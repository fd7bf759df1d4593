---------------------------- MODULE RoomPresence ----------------------------
(***************************************************************************)
(* Who is host, and since when that host is gone: the sockets of a room    *)
(* (cloudflare/worker.ts) with setHostOnline, transfer-host, claim-host    *)
(* and the presence a host proves over HTTP (cloudflare/game.ts).  A       *)
(* socket that closes stops counting as open at once; its close event      *)
(* reaches the object later, and other requests come in between.           *)
(***************************************************************************)
EXTENDS Integers, FiniteSets

CONSTANTS
  Tokens,              \* the browsers that talk to the room
  Creator,             \* the one that created it
  ClaimGrace,          \* HOST_CLAIM_GRACE_MS
  Bucket,              \* HOST_HTTP_PRESENCE_BUCKET_MS
  MaxRoomSockets,      \* MAX_ROOM_SOCKETS
  MaxSocketsPerToken,  \* MAX_SOCKETS_PER_TOKEN
  MaxClosing,          \* bound: close events on their way, per token
  MaxClock             \* bound: horizon of the clock

Here == -1   \* hostDisconnectedAt = null

ASSUME PresenceAssumption ==
  /\ Creator \in Tokens
  /\ ClaimGrace \in Nat \ {0} /\ Bucket \in Nat \ {0}
  /\ MaxRoomSockets \in Nat /\ MaxSocketsPerToken \in Nat
  /\ MaxClosing \in Nat /\ MaxClock \in Nat

VARIABLES
  clock,               \* Date.now()
  hostToken,           \* room.hostToken
  hostDisconnectedAt,  \* room.hostDisconnectedAt, Here for null
  members,             \* the tokens with a seat
  open,                \* sockets with readyState OPEN, by token
  closing,             \* sockets whose close event is on its way, by token
  lastProof,           \* history: when the host last showed it is there
  lastSign             \* history: the same, or when the object saw it go

vars == <<clock, hostToken, hostDisconnectedAt, members, open, closing, lastProof, lastSign>>

TypeOK ==
  /\ clock \in Nat
  /\ hostToken \in Tokens
  /\ hostDisconnectedAt \in Nat \cup {Here}
  /\ members \subseteq Tokens
  /\ open \in [Tokens -> 0 .. MaxSocketsPerToken]
  /\ closing \in [Tokens -> 0 .. MaxClosing]
  /\ lastProof \in Nat /\ lastSign \in Nat

Online(token) == open[token] > 0

\* createRoomState: the request that creates the room is a proof of presence.
Init ==
  /\ clock = 0
  /\ hostToken = Creator
  /\ hostDisconnectedAt = clock
  /\ members \in SUBSET {Creator}
  /\ open = [token \in Tokens |-> 0]
  /\ closing = [token \in Tokens |-> 0]
  /\ lastProof = 0 /\ lastSign = 0

\* The host shows itself, as far as the object takes notice of it.
HostIsSeen == lastProof' = clock /\ lastSign' = clock

-----------------------------------------------------------------------------
(* Seats                                                                   *)

\* joinRoom; a host that joins is not noted as present.
Join(token) ==
  /\ members' = members \cup {token}
  /\ UNCHANGED <<clock, hostToken, hostDisconnectedAt, open, closing, lastProof, lastSign>>

\* Slip: only the first request of an absent host counts.
NoteHTTPHost_Once(token) ==
  IF hostToken = token
    THEN /\ HostIsSeen
         /\ hostDisconnectedAt' = IF Online(token) \/ hostDisconnectedAt # Here
                                    THEN hostDisconnectedAt ELSE clock
    ELSE UNCHANGED <<hostDisconnectedAt, lastProof, lastSign>>
\* The end of applyAction: a successful request of a host without a socket.
NoteHTTPHost(token) ==
  IF hostToken = token
    THEN /\ HostIsSeen
         /\ hostDisconnectedAt' = IF Online(token) THEN hostDisconnectedAt ELSE clock
    ELSE UNCHANGED <<hostDisconnectedAt, lastProof, lastSign>>

\* Any other action: leave and remove-player take a seat away, the rest
\* leaves the seats alone.
Act(token, gone) ==
  /\ gone \subseteq members
  /\ hostToken = token \/ gone \subseteq {token}
  /\ members' = members \ gone
  /\ NoteHTTPHost(token)
  /\ UNCHANGED <<clock, hostToken, open, closing>>

-----------------------------------------------------------------------------
(* Sockets                                                                 *)

\* setHostOnline(room, false)
HostLeft == hostDisconnectedAt' = IF hostDisconnectedAt = Here THEN clock ELSE hostDisconnectedAt

\* getWebSockets, those that are closing included.
Sockets == {socket \in Tokens \X (1 .. MaxSocketsPerToken + MaxClosing) :
              socket[2] <= open[socket[1]] + closing[socket[1]]}

\* GET /socket of the host or of a member.
OpenSocket(token) ==
  /\ token = hostToken \/ token \in members
  /\ Cardinality(Sockets) < MaxRoomSockets
  /\ open[token] < MaxSocketsPerToken
  /\ open' = [open EXCEPT ![token] = @ + 1]
  /\ IF token = hostToken
       THEN hostDisconnectedAt' = Here /\ HostIsSeen
       ELSE UNCHANGED <<hostDisconnectedAt, lastProof, lastSign>>
  /\ UNCHANGED <<clock, hostToken, members, closing>>

\* A socket is lost, or either side closes it: it is no longer open, and
\* webSocketClose is still to come.
LoseSocket(token) ==
  /\ Online(token)
  /\ closing[token] < MaxClosing
  /\ open' = [open EXCEPT ![token] = @ - 1]
  /\ closing' = [closing EXCEPT ![token] = @ + 1]
  /\ IF token = hostToken THEN HostIsSeen ELSE UNCHANGED <<lastProof, lastSign>>
  /\ UNCHANGED <<clock, hostToken, hostDisconnectedAt, members>>

\* Slip: the host is gone with the first of its sockets.
RecordDisconnect_AnySocket(token) ==
  IF token = hostToken
    THEN HostLeft /\ lastSign' = clock /\ UNCHANGED lastProof
    ELSE UNCHANGED <<hostDisconnectedAt, lastProof, lastSign>>
\* recordDisconnect, on a room that exists.
RecordDisconnect(token) ==
  IF token = hostToken /\ ~ Online(token)
    THEN HostLeft /\ lastSign' = clock /\ UNCHANGED lastProof
    ELSE UNCHANGED <<hostDisconnectedAt, lastProof, lastSign>>

\* webSocketClose
CloseEvent(token) ==
  /\ closing[token] > 0
  /\ closing' = [closing EXCEPT ![token] = @ - 1]
  /\ RecordDisconnect(token)
  /\ UNCHANGED <<clock, hostToken, members, open>>

-----------------------------------------------------------------------------
(* Presence over HTTP                                                      *)

\* refreshHTTPHostPresence: the end of the current bucket.
Lease == (clock \div Bucket + 1) * Bucket

\* GET /state of a host without a socket.
ReadState(token) ==
  /\ token = hostToken
  /\ ~ Online(token)
  /\ HostIsSeen
  /\ hostDisconnectedAt' = IF hostDisconnectedAt # Here /\ hostDisconnectedAt >= Lease
                             THEN hostDisconnectedAt ELSE Lease
  /\ UNCHANGED <<clock, hostToken, members, open, closing>>

-----------------------------------------------------------------------------
(* The host role                                                           *)

\* transfer-host: to a member that is online.
TransferHost(token, target) ==
  /\ token = hostToken
  /\ target \in members
  /\ Online(target)
  /\ hostToken' = target
  /\ hostDisconnectedAt' = Here
  /\ HostIsSeen
  /\ UNCHANGED <<clock, members, open, closing>>

\* claim-host: a claimer without a socket starts a grace of its own.
ClaimHost(token) ==
  /\ token \in members
  /\ hostDisconnectedAt # Here
  /\ clock - hostDisconnectedAt >= ClaimGrace
  /\ hostToken' = token
  /\ hostDisconnectedAt' = IF Online(token) THEN Here ELSE clock
  /\ HostIsSeen
  /\ UNCHANGED <<clock, members, open, closing>>

Tick ==
  /\ clock < MaxClock
  /\ clock' = clock + 1
  /\ UNCHANGED <<hostToken, hostDisconnectedAt, members, open, closing, lastProof, lastSign>>

Next ==
  \/ \E token \in Tokens :
       \/ Join(token)
       \/ \E gone \in {{}} \cup {{other} : other \in Tokens} : Act(token, gone)
       \/ OpenSocket(token) \/ LoseSocket(token) \/ CloseEvent(token)
       \/ ReadState(token)
       \/ \E target \in Tokens : TransferHost(token, target)
       \/ ClaimHost(token)
  \/ Tick

Spec == Init /\ [][Next]_vars

-----------------------------------------------------------------------------
(* Properties                                                              *)

(* The room is never left with a host nobody can replace: when the host    *)
(* counts as present it has an open socket, or the close event of one is   *)
(* on its way (transfer-host and claim-host to a device that vanishes,     *)
(* several tabs closing, reconnecting).                                    *)
AbsentHostIsNoted ==
  hostDisconnectedAt = Here => open[hostToken] + closing[hostToken] > 0

(* A host with an open socket counts as present, whichever of its sockets  *)
(* close and in whatever order their events arrive (recordDisconnect).     *)
OnlineHostIsPresent == Online(hostToken) => hostDisconnectedAt = Here

(* Nobody else becomes host before the host has been silent for the whole  *)
(* grace: neither its socket, nor an action, nor a state request was seen  *)
(* in that time (claim-host, refreshHTTPHostPresence).                     *)
HostKeepsItsGrace ==
  [][\A token \in Tokens \ {hostToken} :
       ClaimHost(token) => ~ Online(hostToken) /\ clock - lastProof >= ClaimGrace]_vars

(* "An absent HTTP-only host may take up to one extra bucket to become     *)
(* claimable", and no more than that (refreshHTTPHostPresence).            *)
TakeoverIsNotDelayed ==
  hostDisconnectedAt # Here => hostDisconnectedAt <= lastSign + Bucket

(* What the room records about its host agrees with the host's sockets,    *)
(* whichever of them open, vanish or are reported closed late.             *)
HostIsKnown == TypeOK /\ AbsentHostIsNoted /\ OnlineHostIsPresent /\ TakeoverIsNotDelayed

=============================================================================
