------------------------------ MODULE RoomPage ------------------------------
(***************************************************************************)
(* The room page of one browser that may drive turns                       *)
(* (cloudflare/public/app.js, microphone-selection.js): snapshots over the *)
(* live socket and over HTTP, the start of a turn with its microphone, the *)
(* submission of the turn, and the choice of a microphone.  The object's   *)
(* side (cloudflare/worker.ts, game.ts) is reduced to what the page can    *)
(* tell apart.  Every await is a place where another action may come in.   *)
(***************************************************************************)
EXTENDS Integers, Sequences, FiniteSets, FiniteSetsExt

CONSTANTS
  MaxTurns,   \* bound: turns of the game
  MaxCalls,   \* bound: HTTP requests of the page under way at a time
  Devices,    \* microphones this browser may have
  Scopes      \* bounds: what a behaviour may do how often

Kinds == {"changes", "routes", "faults", "breaks", "starts", "silences", "clicks", "dialogs",
          "plugs", "others"}

ASSUME PageAssumption ==
  /\ MaxTurns \in Nat /\ MaxCalls \in Nat \ {0} /\ "auto" \notin Devices
  /\ Scopes \subseteq [Kinds -> Nat]

VARIABLES
  object,     \* the room as the object has it
  published,  \* history: the version broadcast last
  page,       \* the page: route, snapshot, socket, controller, command, dialog
  calls,      \* its HTTP requests
  tab,        \* its microphone preference, and the browser's microphones
  left        \* what of the scope is left

vars == <<object, published, page, calls, tab, left>>

AutoMicrophone == "auto"   \* AUTO_MICROPHONE_ID
Slots == 1 .. MaxCalls
None == 0

\* What the object would send to this browser now; "driver" is the identity under
\* which it drives the active turn (microphoneDriverIdentity).
Driver(o) ==
  IF o.turn = None THEN "none" ELSE IF o.host THEN "host" ELSE IF o.mine THEN "player" ELSE "none"
Snapshot(o) == [version |-> o.version, turn |-> o.turn, begun |-> o.begun, driver |-> Driver(o)]

NoRoom == [version |-> 0, turn |-> None, begun |-> FALSE, driver |-> "none"]
NoController == [turn |-> None, driver |-> "none", mode |-> "none", stream |-> None]
Idle == [kind |-> "no", stage |-> "no", turn |-> None, driver |-> "none", generation |-> 0,
         notify |-> FALSE, stream |-> None, device |-> AutoMicrophone]
\* "allowed" is, as history, whether the dialog has had a list made with the permission.
NoDialog == [open |-> FALSE, turn |-> None, driver |-> "none", list |-> {}, allowed |-> FALSE,
             refresh |-> 0, enumerations |-> 0, listings |-> {}]
Free == [kind |-> "none", turn |-> None, generation |-> 0, stage |-> "none", room |-> NoRoom]

Spend(kind) == left[kind] > 0 /\ left' = [left EXCEPT ![kind] = @ - 1]

Init ==
  /\ left \in Scopes
  /\ object = [version |-> 1, turn |-> None, last |-> None, begun |-> FALSE, late |-> FALSE,
               mine |-> FALSE, host |-> TRUE]
  /\ published = 1
  /\ page = [route |-> "room", generation |-> 1, room |-> Snapshot(object), socket |-> "open",
             feed |-> <<>>, controller |-> NoController, runningLocally |-> FALSE,
             command |-> Idle, open |-> {}, dialog |-> NoDialog]
  /\ calls = [s \in Slots |-> Free]
  \* Without a dialog nothing depends on the permission.
  /\ \E permission \in IF left.dialogs > 0 THEN BOOLEAN ELSE {TRUE} :
       tab = [memory |-> AutoMicrophone, stored |-> AutoMicrophone, choice |-> AutoMicrophone,
              notified |-> FALSE, blocked |-> FALSE, plugged |-> Devices, changed |-> FALSE,
              permission |-> permission, devices |-> {}, missing |-> {}]

-----------------------------------------------------------------------------
(* The page as a value: what its functions make of it                      *)

\* stopController
Stopped(p) == [p EXCEPT !.controller = NoController, !.open = @ \ {p.controller.stream}]

\* reconcileController
Reconciled(p) ==
  IF p.controller.turn # None
     /\ (p.room.turn # p.controller.turn \/ p.room.driver # p.controller.driver)
  THEN Stopped(p) ELSE p
\* renderTurnControls: which controls the page has until it is rendered again.
WithControls(p) ==
  [p EXCEPT !.runningLocally = p.controller.turn # None /\ p.controller.turn = p.room.turn]
\* renderRoom
Rendered(p) == IF p.room = NoRoom THEN p ELSE WithControls(Reconciled(p))

\* Slip: a new socket waits for the next change.
Connected_Silent(p) ==
  IF p.socket = "open" THEN p ELSE [p EXCEPT !.socket = "open", !.feed = <<>>]
\* connectSocket; the object broadcasts when it accepts a socket.
Connected(p) ==
  IF p.socket = "open" THEN p
  ELSE [p EXCEPT !.socket = "open", !.feed = <<Snapshot(object)>>]

\* closeMicrophoneDialog; the enumerations that the dialog waits for are cancelled and
\* change nothing, so they end here.
Closed(p) == [p EXCEPT !.dialog = NoDialog]
\* reconcileMicrophoneDialog
DialogReconciled(p) ==
  IF p.dialog.open
     /\ (p.room.turn # p.dialog.turn \/ p.room.driver # p.dialog.driver)
  THEN Closed(p) ELSE p

\* acceptRoom
Accepted(p, next) ==
  IF next.version < p.room.version THEN p
  ELSE Connected(DialogReconciled(Rendered([p EXCEPT !.room = next])))

\* What the await of a start has in hand is given back.
Released(p) == [p EXCEPT !.open = @ \ {p.command.stream}, !.command = Idle]

\* The end of startManual and startMicrophone.
Started(p, c) ==
  Rendered([Stopped(p) EXCEPT
    !.controller = [turn |-> c.turn, driver |-> c.driver, mode |-> c.kind, stream |-> c.stream],
    !.command = Idle])

\* isCurrentTurnDriver
IsCurrent(p, c) ==
  c.generation = p.generation /\ p.room.turn = c.turn /\ p.room.driver = c.driver

\* A step of the page; a socket it opens is answered by a broadcast.
Shows(p) ==
  /\ page' = p
  /\ published' = IF page'.socket = "open" /\ page.socket # "open" THEN object.version ELSE published

\* A request takes the first free place.
FreeSlots == {s \in Slots : calls[s] = Free}
Ask(kind, turn, generation) ==
  /\ FreeSlots # {}
  /\ calls' = [calls EXCEPT ![Min(FreeSlots)] =
       [Free EXCEPT !.kind = kind, !.turn = turn, !.generation = generation, !.stage = "sent"]]

-----------------------------------------------------------------------------
(* The object                                                              *)

Touched(o) == [o EXCEPT !.version = @ + 1]
NewTurn(o) == [o EXCEPT !.turn = o.last + 1, !.last = @ + 1, !.begun = FALSE, !.late = FALSE]
TurnOver(o) == [o EXCEPT !.turn = None, !.begun = FALSE, !.late = FALSE]

Broadcast(o) ==
  /\ object' = o
  /\ published' = o.version
  /\ page' = IF page.socket = "open" THEN [page EXCEPT !.feed = Append(@, Snapshot(o))] ELSE page

\* Somebody else acts: another device of the game, or the host of it.
OthersAct ==
  /\ Spend("changes")
  /\ LET o == Touched(object)
     IN  \/ Broadcast(o)
         \/ object' = o /\ UNCHANGED <<published, page>>   \* a save without a broadcast
         \/ /\ object.turn = None /\ object.last < MaxTurns
            /\ \E mine \in BOOLEAN : Broadcast(NewTurn([o EXCEPT !.mine = mine]))
         \/ object.turn # None /\ ~ object.begun /\ Broadcast([o EXCEPT !.begun = TRUE])
         \/ object.turn # None /\ Broadcast(TurnOver(o))
         \/ /\ object.turn # None /\ ~ object.begun /\ object.last < MaxTurns
            /\ Broadcast(NewTurn(o))
         \/ Broadcast([o EXCEPT !.host = ~ @])
  /\ UNCHANGED <<calls, tab>>

TimePasses ==
  /\ object.begun /\ ~ object.late
  /\ object' = [object EXCEPT !.late = TRUE]
  /\ UNCHANGED <<published, page, calls, tab, left>>

\* applyAction for this browser: requireTurn and requireTurnDriver.
Applied(call) ==
  CASE call.kind = "begin"  -> [Touched(object) EXCEPT !.begun = TRUE]
    [] call.kind = "submit" -> TurnOver(Touched(object))
    [] call.kind = "redraw" -> NewTurn(Touched(object))
Applies(call) ==
  /\ object.turn = call.turn /\ Driver(object) # "none"
  /\ call.kind = "redraw" => ~ object.begun /\ object.last < MaxTurns

Serve(s) ==
  LET call == calls[s]
      Answered(stage, room) == [calls EXCEPT ![s].stage = stage, ![s].room = room]
  IN  /\ call.stage = "sent"
      /\ IF call.kind = "state" \/ call.kind = "reconnect"
         THEN calls' = Answered("done", Snapshot(object)) /\ UNCHANGED <<object, published, page>>
         ELSE IF Applies(call)
         THEN calls' = Answered("done", Snapshot(Applied(call))) /\ Broadcast(Applied(call))
         ELSE calls' = Answered("failed", NoRoom) /\ UNCHANGED <<object, published, page>>
      /\ UNCHANGED <<tab, left>>

\* The network loses a request or its answer.
Lose(s) ==
  /\ calls[s].stage \in {"sent", "done"}
  /\ Spend("faults")
  /\ calls' = [calls EXCEPT ![s].stage = "failed"]
  /\ UNCHANGED <<object, published, page, tab>>

-----------------------------------------------------------------------------
(* Following the room                                                      *)

ReceiveLive ==
  /\ page.feed # <<>>
  /\ Shows(Accepted([page EXCEPT !.feed = Tail(@)], Head(page.feed)))
  /\ UNCHANGED <<object, calls, tab, left>>

\* Slip: what was current before the request is current after it.
Continued_Unchecked(p, c) == Started(p, c)
\* The start that waited for begin-turn goes on.
Continued(p, c) == IF IsCurrent(p, c) THEN Started(p, c) ELSE Released(p)

\* The continuation of doAction, loadRoute or refreshRoomState.
Receive(s) ==
  LET call == calls[s]
      told == IF call.stage = "done" /\ call.generation = page.generation
              THEN Accepted(page, call.room) ELSE page
  IN  /\ call.stage \in {"done", "failed"}
      /\ Shows(CASE call.kind = "begin" ->
                      IF call.stage = "done" THEN Continued(told, page.command) ELSE Released(told)
                 [] call.kind \in {"submit", "redraw"} ->
                      IF page.command.kind = "act" /\ page.command.turn = call.turn
                      THEN [told EXCEPT !.command = Idle] ELSE told
                 [] call.kind = "reconnect" ->
                      IF told.room # NoRoom THEN Connected(told) ELSE told
                 [] OTHER -> told)
      /\ calls' = [calls EXCEPT ![s] = Free]
      /\ UNCHANGED <<object, tab, left>>

\* The reconnect timer: refreshRoomState().finally(connectSocket).
Reconnect ==
  /\ page.socket = "waiting"
  /\ Ask("reconnect", None, page.generation)
  /\ page' = [page EXCEPT !.socket = "reading"]
  /\ UNCHANGED <<object, published, tab, left>>

Break ==
  /\ page.socket = "open"
  /\ Spend("breaks")
  /\ page' = [page EXCEPT !.socket = "waiting", !.feed = <<>>]
  /\ UNCHANGED <<object, published, calls, tab>>

\* loadRoute: away from the room, and back to it.
LeaveRoom ==
  /\ page.route = "room"
  /\ Spend("routes")
  /\ page' = [Closed(Stopped(page)) EXCEPT
                !.route = "other", !.generation = @ + 1, !.room = NoRoom,
                !.runningLocally = FALSE, !.socket = "closed", !.feed = <<>>]
  /\ UNCHANGED <<object, published, calls, tab>>

OpenRoom ==
  /\ page.route = "other"
  /\ Spend("routes")
  /\ page' = [page EXCEPT !.route = "room", !.generation = @ + 1]
  /\ Ask("state", None, page.generation + 1)
  /\ UNCHANGED <<object, published, tab>>

-----------------------------------------------------------------------------
(* Driving a turn                                                          *)

Drives == page.route = "room" /\ page.room.driver # "none"
\* The dialog is modal: the page under it cannot be used.
InHand == Drives /\ page.dialog = NoDialog
Command(kind, stage) ==
  [Idle EXCEPT !.kind = kind, !.stage = stage, !.turn = page.room.turn,
               !.driver = page.room.driver, !.generation = page.generation,
               !.notify = ~ page.room.begun]
\* A begun turn can be resumed if the page did not run it when it was rendered last.
CanStart ==
  /\ InHand /\ page.command = Idle
  /\ page.room.begun => ~ page.runningLocally

\* startManual
StartManual ==
  /\ CanStart
  /\ IF page.room.begun
     THEN Shows(Started(page, Command("manual", "no"))) /\ UNCHANGED calls
     ELSE /\ Shows([page EXCEPT !.command = Command("manual", "asked")])
          /\ Ask("begin", page.room.turn, page.generation)
  /\ UNCHANGED <<object, tab, left>>

\* startMicrophone up to getUserMedia.
StartMicrophone ==
  /\ CanStart
  /\ Spend("starts")
  /\ page' = [page EXCEPT !.command = [Command("mic", "prompt") EXCEPT
                !.stream = left.starts, !.device = tab.memory]]
  /\ UNCHANGED <<object, published, calls, tab>>

\* The microphone has come: stopped if nobody waits for it any more.
Granted(p) ==
  IF IsCurrent(p, p.command)
  THEN [p EXCEPT !.open = @ \cup {p.command.stream}, !.command.stage = "audio"]
  ELSE Released(p)

\* clearUnavailablePreference
Forgotten(t, device) ==
  [t EXCEPT !.stored = IF @ = device THEN AutoMicrophone ELSE @,
            !.memory = IF @ # device THEN @
                       ELSE IF t.stored = device THEN AutoMicrophone ELSE t.stored]

\* acquire: the chosen microphone, or else the browser's choice.
Acquire ==
  LET device == page.command.device
      present == device = AutoMicrophone \/ device \in tab.plugged
  IN  /\ page.command.stage = "prompt"
      /\ IF present THEN Shows(Granted(page)) /\ tab' = [tab EXCEPT !.permission = TRUE]
         ELSE /\ Shows(IF IsCurrent(page, page.command)
                       THEN [page EXCEPT !.command.stage = "fallback"] ELSE Released(page))
              /\ tab' = [tab EXCEPT !.missing = @ \cup {device}]
      /\ UNCHANGED <<object, calls, left>>

FallBack(granted) ==
  /\ page.command.stage = "fallback"
  /\ IF granted THEN UNCHANGED left ELSE Spend("faults")
  /\ LET allowed == [tab EXCEPT !.permission = @ \/ granted]
     IN  tab' = IF IsCurrent(page, page.command) THEN Forgotten(allowed, page.command.device)
                ELSE allowed
  /\ Shows(IF granted THEN Granted(page) ELSE Released(page))
  /\ UNCHANGED <<object, calls>>

\* The audio context runs: tell the object, or start at once.
BeginTurn ==
  /\ page.command.stage = "audio"
  /\ IF IsCurrent(page, page.command) /\ page.command.notify
     THEN /\ Shows([page EXCEPT !.command.stage = "asked"])
          /\ Ask("begin", page.command.turn, page.generation)
     ELSE /\ Shows(IF IsCurrent(page, page.command)
                   THEN Started(page, page.command) ELSE Released(page))
          /\ UNCHANGED calls
  /\ UNCHANGED <<object, tab, left>>

\* The prompt is denied, or the audio does not work.
FailStart ==
  /\ page.command.stage \in {"prompt", "audio"}
  /\ Spend("faults")
  /\ Shows(Released(page))
  /\ UNCHANGED <<object, calls, tab>>

\* finishTurn: the microphone goes first, then the request.
SubmitTurn(p) ==
  /\ Ask("submit", page.room.turn, page.generation)
  /\ Shows(Stopped(p))

Runs == page.controller.turn # None /\ page.controller.mode # "submitting"
\* updateClock and monitorMicrophone: the time is over.  The page's clock runs on for
\* a turn that has ended elsewhere.
SubmitInTime ==
  /\ Runs /\ page.room.begun
  /\ page.room.turn = object.turn => object.late
  /\ SubmitTurn(page)
  /\ UNCHANGED <<object, tab, left>>
\* monitorMicrophone: the speaker is silent.
Eliminate ==
  /\ Runs /\ page.controller.mode = "mic" /\ page.room.begun
  /\ Spend("silences")
  /\ SubmitTurn(page)
  /\ UNCHANGED <<object, tab>>
\* A turn out of time that nothing runs.
Overdue == page.room.begun /\ page.controller.turn = None /\ object.turn = page.room.turn /\ object.late
\* end-turn, mark-complete
EndTurn ==
  /\ InHand /\ page.command = Idle
  /\ page.room.begun \/ page.room.driver = "host"
  /\ IF Overdue THEN UNCHANGED left ELSE Spend("clicks")
  /\ SubmitTurn([page EXCEPT !.command = Command("act", "asked")])
  /\ UNCHANGED <<object, tab>>
RedrawTopic ==
  /\ InHand /\ page.command = Idle /\ ~ page.room.begun
  /\ Spend("clicks")
  /\ Shows([page EXCEPT !.command = Command("act", "asked")])
  /\ Ask("redraw", page.room.turn, page.generation)
  /\ UNCHANGED <<object, tab>>

-----------------------------------------------------------------------------
(* Choosing a microphone                                                   *)

\* The dialog with one more enumeration under way; the number is its order.  The first
\* enumeration of a dialog asks once more, with a prompt, if it finds no names.
Enumerating(dialog, asks, stage) ==
  LET number == dialog.enumerations + 1
  IN  [dialog EXCEPT !.enumerations = number,
         !.listings = @ \cup {[number |-> number, refresh |-> dialog.refresh, asks |-> asks,
                               stage |-> stage, found |-> {}, allowed |-> FALSE]}]
Replaced(dialog, l, k) == [dialog EXCEPT !.listings = (@ \ {l}) \cup {k}]

\* openMicrophoneDialog up to its first await.
OpenDialog ==
  /\ InHand /\ ~ page.runningLocally
  /\ Spend("dialogs")
  /\ page' = [page EXCEPT !.dialog =
       Enumerating([NoDialog EXCEPT !.open = TRUE, !.turn = page.room.turn,
                      !.driver = page.room.driver, !.list = tab.devices,
                      !.allowed = tab.permission], TRUE, "asked")]
  /\ UNCHANGED <<object, published, calls, tab>>

\* The prompt of an enumeration is answered; its preview is stopped at once.
Grant(l) ==
  /\ l.stage = "prompt" /\ tab.plugged # {}
  /\ tab' = [tab EXCEPT !.permission = TRUE]
  /\ page' = [page EXCEPT !.dialog = Replaced(@, l, [l EXCEPT !.stage = "asked"])]
  /\ UNCHANGED <<object, published, calls, left>>
Refuse(l) ==
  /\ l.stage = "prompt"
  /\ page' = [page EXCEPT !.dialog.listings = @ \ {l}]
  /\ UNCHANGED <<object, published, calls, tab, left>>

\* The browser looks for its microphones; without the permission their ids are empty,
\* and normalizeMicrophoneDevices drops them.
Find(l) ==
  /\ l.stage = "asked"
  /\ page' = [page EXCEPT !.dialog = Replaced(@, l,
       [l EXCEPT !.stage = "found", !.allowed = tab.permission,
                 !.found = IF tab.permission THEN tab.plugged ELSE {}])]
  /\ UNCHANGED <<object, published, calls, tab, left>>

\* enumerate: an older enumeration returns what a newer one has found.
Known(l) == IF l.number = page.dialog.enumerations THEN l.found ELSE tab.devices

\* enumerate has returned: openMicrophoneDialog, handleMicrophoneDeviceChange.
List(l, named) ==
  LET shows  == l.refresh = page.dialog.refresh
      listed == [page.dialog EXCEPT
                   !.listings = @ \ {l}, !.list = IF shows THEN Known(l) ELSE @,
                   !.allowed = @ \/ (shows /\ l.allowed)]
  IN  /\ l.stage = "found"
      /\ tab' = [tab EXCEPT !.devices = Known(l)]
      /\ page' = [page EXCEPT !.dialog =
                     IF shows /\ l.asks /\ (Known(l) = {} \/ ~ named)
                     THEN Enumerating(listed, FALSE, "prompt") ELSE listed]
      /\ UNCHANGED <<object, published, calls, left>>

\* The user allows the microphone in the browser's settings, or by the prompt of a dialog
\* that was closed.
Permit ==
  /\ ~ tab.permission
  /\ tab' = [tab EXCEPT !.permission = TRUE]
  /\ UNCHANGED <<object, published, page, calls, left>>

\* A microphone is plugged in or out, and the page is told.
Plug(device) ==
  /\ Spend("plugs")
  /\ tab' = [tab EXCEPT !.plugged = IF device \in @ THEN @ \ {device} ELSE @ \cup {device},
                        !.changed = TRUE]
  /\ UNCHANGED <<object, published, page, calls>>
\* handleMicrophoneDeviceChange
DeviceChange ==
  /\ tab.changed
  /\ tab' = [tab EXCEPT !.changed = FALSE]
  /\ LET again == [page.dialog EXCEPT !.refresh = @ + 1]
     IN  page' = IF ~ page.dialog.open THEN page
                 ELSE [page EXCEPT !.dialog = Enumerating(again, FALSE, "asked")]
  /\ UNCHANGED <<object, published, calls, left>>

\* applyMicrophoneDialogSelection, select; the storage may refuse.
UseDevice(device, persisted) ==
  /\ page.dialog.open
  /\ device \in page.dialog.list \cup {AutoMicrophone, tab.memory}
  /\ IF persisted THEN UNCHANGED left ELSE Spend("faults")
  /\ tab' = [tab EXCEPT !.memory = device, !.blocked = ~ persisted,
                        !.stored = IF persisted THEN device ELSE @,
                        !.choice = IF persisted THEN device ELSE @]
  /\ page' = Closed(page)
  /\ UNCHANGED <<object, published, calls>>

CloseDialog ==
  /\ page.dialog.open
  /\ page' = Closed(page)
  /\ UNCHANGED <<object, published, calls, tab, left>>

\* Another tab chooses, and this one is told.
OtherTab(device) ==
  /\ Spend("others") /\ device # tab.stored
  /\ tab' = [tab EXCEPT !.stored = device, !.choice = device, !.notified = TRUE]
  /\ UNCHANGED <<object, published, page, calls>>
\* handleMicrophoneStorage, reload
Reload ==
  /\ tab.notified
  /\ tab' = [tab EXCEPT !.notified = FALSE, !.blocked = FALSE, !.memory = tab.stored]
  /\ page' = IF page.dialog = NoDialog THEN page ELSE [page EXCEPT !.dialog.list = tab.devices]
  /\ UNCHANGED <<object, published, calls, left>>

-----------------------------------------------------------------------------
Requests == \E s \in Slots : Serve(s) \/ Receive(s)
Starts == Acquire \/ FallBack(TRUE) \/ BeginTurn
Picker ==
  \/ OpenDialog \/ CloseDialog \/ DeviceChange \/ Reload \/ Permit
  \/ \E l \in page.dialog.listings :
       Find(l) \/ Grant(l) \/ Refuse(l) \/ \E named \in BOOLEAN : List(l, named)
  \/ \E device \in Devices : Plug(device)
  \/ \E device \in Devices \cup {AutoMicrophone} :
       OtherTab(device) \/ \E persisted \in BOOLEAN : UseDevice(device, persisted)

Next ==
  \/ OthersAct \/ TimePasses \/ Requests \/ (\E s \in Slots : Lose(s))
  \/ ReceiveLive \/ Reconnect \/ Break \/ LeaveRoom \/ OpenRoom
  \/ StartManual \/ StartMicrophone \/ Starts \/ FallBack(FALSE) \/ FailStart
  \/ SubmitInTime \/ Eliminate \/ EndTurn \/ RedrawTopic
  \/ Picker

\* Requests are answered, the socket delivers, the reconnect timer fires, also when
\* other requests keep taking the places of the model; and with time the driver's side
\* goes on: prompts are answered, a turn that the page offers to resume is resumed, and
\* one out of time that it offers only to end is ended.
Fairness ==
  /\ \A s \in Slots : WF_vars(Serve(s) \/ Receive(s))
  /\ WF_vars(ReceiveLive) /\ SF_vars(Reconnect)
  /\ WF_vars(\/ TimePasses \/ Starts \/ StartManual \/ SubmitInTime
             \/ Overdue /\ ~ CanStart /\ EndTurn)

Spec == Init /\ [][Next]_vars /\ Fairness

-----------------------------------------------------------------------------
(* Properties                                                              *)

(* A microphone is on for the turn the page shows and this browser drives, *)
(* or in the hands of a start that is still waiting; whoever ends, redraws *)
(* or takes over the turn meanwhile (startMicrophone, reconcileController).*)
MicrophoneHasItsTurn ==
  /\ page.open \subseteq {page.controller.stream, page.command.stream}
  /\ page.controller.stream # None =>
       page.controller.turn = page.room.turn /\ page.controller.driver = page.room.driver

(* A choice of a microphone, in this tab or another, is forgotten only if  *)
(* that very microphone was missing; and without an event under way the    *)
(* tab uses the stored choice (clearUnavailablePreference, reload).        *)
ChoiceSurvives ==
  /\ tab.stored # tab.choice => tab.stored = AutoMicrophone /\ tab.choice \in tab.missing
  /\ ~ tab.notified /\ ~ tab.blocked => tab.memory = tab.stored

(* Once every enumeration has ended, an open dialog lists the microphones  *)
(* there are, and the page remembers them for the next dialog, in whatever *)
(* order the enumerations ended, if the browser allowed the page to see    *)
(* them when the dialog opened or when it was filled since; and it never   *)
(* lists one that is gone (enumerate, handleMicrophoneDeviceChange).       *)
ListIsFresh ==
  page.dialog.open /\ ~ tab.changed /\ page.dialog.listings = {} =>
    /\ page.dialog.allowed => page.dialog.list = tab.plugged /\ tab.devices = tab.plugged
    /\ ~ page.dialog.allowed => page.dialog.list = {}

(* The microphone in use is for the turn, as chosen, from those there are. *)
MicrophoneIsRight == MicrophoneHasItsTurn /\ ChoiceSurvives /\ ListIsFresh

(* A room that stays on the page becomes as new as the last broadcast,     *)
(* whatever responses are late or lost and wherever the socket breaks.     *)
CatchesUp ==
  <>[](page.room # NoRoom) => <>[](page.room.version >= published)

(* A turn that runs ends, though its submission may fail, if its driver    *)
(* stays at the page, without the dialog, and uses what it offers: resumes *)
(* the turn, or ends it when it is out of time and no resuming is offered, *)
(* as after a failed submission, which renders nothing (finishTurn,        *)
(* updateClock, renderTurnControls, reconcileController).                  *)
TurnsEnd ==
  <>[](page.room # NoRoom /\ ~ page.dialog.open) =>
    (object.begun ~> (~ object.begun \/ Driver(object) = "none"))

(* The page keeps up with the room, and the room with the page.            *)
PageKeepsUp == CatchesUp /\ TurnsEnd
=============================================================================
