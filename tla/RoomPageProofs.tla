--------------------------- MODULE RoomPageProofs ---------------------------
(***************************************************************************)
(* Proofs about the room page, for any microphones, turns, requests under  *)
(* way and bounds: the microphone in use is for the turn, as chosen, from  *)
(* those there are.                                                        *)
(*                                                                         *)
(* Three things are followed through every await: who holds each open      *)
(* stream (the controller of the turn, or a start that waits), which       *)
(* microphone was found missing, and which enumeration is the newest and   *)
(* whether it was made with the browser's permission.                      *)
(***************************************************************************)
EXTENDS RoomPage, TLAPS

Drivers == {"none", "host", "player"}
Microphones == Devices \cup {AutoMicrophone}

\* What the object sends.
Sent ==
  {room \in [version : Nat, turn : Nat, begun : BOOLEAN, driver : Drivers] :
     room.version > 0 /\ (room.turn = None => room.driver = "none")}
Rooms == Sent \cup {NoRoom}
Object_ ==
  [version : Nat \ {0}, turn : Nat, last : Nat, begun : BOOLEAN, late : BOOLEAN,
   mine : BOOLEAN, host : BOOLEAN]
Controllers ==
  [turn : Nat, driver : Drivers, mode : {"none", "manual", "mic", "no", "act"}, stream : Nat]
Commands ==
  [kind : {"no", "manual", "mic", "act"},
   stage : {"no", "asked", "prompt", "fallback", "audio"}, turn : Nat, driver : Drivers,
   generation : Nat, notify : BOOLEAN, stream : Nat, device : Microphones]
Listings ==
  [number : Nat, refresh : Nat, asks : BOOLEAN, stage : {"prompt", "asked", "found"},
   found : SUBSET Devices, allowed : BOOLEAN]
Dialogs ==
  [open : BOOLEAN, turn : Nat, driver : Drivers, list : SUBSET Devices, allowed : BOOLEAN,
   refresh : Nat, enumerations : Nat, listings : SUBSET Listings]
Pages ==
  [route : {"room", "other"}, generation : Nat, room : Rooms,
   socket : {"open", "waiting", "reading", "closed"}, feed : Seq(Sent),
   controller : Controllers, runningLocally : BOOLEAN, command : Commands, open : SUBSET Nat, dialog : Dialogs]
Calls ==
  [kind : {"none", "state", "reconnect", "begin", "submit", "redraw"}, turn : Nat,
   generation : Nat, stage : {"none", "sent", "done", "failed"}, room : Rooms]
Tabs ==
  [memory : Microphones, stored : Microphones, choice : Microphones, notified : BOOLEAN,
   blocked : BOOLEAN, plugged : SUBSET Devices, changed : BOOLEAN,
   permission : BOOLEAN, devices : SUBSET Devices, missing : SUBSET Microphones]

CallsOK ==
  /\ calls \in [Slots -> Calls]
  /\ \A s \in Slots :
       /\ calls[s].stage = "done" => calls[s].room \in Sent
       /\ calls[s].stage = "sent" => calls[s].kind # "none"
TypeOK ==
  /\ object \in Object_ /\ published \in Nat /\ page \in Pages /\ CallsOK
  /\ tab \in Tabs /\ left \in [Kinds -> Nat]

---------------------------------------------------------------------------
(* The inductive invariant *)

\* Each open stream has a holder, and a start holds one only for a turn.
StreamsAreHeld(p) ==
  /\ p.open \subseteq {p.controller.stream, p.command.stream} /\ None \notin p.open
  /\ p.controller.stream # None => p.controller.turn # None
  /\ p.command.stream # None => p.command.kind = "mic" /\ p.command.turn # None
  /\ p.command.stage \in {"prompt", "fallback", "audio"} => p.command.stream # None

\* The controller is that of the turn and the driver that the page shows.
ControllerIsCurrent(p) ==
  p.controller.stream # None =>
    p.controller.turn = p.room.turn /\ p.controller.driver = p.room.driver

\* A start falls back only from a microphone that was missing.
ChoiceIsKept(p, t) ==
  /\ p.command.stage = "fallback" => p.command.device \in t.missing
  /\ t.stored # t.choice => t.stored = AutoMicrophone /\ t.choice \in t.missing
  /\ ~ t.notified /\ ~ t.blocked => t.memory = t.stored

\* Enumerations are numbered; the newest one, and no other, will be shown.
ListingsInOrder(dialog) ==
  /\ \A l \in dialog.listings :
       /\ l.number <= dialog.enumerations /\ l.refresh <= dialog.refresh
       /\ l.number = dialog.enumerations <=> l.refresh = dialog.refresh
  /\ \A l, k \in dialog.listings : l.number = k.number => l = k

\* Nothing is known of the microphones without the permission; and what is shown in
\* a dialog that has been allowed to see them was found with it.
ListsNeedPermission(dialog, t) ==
  /\ ~ t.permission => t.devices = {}
  /\ dialog.allowed => t.permission
  /\ dialog.open /\ ~ dialog.allowed => dialog.list = {} /\ t.devices = {}
  /\ \A l \in dialog.listings :
       /\ l.allowed => t.permission
       /\ l.stage = "found" /\ ~ l.allowed => l.found = {}
       /\ l.number = dialog.enumerations /\ l.stage = "found" /\ dialog.allowed => l.allowed

\* The newest enumeration of an open dialog is under way and will show the
\* microphones there are, or it has shown them, or the browser has not allowed it.
NewestWillShow(dialog, t) ==
  dialog.open /\ ~ t.changed =>
    /\ \A l \in dialog.listings :
         l.number = dialog.enumerations /\ l.stage = "found" /\ l.allowed =>
           l.found = t.plugged
    /\ \/ \E l \in dialog.listings : l.number = dialog.enumerations /\ l.stage # "prompt"
       \/ dialog.allowed => dialog.list = t.plugged /\ t.devices = t.plugged

ListIsComing(dialog, t) ==
  ListingsInOrder(dialog) /\ ListsNeedPermission(dialog, t) /\ NewestWillShow(dialog, t)

Tidy(p) == p \in Pages /\ StreamsAreHeld(p) /\ ControllerIsCurrent(p)

PageInv ==
  /\ TypeOK
  /\ StreamsAreHeld(page) /\ ControllerIsCurrent(page)
  /\ ChoiceIsKept(page, tab) /\ ListIsComing(page.dialog, tab)

---------------------------------------------------------------------------
(* What the functions of the page keep *)

\* Whatever p becomes, its dialog and its command stay or are over.
Follows(p, q) ==
  /\ Tidy(q)
  /\ q.dialog \in {p.dialog, NoDialog} /\ q.command \in {p.command, Idle}

LEMMA ConstantsType ==
  /\ NoRoom \in Rooms /\ NoController \in Controllers /\ Idle \in Commands
  /\ NoDialog \in Dialogs /\ Free \in Calls /\ Free.stage = "none"
  /\ NoRoom \notin Sent
<1>1. NoRoom \in Rooms /\ NoRoom \notin Sent
  BY DEF NoRoom, Rooms, Sent
<1>2. NoController \in Controllers
  BY DEF NoController, Controllers, Drivers, None
<1>3. Idle \in Commands
  BY DEF Idle, Commands, Drivers, Microphones, None
<1>4. NoDialog \in Dialogs
  BY DEF NoDialog, Dialogs, Drivers, None
<1>5. Free \in Calls /\ Free.stage = "none"
  BY <1>1 DEF Free, Calls, None
<1> QED
  BY <1>1, <1>2, <1>3, <1>4, <1>5

LEMMA SnapshotSent ==
  ASSUME NEW o \in Object_
  PROVE  Snapshot(o) \in Sent
  BY DEF Object_, Snapshot, Driver, Sent, Drivers, None

LEMMA StoppedKeeps ==
  ASSUME NEW p \in Pages, StreamsAreHeld(p)
  PROVE  /\ Stopped(p) \in Pages /\ StreamsAreHeld(Stopped(p))
         /\ ControllerIsCurrent(Stopped(p))
         /\ Stopped(p).open \subseteq {p.command.stream}
         /\ Stopped(p).command = p.command /\ Stopped(p).dialog = p.dialog
         /\ Stopped(p).room = p.room /\ Stopped(p).controller = NoController
<1>1. Stopped(p) = [p EXCEPT !.controller = NoController, !.open = p.open \ {p.controller.stream}]
  BY DEF Stopped
<1>2. Stopped(p) \in Pages
  BY <1>1, ConstantsType DEF Pages
<1>3. /\ Stopped(p).controller = NoController
      /\ Stopped(p).open = p.open \ {p.controller.stream}
      /\ Stopped(p).command = p.command /\ Stopped(p).dialog = p.dialog
      /\ Stopped(p).room = p.room
  BY <1>1 DEF Pages
<1>4. NoController.stream = None
  BY DEF NoController
<1> HIDE DEF Stopped
<1> QED
  BY <1>2, <1>3, <1>4 DEF StreamsAreHeld, ControllerIsCurrent

LEMMA ReconciledKeeps ==
  ASSUME NEW p \in Pages, StreamsAreHeld(p)
  PROVE  /\ Tidy(Reconciled(p)) /\ Reconciled(p).room = p.room
         /\ Reconciled(p).command = p.command /\ Reconciled(p).dialog = p.dialog
  BY StoppedKeeps DEF Reconciled, Tidy, StreamsAreHeld, ControllerIsCurrent

LEMMA RenderedKeeps ==
  ASSUME NEW p \in Pages, StreamsAreHeld(p), p.room # NoRoom \/ ControllerIsCurrent(p)
  PROVE  /\ Tidy(Rendered(p))
         /\ Rendered(p).command = p.command /\ Rendered(p).dialog = p.dialog
<1> DEFINE kept == Reconciled(p)
           local == kept.controller.turn # None /\ kept.controller.turn = kept.room.turn
           q == [kept EXCEPT !.runningLocally = local]
<1>1. Tidy(kept) /\ kept.command = p.command /\ kept.dialog = p.dialog
  BY ReconciledKeeps
<1>2. Rendered(p) = p \/ Rendered(p) = q
  BY DEF Rendered, WithControls
<1>3. p.room = NoRoom => Rendered(p) = p
  BY DEF Rendered
<1>4. p.room # NoRoom => Rendered(p) = q
  BY DEF Rendered, WithControls
<1> HIDE DEF kept
<1>5. local \in BOOLEAN
  OBVIOUS
<1> HIDE DEF local
<1>6. /\ q \in Pages /\ q.open = kept.open /\ q.controller = kept.controller
      /\ q.command = kept.command /\ q.room = kept.room /\ q.dialog = kept.dialog
  BY <1>1, <1>5 DEF Tidy, Pages
<1> HIDE DEF q
<1>7. Tidy(q)
  BY <1>1, <1>6 DEF Tidy, StreamsAreHeld, ControllerIsCurrent
<1> QED
  BY <1>1, <1>3, <1>4, <1>6, <1>7 DEF Tidy

LEMMA ConnectedKeeps ==
  ASSUME TypeOK, NEW p, Tidy(p)
  PROVE  Follows(p, Connected(p))
<1>1. Snapshot(object) \in Sent
  BY SnapshotSent DEF TypeOK
<1> DEFINE q == [p EXCEPT !.socket = "open", !.feed = <<Snapshot(object)>>]
<1>2. q \in Pages
  <2>1. <<Snapshot(object)>> \in Seq(Sent)
    BY <1>1
  <2> QED
    BY <2>1 DEF Tidy, Pages
<1>3. /\ q.open = p.open /\ q.controller = p.controller /\ q.command = p.command
      /\ q.room = p.room /\ q.dialog = p.dialog
  BY DEF Tidy, Pages
<1> HIDE DEF q
<1>4. Follows(p, q)
  BY <1>2, <1>3 DEF Follows, Tidy, StreamsAreHeld, ControllerIsCurrent
<1> QED
  BY <1>4 DEF q, Connected, Follows

LEMMA ClosedKeeps ==
  ASSUME NEW p, Tidy(p)
  PROVE  /\ Follows(p, Closed(p)) /\ Closed(p).command = p.command
         /\ Closed(p).dialog = NoDialog
<1> DEFINE q == [p EXCEPT !.dialog = NoDialog]
<1>1. q \in Pages
  BY ConstantsType DEF Tidy, Pages
<1>2. /\ q.open = p.open /\ q.controller = p.controller /\ q.command = p.command
      /\ q.room = p.room /\ q.dialog = NoDialog
  BY DEF Tidy, Pages
<1> HIDE DEF q
<1>3. Follows(p, q)
  BY <1>1, <1>2 DEF Follows, Tidy, StreamsAreHeld, ControllerIsCurrent
<1> QED
  BY <1>2, <1>3 DEF q, Closed

LEMMA AcceptedKeeps ==
  ASSUME TypeOK, NEW p, Tidy(p), NEW next \in Sent
  PROVE  Follows(p, Accepted(p, next)) /\ Accepted(p, next).command = p.command
<1> DEFINE told == [p EXCEPT !.room = next]
           kept == Rendered(told)
           shown == DialogReconciled(kept)
<1>1. /\ told \in Pages /\ told.room # NoRoom /\ told.command = p.command
      /\ told.dialog = p.dialog /\ StreamsAreHeld(told)
  <2>1. /\ told \in Pages /\ told.room = next /\ told.command = p.command
        /\ told.dialog = p.dialog /\ told.open = p.open /\ told.controller = p.controller
    BY DEF Tidy, Pages, Rooms
  <2> HIDE DEF told
  <2> QED
    BY <2>1, ConstantsType DEF Tidy, StreamsAreHeld
<1> HIDE DEF told
<1>2. Tidy(kept) /\ kept.command = p.command /\ kept.dialog = p.dialog
  BY <1>1, RenderedKeeps
<1> HIDE DEF kept
<1>3. Tidy(shown) /\ shown.command = p.command /\ shown.dialog \in {p.dialog, NoDialog}
  BY <1>2, ClosedKeeps DEF DialogReconciled, Follows
<1> HIDE DEF shown
<1>4. Follows(shown, Connected(shown)) /\ Connected(shown).command = shown.command
  <2>1. shown \in Pages
    BY <1>3 DEF Tidy
  <2>2. Connected(shown).command = shown.command
    BY <2>1 DEF Connected, Pages
  <2> QED
    BY <1>3, <2>2, ConnectedKeeps
<1>5. Accepted(p, next) = p \/ Accepted(p, next) = Connected(shown)
  BY DEF Accepted, shown, kept, told
<1> QED
  BY <1>3, <1>4, <1>5 DEF Follows

LEMMA ReleasedKeeps ==
  ASSUME NEW p, Tidy(p)
  PROVE  Follows(p, Released(p)) /\ Released(p).command = Idle
<1> DEFINE q == [p EXCEPT !.open = p.open \ {p.command.stream}, !.command = Idle]
<1>1. q \in Pages
  BY ConstantsType DEF Tidy, Pages
<1>2. /\ q.open = p.open \ {p.command.stream} /\ q.controller = p.controller
      /\ q.command = Idle /\ q.room = p.room /\ q.dialog = p.dialog
  BY DEF Tidy, Pages
<1>3. Idle.stream = None /\ Idle.stage = "no"
  BY DEF Idle
<1> HIDE DEF q
<1>4. Follows(p, q)
  BY <1>1, <1>2, <1>3 DEF Follows, Tidy, StreamsAreHeld, ControllerIsCurrent
<1> QED
  BY <1>2, <1>4 DEF q, Released

\* The controller of a start that is current is current.
LEMMA StartedKeeps ==
  ASSUME NEW p, Tidy(p), NEW c \in Commands,
         p.open \subseteq {p.controller.stream, c.stream},
         c.stream # None => /\ c.turn # None
                            /\ c.turn = p.room.turn /\ c.driver = p.room.driver
  PROVE  Follows(p, Started(p, c)) /\ Started(p, c).command = Idle
<1> DEFINE mine == [turn |-> c.turn, driver |-> c.driver, mode |-> c.kind, stream |-> c.stream]
           q == [Stopped(p) EXCEPT !.controller = mine, !.command = Idle]
<1>1. mine \in Controllers /\ mine.turn = c.turn /\ mine.driver = c.driver
      /\ mine.stream = c.stream
  BY DEF Commands, Controllers
<1>2. /\ Stopped(p) \in Pages /\ Stopped(p).room = p.room /\ Stopped(p).dialog = p.dialog
      /\ Stopped(p).open = p.open \ {p.controller.stream}
  <2>1. Stopped(p).open = p.open \ {p.controller.stream}
    BY DEF Stopped, Tidy, Pages
  <2> QED
    BY <2>1, StoppedKeeps DEF Tidy
<1> HIDE DEF mine
<1>3. q \in Pages
  BY <1>1, <1>2, ConstantsType DEF Pages
<1>4. /\ q.controller = mine /\ q.command = Idle /\ q.room = p.room
      /\ q.dialog = p.dialog /\ q.open = p.open \ {p.controller.stream}
  BY <1>2 DEF Pages
<1>5. Idle.stream = None /\ Idle.stage = "no"
  BY DEF Idle
<1> HIDE DEF q
<1>6. StreamsAreHeld(q) /\ ControllerIsCurrent(q)
  BY <1>1, <1>4, <1>5 DEF StreamsAreHeld, ControllerIsCurrent, Tidy
<1>7. Started(p, c) = Rendered(q)
  BY DEF Started, q, mine
<1> QED
  BY <1>3, <1>4, <1>6, <1>7, RenderedKeeps DEF Follows

---------------------------------------------------------------------------
(* What a step keeps                                                       *)

\* A page that may be shown with the tab as it is.
Fits(q) == Tidy(q) /\ ChoiceIsKept(q, tab) /\ ListIsComing(q.dialog, tab)

LEMMA NoDialogComes ==
  ASSUME NEW t, ~ t.permission => t.devices = {}
  PROVE  ListIsComing(NoDialog, t)
  BY DEF ListIsComing, ListingsInOrder, ListsNeedPermission, NewestWillShow, NoDialog

LEMMA FollowsFits ==
  ASSUME PageInv, NEW q, Follows(page, q)
  PROVE  Fits(q)
<1>1. ListIsComing(q.dialog, tab)
  BY NoDialogComes DEF PageInv, Follows, ListIsComing, ListsNeedPermission
<1>2. ChoiceIsKept(q, tab)
  BY DEF PageInv, Follows, ChoiceIsKept, Idle
<1> QED
  BY <1>1, <1>2 DEF Fits, Follows

LEMMA PageFits ==
  ASSUME PageInv
  PROVE  Follows(page, page) /\ Tidy(page) /\ Fits(page)
  BY FollowsFits DEF PageInv, Follows, Tidy, TypeOK

LEMMA TabStepKeeps ==
  ASSUME Tidy(page'), ChoiceIsKept(page', tab'), ListIsComing(page'.dialog, tab'),
         tab' \in Tabs, object' \in Object_, published' \in Nat, CallsOK',
         left' \in [Kinds -> Nat]
  PROVE  PageInv'
  BY DEF PageInv, Tidy, TypeOK, StreamsAreHeld, ControllerIsCurrent, ChoiceIsKept,
     ListIsComing, ListingsInOrder, ListsNeedPermission, NewestWillShow

LEMMA StepKeeps ==
  ASSUME PageInv, Fits(page'), UNCHANGED tab, object' \in Object_, published' \in Nat,
         CallsOK', left' \in [Kinds -> Nat]
  PROVE  PageInv'
  BY DEF PageInv, Fits, Tidy, TypeOK, StreamsAreHeld, ControllerIsCurrent, ChoiceIsKept,
     ListIsComing, ListingsInOrder, ListsNeedPermission, NewestWillShow

LEMMA ShowsKeeps ==
  ASSUME PageInv, NEW q, Fits(q), Shows(q), UNCHANGED <<object, tab>>,
         CallsOK', left' \in [Kinds -> Nat]
  PROVE  PageInv'
<1>1. published' \in Nat /\ object' \in Object_
  BY DEF Shows, PageInv, TypeOK, Object_
<1> QED
  BY <1>1, StepKeeps DEF Shows

LEMMA CallsUnchanged ==
  ASSUME PageInv, UNCHANGED calls
  PROVE  CallsOK'
  BY DEF PageInv, TypeOK, CallsOK

LEMMA SpendType ==
  ASSUME PageInv, NEW kind \in Kinds, Spend(kind)
  PROVE  left' \in [Kinds -> Nat] /\ left[kind] \in Nat \ {0}
  BY DEF PageInv, TypeOK, Spend

LEMMA AskKeeps ==
  ASSUME PageInv, NEW kind \in {"state", "reconnect", "begin", "submit", "redraw"},
         NEW turn \in Nat, NEW generation \in Nat, Ask(kind, turn, generation)
  PROVE  CallsOK'
<1> DEFINE call == [Free EXCEPT !.kind = kind, !.turn = turn, !.generation = generation,
                                !.stage = "sent"]
<1>1. call \in Calls /\ call.stage = "sent" /\ call.kind = kind
  BY DEF Free, Calls, None, Rooms
<1> HIDE DEF call
<1>2. PICK s : calls' = [calls EXCEPT ![s] = call]
  BY DEF Ask, call
<1> QED
  BY <1>1, <1>2 DEF PageInv, TypeOK, CallsOK

\* A command begins when none is under way.
LEMMA CommandFits ==
  ASSUME PageInv, page.command = Idle, NEW c \in Commands,
         c.stream # None => c.kind = "mic" /\ c.turn # None,
         c.stage \in {"prompt", "audio"} => c.stream # None, c.stage # "fallback"
  PROVE  /\ Fits([page EXCEPT !.command = c])
         /\ [page EXCEPT !.command = c].command = c
<1> DEFINE q == [page EXCEPT !.command = c]
<1>1. q \in Pages
  BY DEF PageInv, TypeOK, Pages
<1>2. /\ q.open = page.open /\ q.controller = page.controller /\ q.command = c
      /\ q.room = page.room /\ q.dialog = page.dialog
  BY DEF PageInv, TypeOK, Pages
<1>3. Idle.stream = None
  BY DEF Idle
<1> HIDE DEF q
<1>4. StreamsAreHeld(q) /\ ControllerIsCurrent(q)
  BY <1>2, <1>3 DEF PageInv, StreamsAreHeld, ControllerIsCurrent
<1>5. ChoiceIsKept(q, tab) /\ ListIsComing(q.dialog, tab)
  BY <1>2 DEF PageInv, ChoiceIsKept
<1>6. Fits(q)
  BY <1>1, <1>4, <1>5 DEF Fits, Tidy
<1> QED
  BY <1>2, <1>6 DEF q

LEMMA CommandType ==
  ASSUME PageInv, NEW kind \in {"manual", "mic", "act"}, NEW stage \in {"no", "asked", "prompt"}
  PROVE  /\ Command(kind, stage) \in Commands
         /\ Command(kind, stage).stream = None /\ Command(kind, stage).stage = stage
         /\ Command(kind, stage).kind = kind
         /\ Command(kind, stage).turn = page.room.turn
<1>1. page.room.turn \in Nat /\ page.room.driver \in Drivers /\ page.generation \in Nat
      /\ page.room.begun \in BOOLEAN
  <2>1. page.room \in Rooms /\ page.generation \in Nat
    BY DEF PageInv, TypeOK, Pages
  <2>2. CASE page.room \in Sent
    BY <2>1, <2>2 DEF Sent
  <2>3. CASE page.room = NoRoom
    BY <2>1, <2>3 DEF NoRoom, None, Drivers
  <2> QED
    BY <2>1, <2>2, <2>3 DEF Rooms
<1> QED
  BY <1>1, ConstantsType DEF Command, Commands, Idle

\* Whoever drives has a turn.
LEMMA DriverHasTurn ==
  ASSUME PageInv, Drives
  PROVE  page.room.turn # None
  BY DEF PageInv, TypeOK, Pages, Drives, Rooms, Sent, NoRoom

---------------------------------------------------------------------------
(* The object and the network                                              *)

LEMMA BroadcastKeeps ==
  ASSUME PageInv, NEW o \in Object_, Broadcast(o), UNCHANGED tab,
         CallsOK', left' \in [Kinds -> Nat]
  PROVE  PageInv'
<1>1. Fits(page')
  <2> DEFINE q == [page EXCEPT !.feed = Append(page.feed, Snapshot(o))]
  <2>1. Snapshot(o) \in Sent /\ page \in Pages
    BY SnapshotSent DEF PageInv, TypeOK
  <2>2. /\ q \in Pages /\ q.open = page.open /\ q.controller = page.controller
        /\ q.command = page.command /\ q.room = page.room /\ q.dialog = page.dialog
    <3>1. page.feed \in Seq(Sent) /\ Append(page.feed, Snapshot(o)) \in Seq(Sent)
      BY <2>1 DEF Pages
    <3> QED
      BY <2>1, <3>1 DEF Pages
  <2>3. page' = page \/ page' = q
    BY DEF Broadcast
  <2> HIDE DEF q
  <2>4. Follows(page, q)
    BY <2>2 DEF Follows, Tidy, PageInv, StreamsAreHeld, ControllerIsCurrent
  <2> QED
    BY <2>3, <2>4, FollowsFits, PageFits
<1>2. published' \in Nat /\ object' \in Object_
  BY DEF Broadcast, Object_
<1> QED
  BY <1>1, <1>2, StepKeeps

LEMMA ObjectsType ==
  ASSUME NEW o \in Object_
  PROVE  /\ Touched(o) \in Object_ /\ NewTurn(o) \in Object_ /\ TurnOver(o) \in Object_
         /\ \A b \in BOOLEAN : /\ [o EXCEPT !.mine = b] \in Object_
                               /\ [o EXCEPT !.host = b] \in Object_
                               /\ [o EXCEPT !.begun = b] \in Object_
                               /\ [o EXCEPT !.late = b] \in Object_
<1>1. Touched(o) \in Object_
  BY DEF Object_, Touched
<1>2. NewTurn(o) \in Object_
  <2> DEFINE n == o.last + 1
  <2>1. n \in Nat
    BY DEF Object_
  <2>2. NewTurn(o) = [o EXCEPT !.turn = n, !.last = n, !.begun = FALSE, !.late = FALSE]
    BY DEF NewTurn
  <2> HIDE DEF n
  <2> QED
    BY <2>1, <2>2 DEF Object_
<1>3. TurnOver(o) \in Object_
  BY DEF Object_, TurnOver, None
<1>4. ASSUME NEW b \in BOOLEAN
      PROVE  /\ [o EXCEPT !.mine = b] \in Object_ /\ [o EXCEPT !.host = b] \in Object_
             /\ [o EXCEPT !.begun = b] \in Object_ /\ [o EXCEPT !.late = b] \in Object_
  BY <1>4 DEF Object_
<1> QED
  BY <1>1, <1>2, <1>3, <1>4

LEMMA OthersActKeeps ==
  ASSUME PageInv, OthersAct
  PROVE  PageInv'
<1> DEFINE o == Touched(object)
<1>1. o \in Object_ /\ o.host \in BOOLEAN
  BY ObjectsType DEF PageInv, TypeOK, Object_
<1>2. CallsOK' /\ left' \in [Kinds -> Nat]
  BY CallsUnchanged, SpendType DEF OthersAct, Kinds
<1>3. \/ \E other \in Object_ : Broadcast(other)
      \/ object' = o /\ UNCHANGED <<published, page>>
  <2> HIDE DEF o
  <2>1. /\ o \in Object_ /\ NewTurn(o) \in Object_ /\ TurnOver(o) \in Object_
        /\ [o EXCEPT !.begun = TRUE] \in Object_
        /\ [o EXCEPT !.host = ~ o.host] \in Object_
        /\ \A mine \in BOOLEAN : NewTurn([o EXCEPT !.mine = mine]) \in Object_
    BY <1>1, ObjectsType
  <2>2. \/ Broadcast(o)
        \/ object' = o /\ UNCHANGED <<published, page>>
        \/ \E mine \in BOOLEAN : Broadcast(NewTurn([o EXCEPT !.mine = mine]))
        \/ Broadcast([o EXCEPT !.begun = TRUE])
        \/ Broadcast(TurnOver(o)) \/ Broadcast(NewTurn(o))
        \/ Broadcast([o EXCEPT !.host = ~ o.host])
    BY DEF OthersAct, o
  <2> QED
    BY <2>1, <2>2
<1> HIDE DEF o
<1>4. UNCHANGED tab
  BY DEF OthersAct
<1>5. CASE \E other \in Object_ : Broadcast(other)
  BY <1>2, <1>4, <1>5, BroadcastKeeps
<1>6. CASE object' = o /\ UNCHANGED <<published, page>>
  <2>1. Fits(page') /\ published' \in Nat
    BY <1>6, PageFits DEF PageInv, TypeOK
  <2> QED
    BY <1>1, <1>2, <1>4, <1>6, <2>1, StepKeeps
<1> QED
  BY <1>3, <1>5, <1>6

LEMMA TimePassesKeeps ==
  ASSUME PageInv, TimePasses
  PROVE  PageInv'
<1>1. object' \in Object_ /\ published' \in Nat /\ CallsOK' /\ left' \in [Kinds -> Nat]
  BY ObjectsType, CallsUnchanged DEF TimePasses, PageInv, TypeOK
<1>2. Fits(page') /\ UNCHANGED tab
  BY PageFits DEF TimePasses
<1> QED
  BY <1>1, <1>2, StepKeeps

LEMMA ServeKeeps ==
  ASSUME PageInv, NEW s \in Slots, Serve(s)
  PROVE  PageInv'
<1> DEFINE call == calls[s]
           Answered(stage, room) == [calls EXCEPT ![s].stage = stage, ![s].room = room]
<1>1. call \in Calls /\ call.stage = "sent" /\ call.kind # "none"
  BY DEF Serve, PageInv, TypeOK, CallsOK
<1>2. ASSUME NEW stage \in {"done", "failed"}, NEW room \in Rooms,
             stage = "done" => room \in Sent, calls' = Answered(stage, room)
      PROVE  CallsOK'
  <2>1. /\ calls' \in [Slots -> Calls]
        /\ \A other \in Slots :
             calls'[other] = IF other = s THEN [call EXCEPT !.stage = stage, !.room = room]
                             ELSE calls[other]
    BY <1>1, <1>2 DEF PageInv, TypeOK, CallsOK, Calls
  <2>2. calls'[s].stage = stage /\ calls'[s].room = room
    BY <1>1, <2>1 DEF Calls
  <2> QED
    BY <2>1, <2>2, <1>2 DEF PageInv, TypeOK, CallsOK
<1>3. Snapshot(object) \in Sent /\ object \in Object_
  BY SnapshotSent DEF PageInv, TypeOK
<1>4. UNCHANGED <<tab, left>> /\ left' \in [Kinds -> Nat]
  BY DEF Serve, PageInv, TypeOK
<1>5. CASE calls' = Answered("done", Snapshot(object)) /\ UNCHANGED <<object, published, page>>
  <2>1. CallsOK'
    BY <1>2, <1>3, <1>5 DEF Rooms
  <2>2. Fits(page') /\ published' \in Nat /\ object' \in Object_
    BY <1>5, PageFits DEF PageInv, TypeOK
  <2> QED
    BY <1>4, <2>1, <2>2, StepKeeps
<1>6. CASE /\ call.kind \in {"begin", "submit", "redraw"}
           /\ calls' = Answered("done", Snapshot(Applied(call))) /\ Broadcast(Applied(call))
  <2>1. Applied(call) \in Object_
    <3> HIDE DEF call
    <3>1. CASE call.kind = "begin"
      BY <1>3, <3>1, ObjectsType DEF Applied
    <3>2. CASE call.kind = "submit"
      BY <1>3, <3>2, ObjectsType DEF Applied
    <3>3. CASE call.kind = "redraw"
      BY <1>3, <3>3, ObjectsType DEF Applied
    <3> QED
      BY <1>6, <3>1, <3>2, <3>3
  <2>2. Snapshot(Applied(call)) \in Sent
    BY <2>1, SnapshotSent
  <2>3. CallsOK'
    BY <1>2, <1>6, <2>2 DEF Rooms
  <2> HIDE DEF call
  <2> QED
    BY <1>4, <1>6, <2>1, <2>3, BroadcastKeeps
<1>7. CASE calls' = Answered("failed", NoRoom) /\ UNCHANGED <<object, published, page>>
  <2>1. CallsOK'
    BY <1>2, <1>7, ConstantsType
  <2>2. Fits(page') /\ published' \in Nat /\ object' \in Object_
    BY <1>7, PageFits DEF PageInv, TypeOK
  <2> QED
    BY <1>4, <2>1, <2>2, StepKeeps
<1>8. call.kind \in {"state", "reconnect", "begin", "submit", "redraw"}
  BY <1>1 DEF Calls
<1> QED
  BY <1>5, <1>6, <1>7, <1>8 DEF Serve

LEMMA LoseKeeps ==
  ASSUME PageInv, NEW s \in Slots, Lose(s)
  PROVE  PageInv'
<1>1. CallsOK'
  <2>1. calls[s] \in Calls
    BY DEF PageInv, TypeOK, CallsOK
  <2>2. /\ calls' \in [Slots -> Calls] /\ calls'[s].stage = "failed"
        /\ \A other \in Slots : other # s => calls'[other] = calls[other]
    BY <2>1 DEF Lose, PageInv, TypeOK, CallsOK, Calls
  <2> QED
    BY <2>2 DEF PageInv, TypeOK, CallsOK
<1>2. left' \in [Kinds -> Nat]
  BY SpendType DEF Lose, Kinds
<1>3. Fits(page') /\ published' \in Nat /\ object' \in Object_ /\ UNCHANGED tab
  BY PageFits DEF Lose, PageInv, TypeOK
<1> QED
  BY <1>1, <1>2, <1>3, StepKeeps

---------------------------------------------------------------------------
(* Following the room                                                      *)

LEMMA FollowsOn ==
  ASSUME NEW p, NEW q, NEW r, Follows(p, q), Follows(q, r)
  PROVE  Follows(p, r)
  BY DEF Follows

LEMMA ReceiveLiveKeeps ==
  ASSUME PageInv, ReceiveLive
  PROVE  PageInv'
<1> DEFINE p == [page EXCEPT !.feed = Tail(page.feed)]
           next == Head(page.feed)
<1>1. next \in Sent /\ Tail(page.feed) \in Seq(Sent) /\ page \in Pages
  BY DEF ReceiveLive, PageInv, TypeOK, Pages
<1>2. Follows(page, p)
  <2>1. /\ p \in Pages /\ p.open = page.open /\ p.controller = page.controller
        /\ p.command = page.command /\ p.room = page.room /\ p.dialog = page.dialog
    BY <1>1 DEF Pages
  <2> HIDE DEF p
  <2> QED
    BY <2>1 DEF Follows, Tidy, PageInv, StreamsAreHeld, ControllerIsCurrent
<1>3. Shows(Accepted(p, next))
  BY DEF ReceiveLive
<1> HIDE DEF p, next
<1>4. Follows(page, Accepted(p, next))
  BY <1>1, <1>2, AcceptedKeeps, FollowsOn DEF Follows, PageInv
<1>5. CallsOK' /\ left' \in [Kinds -> Nat] /\ UNCHANGED <<object, tab>>
  BY CallsUnchanged DEF ReceiveLive, PageInv, TypeOK
<1> QED
  BY <1>3, <1>4, <1>5, FollowsFits, ShowsKeeps

LEMMA CurrentStarts ==
  ASSUME NEW p, Tidy(p), IsCurrent(p, p.command)
  PROVE  Follows(p, Started(p, p.command))
<1>1. p.command \in Commands /\ p.open \subseteq {p.controller.stream, p.command.stream}
  BY DEF Tidy, Pages, StreamsAreHeld
<1>2. p.command.stream # None =>
        /\ p.command.turn # None
        /\ p.command.turn = p.room.turn /\ p.command.driver = p.room.driver
  BY DEF Tidy, StreamsAreHeld, IsCurrent
<1> QED
  BY <1>1, <1>2, StartedKeeps

LEMMA ContinuedKeeps ==
  ASSUME NEW p, Tidy(p)
  PROVE  Follows(p, Continued(p, p.command))
  BY CurrentStarts, ReleasedKeeps DEF Continued

\* A command without a stream is over without a trace.
LEMMA IdleKeeps ==
  ASSUME NEW p, Tidy(p), p.command.kind = "act"
  PROVE  Follows(p, [p EXCEPT !.command = Idle])
<1> DEFINE q == [p EXCEPT !.command = Idle]
<1>1. /\ q \in Pages /\ q.open = p.open /\ q.controller = p.controller
      /\ q.command = Idle /\ q.room = p.room /\ q.dialog = p.dialog
  BY ConstantsType DEF Tidy, Pages
<1>2. Idle.stream = None /\ Idle.stage = "no"
  BY DEF Idle
<1> HIDE DEF q
<1>3. Follows(p, q)
  BY <1>1, <1>2 DEF Follows, Tidy, StreamsAreHeld, ControllerIsCurrent
<1> QED
  BY <1>3 DEF q

LEMMA ReceiveKeeps ==
  ASSUME PageInv, NEW s \in Slots, Receive(s)
  PROVE  PageInv'
<1> DEFINE call == calls[s]
           told == IF call.stage = "done" /\ call.generation = page.generation
                   THEN Accepted(page, call.room) ELSE page
<1>1. call \in Calls /\ (call.stage = "done" => call.room \in Sent)
  BY DEF PageInv, TypeOK, CallsOK
<1>2. Follows(page, told) /\ told.command = page.command
  BY <1>1, PageFits, AcceptedKeeps DEF PageInv
<1>3. PICK q : /\ Shows(q)
               /\ \/ q = Continued(told, page.command) \/ q = Released(told)
                  \/ /\ page.command.kind = "act"
                     /\ q = [told EXCEPT !.command = Idle]
                  \/ q = told \/ q = Connected(told)
  <2>1. /\ call.kind = "begin" => Shows(IF call.stage = "done" THEN Continued(told, page.command)
                                      ELSE Released(told))
        /\ call.kind \in {"submit", "redraw"} =>
             Shows(IF page.command.kind = "act" /\ page.command.turn = call.turn
                   THEN [told EXCEPT !.command = Idle] ELSE told)
        /\ call.kind = "reconnect" =>
             Shows(IF told.room # NoRoom THEN Connected(told) ELSE told)
        /\ call.kind \notin {"begin", "submit", "redraw", "reconnect"} => Shows(told)
    BY DEF Receive
  <2> HIDE DEF told, call
  <2> QED
    BY <2>1
<1> HIDE DEF told
<1>4. Follows(told, q)
  BY <1>2, <1>3, ContinuedKeeps, ReleasedKeeps, IdleKeeps, ConnectedKeeps
     DEF Follows, PageInv
<1>5. CallsOK'
  <2>1. calls' = [calls EXCEPT ![s] = Free]
    BY DEF Receive
  <2> QED
    BY <2>1, ConstantsType DEF PageInv, TypeOK, CallsOK
<1>6. left' \in [Kinds -> Nat] /\ UNCHANGED <<object, tab>>
  BY DEF Receive, PageInv, TypeOK
<1> QED
  BY <1>2, <1>3, <1>4, <1>5, <1>6, FollowsOn, FollowsFits, ShowsKeeps

\* Only the socket changes, or what comes over it.
LEMMA SocketKeeps ==
  ASSUME PageInv, NEW socket \in {"open", "waiting", "reading", "closed"},
         \/ page' = [page EXCEPT !.socket = socket]
         \/ page' = [page EXCEPT !.socket = socket, !.feed = <<>>],
         UNCHANGED <<object, published, tab>>, CallsOK', left' \in [Kinds -> Nat]
  PROVE  PageInv'
<1>1. /\ page' \in Pages /\ page'.open = page.open /\ page'.controller = page.controller
      /\ page'.command = page.command /\ page'.room = page.room
      /\ page'.dialog = page.dialog
  <2>1. page \in Pages /\ <<>> \in Seq(Sent)
    BY DEF PageInv, TypeOK
  <2>2. CASE page' = [page EXCEPT !.socket = socket]
    BY <2>1, <2>2 DEF Pages
  <2>3. CASE page' = [page EXCEPT !.socket = socket, !.feed = <<>>]
    BY <2>1, <2>3 DEF Pages
  <2> QED
    BY <2>2, <2>3
<1>2. Follows(page, page')
  BY <1>1 DEF Follows, Tidy, PageInv, StreamsAreHeld, ControllerIsCurrent
<1>3. object' \in Object_ /\ published' \in Nat
  BY DEF PageInv, TypeOK
<1> QED
  BY <1>2, <1>3, FollowsFits, StepKeeps

LEMMA ReconnectKeeps ==
  ASSUME PageInv, Reconnect
  PROVE  PageInv'
<1>1. CallsOK'
  BY AskKeeps DEF Reconnect, None, PageInv, TypeOK, Pages
<1>2. left' \in [Kinds -> Nat]
  BY DEF Reconnect, PageInv, TypeOK
<1> QED
  BY <1>1, <1>2, SocketKeeps DEF Reconnect

LEMMA BreakKeeps ==
  ASSUME PageInv, Break
  PROVE  PageInv'
<1>1. CallsOK' /\ left' \in [Kinds -> Nat]
  BY CallsUnchanged, SpendType DEF Break, Kinds
<1> QED
  BY <1>1, SocketKeeps DEF Break

LEMMA LeaveRoomKeeps ==
  ASSUME PageInv, LeaveRoom
  PROVE  PageInv'
<1> DEFINE p == Closed(Stopped(page))
<1>1. /\ Tidy(Stopped(page)) /\ Stopped(page).command = page.command
      /\ Stopped(page).controller = NoController
  BY StoppedKeeps DEF Tidy, PageInv, TypeOK
<1>2. /\ Follows(Stopped(page), p) /\ p.command = page.command
      /\ p.dialog = NoDialog /\ p.controller = NoController
  <2>1. p.controller = NoController
    BY <1>1 DEF Closed, Tidy, Pages
  <2> QED
    BY <1>1, <2>1, ClosedKeeps
<1>3. page' = [p EXCEPT !.route = "other", !.generation = p.generation + 1,
                        !.room = NoRoom, !.runningLocally = FALSE,
                        !.socket = "closed", !.feed = <<>>]
  BY DEF LeaveRoom
<1> HIDE DEF p
<1>4. p \in Pages
  BY <1>2 DEF Follows, Tidy
<1>5. /\ page'.open = p.open /\ page'.controller = p.controller
      /\ page'.command = p.command /\ page'.dialog = p.dialog /\ page' \in Pages
  <2>1. p.generation + 1 \in Nat /\ <<>> \in Seq(Sent)
    BY <1>4 DEF Pages
  <2> QED
    BY <1>3, <1>4, <2>1, ConstantsType DEF Pages
<1>6. Follows(page, page')
  <2>1. NoController.stream = None
    BY DEF NoController
  <2> QED
    BY <1>2, <1>5, <2>1 DEF Follows, Tidy, StreamsAreHeld, ControllerIsCurrent
<1>7. /\ CallsOK' /\ left' \in [Kinds -> Nat] /\ UNCHANGED <<object, published, tab>>
      /\ object' \in Object_ /\ published' \in Nat
  BY CallsUnchanged, SpendType DEF LeaveRoom, Kinds, PageInv, TypeOK
<1> QED
  BY <1>6, <1>7, FollowsFits, StepKeeps

LEMMA OpenRoomKeeps ==
  ASSUME PageInv, OpenRoom
  PROVE  PageInv'
<1> DEFINE n == page.generation + 1
<1>1. n \in Nat /\ page \in Pages
  BY DEF PageInv, TypeOK, Pages
<1>2. /\ page' \in Pages /\ page'.open = page.open /\ page'.controller = page.controller
      /\ page'.command = page.command /\ page'.room = page.room
      /\ page'.dialog = page.dialog
  <2>1. page' = [page EXCEPT !.route = "room", !.generation = n]
    BY DEF OpenRoom
  <2> HIDE DEF n
  <2>2. page' \in Pages
    BY <1>1, <2>1 DEF Pages
  <2>3. /\ page'.open = page.open /\ page'.controller = page.controller
        /\ page'.command = page.command /\ page'.room = page.room
        /\ page'.dialog = page.dialog
    BY <1>1, <2>1 DEF Pages
  <2> QED
    BY <2>2, <2>3
<1>3. Follows(page, page')
  BY <1>2 DEF Follows, Tidy, PageInv, StreamsAreHeld, ControllerIsCurrent
<1>4. CallsOK'
  BY <1>1, AskKeeps DEF OpenRoom, None
<1>5. /\ left' \in [Kinds -> Nat] /\ UNCHANGED <<object, published, tab>>
      /\ object' \in Object_ /\ published' \in Nat
  BY SpendType DEF OpenRoom, Kinds, PageInv, TypeOK
<1> QED
  BY <1>3, <1>4, <1>5, FollowsFits, StepKeeps

---------------------------------------------------------------------------
(* Driving a turn                                                          *)

LEMMA AskTurnKeeps ==
  ASSUME PageInv, NEW kind \in {"begin", "submit", "redraw"},
         Ask(kind, page.room.turn, page.generation)
  PROVE  CallsOK'
<1>1. page.room.turn \in Nat /\ page.generation \in Nat
  BY DEF PageInv, TypeOK, Pages, Rooms, Sent, NoRoom, None
<1> QED
  BY <1>1, AskKeeps

LEMMA StartManualKeeps ==
  ASSUME PageInv, StartManual
  PROVE  PageInv'
<1>1. page.command = Idle /\ UNCHANGED <<object, tab>> /\ left' \in [Kinds -> Nat]
  BY DEF StartManual, CanStart, PageInv, TypeOK
<1>2. CASE Shows(Started(page, Command("manual", "no"))) /\ UNCHANGED calls
  <2>1. page.open \subseteq {page.controller.stream, None}
    BY <1>1 DEF PageInv, StreamsAreHeld, Idle
  <2>2. Follows(page, Started(page, Command("manual", "no")))
    BY <2>1, PageFits, CommandType, StartedKeeps
  <2> QED
    BY <1>1, <1>2, <2>2, FollowsFits, CallsUnchanged, ShowsKeeps
<1>3. CASE /\ Shows([page EXCEPT !.command = Command("manual", "asked")])
           /\ Ask("begin", page.room.turn, page.generation)
  <2>1. Fits([page EXCEPT !.command = Command("manual", "asked")])
    BY <1>1, CommandType, CommandFits
  <2> QED
    BY <1>1, <1>3, <2>1, AskTurnKeeps, ShowsKeeps
<1> QED
  BY <1>2, <1>3 DEF StartManual

LEMMA StartMicrophoneKeeps ==
  ASSUME PageInv, StartMicrophone
  PROVE  PageInv'
<1> DEFINE asked == Command("mic", "prompt")
           c == [asked EXCEPT !.stream = left.starts, !.device = tab.memory]
<1>1. left.starts \in Nat \ {0} /\ left' \in [Kinds -> Nat]
  BY SpendType DEF StartMicrophone, Kinds
<1>2. page.command = Idle /\ page.room.turn # None
  BY DriverHasTurn DEF StartMicrophone, CanStart, InHand
<1>3. /\ asked \in Commands /\ asked.kind = "mic" /\ asked.turn = page.room.turn
      /\ asked.stage = "prompt"
  BY CommandType
<1>4. tab.memory \in Microphones
  BY DEF PageInv, TypeOK, Tabs
<1> HIDE DEF asked
<1>5. /\ c \in Commands /\ c.stream = left.starts /\ c.kind = "mic"
      /\ c.turn = page.room.turn /\ c.stage = "prompt"
  BY <1>1, <1>3, <1>4 DEF Commands
<1>6. page' = [page EXCEPT !.command = c]
  BY DEF StartMicrophone, asked
<1> HIDE DEF c
<1>7. Fits(page')
  BY <1>1, <1>2, <1>5, <1>6, CommandFits DEF None
<1>8. object' \in Object_ /\ published' \in Nat /\ UNCHANGED tab /\ CallsOK'
  BY CallsUnchanged DEF StartMicrophone, PageInv, TypeOK
<1> QED
  BY <1>1, <1>7, <1>8, StepKeeps

\* A start goes on to its next await, for a stream of its own.
LEMMA StageKeeps ==
  ASSUME PageInv, NEW t \in Tabs, ChoiceIsKept(page, t), ListIsComing(page.dialog, t),
         page.command.stream # None, NEW stage \in {"asked", "fallback", "audio"},
         stage = "fallback" => page.command.device \in t.missing,
         NEW q,
         \/ q = [page EXCEPT !.command.stage = stage]
         \/ q = [page EXCEPT !.open = @ \cup {page.command.stream}, !.command.stage = stage]
  PROVE  Tidy(q) /\ ChoiceIsKept(q, t) /\ ListIsComing(q.dialog, t)
<1> DEFINE c == [page.command EXCEPT !.stage = stage]
           all == page.open \cup {page.command.stream}
<1>1. page \in Pages /\ page.command \in Commands /\ page.command.stream \in Nat
  BY DEF PageInv, TypeOK, Pages, Commands
<1>2. /\ c \in Commands /\ c.stage = stage /\ c.stream = page.command.stream
      /\ c.kind = page.command.kind /\ c.turn = page.command.turn
      /\ c.device = page.command.device
  BY <1>1 DEF Commands
<1>3. q = [page EXCEPT !.command = c] \/ q = [page EXCEPT !.open = all, !.command = c]
  BY <1>1 DEF Pages
<1>4. all \in SUBSET Nat
  BY <1>1 DEF Pages
<1> HIDE DEF c, all
<1>5. /\ q \in Pages /\ q.open \in {page.open, all} /\ q.command = c
      /\ q.controller = page.controller /\ q.room = page.room /\ q.dialog = page.dialog
  <2>1. CASE q = [page EXCEPT !.command = c]
    BY <1>1, <1>2, <2>1 DEF Pages
  <2>2. CASE q = [page EXCEPT !.open = all, !.command = c]
    BY <1>1, <1>2, <1>4, <2>2 DEF Pages
  <2> QED
    BY <1>3, <2>1, <2>2
<1>6. StreamsAreHeld(q) /\ ControllerIsCurrent(q)
  BY <1>2, <1>5 DEF PageInv, StreamsAreHeld, ControllerIsCurrent, all
<1>7. ChoiceIsKept(q, t) /\ ListIsComing(q.dialog, t)
  BY <1>2, <1>5 DEF ChoiceIsKept
<1> QED
  BY <1>5, <1>6, <1>7 DEF Tidy

\* The preference a start has missed may be forgotten.
LEMMA ForgottenKeeps ==
  ASSUME NEW tab0 \in Tabs, ChoiceIsKept(page, tab0), page.command.stage = "fallback"
  PROVE  LET t == Forgotten(tab0, page.command.device)
         IN  /\ t \in Tabs /\ t.changed = tab0.changed /\ t.plugged = tab0.plugged
             /\ t.devices = tab0.devices /\ t.permission = tab0.permission
             /\ ChoiceIsKept(page, t)
<1> DEFINE device == page.command.device
           t == Forgotten(tab0, device)
<1>1. device \in tab0.missing /\ AutoMicrophone \in Microphones
  BY DEF ChoiceIsKept, Microphones
<1> HIDE DEF device
<1>2. /\ t \in Tabs /\ t.changed = tab0.changed /\ t.plugged = tab0.plugged
      /\ t.devices = tab0.devices /\ t.missing = tab0.missing
      /\ t.permission = tab0.permission
      /\ t.notified = tab0.notified /\ t.blocked = tab0.blocked /\ t.choice = tab0.choice
      /\ t.stored = IF tab0.stored = device THEN AutoMicrophone ELSE tab0.stored
      /\ t.memory = IF tab0.memory # device THEN tab0.memory
                    ELSE IF tab0.stored = device THEN AutoMicrophone ELSE tab0.stored
  BY <1>1 DEF Forgotten, Tabs
<1> HIDE DEF t
<1>3. ChoiceIsKept(page, t)
  BY <1>1, <1>2 DEF ChoiceIsKept
<1> QED
  BY <1>2, <1>3 DEF t, device

\* Lists look at nothing of the tab but its devices, and a permission that comes
\* changes nothing that is known already.
LEMMA ListsOfTab ==
  ASSUME NEW dialog, NEW t, NEW u, ListIsComing(dialog, t),
         u.changed = t.changed, u.plugged = t.plugged, u.devices = t.devices,
         t.permission => u.permission
  PROVE  ListIsComing(dialog, u)
  BY DEF ListIsComing, ListingsInOrder, ListsNeedPermission, NewestWillShow

LEMMA PermittedKeeps ==
  ASSUME PageInv, NEW b \in BOOLEAN, tab.permission => b
  PROVE  LET t == [tab EXCEPT !.permission = b]
         IN  /\ t \in Tabs /\ t.changed = tab.changed /\ t.plugged = tab.plugged
             /\ t.devices = tab.devices /\ t.permission = b
             /\ ChoiceIsKept(page, t) /\ ListIsComing(page.dialog, t)
<1> DEFINE t == [tab EXCEPT !.permission = b]
<1>1. tab \in Tabs /\ ChoiceIsKept(page, tab) /\ ListIsComing(page.dialog, tab)
  BY DEF PageInv, TypeOK
<1>2. /\ t \in Tabs /\ t.changed = tab.changed /\ t.plugged = tab.plugged
      /\ t.devices = tab.devices /\ t.missing = tab.missing /\ t.permission = b
      /\ t.notified = tab.notified /\ t.blocked = tab.blocked /\ t.choice = tab.choice
      /\ t.stored = tab.stored /\ t.memory = tab.memory
  BY <1>1 DEF Tabs
<1> HIDE DEF t
<1>3. ChoiceIsKept(page, t) /\ ListIsComing(page.dialog, t)
  BY <1>1, <1>2, ListsOfTab DEF ChoiceIsKept
<1> QED
  BY <1>2, <1>3 DEF t

LEMMA ReleasedForTab ==
  ASSUME PageInv, NEW t, ChoiceIsKept(page, t), ListIsComing(page.dialog, t)
  PROVE  LET q == Released(page)
         IN  Tidy(q) /\ ChoiceIsKept(q, t) /\ ListIsComing(q.dialog, t)
<1>1. Follows(page, Released(page)) /\ Released(page).command = Idle
  BY PageFits, ReleasedKeeps
<1>2. Idle.stage = "no"
  BY DEF Idle
<1> QED
  BY <1>1, <1>2, NoDialogComes DEF Follows, ChoiceIsKept, ListIsComing, ListsNeedPermission

LEMMA GrantedKeeps ==
  ASSUME PageInv, page.command.stage \in {"prompt", "fallback"},
         NEW t \in Tabs, ChoiceIsKept(page, t), ListIsComing(page.dialog, t)
  PROVE  LET q == Granted(page)
         IN  Tidy(q) /\ ChoiceIsKept(q, t) /\ ListIsComing(q.dialog, t)
<1>1. page.command.stream # None
  BY DEF PageInv, StreamsAreHeld
<1>2. CASE IsCurrent(page, page.command)
  BY <1>1, <1>2, StageKeeps DEF Granted
<1>3. CASE ~ IsCurrent(page, page.command)
  BY <1>3, ReleasedForTab DEF Granted
<1> QED
  BY <1>2, <1>3

LEMMA AcquireKeeps ==
  ASSUME PageInv, Acquire
  PROVE  PageInv'
<1> DEFINE device == page.command.device
           t == [tab EXCEPT !.missing = tab.missing \cup {device}]
<1>1. /\ page.command.stage = "prompt" /\ page.command.stream # None
      /\ tab \in Tabs /\ device \in Microphones
      /\ ChoiceIsKept(page, tab) /\ ListIsComing(page.dialog, tab)
  BY DEF Acquire, PageInv, TypeOK, Pages, Commands, StreamsAreHeld
<1>2. CallsOK' /\ left' \in [Kinds -> Nat] /\ object' \in Object_
  BY CallsUnchanged DEF Acquire, PageInv, TypeOK
<1>3. CASE Shows(Granted(page)) /\ tab' = [tab EXCEPT !.permission = TRUE]
  <2>1. tab' \in Tabs /\ ChoiceIsKept(page, tab') /\ ListIsComing(page.dialog, tab')
    BY <1>3, PermittedKeeps
  <2>2. /\ Tidy(Granted(page)) /\ ChoiceIsKept(Granted(page), tab')
        /\ ListIsComing(Granted(page).dialog, tab')
    BY <1>1, <2>1, GrantedKeeps
  <2>3. page' = Granted(page) /\ published' \in Nat
    BY <1>3 DEF Shows, PageInv, TypeOK, Object_
  <2> QED
    BY <1>2, <2>1, <2>2, <2>3, TabStepKeeps
<1>4. CASE /\ Shows(IF IsCurrent(page, page.command)
                    THEN [page EXCEPT !.command.stage = "fallback"] ELSE Released(page))
           /\ tab' = [tab EXCEPT !.missing = @ \cup {device}]
  <2>1. tab' = t
    BY <1>4
  <2>2. /\ t \in Tabs /\ t.missing = tab.missing \cup {device} /\ t.stored = tab.stored
        /\ t.choice = tab.choice /\ t.notified = tab.notified /\ t.blocked = tab.blocked
        /\ t.memory = tab.memory /\ t.changed = tab.changed /\ t.plugged = tab.plugged
        /\ t.devices = tab.devices /\ t.permission = tab.permission
    <3> DEFINE found == tab.missing \cup {device}
    <3>1. found \in SUBSET Microphones
      BY <1>1 DEF Tabs
    <3> HIDE DEF found, device
    <3>2. t = [tab EXCEPT !.missing = found]
      BY DEF found
    <3> HIDE DEF t
    <3>3. t \in Tabs
      BY <1>1, <3>1, <3>2 DEF Tabs
    <3>4. /\ t.missing = found /\ t.stored = tab.stored
          /\ t.choice = tab.choice /\ t.notified = tab.notified /\ t.blocked = tab.blocked
          /\ t.memory = tab.memory /\ t.changed = tab.changed /\ t.plugged = tab.plugged
          /\ t.devices = tab.devices /\ t.permission = tab.permission
      BY <1>1, <3>2 DEF Tabs
    <3> QED
      BY <3>3, <3>4 DEF found
  <2> HIDE DEF t
  <2>3. ChoiceIsKept(page, t) /\ ListIsComing(page.dialog, t) /\ device \in t.missing
    BY <1>1, <2>2, ListsOfTab DEF ChoiceIsKept
  <2> HIDE DEF device
  <2>4. Tidy(page') /\ ChoiceIsKept(page', t) /\ ListIsComing(page'.dialog, t)
    <3>1. CASE page' = [page EXCEPT !.command.stage = "fallback"]
      BY <1>1, <2>2, <2>3, <3>1, StageKeeps DEF device
    <3>2. CASE page' = Released(page)
      BY <2>3, <3>2, ReleasedForTab
    <3> QED
      BY <1>4, <3>1, <3>2 DEF Shows
  <2>5. published' \in Nat
    BY <1>4 DEF Shows, PageInv, TypeOK, Object_
  <2> QED
    BY <1>2, <2>1, <2>2, <2>4, <2>5, TabStepKeeps
<1> QED
  BY <1>3, <1>4 DEF Acquire

LEMMA FallBackKeeps ==
  ASSUME PageInv, NEW granted \in BOOLEAN, FallBack(granted)
  PROVE  PageInv'
<1>1. page.command.stage = "fallback"
  BY DEF FallBack
<1> DEFINE b == tab.permission \/ granted
           allowed == [tab EXCEPT !.permission = b]
<1>2. /\ tab' \in Tabs /\ tab'.changed = tab.changed /\ tab'.plugged = tab.plugged
      /\ tab'.devices = tab.devices /\ (tab.permission => tab'.permission)
      /\ ChoiceIsKept(page, tab')
  <2>1. tab' = allowed \/ tab' = Forgotten(allowed, page.command.device)
    BY DEF FallBack
  <2>2. b \in BOOLEAN
    OBVIOUS
  <2>3. tab.permission => b
    OBVIOUS
  <2> HIDE DEF b
  <2>4. /\ allowed \in Tabs /\ allowed.changed = tab.changed
        /\ allowed.plugged = tab.plugged /\ allowed.devices = tab.devices
        /\ allowed.permission = b /\ ChoiceIsKept(page, allowed)
    BY <2>2, <2>3, PermittedKeeps
  <2> HIDE DEF allowed
  <2> QED
    BY <1>1, <2>1, <2>3, <2>4, ForgottenKeeps
<1>3. ListIsComing(page.dialog, tab')
  BY <1>2, ListsOfTab DEF PageInv
<1>4. Tidy(page') /\ ChoiceIsKept(page', tab') /\ ListIsComing(page'.dialog, tab')
  <2>1. page' = Granted(page) \/ page' = Released(page)
    BY DEF FallBack, Shows
  <2> QED
    BY <1>1, <1>2, <1>3, <2>1, GrantedKeeps, ReleasedForTab
<1>5. /\ CallsOK' /\ left' \in [Kinds -> Nat] /\ object' \in Object_ /\ published' \in Nat
  <2>1. left' \in [Kinds -> Nat]
    BY SpendType DEF FallBack, Kinds, PageInv, TypeOK
  <2> QED
    BY <2>1, CallsUnchanged DEF FallBack, Shows, PageInv, TypeOK, Object_
<1> QED
  BY <1>2, <1>4, <1>5, TabStepKeeps

LEMMA BeginTurnKeeps ==
  ASSUME PageInv, BeginTurn
  PROVE  PageInv'
<1>1. /\ page.command.stream # None /\ UNCHANGED <<object, tab>>
      /\ left' \in [Kinds -> Nat] /\ tab \in Tabs
      /\ ChoiceIsKept(page, tab) /\ ListIsComing(page.dialog, tab)
  BY DEF BeginTurn, PageInv, StreamsAreHeld, TypeOK
<1>2. CASE /\ Shows([page EXCEPT !.command.stage = "asked"])
           /\ IsCurrent(page, page.command)
           /\ Ask("begin", page.command.turn, page.generation)
  <2>1. Fits([page EXCEPT !.command.stage = "asked"])
    BY <1>1, StageKeeps DEF Fits
  <2>2. CallsOK'
    BY <1>2, AskTurnKeeps DEF IsCurrent
  <2> QED
    BY <1>1, <1>2, <2>1, <2>2, ShowsKeeps
<1>3. CASE /\ Shows(IF IsCurrent(page, page.command)
                    THEN Started(page, page.command) ELSE Released(page))
           /\ UNCHANGED calls
  <2>1. Shows(Continued(page, page.command))
    BY <1>3 DEF Continued
  <2>2. Follows(page, Continued(page, page.command))
    BY PageFits, ContinuedKeeps
  <2> QED
    BY <1>1, <1>3, <2>1, <2>2, FollowsFits, CallsUnchanged, ShowsKeeps
<1> QED
  BY <1>2, <1>3 DEF BeginTurn

LEMMA FailStartKeeps ==
  ASSUME PageInv, FailStart
  PROVE  PageInv'
<1>1. Fits(Released(page))
  BY PageFits, ReleasedKeeps, FollowsFits
<1>2. left' \in [Kinds -> Nat] /\ CallsOK'
  BY SpendType, CallsUnchanged DEF FailStart, Kinds
<1> QED
  BY <1>1, <1>2, ShowsKeeps DEF FailStart

\* The microphone goes before the turn is submitted.
LEMMA SubmitKeeps ==
  ASSUME PageInv, NEW p, Fits(p), SubmitTurn(p), UNCHANGED <<object, tab>>,
         left' \in [Kinds -> Nat]
  PROVE  PageInv'
<1>1. Fits(Stopped(p))
  BY StoppedKeeps DEF Fits, Tidy, ChoiceIsKept
<1>2. CallsOK'
  BY AskTurnKeeps DEF SubmitTurn
<1> QED
  BY <1>1, <1>2, ShowsKeeps DEF SubmitTurn

LEMMA TurnsKeep ==
  ASSUME PageInv, SubmitInTime \/ Eliminate \/ EndTurn \/ RedrawTopic
  PROVE  PageInv'
<1> DEFINE acting == [page EXCEPT !.command = Command("act", "asked")]
<1>1. UNCHANGED <<object, tab>> /\ left' \in [Kinds -> Nat]
  BY SpendType DEF SubmitInTime, Eliminate, EndTurn, RedrawTopic, Kinds, PageInv, TypeOK
<1>2. page.command = Idle => Fits(acting)
  BY CommandType, CommandFits
<1>3. CASE SubmitInTime \/ Eliminate
  BY <1>1, <1>3, PageFits, SubmitKeeps DEF SubmitInTime, Eliminate
<1>4. CASE EndTurn
  <2>1. SubmitTurn(acting) /\ page.command = Idle
    BY <1>4 DEF EndTurn
  <2> QED
    BY <1>1, <1>2, <2>1, SubmitKeeps
<1>5. CASE RedrawTopic
  <2>1. /\ Shows(acting) /\ page.command = Idle
        /\ Ask("redraw", page.room.turn, page.generation)
    BY <1>5 DEF RedrawTopic
  <2> QED
    BY <1>1, <1>2, <2>1, AskTurnKeeps, ShowsKeeps
<1> QED
  BY <1>3, <1>4, <1>5

---------------------------------------------------------------------------
(* Choosing a microphone                                                   *)

LEMMA DialogKeeps ==
  ASSUME PageInv, NEW d \in Dialogs, NEW t, ChoiceIsKept(page, t), ListIsComing(d, t),
         page' = [page EXCEPT !.dialog = d]
  PROVE  Tidy(page') /\ ChoiceIsKept(page', t) /\ ListIsComing(page'.dialog, t)
<1>1. page \in Pages
  BY DEF PageInv, TypeOK
<1>2. page' \in Pages
  BY <1>1 DEF Pages
<1>3. /\ page'.open = page.open /\ page'.controller = page.controller
      /\ page'.command = page.command /\ page'.room = page.room /\ page'.dialog = d
  BY <1>1 DEF Pages
<1> QED
  BY <1>2, <1>3 DEF PageInv, Tidy, StreamsAreHeld, ControllerIsCurrent, ChoiceIsKept

\* A new enumeration is the newest, and has found nothing yet; what is shown while it
\* waits for its prompt stays if the prompt is refused.
LEMMA EnumeratingComes ==
  ASSUME NEW dialog \in Dialogs, NEW asks \in BOOLEAN, NEW stage \in {"prompt", "asked"},
         NEW t, ListsNeedPermission(dialog, t),
         \A l \in dialog.listings :
           l.number <= dialog.enumerations /\ l.refresh < dialog.refresh,
         \A l, k \in dialog.listings : l.number = k.number => l = k,
         stage = "prompt" /\ dialog.open /\ ~ t.changed /\ dialog.allowed =>
           dialog.list = t.plugged /\ t.devices = t.plugged
  PROVE  /\ Enumerating(dialog, asks, stage) \in Dialogs
         /\ ListIsComing(Enumerating(dialog, asks, stage), t)
<1> DEFINE number == dialog.enumerations + 1
           fresh == [number |-> number, refresh |-> dialog.refresh, asks |-> asks,
                     stage |-> stage, found |-> {}, allowed |-> FALSE]
           all == dialog.listings \cup {fresh}
           d == [dialog EXCEPT !.enumerations = number, !.listings = all]
<1>1. /\ number \in Nat /\ dialog.enumerations \in Nat /\ dialog.refresh \in Nat
      /\ dialog.listings \in SUBSET Listings
  BY DEF Dialogs
<1>2. \A l \in dialog.listings :
        /\ l.number <= number /\ l.number # number
        /\ l.refresh <= dialog.refresh /\ l.refresh # dialog.refresh
  BY <1>1 DEF Listings
<1>3. number <= number /\ dialog.refresh <= dialog.refresh
  BY <1>1
<1>4. Enumerating(dialog, asks, stage) = d
  BY DEF Enumerating
<1> HIDE DEF number
<1>5. fresh \in Listings
  BY <1>1 DEF Listings
<1>6. /\ fresh.number = number /\ fresh.refresh = dialog.refresh /\ fresh.stage = stage
      /\ fresh.allowed = FALSE
  OBVIOUS
<1> HIDE DEF fresh
<1>7. all \in SUBSET Listings
  BY <1>1, <1>5
<1>8. fresh \in all /\ \A l \in all : l = fresh \/ l \in dialog.listings
  OBVIOUS
<1> HIDE DEF all
<1>9. d \in Dialogs
  BY <1>1, <1>7 DEF Dialogs
<1>10. /\ d.enumerations = number /\ d.listings = all /\ d.refresh = dialog.refresh
       /\ d.open = dialog.open /\ d.list = dialog.list /\ d.allowed = dialog.allowed
  BY DEF Dialogs
<1> HIDE DEF d
<1>11. ListingsInOrder(d)
  BY <1>2, <1>3, <1>6, <1>8, <1>10 DEF ListingsInOrder
<1>12. ListsNeedPermission(d, t)
  BY <1>2, <1>6, <1>8, <1>10 DEF ListsNeedPermission
<1>13. NewestWillShow(d, t)
  <2>1. CASE stage = "asked"
    BY <1>2, <1>6, <1>8, <1>10, <2>1 DEF NewestWillShow
  <2>2. CASE stage = "prompt"
    BY <1>2, <1>6, <1>8, <1>10, <2>2 DEF NewestWillShow
  <2> QED
    BY <2>1, <2>2
<1> QED
  BY <1>4, <1>9, <1>11, <1>12, <1>13 DEF ListIsComing

\* The steps of the picker change the dialog and the preference, and nothing else.
LEMMA PickerStepKeeps ==
  ASSUME PageInv, UNCHANGED <<object, published, calls>>, left' \in [Kinds -> Nat],
         tab' \in Tabs,
         Tidy(page') /\ ChoiceIsKept(page', tab') /\ ListIsComing(page'.dialog, tab')
  PROVE  PageInv'
<1>1. CallsOK' /\ object' \in Object_ /\ published' \in Nat
  BY CallsUnchanged DEF PageInv, TypeOK
<1> QED
  BY <1>1, TabStepKeeps

LEMMA ClosedForTab ==
  ASSUME PageInv, NEW t, ChoiceIsKept(page, t), ~ t.permission => t.devices = {},
         page' = Closed(page)
  PROVE  Tidy(page') /\ ChoiceIsKept(page', t) /\ ListIsComing(page'.dialog, t)
  BY PageFits, ClosedKeeps, NoDialogComes DEF Follows, ChoiceIsKept

LEMMA DialogType ==
  ASSUME PageInv
  PROVE  /\ page.dialog \in Dialogs /\ tab \in Tabs /\ left \in [Kinds -> Nat]
         /\ ChoiceIsKept(page, tab) /\ ListIsComing(page.dialog, tab)
         /\ ~ tab.permission => tab.devices = {}
         /\ \A l \in page.dialog.listings : l \in Listings
  BY DEF PageInv, TypeOK, Pages, ListIsComing, ListsNeedPermission, Dialogs

LEMMA OpenDialogKeeps ==
  ASSUME PageInv, OpenDialog
  PROVE  PageInv'
<1> DEFINE turn == page.room.turn
           driver == page.room.driver
           list == tab.devices
           allowed == tab.permission
           empty == [NoDialog EXCEPT !.open = TRUE, !.turn = turn, !.driver = driver,
                                     !.list = list, !.allowed = allowed]
<1>1. /\ turn \in Nat /\ driver \in Drivers /\ list \in SUBSET Devices
      /\ allowed \in BOOLEAN
  <2>1. page.room \in Rooms
    BY DEF PageInv, TypeOK, Pages
  <2>2. CASE page.room \in Sent
    BY <2>2 DEF Sent, PageInv, TypeOK, Tabs
  <2>3. CASE page.room = NoRoom
    BY <2>3 DEF NoRoom, None, Drivers, PageInv, TypeOK, Tabs
  <2> QED
    BY <2>1, <2>2, <2>3 DEF Rooms
<1>2. page' = [page EXCEPT !.dialog = Enumerating(empty, TRUE, "asked")]
  BY DEF OpenDialog
<1> HIDE DEF turn, driver
<1>3. /\ empty \in Dialogs /\ empty.listings = {} /\ empty.list = list
      /\ empty.allowed = allowed
  BY <1>1, ConstantsType DEF Dialogs, NoDialog
<1> HIDE DEF empty
<1>4. /\ Enumerating(empty, TRUE, "asked") \in Dialogs
      /\ ListIsComing(Enumerating(empty, TRUE, "asked"), tab)
  <2>1. ListsNeedPermission(empty, tab)
    BY <1>3, DialogType DEF ListsNeedPermission
  <2> QED
    BY <1>3, <2>1, EnumeratingComes
<1>5. Tidy(page') /\ ChoiceIsKept(page', tab) /\ ListIsComing(page'.dialog, tab)
  BY <1>2, <1>4, DialogKeeps, DialogType
<1>6. left' \in [Kinds -> Nat] /\ UNCHANGED tab
  BY SpendType DEF OpenDialog, Kinds
<1> QED
  BY <1>5, <1>6, DialogType, PickerStepKeeps DEF OpenDialog

\* An enumeration goes on; what it finds depends on the permission.
LEMMA ReplacedComes ==
  ASSUME NEW dialog \in Dialogs, NEW t, ListIsComing(dialog, t),
         NEW l \in dialog.listings, NEW k \in Listings,
         k.number = l.number, k.refresh = l.refresh, k.stage # "prompt",
         k.allowed => t.permission,
         k.stage = "found" => /\ k.allowed = t.permission
                              /\ k.found = IF t.permission THEN t.plugged ELSE {}
  PROVE  Replaced(dialog, l, k) \in Dialogs /\ ListIsComing(Replaced(dialog, l, k), t)
<1> DEFINE all == (dialog.listings \ {l}) \cup {k}
           d == [dialog EXCEPT !.listings = all]
<1>1. Replaced(dialog, l, k) = d
  BY DEF Replaced, Dialogs
<1>2. /\ all \in SUBSET Listings /\ k \in all
      /\ \A m \in all : m = k \/ (m \in dialog.listings /\ m # l)
      /\ \A m \in dialog.listings : m = l \/ m \in all
  BY DEF Dialogs
<1> HIDE DEF all
<1>3. /\ d \in Dialogs /\ d.listings = all /\ d.enumerations = dialog.enumerations
      /\ d.refresh = dialog.refresh /\ d.open = dialog.open
      /\ d.list = dialog.list /\ d.allowed = dialog.allowed
  BY <1>2 DEF Dialogs
<1> HIDE DEF d
<1>4. ListingsInOrder(d)
  BY <1>2, <1>3 DEF ListIsComing, ListingsInOrder
<1>5. ListsNeedPermission(d, t)
  BY <1>2, <1>3 DEF ListIsComing, ListsNeedPermission
<1>6. NewestWillShow(d, t)
  BY <1>2, <1>3 DEF ListIsComing, NewestWillShow
<1> QED
  BY <1>1, <1>3, <1>4, <1>5, <1>6 DEF ListIsComing

LEMMA GrantKeeps ==
  ASSUME PageInv, NEW l \in page.dialog.listings, Grant(l)
  PROVE  PageInv'
<1> DEFINE k == [l EXCEPT !.stage = "asked"]
<1>1. /\ page.dialog \in Dialogs /\ l \in Listings /\ page \in Pages
      /\ left \in [Kinds -> Nat]
  BY DialogType DEF PageInv, TypeOK
<1>2. /\ tab' \in Tabs /\ tab'.permission = TRUE
      /\ ChoiceIsKept(page, tab') /\ ListIsComing(page.dialog, tab')
  BY PermittedKeeps DEF Grant
<1>3. page' = [page EXCEPT !.dialog = Replaced(page.dialog, l, k)]
  BY <1>1 DEF Grant, Pages
<1>4. k \in Listings /\ k.number = l.number /\ k.refresh = l.refresh /\ k.stage = "asked"
  BY <1>1 DEF Listings
<1> HIDE DEF k
<1>5. /\ Replaced(page.dialog, l, k) \in Dialogs
      /\ ListIsComing(Replaced(page.dialog, l, k), tab')
  BY <1>1, <1>2, <1>4, ReplacedComes
<1>6. Tidy(page') /\ ChoiceIsKept(page', tab') /\ ListIsComing(page'.dialog, tab')
  BY <1>2, <1>3, <1>5, DialogKeeps
<1> QED
  BY <1>1, <1>2, <1>6, PickerStepKeeps DEF Grant

\* The prompt refused was not the one that will show.
LEMMA RefuseKeeps ==
  ASSUME PageInv, NEW l \in page.dialog.listings, Refuse(l)
  PROVE  PageInv'
<1> DEFINE rest == page.dialog.listings \ {l}
           d == [page.dialog EXCEPT !.listings = rest]
<1>1. /\ page.dialog \in Dialogs /\ page \in Pages /\ l.stage = "prompt"
      /\ ListIsComing(page.dialog, tab)
  BY DialogType DEF Refuse, PageInv, TypeOK
<1>2. page' = [page EXCEPT !.dialog = d]
  BY <1>1 DEF Refuse, Pages, Dialogs
<1>3. /\ rest \in SUBSET Listings
      /\ \A m \in rest : m \in page.dialog.listings /\ m # l
      /\ \A m \in page.dialog.listings : m = l \/ m \in rest
  BY <1>1 DEF Dialogs
<1> HIDE DEF rest
<1>4. /\ d \in Dialogs /\ d.listings = rest /\ d.enumerations = page.dialog.enumerations
      /\ d.refresh = page.dialog.refresh /\ d.open = page.dialog.open
      /\ d.list = page.dialog.list /\ d.allowed = page.dialog.allowed
  BY <1>1, <1>3 DEF Dialogs
<1> HIDE DEF d
<1>5. ListIsComing(d, tab)
  BY <1>1, <1>3, <1>4 DEF ListIsComing, ListingsInOrder, ListsNeedPermission, NewestWillShow
<1>6. Tidy(page') /\ ChoiceIsKept(page', tab) /\ ListIsComing(page'.dialog, tab)
  BY <1>2, <1>4, <1>5, DialogKeeps, DialogType
<1> QED
  BY <1>6, DialogType, PickerStepKeeps DEF Refuse

LEMMA FindKeeps ==
  ASSUME PageInv, NEW l \in page.dialog.listings, Find(l)
  PROVE  PageInv'
<1> DEFINE permission == tab.permission
           found == IF permission THEN tab.plugged ELSE {}
           k == [l EXCEPT !.stage = "found", !.allowed = permission, !.found = found]
<1>1. /\ page.dialog \in Dialogs /\ l \in Listings /\ page \in Pages
      /\ ListIsComing(page.dialog, tab)
      /\ permission \in BOOLEAN /\ found \in SUBSET Devices
  BY DialogType DEF Tabs, PageInv, TypeOK
<1>2. page' = [page EXCEPT !.dialog = Replaced(page.dialog, l, k)]
  BY <1>1 DEF Find, Pages
<1> HIDE DEF permission, found
<1>3. /\ k \in Listings /\ k.number = l.number /\ k.refresh = l.refresh
      /\ k.stage = "found" /\ k.allowed = permission /\ k.found = found
  BY <1>1 DEF Listings
<1> HIDE DEF k
<1>4. /\ Replaced(page.dialog, l, k) \in Dialogs
      /\ ListIsComing(Replaced(page.dialog, l, k), tab)
  BY <1>1, <1>3, ReplacedComes DEF permission, found
<1>5. Tidy(page') /\ ChoiceIsKept(page', tab) /\ ListIsComing(page'.dialog, tab)
  BY <1>2, <1>4, DialogKeeps, DialogType
<1> QED
  BY <1>5, DialogType, PickerStepKeeps DEF Find

LEMMA PermitKeeps ==
  ASSUME PageInv, Permit
  PROVE  PageInv'
<1>1. /\ tab' \in Tabs /\ ChoiceIsKept(page, tab') /\ ListIsComing(page.dialog, tab')
  BY PermittedKeeps DEF Permit
<1>2. Tidy(page') /\ ChoiceIsKept(page', tab') /\ ListIsComing(page'.dialog, tab')
  BY <1>1, PageFits DEF Permit
<1> QED
  BY <1>1, <1>2, DialogType, PickerStepKeeps DEF Permit

\* The newest enumeration shows what there is; an older one leaves what is coming.
LEMMA ListedComes ==
  ASSUME PageInv, NEW l \in page.dialog.listings, l.stage = "found",
         NEW d \in Dialogs, NEW t, NEW shows \in BOOLEAN,
         shows <=> l.refresh = page.dialog.refresh,
         d.listings = page.dialog.listings \ {l}, d.enumerations = page.dialog.enumerations,
         d.refresh = page.dialog.refresh, d.open = page.dialog.open,
         d.list = IF shows THEN Known(l) ELSE page.dialog.list,
         d.allowed = (page.dialog.allowed \/ (shows /\ l.allowed)),
         t.changed = tab.changed, t.plugged = tab.plugged, t.devices = Known(l),
         t.permission = tab.permission
  PROVE  ListIsComing(d, t)
<1>1. ListIsComing(page.dialog, tab) /\ l \in Listings /\ page.dialog \in Dialogs
  BY DialogType
<1>2. ListingsInOrder(d)
  BY <1>1 DEF ListIsComing, ListingsInOrder
<1>3. shows <=> l.number = page.dialog.enumerations
  BY <1>1 DEF ListIsComing, ListingsInOrder
<1>4. CASE shows
  <2>1. Known(l) = l.found
    BY <1>3, <1>4 DEF Known
  <2>2. \A k \in d.listings : k.number # d.enumerations
    BY <1>1, <1>3, <1>4 DEF ListIsComing, ListingsInOrder
  <2>3. d.allowed <=> l.allowed
    BY <1>1, <1>3, <1>4 DEF ListIsComing, ListsNeedPermission, Listings, Dialogs
  <2>4. ListsNeedPermission(d, t)
    <3>1. ~ t.permission => t.devices = {}
      BY <1>1, <2>1 DEF ListIsComing, ListsNeedPermission
    <3>2. d.allowed => t.permission
      BY <1>1, <2>3 DEF ListIsComing, ListsNeedPermission
    <3>3. ~ d.allowed => d.list = {} /\ t.devices = {}
      BY <1>1, <1>4, <2>1, <2>3 DEF ListIsComing, ListsNeedPermission
    <3>4. \A k \in d.listings :
            /\ k.allowed => t.permission
            /\ k.stage = "found" /\ ~ k.allowed => k.found = {}
      BY <1>1 DEF ListIsComing, ListsNeedPermission
    <3> QED
      BY <2>2, <3>1, <3>2, <3>3, <3>4 DEF ListsNeedPermission
  <2>5. NewestWillShow(d, t)
    BY <1>1, <1>3, <1>4, <2>1, <2>2, <2>3 DEF ListIsComing, NewestWillShow
  <2> QED
    BY <1>2, <2>4, <2>5 DEF ListIsComing
<1>5. CASE ~ shows
  <2>1. Known(l) = tab.devices
    BY <1>3, <1>5 DEF Known
  <2>2. d.allowed = page.dialog.allowed /\ d.list = page.dialog.list
    BY <1>1, <1>5 DEF Dialogs
  <2>3. ListsNeedPermission(d, t)
    BY <1>1, <2>1, <2>2 DEF ListIsComing, ListsNeedPermission
  <2>4. NewestWillShow(d, t)
    BY <1>1, <1>3, <1>5, <2>1, <2>2 DEF ListIsComing, NewestWillShow
  <2> QED
    BY <1>2, <2>3, <2>4 DEF ListIsComing
<1> QED
  BY <1>4, <1>5

LEMMA ListKeeps ==
  ASSUME PageInv, NEW l \in page.dialog.listings, NEW named \in BOOLEAN, List(l, named)
  PROVE  PageInv'
<1> DEFINE known == Known(l)
           shows == l.refresh = page.dialog.refresh
           rest == page.dialog.listings \ {l}
           list == IF shows THEN known ELSE page.dialog.list
           allowed == page.dialog.allowed \/ (shows /\ l.allowed)
           listed == [page.dialog EXCEPT !.listings = rest, !.list = list, !.allowed = allowed]
           t == [tab EXCEPT !.devices = known]
<1>1. /\ page.dialog \in Dialogs /\ l \in Listings /\ tab \in Tabs /\ l.stage = "found"
      /\ ListIsComing(page.dialog, tab)
  BY DialogType DEF List
<1>2. known \in SUBSET Devices
  BY <1>1 DEF Known, Listings, Tabs
<1>3. /\ tab' = t
      /\ \/ page' = [page EXCEPT !.dialog = listed]
         \/ shows /\ page' = [page EXCEPT !.dialog = Enumerating(listed, FALSE, "prompt")]
  <2>1. listed = [page.dialog EXCEPT
                    !.listings = @ \ {l},
                    !.list = IF l.refresh = page.dialog.refresh THEN Known(l) ELSE @,
                    !.allowed = @ \/ (l.refresh = page.dialog.refresh /\ l.allowed)]
    BY <1>1 DEF Dialogs
  <2> HIDE DEF listed
  <2>2. page' \in {[page EXCEPT !.dialog = listed],
                   [page EXCEPT !.dialog = Enumerating(listed, FALSE, "prompt")]}
    <3>1. page \in Pages
      BY DEF PageInv, TypeOK
    <3> QED
      BY <2>1, <3>1 DEF List, Pages
  <2>3. ~ shows => page' = [page EXCEPT !.dialog = listed]
    BY <2>1 DEF List
  <2> QED
    BY <2>2, <2>3 DEF List
<1>4. rest \in SUBSET Listings /\ list \in SUBSET Devices /\ allowed \in BOOLEAN
  BY <1>1, <1>2 DEF Dialogs, Listings
<1> HIDE DEF known
<1>5. /\ t \in Tabs /\ t.changed = tab.changed /\ t.plugged = tab.plugged
      /\ t.devices = known /\ t.stored = tab.stored /\ t.choice = tab.choice
      /\ t.notified = tab.notified /\ t.blocked = tab.blocked /\ t.memory = tab.memory
      /\ t.missing = tab.missing /\ t.permission = tab.permission
  BY <1>1, <1>2 DEF Tabs
<1> HIDE DEF rest, list, allowed, t
<1>6. /\ listed \in Dialogs /\ listed.listings = rest /\ listed.list = list
      /\ listed.enumerations = page.dialog.enumerations /\ listed.allowed = allowed
      /\ listed.refresh = page.dialog.refresh /\ listed.open = page.dialog.open
  BY <1>1, <1>4 DEF Dialogs
<1> HIDE DEF listed
<1>7. ListIsComing(listed, t)
  <2>1. shows \in BOOLEAN /\ (shows <=> l.refresh = page.dialog.refresh)
    OBVIOUS
  <2> HIDE DEF shows
  <2> QED
    BY <1>1, <1>5, <1>6, <2>1, ListedComes DEF rest, list, allowed, known
<1>8. ASSUME shows
      PROVE  /\ Enumerating(listed, FALSE, "prompt") \in Dialogs
             /\ ListIsComing(Enumerating(listed, FALSE, "prompt"), t)
  <2>1. l.number = page.dialog.enumerations
    BY <1>1, <1>8 DEF ListIsComing, ListingsInOrder
  <2>2. \A k \in listed.listings : k \in page.dialog.listings /\ k # l /\ k \in Listings
    BY <1>4, <1>6 DEF rest
  <2>3. /\ \A k \in listed.listings :
             /\ k.number <= listed.enumerations /\ k.number # listed.enumerations
             /\ k.refresh <= listed.refresh /\ k.refresh # listed.refresh
        /\ \A k, m \in listed.listings : k.number = m.number => k = m
    BY <1>1, <1>6, <2>1, <2>2 DEF ListIsComing, ListingsInOrder
  <2>4. \A k \in listed.listings :
          k.number <= listed.enumerations /\ k.refresh < listed.refresh
    BY <1>6, <2>2, <2>3 DEF Listings, Dialogs
  <2>5. listed.open /\ ~ t.changed /\ listed.allowed =>
          listed.list = t.plugged /\ t.devices = t.plugged
    BY <1>7, <2>3 DEF ListIsComing, NewestWillShow
  <2>6. ListsNeedPermission(listed, t)
    BY <1>7 DEF ListIsComing
  <2> QED
    BY <1>6, <2>3, <2>4, <2>5, <2>6, EnumeratingComes
<1>9. ChoiceIsKept(page, t)
  BY <1>5, DialogType DEF ChoiceIsKept
<1> HIDE DEF shows
<1>10. Tidy(page') /\ ChoiceIsKept(page', t) /\ ListIsComing(page'.dialog, t)
  <2>1. CASE page' = [page EXCEPT !.dialog = listed]
    BY <1>6, <1>7, <1>9, <2>1, DialogKeeps
  <2>2. CASE shows /\ page' = [page EXCEPT !.dialog = Enumerating(listed, FALSE, "prompt")]
    BY <1>8, <1>9, <2>2, DialogKeeps
  <2> QED
    BY <1>3, <2>1, <2>2
<1> QED
  BY <1>3, <1>5, <1>10, DialogType, PickerStepKeeps DEF List

LEMMA PlugKeeps ==
  ASSUME PageInv, NEW device \in Devices, Plug(device)
  PROVE  PageInv'
<1> DEFINE there == IF device \in tab.plugged THEN tab.plugged \ {device}
                    ELSE tab.plugged \cup {device}
<1>1. tab \in Tabs /\ tab' = [tab EXCEPT !.plugged = there, !.changed = TRUE]
  BY DialogType DEF Plug, Tabs
<1>2. there \in SUBSET Devices
  BY <1>1 DEF Tabs
<1> HIDE DEF there
<1>3. /\ tab' \in Tabs /\ tab'.changed = TRUE /\ tab'.stored = tab.stored
      /\ tab'.choice = tab.choice /\ tab'.notified = tab.notified
      /\ tab'.blocked = tab.blocked /\ tab'.memory = tab.memory
      /\ tab'.missing = tab.missing /\ tab'.devices = tab.devices
      /\ tab'.permission = tab.permission
  BY <1>1, <1>2 DEF Tabs
<1>4. Tidy(page') /\ ChoiceIsKept(page', tab') /\ ListIsComing(page'.dialog, tab')
  BY <1>3, PageFits, DialogType
     DEF Plug, ChoiceIsKept, ListIsComing, ListsNeedPermission, NewestWillShow
<1>5. left' \in [Kinds -> Nat]
  BY SpendType DEF Plug, Kinds
<1> QED
  BY <1>3, <1>4, <1>5, PickerStepKeeps DEF Plug

LEMMA DeviceChangeKeeps ==
  ASSUME PageInv, DeviceChange
  PROVE  PageInv'
<1> DEFINE dialog == page.dialog
           refresh == dialog.refresh + 1
           d == [dialog EXCEPT !.refresh = refresh]
<1>1. tab \in Tabs /\ dialog \in Dialogs /\ ListIsComing(dialog, tab)
  BY DialogType
<1>2. /\ tab' \in Tabs /\ tab'.stored = tab.stored /\ tab'.missing = tab.missing
      /\ tab'.devices = tab.devices /\ tab'.permission = tab.permission
      /\ tab'.choice = tab.choice /\ tab'.notified = tab.notified
      /\ tab'.blocked = tab.blocked /\ tab'.memory = tab.memory
  BY <1>1 DEF DeviceChange, Tabs
<1>3. ChoiceIsKept(page, tab')
  BY <1>2, DialogType DEF ChoiceIsKept
<1>4. CASE ~ dialog.open /\ page' = page
  <2>1. ListIsComing(dialog, tab')
    BY <1>1, <1>2, <1>4 DEF ListIsComing, ListsNeedPermission, NewestWillShow
  <2>2. Tidy(page')
    BY <1>4, PageFits
  <2>3. left' \in [Kinds -> Nat]
    BY DialogType DEF DeviceChange
  <2> QED
    BY <1>2, <1>3, <1>4, <2>1, <2>2, <2>3, PickerStepKeeps DEF DeviceChange
<1>5. CASE page' = [page EXCEPT !.dialog = Enumerating(d, FALSE, "asked")]
  <2>1. refresh \in Nat
    BY <1>1 DEF Dialogs
  <2> HIDE DEF refresh
  <2>2. /\ d \in Dialogs /\ d.listings = dialog.listings
        /\ d.enumerations = dialog.enumerations /\ d.refresh = refresh
        /\ d.open = dialog.open /\ d.list = dialog.list /\ d.allowed = dialog.allowed
    BY <1>1, <2>1 DEF Dialogs
  <2> HIDE DEF d
  <2>3. /\ Enumerating(d, FALSE, "asked") \in Dialogs
        /\ ListIsComing(Enumerating(d, FALSE, "asked"), tab')
    <3>1. ListsNeedPermission(d, tab')
      BY <1>1, <1>2, <2>2 DEF ListIsComing, ListsNeedPermission
    <3>2. /\ \A l \in d.listings : l.number <= d.enumerations /\ l.refresh <= dialog.refresh
          /\ \A l, k \in d.listings : l.number = k.number => l = k
      BY <1>1, <2>2 DEF ListIsComing, ListingsInOrder
    <3>3. \A l \in d.listings : l.number <= d.enumerations /\ l.refresh < d.refresh
      BY <1>1, <2>2, <3>2 DEF refresh, Dialogs, Listings
    <3> QED
      BY <2>2, <3>1, <3>2, <3>3, EnumeratingComes
  <2>4. Tidy(page') /\ ChoiceIsKept(page', tab') /\ ListIsComing(page'.dialog, tab')
    BY <1>3, <1>5, <2>3, DialogKeeps
  <2>5. left' \in [Kinds -> Nat]
    BY DialogType DEF DeviceChange
  <2> QED
    BY <1>2, <2>4, <2>5, PickerStepKeeps DEF DeviceChange
<1>6. dialog.open => page' = [page EXCEPT !.dialog = Enumerating(d, FALSE, "asked")]
  BY DEF DeviceChange
<1>7. ~ dialog.open => page' = page
  BY DEF DeviceChange
<1> QED
  BY <1>4, <1>5, <1>6, <1>7

LEMMA UseDeviceKeeps ==
  ASSUME PageInv, NEW device \in Microphones, NEW persisted \in BOOLEAN,
         UseDevice(device, persisted)
  PROVE  PageInv'
<1>1. tab \in Tabs
  BY DialogType
<1>2. /\ tab' \in Tabs /\ tab'.notified = tab.notified /\ tab'.blocked = ~ persisted
      /\ tab'.devices = tab.devices /\ tab'.permission = tab.permission
      /\ tab'.memory = device /\ tab'.missing = tab.missing
      /\ tab'.stored = IF persisted THEN device ELSE tab.stored
      /\ tab'.choice = IF persisted THEN device ELSE tab.choice
  BY <1>1 DEF UseDevice, Tabs
<1>3. ChoiceIsKept(page, tab')
  <2>1. CASE persisted
    BY <1>2, <2>1, DialogType DEF ChoiceIsKept
  <2>2. CASE ~ persisted
    BY <1>2, <2>2, DialogType DEF ChoiceIsKept
  <2> QED
    BY <2>1, <2>2
<1>4. Tidy(page') /\ ChoiceIsKept(page', tab') /\ ListIsComing(page'.dialog, tab')
  BY <1>2, <1>3, ClosedForTab, DialogType DEF UseDevice
<1>5. left' \in [Kinds -> Nat]
  BY SpendType, DialogType DEF UseDevice, Kinds
<1> QED
  BY <1>2, <1>4, <1>5, PickerStepKeeps DEF UseDevice

LEMMA CloseDialogKeeps ==
  ASSUME PageInv, CloseDialog
  PROVE  PageInv'
<1>1. Tidy(page') /\ ChoiceIsKept(page', tab) /\ ListIsComing(page'.dialog, tab)
  BY ClosedForTab, DialogType DEF CloseDialog
<1> QED
  BY <1>1, DialogType, PickerStepKeeps DEF CloseDialog

LEMMA OtherTabKeeps ==
  ASSUME PageInv, NEW device \in Microphones, OtherTab(device)
  PROVE  PageInv'
<1>1. tab \in Tabs
  BY DialogType
<1>2. /\ tab' \in Tabs /\ tab'.notified = TRUE /\ tab'.stored = device
      /\ tab'.choice = device /\ tab'.missing = tab.missing
      /\ tab'.changed = tab.changed /\ tab'.plugged = tab.plugged
      /\ tab'.devices = tab.devices /\ tab'.permission = tab.permission
  BY <1>1 DEF OtherTab, Tabs
<1>3. Tidy(page') /\ ChoiceIsKept(page', tab') /\ ListIsComing(page'.dialog, tab')
  BY <1>2, PageFits, DialogType, ListsOfTab DEF OtherTab, ChoiceIsKept
<1>4. left' \in [Kinds -> Nat]
  BY SpendType DEF OtherTab, Kinds
<1> QED
  BY <1>2, <1>3, <1>4, PickerStepKeeps DEF OtherTab

LEMMA ReloadKeeps ==
  ASSUME PageInv, Reload
  PROVE  PageInv'
<1> DEFINE d == [page.dialog EXCEPT !.list = tab.devices]
<1>1. tab \in Tabs /\ page.dialog \in Dialogs
  BY DialogType
<1>2. /\ tab' \in Tabs /\ tab'.memory = tab.stored /\ tab'.stored = tab.stored
      /\ tab'.choice = tab.choice /\ tab'.missing = tab.missing
      /\ tab'.changed = tab.changed /\ tab'.plugged = tab.plugged
      /\ tab'.devices = tab.devices /\ tab'.permission = tab.permission
  BY <1>1 DEF Reload, Tabs
<1>3. ChoiceIsKept(page, tab')
  BY <1>2, DialogType DEF ChoiceIsKept
<1>4. /\ d \in Dialogs /\ d.list = tab.devices /\ d.listings = page.dialog.listings
      /\ d.enumerations = page.dialog.enumerations /\ d.refresh = page.dialog.refresh
      /\ d.open = page.dialog.open /\ d.allowed = page.dialog.allowed
  BY <1>1 DEF Dialogs, Tabs
<1>5. page' = page \/ page' = [page EXCEPT !.dialog = d]
  <2>1. page \in Pages
    BY DEF PageInv, TypeOK
  <2> QED
    BY <2>1 DEF Reload, Pages
<1> HIDE DEF d
<1>6. ListIsComing(page.dialog, tab') /\ ListIsComing(d, tab')
  BY <1>2, <1>4, DialogType, ListsOfTab DEF ListIsComing, ListingsInOrder, ListsNeedPermission, NewestWillShow
<1>7. Tidy(page') /\ ChoiceIsKept(page', tab') /\ ListIsComing(page'.dialog, tab')
  <2>1. CASE page' = page
    BY <1>3, <1>6, <2>1, PageFits
  <2>2. CASE page' = [page EXCEPT !.dialog = d]
    BY <1>3, <1>4, <1>6, <2>2, DialogKeeps
  <2> QED
    BY <1>5, <2>1, <2>2
<1> QED
  BY <1>2, <1>7, DialogType, PickerStepKeeps DEF Reload

LEMMA PickerKeeps ==
  ASSUME PageInv, Picker
  PROVE  PageInv'
<1>1. CASE OpenDialog \/ CloseDialog \/ DeviceChange \/ Reload \/ Permit
  BY <1>1, OpenDialogKeeps, CloseDialogKeeps, DeviceChangeKeeps, ReloadKeeps, PermitKeeps
<1>2. CASE \E l \in page.dialog.listings :
             Find(l) \/ Grant(l) \/ Refuse(l) \/ \E named \in BOOLEAN : List(l, named)
  BY <1>2, FindKeeps, GrantKeeps, RefuseKeeps, ListKeeps
<1>3. CASE \E device \in Devices : Plug(device)
  BY <1>3, PlugKeeps
<1>4. CASE \E device \in Microphones :
             OtherTab(device) \/ \E persisted \in BOOLEAN : UseDevice(device, persisted)
  BY <1>4, OtherTabKeeps, UseDeviceKeeps
<1> QED
  BY <1>1, <1>2, <1>3, <1>4 DEF Picker, Microphones

---------------------------------------------------------------------------
(* The theorems                                                            *)

LEMMA InitInv ==
  ASSUME Init
  PROVE  PageInv
<1>1. object \in Object_ /\ published \in Nat /\ left \in [Kinds -> Nat]
  BY PageAssumption DEF Init, Object_, None
<1>2. /\ tab \in Tabs /\ tab.stored = tab.choice /\ tab.memory = tab.stored
      /\ tab.devices = {}
  <2>1. PICK permission \in BOOLEAN :
          tab = [memory |-> AutoMicrophone, stored |-> AutoMicrophone,
                 choice |-> AutoMicrophone, notified |-> FALSE, blocked |-> FALSE,
                 plugged |-> Devices, changed |-> FALSE,
                 permission |-> permission, devices |-> {}, missing |-> {}]
    <3>1. (IF left.dialogs > 0 THEN BOOLEAN ELSE {TRUE}) \subseteq BOOLEAN
      OBVIOUS
    <3> QED
      BY <3>1 DEF Init
  <2> QED
    BY <2>1 DEF Tabs, Microphones
<1>3. CallsOK
  BY ConstantsType DEF Init, CallsOK
<1>4. /\ page \in Pages /\ page.open = {} /\ page.controller = NoController
      /\ page.command = Idle /\ page.dialog = NoDialog
  <2>1. Snapshot(object) \in Rooms /\ <<>> \in Seq(Sent)
    BY <1>1, SnapshotSent DEF Rooms
  <2> QED
    BY <2>1, ConstantsType DEF Init, Pages
<1>5. /\ NoController.stream = None /\ Idle.stream = None /\ Idle.stage = "no"
  BY DEF NoController, Idle
<1>6. StreamsAreHeld(page) /\ ControllerIsCurrent(page) /\ ChoiceIsKept(page, tab)
  BY <1>2, <1>4, <1>5 DEF StreamsAreHeld, ControllerIsCurrent, ChoiceIsKept
<1> QED
  BY <1>1, <1>2, <1>3, <1>4, <1>6, NoDialogComes DEF PageInv, TypeOK

LEMMA UnchangedKeeps ==
  ASSUME PageInv, UNCHANGED vars
  PROVE  PageInv'
<1>1. Fits(page') /\ CallsOK'
  BY PageFits, CallsUnchanged DEF vars
<1> QED
  BY <1>1, StepKeeps DEF vars, PageInv, TypeOK

LEMMA NextKeeps ==
  ASSUME PageInv, [Next]_vars
  PROVE  PageInv'
<1>1. CASE OthersAct \/ TimePasses
  BY <1>1, OthersActKeeps, TimePassesKeeps
<1>2. CASE Requests \/ \E s \in Slots : Lose(s)
  BY <1>2, ServeKeeps, ReceiveKeeps, LoseKeeps DEF Requests
<1>3. CASE ReceiveLive \/ Reconnect \/ Break \/ LeaveRoom \/ OpenRoom
  BY <1>3, ReceiveLiveKeeps, ReconnectKeeps, BreakKeeps, LeaveRoomKeeps, OpenRoomKeeps
<1>4. CASE StartManual \/ StartMicrophone \/ Starts \/ FallBack(FALSE) \/ FailStart
  BY <1>4, StartManualKeeps, StartMicrophoneKeeps, AcquireKeeps, FallBackKeeps,
     BeginTurnKeeps, FailStartKeeps DEF Starts
<1>5. CASE SubmitInTime \/ Eliminate \/ EndTurn \/ RedrawTopic
  BY <1>5, TurnsKeep
<1>6. CASE Picker
  BY <1>6, PickerKeeps
<1>7. CASE UNCHANGED vars
  BY <1>7, UnchangedKeeps
<1> QED
  BY <1>1, <1>2, <1>3, <1>4, <1>5, <1>6, <1>7 DEF Next

(* The inductive invariant: every open stream is held by the controller of *)
(* the turn on the page or by a start that waits; a start falls back only  *)
(* from a missing microphone; nothing is known of the microphones without  *)
(* the permission; and the newest enumeration will show, or has shown, the *)
(* microphones there are, unless the dialog was never allowed to see them  *)
(* (app.js, microphone-selection.js).                                      *)
THEOREM PageInvariant == Spec => []PageInv
<1>1. Init => PageInv
  BY InitInv
<1>2. PageInv /\ [Next]_vars => PageInv'
  BY NextKeeps
<1> QED
  BY <1>1, <1>2, PTL DEF Spec

(* The microphone in use is for the turn that the page shows and this      *)
(* browser drives, a choice is forgotten only for a microphone that was    *)
(* missing, and an open dialog whose enumerations have ended lists what is *)
(* plugged in if one of its lists was made with the permission and nothing *)
(* otherwise, in whatever order prompts, responses, snapshots, events and  *)
(* enumerations come (startMicrophone, reconcileController, acquire,       *)
(* enumerate), for any microphones, turns and requests under way.          *)
THEOREM MicrophoneRight == Spec => []MicrophoneIsRight
<1>1. PageInv => MicrophoneHasItsTurn
  BY DEF PageInv, StreamsAreHeld, ControllerIsCurrent, MicrophoneHasItsTurn, None
<1>2. PageInv => ChoiceSurvives
  BY DEF PageInv, ChoiceIsKept, ChoiceSurvives
<1>3. PageInv => ListIsFresh
  BY DEF PageInv, ListIsComing, ListsNeedPermission, NewestWillShow, ListIsFresh
<1>4. PageInv => MicrophoneIsRight
  BY <1>1, <1>2, <1>3 DEF MicrophoneIsRight
<1> QED
  BY <1>4, PageInvariant, PTL

=============================================================================
