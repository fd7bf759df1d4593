----------------------------- MODULE GoTurnPage -----------------------------
(***************************************************************************)
(* The play page of the Go edition in one browser (web/static/js/room.js,  *)
(* turn.js): live updates that refresh the page by swapping the #app       *)
(* element, and the turn stage in it with its consent, microphone,         *)
(* recogniser and result form.  The server is reduced to the version of    *)
(* the room and the turn this viewer may drive; htmx is modelled from how  *)
(* the scripts and templates use it: an answer is swapped into the element *)
(* that was #app when the request was made, and goes nowhere when that     *)
(* element has been replaced.                                              *)
(***************************************************************************)
EXTENDS Integers, FiniteSets, FiniteSetsExt

CONSTANTS
  MaxTurns,   \* bound: turns of the game
  MaxStreams, \* bound: microphone streams open at a time
  Scopes      \* bounds: what a behaviour may do how often

ASSUME TurnPageAssumption == MaxTurns \in Nat \ {0} /\ MaxStreams \in Nat \ {0}

VARIABLES
  server,     \* the room: version, turn on show, turn ids used, whether it has begun
  source,     \* the EventSource: open, and the version seen last
  page,       \* the tab: #app and its stage, window globals, timer, dialog, streams
  calls,      \* requests under way: the refresh and the one behind it, forms, begins
  past,       \* history: see Init
  left        \* what of the scope is left

vars == <<server, source, page, calls, past, left>>

None == 0
Turns == 1 .. MaxTurns
NoMemory == [turn |-> None, choice |-> ""]
NoStage == [turn |-> None]
Unanswered == [version |-> 0, turn |-> None]
NoGet == [stage |-> "none", current |-> FALSE, answer |-> Unanswered]
NewGet(current) == [stage |-> "sent", current |-> current, answer |-> Unanswered]

\* What the server renders for this viewer now.
Rendering == [version |-> server.version, turn |-> server.turn]

Spend(kind) == left[kind] > 0 /\ left' = [left EXCEPT ![kind] = @ - 1]

\* The consent a new stage starts from.
Remembered(memory, turn) == IF memory.turn = turn THEN memory.choice ELSE ""

NewStage(turn, memory) ==
  [turn |-> turn, ready |-> TRUE, consent |-> Remembered(memory, turn), mode |-> "idle",
   running |-> FALSE, start |-> "no", stream |-> None, preview |-> None, asked |-> 0,
   recogniser |-> FALSE, stopping |-> FALSE, heard |-> FALSE, field |-> FALSE]

Init ==
  /\ left \in Scopes
  /\ server = [version |-> 1, turn |-> 1, last |-> 1, begun |-> FALSE]
  /\ source = [open |-> FALSE, seen |-> 0]
     \* prompts, echoes: what destroyed stages left behind, the getUserMedia calls of
     \* their starts and the turns of their recognisers that may still report
  /\ page = [open |-> TRUE, version |-> 1, stage |-> NewStage(1, NoMemory), flag |-> FALSE,
             queued |-> FALSE, timer |-> FALSE, memory |-> NoMemory, dialog |-> FALSE,
             mics |-> {}, prompts |-> 0, echoes |-> {}]
  /\ calls = [get |-> NoGet, behind |-> "none", forms |-> {}, again |-> FALSE,
              begins |-> {}]
     \* announced: the newest version an update asked the page to show; overwritten:
     \* previews that another preview replaced; choice: the last one for each turn;
     \* missed: an answer was lost or came to a replaced page; cleared: a destroyed
     \* stage has reset the flag of the running one; early: a refresh that was asked
     \* for before the turn ran is still under way
  /\ past = [announced |-> 1, overwritten |-> {}, choice |-> [t \in Turns |-> ""],
             missed |-> FALSE, cleared |-> FALSE, early |-> FALSE]

-----------------------------------------------------------------------------
(* The page as a value: what the functions of the scripts make of it       *)

Alive == page.stage # NoStage
Idle(s) == ~s.running /\ s.mode = "idle"

\* The event "nonstoptalk:turn-idle".
IdleEvent(p) == IF p.queued THEN [p EXCEPT !.queued = FALSE, !.timer = TRUE] ELSE p

\* setTurnRunningFlag
Flagged(p, value) ==
  IF value THEN [p EXCEPT !.flag = TRUE] ELSE IdleEvent([p EXCEPT !.flag = FALSE])

\* closeMicDialog
DialogClosed(p) == IdleEvent([p EXCEPT !.dialog = FALSE])

\* stopPreview
PreviewStopped(p) == [p EXCEPT !.mics = @ \ {p.stage.preview}, !.stage.preview = None]
\* stopMic
MicStopped(p) == [p EXCEPT !.mics = @ \ {p.stage.stream}, !.stage.stream = None]

\* stopTranscription: what was recognised becomes the value of the form's field.
TranscriptionStopped(p) ==
  [p EXCEPT !.stage.recogniser = FALSE, !.stage.stopping = @ \/ p.stage.recogniser,
            !.stage.field = p.stage.heard]

\* The submit listener of the form; submitResult comes to the same.
Submitted(p) ==
  MicStopped(PreviewStopped(TranscriptionStopped(
    Flagged([p EXCEPT !.stage.running = FALSE, !.stage.mode = "idle"], FALSE))))

\* rememberAIConsent, with the controls that show it
Consenting(p, choice) ==
  [p EXCEPT !.stage.consent = choice, !.memory = [turn |-> p.stage.turn, choice |-> choice]]

\* teardown: the stage goes, what it waits for stays behind.
TornDown(p) ==
  IF p.stage = NoStage THEN p
  ELSE [Submitted(p) EXCEPT
          !.prompts = @ + (IF p.stage.start = "prompt" THEN 1 ELSE 0),
          !.echoes = IF p.stage.recogniser \/ p.stage.stopping THEN @ \cup {p.stage.turn} ELSE @,
          !.stage = NoStage, !.dialog = FALSE]

\* The new #app element, whose script makes a stage of what it finds.
Rendered(p, answer) ==
  LET kept == IF p.memory.turn = answer.turn THEN p.memory ELSE NoMemory
  IN  IF answer.turn = None THEN [p EXCEPT !.version = answer.version]
      ELSE [p EXCEPT !.version = answer.version, !.stage = NewStage(answer.turn, p.memory),
                     !.memory = kept]

\* An answer is swapped in: the old stage is torn down, a new one made.
Swapped(p, answer) == Rendered(TornDown(p), answer)

\* Every other request was made for the element that is replaced.
Detached(c) ==
  [c EXCEPT !.get.current = FALSE, !.behind = IF @ = "none" THEN @ ELSE "stale",
            !.forms = {[f EXCEPT !.current = FALSE] : f \in @}, !.again = FALSE]

\* The page becomes p; a choice it makes is recorded.
PageIs(p) ==
  /\ page' = p
  /\ past' = [past EXCEPT !.cleared = @ /\ p.stage # NoStage /\ p.stage.running,
                          !.early = /\ p.stage # NoStage /\ p.stage.running
                                    /\ IF Alive /\ page.stage.running THEN @
                                       ELSE calls.get # NoGet,
                          !.choice = IF p.memory \in {page.memory, NoMemory} THEN @
                                     ELSE [@ EXCEPT ![p.memory.turn] = p.memory.choice]]

FreeStreams == (1 .. MaxStreams) \ page.mics

-----------------------------------------------------------------------------
(* The server and its live updates                                         *)

\* The "update" listener: a version it has not seen is announced, the first one only noted.
\* On its way an update is as good as the timer it starts.
Update(version) ==
  /\ source' = [open |-> TRUE, seen |-> version]
  /\ IF source.seen \in {0, version} THEN UNCHANGED <<page, past>>
     ELSE /\ page' = [page EXCEPT !.timer = TRUE]
          /\ past' = [past EXCEPT !.announced = version]

ServerIs(s) ==
  /\ server' = s
  /\ IF source.open THEN Update(s.version) ELSE UNCHANGED <<source, page, past>>

Touched(s) == [s EXCEPT !.version = @ + 1]
TurnOver(s) == [s EXCEPT !.turn = None, !.begun = FALSE]
NewTurn(s) == [s EXCEPT !.turn = s.last + 1, !.last = @ + 1, !.begun = FALSE]

\* Other devices change the room: its roster, or the turn, which they end, start or redraw.
OthersAct ==
  /\ Spend("changes")
  /\ \/ ServerIs(Touched(server))
     \/ server.turn # None /\ ServerIs(TurnOver(Touched(server)))
     \/ server.last < MaxTurns /\ ServerIs(NewTurn(Touched(server)))
  /\ UNCHANGED calls

\* EventSource, at first and after an error; the server greets with its version.
Connect ==
  /\ page.open /\ ~source.open
  /\ Update(server.version)
  /\ UNCHANGED <<server, calls, left>>

BreakSource ==
  /\ source.open /\ Spend("breaks")
  /\ source' = [source EXCEPT !.open = FALSE]
  /\ UNCHANGED <<server, page, calls, past>>

\* The timer of the host's grace period runs out.
HostClaimTimer ==
  /\ page.open /\ Spend("claims")
  /\ page' = [page EXCEPT !.timer = TRUE]
  /\ UNCHANGED <<server, source, calls, past>>

\* "gone", redirectIfRoomIsGone and any other way to leave the page.
Leave ==
  /\ page.open /\ Spend("leaves")
  /\ PageIs([TornDown(page) EXCEPT !.open = FALSE, !.timer = FALSE, !.prompts = 0, !.echoes = {}])
  /\ source' = [source EXCEPT !.open = FALSE]
  /\ calls' = [calls EXCEPT !.get = NoGet, !.behind = "none", !.forms = {}, !.again = FALSE]
  /\ UNCHANGED server

-----------------------------------------------------------------------------
(* Refreshes                                                               *)

MayRefresh == ~page.flag /\ ~page.dialog

\* refresh; htmx has one request of the page under way and keeps the last one asked for.
Refresh ==
  /\ page.timer
  /\ IF MayRefresh
     THEN /\ page' = [page EXCEPT !.timer = FALSE]
          /\ calls' = IF calls.get = NoGet THEN [calls EXCEPT !.get = NewGet(TRUE)]
                      ELSE [calls EXCEPT !.behind = "current"]
     ELSE /\ page' = [page EXCEPT !.timer = FALSE, !.queued = TRUE]
          /\ UNCHANGED calls
  /\ UNCHANGED <<server, source, past, left>>

ServeGet ==
  /\ calls.get.stage = "sent"
  /\ calls' = [calls EXCEPT !.get.stage = "answered", !.get.answer = Rendering]
  /\ UNCHANGED <<server, source, page, past, left>>

\* The request behind this one goes out.
Followed(c) ==
  [c EXCEPT !.get = IF c.behind = "none" THEN NoGet ELSE NewGet(c.behind = "current"),
            !.behind = "none"]

\* Slip: an answer goes into whatever is #app when it arrives.
Lands_Anywhere(call) == TRUE
Lands(call) == call.current

ReceiveGet ==
  /\ calls.get.stage = "answered"
  /\ IF Lands(calls.get)
     THEN PageIs(Swapped(page, calls.get.answer)) /\ calls' = Followed(Detached(calls))
     ELSE /\ calls' = Followed(calls)
          /\ past' = [past EXCEPT !.missed = @ \/ calls.get.answer.version > page.version,
                                  !.early = @ /\ calls'.get # NoGet]
          /\ UNCHANGED page
  /\ UNCHANGED <<server, source, left>>

\* The network loses a refresh, asked or answered.
LoseGet ==
  /\ calls.get.stage # "none" /\ Spend("faults")
  /\ calls' = Followed(calls)
  /\ past' = [past EXCEPT !.missed = TRUE, !.early = @ /\ calls'.get # NoGet]
  /\ UNCHANGED <<server, source, page>>

-----------------------------------------------------------------------------
(* Forms                                                                   *)

\* Is a submission of this stage's form under way?
Submitting == \E f \in calls.forms : f.current /\ f.turn # None

\* The result form: the request carries the field; behind another one it waits for it.
Send(p) ==
  IF Submitting THEN [calls EXCEPT !.again = TRUE]
  ELSE [calls EXCEPT !.forms = @ \cup
         {[turn |-> p.stage.turn, transcript |-> p.stage.field, current |-> TRUE,
           answer |-> Unanswered]}]

\* "Mark Complete", "End Turn", and the silence or the end of a turn (finish): submitResult
\* and the submit listener.
Submit ==
  /\ Alive /\ Spend("submits")
  /\ PageIs(Submitted(page))
  /\ calls' = Send(page')
  /\ UNCHANGED <<server, source>>

\* micTick, manualTick
Tick ==
  /\ Alive /\ page.stage.running /\ page.stage.mode # "idle"
  /\ PageIs(Submitted(page))
  /\ calls' = Send(page')
  /\ UNCHANGED <<server, source, left>>

\* Another form of the page: redraw, reset, the next turn.
OtherForm ==
  /\ page.open /\ Spend("forms")
  /\ calls' = [calls EXCEPT !.forms = @ \cup
       {[turn |-> None, transcript |-> FALSE, current |-> TRUE, answer |-> Unanswered]}]
  /\ UNCHANGED <<server, source, page, past>>

\* The server answers a form with the page, whether it did as it was told or not.
ServeForm ==
  \E f \in {g \in calls.forms : g.answer = Unanswered} :
    /\ \/ /\ f.turn # None /\ f.turn = server.turn
          /\ ServerIs(TurnOver(Touched(server)))
       \/ /\ f.turn = None
          /\ \/ ServerIs(Touched(server))
             \/ server.turn # None /\ ServerIs(TurnOver(Touched(server)))
             \/ server.last < MaxTurns /\ ServerIs(NewTurn(Touched(server)))
       \/ /\ f.turn # server.turn
          /\ UNCHANGED <<server, source, page, past>>
    /\ calls' = [calls EXCEPT !.forms = (@ \ {f}) \cup
         {[f EXCEPT !.answer = [version |-> server'.version, turn |-> server'.turn]]}]
    /\ UNCHANGED left

\* The end of a submission sends the one behind it.
Ended(c, f) ==
  LET rest == [c EXCEPT !.forms = @ \ {f}]
  IN  IF f.current /\ f.turn # None /\ c.again
      THEN [rest EXCEPT !.again = FALSE, !.forms = @ \cup
             {[turn |-> page.stage.turn, transcript |-> page.stage.field, current |-> TRUE,
               answer |-> Unanswered]}]
      ELSE rest

ReceiveForm ==
  \E f \in {g \in calls.forms : g.answer # Unanswered} :
    /\ IF Lands(f)
       THEN /\ PageIs(Swapped(page, f.answer))
            /\ calls' = Detached([calls EXCEPT !.forms = @ \ {f}])
       ELSE /\ calls' = [calls EXCEPT !.forms = @ \ {f}]
            /\ past' = [past EXCEPT !.missed = @ \/ f.answer.version > page.version]
            /\ UNCHANGED page
    /\ UNCHANGED <<server, source, left>>

LoseForm ==
  \E f \in calls.forms :
    /\ Spend("faults")
    /\ calls' = Ended(calls, f)
    /\ past' = [past EXCEPT !.missed = TRUE]
    /\ UNCHANGED <<server, source, page>>

\* The speaking has begun; the notice is sent once and forgotten (notifyTurnBegin).
ServeBegin ==
  \E t \in calls.begins :
    /\ calls' = [calls EXCEPT !.begins = @ \ {t}]
    /\ IF t = server.turn /\ ~server.begun
       THEN ServerIs([Touched(server) EXCEPT !.begun = TRUE])
       ELSE UNCHANGED <<server, source, page, past>>
    /\ UNCHANGED left

LoseBegin ==
  \E t \in calls.begins :
    /\ Spend("faults")
    /\ calls' = [calls EXCEPT !.begins = @ \ {t}]
    /\ UNCHANGED <<server, source, page, past>>

-----------------------------------------------------------------------------
(* The stage                                                               *)

\* The state of the stage becomes s; nothing else of the page changes.
StageIs(s) == PageIs([page EXCEPT !.stage = s])
ByPage == UNCHANGED <<server, source, calls>>

ChooseConsent(choice) ==
  /\ Alive /\ page.stage.ready
  /\ PageIs(Consenting(page, choice))
  /\ ByPage /\ UNCHANGED left

\* startPreview: from the list of microphones, a choice in it, a device that comes or goes.
AskPreview ==
  /\ Alive /\ Idle(page.stage) /\ Spend("previews")
  /\ PageIs([PreviewStopped(page) EXCEPT !.stage.asked = @ + 1])
  /\ ByPage

\* The rest of startPreview; a preview that is there already is overwritten.
PreviewGranted ==
  /\ Alive /\ page.stage.asked > 0
  /\ \E id \in FreeStreams :
       IF Idle(page.stage)
       THEN /\ page' = [page EXCEPT !.stage.asked = @ - 1, !.stage.preview = id,
                                    !.mics = @ \cup {id}]
            /\ past' = [past EXCEPT !.overwritten = @ \cup ({page.stage.preview} \ {None})]
       ELSE PageIs([PreviewStopped(page) EXCEPT !.stage.asked = @ - 1])
  /\ ByPage /\ UNCHANGED left

PreviewDenied ==
  /\ Alive /\ page.stage.asked > 0
  /\ PageIs([PreviewStopped(page) EXCEPT !.stage.asked = @ - 1])
  /\ ByPage /\ UNCHANGED left

OpenDialog ==
  /\ Alive /\ Idle(page.stage) /\ ~page.dialog /\ Spend("dialogs")
  /\ PageIs([page EXCEPT !.dialog = TRUE])
  /\ ByPage

CloseDialog ==
  /\ page.dialog
  /\ PageIs(DialogClosed(page))
  /\ ByPage /\ UNCHANGED left

\* start, as far as its request for the microphone; the flag is not set yet.
StartMic ==
  /\ Alive /\ page.stage.ready /\ page.stage.consent # "" /\ Spend("starts")
  /\ PageIs([PreviewStopped(DialogClosed(page)) EXCEPT
       !.stage.ready = FALSE, !.stage.mode = "mic", !.stage.start = "prompt"])
  /\ ByPage

\* The microphone is there; the list of microphones is read again.
Grant ==
  /\ Alive /\ page.stage.start = "prompt"
  /\ \E id \in FreeStreams :
       PageIs([page EXCEPT !.stage.stream = id, !.mics = @ \cup {id}, !.stage.start = "list"])
  /\ ByPage /\ UNCHANGED left

\* The turn runs, whatever has become of it since the click.
Begun(p) == [Flagged(p, TRUE) EXCEPT !.stage.running = TRUE, !.stage.ready = FALSE]
Notify == calls' = [calls EXCEPT !.begins = @ \cup {page.stage.turn}]

\* startTranscription, which may fail: then the turn goes on as classic play.
Transcribed(p) ==
  IF p.stage.consent = "local"
  THEN {[p EXCEPT !.stage.recogniser = TRUE], Consenting(p, "classic")}
  ELSE {p}

\* The rest of start.
ListDone ==
  /\ Alive /\ page.stage.start = "list" /\ page.stage.stream # None
  /\ \E p \in Transcribed([Begun(page) EXCEPT !.stage.start = "no", !.stage.heard = FALSE]) :
       PageIs(p)
  /\ Notify
  /\ UNCHANGED <<server, source, left>>

\* The catch of start: no microphone, or the form has taken it away meanwhile.
StartFails ==
  /\ Alive /\ page.stage.start # "no"
  /\ PageIs([MicStopped(Flagged(page, FALSE)) EXCEPT
       !.stage.running = FALSE, !.stage.mode = "idle", !.stage.ready = TRUE, !.stage.start = "no"])
  /\ ByPage /\ UNCHANGED left

\* The start of a destroyed stage gets its microphone, and stops it.
GhostGranted ==
  /\ page.prompts > 0
  /\ page' = [page EXCEPT !.prompts = @ - 1]
  /\ ByPage /\ UNCHANGED <<past, left>>

\* It is refused: the catch resets the flag, whoever's it is by now.
GhostDenied ==
  /\ page.prompts > 0
  /\ page' = Flagged([page EXCEPT !.prompts = @ - 1], FALSE)
  /\ past' = [past EXCEPT !.cleared = page.flag \/ @]
  /\ ByPage /\ UNCHANGED left

StartManual ==
  /\ Alive /\ page.stage.ready /\ Spend("starts")
  /\ PageIs([Begun(PreviewStopped(DialogClosed(Consenting(page, "classic")))) EXCEPT
       !.stage.mode = "manual"])
  /\ Notify
  /\ UNCHANGED <<server, source>>

\* recognition.onresult, also of a recogniser that was told to stop
Hear ==
  /\ Alive /\ (page.stage.recogniser \/ page.stage.stopping)
  /\ PageIs([page EXCEPT !.stage.heard = TRUE])
  /\ ByPage /\ UNCHANGED left

\* Slip: the words already heard stay in the form.
Unheard_KeepsWords(p) ==
  [p EXCEPT !.stage.recogniser = FALSE, !.stage.stopping = FALSE]
Unheard(p) ==
  [p EXCEPT !.stage.recogniser = FALSE, !.stage.stopping = FALSE, !.stage.field = FALSE,
            !.stage.heard = FALSE]

\* recognition.onerror
RecognitionError ==
  /\ Alive /\ (page.stage.recogniser \/ page.stage.stopping)
  /\ PageIs(Consenting(Unheard(page), "classic"))
  /\ ByPage /\ UNCHANGED left

\* A recogniser that was told to stop has stopped.
RecogniserEnds ==
  /\ Alive /\ page.stage.stopping
  /\ PageIs([page EXCEPT !.stage.stopping = FALSE])
  /\ ByPage /\ UNCHANGED left

\* The recogniser of a destroyed stage ends; its error still changes what is remembered.
EchoEnds ==
  \E t \in page.echoes :
    /\ \E memory \in {page.memory, [turn |-> t, choice |-> "classic"]} :
         page' = [page EXCEPT !.echoes = @ \ {t}, !.memory = memory]
    /\ ByPage /\ UNCHANGED <<past, left>>

-----------------------------------------------------------------------------
StageStep ==
  \/ \E choice \in {"local", "classic"} : ChooseConsent(choice)
  \/ AskPreview \/ PreviewGranted \/ PreviewDenied \/ OpenDialog \/ CloseDialog
  \/ StartMic \/ Grant \/ ListDone \/ StartFails \/ StartManual
  \/ GhostGranted \/ GhostDenied
  \/ Hear \/ RecognitionError \/ RecogniserEnds \/ EchoEnds
  \/ Submit \/ Tick

NetworkStep ==
  \/ OthersAct \/ Connect \/ BreakSource
  \/ ServeGet \/ ReceiveGet \/ LoseGet
  \/ OtherForm \/ ServeForm \/ ReceiveForm \/ LoseForm
  \/ ServeBegin \/ LoseBegin

Next == StageStep \/ NetworkStep \/ HostClaimTimer \/ Refresh \/ Leave

\* Timers fire, requests and events that are not lost arrive, frames are drawn while a turn
\* runs, the browser reconnects, and nobody leaves the dialog open for good.
Fairness ==
  /\ WF_vars(Connect) /\ WF_vars(Refresh)
  /\ WF_vars(ServeGet) /\ WF_vars(ReceiveGet)
  /\ WF_vars(ServeForm) /\ WF_vars(ReceiveForm)
  /\ WF_vars(Tick) /\ WF_vars(CloseDialog)

Spec == Init /\ [][Next]_vars /\ Fairness

-----------------------------------------------------------------------------
(* Properties                                                              *)

\* A transcript leaves the browser only for a turn whose last choice was on-device
\* transcription: not after an error has put the turn back to classic play, nor after a
\* refresh in the middle of it (turn.js:231-303).
TranscriptOnlyWithConsent ==
  [][\A f \in calls'.forms \ calls.forms :
       f.current /\ f.answer = Unanswered /\ f.transcript => past'.choice[f.turn] = "local"]_vars

\* The browser recognises speech only for a stage on the page, from the microphone this
\* stage holds, while the speaker's choice for this very turn is on-device transcription
\* (turn.js:299-302).
RecognitionNeedsConsent ==
  Alive /\ page.stage.recogniser =>
    /\ page.stage.running /\ page.stage.stream \in page.mics
    /\ page.stage.consent = "local" /\ past.choice[page.stage.turn] = "local"

\* Every open microphone stream is the stage's own, one that the stage will stop: none
\* outlives a swap, a submission, a late grant or the page.  Previews that another preview
\* overwrote are the exception.
StreamsAreStopped ==
  page.mics = past.overwritten \cup
    (IF Alive THEN {page.stage.stream, page.stage.preview} \ {None} ELSE {})

\* A refresh takes a running turn away only if it was asked for before the turn ran, or
\* a stage that is gone has reset the flag.  room.js:17 promises that there is no such
\* refresh at all, but the flag is looked at when the refresh is asked for, not when it
\* is answered (room.js:14-23).
RefreshWaitsForTurn ==
  [][ReceiveGet /\ Alive /\ page.stage.running /\ page' # page =>
       past.early \/ past.cleared]_vars

\* Whatever answers cross each other, the page never shows an older room than before.
PageNeverGoesBack == [][page'.version >= page.version]_vars

\* An update that arrives is on the page in the end, whatever turn or dialog holds it up,
\* unless a request of the page is lost or answered in vain.
UpdatesLand ==
  past.announced > page.version ~> past.announced <= page.version \/ past.missed \/ ~page.open

\* The microphone is open, its sound recognised and the words sent only as the speaker chose.
ListensAsChosen == []RecognitionNeedsConsent /\ []StreamsAreStopped /\ TranscriptOnlyWithConsent

\* A refresh leaves the turns alone that run when it is asked for, brings nothing older,
\* and comes in the end.
RefreshesAreRight == RefreshWaitsForTurn /\ PageNeverGoesBack /\ UpdatesLand
=============================================================================
