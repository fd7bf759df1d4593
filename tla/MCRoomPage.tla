----------------------------- MODULE MCRoomPage -----------------------------
(* What the behaviours of the run may do.                                  *)
EXTENDS RoomPage

Nothing ==
  [changes |-> 0, routes |-> 0, faults |-> 0, breaks |-> 0, starts |-> 0, silences |-> 0,
   clicks |-> 0, dialogs |-> 0, plugs |-> 0, others |-> 0]

\* A turn is started while the user leaves and returns, and others end or redraw it.
Leaving == [Nothing EXCEPT !.changes = 2, !.routes = 2, !.starts = 1]
\* Requests and sockets fail around a turn.
Network == [Nothing EXCEPT !.changes = 1, !.faults = 1, !.breaks = 1, !.starts = 1,
                           !.silences = 1]
Clicks == [Nothing EXCEPT !.changes = 1, !.faults = 1, !.breaks = 1, !.clicks = 1]
\* The preference: another tab chooses while a start misses its microphone.
Preferences == [Nothing EXCEPT !.changes = 1, !.starts = 1, !.plugs = 1, !.others = 2]
\* The dialog, another tab and a storage that refuses.
Picking == [Nothing EXCEPT !.changes = 1, !.dialogs = 1, !.others = 1, !.faults = 1]
\* The dialog and its lists.
Lists == [Nothing EXCEPT !.changes = 1, !.dialogs = 1, !.plugs = 1]
AllScopes == {Leaving, Network, Clicks, Preferences, Picking, Lists}
=============================================================================
