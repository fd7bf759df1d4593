---------------------------- MODULE MCGoTurnPage ----------------------------
(* What the behaviours of the run may do.                                  *)
EXTENDS GoTurnPage

Nothing ==
  [changes |-> 0, breaks |-> 0, claims |-> 0, leaves |-> 0, faults |-> 0, submits |-> 0,
   forms |-> 0, previews |-> 0, dialogs |-> 0, starts |-> 0]

\* An update comes while a turn is prepared, runs and is handed in.
Updates == [Nothing EXCEPT !.changes = 1, !.starts = 1, !.submits = 1]
\* A second start, after a refresh or a refusal.
Restarts == [Nothing EXCEPT !.claims = 1, !.starts = 2]
\* Requests and the live stream fail.
Losses == [Nothing EXCEPT !.changes = 1, !.starts = 1, !.faults = 1]
Breaks == [Nothing EXCEPT !.changes = 1, !.starts = 1, !.breaks = 1]
\* The dialog holds an update up; previews overtake each other; another form is used.
Dialogs == [Nothing EXCEPT !.changes = 1, !.starts = 1, !.dialogs = 1]
Previews == [Nothing EXCEPT !.previews = 2, !.starts = 1, !.leaves = 1]
Forms == [Nothing EXCEPT !.forms = 1, !.starts = 1]
AllScopes == {Updates, Restarts, Losses, Breaks, Dialogs, Previews, Forms}
=============================================================================
