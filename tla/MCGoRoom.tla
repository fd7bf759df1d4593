------------------------------ MODULE MCGoRoom ------------------------------
(* What the behaviours of the run may do how often: verdicts and a restart, requests of *)
(* old pages, the clock, streams and hosts, a room that expires, topics under way.        *)
EXTENDS GoRoomProperties

Nothing ==
  [roster |-> 0, turns |-> 0, settings |-> 0, claims |-> 0, pages |-> 0, moves |-> 0,
   hosts |-> 0, edits |-> 0, drafts |-> 0, resets |-> 0, redraws |-> 0, corrections |-> 0,
   streams |-> 0, ticks |-> 0, saves |-> 0, crashes |-> 0]

Verdicts == [Nothing EXCEPT !.roster = 1, !.turns = 3, !.settings = 1, !.resets = 1,
               !.saves = 1, !.crashes = 1]
LatePages == [Nothing EXCEPT !.roster = 2, !.turns = 3, !.pages = 1, !.redraws = 1, !.resets = 1,
                !.saves = 1, !.crashes = 1]
Clock == [Nothing EXCEPT !.roster = 1, !.turns = 2, !.claims = 2, !.ticks = 4,
            !.corrections = 1]
Presence == [Nothing EXCEPT !.roster = 3, !.streams = 3, !.hosts = 2, !.ticks = 1]
Expiry == [Nothing EXCEPT !.roster = 1, !.streams = 2, !.ticks = 4, !.saves = 1, !.crashes = 1]
Topics == [Nothing EXCEPT !.roster = 2, !.turns = 1, !.edits = 1, !.drafts = 2, !.hosts = 1, !.moves = 1]

AllScopes == {Verdicts, LatePages, Clock, Presence, Expiry, Topics}
=============================================================================
