----------------------------- MODULE MCRoomGame -----------------------------
(* Constants of the TLC run of the game rules. *)
EXTENDS RoomGameProperties

\* A swap at the seam of two decks needs lists of two topics.
TwoLists == {<<"tea", "rain">>, <<"rain", "snow">>}
TeaRain == <<"tea", "rain">>
OneDelta == {-2}
LaggingCounter == {2}
TwoPlayers == 1 .. 2

\* Bound (state constraint): a room whose topics were edited or asked for more
\* than once plays at most two turns, and one that plays more edits them once.
EditsOrTurns == topicGeneration <= 1 \/ lastIssued <= 2

=============================================================================
