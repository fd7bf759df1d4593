--------------------------- MODULE MCCloudProgress ---------------------------
(* Values TLC needs for the constants of CloudProgress. *)
EXTENDS CloudProgressProperties, TLC

Two == {1, 2}
Three == {1, 2, 3}
AllButNewest == {2, 3}
Interchangeable == Permutations(Flows) \cup Permutations(Crons) \cup Permutations(Contents)
=============================================================================
