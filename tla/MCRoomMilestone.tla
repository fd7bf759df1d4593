-------------------------- MODULE MCRoomMilestone --------------------------
(* Constants of the TLC runs of milestone delivery. *)
EXTENDS RoomMilestoneProperties

GrowingDelay == [a \in 1 .. MaxAttempts |-> {a}]
JitteredDelay == [a \in 1 .. MaxAttempts |-> {1, 2 * OutboxDeadline}]
TouchingSaves == {TRUE}
AllSaves == BOOLEAN
FirstTicks == 0 .. 2
BothLives == {0, 1, 2, 15}
EveryTick == 0 .. MaxClock
NoEvents == {}
SecondEvent == {2}
ThirdEvent == {3}

=============================================================================
