---------------------------- MODULE RoomLifecycle ----------------------------
(***************************************************************************)
(* What a room promises to the rest of the engine (lifecycle.go and the     *)
(* comments of room.go), without its channel, slots, timers or callers: a   *)
(* lifecycle that only moves forward, a bounded number of seats, a sequence *)
(* number that counts the changes of a running game one by one, and an      *)
(* actor that stops only after the room is closed.                          *)
(***************************************************************************)
EXTENDS Integers

CONSTANTS MinPlayers, MaxPlayers

VARIABLES lifecycle, seated, serverSeq, stopped

vars == <<lifecycle, seated, serverSeq, stopped>>

Init == lifecycle = "Waiting" /\ seated = 0 /\ serverSeq = 0 /\ stopped = FALSE

\* A player takes a seat; the one that makes the room quorate may start the game.
Seat ==
  /\ lifecycle \in {"Waiting", "Active"} /\ seated < MaxPlayers
  /\ seated' = seated + 1
  /\ \/ lifecycle' = lifecycle
     \/ lifecycle = "Waiting" /\ seated' >= MinPlayers /\ lifecycle' = "Active"
  /\ UNCHANGED <<serverSeq, stopped>>

\* Seats are given up before the game starts only; the last one to leave closes the room.
Vacate ==
  /\ lifecycle = "Waiting" /\ seated > 0
  /\ seated' = seated - 1
  /\ lifecycle' = IF seated = 1 THEN "Closed" ELSE "Waiting"
  /\ UNCHANGED <<serverSeq, stopped>>

\* The game changes, and possibly ends.
Play ==
  /\ lifecycle = "Active"
  /\ serverSeq' = serverSeq + 1
  /\ lifecycle' \in {"Active", "Finished"}
  /\ UNCHANGED <<seated, stopped>>

Close ==
  /\ lifecycle # "Closed" /\ lifecycle' = "Closed"
  /\ UNCHANGED <<seated, serverSeq, stopped>>

Stop ==
  /\ lifecycle = "Closed" /\ ~stopped /\ stopped' = TRUE
  /\ UNCHANGED <<lifecycle, seated, serverSeq>>

Next == Seat \/ Vacate \/ Play \/ Close \/ Stop

Spec == Init /\ [][Next]_vars
=============================================================================
