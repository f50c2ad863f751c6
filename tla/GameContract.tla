---------------------------- MODULE GameContract ----------------------------
(***************************************************************************)
(* What the room relies on a Game for (internal/domain/game/game.go): a     *)
(* game runs until one step ends it, with a winner or without one, and      *)
(* nothing changes the result afterwards.  A player who abandons a running  *)
(* game ends it, and the other player wins.                                 *)
(***************************************************************************)
CONSTANTS Seat, None

VARIABLES over, winner, abandoned

Init == ~over /\ winner = None /\ abandoned = None

\* Play ends the game: somebody wins, or nobody.
End ==
  /\ ~over /\ over'
  /\ winner' \in Seat \cup {None}
  /\ UNCHANGED abandoned

Abandon(s) ==
  /\ ~over /\ over'
  /\ winner' \in Seat \ {s} /\ abandoned' = s

Next == End \/ \E s \in Seat : Abandon(s)

Spec == Init /\ [][Next]_<<over, winner, abandoned>>

=============================================================================
