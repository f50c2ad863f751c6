------------------------------ MODULE MCGames ------------------------------
(* The whole game of tic-tac-toe, and the duel with a short arm delay.     *)
EXTENDS Games
=============================================================================
