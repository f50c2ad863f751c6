-------------------------------- MODULE Games --------------------------------
(***************************************************************************)
(* A game as the room gets it from the registry (internal/domain/game):     *)
(* one of the two that the server registers, behind one interface.          *)
(***************************************************************************)
EXTENDS Integers

CONSTANTS None, SkipsUnmarked, ArmDelay

ASSUME GamesAssumption ==
  /\ None \notin Int /\ None \notin {"countdown", "armed", "done"}
  /\ SkipsUnmarked \in BOOLEAN /\ ArmDelay \in Nat \ {0}

VARIABLES
  gameType,                                                  \* the name it was made under
  done, winner, abandoned,                                   \* what every game has
  board, turn, moveCount, draw, client,                      \* tic-tac-toe
  phase, left, reason, shown, seen, buzz, age, decider       \* the reflex duel

boardVars == <<board, turn, moveCount, draw, client>>
duelVars == <<phase, left, reason, shown, seen, buzz, age, decider>>
vars == <<gameType, done, winner, abandoned, boardVars, duelVars>>

Seat == {0, 1}

T == INSTANCE TicTacToe
P == INSTANCE PingPong

\* The factories that Build registers.
Registered == {"tictactoe", "pingpong"}

\* Registry.New, and the game's Init.
Init ==
  /\ gameType \in Registered
  /\ \/ gameType = "tictactoe" /\ T!Init
        /\ phase = None /\ left = None /\ reason = None /\ shown = None /\ seen = None
        /\ buzz = None /\ age = None /\ decider = None
     \/ gameType = "pingpong" /\ P!Init
        /\ board = None /\ turn = None /\ moveCount = None /\ draw = None /\ client = None

Duel(step) == gameType = "pingpong" /\ step /\ UNCHANGED <<gameType, boardVars>>

Next ==
  \/ gameType = "tictactoe" /\ T!Next /\ UNCHANGED <<gameType, duelVars>>
  \/ gameType = "pingpong" /\ P!Next /\ UNCHANGED <<gameType, boardVars>>

Spec == Init /\ [][Next]_vars

\* The room's ticker and the clock go on; nobody has to press or to move.
FairSpec == Spec /\ WF_vars(Duel(P!Tick)) /\ WF_vars(Duel(P!TimePasses))

-----------------------------------------------------------------------------
(***************************************************************************)
(* Properties                                                               *)
(***************************************************************************)

TypeOK == (gameType = "tictactoe" => T!TypeOK) /\ (gameType = "pingpong" => P!TypeOK)

\* Tic-tac-toe: the result is the one the board shows, by the geometry of the board.
ResultMatchesBoard == gameType = "tictactoe" => T!ResultMatchesBoard

\* Tic-tac-toe: a client that applies every diff has what a fresh snapshot would show.
DiffsDescribeState == gameType = "tictactoe" => T!DiffsDescribeState

\* The duel: nobody sees "go" or wins by the first buzz before the arm delay is over.
GoAfterDelay == gameType = "pingpong" => P!GoAfterDelay

\* The duel: a player who pressed after they saw "go" does not lose by a false start.
GoIsFair == gameType = "pingpong" => P!GoIsFair

\* The duel: the "go" signal fires unless the game is decided before (Tick).
GoFires == <>(phase # "countdown")

Contract == INSTANCE GameContract WITH over <- done

\* Whichever game it is, the room can rely on it: its result is final, and the player who
\* abandons it ends it for the other one (Game.OnPlayerAbandoned).
KeepsContract == Contract!Spec

=============================================================================
