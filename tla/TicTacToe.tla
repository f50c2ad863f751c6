------------------------------ MODULE TicTacToe ------------------------------
(***************************************************************************)
(* Tic-tac-toe (internal/domain/tictactoe) as the room actor drives it, and *)
(* a client that keeps its own copy of the game by applying each diff.      *)
(*                                                                          *)
(* Seats stand for players.  A call that returns an error changes nothing,  *)
(* so the guards of Validate are the guards of the move.  Tick is a no-op,  *)
(* and so is OnPlayerAbandoned once the game is done.                       *)
(***************************************************************************)
EXTENDS Integers, Sequences, SequencesExt

CONSTANTS
  None,         \* no winner, an omitted field
  SkipsUnmarked \* the client ignores a diff's cell when its mark is empty

VARIABLES
  board,     \* State.Board: emptySeat, seatX or seatO in each cell
  turn,      \* State.Turn
  moveCount, \* State.MoveCount
  done,      \* State.Done
  draw,      \* State.Draw
  winner,    \* State.Winner
  abandoned, \* history: the seat whose player abandoned the game
  client     \* the client's copy of the board, the turn and the result

vars == <<board, turn, moveCount, done, draw, winner, abandoned, client>>

Seat == {0, 1}

emptySeat == 0

Cell == 0..8

Coord == 0..2

Index(x, y) == y * 3 + x

Mark(seat) == seat + 1

\* What toWire shows of a state.
Snapshot == [board |-> board, turn |-> turn, done |-> done, draw |-> draw, winner |-> winner]

winLines ==
  << <<0, 1, 2>>, <<3, 4, 5>>, <<6, 7, 8>>,
     <<0, 3, 6>>, <<1, 4, 7>>, <<2, 5, 8>>,
     <<0, 4, 8>>, <<2, 4, 6>> >>

\* Mutant: only the ends of a line are compared.
EndsComplete(b, line) == b[line[1]] # emptySeat /\ b[line[1]] = b[line[3]]

Complete(b, line) ==
  b[line[1]] # emptySeat /\ b[line[1]] = b[line[2]] /\ b[line[2]] = b[line[3]]

winningSeat(b) ==
  LET i == SelectInSeq(winLines, LAMBDA line : Complete(b, line))
  IN  IF i = 0 THEN -1 ELSE b[winLines[i][1]] - 1

-----------------------------------------------------------------------------
(***************************************************************************)
(* Diffs, and the client that applies them.                                 *)
(***************************************************************************)

\* Mutant: a turn of 0 is omitted.
DiffOmitsZero(cell, mark, to, terminal, drawn, won) ==
  [cell |-> cell, mark |-> mark, turn |-> IF to = 0 THEN None ELSE to,
   terminal |-> terminal, draw |-> drawn, winner |-> won]

\* diffPayload: an omitted turn or winner is None; the cell is never omitted.
Diff(cell, mark, to, terminal, drawn, won) ==
  [cell |-> cell, mark |-> mark, turn |-> to, terminal |-> terminal,
   draw |-> drawn, winner |-> won]

Apply(view, diff) ==
  [board  |-> IF SkipsUnmarked /\ diff.mark = emptySeat
                THEN view.board ELSE [view.board EXCEPT ![diff.cell] = diff.mark],
   turn   |-> IF diff.turn = None THEN view.turn ELSE diff.turn,
   done   |-> diff.terminal,
   draw   |-> diff.draw,
   winner |-> diff.winner]

-----------------------------------------------------------------------------

Init ==
  /\ board = [i \in Cell |-> emptySeat]
  /\ turn = 0 /\ moveCount = 0
  /\ done = FALSE /\ draw = FALSE /\ winner = None
  /\ abandoned = None
  /\ client = Snapshot

Validate(seat, x, y) ==
  /\ ~done
  /\ seat = turn
  /\ board[Index(x, y)] = emptySeat

ApplyAction(seat, x, y) ==
  /\ Validate(seat, x, y)
  /\ LET i == Index(x, y)
         b == [board EXCEPT ![i] = Mark(turn)]
         w == winningSeat(b)
     IN  /\ board' = b
         /\ moveCount' = moveCount + 1
         /\ \/ /\ w >= 0
               /\ done' = TRUE /\ winner' = w
               /\ client' = Apply(client, Diff(i, Mark(turn), None, TRUE, FALSE, w))
               /\ UNCHANGED <<turn, draw>>
            \/ /\ w < 0 /\ moveCount + 1 = 9
               /\ done' = TRUE /\ draw' = TRUE
               /\ client' = Apply(client, Diff(i, Mark(turn), None, TRUE, TRUE, None))
               /\ UNCHANGED <<turn, winner>>
            \/ /\ w < 0 /\ moveCount + 1 # 9
               /\ turn' = 1 - turn
               /\ client' = Apply(client, Diff(i, Mark(turn), 1 - turn, FALSE, FALSE, None))
               /\ UNCHANGED <<done, draw, winner>>
  /\ UNCHANGED abandoned

\* Mutant: the one who left is declared the winner.
AbandonerWins(seat) ==
  /\ ~done
  /\ done' = TRUE /\ winner' = seat /\ abandoned' = seat
  /\ client' = Apply(client, Diff(Index(0, 0), emptySeat, None, TRUE, FALSE, seat))
  /\ UNCHANGED <<board, turn, moveCount, draw>>

\* The diff's cell is the zero value: the corner (0, 0), with no mark.
OnPlayerAbandoned(seat) ==
  /\ ~done
  /\ done' = TRUE /\ winner' = 1 - seat /\ abandoned' = seat
  /\ client' = Apply(client, Diff(Index(0, 0), emptySeat, None, TRUE, FALSE, 1 - seat))
  /\ UNCHANGED <<board, turn, moveCount, draw>>

Next ==
  \E seat \in Seat :
    \/ \E x, y \in Coord : ApplyAction(seat, x, y)
    \/ OnPlayerAbandoned(seat)

-----------------------------------------------------------------------------
(***************************************************************************)
(* Properties                                                               *)
(***************************************************************************)

TypeOK ==
  /\ board \in [Cell -> 0..2] /\ turn \in Seat /\ moveCount \in 0..9
  /\ {done, draw} \subseteq BOOLEAN
  /\ winner \in Seat \cup {None} /\ abandoned \in Seat \cup {None}

\* The geometry of the board, without the table of lines: its rows, its columns and its
\* two diagonals.
Lines ==
  {{Index(x, y) : x \in Coord} : y \in Coord} \cup {{Index(x, y) : y \in Coord} : x \in Coord}
  \cup {{Index(x, x) : x \in Coord}, {Index(x, 2 - x) : x \in Coord}}

HasLine(seat) == \E line \in Lines : \A c \in line : board[c] = Mark(seat)

\* The result is the one the board shows: a player has won exactly when they have three
\* in a row, a draw is a full board without a row, and while the game runs there is
\* neither.  A player who abandons loses (ApplyAction, winningSeat, OnPlayerAbandoned).
ResultMatchesBoard ==
  /\ done <=> (abandoned # None \/ draw \/ \E s \in Seat : HasLine(s))
  /\ draw <=> (abandoned = None /\ moveCount = 9 /\ \A s \in Seat : ~HasLine(s))
  /\ \A s \in Seat :
       winner = s <=> (HasLine(s) \/ abandoned = 1 - s)
  /\ abandoned # None => \A s \in Seat : ~HasLine(s)

\* A client that starts from the snapshot and applies every diff has what a fresh
\* snapshot would show (diffPayload against toWire).
DiffsDescribeState == client = Snapshot

=============================================================================
