----------------------------- MODULE GamesProofs -----------------------------
(***************************************************************************)
(* Proofs about the two games, for every arm delay and for clients that     *)
(* apply an unmarked diff and clients that do not.                          *)
(***************************************************************************)
EXTENDS Games, Sequences, TLAPS

-----------------------------------------------------------------------------
(***************************************************************************)
(* The reflex duel                                                          *)
(***************************************************************************)

\* Somebody knows of the "go" signal.
GoIsOut == shown = "armed" \/ \E s \in Seat : seen[s] = "armed" \/ buzz[s] = "armed"

\* The deadline is never earlier than the delay after Init; nobody knows of "go" before it
\* is given; the game is undecided while it runs.
DuelInv ==
  /\ left # None => left + age >= ArmDelay
  /\ phase = "armed" \/ reason = "first_buzz" \/ GoIsOut => age = ArmDelay
  /\ GoIsOut => phase # "countdown"
  /\ ~done => decider = None
  /\ P!GoIsFair

\* The duel decides nothing anew and nobody learns of "go": the invariant stays.
LEMMA DuelFrame ==
  ASSUME P!TypeOK, DuelInv,
         left' = None \/ (left' \in 0..ArmDelay /\ left' + age' >= ArmDelay),
         age' \in 0..ArmDelay, age' >= age,
         phase' = phase \/ (phase = "countdown" /\ phase' = "armed" /\ age' = ArmDelay),
         GoIsOut' => GoIsOut \/ (phase' = "armed" /\ age' = ArmDelay),
         UNCHANGED <<done, winner, reason, decider>>
  PROVE  DuelInv'
<1>1. age \in 0..ArmDelay /\ ArmDelay \in Nat
  BY GamesAssumption DEF P!TypeOK
<1>2. age = ArmDelay => age' = ArmDelay
  BY <1>1
<1>3. left' # None => left' + age' >= ArmDelay
  OBVIOUS
<1>4. phase' = "armed" \/ reason' = "first_buzz" \/ GoIsOut' => age' = ArmDelay
  BY <1>2 DEF DuelInv
<1>5. GoIsOut' => phase' # "countdown"
  BY DEF DuelInv
<1>6. (~done => decider = None)' /\ P!GoIsFair'
  BY DEF DuelInv, P!GoIsFair
<1> QED
  BY <1>3, <1>4, <1>5, <1>6 DEF DuelInv

\* Every step of the duel keeps its invariant.
LEMMA DuelStep ==
  ASSUME P!TypeOK, DuelInv, P!Next
  PROVE  P!TypeOK' /\ DuelInv'
<1>0. age \in 0..ArmDelay /\ ArmDelay \in Nat /\ ArmDelay > 0
  BY GamesAssumption DEF P!TypeOK
<1>1. left = None \/ (left \in 0..ArmDelay /\ left + age >= ArmDelay)
  BY DEF P!TypeOK, DuelInv
<1>2. /\ phase \in P!Phases /\ shown \in P!Phases /\ done \in BOOLEAN
      /\ winner \in P!Seat \cup {None} /\ reason \in P!Reasons
      /\ seen \in [P!Seat -> P!Phases] /\ buzz \in [P!Seat -> P!Phases \cup {None}]
      /\ abandoned \in P!Seat \cup {None}
      /\ decider \in [seat: P!Seat, saw: P!Phases] \cup {None}
      /\ done <=> phase = "done"
  BY DEF P!TypeOK
<1>3. P!Seat = {0, 1} /\ Seat = {0, 1}
  BY DEF P!Seat, Seat
<1>4. {"countdown", "armed", "done"} = P!Phases
  BY DEF P!Phases
<1>5. CASE P!Tick
  <2>1. left' \in 0..ArmDelay /\ left' + age >= ArmDelay /\ age' = age
    <3>1. CASE left = None
      BY <1>0, <1>5, <3>1 DEF P!Tick, P!ArmAt
    <3>2. CASE left # None
      BY <1>0, <1>1, <1>5, <3>2 DEF P!Tick, P!ArmAt
    <3> QED
      BY <3>1, <3>2
  <2>2. phase' = phase \/ (phase = "countdown" /\ phase' = "armed" /\ left' <= 0)
    BY <1>5 DEF P!Tick
  <2>2a. left' <= 0 => age' = ArmDelay
    <3>1. \A a, d, l \in Int : 0 <= a /\ a <= d /\ l + a >= d /\ l <= 0 => a = d
      OBVIOUS
    <3>2. age \in Int /\ ArmDelay \in Int /\ left' \in Int /\ 0 <= age /\ age <= ArmDelay
      BY <1>0, <2>1
    <3> QED
      BY <2>1, <3>1, <3>2
  <2>3. phase' = phase \/ (phase = "countdown" /\ phase' = "armed" /\ age' = ArmDelay)
    BY <2>2, <2>2a
  <2>4. UNCHANGED <<done, winner, reason, seen, buzz, abandoned, decider>> /\ shown' = phase'
        /\ ~done
    BY <1>5 DEF P!Tick
  <2>5. GoIsOut' => GoIsOut \/ (phase' = "armed" /\ age' = ArmDelay)
    <3>1. phase = "armed" => age' = ArmDelay
      BY <2>1 DEF DuelInv
    <3> QED
      BY <2>3, <2>4, <3>1, Zenon DEF GoIsOut
  <2>6. DuelInv'
    <3>1. left' + age' >= ArmDelay /\ age' \in 0..ArmDelay /\ age' >= age
      <4>1. \A a \in 0..ArmDelay : a >= a
        BY <1>0
      <4> QED
        BY <1>0, <2>1, <4>1, Zenon
    <3> QED
      BY <2>1, <2>3, <2>4, <2>5, <3>1, DuelFrame
  <2>7. phase' \in P!Phases /\ shown' \in P!Phases /\ (done' <=> phase' = "done")
    BY <1>2, <1>4, <2>3, <2>4
  <2> QED
    BY <1>0, <1>2, <2>1, <2>4, <2>6, <2>7 DEF P!TypeOK
<1>6. CASE P!TimePasses
  <2>1. age' \in 0..ArmDelay /\ age' >= age /\ (age < ArmDelay => age' = age + 1)
    BY <1>0, <1>6 DEF P!TimePasses
  <2>2. left' = None \/ (left' \in 0..ArmDelay /\ left' + age' >= ArmDelay)
    <3>1. CASE left = None
      BY <1>6, <3>1 DEF P!TimePasses
    <3>2. CASE left # None
      BY <1>0, <1>1, <1>6, <3>2 DEF P!TimePasses
    <3> QED
      BY <3>1, <3>2
  <2>3. UNCHANGED <<phase, done, winner, reason, shown, seen, buzz, abandoned, decider>>
    BY <1>6 DEF P!TimePasses
  <2>4. GoIsOut' = GoIsOut
    BY <2>3 DEF GoIsOut
  <2>5. DuelInv'
    BY <2>1, <2>2, <2>3, <2>4, DuelFrame
  <2> QED
    BY <1>2, <2>1, <2>2, <2>3, <2>5 DEF P!TypeOK
<1>7. ASSUME NEW s \in P!Seat, P!ApplyAction(s)
      PROVE  P!TypeOK' /\ DuelInv'
  <2>1. buzz[s] # None /\ buzz' = [buzz EXCEPT ![s] = None] /\ UNCHANGED <<seen, age, abandoned>>
    BY <1>7 DEF P!ApplyAction
  <2>2. buzz' \in [P!Seat -> P!Phases \cup {None}] /\ buzz[s] \in P!Phases
    BY <1>2, <2>1
  <2>3. \A t \in Seat : buzz'[t] = "armed" => buzz[t] = "armed"
    <3>1. None # "armed"
      BY GamesAssumption, Zenon
    <3> QED
      BY <1>2, <1>3, <2>1, <3>1
  <2>4. CASE done
    <3>1. UNCHANGED <<phase, left, done, winner, reason, shown, decider>>
      BY <1>7, <2>4 DEF P!ApplyAction
    <3>2. GoIsOut' => GoIsOut
      BY <2>1, <2>3, <3>1 DEF GoIsOut
    <3>3. DuelInv'
      BY <1>0, <1>1, <2>1, <3>1, <3>2, DuelFrame
    <3> QED
      BY <1>0, <1>2, <2>1, <2>2, <3>1, <3>3 DEF P!TypeOK
  <2>5. CASE ~done
    <3>1. /\ P!Verdict(s) /\ decider' = [seat |-> s, saw |-> buzz[s]]
      BY <1>7, <2>5 DEF P!ApplyAction
    <3>2. done' /\ phase' = "done" /\ shown' = "done" /\ left' = left
      BY <3>1 DEF P!Verdict, P!Finish
    <3>3. \/ phase = "armed" /\ winner' = s /\ reason' = "first_buzz"
          \/ phase # "armed" /\ winner' = 1 - s /\ reason' = "false_start"
      BY <3>1 DEF P!Verdict, P!Finish
    <3>4. GoIsOut' => GoIsOut
      BY <2>1, <2>3, <3>2 DEF GoIsOut
    <3>5. phase = "armed" => age = ArmDelay
      BY DEF DuelInv
    <3>6. buzz[s] = "armed" => phase = "armed"
      BY <1>2, <1>3, <2>5 DEF DuelInv, GoIsOut, P!Phases
    <3>7. DuelInv'
      <4>1. left' # None => left' + age' >= ArmDelay
        BY <2>1, <3>2 DEF DuelInv
      <4>2. phase' = "armed" \/ reason' = "first_buzz" \/ GoIsOut' => age' = ArmDelay
        BY <2>1, <3>2, <3>3, <3>4, <3>5 DEF DuelInv
      <4>3. P!GoIsFair'
        BY <3>1, <3>3, <3>6 DEF P!GoIsFair
      <4> QED
        BY <3>2, <4>1, <4>2, <4>3 DEF DuelInv
    <3>8. winner' \in P!Seat \cup {None} /\ reason' \in P!Reasons
      <4>1. 1 - s \in P!Seat
        BY <1>3
      <4> QED
        BY <3>3, <4>1, Zenon DEF P!Reasons
    <3>9. decider' \in [seat: P!Seat, saw: P!Phases] \cup {None}
      BY <2>2, <3>1
    <3>10. phase' \in P!Phases /\ shown' \in P!Phases /\ done' \in BOOLEAN
           /\ (done' <=> phase' = "done")
      BY <3>1, <3>2 DEF P!Phases, P!Verdict, P!Finish
    <3> QED
      BY <1>0, <1>1, <1>2, <2>1, <2>2, <3>2, <3>7, <3>8, <3>9, <3>10 DEF P!TypeOK
  <2> QED
    BY <2>4, <2>5
<1>8. ASSUME NEW s \in P!Seat, P!OnPlayerAbandoned(s)
      PROVE  P!TypeOK' /\ DuelInv'
  <2>1. /\ ~done /\ done' = TRUE /\ phase' = "done" /\ shown' = "done" /\ left' = left
        /\ winner' = 1 - s /\ reason' = "opponent_abandoned" /\ abandoned' = s
        /\ UNCHANGED <<seen, buzz, age, decider>>
    BY <1>8 DEF P!OnPlayerAbandoned, P!Finish
  <2>2. GoIsOut' => GoIsOut
    BY <2>1 DEF GoIsOut
  <2>3. decider' = None
    BY <2>1 DEF DuelInv
  <2>4. DuelInv'
    <3>1. left' # None => left' + age' >= ArmDelay
      BY <2>1 DEF DuelInv
    <3>2. phase' = "armed" \/ reason' = "first_buzz" \/ GoIsOut' => age' = ArmDelay
      BY <2>1, <2>2 DEF DuelInv
    <3>3. P!GoIsFair'
      BY <2>3 DEF P!GoIsFair
    <3> QED
      BY <2>1, <3>1, <3>2, <3>3 DEF DuelInv
  <2>5. winner' \in P!Seat \cup {None} /\ reason' \in P!Reasons
    <3>1. 1 - s \in P!Seat
      BY <1>3
    <3> QED
      BY <2>1, <3>1, Zenon DEF P!Reasons
  <2>6. phase' \in P!Phases /\ shown' \in P!Phases /\ done' \in BOOLEAN
        /\ (done' <=> phase' = "done")
    BY <2>1 DEF P!Phases
  <2>7. abandoned' \in P!Seat \cup {None}
    BY <2>1
  <2> QED
    BY <1>0, <1>1, <1>2, <2>1, <2>4, <2>5, <2>6, <2>7 DEF P!TypeOK
<1>9. ASSUME NEW s \in P!Seat, P!See(s)
      PROVE  P!TypeOK' /\ DuelInv'
  <2>1. /\ seen' = [seen EXCEPT ![s] = shown]
        /\ UNCHANGED <<phase, left, done, winner, reason, shown, buzz, age, abandoned, decider>>
    BY <1>9 DEF P!See
  <2>2. seen' \in [P!Seat -> P!Phases]
    BY <1>2, <2>1
  <2>3. \A t \in Seat : seen'[t] = seen[t] \/ seen'[t] = shown
    BY <1>2, <1>3, <2>1
  <2>4. GoIsOut' => GoIsOut
    BY <2>1, <2>3 DEF GoIsOut
  <2>5. DuelInv'
    BY <1>0, <1>1, <2>1, <2>4, DuelFrame
  <2> QED
    BY <1>0, <1>1, <1>2, <2>1, <2>2, <2>5 DEF P!TypeOK
<1>10. ASSUME NEW s \in P!Seat, P!Press(s)
       PROVE  P!TypeOK' /\ DuelInv'
  <2>1. /\ buzz' = [buzz EXCEPT ![s] = seen[s]]
        /\ UNCHANGED <<phase, left, done, winner, reason, shown, seen, age, abandoned, decider>>
    BY <1>10 DEF P!Press
  <2>2. buzz' \in [P!Seat -> P!Phases \cup {None}]
    BY <1>2, <2>1
  <2>3. \A t \in Seat : buzz'[t] = buzz[t] \/ buzz'[t] = seen[t]
    BY <1>2, <1>3, <2>1
  <2>4. GoIsOut' => GoIsOut
    BY <2>1, <2>3 DEF GoIsOut
  <2>5. DuelInv'
    BY <1>0, <1>1, <2>1, <2>4, DuelFrame
  <2> QED
    BY <1>0, <1>1, <1>2, <2>1, <2>2, <2>5 DEF P!TypeOK
<1> QED
  BY <1>5, <1>6, <1>7, <1>8, <1>9, <1>10 DEF P!Next

-----------------------------------------------------------------------------
(***************************************************************************)
(* Tic-tac-toe                                                              *)
(***************************************************************************)

\* The game runs only while the board has room.
BoardInv == T!TypeOK /\ (~done => moveCount < 9)

\* One of the eight lines comes first in any choice of them.
LEMMA LeastLine ==
  ASSUME NEW I \in SUBSET (1..8), I # {}
  PROVE  T!Min(I) \in I
<1>1. \E x \in I : \A y \in I : x =< y
  <2>1. \A i \in I : i = 1 \/ i = 2 \/ i = 3 \/ i = 4 \/ i = 5 \/ i = 6 \/ i = 7 \/ i = 8
    OBVIOUS
  <2>2. CASE 1 \in I
    BY <2>1, <2>2
  <2>3. CASE 1 \notin I /\ 2 \in I
    BY <2>1, <2>3
  <2>4. CASE {1, 2} \cap I = {} /\ 3 \in I
    BY <2>1, <2>4
  <2>5. CASE {1, 2, 3} \cap I = {} /\ 4 \in I
    BY <2>1, <2>5
  <2>6. CASE {1, 2, 3, 4} \cap I = {} /\ 5 \in I
    BY <2>1, <2>6
  <2>7. CASE {1, 2, 3, 4, 5} \cap I = {} /\ 6 \in I
    BY <2>1, <2>7
  <2>8. CASE {1, 2, 3, 4, 5, 6} \cap I = {} /\ 7 \in I
    BY <2>1, <2>8
  <2>9. CASE {1, 2, 3, 4, 5, 6, 7} \cap I = {}
    <3>1. \A i \in I : i = 8
      BY <2>1, <2>9
    <3>2. 8 \in I
      BY <3>1
    <3> QED
      BY <3>1, <3>2
  <2> QED
    BY <2>2, <2>3, <2>4, <2>5, <2>6, <2>7, <2>8, <2>9
<1> QED
  BY <1>1, Zenon DEF T!Min

\* The cells of a line of the table.
Row(i) == {T!winLines[i][1], T!winLines[i][2], T!winLines[i][3]}

\* The table of lines is the geometry of the board (winLines).
LEMMA TableIsGeometry ==
  /\ \A i \in 1..8 : Row(i) \in T!Lines
  /\ \A line \in T!Lines : \E i \in 1..8 : line = Row(i)
<1>1. \A i \in 1..8 : i = 1 \/ i = 2 \/ i = 3 \/ i = 4 \/ i = 5 \/ i = 6 \/ i = 7 \/ i = 8
  OBVIOUS
<1>2. /\ Row(1) = {0, 1, 2} /\ Row(2) = {3, 4, 5} /\ Row(3) = {6, 7, 8}
      /\ Row(4) = {0, 3, 6} /\ Row(5) = {1, 4, 7} /\ Row(6) = {2, 5, 8}
      /\ Row(7) = {0, 4, 8} /\ Row(8) = {2, 4, 6}
  BY DEF Row, T!winLines
<1>3. T!Coord = {0, 1, 2}
  BY DEF T!Coord
<1>4. /\ {T!Index(x, 0) : x \in T!Coord} = Row(1) /\ {T!Index(x, 1) : x \in T!Coord} = Row(2)
      /\ {T!Index(x, 2) : x \in T!Coord} = Row(3)
  BY <1>2, <1>3 DEF T!Index
<1>5. /\ {T!Index(0, y) : y \in T!Coord} = Row(4) /\ {T!Index(1, y) : y \in T!Coord} = Row(5)
      /\ {T!Index(2, y) : y \in T!Coord} = Row(6)
  BY <1>2, <1>3 DEF T!Index
<1>6. {T!Index(x, x) : x \in T!Coord} = Row(7) /\ {T!Index(x, 2 - x) : x \in T!Coord} = Row(8)
  BY <1>2, <1>3 DEF T!Index
<1>7. 1 \in 1..8 /\ 2 \in 1..8 /\ 3 \in 1..8 /\ 4 \in 1..8 /\ 5 \in 1..8 /\ 6 \in 1..8
      /\ 7 \in 1..8 /\ 8 \in 1..8
  OBVIOUS
<1>8. \A line :
        line \in T!Lines <=>
          \/ line = Row(1) \/ line = Row(2) \/ line = Row(3) \/ line = Row(4)
          \/ line = Row(5) \/ line = Row(6) \/ line = Row(7) \/ line = Row(8)
  <2> TAKE line
  <2>1. (\E y \in T!Coord : line = {T!Index(x, y) : x \in T!Coord}) <=>
          line = Row(1) \/ line = Row(2) \/ line = Row(3)
    <3>1. (\E y \in T!Coord : line = {T!Index(x, y) : x \in T!Coord}) <=>
            \/ line = {T!Index(x, 0) : x \in T!Coord} \/ line = {T!Index(x, 1) : x \in T!Coord}
            \/ line = {T!Index(x, 2) : x \in T!Coord}
      BY <1>3, Zenon
    <3> QED
      BY <1>4, <3>1
  <2>2. (\E x \in T!Coord : line = {T!Index(x, y) : y \in T!Coord}) <=>
          line = Row(4) \/ line = Row(5) \/ line = Row(6)
    <3>1. (\E x \in T!Coord : line = {T!Index(x, y) : y \in T!Coord}) <=>
            \/ line = {T!Index(0, y) : y \in T!Coord} \/ line = {T!Index(1, y) : y \in T!Coord}
            \/ line = {T!Index(2, y) : y \in T!Coord}
      BY <1>3, Zenon
    <3> QED
      BY <1>5, <3>1
  <2>3. line \in T!Lines <=>
          \/ \E y \in T!Coord : line = {T!Index(x, y) : x \in T!Coord}
          \/ \E x \in T!Coord : line = {T!Index(x, y) : y \in T!Coord}
          \/ line = {T!Index(x, x) : x \in T!Coord} \/ line = {T!Index(x, 2 - x) : x \in T!Coord}
    BY Zenon DEF T!Lines
  <2> QED
    BY <1>6, <2>1, <2>2, <2>3, Zenon
<1> QED
  BY <1>1, <1>7, <1>8, Zenon

\* The board b has three marks of the seat in a line.
Shows(b, s) == \E line \in T!Lines : \A c \in line : b[c] = T!Mark(s)

\* The winning seat is one that has a line on the board (winningSeat).
LEMMA WinnerShown ==
  ASSUME NEW b \in [T!Cell -> 0..2]
  PROVE  \/ T!winningSeat(b) = -1 /\ \A s \in Seat : ~Shows(b, s)
         \/ T!winningSeat(b) \in Seat /\ Shows(b, T!winningSeat(b))
<1> DEFINE I == {i \in 1..Len(T!winLines) : T!Complete(b, T!winLines[i])}
           k == IF I # {} THEN T!Min(I) ELSE 0
<1>1. T!winningSeat(b) = IF k = 0 THEN -1 ELSE b[T!winLines[k][1]] - 1
  BY DEF T!winningSeat, T!SelectInSeq
<1>2. Len(T!winLines) = 8
  BY DEF T!winLines
<1>3. I \in SUBSET (1..8)
  BY <1>2
<1>4. CASE I = {}
  <2>1. T!winningSeat(b) = -1
    BY <1>1, <1>4
  <2>2. ASSUME NEW s \in Seat, Shows(b, s)
        PROVE  FALSE
    <3>1. PICK line \in T!Lines : \A c \in line : b[c] = T!Mark(s)
      BY <2>2 DEF Shows
    <3>2. PICK i \in 1..8 : line = Row(i)
      BY TableIsGeometry
    <3>3. /\ b[T!winLines[i][1]] = T!Mark(s) /\ b[T!winLines[i][2]] = T!Mark(s)
          /\ b[T!winLines[i][3]] = T!Mark(s)
      BY <3>1, <3>2 DEF Row
    <3>4. T!Mark(s) # T!emptySeat
      BY DEF T!Mark, T!emptySeat, Seat
    <3>5. T!Complete(b, T!winLines[i])
      BY <3>3, <3>4, Zenon DEF T!Complete
    <3> QED
      BY <1>2, <1>4, <3>5
  <2> QED
    BY <2>1, <2>2
<1>5. CASE I # {}
  <2>1. k \in I
    BY <1>3, <1>5, LeastLine
  <2>2. k \in 1..8 /\ T!Complete(b, T!winLines[k])
    BY <1>2, <2>1
  <2> HIDE DEF k
  <2>3. T!winLines[k][1] \in T!Cell
    BY <2>2 DEF T!winLines, T!Cell
  <2>4. b[T!winLines[k][1]] \in 0..2 /\ b[T!winLines[k][1]] # 0
    BY <2>2, <2>3 DEF T!Complete, T!emptySeat
  <2>5. T!winningSeat(b) = b[T!winLines[k][1]] - 1
    BY <1>1, <2>2
  <2>6. T!winningSeat(b) \in Seat /\ T!Mark(T!winningSeat(b)) = b[T!winLines[k][1]]
    BY <2>4, <2>5 DEF Seat, T!Mark
  <2>7. \A c \in Row(k) : b[c] = b[T!winLines[k][1]]
    BY <2>2 DEF T!Complete, Row
  <2>8. Row(k) \in T!Lines
    BY <2>2, TableIsGeometry
  <2> QED
    BY <2>6, <2>7, <2>8, Zenon DEF Shows
<1> QED
  BY <1>4, <1>5

\* Every step of tic-tac-toe keeps its invariant.
LEMMA BoardStep ==
  ASSUME BoardInv, T!Next
  PROVE  BoardInv'
<1>1. /\ board \in [T!Cell -> 0..2] /\ turn \in {0, 1} /\ moveCount \in 0..9
      /\ done \in BOOLEAN /\ draw \in BOOLEAN
      /\ winner \in T!Seat \cup {None} /\ abandoned \in T!Seat \cup {None}
  BY DEF BoardInv, T!TypeOK, T!Seat
<1>2. ASSUME NEW seat \in T!Seat, NEW x \in T!Coord, NEW y \in T!Coord,
             T!ApplyAction(seat, x, y)
      PROVE  BoardInv'
  <2> DEFINE i == T!Index(x, y)
             b == [board EXCEPT ![i] = T!Mark(turn)]
             w == T!winningSeat(b)
  <2>1. /\ ~done /\ board' = b /\ moveCount' = moveCount + 1 /\ abandoned' = abandoned
        /\ \/ w >= 0 /\ done' = TRUE /\ winner' = w /\ turn' = turn /\ draw' = draw
           \/ w < 0 /\ done' = TRUE /\ draw' = TRUE /\ turn' = turn /\ winner' = winner
           \/ /\ w < 0 /\ moveCount + 1 # 9 /\ turn' = 1 - turn
              /\ done' = done /\ draw' = draw /\ winner' = winner
    BY <1>2 DEF T!ApplyAction, T!Validate
  <2>2. i \in T!Cell
    BY DEF T!Index, T!Cell, T!Coord
  <2>3. b \in [T!Cell -> 0..2]
    BY <1>1, <2>2 DEF T!Mark
  <2>4. w >= 0 => w \in T!Seat
    <3>1. w = -1 \/ w \in T!Seat
      BY <2>3, WinnerShown, Zenon DEF T!Seat, Seat
    <3> HIDE DEF w
    <3> QED
      BY <3>1
  <2>5. moveCount < 9 /\ moveCount' \in 0..9 /\ (moveCount + 1 # 9 => moveCount' < 9)
    BY <1>1, <2>1 DEF BoardInv
  <2> HIDE DEF b, w
  <2>6. turn' \in T!Seat
    BY <1>1, <2>1 DEF T!Seat
  <2>7. done' \in BOOLEAN /\ draw' \in BOOLEAN
    BY <1>1, <2>1
  <2>8. winner' \in T!Seat \cup {None}
    BY <1>1, <2>1, <2>4
  <2>9. ~done' => moveCount' < 9
    BY <2>1, <2>5
  <2> QED
    BY <1>1, <2>1, <2>3, <2>5, <2>6, <2>7, <2>8, <2>9 DEF BoardInv, T!TypeOK
<1>3. ASSUME NEW seat \in T!Seat, T!OnPlayerAbandoned(seat)
      PROVE  BoardInv'
  <2>1. /\ done' = TRUE /\ winner' = 1 - seat /\ abandoned' = seat
        /\ UNCHANGED <<board, turn, moveCount, draw>>
    BY <1>3 DEF T!OnPlayerAbandoned
  <2>2. winner' \in T!Seat
    BY <2>1 DEF T!Seat
  <2> QED
    BY <1>1, <2>1, <2>2 DEF BoardInv, T!TypeOK, T!Seat
<1> QED
  BY <1>2, <1>3 DEF T!Next

-----------------------------------------------------------------------------
(***************************************************************************)
(* Whichever game it is                                                     *)
(***************************************************************************)

GamesInv ==
  /\ gameType \in Registered
  /\ gameType = "tictactoe" => BoardInv
  /\ gameType = "pingpong" => P!TypeOK /\ DuelInv

\* The invariant of the game that was made holds throughout.
THEOREM GamesCorrect == Spec => []GamesInv
<1>1. Init => GamesInv
  <2> SUFFICES ASSUME Init PROVE GamesInv
    OBVIOUS
  <2>1. CASE gameType = "tictactoe"
    <3>1. T!Init
      BY <2>1 DEF Init
    <3>2. board \in [T!Cell -> 0..2] /\ turn \in T!Seat /\ moveCount \in 0..9 /\ moveCount < 9
      BY <3>1 DEF T!Init, T!emptySeat, T!Seat
    <3>3. {done, draw} \subseteq BOOLEAN /\ winner = None /\ abandoned = None
      BY <3>1 DEF T!Init
    <3> QED
      BY <2>1, <3>2, <3>3 DEF GamesInv, BoardInv, T!TypeOK, Registered
  <2>2. CASE gameType = "pingpong"
    <3>1. P!Init
      BY <2>2 DEF Init
    <3>2. 0 \in 0..ArmDelay
      BY GamesAssumption
    <3>3. P!TypeOK
      BY <3>1, <3>2 DEF P!Init, P!TypeOK, P!Phases, P!Reasons
    <3>4. None # "armed"
      BY GamesAssumption, Zenon
    <3>5. ~GoIsOut
      BY <3>1, <3>4 DEF P!Init, GoIsOut, Seat, P!Seat
    <3>6. DuelInv
      BY <3>1, <3>5 DEF P!Init, DuelInv, P!GoIsFair
    <3> QED
      BY <2>2, <3>3, <3>6 DEF GamesInv, Registered
  <2> QED
    BY <2>1, <2>2 DEF Init, Registered
<1>2. GamesInv /\ [Next]_vars => GamesInv'
  <2> SUFFICES ASSUME GamesInv, [Next]_vars PROVE GamesInv'
    OBVIOUS
  <2>1. CASE gameType = "tictactoe" /\ T!Next /\ UNCHANGED <<gameType, duelVars>>
    BY <2>1, BoardStep DEF GamesInv
  <2>2. CASE gameType = "pingpong" /\ P!Next /\ UNCHANGED <<gameType, boardVars>>
    BY <2>2, DuelStep DEF GamesInv
  <2>3. CASE UNCHANGED vars
    <3>1. UNCHANGED <<gameType, done, winner, abandoned, board, turn, moveCount, draw, client,
                      phase, left, reason, shown, seen, buzz, age, decider>>
      BY <2>3 DEF vars, boardVars, duelVars
    <3>2. BoardInv => BoardInv'
      BY <3>1 DEF BoardInv, T!TypeOK
    <3>3. P!TypeOK => P!TypeOK'
      BY <3>1 DEF P!TypeOK
    <3>4. DuelInv => DuelInv'
      BY <3>1 DEF DuelInv, GoIsOut, P!GoIsFair
    <3> QED
      BY <3>1, <3>2, <3>3, <3>4 DEF GamesInv
  <2> QED
    BY <2>1, <2>2, <2>3 DEF Next
<1> QED
  BY <1>1, <1>2, PTL DEF Spec

\* The state of either game has its type: the board, the turn and the count of moves, the
\* phase, the deadline and the result.
THEOREM TypeCorrect == Spec => []TypeOK
<1>1. GamesInv => TypeOK
  BY DEF GamesInv, BoardInv, TypeOK
<1> QED
  BY <1>1, GamesCorrect, PTL

\* The duel, for every arm delay: nobody sees "go" or wins by the first buzz before the
\* delay is over (Tick).
THEOREM GoDelayed == Spec => []GoAfterDelay
<1>1. GamesInv => GoAfterDelay
  BY DEF GamesInv, DuelInv, GoIsOut, GoAfterDelay, P!GoAfterDelay, P!Seat, Seat
<1> QED
  BY <1>1, GamesCorrect, PTL

\* The duel, for every arm delay: a buzz that was pressed on "go" and decides the game wins
\* it (Validate, ApplyAction).
THEOREM GoFair == Spec => []GoIsFair
<1>1. GamesInv => GoIsFair
  BY DEF GamesInv, DuelInv, GoIsFair
<1> QED
  BY <1>1, GamesCorrect, PTL

\* A step of tic-tac-toe plays on, ends the game, or is the one player's abandoning it.
LEMMA BoardContract ==
  ASSUME BoardInv, T!Next
  PROVE  [Contract!Next]_<<done, winner, abandoned>>
<1>1. ASSUME NEW seat \in T!Seat, NEW x \in T!Coord, NEW y \in T!Coord,
             T!ApplyAction(seat, x, y)
      PROVE  [Contract!Next]_<<done, winner, abandoned>>
  <2>1. winner' \in Seat \cup {None}
    BY BoardStep DEF BoardInv, T!TypeOK, T!Seat, Seat
  <2>2. /\ ~done /\ abandoned' = abandoned
        /\ done' = TRUE \/ (done' = done /\ winner' = winner)
    BY <1>1 DEF T!ApplyAction, T!Validate
  <2> QED
    BY <2>1, <2>2 DEF Contract!Next, Contract!End
<1>2. ASSUME NEW seat \in T!Seat, T!OnPlayerAbandoned(seat)
      PROVE  [Contract!Next]_<<done, winner, abandoned>>
  <2>1. ~done /\ done' = TRUE /\ winner' = 1 - seat /\ abandoned' = seat
    BY <1>2 DEF T!OnPlayerAbandoned
  <2>2. 1 - seat \in Seat \ {seat} /\ seat \in Seat
    BY DEF T!Seat, Seat
  <2> QED
    BY <2>1, <2>2 DEF Contract!Next, Contract!Abandon
<1> QED
  BY <1>1, <1>2 DEF T!Next

\* And so is a step of the duel: the ticker, the clock and the players' looking and
\* pressing leave the result alone.
LEMMA DuelContract ==
  ASSUME P!TypeOK, DuelInv, P!Next
  PROVE  [Contract!Next]_<<done, winner, abandoned>>
<1>1. CASE P!Tick \/ P!TimePasses
  BY <1>1 DEF P!Tick, P!TimePasses
<1>2. ASSUME NEW s \in P!Seat, P!See(s) \/ P!Press(s)
      PROVE  [Contract!Next]_<<done, winner, abandoned>>
  BY <1>2 DEF P!See, P!Press
<1>3. ASSUME NEW s \in P!Seat, P!ApplyAction(s)
      PROVE  [Contract!Next]_<<done, winner, abandoned>>
  <2>1. winner' \in Seat \cup {None}
    BY DuelStep DEF P!TypeOK, P!Seat, Seat
  <2>2. /\ abandoned' = abandoned
        /\ \/ ~done /\ done' = TRUE
           \/ done' = done /\ winner' = winner
    BY <1>3 DEF P!ApplyAction, P!Verdict, P!Finish
  <2> QED
    BY <2>1, <2>2 DEF Contract!Next, Contract!End
<1>4. ASSUME NEW s \in P!Seat, P!OnPlayerAbandoned(s)
      PROVE  [Contract!Next]_<<done, winner, abandoned>>
  <2>1. ~done /\ done' = TRUE /\ winner' = 1 - s /\ abandoned' = s
    BY <1>4 DEF P!OnPlayerAbandoned, P!Finish
  <2>2. 1 - s \in Seat \ {s} /\ s \in Seat
    BY DEF P!Seat, Seat
  <2> QED
    BY <2>1, <2>2 DEF Contract!Next, Contract!Abandon
<1> QED
  BY <1>1, <1>2, <1>3, <1>4 DEF P!Next

\* Either game implements the contract the room relies on: its result is final, and the
\* player who abandons it ends it for the other one (Game.OnPlayerAbandoned).
THEOREM ContractKept == Spec => KeepsContract
<1>1. Init => Contract!Init
  <2> SUFFICES ASSUME Init PROVE Contract!Init
    OBVIOUS
  <2>1. T!Init \/ P!Init
    BY DEF Init
  <2> QED
    BY <2>1 DEF T!Init, P!Init, Contract!Init
<1>2. GamesInv /\ [Next]_vars => [Contract!Next]_<<done, winner, abandoned>>
  <2> SUFFICES ASSUME GamesInv, [Next]_vars
               PROVE  [Contract!Next]_<<done, winner, abandoned>>
    OBVIOUS
  <2>1. CASE gameType = "tictactoe" /\ T!Next
    BY <2>1, BoardContract DEF GamesInv
  <2>2. CASE gameType = "pingpong" /\ P!Next
    BY <2>2, DuelContract DEF GamesInv
  <2>3. CASE UNCHANGED vars
    BY <2>3 DEF vars
  <2> QED
    BY <2>1, <2>2, <2>3 DEF Next
<1> QED
  BY <1>1, <1>2, GamesCorrect, PTL DEF Spec, KeepsContract, Contract!Spec

-----------------------------------------------------------------------------
(***************************************************************************)
(* The diffs of tic-tac-toe                                                 *)
(***************************************************************************)

\* A running game has no result, and the client has the server's state.
DiffInv == gameType = "tictactoe" => (~done => ~draw /\ winner = None) /\ client = T!Snapshot

\* Every diff takes the client from the server's old state to its new one.
LEMMA DiffStep ==
  ASSUME SkipsUnmarked, BoardInv, ~done => ~draw /\ winner = None, client = T!Snapshot, T!Next
  PROVE  (~done' => ~draw' /\ winner' = None) /\ client' = T!Snapshot'
<1>1. /\ board \in [T!Cell -> 0..2] /\ turn \in {0, 1} /\ draw \in BOOLEAN
      /\ client.board = board /\ client.turn = turn /\ None \notin Int
  BY GamesAssumption DEF BoardInv, T!TypeOK, T!Seat, T!Snapshot
<1>2. ASSUME NEW seat \in T!Seat, NEW x \in T!Coord, NEW y \in T!Coord,
             T!ApplyAction(seat, x, y)
      PROVE  (~done' => ~draw' /\ winner' = None) /\ client' = T!Snapshot'
  <2> DEFINE i == T!Index(x, y)
             m == T!Mark(turn)
             b == [board EXCEPT ![i] = m]
             w == T!winningSeat(b)
  <2>1. m # T!emptySeat
    BY <1>1 DEF T!Mark, T!emptySeat
  <2>2. ASSUME NEW to, NEW terminal, NEW drawn, NEW won
        PROVE  T!Apply(client, T!Diff(i, m, to, terminal, drawn, won))
                 = [board |-> b, turn |-> IF to = None THEN turn ELSE to, done |-> terminal,
                    draw |-> drawn, winner |-> won]
    BY <1>1, <2>1 DEF T!Apply, T!Diff
  <2>3. ~done /\ draw = FALSE /\ winner = None /\ board' = b
    BY <1>1, <1>2 DEF T!ApplyAction, T!Validate
  <2>4. done = FALSE
    BY <2>3 DEF BoardInv, T!TypeOK
  <2>5. \/ /\ done' = TRUE /\ winner' = w /\ turn' = turn /\ draw' = draw
           /\ client' = T!Apply(client, T!Diff(i, m, None, TRUE, FALSE, w))
        \/ /\ done' = TRUE /\ draw' = TRUE /\ turn' = turn /\ winner' = winner
           /\ client' = T!Apply(client, T!Diff(i, m, None, TRUE, TRUE, None))
        \/ /\ turn' = 1 - turn /\ done' = done /\ draw' = draw /\ winner' = winner
           /\ client' = T!Apply(client, T!Diff(i, m, 1 - turn, FALSE, FALSE, None))
    BY <1>2 DEF T!ApplyAction
  <2>6. 1 - turn # None
    BY <1>1
  <2>7. T!Snapshot' = [board |-> b, turn |-> turn', done |-> done', draw |-> draw',
                       winner |-> winner']
    BY <2>3 DEF T!Snapshot
  <2> HIDE DEF i, m, b, w
  <2>8. client' = T!Snapshot'
    <3>1. T!Apply(client, T!Diff(i, m, None, TRUE, FALSE, w))
            = [board |-> b, turn |-> turn, done |-> TRUE, draw |-> FALSE, winner |-> w]
      BY <1>1, <2>1 DEF T!Apply, T!Diff, b
    <3>2. T!Apply(client, T!Diff(i, m, None, TRUE, TRUE, None))
            = [board |-> b, turn |-> turn, done |-> TRUE, draw |-> TRUE, winner |-> None]
      BY <1>1, <2>1 DEF T!Apply, T!Diff, b
    <3>3. T!Apply(client, T!Diff(i, m, 1 - turn, FALSE, FALSE, None))
            = [board |-> b, turn |-> 1 - turn, done |-> FALSE, draw |-> FALSE, winner |-> None]
      BY <2>2, <2>6
    <3> QED
      BY <2>3, <2>4, <2>5, <2>7, <3>1, <3>2, <3>3, Zenon
  <2>9. ~done' => ~draw' /\ winner' = None
    BY <2>3, <2>5
  <2> QED
    BY <2>8, <2>9
<1>3. ASSUME NEW seat \in T!Seat, T!OnPlayerAbandoned(seat)
      PROVE  (~done' => ~draw' /\ winner' = None) /\ client' = T!Snapshot'
  <2>1. T!Apply(client, T!Diff(T!Index(0, 0), T!emptySeat, None, TRUE, FALSE, 1 - seat))
          = [board |-> board, turn |-> turn, done |-> TRUE, draw |-> FALSE, winner |-> 1 - seat]
    BY <1>1 DEF T!Apply, T!Diff
  <2>2. /\ draw = FALSE /\ done' = TRUE /\ winner' = 1 - seat
        /\ UNCHANGED <<board, turn, draw>>
        /\ client' = T!Apply(client, T!Diff(T!Index(0, 0), T!emptySeat, None, TRUE, FALSE, 1 - seat))
    BY <1>1, <1>3 DEF T!OnPlayerAbandoned
  <2> QED
    BY <2>1, <2>2 DEF T!Snapshot
<1> QED
  BY <1>2, <1>3 DEF T!Next

\* A client that ignores the cell of a diff without a mark has, after every diff, what a
\* fresh snapshot would show (diffPayload against toWire).
THEOREM DiffsRight == SkipsUnmarked => (Spec => []DiffsDescribeState)
<1> SUFFICES ASSUME SkipsUnmarked PROVE Spec => []DiffsDescribeState
  OBVIOUS
<1>1. Init => DiffInv
  <2> SUFFICES ASSUME Init, gameType = "tictactoe"
               PROVE  (~done => ~draw /\ winner = None) /\ client = T!Snapshot
    BY DEF DiffInv
  <2>1. T!Init
    BY DEF Init
  <2> QED
    BY <2>1 DEF T!Init
<1>2. GamesInv /\ DiffInv /\ [Next]_vars => DiffInv'
  <2> SUFFICES ASSUME GamesInv, DiffInv, [Next]_vars PROVE DiffInv'
    OBVIOUS
  <2>1. CASE gameType = "tictactoe" /\ T!Next /\ UNCHANGED <<gameType, duelVars>>
    BY <2>1, DiffStep DEF GamesInv, DiffInv
  <2>2. CASE gameType = "pingpong" /\ P!Next /\ UNCHANGED <<gameType, boardVars>>
    BY <2>2 DEF DiffInv
  <2>3. CASE UNCHANGED vars
    <3>1. UNCHANGED <<gameType, done, winner, board, turn, draw, client>>
      BY <2>3 DEF vars, boardVars
    <3> QED
      BY <3>1 DEF DiffInv, T!Snapshot
  <2> QED
    BY <2>1, <2>2, <2>3 DEF Next
<1>3. DiffInv => DiffsDescribeState
  BY DEF DiffInv, DiffsDescribeState, T!DiffsDescribeState
<1> QED
  BY <1>1, <1>2, <1>3, GamesCorrect, PTL DEF Spec

-----------------------------------------------------------------------------
(***************************************************************************)
(* The result of tic-tac-toe                                                *)
(***************************************************************************)

\* A line that a move completes is the mover's.
LEMMA MoverCompletes ==
  ASSUME board \in [T!Cell -> 0..2], NEW i \in T!Cell, turn \in Seat,
         board[i] = T!emptySeat, \A s \in Seat : ~Shows(board, s),
         NEW s \in Seat, Shows([board EXCEPT ![i] = T!Mark(turn)], s)
  PROVE  s = turn
<1> DEFINE b == [board EXCEPT ![i] = T!Mark(turn)]
<1>1. PICK line \in T!Lines : \A c \in line : b[c] = T!Mark(s)
  BY DEF Shows
<1>2. line \in SUBSET T!Cell
  <2>1. PICK j \in 1..8 : line = Row(j)
    BY TableIsGeometry
  <2> QED
    BY <2>1 DEF Row, T!winLines, T!Cell
<1>3. b[i] = T!Mark(turn) /\ \A c \in T!Cell : c # i => b[c] = board[c]
  OBVIOUS
<1> HIDE DEF b
<1>4. i \in line
  BY <1>1, <1>2, <1>3 DEF Shows
<1>5. T!Mark(s) = T!Mark(turn)
  BY <1>1, <1>3, <1>4
<1> QED
  BY <1>5 DEF T!Mark, Seat

\* Every step of tic-tac-toe keeps the result that the board shows.
LEMMA ResultStep ==
  ASSUME BoardInv, T!ResultMatchesBoard, T!Next
  PROVE  T!ResultMatchesBoard'
<1>1. /\ board \in [T!Cell -> 0..2] /\ turn \in Seat /\ moveCount \in 0..9
      /\ done \in BOOLEAN /\ draw \in BOOLEAN
      /\ winner \in Seat \cup {None} /\ abandoned \in Seat \cup {None}
  BY DEF BoardInv, T!TypeOK, T!Seat, Seat
<1>2. None \notin Int
  BY GamesAssumption
<1>3. \A s : (T!HasLine(s) <=> Shows(board, s)) /\ (T!HasLine(s)' <=> Shows(board', s))
  BY Zenon DEF T!HasLine, Shows
<1>4. ~done
  BY DEF T!Next, T!ApplyAction, T!Validate, T!OnPlayerAbandoned
<1>5. /\ abandoned = None /\ ~draw /\ \A s \in Seat : ~Shows(board, s)
      /\ \A s \in Seat : winner # s
  <2>1. abandoned = None /\ ~draw /\ \A s \in Seat : ~Shows(board, s)
    BY <1>3, <1>4, Zenon DEF T!ResultMatchesBoard, T!Seat, Seat
  <2>2. \A s \in Seat : abandoned # 1 - s
    BY <1>2, <2>1 DEF Seat
  <2> QED
    BY <1>3, <2>1, <2>2, Zenon DEF T!ResultMatchesBoard, T!Seat, Seat
<1>6. ASSUME NEW seat \in T!Seat, NEW x \in T!Coord, NEW y \in T!Coord,
             T!ApplyAction(seat, x, y)
      PROVE  T!ResultMatchesBoard'
  <2> DEFINE i == T!Index(x, y)
             b == [board EXCEPT ![i] = T!Mark(turn)]
             w == T!winningSeat(b)
  <2>1. /\ board[i] = T!emptySeat /\ board' = b /\ moveCount' = moveCount + 1
        /\ abandoned' = abandoned
        /\ \/ w >= 0 /\ done' = TRUE /\ winner' = w /\ draw' = draw
           \/ w < 0 /\ moveCount + 1 = 9 /\ done' = TRUE /\ draw' = TRUE /\ winner' = winner
           \/ /\ w < 0 /\ moveCount + 1 # 9
              /\ done' = done /\ draw' = draw /\ winner' = winner
    BY <1>6 DEF T!ApplyAction, T!Validate
  <2>2. i \in T!Cell
    BY DEF T!Index, T!Cell, T!Coord
  <2>3. b \in [T!Cell -> 0..2]
    BY <1>1, <2>2 DEF T!Mark, Seat
  <2>4. \A s \in Seat : Shows(b, s) => s = turn
    BY <1>1, <1>5, <2>1, <2>2, MoverCompletes, Zenon
  <2>5. (w = -1 /\ \A s \in Seat : ~Shows(b, s)) \/ (w \in Seat /\ Shows(b, w))
    BY <2>3, WinnerShown, Zenon
  <2> HIDE DEF i, b, w
  <2>6. \A s \in Seat : abandoned' # 1 - s
    BY <1>2, <1>5, <2>1 DEF Seat
  <2>7. CASE w \in Seat /\ Shows(b, w)
    <3>1. done' = TRUE /\ winner' = w /\ draw' = draw
      BY <2>1, <2>7 DEF Seat
    <3>2. \A s \in Seat : Shows(b, s) <=> s = w
      BY <2>4, <2>7, Zenon
    <3> QED
      BY <1>3, <1>5, <2>1, <2>6, <2>7, <3>1, <3>2, Zenon DEF T!ResultMatchesBoard, T!Seat, Seat
  <2>8. CASE w = -1 /\ \A s \in Seat : ~Shows(b, s)
    <3>1. /\ winner' = winner /\ (draw' <=> moveCount' = 9) /\ (done' <=> draw')
      BY <1>4, <1>5, <2>1, <2>8
    <3> QED
      BY <1>3, <1>5, <2>1, <2>6, <2>8, <3>1, Zenon DEF T!ResultMatchesBoard, T!Seat, Seat
  <2> QED
    BY <2>5, <2>7, <2>8
<1>7. ASSUME NEW seat \in T!Seat, T!OnPlayerAbandoned(seat)
      PROVE  T!ResultMatchesBoard'
  <2>1. /\ done' = TRUE /\ winner' = 1 - seat /\ abandoned' = seat
        /\ board' = board /\ draw' = draw
    BY <1>7 DEF T!OnPlayerAbandoned
  <2>2. seat # None /\ \A s \in Seat : 1 - seat = s <=> seat = 1 - s
    BY <1>2 DEF T!Seat, Seat
  <2> QED
    BY <1>3, <1>5, <2>1, <2>2, Zenon DEF T!ResultMatchesBoard, T!Seat, Seat
<1> QED
  BY <1>6, <1>7 DEF T!Next

\* Tic-tac-toe: a player has won exactly when they have three in a row or the other one
\* abandoned the game, a draw is a full board without a row, and while the game runs there
\* is neither (ApplyAction, winningSeat, OnPlayerAbandoned).
THEOREM ResultRight == Spec => []ResultMatchesBoard
<1>1. Init => ResultMatchesBoard
  <2> SUFFICES ASSUME Init, gameType = "tictactoe"
               PROVE  T!ResultMatchesBoard
    BY DEF ResultMatchesBoard
  <2>1. T!Init
    BY DEF Init
  <2>2. /\ board = [i \in T!Cell |-> T!emptySeat] /\ moveCount = 0
        /\ done = FALSE /\ draw = FALSE /\ winner = None /\ abandoned = None
    BY <2>1 DEF T!Init
  <2>3. None \notin Int
    BY GamesAssumption
  <2>4. \A s \in T!Seat : ~T!HasLine(s)
    <3>1. ASSUME NEW s \in T!Seat, T!HasLine(s)
          PROVE  FALSE
      <4>1. PICK line \in T!Lines : \A c \in line : board[c] = T!Mark(s)
        BY <3>1, Zenon DEF T!HasLine
      <4>2. PICK i \in 1..8 : line = Row(i)
        BY TableIsGeometry
      <4>3. T!winLines[i][1] \in line /\ T!winLines[i][1] \in T!Cell
        BY <4>2 DEF Row, T!winLines, T!Cell
      <4>4. T!Mark(s) = T!emptySeat
        BY <2>2, <4>1, <4>3
      <4> QED
        BY <4>4 DEF T!Mark, T!emptySeat, T!Seat
    <3> QED
      BY <3>1
  <2>5. \A s \in T!Seat : winner # s /\ abandoned # 1 - s
    BY <2>2, <2>3 DEF T!Seat
  <2>6. moveCount # 9
    BY <2>2
  <2> QED
    BY <2>2, <2>4, <2>5, <2>6, Zenon DEF T!ResultMatchesBoard
<1>2. GamesInv /\ ResultMatchesBoard /\ [Next]_vars => ResultMatchesBoard'
  <2> SUFFICES ASSUME GamesInv, ResultMatchesBoard, [Next]_vars, gameType' = "tictactoe"
               PROVE  T!ResultMatchesBoard'
    BY DEF ResultMatchesBoard
  <2>1. gameType' = gameType
    BY DEF Next, vars
  <2>2. BoardInv /\ T!ResultMatchesBoard
    BY <2>1 DEF GamesInv, ResultMatchesBoard
  <2>3. CASE T!Next
    BY <2>2, <2>3, ResultStep
  <2>4. CASE UNCHANGED vars
    BY <2>2, <2>4, Zenon DEF vars, boardVars, T!ResultMatchesBoard, T!HasLine
  <2> QED
    BY <2>1, <2>3, <2>4 DEF Next
<1> QED
  BY <1>1, <1>2, GamesCorrect, PTL DEF Spec

=============================================================================
