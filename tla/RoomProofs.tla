----------------------------- MODULE RoomProofs -----------------------------
(***************************************************************************)
(* Proofs about Room, for every number of players and callers, every        *)
(* channel capacity, grace window and bound.                                *)
(***************************************************************************)
EXTENDS Room, SequenceTheorems, TLAPS

\* Most steps need no arithmetic; the others name SMT.
USE Zenon

\* The first element of a sequence and the rest of it.
LEMMA HeadTail ==
  ASSUME NEW S, NEW s \in Seq(S), s # <<>>
  PROVE  /\ Head(s) \in S /\ Tail(s) \in Seq(S) /\ Len(Tail(s)) = Len(s) - 1
         /\ Len(s) \in Nat /\ Len(s) > 0 /\ Head(s) = s[1]
         /\ \A i \in 1..Len(Tail(s)) : Tail(s)[i] = s[i + 1]
  BY SMT

\* A sequence without one of its positions.
Without(s, i) == SubSeq(s, 1, i - 1) \o SubSeq(s, i + 1, Len(s))

\* The later positions move down by one.
LEMMA WithoutFacts ==
  ASSUME NEW S, NEW s \in Seq(S), NEW i \in 1..Len(s)
  PROVE  /\ Without(s, i) \in Seq(S)
         /\ Len(Without(s, i)) = Len(s) - 1
         /\ \A j \in 1..(Len(s) - 1) :
              Without(s, i)[j] = IF j < i THEN s[j] ELSE s[j + 1]
<1> DEFINE a == SubSeq(s, 1, i - 1)
           b == SubSeq(s, i + 1, Len(s))
<1>1. /\ a \in Seq(S) /\ Len(a) = i - 1
      /\ \A j \in 1..(i - 1) : a[j] = s[j]
  BY SMT
<1>2. /\ b \in Seq(S) /\ Len(b) = Len(s) - i
      /\ \A j \in 1..(Len(s) - i) : b[j] = s[i + j]
  BY SMT
<1>3. Without(s, i) = a \o b
  BY DEF Without
<1> HIDE DEF a, b
<1>4. /\ a \o b \in Seq(S) /\ Len(a \o b) = Len(a) + Len(b)
      /\ \A j \in 1..(Len(a) + Len(b)) :
           (a \o b)[j] = IF j <= Len(a) THEN a[j] ELSE b[j - Len(a)]
  BY <1>1, <1>2, ConcatProperties, ZenonT(30)
<1>5. Len(a) + Len(b) = Len(s) - 1
  BY <1>1, <1>2, SMT
<1>6. ASSUME NEW j \in 1..(Len(s) - 1)
      PROVE  (a \o b)[j] = IF j < i THEN s[j] ELSE s[j + 1]
  <2>1. CASE j < i
    BY <2>1, <1>1, <1>4, <1>5, SMT
  <2>2. CASE ~(j < i)
    <3>1. (a \o b)[j] = b[j - (i - 1)]
      BY <2>2, <1>1, <1>4, <1>5, SMT
    <3>2. j - (i - 1) \in 1..(Len(s) - i) /\ i + (j - (i - 1)) = j + 1
      BY <2>2, SMT
    <3> QED
      BY <2>2, <3>1, <3>2, <1>2
  <2> QED
    BY <2>1, <2>2, ZenonT(30)
<1> QED
  BY <1>3, <1>4, <1>5, <1>6

\* Abandoning a call rewrites reply channels and nothing else of the queued commands.
LEMMA OrphanFacts ==
  ASSUME TypeOK, NEW c \in Caller
  PROVE  /\ Orphan(c) \in Seq(Command) /\ Len(Orphan(c)) = Len(cmdCh)
         /\ \A i \in 1..Len(cmdCh) :
              /\ Orphan(c)[i].kind = cmdCh[i].kind
              /\ Orphan(c)[i].player = cmdCh[i].player
              /\ Orphan(c)[i].seq = cmdCh[i].seq
              /\ Orphan(c)[i].generation = cmdCh[i].generation
              /\ Orphan(c)[i].reply = IF cmdCh[i].reply = c THEN None ELSE cmdCh[i].reply
<1>1. cmdCh \in Seq(Command) /\ DOMAIN cmdCh = 1..Len(cmdCh) /\ Len(cmdCh) \in Nat
  BY SMT DEF TypeOK
<1>2. \A i \in 1..Len(cmdCh) : cmdCh[i] \in Command
  BY <1>1, SMT
<1>3. \A i \in 1..Len(cmdCh) : Orphan(c)[i] \in Command
  BY <1>1, <1>2 DEF Orphan, Command
<1>4. Orphan(c) \in Seq(Command) /\ Len(Orphan(c)) = Len(cmdCh)
  BY <1>1, <1>3, SMT DEF Orphan
<1> QED
  BY <1>1, <1>2, <1>4 DEF Orphan, Command

-----------------------------------------------------------------------------
(* Type correctness. *)

\* What taking a command gives to every handler.
LEMMA ReceiveFacts ==
  ASSUME TypeOK, NEW kind, Receive(kind)
  PROVE  /\ cmd \in Command /\ cmd.kind = kind /\ cmdCh # <<>>
         /\ cmdCh' \in Seq(Command) /\ Len(cmdCh') <= CmdCap
         /\ Len(cmdCh') = Len(cmdCh) - 1 /\ cmd = cmdCh[1]
         /\ \A i \in 1..Len(cmdCh') : cmdCh'[i] = cmdCh[i + 1]
         /\ kind \notin RoomWide => cmd.player \in Player
         /\ cmd.seq \in Nat /\ cmd.generation \in Nat
         /\ cmd.reply \in Caller \cup {None}
<1>1. /\ cmd \in Command /\ cmd.kind = kind /\ cmdCh # <<>>
      /\ cmdCh' \in Seq(Command) /\ Len(cmdCh') <= CmdCap
      /\ Len(cmdCh') = Len(cmdCh) - 1 /\ cmd = cmdCh[1]
      /\ \A i \in 1..Len(cmdCh') : cmdCh'[i] = cmdCh[i + 1]
  BY HeadTail, RoomAssumption, SMT DEF TypeOK, Receive, cmd
<1> HIDE DEF cmd
<1> QED
  BY <1>1 DEF Command

\* Every broadcast leaves a listener with a well-formed view.
LEMMA ViewType ==
  ASSUME NEW v \in View, NEW seq \in Nat
  PROVE  /\ \A p \in Player : SeePresent(v, p, seq) \in View /\ SeeAbsent(v, p, seq) \in View
         /\ SeeStarted(v, seq) \in View
         /\ SeeClosed(v, seq) \in View
         /\ \A b \in BOOLEAN : SeeDiff(v, b, seq) \in View
<1>1. \A p \in Player : SeePresent(v, p, seq) \in View /\ SeeAbsent(v, p, seq) \in View
  BY DEF SeePresent, SeeAbsent, View
<1>2. SeeStarted(v, seq) \in View
  BY DEF SeeStarted, View
<1>3. SeeClosed(v, seq) \in View
  BY DEF SeeClosed, View
<1>4. ASSUME NEW b \in BOOLEAN
      PROVE  SeeDiff(v, b, seq) \in View
  <2>1. (v.over \/ b) \in BOOLEAN
    OBVIOUS
  <2> QED
    BY <2>1 DEF SeeDiff, View
<1> QED
  BY <1>1, <1>2, <1>3, <1>4

\* reply answers callers only.
LEMMA AnswerType ==
  ASSUME TypeOK, cmd \in Command, Answer
  PROVE  answered' \subseteq Caller
  BY DEF TypeOK, Answer, Command

\* The body of handleDisconnect keeps the types of slots, timers and histories.
LEMMA DisconnectType ==
  ASSUME TypeOK, NEW p \in Player \cup {None}, Disconnect(p)
  PROVE  /\ lifecycle' = lifecycle /\ game' = game /\ seatOrder' = seatOrder
         /\ serverSeq' = serverSeq
         /\ DOMAIN players' = DOMAIN players /\ players' \in [DOMAIN players -> Slot]
         /\ timers' \subseteq Timer /\ away' \in [Player -> 0..Grace] /\ view' \in View
<1>1. CASE ~Connected(p) /\ UNCHANGED <<roomVars, timers, away, view>>
  BY <1>1 DEF TypeOK, roomVars
<1>2. CASE /\ Connected(p)
           /\ players' = [players EXCEPT ![p] = Dropped(@)]
           /\ ArmTimer(p)
           /\ away' = [away EXCEPT ![p] = 0]
           /\ view' = SeeAbsent(view, p, serverSeq)
           /\ UNCHANGED <<lifecycle, game, seatOrder, serverSeq>>
  <2>1. p \in DOMAIN players /\ p \in Player /\ players[p] \in Slot
    BY <1>2 DEF Connected, TypeOK
  <2>2. DOMAIN players' = DOMAIN players /\ players' \in [DOMAIN players -> Slot]
    <3>1. Dropped(players[p]) \in Slot
      BY <2>1, SMT DEF Slot, Dropped
    <3>2. players' = [players EXCEPT ![p] = Dropped(players[p])] /\ players \in [DOMAIN players -> Slot]
      BY <1>2 DEF TypeOK
    <3> HIDE DEF Slot
    <3> QED
      BY <2>1, <3>1, <3>2
  <2>3. timers' \subseteq Timer
    BY <1>2, <2>1, RoomAssumption, SMT DEF TypeOK, ArmTimer, Timer, Slot
  <2>4. away' \in [Player -> 0..Grace]
    BY <1>2, <2>1, RoomAssumption, SMT DEF TypeOK
  <2>5. view' \in View
    BY <1>2, <2>1, ViewType DEF TypeOK
  <2> QED
    BY <1>2, <2>2, <2>3, <2>4, <2>5
<1> QED
  BY <1>1, <1>2 DEF Disconnect

\* A new game state keeps the types of what it changes.
LEMMA AdvanceType ==
  ASSUME TypeOK, \E terminal \in BOOLEAN : Advance(terminal)
  PROVE  /\ lifecycle' \in Lifecycles /\ game' \in {"running", "over"}
         /\ serverSeq' \in Nat /\ view' \in View
<1> PICK terminal \in BOOLEAN : Advance(terminal)
  OBVIOUS
<1>1. view' \in View
  <2>1. serverSeq + 1 \in Nat /\ view \in View
    BY SMT DEF TypeOK
  <2> QED
    BY <2>1, ViewType DEF Advance
<1> QED
  BY <1>1, SMT DEF Advance, TypeOK, Lifecycles

\* The command that a timer's goroutine sends.
LEMMA FireTimerAppends ==
  ASSUME TypeOK, NEW t \in timers
  PROVE  [kind |-> "GraceExpired", player |-> t.player, seq |-> 0,
          generation |-> t.generation, reply |-> None] \in Command
  BY RoomAssumption DEF TypeOK, Timer, Command, CmdKinds, RoomWide

\* What the public API submits is a well-formed command.
LEMMA RequestType ==
  ASSUME NEW c \in Caller, NEW r \in Requests(c)
  PROVE  /\ r \in Command /\ r.reply = c /\ r.kind # "GraceExpired"
         /\ r.kind = "Action" => r.seq \in ClientSeqs
  BY RoomAssumption, SMT DEF Requests, Command, CmdKinds, RoomWide

\* Every variable keeps its type, and cmdCh its capacity, whatever the handlers, timers
\* and callers do.
THEOREM TypeCorrect == Spec => []TypeOK
<1>1. Init => TypeOK
  BY RoomAssumption, SMT DEF Init, TypeOK, Lifecycles, View, Slot, Timer
<1>2. TypeOK /\ [Next]_vars => TypeOK'
  <2> SUFFICES ASSUME TypeOK, [Next]_vars
               PROVE  TypeOK'
    OBVIOUS
  <2>1. CASE HandleJoin
    <3>1. cmd \in Command /\ cmdCh' \in Seq(Command) /\ Len(cmdCh') <= CmdCap
          /\ answered' \subseteq Caller
      BY <2>1, ReceiveFacts, AnswerType DEF HandleJoin
    <3>2. CASE UNCHANGED <<roomVars, view>>
      BY <2>1, <3>1, <3>2 DEF HandleJoin, TypeOK, roomVars
    <3>3. CASE TakeSeat(cmd.player) /\ UNCHANGED serverSeq
               /\ \/ game' = "running" /\ lifecycle' = "Active"
                     /\ view' = SeeStarted(SeePresent(view, cmd.player, serverSeq), serverSeq)
                  \/ UNCHANGED <<lifecycle, game>>
                     /\ view' = SeePresent(view, cmd.player, serverSeq)
      <4>1. cmd.player \in Player
        BY <2>1, ReceiveFacts, SMT DEF HandleJoin, RoomWide
      <4>2. seatOrder' \in Seq(Player) /\ Len(seatOrder) \in Nat
        BY <3>3, <4>1, SMT DEF TakeSeat, TypeOK
      <4>3. NewSlot(Len(seatOrder)) \in Slot
        BY <4>2 DEF NewSlot, Slot
      <4>4. DOMAIN players' \subseteq Player /\ players' \in [DOMAIN players' -> Slot]
        BY <3>3, <4>1, <4>3 DEF TakeSeat, TypeOK
      <4>5. view' \in View
        BY <3>3, <4>1, ViewType, ZenonT(30) DEF TypeOK
      <4>6. lifecycle' \in Lifecycles /\ game' \in {"nil", "running", "over"}
        BY <3>3 DEF TypeOK, Lifecycles
      <4> QED
        BY <2>1, <3>1, <3>3, <4>2, <4>4, <4>5, <4>6 DEF HandleJoin, TypeOK
    <3> QED
      BY <2>1, <3>2, <3>3 DEF HandleJoin
  <2>2. CASE HandleLeave
    <3>1. /\ cmd.player \in Player /\ cmdCh' \in Seq(Command) /\ Len(cmdCh') <= CmdCap
          /\ answered' \subseteq Caller
      BY <2>2, ReceiveFacts, AnswerType, SMT DEF HandleLeave, RoomWide
    <3>2. CASE Disconnect(cmd.player)
      BY <2>2, <3>1, <3>2, DisconnectType DEF HandleLeave, TypeOK
    <3>3. CASE /\ cmd.player \in DOMAIN players /\ FreeSeat(cmd.player)
               /\ lifecycle' = (IF seatOrder' = <<>> THEN "Closed" ELSE lifecycle)
               /\ UNCHANGED <<game, serverSeq, timers, away, view>>
      <4>1. seatOrder' \in Seq(Player)
        <5> PICK i \in DOMAIN seatOrder : seatOrder' = Without(seatOrder, i)
          BY <3>3 DEF FreeSeat, Without
        <5> i \in 1..Len(seatOrder)
          BY SMT DEF TypeOK
        <5> QED
          BY WithoutFacts DEF TypeOK
      <4>2. DOMAIN players' \subseteq Player /\ players' \in [DOMAIN players' -> Slot]
        <5>1. ASSUME NEW q \in DOMAIN players, players[q].seat > players[cmd.player].seat
              PROVE  [players[q] EXCEPT !.seat = @ - 1] \in Slot
          <6>1. players[q] \in Slot /\ players[cmd.player] \in Slot
            BY <3>3 DEF TypeOK
          <6>2. players[q].seat \in Nat /\ players[q].seat - 1 \in Nat
            BY <5>1, <6>1, SMT DEF Slot
          <6> QED
            BY <6>1, <6>2 DEF Slot
        <5> QED
          BY <3>3, <5>1 DEF TypeOK, FreeSeat
      <4> QED
        BY <2>2, <3>1, <3>3, <4>1, <4>2 DEF HandleLeave, TypeOK, Lifecycles
    <3> QED
      BY <2>2, <3>2, <3>3 DEF HandleLeave
  <2>3. CASE HandleAction
    <3>1. /\ cmd.player \in Player /\ cmdCh' \in Seq(Command) /\ Len(cmdCh') <= CmdCap
          /\ answered' \subseteq Caller /\ cmd.seq \in Nat
      BY <2>3, ReceiveFacts, AnswerType, SMT DEF HandleAction, RoomWide
    <3>2. CASE UNCHANGED <<roomVars, applied, view>>
      BY <2>3, <3>1, <3>2 DEF HandleAction, TypeOK, roomVars
    <3>3. CASE /\ ~ActionRefused(cmd.player, cmd.seq)
               /\ \E terminal \in BOOLEAN : Advance(terminal)
               /\ players' = [players EXCEPT ![cmd.player].lastAppliedSeq = cmd.seq]
               /\ applied' = [applied EXCEPT ![cmd.player] = @ \cup {cmd.seq}]
               /\ UNCHANGED seatOrder
      <4>1. cmd.player \in DOMAIN players /\ players[cmd.player] \in Slot
        BY <3>3 DEF ActionRefused, Connected, TypeOK
      <4>2. DOMAIN players' \subseteq Player /\ players' \in [DOMAIN players' -> Slot]
        <5>1. [players[cmd.player] EXCEPT !.lastAppliedSeq = cmd.seq] \in Slot
          BY <3>1, <4>1 DEF Slot
        <5> QED
          BY <3>3, <4>1, <5>1 DEF TypeOK
      <4>3. applied' \in [Player -> SUBSET Nat]
        BY <3>1, <3>3 DEF TypeOK
      <4> QED
        BY <2>3, <3>1, <3>3, <4>2, <4>3, AdvanceType DEF HandleAction, TypeOK
    <3> QED
      BY <2>3, <3>2, <3>3 DEF HandleAction
  <2>4. CASE HandleDisconnect
    <3>1. /\ cmd.player \in Player /\ cmdCh' \in Seq(Command) /\ Len(cmdCh') <= CmdCap
          /\ answered' \subseteq Caller
      BY <2>4, ReceiveFacts, AnswerType, SMT DEF HandleDisconnect, RoomWide
    <3> QED
      BY <2>4, <3>1, DisconnectType DEF HandleDisconnect, TypeOK
  <2>5. CASE HandleReconnect
    <3>1. /\ cmd.player \in Player /\ cmdCh' \in Seq(Command) /\ Len(cmdCh') <= CmdCap
          /\ answered' \subseteq Caller
      BY <2>5, ReceiveFacts, AnswerType, SMT DEF HandleReconnect, RoomWide
    <3>2. DOMAIN players' \subseteq Player /\ players' \in [DOMAIN players' -> Slot]
      <4>1. ASSUME NEW q \in DOMAIN players
            PROVE  [players[q] EXCEPT !.connected = TRUE] \in Slot
        BY ZenonT(30) DEF TypeOK, Slot
      <4> QED
        BY <2>5, <4>1 DEF HandleReconnect, TypeOK
    <3>3. view' \in View
      <4>1. view \in View /\ serverSeq \in Nat
        BY DEF TypeOK
      <4>2. view' = view \/ view' = SeePresent(view, cmd.player, serverSeq)
        BY <2>5 DEF HandleReconnect
      <4> QED
        BY <3>1, <4>1, <4>2, ViewType
    <3> QED
      BY <2>5, <3>1, <3>2, <3>3 DEF HandleReconnect, TypeOK
  <2>6. CASE HandleGraceExpired
    <3>1. cmdCh' \in Seq(Command) /\ Len(cmdCh') <= CmdCap
      BY <2>6, ReceiveFacts DEF HandleGraceExpired
    <3>2. CASE Forfeit
      <4>1. game' \in {"nil", "running", "over"}
        BY <3>2 DEF Forfeit, TypeOK
      <4>2. view' \in View
        <5>1. view \in View /\ serverSeq + 1 \in Nat /\ TRUE \in BOOLEAN
          BY SMT DEF TypeOK
        <5>2. view' = SeeDiff(view, TRUE, serverSeq + 1)
          BY <3>2 DEF Forfeit
        <5> QED
          BY <5>1, <5>2, ViewType, ZenonT(30)
      <4>3. /\ lifecycle' = "Finished" /\ serverSeq' = serverSeq + 1
            /\ UNCHANGED <<seatOrder, players, actor, timers, pc, answered, calls, away, applied>>
        BY <2>6, <3>2 DEF Forfeit, HandleGraceExpired
      <4> QED
        BY <3>1, <4>1, <4>2, <4>3, SMT DEF TypeOK, Lifecycles
    <3>3. CASE UNCHANGED <<roomVars, view>>
      BY <2>6, <3>1, <3>3 DEF HandleGraceExpired, TypeOK, roomVars
    <3> QED
      BY <2>6, <3>2, <3>3 DEF HandleGraceExpired
  <2>7. CASE HandleForceClose
    <3>1. /\ cmdCh' \in Seq(Command) /\ Len(cmdCh') <= CmdCap
          /\ answered' \subseteq Caller
      BY <2>7, ReceiveFacts, AnswerType DEF HandleForceClose
    <3> QED
      BY <2>7, <3>1, ViewType, ZenonT(30) DEF HandleForceClose, TypeOK, Lifecycles
  <2>8. CASE HandleSnapshot
    <3>1. /\ cmdCh' \in Seq(Command) /\ Len(cmdCh') <= CmdCap
          /\ answered' \subseteq Caller
      BY <2>8, ReceiveFacts, AnswerType DEF HandleSnapshot
    <3> QED
      BY <2>8, <3>1 DEF HandleSnapshot, TypeOK, roomVars, history
  <2>9. CASE HandleTick
    BY <2>9, AdvanceType DEF HandleTick, TypeOK
  <2>10. CASE OnClose \/ CloseStopped
    BY <2>10 DEF OnClose, CloseStopped, TypeOK, roomVars, history
  <2>11. CASE TimePasses
    <3>1. timers' \subseteq Timer
      <4>1. ASSUME NEW t \in timers
            PROVE  [t EXCEPT !.left = IF @ = 0 THEN 0 ELSE @ - 1] \in Timer
        <5>1. t \in Timer /\ t.left \in 0..Grace
          BY DEF TypeOK, Timer
        <5>2. (IF t.left = 0 THEN 0 ELSE t.left - 1) \in 0..Grace
          BY <5>1, RoomAssumption, SMT
        <5> QED
          BY <5>1, <5>2 DEF Timer
      <4> QED
        BY <2>11, <4>1 DEF TimePasses
    <3>2. away' \in [Player -> 0..Grace]
      BY <2>11, RoomAssumption, SMT DEF TimePasses, TypeOK, Later
    <3> QED
      BY <2>11, <3>1, <3>2 DEF TimePasses, TypeOK, roomVars
  <2>12. ASSUME NEW t \in timers, FireTimer(t)
         PROVE  TypeOK'
    <3>1. cmdCh' \in Seq(Command) /\ Len(cmdCh') <= CmdCap
      <4>1. CASE UNCHANGED cmdCh
        BY <4>1 DEF TypeOK
      <4>2. ASSUME NEW r \in Command, Len(cmdCh) < CmdCap, cmdCh' = Append(cmdCh, r)
            PROVE  cmdCh' \in Seq(Command) /\ Len(cmdCh') <= CmdCap
        BY <4>2, AppendProperties, RoomAssumption, SMT DEF TypeOK
      <4> QED
        BY <2>12, <4>1, <4>2, FireTimerAppends DEF FireTimer
    <3> QED
      BY <2>12, <3>1 DEF FireTimer, TypeOK, roomVars, history
  <2>13. ASSUME NEW c \in Caller, Call(c)
         PROVE  TypeOK'
    BY <2>13, SMT DEF Call, TypeOK, roomVars, history
  <2>14. ASSUME NEW c \in Caller, Send(c)
         PROVE  TypeOK'
    <3>1. cmdCh' \in Seq(Command) /\ Len(cmdCh') <= CmdCap
      <4>1. CASE UNCHANGED cmdCh
        BY <4>1 DEF TypeOK
      <4>2. ASSUME NEW r \in Requests(c), Len(cmdCh) < CmdCap, cmdCh' = Append(cmdCh, r)
            PROVE  cmdCh' \in Seq(Command) /\ Len(cmdCh') <= CmdCap
        BY <4>2, RequestType, AppendProperties, RoomAssumption, SMT DEF TypeOK
      <4> QED
        BY <2>14, <4>1, <4>2 DEF Send
    <3> QED
      BY <2>14, <3>1, ZenonT(30) DEF Send, TypeOK, roomVars, history
  <2>15. ASSUME NEW c \in Caller, StopWaiting(c)
         PROVE  TypeOK'
    BY <2>15, OrphanFacts DEF StopWaiting, TypeOK, roomVars, history
  <2>16. CASE UNCHANGED vars
    BY <2>16 DEF vars, TypeOK, roomVars, history
  <2> QED
    BY <2>1, <2>2, <2>3, <2>4, <2>5, <2>6, <2>7, <2>8, <2>9, <2>10, <2>11, <2>12, <2>13,
       <2>14, <2>15, <2>16
       DEF Next, Actor, HandleCommand, Clock, Callers, Return, ContextDone
<1> QED
  BY <1>1, <1>2, PTL DEF Spec

-----------------------------------------------------------------------------
(* Seating. *)

KeepsSeats ==
  /\ seatOrder' = seatOrder /\ DOMAIN players' = DOMAIN players
  /\ \A p \in DOMAIN players : players'[p].seat = players[p].seat

\* A step leaves the seating alone, or it is handleJoin's append or handleLeave's removal.
LEMMA SeatingStep ==
  ASSUME TypeOK, [Next]_vars
  PROVE  \/ KeepsSeats
         \/ \E p \in Player : TakeSeat(p) /\ ~JoinRefused(p)
         \/ \E p \in Player : p \in DOMAIN players /\ FreeSeat(p)
<1> DEFINE Goal == \/ KeepsSeats
                   \/ \E p \in Player : TakeSeat(p) /\ ~JoinRefused(p)
                   \/ \E p \in Player : p \in DOMAIN players /\ FreeSeat(p)
<1>1. ASSUME NEW p \in Player, Disconnect(p)
      PROVE  KeepsSeats
  <2>1. CASE UNCHANGED roomVars
    BY <2>1 DEF KeepsSeats, roomVars
  <2>2. CASE /\ Connected(p) /\ UNCHANGED seatOrder
             /\ players' = [players EXCEPT ![p] = Dropped(@)]
    <3>1. p \in DOMAIN players
      BY <2>2 DEF Connected
    <3>2. Dropped(players[p]).seat = players[p].seat
      BY DEF Dropped
    <3> QED
      BY <2>2, <3>1, <3>2 DEF KeepsSeats
  <2> QED
    BY <1>1, <2>1, <2>2 DEF Disconnect
<1>2. CASE HandleJoin
  <2>1. cmd.player \in Player
    BY <1>2, ReceiveFacts, SMT DEF HandleJoin, RoomWide
  <2> QED
    BY <1>2, <2>1, SMTT(30) DEF HandleJoin, KeepsSeats, roomVars
<1>3. CASE HandleLeave
  <2>1. cmd.player \in Player
    BY <1>3, ReceiveFacts, SMT DEF HandleLeave, RoomWide
  <2> QED
    BY <1>3, <2>1, <1>1 DEF HandleLeave
<1>4. CASE HandleDisconnect
  <2>1. cmd.player \in Player
    BY <1>4, ReceiveFacts, SMT DEF HandleDisconnect, RoomWide
  <2> QED
    BY <1>4, <2>1, <1>1 DEF HandleDisconnect
<1>5. CASE HandleAction
  <2>1. CASE UNCHANGED roomVars
    BY <2>1 DEF KeepsSeats, roomVars
  <2>2. CASE /\ UNCHANGED seatOrder /\ cmd.player \in DOMAIN players
             /\ players' = [players EXCEPT ![cmd.player].lastAppliedSeq = cmd.seq]
    <3>1. players[cmd.player] \in Slot
      BY <2>2 DEF TypeOK
    <3>2. [players[cmd.player] EXCEPT !.lastAppliedSeq = cmd.seq].seat = players[cmd.player].seat
      BY <3>1 DEF Slot
    <3> QED
      BY <2>2, <3>2 DEF KeepsSeats
  <2> QED
    BY <1>5, <2>1, <2>2 DEF HandleAction, ActionRefused, Connected
<1>6. CASE HandleReconnect
  <2>1. CASE UNCHANGED players
    BY <1>6, <2>1 DEF HandleReconnect, KeepsSeats
  <2>2. CASE /\ cmd.player \in DOMAIN players
             /\ players' = [players EXCEPT ![cmd.player].connected = TRUE]
    <3>1. players[cmd.player] \in Slot
      BY <2>2 DEF TypeOK
    <3>2. [players[cmd.player] EXCEPT !.connected = TRUE].seat = players[cmd.player].seat
      BY <3>1 DEF Slot
    <3> QED
      BY <1>6, <2>2, <3>2 DEF HandleReconnect, KeepsSeats
  <2> QED
    BY <1>6, <2>1, <2>2 DEF HandleReconnect
<1>7. CASE HandleGraceExpired \/ HandleForceClose \/ HandleSnapshot
  BY <1>7, ZenonT(30) DEF HandleGraceExpired, Forfeit, HandleForceClose, HandleSnapshot, KeepsSeats,
              roomVars
<1>8. CASE HandleTick \/ OnClose \/ CloseStopped \/ TimePasses
  BY <1>8 DEF HandleTick, OnClose, CloseStopped, TimePasses, KeepsSeats, roomVars
<1>9. ASSUME NEW t \in timers, FireTimer(t)
      PROVE  KeepsSeats
  BY <1>9 DEF FireTimer, KeepsSeats, roomVars
<1>10. ASSUME NEW c \in Caller, Call(c) \/ Send(c) \/ StopWaiting(c)
       PROVE  KeepsSeats
  BY <1>10 DEF Call, Send, StopWaiting, KeepsSeats, roomVars
<1>11. CASE UNCHANGED vars
  BY <1>11 DEF vars, KeepsSeats, roomVars
<1> QED
  BY <1>2, <1>3, <1>4, <1>5, <1>6, <1>7, <1>8, <1>9, <1>10, <1>11
     DEF Next, Actor, HandleCommand, Clock, Callers, Return, ContextDone

\* Removing the only position of a player keeps positions and seat numbers in step.
LEMMA FreeSeatKeepsSeating ==
  ASSUME TypeOK, SeatsConsistent, NEW p \in DOMAIN players, FreeSeat(p)
  PROVE  SeatsConsistent'
<1>1. PICK i \in DOMAIN seatOrder : seatOrder[i] = p /\ seatOrder' = Without(seatOrder, i)
  BY DEF FreeSeat, Without
<1>2. seatOrder \in Seq(Player) /\ DOMAIN seatOrder = 1..Len(seatOrder) /\ Len(seatOrder) \in Nat
  BY SMT DEF TypeOK
<1>3. /\ Len(seatOrder') = Len(seatOrder) - 1
      /\ DOMAIN seatOrder' = 1..(Len(seatOrder) - 1)
      /\ \A j \in 1..(Len(seatOrder) - 1) :
           seatOrder'[j] = IF j < i THEN seatOrder[j] ELSE seatOrder[j + 1]
  <2>1. i \in 1..Len(seatOrder)
    BY <1>2, SMTT(30)
  <2> DEFINE rest == Without(seatOrder, i)
  <2>2. /\ rest \in Seq(Player) /\ Len(rest) = Len(seatOrder) - 1
        /\ \A j \in 1..(Len(seatOrder) - 1) :
             rest[j] = IF j < i THEN seatOrder[j] ELSE seatOrder[j + 1]
    BY <1>2, <2>1, WithoutFacts, ZenonT(30)
  <2>3. seatOrder' = rest
    BY <1>1
  <2> HIDE DEF rest
  <2>4. DOMAIN rest = 1..Len(rest)
    BY <2>2, SMT
  <2> QED
    BY <2>2, <2>3, <2>4
<1>4. \A j, k \in DOMAIN seatOrder : seatOrder[j] = seatOrder[k] => j = k
  <2> SUFFICES ASSUME NEW j \in DOMAIN seatOrder, NEW k \in DOMAIN seatOrder,
                      seatOrder[j] = seatOrder[k]
               PROVE  j = k
    OBVIOUS
  <2>1. j - 1 = k - 1
    BY SMTT(30) DEF SeatsConsistent
  <2> QED
    BY <1>2, <2>1, SMT
<1>5. players[p].seat = i - 1
  BY <1>1 DEF SeatsConsistent
<1>6. /\ DOMAIN players' = DOMAIN players \ {p}
      /\ \A q \in DOMAIN players \ {p} :
           players'[q].seat = IF players[q].seat > i - 1 THEN players[q].seat - 1
                              ELSE players[q].seat
  BY <1>5 DEF FreeSeat, TypeOK, Slot
<1>7. ASSUME NEW j \in DOMAIN seatOrder'
      PROVE  seatOrder'[j] \in DOMAIN players' /\ players'[seatOrder'[j]].seat = j - 1
  <2>1. CASE j < i
    <3>1. seatOrder'[j] = seatOrder[j] /\ j \in DOMAIN seatOrder /\ j # i
      BY <1>2, <1>3, <1>7, <2>1, SMT
    <3>2. seatOrder[j] \in DOMAIN players /\ seatOrder[j] # p /\ players[seatOrder[j]].seat = j - 1
      BY <1>1, <1>4, <3>1 DEF SeatsConsistent
    <3> QED
      BY <1>2, <1>6, <2>1, <3>1, <3>2, SMT
  <2>2. CASE ~(j < i)
    <3>1. seatOrder'[j] = seatOrder[j + 1] /\ j + 1 \in DOMAIN seatOrder /\ j + 1 # i
      BY <1>2, <1>3, <1>7, <2>2, SMT
    <3>2. /\ seatOrder[j + 1] \in DOMAIN players /\ seatOrder[j + 1] # p
          /\ players[seatOrder[j + 1]].seat = (j + 1) - 1
      BY <1>1, <1>4, <3>1 DEF SeatsConsistent
    <3> QED
      BY <1>2, <1>3, <1>6, <2>2, <3>1, <3>2, SMT
  <2> QED
    BY <2>1, <2>2
<1>8. ASSUME NEW q \in DOMAIN players'
      PROVE  \E j \in DOMAIN seatOrder' : seatOrder'[j] = q
  <2>1. q \in DOMAIN players /\ q # p
    BY <1>6, <1>8
  <2>2. PICK k \in DOMAIN seatOrder : seatOrder[k] = q
    BY <2>1 DEF SeatsConsistent
  <2>3. CASE k < i
    <3>1. k \in 1..(Len(seatOrder) - 1)
      BY <1>2, <2>3, SMT
    <3> QED
      BY <1>3, <2>2, <2>3, <3>1
  <2>4. CASE k > i
    <3>1. k - 1 \in 1..(Len(seatOrder) - 1) /\ ~(k - 1 < i) /\ (k - 1) + 1 = k
      BY <1>2, <2>4, SMT
    <3> QED
      BY <1>3, <2>2, <3>1
  <2> QED
    BY <1>1, <1>2, <2>1, <2>2, <2>3, <2>4, SMT
<1>9. DOMAIN players' = {seatOrder'[j] : j \in DOMAIN seatOrder'}
  BY <1>7, <1>8
<1>10. Len(seatOrder') <= MaxPlayers
  BY <1>2, <1>3, RoomAssumption, SMT DEF SeatsConsistent
<1> QED
  BY <1>7, <1>9, <1>10, ZenonT(30) DEF SeatsConsistent

\* A player appended under the next seat number keeps positions and seat numbers in step.
LEMMA TakeSeatKeepsSeating ==
  ASSUME TypeOK, SeatsConsistent, NEW p \in Player, TakeSeat(p), ~JoinRefused(p)
  PROVE  SeatsConsistent'
<1>1. seatOrder \in Seq(Player) /\ DOMAIN seatOrder = 1..Len(seatOrder) /\ Len(seatOrder) \in Nat
  BY SMT DEF TypeOK
<1>2. p \notin DOMAIN players /\ Len(seatOrder) < MaxPlayers
  BY <1>1, RoomAssumption, SMT DEF JoinRefused
<1>3. /\ Len(seatOrder') = Len(seatOrder) + 1
      /\ DOMAIN seatOrder' = 1..(Len(seatOrder) + 1)
      /\ \A i \in 1..Len(seatOrder) : seatOrder'[i] = seatOrder[i]
      /\ seatOrder'[Len(seatOrder) + 1] = p
  BY <1>1, AppendProperties, SMT DEF TakeSeat
<1>4. /\ DOMAIN players' = DOMAIN players \cup {p}
      /\ players'[p].seat = Len(seatOrder)
      /\ \A q \in DOMAIN players : players'[q] = players[q]
  BY <1>2 DEF TakeSeat, NewSlot
<1>5. ASSUME NEW i \in DOMAIN seatOrder'
      PROVE  seatOrder'[i] \in DOMAIN players' /\ players'[seatOrder'[i]].seat = i - 1
  <2>1. CASE i \in 1..Len(seatOrder)
    <3>1. /\ seatOrder'[i] = seatOrder[i] /\ seatOrder[i] \in DOMAIN players
          /\ players[seatOrder[i]].seat = i - 1
      BY <1>1, <1>3, <2>1 DEF SeatsConsistent
    <3> QED
      BY <1>4, <3>1
  <2>2. CASE i = Len(seatOrder) + 1
    BY <1>1, <1>3, <1>4, <2>2, SMT
  <2> QED
    BY <1>1, <1>3, <2>1, <2>2, SMT
<1>6. ASSUME NEW q \in DOMAIN players'
      PROVE  \E i \in DOMAIN seatOrder' : seatOrder'[i] = q
  <2>1. CASE q = p
    <3>1. Len(seatOrder) + 1 \in DOMAIN seatOrder'
      BY <1>1, <1>3, SMT
    <3> QED
      BY <1>3, <2>1, <3>1
  <2>2. CASE q \in DOMAIN players
    <3>1. PICK i \in DOMAIN seatOrder : seatOrder[i] = q
      BY <2>2 DEF SeatsConsistent
    <3>2. i \in DOMAIN seatOrder' /\ seatOrder'[i] = q
      BY <1>1, <1>3, <3>1, SMT
    <3> QED
      BY <3>2
  <2> QED
    BY <1>4, <2>1, <2>2
<1>7. DOMAIN players' = {seatOrder'[i] : i \in DOMAIN seatOrder'}
  BY <1>5, <1>6, ZenonT(30)
<1>8. Len(seatOrder') <= MaxPlayers
  BY <1>1, <1>2, <1>3, RoomAssumption, SMT
<1> QED
  BY <1>5, <1>7, <1>8 DEF SeatsConsistent

\* For any number of players and any interleaving of joins and leaves, seatOrder and the
\* seat numbers of the slots describe one seating without duplicates and without gaps.
THEOREM SeatsAgree == Spec => []SeatsConsistent
<1>1. Init => SeatsConsistent
  <2> SUFFICES ASSUME Init
               PROVE  SeatsConsistent
    OBVIOUS
  <2>1. seatOrder = <<>> /\ Len(seatOrder) = 0 /\ DOMAIN seatOrder = {} /\ DOMAIN players = {}
    BY SMT DEF Init
  <2> QED
    BY <2>1, RoomAssumption, SMT DEF SeatsConsistent
<1>2. TypeOK /\ SeatsConsistent /\ [Next]_vars => SeatsConsistent'
  <2> SUFFICES ASSUME TypeOK, SeatsConsistent, [Next]_vars
               PROVE  SeatsConsistent'
    OBVIOUS
  <2>1. CASE KeepsSeats
    BY <2>1, SMT DEF KeepsSeats, SeatsConsistent
  <2> QED
    BY <2>1, SeatingStep, TakeSeatKeepsSeating, FreeSeatKeepsSeating
<1> QED
  BY <1>1, <1>2, TypeCorrect, PTL DEF Spec

-----------------------------------------------------------------------------
(* The grace window. *)

\* The lifecycle stays, moves to Active from Waiting, or leaves both.
LEMMA LifecycleStep ==
  ASSUME TypeOK, [Next]_vars
  PROVE  lifecycle' = "Waiting" => lifecycle = "Waiting"
<1>1. ASSUME NEW p, Disconnect(p)
      PROVE  lifecycle' = lifecycle
  BY <1>1 DEF Disconnect, roomVars
<1>2. CASE HandleCommand
  BY <1>1, <1>2 DEF HandleCommand, HandleJoin, HandleLeave, HandleAction, HandleDisconnect,
       HandleReconnect, HandleGraceExpired, HandleForceClose, HandleSnapshot, Advance, Forfeit,
       roomVars
<1>3. CASE HandleTick \/ OnClose \/ CloseStopped \/ TimePasses \/ UNCHANGED vars
  BY <1>3 DEF HandleTick, Advance, OnClose, CloseStopped, TimePasses, vars, roomVars
<1>4. ASSUME NEW t, FireTimer(t)
      PROVE  lifecycle' = lifecycle
  BY <1>4 DEF FireTimer, roomVars
<1>5. ASSUME NEW c, Call(c) \/ Send(c) \/ StopWaiting(c)
      PROVE  lifecycle' = lifecycle
  BY <1>5 DEF Call, Send, StopWaiting, roomVars
<1> QED
  BY <1>2, <1>3, <1>4, <1>5 DEF Next, Actor, Clock, Callers, Return, ContextDone

\* Within one generation a player can only come back, and their absence only grows.
SameAbsence(p) ==
  /\ players'[p].generation = players[p].generation
  /\ players'[p].connected \/ ~players[p].connected
  /\ away'[p] >= away[p]

NewAbsence(p) == players'[p].generation = players[p].generation + 1

\* The slot of a seated player, once the room has started, under every step.
LEMMA SlotStep ==
  ASSUME TypeOK, [Next]_vars, lifecycle # "Waiting", NEW p \in DOMAIN players
  PROVE  p \in DOMAIN players' /\ (SameAbsence(p) \/ NewAbsence(p))
<1> DEFINE Goal == p \in DOMAIN players' /\ (SameAbsence(p) \/ NewAbsence(p))
<1>1. p \in Player /\ players[p] \in Slot /\ away[p] \in 0..Grace /\ away[p] >= away[p]
  BY RoomAssumption, SMT DEF TypeOK
<1>2. CASE players' = players /\ away' = away
  BY <1>1, <1>2 DEF SameAbsence
<1>3. ASSUME NEW q, Disconnect(q)
      PROVE  Goal
  <2>1. CASE UNCHANGED <<players, away>>
    BY <1>2, <2>1
  <2>2. CASE /\ Connected(q) /\ players' = [players EXCEPT ![q] = Dropped(@)]
             /\ away' = [away EXCEPT ![q] = 0]
    <3>1. CASE q = p
      BY <2>2, <3>1 DEF Dropped, NewAbsence
    <3>2. CASE q # p
      <4>1. players'[p] = players[p] /\ away'[p] = away[p] /\ p \in DOMAIN players'
        BY <1>1, <2>2, <3>2, SMTT(30) DEF TypeOK
      <4> QED
        BY <1>1, <4>1 DEF SameAbsence
    <3> QED
      BY <3>1, <3>2
  <2> QED
    BY <1>3, <2>1, <2>2 DEF Disconnect, roomVars
<1>4. CASE HandleJoin
  <2>1. CASE UNCHANGED players
    BY <1>2, <1>4, <2>1 DEF HandleJoin
  <2>2. CASE TakeSeat(cmd.player) /\ ~JoinRefused(cmd.player)
    <3>1. p \in DOMAIN players' /\ players'[p] = players[p] /\ away' = away
      BY <1>4, <2>2 DEF TakeSeat, JoinRefused, HandleJoin
    <3> QED
      BY <1>1, <3>1 DEF SameAbsence
  <2> QED
    BY <1>4, <2>1, <2>2 DEF HandleJoin, roomVars
<1>5. CASE HandleLeave \/ HandleDisconnect
  BY <1>3, <1>5 DEF HandleLeave, HandleDisconnect
<1>6. CASE HandleAction
  <2>1. CASE UNCHANGED players
    BY <1>2, <1>6, <2>1 DEF HandleAction
  <2>2. CASE /\ cmd.player \in DOMAIN players
             /\ players' = [players EXCEPT ![cmd.player].lastAppliedSeq = cmd.seq]
    <3>1. /\ p \in DOMAIN players' /\ players'[p].generation = players[p].generation
          /\ players'[p].connected = players[p].connected
      BY <1>1, <2>2 DEF Slot
    <3> QED
      BY <1>1, <1>6, <3>1 DEF SameAbsence, HandleAction
  <2> QED
    BY <1>6, <2>1, <2>2 DEF HandleAction, ActionRefused, Connected, roomVars
<1>7. CASE HandleReconnect
  <2>1. CASE UNCHANGED players
    BY <1>2, <1>7, <2>1 DEF HandleReconnect
  <2>2. CASE /\ cmd.player \in DOMAIN players
             /\ players' = [players EXCEPT ![cmd.player].connected = TRUE]
    <3>1. /\ p \in DOMAIN players' /\ players'[p].generation = players[p].generation
          /\ players'[p].connected \/ ~players[p].connected
      BY <1>1, <2>2 DEF Slot
    <3> QED
      BY <1>1, <1>7, <3>1 DEF SameAbsence, HandleReconnect
  <2> QED
    BY <1>7, <2>1, <2>2 DEF HandleReconnect
<1>8. CASE HandleGraceExpired \/ HandleForceClose \/ HandleSnapshot
  BY <1>2, <1>8, ZenonT(30) DEF HandleGraceExpired, Forfeit, HandleForceClose, HandleSnapshot,
       roomVars, history
<1>9. CASE HandleTick \/ OnClose \/ CloseStopped \/ UNCHANGED vars
  BY <1>2, <1>9 DEF HandleTick, OnClose, CloseStopped, vars, roomVars, history
<1>10. CASE TimePasses
  <2>1. away'[p] = Later(away[p]) /\ players' = players
    BY <1>1, <1>10 DEF TimePasses, roomVars
  <2>2. Later(away[p]) >= away[p]
    BY <1>1, RoomAssumption, SMT DEF Later
  <2> QED
    BY <1>1, <2>1, <2>2 DEF SameAbsence
<1>11. ASSUME NEW t, FireTimer(t)
       PROVE  Goal
  BY <1>2, <1>11 DEF FireTimer, roomVars, history
<1>12. ASSUME NEW c, Call(c) \/ Send(c) \/ StopWaiting(c)
       PROVE  Goal
  BY <1>2, <1>12 DEF Call, Send, StopWaiting, roomVars, history
<1> QED
  BY <1>4, <1>5, <1>6, <1>7, <1>8, <1>9, <1>10, <1>11, <1>12
     DEF Next, Actor, HandleCommand, Clock, Callers, Return, ContextDone

\* A pending grace period stays accounted for, whatever else happens.
LEMMA PendingStep ==
  ASSUME TypeOK, TypeOK', [Next]_vars, lifecycle # "Waiting",
         NEW p, NEW g \in Nat, NEW left \in Nat, Pending(p, g, left)
  PROVE  Pending(p, g, left)'
<1>1. p \in DOMAIN players /\ p \in Player /\ players[p] \in Slot
  BY DEF Pending, TypeOK
<1>2. p \in DOMAIN players' /\ players'[p] \in Slot
  BY <1>1, SlotStep DEF TypeOK
<1>3. /\ players[p].generation \in Nat /\ players'[p].generation \in Nat
      /\ away[p] \in Nat /\ away'[p] \in Nat /\ Grace \in Nat
  BY <1>1, <1>2, RoomAssumption, SMTT(30) DEF TypeOK, Slot
<1>4. CASE SameAbsence(p)
  <2>1. g <= players'[p].generation
    BY <1>4 DEF SameAbsence, Pending
  <2>2. ASSUME g = players'[p].generation, ~players'[p].connected
        PROVE  away'[p] + left >= Grace
    <3>1. away[p] + left >= Grace
      BY <1>4, <2>2 DEF SameAbsence, Pending
    <3>2. away'[p] >= away[p]
      BY <1>4 DEF SameAbsence
    <3> QED
      BY <1>3, <3>1, <3>2, SMTT(30)
  <2> QED
    BY <1>2, <2>1, <2>2 DEF Pending
<1>5. CASE NewAbsence(p)
  <2>1. g <= players'[p].generation /\ g # players'[p].generation
    BY <1>3, <1>5, SMT DEF NewAbsence, Pending
  <2> QED
    BY <1>2, <2>1 DEF Pending
<1> QED
  BY <1>1, <1>4, <1>5, SlotStep, SMTT(30)

\* The timer that handleDisconnect arms: for this absence, and for the whole window.
FreshTimer(t) ==
  /\ lifecycle = "Active" /\ t.player \in DOMAIN players'
  /\ t.generation = players'[t.player].generation
  /\ away'[t.player] = 0 /\ t.left = Grace

\* Where the armed timers of the next state come from.
LEMMA TimerStep ==
  ASSUME TypeOK, [Next]_vars
  PROVE  TimePasses \/ \A t \in timers' : t \in timers \/ FreshTimer(t)
<1> DEFINE Goal == \A t \in timers' : t \in timers \/ FreshTimer(t)
<1>1. CASE timers' \subseteq timers
  BY <1>1
<1>2. ASSUME NEW p \in Player, Disconnect(p)
      PROVE  Goal
  <2>1. CASE UNCHANGED timers
    BY <1>1, <2>1
  <2>2. CASE /\ Connected(p) /\ players' = [players EXCEPT ![p] = Dropped(@)]
             /\ ArmTimer(p) /\ away' = [away EXCEPT ![p] = 0]
    <3>1. /\ p \in DOMAIN players' /\ players'[p].generation = players[p].generation + 1
          /\ away'[p] = 0
      BY <2>2 DEF Connected, Dropped, TypeOK
    <3>2. ASSUME NEW t \in timers', t \notin timers
          PROVE  FreshTimer(t)
      <4>1. /\ lifecycle = "Active"
            /\ t = [player |-> p, generation |-> players[p].generation + 1, left |-> Grace]
        BY <2>2, <3>2, SMTT(30) DEF ArmTimer
      <4> QED
        BY <3>1, <4>1 DEF FreshTimer
    <3> QED
      BY <3>2
  <2> QED
    BY <1>2, <2>1, <2>2 DEF Disconnect
<1>3. CASE HandleLeave
  <2>1. cmd.player \in Player
    BY <1>3, ReceiveFacts, SMT DEF HandleLeave, RoomWide
  <2> QED
    BY <1>1, <1>2, <1>3, <2>1 DEF HandleLeave
<1>4. CASE HandleDisconnect
  <2>1. cmd.player \in Player
    BY <1>4, ReceiveFacts, SMT DEF HandleDisconnect, RoomWide
  <2> QED
    BY <1>2, <1>4, <2>1 DEF HandleDisconnect
<1>5. CASE \/ HandleJoin \/ HandleAction \/ HandleReconnect \/ HandleGraceExpired
           \/ HandleForceClose \/ HandleSnapshot
  BY <1>1, <1>5 DEF HandleJoin, HandleAction, HandleReconnect, HandleGraceExpired,
       HandleForceClose, HandleSnapshot
<1>6. CASE HandleTick \/ OnClose \/ CloseStopped \/ UNCHANGED vars
  BY <1>1, <1>6 DEF HandleTick, OnClose, CloseStopped, vars
<1>7. ASSUME NEW t \in timers, FireTimer(t)
      PROVE  Goal
  BY <1>1, <1>7 DEF FireTimer
<1>8. ASSUME NEW c, Call(c) \/ Send(c) \/ StopWaiting(c)
      PROVE  Goal
  BY <1>1, <1>8, SMTT(30) DEF Call, Send, StopWaiting
<1> QED
  BY <1>3, <1>4, <1>5, <1>6, <1>7, <1>8
     DEF Next, Actor, HandleCommand, Clock, Callers, Return, ContextDone

\* A queued command of the next state was queued before, up to its reply channel.
Inherited(r) ==
  \E j \in DOMAIN cmdCh : /\ r.kind = cmdCh[j].kind /\ r.player = cmdCh[j].player
                          /\ r.seq = cmdCh[j].seq /\ r.generation = cmdCh[j].generation

Expired(r) ==
  \E t \in timers : t.left = 0 /\ r.player = t.player /\ r.generation = t.generation

\* Where the queued commands of the next state come from.
LEMMA QueueStep ==
  ASSUME TypeOK, [Next]_vars, NEW i \in DOMAIN cmdCh'
  PROVE  \/ Inherited(cmdCh'[i])
         \/ cmdCh'[i].kind = "GraceExpired" /\ Expired(cmdCh'[i])
         \/ \E c \in Caller : cmdCh'[i] \in Requests(c)
<1> DEFINE Goal == \/ Inherited(cmdCh'[i])
                   \/ cmdCh'[i].kind = "GraceExpired" /\ Expired(cmdCh'[i])
                   \/ \E c \in Caller : cmdCh'[i] \in Requests(c)
<1>0. cmdCh \in Seq(Command) /\ DOMAIN cmdCh = 1..Len(cmdCh) /\ Len(cmdCh) \in Nat
  BY SMT DEF TypeOK
<1>1. CASE cmdCh' = cmdCh
  BY <1>1 DEF Inherited
<1>2. ASSUME NEW kind, Receive(kind)
      PROVE  Goal
  <2>1. /\ cmdCh' \in Seq(Command) /\ Len(cmdCh') = Len(cmdCh) - 1
        /\ \A j \in 1..Len(cmdCh') : cmdCh'[j] = cmdCh[j + 1]
    BY <1>2, ReceiveFacts
  <2>2. i \in 1..Len(cmdCh') /\ i + 1 \in DOMAIN cmdCh
    BY <1>0, <2>1, SMT
  <2>3. cmdCh'[i] = cmdCh[i + 1]
    BY <2>1, <2>2
  <2> QED
    BY <2>2, <2>3 DEF Inherited
<1>3. ASSUME NEW r \in Command, cmdCh' = Append(cmdCh, r)
      PROVE  Inherited(cmdCh'[i]) \/ cmdCh'[i] = r
  <2>1. CASE i \in DOMAIN cmdCh
    <3>1. cmdCh'[i] = cmdCh[i]
      BY <1>0, <1>3, <2>1, AppendProperties, SMT
    <3> QED
      BY <2>1, <3>1 DEF Inherited
  <2>2. CASE i = Len(cmdCh) + 1
    BY <1>0, <1>3, <2>2, AppendProperties, SMTT(30)
  <2>3. i \in DOMAIN cmdCh \/ i = Len(cmdCh) + 1
    BY <1>0, <1>3, AppendProperties, SMTT(30)
  <2> QED
    BY <2>1, <2>2, <2>3, SMTT(30)
<1>4. ASSUME NEW t \in timers, FireTimer(t)
      PROVE  Goal
  <2> DEFINE r == [kind |-> "GraceExpired", player |-> t.player, seq |-> 0,
                   generation |-> t.generation, reply |-> None]
  <2>1. r \in Command /\ r.kind = "GraceExpired" /\ Expired(r)
    BY <1>4, FireTimerAppends DEF FireTimer, Expired
  <2>2. cmdCh' = cmdCh \/ cmdCh' = Append(cmdCh, r)
    BY <1>4, SMTT(30) DEF FireTimer
  <2> HIDE DEF r
  <2> QED
    BY <1>1, <1>3, <2>1, <2>2
<1>5. ASSUME NEW c \in Caller, Send(c)
      PROVE  Goal
  <2>1. CASE UNCHANGED cmdCh
    BY <1>1, <2>1
  <2>2. ASSUME NEW r \in Requests(c), cmdCh' = Append(cmdCh, r)
        PROVE  Goal
    BY <1>3, <2>2, RequestType, SMTT(30)
  <2> QED
    BY <1>5, <2>1, <2>2, SMTT(30) DEF Send
<1>6. ASSUME NEW c \in Caller, StopWaiting(c)
      PROVE  Goal
  <2>1. i \in 1..Len(cmdCh) /\ cmdCh' = Orphan(c)
    BY <1>0, <1>6, OrphanFacts, SMTT(30) DEF StopWaiting, Orphan
  <2> QED
    BY <1>0, <2>1, OrphanFacts, SMT DEF Inherited
<1>7. CASE HandleCommand
  BY <1>2, <1>7 DEF HandleCommand, HandleJoin, HandleLeave, HandleAction, HandleDisconnect,
       HandleReconnect, HandleGraceExpired, HandleForceClose, HandleSnapshot
<1>8. CASE HandleTick \/ OnClose \/ CloseStopped \/ TimePasses \/ UNCHANGED vars
  BY <1>1, <1>8 DEF HandleTick, OnClose, CloseStopped, TimePasses, vars
<1>9. ASSUME NEW c \in Caller, Call(c)
      PROVE  Goal
  BY <1>1, <1>9 DEF Call
<1> QED
  BY <1>4, <1>5, <1>6, <1>7, <1>8, <1>9 DEF Next, Actor, Clock, Callers, Return, ContextDone

\* Every armed timer and every queued expiry measures the absence that its generation
\* names, however timers, reconnects and further disconnects interleave.
THEOREM GraceAccounted == Spec => []GraceInv
<1>1. Init => GraceInv
  <2> SUFFICES ASSUME Init
               PROVE  GraceInv
    OBVIOUS
  <2>1. timers = {} /\ DOMAIN cmdCh = {}
    BY SMT DEF Init
  <2> QED
    BY <2>1 DEF GraceInv
<1>2. TypeOK /\ TypeOK' /\ GraceInv /\ [Next]_vars => GraceInv'
  <2> SUFFICES ASSUME TypeOK, TypeOK', GraceInv, [Next]_vars
               PROVE  GraceInv'
    OBVIOUS
  <2>1. ASSUME NEW t \in timers
        PROVE  /\ lifecycle # "Waiting" /\ Pending(t.player, t.generation, t.left)
               /\ t \in Timer /\ t.player \in Player /\ t.generation \in Nat
               /\ t.left \in 0..Grace /\ t.left \in Nat
    <3>1. t \in Timer
      BY DEF TypeOK
    <3>2. t.player \in Player /\ t.generation \in Nat /\ t.left \in 0..Grace
      BY <3>1 DEF Timer
    <3>3. t.left \in Nat
      BY <3>2, RoomAssumption, SMT
    <3>4. lifecycle # "Waiting" /\ Pending(t.player, t.generation, t.left)
      BY DEF GraceInv
    <3> QED
      BY <3>1, <3>2, <3>3, <3>4
  <2>2. ASSUME NEW t \in timers'
        PROVE  Pending(t.player, t.generation, t.left)' /\ lifecycle # "Waiting"
    <3>1. CASE t \in timers
      BY <2>1, <3>1, PendingStep, SMTT(30)
    <3>2. CASE FreshTimer(t)
      <4>1. t.player \in DOMAIN players' /\ players'[t.player] \in Slot
        BY <3>2 DEF FreshTimer, TypeOK
      <4>2. players'[t.player].generation <= players'[t.player].generation
        BY <4>1, SMT DEF Slot
      <4>3. 0 + Grace >= Grace
        BY RoomAssumption, SMTT(30)
      <4> QED
        BY <3>2, <4>1, <4>2, <4>3 DEF FreshTimer, Pending
    <3>3. CASE TimePasses
      <4>1. PICK u \in timers : t = [u EXCEPT !.left = IF @ = 0 THEN 0 ELSE @ - 1]
        BY <3>3 DEF TimePasses
      <4>2. /\ t.player = u.player /\ t.generation = u.generation
            /\ t.left = IF u.left = 0 THEN 0 ELSE u.left - 1
        BY <2>1, <4>1 DEF Timer
      <4>3. /\ players' = players /\ away'[u.player] = Later(away[u.player])
            /\ away[u.player] \in 0..Grace
        BY <2>1, <3>3, SMTT(30) DEF TimePasses, roomVars, TypeOK
      <4>4. away[u.player] + u.left >= Grace => away'[u.player] + t.left >= Grace
        BY <2>1, <4>2, <4>3, RoomAssumption, SMTT(30) DEF Later
      <4> QED
        BY <2>1, <4>2, <4>3, <4>4 DEF Pending
    <3> QED
      BY <3>1, <3>2, <3>3, TimerStep
  <2>3. ASSUME NEW i \in DOMAIN cmdCh', NEW r, r = cmdCh'[i], r.kind = "GraceExpired"
        PROVE  Pending(r.player, r.generation, 0)' /\ lifecycle # "Waiting"
    <3>1. ASSUME NEW p, NEW g \in Nat, Pending(p, g, 0), lifecycle # "Waiting",
                 r.player = p, r.generation = g
          PROVE  Pending(r.player, r.generation, 0)' /\ lifecycle # "Waiting"
      <4>1. Pending(p, g, 0)'
        BY <3>1, PendingStep, SMTT(30)
      <4> QED
        BY <3>1, <4>1
    <3>2. CASE Inherited(r)
      <4>1. PICK j \in DOMAIN cmdCh : /\ cmdCh[j].kind = "GraceExpired"
                                     /\ r.player = cmdCh[j].player
                                     /\ r.generation = cmdCh[j].generation
        BY <2>3, <3>2, SMTT(30) DEF Inherited
      <4>2. cmdCh[j].generation \in Nat
        BY SMT DEF TypeOK, Command
      <4> QED
        BY <3>1, <4>1, <4>2, SMTT(30) DEF GraceInv
    <3>3. CASE Expired(r)
      <4>1. PICK t \in timers : t.left = 0 /\ r.player = t.player /\ r.generation = t.generation
        BY <3>3 DEF Expired
      <4> QED
        BY <2>1, <3>1, <4>1, SMTT(30)
    <3>4. \A c \in Caller : r \notin Requests(c)
      BY <2>3, RequestType
    <3>5. Inherited(r) \/ Expired(r) \/ \E c \in Caller : r \in Requests(c)
      BY <2>3, QueueStep
    <3> QED
      BY <3>2, <3>3, <3>4, <3>5
  <2>4. lifecycle' = "Waiting" => lifecycle = "Waiting"
    BY LifecycleStep
  <2>5. \A t \in timers' : Pending(t.player, t.generation, t.left)'
    BY <2>2
  <2>6. \A i \in DOMAIN cmdCh' :
          cmdCh'[i].kind = "GraceExpired" =>
            (Pending(cmdCh[i].player, cmdCh[i].generation, 0))'
    <3> SUFFICES ASSUME NEW i \in DOMAIN cmdCh', cmdCh'[i].kind = "GraceExpired"
                 PROVE  (Pending(cmdCh[i].player, cmdCh[i].generation, 0))'
      OBVIOUS
    <3>1. PICK r : r = cmdCh'[i]
      OBVIOUS
    <3> QED
      BY <2>3, <3>1 DEF Pending
  <2>7. lifecycle' = "Waiting" =>
          timers' = {} /\ \A i \in DOMAIN cmdCh' : cmdCh'[i].kind # "GraceExpired"
    BY <2>2, <2>3, <2>4
  <2> QED
    BY <2>5, <2>6, <2>7 DEF GraceInv
<1> QED
  BY <1>1, <1>2, TypeCorrect, PTL DEF Spec

\* handleGraceExpired takes the game from a player only after a whole grace window of
\* uninterrupted absence, for any window, channel capacity and number of players.
THEOREM NoEarlyForfeit == Spec => ForfeitOnlyAfterGrace
<1> DEFINE Early(p) == /\ lifecycle = "Active" /\ lifecycle' = "Finished"
                       /\ cmdCh' # cmdCh /\ cmd.kind = "GraceExpired" /\ cmd.player = p
<1>1. TypeOK /\ GraceInv /\ [Next]_vars
        => [\A p \in Player : Early(p) => ~players[p].connected /\ away[p] = Grace]_vars
  <2> SUFFICES ASSUME TypeOK, GraceInv, [Next]_vars,
                      NEW p \in Player, Early(p)
               PROVE  ~players[p].connected /\ away[p] = Grace
    OBVIOUS
  <2>1. CASE HandleGraceExpired
    <3>1. TimerCounts(p, cmd.generation)
      BY <2>1 DEF HandleGraceExpired, Forfeit, roomVars
    <3>2. cmd = cmdCh[1] /\ 1 \in DOMAIN cmdCh
      <4>1. cmd = cmdCh[1] /\ cmdCh # <<>>
        BY <2>1, ReceiveFacts, SMTT(30) DEF HandleGraceExpired
      <4> QED
        BY <4>1, SMT DEF TypeOK
    <3>3. Pending(p, cmd.generation, 0)
      BY <3>2 DEF GraceInv
    <3>4. away[p] \in 0..Grace
      BY DEF TypeOK
    <3> QED
      BY <3>1, <3>3, <3>4, RoomAssumption, SMTT(30) DEF TimerCounts, Pending
  <2>2. \A kind : Receive(kind) => kind = "GraceExpired"
    BY DEF Receive
  <2>3. ~(HandleJoin \/ HandleLeave \/ HandleAction \/ HandleDisconnect \/ HandleReconnect
            \/ HandleForceClose \/ HandleSnapshot)
    BY <2>2 DEF HandleJoin, HandleLeave, HandleAction, HandleDisconnect, HandleReconnect,
       HandleForceClose, HandleSnapshot
  <2>4. ~(HandleTick \/ OnClose \/ CloseStopped \/ TimePasses \/ UNCHANGED vars)
    BY DEF HandleTick, OnClose, CloseStopped, TimePasses, vars, roomVars
  <2>5. \A t : ~FireTimer(t)
    BY DEF FireTimer, roomVars
  <2>6. \A c : ~(Call(c) \/ Send(c) \/ StopWaiting(c))
    BY DEF Call, Send, StopWaiting, roomVars
  <2> QED
    BY <2>1, <2>3, <2>4, <2>5, <2>6
       DEF Next, Actor, HandleCommand, Clock, Callers, Return, ContextDone
<1> QED
  BY <1>1, TypeCorrect, GraceAccounted, PTL DEF Spec, ForfeitOnlyAfterGrace

-----------------------------------------------------------------------------
(* The room implements RoomLifecycle. *)

\* run() leaves its loop only when the room is closed.
StoppedIsClosed == actor # "running" => lifecycle = "Closed"

\* run() leaves its loop in a closed room only.
LEMMA StoppedClosed == Spec => []StoppedIsClosed
<1>1. Init => StoppedIsClosed
  BY DEF Init, StoppedIsClosed
<1>2. StoppedIsClosed /\ [Next]_vars => StoppedIsClosed'
  <2> SUFFICES ASSUME StoppedIsClosed, [Next]_vars
               PROVE  StoppedIsClosed'
    OBVIOUS
  <2>1. CASE HandleCommand
    <3>1. actor = "running" /\ actor' = actor
      BY <2>1 DEF HandleCommand, HandleJoin, HandleLeave, HandleAction, HandleDisconnect,
         HandleReconnect, HandleGraceExpired, HandleForceClose, HandleSnapshot, Receive
    <3> QED
      BY <3>1 DEF StoppedIsClosed
  <2>2. CASE HandleTick \/ OnClose \/ CloseStopped \/ TimePasses \/ UNCHANGED vars
    BY <2>2 DEF HandleTick, OnClose, CloseStopped, TimePasses, vars, roomVars, StoppedIsClosed
  <2>3. ASSUME NEW t, FireTimer(t)
        PROVE  StoppedIsClosed'
    BY <2>3 DEF FireTimer, roomVars, StoppedIsClosed
  <2>4. ASSUME NEW c, Call(c) \/ Send(c) \/ StopWaiting(c)
        PROVE  StoppedIsClosed'
    BY <2>4 DEF Call, Send, StopWaiting, roomVars, StoppedIsClosed
  <2> QED
    BY <2>1, <2>2, <2>3, <2>4 DEF Next, Actor, Clock, Callers, Return, ContextDone
<1> QED
  BY <1>1, <1>2, PTL DEF Spec

\* What the abstract specification sees of a step that is not its business.
Unseen == UNCHANGED <<lifecycle, seatOrder, serverSeq, actor>>

\* Every behaviour of the actor, its channel, timers and callers is a behaviour of the
\* abstract room: lifecycle forward only, seats bounded and given up only while Waiting,
\* serverSeq one by one while Active, stopped only after closed.
THEOREM RoomKeepsPromise == Spec => KeepsPromise
<1>1. Init => Promise!Init
  BY DEF Init, Promise!Init
<1>2. TypeOK /\ StoppedIsClosed /\ [Next]_vars => [Promise!Next]_(Promise!vars)
  <2> SUFFICES ASSUME TypeOK, StoppedIsClosed, [Next]_vars
               PROVE  [Promise!Next]_(Promise!vars)
    OBVIOUS
  <2>0. /\ seatOrder \in Seq(Player) /\ Len(seatOrder) \in Nat /\ lifecycle \in Lifecycles
        /\ MinPlayers \in Nat /\ MaxPlayers \in Nat
    BY RoomAssumption, SMT DEF TypeOK
  <2>1. CASE Unseen
    BY <2>1 DEF Unseen, Promise!vars
  <2>2. ASSUME NEW p, Disconnect(p), UNCHANGED actor
        PROVE  Unseen
    BY <2>2 DEF Disconnect, Unseen, roomVars
  <2>3. CASE HandleJoin
    <3>1. CASE UNCHANGED <<roomVars, view>>
      BY <2>1, <2>3, <3>1 DEF HandleJoin, Unseen, roomVars
    <3>2. CASE /\ ~JoinRefused(cmd.player) /\ TakeSeat(cmd.player) /\ UNCHANGED serverSeq
               /\ \/ Quorate /\ lifecycle' = "Active"
                  \/ UNCHANGED lifecycle
      <4>1. cmd.player \in Player
        BY <2>3, ReceiveFacts, SMTT(30) DEF HandleJoin, RoomWide
      <4>2. Len(seatOrder') = Len(seatOrder) + 1
        BY <2>0, <3>2, <4>1, AppendProperties DEF TakeSeat
      <4>3. lifecycle \in {"Waiting", "Active"} /\ Len(seatOrder) < MaxPlayers
        BY <2>0, <3>2, SMT DEF JoinRefused, Lifecycles
      <4>4. UNCHANGED actor
        BY <2>3 DEF HandleJoin
      <4>5. Promise!Seat
        BY <2>0, <3>2, <4>2, <4>3, <4>4 DEF Promise!Seat, Quorate
      <4> QED
        BY <4>5 DEF Promise!Next
    <3> QED
      BY <2>3, <3>1, <3>2, SMTT(30) DEF HandleJoin
  <2>4. CASE HandleLeave
    <3>1. CASE Disconnect(cmd.player)
      BY <2>1, <2>2, <2>4, <3>1 DEF HandleLeave
    <3>2. CASE /\ lifecycle = "Waiting" /\ FreeSeat(cmd.player)
               /\ lifecycle' = (IF seatOrder' = <<>> THEN "Closed" ELSE lifecycle)
               /\ UNCHANGED serverSeq
      <4>1. PICK i \in DOMAIN seatOrder : seatOrder' = Without(seatOrder, i)
        BY <3>2 DEF FreeSeat, Without
      <4>2. /\ seatOrder' \in Seq(Player) /\ Len(seatOrder') = Len(seatOrder) - 1
            /\ Len(seatOrder) > 0
        BY <2>0, <4>1, WithoutFacts, SMT
      <4>3. seatOrder' = <<>> <=> Len(seatOrder) = 1
        BY <2>0, <4>2, SMT
      <4>4. UNCHANGED actor
        BY <2>4 DEF HandleLeave
      <4>5. Promise!Vacate
        BY <3>2, <4>2, <4>3, <4>4 DEF Promise!Vacate
      <4> QED
        BY <4>5 DEF Promise!Next
    <3> QED
      BY <2>4, <3>1, <3>2, SMTT(30) DEF HandleLeave
  <2>5. ASSUME lifecycle = "Active", \E terminal \in BOOLEAN : Advance(terminal),
               UNCHANGED <<seatOrder, actor>>
        PROVE  Promise!Next
    <3>1. Promise!Play
      BY <2>5 DEF Promise!Play, Advance
    <3> QED
      BY <3>1 DEF Promise!Next
  <2>6. CASE HandleAction
    BY <2>1, <2>5, <2>6 DEF HandleAction, ActionRefused, Unseen, roomVars
  <2>7. CASE HandleTick
    BY <2>5, <2>7 DEF HandleTick
  <2>8. CASE HandleGraceExpired
    <3>1. CASE Forfeit
      <4>1. Promise!Play
        BY <2>8, <3>1 DEF Promise!Play, Forfeit, HandleGraceExpired
      <4> QED
        BY <4>1 DEF Promise!Next
    <3>2. CASE UNCHANGED roomVars
      BY <2>1, <2>8, <3>2 DEF HandleGraceExpired, Unseen, roomVars
    <3> QED
      BY <2>8, <3>1, <3>2 DEF HandleGraceExpired
  <2>9. CASE HandleForceClose
    <3>1. Promise!Close
      BY <2>9 DEF Promise!Close, HandleForceClose, Receive
    <3> QED
      BY <3>1 DEF Promise!Next
  <2>10. CASE HandleDisconnect
    BY <2>1, <2>2, <2>10 DEF HandleDisconnect
  <2>11. CASE HandleReconnect \/ HandleSnapshot
    BY <2>1, <2>11 DEF HandleReconnect, HandleSnapshot, Unseen, roomVars
  <2>12. CASE OnClose
    BY <2>12 DEF OnClose, Promise!vars, roomVars
  <2>13. CASE CloseStopped
    <3>1. Promise!Stop
      BY <2>13 DEF Promise!Stop, CloseStopped, StoppedIsClosed, roomVars
    <3> QED
      BY <3>1 DEF Promise!Next
  <2>14. CASE TimePasses \/ UNCHANGED vars
    BY <2>1, <2>14, SMTT(30) DEF TimePasses, vars, Unseen, roomVars
  <2>15. ASSUME NEW t, FireTimer(t)
         PROVE  Unseen
    BY <2>15 DEF FireTimer, Unseen, roomVars
  <2>16. ASSUME NEW c, Call(c) \/ Send(c) \/ StopWaiting(c)
         PROVE  Unseen
    BY <2>16 DEF Call, Send, StopWaiting, Unseen, roomVars
  <2> QED
    BY <2>1, <2>3, <2>4, <2>6, <2>7, <2>8, <2>9, <2>10, <2>11, <2>12, <2>13, <2>14, <2>15, <2>16
       DEF Next, Actor, HandleCommand, Clock, Callers, Return, ContextDone
<1> QED
  BY <1>1, <1>2, TypeCorrect, StoppedClosed, PTL DEF Spec, KeepsPromise, Promise!Spec

-----------------------------------------------------------------------------
(* What the broadcasts tell, and what Finished means. *)

\* The game and the stream move on together.
LEMMA AdvanceTold ==
  ASSUME TypeOK, FinishedMeansGameOver, StreamDescribesRoom, lifecycle = "Active",
         \E terminal \in BOOLEAN : Advance(terminal),
         DOMAIN players' = DOMAIN players,
         \A p \in DOMAIN players : players'[p].connected <=> players[p].connected
  PROVE  FinishedMeansGameOver' /\ StreamDescribesRoom'
<1> PICK terminal \in BOOLEAN : Advance(terminal)
  OBVIOUS
<1>1. /\ game = "running" /\ view.started /\ ~view.over
      /\ \A p \in DOMAIN players : p \in view.here <=> players[p].connected
  BY DEF FinishedMeansGameOver, StreamDescribesRoom
<1>2. /\ view'.seq = serverSeq + 1 /\ view'.here = view.here
      /\ view'.started = view.started /\ view'.over = (view.over \/ terminal)
  BY DEF Advance, SeeDiff
<1>3. serverSeq' = serverSeq + 1
  BY DEF Advance
<1>4. \A p \in DOMAIN players' : p \in view'.here <=> players'[p].connected
  BY <1>1, <1>2
<1>5. CASE terminal
  <2>1. game' = "over" /\ lifecycle' = "Finished"
    BY <1>5 DEF Advance
  <2> QED
    BY <1>1, <1>2, <1>3, <1>4, <1>5, <2>1 DEF FinishedMeansGameOver, StreamDescribesRoom
<1>6. CASE ~terminal
  <2>1. game' = "running" /\ lifecycle' = "Active"
    BY <1>6 DEF Advance
  <2> QED
    BY <1>1, <1>2, <1>3, <1>4, <1>6, <2>1 DEF FinishedMeansGameOver, StreamDescribesRoom
<1> QED
  BY <1>5, <1>6

\* handleDisconnect tells the room who is gone.
LEMMA DisconnectTold ==
  ASSUME TypeOK, FinishedMeansGameOver, StreamDescribesRoom, NEW p, Disconnect(p)
  PROVE  FinishedMeansGameOver' /\ StreamDescribesRoom'
<1>1. CASE UNCHANGED <<roomVars, view>>
  BY <1>1 DEF roomVars, FinishedMeansGameOver, StreamDescribesRoom
<1>2. CASE /\ Connected(p)
           /\ players' = [players EXCEPT ![p] = Dropped(@)]
           /\ view' = SeeAbsent(view, p, serverSeq)
           /\ UNCHANGED <<lifecycle, game, seatOrder, serverSeq>>
  <2>1. /\ DOMAIN players' = DOMAIN players /\ players'[p].connected = FALSE
        /\ \A q \in DOMAIN players \ {p} : players'[q] = players[q]
    BY <1>2 DEF Connected, Dropped
  <2>2. /\ view'.seq = serverSeq /\ view'.here = view.here \ {p}
        /\ view'.started = view.started /\ view'.over = view.over
    BY <1>2 DEF SeeAbsent
  <2>3. \A q \in DOMAIN players' : q \in view'.here <=> players'[q].connected
    BY <2>1, <2>2 DEF StreamDescribesRoom
  <2> QED
    BY <1>2, <2>2, <2>3 DEF FinishedMeansGameOver, StreamDescribesRoom
<1> QED
  BY <1>1, <1>2 DEF Disconnect

\* handleJoin tells the room who has come, and the start if there is one.
LEMMA JoinTold ==
  ASSUME TypeOK, FinishedMeansGameOver, StreamDescribesRoom, HandleJoin
  PROVE  FinishedMeansGameOver' /\ StreamDescribesRoom'
<1> DEFINE p == cmd.player
<1>1. CASE UNCHANGED <<roomVars, view>>
  BY <1>1 DEF roomVars, FinishedMeansGameOver, StreamDescribesRoom
<1>2. CASE /\ ~JoinRefused(p) /\ TakeSeat(p) /\ UNCHANGED serverSeq
           /\ \/ /\ Quorate
                 /\ game' = "running" /\ lifecycle' = "Active"
                 /\ view' = SeeStarted(SeePresent(view, p, serverSeq), serverSeq)
              \/ /\ view' = SeePresent(view, p, serverSeq)
                 /\ UNCHANGED <<lifecycle, game>>
  <2>1. /\ DOMAIN players' = DOMAIN players \cup {p} /\ players'[p].connected = TRUE
        /\ \A q \in DOMAIN players : q # p /\ players'[q] = players[q]
    BY <1>2 DEF TakeSeat, JoinRefused, NewSlot
  <2>2. view'.seq = serverSeq' /\ view'.here = view.here \cup {p} /\ view'.over = view.over
    BY <1>2, SMT DEF SeeStarted, SeePresent
  <2>3. \A q \in DOMAIN players' : q \in view'.here <=> players'[q].connected
    BY <2>1, <2>2 DEF StreamDescribesRoom
  <2>4. CASE /\ Quorate /\ game' = "running" /\ lifecycle' = "Active"
             /\ view' = SeeStarted(SeePresent(view, p, serverSeq), serverSeq)
    <3>1. game = "nil" /\ ~view.over
      BY <2>4 DEF Quorate, FinishedMeansGameOver, StreamDescribesRoom
    <3>2. view'.started = TRUE
      BY <2>4 DEF SeeStarted
    <3> QED
      BY <2>2, <2>3, <2>4, <3>1, <3>2 DEF FinishedMeansGameOver, StreamDescribesRoom
  <2>5. CASE view' = SeePresent(view, p, serverSeq) /\ UNCHANGED <<lifecycle, game>>
    <3>1. view'.started = view.started
      BY <2>5 DEF SeePresent
    <3> QED
      BY <2>2, <2>3, <2>5, <3>1 DEF FinishedMeansGameOver, StreamDescribesRoom
  <2> QED
    BY <1>2, <2>4, <2>5
<1> QED
  BY <1>1, <1>2 DEF HandleJoin

\* handleReconnect tells the room of a player who was gone.
LEMMA ReconnectTold ==
  ASSUME TypeOK, FinishedMeansGameOver, StreamDescribesRoom, HandleReconnect
  PROVE  FinishedMeansGameOver' /\ StreamDescribesRoom'
<1> DEFINE p == cmd.player
<1>1. UNCHANGED <<lifecycle, game, serverSeq>>
  BY DEF HandleReconnect
<1>2. CASE UNCHANGED <<players, view>>
  BY <1>1, <1>2 DEF FinishedMeansGameOver, StreamDescribesRoom
<1>3. CASE /\ p \in DOMAIN players
           /\ players' = [players EXCEPT ![p].connected = TRUE]
           /\ view' = IF players[p].connected THEN view ELSE SeePresent(view, p, serverSeq)
  <2>1. players[p] \in Slot
    BY <1>3 DEF TypeOK
  <2>2. [players[p] EXCEPT !.connected = TRUE].connected = TRUE
    BY <2>1, SMT DEF Slot
  <2>3. /\ DOMAIN players' = DOMAIN players /\ players'[p].connected = TRUE
        /\ \A q \in DOMAIN players \ {p} : players'[q] = players[q]
    BY <1>3, <2>2
  <2>4. CASE players[p].connected
    BY <1>1, <1>3, <2>3, <2>4 DEF FinishedMeansGameOver, StreamDescribesRoom
  <2>5. CASE ~players[p].connected
    <3>1. /\ view'.seq = serverSeq /\ view'.here = view.here \cup {p}
          /\ view'.started = view.started /\ view'.over = view.over
      BY <1>3, <2>5 DEF SeePresent
    <3>2. \A q \in DOMAIN players' : q \in view'.here <=> players'[q].connected
      BY <2>3, <3>1 DEF StreamDescribesRoom
    <3> QED
      BY <1>1, <3>1, <3>2 DEF FinishedMeansGameOver, StreamDescribesRoom
  <2> QED
    BY <2>4, <2>5
<1> QED
  BY <1>2, <1>3 DEF HandleReconnect

\* A forfeit ends the game, when the games keep their contract.
LEMMA ForfeitTold ==
  ASSUME "goesOn" \notin AbandonResults,
         TypeOK, FinishedMeansGameOver, StreamDescribesRoom, Forfeit
  PROVE  FinishedMeansGameOver' /\ StreamDescribesRoom'
<1>1. view.started /\ \A p \in DOMAIN players : p \in view.here <=> players[p].connected
  BY DEF Forfeit, FinishedMeansGameOver, StreamDescribesRoom
<1>2. game' = "over" /\ lifecycle' = "Finished" /\ UNCHANGED players
  BY RoomAssumption DEF Forfeit
<1>3. /\ view'.seq = serverSeq' /\ view'.here = view.here
      /\ view'.started = view.started /\ view'.over
  BY DEF Forfeit, SeeDiff
<1> QED
  BY <1>1, <1>2, <1>3 DEF FinishedMeansGameOver, StreamDescribesRoom

\* Every step keeps the stream true and Finished final.
LEMMA TellingStep ==
  ASSUME "goesOn" \notin AbandonResults,
         TypeOK, FinishedMeansGameOver, StreamDescribesRoom, [Next]_vars
  PROVE  FinishedMeansGameOver' /\ StreamDescribesRoom'
<1>1. CASE UNCHANGED <<lifecycle, game, players, serverSeq, view>>
  BY <1>1 DEF FinishedMeansGameOver, StreamDescribesRoom
<1>2. CASE HandleJoin
  BY <1>2, JoinTold
<1>3. CASE HandleLeave
  <2>1. CASE Disconnect(cmd.player)
    BY <2>1, DisconnectTold
  <2>2. CASE /\ lifecycle = "Waiting" /\ FreeSeat(cmd.player)
             /\ lifecycle' = IF seatOrder' = <<>> THEN "Closed" ELSE lifecycle
             /\ UNCHANGED <<game, serverSeq, view>>
    <3>1. \A q \in DOMAIN players' : q \in DOMAIN players
                                     /\ players'[q].connected = players[q].connected
      BY <2>2, SMT DEF FreeSeat, TypeOK, Slot
    <3> QED
      BY <2>2, <3>1 DEF FinishedMeansGameOver, StreamDescribesRoom
  <2> QED
    BY <1>3, <2>1, <2>2 DEF HandleLeave
<1>4. CASE HandleAction
  <2>1. CASE UNCHANGED <<roomVars, view>>
    BY <1>1, <2>1 DEF roomVars
  <2>2. CASE /\ ~ActionRefused(cmd.player, cmd.seq)
             /\ \E terminal \in BOOLEAN : Advance(terminal)
             /\ players' = [players EXCEPT ![cmd.player].lastAppliedSeq = cmd.seq]
    <3>1. lifecycle = "Active"
      BY <2>2 DEF ActionRefused
    <3>2. /\ DOMAIN players' = DOMAIN players
          /\ \A p \in DOMAIN players : players'[p].connected <=> players[p].connected
      BY <2>2, SMT DEF TypeOK, Slot
    <3> QED
      BY <2>2, <3>1, <3>2, AdvanceTold
  <2> QED
    BY <1>4, <2>1, <2>2 DEF HandleAction
<1>5. CASE HandleDisconnect
  BY <1>5, DisconnectTold DEF HandleDisconnect
<1>6. CASE HandleReconnect
  BY <1>6, ReconnectTold
<1>7. CASE HandleGraceExpired
  BY <1>1, <1>7, ForfeitTold DEF HandleGraceExpired, roomVars
<1>8. CASE HandleForceClose
  <2>1. /\ view'.seq = serverSeq' /\ view'.here = view.here
        /\ view'.started = view.started /\ view'.over = view.over
    BY <1>8, SMT DEF HandleForceClose, SeeClosed, TypeOK, View
  <2> QED
    BY <1>8, <2>1 DEF HandleForceClose, FinishedMeansGameOver, StreamDescribesRoom
<1>9. CASE HandleTick
  BY <1>9, AdvanceTold DEF HandleTick
<1>10. CASE HandleSnapshot \/ OnClose \/ CloseStopped \/ Clock \/ Callers
  BY <1>1, <1>10
  DEF HandleSnapshot, OnClose, CloseStopped, Clock, TimePasses, FireTimer, Callers, Call, Send,
      Return, ContextDone, StopWaiting, roomVars, history
<1>11. CASE UNCHANGED vars
  BY <1>1, <1>11 DEF vars, roomVars, history
<1> QED
  BY <1>2, <1>3, <1>4, <1>5, <1>6, <1>7, <1>8, <1>9, <1>10, <1>11
  DEF Next, Actor, HandleCommand

\* Both always hold, since each step keeps the two of them together.
LEMMA TellingAlways ==
  ASSUME "goesOn" \notin AbandonResults
  PROVE  Spec => [](FinishedMeansGameOver /\ StreamDescribesRoom)
<1>1. Init => FinishedMeansGameOver /\ StreamDescribesRoom
  BY SMT DEF Init, FinishedMeansGameOver, StreamDescribesRoom
<1>2. /\ TypeOK /\ FinishedMeansGameOver /\ StreamDescribesRoom /\ [Next]_vars
      => FinishedMeansGameOver' /\ StreamDescribesRoom'
  BY TellingStep
<1> QED
  BY <1>1, <1>2, TypeCorrect, PTL DEF Spec

\* In a room whose game ends when a player abandons it (the contract that GamesProofs shows
\* the games to keep), Finished means that the game has ended, and Active that it has not.
THEOREM FinishedIsOver ==
  ASSUME "goesOn" \notin AbandonResults
  PROVE  Spec => []FinishedMeansGameOver
BY TellingAlways, PTL

\* In such a room every broadcast is true: the sequence number, the presence list, the start
\* and the end of the game that a listener knows are the actor's (broadcast in actor.go).
THEOREM StreamTruthful ==
  ASSUME "goesOn" \notin AbandonResults
  PROVE  Spec => []StreamDescribesRoom
BY TellingAlways, PTL

-----------------------------------------------------------------------------
(* Sequence numbers of actions. *)

\* What handleAction remembers of a player bounds what it has applied for them; players
\* without a seat, and players of a room that has not started, have done nothing.
AppliedInv ==
  /\ \A p \in DOMAIN players : \A s \in applied[p] : s <= players[p].lastAppliedSeq
  /\ \A p \in Player \ DOMAIN players : applied[p] = {}
  /\ lifecycle = "Waiting" => \A p \in Player : applied[p] = {}

\* An action that is applied has a number above all earlier ones of its player, or is the
\* number 0, to which handleAction gives no protection.
LEMMA AcceptedIsNew ==
  ASSUME TypeOK, AppliedInv, cmdCh # <<>>, cmd.kind = "Action",
         ~ActionRefused(cmd.player, cmd.seq)
  PROVE  \A s \in applied[cmd.player] : s < cmd.seq \/ (s = 0 /\ cmd.seq = 0)
<1> DEFINE p == cmd.player
           last == players[p].lastAppliedSeq
<1>1. cmd.seq \in Nat
  BY HeadTail, SMT DEF TypeOK, Command, cmd
<1>2. p \in DOMAIN players /\ last \in Nat /\ (cmd.seq > last \/ last = 0)
  BY <1>1, SMT DEF ActionRefused, Connected, TypeOK, Slot
<1>3. p \in Player /\ applied[p] \subseteq Nat
  BY <1>2, SMT DEF TypeOK
<1>4. \A s \in applied[p] : s <= last
  BY <1>2 DEF AppliedInv
<1> QED
  BY <1>1, <1>2, <1>3, <1>4, SMT

\* Every step keeps what is applied below what is remembered.
LEMMA AppliedStep ==
  ASSUME TypeOK, AppliedInv, [Next]_vars
  PROVE  AppliedInv'
<1> DEFINE p == cmd.player
<1>1. ASSUME UNCHANGED applied, lifecycle' = "Waiting" => lifecycle = "Waiting",
             \A q \in DOMAIN players \cap DOMAIN players' :
               players'[q].lastAppliedSeq = players[q].lastAppliedSeq,
             \A q \in DOMAIN players' \ DOMAIN players : q \in Player,
             DOMAIN players \subseteq DOMAIN players' \/ lifecycle = "Waiting"
      PROVE  AppliedInv'
  BY <1>1 DEF AppliedInv, TypeOK
<1>2. CASE UNCHANGED <<lifecycle, players, applied>>
  BY <1>2 DEF AppliedInv
<1>3. CASE HandleJoin
  <2>1. CASE UNCHANGED roomVars
    BY <1>2, <1>3, <2>1 DEF HandleJoin, roomVars
  <2>2. CASE ~JoinRefused(p) /\ TakeSeat(p)
    <3>1. p \in Player
      BY <1>3, ReceiveFacts, SMT DEF HandleJoin, RoomWide
    <3>2. /\ DOMAIN players' = DOMAIN players \cup {p}
          /\ \A q \in DOMAIN players : players'[q] = players[q]
      BY <2>2 DEF TakeSeat, JoinRefused
    <3>3. UNCHANGED applied /\ (lifecycle' = "Waiting" => lifecycle = "Waiting")
      BY <1>3 DEF HandleJoin, roomVars
    <3> QED
      BY <1>1, <3>1, <3>2, <3>3
  <2> QED
    BY <1>3, <2>1, <2>2 DEF HandleJoin
<1>4. ASSUME NEW q, Disconnect(q), UNCHANGED applied
      PROVE  AppliedInv'
  <2>1. CASE UNCHANGED roomVars
    BY <1>2, <1>4, <2>1 DEF roomVars
  <2>2. CASE /\ Connected(q) /\ players' = [players EXCEPT ![q] = Dropped(@)]
             /\ UNCHANGED lifecycle
    <3>1. /\ DOMAIN players' = DOMAIN players
          /\ \A r \in DOMAIN players : players'[r].lastAppliedSeq = players[r].lastAppliedSeq
      BY <2>2, SMT DEF Dropped, Connected, TypeOK, Slot
    <3> QED
      BY <1>1, <1>4, <2>2, <3>1
  <2> QED
    BY <1>4, <2>1, <2>2 DEF Disconnect
<1>5. CASE HandleLeave
  <2>1. CASE Disconnect(p)
    BY <1>4, <1>5, <2>1 DEF HandleLeave
  <2>2. CASE /\ lifecycle = "Waiting" /\ FreeSeat(p)
             /\ lifecycle' = IF seatOrder' = <<>> THEN "Closed" ELSE lifecycle
    <3>0. players' = [q \in DOMAIN players \ {p} |->
                        IF players[q].seat > players[p].seat
                        THEN [players[q] EXCEPT !.seat = @ - 1] ELSE players[q]]
      BY <2>2 DEF FreeSeat
    <3> HIDE DEF p
    <3>1. /\ DOMAIN players' \subseteq DOMAIN players
          /\ \A q \in DOMAIN players' : players'[q].lastAppliedSeq = players[q].lastAppliedSeq
      BY <3>0, SMT DEF TypeOK, Slot
    <3>2. UNCHANGED applied
      BY <1>5 DEF HandleLeave
    <3> QED
      BY <1>1, <2>2, <3>1, <3>2
  <2> QED
    BY <1>5, <2>1, <2>2 DEF HandleLeave
<1>6. CASE HandleAction
  <2>1. CASE UNCHANGED <<roomVars, applied>>
    BY <1>2, <2>1 DEF roomVars
  <2>2. CASE /\ ~ActionRefused(p, cmd.seq) /\ \E terminal \in BOOLEAN : Advance(terminal)
             /\ players' = [players EXCEPT ![p].lastAppliedSeq = cmd.seq]
             /\ applied' = [applied EXCEPT ![p] = @ \cup {cmd.seq}]
    <3>1. cmd.kind = "Action" /\ cmdCh # <<>> /\ cmd.seq \in Nat /\ p \in Player
      BY <1>6, ReceiveFacts DEF HandleAction, RoomWide
    <3>2. p \in DOMAIN players /\ lifecycle = "Active" /\ lifecycle' # "Waiting"
      BY <2>2 DEF ActionRefused, Connected, Advance
    <3>3. /\ DOMAIN players' = DOMAIN players /\ players'[p].lastAppliedSeq = cmd.seq
          /\ \A q \in DOMAIN players \ {p} : players'[q] = players[q]
      BY <2>2, <3>2, SMT DEF TypeOK, Slot
    <3>4. /\ applied'[p] = applied[p] \cup {cmd.seq}
          /\ \A q \in Player \ {p} : applied'[q] = applied[q]
      BY <2>2, <3>1 DEF TypeOK
    <3>5. applied[p] \subseteq Nat
      BY <3>1, SMT DEF TypeOK
    <3>6. \A s \in applied'[p] : s <= cmd.seq
      BY <2>2, <3>1, <3>4, <3>5, AcceptedIsNew, SMT
    <3> QED
      BY <3>2, <3>3, <3>4, <3>6 DEF AppliedInv, TypeOK
  <2> QED
    BY <1>6, <2>1, <2>2 DEF HandleAction
<1>7. CASE HandleDisconnect
  BY <1>4, <1>7 DEF HandleDisconnect
<1>8. CASE HandleReconnect
  <2>1. /\ DOMAIN players' = DOMAIN players
        /\ \A q \in DOMAIN players : players'[q].lastAppliedSeq = players[q].lastAppliedSeq
    <3>1. CASE UNCHANGED players
      BY <3>1
    <3>2. CASE p \in DOMAIN players /\ players' = [players EXCEPT ![p].connected = TRUE]
      BY <3>2, SMT DEF TypeOK, Slot
    <3> QED
      BY <1>8, <3>1, <3>2 DEF HandleReconnect
  <2> QED
    BY <1>1, <1>8, <2>1 DEF HandleReconnect
<1>9. CASE HandleGraceExpired \/ HandleForceClose \/ HandleTick
  <2>1. UNCHANGED <<players, applied>> /\ (lifecycle' = "Waiting" => lifecycle = "Waiting")
    BY <1>9 DEF HandleGraceExpired, Forfeit, HandleForceClose, HandleTick, Advance, roomVars
  <2> QED
    BY <1>1, <2>1
<1>10. CASE \/ HandleSnapshot \/ OnClose \/ CloseStopped \/ Clock \/ Callers
            \/ UNCHANGED vars
  BY <1>2, <1>10
  DEF HandleSnapshot, OnClose, CloseStopped, Clock, TimePasses, FireTimer, Callers, Call, Send,
      Return, ContextDone, StopWaiting, roomVars, history, vars
<1> QED
  BY <1>3, <1>5, <1>6, <1>7, <1>8, <1>9, <1>10
  DEF Next, Actor, HandleCommand

\* The sequence number of a queued action is one that clients send.
SeqsSent == \A i \in DOMAIN cmdCh : cmdCh[i].kind = "Action" => cmdCh[i].seq \in ClientSeqs

\* Only a caller puts an action into the channel.
LEMMA SeqsStep ==
  ASSUME TypeOK, SeqsSent, [Next]_vars
  PROVE  SeqsSent'
<1> SUFFICES ASSUME NEW i \in DOMAIN cmdCh', cmdCh'[i].kind = "Action"
             PROVE  cmdCh'[i].seq \in ClientSeqs
  BY DEF SeqsSent
<1>1. CASE Inherited(cmdCh'[i])
  BY <1>1 DEF Inherited, SeqsSent
<1>2. ASSUME NEW c \in Caller, cmdCh'[i] \in Requests(c)
      PROVE  cmdCh'[i].seq \in ClientSeqs
  BY <1>2, RequestType
<1> QED
  BY <1>1, <1>2, QueueStep

\* The sequence number moves under a queued action only when handleAction applies it.
LEMMA AppliedMeansAccepted ==
  ASSUME TypeOK, [Next]_vars, cmdCh' # cmdCh, cmd.kind = "Action", serverSeq' # serverSeq
  PROVE  ~ActionRefused(cmd.player, cmd.seq)
<1>1. CASE HandleAction
  BY <1>1 DEF HandleAction, roomVars
<1>2. CASE HandleGraceExpired
  BY <1>2 DEF HandleGraceExpired, Receive
<1> QED
  BY <1>1, <1>2
  DEF Next, Actor, HandleCommand, HandleJoin, HandleLeave, HandleDisconnect, HandleReconnect,
      Disconnect, HandleForceClose, HandleSnapshot, HandleTick, OnClose, CloseStopped, Clock,
      TimePasses, FireTimer, Callers, Call, Send, Return, ContextDone, StopWaiting, roomVars,
      history, vars

\* Where clients number their actions from 1, no action counts twice: each is applied under
\* a number above all those applied for its player before (the dedup of handleAction).
THEOREM NoActionTwice ==
  ASSUME 0 \notin ClientSeqs
  PROVE  Spec => NoActionAppliedTwice
<1> DEFINE Applies(p) == cmdCh' # cmdCh /\ cmdCh # <<>> /\ cmd.kind = "Action"
                           /\ cmd.player = p /\ serverSeq' # serverSeq
<1>1. Init => AppliedInv /\ SeqsSent
  BY SMT DEF Init, AppliedInv, SeqsSent
<1>2. TypeOK /\ AppliedInv /\ SeqsSent /\ [Next]_vars => (AppliedInv /\ SeqsSent)'
  BY AppliedStep, SeqsStep
<1>3. TypeOK /\ AppliedInv /\ SeqsSent /\ [Next]_vars
      => [\A p \in Player : Applies(p) => \A s \in applied[p] : s < cmd.seq]_vars
  <2> SUFFICES ASSUME TypeOK, AppliedInv, SeqsSent, [Next]_vars,
                      NEW p \in Player, Applies(p), NEW s \in applied[p]
               PROVE  s < cmd.seq
    OBVIOUS
  <2>1. 1 \in DOMAIN cmdCh /\ cmd = cmdCh[1]
    BY HeadTail, SMT DEF TypeOK, cmd
  <2>2. cmd.seq # 0
    BY <2>1 DEF SeqsSent
  <2> QED
    BY <2>2, AppliedMeansAccepted, AcceptedIsNew
<1> QED
  BY <1>1, <1>2, <1>3, TypeCorrect, PTL DEF Spec, NoActionAppliedTwice

-----------------------------------------------------------------------------
(* Calls and their answers. *)

Queued(c) == \E i \in DOMAIN cmdCh : cmdCh[i].reply = c

\* A caller waits exactly while its command is queued or its answer is in its reply channel.
AnswerInv ==
  /\ \A i \in DOMAIN cmdCh : cmdCh[i].kind = "GraceExpired" => cmdCh[i].reply = None
  /\ \A c \in Caller :
       /\ \A i, j \in DOMAIN cmdCh : cmdCh[i].reply = c /\ cmdCh[j].reply = c => i = j
       /\ c \in answered => pc[c] = "waiting" /\ ~Queued(c)
       /\ Queued(c) => pc[c] = "waiting"
       /\ pc[c] = "waiting" => c \in answered \/ Queued(c)

\* This is the property as stated, without its exclusive or.
LEMMA AnswerInvSuffices == AnswerInv => AnsweredOnce
<1> SUFFICES ASSUME AnswerInv, NEW c \in Caller
             PROVE  LET mine == {i \in DOMAIN cmdCh : cmdCh[i].reply = c}
                    IN  /\ \A i, j \in mine : i = j
                        /\ pc[c] = "waiting" <=> (c \in answered) # (mine # {})
                        /\ c \in answered => mine = {}
  BY DEF AnsweredOnce
<1> DEFINE mine == {i \in DOMAIN cmdCh : cmdCh[i].reply = c}
<1>1. mine # {} <=> Queued(c)
  BY DEF Queued
<1>2. \A i, j \in mine : i = j
  BY DEF AnswerInv
<1>3. c \in answered => mine = {}
  BY <1>1 DEF AnswerInv
<1>4. pc[c] = "waiting" <=> (c \in answered) # (mine # {})
  <2> HIDE DEF mine
  <2> QED
    BY <1>1, SMT DEF AnswerInv
<1> QED
  BY <1>2, <1>3, <1>4

\* The actor takes a command and answers it, unless nobody asked.
LEMMA ReceivedOnce ==
  ASSUME TypeOK, AnswerInv, NEW kind, Receive(kind), UNCHANGED pc,
         \/ Answer
         \/ kind = "GraceExpired" /\ UNCHANGED answered
  PROVE  AnswerInv'
<1>1. /\ cmdCh' \in Seq(Command) /\ Len(cmdCh') = Len(cmdCh) - 1 /\ cmd = cmdCh[1]
      /\ \A i \in 1..Len(cmdCh') : cmdCh'[i] = cmdCh[i + 1]
      /\ cmd.kind = kind /\ cmd.reply \in Caller \cup {None}
  BY ReceiveFacts
<1>2. /\ DOMAIN cmdCh = 1..Len(cmdCh) /\ DOMAIN cmdCh' = 1..Len(cmdCh')
      /\ Len(cmdCh) \in Nat \ {0}
  BY <1>1, SMT DEF TypeOK
<1>3. /\ \A i \in DOMAIN cmdCh' : i + 1 \in DOMAIN cmdCh /\ i + 1 # 1
                                  /\ cmdCh'[i] = cmdCh[i + 1]
      /\ \A i \in DOMAIN cmdCh : i = 1 \/ \E j \in DOMAIN cmdCh' : cmdCh'[j] = cmdCh[i]
      /\ \A i, j \in DOMAIN cmdCh' : i + 1 = j + 1 => i = j
      /\ 1 \in DOMAIN cmdCh
  <2>1. \A i \in DOMAIN cmdCh : i = 1 \/ (i - 1 \in DOMAIN cmdCh' /\ cmdCh'[i - 1] = cmdCh[i])
    BY <1>1, <1>2, SMT
  <2> QED
    BY <1>1, <1>2, <2>1, SMT
<1> HIDE DEF cmd
<1>4. answered' = answered \cup ({cmd.reply} \ {None})
  BY <1>1, <1>3 DEF AnswerInv, Answer
<1>5. \A c \in Caller : Queued(c)' <=> Queued(c) /\ cmd.reply # c
  <2> TAKE c \in Caller
  <2>1. ASSUME NEW i \in DOMAIN cmdCh', cmdCh'[i].reply = c
        PROVE  Queued(c) /\ cmd.reply # c
    <3>1. i + 1 \in DOMAIN cmdCh /\ i + 1 # 1 /\ cmdCh[i + 1].reply = c
      BY <1>3, <2>1
    <3>2. cmdCh[1].reply # c
      BY <1>3, <3>1 DEF AnswerInv
    <3> QED
      BY <1>1, <3>1, <3>2 DEF Queued
  <2>2. ASSUME NEW i \in DOMAIN cmdCh, cmdCh[i].reply = c, cmd.reply # c
        PROVE  Queued(c)'
    BY <1>1, <1>3, <2>2 DEF Queued
  <2> QED
    BY <2>1, <2>2 DEF Queued
<1>6. ASSUME NEW c \in Caller
      PROVE  /\ c \in answered' => pc[c] = "waiting" /\ ~Queued(c)'
             /\ Queued(c)' => pc[c] = "waiting"
             /\ pc[c] = "waiting" => c \in answered' \/ Queued(c)'
  <2>1. cmd.reply = c => Queued(c)
    BY <1>1, <1>3 DEF Queued
  <2>2. c # None
    BY RoomAssumption
  <2> QED
    BY <1>4, <1>5, <2>1, <2>2 DEF AnswerInv
<1>7. ASSUME NEW c \in Caller, NEW i \in DOMAIN cmdCh', NEW j \in DOMAIN cmdCh',
             cmdCh'[i].reply = c, cmdCh'[j].reply = c
      PROVE  i = j
  BY <1>3, <1>7, SMT DEF AnswerInv
<1>8. \A i \in DOMAIN cmdCh' : cmdCh'[i].kind = "GraceExpired" => cmdCh'[i].reply = None
  BY <1>3, SMT DEF AnswerInv
<1> QED
  BY <1>6, <1>7, <1>8 DEF AnswerInv

\* A command at the end of the channel, for a caller that now waits or for nobody.
LEMMA AppendedOnce ==
  ASSUME TypeOK, AnswerInv, NEW r, cmdCh' = Append(cmdCh, r), UNCHANGED answered,
         r.kind = "GraceExpired" => r.reply = None,
         \/ r.reply = None /\ UNCHANGED pc
         \/ /\ r.reply \in Caller /\ pc[r.reply] = "sending"
            /\ pc' = [pc EXCEPT ![r.reply] = "waiting"]
  PROVE  AnswerInv'
<1> DEFINE n == Len(cmdCh) + 1
<1>1. /\ DOMAIN cmdCh' = DOMAIN cmdCh \cup {n} /\ n \notin DOMAIN cmdCh /\ cmdCh'[n] = r
      /\ \A i \in DOMAIN cmdCh : cmdCh'[i] = cmdCh[i]
  BY SMT DEF TypeOK
<1> HIDE DEF n
<1>2. \A c \in Caller : Queued(c)' <=> Queued(c) \/ r.reply = c
  BY <1>1 DEF Queued
<1>3. \A i \in DOMAIN cmdCh' : cmdCh'[i].kind = "GraceExpired" => cmdCh'[i].reply = None
  BY <1>1, SMT DEF AnswerInv
<1>4. ASSUME NEW c \in Caller
      PROVE  /\ \A i, j \in DOMAIN cmdCh' : cmdCh'[i].reply = c /\ cmdCh'[j].reply = c => i = j
             /\ c \in answered' => pc'[c] = "waiting" /\ ~Queued(c)'
             /\ Queued(c)' => pc'[c] = "waiting"
             /\ pc'[c] = "waiting" => c \in answered' \/ Queued(c)'
  <2>1. CASE r.reply # c
    <3>1. pc'[c] = pc[c]
      BY <2>1 DEF TypeOK
    <3>2. \A i \in DOMAIN cmdCh' : cmdCh'[i].reply = c => i \in DOMAIN cmdCh /\ cmdCh[i].reply = c
      BY <1>1, <2>1
    <3>3. \A i, j \in DOMAIN cmdCh' : cmdCh'[i].reply = c /\ cmdCh'[j].reply = c => i = j
      BY <3>2 DEF AnswerInv
    <3> QED
      BY <1>2, <2>1, <3>1, <3>3 DEF AnswerInv
  <2>2. CASE r.reply = c
    <3>1. c # None
      BY RoomAssumption
    <3>2. pc[c] = "sending" /\ pc'[c] = "waiting"
      BY <2>2, <3>1 DEF TypeOK
    <3>3. c \notin answered /\ ~Queued(c)
      BY <3>2 DEF AnswerInv
    <3>4. \A i \in DOMAIN cmdCh' : cmdCh'[i].reply = c => i = n
      BY <1>1, <3>3 DEF Queued
    <3> QED
      BY <1>2, <2>2, <3>2, <3>3, <3>4
  <2> QED
    BY <2>1, <2>2
<1> QED
  BY <1>3, <1>4 DEF AnswerInv

\* Every step keeps the account of calls and answers.
LEMMA AnswerStep ==
  ASSUME TypeOK, AnswerInv, [Next]_vars
  PROVE  AnswerInv'
<1>1. CASE UNCHANGED <<cmdCh, pc, answered>>
  BY <1>1 DEF AnswerInv, Queued
<1>2. ASSUME NEW kind, Receive(kind), Answer, UNCHANGED pc
      PROVE  AnswerInv'
  BY <1>2, ReceivedOnce
<1>3. CASE \/ HandleJoin \/ HandleLeave \/ HandleAction \/ HandleDisconnect \/ HandleReconnect
           \/ HandleForceClose \/ HandleSnapshot
  BY <1>2, <1>3
  DEF HandleJoin, HandleLeave, HandleAction, HandleDisconnect, HandleReconnect,
      HandleForceClose, HandleSnapshot
<1>4. CASE HandleGraceExpired
  BY <1>4, ReceivedOnce DEF HandleGraceExpired
<1>5. CASE HandleTick \/ OnClose \/ CloseStopped \/ TimePasses \/ UNCHANGED vars
  BY <1>1, <1>5 DEF HandleTick, OnClose, CloseStopped, TimePasses, vars
<1>6. ASSUME NEW t \in timers, FireTimer(t)
      PROVE  AnswerInv'
  <2> DEFINE r == [kind |-> "GraceExpired", player |-> t.player, seq |-> 0,
                   generation |-> t.generation, reply |-> None]
  <2>1. CASE cmdCh' = Append(cmdCh, r)
    BY <1>6, <2>1, AppendedOnce DEF FireTimer
  <2> QED
    BY <1>1, <1>6, <2>1 DEF FireTimer
<1>7. ASSUME NEW c \in Caller, Call(c) \/ Send(c)
      PROVE  AnswerInv'
  <2>1. ASSUME pc[c] # "waiting", UNCHANGED <<cmdCh, answered>>,
               NEW v \in {"idle", "sending"}, pc' = [pc EXCEPT ![c] = v]
        PROVE  AnswerInv'
    <3>1. \A d \in Caller : pc'[d] = "waiting" <=> pc[d] = "waiting"
      BY <2>1 DEF TypeOK
    <3> QED
      BY <2>1, <3>1 DEF AnswerInv, Queued
  <2>2. CASE Call(c)
    BY <2>1, <2>2 DEF Call
  <2>3. ASSUME Send(c), NEW r \in Requests(c), cmdCh' = Append(cmdCh, r),
               pc' = [pc EXCEPT ![c] = "waiting"]
        PROVE  AnswerInv'
    BY <2>3, RequestType, AppendedOnce DEF Send
  <2>4. CASE Send(c)
    BY <2>1, <2>3, <2>4 DEF Send
  <2> QED
    BY <1>7, <2>2, <2>4
<1>8. ASSUME NEW c \in Caller, StopWaiting(c)
      PROVE  AnswerInv'
  <2>1. /\ DOMAIN cmdCh' = DOMAIN cmdCh
        /\ \A i \in DOMAIN cmdCh :
             /\ cmdCh'[i].kind = cmdCh[i].kind
             /\ cmdCh'[i].reply = IF cmdCh[i].reply = c THEN None ELSE cmdCh[i].reply
    <3>1. cmdCh' = Orphan(c) /\ cmdCh \in Seq(Command)
      BY <1>8 DEF StopWaiting, TypeOK
    <3>2. \A s \in Seq(Command) : DOMAIN s = 1..Len(s) /\ Len(s) \in Nat
      BY SMT
    <3>3. /\ Orphan(c) \in Seq(Command) /\ Len(Orphan(c)) = Len(cmdCh)
          /\ \A i \in 1..Len(cmdCh) :
               /\ Orphan(c)[i].kind = cmdCh[i].kind
               /\ Orphan(c)[i].reply = IF cmdCh[i].reply = c THEN None ELSE cmdCh[i].reply
      BY OrphanFacts
    <3>4. DOMAIN cmdCh = 1..Len(cmdCh) /\ DOMAIN cmdCh' = 1..Len(cmdCh)
      BY <3>1, <3>2, <3>3
    <3> QED
      BY <3>1, <3>3, <3>4
  <2>2. c # None /\ \A d \in Caller : d # None
    BY RoomAssumption
  <2>3. \A d \in Caller : Queued(d)' <=> Queued(d) /\ d # c
    BY <2>1, <2>2 DEF Queued
  <2>4. pc'[c] = "idle" /\ \A d \in Caller \ {c} : pc'[d] = pc[d]
    BY <1>8 DEF StopWaiting, TypeOK
  <2>5. answered' = answered \ {c}
    BY <1>8 DEF StopWaiting
  <2>6. \A i \in DOMAIN cmdCh' : cmdCh'[i].kind = "GraceExpired" => cmdCh'[i].reply = None
    BY <2>1 DEF AnswerInv
  <2>7. \A d \in Caller : \A i, j \in DOMAIN cmdCh' :
          cmdCh'[i].reply = d /\ cmdCh'[j].reply = d => i = j
    <3>1. \A d \in Caller : \A i \in DOMAIN cmdCh' :
            cmdCh'[i].reply = d => i \in DOMAIN cmdCh /\ cmdCh[i].reply = d
      BY <2>1, <2>2
    <3> QED
      BY <3>1 DEF AnswerInv
  <2>8. \A d \in Caller : /\ d \in answered' => pc'[d] = "waiting" /\ ~Queued(d)'
                          /\ Queued(d)' => pc'[d] = "waiting"
                          /\ pc'[d] = "waiting" => d \in answered' \/ Queued(d)'
    BY <2>3, <2>4, <2>5 DEF AnswerInv
  <2> QED
    BY <2>6, <2>7, <2>8 DEF AnswerInv
<1> QED
  BY <1>3, <1>4, <1>5, <1>6, <1>7, <1>8
  DEF Next, Actor, HandleCommand, Clock, Callers, Return, ContextDone

\* However calls, timers and expiring contexts interleave, a waiting caller has one command
\* in the channel or one answer, never both, so the actor's reply never blocks (submit).
THEOREM AnswersOnce == Spec => []AnsweredOnce
<1>1. Init => AnswerInv
  BY SMT DEF Init, AnswerInv, Queued
<1>2. TypeOK /\ AnswerInv /\ [Next]_vars => AnswerInv'
  BY AnswerStep
<1> QED
  BY <1>1, <1>2, AnswerInvSuffices, TypeCorrect, PTL DEF Spec

=============================================================================
