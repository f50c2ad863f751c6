---------------------------- MODULE ManagerProofs ----------------------------
(***************************************************************************)
(* Proofs about Manager, for every set of rooms, match size, time to live   *)
(* and bound.                                                               *)
(***************************************************************************)
EXTENDS Manager, TLAPS

\* The first element of a sequence and the rest of it.
LEMMA HeadTail ==
  ASSUME NEW S, NEW s \in Seq(S), s # <<>>
  PROVE  /\ Head(s) \in S /\ Tail(s) \in Seq(S) /\ Len(Tail(s)) = Len(s) - 1
         /\ Len(s) \in Nat /\ Len(s) > 0 /\ Head(s) = s[1]
         /\ \A i \in 1..Len(Tail(s)) : Tail(s)[i] = s[i + 1]
  OBVIOUS

\* Every way a command can change a room keeps its state well-formed.
LEMMA ChangeType ==
  ASSUME TypeOK, NEW r \in Room,
         Join(r) \/ Play(r) \/ Leave(r) \/ ForceClose(r) \/ UNCHANGED <<promise, ended>>
  PROVE  /\ lifecycle' \in [Room -> Lifecycles]
         /\ seated' \in [Room -> 0..Seats] /\ serverSeq' \in [Room -> 0..MaxServerSeq]
         /\ ended' \in [Room -> 0..MaxEnded]
<1>1. /\ lifecycle \in [Room -> Lifecycles] /\ seated \in [Room -> 0..Seats]
      /\ serverSeq \in [Room -> 0..MaxServerSeq] /\ ended \in [Room -> 0..MaxEnded]
  BY DEF TypeOK
<1>2. {"Active", "Finished", "Closed"} \subseteq Lifecycles
  BY DEF Lifecycles
<1> Seats \in Nat /\ MaxServerSeq \in Nat /\ MaxEnded \in Nat
  BY ManagerAssumption DEF MaxEnded
<1>3. CASE Join(r)
  <2>1. lifecycle' \in [Room -> Lifecycles]
    BY <1>1, <1>2, <1>3 DEF Join, promise
  <2>2. seated' \in [Room -> 0..Seats]
    BY <1>1, <1>3 DEF Join, promise
  <2> QED
    BY <1>1, <1>3, <2>1, <2>2 DEF Join, promise
<1>4. CASE Play(r)
  <2>1. lifecycle' \in [Room -> Lifecycles]
    BY <1>1, <1>2, <1>4 DEF Play, promise
  <2>2. serverSeq' \in [Room -> 0..MaxServerSeq]
    BY <1>1, <1>4 DEF Play, promise
  <2>3. ended' \in [Room -> 0..MaxEnded]
    BY <1>1, <1>4 DEF Play, promise
  <2> QED
    BY <1>1, <1>4, <2>1, <2>2, <2>3 DEF Play, promise
<1>5. CASE Leave(r)
  <2>1. lifecycle' \in [Room -> Lifecycles]
    BY <1>1, <1>2, <1>5 DEF Leave, promise
  <2>2. seated' \in [Room -> 0..Seats]
    BY <1>1, <1>5 DEF Leave, promise
  <2> QED
    BY <1>1, <1>5, <2>1, <2>2 DEF Leave, promise
<1>6. CASE ForceClose(r)
  BY <1>1, <1>2, <1>6 DEF ForceClose
<1>7. CASE UNCHANGED <<promise, ended>>
  BY <1>1, <1>7 DEF promise
<1> QED
  BY <1>3, <1>4, <1>5, <1>6, <1>7

\* A room's creator has somebody left to seat as long as it is inside Join.
JoinCounted == \A r \in joining : creator[r] > 0

\* Type correctness of the registry, the rooms and the sweep.
THEOREM TypeCorrect == Spec => [](TypeOK /\ JoinCounted)
<1>1. Init => TypeOK /\ JoinCounted
  <2> SUFFICES ASSUME Init
               PROVE  TypeOK /\ JoinCounted
    OBVIOUS
  <2>1. cmdCh \in [Room -> Seq(Commands)]
    BY DEF Init
  <2>2. lifecycle \in [Room -> Lifecycles]
    BY DEF Init, Lifecycles
  <2>3. MaxIdle \in Nat /\ MaxEnded \in Nat
    BY ManagerAssumption DEF MaxIdle, MaxEnded
  <2>4. /\ seated \in [Room -> 0..Seats] /\ serverSeq \in [Room -> 0..MaxServerSeq]
        /\ idle \in [Room -> 0..MaxIdle] /\ ended \in [Room -> 0..MaxEnded]
        /\ creator \in [Room -> 0..Seats] /\ cmds \in 0..MaxCmds /\ now \in 0..MaxSweep
    BY <2>3, ManagerAssumption DEF Init
  <2> QED
    BY <2>1, <2>2, <2>4 DEF Init, TypeOK, JoinCounted
<1>2. TypeOK /\ JoinCounted /\ [Next]_vars => TypeOK' /\ JoinCounted'
  <2> SUFFICES ASSUME TypeOK, JoinCounted, [Next]_vars
               PROVE  TypeOK' /\ JoinCounted'
    OBVIOUS
  <2>0. MaxIdle \in Nat /\ MaxEnded \in Nat /\ MaxSweep \in Nat /\ Seats \in Nat
    BY ManagerAssumption DEF MaxIdle, MaxEnded
  <2>1. ASSUME NEW r \in Room, Create(r)
        PROVE  TypeOK' /\ JoinCounted'
    <3>1. creator' \in [Room -> 0..Seats] /\ JoinCounted'
      BY <2>1, ManagerAssumption DEF Create, TypeOK, JoinCounted
    <3>2. actor' \in [Room -> {"none", "running", "removed", "stopped"}] /\ rooms' \subseteq Room
      BY <2>1 DEF Create, TypeOK
    <3> QED
      BY <2>1, <3>1, <3>2 DEF Create, promise, sweep, TypeOK
  <2>2. ASSUME NEW r \in Room, SendJoin(r)
        PROVE  TypeOK' /\ JoinCounted'
    <3>1. cmdCh' \in [Room -> Seq(Commands)]
      BY <2>2 DEF SendJoin, TypeOK, Commands
    <3> QED
      BY <2>2, <3>1 DEF SendJoin, promise, sweep, TypeOK, JoinCounted
  <2>3. ASSUME NEW r \in Room, JoinReturns(r)
        PROVE  TypeOK' /\ JoinCounted'
    <3>1. creator \in [Room -> 0..Seats] /\ creator[r] > 0
      BY <2>3 DEF JoinReturns, TypeOK, JoinCounted
    <3>2. creator[r] - 1 \in 0..Seats /\ 0 \in 0..Seats
      BY <2>0, <3>1
    <3>3. creator' \in [Room -> 0..Seats] /\ \A s \in Room \ {r} : creator'[s] = creator[s]
      BY <2>3, <3>1, <3>2 DEF JoinReturns
    <3>4. JoinCounted'
      BY <2>3, <3>3 DEF JoinReturns, TypeOK, JoinCounted
    <3> QED
      BY <2>3, <3>3, <3>4 DEF JoinReturns, promise, sweep, TypeOK
  <2>4. ASSUME NEW r \in Room, Submit(r)
        PROVE  TypeOK' /\ JoinCounted'
    <3>1. cmdCh' \in [Room -> Seq(Commands)]
      <4>1. PICK c \in {"play", "leave", "other"} : cmdCh' = [cmdCh EXCEPT ![r] = Append(@, c)]
        BY <2>4 DEF Submit
      <4>2. c \in Commands
        BY DEF Commands
      <4>3. cmdCh \in [Room -> Seq(Commands)]
        BY DEF TypeOK
      <4> QED
        BY <4>1, <4>2, <4>3
    <3>2. cmds' \in 0..MaxCmds
      BY <2>4, ManagerAssumption DEF Submit, TypeOK
    <3> QED
      BY <2>4, <3>1, <3>2 DEF Submit, promise, sweep, creators, TypeOK, JoinCounted
  <2>5. ASSUME NEW r \in Room, Handle(r)
        PROVE  TypeOK' /\ JoinCounted'
    <3>1. Join(r) \/ Play(r) \/ Leave(r) \/ ForceClose(r) \/ UNCHANGED <<promise, ended>>
      BY <2>5 DEF Handle
    <3>2. cmdCh[r] \in Seq(Commands) /\ cmdCh[r] # <<>>
      BY <2>5 DEF Handle, TypeOK
    <3>3. Tail(cmdCh[r]) \in Seq(Commands)
      BY <3>2, HeadTail
    <3>4. cmdCh' \in [Room -> Seq(Commands)]
      BY <2>5, <3>3 DEF Handle, TypeOK
    <3>5. idle' \in [Room -> 0..MaxIdle]
      BY <2>0, <2>5 DEF Handle, TypeOK
    <3>6. /\ lifecycle' \in [Room -> Lifecycles]
          /\ seated' \in [Room -> 0..Seats] /\ serverSeq' \in [Room -> 0..MaxServerSeq]
          /\ ended' \in [Room -> 0..MaxEnded]
      BY <3>1, ChangeType
    <3> QED
      BY <2>5, <3>4, <3>5, <3>6 DEF Handle, creators, sweep, TypeOK, JoinCounted
  <2>6. ASSUME NEW r \in Room, HandleTick(r)
        PROVE  TypeOK' /\ JoinCounted'
    <3>1. /\ lifecycle' \in [Room -> Lifecycles]
          /\ seated' \in [Room -> 0..Seats] /\ serverSeq' \in [Room -> 0..MaxServerSeq]
          /\ ended' \in [Room -> 0..MaxEnded]
      BY <2>6, ChangeType DEF HandleTick
    <3> QED
      BY <2>6, <3>1 DEF HandleTick, creators, sweep, TypeOK, JoinCounted
  <2>7. ASSUME NEW r \in Room, OnClose(r)
        PROVE  TypeOK' /\ JoinCounted'
    BY <2>7 DEF OnClose, promise, creators, sweep, TypeOK, JoinCounted
  <2>8. ASSUME NEW r \in Room, Stop(r)
        PROVE  TypeOK' /\ JoinCounted'
    <3>1. <<"join">> \in Seq(Commands) /\ <<>> \in Seq(Commands)
      BY DEF Commands
    <3>2. cmdCh' \in [Room -> Seq(Commands)]
      BY <2>8, <3>1 DEF Stop, TypeOK
    <3> QED
      BY <2>8, <3>2 DEF Stop, promise, creators, sweep, TypeOK, JoinCounted
  <2>9. CASE StartSweep
    BY <2>9, ManagerAssumption DEF StartSweep, At, promise, creators, TypeOK, JoinCounted
  <2>10. ASSUME NEW r \in Room, AskStatus(r)
         PROVE  TypeOK' /\ JoinCounted'
    BY <2>10 DEF AskStatus, At, promise, creators, TypeOK, JoinCounted
  <2>11. ASSUME NEW r \in Room, AnswerStatus(r)
         PROVE  TypeOK' /\ JoinCounted'
    <3>1. cmdCh' \in [Room -> Seq(Commands)]
      <4>1. "close" \in Commands /\ cmdCh \in [Room -> Seq(Commands)]
        BY DEF Commands, TypeOK
      <4>2. Append(cmdCh[r], "close") \in Seq(Commands)
        BY <4>1
      <4> QED
        BY <2>11, <4>1, <4>2 DEF AnswerStatus
    <3>2. gc' \in [at : {"between", "next", "status", "close"}, room : Room \cup {None}]
      BY <2>11 DEF AnswerStatus, At, TypeOK
    <3> QED
      BY <2>11, <3>1, <3>2 DEF AnswerStatus, promise, creators, TypeOK, JoinCounted
  <2>12. CASE CallEnds
    BY <2>12 DEF CallEnds, At, promise, creators, TypeOK, JoinCounted
  <2>13. CASE EndSweep
    <3>1. gc' = [at |-> "between", room |-> None] /\ now' = 0
      BY <2>13 DEF EndSweep, At
    <3>2. now' \in 0..MaxSweep
      BY <3>1, ManagerAssumption
    <3>3. gc' \in [at : {"between", "next", "status", "close"}, room : Room \cup {None}]
      BY <3>1
    <3> QED
      BY <2>13, <3>2, <3>3 DEF EndSweep, promise, creators, TypeOK, JoinCounted
  <2>14. CASE Shutdown
    BY <2>14 DEF Shutdown, promise, creators, TypeOK, JoinCounted
  <2>15. CASE TimePasses
    <3>1. ASSUME NEW age, NEW max \in Nat, NEW when, age \in [Room -> 0..max]
          PROVE  Older(age, max, when) \in [Room -> 0..max]
      BY <3>1 DEF Older
    <3>2. idle' \in [Room -> 0..MaxIdle] /\ ended' \in [Room -> 0..MaxEnded]
      BY <2>0, <2>15, <3>1 DEF TimePasses, TypeOK
    <3>3. now' \in 0..MaxSweep
      BY <2>0, <2>15 DEF TimePasses, TypeOK
    <3>4. overdue' \subseteq Room
      BY <2>15 DEF TimePasses, TypeOK
    <3> QED
      BY <2>15, <3>2, <3>3, <3>4 DEF TimePasses, promise, creators, TypeOK, JoinCounted
  <2>16. CASE UNCHANGED vars
    BY <2>16 DEF vars, promise, creators, sweep, TypeOK, JoinCounted
  <2> QED
    BY <2>1, <2>2, <2>3, <2>4, <2>5, <2>6, <2>7, <2>8, <2>9, <2>10, <2>11, <2>12, <2>13,
       <2>14, <2>15, <2>16
       DEF Next, CreatorStep, RoomStep, Sweep
<1> QED
  BY <1>1, <1>2, PTL DEF Spec

\* The registry holds exactly the rooms whose actor runs: CreateRoom puts a room into it
\* with its actor started, and only the actor itself takes it out (onClose).
THEOREM RegistryLive == Spec => []RegistryIsLive
<1>1. Init => RegistryIsLive
  BY DEF Init, RegistryIsLive
<1>2. TypeOK /\ RegistryIsLive /\ [Next]_vars => RegistryIsLive'
  <2> SUFFICES ASSUME TypeOK, RegistryIsLive, [Next]_vars
               PROVE  RegistryIsLive'
    OBVIOUS
  <2>1. actor \in [Room -> {"none", "running", "removed", "stopped"}]
    BY DEF TypeOK
  <2>2. CASE UNCHANGED <<rooms, actor>>
    BY <2>2 DEF RegistryIsLive
  <2>3. ASSUME NEW r \in Room, Create(r) \/ OnClose(r) \/ Stop(r)
        PROVE  RegistryIsLive'
    BY <2>1, <2>3 DEF Create, OnClose, Stop, RegistryIsLive
  <2>4. ASSUME NEW r \in Room,
               \/ SendJoin(r) \/ JoinReturns(r) \/ Submit(r) \/ Handle(r) \/ HandleTick(r)
               \/ AskStatus(r) \/ AnswerStatus(r)
        PROVE  UNCHANGED <<rooms, actor>>
    BY <2>4 DEF SendJoin, JoinReturns, Submit, Handle, HandleTick, AskStatus, AnswerStatus
  <2>5. CASE StartSweep \/ CallEnds \/ EndSweep \/ Shutdown \/ TimePasses \/ UNCHANGED vars
    BY <2>2, <2>5 DEF StartSweep, CallEnds, EndSweep, Shutdown, TimePasses, vars
  <2> QED
    BY <2>2, <2>3, <2>4, <2>5 DEF Next, CreatorStep, RoomStep, Sweep
<1> QED
  BY <1>1, <1>2, TypeCorrect, PTL DEF Spec

-----------------------------------------------------------------------------
(***************************************************************************)
(* The sweep                                                                *)
(***************************************************************************)

\* A room whose actor has left its loop is closed.
EndedIsClosed == \A r \in Room : actor[r] \in {"removed", "stopped"} => lifecycle[r] = "Closed"

\* A waiting room that the sweep would find too old has been noted.
LateIsNoted == \A r \in Room : idle[r] > WaitingTTL => r \in overdue

Due(r) == r \in overdue \/ (lifecycle[r] = "Finished" /\ ended[r] > FinishedLinger)

Closes(r) == {i \in 1..Len(cmdCh[r]) : cmdCh[r][i] = "close"}

\* The sweep has sent ForceClose to the room, and is waiting for it or has given up.
Sent(r) == r \notin todo /\ (gc = [at |-> "close", room |-> r] \/ (cancelled /\ gc.room # r))

\* At most one ForceClose is under way to a room, and it is due until it is handled.
CloseIsDue(r) ==
  Closes(r) # {} => /\ actor[r] # "stopped" /\ Due(r) /\ Sent(r)
                    /\ \A i, j \in Closes(r) : i = j

\* The room that the sweep is asking is no longer ahead of it.
AskedOnce == gc.at \in {"status", "close"} => gc.room \notin todo

SweepInv ==
  EndedIsClosed /\ LateIsNoted /\ AskedOnce /\ \A r \in Room : CloseIsDue(r)

\* Sending any other command sends no ForceClose.
LEMMA AppendCloses ==
  ASSUME TypeOK, NEW r \in Room, NEW c \in Commands \ {"close"},
         cmdCh' = [cmdCh EXCEPT ![r] = Append(@, c)]
  PROVE  \A q \in Room : Closes(q)' = Closes(q)
<1> TAKE q \in Room
<1>1. cmdCh \in [Room -> Seq(Commands)]
  BY DEF TypeOK
<1>2. CASE q = r
  <2>1. cmdCh'[q] = Append(cmdCh[q], c) /\ cmdCh[q] \in Seq(Commands)
    BY <1>1, <1>2
  <2> QED
    BY <2>1 DEF Closes
<1>3. CASE q # r
  BY <1>1, <1>3 DEF Closes
<1> QED
  BY <1>2, <1>3

\* Receiving a command leaves the other ones in their order.
LEMMA TailCloses ==
  ASSUME TypeOK, NEW r \in Room, cmdCh[r] # <<>>, cmdCh' = [cmdCh EXCEPT ![r] = Tail(@)]
  PROVE  /\ \A i \in Closes(r)' : i \in Nat /\ i > 0 /\ i + 1 \in Closes(r)
         /\ Head(cmdCh[r]) = "close" => 1 \in Closes(r)
         /\ \A q \in Room \ {r} : Closes(q)' = Closes(q)
<1>1. cmdCh \in [Room -> Seq(Commands)]
  BY DEF TypeOK
<1>2. cmdCh[r] \in Seq(Commands) /\ cmdCh'[r] = Tail(cmdCh[r])
  BY <1>1
<1>3. /\ Len(Tail(cmdCh[r])) = Len(cmdCh[r]) - 1 /\ Len(cmdCh[r]) \in Nat
      /\ Len(cmdCh[r]) > 0 /\ Head(cmdCh[r]) = cmdCh[r][1]
      /\ \A i \in 1..Len(Tail(cmdCh[r])) : Tail(cmdCh[r])[i] = cmdCh[r][i + 1]
  BY <1>2, HeadTail
<1>4. \A i \in Closes(r)' : i \in Nat /\ i > 0 /\ i + 1 \in Closes(r)
  <2> SUFFICES ASSUME NEW i \in Closes(r)'
               PROVE  i \in Nat /\ i > 0 /\ i + 1 \in Closes(r)
    OBVIOUS
  <2>1. i \in 1..Len(Tail(cmdCh[r])) /\ Tail(cmdCh[r])[i] = "close"
    BY <1>2 DEF Closes
  <2>2. i + 1 \in 1..Len(cmdCh[r]) /\ cmdCh[r][i + 1] = "close"
    BY <1>3, <2>1
  <2> QED
    BY <2>1, <2>2 DEF Closes
<1>5. Head(cmdCh[r]) = "close" => 1 \in Closes(r)
  BY <1>3 DEF Closes
<1>6. \A q \in Room \ {r} : Closes(q)' = Closes(q)
  BY <1>1 DEF Closes
<1> QED
  BY <1>4, <1>5, <1>6

\* No command but ForceClose touches a finished room, and no command touches another room.
LEMMA FinishedStays ==
  ASSUME TypeOK, NEW r \in Room,
         Join(r) \/ Play(r) \/ Leave(r) \/ ForceClose(r) \/ UNCHANGED <<promise, ended>>
  PROVE  /\ \A q \in Room \ {r} : lifecycle'[q] = lifecycle[q] /\ ended'[q] = ended[q]
         /\ lifecycle[r] = "Finished"
              => ForceClose(r) \/ (lifecycle'[r] = "Finished" /\ ended'[r] = ended[r])
<1>1. lifecycle \in [Room -> Lifecycles] /\ ended \in [Room -> 0..MaxEnded]
  BY DEF TypeOK
<1>2. \A q \in Room \ {r} : lifecycle'[q] = lifecycle[q] /\ ended'[q] = ended[q]
  BY <1>1 DEF Join, Play, Leave, ForceClose, promise
<1>3. lifecycle[r] = "Finished"
        => ForceClose(r) \/ (lifecycle'[r] = "Finished" /\ ended'[r] = ended[r])
  BY <1>1 DEF Join, Play, Leave, promise
<1> QED
  BY <1>2, <1>3

\* A command that is handled: ForceClose leaves no other one behind it, and any other
\* command leaves a finished room as it is.
LEMMA HandleKeeps ==
  ASSUME TypeOK, SweepInv, NEW r \in Room, Handle(r)
  PROVE  SweepInv'
<1>1. /\ Join(r) \/ Play(r) \/ Leave(r) \/ ForceClose(r) \/ UNCHANGED <<promise, ended>>
      /\ cmdCh[r] # <<>> /\ cmdCh' = [cmdCh EXCEPT ![r] = Tail(@)]
      /\ UNCHANGED <<actor, todo, gc, cancelled, overdue>> /\ actor[r] = "running"
      /\ idle' = [idle EXCEPT ![r] = 0]
  BY DEF Handle, Live, sweep
<1>2. /\ \A i \in Closes(r)' : i \in Nat /\ i > 0 /\ i + 1 \in Closes(r)
      /\ Head(cmdCh[r]) = "close" => 1 \in Closes(r)
      /\ \A q \in Room \ {r} : Closes(q)' = Closes(q)
  BY <1>1, TailCloses
<1>3. /\ \A q \in Room \ {r} : lifecycle'[q] = lifecycle[q] /\ ended'[q] = ended[q]
      /\ lifecycle[r] = "Finished"
           => ForceClose(r) \/ (lifecycle'[r] = "Finished" /\ ended'[r] = ended[r])
  BY <1>1, FinishedStays
<1>4. EndedIsClosed'
  BY <1>1, <1>3 DEF SweepInv, EndedIsClosed
<1>5. LateIsNoted' /\ AskedOnce'
  BY <1>1, ManagerAssumption DEF SweepInv, LateIsNoted, AskedOnce, TypeOK
<1>6. ASSUME NEW q \in Room \ {r}
      PROVE  CloseIsDue(q)'
  BY <1>1, <1>2, <1>3 DEF SweepInv, CloseIsDue, Due, Sent
<1>7. CASE Head(cmdCh[r]) = "close"
  <2>1. Closes(r)' = {}
    <3> SUFFICES ASSUME NEW i \in Closes(r)'
                 PROVE  FALSE
      OBVIOUS
    <3>1. i + 1 = 1 /\ i \in Nat /\ i > 0
      BY <1>2, <1>7 DEF SweepInv, CloseIsDue
    <3> QED
      BY <3>1
  <2>2. CloseIsDue(r)'
    BY <2>1 DEF CloseIsDue
  <2> QED
    BY <1>4, <1>5, <1>6, <2>2 DEF SweepInv
<1>8. CASE Head(cmdCh[r]) # "close"
  <2>1. lifecycle[r] = "Finished" => lifecycle'[r] = "Finished" /\ ended'[r] = ended[r]
    <3>1. Join(r) \/ Play(r) \/ Leave(r) \/ UNCHANGED <<promise, ended>>
      BY <1>8 DEF Handle
    <3> QED
      BY <3>1 DEF Join, Play, Leave, promise
  <2>2. CASE Closes(r)' = {}
    BY <1>4, <1>5, <1>6, <2>2 DEF SweepInv, CloseIsDue
  <2>3. CASE Closes(r)' # {}
    <3>1. PICK i \in Closes(r)' : i + 1 \in Closes(r)
      BY <1>2, <2>3
    <3>2. Due(r) /\ Sent(r) /\ \A k, j \in Closes(r) : k = j
      BY <3>1 DEF SweepInv, CloseIsDue
    <3>3. ASSUME NEW k \in Closes(r)', NEW j \in Closes(r)'
          PROVE  k = j
      <4>1. k + 1 = j + 1 /\ k \in Nat /\ j \in Nat
        BY <1>2, <3>2
      <4> QED
        BY <4>1
    <3>4. Due(r)' /\ Sent(r)'
      BY <1>1, <2>1, <3>2 DEF Due, Sent
    <3>5. CloseIsDue(r)'
      BY <1>1, <3>3, <3>4 DEF CloseIsDue
    <3> QED
      BY <1>4, <1>5, <1>6, <3>5 DEF SweepInv
  <2> QED
    BY <2>2, <2>3
<1> QED
  BY <1>7, <1>8

\* The sweep sends ForceClose to a room that is due, and has sent it none before.
LEMMA AnswerKeeps ==
  ASSUME TypeOK, SweepInv, NEW r \in Room, AnswerStatus(r)
  PROVE  SweepInv'
<1>1. /\ gc = [at |-> "status", room |-> r] /\ actor[r] = "running"
      /\ UNCHANGED <<lifecycle, actor, idle, ended, todo, cancelled, overdue>>
  BY DEF AnswerStatus, Live, promise
<1>2. EndedIsClosed' /\ LateIsNoted' /\ AskedOnce'
  <2>1. EndedIsClosed' /\ LateIsNoted'
    BY <1>1 DEF SweepInv, EndedIsClosed, LateIsNoted
  <2>2. AskedOnce'
    BY <1>1 DEF SweepInv, AskedOnce, AnswerStatus, At
  <2> QED
    BY <2>1, <2>2
<1>3. gc.at = "status" /\ gc.room = r /\ gc # [at |-> "close", room |-> r]
  BY <1>1
<1>4. Closes(r) = {}
  BY <1>3 DEF SweepInv, CloseIsDue, Sent
<1>5. cmdCh \in [Room -> Seq(Commands)]
  BY DEF TypeOK
<1>6. ASSUME NEW q \in Room \ {r}
      PROVE  CloseIsDue(q)'
  <2>1. cmdCh'[q] = cmdCh[q]
    BY <1>5 DEF AnswerStatus
  <2>2. Closes(q)' = Closes(q) /\ Due(q)' = Due(q)
    BY <1>1, <2>1 DEF Closes, Due
  <2>3. Closes(q) # {} => cancelled /\ q \notin todo
    <3>1. gc # [at |-> "close", room |-> q]
      BY <1>3
    <3> QED
      BY <3>1 DEF SweepInv, CloseIsDue, Sent
  <2>4. gc'.room # q
    BY ManagerAssumption DEF AnswerStatus, At
  <2>5. Closes(q) # {} => Sent(q)'
    BY <1>1, <2>3, <2>4 DEF Sent
  <2>6. CloseIsDue(q) /\ actor'[q] = actor[q]
    BY <1>1 DEF SweepInv
  <2> QED
    BY <2>2, <2>5, <2>6 DEF CloseIsDue
<1>7. CASE Expired(r)
  <2>1. gc' = [at |-> "close", room |-> r] /\ cmdCh'[r] = Append(cmdCh[r], "close")
    BY <1>5, <1>7 DEF AnswerStatus, At
  <2>2. r \notin todo'
    BY <1>1, <1>3 DEF SweepInv, AskedOnce
  <2>3. Due(r)'
    BY <1>1, <1>7, ManagerAssumption DEF Due, Expired, SweepInv, LateIsNoted, TypeOK
  <2>4. \A i \in Closes(r)' : i = Len(cmdCh[r]) + 1
    <3> SUFFICES ASSUME NEW i \in Closes(r)', i # Len(cmdCh[r]) + 1
                 PROVE  FALSE
      OBVIOUS
    <3>1. i \in 1..Len(cmdCh'[r]) /\ cmdCh'[r][i] = "close"
      BY DEF Closes
    <3>2. cmdCh[r] \in Seq(Commands)
      BY <1>5
    <3>3. i \in 1..Len(cmdCh[r]) /\ cmdCh[r][i] = "close"
      BY <2>1, <3>1, <3>2
    <3> QED
      BY <1>4, <3>3 DEF Closes
  <2> QED
    BY <1>1, <1>2, <1>6, <2>1, <2>2, <2>3, <2>4 DEF SweepInv, CloseIsDue, Sent
<1>8. CASE ~Expired(r)
  <2>1. UNCHANGED cmdCh
    BY <1>8 DEF AnswerStatus
  <2>2. CloseIsDue(r)'
    BY <1>4, <2>1 DEF CloseIsDue, Closes
  <2> QED
    BY <1>2, <1>6, <2>2 DEF SweepInv
<1> QED
  BY <1>7, <1>8

\* The inductive invariant of the sweep.
THEOREM SweepInvariant == Spec => []SweepInv
<1>1. Init => SweepInv
  <2> SUFFICES ASSUME Init
               PROVE  SweepInv
    OBVIOUS
  <2>1. \A r \in Room : Closes(r) = {}
    BY DEF Init, Closes
  <2>2. LateIsNoted
    BY ManagerAssumption DEF Init, LateIsNoted
  <2> QED
    BY <2>1, <2>2 DEF Init, SweepInv, EndedIsClosed, CloseIsDue, AskedOnce
<1>2. TypeOK /\ SweepInv /\ [Next]_vars => SweepInv'
  <2> SUFFICES ASSUME TypeOK, SweepInv, [Next]_vars
               PROVE  SweepInv'
    OBVIOUS
  <2>1. ASSUME \A r \in Room : Closes(r)' = Closes(r),
               UNCHANGED <<lifecycle, actor, idle, ended, sweep, overdue>>
        PROVE  SweepInv'
    <3>1. EndedIsClosed' /\ LateIsNoted' /\ AskedOnce'
      BY <2>1 DEF SweepInv, EndedIsClosed, LateIsNoted, AskedOnce, sweep
    <3>2. ASSUME NEW r \in Room
          PROVE  CloseIsDue(r)'
      <4>1. Due(r)' = Due(r) /\ Sent(r)' = Sent(r) /\ actor'[r] = actor[r]
        BY <2>1 DEF Due, Sent, sweep
      <4> QED
        BY <2>1, <4>1 DEF SweepInv, CloseIsDue
    <3> QED
      BY <3>1, <3>2 DEF SweepInv
  <2>2. ASSUME UNCHANGED cmdCh
        PROVE  \A r \in Room : Closes(r)' = Closes(r)
    BY <2>2 DEF Closes
  <2>3. ASSUME NEW r \in Room, Create(r)
        PROVE  SweepInv'
    <3>1. actor \in [Room -> {"none", "running", "removed", "stopped"}]
      BY DEF TypeOK
    <3>2. EndedIsClosed' /\ LateIsNoted' /\ AskedOnce'
      BY <2>3, <3>1 DEF SweepInv, Create, promise, sweep, EndedIsClosed, LateIsNoted, AskedOnce
    <3>3. ASSUME NEW q \in Room
          PROVE  CloseIsDue(q)'
      <4>1. Due(q)' = Due(q) /\ Sent(q)' = Sent(q) /\ Closes(q)' = Closes(q)
        BY <2>3 DEF Create, promise, sweep, Due, Sent, Closes
      <4>2. actor[q] # "stopped" => actor'[q] # "stopped"
        BY <2>3, <3>1 DEF Create
      <4> QED
        BY <4>1, <4>2 DEF SweepInv, CloseIsDue
    <3> QED
      BY <3>2, <3>3 DEF SweepInv
  <2>4. ASSUME NEW r \in Room, SendJoin(r)
        PROVE  SweepInv'
    <3>1. \A q \in Room : Closes(q)' = Closes(q)
      BY <2>4, AppendCloses DEF SendJoin, Commands
    <3> QED
      BY <2>1, <2>4, <3>1 DEF SendJoin, promise
  <2>5. ASSUME NEW r \in Room, JoinReturns(r)
        PROVE  SweepInv'
    BY <2>1, <2>2, <2>5 DEF JoinReturns, promise
  <2>6. ASSUME NEW r \in Room, Submit(r)
        PROVE  SweepInv'
    <3>1. PICK c \in {"play", "leave", "other"} : cmdCh' = [cmdCh EXCEPT ![r] = Append(@, c)]
      BY <2>6 DEF Submit
    <3>2. \A q \in Room : Closes(q)' = Closes(q)
      BY <3>1, AppendCloses DEF Commands
    <3> QED
      BY <2>1, <2>6, <3>2 DEF Submit, promise
  <2>7. ASSUME NEW r \in Room, HandleTick(r)
        PROVE  SweepInv'
    <3>1. /\ \A q \in Room \ {r} : lifecycle'[q] = lifecycle[q] /\ ended'[q] = ended[q]
          /\ lifecycle[r] = "Finished" => lifecycle'[r] = "Finished" /\ ended'[r] = ended[r]
      <4>1. lifecycle \in [Room -> Lifecycles] /\ ended \in [Room -> 0..MaxEnded]
        BY DEF TypeOK
      <4> QED
        BY <2>7, <4>1 DEF HandleTick, Play, promise
    <3>2. /\ actor[r] = "running"
          /\ UNCHANGED <<actor, cmdCh, idle, gc, todo, now, cancelled, overdue>>
      BY <2>7 DEF HandleTick, Live, sweep
    <3>3. EndedIsClosed' /\ LateIsNoted' /\ AskedOnce'
      BY <3>1, <3>2 DEF SweepInv, EndedIsClosed, LateIsNoted, AskedOnce
    <3>4. ASSUME NEW q \in Room
          PROVE  CloseIsDue(q)'
      <4>1. Due(q) => Due(q)'
        BY <3>1, <3>2 DEF Due
      <4>2. Sent(q)' = Sent(q) /\ Closes(q)' = Closes(q) /\ actor'[q] = actor[q]
        BY <3>2 DEF Sent, Closes
      <4> QED
        BY <4>1, <4>2 DEF SweepInv, CloseIsDue
    <3> QED
      BY <3>3, <3>4 DEF SweepInv
  <2>8. ASSUME NEW r \in Room, OnClose(r) \/ Stop(r)
        PROVE  SweepInv'
    <3>1. /\ actor \in [Room -> {"none", "running", "removed", "stopped"}]
          /\ cmdCh \in [Room -> Seq(Commands)]
      BY DEF TypeOK
    <3>2. lifecycle[r] = "Closed" /\ \A q \in Room \ {r} : actor'[q] = actor[q]
      BY <2>8, <3>1 DEF OnClose, Stop, SweepInv, EndedIsClosed
    <3>3. UNCHANGED <<lifecycle, idle, ended, gc, todo, cancelled, overdue>>
      BY <2>8 DEF OnClose, Stop, promise, sweep
    <3>4. EndedIsClosed' /\ LateIsNoted' /\ AskedOnce'
      BY <3>2, <3>3 DEF SweepInv, EndedIsClosed, LateIsNoted, AskedOnce
    <3>5. ASSUME NEW q \in Room
          PROVE  Due(q)' = Due(q) /\ Sent(q)' = Sent(q)
      BY <3>3 DEF Due, Sent
    <3>6. ASSUME NEW q \in Room \ {r}
          PROVE  CloseIsDue(q)'
      <4>1. Closes(q)' = Closes(q)
        BY <2>8, <3>1 DEF OnClose, Stop, Closes
      <4> QED
        BY <3>2, <3>5, <4>1 DEF SweepInv, CloseIsDue
    <3>7. CloseIsDue(r)'
      <4>1. CASE OnClose(r)
        <5>1. Closes(r)' = Closes(r) /\ actor'[r] = "removed"
          BY <3>1, <4>1 DEF OnClose, Closes
        <5> QED
          BY <3>5, <5>1 DEF SweepInv, CloseIsDue
      <4>2. CASE Stop(r)
        <5>1. cmdCh'[r] = <<"join">> \/ cmdCh'[r] = <<>>
          BY <3>1, <4>2 DEF Stop
        <5>2. Closes(r)' = {}
          BY <5>1 DEF Closes
        <5> QED
          BY <5>2 DEF CloseIsDue
      <4> QED
        BY <2>8, <4>1, <4>2
    <3> QED
      BY <3>4, <3>6, <3>7 DEF SweepInv
  <2>9. ASSUME UNCHANGED <<lifecycle, actor, cmdCh, idle, ended, overdue>>, AskedOnce',
               \A q \in Room : Closes(q) # {} /\ Sent(q) => Sent(q)'
        PROVE  SweepInv'
    <3>1. EndedIsClosed' /\ LateIsNoted'
      BY <2>9 DEF SweepInv, EndedIsClosed, LateIsNoted
    <3>2. ASSUME NEW q \in Room
          PROVE  CloseIsDue(q)'
      <4>1. Due(q)' = Due(q) /\ Closes(q)' = Closes(q) /\ actor'[q] = actor[q]
        BY <2>9 DEF Due, Closes
      <4> QED
        BY <2>9, <4>1 DEF SweepInv, CloseIsDue
    <3> QED
      BY <2>9, <3>1, <3>2 DEF SweepInv
  <2>10. CASE StartSweep
    <3>1. /\ UNCHANGED <<lifecycle, actor, cmdCh, idle, ended, overdue>> /\ AskedOnce'
          /\ gc.at = "between" /\ ~cancelled
      BY <2>10 DEF StartSweep, At, promise, AskedOnce
    <3>2. ASSUME NEW q \in Room
          PROVE  ~Sent(q)
      BY <3>1 DEF Sent
    <3> QED
      BY <2>9, <3>1, <3>2
  <2>11. ASSUME NEW r \in Room, AskStatus(r)
         PROVE  SweepInv'
    <3>1. /\ UNCHANGED <<lifecycle, actor, cmdCh, idle, ended, overdue>>
          /\ gc.at = "next" /\ r \in todo /\ gc' = [at |-> "status", room |-> r]
          /\ todo' = todo \ {r} /\ UNCHANGED cancelled
      BY <2>11 DEF AskStatus, At, promise
    <3>2. AskedOnce'
      BY <3>1 DEF AskedOnce
    <3>3. ASSUME NEW q \in Room, Sent(q)
          PROVE  Sent(q)'
      BY <3>1, <3>3 DEF Sent
    <3> QED
      BY <2>9, <3>1, <3>2, <3>3
  <2>12. CASE CallEnds
    <3>1. /\ UNCHANGED <<lifecycle, actor, cmdCh, idle, ended, overdue, todo, cancelled>>
          /\ gc' = [at |-> "next", room |-> None] /\ AskedOnce'
      BY <2>12 DEF CallEnds, At, promise, AskedOnce
    <3>2. ASSUME NEW q \in Room, Closes(q) # {}, Sent(q)
          PROVE  Sent(q)'
      <4>1. actor[q] # "stopped" /\ "close" \in Range(cmdCh[q])
        BY <3>2 DEF SweepInv, CloseIsDue, Closes, Range
      <4>2. cancelled
        BY <2>12, <3>2, <4>1 DEF CallEnds, Sent
      <4> QED
        BY <3>1, <3>2, <4>2, ManagerAssumption DEF Sent
    <3> QED
      BY <2>9, <3>1, <3>2
  <2>13. CASE EndSweep
    <3>1. /\ UNCHANGED <<lifecycle, actor, cmdCh, idle, ended, overdue, todo, cancelled>>
          /\ gc.at = "next" /\ gc' = [at |-> "between", room |-> None] /\ AskedOnce'
      BY <2>13 DEF EndSweep, At, promise, AskedOnce
    <3>2. ASSUME NEW q \in Room, Sent(q)
          PROVE  Sent(q)'
      BY <3>1, <3>2, ManagerAssumption DEF Sent
    <3> QED
      BY <2>9, <3>1, <3>2
  <2>14. CASE Shutdown
    <3>1. /\ UNCHANGED <<lifecycle, actor, cmdCh, idle, ended, overdue, todo, gc>> /\ cancelled'
      BY <2>14 DEF Shutdown, promise
    <3>2. AskedOnce'
      BY <3>1 DEF SweepInv, AskedOnce
    <3>3. ASSUME NEW q \in Room, Sent(q)
          PROVE  Sent(q)'
      BY <3>1, <3>3 DEF Sent
    <3> QED
      BY <2>9, <3>1, <3>2, <3>3
  <2>15. CASE TimePasses
    <3>1. UNCHANGED <<lifecycle, actor, cmdCh, gc, todo, cancelled>> /\ overdue \subseteq overdue'
      BY <2>15 DEF TimePasses, promise
    <3>2. /\ idle \in [Room -> 0..MaxIdle] /\ ended \in [Room -> 0..MaxEnded]
          /\ MaxIdle \in Nat /\ MaxEnded \in Nat
      BY ManagerAssumption DEF TypeOK, MaxIdle, MaxEnded
    <3>3. EndedIsClosed' /\ AskedOnce'
      BY <3>1 DEF SweepInv, EndedIsClosed, AskedOnce
    <3>4. LateIsNoted'
      <4> SUFFICES ASSUME NEW q \in Room, idle'[q] > WaitingTTL
                   PROVE  q \in overdue'
        BY DEF LateIsNoted
      <4>1. CASE q \in rooms /\ lifecycle[q] = "Waiting"
        BY <2>15, <4>1 DEF TimePasses
      <4>2. CASE ~(q \in rooms /\ lifecycle[q] = "Waiting")
        <5>1. idle'[q] = idle[q]
          BY <2>15, <3>2, <4>2 DEF TimePasses, Older
        <5> QED
          BY <3>1, <5>1 DEF SweepInv, LateIsNoted
      <4> QED
        BY <4>1, <4>2
    <3>5. ASSUME NEW q \in Room
          PROVE  CloseIsDue(q)'
      <4>1. ended[q] \in Int /\ (ended'[q] = ended[q] \/ ended'[q] = ended[q] + 1)
        BY <2>15, <3>2 DEF TimePasses, Older
      <4>2. Due(q) => Due(q)'
        BY <3>1, <4>1, ManagerAssumption DEF Due
      <4>3. Sent(q)' = Sent(q) /\ Closes(q)' = Closes(q) /\ actor'[q] = actor[q]
        BY <3>1 DEF Sent, Closes
      <4> QED
        BY <4>2, <4>3 DEF SweepInv, CloseIsDue
    <3> QED
      BY <3>3, <3>4, <3>5 DEF SweepInv
  <2>16. CASE UNCHANGED vars
    BY <2>1, <2>2, <2>16 DEF vars, promise
  <2> QED
    BY <2>3, <2>4, <2>5, <2>6, <2>7, <2>8, <2>10, <2>11, <2>12, <2>13, <2>14, <2>15, <2>16,
       HandleKeeps, AnswerKeeps
       DEF Next, CreatorStep, RoomStep, Sweep
<1> QED
  BY <1>1, <1>2, TypeCorrect, PTL DEF Spec

\* The sweep ends a running game only if it started after its room had waited for longer
\* than WaitingTTL, and leaves a finished room alone for FinishedLinger: the action
\* property, for any number of rooms in a sweep and however long the sweep takes.
THEOREM SweepDue == Spec => SweepIsDue
<1>1. TypeOK /\ SweepInv /\ [Next]_vars
        => [\A r \in Room :
              cmdCh[r] # <<>> /\ Head(cmdCh[r]) = "close" /\ cmdCh'[r] = Tail(cmdCh[r])
              => r \in overdue \/ (lifecycle[r] = "Finished" /\ ended[r] > FinishedLinger)]_vars
  <2> SUFFICES ASSUME TypeOK, SweepInv, NEW r \in Room,
                      cmdCh[r] # <<>>, Head(cmdCh[r]) = "close"
               PROVE  r \in overdue \/ (lifecycle[r] = "Finished" /\ ended[r] > FinishedLinger)
    OBVIOUS
  <2>1. cmdCh[r] \in Seq(Commands)
    BY DEF TypeOK
  <2>2. 1 \in 1..Len(cmdCh[r]) /\ cmdCh[r][1] = "close"
    BY <2>1, HeadTail
  <2> QED
    BY <2>2 DEF SweepInv, CloseIsDue, Closes, Due
<1> QED
  BY <1>1, TypeCorrect, SweepInvariant, PTL DEF Spec, SweepIsDue

\* Whatever CreateRoom, the sweep and the other callers do, each room takes only steps
\* that RoomLifecycle, the promise of room.go, allows.
THEOREM RoomsKeepPromise == Spec => KeepsPromise
<1>1. TypeOK /\ SweepInv /\ [Next]_vars
        => [\A r \in Room : Promise(r)!Next \/ UNCHANGED Promise(r)!vars]_vars
  <2> SUFFICES ASSUME TypeOK, SweepInv, Next, NEW r \in Room
               PROVE  Promise(r)!Next \/ UNCHANGED Promise(r)!vars
    OBVIOUS
  <2> DEFINE Goal == Promise(r)!Next \/ UNCHANGED Promise(r)!vars
  <2>0. /\ lifecycle \in [Room -> Lifecycles] /\ seated \in [Room -> 0..Seats]
        /\ serverSeq \in [Room -> 0..MaxServerSeq]
        /\ actor \in [Room -> {"none", "running", "removed", "stopped"}]
    BY DEF TypeOK
  <2>1. ASSUME lifecycle'[r] = lifecycle[r], seated'[r] = seated[r],
               serverSeq'[r] = serverSeq[r],
               (actor'[r] = "stopped") = (actor[r] = "stopped")
        PROVE  Goal
    BY <2>1 DEF Promise!vars
  <2>2. ASSUME UNCHANGED promise, UNCHANGED actor
        PROVE  Goal
    BY <2>1, <2>2 DEF promise
  <2>3. ASSUME NEW q \in Room, UNCHANGED actor, lifecycle[q] # "Closed",
               Join(q) \/ Play(q) \/ Leave(q) \/ ForceClose(q) \/ UNCHANGED <<promise, ended>>
        PROVE  Goal
    <3>1. CASE q # r
      <4>1. lifecycle'[r] = lifecycle[r]
        BY <2>0, <2>3, <3>1 DEF Join, Play, Leave, ForceClose, promise
      <4>2. seated'[r] = seated[r] /\ serverSeq'[r] = serverSeq[r]
        BY <2>0, <2>3, <3>1 DEF Join, Play, Leave, ForceClose, promise
      <4> QED
        BY <2>1, <2>3, <4>1, <4>2
    <3>2. CASE q = r /\ Join(r) /\ ~UNCHANGED promise
      <4>1. /\ lifecycle[r] = "Waiting" /\ seated[r] < Seats /\ seated'[r] = seated[r] + 1
            /\ serverSeq'[r] = serverSeq[r]
            /\ lifecycle'[r] = lifecycle[r] \/ (seated'[r] = Seats /\ lifecycle'[r] = "Active")
        BY <2>0, <3>2 DEF Join, promise
      <4>2. seated'[r] >= Seats \/ lifecycle'[r] = lifecycle[r]
        BY <4>1, ManagerAssumption
      <4>3. Promise(r)!Seat
        BY <2>3, <4>1, <4>2 DEF Promise!Seat
      <4> QED
        BY <4>3 DEF Promise!Next
    <3>3. CASE q = r /\ Play(r) /\ ~UNCHANGED promise
      <4>1. /\ lifecycle[r] = "Active" /\ serverSeq'[r] = serverSeq[r] + 1
            /\ lifecycle'[r] \in {"Active", "Finished"} /\ seated'[r] = seated[r]
        BY <2>0, <3>3 DEF Play, promise
      <4>2. Promise(r)!Play
        BY <2>3, <4>1 DEF Promise!Play
      <4> QED
        BY <4>2 DEF Promise!Next
    <3>4. CASE q = r /\ Leave(r) /\ ~UNCHANGED promise
      <4>1. /\ lifecycle[r] = "Waiting" /\ seated[r] > 0 /\ seated'[r] = seated[r] - 1
            /\ lifecycle'[r] = (IF seated[r] = 1 THEN "Closed" ELSE "Waiting")
            /\ serverSeq'[r] = serverSeq[r]
        BY <2>0, <3>4 DEF Leave, promise
      <4>2. Promise(r)!Vacate
        BY <2>3, <4>1 DEF Promise!Vacate
      <4> QED
        BY <4>2 DEF Promise!Next
    <3>5. CASE q = r /\ ForceClose(r)
      <4>1. /\ lifecycle'[r] = "Closed" /\ seated'[r] = seated[r]
            /\ serverSeq'[r] = serverSeq[r]
        BY <2>0, <3>5 DEF ForceClose
      <4>2. Promise(r)!Close
        BY <2>3, <3>5, <4>1 DEF Promise!Close
      <4> QED
        BY <4>2 DEF Promise!Next
    <3>6. CASE UNCHANGED promise
      BY <2>2, <2>3, <3>6
    <3> HIDE DEF Goal
    <3> QED
      BY <2>3, <3>1, <3>2, <3>3, <3>4, <3>5, <3>6
  <2>4. ASSUME NEW q \in Room, Handle(q) \/ HandleTick(q)
        PROVE  Goal
    <3>1. /\ UNCHANGED actor /\ lifecycle[q] # "Closed"
          /\ \/ Join(q) \/ Play(q) \/ Leave(q) \/ ForceClose(q)
             \/ UNCHANGED <<promise, ended>>
      BY <2>4 DEF Handle, HandleTick, Live
    <3> HIDE DEF Goal
    <3> QED
      BY <2>3, <3>1
  <2>5. ASSUME NEW q \in Room, Create(q) \/ OnClose(q)
        PROVE  Goal
    <3>1. UNCHANGED promise /\ (actor'[r] = "stopped") = (actor[r] = "stopped")
      BY <2>0, <2>5 DEF Create, OnClose
    <3> HIDE DEF Goal
    <3> QED
      BY <2>1, <3>1 DEF promise
  <2>6. ASSUME NEW q \in Room, Stop(q)
        PROVE  Goal
    <3>1. UNCHANGED promise /\ actor[q] = "removed" /\ lifecycle[q] = "Closed"
      BY <2>6 DEF Stop, SweepInv, EndedIsClosed
    <3>2. CASE q = r
      <4>1. actor'[r] = "stopped"
        BY <2>0, <2>6, <3>2 DEF Stop
      <4>2. Promise(r)!Stop
        BY <3>1, <3>2, <4>1 DEF Promise!Stop, promise
      <4> QED
        BY <4>2 DEF Promise!Next
    <3>3. CASE q # r
      <4>1. actor'[r] = actor[r]
        BY <2>0, <2>6, <3>3 DEF Stop
      <4> HIDE DEF Goal
      <4> QED
        BY <2>1, <3>1, <4>1 DEF promise
    <3> HIDE DEF Goal
    <3> QED
      BY <3>2, <3>3
  <2>7. ASSUME NEW q \in Room,
               SendJoin(q) \/ JoinReturns(q) \/ Submit(q) \/ AskStatus(q) \/ AnswerStatus(q)
        PROVE  UNCHANGED promise /\ UNCHANGED actor
    BY <2>7 DEF SendJoin, JoinReturns, Submit, AskStatus, AnswerStatus
  <2>8. ASSUME StartSweep \/ CallEnds \/ EndSweep \/ Shutdown \/ TimePasses
        PROVE  UNCHANGED promise /\ UNCHANGED actor
    BY <2>8 DEF StartSweep, CallEnds, EndSweep, Shutdown, TimePasses
  <2> HIDE DEF Goal
  <2>9. Goal
    BY <2>2, <2>4, <2>5, <2>6, <2>7, <2>8 DEF Next, CreatorStep, RoomStep, Sweep
  <2> QED
    BY <2>9 DEF Goal
<1> QED
  BY <1>1, TypeCorrect, SweepInvariant, PTL DEF Spec, KeepsPromise

=============================================================================
