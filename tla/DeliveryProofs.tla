--------------------------- MODULE DeliveryProofs ---------------------------
(***************************************************************************)
(* Proofs about Delivery, for any number of connections, any capacities,    *)
(* and whether or not the game changes while a player is resumed.           *)
(***************************************************************************)
EXTENDS Delivery, TLAPS

\* Most steps need no arithmetic; the others name SMT.
USE Zenon

\* What the operators on sequences do.
LEMMA AppendFacts ==
  ASSUME NEW S, NEW s \in Seq(S), NEW x \in S
  PROVE  /\ Append(s, x) \in Seq(S) /\ Len(Append(s, x)) = Len(s) + 1
         /\ \A i \in 1..Len(s) : Append(s, x)[i] = s[i]
         /\ Append(s, x)[Len(s) + 1] = x
  BY SMT

\* Head and Tail take the first element off a sequence.
LEMMA HeadTailFacts ==
  ASSUME NEW S, NEW s \in Seq(S), s # <<>>
  PROVE  /\ Head(s) = s[1] /\ Head(s) \in S /\ Tail(s) \in Seq(S)
         /\ Len(s) \in Nat \ {0} /\ Len(Tail(s)) = Len(s) - 1
         /\ \A i \in 1..(Len(s) - 1) : Tail(s)[i] = s[i + 1]
  BY SMT

\* A function on 1..n is a sequence.
LEMMA FunctionIsSeq ==
  ASSUME NEW S, NEW n \in Nat, NEW f \in [1..n -> S]
  PROVE  f \in Seq(S) /\ Len(f) = n
  BY SMT

\* The goroutine waits for an answer that has not come.
Waits(g) == pc[g] = "wait" /\ box[g] = None

\* A queued command has its caller waiting for it, and for nothing else, or nobody.
QueueIsOwn ==
  \A i \in DOMAIN cmdCh :
    cmdCh[i].from # None =>
      /\ Waits(cmdCh[i].from) /\ call[cmdCh[i].from] = cmdCh[i].kind
      /\ \A j \in DOMAIN cmdCh : i # j => cmdCh[j].from # cmdCh[i].from

\* The same of the command whose broadcast is under way.
EventIsOwn ==
  /\ pc[Room] = "loop" <=> event = None
  /\ event # None /\ event.from # None
       => Waits(event.from) /\ \A i \in DOMAIN cmdCh : cmdCh[i].from # event.from

\* An answer is there for whoever goes on to use it, and a Reconnect never fails.
BoxIsOwn(g) ==
  /\ box[g] # None => pc[g] \in {"wait", "register", "snapshot"}
  /\ box[g] = Err => pc[g] = "wait" /\ call[g] # "reconnect"
  /\ pc[g] \in {"register", "snapshot"} => box[g] # None
  /\ pc[g] = "send" => call[g] # None
  /\ call[g] = "reconnect" => \E c \in Conn : g = Read(c)

\* The actor calls its own room only to disconnect the client it closes.
ActorIsOwn ==
  /\ pc[Room] \in {"loop", "broadcast", "send", "wait", "once"}
  /\ pc[Room] \in {"send", "wait"} => call[Room] = "disconnect"
  /\ pc[Room] \in {"send", "wait", "once"} => victim \in Conn

\* The room has let the player back in, and the connection is about to be registered.
Back(c) ==
  \/ pc[Read(c)] = "register"
  \/ pc[Read(c)] = "wait" /\ call[Read(c)] = "reconnect" /\ box[Read(c)] # None
  \/ event # None /\ event.from = Read(c) /\ call[Read(c)] = "reconnect"

\* Whoever is connected has a registration, gets it, or is about to be disconnected; and
\* a queued Reconnect has the player's read pump waiting for it.
Present ==
  /\ \A c \in connected : c \in hub \/ Leaving(c) \/ Back(c)
  /\ \A i \in DOMAIN cmdCh : cmdCh[i].kind = "reconnect" => cmdCh[i].from = Read(cmdCh[i].player)

\* Nobody gives up on a Reconnect.
Patient == "reconnect" \notin TimesOut

\* Every call that somebody waits for is under way in exactly one place.
Calling == QueueIsOwn /\ EventIsOwn /\ ActorIsOwn /\ \A g \in Goroutine : BoxIsOwn(g)

\* The inductive invariant behind the theorems; the second needs Present besides, the third Feeding.
DeliveryInv == TypeOK /\ Calling

\* Goroutines have different names.
LEMMA Names ==
  /\ Room \in Goroutine /\ None \notin Goroutine
  /\ \A c \in Conn : /\ Read(c) \in Goroutine /\ Write(c) \in Goroutine
                     /\ Read(c) # Room /\ Write(c) # Room
                     /\ Read(c)[1] = c /\ Write(c)[1] = c
                     /\ \A d \in Conn : Read(c) # Write(d) /\ (Read(c) = Read(d) => c = d)
  /\ \A g \in Goroutine : g # Room => g[1] \in Conn
<1>1. None \notin Goroutine
  BY DeliveryAssumption
<1> QED
  BY <1>1 DEF Goroutine, Room, Read, Write

-----------------------------------------------------------------------------
(***************************************************************************)
(* Close and enqueue                                                        *)
(***************************************************************************)

\* What Close does to whoever runs it, and to the registrations.
LEMMA CloseFacts ==
  ASSUME TypeOK, NEW g \in Goroutine, NEW c \in Conn, NEW at \in [Goroutine -> Steps],
         Close(g, c, at)
  PROVE  /\ once' \in [Conn -> {"open", "closing", "closed"}]
         /\ hub' \subseteq hub
         /\ pc' \in [Goroutine -> Steps] /\ pc'[g] \in {"send", "once", After(g)}
         /\ \A h \in Goroutine \ {g} : pc'[h] = at[h]
         /\ call' \in [Goroutine -> Calls \cup {None}] /\ call'[g] \in {"disconnect", None}
         /\ \A h \in Goroutine \ {g} : call'[h] = call[h]
         /\ pc'[g] = "send" => call'[g] = "disconnect"
         /\ \A d \in hub : d \in hub' \/ (d = c /\ pc'[g] = "send")
<1>1. once \in [Conn -> {"open", "closing", "closed"}] /\ call \in [Goroutine -> Calls \cup {None}]
      /\ hub \subseteq inRoom
  BY DEF TypeOK
<1>2. {"send", "once", After(g)} \subseteq Steps /\ "disconnect" \in Calls
  BY DEF After, Steps, Calls
<1> HIDE DEF Steps, Calls
<1>3. CASE once[c] = "open" /\ c \in inRoom
  <2>1. /\ once' = [once EXCEPT ![c] = "closing"] /\ hub' = hub \ {c}
        /\ pc' = [at EXCEPT ![g] = "send"] /\ call' = [call EXCEPT ![g] = "disconnect"]
    BY <1>3 DEF Close, Idle
  <2> QED
    BY <1>1, <1>2, <2>1
<1>4. CASE ~(once[c] = "open" /\ c \in inRoom)
  <2>1. /\ once' = once \/ once' = [once EXCEPT ![c] = "closed"]
        /\ hub' = hub /\ call' = [call EXCEPT ![g] = None]
        /\ pc' = [at EXCEPT ![g] = After(g)] \/ pc' = [at EXCEPT ![g] = "once"]
    BY <1>4 DEF Close, Idle
  <2>2. After(g) # "send"
    BY DEF After
  <2> QED
    BY <1>1, <1>2, <2>1, <2>2, SMT
<1> QED
  BY <1>3, <1>4

\* A message takes a place in the send channel, or its connection is closed.
LEMMA EnqueueFacts ==
  ASSUME TypeOK, NEW g \in Goroutine, NEW c \in Conn, NEW m \in Message,
         NEW at \in [Goroutine -> Steps], NEW next \in Steps \ {"send"},
         Enqueue(g, c, m, at, next)
  PROVE  /\ once' \in [Conn -> {"open", "closing", "closed"}]
         /\ hub' \subseteq hub
         /\ pc' \in [Goroutine -> Steps] /\ pc'[g] \in {"send", "once", After(g), next}
         /\ \A h \in Goroutine \ {g} : pc'[h] = at[h]
         /\ call' \in [Goroutine -> Calls \cup {None}] /\ call'[g] \in {"disconnect", None}
         /\ \A h \in Goroutine \ {g} : call'[h] = call[h]
         /\ pc'[g] = "send" => call'[g] = "disconnect"
         /\ \A d \in hub : d \in hub' \/ (d = c /\ pc'[g] = "send")
         /\ send' \in [Conn -> Seq(Message)] /\ \A d \in Conn : Len(send'[d]) <= SendCap
<1>1. /\ send \in [Conn -> Seq(Message)] /\ \A d \in Conn : Len(send[d]) <= SendCap
      /\ once \in [Conn -> {"open", "closing", "closed"}]
      /\ call \in [Goroutine -> Calls \cup {None}]
  BY DEF TypeOK
<1>2. CASE Len(send[c]) < SendCap /\ send' = [send EXCEPT ![c] = Append(@, m)]
           /\ pc' = [at EXCEPT ![g] = next] /\ UNCHANGED <<once, hub>> /\ Idle(g)
  <2>1. send[c] \in Seq(Message) /\ Append(send[c], m) \in Seq(Message)
        /\ Len(Append(send[c], m)) = Len(send[c]) + 1
    BY <1>1, AppendFacts, SMT
  <2>2. Len(Append(send[c], m)) <= SendCap
    BY <1>2, <2>1, DeliveryAssumption, SMT
  <2>3. send' \in [Conn -> Seq(Message)] /\ \A d \in Conn : Len(send'[d]) <= SendCap
    BY <1>1, <1>2, <2>1, <2>2
  <2>4. call' = [call EXCEPT ![g] = None]
    BY <1>2 DEF Idle
  <2> HIDE DEF Steps, Calls, Message
  <2> QED
    BY <1>1, <1>2, <2>3, <2>4
<1>3. CASE Close(g, c, at) /\ UNCHANGED send
  BY <1>1, <1>3, CloseFacts, SMT
<1> QED
  BY <1>2, <1>3 DEF Enqueue

-----------------------------------------------------------------------------
(***************************************************************************)
(* Steps of one goroutine                                                   *)
(***************************************************************************)

\* The queue and the broadcast are as they were, except that nobody waits for the answer
\* to a call of g any more.
Dropped(g) ==
  /\ DOMAIN cmdCh' = DOMAIN cmdCh
  /\ \A i \in DOMAIN cmdCh :
       /\ cmdCh'[i].kind = cmdCh[i].kind /\ cmdCh'[i].player = cmdCh[i].player
       /\ cmdCh'[i].from = cmdCh[i].from \/ (cmdCh[i].from = g /\ cmdCh'[i].from = None)
       /\ cmdCh'[i].from # g
  /\ event' = None <=> event = None
  /\ event # None =>
       /\ event'.from = event.from \/ (event.from = g /\ event'.from = None)
       /\ event'.from # g

\* The other goroutines stay where they are; a write pump may be started.
OnlyMoves(g) ==
  \A h \in Goroutine \ {g} :
    /\ call'[h] = call[h] /\ box'[h] = box[h]
    /\ pc'[h] = pc[h] \/ (pc[h] = "off" /\ pc'[h] = "idle")

\* The actor moves within a broadcast; nobody else changes what it is about.
ActorMoves(g) ==
  IF g = Room THEN ActorIsOwn' /\ pc[Room] # "loop" /\ pc'[Room] # "loop" ELSE victim' = victim

\* What the step of g, in a call or between calls, has to do with presence.
PresenceMoves(g) ==
  /\ connected' = connected /\ pc[g] # "send"
  /\ \A c \in hub : c \in hub' \/ (pc'[g] = "send" /\ call'[g] = "disconnect" /\ ConnOf(g)' = c)
  /\ \A c \in Conn : g = Read(c) /\ Back(c) => Back(c)' \/ c \in hub'
  /\ cmdCh' = cmdCh \/ call[g] # "reconnect"

Moves(g) ==
  /\ TypeOK' /\ OnlyMoves(g) /\ Dropped(g) /\ BoxIsOwn(g)' /\ ActorMoves(g)
  /\ Patient => PresenceMoves(g)

\* A goroutine that waits for no answer has no call under way.
LEMMA NoCall ==
  ASSUME DeliveryInv, NEW g \in Goroutine, ~Waits(g)
  PROVE  /\ \A i \in DOMAIN cmdCh : cmdCh[i].from # g
         /\ event # None => event.from # g
<1>1. g # None
  BY Names
<1> QED
  BY <1>1 DEF DeliveryInv, Calling, QueueIsOwn, EventIsOwn

\* Nothing is dropped by a goroutine that has no call under way.
LEMMA NothingDropped ==
  ASSUME DeliveryInv, NEW g \in Goroutine, ~Waits(g), UNCHANGED <<cmdCh, event>>
  PROVE  Dropped(g)
BY NoCall DEF Dropped

\* A step of one goroutine keeps the account of the calls.
LEMMA MoveKeepsCalls ==
  ASSUME DeliveryInv, NEW g \in Goroutine, Moves(g)
  PROVE  DeliveryInv'
<1> USE DEF DeliveryInv, Moves
<1>1. /\ cmdCh \in Seq(Command) /\ event \in Event \cup {None}
      /\ \A i \in DOMAIN cmdCh : cmdCh[i] \in Command
  BY SMT DEF TypeOK
<1>2. pc[Room] = "loop" <=> pc'[Room] = "loop"
  BY Names DEF OnlyMoves, ActorMoves
<1>3. \A i \in DOMAIN cmdCh : cmdCh[i].from \in Goroutine \cup {None}
  BY <1>1 DEF Command
<1>4. QueueIsOwn'
  <2> SUFFICES ASSUME NEW i \in DOMAIN cmdCh, cmdCh'[i].from # None
               PROVE  (/\ Waits(cmdCh[i].from) /\ call[cmdCh[i].from] = cmdCh[i].kind
                       /\ \A j \in DOMAIN cmdCh : i # j => cmdCh[j].from # cmdCh[i].from)'
    BY DEF QueueIsOwn, Dropped
  <2>1. cmdCh'[i].from = cmdCh[i].from
    BY DEF Dropped
  <2>2. cmdCh[i].from \in Goroutine \ {g}
    BY <1>3, <2>1 DEF Dropped
  <2>3. Waits(cmdCh[i].from) /\ call[cmdCh[i].from] = cmdCh[i].kind
    BY <2>1 DEF Calling, QueueIsOwn
  <2>4. call'[cmdCh[i].from] = cmdCh'[i].kind
    BY <2>2, <2>3 DEF OnlyMoves, Dropped
  <2>5. pc'[cmdCh[i].from] = "wait" /\ box'[cmdCh[i].from] = None
    BY <2>2, <2>3 DEF OnlyMoves, Waits
  <2>6. ASSUME NEW j \in DOMAIN cmdCh', i # j PROVE cmdCh'[j].from # cmdCh'[i].from
    BY <2>1, <2>6, SMT DEF Calling, QueueIsOwn, Dropped
  <2> QED
    BY <2>1, <2>4, <2>5, <2>6 DEF Waits
<1>5. EventIsOwn'
  <2>1. (pc[Room] = "loop" <=> event = None)'
    BY <1>2 DEF Calling, EventIsOwn, Dropped
  <2>2. ASSUME event' # None, event'.from # None
        PROVE  (Waits(event.from) /\ \A i \in DOMAIN cmdCh : cmdCh[i].from # event.from)'
    <3>1. event # None /\ event'.from = event.from /\ event.from # g
      BY <2>2 DEF Dropped
    <3>2. event.from \in Goroutine \ {g}
      BY <1>1, <2>2, <3>1 DEF Event
    <3>3. Waits(event.from) /\ \A i \in DOMAIN cmdCh : cmdCh[i].from # event.from
      BY <2>2, <3>1 DEF Calling, EventIsOwn
    <3>4. pc'[event.from] = "wait" /\ box'[event.from] = None
      BY <3>2, <3>3 DEF OnlyMoves, Waits
    <3>5. \A i \in DOMAIN cmdCh' : cmdCh'[i].from # event.from
      BY <2>2, <3>1, <3>3 DEF Dropped
    <3> QED
      BY <3>1, <3>4, <3>5 DEF Waits
  <2> QED
    BY <2>1, <2>2 DEF EventIsOwn
<1>6. ASSUME NEW h \in Goroutine PROVE BoxIsOwn(h)'
  <2>1. CASE h # g
    BY <2>1 DEF Calling, BoxIsOwn, OnlyMoves
  <2> QED
    BY <2>1
<1>7. ActorIsOwn'
  BY Names DEF Calling, ActorIsOwn, ActorMoves, OnlyMoves
<1> QED
  BY <1>4, <1>5, <1>6, <1>7 DEF Calling

\* It keeps everybody's presence, if nobody gives up on a Reconnect.
LEMMA MoveKeepsPresent ==
  ASSUME Patient, DeliveryInv, Present, NEW g \in Goroutine, Moves(g)
  PROVE  Present'
<1> USE DEF DeliveryInv, Moves
<1>1. ASSUME NEW i \in DOMAIN cmdCh', cmdCh'[i].kind = "reconnect"
      PROVE  cmdCh'[i].from = Read(cmdCh'[i].player)
  <2>1. i \in DOMAIN cmdCh /\ cmdCh[i].kind = "reconnect" /\ cmdCh'[i].player = cmdCh[i].player
    BY <1>1 DEF Dropped
  <2>2. cmdCh[i].from = Read(cmdCh[i].player)
    BY <2>1 DEF Present
  <2>3. cmdCh'[i].from = cmdCh[i].from
    <3>1. CASE cmdCh' = cmdCh
      BY <3>1
    <3>2. CASE call[g] # "reconnect"
      <4>1. g # None
        BY Names
      <4>2. cmdCh[i].from # g
        BY <2>1, <3>2, <4>1 DEF Calling, QueueIsOwn
      <4> QED
        BY <2>1, <4>2 DEF Dropped
    <3> QED
      BY <3>1, <3>2 DEF PresenceMoves
  <2> QED
    BY <2>1, <2>2, <2>3
<1>2. ASSUME NEW c \in connected PROVE (c \in hub \/ Leaving(c) \/ Back(c))'
  <2>1. CASE c \in hub
    BY <2>1 DEF PresenceMoves, Leaving
  <2>2. CASE \E i \in DOMAIN cmdCh : cmdCh[i].kind = "disconnect" /\ cmdCh[i].player = c
    BY <2>2 DEF Dropped, Leaving
  <2>3. ASSUME NEW h \in Goroutine, pc[h] = "send", call[h] = "disconnect", ConnOf(h) = c
        PROVE  Leaving(c)'
    <3>1. h # g
      BY <2>3 DEF PresenceMoves
    <3>2. pc'[h] = "send" /\ call'[h] = "disconnect"
      BY <2>3, <3>1 DEF OnlyMoves
    <3>3. ConnOf(h)' = c
      BY <2>3, <3>1 DEF ConnOf, ActorMoves
    <3> QED
      BY <3>2, <3>3 DEF Leaving
  <2>4. CASE Back(c)
    <3>1. c \in Conn /\ Read(c) \in Goroutine
      BY Names DEF TypeOK
    <3>2. CASE g = Read(c)
      BY <2>4, <3>1, <3>2 DEF PresenceMoves
    <3>3. CASE g # Read(c)
      <4>1. /\ call'[Read(c)] = call[Read(c)] /\ box'[Read(c)] = box[Read(c)]
            /\ pc[Read(c)] \in {"register", "wait"} => pc'[Read(c)] = pc[Read(c)]
        BY <3>1, <3>3 DEF OnlyMoves
      <4>2. event # None /\ event.from = Read(c) => event' # None /\ event'.from = Read(c)
        BY <3>3 DEF Dropped
      <4> QED
        BY <2>4, <4>1, <4>2 DEF Back
    <3> QED
      BY <3>2, <3>3
  <2> QED
    BY <2>1, <2>2, <2>3, <2>4 DEF Present, Leaving
<1> QED
  BY <1>1, <1>2 DEF Present, PresenceMoves

-----------------------------------------------------------------------------
(***************************************************************************)
(* The goroutines of a connection, and the actor within a broadcast         *)
(***************************************************************************)

\* What no step of a goroutine touches, or only within its type.
Rest ==
  /\ UNCHANGED <<roomVars, inRoom>>
  /\ cmdCh' \in Seq(Command) /\ Len(cmdCh') <= CmdCap /\ event' \in Event \cup {None}
  /\ calls' \in 0..MaxCalls /\ base' = base /\ got' = got

\* A pump that has resumed its player starts the other one.
LEMMA StartedFacts ==
  ASSUME TypeOK, NEW g \in Goroutine
  PROVE  /\ Started(g, pc) \in [Goroutine -> Steps]
         /\ \A h \in Goroutine : Started(g, pc)[h] = pc[h] \/ (pc[h] = "off" /\ Started(g, pc)[h] = "idle")
<1>1. pc \in [Goroutine -> Steps] /\ "idle" \in Steps
  BY DEF TypeOK, Steps
<1> HIDE DEF Steps
<1>2. g # Room => Write(g[1]) \in Goroutine
  BY Names
<1>3. CASE g # Room /\ pc[Write(g[1])] = "off"
  <2>1. Started(g, pc) = [pc EXCEPT ![Write(g[1])] = "idle"]
    BY <1>3 DEF Started
  <2> QED
    BY <1>1, <1>2, <1>3, <2>1
<1>4. CASE ~(g # Room /\ pc[Write(g[1])] = "off")
  BY <1>1, <1>4 DEF Started
<1> QED
  BY <1>3, <1>4

\* The read or write pump of a connection sends, or closes its connection, when it waits
\* for no answer any more.
LEMMA PumpMoves ==
  ASSUME DeliveryInv, NEW g \in Goroutine \ {Room}, NEW m \in Message, NEW at \in {pc, Started(g, pc)},
         Enqueue(g, g[1], m, at, "idle") \/ (Close(g, g[1], at) /\ UNCHANGED send),
         Rest, Dropped(g), victim' = victim, box' = [box EXCEPT ![g] = None],
         pc[g] # "send",
         Patient => /\ \A c \in Conn : g = Read(c) => ~Back(c)
                    /\ cmdCh' = cmdCh \/ call[g] # "reconnect"
  PROVE  Moves(g)
<1> USE DEF DeliveryInv
<1>1. /\ at \in [Goroutine -> Steps]
      /\ \A h \in Goroutine : at[h] = pc[h] \/ (pc[h] = "off" /\ at[h] = "idle")
  BY StartedFacts, SMT DEF TypeOK
<1>2. "idle" \in Steps \ {"send"}
  BY DEF Steps
<1>3. g[1] \in Conn /\ After(g) = "gone" /\ ConnOf(g)' = g[1]
  BY Names DEF After, ConnOf
<1>4. /\ once' \in [Conn -> {"open", "closing", "closed"}]
      /\ hub' \subseteq hub
      /\ pc' \in [Goroutine -> Steps] /\ pc'[g] \in {"send", "once", "gone", "idle"}
      /\ \A h \in Goroutine \ {g} : pc'[h] = at[h]
      /\ call' \in [Goroutine -> Calls \cup {None}] /\ call'[g] \in {"disconnect", None}
      /\ \A h \in Goroutine \ {g} : call'[h] = call[h]
      /\ pc'[g] = "send" => call'[g] = "disconnect"
      /\ \A d \in hub : d \in hub' \/ (d = g[1] /\ pc'[g] = "send")
      /\ send' \in [Conn -> Seq(Message)] /\ \A d \in Conn : Len(send'[d]) <= SendCap
  <2>1. CASE Enqueue(g, g[1], m, at, "idle")
    BY <1>1, <1>2, <1>3, <2>1, EnqueueFacts, SMT
  <2>2. CASE Close(g, g[1], at) /\ UNCHANGED send
    <3>1. send' \in [Conn -> Seq(Message)] /\ \A d \in Conn : Len(send'[d]) <= SendCap
      BY <2>2 DEF TypeOK
    <3> QED
      BY <1>1, <1>3, <2>2, <3>1, CloseFacts, SMT
  <2> QED
    BY <2>1, <2>2
<1>5. box' \in [Goroutine -> Err..MaxSeq \cup {None}] /\ box'[g] = None
      /\ \A h \in Goroutine \ {g} : box'[h] = box[h]
  BY DEF TypeOK
<1>6. TypeOK'
  <2>1. hub' \subseteq inRoom'
    BY <1>4 DEF TypeOK, Rest
  <2> QED
    BY <1>4, <1>5, <2>1 DEF TypeOK, Rest, roomVars
<1>7. OnlyMoves(g)
  BY <1>1, <1>4, <1>5, SMT DEF OnlyMoves
<1>8. BoxIsOwn(g)'
  <2>1. None # Err
    BY DeliveryAssumption, SMT DEF Err
  <2>2. None \notin {"disconnect", "reconnect"}
    BY DeliveryAssumption DEF Calls
  <2> QED
    BY <1>4, <1>5, <2>1, <2>2 DEF BoxIsOwn
<1>9. Patient => PresenceMoves(g)
  BY <1>3, <1>4 DEF PresenceMoves, Rest, roomVars
<1> QED
  BY <1>6, <1>7, <1>8, <1>9 DEF Moves, ActorMoves

\* A call that nobody waits for any more.
LEMMA OrphanFacts ==
  ASSUME DeliveryInv, NEW g \in Goroutine, Orphan(g)
  PROVE  /\ Dropped(g)
         /\ cmdCh' \in Seq(Command) /\ Len(cmdCh') <= CmdCap /\ event' \in Event \cup {None}
<1> USE DEF DeliveryInv
<1>1. /\ cmdCh \in Seq(Command) /\ Len(cmdCh) <= CmdCap /\ event \in Event \cup {None}
      /\ \A i \in DOMAIN cmdCh : cmdCh[i] \in Command
  BY SMT DEF TypeOK
<1>2. g # None /\ None \notin Event
  BY Names, DeliveryAssumption
<1>3. ASSUME NEW i \in DOMAIN cmdCh
      PROVE  /\ cmdCh'[i] \in Command /\ cmdCh'[i].from # g
             /\ cmdCh'[i].kind = cmdCh[i].kind /\ cmdCh'[i].player = cmdCh[i].player
             /\ cmdCh'[i].from = cmdCh[i].from \/ (cmdCh[i].from = g /\ cmdCh'[i].from = None)
  <2>1. cmdCh'[i] = IF cmdCh[i].from = g THEN [cmdCh[i] EXCEPT !.from = None] ELSE cmdCh[i]
    BY DEF Orphan
  <2> QED
    BY <1>1, <1>2, <2>1 DEF Command
<1>4. DOMAIN cmdCh' = DOMAIN cmdCh /\ DOMAIN cmdCh = 1..Len(cmdCh) /\ Len(cmdCh) \in Nat
  BY <1>1, SMT DEF Orphan
<1>5. cmdCh' = [i \in 1..Len(cmdCh) |-> cmdCh'[i]]
  BY <1>4 DEF Orphan
<1>6. cmdCh' \in Seq(Command) /\ Len(cmdCh') = Len(cmdCh)
  <2> HIDE DEF Command
  <2>1. cmdCh' \in [1..Len(cmdCh) -> Command]
    BY <1>3, <1>4, <1>5
  <2> QED
    BY <1>4, <2>1, FunctionIsSeq
<1>7. /\ event' \in Event \cup {None} /\ (event' = None <=> event = None)
      /\ event # None =>
           /\ event'.from = event.from \/ (event.from = g /\ event'.from = None)
           /\ event'.from # g
  <2>1. CASE event # None /\ event.from = g
    <3>1. event' = [event EXCEPT !.from = None] /\ event \in Event
      BY <1>1, <2>1 DEF Orphan
    <3>2. event' \in Event /\ event'.from = None
      BY <3>1 DEF Event
    <3> QED
      BY <1>2, <2>1, <3>2
  <2>2. CASE ~(event # None /\ event.from = g)
    BY <1>1, <1>2, <2>2 DEF Orphan
  <2> QED
    BY <2>1, <2>2
<1> QED
  BY <1>1, <1>3, <1>4, <1>6, <1>7 DEF Dropped

\* Close is through.
LEMMA ClosedMoves ==
  ASSUME DeliveryInv, NEW g \in Goroutine, pc[g] = "wait", Closed(g), Rest, Dropped(g),
         victim' = victim, box' = [box EXCEPT ![g] = None]
  PROVE  Moves(g)
<1> USE DEF DeliveryInv
<1>1. /\ pc' = [pc EXCEPT ![g] = After(g)] /\ call' = [call EXCEPT ![g] = None]
      /\ once' = [once EXCEPT ![ConnOf(g)] = "closed"] /\ hub' = hub /\ send' = send
      /\ call[g] = "disconnect"
  BY DEF Closed, Idle
<1>2. /\ pc \in [Goroutine -> Steps] /\ call \in [Goroutine -> Calls \cup {None}]
      /\ once \in [Conn -> {"open", "closing", "closed"}]
      /\ box \in [Goroutine -> Err..MaxSeq \cup {None}]
  BY DEF TypeOK
<1>3. After(g) \in Steps \ {"send", "wait", "once", "loop", "register", "snapshot"}
      /\ (g = Room => After(g) = "broadcast")
  BY DEF After, Steps
<1>4. TypeOK'
  <2>1. pc' \in [Goroutine -> Steps] /\ call' \in [Goroutine -> Calls \cup {None}]
        /\ box' \in [Goroutine -> Err..MaxSeq \cup {None}]
    BY <1>1, <1>2, <1>3
  <2>2. once' \in [Conn -> {"open", "closing", "closed"}]
    BY <1>1, <1>2
  <2> QED
    BY <1>1, <2>1, <2>2 DEF TypeOK, Rest, roomVars
<1>5. /\ pc'[g] = After(g) /\ call'[g] = None /\ box'[g] = None
      /\ \A h \in Goroutine \ {g} : pc'[h] = pc[h] /\ call'[h] = call[h] /\ box'[h] = box[h]
  BY <1>1, <1>2
<1>6. OnlyMoves(g)
  BY <1>5 DEF OnlyMoves
<1>7. BoxIsOwn(g)'
  <2>1. None # Err /\ None \notin Calls
    BY DeliveryAssumption, SMT DEF Err
  <2> QED
    BY <1>3, <1>5, <2>1 DEF BoxIsOwn, Calls
<1>8. ActorMoves(g)
  BY <1>3, <1>5 DEF ActorMoves, ActorIsOwn
<1>9. PresenceMoves(g)
  BY <1>1 DEF PresenceMoves, Rest, roomVars, Back, Calling, EventIsOwn
<1> QED
  BY <1>4, <1>6, <1>7, <1>8, <1>9 DEF Moves

\* The answer to a call is there, or it will not be waited for.
LEMMA ReturnMoves ==
  ASSUME DeliveryInv, NEW g \in Goroutine, Return(g)
  PROVE  Moves(g)
<1> USE DEF DeliveryInv
<1>1. pc[g] = "wait" /\ box[g] # None /\ ~Waits(g)
  BY DEF Return, Waits
<1>2. Dropped(g)
  BY <1>1, NothingDropped DEF Return
<1>3. Rest /\ cmdCh' = cmdCh /\ event' = event /\ victim' = victim
  BY DEF Return, Rest, TypeOK, roomVars, clientVars
<1>4. event # None => event.from # g
  BY <1>1, NoCall
<1>5. CASE Closed(g)
  <2>1. pc'[g] \notin {"register", "snapshot"}
    BY <1>5 DEF Closed, After, TypeOK
  <2>2. box' = [box EXCEPT ![g] = None]
    BY <2>1 DEF Return
  <2> QED
    BY <1>1, <1>2, <1>3, <1>5, <2>2, ClosedMoves
<1>6. CASE box[g] = Err /\ Failed(g)
  <2>1. g # Room
    BY <1>1, <1>6 DEF Calling, ActorIsOwn, Failed
  <2>2. Enqueue(g, g[1], Note, Started(g, pc), "idle") /\ Note \in Message
    BY <1>6, DeliveryAssumption, SMT DEF Failed, Note, Message
  <2>3. g[1] \in Conn /\ "idle" \in Steps \ {"send"} /\ After(g) = "gone"
    BY <2>1, Names DEF Steps, After
  <2>4. pc'[g] \in {"send", "once", "gone", "idle"}
    BY <2>2, <2>3, StartedFacts, EnqueueFacts
  <2>5. box' = [box EXCEPT ![g] = None]
    BY <2>4 DEF Return
  <2>6. \A c \in Conn : g = Read(c) => ~Back(c)
    BY <1>1, <1>4, <1>6 DEF Back, Calling, BoxIsOwn
  <2> QED
    BY <1>1, <1>2, <1>3, <2>1, <2>2, <2>5, <2>6, PumpMoves
<1>7. CASE box[g] # Err /\ Answered(g)
  <2>1. g # Room
    BY <1>1, <1>7 DEF Calling, ActorIsOwn, Answered
  <2>2. /\ pc \in [Goroutine -> Steps] /\ call \in [Goroutine -> Calls \cup {None}]
        /\ box \in [Goroutine -> Err..MaxSeq \cup {None}]
    BY DEF TypeOK
  <2>3. /\ hub' = hub /\ send' = send /\ once' = once
        /\ pc' \in [Goroutine -> Steps] /\ call' \in [Goroutine -> Calls \cup {None}]
        /\ \A h \in Goroutine \ {g} : pc'[h] = pc[h] /\ call'[h] = call[h]
        /\ \/ call[g] = "action" /\ pc'[g] = "idle" /\ call'[g] = None
           \/ call[g] = "snapshot" /\ pc'[g] = "snapshot" /\ call'[g] = "snapshot"
           \/ call[g] = "reconnect" /\ pc'[g] = "register" /\ call'[g] = "reconnect"
    <3>1. {"idle", "register", "snapshot"} \subseteq Steps
      BY DEF Steps
    <3> HIDE DEF Steps
    <3> QED
      BY <1>7, <2>2, <3>1, SMT DEF Answered, Idle
  <2>4. /\ box' \in [Goroutine -> Err..MaxSeq \cup {None}]
        /\ \A h \in Goroutine \ {g} : box'[h] = box[h]
        /\ box'[g] = IF pc'[g] \in {"register", "snapshot"} THEN box[g] ELSE None
    BY <2>2 DEF Return
  <2>5. TypeOK'
    BY <1>3, <2>3, <2>4 DEF TypeOK, Rest, roomVars
  <2>6. OnlyMoves(g)
    BY <2>3, <2>4 DEF OnlyMoves
  <2>7. BoxIsOwn(g)'
    <3>1. None # Err /\ None \notin Calls
      BY DeliveryAssumption, SMT DEF Err
    <3>2. call[g] = "reconnect" => \E c \in Conn : g = Read(c)
      BY DEF Calling, BoxIsOwn
    <3> QED
      BY <1>1, <1>7, <2>3, <2>4, <3>1, <3>2 DEF BoxIsOwn, Calls
  <2>8. PresenceMoves(g)
    BY <1>1, <1>3, <1>4, <2>3 DEF PresenceMoves, Rest, roomVars, Back
  <2> QED
    BY <1>2, <1>3, <2>1, <2>5, <2>6, <2>7, <2>8 DEF Moves, ActorMoves
<1> QED
  BY <1>5, <1>6, <1>7 DEF Return

\* A call that times out leaves the calls of the others alone.
LEMMA ContextDoneMoves ==
  ASSUME DeliveryInv, NEW g \in Goroutine, ContextDone(g)
  PROVE  Moves(g)
<1> USE DEF DeliveryInv
<1>1. pc[g] = "wait" /\ call[g] \in TimesOut /\ box[g] = None
  BY DEF ContextDone
<1>2. Dropped(g) /\ Rest /\ victim' = victim
  BY OrphanFacts DEF ContextDone, Rest, TypeOK, roomVars, clientVars
<1>3. box' = [box EXCEPT ![g] = None]
  <2>1. box' = box /\ box \in [Goroutine -> Err..MaxSeq \cup {None}]
    BY DEF ContextDone, TypeOK
  <2> QED
    BY <1>1, <2>1
<1>4. CASE Closed(g)
  BY <1>1, <1>2, <1>3, <1>4, ClosedMoves
<1>5. CASE Failed(g)
  <2>1. g # Room
    BY <1>1, <1>5 DEF Calling, ActorIsOwn, Failed
  <2>2. Enqueue(g, g[1], Note, Started(g, pc), "idle") /\ Note \in Message
    BY <1>5, DeliveryAssumption, SMT DEF Failed, Note, Message
  <2>3. Patient => call[g] # "reconnect"
    BY <1>1 DEF Patient
  <2>4. Patient => \A c \in Conn : g = Read(c) => ~Back(c)
    BY <1>1, <2>3 DEF Back
  <2> QED
    BY <1>1, <1>2, <1>3, <2>1, <2>2, <2>3, <2>4, PumpMoves
<1> QED
  BY <1>4, <1>5 DEF ContextDone

\* The deferred Close of another goroutine is through.
LEMMA OnceDoneMoves ==
  ASSUME DeliveryInv, NEW g \in Goroutine, OnceDone(g)
  PROVE  Moves(g)
<1> USE DEF DeliveryInv
<1>1. /\ pc[g] = "once" /\ pc' = [pc EXCEPT ![g] = After(g)]
      /\ UNCHANGED <<seq, connected, cmdCh, event, hub, inRoom, send, once, victim, call, box,
                     calls, base, got>>
  BY DEF OnceDone, roomVars, clientVars
<1>2. After(g) \in Steps \ {"send", "wait", "once", "loop", "register", "snapshot"}
      /\ (g = Room => After(g) = "broadcast")
  BY DEF After, Steps
<1>3. pc \in [Goroutine -> Steps]
  BY DEF TypeOK
<1>4. pc' \in [Goroutine -> Steps] /\ pc'[g] = After(g)
      /\ \A h \in Goroutine \ {g} : pc'[h] = pc[h]
  BY <1>1, <1>2, <1>3
<1>5. TypeOK'
  BY <1>1, <1>4 DEF TypeOK
<1>6. Dropped(g)
  BY <1>1, NothingDropped DEF Waits
<1>7. OnlyMoves(g)
  BY <1>1, <1>4 DEF OnlyMoves
<1>8. BoxIsOwn(g)'
  BY <1>1, <1>2, <1>4 DEF BoxIsOwn, Calling
<1>9. ActorMoves(g)
  BY <1>1, <1>2, <1>4 DEF ActorMoves, ActorIsOwn
<1>10. event # None => event.from # g
  BY <1>1, NoCall DEF Waits
<1>11. PresenceMoves(g)
  BY <1>1, <1>10 DEF PresenceMoves, Back
<1> QED
  BY <1>5, <1>6, <1>7, <1>8, <1>9, <1>11 DEF Moves

\* A connection that dials in calls Reconnect or starts without a room.
LEMMA DialMoves ==
  ASSUME DeliveryInv, NEW c \in Conn, Dial(c)
  PROVE  Moves(Read(c))
<1> USE DEF DeliveryInv
<1> DEFINE g == Read(c)
<1>1. g \in Goroutine /\ g # Room
  BY Names
<1> HIDE DEF g
<1>2. /\ pc[g] = "dial"
      /\ UNCHANGED <<seq, connected, cmdCh, event, hub, inRoom, send, once, victim, box,
                     calls, base, got>>
  BY DEF Dial, roomVars, clientVars, g
<1>3. /\ pc \in [Goroutine -> Steps] /\ call \in [Goroutine -> Calls \cup {None}]
      /\ {"send", "idle"} \subseteq Steps /\ "reconnect" \in Calls
  BY DEF TypeOK, Steps, Calls
<1>4. /\ pc' \in [Goroutine -> Steps] /\ call' \in [Goroutine -> Calls \cup {None}]
      /\ \/ pc'[g] = "send" /\ call'[g] = "reconnect"
         \/ pc'[g] = "idle" /\ call'[g] = call[g]
      /\ \A h \in Goroutine \ {g} :
           call'[h] = call[h] /\ (pc'[h] = pc[h] \/ (pc[h] = "off" /\ pc'[h] = "idle"))
  <2> HIDE DEF Steps, Calls
  <2>1. CASE pc' = [pc EXCEPT ![g] = "send"] /\ call' = [call EXCEPT ![g] = "reconnect"]
    BY <1>1, <1>3, <2>1
  <2>2. CASE pc' = [Started(g, pc) EXCEPT ![g] = "idle"] /\ UNCHANGED call
    <3>1. /\ Started(g, pc) \in [Goroutine -> Steps]
          /\ \A h \in Goroutine :
               Started(g, pc)[h] = pc[h] \/ (pc[h] = "off" /\ Started(g, pc)[h] = "idle")
      BY <1>1, StartedFacts
    <3> QED
      BY <1>1, <1>3, <2>2, <3>1
  <2> QED
    BY <2>1, <2>2 DEF Dial, g
<1>5. TypeOK'
  BY <1>2, <1>4 DEF TypeOK
<1>6. Dropped(g)
  BY <1>1, <1>2, NothingDropped DEF Waits
<1>7. OnlyMoves(g)
  BY <1>2, <1>4 DEF OnlyMoves
<1>8. BoxIsOwn(g)'
  <2>1. None # "reconnect"
    BY DeliveryAssumption DEF Calls
  <2>2. BoxIsOwn(g)
    BY <1>1 DEF Calling
  <2>3. \E d \in Conn : g = Read(d)
    BY DEF g
  <2> QED
    BY <1>2, <1>4, <2>1, <2>2, <2>3 DEF BoxIsOwn
<1>9. event # None => event.from # g
  BY <1>1, <1>2, NoCall DEF Waits
<1>10. PresenceMoves(g)
  BY <1>2, <1>9 DEF PresenceMoves, Back
<1>11. Moves(g)
  BY <1>1, <1>2, <1>5, <1>6, <1>7, <1>8, <1>10 DEF Moves, ActorMoves
<1> QED
  BY <1>11 DEF g

\* A resumed connection gets its registration.
LEMMA RegisterMoves ==
  ASSUME DeliveryInv, NEW c \in Conn, Register(c)
  PROVE  Moves(Read(c))
<1> USE DEF DeliveryInv
<1> DEFINE g == Read(c)
<1>1. g \in Goroutine /\ g # Room /\ \A d \in Conn : g = Read(d) => d = c
  BY Names
<1> HIDE DEF g
<1>2. /\ pc[g] = "register" /\ pc' = [pc EXCEPT ![g] = "snapshot"]
      /\ inRoom' = inRoom \cup {c} /\ hub' = hub \cup {c}
      /\ UNCHANGED <<seq, connected, cmdCh, event, send, once, victim, call, box, calls, base, got>>
  BY DEF Register, roomVars, clientVars, g
<1>3. pc \in [Goroutine -> Steps] /\ "snapshot" \in Steps
  BY DEF TypeOK, Steps
<1>4. pc' \in [Goroutine -> Steps] /\ pc'[g] = "snapshot"
      /\ \A h \in Goroutine \ {g} : pc'[h] = pc[h]
  BY <1>1, <1>2, <1>3
<1>5. TypeOK'
  BY <1>2, <1>4 DEF TypeOK
<1>6. Dropped(g)
  BY <1>1, <1>2, NothingDropped DEF Waits
<1>7. OnlyMoves(g)
  BY <1>2, <1>4 DEF OnlyMoves
<1>8. BoxIsOwn(g)'
  BY <1>1, <1>2, <1>4 DEF BoxIsOwn, Calling
<1>9. PresenceMoves(g)
  BY <1>1, <1>2 DEF PresenceMoves
<1>10. Moves(g)
  BY <1>1, <1>2, <1>5, <1>6, <1>7, <1>8, <1>9 DEF Moves, ActorMoves
<1> QED
  BY <1>10 DEF g

\* A snapshot is sent by a pump that is in no call.
LEMMA SendSnapshotMoves ==
  ASSUME DeliveryInv, NEW c \in Conn, SendSnapshot(c)
  PROVE  Moves(Read(c))
<1> USE DEF DeliveryInv
<1> DEFINE g == Read(c)
<1>1. g \in Goroutine \ {Room} /\ g[1] = c /\ \A d \in Conn : g = Read(d) => d = c
  BY Names
<1> HIDE DEF g
<1>2. /\ pc[g] = "snapshot" /\ box' = [box EXCEPT ![g] = None] /\ victim' = victim
      /\ Enqueue(g, c, Snap(box[g]), Started(g, pc), "idle") /\ cmdCh' = cmdCh /\ event' = event
  BY DEF SendSnapshot, g
<1>3. Snap(box[g]) \in Message
  <2>1. box[g] \in 0..MaxSeq
    <3>1. box[g] # None /\ box[g] # Err
      BY <1>1, <1>2 DEF Calling, BoxIsOwn
    <3>2. box[g] \in Err..MaxSeq
      BY <1>1, <3>1 DEF TypeOK
    <3> QED
      BY <3>1, <3>2, DeliveryAssumption, SMT DEF Err
  <2> QED
    BY <2>1 DEF Snap, Message
<1>4. Rest
  BY <1>2 DEF SendSnapshot, Rest, TypeOK, roomVars, clientVars
<1>5. Dropped(g) /\ (event # None => event.from # g)
  BY <1>1, <1>2, NothingDropped, NoCall DEF Waits
<1>6. \A d \in Conn : g = Read(d) => ~Back(d)
  BY <1>2, <1>5 DEF Back
<1>7. Moves(g)
  BY <1>1, <1>2, <1>3, <1>4, <1>5, <1>6, PumpMoves
<1> QED
  BY <1>7 DEF g

\* A message of the client begins a call or is refused.
LEMMA ReadMessageMoves ==
  ASSUME DeliveryInv, NEW c \in Conn, NEW what \in {"action", "snapshot"}, ReadMessage(c, what)
  PROVE  Moves(Read(c))
<1> USE DEF DeliveryInv
<1> DEFINE g == Read(c)
<1>1. g \in Goroutine \ {Room} /\ g[1] = c /\ \A d \in Conn : g = Read(d) => d = c
  BY Names
<1> HIDE DEF g
<1>2. /\ pc[g] = "idle" /\ calls < MaxCalls /\ calls' = calls + 1
      /\ UNCHANGED <<seq, connected, cmdCh, event, inRoom, victim, box, base, got>>
  BY DEF ReadMessage, roomVars, g
<1>3. calls' \in 0..MaxCalls
  BY <1>2, DeliveryAssumption, SMT DEF TypeOK
<1>4. Rest
  BY <1>2, <1>3 DEF Rest, TypeOK, roomVars
<1>5. Dropped(g) /\ (event # None => event.from # g)
  BY <1>1, <1>2, NothingDropped, NoCall DEF Waits
<1>6. \A d \in Conn : g = Read(d) => ~Back(d)
  BY <1>2, <1>5 DEF Back
<1>7. box[g] = None /\ box \in [Goroutine -> Err..MaxSeq \cup {None}]
  BY <1>1, <1>2 DEF Calling, BoxIsOwn, TypeOK
<1>8. CASE Enqueue(g, c, Note, pc, "idle")
  <2>1. Note \in Message
    BY DeliveryAssumption, SMT DEF Note, Message
  <2>2. box' = [box EXCEPT ![g] = None]
    BY <1>1, <1>2, <1>7
  <2>3. Moves(g)
    BY <1>1, <1>2, <1>4, <1>5, <1>6, <1>8, <2>1, <2>2, PumpMoves
  <2> QED
    BY <2>3 DEF g
<1>9. CASE /\ pc' = [pc EXCEPT ![g] = "send"] /\ call' = [call EXCEPT ![g] = what]
           /\ UNCHANGED <<hub, send, once>>
  <2>1. /\ pc \in [Goroutine -> Steps] /\ call \in [Goroutine -> Calls \cup {None}]
        /\ "send" \in Steps /\ what \in Calls
    BY DEF TypeOK, Steps, Calls
  <2>2. /\ pc' \in [Goroutine -> Steps] /\ call' \in [Goroutine -> Calls \cup {None}]
        /\ pc'[g] = "send" /\ call'[g] = what
        /\ \A h \in Goroutine \ {g} : pc'[h] = pc[h] /\ call'[h] = call[h]
    <3> HIDE DEF Steps, Calls
    <3> QED
      BY <1>1, <1>9, <2>1
  <2>3. TypeOK'
    BY <1>2, <1>3, <1>9, <2>2 DEF TypeOK
  <2>4. OnlyMoves(g)
    BY <1>2, <2>2 DEF OnlyMoves
  <2>5. BoxIsOwn(g)'
    <3>1. None \notin Calls /\ None # Err
      BY DeliveryAssumption, SMT DEF Err
    <3> QED
      BY <1>2, <1>7, <2>1, <2>2, <3>1 DEF BoxIsOwn
  <2>6. PresenceMoves(g)
    BY <1>2, <1>6, <1>9 DEF PresenceMoves
  <2>7. Moves(g)
    BY <1>1, <1>2, <1>5, <2>3, <2>4, <2>5, <2>6 DEF Moves, ActorMoves
  <2> QED
    BY <2>7 DEF g
<1> QED
  BY <1>8, <1>9 DEF ReadMessage, g

\* A pump that ends closes its connection.
LEMMA PumpEndsMoves ==
  ASSUME DeliveryInv, NEW c \in Conn, PumpEnds(c)
  PROVE  Moves(Write(c))
<1> USE DEF DeliveryInv
<1> DEFINE g == Write(c)
<1>1. g \in Goroutine \ {Room} /\ g[1] = c /\ \A d \in Conn : g # Read(d)
  BY Names
<1> HIDE DEF g
<1>2. /\ pc[g] = "idle" /\ Close(g, c, pc) /\ UNCHANGED send
      /\ UNCHANGED <<seq, connected, cmdCh, event, inRoom, victim, box, calls, base, got>>
  BY DEF PumpEnds, roomVars, clientVars, g
<1>3. Rest
  BY <1>2 DEF Rest, TypeOK, roomVars
<1>4. Dropped(g)
  BY <1>1, <1>2, NothingDropped DEF Waits
<1>5. box' = [box EXCEPT ![g] = None]
  <2>1. box[g] = None /\ box \in [Goroutine -> Err..MaxSeq \cup {None}]
    BY <1>1, <1>2 DEF Calling, BoxIsOwn, TypeOK
  <2> QED
    BY <1>1, <1>2, <2>1
<1>6. Note \in Message
  BY DeliveryAssumption, SMT DEF Note, Message
<1>7. Moves(g)
  BY <1>1, <1>2, <1>3, <1>4, <1>5, <1>6, PumpMoves
<1> QED
  BY <1>7 DEF g

\* The actor, with a broadcast under way, turns to the next connection.
LEMMA DeliverMoves ==
  ASSUME DeliveryInv, NEW c \in Conn, Deliver(c)
  PROVE  Moves(Room)
<1> USE DEF DeliveryInv
<1>1. /\ pc[Room] = "broadcast" /\ c \in event.to /\ event' = [event EXCEPT !.to = @ \ {c}]
      /\ victim' = c /\ Enqueue(Room, c, event.msg, pc, "broadcast")
      /\ UNCHANGED <<seq, connected, cmdCh, inRoom, box, calls, base, got>>
  BY DEF Deliver, roomVars, clientVars
<1>2. Room \in Goroutine /\ After(Room) = "broadcast" /\ \A d \in Conn : Room # Read(d)
  BY Names DEF After
<1>3. event # None /\ event \in Event
  BY <1>1 DEF Calling, EventIsOwn, TypeOK
<1>4. event.msg \in Message /\ event' \in Event /\ event'.from = event.from
  BY <1>1, <1>3 DEF Event
<1>5. event' # None
  BY <1>4, DeliveryAssumption
<1>6. pc \in [Goroutine -> Steps] /\ "broadcast" \in Steps \ {"send"}
  BY DEF TypeOK, Steps
<1>7. /\ once' \in [Conn -> {"open", "closing", "closed"}]
      /\ hub' \subseteq hub
      /\ pc' \in [Goroutine -> Steps] /\ pc'[Room] \in {"send", "once", "broadcast"}
      /\ \A h \in Goroutine \ {Room} : pc'[h] = pc[h]
      /\ call' \in [Goroutine -> Calls \cup {None}] /\ call'[Room] \in {"disconnect", None}
      /\ \A h \in Goroutine \ {Room} : call'[h] = call[h]
      /\ pc'[Room] = "send" => call'[Room] = "disconnect"
      /\ \A d \in hub : d \in hub' \/ (d = c /\ pc'[Room] = "send")
      /\ send' \in [Conn -> Seq(Message)] /\ \A d \in Conn : Len(send'[d]) <= SendCap
  BY <1>1, <1>2, <1>4, <1>6, EnqueueFacts, SMT
<1>8. TypeOK'
  <2>1. hub' \subseteq inRoom' /\ inRoom' \subseteq Conn
    BY <1>1, <1>7 DEF TypeOK
  <2> QED
    BY <1>1, <1>4, <1>7, <2>1 DEF TypeOK
<1>9. OnlyMoves(Room)
  BY <1>1, <1>7 DEF OnlyMoves
<1>10. Dropped(Room)
  <2>1. \A i \in DOMAIN cmdCh : cmdCh[i].from # Room
    BY <1>1, <1>2, NoCall DEF Waits
  <2>2. event.from # Room
    BY <1>1, <1>2, <1>3, NoCall DEF Waits
  <2> QED
    BY <1>1, <1>3, <1>4, <1>5, <2>1, <2>2 DEF Dropped
<1>11. BoxIsOwn(Room)'
  <2>1. box[Room] = None
    BY <1>1, <1>2 DEF Calling, BoxIsOwn
  <2>2. None \notin {"disconnect", "reconnect"} /\ None # Err
    BY DeliveryAssumption, SMT DEF Err, Calls
  <2> QED
    BY <1>1, <1>7, <2>1, <2>2 DEF BoxIsOwn
<1>12. ActorMoves(Room)
  BY <1>1, <1>7 DEF ActorMoves, ActorIsOwn
<1>13. PresenceMoves(Room)
  <2>1. ConnOf(Room)' = c
    BY <1>1 DEF ConnOf
  <2> QED
    BY <1>1, <1>2, <1>7, <2>1 DEF PresenceMoves
<1> QED
  BY <1>8, <1>9, <1>10, <1>11, <1>12, <1>13 DEF Moves

-----------------------------------------------------------------------------
(***************************************************************************)
(* The command channel                                                      *)
(***************************************************************************)

\* A command enters the channel with its caller waiting for it.
LEMMA SendKeeps ==
  ASSUME DeliveryInv, NEW g \in Goroutine, Send(g)
  PROVE  DeliveryInv' /\ (Present => Present')
<1> USE DEF DeliveryInv
<1> DEFINE cmd == [kind |-> call[g], player |-> ConnOf(g), from |-> g]
<1>1. /\ pc[g] = "send" /\ Len(cmdCh) < CmdCap /\ cmdCh' = Append(cmdCh, cmd)
      /\ pc' = [pc EXCEPT ![g] = "wait"]
      /\ UNCHANGED <<seq, connected, event, hub, inRoom, send, once, victim, call, box, calls,
                     base, got>>
  BY DEF Send, roomVars, clientVars
<1>2. BoxIsOwn(g)
  BY DEF Calling
<1>3. call[g] \in Calls /\ box[g] = None
  BY <1>1, <1>2 DEF BoxIsOwn, TypeOK
<1>4. ConnOf(g) \in Conn
  BY <1>1, Names DEF ConnOf, Calling, ActorIsOwn
<1>5. cmd \in Command /\ cmd.kind = call[g] /\ cmd.player = ConnOf(g) /\ cmd.from = g
  BY <1>3, <1>4 DEF Command
<1> HIDE DEF cmd
<1>6. cmdCh \in Seq(Command) /\ Len(cmdCh) \in Nat /\ DOMAIN cmdCh = 1..Len(cmdCh)
  BY SMT DEF TypeOK
<1>7. /\ cmdCh' \in Seq(Command) /\ Len(cmdCh') = Len(cmdCh) + 1
      /\ DOMAIN cmdCh' = 1..(Len(cmdCh) + 1)
      /\ \A i \in DOMAIN cmdCh : i \in DOMAIN cmdCh' /\ cmdCh'[i] = cmdCh[i]
      /\ cmdCh'[Len(cmdCh) + 1] = cmd
      /\ \A i \in DOMAIN cmdCh' : i \in DOMAIN cmdCh \/ i = Len(cmdCh) + 1
  <2> HIDE DEF Command
  <2> QED
    BY <1>1, <1>5, <1>6, AppendFacts, SMT
<1>8. Len(cmdCh') <= CmdCap
  BY <1>1, <1>6, <1>7, DeliveryAssumption, SMT
<1>9. /\ pc' \in [Goroutine -> Steps] /\ pc'[g] = "wait"
      /\ \A h \in Goroutine \ {g} : pc'[h] = pc[h]
  BY <1>1 DEF TypeOK, Steps
<1>10. TypeOK'
  BY <1>1, <1>7, <1>8, <1>9 DEF TypeOK
<1>11. /\ \A i \in DOMAIN cmdCh : cmdCh[i].from # g
       /\ event # None => event.from # g
  BY <1>1, NoCall DEF Waits
<1>12. Waits(g)' /\ \A h \in Goroutine : Waits(h) => Waits(h)'
  BY <1>1, <1>3, <1>9 DEF Waits
<1>13. \A i \in DOMAIN cmdCh : cmdCh[i].from \in Goroutine \cup {None}
  <2>1. \A i \in DOMAIN cmdCh : cmdCh[i] \in Command
    <3> HIDE DEF Command
    <3> QED
      BY <1>6, SMT
  <2> QED
    BY <2>1 DEF Command
<1>14. QueueIsOwn'
  <2> SUFFICES ASSUME NEW i \in DOMAIN cmdCh', cmdCh'[i].from # None
               PROVE  (/\ Waits(cmdCh[i].from) /\ call[cmdCh[i].from] = cmdCh[i].kind
                       /\ \A j \in DOMAIN cmdCh : i # j => cmdCh[j].from # cmdCh[i].from)'
    BY DEF QueueIsOwn
  <2>1. CASE i \in DOMAIN cmdCh
    <3>1. /\ Waits(cmdCh[i].from) /\ call[cmdCh[i].from] = cmdCh[i].kind
          /\ \A j \in DOMAIN cmdCh : i # j => cmdCh[j].from # cmdCh[i].from
      BY <1>7, <2>1 DEF Calling, QueueIsOwn
    <3>2. cmdCh'[i] = cmdCh[i] /\ cmdCh[i].from \in Goroutine
      BY <1>7, <1>13, <2>1
    <3>3. Waits(cmdCh[i].from)'
      BY <1>12, <3>1, <3>2 DEF Waits
    <3>4. ASSUME NEW j \in DOMAIN cmdCh', i # j PROVE cmdCh'[j].from # cmdCh'[i].from
      BY <1>5, <1>7, <1>11, <2>1, <3>1, <3>2, <3>4
    <3> QED
      BY <1>1, <3>1, <3>2, <3>3, <3>4
  <2>2. CASE i = Len(cmdCh) + 1
    <3>1. cmdCh'[i].from = g /\ cmdCh'[i].kind = call[g]
      BY <1>5, <1>7, <2>2
    <3>2. ASSUME NEW j \in DOMAIN cmdCh', i # j PROVE cmdCh'[j].from # g
      BY <1>7, <1>11, <2>2, <3>2
    <3> QED
      BY <1>1, <1>12, <3>1, <3>2 DEF Waits
  <2> QED
    BY <1>7, <2>1, <2>2
<1>15. EventIsOwn'
  <2>1. (pc[Room] = "loop" <=> event = None)'
    BY <1>1, <1>9, Names DEF Calling, EventIsOwn
  <2>2. ASSUME event # None, event.from # None
        PROVE  (Waits(event.from) /\ \A i \in DOMAIN cmdCh : cmdCh[i].from # event.from)'
    <3>1. event.from \in Goroutine
      BY <2>2 DEF TypeOK, Event
    <3>2. Waits(event.from)'
      BY <1>1, <1>12, <2>2, <3>1 DEF Calling, EventIsOwn, Waits
    <3>3. \A i \in DOMAIN cmdCh' : cmdCh'[i].from # event.from
      BY <1>5, <1>7, <1>11, <2>2 DEF Calling, EventIsOwn
    <3> QED
      BY <1>1, <3>2, <3>3
  <2> QED
    BY <1>1, <2>1, <2>2 DEF EventIsOwn
<1>16. ASSUME NEW h \in Goroutine PROVE BoxIsOwn(h)'
  <2>1. BoxIsOwn(h)
    BY DEF Calling
  <2>2. None # Err
    BY DeliveryAssumption, SMT DEF Err
  <2> QED
    BY <1>1, <1>3, <1>9, <2>1, <2>2 DEF BoxIsOwn
<1>17. ActorIsOwn'
  BY <1>1, <1>9, Names DEF Calling, ActorIsOwn
<1>18. ASSUME Present PROVE Present'
  <2>1. ASSUME NEW i \in DOMAIN cmdCh', cmdCh'[i].kind = "reconnect"
        PROVE  cmdCh'[i].from = Read(cmdCh'[i].player)
    <3>1. CASE i \in DOMAIN cmdCh
      BY <1>7, <1>18, <2>1, <3>1 DEF Present
    <3>2. CASE i = Len(cmdCh) + 1
      <4>1. call[g] = "reconnect" /\ cmdCh'[i].from = g /\ cmdCh'[i].player = ConnOf(g)
        BY <1>5, <1>7, <2>1, <3>2
      <4>2. PICK c \in Conn : g = Read(c)
        BY <1>2, <4>1 DEF BoxIsOwn
      <4>3. ConnOf(g) = c
        BY <4>2, Names DEF ConnOf
      <4> QED
        BY <4>1, <4>2, <4>3
    <3> QED
      BY <1>7, <3>1, <3>2
  <2>2. ASSUME NEW c \in connected PROVE (c \in hub \/ Leaving(c) \/ Back(c))'
    <3>1. CASE c \in hub
      BY <1>1, <3>1
    <3>2. CASE \E i \in DOMAIN cmdCh : cmdCh[i].kind = "disconnect" /\ cmdCh[i].player = c
      BY <1>7, <3>2 DEF Leaving
    <3>3. ASSUME NEW h \in Goroutine, pc[h] = "send", call[h] = "disconnect", ConnOf(h) = c
          PROVE  Leaving(c)'
      <4>1. CASE h = g
        <5>1. Len(cmdCh) + 1 \in DOMAIN cmdCh'
          BY <1>6, <1>7, SMT
        <5> QED
          BY <1>5, <1>7, <3>3, <4>1, <5>1 DEF Leaving
      <4>2. CASE h # g
        BY <1>1, <1>9, <3>3, <4>2 DEF Leaving, ConnOf
      <4> QED
        BY <4>1, <4>2
    <3>4. CASE Back(c)
      <4>1. Read(c) \in Goroutine
        BY Names DEF TypeOK
      <4>2. Read(c) # g
        BY <1>1, <1>11, <3>4 DEF Back
      <4> QED
        BY <1>1, <1>9, <3>4, <4>1, <4>2 DEF Back
    <3> QED
      BY <1>18, <3>1, <3>2, <3>3, <3>4 DEF Present, Leaving
  <2> QED
    BY <1>1, <2>1, <2>2 DEF Present
<1> QED
  BY <1>10, <1>14, <1>15, <1>16, <1>17, <1>18 DEF Calling

\* The next command, which the actor takes from the channel.
LEMMA TakeFacts ==
  ASSUME DeliveryInv, NEW kind, Take(kind)
  PROVE  /\ pc[Room] = "loop" /\ event = None /\ Head(cmdCh) \in Command
         /\ Head(cmdCh) = cmdCh[1] /\ cmdCh[1].kind = kind /\ 1 \in DOMAIN cmdCh
         /\ cmdCh' \in Seq(Command) /\ Len(cmdCh') <= CmdCap
         /\ \A i \in DOMAIN cmdCh' : i + 1 \in DOMAIN cmdCh /\ cmdCh'[i] = cmdCh[i + 1] /\ i + 1 # 1
         /\ \A i \in DOMAIN cmdCh : i # 1 => i - 1 \in DOMAIN cmdCh' /\ cmdCh'[i - 1] = cmdCh[i]
<1> USE DEF DeliveryInv
<1>1. cmdCh \in Seq(Command) /\ cmdCh # <<>> /\ cmdCh' = Tail(cmdCh) /\ Len(cmdCh) <= CmdCap
  BY DEF Take, TypeOK
<1>2. Len(cmdCh) \in Nat \ {0} /\ DOMAIN cmdCh = 1..Len(cmdCh)
  BY <1>1, HeadTailFacts, SMT
<1>3. /\ Tail(cmdCh) \in Seq(Command) /\ Len(Tail(cmdCh)) = Len(cmdCh) - 1
      /\ \A i \in 1..(Len(cmdCh) - 1) : Tail(cmdCh)[i] = cmdCh[i + 1]
      /\ Head(cmdCh) = cmdCh[1] /\ Head(cmdCh) \in Command
  <2> HIDE DEF Command
  <2> QED
    BY <1>1, <1>2, HeadTailFacts
<1>4. DOMAIN cmdCh' = 1..(Len(cmdCh) - 1)
  <2> HIDE DEF Command
  <2> QED
    BY <1>1, <1>3, SMT
<1>5. Len(cmdCh') <= CmdCap
  BY <1>1, <1>2, <1>3, DeliveryAssumption, SMT
<1>6. pc[Room] = "loop" /\ event = None /\ Head(cmdCh).kind = kind
  BY DEF Take, Calling, EventIsOwn
<1>7. ASSUME NEW i \in DOMAIN cmdCh'
      PROVE  i + 1 \in DOMAIN cmdCh /\ cmdCh'[i] = cmdCh[i + 1] /\ i + 1 # 1
  BY <1>1, <1>2, <1>3, <1>4, SMT
<1>8. ASSUME NEW i \in DOMAIN cmdCh, i # 1
      PROVE  i - 1 \in DOMAIN cmdCh' /\ cmdCh'[i - 1] = cmdCh[i]
  <2>1. i - 1 \in 1..(Len(cmdCh) - 1) /\ (i - 1) + 1 = i
    BY <1>2, <1>8, SMT
  <2> QED
    BY <1>1, <1>3, <1>4, <2>1
<1>9. 1 \in DOMAIN cmdCh
  BY <1>2, SMT
<1> QED
  BY <1>1, <1>3, <1>5, <1>6, <1>7, <1>8, <1>9

\* A command is answered at once, or after the broadcast that it begins.
Answers(kind, answer) ==
  /\ Take(kind) /\ UNCHANGED otherVars
  /\ seq' \in 0..MaxSeq /\ connected' \subseteq Conn /\ answer \in Err..MaxSeq
  /\ \/ Reply(answer) /\ (kind = "reconnect" => answer # Err)
     \/ answer \in 0..MaxSeq /\ \E m \in Message : Broadcast(m, Head(cmdCh).from, answer)

\* Whoever waited for the command that the actor takes has the answer or the broadcast.
LEMMA AnswerKeepsCalls ==
  ASSUME DeliveryInv, NEW kind, NEW answer, Answers(kind, answer)
  PROVE  DeliveryInv'
<1> USE DEF DeliveryInv
<1> DEFINE from == Head(cmdCh).from
<1>1. /\ pc[Room] = "loop" /\ event = None /\ Head(cmdCh) \in Command
      /\ Head(cmdCh) = cmdCh[1] /\ cmdCh[1].kind = kind /\ 1 \in DOMAIN cmdCh
      /\ cmdCh' \in Seq(Command) /\ Len(cmdCh') <= CmdCap
      /\ \A i \in DOMAIN cmdCh' : i + 1 \in DOMAIN cmdCh /\ cmdCh'[i] = cmdCh[i + 1] /\ i + 1 # 1
  BY TakeFacts DEF Answers
<1>2. from \in Goroutine \cup {None}
  BY <1>1 DEF Command
<1>3. from # None => /\ Waits(from) /\ call[from] = kind
                     /\ \A i \in DOMAIN cmdCh' : cmdCh'[i].from # from
  BY <1>1, SMT DEF Calling, QueueIsOwn
<1>4. /\ UNCHANGED <<hub, inRoom, send, once, victim, call, calls, base, got>>
      /\ seq' \in 0..MaxSeq /\ connected' \subseteq Conn
  BY DEF Answers, otherVars, clientVars
<1> HIDE DEF from
<1>5. ASSUME NEW i \in DOMAIN cmdCh', cmdCh'[i].from # None
      PROVE  /\ Waits(cmdCh'[i].from) /\ call[cmdCh'[i].from] = cmdCh'[i].kind
             /\ \A j \in DOMAIN cmdCh' : i # j => cmdCh'[j].from # cmdCh'[i].from
             /\ cmdCh'[i].from \in Goroutine \ {from}
  <2>1. i + 1 \in DOMAIN cmdCh /\ cmdCh'[i] = cmdCh[i + 1]
    BY <1>1
  <2>2. /\ Waits(cmdCh'[i].from) /\ call[cmdCh'[i].from] = cmdCh'[i].kind
        /\ \A k \in DOMAIN cmdCh : i + 1 # k => cmdCh[k].from # cmdCh'[i].from
    BY <1>5, <2>1 DEF Calling, QueueIsOwn
  <2>3. ASSUME NEW j \in DOMAIN cmdCh', i # j PROVE cmdCh'[j].from # cmdCh'[i].from
    <3>1. j + 1 \in DOMAIN cmdCh /\ cmdCh'[j] = cmdCh[j + 1]
      BY <1>1
    <3>2. i \in Int /\ j \in Int
      BY <1>1, SMT
    <3>3. i + 1 # j + 1
      BY <2>3, <3>2, SMT
    <3> QED
      BY <2>2, <3>1, <3>3
  <2>4. cmdCh'[i] \in Command
    <3> HIDE DEF Command
    <3> QED
      BY <1>1, SMT
  <2>5. cmdCh'[i].from \in Goroutine
    BY <1>5, <2>4 DEF Command
  <2>6. from # cmdCh'[i].from
    BY <1>3, <1>5
  <2> QED
    BY <2>2, <2>3, <2>5, <2>6
<1>6. None # Err /\ None \notin Int /\ None \notin Event
  BY DeliveryAssumption, SMT DEF Err
<1>7. CASE Reply(answer) /\ (kind = "reconnect" => answer # Err)
  <2>1. /\ event' = event /\ pc' = pc
        /\ box' = IF from = None THEN box ELSE [box EXCEPT ![from] = answer]
    BY <1>7 DEF Reply, from
  <2>2. box \in [Goroutine -> Err..MaxSeq \cup {None}] /\ answer \in Err..MaxSeq \cup {None}
    BY DEF TypeOK, Answers
  <2>3. /\ box' \in [Goroutine -> Err..MaxSeq \cup {None}]
        /\ \A h \in Goroutine : box'[h] = IF h = from THEN answer ELSE box[h]
    <3>1. CASE from = None
      BY <2>1, <2>2, <3>1, Names
    <3>2. CASE from # None
      BY <1>2, <2>1, <2>2, <3>2
    <3> QED
      BY <3>1, <3>2
  <2>4. TypeOK'
    BY <1>1, <1>4, <2>1, <2>3 DEF TypeOK
  <2>5. QueueIsOwn'
    BY <1>4, <1>5, <2>1, <2>3 DEF QueueIsOwn, Waits
  <2>6. EventIsOwn'
    BY <1>1, <2>1 DEF EventIsOwn
  <2>7. ActorIsOwn'
    BY <1>4, <2>1 DEF Calling, ActorIsOwn
  <2>8. ASSUME NEW h \in Goroutine PROVE BoxIsOwn(h)'
    <3>1. BoxIsOwn(h)
      BY DEF Calling
    <3>2. CASE h = from
      <4>1. box'[h] = answer /\ pc'[h] = "wait" /\ call'[h] = kind
        BY <1>3, <1>4, <2>1, <2>3, <3>2, Names DEF Waits
      <4> QED
        BY <1>4, <1>7, <2>1, <3>1, <4>1 DEF BoxIsOwn
    <3>3. CASE h # from
      BY <1>4, <2>1, <2>3, <3>1, <3>3 DEF BoxIsOwn
    <3> QED
      BY <3>2, <3>3
  <2> QED
    BY <2>4, <2>5, <2>6, <2>7, <2>8 DEF Calling
<1>8. ASSUME NEW m \in Message, Broadcast(m, from, answer), answer \in 0..MaxSeq
      PROVE  DeliveryInv'
  <2>1. /\ event' = [msg |-> m, to |-> hub, from |-> from, answer |-> answer]
        /\ pc' = [pc EXCEPT ![Room] = "broadcast"] /\ box' = box
    BY <1>8 DEF Broadcast
  <2>2. hub \subseteq Conn
    BY DEF TypeOK
  <2>3. event' \in Event /\ event'.from = from
    BY <1>2, <1>8, <2>1, <2>2 DEF Event
  <2>4. /\ pc' \in [Goroutine -> Steps] /\ pc'[Room] = "broadcast"
        /\ \A h \in Goroutine \ {Room} : pc'[h] = pc[h]
    BY <2>1, Names DEF TypeOK, Steps
  <2>5. TypeOK'
    BY <1>1, <1>4, <2>1, <2>3, <2>4 DEF TypeOK
  <2>6. \A h \in Goroutine : Waits(h) => Waits(h)'
    BY <1>1, <2>1, <2>4 DEF Waits
  <2>7. QueueIsOwn'
    BY <1>4, <1>5, <2>6 DEF QueueIsOwn, Waits
  <2>8. EventIsOwn'
    BY <1>2, <1>3, <1>6, <2>3, <2>4, <2>6 DEF EventIsOwn, Waits
  <2>9. ActorIsOwn'
    BY <2>4 DEF ActorIsOwn
  <2>10. ASSUME NEW h \in Goroutine PROVE BoxIsOwn(h)'
    <3>1. BoxIsOwn(h)
      BY DEF Calling
    <3> QED
      BY <1>1, <1>4, <2>1, <2>4, <3>1 DEF BoxIsOwn
  <2> QED
    BY <2>5, <2>7, <2>8, <2>9, <2>10 DEF Calling
<1> QED
  BY <1>7, <1>8 DEF Answers, from

\* It keeps everybody's presence: a Disconnect has been handled, and whom a Reconnect
\* lets in waits for its answer.
LEMMA AnswerKeepsPresent ==
  ASSUME DeliveryInv, Present, NEW kind, NEW answer, Answers(kind, answer),
         kind = "disconnect" => Head(cmdCh).player \notin connected',
         \A c \in connected' \ connected :
           /\ kind = "reconnect" /\ c = Head(cmdCh).player
           /\ \E m \in Message : Broadcast(m, Head(cmdCh).from, answer)
  PROVE  Present'
<1> USE DEF DeliveryInv
<1>1. /\ pc[Room] = "loop" /\ event = None /\ Head(cmdCh) \in Command
      /\ Head(cmdCh) = cmdCh[1] /\ cmdCh[1].kind = kind /\ 1 \in DOMAIN cmdCh
      /\ \A i \in DOMAIN cmdCh' : i + 1 \in DOMAIN cmdCh /\ cmdCh'[i] = cmdCh[i + 1]
      /\ \A i \in DOMAIN cmdCh : i # 1 => i - 1 \in DOMAIN cmdCh' /\ cmdCh'[i - 1] = cmdCh[i]
  BY TakeFacts DEF Answers
<1>2. UNCHANGED <<hub, victim, call>> /\ connected' \subseteq Conn
  BY DEF Answers, otherVars
<1>3. \A i \in DOMAIN cmdCh' :
        cmdCh'[i].kind = "reconnect" => cmdCh'[i].from = Read(cmdCh'[i].player)
  BY <1>1, SMT DEF Present
<1>4. /\ \A h \in Goroutine \ {Room} : pc'[h] = pc[h]
      /\ \A h \in Goroutine : box[h] # None => box'[h] # None
  <2>1. CASE Reply(answer)
    <3>1. answer # None
      BY DeliveryAssumption, SMT DEF Answers, Err
    <3>2. pc' = pc /\ box' = IF Head(cmdCh).from = None THEN box
                             ELSE [box EXCEPT ![Head(cmdCh).from] = answer]
      BY <2>1 DEF Reply
    <3>3. box \in [Goroutine -> Err..MaxSeq \cup {None}]
      BY DEF TypeOK
    <3> QED
      BY <3>1, <3>2, <3>3
  <2>2. CASE \E m \in Message : Broadcast(m, Head(cmdCh).from, answer)
    BY <2>2 DEF Broadcast, TypeOK
  <2> QED
    BY <2>1, <2>2 DEF Answers
<1>5. ASSUME NEW c \in connected', c \in connected
      PROVE  (c \in hub \/ Leaving(c) \/ Back(c))'
  <2>1. CASE c \in hub
    BY <1>2, <2>1
  <2>2. ASSUME NEW i \in DOMAIN cmdCh, cmdCh[i].kind = "disconnect", cmdCh[i].player = c
        PROVE  Leaving(c)'
    <3>1. i # 1
      BY <1>1, <1>5, <2>2
    <3> QED
      BY <1>1, <2>2, <3>1 DEF Leaving
  <2>3. ASSUME NEW h \in Goroutine, pc[h] = "send", call[h] = "disconnect", ConnOf(h) = c
        PROVE  Leaving(c)'
    <3>1. h # Room
      BY <1>1, <2>3
    <3> QED
      BY <1>2, <1>4, <2>3, <3>1 DEF Leaving, ConnOf
  <2>4. CASE Back(c)
    <3>1. Read(c) \in Goroutine \ {Room}
      BY <1>2, Names
    <3> QED
      BY <1>1, <1>2, <1>4, <2>4, <3>1 DEF Back
  <2> QED
    BY <1>5, <2>1, <2>2, <2>3, <2>4 DEF Present, Leaving
<1>6. ASSUME NEW c \in connected', c \notin connected PROVE Back(c)'
  <2>1. kind = "reconnect" /\ c = cmdCh[1].player
    BY <1>1, <1>6
  <2>2. PICK m \in Message : Broadcast(m, Head(cmdCh).from, answer)
    BY <1>6
  <2>3. cmdCh[1].from = Read(c)
    BY <1>1, <2>1 DEF Present
  <2>4. Read(c) # None
    BY <1>2, Names
  <2>5. call[Read(c)] = "reconnect"
    BY <1>1, <2>1, <2>3, <2>4 DEF Calling, QueueIsOwn
  <2>6. event'.from = Read(c)
    BY <1>1, <2>2, <2>3 DEF Broadcast
  <2>7. event' # None
    <3>1. event' = [msg |-> m, to |-> hub, from |-> Head(cmdCh).from, answer |-> answer]
      BY <2>2 DEF Broadcast
    <3>2. pc'[Room] = "broadcast"
      BY <2>2, Names DEF Broadcast, TypeOK
    <3>3. DeliveryInv'
      BY AnswerKeepsCalls
    <3> QED
      BY <3>2, <3>3 DEF Calling, EventIsOwn
  <2> QED
    BY <1>2, <2>5, <2>6, <2>7 DEF Back
<1> QED
  BY <1>3, <1>5, <1>6 DEF Present

\* The handlers of the commands.
LEMMA HandlersKeep ==
  ASSUME DeliveryInv, HandleAction \/ HandleSnapshot \/ HandleDisconnect \/ HandleReconnect
  PROVE  DeliveryInv' /\ (Present => Present')
<1> USE DEF DeliveryInv
<1>1. seq \in 0..MaxSeq /\ connected \subseteq Conn /\ hub \subseteq Conn
  BY DEF TypeOK
<1>2. seq \in Err..MaxSeq /\ seq # Err /\ Err \in Err..MaxSeq
  BY <1>1, DeliveryAssumption, SMT DEF Err
<1>3. Note \in Message
  BY DeliveryAssumption, SMT DEF Note, Message
<1>4. CASE HandleAction
  <2>1. Take("action") /\ UNCHANGED otherVars /\ connected' = connected
    BY <1>4 DEF HandleAction, Advance, roomVars
  <2>2. CASE seq < MaxSeq /\ Advance(Head(cmdCh).from)
    <3>1. seq' = seq + 1 /\ Broadcast(Diff(seq + 1), Head(cmdCh).from, seq)
      BY <2>2 DEF Advance
    <3>2. seq + 1 \in 0..MaxSeq
      BY <1>1, <2>2, DeliveryAssumption, SMT
    <3>3. Diff(seq + 1) \in Message
      BY <3>2 DEF Diff, Message
    <3>4. Answers("action", seq)
      BY <1>1, <1>2, <2>1, <3>1, <3>2, <3>3 DEF Answers
    <3> QED
      BY <2>1, <3>4, AnswerKeepsCalls, AnswerKeepsPresent
  <2>3. CASE Reply(Err) /\ UNCHANGED roomVars
    <3>1. Answers("action", Err)
      BY <1>1, <1>2, <2>1, <2>3 DEF Answers, roomVars
    <3> QED
      BY <2>1, <3>1, AnswerKeepsCalls, AnswerKeepsPresent
  <2> QED
    BY <1>4, <2>2, <2>3 DEF HandleAction
<1>5. CASE HandleSnapshot
  <2>1. Answers("snapshot", seq) /\ connected' = connected
    BY <1>1, <1>2, <1>5 DEF Answers, HandleSnapshot, roomVars
  <2> QED
    BY <2>1, AnswerKeepsCalls, AnswerKeepsPresent
<1>6. CASE HandleDisconnect
  <2>1. Answers("disconnect", seq)
    BY <1>1, <1>2, <1>3, <1>6 DEF Answers, HandleDisconnect
  <2>2. connected' = connected \ {Head(cmdCh).player}
    BY <1>6 DEF HandleDisconnect, player
  <2> QED
    BY <2>1, <2>2, AnswerKeepsCalls, AnswerKeepsPresent
<1>7. CASE HandleReconnect
  <2>1. Head(cmdCh).player \in Conn
    BY <1>7, TakeFacts DEF HandleReconnect, Command
  <2>2. connected' = connected \cup {Head(cmdCh).player}
    BY <1>7 DEF HandleReconnect, player
  <2>3. Answers("reconnect", seq)
    BY <1>1, <1>2, <1>3, <1>7, <2>1, <2>2 DEF Answers, HandleReconnect
  <2>4. ASSUME NEW c \in connected' \ connected
        PROVE  /\ c = Head(cmdCh).player
               /\ \E m \in Message : Broadcast(m, Head(cmdCh).from, seq)
    BY <1>3, <1>7, <2>2, <2>4 DEF HandleReconnect, player
  <2> QED
    BY <2>3, <2>4, AnswerKeepsCalls, AnswerKeepsPresent
<1> QED
  BY <1>4, <1>5, <1>6, <1>7

\* A tick begins a broadcast that nobody waits for.
LEMMA TickKeeps ==
  ASSUME DeliveryInv, HandleTick
  PROVE  DeliveryInv' /\ (Present => Present')
<1> USE DEF DeliveryInv
<1>1. /\ pc[Room] = "loop" /\ seq < MaxSeq /\ seq' = seq + 1
      /\ event' = [msg |-> Diff(seq + 1), to |-> hub, from |-> None, answer |-> seq]
      /\ pc' = [pc EXCEPT ![Room] = "broadcast"] /\ box' = box
      /\ UNCHANGED <<connected, cmdCh, hub, inRoom, send, once, victim, call, calls, base, got>>
  BY DEF HandleTick, Advance, Broadcast, otherVars, clientVars
<1>2. seq \in 0..MaxSeq /\ hub \subseteq Conn /\ event = None
  BY <1>1 DEF TypeOK, Calling, EventIsOwn
<1>3. seq + 1 \in 0..MaxSeq
  BY <1>1, <1>2, DeliveryAssumption, SMT
<1>4. event' \in Event /\ event'.from = None
  BY <1>1, <1>2, <1>3 DEF Event, Message, Diff
<1>5. event' # None
  BY <1>4, DeliveryAssumption
<1>6. /\ pc' \in [Goroutine -> Steps] /\ pc'[Room] = "broadcast"
      /\ \A h \in Goroutine \ {Room} : pc'[h] = pc[h]
  BY <1>1, Names DEF TypeOK, Steps
<1>7. TypeOK'
  BY <1>1, <1>3, <1>4, <1>6 DEF TypeOK
<1>8. QueueIsOwn'
  <2>1. QueueIsOwn
    BY DEF Calling
  <2>2. \A h \in Goroutine : Waits(h) => h # Room /\ pc'[h] = "wait" /\ box'[h] = None
    BY <1>1, <1>6 DEF Waits
  <2>3. \A h \in Goroutine : Waits(h) => Waits(h)'
    BY <2>2 DEF Waits
  <2>4. \A i \in DOMAIN cmdCh : cmdCh[i] \in Command
    BY SMT DEF TypeOK
  <2>5. \A i \in DOMAIN cmdCh : cmdCh[i].from \in Goroutine \cup {None}
    BY <2>4 DEF Command
  <2> QED
    BY <1>1, <2>1, <2>3, <2>5 DEF QueueIsOwn
<1>9. EventIsOwn'
  BY <1>4, <1>5, <1>6 DEF EventIsOwn
<1>10. ActorIsOwn'
  BY <1>6 DEF ActorIsOwn
<1>11. ASSUME NEW h \in Goroutine PROVE BoxIsOwn(h)'
  <2>1. BoxIsOwn(h)
    BY DEF Calling
  <2> QED
    BY <1>1, <1>6, <2>1 DEF BoxIsOwn
<1>12. ASSUME Present PROVE Present'
  <2>1. ASSUME NEW c \in connected PROVE (c \in hub \/ Leaving(c) \/ Back(c))'
    <3>1. Read(c) \in Goroutine \ {Room}
      BY Names DEF TypeOK
    <3>2. CASE Leaving(c)
      BY <1>1, <1>6, <3>2 DEF Leaving, ConnOf
    <3>3. CASE Back(c)
      BY <1>1, <1>2, <1>6, <3>1, <3>3 DEF Back
    <3> QED
      BY <1>1, <1>12, <3>2, <3>3 DEF Present
  <2> QED
    BY <1>1, <1>12, <2>1 DEF Present
<1> QED
  BY <1>7, <1>8, <1>9, <1>10, <1>11, <1>12 DEF Calling

\* The broadcast is through, and whoever waits for it gets an answer.
LEMMA EndBroadcastKeeps ==
  ASSUME DeliveryInv, EndBroadcast
  PROVE  DeliveryInv' /\ (Present => Present')
<1> USE DEF DeliveryInv
<1> DEFINE from == event.from
<1>1. /\ pc[Room] = "broadcast" /\ event' = None /\ victim' = None
      /\ box' = IF from = None THEN box ELSE [box EXCEPT ![from] = event.answer]
      /\ pc' = [pc EXCEPT ![Room] = "loop"]
      /\ UNCHANGED <<seq, connected, cmdCh, hub, inRoom, send, once, call, calls, base, got>>
  BY DEF EndBroadcast, roomVars, clientVars
<1>2. event \in Event /\ event # None
  BY <1>1 DEF TypeOK, Calling, EventIsOwn
<1>3. from \in Goroutine \cup {None} /\ event.answer \in 0..MaxSeq
  BY <1>2 DEF Event
<1>4. from # None => Waits(from) /\ \A i \in DOMAIN cmdCh : cmdCh[i].from # from
  BY <1>2 DEF Calling, EventIsOwn
<1> HIDE DEF from
<1>5. event.answer \in Err..MaxSeq \cup {None} /\ event.answer # Err
  BY <1>3, DeliveryAssumption, SMT DEF Err
<1>6. event.answer # None
  BY <1>3, DeliveryAssumption, SMT
<1>7. /\ box' \in [Goroutine -> Err..MaxSeq \cup {None}]
      /\ \A h \in Goroutine : box'[h] = IF h = from THEN event.answer ELSE box[h]
  <2>1. box \in [Goroutine -> Err..MaxSeq \cup {None}]
    BY DEF TypeOK
  <2>2. CASE from = None
    BY <1>1, <2>1, <2>2, Names
  <2>3. CASE from # None
    BY <1>1, <1>3, <1>5, <2>1, <2>3
  <2> QED
    BY <2>2, <2>3
<1>8. /\ pc' \in [Goroutine -> Steps] /\ pc'[Room] = "loop"
      /\ \A h \in Goroutine \ {Room} : pc'[h] = pc[h]
  BY <1>1, Names DEF TypeOK, Steps
<1>9. TypeOK'
  BY <1>1, <1>7, <1>8 DEF TypeOK
<1>10. QueueIsOwn'
  <2>1. ASSUME NEW i \in DOMAIN cmdCh, cmdCh[i].from # None
        PROVE  /\ Waits(cmdCh[i].from)' /\ call[cmdCh[i].from] = cmdCh[i].kind
               /\ \A j \in DOMAIN cmdCh : i # j => cmdCh[j].from # cmdCh[i].from
    <3>1. /\ Waits(cmdCh[i].from) /\ call[cmdCh[i].from] = cmdCh[i].kind
          /\ \A j \in DOMAIN cmdCh : i # j => cmdCh[j].from # cmdCh[i].from
      BY <2>1 DEF Calling, QueueIsOwn
    <3>2. cmdCh[i] \in Command
      <4> HIDE DEF Command
      <4> QED
        BY SMT DEF TypeOK
    <3>3. cmdCh[i].from \in Goroutine
      BY <2>1, <3>2 DEF Command
    <3>4. cmdCh[i].from # Room /\ cmdCh[i].from # from
      BY <1>1, <1>4, <2>1, <3>1 DEF Waits
    <3>5. pc'[cmdCh[i].from] = "wait" /\ box'[cmdCh[i].from] = None
      BY <1>7, <1>8, <3>1, <3>3, <3>4 DEF Waits
    <3> QED
      BY <1>1, <3>1, <3>5 DEF Waits
  <2> QED
    BY <1>1, <2>1, SMT DEF QueueIsOwn, Waits
<1>11. EventIsOwn'
  BY <1>1, <1>8 DEF EventIsOwn
<1>12. ActorIsOwn'
  BY <1>8 DEF ActorIsOwn
<1>13. ASSUME NEW h \in Goroutine PROVE BoxIsOwn(h)'
  <2>1. BoxIsOwn(h)
    BY DEF Calling
  <2>2. CASE h = from
    <3>1. Waits(h) /\ h # Room
      BY <1>1, <1>4, <2>2, Names DEF Waits
    <3>2. pc'[h] = "wait" /\ box'[h] = event.answer
      BY <1>7, <1>8, <2>2, <3>1 DEF Waits
    <3> QED
      BY <1>1, <1>5, <2>1, <3>2 DEF BoxIsOwn
  <2>3. CASE h # from
    BY <1>1, <1>7, <1>8, <2>1, <2>3 DEF BoxIsOwn
  <2> QED
    BY <2>2, <2>3
<1>14. ASSUME Present PROVE Present'
  <2>1. ASSUME NEW c \in connected PROVE (c \in hub \/ Leaving(c) \/ Back(c))'
    <3>1. Read(c) \in Goroutine \ {Room} /\ Read(c) # None
      BY Names DEF TypeOK
    <3>2. CASE Leaving(c)
      BY <1>1, <1>8, <3>2 DEF Leaving, ConnOf
    <3>3. CASE event.from = Read(c) /\ call[Read(c)] = "reconnect"
      <4>1. from = Read(c)
        BY <3>3 DEF from
      <4>2. pc[Read(c)] = "wait"
        BY <1>4, <3>1, <4>1 DEF Waits
      <4> QED
        BY <1>1, <1>6, <1>7, <1>8, <3>1, <3>3, <4>1, <4>2 DEF Back
    <3>4. CASE \/ pc[Read(c)] = "register"
               \/ pc[Read(c)] = "wait" /\ call[Read(c)] = "reconnect" /\ box[Read(c)] # None
      BY <1>1, <1>6, <1>7, <1>8, <3>1, <3>4 DEF Back
    <3> QED
      BY <1>1, <1>14, <3>2, <3>3, <3>4 DEF Present, Back
  <2> QED
    BY <1>1, <1>14, <2>1 DEF Present
<1> QED
  BY <1>9, <1>10, <1>11, <1>12, <1>13, <1>14 DEF Calling

\* The client, and a step of something else.
LEMMA ElsewhereKeeps ==
  ASSUME DeliveryInv, TypeOK', UNCHANGED <<connected, cmdCh, event, hub, victim, pc, call, box>>
  PROVE  DeliveryInv' /\ (Present => Present')
<1>1. Calling'
  BY SMT DEF DeliveryInv, Calling, QueueIsOwn, EventIsOwn, ActorIsOwn, BoxIsOwn, Waits
<1>2. Present => Present'
  BY SMT DEF Present, Leaving, Back, ConnOf
<1> QED
  BY <1>1, <1>2 DEF DeliveryInv

\* What the client receives is of its type.
LEMMA WriteMessageType ==
  ASSUME TypeOK, NEW c \in Conn, WriteMessage(c)
  PROVE  TypeOK'
<1> DEFINE m == Head(send[c])
<1>1. /\ send[c] # <<>> /\ send' = [send EXCEPT ![c] = Tail(@)]
      /\ got' = IF m.kind = "diff" THEN [got EXCEPT ![c] = @ \cup {m.seq}] ELSE got
      /\ base' = IF m.kind = "snapshot" /\ (base[c] = None \/ m.seq > base[c])
                 THEN [base EXCEPT ![c] = m.seq] ELSE base
      /\ UNCHANGED <<seq, connected, cmdCh, event, hub, inRoom, once, victim, pc, call, box, calls>>
  BY DEF WriteMessage, roomVars
<1>2. send \in [Conn -> Seq(Message)] /\ send[c] \in Seq(Message) /\ Len(send[c]) <= SendCap
  BY DEF TypeOK
<1>3. m \in Message /\ Tail(send[c]) \in Seq(Message) /\ Len(Tail(send[c])) = Len(send[c]) - 1
      /\ Len(send[c]) \in Nat
  <2> HIDE DEF Message
  <2> QED
    BY <1>1, <1>2, HeadTailFacts
<1>4. m.seq \in 0..MaxSeq
  BY <1>3 DEF Message
<1> HIDE DEF m
<1>5. Len(Tail(send[c])) <= SendCap
  BY <1>2, <1>3, DeliveryAssumption, SMT
<1>6. send' \in [Conn -> Seq(Message)] /\ \A d \in Conn : Len(send'[d]) <= SendCap
  <2>1. \A d \in Conn : Len(send[d]) <= SendCap
    BY DEF TypeOK
  <2> HIDE DEF Message
  <2> QED
    BY <1>1, <1>2, <1>3, <1>5, <2>1
<1>7. got' \in [Conn -> SUBSET (0..MaxSeq)] /\ base' \in [Conn -> 0..MaxSeq \cup {None}]
  <2>1. got \in [Conn -> SUBSET (0..MaxSeq)] /\ base \in [Conn -> 0..MaxSeq \cup {None}]
    BY DEF TypeOK
  <2> QED
    BY <1>1, <1>4, <2>1
<1> QED
  BY <1>1, <1>6, <1>7 DEF TypeOK

-----------------------------------------------------------------------------
(***************************************************************************)
(* The theorems                                                             *)
(***************************************************************************)

\* Nothing is under way at the start, and whoever is connected is registered.
LEMMA InitHolds ==
  ASSUME Init
  PROVE  DeliveryInv /\ Present
<1> DEFINE start == {"loop", "dial", "off", "idle"}
<1>1. /\ seq = 0 /\ connected = Conn \ Resuming /\ cmdCh = <<>> /\ event = None
      /\ hub = Conn \ Resuming /\ inRoom = Conn \ Resuming
      /\ send = [c \in Conn |-> <<>>] /\ once = [c \in Conn |-> "open"] /\ victim = None
      /\ call = [g \in Goroutine |-> None] /\ box = [g \in Goroutine |-> None] /\ calls = 0
      /\ base = [c \in Conn |-> IF c \in Resuming THEN None ELSE 0] /\ got = [c \in Conn |-> {}]
  BY DEF Init
<1>2. /\ pc \in [Goroutine -> start] /\ pc[Room] = "loop"
  <2>1. pc = [g \in Goroutine |->
                CASE g = Room -> "loop"
                  [] g[1] \in Resuming -> IF g[2] = "read" THEN "dial" ELSE "off"
                  [] OTHER -> "idle"]
    BY DEF Init
  <2>2. pc[Room] = "loop"
    <3>1. Room[1] \notin Resuming
      BY DeliveryAssumption DEF Room
    <3> QED
      BY <2>1, <3>1, Names
  <2>3. ASSUME NEW g \in Goroutine, g # Room PROVE pc[g] \in start
    BY <2>1, <2>3
  <2> QED
    BY <2>1, <2>2, <2>3
<1>3. pc \in [Goroutine -> Steps]
  BY <1>2 DEF Steps
<1>4. None # Err /\ None \notin {"disconnect", "reconnect"} /\ 0 \in 0..MaxSeq /\ 0 \in 0..MaxCalls
  BY DeliveryAssumption, SMT DEF Err, Calls
<1>5. cmdCh \in Seq(Command) /\ Len(cmdCh) <= CmdCap /\ DOMAIN cmdCh = {}
  <2> HIDE DEF Command
  <2> QED
    BY <1>1, DeliveryAssumption, SMT
<1>6. send \in [Conn -> Seq(Message)] /\ \A c \in Conn : Len(send[c]) <= SendCap
  <2> HIDE DEF Message
  <2> QED
    BY <1>1, DeliveryAssumption, SMT
<1>7. TypeOK
  BY <1>1, <1>3, <1>4, <1>5, <1>6 DEF TypeOK
<1>8. QueueIsOwn /\ EventIsOwn /\ ActorIsOwn
  BY <1>1, <1>2, <1>5 DEF QueueIsOwn, EventIsOwn, ActorIsOwn
<1>9. ASSUME NEW g \in Goroutine PROVE BoxIsOwn(g)
  <2>1. box[g] = None /\ call[g] = None /\ pc[g] \in start
    BY <1>1, <1>2
  <2> QED
    BY <1>4, <2>1 DEF BoxIsOwn
<1>10. Present
  BY <1>1, <1>5 DEF Present
<1> QED
  BY <1>7, <1>8, <1>9, <1>10 DEF DeliveryInv, Calling

\* Every step keeps the invariants.
LEMMA NextKeeps ==
  ASSUME DeliveryInv, [Next]_vars
  PROVE  DeliveryInv' /\ (Patient /\ Present => Present')
<1>1. ASSUME NEW g \in Goroutine, Moves(g) PROVE DeliveryInv' /\ (Patient /\ Present => Present')
  BY <1>1, MoveKeepsCalls, MoveKeepsPresent
<1>2. CASE HandleAction \/ HandleSnapshot \/ HandleDisconnect \/ HandleReconnect
  BY <1>2, HandlersKeep
<1>3. CASE HandleTick
  BY <1>3, TickKeeps
<1>4. CASE EndBroadcast
  BY <1>4, EndBroadcastKeeps
<1>5. ASSUME NEW c \in Conn, Deliver(c) PROVE DeliveryInv' /\ (Patient /\ Present => Present')
  BY <1>1, <1>5, DeliverMoves, Names
<1>6. ASSUME NEW g \in Goroutine, Caller(g) PROVE DeliveryInv' /\ (Patient /\ Present => Present')
  BY <1>1, <1>6, SendKeeps, ReturnMoves, ContextDoneMoves, OnceDoneMoves DEF Caller
<1>7. ASSUME NEW c \in Conn,
             \/ Dial(c) \/ Register(c) \/ SendSnapshot(c) \/ PumpEnds(c)
             \/ \E what \in {"action", "snapshot"} : ReadMessage(c, what)
      PROVE  DeliveryInv' /\ (Patient /\ Present => Present')
  BY <1>1, <1>7, DialMoves, RegisterMoves, SendSnapshotMoves, PumpEndsMoves, ReadMessageMoves, Names, SMT
<1>8. ASSUME NEW c \in Conn, WriteMessage(c) PROVE DeliveryInv' /\ (Patient /\ Present => Present')
  <2>1. TypeOK'
    BY <1>8, WriteMessageType DEF DeliveryInv
  <2>2. UNCHANGED <<connected, cmdCh, event, hub, victim, pc, call, box>>
    BY <1>8 DEF WriteMessage, roomVars
  <2> QED
    BY <2>1, <2>2, ElsewhereKeeps
<1>9. CASE UNCHANGED vars
  <2>1. TypeOK' /\ UNCHANGED <<connected, cmdCh, event, hub, victim, pc, call, box>>
    BY <1>9 DEF DeliveryInv, TypeOK, vars
  <2> QED
    BY <2>1, ElsewhereKeeps
<1> QED
  BY <1>2, <1>3, <1>4, <1>5, <1>6, <1>7, <1>8, <1>9 DEF Next, Actor

\* Every state of the actor, the pumps and the channels is of its type, the capacities of
\* cmdCh and send included, and every call that somebody waits for is in exactly one place:
\* in cmdCh, in the broadcast under way, or answered (submit, handle, Broadcast, Close).
THEOREM DeliveryCorrect == Spec => []DeliveryInv
<1>1. Init => DeliveryInv
  BY InitHolds
<1>2. DeliveryInv /\ [Next]_vars => DeliveryInv'
  BY NextKeeps
<1> QED
  BY <1>1, <1>2, PTL DEF Spec

\* Every variable keeps its type.
THEOREM TypeCorrect == Spec => []TypeOK
<1>1. DeliveryInv => TypeOK
  BY DEF DeliveryInv
<1> QED
  BY <1>1, DeliveryCorrect, PTL

\* Whoever counts as connected has a registration, is just being resumed, or has a
\* Disconnect on its way to the room (tryResume, onConnectionClosed), as long as nobody
\* gives up on the Reconnect of a resume.
THEOREM PresentReachable ==
  ASSUME "reconnect" \notin TimesOut
  PROVE  Spec => []PresentIsReachable
<1>1. Init => DeliveryInv /\ Present
  BY InitHolds
<1>2. DeliveryInv /\ Present /\ [Next]_vars => DeliveryInv' /\ Present'
  BY NextKeeps DEF Patient
<1>3. Present => PresentIsReachable
  BY DEF Present, PresentIsReachable, Back, Window
<1> QED
  BY <1>1, <1>2, <1>3, PTL DEF Spec

-----------------------------------------------------------------------------
(***************************************************************************)
(* No change is missed                                                      *)
(*                                                                          *)
(* Unless the game changes while a player is resumed: the diff between the  *)
(* snapshot and the registration reaches nobody.                            *)
(***************************************************************************)

Queued(c) == {send[c][i] : i \in DOMAIN send[c]}

\* The client has, or will have, the diff with this number.
Has(c, i) ==
  \/ i \in got[c] \/ Diff(i) \in Queued(c)
  \/ event # None /\ c \in event.to /\ event.msg = Diff(i)

\* The client has, or will have, a snapshot with this number.
Starts(c, s) ==
  \/ base[c] = s \/ Snap(s) \in Queued(c)
  \/ pc[Read(c)] = "snapshot" /\ box[Read(c)] = s

FeedsOn(c) == \E s \in 0..seq : Starts(c, s) /\ \A i \in (s + 1)..seq : Has(c, i)

\* No message and no answer is ahead of the room.
Numbered ==
  /\ \A c \in Conn : /\ got[c] \subseteq 0..seq /\ (base[c] # None => base[c] <= seq)
                     /\ \A m \in Queued(c) : m.seq <= seq
  /\ event # None => event.msg.seq <= seq /\ event.answer <= seq /\ event.to \subseteq inRoom
  /\ \A g \in Goroutine : box[g] # None => box[g] <= seq

\* Whoever disconnects a player has taken the connection out of the hub before.
ClosedOut ==
  /\ \A c \in Conn : once[c] # "open" => c \notin hub
  /\ \A g \in Goroutine :
       pc[g] \in {"send", "wait"} /\ call[g] = "disconnect" => once[ConnOf(g)] # "open"

\* The connection is being resumed, and not registered yet.
Fresh(c) ==
  \/ pc[Read(c)] \in {"dial", "register"}
  \/ pc[Read(c)] \in {"send", "wait"} /\ call[Read(c)] = "reconnect"

\* Nobody else knows it.
Unknown(c) == Fresh(c) => once[c] = "open" /\ pc[Write(c)] = "off" /\ c \notin inRoom

\* The answer to a Reconnect is the state of the room until the connection is registered.
Current(c) ==
  /\ pc[Read(c)] = "register" \/ (pc[Read(c)] = "wait" /\ call[Read(c)] = "reconnect")
  /\ box[Read(c)] # None
  => box[Read(c)] = seq

EventCurrent ==
  event # None /\ event.from # None /\ call[event.from] = "reconnect" => event.answer = seq

\* The inductive invariant behind CaughtUp.
Feeding ==
  /\ Numbered /\ ClosedOut /\ EventCurrent
  /\ \A c \in Conn : Unknown(c) /\ Current(c) /\ (c \in hub => FeedsOn(c))

\* A pump is one of the two of its connection.
LEMMA PumpNames ==
  ASSUME NEW g \in Goroutine, g # Room
  PROVE  g[1] \in Conn /\ (g = Read(g[1]) \/ g = Write(g[1]))
<1>1. PICK c \in Conn, s \in {"read", "write"} : g = <<c, s>>
  BY SMT DEF Goroutine
<1> QED
  BY <1>1, SMT DEF Read, Write

\* What is on its way to the client stays so, or is in its channel.
LEMMA FeedsStay ==
  ASSUME NEW c, FeedsOn(c), seq' = seq, base'[c] = base[c], got'[c] = got[c],
         Queued(c) \subseteq Queued(c)',
         event # None /\ c \in event.to =>
           (event' # None /\ c \in event'.to /\ event'.msg = event.msg) \/ event.msg \in Queued(c)',
         pc[Read(c)] = "snapshot" =>
           \/ pc'[Read(c)] = "snapshot" /\ box'[Read(c)] = box[Read(c)]
           \/ Snap(box[Read(c)]) \in Queued(c)'
  PROVE  FeedsOn(c)'
<1>1. PICK s \in 0..seq : Starts(c, s) /\ \A i \in (s + 1)..seq : Has(c, i)
  BY DEF FeedsOn
<1>2. Starts(c, s)'
  BY <1>1 DEF Starts
<1>3. \A i : Has(c, i) => Has(c, i)'
  BY DEF Has
<1> QED
  BY <1>1, <1>2, <1>3 DEF FeedsOn

\* Append adds one message to a channel.
LEMMA QueuedMore ==
  ASSUME NEW c, send[c] \in Seq(Message), NEW m \in Message, send'[c] = Append(send[c], m)
  PROVE  Queued(c)' = Queued(c) \cup {m}
<1> HIDE DEF Message
<1>1. /\ Len(send[c]) \in Nat /\ DOMAIN send[c] = 1..Len(send[c])
      /\ DOMAIN send'[c] = 1..(Len(send[c]) + 1)
      /\ \A i \in 1..Len(send[c]) : send'[c][i] = send[c][i]
      /\ send'[c][Len(send[c]) + 1] = m
  BY AppendFacts, SMT
<1>2. 1..(Len(send[c]) + 1) = 1..Len(send[c]) \cup {Len(send[c]) + 1}
  BY <1>1, SMT
<1>3. ASSUME NEW x PROVE x \in Queued(c)' <=> x \in Queued(c) \cup {m}
  <2>1. x \in Queued(c)' <=> \E i \in 1..(Len(send[c]) + 1) : x = send'[c][i]
    BY <1>1 DEF Queued
  <2>2. x \in Queued(c) <=> \E i \in 1..Len(send[c]) : x = send[c][i]
    BY <1>1 DEF Queued
  <2> QED
    BY <1>1, <1>2, <2>1, <2>2
<1> QED
  BY <1>3

\* A channel holds messages.
LEMMA QueuedMessages ==
  ASSUME TypeOK, NEW c \in Conn
  PROVE  \A m \in Queued(c) : m \in Message
<1> HIDE DEF Message
<1>1. send[c] \in Seq(Message)
  BY DEF TypeOK
<1>2. \A i \in DOMAIN send[c] : send[c][i] \in Message
  BY <1>1, SMT
<1> QED
  BY <1>2 DEF Queued

\* What the step of g, which works for c, has to do with other connections.
Elsewhere(c) ==
  \A d \in Conn \ {c} :
    /\ send'[d] = send[d] /\ once'[d] = once[d] /\ (d \in hub' <=> d \in hub)
    /\ (d \in inRoom' <=> d \in inRoom) /\ (pc[Write(d)] = "off" => pc'[Write(d)] = "off")
    /\ event # None /\ d \in event.to => d \in event'.to

\* With the broadcast under way.
EventStays(g) ==
  /\ event' = None <=> event = None
  /\ event # None =>
       /\ event'.msg = event.msg /\ event'.answer = event.answer /\ event'.to \subseteq event.to
       /\ event'.from # None => event'.from = event.from /\ event.from # g

\* And with its own connection.
Here(g, c) ==
  /\ \A m \in Queued(c)' : m.seq <= seq
  /\ c \in inRoom => c \in inRoom'
  /\ box'[g] \in {box[g], None}
  /\ once[c] # "open" => once'[c] # "open"
  /\ once'[c] # "open" => c \notin hub'
  /\ pc'[g] \in {"send", "wait"} /\ call'[g] = "disconnect" => once'[c] # "open"
  /\ Unknown(c)' /\ (g = Read(c) => Current(c)') /\ (c \in hub' => FeedsOn(c)')

StepFor(g, c) ==
  /\ g \in {Room, Read(c), Write(c)} /\ ConnOf(g)' = c /\ (g # Room => victim' = victim)
  /\ seq' = seq /\ base' = base /\ got' = got
  /\ OnlyMoves(g) /\ Elsewhere(c) /\ EventStays(g) /\ Here(g, c)

\* A step of one goroutine feeds its connection and leaves the others alone.
LEMMA StepFeeds ==
  ASSUME DeliveryInv, Feeding, TypeOK', NEW g \in Goroutine, NEW c \in Conn, StepFor(g, c)
  PROVE  Feeding'
<1> USE DEF StepFor
<1>1. \A d \in Conn : Queued(d)' = Queued(d) \/ d = c
  BY DEF Elsewhere, Queued
<1>2. Numbered'
  <2>1. ASSUME NEW d \in Conn
        PROVE  /\ got'[d] \subseteq 0..seq' /\ (base'[d] # None => base'[d] <= seq')
               /\ \A m \in Queued(d)' : m.seq <= seq'
    BY <1>1 DEF Feeding, Numbered, Here
  <2>2. ASSUME event' # None
        PROVE  event'.msg.seq <= seq' /\ event'.answer <= seq' /\ event'.to \subseteq inRoom'
    <3>1. event # None /\ event'.msg = event.msg /\ event'.answer = event.answer
          /\ event'.to \subseteq event.to
      BY <2>2 DEF EventStays
    <3>2. event.msg.seq <= seq /\ event.answer <= seq /\ event.to \subseteq inRoom
      BY <3>1 DEF Feeding, Numbered
    <3>3. inRoom \subseteq inRoom'
      BY DEF DeliveryInv, TypeOK, Elsewhere, Here
    <3> QED
      BY <3>1, <3>2, <3>3
  <2>3. ASSUME NEW h \in Goroutine, box'[h] # None
        PROVE  box'[h] <= seq'
    BY <2>3 DEF OnlyMoves, Here, Feeding, Numbered
  <2> QED
    BY <2>1, <2>2, <2>3 DEF Numbered
<1>3. ClosedOut'
  <2>1. ASSUME NEW d \in Conn, once'[d] # "open"
        PROVE  d \notin hub'
    BY <2>1 DEF Elsewhere, Here, Feeding, ClosedOut
  <2>2. ASSUME NEW h \in Goroutine, pc'[h] \in {"send", "wait"}, call'[h] = "disconnect"
        PROVE  once'[ConnOf(h)'] # "open"
    <3>1. CASE h = g
      BY <2>2, <3>1 DEF Here
    <3>2. CASE h # g
      <4>1. pc[h] \in {"send", "wait"} /\ call[h] = "disconnect"
        BY <2>2, <3>2 DEF OnlyMoves
      <4>2. once[ConnOf(h)] # "open"
        BY <4>1 DEF Feeding, ClosedOut
      <4>3. ConnOf(h)' = ConnOf(h)
        BY <3>2 DEF ConnOf
      <4>4. ConnOf(h) \in Conn
        <5>1. CASE h = Room
          BY <4>1, <5>1 DEF ConnOf, DeliveryInv, Calling, ActorIsOwn
        <5>2. CASE h # Room
          BY <5>2, PumpNames DEF ConnOf
        <5> QED
          BY <5>1, <5>2
      <4> QED
        BY <4>2, <4>3, <4>4 DEF Elsewhere, Here
    <3> QED
      BY <3>1, <3>2
  <2> QED
    BY <2>1, <2>2 DEF ClosedOut
<1>4. EventCurrent'
  <2> SUFFICES ASSUME event' # None, event'.from # None, call'[event'.from] = "reconnect"
               PROVE  event'.answer = seq'
    BY DEF EventCurrent
  <2>1. event # None /\ event'.answer = event.answer /\ event'.from = event.from /\ event.from # g
    BY DEF EventStays
  <2>2. event.from \in Goroutine
    BY <2>1 DEF DeliveryInv, TypeOK, Event
  <2>3. call[event.from] = "reconnect"
    BY <2>1, <2>2 DEF OnlyMoves
  <2> QED
    BY <2>1, <2>3 DEF Feeding, EventCurrent
<1>5. ASSUME NEW d \in Conn, d # c
      PROVE  Unknown(d)' /\ Current(d)' /\ (d \in hub' => FeedsOn(d)')
  <2>1. Read(d) \in Goroutine \ {g} /\ Write(d) \in Goroutine \ {g}
    BY <1>5, Names DEF Read, Write
  <2>2. /\ call'[Read(d)] = call[Read(d)] /\ box'[Read(d)] = box[Read(d)]
        /\ pc'[Read(d)] = pc[Read(d)] \/ (pc[Read(d)] = "off" /\ pc'[Read(d)] = "idle")
    BY <2>1 DEF OnlyMoves
  <2>3. Unknown(d) /\ Current(d) /\ (d \in hub => FeedsOn(d))
    BY DEF Feeding
  <2>4. Unknown(d)'
    BY <1>5, <2>2, <2>3 DEF Unknown, Fresh, Elsewhere
  <2>5. Current(d)'
    BY <2>2, <2>3 DEF Current
  <2>6. ASSUME d \in hub'
        PROVE  FeedsOn(d)'
    <3>1. d \in hub /\ Queued(d)' = Queued(d)
      BY <1>1, <1>5, <2>6 DEF Elsewhere
    <3>2. event # None /\ d \in event.to => event' # None /\ d \in event'.to /\ event'.msg = event.msg
      BY <1>5 DEF Elsewhere, EventStays
    <3>3. pc[Read(d)] = "snapshot" => pc'[Read(d)] = "snapshot" /\ box'[Read(d)] = box[Read(d)]
      BY <2>2
    <3> QED
      BY <2>3, <3>1, <3>2, <3>3, FeedsStay
  <2> QED
    BY <2>4, <2>5, <2>6
<1>6. Unknown(c)' /\ Current(c)' /\ (c \in hub' => FeedsOn(c)')
  <2>1. CASE g = Read(c)
    BY <2>1 DEF Here
  <2>2. CASE g # Read(c)
    <3>1. Read(c) \in Goroutine \ {g}
      BY <2>2, Names
    <3>2. /\ call'[Read(c)] = call[Read(c)] /\ box'[Read(c)] = box[Read(c)]
          /\ pc'[Read(c)] = pc[Read(c)] \/ (pc[Read(c)] = "off" /\ pc'[Read(c)] = "idle")
      BY <3>1 DEF OnlyMoves
    <3>3. Current(c)'
      BY <3>2 DEF Feeding, Current
    <3> QED
      BY <3>3 DEF Here
  <2> QED
    BY <2>1, <2>2
<1> QED
  BY <1>2, <1>3, <1>4, <1>5, <1>6 DEF Feeding

\* Close and enqueue: a connection that stays registered has the message in its channel.
LEMMA EnqueueFeeds ==
  ASSUME DeliveryInv, Feeding, NEW g \in Goroutine, NEW c \in Conn, NEW m \in Message,
         NEW at \in [Goroutine -> Steps], NEW next \in Steps \ {"send", "wait"},
         Enqueue(g, c, m, at, next) \/ (Close(g, c, at) /\ UNCHANGED send)
  PROVE  /\ \A d \in Conn \ {c} :
              send'[d] = send[d] /\ once'[d] = once[d] /\ (d \in hub' <=> d \in hub)
         /\ Queued(c)' \subseteq Queued(c) \cup {m}
         /\ c \in hub' => c \in hub /\ Queued(c)' = Queued(c) \cup {m}
         /\ once[c] # "open" => once'[c] # "open"
         /\ once'[c] # "open" => c \notin hub'
         /\ pc'[g] \in {"send", "wait"} => once'[c] # "open"
         /\ pc'[g] \in {"send", "once", After(g), next} /\ call'[g] \in {"disconnect", None}
         /\ \A h \in Goroutine \ {g} : pc'[h] = at[h]
<1>1. /\ send \in [Conn -> Seq(Message)] /\ once \in [Conn -> {"open", "closing", "closed"}]
      /\ call \in [Goroutine -> Calls \cup {None}] /\ hub \subseteq inRoom
  BY DEF DeliveryInv, TypeOK
<1>2. once[c] # "open" => c \notin hub
  BY DEF Feeding, ClosedOut
<1>3. After(g) \notin {"send", "wait"}
  BY DEF After
<1> HIDE DEF Message, Steps, Calls
<1>4. CASE send' = [send EXCEPT ![c] = Append(@, m)] /\ pc' = [at EXCEPT ![g] = next]
           /\ UNCHANGED <<once, hub>> /\ Idle(g)
  <2>1. \A d \in Conn \ {c} : send'[d] = send[d]
    BY <1>1, <1>4
  <2>2. send'[c] = Append(send[c], m) /\ send[c] \in Seq(Message)
    BY <1>1, <1>4
  <2>3. Queued(c)' = Queued(c) \cup {m}
    BY <2>2, QueuedMore
  <2>4. pc'[g] = next /\ call'[g] = None /\ \A h \in Goroutine \ {g} : pc'[h] = at[h]
    BY <1>1, <1>4 DEF Idle
  <2> QED
    BY <1>2, <1>4, <2>1, <2>3, <2>4
<1>5. CASE Close(g, c, at) /\ UNCHANGED send
  <2>1. Queued(c)' = Queued(c)
    BY <1>5 DEF Queued
  <2>2. CASE /\ once[c] = "open" /\ c \in inRoom
             /\ once' = [once EXCEPT ![c] = "closing"] /\ hub' = hub \ {c}
             /\ pc' = [at EXCEPT ![g] = "send"] /\ call' = [call EXCEPT ![g] = "disconnect"]
    BY <1>1, <1>5, <2>1, <2>2
  <2>3. CASE /\ once[c] = "open" /\ c \notin inRoom
             /\ once' = [once EXCEPT ![c] = "closed"] /\ pc' = [at EXCEPT ![g] = After(g)]
             /\ UNCHANGED hub /\ Idle(g)
    BY <1>1, <1>3, <1>5, <2>1, <2>3 DEF Idle
  <2>4. CASE /\ once[c] # "open"
             /\ pc' = [at EXCEPT ![g] = After(g)] \/ pc' = [at EXCEPT ![g] = "once"]
             /\ UNCHANGED <<once, hub>> /\ Idle(g)
    <3>1. \A h \in Goroutine \ {g} : pc'[h] = at[h]
      BY <2>4
    <3>2. pc'[g] \in {"once", After(g)} /\ call'[g] = None
      BY <1>1, <2>4 DEF Idle
    <3> QED
      BY <1>2, <1>3, <1>5, <2>1, <2>4, <3>1, <3>2
  <2> QED
    <3>1. once[c] # "open" => once[c] = "closing" \/ once[c] = "closed"
      BY <1>1
    <3> QED
      BY <1>5, <2>2, <2>3, <2>4, <3>1 DEF Close
<1> QED
  BY <1>4, <1>5 DEF Enqueue

\* The broadcast under way is as it was, but for who waits for its answer.
SameEvent(g) == EventStays(g) /\ (event # None => event'.to = event.to)

\* A step that sends nothing.
LEMMA QuietFeeds ==
  ASSUME DeliveryInv, Feeding, TypeOK', NEW g \in Goroutine, NEW c \in Conn,
         g \in {Room, Read(c), Write(c)}, ConnOf(g)' = c, g # Room => victim' = victim,
         UNCHANGED <<seq, base, got, hub, inRoom, send>>, OnlyMoves(g), SameEvent(g),
         box'[g] \in {box[g], None}, pc[g] # "snapshot",
         \A d \in Conn \ {c} : pc[Write(d)] = "off" => pc'[Write(d)] = "off",
         once' = once \/ (once[c] # "open" /\ once' = [once EXCEPT ![c] = "closed"]),
         pc'[g] \in {"send", "wait"} /\ call'[g] = "disconnect" => once'[c] # "open",
         Unknown(c)', g = Read(c) => Current(c)'
  PROVE  Feeding'
<1>1. /\ \A d \in Conn \ {c} : once'[d] = once[d]
      /\ (once[c] # "open" <=> once'[c] # "open")
  BY DEF DeliveryInv, TypeOK
<1>2. Elsewhere(c)
  BY <1>1 DEF Elsewhere, SameEvent
<1>3. Queued(c)' = Queued(c)
  BY DEF Queued
<1>4. c \in hub' => FeedsOn(c)'
  <2>1. pc[Read(c)] = "snapshot" => pc'[Read(c)] = "snapshot" /\ box'[Read(c)] = box[Read(c)]
    BY Names DEF OnlyMoves
  <2> QED
    BY <1>3, <2>1, FeedsStay DEF Feeding, SameEvent, EventStays
<1>5. \A m \in Queued(c)' : m.seq <= seq
  BY <1>3 DEF Feeding, Numbered
<1>6. once'[c] # "open" => c \notin hub'
  BY <1>1 DEF Feeding, ClosedOut
<1>7. Here(g, c)
  BY <1>1, <1>4, <1>5, <1>6 DEF Here
<1> QED
  BY <1>2, <1>7, StepFeeds DEF StepFor, SameEvent

\* A pump sends a message, or closes its connection.
LEMMA PumpFeeds ==
  ASSUME DeliveryInv, Feeding, NEW g \in Goroutine \ {Room}, NEW c \in Conn, c = g[1], Moves(g),
         NEW m \in Message, m.seq <= seq, NEW at \in {pc, Started(g, pc)},
         Enqueue(g, c, m, at, "idle") \/ (Close(g, c, at) /\ UNCHANGED send),
         UNCHANGED <<seq, base, got, inRoom, victim>>, SameEvent(g),
         box'[g] \in {box[g], None}, pc[g] # "off", pc[g] = "snapshot" => m = Snap(box[g])
  PROVE  Feeding'
<1>1. g = Read(c) \/ g = Write(c)
  BY PumpNames
<1>2. /\ at \in [Goroutine -> Steps]
      /\ \A d \in Conn \ {c} : at[Write(d)] = pc[Write(d)]
  <2>1. pc \in [Goroutine -> Steps]
    BY DEF DeliveryInv, TypeOK
  <2>2. Started(g, pc) \in [Goroutine -> Steps]
    BY StartedFacts DEF DeliveryInv
  <2>3. \A d \in Conn \ {c} : Write(d) \in Goroutine /\ Write(d) # Write(c)
    BY Names
  <2>4. \A d \in Conn \ {c} : Started(g, pc)[Write(d)] = pc[Write(d)]
    BY <2>1, <2>3 DEF Started
  <2> QED
    BY <2>1, <2>2, <2>4
<1>3. "idle" \in Steps \ {"send", "wait"}
  BY DEF Steps
<1>4. /\ \A d \in Conn \ {c} :
           send'[d] = send[d] /\ once'[d] = once[d] /\ (d \in hub' <=> d \in hub)
      /\ Queued(c)' \subseteq Queued(c) \cup {m}
      /\ c \in hub' => c \in hub /\ Queued(c)' = Queued(c) \cup {m}
      /\ once[c] # "open" => once'[c] # "open"
      /\ once'[c] # "open" => c \notin hub'
      /\ pc'[g] \in {"send", "wait"} => once'[c] # "open"
      /\ pc'[g] \in {"send", "once", After(g), "idle"} /\ call'[g] \in {"disconnect", None}
      /\ \A h \in Goroutine \ {g} : pc'[h] = at[h]
  BY <1>2, <1>3, EnqueueFeeds, SMT
<1>5. TypeOK' /\ OnlyMoves(g)
  BY DEF Moves
<1>6. Elsewhere(c)
  <2>1. \A d \in Conn \ {c} : Write(d) \in Goroutine \ {g}
    BY <1>1, Names
  <2> QED
    BY <1>2, <1>4, <2>1 DEF Elsewhere, SameEvent
<1>7. Unknown(c)'
  <2>1. None # "reconnect" /\ After(g) = "gone"
    BY DeliveryAssumption DEF Calls, After
  <2>2. CASE g = Read(c)
    BY <1>4, <2>1, <2>2 DEF Unknown, Fresh
  <2>3. CASE g = Write(c)
    <3>1. Read(c) \in Goroutine \ {g}
      BY <2>3, Names
    <3>2. Fresh(c)' => Fresh(c)
      BY <1>5, <3>1 DEF OnlyMoves, Fresh
    <3> QED
      BY <2>3, <3>2 DEF Unknown, Feeding
  <2> QED
    BY <1>1, <2>2, <2>3
<1>8. g = Read(c) => Current(c)'
  <2>1. None # "reconnect" /\ After(g) = "gone"
    BY DeliveryAssumption DEF Calls, After
  <2> QED
    BY <1>4, <2>1 DEF Current
<1>9. c \in hub' => FeedsOn(c)'
  <2> SUFFICES ASSUME c \in hub'
               PROVE  FeedsOn(c)'
    OBVIOUS
  <2>1. c \in hub /\ Queued(c)' = Queued(c) \cup {m}
    BY <1>4
  <2>2. pc[Read(c)] = "snapshot" =>
          \/ pc'[Read(c)] = "snapshot" /\ box'[Read(c)] = box[Read(c)]
          \/ Snap(box[Read(c)]) \in Queued(c)'
    <3>1. CASE g = Read(c)
      BY <2>1, <3>1
    <3>2. CASE g # Read(c)
      BY <1>5, <3>2, Names DEF OnlyMoves
    <3> QED
      BY <3>1, <3>2
  <2> QED
    BY <2>1, <2>2, FeedsStay DEF Feeding, SameEvent, EventStays
<1>10. \A x \in Queued(c)' : x.seq <= seq
  BY <1>4 DEF Feeding, Numbered
<1>11. ConnOf(g)' = c
  BY DEF ConnOf
<1>12. Here(g, c)
  BY <1>4, <1>7, <1>8, <1>9, <1>10 DEF Here
<1> QED
  BY <1>1, <1>5, <1>6, <1>11, <1>12, StepFeeds DEF StepFor, SameEvent

\* The broadcast does not change when nobody gives up on an answer, and when somebody does.
LEMMA EventSame ==
  ASSUME DeliveryInv, NEW g \in Goroutine, Dropped(g),
         event' = event \/ (Orphan(g) /\ event # None)
  PROVE  SameEvent(g)
<1>1. event' = None <=> event = None
  BY DEF Dropped
<1>2. event # None =>
        event'.msg = event.msg /\ event'.answer = event.answer /\ event'.to = event.to
  <2>1. CASE event' = event
    BY <2>1
  <2>2. CASE Orphan(g) /\ event # None
    <3>1. event \in Event /\ (event' = event \/ event' = [event EXCEPT !.from = None])
      BY <2>2 DEF Orphan, DeliveryInv, TypeOK
    <3> QED
      BY <3>1, SMT DEF Event
  <2> QED
    BY <2>1, <2>2
<1>3. event # None /\ event'.from # None => event'.from = event.from /\ event.from # g
  BY DEF Dropped
<1> QED
  BY <1>1, <1>2, <1>3 DEF SameEvent, EventStays

-----------------------------------------------------------------------------
(* The steps of the goroutines. *)

\* Close is through: the connection has been out of the hub since it began.
LEMMA ClosedFeeds ==
  ASSUME DeliveryInv, Feeding, NEW g \in Goroutine, Moves(g), Closed(g), pc[g] = "wait",
         UNCHANGED <<seq, base, got, inRoom, victim>>, SameEvent(g), box'[g] \in {box[g], None}
  PROVE  Feeding'
<1>1. PICK c \in Conn : c = ConnOf(g) /\ g \in {Room, Read(c), Write(c)}
  <2>1. CASE g = Room
    BY <2>1 DEF DeliveryInv, Calling, ActorIsOwn, ConnOf
  <2>2. CASE g # Room
    BY <2>2, PumpNames DEF ConnOf
  <2> QED
    BY <2>1, <2>2
<1>2. /\ call[g] = "disconnect" /\ once' = [once EXCEPT ![c] = "closed"]
      /\ pc' = [pc EXCEPT ![g] = After(g)] /\ UNCHANGED <<hub, send>>
  BY <1>1 DEF Closed
<1>3. once[c] # "open"
  BY <1>1, <1>2 DEF Feeding, ClosedOut
<1>4. After(g) \in {"broadcast", "gone"} /\ pc \in [Goroutine -> Steps]
  BY DEF After, DeliveryInv, TypeOK
<1>5. pc'[g] \in {"broadcast", "gone"} /\ \A h \in Goroutine \ {g} : pc'[h] = pc[h]
  BY <1>2, <1>4
<1>6. ~Fresh(c)'
  <2>1. ~Fresh(c)
    BY <1>3 DEF Feeding, Unknown
  <2> QED
    BY <1>5, <2>1, Names DEF Fresh, Moves, OnlyMoves
<1>7. g = Read(c) => Current(c)'
  BY <1>5 DEF Current
<1>8. \A d \in Conn : Write(d) \in Goroutine /\ (pc[Write(d)] = "off" => Write(d) # g)
  BY Names
<1>9. ConnOf(g)' = c
  BY <1>1 DEF ConnOf
<1> QED
  BY <1>1, <1>2, <1>3, <1>5, <1>6, <1>7, <1>8, <1>9, QuietFeeds DEF Moves, Unknown

\* A call has failed: the pump tells its client.
LEMMA FailedFeeds ==
  ASSUME DeliveryInv, Feeding, NEW g \in Goroutine, Moves(g), Failed(g), pc[g] = "wait",
         UNCHANGED <<seq, base, got, inRoom, victim>>, SameEvent(g), box'[g] \in {box[g], None}
  PROVE  Feeding'
<1>1. g # Room
  BY DEF Failed, DeliveryInv, Calling, ActorIsOwn
<1>2. PICK c \in Conn : c = g[1]
  BY <1>1, PumpNames
<1>3. Enqueue(g, c, Note, Started(g, pc), "idle")
  BY <1>2 DEF Failed
<1>4. Note \in Message /\ Note.seq <= seq
  BY DeliveryAssumption, SMT DEF Note, Message, DeliveryInv, TypeOK
<1> QED
  BY <1>1, <1>2, <1>3, <1>4, PumpFeeds

\* A caller goes on with the answer; that of a Reconnect is still the state of the room.
LEMMA ReturnFeeds ==
  ASSUME DeliveryInv, Feeding, NEW g \in Goroutine, Return(g)
  PROVE  Feeding'
<1>1. /\ pc[g] = "wait" /\ box[g] # None /\ UNCHANGED <<seq, base, got, inRoom, victim, event>>
      /\ box' = IF pc'[g] \in {"register", "snapshot"} THEN box ELSE [box EXCEPT ![g] = None]
  BY DEF Return, roomVars, clientVars
<1>2. Moves(g)
  BY ReturnMoves
<1>3. SameEvent(g)
  BY <1>1, <1>2, EventSame DEF Moves
<1>4. box'[g] \in {box[g], None}
  BY <1>1 DEF DeliveryInv, TypeOK
<1>5. CASE Closed(g) \/ Failed(g)
  BY <1>1, <1>2, <1>3, <1>4, <1>5, ClosedFeeds, FailedFeeds
<1>6. CASE Answered(g)
  <2>1. g # Room /\ UNCHANGED <<hub, send, once>>
    BY <1>1, <1>6 DEF Answered, DeliveryInv, Calling, ActorIsOwn
  <2>2. PICK c \in Conn : c = g[1] /\ (g = Read(c) \/ g = Write(c))
    BY <2>1, PumpNames
  <2>3. \/ call[g] = "action" /\ pc' = [pc EXCEPT ![g] = "idle"]
        \/ call[g] = "snapshot" /\ pc' = [pc EXCEPT ![g] = "snapshot"]
        \/ call[g] = "reconnect" /\ pc' = [pc EXCEPT ![g] = "register"]
    BY <1>6 DEF Answered
  <2>4. /\ \A h \in Goroutine \ {g} : pc'[h] = pc[h]
        /\ pc'[g] \in {"idle", "snapshot", "register"} /\ (pc'[g] = "register" => call[g] = "reconnect")
    BY <2>3 DEF DeliveryInv, TypeOK
  <2>5. \A d \in Conn : Write(d) \in Goroutine /\ (pc[Write(d)] = "off" => pc'[Write(d)] = "off")
    BY <1>1, <2>4, Names
  <2>6. Unknown(c)'
    <3>1. Unknown(c)
      BY DEF Feeding
    <3>2. CASE g = Read(c)
      BY <1>1, <2>1, <2>4, <2>5, <3>1, <3>2 DEF Unknown, Fresh
    <3>3. CASE g = Write(c)
      <4>1. pc[Write(c)] = "wait" /\ Read(c) \in Goroutine \ {g}
        BY <1>1, <3>3, Names
      <4>2. Fresh(c)' => Fresh(c)
        BY <1>2, <4>1 DEF Moves, OnlyMoves, Fresh
      <4> QED
        BY <3>1, <4>1, <4>2 DEF Unknown
    <3> QED
      BY <2>2, <3>2, <3>3
  <2>7. g = Read(c) => Current(c)'
    <3>1. Current(c)
      BY DEF Feeding
    <3>2. pc'[g] = "register" => box' = box
      BY <1>1
    <3> QED
      BY <1>1, <2>4, <3>1, <3>2 DEF Current
  <2>8. ConnOf(g)' = c
    BY <2>1, <2>2 DEF ConnOf
  <2> QED
    BY <1>1, <1>2, <1>3, <1>4, <2>1, <2>2, <2>4, <2>5, <2>6, <2>7, <2>8, QuietFeeds DEF Moves
<1> QED
  BY <1>5, <1>6 DEF Return

\* A call that times out fails, and its connection misses nothing.
LEMMA ContextDoneFeeds ==
  ASSUME DeliveryInv, Feeding, NEW g \in Goroutine, ContextDone(g)
  PROVE  Feeding'
<1>1. /\ pc[g] = "wait" /\ Orphan(g) /\ UNCHANGED <<seq, base, got, inRoom, victim, box>>
      /\ Closed(g) \/ Failed(g)
  BY DEF ContextDone, roomVars, clientVars
<1>2. Moves(g)
  BY ContextDoneMoves
<1>3. SameEvent(g)
  <2>1. event = None => event' = event
    BY <1>1 DEF Orphan
  <2> QED
    BY <1>1, <1>2, <2>1, EventSame DEF Moves
<1> QED
  BY <1>1, <1>2, <1>3, ClosedFeeds, FailedFeeds

\* Whoever waited for the end of a Close goes on.
LEMMA OnceDoneFeeds ==
  ASSUME DeliveryInv, Feeding, NEW g \in Goroutine, OnceDone(g)
  PROVE  Feeding'
<1>1. /\ pc[g] = "once" /\ once[ConnOf(g)] = "closed" /\ pc' = [pc EXCEPT ![g] = After(g)]
      /\ UNCHANGED <<seq, base, got, inRoom, victim, box, event, hub, send, once>>
  BY DEF OnceDone, roomVars, clientVars
<1>2. Moves(g)
  BY OnceDoneMoves
<1>3. SameEvent(g)
  BY <1>1, <1>2, EventSame DEF Moves
<1>4. PICK c \in Conn : c = ConnOf(g) /\ g \in {Room, Read(c), Write(c)}
  <2>1. CASE g = Room
    BY <1>1, <2>1 DEF DeliveryInv, Calling, ActorIsOwn, ConnOf
  <2>2. CASE g # Room
    BY <2>2, PumpNames DEF ConnOf
  <2> QED
    BY <2>1, <2>2
<1>5. pc'[g] \in {"broadcast", "gone"} /\ \A h \in Goroutine \ {g} : pc'[h] = pc[h]
  BY <1>1 DEF After, DeliveryInv, TypeOK
<1>6. ~Fresh(c)'
  <2>1. ~Fresh(c)
    BY <1>1, <1>4 DEF Feeding, Unknown
  <2> QED
    BY <1>2, <1>5, <2>1, Names DEF Fresh, Moves, OnlyMoves
<1>7. g = Read(c) => Current(c)'
  BY <1>5 DEF Current
<1>8. \A d \in Conn : Write(d) \in Goroutine /\ (pc[Write(d)] = "off" => Write(d) # g)
  BY <1>1, Names
<1>9. ConnOf(g)' = c
  BY <1>1, <1>4 DEF ConnOf
<1> QED
  BY <1>1, <1>2, <1>3, <1>4, <1>5, <1>6, <1>7, <1>8, <1>9, QuietFeeds DEF Moves, Unknown

\* A command enters the channel, and nothing is sent.
LEMMA SendFeeds ==
  ASSUME DeliveryInv, Feeding, NEW g \in Goroutine, Send(g)
  PROVE  Feeding'
<1>1. /\ pc[g] = "send" /\ pc' = [pc EXCEPT ![g] = "wait"]
      /\ UNCHANGED <<seq, base, got, inRoom, victim, box, call, event, hub, send, once>>
  BY DEF Send, roomVars, clientVars
<1>2. TypeOK'
  BY SendKeeps DEF DeliveryInv
<1>3. pc'[g] = "wait" /\ \A h \in Goroutine \ {g} : pc'[h] = pc[h]
  BY <1>1 DEF DeliveryInv, TypeOK
<1>4. event # None => event.from # g
  BY <1>1, NoCall DEF Waits
<1>5. SameEvent(g)
  BY <1>1, <1>4 DEF SameEvent, EventStays
<1>6. PICK c \in Conn : c = ConnOf(g) /\ g \in {Room, Read(c), Write(c)}
  <2>1. CASE g = Room
    BY <1>1, <2>1 DEF DeliveryInv, Calling, ActorIsOwn, ConnOf
  <2>2. CASE g # Room
    BY <2>2, PumpNames DEF ConnOf
  <2> QED
    BY <2>1, <2>2
<1>7. \A d \in Conn : Write(d) \in Goroutine /\ (pc[Write(d)] = "off" => Write(d) # g)
  BY <1>1, Names
<1>8. Unknown(c)'
  <2>1. Fresh(c)' => Fresh(c)
    BY <1>1, <1>3, Names DEF Fresh
  <2> QED
    BY <1>1, <1>3, <1>7, <2>1 DEF Feeding, Unknown
<1>9. g = Read(c) => Current(c)'
  BY <1>1 DEF Current, DeliveryInv, Calling, BoxIsOwn
<1>10. call'[g] = "disconnect" => once'[c] # "open"
  BY <1>1, <1>6 DEF Feeding, ClosedOut
<1>11. OnlyMoves(g) /\ ConnOf(g)' = c
  BY <1>1, <1>3, <1>6 DEF OnlyMoves, ConnOf
<1> QED
  BY <1>1, <1>2, <1>3, <1>5, <1>6, <1>7, <1>8, <1>9, <1>10, <1>11, QuietFeeds

\* A connection that dials in is known to nobody.
LEMMA DialFeeds ==
  ASSUME DeliveryInv, Feeding, NEW c \in Conn, Dial(c)
  PROVE  Feeding'
<1> DEFINE g == Read(c)
<1>1. /\ g \in Goroutine \ {Room} /\ Write(c) \in Goroutine \ {g} /\ g[1] = c
      /\ \A d \in Conn \ {c} : Write(d) \in Goroutine \ {g, Write(c)}
  BY Names
<1>2. /\ pc[g] = "dial" /\ UNCHANGED <<seq, base, got, inRoom, victim, box, event, hub, send, once>>
      /\ \/ pc' = [pc EXCEPT ![g] = "send"] /\ call' = [call EXCEPT ![g] = "reconnect"]
         \/ pc' = [Started(g, pc) EXCEPT ![g] = "idle"] /\ call' = call
  BY DEF Dial, roomVars, clientVars
<1>3. Moves(g)
  BY DialMoves
<1> HIDE DEF g
<1>4. SameEvent(g)
  BY <1>1, <1>2, <1>3, EventSame DEF Moves
<1>5. ConnOf(g)' = c
  BY <1>1 DEF ConnOf
<1>6. Unknown(c) /\ Fresh(c) /\ pc \in [Goroutine -> Steps] /\ call \in [Goroutine -> Calls \cup {None}]
      /\ box[g] = None
  BY <1>1, <1>2 DEF Feeding, Fresh, g, DeliveryInv, TypeOK, Calling, BoxIsOwn
<1>7. CASE pc' = [pc EXCEPT ![g] = "send"] /\ call' = [call EXCEPT ![g] = "reconnect"]
  <2>1. /\ pc'[g] = "send" /\ pc'[Write(c)] = pc[Write(c)] /\ call'[g] = "reconnect"
        /\ \A d \in Conn \ {c} : pc'[Write(d)] = pc[Write(d)]
    BY <1>1, <1>6, <1>7
  <2>2. Unknown(c)'
    BY <1>2, <1>6, <2>1 DEF Unknown
  <2>3. Current(c)'
    BY <1>2, <1>6, <2>1 DEF Current, g
  <2> QED
    BY <1>1, <1>2, <1>3, <1>4, <1>5, <2>1, <2>2, <2>3, QuietFeeds DEF Moves, g
<1>8. CASE pc' = [Started(g, pc) EXCEPT ![g] = "idle"] /\ call' = call
  <2>1. Started(g, pc) \in [Goroutine -> Steps]
    BY <1>1, StartedFacts DEF DeliveryInv
  <2>2. \A d \in Conn \ {c} : Started(g, pc)[Write(d)] = pc[Write(d)]
    BY <1>1, <1>6 DEF Started
  <2>3. pc'[g] = "idle" /\ \A d \in Conn \ {c} : pc'[Write(d)] = pc[Write(d)]
    BY <1>1, <1>8, <2>1, <2>2
  <2>4. Unknown(c)' /\ Current(c)'
    BY <2>3 DEF Unknown, Fresh, Current, g
  <2> QED
    BY <1>1, <1>2, <1>3, <1>4, <1>5, <2>3, <2>4, QuietFeeds DEF Moves, g
<1> QED
  BY <1>2, <1>7, <1>8

\* The connection is registered with the state of the room as its start.
LEMMA RegisterFeeds ==
  ASSUME DeliveryInv, Feeding, NEW c \in Conn, Register(c)
  PROVE  Feeding'
<1> DEFINE g == Read(c)
<1>1. /\ g \in Goroutine \ {Room} /\ g[1] = c
      /\ \A d \in Conn : Write(d) \in Goroutine \ {g}
  BY Names
<1>2. /\ pc[g] = "register" /\ pc' = [pc EXCEPT ![g] = "snapshot"]
      /\ inRoom' = inRoom \cup {c} /\ hub' = hub \cup {c}
      /\ UNCHANGED <<seq, base, got, victim, box, event, call, send, once>>
  BY DEF Register, roomVars, clientVars
<1>3. Moves(g)
  BY RegisterMoves
<1> HIDE DEF g
<1>4. SameEvent(g)
  BY <1>1, <1>2, <1>3, EventSame DEF Moves
<1>5. ConnOf(g)' = c
  BY <1>1 DEF ConnOf
<1>6. once[c] = "open" /\ pc \in [Goroutine -> Steps] /\ box[g] = seq
  BY <1>1, <1>2 DEF Feeding, Unknown, Fresh, Current, g, DeliveryInv, TypeOK, Calling, BoxIsOwn
<1>7. pc'[g] = "snapshot" /\ \A d \in Conn : pc'[Write(d)] = pc[Write(d)]
  BY <1>1, <1>2, <1>6
<1>8. Queued(c)' = Queued(c)
  BY <1>2 DEF Queued
<1>9. FeedsOn(c)'
  <2>1. seq' \in 0..seq' /\ (seq' + 1)..seq' = {}
    BY <1>2, SMT DEF DeliveryInv, TypeOK
  <2>2. Starts(c, seq)'
    BY <1>2, <1>6, <1>7 DEF Starts, g
  <2> QED
    BY <2>1, <2>2 DEF FeedsOn
<1>10. Unknown(c)' /\ Current(c)'
  BY <1>7 DEF Unknown, Fresh, Current, g
<1>11. Elsewhere(c)
  BY <1>2, <1>4, <1>7 DEF Elsewhere, SameEvent
<1>12. \A m \in Queued(c)' : m.seq <= seq
  BY <1>8 DEF Feeding, Numbered
<1>13. Here(g, c)
  BY <1>2, <1>6, <1>7, <1>9, <1>10, <1>12 DEF Here
<1> QED
  BY <1>1, <1>2, <1>3, <1>4, <1>5, <1>11, <1>13, StepFeeds DEF StepFor, SameEvent, Moves, g

\* The snapshot that was about to be sent is in the channel, or its connection is closed.
LEMMA SendSnapshotFeeds ==
  ASSUME DeliveryInv, Feeding, NEW c \in Conn, SendSnapshot(c)
  PROVE  Feeding'
<1> DEFINE g == Read(c)
<1>1. g \in Goroutine \ {Room} /\ c = g[1]
  BY Names
<1>2. /\ pc[g] = "snapshot" /\ Enqueue(g, c, Snap(box[g]), Started(g, pc), "idle")
      /\ box' = [box EXCEPT ![g] = None]
      /\ UNCHANGED <<seq, base, got, inRoom, victim, event>>
  BY DEF SendSnapshot, roomVars, clientVars
<1>3. Moves(g)
  BY SendSnapshotMoves
<1> HIDE DEF g
<1>4. SameEvent(g)
  BY <1>1, <1>2, <1>3, EventSame DEF Moves
<1>5. box[g] \in 0..MaxSeq /\ box[g] <= seq /\ box'[g] = None
  <2>1. box[g] # None /\ box[g] # Err
    BY <1>1, <1>2 DEF DeliveryInv, Calling, BoxIsOwn
  <2>2. box \in [Goroutine -> Err..MaxSeq \cup {None}]
    BY DEF DeliveryInv, TypeOK
  <2>3. box[g] <= seq
    BY <1>1, <2>1 DEF Feeding, Numbered
  <2>4. box[g] \in Err..MaxSeq /\ box'[g] = None
    BY <1>1, <1>2, <2>1, <2>2
  <2> QED
    BY <2>1, <2>3, <2>4, DeliveryAssumption, SMT DEF Err
<1>6. Snap(box[g]) \in Message /\ Snap(box[g]).seq <= seq
  BY <1>5, SMT DEF Snap, Message
<1> QED
  BY <1>1, <1>2, <1>3, <1>4, <1>5, <1>6, PumpFeeds

\* A message of the client begins a call that is no Reconnect, or is refused.
LEMMA ReadMessageFeeds ==
  ASSUME DeliveryInv, Feeding, NEW c \in Conn, NEW what \in {"action", "snapshot"},
         ReadMessage(c, what)
  PROVE  Feeding'
<1> DEFINE g == Read(c)
<1>1. /\ g \in Goroutine \ {Room} /\ g[1] = c
      /\ \A d \in Conn : Write(d) \in Goroutine \ {g}
  BY Names
<1>2. /\ pc[g] = "idle" /\ UNCHANGED <<seq, base, got, inRoom, victim, box, event>>
      /\ \/ /\ pc' = [pc EXCEPT ![g] = "send"] /\ call' = [call EXCEPT ![g] = what]
            /\ UNCHANGED <<hub, send, once>>
         \/ Enqueue(g, c, Note, pc, "idle")
  BY DEF ReadMessage, roomVars
<1>3. Moves(g)
  BY ReadMessageMoves
<1> HIDE DEF g
<1>4. SameEvent(g)
  BY <1>1, <1>2, <1>3, EventSame DEF Moves
<1>5. CASE Enqueue(g, c, Note, pc, "idle")
  <2>1. Note \in Message /\ Note.seq <= seq
    BY DeliveryAssumption, SMT DEF Note, Message, DeliveryInv, TypeOK
  <2> QED
    BY <1>1, <1>2, <1>3, <1>4, <1>5, <2>1, PumpFeeds
<1>6. CASE /\ pc' = [pc EXCEPT ![g] = "send"] /\ call' = [call EXCEPT ![g] = what]
           /\ UNCHANGED <<hub, send, once>>
  <2>1. /\ pc'[g] = "send" /\ call'[g] \in {"action", "snapshot"}
        /\ \A d \in Conn : pc'[Write(d)] = pc[Write(d)]
    BY <1>1, <1>6 DEF DeliveryInv, TypeOK
  <2>2. Unknown(c)' /\ Current(c)'
    BY <2>1 DEF Unknown, Fresh, Current, g
  <2>3. ConnOf(g)' = c
    BY <1>1 DEF ConnOf
  <2> QED
    BY <1>1, <1>2, <1>3, <1>4, <1>6, <2>1, <2>2, <2>3, QuietFeeds DEF Moves, g
<1> QED
  BY <1>2, <1>5, <1>6

\* A connection that is closed is out of the hub.
LEMMA PumpEndsFeeds ==
  ASSUME DeliveryInv, Feeding, NEW c \in Conn, PumpEnds(c)
  PROVE  Feeding'
<1> DEFINE g == Write(c)
<1>1. g \in Goroutine \ {Room} /\ c = g[1]
  BY Names
<1>2. /\ pc[g] = "idle" /\ Close(g, c, pc) /\ UNCHANGED send
      /\ UNCHANGED <<seq, base, got, inRoom, victim, box, event>>
  BY DEF PumpEnds, roomVars, clientVars
<1>3. Moves(g)
  BY PumpEndsMoves
<1> HIDE DEF g
<1>4. SameEvent(g)
  BY <1>1, <1>2, <1>3, EventSame DEF Moves
<1>5. Note \in Message /\ Note.seq <= seq
  BY DeliveryAssumption, SMT DEF Note, Message, DeliveryInv, TypeOK
<1> QED
  BY <1>1, <1>2, <1>3, <1>4, <1>5, PumpFeeds

\* The broadcast reaches one more connection, or ends it.
LEMMA DeliverFeeds ==
  ASSUME DeliveryInv, Feeding, NEW c \in Conn, Deliver(c)
  PROVE  Feeding'
<1>1. /\ pc[Room] = "broadcast" /\ c \in event.to /\ event' = [event EXCEPT !.to = @ \ {c}]
      /\ victim' = c /\ Enqueue(Room, c, event.msg, pc, "broadcast")
      /\ UNCHANGED <<seq, inRoom, box, base, got>>
  BY DEF Deliver, roomVars, clientVars
<1>2. Moves(Room)
  BY DeliverMoves
<1>3. event \in Event /\ event # None /\ event.from # Room
  <2>1. event # None
    BY <1>1 DEF DeliveryInv, Calling, EventIsOwn
  <2>2. ~Waits(Room)
    BY <1>1 DEF Waits
  <2> QED
    BY <2>1, <2>2, NoCall, Names DEF DeliveryInv, TypeOK
<1>4. /\ event' # None /\ event'.msg = event.msg /\ event'.answer = event.answer
      /\ event'.from = event.from /\ event'.to = event.to \ {c} /\ event.msg \in Message
  <2>1. event' \in Event /\ event'.msg = event.msg /\ event'.answer = event.answer
        /\ event'.from = event.from /\ event'.to = event.to \ {c} /\ event.msg \in Message
    BY <1>1, <1>3, SMT DEF Event
  <2> QED
    BY <2>1, DeliveryAssumption
<1>5. EventStays(Room)
  BY <1>3, <1>4 DEF EventStays
<1>6. pc \in [Goroutine -> Steps] /\ "broadcast" \in Steps \ {"send", "wait"}
  BY DEF DeliveryInv, TypeOK, Steps
<1>7. /\ \A d \in Conn \ {c} :
           send'[d] = send[d] /\ once'[d] = once[d] /\ (d \in hub' <=> d \in hub)
      /\ Queued(c)' \subseteq Queued(c) \cup {event.msg}
      /\ c \in hub' => c \in hub /\ Queued(c)' = Queued(c) \cup {event.msg}
      /\ once[c] # "open" => once'[c] # "open"
      /\ once'[c] # "open" => c \notin hub'
      /\ pc'[Room] \in {"send", "wait"} => once'[c] # "open"
      /\ \A h \in Goroutine \ {Room} : pc'[h] = pc[h]
  BY <1>1, <1>4, <1>6, EnqueueFeeds, Names, SMT
<1>8. /\ Read(c) \in Goroutine \ {Room} /\ Room \in Goroutine
      /\ \A d \in Conn : Write(d) \in Goroutine \ {Room}
  BY Names
<1>9. Elsewhere(c)
  BY <1>1, <1>4, <1>7, <1>8 DEF Elsewhere
<1>10. ~Fresh(c)
  <2>1. c \in inRoom
    BY <1>1, <1>3 DEF Feeding, Numbered
  <2> QED
    BY <2>1 DEF Feeding, Unknown
<1>11. Unknown(c)'
  BY <1>2, <1>7, <1>8, <1>10 DEF Unknown, Fresh, Moves, OnlyMoves
<1>12. c \in hub' => FeedsOn(c)'
  <2> SUFFICES ASSUME c \in hub'
               PROVE  FeedsOn(c)'
    OBVIOUS
  <2>1. c \in hub /\ Queued(c)' = Queued(c) \cup {event.msg}
    BY <1>7
  <2>2. pc'[Read(c)] = pc[Read(c)] /\ box'[Read(c)] = box[Read(c)]
    BY <1>1, <1>7, <1>8
  <2> QED
    BY <1>1, <2>1, <2>2, FeedsStay DEF Feeding
<1>13. \A x \in Queued(c)' : x.seq <= seq
  BY <1>3, <1>7 DEF Feeding, Numbered
<1>14. ConnOf(Room)' = c
  BY <1>1 DEF ConnOf
<1>15. Here(Room, c)
  BY <1>1, <1>7, <1>8, <1>11, <1>12, <1>13 DEF Here
<1> QED
  BY <1>1, <1>2, <1>5, <1>8, <1>9, <1>14, <1>15, StepFeeds DEF StepFor, Moves

-----------------------------------------------------------------------------
(* The steps of the actor. *)

\* The actor takes a command, begins a broadcast or ends one.
ActorStep ==
  /\ UNCHANGED <<hub, inRoom, send, once, call, base, got>>
  /\ pc[Room] \in {"loop", "broadcast"} /\ pc'[Room] \in {"loop", "broadcast"}
  /\ \A h \in Goroutine \ {Room} : pc'[h] = pc[h]

\* What a step of the actor leaves as it is.
LEMMA ActorLeaves ==
  ASSUME DeliveryInv, Feeding, ActorStep
  PROVE  /\ ClosedOut'
         /\ \A c \in Conn : /\ Unknown(c)' /\ Queued(c)' = Queued(c) /\ pc'[Read(c)] = pc[Read(c)]
                            /\ Read(c) \in Goroutine
<1>1. \A c \in Conn : Read(c) \in Goroutine \ {Room} /\ Write(c) \in Goroutine \ {Room}
  BY Names
<1>2. \A c \in Conn : pc'[Read(c)] = pc[Read(c)] /\ pc'[Write(c)] = pc[Write(c)]
  BY <1>1 DEF ActorStep
<1>3. \A c \in Conn : Unknown(c)'
  BY <1>2 DEF Feeding, Unknown, Fresh, ActorStep
<1>4. \A c \in Conn : Queued(c)' = Queued(c)
  BY DEF Queued, ActorStep
<1>5. ASSUME NEW h \in Goroutine, pc'[h] \in {"send", "wait"}, call'[h] = "disconnect"
      PROVE  once'[ConnOf(h)'] # "open"
  <2>1. h # Room
    BY <1>5 DEF ActorStep
  <2>2. pc[h] \in {"send", "wait"} /\ call[h] = "disconnect" /\ ConnOf(h)' = ConnOf(h)
    BY <1>5, <2>1 DEF ActorStep, ConnOf
  <2> QED
    BY <2>2 DEF Feeding, ClosedOut, ActorStep
<1>6. \A c \in Conn : once'[c] # "open" => c \notin hub'
  BY DEF Feeding, ClosedOut, ActorStep
<1> QED
  BY <1>1, <1>2, <1>3, <1>4, <1>5, <1>6 DEF ClosedOut

\* The game does not change.
LEMMA AnswerFeeds ==
  ASSUME DeliveryInv, Feeding, ActorStep, seq' = seq, event = None \/ event.to = {},
         event' # None =>
           event'.msg.seq <= seq /\ event'.answer = seq /\ event'.to \subseteq inRoom,
         \A h \in Goroutine :
           \/ box'[h] = box[h]
           \/ /\ box'[h] <= seq /\ pc[h] = "wait"
              /\ call[h] = "reconnect" => box'[h] = seq
  PROVE  Feeding'
<1>1. /\ ClosedOut'
      /\ \A c \in Conn : /\ Unknown(c)' /\ Queued(c)' = Queued(c) /\ pc'[Read(c)] = pc[Read(c)]
                         /\ Read(c) \in Goroutine
  BY ActorLeaves
<1>2. seq <= seq /\ call' = call /\ base' = base /\ got' = got /\ inRoom' = inRoom /\ hub' = hub
  BY SMT DEF DeliveryInv, TypeOK, ActorStep
<1>3. Numbered'
  <2>1. ASSUME NEW c \in Conn
        PROVE  /\ got'[c] \subseteq 0..seq' /\ (base'[c] # None => base'[c] <= seq')
               /\ \A m \in Queued(c)' : m.seq <= seq'
    BY <1>1, <1>2 DEF Feeding, Numbered
  <2>2. ASSUME NEW h \in Goroutine, box'[h] # None
        PROVE  box'[h] <= seq'
    BY <2>2 DEF Feeding, Numbered
  <2>3. event' # None => event'.msg.seq <= seq' /\ event'.answer <= seq' /\ event'.to \subseteq inRoom'
    BY <1>2
  <2> QED
    BY <2>1, <2>2, <2>3 DEF Numbered
<1>4. EventCurrent'
  BY DEF EventCurrent
<1>5. ASSUME NEW c \in Conn
      PROVE  Current(c)'
  <2>1. Current(c)
    BY DEF Feeding
  <2> QED
    BY <1>1, <1>2, <2>1 DEF Current
<1>6. ASSUME NEW c \in Conn, c \in hub'
      PROVE  FeedsOn(c)'
  <2>1. FeedsOn(c)
    BY <1>2, <1>6 DEF Feeding
  <2>2. pc[Read(c)] = "snapshot" => pc'[Read(c)] = "snapshot" /\ box'[Read(c)] = box[Read(c)]
    BY <1>1
  <2>3. Queued(c)' = Queued(c)
    BY <1>1
  <2> QED
    BY <1>2, <2>1, <2>2, <2>3, FeedsStay
<1> QED
  BY <1>1, <1>3, <1>4, <1>5, <1>6 DEF Feeding

\* The game changes, and nobody is between their snapshot and its delivery.
LEMMA AdvanceFeeds ==
  ASSUME DeliveryInv, Feeding, DeliveryInv', ActorStep, ~Concurrent, NEW from, Advance(from), event = None,
         from # None => call[from] # "reconnect"
  PROVE  Feeding'
<1>1. /\ ClosedOut'
      /\ \A c \in Conn : /\ Unknown(c)' /\ Queued(c)' = Queued(c) /\ pc'[Read(c)] = pc[Read(c)]
                         /\ Read(c) \in Goroutine
  BY ActorLeaves
<1>2. /\ \A c \in Conn : ~Window(c)
      /\ seq' = seq + 1 /\ box' = box
      /\ event' = [msg |-> Diff(seq + 1), to |-> hub, from |-> from, answer |-> seq]
  BY DEF Advance, Broadcast
<1>3. call' = call /\ base' = base /\ got' = got /\ inRoom' = inRoom /\ hub' = hub /\ hub \subseteq inRoom
  BY DEF DeliveryInv, TypeOK, ActorStep
<1>4. event'.msg = Diff(seq + 1) /\ event'.to = hub /\ event'.from = from /\ event'.answer = seq
  BY <1>2
<1>5. seq \in 0..MaxSeq /\ MaxSeq \in Nat
  BY DeliveryAssumption DEF DeliveryInv, TypeOK
<1>6. /\ 0..seq \subseteq 0..seq' /\ seq <= seq' /\ Diff(seq + 1).seq <= seq'
      /\ \A n \in Int : n <= seq => n <= seq'
  BY <1>2, <1>5, SMT DEF Diff
<1>7. Numbered'
  <2>1. ASSUME NEW c \in Conn
        PROVE  /\ got'[c] \subseteq 0..seq' /\ (base'[c] # None => base'[c] <= seq')
               /\ \A m \in Queued(c)' : m.seq <= seq'
    <3>1. /\ got[c] \subseteq 0..seq /\ (base[c] # None => base[c] <= seq)
          /\ \A m \in Queued(c) : m.seq <= seq
      BY DEF Feeding, Numbered
    <3>2. base[c] # None => base[c] \in Int
      BY SMT DEF DeliveryInv, TypeOK
    <3>3. \A m \in Queued(c) : m.seq \in Int
      BY QueuedMessages, SMT DEF DeliveryInv, Message
    <3> QED
      BY <1>1, <1>3, <1>6, <3>1, <3>2, <3>3
  <2>2. ASSUME NEW h \in Goroutine, box'[h] # None
        PROVE  box'[h] <= seq'
    <3>1. box[h] \in Int /\ box[h] <= seq
      BY <1>2, <2>2, SMT DEF Feeding, Numbered, DeliveryInv, TypeOK, Err
    <3> QED
      BY <1>2, <1>6, <3>1
  <2>3. event' # None => event'.msg.seq <= seq' /\ event'.answer <= seq' /\ event'.to \subseteq inRoom'
    BY <1>3, <1>4, <1>6
  <2> QED
    BY <2>1, <2>2, <2>3 DEF Numbered
<1>8. EventCurrent'
  BY <1>3, <1>4 DEF EventCurrent
<1>9. ASSUME NEW c \in Conn
      PROVE  Current(c)'
  BY <1>1, <1>2, <1>3 DEF Current, Window
<1>10. ASSUME NEW c \in Conn, c \in hub'
       PROVE  FeedsOn(c)'
  <2>1. PICK s \in 0..seq : Starts(c, s) /\ \A i \in (s + 1)..seq : Has(c, i)
    BY <1>3, <1>10 DEF Feeding, FeedsOn
  <2>2. s \in 0..seq' /\ \A i \in (s + 1)..seq' : i \in (s + 1)..seq \/ i = seq + 1
    BY <1>2, <1>5, SMT
  <2>3. Starts(c, s)'
    BY <1>1, <1>2, <1>3, <2>1 DEF Starts
  <2>4. \A i : Has(c, i) => Has(c, i)'
    BY <1>1, <1>3 DEF Has
  <2>5. event' # None
    <3>1. pc'[Room] = "broadcast"
      BY Names DEF Advance, Broadcast, DeliveryInv, TypeOK
    <3> QED
      BY <3>1 DEF DeliveryInv, Calling, EventIsOwn
  <2>6. ASSUME NEW i, i = seq + 1
        PROVE  Has(c, i)'
    BY <1>3, <1>4, <1>10, <2>5, <2>6 DEF Has
  <2> QED
    BY <2>1, <2>2, <2>3, <2>4, <2>6 DEF FeedsOn
<1> QED
  BY <1>1, <1>7, <1>8, <1>9, <1>10 DEF Feeding

\* A handler answers with the state of the room, or changes it and tells everybody.
LEMMA HandlersFeed ==
  ASSUME ~Concurrent, DeliveryInv, Feeding,
         HandleAction \/ HandleSnapshot \/ HandleDisconnect \/ HandleReconnect
  PROVE  Feeding'
<1> DEFINE from == Head(cmdCh).from
<1>1. DeliveryInv'
  BY HandlersKeep
<1>2. PICK kind \in Calls : Take(kind) /\ UNCHANGED otherVars
  BY DEF HandleAction, HandleSnapshot, HandleDisconnect, HandleReconnect, Calls
<1>3. /\ pc[Room] = "loop" /\ event = None /\ Head(cmdCh) = cmdCh[1] /\ cmdCh[1].kind = kind
      /\ 1 \in DOMAIN cmdCh /\ Head(cmdCh) \in Command
  BY <1>2, TakeFacts
<1>4. from # None => from \in Goroutine /\ pc[from] = "wait" /\ call[from] = kind
  <2>1. from \in Goroutine \cup {None}
    BY <1>3, SMT DEF Command
  <2> QED
    BY <1>3, <2>1 DEF DeliveryInv, Calling, QueueIsOwn, Waits
<1> HIDE DEF from
<1>5. seq \in 0..MaxSeq /\ pc \in [Goroutine -> Steps] /\ hub \subseteq inRoom
      /\ box \in [Goroutine -> Err..MaxSeq \cup {None}]
  BY DEF DeliveryInv, TypeOK
<1>6. Err <= seq /\ seq <= seq /\ Note.seq <= seq
  BY <1>5, SMT DEF Err, Note
<1>7. ASSUME pc' = pc \/ pc' = [pc EXCEPT ![Room] = "broadcast"]
      PROVE  ActorStep
  <2>1. pc'[Room] \in {"loop", "broadcast"} /\ \A h \in Goroutine \ {Room} : pc'[h] = pc[h]
    BY <1>3, <1>5, <1>7, Names
  <2> QED
    BY <1>2, <1>3, <2>1 DEF ActorStep, otherVars, clientVars
<1>8. ASSUME NEW answer, Reply(answer), seq' = seq, answer <= seq, kind = "reconnect" => answer = seq
      PROVE  Feeding'
  <2>1. /\ box' = IF from = None THEN box ELSE [box EXCEPT ![from] = answer]
        /\ event' = event /\ pc' = pc
    BY <1>8 DEF Reply, from
  <2>2. ASSUME NEW h \in Goroutine
        PROVE  \/ box'[h] = box[h]
               \/ box'[h] <= seq /\ pc[h] = "wait" /\ (call[h] = "reconnect" => box'[h] = seq)
    <3>1. CASE from = None \/ h # from
      BY <1>4, <1>5, <2>1, <3>1
    <3>2. CASE from # None /\ h = from
      <4>1. box'[h] = answer
        BY <1>5, <2>1, <3>2
      <4> QED
        BY <1>4, <1>8, <3>2, <4>1
    <3> QED
      BY <3>1, <3>2
  <2> QED
    BY <1>3, <1>7, <1>8, <2>1, <2>2, AnswerFeeds
<1>9. ASSUME Broadcast(Note, from, seq), seq' = seq
      PROVE  Feeding'
  <2>1. /\ event' = [msg |-> Note, to |-> hub, from |-> from, answer |-> seq]
        /\ pc' = [pc EXCEPT ![Room] = "broadcast"] /\ box' = box
    BY <1>9 DEF Broadcast
  <2>2. event'.msg.seq <= seq /\ event'.answer = seq /\ event'.to \subseteq inRoom
    BY <1>5, <1>6, <2>1
  <2> QED
    BY <1>3, <1>7, <1>9, <2>1, <2>2, AnswerFeeds
<1>10. ASSUME kind = "action", Advance(from)
       PROVE  Feeding'
  <2>1. ActorStep
    BY <1>7, <1>10 DEF Advance, Broadcast
  <2> QED
    BY <1>1, <1>3, <1>4, <1>10, <2>1, AdvanceFeeds
<1>11. /\ HandleAction => kind = "action" /\ (Advance(from) \/ (Reply(Err) /\ seq' = seq))
       /\ HandleSnapshot => Reply(seq) /\ seq' = seq
       /\ HandleDisconnect \/ HandleReconnect =>
            seq' = seq /\ (Broadcast(Note, from, seq) \/ Reply(seq))
  BY <1>2 DEF HandleAction, HandleSnapshot, HandleDisconnect, HandleReconnect, Take, from, roomVars
<1> QED
  BY <1>6, <1>8, <1>9, <1>10, <1>11

\* A tick changes the game and tells everybody.
LEMMA TickFeeds ==
  ASSUME ~Concurrent, DeliveryInv, Feeding, HandleTick
  PROVE  Feeding'
<1>1. DeliveryInv'
  BY TickKeeps
<1>2. pc[Room] = "loop" /\ event = None
  BY DEF HandleTick, DeliveryInv, Calling, EventIsOwn
<1>3. pc' = [pc EXCEPT ![Room] = "broadcast"] /\ pc \in [Goroutine -> Steps]
  BY DEF HandleTick, Advance, Broadcast, DeliveryInv, TypeOK
<1>4. pc'[Room] = "broadcast" /\ \A h \in Goroutine \ {Room} : pc'[h] = pc[h]
  BY <1>3, Names
<1>5. ActorStep
  BY <1>2, <1>4 DEF ActorStep, HandleTick, otherVars, clientVars
<1> QED
  BY <1>1, <1>2, <1>5, AdvanceFeeds DEF HandleTick

\* The answer of a broadcast to a Reconnect is the state of the room.
LEMMA EndBroadcastFeeds ==
  ASSUME DeliveryInv, Feeding, EndBroadcast
  PROVE  Feeding'
<1>1. /\ pc[Room] = "broadcast" /\ event.to = {} /\ event' = None
      /\ box' = IF event.from = None THEN box ELSE [box EXCEPT ![event.from] = event.answer]
      /\ pc' = [pc EXCEPT ![Room] = "loop"]
      /\ UNCHANGED <<seq, hub, inRoom, send, once, call, base, got>>
  BY DEF EndBroadcast, roomVars, clientVars
<1>2. pc \in [Goroutine -> Steps] /\ box \in [Goroutine -> Err..MaxSeq \cup {None}]
  BY DEF DeliveryInv, TypeOK
<1>3. pc'[Room] = "loop" /\ \A h \in Goroutine \ {Room} : pc'[h] = pc[h]
  BY <1>1, <1>2, Names
<1>4. ActorStep
  BY <1>1, <1>3 DEF ActorStep
<1>5. event # None
  BY <1>1 DEF DeliveryInv, Calling, EventIsOwn
<1>6. ASSUME NEW h \in Goroutine
      PROVE  \/ box'[h] = box[h]
             \/ box'[h] <= seq /\ pc[h] = "wait" /\ (call[h] = "reconnect" => box'[h] = seq)
  <2>1. CASE event.from = None \/ h # event.from
    BY <1>1, <1>2, <2>1
  <2>2. CASE event.from # None /\ h = event.from
    <3>1. box'[h] = event.answer
      BY <1>1, <1>2, <2>2
    <3>2. pc[h] = "wait"
      BY <1>5, <2>2 DEF DeliveryInv, Calling, EventIsOwn, Waits
    <3>3. event.answer <= seq /\ (call[h] = "reconnect" => event.answer = seq)
      BY <1>5, <2>2 DEF Feeding, Numbered, EventCurrent
    <3> QED
      BY <3>1, <3>2, <3>3
  <2> QED
    BY <2>1, <2>2
<1> QED
  BY <1>1, <1>4, <1>6, AnswerFeeds

-----------------------------------------------------------------------------
(* The client. *)

\* The write pump takes one message from the channel.
LEMMA QueuedLess ==
  ASSUME NEW c, send[c] \in Seq(Message), send[c] # <<>>, send'[c] = Tail(send[c])
  PROVE  Queued(c) = Queued(c)' \cup {Head(send[c])}
<1> HIDE DEF Message
<1>1. /\ Len(send[c]) \in Nat \ {0} /\ DOMAIN send[c] = 1..Len(send[c])
      /\ DOMAIN send'[c] = 1..(Len(send[c]) - 1) /\ Head(send[c]) = send[c][1]
      /\ \A i \in 1..(Len(send[c]) - 1) : send'[c][i] = send[c][i + 1]
  BY HeadTailFacts, SMT
<1>2. /\ 1 \in 1..Len(send[c])
      /\ \A i \in 1..(Len(send[c]) - 1) : i + 1 \in 1..Len(send[c])
      /\ \A i \in 1..Len(send[c]) : i = 1 \/ (i - 1 \in 1..(Len(send[c]) - 1) /\ (i - 1) + 1 = i)
  BY <1>1, SMT
<1>3. ASSUME NEW x PROVE x \in Queued(c) <=> x \in Queued(c)' \cup {Head(send[c])}
  <2>1. x \in Queued(c)' <=> \E i \in 1..(Len(send[c]) - 1) : x = send'[c][i]
    BY <1>1 DEF Queued
  <2>2. x \in Queued(c) <=> \E i \in 1..Len(send[c]) : x = send[c][i]
    BY <1>1 DEF Queued
  <2>3. ASSUME x \in Queued(c), x # Head(send[c]) PROVE x \in Queued(c)'
    <3>1. PICK i \in 1..Len(send[c]) : x = send[c][i]
      BY <2>2, <2>3
    <3>2. i - 1 \in 1..(Len(send[c]) - 1) /\ (i - 1) + 1 = i
      BY <1>1, <1>2, <2>3, <3>1
    <3>3. x = send'[c][i - 1]
      BY <1>1, <3>1, <3>2
    <3> QED
      BY <2>1, <3>2, <3>3
  <2>4. ASSUME x \in Queued(c)' PROVE x \in Queued(c)
    BY <1>1, <1>2, <2>1, <2>2, <2>4
  <2>5. Head(send[c]) \in Queued(c)
    BY <1>1, <1>2 DEF Queued
  <2> QED
    BY <2>3, <2>4, <2>5
<1> QED
  BY <1>3

\* A message that has arrived counts as one that is on its way.
LEMMA WriteMessageFeeds ==
  ASSUME DeliveryInv, Feeding, NEW c \in Conn, WriteMessage(c)
  PROVE  Feeding'
<1> DEFINE m == Head(send[c])
<1>1. /\ send[c] # <<>> /\ send' = [send EXCEPT ![c] = Tail(@)]
      /\ got' = IF m.kind = "diff" THEN [got EXCEPT ![c] = @ \cup {m.seq}] ELSE got
      /\ base' = IF m.kind = "snapshot" /\ (base[c] = None \/ m.seq > base[c])
                 THEN [base EXCEPT ![c] = m.seq] ELSE base
      /\ UNCHANGED <<seq, event, hub, inRoom, once, victim, pc, call, box>>
  BY DEF WriteMessage, roomVars
<1>2. /\ seq \in 0..MaxSeq /\ send \in [Conn -> Seq(Message)]
      /\ base \in [Conn -> 0..MaxSeq \cup {None}] /\ got \in [Conn -> SUBSET (0..MaxSeq)]
  BY DEF DeliveryInv, TypeOK
<1> HIDE DEF m
<1>3. Queued(c) = Queued(c)' \cup {m}
  <2>1. send[c] \in Seq(Message) /\ send'[c] = Tail(send[c])
    BY <1>1, <1>2
  <2> QED
    BY <1>1, <2>1, QueuedLess DEF m
<1>4. /\ \A d \in Conn \ {c} : send'[d] = send[d] /\ got'[d] = got[d] /\ base'[d] = base[d]
      /\ got'[c] = IF m.kind = "diff" THEN got[c] \cup {m.seq} ELSE got[c]
      /\ base'[c] = IF m.kind = "snapshot" /\ (base[c] = None \/ m.seq > base[c])
                    THEN m.seq ELSE base[c]
  BY <1>1, <1>2
<1>5. \A d \in Conn \ {c} : Queued(d)' = Queued(d)
  BY <1>4 DEF Queued
<1>6. m \in Message /\ m.seq <= seq
  BY <1>3, QueuedMessages DEF Feeding, Numbered, DeliveryInv
<1>7. m.seq \in 0..seq /\ (base[c] # None => base[c] \in 0..seq)
  <2>1. base[c] # None => base[c] <= seq /\ base[c] \in 0..MaxSeq
    BY <1>2 DEF Feeding, Numbered
  <2>2. m.seq \in 0..MaxSeq
    BY <1>6, SMT DEF Message
  <2> QED
    BY <1>2, <1>6, <2>1, <2>2, SMT
<1>8. Numbered'
  <2>1. ASSUME NEW d \in Conn
        PROVE  /\ got'[d] \subseteq 0..seq' /\ (base'[d] # None => base'[d] <= seq')
               /\ \A x \in Queued(d)' : x.seq <= seq'
    <3>1. /\ got[d] \subseteq 0..seq /\ (base[d] # None => base[d] <= seq)
          /\ \A x \in Queued(d) : x.seq <= seq
      BY DEF Feeding, Numbered
    <3>2. CASE d # c
      BY <1>1, <1>4, <1>5, <3>1, <3>2
    <3>3. CASE d = c
      <4>1. got'[c] \subseteq got[c] \cup {m.seq} /\ base'[c] \in {base[c], m.seq}
        BY <1>4
      <4> QED
        BY <1>1, <1>3, <1>6, <1>7, <3>1, <3>3, <4>1
    <3> QED
      BY <3>2, <3>3
  <2> QED
    BY <1>1, <2>1 DEF Feeding, Numbered
<1>9. ClosedOut' /\ EventCurrent' /\ \A d \in Conn : Unknown(d)' /\ Current(d)'
  BY <1>1 DEF Feeding, ClosedOut, EventCurrent, Unknown, Fresh, Current, ConnOf
<1>10. ASSUME NEW d \in Conn, d # c, d \in hub'
       PROVE  FeedsOn(d)'
  <2>1. FeedsOn(d) /\ base'[d] = base[d] /\ got'[d] = got[d] /\ Queued(d)' = Queued(d)
    BY <1>1, <1>4, <1>5, <1>10 DEF Feeding
  <2> QED
    BY <1>1, <2>1, FeedsStay
<1>11. ASSUME c \in hub'
       PROVE  FeedsOn(c)'
  <2>1. PICK s \in 0..seq : Starts(c, s) /\ \A i \in (s + 1)..seq : Has(c, i)
    BY <1>1, <1>11 DEF Feeding, FeedsOn
  <2>2. ASSUME NEW i, Has(c, i)
        PROVE  Has(c, i)'
    <3>1. ASSUME m = Diff(i)
          PROVE  i \in got'[c]
      <4>1. m.kind = "diff" /\ m.seq = i
        BY <3>1 DEF Diff
      <4> QED
        BY <1>4, <4>1
    <3>2. got[c] \subseteq got'[c]
      BY <1>4
    <3> QED
      BY <1>1, <1>3, <2>2, <3>1, <3>2 DEF Has
  <2>3. \E t \in 0..seq : t >= s /\ Starts(c, t)'
    <3>1. CASE base[c] = s
      <4>1. base'[c] = s \/ (base'[c] = m.seq /\ m.seq > s)
        <5>1. s # None
          BY <2>1, DeliveryAssumption, SMT
        <5> QED
          BY <1>4, <3>1, <5>1
      <4>2. base'[c] \in 0..seq /\ base'[c] >= s
        BY <1>2, <1>7, <4>1, SMT
      <4> QED
        BY <4>2 DEF Starts
    <3>2. CASE Snap(s) \in Queued(c)
      <4>1. CASE Snap(s) \in Queued(c)'
        <5>1. s >= s
          BY <2>1, SMT
        <5> QED
          BY <2>1, <4>1, <5>1 DEF Starts
      <4>2. CASE m = Snap(s)
        <5>1. m.kind = "snapshot" /\ m.seq = s
          BY <4>2 DEF Snap
        <5>2. base'[c] \in 0..seq /\ base'[c] >= s
          BY <1>2, <1>4, <1>7, <5>1, SMT
        <5> QED
          BY <5>2 DEF Starts
      <4> QED
        BY <1>3, <3>2, <4>1, <4>2
    <3>3. CASE pc[Read(c)] = "snapshot" /\ box[Read(c)] = s
      <4>1. Starts(c, s)' /\ s >= s
        BY <1>1, <2>1, <3>3, SMT DEF Starts
      <4> QED
        BY <2>1, <4>1
    <3> QED
      BY <2>1, <3>1, <3>2, <3>3 DEF Starts
  <2>4. PICK t \in 0..seq : t >= s /\ Starts(c, t)'
    BY <2>3
  <2>5. \A i \in (t + 1)..seq : i \in (s + 1)..seq
    BY <1>2, <2>1, <2>4, SMT
  <2> QED
    BY <1>1, <2>1, <2>2, <2>4, <2>5 DEF FeedsOn
<1> QED
  BY <1>8, <1>9, <1>10, <1>11 DEF Feeding

-----------------------------------------------------------------------------

\* At the start, every registered client has the state of the room.
LEMMA InitFeeds ==
  ASSUME Init
  PROVE  Feeding
<1>1. /\ seq = 0 /\ event = None /\ hub = Conn \ Resuming /\ inRoom = Conn \ Resuming
      /\ send = [c \in Conn |-> <<>>] /\ once = [c \in Conn |-> "open"]
      /\ call = [g \in Goroutine |-> None] /\ box = [g \in Goroutine |-> None]
      /\ base = [c \in Conn |-> IF c \in Resuming THEN None ELSE 0] /\ got = [c \in Conn |-> {}]
  BY DEF Init
<1>2. \A c \in Conn : /\ Queued(c) = {} /\ got[c] = {} /\ once[c] = "open"
                      /\ base[c] = IF c \in Resuming THEN None ELSE 0
  <2>1. DOMAIN <<>> = {}
    BY SMT
  <2> QED
    BY <1>1, <2>1 DEF Queued
<1>3. \A g \in Goroutine : box[g] = None /\ call[g] = None
  BY <1>1
<1>4. None # "reconnect" /\ None # "disconnect" /\ 0 <= 0 /\ 0 \in 0..0 /\ (0 + 1)..0 = {}
  BY DeliveryAssumption, SMT DEF Calls
<1>5. Numbered /\ ClosedOut /\ EventCurrent
  BY <1>1, <1>2, <1>3, <1>4 DEF Numbered, ClosedOut, EventCurrent
<1>6. ASSUME NEW c \in Conn
      PROVE  Unknown(c) /\ Current(c) /\ (c \in hub => FeedsOn(c))
  <2>1. Read(c) \in Goroutine /\ Write(c) \in Goroutine
    BY Names
  <2>2. Current(c)
    BY <1>3, <2>1 DEF Current
  <2>3. c \in hub => FeedsOn(c)
    BY <1>1, <1>2, <1>4 DEF FeedsOn, Starts
  <2>4. pc[Read(c)] = IF c \in Resuming THEN "dial" ELSE "idle"
    BY <2>1, Names, SMT DEF Init, Read
  <2>5. pc[Write(c)] = IF c \in Resuming THEN "off" ELSE "idle"
    BY <2>1, Names, SMT DEF Init, Write
  <2>6. Unknown(c)
    BY <1>1, <1>2, <2>4, <2>5 DEF Unknown, Fresh
  <2> QED
    BY <2>2, <2>3, <2>6
<1> QED
  BY <1>5, <1>6 DEF Feeding

\* Every step keeps Feeding, unless the game changes while a player is resumed.
LEMMA NextFeeds ==
  ASSUME ~Concurrent, DeliveryInv, Feeding, [Next]_vars
  PROVE  Feeding'
<1>1. CASE Actor
  BY <1>1, HandlersFeed, TickFeeds, EndBroadcastFeeds, DeliverFeeds DEF Actor
<1>2. ASSUME NEW g \in Goroutine, Caller(g) PROVE Feeding'
  BY <1>2, SendFeeds, ReturnFeeds, ContextDoneFeeds, OnceDoneFeeds DEF Caller
<1>3. ASSUME NEW c \in Conn,
             \/ Dial(c) \/ Register(c) \/ SendSnapshot(c) \/ WriteMessage(c) \/ PumpEnds(c)
             \/ \E what \in {"action", "snapshot"} : ReadMessage(c, what)
      PROVE  Feeding'
  BY <1>3, DialFeeds, RegisterFeeds, SendSnapshotFeeds, WriteMessageFeeds, PumpEndsFeeds,
     ReadMessageFeeds
<1>4. CASE UNCHANGED vars
  <2>1. \A c \in Conn : Queued(c)' = Queued(c)
    BY <1>4 DEF vars, Queued
  <2>2. Numbered' /\ ClosedOut' /\ EventCurrent' /\ \A c \in Conn : Unknown(c)' /\ Current(c)'
    BY <1>4, <2>1 DEF vars, Feeding, Numbered, ClosedOut, EventCurrent, Unknown, Fresh, Current, ConnOf
  <2>3. \A c \in Conn : FeedsOn(c) => FeedsOn(c)'
    BY <1>4, <2>1 DEF vars, FeedsOn, Starts, Has
  <2> QED
    BY <1>4, <2>2, <2>3 DEF vars, Feeding
<1> QED
  BY <1>1, <1>2, <1>3, <1>4 DEF Next

\* A client that has all of its diffs from its snapshot on shows the state of the room.
LEMMA FeedingShows ==
  ASSUME DeliveryInv, Feeding
  PROVE  CaughtUp
<1> SUFFICES ASSUME NEW c \in Conn, Settled(c)
             PROVE  base[c] # None /\ Known(c) = seq
  BY DEF CaughtUp
<1>1. c \in hub /\ pc[Read(c)] = "idle" /\ send[c] = <<>> /\ ~(event # None /\ c \in event.to)
  BY DEF Settled
<1>2. PICK s \in 0..seq : Starts(c, s) /\ \A i \in (s + 1)..seq : Has(c, i)
  BY <1>1 DEF Feeding, FeedsOn
<1>3. Queued(c) = {}
  <2>1. DOMAIN <<>> = {}
    BY SMT
  <2> QED
    BY <1>1, <2>1 DEF Queued
<1>4. base[c] = s /\ \A i \in (s + 1)..seq : i \in got[c]
  BY <1>1, <1>2, <1>3 DEF Starts, Has
<1>5. got[c] \subseteq 0..seq /\ seq \in 0..MaxSeq /\ MaxSeq \in Nat
  BY DeliveryAssumption DEF Feeding, Numbered, DeliveryInv, TypeOK
<1>6. s # None
  BY <1>2, DeliveryAssumption, SMT
<1> DEFINE Shown(n) == (\A i \in (base[c] + 1)..n : i \in got[c]) /\ n + 1 \notin got[c]
<1>7. seq \in base[c]..MaxSeq /\ Shown(seq)
  BY <1>2, <1>4, <1>5, SMT
<1>8. ASSUME NEW n \in base[c]..MaxSeq, Shown(n)
      PROVE  n = seq
  <2>1. n \in Nat /\ n >= s
    BY <1>2, <1>4, SMT
  <2>2. CASE n < seq
    <3>1. n + 1 \in (s + 1)..seq
      BY <1>5, <2>1, <2>2, SMT
    <3> QED
      BY <1>4, <1>8, <3>1
  <2>3. CASE n > seq
    <3>1. n \in (base[c] + 1)..n /\ n \notin 0..seq
      BY <1>2, <1>4, <1>5, <2>1, <2>3, SMT
    <3> QED
      BY <1>5, <1>8, <3>1
  <2> QED
    BY <1>5, <2>1, <2>2, <2>3, SMT
<1>9. Known(c) = CHOOSE n \in base[c]..MaxSeq : Shown(n)
  BY DEF Known
<1> HIDE DEF Shown
<1> QED
  BY <1>4, <1>6, <1>7, <1>8, <1>9

\* A client that has received all that was sent to it shows the state of the room
\* (broadcast, enqueue, tryResume, Register), whatever calls fail or time out and whoever is
\* closed, as long as the game does not change between the snapshot of a Reconnect and its
\* delivery.
THEOREM CatchesUp ==
  ASSUME ~Concurrent
  PROVE  Spec => []CaughtUp
<1>1. Init => DeliveryInv /\ Feeding
  BY InitHolds, InitFeeds
<1>2. DeliveryInv /\ Feeding /\ [Next]_vars => DeliveryInv' /\ Feeding'
  BY NextKeeps, NextFeeds
<1>3. DeliveryInv /\ Feeding => CaughtUp
  BY FeedingShows
<1> QED
  BY <1>1, <1>2, <1>3, PTL DEF Spec

=============================================================================
