------------------------------ MODULE Delivery ------------------------------
(***************************************************************************)
(* How the changes of one running room reach its players: the room actor    *)
(* that broadcasts through the hub (internal/transport/ws/hub.go), the      *)
(* bounded send channel and the two pumps of every connection               *)
(* (connection.go), and a player who dials in again (tryResume of           *)
(* server.go).                                                              *)
(*                                                                          *)
(* Broadcast runs in the actor, and a connection whose send channel is full *)
(* is closed by whoever finds it full.  Close runs once: a second caller    *)
(* waits until the first is through, and the first one calls the room.  So  *)
(* goroutines wait for one another here, and the model keeps who waits for  *)
(* what.  A connection stands for its player; a player has one.  The room   *)
(* stays Active; Room has the rest of it.                                   *)
(***************************************************************************)
EXTENDS Integers, Sequences

CONSTANTS
  Conn,       \* connections, one per player
  Resuming,   \* those that dial in again; the others are seated and registered
  None,
  CmdCap,     \* capacity of Room.cmdCh
  SendCap,    \* capacity of Connection.send
  MaxSeq,     \* bound: how often the game changes
  MaxCalls,   \* bound: how many messages the clients send
  Concurrent, \* the game may change while a player is being resumed
  TimesOut    \* the calls whose context may be done before their answer is there

Calls == {"action", "snapshot", "disconnect", "reconnect"}

Room == <<None, "actor">>
Read(c) == <<c, "read">>
Write(c) == <<c, "write">>

Goroutine == {Room} \cup Conn \X {"read", "write"}

Message == [kind: {"diff", "snapshot", "note"}, seq: 0..MaxSeq]

Command == [kind: Calls, player: Conn, from: Goroutine \cup {None}]

\* A broadcast under way.
Event == [msg: Message, to: SUBSET Conn, from: Goroutine \cup {None}, answer: 0..MaxSeq]

\* Where a goroutine can be.
Steps == {"loop", "broadcast", "dial", "off", "idle", "send", "wait", "register", "snapshot",
          "once", "gone"}

ASSUME DeliveryAssumption ==
  /\ None \notin Int /\ None \notin Calls \cup Conn \cup Goroutine \cup Event
  /\ Resuming \subseteq Conn /\ TimesOut \subseteq Calls /\ Concurrent \in BOOLEAN
  /\ CmdCap \in Nat \ {0} /\ SendCap \in Nat \ {0} /\ MaxSeq \in Nat /\ MaxCalls \in Nat

VARIABLES
  seq,       \* Room.serverSeq
  connected, \* the players whose slot is connected
  cmdCh,     \* Room.cmdCh
  event,     \* the broadcast under way: the message, whom it has yet to reach, the answer
  hub,       \* the connections registered for the room
  inRoom,    \* the connections whose currentRoom is set
  send,      \* Connection.send
  once,      \* Connection.closeOnce
  victim,    \* the connection the actor closes
  pc,        \* where each goroutine is
  call,      \* what it calls the room for
  box,       \* its reply channel
  calls,     \* how many messages the clients have sent
  base, got  \* the client: its last snapshot, and the diffs it has received

vars == <<seq, connected, cmdCh, event, hub, inRoom, send, once, victim, pc, call, box,
          calls, base, got>>

\* The connection a goroutine works for, or is closing.
ConnOf(g) == IF g = Room THEN victim ELSE g[1]

Diff(n) == [kind |-> "diff", seq |-> n]
Snap(n) == [kind |-> "snapshot", seq |-> n]
Note == [kind |-> "note", seq |-> 0]

\* The answer that is an error; the others carry serverSeq.
Err == -1

roomVars == <<seq, connected>>
clientVars == <<calls, base, got>>

Init ==
  /\ seq = 0 /\ connected = Conn \ Resuming /\ cmdCh = <<>> /\ event = None
  /\ hub = Conn \ Resuming /\ inRoom = Conn \ Resuming
  /\ send = [c \in Conn |-> <<>>] /\ once = [c \in Conn |-> "open"] /\ victim = None
  /\ pc = [g \in Goroutine |->
             CASE g = Room -> "loop"
               [] g[1] \in Resuming -> IF g[2] = "read" THEN "dial" ELSE "off"
               [] OTHER -> "idle"]
  /\ call = [g \in Goroutine |-> None] /\ box = [g \in Goroutine |-> None]
  /\ calls = 0
  /\ base = [c \in Conn |-> IF c \in Resuming THEN None ELSE 0]
  /\ got = [c \in Conn |-> {}]

-----------------------------------------------------------------------------
(***************************************************************************)
(* Close and enqueue, which any goroutine may run                           *)
(***************************************************************************)

\* Where a goroutine goes on after Close: the actor with its broadcast; a pump returns,
\* and its deferred Close finds nothing more to do.
After(g) == IF g = Room THEN "broadcast" ELSE "gone"

\* No call is under way.
Idle(g) == call' = [call EXCEPT ![g] = None]

\* Mutant: the room is not told.
CloseSilently(g, c, at) ==
  /\ once' = [once EXCEPT ![c] = "closed"]
  /\ hub' = hub \ {c}
  /\ pc' = [at EXCEPT ![g] = After(g)]
  /\ Idle(g)

\* Close: the first caller unregisters the connection and calls Disconnect; a caller who
\* comes in between waits for it.  The steps of at are pc without g.
Close(g, c, at) ==
  \/ /\ once[c] = "open" /\ c \in inRoom
     /\ once' = [once EXCEPT ![c] = "closing"]
     /\ hub' = hub \ {c}
     /\ pc' = [at EXCEPT ![g] = "send"] /\ call' = [call EXCEPT ![g] = "disconnect"]
  \/ /\ once[c] = "open" /\ c \notin inRoom
     /\ once' = [once EXCEPT ![c] = "closed"]
     /\ pc' = [at EXCEPT ![g] = After(g)]
     /\ UNCHANGED hub /\ Idle(g)
  \/ /\ once[c] = "closing"
     /\ pc' = [at EXCEPT ![g] = "once"]
     /\ UNCHANGED <<once, hub>> /\ Idle(g)
  \/ /\ once[c] = "closed"
     /\ pc' = [at EXCEPT ![g] = After(g)]
     /\ UNCHANGED <<once, hub>> /\ Idle(g)

\* Mutant: a message that finds no place is dropped.
Dropping(g, c, m, at, next) ==
  /\ send' = IF Len(send[c]) < SendCap THEN [send EXCEPT ![c] = Append(@, m)] ELSE send
  /\ pc' = [at EXCEPT ![g] = next]
  /\ UNCHANGED <<once, hub>> /\ Idle(g)

\* enqueue: a place in the send channel, or the end of the connection.
Enqueue(g, c, m, at, next) ==
  \/ /\ Len(send[c]) < SendCap
     /\ send' = [send EXCEPT ![c] = Append(@, m)]
     /\ pc' = [at EXCEPT ![g] = next]
     /\ UNCHANGED <<once, hub>> /\ Idle(g)
  \/ /\ Len(send[c]) = SendCap
     /\ Close(g, c, at)
     /\ UNCHANGED send

OnceDone(g) ==
  /\ pc[g] = "once" /\ once[ConnOf(g)] = "closed"
  /\ pc' = [pc EXCEPT ![g] = After(g)]
  /\ UNCHANGED <<roomVars, cmdCh, event, hub, inRoom, send, once, victim, call, box, clientVars>>

-----------------------------------------------------------------------------
(***************************************************************************)
(* Calls of the room: send and submit                                       *)
(***************************************************************************)

\* send waits for a place in the command channel, whatever its context says.
Send(g) ==
  /\ pc[g] = "send" /\ Len(cmdCh) < CmdCap
  /\ cmdCh' = Append(cmdCh, [kind |-> call[g], player |-> ConnOf(g), from |-> g])
  /\ pc' = [pc EXCEPT ![g] = "wait"]
  /\ UNCHANGED <<roomVars, event, hub, inRoom, send, once, victim, call, box, clientVars>>

\* A pump that has resumed its player starts the other one.
Started(g, at) ==
  IF g # Room /\ at[Write(g[1])] = "off" THEN [at EXCEPT ![Write(g[1])] = "idle"] ELSE at

\* Close is through, with the answer of Disconnect or without it.
Closed(g) ==
  /\ call[g] = "disconnect"
  /\ once' = [once EXCEPT ![ConnOf(g)] = "closed"]
  /\ pc' = [pc EXCEPT ![g] = After(g)]
  /\ UNCHANGED <<hub, send>> /\ Idle(g)

\* The call failed, which is reported to the client; a failed tryResume leaves the
\* connection without a room.
Failed(g) ==
  /\ call[g] # "disconnect"
  /\ Enqueue(g, g[1], Note, Started(g, pc), "idle")

Answered(g) ==
  \/ /\ call[g] = "action"
     /\ pc' = [pc EXCEPT ![g] = "idle"]
     /\ UNCHANGED <<hub, send, once>> /\ Idle(g)
  \/ /\ call[g] \in {"snapshot", "reconnect"}
     /\ pc' = [pc EXCEPT ![g] = IF call[g] = "reconnect" THEN "register" ELSE "snapshot"]
     /\ UNCHANGED <<hub, send, once, call>>

Return(g) ==
  /\ pc[g] = "wait" /\ box[g] # None
  /\ Closed(g) \/ (box[g] = Err /\ Failed(g)) \/ (box[g] # Err /\ Answered(g))
  /\ box' = IF pc'[g] \in {"register", "snapshot"} THEN box ELSE [box EXCEPT ![g] = None]
  /\ UNCHANGED <<roomVars, cmdCh, event, inRoom, victim, clientVars>>

\* Mutant: the command is taken back.
Withdraw(g) ==
  /\ cmdCh' = SelectSeq(cmdCh, LAMBDA cmd : cmd.from # g)
  /\ event' = IF event # None /\ event.from = g THEN [event EXCEPT !.from = None] ELSE event

\* Nobody listens to the answer any more.
Orphan(g) ==
  /\ cmdCh' = [i \in DOMAIN cmdCh |->
                 IF cmdCh[i].from = g THEN [cmdCh[i] EXCEPT !.from = None] ELSE cmdCh[i]]
  /\ event' = IF event # None /\ event.from = g THEN [event EXCEPT !.from = None] ELSE event

\* Mutant: Disconnect is called without a deadline.
NoDeadline(g) ==
  /\ pc[g] = "wait" /\ call[g] \in TimesOut \ {"disconnect"} /\ box[g] = None
  /\ Orphan(g)
  /\ Closed(g) \/ Failed(g)
  /\ UNCHANGED <<roomVars, inRoom, victim, box, clientVars>>

ContextDone(g) ==
  /\ pc[g] = "wait" /\ call[g] \in TimesOut /\ box[g] = None
  /\ Orphan(g)
  /\ Closed(g) \/ Failed(g)
  /\ UNCHANGED <<roomVars, inRoom, victim, box, clientVars>>

-----------------------------------------------------------------------------
(***************************************************************************)
(* The actor                                                                *)
(***************************************************************************)

\* The actor takes a command from its channel.
Take(kind) ==
  /\ pc[Room] = "loop" /\ cmdCh # <<>> /\ Head(cmdCh).kind = kind
  /\ cmdCh' = Tail(cmdCh)

player == Head(cmdCh).player

\* Broadcast works on a copy of the registrations; the answer comes after it.
Broadcast(m, from, answer) ==
  /\ event' = [msg |-> m, to |-> hub, from |-> from, answer |-> answer]
  /\ pc' = [pc EXCEPT ![Room] = "broadcast"]
  /\ UNCHANGED box

Reply(answer) ==
  /\ box' = IF Head(cmdCh).from = None THEN box ELSE [box EXCEPT ![Head(cmdCh).from] = answer]
  /\ UNCHANGED <<event, pc>>

\* A player is between the snapshot of their Reconnect and its delivery.
Window(c) == pc[Read(c)] = "register" \/ (pc[Read(c)] = "snapshot" /\ call[Read(c)] = "reconnect")
             \/ (pc[Read(c)] = "wait" /\ call[Read(c)] = "reconnect" /\ box[Read(c)] # None)

\* The game changes: by an action, a tick or the end of a grace window.
Advance(from) ==
  /\ Concurrent \/ \A c \in Conn : ~Window(c)
  /\ seq' = seq + 1
  /\ Broadcast(Diff(seq + 1), from, seq)
  /\ UNCHANGED connected

otherVars == <<hub, inRoom, send, once, victim, call, clientVars>>

\* The game may refuse any action, and the last one has been played at MaxSeq.
HandleAction ==
  /\ Take("action")
  /\ \/ player \in connected /\ seq < MaxSeq /\ Advance(Head(cmdCh).from)
     \/ Reply(Err) /\ UNCHANGED roomVars
  /\ UNCHANGED otherVars

HandleTick ==
  /\ pc[Room] = "loop" /\ seq < MaxSeq
  /\ Advance(None)
  /\ UNCHANGED <<cmdCh, otherVars>>

HandleSnapshot ==
  /\ Take("snapshot") /\ Reply(seq)
  /\ UNCHANGED <<roomVars, otherVars>>

HandleDisconnect ==
  /\ Take("disconnect")
  /\ connected' = connected \ {player}
  /\ IF player \in connected THEN Broadcast(Note, Head(cmdCh).from, seq) ELSE Reply(seq)
  /\ UNCHANGED <<seq, otherVars>>

HandleReconnect ==
  /\ Take("reconnect")
  /\ connected' = connected \cup {player}
  /\ IF player \in connected THEN Reply(seq) ELSE Broadcast(Note, Head(cmdCh).from, seq)
  /\ UNCHANGED <<seq, otherVars>>

\* The next connection of a broadcast.
Deliver(c) ==
  /\ pc[Room] = "broadcast" /\ c \in event.to
  /\ event' = [event EXCEPT !.to = @ \ {c}] /\ victim' = c
  /\ Enqueue(Room, c, event.msg, pc, "broadcast")
  /\ UNCHANGED <<roomVars, cmdCh, inRoom, box, clientVars>>

EndBroadcast ==
  /\ pc[Room] = "broadcast" /\ event.to = {}
  /\ box' = IF event.from = None THEN box ELSE [box EXCEPT ![event.from] = event.answer]
  /\ event' = None /\ victim' = None
  /\ pc' = [pc EXCEPT ![Room] = "loop"]
  /\ UNCHANGED <<roomVars, cmdCh, hub, inRoom, send, once, call, clientVars>>

Actor ==
  \/ HandleAction \/ HandleTick \/ HandleSnapshot \/ HandleDisconnect \/ HandleReconnect
  \/ EndBroadcast \/ \E c \in Conn : Deliver(c)

-----------------------------------------------------------------------------
(***************************************************************************)
(* The pumps and the client                                                 *)
(***************************************************************************)

\* tryResume calls Reconnect, unless there is no session record.
Dial(c) ==
  /\ pc[Read(c)] = "dial"
  /\ \/ /\ pc' = [pc EXCEPT ![Read(c)] = "send"]
        /\ call' = [call EXCEPT ![Read(c)] = "reconnect"]
     \/ /\ pc' = [Started(Read(c), pc) EXCEPT ![Read(c)] = "idle"]
        /\ UNCHANGED call
  /\ UNCHANGED <<roomVars, cmdCh, event, hub, inRoom, send, once, victim, box, clientVars>>

\* setRoom and Register: nobody else knows the connection in between.
Register(c) ==
  /\ pc[Read(c)] = "register"
  /\ inRoom' = inRoom \cup {c} /\ hub' = hub \cup {c}
  /\ pc' = [pc EXCEPT ![Read(c)] = "snapshot"]
  /\ UNCHANGED <<roomVars, cmdCh, event, send, once, victim, call, box, clientVars>>

\* The snapshot is sent, of a resume or of a RESYNC.
SendSnapshot(c) ==
  /\ pc[Read(c)] = "snapshot"
  /\ Enqueue(Read(c), c, Snap(box[Read(c)]), Started(Read(c), pc), "idle")
  /\ box' = [box EXCEPT ![Read(c)] = None]
  /\ UNCHANGED <<roomVars, cmdCh, event, inRoom, victim, clientVars>>

\* handleGameAction and handleResync, which refuse a connection without a room.
ReadMessage(c, what) ==
  /\ pc[Read(c)] = "idle" /\ once[c] = "open" /\ calls < MaxCalls
  /\ calls' = calls + 1
  /\ \/ /\ c \in inRoom
        /\ pc' = [pc EXCEPT ![Read(c)] = "send"] /\ call' = [call EXCEPT ![Read(c)] = what]
        /\ UNCHANGED <<hub, send, once>>
     \/ /\ c \notin inRoom
        /\ Enqueue(Read(c), c, Note, pc, "idle")
  /\ UNCHANGED <<roomVars, cmdCh, event, inRoom, victim, box, base, got>>

\* What the client makes of a message: it installs a snapshot that is newer than what it
\* has, and keeps the diffs that it cannot apply yet.
WriteMessage(c) ==
  /\ pc[Write(c)] = "idle" /\ once[c] = "open" /\ send[c] # <<>>
  /\ send' = [send EXCEPT ![c] = Tail(@)]
  /\ LET m == Head(send[c])
     IN  /\ got' = IF m.kind = "diff" THEN [got EXCEPT ![c] = @ \cup {m.seq}] ELSE got
         /\ base' = IF m.kind = "snapshot" /\ (base[c] = None \/ m.seq > base[c])
                    THEN [base EXCEPT ![c] = m.seq] ELSE base
  /\ UNCHANGED <<roomVars, cmdCh, event, hub, inRoom, once, victim, pc, call, box, calls>>

\* The client hangs up, the heartbeat expires or a write fails.  The pump that notices it
\* closes the connection; it is the write pump here, which may do so while the read pump
\* is in a call.  The other one finds the connection closed and only returns.
PumpEnds(c) ==
  /\ pc[Write(c)] = "idle" /\ once[c] = "open"
  /\ Close(Write(c), c, pc)
  /\ UNCHANGED <<roomVars, cmdCh, event, inRoom, send, victim, box, clientVars>>

Caller(g) == Send(g) \/ Return(g) \/ ContextDone(g) \/ OnceDone(g)

Next ==
  \/ Actor
  \/ \E g \in Goroutine : Caller(g)
  \/ \E c \in Conn : \/ Dial(c) \/ Register(c) \/ SendSnapshot(c) \/ WriteMessage(c) \/ PumpEnds(c)
                     \/ \E what \in {"action", "snapshot"} : ReadMessage(c, what)

Spec == Init /\ [][Next]_vars

\* The runtime schedules the actor and every goroutine that can go on, and contexts
\* expire.  No client has to send, to read or to hang up.
FairSpec ==
  /\ Spec
  /\ WF_vars(Actor)
  /\ \A g \in Goroutine : WF_vars(Caller(g))
  /\ \A c \in Conn : WF_vars(Dial(c) \/ Register(c) \/ SendSnapshot(c))

-----------------------------------------------------------------------------
(***************************************************************************)
(* Properties                                                               *)
(***************************************************************************)

TypeOK ==
  /\ seq \in 0..MaxSeq /\ connected \subseteq Conn
  /\ cmdCh \in Seq(Command) /\ Len(cmdCh) <= CmdCap /\ event \in Event \cup {None}
  /\ hub \subseteq inRoom /\ inRoom \subseteq Conn
  /\ send \in [Conn -> Seq(Message)] /\ \A c \in Conn : Len(send[c]) <= SendCap
  /\ once \in [Conn -> {"open", "closing", "closed"}] /\ victim \in Conn \cup {None}
  /\ pc \in [Goroutine -> Steps] /\ call \in [Goroutine -> Calls \cup {None}]
  /\ box \in [Goroutine -> Err..MaxSeq \cup {None}]
  /\ calls \in 0..MaxCalls /\ base \in [Conn -> 0..MaxSeq \cup {None}]
  /\ got \in [Conn -> SUBSET (0..MaxSeq)]

\* What the client shows: its snapshot and the diffs that follow it without a gap.
Known(c) ==
  CHOOSE n \in base[c]..MaxSeq :
    (\A i \in (base[c] + 1)..n : i \in got[c]) /\ n + 1 \notin got[c]

\* Everything that was sent to this client has arrived, and nothing is on its way.
Settled(c) ==
  /\ c \in hub /\ pc[Read(c)] = "idle" /\ send[c] = <<>>
  /\ ~(event # None /\ c \in event.to)

\* A connection is never short of a change without knowing it (enqueue closes where it
\* cannot deliver, and diffs are numbered): a client that has received all that was sent
\* to it shows the state of the room, or sees from a gap that it must send RESYNC.
CaughtUp ==
  \A c \in Conn :
    Settled(c) => base[c] # None /\ (Known(c) = seq \/ \E n \in got[c] : n > Known(c))

\* A Disconnect that the room has not handled yet.
Leaving(c) ==
  \/ \E i \in DOMAIN cmdCh : cmdCh[i].kind = "disconnect" /\ cmdCh[i].player = c
  \/ \E g \in Goroutine : pc[g] = "send" /\ call[g] = "disconnect" /\ ConnOf(g) = c

\* Whoever counts as connected has a connection that broadcasts reach, is just being
\* resumed, or is about to be disconnected (tryResume, onConnectionClosed): nobody is
\* taken for present who is gone.
PresentIsReachable ==
  \A c \in connected :
    c \in hub \/ Leaving(c) \/ Window(c)
      \/ (event # None /\ event.from = Read(c) /\ call[Read(c)] = "reconnect")

\* The room goes on: whatever happens to clients in the middle of a broadcast, the actor
\* gets back to its loop (Hub.Broadcast, Close, submit).
RoomGoesOn == []<>(pc[Room] = "loop")

\* The room learns of every connection that is closed, even if nobody waited for the
\* answer to Disconnect long enough.
ClosedIsDisconnected == \A c \in Conn : once[c] # "open" ~> c \notin connected

=============================================================================
