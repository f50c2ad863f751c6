------------------------------ MODULE Transport ------------------------------
(***************************************************************************)
(* Matchmaking, seating, resuming and closing: the Server, the Hub, the     *)
(* Connections (internal/transport/ws) and the Matchmaker of each node, and *)
(* the session records that the nodes share.                                *)
(*                                                                          *)
(* Each connection has a goroutine that serves it (the HTTP handler that    *)
(* dials in and resumes, then readPump) and, once it closes, the goroutine  *)
(* that runs the body of Close.  A step is one critical section of a mutex  *)
(* or one call to a room's actor; between two steps every other goroutine   *)
(* may run.  A room is seen through its API: who sits in it, whom it holds  *)
(* for connected, and whether it is still on.                               *)
(*                                                                          *)
(* A player keeps one bearer token, so player and session are one.  There   *)
(* is one game type, for two players.                                       *)
(***************************************************************************)
EXTENDS Integers, Sequences, Functions, FiniteSetsExt

CONSTANTS
  Player,      \* the players
  Conn,        \* the connections that are ever made
  Owner,       \* [Conn -> Player]: who makes each of them
  Node,        \* the nodes
  At,          \* [Conn -> Node]: where it is made
  None,        \* "no connection"
  MaxRooms,    \* bound: rooms that are ever created
  Overlap,     \* players who may dial in before their last connection is cleaned up
  CloseMidway, \* players whose connections may close while they wait for a seat
  Repeat,      \* players who may ask for a match again while the first request is served
  CreateFails, \* players in whose calls CreateRoom may fail, after the queue was left
  StoreFails,  \* players for whom the calls of the session store may fail
  Expires,     \* a session record may run out
  Crashes,     \* nodes that may crash and restart, once each
  Checked      \* the players whose fortune the properties follow

ASSUME TransportAssumption ==
  /\ Owner \in [Conn -> Player] /\ At \in [Conn -> Node] /\ None \notin Conn \cup Node
  /\ MaxRooms \in Nat
  /\ UNION {Overlap, CloseMidway, Repeat, CreateFails, StoreFails, Checked} \subseteq Player
  /\ Expires \in BOOLEAN /\ Crashes \subseteq Node

VARIABLES
  queue,    \* each node's Matchmaker.queues[gameType]
  pending,  \* each node's Server.pending
  rooms,    \* the rooms created so far
  hub,      \* Hub.rooms: for each room, the connection of each player
  session,  \* the session records: the room a player can resume, 0 for none, and its node
  current,  \* Connection.currentRoom, 0 for nil
  reader,   \* where the goroutine that serves a connection is
  job,      \* its local variables: the room (and owner) it read, the players left to
            \* seat, the connection
  closer,   \* where the goroutine that runs Close is
  leaving,  \* its local variable: the room it read from the connection
  crashed   \* the nodes that have crashed, for the bound

vars == <<queue, pending, rooms, hub, session, current, reader, job, closer, leaving, crashed>>

Capacity == 2

RoomIds == 1..MaxRooms

ReaderSteps == {"unborn", "load", "resume", "serving", "redirected", "message", "enqueue", "create",
                "clear", "seat", "attach", "register", "bind"}

CloserSteps == {"unborn", "open", "pending", "dequeue", "leave", "disconnect", "bind", "closed"}

Room == [players: Seq(Player), connected: SUBSET Player, life: {"Active", "Finished", "Gone"},
         node: Node]

Record == [room: 0..MaxRooms, owner: Node \cup {None}]

NoRecord == [room |-> 0, owner |-> None]

Job == [room: 0..MaxRooms, owner: Node \cup {None}, left: Seq(Player), who: Conn \cup {None}]

NoJob == [room |-> 0, owner |-> None, left |-> <<>>, who |-> None]

\* The players a goroutine is about to seat.
BeingSeated == UNION {Range(job[c].left) : c \in Conn}

Waiting(p) == (\E n \in Node : pending[n][p] # None) \/ p \in BeingSeated

GoTo(c, step) == reader' = [reader EXCEPT ![c] = step]

-----------------------------------------------------------------------------
(***************************************************************************)
(* Dialling in and resuming (HandleWS, tryResume).                          *)
(***************************************************************************)

\* The server is doing nothing for the connection.
AtRest(c) == reader[c] \in {"unborn", "serving", "redirected"}

CleanedUp(c) == reader[c] = "unborn" \/ (AtRest(c) /\ closer[c] = "closed")

Dial(c) ==
  /\ reader[c] = "unborn"
  /\ Owner[c] \in Overlap \/ \A d \in Conn : Owner[d] = Owner[c] => CleanedUp(d)
  /\ GoTo(c, "load")
  /\ UNCHANGED <<queue, pending, rooms, hub, session, current, job, closer, leaving, crashed>>

\* The pumps start: from here on the connection can close.
Serve(c) ==
  /\ GoTo(c, "serving")
  /\ closer' = [closer EXCEPT ![c] = IF @ = "unborn" THEN "open" ELSE @]

\* A load that fails counts as no record.
LoadSession(c) ==
  /\ reader[c] = "load"
  /\ \/ /\ session[Owner[c]] = NoRecord \/ Owner[c] \in StoreFails
        /\ Serve(c) /\ UNCHANGED job
     \/ /\ session[Owner[c]] # NoRecord
        /\ job' = [job EXCEPT ![c].room = session[Owner[c]].room,
                             ![c].owner = session[Owner[c]].owner]
        /\ GoTo(c, "resume") /\ UNCHANGED closer
  /\ UNCHANGED <<queue, pending, rooms, hub, session, current, leaving, crashed>>

\* The room is registered on this node, and Room.Reconnect knows the player.
CanResume(r, c) ==
  /\ rooms[r].life # "Gone" /\ rooms[r].node = At[c]
  /\ Owner[c] \in Range(rooms[r].players)

\* Mutant: the connection is attached, but the room is not told.
ResumeSilently(c) ==
  /\ reader[c] = "resume" /\ CanResume(job[c].room, c)
  /\ job' = [job EXCEPT ![c].left = <<Owner[c]>>, ![c].who = c]
  /\ GoTo(c, "attach")
  /\ UNCHANGED <<queue, pending, rooms, hub, session, current, closer, leaving, crashed>>

\* REDIRECT: the client is sent to the node that owns the room, and asks for nothing here.
Redirect(c) ==
  /\ GoTo(c, "redirected") /\ closer' = [closer EXCEPT ![c] = "open"]

\* A room that is not registered here is on the node the record names, or gone.
Resume(c) ==
  /\ reader[c] = "resume"
  /\ LET r == job[c].room
         p == Owner[c]
     IN  \/ /\ CanResume(r, c)
            /\ rooms' = [rooms EXCEPT ![r].connected = @ \cup {p}]
            /\ job' = [job EXCEPT ![c].left = <<p>>, ![c].who = c]
            /\ GoTo(c, "attach") /\ UNCHANGED closer
         \/ /\ ~CanResume(r, c)
            /\ IF job[c].owner # At[c] THEN Redirect(c) ELSE Serve(c)
            /\ job' = [job EXCEPT ![c] = NoJob] /\ UNCHANGED rooms
  /\ UNCHANGED <<queue, pending, hub, session, current, leaving, crashed>>

-----------------------------------------------------------------------------
(***************************************************************************)
(* FIND_MATCH (handleFindMatch, findMatch, Enqueue, CreateRoom).            *)
(***************************************************************************)

ReadMessage(c) ==
  /\ reader[c] = "serving" /\ closer[c] = "open"
  /\ Owner[c] \in Repeat \/ ~Waiting(Owner[c])
  /\ GoTo(c, "message")
  /\ UNCHANGED <<queue, pending, rooms, hub, session, current, job, closer, leaving, crashed>>

\* Mutant: a seated player may ask for another game.
FindMatchAnyway(c) ==
  /\ reader[c] = "message"
  /\ pending' = [pending EXCEPT ![At[c]][Owner[c]] = c]
  /\ GoTo(c, "enqueue")
  /\ UNCHANGED <<queue, rooms, hub, session, current, job, closer, leaving, crashed>>

FindMatch(c) ==
  /\ reader[c] = "message"
  /\ \/ /\ current[c] # 0          \* ALREADY_IN_ROOM
        /\ GoTo(c, "serving") /\ UNCHANGED pending
     \/ /\ current[c] = 0
        /\ pending' = [pending EXCEPT ![At[c]][Owner[c]] = c]
        /\ GoTo(c, "enqueue")
  /\ UNCHANGED <<queue, rooms, hub, session, current, job, closer, leaving, crashed>>

\* Mutant: no duplicate check.
NeverQueued(n, p) == FALSE

\* Mutant: anybody in the queue is taken for the player.
SomebodyQueued(n, p) == queue[n] # <<>>

AlreadyQueued(n, p) == p \in Range(queue[n])

Enqueue(c) ==
  /\ reader[c] = "enqueue"
  /\ LET p == Owner[c]
         n == At[c]
         q == Append(queue[n], p)
     IN  \/ /\ AlreadyQueued(n, p)
            /\ GoTo(c, "serving") /\ UNCHANGED <<queue, job>>
         \/ /\ ~AlreadyQueued(n, p) /\ Len(q) < Capacity
            /\ queue' = [queue EXCEPT ![n] = q]
            /\ GoTo(c, "serving") /\ UNCHANGED job
         \/ /\ ~AlreadyQueued(n, p) /\ Len(q) >= Capacity
            /\ queue' = [queue EXCEPT ![n] = SubSeq(q, Capacity + 1, Len(q))]
            /\ job' = [job EXCEPT ![c].left = SubSeq(q, 1, Capacity)]
            /\ GoTo(c, "create")
  /\ UNCHANGED <<pending, rooms, hub, session, current, closer, leaving, crashed>>

\* The room is Active, with both players connected, before anyone else knows of it.
CreateRoom(c) ==
  /\ reader[c] = "create"
  /\ \/ /\ Len(rooms) < MaxRooms
        /\ rooms' = Append(rooms, [players |-> job[c].left, connected |-> Range(job[c].left),
                                   life |-> "Active", node |-> At[c]])
        /\ job' = [job EXCEPT ![c].room = Len(rooms) + 1]
        /\ GoTo(c, "seat")
     \/ /\ Owner[c] \in CreateFails
        /\ job' = [job EXCEPT ![c] = NoJob]
        /\ GoTo(c, "clear") /\ UNCHANGED rooms
  /\ UNCHANGED <<queue, pending, hub, session, current, closer, leaving, crashed>>

ClearPending(c) ==
  /\ reader[c] = "clear"
  /\ pending' = [pending EXCEPT ![At[c]][Owner[c]] = None]
  /\ GoTo(c, "serving")
  /\ UNCHANGED <<queue, rooms, hub, session, current, job, closer, leaving, crashed>>

-----------------------------------------------------------------------------
(***************************************************************************)
(* Seating (the loop of seatMatchedPlayers, and the end of tryResume, which *)
(* seats one player on one known connection).                               *)
(***************************************************************************)

NextPlayer(c) ==
  /\ reader[c] = "seat" /\ job[c].left # <<>>
  /\ LET p == Head(job[c].left)
         n == At[c]
     IN  /\ pending' = [pending EXCEPT ![n][p] = None]
         /\ \/ /\ pending[n][p] = None    \* not pending on this node
               /\ job' = [job EXCEPT ![c].left = Tail(@)]
               /\ UNCHANGED reader
            \/ /\ pending[n][p] # None
               /\ job' = [job EXCEPT ![c].who = pending[n][p]]
               /\ GoTo(c, "attach")
  /\ UNCHANGED <<queue, rooms, hub, session, current, closer, leaving, crashed>>

SetRoom(c) ==
  /\ reader[c] = "attach"
  /\ current' = [current EXCEPT ![job[c].who] = job[c].room]
  /\ GoTo(c, "register")
  /\ UNCHANGED <<queue, pending, rooms, hub, session, job, closer, leaving, crashed>>

Register(c) ==
  /\ reader[c] = "register"
  /\ hub' = [hub EXCEPT ![job[c].room][Head(job[c].left)] = job[c].who]
  /\ GoTo(c, "bind")
  /\ UNCHANGED <<queue, pending, rooms, session, current, job, closer, leaving, crashed>>

\* Mutant: the record does not name the node.
BindWithoutOwner(c) ==
  /\ reader[c] = "bind"
  /\ session' = [session EXCEPT ![Head(job[c].left)] = [room |-> job[c].room, owner |-> None]]
  /\ job' = [job EXCEPT ![c].left = Tail(@), ![c].who = None]
  /\ GoTo(c, "seat")
  /\ UNCHANGED <<queue, pending, rooms, hub, current, closer, leaving, crashed>>

\* Mutant: a player with a record keeps it.
BindOnce(c) ==
  /\ reader[c] = "bind"
  /\ session' = [session EXCEPT ![Head(job[c].left)] =
                   IF @ = NoRecord THEN [room |-> job[c].room, owner |-> At[c]] ELSE @]
  /\ job' = [job EXCEPT ![c].left = Tail(@), ![c].who = None]
  /\ GoTo(c, "seat")
  /\ UNCHANGED <<queue, pending, rooms, hub, current, closer, leaving, crashed>>

\* The error of a save that fails is dropped.
SaveSession(p, record) ==
  \/ session' = [session EXCEPT ![p] = record]
  \/ p \in StoreFails /\ UNCHANGED session

BindSession(c) ==
  /\ reader[c] = "bind"
  /\ SaveSession(Head(job[c].left), [room |-> job[c].room, owner |-> At[c]])
  /\ job' = [job EXCEPT ![c].left = Tail(@), ![c].who = None]
  /\ GoTo(c, "seat")
  /\ UNCHANGED <<queue, pending, rooms, hub, current, closer, leaving, crashed>>

AllSeated(c) ==
  /\ reader[c] = "seat" /\ job[c].left = <<>>
  /\ job' = [job EXCEPT ![c] = NoJob]
  /\ Serve(c)
  /\ UNCHANGED <<queue, pending, rooms, hub, session, current, leaving, crashed>>

-----------------------------------------------------------------------------
(***************************************************************************)
(* Closing (Close, onConnectionClosed, Dequeue, Unregister).                *)
(***************************************************************************)

Closing(c, step) == closer' = [closer EXCEPT ![c] = step]

Close(c) ==
  /\ closer[c] = "open"
  /\ Owner[c] \in CloseMidway \/ (AtRest(c) /\ ~Waiting(Owner[c]))
  /\ Closing(c, "pending")
  /\ UNCHANGED <<queue, pending, rooms, hub, session, current, reader, job, leaving, crashed>>

ForgetPending(c) ==
  /\ closer[c] = "pending"
  /\ pending' = [pending EXCEPT ![At[c]][Owner[c]] = None]
  /\ Closing(c, IF pending[At[c]][Owner[c]] # None THEN "dequeue" ELSE "leave")
  /\ UNCHANGED <<queue, rooms, hub, session, current, reader, job, leaving, crashed>>

\* Matchmaker.Dequeue drops the player's first entry, if there is one.
DropFirst(s, p) ==
  IF p \notin Range(s) THEN s
  ELSE LET i == CHOOSE i \in DOMAIN s : s[i] = p /\ \A j \in 1..(i - 1) : s[j] # p
       IN  SubSeq(s, 1, i - 1) \o SubSeq(s, i + 1, Len(s))

Dequeue(c) ==
  /\ closer[c] = "dequeue"
  /\ queue' = [queue EXCEPT ![At[c]] = DropFirst(@, Owner[c])]
  /\ Closing(c, "leave")
  /\ UNCHANGED <<pending, rooms, hub, session, current, reader, job, leaving, crashed>>

\* Only the connection that is registered takes its registration away.
Unregister(r, c) ==
  hub' = [hub EXCEPT ![r][Owner[c]] = IF @ = c THEN None ELSE @]

Leave(c) ==
  /\ closer[c] = "leave"
  /\ leaving' = [leaving EXCEPT ![c] = current[c]]
  /\ \/ /\ current[c] = 0
        /\ Closing(c, "closed") /\ UNCHANGED hub
     \/ /\ current[c] # 0
        /\ Unregister(current[c], c)
        /\ Closing(c, "disconnect")
  /\ UNCHANGED <<queue, pending, rooms, session, current, reader, job, crashed>>

\* Mutant: the room is not told that the player left.
DisconnectSilently(c) ==
  /\ closer[c] = "disconnect"
  /\ Closing(c, "bind")
  /\ UNCHANGED <<queue, pending, rooms, hub, session, current, reader, job, leaving, crashed>>

\* Room.Disconnect; a room that is gone answers with an error.
Disconnect(c) ==
  /\ closer[c] = "disconnect"
  /\ rooms' = [rooms EXCEPT ![leaving[c]].connected =
                 IF rooms[leaving[c]].life = "Gone" THEN @ ELSE @ \ {Owner[c]}]
  /\ Closing(c, "bind")
  /\ UNCHANGED <<queue, pending, hub, session, current, reader, job, leaving, crashed>>

BindAtClose(c) ==
  /\ closer[c] = "bind"
  /\ SaveSession(Owner[c], [room |-> leaving[c], owner |-> At[c]])
  /\ Closing(c, "closed")
  /\ UNCHANGED <<queue, pending, rooms, hub, current, reader, job, leaving, crashed>>

-----------------------------------------------------------------------------
(***************************************************************************)
(* The rooms and the records: a game ends, by play or by forfeit, a         *)
(* finished room is collected, a session record expires.                    *)
(***************************************************************************)

\* Somebody has been seated before: a player acts, or is found to be gone, on a connection.
GameEnds(r) ==
  /\ rooms[r].life = "Active" /\ \E c \in Conn : current[c] = r
  /\ rooms' = [rooms EXCEPT ![r].life = "Finished"]
  /\ UNCHANGED <<queue, pending, hub, session, current, reader, job, closer, leaving, crashed>>

Collect(r) ==
  /\ rooms[r].life = "Finished"
  /\ rooms' = [rooms EXCEPT ![r].life = "Gone"]
  /\ UNCHANGED <<queue, pending, hub, session, current, reader, job, closer, leaving, crashed>>

\* A session record runs out.  The one written when a connection closes outlives the
\* grace window, so it lasts as long as the game it would lead back to.
Expire(p) ==
  /\ Expires /\ session[p] # NoRecord
  /\ rooms[session[p].room].life = "Active" => p \in rooms[session[p].room].connected
  /\ session' = [session EXCEPT ![p] = NoRecord]
  /\ UNCHANGED <<queue, pending, rooms, hub, current, reader, job, closer, leaving, crashed>>

\* A node crashes and starts again: everything it held in memory is gone, the records
\* and the other nodes are not.
Crash(n) ==
  /\ n \in Crashes \ crashed /\ crashed' = crashed \cup {n}
  /\ LET lost == {c \in Conn : At[c] = n /\ reader[c] # "unborn"}
         gone == {r \in DOMAIN rooms : rooms[r].node = n}
     IN  /\ queue' = [queue EXCEPT ![n] = <<>>]
         /\ pending' = [pending EXCEPT ![n] = [p \in Player |-> None]]
         /\ rooms' = [r \in DOMAIN rooms |->
                        IF r \in gone THEN [rooms[r] EXCEPT !.life = "Gone"] ELSE rooms[r]]
         /\ hub' = [r \in RoomIds |-> IF r \in gone THEN [p \in Player |-> None] ELSE hub[r]]
         /\ reader' = [c \in Conn |-> IF c \in lost THEN "serving" ELSE reader[c]]
         /\ closer' = [c \in Conn |-> IF c \in lost THEN "closed" ELSE closer[c]]
         /\ job' = [c \in Conn |-> IF c \in lost THEN NoJob ELSE job[c]]
  /\ UNCHANGED <<session, current, leaving>>

-----------------------------------------------------------------------------

Init ==
  /\ queue = [n \in Node |-> <<>>] /\ pending = [n \in Node |-> [p \in Player |-> None]]
  /\ rooms = <<>> /\ crashed = {}
  /\ hub = [r \in RoomIds |-> [p \in Player |-> None]]
  /\ session = [p \in Player |-> NoRecord]
  /\ current = [c \in Conn |-> 0]
  /\ reader = [c \in Conn |-> "unborn"] /\ job = [c \in Conn |-> NoJob]
  /\ closer = [c \in Conn |-> "unborn"] /\ leaving = [c \in Conn |-> 0]

Reader(c) ==
  \/ LoadSession(c) \/ Resume(c) \/ FindMatch(c) \/ Enqueue(c) \/ CreateRoom(c)
  \/ ClearPending(c) \/ NextPlayer(c) \/ SetRoom(c) \/ Register(c) \/ BindSession(c)
  \/ AllSeated(c)

Closer(c) == ForgetPending(c) \/ Dequeue(c) \/ Leave(c) \/ Disconnect(c) \/ BindAtClose(c)

Client(c) == Dial(c) \/ ReadMessage(c) \/ Close(c)

Next ==
  \/ \E c \in Conn : Reader(c) \/ Closer(c) \/ Client(c)
  \/ \E r \in DOMAIN rooms : GameEnds(r) \/ Collect(r)
  \/ \E p \in Player : Expire(p)
  \/ \E n \in Node : Crash(n)

Spec == Init /\ [][Next]_vars

\* The server's goroutines run; clients and games may do as they please.
FairSpec == Spec /\ \A c \in Conn : WF_vars(Reader(c)) /\ WF_vars(Closer(c))

-----------------------------------------------------------------------------
(***************************************************************************)
(* Properties                                                               *)
(***************************************************************************)

TypeOK ==
  /\ queue \in [Node -> Seq(Player)] /\ pending \in [Node -> [Player -> Conn \cup {None}]]
  /\ rooms \in Seq(Room) /\ Len(rooms) <= MaxRooms
  /\ hub \in [RoomIds -> [Player -> Conn \cup {None}]]
  /\ session \in [Player -> Record] /\ current \in [Conn -> 0..Len(rooms)]
  /\ reader \in [Conn -> ReaderSteps] /\ job \in [Conn -> Job]
  /\ closer \in [Conn -> CloserSteps] /\ leaving \in [Conn -> 0..Len(rooms)]
  /\ crashed \subseteq Crashes

\* The server is in the middle of nothing that concerns the player.
Quiet(p) ==
  /\ p \notin BeingSeated
  /\ \A c \in Conn :
       Owner[c] = p => AtRest(c) /\ closer[c] \in {"unborn", "open", "closed"}

Seated(p, r) == p \in Range(rooms[r].players)

\* A match is made of two different players, and nobody waits in the queue twice or
\* while the queue could be matched (Enqueue under the matchmaker's mutex).
MatchIsPair ==
  /\ \A n \in Node : IsInjective(queue[n]) /\ Len(queue[n]) < Capacity
  /\ \A r \in DOMAIN rooms : Len(rooms[r].players) = Capacity /\ IsInjective(rooms[r].players)

\* Whatever is registered in the hub or recorded for a session belongs: a room's
\* broadcasts go only to connections of players seated in it, and a session record
\* names a room in which its player has a seat, and the node where that room is or was,
\* so that a resume is never refused for an unknown player and a redirect leads home.
RecordsNameSeats ==
  /\ \A r \in RoomIds, p \in Player :
       hub[r][p] # None => Owner[hub[r][p]] = p /\ r \in DOMAIN rooms /\ Seated(p, r)
  /\ \A p \in Player :
       session[p] # NoRecord => /\ session[p].room \in DOMAIN rooms /\ Seated(p, session[p].room)
                                /\ session[p].owner = rooms[session[p].room].node

\* A player whose connection is open and registered with a running game is connected in
\* that game: no clean-up of another connection has started their grace window
\* (Unregister and Disconnect in onConnectionClosed).
LivePlayerIsConnected ==
  \A c \in Conn :
    LET p == Owner[c]
        r == current[c]
    IN  p \in Checked /\ closer[c] = "open" /\ Quiet(p) /\ r # 0 /\ hub[r][p] = c /\ rooms[r].life = "Active"
          => p \in rooms[r].connected

\* A player who has no open connection to their running game is disconnected in it, so
\* that the grace window runs and the game can end (onConnectionClosed against
\* seatMatchedPlayers).
AbsentPlayerIsDisconnected ==
  \A r \in DOMAIN rooms : \A p \in rooms[r].connected \cap Checked :
    Quiet(p) /\ rooms[r].life = "Active"
      => \E c \in Conn : Owner[c] = p /\ closer[c] = "open" /\ current[c] = r

\* A player sits in at most one running game (the ALREADY_IN_ROOM check of
\* handleFindMatch, the queue's duplicate check).
OneGameAtATime ==
  \A r, s \in DOMAIN rooms :
    r # s /\ rooms[r].life = "Active" /\ rooms[s].life = "Active"
      => Range(rooms[r].players) \cap Range(rooms[s].players) \cap Checked = {}

\* A player who is pending is in the queue, "and will be seated by whichever call
\* completes the match" (findMatch).
PendingIsQueued ==
  \A p \in Checked, n \in Node : pending[n][p] # None /\ Quiet(p) => p \in Range(queue[n])

\* Two players who wait on one node do not wait for ever: one of them is seated or gives up.
WaitingPairIsSeated ==
  \A pair \in kSubset(2, Checked), n \in Node :
    (\A p \in pair : pending[n][p] # None) ~> (\E p \in pair : pending[n][p] = None)

\* The session record of a player who is playing leads back to the game they play, or has
\* run out: no clean-up of another connection has put an older room in its place
\* (bindSession in seatMatchedPlayers, tryResume and onConnectionClosed).
RecordFollowsPlayer ==
  \A c \in Conn :
    LET p == Owner[c]
        r == current[c]
    IN  p \in Checked /\ closer[c] = "open" /\ Quiet(p) /\ r # 0 /\ rooms[r].life = "Active"
          => session[p].room \in {0, r}

=============================================================================
