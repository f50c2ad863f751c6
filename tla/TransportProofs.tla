--------------------------- MODULE TransportProofs ---------------------------
(***************************************************************************)
(* Proofs about Transport, for any number of players, connections, nodes    *)
(* and rooms, and for every choice of the faults: overlapping connections,  *)
(* closes in the middle of a match, repeated requests, failing rooms,       *)
(* expired records and crashes.                                             *)
(***************************************************************************)
EXTENDS Transport, TLAPS

\* Most steps need no arithmetic; the others name SMT.
USE Zenon

-----------------------------------------------------------------------------
(* What the proofs use of sequences. *)

\* A sequence that is not empty has a first entry.
LEMMA NoEntry ==
  ASSUME NEW S
  PROVE  <<>> \in Seq(S) /\ Len(<<>>) = 0 /\ \A q \in Seq(S) : q # <<>> => Len(q) \in Nat \ {0}
  BY SMT

\* Replacing an entry leaves the length and the other entries alone.
LEMMA EntryReplaced ==
  ASSUME NEW S, NEW q \in Seq(S), NEW i \in 1..Len(q), NEW e \in S
  PROVE  LET r == [q EXCEPT ![i] = e]
         IN  r \in Seq(S) /\ Len(r) = Len(q)
             /\ \A j \in 1..Len(q) : r[j] = IF j = i THEN e ELSE q[j]
  BY SMT

\* Two sequences with the same entries are one.
LEMMA SameEntries ==
  ASSUME NEW S, NEW q \in Seq(S), NEW r \in Seq(S), Len(q) = Len(r),
         \A i \in 1..Len(q) : q[i] = r[i]
  PROVE  q = r
  BY SMT

\* SubSeq of an empty interval.
LEMMA NothingBetween ==
  ASSUME NEW q, NEW m \in Int, NEW n \in Int, n < m
  PROVE  SubSeq(q, m, n) = <<>>
  BY SMT

\* The whole of a sequence.
LEMMA AllOfIt ==
  ASSUME NEW S, NEW q \in Seq(S)
  PROVE  SubSeq(q, 1, Len(q)) = q
  BY SMT

\* Append adds one entry at the end.
LEMMA OneMore ==
  ASSUME NEW S, NEW q \in Seq(S), NEW e \in S
  PROVE  LET r == Append(q, e)
         IN  r \in Seq(S) /\ r # <<>> /\ Len(r) = Len(q) + 1 /\ r[Len(q) + 1] = e
             /\ \A i \in 1..Len(q) : r[i] = q[i]
  BY SMT

-----------------------------------------------------------------------------
(***************************************************************************)
(* The inductive invariant                                                  *)
(***************************************************************************)

\* The player has a seat in the room, and the room is or was on the node.
HasSeat(p, n, r) == r \in DOMAIN rooms /\ Seated(p, r) /\ rooms[r].node = n

\* A pending entry is a connection of its player, on the node that holds it.
PendingIsOwn ==
  \A n \in Node, p \in Player :
    pending[n][p] # None => Owner[pending[n][p]] = p /\ At[pending[n][p]] = n

\* A connection is bound, and closes, only with a room of its node where its player sits.
RoomIsOwn ==
  \A c \in Conn :
    /\ current[c] # 0 => HasSeat(Owner[c], At[c], current[c])
    /\ leaving[c] # 0 => HasSeat(Owner[c], At[c], leaving[c])
    /\ closer[c] \in {"disconnect", "bind"} => leaving[c] # 0

HubIsOwn ==
  \A r \in RoomIds, p \in Player :
    hub[r][p] # None => Owner[hub[r][p]] = p /\ r \in DOMAIN rooms /\ Seated(p, r)

SessionIsOwn ==
  \A p \in Player : session[p] # NoRecord => HasSeat(p, session[p].owner, session[p].room)

Pair(s) == Len(s) = Capacity /\ IsInjective(s)

\* What a goroutine holds in its local variables: a match that is not seated yet, the
\* record it resumes from, or a room of its node and the players it still has to seat,
\* with a connection of the first of them.
JobIsOwn(c) ==
  /\ reader[c] = "create" => Pair(job[c].left)
  /\ reader[c] = "resume" => HasSeat(Owner[c], job[c].owner, job[c].room)
  /\ reader[c] \in {"seat", "attach", "register", "bind"} =>
       \A i \in DOMAIN job[c].left : HasSeat(job[c].left[i], At[c], job[c].room)
  /\ reader[c] \in {"attach", "register", "bind"} =>
       /\ job[c].left # <<>> /\ job[c].who \in Conn
       /\ Owner[job[c].who] = Head(job[c].left) /\ At[job[c].who] = At[c]

TransportInv ==
  /\ MatchIsPair /\ PendingIsOwn /\ RoomIsOwn /\ HubIsOwn /\ SessionIsOwn
  /\ \A c \in Conn : JobIsOwn(c)

-----------------------------------------------------------------------------
(***************************************************************************)
(* Rooms                                                                    *)
(***************************************************************************)

\* Rooms are only ever added, and keep their players and their node.
RoomsGrow ==
  /\ rooms' \in Seq(Room) /\ Len(rooms') <= MaxRooms /\ Len(rooms) <= Len(rooms')
  /\ \A r \in 1..Len(rooms) :
       rooms'[r].players = rooms[r].players /\ rooms'[r].node = rooms[r].node

\* Facts about the list of rooms.
LEMMA RoomsType ==
  ASSUME TypeOK
  PROVE  /\ rooms \in Seq(Room) /\ Len(rooms) \in Nat /\ DOMAIN rooms = 1..Len(rooms)
         /\ Len(rooms) <= MaxRooms /\ MaxRooms \in Nat
         /\ \A r \in DOMAIN rooms : rooms[r] \in Room
  BY TransportAssumption, SMT DEF TypeOK

\* One room changes its life or its connected players.
LEMMA RoomChanges ==
  ASSUME TypeOK, NEW r \in DOMAIN rooms, NEW room \in Room,
         room.players = rooms[r].players, room.node = rooms[r].node,
         rooms' = [rooms EXCEPT ![r] = room]
  PROVE  RoomsGrow /\ Len(rooms') = Len(rooms)
<1>1. /\ rooms \in Seq(Room) /\ Len(rooms) \in Nat /\ DOMAIN rooms = 1..Len(rooms)
      /\ Len(rooms) <= MaxRooms
  BY RoomsType
<1>2. rooms' \in Seq(Room) /\ Len(rooms') = Len(rooms)
  BY <1>1, EntryReplaced, SMT
<1>3. ASSUME NEW s \in 1..Len(rooms)
      PROVE  rooms'[s].players = rooms[s].players /\ rooms'[s].node = rooms[s].node
  <2>1. CASE s = r
    BY <1>1, <2>1
  <2>2. CASE s # r
    BY <1>1, <2>2
  <2> QED
    BY <2>1, <2>2
<1> QED
  BY <1>1, <1>2, <1>3, SMT DEF RoomsGrow

\* The rooms are as they were.
LEMMA RoomsStay ==
  ASSUME TypeOK, UNCHANGED rooms
  PROVE  RoomsGrow /\ Len(rooms') = Len(rooms)
  BY RoomsType, SMT DEF RoomsGrow

\* Room.Reconnect and Room.Disconnect.
LEMMA ConnectedChanges ==
  ASSUME TypeOK, NEW r \in DOMAIN rooms, NEW who, who \subseteq Player,
         rooms' = [rooms EXCEPT ![r].connected = who]
  PROVE  RoomsGrow /\ Len(rooms') = Len(rooms)
<1>1. rooms[r] \in Room
  BY RoomsType
<1> DEFINE room == [rooms[r] EXCEPT !.connected = who]
<1>2. room \in Room /\ room.players = rooms[r].players /\ room.node = rooms[r].node
  BY <1>1 DEF Room
<1>3. rooms' = [rooms EXCEPT ![r] = room]
  OBVIOUS
<1> HIDE DEF room
<1> QED
  BY <1>2, <1>3, RoomChanges

\* A game ends, or a room is collected.
LEMMA LifeChanges ==
  ASSUME TypeOK, NEW r \in DOMAIN rooms, NEW life \in {"Active", "Finished", "Gone"},
         rooms' = [rooms EXCEPT ![r].life = life]
  PROVE  RoomsGrow /\ Len(rooms') = Len(rooms)
<1>1. rooms[r] \in Room
  BY RoomsType
<1> DEFINE room == [rooms[r] EXCEPT !.life = life]
<1>2. room \in Room /\ room.players = rooms[r].players /\ room.node = rooms[r].node
  BY <1>1 DEF Room
<1>3. rooms' = [rooms EXCEPT ![r] = room]
  OBVIOUS
<1> HIDE DEF room
<1> QED
  BY <1>2, <1>3, RoomChanges

\* A crash ends rooms and removes none.
LEMMA CrashRooms ==
  ASSUME TypeOK, NEW n, Crash(n)
  PROVE  RoomsGrow /\ Len(rooms') = Len(rooms)
<1>1. /\ rooms \in Seq(Room) /\ Len(rooms) \in Nat /\ DOMAIN rooms = 1..Len(rooms)
      /\ Len(rooms) <= MaxRooms /\ \A r \in DOMAIN rooms : rooms[r] \in Room
  BY RoomsType
<1> DEFINE ended(r) == IF r \in {s \in DOMAIN rooms : rooms[s].node = n}
                         THEN [rooms[r] EXCEPT !.life = "Gone"] ELSE rooms[r]
<1>2. rooms' = [r \in 1..Len(rooms) |-> ended(r)]
  BY <1>1 DEF Crash
<1>3. ASSUME NEW r \in 1..Len(rooms)
      PROVE  ended(r) \in Room /\ ended(r).players = rooms[r].players
             /\ ended(r).node = rooms[r].node
  BY <1>1 DEF Room
<1> HIDE DEF ended
<1>4. rooms' \in Seq(Room) /\ Len(rooms') = Len(rooms)
  BY <1>1, <1>2, <1>3, SMT
<1>5. \A r \in 1..Len(rooms) : rooms'[r] = ended(r)
  BY <1>2
<1> QED
  BY <1>1, <1>3, <1>4, <1>5, SMT DEF RoomsGrow

\* Seats and records stay right while rooms are added.
LEMMA SeatStays ==
  ASSUME TypeOK, RoomsGrow, NEW p, NEW n, NEW r
  PROVE  /\ HasSeat(p, n, r) => HasSeat(p, n, r)'
         /\ r \in DOMAIN rooms => r \in DOMAIN rooms' /\ (Seated(p, r) => Seated(p, r)')
<1>1. Len(rooms) \in Nat /\ DOMAIN rooms = 1..Len(rooms)
  BY RoomsType
<1>2. Len(rooms') \in Nat /\ DOMAIN rooms' = 1..Len(rooms') /\ Len(rooms) <= Len(rooms')
  BY SMT DEF RoomsGrow
<1>3. r \in DOMAIN rooms =>
        r \in DOMAIN rooms' /\ rooms'[r].players = rooms[r].players /\ rooms'[r].node = rooms[r].node
  BY <1>1, <1>2, SMT DEF RoomsGrow
<1> QED
  BY <1>3 DEF HasSeat, Seated

\* CreateRoom adds a room with the pair that its caller took from the queue.
LEMMA CreateRooms ==
  ASSUME TypeOK, NEW c \in Conn, Len(rooms) < MaxRooms,
         rooms' = Append(rooms, [players |-> job[c].left, connected |-> Range(job[c].left),
                                 life |-> "Active", node |-> At[c]])
  PROVE  /\ RoomsGrow /\ Len(rooms') = Len(rooms) + 1
         /\ rooms'[Len(rooms) + 1].players = job[c].left
         /\ rooms'[Len(rooms) + 1].node = At[c]
         /\ rooms'[Len(rooms) + 1].connected = Range(job[c].left)
         /\ \A s \in 1..Len(rooms) : rooms'[s] = rooms[s]
<1> DEFINE room == [players |-> job[c].left, connected |-> Range(job[c].left),
                    life |-> "Active", node |-> At[c]]
<1>1. /\ rooms \in Seq(Room) /\ Len(rooms) \in Nat /\ DOMAIN rooms = 1..Len(rooms)
      /\ MaxRooms \in Nat
  BY RoomsType
<1>2. job[c].left \in Seq(Player) /\ At[c] \in Node
  BY TransportAssumption DEF TypeOK, Job
<1>3. Range(job[c].left) \in SUBSET Player
  BY <1>2, SMT DEF Range
<1>4. /\ room \in Room /\ room.players = job[c].left /\ room.node = At[c]
      /\ room.connected = Range(job[c].left)
  BY <1>2, <1>3 DEF Room
<1> HIDE DEF room
<1>5. rooms' = Append(rooms, room)
  BY DEF room
<1>6. /\ rooms' \in Seq(Room) /\ Len(rooms') = Len(rooms) + 1
      /\ \A i \in 1..Len(rooms) : rooms'[i] = rooms[i]
      /\ rooms'[Len(rooms) + 1] = room
  BY <1>1, <1>4, <1>5, OneMore, SMT
<1> QED
  BY <1>1, <1>4, <1>6, SMT DEF RoomsGrow

-----------------------------------------------------------------------------
(***************************************************************************)
(* What a step leaves alone                                                 *)
(***************************************************************************)

\* Bindings of connections keep their type while rooms are added.
LEMMA BindingsStay ==
  ASSUME TypeOK, RoomsGrow
  PROVE  /\ UNCHANGED current => current' \in [Conn -> 0..Len(rooms')]
         /\ UNCHANGED leaving => leaving' \in [Conn -> 0..Len(rooms')]
<1>1. /\ Len(rooms) \in Nat /\ Len(rooms') \in Nat /\ Len(rooms) <= Len(rooms')
      /\ current \in [Conn -> 0..Len(rooms)] /\ leaving \in [Conn -> 0..Len(rooms)]
  BY SMT DEF TypeOK, RoomsGrow
<1> QED
  BY <1>1, SMT

\* A part of the invariant whose variables do not change stays true.
LEMMA PartsStay ==
  ASSUME TypeOK, TransportInv, RoomsGrow
  PROVE  /\ UNCHANGED pending => PendingIsOwn'
         /\ (/\ UNCHANGED <<current, leaving>>
             /\ \A c \in Conn : closer'[c] \in {"disconnect", "bind"}
                                  => closer[c] \in {"disconnect", "bind"})
              => RoomIsOwn'
         /\ UNCHANGED hub => HubIsOwn'
         /\ UNCHANGED session => SessionIsOwn'
         /\ UNCHANGED queue /\ Len(rooms') = Len(rooms) => MatchIsPair'
         /\ \A c \in Conn : reader'[c] = reader[c] /\ job'[c] = job[c] => JobIsOwn(c)'
<1>1. UNCHANGED pending => PendingIsOwn'
  BY SMT DEF TransportInv, PendingIsOwn
<1>2. ASSUME UNCHANGED <<current, leaving>>,
             \A c \in Conn : closer'[c] \in {"disconnect", "bind"}
                               => closer[c] \in {"disconnect", "bind"}
      PROVE  RoomIsOwn'
  BY <1>2, SeatStays DEF TransportInv, RoomIsOwn
<1>3. ASSUME UNCHANGED hub
      PROVE  HubIsOwn'
  BY <1>3, SeatStays DEF TransportInv, HubIsOwn
<1>4. ASSUME UNCHANGED session
      PROVE  SessionIsOwn'
  BY <1>4, SeatStays DEF TransportInv, SessionIsOwn
<1>5. ASSUME UNCHANGED queue, Len(rooms') = Len(rooms)
      PROVE  MatchIsPair'
  <2>1. DOMAIN rooms' = 1..Len(rooms) /\ DOMAIN rooms = 1..Len(rooms)
    BY <1>5, RoomsType, SMT DEF RoomsGrow
  <2>2. \A r \in DOMAIN rooms' : rooms'[r].players = rooms[r].players
    BY <2>1 DEF RoomsGrow
  <2> QED
    BY <1>5, <2>1, <2>2 DEF TransportInv, MatchIsPair
<1>6. ASSUME NEW c \in Conn, reader'[c] = reader[c], job'[c] = job[c]
      PROVE  JobIsOwn(c)'
  <2>1. JobIsOwn(c)
    BY DEF TransportInv
  <2>2. (reader[c] = "resume" => HasSeat(Owner[c], job[c].owner, job[c].room))'
    BY <1>6, <2>1, SeatStays DEF JobIsOwn
  <2>3. (reader[c] \in {"seat", "attach", "register", "bind"} =>
           \A i \in DOMAIN job[c].left : HasSeat(job[c].left[i], At[c], job[c].room))'
    BY <1>6, <2>1, SeatStays DEF JobIsOwn
  <2> QED
    BY <1>6, <2>1, <2>2, <2>3 DEF JobIsOwn
<1> QED
  BY <1>1, <1>2, <1>3, <1>4, <1>5, <1>6

\* A goroutine moves on: the jobs of the others are as they were.
LEMMA ReaderMoves ==
  ASSUME TypeOK, TransportInv, RoomsGrow, NEW c \in Conn, NEW step \in ReaderSteps,
         GoTo(c, step), \A d \in Conn \ {c} : job'[d] = job[d],
         step \in {"create", "resume", "seat", "attach", "register", "bind"} => JobIsOwn(c)'
  PROVE  reader' \in [Conn -> ReaderSteps] /\ \A d \in Conn : JobIsOwn(d)'
<1>1. reader \in [Conn -> ReaderSteps]
  BY DEF TypeOK
<1>2. /\ reader' \in [Conn -> ReaderSteps] /\ reader'[c] = step
      /\ \A d \in Conn \ {c} : reader'[d] = reader[d]
  BY <1>1 DEF GoTo
<1>3. \A d \in Conn \ {c} : JobIsOwn(d)'
  BY <1>2, PartsStay
<1>4. JobIsOwn(c)'
  <2>1. CASE step \in {"create", "resume", "seat", "attach", "register", "bind"}
    BY <2>1
  <2>2. CASE step \notin {"create", "resume", "seat", "attach", "register", "bind"}
    BY <1>2, <2>2 DEF JobIsOwn
  <2> QED
    BY <2>1, <2>2
<1> QED
  BY <1>2, <1>3, <1>4

\* The pumps start.
LEMMA ServeFacts ==
  ASSUME TypeOK, NEW c \in Conn, Serve(c) \/ Redirect(c)
  PROVE  /\ closer' \in [Conn -> CloserSteps]
         /\ \A d \in Conn : closer'[d] \in {"disconnect", "bind"}
                              => closer[d] \in {"disconnect", "bind"}
         /\ \E step \in {"serving", "redirected"} : GoTo(c, step)
<1>1. closer \in [Conn -> CloserSteps]
  BY DEF TypeOK
<1>2. CASE Serve(c)
  BY <1>1, <1>2 DEF Serve, CloserSteps
<1>3. CASE Redirect(c)
  BY <1>1, <1>3 DEF Redirect, CloserSteps
<1> QED
  BY <1>2, <1>3

-----------------------------------------------------------------------------
(***************************************************************************)
(* The steps of a connection's goroutine                                    *)
(***************************************************************************)

\* Dialling in, reading a message.
LEMMA ClientKeeps ==
  ASSUME TypeOK, TransportInv, NEW c \in Conn, Dial(c) \/ ReadMessage(c)
  PROVE  TypeOK' /\ TransportInv'
<1>1. /\ UNCHANGED <<queue, pending, rooms, hub, session, current, job, closer, leaving, crashed>>
      /\ \E step \in {"load", "message"} : GoTo(c, step)
  BY DEF Dial, ReadMessage
<1>2. RoomsGrow /\ Len(rooms') = Len(rooms)
  BY <1>1, RoomsStay
<1>3. reader' \in [Conn -> ReaderSteps] /\ \A d \in Conn : JobIsOwn(d)'
  BY <1>1, <1>2, ReaderMoves DEF ReaderSteps
<1>4. TypeOK'
  BY <1>1, <1>3 DEF TypeOK
<1> QED
  BY <1>1, <1>2, <1>3, <1>4, PartsStay DEF TransportInv

\* tryResume loads the record.
LEMMA LoadKeeps ==
  ASSUME TypeOK, TransportInv, NEW c \in Conn, LoadSession(c)
  PROVE  TypeOK' /\ TransportInv'
<1>1. UNCHANGED <<queue, pending, rooms, hub, session, current, leaving, crashed>>
  BY DEF LoadSession
<1>2. RoomsGrow /\ Len(rooms') = Len(rooms)
  BY <1>1, RoomsStay
<1>3. CASE Serve(c) /\ UNCHANGED job
  <2>1. /\ closer' \in [Conn -> CloserSteps]
        /\ \A d \in Conn : closer'[d] \in {"disconnect", "bind"}
                             => closer[d] \in {"disconnect", "bind"}
        /\ GoTo(c, "serving")
    BY <1>3, ServeFacts DEF Serve
  <2>2. reader' \in [Conn -> ReaderSteps] /\ \A d \in Conn : JobIsOwn(d)'
    BY <1>2, <1>3, <2>1, ReaderMoves DEF ReaderSteps
  <2>3. TypeOK'
    BY <1>1, <1>3, <2>1, <2>2 DEF TypeOK
  <2> QED
    BY <1>1, <1>2, <2>1, <2>2, <2>3, PartsStay DEF TransportInv
<1>4. CASE ~(Serve(c) /\ UNCHANGED job)
  <2> DEFINE s == session[Owner[c]]
  <2>1. /\ s # NoRecord /\ GoTo(c, "resume") /\ UNCHANGED closer
        /\ job' = [job EXCEPT ![c].room = s.room, ![c].owner = s.owner]
    BY <1>4 DEF LoadSession
  <2>2. job \in [Conn -> Job] /\ job[c] \in Job /\ Owner[c] \in Player /\ s \in Record
    BY TransportAssumption DEF TypeOK
  <2>3. /\ job' \in [Conn -> Job] /\ job'[c].room = s.room /\ job'[c].owner = s.owner
        /\ \A d \in Conn \ {c} : job'[d] = job[d]
    BY <2>1, <2>2 DEF Job, Record
  <2>4. HasSeat(Owner[c], s.owner, s.room)'
    <3>1. HasSeat(Owner[c], s.owner, s.room)
      BY <2>1, <2>2 DEF TransportInv, SessionIsOwn
    <3> QED
      BY <1>1, <3>1 DEF HasSeat, Seated
  <2>5. reader'[c] = "resume"
    BY <2>1 DEF GoTo, TypeOK
  <2>6. JobIsOwn(c)'
    BY <1>1, <2>3, <2>4, <2>5 DEF JobIsOwn
  <2>7. reader' \in [Conn -> ReaderSteps] /\ \A d \in Conn : JobIsOwn(d)'
    BY <1>2, <2>1, <2>3, <2>6, ReaderMoves DEF ReaderSteps
  <2>8. TypeOK'
    BY <1>1, <2>1, <2>3, <2>7 DEF TypeOK
  <2> QED
    BY <1>1, <1>2, <2>1, <2>7, <2>8, PartsStay DEF TransportInv
<1> QED
  BY <1>3, <1>4

\* tryResume reattaches the player to the room of the record, or gives up.
LEMMA ResumeKeeps ==
  ASSUME TypeOK, TransportInv, NEW c \in Conn, Resume(c)
  PROVE  TypeOK' /\ TransportInv'
<1> DEFINE r == job[c].room
           p == Owner[c]
<1>1. UNCHANGED <<queue, pending, hub, session, current, leaving, crashed>>
  BY DEF Resume
<1>2. job \in [Conn -> Job] /\ job[c] \in Job /\ p \in Player /\ NoJob \in Job
  <2>1. NoJob \in Job
    BY TransportAssumption, SMT DEF NoJob, Job
  <2> QED
    BY <2>1, TransportAssumption DEF TypeOK
<1>3. r \in DOMAIN rooms
  BY DEF Resume, TransportInv, JobIsOwn, HasSeat
<1>4. CASE CanResume(r, c)
  <2>1. /\ rooms' = [rooms EXCEPT ![r].connected = rooms[r].connected \cup {p}]
        /\ job' = [job EXCEPT ![c].left = <<p>>, ![c].who = c]
        /\ GoTo(c, "attach") /\ UNCHANGED closer
    BY <1>4 DEF Resume
  <2>2. rooms[r].connected \cup {p} \subseteq Player
    BY <1>2, <1>3, RoomsType DEF Room
  <2>3. RoomsGrow /\ Len(rooms') = Len(rooms)
    BY <1>3, <2>1, <2>2, ConnectedChanges
  <2>4. /\ job' \in [Conn -> Job] /\ job'[c].left = <<p>> /\ job'[c].who = c /\ job'[c].room = r
        /\ \A d \in Conn \ {c} : job'[d] = job[d]
    <3>1. <<p>> \in Seq(Player)
      BY <1>2, SMT
    <3> QED
      BY <1>2, <2>1, <3>1 DEF Job
  <2>5. HasSeat(p, At[c], r)
    BY <1>3, <1>4 DEF CanResume, HasSeat, Seated
  <2>6. (HasSeat(Owner[c], At[c], job[c].room))'
    BY <2>3, <2>4, <2>5, SeatStays
  <2>7. reader'[c] = "attach"
    BY <2>1 DEF GoTo, TypeOK
  <2>8. JobIsOwn(c)'
    BY <2>4, <2>6, <2>7, SMT DEF JobIsOwn
  <2>9. reader' \in [Conn -> ReaderSteps] /\ \A d \in Conn : JobIsOwn(d)'
    BY <2>1, <2>3, <2>4, <2>8, ReaderMoves DEF ReaderSteps
  <2>10. current' \in [Conn -> 0..Len(rooms')] /\ leaving' \in [Conn -> 0..Len(rooms')]
    BY <1>1, <2>3, BindingsStay
  <2>11. TypeOK'
    BY <1>1, <2>1, <2>3, <2>4, <2>9, <2>10 DEF TypeOK, RoomsGrow
  <2> QED
    BY <1>1, <2>1, <2>3, <2>9, <2>11, PartsStay DEF TransportInv
<1>5. CASE ~CanResume(r, c)
  <2>1. /\ Redirect(c) \/ Serve(c)
        /\ job' = [job EXCEPT ![c] = NoJob] /\ UNCHANGED rooms
    BY <1>5 DEF Resume
  <2>2. RoomsGrow /\ Len(rooms') = Len(rooms)
    BY <2>1, RoomsStay
  <2>3. job' \in [Conn -> Job] /\ \A d \in Conn \ {c} : job'[d] = job[d]
    BY <1>2, <2>1
  <2>4. /\ closer' \in [Conn -> CloserSteps]
        /\ \A d \in Conn : closer'[d] \in {"disconnect", "bind"}
                             => closer[d] \in {"disconnect", "bind"}
        /\ \E step \in {"serving", "redirected"} : GoTo(c, step)
    BY <2>1, ServeFacts
  <2>5. reader' \in [Conn -> ReaderSteps] /\ \A d \in Conn : JobIsOwn(d)'
    BY <2>2, <2>3, <2>4, ReaderMoves DEF ReaderSteps
  <2>6. TypeOK'
    BY <1>1, <2>1, <2>3, <2>4, <2>5 DEF TypeOK
  <2> QED
    BY <1>1, <2>2, <2>4, <2>5, <2>6, PartsStay DEF TransportInv
<1> QED
  BY <1>4, <1>5

\* handleFindMatch notes the connection, or refuses; after a failure it is forgotten.
LEMMA PendingKeeps ==
  ASSUME TypeOK, TransportInv, NEW c \in Conn, FindMatch(c) \/ ClearPending(c)
  PROVE  TypeOK' /\ TransportInv'
<1>1. /\ UNCHANGED <<queue, rooms, hub, session, current, job, closer, leaving, crashed>>
      /\ \E step \in {"serving", "enqueue"} : GoTo(c, step)
      /\ \/ UNCHANGED pending
         \/ \E who \in {c, None} : pending' = [pending EXCEPT ![At[c]][Owner[c]] = who]
  BY DEF FindMatch, ClearPending
<1>2. RoomsGrow /\ Len(rooms') = Len(rooms)
  BY <1>1, RoomsStay
<1>3. reader' \in [Conn -> ReaderSteps] /\ \A d \in Conn : JobIsOwn(d)'
  BY <1>1, <1>2, ReaderMoves DEF ReaderSteps
<1>4. pending' \in [Node -> [Player -> Conn \cup {None}]] /\ PendingIsOwn'
  <2>1. /\ pending \in [Node -> [Player -> Conn \cup {None}]]
        /\ At[c] \in Node /\ Owner[c] \in Player /\ PendingIsOwn
    BY TransportAssumption DEF TypeOK, TransportInv
  <2>2. CASE UNCHANGED pending
    BY <2>1, <2>2 DEF PendingIsOwn
  <2>3. ASSUME NEW who \in {c, None}, pending' = [pending EXCEPT ![At[c]][Owner[c]] = who]
        PROVE  pending' \in [Node -> [Player -> Conn \cup {None}]] /\ PendingIsOwn'
    BY <2>1, <2>3, SMT DEF PendingIsOwn
  <2> QED
    BY <1>1, <2>2, <2>3
<1>5. TypeOK'
  BY <1>1, <1>3, <1>4 DEF TypeOK
<1> QED
  BY <1>1, <1>2, <1>3, <1>4, <1>5, PartsStay DEF TransportInv

\* A sequence without duplicates takes a new element.
LEMMA AppendNew ==
  ASSUME NEW S, NEW s \in Seq(S), NEW e \in S, IsInjective(s), e \notin Range(s)
  PROVE  IsInjective(Append(s, e))
<1> DEFINE q == Append(s, e)
<1>1. /\ q \in Seq(S) /\ Len(q) = Len(s) + 1 /\ Len(s) \in Nat /\ DOMAIN q = 1..(Len(s) + 1)
      /\ \A i \in 1..Len(s) : q[i] = s[i]
      /\ q[Len(s) + 1] = e
  BY OneMore, SMT
<1>2. \A i \in 1..Len(s) : s[i] # e
  BY SMT DEF Range
<1>3. \A i, j \in 1..Len(s) : s[i] = s[j] => i = j
  BY SMT DEF IsInjective
<1> HIDE DEF q
<1> SUFFICES ASSUME NEW i \in 1..(Len(s) + 1), NEW j \in 1..(Len(s) + 1), q[i] = q[j]
             PROVE  i = j
  BY <1>1 DEF IsInjective, q
<1>4. i \in 1..Len(s) \/ i = Len(s) + 1
  BY <1>1, SMT
<1>5. j \in 1..Len(s) \/ j = Len(s) + 1
  BY <1>1, SMT
<1> QED
  BY <1>1, <1>2, <1>3, <1>4, <1>5

\* Enqueue waits, or takes the pair that is complete.
LEMMA EnqueueKeeps ==
  ASSUME TypeOK, TransportInv, NEW c \in Conn, Enqueue(c)
  PROVE  TypeOK' /\ TransportInv'
<1> DEFINE p == Owner[c]
           n == At[c]
           q == Append(queue[n], p)
<1>1. UNCHANGED <<pending, rooms, hub, session, current, closer, leaving, crashed>>
  BY DEF Enqueue
<1>2. RoomsGrow /\ Len(rooms') = Len(rooms)
  BY <1>1, RoomsStay
<1>3. /\ queue \in [Node -> Seq(Player)] /\ p \in Player /\ n \in Node
      /\ queue[n] \in Seq(Player) /\ Len(queue[n]) \in Nat /\ Len(queue[n]) < Capacity
      /\ IsInjective(queue[n]) /\ job \in [Conn -> Job] /\ job[c] \in Job
  BY TransportAssumption, SMT DEF TypeOK, TransportInv, MatchIsPair
<1>4. /\ q \in Seq(Player) /\ Len(q) = Len(queue[n]) + 1 /\ DOMAIN q = 1..Len(q)
      /\ \A i \in 1..Len(queue[n]) : q[i] = queue[n][i]
      /\ q[Len(q)] = p
  <2>1. queue[n] \in Seq(Player) /\ p \in Player
    BY <1>3
  <2> QED
    BY <2>1, OneMore, SMT
<1>5. ASSUME ~AlreadyQueued(n, p)
      PROVE  IsInjective(q)
  <2>1. p \notin Range(queue[n])
    BY <1>5 DEF AlreadyQueued
  <2> QED
    BY <1>3, <2>1, AppendNew
<1> HIDE DEF q
<1>6. CASE GoTo(c, "serving") /\ UNCHANGED <<queue, job>>
  <2>1. reader' \in [Conn -> ReaderSteps] /\ \A d \in Conn : JobIsOwn(d)'
    BY <1>2, <1>6, ReaderMoves DEF ReaderSteps
  <2>2. TypeOK'
    BY <1>1, <1>6, <2>1 DEF TypeOK
  <2> QED
    BY <1>1, <1>2, <1>6, <2>1, <2>2, PartsStay DEF TransportInv
<1>7. ASSUME NEW s, s \in Seq(Player), IsInjective(s), Len(s) < Capacity,
             queue' = [queue EXCEPT ![n] = s]
      PROVE  queue' \in [Node -> Seq(Player)] /\ MatchIsPair'
  <2>1. /\ queue' \in [Node -> Seq(Player)]
        /\ \A m \in Node : queue'[m] = IF m = n THEN s ELSE queue[m]
    BY <1>3, <1>7
  <2> QED
    BY <1>1, <1>7, <2>1 DEF TransportInv, MatchIsPair
<1>8. CASE /\ ~AlreadyQueued(n, p) /\ Len(q) < Capacity /\ queue' = [queue EXCEPT ![n] = q]
           /\ GoTo(c, "serving") /\ UNCHANGED job
  <2>1. reader' \in [Conn -> ReaderSteps] /\ \A d \in Conn : JobIsOwn(d)'
    BY <1>2, <1>8, ReaderMoves DEF ReaderSteps
  <2>2. queue' \in [Node -> Seq(Player)] /\ MatchIsPair'
    BY <1>4, <1>5, <1>7, <1>8
  <2>3. TypeOK'
    BY <1>1, <1>8, <2>1, <2>2 DEF TypeOK
  <2> QED
    BY <1>1, <1>2, <2>1, <2>2, <2>3, PartsStay DEF TransportInv
<1>9. CASE /\ ~AlreadyQueued(n, p) /\ Len(q) >= Capacity
           /\ queue' = [queue EXCEPT ![n] = SubSeq(q, Capacity + 1, Len(q))]
           /\ job' = [job EXCEPT ![c].left = SubSeq(q, 1, Capacity)] /\ GoTo(c, "create")
  <2>1. Len(q) = Capacity /\ Capacity = 2
    BY <1>3, <1>4, <1>9, SMT DEF Capacity
  <2>2. SubSeq(q, Capacity + 1, Len(q)) = <<>>
    BY <2>1, NothingBetween, SMT
  <2>3. SubSeq(q, 1, Capacity) = q
    BY <1>4, <2>1, AllOfIt
  <2>4. IsInjective(<<>>) /\ Len(<<>>) < Capacity /\ <<>> \in Seq(Player)
    BY <2>1, SMT DEF IsInjective
  <2>5. queue' \in [Node -> Seq(Player)] /\ MatchIsPair'
    BY <1>7, <1>9, <2>2, <2>4
  <2>6. /\ job' \in [Conn -> Job] /\ job'[c].left = q
        /\ \A d \in Conn \ {c} : job'[d] = job[d]
    BY <1>3, <1>4, <1>9, <2>3 DEF Job
  <2>7. reader'[c] = "create" /\ Pair(q)
    BY <1>5, <1>9, <2>1 DEF GoTo, TypeOK, Pair
  <2>8. JobIsOwn(c)'
    BY <2>6, <2>7 DEF JobIsOwn, Pair
  <2>9. reader' \in [Conn -> ReaderSteps] /\ \A d \in Conn : JobIsOwn(d)'
    BY <1>2, <1>9, <2>6, <2>8, ReaderMoves DEF ReaderSteps
  <2>10. TypeOK'
    BY <1>1, <2>5, <2>6, <2>9 DEF TypeOK
  <2> QED
    BY <1>1, <1>2, <2>5, <2>9, <2>10, PartsStay DEF TransportInv
<1> QED
  BY <1>6, <1>8, <1>9 DEF Enqueue, q

\* CreateRoom makes the room, or fails.
LEMMA CreateKeeps ==
  ASSUME TypeOK, TransportInv, NEW c \in Conn, CreateRoom(c)
  PROVE  TypeOK' /\ TransportInv'
<1>1. UNCHANGED <<queue, pending, hub, session, current, closer, leaving, crashed>>
  BY DEF CreateRoom
<1>2. job \in [Conn -> Job] /\ job[c] \in Job /\ job[c].left \in Seq(Player) /\ NoJob \in Job
  <2>1. NoJob \in Job
    BY TransportAssumption, SMT DEF NoJob, Job
  <2>2. job \in [Conn -> Job]
    BY DEF TypeOK
  <2> QED
    BY <2>1, <2>2 DEF Job
<1>3. Pair(job[c].left)
  BY DEF CreateRoom, TransportInv, JobIsOwn
<1>4. CASE /\ Len(rooms) < MaxRooms
           /\ rooms' = Append(rooms, [players |-> job[c].left, connected |-> Range(job[c].left),
                                      life |-> "Active", node |-> At[c]])
           /\ job' = [job EXCEPT ![c].room = Len(rooms) + 1]
           /\ GoTo(c, "seat")
  <2> DEFINE r == Len(rooms) + 1
  <2>1. RoomsGrow /\ Len(rooms') = r /\ rooms'[r].players = job[c].left /\ rooms'[r].node = At[c]
    BY <1>4, CreateRooms
  <2>2. Len(rooms) \in Nat /\ MaxRooms \in Nat /\ DOMAIN rooms = 1..Len(rooms)
        /\ DOMAIN rooms' = 1..r /\ r \in 0..MaxRooms
    BY <1>4, <2>1, RoomsType, SMT DEF RoomsGrow
  <2>3. /\ job' \in [Conn -> Job] /\ job'[c].left = job[c].left /\ job'[c].room = r
        /\ \A d \in Conn \ {c} : job'[d] = job[d]
    BY <1>2, <1>4, <2>2 DEF Job
  <2>4. MatchIsPair'
    <3> SUFFICES ASSUME NEW s \in DOMAIN rooms'
                 PROVE  Pair(rooms'[s].players)
      BY <1>1 DEF TransportInv, MatchIsPair, Pair
    <3>1. CASE s = r
      BY <1>3, <2>1, <3>1
    <3>2. CASE s # r
      <4>1. s \in 1..Len(rooms)
        BY <2>2, <3>2, SMT
      <4>2. rooms'[s].players = rooms[s].players /\ s \in DOMAIN rooms
        BY <2>1, <2>2, <4>1 DEF RoomsGrow
      <4> QED
        BY <4>2 DEF TransportInv, MatchIsPair, Pair
    <3> QED
      BY <3>1, <3>2
  <2>5. \A i \in DOMAIN job[c].left : job[c].left[i] \in Range(job[c].left)
    BY DEF Range
  <2>6. r \in DOMAIN rooms' /\ reader'[c] = "seat"
    BY <1>4, <2>2, SMT DEF GoTo, TypeOK
  <2>7. (\A i \in DOMAIN job[c].left : HasSeat(job[c].left[i], At[c], job[c].room))'
    BY <2>1, <2>3, <2>5, <2>6 DEF HasSeat, Seated
  <2>8. JobIsOwn(c)'
    BY <2>6, <2>7 DEF JobIsOwn
  <2>9. reader' \in [Conn -> ReaderSteps] /\ \A d \in Conn : JobIsOwn(d)'
    BY <1>4, <2>1, <2>3, <2>8, ReaderMoves DEF ReaderSteps
  <2>10. current' \in [Conn -> 0..Len(rooms')] /\ leaving' \in [Conn -> 0..Len(rooms')]
    BY <1>1, <2>1, BindingsStay
  <2>11. TypeOK'
    BY <1>1, <2>1, <2>3, <2>9, <2>10 DEF TypeOK, RoomsGrow
  <2> QED
    BY <1>1, <2>1, <2>4, <2>9, <2>11, PartsStay DEF TransportInv
<1>5. CASE job' = [job EXCEPT ![c] = NoJob] /\ GoTo(c, "clear") /\ UNCHANGED rooms
  <2>1. RoomsGrow /\ Len(rooms') = Len(rooms)
    BY <1>5, RoomsStay
  <2>2. job' \in [Conn -> Job] /\ \A d \in Conn \ {c} : job'[d] = job[d]
    BY <1>2, <1>5
  <2>3. reader' \in [Conn -> ReaderSteps] /\ \A d \in Conn : JobIsOwn(d)'
    BY <1>5, <2>1, <2>2, ReaderMoves DEF ReaderSteps
  <2>4. TypeOK'
    BY <1>1, <1>5, <2>2, <2>3 DEF TypeOK
  <2> QED
    BY <1>1, <2>1, <2>3, <2>4, PartsStay DEF TransportInv
<1> QED
  BY <1>4, <1>5 DEF CreateRoom

\* What is left of a job after its first player.
LEMMA JobTail ==
  ASSUME TypeOK, NEW c \in Conn, job[c].left # <<>>
  PROVE  /\ job \in [Conn -> Job] /\ job[c] \in Job /\ Head(job[c].left) \in Player
         /\ Tail(job[c].left) \in Seq(Player) /\ 1 \in DOMAIN job[c].left
         /\ Head(job[c].left) = job[c].left[1]
         /\ \A i \in DOMAIN Tail(job[c].left) :
              i + 1 \in DOMAIN job[c].left /\ Tail(job[c].left)[i] = job[c].left[i + 1]
<1>1. job \in [Conn -> Job]
  BY DEF TypeOK
<1>2. job[c] \in Job /\ job[c].left \in Seq(Player)
  BY <1>1 DEF Job
<1> QED
  BY <1>1, <1>2, SMT

\* seatMatchedPlayers turns to the next player of the match.
LEMMA NextPlayerKeeps ==
  ASSUME TypeOK, TransportInv, NEW c \in Conn, NextPlayer(c)
  PROVE  TypeOK' /\ TransportInv'
<1> DEFINE p == Head(job[c].left)
           n == At[c]
<1>1. /\ UNCHANGED <<queue, rooms, hub, session, current, closer, leaving, crashed>>
      /\ reader[c] = "seat" /\ job[c].left # <<>>
      /\ pending' = [pending EXCEPT ![n][p] = None]
  BY DEF NextPlayer
<1>2. RoomsGrow /\ Len(rooms') = Len(rooms)
  BY <1>1, RoomsStay
<1>3. /\ job \in [Conn -> Job] /\ job[c] \in Job /\ p \in Player
      /\ Tail(job[c].left) \in Seq(Player) /\ 1 \in DOMAIN job[c].left
      /\ p = job[c].left[1]
      /\ \A i \in DOMAIN Tail(job[c].left) :
           i + 1 \in DOMAIN job[c].left /\ Tail(job[c].left)[i] = job[c].left[i + 1]
  BY <1>1, JobTail
<1>4. /\ pending \in [Node -> [Player -> Conn \cup {None}]] /\ n \in Node /\ PendingIsOwn
      /\ reader \in [Conn -> ReaderSteps]
  BY TransportAssumption DEF TypeOK, TransportInv
<1>5. \A i \in DOMAIN job[c].left : HasSeat(job[c].left[i], n, job[c].room)
  BY <1>1 DEF TransportInv, JobIsOwn
<1>6. \A q, s : HasSeat(q, n, s) => HasSeat(q, n, s)'
  BY <1>2, SeatStays
<1> HIDE DEF p, n
<1>7. pending' \in [Node -> [Player -> Conn \cup {None}]] /\ PendingIsOwn'
  BY <1>1, <1>3, <1>4, SMT DEF PendingIsOwn
<1>8. CASE job' = [job EXCEPT ![c].left = Tail(@)] /\ UNCHANGED reader
  <2>1. /\ job' \in [Conn -> Job] /\ job'[c].left = Tail(job[c].left)
        /\ job'[c].room = job[c].room /\ \A d \in Conn \ {c} : job'[d] = job[d]
    BY <1>3, <1>8 DEF Job
  <2>2. \A i \in DOMAIN Tail(job[c].left) : HasSeat(Tail(job[c].left)[i], n, job[c].room)
    BY <1>3, <1>5
  <2>3. (\A i \in DOMAIN job[c].left : HasSeat(job[c].left[i], n, job[c].room))'
    BY <1>6, <2>1, <2>2
  <2>4. JobIsOwn(c)'
    BY <1>1, <1>8, <2>3 DEF JobIsOwn, n
  <2>5. GoTo(c, "seat")
    BY <1>1, <1>4, <1>8 DEF GoTo
  <2>6. reader' \in [Conn -> ReaderSteps] /\ \A d \in Conn : JobIsOwn(d)'
    BY <1>2, <2>1, <2>4, <2>5, ReaderMoves DEF ReaderSteps
  <2>7. TypeOK'
    BY <1>1, <1>7, <2>1, <2>6 DEF TypeOK
  <2> QED
    BY <1>1, <1>2, <1>7, <2>6, <2>7, PartsStay DEF TransportInv
<1>9. CASE pending[n][p] # None /\ job' = [job EXCEPT ![c].who = pending[n][p]] /\ GoTo(c, "attach")
  <2>1. pending[n][p] \in Conn /\ Owner[pending[n][p]] = p /\ At[pending[n][p]] = n
    BY <1>3, <1>4, <1>9, SMT DEF PendingIsOwn
  <2>2. /\ job' \in [Conn -> Job] /\ job'[c].left = job[c].left
        /\ job'[c].room = job[c].room /\ job'[c].who = pending[n][p]
        /\ \A d \in Conn \ {c} : job'[d] = job[d]
    BY <1>3, <1>9, <2>1 DEF Job
  <2>3. (\A i \in DOMAIN job[c].left : HasSeat(job[c].left[i], n, job[c].room))'
    BY <1>5, <1>6, <2>2
  <2>4. reader'[c] = "attach"
    BY <1>4, <1>9 DEF GoTo
  <2>5. JobIsOwn(c)'
    BY <1>1, <2>1, <2>2, <2>3, <2>4 DEF JobIsOwn, n, p
  <2>6. reader' \in [Conn -> ReaderSteps] /\ \A d \in Conn : JobIsOwn(d)'
    BY <1>2, <1>9, <2>2, <2>5, ReaderMoves DEF ReaderSteps
  <2>7. TypeOK'
    BY <1>1, <1>7, <2>2, <2>6 DEF TypeOK
  <2> QED
    BY <1>1, <1>2, <1>7, <2>6, <2>7, PartsStay DEF TransportInv
<1> QED
  BY <1>8, <1>9 DEF NextPlayer, p, n

\* SetRoom, on the connection that the match found or that resumes.
LEMMA SetRoomKeeps ==
  ASSUME TypeOK, TransportInv, NEW c \in Conn, SetRoom(c)
  PROVE  TypeOK' /\ TransportInv'
<1> DEFINE d == job[c].who
           r == job[c].room
<1>1. /\ UNCHANGED <<queue, pending, rooms, hub, session, job, closer, leaving, crashed>>
      /\ reader[c] = "attach" /\ GoTo(c, "register")
      /\ current' = [current EXCEPT ![d] = r]
  BY DEF SetRoom
<1>2. RoomsGrow /\ Len(rooms') = Len(rooms)
  BY <1>1, RoomsStay
<1>3. /\ \A i \in DOMAIN job[c].left : HasSeat(job[c].left[i], At[c], r)
      /\ job[c].left # <<>> /\ d \in Conn /\ Owner[d] = Head(job[c].left) /\ At[d] = At[c]
  BY <1>1 DEF TransportInv, JobIsOwn
<1>4. HasSeat(Owner[d], At[d], r)
  BY <1>3, JobTail
<1>5. /\ current \in [Conn -> 0..Len(rooms)] /\ Len(rooms) \in Nat /\ DOMAIN rooms = 1..Len(rooms)
      /\ reader \in [Conn -> ReaderSteps]
  BY RoomsType DEF TypeOK
<1>6. r \in 0..Len(rooms)
  BY <1>4, <1>5, SMT DEF HasSeat
<1>7. reader'[c] = "register"
  BY <1>1, <1>5 DEF GoTo
<1>8. \A q, n, s : HasSeat(q, n, s)' = HasSeat(q, n, s)
  BY <1>1 DEF HasSeat, Seated
<1>9. JobIsOwn(c)'
  BY <1>1, <1>3, <1>7, <1>8 DEF JobIsOwn
<1>10. reader' \in [Conn -> ReaderSteps] /\ \A e \in Conn : JobIsOwn(e)'
  BY <1>1, <1>2, <1>9, ReaderMoves DEF ReaderSteps
<1> HIDE DEF d, r
<1>11. current' \in [Conn -> 0..Len(rooms)] /\ RoomIsOwn'
  <2>1. /\ current' \in [Conn -> 0..Len(rooms)]
        /\ \A e \in Conn : current'[e] = IF e = d THEN r ELSE current[e]
    BY <1>1, <1>3, <1>5, <1>6
  <2> QED
    BY <1>1, <1>4, <1>8, <2>1 DEF TransportInv, RoomIsOwn
<1>12. TypeOK'
  BY <1>1, <1>10, <1>11 DEF TypeOK
<1> QED
  BY <1>1, <1>2, <1>10, <1>11, <1>12, PartsStay DEF TransportInv

\* Registrations are right if each of them is, and the rooms stay.
LEMMA HubFrom ==
  ASSUME rooms' = rooms,
         \A s \in RoomIds, q \in Player :
           hub'[s][q] # None => Owner[hub'[s][q]] = q /\ s \in DOMAIN rooms /\ Seated(q, s)
  PROVE  HubIsOwn'
<1>1. \A q, s : Seated(q, s)' = Seated(q, s)
  BY DEF Seated
<1>2. DOMAIN rooms' = DOMAIN rooms
  OBVIOUS
<1> QED
  BY <1>1, <1>2 DEF HubIsOwn

\* Hub.Register.
LEMMA RegisterKeeps ==
  ASSUME TypeOK, TransportInv, NEW c \in Conn, Register(c)
  PROVE  TypeOK' /\ TransportInv'
<1> DEFINE d == job[c].who
           r == job[c].room
           p == Head(job[c].left)
<1>1. /\ UNCHANGED <<queue, pending, rooms, session, current, job, closer, leaving, crashed>>
      /\ reader[c] = "register" /\ GoTo(c, "bind")
      /\ hub' = [hub EXCEPT ![r][p] = d]
  BY DEF Register
<1>2. RoomsGrow /\ Len(rooms') = Len(rooms)
  BY <1>1, RoomsStay
<1>3. /\ \A i \in DOMAIN job[c].left : HasSeat(job[c].left[i], At[c], r)
      /\ job[c].left # <<>> /\ d \in Conn /\ Owner[d] = p /\ At[d] = At[c]
  BY <1>1 DEF TransportInv, JobIsOwn
<1>4. HasSeat(p, At[c], r) /\ p \in Player
  BY <1>3, JobTail
<1>5. /\ hub \in [RoomIds -> [Player -> Conn \cup {None}]] /\ reader \in [Conn -> ReaderSteps]
  BY DEF TypeOK
<1>6. r \in RoomIds
  BY <1>4, RoomsType, SMT DEF HasSeat, RoomIds
<1>7. reader'[c] = "bind"
  BY <1>1, <1>5 DEF GoTo
<1>8. \A q, n, s : HasSeat(q, n, s)' = HasSeat(q, n, s) /\ Seated(q, s)' = Seated(q, s)
  BY <1>1 DEF HasSeat, Seated
<1>9. JobIsOwn(c)'
  BY <1>1, <1>3, <1>7, <1>8 DEF JobIsOwn
<1>10. reader' \in [Conn -> ReaderSteps] /\ \A e \in Conn : JobIsOwn(e)'
  BY <1>1, <1>2, <1>9, ReaderMoves DEF ReaderSteps
<1> HIDE DEF d, r, p
<1>11. hub' \in [RoomIds -> [Player -> Conn \cup {None}]] /\ HubIsOwn'
  <2>1. /\ hub' \in [RoomIds -> [Player -> Conn \cup {None}]]
        /\ \A s \in RoomIds, q \in Player : hub'[s][q] = IF s = r /\ q = p THEN d ELSE hub[s][q]
    BY <1>1, <1>3, <1>4, <1>5, <1>6
  <2>2. ASSUME NEW s \in RoomIds, NEW q \in Player, hub'[s][q] # None
        PROVE  Owner[hub'[s][q]] = q /\ s \in DOMAIN rooms /\ Seated(q, s)
    <3>1. CASE s = r /\ q = p
      BY <1>3, <1>4, <2>1, <3>1 DEF HasSeat
    <3>2. CASE ~(s = r /\ q = p)
      BY <2>1, <2>2, <3>2, SMT DEF TransportInv, HubIsOwn
    <3> QED
      BY <3>1, <3>2
  <2> QED
    BY <1>1, <2>1, <2>2, HubFrom
<1>12. TypeOK'
  BY <1>1, <1>10, <1>11 DEF TypeOK
<1> QED
  BY <1>1, <1>2, <1>10, <1>11, <1>12, PartsStay DEF TransportInv

\* A save writes the record of a seat, or fails and leaves the old one.
LEMMA SaveKeeps ==
  ASSUME TypeOK, TransportInv, UNCHANGED rooms, NEW p \in Player, NEW record \in Record,
         HasSeat(p, record.owner, record.room), SaveSession(p, record)
  PROVE  session' \in [Player -> Record] /\ SessionIsOwn'
<1>1. session \in [Player -> Record]
  BY DEF TypeOK
<1>2. /\ session' \in [Player -> Record]
      /\ \A q \in Player : session'[q] = session[q] \/ (q = p /\ session'[q] = record)
  BY <1>1 DEF SaveSession
<1>3. ASSUME NEW q \in Player, session'[q] # NoRecord
      PROVE  HasSeat(q, session'[q].owner, session'[q].room)
  BY <1>2, <1>3 DEF TransportInv, SessionIsOwn
<1>4. \A q, n, s : HasSeat(q, n, s)' = HasSeat(q, n, s)
  BY DEF HasSeat, Seated
<1> QED
  BY <1>2, <1>3, <1>4 DEF SessionIsOwn

\* bindSession at the end of seating one player.
LEMMA BindKeeps ==
  ASSUME TypeOK, TransportInv, NEW c \in Conn, BindSession(c)
  PROVE  TypeOK' /\ TransportInv'
<1> DEFINE r == job[c].room
           p == Head(job[c].left)
           record == [room |-> r, owner |-> At[c]]
<1>1. /\ UNCHANGED <<queue, pending, rooms, hub, current, closer, leaving, crashed>>
      /\ reader[c] = "bind" /\ GoTo(c, "seat")
      /\ SaveSession(p, record)
      /\ job' = [job EXCEPT ![c].left = Tail(@), ![c].who = None]
  BY DEF BindSession
<1>2. RoomsGrow /\ Len(rooms') = Len(rooms)
  BY <1>1, RoomsStay
<1>3. /\ \A i \in DOMAIN job[c].left : HasSeat(job[c].left[i], At[c], r)
      /\ job[c].left # <<>>
  BY <1>1 DEF TransportInv, JobIsOwn
<1>4. /\ job \in [Conn -> Job] /\ job[c] \in Job /\ p \in Player
      /\ Tail(job[c].left) \in Seq(Player) /\ 1 \in DOMAIN job[c].left /\ p = job[c].left[1]
      /\ \A i \in DOMAIN Tail(job[c].left) :
           i + 1 \in DOMAIN job[c].left /\ Tail(job[c].left)[i] = job[c].left[i + 1]
  BY <1>3, JobTail
<1>5. HasSeat(p, At[c], r)
  BY <1>3, <1>4
<1>6. session \in [Player -> Record] /\ reader \in [Conn -> ReaderSteps] /\ At[c] \in Node
  BY TransportAssumption DEF TypeOK
<1>7. record \in Record /\ record.room = r /\ record.owner = At[c]
  BY <1>4, <1>6 DEF Job, Record
<1>8. /\ job' \in [Conn -> Job] /\ job'[c].left = Tail(job[c].left)
      /\ job'[c].room = r /\ \A d \in Conn \ {c} : job'[d] = job[d]
  BY <1>1, <1>4 DEF Job
<1>9. reader'[c] = "seat"
  BY <1>1, <1>6 DEF GoTo
<1>10. \A q, n, s : HasSeat(q, n, s)' = HasSeat(q, n, s)
  BY <1>1 DEF HasSeat, Seated
<1>11. \A i \in DOMAIN Tail(job[c].left) : HasSeat(Tail(job[c].left)[i], At[c], r)
  BY <1>3, <1>4
<1>12. (\A i \in DOMAIN job[c].left : HasSeat(job[c].left[i], At[c], job[c].room))'
  BY <1>8, <1>10, <1>11
<1>13. JobIsOwn(c)'
  BY <1>9, <1>12 DEF JobIsOwn
<1>14. reader' \in [Conn -> ReaderSteps] /\ \A e \in Conn : JobIsOwn(e)'
  BY <1>1, <1>2, <1>8, <1>13, ReaderMoves DEF ReaderSteps
<1> HIDE DEF r, p, record
<1>15. session' \in [Player -> Record] /\ SessionIsOwn'
  BY <1>1, <1>4, <1>5, <1>7, SaveKeeps
<1>16. TypeOK'
  BY <1>1, <1>8, <1>14, <1>15 DEF TypeOK
<1> QED
  BY <1>1, <1>2, <1>14, <1>15, <1>16, PartsStay DEF TransportInv

\* The match is seated.
LEMMA SeatedKeeps ==
  ASSUME TypeOK, TransportInv, NEW c \in Conn, AllSeated(c)
  PROVE  TypeOK' /\ TransportInv'
<1>1. /\ UNCHANGED <<queue, pending, rooms, hub, session, current, leaving, crashed>>
      /\ job' = [job EXCEPT ![c] = NoJob] /\ Serve(c)
  BY DEF AllSeated
<1>2. RoomsGrow /\ Len(rooms') = Len(rooms)
  BY <1>1, RoomsStay
<1>3. job' \in [Conn -> Job] /\ \A d \in Conn \ {c} : job'[d] = job[d]
  <2>1. NoJob \in Job
    BY TransportAssumption, SMT DEF NoJob, Job
  <2> QED
    BY <1>1, <2>1 DEF TypeOK
<1>4. /\ closer' \in [Conn -> CloserSteps]
      /\ \A d \in Conn : closer'[d] \in {"disconnect", "bind"}
                           => closer[d] \in {"disconnect", "bind"}
      /\ GoTo(c, "serving")
  BY <1>1, ServeFacts DEF Serve
<1>5. reader' \in [Conn -> ReaderSteps] /\ \A d \in Conn : JobIsOwn(d)'
  BY <1>2, <1>3, <1>4, ReaderMoves DEF ReaderSteps
<1>6. TypeOK'
  BY <1>1, <1>3, <1>4, <1>5 DEF TypeOK
<1> QED
  BY <1>1, <1>2, <1>4, <1>5, <1>6, PartsStay DEF TransportInv

-----------------------------------------------------------------------------
(***************************************************************************)
(* Closing                                                                  *)
(***************************************************************************)

\* Close starts, or the player is no longer pending.
LEMMA CloseKeeps ==
  ASSUME TypeOK, TransportInv, NEW c \in Conn, Close(c) \/ ForgetPending(c)
  PROVE  TypeOK' /\ TransportInv'
<1>1. /\ UNCHANGED <<queue, rooms, hub, session, current, reader, job, leaving, crashed>>
      /\ \E step \in {"pending", "dequeue", "leave"} : Closing(c, step)
      /\ UNCHANGED pending \/ pending' = [pending EXCEPT ![At[c]][Owner[c]] = None]
  BY DEF Close, ForgetPending
<1>2. RoomsGrow /\ Len(rooms') = Len(rooms)
  BY <1>1, RoomsStay
<1>3. /\ closer' \in [Conn -> CloserSteps]
      /\ \A d \in Conn : closer'[d] \in {"disconnect", "bind"}
                           => closer[d] \in {"disconnect", "bind"}
  BY <1>1 DEF Closing, TypeOK, CloserSteps
<1>4. pending' \in [Node -> [Player -> Conn \cup {None}]] /\ PendingIsOwn'
  <2>1. /\ pending \in [Node -> [Player -> Conn \cup {None}]] /\ PendingIsOwn
        /\ At[c] \in Node /\ Owner[c] \in Player
    BY TransportAssumption DEF TypeOK, TransportInv
  <2> QED
    BY <1>1, <2>1, SMT DEF PendingIsOwn
<1>5. TypeOK'
  BY <1>1, <1>3, <1>4 DEF TypeOK
<1> QED
  BY <1>1, <1>2, <1>3, <1>4, <1>5, PartsStay DEF TransportInv

\* A queue that holds at most one player loses that player or nobody.
LEMMA DropFromShort ==
  ASSUME NEW S, NEW s \in Seq(S), Len(s) < 2, NEW e
  PROVE  DropFirst(s, e) \in {s, <<>>}
<1>1. CASE e \notin Range(s)
  BY <1>1 DEF DropFirst
<1>2. CASE e \in Range(s)
  <2>1. PICK i \in 1..Len(s) : s[i] = e
    BY <1>2, SMT DEF Range
  <2>2. Len(s) = 1 /\ s[1] = e
    <3>1. Len(s) \in Nat /\ i \in Nat /\ 1 <= i /\ i <= Len(s) /\ Len(s) < 2
      BY SMT
    <3>2. \A a, b \in Nat : 1 <= a /\ a <= b /\ b < 2 => a = 1 /\ b = 1
      BY SMT
    <3>3. i = 1 /\ Len(s) = 1
      BY <3>1, <3>2, Zenon
    <3> QED
      BY <2>1, <3>3
  <2> DEFINE k == CHOOSE k \in DOMAIN s : s[k] = e /\ \A j \in 1..(k - 1) : s[j] # e
  <2>3. k = 1
    <3>1. DOMAIN s = {1} /\ \A j \in 1..(1 - 1) : s[j] # e
      BY <2>2, SMT
    <3> QED
      BY <2>2, <3>1
  <2>4. DropFirst(s, e) = SubSeq(s, 1, k - 1) \o SubSeq(s, k + 1, Len(s))
    BY <1>2 DEF DropFirst
  <2> HIDE DEF k
  <2>5. SubSeq(s, 1, 0) = <<>> /\ SubSeq(s, 2, 1) = <<>>
    BY NothingBetween, SMT
  <2> QED
    BY <2>2, <2>3, <2>4, <2>5, SMT
<1> QED
  BY <1>1, <1>2

\* Matchmaker.Dequeue.
LEMMA DequeueKeeps ==
  ASSUME TypeOK, TransportInv, NEW c \in Conn, Dequeue(c)
  PROVE  TypeOK' /\ TransportInv'
<1> DEFINE n == At[c]
           s == DropFirst(queue[n], Owner[c])
<1>1. /\ UNCHANGED <<pending, rooms, hub, session, current, reader, job, leaving, crashed>>
      /\ Closing(c, "leave") /\ queue' = [queue EXCEPT ![n] = s]
  BY DEF Dequeue
<1>2. RoomsGrow /\ Len(rooms') = Len(rooms)
  BY <1>1, RoomsStay
<1>3. /\ closer' \in [Conn -> CloserSteps]
      /\ \A d \in Conn : closer'[d] \in {"disconnect", "bind"}
                           => closer[d] \in {"disconnect", "bind"}
  BY <1>1 DEF Closing, TypeOK, CloserSteps
<1>4. /\ queue \in [Node -> Seq(Player)] /\ n \in Node /\ queue[n] \in Seq(Player)
      /\ Len(queue[n]) < Capacity /\ Capacity = 2 /\ IsInjective(queue[n])
  BY TransportAssumption DEF TypeOK, TransportInv, MatchIsPair, Capacity
<1>5. s \in {queue[n], <<>>}
  BY <1>4, DropFromShort
<1>6. IsInjective(<<>>) /\ Len(<<>>) < Capacity /\ <<>> \in Seq(Player)
  BY <1>4, SMT DEF IsInjective
<1> HIDE DEF n, s
<1>7. queue' \in [Node -> Seq(Player)] /\ MatchIsPair'
  <2>1. /\ queue' \in [Node -> Seq(Player)]
        /\ \A m \in Node : queue'[m] \in {queue[m], <<>>}
    BY <1>1, <1>4, <1>5, <1>6
  <2> QED
    BY <1>1, <1>6, <2>1 DEF TransportInv, MatchIsPair
<1>8. TypeOK'
  BY <1>1, <1>3, <1>7 DEF TypeOK
<1> QED
  BY <1>1, <1>2, <1>3, <1>7, <1>8, PartsStay DEF TransportInv

\* onConnectionClosed reads the room and takes its registration away.
LEMMA LeaveKeeps ==
  ASSUME TypeOK, TransportInv, NEW c \in Conn, Leave(c)
  PROVE  TypeOK' /\ TransportInv'
<1>1. /\ UNCHANGED <<queue, pending, rooms, session, current, reader, job, crashed>>
      /\ leaving' = [leaving EXCEPT ![c] = current[c]]
      /\ \/ current[c] = 0 /\ Closing(c, "closed") /\ UNCHANGED hub
         \/ current[c] # 0 /\ Unregister(current[c], c) /\ Closing(c, "disconnect")
  BY DEF Leave
<1>2. RoomsGrow /\ Len(rooms') = Len(rooms)
  BY <1>1, RoomsStay
<1>3. /\ current \in [Conn -> 0..Len(rooms)] /\ leaving \in [Conn -> 0..Len(rooms)]
      /\ closer \in [Conn -> CloserSteps] /\ hub \in [RoomIds -> [Player -> Conn \cup {None}]]
      /\ Owner[c] \in Player
  BY TransportAssumption DEF TypeOK
<1>4. /\ closer' \in [Conn -> CloserSteps] /\ leaving' \in [Conn -> 0..Len(rooms)]
      /\ \A d \in Conn \ {c} : closer'[d] = closer[d] /\ leaving'[d] = leaving[d]
      /\ leaving'[c] = current[c]
      /\ closer'[c] \in {"disconnect", "bind"} => current[c] # 0
  BY <1>1, <1>3 DEF Closing, CloserSteps
<1>5. \A q, n, s : HasSeat(q, n, s)' = HasSeat(q, n, s) /\ Seated(q, s)' = Seated(q, s)
  BY <1>1 DEF HasSeat, Seated
<1>6. RoomIsOwn'
  BY <1>1, <1>4, <1>5 DEF TransportInv, RoomIsOwn
<1>7. hub' \in [RoomIds -> [Player -> Conn \cup {None}]] /\ HubIsOwn'
  <2>1. /\ hub' \in [RoomIds -> [Player -> Conn \cup {None}]]
        /\ \A s \in RoomIds, q \in Player : hub'[s][q] \in {hub[s][q], None}
    <3>1. CASE UNCHANGED hub
      BY <1>3, <3>1
    <3>2. CASE current[c] # 0 /\ Unregister(current[c], c)
      <4> DEFINE r == current[c]
                 p == Owner[c]
                 x == IF hub[r][p] = c THEN None ELSE hub[r][p]
      <4>1. r \in RoomIds
        BY <1>3, <3>2, RoomsType, SMT DEF RoomIds
      <4>2. hub' = [hub EXCEPT ![r][p] = x]
        BY <3>2 DEF Unregister
      <4>3. x \in Conn \cup {None} /\ x \in {hub[r][p], None}
        BY <1>3, <4>1, SMT
      <4> HIDE DEF r, x
      <4> QED
        BY <1>3, <4>1, <4>2, <4>3
    <3> QED
      BY <1>1, <3>1, <3>2
  <2>2. ASSUME NEW s \in RoomIds, NEW q \in Player, hub'[s][q] # None
        PROVE  Owner[hub'[s][q]] = q /\ s \in DOMAIN rooms /\ Seated(q, s)
    <3>1. hub'[s][q] = hub[s][q] /\ hub[s][q] # None
      BY <2>1, <2>2
    <3> QED
      BY <3>1, SMT DEF TransportInv, HubIsOwn
  <2> QED
    BY <1>1, <2>1, <2>2, HubFrom
<1>8. TypeOK'
  BY <1>1, <1>4, <1>7 DEF TypeOK
<1> QED
  BY <1>1, <1>2, <1>6, <1>7, <1>8, PartsStay DEF TransportInv

\* Room.Disconnect.
LEMMA DisconnectKeeps ==
  ASSUME TypeOK, TransportInv, NEW c \in Conn, Disconnect(c)
  PROVE  TypeOK' /\ TransportInv'
<1> DEFINE r == leaving[c]
           who == IF rooms[r].life = "Gone" THEN rooms[r].connected
                                            ELSE rooms[r].connected \ {Owner[c]}
<1>1. /\ UNCHANGED <<queue, pending, hub, session, current, reader, job, leaving, crashed>>
      /\ closer[c] = "disconnect" /\ Closing(c, "bind")
      /\ rooms' = [rooms EXCEPT ![r].connected = who]
  BY DEF Disconnect
<1>2. r \in DOMAIN rooms
  BY <1>1 DEF TransportInv, RoomIsOwn, HasSeat
<1>3. who \subseteq Player
  BY <1>2, RoomsType DEF Room
<1> HIDE DEF who
<1>4. RoomsGrow /\ Len(rooms') = Len(rooms)
  BY <1>1, <1>2, <1>3, ConnectedChanges
<1>5. /\ closer' \in [Conn -> CloserSteps]
      /\ \A d \in Conn : closer'[d] \in {"disconnect", "bind"}
                           => closer[d] \in {"disconnect", "bind"}
  BY <1>1 DEF Closing, TypeOK, CloserSteps
<1>6. current' \in [Conn -> 0..Len(rooms')] /\ leaving' \in [Conn -> 0..Len(rooms')]
  BY <1>1, <1>4, BindingsStay
<1>7. TypeOK'
  BY <1>1, <1>4, <1>5, <1>6 DEF TypeOK, RoomsGrow
<1> QED
  BY <1>1, <1>4, <1>5, <1>7, PartsStay DEF TransportInv

\* bindSession at the end of Close.
LEMMA BindAtCloseKeeps ==
  ASSUME TypeOK, TransportInv, NEW c \in Conn, BindAtClose(c)
  PROVE  TypeOK' /\ TransportInv'
<1> DEFINE p == Owner[c]
           record == [room |-> leaving[c], owner |-> At[c]]
<1>1. /\ UNCHANGED <<queue, pending, rooms, hub, current, reader, job, leaving, crashed>>
      /\ closer[c] = "bind" /\ Closing(c, "closed")
      /\ SaveSession(p, record)
  BY DEF BindAtClose
<1>2. RoomsGrow /\ Len(rooms') = Len(rooms)
  BY <1>1, RoomsStay
<1>3. /\ closer' \in [Conn -> CloserSteps]
      /\ \A d \in Conn : closer'[d] \in {"disconnect", "bind"}
                           => closer[d] \in {"disconnect", "bind"}
  BY <1>1 DEF Closing, TypeOK, CloserSteps
<1>4. HasSeat(p, At[c], leaving[c])
  BY <1>1 DEF TransportInv, RoomIsOwn
<1>5. session \in [Player -> Record] /\ p \in Player /\ At[c] \in Node
  BY TransportAssumption DEF TypeOK
<1>6. leaving[c] \in 0..MaxRooms
  <2>1. leaving[c] \in DOMAIN rooms
    BY <1>4 DEF HasSeat
  <2>2. leaving[c] \in 1..Len(rooms) /\ Len(rooms) \in Nat /\ Len(rooms) <= MaxRooms /\ MaxRooms \in Nat
    BY <2>1, RoomsType, Zenon
  <2>3. \A k \in Nat, m \in Nat : \A i \in 1..k : k <= m => i \in 0..m
    BY SMT
  <2> QED
    BY <2>2, <2>3, Zenon
<1>7. record \in Record /\ record.room = leaving[c] /\ record.owner = At[c]
  BY <1>5, <1>6 DEF Record
<1> HIDE DEF p, record
<1>8. session' \in [Player -> Record] /\ SessionIsOwn'
  BY <1>1, <1>4, <1>5, <1>7, SaveKeeps
<1>9. TypeOK'
  BY <1>1, <1>3, <1>8 DEF TypeOK
<1> QED
  BY <1>1, <1>2, <1>3, <1>8, <1>9, PartsStay DEF TransportInv

-----------------------------------------------------------------------------
(***************************************************************************)
(* Games, records and crashes                                               *)
(***************************************************************************)

\* A game ends, or its room is collected.
LEMMA RoomLifeKeeps ==
  ASSUME TypeOK, TransportInv, NEW r \in DOMAIN rooms, GameEnds(r) \/ Collect(r)
  PROVE  TypeOK' /\ TransportInv'
<1>1. /\ UNCHANGED <<queue, pending, hub, session, current, reader, job, closer, leaving, crashed>>
      /\ \E life \in {"Finished", "Gone"} : rooms' = [rooms EXCEPT ![r].life = life]
  BY DEF GameEnds, Collect
<1>2. RoomsGrow /\ Len(rooms') = Len(rooms)
  BY <1>1, LifeChanges
<1>3. current' \in [Conn -> 0..Len(rooms')] /\ leaving' \in [Conn -> 0..Len(rooms')]
  BY <1>1, <1>2, BindingsStay
<1>4. TypeOK'
  BY <1>1, <1>2, <1>3 DEF TypeOK, RoomsGrow
<1> QED
  BY <1>1, <1>2, <1>4, PartsStay DEF TransportInv

\* A session record expires.
LEMMA ExpireKeeps ==
  ASSUME TypeOK, TransportInv, NEW p \in Player, Expire(p)
  PROVE  TypeOK' /\ TransportInv'
<1>1. /\ UNCHANGED <<queue, pending, rooms, hub, current, reader, job, closer, leaving, crashed>>
      /\ session' = [session EXCEPT ![p] = NoRecord]
  BY DEF Expire
<1>2. RoomsGrow /\ Len(rooms') = Len(rooms)
  BY <1>1, RoomsStay
<1>3. session \in [Player -> Record] /\ NoRecord \in Record
  <2>1. session \in [Player -> Record]
    BY DEF TypeOK
  <2>2. MaxRooms \in Nat
    BY TransportAssumption
  <2>3. NoRecord \in Record
    BY <2>2, SMT DEF NoRecord, Record
  <2> QED
    BY <2>1, <2>3
<1>4. /\ session' \in [Player -> Record]
      /\ \A q \in Player : session'[q] = IF q = p THEN NoRecord ELSE session[q]
  BY <1>1, <1>3
<1>5. \A q, n, s : HasSeat(q, n, s)' = HasSeat(q, n, s)
  BY <1>1 DEF HasSeat, Seated
<1>6. SessionIsOwn'
  BY <1>4, <1>5 DEF TransportInv, SessionIsOwn
<1>7. TypeOK'
  BY <1>1, <1>4 DEF TypeOK
<1> QED
  BY <1>1, <1>2, <1>6, <1>7, PartsStay DEF TransportInv

\* A node crashes: what it held in memory is gone, and what is left is still right.
LEMMA CrashKeeps ==
  ASSUME TypeOK, TransportInv, NEW n \in Node, Crash(n)
  PROVE  TypeOK' /\ TransportInv'
<1> DEFINE lost == {c \in Conn : At[c] = n /\ reader[c] # "unborn"}
           gone == {r \in DOMAIN rooms : rooms[r].node = n}
<1>1. /\ n \in Crashes /\ crashed' = crashed \cup {n} /\ UNCHANGED <<session, current, leaving>>
      /\ queue' = [queue EXCEPT ![n] = <<>>]
      /\ pending' = [pending EXCEPT ![n] = [p \in Player |-> None]]
      /\ hub' = [r \in RoomIds |-> IF r \in gone THEN [p \in Player |-> None] ELSE hub[r]]
      /\ reader' = [c \in Conn |-> IF c \in lost THEN "serving" ELSE reader[c]]
      /\ closer' = [c \in Conn |-> IF c \in lost THEN "closed" ELSE closer[c]]
      /\ job' = [c \in Conn |-> IF c \in lost THEN NoJob ELSE job[c]]
  BY DEF Crash
<1>2. RoomsGrow /\ Len(rooms') = Len(rooms)
  BY CrashRooms
<1> HIDE DEF lost, gone
<1>3. /\ queue \in [Node -> Seq(Player)] /\ pending \in [Node -> [Player -> Conn \cup {None}]]
      /\ hub \in [RoomIds -> [Player -> Conn \cup {None}]]
      /\ reader \in [Conn -> ReaderSteps] /\ closer \in [Conn -> CloserSteps]
      /\ job \in [Conn -> Job] /\ crashed \subseteq Crashes
  BY DEF TypeOK
<1>4. /\ queue' \in [Node -> Seq(Player)]
      /\ \A m \in Node : queue'[m] \in {queue[m], <<>>}
  BY <1>1, <1>3, SMT
<1>5. MatchIsPair'
  <2>1. IsInjective(<<>>) /\ Len(<<>>) < Capacity
    BY SMT DEF IsInjective, Capacity
  <2>2. DOMAIN rooms' = 1..Len(rooms) /\ DOMAIN rooms = 1..Len(rooms)
    BY <1>2, RoomsType, SMT DEF RoomsGrow
  <2>3. \A r \in DOMAIN rooms' : rooms'[r].players = rooms[r].players
    BY <1>2, <2>2 DEF RoomsGrow
  <2> QED
    BY <1>4, <2>1, <2>2, <2>3 DEF TransportInv, MatchIsPair
<1>6. /\ pending' \in [Node -> [Player -> Conn \cup {None}]]
      /\ \A m \in Node, p \in Player : pending'[m][p] \in {pending[m][p], None}
  BY <1>1, <1>3
<1>7. PendingIsOwn'
  BY <1>6, SMT DEF TransportInv, PendingIsOwn
<1>8. /\ hub' \in [RoomIds -> [Player -> Conn \cup {None}]]
      /\ \A r \in RoomIds, p \in Player : hub'[r][p] \in {hub[r][p], None}
  BY <1>1, <1>3
<1>9. HubIsOwn'
  <2> SUFFICES ASSUME NEW r \in RoomIds, NEW p \in Player, hub'[r][p] # None
               PROVE  Owner[hub'[r][p]] = p /\ r \in DOMAIN rooms' /\ Seated(p, r)'
    BY DEF HubIsOwn
  <2>1. hub'[r][p] = hub[r][p]
    BY <1>8
  <2>2. Owner[hub[r][p]] = p /\ r \in DOMAIN rooms /\ Seated(p, r)
    BY <2>1 DEF TransportInv, HubIsOwn
  <2> QED
    BY <1>2, <2>1, <2>2, SeatStays
<1>10. /\ closer' \in [Conn -> CloserSteps]
       /\ \A d \in Conn : closer'[d] \in {"disconnect", "bind"}
                            => closer[d] \in {"disconnect", "bind"}
  BY <1>1, <1>3 DEF CloserSteps
<1>11. RoomIsOwn' /\ SessionIsOwn'
  BY <1>1, <1>2, <1>10, PartsStay
<1>12. reader' \in [Conn -> ReaderSteps]
  BY <1>1, <1>3 DEF ReaderSteps
<1>13. job' \in [Conn -> Job]
  <2>1. NoJob \in Job
    BY TransportAssumption, SMT DEF NoJob, Job
  <2> QED
    BY <1>1, <1>3, <2>1
<1>14. ASSUME NEW c \in Conn
       PROVE  JobIsOwn(c)'
  <2>1. CASE c \in lost
    BY <1>1, <2>1 DEF JobIsOwn
  <2>2. CASE c \notin lost
    BY <1>1, <1>2, <2>2, PartsStay
  <2> QED
    BY <2>1, <2>2
<1>15. current' \in [Conn -> 0..Len(rooms')] /\ leaving' \in [Conn -> 0..Len(rooms')]
  BY <1>1, <1>2, BindingsStay
<1>16. session' \in [Player -> Record] /\ crashed' \subseteq Crashes
  BY <1>1 DEF TypeOK
<1>17. TypeOK'
  BY <1>2, <1>4, <1>6, <1>8, <1>10, <1>12, <1>13, <1>15, <1>16 DEF TypeOK, RoomsGrow
<1> QED
  BY <1>5, <1>7, <1>9, <1>11, <1>14, <1>17 DEF TransportInv

-----------------------------------------------------------------------------

\* The inductive invariant holds in every reachable state.
THEOREM TransportCorrect == Spec => [](TypeOK /\ TransportInv)
<1>1. Init => TypeOK /\ TransportInv
  <2> SUFFICES ASSUME Init
               PROVE  TypeOK /\ TransportInv
    OBVIOUS
  <2>1. NoJob \in Job /\ NoRecord \in Record
    BY TransportAssumption, SMT DEF NoJob, Job, NoRecord, Record
  <2>2. rooms = <<>> /\ rooms \in Seq(Room) /\ Len(rooms) = 0 /\ DOMAIN rooms = {}
    BY SMT DEF Init
  <2>3. queue \in [Node -> Seq(Player)] /\ MatchIsPair
    <3>1. IsInjective(<<>>) /\ Len(<<>>) < Capacity /\ <<>> \in Seq(Player)
      BY SMT DEF IsInjective, Capacity
    <3> QED
      BY <2>2, <3>1 DEF Init, MatchIsPair
  <2>4. reader \in [Conn -> ReaderSteps] /\ closer \in [Conn -> CloserSteps]
    BY DEF Init, ReaderSteps, CloserSteps
  <2>5. current \in [Conn -> 0..Len(rooms)] /\ leaving \in [Conn -> 0..Len(rooms)]
        /\ Len(rooms) <= MaxRooms
    BY <2>2, TransportAssumption, SMT DEF Init
  <2>6. /\ pending \in [Node -> [Player -> Conn \cup {None}]]
        /\ hub \in [RoomIds -> [Player -> Conn \cup {None}]] /\ session \in [Player -> Record]
        /\ job \in [Conn -> Job] /\ crashed \subseteq Crashes
    BY <2>1 DEF Init
  <2>7. PendingIsOwn /\ HubIsOwn /\ SessionIsOwn
    BY DEF Init, PendingIsOwn, HubIsOwn, SessionIsOwn
  <2>8. RoomIsOwn /\ \A c \in Conn : JobIsOwn(c)
    BY DEF Init, RoomIsOwn, JobIsOwn
  <2> QED
    BY <2>2, <2>3, <2>4, <2>5, <2>6, <2>7, <2>8 DEF TypeOK, TransportInv
<1>2. TypeOK /\ TransportInv /\ [Next]_vars => TypeOK' /\ TransportInv'
  <2> SUFFICES ASSUME TypeOK, TransportInv, [Next]_vars
               PROVE  TypeOK' /\ TransportInv'
    OBVIOUS
  <2>1. ASSUME NEW c \in Conn, Reader(c)
        PROVE  TypeOK' /\ TransportInv'
    BY <2>1, LoadKeeps, ResumeKeeps, PendingKeeps, EnqueueKeeps, CreateKeeps, NextPlayerKeeps,
       SetRoomKeeps, RegisterKeeps, BindKeeps, SeatedKeeps
       DEF Reader
  <2>2. ASSUME NEW c \in Conn, Closer(c) \/ Client(c)
        PROVE  TypeOK' /\ TransportInv'
    BY <2>2, ClientKeeps, CloseKeeps, DequeueKeeps, LeaveKeeps, DisconnectKeeps,
       BindAtCloseKeeps
       DEF Closer, Client
  <2>3. CASE UNCHANGED vars
    <3>1. UNCHANGED <<queue, pending, rooms, hub, session, current, reader, job, closer,
                      leaving, crashed>>
      BY <2>3 DEF vars
    <3>2. TypeOK'
      BY <3>1 DEF TypeOK
    <3>3. RoomsGrow /\ Len(rooms') = Len(rooms)
      BY <3>1, RoomsStay
    <3> QED
      BY <3>1, <3>2, <3>3, PartsStay DEF TransportInv
  <2> QED
    BY <2>1, <2>2, <2>3, RoomLifeKeeps, ExpireKeeps, CrashKeeps DEF Next
<1> QED
  BY <1>1, <1>2, PTL DEF Spec

\* Type correctness of the transport.
THEOREM TypeCorrect == Spec => []TypeOK
  BY TransportCorrect, PTL

\* A match is made of two different players, and nobody waits in the queue twice or while
\* the queue could be matched, whatever connections close, repeat themselves or crash.
THEOREM MatchesArePairs == Spec => []MatchIsPair
<1>1. TypeOK /\ TransportInv => MatchIsPair
  BY DEF TransportInv
<1> QED
  BY <1>1, TransportCorrect, PTL

\* A room's broadcasts go only to connections of players who are seated in it, and a
\* session record names a room in which its player has a seat and the node of that room,
\* so that a resume is never refused for an unknown player and a redirect leads home.
THEOREM RecordsRight == Spec => []RecordsNameSeats
<1>1. TypeOK /\ TransportInv => RecordsNameSeats
  BY DEF TransportInv, HubIsOwn, SessionIsOwn, HasSeat, RecordsNameSeats
<1> QED
  BY <1>1, TransportCorrect, PTL

-----------------------------------------------------------------------------
(***************************************************************************)
(* A careful player                                                         *)
(*                                                                          *)
(* What the server guarantees to a player who dials in only when the last   *)
(* connection is cleaned up, does not repeat a request or close while it    *)
(* waits, and whose calls of the session store succeed.  The other players  *)
(* may do all of that, and nodes may crash.                                 *)
(***************************************************************************)

\* CreateRoom may fail in the player's own calls; when it fails in another player's, that
\* call does not clear this player's pending entry.
Careful(p) ==
  /\ p \notin Overlap /\ p \notin CloseMidway /\ p \notin Repeat /\ p \notin StoreFails
  /\ CreateFails \subseteq {p}

Live(c) == ~CleanedUp(c)

Queued(p, n) == p \in Range(queue[n])

Held(p, d) == p \in Range(job[d].left)

Handing == {"attach", "register", "bind"}

\* The goroutine is seating the player, on the connection job[d].who.
InHand(p, d) ==
  reader[d] \in Handing /\ job[d].left # <<>> /\ Head(job[d].left) = p

\* At most one connection of the player is not cleaned up.
OneLine(p) ==
  \A c, d \in Conn : Owner[c] = p /\ Owner[d] = p /\ Live(c) /\ Live(d) => c = d

\* How far the goroutine that serves a connection, the one that closes it and its room go
\* together.
LineFits(c) ==
  /\ reader[c] \in {"unborn", "load", "resume"} => closer[c] = "unborn"
  /\ reader[c] \in {"serving", "redirected"} => closer[c] # "unborn"
  /\ reader[c] \in {"message", "enqueue", "create", "clear"} => closer[c] = "open"
  /\ reader[c] \in Handing \cup {"seat"} => closer[c] \in {"unborn", "open"}
  /\ closer[c] # "dequeue" /\ (closer[c] \in {"disconnect", "bind"} => current[c] # 0)
  /\ reader[c] \in {"unborn", "load", "resume", "redirected", "enqueue", "create", "clear"}
       => current[c] = 0

LinesFit(p) == OneLine(p) /\ \A c \in Conn : Owner[c] = p => LineFits(c)

\* A pending entry is an open connection without a room, and its player is about to be
\* queued, queued, in the hands of a goroutine of that node, or about to be told of a failure.
PendingFits(p) ==
  \A n \in Node : pending[n][p] # None =>
    LET c == pending[n][p] IN
    /\ closer[c] = "open" /\ current[c] = 0
    /\ reader[c] \in {"enqueue", "clear", "serving"} \/ Held(p, c)
    /\ Queued(p, n) => reader[c] = "serving"
    /\ \A d \in Conn : Held(p, d) =>
         At[d] = n /\ ~InHand(p, d) /\ (d = c \/ reader[c] = "serving")
    /\ Queued(p, n) \/ reader[c] \in {"enqueue", "clear"} \/ \E d \in Conn : Held(p, d)

QueueFits(p) ==
  \A n \in Node : Queued(p, n) => pending[n][p] # None /\ \A d \in Conn : ~Held(p, d)

\* One goroutine at most seats the player, once, and has yet to take the pending entry or
\* has a connection of the player in its hands.
HeldFits(p) ==
  /\ \A d \in Conn : Held(p, d) => /\ reader[d] \in Handing \cup {"create", "seat"}
                                   /\ InHand(p, d) \/ pending[At[d]][p] # None
  /\ \A d, e \in Conn : Held(p, d) /\ Held(p, e) => d = e
  /\ \A d \in Conn : \A i, j \in DOMAIN job[d].left :
       job[d].left[i] = p /\ job[d].left[j] = p => i = j

HandFits(p) ==
  \A d \in Conn : InHand(p, d) =>
    LET w == job[d].who IN
    /\ \A n \in Node : pending[n][p] = None
    /\ w = d \/ (closer[w] = "open" /\ reader[w] = "serving")
    /\ current[w] = IF reader[d] = "attach" THEN 0 ELSE job[d].room

\* What the player's own goroutine is about to do.
AskFits(p) ==
  \A c \in Conn : Owner[c] = p =>
    /\ reader[c] = "enqueue" => pending[At[c]][p] = c
    /\ reader[c] = "create" => Held(p, c)

WaitFits(p) == PendingFits(p) /\ QueueFits(p) /\ HeldFits(p) /\ HandFits(p) /\ AskFits(p)

\* The player is being seated in the room.
SeatingIn(p, r) ==
  /\ \E d \in Conn : Held(p, d) /\ job[d].room = r /\ reader[d] # "create"
  /\ p \in rooms[r].connected

\* A connection of the player is bound to the room, until its clean-up has told the room.
PlaysIn(p, r) ==
  /\ \A d \in Conn : ~Held(p, d)
  /\ \E c \in Conn :
       /\ Owner[c] = p /\ current[c] = r
       /\ \/ /\ closer[c] \in {"unborn", "open", "pending", "leave", "disconnect"}
             /\ p \in rooms[r].connected /\ session[p].room \in {0, r}
          \/ closer[c] = "bind" /\ p \notin rooms[r].connected
       /\ closer[c] \in {"disconnect", "bind"} => leaving[c] = r

\* The player is gone, and whoever comes back for them resumes the room or is redirected.
AwayFrom(p, r) ==
  /\ p \notin rooms[r].connected /\ session[p].room = r
  /\ \A c \in Conn : Owner[c] = p /\ Live(c) =>
       reader[c] \in {"load", "redirected"} \/ (reader[c] = "resume" /\ job[c].room = r)

Runs(p, r) == r \in DOMAIN rooms /\ rooms[r].life = "Active" /\ Seated(p, r)

HomeFits(p) ==
  /\ \A r \in DOMAIN rooms : p \in rooms[r].connected => Seated(p, r)
  /\ \A r : Runs(p, r) => SeatingIn(p, r) \/ PlaysIn(p, r) \/ AwayFrom(p, r)

CarefulInv(p) == LinesFit(p) /\ WaitFits(p) /\ HomeFits(p)

-----------------------------------------------------------------------------
(* Where the player can be found. *)

\* The server holds nothing of the player's but their connection.
Idle(p) ==
  /\ \A n \in Node : pending[n][p] = None /\ ~Queued(p, n)
  /\ \A d \in Conn : ~Held(p, d)

\* The player at hand is one of those to be seated.
LEMMA HandHeld ==
  ASSUME TypeOK, NEW p, NEW d \in Conn, InHand(p, d)
  PROVE  Held(p, d) /\ 1 \in DOMAIN job[d].left /\ job[d].left[1] = p
<1>1. job[d].left # <<>> /\ Head(job[d].left) = p
  BY DEF InHand
<1>2. 1 \in DOMAIN job[d].left /\ job[d].left[1] = p
  BY <1>1, JobTail
<1> QED
  BY <1>2 DEF Held, Range

\* A pending entry is the player's live connection.
LEMMA PendingLive ==
  ASSUME TypeOK, TransportInv, NEW p \in Player, WaitFits(p),
         NEW n \in Node, pending[n][p] # None
  PROVE  /\ pending[n][p] \in Conn /\ Owner[pending[n][p]] = p
         /\ At[pending[n][p]] = n /\ Live(pending[n][p])
<1> DEFINE c == pending[n][p]
<1>1. c \in Conn
  <2>1. pending \in [Node -> [Player -> Conn \cup {None}]]
    BY DEF TypeOK
  <2>2. pending[n] \in [Player -> Conn \cup {None}]
    BY <2>1
  <2> QED
    BY <2>2
<1>2. Owner[c] = p /\ At[c] = n
  BY DEF TransportInv, PendingIsOwn
<1>3. closer[c] = "open" /\ (reader[c] \in {"enqueue", "clear", "serving"} \/ Held(p, c))
  BY DEF WaitFits, PendingFits
<1>4. Held(p, c) => reader[c] \in Handing \cup {"create", "seat"}
  BY <1>1 DEF WaitFits, HeldFits
<1>5. Live(c)
  BY <1>3, <1>4 DEF Live, CleanedUp, Handing
<1> QED
  BY <1>1, <1>2, <1>5

\* The connection at hand is the player's live connection.
LEMMA HandLive ==
  ASSUME TypeOK, TransportInv, NEW p \in Player, WaitFits(p), NEW d \in Conn, InHand(p, d)
  PROVE  /\ job[d].who \in Conn /\ Owner[job[d].who] = p
         /\ At[job[d].who] = At[d] /\ Live(job[d].who)
<1> DEFINE c == job[d].who
<1>1. c \in Conn /\ Owner[c] = p /\ At[c] = At[d]
  BY DEF TransportInv, JobIsOwn, InHand, Handing
<1>2. c = d \/ (closer[c] = "open" /\ reader[c] = "serving")
  BY DEF WaitFits, HandFits
<1>3. Live(c)
  BY <1>2 DEF Live, CleanedUp, AtRest, InHand, Handing
<1> QED
  BY <1>1, <1>3

\* A connection that is dialling in, about to ask or closing has nothing pending.
LEMMA IdleFacts ==
  ASSUME TypeOK, TransportInv, NEW p \in Player, LinesFit(p), WaitFits(p),
         NEW c \in Conn, Owner[c] = p, Live(c),
         \/ reader[c] \in {"load", "resume", "message", "redirected"}
         \/ closer[c] \notin {"unborn", "open"}
  PROVE  Idle(p)
<1>1. \A d \in Conn : Owner[d] = p /\ Live(d) => d = c
  BY DEF LinesFit, OneLine
<1>2. reader[c] \in Handing \cup {"seat"} => closer[c] \in {"unborn", "open"}
  BY DEF LinesFit, LineFits
<1>3. reader[c] = "create" => closer[c] = "open"
  BY DEF LinesFit, LineFits
<1>4. \A n \in Node : pending[n][p] = None
  <2> SUFFICES ASSUME NEW n \in Node, pending[n][p] # None
               PROVE  FALSE
    OBVIOUS
  <2>1. pending[n][p] = c
    BY <1>1, PendingLive, SMT
  <2>2. closer[c] = "open" /\ (reader[c] \in {"enqueue", "clear", "serving"} \/ Held(p, c))
    BY <2>1 DEF WaitFits, PendingFits
  <2>3. Held(p, c) => reader[c] \in Handing \cup {"create", "seat"}
    BY DEF WaitFits, HeldFits
  <2> QED
    BY <2>2, <2>3 DEF Handing
<1>5. \A d \in Conn : ~InHand(p, d)
  <2> SUFFICES ASSUME NEW d \in Conn, InHand(p, d)
               PROVE  FALSE
    OBVIOUS
  <2>1. job[d].who = c
    BY <1>1, HandLive, SMT
  <2>2. c = d \/ (closer[c] = "open" /\ reader[c] = "serving")
    BY <2>1 DEF WaitFits, HandFits
  <2>3. reader[d] \in Handing
    BY DEF InHand
  <2> QED
    BY <1>2, <2>2, <2>3 DEF Handing
<1>6. \A n \in Node : ~Queued(p, n)
  BY <1>4 DEF WaitFits, QueueFits
<1>7. \A d \in Conn : ~Held(p, d)
  BY <1>4, <1>5, TransportAssumption DEF WaitFits, HeldFits
<1> QED
  BY <1>4, <1>6, <1>7 DEF Idle

\* The same after a step.
LEMMA HandHeldNext ==
  ASSUME TypeOK', NEW p, NEW d \in Conn, InHand(p, d)'
  PROVE  Held(p, d)'
<1>1. job'[d].left # <<>> /\ Head(job'[d].left) = p
  BY DEF InHand
<1>2. job' \in [Conn -> Job]
  BY DEF TypeOK
<1>3. job'[d] \in Job /\ job'[d].left \in Seq(Player)
  BY <1>2 DEF Job
<1>4. 1 \in DOMAIN job'[d].left /\ job'[d].left[1] = p
  BY <1>1, <1>3, SMT
<1> QED
  BY <1>4 DEF Held, Range

\* A player of whom the server holds nothing after a step waits for nothing.
LEMMA IdleWaits ==
  ASSUME TypeOK', NEW p, Idle(p)',
         \A c \in Conn : Owner[c] = p => reader'[c] \notin {"enqueue", "create"}
  PROVE  WaitFits(p)'
<1>1. PendingFits(p)' /\ QueueFits(p)' /\ AskFits(p)'
  BY DEF Idle, PendingFits, QueueFits, AskFits
<1>2. HandFits(p)'
  BY HandHeldNext DEF Idle, HandFits
<1>3. HeldFits(p)'
  BY DEF Idle, HeldFits, Held, Range
<1> QED
  BY <1>1, <1>2, <1>3 DEF WaitFits

-----------------------------------------------------------------------------
(* Steps that leave the player alone. *)

\* The player's connections are as they were, up to how far the goroutine of one of them
\* is in seating players.
SameLines(p) ==
  \A c \in Conn : Owner[c] = p =>
    /\ closer'[c] = closer[c] /\ current'[c] = current[c] /\ leaving'[c] = leaving[c]
    /\ \/ reader'[c] = reader[c]
       \/ reader[c] \in Handing \cup {"seat"} /\ reader'[c] \in Handing \cup {"seat"}
    /\ reader[c] = "resume" => job'[c].room = job[c].room

\* The player waits as before.
SameWait(p) ==
  /\ \A n \in Node : pending'[n][p] = pending[n][p] /\ (Queued(p, n)' <=> Queued(p, n))
  /\ \A d \in Conn :
       /\ (Held(p, d)' <=> Held(p, d)) /\ (InHand(p, d)' <=> InHand(p, d))
       /\ Held(p, d) => /\ job'[d].room = job[d].room
                        /\ reader'[d] \in Handing \cup {"create", "seat"}
                        /\ reader'[d] = "create" <=> reader[d] = "create"
       /\ InHand(p, d) => /\ job'[d].who = job[d].who
                          /\ reader'[d] = "attach" <=> reader[d] = "attach"
       /\ \A i, j \in DOMAIN job'[d].left : job'[d].left[i] = p /\ job'[d].left[j] = p => i = j

\* The same goroutines have the same rooms for the player.
SameHeld(p) ==
  \A d \in Conn :
    /\ Held(p, d)' <=> Held(p, d)
    /\ Held(p, d) => /\ job'[d].room = job[d].room
                     /\ reader'[d] = "create" <=> reader[d] = "create"

\* No game of the player starts, and those that go on see them as before.
SameHome(p) ==
  /\ session'[p] = session[p]
  /\ \A r \in DOMAIN rooms' : p \in rooms'[r].connected => Seated(p, r)'
  /\ \A r : Runs(p, r)' => Runs(p, r) /\ (p \in rooms'[r].connected <=> p \in rooms[r].connected)

\* Whether a connection is live.
LEMMA LiveStays ==
  ASSUME NEW p, SameLines(p), NEW c \in Conn, Owner[c] = p
  PROVE  Live(c)' <=> Live(c)
  BY DEF SameLines, Live, CleanedUp, AtRest, Handing

\* Such a step keeps the player's connections in order.
LEMMA LinesStay ==
  ASSUME NEW p, LinesFit(p), SameLines(p)
  PROVE  LinesFit(p)'
<1>1. OneLine(p)'
  BY LiveStays DEF LinesFit, OneLine
<1>2. ASSUME NEW c \in Conn, Owner[c] = p
      PROVE  LineFits(c)'
  <2>1. LineFits(c) /\ closer'[c] = closer[c] /\ current'[c] = current[c]
    BY <1>2 DEF LinesFit, SameLines
  <2>2. CASE reader'[c] = reader[c]
    BY <2>1, <2>2 DEF LineFits
  <2>3. CASE reader[c] \in Handing \cup {"seat"} /\ reader'[c] \in Handing \cup {"seat"}
    BY <2>1, <2>3 DEF LineFits, Handing
  <2> QED
    BY <1>2, <2>2, <2>3 DEF SameLines
<1> QED
  BY <1>1, <1>2 DEF LinesFit

\* Such a step keeps the player's place in the queue and in the hands of the goroutines.
LEMMA WaitStays ==
  ASSUME TypeOK, TransportInv, NEW p \in Player, LinesFit(p), WaitFits(p),
         SameLines(p), SameWait(p)
  PROVE  WaitFits(p)'
<1>1. ASSUME NEW n \in Node, NEW c \in Conn, c = pending'[n][p], c # None
      PROVE  /\ closer'[c] = "open" /\ current'[c] = 0
             /\ reader'[c] \in {"enqueue", "clear", "serving"} \/ Held(p, c)'
             /\ Queued(p, n)' => reader'[c] = "serving"
             /\ \A d \in Conn : Held(p, d)' =>
                  At[d] = n /\ ~InHand(p, d)' /\ (d = c \/ reader'[c] = "serving")
             /\ \/ Queued(p, n)' \/ reader'[c] \in {"enqueue", "clear"}
                \/ \E d \in Conn : Held(p, d)'
  <2>1. pending[n][p] = c
    BY <1>1 DEF SameWait
  <2>2. Owner[c] = p
    BY <1>1, <2>1, PendingLive, SMT
  <2>3. /\ closer[c] = "open" /\ current[c] = 0
        /\ reader[c] \in {"enqueue", "clear", "serving"} \/ Held(p, c)
        /\ Queued(p, n) => reader[c] = "serving"
        /\ \A d \in Conn : Held(p, d) =>
             At[d] = n /\ ~InHand(p, d) /\ (d = c \/ reader[c] = "serving")
        /\ Queued(p, n) \/ reader[c] \in {"enqueue", "clear"} \/ \E d \in Conn : Held(p, d)
    BY <1>1, <2>1, SMT DEF WaitFits, PendingFits
  <2>4. /\ closer'[c] = closer[c] /\ current'[c] = current[c]
        /\ reader[c] \in {"enqueue", "clear", "serving"} => reader'[c] = reader[c]
    BY <2>2 DEF SameLines, Handing
  <2>5. /\ Queued(p, n)' <=> Queued(p, n)
        /\ \A d \in Conn : (Held(p, d)' <=> Held(p, d)) /\ (InHand(p, d)' <=> InHand(p, d))
    BY DEF SameWait
  <2> QED
    BY <2>3, <2>4, <2>5
<1>2. PendingFits(p)'
  <2>1. \A n \in Node : pending'[n][p] # None => pending'[n][p] \in Conn
    BY PendingLive DEF SameWait
  <2> QED
    BY <1>1, <2>1 DEF PendingFits
<1>3. QueueFits(p)'
  BY DEF SameWait, WaitFits, QueueFits
<1>4. HeldFits(p)'
  BY TransportAssumption DEF SameWait, WaitFits, HeldFits
<1>5. HandFits(p)'
  <2> SUFFICES ASSUME NEW d \in Conn, InHand(p, d)'
               PROVE  LET w == job'[d].who IN
                      /\ \A n \in Node : pending'[n][p] = None
                      /\ w = d \/ (closer'[w] = "open" /\ reader'[w] = "serving")
                      /\ current'[w] = IF reader'[d] = "attach" THEN 0 ELSE job'[d].room
    BY DEF HandFits
  <2> DEFINE w == job[d].who
  <2>1. InHand(p, d) /\ \A n \in Node : pending'[n][p] = pending[n][p]
    BY DEF SameWait
  <2>2. Held(p, d)
    BY <2>1, HandHeld
  <2>3. /\ job'[d].who = w /\ (reader'[d] = "attach" <=> reader[d] = "attach")
        /\ job'[d].room = job[d].room
    BY <2>1, <2>2 DEF SameWait
  <2>4. w \in Conn /\ Owner[w] = p
    BY <2>1, HandLive
  <2>5. /\ \A n \in Node : pending[n][p] = None
        /\ w = d \/ (closer[w] = "open" /\ reader[w] = "serving")
        /\ current[w] = IF reader[d] = "attach" THEN 0 ELSE job[d].room
    BY <2>1 DEF WaitFits, HandFits
  <2>6. /\ closer'[w] = closer[w] /\ current'[w] = current[w]
        /\ reader[w] = "serving" => reader'[w] = "serving"
    BY <2>4 DEF SameLines, Handing
  <2> HIDE DEF w
  <2> QED
    BY <2>1, <2>3, <2>5, <2>6
<1>6. AskFits(p)'
  <2> SUFFICES ASSUME NEW c \in Conn, Owner[c] = p
               PROVE  /\ reader'[c] = "enqueue" => pending'[At[c]][p] = c
                      /\ reader'[c] = "create" => Held(p, c)'
    BY DEF AskFits
  <2>1. reader'[c] \in {"enqueue", "create"} => reader'[c] = reader[c]
    BY DEF SameLines, Handing
  <2>2. At[c] \in Node
    BY TransportAssumption
  <2> QED
    BY <2>1, <2>2 DEF SameWait, WaitFits, AskFits
<1> QED
  BY <1>2, <1>3, <1>4, <1>5, <1>6 DEF WaitFits

\* Such a step leaves the player where they are.
LEMMA HomeStays ==
  ASSUME NEW p, HomeFits(p), SameLines(p), SameHeld(p), SameHome(p)
  PROVE  HomeFits(p)'
<1> SUFFICES ASSUME NEW r, Runs(p, r)'
             PROVE  SeatingIn(p, r)' \/ PlaysIn(p, r)' \/ AwayFrom(p, r)'
  BY DEF HomeFits, SameHome
<1>1. /\ Runs(p, r) /\ (p \in rooms'[r].connected <=> p \in rooms[r].connected)
      /\ session'[p] = session[p]
  BY DEF SameHome
<1>2. CASE SeatingIn(p, r)
  <2>1. PICK d \in Conn : Held(p, d) /\ job[d].room = r /\ reader[d] # "create"
    BY <1>2 DEF SeatingIn
  <2>2. Held(p, d)' /\ job'[d].room = r /\ reader'[d] # "create"
    BY <2>1 DEF SameHeld
  <2> QED
    BY <1>1, <1>2, <2>2 DEF SeatingIn
<1>3. CASE PlaysIn(p, r)
  <2>1. \A d \in Conn : ~Held(p, d)'
    BY <1>3 DEF PlaysIn, SameHeld
  <2> DEFINE Binds(c) ==
               /\ Owner[c] = p /\ current[c] = r
               /\ \/ /\ closer[c] \in {"unborn", "open", "pending", "leave", "disconnect"}
                     /\ p \in rooms[r].connected /\ session[p].room \in {0, r}
                  \/ closer[c] = "bind" /\ p \notin rooms[r].connected
               /\ closer[c] \in {"disconnect", "bind"} => leaving[c] = r
  <2>2. PICK c \in Conn : Binds(c)
    BY <1>3 DEF PlaysIn
  <2>3. closer'[c] = closer[c] /\ current'[c] = current[c] /\ leaving'[c] = leaving[c]
    BY <2>2 DEF SameLines
  <2>4. Binds(c)'
    BY <1>1, <2>2, <2>3
  <2> QED
    BY <2>1, <2>4 DEF PlaysIn
<1>4. CASE AwayFrom(p, r)
  <2>1. ASSUME NEW c \in Conn, Owner[c] = p, Live(c)'
        PROVE  \/ reader'[c] \in {"load", "redirected"}
               \/ reader'[c] = "resume" /\ job'[c].room = r
    <3>1. reader[c] \in {"load", "redirected"} \/ (reader[c] = "resume" /\ job[c].room = r)
      BY <1>4, <2>1, LiveStays DEF AwayFrom
    <3> QED
      BY <2>1, <3>1 DEF SameLines, Handing
  <2> QED
    BY <1>1, <1>4, <2>1 DEF AwayFrom
<1> QED
  BY <1>1, <1>2, <1>3, <1>4 DEF HomeFits

\* A step that leaves the player alone keeps what the server knows of them right.
LEMMA CarefulStays ==
  ASSUME TypeOK, TransportInv, NEW p \in Player, CarefulInv(p),
         SameLines(p), SameWait(p), SameHome(p)
  PROVE  CarefulInv(p)'
<1>1. SameHeld(p)
  BY DEF SameWait, SameHeld
<1> QED
  BY <1>1, LinesStay, WaitStays, HomeStays DEF CarefulInv

-----------------------------------------------------------------------------
(* Parts of the frame, from the variables that a step leaves alone. *)

\* The rooms are as they were.
LEMMA HomeSame ==
  ASSUME NEW p, HomeFits(p), UNCHANGED rooms, session'[p] = session[p]
  PROVE  SameHome(p)
  BY DEF SameHome, HomeFits, Runs, Seated

\* Rooms end, or see others come and go.
LEMMA HomeSameRooms ==
  ASSUME TypeOK, NEW p, HomeFits(p), RoomsGrow, Len(rooms') = Len(rooms),
         session'[p] = session[p],
         \A r \in DOMAIN rooms : /\ p \in rooms'[r].connected <=> p \in rooms[r].connected
                                 /\ rooms'[r].life = "Active" => rooms[r].life = "Active"
  PROVE  SameHome(p)
<1>1. DOMAIN rooms' = DOMAIN rooms /\ DOMAIN rooms = 1..Len(rooms)
  BY RoomsType, SMT DEF RoomsGrow
<1>2. \A r \in DOMAIN rooms : rooms'[r].players = rooms[r].players
  BY <1>1 DEF RoomsGrow
<1>3. \A r \in DOMAIN rooms : Seated(p, r)' <=> Seated(p, r)
  BY <1>2 DEF Seated
<1> QED
  BY <1>1, <1>3 DEF SameHome, HomeFits, Runs

\* Nothing that the player waits for changes.
LEMMA WaitSame ==
  ASSUME TypeOK, NEW p, WaitFits(p), UNCHANGED queue, \A n \in Node : pending'[n][p] = pending[n][p],
         UNCHANGED job, \A d \in Conn : Held(p, d) => reader'[d] = reader[d],
         \A d \in Conn : InHand(p, d)' <=> InHand(p, d)
  PROVE  SameWait(p)
<1>1. \A d \in Conn : Held(p, d)' <=> Held(p, d)
  BY DEF Held
<1>2. \A d \in Conn : Held(p, d) => reader[d] \in Handing \cup {"create", "seat"}
  BY DEF WaitFits, HeldFits
<1>3. \A n \in Node : Queued(p, n)' <=> Queued(p, n)
  BY DEF Queued
<1>4. ASSUME NEW d \in Conn
      PROVE  /\ (Held(p, d)' <=> Held(p, d)) /\ (InHand(p, d)' <=> InHand(p, d))
             /\ Held(p, d) => /\ job'[d].room = job[d].room
                              /\ reader'[d] \in Handing \cup {"create", "seat"}
                              /\ reader'[d] = "create" <=> reader[d] = "create"
             /\ InHand(p, d) => /\ job'[d].who = job[d].who
                                /\ reader'[d] = "attach" <=> reader[d] = "attach"
  BY <1>1, <1>2, HandHeld
<1>5. \A d \in Conn : \A i, j \in DOMAIN job'[d].left :
        job'[d].left[i] = p /\ job'[d].left[j] = p => i = j
  BY DEF WaitFits, HeldFits
<1> QED
  BY <1>3, <1>4, <1>5 DEF SameWait

\* Another player's connection moves, with nothing of this player's in its hands.
LEMMA OthersMove ==
  ASSUME TypeOK, TypeOK', NEW p, WaitFits(p), NEW c \in Conn, Owner[c] # p,
         \A n \in Node : pending'[n][p] = pending[n][p] /\ (Queued(p, n)' <=> Queued(p, n)),
         \A d \in Conn \ {c} :
           /\ reader'[d] = reader[d] /\ closer'[d] = closer[d] /\ job'[d] = job[d]
           /\ current'[d] = current[d] /\ leaving'[d] = leaving[d],
         \/ reader'[c] = reader[c] /\ job'[c] = job[c]
         \/ ~Held(p, c) /\ ~Held(p, c)'
  PROVE  SameLines(p) /\ SameWait(p)
<1>1. SameLines(p)
  BY DEF SameLines
<1>2. ASSUME NEW d \in Conn
      PROVE  /\ (Held(p, d)' <=> Held(p, d)) /\ (InHand(p, d)' <=> InHand(p, d))
             /\ Held(p, d) => /\ job'[d].room = job[d].room
                              /\ reader'[d] \in Handing \cup {"create", "seat"}
                              /\ reader'[d] = "create" <=> reader[d] = "create"
             /\ InHand(p, d) => /\ job'[d].who = job[d].who
                                /\ reader'[d] = "attach" <=> reader[d] = "attach"
             /\ \A i, j \in DOMAIN job'[d].left :
                  job'[d].left[i] = p /\ job'[d].left[j] = p => i = j
  <2>1. CASE reader'[d] = reader[d] /\ job'[d] = job[d]
    <3>1. (Held(p, d)' <=> Held(p, d)) /\ (InHand(p, d)' <=> InHand(p, d))
      BY <2>1 DEF Held, InHand
    <3>2. Held(p, d) => reader[d] \in Handing \cup {"create", "seat"}
      BY DEF WaitFits, HeldFits
    <3>3. \A i, j \in DOMAIN job[d].left : job[d].left[i] = p /\ job[d].left[j] = p => i = j
      BY DEF WaitFits, HeldFits
    <3> QED
      BY <2>1, <3>1, <3>2, <3>3
  <2>2. CASE ~Held(p, d) /\ ~Held(p, d)'
    <3>1. ~InHand(p, d)
      BY <2>2, HandHeld
    <3>2. ~InHand(p, d)'
      BY <2>2, HandHeldNext
    <3>3. \A i \in DOMAIN job'[d].left : job'[d].left[i] # p
      BY <2>2 DEF Held, Range
    <3> QED
      BY <2>2, <3>1, <3>2, <3>3
  <2> QED
    BY <2>1, <2>2
<1> QED
  BY <1>1, <1>2 DEF SameWait

\* A goroutine seats another player, or is about to bind the session of this one.
LEMMA SeatingMoves ==
  ASSUME TypeOK, NEW p, WaitFits(p), NEW c \in Conn,
         reader[c] \in Handing \cup {"seat"}, reader'[c] \in Handing \cup {"seat"},
         UNCHANGED <<closer, leaving, queue>>,
         \A n \in Node : pending'[n][p] = pending[n][p],
         \A d \in Conn : Owner[d] = p => current'[d] = current[d],
         \A d \in Conn \ {c} : reader'[d] = reader[d] /\ job'[d] = job[d],
         job'[c].room = job[c].room, Held(p, c)' <=> Held(p, c),
         \A i, j \in DOMAIN job'[c].left : job'[c].left[i] = p /\ job'[c].left[j] = p => i = j,
         \/ ~InHand(p, c) /\ ~InHand(p, c)'
         \/ /\ InHand(p, c) /\ InHand(p, c)' /\ job'[c].who = job[c].who
            /\ reader[c] # "attach" /\ reader'[c] # "attach"
  PROVE  SameLines(p) /\ SameWait(p)
<1>1. SameLines(p)
  BY DEF SameLines
<1>2. \A n \in Node : Queued(p, n)' <=> Queued(p, n)
  BY DEF Queued
<1>3. ASSUME NEW d \in Conn
      PROVE  /\ (Held(p, d)' <=> Held(p, d)) /\ (InHand(p, d)' <=> InHand(p, d))
             /\ Held(p, d) => /\ job'[d].room = job[d].room
                              /\ reader'[d] \in Handing \cup {"create", "seat"}
                              /\ reader'[d] = "create" <=> reader[d] = "create"
             /\ InHand(p, d) => /\ job'[d].who = job[d].who
                                /\ reader'[d] = "attach" <=> reader[d] = "attach"
             /\ \A i, j \in DOMAIN job'[d].left :
                  job'[d].left[i] = p /\ job'[d].left[j] = p => i = j
  <2>1. CASE d # c
    <3>1. (Held(p, d)' <=> Held(p, d)) /\ (InHand(p, d)' <=> InHand(p, d))
      BY <2>1 DEF Held, InHand
    <3>2. Held(p, d) => reader[d] \in Handing \cup {"create", "seat"}
      BY DEF WaitFits, HeldFits
    <3>3. \A i, j \in DOMAIN job[d].left : job[d].left[i] = p /\ job[d].left[j] = p => i = j
      BY DEF WaitFits, HeldFits
    <3> QED
      BY <2>1, <3>1, <3>2, <3>3
  <2>2. CASE d = c
    BY <2>2 DEF Handing
  <2> QED
    BY <2>1, <2>2
<1> QED
  BY <1>1, <1>2, <1>3 DEF SameWait

-----------------------------------------------------------------------------
(* The steps of the other players. *)

\* GoTo and Closing move one connection.
LEMMA StepMoves ==
  ASSUME TypeOK, NEW c \in Conn, NEW step
  PROVE  /\ GoTo(c, step) => reader'[c] = step /\ \A d \in Conn \ {c} : reader'[d] = reader[d]
         /\ Closing(c, step) => closer'[c] = step /\ \A d \in Conn \ {c} : closer'[d] = closer[d]
  BY DEF GoTo, Closing, TypeOK

\* The pumps start.
LEMMA ServeMoves ==
  ASSUME TypeOK, NEW c \in Conn, Serve(c)
  PROVE  /\ reader'[c] = "serving" /\ \A d \in Conn \ {c} : reader'[d] = reader[d]
         /\ closer'[c] = IF closer[c] = "unborn" THEN "open" ELSE closer[c]
         /\ \A d \in Conn \ {c} : closer'[d] = closer[d]
  BY DEF Serve, GoTo, TypeOK

\* The client is sent to another node.
LEMMA RedirectMoves ==
  ASSUME TypeOK, NEW c \in Conn, Redirect(c)
  PROVE  /\ reader'[c] = "redirected" /\ \A d \in Conn \ {c} : reader'[d] = reader[d]
         /\ closer'[c] = "open" /\ \A d \in Conn \ {c} : closer'[d] = closer[d]
  BY DEF Redirect, GoTo, TypeOK

\* An entry of pending changes for one player on one node.
LEMMA PendingMoves ==
  ASSUME TypeOK, NEW m \in Node, NEW q \in Player, NEW v,
         pending' = [pending EXCEPT ![m][q] = v]
  PROVE  /\ pending'[m][q] = v
         /\ \A n \in Node, p \in Player : n # m \/ p # q => pending'[n][p] = pending[n][p]
<1>1. pending \in [Node -> [Player -> Conn \cup {None}]]
  BY DEF TypeOK
<1> QED
  BY <1>1, SMT

\* A session record is saved for one player.
LEMMA SaveMoves ==
  ASSUME TypeOK, NEW q \in Player, NEW record, SaveSession(q, record)
  PROVE  \A p \in Player \ {q} : session'[p] = session[p]
  BY DEF SaveSession, TypeOK

\* A connection in one of these steps seats nobody.
LEMMA HoldsNobody ==
  ASSUME NEW p, WaitFits(p), NEW c \in Conn, reader[c] \notin Handing \cup {"create", "seat"}
  PROVE  ~Held(p, c)
  BY DEF WaitFits, HeldFits

\* Others dial in, ask, and close.
LEMMA OthersAsk ==
  ASSUME TypeOK, TransportInv, TypeOK', NEW p \in Player, CarefulInv(p), NEW c \in Conn,
         Owner[c] # p,
         \/ Dial(c) \/ ReadMessage(c) \/ FindMatch(c) \/ ClearPending(c)
         \/ Close(c) \/ ForgetPending(c) \/ Leave(c) \/ BindAtClose(c)
  PROVE  CarefulInv(p)'
<1>1. At[c] \in Node /\ Owner[c] \in Player
  BY TransportAssumption
<1>2. UNCHANGED <<queue, rooms, job, current>>
  BY DEF Dial, ReadMessage, FindMatch, ClearPending, Close, ForgetPending, Leave, BindAtClose
<1>3. \A n \in Node : pending'[n][p] = pending[n][p]
  <2>1. UNCHANGED pending \/ \E v : pending' = [pending EXCEPT ![At[c]][Owner[c]] = v]
    BY DEF Dial, ReadMessage, FindMatch, ClearPending, Close, ForgetPending, Leave, BindAtClose
  <2>2. ASSUME NEW v, pending' = [pending EXCEPT ![At[c]][Owner[c]] = v]
        PROVE  \A n \in Node : pending'[n][p] = pending[n][p]
    BY <1>1, <2>2, PendingMoves, SMT
  <2> QED
    BY <2>1, <2>2
<1>4. session'[p] = session[p]
  BY <1>1, SaveMoves
  DEF Dial, ReadMessage, FindMatch, ClearPending, Close, ForgetPending, Leave, BindAtClose
<1>5. \A d \in Conn \ {c} : reader'[d] = reader[d]
  BY StepMoves
  DEF Dial, ReadMessage, FindMatch, ClearPending, Close, ForgetPending, Leave, BindAtClose
<1>6. \A d \in Conn \ {c} : closer'[d] = closer[d]
  BY StepMoves
  DEF Dial, ReadMessage, FindMatch, ClearPending, Close, ForgetPending, Leave, BindAtClose
<1>7. \A d \in Conn \ {c} : leaving'[d] = leaving[d]
  BY DEF Dial, ReadMessage, FindMatch, ClearPending, Close, ForgetPending, Leave, BindAtClose,
         TypeOK
<1>8. reader'[c] = reader[c] \/ ~Held(p, c)
  <2>1. reader'[c] = reader[c] \/ reader[c] \in {"unborn", "serving", "message", "clear"}
    BY DEF Dial, ReadMessage, FindMatch, ClearPending, Close, ForgetPending, Leave, BindAtClose
  <2> QED
    BY <2>1, HoldsNobody DEF CarefulInv, Handing
<1>9. /\ \A n \in Node : Queued(p, n)' <=> Queued(p, n)
      /\ Held(p, c)' <=> Held(p, c)
  BY <1>2 DEF Queued, Held
<1>10. SameLines(p) /\ SameWait(p)
  BY <1>2, <1>3, <1>5, <1>6, <1>7, <1>8, <1>9, OthersMove DEF CarefulInv
<1>11. SameHome(p)
  BY <1>2, <1>4, HomeSame DEF CarefulInv
<1> QED
  BY <1>10, <1>11, CarefulStays

\* Who is connected, or the life, of one room changes.
LEMMA RoomEntry ==
  ASSUME TypeOK, NEW r \in DOMAIN rooms, NEW v
  PROVE  /\ rooms' = [rooms EXCEPT ![r].connected = v] =>
              \A s \in DOMAIN rooms :
                /\ rooms'[s].life = rooms[s].life
                /\ rooms'[s].connected = IF s = r THEN v ELSE rooms[s].connected
         /\ rooms' = [rooms EXCEPT ![r].life = v] =>
              \A s \in DOMAIN rooms :
                /\ rooms'[s].life = IF s = r THEN v ELSE rooms[s].life
                /\ rooms'[s].connected = rooms[s].connected
<1>1. \A s \in DOMAIN rooms : rooms[s] \in Room
  BY RoomsType
<1>2. ASSUME NEW s \in DOMAIN rooms, rooms' = [rooms EXCEPT ![r].connected = v]
      PROVE  /\ rooms'[s].life = rooms[s].life
             /\ rooms'[s].connected = IF s = r THEN v ELSE rooms[s].connected
  <2>1. CASE s = r
    BY <1>1, <1>2, <2>1 DEF Room
  <2>2. CASE s # r
    BY <1>2, <2>2
  <2> QED
    BY <2>1, <2>2
<1>3. ASSUME NEW s \in DOMAIN rooms, rooms' = [rooms EXCEPT ![r].life = v]
      PROVE  /\ rooms'[s].life = IF s = r THEN v ELSE rooms[s].life
             /\ rooms'[s].connected = rooms[s].connected
  <2>1. CASE s = r
    BY <1>1, <1>3, <2>1 DEF Room
  <2>2. CASE s # r
    BY <1>3, <2>2
  <2> QED
    BY <2>1, <2>2
<1> QED
  BY <1>2, <1>3

\* Others look for their room and come back to it, or are told to go on.
LEMMA OthersResume ==
  ASSUME TypeOK, TransportInv, TypeOK', NEW p \in Player, CarefulInv(p), NEW c \in Conn,
         Owner[c] # p, LoadSession(c) \/ Resume(c) \/ AllSeated(c)
  PROVE  CarefulInv(p)'
<1>1. /\ UNCHANGED <<queue, pending, session, current, leaving>>
      /\ \A n \in Node : Queued(p, n)' <=> Queued(p, n)
  BY DEF LoadSession, Resume, AllSeated, Queued
<1>2. job \in [Conn -> Job] /\ job[c] \in Job
  BY DEF TypeOK
<1>3. ~Held(p, c)
  <2>1. CASE reader[c] \in {"load", "resume"}
    BY <2>1, HoldsNobody DEF CarefulInv, Handing
  <2>2. CASE job[c].left = <<>>
    BY <2>2, SMT DEF Held, Range
  <2> QED
    BY <2>1, <2>2 DEF LoadSession, Resume, AllSeated
<1>4. ~Held(p, c)' /\ \A d \in Conn \ {c} : job'[d] = job[d]
  <2>1. CASE UNCHANGED job
    BY <1>3, <2>1 DEF Held
  <2>2. CASE job' = [job EXCEPT ![c].room = session[Owner[c]].room,
                                ![c].owner = session[Owner[c]].owner]
    <3>1. job'[c].left = job[c].left /\ \A d \in Conn \ {c} : job'[d] = job[d]
      BY <1>2, <2>2, SMT DEF Job
    <3> QED
      BY <1>3, <3>1 DEF Held
  <2>3. CASE job' = [job EXCEPT ![c].left = <<Owner[c]>>, ![c].who = c]
    <3>1. job'[c].left = <<Owner[c]>> /\ \A d \in Conn \ {c} : job'[d] = job[d]
      BY <1>2, <2>3, SMT DEF Job
    <3> QED
      BY <3>1, SMT DEF Held, Range
  <2>4. CASE job' = [job EXCEPT ![c] = NoJob]
    <3>1. job'[c].left = <<>> /\ \A d \in Conn \ {c} : job'[d] = job[d]
      BY <1>2, <2>4 DEF NoJob
    <3> QED
      BY <3>1, SMT DEF Held, Range
  <2> QED
    BY <2>1, <2>2, <2>3, <2>4 DEF LoadSession, Resume, AllSeated
<1>5. \A d \in Conn \ {c} : reader'[d] = reader[d] /\ closer'[d] = closer[d]
  <2>1. \/ Serve(c) \/ Redirect(c)
        \/ UNCHANGED closer /\ \E step : GoTo(c, step)
    BY DEF LoadSession, Resume, AllSeated
  <2> QED
    BY <2>1, StepMoves, ServeMoves, RedirectMoves
<1>6. SameLines(p) /\ SameWait(p)
  BY <1>1, <1>3, <1>4, <1>5, OthersMove DEF CarefulInv
<1>7. SameHome(p)
  <2> DEFINE r == job[c].room
  <2>1. CASE UNCHANGED rooms
    BY <1>1, <2>1, HomeSame DEF CarefulInv
  <2>2. CASE Resume(c) /\ rooms' = [rooms EXCEPT ![r].connected = rooms[r].connected \cup {Owner[c]}]
    <3>1. r \in DOMAIN rooms
      BY <2>2 DEF Resume, TransportInv, JobIsOwn, HasSeat
    <3>2. rooms[r].connected \cup {Owner[c]} \subseteq Player
      BY <3>1, RoomsType, TransportAssumption DEF Room
    <3>3. RoomsGrow /\ Len(rooms') = Len(rooms)
      BY <2>2, <3>1, <3>2, ConnectedChanges
    <3>4. \A s \in DOMAIN rooms : /\ p \in rooms'[s].connected <=> p \in rooms[s].connected
                                  /\ rooms'[s].life = rooms[s].life
      BY <2>2, <3>1, RoomEntry, SMT
    <3> QED
      BY <1>1, <3>3, <3>4, HomeSameRooms DEF CarefulInv
  <2> QED
    BY <2>1, <2>2 DEF LoadSession, Resume, AllSeated
<1> QED
  BY <1>6, <1>7, CarefulStays

\* The clean-up of another player's connection leaves the queue and tells the room.
LEMMA OthersLeave ==
  ASSUME TypeOK, TransportInv, TypeOK', NEW p \in Player, CarefulInv(p), NEW c \in Conn,
         Owner[c] # p, Dequeue(c) \/ Disconnect(c)
  PROVE  CarefulInv(p)'
<1>1. /\ UNCHANGED <<pending, session, current, leaving, reader, job>>
      /\ \A d \in Conn \ {c} : closer'[d] = closer[d]
  BY StepMoves DEF Dequeue, Disconnect
<1>2. \A n \in Node : Queued(p, n)' <=> Queued(p, n)
  <2>1. CASE Dequeue(c)
    <3> DEFINE m == At[c]
               s == queue[m]
    <3>1. m \in Node /\ queue \in [Node -> Seq(Player)] /\ s \in Seq(Player)
      BY TransportAssumption DEF TypeOK
    <3>2. Len(s) < 2
      BY <3>1 DEF TransportInv, MatchIsPair, Capacity
    <3>3. queue' = [queue EXCEPT ![m] = DropFirst(s, Owner[c])]
      BY <2>1 DEF Dequeue
    <3>4. p \in Range(DropFirst(s, Owner[c])) <=> p \in Range(s)
      <4>1. CASE Owner[c] \notin Range(s)
        BY <4>1 DEF DropFirst
      <4>2. CASE Owner[c] \in Range(s)
        <5>1. p \notin Range(s)
          BY <3>1, <3>2, <4>2, SMT DEF Range
        <5>2. DropFirst(s, Owner[c]) \in {s, <<>>}
          BY <3>1, <3>2, DropFromShort
        <5>3. p \notin Range(<<>>)
          BY SMT DEF Range
        <5> QED
          BY <5>1, <5>2, <5>3
      <4> QED
        BY <4>1, <4>2
    <3> HIDE DEF m, s
    <3>5. queue'[m] = DropFirst(s, Owner[c]) /\ \A n \in Node \ {m} : queue'[n] = queue[n]
      BY <3>1, <3>3
    <3> QED
      BY <3>4, <3>5 DEF Queued, s
  <2>2. CASE Disconnect(c)
    BY <2>2 DEF Disconnect, Queued
  <2> QED
    BY <2>1, <2>2
<1>3. SameLines(p) /\ SameWait(p)
  BY <1>1, <1>2, OthersMove DEF CarefulInv
<1>4. SameHome(p)
  <2>1. CASE Dequeue(c)
    BY <1>1, <2>1, HomeSame DEF CarefulInv, Dequeue
  <2>2. CASE Disconnect(c)
    <3> DEFINE r == leaving[c]
               who == IF rooms[r].life = "Gone" THEN rooms[r].connected
                      ELSE rooms[r].connected \ {Owner[c]}
    <3>1. r \in DOMAIN rooms
      BY <2>2 DEF Disconnect, TransportInv, RoomIsOwn, HasSeat
    <3>2. who \subseteq Player
      BY <3>1, RoomsType DEF Room
    <3>3. rooms' = [rooms EXCEPT ![r].connected = who]
      BY <2>2 DEF Disconnect
    <3>4. p \in who <=> p \in rooms[r].connected
      OBVIOUS
    <3> HIDE DEF who, r
    <3>5. RoomsGrow /\ Len(rooms') = Len(rooms)
      BY <3>1, <3>2, <3>3, ConnectedChanges
    <3>6. \A s \in DOMAIN rooms : /\ p \in rooms'[s].connected <=> p \in rooms[s].connected
                                  /\ rooms'[s].life = rooms[s].life
      BY <3>1, <3>3, <3>4, RoomEntry, SMT
    <3> QED
      BY <1>1, <3>5, <3>6, HomeSameRooms DEF CarefulInv
  <2> QED
    BY <2>1, <2>2
<1> QED
  BY <1>3, <1>4, CarefulStays

\* A game ends, or is collected; another
\* player's record runs out.
LEMMA OthersEnd ==
  ASSUME TypeOK, TransportInv, TypeOK', NEW p \in Player, CarefulInv(p),
         \/ \E r \in DOMAIN rooms : GameEnds(r) \/ Collect(r)
         \/ \E q \in Player \ {p} : Expire(q)
         \/ UNCHANGED vars
  PROVE  CarefulInv(p)'
<1>1. UNCHANGED <<queue, pending, current, reader, job, closer, leaving>>
  BY DEF GameEnds, Collect, Expire, vars
<1>2. SameLines(p)
  BY <1>1 DEF SameLines
<1>3. SameWait(p)
  <2>1. \A d \in Conn : InHand(p, d)' <=> InHand(p, d)
    BY <1>1 DEF InHand
  <2> QED
    BY <1>1, <2>1, WaitSame DEF CarefulInv
<1>4. SameHome(p)
  <2>1. CASE UNCHANGED <<rooms, session>>
    BY <2>1, HomeSame DEF CarefulInv
  <2>2. ASSUME NEW q \in Player \ {p}, Expire(q)
        PROVE  SameHome(p)
    <3>1. UNCHANGED rooms /\ session'[p] = session[p]
      BY <2>2 DEF Expire, TypeOK
    <3> QED
      BY <3>1, HomeSame DEF CarefulInv
  <2>3. ASSUME NEW r \in DOMAIN rooms, NEW life \in {"Finished", "Gone"},
               rooms' = [rooms EXCEPT ![r].life = life], UNCHANGED session
        PROVE  SameHome(p)
    <3>1. RoomsGrow /\ Len(rooms') = Len(rooms)
      BY <2>3, LifeChanges
    <3>2. \A s \in DOMAIN rooms :
            /\ rooms'[s].life = IF s = r THEN life ELSE rooms[s].life
            /\ rooms'[s].connected = rooms[s].connected
      BY <2>3, RoomEntry
    <3>3. \A s \in DOMAIN rooms : /\ p \in rooms'[s].connected <=> p \in rooms[s].connected
                                  /\ rooms'[s].life = "Active" => rooms[s].life = "Active"
      BY <3>2
    <3> QED
      BY <2>3, <3>1, <3>3, HomeSameRooms DEF CarefulInv
  <2> QED
    BY <2>1, <2>2, <2>3 DEF GameEnds, Collect, vars
<1> QED
  BY <1>2, <1>3, <1>4, CarefulStays

-----------------------------------------------------------------------------
(* The match. *)

\* A sequence of at most one element.
LEMMA ShortSeq ==
  ASSUME NEW S, NEW s \in Seq(S), Len(s) < 2
  PROVE  (s = <<>> /\ Range(s) = {}) \/ \E x \in S : s = <<x>> /\ Range(s) = {x}
<1>1. Len(s) \in Nat /\ DOMAIN s = 1..Len(s) /\ \A i \in 1..Len(s) : s[i] \in S
  BY SMT
<1>2. Len(s) = 0 \/ Len(s) = 1
  BY <1>1, SMT
<1>3. CASE Len(s) = 0
  <2>1. s = <<>>
    BY <1>3, NoEntry
  <2> QED
    BY <2>1, SMT DEF Range
<1>4. CASE Len(s) = 1
  <2>1. DOMAIN s = {1} /\ s[1] \in S
    BY <1>1, <1>4, SMT
  <2>2. s = <<s[1]>>
    BY <1>4, <2>1, SameEntries, SMT
  <2>3. Range(s) = {s[1]}
    BY <2>1 DEF Range
  <2> QED
    BY <2>1, <2>2, <2>3
<1> QED
  BY <1>2, <1>3, <1>4

\* Queues of at most two players.
LEMMA PairSeq ==
  ASSUME NEW x \in Player, NEW y \in Player
  PROVE  /\ Append(<<>>, y) = <<y>> /\ Range(<<y>>) = {y} /\ Range(<<>>) = {}
         /\ Append(<<x>>, y) = <<x, y>> /\ Len(<<x, y>>) = 2 /\ Len(<<y>>) = 1
         /\ SubSeq(<<x, y>>, 1, 2) = <<x, y>> /\ SubSeq(<<x, y>>, 3, 2) = <<>>
         /\ Range(<<x, y>>) = {x, y}
<1>1. <<x, y>> \in Seq(Player) /\ Len(<<x, y>>) = 2 /\ Len(<<y>>) = 1
  BY SMT
<1>2. SubSeq(<<x, y>>, 1, 2) = <<x, y>> /\ SubSeq(<<x, y>>, 3, 2) = <<>>
  <2> DEFINE t == <<x, y>>
  <2>1. t \in Seq(Player) /\ Len(t) = 2
    BY <1>1
  <2> HIDE DEF t
  <2>2. SubSeq(t, 1, 2) = t
    BY <2>1, AllOfIt
  <2>3. SubSeq(t, 3, 2) = <<>>
    BY NothingBetween, SMT
  <2> QED
    BY <2>2, <2>3 DEF t
<1>3. Append(<<>>, y) = <<y>> /\ Append(<<x>>, y) = <<x, y>>
  <2>1. <<>> \in Seq(Player) /\ Len(<<>>) = 0 /\ <<x>> \in Seq(Player) /\ Len(<<x>>) = 1
    BY SMT
  <2>2. Append(<<>>, y) = <<y>>
    <3>1. Append(<<>>, y) \in Seq(Player) /\ Len(Append(<<>>, y)) = 1 /\ Append(<<>>, y)[1] = y
      BY <2>1, OneMore, SMT
    <3> QED
      BY <3>1, SameEntries, SMT
  <2>3. Append(<<x>>, y) = <<x, y>>
    <3>1. /\ Append(<<x>>, y) \in Seq(Player) /\ Len(Append(<<x>>, y)) = 2
          /\ Append(<<x>>, y)[1] = x /\ Append(<<x>>, y)[2] = y
      BY <2>1, OneMore, SMT
    <3>2. \A i \in 1..2 : Append(<<x>>, y)[i] = <<x, y>>[i]
      BY <3>1, SMT
    <3>3. Len(Append(<<x>>, y)) = 2 /\ Len(<<x, y>>) = 2
      BY <1>1, <3>1
    <3> QED
      BY <1>1, <3>1, <3>2, <3>3, SameEntries
  <2> QED
    BY <2>2, <2>3
<1>4. \A s \in Seq(Player) : Range(s) = {s[i] : i \in 1..Len(s)}
  BY SMT DEF Range
<1>5. 1..0 = {} /\ 1..1 = {1} /\ 1..2 = {1, 2}
  BY SMT
<1>6. Range(<<>>) = {}
  BY <1>5, SMT DEF Range
<1>7. Range(<<y>>) = {y}
  <2>1. <<y>> \in Seq(Player) /\ <<y>>[1] = y
    BY SMT
  <2>2. Range(<<y>>) = {<<y>>[i] : i \in {1}}
    BY <1>1, <1>4, <1>5, <2>1
  <2> QED
    BY <2>1, <2>2
<1>8. Range(<<x, y>>) = {x, y}
  <2>1. <<x, y>>[1] = x /\ <<x, y>>[2] = y
    BY SMT
  <2>2. Range(<<x, y>>) = {<<x, y>>[i] : i \in {1, 2}}
    BY <1>1, <1>4, <1>5
  <2> QED
    BY <2>1, <2>2
<1> QED
  BY <1>1, <1>2, <1>3, <1>6, <1>7, <1>8

\* The matchmaker refuses, notes the first player of a pair, or hands out the pair.
LEMMA EnqueueFacts ==
  ASSUME TypeOK, TransportInv, NEW c \in Conn, Enqueue(c)
  PROVE  /\ \A d \in Conn \ {c} : reader'[d] = reader[d] /\ job'[d] = job[d]
         /\ \A n \in Node \ {At[c]} : queue'[n] = queue[n]
         /\ \/ /\ Owner[c] \in Range(queue[At[c]]) /\ UNCHANGED <<queue, job>>
               /\ reader'[c] = "serving"
            \/ /\ Range(queue[At[c]]) = {} /\ Range(queue'[At[c]]) = {Owner[c]}
               /\ UNCHANGED job /\ reader'[c] = "serving"
            \/ \E x \in Player \ {Owner[c]} :
                 /\ Range(queue[At[c]]) = {x} /\ Range(queue'[At[c]]) = {}
                 /\ job'[c].left = <<x, Owner[c]>> /\ reader'[c] = "create"
<1> DEFINE n == At[c]
           q == Owner[c]
           s == queue[n]
<1>1. /\ queue \in [Node -> Seq(Player)] /\ n \in Node /\ q \in Player /\ s \in Seq(Player)
      /\ job \in [Conn -> Job] /\ job[c] \in Job
  BY TransportAssumption DEF TypeOK
<1>2. Len(s) < 2
  BY <1>1 DEF TransportInv, MatchIsPair, Capacity
<1>3. (s = <<>> /\ Range(s) = {}) \/ \E x \in Player : s = <<x>> /\ Range(s) = {x}
  BY <1>1, <1>2, ShortSeq
<1>4. Append(<<>>, q) = <<q>> /\ Range(<<q>>) = {q} /\ Range(<<>>) = {} /\ Len(<<q>>) = 1
  BY <1>1, PairSeq
<1>5. /\ \A d \in Conn \ {c} : reader'[d] = reader[d] /\ job'[d] = job[d]
      /\ \A m \in Node \ {n} : queue'[m] = queue[m]
  <2>1. \E step : GoTo(c, step)
    BY DEF Enqueue
  <2>2. \A d \in Conn \ {c} : reader'[d] = reader[d]
    BY <2>1, StepMoves
  <2>3. UNCHANGED job \/ \E v : job' = [job EXCEPT ![c].left = v]
    BY DEF Enqueue
  <2>4. UNCHANGED queue \/ \E v : queue' = [queue EXCEPT ![n] = v]
    BY DEF Enqueue
  <2> QED
    BY <1>1, <2>2, <2>3, <2>4
<1>6. CASE AlreadyQueued(n, q) /\ GoTo(c, "serving") /\ UNCHANGED <<queue, job>>
  BY <1>5, <1>6, StepMoves DEF AlreadyQueued
<1>7. CASE /\ Len(Append(s, q)) < Capacity /\ queue' = [queue EXCEPT ![n] = Append(s, q)]
           /\ GoTo(c, "serving") /\ UNCHANGED job
  <2>1. CASE s = <<>> /\ Range(s) = {}
    <3>1. queue'[n] = <<q>>
      BY <1>1, <1>4, <1>7, <2>1
    <3>2. Range(s) = {} /\ Range(queue'[n]) = {q} /\ reader'[c] = "serving"
      BY <1>4, <1>7, <2>1, <3>1, StepMoves
    <3> QED
      BY <1>5, <1>7, <3>2
  <2>2. ASSUME NEW x \in Player, s = <<x>>
        PROVE  FALSE
    <3>0. x \in Player /\ q \in Player
      BY <1>1, <2>2
    <3>1. Append(<<x>>, q) = <<x, q>> /\ Len(<<x, q>>) = 2
      BY <3>0, PairSeq
    <3>2. Len(Append(s, q)) = 2
      BY <2>2, <3>1
    <3> QED
      BY <1>7, <3>2, SMT DEF Capacity
  <2> QED
    BY <1>3, <2>1, <2>2
<1>8. CASE /\ ~AlreadyQueued(n, q) /\ Len(Append(s, q)) >= Capacity
           /\ queue' = [queue EXCEPT ![n] = SubSeq(Append(s, q), Capacity + 1, Len(Append(s, q)))]
           /\ job' = [job EXCEPT ![c].left = SubSeq(Append(s, q), 1, Capacity)]
           /\ GoTo(c, "create")
  <2>1. CASE s = <<>>
    BY <1>4, <1>8, <2>1, SMT DEF Capacity
  <2>2. ASSUME NEW x \in Player, s = <<x>>, Range(s) = {x}
        PROVE  \E y \in Player \ {q} :
                 /\ Range(s) = {y} /\ Range(queue'[n]) = {}
                 /\ job'[c].left = <<y, q>> /\ reader'[c] = "create"
    <3>0. x \in Player /\ q \in Player
      BY <1>1, <2>2
    <3>1. /\ Append(<<x>>, q) = <<x, q>> /\ Len(<<x, q>>) = 2
          /\ SubSeq(<<x, q>>, 1, 2) = <<x, q>> /\ SubSeq(<<x, q>>, 3, 2) = <<>>
      BY <3>0, PairSeq
    <3>2. Append(s, q) = <<x, q>>
      BY <2>2, <3>1
    <3>3. Capacity = 2 /\ Capacity + 1 = 3
      BY SMT DEF Capacity
    <3>4. queue'[n] = <<>> /\ job'[c].left = <<x, q>>
      BY <1>1, <1>8, <3>1, <3>2, <3>3 DEF Job
    <3>5. x # q /\ reader'[c] = "create"
      BY <1>8, <2>2, StepMoves DEF AlreadyQueued
    <3> QED
      BY <1>4, <2>2, <3>4, <3>5
  <2> QED
    BY <1>3, <1>5, <2>1, <2>2
<1> QED
  BY <1>6, <1>7, <1>8 DEF Enqueue

-----------------------------------------------------------------------------
(* The player's own connection moves. *)

\* One connection of the player moves: the live one, or a new one when none is live.
LEMMA LinesMove ==
  ASSUME NEW p, LinesFit(p), NEW c \in Conn, Owner[c] = p, LineFits(c)',
         Live(c) \/ \A d \in Conn : Owner[d] = p => ~Live(d),
         \A d \in Conn \ {c} : Owner[d] = p =>
           reader'[d] = reader[d] /\ closer'[d] = closer[d] /\ current'[d] = current[d]
  PROVE  LinesFit(p)'
<1>1. \A d \in Conn \ {c} : Owner[d] = p => (Live(d)' <=> Live(d)) /\ (LineFits(d)' <=> LineFits(d))
  BY DEF Live, CleanedUp, AtRest, LineFits
<1>2. \A d \in Conn \ {c} : Owner[d] = p => ~Live(d)
  BY DEF LinesFit, OneLine
<1>3. OneLine(p)'
  BY <1>1, <1>2 DEF OneLine
<1> QED
  BY <1>1, <1>3 DEF LinesFit

\* A connection that is bound to a room, and not yet cleaned up, is live.
LEMMA BoundLive ==
  ASSUME NEW p, LinesFit(p), NEW c \in Conn, Owner[c] = p, current[c] # 0, closer[c] # "closed"
  PROVE  Live(c) /\ reader[c] \notin {"unborn", "load", "resume", "redirected"}
  BY DEF LinesFit, LineFits, Live, CleanedUp

\* The player is in nobody's hands: they stay where they are while their connections take
\* the next steps.
LEMMA HomeMoves ==
  ASSUME TypeOK, NEW p, HomeFits(p), SameHome(p),
         \A d \in Conn : ~Held(p, d) /\ ~Held(p, d)',
         \A d \in Conn : Owner[d] = p /\ Live(d)' =>
           \/ reader'[d] = "load"
           \/ /\ Live(d)
              /\ \/ reader'[d] = reader[d] /\ job'[d] = job[d]
                 \/ reader[d] \notin {"load", "redirected", "resume"},
         \A d \in Conn : Owner[d] = p /\ current[d] # 0 =>
           /\ current'[d] = current[d]
           /\ \/ closer'[d] = closer[d] /\ leaving'[d] = leaving[d]
              \/ /\ closer[d] \in {"unborn", "open", "pending", "leave"}
                 /\ closer'[d] \in {"unborn", "open", "pending", "leave", "disconnect"}
                 /\ closer'[d] = "disconnect" => leaving'[d] = current[d]
  PROVE  HomeFits(p)'
<1> SUFFICES ASSUME NEW r, Runs(p, r)'
             PROVE  SeatingIn(p, r)' \/ PlaysIn(p, r)' \/ AwayFrom(p, r)'
  BY DEF HomeFits, SameHome
<1>1. /\ Runs(p, r) /\ (p \in rooms'[r].connected <=> p \in rooms[r].connected)
      /\ session'[p] = session[p]
  BY DEF SameHome
<1>2. r # 0
  BY <1>1, RoomsType, SMT DEF Runs
<1>3. CASE PlaysIn(p, r)
  <2> DEFINE Binds(c) ==
               /\ Owner[c] = p /\ current[c] = r
               /\ \/ /\ closer[c] \in {"unborn", "open", "pending", "leave", "disconnect"}
                     /\ p \in rooms[r].connected /\ session[p].room \in {0, r}
                  \/ closer[c] = "bind" /\ p \notin rooms[r].connected
               /\ closer[c] \in {"disconnect", "bind"} => leaving[c] = r
  <2>1. PICK c \in Conn : Binds(c)
    BY <1>3 DEF PlaysIn
  <2>2. Binds(c)'
    <3>1. CASE closer'[c] = closer[c] /\ leaving'[c] = leaving[c]
      BY <1>1, <1>2, <2>1, <3>1
    <3>2. CASE /\ closer[c] \in {"unborn", "open", "pending", "leave"}
               /\ closer'[c] \in {"unborn", "open", "pending", "leave", "disconnect"}
               /\ closer'[c] = "disconnect" => leaving'[c] = current[c]
      BY <1>1, <1>2, <2>1, <3>2
    <3> QED
      BY <1>2, <2>1, <3>1, <3>2
  <2> QED
    BY <2>2 DEF PlaysIn
<1>4. CASE AwayFrom(p, r)
  BY <1>1, <1>4 DEF AwayFrom
<1> QED
  BY <1>1, <1>3, <1>4 DEF HomeFits, SeatingIn

\* The player is pending on one node.
LEMMA OnePending ==
  ASSUME TypeOK, TransportInv, NEW p \in Player, LinesFit(p), WaitFits(p),
         NEW n \in Node, pending[n][p] # None
  PROVE  \A m \in Node \ {n} : pending[m][p] = None
<1> SUFFICES ASSUME NEW m \in Node, pending[m][p] # None
             PROVE  m = n
  OBVIOUS
<1>1. /\ pending[n][p] \in Conn /\ Owner[pending[n][p]] = p
      /\ At[pending[n][p]] = n /\ Live(pending[n][p])
  BY PendingLive
<1>2. /\ pending[m][p] \in Conn /\ Owner[pending[m][p]] = p
      /\ At[pending[m][p]] = m /\ Live(pending[m][p])
  BY PendingLive
<1>3. pending[n][p] = pending[m][p]
  BY <1>1, <1>2 DEF LinesFit, OneLine
<1> QED
  BY <1>1, <1>2, <1>3

\* A player who is pending, and has no seat yet, sits in no running game.
LEMMA WaitsOutside ==
  ASSUME TypeOK, TransportInv, NEW p \in Player, CarefulInv(p),
         NEW n \in Node, pending[n][p] # None,
         \A d \in Conn : Held(p, d) => reader[d] = "create", NEW r
  PROVE  ~Runs(p, r)
<1> SUFFICES ASSUME Runs(p, r)
             PROVE  FALSE
  OBVIOUS
<1>1. LinesFit(p) /\ WaitFits(p) /\ r # 0
  BY RoomsType, SMT DEF CarefulInv, Runs
<1>2. PICK w \in Conn : w = pending[n][p] /\ Owner[w] = p /\ Live(w)
  BY <1>1, PendingLive, SMT
<1>3. /\ current[w] = 0
      /\ reader[w] \in {"enqueue", "clear", "serving"} \/ Held(p, w)
  BY <1>1, <1>2 DEF WaitFits, PendingFits
<1>4. ~SeatingIn(p, r)
  BY DEF SeatingIn
<1>5. ~PlaysIn(p, r)
  <2> SUFFICES ASSUME NEW c \in Conn, Owner[c] = p, current[c] = r, closer[c] # "closed"
               PROVE  FALSE
    BY DEF PlaysIn
  <2>1. Live(c)
    BY <1>1, BoundLive
  <2> QED
    BY <1>1, <1>2, <1>3, <2>1 DEF LinesFit, OneLine
<1>6. ~AwayFrom(p, r)
  BY <1>2, <1>3 DEF AwayFrom
<1> QED
  BY <1>4, <1>5, <1>6 DEF CarefulInv, HomeFits

\* The server holds nothing of a player who has no live connection.
LEMMA DownIdle ==
  ASSUME TypeOK, TransportInv, NEW p \in Player, LinesFit(p), WaitFits(p),
         \A c \in Conn : Owner[c] = p => ~Live(c)
  PROVE  Idle(p)
<1>1. \A n \in Node : pending[n][p] = None
  BY PendingLive, SMT
<1>2. \A d \in Conn : ~InHand(p, d)
  BY HandLive, SMT
<1>3. \A n \in Node : ~Queued(p, n)
  BY <1>1 DEF WaitFits, QueueFits
<1>4. \A d \in Conn : ~Held(p, d)
  BY <1>1, <1>2, TransportAssumption DEF WaitFits, HeldFits
<1> QED
  BY <1>1, <1>3, <1>4 DEF Idle

\* A goroutine has taken the player from the queue, and is about to create the room.
LEMMA TakenWaits ==
  ASSUME TypeOK, TransportInv, TypeOK', NEW p \in Player, LinesFit(p), WaitFits(p), NEW c \in Conn,
         NEW w \in Conn, pending[At[c]][p] = w, w = c \/ (Owner[c] # p /\ reader[w] = "serving"),
         \A d \in Conn : ~Held(p, d), UNCHANGED <<pending, closer, current>>,
         \A d \in Conn \ {c} : reader'[d] = reader[d] /\ job'[d] = job[d],
         reader'[c] = "create", \A n \in Node : ~Queued(p, n)',
         NEW x \in Player, x # p, job'[c].left \in {<<x, p>>, <<p, x>>}
  PROVE  WaitFits(p)'
<1>1. Held(p, c)' /\ \A d \in Conn \ {c} : ~Held(p, d)'
  <2>1. Range(<<x, p>>) = {x, p} /\ Range(<<p, x>>) = {p, x}
    BY PairSeq
  <2>2. Range(job'[c].left) = {x, p}
    BY <2>1
  <2> QED
    BY <2>2 DEF Held
<1>2. \A d \in Conn : ~InHand(p, d)'
  <2>1. ~InHand(p, c)'
    BY DEF InHand, Handing
  <2>2. ASSUME NEW d \in Conn \ {c}
        PROVE  ~InHand(p, d)'
    <3>1. ~InHand(p, d)
      BY HandHeld
    <3> QED
      BY <3>1 DEF InHand
  <2> QED
    BY <2>1, <2>2
<1>3. At[c] \in Node /\ w # None
  BY TransportAssumption
<1>4. \A m \in Node \ {At[c]} : pending[m][p] = None
  BY <1>3, OnePending
<1>5. closer[w] = "open" /\ current[w] = 0
  BY <1>3 DEF WaitFits, PendingFits
<1>6. PendingFits(p)'
  <2>1. \A n \in Node : pending'[n][p] # None => n = At[c] /\ pending'[n][p] = w
    BY <1>4
  <2>2. w = c \/ reader'[w] = "serving"
    OBVIOUS
  <2>3. /\ closer'[w] = "open" /\ current'[w] = 0
        /\ reader'[w] \in {"enqueue", "clear", "serving"} \/ Held(p, w)'
        /\ \A d \in Conn : Held(p, d)' =>
             At[d] = At[c] /\ ~InHand(p, d)' /\ (d = w \/ reader'[w] = "serving")
    BY <1>1, <1>2, <1>5, <2>2
  <2> QED
    BY <1>1, <2>1, <2>3 DEF PendingFits
<1>7. HeldFits(p)'
  <2>1. \A i, j \in DOMAIN job'[c].left : job'[c].left[i] = p /\ job'[c].left[j] = p => i = j
    <3>1. CASE job'[c].left = <<x, p>>
      BY <3>1, SMT
    <3>2. CASE job'[c].left = <<p, x>>
      BY <3>2, SMT
    <3> QED
      BY <3>1, <3>2
  <2>2. \A d \in Conn \ {c} : \A i \in DOMAIN job'[d].left : job'[d].left[i] # p
    BY <1>1 DEF Held, Range
  <2>3. \A d \in Conn : \A i, j \in DOMAIN job'[d].left :
          job'[d].left[i] = p /\ job'[d].left[j] = p => i = j
    BY <2>1, <2>2
  <2>4. \A d \in Conn : Held(p, d)' => /\ reader'[d] \in Handing \cup {"create", "seat"}
                                       /\ InHand(p, d)' \/ pending'[At[d]][p] # None
    BY <1>1, <1>3
  <2>5. \A d, e \in Conn : Held(p, d)' /\ Held(p, e)' => d = e
    BY <1>1
  <2> QED
    BY <2>3, <2>4, <2>5 DEF HeldFits
<1>8. QueueFits(p)' /\ HandFits(p)'
  BY <1>2 DEF QueueFits, HandFits
<1>9. AskFits(p)'
  <2> SUFFICES ASSUME NEW d \in Conn, Owner[d] = p
               PROVE  /\ reader'[d] = "enqueue" => pending'[At[d]][p] = d
                      /\ reader'[d] = "create" => Held(p, d)'
    BY DEF AskFits
  <2>1. CASE d = c
    BY <1>1, <2>1
  <2>2. CASE d # c
    BY <2>2 DEF WaitFits, AskFits
  <2> QED
    BY <2>1, <2>2
<1> QED
  BY <1>6, <1>7, <1>8, <1>9 DEF WaitFits

\* Nothing changes in the rooms, and the player sits in no running game.
LEMMA HomeOutside ==
  ASSUME NEW p, HomeFits(p), UNCHANGED rooms, \A r : ~Runs(p, r)
  PROVE  HomeFits(p)'
  BY DEF HomeFits, Runs, Seated

\* Another player's request takes this player from the queue, or leaves them alone.
LEMMA OthersEnqueue ==
  ASSUME TypeOK, TransportInv, TypeOK', NEW p \in Player, CarefulInv(p), NEW c \in Conn,
         Owner[c] # p, Enqueue(c)
  PROVE  CarefulInv(p)'
<1>1. UNCHANGED <<pending, rooms, hub, session, current, closer, leaving, crashed>>
  BY DEF Enqueue
<1>2. LinesFit(p) /\ WaitFits(p) /\ HomeFits(p) /\ At[c] \in Node /\ Owner[c] \in Player
  BY TransportAssumption DEF CarefulInv
<1>3. /\ \A d \in Conn \ {c} : reader'[d] = reader[d] /\ job'[d] = job[d]
      /\ \A n \in Node \ {At[c]} : queue'[n] = queue[n]
  BY EnqueueFacts
<1>4. ~Held(p, c)
  BY <1>2, HoldsNobody DEF Enqueue, Handing
<1>5. CASE /\ Range(queue'[At[c]]) \ {Owner[c]} = Range(queue[At[c]]) \ {Owner[c]}
           /\ UNCHANGED job
  <2>1. \A n \in Node : Queued(p, n)' <=> Queued(p, n)
    BY <1>3, <1>5 DEF Queued
  <2>2. ~Held(p, c)'
    BY <1>4, <1>5 DEF Held
  <2>3. SameLines(p) /\ SameWait(p)
    BY <1>1, <1>2, <1>3, <1>4, <2>1, <2>2, OthersMove
  <2>4. SameHome(p)
    BY <1>1, <1>2, HomeSame
  <2> QED
    BY <2>3, <2>4, CarefulStays
<1>6. ASSUME NEW x \in Player \ {Owner[c]}, Range(queue[At[c]]) = {x}, Range(queue'[At[c]]) = {},
             job'[c].left = <<x, Owner[c]>>, reader'[c] = "create"
      PROVE  CarefulInv(p)'
  <2>1. CASE x # p
    <3>1. Range(<<x, Owner[c]>>) = {x, Owner[c]}
      BY <1>2, PairSeq
    <3>2. ~Held(p, c)'
      BY <1>6, <2>1, <3>1 DEF Held
    <3>3. \A n \in Node : Queued(p, n)' <=> Queued(p, n)
      BY <1>3, <1>6, <2>1 DEF Queued
    <3>4. SameLines(p) /\ SameWait(p)
      BY <1>1, <1>2, <1>3, <1>4, <3>2, <3>3, OthersMove
    <3>5. SameHome(p)
      BY <1>1, <1>2, HomeSame
    <3> QED
      BY <3>4, <3>5, CarefulStays
  <2>2. CASE x = p
    <3>1. Queued(p, At[c])
      BY <1>6, <2>2 DEF Queued
    <3>2. pending[At[c]][p] # None /\ \A d \in Conn : ~Held(p, d)
      BY <1>2, <3>1 DEF WaitFits, QueueFits
    <3>3. PICK w \in Conn : w = pending[At[c]][p]
      BY <1>2, <3>2, PendingLive, SMT
    <3>4. reader[w] = "serving"
      BY <1>2, <3>1, <3>2, <3>3 DEF WaitFits, PendingFits
    <3>5. \A m \in Node \ {At[c]} : pending[m][p] = None
      BY <1>2, <3>2, OnePending
    <3>6. \A n \in Node : ~Queued(p, n)'
      BY <1>2, <1>3, <1>6, <3>5 DEF Queued, WaitFits, QueueFits
    <3>7. WaitFits(p)'
      BY <1>1, <1>2, <1>3, <1>6, <2>2, <3>2, <3>3, <3>4, <3>6, TakenWaits
    <3>8. LinesFit(p)'
      <4>1. SameLines(p)
        BY <1>1, <1>3 DEF SameLines
      <4> QED
        BY <1>2, <4>1, LinesStay
    <3>9. HomeFits(p)'
      <4>1. \A r : ~Runs(p, r)
        BY <1>2, <3>2, WaitsOutside
      <4> QED
        BY <1>1, <1>2, <4>1, HomeOutside
    <3> QED
      BY <3>7, <3>8, <3>9 DEF CarefulInv
  <2> QED
    BY <2>1, <2>2
<1> QED
  BY <1>5, <1>6, EnqueueFacts

\* A player who is about to be queued, or to be told of a failure, is not queued and in
\* nobody's hands.
LEMMA AskAlone ==
  ASSUME TypeOK, TransportInv, NEW p \in Player, LinesFit(p), WaitFits(p), NEW c \in Conn,
         Owner[c] = p, reader[c] \in {"enqueue", "clear"}
  PROVE  /\ Live(c) /\ closer[c] = "open" /\ current[c] = 0
         /\ \A n \in Node : ~Queued(p, n)
         /\ \A d \in Conn : ~Held(p, d)
<1>1. Live(c) /\ closer[c] = "open" /\ current[c] = 0
  BY DEF Live, CleanedUp, AtRest, LinesFit, LineFits
<1>2. \A d \in Conn : Owner[d] = p /\ Live(d) => d = c
  BY <1>1 DEF LinesFit, OneLine
<1>3. \A n \in Node : pending[n][p] # None => pending[n][p] = c
  BY <1>2, PendingLive, SMT
<1>4. \A n \in Node : ~Queued(p, n)
  BY <1>3 DEF WaitFits, QueueFits, PendingFits
<1>5. ASSUME NEW d \in Conn, Held(p, d)
      PROVE  FALSE
  <2>1. d # c
    BY <1>5 DEF WaitFits, HeldFits, Handing
  <2>2. CASE InHand(p, d)
    <3>1. job[d].who = c
      BY <1>2, <2>2, HandLive, SMT
    <3> QED
      BY <2>1, <2>2, <3>1 DEF WaitFits, HandFits
  <2>3. CASE pending[At[d]][p] # None
    <3>1. At[d] \in Node /\ pending[At[d]][p] = c
      BY <1>3, <2>3, TransportAssumption
    <3>2. d = c \/ reader[c] = "serving"
      BY <1>5, <2>3, <3>1 DEF WaitFits, PendingFits
    <3> QED
      BY <2>1, <3>2
  <2> QED
    BY <1>5, <2>2, <2>3 DEF WaitFits, HeldFits
<1> QED
  BY <1>1, <1>4, <1>5

\* The player's own request queues them, or completes a match.
LEMMA OwnEnqueue ==
  ASSUME TypeOK, TransportInv, TypeOK', NEW p \in Player, CarefulInv(p), NEW c \in Conn,
         Owner[c] = p, Enqueue(c)
  PROVE  CarefulInv(p)'
<1>1. UNCHANGED <<pending, rooms, hub, session, current, closer, leaving, crashed>>
  BY DEF Enqueue
<1>2. LinesFit(p) /\ WaitFits(p) /\ HomeFits(p) /\ At[c] \in Node /\ reader[c] = "enqueue" /\ c # None
  BY TransportAssumption DEF CarefulInv, Enqueue
<1>3. /\ Live(c) /\ closer[c] = "open" /\ current[c] = 0
      /\ \A n \in Node : ~Queued(p, n)
      /\ \A d \in Conn : ~Held(p, d)
  BY <1>2, AskAlone
<1>4. pending[At[c]][p] = c
  BY <1>2 DEF WaitFits, AskFits
<1>5. /\ \A d \in Conn \ {c} : reader'[d] = reader[d] /\ job'[d] = job[d]
      /\ \A n \in Node \ {At[c]} : queue'[n] = queue[n]
  BY EnqueueFacts
<1>6. reader'[c] \in {"serving", "create"}
  BY EnqueueFacts
<1>7. LinesFit(p)'
  <2>1. LineFits(c)'
    BY <1>1, <1>3, <1>6 DEF LineFits, Handing
  <2> QED
    BY <1>1, <1>2, <1>3, <1>5, <2>1, LinesMove
<1>8. HomeFits(p)'
  <2>1. \A r : ~Runs(p, r)
    BY <1>2, <1>3, <1>4, WaitsOutside
  <2> QED
    BY <1>1, <1>2, <2>1, HomeOutside
<1>9. \A m \in Node \ {At[c]} : pending[m][p] = None
  BY <1>2, <1>4, OnePending
<1>10. CASE Range(queue'[At[c]]) = {Owner[c]} /\ UNCHANGED job /\ reader'[c] = "serving"
  <2>1. \A d \in Conn : ~Held(p, d)'
    BY <1>3, <1>10 DEF Held
  <2>2. \A d \in Conn : ~InHand(p, d)'
    <3>1. \A d \in Conn : ~InHand(p, d)
      BY <1>3, HandHeld
    <3> QED
      BY <1>5, <1>10, <3>1 DEF InHand, Handing
  <2>3. Queued(p, At[c])' /\ \A m \in Node \ {At[c]} : ~Queued(p, m)'
    BY <1>3, <1>5, <1>10 DEF Queued
  <2>4. QueueFits(p)' /\ HandFits(p)'
    BY <1>1, <1>2, <1>4, <2>1, <2>2, <2>3 DEF QueueFits, HandFits
  <2>5. PendingFits(p)'
    <3>1. \A n \in Node : pending'[n][p] # None => n = At[c] /\ pending'[n][p] = c
      BY <1>1, <1>4, <1>9
    <3>2. closer'[c] = "open" /\ current'[c] = 0
      BY <1>1, <1>3
    <3> QED
      BY <1>10, <2>1, <2>3, <3>1, <3>2 DEF PendingFits
  <2>6. HeldFits(p)'
    BY <2>1 DEF HeldFits, Held, Range
  <2>7. AskFits(p)'
    BY <1>1, <1>2, <1>5, <1>10, <1>3 DEF WaitFits, AskFits
  <2> QED
    BY <1>7, <1>8, <2>4, <2>5, <2>6, <2>7 DEF CarefulInv, WaitFits
<1>11. ASSUME NEW x \in Player \ {Owner[c]}, Range(queue'[At[c]]) = {},
              job'[c].left = <<x, Owner[c]>>, reader'[c] = "create"
       PROVE  CarefulInv(p)'
  <2>1. \A n \in Node : ~Queued(p, n)'
    BY <1>3, <1>5, <1>11 DEF Queued
  <2>2. WaitFits(p)'
    BY <1>1, <1>2, <1>3, <1>4, <1>5, <1>11, <2>1, TakenWaits
  <2> QED
    BY <1>7, <1>8, <2>2 DEF CarefulInv
<1>12. Owner[c] \notin Range(queue[At[c]])
  BY <1>2, <1>3 DEF Queued
<1> QED
  BY <1>10, <1>11, <1>12, EnqueueFacts

\* The player's own request has failed, and is forgotten.
LEMMA OwnClear ==
  ASSUME TypeOK, TransportInv, TypeOK', NEW p \in Player, CarefulInv(p), NEW c \in Conn,
         Owner[c] = p, ClearPending(c)
  PROVE  CarefulInv(p)'
<1>1. /\ UNCHANGED <<queue, rooms, hub, session, current, job, closer, leaving, crashed>>
      /\ pending' = [pending EXCEPT ![At[c]][Owner[c]] = None] /\ reader[c] = "clear"
  BY DEF ClearPending
<1>2. LinesFit(p) /\ WaitFits(p) /\ HomeFits(p) /\ At[c] \in Node /\ c # None
  BY TransportAssumption DEF CarefulInv
<1>3. /\ Live(c) /\ closer[c] = "open" /\ current[c] = 0
      /\ \A n \in Node : ~Queued(p, n)
      /\ \A d \in Conn : ~Held(p, d)
  BY <1>1, <1>2, AskAlone
<1>4. reader'[c] = "serving" /\ \A d \in Conn \ {c} : reader'[d] = reader[d]
  BY StepMoves DEF ClearPending
<1>5. LinesFit(p)'
  <2>1. LineFits(c)'
    BY <1>1, <1>3, <1>4 DEF LineFits, Handing
  <2> QED
    BY <1>1, <1>2, <1>3, <1>4, <2>1, LinesMove
<1>6. Idle(p)'
  <2>1. \A n \in Node : pending'[n][p] = None
    <3>1. /\ pending'[At[c]][p] = None
          /\ \A n \in Node : n # At[c] => pending'[n][p] = pending[n][p]
      <4>1. pending' = [pending EXCEPT ![At[c]][p] = None]
        BY <1>1
      <4>2. pending \in [Node -> [Player -> Conn \cup {None}]]
        BY DEF TypeOK
      <4> QED
        BY <1>2, <4>1, <4>2, SMT
    <3>2. \A n \in Node : pending[n][p] # None => n = At[c]
      <4> SUFFICES ASSUME NEW n \in Node, pending[n][p] # None
                   PROVE  n = At[c]
        OBVIOUS
      <4>1. /\ pending[n][p] \in Conn /\ Owner[pending[n][p]] = p
            /\ At[pending[n][p]] = n /\ Live(pending[n][p])
        BY <1>2, PendingLive
      <4> QED
        BY <1>2, <1>3, <4>1 DEF LinesFit, OneLine
    <3> QED
      BY <3>1, <3>2
  <2> QED
    BY <1>1, <1>3, <2>1 DEF Idle, Queued, Held
<1>7. WaitFits(p)'
  <2>1. \A d \in Conn : Owner[d] = p => reader[d] # "create" /\ (reader[d] = "enqueue" => d = c)
    BY <1>2, <1>3, AskAlone DEF LinesFit, OneLine, WaitFits, AskFits
  <2>2. \A d \in Conn : Owner[d] = p => reader'[d] \notin {"enqueue", "create"}
    BY <1>4, <2>1
  <2> QED
    BY <1>6, <2>2, IdleWaits
<1>8. HomeFits(p)'
  <2>1. SameHome(p) /\ \A d \in Conn : ~Held(p, d)'
    BY <1>1, <1>2, <1>3, HomeSame DEF Held
  <2>2. \A d \in Conn : Owner[d] = p /\ Live(d)' =>
          Live(d) /\ (reader'[d] = reader[d] \/ reader[d] = "clear")
    BY <1>1, <1>3, <1>4 DEF Live, CleanedUp, AtRest
  <2> QED
    BY <1>1, <1>2, <1>3, <2>1, <2>2, HomeMoves
<1> QED
  BY <1>5, <1>7, <1>8 DEF CarefulInv

\* A room is created without the player.
LEMMA OthersCreate ==
  ASSUME TypeOK, TransportInv, TypeOK', NEW p \in Player, CarefulInv(p), NEW c \in Conn,
         CreateRoom(c), ~Held(p, c)
  PROVE  CarefulInv(p)'
<1>1. UNCHANGED <<queue, pending, hub, session, current, closer, leaving, crashed>>
  BY DEF CreateRoom
<1>2. LinesFit(p) /\ WaitFits(p) /\ HomeFits(p) /\ job \in [Conn -> Job] /\ job[c] \in Job
  BY DEF CarefulInv, TypeOK
<1>3. Owner[c] # p
  BY <1>2 DEF CreateRoom, WaitFits, AskFits
<1>4. \A d \in Conn \ {c} : reader'[d] = reader[d] /\ job'[d] = job[d]
  <2>1. \A d \in Conn \ {c} : reader'[d] = reader[d]
    BY StepMoves DEF CreateRoom
  <2> QED
    BY <1>2, <2>1 DEF CreateRoom
<1>5. ~Held(p, c)'
  <2>1. CASE job' = [job EXCEPT ![c].room = Len(rooms) + 1]
    <3>1. job'[c].left = job[c].left
      BY <1>2, <2>1 DEF Job
    <3> QED
      BY <3>1 DEF Held
  <2>2. CASE job' = [job EXCEPT ![c] = NoJob]
    <3>1. job'[c].left = <<>>
      BY <1>2, <2>2 DEF NoJob
    <3> QED
      BY <3>1, SMT DEF Held, Range
  <2> QED
    BY <2>1, <2>2 DEF CreateRoom
<1>6. SameLines(p) /\ SameWait(p)
  <2>1. \A n \in Node : Queued(p, n)' <=> Queued(p, n)
    BY <1>1 DEF Queued
  <2> QED
    BY <1>1, <1>2, <1>3, <1>4, <1>5, <2>1, OthersMove
<1>7. SameHome(p)
  <2>1. CASE UNCHANGED rooms
    BY <1>1, <1>2, <2>1, HomeSame
  <2>2. CASE /\ Len(rooms) < MaxRooms
             /\ rooms' = Append(rooms, [players |-> job[c].left, connected |-> Range(job[c].left),
                                        life |-> "Active", node |-> At[c]])
    <3>0. PICK new : new = Len(rooms) + 1
      OBVIOUS
    <3>1. /\ RoomsGrow /\ Len(rooms') = new /\ rooms'[new].players = job[c].left
          /\ rooms'[new].connected = Range(job[c].left)
          /\ \A s \in 1..Len(rooms) : rooms'[s] = rooms[s]
      BY <2>2, <3>0, CreateRooms
    <3>2. DOMAIN rooms' = 1..new /\ DOMAIN rooms = 1..Len(rooms) /\ Len(rooms) \in Nat
      BY <3>1, RoomsType, SMT DEF RoomsGrow
    <3>3. \A s \in DOMAIN rooms' : s = new \/ s \in DOMAIN rooms
      BY <3>0, <3>2, SMT
    <3>4. p \notin rooms'[new].connected /\ ~Seated(p, new)'
      BY <3>1 DEF Held, Seated
    <3>5. \A s \in DOMAIN rooms : rooms'[s] = rooms[s]
      BY <3>1, <3>2
    <3>6. \A s \in DOMAIN rooms : Seated(p, s)' <=> Seated(p, s)
      BY <3>5 DEF Seated
    <3> QED
      BY <1>1, <1>2, <3>3, <3>4, <3>5, <3>6 DEF SameHome, HomeFits, Runs
  <2> QED
    BY <2>1, <2>2 DEF CreateRoom
<1> QED
  BY <1>6, <1>7, CarefulStays

\* The player's room is created, or their own request fails.
LEMMA OwnCreate ==
  ASSUME TypeOK, TransportInv, TypeOK', NEW p \in Player, Careful(p), CarefulInv(p), NEW c \in Conn,
         CreateRoom(c), Held(p, c)
  PROVE  CarefulInv(p)'
<1>1. /\ UNCHANGED <<queue, pending, hub, session, current, closer, leaving, crashed>>
      /\ reader[c] = "create"
  BY DEF CreateRoom
<1>2. /\ LinesFit(p) /\ WaitFits(p) /\ HomeFits(p) /\ job \in [Conn -> Job] /\ job[c] \in Job
      /\ At[c] \in Node
  BY TransportAssumption DEF CarefulInv, TypeOK
<1>3. \A d \in Conn \ {c} : ~Held(p, d)
  BY <1>2 DEF WaitFits, HeldFits
<1>4. pending[At[c]][p] # None /\ ~InHand(p, c)
  BY <1>1, <1>2 DEF WaitFits, HeldFits, InHand, Handing
<1>5. PICK w \in Conn : w = pending[At[c]][p] /\ Owner[w] = p /\ Live(w)
  BY <1>2, <1>4, PendingLive, SMT
<1>6. closer[w] = "open" /\ current[w] = 0 /\ (w = c \/ reader[w] = "serving")
  BY <1>2, <1>4, <1>5 DEF WaitFits, PendingFits
<1>7. \A m \in Node \ {At[c]} : pending[m][p] = None
  BY <1>2, <1>4, OnePending
<1>8. \A n \in Node : ~Queued(p, n)
  BY <1>2 DEF WaitFits, QueueFits
<1>9. \A r : ~Runs(p, r)
  BY <1>1, <1>2, <1>3, <1>4, WaitsOutside
<1>10. \A d \in Conn \ {c} : reader'[d] = reader[d] /\ job'[d] = job[d]
  <2>1. \A d \in Conn \ {c} : reader'[d] = reader[d]
    BY StepMoves DEF CreateRoom
  <2> QED
    BY <1>2, <2>1 DEF CreateRoom
<1>11. reader'[c] \in {"seat", "clear"}
  BY StepMoves DEF CreateRoom
<1>12. Owner[c] = p => Live(c) /\ closer[c] = "open" /\ current[c] = 0
  BY <1>1, <1>2 DEF LinesFit, LineFits, Live, CleanedUp, AtRest
<1>13. LinesFit(p)'
  <2>1. CASE Owner[c] = p
    <3>1. LineFits(c)'
      BY <1>1, <1>11, <1>12, <2>1 DEF LineFits, Handing
    <3> QED
      BY <1>1, <1>2, <1>10, <1>12, <2>1, <3>1, LinesMove
  <2>2. CASE Owner[c] # p
    <3>1. SameLines(p)
      BY <1>1, <1>10, <2>2 DEF SameLines
    <3> QED
      BY <1>2, <3>1, LinesStay
  <2> QED
    BY <2>1, <2>2
<1>14. \A n \in Node : ~Queued(p, n)' /\ (pending'[n][p] # None => n = At[c] /\ pending'[n][p] = w)
  BY <1>1, <1>5, <1>7, <1>8 DEF Queued
<1>15. CASE /\ Len(rooms) < MaxRooms
            /\ rooms' = Append(rooms, [players |-> job[c].left, connected |-> Range(job[c].left),
                                       life |-> "Active", node |-> At[c]])
            /\ job' = [job EXCEPT ![c].room = Len(rooms) + 1]
            /\ GoTo(c, "seat")
  <2>0. PICK new : new = Len(rooms) + 1
    OBVIOUS
  <2>1. job'[c].left = job[c].left /\ job'[c].room = new /\ reader'[c] = "seat"
    BY <1>2, <1>15, <2>0, StepMoves DEF Job
  <2>2. Held(p, c)' /\ \A d \in Conn \ {c} : ~Held(p, d)'
    BY <1>3, <1>10, <2>1 DEF Held
  <2>3. \A d \in Conn : ~InHand(p, d)'
    <3>1. ~InHand(p, c)'
      BY <2>1 DEF InHand, Handing
    <3>2. \A d \in Conn \ {c} : ~InHand(p, d)'
      BY <2>2, HandHeldNext
    <3> QED
      BY <3>1, <3>2
  <2>4. PendingFits(p)'
    <3>1. closer'[w] = "open" /\ current'[w] = 0 /\ (w = c \/ reader'[w] = "serving")
      BY <1>1, <1>6, <1>10
    <3> QED
      BY <1>14, <2>2, <2>3, <3>1 DEF PendingFits
  <2>5. QueueFits(p)' /\ HandFits(p)'
    BY <1>14, <2>3 DEF QueueFits, HandFits
  <2>6. HeldFits(p)'
    <3>1. \A d \in Conn : job'[d].left = job[d].left
      BY <1>10, <2>1
    <3>2. \A d \in Conn : \A i, j \in DOMAIN job'[d].left :
            job'[d].left[i] = p /\ job'[d].left[j] = p => i = j
      BY <1>2, <3>1 DEF WaitFits, HeldFits
    <3>3. \A d \in Conn : Held(p, d)' => /\ reader'[d] \in Handing \cup {"create", "seat"}
                                         /\ InHand(p, d)' \/ pending'[At[d]][p] # None
      BY <1>1, <1>4, <2>1, <2>2
    <3>4. \A d, e \in Conn : Held(p, d)' /\ Held(p, e)' => d = e
      BY <2>2
    <3> QED
      BY <3>2, <3>3, <3>4 DEF HeldFits
  <2>7. AskFits(p)'
    BY <1>1, <1>2, <1>3, <1>10, <2>1 DEF WaitFits, AskFits
  <2>8. HomeFits(p)'
    <3>1. /\ RoomsGrow /\ Len(rooms') = new /\ rooms'[new].players = job[c].left
          /\ rooms'[new].connected = Range(job[c].left)
          /\ \A s \in 1..Len(rooms) : rooms'[s] = rooms[s]
      BY <1>15, <2>0, CreateRooms
    <3>2. DOMAIN rooms' = 1..new /\ DOMAIN rooms = 1..Len(rooms) /\ Len(rooms) \in Nat
      BY <3>1, RoomsType, SMT DEF RoomsGrow
    <3>3. \A s \in DOMAIN rooms' : s = new \/ s \in DOMAIN rooms
      BY <2>0, <3>2, SMT
    <3>4. p \in rooms'[new].connected /\ Seated(p, new)'
      BY <3>1 DEF Held, Seated
    <3>5. \A s \in DOMAIN rooms : rooms'[s] = rooms[s]
      BY <3>1, <3>2
    <3>6. \A s \in DOMAIN rooms : Seated(p, s)' <=> Seated(p, s)
      BY <3>5 DEF Seated
    <3>7. SeatingIn(p, new)'
      BY <2>1, <2>2, <3>4 DEF SeatingIn
    <3>8. \A r : Runs(p, r)' => r = new
      BY <1>9, <3>3, <3>5, <3>6 DEF Runs
    <3>9. \A s \in DOMAIN rooms' : p \in rooms'[s].connected => Seated(p, s)'
      BY <1>2, <3>3, <3>4, <3>5, <3>6 DEF HomeFits
    <3> QED
      BY <3>7, <3>8, <3>9 DEF HomeFits
  <2> QED
    BY <1>13, <2>4, <2>5, <2>6, <2>7, <2>8 DEF CarefulInv, WaitFits
<1>16. CASE /\ Owner[c] \in CreateFails /\ job' = [job EXCEPT ![c] = NoJob]
            /\ GoTo(c, "clear") /\ UNCHANGED rooms
  <2>1. Owner[c] = p /\ w = c
    BY <1>2, <1>5, <1>12, <1>16 DEF Careful, LinesFit, OneLine
  <2>2. job'[c].left = <<>> /\ reader'[c] = "clear"
    BY <1>2, <1>16, StepMoves DEF NoJob
  <2>3. \A d \in Conn : ~Held(p, d)'
    <3>1. ~Held(p, c)'
      BY <2>2, SMT DEF Held, Range
    <3> QED
      BY <1>3, <1>10, <3>1 DEF Held
  <2>4. \A d \in Conn : ~InHand(p, d)'
    BY <2>3, HandHeldNext
  <2>5. PendingFits(p)'
    <3>1. closer'[c] = "open" /\ current'[c] = 0
      BY <1>1, <1>6, <2>1
    <3> QED
      BY <1>14, <2>1, <2>2, <2>3, <3>1 DEF PendingFits
  <2>6. QueueFits(p)' /\ HandFits(p)'
    BY <1>14, <2>4 DEF QueueFits, HandFits
  <2>7. HeldFits(p)'
    BY <2>3 DEF HeldFits, Held, Range
  <2>8. AskFits(p)'
    BY <1>1, <1>2, <1>3, <1>10, <2>2 DEF WaitFits, AskFits
  <2>9. HomeFits(p)'
    BY <1>2, <1>9, <1>16, HomeOutside
  <2> QED
    BY <1>13, <2>5, <2>6, <2>7, <2>8, <2>9 DEF CarefulInv, WaitFits
<1> QED
  BY <1>15, <1>16 DEF CreateRoom

-----------------------------------------------------------------------------
(* Seating. *)

\* A goroutine has done with the first of its players.
LEMMA TailHolds ==
  ASSUME TypeOK, NEW p, WaitFits(p), NEW c \in Conn, job[c].left # <<>>,
         job'[c].left = Tail(job[c].left)
  PROVE  /\ Head(job[c].left) # p => (Held(p, c)' <=> Held(p, c))
         /\ Head(job[c].left) = p => ~Held(p, c)'
         /\ \A i, j \in DOMAIN job'[c].left : job'[c].left[i] = p /\ job'[c].left[j] = p => i = j
<1> DEFINE s == job[c].left
           t == job'[c].left
<1>1. s \in Seq(Player)
  BY DEF TypeOK, Job
<1>2. \A i, j \in DOMAIN s : s[i] = p /\ s[j] = p => i = j
  BY DEF WaitFits, HeldFits
<1>3. s # <<>> /\ t = Tail(s)
  OBVIOUS
<1>4. /\ Held(p, c) <=> \E i \in DOMAIN s : s[i] = p
      /\ Held(p, c)' <=> \E i \in DOMAIN t : t[i] = p
  BY DEF Held, Range
<1> HIDE DEF s, t
<1>5. /\ 1 \in DOMAIN s /\ Head(s) = s[1] /\ DOMAIN s \subseteq Int /\ DOMAIN t \subseteq Int
      /\ \A i \in DOMAIN t : i + 1 \in DOMAIN s /\ t[i] = s[i + 1] /\ i + 1 # 1
      /\ \A i \in DOMAIN s : i # 1 => i - 1 \in DOMAIN t /\ t[i - 1] = s[i]
  <2>1. Len(s) \in Nat /\ Len(s) > 0 /\ DOMAIN s = 1..Len(s) /\ Head(s) = s[1]
    BY <1>1, <1>3, SMT
  <2>2. t \in Seq(Player) /\ Len(t) = Len(s) - 1 /\ DOMAIN t = 1..(Len(s) - 1)
    BY <1>1, <1>3, SMT
  <2>3. \A i \in 1..(Len(s) - 1) : t[i] = s[i + 1]
    BY <1>1, <1>3, SMT
  <2>4. \A i \in 1..Len(s) : i # 1 => i - 1 \in 1..(Len(s) - 1) /\ t[i - 1] = s[i]
    BY <2>1, <2>3, SMT
  <2> QED
    BY <2>1, <2>2, <2>3, <2>4, SMT
<1>6. \A i, j \in DOMAIN t : t[i] = p /\ t[j] = p => i = j
  <2> SUFFICES ASSUME NEW i \in DOMAIN t, NEW j \in DOMAIN t, t[i] = p, t[j] = p
               PROVE  i = j
    OBVIOUS
  <2>1. i + 1 = j + 1
    BY <1>2, <1>5
  <2> QED
    BY <1>5, <2>1, SMT
<1>7. Head(s) # p => (Held(p, c)' <=> Held(p, c))
  <2>1. ASSUME NEW i \in DOMAIN t, t[i] = p
        PROVE  Held(p, c)
    BY <1>4, <1>5, <2>1
  <2>2. ASSUME NEW i \in DOMAIN s, s[i] = p, Head(s) # p
        PROVE  Held(p, c)'
    <3>1. i - 1 \in DOMAIN t /\ t[i - 1] = p
      BY <1>5, <2>2
    <3> QED
      BY <1>4, <3>1
  <2> QED
    BY <1>4, <2>1, <2>2
<1>8. Head(s) = p => ~Held(p, c)'
  BY <1>2, <1>4, <1>5
<1> QED
  BY <1>6, <1>7, <1>8 DEF s, t

\* A goroutine seats another player, or registers this one.
LEMMA OthersSeat ==
  ASSUME TypeOK, TransportInv, TypeOK', NEW p \in Player, CarefulInv(p), NEW c \in Conn,
         \/ (NextPlayer(c) \/ SetRoom(c) \/ BindSession(c)) /\ Head(job[c].left) # p
         \/ Register(c)
  PROVE  CarefulInv(p)'
<1>1. /\ UNCHANGED <<queue, rooms, closer, leaving>>
      /\ reader[c] \in Handing \cup {"seat"} /\ reader'[c] \in Handing \cup {"seat"}
      /\ \A d \in Conn \ {c} : reader'[d] = reader[d]
  BY StepMoves DEF NextPlayer, SetRoom, BindSession, Register, Handing
<1>2. LinesFit(p) /\ WaitFits(p) /\ HomeFits(p) /\ At[c] \in Node
  BY TransportAssumption DEF CarefulInv
<1>3. job[c].left # <<>>
  BY DEF NextPlayer, SetRoom, BindSession, Register, TransportInv, JobIsOwn
<1>4. job \in [Conn -> Job] /\ job[c] \in Job /\ Head(job[c].left) \in Player
  BY <1>3, JobTail
<1>5. \A i, j \in DOMAIN job[c].left : job[c].left[i] = p /\ job[c].left[j] = p => i = j
  BY <1>2 DEF WaitFits, HeldFits
<1>6. CASE NextPlayer(c) /\ Head(job[c].left) # p
  <2>1. \A n \in Node : pending'[n][p] = pending[n][p]
    <3>1. pending' = [pending EXCEPT ![At[c]][Head(job[c].left)] = None]
      BY <1>6 DEF NextPlayer
    <3>2. pending \in [Node -> [Player -> Conn \cup {None}]]
      BY DEF TypeOK
    <3> QED
      BY <1>2, <1>4, <1>6, <3>1, <3>2, SMT
  <2>2. ~InHand(p, c) /\ UNCHANGED <<current, session>>
    BY <1>6 DEF NextPlayer, InHand, Handing
  <2>3. CASE job' = [job EXCEPT ![c].left = Tail(@)] /\ UNCHANGED reader
    <3>1. /\ job'[c].left = Tail(job[c].left) /\ job'[c].room = job[c].room
          /\ \A d \in Conn \ {c} : job'[d] = job[d]
      BY <1>4, <2>3 DEF Job
    <3>2. /\ Held(p, c)' <=> Held(p, c)
          /\ \A i, j \in DOMAIN job'[c].left : job'[c].left[i] = p /\ job'[c].left[j] = p => i = j
      BY <1>2, <1>3, <1>6, <3>1, TailHolds
    <3>3. ~InHand(p, c)'
      BY <1>4, <1>6, <2>3, StepMoves DEF NextPlayer, InHand, Handing
    <3>4. SameLines(p) /\ SameWait(p)
      BY <1>1, <1>2, <2>1, <2>2, <3>1, <3>2, <3>3, SeatingMoves
    <3> QED
      BY <1>1, <1>2, <2>2, <3>4, HomeSame, CarefulStays
  <2>4. ASSUME NEW w, job' = [job EXCEPT ![c].who = w]
        PROVE  CarefulInv(p)'
    <3>1. /\ job'[c].left = job[c].left /\ job'[c].room = job[c].room
          /\ \A d \in Conn \ {c} : job'[d] = job[d]
      BY <1>4, <2>4 DEF Job
    <3>2. Held(p, c)' <=> Held(p, c)
      BY <3>1 DEF Held
    <3>3. ~InHand(p, c)'
      BY <1>6, <3>1 DEF InHand
    <3>4. SameLines(p) /\ SameWait(p)
      BY <1>1, <1>2, <1>5, <2>1, <2>2, <3>1, <3>2, <3>3, SeatingMoves
    <3> QED
      BY <1>1, <1>2, <2>2, <3>4, HomeSame, CarefulStays
  <2> QED
    BY <1>6, <2>3, <2>4 DEF NextPlayer
<1>7. CASE SetRoom(c) /\ Head(job[c].left) # p
  <2>1. UNCHANGED <<pending, session, job>> /\ reader[c] = "attach"
    BY <1>7 DEF SetRoom
  <2>2. \A d \in Conn : Owner[d] = p => current'[d] = current[d]
    <3>1. Owner[job[c].who] # p
      BY <1>7, <2>1 DEF TransportInv, JobIsOwn
    <3> QED
      BY <1>7, <3>1 DEF SetRoom, TypeOK
  <2>3. ~InHand(p, c) /\ ~InHand(p, c)' /\ (Held(p, c)' <=> Held(p, c))
    BY <1>7, <2>1 DEF InHand, Held
  <2>4. SameLines(p) /\ SameWait(p)
    BY <1>1, <1>2, <1>5, <2>1, <2>2, <2>3, SeatingMoves
  <2> QED
    BY <1>1, <1>2, <2>1, <2>4, HomeSame, CarefulStays
<1>8. CASE Register(c)
  <2>1. /\ UNCHANGED <<pending, session, job, current>> /\ reader[c] = "register"
        /\ reader'[c] = "bind"
    BY <1>8, StepMoves DEF Register
  <2>2. (InHand(p, c)' <=> InHand(p, c)) /\ (Held(p, c)' <=> Held(p, c))
    BY <2>1 DEF InHand, Held, Handing
  <2>3. SameLines(p) /\ SameWait(p)
    BY <1>1, <1>2, <1>5, <2>1, <2>2, SeatingMoves
  <2> QED
    BY <1>1, <1>2, <2>1, <2>3, HomeSame, CarefulStays
<1>9. CASE BindSession(c) /\ Head(job[c].left) # p
  <2>1. /\ UNCHANGED <<pending, current>> /\ reader'[c] = "seat"
        /\ job' = [job EXCEPT ![c].left = Tail(@), ![c].who = None]
    BY <1>9, StepMoves DEF BindSession
  <2>2. /\ job'[c].left = Tail(job[c].left) /\ job'[c].room = job[c].room
        /\ \A d \in Conn \ {c} : job'[d] = job[d]
    BY <1>4, <2>1 DEF Job
  <2>3. /\ Held(p, c)' <=> Held(p, c)
        /\ \A i, j \in DOMAIN job'[c].left : job'[c].left[i] = p /\ job'[c].left[j] = p => i = j
    BY <1>2, <1>3, <1>9, <2>2, TailHolds
  <2>4. ~InHand(p, c) /\ ~InHand(p, c)'
    BY <1>9, <2>1 DEF InHand, Handing
  <2>5. SameLines(p) /\ SameWait(p)
    BY <1>1, <1>2, <2>1, <2>2, <2>3, <2>4, SeatingMoves
  <2>6. session'[p] = session[p]
    BY <1>4, <1>9, SaveMoves DEF BindSession
  <2> QED
    BY <1>1, <1>2, <2>5, <2>6, HomeSame, CarefulStays
<1> QED
  BY <1>6, <1>7, <1>8, <1>9

\* While the player is in somebody's hands, they are being seated in every running game of
\* theirs, and in the room of that goroutine.
LEMMA HandHome ==
  ASSUME TypeOK, TransportInv, NEW p \in Player, CarefulInv(p), NEW c \in Conn, InHand(p, c),
         NEW r, Runs(p, r)
  PROVE  job[c].room = r /\ p \in rooms[r].connected
<1>1. LinesFit(p) /\ WaitFits(p)
  BY DEF CarefulInv
<1>2. Held(p, c)
  BY HandHeld
<1>3. ~PlaysIn(p, r)
  BY <1>2 DEF PlaysIn
<1>4. ~AwayFrom(p, r)
  <2>1. /\ job[c].who \in Conn /\ Owner[job[c].who] = p /\ Live(job[c].who)
    BY <1>1, HandLive, SMT
  <2>2. job[c].who = c \/ reader[job[c].who] = "serving"
    BY <1>1 DEF WaitFits, HandFits
  <2>3. reader[c] \in Handing
    BY DEF InHand
  <2> QED
    BY <2>1, <2>2, <2>3 DEF AwayFrom, Handing
<1>5. SeatingIn(p, r)
  BY <1>3, <1>4 DEF CarefulInv, HomeFits
<1>6. PICK d \in Conn : Held(p, d) /\ job[d].room = r
  BY <1>5 DEF SeatingIn
<1>7. d = c
  BY <1>1, <1>2, <1>6 DEF WaitFits, HeldFits
<1> QED
  BY <1>5, <1>6, <1>7 DEF SeatingIn

\* The goroutine of a match turns to the player, and finds their pending connection.
LEMMA OwnNext ==
  ASSUME TypeOK, TransportInv, TypeOK', NEW p \in Player, CarefulInv(p), NEW c \in Conn,
         NextPlayer(c), Head(job[c].left) = p
  PROVE  CarefulInv(p)'
<1>1. /\ UNCHANGED <<queue, rooms, hub, session, current, closer, leaving, crashed>>
      /\ reader[c] = "seat" /\ job[c].left # <<>>
      /\ pending' = [pending EXCEPT ![At[c]][p] = None]
  BY DEF NextPlayer
<1>2. LinesFit(p) /\ WaitFits(p) /\ HomeFits(p) /\ At[c] \in Node
  BY TransportAssumption DEF CarefulInv
<1>3. job \in [Conn -> Job] /\ job[c] \in Job /\ 1 \in DOMAIN job[c].left /\ job[c].left[1] = p
  BY <1>1, JobTail
<1>4. Held(p, c) /\ ~InHand(p, c)
  BY <1>1, <1>3 DEF Held, Range, InHand, Handing
<1>5. pending[At[c]][p] # None
  BY <1>2, <1>4 DEF WaitFits, HeldFits
<1>6. PICK w \in Conn : w = pending[At[c]][p] /\ Owner[w] = p /\ Live(w)
  BY <1>2, <1>5, PendingLive, SMT
<1>7. /\ closer[w] = "open" /\ current[w] = 0 /\ (w = c \/ reader[w] = "serving")
  BY <1>2, <1>4, <1>5, <1>6 DEF WaitFits, PendingFits
<1>8. /\ job' = [job EXCEPT ![c].who = w] /\ reader'[c] = "attach"
      /\ \A d \in Conn \ {c} : reader'[d] = reader[d]
  BY <1>5, <1>6, StepMoves DEF NextPlayer
<1>9. /\ job'[c].left = job[c].left /\ job'[c].room = job[c].room /\ job'[c].who = w
      /\ \A d \in Conn \ {c} : job'[d] = job[d]
  BY <1>3, <1>8 DEF Job
<1>10. \A n \in Node : pending'[n][p] = None
  <2>1. \A m \in Node \ {At[c]} : pending[m][p] = None
    BY <1>2, <1>5, OnePending
  <2>2. pending \in [Node -> [Player -> Conn \cup {None}]]
    BY DEF TypeOK
  <2> QED
    BY <1>1, <1>2, <2>1, <2>2, SMT
<1>11. \A d \in Conn : Held(p, d)' <=> d = c
  <2>1. \A d \in Conn : Held(p, d) <=> d = c
    BY <1>2, <1>4 DEF WaitFits, HeldFits
  <2> QED
    BY <1>9, <2>1 DEF Held
<1>12. InHand(p, c)' /\ \A d \in Conn \ {c} : ~InHand(p, d)'
  <2>1. InHand(p, c)'
    BY <1>1, <1>8, <1>9 DEF InHand, Handing
  <2> QED
    BY <1>11, <2>1, HandHeldNext
<1>13. SameLines(p)
  BY <1>1, <1>8, <1>9 DEF SameLines, Handing
<1>14. LinesFit(p)'
  BY <1>2, <1>13, LinesStay
<1>15. HomeFits(p)'
  <2>1. SameHeld(p)
    <3>1. \A d \in Conn : Held(p, d) <=> d = c
      BY <1>2, <1>4 DEF WaitFits, HeldFits
    <3> QED
      BY <1>1, <1>8, <1>9, <1>11, <3>1 DEF SameHeld
  <2> QED
    BY <1>1, <1>2, <1>13, <2>1, HomeSame, HomeStays
<1>16. PendingFits(p)'
  BY <1>10 DEF PendingFits
<1>17. QueueFits(p)'
  <2>1. \A n \in Node : ~Queued(p, n)
    BY <1>2, <1>4 DEF WaitFits, QueueFits
  <2> QED
    BY <1>1, <2>1 DEF QueueFits, Queued
<1>18. HeldFits(p)'
  <2>1. \A d \in Conn : job'[d].left = job[d].left
    BY <1>9
  <2>2. \A d \in Conn : \A i, j \in DOMAIN job'[d].left :
          job'[d].left[i] = p /\ job'[d].left[j] = p => i = j
    BY <1>2, <2>1 DEF WaitFits, HeldFits
  <2> QED
    BY <1>8, <1>11, <1>12, <2>2 DEF HeldFits, Handing
<1>19. HandFits(p)'
  <2>1. w = c \/ (closer'[w] = "open" /\ reader'[w] = "serving")
    BY <1>1, <1>7, <1>8
  <2>2. job'[c].who = w /\ current'[w] = 0 /\ reader'[c] = "attach"
    BY <1>1, <1>7, <1>8, <1>9
  <2>3. \A d \in Conn : InHand(p, d)' => d = c
    BY <1>12
  <2> QED
    BY <1>10, <2>1, <2>2, <2>3 DEF HandFits
<1>20. AskFits(p)'
  <2>1. \A d \in Conn : Owner[d] = p => reader[d] \notin {"enqueue", "create"}
    <3> SUFFICES ASSUME NEW d \in Conn, Owner[d] = p, reader[d] \in {"enqueue", "create"}
                 PROVE  FALSE
      OBVIOUS
    <3>1. d = w
      BY <1>2, <1>6 DEF LinesFit, OneLine, Live, CleanedUp, AtRest
    <3> QED
      BY <1>1, <1>7, <3>1
  <2> QED
    BY <1>8, <2>1 DEF AskFits
<1> QED
  BY <1>14, <1>15, <1>16, <1>17, <1>18, <1>19, <1>20 DEF CarefulInv, WaitFits

\* The connection in hand is bound to the room.
LEMMA OwnSetRoom ==
  ASSUME TypeOK, TransportInv, TypeOK', NEW p \in Player, CarefulInv(p), NEW c \in Conn,
         SetRoom(c), Head(job[c].left) = p
  PROVE  CarefulInv(p)'
<1>1. /\ UNCHANGED <<queue, pending, rooms, hub, session, job, closer, leaving, crashed>>
      /\ reader[c] = "attach" /\ job[c].left # <<>>
      /\ current' = [current EXCEPT ![job[c].who] = job[c].room]
  BY DEF SetRoom, TransportInv, JobIsOwn
<1>2. LinesFit(p) /\ WaitFits(p) /\ HomeFits(p)
  BY DEF CarefulInv
<1>3. InHand(p, c)
  BY <1>1 DEF InHand, Handing
<1>4. PICK w \in Conn : w = job[c].who /\ Owner[w] = p /\ Live(w)
  BY <1>2, <1>3, HandLive, SMT
<1>5. /\ \A n \in Node : pending[n][p] = None
      /\ w = c \/ (closer[w] = "open" /\ reader[w] = "serving")
  BY <1>2, <1>3, <1>4 DEF WaitFits, HandFits
<1>6. reader'[c] = "register" /\ \A d \in Conn \ {c} : reader'[d] = reader[d]
  BY StepMoves DEF SetRoom
<1>7. current'[w] = job[c].room /\ \A d \in Conn \ {w} : current'[d] = current[d]
  BY <1>1, <1>4 DEF TypeOK
<1>8. Held(p, c) /\ \A d \in Conn \ {c} : ~Held(p, d)
  BY <1>2, <1>3, HandHeld DEF WaitFits, HeldFits
<1>9. \A d \in Conn : Held(p, d)' <=> Held(p, d)
  BY <1>1 DEF Held
<1>10. InHand(p, c)' /\ \A d \in Conn \ {c} : ~InHand(p, d)'
  <2>1. InHand(p, c)'
    BY <1>1, <1>6 DEF InHand, Handing
  <2> QED
    BY <1>8, <1>9, <2>1, HandHeldNext
<1>11. LinesFit(p)'
  <2>1. \A d \in Conn \ {w} : Owner[d] = p => reader'[d] = reader[d]
    <3>1. Owner[c] = p => c = w
      BY <1>1, <1>2, <1>4 DEF LinesFit, OneLine, Live, CleanedUp, AtRest
    <3> QED
      BY <1>6, <3>1
  <2>2. LineFits(w)'
    <3>1. LineFits(w)
      BY <1>2, <1>4 DEF LinesFit
    <3>2. CASE w = c
      BY <1>1, <1>6, <3>1, <3>2 DEF LineFits, Handing
    <3>3. CASE w # c
      BY <1>1, <1>5, <1>6, <3>1, <3>3 DEF LineFits, Handing
    <3> QED
      BY <3>2, <3>3
  <2> QED
    BY <1>1, <1>2, <1>4, <1>7, <2>1, <2>2, LinesMove
<1>12. HomeFits(p)'
  <2> SUFFICES ASSUME NEW r, Runs(p, r)'
               PROVE  SeatingIn(p, r)'
    BY <1>1, <1>2 DEF HomeFits, Seated
  <2>1. Runs(p, r)
    BY <1>1 DEF Runs, Seated
  <2>2. job[c].room = r /\ p \in rooms[r].connected
    BY <1>3, <2>1, HandHome
  <2> QED
    BY <1>1, <1>6, <1>8, <1>9, <2>2 DEF SeatingIn
<1>13. PendingFits(p)' /\ QueueFits(p)'
  <2>1. \A n \in Node : pending'[n][p] = None
    BY <1>1, <1>5
  <2>2. \A n \in Node : ~Queued(p, n)
    BY <1>2, <1>5 DEF WaitFits, QueueFits
  <2> QED
    BY <1>1, <2>1, <2>2 DEF PendingFits, QueueFits, Queued
<1>14. HeldFits(p)'
  <2>1. \A d \in Conn : \A i, j \in DOMAIN job'[d].left :
          job'[d].left[i] = p /\ job'[d].left[j] = p => i = j
    BY <1>1, <1>2 DEF WaitFits, HeldFits
  <2> QED
    BY <1>6, <1>8, <1>9, <1>10, <2>1 DEF HeldFits, Handing
<1>15. HandFits(p)'
  <2>1. w = c \/ (closer'[w] = "open" /\ reader'[w] = "serving")
    BY <1>1, <1>5, <1>6
  <2>2. job'[c].who = w /\ current'[w] = job'[c].room
    BY <1>1, <1>4, <1>7
  <2> QED
    BY <1>1, <1>5, <1>6, <1>10, <2>1, <2>2 DEF HandFits
<1>16. AskFits(p)'
  BY <1>1, <1>2, <1>6, <1>9 DEF WaitFits, AskFits
<1> QED
  BY <1>11, <1>12, <1>13, <1>14, <1>15, <1>16 DEF CarefulInv, WaitFits

\* The player has been seated: their record names the room.
LEMMA OwnBind ==
  ASSUME TypeOK, TransportInv, TypeOK', NEW p \in Player, Careful(p), CarefulInv(p), NEW c \in Conn,
         BindSession(c), Head(job[c].left) = p
  PROVE  CarefulInv(p)'
<1>1. /\ UNCHANGED <<queue, pending, rooms, hub, current, closer, leaving, crashed>>
      /\ reader[c] = "bind" /\ job[c].left # <<>>
      /\ job' = [job EXCEPT ![c].left = Tail(@), ![c].who = None]
      /\ session' = [session EXCEPT ![p] = [room |-> job[c].room, owner |-> At[c]]]
  BY DEF BindSession, TransportInv, JobIsOwn, SaveSession, Careful
<1>2. LinesFit(p) /\ WaitFits(p) /\ HomeFits(p) /\ job \in [Conn -> Job] /\ job[c] \in Job
  BY DEF CarefulInv, TypeOK
<1>3. InHand(p, c)
  BY <1>1 DEF InHand, Handing
<1>4. PICK w \in Conn : w = job[c].who /\ Owner[w] = p /\ Live(w)
  BY <1>2, <1>3, HandLive, SMT
<1>5. /\ \A n \in Node : pending[n][p] = None
      /\ w = c \/ (closer[w] = "open" /\ reader[w] = "serving")
      /\ current[w] = job[c].room
  BY <1>1, <1>2, <1>3, <1>4 DEF WaitFits, HandFits
<1>6. reader'[c] = "seat" /\ \A d \in Conn \ {c} : reader'[d] = reader[d]
  BY StepMoves DEF BindSession
<1>7. job'[c].left = Tail(job[c].left) /\ \A d \in Conn \ {c} : job'[d] = job[d]
  BY <1>1, <1>2 DEF Job
<1>8. Held(p, c) /\ \A d \in Conn \ {c} : ~Held(p, d)
  BY <1>2, <1>3, HandHeld DEF WaitFits, HeldFits
<1>9. \A d \in Conn : ~Held(p, d)'
  <2>1. ~Held(p, c)'
    BY <1>1, <1>2, <1>7, TailHolds
  <2> QED
    BY <1>7, <1>8, <2>1 DEF Held
<1>10. LinesFit(p)'
  <2>1. SameLines(p)
    BY <1>1, <1>6, <1>7 DEF SameLines, Handing
  <2> QED
    BY <1>2, <2>1, LinesStay
<1>11. WaitFits(p)'
  <2>1. \A n \in Node : ~Queued(p, n)
    BY <1>2, <1>5 DEF WaitFits, QueueFits
  <2>2. Idle(p)'
    BY <1>1, <1>5, <1>9, <2>1 DEF Idle, Queued
  <2>3. \A d \in Conn : Owner[d] = p => reader[d] \notin {"enqueue", "create"}
    <3> SUFFICES ASSUME NEW d \in Conn, Owner[d] = p, reader[d] \in {"enqueue", "create"}
                 PROVE  FALSE
      OBVIOUS
    <3>1. d = w
      BY <1>2, <1>4 DEF LinesFit, OneLine, Live, CleanedUp, AtRest
    <3> QED
      BY <1>1, <1>5, <3>1
  <2>4. \A d \in Conn : Owner[d] = p => reader'[d] \notin {"enqueue", "create"}
    BY <1>6, <2>3
  <2> QED
    BY <2>2, <2>4, IdleWaits
<1>12. HomeFits(p)'
  <2> SUFFICES ASSUME NEW r, Runs(p, r)'
               PROVE  PlaysIn(p, r)'
    BY <1>1, <1>2 DEF HomeFits, Seated
  <2>1. Runs(p, r)
    BY <1>1 DEF Runs, Seated
  <2>2. job[c].room = r /\ p \in rooms[r].connected
    BY <1>3, <2>1, HandHome
  <2>3. session'[p].room = r
    BY <1>1, <2>2 DEF TypeOK
  <2>4. closer[w] \in {"unborn", "open"}
    <3>1. CASE w = c
      BY <1>1, <1>2, <1>4, <3>1 DEF LinesFit, LineFits, Handing
    <3> QED
      BY <1>5, <3>1
  <2>5. /\ Owner[w] = p /\ current'[w] = r /\ closer'[w] \in {"unborn", "open"}
        /\ p \in rooms'[r].connected /\ session'[p].room \in {0, r}
    BY <1>1, <1>4, <1>5, <2>2, <2>3, <2>4
  <2> QED
    BY <1>9, <2>5 DEF PlaysIn
<1> QED
  BY <1>10, <1>11, <1>12 DEF CarefulInv

\* The goroutine of the player's own connection has seated everyone.
LEMMA OwnSeated ==
  ASSUME TypeOK, TransportInv, TypeOK', NEW p \in Player, CarefulInv(p), NEW c \in Conn,
         Owner[c] = p, AllSeated(c)
  PROVE  CarefulInv(p)'
<1>1. /\ UNCHANGED <<queue, pending, rooms, hub, session, current, leaving, crashed>>
      /\ reader[c] = "seat" /\ job[c].left = <<>> /\ job' = [job EXCEPT ![c] = NoJob]
  BY DEF AllSeated
<1>2. LinesFit(p) /\ WaitFits(p) /\ HomeFits(p) /\ job \in [Conn -> Job]
  BY DEF CarefulInv, TypeOK
<1>3. /\ reader'[c] = "serving" /\ \A d \in Conn \ {c} : reader'[d] = reader[d]
      /\ closer'[c] = IF closer[c] = "unborn" THEN "open" ELSE closer[c]
      /\ \A d \in Conn \ {c} : closer'[d] = closer[d]
  BY ServeMoves DEF AllSeated
<1>4. Live(c) /\ closer[c] \in {"unborn", "open"} /\ closer'[c] = "open"
  BY <1>1, <1>2, <1>3 DEF Live, CleanedUp, AtRest, LinesFit, LineFits
<1>5. \A d \in Conn : Owner[d] = p /\ Live(d) => d = c
  BY <1>2, <1>4 DEF LinesFit, OneLine
<1>6. ~Held(p, c)
  BY <1>1, SMT DEF Held, Range
<1>7. \A n \in Node : pending[n][p] = None
  <2> SUFFICES ASSUME NEW n \in Node, pending[n][p] # None
               PROVE  FALSE
    OBVIOUS
  <2>1. pending[n][p] = c
    BY <1>2, <1>5, PendingLive, SMT
  <2> QED
    BY <1>1, <1>2, <1>6, <2>1 DEF WaitFits, PendingFits
<1>8. \A n \in Node : ~Queued(p, n)
  BY <1>2, <1>7 DEF WaitFits, QueueFits
<1>9. \A d \in Conn : ~Held(p, d)
  <2> SUFFICES ASSUME NEW d \in Conn, Held(p, d)
               PROVE  FALSE
    OBVIOUS
  <2>1. InHand(p, d) /\ d # c
    BY <1>2, <1>6, <1>7, TransportAssumption DEF WaitFits, HeldFits
  <2>2. job[d].who = c
    BY <1>2, <1>5, <2>1, HandLive, SMT
  <2> QED
    BY <1>1, <1>2, <2>1, <2>2 DEF WaitFits, HandFits
<1>10. \A d \in Conn : ~Held(p, d)'
  <2>1. job'[c].left = <<>> /\ \A d \in Conn \ {c} : job'[d] = job[d]
    BY <1>1, <1>2 DEF NoJob
  <2>2. ~Held(p, c)'
    BY <2>1, SMT DEF Held, Range
  <2> QED
    BY <1>9, <2>1, <2>2 DEF Held
<1>11. LinesFit(p)'
  <2>1. LineFits(c)'
    BY <1>3, <1>4 DEF LineFits, Handing
  <2> QED
    BY <1>1, <1>2, <1>3, <1>4, <2>1, LinesMove
<1>12. WaitFits(p)'
  <2>1. Idle(p)'
    BY <1>1, <1>7, <1>8, <1>10 DEF Idle, Queued
  <2>2. \A d \in Conn : Owner[d] = p => reader'[d] \notin {"enqueue", "create"}
    BY <1>3, <1>5 DEF Live, CleanedUp, AtRest
  <2> QED
    BY <2>1, <2>2, IdleWaits
<1>13. HomeFits(p)'
  <2>1. SameHome(p)
    BY <1>1, <1>2, HomeSame
  <2>2. \A d \in Conn : Owner[d] = p /\ Live(d)' => Live(d) /\ reader[d] = "seat"
    <3>1. \A d \in Conn \ {c} : Live(d)' <=> Live(d)
      BY <1>3 DEF Live, CleanedUp, AtRest
    <3> QED
      BY <1>1, <1>4, <1>5, <3>1
  <2>3. \A d \in Conn : Owner[d] = p =>
          /\ current'[d] = current[d]
          /\ \/ closer'[d] = closer[d] /\ leaving'[d] = leaving[d]
             \/ closer[d] \in {"unborn", "open"} /\ closer'[d] = "open"
    BY <1>1, <1>3, <1>4
  <2> QED
    BY <1>2, <1>9, <1>10, <2>1, <2>2, <2>3, HomeMoves
<1> QED
  BY <1>11, <1>12, <1>13 DEF CarefulInv

-----------------------------------------------------------------------------
(* Dialling in, asking and closing. *)

\* The player's connection moves while the server holds nothing else of theirs.
LEMMA IdleMoves ==
  ASSUME TypeOK, TransportInv, TypeOK', NEW p \in Player, CarefulInv(p), NEW c \in Conn,
         Owner[c] = p, Idle(p), UNCHANGED <<queue, rooms, job, current>>, session'[p] = session[p],
         \A n \in Node : pending'[n][p] = None,
         \A d \in Conn \ {c} :
           reader'[d] = reader[d] /\ closer'[d] = closer[d] /\ leaving'[d] = leaving[d],
         LineFits(c)', reader'[c] \notin {"enqueue", "create"},
         \/ reader'[c] = "load" /\ \A d \in Conn : Owner[d] = p => ~Live(d)
         \/ Live(c) /\ (reader'[c] = reader[c] \/ reader[c] \notin {"load", "redirected", "resume"}),
         current[c] # 0 =>
           \/ closer'[c] = closer[c] /\ leaving'[c] = leaving[c]
           \/ /\ closer[c] \in {"unborn", "open", "pending", "leave"}
              /\ closer'[c] \in {"unborn", "open", "pending", "leave", "disconnect"}
              /\ closer'[c] = "disconnect" => leaving'[c] = current[c]
  PROVE  CarefulInv(p)'
<1>1. LinesFit(p) /\ WaitFits(p) /\ HomeFits(p)
  BY DEF CarefulInv
<1>2. LinesFit(p)'
  BY <1>1, LinesMove
<1>3. \A d \in Conn : ~Held(p, d) /\ ~Held(p, d)'
  BY DEF Idle, Held
<1>4. \A d \in Conn \ {c} : Owner[d] = p => ~Live(d) /\ ~Live(d)'
  BY <1>1 DEF LinesFit, OneLine, Live, CleanedUp, AtRest
<1>5. WaitFits(p)'
  <2>1. Idle(p)'
    BY <1>3 DEF Idle, Queued
  <2>2. \A d \in Conn : Owner[d] = p => reader'[d] \notin {"enqueue", "create"}
    BY <1>4 DEF Live, CleanedUp, AtRest
  <2> QED
    BY <2>1, <2>2, IdleWaits
<1>6. HomeFits(p)'
  <2>1. SameHome(p)
    BY <1>1, HomeSame
  <2>2. \A d \in Conn : Owner[d] = p /\ Live(d)' =>
          \/ reader'[d] = "load"
          \/ /\ Live(d)
             /\ \/ reader'[d] = reader[d] /\ job'[d] = job[d]
                \/ reader[d] \notin {"load", "redirected", "resume"}
    BY <1>4
  <2>3. \A d \in Conn : Owner[d] = p /\ current[d] # 0 =>
          /\ current'[d] = current[d]
          /\ \/ closer'[d] = closer[d] /\ leaving'[d] = leaving[d]
             \/ /\ closer[d] \in {"unborn", "open", "pending", "leave"}
                /\ closer'[d] \in {"unborn", "open", "pending", "leave", "disconnect"}
                /\ closer'[d] = "disconnect" => leaving'[d] = current[d]
    OBVIOUS
  <2> QED
    BY <1>1, <1>3, <2>1, <2>2, <2>3, HomeMoves
<1> QED
  BY <1>2, <1>5, <1>6 DEF CarefulInv

\* The player is not waiting.
LEMMA NotWaiting ==
  ASSUME TypeOK, NEW p, WaitFits(p), ~Waiting(p)
  PROVE  Idle(p)
<1>1. \A n \in Node : pending[n][p] = None
  BY DEF Waiting
<1>2. \A d \in Conn : ~Held(p, d)
  BY DEF Waiting, BeingSeated, Held
<1> QED
  BY <1>1, <1>2 DEF Idle, WaitFits, QueueFits

\* The player dials in, sends a request or hangs up.
LEMMA OwnClient ==
  ASSUME TypeOK, TransportInv, TypeOK', NEW p \in Player, Careful(p), CarefulInv(p), NEW c \in Conn,
         Owner[c] = p, Dial(c) \/ ReadMessage(c) \/ Close(c)
  PROVE  CarefulInv(p)'
<1>1. UNCHANGED <<queue, pending, rooms, session, current, job, leaving>>
  BY DEF Dial, ReadMessage, Close
<1>2. LinesFit(p) /\ WaitFits(p) /\ LineFits(c)
  BY DEF CarefulInv, LinesFit
<1>3. CASE Dial(c)
  <2>1. /\ UNCHANGED closer /\ reader[c] = "unborn" /\ reader'[c] = "load"
        /\ \A d \in Conn \ {c} : reader'[d] = reader[d]
    BY <1>3, StepMoves DEF Dial
  <2>2. \A d \in Conn : Owner[d] = p => ~Live(d)
    BY <1>3 DEF Dial, Careful, Live
  <2>3. Idle(p)
    BY <1>2, <2>2, DownIdle
  <2>4. \A n \in Node : pending'[n][p] = None
    BY <1>1, <2>3 DEF Idle
  <2>5. LineFits(c)'
    BY <1>1, <1>2, <2>1 DEF LineFits, Handing
  <2> QED
    BY <1>1, <2>1, <2>2, <2>3, <2>4, <2>5, IdleMoves
<1>4. CASE ReadMessage(c)
  <2>1. /\ UNCHANGED closer /\ reader[c] = "serving" /\ closer[c] = "open" /\ reader'[c] = "message"
        /\ \A d \in Conn \ {c} : reader'[d] = reader[d]
    BY <1>4, StepMoves DEF ReadMessage
  <2>2. Idle(p)
    BY <1>2, <1>4, NotWaiting DEF ReadMessage, Careful
  <2>3. \A n \in Node : pending'[n][p] = None
    BY <1>1, <2>2 DEF Idle
  <2>4. LineFits(c)' /\ Live(c)
    BY <1>1, <1>2, <2>1 DEF LineFits, Handing, Live, CleanedUp
  <2> QED
    BY <1>1, <2>1, <2>2, <2>3, <2>4, IdleMoves
<1>5. CASE Close(c)
  <2>1. /\ UNCHANGED reader /\ closer[c] = "open" /\ closer'[c] = "pending"
        /\ AtRest(c) /\ ~Waiting(p)
        /\ \A d \in Conn \ {c} : closer'[d] = closer[d]
    BY <1>5, StepMoves DEF Close, Careful
  <2>2. Idle(p)
    BY <1>2, <2>1, NotWaiting
  <2>3. \A n \in Node : pending'[n][p] = None
    BY <1>1, <2>2 DEF Idle
  <2>4. reader[c] \in {"serving", "redirected"}
    BY <1>2, <2>1 DEF LineFits, AtRest
  <2>5. LineFits(c)' /\ Live(c)
    BY <1>1, <1>2, <2>1, <2>4 DEF LineFits, Handing, Live, CleanedUp
  <2> QED
    BY <1>1, <2>1, <2>2, <2>3, <2>4, <2>5, IdleMoves
<1> QED
  BY <1>3, <1>4, <1>5

\* handleFindMatch, for the player.
LEMMA OwnFind ==
  ASSUME TypeOK, TransportInv, TypeOK', NEW p \in Player, CarefulInv(p), NEW c \in Conn,
         Owner[c] = p, FindMatch(c)
  PROVE  CarefulInv(p)'
<1>1. UNCHANGED <<queue, rooms, session, current, job, closer, leaving>> /\ reader[c] = "message"
  BY DEF FindMatch
<1>2. LinesFit(p) /\ WaitFits(p) /\ HomeFits(p) /\ LineFits(c) /\ At[c] \in Node /\ c # None
  BY TransportAssumption DEF CarefulInv, LinesFit
<1>3. Live(c) /\ closer[c] = "open"
  BY <1>1, <1>2 DEF Live, CleanedUp, AtRest, LineFits
<1>4. Idle(p)
  BY <1>1, <1>2, <1>3, IdleFacts
<1>5. \A d \in Conn \ {c} : reader'[d] = reader[d]
  BY StepMoves DEF FindMatch
<1>6. CASE GoTo(c, "serving") /\ UNCHANGED pending
  <2>1. reader'[c] = "serving" /\ \A n \in Node : pending'[n][p] = None
    BY <1>4, <1>6, StepMoves DEF Idle
  <2>2. LineFits(c)'
    BY <1>1, <1>2, <1>3, <2>1 DEF LineFits, Handing
  <2> QED
    BY <1>1, <1>3, <1>4, <1>5, <2>1, <2>2, IdleMoves
<1>7. CASE /\ current[c] = 0 /\ pending' = [pending EXCEPT ![At[c]][Owner[c]] = c]
           /\ GoTo(c, "enqueue")
  <2>1. reader'[c] = "enqueue"
    BY <1>7, StepMoves
  <2>2. pending'[At[c]][p] = c /\ \A n \in Node \ {At[c]} : pending'[n][p] = None
    <3>1. /\ pending \in [Node -> [Player -> Conn \cup {None}]]
          /\ pending' = [pending EXCEPT ![At[c]][p] = c]
          /\ \A n \in Node : pending[n][p] = None
      BY <1>4, <1>7 DEF TypeOK, Idle
    <3> QED
      BY <1>2, <3>1, SMT
  <2>3. \A d \in Conn : ~Held(p, d) /\ ~Held(p, d)'
    BY <1>1, <1>4 DEF Idle, Held
  <2>4. \A n \in Node : ~Queued(p, n)'
    BY <1>1, <1>4 DEF Idle, Queued
  <2>5. PendingFits(p)'
    <3>1. \A n \in Node : pending'[n][p] # None => pending'[n][p] = c
      BY <2>2
    <3>2. closer'[c] = "open" /\ current'[c] = 0
      BY <1>1, <1>3, <1>7
    <3> QED
      BY <2>1, <2>3, <2>4, <3>1, <3>2 DEF PendingFits
  <2>6. QueueFits(p)' /\ HandFits(p)'
    BY <2>3, <2>4, HandHeldNext DEF QueueFits, HandFits
  <2>7. HeldFits(p)'
    BY <2>3 DEF HeldFits, Held, Range
  <2>8. AskFits(p)'
    <3>1. \A d \in Conn \ {c} : Owner[d] = p => reader'[d] \notin {"enqueue", "create"}
      BY <1>2, <1>3, <1>5 DEF LinesFit, OneLine, Live, CleanedUp, AtRest
    <3> QED
      BY <2>1, <2>2, <3>1 DEF AskFits
  <2>9. LinesFit(p)'
    <3>1. LineFits(c)'
      BY <1>1, <1>3, <1>7, <2>1 DEF LineFits, Handing
    <3> QED
      BY <1>1, <1>2, <1>3, <1>5, <3>1, LinesMove
  <2>10. HomeFits(p)'
    <3>1. SameHome(p)
      BY <1>1, <1>2, HomeSame
    <3>2. \A d \in Conn : Owner[d] = p /\ Live(d)' =>
            Live(d) /\ ((reader'[d] = reader[d] /\ job'[d] = job[d]) \/ reader[d] = "message")
      BY <1>1, <1>3, <1>5 DEF Live, CleanedUp, AtRest
    <3> QED
      BY <1>1, <1>2, <2>3, <3>1, <3>2, HomeMoves
  <2> QED
    BY <2>5, <2>6, <2>7, <2>8, <2>9, <2>10 DEF CarefulInv, WaitFits
<1> QED
  BY <1>6, <1>7 DEF FindMatch

\* The clean-up of the player's connection, up to the room.
LEMMA OwnLeave ==
  ASSUME TypeOK, TransportInv, TypeOK', NEW p \in Player, CarefulInv(p), NEW c \in Conn,
         Owner[c] = p, ForgetPending(c) \/ Leave(c)
  PROVE  CarefulInv(p)'
<1>1. /\ UNCHANGED <<queue, rooms, session, current, job, reader>>
      /\ closer[c] \in {"pending", "leave"}
  BY DEF ForgetPending, Leave
<1>2. LinesFit(p) /\ WaitFits(p) /\ LineFits(c) /\ At[c] \in Node
  BY TransportAssumption DEF CarefulInv, LinesFit
<1>3. reader[c] \in {"serving", "redirected"} /\ Live(c)
  <2>1. reader[c] \in ReaderSteps
    BY DEF TypeOK
  <2> QED
    BY <1>1, <1>2, <2>1 DEF LineFits, ReaderSteps, Handing, Live, CleanedUp
<1>4. Idle(p)
  BY <1>1, <1>2, <1>3, IdleFacts
<1>5. CASE ForgetPending(c)
  <2>1. /\ UNCHANGED leaving /\ closer[c] = "pending" /\ closer'[c] = "leave"
        /\ \A d \in Conn \ {c} : closer'[d] = closer[d]
    BY <1>2, <1>4, <1>5, StepMoves DEF ForgetPending, Idle
  <2>2. \A n \in Node : pending'[n][p] = None
    <3>1. /\ pending \in [Node -> [Player -> Conn \cup {None}]]
          /\ pending' = [pending EXCEPT ![At[c]][p] = None]
          /\ \A n \in Node : pending[n][p] = None
      BY <1>4, <1>5 DEF TypeOK, Idle, ForgetPending
    <3> QED
      BY <1>2, <3>1, SMT
  <2>3. LineFits(c)'
    BY <1>1, <1>2, <1>3, <2>1 DEF LineFits, Handing
  <2> QED
    BY <1>1, <1>3, <1>4, <2>1, <2>2, <2>3, IdleMoves
<1>6. CASE Leave(c)
  <2>1. \A n \in Node : pending'[n][p] = None
    BY <1>4, <1>6 DEF Idle, Leave
  <2>2. /\ leaving'[c] = current[c] /\ \A d \in Conn \ {c} : leaving'[d] = leaving[d]
        /\ closer[c] = "leave"
    BY <1>6 DEF Leave, TypeOK
  <2>3. /\ closer'[c] = IF current[c] = 0 THEN "closed" ELSE "disconnect"
        /\ \A d \in Conn \ {c} : closer'[d] = closer[d]
    BY <1>6, StepMoves DEF Leave
  <2>4. LineFits(c)'
    BY <1>1, <1>2, <1>3, <2>3 DEF LineFits, Handing
  <2> QED
    BY <1>1, <1>3, <1>4, <2>1, <2>2, <2>3, <2>4, IdleMoves
<1> QED
  BY <1>5, <1>6

\* The clean-up of the player's connection tells the room, and saves the record.
LEMMA OwnDisconnect ==
  ASSUME TypeOK, TransportInv, TypeOK', NEW p \in Player, Careful(p), CarefulInv(p), NEW c \in Conn,
         Owner[c] = p, Disconnect(c) \/ BindAtClose(c)
  PROVE  CarefulInv(p)'
<1>1. /\ UNCHANGED <<queue, pending, current, job, reader, leaving>>
      /\ closer[c] \in {"disconnect", "bind"}
  BY DEF Disconnect, BindAtClose
<1>2. LinesFit(p) /\ WaitFits(p) /\ HomeFits(p) /\ LineFits(c) /\ At[c] \in Node
  BY TransportAssumption DEF CarefulInv, LinesFit
<1>3. reader[c] = "serving" /\ Live(c) /\ current[c] # 0
  <2>1. reader[c] \in ReaderSteps
    BY DEF TypeOK
  <2> QED
    BY <1>1, <1>2, <2>1 DEF LineFits, ReaderSteps, Handing, Live, CleanedUp
<1>4. Idle(p)
  BY <1>1, <1>2, <1>3, IdleFacts
<1>5. \A d \in Conn : Owner[d] = p /\ Live(d) => d = c
  BY <1>2, <1>3 DEF LinesFit, OneLine
<1>6. /\ closer'[c] \in {"bind", "closed"} /\ \A d \in Conn \ {c} : closer'[d] = closer[d]
      /\ Disconnect(c) => closer'[c] = "bind"
  BY StepMoves DEF Disconnect, BindAtClose
<1>7. LinesFit(p)'
  <2>1. LineFits(c)'
    BY <1>1, <1>3, <1>6 DEF LineFits, Handing
  <2> QED
    BY <1>1, <1>2, <1>3, <1>6, <2>1, LinesMove
<1>8. Idle(p)'
  BY <1>1, <1>4 DEF Idle, Queued, Held
<1>9. WaitFits(p)'
  <2>1. \A d \in Conn : Owner[d] = p => reader'[d] \notin {"enqueue", "create"}
    BY <1>1, <1>3, <1>5 DEF Live, CleanedUp, AtRest
  <2> QED
    BY <1>8, <2>1, IdleWaits
<1>10. \A r : Runs(p, r) => /\ current[c] = r /\ leaving[c] = r
                            /\ closer[c] = "bind" => p \notin rooms[r].connected
  <2> SUFFICES ASSUME NEW r, Runs(p, r)
               PROVE  /\ current[c] = r /\ leaving[c] = r
                      /\ closer[c] = "bind" => p \notin rooms[r].connected
    OBVIOUS
  <2>1. PlaysIn(p, r)
    BY <1>2, <1>3, <1>4 DEF HomeFits, SeatingIn, AwayFrom, Idle
  <2>2. r # 0
    BY RoomsType, SMT DEF Runs
  <2>3. PICK d \in Conn : /\ Owner[d] = p /\ current[d] = r /\ closer[d] # "closed"
                          /\ closer[d] = "bind" => p \notin rooms[r].connected
                          /\ closer[d] \in {"disconnect", "bind"} => leaving[d] = r
    BY <2>1 DEF PlaysIn
  <2>4. d = c
    BY <1>2, <1>5, <2>2, <2>3, BoundLive
  <2> QED
    BY <1>1, <2>3, <2>4
<1>11. CASE Disconnect(c)
  <2> DEFINE who == IF rooms[leaving[c]].life = "Gone" THEN rooms[leaving[c]].connected
                    ELSE rooms[leaving[c]].connected \ {p}
  <2>1. leaving[c] \in DOMAIN rooms /\ UNCHANGED session
    BY <1>11 DEF Disconnect, TransportInv, RoomIsOwn, HasSeat
  <2>2. who \subseteq rooms[leaving[c]].connected /\ who \subseteq Player
    BY <2>1, RoomsType DEF Room
  <2>3. rooms' = [rooms EXCEPT ![leaving[c]].connected = who]
    BY <1>11 DEF Disconnect
  <2>4. rooms[leaving[c]].life # "Gone" => p \notin who
    OBVIOUS
  <2> HIDE DEF who
  <2>5. RoomsGrow /\ Len(rooms') = Len(rooms)
    BY <2>1, <2>2, <2>3, ConnectedChanges
  <2>6. \A s \in DOMAIN rooms :
          /\ rooms'[s].life = rooms[s].life
          /\ rooms'[s].connected = IF s = leaving[c] THEN who ELSE rooms[s].connected
    BY <2>1, <2>3, RoomEntry, SMT
  <2>7. DOMAIN rooms' = DOMAIN rooms /\ DOMAIN rooms = 1..Len(rooms)
    BY <2>5, RoomsType, SMT DEF RoomsGrow
  <2>8. \A s \in DOMAIN rooms : Seated(p, s)' <=> Seated(p, s)
    BY <2>5, <2>7 DEF RoomsGrow, Seated
  <2>9. \A s \in DOMAIN rooms' : p \in rooms'[s].connected => Seated(p, s)'
    BY <1>2, <2>2, <2>6, <2>7, <2>8 DEF HomeFits
  <2>10. ASSUME NEW r, Runs(p, r)'
         PROVE  PlaysIn(p, r)'
    <3>1. Runs(p, r) /\ rooms[r].life = "Active"
      BY <2>6, <2>7, <2>8, <2>10 DEF Runs
    <3>2. current[c] = r /\ leaving[c] = r
      BY <1>10, <3>1
    <3>3. p \notin rooms'[r].connected
      BY <2>4, <2>6, <3>1, <3>2 DEF Runs
    <3>4. closer'[c] = "bind" /\ current'[c] = r /\ leaving'[c] = r
      BY <1>1, <1>6, <1>11, <3>2
    <3> QED
      BY <1>8, <3>3, <3>4 DEF PlaysIn, Idle
  <2> QED
    BY <1>7, <1>9, <2>9, <2>10 DEF CarefulInv, HomeFits
<1>12. CASE BindAtClose(c)
  <2>1. /\ UNCHANGED rooms /\ closer[c] = "bind" /\ closer'[c] = "closed"
        /\ session' = [session EXCEPT ![p] = [room |-> leaving[c], owner |-> At[c]]]
    BY <1>12, StepMoves DEF BindAtClose, SaveSession, Careful
  <2>2. session'[p].room = leaving[c]
    BY <2>1 DEF TypeOK
  <2>3. \A d \in Conn : Owner[d] = p => ~Live(d)'
    <3>1. ~Live(c)'
      BY <1>1, <1>3, <2>1 DEF Live, CleanedUp, AtRest
    <3>2. \A d \in Conn \ {c} : Live(d)' <=> Live(d)
      BY <1>1, <1>6 DEF Live, CleanedUp, AtRest
    <3> QED
      BY <1>5, <3>1, <3>2
  <2>4. ASSUME NEW r, Runs(p, r)'
        PROVE  AwayFrom(p, r)'
    <3>1. Runs(p, r)
      BY <2>1, <2>4 DEF Runs, Seated
    <3>2. leaving[c] = r /\ p \notin rooms'[r].connected
      BY <1>10, <2>1, <3>1
    <3> QED
      BY <2>2, <2>3, <3>2 DEF AwayFrom
  <2>5. \A s \in DOMAIN rooms' : p \in rooms'[s].connected => Seated(p, s)'
    BY <1>2, <2>1 DEF HomeFits, Seated
  <2> QED
    BY <1>7, <1>9, <2>4, <2>5 DEF CarefulInv, HomeFits
<1> QED
  BY <1>11, <1>12

\* While the player dials in, every running game of theirs waits for them to come back.
LEMMA DialsAway ==
  ASSUME TypeOK, NEW p, CarefulInv(p), Idle(p), NEW c \in Conn, Owner[c] = p,
         reader[c] \in {"load", "resume"}, NEW r, Runs(p, r)
  PROVE  AwayFrom(p, r)
<1>1. LinesFit(p) /\ r # 0
  BY RoomsType, SMT DEF CarefulInv, Runs
<1>2. ~PlaysIn(p, r)
  <2> SUFFICES ASSUME NEW d \in Conn, Owner[d] = p, current[d] = r, closer[d] # "closed"
               PROVE  FALSE
    BY DEF PlaysIn
  <2>1. Live(d) /\ reader[d] \notin {"unborn", "load", "resume", "redirected"}
    BY <1>1, BoundLive
  <2>2. Live(c)
    BY DEF Live, CleanedUp, AtRest
  <2>3. c = d
    BY <1>1, <2>1, <2>2 DEF LinesFit, OneLine
  <2> QED
    BY <2>1, <2>3
<1> QED
  BY <1>2 DEF CarefulInv, HomeFits, SeatingIn, Idle

\* tryResume loads the player's record.
LEMMA OwnLoad ==
  ASSUME TypeOK, TransportInv, TypeOK', NEW p \in Player, Careful(p), CarefulInv(p), NEW c \in Conn,
         Owner[c] = p, LoadSession(c)
  PROVE  CarefulInv(p)'
<1>1. UNCHANGED <<queue, pending, rooms, session, current, leaving>> /\ reader[c] = "load"
  BY DEF LoadSession
<1>2. LinesFit(p) /\ WaitFits(p) /\ HomeFits(p) /\ LineFits(c) /\ job \in [Conn -> Job] /\ job[c] \in Job
  BY DEF CarefulInv, LinesFit, TypeOK
<1>3. Live(c) /\ closer[c] = "unborn" /\ current[c] = 0
  BY <1>1, <1>2 DEF Live, CleanedUp, AtRest, LineFits
<1>4. Idle(p)
  BY <1>1, <1>2, <1>3, IdleFacts
<1>5. \A d \in Conn : Owner[d] = p /\ Live(d) => d = c
  BY <1>2, <1>3 DEF LinesFit, OneLine
<1>6. CASE session[p] = NoRecord /\ Serve(c) /\ UNCHANGED job
  <2>1. /\ reader'[c] = "serving" /\ closer'[c] = "open"
        /\ \A d \in Conn \ {c} : reader'[d] = reader[d] /\ closer'[d] = closer[d]
    BY <1>3, <1>6, ServeMoves
  <2>2. LinesFit(p)'
    <3>1. LineFits(c)'
      BY <2>1 DEF LineFits, Handing
    <3> QED
      BY <1>1, <1>2, <1>3, <2>1, <3>1, LinesMove
  <2>3. WaitFits(p)'
    <3>1. Idle(p)'
      BY <1>1, <1>4, <1>6 DEF Idle, Queued, Held
    <3>2. \A d \in Conn : Owner[d] = p => reader'[d] \notin {"enqueue", "create"}
      BY <1>5, <2>1 DEF Live, CleanedUp, AtRest
    <3> QED
      BY <3>1, <3>2, IdleWaits
  <2>4. HomeFits(p)'
    <3>1. ASSUME NEW r, Runs(p, r)
          PROVE  FALSE
      <4>1. AwayFrom(p, r)
        BY <1>1, <1>4, <3>1, DialsAway
      <4>2. session[p].room = 0
        BY <1>6, SMT DEF NoRecord
      <4>3. r # 0
        BY <3>1, RoomsType, SMT DEF Runs
      <4> QED
        BY <4>1, <4>2, <4>3 DEF AwayFrom
    <3> QED
      BY <1>1, <1>2, <3>1, HomeOutside
  <2> QED
    BY <2>2, <2>3, <2>4 DEF CarefulInv
<1>7. CASE /\ job' = [job EXCEPT ![c].room = session[Owner[c]].room,
                                 ![c].owner = session[Owner[c]].owner]
           /\ GoTo(c, "resume") /\ UNCHANGED closer
  <2>1. /\ reader'[c] = "resume" /\ \A d \in Conn \ {c} : reader'[d] = reader[d]
    BY <1>7, StepMoves
  <2>2. /\ job'[c].left = job[c].left /\ job'[c].room = session[p].room
        /\ \A d \in Conn \ {c} : job'[d] = job[d]
    BY <1>2, <1>7, SMT DEF Job
  <2>3. LinesFit(p)'
    <3>1. LineFits(c)'
      BY <1>1, <1>3, <1>7, <2>1 DEF LineFits, Handing
    <3> QED
      BY <1>1, <1>2, <1>3, <1>7, <2>1, <3>1, LinesMove
  <2>4. Idle(p)'
    <3>1. \A d \in Conn : job'[d].left = job[d].left
      BY <2>2
    <3> QED
      BY <1>1, <1>4, <3>1 DEF Idle, Queued, Held
  <2>5. WaitFits(p)'
    <3>1. \A d \in Conn : Owner[d] = p => reader'[d] \notin {"enqueue", "create"}
      BY <1>5, <2>1 DEF Live, CleanedUp, AtRest
    <3> QED
      BY <2>4, <3>1, IdleWaits
  <2>6. HomeFits(p)'
    <3>1. \A s \in DOMAIN rooms' : p \in rooms'[s].connected => Seated(p, s)'
      BY <1>1, <1>2 DEF HomeFits, Seated
    <3>2. ASSUME NEW r, Runs(p, r)'
          PROVE  AwayFrom(p, r)'
      <4>1. Runs(p, r)
        BY <1>1, <3>2 DEF Runs, Seated
      <4>2. AwayFrom(p, r)
        BY <1>1, <1>4, <4>1, DialsAway
      <4>3. job'[c].room = r /\ p \notin rooms'[r].connected /\ session'[p].room = r
        BY <1>1, <2>2, <4>2 DEF AwayFrom
      <4>4. \A d \in Conn \ {c} : Owner[d] = p => ~Live(d)'
        BY <1>5, <1>7, <2>1 DEF Live, CleanedUp, AtRest
      <4> QED
        BY <2>1, <4>3, <4>4 DEF AwayFrom
    <3> QED
      BY <3>1, <3>2 DEF HomeFits
  <2> QED
    BY <2>3, <2>5, <2>6 DEF CarefulInv
<1> QED
  BY <1>6, <1>7 DEF LoadSession, Careful

\* tryResume brings the player back into the room.
LEMMA OwnResume ==
  ASSUME TypeOK, TransportInv, TypeOK', NEW p \in Player, CarefulInv(p), NEW c \in Conn,
         Owner[c] = p, Resume(c), CanResume(job[c].room, c)
  PROVE  CarefulInv(p)'
<1>1. /\ UNCHANGED <<queue, pending, session, current, leaving, closer>> /\ reader[c] = "resume"
      /\ rooms' = [rooms EXCEPT ![job[c].room].connected = rooms[job[c].room].connected \cup {p}]
      /\ job' = [job EXCEPT ![c].left = <<p>>, ![c].who = c] /\ GoTo(c, "attach")
  BY DEF Resume
<1>2. LinesFit(p) /\ WaitFits(p) /\ HomeFits(p) /\ LineFits(c) /\ job \in [Conn -> Job] /\ job[c] \in Job
  BY DEF CarefulInv, LinesFit, TypeOK
<1>3. Live(c) /\ closer[c] = "unborn" /\ current[c] = 0
  BY <1>1, <1>2 DEF Live, CleanedUp, AtRest, LineFits
<1>4. Idle(p)
  BY <1>1, <1>2, <1>3, IdleFacts
<1>5. \A d \in Conn : Owner[d] = p /\ Live(d) => d = c
  BY <1>2, <1>3 DEF LinesFit, OneLine
<1>6. reader'[c] = "attach" /\ \A d \in Conn \ {c} : reader'[d] = reader[d]
  BY <1>1, StepMoves
<1>7. /\ job'[c].left = <<p>> /\ job'[c].room = job[c].room /\ job'[c].who = c
      /\ \A d \in Conn \ {c} : job'[d] = job[d]
  BY <1>1, <1>2, SMT DEF Job
<1>8. <<p>> # <<>> /\ Head(<<p>>) = p /\ Range(<<p>>) = {p}
  <2>1. Range(<<p>>) = {p}
    BY PairSeq
  <2>2. <<p>> # <<>> /\ Head(<<p>>) = p
    BY SMT
  <2> QED
    BY <2>1, <2>2
<1>9. Held(p, c)' /\ \A d \in Conn \ {c} : ~Held(p, d)'
  BY <1>4, <1>7, <1>8 DEF Idle, Held
<1>10. InHand(p, c)' /\ \A d \in Conn \ {c} : ~InHand(p, d)'
  <2>1. InHand(p, c)'
    BY <1>6, <1>7, <1>8 DEF InHand, Handing
  <2> QED
    BY <1>9, <2>1, HandHeldNext
<1>11. LinesFit(p)'
  <2>1. LineFits(c)'
    BY <1>1, <1>3, <1>6 DEF LineFits, Handing
  <2> QED
    BY <1>1, <1>2, <1>3, <1>6, <2>1, LinesMove
<1>12. \A n \in Node : pending'[n][p] = None /\ ~Queued(p, n)'
  BY <1>1, <1>4 DEF Idle, Queued
<1>13. PendingFits(p)' /\ QueueFits(p)'
  BY <1>12 DEF PendingFits, QueueFits
<1>14. HeldFits(p)'
  <2>1. \A i, j \in DOMAIN <<p>> : i = j
    BY SMT
  <2>2. \A d \in Conn \ {c} : \A i \in DOMAIN job'[d].left : job'[d].left[i] # p
    BY <1>9 DEF Held, Range
  <2>3. \A d \in Conn : \A i, j \in DOMAIN job'[d].left :
          job'[d].left[i] = p /\ job'[d].left[j] = p => i = j
    BY <1>7, <2>1, <2>2
  <2> QED
    BY <1>6, <1>9, <1>10, <2>3 DEF HeldFits, Handing
<1>15. HandFits(p)'
  <2>1. job'[c].who = c /\ current'[c] = 0 /\ reader'[c] = "attach"
    BY <1>1, <1>3, <1>6, <1>7
  <2>2. \A d \in Conn : InHand(p, d)' => d = c
    BY <1>10
  <2> QED
    BY <1>12, <2>1, <2>2 DEF HandFits
<1>16. AskFits(p)'
  <2>1. \A d \in Conn : Owner[d] = p => reader'[d] \notin {"enqueue", "create"}
    BY <1>5, <1>6 DEF Live, CleanedUp, AtRest
  <2> QED
    BY <2>1 DEF AskFits
<1>17. HomeFits(p)'
  <2> DEFINE who == rooms[job[c].room].connected \cup {p}
  <2>1. job[c].room \in DOMAIN rooms /\ Seated(p, job[c].room)
    BY <1>1 DEF TransportInv, JobIsOwn, HasSeat
  <2>2. who \subseteq Player /\ p \in who
    BY <2>1, RoomsType DEF Room
  <2>3. rooms' = [rooms EXCEPT ![job[c].room].connected = who]
    BY <1>1
  <2> HIDE DEF who
  <2>4. RoomsGrow /\ Len(rooms') = Len(rooms)
    BY <2>1, <2>2, <2>3, ConnectedChanges
  <2>5. \A s \in DOMAIN rooms :
          /\ rooms'[s].life = rooms[s].life
          /\ rooms'[s].connected = IF s = job[c].room THEN who ELSE rooms[s].connected
    BY <2>1, <2>3, RoomEntry, SMT
  <2>6. DOMAIN rooms' = DOMAIN rooms /\ DOMAIN rooms = 1..Len(rooms)
    BY <2>4, RoomsType, SMT DEF RoomsGrow
  <2>7. \A s \in DOMAIN rooms : Seated(p, s)' <=> Seated(p, s)
    BY <2>4, <2>6 DEF RoomsGrow, Seated
  <2>8. \A s \in DOMAIN rooms' : p \in rooms'[s].connected => Seated(p, s)'
    BY <1>2, <2>1, <2>5, <2>6, <2>7 DEF HomeFits
  <2>9. ASSUME NEW r, Runs(p, r)'
        PROVE  SeatingIn(p, r)'
    <3>1. Runs(p, r)
      BY <2>5, <2>6, <2>7, <2>9 DEF Runs
    <3>2. AwayFrom(p, r)
      BY <1>1, <1>4, <3>1, DialsAway
    <3>3. job[c].room = r
      BY <1>1, <1>3, <3>2 DEF AwayFrom
    <3>4. p \in rooms'[r].connected
      BY <2>1, <2>2, <2>5, <3>3
    <3> QED
      BY <1>6, <1>7, <1>9, <3>3, <3>4 DEF SeatingIn
  <2> QED
    BY <2>8, <2>9 DEF HomeFits
<1> QED
  BY <1>11, <1>13, <1>14, <1>15, <1>16, <1>17 DEF CarefulInv, WaitFits

\* tryResume finds no such room on this node: the player is redirected, or plays nowhere.
LEMMA OwnRefused ==
  ASSUME TypeOK, TransportInv, TypeOK', NEW p \in Player, CarefulInv(p), NEW c \in Conn,
         Owner[c] = p, Resume(c), ~CanResume(job[c].room, c)
  PROVE  CarefulInv(p)'
<1>1. /\ UNCHANGED <<queue, pending, rooms, session, current, leaving>> /\ reader[c] = "resume"
      /\ IF job[c].owner # At[c] THEN Redirect(c) ELSE Serve(c)
      /\ job' = [job EXCEPT ![c] = NoJob]
  BY DEF Resume
<1>2. LinesFit(p) /\ WaitFits(p) /\ HomeFits(p) /\ LineFits(c) /\ job \in [Conn -> Job]
  BY DEF CarefulInv, LinesFit, TypeOK
<1>3. Live(c) /\ closer[c] = "unborn" /\ current[c] = 0
  BY <1>1, <1>2 DEF Live, CleanedUp, AtRest, LineFits
<1>4. Idle(p)
  BY <1>1, <1>2, <1>3, IdleFacts
<1>5. \A d \in Conn : Owner[d] = p /\ Live(d) => d = c
  BY <1>2, <1>3 DEF LinesFit, OneLine
<1>6. /\ reader'[c] = (IF job[c].owner # At[c] THEN "redirected" ELSE "serving") /\ closer'[c] = "open"
      /\ \A d \in Conn \ {c} : reader'[d] = reader[d] /\ closer'[d] = closer[d]
  BY <1>1, <1>3, ServeMoves, RedirectMoves
<1>7. job'[c].left = <<>> /\ \A d \in Conn \ {c} : job'[d] = job[d]
  BY <1>1, <1>2 DEF NoJob
<1>8. LinesFit(p)'
  <2>1. LineFits(c)'
    BY <1>1, <1>3, <1>6 DEF LineFits, Handing
  <2> QED
    BY <1>1, <1>2, <1>3, <1>6, <2>1, LinesMove
<1>9. WaitFits(p)'
  <2>1. \A d \in Conn : ~Held(p, d)'
    <3>1. ~Held(p, c)'
      BY <1>7, SMT DEF Held, Range
    <3> QED
      BY <1>4, <1>7, <3>1 DEF Idle, Held
  <2>2. Idle(p)'
    BY <1>1, <1>4, <2>1 DEF Idle, Queued
  <2>3. \A d \in Conn : Owner[d] = p => reader'[d] \notin {"enqueue", "create"}
    BY <1>5, <1>6 DEF Live, CleanedUp, AtRest
  <2> QED
    BY <2>2, <2>3, IdleWaits
<1>10. HomeFits(p)'
  <2>1. \A s \in DOMAIN rooms' : p \in rooms'[s].connected => Seated(p, s)'
    BY <1>1, <1>2 DEF HomeFits, Seated
  <2>2. ASSUME NEW r, Runs(p, r)'
        PROVE  AwayFrom(p, r)'
    <3>1. Runs(p, r)
      BY <1>1, <2>2 DEF Runs, Seated
    <3>2. AwayFrom(p, r)
      BY <1>1, <1>4, <3>1, DialsAway
    <3>3. job[c].room = r
      BY <1>1, <1>3, <3>2 DEF AwayFrom
    <3>4. rooms[r].node # At[c]
      BY <3>1, <3>3 DEF CanResume, Runs, Seated
    <3>5. job[c].owner = rooms[r].node
      BY <1>1, <3>3 DEF TransportInv, JobIsOwn, HasSeat
    <3>6. reader'[c] = "redirected"
      BY <1>6, <3>4, <3>5
    <3>7. \A d \in Conn \ {c} : Owner[d] = p => ~Live(d)'
      BY <1>5, <1>6 DEF Live, CleanedUp, AtRest
    <3> QED
      BY <1>1, <3>2, <3>6, <3>7 DEF AwayFrom
  <2> QED
    BY <2>1, <2>2 DEF HomeFits
<1> QED
  BY <1>8, <1>9, <1>10 DEF CarefulInv

\* The player's record runs out.
LEMMA OwnExpire ==
  ASSUME TypeOK, TransportInv, TypeOK', NEW p \in Player, CarefulInv(p), Expire(p)
  PROVE  CarefulInv(p)'
<1>1. /\ UNCHANGED <<queue, pending, rooms, current, reader, job, closer, leaving>>
      /\ session' = [session EXCEPT ![p] = NoRecord]
  BY DEF Expire
<1>2. session'[p].room = 0
  <2>1. session'[p] = NoRecord
    BY <1>1 DEF TypeOK
  <2> QED
    BY <2>1, SMT DEF NoRecord
<1>3. SameLines(p)
  BY <1>1 DEF SameLines
<1>4. SameWait(p)
  <2>1. \A d \in Conn : InHand(p, d)' <=> InHand(p, d)
    BY <1>1 DEF InHand
  <2> QED
    BY <1>1, <2>1, WaitSame DEF CarefulInv
<1>5. LinesFit(p)' /\ WaitFits(p)'
  BY <1>3, <1>4, LinesStay, WaitStays DEF CarefulInv
<1>6. \A d \in Conn : Held(p, d)' <=> Held(p, d)
  BY <1>1 DEF Held
<1>7. ASSUME NEW r, Runs(p, r)'
      PROVE  SeatingIn(p, r)' \/ PlaysIn(p, r)'
  <2>1. Runs(p, r)
    BY <1>1, <1>7 DEF Runs, Seated
  <2>2. ~AwayFrom(p, r)
    BY <2>1 DEF Expire, AwayFrom, Runs
  <2>3. CASE SeatingIn(p, r)
    BY <1>1, <1>6, <2>3 DEF SeatingIn
  <2>4. CASE PlaysIn(p, r)
    BY <1>1, <1>2, <1>6, <2>4 DEF PlaysIn
  <2> QED
    BY <2>1, <2>2, <2>3, <2>4 DEF CarefulInv, HomeFits
<1>8. HomeFits(p)'
  BY <1>1, <1>7 DEF CarefulInv, HomeFits, Seated
<1> QED
  BY <1>5, <1>8 DEF CarefulInv

\* A node crashes.
LEMMA CrashCareful ==
  ASSUME TypeOK, TransportInv, TypeOK', NEW p \in Player, CarefulInv(p), NEW n \in Node, Crash(n)
  PROVE  CarefulInv(p)'
<1> DEFINE Lost(d) == At[d] = n /\ reader[d] # "unborn"
<1>1. /\ UNCHANGED <<session, current, leaving>>
      /\ \A d \in Conn : Lost(d) => reader'[d] = "serving" /\ closer'[d] = "closed" /\ job'[d] = NoJob
      /\ \A d \in Conn : ~Lost(d) =>
           reader'[d] = reader[d] /\ closer'[d] = closer[d] /\ job'[d] = job[d]
  BY DEF Crash
<1>2. /\ \A q \in Player : pending'[n][q] = None
      /\ \A m \in Node \ {n} : pending'[m] = pending[m]
      /\ queue'[n] = <<>> /\ \A m \in Node \ {n} : queue'[m] = queue[m]
  BY DEF Crash, TypeOK
<1>3. LinesFit(p) /\ WaitFits(p) /\ HomeFits(p)
  BY DEF CarefulInv
<1> HIDE DEF Lost
<1>4. \A d \in Conn : At[d] # n => ~Lost(d)
  BY DEF Lost
<1>5. \A d \in Conn : Lost(d) => ~Live(d)' /\ ~Held(p, d)' /\ ~InHand(p, d)'
  <2> SUFFICES ASSUME NEW d \in Conn, Lost(d)
               PROVE  ~Live(d)' /\ ~Held(p, d)' /\ ~InHand(p, d)'
    OBVIOUS
  <2>1. job'[d].left = <<>> /\ reader'[d] = "serving" /\ closer'[d] = "closed"
    BY <1>1, SMT DEF NoJob
  <2>2. ~Held(p, d)'
    BY <2>1, SMT DEF Held, Range
  <2> QED
    BY <2>1, <2>2 DEF Live, CleanedUp, AtRest, InHand, Handing
<1>6. \A d \in Conn : ~Lost(d) =>
        /\ (Live(d)' <=> Live(d)) /\ (Held(p, d)' <=> Held(p, d)) /\ (InHand(p, d)' <=> InHand(p, d))
  BY <1>1 DEF Live, CleanedUp, AtRest, Held, InHand
<1>7. LinesFit(p)'
  <2>1. OneLine(p)'
    BY <1>3, <1>5, <1>6 DEF LinesFit, OneLine
  <2>2. ASSUME NEW d \in Conn, Owner[d] = p
        PROVE  LineFits(d)'
    <3>1. LineFits(d)
      BY <1>3, <2>2 DEF LinesFit
    <3>2. CASE Lost(d)
      <4>1. reader'[d] = "serving" /\ closer'[d] = "closed"
        BY <1>1, <3>2
      <4> QED
        BY <4>1 DEF LineFits, Handing
    <3>3. CASE ~Lost(d)
      <4>1. reader'[d] = reader[d] /\ closer'[d] = closer[d] /\ current'[d] = current[d]
        BY <1>1, <3>3
      <4> QED
        BY <3>1, <4>1 DEF LineFits
    <3> QED
      BY <3>2, <3>3
  <2> QED
    BY <2>1, <2>2 DEF LinesFit
<1>8. \A d \in Conn : Held(p, d)' => Held(p, d) /\ ~Lost(d) /\ At[d] # n
  <2>1. \A d \in Conn : Held(p, d) => reader[d] # "unborn"
    BY <1>3 DEF WaitFits, HeldFits, Handing
  <2> QED
    BY <1>5, <1>6, <2>1 DEF Lost
<1>9. \A m \in Node : /\ pending'[m][p] # None => m # n /\ pending'[m][p] = pending[m][p]
                      /\ Queued(p, m)' => m # n /\ Queued(p, m)
  <2>1. ~Queued(p, n)'
    BY <1>2, SMT DEF Queued, Range
  <2> QED
    BY <1>2, <2>1 DEF Queued
<1>10. PendingFits(p)'
  <2> SUFFICES ASSUME NEW m \in Node, NEW w \in Conn, pending'[m][p] = w, w # None
               PROVE  /\ closer'[w] = "open" /\ current'[w] = 0
                      /\ reader'[w] \in {"enqueue", "clear", "serving"} \/ Held(p, w)'
                      /\ Queued(p, m)' => reader'[w] = "serving"
                      /\ \A d \in Conn : Held(p, d)' =>
                           At[d] = m /\ ~InHand(p, d)' /\ (d = w \/ reader'[w] = "serving")
                      /\ \/ Queued(p, m)' \/ reader'[w] \in {"enqueue", "clear"}
                         \/ \E d \in Conn : Held(p, d)'
    <3>1. pending' \in [Node -> [Player -> Conn \cup {None}]]
      BY DEF TypeOK
    <3>2. \A m \in Node : pending'[m] \in [Player -> Conn \cup {None}]
      BY <3>1
    <3>3. \A m \in Node : pending'[m][p] # None => pending'[m][p] \in Conn
      BY <3>2, SMT
    <3> QED
      BY <3>3 DEF PendingFits
  <2>1. m # n /\ pending[m][p] = w
    BY <1>9
  <2>2. At[w] = m
    <3>1. PendingIsOwn
      BY DEF TransportInv
    <3> QED
      BY <2>1, <3>1 DEF PendingIsOwn
  <2>3. reader'[w] = reader[w] /\ closer'[w] = closer[w] /\ current'[w] = current[w]
    BY <1>1, <1>4, <2>1, <2>2
  <2>4. /\ closer[w] = "open" /\ current[w] = 0
        /\ reader[w] \in {"enqueue", "clear", "serving"} \/ Held(p, w)
        /\ Queued(p, m) => reader[w] = "serving"
        /\ \A d \in Conn : Held(p, d) =>
             At[d] = m /\ ~InHand(p, d) /\ (d = w \/ reader[w] = "serving")
        /\ Queued(p, m) \/ reader[w] \in {"enqueue", "clear"} \/ \E d \in Conn : Held(p, d)
    BY <1>3, <2>1, SMT DEF WaitFits, PendingFits
  <2>5. Queued(p, m)' <=> Queued(p, m)
    BY <1>2, <2>1 DEF Queued
  <2>6. \A d \in Conn : (Held(p, d)' <=> Held(p, d)) /\ (InHand(p, d)' => InHand(p, d))
    BY <1>4, <1>5, <1>6, <2>1, <2>4
  <2> QED
    BY <2>3, <2>4, <2>5, <2>6
<1>11. QueueFits(p)'
  BY <1>2, <1>3, <1>8, <1>9 DEF WaitFits, QueueFits
<1>12. HeldFits(p)'
  <2>1. ASSUME NEW d \in Conn, Held(p, d)'
        PROVE  /\ reader'[d] \in Handing \cup {"create", "seat"}
               /\ InHand(p, d)' \/ pending'[At[d]][p] # None
    BY <1>1, <1>2, <1>3, <1>6, <1>8, <2>1, TransportAssumption DEF WaitFits, HeldFits
  <2>2. \A d, e \in Conn : Held(p, d)' /\ Held(p, e)' => d = e
    BY <1>3, <1>8 DEF WaitFits, HeldFits
  <2>3. ASSUME NEW d \in Conn
        PROVE  \A i, j \in DOMAIN job'[d].left : job'[d].left[i] = p /\ job'[d].left[j] = p => i = j
    <3>1. CASE Lost(d)
      BY <1>5, <3>1 DEF Held, Range
    <3>2. CASE ~Lost(d)
      <4>1. job'[d] = job[d]
        BY <1>1, <3>2
      <4>2. \A i, j \in DOMAIN job[d].left : job[d].left[i] = p /\ job[d].left[j] = p => i = j
        BY <1>3 DEF WaitFits, HeldFits
      <4> QED
        BY <4>1, <4>2
    <3> QED
      BY <3>1, <3>2
  <2> QED
    BY <2>1, <2>2, <2>3 DEF HeldFits
<1>13. HandFits(p)'
  <2> SUFFICES ASSUME NEW d \in Conn, InHand(p, d)', NEW w, w = job'[d].who
               PROVE  /\ \A m \in Node : pending'[m][p] = None
                      /\ w = d \/ (closer'[w] = "open" /\ reader'[w] = "serving")
                      /\ current'[w] = IF reader'[d] = "attach" THEN 0 ELSE job'[d].room
    BY DEF HandFits
  <2>1. Held(p, d)'
    BY HandHeldNext
  <2>2. InHand(p, d) /\ ~Lost(d) /\ At[d] # n
    BY <1>6, <1>8, <2>1
  <2>3. w = job[d].who /\ job'[d] = job[d] /\ reader'[d] = reader[d]
    BY <1>1, <2>2
  <2>4. w \in Conn /\ At[w] = At[d]
    <3>1. job[d].who \in Conn /\ At[job[d].who] = At[d]
      BY <1>3, <2>2, HandLive
    <3> QED
      BY <2>3, <3>1
  <2>5. reader'[w] = reader[w] /\ closer'[w] = closer[w] /\ current'[w] = current[w]
    BY <1>1, <1>4, <2>2, <2>4
  <2>6. /\ \A m \in Node : pending[m][p] = None
        /\ w = d \/ (closer[w] = "open" /\ reader[w] = "serving")
        /\ current[w] = IF reader[d] = "attach" THEN 0 ELSE job[d].room
    BY <1>3, <2>2, <2>3 DEF WaitFits, HandFits
  <2>7. \A m \in Node : pending'[m][p] = None
    BY <1>9, <2>6
  <2> QED
    BY <2>3, <2>5, <2>6, <2>7
<1>14. AskFits(p)'
  <2> SUFFICES ASSUME NEW d \in Conn, Owner[d] = p, reader'[d] \in {"enqueue", "create"}
               PROVE  /\ reader'[d] = "enqueue" => pending'[At[d]][p] = d
                      /\ reader'[d] = "create" => Held(p, d)'
    BY DEF AskFits
  <2>1. ~Lost(d) /\ reader'[d] = reader[d]
    BY <1>1
  <2>2. At[d] \in Node \ {n}
    BY <2>1, TransportAssumption DEF Lost
  <2> QED
    BY <1>2, <1>3, <1>6, <2>1, <2>2 DEF WaitFits, AskFits
<1>15. /\ DOMAIN rooms' = DOMAIN rooms
       /\ \A r \in DOMAIN rooms :
            /\ (Seated(p, r)' <=> Seated(p, r)) /\ rooms'[r].connected = rooms[r].connected
            /\ rooms'[r].life = "Active" => rooms[r].life = "Active" /\ rooms[r].node # n
  <2>1. RoomsGrow /\ Len(rooms') = Len(rooms)
    BY CrashRooms
  <2>2. DOMAIN rooms' = DOMAIN rooms /\ DOMAIN rooms = 1..Len(rooms)
    BY <2>1, RoomsType, SMT DEF RoomsGrow
  <2>3. \A r \in DOMAIN rooms : Seated(p, r)' <=> Seated(p, r)
    BY <2>1, <2>2 DEF RoomsGrow, Seated
  <2>4. ASSUME NEW r \in DOMAIN rooms
        PROVE  /\ rooms'[r].connected = rooms[r].connected
               /\ rooms'[r].life = "Active" => rooms[r].life = "Active" /\ rooms[r].node # n
    <3>1. rooms[r] \in Room
      BY RoomsType
    <3>2. rooms'[r] = IF rooms[r].node = n THEN [rooms[r] EXCEPT !.life = "Gone"] ELSE rooms[r]
      BY DEF Crash
    <3> QED
      BY <3>1, <3>2 DEF Room
  <2> QED
    BY <2>2, <2>3, <2>4
<1>16. ASSUME NEW r, Runs(p, r)'
       PROVE  SeatingIn(p, r)' \/ PlaysIn(p, r)' \/ AwayFrom(p, r)'
  <2>1. /\ Runs(p, r) /\ rooms[r].node # n /\ rooms'[r].connected = rooms[r].connected
        /\ r \in DOMAIN rooms
    BY <1>15, <1>16 DEF Runs
  <2>2. CASE SeatingIn(p, r)
    <3>1. PICK d \in Conn : Held(p, d) /\ job[d].room = r /\ reader[d] # "create"
      BY <2>2 DEF SeatingIn
    <3>2. reader[d] \in {"seat", "attach", "register", "bind"}
      BY <1>3, <3>1 DEF WaitFits, HeldFits, Handing
    <3>3. PICK i \in DOMAIN job[d].left : job[d].left[i] = p
      BY <3>1 DEF Held, Range
    <3>4. HasSeat(p, At[d], r)
      BY <3>1, <3>2, <3>3 DEF TransportInv, JobIsOwn
    <3>5. ~Lost(d)
      BY <1>4, <2>1, <3>4 DEF HasSeat
    <3>6. Held(p, d)' /\ job'[d].room = r /\ reader'[d] # "create"
      BY <1>1, <1>6, <3>1, <3>5
    <3> QED
      BY <2>1, <2>2, <3>6 DEF SeatingIn
  <2>3. CASE PlaysIn(p, r)
    <3> DEFINE Binds(c) ==
                 /\ Owner[c] = p /\ current[c] = r
                 /\ \/ /\ closer[c] \in {"unborn", "open", "pending", "leave", "disconnect"}
                       /\ p \in rooms[r].connected /\ session[p].room \in {0, r}
                    \/ closer[c] = "bind" /\ p \notin rooms[r].connected
                 /\ closer[c] \in {"disconnect", "bind"} => leaving[c] = r
    <3>1. PICK c \in Conn : Binds(c)
      BY <2>3 DEF PlaysIn
    <3>2. r # 0
      BY <2>1, RoomsType, SMT
    <3>3. At[c] # n
      BY <2>1, <3>1, <3>2 DEF TransportInv, RoomIsOwn, HasSeat
    <3>4. Binds(c)'
      BY <1>1, <1>4, <2>1, <3>1, <3>3
    <3>5. \A d \in Conn : ~Held(p, d)'
      BY <1>8, <2>3 DEF PlaysIn
    <3> QED
      BY <3>4, <3>5 DEF PlaysIn
  <2>4. CASE AwayFrom(p, r)
    <3>1. ASSUME NEW c \in Conn, Owner[c] = p, Live(c)'
          PROVE  \/ reader'[c] \in {"load", "redirected"}
                 \/ reader'[c] = "resume" /\ job'[c].room = r
      <4>1. ~Lost(c) /\ Live(c)
        BY <1>5, <1>6, <3>1
      <4> QED
        BY <1>1, <2>4, <3>1, <4>1 DEF AwayFrom
    <3> QED
      BY <1>1, <2>1, <2>4, <3>1 DEF AwayFrom
  <2> QED
    BY <1>3, <2>1, <2>2, <2>3, <2>4 DEF HomeFits
<1>17. HomeFits(p)'
  BY <1>3, <1>15, <1>16 DEF HomeFits
<1> QED
  BY <1>7, <1>10, <1>11, <1>12, <1>13, <1>14, <1>17 DEF CarefulInv, WaitFits

-----------------------------------------------------------------------------
(* The promises to a careful player. *)

\* Every step keeps CarefulInv.
LEMMA CarefulStep ==
  ASSUME TypeOK, TransportInv, TypeOK', NEW p \in Player, Careful(p), CarefulInv(p), [Next]_vars
  PROVE  CarefulInv(p)'
<1>1. ASSUME NEW c \in Conn, Reader(c), Owner[c] = p
      PROVE  CarefulInv(p)'
  <2>1. CASE LoadSession(c)
    BY <1>1, <2>1, OwnLoad
  <2>2. CASE Resume(c)
    BY <1>1, <2>2, OwnResume, OwnRefused
  <2>3. CASE FindMatch(c)
    BY <1>1, <2>3, OwnFind
  <2>4. CASE Enqueue(c)
    BY <1>1, <2>4, OwnEnqueue
  <2>5. CASE ClearPending(c)
    BY <1>1, <2>5, OwnClear
  <2>6. CASE AllSeated(c)
    BY <1>1, <2>6, OwnSeated
  <2>7. CASE CreateRoom(c)
    BY <2>7, OwnCreate, OthersCreate
  <2>8. CASE NextPlayer(c)
    BY <2>8, OwnNext, OthersSeat
  <2>9. CASE SetRoom(c)
    BY <2>9, OwnSetRoom, OthersSeat
  <2>10. CASE BindSession(c)
    BY <2>10, OwnBind, OthersSeat
  <2>11. CASE Register(c)
    BY <2>11, OthersSeat
  <2> QED
    BY <1>1, <2>1, <2>2, <2>3, <2>4, <2>5, <2>6, <2>7, <2>8, <2>9, <2>10, <2>11 DEF Reader
<1>2. ASSUME NEW c \in Conn, Reader(c), Owner[c] # p
      PROVE  CarefulInv(p)'
  <2>1. CASE LoadSession(c) \/ Resume(c) \/ AllSeated(c)
    BY <1>2, <2>1, OthersResume
  <2>2. CASE FindMatch(c) \/ ClearPending(c)
    BY <1>2, <2>2, OthersAsk
  <2>3. CASE Enqueue(c)
    BY <1>2, <2>3, OthersEnqueue
  <2>4. CASE CreateRoom(c)
    BY <2>4, OwnCreate, OthersCreate
  <2>5. CASE NextPlayer(c)
    BY <2>5, OwnNext, OthersSeat
  <2>6. CASE SetRoom(c)
    BY <2>6, OwnSetRoom, OthersSeat
  <2>7. CASE BindSession(c)
    BY <2>7, OwnBind, OthersSeat
  <2>8. CASE Register(c)
    BY <2>8, OthersSeat
  <2> QED
    BY <1>2, <2>1, <2>2, <2>3, <2>4, <2>5, <2>6, <2>7, <2>8 DEF Reader
<1>3. ASSUME NEW c \in Conn, Closer(c) \/ Client(c), Owner[c] = p
      PROVE  CarefulInv(p)'
  <2>1. CASE Dial(c) \/ ReadMessage(c) \/ Close(c)
    BY <1>3, <2>1, OwnClient
  <2>2. CASE ForgetPending(c) \/ Leave(c)
    BY <1>3, <2>2, OwnLeave
  <2>3. CASE Disconnect(c) \/ BindAtClose(c)
    BY <1>3, <2>3, OwnDisconnect
  <2>4. ~Dequeue(c)
    BY <1>3 DEF Dequeue, CarefulInv, LinesFit, LineFits
  <2> QED
    BY <1>3, <2>1, <2>2, <2>3, <2>4 DEF Closer, Client
<1>4. ASSUME NEW c \in Conn, Closer(c) \/ Client(c), Owner[c] # p
      PROVE  CarefulInv(p)'
  BY <1>4, OthersAsk, OthersLeave DEF Closer, Client
<1>5. CASE \E c \in Conn : Reader(c) \/ Closer(c) \/ Client(c)
  BY <1>1, <1>2, <1>3, <1>4, <1>5
<1>6. CASE (\E r \in DOMAIN rooms : GameEnds(r) \/ Collect(r)) \/ UNCHANGED vars
  BY <1>6, OthersEnd
<1>7. CASE \E q \in Player : Expire(q)
  BY <1>7, OthersEnd, OwnExpire
<1>8. CASE \E n \in Node : Crash(n)
  BY <1>8, CrashCareful
<1> QED
  BY <1>5, <1>6, <1>7, <1>8 DEF Next

\* Every player the properties follow is where CarefulInv says, when they are careful.
THEOREM CarefulCorrect ==
  ASSUME \A p \in Checked : Careful(p)
  PROVE  Spec => [](\A p \in Checked : CarefulInv(p))
<1> DEFINE AllFit == \A p \in Checked : CarefulInv(p)
<1>1. Checked \subseteq Player
  BY TransportAssumption
<1>2. Init => AllFit
  <2> SUFFICES ASSUME Init, NEW p \in Checked
               PROVE  CarefulInv(p)
    OBVIOUS
  <2>1. \A c \in Conn : job[c].left = <<>> /\ reader[c] = "unborn" /\ closer[c] = "unborn"
                        /\ current[c] = 0
    BY SMT DEF Init, NoJob
  <2>2. /\ \A c \in Conn : ~Held(p, c)
        /\ \A n \in Node : ~Queued(p, n)
    BY <2>1, SMT DEF Init, Held, Queued, Range
  <2>3. \A n \in Node : pending[n][p] = None
    BY <1>1 DEF Init
  <2>4. \A c \in Conn : ~InHand(p, c) /\ ~Live(c)
    BY <2>1 DEF InHand, Live, CleanedUp
  <2>5. LinesFit(p)
    BY <2>1, <2>4 DEF LinesFit, LineFits, OneLine, Handing
  <2>6. PendingFits(p) /\ QueueFits(p) /\ HandFits(p) /\ AskFits(p)
    BY <2>1, <2>2, <2>3, <2>4 DEF PendingFits, QueueFits, HandFits, AskFits
  <2>7. HeldFits(p)
    <3>1. \A c \in Conn : DOMAIN job[c].left = {}
      BY <2>1, SMT
    <3> QED
      BY <2>2, <3>1 DEF HeldFits
  <2>8. HomeFits(p)
    <3>1. DOMAIN rooms = {}
      BY SMT DEF Init
    <3> QED
      BY <3>1 DEF HomeFits, Runs
  <2> QED
    BY <2>5, <2>6, <2>7, <2>8 DEF CarefulInv, WaitFits
<1>3. TypeOK /\ TransportInv /\ TypeOK' /\ AllFit /\ [Next]_vars => AllFit'
  BY <1>1, CarefulStep
<1> QED
  BY <1>2, <1>3, TransportCorrect, PTL DEF Spec

\* The connection on which a careful player plays, when nothing is under way for them.
LEMMA QuietPlay ==
  ASSUME TypeOK, TransportInv, NEW p \in Player, CarefulInv(p), Quiet(p),
         NEW c \in Conn, Owner[c] = p, closer[c] = "open", current[c] # 0,
         rooms[current[c]].life = "Active"
  PROVE  p \in rooms[current[c]].connected /\ session[p].room \in {0, current[c]}
<1>1. Runs(p, current[c])
  BY DEF TransportInv, RoomIsOwn, HasSeat, Runs
<1>2. \A d \in Conn : ~Held(p, d)
  BY DEF Quiet, BeingSeated, Held
<1>3. Live(c) /\ reader[c] \notin {"unborn", "load", "resume", "redirected"}
  BY BoundLive DEF CarefulInv
<1>4. PlaysIn(p, current[c])
  BY <1>1, <1>2, <1>3 DEF CarefulInv, HomeFits, SeatingIn, AwayFrom
<1>5. PICK d \in Conn :
        /\ Owner[d] = p /\ current[d] = current[c]
        /\ \/ /\ closer[d] \in {"unborn", "open", "pending", "leave", "disconnect"}
              /\ p \in rooms[current[c]].connected /\ session[p].room \in {0, current[c]}
           \/ closer[d] = "bind" /\ p \notin rooms[current[c]].connected
  BY <1>4 DEF PlaysIn
<1>6. Live(d)
  BY <1>5, BoundLive DEF CarefulInv
<1>7. d = c
  BY <1>3, <1>5, <1>6 DEF CarefulInv, LinesFit, OneLine
<1> QED
  BY <1>5, <1>7

\* While a player's connection is open and registered with a running game, the game counts
\* them as connected: no clean-up has started their grace window.  For players who do not
\* open a connection before the last one is cleaned up or leave while they wait.
THEOREM LivePlayersConnected ==
  ASSUME \A p \in Checked : Careful(p)
  PROVE  Spec => []LivePlayerIsConnected
<1>1. TypeOK /\ TransportInv /\ (\A p \in Checked : CarefulInv(p)) => LivePlayerIsConnected
  BY QuietPlay, TransportAssumption DEF LivePlayerIsConnected
<1> QED
  BY <1>1, TransportCorrect, CarefulCorrect, PTL

\* The session record of a player who is playing leads back to the game they play, or has
\* run out.
THEOREM RecordsFollow ==
  ASSUME \A p \in Checked : Careful(p)
  PROVE  Spec => []RecordFollowsPlayer
<1>1. TypeOK /\ TransportInv /\ (\A p \in Checked : CarefulInv(p)) => RecordFollowsPlayer
  BY QuietPlay, TransportAssumption DEF RecordFollowsPlayer
<1> QED
  BY <1>1, TransportCorrect, CarefulCorrect, PTL

\* A player a running game counts as connected has an open connection to it: whoever is
\* gone has been disconnected, so that the grace window runs.
THEOREM AbsentPlayersDisconnected ==
  ASSUME \A p \in Checked : Careful(p)
  PROVE  Spec => []AbsentPlayerIsDisconnected
<1>1. TypeOK /\ TransportInv /\ (\A p \in Checked : CarefulInv(p)) => AbsentPlayerIsDisconnected
  <2> SUFFICES ASSUME TypeOK, TransportInv, \A p \in Checked : CarefulInv(p),
                      NEW r \in DOMAIN rooms, NEW p \in rooms[r].connected \cap Checked,
                      Quiet(p), rooms[r].life = "Active"
               PROVE  \E c \in Conn : Owner[c] = p /\ closer[c] = "open" /\ current[c] = r
    BY SMT DEF AbsentPlayerIsDisconnected
  <2>1. p \in Player /\ CarefulInv(p)
    BY TransportAssumption
  <2>2. \A d \in Conn : ~Held(p, d)
    BY DEF Quiet, BeingSeated, Held
  <2>3. Runs(p, r)
    BY <2>1 DEF CarefulInv, HomeFits, Runs
  <2>4. PlaysIn(p, r)
    BY <2>1, <2>2, <2>3 DEF CarefulInv, HomeFits, SeatingIn, AwayFrom
  <2>5. PICK c \in Conn :
          /\ Owner[c] = p /\ current[c] = r
          /\ closer[c] \in {"unborn", "open", "pending", "leave", "disconnect"}
    BY <2>4 DEF PlaysIn
  <2>6. r # 0
    BY RoomsType, SMT
  <2>7. AtRest(c) /\ closer[c] \in {"unborn", "open"}
    BY <2>5 DEF Quiet
  <2>8. closer[c] # "unborn"
    BY <2>1, <2>5, <2>6, <2>7 DEF CarefulInv, LinesFit, LineFits, AtRest
  <2> QED
    BY <2>5, <2>7, <2>8
<1> QED
  BY <1>1, TransportCorrect, CarefulCorrect, PTL

\* A player who is pending is in the queue of that node.
THEOREM PendingAreQueued ==
  ASSUME \A p \in Checked : Careful(p)
  PROVE  Spec => []PendingIsQueued
<1>1. TypeOK /\ TransportInv /\ (\A p \in Checked : CarefulInv(p)) => PendingIsQueued
  <2> SUFFICES ASSUME TypeOK, TransportInv, \A p \in Checked : CarefulInv(p),
                      NEW p \in Checked, NEW n \in Node, pending[n][p] # None, Quiet(p)
               PROVE  Queued(p, n)
    BY DEF PendingIsQueued, Queued
  <2>1. p \in Player /\ CarefulInv(p)
    BY TransportAssumption
  <2>2. \A d \in Conn : ~Held(p, d)
    BY DEF Quiet, BeingSeated, Held
  <2>3. PICK w \in Conn : w = pending[n][p] /\ Owner[w] = p
    BY <2>1, PendingLive, SMT DEF CarefulInv
  <2>4. reader[w] \notin {"enqueue", "clear"}
    BY <2>3 DEF Quiet, AtRest
  <2>5. PendingFits(p)
    BY <2>1 DEF CarefulInv, WaitFits
  <2>6. Queued(p, n) \/ reader[w] \in {"enqueue", "clear"} \/ \E d \in Conn : Held(p, d)
    BY <2>3, <2>5 DEF PendingFits
  <2> QED
    BY <2>2, <2>4, <2>6
<1> QED
  BY <1>1, TransportCorrect, CarefulCorrect, PTL

\* Whoever is being seated has a connection that neither dials in nor was redirected.
LEMMA HeldBusy ==
  ASSUME TypeOK, TransportInv, NEW p \in Player, CarefulInv(p), NEW d \in Conn, Held(p, d),
         NEW r
  PROVE  ~AwayFrom(p, r)
<1>1. SUFFICES ASSUME AwayFrom(p, r)
               PROVE  FALSE
  OBVIOUS
<1>2. LinesFit(p) /\ WaitFits(p) /\ At[d] \in Node
  BY TransportAssumption DEF CarefulInv
<1>3. \E w \in Conn : Owner[w] = p /\ Live(w)
  <2>1. CASE InHand(p, d)
    BY <1>2, <2>1, HandLive
  <2>2. CASE pending[At[d]][p] # None
    BY <1>2, <2>2, PendingLive, SMT
  <2> QED
    BY <1>2, <2>1, <2>2 DEF WaitFits, HeldFits
<1>4. PICK w \in Conn : Owner[w] = p /\ Live(w)
  BY <1>3
<1>5. reader[w] \in {"load", "resume", "redirected"}
  BY <1>1, <1>4 DEF AwayFrom
<1>6. Idle(p)
  BY <1>2, <1>4, <1>5, IdleFacts
<1> QED
  BY <1>6 DEF Idle

\* The running games of a careful player are one.
LEMMA OneHome ==
  ASSUME TypeOK, TransportInv, NEW p \in Player, CarefulInv(p),
         NEW r, Runs(p, r), NEW s, Runs(p, s)
  PROVE  r = s
<1>1. /\ SeatingIn(p, r) \/ PlaysIn(p, r) \/ AwayFrom(p, r)
      /\ SeatingIn(p, s) \/ PlaysIn(p, s) \/ AwayFrom(p, s)
  BY DEF CarefulInv, HomeFits
<1>2. CASE \E d \in Conn : Held(p, d)
  <2>1. SeatingIn(p, r) /\ SeatingIn(p, s)
    BY <1>1, <1>2, HeldBusy DEF PlaysIn
  <2>2. PICK d \in Conn : Held(p, d) /\ job[d].room = r
    BY <2>1 DEF SeatingIn
  <2>3. PICK e \in Conn : Held(p, e) /\ job[e].room = s
    BY <2>1 DEF SeatingIn
  <2>4. d = e
    BY <2>2, <2>3 DEF CarefulInv, WaitFits, HeldFits
  <2> QED
    BY <2>2, <2>3, <2>4
<1>3. CASE \A d \in Conn : ~Held(p, d)
  <2>1. /\ PlaysIn(p, r) \/ AwayFrom(p, r)
        /\ PlaysIn(p, s) \/ AwayFrom(p, s)
    BY <1>1, <1>3 DEF SeatingIn
  <2>2. r # 0 /\ s # 0
    BY RoomsType, SMT DEF Runs
  <2>3. ASSUME NEW t, t # 0, PlaysIn(p, t)
        PROVE  \E c \in Conn : /\ Owner[c] = p /\ current[c] = t /\ Live(c)
                               /\ reader[c] \notin {"unborn", "load", "resume", "redirected"}
    <3>1. PICK c \in Conn : Owner[c] = p /\ current[c] = t /\ closer[c] # "closed"
      BY <2>3 DEF PlaysIn
    <3>2. Live(c) /\ reader[c] \notin {"unborn", "load", "resume", "redirected"}
      BY <2>3, <3>1, BoundLive DEF CarefulInv
    <3> QED
      BY <3>1, <3>2
  <2>4. CASE PlaysIn(p, r) /\ PlaysIn(p, s)
    <3>1. PICK c \in Conn : Owner[c] = p /\ current[c] = r /\ Live(c)
      BY <2>2, <2>3, <2>4
    <3>2. PICK e \in Conn : Owner[e] = p /\ current[e] = s /\ Live(e)
      BY <2>2, <2>3, <2>4
    <3>3. c = e
      BY <3>1, <3>2 DEF CarefulInv, LinesFit, OneLine
    <3> QED
      BY <3>1, <3>2, <3>3
  <2>5. CASE AwayFrom(p, r) /\ AwayFrom(p, s)
    BY <2>5 DEF AwayFrom
  <2>6. CASE PlaysIn(p, r) /\ AwayFrom(p, s)
    BY <2>2, <2>3, <2>6 DEF AwayFrom
  <2>7. CASE AwayFrom(p, r) /\ PlaysIn(p, s)
    BY <2>2, <2>3, <2>7 DEF AwayFrom
  <2> QED
    BY <2>1, <2>4, <2>5, <2>6, <2>7
<1> QED
  BY <1>2, <1>3

\* A player sits in at most one running game, whatever other players do, whichever records
\* run out and whichever nodes crash.
THEOREM OneGame ==
  ASSUME \A p \in Checked : Careful(p)
  PROVE  Spec => []OneGameAtATime
<1>1. TypeOK /\ TransportInv /\ (\A p \in Checked : CarefulInv(p)) => OneGameAtATime
  <2> SUFFICES ASSUME TypeOK, TransportInv, \A p \in Checked : CarefulInv(p),
                      NEW r \in DOMAIN rooms, NEW s \in DOMAIN rooms,
                      rooms[r].life = "Active", rooms[s].life = "Active",
                      NEW p \in Checked, Seated(p, r), Seated(p, s)
               PROVE  r = s
    BY DEF OneGameAtATime, Seated
  <2>1. p \in Player /\ CarefulInv(p) /\ Runs(p, r) /\ Runs(p, s)
    BY TransportAssumption DEF Runs
  <2> QED
    BY <2>1, OneHome
<1> QED
  BY <1>1, TransportCorrect, CarefulCorrect, PTL

=============================================================================
