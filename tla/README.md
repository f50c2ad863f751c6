# A TLA+ model of realtime-engine

The engine seats players in rooms, one goroutine (an actor) per room, and
connects them over WebSockets. This directory holds TLA+ modules translated from
its Go source, the TLC configurations that check them on small instances, and
proofs that TLAPS checks for every value of the constants. `PROJECT.json` lists
the parts, the runs, the source lines behind each definition, the findings, the
hazards and the theorems.

Run one check with `tlc -config RoomCore.cfg MCRoom`; check the proofs with
`tlapm RoomProofs.tla`, and likewise the other modules whose name ends in `Proofs`. The
largest, `TransportProofs`, takes about half an hour.

## The system

| Part | State | Operations | What makes it hard |
|---|---|---|---|
| Room actor (`service/room/room.go`) | lifecycle, game state, seats and slots, `serverSeq`, command channel | join, leave, action, disconnect, reconnect, grace expiry, force-close, snapshot, tick | callers, timers and ticks interleave; expiries arrive late; callers give up; the room closes under them |
| Games (`domain/game`, `tictactoe`, `pingpong`) | board or phase, result | Init, Validate, ApplyAction, Tick, OnPlayerAbandoned | results reached on several paths; diffs must describe the state; buzzes race the "go" signal |
| Matchmaker (`service/matchmaking`) | queue per game type | Enqueue, Dequeue | room creation happens after the lock is dropped |
| Server and hub (`transport/ws`) | `pending`, registrations, `currentRoom` | dial, resume or redirect, FIND_MATCH, seating, close | four pieces of state under four locks; old and new connections of one player overlap; nodes crash |
| Connection (`transport/ws/connection.go`) | send channel, `closeOnce`, deadlines | enqueue, close, pumps, RESYNC | whoever finds the channel full closes the connection, the actor included; pings, pongs and other work share two goroutines |
| Session store (`storage`) | record per session | save, load, expiry | records outlive rooms; a call may fail, and nobody is told |
| Room manager (`service/room/manager.go`) | registry | create, sweep, lease upkeep | acts on a status that may be stale |
| Rate limiter (`ratelimit`) | tokens, last refill | AllowN | rounding at the edges of a window |
| Lease (`storage/redis/lock.go`) | owner key with TTL | acquire, renew, release | expiry between two steps |

A connection's goroutine reads a message and calls the matchmaker or the room;
the room's actor broadcasts through the hub to the connections; a connection that
closes tells the room; the room's timers call the room. A client keeps one bearer
token, and redialling with it resumes the room its session record names.

## Modules

**`Room`** is the core: one room with its channel, timers and callers. Each
handler is one action, because only the actor touches the room's state. `Receive`
takes the head of `cmdCh`; `Answer` is `reply`; `Disconnect` is shared by
`handleDisconnect` and `handleLeave`, as in the code. A caller is `idle`, `sending`
(blocked in `send`) or `waiting` (in `submit`). A grace timer is a player, a
generation and the ticks left; it fires at or after its deadline, and its command
waits for a place in the channel like any other. The game is seen through its
interface: an action is accepted or not, ends the game or not. Three history variables
record how long each player has been away, which sequence numbers were applied,
and what a listener to every broadcast believes.

**`RoomLifecycle`** is what the room promises: a lifecycle that moves forward
only, bounded seats that are given up only before the start, a sequence number
that counts changes of a running game one by one, a stop only after the close.
`Room` implements it (`KeepsPromise`).

**`Manager`** is the registry: CreateRoom with its joins, the actor's own removal,
and the sweep, which reads the clock, takes a list, asks each room for its status and
sends ForceClose. Its rooms are `RoomLifecycle` with a command channel and the two
time stamps; `KeepsPromise` says that they are nothing else, so what `Room` is shown to
implement is what `Manager` relies on.

**`Lease`** is `maintainLease` and its Redis key. A call takes time; Redis executes the
command before the caller gives up, after, or never; a rival may take a lapsed key; the
node may crash. Two history variables count rounds in a row that did not set the key.

**`Transport`** has the nodes' servers, hubs and matchmakers, the connections, and the
session records that the nodes share. A connection has a goroutine that serves it
(`reader`) and one that cleans up (`closer`); a step is one critical section or one
call to a room. Its rooms are reduced to players, who is connected, their node, and
Active, Finished or Gone. A crash takes away what a node held in memory. Constants say
which players dial in before the old connection is cleaned up (`Overlap`), close while
waiting for a seat (`CloseMidway`) or repeat a request (`Repeat`), in whose calls
CreateRoom fails (`CreateFails`), for whom calls of the session store may fail
(`StoreFails`), whether records run out (`Expires`) and which nodes crash (`Crashes`); `Checked` are the players of whom presence, games, queue and records
are to be right.

**`Delivery`** looks at one running room and follows every message: the actor in the
middle of a broadcast, the bounded send channels, `Close` under `sync.Once`, the calls
of the pumps with their timeouts, and a player who is being resumed. A goroutine is
where it waits: for a place in `cmdCh`, for its answer, or for another's `Close`. The
client keeps a snapshot and numbered diffs.

**`Heartbeat`** is the two pumps of one connection against the clock: the ticker, the
write deadline, the read deadline that only a pong moves, the messages that keep either
pump busy, and a client that may fall silent while it keeps sending or while its last
pongs are under way.

**`GameContract`** is what the room relies on a game for: the result is final, and
abandoning ends the game for the other player. **`TicTacToe`** and **`PingPong`**
model the two games; **`Games`** is either of them, as the registry makes it, and shows
that both keep the contract. That is why `Room` leaves `"goesOn"` out of its
`AbandonResults`. `TicTacToe` adds a client that keeps a copy of the
game by applying diffs; `PingPong` adds players who press on what they last saw
and buzzes that arrive later.

**`TokenBucket`** is the rate limiter. Its history variable counts, for every
moment, what was admitted since.

`MC*` modules instantiate these for TLC. Definitions whose comment begins with
"Mutant" are deliberately wrong variants of the definition that follows: with one
in place of the other, the property named in `PROJECT.json` fails.

## Runs

| Run | Instance | Shows |
|---|---|---|
| `room_core` | 2 players, 2 callers, channel of 2, 6 calls, grace 1; Init and abandonment may fail | seats, answers, broadcasts, lifecycle, no early forfeit, no action twice |
| `room_liveness` | channel of 1, 5 calls, fair | calls return, absences end |
| `manager` | 1 room, 2 seats, a sweep of up to 2 ticks, 2 other commands, fair | the sweep is due, rooms keep their promise and are collected, callers go on |
| `lease` | TTL 15, interval 5, timeout 2 (the default seconds), 4 faults, fair | a lost round does no harm; heals; a rival's lease is safe; ends |
| `transport_any` | 2 players, 3 connections, 2 rooms; one player closes midway and repeats, and the other one's CreateRoom fails; records expire | matches are pairs; the careful player's presence, games, queue and record are right |
| `transport_nodes` | 2 players, 4 connections, 2 nodes, one of which crashes, fair; records expire, and the store fails | records lead to seats on the node they name; no two players wait for ever |
| `delivery` | 2 connections, one resuming, send channel of 1, one diff, one message, fair | no unnoticed gap, nobody present who is gone, the actor goes on, every close is learnt of |
| `heartbeat` | ping 3, deadline 9, write wait 2, other delays 1 or 2, fair | answering clients stay, silent ones are found out, pumps end |
| `games` | the whole game of tic-tac-toe; the duel with arm delay 2, fair | results, diffs; "go" after the delay, at last, and fair to those who saw it; contract |
| `token_bucket` | capacity 5, rate 2, calls of 1 and 3, 6 instants | the limit is kept, and no stricter than stated |
| `transport_stale_close`, `heartbeat_default` | see below | violated |

Bounds. Two callers are enough for every pair of commands to race, and six calls
for two joins followed by disconnect, reconnect, disconnect and one more command,
which is what a stale timer needs. A grace of one tick separates "expired" from
"not yet". The channel of one or two places is full in reachable states, as 64
places would be under load. Four connections give each of two players a drop and
a resume, and a second match; the second connection of one of them reaches the other
node. In `Delivery`, a channel of one place is full after one message, and the six
places of `cmdCh` stand for the 64 of the code: there are fewer goroutines that could
have a command in it than places. In `Manager`, rooms meet only in the time that a sweep
spends on other rooms, and time may pass in a sweep of one room as well, so one room is
enough. Four faults in `Lease` are two lost rounds in a row. `MaxCalls`, `MaxServerSeq` and `MaxRooms` bound
counters only; `MaxTime` ends the bucket's clock. Players and callers of the room
are interchangeable, so the safety runs use symmetry.

Deadlock is checked in the room, whose clock always ticks, and in the token bucket.
In the other models clients may stop, and games end.

Fairness. Weak fairness of the actor's commands, of closing, of the clock and the
timers, of callers that can send or return: the Go scheduler runs what can run,
and `select` chooses among ready cases. In `Transport`, the goroutines of the
server; in `Games`, the ticker and the clock; in `Manager`, the actor, CreateRoom, the
sweep and the clock, which makes the collector's ticker fire for ever. In `Heartbeat`,
tickers, deadlines and `handleMessage` end, and a pong that has arrived is read. In
`Delivery`, calls with a timeout end; in `Lease`, Redis executes what reaches it, and the
`select` of `maintainLease`, which chooses at random among its ready cases, does not pass
over the closed `stopped` for ever (strong fairness of `StartRelease`). No client has to
act, no game has to end, no call has to succeed.

## Where code and documentation differ

Two runs are refuted by TLC; `PROJECT.json` quotes the lines.

- `transport_stale_close`: the late clean-up of an old connection disconnects a
  player who has resumed. The hub checks whose connection it is; the room cannot.
- `heartbeat_default`: with the default intervals the read deadline passes before the
  first ping is sent, and a client that answers every ping is disconnected. The tests set
  shorter intervals between pings. The proofs give the condition, `Timely`.

Others can be seen by changing a constant of a passing run:

| Run | Change | Breaks | Because |
|---|---|---|---|
| `room_core` | `ClientSeqs = {0, 1}` | `NoActionAppliedTwice` | `handleAction` skips the stale check while the last sequence number is 0 (`room.go:310`; `src/README.md:232-234` says duplicates are rejected) |
| `transport_any` | `CloseMidway = {a}` | `AbsentPlayerIsDisconnected` | a close between leaving `pending` and getting a room is lost (`server.go:186`), and the player counts as connected for ever |
| `transport_any` | `CreateFails = {b}` | `PendingIsQueued` | a failed CreateRoom leaves the player who was waiting pending but in no queue (`matchmaker.go:71`) |
| `transport_any` | `Overlap = {a}` | `RecordFollowsPlayer` | the clean-up of an old connection overwrites the record (`server.go:225`) |
| `transport_any` | `StoreFails = {a}` | `OneGameAtATime` | a record that could not be saved or loaded looks like none (`server.go:95`, `server.go:131`), and the player is matched again while the first game runs |
| `delivery` | `Concurrent = TRUE` | `CaughtUp` | a diff between the snapshot of a resume and the registration reaches nobody (`server.go:113-119`); the next diff shows the gap |
| `delivery` | `"reconnect"` in `TimesOut` | `PresentIsReachable` | a Reconnect that is given up is still executed, and nobody disconnects the player again |
| `delivery` | `CmdCap = 1` | `RoomGoesOn` | the actor, closing a slow client, waits for a place in its own full channel (`room.go:452`; `hub.go:14-17` says that the hub never blocks) |

With a third player, and `a` and the others in `Repeat`, `OneGameAtATime` fails as well: a
FIND_MATCH that is repeated while the first is being matched leads to two running games.
Two players cannot get there, since each needs the other.

Three more concern callers, games or clients that the repository does not contain:

- `EarlyDisconnect = TRUE` in `RoomLiveness.cfg` breaks `AbsenceResolved`: a player
  who disconnects while the room waits gets no grace timer, then or later. The
  matchmaker only makes rooms that start at once.
- `"goesOn"` among the `AbandonResults` of `RoomCore.cfg` breaks
  `FinishedMeansGameOver`: the room finishes whatever the game decides about an
  abandoned player. Both games forfeit.
- `SkipsUnmarked = FALSE` in `Games.cfg` breaks `DiffsDescribeState`: the diff
  of an abandonment has a cell, the corner with an empty mark, and a client that
  applies it as it stands erases the corner.

The sweep can also end a game that has started: it reads the status of a room that has
waited too long, a late Join starts the game, and ForceClose arrives. `SweepIsDue` says
that this is the only way, and that such a room had been due.

## Proofs

`RoomProofs` proves, for any players, callers, capacity, grace window and bounds:

- `TypeCorrect`: type correctness, one step per action. It carries everything else.
- `SeatsAgree`: `SeatsConsistent` is inductive given the types. `SeatingStep`
  reduces every action to "seating untouched", a taken seat or a freed one;
  `FreeSeatKeepsSeating` is the renumbering argument, on `WithoutFacts`.
- `GraceAccounted`: `GraceInv`, the inductive strengthening behind the grace window. A
  timer says nothing alone; the invariant says that a timer or queued expiry of the
  current generation has measured the current absence, and that older generations
  belong to older absences.
- `NoEarlyForfeit`: `ForfeitOnlyAfterGrace`, from `GraceInv` and the generation check
  of `handleGraceExpired`.
- `RoomKeepsPromise`: the refinement of `RoomLifecycle`, from `SeatsConsistent` and the
  fact that the actor stops in a closed room only.
- `FinishedIsOver` and `StreamTruthful`: `FinishedMeansGameOver` and `StreamDescribesRoom`,
  which are inductive together, if the game ends when a player abandons it (`"goesOn"` is
  not among the `AbandonResults`). Both games do; that is `ContractKept` of `GamesProofs`.
- `AnswersOnce`: `AnsweredOnce`, whatever times out. `AnswerInv` says that a caller waits
  exactly while its command is queued, in one place, or its answer is there.
- `NoActionTwice`: the action property `NoActionAppliedTwice`, if no client numbers an
  action 0, to which `handleAction` gives no protection. `AppliedInv` says that
  `lastAppliedSeq` bounds what was applied for its player, and that a player who gives up
  a seat has played nothing.

`TokenBucketProofs` proves `RateBounded` and `RefusedOnlyOverRate` for every
capacity, rate and set of call sizes. Both speak of the clock, while the bucket was
last brought up to date at `lastRefill`; `Account` ties its content to the
tightest window there and is inductive. `RefillKeepsAccount` carries it forward
to now.

`HeartbeatProofs` proves, for every choice of durations, `DeadIsNoticed` and, if `Timely`,
`ResponsiveStaysOpen`. The deadline says nothing about the next pong by itself; the
invariant adds that at every moment either a pong under way, a ping being written, a
waiting tick or the ticker will bring the next one before the deadline, each with the time
it still needs.

`LeaseProofs` proves `SurvivesOneMiss`, if `Timely`, and `RivalLeaseKept`, for every choice
of durations. `IInv` bounds from below the time the key has left, by the time to the next
tick and the rounds missed so far, for every place the goroutine can be in; that a round
is over before the next tick is the lemma `RoundStep`. The bound is tight: TLC refutes
`SurvivesOneMiss` when the two sides of `Timely` are equal.

`ManagerProofs` proves, for any rooms, seats and bounds, `RegistryIsLive`, `SweepIsDue` and
the refinement `KeepsPromise` of `RoomLifecycle` by every room. The sweep
acts on a status that may be old, so `SweepInv` follows its ForceClose from the moment it
is sent: while one waits in a channel the room has not stopped, it is overdue or has been
finished for longer than the linger, and it is the only one, because a sweep does not
return to a room it has asked.

`TransportProofs` proves `MatchIsPair` and `RecordsNameSeats`, for any players, nodes,
connections and choice of faults. Between two critical sections a goroutine holds players,
a room and a node in local variables, and any other may act. `TransportInv` says of each
of them that it names a seat: the match in a reader's hands, the pending connections,
`currentRoom`, the registrations and the records. Rooms only grow (`RoomsGrow`), which is
why a local variable that named a seat still does.

It also proves the five invariants that hold of the players in `Checked`
(`LivePlayerIsConnected`, `RecordFollowsPlayer`, `AbsentPlayerIsDisconnected`,
`PendingIsQueued`, `OneGameAtATime`), if each of them is `Careful`: they do not dial in
before their last connection is cleaned up, do not hang up or ask again while a match is
being made or seated, the store does not fail them, and CreateRoom fails in no calls but
theirs. Nothing is assumed of the other players, of crashes, or of how many nodes,
connections and rooms there are. The hypotheses are those of the run `transport_any`;
without them the invariants are false, as `transport_stale_close` shows for overlapping
connections. None of the five is inductive: each speaks of a player about whom the server
does nothing at the moment, and everything before such a moment has to be accounted for.
`CarefulInv` does that for one player in three parts. `LinesFit`: one connection at most is
not cleaned up, and where its reader and its clean-up can be together. `WaitFits`: a pending
entry is matched by a place in a queue or by one goroutine that seats the player once.
`HomeFits`: a running game has its player being seated in it, playing in it with
registration and record in place, or away from it with a record that leads back. The proof
has a lemma per action and part; the parts have lemmas of their own for the steps of
other players (`OthersMove`).

`GamesProofs` proves `GoAfterDelay` and `GoIsFair` for every arm delay, the refinement of
`GameContract` by both games, `ResultMatchesBoard`, and, for a client that skips unmarked
cells, `DiffsDescribeState`. `ResultMatchesBoard` is inductive; it rests on
`TableIsGeometry`, that `winLines` lists the rows, columns and diagonals of the board and
nothing else, and on `MoverCompletes`. `DuelInv` says that the deadline is never nearer than
what is left of the delay, that nobody knows of "go" before it is given, and that a duel
that goes on has not been decided.

`DeliveryProofs` proves, for any connections and capacities, `DeliveryCorrect` and, if
nobody gives up on a Reconnect, `PresentIsReachable`. Presence is decided in the room and
registration in the hub, with a call in between; `Calling` says that every call somebody
waits for is in exactly one place (the channel, the broadcast under way, or answered), and
`Present` that whoever is connected without a registration is on the way to one or on the
way out. `Moves` is what the step of one goroutine may do to the calls of the others, which
leaves one short lemma for most actions.

It also proves `CaughtUp`, unless `Concurrent`: a client that has received all that was sent
to it shows the state of the room, whatever times out and whoever is closed. The invariant
`Feeding` follows every number: for a registered connection there is a snapshot that
the client has, or that is in its channel or about to be, and every later diff is
with the client, in the channel or in the broadcast under way. That the answer to a
Reconnect is still the state of the room when the connection is registered (`Current`) is
what `Concurrent` would break: a diff broadcast between the two reaches nobody.

Beside the hypotheses named above, the assumptions are the named ASSUMEs of the modules: non-negative sizes,
`MinPlayers <= MaxPlayers`, a channel with at least one place, a write that takes a live
client less than the write wait, three renewal intervals in a TTL, and a `None` that is
none of the values it stands beside.

Only model-checked: everything about liveness, since fairness and ENABLED are out of the
prover's reach (`CallsReturn`, `AbsenceResolved`, `RoomsCollected`, `CallersGoOn`,
`LeaseHeals`, `LeaseEnds`, `WaitingPairIsSeated`, `RoomGoesOn`, `ClosedIsDisconnected`,
`PumpsEnd`, `GoFires`). Every safety property of a passing run is proved.

## Not modelled

Tokens and HTTP endpoints (library calls without state), reading the configuration and
wiring, the Redis event bus (unused), the load-test clients, JSON encoding and error
wording. Floats are replaced by exact arithmetic, so rounding is not covered.
`Hub.Unicast`, `RoomOwner`, `DeleteSession`, `Count` and `Names` are not called by the
program.

In `Transport`, a call to a room does not time out (`Delivery` has that), a failing
CreateRoom leaves no trace of its room (`Manager` has that), a save that fails has no
effect later, and there is one game type. In `Delivery`, the room stays Active, a player has one
connection, and a first seating is left out: it takes its snapshot like a RESYNC before it
registers like a resume.

## Plan

1. Composition: `Transport`'s reduced rooms as an abstraction of `Room`, and `Delivery`'s
   calls as an abstraction of its callers.
2. The time to live of records against the grace window.
3. Proofs: weaker hypotheses for the invariants of `Checked`, one fault at a time.
