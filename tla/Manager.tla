------------------------------- MODULE Manager -------------------------------
(***************************************************************************)
(* The registry of rooms (internal/service/room/manager.go): CreateRoom,    *)
(* the removal of a room by its own actor, and the garbage collector's      *)
(* sweep, which asks one room after the other for its status and closes the *)
(* abandoned and the finished ones.                                         *)
(*                                                                          *)
(* A room is seen through its promise (RoomLifecycle, which Room            *)
(* implements), its command channel and the two time stamps the sweep       *)
(* reads.  Everyone else who calls a room is one environment.               *)
(***************************************************************************)
EXTENDS Integers, Sequences, Functions

CONSTANTS
  Room,           \* room IDs; NewID never gives one out twice
  None,
  Seats,          \* the players a match seats: MinPlayers and MaxPlayers of both games
  InitMayFail,    \* whether Game.Init may return an error
  WaitingTTL, FinishedLinger,
  MaxSweep,       \* bound: how long one sweep takes
  MaxCmds,        \* bound: other commands that reach a room
  MaxServerSeq    \* bound: changes of a room's game

ASSUME ManagerAssumption ==
  /\ None \notin Room /\ Seats \in Nat \ {0} /\ InitMayFail \in BOOLEAN
  /\ WaitingTTL \in Nat /\ FinishedLinger \in Nat
  /\ MaxSweep \in Nat /\ MaxCmds \in Nat /\ MaxServerSeq \in Nat

VARIABLES
  rooms,      \* m.rooms: the registered rooms
  lifecycle, seated, serverSeq,  \* each room's promise
  actor,      \* each room's run(): not started, running, past onClose, or stopped
  cmdCh,      \* each room's queued commands
  cmds,       \* commands of the environment so far, for the bound
  idle,       \* time since lastActivity, up to MaxIdle
  ended,      \* time since finishedAt, up to MaxEnded
  creator,    \* CreateRoom: how many players it still has to seat
  joining,    \* rooms whose creator is inside Room.Join
  gc,         \* the sweep: between sweeps, at the next room, in GetStatus or in ForceClose
  todo,       \* rooms of the sweep's snapshot that are still ahead
  now,        \* how long ago the sweep read the clock
  cancelled,  \* the collector's context is done
  overdue     \* history: waiting rooms that were left alone for longer than WaitingTTL

promise == <<lifecycle, seated, serverSeq>>
creators == <<creator, joining>>
sweep == <<gc, todo, now, cancelled>>
vars == <<rooms, promise, actor, cmdCh, cmds, idle, ended, creators, sweep, overdue>>

MaxIdle == WaitingTTL + 1 + MaxSweep
MaxEnded == FinishedLinger + 1 + MaxSweep

Init ==
  /\ rooms = {} /\ lifecycle = [r \in Room |-> "Waiting"]
  /\ seated = [r \in Room |-> 0] /\ serverSeq = [r \in Room |-> 0]
  /\ actor = [r \in Room |-> "none"] /\ cmdCh = [r \in Room |-> <<>>]
  /\ cmds = 0 /\ idle = [r \in Room |-> 0] /\ ended = [r \in Room |-> 0]
  /\ creator = [r \in Room |-> 0] /\ joining = {}
  /\ gc = [at |-> "between", room |-> None] /\ todo = {} /\ now = 0 /\ cancelled = FALSE
  /\ overdue = {}

-----------------------------------------------------------------------------
(***************************************************************************)
(* CreateRoom                                                               *)
(***************************************************************************)

\* newRoom starts the actor, and the room is registered.
Create(r) ==
  /\ actor[r] = "none"
  /\ actor' = [actor EXCEPT ![r] = "running"]
  /\ rooms' = rooms \cup {r}
  /\ creator' = [creator EXCEPT ![r] = Seats]
  /\ UNCHANGED <<promise, cmdCh, cmds, idle, ended, joining, sweep, overdue>>

\* The next player's Join is sent.
SendJoin(r) ==
  /\ creator[r] > 0 /\ r \notin joining
  /\ cmdCh' = [cmdCh EXCEPT ![r] = Append(@, "join")]
  /\ joining' = joining \cup {r}
  /\ UNCHANGED <<rooms, promise, actor, cmds, idle, ended, creator, sweep, overdue>>

\* Join returns: answered, or because the room stopped or the context is done, and then
\* CreateRoom gives up.
JoinReturns(r) ==
  /\ r \in joining /\ joining' = joining \ {r}
  /\ \/ "join" \notin Range(cmdCh[r]) /\ creator' = [creator EXCEPT ![r] = @ - 1]
     \/ creator' = [creator EXCEPT ![r] = 0]
  /\ UNCHANGED <<rooms, promise, actor, cmdCh, cmds, idle, ended, sweep, overdue>>

-----------------------------------------------------------------------------
(***************************************************************************)
(* The rooms                                                                *)
(***************************************************************************)

\* Some other call: one that plays, one that gives up a seat, or one that changes nothing.
Submit(r) ==
  /\ actor[r] \in {"running", "removed"} /\ cmds < MaxCmds /\ cmds' = cmds + 1
  /\ \E c \in {"play", "leave", "other"} : cmdCh' = [cmdCh EXCEPT ![r] = Append(@, c)]
  /\ UNCHANGED <<rooms, promise, actor, idle, ended, creators, sweep, overdue>>

Live(r) == actor[r] = "running" /\ lifecycle[r] # "Closed"

\* The player is seated, unless the room has started without them; enough of them start
\* the game, unless Init fails.
Join(r) ==
  \/ /\ lifecycle[r] = "Waiting" /\ seated[r] < Seats
     /\ seated' = [seated EXCEPT ![r] = @ + 1]
     /\ \/ lifecycle' = [lifecycle EXCEPT ![r] = IF seated'[r] = Seats THEN "Active" ELSE @]
        \/ InitMayFail /\ UNCHANGED lifecycle
     /\ UNCHANGED <<serverSeq, ended>>
  \/ /\ ~(lifecycle[r] = "Waiting" /\ seated[r] < Seats)
     /\ UNCHANGED <<promise, ended>>

\* The game changes and may end: an action, a tick, or a grace period that expired.
Play(r) ==
  \/ /\ lifecycle[r] = "Active" /\ serverSeq[r] < MaxServerSeq
     /\ serverSeq' = [serverSeq EXCEPT ![r] = @ + 1]
     /\ \/ UNCHANGED <<lifecycle, ended>>
        \/ /\ lifecycle' = [lifecycle EXCEPT ![r] = "Finished"]
           /\ ended' = [ended EXCEPT ![r] = 0]
     /\ UNCHANGED seated
  \/ UNCHANGED <<promise, ended>>

\* Mutant: a seat may be given up in the middle of a game.
LeaveMidGame(r) ==
  \/ /\ seated[r] > 0
     /\ seated' = [seated EXCEPT ![r] = @ - 1]
     /\ lifecycle' = [lifecycle EXCEPT ![r] = IF seated[r] = 1 THEN "Closed" ELSE @]
     /\ UNCHANGED <<serverSeq, ended>>
  \/ UNCHANGED <<promise, ended>>

\* A seat is given up before the game starts; later, or without one, nothing changes here.
Leave(r) ==
  \/ /\ lifecycle[r] = "Waiting" /\ seated[r] > 0
     /\ seated' = [seated EXCEPT ![r] = @ - 1]
     /\ lifecycle' = [lifecycle EXCEPT ![r] = IF seated[r] = 1 THEN "Closed" ELSE @]
     /\ UNCHANGED <<serverSeq, ended>>
  \/ UNCHANGED <<promise, ended>>

ForceClose(r) ==
  /\ lifecycle' = [lifecycle EXCEPT ![r] = "Closed"]
  /\ UNCHANGED <<seated, serverSeq, ended>>

\* handle: every command counts as activity.
Handle(r) ==
  /\ Live(r) /\ cmdCh[r] # <<>>
  /\ cmdCh' = [cmdCh EXCEPT ![r] = Tail(@)]
  /\ idle' = [idle EXCEPT ![r] = 0]   \* touch
  /\ \/ Head(cmdCh[r]) = "join" /\ Join(r)
     \/ Head(cmdCh[r]) = "play" /\ Play(r)
     \/ Head(cmdCh[r]) = "leave" /\ Leave(r)
     \/ Head(cmdCh[r]) = "other" /\ UNCHANGED <<promise, ended>>
     \/ Head(cmdCh[r]) = "close" /\ ForceClose(r)
  /\ UNCHANGED <<rooms, actor, cmds, creators, sweep, overdue>>

\* A game tick is no activity.
HandleTick(r) ==
  /\ Live(r) /\ Play(r)
  /\ UNCHANGED <<rooms, actor, cmdCh, cmds, idle, creators, sweep, overdue>>

\* run() leaves its loop and takes the room out of the registry ...
OnClose(r) ==
  /\ actor[r] = "running" /\ lifecycle[r] = "Closed"
  /\ actor' = [actor EXCEPT ![r] = "removed"] /\ rooms' = rooms \ {r}
  /\ UNCHANGED <<promise, cmdCh, cmds, idle, ended, creators, sweep, overdue>>

\* ... and closes stopped; of what is left in the channel, CreateRoom's Join still waits.
Stop(r) ==
  /\ actor[r] = "removed" /\ actor' = [actor EXCEPT ![r] = "stopped"]
  /\ cmdCh' = [cmdCh EXCEPT ![r] = IF "join" \in Range(@) THEN <<"join">> ELSE <<>>]
  /\ UNCHANGED <<rooms, promise, cmds, idle, ended, creators, sweep, overdue>>

-----------------------------------------------------------------------------
(***************************************************************************)
(* The sweep                                                                *)
(***************************************************************************)

At(where, r) == gc' = [at |-> where, room |-> r]

\* GCSweepOnce reads the clock and takes the list of rooms.
StartSweep ==
  /\ gc.at = "between" /\ ~cancelled
  /\ At("next", None) /\ todo' = rooms /\ now' = 0
  /\ UNCHANGED <<rooms, promise, actor, cmdCh, cmds, idle, ended, creators, cancelled, overdue>>

\* GetStatus of the next room: the request is put into statusCh.
AskStatus(r) ==
  /\ gc.at = "next" /\ r \in todo
  /\ At("status", r) /\ todo' = todo \ {r}
  /\ UNCHANGED <<rooms, promise, actor, cmdCh, cmds, idle, ended, creators, now, cancelled, overdue>>

\* Mutant: a finished room is closed at once.
ExpiredWithoutLinger(r) ==
  \/ lifecycle[r] = "Waiting" /\ idle[r] - now > WaitingTTL
  \/ lifecycle[r] = "Finished"

\* Mutant: rooms that wait are not collected.
ExpiredFinishedOnly(r) == lifecycle[r] = "Finished" /\ ended[r] - now > FinishedLinger

\* What the sweep closes, judged by the clock it read when it started.
Expired(r) ==
  \/ lifecycle[r] = "Waiting" /\ idle[r] - now > WaitingTTL
  \/ lifecycle[r] = "Finished" /\ ended[r] - now > FinishedLinger

\* The actor answers with its status, and the sweep goes on or sends ForceClose.
AnswerStatus(r) ==
  /\ gc = [at |-> "status", room |-> r] /\ Live(r)
  /\ \/ /\ Expired(r)
        /\ At("close", r) /\ cmdCh' = [cmdCh EXCEPT ![r] = Append(@, "close")]
     \/ /\ ~Expired(r)
        /\ At("next", None) /\ UNCHANGED cmdCh
  /\ UNCHANGED <<rooms, promise, actor, cmds, idle, ended, creators, todo, now, cancelled, overdue>>

\* Mutant: GetStatus and submit do not watch stopped.
WaitForAnswer ==
  /\ gc.at \in {"status", "close"} /\ cancelled
  /\ At("next", None)
  /\ UNCHANGED <<rooms, promise, actor, cmdCh, cmds, idle, ended, creators, todo, now, cancelled, overdue>>

\* The call to the room is over: it was closed, it has stopped, or the context is done.
CallEnds ==
  /\ \/ gc.at \in {"status", "close"} /\ (actor[gc.room] = "stopped" \/ cancelled)
     \/ gc.at = "close" /\ "close" \notin Range(cmdCh[gc.room])
  /\ At("next", None)
  /\ UNCHANGED <<rooms, promise, actor, cmdCh, cmds, idle, ended, creators, todo, now, cancelled, overdue>>

EndSweep ==
  /\ gc.at = "next" /\ todo = {} /\ At("between", None) /\ now' = 0
  /\ UNCHANGED <<rooms, promise, actor, cmdCh, cmds, idle, ended, creators, todo, cancelled, overdue>>

\* App.Shutdown cancels the collector's context.
Shutdown ==
  /\ ~cancelled /\ cancelled' = TRUE
  /\ UNCHANGED <<rooms, promise, actor, cmdCh, cmds, idle, ended, creators, gc, todo, now, overdue>>

-----------------------------------------------------------------------------

\* A time stamp is followed only while the sweep would use it.
Older(age, max, when) ==
  [r \in Room |-> IF r \in rooms /\ lifecycle[r] = when /\ age[r] < max THEN age[r] + 1 ELSE age[r]]

TimePasses ==
  /\ gc.at # "between" => now < MaxSweep
  /\ now' = IF gc.at = "between" THEN now ELSE now + 1
  /\ idle' = Older(idle, MaxIdle, "Waiting") /\ ended' = Older(ended, MaxEnded, "Finished")
  /\ overdue' = overdue \cup {r \in rooms : lifecycle[r] = "Waiting" /\ idle'[r] > WaitingTTL}
  /\ UNCHANGED <<rooms, promise, actor, cmdCh, cmds, creators, gc, todo, cancelled>>

RoomStep(r) == Handle(r) \/ HandleTick(r) \/ OnClose(r) \/ Stop(r)

CreatorStep(r) == SendJoin(r) \/ JoinReturns(r)

Sweep == StartSweep \/ (\E r \in Room : AskStatus(r) \/ AnswerStatus(r)) \/ CallEnds \/ EndSweep

Next ==
  \/ \E r \in Room : Create(r) \/ CreatorStep(r) \/ Submit(r) \/ RoomStep(r)
  \/ Sweep \/ Shutdown \/ TimePasses

Spec == Init /\ [][Next]_vars

\* Goroutines run, and time goes on: the collector's ticker fires for ever.  A tick of the
\* game need not change anything.
FairSpec ==
  /\ Spec /\ WF_vars(Sweep) /\ WF_vars(TimePasses)
  /\ \A r \in Room : WF_vars(Handle(r)) /\ WF_vars(OnClose(r)) /\ WF_vars(Stop(r))
                       /\ WF_vars(CreatorStep(r))

-----------------------------------------------------------------------------
(***************************************************************************)
(* Properties                                                               *)
(***************************************************************************)

Lifecycles == {"Waiting", "Active", "Finished", "Closed"}

Commands == {"join", "play", "leave", "other", "close"}

TypeOK ==
  /\ rooms \subseteq Room /\ overdue \subseteq Room
  /\ lifecycle \in [Room -> Lifecycles]
  /\ seated \in [Room -> 0..Seats] /\ serverSeq \in [Room -> 0..MaxServerSeq]
  /\ actor \in [Room -> {"none", "running", "removed", "stopped"}]
  /\ cmdCh \in [Room -> Seq(Commands)]
  /\ cmds \in 0..MaxCmds /\ idle \in [Room -> 0..MaxIdle] /\ ended \in [Room -> 0..MaxEnded]
  /\ creator \in [Room -> 0..Seats] /\ joining \subseteq Room
  /\ gc \in [at : {"between", "next", "status", "close"}, room : Room \cup {None}]
  /\ todo \subseteq Room /\ now \in 0..MaxSweep /\ cancelled \in BOOLEAN

\* The registry holds exactly the rooms whose actor runs: none is lost while it can still
\* be played in, and none that has ended is ever looked up again.
RegistryIsLive == rooms = {r \in Room : actor[r] = "running"}

\* The sweep judges by a status that may be old when ForceClose arrives, and by a clock
\* that is older still.  All the same it ends a running game only if the game started
\* after its room had been waiting for longer than WaitingTTL, and it leaves a finished
\* room alone for FinishedLinger.
SweepIsDue ==
  [][\A r \in Room :
       cmdCh[r] # <<>> /\ Head(cmdCh[r]) = "close" /\ cmdCh'[r] = Tail(cmdCh[r])
       => r \in overdue \/ (lifecycle[r] = "Finished" /\ ended[r] > FinishedLinger)]_vars

Promise(r) == INSTANCE RoomLifecycle
                WITH MinPlayers <- Seats, MaxPlayers <- Seats,
                     lifecycle <- lifecycle[r], seated <- seated[r],
                     serverSeq <- serverSeq[r], stopped <- (actor[r] = "stopped")

\* The rooms of this module do what RoomLifecycle allows and Room implements, also while
\* CreateRoom, the sweep and other callers are at work on them at once.
KeepsPromise ==
  [][\A r \in Room : Promise(r)!Next \/ UNCHANGED Promise(r)!vars]_vars

\* Rooms do not pile up: a room that waits for players for ever, because the match fell
\* apart or Init failed, and a room whose game is over, leave the registry, unless the
\* server shuts down.
RoomsCollected ==
  \A r \in Room : (r \in rooms /\ lifecycle[r] # "Active")
                    ~> (r \notin rooms \/ lifecycle[r] = "Active" \/ cancelled)

\* A sweep ends, and CreateRoom returns, whatever becomes of the rooms they wait for.
CallersGoOn ==
  /\ gc.at # "between" ~> gc.at = "between"
  /\ \A r \in Room : creator[r] > 0 ~> creator[r] = 0

=============================================================================
