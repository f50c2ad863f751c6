-------------------------------- MODULE Room --------------------------------
(***************************************************************************)
(* One authoritative game room (internal/service/room/room.go): the actor   *)
(* goroutine that owns the room, its bounded command channel, the grace     *)
(* timers it arms, and the goroutines that call it through submit.          *)
(*                                                                          *)
(* A handler is one step, because only the actor touches the room's state.  *)
(* Between handlers anything may interleave: other callers' sends, timers   *)
(* that fire, a caller that gives up, the passage of time.  The game is     *)
(* seen through the Game interface only: whether it accepted the action and *)
(* whether it is over.                                                      *)
(***************************************************************************)
EXTENDS Integers, Sequences

CONSTANTS
  Player,          \* players that may ever join
  Caller,          \* goroutines that call the room's public API
  None,            \* "no player" / "no reply channel"
  MinPlayers,      \* Game.MinPlayers()
  MaxPlayers,      \* Game.MaxPlayers()
  CmdCap,          \* capacity of cmdCh, 64 in the code
  Grace,           \* graceDuration, in clock ticks
  ClientSeqs,      \* the action sequence numbers clients use
  InitMayFail,     \* whether Game.Init may return an error
  AbandonResults,  \* how Game.OnPlayerAbandoned may answer
  EarlyDisconnect, \* whether Disconnect may be called while the room waits
  MaxCalls,        \* bound: number of API calls
  MaxServerSeq     \* bound: a game tick changes nothing beyond it

ASSUME RoomAssumption ==
  /\ None \notin Player /\ None \notin Caller
  /\ MinPlayers \in Nat \ {0} /\ MaxPlayers \in Nat /\ MinPlayers <= MaxPlayers
  /\ CmdCap \in Nat \ {0}
  /\ Grace \in Nat
  /\ ClientSeqs \subseteq Nat
  /\ InitMayFail \in BOOLEAN
  /\ AbandonResults \subseteq {"over", "goesOn", "error"}
  /\ EarlyDisconnect \in BOOLEAN
  /\ MaxCalls \in Nat /\ MaxServerSeq \in Nat

VARIABLES
  lifecycle,  \* Waiting, Active, Finished or Closed
  game,       \* r.state: nil, running or over
  seatOrder,  \* r.seatOrder
  players,    \* r.players: a slot for each seated player
  serverSeq,  \* r.serverSeq
  cmdCh,      \* the queued commands
  actor,      \* run(): in the loop, past onClose, or stopped closed
  timers,     \* armed grace timers: ticks left before they fire
  pc,         \* each caller in submit: idle, sending or waiting
  answered,   \* callers whose reply channel holds an answer
  calls,      \* number of calls made so far, for the bound
  away,       \* history: ticks since the player's last disconnect
  applied,    \* history: sequence numbers applied for each player
  view        \* history: what a listener to every broadcast believes

roomVars == <<lifecycle, game, seatOrder, players, serverSeq>>
history == <<away, applied, view>>
vars == <<roomVars, cmdCh, actor, timers, pc, answered, calls, history>>

Lifecycles == {"Waiting", "Active", "Finished", "Closed"}

CmdKinds == {"Join", "Leave", "Action", "Disconnect", "Reconnect",
             "GraceExpired", "ForceClose", "Snapshot"}

RoomWide == {"ForceClose", "Snapshot"}

Command ==
  {c \in [kind: CmdKinds, player: Player \cup {None}, seq: Nat, generation: Nat,
          reply: Caller \cup {None}] :
     c.player = None <=> c.kind \in RoomWide}

Slot == [seat: Nat, connected: BOOLEAN, generation: Nat, lastAppliedSeq: Nat]

Timer == [player: Player, generation: Nat, left: 0..Grace]

\* The commands a caller may submit.  Only the timer sends GraceExpired.
Requests(c) ==
  LET Req(k, p, s) == [kind |-> k, player |-> p, seq |-> s,
                       generation |-> 0, reply |-> c]
  IN  {Req(k, p, 0) : k \in {"Join", "Leave", "Disconnect", "Reconnect"}, p \in Player}
        \cup {Req("Action", p, s) : p \in Player, s \in ClientSeqs}
        \cup {Req(k, None, 0) : k \in RoomWide}

-----------------------------------------------------------------------------
(***************************************************************************)
(* Broadcasts.  A listener that receives every event of the room keeps the  *)
(* last sequence number, who is connected, and whether the game started and *)
(* ended.                                                                   *)
(***************************************************************************)

View == [seq: Nat, here: SUBSET Player, started: BOOLEAN, over: BOOLEAN]

SeePresent(v, p, seq) ==
  [seq |-> seq, here |-> v.here \cup {p}, started |-> v.started, over |-> v.over]

SeeAbsent(v, p, seq) ==
  [seq |-> seq, here |-> v.here \ {p}, started |-> v.started, over |-> v.over]

SeeStarted(v, seq) ==
  [seq |-> seq, here |-> v.here, started |-> TRUE, over |-> v.over]

SeeDiff(v, terminal, seq) ==
  [seq |-> seq, here |-> v.here, started |-> v.started, over |-> (v.over \/ terminal)]

SeeClosed(v, seq) == [v EXCEPT !.seq = seq]

-----------------------------------------------------------------------------
(***************************************************************************)
(* The actor's handlers.  Each takes the command at the head of cmdCh.      *)
(***************************************************************************)

cmd == Head(cmdCh)

Receive(kind) ==
  /\ actor = "running" /\ lifecycle # "Closed"
  /\ cmdCh # <<>> /\ cmd.kind = kind
  /\ cmdCh' = Tail(cmdCh)

\* Mutant: a handler returns without its reply.
AnswerForgotten == answered' = answered

Answer == answered' = answered \cup ({cmd.reply} \ {None})

Connected(p) == p \in DOMAIN players /\ players[p].connected

NewSlot(seat) ==
  [seat |-> seat, connected |-> TRUE, generation |-> 0, lastAppliedSeq |-> 0]

\* handleJoin answers without seating anyone: closed or finished, seated already, full.
JoinRefused(p) ==
  \/ lifecycle \in {"Closed", "Finished"}
  \/ p \in DOMAIN players
  \/ Len(seatOrder) >= MaxPlayers

TakeSeat(p) ==
  /\ seatOrder' = Append(seatOrder, p)
  /\ players' = [q \in DOMAIN players \cup {p} |->
                   IF q = p THEN NewSlot(Len(seatOrder)) ELSE players[q]]

\* The room has enough players once this one is seated.
Quorate == lifecycle = "Waiting" /\ Len(seatOrder) + 1 >= MinPlayers

HandleJoin ==
  /\ Receive("Join") /\ Answer
  /\ \/ /\ JoinRefused(cmd.player)
        /\ UNCHANGED <<roomVars, view>>
     \/ /\ ~JoinRefused(cmd.player)
        /\ TakeSeat(cmd.player)
        /\ \/ /\ Quorate
              /\ game' = "running" /\ lifecycle' = "Active"
              /\ view' = SeeStarted(SeePresent(view, cmd.player, serverSeq), serverSeq)
           \/ /\ Quorate => InitMayFail
              /\ view' = SeePresent(view, cmd.player, serverSeq)
              /\ UNCHANGED <<lifecycle, game>>
        /\ UNCHANGED serverSeq
  /\ UNCHANGED <<actor, timers, pc, calls, away, applied>>

\* Mutant: the timer carries the generation from before it was incremented.
ArmTimerTooSoon(p) ==
  timers' = IF lifecycle = "Active"
            THEN timers \cup {[player |-> p, generation |-> players[p].generation,
                               left |-> Grace]}
            ELSE timers

\* The grace timer that handleDisconnect arms, in an Active room only.
ArmTimer(p) ==
  timers' = IF lifecycle = "Active"
            THEN timers \cup {[player |-> p, generation |-> players[p].generation + 1,
                               left |-> Grace]}
            ELSE timers

Dropped(slot) == [seat |-> slot.seat, connected |-> FALSE,
                  generation |-> slot.generation + 1,
                  lastAppliedSeq |-> slot.lastAppliedSeq]

\* The body of handleDisconnect, shared with handleLeave.
Disconnect(p) ==
  \/ /\ ~Connected(p)
     /\ UNCHANGED <<roomVars, timers, away, view>>
  \/ /\ Connected(p)
     /\ players' = [players EXCEPT ![p] = Dropped(@)]
     /\ ArmTimer(p)
     /\ away' = [away EXCEPT ![p] = 0]
     /\ view' = SeeAbsent(view, p, serverSeq)
     /\ UNCHANGED <<lifecycle, game, seatOrder, serverSeq>>

HandleDisconnect ==
  /\ Receive("Disconnect") /\ Answer
  /\ Disconnect(cmd.player)
  /\ UNCHANGED <<actor, pc, calls, applied>>

\* Mutant: the seats above the freed one keep their numbers.
FreeSeatNotRenumbered(p) ==
  /\ seatOrder' = SelectSeq(seatOrder, LAMBDA q : q # p)
  /\ players' = [q \in DOMAIN players \ {p} |-> players[q]]

\* handleLeave in a Waiting room: the seats above the freed one move down.
FreeSeat(p) ==
  /\ \E i \in DOMAIN seatOrder :
       /\ seatOrder[i] = p /\ \A j \in 1..(i - 1) : seatOrder[j] # p
       /\ seatOrder' = SubSeq(seatOrder, 1, i - 1) \o SubSeq(seatOrder, i + 1, Len(seatOrder))
  /\ players' = [q \in DOMAIN players \ {p} |->
                   IF players[q].seat > players[p].seat
                   THEN [players[q] EXCEPT !.seat = @ - 1] ELSE players[q]]

HandleLeave ==
  /\ Receive("Leave") /\ Answer
  /\ \/ /\ cmd.player \notin DOMAIN players \/ lifecycle # "Waiting"
        /\ Disconnect(cmd.player)
     \/ /\ cmd.player \in DOMAIN players /\ lifecycle = "Waiting"
        /\ FreeSeat(cmd.player)
        /\ lifecycle' = IF seatOrder' = <<>> THEN "Closed" ELSE lifecycle
        /\ UNCHANGED <<game, serverSeq, timers, away, view>>
  /\ UNCHANGED <<actor, pc, calls, applied>>

\* Mutant: a repeated sequence number passes.
ActionRefusedIfOlder(p, seq) ==
  \/ lifecycle # "Active"
  \/ ~Connected(p)
  \/ seq < players[p].lastAppliedSeq /\ players[p].lastAppliedSeq # 0

\* The conditions of handleAction that come before the game is asked.
ActionRefused(p, seq) ==
  \/ lifecycle # "Active"
  \/ ~Connected(p)
  \/ seq <= players[p].lastAppliedSeq /\ players[p].lastAppliedSeq # 0

\* Mutant: the broadcast is stamped before the sequence number moves.
AdvanceStampedEarly(terminal) ==
  /\ game' = IF terminal THEN "over" ELSE "running"
  /\ serverSeq' = serverSeq + 1
  /\ lifecycle' = IF terminal THEN "Finished" ELSE lifecycle
  /\ view' = SeeDiff(view, terminal, serverSeq)

\* Mutant: a terminal result leaves the room Active.
AdvanceUnfinished(terminal) ==
  /\ game' = IF terminal THEN "over" ELSE "running"
  /\ serverSeq' = serverSeq + 1
  /\ view' = SeeDiff(view, terminal, serverSeq + 1)
  /\ UNCHANGED lifecycle

\* A new game state is broadcast under the next sequence number.
Advance(terminal) ==
  /\ game' = IF terminal THEN "over" ELSE "running"
  /\ serverSeq' = serverSeq + 1
  /\ lifecycle' = IF terminal THEN "Finished" ELSE lifecycle
  /\ view' = SeeDiff(view, terminal, serverSeq + 1)

HandleAction ==
  /\ Receive("Action") /\ Answer
  /\ \/ UNCHANGED <<roomVars, applied, view>>   \* refused, or illegal in the game
     \/ /\ ~ActionRefused(cmd.player, cmd.seq)
        /\ \E terminal \in BOOLEAN : Advance(terminal)
        /\ players' = [players EXCEPT ![cmd.player].lastAppliedSeq = cmd.seq]
        /\ applied' = [applied EXCEPT ![cmd.player] = @ \cup {cmd.seq}]
        /\ UNCHANGED seatOrder
  /\ UNCHANGED <<actor, timers, pc, calls, away>>

HandleReconnect ==
  /\ Receive("Reconnect") /\ Answer
  /\ \/ /\ cmd.player \notin DOMAIN players
        /\ UNCHANGED <<players, view>>
     \/ /\ cmd.player \in DOMAIN players
        /\ players' = [players EXCEPT ![cmd.player].connected = TRUE]
        /\ view' = IF players[cmd.player].connected THEN view
                   ELSE SeePresent(view, cmd.player, serverSeq)
  /\ UNCHANGED <<lifecycle, game, seatOrder, serverSeq, actor, timers, pc, calls,
                 away, applied>>

\* Mutant: any timer of an absent player counts.
TimerCountsAnyGeneration(p, generation) ==
  p \in DOMAIN players /\ ~players[p].connected

\* Neither has the player come back since the timer was armed, nor left once more.
TimerCounts(p, generation) ==
  /\ p \in DOMAIN players
  /\ ~players[p].connected
  /\ players[p].generation = generation

\* Mutant: the forfeit does not ask whether the game is still on.
ForfeitTwice ==
  /\ TimerCounts(cmd.player, cmd.generation)
  /\ game' = "over" /\ serverSeq' = serverSeq + 1 /\ lifecycle' = "Finished"
  /\ view' = SeeDiff(view, TRUE, serverSeq + 1)
  /\ UNCHANGED <<seatOrder, players>>

\* OnPlayerAbandoned decides the game's state; the room finishes whatever it decided.
Forfeit ==
  /\ TimerCounts(cmd.player, cmd.generation)
  /\ lifecycle = "Active"
  /\ \E result \in AbandonResults \ {"error"} :
       game' = IF result = "over" THEN "over" ELSE game
  /\ serverSeq' = serverSeq + 1
  /\ lifecycle' = "Finished"
  /\ view' = SeeDiff(view, TRUE, serverSeq + 1)
  /\ UNCHANGED <<seatOrder, players>>

HandleGraceExpired ==
  /\ Receive("GraceExpired")
  /\ \/ Forfeit
     \/ /\ \/ ~TimerCounts(cmd.player, cmd.generation)
           \/ lifecycle # "Active"
           \/ "error" \in AbandonResults
        /\ UNCHANGED <<roomVars, view>>
  /\ UNCHANGED <<actor, timers, pc, answered, calls, away, applied>>

HandleForceClose ==
  /\ Receive("ForceClose") /\ Answer
  /\ lifecycle' = "Closed"
  /\ view' = SeeClosed(view, serverSeq)
  /\ UNCHANGED <<game, seatOrder, players, serverSeq, actor, timers, pc, calls,
                 away, applied>>

HandleSnapshot ==
  /\ Receive("Snapshot") /\ Answer
  /\ UNCHANGED <<roomVars, actor, timers, pc, calls, history>>

\* A game tick that changed the state; one that did not is a stuttering step.
HandleTick ==
  /\ actor = "running" /\ lifecycle = "Active" /\ game # "nil"
  /\ serverSeq < MaxServerSeq
  /\ \E terminal \in BOOLEAN : Advance(terminal)
  /\ UNCHANGED <<seatOrder, players, cmdCh, actor, timers, pc, answered, calls,
                 away, applied>>

\* run() leaves its loop: the room is taken out of the registry ...
OnClose ==
  /\ actor = "running" /\ lifecycle = "Closed"
  /\ actor' = "removed"
  /\ UNCHANGED <<roomVars, cmdCh, timers, pc, answered, calls, history>>

\* ... and then the deferred close(r.stopped) releases everyone who waits.
CloseStopped ==
  /\ actor = "removed"
  /\ actor' = "stopped"
  /\ UNCHANGED <<roomVars, cmdCh, timers, pc, answered, calls, history>>

-----------------------------------------------------------------------------
(***************************************************************************)
(* Time and the timers: time.AfterFunc runs its function on a goroutine of  *)
(* its own, at or after the deadline.                                       *)
(***************************************************************************)

Later(n) == IF n < Grace THEN n + 1 ELSE Grace

TimePasses ==
  /\ timers' = {[t EXCEPT !.left = IF @ = 0 THEN 0 ELSE @ - 1] : t \in timers}
  /\ away' = [p \in Player |-> Later(away[p])]
  /\ UNCHANGED <<roomVars, cmdCh, actor, pc, answered, calls, applied, view>>

\* The timer's goroutine hands CmdGraceExpired to the actor, or finds it stopped.
FireTimer(t) ==
  /\ t.left = 0
  /\ timers' = timers \ {t}
  /\ \/ /\ Len(cmdCh) < CmdCap
        /\ cmdCh' = Append(cmdCh, [kind |-> "GraceExpired", player |-> t.player, seq |-> 0,
                                   generation |-> t.generation, reply |-> None])
     \/ actor = "stopped" /\ UNCHANGED cmdCh
  /\ UNCHANGED <<roomVars, actor, pc, answered, calls, history>>

-----------------------------------------------------------------------------
(***************************************************************************)
(* Callers: send blocks on the channel or on stopped; submit then waits for *)
(* the reply, for stopped, or for its context.  Nobody can see which        *)
(* command a blocked caller holds, so it is chosen when the send succeeds.  *)
(***************************************************************************)

Call(c) ==
  /\ pc[c] = "idle" /\ calls < MaxCalls
  /\ pc' = [pc EXCEPT ![c] = "sending"]
  /\ calls' = calls + 1
  /\ UNCHANGED <<roomVars, cmdCh, actor, timers, answered, history>>

\* A reply channel that nobody reads any more.
Orphan(c) ==
  [i \in DOMAIN cmdCh |-> IF cmdCh[i].reply = c THEN [cmdCh[i] EXCEPT !.reply = None]
                          ELSE cmdCh[i]]

Send(c) ==
  /\ pc[c] = "sending"
  /\ \/ /\ Len(cmdCh) < CmdCap
        /\ \E r \in Requests(c) :
             /\ r.kind = "Disconnect" => EarlyDisconnect \/ lifecycle # "Waiting"
             /\ cmdCh' = Append(cmdCh, r)
        /\ pc' = [pc EXCEPT ![c] = "waiting"]
     \/ /\ actor = "stopped"
        /\ pc' = [pc EXCEPT ![c] = "idle"]
        /\ UNCHANGED cmdCh
  /\ UNCHANGED <<roomVars, actor, timers, answered, calls, history>>

\* submit stops waiting; whatever it left behind has no reader.
StopWaiting(c) ==
  /\ pc[c] = "waiting"
  /\ pc' = [pc EXCEPT ![c] = "idle"]
  /\ answered' = answered \ {c}
  /\ cmdCh' = Orphan(c)
  /\ UNCHANGED <<roomVars, actor, timers, calls, history>>

\* Mutant: submit does not watch stopped.
ReturnOnlyAnswered(c) == c \in answered /\ StopWaiting(c)

Return(c) == (c \in answered \/ actor = "stopped") /\ StopWaiting(c)

ContextDone(c) == StopWaiting(c)

-----------------------------------------------------------------------------

Init ==
  /\ lifecycle = "Waiting" /\ game = "nil"
  /\ seatOrder = <<>> /\ players = [p \in {} |-> NewSlot(0)]
  /\ serverSeq = 0
  /\ cmdCh = <<>> /\ actor = "running" /\ timers = {}
  /\ pc = [c \in Caller |-> "idle"] /\ answered = {} /\ calls = 0
  /\ away = [p \in Player |-> Grace] /\ applied = [p \in Player |-> {}]
  /\ view = [seq |-> 0, here |-> {}, started |-> FALSE, over |-> FALSE]

HandleCommand ==
  \/ HandleJoin \/ HandleLeave \/ HandleAction \/ HandleDisconnect \/ HandleReconnect
  \/ HandleGraceExpired \/ HandleForceClose \/ HandleSnapshot

Actor == HandleCommand \/ HandleTick \/ OnClose \/ CloseStopped

Clock == TimePasses \/ \E t \in timers : FireTimer(t)

Callers == \E c \in Caller : Call(c) \/ Send(c) \/ Return(c) \/ ContextDone(c)

Next == Actor \/ Clock \/ Callers

Spec == Init /\ [][Next]_vars

(***************************************************************************)
(* The Go scheduler runs every goroutine that can run, and select serves    *)
(* each ready case eventually; timers fire.  Nobody has to call the room,   *)
(* no context has to expire, and the game need not change on a tick.        *)
(***************************************************************************)
Fairness ==
  /\ WF_vars(HandleCommand) /\ WF_vars(OnClose) /\ WF_vars(CloseStopped)
  /\ WF_vars(TimePasses) /\ WF_vars(\E t \in timers : FireTimer(t))
  /\ \A c \in Caller : WF_vars(Send(c)) /\ WF_vars(Return(c))

FairSpec == Spec /\ Fairness

-----------------------------------------------------------------------------
(***************************************************************************)
(* Properties                                                               *)
(***************************************************************************)

TypeOK ==
  /\ lifecycle \in Lifecycles /\ game \in {"nil", "running", "over"}
  /\ seatOrder \in Seq(Player)
  /\ DOMAIN players \subseteq Player /\ players \in [DOMAIN players -> Slot]
  /\ serverSeq \in Nat
  /\ cmdCh \in Seq(Command) /\ Len(cmdCh) <= CmdCap
  /\ actor \in {"running", "removed", "stopped"}
  /\ timers \subseteq Timer
  /\ pc \in [Caller -> {"idle", "sending", "waiting"}]
  /\ answered \subseteq Caller /\ calls \in Nat
  /\ away \in [Player -> 0..Grace] /\ applied \in [Player -> SUBSET Nat]
  /\ view \in View

\* The seat list and the slots describe the same seating: nobody sits twice, slot seats
\* are the positions in seatOrder (handleLeave's renumbering), and MaxPlayers holds.
SeatsConsistent ==
  /\ Len(seatOrder) <= MaxPlayers
  /\ DOMAIN players = {seatOrder[i] : i \in DOMAIN seatOrder}
  /\ \A i \in DOMAIN seatOrder : players[seatOrder[i]].seat = i - 1

\* What is true of a grace period that ends in "left" ticks: it belongs to a seat, to this
\* absence or an earlier one, and if to this one then it was not cut short.
Pending(p, generation, left) ==
  /\ p \in DOMAIN players /\ generation <= players[p].generation
  /\ generation = players[p].generation /\ ~players[p].connected => away[p] + left >= Grace

\* The bookkeeping of handleDisconnect: each armed timer, and each expiry still queued
\* behind other commands, measures the absence its generation names; a room that has not
\* started has none.
GraceInv ==
  /\ \A t \in timers : Pending(t.player, t.generation, t.left)
  /\ \A i \in DOMAIN cmdCh :
       cmdCh[i].kind = "GraceExpired" => Pending(cmdCh[i].player, cmdCh[i].generation, 0)
  /\ lifecycle = "Waiting" =>
       timers = {} /\ \A i \in DOMAIN cmdCh : cmdCh[i].kind # "GraceExpired"

\* A player loses by abandonment only when they are disconnected and have been without
\* a break for the whole grace window: no timer armed by an earlier disconnect, however
\* long it sat in a full channel, cuts the window short (handleGraceExpired).
ForfeitOnlyAfterGrace ==
  [][\A p \in Player :
       /\ lifecycle = "Active" /\ lifecycle' = "Finished"
       /\ cmdCh' # cmdCh /\ cmd.kind = "GraceExpired" /\ cmd.player = p
       => ~players[p].connected /\ away[p] = Grace]_vars

\* Every call is answered exactly once: while a caller waits there is one command of its
\* own in the channel or one answer in its reply channel, never both, so the actor's
\* send on the one-place reply channel cannot block.
AnsweredOnce ==
  \A c \in Caller :
    LET mine == {i \in DOMAIN cmdCh : cmdCh[i].reply = c}
    IN  /\ \A i, j \in mine : i = j
        /\ pc[c] = "waiting" <=> (c \in answered) # (mine # {})
        /\ c \in answered => mine = {}

\* The broadcasts tell the truth: a listener's sequence number, presence list, start and
\* end of game agree with the actor's state for everyone who holds a seat.
StreamDescribesRoom ==
  /\ view.seq = serverSeq
  /\ view.started <=> game # "nil"
  /\ view.over <=> game = "over"
  /\ \A p \in DOMAIN players : p \in view.here <=> players[p].connected

\* Finished means that the game reached a terminal state (lifecycle.go); a room with a
\* running game is Active until it is closed.
FinishedMeansGameOver ==
  /\ lifecycle = "Finished" => game = "over"
  /\ lifecycle = "Active" => game = "running"
  /\ lifecycle = "Waiting" => game = "nil"

\* An action is applied under a sequence number higher than all the player's earlier
\* ones, so a client may send one again without it counting twice (handleAction).
NoActionAppliedTwice ==
  [][\A p \in Player :
       cmdCh' # cmdCh /\ cmdCh # <<>> /\ cmd.kind = "Action" /\ cmd.player = p
         /\ serverSeq' # serverSeq
       => \A s \in applied[p] : s < cmd.seq]_vars

Promise == INSTANCE RoomLifecycle
             WITH seated <- Len(seatOrder), stopped <- (actor = "stopped")

\* The room implements the promise of RoomLifecycle: the lifecycle never moves back, no
\* seat changes hands once the game is over, the sequence number moves in an Active room
\* only and by one, and the actor stops only once the room is closed.
KeepsPromise == Promise!Spec

\* Every call to the room's API returns, also the ones whose command is left in the
\* channel of a room that closed (send and submit watch stopped).
CallsReturn == \A c \in Caller : pc[c] # "idle" ~> pc[c] = "idle"

\* A player who drops out of an Active room and stays away does not hold it open for
\* ever: they come back, or the room leaves Active (the grace timer).
AbsenceResolved ==
  \A p \in Player :
    (lifecycle = "Active" /\ p \in DOMAIN players /\ ~players[p].connected)
      ~> (lifecycle # "Active" \/ players[p].connected)

=============================================================================
