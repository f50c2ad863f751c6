------------------------------ MODULE PingPong ------------------------------
(***************************************************************************)
(* The reflex duel (internal/domain/pingpong) as the room actor drives it,  *)
(* with the delays that decide it: a player presses the buzzer on what the  *)
(* last broadcast showed them, and the buzz reaches the room later.         *)
(*                                                                          *)
(* Seats stand for players.  A call that returns an error changes nothing.  *)
(* Time counts down: ArmAt is modelled by the time left until it.           *)
(***************************************************************************)
EXTENDS Integers

CONSTANTS
  None,     \* no winner, no buzz, ArmAt not set yet
  ArmDelay  \* State.ArmDelay, in units of time

VARIABLES
  phase,     \* State.Phase
  left,      \* State.ArmAt, as the time left until it
  done,      \* State.Done
  winner,    \* State.Winner
  reason,    \* State.Reason
  shown,     \* the phase in the last state broadcast to the players
  seen,      \* the phase each player has seen last
  buzz,      \* for each player, a buzz under way: the phase it was pressed on
  age,       \* history: time since Init, up to ArmDelay
  abandoned, \* history: the seat whose player abandoned the game
  decider    \* history: the seat and the phase seen, of the buzz that decided

vars == <<phase, left, done, winner, reason, shown, seen, buzz, age, abandoned, decider>>

Seat == {0, 1}

Phases == {"countdown", "armed", "done"}

Reasons == {"", "first_buzz", "false_start", "opponent_abandoned"}

Init ==
  /\ phase = "countdown" /\ left = None /\ shown = "countdown"
  /\ done = FALSE /\ winner = None /\ reason = ""
  /\ seen = [s \in Seat |-> "countdown"] /\ buzz = [s \in Seat |-> None]
  /\ age = 0 /\ abandoned = None /\ decider = None

-----------------------------------------------------------------------------
(***************************************************************************)
(* The game's methods.                                                      *)
(***************************************************************************)

\* Mutant: the delay is left out.
ArmAtOnce == IF left = None THEN 0 ELSE left

\* Mutant: every tick sets the deadline anew.
ArmAgain == ArmDelay

\* The time left until ArmAt, which the first Tick sets.
ArmAt == IF left = None THEN ArmDelay ELSE left

\* A Tick that changes nothing broadcasts nothing.
Tick ==
  /\ ~done
  /\ left' = ArmAt
  /\ phase' = IF phase = "countdown" /\ ArmAt <= 0 THEN "armed" ELSE phase
  /\ shown' = phase'
  /\ UNCHANGED <<done, winner, reason, seen, buzz, age, abandoned, decider>>

\* The game ends, and the final state is broadcast.
Finish(won, why) ==
  /\ done' = TRUE /\ phase' = "done" /\ shown' = "done"
  /\ winner' = won /\ reason' = why
  /\ UNCHANGED left

\* Mutant: the phase is tested after it was overwritten.
VerdictTooLate(s) == Finish(1 - s, "false_start")

Verdict(s) ==
  \/ phase = "armed" /\ Finish(s, "first_buzz")
  \/ phase # "armed" /\ Finish(1 - s, "false_start")

\* The buzz reaches the room.  Once the game is done, Validate refuses it.
ApplyAction(s) ==
  /\ buzz[s] # None
  /\ buzz' = [buzz EXCEPT ![s] = None]
  /\ \/ /\ ~done
        /\ Verdict(s)
        /\ decider' = [seat |-> s, saw |-> buzz[s]]
     \/ /\ done
        /\ UNCHANGED <<phase, left, done, winner, reason, shown, decider>>
  /\ UNCHANGED <<seen, age, abandoned>>

OnPlayerAbandoned(s) ==
  /\ ~done
  /\ Finish(1 - s, "opponent_abandoned") /\ abandoned' = s
  /\ UNCHANGED <<seen, buzz, age, decider>>

-----------------------------------------------------------------------------
(***************************************************************************)
(* The players and the clock.                                               *)
(***************************************************************************)

See(s) ==
  /\ seen[s] # shown
  /\ seen' = [seen EXCEPT ![s] = shown]
  /\ UNCHANGED <<phase, left, done, winner, reason, shown, buzz, age, abandoned, decider>>

Press(s) ==
  /\ buzz[s] = None /\ seen[s] # "done"
  /\ buzz' = [buzz EXCEPT ![s] = seen[s]]
  /\ UNCHANGED <<phase, left, done, winner, reason, shown, seen, age, abandoned, decider>>

TimePasses ==
  /\ age < ArmDelay \/ (left # None /\ left > 0)
  /\ age' = IF age < ArmDelay THEN age + 1 ELSE age
  /\ left' = IF left = None \/ left = 0 THEN left ELSE left - 1
  /\ UNCHANGED <<phase, done, winner, reason, shown, seen, buzz, abandoned, decider>>

Next ==
  \/ Tick \/ TimePasses
  \/ \E s \in Seat : ApplyAction(s) \/ OnPlayerAbandoned(s) \/ See(s) \/ Press(s)

-----------------------------------------------------------------------------
(***************************************************************************)
(* Properties                                                               *)
(***************************************************************************)

TypeOK ==
  /\ phase \in Phases /\ shown \in Phases /\ left \in 0..ArmDelay \cup {None}
  /\ done \in BOOLEAN /\ winner \in Seat \cup {None} /\ reason \in Reasons
  /\ seen \in [Seat -> Phases] /\ buzz \in [Seat -> Phases \cup {None}]
  /\ age \in 0..ArmDelay /\ abandoned \in Seat \cup {None}
  /\ decider \in [seat: Seat, saw: Phases] \cup {None}
  /\ done <=> phase = "done"

\* Nobody sees "go", and nobody wins by the first buzz, before the arm delay is over
\* (Tick sets ArmAt from the first tick on, not from Init).
GoAfterDelay ==
  phase = "armed" \/ reason = "first_buzz" \/ (\E s \in Seat : seen[s] = "armed")
    => age = ArmDelay

\* A player who pressed after they saw "go" does not lose by a false start, however the
\* buzz and the broadcast were delayed, and wins if the game is decided by their buzz.
GoIsFair ==
  decider # None /\ decider.saw = "armed"
    => winner = decider.seat /\ reason = "first_buzz"

=============================================================================
