-------------------------------- MODULE Lease --------------------------------
(***************************************************************************)
(* The ownership lease of one room: maintainLease of                        *)
(* internal/service/room/manager.go, which runs beside the room's actor,    *)
(* and the Redis key it keeps alive (internal/storage/redis/lock.go).       *)
(*                                                                          *)
(* A Redis call takes time.  Redis may execute it or not before the caller  *)
(* gives up, the answer may be lost, and a command that was given up may    *)
(* still be executed later.  Time advances in ticks of a clock.             *)
(***************************************************************************)
EXTENDS Integers

CONSTANTS
  LeaseTTL,  \* ManagerConfig.LeaseTTL
  Interval,  \* LeaseTTL / 3
  OpTimeout, \* the timeout of one Redis call
  Answer,    \* how old the lease is when CreateRoom starts the upkeep
  MaxLag,    \* how long a tick waits for the goroutine
  MaxFaults  \* bound: how many calls fail, and leases are lost to another node

ASSUME LeaseAssumption ==
  /\ LeaseTTL \in Nat /\ Interval \in Nat \ {0} /\ 3 * Interval <= LeaseTTL
  /\ OpTimeout \in Nat /\ Answer \in Nat /\ MaxLag \in Nat /\ MaxFaults \in Nat

VARIABLES
  owner,  \* the value of the key room:{id}:owner
  left,   \* its time to live
  room,   \* running, or stopped: Room.stopped is closed
  upkeep, \* maintainLease: in its select, in a Redis call, or gone
  age,    \* how long that call has taken
  result, \* what Redis made of it
  ticker, \* time left until the ticker fires
  due,    \* ticker.C holds a tick
  lag,    \* how long that tick has been waiting
  late,   \* commands that were given up before Redis executed them
  faults, \* how many of those faults have happened
  fresh,  \* history: the key was set in this round, or since
  misses  \* history: rounds in a row that did not set the key, up to 2

vars == <<owner, left, room, upkeep, age, result, ticker, due, lag, late, faults, fresh, misses>>

keyVars == <<owner, left, fresh, misses>>
timerVars == <<ticker, due, lag>>

Ops == {"renew", "acquire", "release"}

\* CreateRoom has acquired the lease and starts the upkeep; or it has failed to, and goes
\* on without (the key may be there all the same, or come to be).
Init ==
  /\ room = "running" /\ age = 0 /\ result = "none" /\ faults = 0
  /\ ticker = Interval /\ due = FALSE /\ lag = 0 /\ fresh = TRUE /\ misses = 0
  /\ \/ /\ upkeep = "select" /\ late = {}
        /\ owner = "self" /\ left \in {n \in 1..LeaseTTL : n + Answer >= LeaseTTL}
     \/ /\ upkeep = "gone" /\ late \in {{}, {"acquire"}}
        /\ \/ owner = "none" /\ left = 0
           \/ owner = "self" /\ left = LeaseTTL

-----------------------------------------------------------------------------
(***************************************************************************)
(* Redis                                                                    *)
(***************************************************************************)

\* The key is set by this node.
SetKey ==
  /\ owner' = "self" /\ left' = LeaseTTL /\ fresh' = TRUE /\ misses' = 0

Renew == IF owner = "self" THEN SetKey ELSE UNCHANGED keyVars

Acquire == IF owner = "none" THEN SetKey ELSE UNCHANGED keyVars

\* Mutant: the script does not ask whose key it is.
DeleteAnyway ==
  owner' = "none" /\ left' = 0 /\ UNCHANGED <<fresh, misses>>

Release ==
  IF owner = "self" THEN owner' = "none" /\ left' = 0 /\ UNCHANGED <<fresh, misses>>
  ELSE UNCHANGED keyVars

\* What the command does to the key.
Execute(op) ==
  \/ op = "renew" /\ Renew
  \/ op = "acquire" /\ Acquire
  \/ op = "release" /\ Release

\* Whether it succeeds: 1 for the scripts, OK for SetNX.
Succeeds(op) == owner = IF op = "acquire" THEN "none" ELSE "self"

ExecuteNow ==
  /\ upkeep \in Ops /\ result = "none"
  /\ Execute(upkeep)
  /\ result' = IF Succeeds(upkeep) THEN "yes" ELSE "no"
  /\ UNCHANGED <<room, upkeep, age, timerVars, late, faults>>

\* A command that was given up reaches Redis after all, or is lost.
ExecuteLate(op) ==
  /\ op \in late /\ late' = late \ {op}
  /\ Execute(op) \/ UNCHANGED keyVars
  /\ UNCHANGED <<room, upkeep, age, result, timerVars, faults>>

\* Another node takes a lease that has lapsed.
RivalAcquires ==
  /\ owner = "none" /\ faults < MaxFaults /\ faults' = faults + 1
  /\ owner' = "rival" /\ left' = LeaseTTL
  /\ UNCHANGED <<room, upkeep, age, result, timerVars, late, fresh, misses>>

-----------------------------------------------------------------------------
(***************************************************************************)
(* maintainLease                                                            *)
(***************************************************************************)

Begin(op) == upkeep' = op /\ age' = 0 /\ result' = "none"

\* Mutant: the ticker runs at two thirds of the TTL.
SlowTicker ==
  /\ upkeep # "gone" /\ ticker = 0
  /\ ticker' = 2 * Interval /\ due' = TRUE
  /\ UNCHANGED <<keyVars, room, upkeep, age, result, lag, late, faults>>

\* The ticker's channel holds one tick.
TickFires ==
  /\ upkeep # "gone" /\ ticker = 0
  /\ ticker' = Interval /\ due' = TRUE
  /\ UNCHANGED <<keyVars, room, upkeep, age, result, lag, late, faults>>

StartRound ==
  /\ upkeep = "select" /\ due
  /\ due' = FALSE /\ lag' = 0 /\ fresh' = FALSE
  /\ Begin("renew")
  /\ UNCHANGED <<owner, left, misses, room, ticker, late, faults>>

\* The room's actor has stopped.
StartRelease ==
  /\ upkeep = "select" /\ room = "stopped"
  /\ Begin("release")
  /\ UNCHANGED <<keyVars, room, timerVars, late, faults>>

\* The round is over; it counts as missed if it did not set the key.
EndRound ==
  /\ Begin("select")
  /\ fresh' = TRUE
  /\ misses' = IF fresh \/ misses = 2 THEN misses ELSE misses + 1
  /\ UNCHANGED <<owner, left>>

\* Mutant: a failed renewal is not followed by an attempt to acquire.
GoOnWithout(ok) ==
  \/ upkeep = "renew" /\ EndRound
  \/ upkeep = "acquire" /\ EndRound
  \/ upkeep = "release" /\ Begin("gone") /\ UNCHANGED keyVars

\* Mutant: the goroutine does not return after the release.
NoReturn(ok) ==
  \/ upkeep = "renew" /\ ok /\ EndRound
  \/ upkeep = "renew" /\ ~ok /\ Begin("acquire") /\ UNCHANGED keyVars
  \/ upkeep \in {"acquire", "release"} /\ EndRound

\* Where the goroutine goes on: a renewal that failed is followed by an attempt to
\* acquire the lease anew.
GoOn(ok) ==
  \/ upkeep = "renew" /\ ok /\ EndRound
  \/ upkeep = "renew" /\ ~ok /\ Begin("acquire") /\ UNCHANGED keyVars
  \/ upkeep = "acquire" /\ EndRound
  \/ upkeep = "release" /\ Begin("gone") /\ UNCHANGED keyVars

Answered ==
  /\ upkeep \in Ops /\ result # "none"
  /\ GoOn(result = "yes")
  /\ UNCHANGED <<room, timerVars, late, faults>>

\* The call fails, by its timeout or before: Redis may have executed the command, may do
\* so later, or never.
Fails ==
  /\ upkeep \in Ops /\ faults < MaxFaults /\ faults' = faults + 1
  /\ late' \in IF result = "none" THEN {late, late \cup {upkeep}} ELSE {late}
  /\ GoOn(FALSE)
  /\ UNCHANGED <<room, timerVars>>

-----------------------------------------------------------------------------
(***************************************************************************)
(* The room, the node and the clock                                         *)
(***************************************************************************)

Stop ==
  /\ room = "running" /\ room' = "stopped"
  /\ UNCHANGED <<keyVars, upkeep, age, result, timerVars, late, faults>>

\* The node crashes: the room is gone, and nobody releases its lease.
Crash ==
  /\ room = "running" /\ room' = "stopped"
  /\ late' = IF upkeep \in Ops /\ result = "none" THEN late \cup {upkeep} ELSE late
  /\ Begin("gone")
  /\ UNCHANGED <<keyVars, timerVars, faults>>

\* Calls end in time, and a tick is not kept waiting for long.
NothingOverdue ==
  /\ upkeep \in Ops => age < OpTimeout
  /\ upkeep # "gone" => ticker > 0
  /\ upkeep = "select" /\ due => lag < MaxLag

TimePasses ==
  /\ NothingOverdue
  /\ left' = IF left = 0 THEN 0 ELSE left - 1
  /\ owner' = IF left <= 1 THEN "none" ELSE owner
  /\ age' = IF upkeep \in Ops THEN age + 1 ELSE age
  /\ ticker' = IF upkeep = "gone" THEN ticker ELSE ticker - 1
  /\ lag' = IF upkeep = "select" /\ due THEN lag + 1 ELSE lag
  /\ UNCHANGED <<room, upkeep, result, due, late, faults, fresh, misses>>

Upkeep == StartRound \/ StartRelease \/ Answered \/ Fails

Next ==
  \/ Upkeep \/ TickFires \/ ExecuteNow \/ (\E op \in Ops : ExecuteLate(op))
  \/ RivalAcquires \/ Stop \/ Crash \/ TimePasses

Spec == Init /\ [][Next]_vars

\* Time goes on, the goroutine is scheduled, Redis executes what reaches it, and what was
\* given up is executed or lost some day.  The select takes one of its ready cases at
\* random, so a closed channel is not passed over for ever.
FairSpec ==
  /\ Spec /\ WF_vars(TimePasses) /\ WF_vars(TickFires) /\ WF_vars(ExecuteNow)
  /\ WF_vars(StartRound \/ StartRelease \/ Answered)
  /\ SF_vars(StartRelease)
  /\ \A op \in Ops : WF_vars(ExecuteLate(op))

-----------------------------------------------------------------------------
(***************************************************************************)
(* Properties                                                               *)
(***************************************************************************)

TypeOK ==
  /\ owner \in {"none", "self", "rival"} /\ left \in 0..LeaseTTL
  /\ owner = "none" <=> left = 0
  /\ room \in {"running", "stopped"} /\ upkeep \in Ops \cup {"select", "gone"}
  /\ age \in 0..OpTimeout /\ result \in {"none", "yes", "no"}
  /\ ticker \in 0..Interval /\ due \in BOOLEAN /\ lag \in 0..MaxLag
  /\ late \subseteq Ops /\ faults \in 0..MaxFaults
  /\ fresh \in BOOLEAN /\ misses \in 0..2

\* The upkeep is under way.
Kept == room = "running" /\ upkeep # "gone"

\* The lease of a running room outlives a round in which no Redis call gets through: it
\* lapses only after two of them in a row (maintainLease renews at a third of the TTL).
\* This needs Timely, below.
SurvivesOneMiss == Kept /\ owner # "self" => misses = 2

\* The settings under which it holds: a round of two calls is over well before the next.
Timely == Answer + MaxLag + 2 * OpTimeout < Interval

\* A lease that another node holds is neither extended nor deleted by this one, whatever
\* calls of its own are under way or come late (the Lua scripts compare the owner).
RivalLeaseKept ==
  [][owner = "rival" => (owner' = "rival" /\ left' <= left) \/ (left <= 1 /\ owner' = "none")]_vars

\* The upkeep heals itself: when Redis works again, a running room gets its lease back and
\* keeps it.
LeaseHeals == <>[](Kept => owner = "self")

\* No lease stays behind for good when its room has stopped or its node has crashed, even
\* if the release failed or a late command brought the lease back once more.
LeaseEnds == room = "stopped" ~> [](owner # "self")

=============================================================================
