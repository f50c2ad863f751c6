----------------------------- MODULE LeaseProofs -----------------------------
(***************************************************************************)
(* The lease of a running room survives a missed round, for every choice of *)
(* the durations that is Timely.                                            *)
(***************************************************************************)
EXTENDS Lease, TLAPS

\* Where the upkeep of a running room stands: a round is over before the ticker fires
\* again, and only a stopped room releases its lease.
RoundInTime ==
  Kept =>
    /\ upkeep # "release" /\ "release" \notin late
    /\ upkeep = "select" => fresh /\ (due => ticker + lag >= Interval) /\ (~due => lag = 0)
    /\ upkeep = "renew" => ~due /\ lag = 0 /\ ticker + MaxLag + age >= Interval
    /\ upkeep = "acquire" => ~due /\ lag = 0 /\ ticker + MaxLag + OpTimeout + age >= Interval

\* A round is due or under way that has not set the key yet.
Pending == due \/ ~fresh

\* How much of the lease is left: enough for the rounds that may still be missed.
LeaseLasts ==
  Kept =>
    /\ misses = 0 => owner = "self" /\ left + Answer >= ticker + Interval
    /\ misses = 0 /\ ~Pending => left + Answer >= ticker + 2 * Interval
    /\ misses = 1 => owner = "self" /\ left + Answer >= ticker
    /\ misses = 1 /\ ~Pending => left + Answer >= ticker + Interval

IInv == TypeOK /\ RoundInTime /\ LeaseLasts

-----------------------------------------------------------------------------
\* Every step of Redis, of the upkeep and of the clock keeps the types.
LEMMA Typed == TypeOK /\ [Next]_vars => TypeOK'
<1> SUFFICES ASSUME TypeOK, [Next]_vars PROVE TypeOK'
  OBVIOUS
<1> USE LeaseAssumption DEF TypeOK, Ops
<1>0. CASE UNCHANGED vars
  BY <1>0 DEF vars
<1>1. ASSUME SetKey PROVE owner' = "self" /\ left' = LeaseTTL /\ fresh' \in BOOLEAN /\ misses' \in 0..2
                          /\ left' \in 0..LeaseTTL /\ left' # 0
  BY <1>1 DEF SetKey
<1>2. ASSUME NEW op, Execute(op)
      PROVE /\ owner' \in {"none", "self", "rival"} /\ left' \in 0..LeaseTTL
            /\ owner' = "none" <=> left' = 0
            /\ fresh' \in BOOLEAN /\ misses' \in 0..2
  <2>1. CASE SetKey
    BY <1>1, <2>1
  <2>2. CASE UNCHANGED keyVars
    BY <2>2 DEF keyVars
  <2>3. CASE owner' = "none" /\ left' = 0 /\ UNCHANGED <<fresh, misses>>
    BY <2>3
  <2> QED
    BY <1>2, <2>1, <2>2, <2>3, Zenon DEF Execute, Renew, Acquire, Release
<1>3. ASSUME NEW ok, GoOn(ok)
      PROVE /\ owner' = owner /\ left' = left /\ fresh' \in BOOLEAN /\ misses' \in 0..2
            /\ upkeep' \in Ops \cup {"select", "gone"} /\ age' = 0 /\ result' = "none"
  <2>1. ASSUME EndRound PROVE misses' \in 0..2
    BY <2>1 DEF EndRound
  <2> QED
    BY <1>3, <2>1, Zenon DEF GoOn, EndRound, Begin, keyVars
<1>4. CASE TickFires
  BY <1>4 DEF TickFires, keyVars
<1>5. CASE StartRound
  <2>1. due' \in BOOLEAN /\ fresh' \in BOOLEAN
    BY <1>5, Zenon DEF StartRound
  <2> QED
    BY <1>5, <2>1 DEF StartRound, Begin
<1>6. CASE StartRelease
  BY <1>6 DEF StartRelease, Begin, keyVars, timerVars
<1>7. CASE Answered
  <2>1. GoOn(result = "yes")
    BY <1>7 DEF Answered
  <2> QED
    BY <1>3, <1>7, <2>1 DEF Answered, timerVars
<1>8. CASE Fails
  <2>1. late' \subseteq Ops /\ faults' \in 0..MaxFaults
    BY <1>8 DEF Fails
  <2>2. GoOn(FALSE) /\ UNCHANGED <<room, timerVars>>
    BY <1>8 DEF Fails
  <2>3. /\ owner' = owner /\ left' = left /\ fresh' \in BOOLEAN /\ misses' \in 0..2
        /\ upkeep' \in Ops \cup {"select", "gone"} /\ age' = 0 /\ result' = "none"
    BY <1>3, <2>2, Zenon
  <2> QED
    BY <2>1, <2>2, <2>3 DEF timerVars
<1>9. CASE ExecuteNow
  BY <1>2, <1>9 DEF ExecuteNow, timerVars
<1>10. ASSUME NEW op \in Ops, ExecuteLate(op) PROVE TypeOK'
  BY <1>2, <1>10 DEF ExecuteLate, timerVars, keyVars
<1>11. CASE RivalAcquires
  BY <1>11 DEF RivalAcquires, timerVars
<1>12. CASE Stop
  BY <1>12 DEF Stop, timerVars, keyVars
<1>13. CASE Crash
  BY <1>13 DEF Crash, Begin, timerVars, keyVars
<1>14. CASE TimePasses
  BY <1>14 DEF TimePasses, NothingOverdue
<1> QED
  BY <1>0, <1>4, <1>5, <1>6, <1>7, <1>8, <1>9, <1>10, <1>11, <1>12, <1>13, <1>14 DEF Next, Upkeep

-----------------------------------------------------------------------------
\* The upkeep's rounds end in time, whatever Redis does.
LEMMA RoundStep == Timely /\ TypeOK /\ RoundInTime /\ [Next]_vars => RoundInTime'
<1> SUFFICES ASSUME Timely, TypeOK, RoundInTime, [Next]_vars, Kept' PROVE RoundInTime'
  BY DEF RoundInTime
<1> USE LeaseAssumption DEF TypeOK, Ops, Timely, RoundInTime, Kept
<1>0. CASE UNCHANGED vars
  BY <1>0 DEF vars
<1>1. CASE TickFires
  BY <1>1 DEF TickFires, keyVars
<1>2. CASE StartRound
  BY <1>2 DEF StartRound, Begin
<1>3. CASE StartRelease
  BY <1>3 DEF StartRelease
<1>4. ASSUME NEW ok, GoOn(ok), Kept, UNCHANGED timerVars, "release" \notin late' PROVE RoundInTime'
  BY <1>4 DEF GoOn, EndRound, Begin, timerVars, keyVars
<1>5. CASE Answered
  <2>1. GoOn(result = "yes") /\ Kept /\ UNCHANGED timerVars /\ "release" \notin late'
    BY <1>5 DEF Answered
  <2> QED
    BY <1>4, <2>1, Zenon
<1>6. CASE Fails
  <2>1. GoOn(FALSE) /\ UNCHANGED timerVars
    BY <1>6 DEF Fails
  <2>2. Kept /\ "release" \notin late'
    BY <1>6 DEF Fails
  <2> QED
    BY <1>4, <2>1, <2>2, Zenon
<1>7. ASSUME NEW op, Execute(op), fresh PROVE fresh'
  BY <1>7 DEF Execute, Renew, Acquire, Release, SetKey, keyVars
<1>8. CASE ExecuteNow
  BY <1>7, <1>8 DEF ExecuteNow, timerVars
<1>9. ASSUME NEW op \in Ops, ExecuteLate(op) PROVE RoundInTime'
  BY <1>7, <1>9 DEF ExecuteLate, timerVars, keyVars
<1>10. CASE RivalAcquires
  BY <1>10 DEF RivalAcquires, timerVars
<1>11. CASE Stop \/ Crash
  BY <1>11 DEF Stop, Crash
<1>12. CASE TimePasses
  BY <1>12 DEF TimePasses, NothingOverdue
<1> QED
  BY <1>0, <1>1, <1>2, <1>3, <1>5, <1>6, <1>8, <1>9, <1>10, <1>11, <1>12 DEF Next, Upkeep

\* What is left of the lease covers the rounds that may still be missed.
LEMMA LeaseStep == Timely /\ IInv /\ [Next]_vars => LeaseLasts'
<1> SUFFICES ASSUME Timely, TypeOK, RoundInTime, LeaseLasts, [Next]_vars, Kept' PROVE LeaseLasts'
  BY DEF LeaseLasts, IInv
<1> USE LeaseAssumption DEF TypeOK, Ops, Timely, RoundInTime, Kept, LeaseLasts, Pending
<1>0. CASE UNCHANGED vars
  BY <1>0 DEF vars
<1>1. CASE TickFires
  BY <1>1 DEF TickFires, keyVars
<1>2. CASE StartRound
  BY <1>2 DEF StartRound, Begin
<1>3. CASE StartRelease
  BY <1>3 DEF StartRelease
<1>4. ASSUME NEW ok, GoOn(ok), Kept, UNCHANGED timerVars PROVE LeaseLasts'
  BY <1>4 DEF GoOn, EndRound, Begin, timerVars, keyVars
<1>5. CASE Answered
  <2>1. GoOn(result = "yes") /\ Kept /\ UNCHANGED timerVars
    BY <1>5 DEF Answered
  <2> QED
    BY <1>4, <2>1, Zenon
<1>6. CASE Fails
  <2>1. GoOn(FALSE) /\ UNCHANGED timerVars
    BY <1>6 DEF Fails
  <2>2. Kept
    BY <1>6 DEF Fails
  <2> QED
    BY <1>4, <2>1, <2>2, Zenon
<1>7. ASSUME NEW op, op # "release", Execute(op), UNCHANGED timerVars, Kept PROVE LeaseLasts'
  <2>1. CASE SetKey
    BY <1>7, <2>1 DEF SetKey, timerVars
  <2>2. CASE UNCHANGED keyVars
    BY <1>7, <2>2 DEF keyVars, timerVars
  <2> QED
    BY <1>7, <2>1, <2>2 DEF Execute, Renew, Acquire
<1>8. CASE ExecuteNow
  BY <1>7, <1>8 DEF ExecuteNow
<1>9. ASSUME NEW op \in Ops, ExecuteLate(op) PROVE LeaseLasts'
  BY <1>7, <1>9 DEF ExecuteLate, timerVars, keyVars
<1>10. CASE RivalAcquires
  BY <1>10 DEF RivalAcquires, timerVars
<1>11. CASE Stop \/ Crash
  BY <1>11 DEF Stop, Crash
<1>12. CASE TimePasses
  BY <1>12 DEF TimePasses, NothingOverdue
<1> QED
  BY <1>0, <1>1, <1>2, <1>3, <1>5, <1>6, <1>8, <1>9, <1>10, <1>11, <1>12 DEF Next, Upkeep

\* The lease of a running room lapses only after two missed rounds in a row, for all
\* durations under which the calls of a round are over before the next one is due.
THEOREM OneMissSurvived == Timely => (Spec => []SurvivesOneMiss)
<1> SUFFICES ASSUME Timely PROVE Spec => []SurvivesOneMiss
  OBVIOUS
<1>1. Init => IInv
  <2> SUFFICES ASSUME Init PROVE IInv
    OBVIOUS
  <2>1. due \in BOOLEAN /\ fresh \in BOOLEAN /\ ~Pending /\ fresh
    BY Zenon DEF Init, Pending
  <2>2. TypeOK
    BY <2>1, LeaseAssumption DEF Init, TypeOK, Ops
  <2> QED
    BY <2>1, <2>2, LeaseAssumption DEF Init, IInv, RoundInTime, LeaseLasts, Kept, Timely
<1>2. IInv /\ [Next]_vars => IInv'
  BY Typed, RoundStep, LeaseStep DEF IInv
<1>3. IInv => SurvivesOneMiss
  BY DEF IInv, LeaseLasts, SurvivesOneMiss, TypeOK, Kept
<1> QED
  BY <1>1, <1>2, <1>3, PTL DEF Spec

\* Neither the upkeep nor a late command touches a lease that another node holds.
THEOREM RivalKept == Spec => RivalLeaseKept
<1> DEFINE Untouched == owner = "rival" => (owner' = "rival" /\ left' <= left) \/ (left <= 1 /\ owner' = "none")
<1>1. Init => TypeOK
  <2> SUFFICES ASSUME Init PROVE TypeOK
    OBVIOUS
  <2>1. due \in BOOLEAN /\ fresh \in BOOLEAN
    BY Zenon DEF Init
  <2> QED
    BY <2>1, LeaseAssumption DEF Init, TypeOK, Ops
<1>2. TypeOK /\ [Next]_vars => Untouched
  <2> SUFFICES ASSUME TypeOK, [Next]_vars, owner = "rival", ~(owner' = owner /\ left' = left)
               PROVE left' <= left /\ (owner' = "rival" \/ (left <= 1 /\ owner' = "none"))
    BY DEF TypeOK
  <2>1. ASSUME NEW op, Execute(op) PROVE FALSE
    BY <2>1 DEF Execute, Renew, Acquire, Release, keyVars
  <2>2. TimePasses
    BY <2>1 DEF Next, Upkeep, vars, keyVars, TickFires, StartRound, StartRelease, Answered, Fails,
                GoOn, EndRound, ExecuteNow, ExecuteLate, RivalAcquires, Stop, Crash
  <2> QED
    BY <2>2, LeaseAssumption DEF TimePasses, TypeOK
<1>3. TypeOK /\ [Next]_vars => TypeOK'
  BY Typed
<1> QED
  BY <1>1, <1>2, <1>3, PTL DEF Spec, RivalLeaseKept

=============================================================================
