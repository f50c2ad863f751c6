----------------------------- MODULE TokenBucket -----------------------------
(***************************************************************************)
(* The rate limiter of a connection (internal/ratelimit/tokenbucket.go).    *)
(*                                                                          *)
(* AllowN is one critical section of the bucket's mutex, so one step.  Time *)
(* advances in ticks and tokens are counted in a unit of which Rate accrue  *)
(* in a tick: the arithmetic is exact, which the floats of the code are up  *)
(* to rounding.                                                             *)
(***************************************************************************)
EXTENDS Integers

CONSTANTS
  Capacity, \* TokenBucket.capacity
  Rate,     \* TokenBucket.refillRate, per tick
  Costs,    \* the n of AllowN
  MaxTime   \* bound: the last tick

ASSUME BucketAssumption ==
  /\ Capacity \in Nat /\ Rate \in Nat /\ MaxTime \in Nat
  /\ Costs \subseteq Nat \ {0}

VARIABLES
  tokens,     \* TokenBucket.tokens
  lastRefill, \* TokenBucket.lastRefill
  now,        \* the clock, which is monotonic
  admitted    \* history: for each time, what was admitted from that time on

vars == <<tokens, lastRefill, now, admitted>>

Times == 0..MaxTime

Init ==
  /\ tokens = Capacity
  /\ lastRefill = 0 /\ now = 0
  /\ admitted = [t \in Times |-> 0]

\* Mutant: the capacity does not bound the refill.
Overflow == tokens + (now - lastRefill) * Rate

\* Mutant: a refill is lost when the bucket is not empty.
RefillWhenEmpty ==
  LET sum == tokens + (now - lastRefill) * Rate
  IN  IF tokens > 0 THEN tokens ELSE IF sum > Capacity THEN Capacity ELSE sum

\* What refillLocked makes of the tokens.
Refilled ==
  LET sum == tokens + (now - lastRefill) * Rate
  IN  IF sum > Capacity THEN Capacity ELSE sum

Allow(n) ==
  /\ Refilled >= n
  /\ tokens' = Refilled - n
  /\ lastRefill' = now
  /\ admitted' = [t \in Times |-> IF t <= now THEN admitted[t] + n ELSE admitted[t]]
  /\ UNCHANGED now

Refuse(n) ==
  /\ Refilled < n
  /\ tokens' = Refilled
  /\ lastRefill' = now
  /\ UNCHANGED <<now, admitted>>

AllowN(n) == Allow(n) \/ Refuse(n)

Later ==
  /\ now < MaxTime
  /\ now' = now + 1
  /\ UNCHANGED <<tokens, lastRefill, admitted>>

Next == Later \/ \E n \in Costs : AllowN(n)

Spec == Init /\ [][Next]_vars

-----------------------------------------------------------------------------
(***************************************************************************)
(* Properties                                                               *)
(***************************************************************************)

TypeOK ==
  /\ tokens \in 0..Capacity
  /\ lastRefill \in Times /\ now \in Times /\ lastRefill <= now
  /\ admitted \in [Times -> Nat]

\* What a window that opens with a full bucket may let through by a given time.
Allowance(t, upto) == Capacity + (upto - t) * Rate

\* The limit: from any moment on, no more is admitted than one burst and the steady rate
\* allow, whatever the pattern of calls.
RateBounded ==
  \A t \in 0..now : admitted[t] <= Allowance(t, now)

\* The limiter is no stricter than it says: a call for n is refused only if admitting it
\* would put some window over its allowance, so a client that keeps to the rate is never
\* refused.
RefusedOnlyOverRate ==
  \A n \in Costs :
    Refilled < n => \E t \in 0..now : admitted[t] + n > Allowance(t, now)

\* The account that makes both true: what is left in the bucket is what the tightest
\* window still allows, and nothing was admitted since the last refill.
Account ==
  /\ \A t \in 0..lastRefill : admitted[t] + tokens <= Allowance(t, lastRefill)
  /\ \E t \in 0..lastRefill : admitted[t] + tokens = Allowance(t, lastRefill)
  /\ \A t \in Times : t > lastRefill => admitted[t] = 0

=============================================================================
