-------------------------- MODULE TokenBucketProofs --------------------------
(***************************************************************************)
(* The limiter admits what it promises, no more and no less, for every      *)
(* capacity, rate, set of call sizes and length of time.                    *)
(*                                                                          *)
(* Neither property is inductive: they speak of the clock, and the bucket   *)
(* was last brought up to date at lastRefill.  Account is: it ties the      *)
(* tokens to the windows at lastRefill.                                     *)
(***************************************************************************)
EXTENDS TokenBucket, TLAPS

\* The invariant that is inductive.
Inv == TypeOK /\ Account

\* What accrues between two times is a natural number (the product in refillLocked).
LEMMA AccrualType ==
  ASSUME NEW a \in Int, NEW b \in Int, a <= b
  PROVE  (b - a) * Rate \in Nat
<1>1. PICK x \in Nat : x = b - a
  OBVIOUS
<1>2. x * Rate \in Nat
  BY BucketAssumption
<1> QED
  BY <1>1, <1>2

\* What accrues adds up, whether or not the bucket is refilled in between.
LEMMA AccrualAdds ==
  ASSUME NEW a \in Int, NEW b \in Int, NEW c \in Int, a <= b, b <= c
  PROVE  (c - a) * Rate = (b - a) * Rate + (c - b) * Rate
<1>1. PICK x \in Nat : x = b - a
  OBVIOUS
<1>2. PICK y \in Nat : y = c - b
  OBVIOUS
<1>3. (x + y) * Rate = x * Rate + y * Rate
  BY BucketAssumption
<1>4. c - a = x + y
  BY <1>1, <1>2
<1> QED
  BY <1>1, <1>2, <1>3, <1>4

\* What refillLocked leaves in the bucket lies between 0 and the capacity, and is what
\* the tightest window allows at this moment.
LEMMA RefillKeepsAccount ==
  ASSUME Inv
  PROVE  /\ Refilled \in 0..Capacity
         /\ \A t \in 0..now : admitted[t] + Refilled <= Allowance(t, now)
         /\ \E t \in 0..now : admitted[t] + Refilled = Allowance(t, now)
<1> DEFINE more == (now - lastRefill) * Rate
<1>1. /\ tokens \in 0..Capacity /\ Capacity \in Nat /\ lastRefill \in Nat /\ now \in Nat
      /\ lastRefill <= now /\ now \in Times /\ MaxTime \in Nat
      /\ admitted \in [Times -> Nat]
  BY BucketAssumption DEF Inv, TypeOK, Times
<1>2. more \in Nat
  <2>1. lastRefill \in Int /\ now \in Int
    BY <1>1
  <2> QED
    BY <1>1, <2>1, AccrualType
<1>3. Refilled = IF tokens + more > Capacity THEN Capacity ELSE tokens + more
  BY DEF Refilled
<1>4. Refilled \in 0..Capacity
  BY <1>1, <1>2, <1>3
<1>5. ASSUME NEW t \in 0..lastRefill
      PROVE  /\ t \in 0..now /\ t \in Times /\ admitted[t] \in Nat
             /\ Allowance(t, lastRefill) \in Int
             /\ Allowance(t, now) = Allowance(t, lastRefill) + more
  <2>1. t \in Int /\ t <= lastRefill /\ t \in Times
    BY <1>1 DEF Times
  <2>2. lastRefill \in Int /\ now \in Int
    BY <1>1
  <2>3. (lastRefill - t) * Rate \in Nat
    BY <2>1, <2>2, AccrualType
  <2>4. (now - t) * Rate = (lastRefill - t) * Rate + more
    BY <1>1, <2>1, <2>2, AccrualAdds
  <2> HIDE DEF more
  <2> QED
    BY <1>1, <1>2, <2>1, <2>3, <2>4 DEF Allowance
<1>6. ASSUME NEW t \in 0..now, t > lastRefill
      PROVE  admitted[t] = 0 /\ Allowance(t, now) \in Int /\ Allowance(t, now) >= Capacity
  <2>1. t \in Times /\ t \in Int /\ t <= now /\ now \in Int
    BY <1>1 DEF Times
  <2>2. admitted[t] = 0
    BY <1>6, <2>1 DEF Inv, Account
  <2>3. (now - t) * Rate \in Nat
    BY <2>1, AccrualType
  <2> QED
    BY <1>1, <2>2, <2>3 DEF Allowance
<1> HIDE DEF more
<1>7. ASSUME NEW t \in 0..now
      PROVE  admitted[t] + Refilled <= Allowance(t, now)
  <2>1. CASE t > lastRefill
    BY <1>1, <1>4, <1>6, <2>1
  <2>2. CASE t <= lastRefill
    <3>1. t \in 0..lastRefill
      BY <1>1, <2>2
    <3>2. admitted[t] + tokens <= Allowance(t, lastRefill)
      BY <3>1 DEF Inv, Account
    <3>3. Refilled <= tokens + more
      BY <1>1, <1>2, <1>3
    <3> QED
      BY <1>1, <1>2, <1>4, <1>5, <3>1, <3>2, <3>3
  <2> QED
    BY <1>1, <2>1, <2>2
<1>8. \E t \in 0..now : admitted[t] + Refilled = Allowance(t, now)
  <2>1. CASE tokens + more <= Capacity
    <3>1. PICK t \in 0..lastRefill : admitted[t] + tokens = Allowance(t, lastRefill)
      BY DEF Inv, Account
    <3>2. Refilled = tokens + more
      BY <1>1, <1>2, <1>3, <2>1
    <3> QED
      BY <1>1, <1>2, <1>5, <3>1, <3>2
  <2>2. CASE tokens + more > Capacity
    <3>1. lastRefill < now
      <4>1. SUFFICES ASSUME lastRefill = now PROVE FALSE
        BY <1>1
      <4>2. now - lastRefill = 0
        BY <1>1, <4>1
      <4>3. more = 0
        BY <4>2, BucketAssumption DEF more
      <4> QED
        BY <1>1, <2>2, <4>3
    <3>2. admitted[now] = 0
      BY <1>1, <3>1 DEF Inv, Account
    <3>3. Allowance(now, now) = Capacity
      <4>1. now - now = 0
        BY <1>1
      <4> QED
        BY <1>1, <4>1, BucketAssumption DEF Allowance
    <3>4. Refilled = Capacity
      BY <1>3, <2>2
    <3> QED
      BY <1>1, <3>2, <3>3, <3>4
  <2> QED
    BY <1>1, <1>2, <2>1, <2>2
<1> QED
  BY <1>4, <1>7, <1>8

\* Account is inductive.
LEMMA AccountStep == Inv /\ [Next]_vars => Inv'
<1> SUFFICES ASSUME Inv, [Next]_vars PROVE Inv'
  OBVIOUS
<1>1. /\ tokens \in 0..Capacity /\ Capacity \in Nat /\ lastRefill \in Nat /\ now \in Nat
      /\ lastRefill <= now /\ now \in Times /\ MaxTime \in Nat
      /\ admitted \in [Times -> Nat]
  BY BucketAssumption DEF Inv, TypeOK, Times
<1>2. /\ Refilled \in 0..Capacity
      /\ \A t \in 0..now : admitted[t] + Refilled <= Allowance(t, now)
      /\ \E t \in 0..now : admitted[t] + Refilled = Allowance(t, now)
  BY RefillKeepsAccount
<1>3. \A t \in Times : t > now => admitted[t] = 0
  BY <1>1 DEF Inv, Account, Times
<1>4. ASSUME NEW t \in 0..now PROVE t \in Times /\ Allowance(t, now) \in Int
  <2>1. t \in Int /\ t <= now /\ t \in Times /\ now \in Int
    BY <1>1 DEF Times
  <2>2. (now - t) * Rate \in Nat
    BY <2>1, AccrualType
  <2> QED
    BY <1>1, <2>1, <2>2 DEF Allowance
<1>5. CASE Later
  <2>1. now' = now + 1 /\ now < MaxTime /\ UNCHANGED <<tokens, lastRefill, admitted>>
    BY <1>5 DEF Later
  <2>2. TypeOK'
    BY <1>1, <2>1 DEF Inv, TypeOK, Times
  <2>3. Account'
    BY <2>1 DEF Inv, Account, Allowance
  <2> QED
    BY <2>2, <2>3 DEF Inv
<1>6. ASSUME NEW n \in Costs, Allow(n)
      PROVE  Inv'
  <2>1. /\ Refilled >= n /\ tokens' = Refilled - n /\ lastRefill' = now /\ now' = now
        /\ admitted' = [t \in Times |-> IF t <= now THEN admitted[t] + n ELSE admitted[t]]
    BY <1>6 DEF Allow
  <2>2. n \in Nat
    BY BucketAssumption
  <2>3. TypeOK'
    BY <1>1, <1>2, <2>1, <2>2 DEF TypeOK
  <2>4. ASSUME NEW t \in 0..now
        PROVE  /\ admitted'[t] + tokens' = admitted[t] + Refilled
               /\ Allowance(t, lastRefill)' = Allowance(t, now)
    <3>1. admitted'[t] = admitted[t] + n /\ admitted[t] \in Nat
      BY <1>1, <1>4, <2>1
    <3> QED
      BY <1>2, <2>1, <2>2, <3>1 DEF Allowance
  <2>5. \A t \in Times : t > now => admitted'[t] = 0
    BY <1>1, <1>3, <2>1 DEF Times
  <2>6. Account'
    BY <1>2, <2>1, <2>4, <2>5 DEF Account
  <2> QED
    BY <2>3, <2>6 DEF Inv
<1>7. ASSUME NEW n \in Costs, Refuse(n)
      PROVE  Inv'
  <2>1. tokens' = Refilled /\ lastRefill' = now /\ now' = now /\ admitted' = admitted
    BY <1>7 DEF Refuse
  <2>2. TypeOK'
    BY <1>1, <1>2, <2>1 DEF TypeOK
  <2>3. Account'
    BY <1>2, <1>3, <2>1 DEF Account, Allowance
  <2> QED
    BY <2>2, <2>3 DEF Inv
<1>8. CASE UNCHANGED vars
  BY <1>8 DEF Inv, TypeOK, Account, Allowance, vars
<1> QED
  BY <1>5, <1>6, <1>7, <1>8 DEF Next, AllowN

\* The bucket's account holds always (AllowN, refillLocked).
THEOREM AccountAlways == Spec => []Inv
<1>1. Init => Inv
  <2> SUFFICES ASSUME Init PROVE Inv
    OBVIOUS
  <2>1. TypeOK
    BY BucketAssumption DEF Init, TypeOK, Times
  <2>2. Allowance(0, 0) = Capacity
    BY BucketAssumption DEF Allowance
  <2>3. Account
    BY <2>2, BucketAssumption DEF Init, Account, Times
  <2> QED
    BY <2>1, <2>3 DEF Inv
<1> QED
  BY <1>1, AccountStep, PTL DEF Spec

\* From any moment on, no more is admitted than one burst and the steady rate allow, for
\* every capacity and rate (the promise of AllowN).
THEOREM RateIsBounded == Spec => []RateBounded
<1>1. Inv => RateBounded
  <2> SUFFICES ASSUME Inv, NEW t \in 0..now PROVE admitted[t] <= Allowance(t, now)
    BY DEF RateBounded
  <2>1. Refilled \in 0..Capacity /\ admitted[t] + Refilled <= Allowance(t, now)
    BY RefillKeepsAccount
  <2>2. now \in Nat /\ now <= MaxTime /\ t \in Int /\ t <= now /\ Capacity \in Nat
        /\ admitted[t] \in Nat
    BY BucketAssumption DEF Inv, TypeOK, Times
  <2>3. Allowance(t, now) \in Int
    <3>1. (now - t) * Rate \in Nat
      <4>1. now \in Int
        BY <2>2
      <4> QED
        BY <2>2, <4>1, AccrualType
    <3> QED
      BY <2>2, <3>1 DEF Allowance
  <2> QED
    BY <2>1, <2>2, <2>3
<1> QED
  BY <1>1, AccountAlways, PTL

\* A call is refused only when some window is used up: a client that keeps to the rate is
\* never refused, for every capacity and rate.
THEOREM RefusalIsDue == Spec => []RefusedOnlyOverRate
<1>1. Inv => RefusedOnlyOverRate
  <2> SUFFICES ASSUME Inv, NEW n \in Costs, Refilled < n
               PROVE  \E t \in 0..now : admitted[t] + n > Allowance(t, now)
    BY DEF RefusedOnlyOverRate
  <2>1. PICK t \in 0..now : admitted[t] + Refilled = Allowance(t, now)
    BY RefillKeepsAccount
  <2>2. Refilled \in Int /\ n \in Nat
    BY RefillKeepsAccount, BucketAssumption
  <2>3. admitted[t] \in Nat
    BY BucketAssumption DEF Inv, TypeOK, Times
  <2>4. admitted[t] + n > admitted[t] + Refilled
    BY <2>2, <2>3
  <2> QED
    BY <2>1, <2>4
<1> QED
  BY <1>1, AccountAlways, PTL

=============================================================================
