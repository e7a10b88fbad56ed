-------------------------- MODULE RetryTimerProofs --------------------------
(***************************************************************************)
(* Retries in time, for every number of deliveries, every base of the      *)
(* digits of a timestamp, every backoff and every clock: gates that are    *)
(* compared as text let a retry run less than a second early, and the loop *)
(* never sleeps a second past one.                                         *)
(***************************************************************************)
EXTENDS RetryTimer, WellFoundedInduction, TLAPS

\* Clock, rows and loop have their types.
RetryTypeOK ==
  /\ now \in Nat
  /\ state \in [Deliveries -> {"none", "pending", "claimed", "failed", "done", "dead"}]
  /\ attempt \in [Deliveries -> Nat]
  /\ gate \in [Deliveries -> Nat]
  /\ failedAt \in [Deliveries -> Nat]
  /\ at \in Nat /\ timer \in Nat

\* A claimed row has begun an attempt, and the end of its last one is cleared.
ClaimsBegun ==
  \A i \in Deliveries : state[i] = "claimed" => attempt[i] > 0 /\ failedAt[i] = 0

\* The timer of a loop that could read the gates fires less than a second after
\* each of them.
TimerIsNear ==
  pc = "asleep" /\ timer > 0 /\ ~blind =>
    \A i \in Failed : now + timer < gate[i] + Second

RetryInv == RetryTypeOK /\ ClaimsBegun /\ TimerIsNear /\ GatesFollowSchedule
-----------------------------------------------------------------------------
(* Timestamps as text. *)

\* Products keep the order of their factors.
LEMMA TimesKeepsOrder ==
  ASSUME NEW a \in Int, NEW b \in Int, NEW k \in Nat, a <= b
  PROVE  a * k <= b * k
OBVIOUS

\* Division with remainder.
LEMMA Quotient ==
  ASSUME NEW t \in Nat, NEW s \in Nat \ {0}
  PROVE  /\ t \div s \in Nat /\ t % s \in 0..(s - 1)
         /\ s * (t \div s) <= t
         /\ t < s * (t \div s) + s
<1>1. t \div s \in Nat
  OBVIOUS
<1>2. t % s \in 0..(s - 1)
  OBVIOUS
<1>3. s * (t \div s) <= t
  OBVIOUS
<1>4. t < s * (t \div s) + s
  OBVIOUS
<1> QED
  BY <1>1, <1>2, <1>3, <1>4

\* The digits of a fraction.
LEMMA Digits ==
  ASSUME NEW b \in Nat \ {0, 1}, NEW f \in 0..(b * b - 1)
  PROVE  f \div b \in 0..(b - 1) /\ f % b \in 0..(b - 1)
OBVIOUS

\* What two digits, or what stands for a dropped one, contribute to the key.
LEMMA KeyOfDigits ==
  ASSUME NEW b \in Nat \ {0, 1}, NEW x \in 0..b, NEW y \in 0..b
  PROVE  x * (b + 1) + y \in 0..((b + 1) * (b + 1) - 1)
OBVIOUS

\* The key of a timestamp lies in the range of its second.
LEMMA KeyWithinSecond ==
  ASSUME NEW t \in Nat
  PROVE  LET q == t \div Second
             w == (Base + 1) * (Base + 1)
         IN  \E low \in 0..(w - 1) : TextKey(t) = q * (Base + 1) * (Base + 1) + low
<1> DEFINE f  == t % Second
           d1 == f \div Base
           d2 == f % Base
<1>1. Base \in Nat \ {0, 1} /\ Second \in Nat \ {0}
  BY RetryTimerAssumption DEF Second
<1>2. f \in 0..(Base * Base - 1)
  BY <1>1, Quotient DEF Second
<1>3. d1 \in 0..(Base - 1) /\ d2 \in 0..(Base - 1)
  BY <1>1, <1>2, Digits
<1> HIDE DEF f, d1, d2
<1>4. d1 \in 0..Base /\ d2 \in 0..Base /\ Base \in 0..Base
  BY <1>1, <1>3
<1> DEFINE w   == (Base + 1) * (Base + 1)
           low == CASE f = 0           -> Base * (Base + 1) + Base
                    [] f # 0 /\ d2 = 0 -> d1 * (Base + 1) + Base
                    [] OTHER           -> d1 * (Base + 1) + d2
<1>5. /\ Base * (Base + 1) + Base \in 0..(w - 1)
      /\ d1 * (Base + 1) + Base \in 0..(w - 1)
      /\ d1 * (Base + 1) + d2 \in 0..(w - 1)
  BY <1>1, <1>4, KeyOfDigits
<1>6. low \in 0..(w - 1)
  BY <1>5
<1>7. TextKey(t) = (t \div Second) * (Base + 1) * (Base + 1) + low
  BY DEF TextKey, f, d1, d2
<1> QED
  BY <1>6, <1>7

\* A key is a natural number.
LEMMA KeyTyped == \A t \in Nat : TextKey(t) \in Nat
<1> SUFFICES ASSUME NEW t \in Nat PROVE TextKey(t) \in Nat
  OBVIOUS
<1>1. Base \in Nat \ {0, 1} /\ Second \in Nat \ {0}
  BY RetryTimerAssumption DEF Second
<1>2. t \div Second \in Nat
  BY <1>1, Quotient
<1>3. PICK low \in 0..((Base + 1) * (Base + 1) - 1) :
        TextKey(t) = (t \div Second) * (Base + 1) * (Base + 1) + low
  BY KeyWithinSecond
<1> QED
  BY <1>1, <1>2, <1>3

\* The arithmetic of the next lemma: keys in the order of their seconds.
LEMMA SecondsInOrder ==
  ASSUME NEW p \in Nat, NEW q \in Nat, NEW w \in Nat \ {0},
         NEW x \in 0..(w - 1), NEW y \in 0..(w - 1), p * w + x <= q * w + y
  PROVE  p <= q
<1> SUFFICES ASSUME q + 1 <= p
             PROVE  FALSE
  OBVIOUS
<1>1. (q + 1) * w <= p * w
  BY TimesKeepsOrder
<1>2. (q + 1) * w = q * w + w
  OBVIOUS
<1>3. p * w \in Nat /\ q * w \in Nat
  OBVIOUS
<1> QED
  BY <1>1, <1>2, <1>3

\* The order of the text is the order of time but for less than a second.
LEMMA TextOrder ==
  ASSUME NEW g \in Nat, NEW a \in Nat, TextKey(g) <= TextKey(a)
  PROVE  g < a + Second
<1> DEFINE p == g \div Second
           q == a \div Second
           b == Base + 1
           w == b * b
<1>1. Base \in Nat \ {0, 1} /\ Second \in Nat \ {0}
  BY RetryTimerAssumption DEF Second
<1>2. p \in Nat /\ q \in Nat /\ g < Second * p + Second /\ Second * q <= a
  BY <1>1, Quotient
<1>3. PICK x \in 0..(w - 1) : TextKey(g) = p * b * b + x
  BY KeyWithinSecond
<1>4. PICK y \in 0..(w - 1) : TextKey(a) = q * b * b + y
  BY KeyWithinSecond
<1>5. w \in Nat \ {0} /\ p * b * b = p * w /\ q * b * b = q * w
  BY <1>1, <1>2
<1> HIDE DEF p, q, w, b
<1>6. p <= q
  BY <1>2, <1>3, <1>4, <1>5, SecondsInOrder
<1>7. p * Second <= q * Second
  BY <1>1, <1>2, <1>6, TimesKeepsOrder
<1>8. p * Second = Second * p /\ q * Second = Second * q
  BY <1>1, <1>2
<1>9. Second * p \in Nat /\ Second * q \in Nat
  BY <1>1, <1>2
<1> QED
  BY <1>1, <1>2, <1>7, <1>8, <1>9

\* A set of natural numbers that is not empty has a least element.
LEMMA LeastNatural ==
  ASSUME NEW T, T \subseteq Nat, T # {}
  PROVE  \E x \in T : \A y \in T : x <= y
<1> DEFINE R == {ss \in Nat \X Nat : ss[1] < ss[2]}
<1>1. IsWellFoundedOn(R, Nat)
  BY NatLessThanWellFounded, Zenon DEF OpToRel
<1> HIDE DEF R
<1>2. PICK x \in T : \A y \in T : ~ (<<y, x>> \in R)
  BY <1>1, WFMin, Zenon
<1>3. \A y \in T : <<y, x>> \in R <=> y < x
  BY DEF R
<1>4. \A y \in T : ~ (y < x) => x <= y
  OBVIOUS
<1> QED
  BY <1>2, <1>3, <1>4

\* MIN(not_before), parsed, is less than a second after every gate.
LEMMA EarliestIsNear ==
  ASSUME RetryTypeOK, Failed # {}
  PROVE  NextRetryAt \in Nat /\ \A i \in Failed : NextRetryAt < gate[i] + Second
<1> DEFINE T == {TextKey(gate[i]) : i \in Failed}
<1>1. \A i \in Failed : i \in Deliveries /\ gate[i] \in Nat
  BY DEF Failed, RetryTypeOK
<1>2. T \subseteq Nat /\ T # {}
  BY <1>1, KeyTyped
<1>3. PICK k \in T : \A l \in T : k <= l
  BY <1>2, LeastNatural
<1>4. \E i \in Failed : \A j \in Failed : TextKey(gate[i]) <= TextKey(gate[j])
  BY <1>3
<1> DEFINE c == CHOOSE i \in Failed : \A j \in Failed : TextKey(gate[i]) <= TextKey(gate[j])
<1>5. c \in Failed /\ \A j \in Failed : TextKey(gate[c]) <= TextKey(gate[j])
  BY <1>4
<1>6. NextRetryAt = gate[c]
  BY DEF NextRetryAt
<1> HIDE DEF c
<1> QED
  BY <1>1, <1>5, <1>6, TextOrder

-----------------------------------------------------------------------------
(* backoff. *)

\* The delay is the exponential one, overflow or not.
LEMMA DelayIsExponential ==
  ASSUME NEW n \in 1..MaxAttempts
  PROVE  Delay(n) = Exponential(n) /\ Delay(n) \in Nat
<1> DEFINE e == BackoffBase * 2^(n - 1)
           h == 2^(Width - 1)
           d == Signed(e)
<1>0. /\ Width \in Nat \ {0} /\ MaxAttempts \in Nat \ {0}
      /\ BackoffBase \in Nat \ {0} /\ BackoffCap \in Nat \ {0}
  BY RetryTimerAssumption
<1>1. n - 1 \in 0..(Width + MaxAttempts) /\ Width - 1 \in 0..(Width + MaxAttempts)
      /\ Width \in 0..(Width + MaxAttempts)
  BY <1>0
<1>2. 2^(n - 1) \in Nat \ {0} /\ h \in Nat \ {0} /\ 2^Width = 2 * h
  BY <1>1, ShiftAssumption
<1>3. e \in Nat \ {0}
  BY <1>0, <1>2
<1>4. e >= h => d \notin 1..BackoffCap
  BY ShiftAssumption
<1>5. Delay(n) = IF d > BackoffCap \/ d <= 0 THEN BackoffCap ELSE d
  BY DEF Delay
<1>6. Exponential(n) = IF e < BackoffCap THEN e ELSE BackoffCap
  BY DEF Exponential
<1>7. d = LET m == e % (2 * h) IN IF m >= h THEN m - 2 * h ELSE m
  BY <1>2 DEF Signed
<1> HIDE DEF e, h, d
<1>8. d \in Int
  BY <1>2, <1>3, <1>7
<1>9. CASE e < h
  <2>1. e % (2 * h) = e
    BY <1>2, <1>3, <1>9
  <2>2. d = e
    BY <1>2, <1>3, <1>7, <1>9, <2>1
  <2> QED
    BY <1>0, <1>3, <1>5, <1>6, <2>2
<1>10. CASE e >= h
  <2>1. Delay(n) = BackoffCap
    BY <1>0, <1>4, <1>5, <1>8, <1>10
  <2>2. Exponential(n) = BackoffCap
    <3>1. BackoffCap < h
      BY ShiftAssumption DEF h
    <3> QED
      BY <1>0, <1>2, <1>3, <1>6, <1>10, <3>1
  <2> QED
    BY <1>0, <2>1, <2>2
<1> QED
  BY <1>2, <1>3, <1>9, <1>10

-----------------------------------------------------------------------------
(* Steps. *)

\* A step that leaves the rows alone, and the timer too if it is armed.
LEMMA SameRowsKeep ==
  ASSUME RetryInv, UNCHANGED rowVars, now' \in Nat, at' \in Nat, timer' \in Nat,
         TimerIsNear'
  PROVE  RetryInv'
<1>1. RetryTypeOK'
  BY DEF RetryInv, RetryTypeOK, rowVars
<1>2. ClaimsBegun'
  BY DEF RetryInv, ClaimsBegun, rowVars
<1>3. GatesFollowSchedule'
  BY DEF RetryInv, GatesFollowSchedule, Failed, rowVars
<1> QED
  BY <1>1, <1>2, <1>3 DEF RetryInv

\* The clock and the loop.
LEMMA LoopKeepsInv ==
  ASSUME RetryInv,
         \/ Tick \/ Dispatch \/ Wake
         \/ \E t \in Times : SetBack(t)
         \/ \E fails \in BOOLEAN : ArmTimer(fails)
  PROVE  RetryInv'
<1>t. /\ RetryTypeOK /\ now \in Nat /\ timer \in Nat /\ at \in Nat /\ Second \in Nat
      /\ \A i \in Failed : gate[i] \in Nat
  BY RetryTimerAssumption DEF RetryInv, RetryTypeOK, Failed, Second
<1>1. CASE Tick
  <2>1. /\ now' = now + 1 /\ timer' = IF timer = 0 THEN 0 ELSE timer - 1
        /\ UNCHANGED <<rowVars, pc, at, blind>>
    BY <1>1 DEF Tick
  <2>2. Failed' = Failed /\ gate' = gate
    BY <2>1 DEF Failed, rowVars
  <2>3. TimerIsNear'
    <3> SUFFICES ASSUME pc = "asleep", timer' > 0, ~blind, NEW i \in Failed
                 PROVE  (now + 1) + timer' < gate[i] + Second
      BY <2>1, <2>2 DEF TimerIsNear, Second
    <3>1. timer > 0 /\ timer' = timer - 1
      BY <1>t, <2>1
    <3>2. now + timer < gate[i] + Second
      BY <3>1 DEF RetryInv, TimerIsNear
    <3> QED
      BY <1>t, <3>1, <3>2
  <2> QED
    BY <1>t, <2>1, <2>3, SameRowsKeep
<1>2. CASE Dispatch \/ Wake
  <2>1. pc' # "asleep" /\ UNCHANGED rowVars /\ now' = now /\ at' \in Nat /\ timer' \in Nat
    BY <1>t, <1>2 DEF Dispatch, Wake
  <2>2. TimerIsNear'
    BY <2>1 DEF TimerIsNear
  <2> QED
    BY <1>t, <2>1, <2>2, SameRowsKeep
<1>3. ASSUME NEW t \in Times, SetBack(t)
      PROVE  RetryInv'
  <2>1. t < now /\ now' = t /\ UNCHANGED <<rowVars, pc, at, timer, blind>> /\ t \in Nat
    BY <1>3, RetryTimerAssumption DEF SetBack, loopVars, Times
  <2>2. Failed' = Failed /\ gate' = gate
    BY <2>1 DEF Failed, rowVars
  <2>3. TimerIsNear'
    <3> SUFFICES ASSUME pc = "asleep", timer > 0, ~blind, NEW i \in Failed
                 PROVE  t + timer < gate[i] + Second
      BY <2>1, <2>2 DEF TimerIsNear, Second
    <3>1. now + timer < gate[i] + Second
      BY DEF RetryInv, TimerIsNear
    <3> QED
      BY <1>t, <2>1, <3>1
  <2> QED
    BY <1>t, <2>1, <2>3, SameRowsKeep
<1>4. ASSUME NEW fails \in BOOLEAN, ArmTimer(fails)
      PROVE  RetryInv'
  <2>1. /\ at' = 0 /\ blind' = fails /\ UNCHANGED <<rowVars, now>>
        /\ timer' = IF fails \/ Failed = {} THEN IdleInterval
                    ELSE IF NextRetryAt > now THEN NextRetryAt - now ELSE 0
    BY <1>4 DEF ArmTimer
  <2>2. Failed' = Failed /\ gate' = gate
    BY <2>1 DEF Failed, rowVars
  <2>3. Failed # {} => NextRetryAt \in Nat /\ \A i \in Failed : NextRetryAt < gate[i] + Second
    BY <1>t, EarliestIsNear
  <2>4. timer' \in Nat
    BY <1>t, <2>1, <2>3, RetryTimerAssumption
  <2>5. TimerIsNear'
    <3> SUFFICES ASSUME timer' > 0, ~fails, NEW i \in Failed
                 PROVE  now + timer' < gate[i] + Second
      BY <2>1, <2>2 DEF TimerIsNear, Second
    <3>1. timer' = NextRetryAt - now
      BY <2>1
    <3>2. NextRetryAt \in Nat /\ NextRetryAt < gate[i] + Second
      BY <2>3
    <3> QED
      BY <1>t, <3>1, <3>2
  <2> QED
    BY <1>t, <2>1, <2>4, <2>5, SameRowsKeep
<1> QED
  BY <1>1, <1>2, <1>3, <1>4

\* A row is inserted or claimed.
LEMMA ClaimKeepsInv ==
  ASSUME RetryInv, NEW i \in Deliveries, Insert(i) \/ Claim(i)
  PROVE  RetryInv'
<1>t. RetryTypeOK /\ ClaimsBegun /\ GatesFollowSchedule
  BY DEF RetryInv
<1>1. CASE Insert(i)
  <2>1. /\ state' = [state EXCEPT ![i] = "pending"]
        /\ UNCHANGED <<now, attempt, gate, failedAt, pc, at, timer, blind>>
    BY <1>1 DEF Insert
  <2>2. RetryTypeOK'
    BY <1>t, <2>1 DEF RetryTypeOK
  <2>3. \A j \in Deliveries : state'[j] \in {"claimed", "failed"} => state'[j] = state[j]
    BY <1>t, <2>1 DEF RetryTypeOK
  <2>4. Failed' \subseteq Failed
    BY <2>3 DEF Failed
  <2>5. ClaimsBegun'
    BY <1>t, <2>1, <2>3 DEF ClaimsBegun
  <2>6. TimerIsNear' /\ GatesFollowSchedule'
    BY <1>t, <2>1, <2>4 DEF RetryInv, TimerIsNear, GatesFollowSchedule
  <2> QED
    BY <2>2, <2>5, <2>6 DEF RetryInv
<1>2. CASE Claim(i)
  <2>1. /\ pc = "dispatch"
        /\ state' = [state EXCEPT ![i] = "claimed"]
        /\ attempt' = [attempt EXCEPT ![i] = @ + 1]
        /\ gate' = [gate EXCEPT ![i] = 0]
        /\ failedAt' = [failedAt EXCEPT ![i] = 0]
        /\ UNCHANGED <<now, pc, at, timer, blind>>
    BY <1>2 DEF Claim, loopVars
  <2>2. RetryTypeOK'
    BY <1>t, <2>1 DEF RetryTypeOK
  <2>3. \A j \in Deliveries : j # i => /\ state'[j] = state[j] /\ attempt'[j] = attempt[j]
                                       /\ gate'[j] = gate[j] /\ failedAt'[j] = failedAt[j]
    BY <1>t, <2>1 DEF RetryTypeOK
  <2>4. /\ state'[i] = "claimed" /\ failedAt'[i] = 0
        /\ attempt'[i] = attempt[i] + 1 /\ attempt[i] \in Nat
    BY <1>t, <2>1 DEF RetryTypeOK
  <2>5. ClaimsBegun'
    BY <1>t, <2>3, <2>4 DEF ClaimsBegun
  <2>6. TimerIsNear'
    BY <2>1 DEF TimerIsNear
  <2>7. GatesFollowSchedule'
    BY <1>t, <2>3, <2>4 DEF GatesFollowSchedule, Failed
  <2> QED
    BY <2>2, <2>5, <2>6, <2>7 DEF RetryInv
<1> QED
  BY <1>1, <1>2

\* A result is applied.
LEMMA ApplyKeepsInv ==
  ASSUME RetryInv, NEW i \in Deliveries, NEW outcome \in {"done", "failed", "dead"},
         Apply(i, outcome)
  PROVE  RetryInv'
<1>t. RetryTypeOK /\ ClaimsBegun /\ GatesFollowSchedule
  BY DEF RetryInv
<1>1. /\ state[i] = "claimed" /\ state' = [state EXCEPT ![i] = outcome]
      /\ pc' = "awake" /\ timer' = 0 /\ UNCHANGED <<now, attempt, at>>
  BY DEF Apply
<1>2. \A j \in Deliveries : state'[j] = IF j = i THEN outcome ELSE state[j]
  BY <1>t, <1>1 DEF RetryTypeOK
<1>3. TimerIsNear'
  BY <1>1 DEF TimerIsNear
<1>4. CASE UNCHANGED <<gate, failedAt>> /\ outcome # "failed"
  <2>1. RetryTypeOK'
    BY <1>t, <1>1, <1>4 DEF RetryTypeOK
  <2>2. ClaimsBegun'
    BY <1>t, <1>1, <1>2, <1>4 DEF ClaimsBegun
  <2>3. GatesFollowSchedule'
    BY <1>t, <1>1, <1>2, <1>4 DEF GatesFollowSchedule, Failed
  <2> QED
    BY <1>3, <2>1, <2>2, <2>3 DEF RetryInv
<1>5. CASE /\ outcome = "failed" /\ attempt[i] < MaxAttempts
           /\ failedAt' = [failedAt EXCEPT ![i] = now]
           /\ \E j \in Jittered(Delay(attempt[i])) : gate' = [gate EXCEPT ![i] = now + j]
  <2>1. PICK j \in Jittered(Delay(attempt[i])) : gate' = [gate EXCEPT ![i] = now + j]
    BY <1>5
  <2>2. attempt[i] \in 1..MaxAttempts /\ now \in Nat
    BY <1>t, <1>1, <1>5, RetryTimerAssumption DEF ClaimsBegun, RetryTypeOK
  <2>3. Delay(attempt[i]) \in Nat /\ Delay(attempt[i]) = Exponential(attempt[i])
    BY <2>2, DelayIsExponential
  <2>4. j \in Nat
    BY <2>1, <2>3 DEF Jittered
  <2>5. RetryTypeOK'
    BY <1>t, <1>1, <1>5, <2>1, <2>2, <2>4 DEF RetryTypeOK
  <2>6. ClaimsBegun'
    BY <1>t, <1>1, <1>2, <1>5 DEF ClaimsBegun, RetryTypeOK
  <2>7. \A k \in Deliveries : /\ gate'[k] = IF k = i THEN now + j ELSE gate[k]
                              /\ failedAt'[k] = IF k = i THEN now ELSE failedAt[k]
    BY <1>t, <1>5, <2>1 DEF RetryTypeOK
  <2>8. (now + j) - now = j
    BY <2>2, <2>4
  <2>9. GatesFollowSchedule'
    <3> SUFFICES ASSUME NEW k \in Deliveries, state'[k] = "failed", failedAt'[k] > 0
                 PROVE  gate'[k] - failedAt'[k] \in Jittered(Exponential(attempt[k]))
      BY <1>1 DEF GatesFollowSchedule, Failed, Jittered, Exponential
    <3>1. CASE k = i
      BY <2>1, <2>3, <2>7, <2>8, <3>1
    <3>2. CASE k # i
      BY <1>t, <1>2, <2>7, <3>2 DEF GatesFollowSchedule, Failed
    <3> QED
      BY <3>1, <3>2
  <2> QED
    BY <1>3, <2>5, <2>6, <2>9 DEF RetryInv
<1> QED
  BY <1>4, <1>5 DEF Apply

\* The daemon dies, and the next one resets what it had claimed.
LEMMA RestartKeepsInv ==
  ASSUME RetryInv, Restart
  PROVE  RetryInv'
<1>t. RetryTypeOK /\ ClaimsBegun /\ GatesFollowSchedule
  BY DEF RetryInv
<1>1. /\ state' = [i \in Deliveries |-> IF i \in Claimed THEN "failed" ELSE state[i]]
      /\ gate' = [i \in Deliveries |-> IF i \in Claimed THEN now ELSE gate[i]]
      /\ pc' = "awake" /\ at' = 0 /\ timer' = 0
      /\ UNCHANGED <<now, attempt, failedAt>>
  BY DEF Restart
<1>2. RetryTypeOK'
  BY <1>t, <1>1 DEF RetryTypeOK
<1>3. ClaimsBegun'
  BY <1>1 DEF ClaimsBegun, Claimed
<1>4. TimerIsNear'
  BY <1>1 DEF TimerIsNear
<1>5. GatesFollowSchedule'
  <2> SUFFICES ASSUME NEW k \in Deliveries, state'[k] = "failed", failedAt[k] > 0
               PROVE  gate'[k] - failedAt[k] \in Jittered(Exponential(attempt[k]))
    BY <1>1 DEF GatesFollowSchedule, Failed, Jittered, Exponential
  <2>1. k \notin Claimed
    BY <1>t DEF ClaimsBegun, Claimed
  <2> QED
    BY <1>t, <1>1, <2>1 DEF GatesFollowSchedule, Failed
<1> QED
  BY <1>2, <1>3, <1>4, <1>5 DEF RetryInv

\* The invariant of the retries is inductive.
THEOREM RetryInvHolds == Spec => []RetryInv
<1>1. Init => RetryInv
  <2> SUFFICES ASSUME Init
               PROVE  RetryInv
    OBVIOUS
  <2>1. RetryTypeOK
    BY DEF Init, RetryTypeOK
  <2>2. ClaimsBegun /\ TimerIsNear /\ GatesFollowSchedule
    BY DEF Init, ClaimsBegun, TimerIsNear, GatesFollowSchedule, Failed
  <2> QED
    BY <2>1, <2>2 DEF RetryInv
<1>2. RetryInv /\ UNCHANGED vars => RetryInv'
  BY DEF vars, rowVars, loopVars, RetryInv, RetryTypeOK, ClaimsBegun, TimerIsNear,
     GatesFollowSchedule, Failed
<1>3. RetryInv /\ [Next]_vars => RetryInv'
  BY <1>2, LoopKeepsInv, ClaimKeepsInv, ApplyKeepsInv, RestartKeepsInv DEF Next
<1> QED
  BY <1>1, <1>3, PTL DEF Spec

\* The loop never sleeps on while a retry has been due for a second, although
\* MIN(not_before) compares text, unless it could not read the gates.
THEOREM LoopDoesNotOversleep == Spec => []NoOversleep
<1>1. RetryInv => NoOversleep
  <2> SUFFICES ASSUME RetryInv, pc = "asleep", timer > 0, ~blind, NEW i \in Failed
               PROVE  now - gate[i] < Second
    BY DEF NoOversleep
  <2>1. now + timer < gate[i] + Second
    BY DEF RetryInv, TimerIsNear
  <2>2. now \in Nat /\ timer \in Nat /\ gate[i] \in Nat /\ Second \in Nat
    BY RetryTimerAssumption DEF RetryInv, RetryTypeOK, Failed, Second
  <2> QED
    BY <2>1, <2>2
<1> QED
  BY <1>1, RetryInvHolds, PTL

\* Every gate lies where the exponential backoff puts it, within its jitter,
\* although the shift may overflow.
THEOREM GatesAreScheduled == Spec => []GatesFollowSchedule
<1>1. RetryInv => GatesFollowSchedule
  BY DEF RetryInv
<1> QED
  BY <1>1, RetryInvHolds, PTL

\* A retry runs less than a second before its gate, although NextEligible
\* compares text.
THEOREM RetriesAreBarelyEarly == Spec => EarlyByLessThanASecond
<1>1. RetryInv /\ [Next]_vars =>
        [\A i \in Deliveries :
           state[i] = "failed" /\ state'[i] = "claimed" => gate[i] < at + Second]_vars
  <2> SUFFICES ASSUME RetryInv, [Next]_vars, NEW i \in Deliveries,
                      state[i] = "failed", state'[i] = "claimed"
               PROVE  gate[i] < at + Second
    OBVIOUS
  <2>1. state \in [Deliveries -> {"none", "pending", "claimed", "failed", "done", "dead"}]
        /\ gate[i] \in Nat /\ at \in Nat
    BY DEF RetryInv, RetryTypeOK
  <2>2. ASSUME NEW j \in Deliveries, Claim(j)
        PROVE  gate[i] < at + Second
    <3>1. i = j
      BY <2>1, <2>2 DEF Claim
    <3>2. TextKey(gate[i]) <= TextKey(at)
      BY <2>2, <3>1 DEF Claim, Eligible
    <3> QED
      BY <2>1, <3>2, TextOrder
  <2>3. ASSUME NEW j \in Deliveries,
               Insert(j) \/ \E outcome \in {"done", "failed", "dead"} : Apply(j, outcome)
        PROVE  FALSE
    BY <2>1, <2>3 DEF Insert, Apply
  <2>4. ASSUME Restart
        PROVE  FALSE
    BY <2>1, <2>4 DEF Restart, Claimed
  <2> QED
    BY <2>2, <2>3, <2>4 DEF Next, Tick, Dispatch, Wake, SetBack, ArmTimer, rowVars, vars
<1> QED
  BY <1>1, RetryInvHolds, PTL DEF Spec, EarlyByLessThanASecond

=============================================================================
