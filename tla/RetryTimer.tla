----------------------------- MODULE RetryTimer -----------------------------
(***************************************************************************)
(* The time of retries: the backoff of a failed delivery, its gate, which  *)
(* is stored and compared as text, and the one timer of the scheduler's    *)
(* loop.                                                                   *)
(*                                                                         *)
(*   now      the wall clock; it may be set back.  A tick is the last      *)
(*            digit of a timestamp.                                        *)
(*   state, attempt, gate                                                  *)
(*            the deliveries of one action, in the order of their ids; the *)
(*            gate is not_before, zero where there is none.                *)
(*   pc       the loop: "awake", in "dispatch", "asleep" in its select;    *)
(*            at: the instant dispatch works with, while it does.          *)
(*   timer    ticks until the timer fires, zero outside select; nudged:    *)
(*            the slot of the nudge channel.                               *)
(*   blind    armTimer could not read the earliest gate.                   *)
(*   failedAt history, read by a property only: when the execution failed  *)
(*            that set the gate; zero once the delivery is claimed again.  *)
(***************************************************************************)
EXTENDS Integers, FiniteSets

CONSTANTS
  NumDeliveries,
  Base,              \* values of a digit of a timestamp, which has two after
                     \* the point
  Width,             \* bits of a time.Duration
  BackoffBase, BackoffCap,
  MaxAttempts,
  Concurrency,
  IdleInterval,      \* idleTimerInterval
  MaxTime,           \* bound on the clock
  MaxUpsets          \* bound on restarts, failed reads and settings of the
                     \* clock, together

ASSUME RetryTimerAssumption ==
  /\ NumDeliveries \in Nat /\ Base \in Nat \ {0, 1} /\ Width \in Nat \ {0}
  /\ BackoffBase \in Nat \ {0} /\ BackoffCap \in Nat \ {0}
  /\ MaxAttempts \in Nat \ {0} /\ Concurrency \in Nat \ {0}
  /\ IdleInterval \in Nat \ {0}
  /\ MaxTime \in Nat \ {0} /\ MaxUpsets \in Nat

VARIABLES now, state, attempt, gate, failedAt, pc, at, timer, nudged, blind, upsets

rowVars  == <<state, attempt, gate, failedAt>>
loopVars == <<pc, at, timer, nudged, blind>>
vars     == <<now, rowVars, loopVars, upsets>>

Deliveries == 1..NumDeliveries
Times      == 1..MaxTime

Init ==
  /\ now = 1
  /\ state = [i \in Deliveries |-> "none"]
  /\ attempt = [i \in Deliveries |-> 0]
  /\ gate = [i \in Deliveries |-> 0]
  /\ failedAt = [i \in Deliveries |-> 0]
  /\ pc = "awake" /\ at = 0 /\ timer = 0 /\ nudged = FALSE /\ blind = FALSE
  /\ upsets = 0

-----------------------------------------------------------------------------
(* Timestamps as text. *)

Second == Base * Base

\* RFC3339Nano drops trailing zeros of the fraction, and the point with the
\* last of them; the "Z" that follows is greater than every digit and than the
\* point.  The text sorts as if each dropped digit were Base.
TextKey(t) ==
  LET f  == t % Second
      d1 == f \div Base
      d2 == f % Base
  IN  (t \div Second) * (Base + 1) * (Base + 1)
        + CASE f = 0           -> Base * (Base + 1) + Base
            [] f # 0 /\ d2 = 0 -> d1 * (Base + 1) + Base
            [] OTHER           -> d1 * (Base + 1) + d2

Failed  == {i \in Deliveries : state[i] = "failed"}
Claimed == {i \in Deliveries : state[i] = "claimed"}

\* Mutated form: a failed delivery does not wait for its gate.
Eligible_AnyFailed(i) == state[i] \in {"pending", "failed"}

\* pending, or failed with not_before <= now, as text.
Eligible(i) ==
  \/ state[i] = "pending"
  \/ state[i] = "failed" /\ TextKey(gate[i]) <= TextKey(at)

\* Mutated form: the latest gate.
NextRetryAt_Latest ==
  gate[CHOOSE i \in Failed : \A j \in Failed : TextKey(gate[j]) <= TextKey(gate[i])]

\* MIN(not_before) over the failed rows is the minimum of the text; parsed.
NextRetryAt ==
  gate[CHOOSE i \in Failed : \A j \in Failed : TextKey(gate[i]) <= TextKey(gate[j])]

-----------------------------------------------------------------------------
(* backoff. *)

\* n as a signed integer of Width bits.
Signed(n) ==
  LET m == n % (2^Width)
  IN  IF m >= 2^(Width - 1) THEN m - 2^Width ELSE m

\* Base and cap are durations, and no shift that overflows wraps into
\* 1..BackoffCap, where the guard of backoff would not notice.  That is so for
\* the defaults, a second and a minute in 64 bits, and for every base of whole
\* seconds up to an hour with a cap of up to a day; a configuration need not
\* respect it.  (The first two lines are facts about powers of two.)
ASSUME ShiftAssumption ==
  /\ \A n \in 0..(Width + MaxAttempts) : 2^n \in Nat \ {0}
  /\ 2^Width = 2 * 2^(Width - 1)
  /\ BackoffBase < 2^(Width - 1) /\ BackoffCap < 2^(Width - 1)
  /\ \A n \in 1..MaxAttempts :
       BackoffBase * 2^(n - 1) >= 2^(Width - 1) =>
         Signed(BackoffBase * 2^(n - 1)) \notin 1..BackoffCap

\* Mutated form: no guard for a shift that overflowed.
Delay_NoGuard(n) ==
  LET d == Signed(BackoffBase * 2^(n - 1))
  IN  IF d > BackoffCap THEN BackoffCap ELSE d

\* The delay after attempt n, before its jitter.
Delay(n) ==
  LET d == Signed(BackoffBase * 2^(n - 1))
  IN  IF d > BackoffCap \/ d <= 0 THEN BackoffCap ELSE d

\* Plus or minus a fifth, truncated to a tick.
Jittered(d) ==
  IF d >= 0 THEN {j \in 0..(2 * d) : 4 * d < 5 * (j + 1) /\ 5 * j <= 6 * d}
            ELSE {j \in (2 * d)..0 : 4 * d > 5 * (j - 1) /\ 5 * j >= 6 * d}

-----------------------------------------------------------------------------
(* The clock, the daemon's life and its requests. *)

Tick ==
  /\ now < MaxTime
  /\ now' = now + 1
  /\ timer' = IF timer = 0 THEN 0 ELSE timer - 1
  /\ UNCHANGED <<rowVars, pc, at, nudged, blind, upsets>>

\* The clock is set back; a timer runs on, it is monotonic.
SetBack(t) ==
  /\ upsets < MaxUpsets
  /\ t < now
  /\ now' = t
  /\ upsets' = upsets + 1
  /\ UNCHANGED <<rowVars, loopVars>>

\* A daemon dies, and the next resets what it had claimed, claimable at once: no
\* failure set that gate.
Restart ==
  /\ upsets < MaxUpsets
  /\ upsets' = upsets + 1
  /\ state' = [i \in Deliveries |-> IF i \in Claimed THEN "failed" ELSE state[i]]
  /\ gate' = [i \in Deliveries |-> IF i \in Claimed THEN now ELSE gate[i]]
  /\ pc' = "awake" /\ at' = 0 /\ timer' = 0 /\ nudged' = FALSE /\ blind' = FALSE
  /\ UNCHANGED <<now, attempt, failedAt>>

\* A delivery is inserted, by a handler, and the loop is nudged.
Insert(i) ==
  /\ state[i] = "none"
  /\ \A j \in 1..(i - 1) : state[j] # "none"
  /\ state' = [state EXCEPT ![i] = "pending"]
  /\ nudged' = TRUE
  /\ UNCHANGED <<now, attempt, gate, failedAt, pc, at, timer, blind, upsets>>

-----------------------------------------------------------------------------
(* The loop. *)

Dispatch ==
  /\ pc = "awake"
  /\ pc' = "dispatch"
  /\ at' = now
  /\ UNCHANGED <<now, rowVars, timer, nudged, blind, upsets>>

HasSlot == Cardinality(Claimed) < Concurrency

\* NextEligible and ClaimDelivery.
Claim(i) ==
  /\ pc = "dispatch"
  /\ HasSlot
  /\ Eligible(i) /\ \A j \in 1..(i - 1) : ~Eligible(j)
  /\ state' = [state EXCEPT ![i] = "claimed"]
  /\ attempt' = [attempt EXCEPT ![i] = @ + 1]
  /\ gate' = [gate EXCEPT ![i] = 0]
  /\ failedAt' = [failedAt EXCEPT ![i] = 0]
  /\ UNCHANGED <<now, loopVars, upsets>>

\* Nothing is left to claim: the timer is pointed at the earliest gate, fires at
\* once if that has passed, in an hour if there is none or the query fails.
ArmTimer(fails) ==
  /\ pc = "dispatch"
  /\ HasSlot => \A i \in Deliveries : ~Eligible(i)
  /\ fails => upsets < MaxUpsets
  /\ upsets' = IF fails THEN upsets + 1 ELSE upsets
  /\ pc' = "asleep"
  /\ at' = 0
  /\ blind' = fails
  /\ timer' = IF fails \/ Failed = {} THEN IdleInterval
              ELSE IF NextRetryAt > now THEN NextRetryAt - now ELSE 0
  /\ UNCHANGED <<now, rowVars, nudged>>

\* The timer fires or a nudge is taken; Reset empties the timer's channel.
Wake ==
  /\ pc = "asleep"
  /\ \/ timer = 0 /\ UNCHANGED nudged
     \/ nudged /\ nudged' = FALSE
  /\ pc' = "awake"
  /\ timer' = 0
  /\ blind' = FALSE
  /\ UNCHANGED <<now, rowVars, at, upsets>>

\* A result is applied: done, dead, or failed with a gate.
Apply(i, outcome) ==
  /\ pc = "asleep"
  /\ state[i] = "claimed"
  /\ \/ /\ outcome = "done"
        /\ UNCHANGED <<gate, failedAt>>
     \/ /\ outcome = "dead" /\ attempt[i] >= MaxAttempts
        /\ UNCHANGED <<gate, failedAt>>
     \/ /\ outcome = "failed" /\ attempt[i] < MaxAttempts
        /\ failedAt' = [failedAt EXCEPT ![i] = now]
        /\ \E j \in Jittered(Delay(attempt[i])) :
             /\ now + j <= MaxTime
             /\ gate' = [gate EXCEPT ![i] = now + j]
  /\ state' = [state EXCEPT ![i] = outcome]
  /\ pc' = "awake"
  /\ nudged' = TRUE
  /\ timer' = 0
  /\ blind' = FALSE
  /\ UNCHANGED <<now, attempt, at, upsets>>

-----------------------------------------------------------------------------

Next ==
  \/ Tick \/ Restart \/ Dispatch \/ Wake
  \/ \E t \in Times : SetBack(t)
  \/ \E fails \in BOOLEAN : ArmTimer(fails)
  \/ \E i \in Deliveries :
       \/ Insert(i) \/ Claim(i)
       \/ \E outcome \in {"done", "failed", "dead"} : Apply(i, outcome)

Spec == Init /\ [][Next]_vars

-----------------------------------------------------------------------------
(* Properties. *)

\* How early the comparison of gates as text lets a retry run: by less than a
\* second, also when the clock is set back.
EarlyByLessThanASecond ==
  [][\A i \in Deliveries :
       state[i] = "failed" /\ state'[i] = "claimed" => gate[i] < at + Second]_vars

\* It also makes MIN(not_before) miss the earliest gate; still the loop never
\* sleeps on while a retry has been due for a second, unless its query failed.
\* (This needs a clock that is not set forward.)
NoOversleep ==
  pc = "asleep" /\ timer > 0 /\ ~blind =>
    \A i \in Failed : now - gate[i] < Second

\* What the delay is meant to be, on unbounded integers.
Exponential(n) ==
  IF BackoffBase * 2^(n - 1) < BackoffCap THEN BackoffBase * 2^(n - 1) ELSE BackoffCap

\* A gate lies min(base * 2^(n-1), cap), within a fifth, after the failure: an
\* overflow of the shift never moves it into the past or below the schedule.  A
\* delivery that a restart reset is due at once.
GatesFollowSchedule ==
  \A i \in Failed :
    failedAt[i] > 0 =>
      gate[i] - failedAt[i] \in Jittered(Exponential(attempt[i]))

-----------------------------------------------------------------------------
(* A statement of the code's comments that it does not keep. *)

\* NextEligible: the row it returns is pending, "or failed with its backoff gate
\* passed".
RetryWaitsForGate ==
  [][\A i \in Deliveries :
       state[i] = "failed" /\ state'[i] = "claimed" => gate[i] <= at]_vars

=============================================================================
