---------------------------- MODULE MCRetryPolicy ----------------------------
(***************************************************************************)
(* The retry schedule of one mail, from the policy to the text in the      *)
(* queue: RetryPolicy::backoff with a narrow integer type in which the     *)
(* products do overflow, and StoredTime with short years, so that the last *)
(* year of four digits and the end of DateTime are within reach.  A        *)
(* behaviour picks a policy and lets the mail fail, the way Dispatcher's   *)
(* RecordFailure uses the policy, until it has no retries left.            *)
(***************************************************************************)
EXTENDS RetryPolicy, StoredTime

CONSTANTS MaxTries,   \* bound: largest max_attempts
          Starts,     \* bound: times of the first failure
          Lateness    \* bound: how long after it was due a mail is tried

ASSUME BoundsAssumption ==
  MaxTries \in Nat /\ Starts \subseteq Int /\ Lateness \subseteq Nat

(* For TLC to confirm; no proof uses it. *)
ASSUME PowerIsPower == \A k \in 0..MaxTries : power2(k) = 2^k

VARIABLES policy, attempts, delays,
          clock,            \* the time of the next attempt
          next_attempt_at,  \* the column of the row
          promised,         \* ghost: the time that column stands for
          panicked          \* the delivery task died, the row stays claimed

vars == <<policy, attempts, delays, clock, next_attempt_at, promised, panicked>>

(* Config::validate asks for max_attempts >= 1 and nothing of the delays. *)
Policies == [max_attempts : 1..MaxTries, base_delay : 0..Max_u64,
             max_delay : 0..Max_u64]

(* Mail::from_new: due when it was accepted. *)
Init ==
  /\ policy \in Policies
  /\ attempts = 0
  /\ delays = <<>>
  /\ clock \in Starts
  /\ next_attempt_at = to_rfc3339(clock)
  /\ promised = clock
  /\ panicked = FALSE

(* One more failed attempt; a delay is only computed if a retry is left. *)
FailOnce ==
  LET delay == backoff(policy, attempts + 1)
      at    == retry_at(clock, delay)
  IN  /\ ~ panicked
      /\ ~ is_exhausted(policy, attempts + 1)
      /\ representable(at)
      /\ attempts' = attempts + 1
      /\ delays' = Append(delays, delay)
      /\ next_attempt_at' = to_rfc3339(at)
      /\ promised' = at
      /\ \E late \in Lateness : clock' = at + late
      /\ UNCHANGED <<policy, panicked>>

(* The time does not exist: the task panics and nothing is written. *)
FailPanics ==
  /\ ~ panicked
  /\ ~ is_exhausted(policy, attempts + 1)
  /\ ~ representable(retry_at(clock, backoff(policy, attempts + 1)))
  /\ panicked' = TRUE
  /\ UNCHANGED <<policy, attempts, delays, clock, next_attempt_at, promised>>

FailLast ==
  /\ ~ panicked
  /\ ~ is_exhausted(policy, attempts)
  /\ is_exhausted(policy, attempts + 1)
  /\ attempts' = attempts + 1
  /\ UNCHANGED <<policy, delays, clock, next_attempt_at, promised, panicked>>

Spec == Init /\ [][FailOnce \/ FailPanics \/ FailLast]_vars
-----------------------------------------------------------------------------
(* The n-th delay is base * 2^(n - 1), capped at max_delay, computed        *)
(* without any limit on the size of the numbers.  The comment of backoff    *)
(* promises it for every n; it needs a cap that the largest shift reaches.  *)
BackoffIsReference ==
  \A n \in DOMAIN delays :
    n <= MaxShift + 1 \/ policy.base_delay * power2(MaxShift) >= policy.max_delay =>
      delays[n] = Min({policy.base_delay * power2(n - 1), policy.max_delay})

(* A mail never waits less after a later failure, nor more than max_delay:  *)
(* neither the product nor the shift wraps around.                          *)
DelaysNeverShrink ==
  \A n \in DOMAIN delays : /\ delays[n] <= policy.max_delay
                           /\ n > 1 => delays[n - 1] <= delays[n]

Nearby(t) == (t - 2 * Second)..(t + 2 * Second)

FourDigits(t) == t >= 0 /\ t < (LastYear + 1) * Year

(* While years have four digits, fetch_due finds a row due exactly from the *)
(* time its retry was promised for, to the nanosecond and whatever number   *)
(* of fraction digits either text has, and the row decodes to that time.    *)
DueWhenPromised ==
  FourDigits(promised) =>
    /\ decodes(next_attempt_at) /\ parse_time(next_attempt_at) = promised
    /\ \A now \in Nearby(promised) :
         FourDigits(now) =>
           (text_le(next_attempt_at, to_rfc3339(now)) <=> promised <= now)

(* The lease as text: a claim is reclaimed exactly when it is older than    *)
(* the lease, also when the lease reaches back beyond the year 0, unless    *)
(* the subtraction in tick panics.                                          *)
ClaimsExpireOnTime ==
  FourDigits(promised) =>
    \A lease \in 0..MaxDelta :
      LET bound == older_than(promised, lease)
      IN  representable(bound) =>
            \A claimed \in {t \in Nearby(bound) \cup {0} : FourDigits(t)} :
              text_lt(to_rfc3339(claimed), to_rfc3339(bound))
                <=> claimed + lease * Second < promised
=============================================================================
