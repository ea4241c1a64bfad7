----------------------------- MODULE RetryPolicy -----------------------------
(***************************************************************************)
(* RetryPolicy of the dispatcher (crates/dispatcher/src/retry.rs): how     *)
(* long a mail waits after its n-th failed attempt, and when it has none   *)
(* left.  A policy is the record [max_attempts, base_delay, max_delay]     *)
(* with the delays in whole seconds, which is all the configuration can    *)
(* express.  The widths are parameters: the code has Max_u64 = 2^64 - 1    *)
(* and MaxShift = 31.                                                      *)
(***************************************************************************)
EXTENDS Integers, FiniteSetsExt

CONSTANTS Max_u64,     \* largest value of the type of Duration::as_secs
          MaxShift     \* largest exponent of the doubling

(* 2^k; in this form the provers can reason about it. *)
power2(k) ==
  LET bit[i \in 0..k] == IF i = 0 THEN 1 ELSE 2 * bit[i - 1]
  IN  bit[k]

ASSUME WidthAssumption ==
  /\ Max_u64 \in Nat
  /\ MaxShift \in Nat
  /\ power2(MaxShift) <= Max_u64      \* checked_shl never returns None

saturating_sub(a, b) == Max({a - b, 0})

saturating_mul(a, b) == Min({a * b, Max_u64})

backoff_unchecked_mul(policy, attempts) ==   \* mutant: the product wraps around
  LET shift == Min({saturating_sub(attempts, 1), MaxShift})
      secs  == (policy.base_delay * power2(shift)) % (Max_u64 + 1)
  IN  Min({secs, policy.max_delay})

backoff_off_by_one(policy, attempts) ==      \* mutant: base * 2^attempts
  LET shift == Min({attempts, MaxShift})
  IN  Min({saturating_mul(policy.base_delay, power2(shift)), policy.max_delay})

(* The delay after `attempts` failed attempts. *)
backoff(policy, attempts) ==
  LET shift == Min({saturating_sub(attempts, 1), MaxShift})
      secs  == saturating_mul(policy.base_delay, power2(shift))
  IN  Min({secs, policy.max_delay})

is_exhausted(policy, attempts) == attempts >= policy.max_attempts
=============================================================================
