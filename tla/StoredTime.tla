----------------------------- MODULE StoredTime -----------------------------
(***************************************************************************)
(* Times as the queue stores and compares them.  The dispatcher computes   *)
(* with chrono's DateTime<Utc> (crates/dispatcher/src/lib.rs), the columns *)
(* hold RFC 3339 text (crates/queue-sqlite/src/lib.rs) and SQLite compares *)
(* that text byte by byte.                                                 *)
(*                                                                         *)
(* A time is an integer, the nanoseconds since the year 0.  A text is the  *)
(* sequence of its bytes, except that digits which always come in a fixed  *)
(* number are one element, Digit + their value: the year of four digits,   *)
(* the rest of date and time, and each three digits of the fraction.       *)
(***************************************************************************)
EXTENDS Integers, Sequences

CONSTANTS SubSec,       \* values of three digits: 1000
          SecsPerYear,  \* all years have the same length here
          LastYear,     \* the last year with four digits: 9999
          MinTime,      \* DateTime<Utc> reaches from -MinTime
          MaxTime,      \* to MaxTime
          MaxDelta,     \* most seconds chrono::Duration::from_std takes
          FallbackDelay,  \* 60 s, when it does not take the delay
          FallbackLease   \* 120 s, when it does not take the lease

Second == SubSec * SubSec * SubSec

Year == SecsPerYear * Second

ASSUME StoredTimeAssumption ==
  /\ SubSec \in Nat \ {0, 1} /\ SecsPerYear \in Nat \ {0}
  /\ LastYear \in Nat /\ MaxDelta \in Nat
  /\ FallbackDelay \in Nat /\ FallbackLease \in Nat
  /\ MinTime \in Nat
  /\ MaxTime \in Nat /\ (LastYear + 1) * Year <= MaxTime

(* The bytes '+', '-', '.', '0' and 'Z'. *)
Plus  == 43
Minus == 45
Dot   == 46
Digit == 48
Zulu  == 90
-----------------------------------------------------------------------------
fallback(secs, otherwise) == IF secs > MaxDelta THEN otherwise ELSE secs

(* When deliver wants a mail tried again, `delay` seconds from now. *)
retry_at(now, delay) == now + fallback(delay, FallbackDelay) * Second

older_than_swapped(now, lease) ==      \* mutant: the lease is added
  now + fallback(lease, FallbackLease) * Second

(* What tick reclaims was claimed before this. *)
older_than(now, lease) == now - fallback(lease, FallbackLease) * Second

(* The sum and the difference panic outside DateTime's range. *)
representable(t) == -MinTime <= t /\ t <= MaxTime
-----------------------------------------------------------------------------
(* A year that has not four digits is printed with its sign. *)
date_text(t) ==
  LET year == t \div Year
      rest == (t % Year) \div Second
  IN  (CASE year < 0        -> <<Minus, Digit - year>>
         [] year > LastYear -> <<Plus, Digit + year>>
         [] OTHER           -> <<Digit + year>>) \o <<Digit + rest>>

(* No fraction for a whole second, else three, six or nine digits. *)
fraction_text(t) ==
  LET milli == (t \div (SubSec * SubSec)) % SubSec
      micro == (t \div SubSec) % SubSec
      nano  == t % SubSec
  IN  CASE milli = 0 /\ micro = 0 /\ nano = 0 -> <<>>
        [] milli # 0 /\ micro = 0 /\ nano = 0 -> <<Dot, Digit + milli>>
        [] micro # 0 /\ nano = 0 -> <<Dot, Digit + milli, Digit + micro>>
        [] OTHER -> <<Dot, Digit + milli, Digit + micro, Digit + nano>>

to_rfc3339_zulu(t) == date_text(t) \o fraction_text(t) \o <<Zulu>>   \* mutant: "Z"

(* DateTime::to_rfc3339; the offset "+00:00" is one element. *)
to_rfc3339(t) == date_text(t) \o fraction_text(t) \o <<Plus>>

(* DateTime::parse_from_rfc3339 takes a year of four digits only; a row    *)
(* that does not decode fails the whole fetch_due it is in.                *)
decodes(text) == text[1] \notin {Plus, Minus}

parse_time(text) ==
  LET fraction == SubSeq(text, 4, Len(text) - 1)
      group(k) == IF k \in DOMAIN fraction THEN fraction[k] - Digit ELSE 0
  IN  (text[1] - Digit) * Year + (text[2] - Digit) * Second
        + (group(1) * SubSec + group(2)) * SubSec + group(3)

(* memcmp, the order of SQLite's TEXT values. *)
text_lt(s, t) ==
  \E k \in DOMAIN t :
    /\ \A j \in 1..(k - 1) : j \in DOMAIN s /\ s[j] = t[j]
    /\ k \in DOMAIN s => s[k] < t[k]

text_le(s, t) == s = t \/ text_lt(s, t)
=============================================================================
