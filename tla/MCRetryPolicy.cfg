\* All policies over a 4-bit integer, shifts up to 2, more failures than shifts,
\* years of four seconds of eight units each.
SPECIFICATION Spec
CONSTANTS
  Max_u64 = 15
  MaxShift = 2
  MaxTries = 5
  SubSec = 2
  SecsPerYear = 4
  LastYear = 3
  MinTime = 40
  MaxTime = 160
  MaxDelta = 13
  FallbackDelay = 6
  FallbackLease = 12
  Starts = {5, 40}
  Lateness = {0, 3}
INVARIANTS
  BackoffIsReference
  DelaysNeverShrink
  DueWhenPromised
  ClaimsExpireOnTime
CHECK_DEADLOCK FALSE
