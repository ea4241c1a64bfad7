\* Safety of the dispatcher: two mails, every kind of failure, a clock that jumps.
SPECIFICATION Spec
CONSTANTS
  m1 = m1
  m2 = m2
  smtp = smtp
  NoTransport = NoTransport
  MailIds <- MCMails
  TransportNames = {smtp}
  Smtp = smtp
  Configs <- PluginOnly
  Backoff <- MCBackoff
  BatchSize = 2
  Concurrency = 2
  Lease = 1
  MaxAttempts = 2
  MaxClock = 2
  MaxFaults = 2
  MayHang = TRUE
SYMMETRY MailSymmetry
INVARIANTS
  TypeOK
  NoConcurrentDelivery
  ClaimHeld
  BackoffHonoured
  AttemptsBounded
  SentMeansDelivered
  SendsBounded
  DuplicatesNeedFaults
PROPERTY
  TerminalIsFinal
