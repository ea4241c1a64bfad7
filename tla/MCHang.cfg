\* A transport that never returns: is its mail reclaimed after the lease?
SPECIFICATION LiveSpec
CONSTANTS
  m1 = m1
  m2 = m2
  smtp = smtp
  NoTransport = NoTransport
  MailIds <- MCMails
  TransportNames = {smtp}
  Smtp = smtp
  Configs <- PluginOnly
  Backoff <- MCBackoff
  BatchSize = 2
  Concurrency = 1
  Lease = 1
  MaxAttempts = 2
  MaxClock = 0
  MaxFaults = 1
  MayHang = TRUE
PROPERTIES
  StuckDeliveryReclaimed
