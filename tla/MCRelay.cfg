\* Ingress and dispatcher on one table, batches of one, a process that stops or dies.
SPECIFICATION LiveRelaySpec
CONSTANTS
  m1 = m1
  m2 = m2
  smtp = smtp
  teams = teams
  alice = alice
  NoTransport = NoTransport
  Reject = Reject
  NoRule = NoRule
  NullSender = NullSender
  NoName = NoName
  MailIds <- MCMails
  TransportNames = {smtp, teams}
  Smtp = smtp
  Configs <- MCStarts
  Backoff <- MCBackoff
  BatchSize = 1
  Concurrency = 1
  Lease = 1
  MaxAttempts = 2
  MaxClock = 0
  MaxFaults = 1
  MayHang = FALSE
  Clients = {c1}
  Senders = {alice}
  Recipients = {"rita"}
  Chunks = {"subject"}
  Subject = "subject"
  OriginalSubject <- MCOriginalSubject
  IngressConfigs <- MCIngressConfigs
  MaxRcpts = 1
  MaxChunks = 1
  MaxTxns = 1
INVARIANT
  ReplyIsTrue
PROPERTIES
  EveryMailSettles
  Contract
