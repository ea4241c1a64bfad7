\* Does every target of an accepted message get its row, also when an INSERT fails?
SPECIFICATION Spec
CONSTANTS
  c1 = c1
  c2 = c2
  alice = alice
  rita = rita
  ron = ron
  teams = teams
  NoTransport = NoTransport
  Reject = Reject
  NoRule = NoRule
  NullSender = NullSender
  Clients = {c1, c2}
  Senders = {alice}
  Recipients = {rita, ron}
  Chunks = {"subject", "text"}
  Subject = "subject"
  OriginalSubject <- MCSubject
  NoName = NoName
  IngressConfigs <- MCConfigs
  MaxRcpts = 1
  MaxChunks = 1
  MaxTxns = 2
  MaxFaults = 1
INVARIANT
  EachTargetQueued
