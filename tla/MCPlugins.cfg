\* Is each plugin of a scanned directory exposed as a transport?
SPECIFICATION Spec
CONSTANTS
  r1 = r1
  r2 = r2
  m1 = m1
  queue_db = queue_db
  smtp = smtp
  teams = teams
  ntfy = ntfy
  Blank = Blank
  Memory = Memory
  MemoryNames = {Memory}
  NoSmtp = NoSmtp
  BuiltinSmtp = BuiltinSmtp
  NoTransport = NoTransport
  Unset = Unset
  Nobody = Nobody
  NoConfig = NoConfig
  Smtp = smtp
  Instances = {r1, r2}
  MailIds = {m1}
  TransportNames = {smtp, teams, ntfy}
  RelayConfigs <- FileOnly
  MaxFaults = 0
INVARIANT
  EachPluginLoaded
