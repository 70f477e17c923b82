CONSTANTS
  hub = hub
  leaf = leaf
  l1 = l1
  l2 = l2
  m1 = m1
  m2 = m2
  m3 = m3
  None = none
  Lines <- MCLines
  Packers <- OnePacker
  Callers <- OneCaller
  Nodes <- MCNodes
  Mail <- MCMail
  Dest <- MCDest
  Waiting <- MCWaiting
  Routes <- MCRoutes
  Sessions <- MCSessions
  Flags <- MCFlags
  Names = 2
  Crashes = 1
  Packs = 2
  Calls = 2
SPECIFICATION Spec
INVARIANTS MailKept Listed WhereItMay
CHECK_DEADLOCK FALSE
