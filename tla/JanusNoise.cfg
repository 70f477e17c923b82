CONSTANTS
  caller = caller
  answerer = answerer
  pkt = pkt
  big = big
  one = one
  letter = letter
  pub = pub
  pub2 = pub2
  r1 = r1
  r2 = r2
  none = none
  Caller = caller
  Answerer = answerer
  None = none
  Files <- MCFiles
  Packets <- MCPackets
  KillSent <- MCKillSent
  Size <- MCSize
  Outbound <- MailAndBack
  Held <- NothingHeld
  Room <- RoomForAll
  Requests <- TwoRequests
  Answer <- MCAnswer
  MaxRequests = 0
  BlkMax = 2
  MaxIdle = 2
  RposLimit = 1
  MaxHalts = 1
  HaltAcks = 1
  MaxNoise = 2
  MaxEarly = 1
  MaxQuits = 0
  MaxSessions = 1
SPECIFICATION FairSpec
INVARIANTS TypeOK ReceivedIntact CleanEndMeansAll RequestsServed NoMailLost OneWayIsTemporary RetryArmed ReceivedOnce
PROPERTIES AllArrive
CHECK_DEADLOCK FALSE
