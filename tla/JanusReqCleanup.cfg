CONSTANTS
  caller = caller
  answerer = answerer
  pkt = pkt
  big = big
  one = one
  letter = letter
  pub = pub
  pub2 = pub2
  r1 = r1
  r2 = r2
  none = none
  Caller = caller
  Answerer = answerer
  None = none
  Files <- MCFiles
  Packets <- MCPackets
  KillSent <- MCKillSent
  Size <- MCSize
  Outbound <- PktBack
  Held <- NothingHeld
  Room <- RoomForAll
  Requests <- OneRequest
  Answer <- PubAnswer
  MaxRequests = 1
  BlkMax = 2
  MaxIdle = 2
  RposLimit = 4
  MaxHalts = 1
  HaltAcks = 1
  MaxNoise = 1
  MaxEarly = 0
  MaxQuits = 0
  MaxSessions = 1
SPECIFICATION Spec
INVARIANTS RequestedFilesStay
CHECK_DEADLOCK FALSE
