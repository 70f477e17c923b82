CONSTANTS
  caller = caller
  answerer = answerer
  pkt = pkt
  big = big
  one = one
  letter = letter
  pub = pub
  pub2 = pub2
  r1 = r1
  r2 = r2
  none = none
  Caller = caller
  Answerer = answerer
  None = none
  Files <- MCFiles
  Packets <- MCPackets
  KillSent <- MCKillSent
  Size <- MCSize
  Outbound <- BigOnly
  Held <- NothingHeld
  Room <- RoomForAll
  Requests <- Nothing
  Answer <- NoAnswer
  MaxRequests = 0
  BlkMax = 2
  MaxIdle = 1
  RposLimit = 4
  MaxHalts = 1
  HaltAcks = 1
  MaxNoise = 2
  MaxEarly = 0
  MaxQuits = 1
  MaxSessions = 2
SPECIFICATION FairSpec
INVARIANTS UnitsInPlace
PROPERTIES PartialKept TransfersMail SessionEnds
CHECK_DEADLOCK FALSE
