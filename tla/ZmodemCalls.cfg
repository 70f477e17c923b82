CONSTANTS
  pkt = pkt
  letter = letter
  one = one
  none = none
  None = none
  Files <- MCFiles
  Packets <- MCPackets
  KillSent <- MCKillSent
  Size <- MCSize
  Outbound <- MCOutbound
  Locked = {}
  Held = {}
  Room = 9
  Tries = 2
  RposTries = 2
  Errs = 1
  Faults <- MCFaults
SPECIFICATION FairSpec
INVARIANTS NoMailLost ReceivedIntact Beginnings
PROPERTIES TransfersMail CallsEnd
CHECK_DEADLOCK FALSE
