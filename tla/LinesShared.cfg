CONSTANTS
  hub = hub
  leaf = leaf
  none = none
  t1 = t1
  t2 = t2
  NoNode = none
  NoSlot = noslot
  Tasks <- TwoLines
  Nodes <- MCNodes
  Addresses <- MCAddresses
  Home = 2
  FlagDir = FALSE
  FirstDirs <- Outbound
  NewDirs <- PntDir
  Kinds = {"janus", "wazoo"}
  Calls <- MCCalls
  Reached <- MCReached
  Callers <- MCCallers
  Packed <- MCPacked
  PackMax = 2
  FileReq = FALSE
  DialLocks = 1
SPECIFICATION Spec
INVARIANTS Exclusive OneLine NothingLeft
