CONSTANTS
  hub = hub
  leaf = leaf
  none = none
  t1 = t1
  t2 = t2
  NoNode = none
  NoSlot = noslot
  Tasks <- TwoLines
  Nodes <- MCNodes
  Addresses <- AnyAddresses
  Home = 2
  FlagDir = TRUE
  FirstDirs <- Outbound
  NewDirs <- PntDir
  Kinds = {"janus", "fts1"}
  Calls <- AnyCalls
  Reached <- AnyReached
  Callers <- AnyCallers
  Packed <- AnyPacked
  PackMax = 2
  FileReq = TRUE
  DialLocks = 1
SPECIFICATION Spec
INVARIANTS LocksTypeOK FlagsApart
PROPERTIES KeepsTable
