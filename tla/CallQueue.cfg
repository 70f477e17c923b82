CONSTANTS
  None = None
  Last = 2
  MaxFailed = 2
  MaxTry = 1
  Events <- MCEvents
  Posts <- MCPosts
SPECIFICATION FairSpec
INVARIANTS TypeOK QueueComplete LimitsKept
PROPERTIES CallsProgress
