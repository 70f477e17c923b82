CONSTANTS
  t1 = t1
  t2 = t2
  hudson = hudson
  squish = squish
  news = news
  chat = chat
  tech = tech
  gone = gone
  arc = arc
  None = none
  NoBase = nobase
  Lines <- MCLines
  Content <- MCContent
  Loose <- MCLoose
  Bundle <- MCBundle
  Base <- MCBase
  Squish <- MCSquish
  MaxDupes = 1
  MaxNumber = 3
  Failures = 1
  Crashes = 1
SPECIFICATION FairSpec
INVARIANTS TypeOK TossedOnce NothingLost
PROPERTIES TossEnds
CHECK_DEADLOCK FALSE
