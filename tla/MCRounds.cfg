SPECIFICATION Spec
CONSTANTS
  Starter = Starter
  Worker = Worker
  Handlers = {sync}
  NoToken = NoToken
  Margin = 0
  Lives = {3}
  InCall = 0
  StartWaits <- TheWaits
  MaxCall = 1
  Entries = {sync, refused, orphan}
  Bad = {refused}
  Orphans = {orphan}
  NoEntry = NoEntry
  Poll = 1
  Ladder <- TheLadder
  PermanentLimit = 2
  CompactAfter = 1
  Climb <- TheClimb
  WarnLines = 2
  MaxDebt = 1
INVARIANTS TypeOK  OutagePaced DoneIsCompacted
PROPERTIES RefreshesApart SetAsideSlowly AlarmOncePerOutage
