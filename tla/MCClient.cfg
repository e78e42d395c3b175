SPECIFICATION FairSpec
CONSTANTS
  None = None
  a = a
  b = b
  unsupported = unsupported
  Content <- WithBroken
  Valid <- WithBroken
  Sound <- Good
  Gateway <- UpToCodex
  Slot = {r}
  MaxLaunches = 1
  MaxClicks = 2
INVARIANT TypeOK
INVARIANT CompletedIsRunning
PROPERTY OfferedLocalIsLocal
PROPERTY LeavesInOrder
PROPERTY ActionsEnd
PROPERTY LeavingEnds
