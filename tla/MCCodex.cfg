SPECIFICATION Spec
CONSTANTS
  None = None
  User = User
  a = a
  b = b
  ida = ida
  idb = idb
  mine = mine
  openai = openai
  zenhub = zenhub
  Group <- MCGroup
  Id <- MCId
  Reserved <- MCReserved
  Zenhub = zenhub
  Installations <- MCInstallations
  MaxEdits = 1
INVARIANT TypeOK
INVARIANT TemplatesStayApart
INVARIANT LiveIsCurrent
INVARIANT BackupIsOriginal
INVARIANT LiveIdIsStable
INVARIANT EditsAreKept
