SPECIFICATION FairSpec
CONSTANTS
  Users = {u1, u2}
  SyncThread = timer
  NoThread = NoThread
  Entries = {name}
  Stored = {name}
  Values = {v1, v2, inf}
  Default = v1
  Zero = v2
  Unstorable = {inf}
  NoValue = NoValue
  Alien = Alien
  NoJson = NoJson
  Torn = Torn
  Missing = Missing
  MaxHolds = 2
INVARIANTS TypeOK DirtyTracked DocumentAgrees BackupSurvives NoSyncAfterFini
PROPERTIES ChangesSaved
CHECK_DEADLOCK FALSE
