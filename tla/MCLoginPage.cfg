SPECIFICATION FairSpec
CONSTANTS
  MaxAttempts = 2
  Users = {"alice"}
  User = "alice"
  Urls = {"pageUrl", "serverUrl"}
  PageUrl = "pageUrl"
  ServerUrl = "serverUrl"
  NoUrl = "noUrl"
  Bodies = {"meta"}
  Body = "meta"
  NoBody = "noBody"
  NoTag = "noTag"
  Empty = "empty"
  NoSnapshot = NoSnapshot
  Settings <- MCSettings
  Instants <- MCInstants
  Skews <- MCSkews
  MaxFaults = 1
  MaxSaves = 1
  MaxReloads = 1
INVARIANTS
  TypeOK
  RefusalsHaveACause
  WaitingMeansUnderWay
PROPERTIES
  AttemptsEnd
CHECK_DEADLOCK FALSE
