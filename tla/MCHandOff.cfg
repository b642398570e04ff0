SPECIFICATION FairSpec
CONSTANTS
  MaxAttempts = 1
  Users = {"alice"}
  User = "alice"
  Urls = {"pageUrl", "serverUrl"}
  PageUrl = "pageUrl"
  ServerUrl = "serverUrl"
  NoUrl = "noUrl"
  Bodies = {"meta"}
  Body = "meta"
  NoBody = "noBody"
  NoTag = "noTag"
  Empty = "empty"
  NoSnapshot = NoSnapshot
  Settings <- MCSettings
  Instants <- OneInstant
  Skews <- NoSkew
  MaxFaults = 0
  MaxSaves = 0
  MaxReloads = 0
PROPERTY SessionsAreHandedOff
CHECK_DEADLOCK FALSE
