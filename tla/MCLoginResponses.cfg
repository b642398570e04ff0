SPECIFICATION Spec
CONSTANTS
  Procs = {"q1"}
  Users = {"alice", "mallory"}
  Requests <- MCRequests
  OffCurve = {"crooked"}
  Urls = {"published", "direct"}
  NoUrl = "noUrl"
  Bodies = {"meta", "odd"}
  OddBodies = {"odd"}
  NoBody = "noBody"
  NoTag = "noTag"
  Empty = "empty"
  NoSnapshot = NoSnapshot
  Snapshots <- OneSnapshot
  Settings <- OneSetting
  Instants <- MCInstants
  MaxChanges = 1
  MaxResends = 0
INVARIANT ResponsesAreDocumented
CHECK_DEADLOCK FALSE
