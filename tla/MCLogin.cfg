SPECIFICATION Spec
CONSTANTS
  Procs = {"q1"}
  Users = {"alice", "mallory", "crooked"}
  Requests <- MCRequests
  OffCurve = {"crooked"}
  Urls = {"published", "direct"}
  NoUrl = "noUrl"
  Bodies = {"meta", "odd"}
  OddBodies = {"odd"}
  NoBody = "noBody"
  NoTag = "noTag"
  Empty = "empty"
  NoSnapshot = NoSnapshot
  Snapshots <- MCSnapshots
  Settings <- MCSettings
  Instants <- MCInstants
  MaxChanges = 2
  MaxResends = 1
INVARIANTS
  TypeOK
  SessionIsEarned
  ReplayWindowBounded
  NoticeIsTrue
  UnavailableOnlyWhenFailClosed
CHECK_DEADLOCK FALSE
