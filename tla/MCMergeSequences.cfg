SPECIFICATION Spec
CONSTANTS
  Keys <- MCKeys
  Entries <- MCEntries
  WellFormed <- MCWellFormed
  Users <- MCUsers
  Lower <- MCLower
  Candidates <- MCCandidates
  MaxCandidates = 3
INVARIANTS
  TypeOK
  RevocationSticks
  ForgeriesAreInert
  OrderMattersOnlyOnTies
  UnflaggedMeansPrivate
PROPERTY TakesOverOnlyIfNewer
CHECK_DEADLOCK FALSE
