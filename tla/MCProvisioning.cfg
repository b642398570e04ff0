SPECIFICATION Spec
CONSTANTS
  Procs = {"q1", "q2"}
  Pubkeys <- MCPubkeys
  Names <- MCNames
  Npub <- MCNpub
  NoUser = NoUser
  ByHand = "byHand"
  MaxUsers = 3
  MaxLogins = 3
  MaxEdits = 1
  MaxPosts = 1
  MaxCrashes = 1
  MaxFaults = 1
INVARIANTS
  TypeOK
  NoSharedAccounts
  LinksPersisted
  KeepsItsAccount
  HardenedUnlessCutShort
CHECK_DEADLOCK FALSE
