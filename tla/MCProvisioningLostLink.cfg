SPECIFICATION Spec
CONSTANTS
  Procs = {"q1"}
  Pubkeys <- OneKey
  Names <- OneKeyNames
  Npub <- OneNpub
  NoUser = NoUser
  ByHand = "byHand"
  MaxUsers = 3
  MaxLogins = 3
  MaxEdits = 1
  MaxPosts = 1
  MaxCrashes = 0
  MaxFaults = 0
INVARIANT OneAccountPerKey
CHECK_DEADLOCK FALSE
