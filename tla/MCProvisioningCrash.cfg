SPECIFICATION Spec
CONSTANTS
  Procs = {"q1"}
  Pubkeys <- OneKey
  Names <- OneKeyNames
  Npub <- OneNpub
  NoUser = NoUser
  ByHand = "byHand"
  MaxUsers = 2
  MaxLogins = 2
  MaxEdits = 0
  MaxPosts = 0
  MaxCrashes = 1
  MaxFaults = 0
INVARIANT SessionsOnHardenedAccounts
CHECK_DEADLOCK FALSE
