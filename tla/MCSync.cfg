SPECIFICATION FairSpec
CONSTANTS
  Keys = {"k1", "k2"}
  Entries <- MCEntries
  WellFormed <- MCWellFormed
  Users <- MCUsers
  Lower <- MCLower
  Relays = {"r1", "r2"}
  HungRelays = {}
  Blank = "blank"
  Garbled = "garbled"
  Configs <- SyncConfigs
  Events <- SyncEvents
  Noise <- SyncNoise
  MaxFaults = 1
  MaxSaves = 1
  MaxRestarts = 1
INVARIANT TypeOK
PROPERTIES
  ImplementsAuthorizedList
  Converges
  PollsRecur
