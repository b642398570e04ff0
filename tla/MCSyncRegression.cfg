SPECIFICATION Spec
CONSTANTS
  Keys = {"k1", "k2"}
  Entries <- MCEntries
  WellFormed <- MCWellFormed
  Users <- MCUsers
  Lower <- MCLower
  Relays = {"r1", "r2"}
  HungRelays = {}
  Blank = "blank"
  Garbled = "garbled"
  Configs <- TwoRelays
  Events <- TwoVersions
  Noise = {}
  MaxFaults = 1
  MaxSaves = 0
  MaxRestarts = 0
PROPERTY CacheKeepsNewest
