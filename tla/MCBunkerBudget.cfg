SPECIFICATION FairSpec
CONSTANTS
  Relays = {"r1", "r2"}
  Signers = {"s1"}
  Offers <- BothRelays
  Switches <- NoSwitch
  MaxFaults = 0
PROPERTY BudgetEnforced
CHECK_DEADLOCK FALSE
