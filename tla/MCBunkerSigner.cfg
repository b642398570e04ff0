SPECIFICATION FairSpec
CONSTANTS
  Relays = {"r1", "r2"}
  Signers = {"s1"}
  Offers <- MCOffers
  Switches <- MCSwitches
  MaxFaults = 1
INVARIANTS
  TypeOK
  OneRelaySuffices
  CallsStayHeard
PROPERTIES
  ImplementsRemoteSigner
  CallsSettle
CHECK_DEADLOCK FALSE
