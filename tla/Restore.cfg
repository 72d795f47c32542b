SPECIFICATION Spec
CONSTANTS
  alice = alice
  bob = bob
  g1 = g1
  g2 = g2
  Handlers = {h1, h2}
  Ids = {cs1}
  Principals = {alice, bob}
  Humans = {alice, bob}
  Owners = {g1, g2}
  Scope <- MCScope
  ByNumber <- MCByNumber
  Lives <- MCLives
  Waived = {alice}
  LabMode = FALSE
  HasEvidence = TRUE
  Horizon = 1
  MaxCrashes = 1
  Faults = {"store", "evidence", "request", "poll"}
  None = None
SYMMETRY CallsSymmetry
INVARIANTS TypeOK DriftCheckedByApply CopierMayRead SecondPersonAlways ReceiptsTruthful
PROPERTIES NeverOverwrites ImplementsSingleUse
CHECK_DEADLOCK FALSE
