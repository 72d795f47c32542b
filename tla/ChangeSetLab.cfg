SPECIFICATION Spec
CONSTANTS
  Handlers = {h1, h2}
  Ids = {cs1, cs2}
  Principals = {alice, bob}
  Humans = {alice, bob}
  Waived = {}
  LabMode = TRUE
  HasEvidence = FALSE
  ProtectedAt = {0}
  Horizon = 0
  MaxCrashes = 1
  Faults = {"store", "request", "poll"}
  None = None
SYMMETRY CallsSymmetry
INVARIANTS SpentOnce TwoPersons SettledTruthfully
PROPERTY ImplementsSingleUse
