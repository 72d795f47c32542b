SPECIFICATION FairSpec
CONSTANTS
  Handlers = {h1, h2}
  Ids = {cs1}
  Principals = {alice, bob}
  Humans = {alice, bob}
  Waived = {}
  LabMode = FALSE
  HasEvidence = TRUE
  ProtectedAt = {}
  Horizon = 0
  MaxCrashes = 1
  Faults = {"evidence", "request", "poll"}
  None = None
PROPERTIES CallsReturn RecoverySettles RecoveryKeeps
