SPECIFICATION Spec
CONSTANTS
  Handlers = {h1}
  Ids = {cs1}
  Principals = {alice, bob}
  Humans = {alice, bob}
  Waived = {}
  LabMode = TRUE
  HasEvidence = TRUE
  ProtectedAt = {}
  Horizon = 0
  MaxCrashes = 0
  Faults = {"resolve"}
  None = None
INVARIANT LabModeOnlyForProtected
