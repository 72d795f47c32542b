SPECIFICATION RestartedSpec
CONSTANTS
  Handlers = {h1}
  Ids = {cs1}
  Principals = {alice, bob}
  Humans = {alice, bob}
  Waived = {}
  LabMode = FALSE
  HasEvidence = TRUE
  ProtectedAt = {}
  Horizon = 0
  MaxCrashes = 1
  Faults = {}
  None = None
PROPERTY InterruptedApplyResolves
