SPECIFICATION Spec
CONSTANTS
  Handlers = {h1, h2}
  Ids = {cs1}
  Principals = {alice, bob, bot}
  Humans = {alice, bob}
  Waived = {alice}
  LabMode = FALSE
  HasEvidence = TRUE
  ProtectedAt = {1}
  Horizon = 1
  MaxCrashes = 1
  Faults = {"resolve", "store", "evidence", "request", "poll", "probe"}
  None = None
SYMMETRY HandlersSymmetry
INVARIANTS TypeOK SpentOnce TwoPersons EvidenceFirst SettledTruthfully ReceiptsTruthful HandleWhileApplying ActsOnPlannedGuest
PROPERTY ImplementsSingleUse
