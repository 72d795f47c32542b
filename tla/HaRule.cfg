SPECIFICATION Spec
CONSTANTS
  Handlers = {h1, h2}
  Ids = {cs1}
  Principals = {alice, bob}
  Humans = {alice, bob}
  Guests = {g1, g2}
  alice = alice
  bob = bob
  g1 = g1
  g2 = g2
  Scope <- MCScope
  Star = {alice}
  Waived = {alice}
  LabMode = FALSE
  Pinned = {}
  LiveAt <- MCLiveAt
  TaggedAt <- MCTaggedAt
  Horizon = 1
  MaxEdits = 1
  MaxCrashes = 1
  HasDigest = TRUE
  HasEvidence = TRUE
  Faults = {"store", "evidence", "request"}
  None = None
SYMMETRY HandlersSymmetry
INVARIANTS TypeOK SecondPersonAlways ReachesOnlyChecked UpdatesPlannedRule ReceiptsTruthful
PROPERTY ImplementsSingleUse
