SPECIFICATION Spec
CONSTANTS
  Handlers = {h1}
  Ids = {cs1}
  Principals = {alice, bob}
  Humans = {alice, bob}
  Guests = {g1, g2}
  alice = alice
  bob = bob
  g1 = g1
  g2 = g2
  Scope <- MCScope
  Star = {alice}
  Waived = {}
  LabMode = FALSE
  Pinned = {g2}
  LiveAt <- MCLiveAt
  TaggedAt <- MCTaggedAt
  Horizon = 0
  MaxEdits = 1
  MaxCrashes = 0
  HasDigest = TRUE
  HasEvidence = FALSE
  Faults = {}
  None = None
INVARIANT DeleteStaysInReach
