SPECIFICATION Spec
CONSTANTS
  alice = alice
  bob = bob
  c1 = c1
  c2 = c2
  Clients = {c1}
  Asks <- MCAsks
  Principals = {alice, bob}
  Tools <- MCTools
  Grants <- MCGrants
  Vmids <- MCVmids
  Lives <- MCLives
  Startup <- MCStartup
  Inventories <- MCInventories
  Waivers <- MCWaivers
  LabMode = FALSE
  DirectCommit = TRUE
  Tasks <- MCTasks
  MaxLimit = 2
  Horizon = 2
  MaxTime = 1
  None = None
INVARIANT ReloadedPinsHold
