SPECIFICATION Spec
CONSTANTS
  Callers = {p1, p2}
  Clusters = {c1}
  Vmids = {v1}
  Horizon = 2
  MaxGen = 1
  Roster <- MCRoster
  None = None
PROPERTY SecondInsertIsEquivalent
CHECK_DEADLOCK FALSE
