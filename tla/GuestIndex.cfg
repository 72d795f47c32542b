SPECIFICATION Spec
CONSTANTS
  Callers = {p1, p2}
  Clusters = {c1, c2}
  Vmids = {v1}
  Horizon = 1
  MaxGen = 2
  Roster <- MCRoster
  None = None
SYMMETRY CallersSymmetry
INVARIANTS TypeOK NoResurrection FreshAnswer
PROPERTY ImplementsFreshReads
CHECK_DEADLOCK FALSE
