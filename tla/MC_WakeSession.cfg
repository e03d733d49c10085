SPECIFICATION Spec
CONSTANTS
  Wakes = {w1, w2}
  Picks = {p1, p2}
  Ttl = 1
  Timeout = 1
  MaxNow = 2
  MaxReloads = 1
SYMMETRY Symmetry
INVARIANTS
  SessionInv
  OneHandledPick
PROPERTIES
  VerdictMatchesPick
  NoPickAfterVerdict
CHECK_DEADLOCK FALSE
