SPECIFICATION BridgeSpec
CONSTANTS
  Games = {g1, g2}
  Editors = {e1}
  Runtimes = {r1, r2}
  Tokens = {t1, t2}
  Calls = {k1, k2}
  None = None
SYMMETRY Symmetry
INVARIANT RunSuccessMeansRegistered
CHECK_DEADLOCK FALSE
