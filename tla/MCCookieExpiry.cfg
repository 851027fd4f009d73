SPECIFICATION Spec
CONSTANTS
  a = a
  b = b
  Conns = {a, b}
  k1 = k1
  Keys = {k1}
  Main = Main
  Nobody = Nobody
  Stored = Stored
  Expiries = {1, 2}
  MaxTime = 1
  MaxBoots = 1
  MaxFails = 0
SYMMETRY Symmetric
PROPERTIES UntouchedNeverOverwrite
CHECK_DEADLOCK FALSE
