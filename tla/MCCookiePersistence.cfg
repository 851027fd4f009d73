SPECIFICATION Spec
CONSTANTS
  a = a
  b = b
  Conns = {a, b}
  k1 = k1
  k2 = k2
  Keys = {k1, k2}
  Main = Main
  Nobody = Nobody
  Stored = Stored
  Expiries = {1, 2}
  MaxTime = 1
  MaxBoots = 2
  MaxFails = 1
SYMMETRY Symmetric
INVARIANTS DiskFollowsJar ChangesPersist
PROPERTIES NoTornSave OthersKept
CHECK_DEADLOCK FALSE
