SPECIFICATION Spec
CONSTANTS
  g1 = g1
  g2 = g2
  g3 = g3
  u1 = u1
  Gets = {g1, g2, g3}
  Uploads = {}
  Chunks = 2
  MaxVersion = 2
  MaxRestarts = 2
  MaxDeletes = 1
  Overlap = FALSE
INVARIANTS ServedFileIsWhole
CHECK_DEADLOCK FALSE
