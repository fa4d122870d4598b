SPECIFICATION Spec
CONSTANTS
  g1 = g1
  g2 = g2
  g3 = g3
  u1 = u1
  Gets = {g1, g2}
  Uploads = {}
  Chunks = 2
  MaxVersion = 2
  MaxRestarts = 0
  MaxDeletes = 0
  Overlap = TRUE
INVARIANTS ServedFileIsWhole
CHECK_DEADLOCK FALSE
