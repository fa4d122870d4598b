SPECIFICATION FairSpec
CONSTANTS
  g1 = g1
  g2 = g2
  g3 = g3
  u1 = u1
  Gets = {g1, g2}
  Uploads = {u1}
  Chunks = 2
  MaxVersion = 2
  MaxRestarts = 1
  MaxDeletes = 0
  Overlap = TRUE
INVARIANTS TypeOK TmpIsBeingDownloaded DownloadedFileIsThere
PROPERTIES EveryGetEnds
CHECK_DEADLOCK FALSE
