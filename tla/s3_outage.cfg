CONSTANTS
  e1 = e1
  e2 = e2
  e3 = e3
  c1 = c1
  c2 = c2
  c3 = c3
  c4 = c4
  c5 = c5
  Event = {e1, e2}
  S3Concurrency = 1
  Chunk = {c1, c2, c3}
  UploadEmpty = FALSE
  MaxErrors = 1
SPECIFICATION FairSpec
CHECK_DEADLOCK FALSE
PROPERTY KeepsTaking
