CONSTANTS
  e1 = e1
  e2 = e2
  e3 = e3
  c1 = c1
  c2 = c2
  c3 = c3
  c4 = c4
  c5 = c5
  Event = {e1}
  S3Concurrency = 2
  Chunk = {c1, c2, c3, c4, c5}
  UploadEmpty = FALSE
  MaxErrors = 0
SPECIFICATION FairSpec
PROPERTIES StopEnds EventsUploaded
