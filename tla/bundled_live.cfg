CONSTANTS
  e1 = e1
  e2 = e2
  e3 = e3
  s1 = s1
  s2 = s2
  s3 = s3
  s4 = s4
  s5 = s5
  s6 = s6
  t1 = t1
  t2 = t2
  t3 = t3
  Event = {e1, e2}
  Stamp = {s1, s2, s3, s4}
  Task = {t1, t2}
  EventLen <- MCEventLen
  Bytes <- MCBytes
  LongLine <- MCNone
  MaxFileSize = 2
  UploadEmptyFiles = FALSE
  Compress = FALSE
  DebugFlag = TRUE
  DryRun = FALSE
  FreshStamps = TRUE
  QuietStart = TRUE
  MaxStarts = 2
  MaxFaults = 0
  MaxChecks = 0
  MaxRefusals = 1
SPECIFICATION FairSpec
PROPERTY EveryEventLeaves
