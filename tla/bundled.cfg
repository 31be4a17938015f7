CONSTANTS
  e1 = e1
  e2 = e2
  e3 = e3
  s1 = s1
  s2 = s2
  s3 = s3
  s4 = s4
  s5 = s5
  s6 = s6
  t1 = t1
  t2 = t2
  t3 = t3
  Event = {e1, e2, e3}
  Stamp = {s1, s2, s3, s4, s5, s6}
  Task = {t1, t2, t3}
  EventLen <- MCEventLen
  Bytes <- MCBytes
  LongLine <- MCNone
  MaxFileSize = 3
  UploadEmptyFiles = FALSE
  Compress = FALSE
  DebugFlag = TRUE
  DryRun = FALSE
  FreshStamps = TRUE
  QuietStart = TRUE
  MaxStarts = 2
  MaxFaults = 1
  MaxChecks = 1
  MaxRefusals = 1
SPECIFICATION Spec
CONSTRAINT OneTrouble
INVARIANTS LostOnlyToChecks RefusedNotRetried OneUploaderPerBundle BundleBounded OpenFileNotUploaded
PROPERTIES KeepsPromise KeepsCustody
