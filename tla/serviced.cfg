CONSTANTS
  r1 = r1
  r2 = r2
  p1 = p1
  p2 = p2
  p3 = p3
  p4 = p4
  p5 = p5
  p6 = p6
  p7 = p7
  Request = {r1, r2}
  Pid = {p1, p2, p3, p4, p5, p6, p7}
  Prompt = TRUE
  MaxCrashes = 1
SPECIFICATION FairSpec
CHECK_DEADLOCK FALSE
INVARIANTS TypeOK OneInstance StateFileTruthful
PROPERTY RequestsEnd
