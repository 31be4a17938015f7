SPECIFICATION FairSpec
CONSTANTS
    s1 = s1
    s2 = s2
    s3 = s3
    Slot <- MCSlot
    MaxVersion = 2
    MaxFailures = 2
PROPERTIES
    EventuallyCurrent
CHECK_DEADLOCK FALSE
