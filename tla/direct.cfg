SPECIFICATION FairSpec
CONSTANTS
    e1 = e1
    e2 = e2
    e3 = e3
    Event <- MCEvent
    Untyped <- MCUntyped
    Oversized <- MCOversized
    Room = 1
    MaxOutages = 2
INVARIANTS
    ConnectedMeansOpen
    LossesReported
PROPERTIES
    KeepsPromise
    StopEnds
    Reconnects
