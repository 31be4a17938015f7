CONSTANTS
  m1 = m1
  m2 = m2
  m4 = m4
  e1 = e1
  e2 = e2
  e3 = e3
  w1 = w1
  w2 = w2
  Message = {m1}
  Event = {e1, e2, e3}
  EventsOf <- MCEventsOf
  Poison = {}
  Worker = {w1, w2}
  ChanSize = 1
  SignalSize = 1
  AutomaticAcking = TRUE
  PromptMain = TRUE
  MaxSignals = 2
  MaxLosses = 1
  MaxCancels = 0
SPECIFICATION FairSpec
PROPERTIES StopEnds Reconnects EventsReachOutput
