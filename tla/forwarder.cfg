CONSTANTS
  m1 = m1
  m2 = m2
  m4 = m4
  e1 = e1
  e2 = e2
  e3 = e3
  w1 = w1
  w2 = w2
  Message = {m1, m2, m4}
  Event = {e1, e2, e3}
  EventsOf <- MCEventsOf
  Poison = {m4}
  Worker = {w1, w2}
  ChanSize = 1
  SignalSize = 1
  AutomaticAcking = TRUE
  PromptMain = TRUE
  MaxSignals = 2
  MaxLosses = 2
  MaxCancels = 1
SPECIFICATION Spec
SYMMETRY Workers
INVARIANTS TypeOK NothingLostInPipeline NothingTwice HealthNotStale
