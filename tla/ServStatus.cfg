SPECIFICATION FairSpec
CONSTANTS
  Workers = {w1, w2}
  MaxEvents = 2
  MaxAsked = 1
  MaxStarts = 2
  MaxJump = 1
INVARIANTS TypeOK GaugeIsSum RingIsSum TotalIsSum RateNotOver
PROPERTY Published
CHECK_DEADLOCK FALSE
