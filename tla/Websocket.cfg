SPECIFICATION FairSpec
CHECK_DEADLOCK FALSE
CONSTANTS
  MaxFrames = 2
  MaxOps = 1
  MaxDrift = 1
INVARIANTS TypeOK GaugesFollow FramesWhole SendGoesOn
PROPERTY GoneIsClosed
