SPECIFICATION FairSpec
CONSTANTS
  Slots = {s1, s2}
  MaxMishaps = 2
  MaxStrays = 1
INVARIANTS NeverMaintainBusy ExitsQuiet DrainStopsDispatch NotOverUnfinished
PROPERTIES ResultsReported ControllerEnds EverySlotServed
CHECK_DEADLOCK FALSE
