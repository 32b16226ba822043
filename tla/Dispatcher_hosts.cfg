SPECIFICATION Spec
CONSTANTS
  Hosts = {"ps", "driver"}
  Sizes = {0, 1}
  MaxRun = 16
  MaxGap = 7
  MaxLaunches = 3
INVARIANT TypeOK
INVARIANT OneGridPerGo
INVARIANT ReadsOwnGrid
INVARIANT CyclesOwn
PROPERTY PollEnds
