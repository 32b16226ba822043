SPECIFICATION Spec
CONSTANTS
  Hosts = {"readme"}
  Sizes = {1}
  MaxRun = 12
  MaxGap = 7
  MaxLaunches = 3
INVARIANT ReadsOwnGrid
