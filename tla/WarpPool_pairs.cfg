SPECIFICATION Spec
CONSTANTS
  NW = 2
  RQ_DEPTH = 1
  MEM_OPS = 3
  LD_MAX = 2
  MaxWarps = 3
  Regs = {"x0", "a", "b", "f"}
  FRegs = {"f"}
CONSTANT Units <- TwoUnits
CONSTANT Lat <- UnitLat
CONSTANT Kernels <- IssueKernels
INVARIANTS TypeOK CaptureFresh ReadsInOrder Bookkeeping WaitsSound
