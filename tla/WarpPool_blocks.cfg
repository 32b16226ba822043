SPECIFICATION Spec
CONSTANTS
  NW = 4
  RQ_DEPTH = 1
  MEM_OPS = 1
  LD_MAX = 1
  MaxWarps = 5
  Regs = {"x0", "a", "b", "f"}
  FRegs = {"f"}
CONSTANT Units <- TwoUnits
CONSTANT Lat <- UnitLat
CONSTANT Kernels <- Barriers
INVARIANTS OneBlock BarrierRound GridExact
PROPERTY GridCompletes
