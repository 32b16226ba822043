SPECIFICATION MCSpec
CONSTANTS
  NL = 4
  PCN = 8
  EntryPc = 0
  MaxTrips = 2
CONSTANT Programs <- AllKernels
INVARIANTS TypeOK StackShape LockStep
PROPERTIES LanesKept ThreadSteps WarpRetires
CHECK_DEADLOCK FALSE
