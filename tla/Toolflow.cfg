SPECIFICATION Spec
CHECK_DEADLOCK FALSE
CONSTANTS
  Invocations <- MCInvocations
  Suite <- MCSuite
  Kernels <- MCKernels
  SlotsAt <- MCSlotsAt
  Uses <- MCUses
  VortexRows <- MCVortexRows
  MaxExec = 2
  MaxVer = 1
INVARIANTS
  RowsFresh
  GroupsWhole
  CompareFair
  PassIsComplete
