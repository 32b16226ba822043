SPECIFICATION Spec
CHECK_DEADLOCK FALSE
CONSTANTS
  Layouts <- MCLayouts
  Flow <- MCFlow
  Edits <- MCEdits
  ShiftCuts <- MCShiftCuts
  Builds = 2
INVARIANTS
  AcceptedIsClean
  CrossingsHopped
  TighteningSound
