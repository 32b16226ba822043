SPECIFICATION Spec
CONSTANTS
  Lines = {0, 1}
  Beats = 2
  Tags = {1, 2, 3}
  MaxReq = 3
  NWAY = 1
  NSET = 1
  NMSHR = 2
  PF = TRUE
  ByteEnables = {{1}}
  MaxGo = 2
  Wild = TRUE
INVARIANTS
  AnswersRight
  CopiesCurrent
  Accounted
PROPERTIES
  EveryAnswered
