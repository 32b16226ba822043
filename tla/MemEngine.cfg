SPECIFICATION Spec
CONSTANTS
  NL = 2
  NW = 2
  V = 4
  Words = 4
  ScrWords = 1
  BLK = 2
  MaxOps = 3
  LD_MAX = 2
  NC = 2
  MQD = 2
  LW = 2
CONSTANT OpLib <- MixedOps
CONSTANT Configs <- Builds
INVARIANTS TypeOK AnswersOwned
PROPERTIES ImplementsAtomic EveryOpResumes
