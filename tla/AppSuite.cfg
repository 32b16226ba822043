SPECIFICATION Spec
CONSTANTS
  MB = 2
  EB = 5
  BB = 4
  LANES = 4
  IRAM_WORDS = 1024
  DRAW = 5
CONSTANT ImageWords <- HexWords
CONSTANT Cases <- MCCases
INVARIANTS GoldMatches NoRace LaunchSound
