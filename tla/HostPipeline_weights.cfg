SPECIFICATION Spec
CONSTANTS
  PCN = 4
  WORDS = 4
  AddrN = 2
  RegN = 3
CONSTANT Programs <- JumpBehind
CONSTANT Images <- Image
PROPERTY ImplementsISA
