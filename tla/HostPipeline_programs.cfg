SPECIFICATION Spec
CONSTANTS
  PCN = 4
  WORDS = 4
  AddrN = 2
  RegN = 3
CONSTANT Programs <- DriverShaped
CONSTANT Images <- Image
INVARIANT TypeOK
PROPERTY ImplementsISA
