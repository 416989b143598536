SPECIFICATION Spec
CONSTANTS
  CODE_BUFFER_SIZE = 4
  CodeLens <- Lengths
  Targets <- Addresses
INVARIANTS
  TypeOK
  StreamInv
PROPERTIES
  ImplementsProgramFetch
