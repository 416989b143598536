SPECIFICATION Spec
CONSTANTS
  CODE_BUFFER_SIZE = 4
  CodeLens <- Lengths
  Targets <- Addresses
PROPERTIES
  RunsOnlyItsProgram
