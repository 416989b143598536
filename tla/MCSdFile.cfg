SPECIFICATION Spec
CONSTANTS
  prog = prog  data = data  bin = bin
  Files <- OpenFiles
  Dirs <- Directories
  Chain <- Chains
  FileSize <- Sizes
  BytesPerSector = 3
  SectorsPerCluster = 2
  ClustersPerFatSector = 4
  DataStart = 2
  ReadSizes <- Reads
  MaxFaults = 2
INVARIANTS
  TypeOK
  ClusterRight
  ReadsTheFile
PROPERTIES
  OnlyThatSector
