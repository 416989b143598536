SPECIFICATION Spec
CONSTANTS
  s1 = s1  s2 = s2
  Sleepers <- Tasks
  M = 8
  Units <- Bits
  Times <- Naps
  MaxSlept = 9
INVARIANT NotLate
PROPERTY NotEarly
