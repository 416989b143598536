SPECIFICATION FairSpec
CONSTANTS
  SP_HEADER_SIZE = 2
  CRC_SIZE = 1
  HAL_RX_RAW_SIZE = 4
  RING_SIZE = 2
  Lengths <- PacketLengths
  MaxPackets = 3
  MaxFaults = 1
CHECK_DEADLOCK FALSE
INVARIANTS
  TypeOK
  NothingBehindPacket
  InStepIsDelivered
  DamageIsContained
PROPERTIES
  ImplementsLossyLine
  CleanLineDelivers
