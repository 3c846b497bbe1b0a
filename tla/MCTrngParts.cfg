SPECIFICATION PartsSpec
CONSTANTS
  W = 3
  MaxBlocks = 2
  PollFirst = TRUE
INVARIANTS
  TypeOK
  CheckedReadIsValid
  BufferCountsItsWords
  NoBlockSkipped
  OneBlockInFlight
PROPERTIES
  FreshWords
  PortsRefilled
  RefillCompletes
