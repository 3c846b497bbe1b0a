SPECIFICATION PortsSpec
CONSTANTS
  Prescale = 3
  Bits = 2
  Sync = 4
  AccessTicks = 2
  Poll = "IF"
  Words = 4
  Lines = {"l1", "l2"}
  NoLine = "none"
  Value = {"a", "b"}
  Undefined = Undefined
  rd_timing = 7
  wr_timing = 7
  page_rd_timing = 3
  ConfigTiming = 12
  ResetCycles = 3
  DataSetup = 2
  Exclusive = TRUE
  height = 2
  RowWords = 2
  WordBits = 2
  ModeBits = 1
  Setup = 1
  Hold = 1
  Low = 1
  ClkBits = 3
  Prescalers = {2, 4}
  DevbootLine = 1
  Ink = {"ink"}
  MaxWrites = 1
INVARIANTS
  I2cCommands
  I2cBusInOrder
  RamKeepsLines
  LcdUpdateShown
PROPERTIES
  LcdWholeLines
  RequestsEnd
