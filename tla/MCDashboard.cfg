SPECIFICATION Spec
CONSTANTS
  Pid = {1, 2}
  LastPort = 1
  Terminal = {1, 2}
  MaxVersion = 1
  MaxCommands = 2
  MaxStrange = 1
CHECK_DEADLOCK FALSE
INVARIANTS
  OneServer
  PortKept
  NoStalePage
PROPERTIES
  NeverUnderATab
  NothingLingers
