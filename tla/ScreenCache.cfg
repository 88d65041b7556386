\* Every query and every mutation that changes what it shows.
SPECIFICATION Spec
CONSTANTS
  Writes = 2
CHECK_DEADLOCK FALSE
INVARIANTS
  TypeOK
  ShowsOwnWrites
PROPERTIES
  OwnWriteComesToShow
