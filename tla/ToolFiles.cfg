SPECIFICATION Spec
CONSTANTS
  Runs = {r1, r2}
  Commands <- MCCommands
  Disks <- MCDisks
CHECK_DEADLOCK FALSE
INVARIANTS
  NoTempLeft
PROPERTIES
  VersionsAsAsked
