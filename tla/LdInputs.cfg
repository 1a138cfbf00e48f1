SPECIFICATION Spec
CONSTANTS
  Cases <- MCCases
  Names <- MCNames
  StackDepth = 5
  MaxArgs = 4
CHECK_DEADLOCK FALSE
INVARIANTS
  UnitsAsWritten
  FormsMisread
  OverflowOnlyOfCycles
  SectionsAsWritten
