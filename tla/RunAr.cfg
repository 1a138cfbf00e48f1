\* Two invocations at a time, every operation.
SPECIFICATION Spec
CONSTANTS
  Procs = {p1, p2}
  ax = ax  bx = bx  ay = ay  x = x  y = y  f = f  g = g
  Paths <- MCPaths
  Names <- MCNames
  Base <- MCBase
  Symbols = {f, g}
  Defs <- MCDefs
  Ops <- MCOps
  Initial <- MCInitial
  NoFile = NoFile
  BadFile = BadFile
  NoIndex = NoIndex
  NoOp = NoOp
  MaxMembers = 3
INVARIANTS FailedChangesNothing
PROPERTIES UniqueNames OthersUntouched AloneUpdates ReplaceKeepsPlace
