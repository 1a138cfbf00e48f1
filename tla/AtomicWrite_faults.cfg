\* Two processes, two buffers; every system call may fail.  One mode: AtomicWrite_mode is about modes.
SPECIFICATION Spec
CONSTANTS
  Procs = {p1, p2}
  Data = {d1, d2}
  Default = Default
  Modes = {Default}
  Exec = Exec
  Absent = Absent
  NoData = NoData
  NoSource = NoSource
  Sources = {NoSource}
  Faults <- AllFaults
INVARIANTS TypeOK NeverTorn OkLeavesNoTemp
PROPERTY ImplementsAtomicFile
