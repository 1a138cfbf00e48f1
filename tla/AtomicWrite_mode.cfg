\* Two processes, one buffer; mode_from = None or an executable; metadata and set_permissions work.
SPECIFICATION Spec
CONSTANTS
  Procs = {p1, p2}
  Data = {d1}
  Default = Default
  Exec = Exec
  Modes <- MCModes
  Absent = Absent
  NoData = NoData
  NoSource = NoSource
  Sources <- MCSources
  Faults <- FaultsButChmod
PROPERTY ModePreserved
