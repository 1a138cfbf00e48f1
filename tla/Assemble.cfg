SPECIFICATION Spec
CONSTANTS
  Sources <- MCSources
  SectionNames <- MCSectionNames
  Elsewhere <- MCElsewhere
  MaxLines = 24
CHECK_DEADLOCK FALSE
INVARIANTS
  ExpandsAsMeant
  InsnsMeanWhatTheySay
  DataAsWritten
  LabelsMarkTheirPlace
PROPERTIES
  Ends
