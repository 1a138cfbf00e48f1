\* Sections of all shapes, symbols and relocations of all kinds.
SPECIFICATION Spec
CONSTANTS
  Images <- MCImages
  Links <- MCLinks
  Hash <- MCHash
  Half32 = 8388608
INVARIANTS MemoryApart FilePlaced Loadable
  CallsArrive SymbolsFound TlsVariablesFound WordsAsMeant
PROPERTY ImplementsLayout
