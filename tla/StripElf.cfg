\* Executables, relocatable objects and broken files; the options alone and combined.
SPECIFICATION Spec
CONSTANTS
  Elfs <- MCElfs
  Options <- MCOptions
INVARIANTS BytesKept NoOverlap LinksFollow
