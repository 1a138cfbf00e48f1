\* The same files: a stripped relocatable object loses what it is made of.
SPECIFICATION Spec
CONSTANTS
  Elfs <- MCElfs
  Options <- MCOptions
INVARIANT RelocatableKept
