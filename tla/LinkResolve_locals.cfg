\* Two objects with a local symbol of the same name.
SPECIFICATION Spec
CONSTANTS
  f = f  g = g  end = end  start = start
  main = main  defF = defF  weakF = weakF  localF = localF  lostF = lostF
  callsG = callsG  addrF = addrF  lib1 = lib1  lib2 = lib2
  Names <- MCNames
  ArrayNames = {start}
  EdgeNames = {end}
  Objects <- MCObjects
  Symtab <- MCSymtab
  Relocs <- MCRelocs
  Anchored = {main, defF, addrF}
  Libs = {lib1, lib2}
  Exports <- MCExports
  Undef = Undef
  Inputs <- MCInputs
INVARIANT LocalsBindHome
