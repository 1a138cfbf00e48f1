\* Every archive of at most three members of MCMembers, with and without index.
SPECIFICATION Spec
CONSTANTS
  short = short  fits = fits  long = long  other = other  f = f  g = g  h = h
  Names = {short, fits, long, other}
  NameLen <- MCNameLen
  Symbols = {f, g, h}
  BlobLen <- MCBlobLen
  Archives <- MCArchives
  Overlong <- MCOverlong
  Wrap = 65536
INVARIANTS RoundTrip IndexResolves
