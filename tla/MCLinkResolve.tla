---------------------------- MODULE MCLinkResolve ----------------------------
(* Objects and command lines for TLC. *)
EXTENDS LinkResolve

CONSTANTS f, g, end, start, main, defF, weakF, localF, lostF, callsG, addrF,
          lib1, lib2

MCNames == {f, g, end, start}

\* Symbol tables and relocations, from lists of entries.
Table(entries) ==
  [n \in MCNames |-> IF n \in DOMAIN entries THEN entries[n]
                     ELSE [bind |-> "none", kept |-> TRUE]]
One(n, b, kept) == [m \in {n} |-> [bind |-> b, kept |-> kept]]
Rel(n, kind) == [name |-> n, kind |-> kind, kept |-> TRUE]

MCObjects == {main, defF, weakF, localF, lostF, callsG, addrF}

MCSymtab == [o \in MCObjects |-> Table(
  CASE o = defF   -> One(f, "global", TRUE)
    [] o = weakF  -> One(f, "weak", TRUE)
    [] o = localF -> One(f, "local", TRUE)
    [] o = lostF  -> One(f, "global", FALSE)     \* in a discarded section
    [] o = callsG -> One(g, "global", TRUE)
    [] o = addrF  -> One(end, "global", TRUE)    \* the program's own `end`
    [] OTHER      -> [m \in {} |-> 0])]

MCRelocs == [o \in MCObjects |->
  CASE o = main   -> {Rel(f, "PLT32")}
    [] o = defF   -> {Rel(g, "PLT32"), Rel(start, "R64")}
    [] o = weakF  -> {}
    [] o = localF -> {Rel(f, "PC32")}
    [] o = lostF  -> {Rel(f, "PLT32")}
    [] o = callsG -> {Rel(f, "PLT32"), [name |-> g, kind |-> "PC32", kept |-> FALSE]}
    [] o = addrF  -> {Rel(end, "R64"), Rel(f, "R32")}]

MCExports == [l \in {lib1, lib2} |-> IF l = lib1 THEN {f} ELSE {f, g}]

\* Command lines of up to two plain inputs and an archive of up to two members
\* before, between or after them, and two shared objects after a program.
Plain == [obj : MCObjects] \cup [lib : {lib1, lib2}]
Plains == {<<p>> : p \in Plain} \cup {<<p, q>> : p, q \in Plain}
Archives == {<<[members |-> <<a>>]>> : a \in MCObjects}
              \cup {<<[members |-> <<a, b>>]>> : a, b \in MCObjects}
Lines == Plains \cup {a \o p : a \in Archives, p \in Plains}
           \cup {<<p>> \o a \o <<q>> : a \in Archives, p, q \in Plain}
           \cup {<<[obj |-> main]>> \o <<p, q>> : p, q \in [lib : {lib1, lib2}]}

MCInputs == [units : Lines, type : Types]
=============================================================================
