------------------------------ MODULE MCRunAr -------------------------------
(* Two source directories with a file of the same name, and a second file. *)
EXTENDS RunAr, TLC
CONSTANTS ax, bx, ay, x, y, f, g
MCPaths == {ax, bx, ay}
MCNames == {x, y}
MCBase == ax :> x @@ bx :> x @@ ay :> y
MCDefs == ax :> {f} @@ bx :> {f, g} @@ ay :> {g}

Line(key, args) == [key |-> key, args |-> args]

\* Every operation, alone and combined, two files of one name, and a key
\* without operation.
MCOps == {
  Line({"r", "c"}, <<ay, bx>>), Line({"d"}, <<ax>>), Line({"q"}, <<ay>>),
  Line({"x", "r"}, <<ax>>), Line({"d", "r"}, <<bx, ay>>), Line({"t", "s"}, <<>>),
  Line({"s"}, <<>>), Line({"c"}, <<>>)}

Plain(ms) == [members |-> ms, index |-> NoIndex]
M(a) == NewMember(a)
\* Two members of one name, and what is no archive.
MCInitial == {NoFile, BadFile, Plain(<<M(ax), M(ay), M(bx)>>)}
=============================================================================
