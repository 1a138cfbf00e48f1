----------------------------- MODULE MCLdInputs -----------------------------
(* Command lines of up to three arguments, or four that search libraries,    *)
(* over three trees of files, and links of one object under linker scripts   *)
(* broken into lines in every way.                                           *)
EXTENDS LdInputs

CONSTANTS MaxArgs

Arg(opt, val) == [opt |-> opt, val |-> val]
Kind_(kind) == [kind |-> kind, members |-> <<>>, lines |-> <<>>]
Group(members) == [kind |-> "group", members |-> members, lines |-> <<>>]
Script(lines) == [kind |-> "text", members |-> <<>>, lines |-> lines]

Tree1 ==
  ("a.o" :> Kind_("object")) @@ ("d/liba.a" :> Kind_("archive")) @@ ("d/libc.so" :> Group(<<File("d/libd.so"), File("a.o"), Lib("a")>>))
  @@ ("d/libd.so" :> Kind_("shared")) @@ ("s/lib/liba.so" :> Kind_("shared")) @@ ("s/lib/liba.a" :> Kind_("archive"))
  @@ ("e" :> Kind_("text"))
Tree2 ==
  ("a.o" :> Kind_("object")) @@ ("d/liba.so" :> Group(<<File("g"), File("a.o")>>)) @@ ("g" :> Group(<<File("d/libc.so"), File("none")>>))
  @@ ("d/libc.so" :> Group(<<File("g")>>)) @@ ("s/usr/lib/libc.a" :> Group(<<File("e"), File("a.o")>>)) @@ ("e" :> Kind_("dir"))
Tree3 ==
  ("a.o" :> Group(<<File("g"), File("g")>>)) @@ ("g" :> Group(<<Lib("a"), File("o")>>)) @@ ("o" :> Kind_("object"))
  @@ ("s/lib/liba.a" :> Kind_("archive")) @@ ("d/liba.a" :> Group(<<File("o")>>)) @@ ("d/libc.so" :> Kind_("shared"))
  @@ ("e" :> Kind_("object"))
Argument ==
  {Arg("-L", "d"), Arg("-L", ""), Arg("-l", "a"), Arg("-l", "c"), Arg("-l", ""), Arg("--sysroot", "s"), Arg("-static", ""),
   Arg("", "a.o"), Arg("", "e"), Arg("-m", ""), Arg("-z", ""), Arg("-o", "e")}
Others == {<<Arg("--help", ""), Arg("", "a.o")>>, <<Arg("-T", "none"), Arg("", "a.o")>>, <<Arg("", "a.o"), Arg("-T", "")>>, <<Arg("", "a.o"), Arg("", "")>>,
           <<Arg("-T", ""), Arg("", "none"), Arg("", "a.o")>>,
           <<Arg("-pie", ""), Arg("-shared", ""), Arg("-no-pie", ""), Arg("-no-dynamic-linker", ""), Arg("-I", ""),
             Arg("", "ld"), Arg("-soname", "x"), Arg("-e", ""), Arg("", "main"), Arg("", "a.o"), Arg("-o", ""), Arg("", "out")>>}
Search == {Arg("-L", "d"), Arg("-l", "a"), Arg("-l", "c"), Arg("--sysroot", "s"), Arg("-static", "")}
Argvs == {a \in SeqOf(Argument, MaxArgs - 1) \cup SeqOf(Search, MaxArgs) : \E k \in DOMAIN a : a[k].opt \in {"", "-l"}}

\* Scripts: two output sections, in every layout of lines.
Open == Punct("{")
Close == Punct("}")
Colon == Punct(":")
AnyFile == Punct("*(")
Dot(name) == Pat(<<".", name>>, FALSE)
Star(pat) == [pat EXCEPT !.lead = TRUE]
Section(name, patterns) == <<name, Colon, Open, AnyFile>> \o patterns \o <<Punct(")"), Close>>
Blocks ==
  {<<Section(Dot("text"), <<Dot("text"), Pat(<<".", "text", ".">>, TRUE)>>),
     Section(Dot("data"), <<Dot("data"), Pat(<<".", "rodata", ".">>, TRUE)>>)>>,
   <<Section(Dot("hot"), <<Pat(<<".", "text", ".", "hot">>, FALSE), Pat(<<".", "data">>, TRUE)>>),
     Section(Dot("rest"), <<Pat(<<".", "text">>, TRUE)>>)>>,
   <<Section(Pat(<<"/DISCARD/">>, FALSE), <<Star(Dot("hot")), Dot("comment"), Star(Dot("rel"))>>),
     Section(Dot("all"), <<Pat(<<"foo">>, TRUE), Dot("data"), Pat(<<"COMMON">>, FALSE), Pat(<<>>, TRUE)>>)>>}
Cut(tokens, breaks) ==   \* the lines that end before the tokens of breaks
  LET at == SelectSeq([k \in 1..(Len(tokens) + 1) |-> k], LAMBDA k : k \in breaks \cup {1, Len(tokens) + 1})
  IN [l \in 1..(Len(at) - 1) |-> SubSeq(tokens, at[l], at[l + 1] - 1)]
Layouts(blocks) ==
  LET head   == <<Punct("SECTIONS"), Open>>
      tokens == head \o blocks[1] \o blocks[2] \o <<Close>>
      second == 3 + Len(blocks[1])
      \* a line may end before an output section, after its brace, before its last brace
      places == {3, 6, second - 1, second, second + 3, second + 5, Len(tokens) - 1, Len(tokens)}
  IN {Cut(tokens, breaks) : breaks \in SUBSET places}
Scripts ==
  UNION {Layouts(b) : b \in Blocks}
  \cup {<<<<Punct("ENTRY"), Pat(<<"main">>, FALSE)>>>>, <<>>}
  \cup {<<<<Punct("ENTRY"), Pat(<<"main">>, FALSE)>>>> \o l : l \in {CHOOSE x \in Layouts(b) : TRUE : b \in Blocks}}
MCCases ==
  {[argv |-> a, disk |-> d] : a \in Argvs \cup Others, d \in {Tree1, Tree2, Tree3}}
  \cup {[argv |-> <<Arg("-T", "x.ld"), Arg("", "a.o")>>, disk |-> ("a.o" :> Kind_("object")) @@ ("x.ld" :> Script(s))] : s \in Scripts}
MCNames == {<<".", "text">>, <<".", "text", ".", "hot">>, <<".", "text", "ual">>, <<".", "data">>, <<".", "data", "1">>,
            <<".", "data", ".", "rel">>, <<".", "rodata">>, <<".", "rodata", ".", "str">>, <<".", "init_array">>,
            <<".", "comment">>, <<".", "hot">>, <<"foo">>, <<"COMMON">>}
=============================================================================
