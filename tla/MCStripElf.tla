----------------------------- MODULE MCStripElf -----------------------------
(***************************************************************************)
(* ELF files for TLC: the null section, .text and .bss, then up to three   *)
(* other sections and the table of section names in any order, one after   *)
(* the other; executables, relocatable objects and broken files.           *)
(***************************************************************************)
EXTENDS StripElf, Sequences, SequencesExt

Loose1 == {"symtab", "strtab", "rela", "debug", "group", "nobits"}
\* "names" is the table of section names; "both" is one that is .strtab too.
Orders ==
  {q \in UNION {[1..n -> Loose1 \cup {"names", "both"}] : n \in 1..4} :
     /\ \A i, j \in DOMAIN q : q[i] = q[j] => i = j
     /\ Cardinality({i \in DOMAIN q : q[i] \in {"names", "both"}}) = 1}

Size(kind) == CASE kind \in {"symtab", "rela"} -> 24 [] kind = "debug" -> 3
                [] kind = "group" -> 0 [] OTHER -> 5
Align(kind) == CASE kind = "rela" -> 8 [] kind = "symtab" -> 16 [] kind = "debug" -> 0
                 [] OTHER -> 1
Kind(kind) == CASE kind = "names" -> "other" [] kind = "both" -> "strtab" [] OTHER -> kind

\* The number of the section of one of these kinds, or 0.
Find(q, kinds) ==
  LET at == {i \in DOMAIN q : q[i] \in kinds} IN
  IF at = {} THEN 0 ELSE 2 + CHOOSE i \in at : \A j \in at : i <= j

TextAt(exec) == IF exec THEN 128 ELSE 64
TextSize == 10
Offset(q, exec, i) ==
  FoldLeft(LAMBDA off, kind : off + Size(kind), TextAt(exec) + TextSize, SubSeq(q, 1, i - 1))

Entry(kind, alloc, off, size, align, link, info) ==
  [kind |-> kind, alloc |-> alloc, off |-> off, size |-> size, align |-> align,
   link |-> link, info |-> info]

File(q, exec, ok) ==
  LET n   == Len(q) + 3
      end == Offset(q, exec, Len(q) + 1)
  IN [ok |-> ok, is64 |-> TRUE, n |-> n, shoff |-> end, len |-> end + n * 64,
      ends |-> IF exec THEN {120, 128 + TextSize} ELSE {0},
      shstr |-> Find(q, {"names", "both"}),
      secs |-> [i \in 0..(n - 1) |->
        CASE i = 0 -> Entry("null", FALSE, 0, 0, 0, 0, 0)
          [] i = 1 -> Entry("other", TRUE, TextAt(exec), TextSize, 16, 0, 0)
          [] i = 2 -> Entry("nobits", TRUE, TextAt(exec) + TextSize, 100, 16, 0, 0)
          [] OTHER ->
               LET kind == q[i - 2] IN
               Entry(Kind(kind), FALSE, Offset(q, exec, i - 2), Size(kind), Align(kind),
                     CASE kind = "symtab" -> Find(q, {"strtab", "both"})
                       [] kind \in {"rela", "group"} -> Find(q, {"symtab"})
                       [] OTHER -> 0,
                     CASE kind = "rela" -> IF Find(q, {"debug"}) # 0 THEN Find(q, {"debug"}) ELSE 1
                       [] kind = "symtab" -> 2
                       [] OTHER -> 0)]]

Broken == File(<<"names", "debug">>, TRUE, FALSE)
\* The header table, or a section, ends after the file; no sections; a wrong
\* e_shstrndx.
CutOff   == [File(<<"names", "debug">>, TRUE, TRUE) EXCEPT !.len = 300]
CutData  == [File(<<"debug", "names">>, TRUE, TRUE) EXCEPT !.shoff = 64, !.len = 400,
                                                      !.secs[4].off = 398]
NoHeads  == [File(<<"names">>, TRUE, TRUE) EXCEPT !.n = 0, !.secs = [i \in {} |-> 0]]
NoNames  == [File(<<"names", "symtab">>, TRUE, TRUE) EXCEPT !.shstr = 9]
Narrow   == [File(<<"debug", "names", "rela">>, TRUE, TRUE) EXCEPT !.is64 = FALSE]

MCElfs == {File(q, exec, TRUE) : q \in Orders, exec \in BOOLEAN}
            \cup {Broken, CutOff, CutData, NoHeads, NoNames, Narrow}
MCOptions == {{}, {"debug"}, {"unneeded"}, {"debug", "unneeded"}, {"all"}}
=============================================================================
