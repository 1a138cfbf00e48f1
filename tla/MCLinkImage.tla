---------------------------- MODULE MCLinkImage -----------------------------
(***************************************************************************)
(* Links for TLC.  Shapes vary the sections: present, absent, empty, of    *)
(* more than a page, aligned to more than a page, and a section .data.x    *)
(* of a linker script after .bss.  Uses vary symbols and relocations on    *)
(* one shape, with names whose hashes collide.                             *)
(***************************************************************************)
EXTENDS LinkImage

Maybe(present, section) == IF present THEN <<section>> ELSE <<>>
\* A size of -1 is a section that is not there.
Opt(name, class, sizeAlign) == Maybe(sizeAlign[1] >= 0, Sized(name, class, sizeAlign[1], sizeAlign[2]))
No == <<-1, 1>>

Outputs(text, rodata, tdata, tbss, data, bss, extra) ==
  Opt(".text", "rx", text) \o Opt(".rodata", "rx", rodata) \o Opt(".init_array", "rx", <<0, 8>>)
    \o Opt(".tdata", "rw", tdata) \o Opt(".tbss", "zero", tbss)
    \o Opt(".data", "rw", data) \o Opt(".bss", "zero", bss) \o Opt(".data.x", "rw", extra)

Plain(type, outputs) ==
  [type |-> type, outputs |-> outputs, syms |-> <<>>, relocs |-> <<>>, imports |-> <<>>,
   needed |-> 0, soname |-> FALSE, strings |-> 1, interp |-> 28, tables |-> 50]

Shapes ==
  {Plain(type, Outputs(text, rodata, tdata, tbss, data, bss, extra)) :
     type \in {"executable", "shared"},
     text \in {<<10, 16>>}, rodata \in {No, <<4096, 4096>>},
     tdata \in {No, <<4, 4>>}, tbss \in {No, <<12, 16>>},
     data \in {No, <<0, 1>>, <<20, 8>>, <<5000, 32>>},
     bss \in {No, <<0, 1>>, <<100, 8192>>}, extra \in {No, <<0, 1>>, <<8, 8>>}}

Rel(sec, off, type, addend, sym) ==
  [sec |-> sec, off |-> off, type |-> type, addend |-> addend, sym |-> sym, inplace |-> 0]
Sym(name, sec, off, global) == [name |-> name, sec |-> sec, off |-> off, global |-> global]

Syms == <<Sym("a", ".data", 8, TRUE), Sym("end", ".bss", 100, TRUE), Sym("f", ".text", 12, TRUE),
          Sym("s", ".data", 0, FALSE), Sym("t", ".tdata", 0, TRUE), Sym("u", ".tbss", 8, TRUE)>>

Calls == {<<>>, <<"p">>, <<"p", "q">>}
MCHash(name) == CASE name \in {"a", "p", "q"} -> 7 [] name = "end" -> 3 [] name = "f" -> 2
                  [] OTHER -> 12

\* One relocation or none of each kind.
Words(type) ==
  {<<>>, <<Rel(".data", 0, "64", 0, "a")>>,
   <<Rel(".data", 0, "64", 0, "s"), Rel(".data", 8, "64", 4, "f")>>}
    \cup (IF type = "executable" THEN {<<Rel(".text", 0, "32", 0, "a")>>} ELSE {})
Near == {<<>>, <<Rel(".text", 12, "pc32", -4, "f"), Rel(".text", 16, "tpoff32", 0, "t")>>,
         <<Rel(".text", 12, "gottpoff", -4, "u"), Rel(".text", 16, "gottpoff", -4, "t"),
           Rel(".text", 20, "tpoff32", 4, "u")>>}

Uses ==
  UNION {{[Plain(type, Outputs(<<40, 16>>, <<3, 1>>, <<4, 4>>, <<20, 16>>, <<24, 8>>, <<100, 32>>, No))
     EXCEPT !.syms = Syms, !.imports = calls, !.soname = soname,
            !.needed = IF calls = <<>> THEN 0 ELSE 1,
            !.relocs = [i \in DOMAIN calls |-> Rel(".text", 4 * i, "plt32", -4, calls[i])] \o abs \o near] :
       abs \in Words(type), near \in Near, soname \in BOOLEAN} :
     type \in {"executable", "pie", "shared"}, calls \in Calls}

\* A 32-bit address in a PIE; a relocation past the end of its section.
Bad == {[Plain(type, Outputs(<<8, 16>>, No, No, No, <<8, 8>>, No, No))
          EXCEPT !.syms = <<Sym("a", ".data", 0, TRUE)>>, !.relocs = <<Rel(".text", off, "32", 0, "a")>>] :
          type \in {"executable", "pie"}, off \in {4, 6}}

\* .tdata and .tbss with every alignment below and above a page.
TlsLinks ==
  {LET t == IF tdata = No THEN <<>> ELSE <<Sym("t", ".tdata", 0, TRUE), Sym("t2", ".tdata", 2, TRUE)>>
       u == IF tbss = No THEN <<>> ELSE <<Sym("u", ".tbss", 8, TRUE)>>
       syms == t \o u
   IN [Plain(type, Outputs(<<40, 16>>, No, tdata, tbss, <<24, 8>>, No, No))
         EXCEPT !.syms = syms,
                !.relocs = [i \in DOMAIN syms |-> Rel(".text", 4 * i, "gottpoff", -4, syms[i].name)]
                             \o [i \in DOMAIN syms |-> Rel(".text", 20 + 4 * i, "tpoff32", 0, syms[i].name)]] :
     type \in {"executable", "pie"}, tdata \in {No, <<4, 4>>, <<4, 8192>>}, tbss \in {No, <<20, 16>>, <<20, 8192>>}}

\* Bits in place, and values on both sides of what 32 bits hold.
Narrow ==
  {[Plain("executable", Outputs(<<8, 16>>, No, <<4, 4>>, No, <<8, 8>>, No, No))
     EXCEPT !.syms = <<Sym("a", ".data", 0, TRUE), Sym("t", ".tdata", 0, TRUE)>>,
            !.imports = <<"p">>, !.needed = 1,
            !.relocs = <<[Rel(".text", 4, use[1], addend, use[2]) EXCEPT !.inplace = inplace]>>] :
     use \in {<<"32", "a">>, <<"32s", "a">>, <<"pc32", "a">>, <<"plt32", "p">>, <<"tpoff32", "t">>, <<"gottpoff", "t">>},
     addend \in {0, 1, -6000000, 6000000, -13000000, 13000000}, inplace \in {0, 3, -4}}

MCLinks == Shapes \cup Uses \cup Bad \cup TlsLinks \cup Narrow
MCImages == {Skeleton(l) : l \in MCLinks}
=============================================================================
