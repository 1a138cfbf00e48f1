----------------------------- MODULE MCAssemble -----------------------------
(* Sources for oxide-as: every small arrangement of conditionals, of macros  *)
(* and repetitions, and of sections, labels and data; and every instruction  *)
(* shape of the encoder with operands at the borders of its fields.          *)
EXTENDS AsmReference

Line(word, s, args) == [label |-> NoLabel, word |-> word, s |-> s, args |-> args]
Directive(word) == Line(word, "", <<>>)
Imm64(lo, hi) == [k |-> "imm", lo |-> lo, hi |-> hi]
Imm(n) == Imm64(n, IF n < 0 THEN -1 ELSE 0)
Sym(form, name, at, add) == [k |-> "sym", form |-> form, name |-> name, at |-> at, add |-> add]
Name(name) == Sym("bare", name, "", 0)
Param(name) == [k |-> "param", name |-> name]
Reg(n, bits) == [k |-> "reg", n |-> n, bits |-> bits, high |-> FALSE]
HighReg(n) == [k |-> "reg", n |-> n, bits |-> 8, high |-> TRUE]
Xmm(n) == [k |-> "xmm", n |-> n]
Mem(disp, base, index, scale) == [k |-> "mem", disp |-> disp, base |-> base, index |-> index, scale |-> scale]

\* Registers: plain, those whose byte form needs REX, those that need REX.B or a SIB byte.
Regs(bits) == {Reg(n, bits) : n \in {0, 4, 5, 13}} \cup IF bits = 8 THEN {HighReg(7)} ELSE {}
Mems == {Mem(0, 3, NoReg, 1), Mem(0, 5, NoReg, 1), Mem(0, 13, NoReg, 1), Mem(0, 12, NoReg, 1), Mem(8, 4, NoReg, 1),
         Mem(-128, 0, NoReg, 1), Mem(127, 9, 12, 2), Mem(128, 5, 0, 8), Mem(-129, 13, 13, 4), Mem(64, NoReg, 10, 4)}
SomeMems == {Mem(0, 3, NoReg, 1), Mem(-129, 13, 13, 4), Mem(8, 4, NoReg, 1)}
Imms(bits) ==
  {Imm(0), Imm(1), Imm(-1), Imm(127), Imm(-128)}
    \cup (IF bits >= 16 THEN {Imm(128), Imm(-129)} ELSE {})
    \cup (IF bits >= 32 THEN {Imm(65537)} ELSE {})
    \cup (IF bits = 64 THEN {Imm64(-1, 0), Imm64(0, 1), Imm64(-2, -2)} ELSE {})
SizeSuffixes == {"", "b", "w", "l", "q"}
Bits(s) == WidthOf(s)
Places == {Sym(form, "f", "", 0) : form \in {"bare", "rip", "indexed", "dollar"}}
SymbolOperands ==
  Places \cup {Sym("rip", "f", "", -2), Sym("rip", "f", "", 2), Sym("rip", "puts", "", 0),
               Sym("rip", "puts", "gottpoff", 0), Sym("rip", "puts", "GOTPCREL", 0), Sym("dollar", "puts", "tpoff", 0)}
Insns(stems, suffixes, operands(_)) ==
  UNION {{Line(m, s, ops) : ops \in operands(s)} : <<m, s>> \in stems \X suffixes}

TwoOperands(s) ==
  LET w == Bits(s)
  IN {<<a, b>> : a \in Regs(w), b \in Regs(w) \cup Mems} \cup {<<a, b>> : a \in Mems, b \in Regs(w)}
     \cup {<<a, b>> : a \in Imms(w), b \in Regs(w) \cup SomeMems}
MovOperands(s) ==
  TwoOperands(s) \cup {<<a, b>> : a \in SymbolOperands, b \in {Reg(0, Bits(s)), Reg(9, Bits(s))}}
                 \cup {<<b, a>> : a \in SymbolOperands, b \in {Reg(0, Bits(s)), Reg(9, Bits(s))}}
LeaOperands(s) == {<<a, b>> : a \in Mems \cup SymbolOperands, b \in {Reg(0, Bits(s)), Reg(13, Bits(s))}}
OneOperand(s) == {<<a>> : a \in Regs(Bits(s)) \cup Mems}
StackOperands(s) == OneOperand(s) \cup {<<a>> : a \in Imms(64)} \cup {<<>>}
ShiftOperands(s) == {<<a, b>> : a \in {Imm(1), Imm(3), Reg(1, 8)}, b \in Regs(Bits(s))}
ImulOperands(s) ==
  OneOperand(s) \cup {<<a, b>> : a, b \in Regs(Bits(s))} \cup {<<i, a, b>> : i \in Imms(Bits(s)), a, b \in {Reg(1, Bits(s)), Reg(12, Bits(s))}}
JumpOperands(s) ==
  {<<Sym("bare", "f", "", a)>> : a \in {0, 4, -4}} \cup {<<Sym("bare", "puts", at, 0)>> : at \in {"", "PLT"}}
    \cup {<<Sym("star", "f", "", 0)>>, <<Sym("local", "f", "", 0)>>, <<Reg(0, 64)>>, <<Reg(12, 64)>>}
XmmMem == {<<a, b>> : a \in {Xmm(0), Xmm(9)} \cup SomeMems, b \in {Xmm(0), Xmm(9)}} \cup {<<Xmm(9), b>> : b \in SomeMems}
CvtFrom(s) == {<<a, b>> : a \in {Reg(0, 32), Reg(9, 32), Reg(0, 64)} \cup SomeMems, b \in {Xmm(0), Xmm(9)}}
CvtTo(s) == {<<a, b>> : a \in {Xmm(0), Xmm(9)} \cup SomeMems, b \in {Reg(0, 32), Reg(9, 32), Reg(0, 64)}}
AllInsns ==
  {Line(m, "", <<>>) : m \in DOMAIN FixedBytes}
    \cup Insns({"add"}, SizeSuffixes, TwoOperands) \cup Insns({"test", "xchg"}, SizeSuffixes, TwoOperands)
    \cup {Line(m, "l", <<Reg(1, 32), Reg(2, 32)>>) : m \in DOMAIN Alu}
    \cup Insns({"mov"}, SizeSuffixes, MovOperands) \cup Insns({"lea"}, {"", "w", "l", "q"}, LeaOperands)
    \cup Insns(DOMAIN Unary, SizeSuffixes, OneOperand) \cup Insns({"push", "pop"}, {"", "w", "q"}, StackOperands)
    \cup Insns(DOMAIN Shift, SizeSuffixes, ShiftOperands) \cup Insns({"imul"}, SizeSuffixes, ImulOperands)
    \cup Insns({"call"}, {"", "q"}, JumpOperands) \cup Insns({"jmp"}, {"", "q"}, JumpOperands)
    \cup Insns({"j"}, {"e", "nbe"}, JumpOperands) \cup {Line("j", s, <<Name("f")>>) : s \in DOMAIN JccOpcode}
    \cup Insns({"set"}, DOMAIN SetccOpcode, LAMBDA s : {<<Reg(1, 8)>>, <<Reg(6, 8)>>, <<HighReg(4)>>, <<Mem(0, 3, NoReg, 1)>>})
    \cup {Line("int", "", <<Imm(3)>>), Line("int", "", <<Imm(128)>>)}
    \cup Insns(SseMnemonics, {""}, LAMBDA s : XmmMem)
    \cup Insns(DOMAIN Cvtsi2s, {"", "l", "q"}, CvtFrom) \cup Insns(DOMAIN Cvttx2si, {"", "l", "q"}, CvtTo)

\* Conditionals; one macro with a parameter and a default, and a second one; repetitions.
CondLines ==
  {Line(".if", "", <<Name("A")>>), Line(".ifdef", "", <<Name("A")>>), Directive(".else"), Directive(".endif"),
   Line(".equ", "", <<Name("A"), Imm(1)>>), Directive("nop")}
Undefined(first) ==
  <<first, Line(".ifndef", "", <<Name("A")>>), Directive("nop"), Directive(".else"), Line(".equ", "", <<Name("B"), Name("A")>>),
    Line(".if", "", <<Name("B")>>), Directive("ret"), Directive(".endif"), Directive(".endif"), Line(".ifdef", "", <<Name("B")>>)>>
Macro(name, default) ==
  Line(".macro", "", <<[k |-> "macro", name |-> name, params |-> <<[name |-> "x", default |-> default]>>]>>)
MacroLines ==
  {Directive(".endm"), Line(".rept", "", <<Param("x")>>), Line(".rept", "", <<Imm(2)>>), Directive(".endr"),
   Line("m", "", <<Imm(0)>>), Line("push", "", <<Param("1")>>), Macro("m", Imm(2))}
TwoMacros(lines) ==
  <<Macro("m", Imm(1))>> \o lines \o
  <<Directive(".endm"), Macro("n", Imm(1)), Line("m", "", <<Param("x")>>), Directive(".endm"), Line("n", "", <<Imm(0)>>),
    Directive("m")>>
Repeats2(body) ==
  <<Line(".rept", "", <<Imm(2)>>), Line(".rept", "", <<Imm(2)>>)>> \o body \o <<Directive(".endr"), Directive("nop"), Directive(".endr")>>
TwoMacroLines ==
  {Directive("n"), Line("push", "", <<Param("x")>>), Line(".if", "", <<Param("x")>>), Directive(".endif"), Directive(".else")}
Expansions ==
  BoundedSeq(CondLines, 3) \cup {Undefined(first) : first \in CondLines}
    \cup {<<Line(".if", "", <<Name("A")>>)>> \o lines \o <<Directive(".endif")>> : lines \in BoundedSeq(CondLines, 4)}
    \cup {<<Macro("m", Imm(2))>> \o lines : lines \in BoundedSeq(MacroLines, 4)}
    \cup {Repeats2(body) : body \in BoundedSeq({Directive("ret"), Macro("m", Imm(2)), Directive(".endm"), Line("m", "", <<>>)}, 3)}
    \cup {TwoMacros(lines) : lines \in BoundedSeq(TwoMacroLines, 3)}

\* Sections, labels, globals and data in every order.
LabelLine(name) == [label |-> name, word |-> "", s |-> "", args |-> <<>>]
LayoutLines ==
  {Directive(".text"), Directive(".bss"), LabelLine("f"), Line(".globl", "", <<Name("f")>>), Line(".zero", "", <<Imm(3)>>),
   Line(".align", "", <<Imm(4)>>), Line(".long", "", <<Imm(1)>>), Line("call", "", <<Name("f")>>)}
Dot(add) == [k |-> "here", add |-> add]
Str(chars) == [k |-> "str", chars |-> chars]
DataItems == {Imm(-1), Name("f"), Name("A"), Sym("bare", "f", "-g", 0), Sym("bare", "puts", "", -1), Dot(0), Dot(4)}
Strings == BoundedSeq({"a", " ", "#", "\\n", "\\033"}, 2) \cup {<<c>> : c \in {"//", "/*", "\\0", "e-acute"}}
DataLines ==
  {Line(word, "", <<a, b>>) : word \in {".byte", ".word", ".long", ".quad"}, a, b \in DataItems}
    \cup {Line(word, "", <<Str(chars)>>) : word \in {".ascii", ".asciz"}, chars \in Strings}
    \cup {Line(word, "", <<Str(chars), Str(<<"a">>)>>) : word \in {".ascii", ".asciz"}, chars \in Strings}
EquateUses ==
  {Line("mov", "q", <<Sym("dollar", "A", "", 0), Reg(0, 64)>>), Line("add", "l", <<Sym("dollar", "A", "", 0), Reg(0, 32)>>),
   Line("mov", "l", <<Name("A"), Reg(0, 32)>>), Line("jmp", "", <<Name("A")>>), Line("push", "q", <<Sym("dollar", "A", "", 0)>>)}
Equates == {Line(".equ", "", <<Name("A"), Imm(7)>>), Line(".set", "", <<Name("A"), Imm(-200)>>)}
Layouts ==
  BoundedSeq(LayoutLines, 4)
    \cup {<<section, first, line, LabelLine("f"), Line(".equ", "", <<Name("A"), Imm(5)>>), Line("call", "", <<Name("f")>>), LabelLine("g")>> :
            section \in {Directive(".rodata"), Line(".section", "", <<Name(".init_array")>>)},
            first \in {Line(".byte", "", <<Imm(1)>>), Line(".p2align", "", <<Imm(1)>>)}, line \in DataLines}
    \cup {<<a, use, b, use>> : a, b \in Equates \cup {Directive("nop")}, use \in EquateUses}

Instructional == {<<i, [Directive("nop") EXCEPT !.label = "f"]>> : i \in AllInsns}
MCSources == Expansions \cup Layouts \cup Instructional
MCSectionNames == <<".bss", ".data", ".init_array", ".rodata", ".text">>
MCElsewhere == [puts |-> 2097152]
=============================================================================
