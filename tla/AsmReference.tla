---------------------------- MODULE AsmReference ----------------------------
(* What an oxide-as source means, and what the assembler promises of it.     *)
(* Conditionals, macros and repetitions are given their meaning block by     *)
(* block; instructions through the decoder of X86Decode, on the object       *)
(* linked by the ELF ABI's relocations; data by its values.                  *)
EXTENDS AsmObject, X86Decode, Relation

CONSTANT
  Elsewhere    \* name |-> address of the symbols that other objects define

----------------------------------------------------------------------------
(* Expansion, for sources whose blocks nest. *)
Opens == {".if", ".ifdef", ".ifndef", ".rept", ".macro"}
Conditions == {".if", ".ifdef", ".ifndef"}
Closes(opener) == IF opener \in Conditions THEN ".endif" ELSE IF opener = ".rept" THEN ".endr" ELSE ".endm"
AllCloses == {".endif", ".endr", ".endm"}
Depth(lines, i) ==
  Len(SelectSeq(SubSeq(lines, 1, i), LAMBDA l : FirstWord(l) \in Opens))
    - Len(SelectSeq(SubSeq(lines, 1, i), LAMBDA l : FirstWord(l) \in AllCloses))
\* The index of the line that closes the block opened by the line at i.
Closer(lines, i) ==
  LET ends == {j \in i..Len(lines) : Depth(lines, j) < Depth(lines, i)}
  IN IF ends = {} THEN 0 ELSE Min(ends)
Elses(lines, i) ==
  {j \in i..Closer(lines, i) : FirstWord(lines[j]) = ".else" /\ Depth(lines, j) = Depth(lines, i)}
WellNested(lines) ==
  /\ \A i \in DOMAIN lines : Depth(lines, i) >= 0
  /\ \A i \in DOMAIN lines : FirstWord(lines[i]) \in Opens =>
       LET c == Closer(lines, i)
       IN c # 0 /\ FirstWord(lines[c]) = Closes(FirstWord(lines[i]))
            /\ Cardinality(Elses(lines, i)) <= IF FirstWord(lines[i]) \in Conditions THEN 1 ELSE 0
  /\ \A j \in DOMAIN lines : FirstWord(lines[j]) = ".else" =>
       \E i \in 1..j : FirstWord(lines[i]) \in Conditions /\ j \in Elses(lines, i)

\* The macros that lines declare, with their bodies, and who invokes whom.
Declared(lines) ==
  {<<lines[i].args[1].name, SubSeq(lines, i + 1, i - 1 + CaptureUntil(SubSeq(lines, i + 1, Len(lines)), ".macro", ".endm"))>> :
     i \in {j \in DOMAIN lines : FirstWord(lines[j]) = ".macro"}}
SelfInvoking(lines) ==
  LET names == {d[1] : d \in Declared(lines)}
      invokes == [p \in names \X names |->
        \E d \in Declared(lines) : d[1] = p[1] /\ \E i \in DOMAIN d[2] : FirstWord(d[2][i]) \o d[2][i].s = p[2]]
  IN \E n \in names : TransitiveClosure(invokes, names)[n, n]

NumberIn(env, arg) ==
  IF arg.k = "imm" THEN arg.lo
  ELSE IF arg.k = "sym" /\ arg.name \in DOMAIN env.values THEN env.values[arg.name] ELSE 0
Holds(env, line) ==
  CASE line.word = ".if"     -> NumberIn(env, line.args[1]) # 0
    [] line.word = ".ifdef"  -> line.args[1].name \in env.names
    [] line.word = ".ifndef" -> line.args[1].name \notin env.names
Filled(body, params, args) ==
  LET Value(i) == IF i \in DOMAIN args /\ args[i] # Nothing THEN args[i] ELSE params[i].default
      Of(o) == IF o.k = "param" /\ \E i \in DOMAIN params : o.name \in {params[i].name, ToString(i)}
               THEN Value(CHOOSE i \in DOMAIN params : o.name \in {params[i].name, ToString(i)}) ELSE o
  IN [i \in DOMAIN body |-> [body[i] EXCEPT !.args = [j \in DOMAIN @ |-> Of(@[j])]]]

RECURSIVE Meant(_, _)
\* The environment after lines: the lines that remain for the assembler, names, values, macros.
Meant(lines, env) ==
  IF lines = <<>> THEN env ELSE
  LET line   == Head(lines)
      word   == FirstWord(line)
      c      == Closer(lines, 1)
      inside == SubSeq(lines, 2, c - 1)
      after  == SubSeq(lines, c + 1, Len(lines))
      kept   == [env EXCEPT !.out = Append(@, line)]
  IN CASE word \in Conditions ->
            LET e   == IF Elses(lines, 1) = {} THEN c ELSE Min(Elses(lines, 1))
                yes == SubSeq(lines, 2, e - 1)
                no  == SubSeq(lines, e + 1, c - 1)
            IN Meant(after, Meant(IF Holds(env, line) THEN yes ELSE no, env))
       [] word = ".rept" ->
            LET n == NumberIn(env, line.args[1])
            IN Meant(FlattenSeq([i \in 1..n |-> inside]) \o after, env)
       [] word = ".macro" ->
            LET decl == line.args[1]
            IN Meant(after, [env EXCEPT !.names = @ \cup {decl.name},
                                        !.macros = (decl.name :> [params |-> decl.params, body |-> inside]) @@ @])
       [] word \in {".set", ".equ"} ->
            LET name == line.args[1].name
                v    == line.args[2]
                isValue == v.k = "imm" \/ (v.k = "sym" /\ v.name \in DOMAIN env.values)
            IN Meant(Tail(lines), [kept EXCEPT !.names = @ \cup {name},
                                   !.values = IF isValue THEN (name :> NumberIn(env, v)) @@ @ ELSE @])
       [] word \o line.s \in DOMAIN env.macros ->
            LET def == env.macros[word \o line.s]
            IN Meant(Tail(lines), Meant(Filled(def.body, def.params, line.args), env))
       [] OTHER -> Meant(Tail(lines), kept)
NoMacros == [out |-> <<>>, names |-> {}, values |-> <<>>, macros |-> <<>>]

\* The parser gets the lines that the conditionals select, with every macro and repetition carried out
\* (macros.rs preprocess): .else and .endif go with their own .if through macros and captured bodies.
ExpandsAsMeant ==
  (phase # "preprocess" /\ WellNested(source) /\ ~SelfInvoking(source)) => out = Meant(source, NoMacros).out

\* The open .rept captures, and repeats, all that follows, another open .rept included.
Repeats == \E i \in DOMAIN source : FirstWord(source[i]) = ".rept"
Endless ==
  \/ Repeats /\ ~WellNested(source)
  \/ Declared(source) # {} /\ SelfInvoking(source)
\* An assembly ends, unless a macro invokes itself or blocks do not nest around a .rept (preprocess takes
\* lines until none is left, and expansions put lines back).
Ends == <>(phase \in {"written", "failed", "refused"} \/ Endless)
----------------------------------------------------------------------------
(* The object, linked: sections at their bases, relocations by the ELF ABI.  *)
Base(name) == 65536 * CHOOSE i \in DOMAIN SectionNames : SectionNames[i] = name
TlsEnd == 8388608
GotSlot(address) == address + 4194304
Outside(symbol) == IF symbol[2] = "" /\ symbol[1] \in DOMAIN Elsewhere THEN Elsewhere[symbol[1]] ELSE 0
Linked(i) ==
  LET sym == object.symbols[i]
  IN IF sym.section = "undefined" THEN Outside(sym.name) ELSE Base(sym.section) + sym.value
Relocated(sec, r) ==
  LET s == Linked(r.symbol) + r.addend
      p == Base(sec) + r.offset
  IN CASE r.kind \in {"Abs64", "Abs32"} -> s [] r.kind \in {"Pc32", "Plt32"} -> s - p
       [] r.kind = "TpOff32" -> s - TlsEnd   [] r.kind = "GotTpOff" -> GotSlot(s) - p
Wide(v) == Le(v, 4) \o [i \in 1..4 |-> IF v < 0 THEN 255 ELSE 0]
Field(sec, r) == IF r.kind = "Abs64" THEN Wide(Relocated(sec, r)) ELSE Le(Relocated(sec, r), 4)
Image(sec) ==
  LET s == object.sections[sec]
      At(i) == {r \in ToSet(s.relocs) : i - 1 - r.offset \in 0..(Len(Field(sec, r)) - 1)}
  IN [i \in DOMAIN s.data |-> IF At(i) = {} THEN s.data[i]
                              ELSE LET r == CHOOSE r \in At(i) : TRUE IN Field(sec, r)[i - r.offset]]
----------------------------------------------------------------------------
(* Where the source puts things: after all that came before in the section.  *)
Labels == {i \in DOMAIN placed : placed[i].what.word = "label"}
Extent(p) == (p.to - p.from) + p.bss
Before(i) ==
  {j \in 1..(i - 1) : placed[j].section = placed[i].section /\ Extent(placed[j]) # 0}
OffsetOf(i) == MapThenSumSet(LAMBDA j : Extent(placed[j]), Before(i))
LabelName(i) == placed[i].what.args[1].name
UniqueLabels == \A i, j \in Labels : LabelName(i) = LabelName(j) => i = j
Address(name) ==
  LET at == {i \in Labels : LabelName(i) = name}
  IN IF at = {} THEN Outside(<<name, "">>)
     ELSE LET i == CHOOSE i \in at : TRUE IN Base(placed[i].section) + OffsetOf(i)
Reached(o) ==
  LET a == Address(o.name) + o.add
  IN CASE o.at = "tpoff" -> a - TlsEnd [] o.at \in {"gottpoff", "GOTPCREL"} -> GotSlot(a) [] OTHER -> a

\* The value of an equate for statement i: the last before i or, if there is none, the last.
EquatesOf(name) ==
  {j \in DOMAIN placed : /\ placed[j].what.word \in {".set", ".equ"}
                         /\ placed[j].what.args[1].name = name
                         /\ placed[j].what.args[2].k = "imm"}
IsEquate(o) == o.k = "sym" /\ o.form \in {"dollar", "bare"} /\ EquatesOf(o.name) # {}
EquateAt(o, i) ==
  LET before == {j \in EquatesOf(o.name) : j < i}
  IN placed[Max(IF before = {} THEN EquatesOf(o.name) ELSE before)].what.args[2]
----------------------------------------------------------------------------
(* The meaning of an instruction: operation, width, operands with the destination first. *)
Conditions16 ==
  <<{"o"}, {"no"}, {"b", "c", "nae"}, {"ae", "nb", "nc"}, {"e", "z"}, {"ne", "nz"}, {"be", "na"}, {"a", "nbe"},
    {"s"}, {"ns"}, {"p", "pe"}, {"np", "po"}, {"l", "nge"}, {"ge", "nl"}, {"le", "ng"}, {"g", "nle"}>>
ConditionOf(s) == (CHOOSE i \in 1..16 : s \in Conditions16[i]) - 1
Same(m) ==    \* other names
  CASE m \in {"retq", "retl"} -> "ret" [] m = "leaveq" -> "leave" [] m = "cltd" -> "cdq" [] m = "cqto" -> "cqo"
    [] m = "cwtl" -> "cwde" [] m = "cltq" -> "cdqe" [] m = "pushfq" -> "pushf" [] m = "popfq" -> "popf"
    [] m = "sal" -> "shl" [] OTHER -> m
WidthOf(s) == CASE s = "b" -> 8 [] s = "w" -> 16 [] s = "l" -> 32 [] OTHER -> 64    \* no suffix: 64 bits
ImmValue(o, w) == <<"i", ImmBytes(o, IF w = 0 THEN 1 ELSE w \div 8)>>
OperandMeaning(o, w, i) ==
  CASE IsEquate(o) /\ o.form = "dollar" -> ImmValue(EquateAt(o, i), w)
    [] IsEquate(o) /\ o.form = "bare" -> <<"m", NoReg, NoReg, 1, EquateAt(o, i).lo>>
    [] o.k = "reg" -> <<"r", IF o.high THEN o.n - 4 ELSE o.n, o.high>>
    [] o.k = "xmm" -> <<"x", o.n>>
    [] o.k = "imm" -> ImmValue(o, w)
    [] o.k = "mem" -> <<"m", o.base, o.index, IF o.index = NoReg THEN 1 ELSE o.scale, o.disp>>
    [] o.k = "sym" /\ ~IsEquate(o) /\ o.form = "dollar" -> <<"i", SubSeq(Wide(Reached(o)), 1, w \div 8)>>
    [] o.k = "sym" /\ ~IsEquate(o) /\ o.form = "bare" -> <<"m", NoReg, NoReg, 1, Reached(o)>>
    [] o.k = "sym" /\ ~IsEquate(o) /\ o.form = "indexed" -> <<"m", 3, NoReg, 1, Reached(o)>>
    [] o.k = "sym" /\ ~IsEquate(o) /\ o.form \in {"rip", "star"} -> <<"abs", Reached(o)>>
    [] OTHER -> <<"none">>
SseMnemonics == DOMAIN SseMoves \cup DOMAIN SseAlu
Meaning(insn, i) ==
  LET m == insn.word
      w == WidthOf(insn.s)
      n == Len(insn.args)
      R(op, width, args) == [op |-> op, w |-> width, args |-> args]
      O(j, width) == OperandMeaning(insn.args[j], width, i)
      All(width) == Reverse([j \in 1..n |-> O(j, width)])
      Target == IF insn.args[1].k # "sym" \/ insn.args[1].form # "bare" THEN O(1, 64)
                ELSE IF IsEquate(insn.args[1]) THEN <<"to", EquateAt(insn.args[1], i).lo>>
                ELSE <<"to", Reached(insn.args[1])>>
      cvt == IF insn.s = "l" \/ (insn.s = "" /\ \A j \in 1..n : insn.args[j].k # "reg" \/ insn.args[j].bits = 32)
             THEN 32 ELSE 64
  IN CASE m \in DOMAIN FixedBytes -> R(Same(m), 0, <<>>)
       [] m = "j" -> R("jcc", ConditionOf(insn.s), <<Target>>)
       [] m = "set" -> R("setcc", ConditionOf(insn.s), All(8))
       [] m \in {"call", "jmp"} -> R(m, 64, <<Target>>)
       [] m = "int" -> R(m, 0, <<ImmValue(insn.args[1], 8)>>)
       [] m \in DOMAIN Shift /\ n = 2 -> R(Same(m), w, <<O(2, w), O(1, 8)>>)
       [] m \in SseMnemonics -> R(m, 0, All(0))
       [] m \in DOMAIN Cvtsi2s \cup DOMAIN Cvttx2si -> R(m, cvt, All(cvt))
       [] OTHER -> R(m, w, All(w))

\* Writing a 32-bit register clears the upper half, so a short mov may stand for a long one.
Extended(d) ==
  IF d.op = "mov" /\ d.w = 32 /\ d.args[1][1] = "r" /\ d.args[2][1] = "i"
  THEN [d EXCEPT !.w = 64, !.args[2] = <<"i", @[2] \o Zeros(4)>>] ELSE d
Agree(d, e) ==
  /\ d.op = e.op /\ d.w = e.w
  /\ d.args = e.args \/ (d.op \in {"test", "xchg"} /\ d.args = Reverse(e.args))
MeansWhatItSays(i) ==
  LET p    == placed[i]
      code == SubSeq(Image(p.section), p.from + 1, p.to) \o Zeros(16)
      d    == Decode(code, Base(p.section) + p.from)
  IN d.len = p.to - p.from
     /\ Agree(Extended([op |-> d.op, w |-> d.w, args |-> d.args]), Extended(Meaning(p.what, i)))
Instructions == {i \in DOMAIN placed : placed[i].what.word \notin Directives \cup {"label"}}

(* Instructions that are accepted and mean something else once assembled. *)
Ops(insn) == ToSet(insn.args)
IsAluImm(insn) == insn.word \in DOMAIN Alu \cup {"test", "imul", "push"} /\ \E o \in Ops(insn) : IsImm(o)
Extended8(o) ==    \* a register that needs REX
  \/ o.k \in {"reg", "xmm"} /\ o.n >= 8
  \/ o.k = "mem" /\ (o.base >= 8 \/ o.index >= 8)
\* spl, bpl, sil, dil without a REX prefix are ah, ch, dh, bh; those with one are the others.
ByteRegister(insn) ==
  \E o \in Ops(insn) : IsReg(o) /\ o.bits = 8 /\ o.n \in 4..7 /\ (o.high <=> \E x \in Ops(insn) : Extended8(x))
\* The prefix 66 is missing, or the immediate has four bytes where the processor reads two.
WordForm(insn) ==
  insn.s = "w" /\
    \/ insn.word \in {"xchg", "lea", "push", "pop"}
    \/ insn.word = "imul" /\ Len(insn.args) > 1
    \/ insn.word = "test" /\ IsAluImm(insn)
    \/ insn.word \in DOMAIN Alu /\ \E o \in Ops(insn) : IsImm(o) /\ ~Imm8(o)
ImmediateCut(insn) ==    \* 64-bit operations take a sign-extended 32-bit immediate
  insn.s \in {"", "q"} /\ IsAluImm(insn) /\ \E o \in Ops(insn) : IsImm(o) /\ o.hi # IF o.lo < 0 THEN -1 ELSE 0
ByteImul(insn) == insn.word = "imul" /\ insn.s = "b" /\ Len(insn.args) > 1
NoOperand(insn) == insn.word \in {"push", "pop"} /\ insn.args = <<>>    \* push %rbp, pop %rbp
\* jcc to sym+N, a numeric label or anything that is no name goes to the next instruction.
JumpNowhere(insn) == insn.word = "j" /\ \E o \in Ops(insn) : ~HasSymbol(o)
\* A target in memory is taken for the target itself.
Indirect(insn) == insn.word \in {"call", "jmp", "j"} /\ \E o \in Ops(insn) : o.k = "sym" /\ o.form = "star"
\* @PLT, @GOTPCREL and, but for mov, the TLS suffixes become a part of the name.
SuffixInName(insn) ==
  \E o \in Ops(insn) : o.k = "sym" /\ o.at # "" /\
    ~(insn.word = "mov" /\ ((o.at = "gottpoff" /\ o.form = "rip") \/ (o.at = "tpoff" /\ insn.s = "l")))
\* mov sym, %r and sym(%r), %r load the address; in the byte and word forms four bytes of it.
NameAsImmediate(insn) ==
  insn.word = "mov" /\ HasSymbol(insn.args[1]) /\
    (insn.args[1].form \in {"bare", "indexed"} \/ (insn.args[1].form = "dollar" /\ insn.s \in {"b", "w"}))
SetInMemory(insn) == insn.word = "set" /\ \E o \in Ops(insn) : IsMem(o)    \* %al instead
\* An equate is known to the instructions after it only, and always as an immediate.
EquateLost(insn, i) ==
  \E o \in Ops(insn) : IsEquate(o) /\ (o.form = "bare" \/ \A j \in EquatesOf(o.name) : j > i)
Misencoded(insn, i) ==
  \/ EquateLost(insn, i) \/ ByteRegister(insn) \/ WordForm(insn) \/ ImmediateCut(insn) \/ ByteImul(insn) \/ NoOperand(insn)
  \/ JumpNowhere(insn) \/ Indirect(insn) \/ SuffixInName(insn) \/ NameAsImmediate(insn) \/ SetInMemory(insn)

\* In the linked object every instruction decodes to what its source says, but for the forms named above,
\* each of which does not (encode_insn; the branches and references reach their label or symbol).
InsnsMeanWhatTheySay ==
  (phase = "built" /\ UniqueLabels) =>
    \A i \in {j \in Instructions : placed[j].section # ".bss"} :
      MeansWhatItSays(i) <=> ~Misencoded(placed[i].what, i)
----------------------------------------------------------------------------
(* Data, labels and symbols. *)
\* The statements as they are written: comment marks in strings are characters.
Uncut == FlattenSeq([i \in DOMAIN out |-> ParseLine(out[i], out[i].args)])
DataWidth == (".byte" :> 1) @@ (".word" :> 2) @@ (".long" :> 4) @@ (".quad" :> 8)
DataWords == DOMAIN DataWidth \cup {".ascii", ".asciz"}
DataStatements == {i \in DOMAIN placed : placed[i].what.word \in DataWords}
CharMeaning(c) ==
  CASE c = "#" -> <<35>> [] c = "//" -> <<47, 47>> [] c = "/*" -> <<47, 42>> [] c = "\\033" -> <<27>>
    [] c = "e-acute" -> <<195, 169>> [] OTHER -> CharBytes(c)
\* The meaning of o, item j of statement i; . is the offset in the section (parser.rs QuadItem::Here).
ItemMeaning(o, word, i, j) ==
  CASE o.k = "str"  -> FlattenSeq([c \in DOMAIN o.chars |-> CharMeaning(o.chars[c])])
                         \o IF word = ".asciz" THEN <<0>> ELSE <<>>
    [] o.k = "imm"  -> ImmBytes(o, DataWidth[word])
    [] o.k = "here" -> SubSeq(Wide(OffsetOf(i) + (j - 1) * DataWidth[word] + o.add), 1, DataWidth[word])
    [] o.k = "sym" /\ IsEquate(o) -> ImmBytes(EquateAt(o, i), DataWidth[word])
    [] o.k = "sym" /\ ~IsEquate(o) ->
         SubSeq(Wide(Reached(o) - IF o.at = "-g" THEN Address("g") ELSE 0), 1, DataWidth[word])
DataMeaning(i) ==
  LET args == Uncut[i].args IN FlattenSeq([j \in DOMAIN args |-> ItemMeaning(args[j], Uncut[i].word, i, j)])

\* Data that is accepted and something else in the object.
Strange == CommentMarks \cup {"\\033", "e-acute"}    \* cut, read as \0 and "33", and one byte for two
DataLost(i) ==
  \E o \in ToSet(Uncut[i].args) :
    \/ o.k = "str" /\ ToSet(o.chars) \cap Strange # {}
    \* Equates are not looked up; symbols are for .quad only, and a difference is one name.
    \/ o.k = "sym" /\ (IsEquate(o) \/ placed[i].what.word # ".quad" \/ o.at # "")
    \/ o.k = "here" /\ placed[i].what.word # ".quad"
    \* One zero byte for all strings together.
    \/ o.k = "str" /\ placed[i].what.word = ".asciz" /\ Len(Uncut[i].args) > 1
\* In .bss data and .zero are counted apart, and nothing but the size is written.
MixedBss(i) ==
  /\ placed[i].section = ".bss"
  /\ \E j \in Before(i) : placed[j].bss # 0
  /\ \E j \in Before(i) : placed[j].bss = 0

\* Outside .bss each data statement leaves the bytes of its values, in the order of the source, where all that
\* precedes it in its section ends; the statements named above do not (parse_directive, assemble_x86_64).
DataAsWritten ==
  (phase = "built" /\ UniqueLabels) =>
    \A i \in {j \in DataStatements : placed[j].section # ".bss"} :
      LET sec == placed[i].section
      IN (Extent(placed[i]) = Len(DataMeaning(i))
            /\ SubSeq(Image(sec), OffsetOf(i) + 1, OffsetOf(i) + Extent(placed[i])) = DataMeaning(i)) <=> ~DataLost(i)

\* A label's symbol is at the place of the label in its section, whatever .section came between (SecBuf::len is
\* off in a .bss with data and .zero).  It is global exactly when a .globl names it, before it or after it
\* while its section is current: pending_global and the current section's symbols are all .globl looks at.
LabelsMarkTheirPlace ==
  (phase = "built" /\ UniqueLabels) =>
    \A i \in Labels :
      \E sym \in ToSet(object.symbols) :
        /\ sym.name = <<LabelName(i), "">> /\ sym.section = placed[i].section
        /\ (sym.value = OffsetOf(i)) <=> ~MixedBss(i)
        /\ sym.global <=>
             \E j \in DOMAIN placed :
               /\ placed[j].what.word = ".globl" /\ Whole(placed[j].what.args[1]) = sym.name
               /\ j < i \/ placed[j].section = placed[i].section
=============================================================================
