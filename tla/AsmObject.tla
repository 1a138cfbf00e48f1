----------------------------- MODULE AsmObject ------------------------------
(* oxide-as: from source lines to the object file (main.rs, parser.rs).      *)
(* preprocess (AsmMacros) expands all lines first, parse_assembly turns each *)
(* of the expanded lines into statements, assemble_x86_64 carries them out   *)
(* in order on one buffer per section, and build_elf_object writes sections, *)
(* symbols and relocations.  An instruction that AsmEncode cannot encode     *)
(* ends the run without an output.                                           *)
EXTENDS AsmMacros, AsmEncode, Bitwise

CONSTANTS
  Sources,        \* sources to assemble: sequences of lines
  SectionNames,   \* the names of sections in the sources and the four standard ones, in byte order
  MaxLines        \* bound: lines left and done and open conditions (it only stops endless expansions)

VARIABLES
  source,         \* the lines given
  phase,          \* "preprocess", "assemble", "built", "refused", "written", "failed"
  statements,     \* those not carried out yet
  sections,       \* name |-> SecBuf
  current,        \* name of the current section
  pendingGlobal,  \* names of .globl not seen as a label yet
  absolutes,      \* name |-> value of .set and .equ
  object,         \* the object file
  placed          \* history: what each statement put where, one entry for each
objectVars == <<source, phase, statements, sections, current, pendingGlobal, absolutes, object, placed>>
vars == <<macroVars, objectVars>>
----------------------------------------------------------------------------
(* Statements: [word, s, args], as a line without a label; "label" for one.  *)
Directives == {".text", ".data", ".rodata", ".bss", ".section", ".globl", ".align", ".p2align", ".zero",
               ".ascii", ".asciz", ".byte", ".word", ".long", ".quad", ".set", ".equ"}
\* Every other word with a dot in front is skipped without a message; these occur.
Skipped == {".macro", ".endm", ".rept", ".endr", ".if", ".ifdef", ".ifndef", ".else", ".endif",
            ".weak", ".fill", ".double", ".type", ".size"}

\* A comment mark ends the line, in a string as well, and the spaces before it go too.
CommentMarks == {"#", "//", "/*"}
TrimEnd(chars) ==
  LET kept == {i \in DOMAIN chars : chars[i] # " "}
  IN IF kept = {} THEN <<>> ELSE SubSeq(chars, 1, Max(kept))
CutComment(args) ==
  LET marked == {i \in DOMAIN args : args[i].k = "str" /\ ToSet(args[i].chars) \cap CommentMarks # {}}
      first  == Min(marked)
      chars  == args[first].chars
      mark   == Min({i \in DOMAIN chars : chars[i] \in CommentMarks})
  IN IF marked = {} THEN args
     ELSE Append(SubSeq(args, 1, first - 1), [k |-> "str", chars |-> TrimEnd(SubSeq(chars, 1, mark - 1))])
SplitOperands(args) == SelectSeq(CutComment(args), LAMBDA o : o # Nothing)

ParseLine(line, operands) ==
  (IF line.label = NoLabel THEN <<>>
   ELSE <<[word |-> "label", s |-> "", args |-> <<[k |-> "sym", name |-> line.label]>>]>>)
  \o IF line.word \in Skipped \cup {""} THEN <<>>
     ELSE <<[word |-> line.word, s |-> line.s, args |-> operands]>>
ParseAssembly(lines) == FlattenSeq([i \in DOMAIN lines |-> ParseLine(lines[i], SplitOperands(lines[i].args))])

\* Integer arguments; anything else in the list is dropped.
ParseIntList(args, width) ==
  FlattenSeq([i \in DOMAIN args |-> IF args[i].k = "imm" THEN ImmBytes(args[i], width) ELSE <<>>])
ParseInt(args) == IF args # <<>> /\ args[1].k = "imm" THEN args[1].lo ELSE 0

CharBytes(c) ==
  CASE c = "a" -> <<97>> [] c = " " -> <<32>> [] c = "\\n" -> <<10>> [] c = "\\0" -> <<0>>
    [] c = "\\033" -> <<0, 51, 51>>     \* the escape is the one character after the backslash
    [] c = "e-acute" -> <<233>>         \* the low byte of the code point
ParseStringArg(args) ==
  FlattenSeq([i \in DOMAIN args |->
    IF args[i].k = "str" THEN FlattenSeq([j \in DOMAIN args[i].chars |-> CharBytes(args[i].chars[j])]) ELSE <<>>])
----------------------------------------------------------------------------
(* SecBuf. *)
NewBuf == [data |-> <<>>, symbols |-> <<>>, relocs |-> <<>>, bssSize |-> 0]
BufLen(buf) == IF buf.bssSize > 0 THEN buf.bssSize ELSE Len(buf.data)
Zeros(n) == [i \in 1..n |-> 0]
AlignedUp(n, align) == Min({l \in n..(n + 2 * align) : l & (align - 1) = 0})
AlignTo(buf, align, fill) ==
  IF align <= 1 THEN buf
  ELSE IF buf.bssSize > 0 THEN [buf EXCEPT !.bssSize = AlignedUp(@, align)]
  ELSE [buf EXCEPT !.data = @ \o [i \in 1..(AlignedUp(Len(@), align) - Len(@)) |-> fill]]

\* Data with relocations at offsets from its first byte.
Emit(buf, bytes, relocs) ==
  [buf EXCEPT !.relocs = @ \o [i \in DOMAIN relocs |-> [relocs[i] EXCEPT !.offset = @ + Len(buf.data)]],
              !.data = @ \o bytes]
EmitQuadSymbol(buf, item) ==    \* a mutation: the addend is dropped
  CASE item.k = "imm"  -> Emit(buf, ImmBytes(item, 8), <<>>)
    [] item.k = "here" -> Emit(buf, Le(Len(buf.data) + item.add, 4) \o Zeros(4), <<>>)
    [] item.k = "sym"  -> Emit(buf, Zeros(8), <<[offset |-> 0, symbol |-> Whole(item), kind |-> "Abs64", addend |-> 0]>>)
    [] OTHER -> buf
EmitQuad(buf, item) ==
  CASE item.k = "imm"  -> Emit(buf, ImmBytes(item, 8), <<>>)
    [] item.k = "here" -> Emit(buf, Le(Len(buf.data) + item.add, 4) \o Zeros(4), <<>>)
    [] item.k = "sym"  -> Emit(buf, Zeros(8), <<[offset |-> 0, symbol |-> Whole(item), kind |-> "Abs64",
                                                 addend |-> item.add]>>)
    [] OTHER -> buf
----------------------------------------------------------------------------
Standard == {".text", ".data", ".rodata", ".bss"}
Init ==
  /\ source \in Sources
  /\ queue = source
  /\ PreprocessInit
  /\ phase = "preprocess"
  /\ statements = <<>>
  /\ sections = [n \in Standard |-> NewBuf]
  /\ current = ".text"
  /\ pendingGlobal = {}
  /\ absolutes = <<>>
  /\ object = [sections |-> <<>>, symbols |-> <<>>]
  /\ placed = <<>>

Expand ==
  /\ phase = "preprocess"
  /\ Len(queue) + Len(out) + Len(ifStack) <= MaxLines
  /\ Preprocess
  /\ UNCHANGED objectVars
Parse ==
  /\ phase = "preprocess" /\ queue = <<>>
  /\ statements' = ParseAssembly(out)
  /\ phase' = "assemble"
  /\ UNCHANGED <<macroVars, source, sections, current, pendingGlobal, absolutes, object, placed>>

Reads(words) == phase = "assemble" /\ statements # <<>> /\ Head(statements).word \in words
Operands == Head(statements).args
Here == sections[current]

\* The statement leaves buf in the current section.
Place(buf) ==
  /\ statements' = Tail(statements)
  /\ sections' = [sections EXCEPT ![current] = buf]
  /\ placed' = Append(placed, [what |-> Head(statements), section |-> current,
                               from |-> Len(Here.data), to |-> Len(buf.data), bss |-> buf.bssSize - Here.bssSize])
  /\ UNCHANGED <<macroVars, source, phase, current, object>>

Section ==
  /\ Reads({".text", ".data", ".rodata", ".bss", ".section"})
  /\ current' = IF Head(statements).word = ".section" THEN Operands[1].name ELSE Head(statements).word
  /\ sections' = sections @@ (current' :> NewBuf)
  /\ statements' = Tail(statements)
  /\ placed' = Append(placed, [what |-> Head(statements), section |-> current', from |-> Len(sections'[current'].data),
                               to |-> Len(sections'[current'].data), bss |-> 0])
  /\ UNCHANGED <<macroVars, source, phase, pendingGlobal, absolutes, object>>

\* A label before it is found only in the section that is current now.
Global ==
  /\ Reads({".globl"})
  /\ LET name == Whole(Operands[1]) IN
     /\ pendingGlobal' = pendingGlobal \cup {name}
     /\ Place([Here EXCEPT !.symbols = [i \in DOMAIN @ |->
                 IF @[i].name = name THEN [@[i] EXCEPT !.global = TRUE] ELSE @[i]]])
  /\ UNCHANGED absolutes

Align ==
  /\ Reads({".align", ".p2align"})
  /\ LET n     == ParseInt(Operands)
         align == IF Head(statements).word = ".p2align" THEN 2 ^ Min({n, 12}) ELSE Max({n, 1})
     IN Place(AlignTo(Here, align, IF current = ".text" THEN \h90 ELSE 0))
  /\ UNCHANGED <<pendingGlobal, absolutes>>

Zero ==
  /\ Reads({".zero"})
  /\ Place(IF current = ".bss" THEN [Here EXCEPT !.bssSize = @ + ParseInt(Operands)]
           ELSE Emit(Here, Zeros(ParseInt(Operands)), <<>>))
  /\ UNCHANGED <<pendingGlobal, absolutes>>

Data ==
  /\ Reads({".ascii", ".asciz", ".byte", ".word", ".long"})
  /\ LET word == Head(statements).word
         bytes == CASE word = ".ascii" -> ParseStringArg(Operands)
                    [] word = ".asciz" -> ParseStringArg(Operands) \o <<0>>
                    [] word = ".byte"  -> ParseIntList(Operands, 1)
                    [] word = ".word"  -> ParseIntList(Operands, 2)
                    [] word = ".long"  -> ParseIntList(Operands, 4)
     IN Place(Emit(Here, bytes, <<>>))
  /\ UNCHANGED <<pendingGlobal, absolutes>>

Quad ==
  /\ Reads({".quad"})
  /\ Place(FoldLeft(EmitQuad, Here, Operands))
  /\ UNCHANGED <<pendingGlobal, absolutes>>

\* Only a literal is a value.
Set ==
  /\ Reads({".set", ".equ"})
  /\ Place(Here)
  /\ absolutes' = IF Len(Operands) = 2 /\ Operands[2].k = "imm"
                  THEN (Operands[1].name :> Operands[2]) @@ absolutes ELSE absolutes
  /\ UNCHANGED pendingGlobal

LabelAtData ==    \* a mutation: the size of .bss is forgotten
  /\ Reads({"label"})
  /\ LET name == <<Operands[1].name, "">> IN
     /\ Place([Here EXCEPT !.symbols = Append(@, [name |-> name, offset |-> Len(Here.data),
                                                  global |-> name \in pendingGlobal])])
     /\ pendingGlobal' = pendingGlobal \ {name}
  /\ UNCHANGED absolutes
Label ==
  /\ Reads({"label"})
  /\ LET name == <<Operands[1].name, "">> IN
     /\ Place([Here EXCEPT !.symbols = Append(@, [name |-> name, offset |-> BufLen(Here),
                                                  global |-> name \in pendingGlobal])])
     /\ pendingGlobal' = pendingGlobal \ {name}
  /\ UNCHANGED absolutes

\* An operand that is the name of an equate, with or without $, becomes its value.
Resolved(o) ==
  IF o.k = "sym" /\ o.form \in {"dollar", "bare"} /\ o.at = "" /\ o.add = 0 /\ o.name \in DOMAIN absolutes
  THEN absolutes[o.name] ELSE o
IsInsn == phase = "assemble" /\ statements # <<>> /\ Head(statements).word \notin Directives \cup {"label"}
Encoded == EncodeInsn([m |-> Head(statements).word, s |-> Head(statements).s,
                       ops |-> [i \in DOMAIN Operands |-> Resolved(Operands[i])]])
Instruction ==
  /\ IsInsn
  /\ Encoded # Bail
  /\ Place(Emit(Here, Encoded.bytes, Encoded.relocs))
  /\ UNCHANGED <<pendingGlobal, absolutes>>
Refuse ==
  /\ IsInsn
  /\ Encoded = Bail
  /\ phase' = "refused"
  /\ UNCHANGED <<macroVars, source, statements, sections, current, pendingGlobal, absolutes, object, placed>>
----------------------------------------------------------------------------
(* build_elf_object. *)
Written == SelectSeq(SectionNames, LAMBDA n : n \in DOMAIN sections /\ sections[n] # NewBuf)
SectionOf(name) ==
  LET buf == sections[name] IN
  IF name = ".bss" THEN [data |-> Zeros(BufLen(buf)), align |-> 1, relocs |-> <<>>]
  ELSE [data |-> buf.data, relocs |-> <<>>,
        align |-> IF buf.data = <<>> THEN 1 ELSE IF name = ".text" THEN 16 ELSE 8]
DefinedSymbols ==
  FlattenSeq([i \in DOMAIN Written |-> [j \in DOMAIN sections[Written[i]].symbols |->
    LET sym == sections[Written[i]].symbols[j]
    IN [name |-> sym.name, section |-> Written[i], value |-> sym.offset, global |-> sym.global]]])
AllRelocs ==
  FlattenSeq([i \in DOMAIN Written |-> sections[Written[i]].relocs])
\* One undefined symbol for each other name, in the order of its first relocation.
UndefinedSymbols ==
  LET named == SelectSeq([i \in DOMAIN AllRelocs |-> AllRelocs[i].symbol],
                         LAMBDA n : \A i \in DOMAIN DefinedSymbols : DefinedSymbols[i].name # n)
      firsts == SelectSeq([i \in DOMAIN named |-> i], LAMBDA i : \A j \in 1..(i - 1) : named[j] # named[i])
  IN [i \in DOMAIN firsts |-> [name |-> named[firsts[i]], section |-> "undefined", value |-> 0, global |-> TRUE]]
\* symbol_ids keeps the last symbol of a name.
SymbolIds(symbols) ==
  [n \in {symbols[i].name : i \in DOMAIN symbols} |-> Max({i \in DOMAIN symbols : symbols[i].name = n})]

Build ==
  /\ phase = "assemble" /\ statements = <<>>
  /\ LET symbols == DefinedSymbols \o UndefinedSymbols
         Filled(name) ==
           [SectionOf(name) EXCEPT !.relocs = [i \in DOMAIN sections[name].relocs |->
              LET r == sections[name].relocs[i]
              IN [offset |-> r.offset, kind |-> r.kind, addend |-> r.addend, symbol |-> SymbolIds(symbols)[r.symbol]]]]
     IN object' = [symbols  |-> symbols,
                   sections |-> IF Written = <<>>
                                THEN ".text" :> [data |-> <<\hc3>>, align |-> 16, relocs |-> <<>>]
                                ELSE [n \in ToSet(Written) |-> Filled(n)]]
  /\ phase' = "built"
  /\ UNCHANGED <<macroVars, source, statements, sections, current, pendingGlobal, absolutes, placed>>

\* main: fs::write creates or truncates the output and may fail at any point.
WriteObject ==
  /\ phase = "built"
  /\ phase' \in {"written", "failed"}
  /\ UNCHANGED <<macroVars, source, statements, sections, current, pendingGlobal, absolutes, object, placed>>

Assemble ==
  \/ Section \/ Global \/ Align \/ Zero \/ Data \/ Quad \/ Set \/ Label \/ Instruction \/ Refuse \/ Build
Next == Expand \/ Parse \/ Assemble \/ WriteObject
Spec == Init /\ [][Next]_vars /\ WF_vars(Next)
=============================================================================
