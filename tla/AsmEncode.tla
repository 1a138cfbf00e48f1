----------------------------- MODULE AsmEncode ------------------------------
(* oxide-as: the encoder (encode.rs).  EncodeInsn is encode_insn: the        *)
(* machine code of one AT&T instruction and its pending relocations.         *)
(*                                                                           *)
(* A mnemonic is its stem m and the rest s of its text: "sub" "", "sub" "l", *)
(* "set" "nbe".  An operand is a record, by what parse_reg, parse_xmm_reg,   *)
(* parse_imm, parse_mem_operand and symbol_from_operand see in its text:     *)
(*   [k |-> "reg", n, bits, high]   %rax .. %r15b; high: ah ch dh bh         *)
(*   [k |-> "xmm", n]               %xmm0 .. %xmm15                          *)
(*   [k |-> "imm", lo, hi]          $N: the i64 hi * 2^32 + lo mod 2^32      *)
(*   [k |-> "mem", disp, base, index, scale]                                 *)
(*   [k |-> "sym", form, name, at, add]   a name, its @suffix, +N or -N:     *)
(*      form "dollar" $sym, "bare" sym, "rip" sym(%rip), "indexed" sym(%r),  *)
(*      "star" *sym(..), "local" a numeric label such as 1f                  *)
EXTENDS Integers, Sequences, SequencesExt

NoReg == -1      \* None
----------------------------------------------------------------------------
(* Bytes. *)
Raw(bytes) == [bytes |-> bytes, relocs |-> <<>>]
WithReloc(head, width, symbol, kind, addend) ==
  [bytes  |-> head \o [i \in 1..width |-> 0],
   relocs |-> <<[offset |-> Len(head), symbol |-> symbol, kind |-> kind, addend |-> addend]>>]
Bail == Raw(<<>>)    \* "unsupported instruction"

Le(v, n) == [i \in 1..n |-> (v \div 256 ^ (i - 1)) % 256]
ImmBytes(imm, n) == IF n = 8 THEN Le(imm.lo, 4) \o Le(imm.hi, 4) ELSE Le(imm.lo, n)
Imm8(imm) == imm.lo \in -128..127 /\ imm.hi = IF imm.lo < 0 THEN -1 ELSE 0

Bit(b) == IF b THEN 1 ELSE 0
Rex(w, r, x, b) ==
  IF ~w /\ r < 8 /\ x < 8 /\ b < 8 THEN <<>>
  ELSE <<\h40 + 8 * Bit(w) + 4 * Bit(r >= 8) + 2 * Bit(x >= 8) + Bit(b >= 8)>>
Low3(n) == n % 8
ModRM(mod, reg, rm) == 64 * mod + 8 * Low3(reg) + Low3(rm)
Prefix16(size) == IF size = "w" THEN <<\h66>> ELSE <<>>
----------------------------------------------------------------------------
(* Operands. *)
IsReg(o) == o.k = "reg"
IsXmm(o) == o.k = "xmm"
IsImm(o) == o.k = "imm"
IsMem(o) == o.k = "mem"
\* parse_imm takes no "+", so split_symbol_addend leaves sym+N whole, and that is no name.
HasSymbol(o) == o.k = "sym" /\ o.form # "local" /\ o.add <= 0
IsRip(o) == HasSymbol(o) /\ o.form = "rip"
Whole(o) == <<o.name, o.at>>
SplitTls(o) == IF o.at \in {"tpoff", "gottpoff"} THEN <<o.name, "">> ELSE Whole(o)
TlsKind(o, kind) == IF o.at = "tpoff" THEN "TpOff32" ELSE IF o.at = "gottpoff" THEN "GotTpOff" ELSE kind

Sib(mem) ==
  64 * (CASE mem.scale = 2 -> 1 [] mem.scale = 4 -> 2 [] mem.scale = 8 -> 3 [] OTHER -> 0)
    + 8 * (IF mem.index = NoReg THEN 4 ELSE Low3(mem.index))
    + (IF mem.base = NoReg THEN 5 ELSE Low3(mem.base))
NeedsSib(mem) == mem.index # NoReg \/ mem.base = NoReg \/ Low3(mem.base) = 4
NeedsDisp8Nonzero(mem) == mem.disp \in -128..127 /\ mem.disp # 0    \* a mutation: rbp and r13 are no exception
\* base rbp and r13 without a displacement would mean another addressing mode.
NeedsDisp8(mem) == mem.disp \in -128..127 /\ (mem.disp # 0 \/ Low3(mem.base) = 5)
EncodeModrmMem(reg, mem) ==
  LET Field(mod, disp) ==
        IF NeedsSib(mem) THEN <<ModRM(mod, reg, 4), Sib(mem)>> \o disp
                         ELSE <<ModRM(mod, reg, mem.base)>> \o disp
  IN CASE mem.base = NoReg -> Field(0, Le(mem.disp, 4))
       [] mem.base # NoReg /\ NeedsDisp8(mem) -> Field(1, Le(mem.disp, 1))
       [] mem.base # NoReg /\ mem.disp = 0 /\ ~NeedsDisp8(mem) -> Field(0, <<>>)
       [] OTHER -> Field(2, Le(mem.disp, 4))

\* The r/m operand, a register or memory, and what it puts in REX.X and REX.B.
RmBytes(reg, rm) == IF IsMem(rm) THEN EncodeModrmMem(reg, rm) ELSE <<ModRM(3, reg, rm.n)>>
MemRexX(rm) == IF IsMem(rm) /\ rm.index # NoReg THEN rm.index ELSE 0
MemRexB(rm) == IF ~IsMem(rm) THEN rm.n ELSE IF rm.base = NoReg THEN 0 ELSE rm.base
Form(prefix, w, opcode, reg, rm) ==
  prefix \o Rex(w, reg, MemRexX(rm), MemRexB(rm)) \o opcode \o RmBytes(reg, rm)
\* The shape of most instructions: 66 for w, REX.W for q, and an opcode for bytes or for the rest.
Sized(size, byteOp, op, reg, rm) ==
  Form(Prefix16(size), size = "q", <<IF size = "b" THEN byteOp ELSE op>>, reg, rm)
RipField(prefix, w, opcode, reg) == prefix \o Rex(w, reg, 0, 0) \o <<opcode, ModRM(0, reg, 5)>>
----------------------------------------------------------------------------
(* The instruction groups. *)
EncodePush(ops) ==
  IF ops = <<>> THEN Raw(<<\h55>>) ELSE
  LET o == ops[1] IN
  CASE IsReg(o) -> Raw(Rex(FALSE, 0, 0, o.n) \o <<\h50 + Low3(o.n)>>)
    [] IsImm(o) -> Raw(IF Imm8(o) THEN <<\h6a>> \o ImmBytes(o, 1) ELSE <<\h68>> \o ImmBytes(o, 4))
    [] IsMem(o) -> Raw(Form(<<>>, FALSE, <<\hff>>, 6, o))
    [] OTHER    -> Bail
EncodePop(ops) ==
  IF ops = <<>> THEN Raw(<<\h5d>>) ELSE
  LET o == ops[1] IN
  CASE IsReg(o) -> Raw(Rex(FALSE, 0, 0, o.n) \o <<\h58 + Low3(o.n)>>)
    [] IsMem(o) -> Raw(Form(<<>>, FALSE, <<\h8f>>, 0, o))
    [] OTHER    -> Bail

EncodeMovSymImm(rd, o, size) ==
  IF size = "q" THEN WithReloc(Rex(TRUE, 0, 0, rd.n) \o <<\hb8 + Low3(rd.n)>>, 8, Whole(o), "Abs64", o.add)
  ELSE WithReloc(Prefix16(size) \o Rex(FALSE, 0, 0, rd.n) \o <<\hb8 + Low3(rd.n)>>,
                 4, SplitTls(o), TlsKind(o, "Abs32"), o.add)
EncodeLoadRip(reg, o, size, store) ==
  LET op == IF store THEN <<\h88, \h89>> ELSE <<\h8a, \h8b>> IN
  WithReloc(RipField(Prefix16(size), size = "q", op[IF size = "b" THEN 1 ELSE 2], reg.n),
            4, SplitTls(o), TlsKind(o, "Pc32"), o.add - 4)
EncodeMovImm(rd, imm, size) ==
  LET Short(op, n) == Rex(FALSE, 0, 0, rd.n) \o <<op + Low3(rd.n)>> \o ImmBytes(imm, n) IN
  CASE size = "b" -> Short(\hb0, 1)
    [] size = "w" -> <<\h66>> \o Short(\hb8, 2)
    [] size = "l" \/ (size = "q" /\ imm.hi = 0) -> Short(\hb8, 4)
    [] OTHER      -> Rex(TRUE, 0, 0, rd.n) \o <<\hb8 + Low3(rd.n)>> \o ImmBytes(imm, 8)
EncodeMov(ops, size) ==
  IF Len(ops) < 2 THEN Bail ELSE
  LET src == ops[1]
      dst == ops[2]
  IN CASE IsReg(dst) /\ IsRip(src) -> EncodeLoadRip(dst, src, size, FALSE)
       [] IsReg(dst) /\ HasSymbol(src) /\ ~IsRip(src) -> EncodeMovSymImm(dst, src, size)
       [] IsReg(dst) /\ IsImm(src) -> Raw(EncodeMovImm(dst, src, size))
       [] IsReg(dst) /\ IsMem(src) -> Raw(Sized(size, \h8a, \h8b, dst.n, src))
       [] IsReg(src) /\ IsRip(dst) -> EncodeLoadRip(src, dst, size, TRUE)
       [] IsReg(src) /\ (IsReg(dst) \/ IsMem(dst)) -> Raw(Sized(size, \h88, \h89, src.n, dst))
       [] OTHER -> Bail

EncodeLea(ops, size) ==
  CASE Len(ops) < 2 \/ (Len(ops) >= 2 /\ ~IsReg(ops[2])) -> Bail
    [] Len(ops) >= 2 /\ IsReg(ops[2]) /\ IsRip(ops[1]) ->
         WithReloc(RipField(<<>>, size # "l", \h8d, ops[2].n), 4, Whole(ops[1]), "Pc32", ops[1].add - 4)
    [] Len(ops) >= 2 /\ IsReg(ops[2]) /\ IsMem(ops[1]) ->
         Raw(Form(<<>>, size = "q", <<\h8d>>, ops[2].n, ops[1]))
    [] OTHER -> Bail

\* op $imm, r/m; 83 takes a sign-extended byte, 81 always four bytes.
AluImm(imm, rm, size, group) ==
  IF size = "b" THEN Sized(size, \h80, \h80, group, rm) \o ImmBytes(imm, 1)
  ELSE IF Imm8(imm) THEN Sized(size, \h83, \h83, group, rm) \o ImmBytes(imm, 1)
  ELSE Sized(size, \h81, \h81, group, rm) \o ImmBytes(imm, 4)
EncodeAlu(ops, size, opcode, group) ==
  IF Len(ops) < 2 THEN Bail ELSE
  LET src == ops[1]
      dst == ops[2]
  IN CASE IsImm(src) /\ (IsReg(dst) \/ IsMem(dst)) -> Raw(AluImm(src, dst, size, group))
       [] IsReg(src) /\ (IsReg(dst) \/ IsMem(dst)) -> Raw(Sized(size, opcode - 1, opcode, src.n, dst))
       [] IsMem(src) /\ IsReg(dst) -> Raw(Sized(size, opcode + 1, opcode + 2, dst.n, src))
       [] OTHER -> Bail

EncodeTest(ops, size) ==
  IF Len(ops) < 2 THEN Bail ELSE
  LET a == ops[1]
      b == ops[2]
  IN CASE IsReg(a) /\ (IsReg(b) \/ IsMem(b)) -> Raw(Sized(size, \h84, \h85, a.n, b))
       [] IsMem(a) /\ IsReg(b) -> Raw(Sized(size, \h84, \h85, b.n, a))
       [] IsImm(a) /\ (IsReg(b) \/ IsMem(b)) ->    \* no 66 prefix for w
            Raw(Form(<<>>, size = "q", <<IF size = "b" THEN \hf6 ELSE \hf7>>, 0, b)
                  \o ImmBytes(a, IF size = "b" THEN 1 ELSE 4))
       [] OTHER -> Bail

EncodeXchg(ops, size) ==
  IF Len(ops) < 2 THEN Bail
  ELSE IF ~(IsReg(ops[1]) /\ IsReg(ops[2])) THEN Bail
  ELSE IF size = "q" /\ (ops[1].n = 0 \/ ops[2].n = 0)
       THEN LET other == IF ops[1].n = 0 THEN ops[2].n ELSE ops[1].n
            IN Raw(Rex(TRUE, 0, 0, other) \o <<\h90 + Low3(other)>>)
  ELSE Raw(Form(<<>>, size = "q", <<IF size = "b" THEN \h86 ELSE \h87>>, ops[1].n, ops[2]))

EncodeUnaryGroup(ops, size, group, opcode) ==
  IF ops = <<>> THEN Bail
  ELSE IF ~(IsReg(ops[1]) \/ IsMem(ops[1])) THEN Bail
  ELSE Raw(Sized(size, opcode - 1, opcode, group, ops[1]))

EncodeImul(ops, size) ==
  CASE Len(ops) = 1 -> EncodeUnaryGroup(ops, size, 5, \hf7)
    [] Len(ops) = 2 /\ (\A i \in 1..2 : IsReg(ops[i])) ->
         Raw(Form(<<>>, size = "q", <<\h0f, \haf>>, ops[2].n, ops[1]))
    [] Len(ops) = 3 /\ IsImm(ops[1]) /\ (\A i \in 2..3 : IsReg(ops[i])) ->
         Raw(Form(<<>>, size = "q", <<IF Imm8(ops[1]) THEN \h6b ELSE \h69>>, ops[3].n, ops[2])
               \o ImmBytes(ops[1], IF Imm8(ops[1]) THEN 1 ELSE 4))
    [] OTHER -> Bail

EncodeShift(ops, size, group) ==
  IF Len(ops) < 2 THEN Bail ELSE
  LET count == ops[1]
      rd    == ops[2]
      isCl  == IsReg(count) /\ count.n = 1 /\ count.bits = 8
  IN CASE IsReg(rd) /\ isCl -> Raw(Sized(size, \hd2, \hd3, group, rd))
       [] IsReg(rd) /\ IsImm(count) ->
            IF count.lo = 1 /\ count.hi = 0 THEN Raw(Sized(size, \hd0, \hd1, group, rd))
            ELSE Raw(Sized(size, \hc0, \hc1, group, rd) \o ImmBytes(count, 1))
       [] OTHER -> Bail

\* A "*" is dropped: the operand after it is a register or the name of the target.
EncodeCallJmp(ops, isCall) ==
  CASE ops # <<>> /\ IsReg(ops[1]) -> Raw(Form(<<>>, FALSE, <<\hff>>, IF isCall THEN 2 ELSE 4, ops[1]))
    [] ops # <<>> /\ HasSymbol(ops[1]) ->
         WithReloc(<<IF isCall THEN \he8 ELSE \he9>>, 4, Whole(ops[1]),
                   IF isCall THEN "Plt32" ELSE "Pc32", ops[1].add - 4)
    [] OTHER -> Bail

EncodeJcc(sec, ops) ==    \* no name: a displacement of 0
  IF ops # <<>> /\ HasSymbol(ops[1]) THEN WithReloc(<<\h0f, sec>>, 4, Whole(ops[1]), "Pc32", ops[1].add - 4)
  ELSE Raw(<<\h0f, sec, 0, 0, 0, 0>>)
EncodeSetcc(sec, ops) ==    \* no register: %al
  LET rd == IF ops # <<>> /\ IsReg(ops[1]) THEN ops[1] ELSE [k |-> "reg", n |-> 0]
  IN Raw(Form(<<>>, FALSE, <<\h0f, sec>>, 0, rd))
EncodeInt(ops) == Raw(<<\hcd>> \o IF ops # <<>> /\ IsImm(ops[1]) THEN ImmBytes(ops[1], 1) ELSE <<\h80>>)

EncodeSseMovlike(ops, prefix, load, store) ==
  IF Len(ops) < 2 THEN Bail ELSE
  LET src == ops[1]
      dst == ops[2]
  IN CASE IsXmm(dst) /\ (IsXmm(src) \/ IsMem(src)) -> Raw(Form(prefix, FALSE, <<\h0f, load>>, dst.n, src))
       [] IsMem(dst) /\ IsXmm(src) -> Raw(Form(prefix, FALSE, <<\h0f, store>>, src.n, dst))
       [] OTHER -> Bail
EncodeSseAlu(ops, prefix, opcode) ==
  IF Len(ops) < 2 THEN Bail
  ELSE IF IsXmm(ops[2]) /\ (IsXmm(ops[1]) \/ IsMem(ops[1]))
       THEN Raw(Form(prefix, FALSE, <<\h0f, opcode>>, ops[2].n, ops[1]))
  ELSE Bail
\* Without an l or q, REX.W follows the general register; memory is 32 bits wide.
EncodeCvtsi2s(ops, prefix, s) ==
  IF Len(ops) < 2 THEN Bail
  ELSE IF IsXmm(ops[2]) /\ (IsReg(ops[1]) \/ IsMem(ops[1]))
       THEN LET w == s = "q" \/ (s = "" /\ IsReg(ops[1]) /\ ops[1].bits = 64)
            IN Raw(Form(prefix, w, <<\h0f, \h2a>>, ops[2].n, ops[1]))
  ELSE Bail
EncodeCvttx2si(ops, prefix, s) ==
  IF Len(ops) < 2 THEN Bail
  ELSE IF IsReg(ops[2]) /\ (IsXmm(ops[1]) \/ IsMem(ops[1]))
       THEN Raw(Form(prefix, s = "q" \/ (s = "" /\ ops[2].bits = 64), <<\h0f, \h2c>>, ops[2].n, ops[1]))
  ELSE Bail
----------------------------------------------------------------------------
(* The tables and the dispatch of encode_insn. *)
FixedBytes ==
  [ret |-> <<\hc3>>, retq |-> <<\hc3>>, retl |-> <<\hc3>>, nop |-> <<\h90>>,
   leave |-> <<\hc9>>, leaveq |-> <<\hc9>>, syscall |-> <<\h0f, \h05>>, sysenter |-> <<\h0f, \h34>>,
   sysexit |-> <<\h0f, \h35>>, hlt |-> <<\hf4>>, ud2 |-> <<\h0f, \h0b>>, cpuid |-> <<\h0f, \ha2>>,
   rdtsc |-> <<\h0f, \h31>>, rdtscp |-> <<\h0f, \h01, \hf9>>, pause |-> <<\hf3, \h90>>,
   cdq |-> <<\h99>>, cltd |-> <<\h99>>, cqo |-> <<\h48, \h99>>, cqto |-> <<\h48, \h99>>,
   cwde |-> <<\h98>>, cwtl |-> <<\h98>>, cdqe |-> <<\h48, \h98>>, cltq |-> <<\h48, \h98>>,
   clc |-> <<\hf8>>, stc |-> <<\hf9>>, cmc |-> <<\hf5>>, cli |-> <<\hfa>>, sti |-> <<\hfb>>,
   cld |-> <<\hfc>>, std |-> <<\hfd>>, lahf |-> <<\h9f>>, sahf |-> <<\h9e>>,
   pushf |-> <<\h9c>>, pushfq |-> <<\h9c>>, popf |-> <<\h9d>>, popfq |-> <<\h9d>>,
   endbr64 |-> <<\hf3, \h0f, \h1e, \hfa>>, endbr32 |-> <<\hf3, \h0f, \h1e, \hfb>>,
   lfence |-> <<\h0f, \hae, \he8>>, sfence |-> <<\h0f, \hae, \hf8>>, mfence |-> <<\h0f, \hae, \hf0>>]

\* The condition of jcc and setcc: the low four bits of the second opcode byte.
JccOpcode ==
  [o |-> \h80, no |-> \h81, b |-> \h82, c |-> \h82, nae |-> \h82, ae |-> \h83, nb |-> \h83, nc |-> \h83,
   e |-> \h84, z |-> \h84, ne |-> \h85, nz |-> \h85, be |-> \h86, na |-> \h86, a |-> \h87, nbe |-> \h87,
   s |-> \h88, ns |-> \h89, p |-> \h8a, pe |-> \h8a, np |-> \h8b, po |-> \h8b, l |-> \h8c, nge |-> \h8c,
   ge |-> \h8d, nl |-> \h8d, le |-> \h8e, ng |-> \h8e, g |-> \h8f, nle |-> \h8f]
SetccOpcode ==
  [a |-> \h97, nbe |-> \h97, ae |-> \h93, nb |-> \h93, nc |-> \h93, b |-> \h92, c |-> \h92, nae |-> \h92,
   be |-> \h96, na |-> \h96, e |-> \h94, z |-> \h94, g |-> \h9f, nle |-> \h9f, ge |-> \h9d, nl |-> \h9d,
   l |-> \h9c, nge |-> \h9c, le |-> \h9e, ng |-> \h9e, ne |-> \h95, nz |-> \h95, no |-> \h91,
   np |-> \h9b, po |-> \h9b, ns |-> \h99, o |-> \h90, p |-> \h9a, pe |-> \h9a, s |-> \h98]
SseMoves ==    \* mandatory prefix, load and store opcode
  [movss |-> <<<<\hf3>>, \h10, \h11>>, movsd |-> <<<<\hf2>>, \h10, \h11>>,
   movaps |-> <<<<>>, \h28, \h29>>, movapd |-> <<<<\h66>>, \h28, \h29>>,
   movups |-> <<<<>>, \h10, \h11>>, movupd |-> <<<<\h66>>, \h10, \h11>>]
SseAlu ==
  [addss |-> <<<<\hf3>>, \h58>>, addsd |-> <<<<\hf2>>, \h58>>, subss |-> <<<<\hf3>>, \h5c>>,
   subsd |-> <<<<\hf2>>, \h5c>>, mulss |-> <<<<\hf3>>, \h59>>, mulsd |-> <<<<\hf2>>, \h59>>,
   divss |-> <<<<\hf3>>, \h5e>>, divsd |-> <<<<\hf2>>, \h5e>>, xorps |-> <<<<>>, \h57>>,
   xorpd |-> <<<<\h66>>, \h57>>, ucomiss |-> <<<<>>, \h2e>>, ucomisd |-> <<<<\h66>>, \h2e>>]
Cvtsi2s == [cvtsi2sd |-> <<\hf2>>, cvtsi2ss |-> <<\hf3>>]
Cvttx2si == [cvttsd2si |-> <<\hf2>>, cvttss2si |-> <<\hf3>>]
Alu ==    \* opcode of the form r, r/m, and the /group of the immediate form
  [xor |-> <<\h31, 6>>, add |-> <<\h01, 0>>, sub |-> <<\h29, 5>>, and |-> <<\h21, 4>>,
   or |-> <<\h09, 1>>, cmp |-> <<\h39, 7>>, adc |-> <<\h11, 2>>, sbb |-> <<\h19, 3>>]
Unary ==
  [mul |-> <<4, \hf7>>, div |-> <<6, \hf7>>, idiv |-> <<7, \hf7>>, inc |-> <<0, \hff>>,
   dec |-> <<1, \hff>>, not |-> <<2, \hf7>>, neg |-> <<3, \hf7>>]
Shift == [shl |-> 4, sal |-> 4, shr |-> 5, sar |-> 7, rol |-> 0, ror |-> 1]

\* Stems that end in a letter that is also a size suffix, and those the code knows to leave whole.
EndsInSizeLetter == {"call", "sub", "sbb", "mul", "imul", "shl", "sal", "rol"}
NO_STRIP_MNEMONICS == {"call", "sub", "sbb", "mul", "imul", "shl", "sal", "rol"}
StripSizeSuffix(m, s) == IF s = "" /\ m \in EndsInSizeLetter \ NO_STRIP_MNEMONICS THEN "?" ELSE m
InsnSize(m, s) == IF s = "" THEN "q" ELSE s

EncodeInsn(insn) ==
  LET s    == insn.s
      ops  == insn.ops
      m    == StripSizeSuffix(insn.m, s)
      size == InsnSize(insn.m, s)
  IN CASE m \in DOMAIN FixedBytes -> Raw(FixedBytes[m])
       [] m = "j" /\ s \in DOMAIN JccOpcode -> EncodeJcc(JccOpcode[s], ops)
       [] m = "set" /\ s \in DOMAIN SetccOpcode -> EncodeSetcc(SetccOpcode[s], ops)
       [] m \in DOMAIN SseMoves /\ s = "" -> EncodeSseMovlike(ops, SseMoves[m][1], SseMoves[m][2], SseMoves[m][3])
       [] m \in DOMAIN SseAlu /\ s = "" -> EncodeSseAlu(ops, SseAlu[m][1], SseAlu[m][2])
       [] m \in DOMAIN Cvtsi2s /\ s \in {"", "l", "q"} -> EncodeCvtsi2s(ops, Cvtsi2s[m], s)
       [] m \in DOMAIN Cvttx2si /\ s \in {"", "l", "q"} -> EncodeCvttx2si(ops, Cvttx2si[m], s)
       [] m \in DOMAIN Alu -> EncodeAlu(ops, size, Alu[m][1], Alu[m][2])
       [] m \in DOMAIN Unary -> EncodeUnaryGroup(ops, size, Unary[m][1], Unary[m][2])
       [] m \in DOMAIN Shift -> EncodeShift(ops, size, Shift[m])
       [] m = "push" -> EncodePush(ops)
       [] m = "pop" -> EncodePop(ops)
       [] m = "mov" -> EncodeMov(ops, size)
       [] m = "lea" -> EncodeLea(ops, size)
       [] m = "test" -> EncodeTest(ops, size)
       [] m = "xchg" -> EncodeXchg(ops, size)
       [] m = "imul" -> EncodeImul(ops, size)
       [] m = "call" -> EncodeCallJmp(ops, TRUE)
       [] m = "jmp" /\ s = "" -> EncodeCallJmp(ops, FALSE)
       [] m = "int" -> EncodeInt(ops)
       [] OTHER -> Bail
=============================================================================
