----------------------------- MODULE X86Decode ------------------------------
(* What an x86-64 processor makes of the bytes that AsmEncode writes: one    *)
(* instruction of the subset, decoded by the tables of the architecture      *)
(* manual.  It is the reference that the encoder is compared with and not a  *)
(* part of oxideutils.                                                       *)
(*   Decode(code, at) = [op, w, args, len]: the operation, its width in bits,*)
(* its operands with the destination first, and the number of bytes it took, *)
(* for code[1] at the address at.                                            *)
EXTENDS Integers, Sequences, SequencesExt

Signed8(b) == IF b < 128 THEN b ELSE b - 256
Signed32(code, i) == code[i] + 256 * code[i + 1] + 65536 * code[i + 2] + 16777216 * Signed8(code[i + 3])
----------------------------------------------------------------------------
(* Operands: <<"r", n, high>>, <<"x", n>>, <<"m", base, index, scale, disp>>, *)
(* <<"abs", address>>, <<"to", address>>, <<"i", bytes>>.                    *)
GprOf(n, w, hasRex) == IF w = 8 /\ ~hasRex /\ n \in 4..7 THEN <<"r", n - 4, TRUE>> ELSE <<"r", n, FALSE>>

\* The immediate of n bytes at i, sign-extended to w bits.
ImmAt(code, i, n, w) ==
  <<"i", [j \in 1..(w \div 8) |-> IF j <= n THEN code[i + j - 1] ELSE IF code[i + n - 1] < 128 THEN 0 ELSE 255]>>

\* The ModRM byte at i: its fields, the memory operand if mod # 3, and the index after it.
ModRMAt(code, i, rexR, rexX, rexB) ==
  LET mod   == code[i] \div 64
      rm    == code[i] % 8
      reg   == (code[i] \div 8) % 8
      sib   == code[i + 1]
      hasSib == mod # 3 /\ rm = 4
      low   == IF hasSib THEN sib % 8 ELSE rm
      noBase == mod = 0 /\ low = 5
      index == ((sib \div 8) % 8) + 8 * rexX
      j     == i + IF hasSib THEN 2 ELSE 1
      dispLen == CASE mod = 1 -> 1 [] mod = 2 \/ noBase -> 4 [] OTHER -> 0
      disp  == CASE dispLen = 1 -> Signed8(code[j]) [] dispLen = 4 -> Signed32(code, j) [] OTHER -> 0
  IN [isReg |-> mod = 3, rm |-> rm + 8 * rexB, reg |-> reg + 8 * rexR, group |-> reg,
      rip |-> noBase /\ ~hasSib, disp |-> disp, next |-> j + dispLen,
      mem |-> <<"m", IF noBase THEN -1 ELSE low + 8 * rexB,
                IF hasSib /\ index # 4 THEN index ELSE -1,
                IF hasSib /\ index # 4 THEN 2 ^ (sib \div 64) ELSE 1, disp>>]
----------------------------------------------------------------------------
AluNames == <<"add", "or", "adc", "sbb", "and", "sub", "xor", "cmp">>
ShiftNames == <<"rol", "ror", "rcl", "rcr", "shl", "shr", "shl", "sar">>
Group3 == <<"test", "test", "not", "neg", "mul", "imul", "div", "idiv">>
Group5 == <<"inc", "dec", "call", "callf", "jmp", "jmpf", "push", "?">>

\* Instructions without operands, by opcode; those of two bytes after 0F.
NoOperands(b, prefix, w) ==
  CASE b = \hc3 -> "ret" [] b = \hc9 -> "leave" [] b = \hf4 -> "hlt" [] b = \h99 -> IF w = 64 THEN "cqo" ELSE "cdq"
    [] b = \h98 -> (IF w = 64 THEN "cdqe" ELSE "cwde") [] b = \hf8 -> "clc" [] b = \hf9 -> "stc" [] b = \hf5 -> "cmc"
    [] b = \hfa -> "cli" [] b = \hfb -> "sti" [] b = \hfc -> "cld" [] b = \hfd -> "std" [] b = \h9f -> "lahf"
    [] b = \h9e -> "sahf" [] b = \h9c -> "pushf" [] b = \h9d -> "popf"
    [] b = \h90 -> (IF prefix = \hf3 THEN "pause" ELSE "nop") [] OTHER -> "?"
NoOperands0F(b, next, prefix) ==
  CASE b = \h05 -> "syscall" [] b = \h34 -> "sysenter" [] b = \h35 -> "sysexit" [] b = \h0b -> "ud2"
    [] b = \ha2 -> "cpuid" [] b = \h31 -> "rdtsc" [] b = \h01 /\ next = \hf9 -> "rdtscp"
    [] b = \h1e /\ prefix = \hf3 /\ next = \hfa -> "endbr64" [] b = \h1e /\ prefix = \hf3 /\ next = \hfb -> "endbr32"
    [] b = \hae /\ next = \he8 -> "lfence" [] b = \hae /\ next = \hf8 -> "sfence" [] b = \hae /\ next = \hf0 -> "mfence"
    [] OTHER -> "?"
\* SSE operations, by opcode and mandatory prefix (0: none).
SseName(b, prefix) ==
  LET Kind(ss, sd, ps, pd) == CASE prefix = \hf3 -> ss [] prefix = \hf2 -> sd [] prefix = 0 -> ps [] OTHER -> pd
  IN CASE b \in {\h10, \h11} -> Kind("movss", "movsd", "movups", "movupd")
       [] b \in {\h28, \h29} -> Kind("?", "?", "movaps", "movapd")
       [] b = \h58 -> Kind("addss", "addsd", "addps", "addpd") [] b = \h5c -> Kind("subss", "subsd", "subps", "subpd")
       [] b = \h59 -> Kind("mulss", "mulsd", "mulps", "mulpd") [] b = \h5e -> Kind("divss", "divsd", "divps", "divpd")
       [] b = \h57 -> Kind("?", "?", "xorps", "xorpd") [] b = \h2e -> Kind("?", "?", "ucomiss", "ucomisd")
       [] b = \h2a -> Kind("cvtsi2ss", "cvtsi2sd", "?", "?") [] b = \h2c -> Kind("cvttss2si", "cvttsd2si", "?", "?")
       [] OTHER -> "?"

Decode(code, at) ==
  LET prefix == IF code[1] \in {\h66, \hf2, \hf3} THEN code[1] ELSE 0
      p      == IF prefix = 0 THEN 1 ELSE 2
      hasRex == code[p] \in \h40..\h4f
      rex    == IF hasRex THEN code[p] ELSE 0
      rexB   == rex % 2
      i      == IF hasRex THEN p + 1 ELSE p
      b      == code[i]
      c      == code[i + 1]
      two    == b = \h0f
      wide   == IF (rex \div 8) % 2 = 1 THEN 64 ELSE IF prefix = \h66 THEN 16 ELSE 32
      stack  == IF prefix = \h66 THEN 16 ELSE 64
      Imm32(j, w) == ImmAt(code, j, IF w = 16 THEN 2 ELSE 4, w)
      ImmLen(w) == IF w = 16 THEN 2 ELSE 4
      M      == ModRMAt(code, IF two THEN i + 2 ELSE i + 1, (rex \div 4) % 2, (rex \div 2) % 2, rexB)
      \* e immediate bytes follow the ModRM operand
      Rm(w, e) == CASE M.isReg -> GprOf(M.rm, w, hasRex) [] M.rip -> <<"abs", at + M.next - 1 + e + M.disp>> [] OTHER -> M.mem
      RmX    == IF M.isReg THEN <<"x", M.rm>> ELSE IF M.rip THEN <<"abs", at + M.next - 1 + M.disp>> ELSE M.mem
      Reg(w) == GprOf(M.reg, w, hasRex)
      R(op, w, args, next) == [op |-> op, w |-> w, args |-> args, len |-> next - 1]
      bw     == IF b % 2 = 0 THEN 8 ELSE wide      \* byte form: even opcode
      low    == GprOf((b % 8) + 8 * rexB, wide, hasRex)
  IN CASE b < \h40 /\ b % 8 < 2 -> R(AluNames[(b \div 8) + 1], bw, <<Rm(bw, 0), Reg(bw)>>, M.next)
       [] b < \h40 /\ b % 8 \in 2..3 -> R(AluNames[(b \div 8) + 1], bw, <<Reg(bw), Rm(bw, 0)>>, M.next)
       [] b \in \h50..\h57 -> R("push", stack, <<low>>, i + 1)
       [] b \in \h58..\h5f -> R("pop", stack, <<low>>, i + 1)
       [] b = \h68 -> R("push", stack, <<ImmAt(code, i + 1, 4, 64)>>, i + 5)
       [] b = \h6a -> R("push", stack, <<ImmAt(code, i + 1, 1, 64)>>, i + 2)
       [] b = \h69 -> R("imul", wide, <<Reg(wide), Rm(wide, ImmLen(wide)), Imm32(M.next, wide)>>, M.next + ImmLen(wide))
       [] b = \h6b -> R("imul", wide, <<Reg(wide), Rm(wide, 1), ImmAt(code, M.next, 1, wide)>>, M.next + 1)
       [] b = \h80 -> R(AluNames[M.group + 1], 8, <<Rm(8, 1), ImmAt(code, M.next, 1, 8)>>, M.next + 1)
       [] b = \h81 -> R(AluNames[M.group + 1], wide, <<Rm(wide, ImmLen(wide)), Imm32(M.next, wide)>>, M.next + ImmLen(wide))
       [] b = \h83 -> R(AluNames[M.group + 1], wide, <<Rm(wide, 1), ImmAt(code, M.next, 1, wide)>>, M.next + 1)
       [] b \in \h84..\h85 -> R("test", bw, <<Rm(bw, 0), Reg(bw)>>, M.next)
       [] b \in \h86..\h87 -> R("xchg", bw, <<Rm(bw, 0), Reg(bw)>>, M.next)
       [] b \in \h88..\h89 -> R("mov", bw, <<Rm(bw, 0), Reg(bw)>>, M.next)
       [] b \in \h8a..\h8b -> R("mov", bw, <<Reg(bw), Rm(bw, 0)>>, M.next)
       [] b = \h8d -> R("lea", wide, <<Reg(wide), Rm(wide, 0)>>, M.next)
       [] b = \h8f -> R("pop", stack, <<Rm(64, 0)>>, M.next)
       [] b \in \h90..\h97 /\ (b # \h90 \/ rex # 0) -> R("xchg", wide, <<low, <<"r", 0, FALSE>>>>, i + 1)
       [] b \in \hb0..\hb7 -> R("mov", 8, <<GprOf((b % 8) + 8 * rexB, 8, hasRex), ImmAt(code, i + 1, 1, 8)>>, i + 2)
       [] b \in \hb8..\hbf -> R("mov", wide, <<low, ImmAt(code, i + 1, wide \div 8, wide)>>, i + 1 + (wide \div 8))
       [] b \in \hc0..\hc1 -> R(ShiftNames[M.group + 1], bw, <<Rm(bw, 1), ImmAt(code, M.next, 1, 8)>>, M.next + 1)
       [] b \in \hd0..\hd1 -> R(ShiftNames[M.group + 1], bw, <<Rm(bw, 0), <<"i", <<1>>>>>>, M.next)
       [] b \in \hd2..\hd3 -> R(ShiftNames[M.group + 1], bw, <<Rm(bw, 0), <<"r", 1, FALSE>>>>, M.next)
       [] b = \hcd -> R("int", 0, <<ImmAt(code, i + 1, 1, 8)>>, i + 2)
       [] b \in \he8..\he9 -> R(IF b = \he8 THEN "call" ELSE "jmp", 64, <<<<"to", at + i + 4 + Signed32(code, i + 1)>>>>, i + 5)
       [] b \in \hf6..\hf7 /\ M.group < 2 ->
            LET n == IF b = \hf6 THEN 1 ELSE ImmLen(wide)
            IN R("test", bw, <<Rm(bw, n), ImmAt(code, M.next, n, bw)>>, M.next + n)
       [] b \in \hf6..\hf7 /\ M.group >= 2 -> R(Group3[M.group + 1], bw, <<Rm(bw, 0)>>, M.next)
       [] b \in \hfe..\hff /\ M.group < 2 -> R(Group5[M.group + 1], bw, <<Rm(bw, 0)>>, M.next)
       [] b = \hff /\ M.group >= 2 -> R(Group5[M.group + 1], stack, <<Rm(64, 0)>>, M.next)
       [] two /\ c = \haf -> R("imul", wide, <<Reg(wide), Rm(wide, 0)>>, M.next)
       [] two /\ c \in \h80..\h8f -> R("jcc", c % 16, <<<<"to", at + i + 5 + Signed32(code, i + 2)>>>>, i + 6)
       [] two /\ c \in \h90..\h9f -> R("setcc", c % 16, <<Rm(8, 0)>>, M.next)
       [] two /\ c \in {\h11, \h29} -> R(SseName(c, prefix), 0, <<RmX, <<"x", M.reg>>>>, M.next)
       [] two /\ c = \h2a -> R(SseName(c, prefix), wide, <<<<"x", M.reg>>, Rm(wide, 0)>>, M.next)
       [] two /\ c = \h2c -> R(SseName(c, prefix), wide, <<<<"r", M.reg, FALSE>>, RmX>>, M.next)
       [] two /\ c \in {\h10, \h28, \h58, \h5c, \h59, \h5e, \h57, \h2e} -> R(SseName(c, prefix), 0, <<<<"x", M.reg>>, RmX>>, M.next)
       [] two /\ c \in {\h05, \h34, \h35, \h0b, \ha2, \h31} -> R(NoOperands0F(c, 0, prefix), 0, <<>>, i + 2)
       [] two /\ c \in {\h01, \h1e, \hae} -> R(NoOperands0F(c, code[i + 2], prefix), 0, <<>>, i + 3)
       [] OTHER -> R(NoOperands(b, prefix, wide), 0, <<>>, i + 1)
=============================================================================
