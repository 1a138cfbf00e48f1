----------------------------- MODULE AsmMacros ------------------------------
(* oxide-as: the preprocessor (macros.rs).  A queue of source lines is taken *)
(* from the front; conditionals switch lines off, .macro and .rept capture   *)
(* the lines up to their end, and the lines of an expansion go back to the   *)
(* front of the queue.                                                       *)
(*                                                                           *)
(* A line is [label, word, s, args]: the label before its colon or NoLabel,  *)
(* the directive or the stem of the mnemonic, the rest of the mnemonic, and  *)
(* the operands, as AsmEncode has them.  Two more operands occur here:       *)
(* [k |-> "param", name], a \name to be replaced, and Nothing, no text.      *)
EXTENDS Integers, Sequences, SequencesExt, TLC

VARIABLES
  queue,     \* lines: those not looked at yet
  ifStack,   \* if_stack: [active, condWasTrue], the innermost last
  macros,    \* name |-> [params, body]
  known,     \* known_defined: the names .ifdef finds
  values,    \* known_values: name |-> integer
  out        \* the lines for the parser
macroVars == <<queue, ifStack, macros, known, values, out>>

NoLabel == ""
Nothing == [k |-> "nothing"]
----------------------------------------------------------------------------
\* The first word of a line with a label is the label: what follows it is no directive here.
FirstWord(line) == IF line.label = NoLabel THEN line.word ELSE line.label \o ":"
Args(line) == IF line.label = NoLabel THEN line.args ELSE <<[k |-> "rest"]>>
Arg(line, i) == IF i <= Len(Args(line)) THEN Args(line)[i] ELSE Nothing
EnclosingActive == \A i \in DOMAIN ifStack : ifStack[i].active

\* A literal, or a name .equ or .set gave a value before.
EvalIntAtom(arg) ==
  CASE arg.k = "imm" -> {arg.lo}
    [] arg.k = "sym" /\ arg.form = "bare" /\ arg.name \in DOMAIN values -> {values[arg.name]}
    [] OTHER -> {}
IntOr0(arg) == IF EvalIntAtom(arg) = {} THEN 0 ELSE CHOOSE v \in EvalIntAtom(arg) : TRUE

CaptureUntilFirst(lines, start, end) ==    \* a mutation: blocks of the same kind do not nest
  LET ends == {i \in DOMAIN lines : FirstWord(lines[i]) = end}
  IN IF ends = {} THEN Len(lines) + 1 ELSE CHOOSE i \in ends : \A j \in ends : i <= j
\* The number of lines up to the end that matches a start already taken; all lines if none does.
CaptureUntil(lines, start, end) ==
  LET Depth(i) == 1 + Len(SelectSeq(SubSeq(lines, 1, i), LAMBDA l : FirstWord(l) = start))
                    - Len(SelectSeq(SubSeq(lines, 1, i), LAMBDA l : FirstWord(l) = end))
      ends == {i \in DOMAIN lines : Depth(i) = 0}
  IN IF ends = {} THEN Len(lines) + 1 ELSE CHOOSE i \in ends : \A j \in ends : i <= j
Body(start, end) == SubSeq(Tail(queue), 1, CaptureUntil(Tail(queue), start, end) - 1)
After(start, end) ==
  SubSeq(Tail(queue), CaptureUntil(Tail(queue), start, end) + 1, Len(Tail(queue)))

\* The value of each parameter, under its name and under its number.
ParamValue(params, i, args) ==
  IF i <= Len(args) /\ args[i] # Nothing THEN args[i] ELSE params[i].default
Bindings(params, args) ==
  [p \in {params[i].name : i \in DOMAIN params} \cup {ToString(i) : i \in DOMAIN params} |->
     LET named == {i \in DOMAIN params : params[i].name = p \/ ToString(i) = p}
     IN ParamValue(params, CHOOSE i \in named : \A j \in named : j <= i, args)]
SubstituteParams(line, bind) ==
  [line EXCEPT !.args = [i \in DOMAIN @ |->
     IF @[i].k = "param" /\ @[i].name \in DOMAIN bind THEN bind[@[i].name] ELSE @[i]]]
ExpandMacro(def, args) == [i \in DOMAIN def.body |-> SubstituteParams(def.body[i], Bindings(def.params, args))]
Repeated(body, n) == [i \in 1..(n * Len(body)) |-> body[((i - 1) % Len(body)) + 1]]
----------------------------------------------------------------------------
PreprocessInit ==
  /\ ifStack = <<>>
  /\ macros = <<>>
  /\ known = {}
  /\ values = <<>>
  /\ out = <<>>

First(words) == queue # <<>> /\ FirstWord(Head(queue)) \in words

\* .macro NAME params .. .endm; captured, and forgotten, when inactive.
DefineMacro ==
  /\ First({".macro"})
  /\ queue' = After(".macro", ".endm")
  /\ IF EnclosingActive
     THEN LET decl == Head(queue).args[1] IN
          /\ macros' = (decl.name :> [params |-> decl.params, body |-> Body(".macro", ".endm")]) @@ macros
          /\ known' = known \cup {decl.name}
     ELSE UNCHANGED <<macros, known>>
  /\ UNCHANGED <<ifStack, values, out>>

Rept ==
  /\ First({".rept"})
  /\ LET count == IF EnclosingActive THEN IntOr0(Arg(Head(queue), 1)) ELSE 0
         body  == Body(".rept", ".endr")
     IN queue' = (IF count > 0 /\ body # <<>> THEN Repeated(body, count) ELSE <<>>) \o After(".rept", ".endr")
  /\ UNCHANGED <<ifStack, macros, known, values, out>>

Push(cond) ==
  /\ queue' = Tail(queue)
  /\ ifStack' = Append(ifStack, [active |-> EnclosingActive /\ cond, condWasTrue |-> cond])
  /\ UNCHANGED <<macros, known, values, out>>
IfWhenActive ==    \* a mutation: an .if in an inactive branch opens nothing
  First({".if"}) /\ IF EnclosingActive THEN Push(IntOr0(Arg(Head(queue), 1)) # 0)
                    ELSE queue' = Tail(queue) /\ UNCHANGED <<ifStack, macros, known, values, out>>
If == First({".if"}) /\ Push(EnclosingActive /\ IntOr0(Arg(Head(queue), 1)) # 0)
IfDefined == First({".ifdef"}) /\ Push(Arg(Head(queue), 1).name \in known)
IfNotDefined == First({".ifndef"}) /\ Push(Arg(Head(queue), 1).name \notin known)

\* The condition stays what it was: a second .else changes nothing.
Else ==
  /\ First({".else"})
  /\ queue' = Tail(queue)
  /\ ifStack' = IF ifStack = <<>> THEN ifStack
                ELSE LET outer == Front(ifStack)
                         top   == Last(ifStack)
                     IN Append(outer, [top EXCEPT !.active = (\A i \in DOMAIN outer : outer[i].active)
                                                              /\ ~top.condWasTrue])
  /\ UNCHANGED <<macros, known, values, out>>
Endif ==
  /\ First({".endif"})
  /\ queue' = Tail(queue)
  /\ ifStack' = IF ifStack = <<>> THEN ifStack ELSE Front(ifStack)
  /\ UNCHANGED <<macros, known, values, out>>

Plain(line) == FirstWord(line) \notin {".macro", ".rept", ".if", ".ifdef", ".ifndef", ".else", ".endif"}
Equate ==
  /\ First({".equ", ".set"})
  /\ EnclosingActive
  /\ queue' = Tail(queue)
  /\ out' = Append(out, Head(queue))
  /\ LET name == Arg(Head(queue), 1)
         v    == EvalIntAtom(Arg(Head(queue), 2))
     IN IF Arg(Head(queue), 2) = Nothing THEN UNCHANGED <<known, values>>    \* no comma
        ELSE /\ known' = known \cup {name.name}
             /\ values' = IF v = {} THEN values ELSE (name.name :> IntOr0(Arg(Head(queue), 2))) @@ values
  /\ UNCHANGED <<ifStack, macros>>
Invoke ==
  /\ queue # <<>>
  /\ Plain(Head(queue)) /\ ~First({".equ", ".set"})
  /\ EnclosingActive
  /\ FirstWord(Head(queue)) \o Head(queue).s \in DOMAIN macros
  /\ queue' = ExpandMacro(macros[FirstWord(Head(queue)) \o Head(queue).s], Args(Head(queue))) \o Tail(queue)
  /\ UNCHANGED <<ifStack, macros, known, values, out>>
PassThrough ==
  /\ queue # <<>>
  /\ Plain(Head(queue)) /\ ~First({".equ", ".set"})
  /\ EnclosingActive
  /\ FirstWord(Head(queue)) \o Head(queue).s \notin DOMAIN macros
  /\ queue' = Tail(queue)
  /\ out' = Append(out, Head(queue))
  /\ UNCHANGED <<ifStack, macros, known, values>>
Drop ==
  /\ queue # <<>>
  /\ Plain(Head(queue))
  /\ ~EnclosingActive
  /\ queue' = Tail(queue)
  /\ UNCHANGED <<ifStack, macros, known, values, out>>

Preprocess ==
  \/ DefineMacro \/ Rept \/ If \/ IfDefined \/ IfNotDefined \/ Else \/ Endif
  \/ Equate \/ Invoke \/ PassThrough \/ Drop
=============================================================================
