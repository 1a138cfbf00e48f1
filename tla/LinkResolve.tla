----------------------------- MODULE LinkResolve -----------------------------
(***************************************************************************)
(* Symbol resolution in oxide-ld: linker.rs link_elf_executable from the   *)
(* resolved inputs to the decision what goes into the image, with          *)
(* merge_object, inject_crt_symbols and the archive fixpoint.              *)
(*                                                                         *)
(* An object is a symbol table (at most one entry per name) and a set of   *)
(* relocations.  What the linker script discards is marked, not left out:  *)
(* the code looks at it too.  Sections, offsets and bytes do not matter    *)
(* here.                                                                   *)
(***************************************************************************)
EXTENDS Naturals, Sequences, FiniteSets

CONSTANTS Names,       \* symbol names
          ArrayNames,  \* __init_array_start and the like
          EdgeNames,   \* _edata, __bss_start, _end and the like
          Objects,     \* object files
          Symtab,      \* object -> name -> [bind, kept]
          Relocs,      \* object -> set of [name, kind, kept]
          Anchored,    \* the objects with a .text, .rodata, .data or .bss
          Libs,        \* shared objects
          Exports,     \* shared object -> the names it exports
          Inputs,      \* what is linked: [units, type]
          Undef        \* no definition, or no library

Binds == {"local", "weak", "global"}
Kinds == {"PLT32", "PC32", "R64", "R32"}
Types == {"exec", "pie", "shared"}

ASSUME NamesAssumption == ArrayNames \subseteq Names /\ EdgeNames \subseteq Names
ASSUME SymtabAssumption ==
  Symtab \in [Objects -> [Names -> [bind : Binds \cup {"none"}, kept : BOOLEAN]]]
ASSUME RelocsAssumption ==
  Relocs \in [Objects -> SUBSET [name : Names, kind : Kinds, kept : BOOLEAN]]
ASSUME ExportsAssumption == Exports \in [Libs -> SUBSET Names]

\* enum Unit: an object, an archive, or a shared object.
Units == [obj : Objects] \cup [members : Seq(Objects)] \cup [lib : Libs]

ASSUME InputsAssumption == Inputs \subseteq [units : Seq(Units), type : Types]

ASSUME UndefAssumption ==
  Undef \notin [by : Nat, bind : Binds] /\ Undef \notin Libs

VARIABLES input,       \* what is linked
          pc,          \* the phase
          k,           \* the next unit, or archive member
          merged,      \* the objects in the link, in merge order (`outputs`)
          defined,     \* name -> who defines it and how
          undefined,   \* undefined_refs
          members,     \* archive_members
          extracted,   \* the positions in members that are in the link
          changed,     \* has this pass extracted a member
          exports,     \* dynamic_exports: name -> the library to take it from
          needed,      \* needed_libs
          imports,     \* plt_imports
          relative,    \* the relocations with an entry in .rela.dyn
          result       \* "none", "ok" or "err"

vars == <<input, pc, k, merged, defined, undefined, members, extracted,
          changed, exports, needed, imports, relative, result>>

scan == <<members, extracted, changed>>
out  == <<imports, relative, result>>

Definition == [by : Nat, bind : Binds]

TypeOK ==
  /\ input \in Inputs
  /\ pc \in {"units", "scan", "inject", "classify", "emit", "done"}
  /\ k \in 1..(1 + IF pc = "units" THEN Len(input.units) ELSE Len(members))
  /\ merged \in Seq(Objects)
  /\ defined \in [Names -> Definition \cup {Undef}]
  /\ undefined \subseteq Names
  /\ members \in Seq(Objects)
  /\ extracted \subseteq DOMAIN members
  /\ changed \in BOOLEAN
  /\ exports \in [Names -> Libs \cup {Undef}]
  /\ needed \in Seq(Libs)
  /\ imports \subseteq Names
  /\ relative \subseteq [by : DOMAIN merged, name : Names]
  /\ result \in {"none", "ok", "err"}

Init ==
  /\ input \in Inputs
  /\ pc = "units" /\ k = 1
  /\ merged = <<>>
  /\ defined = [n \in Names |-> Undef]
  /\ undefined = {}
  /\ members = <<>> /\ extracted = {} /\ changed = FALSE
  /\ exports = [n \in Names |-> Undef]
  /\ needed = <<>>
  /\ imports = {} /\ relative = {}
  /\ result = "none"
-----------------------------------------------------------------------------
(***************************************************************************)
(* merge_object.                                                           *)
(***************************************************************************)
SymbolsOf == [o \in Objects |-> {n \in Names : Symtab[o][n].bind # "none"}]
RefsOf    == [o \in Objects |-> {r.name : r \in Relocs[o]}]

\* A symbol in a section that the script discards defines nothing.
Defines(o, n) == Symtab[o][n].bind # "none" /\ Symtab[o][n].kept

\* Wrong on purpose (sensitivity check): a later definition that is as good
\* replaces an earlier one.
ReplacesEqual(prev, bind) ==
  \/ prev = Undef
  \/ bind = "global" \/ prev.bind # "global"

\* The match on the previous definition, in the order of its arms.
Replaces(prev, bind) ==
  \/ prev = Undef
  \/ prev.bind = "weak" /\ bind # "weak"
  \/ prev.bind = "local" /\ bind # "local"

Resolve(o) ==
  [n \in Names |->
     IF Defines(o, n) /\ Replaces(defined[n], Symtab[o][n].bind)
     THEN [by |-> Len(merged) + 1, bind |-> Symtab[o][n].bind]
     ELSE defined[n]]

\* Wrong on purpose (sensitivity check): what the object lists itself is
\* taken for defined, discarded or not.
StillUndefinedListed(o) ==
  {n \in undefined \cup (RefsOf[o] \ SymbolsOf[o]) : Resolve(o)[n] = Undef}

StillUndefined(o) == {n \in undefined \cup RefsOf[o] : Resolve(o)[n] = Undef}

MergeObject(o) ==
  /\ merged' = Append(merged, o)
  /\ defined' = Resolve(o)
  /\ undefined' = StillUndefined(o)
-----------------------------------------------------------------------------
(***************************************************************************)
(* The inputs in command-line order.                                       *)
(***************************************************************************)
Unit == input.units[k]
AtUnit(field) == pc = "units" /\ k <= Len(input.units) /\ field \in DOMAIN Unit

MergeUnit ==
  /\ AtUnit("obj")
  /\ MergeObject(Unit.obj)
  /\ k' = k + 1
  /\ UNCHANGED <<input, pc, scan, exports, needed, out>>

\* An archive is only noted, wherever it stands on the command line.
NoteArchive ==
  /\ AtUnit("members")
  /\ members' = members \o Unit.members
  /\ k' = k + 1
  /\ UNCHANGED <<input, pc, merged, defined, undefined, extracted, changed,
                 exports, needed, out>>

\* Wrong on purpose (sensitivity check): the last library with a name has it.
NoteSharedLast ==
  /\ AtUnit("lib")
  /\ needed' = IF \E i \in DOMAIN needed : needed[i] = Unit.lib THEN needed
               ELSE Append(needed, Unit.lib)
  /\ exports' = [n \in Names |-> IF n \in Exports[Unit.lib] THEN Unit.lib
                                 ELSE exports[n]]
  /\ k' = k + 1
  /\ UNCHANGED <<input, pc, merged, defined, undefined, scan, out>>

\* The first library that exports a name is the one it is taken from.
NoteShared ==
  /\ AtUnit("lib")
  /\ needed' = IF \E i \in DOMAIN needed : needed[i] = Unit.lib THEN needed
               ELSE Append(needed, Unit.lib)
  /\ exports' = [n \in Names |-> IF exports[n] = Undef /\ n \in Exports[Unit.lib]
                                 THEN Unit.lib ELSE exports[n]]
  /\ k' = k + 1
  /\ UNCHANGED <<input, pc, merged, defined, undefined, scan, out>>

UnitsDone ==
  /\ pc = "units" /\ k > Len(input.units)
  /\ pc' = "scan" /\ k' = 1
  /\ UNCHANGED <<input, merged, defined, undefined, scan, exports, needed, out>>
-----------------------------------------------------------------------------
(***************************************************************************)
(* The archive fixpoint: passes over all members until one changes nothing.*)
(***************************************************************************)
Provides(i) == SymbolsOf[members[i]] \cap undefined # {}
AtMember == pc = "scan" /\ k <= Len(members)

Skip ==
  /\ AtMember
  /\ k \in extracted \/ ~Provides(k)
  /\ k' = k + 1
  /\ UNCHANGED <<input, pc, merged, defined, undefined, scan, exports, needed, out>>

Extract ==
  /\ AtMember
  /\ k \notin extracted /\ Provides(k)
  /\ MergeObject(members[k])
  /\ extracted' = extracted \cup {k}
  /\ changed' = TRUE
  /\ k' = k + 1
  /\ UNCHANGED <<input, pc, members, exports, needed, out>>

\* Wrong on purpose (sensitivity check): one pass; passes until nothing is
\* undefined.
PassDoneOnce ==
  /\ pc = "scan" /\ k > Len(members)
  /\ pc' = "inject" /\ k' = 1
  /\ UNCHANGED <<input, merged, defined, undefined, scan, exports, needed, out>>
PassDoneWhenResolved ==
  /\ pc = "scan" /\ k > Len(members)
  /\ IF undefined # {} /\ members # <<>> THEN k' = 1 /\ changed' = FALSE /\ UNCHANGED pc
     ELSE pc' = "inject" /\ UNCHANGED <<k, changed>>
  /\ UNCHANGED <<input, merged, defined, undefined, members, extracted, exports,
                 needed, out>>

PassDone ==
  /\ pc = "scan" /\ k > Len(members)
  /\ IF changed THEN k' = 1 /\ changed' = FALSE /\ UNCHANGED pc
     ELSE pc' = "inject" /\ UNCHANGED <<k, changed>>
  /\ UNCHANGED <<input, merged, defined, undefined, members, extracted, exports,
                 needed, out>>
-----------------------------------------------------------------------------
(***************************************************************************)
(* What the linker defines itself, and what is left.                       *)
(***************************************************************************)
\* The array bounds always exist; the edges of the image only if it has one.
Provided ==
  ArrayNames \cup
  (IF \E i \in DOMAIN merged : merged[i] \in Anchored THEN EdgeNames ELSE {})

\* PROVIDE: only what the program does not define itself.
InjectCrtSymbols ==
  /\ pc = "inject"
  /\ defined' = [n \in Names |->
       IF n \in Provided /\ defined[n] = Undef THEN [by |-> 0, bind |-> "global"]
       ELSE defined[n]]
  /\ undefined' = {n \in undefined : defined'[n] = Undef}
  /\ pc' = "classify"
  /\ UNCHANGED <<input, k, merged, scan, exports, needed, out>>

\* The relocations of the i-th object that are in an output section.
Kept(i) == {r \in Relocs[merged[i]] : r.kept}

\* reloc_kinds_for_symbol.
KindsOf(n) ==
  {kind \in Kinds : \E i \in DOMAIN merged : \E r \in Kept(i) :
                     r.name = n /\ r.kind = kind}

\* A name some library exports can be imported if it is only called.
Importable(n) == exports[n] # Undef /\ KindsOf(n) = {"PLT32"}

IsPic == input.type \in {"pie", "shared"}

\* Every other name that is left is fatal, and so is a 32-bit absolute address
\* in a position-independent image.
Fail ==
  \/ /\ pc = "classify"
     /\ \E n \in undefined : ~Importable(n)
  \/ /\ pc = "emit"
     /\ IsPic
     /\ \E i \in DOMAIN merged : \E r \in Kept(i) :
          r.kind = "R32" /\ defined[r.name] # Undef

Abort ==
  /\ Fail
  /\ result' = "err"
  /\ pc' = "done"
  /\ UNCHANGED <<input, k, merged, defined, undefined, scan, exports, needed,
                 imports, relative>>

Classify ==
  /\ pc = "classify" /\ ~Fail
  /\ imports' = undefined
  /\ pc' = "emit"
  /\ UNCHANGED <<input, k, merged, defined, undefined, scan, exports, needed,
                 relative, result>>

\* The addresses that have to be relocated at load time.
RelativeSites ==
  {s \in [by : DOMAIN merged, name : Names] :
     /\ IsPic
     /\ \E r \in Kept(s.by) : r.name = s.name /\ r.kind = "R64"
     /\ defined[s.name] # Undef}

HasDynamic == imports # {} \/ input.type = "shared"

Emit ==
  /\ pc = "emit" /\ ~Fail
  /\ relative' = IF HasDynamic THEN RelativeSites ELSE {}
  /\ result' = "ok"
  /\ pc' = "done"
  /\ UNCHANGED <<input, k, merged, defined, undefined, scan, exports, needed, imports>>

\* apply_reloc rejects a relocation, or writing the output fails.
WriteFails ==
  /\ pc = "emit"
  /\ result' = "err"
  /\ pc' = "done"
  /\ UNCHANGED <<input, k, merged, defined, undefined, scan, exports, needed,
                 imports, relative>>

Done == pc = "done" /\ UNCHANGED vars

Next ==
  \/ MergeUnit \/ NoteArchive \/ NoteShared \/ UnitsDone
  \/ Skip \/ Extract \/ PassDone
  \/ InjectCrtSymbols \/ Abort \/ Classify \/ Emit \/ WriteFails
  \/ Done

Spec == Init /\ [][Next]_vars

\* The program runs until it ends.
FairSpec == Spec /\ WF_vars(Next)
-----------------------------------------------------------------------------
(***************************************************************************)
(* Properties.                                                             *)
(***************************************************************************)
Strong(o, n) == Defines(o, n) /\ Symtab[o][n].bind = "global"

\* The first strong definition of a name in merge order is the one that
\* counts, whatever weak and local ones come before and after it, from objects
\* and from archive members, and whatever the linker provides.
FirstStrongWins ==
  \A n \in Names, i \in DOMAIN merged :
    Strong(merged[i], n) /\ (\A j \in 1..(i - 1) : ~Strong(merged[j], n))
      => defined[n] = [by |-> i, bind |-> "global"]

\* A link that succeeds leaves nothing to the fallbacks of the relocation pass
\* (an unknown symbol gets address 0 there): every relocation in the output
\* is against a definition, or is a call of an import.
AllResolved ==
  result = "ok" =>
    \A i \in DOMAIN merged : \A r \in Relocs[merged[i]] :
      r.kept => \/ defined[r.name] # Undef
                \/ r.name \in imports /\ r.kind = "PLT32"

\* An import comes from the first shared object on the command line that
\* exports it, and that one is in DT_NEEDED.
ImportsAreNeeded ==
  \A n \in imports : \E i \in DOMAIN needed :
    /\ n \in Exports[needed[i]]
    /\ \A j \in 1..(i - 1) : n \notin Exports[needed[j]]
    /\ exports[n] = needed[i]

\* The passes of the fixpoint pull what they should and stop when they should.
AC == INSTANCE ArchiveClosure WITH
        pulled <- extracted,
        wanted <- undefined,
        phase  <- CASE pc = "units" -> "loading"
                    [] pc = "scan"  -> "pulling"
                    [] OTHER        -> "closed"
ImplementsArchiveClosure == AC!Spec

\* What is left to do: the phases to come, the members that can still be
\* extracted, whether another pass is due, the units or members of this one.
PhasesToCome ==
  CASE pc = "units" -> 5 [] pc = "scan" -> 4 [] pc = "inject" -> 3
    [] pc = "classify" -> 2 [] pc = "emit" -> 1 [] pc = "done" -> 0
ToDo ==
  <<PhasesToCome,
    IF pc = "scan" THEN Cardinality(DOMAIN members \ extracted) ELSE 0,
    IF pc = "scan" /\ changed THEN 1 ELSE 0,
    CASE pc = "units" -> Len(input.units) + 1 - k
      [] pc = "scan"  -> Len(members) + 1 - k
      [] OTHER        -> 0>>
Below(a, b) == \E i \in 1..4 : a[i] < b[i] /\ \A j \in 1..(i - 1) : a[j] = b[j]

\* No step of the link goes round: each leaves less to do, in the order of
\* tuples of numbers, which has no infinite descent.  A pass over the archives
\* is repeated only after one that has extracted a member for good
\* (linker.rs, the loop over `changed`).
LeavesLess == [][Below(ToDo', ToDo) /\ ToDo \in [1..4 -> Nat]]_vars

\* The fixpoint ends, and with it the link.
Termination == <>(pc = "done")

\* objload.rs, referenced_symbols: a reference "may turn out to be satisfied by
\* our own `symbols` for intra-object references".  A reference to a symbol
\* that the object itself defines as local means that symbol.
LocalsBindHome ==
  result = "ok" =>
    \A i \in DOMAIN merged : \A r \in Relocs[merged[i]] :
      r.kept /\ Symtab[merged[i]][r.name] = [bind |-> "local", kept |-> TRUE]
        => defined[r.name].by = i
=============================================================================
