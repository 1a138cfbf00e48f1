----------------------------- MODULE LinkImage ------------------------------
(***************************************************************************)
(* oxide-ld from the resolved symbols to the finished file: linker.rs from *)
(* the dynamic sections on, dynamic.rs, reloc.rs, with elfout.rs as        *)
(* LinkLayout.  The sizes of all sections are fixed before they have       *)
(* addresses; the contents that depend on addresses are filled in between  *)
(* assign_vmas and emit.                                                   *)
(***************************************************************************)
EXTENDS LinkLayout, SequencesExt

CONSTANTS Links,        \* what was resolved
          Hash(_),      \* elf_hash of a name
          Half32        \* 2^31: half of what 32 bits hold

ASSUME Half32Assumption == Half32 \in Nat \ {0}

Word32 == 2 * Half32

\* A link: its type, the output sections, the defined symbols in the order of
\* their names, the relocations, the imported functions in the order of their
\* names, the number of needed libraries, whether there is a soname.  Every
\* relocation has a definition or is of an import (LinkResolve, AllResolved),
\* and an import is only called.
Symbol == [name : STRING, sec : STRING, off : Nat, global : BOOLEAN]
Relocs == {"64", "32", "32s", "pc32", "plt32", "tpoff32", "gottpoff"}

\* inplace: what the 32 bits to be relocated hold, read as a signed number.
Reloc  == [sec : STRING, off : Nat, type : Relocs, addend : Int, sym : STRING,
           inplace : (0 - Half32)..(Half32 - 1)]

VARIABLES link,
          stage,    \* "layout", "patched", "emit" or "failed"
          content,  \* what was patched into the dynamic sections
          words     \* relocation -> the value written in its place

imageVars == <<link, stage, content, words>>
vars == <<layoutVars, imageVars>>
-----------------------------------------------------------------------------
(***************************************************************************)
(* The sections and their sizes.                                           *)
(***************************************************************************)
\* The elements at the places of S, in their order: SelectSeq, as a function of
\* the places looked at.
Chosen(s, S) ==
  LET chosen[i \in 0..Len(s)] ==
        IF i = 0 THEN <<>>
        ELSE IF i \in S THEN Append(chosen[i - 1], s[i]) ELSE chosen[i - 1]
  IN  chosen[Len(s)]

IsPic(l) == l.type \in {"pie", "shared"}
Exported(l) == {i \in DOMAIN l.syms : l.type = "shared" /\ l.syms[i].global}
Exports(l)  == Chosen(l.syms, Exported(l))
HasDynamic(l) == l.imports # <<>> \/ Exports(l) # <<>> \/ l.type = "shared"

\* .dynsym without its first, empty entry: imports first.
DynNames(l) == l.imports \o [i \in DOMAIN Exports(l) |-> Exports(l)[i].name]

Defined(l) == {l.syms[i].name : i \in DOMAIN l.syms}
Definition(l, name) == l.syms[CHOOSE i \in DOMAIN l.syms : l.syms[i].name = name]

\* Absolute addresses that depend on where the image is loaded.
IsRelative(l, r) == IsPic(l) /\ r.type = "64" /\ r.sym \in Defined(l)
RelativeSites(l) == Chosen(l.relocs, {i \in DOMAIN l.relocs : IsRelative(l, l.relocs[i])})

\* The variables with a slot in .got.tls, in the order of their names.
GotTlsSyms(l) ==
  Chosen(l.syms, {i \in DOMAIN l.syms :
                    \E r \in ToSet(l.relocs) : r.type = "gottpoff" /\ r.sym = l.syms[i].name})

\* Wrong on purpose (sensitivity check): .rela.dyn is counted when it is empty.
DynamicEntryCountFull(l) ==
  l.needed + Count(l.soname) + 5 + 4 * Count(l.imports # <<>>) + 3 + 2

\* dynamic_entry_count.
DynamicEntryCount(l) ==
  l.needed + Count(l.soname) + 5 + 4 * Count(l.imports # <<>>)
    + 3 * Count(RelativeSites(l) # <<>>) + 2

\* build_hash_section: two words, a bucket per entry and a chain.
HashSize(l) == 8 + 8 * (Len(DynNames(l)) + 1)

Sized(name, class, size, align) == [name |-> name, class |-> class, size |-> size, align |-> align]

DynamicSections(l) ==
  IF ~HasDynamic(l) THEN <<>>
  ELSE << Sized(".hash", "rx", HashSize(l), 8),
          Sized(".dynsym", "rx", 24 * (Len(DynNames(l)) + 1), 8),
          Sized(".dynstr", "rx", l.strings, 1),
          Sized(".rela.dyn", "rx", 24 * Len(RelativeSites(l)), 8),
          Sized(".rela.plt", "rx", 24 * Len(l.imports), 8),
          Sized(".plt", "rx", 16 * Len(l.imports), 16),
          Sized(".got.plt", "rw", 8 * Len(l.imports), 8),
          Sized(".dynamic", "rw", 16 * DynamicEntryCount(l), 8) >>

GotTls(l) ==
  IF GotTlsSyms(l) = <<>> THEN <<>>
  ELSE << Sized(".got.tls", "rx", 8 * Len(GotTlsSyms(l)), 8) >>

EXEC_BASE == 4194304

\* image.sections; image.dynamic_sections come after them.
Regular(l) == l.outputs \o GotTls(l)

Skeleton(l) ==
  LET secs == Regular(l) \o DynamicSections(l) IN
  [n |-> Len(secs), secs |-> secs, base |-> IF IsPic(l) THEN 0 ELSE EXEC_BASE,
   interp |-> IF l.type = "shared" THEN 0 ELSE l.interp, tables |-> l.tables]

\* The sections the linker makes itself.
LinkerMade ==
  {".got.tls", ".hash", ".dynsym", ".dynstr", ".rela.dyn", ".rela.plt", ".plt", ".got.plt", ".dynamic"}

\* Names are keys of maps.  No linker script puts input into a section of the
\* linker's own, and no object has two relocations of one 64-bit word.
Distinct(l) ==
  /\ \A i, j \in DOMAIN l.outputs : l.outputs[i].name = l.outputs[j].name => i = j
  /\ \A i \in DOMAIN l.outputs : l.outputs[i].name \notin LinkerMade
  /\ \A i, j \in DOMAIN l.syms : l.syms[i].name = l.syms[j].name => i = j
  /\ \A i, j \in DOMAIN l.imports : l.imports[i] = l.imports[j] => i = j
  /\ ToSet(l.imports) \cap Defined(l) = {}
  /\ \A r, q \in ToSet(l.relocs) :
       r.type = "64" /\ q.type = "64" /\ r.sec = q.sec /\ r.off = q.off => r = q

IsLink(l) ==
  /\ l.type \in {"executable", "pie", "shared"}
  /\ l.outputs \in Seq(Section) /\ l.syms \in Seq(Symbol) /\ l.relocs \in Seq(Reloc)
  /\ l.imports \in Seq(STRING) /\ l.soname \in BOOLEAN
  /\ {l.needed, l.strings, l.interp, l.tables} \subseteq Nat
  /\ \A r \in ToSet(l.relocs) :
       r.sym \in Defined(l) \/ (r.sym \in ToSet(l.imports) /\ r.type = "plt32")
  /\ Distinct(l)

ASSUME LinksAssumption == \A l \in Links : IsLink(l)
ASSUME SkeletonsAssumption == Images = {Skeleton(l) : l \in Links}

\* A 32-bit absolute address in an image that can be loaded anywhere.
TooNarrow(l) ==
  IsPic(l) /\ \E r \in ToSet(l.relocs) : r.type \in {"32", "32s"} /\ r.sym \in Defined(l)

NoContents == [plt |-> <<>>, relaPlt |-> <<>>, relaDyn |-> <<>>, dynsym |-> <<>>, tags |-> <<>>]

IInit ==
  /\ link \in Links
  /\ image = Skeleton(link) /\ Start
  /\ stage = IF TooNarrow(link) THEN "failed" ELSE "layout"
  /\ content = NoContents
  /\ words = <<>>
-----------------------------------------------------------------------------
(***************************************************************************)
(* TLS: offsets from the thread pointer, from the sizes of the sections.   *)
(***************************************************************************)
OutputOf(name) == {i \in DOMAIN link.outputs : link.outputs[i].name = name}
OutputSize(name) ==
  IF OutputOf(name) = {} THEN 0 ELSE link.outputs[CHOOSE i \in OutputOf(name) : TRUE].size
TlsAligns == {link.outputs[i].align : i \in OutputOf(".tdata") \cup OutputOf(".tbss")} \cup {1}
TlsAlign == CHOOSE a \in TlsAligns : \A b \in TlsAligns : b <= a

\* Wrong on purpose (sensitivity check): the block is not rounded up.
TlsBlockSizeExact == OutputSize(".tdata") + OutputSize(".tbss")

TlsBlockSize == AlignUp(OutputSize(".tdata") + OutputSize(".tbss"), TlsAlign)

\* tpoff_of.
TpOff(s) ==
  (IF s.sec = ".tdata" THEN s.off ELSE OutputSize(".tdata") + s.off) - TlsBlockSize

\* got_tls_data: the contents of .got.tls, which no address changes.
GotTlsData == [e \in DOMAIN GotTlsSyms(link) |-> TpOff(GotTlsSyms(link)[e])]
-----------------------------------------------------------------------------
(***************************************************************************)
(* Contents and relocations.                                               *)
(***************************************************************************)
\* The address of a section, 0 if there is none.
Address(name) ==
  IF Named({name}) = {} THEN 0 ELSE vma[CHOOSE i \in Named({name}) : TRUE]
AbsSym(name) == Address(Definition(link, name).sec) + Definition(link, name).off
Site(r) == Address(r.sec) + r.off

PltEntry(i) == Address(".plt") + 16 * (i - 1)
GotSlot(i)  == Address(".got.plt") + 8 * (i - 1)

\* build_dynamic_section, without the values.
DynamicTags ==
  [i \in 1..link.needed |-> "NEEDED"]
    \o (IF link.soname THEN <<"SONAME">> ELSE <<>>)
    \o <<"HASH", "STRTAB", "SYMTAB", "STRSZ", "SYMENT">>
    \o (IF link.imports # <<>> THEN <<"PLTGOT", "PLTRELSZ", "PLTREL", "JMPREL">> ELSE <<>>)
    \o (IF RelativeSites(link) # <<>> THEN <<"RELA", "RELASZ", "RELAENT">> ELSE <<>>)
    \o <<"FLAGS", "NULL">>

\* build_plt_stub: the displacement of the jump, from the instruction's end.
PltStub(i) == GotSlot(i) - (PltEntry(i) + 6)

\* Wrong on purpose (sensitivity check): numbers of symbols without the empty
\* first entry.
JumpSlotFromZero(i) == [at |-> GotSlot(i), sym |-> i - 1]

\* Imports are the first entries of .dynsym, after the empty one.
JumpSlot(i) == [at |-> GotSlot(i), sym |-> i]

Imported == DOMAIN link.imports

Entries == 1..Len(DynNames(link))
Buckets == Len(DynNames(link)) + 1

\* build_hash_section: the last symbol of a bucket, and before each symbol the
\* previous one of the same bucket.
InBucket(b) == {i \in Entries : Hash(DynNames(link)[i]) % Buckets = b}
GreatestOf(S) == IF S = {} THEN 0 ELSE CHOOSE i \in S : \A j \in S : j <= i

\* Wrong on purpose (sensitivity check): a bucket keeps its first symbol.
BucketFirst(b) ==
  LET S == InBucket(b) IN IF S = {} THEN 0 ELSE CHOOSE i \in S : \A j \in S : i <= j

Bucket(b) == GreatestOf(InBucket(b))
Chain(i)  == GreatestOf({j \in InBucket(Hash(DynNames(link)[i]) % Buckets) : j < i})

\* Wrong on purpose (sensitivity check): relative to the section.
RelativeUnplaced(r) == [at |-> Site(r), addend |-> Definition(link, r.sym).off]

\* One entry of .rela.dyn.
Relative(r) == [at |-> Site(r), addend |-> AbsSym(r.sym)]

\* The sections are rebuilt: their sizes may not change any more, which only a
\* debug assertion checks.
Rebuilt ==
  [x \in {".plt", ".rela.plt", ".rela.dyn", ".dynamic"} |->
     CASE x = ".plt"      -> 16 * Len(link.imports)
       [] x = ".rela.plt" -> 24 * Len(link.imports)
       [] x = ".rela.dyn" -> 24 * Len(RelativeSites(link))
       [] x = ".dynamic"  -> 16 * Len(DynamicTags)]

Resized(i) ==
  IF i > Len(Regular(link)) /\ image.secs[i].name \in DOMAIN Rebuilt
  THEN [image.secs[i] EXCEPT !.size = Rebuilt[image.secs[i].name]]
  ELSE image.secs[i]

\* An entry of .dynsym as write_dynsym_entry makes it: global, and undefined if
\* it is an import.
STB_GLOBAL == 1
SHN_UNDEF  == 0
SHN_ABS    == 65521
DynsymEntry(shndx) == [bind |-> STB_GLOBAL, shndx |-> shndx, value |-> 0]

\* An export is patched: its address, and SHN_ABS, which is written over st_info
\* and st_other.  The binding is the upper half of st_info.
PatchedExport(s) ==
  [DynsymEntry(SHN_ABS) EXCEPT !.bind = (SHN_ABS % 256) \div 16, !.value = AbsSym(s.name)]

\* The last entries of .dynsym are the exports.
Contents ==
  [plt     |-> [i \in Imported |-> PltStub(i)],
   relaPlt |-> [i \in Imported |-> JumpSlot(i)],
   relaDyn |-> [i \in DOMAIN RelativeSites(link) |-> Relative(RelativeSites(link)[i])],
   dynsym  |-> [i \in Imported |-> DynsymEntry(SHN_UNDEF)]
                 \o [i \in DOMAIN Exports(link) |-> PatchedExport(Exports(link)[i])],
   tags    |-> DynamicTags]

\* patch_dynamic_content.
PatchDynamic ==
  /\ pc = "assigned" /\ stage = "layout"
  /\ stage' = "patched"
  /\ IF HasDynamic(link)
     THEN content' = Contents /\ image' = [image EXCEPT !.secs = [i \in Ids |-> Resized(i)]]
     ELSE UNCHANGED <<content, image>>
  /\ UNCHANGED <<pc, k, cursor, vma, put, out, link, words>>

\* apply_reloc, for each relocation with what the linker passes as S.
GotTlsIndex(name) == CHOOSE e \in DOMAIN GotTlsSyms(link) : GotTlsSyms(link)[e].name = name
GotTlsSlot(e) == Address(".got.tls") + 8 * (e - 1)

Target(r) ==
  CASE r.type = "tpoff32"  -> TpOff(Definition(link, r.sym))
    [] r.type = "gottpoff" -> GotTlsSlot(GotTlsIndex(r.sym))
    [] OTHER -> IF r.sym \in ToSet(link.imports)
                THEN PltEntry(CHOOSE i \in Imported : link.imports[i] = r.sym)
                ELSE AbsSym(r.sym)

\* What the place is part of the sum for.
From(r) == IF r.type \in {"pc32", "plt32", "gottpoff"} THEN Site(r) ELSE 0

\* Of 32 bits an addend of 0 counts as none, and the bits in place are taken.
Addend(r) == IF r.type # "64" /\ r.addend = 0 THEN r.inplace ELSE r.addend

\* A value is cut to the width of its place.  A processor zero-extends an
\* address of type "32" and sign-extends the others.
Cut(type, v) ==
  CASE type = "64" -> v
    [] type = "32" -> v % Word32
    [] OTHER       -> ((v + Half32) % Word32) - Half32

Value(r) == Cut(r.type, Target(r) + Addend(r) - From(r))

InRange(r) == r.off + (IF r.type = "64" THEN 8 ELSE 4) <= OutputSize(r.sec)

Relocate ==
  /\ stage = "patched"
  /\ IF \A r \in ToSet(link.relocs) : InRange(r)
     THEN /\ words' = [i \in DOMAIN link.relocs |-> Value(link.relocs[i])]
          /\ stage' = "emit"
     ELSE stage' = "failed" /\ UNCHANGED words
  /\ UNCHANGED <<layoutVars, link, content>>

Layout ==
  /\ \/ stage = "layout" /\ AssignStep
     \/ stage = "emit" /\ EmitStep
  /\ UNCHANGED imageVars

Ended == (pc = "done" \/ stage = "failed") /\ UNCHANGED vars

Next == Layout \/ PatchDynamic \/ Relocate \/ Ended

Spec == IInit /\ [][Next]_vars
-----------------------------------------------------------------------------
(***************************************************************************)
(* The loader (external): an image loaded at a bias, its .rela.dyn applied,*)
(* and the initial thread's block for PT_TLS.                              *)
(***************************************************************************)
\* The symbols a lookup of a name passes.
Passed[i \in 0..Len(DynNames(link))] == IF i = 0 THEN {} ELSE {i} \cup Passed[Chain(i)]
Lookup(name) ==
  LET found == {i \in Passed[Bucket(Hash(name) % Buckets)] : DynNames(link)[i] = name} IN
  GreatestOf(found)

\* A lookup takes the entry it comes to if that is defined and global or weak.
STB_WEAK == 2
BoundTo(n) ==
  content.dynsym[n].shndx # SHN_UNDEF /\ content.dynsym[n].bind \in {STB_GLOBAL, STB_WEAK}

\* The 64-bit word of a relocation after loading at a bias.
Loaded(i, bias) ==
  LET r == link.relocs[i]
      fixes == {j \in DOMAIN content.relaDyn : content.relaDyn[j].at = Site(r)}
  IN IF fixes = {} THEN words[i]
     ELSE bias + content.relaDyn[CHOOSE j \in fixes : TRUE].addend

\* PT_TLS, as emit makes it from the section headers.
TlsNames == {".tdata", ".tbss"}
HeaderSize(name) == IF Named({name}) = {} THEN 0 ELSE Size(CHOOSE i \in Named({name}) : TRUE)
SegmentAlign ==
  CHOOSE a \in {image.secs[i].align : i \in Named(TlsNames)} :
    \A i \in Named(TlsNames) : image.secs[i].align <= a
SegmentSize == HeaderSize(".tdata") + HeaderSize(".tbss")
SegmentAddress == IF Named({".tdata"}) # {} THEN Address(".tdata") ELSE Address(".tbss")

\* An executable's block ends at the thread pointer or as little before it as
\* gives each byte the alignment that it has at its address in the segment.
BlockStart == 0 - (SegmentSize + ((0 - SegmentSize - SegmentAddress) % SegmentAlign))

\* Where a variable is, from the thread pointer.
InBlock(s) == BlockStart + s.off + (IF s.sec = ".tdata" THEN 0 ELSE HeaderSize(".tdata"))
-----------------------------------------------------------------------------
(***************************************************************************)
(* Properties.                                                             *)
(***************************************************************************)
Finished == pc = "done"

\* The contents that are filled in after assign_vmas have the sizes that were
\* predicted before it: the layout is one layout, whatever is linked.
ImplementsLayout == LayoutSpec

\* What a relocation asks for (the ELF ABI): its target and its addend, less
\* its place where it is relative to it.
Meant(r) == Target(r) + r.addend - From(r)

\* What the code makes of it instead: the bits in place are added to an addend of
\* 0, and what 32 bits cannot hold is cut without a message.
AddendFound(r) == r.type # "64" /\ r.addend = 0 /\ r.inplace # 0
InReach(r) ==
  CASE r.type = "64" -> TRUE
    [] r.type = "32" -> Meant(r) \in 0..(Word32 - 1)
    [] OTHER         -> Meant(r) \in (0 - Half32)..(Half32 - 1)
AsAsked(r) == ~AddendFound(r) /\ InReach(r)

\* A reference to an imported function is to a stub, the stub jumps through a
\* slot of .got.plt, the slot's JUMP_SLOT relocation has the number of a symbol,
\* and the symbol at that number in .dynsym is the function that was meant:
\* for every call that is not cut or changed by bits in place (WordsAsMeant).
CallsArrive ==
  Finished =>
    \A i \in DOMAIN link.relocs :
      LET r == link.relocs[i] IN
      r.sym \in ToSet(link.imports) /\ AsAsked(r) =>
        \E e \in Imported :
          /\ words[i] - r.addend + Site(r) = PltEntry(e)
          /\ \E j \in DOMAIN content.relaPlt :
               /\ content.relaPlt[j].at = PltEntry(e) + 6 + content.plt[e]
               /\ LET n == content.relaPlt[j].sym IN
                  n \in Entries /\ DynNames(link)[n] = r.sym

\* The chains of .hash lead from every name of .dynsym to its entry, whatever
\* collides, and the st_value of an export is the address of its definition.  Yet no
\* export can be bound to.  linker.rs:888 says that the patch changes
\* "st_value/st_shndx", docs/AUDIT-REPORT-BINUTILS-2.46.1.md:402 that such an entry
\* is "correct when another module only calls *into* it", but the section index goes
\* to the bytes of st_info (linker.rs:900) and leaves binding 15.
SymbolsFound ==
  Finished /\ HasDynamic(link) =>
    \A n \in Entries :
      /\ Lookup(DynNames(link)[n]) = n
      /\ n > Len(link.imports) => content.dynsym[n].value = AbsSym(DynNames(link)[n])
      /\ ~BoundTo(n)

\* In an executable the offsets from the thread pointer, in code and in the
\* slots of .got.tls that code reads, are those of the variables in the block that
\* a loader sets up from PT_TLS, whose size and alignment emit computes from the
\* section headers: exactly if the segment's address has the segment's alignment.
\* It has not where .tbss is aligned to more than .tdata and than a page.
TlsVariablesFound ==
  Finished /\ link.type # "shared" =>
    \A i \in DOMAIN link.relocs :
      LET r == link.relocs[i]
          s == Definition(link, r.sym)
          found == SegmentAddress % SegmentAlign = 0
      IN  r.type \in {"tpoff32", "gottpoff"} /\ s.sec \in TlsNames /\ Named({s.sec}) # {} /\ AsAsked(r) =>
            IF r.type = "tpoff32" THEN (words[i] - r.addend = InBlock(s)) <=> found
            ELSE \E e \in DOMAIN GotTlsData :
                   /\ words[i] - r.addend + Site(r) = Address(".got.tls") + 8 * (e - 1)
                   /\ (GotTlsData[e] = InBlock(s)) <=> found

\* A 32-bit word is what its relocation asks for, unless bits in place are
\* taken for the addend (reloc.rs:51, 62) or the value does not fit: exactly then.
\* A 64-bit word of a position-independent image with dynamic sections is the
\* address of its symbol wherever the image is loaded (dynamic.rs RelativeReloc),
\* without the addend of the relocation (linker.rs relative_sites drops it);
\* without dynamic sections it stays the link-time address plus the addend.
WordsAsMeant ==
  Finished =>
    \A i \in DOMAIN link.relocs :
      LET r == link.relocs[i] IN
      /\ r.type # "64" => (words[i] = Meant(r) <=> AsAsked(r))
      /\ r.type = "64" /\ IsPic(link) =>
           \A bias \in {0, 65536} :
             Loaded(i, bias) = IF HasDynamic(link) THEN bias + AbsSym(r.sym) ELSE Meant(r)
=============================================================================
