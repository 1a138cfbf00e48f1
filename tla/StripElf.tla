------------------------------ MODULE StripElf ------------------------------
(***************************************************************************)
(* strip.rs: strip_bytes for ELF files, the engine of oxide-strip and of   *)
(* oxide-objcopy's strip options.                                          *)
(*                                                                         *)
(* An ELF file is its section headers, the file ranges of its segments and *)
(* its length.  The output is a buffer that grows by copied pieces of the  *)
(* input and by padding; a piece remembers where in the input it came      *)
(* from, so that a section's new offset can be compared with its bytes.    *)
(***************************************************************************)
EXTENDS Integers, FiniteSets

CONSTANTS Elfs,       \* the input files
          Options     \* the sets of strip options: "all", "debug", "unneeded"

\* What drop_section can tell apart: SHT_NULL, SHT_SYMTAB, the section
\* .strtab, SHT_REL(A), debugging sections by name, SHT_GROUP, SHT_NOBITS.
Kinds == {"null", "symtab", "strtab", "rela", "debug", "group", "nobits", "other"}

Shdr == [kind : Kinds, alloc : BOOLEAN, off : Nat, size : Nat, align : Nat,
         link : Nat, info : Nat]

\* ok is the magic, the class and the header sizes; ends are the ends of the
\* program headers in the file and of the segments they describe.
IsElf(e) ==
  /\ e.ok \in BOOLEAN /\ e.is64 \in BOOLEAN
  /\ e.ends \subseteq Nat /\ \E m \in e.ends : \A x \in e.ends : x <= m
  /\ e.n \in Nat /\ e.secs \in [0..(e.n - 1) -> Shdr]
  /\ e.shstr \in Nat /\ e.shoff \in Nat /\ e.len \in Nat

ASSUME ElfsAssumption == \A e \in Elfs : IsElf(e)
ASSUME OptionsAssumption == Options \subseteq SUBSET {"all", "debug", "unneeded"}

VARIABLES elf,      \* the input
          opts,     \* the options, after normalized()
          pc,       \* "start", "place", "verify" or "done"
          k,        \* the section the loop is at
          pieces,   \* what was copied: [at, from, size]
          len,      \* out.len()
          placed,   \* old section number -> new header, for those written
          table,    \* e_shoff and e_shstrndx of the output
          result    \* "none", "same" (the input unchanged), "ok" or "err"

vars == <<elf, opts, pc, k, pieces, len, placed, table, result>>

Normalized(o) == IF o = {} THEN {"all"} ELSE o

Init ==
  /\ elf \in Elfs
  /\ opts \in {Normalized(o) : o \in Options}
  /\ pc = "start" /\ k = 0
  /\ pieces = {} /\ len = 0
  /\ placed = [i \in {} |-> 0]
  /\ table = [shoff |-> 0, shstr |-> 0]
  /\ result = "none"
-----------------------------------------------------------------------------
(***************************************************************************)
(* What is dropped, and how the rest is renumbered.                        *)
(***************************************************************************)
Sections == 0..(elf.n - 1)

Dropped(s) ==
  /\ ~s.alloc
  /\ \/ s.kind \in {"symtab", "strtab", "rela"} /\ opts \cap {"all", "unneeded"} # {}
     \/ s.kind = "debug" /\ opts \cap {"all", "debug"} # {}

\* The null section and the table of section names always stay.
Keep == {i \in Sections : i = 0 \/ i = elf.shstr \/ ~Dropped(elf.secs[i])}

\* Wrong on purpose (sensitivity check): the null section is not counted.
NewIndexFromNull(i) == Cardinality({j \in Keep : j < i}) - 1

NewIndex(i) == Cardinality({j \in Keep : j < i})

\* Wrong on purpose (sensitivity check): a link to a dropped section is not
\* cleared.
RemapOrLeave(i) == IF i \in Keep THEN NewIndex(i) ELSE i

\* A link to a section that is gone, or to none, becomes 0.
Remap(i) == IF i \in Keep THEN NewIndex(i) ELSE 0

Header(i, off) ==
  LET s == elf.secs[i] IN
  [kind |-> s.kind, alloc |-> s.alloc, off |-> off, size |-> s.size,
   align |-> s.align, link |-> Remap(s.link),
   info |-> IF s.kind \in {"rela", "group"} THEN Remap(s.info) ELSE s.info]
-----------------------------------------------------------------------------
(***************************************************************************)
(* Where it goes.                                                          *)
(***************************************************************************)
EhSize == IF elf.is64 THEN 64 ELSE 52
ShEnt  == IF elf.is64 THEN 64 ELSE 40
Pad    == IF elf.is64 THEN 8 ELSE 4

\* Push zeroes until the length is a multiple of a.
Up(n, a) == n + ((-n) % a)

Clamp(a) == IF a < 1 THEN 1 ELSE IF a > 4096 THEN 4096 ELSE a

\* The end of the ELF header, the program headers and all segments.
SegmentEnd ==
  CHOOSE m \in elf.ends \cup {EhSize} : \A e \in elf.ends \cup {EhSize} : e <= m

Prefix == IF SegmentEnd < elf.len THEN SegmentEnd ELSE elf.len

Return(how) == result' = how /\ pc' = "done"

Truncated == elf.shoff + elf.n * ShEnt > elf.len

Reject ==
  /\ pc = "start"
  /\ \/ ~elf.ok \/ elf.n = 0 \/ Truncated
     \/ Keep # Sections /\ elf.shstr \notin Keep
  /\ Return("err")
  /\ UNCHANGED <<elf, opts, k, pieces, len, placed, table>>

Startable == pc = "start" /\ elf.ok /\ elf.n # 0 /\ ~Truncated

\* The input is returned as it is, if the object crate accepts it.
NothingToDrop ==
  /\ Startable /\ Keep = Sections
  /\ \E how \in {"same", "err"} : Return(how)
  /\ UNCHANGED <<elf, opts, k, pieces, len, placed, table>>

CopyPrefix ==
  /\ Startable /\ Keep # Sections /\ elf.shstr \in Keep
  /\ pieces' = {[at |-> 0, from |-> 0, size |-> Prefix]}
  /\ len' = Up(Prefix, Pad)
  /\ pc' = "place"
  /\ UNCHANGED <<elf, opts, k, placed, table, result>>

At(kept) == pc = "place" /\ k \in Sections /\ (k \in Keep) = kept
Sec == elf.secs[k]

Put(header) ==
  /\ placed' = [i \in DOMAIN placed \cup {k} |-> IF i = k THEN header ELSE placed[i]]
  /\ k' = k + 1

Drop ==
  /\ At(FALSE)
  /\ k' = k + 1
  /\ UNCHANGED <<elf, opts, pc, pieces, len, placed, table, result>>

PutNull ==
  /\ At(TRUE) /\ Sec.kind = "null"
  /\ Put(Sec)
  /\ UNCHANGED <<elf, opts, pc, pieces, len, table, result>>

\* A loaded section stays where it was, in its segment.
PutLoaded ==
  /\ At(TRUE) /\ Sec.kind # "null" /\ Sec.alloc
  /\ Put(Header(k, Sec.off))
  /\ UNCHANGED <<elf, opts, pc, pieces, len, table, result>>

Loose == At(TRUE) /\ Sec.kind # "null" /\ ~Sec.alloc
Payload(s) == s.kind \notin {"null", "nobits"} /\ s.size # 0

PutEmpty ==
  /\ Loose /\ ~Payload(Sec)
  /\ Put(Header(k, len))
  /\ UNCHANGED <<elf, opts, pc, pieces, len, table, result>>

OutOfRange ==
  /\ Loose /\ Payload(Sec) /\ Sec.off + Sec.size > elf.len
  /\ Return("err")
  /\ UNCHANGED <<elf, opts, k, pieces, len, placed, table>>

\* Wrong on purpose (sensitivity check): the offset is taken before padding.
PutLooseEarly ==
  /\ Loose /\ Payload(Sec) /\ Sec.off + Sec.size <= elf.len
  /\ LET at == Up(len, Clamp(Sec.align)) IN
       /\ pieces' = pieces \cup {[at |-> at, from |-> Sec.off, size |-> Sec.size]}
       /\ len' = at + Sec.size
       /\ Put(Header(k, len))
  /\ UNCHANGED <<elf, opts, pc, table, result>>

\* Any other section is appended.
PutLoose ==
  /\ Loose /\ Payload(Sec) /\ Sec.off + Sec.size <= elf.len
  /\ LET at == Up(len, Clamp(Sec.align)) IN
       /\ pieces' = pieces \cup {[at |-> at, from |-> Sec.off, size |-> Sec.size]}
       /\ len' = at + Sec.size
       /\ Put(Header(k, at))
  /\ UNCHANGED <<elf, opts, pc, table, result>>

\* Wrong on purpose (sensitivity check): the header table goes where it was.
FinishInPlace ==
  /\ pc = "place" /\ k \notin Sections
  /\ table' = [shoff |-> elf.shoff, shstr |-> NewIndex(elf.shstr)]
  /\ len' = Up(len, Pad) + Cardinality(DOMAIN placed) * ShEnt
  /\ pc' = "verify"
  /\ UNCHANGED <<elf, opts, k, pieces, placed, result>>

\* The section headers, and the fields of the ELF header that describe them.
Finish ==
  /\ pc = "place" /\ k \notin Sections
  /\ table' = [shoff |-> Up(len, Pad), shstr |-> NewIndex(elf.shstr)]
  /\ len' = Up(len, Pad) + Cardinality(DOMAIN placed) * ShEnt
  /\ pc' = "verify"
  /\ UNCHANGED <<elf, opts, k, pieces, placed, result>>

\* verify_still_object: the object crate accepts the output or not.
Verify ==
  /\ pc = "verify"
  /\ \E how \in {"ok", "err"} : Return(how)
  /\ UNCHANGED <<elf, opts, k, pieces, len, placed, table>>

Done == pc = "done" /\ UNCHANGED vars

Next ==
  \/ Reject \/ NothingToDrop \/ CopyPrefix
  \/ Drop \/ PutNull \/ PutLoaded \/ PutEmpty \/ OutOfRange \/ PutLoose
  \/ Finish \/ Verify \/ Done

Spec == Init /\ [][Next]_vars
-----------------------------------------------------------------------------
(***************************************************************************)
(* Properties.                                                             *)
(***************************************************************************)
Piece == [at : Nat, from : Nat, size : Nat]

TypeOK ==
  /\ IsElf(elf)
  /\ opts \in {Normalized(o) : o \in Options}
  /\ pc \in {"start", "place", "verify", "done"}
  /\ k \in 0..elf.n
  /\ pieces \subseteq Piece
  /\ len \in Nat
  /\ placed \in [{i \in Keep : i < k} -> Shdr]
  /\ table \in [shoff : Nat, shstr : Nat]
  /\ result \in {"none", "same", "ok", "err"}

\* The bytes of the input at from, if they are in the output at this offset.
Holds(off, from, size) ==
  \E p \in pieces : /\ p.at <= off /\ off + size <= p.at + p.size
                    /\ p.from - p.at = from - off

\* The loaded sections are in the segments: every executable and shared object.
Segmented ==
  \A i \in Sections :
    LET s == elf.secs[i] IN
    s.alloc /\ Payload(s) => s.off + s.size <= SegmentEnd /\ s.off + s.size <= elf.len

\* Every section that is left has, at the offset its new header states, the
\* bytes it had before.
AllHeld ==
  \A i \in DOMAIN placed :
    Payload(elf.secs[i]) => Holds(placed[i].off, elf.secs[i].off, elf.secs[i].size)

\* In an executable or shared object what is loaded keeps its bytes because its
\* segment was copied and it did not move, and the rest because it was copied
\* to where its header says, whatever is dropped in between.
BytesKept == result = "ok" /\ Segmented => AllHeld

\* strip.rs, module documentation: "ET_REL relocatable objects: rebuild via
\* object::write".  A stripped relocatable object (no program headers) keeps
\* the bytes of its sections too.
RelocatableKept == result = "ok" /\ elf.ends = {0} => AllHeld

\* The file ranges of two headers do not meet.
Apart(s, t) == ~Payload(s) \/ ~Payload(t)
                 \/ s.off + s.size <= t.off \/ t.off + t.size <= s.off

\* Sections that were apart still are, and neither they nor any segment is
\* overwritten by the new header table.
NoOverlap ==
  result = "ok" /\ Segmented =>
    /\ \A i, j \in DOMAIN placed :
         i # j /\ Apart(elf.secs[i], elf.secs[j]) => Apart(placed[i], placed[j])
    /\ \A p \in pieces : p.at + p.size <= table.shoff
    /\ \A i \in DOMAIN placed :
         Payload(placed[i]) => placed[i].off + placed[i].size <= table.shoff

\* The section at each new number.
Renumbered(n) == CHOOSE i \in Keep : NewIndex(i) = n

\* Whatever is dropped and however the rest is renumbered, each sh_link, the
\* sh_info of a relocation section and e_shstrndx name the section they named
\* before, or none if it is gone.
LinksFollow ==
  result = "ok" =>
    /\ Renumbered(table.shstr) = elf.shstr
    /\ \A i \in DOMAIN placed :
         elf.secs[i].kind # "null" =>
           LET Same(new, old) == IF old \in Keep THEN Renumbered(new) = old ELSE new = 0
           IN  /\ Same(placed[i].link, elf.secs[i].link)
               /\ elf.secs[i].kind = "rela" => Same(placed[i].info, elf.secs[i].info)
=============================================================================
