----------------------------- MODULE LinkLayout -----------------------------
(***************************************************************************)
(* elfout.rs: the layout of an executable or shared object, in the two     *)
(* passes the code has.  assign_vmas gives every section its address; emit *)
(* computes segments and file offsets from the addresses and appends the   *)
(* bytes of one section after the other to the output.  Nothing but the    *)
(* addresses goes from one pass to the other, and emit never compares the  *)
(* place a section lands at with the offset its header states.             *)
(***************************************************************************)
EXTENDS Integers, FiniteSets, Sequences

CONSTANT Images     \* what is to be laid out

EHDR_SIZE  == 64
PHDR_SIZE  == 56
SHDR_SIZE  == 64
PAGE_ALIGN == 4096

\* "rx": not writable; "rw": writable; "zero": writable and nobits.
Classes == {"rx", "rw", "zero"}
Section == [name : STRING, class : Classes, size : Nat, align : Nat \ {0}]

\* An image is its sections, those for dynamic linking last, its base address,
\* the length of the interpreter's path with its end (0 without one), and the
\* total size of .symtab, .strtab and .shstrtab.
IsImage(m) ==
  /\ m.n \in Nat /\ m.secs \in [1..m.n -> Section]
  /\ m.base \in Nat /\ m.interp \in Nat /\ m.tables \in Nat

ASSUME ImagesAssumption == \A m \in Images : IsImage(m)

\* Alignments are powers of two: a page is a multiple of one, or one of a page.
ASSUME AlignAssumption ==
  \A m \in Images : \A i \in 1..m.n :
    PAGE_ALIGN % m.secs[i].align = 0 \/ m.secs[i].align % PAGE_ALIGN = 0

VARIABLES image,
          pc,       \* the loop: "rx", "rw", "zero" (assign_vmas), "assigned",
                    \* "put_rx", "put_rw", "tables" (emit), "done"
          k,        \* the section a loop of assign_vmas is at
          cursor,   \* the next free address
          vma,      \* section -> address, for those that have one
          put,      \* section -> place of its bytes in the file
          out       \* the length of the output

layoutVars == <<image, pc, k, cursor, vma, put, out>>

\* Up to the next multiple of a, which is a power of two.
AlignUp(v, a) == v + ((-v) % a)

Ids == 1..image.n
Class(i) == image.secs[i].class
Size(i)  == image.secs[i].size
Named(names) == {i \in Ids : image.secs[i].name \in names}

Count(condition) == IF condition THEN 1 ELSE 0

\* PT_INTERP, two PT_LOAD, PT_DYNAMIC and PT_TLS.
PhNum ==
  Count(image.interp # 0) + Count(\E i \in Ids : Class(i) = "rx")
    + Count(\E i \in Ids : Class(i) # "rx")
    + Count(Named({".dynamic"}) # {}) + Count(Named({".tdata", ".tbss"}) # {})

HeaderReserve == AlignUp(EHDR_SIZE + PhNum * PHDR_SIZE + image.interp, 16)

\* assign_vmas is called.
Start ==
  /\ pc = "rx" /\ k = 1
  /\ cursor = image.base + HeaderReserve
  /\ vma = [i \in {} |-> 0] /\ put = [i \in {} |-> 0]
  /\ out = 0

Init == image \in Images /\ Start
-----------------------------------------------------------------------------
(***************************************************************************)
(* assign_vmas: three loops over the sections.                             *)
(***************************************************************************)
With(f, i, v) == [j \in DOMAIN f \cup {i} |-> IF j = i THEN v ELSE f[j]]

Skip ==
  /\ pc \in Classes /\ k \in Ids /\ Class(k) # pc
  /\ k' = k + 1
  /\ UNCHANGED <<image, pc, cursor, vma, put, out>>

Assign ==
  /\ pc \in Classes /\ k \in Ids /\ Class(k) = pc
  /\ LET at == AlignUp(cursor, image.secs[k].align) IN
       /\ vma' = With(vma, k, at)
       /\ cursor' = at + Size(k)
  /\ k' = k + 1
  /\ UNCHANGED <<image, pc, put, out>>

NextPass == [rx |-> "rw", rw |-> "zero", zero |-> "assigned"]

\* Wrong on purpose (sensitivity check): the writable sections start on the
\* page of the last read-only one.
EndPassUnaligned ==
  /\ pc \in Classes /\ k \notin Ids
  /\ pc' = NextPass[pc] /\ k' = 1
  /\ UNCHANGED <<image, cursor, vma, put, out>>

EndPass ==
  /\ pc \in Classes /\ k \notin Ids
  /\ pc' = NextPass[pc] /\ k' = 1
  /\ cursor' = IF pc = "rx" THEN AlignUp(cursor, PAGE_ALIGN) ELSE cursor
  /\ UNCHANGED <<image, vma, put, out>>
-----------------------------------------------------------------------------
(***************************************************************************)
(* emit: the segments.                                                     *)
(***************************************************************************)
Rx == {i \in Ids : Class(i) = "rx"}
Rw == {i \in Ids : Class(i) # "rx"}
End(i) == vma[i] + Size(i)

\* sort_by_key(vma) is stable.
Before(i, j) == vma[i] < vma[j] \/ (vma[i] = vma[j] /\ i <= j)
FirstOf(S) == CHOOSE i \in S : \A j \in S : Before(i, j)
LastOf(S) == CHOOSE i \in S : \A j \in S : Before(j, i)

RxEnd == IF Rx = {} THEN image.base + HeaderReserve ELSE End(LastOf(Rx))
RxFileSize == RxEnd - image.base

\* Wrong on purpose (sensitivity check): the first one declared.
RwVma0Declared == IF Rw = {} THEN 0 ELSE vma[CHOOSE i \in Rw : \A j \in Rw : i <= j]

RwVma0 == IF Rw = {} THEN 0 ELSE vma[FirstOf(Rw)]
RwEnd == IF Rw = {} THEN RwVma0 ELSE End(LastOf(Rw))

\* Wrong on purpose (sensitivity check): on the last page of the code.
RwOffUnaligned == RxFileSize

RwOff == AlignUp(RxFileSize, PAGE_ALIGN)

\* To the end of the last section with bytes in the file.
Ends == {End(i) - RwVma0 : i \in {j \in Ids : Class(j) = "rw"}}
RwFileSize == CHOOSE m \in Ends \cup {0} : \A e \in Ends \cup {0} : e <= m

RwMemSize == IF RwEnd - RwVma0 < RwFileSize THEN RwFileSize ELSE RwEnd - RwVma0

\* sh_offset, for a section with bytes in the file.
Offset(i) ==
  IF Class(i) = "rx" THEN vma[i] - image.base ELSE RwOff + (vma[i] - RwVma0)

TablesOff == AlignUp(RwOff + RwFileSize, 8)
-----------------------------------------------------------------------------
(***************************************************************************)
(* emit: the bytes.                                                        *)
(***************************************************************************)
PutHeaders ==
  /\ pc = "assigned"
  /\ out' = HeaderReserve
  /\ pc' = "put_rx"
  /\ UNCHANGED <<image, k, cursor, vma, put>>

Unput == {i \in IF pc = "put_rx" THEN Rx ELSE {j \in Rw : Class(j) = "rw"} : i \notin DOMAIN put}

\* Padding up to the offset, if the output is not that long yet.
PutSection ==
  /\ pc \in {"put_rx", "put_rw"}
  /\ \E i \in Unput :
       /\ \A j \in Unput : Before(i, j)
       /\ LET at == IF out < Offset(i) THEN Offset(i) ELSE out IN
            /\ put' = With(put, i, at)
            /\ out' = at + Size(i)
  /\ UNCHANGED <<image, pc, k, cursor, vma>>

\* resize: longer or shorter.
EndRx ==
  /\ pc = "put_rx" /\ Unput = {}
  /\ out' = RwOff
  /\ pc' = "put_rw"
  /\ UNCHANGED <<image, k, cursor, vma, put>>

EndRw ==
  /\ pc = "put_rw" /\ Unput = {}
  /\ out' = TablesOff
  /\ pc' = "tables"
  /\ UNCHANGED <<image, k, cursor, vma, put>>

\* The symbol table, the string tables and the section headers.
PutTables ==
  /\ pc = "tables"
  /\ out' = AlignUp(out + image.tables, 8) + (image.n + 4) * SHDR_SIZE
  /\ pc' = "done"
  /\ UNCHANGED <<image, k, cursor, vma, put>>

Done == pc = "done" /\ UNCHANGED layoutVars

AssignStep == Skip \/ Assign \/ EndPass
EmitStep   == PutHeaders \/ PutSection \/ EndRx \/ EndRw \/ PutTables
LayoutNext == AssignStep \/ EmitStep \/ Done

LayoutSpec == Init /\ [][LayoutNext]_layoutVars
-----------------------------------------------------------------------------
(***************************************************************************)
(* Properties.                                                             *)
(***************************************************************************)
TypeOK ==
  /\ IsImage(image)
  /\ pc \in Classes \cup {"assigned", "put_rx", "put_rw", "tables", "done"}
  /\ k \in 1..(image.n + 1)
  /\ cursor \in Nat
  /\ DOMAIN vma \subseteq Ids /\ vma \in [DOMAIN vma -> Nat]
  /\ pc \notin Classes => DOMAIN vma = Ids
  /\ DOMAIN put \subseteq Ids /\ put \in [DOMAIN put -> Nat]
  /\ out \in Nat

Assigned == pc \notin Classes

\* No two sections share memory, none lies in the headers, and no page holds
\* both code and writable data, whatever the order of the three loops meets.
MemoryApart ==
  Assigned =>
    /\ \A i \in Ids : vma[i] >= image.base + HeaderReserve
    /\ \A i, j \in Ids : i # j => End(i) <= vma[j] \/ End(j) <= vma[i]
    /\ \A i \in Rx, j \in Rw : AlignUp(End(i), PAGE_ALIGN) <= vma[j]

\* The bytes of every section are at the offset its header states, in the part
\* of the file its segment maps, and nothing written later covers or cuts them:
\* the two passes agree.
FilePlaced ==
  \A i \in DOMAIN put :
    /\ put[i] = Offset(i) /\ put[i] + Size(i) <= out
    /\ Class(i) = "rx" => put[i] + Size(i) <= RxFileSize
    /\ Class(i) = "rw" => RwOff <= put[i] /\ put[i] + Size(i) <= RwOff + RwFileSize
    /\ \A j \in DOMAIN put :
         i # j => put[i] + Size(i) <= put[j] \/ put[j] + Size(j) <= put[i]

\* A file offset and its address are the same modulo the page size, as mapping
\* demands, and zero-filled sections get no bytes of the file.
PagesMatch ==
  Assigned /\ Rw # {} =>
    /\ RwOff % PAGE_ALIGN = RwVma0 % PAGE_ALIGN
    /\ \A i \in Rw : Class(i) = "zero" /\ Size(i) # 0 => vma[i] - RwVma0 >= RwFileSize

\* elfout.rs, Section: "A section that will end up in the output file (and, if
\* alloc, mapped by some PT_LOAD)".
InSegment(i) ==
  Size(i) # 0 => IF Class(i) = "rx" THEN End(i) <= RxEnd ELSE End(i) <= RwVma0 + RwMemSize

\* The zero-filled part of the TLS block needs no memory of its own.
Mapped == \A i \in Ids \ Named({".tbss"}) : InSegment(i)

\* The last writable section is empty, and one without bytes in the file that was declared before it starts there.
EmptyTail ==
  \E i \in Rw \ Named({".tbss"}), j \in Rw :
    /\ i < j /\ Class(i) = "zero" /\ Size(i) # 0 /\ Size(j) = 0
    /\ vma[i] = vma[j] /\ \A other \in Rw : vma[other] <= vma[j]

\* Every section is in the memory of its segment unless there is such an empty one, which hides the other from it
\* (emit takes the end of the segment from the last section of a stable sort).
MappedWithoutEmptyTail == Assigned => (Mapped <=> ~EmptyTail)

\* The program headers map what the section headers say: pages of the file match pages of memory, zero-filled sections
\* follow the bytes of the file, and no section but the one hidden by an empty tail lies outside its segment (elfout.rs
\* emit, the segments derived from the addresses of assign_vmas).
Loadable == PagesMatch /\ MappedWithoutEmptyTail
=============================================================================
