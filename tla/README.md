# TLA+ verification of oxideutils

oxideutils is a suite of binary utilities in Rust: an archiver, a linker, an
assembler, and tools that print or rewrite object files.  Every tool is a
sequential command-line program over one shared library,
`crates/oxideutils-core`.  Concurrency exists only between processes that work
on the same files (a parallel `make`), and failure is a system call that fails,
a process that is killed, or a machine that loses power.  The rest of the
difficulty is in the algorithms: fixpoints, two-pass layouts and renumberings
whose passes must agree with each other.

## Inventory

| component | state | operations | interacts through |
|---|---|---|---|
| `utils.rs` `atomic_write` | the target file, one temporary file per process | create, write, sync, copy mode, rename | the directory, with all other processes |
| `oxide-ar`, `oxide-ranlib` (`archive_write.rs`, `ar/src/lib.rs`) | the archive on disk, the member list in memory | d, p, q, r, s, t, x | the archive file; `atomic_write` |
| archive format (`archive_write.rs`, `archive.rs`) | bytes | serialise, index, parse | read by `oxide-ld`, `oxide-nm` and other linkers |
| `oxide-ld` resolution (`linker.rs`, `objload.rs`) | symbol table, undefined names, archive members, imports | merge, extract, note, inject, classify | reads archives; feeds the layout |
| `oxide-ld` inputs (`main.rs`, `libsearch.rs`) | list of inputs | parse flags, search `-l`, expand GROUP | feeds resolution |
| `oxide-ld` script (`script.rs`) | section patterns | parse, map a section | resolution and layout |
| `oxide-ld` layout (`elfout.rs`) | addresses, file offsets | `assign_vmas`, `emit` | must agree with each other |
| `oxide-ld` dynamic, TLS, relocations (`dynamic.rs`, `reloc.rs`, `linker.rs`) | PLT, GOT, `.rela.dyn`, `.hash`, TLS offsets | size, build, patch, apply | sizes are fixed before layout, contents after |
| `strip.rs`, `oxide-strip` | section table, new offsets; `X.oxide-strip.tmp` | drop, renumber, repack, replace in place | `atomic_write`; used by objcopy |
| `objcopy.rs`, `oxide-objcopy` | bytes | filter, strip, extract | `strip.rs`, `atomic_write` |
| `oxide-elfedit` | header fields | match, patch | `atomic_write` |
| `oxide-as` preprocessor (`macros.rs`) | line queue, macro table, condition stack | expand, repeat, select | feeds the parser |
| `oxide-as` assembly (`main.rs`, `parser.rs`) | section buffers, symbols, relocations | directives, two passes | writes objects for `oxide-ld` |
| `oxide-as` encoder (`encode.rs`) | none | encode one instruction | |
| readers and printers (nm, size, strings, cxxfilt, readelf, objdump, addr2line, `format/`) | none | read, print | exit status of several files |
| configuration (`cli/`) | merged configuration | discover, merge, disable | every tool's start |

What is hard here, and what would make each part correct:

* *Replacing files.*  A reader must never see a part of a file, whichever
  system call fails and wherever the power goes; two writers must not mix; an
  error must mean that nothing happened.
* *Read-modify-write of archives.*  `exists`, the read and the write are three
  looks at the file system without a lock.  A run that nobody disturbs must
  apply exactly its operation; members it does not name must survive; a failing
  run must change nothing.
* *Archive bytes.*  The index is computed from sizes and paddings before the
  members are laid out; every offset in it must hit a member header.
* *Resolution.*  Definitions come in any order and strength; the first strong
  one must win.  Archive members must be pulled until nothing more is wanted,
  and then stop.  What is called undefined must still be undefined.
* *Layout.*  Two functions compute the same layout separately; sections must not
  overlap and offsets must be congruent to addresses.
* *Dynamic linking.*  Sizes are predicted before contents exist.
* *Stripping.*  Dropping sections renumbers the rest; everything that holds a
  section number or an offset must follow, and what is loaded must not move.
* *Assembling.*  Text is expanded by rewriting a queue (it must end); each
  instruction has many encodings and most wrong ones are valid; labels, data and
  relocations must be where the source puts them, whatever section is current.
* *Inputs.*  Which file a `-l` or a script means depends on options around it,
  and scripts name other scripts.

All of this is listed line by line under "hazards" in `PROJECT.json`, with the
properties that cover each hazard or the reason why none does.

## Plan

Modules that are proved about have no RECURSIVE operator, one action per
operation and named invariants.

1. `AtomicFile` (abstract), `AtomicWrite`, with proofs. **done**
2. `RunAr`, which uses the atomic file as one step, with proofs. **done**
3. `ArLayout`: the bytes of an archive, with proofs. **done**
4. `ArchiveClosure` (abstract), `LinkResolve`, with proofs. **done**
5. `StripElf` (section renumbering and repacking), with proofs. **done**
6. `LinkLayout`: `assign_vmas` and `emit`, with proofs. **done**
7. `LinkImage`: predicted and actual sizes, PLT, GOT, relocation arithmetic, TLS,
   over `LinkLayout`, which it implements, with proofs. **done**
8. `AsmMacros`, `AsmEncode`, `AsmObject`: the assembler, compared with
   `AsmReference` and `X86Decode`. **done**
9. `LdScript`, `LdInputs`: command line, library search, GROUP scripts, linker
   script. **done**
10. `ToolFiles`: strip, objcopy and elfedit on shared files, with proofs. **done**
11. Proofs of every property of the runs that the prover can reach. **done**
12. What the proofs leave open: a measure that `LdInputs` goes down, as
   `LinkResolve` has one in `LeavesLess`.

## Modules

### AtomicFile, AtomicWrite, AtomicWriteProofs, MCAtomicWrite

`AtomicFile` is what the five callers of `atomic_write` rely on: one path with a
value, calls that take effect in one step or not at all, a power loss that takes
the path back only to a value it had.

`AtomicWrite` is `atomic_write` (utils.rs:134-175), one action per system call:
`MkDir`, `Create`, `WriteAll`, `SyncAll`, `CopyMode`, `Rename` or `RenameFails`
then `RemoveTmp`, `Return`.  `Bail` is the `?` after a call: it returns and
leaves the temporary file, as the code does.  `Kill` and `PowerLoss` can come
anywhere.  A file is its buffer, whether all of it is written, whether it was
synced, and its mode.  The directory is never synced by the code, so `past`
holds the files a power loss can bring back; directory operations reach the
disk in order (a journalled file system).  Links, owners and times are left out.

Properties: `NeverTorn`, `OkLeavesNoTemp`, `ModePreserved`,
`ImplementsAtomicFile` (refinement: the linearisation point is the rename).

### RunAr, RunArProofs, MCRunAr

Any number of `oxide-ar`/`oxide-ranlib` processes on one archive.  `Start` is
the command line after `gnu_style`; `Exists`, `Read`, `Load` and `Commit` are
the separate looks at the file system in `run_ar`; `Changed` is delete, then
replace, then append.  `Commit` is one step because `AtomicWrite` implements
`AtomicFile`.  `wrote` and `stale` are history variables.  Member data is named
by the path it was read from; modes and times of members (which `from_bytes`
zeroes) are left out.

Updates of concurrent invocations are lost: nothing locks the archive and
nothing promises otherwise.  `AloneUpdates` states what remains true: without
interference from `exists()` to the write, the result is exactly the operation.
`FailedChangesNothing`, `OthersUntouched`, `UniqueNames` and `ReplaceKeepsPlace`
hold under every interleaving.

### ArLayout, ArLayoutProofs, MCArLayout

The bytes `ArchiveBuilder::to_bytes` lays out: `NameField`, `NameTable` and
`PutMember` are its loops, `PutIndex` puts the symbol index, whose offsets are
computed ahead, in front.  A buffer is its length and the headers and data in it,
each at the position it was appended at.  The reader (`ReadSpecial`,
`ReadMember`, `ReadFails`, `EndOfFile`) is the object crate's and external.

The size field of a header is padded to ten characters and not cut, so a size of
10^10 or more makes its header longer and moves everything behind it
(`HeaderSize`); a reader does not find the two bytes that end a header and fails.
`RoundTrip`: every member is read back under its name with its bytes if every
size fits its field, and reading fails if one does not (`Oversized`).
`IndexResolves`: every index entry points at the header of a member that defines
the symbol.  The other fields of a header cannot be too long: users and groups
are 0, modes and times come from files or from fields of their width.

### ArchiveClosure, LinkResolve, LinkResolveProofs, MCLinkResolve

`ArchiveClosure` is what archives contribute to a link: members are pulled, each
at most once, only when one of their names is wanted, and pulling ends only when
no member is wanted.

`LinkResolve` is `link_elf_executable` from the resolved inputs to the decision
what goes into the image.  `MergeUnit`, `NoteArchive`, `NoteShared`: one input.
`Skip`, `Extract`, `PassDone`: the fixpoint, member by member and pass by pass.
`InjectCrtSymbols`, `Classify`/`Abort`, `Emit`/`WriteFails`: the end.  Objects
are a symbol table with one entry per name and a set of relocations.  Left out:
the empty command line (`emit_empty_smoke_binary`), parsing of input files, TLS
relocations, section contents.

`FirstStrongWins`, `AllResolved`, `ImportsAreNeeded` are invariants;
`ImplementsArchiveClosure` is the refinement.  `LeavesLess` is an action property:
every step goes down (`Below`) in the lexicographic order of four numbers
(`ToDo`): the phases to come, the members not yet extracted, whether another pass
is due, and what is left of this one.  So the fixpoint ends after finitely many
steps; `Termination` adds that these steps are taken.  Fairness is `WF_vars(Next)`: the linker is one sequential program
without waits, which runs until it ends.

### StripElf, StripElfProofs, MCStripElf

`strip_bytes` for ELF files.  An input is its section headers (with the kinds
`drop_section` can tell apart), the ends of its segments in the file, and its
length.  `Reject`, `NothingToDrop` and `CopyPrefix` are the code before the
loop over the sections; `Drop`, `PutNull`, `PutLoaded`, `PutEmpty`, `PutLoose`
and `OutOfRange` are the branches of the loop body; `Finish` writes the new
section headers; `Verify` is the object crate's opinion of the result, which can
be either.  The output buffer is the set of pieces copied from the input, each
with its place in both, so that "the bytes of this section" has a meaning
without bytes.  Left out: names (only their classes are kept), and
`strip_relocatable_object`, which only inputs that are not ELF reach.

`BytesKept`, `NoOverlap` and `LinksFollow` state what stripping promises of
files whose loaded sections lie in their segments, as in every executable and
shared object.  `RelocatableKept` is the same promise for relocatable objects.

### LinkLayout, LinkImage, LinkImageProofs, MCLinkImage

`LinkLayout` is `elfout.rs`.  `Skip`, `Assign` and `EndPass` are the three loops
of `assign_vmas`; `PutHeaders`, `PutSection`, `EndRx`, `EndRw` and `PutTables`
append to the output of `emit`.  The segments (`RxEnd`, `RwVma0`, `RwFileSize`,
`RwMemSize`) are derived from the addresses as in the code, with its stable sort.
A section is its class (read-only, writable, writable without bytes in the
file), size and alignment.  The addresses are the only thing the two functions
share; `MemoryApart`, `FilePlaced` and `Loadable` say that they agree, and
`Loadable` that every section is mapped unless an empty one hides it (`EmptyTail`).

`LinkImage` extends it with what `linker.rs`, `dynamic.rs` and `reloc.rs` do
between symbol resolution and `emit`: the sizes of the dynamic sections are fixed
in `Skeleton`, addresses are assigned, `PatchDynamic` fills in the contents,
`Relocate` applies the relocations.  It implements `LinkLayout`: patching must not
change the size of a section that has an address, which the code checks with a
debug assertion only.  `CallsArrive` follows a reference to an imported function
through the stub, its slot, the slot's relocation and the dynamic symbol.
`SymbolsFound` follows the chains of `.hash` and compares the value of an export
with its definition; it also says that no loader binds to an export (`BoundTo`),
since the code writes the section index over `st_info`.  `WordsAsMeant` compares each relocated word
with what its relocation asks for, and loads the image at a bias for 64-bit words.
A relocation of 32 bits takes the bits in place when its addend is 0 and cuts
the value to 32 bits, so the property says that such words are right exactly if no bits
are found there (`AddendFound`) and the value fits (`InReach`).

`TlsVariablesFound` compares the offsets in code and in the slots of `.got.tls`
with the block that a loader sets up from PT_TLS for an executable.  They agree exactly
if the segment's address is a multiple of its alignment, which fails where `.tbss`
is aligned to more than `.tdata` and than a page: `emit` takes the address of
`.tdata` and the greater alignment.  Nothing is said of shared objects: the
code writes the offsets of a static link there too, and where a loader puts the block
of a library is not known at link time.

The loader is external.  Left out: 8-bit, PC64, TPOFF64 and GOTPCREL relocations
(the code treats the last as PC32), relocations whose bytes overlap, sums beyond 64
bits, the names, `st_other` and sizes of symbol entries, and the alignment of
`.tbss` behind `.tdata` in the TLS block (linker.rs:304 and the segment both add
sizes only, so they agree).

### AsmMacros, AsmEncode, AsmObject, AsmReference, X86Decode, MCAssemble

oxide-as from source lines to the object file.  `AsmMacros` is `preprocess`
(macros.rs): one action per kind of line, which takes the first line of `queue`
and puts the lines of an expansion back in front of it.  `AsmEncode` is
`encode_insn` (encode.rs) as operators with the names of its functions.
`AsmObject` composes them: `Expand` steps until the queue is empty, `Parse`
(parser.rs), one action per statement of `assemble_x86_64` (`Section`, `Global`,
`Align`, `Zero`, `Data`, `Quad`, `Set`, `Label`, `Instruction`, `Refuse`),
`Build` (sections, symbols and relocations of the object) and `WriteObject`.
`placed` is a history variable: which statement put what where.  Text is
abstracted to what the parse functions see in it: an operand is a record, a
string a sequence of characters and marks.  Left out: octal numbers (8 in the
parser, 10 in the preprocessor and the encoder), flags and types of sections.

`AsmReference` says what a source means, independently of how the code goes
about it: blocks are expanded by structure, not by a queue (`Meant`); the object
is linked by the relocation formulas of the ELF ABI (`Image`), and instructions
are read back from the linked bytes by `X86Decode`, which is written from the
architecture's tables and shares no definition with the encoder.

`ExpandsAsMeant`, `InsnsMeanWhatTheySay`, `DataAsWritten` and
`LabelsMarkTheirPlace` compare the two; `Ends` is liveness, under
`WF_vars(Next)`: the assembler is one sequential program without waits.  Where
the code accepts a source and makes something else of it, the form is an
operator of its own, and the property is an equivalence: these forms, and no
others, go wrong.  They are: `%spl`..`%dil` and `%ah` with REX (`ByteRegister`), 16-bit forms of
some instructions (`WordForm`), 64-bit immediates (`ImmediateCut`), `push` and
`pop` without an operand, jumps to `sym+N` or numeric labels (`JumpNowhere`),
`call *sym` (`Indirect`), `@PLT` and other suffixes that become a part of the
name, `mov sym, %r` (loads the address), `setcc` to memory (writes %al), equates
used before their line or as an address (`EquateLost`), symbols in `.byte` to
`.long`, differences and equates in data, several strings after one `.asciz`,
comment marks in strings (`DataLost`), data together with `.zero` in `.bss`
(`MixedBss`), and `.globl` after a later `.section`.  A directive or macro behind a label is not
seen by the preprocessor, which the reference takes over (`FirstWord`).  Unknown directives are
skipped without a message, and the alignment of a section in the object is 16,
8 or 1 whatever the source asks for.

### LdScript, LdInputs, LdInputsProofs, MCLdInputs

`LdInputs` is oxide-ld before it links.  `Flag`, `Value`, `GluedValue`,
`Ignored`, `Input` and `Help` are the arms of the loop over the arguments
(main.rs); `NextInput`, `TakeUnit`, `CannotLoad`, `ExpandGroup` and `Return` are
`resolve_link_arg` and the recursion of `resolve_path`, with the calls under way
as a stack; `FindLibrary` is the search order (libsearch.rs).  The stack holds
`StackDepth` calls, which the assumption makes more than there are group
scripts, so that only a script that reaches itself exhausts it.  A disk is a
function from paths to kinds of files.

`LdScript` is script.rs: `Line` is the body of the loop over the lines of a
script, `CollectPatterns` what it takes of a line's patterns, `OutName` the name
before the colon, `MapInputSection` the choice of an output section.  A line is a
sequence of tokens and a name the sequence of its parts, which is all that
matching looks at.  Left out: comments, assignments, commas, files other than `*`
before the parentheses, stars inside a pattern, `?` and brackets.

`UnitsAsWritten` compares inputs, output name and entry symbol with what the
command line says (`OutcomeSaid`: each file stands for a set of answers, which is
empty where there is none), `SectionsAsWritten` the place of every input
section with what the script says wherever its lines end.  The forms that are
read otherwise are named: `-m X` and `-plugin X` leave their argument as
an input file (`StrayValue`), an option without its value is ignored
(`ValueMissing`), so are glued `-oX` and `-eX` (`GluedDropped`),
ENTRY of a script is always replaced by `-e` or `_start` (`EntryDropped`), the
`-l` of a GROUP script is searched for in the sysroot only and as if `-static`
was not given, and its members that are no files are left out (`GroupDiffers`).
`FormsMisread` is the other half: on the command lines of the run these forms do
lead to another outcome, so that none of them is named in excess.  It is no law,
for a form can happen to say what is read.  `OverflowOnlyOfCycles`: the recursion
through GROUP scripts exhausts the stack only where a script reaches itself
through the files its members are taken for (`Cyclic`).  In scripts, output
sections on the line of SECTIONS, or not first on their line, are overlooked
(`Overlooked`).  The others are read (`ReadAs`) with a dot before a name that has
none, `/DISCARD/` included (`Undotted`); patterns that do not begin with a dot are
dropped, as are those with a star before them, unless they are the first of their
parentheses and lose the star (`NotTaken`); and `.text.*` matches `.textual` and
`.text` (`DotIgnored`).  Also left out are the glued `--script=` and `--soname=`
and the environment variable OXIDE_LD_SYSROOT.

### ToolFiles, ToolFilesProofs, MCToolFiles

oxide-strip, oxide-objcopy and oxide-elfedit as processes that read a file,
compute and replace it, several at a time.  `Stat`, `Read`, `Compute`, `Skip`,
`Write`, `Rename` and `SetDates` are the looks at the file system of one file of
a run; each can fail (`ReadFails`, `WriteFails`, `RenameFails`) or be the last
(`Kill`).  `Write` is one step because `AtomicWrite` implements `AtomicFile`; what
a failed write leaves under its own temporary name is there, not here.  A content
is its kind, its set of sections, whether program headers or relocations are
still there, and a header field; `StripElf` has the bytes.

`VersionsAsAsked` is an action property: every version that is published is the
whole result of a command for a content its run read, but for the objcopy
filters in `Astray`, which always go wrong: filtering through the object crate
drops program headers and relocations, and where it fails a strip stands in for
`-R`.  Strips of one file share `X.oxide-strip.tmp`: one can publish the other's
result, and then the other fails.  So the property lets the publisher be any
strip that was under way together with the one that computed it, and no other.
`NoTempLeft`: only a killed strip leaves a temporary file.

## Runs

| run | what it shows | bounds |
|---|---|---|
| `atomic_write_faults` | crash and failure atomicity, refinement | two processes, two buffers, all faults, one mode |
| `atomic_write_mode` | permission bits | two processes, one buffer, two modes, `set_permissions` works |
| `ar_concurrent` | archive updates | two processes, eight command lines, three paths with two names, archives of up to three members |
| `ar_layout` | archive bytes | up to three members, names on both sides of the 15-byte limit, odd and even sizes; members, tables of names and symbol indexes around the two sizes of `Overlong` |
| `ld_resolve` | resolution and the fixpoint | one or two plain inputs and an archive of up to two members, seven objects, two libraries, three output types |
| `ld_locals` | *violated*: locals of different objects are mixed | as `ld_resolve` |
| `strip_elf` | stripping: bytes, overlaps, section numbers | up to four loose sections of seven kinds in any order; executables, relocatable objects, broken files; five option sets |
| `strip_rel` | *violated*: a relocatable object loses its loaded sections | as `strip_elf` |
| `link_image` | layout, dynamic tables, TLS and relocations agree | 576 mixes of sections (absent, empty, larger than a page, aligned to more than a page); 180 links with two imports, six symbols and up to five relocations, three output types; 18 mixes of `.tdata` and `.tbss`, aligned to less and to more than a page; 108 single relocations with addends around the limits of a word, with and without bits in place; `Half32` |
| `assemble` | expansion, instructions, data, labels; the assembly ends | up to four free lines of conditionals or macros inside fixed frames, every arrangement of four lines of sections, labels, `.globl`, data and alignment, every data directive with pairs of items, every mnemonic and size with registers, addresses and immediates at the borders of their fields |
| `ld_inputs` | inputs, search order, GROUP scripts, which forms are misread, stack overflow for cycles only, linker scripts | command lines of up to three arguments of twelve, or four that search; three trees of files; three scripts broken into lines in every way |
| `tool_files` | concurrent replacement by strip, objcopy and elfedit | two runs of eight command lines, three disks, every step failing or killed |

Two processes are enough for the file protocols: every step reads and writes the
state of one process and the shared path, and a third process adds nothing a
second does not do to the path.  Two buffers tell the writers apart.  Two
archive members reach a second pass of the fixpoint and mutual references; the
theorems hold for any number.  Four loose sections are one of each table that
refers to another (symbols, strings, relocations) and one more.

`MaxLines` (24) bounds the lines of an expansion; a source that ends never
reaches it, and `Ends` shows that the ones cut off are those it names.  Each
instruction is assembled alone behind a label, for the encoder keeps no state.

`Half32` is half of what 32 bits hold.  It is 2^31 in the code and 2^23 in the runs,
since TLC computes with 32 bits itself; the addresses of the runs are below it, and some
addends are chosen to go beyond.  The proofs hold for any value.

The two violated runs are findings: local symbols in a table keyed by name only,
and relocatable objects that are stripped as if they had segments.  Other
differences between what the code does and what it is for are part of properties
that hold, as forms with a name of their own (above), so that the property says
exactly when they occur: in `LinkImage` exports whose `st_info` is overwritten by
what was meant for `st_shndx`, so that nothing can bind to a shared object
(`SymbolsFound`; linker.rs:888 says "st_value/st_shndx"), the addends that RELATIVE relocations
drop, absolute addresses in a position-independent image without dynamic
sections, bits in place that stand in for an addend of 0, values that are cut to 32 bits
(`WordsAsMeant`) and a TLS segment that is not aligned (`TlsVariablesFound`), in `LinkLayout` an empty writable section that
leaves `.bss` outside its segment (`EmptyTail`), and those of the assembler, of
the linker's inputs and of objcopy.

Three smaller differences have no property: `oxide-ar ts` succeeds and writes no
index (docs/man/oxide-ar.1.md says of `s`: "Write / rebuild symbol index
(ranlib)"), `-static` accepts a shared object named on the command line (main.rs
prints "error if a symbol needs a shared lib"), and an archive member that has a
wanted name only as a local symbol is pulled too (linker.rs:183-187).

## Proofs

Each theorem holds for all values of the constants that satisfy the named
assumptions; TLC evaluates the assumptions on every run.  The inductive
invariants were model-checked on the runs before they were proved, but for the
set that `LdInputsProofs` takes the inputs of a configuration from, which TLC
cannot evaluate.  The type invariants are in the theorems, and in the runs that of
`AtomicWrite`.

`AtomicWriteProofs` proves `TypeOK`, `NeverTorn`, `OkLeavesNoTemp`,
`ModePreserved` and the refinement `Spec => AF!Spec`.  The inductive invariant
`IInv` adds to the type invariant what each stage of a call
knows of its own temporary file (after the write it is whole, after the sync it
is synced), that a process between calls with a good result has none, and that
everything in `past` is whole and synced.  `NeverTorn` alone is not inductive:
the rename makes it depend on the stage of the writer and a power loss on
`past`.  `ModePreserved` is a temporal formula with a hypothesis about the first
state; it is proved where `set_permissions` works (the faults of its run), for a
failure of it is ignored by the code.  `ModeInv` follows the bits through
`past`, the arguments of the calls and the temporary files after their chmod.

`RunArProofs` proves `TypeOK`, `FailedChangesNothing`, `UniqueNames`,
`OthersUntouched`, `ReplaceKeepsPlace` and `AloneUpdates`, for any number of
processes, command lines, names, paths and archives.  The inductive invariant
adds to the type invariant that a run under way has a command line, has reported
nothing and has not written, and, for a run that is not `stale`, that what
`exists()` said still holds (`LookValid`) and that the members it read are those of the
archive (`SnapValid`).  The theorems about members rest on
lemmas about the three passes of `Changed`: delete keeps the order and takes
away only what is named, replace keeps every place, append adds behind.  As the
passes are folds, each has a lemma that iterates its step (`Iterate`) and one
that says what holds after each element (`CountUp`).

`ArLayoutProofs` proves `TypeOK`, `RoundTrip` and `IndexResolves`, for any
members, names, lengths, sizes and symbols, and any set of sizes from which on a
header grows.  The inductive invariant
states where everything is during every loop: which name is at which place of the
table of long names, that each member starts where the one before ends, rounded
up to an even place, that the reader is at the start of a member it has not read, and that what it has
passed fits its fields.
`IndexResolves` needs that the offsets assigned before the layout are
those of the members after it, which is so where the size of the index fits its
field, and that the file is below the limit of the 32-bit offsets; its statement
says both.

`LinkResolveProofs` proves `TypeOK`, `FirstStrongWins`, `AllResolved`,
`ImportsAreNeeded` and the
refinement `Spec => AC!Spec`.  `AllResolved` needs `Covered` (each kept
relocation's name is defined or listed as undefined, through every merge),
`Classified` (after classification the undefined names are imports that are only
called) and `StrongInv` (a table entry that is global was made by an object that
has it strong).  `ScanInv` says that a pass that has changed nothing has left no
wanted member behind `k`, which is what lets the refinement close.
`EveryStepLeavesLess` proves `LeavesLess`, the measure behind `Termination`, from the
type invariant: a pass is repeated only after one that has extracted a member.

`StripElfProofs` proves `TypeOK`, `BytesKept`, `NoOverlap` and `LinksFollow`.
The inductive invariant says of each header written so far what it keeps of the
old one, that each loose section has a piece of its own behind the prefix and
apart from the others, and that everything ends before the end of the buffer.
`LinksFollow` rests on a lemma about cardinalities: two sections that stay never
get the same number, so the renumbering has an inverse.

The first part of `LinkImageProofs` proves `TypeOK`, `MemoryApart`, `FilePlaced`
and `Loadable` of `LinkLayout`, for any sections and sizes.  The inductive invariant
says that addresses grow in the order in which the three loops reach the
sections, that all of them end before the cursor, and that no section still to be
written starts before the end of the output.  The last is why padding is always
enough and `emit` need not look at where it is: in one class the sort by address
is the order of the loop.  Least and greatest elements (the first and last section
of the sort, the maximum in `RwFileSize`) come from the well-foundedness of the
naturals.  `Loadable` needs that alignments are powers of two, of which
`AlignAssumption` keeps what matters: an alignment divides a page or a page
divides it.  All alignments come from section headers, where the ELF format
asks for powers of two, or are constants of the linker.

The second part proves the refinement `Spec => LayoutSpec`, and `CallsArrive`,
`SymbolsFound`, `TlsVariablesFound` and `WordsAsMeant`, for any links, names,
hash functions and limits of a 32-bit word.
The argument for the refinement is that the contents of the dynamic sections
are counted in the same way before and after the layout (`SameSizes`,
`TagsCounted`): patching an image changes no size, so every step of a link is a
step of `LinkLayout` or none, and `MemoryApart` holds of it.  `LinkInv` says that the contents
written between the passes are those of the final addresses.  From there on each
property is about one state: `ChainPasses` and `PassedIs` follow a chain of the hash table
from symbol to symbol, `SectionIsOutput` and `AlignOfTls` identify the sections the TLS offsets
are computed from with those of the PT_TLS segment, `OffsetInBlock` reduces
the comparison of an offset with the block to the remainder of the segment's
address, `SameRest` is the arithmetic of remainders that this and the cut words
need (`CutKeeps`, `CutMoves`, `WordAsked`), and `SitesApart` says that no two words to be rebased share an address.
`LinksAssumption` asks of a link what its parts are by construction: output
sections and symbols have each their own name (they are the keys of a
`BTreeMap`), imports are no definitions and are only called.  Two parts of it (`Distinct`) are about the
input: no script maps input into a section that the linker makes itself, and
no object has two relocations of one 64-bit word.  Without them the code
does overwrite one by the other.

`LdInputsProofs` proves `UnitsAsWritten` and `OverflowOnlyOfCycles`, for any command
lines and disks.  The reading that the code does step by step is compared with
one that is defined over the whole line by recursive functions (`IsValue`,
`Meant`, the folds of `FlattenSeq` and `Together`); `Recursion` shows that each
of them has the value its equation says, and `CountUp` that what every element
keeps holds behind the last.  The inductive invariant has four parts:

- `Base`: the inputs come from the line, the calls hold paths, the units are
  files of the disk (`BaseInvariant`).
- `Chain`: the calls on the stack are a chain of scripts, each a member of the
  one before.  A chain longer than there are scripts has one of them twice, by
  cardinality, so what it runs through is a cycle; this is where
  `StackDepthAssumption` is used.
- `ArgsAt`, `ConfigSaid`: after n arguments the configuration is what the first
  n say, and the next argument is not the value of an option.
- `Coming`: what the line means is the units found, followed by the answers of
  what is still to do in each call on the stack and then of the inputs left
  (`Levels`).  Every step of `resolve_path` moves a piece from one end of this
  equation to the other, and a file that cannot be loaded makes both empty.

`PathIsSaid` shows that the search of the code, directory by directory, and that
of the reading, the least of all pairs of a directory and a suffix, find the same
file.  `OnlyNamedFormsMisplace` is the matching half of `SectionsAsWritten`:
however a script was read, as long as `ReadAs` holds, an input section goes where
the script says but for `DotIgnored`, `NotTaken` and `Undotted`.  `CasesAssumption` gives the types
of a command line and a disk, which has finitely many files and no file without
a name.

`ToolFilesProofs` proves `TypeOK`, `NoTempLeft` and the action property
`VersionsAsAsked`, for any runs, command lines and disks.  It has two parts.
One is about contents, without states: what `ObjcopyBytes` computes is what is
asked for exactly when it is not `Astray`, by cases on the filters and the two
answers of the object crate.  The other is the inductive invariant: `Stage`
says what a run has read and computed at each step, `Owned` that a temporary
file is a result of the run that wrote it, which is a strip that is
about to rename it or was killed, and that every other strip waiting to rename
made it itself or overlaps with its owner.  That is why a strip may publish
another's result but never one of a run that ended before.  `TmpAssumption`:
nobody names a temporary file of oxide-strip as an input or output, and each
path has its own.

Only model-checked: `Termination` and `Ends`, for liveness under fairness and
ENABLED are out of the prover's reach (the measure that `Termination` rests on is
proved, `LeavesLess`); the four properties of the assembler,
whose reference is recursive over blocks (RECURSIVE) and computes with
`Bitwise`; `SectionsAsWritten`, whose parsing half compares a fold over the lines
of a script with a reading of all its tokens, by an induction over them;
`FormsMisread`, which speaks of the command lines of its run.  What a fold
computes is proved here only where its step has a property that can be counted up.

## Not modelled

The readers and printers (nm, size, strings, cxxfilt, readelf, objdump,
addr2line, the dumps of `format/elf/` and the SFrame decoder): each reads a file
once and prints it, and keeps nothing that one step could make inconsistent for
another; the lookups they rest on are in external crates (object, gimli,
iced-x86, capstone).  The configuration (`cli/`) is one read of one file at
start and a table of names, error codes are a table.  Help text, the stubs for
PE, Mach-O and Wasm, and the build script have no behaviour to model.

Within modelled components: `strip_relocatable_object`, which ELF files never
reach; names, sizes and `st_other` of symbol entries and the bytes of string tables;
the rarer relocation types of the linker; octal literals, section
flags and section types of the assembler; the second and third field of elfedit.
oxide-ld and oxide-as write their output in place, without `atomic_write`: a
failure leaves a part of it under its final name, which no property forbids.
