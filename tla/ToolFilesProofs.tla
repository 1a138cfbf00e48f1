-------------------------- MODULE ToolFilesProofs --------------------------
(* Theorems about ToolFiles, for any runs, command lines and disks.  The    *)
(* first part is about contents: what is computed is what is asked for or   *)
(* it is astray.  The second is about temporary files that strips share:    *)
(* which run's result is there, and who else is under way by then.          *)
EXTENDS ToolFiles, TLAPS

(* Contents. *)

\* An object is told by its fields.
Is(d, kind, sections, linkage, osabi) ==
  d \in Object /\ d.kind = kind /\ d.sections = sections /\ d.linkage = linkage /\ d.osabi = osabi

LEMMA SameObject ==
  ASSUME NEW kind, NEW sections, NEW linkage, NEW osabi, NEW d, NEW e,
         Is(d, kind, sections, linkage, osabi), Is(e, kind, sections, linkage, osabi)
  PROVE  d = e
BY DEF Is, Object

LEMMA ObjectFields ==
  ASSUME NEW c \in Object
  PROVE  /\ c.kind \in {"exec", "rel"} /\ c.sections \in SUBSET STRING /\ c.linkage \in BOOLEAN /\ c.osabi \in Nat
         /\ c.kind = "rel" /\ c.linkage => ".rela.text" \in c.sections
         /\ IsObject(c) /\ c # Error /\ c \in Content
BY DEF Object, IsObject, Error, Content

LEMMA OtherContent ==
  ASSUME NEW c \in Content
  PROVE  c # Error /\ (IsObject(c) <=> c \in Object)
BY DEF Content, Object, IsObject, Error

LEMMA TrimmedIs ==
  ASSUME NEW c \in Object, NEW S \in SUBSET c.sections
  PROVE  Is(Trimmed(c, S), c.kind, S, c.linkage /\ (c.kind = "exec" \/ ".rela.text" \in S), c.osabi)
BY DEF Object, Trimmed, Is

\* Strip of nothing keeps everything.
LEMMA NothingDropped == \A name : ~DropSection(name, {})
BY DEF DropSection

Remaining(S, strip) == {n \in S : ~DropSection(n, strip)}

LEMMA StripBytesIs ==
  ASSUME NEW c \in Object, NEW strip
  PROVE  Is(StripBytes(c, strip), c.kind, Remaining(c.sections, Normalized(strip)),
            c.linkage /\ (c.kind = "exec" \/ ".rela.text" \in Remaining(c.sections, Normalized(strip))), c.osabi)
<1>1. Remaining(c.sections, Normalized(strip)) \in SUBSET c.sections
  BY DEF Remaining
<1>2. StripBytes(c, strip) = Trimmed(c, Remaining(c.sections, Normalized(strip)))
  BY ObjectFields DEF StripBytes, Remaining
<1> QED  BY <1>1, <1>2, TrimmedIs

LEMMA StripBytesOfOther ==
  ASSUME NEW c \in Content, NEW strip, StripBytes(c, strip) # Error
  PROVE  c \in Object
BY OtherContent DEF StripBytes

\* The strip at the end of objcopy, if there is one.
LEMMA LastStripIs ==
  ASSUME NEW c \in Object, NEW strip
  PROVE  Is(IF strip = {} THEN c ELSE StripBytes(c, strip), c.kind, Remaining(c.sections, strip),
            c.linkage /\ (c.kind = "exec" \/ ".rela.text" \in Remaining(c.sections, strip)), c.osabi)
<1>1. CASE strip = {}
  <2>1. Remaining(c.sections, strip) = c.sections
    BY <1>1, NothingDropped DEF Remaining
  <2>2. Is(c, c.kind, c.sections, c.linkage /\ (c.kind = "exec" \/ ".rela.text" \in c.sections), c.osabi)
    BY ObjectFields DEF Is
  <2> QED  BY <1>1, <2>1, <2>2
<1>2. CASE strip # {}
  <2>1. Normalized(strip) = strip
    BY <1>2 DEF Normalized
  <2> QED  BY <1>2, <2>1, StripBytesIs
<1> QED  BY <1>1, <1>2

LEMMA FilteredIs ==
  ASSUME NEW c \in Object, NEW opts
  PROVE  /\ Is(FilterViaObjectWrite(c, opts, TRUE), "rel", {n \in c.sections : KeepSection(n, opts)}, FALSE, c.osabi)
         /\ FilterViaObjectWrite(c, opts, FALSE) = Error
<1>1. FilterViaObjectWrite(c, opts, FALSE) = Error
  BY DEF FilterViaObjectWrite
<1>2. FilterViaObjectWrite(c, opts, TRUE)
        = [c EXCEPT !.kind = "rel", !.linkage = FALSE, !.sections = {n \in c.sections : KeepSection(n, opts)}]
  BY ObjectFields DEF FilterViaObjectWrite, Object
<1>3. {n \in c.sections : KeepSection(n, opts)} \in SUBSET STRING
  BY ObjectFields
<1> QED  BY <1>1, <1>2, <1>3 DEF Is, Object

\* What a plain objcopy is asked for.
Plain(cmd) == cmd.tool = "objcopy" /\ ~cmd.opts.binary
Wanted(cmd, c) == {n \in c.sections : KeepSection(n, cmd.opts) /\ ~DropSection(n, cmd.opts.strip)}

LEMMA AskedIs ==
  ASSUME NEW cmd, Plain(cmd), NEW c \in Object
  PROVE  Is(Asked(cmd, c), c.kind, Wanted(cmd, c),
            c.linkage /\ (c.kind = "exec" \/ ".rela.text" \in Wanted(cmd, c)), c.osabi)
<1>1. Wanted(cmd, c) \in SUBSET c.sections
  BY DEF Wanted
<1>2. Asked(cmd, c) = Trimmed(c, Wanted(cmd, c))
  BY ObjectFields DEF Asked, Plain, Wanted
<1> QED  BY <1>1, <1>2, TrimmedIs

\* Without a filter: the input, stripped.
LEMMA Unfiltered ==
  ASSUME NEW cmd, Plain(cmd), NEW c \in Object, NEW oks, ~FilterActive(cmd.opts)
  PROVE  ObjcopyBytes(c, cmd.opts, oks) = Asked(cmd, c)
<1>1. \A n : KeepSection(n, cmd.opts)
  BY DEF KeepSection, FilterActive
<1>2. Wanted(cmd, c) = Remaining(c.sections, cmd.opts.strip)
  BY <1>1 DEF Wanted, Remaining
<1>3. ObjcopyBytes(c, cmd.opts, oks) = IF cmd.opts.strip = {} THEN c ELSE StripBytes(c, cmd.opts.strip)
  BY ObjectFields DEF ObjcopyBytes, Plain
<1> QED  BY <1>2, <1>3, AskedIs, LastStripIs, SameObject

\* Through the object crate: program headers and relocations are lost.
LEMMA Rebuilt ==
  ASSUME NEW cmd, Plain(cmd), NEW c \in Object, NEW oks, FilterActive(cmd.opts), oks[1] = TRUE
  PROVE  Is(ObjcopyBytes(c, cmd.opts, oks), "rel", Wanted(cmd, c), FALSE, c.osabi)
<1> DEFINE d == FilterViaObjectWrite(c, cmd.opts, TRUE)
<1>1. Is(d, "rel", {n \in c.sections : KeepSection(n, cmd.opts)}, FALSE, c.osabi)
  BY FilteredIs
<1>2. d \in Object /\ d # Error
  BY <1>1, ObjectFields DEF Is
<1>3. FilterSections(c, cmd.opts, oks) = d
  BY <1>2 DEF FilterSections
<1> HIDE DEF d
<1>4. ObjcopyBytes(c, cmd.opts, oks) = IF cmd.opts.strip = {} THEN d ELSE StripBytes(d, cmd.opts.strip)
  BY <1>2, <1>3 DEF ObjcopyBytes, Plain
<1>5. Remaining(d.sections, cmd.opts.strip) = Wanted(cmd, c)
  BY <1>1 DEF Is, Remaining, Wanted
<1>6. Is(IF cmd.opts.strip = {} THEN d ELSE StripBytes(d, cmd.opts.strip), "rel", Wanted(cmd, c), FALSE, c.osabi)
  BY <1>1, <1>2, <1>5, LastStripIs DEF Is
<1> QED  BY <1>4, <1>6

\* A strip in place of -R, and after it the object crate once more, or not.
Instead(cmd, c, oks) == {n \in c.sections : KeptInstead(n, cmd, oks) /\ ~DropSection(n, cmd.opts.strip)}

LEMMA StrippedInstead ==
  ASSUME NEW cmd, Plain(cmd), NEW c \in Object, NEW oks, FilterActive(cmd.opts), oks[1] = FALSE, oks[2] \in BOOLEAN,
         ObjcopyBytes(c, cmd.opts, oks) # Error
  PROVE  Is(ObjcopyBytes(c, cmd.opts, oks), IF SecondPass(cmd, oks) THEN "rel" ELSE c.kind, Instead(cmd, c, oks),
            ~SecondPass(cmd, oks) /\ c.linkage /\ (c.kind = "exec" \/ ".rela.text" \in Instead(cmd, c, oks)), c.osabi)
<1> DEFINE opts   == cmd.opts
           first  == StripBytes(c, IF ".debug_info" \in opts.remove THEN {"debug"} ELSE {})
           second == FilterViaObjectWrite(first, opts, oks[2])
           bytes  == FilterElfSections(c, opts, oks[2])
<1>1. FilterSections(c, opts, oks) = bytes
  BY FilteredIs, ObjectFields DEF FilterSections
<1>2. bytes # Error /\ opts.only = {}
  <2>1. bytes = Error => ObjcopyBytes(c, opts, oks) = Error
    BY <1>1 DEF ObjcopyBytes, Plain
  <2>2. opts.only # {} => bytes = Error
    BY DEF FilterElfSections
  <2> QED  BY <2>1, <2>2
<1>3. Normalized(IF ".debug_info" \in opts.remove THEN {"debug"} ELSE {}) = Stripped(cmd)
  BY DEF Normalized, Stripped
<1>4. Is(first, c.kind, Remaining(c.sections, Stripped(cmd)),
         c.linkage /\ (c.kind = "exec" \/ ".rela.text" \in Remaining(c.sections, Stripped(cmd))), c.osabi)
  BY <1>3, StripBytesIs
<1>5. first \in Object
  BY <1>4 DEF Is
<1> HIDE DEF first
<1>6. /\ oks[2] => Is(second, "rel", {n \in first.sections : KeepSection(n, opts)}, FALSE, c.osabi) /\ second # Error
      /\ ~oks[2] => second = Error
  BY <1>4, <1>5, FilteredIs, ObjectFields DEF Is
<1> HIDE DEF second
<1>7. bytes = IF SecondPass(cmd, oks) THEN second ELSE first
  BY <1>2, <1>6 DEF FilterElfSections, SecondPass, first, second
<1> HIDE DEF bytes
<1>8. ObjcopyBytes(c, opts, oks) = IF opts.strip = {} THEN bytes ELSE StripBytes(bytes, opts.strip)
  BY <1>1, <1>2 DEF ObjcopyBytes, Plain
<1>9. CASE SecondPass(cmd, oks)
  <2>1. Is(bytes, "rel", {n \in first.sections : KeepSection(n, opts)}, FALSE, c.osabi)
    BY <1>6, <1>7, <1>9 DEF SecondPass
  <2>2. bytes \in Object
    BY <2>1 DEF Is
  <2>3. Remaining(bytes.sections, opts.strip) = Instead(cmd, c, oks)
    BY <1>4, <1>9, <2>1 DEF Is, Remaining, Instead, KeptInstead
  <2>4. /\ bytes.kind = "rel" /\ bytes.linkage = FALSE /\ bytes.osabi = c.osabi
    BY <2>1 DEF Is
  <2>5. Is(ObjcopyBytes(c, opts, oks), bytes.kind, Instead(cmd, c, oks),
           bytes.linkage /\ (bytes.kind = "exec" \/ ".rela.text" \in Instead(cmd, c, oks)), bytes.osabi)
    BY Zenon, <1>8, <2>2, <2>3, LastStripIs
  <2>6. (bytes.linkage /\ (bytes.kind = "exec" \/ ".rela.text" \in Instead(cmd, c, oks)))
          = (~SecondPass(cmd, oks) /\ c.linkage /\ (c.kind = "exec" \/ ".rela.text" \in Instead(cmd, c, oks)))
    BY <1>9, <2>4
  <2> QED  BY Zenon, <1>9, <2>4, <2>5, <2>6
<1>10. CASE ~SecondPass(cmd, oks)
  <2>1. Remaining(first.sections, opts.strip) = Instead(cmd, c, oks)
    BY <1>4, <1>10 DEF Is, Remaining, Instead, KeptInstead
  <2>2. Instead(cmd, c, oks) \subseteq Remaining(c.sections, Stripped(cmd))
    BY DEF Remaining, Instead, KeptInstead, SecondPass
  <2>3. bytes = first
    BY <1>7, <1>10
  <2>4. Is(ObjcopyBytes(c, opts, oks), bytes.kind, Instead(cmd, c, oks),
           bytes.linkage /\ (bytes.kind = "exec" \/ ".rela.text" \in Instead(cmd, c, oks)), bytes.osabi)
    BY Zenon, <1>5, <1>8, <2>1, <2>3, LastStripIs
  <2>5. /\ bytes.kind = c.kind /\ bytes.osabi = c.osabi
        /\ bytes.linkage = (c.linkage /\ (c.kind = "exec" \/ ".rela.text" \in Remaining(c.sections, Stripped(cmd))))
    BY <1>4, <2>3 DEF Is
  <2>6. (bytes.linkage /\ (bytes.kind = "exec" \/ ".rela.text" \in Instead(cmd, c, oks)))
          = (~SecondPass(cmd, oks) /\ c.linkage /\ (c.kind = "exec" \/ ".rela.text" \in Instead(cmd, c, oks)))
    BY <1>10, <2>2, <2>5
  <2> QED  BY Zenon, <1>10, <2>4, <2>5, <2>6
<1> QED  BY <1>9, <1>10

\* The whole of what a command line asks for, or one of the forms of Astray.
LEMMA RightOrAstray ==
  ASSUME NEW cmd \in Commands, NEW c \in Content, NEW oks \in BOOLEAN \X BOOLEAN, Computed(cmd, c, oks) # Error
  PROVE  (Computed(cmd, c, oks) = Asked(cmd, c)) <=> ~Astray(cmd, c, oks)
<1>1. oks[1] \in BOOLEAN /\ oks[2] \in BOOLEAN /\ cmd.tool \in {"strip", "objcopy", "elfedit"}
      /\ (cmd.tool = "objcopy" => cmd.opts.binary \in BOOLEAN)
  BY CommandsAssumption
<1>2. CASE cmd.tool # "objcopy" \/ cmd.opts.binary
  <2>1. ~Astray(cmd, c, oks)
    BY <1>2 DEF Astray
  <2>2. Computed(cmd, c, oks) = Asked(cmd, c)
    BY <1>1, <1>2 DEF Computed, Asked, ObjcopyBytes
  <2> QED  BY <2>1, <2>2
<1>3. CASE cmd.tool = "objcopy" /\ ~cmd.opts.binary
  <2>1. Plain(cmd) /\ Computed(cmd, c, oks) = ObjcopyBytes(c, cmd.opts, oks)
    BY <1>3 DEF Plain, Computed
  <2>2. CASE c \notin Object
    <3>1. ~IsObject(c)
      BY <2>2, OtherContent
    <3>2. ~FilterActive(cmd.opts)
      BY <2>1, <3>1 DEF Plain, ObjcopyBytes, FilterSections, FilterViaObjectWrite
    <3>3. Computed(cmd, c, oks) = c
      BY <2>1, <3>1, <3>2 DEF Plain, ObjcopyBytes, StripBytes
    <3>4. Asked(cmd, c) = c
      BY <1>3, <3>1 DEF Asked
    <3> QED  BY <3>2, <3>3, <3>4 DEF Astray
  <2>3. CASE c \in Object /\ ~FilterActive(cmd.opts)
    BY <2>1, <2>3, Unfiltered DEF Astray
  <2>4. CASE c \in Object /\ FilterActive(cmd.opts) /\ oks[1]
    <3> DEFINE d == ObjcopyBytes(c, cmd.opts, oks)
               a == Asked(cmd, c)
    <3>1. Is(d, "rel", Wanted(cmd, c), FALSE, c.osabi)
      BY <1>1, <2>1, <2>4, Rebuilt
    <3>2. Is(a, c.kind, Wanted(cmd, c), c.linkage /\ (c.kind = "exec" \/ ".rela.text" \in Wanted(cmd, c)), c.osabi)
      BY <2>1, <2>4, AskedIs
    <3>3. Astray(cmd, c, oks) <=> (c.kind = "exec" \/ a.linkage)
      BY <1>3, <2>4 DEF Astray
    <3> HIDE DEF d, a
    <3>4. d = a <=> (c.kind = "rel" /\ ~a.linkage)
      BY <3>1, <3>2 DEF Is, Object
    <3> QED  BY <2>1, <2>4, <3>3, <3>4, ObjectFields DEF d, a
  <2>5. CASE c \in Object /\ FilterActive(cmd.opts) /\ ~oks[1]
    <3> DEFINE d == ObjcopyBytes(c, cmd.opts, oks)
               a == Asked(cmd, c)
               A == Wanted(cmd, c)
               B == Instead(cmd, c, oks)
               second == SecondPass(cmd, oks)
    <3>1. Is(d, IF second THEN "rel" ELSE c.kind, B, ~second /\ c.linkage /\ (c.kind = "exec" \/ ".rela.text" \in B), c.osabi)
      BY <1>1, <2>1, <2>5, StrippedInstead
    <3>2. Is(a, c.kind, A, c.linkage /\ (c.kind = "exec" \/ ".rela.text" \in A), c.osabi)
      BY <2>1, <2>5, AskedIs
    <3>3. A # B <=> \E n \in c.sections :
                      ~DropSection(n, cmd.opts.strip) /\ (KeepSection(n, cmd.opts) # KeptInstead(n, cmd, oks))
      <4>1. \A n : KeepSection(n, cmd.opts) \in BOOLEAN /\ KeptInstead(n, cmd, oks) \in BOOLEAN
        BY DEF KeepSection, KeptInstead
      <4> QED  BY <4>1 DEF Wanted, Instead
    <3>4. Astray(cmd, c, oks) <=> (second /\ (c.kind = "exec" \/ a.linkage)) \/ A # B
      BY <1>3, <2>5, <3>3 DEF Astray
    <3> HIDE DEF d, a, A, B, second
    <3>5. d = a <=> ~(second /\ (c.kind = "exec" \/ a.linkage)) /\ A = B
      BY <2>5, <3>1, <3>2, ObjectFields, SameObject DEF Is
    <3> QED  BY <2>1, <3>4, <3>5 DEF d, a
  <2> QED  BY <2>2, <2>3, <2>4, <2>5
<1> QED  BY <1>1, <1>2, <1>3

\* What is computed is a content.
LEMMA ComputedType ==
  ASSUME NEW cmd \in Commands, NEW c \in Content, NEW oks \in BOOLEAN \X BOOLEAN, Computed(cmd, c, oks) # Error
  PROVE  Computed(cmd, c, oks) \in Content
<1>1. oks[1] \in BOOLEAN /\ oks[2] \in BOOLEAN /\ cmd.tool \in {"strip", "objcopy", "elfedit"}
      /\ (cmd.tool = "objcopy" => cmd.opts.binary \in BOOLEAN) /\ (cmd.tool = "elfedit" => cmd.opts.osabi \in Nat)
  BY CommandsAssumption
<1>2. CASE cmd.tool = "strip"
  <2>1. Computed(cmd, c, oks) = StripBytes(c, cmd.opts.strip)
    BY <1>2 DEF Computed
  <2> QED  BY <2>1, StripBytesOfOther, StripBytesIs, ObjectFields DEF Is
<1>3. CASE cmd.tool = "elfedit"
  <2>1. c \in Object
    BY <1>3, OtherContent DEF Computed, Edited
  <2>2. Computed(cmd, c, oks) = [c EXCEPT !.osabi = cmd.opts.osabi]
    BY <1>3, <2>1, ObjectFields DEF Computed, Edited
  <2> QED  BY <1>1, <1>3, <2>1, <2>2 DEF Object, Content
<1>4. CASE cmd.tool = "objcopy" /\ cmd.opts.binary
  <2>1. Computed(cmd, c, oks) = ExtractBinary(c, cmd.opts)
    BY <1>4 DEF Computed, ObjcopyBytes
  <2>2. c \in Object
    BY <2>1, OtherContent DEF ExtractBinary
  <2>3. PICK S \in SUBSET c.sections : Computed(cmd, c, oks) = [kind |-> "raw", sections |-> S]
    BY <2>1 DEF ExtractBinary
  <2> QED  BY <2>2, <2>3, ObjectFields DEF Content
<1>5. CASE cmd.tool = "objcopy" /\ ~cmd.opts.binary
  <2>1. Plain(cmd) /\ Computed(cmd, c, oks) = ObjcopyBytes(c, cmd.opts, oks)
    BY <1>5 DEF Plain, Computed
  <2>2. CASE c \notin Object
    <3>1. ~IsObject(c)
      BY <2>2, OtherContent
    <3>2. Computed(cmd, c, oks) = c
      BY <2>1, <3>1 DEF Plain, ObjcopyBytes, StripBytes, FilterSections, FilterViaObjectWrite
    <3> QED  BY <3>2
  <2>3. CASE c \in Object
    <3>1. ObjcopyBytes(c, cmd.opts, oks) \in Object
      <4>1. CASE ~FilterActive(cmd.opts)
        BY <2>1, <2>3, <4>1, Unfiltered, AskedIs DEF Is
      <4>2. CASE FilterActive(cmd.opts) /\ oks[1]
        BY <1>1, <2>1, <2>3, <4>2, Rebuilt DEF Is
      <4>3. CASE FilterActive(cmd.opts) /\ ~oks[1]
        BY <1>1, <2>1, <2>3, <4>3, StrippedInstead DEF Is
      <4> QED  BY <4>1, <4>2, <4>3
    <3> QED  BY <2>1, <3>1, ObjectFields
  <2> QED  BY <2>2, <2>3
<1> QED  BY <1>1, <1>2, <1>3, <1>4, <1>5

----------------------------------------------------------------------------
(* The invariant. *)

\* Where a run is, and what it has by then.
Stage(r) ==
  /\ run[r].i <= Len(run[r].cmd.files)
  /\ run[r].pc \in {"compute", "write", "rename", "dates"} => Input(r) \in DOMAIN files /\ run[r].read \in Content
  /\ run[r].pc \in {"write", "rename"} => Computed(run[r].cmd, run[r].read, run[r].oks) # Error
  /\ run[r].pc = "rename" => InPlace(r)

\* A temporary file is the result of a strip that has not renamed it yet or was
\* killed before it could; who waits to rename it made it or is under way with
\* the one who did.
Owned(p, w) ==
  /\ w \in Runs /\ InPlace(w) /\ Output(w) = p /\ run[w].pc \in {"rename", "killed"} /\ run[w].read \in Content
  /\ files[Tmp(p)].content = StripBytes(run[w].read, run[w].cmd.opts.strip)
  /\ \A r \in Runs : run[r].pc = "rename" /\ Output(r) = p => w = r \/ w \in overlap[r]
Temps == \A p \in Paths : Tmp(p) \in DOMAIN files => p \in DOMAIN files /\ Owned(p, files[Tmp(p)].by)

Together == \A r, q \in Runs : UnderWay(r) /\ UnderWay(q) /\ r # q => q \in overlap[r]

IInv == TypeOK /\ (\A r \in Runs : Stage(r)) /\ Temps /\ Together

\* The paths of a run.
LEMMA PathOf ==
  ASSUME TypeOK, NEW r \in Runs, Stage(r)
  PROVE  /\ run[r] \in RunState /\ run[r].cmd \in Commands /\ run[r].i \in 1..Len(run[r].cmd.files)
         /\ Input(r) \in Paths /\ Output(r) \in Paths /\ InPlace(r) \in BOOLEAN
<1>1. run[r] \in RunState
  BY DEF TypeOK
<1>2. run[r].cmd \in Commands /\ run[r].i \in Nat \ {0}
  BY <1>1 DEF RunState
<1>3. run[r].cmd.files \in Seq(STRING)
  BY <1>2, CommandsAssumption
<1>4. run[r].i \in 1..Len(run[r].cmd.files)
  BY <1>2, <1>3 DEF Stage
<1>5. Input(r) \in ToSet(run[r].cmd.files)
  BY <1>3, <1>4 DEF Input, ToSet
<1> DEFINE Named == UNION {ToSet(c.files) : c \in Commands}
           Outs  == {c.out : c \in Commands} \ {NoOut}
           Given == UNION {DOMAIN disk : disk \in Disks}
<1>0. Paths = Given \cup Named \cup Outs
  BY DEF Paths
<1>6. Input(r) \in Paths
  <2>1. ToSet(run[r].cmd.files) \in {ToSet(c.files) : c \in Commands}
    BY Zenon, <1>2
  <2>2. Input(r) \in Named
    BY Zenon, <1>5, <2>1
  <2> HIDE DEF Named, Outs, Given
  <2> QED  BY <1>0, <2>2
<1>7. Output(r) \in Paths
  <2>1. run[r].cmd.out \in {c.out : c \in Commands}
    BY Zenon, <1>2
  <2>2. run[r].cmd.out # NoOut => run[r].cmd.out \in Outs
    BY <2>1
  <2> HIDE DEF Named, Outs, Given
  <2>3. run[r].cmd.out # NoOut => run[r].cmd.out \in Paths
    BY <1>0, <2>2
  <2> QED  BY Zenon, <1>6, <2>3 DEF Output
<1> QED  BY <1>1, <1>2, <1>4, <1>6, <1>7 DEF InPlace

LEMMA SameFile ==
  ASSUME NEW q, run'[q].cmd = run[q].cmd, run'[q].i = run[q].i
  PROVE  Input(q)' = Input(q) /\ Output(q)' = Output(q) /\ InPlace(q)' = InPlace(q)
BY DEF Input, Output, InPlace

\* One run moves.
Moves(r, n) == n \in RunState /\ n.cmd = run[r].cmd /\ run' = [run EXCEPT ![r] = n]

LEMMA OthersAsBefore ==
  ASSUME TypeOK, NEW r \in Runs, NEW n, Moves(r, n)
  PROVE  /\ run' \in [Runs -> RunState] /\ run'[r] = n
         /\ \A q \in Runs \ {r} : run'[q] = run[q]
BY DEF TypeOK, Moves

\* The files of the others are still there.
LEMMA StagesStay ==
  ASSUME IInv, NEW r \in Runs, NEW n, Moves(r, n), Stage(r)',
         \A p \in Paths : p \in DOMAIN files => p \in DOMAIN files'
  PROVE  (\A q \in Runs : Stage(q))'
<1> SUFFICES ASSUME NEW q \in Runs, q # r PROVE Stage(q)'
  OBVIOUS
<1>1. run'[q] = run[q] /\ Stage(q) /\ TypeOK
  BY OthersAsBefore DEF IInv
<1>2. Input(q)' = Input(q) /\ Output(q)' = Output(q) /\ InPlace(q)' = InPlace(q)
  BY <1>1, SameFile
<1>3. Input(q) \in Paths
  BY <1>1, PathOf
<1> QED  BY <1>1, <1>2, <1>3 DEF Stage

LEMMA TogetherStays ==
  ASSUME IInv, NEW r \in Runs, NEW n, Moves(r, n), UNCHANGED overlap,
         n.pc \notin {"ready", "done", "killed"} => UnderWay(r)
  PROVE  Together'
<1>1. \A q \in Runs \ {r} : run'[q] = run[q]
  BY OthersAsBefore DEF IInv
<1>2. run'[r] = n
  BY OthersAsBefore DEF IInv
<1>3. \A q \in Runs : UnderWay(q)' => UnderWay(q)
  BY <1>1, <1>2 DEF UnderWay
<1> QED  BY <1>3 DEF IInv, Together

\* The owner of a temporary file that stays is where it was.
LEMMA OwnedStays ==
  ASSUME IInv, NEW r \in Runs, NEW n, Moves(r, n), UNCHANGED overlap, NEW p \in Paths,
         n.pc = "rename" => n.i = run[r].i /\ Output(r) # p,
         run[r].pc \in {"rename", "killed"} /\ Output(r) = p => n.pc = "killed" /\ n.i = run[r].i /\ n.read = run[r].read,
         Tmp(p) \in DOMAIN files, Tmp(p) \in DOMAIN files', files'[Tmp(p)] = files[Tmp(p)]
  PROVE  Owned(p, files[Tmp(p)].by)'
<1> DEFINE w == files[Tmp(p)].by
<1>1. Owned(p, w) /\ TypeOK
  BY DEF IInv, Temps
<1>2. run'[r] = n /\ n.cmd = run[r].cmd /\ \A q \in Runs \ {r} : run'[q] = run[q]
  BY <1>1, OthersAsBefore DEF Moves
<1>3. /\ w \in Runs /\ run'[w].cmd = run[w].cmd /\ run'[w].i = run[w].i /\ run'[w].read = run[w].read
      /\ run'[w].pc \in {"rename", "killed"}
  BY <1>1, <1>2 DEF Owned
<1>4. InPlace(w)' = InPlace(w) /\ Output(w)' = Output(w)
  BY <1>3, SameFile
<1>5. \A q \in Runs : run'[q].pc = "rename" /\ Output(q)' = p => run[q].pc = "rename" /\ Output(q) = p
  BY <1>2, SameFile
<1>6. w' = w
  OBVIOUS
<1> HIDE DEF w
<1>7. Owned(p, w)'
  BY <1>1, <1>3, <1>4, <1>5, <1>6 DEF Owned
<1> QED  BY <1>7 DEF w

\* A run moves, and every temporary file that is there was there.
LEMMA FileStep ==
  ASSUME IInv, NEW r \in Runs, NEW n, Moves(r, n), UNCHANGED overlap, Stage(r)', n.pc # "rename",
         n.pc \notin {"ready", "done", "killed"} => UnderWay(r),
         files' \in [DOMAIN files' -> Version], DOMAIN files' \subseteq Paths \cup {Tmp(p) : p \in Paths},
         \A p \in Paths : p \in DOMAIN files => p \in DOMAIN files',
         \A p \in Paths : Tmp(p) \in DOMAIN files' =>
           /\ Tmp(p) \in DOMAIN files /\ files'[Tmp(p)] = files[Tmp(p)]
           /\ run[r].pc \in {"rename", "killed"} /\ Output(r) = p =>
                n.pc = "killed" /\ n.i = run[r].i /\ n.read = run[r].read
  PROVE  IInv'
<1>1. TypeOK'
  BY OthersAsBefore DEF IInv, TypeOK
<1>2. (\A q \in Runs : Stage(q))'
  BY StagesStay
<1>3. Together'
  BY TogetherStays
<1>4. Temps'
  <2> SUFFICES ASSUME NEW p \in Paths, Tmp(p) \in DOMAIN files'
               PROVE  p \in DOMAIN files' /\ Owned(p, files[Tmp(p)].by)'
    BY DEF Temps
  <2>1. p \in DOMAIN files /\ Tmp(p) \in DOMAIN files
    BY DEF IInv, Temps
  <2> QED  BY <2>1, OwnedStays
<1> QED  BY <1>1, <1>2, <1>3, <1>4 DEF IInv

\* The files are what they were.
LEMMA Quiet ==
  ASSUME IInv, NEW r \in Runs, NEW n, Moves(r, n), UNCHANGED <<files, overlap>>, Stage(r)', n.pc # "rename",
         run[r].pc \in {"rename", "killed"} => n.pc = "killed" /\ n.i = run[r].i /\ n.read = run[r].read,
         n.pc \notin {"ready", "done", "killed"} => UnderWay(r)
  PROVE  IInv'
<1>1. files \in [DOMAIN files -> Version] /\ DOMAIN files \subseteq Paths \cup {Tmp(p) : p \in Paths}
  BY DEF IInv, TypeOK
<1> QED  BY <1>1, FileStep

\* The next file, or the end.
LEMMA ToNextFile ==
  ASSUME IInv, NEW r \in Runs, NEW ok, NextFile(r, ok)
  PROVE  /\ UNCHANGED overlap
         /\ \E n : /\ Moves(r, n) /\ n.pc \in {"done", "meta"} /\ n.i <= Len(n.cmd.files)
<1> DEFINE n == [run[r] EXCEPT !.status = IF ok THEN @ ELSE "error",
                               !.i = IF @ = Len(run[r].cmd.files) THEN @ ELSE @ + 1,
                               !.pc = IF run[r].i = Len(run[r].cmd.files) THEN "done" ELSE "meta"]
<1>1. run' = [run EXCEPT ![r] = n] /\ UNCHANGED overlap
  BY DEF NextFile, Continue
<1>2. run[r] \in RunState /\ run[r].i \in 1..Len(run[r].cmd.files) /\ Len(run[r].cmd.files) \in Nat
  <2>1. run[r].cmd \in Commands /\ run[r] \in RunState /\ run[r].i \in 1..Len(run[r].cmd.files)
    BY PathOf DEF IInv
  <2>2. run[r].cmd.files \in Seq(STRING)
    BY <2>1, CommandsAssumption
  <2> QED  BY <2>1, <2>2
<1>3. n \in RunState /\ n.cmd = run[r].cmd /\ n.pc \in {"done", "meta"} /\ n.i <= Len(n.cmd.files)
  <2>1. PICK s, j, q : /\ s = (IF ok THEN run[r].status ELSE "error")
                       /\ j = (IF run[r].i = Len(run[r].cmd.files) THEN run[r].i ELSE run[r].i + 1)
                       /\ q = (IF run[r].i = Len(run[r].cmd.files) THEN "done" ELSE "meta")
    OBVIOUS
  <2>2. s \in {"ok", "error"}
    BY <1>2, <2>1 DEF RunState
  <2>3. j \in Nat \ {0} /\ j <= Len(run[r].cmd.files)
    BY <1>2, <2>1
  <2>4. q \in {"done", "meta"}
    BY <2>1
  <2>5. n = [run[r] EXCEPT !.status = s, !.i = j, !.pc = q]
    BY Zenon, <2>1
  <2> HIDE DEF n
  <2> QED  BY <1>2, <2>2, <2>3, <2>4, <2>5 DEF RunState
<1> QED  BY <1>1, <1>3 DEF Moves

\* Such a run has no results any more.
LEMMA StageOfNext ==
  ASSUME IInv, NEW r \in Runs, NEW n, Moves(r, n), n.pc \notin {"compute", "write", "rename", "dates"},
         n.i <= Len(n.cmd.files)
  PROVE  Stage(r)'
<1>1. run'[r] = n
  BY OthersAsBefore DEF IInv
<1> QED  BY <1>1 DEF Stage

LEMMA QuietNextFile ==
  ASSUME IInv, NEW r \in Runs, NEW ok, NextFile(r, ok), UNCHANGED files,
         UnderWay(r), run[r].pc # "rename"
  PROVE  IInv'
<1>1. PICK n : Moves(r, n) /\ n.pc \in {"done", "meta"} /\ n.i <= Len(n.cmd.files)
  BY ToNextFile
<1>2. UNCHANGED overlap
  BY ToNextFile
<1>3. Stage(r)'
  BY <1>1, StageOfNext
<1> QED  BY <1>1, <1>2, <1>3, Quiet DEF UnderWay

LEMMA InitInv == Init => IInv
<1> SUFFICES ASSUME Init PROVE IInv
  OBVIOUS
<1>1. PICK disk \in Disks : files = [f \in DOMAIN disk |-> [content |-> disk[f], date |-> "old", by |-> NoRun]]
  BY DEF Init
<1> DEFINE Ready(c) == [pc |-> "ready", cmd |-> c, i |-> 1, read |-> NoData, date |-> "", oks |-> <<TRUE, TRUE>>, status |-> "ok"]
<1>10. run \in [Runs -> {Ready(c) : c \in Commands}]
  BY Zenon DEF Init
<1>11. \A c \in Commands : /\ Ready(c) \in RunState
                           /\ Ready(c).pc = "ready" /\ Ready(c).cmd = c /\ Ready(c).i = 1
  <2>1. <<TRUE, TRUE>> \in BOOLEAN \X BOOLEAN
    OBVIOUS
  <2> QED  BY <2>1 DEF RunState
<1> HIDE DEF Ready
<1>2. \A r \in Runs : \E c \in Commands : run[r] = Ready(c)
  BY <1>10
<1>3. DOMAIN files \subseteq Paths
  BY <1>1 DEF Paths
<1>4. run \in [Runs -> RunState]
  BY <1>2, <1>10, <1>11
<1>5. files \in [DOMAIN files -> Version]
  BY <1>1, DisksAssumption DEF Version
<1>6. TypeOK
  BY <1>3, <1>4, <1>5 DEF TypeOK, Init
<1>7. \A r \in Runs : Stage(r)
  <2> SUFFICES ASSUME NEW r \in Runs PROVE Stage(r)
    OBVIOUS
  <2>1. PICK c \in Commands : run[r].cmd = c /\ run[r].pc = "ready" /\ run[r].i = 1
    BY <1>2, <1>11
  <2>2. c.files \in Seq(STRING) /\ c.files # <<>>
    BY CommandsAssumption
  <2> QED  BY <2>1, <2>2 DEF Stage
<1>8. Temps
  BY <1>3, TmpAssumption DEF Temps
<1>9. Together
  BY <1>2, <1>11 DEF Together, UnderWay
<1> QED  BY <1>6, <1>7, <1>8, <1>9 DEF IInv

\* Whoever is under way sees the new run, and it sees them.
LEMMA StartInv == ASSUME IInv, NEW r \in Runs, Start(r) PROVE IInv'
<1> DEFINE n == [run[r] EXCEPT !.pc = "meta"]
<1>1. run[r] \in RunState /\ run[r].pc = "ready" /\ Stage(r) /\ TypeOK
  BY DEF IInv, TypeOK, Start, At
<1>2. Moves(r, n) /\ n.pc = "meta" /\ n.i = run[r].i /\ UNCHANGED files
  BY <1>1 DEF Start, Moves, RunState
<1> HIDE DEF n
<1>3. run' \in [Runs -> RunState] /\ run'[r] = n /\ \A q \in Runs \ {r} : run'[q] = run[q]
  BY <1>1, <1>2, OthersAsBefore
<1>4. overlap' = [q \in Runs |-> IF q = r THEN {p \in Runs \ {r} : UnderWay(p)}
                                ELSE IF UnderWay(q) THEN overlap[q] \cup {r} ELSE overlap[q]]
  BY DEF Start
<1>5. /\ overlap' \in [Runs -> SUBSET Runs]
      /\ \A q \in Runs \ {r} : overlap[q] \subseteq overlap'[q] /\ (UnderWay(q) => r \in overlap'[q])
      /\ \A q \in Runs \ {r} : UnderWay(q) => q \in overlap'[r]
  BY <1>1, <1>4 DEF TypeOK
<1>6. TypeOK'
  BY <1>1, <1>2, <1>3, <1>5 DEF TypeOK
<1>7. (\A q \in Runs : Stage(q))'
  <2>1. Stage(r)'
    BY <1>1, <1>2, StageOfNext DEF Stage, Moves
  <2> QED  BY <1>2, <2>1, StagesStay
<1>8. Together'
  <2>1. \A q \in Runs \ {r} : UnderWay(q)' => UnderWay(q)
    BY <1>3 DEF UnderWay
  <2> QED  BY <1>5, <2>1 DEF IInv, Together
<1>9. Temps'
  <2> SUFFICES ASSUME NEW p \in Paths, Tmp(p) \in DOMAIN files
               PROVE  p \in DOMAIN files /\ Owned(p, files[Tmp(p)].by)'
    BY <1>2 DEF Temps
  <2>1. p \in DOMAIN files /\ Owned(p, files[Tmp(p)].by)
    BY DEF IInv, Temps
  <2>2. PICK w : w = files[Tmp(p)].by
    OBVIOUS
  <2>3. w \in Runs \ {r} /\ run'[w] = run[w]
    BY <1>1, <1>3, <2>1, <2>2 DEF Owned
  <2>4. InPlace(w)' = InPlace(w) /\ Output(w)' = Output(w)
    BY <2>3, SameFile
  <2>5. \A q \in Runs : run'[q].pc = "rename" => q # r /\ run[q].pc = "rename" /\ Output(q)' = Output(q)
    BY <1>2, <1>3, SameFile
  <2>6. Owned(p, w)'
    BY <1>2, <1>5, <2>1, <2>2, <2>3, <2>4, <2>5 DEF Owned
  <2> QED  BY <1>2, <2>1, <2>2, <2>6
<1> QED  BY <1>6, <1>7, <1>8, <1>9 DEF IInv

LEMMA StatInv == ASSUME IInv, NEW r \in Runs, Stat(r) PROVE IInv'
<1>1. run[r] \in RunState /\ run[r].pc = "meta" /\ Stage(r) /\ TypeOK
  BY DEF IInv, TypeOK, Stat, At
<1>2. PICK d : /\ d = IF run[r].cmd.dates /\ Input(r) \in DOMAIN files THEN files[Input(r)].date ELSE ""
               /\ run' = [run EXCEPT ![r] = [run[r] EXCEPT !.pc = "read", !.date = d]] /\ UNCHANGED <<files, overlap>>
  BY Zenon DEF Stat, Continue
<1>3. d \in {"", "old", "new"}
  <2>1. Input(r) \in DOMAIN files => files[Input(r)].date \in {"old", "new"}
    BY <1>1 DEF TypeOK, Version
  <2> QED  BY <1>2, <2>1
<1> DEFINE n == [run[r] EXCEPT !.pc = "read", !.date = d]
<1>4. Moves(r, n) /\ n.pc = "read" /\ n.i = run[r].i
  BY <1>1, <1>2, <1>3 DEF Moves, RunState
<1> HIDE DEF n
<1>5. Stage(r)'
  BY <1>1, <1>4, StageOfNext DEF Stage, Moves
<1> QED  BY <1>1, <1>2, <1>4, <1>5, Quiet DEF UnderWay

LEMMA ReadInv == ASSUME IInv, NEW r \in Runs, Read(r) PROVE IInv'
<1>1. run[r] \in RunState /\ run[r].pc = "read" /\ Stage(r) /\ TypeOK /\ Input(r) \in DOMAIN files
  BY DEF IInv, TypeOK, Read, At
<1>2. files[Input(r)].content \in Content
  BY <1>1 DEF TypeOK, Version
<1> DEFINE n == [run[r] EXCEPT !.pc = "compute", !.read = files[Input(r)].content]
<1>3. Moves(r, n) /\ n.pc = "compute" /\ n.i = run[r].i /\ n.read \in Content /\ UNCHANGED <<files, overlap>>
  BY <1>1, <1>2 DEF Read, Continue, Moves, RunState
<1> HIDE DEF n
<1>4. run'[r] = n
  BY <1>1, <1>3, OthersAsBefore
<1>5. Input(r)' = Input(r)
  BY <1>3, <1>4, SameFile DEF Moves
<1>6. Stage(r)'
  BY <1>1, <1>3, <1>4, <1>5 DEF Stage, Moves
<1> QED  BY <1>1, <1>3, <1>6, Quiet DEF UnderWay

LEMMA ComputeInv == ASSUME IInv, NEW r \in Runs, Compute(r) PROVE IInv'
<1>1. run[r] \in RunState /\ run[r].pc = "compute" /\ Stage(r) /\ TypeOK /\ UnderWay(r) /\ UNCHANGED files
  BY DEF IInv, TypeOK, Compute, At, UnderWay
<1>2. PICK oks \in BOOLEAN \X BOOLEAN :
        IF Computed(run[r].cmd, run[r].read, oks) = Error THEN NextFile(r, FALSE)
        ELSE Continue(r, [run[r] EXCEPT !.pc = "write", !.oks = oks])
  BY DEF Compute
<1>3. CASE NextFile(r, FALSE)
  BY <1>1, <1>3, QuietNextFile
<1>4. CASE /\ Computed(run[r].cmd, run[r].read, oks) # Error
           /\ Continue(r, [run[r] EXCEPT !.pc = "write", !.oks = oks])
  <2> DEFINE n == [run[r] EXCEPT !.pc = "write", !.oks = oks]
  <2>1. /\ Moves(r, n) /\ n.pc = "write" /\ n.i = run[r].i /\ n.read = run[r].read /\ n.oks = oks
        /\ UNCHANGED <<files, overlap>>
    BY <1>1, <1>4 DEF Continue, Moves, RunState
  <2> HIDE DEF n
  <2>2. run'[r] = n
    BY <1>1, <2>1, OthersAsBefore
  <2>3. Input(r)' = Input(r)
    BY <2>1, <2>2, SameFile DEF Moves
  <2>4. Stage(r)'
    BY <1>1, <1>4, <2>1, <2>2, <2>3 DEF Stage, Moves
  <2> QED  BY <1>1, <2>1, <2>4, Quiet DEF UnderWay
<1> QED  BY <1>2, <1>3, <1>4

LEMMA KillInv == ASSUME IInv, NEW r \in Runs, Kill(r) PROVE IInv'
<1>1. run[r] \in RunState /\ UnderWay(r) /\ Stage(r) /\ TypeOK
  BY DEF IInv, TypeOK, Kill
<1> DEFINE n == [run[r] EXCEPT !.pc = "killed"]
<1>2. Moves(r, n) /\ n.pc = "killed" /\ n.i = run[r].i /\ n.read = run[r].read /\ UNCHANGED <<files, overlap>>
  BY <1>1 DEF Kill, Continue, Moves, RunState
<1> HIDE DEF n
<1>3. Stage(r)'
  BY <1>1, <1>2, StageOfNext DEF Stage, Moves
<1> QED  BY <1>1, <1>2, <1>3, Quiet

\* No temporary file is a path of a run, and each path has its own.
LEMMA TmpApart ==
  ASSUME NEW p \in Paths, NEW q \in Paths
  PROVE  Tmp(p) # q /\ (Tmp(p) = Tmp(q) => p = q)
BY TmpAssumption

\* A new version at a path.
LEMMA WithIs ==
  ASSUME TypeOK, NEW path \in Paths \cup {Tmp(p) : p \in Paths}, NEW v \in Version, files' = With(path, v)
  PROVE  /\ files' \in [DOMAIN files' -> Version] /\ DOMAIN files' \subseteq Paths \cup {Tmp(p) : p \in Paths}
         /\ DOMAIN files' = DOMAIN files \cup {path} /\ files'[path] = v
         /\ \A f \in DOMAIN files \ {path} : files'[f] = files[f]
BY DEF With, TypeOK

\* What is written is a version.
LEMMA Written ==
  ASSUME IInv, NEW r \in Runs, run[r].pc = "write"
  PROVE  [content |-> Computed(run[r].cmd, run[r].read, run[r].oks), date |-> "new", by |-> r] \in Version
<1>1. /\ run[r] \in RunState /\ run[r].cmd \in Commands /\ run[r].oks \in BOOLEAN \X BOOLEAN /\ Stage(r)
  BY PathOf DEF IInv, RunState
<1>2. Computed(run[r].cmd, run[r].read, run[r].oks) \in Content
  BY <1>1, ComputedType DEF Stage
<1> QED  BY <1>2 DEF Version

LEMMA WriteInPlaceInv == ASSUME IInv, NEW r \in Runs, Write(r), InPlace(r) PROVE IInv'
<1> DEFINE v == [content |-> Computed(run[r].cmd, run[r].read, run[r].oks), date |-> "new", by |-> r]
           n == [run[r] EXCEPT !.pc = "rename"]
           out == Output(r)
<1>1. /\ run[r] \in RunState /\ run[r].pc = "write" /\ Stage(r) /\ TypeOK /\ out \in Paths
      /\ out \in DOMAIN files /\ Input(r) = out /\ run[r].cmd.tool = "strip" /\ UnderWay(r)
  BY PathOf DEF IInv, TypeOK, Write, At, Stage, InPlace, UnderWay
<1>2. v \in Version
  BY <1>1, Written
<1>3. files' = With(Tmp(out), v) /\ UNCHANGED overlap
  BY <1>1 DEF Write, Destination, Continue
<1>4. Moves(r, n) /\ n.pc = "rename" /\ n.i = run[r].i /\ n.read = run[r].read /\ n.oks = run[r].oks
  BY <1>1 DEF Write, Continue, Moves, RunState
<1>5. v.by = r /\ v.content = StripBytes(run[r].read, run[r].cmd.opts.strip)
  BY <1>1 DEF Computed
<1> HIDE DEF v, n
<1>6. run' \in [Runs -> RunState] /\ run'[r] = n /\ n.cmd = run[r].cmd /\ \A q \in Runs \ {r} : run'[q] = run[q]
  BY <1>1, <1>4, OthersAsBefore DEF Moves
<1>7. Input(r)' = Input(r) /\ Output(r)' = out /\ InPlace(r)' = InPlace(r)
  BY <1>4, <1>6, SameFile
<1> HIDE DEF out
<1>8. /\ files' \in [DOMAIN files' -> Version] /\ DOMAIN files' \subseteq Paths \cup {Tmp(p) : p \in Paths}
      /\ DOMAIN files' = DOMAIN files \cup {Tmp(out)} /\ files'[Tmp(out)] = v
      /\ \A f \in DOMAIN files \ {Tmp(out)} : files'[f] = files[f]
  BY <1>1, <1>2, <1>3, WithIs
<1>9. TypeOK'
  BY <1>1, <1>3, <1>6, <1>8 DEF TypeOK
<1>10. Stage(r)'
  BY <1>1, <1>4, <1>6, <1>7, <1>8 DEF Stage
<1>11. (\A q \in Runs : Stage(q))'
  BY <1>4, <1>8, <1>10, StagesStay
<1>12. Together'
  BY <1>1, <1>3, <1>4, TogetherStays
<1>13. Temps'
  <2> SUFFICES ASSUME NEW p \in Paths, Tmp(p) \in DOMAIN files'
               PROVE  p \in DOMAIN files' /\ Owned(p, files[Tmp(p)].by)'
    BY DEF Temps
  <2>1. CASE p = out
    <3>1. files'[Tmp(p)].by = r /\ files'[Tmp(p)].content = StripBytes(run[r].read, run[r].cmd.opts.strip)
      BY <1>5, <1>8, <2>1
    <3>2. \A q \in Runs : run'[q].pc = "rename" => r = q \/ r \in overlap[q]
      BY <1>1, <1>6 DEF IInv, Together, UnderWay
    <3>3. run[r].read \in Content
      BY <1>1 DEF Stage
    <3>4. Owned(p, r)'
      BY <1>3, <1>4, <1>6, <1>7, <2>1, <3>1, <3>2, <3>3 DEF Owned
    <3> QED  BY <1>1, <1>8, <2>1, <3>1, <3>4
  <2>2. CASE p # out
    <3>1. Tmp(p) # Tmp(out)
      BY <1>1, <2>2, TmpApart
    <3>2. Tmp(p) \in DOMAIN files /\ files'[Tmp(p)] = files[Tmp(p)]
      BY <1>8, <3>1
    <3>3. p \in DOMAIN files
      BY <3>2 DEF IInv, Temps
    <3>4. Owned(p, files[Tmp(p)].by)'
      BY <1>1, <1>3, <1>4, <2>2, <3>2, OwnedStays DEF out
    <3> QED  BY <1>8, <3>3, <3>4
  <2> QED  BY <2>1, <2>2
<1> QED  BY <1>9, <1>11, <1>12, <1>13 DEF IInv

\* The other writes are to a path of the run.
LEMMA WriteOutInv == ASSUME IInv, NEW r \in Runs, Write(r), ~InPlace(r) PROVE IInv'
<1> DEFINE v == [content |-> Computed(run[r].cmd, run[r].read, run[r].oks), date |-> "new", by |-> r]
           out == Output(r)
<1>1. /\ run[r] \in RunState /\ run[r].pc = "write" /\ Stage(r) /\ TypeOK /\ out \in Paths /\ UnderWay(r)
  BY PathOf DEF IInv, TypeOK, Write, At, UnderWay
<1>2. v \in Version
  BY <1>1, Written
<1>3. files' = With(out, v)
  BY DEF Write, Destination
<1> HIDE DEF v, out
<1>4. /\ files' \in [DOMAIN files' -> Version] /\ DOMAIN files' \subseteq Paths \cup {Tmp(p) : p \in Paths}
      /\ DOMAIN files' = DOMAIN files \cup {out}
      /\ \A f \in DOMAIN files \ {out} : files'[f] = files[f]
  BY <1>1, <1>2, <1>3, WithIs
<1>5. \A p \in Paths : Tmp(p) \in DOMAIN files' => Tmp(p) \in DOMAIN files /\ files'[Tmp(p)] = files[Tmp(p)]
  BY <1>1, <1>4, TmpApart
<1>6. PICK n : Moves(r, n) /\ n.pc \in {"dates", "done", "meta"} /\ UNCHANGED overlap /\ Stage(r)'
  <2>1. CASE run[r].cmd.tool = "strip"
    <3> DEFINE n == [run[r] EXCEPT !.pc = "dates"]
    <3>1. Moves(r, n) /\ n.pc = "dates" /\ n.i = run[r].i /\ n.read = run[r].read /\ UNCHANGED overlap
      BY <1>1, <2>1 DEF Write, Continue, Moves, RunState
    <3> HIDE DEF n
    <3>2. run'[r] = n
      BY <1>1, <3>1, OthersAsBefore
    <3>3. Input(r)' = Input(r)
      BY <3>1, <3>2, SameFile DEF Moves
    <3>4. Stage(r)'
      BY <1>1, <1>4, <3>1, <3>2, <3>3 DEF Stage, Moves
    <3> QED  BY <3>1, <3>4
  <2>2. CASE run[r].cmd.tool # "strip"
    <3>1. NextFile(r, TRUE)
      BY <2>2 DEF Write
    <3>2. PICK n : Moves(r, n) /\ n.pc \in {"done", "meta"} /\ n.i <= Len(n.cmd.files)
      BY <3>1, ToNextFile
    <3>3. UNCHANGED overlap
      BY <3>1, ToNextFile
    <3>4. Stage(r)'
      BY <3>2, StageOfNext
    <3> QED  BY <3>2, <3>3, <3>4
  <2> QED  BY <2>1, <2>2
<1> QED  BY <1>1, <1>4, <1>5, <1>6, FileStep

\* After the rename, whoever made the file, the temporary path is free.
LEMMA RenameInv == ASSUME IInv, NEW r \in Runs, Rename(r) PROVE IInv'
<1> DEFINE out == Output(r)
           n   == [run[r] EXCEPT !.pc = "dates"]
<1>1. /\ run[r] \in RunState /\ run[r].pc = "rename" /\ Stage(r) /\ TypeOK /\ UnderWay(r)
      /\ out \in Paths /\ Tmp(out) \in DOMAIN files
  BY PathOf DEF IInv, TypeOK, Rename, At, UnderWay
<1>2. files' = [f \in (DOMAIN files \ {Tmp(out)}) \cup {out} |-> files[IF f = out THEN Tmp(out) ELSE f]]
  BY DEF Rename
<1>3. Moves(r, n) /\ n.pc = "dates" /\ n.i = run[r].i /\ n.read = run[r].read /\ UNCHANGED overlap
  BY <1>1 DEF Rename, Continue, Moves, RunState
<1> HIDE DEF n, out
<1>4. DOMAIN files' = (DOMAIN files \ {Tmp(out)}) \cup {out}
  BY <1>2
<1>5. files' \in [DOMAIN files' -> Version] /\ DOMAIN files' \subseteq Paths \cup {Tmp(p) : p \in Paths}
  BY <1>1, <1>2, <1>4 DEF TypeOK
<1>6. \A p \in Paths : p \in DOMAIN files => p \in DOMAIN files'
  BY <1>1, <1>4, TmpApart
<1>7. \A p \in Paths : Tmp(p) \in DOMAIN files' =>
        Tmp(p) \in DOMAIN files /\ files'[Tmp(p)] = files[Tmp(p)] /\ p # out
  BY <1>1, <1>2, <1>4, TmpApart
<1>8. run'[r] = n /\ Input(r)' = Input(r)
  <2>1. run'[r] = n
    BY <1>1, <1>3, OthersAsBefore
  <2> QED  BY <1>3, <2>1, SameFile DEF Moves
<1>9. Stage(r)'
  <2>1. Input(r) \in Paths /\ Input(r) \in DOMAIN files /\ run[r].read \in Content /\ run[r].i <= Len(run[r].cmd.files)
    BY <1>1, PathOf DEF Stage
  <2> QED  BY <1>3, <1>6, <1>8, <2>1 DEF Stage, Moves
<1> QED  BY <1>1, <1>3, <1>5, <1>6, <1>7, <1>9, FileStep DEF out

LEMMA RenameFailsInv == ASSUME IInv, NEW r \in Runs, RenameFails(r) PROVE IInv'
<1> DEFINE out == Output(r)
<1>1. /\ run[r] \in RunState /\ run[r].pc = "rename" /\ Stage(r) /\ TypeOK /\ UnderWay(r) /\ out \in Paths
  BY PathOf DEF IInv, TypeOK, RenameFails, At, UnderWay
<1>2. files' = [f \in DOMAIN files \ {Tmp(out)} |-> files[f]] /\ NextFile(r, FALSE)
  BY DEF RenameFails, Without
<1> HIDE DEF out
<1>3. DOMAIN files' = DOMAIN files \ {Tmp(out)}
  BY <1>2
<1>4. files' \in [DOMAIN files' -> Version] /\ DOMAIN files' \subseteq Paths \cup {Tmp(p) : p \in Paths}
  BY <1>1, <1>2, <1>3 DEF TypeOK
<1>5. \A p \in Paths : p \in DOMAIN files => p \in DOMAIN files'
  BY <1>1, <1>3, TmpApart
<1>6. \A p \in Paths : Tmp(p) \in DOMAIN files' =>
        Tmp(p) \in DOMAIN files /\ files'[Tmp(p)] = files[Tmp(p)] /\ p # out
  BY <1>1, <1>2, <1>3
<1>7. PICK n : Moves(r, n) /\ n.pc \in {"done", "meta"} /\ n.i <= Len(n.cmd.files)
  BY <1>2, ToNextFile
<1>8. UNCHANGED overlap
  BY <1>2, ToNextFile
<1>9. Stage(r)'
  BY <1>7, StageOfNext
<1> QED  BY <1>1, <1>4, <1>5, <1>6, <1>7, <1>8, <1>9, FileStep DEF out

LEMMA SetDatesInv == ASSUME IInv, NEW r \in Runs, SetDates(r) PROVE IInv'
<1> DEFINE out == Output(r)
           v   == [files[out] EXCEPT !.date = run[r].date]
<1>1. /\ run[r] \in RunState /\ run[r].pc = "dates" /\ Stage(r) /\ TypeOK /\ UnderWay(r) /\ out \in Paths
      /\ run[r].date \in {"", "old", "new"} /\ NextFile(r, TRUE)
  BY PathOf DEF IInv, TypeOK, SetDates, At, UnderWay, RunState
<1>2. CASE files' = files
  BY <1>1, <1>2, QuietNextFile
<1>3. CASE run[r].date # "" /\ out \in DOMAIN files /\ files' = With(out, v)
  <2>1. v \in Version
    BY <1>1, <1>3 DEF TypeOK, Version
  <2> HIDE DEF v, out
  <2>2. /\ files' \in [DOMAIN files' -> Version] /\ DOMAIN files' \subseteq Paths \cup {Tmp(p) : p \in Paths}
        /\ DOMAIN files' = DOMAIN files \cup {out}
        /\ \A f \in DOMAIN files \ {out} : files'[f] = files[f]
    BY <1>1, <1>3, <2>1, WithIs
  <2>3. \A p \in Paths : Tmp(p) \in DOMAIN files' => Tmp(p) \in DOMAIN files /\ files'[Tmp(p)] = files[Tmp(p)]
    BY <1>1, <2>2, TmpApart
  <2>4. PICK n : Moves(r, n) /\ n.pc \in {"done", "meta"} /\ n.i <= Len(n.cmd.files)
    BY <1>1, ToNextFile
  <2>5. UNCHANGED overlap
    BY <1>1, ToNextFile
  <2>6. Stage(r)'
    BY <2>4, StageOfNext
  <2> QED  BY <1>1, <2>2, <2>3, <2>4, <2>5, <2>6, FileStep
<1>4. files' = files \/ (run[r].date # "" /\ out \in DOMAIN files /\ files' = With(out, v))
  BY Zenon DEF SetDates
<1> QED  BY <1>2, <1>3, <1>4

LEMMA StepInv == ASSUME IInv, NEW r \in Runs, Step(r) PROVE IInv'
<1>1. ASSUME ReadFails(r) PROVE IInv'
  BY <1>1, QuietNextFile DEF ReadFails, At, UnderWay
<1>2. ASSUME Skip(r) PROVE IInv'
  BY <1>2, QuietNextFile DEF Skip, At, UnderWay
<1>3. ASSUME WriteFails(r) PROVE IInv'
  BY <1>3, QuietNextFile DEF WriteFails, At, UnderWay
<1>4. ASSUME Write(r) PROVE IInv'
  BY <1>4, WriteInPlaceInv, WriteOutInv
<1> QED  BY <1>1, <1>2, <1>3, <1>4, StartInv, StatInv, ReadInv, ComputeInv, RenameInv, RenameFailsInv, SetDatesInv, KillInv DEF Step

LEMMA StutterInv == IInv /\ UNCHANGED vars => IInv'
<1> SUFFICES ASSUME IInv, UNCHANGED vars PROVE IInv'
  OBVIOUS
<1>1. UNCHANGED <<files, run, overlap>>
  BY DEF vars
<1>2. TypeOK' /\ Together'
  BY <1>1 DEF IInv, TypeOK, Together, UnderWay
<1>3. (\A r \in Runs : Stage(r)')
  BY <1>1 DEF IInv, Stage, Input, Output, InPlace
<1>4. Temps'
  <2>1. \A r \in Runs : (InPlace(r)' <=> InPlace(r)) /\ Output(r)' = Output(r)
    BY <1>1 DEF InPlace, Input, Output
  <2>2. \A p \in Paths : \A w : Owned(p, w) => Owned(p, w)'
    BY <1>1, <2>1 DEF Owned
  <2> QED  BY <1>1, <2>2 DEF IInv, Temps
<1> QED  BY <1>2, <1>3, <1>4 DEF IInv

LEMMA Invariance == Spec => []IInv
<1>1. IInv /\ [Next]_vars => IInv'
  BY StepInv, StutterInv DEF Next
<1> QED  BY <1>1, InitInv, PTL DEF Spec

\* Every file and every run has its type.
THEOREM TypeCorrect == Spec => []TypeOK
<1>1. IInv => TypeOK
  BY DEF IInv
<1> QED  BY <1>1, Invariance, PTL

\* However many strips share a temporary path, and wherever they fail: a
\* temporary file is there only while one of them runs or because it was killed.
THEOREM StripsCleanUp == Spec => []NoTempLeft
<1>1. IInv => NoTempLeft
  <2> SUFFICES ASSUME IInv, NEW f \in DOMAIN files, Tmp(f) \in DOMAIN files
               PROVE  \E r \in Runs : /\ run[r].cmd.tool = "strip"
                                      /\ \E i \in DOMAIN run[r].cmd.files : run[r].cmd.files[i] = f
                                      /\ At(r, "killed") \/ (At(r, "rename") /\ Output(r) = f)
    BY DEF NoTempLeft
  <2>1. f \in Paths
    BY TmpAssumption DEF IInv, TypeOK
  <2>2. PICK w : w = files[Tmp(f)].by
    OBVIOUS
  <2>3. Owned(f, w)
    BY <2>1, <2>2 DEF IInv, Temps
  <2>4. w \in Runs /\ run[w].cmd.tool = "strip" /\ Input(w) = f /\ Output(w) = f /\ run[w].pc \in {"rename", "killed"}
    BY <2>3 DEF Owned, InPlace
  <2>5. run[w].i \in DOMAIN run[w].cmd.files
    <3>1. run[w].i \in 1..Len(run[w].cmd.files) /\ run[w].cmd \in Commands
      BY <2>4, PathOf DEF IInv
    <3>2. run[w].cmd.files \in Seq(STRING)
      BY <3>1, CommandsAssumption
    <3> QED  BY <3>1, <3>2
  <2> QED  BY <2>4, <2>5 DEF At, Input
<1> QED  BY <1>1, Invariance, PTL

\* Every new version of a file is a whole result of one command for what its run
\* read, or astray in a way that is named, and comes from the run that publishes
\* it or one under way together with it.
THEOREM WholeVersions == Spec => VersionsAsAsked
<1> DEFINE Right == \A f \in DOMAIN files' : Published(f) =>
                      LET w == files'[f].by IN
                      /\ (files'[f].content = Asked(run[w].cmd, run[w].read)) <=> ~Astray(run[w].cmd, run[w].read, run[w].oks)
                      /\ \E r \in Runs : run'[r] # run[r] /\ (w = r \/ w \in overlap[r])
<1>1. ASSUME IInv, NEW r \in Runs, Write(r) PROVE Right
  <2> DEFINE v == [content |-> Computed(run[r].cmd, run[r].read, run[r].oks), date |-> "new", by |-> r]
             d == Destination(r)
  <2>1. /\ run[r] \in RunState /\ run[r].cmd \in Commands /\ run[r].oks \in BOOLEAN \X BOOLEAN /\ run[r].pc = "write"
        /\ Stage(r) /\ TypeOK /\ Output(r) \in Paths
    BY <1>1, PathOf DEF IInv, RunState, Write, At
  <2>2. v \in Version /\ v.by = r /\ v.content = Computed(run[r].cmd, run[r].read, run[r].oks)
    BY <1>1, <2>1, Written
  <2>3. files' = With(d, v) /\ d \in Paths \cup {Tmp(p) : p \in Paths}
    BY <1>1, <2>1 DEF Write, Destination
  <2> HIDE DEF v, d
  <2>4. DOMAIN files' = DOMAIN files \cup {d} /\ files'[d] = v /\ \A f \in DOMAIN files \ {d} : files'[f] = files[f]
    BY <2>1, <2>2, <2>3, WithIs
  <2>5. \A f \in DOMAIN files' : Published(f) => f = d
    BY <2>4 DEF Published
  <2>6. (v.content = Asked(run[r].cmd, run[r].read)) <=> ~Astray(run[r].cmd, run[r].read, run[r].oks)
    BY <2>1, <2>2, RightOrAstray DEF Stage
  <2>7. run'[r] # run[r]
    <3>1. CASE Continue(r, [run[r] EXCEPT !.pc = IF InPlace(r) THEN "rename" ELSE "dates"])
      <4>1. run'[r].pc \in {"rename", "dates"}
        BY <2>1, <3>1 DEF Continue, TypeOK, RunState
      <4> QED  BY <2>1, <4>1
    <3>2. CASE NextFile(r, TRUE)
      <4>1. PICK n : Moves(r, n) /\ n.pc \in {"done", "meta"}
        BY <1>1, <3>2, ToNextFile
      <4>2. run'[r] = n
        BY <2>1, <4>1, OthersAsBefore
      <4> QED  BY <2>1, <4>1, <4>2
    <3> QED  BY <1>1, <3>1, <3>2 DEF Write
  <2> QED  BY <2>2, <2>4, <2>5, <2>6, <2>7
<1>2. ASSUME IInv, NEW r \in Runs, Rename(r) PROVE Right
  <2> DEFINE out == Output(r)
  <2>1. /\ run[r] \in RunState /\ run[r].pc = "rename" /\ TypeOK /\ out \in Paths /\ Tmp(out) \in DOMAIN files
    BY <1>2, PathOf DEF IInv, TypeOK, Rename, At
  <2>2. files' = [f \in (DOMAIN files \ {Tmp(out)}) \cup {out} |-> files[IF f = out THEN Tmp(out) ELSE f]]
    BY <1>2 DEF Rename
  <2>3. PICK w : w = files[Tmp(out)].by
    OBVIOUS
  <2>4. Owned(out, w) /\ (w = r \/ w \in overlap[r])
    BY <1>2, <2>1, <2>3 DEF IInv, Temps, Owned
  <2>5. run'[r] # run[r]
    <3>1. run'[r].pc = "dates"
      BY <1>2, <2>1 DEF Rename, Continue, TypeOK, RunState
    <3> QED  BY <2>1, <3>1
  <2>6. (files[Tmp(out)].content = Asked(run[w].cmd, run[w].read)) /\ ~Astray(run[w].cmd, run[w].read, run[w].oks)
    <3>1. run[w].cmd.tool = "strip" /\ files[Tmp(out)].content = StripBytes(run[w].read, run[w].cmd.opts.strip)
      BY <2>4 DEF Owned, InPlace
    <3> QED  BY <3>1 DEF Asked, Computed, Astray
  <2> HIDE DEF out
  <2>7. \A f \in DOMAIN files' : Published(f) => f = out
    BY <2>2 DEF Published
  <2>8. files'[out] = files[Tmp(out)]
    BY <2>2
  <2> QED  BY <2>3, <2>4, <2>5, <2>6, <2>7, <2>8
<1>3. ASSUME IInv, NEW r \in Runs, SetDates(r) PROVE \A f \in DOMAIN files' : ~Published(f)
  <2> DEFINE out == Output(r)
             v   == [files[out] EXCEPT !.date = run[r].date]
  <2>1. files' = files \/ (out \in DOMAIN files /\ files' = With(out, v))
    BY <1>3, Zenon DEF SetDates
  <2>2. out \in DOMAIN files => v.by = files[out].by /\ v.content = files[out].content
    BY <1>3 DEF IInv, TypeOK, Version
  <2> HIDE DEF v, out
  <2>3. \A f \in DOMAIN files' : f \in DOMAIN files /\ files'[f].by = files[f].by /\ files'[f].content = files[f].content
    BY <2>1, <2>2 DEF With
  <2> QED  BY <2>3 DEF Published
<1>4. ASSUME IInv, NEW r \in Runs, RenameFails(r) PROVE \A f \in DOMAIN files' : ~Published(f)
  BY <1>4 DEF RenameFails, Without, Published
<1>5. ASSUME UNCHANGED files PROVE \A f \in DOMAIN files' : ~Published(f)
  BY <1>5 DEF Published
<1>6. IInv /\ Next => Right
  <2> SUFFICES ASSUME IInv, NEW r \in Runs, Step(r) PROVE Right
    BY DEF Next
  <2>1. UNCHANGED files \/ Write(r) \/ Rename(r) \/ RenameFails(r) \/ SetDates(r)
    BY DEF Step, Start, Stat, Read, ReadFails, Skip, Compute, WriteFails, Kill
  <2> QED  BY <1>1, <1>2, <1>3, <1>4, <1>5, <2>1
<1>7. IInv /\ [Next]_vars => [Right]_vars
  BY <1>6
<1> QED  BY <1>7, Invariance, PTL DEF Spec, VersionsAsAsked
=============================================================================
