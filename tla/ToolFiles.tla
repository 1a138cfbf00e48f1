----------------------------- MODULE ToolFiles ------------------------------
(* oxide-strip, oxide-objcopy and oxide-elfedit on files that other runs of  *)
(* them read and replace at the same time.  Each tool reads a whole file,    *)
(* computes a new one and publishes it with atomic_write, which is one step  *)
(* here (AtomicWrite implements AtomicFile); a strip in place publishes at   *)
(* X.oxide-strip.tmp first and renames.  A file is the sections it has,      *)
(* whether it still has its linkage (the program headers of an executable,   *)
(* the relocations of an object) and a field of its header.                  *)
EXTENDS Integers, Sequences, FiniteSets, SequencesExt

CONSTANTS
  Runs,        \* processes, one run of a tool each
  Commands,    \* command lines: [tool, files, out, opts, dates]
  Disks        \* initial disks: path |-> content

\* A content.  The relocations of an object are in its .rela.text.
Object ==
  {c \in [kind : {"exec", "rel"}, sections : SUBSET STRING, linkage : BOOLEAN, osabi : Nat] :
     c.kind = "rel" /\ c.linkage => ".rela.text" \in c.sections}
Content == Object \cup [kind : {"text", "raw"}, sections : SUBSET STRING]

NoOut == ""    \* without -o
Tmp(path) == path \o ".oxide-strip.tmp"
Paths ==
  (UNION {DOMAIN disk : disk \in Disks}) \cup (UNION {ToSet(c.files) : c \in Commands}) \cup ({c.out : c \in Commands} \ {NoOut})

ASSUME DisksAssumption == \A disk \in Disks : \A f \in DOMAIN disk : disk[f] \in Content
ASSUME CommandsAssumption ==
  \A c \in Commands :
    /\ c.tool \in {"strip", "objcopy", "elfedit"}
    /\ c.files \in Seq(STRING) /\ c.files # <<>> /\ (c.out # NoOut => Len(c.files) = 1)
    /\ c.tool = "objcopy" => Len(c.files) = 1 /\ c.opts.binary \in BOOLEAN
    /\ c.tool = "elfedit" => c.opts.osabi \in Nat
\* Nobody names a temporary file of oxide-strip, and each path has its own.
ASSUME TmpAssumption ==
  \A p \in Paths : \A q \in Paths \cup {Tmp(x) : x \in Paths} : Tmp(q) # p /\ (Tmp(q) = Tmp(p) => q = p)

VARIABLES
  files,    \* path |-> [content, date, by]: the files there are; by is the run that computed it
  run,      \* run |-> its state
  overlap   \* history: run |-> the runs that were under way while it was
vars == <<files, run, overlap>>

NoRun == "none"
NoData == [kind |-> "none"]
----------------------------------------------------------------------------
(* What the tools compute: content |-> content, or Error. *)
Error == [kind |-> "error"]
IsObject(c) == c.kind \in {"exec", "rel"}
IsDebugSection(name) == name \in {".debug_info", ".comment"}
Allocated == {".text", ".data"}
DropSection(name, strip) ==
  /\ name \notin Allocated
  /\ \/ strip \cap {"all", "unneeded"} # {} /\ name \in {".symtab", ".rela.text"}
     \/ strip \cap {"all", "debug"} # {} /\ IsDebugSection(name)
Normalized(strip) == IF strip = {} THEN {"all"} ELSE strip
Trimmed(c, kept) == [c EXCEPT !.sections = kept, !.linkage = @ /\ (c.kind = "exec" \/ ".rela.text" \in kept)]
StripBytes(c, strip) ==
  IF ~IsObject(c) THEN Error ELSE Trimmed(c, {n \in c.sections : ~DropSection(n, Normalized(strip))})

KeepSection(name, opts) == name \notin opts.remove /\ (opts.only = {} \/ name \in opts.only)
FilterActive(opts) == opts.only # {} \/ opts.remove # {}
\* The object crate writes a relocatable object without relocations, or an error (ok is its answer).
FilterViaObjectWrite(c, opts, ok) ==
  IF ~IsObject(c) \/ ~ok THEN Error
  ELSE [c EXCEPT !.kind = "rel", !.linkage = FALSE, !.sections = {n \in @ : KeepSection(n, opts)}]
\* A strip stands in for -R; its second pass may fail, and what the first left is the answer.
FilterElfSections(c, opts, ok) ==
  LET first  == StripBytes(c, IF ".debug_info" \in opts.remove THEN {"debug"} ELSE {})
      second == FilterViaObjectWrite(first, opts, ok)
  IN IF opts.only # {} THEN Error
     ELSE IF opts.remove \ {".debug_info", ".comment"} # {} /\ second # Error THEN second ELSE first
FilterSections(c, opts, oks) ==
  LET rebuilt == FilterViaObjectWrite(c, opts, oks[1])
  IN IF rebuilt # Error \/ ~IsObject(c) THEN rebuilt ELSE FilterElfSections(c, opts, oks[2])
ExtractBinary(c, opts) ==
  LET wanted == {n \in c.sections : n \in (IF opts.only = {} THEN {".text"} ELSE opts.only) /\ n \notin opts.remove}
  IN IF ~IsObject(c) \/ (opts.only # {} /\ wanted = {}) THEN Error
     ELSE [kind |-> "raw", sections |-> wanted]
ObjcopyBytes(c, opts, oks) ==
  LET bytes == IF FilterActive(opts) THEN FilterSections(c, opts, oks) ELSE c
  IN IF opts.binary THEN ExtractBinary(c, opts)
     ELSE IF bytes = Error \/ opts.strip = {} THEN bytes ELSE StripBytes(bytes, opts.strip)

Matches(c, edit) == edit.inputType \in {"any", c.kind}
Edited(c, edit) == IF ~IsObject(c) THEN Error ELSE [c EXCEPT !.osabi = edit.osabi]

Computed(cmd, c, oks) ==
  CASE cmd.tool = "strip"   -> StripBytes(c, cmd.opts.strip)
    [] cmd.tool = "objcopy" -> ObjcopyBytes(c, cmd.opts, oks)
    [] cmd.tool = "elfedit" -> Edited(c, cmd.opts)
----------------------------------------------------------------------------
Init ==
  /\ \E disk \in Disks : files = [f \in DOMAIN disk |-> [content |-> disk[f], date |-> "old", by |-> NoRun]]
  /\ run \in [Runs -> {[pc |-> "ready", cmd |-> c, i |-> 1, read |-> NoData, date |-> "", oks |-> <<TRUE, TRUE>>,
                        status |-> "ok"] : c \in Commands}]
  /\ overlap = [r \in Runs |-> {}]

Input(r) == run[r].cmd.files[run[r].i]
Output(r) == IF run[r].cmd.out = NoOut \/ run[r].cmd.tool = "elfedit" THEN Input(r) ELSE run[r].cmd.out
InPlace(r) == run[r].cmd.tool = "strip" /\ Input(r) = Output(r)
Destination(r) == IF InPlace(r) THEN Tmp(Output(r)) ELSE Output(r)
With(path, version) == [f \in DOMAIN files \cup {path} |-> IF f = path THEN version ELSE files[f]]
Without(path) == [f \in DOMAIN files \ {path} |-> files[f]]

At(r, pc) == run[r].pc = pc
UnderWay(r) == run[r].pc \notin {"ready", "done", "killed"}
Continue(r, next) ==
  /\ run' = [run EXCEPT ![r] = next]
  /\ UNCHANGED overlap
\* Errors are counted and the next file is taken; objcopy has one.
NextFile(r, ok) ==
  Continue(r, [run[r] EXCEPT !.status = IF ok THEN @ ELSE "error",
                             !.i = IF @ = Len(run[r].cmd.files) THEN @ ELSE @ + 1,
                             !.pc = IF run[r].i = Len(run[r].cmd.files) THEN "done" ELSE "meta"])

Start(r) ==
  /\ At(r, "ready")
  /\ run' = [run EXCEPT ![r].pc = "meta"]
  /\ overlap' = [q \in Runs |-> IF q = r THEN {p \in Runs \ {r} : UnderWay(p)}
                                ELSE IF UnderWay(q) THEN overlap[q] \cup {r} ELSE overlap[q]]
  /\ UNCHANGED files
\* strip -p: the dates of the input, if it has any.
Stat(r) ==
  /\ At(r, "meta")
  /\ Continue(r, [run[r] EXCEPT !.pc = "read",
                    !.date = IF run[r].cmd.dates /\ Input(r) \in DOMAIN files THEN files[Input(r)].date ELSE ""])
  /\ UNCHANGED files
Read(r) ==
  /\ At(r, "read")
  /\ Input(r) \in DOMAIN files
  /\ Continue(r, [run[r] EXCEPT !.pc = "compute", !.read = files[Input(r)].content])
  /\ UNCHANGED files
ReadFails(r) ==
  /\ At(r, "read")
  /\ NextFile(r, FALSE)
  /\ UNCHANGED files
\* No match is no error and writes nothing.
Skip(r) ==
  /\ At(r, "compute")
  /\ run[r].cmd.tool = "elfedit" /\ IsObject(run[r].read) /\ ~Matches(run[r].read, run[r].cmd.opts)
  /\ NextFile(r, TRUE)
  /\ UNCHANGED files
Compute(r) ==
  /\ At(r, "compute")
  /\ run[r].cmd.tool = "elfedit" /\ IsObject(run[r].read) => Matches(run[r].read, run[r].cmd.opts)
  /\ \E oks \in BOOLEAN \X BOOLEAN :
       IF Computed(run[r].cmd, run[r].read, oks) = Error THEN NextFile(r, FALSE)
       ELSE Continue(r, [run[r] EXCEPT !.pc = "write", !.oks = oks])
  /\ UNCHANGED files
Write(r) ==
  /\ At(r, "write")
  /\ files' = With(Destination(r), [content |-> Computed(run[r].cmd, run[r].read, run[r].oks), date |-> "new", by |-> r])
  /\ IF run[r].cmd.tool = "strip"
     THEN Continue(r, [run[r] EXCEPT !.pc = IF InPlace(r) THEN "rename" ELSE "dates"])
     ELSE NextFile(r, TRUE)
WriteFailsUnnoticed(r) ==    \* a mutation: strip_file's error is not returned
  /\ At(r, "write")
  /\ IF InPlace(r) THEN Continue(r, [run[r] EXCEPT !.pc = "rename"]) ELSE NextFile(r, FALSE)
  /\ UNCHANGED files
WriteFails(r) ==
  /\ At(r, "write")
  /\ NextFile(r, FALSE)
  /\ UNCHANGED files
\* Whatever is at the temporary path goes to the output.
Rename(r) ==
  /\ At(r, "rename")
  /\ Tmp(Output(r)) \in DOMAIN files
  /\ files' = [f \in (DOMAIN files \ {Tmp(Output(r))}) \cup {Output(r)} |->
                 files[IF f = Output(r) THEN Tmp(Output(r)) ELSE f]]
  /\ Continue(r, [run[r] EXCEPT !.pc = "dates"])
RenameFailsOnly(r) ==    \* a mutation: the temporary file stays
  /\ At(r, "rename")
  /\ UNCHANGED files
  /\ NextFile(r, FALSE)
RenameFails(r) ==
  /\ At(r, "rename")
  /\ files' = Without(Tmp(Output(r)))
  /\ NextFile(r, FALSE)
\* Best effort, on the file that is at the output now.
SetDates(r) ==
  /\ At(r, "dates")
  /\ files' = IF run[r].date = "" \/ Output(r) \notin DOMAIN files THEN files
              ELSE With(Output(r), [files[Output(r)] EXCEPT !.date = run[r].date])
  /\ NextFile(r, TRUE)
Kill(r) ==
  /\ UnderWay(r)
  /\ Continue(r, [run[r] EXCEPT !.pc = "killed"])
  /\ UNCHANGED files

Step(r) ==
  \/ Start(r) \/ Stat(r) \/ Read(r) \/ ReadFails(r) \/ Skip(r) \/ Compute(r) \/ Write(r) \/ WriteFails(r)
  \/ Rename(r) \/ RenameFails(r) \/ SetDates(r) \/ Kill(r)
Next == \E r \in Runs : Step(r)
Spec == Init /\ [][Next]_vars
----------------------------------------------------------------------------
Version == [content : Content, date : {"old", "new"}, by : Runs \cup {NoRun}]
RunState ==
  [pc : {"ready", "meta", "read", "compute", "write", "rename", "dates", "done", "killed"}, cmd : Commands, i : Nat \ {0},
   read : Content \cup {NoData}, date : {"", "old", "new"}, oks : BOOLEAN \X BOOLEAN, status : {"ok", "error"}]
TypeOK ==
  /\ DOMAIN files \subseteq Paths \cup {Tmp(p) : p \in Paths}
  /\ files \in [DOMAIN files -> Version]
  /\ run \in [Runs -> RunState]
  /\ overlap \in [Runs -> SUBSET Runs]

(* What a command line asks for. *)
Asked(cmd, c) ==
  IF cmd.tool # "objcopy" \/ cmd.opts.binary THEN Computed(cmd, c, <<TRUE, TRUE>>)
  ELSE IF ~IsObject(c) THEN c
  ELSE Trimmed(c, {n \in c.sections : KeepSection(n, cmd.opts) /\ ~DropSection(n, cmd.opts.strip)})
\* A filtered copy has lost its program headers and relocations or, where a strip stood in for -R, has lost all
\* that --strip-debug (--strip-all, if no .debug section is named) drops and may have kept what -R names.
Stripped(cmd) == IF ".debug_info" \in cmd.opts.remove THEN {"debug"} ELSE {"all"}
SecondPass(cmd, oks) == oks[2] /\ cmd.opts.remove \ {".debug_info", ".comment"} # {}
KeptInstead(n, cmd, oks) == ~DropSection(n, Stripped(cmd)) /\ (SecondPass(cmd, oks) => KeepSection(n, cmd.opts))
Astray(cmd, c, oks) ==
  /\ cmd.tool = "objcopy" /\ ~cmd.opts.binary /\ FilterActive(cmd.opts)
  /\ \/ (oks[1] \/ SecondPass(cmd, oks)) /\ (c.kind = "exec" \/ Asked(cmd, c).linkage)
     \/ ~oks[1] /\ \E n \in c.sections :
          ~DropSection(n, cmd.opts.strip) /\ (KeepSection(n, cmd.opts) # KeptInstead(n, cmd, oks))

Targets == {f \in DOMAIN files' : \A g \in DOMAIN files' : f # Tmp(g)}
Published(f) ==
  f \in Targets /\ (f \in DOMAIN files => files'[f].by # files[f].by \/ files'[f].content # files[f].content)
\* Every new version of a file is a whole result: what a command line asks for of a content that its run read, but
\* for the objcopy filters named above (objcopy.rs filter_sections).  The run is the one that publishes it or, as
\* strips of one file share a temporary path (oxide-strip main.rs), one under way together with it: what a run that
\* ended before has left there is never published.
VersionsAsAsked ==
  [][\A f \in DOMAIN files' : Published(f) =>
       LET w == files'[f].by IN
       /\ (files'[f].content = Asked(run[w].cmd, run[w].read)) <=> ~Astray(run[w].cmd, run[w].read, run[w].oks)
       /\ \E r \in Runs : run'[r] # run[r] /\ (w = r \/ w \in overlap[r])]_vars

\* Unless a strip was killed, a temporary file is there only while a strip that will rename or remove it runs,
\* however many strips share it and fail (oxide-strip main.rs do_strip).
NoTempLeft ==
  \A f \in DOMAIN files : Tmp(f) \in DOMAIN files =>
    \E r \in Runs : /\ run[r].cmd.tool = "strip" /\ \E i \in DOMAIN run[r].cmd.files : run[r].cmd.files[i] = f
                    /\ At(r, "killed") \/ (At(r, "rename") /\ Output(r) = f)
=============================================================================
