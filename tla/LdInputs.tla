------------------------------ MODULE LdInputs ------------------------------
(* oxide-ld before it links: the command line becomes a configuration        *)
(* (main.rs), and every input of it, in order, becomes the objects, archives *)
(* and shared objects that are linked (linker.rs resolve_path, libsearch.rs):*)
(* -l is searched for, and a GROUP script stands for the files it names.     *)
(* An argument is [opt, val], val being what is glued to the option; a word  *)
(* that is no option has opt "".  Options that mean the same are one.        *)
EXTENDS LdScript, FiniteSets, TLC

CONSTANTS
  Cases,       \* the invocations: [argv, disk], disk a function from paths to files
  Names,       \* names of input sections
  StackDepth   \* the nested calls of resolve_path that the stack holds
Kinds   == {"object", "archive", "shared", "group", "text", "dir"}
LinkArg == [kind : {"lib", "file"}, name : STRING]
ASSUME CasesAssumption ==
  \A c \in Cases :
    /\ c.argv \in Seq([opt : STRING, val : STRING])
    /\ IsFiniteSet(DOMAIN c.disk) /\ DOMAIN c.disk \subseteq STRING \ {""}
    /\ \A f \in DOMAIN c.disk : c.disk[f].kind \in Kinds /\ c.disk[f].members \in Seq(LinkArg)
ASSUME StackDepthAssumption ==
  StackDepth \in Nat /\ \A c \in Cases : StackDepth > Cardinality({f \in DOMAIN c.disk : c.disk[f].kind = "group"})

VARIABLES
  argv, disk,   \* the invocation
  pc,           \* "args", "inputs", "link", or how it ended: "failed", "overflow", "usage", "smoke"
  i,            \* the next argument, then the next input
  config,       \* LinkerConfig
  stack,        \* the members still to do of each call of resolve_path that is under way, the last call last
  units         \* the inputs found, in order
vars == <<argv, disk, pc, i, config, stack, units>>
----------------------------------------------------------------------------
Flags == {"-shared", "-pie", "-no-pie", "-static", "-no-dynamic-linker"}
ValueOptions == {"-o", "-L", "-l", "-I", "--sysroot", "-e", "-soname", "-T"}
GluedOutput == {"-o", "-L", "-l", "-T", "-soname", "--sysroot"}    \* a mutation: -oX is read
Glued == {"-L", "-l", "-T", "-soname", "--sysroot"}
SkipsValue == {"-rpath", "-z"}
Word(a) == a.opt \o a.val
Lib(name) == [kind |-> "lib", name |-> name]
File(path) == [kind |-> "file", name |-> path]

Flagged(c, flag) ==
  CASE flag = "-shared" -> [c EXCEPT !.shared = TRUE, !.pie = FALSE]
    [] flag = "-pie"    -> [c EXCEPT !.shared = FALSE, !.pie = TRUE]
    [] flag = "-no-pie" -> [c EXCEPT !.pie = FALSE]
    [] flag = "-static" -> [c EXCEPT !.static = TRUE]
    [] flag = "-no-dynamic-linker" -> [c EXCEPT !.noInterp = TRUE]
Valued(c, opt, v) ==
  CASE opt = "-o" -> [c EXCEPT !.out = v]
    [] opt = "-L" -> [c EXCEPT !.dirs = Append(@, v)]
    [] opt = "-l" -> [c EXCEPT !.inputs = Append(@, Lib(v))]
    [] opt = "-I" -> [c EXCEPT !.interp = v, !.noInterp = FALSE]
    [] opt = "--sysroot" -> [c EXCEPT !.sysroot = v]
    [] opt = "-e" -> [c EXCEPT !.entry = <<v>>]
    [] opt = "-soname" -> [c EXCEPT !.soname = v]
    [] opt = "-T" -> [c EXCEPT !.script = disk[v].lines]
\* The sysroot's dynamic linker, or musl's, unless one is given.
DynamicLinker(c) ==
  IF c.interp # "" THEN c.interp ELSE IF c.sysroot # "" THEN c.sysroot \o "/lib/ld-musl-x86_64.so.1" ELSE "default"

IsFile(path) == path \in DOMAIN disk /\ disk[path].kind # "dir"
SearchDirs(dirs, sysroot) == dirs \o IF sysroot = "" THEN <<>> ELSE <<sysroot \o "/lib", sysroot \o "/usr/lib">>
\* The library in a directory, or "".
InDir(dir, name, static) ==
  LET so == dir \o "/lib" \o name \o ".so"
      a  == dir \o "/lib" \o name \o ".a"
  IN IF ~static /\ IsFile(so) THEN so ELSE IF IsFile(a) THEN a ELSE ""
FirstIn(dirs, name, static) ==
  LET found == [d \in DOMAIN dirs |-> InDir(dirs[d], name, static)]
      there == {d \in DOMAIN found : found[d] # ""}
  IN IF there = {} THEN "" ELSE found[CHOOSE d \in there : \A other \in there : d <= other]
FindLibrarySharedFirst(name, dirs, static, sysroot) ==    \* a mutation: the archives of all directories come last
  LET all    == SearchDirs(dirs, sysroot)
      shared == SelectSeq(all, LAMBDA dir : ~static /\ IsFile(dir \o "/lib" \o name \o ".so"))
  IN FirstIn(IF shared = <<>> THEN all ELSE shared, name, static)
FindLibrary(name, dirs, static, sysroot) == FirstIn(SearchDirs(dirs, sysroot), name, static)
\* A member of a script: a library, searched for in the sysroot alone, or a file next to the script.
MemberPath(m, config_) ==
  IF m.kind = "lib" THEN FindLibrary(m.name, <<>>, FALSE, config_.sysroot) ELSE m.name
----------------------------------------------------------------------------
Init ==
  /\ \E c \in Cases : argv = c.argv /\ disk = c.disk
  /\ pc = "args" /\ i = 1 /\ stack = <<>> /\ units = <<>>
  /\ config = [out |-> "a.out", inputs |-> <<>>, dirs |-> <<>>, sysroot |-> "", interp |-> "", noInterp |-> FALSE,
               shared |-> FALSE, pie |-> FALSE, static |-> FALSE, entry |-> <<"_start">>, soname |-> "", script |-> <<>>]

\* One argument, or two.
ToArg(n, c) ==
  /\ i' = n
  /\ config' = c
  /\ UNCHANGED <<argv, disk, pc, stack, units>>
Ended(how) ==
  /\ pc' = how
  /\ UNCHANGED <<argv, disk, i, config, stack, units>>
AtArg == pc = "args" /\ i <= Len(argv)
Unreadable(opt, v) == opt = "-T" /\ ~IsFile(v)

Flag ==
  /\ AtArg /\ argv[i].opt \in Flags
  /\ ToArg(i + 1, Flagged(config, argv[i].opt))
Value ==
  /\ AtArg /\ argv[i].opt \in ValueOptions /\ argv[i].val = ""
  /\ IF i = Len(argv) THEN ToArg(i + 1, config)
     ELSE LET v == Word(argv[i + 1])
          IN IF Unreadable(argv[i].opt, v) THEN Ended("failed") ELSE ToArg(i + 2, Valued(config, argv[i].opt, v))
GluedValue ==
  /\ AtArg /\ argv[i].opt \in Glued /\ argv[i].val # ""
  /\ IF Unreadable(argv[i].opt, argv[i].val) THEN Ended("failed")
     ELSE ToArg(i + 1, Valued(config, argv[i].opt, argv[i].val))
\* -rpath and -z take the next argument with them; whatever else begins with a dash goes alone.
Ignored ==
  /\ AtArg
  /\ \/ argv[i].opt \notin Flags \cup ValueOptions \cup {"", "--help"}
     \/ argv[i].opt \in ValueOptions \ Glued /\ argv[i].val # ""
  /\ ToArg(IF argv[i].opt \in SkipsValue /\ argv[i].val = "" /\ i < Len(argv) THEN i + 2 ELSE i + 1, config)
Input ==
  /\ AtArg /\ argv[i].opt = ""
  /\ ToArg(i + 1, [config EXCEPT !.inputs = Append(@, File(argv[i].val))])
Help ==
  /\ AtArg /\ argv[i].opt = "--help"
  /\ Ended("usage")
ArgsDone ==
  /\ pc = "args" /\ i > Len(argv)
  /\ pc' = IF config.inputs = <<>> THEN "smoke" ELSE "inputs"
  /\ i' = 1
  /\ config' = [config EXCEPT !.interp = DynamicLinker(config)]
  /\ UNCHANGED <<argv, disk, stack, units>>
----------------------------------------------------------------------------
\* resolve_link_arg
PathOf(input) ==
  IF input.kind = "file" THEN input.name ELSE FindLibrary(input.name, config.dirs, config.static, config.sysroot)
NextInput ==
  /\ pc = "inputs" /\ stack = <<>> /\ i <= Len(config.inputs)
  /\ IF PathOf(config.inputs[i]) = "" THEN Ended("failed")
     ELSE /\ stack' = << <<PathOf(config.inputs[i])>> >>
          /\ i' = i + 1
          /\ UNCHANGED <<argv, disk, pc, config, units>>

Top == Last(stack)
AtMember == pc = "inputs" /\ stack # <<>> /\ Top # <<>>
Rest == Front(stack) \o <<Tail(Top)>>
Kind == IF Head(Top) \in DOMAIN disk THEN disk[Head(Top)].kind ELSE "missing"
Take(kind) ==
  /\ units' = Append(units, [kind |-> kind, path |-> Head(Top)])
  /\ stack' = Rest
  /\ UNCHANGED <<argv, disk, pc, i, config>>
TakeUnit ==
  /\ AtMember /\ Kind \in {"object", "archive", "shared"}
  /\ Take(Kind)
CannotLoad ==
  /\ AtMember /\ Kind \in {"missing", "dir", "text"}
  /\ Ended("failed")
\* Members that are no files are left out; -l that is not found is an error.
NotFound(m) == m.kind = "lib" /\ MemberPath(m, config) = ""
FilesOf(members) ==
  FlattenSeq([m \in DOMAIN members |->
    IF IsFile(MemberPath(members[m], config)) THEN <<MemberPath(members[m], config)>> ELSE <<>>])
ExpandGroupTwoDeep ==    \* a mutation: a limit to the nesting that scripts can exceed
  /\ AtMember /\ Kind = "group"
  /\ LET members == disk[Head(Top)].members
     IN IF \E m \in DOMAIN members : NotFound(members[m]) THEN Ended("failed")
        ELSE IF Len(stack) = 2 THEN Ended("overflow")
        ELSE /\ stack' = Append(Rest, FilesOf(members))
             /\ UNCHANGED <<argv, disk, pc, i, config, units>>
ExpandGroup ==
  /\ AtMember /\ Kind = "group"
  /\ LET members == disk[Head(Top)].members
     IN IF \E m \in DOMAIN members : NotFound(members[m]) THEN Ended("failed")
        ELSE IF Len(stack) = StackDepth THEN Ended("overflow")
        ELSE /\ stack' = Append(Rest, FilesOf(members))
             /\ UNCHANGED <<argv, disk, pc, i, config, units>>
Return ==
  /\ pc = "inputs" /\ stack # <<>> /\ Top = <<>>
  /\ stack' = Front(stack)
  /\ UNCHANGED <<argv, disk, pc, i, config, units>>
InputsDone ==
  /\ pc = "inputs" /\ stack = <<>> /\ i > Len(config.inputs)
  /\ Ended("link")

Next ==
  \/ Flag \/ Value \/ GluedValue \/ Ignored \/ Input \/ Help \/ ArgsDone
  \/ NextInput \/ TakeUnit \/ CannotLoad \/ ExpandGroup \/ Return \/ InputsDone
Spec == Init /\ [][Next]_vars
----------------------------------------------------------------------------
(* What a command line says: an option that takes a value takes the next     *)
(* argument (-m and -plugin too, which gcc passes), and the libraries of a   *)
(* script are searched for as all others are.                                *)
TakesValue == ValueOptions \cup SkipsValue \cup {"-m", "-plugin"}
IsValue[k \in 0..Len(argv)] ==
  k > 1 /\ ~IsValue[k-1] /\ argv[k-1].opt \in TakesValue /\ argv[k-1].val = ""
HasValue(k) == argv[k].val # "" \/ k < Len(argv)
ValueOf(k) == IF argv[k].val # "" THEN argv[k].val ELSE Word(argv[k + 1])
Given(opt, k) == ~IsValue[k] /\ argv[k].opt = opt /\ HasValue(k)
Values(opt) == FlattenSeq([k \in DOMAIN argv |-> IF Given(opt, k) THEN <<ValueOf(k)>> ELSE <<>>])
LastOf(values, default) == IF values = <<>> THEN default ELSE Last(values)
ScriptSaid == LET p == LastOf(Values("-T"), "") IN IF IsFile(p) THEN disk[p].lines ELSE <<>>
EntrySaid == LET l == SelectSeq(ScriptSaid, LAMBDA line : line # <<>> /\ line[1].t = "ENTRY")
             IN IF l = <<>> THEN <<"_start">> ELSE Last(l)[2].name
StaticSaid == \E k \in DOMAIN argv : ~IsValue[k] /\ argv[k].opt = "-static"
\* The directories of -L and then those of the sysroot, in each the shared object before the archive.
Earlier(a, b) == a[1] < b[1] \/ (a[1] = b[1] /\ a[2] <= b[2])
LibSaid(name) ==
  LET dirs == SearchDirs(Values("-L"), LastOf(Values("--sysroot"), ""))
      PathAt(at) == dirs[at[1]] \o "/lib" \o name \o (IF at[2] = 1 THEN ".so" ELSE ".a")
      there == {at \in (DOMAIN dirs) \X (1..2) : IsFile(PathAt(at)) /\ (at[2] = 1 => ~StaticSaid)}
  IN IF there = {} THEN "" ELSE PathAt(CHOOSE at \in there : \A other \in there : Earlier(at, other))
PathSaid(input) == IF input.kind = "lib" THEN LibSaid(input.name) ELSE input.name
InputsSaid ==
  FlattenSeq([k \in DOMAIN argv |->
    IF ~IsValue[k] /\ argv[k].opt = "" THEN <<File(argv[k].val)>>
    ELSE IF Given("-l", k) THEN <<Lib(ValueOf(k))>> ELSE <<>>])

\* Sets of answers, which are empty where there is none: one answer then another, and all answers in order.
Then(some, others) == {a \o b : a \in some, b \in others}
Together(parts) ==
  LET lasts[n \in 0..Len(parts)] == IF n = 0 THEN {<<>>} ELSE Then(parts[Len(parts) + 1 - n], lasts[n - 1])
  IN lasts[Len(parts)]
\* What each file stands for, with scripts nested up to n deep in it.
Meant[at \in (0..(StackDepth - 1)) \X DOMAIN disk] ==
  LET kind    == disk[at[2]].kind
      members == disk[at[2]].members
      Means(m) == LET path == PathSaid(m) IN IF path \in DOMAIN disk THEN Meant[<<at[1] - 1, path>>] ELSE {}
  IN IF kind \in {"object", "archive", "shared"} THEN {<<[kind |-> kind, path |-> at[2]]>>}
     ELSE IF kind = "group" /\ at[1] > 0 THEN Together([m \in DOMAIN members |-> Means(members[m])])
     ELSE {}
Answer(n, path) == IF path \in DOMAIN disk THEN Meant[<<n, path>>] ELSE {}
ValueMissing == \E k \in DOMAIN argv : ~IsValue[k] /\ argv[k].opt \in TakesValue /\ ~HasValue(k)
MeantUnits ==
  IF ValueMissing \/ \E v \in ToSet(Values("-T")) : ~IsFile(v) THEN {}
  ELSE Together([k \in DOMAIN InputsSaid |-> Answer(StackDepth - 1, PathSaid(InputsSaid[k]))])

\* The forms that are read as something else.
Stray(opts) == \E k \in DOMAIN argv : IsValue[k] /\ argv[k-1].opt \in {"-m", "-plugin"} /\ argv[k].opt \in opts
StrayValue == Stray({argv[k].opt : k \in DOMAIN argv})
GluedDropped == \E k \in DOMAIN argv : ~IsValue[k] /\ argv[k].opt \in {"-o", "-e"} /\ argv[k].val # ""
EntryDropped == Values("-e") = <<>> /\ EntrySaid # <<"_start">>
\* The files that the inputs lead to, and what they lead to by way of scripts.
MembersOf(p) == IF disk[p].kind = "group" THEN ToSet(disk[p].members) ELSE {}
LeadsTo(p) == {MemberPath(m, config) : m \in MembersOf(p)}
Reached ==
  LET firsts == {PathOf(config.inputs[k]) : k \in DOMAIN config.inputs} \cap DOMAIN disk
      closed == {some \in SUBSET DOMAIN disk :
                   firsts \subseteq some /\ \A p \in some : LeadsTo(p) \cap DOMAIN disk \subseteq some}
  IN {p \in DOMAIN disk : \A some \in closed : p \in some}
GroupDiffers ==
  \E p \in Reached : \E m \in MembersOf(p) : MemberPath(m, config) # PathSaid(m) \/ ~IsFile(MemberPath(m, config))
Cyclic == \E some \in (SUBSET Reached) \ {{}} : \A p \in some : LeadsTo(p) \cap some # {}

AtEnd == pc \in {"link", "failed", "overflow"}
Outcome == IF pc = "link" THEN {[units |-> units, out |-> config.out, entry |-> config.entry]} ELSE {}
OutcomeSaid == {[units |-> u, out |-> LastOf(Values("-o"), "a.out"),
                 entry |-> IF Values("-e") = <<>> THEN EntrySaid ELSE <<Last(Values("-e"))>>] : u \in MeantUnits}
\* The inputs are those that the command line says, each library the first one of the search order and each script
\* replaced by its members in order, under the output name and entry symbol it says; and where it says none, the link
\* fails.  This is so unless a form is used that is read as something else: the argument of an option that is not
\* known to take one, an option without its value, -o and -e with the value glued to them, ENTRY in a script, and
\* members of a GROUP script that are not found as other inputs are (main.rs, libsearch.rs, linker.rs resolve_path).
UnitsAsWritten ==
  AtEnd /\ Outcome # OutcomeSaid => StrayValue \/ ValueMissing \/ GluedDropped \/ EntryDropped \/ GroupDiffers

\* Each of these forms is read otherwise than it says, where the command line has a meaning.
FormsMisread ==
  AtEnd /\ OutcomeSaid # {} /\ (Stray({""}) \/ GluedDropped \/ EntryDropped \/ GroupDiffers) => Outcome # OutcomeSaid

\* The recursion of resolve_path exhausts the stack only if a script reaches itself, by way of the files that its
\* members are taken for (linker.rs resolve_path, libsearch.rs expand_group_script).
OverflowOnlyOfCycles == pc = "overflow" => Cyclic

\* Unless an output section of the script is overlooked, the script is read as it says, but for output sections and
\* patterns without a dot and stars before patterns; and an input section goes where the script says, unless its name
\* lacks the dot of a ".*", its output section's name has no dot, or speaks of it only in patterns with a star before
\* them, or without a dot (script.rs parse, collect_patterns, map_input_section).
SectionsAsWritten ==
  pc = "link" =>
    LET parsed == Parse(config.script).sections
        said   == Said(config.script)
        Moved(n) == MapInputSection(parsed, n) # SaidPlace(said, n)
    IN /\ ~Overlooked(config.script) =>
            /\ ReadAs(parsed, said)
            /\ \A n \in Names : Moved(n) => DotIgnored(said, n) \/ NotTaken(said, n) \/ Undotted(said, n)
       /\ Overlooked(config.script) => \E n \in Names : Moved(n)
=============================================================================
