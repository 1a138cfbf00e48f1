------------------------------- MODULE RunAr --------------------------------
(***************************************************************************)
(* oxide-ar and oxide-ranlib: any number of invocations, at the same time, *)
(* on one archive.  archive_write.rs run_ar and ArchiveBuilder, ar/lib.rs  *)
(* gnu_style.                                                              *)
(*                                                                         *)
(* An invocation looks whether the archive exists, reads it, changes its   *)
(* member list in memory and writes the whole archive back with            *)
(* atomic_write.  Nothing locks the archive in between.  The write itself  *)
(* is one step: AtomicWrite implements AtomicFile.                         *)
(*                                                                         *)
(* Member data is named by the path it was read from.  Serialising and     *)
(* parsing the member list is the subject of ArLayout.                     *)
(***************************************************************************)
EXTENDS Naturals, Sequences, FiniteSets, SequencesExt, FiniteSetsExt

CONSTANTS Procs,       \* concurrent invocations
          Paths,       \* files given as arguments
          Names,       \* file names
          Base,        \* the file name of each path
          Symbols,     \* global and weak symbol names
          Defs,        \* the symbols the object at each path defines
          Ops,         \* the command lines: [key |-> letters, args |-> paths]
          Initial,     \* the archives there can be at the start
          NoFile,      \* the archive does not exist
          BadFile,     \* something that is not an archive
          NoIndex,     \* an archive without a `/` member
          NoOp,        \* an idle process
          MaxMembers   \* bound on the members of an archive

ASSUME BaseAssumption == Base \in [Paths -> Names]
ASSUME DefsAssumption == Defs \in [Paths -> SUBSET Symbols]

VARIABLES archive,     \* the file all invocations are given
          cwd,         \* the extracted files: name -> path of the data, or NoFile
          missing,     \* the paths that cannot be read
          pc,          \* where each invocation is
          op,          \* its command line
          existed,     \* its archive.exists()
          snap,        \* the members it read
          todo,        \* the members it has yet to extract
          wrote,       \* history: the invocations that changed the archive
          stale,       \* history: those that somebody else changed it under
          result       \* how each process's last invocation ended

vars == <<archive, cwd, missing, pc, op, existed, snap, todo, wrote, stale, result>>

Member == [name : Names, data : Paths]
MemberSeqs == BoundedSeq(Member, MaxMembers)
ASSUME OpsAssumption == Ops \subseteq [key : SUBSET STRING, args : Seq(Paths)]
ASSUME MaxMembersAssumption == MaxMembers \in Nat

\* An archive file: its members and its symbol index, from symbol to the
\* position of the member that the index names for it.
IsArchive(a) == a # NoFile /\ a # BadFile
ASSUME InitialAssumption == \A a \in Initial : IsArchive(a) => a.members \in MemberSeqs

TypeOK ==
  /\ IsArchive(archive) => archive.members \in MemberSeqs
  /\ cwd \in [Names -> Paths \cup {NoFile}]
  /\ missing \subseteq Paths
  /\ pc \in [Procs -> {"idle", "start", "read", "extract", "load", "write"}]
  /\ op \in [Procs -> Ops \cup {NoOp}]
  /\ existed \in [Procs -> BOOLEAN]
  /\ snap \in [Procs -> MemberSeqs] /\ todo \in [Procs -> MemberSeqs]
  /\ wrote \subseteq Procs /\ stale \subseteq Procs
  /\ result \in [Procs -> {"none", "ok", "err"}]

Init ==
  /\ archive \in Initial
  /\ cwd = [n \in Names |-> NoFile]
  /\ missing \in {{}} \cup {{x} : x \in Paths}
  /\ pc = [p \in Procs |-> "idle"]
  /\ op = [p \in Procs |-> NoOp]
  /\ existed = [p \in Procs |-> FALSE]
  /\ snap = [p \in Procs |-> <<>>]
  /\ todo = [p \in Procs |-> <<>>]
  /\ wrote = {} /\ stale = {}
  /\ result = [p \in Procs |-> "none"]
-----------------------------------------------------------------------------
(***************************************************************************)
(* The command line.                                                       *)
(***************************************************************************)
Operations == {"d", "p", "q", "r", "t", "x", "s"}
Ignored == {"c", "v", "D", "u", "a", "b", "i", "N", "o", "O", "P", "S", "T",
            "f", "l", "M", "V"}

\* A key needs an operation and nothing unknown.
KeyOk(key) == key \cap Operations # {} /\ key \subseteq Operations \cup Ignored

Has(o, letters) == o.key \cap letters # {}

\* gnu_style: which of the arguments are member names, which are files.
MemberNames(o) ==
  IF Has(o, {"d", "x", "p"}) THEN {Base[a] : a \in ToSet(o.args)} ELSE {}
Files(o) ==
  IF Has(o, {"d"}) /\ ~Has(o, {"r", "q"}) THEN <<>> ELSE o.args

\* t, p and x end here unless a member is to be changed.  (The code also asks
\* that `s` does not come without t, p and x, which holds whenever it asks.)
ReadOnly(o) == ~Has(o, {"r", "q", "d"})
-----------------------------------------------------------------------------
(***************************************************************************)
(* ArchiveBuilder: operations on the member list in memory.                *)
(***************************************************************************)
NewMember(path) == [name |-> Base[path], data |-> path]

Named(ms, n) == {i \in DOMAIN ms : ms[i].name = n}

\* Wrong on purpose (sensitivity check): names are compared with the whole
\* path; a replaced member moves to the end.
ReplaceSamePath(ms, path) ==
  IF path \notin {ms[i].data : i \in DOMAIN ms} THEN Append(ms, NewMember(path))
  ELSE ms
ReplaceAtEnd(ms, path) ==
  Append(SelectSeq(ms, LAMBDA m : m.name # Base[path]), NewMember(path))

\* Replace the first member with the same name, or append.
ReplaceOrAdd(ms, path) ==
  IF Named(ms, Base[path]) = {} THEN Append(ms, NewMember(path))
  ELSE [ms EXCEPT ![Min(Named(ms, Base[path]))] = NewMember(path)]

AppendFiles(ms, paths) == ms \o [i \in DOMAIN paths |-> NewMember(paths[i])]

\* The members of the given names, in their order: SelectSeq, as a function of
\* the members looked at.
Only(ms, names) ==
  LET selected[i \in 0..Len(ms)] ==
        IF i = 0 THEN <<>>
        ELSE IF ms[i].name \in names THEN Append(selected[i - 1], ms[i])
        ELSE selected[i - 1]
  IN  selected[Len(ms)]

\* Wrong on purpose (sensitivity check): delete up to the last of the names.
DeleteUpTo(ms, names) ==
  SubSeq(ms, 1 + Max({0} \cup {i \in DOMAIN ms : ms[i].name \in names}), Len(ms))

Delete(ms, names) == Only(ms, Names \ names)

\* Every symbol a member defines, with the first member that defines it.
SymbolMap(ms) ==
  [s \in UNION {Defs[ms[i].data] : i \in DOMAIN ms} |->
     Min({i \in DOMAIN ms : s \in Defs[ms[i].data]})]

\* run_ar deletes, then replaces, then appends.  Every path that changes
\* something also asks for the symbol index.
Changed(ms, o) ==
  LET kept     == IF Has(o, {"d"}) THEN Delete(ms, MemberNames(o)) ELSE ms
      replaced == IF Has(o, {"r"}) THEN FoldLeft(ReplaceOrAdd, kept, Files(o)) ELSE kept
  IN  IF Has(o, {"q"}) THEN AppendFiles(replaced, Files(o)) ELSE replaced

\* Reading a file to add fails.
FilesMissing(o) == Has(o, {"r", "q"}) /\ ToSet(Files(o)) \cap missing # {}
-----------------------------------------------------------------------------
(***************************************************************************)
(* One invocation.                                                         *)
(***************************************************************************)
Goto(p, stage) == pc' = [pc EXCEPT ![p] = stage]

Exit(p, how) ==
  /\ Goto(p, "idle")
  /\ op' = [op EXCEPT ![p] = NoOp]
  /\ existed' = [existed EXCEPT ![p] = FALSE]
  /\ snap' = [snap EXCEPT ![p] = <<>>]
  /\ todo' = [todo EXCEPT ![p] = <<>>]
  /\ result' = [result EXCEPT ![p] = how]

Start(p, o) ==
  /\ pc[p] = "idle"
  /\ Goto(p, "start")
  /\ op' = [op EXCEPT ![p] = o]
  /\ wrote' = wrote \ {p} /\ stale' = stale \ {p}
  /\ result' = [result EXCEPT ![p] = "none"]
  /\ UNCHANGED <<archive, cwd, missing, existed, snap, todo>>

BadKey(p) ==
  /\ pc[p] = "start"
  /\ ~KeyOk(op[p].key)
  /\ Exit(p, "err")
  /\ UNCHANGED <<archive, cwd, missing, wrote, stale>>

\* let exists = archive.exists()
Exists(p) ==
  /\ pc[p] = "start"
  /\ KeyOk(op[p].key)
  /\ existed' = [existed EXCEPT ![p] = archive # NoFile]
  /\ Goto(p, IF Has(op[p], {"t", "p", "x"}) THEN "read" ELSE "load")
  /\ UNCHANGED <<archive, cwd, missing, op, snap, todo, wrote, stale, result>>

\* t, p, x: read and parse the archive, list, print, and queue what x extracts.
Read(p) ==
  /\ pc[p] = "read"
  /\ existed[p] /\ IsArchive(archive)
  /\ todo' = [todo EXCEPT ![p] =
       IF Has(op[p], {"x"})
       THEN Only(archive.members, IF MemberNames(op[p]) = {} THEN Names ELSE MemberNames(op[p]))
       ELSE <<>>]
  /\ Goto(p, "extract")
  /\ UNCHANGED <<archive, cwd, missing, op, existed, snap, wrote, stale, result>>

ReadFails(p) ==
  /\ pc[p] = "read"
  /\ ~(existed[p] /\ IsArchive(archive))
  /\ Exit(p, "err")
  /\ UNCHANGED <<archive, cwd, missing, wrote, stale>>

\* fs::write of one member under its file name, over whatever is there.
ExtractOne(p) ==
  /\ pc[p] = "extract" /\ todo[p] # <<>>
  /\ cwd' = [cwd EXCEPT ![Head(todo[p]).name] = Head(todo[p]).data]
  /\ todo' = [todo EXCEPT ![p] = Tail(@)]
  /\ UNCHANGED <<archive, missing, pc, op, existed, snap, wrote, stale, result>>

\* The first failing write ends the invocation; earlier files stay.
ExtractFails(p) ==
  /\ pc[p] = "extract" /\ todo[p] # <<>>
  /\ Exit(p, "err")
  /\ UNCHANGED <<archive, cwd, missing, wrote, stale>>

ReadDone(p) ==
  /\ pc[p] = "extract" /\ todo[p] = <<>>
  /\ IF ReadOnly(op[p]) THEN Exit(p, "ok")
     ELSE Goto(p, "load") /\ UNCHANGED <<op, existed, snap, todo, result>>
  /\ UNCHANGED <<archive, cwd, missing, wrote, stale>>

\* Only r and q create an archive; one that existed must still parse.
Loadable(p) ==
  IF existed[p] THEN IsArchive(archive) ELSE Has(op[p], {"r", "q"})

\* Wrong on purpose (sensitivity check): the modifier c starts a new archive.
LoadCreates(p) ==
  /\ pc[p] = "load"
  /\ Loadable(p)
  /\ snap' = [snap EXCEPT ![p] =
                IF existed[p] /\ "c" \notin op[p].key THEN archive.members ELSE <<>>]
  /\ Goto(p, "write")
  /\ UNCHANGED <<archive, cwd, missing, op, existed, todo, wrote, stale, result>>

\* ArchiveBuilder::from_file if the archive existed, else ArchiveBuilder::new.
Load(p) ==
  /\ pc[p] = "load"
  /\ Loadable(p)
  /\ snap' = [snap EXCEPT ![p] = IF existed[p] THEN archive.members ELSE <<>>]
  /\ Goto(p, "write")
  /\ UNCHANGED <<archive, cwd, missing, op, existed, todo, wrote, stale, result>>

LoadFails(p) ==
  /\ pc[p] = "load"
  /\ ~Loadable(p)
  /\ Exit(p, "err")
  /\ UNCHANGED <<archive, cwd, missing, wrote, stale>>

\* All changes in memory, then one write of the whole archive.
Commit(p) ==
  /\ pc[p] = "write"
  /\ ~FilesMissing(op[p])
  /\ LET ms == Changed(snap[p], op[p]) IN
       /\ Len(ms) <= MaxMembers
       /\ archive' = [members |-> ms, index |-> SymbolMap(ms)]
  /\ wrote' = wrote \cup {p} /\ stale' = stale \cup (Procs \ {p})
  /\ Exit(p, "ok")
  /\ UNCHANGED <<cwd, missing>>

\* Wrong on purpose (sensitivity check): the archive is written file by file,
\* and the files before the failing one are in it.
CommitFailsHalfway(p) ==
  /\ pc[p] = "write"
  /\ \E n \in 0..Len(op[p].args) :
       LET ms == Changed(snap[p], [op[p] EXCEPT !.args = SubSeq(@, 1, n)]) IN
         /\ Len(ms) <= MaxMembers
         /\ archive' = [members |-> ms, index |-> SymbolMap(ms)]
  /\ wrote' = wrote \cup {p} /\ stale' = stale \cup (Procs \ {p})
  /\ Exit(p, "err")
  /\ UNCHANGED <<cwd, missing>>

\* A file to add cannot be read, or atomic_write fails: the archive is as it was.
CommitFails(p) ==
  /\ pc[p] = "write"
  /\ Exit(p, "err")
  /\ UNCHANGED <<archive, cwd, missing, wrote, stale>>

\* Somebody else removes the archive, as `rm -f lib.a` in a makefile does.
Unlink ==
  /\ archive # NoFile
  /\ archive' = NoFile
  /\ stale' = Procs
  /\ UNCHANGED <<cwd, missing, pc, op, existed, snap, todo, wrote, result>>

Next ==
  \/ \E p \in Procs :
       \/ \E o \in Ops : Start(p, o)
       \/ BadKey(p) \/ Exists(p)
       \/ Read(p) \/ ReadFails(p)
       \/ ExtractOne(p) \/ ExtractFails(p) \/ ReadDone(p)
       \/ Load(p) \/ LoadFails(p) \/ Commit(p) \/ CommitFails(p)
  \/ Unlink

Spec == Init /\ [][Next]_vars
-----------------------------------------------------------------------------
(***************************************************************************)
(* Properties.                                                             *)
(***************************************************************************)

\* An invocation that reports an error has not changed the archive, wherever
\* it failed: all files to add are read before the one write.
FailedChangesNothing ==
  \A p \in Procs : result[p] = "err" => p \notin wrote

Commits(p) == pc[p] = "write" /\ result'[p] = "ok"

Untouched(ms, names) == Only(ms, Names \ names)

\* Only q makes two members of one name: no other key leaves more members of a
\* name than there were, or than one, not even r of two files with the same
\* file name.
UniqueNames ==
  [][\A p \in Procs : Commits(p) /\ "q" \notin op[p].key =>
       \A n \in Names : Cardinality(Named(archive'.members, n))
                          <= Max({1, Cardinality(Named(snap[p], n))})]_vars

\* The members an invocation does not name keep their data and their order,
\* with duplicate names in the archive and with combined keys too.
OthersUntouched ==
  [][\A p \in Procs : Commits(p) =>
       LET names == {Base[a] : a \in ToSet(op[p].args)}
       IN  Untouched(archive'.members, names) = Untouched(snap[p], names)]_vars

\* r puts the new data where the old member was: the order of a static
\* library, which a linker that reads it in order depends on, does not change.
ReplaceKeepsPlace ==
  [][\A p \in Procs : Commits(p) /\ op[p].key \cap {"d", "q"} = {} =>
       \A i \in DOMAIN snap[p] : archive'.members[i].name = snap[p][i].name]_vars

\* An invocation that nobody interferes with, from exists() to the write,
\* applies its operation to the archive as it is: no member is lost to the
\* separate looks at the file system.
AloneUpdates ==
  [][\A p \in Procs : Commits(p) /\ p \notin stale =>
       archive'.members =
         Changed(IF archive = NoFile THEN <<>> ELSE archive.members, op[p])]_vars
=============================================================================
