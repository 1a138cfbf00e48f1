---------------------------- MODULE AtomicWrite -----------------------------
(***************************************************************************)
(* utils.rs: atomic_write(path, data, mode_from), the one function through *)
(* which oxide-ar, oxide-ranlib, oxide-strip, oxide-objcopy and            *)
(* oxide-elfedit replace a file, system call by system call, for several   *)
(* processes that write the same path, with failing calls, killed          *)
(* processes and power losses.                                             *)
(*                                                                         *)
(* A file is its data, whether all of it was written, whether it was       *)
(* synced, and its permission bits.  The directory has the path itself and *)
(* one temporary name for each process id.  Directory operations reach the *)
(* disk in order (a journalled file system) but at any later time, for the *)
(* code never syncs the directory.                                         *)
(***************************************************************************)
CONSTANTS Procs,     \* processes; the process id is part of the temporary name
          Data,      \* the buffers the callers pass
          Modes,     \* permission bits
          Default,   \* the permission bits of a created file
          Absent,    \* no directory entry
          NoData,    \* not in a call
          NoSource,  \* mode_from = None
          Sources,   \* what mode_from can be: NoSource, or the bits of a file
          Faults     \* the system calls that can fail

ASSUME ModesAssumption ==
  /\ Default \in Modes
  /\ NoSource \notin Modes
  /\ Sources \subseteq Modes \cup {NoSource}
ASSUME DataAssumption == NoData \notin Data /\ Absent \notin Data

VARIABLES target,   \* the file at path, or Absent
          past,     \* the files at path that a power loss can bring back
          tmp,      \* the file under each temporary name, or Absent
          pc,       \* the next system call of each process
          arg,      \* its data argument
          src,      \* its mode_from argument
          result    \* how its last call ended

vars == <<target, past, tmp, pc, arg, src, result>>

File == [data : Data, whole : BOOLEAN, synced : BOOLEAN, mode : Modes]
ASSUME AbsentAssumption == Absent \notin File

Stages == {"idle", "mkdir", "create", "write", "sync", "chmod", "rename",
           "remove", "return"}

TypeOK ==
  /\ target \in File \cup {Absent}
  /\ past \subseteq File \cup {Absent}
  /\ tmp \in [Procs -> File \cup {Absent}]
  /\ pc \in [Procs -> Stages]
  /\ arg \in [Procs -> Data \cup {NoData}]
  /\ src \in [Procs -> Modes \cup {NoSource}]
  /\ result \in [Procs -> {"none", "ok", "err", "dead"}]

\* Wrong on purpose (sensitivity check): a temporary name without the pid.
TmpNameWithoutPid(p) == CHOOSE q \in Procs : TRUE

\* "<path>.tmp.<pid>", in the directory of the path.
TmpName(p) == p

Init ==
  /\ target \in {Absent} \cup [data : Data, whole : {TRUE}, synced : {TRUE}, mode : Modes]
  /\ past = {target}
  /\ tmp = [p \in Procs |-> Absent]
  /\ pc = [p \in Procs |-> "idle"]
  /\ arg = [p \in Procs |-> NoData]
  /\ src = [p \in Procs |-> NoSource]
  /\ result = [p \in Procs |-> "none"]

Goto(p, stage) == pc' = [pc EXCEPT ![p] = stage]

\* The process is in no call any more; its last one ended this way.
Finish(p, how) ==
  /\ Goto(p, "idle")
  /\ arg' = [arg EXCEPT ![p] = NoData]
  /\ src' = [src EXCEPT ![p] = NoSource]
  /\ result' = [result EXCEPT ![p] = how]

Begin(p, d, s) ==
  /\ pc[p] = "idle"
  /\ Goto(p, "mkdir")
  /\ arg' = [arg EXCEPT ![p] = d]
  /\ src' = [src EXCEPT ![p] = s]
  /\ result' = [result EXCEPT ![p] = "none"]
  /\ UNCHANGED <<target, past, tmp>>

\* `?` after a system call: the error is returned and nothing is cleaned up.
Bail(p, stage) ==
  /\ pc[p] = stage
  /\ stage \in Faults
  /\ Finish(p, "err")
  /\ UNCHANGED <<target, past, tmp>>

MkDir(p) ==
  /\ pc[p] = "mkdir"
  /\ Goto(p, "create")
  /\ UNCHANGED <<target, past, tmp, arg, src, result>>

\* File::create: makes the file or truncates the one left under the name.
Create(p) ==
  /\ pc[p] = "create"
  /\ tmp' = [tmp EXCEPT ![TmpName(p)] =
               [data |-> arg[p], whole |-> FALSE, synced |-> FALSE,
                mode |-> IF @ = Absent THEN Default ELSE @.mode]]
  /\ Goto(p, "write")
  /\ UNCHANGED <<target, past, arg, src, result>>

WriteAll(p) ==
  /\ pc[p] = "write"
  /\ tmp[TmpName(p)] # Absent
  /\ tmp' = [tmp EXCEPT ![TmpName(p)].data = arg[p], ![TmpName(p)].whole = TRUE]
  /\ Goto(p, "sync")
  /\ UNCHANGED <<target, past, arg, src, result>>

\* Wrong on purpose (sensitivity check): the file is not synced.
SyncAllSkipped(p) ==
  /\ pc[p] = "sync"
  /\ tmp[TmpName(p)] # Absent
  /\ Goto(p, "chmod")
  /\ UNCHANGED <<target, past, tmp, arg, src, result>>

SyncAll(p) ==
  /\ pc[p] = "sync"
  /\ tmp[TmpName(p)] # Absent
  /\ tmp' = [tmp EXCEPT ![TmpName(p)].synced = TRUE]
  /\ Goto(p, "chmod")
  /\ UNCHANGED <<target, past, arg, src, result>>

\* Wrong on purpose (sensitivity check): mode_from only, and mode_from taken
\* as given.
ModeToCopyFromSource(p) == IF src[p] # NoSource THEN {src[p]} ELSE {}
ModeToCopyUnchecked(p) == {src[p]}

\* The bits to copy: those of mode_from if it is given, else those of the
\* file being replaced.  There is none when that file does not exist.
ModeToCopy(p) ==
  IF src[p] # NoSource THEN {src[p]}
  ELSE IF target # Absent THEN {target.mode} ELSE {}

\* fs::metadata and fs::set_permissions; a failure of either is ignored.
CopyMode(p) ==
  /\ pc[p] = "chmod"
  /\ \/ \E m \in ModeToCopy(p) :
          /\ tmp[TmpName(p)] # Absent
          /\ tmp' = [tmp EXCEPT ![TmpName(p)].mode = m]
     \/ /\ ModeToCopy(p) = {} \/ "chmod" \in Faults
        /\ UNCHANGED tmp
  /\ Goto(p, "rename")
  /\ UNCHANGED <<target, past, arg, src, result>>

\* Wrong on purpose (sensitivity check): a copy in place of the rename.
RenameByCopy(p) ==
  /\ pc[p] = "rename"
  /\ tmp[TmpName(p)] # Absent
  /\ target' = tmp[TmpName(p)]
  /\ past' = past \cup {target'}
  /\ Goto(p, "return")
  /\ UNCHANGED <<tmp, arg, src, result>>

Rename(p) ==
  /\ pc[p] = "rename"
  /\ tmp[TmpName(p)] # Absent
  /\ target' = tmp[TmpName(p)]
  /\ past' = past \cup {target'}
  /\ tmp' = [tmp EXCEPT ![TmpName(p)] = Absent]
  /\ Goto(p, "return")
  /\ UNCHANGED <<arg, src, result>>

RenameFails(p) ==
  /\ pc[p] = "rename"
  /\ "rename" \in Faults \/ tmp[TmpName(p)] = Absent
  /\ Goto(p, "remove")
  /\ UNCHANGED <<target, past, tmp, arg, src, result>>

\* Only a failed rename removes the temporary file, and its failure is ignored.
RemoveTmp(p) ==
  /\ pc[p] = "remove"
  /\ \/ tmp' = [tmp EXCEPT ![TmpName(p)] = Absent]
     \/ "remove" \in Faults /\ UNCHANGED tmp
  /\ Finish(p, "err")
  /\ UNCHANGED <<target, past>>

Return(p) ==
  /\ pc[p] = "return"
  /\ Finish(p, "ok")
  /\ UNCHANGED <<target, past, tmp>>

\* The process is killed: what it did to the directory stays.
Kill(p) ==
  /\ pc[p] # "idle"
  /\ Finish(p, "dead")
  /\ UNCHANGED <<target, past, tmp>>

\* What the disk can hold of a file after a power loss: all of a synced file,
\* any part of another.
Survivors(f) ==
  IF f = Absent THEN {Absent}
  ELSE {g \in File : /\ g.data = f.data /\ g.mode = f.mode /\ g.synced
                     /\ g.whole => f.whole
                     /\ f.synced => g.whole = f.whole}

\* The kernel writes the directory back.
Writeback ==
  /\ past # {target}
  /\ past' = {target}
  /\ UNCHANGED <<target, tmp, pc, arg, src, result>>

\* All processes stop.  The path is any of the files it named since the last
\* writeback, and any set of the temporary names is left behind.  (What is in
\* a file left behind does not matter, for Create truncates it.)
PowerLoss ==
  /\ \E f \in past : target' \in Survivors(f)
  /\ past' = {target'}
  /\ \E left \in SUBSET Procs :
       tmp' = [p \in Procs |-> IF p \in left /\ tmp[p] # Absent
                               THEN [data |-> tmp[p].data, whole |-> FALSE,
                                     synced |-> TRUE, mode |-> tmp[p].mode]
                               ELSE Absent]
  /\ pc' = [p \in Procs |-> "idle"]
  /\ arg' = [p \in Procs |-> NoData]
  /\ src' = [p \in Procs |-> NoSource]
  /\ result' = [p \in Procs |-> "dead"]

Step(p) ==
  \/ \E stage \in {"mkdir", "create", "write", "sync"} : Bail(p, stage)
  \/ MkDir(p) \/ Create(p) \/ WriteAll(p) \/ SyncAll(p) \/ CopyMode(p)
  \/ Rename(p) \/ RenameFails(p) \/ RemoveTmp(p) \/ Return(p)

Next ==
  \/ \E p \in Procs :
       \/ \E d \in Data, s \in Sources : Begin(p, d, s)
       \/ Step(p)
       \/ Kill(p)
  \/ Writeback
  \/ PowerLoss

Spec == Init /\ [][Next]_vars
-----------------------------------------------------------------------------
(***************************************************************************)
(* Properties.                                                             *)
(***************************************************************************)

\* Whatever is killed, fails, loses power or races, a reader of the path
\* finds the complete data of one call (or the old file), never a part of it:
\* atomic_write syncs the temporary file before it renames it.
NeverTorn == target # Absent => target.whole

\* A call that reported success left no temporary file under its name: only
\* failed calls, killed processes and power losses leave one.
OkLeavesNoTemp ==
  \A p \in Procs : pc[p] = "idle" /\ result[p] = "ok" => tmp[TmpName(p)] = Absent

\* A file that starts with permission bits m, and is only written by calls
\* whose mode_from is None or a file with bits m, never has other bits,
\* whatever races, dies or is left behind: a default mode never leaks from a
\* created file to the path.  Checked where metadata and set_permissions work.
ModePreserved ==
  \A m \in Modes :
    (target # Absent /\ target.mode = m /\ Sources \subseteq {NoSource, m})
      => [](target # Absent => target.mode = m)

\* The abstract file: the bytes a reader sees.  A file that is not whole is
\* none of the values the abstract specification allows.
Bytes(f) == IF f = Absent THEN Absent ELSE IF f.whole THEN f.data ELSE NoData

AF == INSTANCE AtomicFile WITH
        Callers <- Procs,
        value <- Bytes(target),
        undurable <- {Bytes(f) : f \in past},
        pending <- arg,
        landed <- {p \in Procs : pc[p] = "return"}

\* atomic_write implements the abstract atomic file: it takes effect in the
\* one step of the rename, an error means that it took no effect, and a power
\* loss only brings back what the path held before.
ImplementsAtomicFile == AF!Spec
=============================================================================
