------------------------- MODULE AtomicWriteProofs --------------------------
(***************************************************************************)
(* Proofs about AtomicWrite, for any set of processes, any buffers and any *)
(* set of failing system calls: no reader ever finds a torn file, and      *)
(* atomic_write implements the abstract atomic file.                       *)
(***************************************************************************)
EXTENDS AtomicWrite, TLAPS

\* All of d has been written to the file; all of the file is on the disk.
Written(f, d) == f.whole /\ f.data = d
Durable(f) == f.whole /\ f.synced

\* What a process knows about its temporary file at each of its stages.  The
\* temporary name carries the process id, so nobody else touches the file.
TmpInv ==
  \A p \in Procs :
    /\ pc[p] \in {"write", "sync", "chmod", "rename"} => tmp[p] # Absent
    /\ pc[p] \in {"sync", "chmod", "rename"} => Written(tmp[p], arg[p])
    /\ pc[p] \in {"chmod", "rename"} => Durable(tmp[p])

\* Whatever a power loss can bring back is complete and on the disk.
PastInv ==
  /\ target \in past
  /\ \A f \in past : f # Absent => Durable(f)

\* A process has a buffer exactly while it is in a call.
ArgInv == \A p \in Procs : arg[p] = NoData <=> pc[p] = "idle"

\* A renamed file has left its temporary name.
OkInv ==
  \A p \in Procs :
    pc[p] = "return" \/ (pc[p] = "idle" /\ result[p] = "ok") => tmp[p] = Absent

\* The inductive invariant.  NeverTorn alone is not inductive: that a rename
\* installs a whole file needs TmpInv, that a power loss does needs PastInv.
IInv == TypeOK /\ TmpInv /\ PastInv /\ ArgInv /\ OkInv

LEMMA InitIInv == Init => IInv
  <1> SUFFICES ASSUME Init PROVE IInv
    OBVIOUS
  <1> USE DEF Init
  <1>1. TypeOK
    BY ModesAssumption DEF TypeOK, File, Stages
  <1>2. TmpInv
    BY DEF TmpInv
  <1>3. PastInv
    BY AbsentAssumption DEF PastInv, File, Durable
  <1>4. ArgInv
    BY DEF ArgInv
  <1>5. OkInv
    BY DEF OkInv
  <1> QED
    BY <1>1, <1>2, <1>3, <1>4, <1>5 DEF IInv

\* A step from one stage to the next that touches no file but the process's own.
Others(p) == \A q \in Procs \ {p} : tmp'[q] = tmp[q]
OwnFile(p, stage, next) ==
  /\ pc[p] = stage /\ pc' = [pc EXCEPT ![p] = next]
  /\ tmp' \in [Procs -> File \cup {Absent}] /\ tmp'[p] \in File /\ Others(p)
  /\ UNCHANGED <<target, past, arg, src, result>>

LEMMA OwnFileStep ==
  ASSUME IInv, NEW p \in Procs, NEW stage \in {"create", "write", "sync", "chmod"},
         NEW next \in {"write", "sync", "chmod", "rename"}, OwnFile(p, stage, next),
         next # "write" => Written(tmp'[p], arg[p]),
         next \in {"chmod", "rename"} => Durable(tmp'[p])
  PROVE  IInv'
  <1> USE DEF OwnFile, Others
  <1>1. pc'[p] = next /\ (\A q \in Procs \ {p} : pc'[q] = pc[q]) /\ pc' \in [Procs -> Stages]
    BY DEF IInv, TypeOK, Stages
  <1>2. TypeOK'
    BY <1>1 DEF IInv, TypeOK
  <1>3. TmpInv'
    BY <1>1, AbsentAssumption DEF IInv, TmpInv
  <1>4. PastInv' /\ ArgInv' /\ OkInv'
    BY <1>1 DEF IInv, PastInv, ArgInv, OkInv
  <1> QED
    BY <1>2, <1>3, <1>4 DEF IInv

\* A file with one or two of its fields replaced.
LEMMA FileFields ==
  ASSUME NEW f \in File
  PROVE  /\ \A d \in Data : [f EXCEPT !.data = d, !.whole = TRUE] \in File
         /\ \A d \in Data : Written([f EXCEPT !.data = d, !.whole = TRUE], d)
         /\ [f EXCEPT !.synced = TRUE] \in File
         /\ \A d : Written(f, d) => /\ Written([f EXCEPT !.synced = TRUE], d)
                                    /\ Durable([f EXCEPT !.synced = TRUE])
         /\ \A m \in Modes : [f EXCEPT !.mode = m] \in File
         /\ \A d, m : Written(f, d) => Written([f EXCEPT !.mode = m], d)
         /\ \A m : Durable(f) => Durable([f EXCEPT !.mode = m])
  BY DEF File, Written, Durable

\* A process works on its own file.
LEMMA OwnFileInv ==
  ASSUME IInv, NEW p \in Procs, Create(p) \/ WriteAll(p) \/ SyncAll(p) \/ CopyMode(p)
  PROVE  IInv'
  <1> USE DEF TmpName, Goto
  <1>1. /\ tmp \in [Procs -> File \cup {Absent}] /\ arg[p] \in Data
        /\ pc[p] \in {"create", "write", "sync", "chmod"}
        /\ pc[p] # "create" => tmp[p] \in File
        /\ pc[p] \in {"sync", "chmod"} => Written(tmp[p], arg[p])
        /\ pc[p] = "chmod" => Durable(tmp[p])
    BY DEF IInv, TypeOK, TmpInv, ArgInv, Create, WriteAll, SyncAll, CopyMode
  \* The step replaces the file, or leaves it alone.
  <1>2. ASSUME NEW f \in File, tmp' = [tmp EXCEPT ![p] = f] \/ (UNCHANGED tmp /\ f = tmp[p]),
               NEW stage, NEW next, pc[p] = stage, pc' = [pc EXCEPT ![p] = next],
               UNCHANGED <<target, past, arg, src, result>>
        PROVE  OwnFile(p, stage, next) /\ tmp'[p] = f
    BY <1>1, <1>2 DEF OwnFile, Others
  <1>3. CASE Create(p)
    <2> DEFINE f == [data |-> arg[p], whole |-> FALSE, synced |-> FALSE,
                     mode |-> IF tmp[p] = Absent THEN Default ELSE tmp[p].mode]
    <2>1. f \in File
      BY <1>1, ModesAssumption DEF File
    <2>2. tmp' = [tmp EXCEPT ![p] = f]
      BY <1>1, <1>3 DEF Create
    <2>3. OwnFile(p, "create", "write")
      <3> HIDE DEF f
      <3> QED
        BY <1>2, <1>3, <2>1, <2>2 DEF Create
    <2> QED
      BY <2>3, OwnFileStep
  <1>4. CASE WriteAll(p)
    <2> DEFINE f == [tmp[p] EXCEPT !.data = arg[p], !.whole = TRUE]
    <2>1. f \in File /\ Written(f, arg[p])
      BY <1>1, <1>4, FileFields DEF WriteAll
    <2>2. tmp' = [tmp EXCEPT ![p] = f]
      BY <1>4 DEF WriteAll
    <2>3. OwnFile(p, "write", "sync") /\ tmp'[p] = f
      <3> HIDE DEF f
      <3> QED
        BY <1>2, <1>4, <2>1, <2>2 DEF WriteAll
    <2> QED
      BY <2>1, <2>3, OwnFileStep
  <1>5. CASE SyncAll(p)
    <2> DEFINE f == [tmp[p] EXCEPT !.synced = TRUE]
    <2>1. f \in File /\ Written(f, arg[p]) /\ Durable(f)
      BY <1>1, <1>5, FileFields DEF SyncAll
    <2>2. tmp' = [tmp EXCEPT ![p] = f]
      BY <1>5 DEF SyncAll
    <2>3. OwnFile(p, "sync", "chmod") /\ tmp'[p] = f
      <3> HIDE DEF f
      <3> QED
        BY <1>2, <1>5, <2>1, <2>2 DEF SyncAll
    <2> QED
      BY <2>1, <2>3, OwnFileStep
  <1>6. CASE CopyMode(p)
    <2>1. tmp[p] \in File /\ Written(tmp[p], arg[p]) /\ Durable(tmp[p])
      BY <1>1, <1>6 DEF CopyMode
    <2>2. \A m \in ModeToCopy(p) : m \in Modes
      BY ModesAssumption DEF ModeToCopy, IInv, TypeOK, File
    <2>3. PICK f \in File : /\ tmp' = [tmp EXCEPT ![p] = f] \/ (UNCHANGED tmp /\ f = tmp[p])
                            /\ Written(f, arg[p]) /\ Durable(f)
      <3>1. CASE UNCHANGED tmp
        BY <2>1, <3>1
      <3>2. ASSUME NEW m \in Modes, tmp' = [tmp EXCEPT ![p].mode = m]
            PROVE  \E f \in File : /\ tmp' = [tmp EXCEPT ![p] = f]
                                   /\ Written(f, arg[p]) /\ Durable(f)
        <4> DEFINE g == [tmp[p] EXCEPT !.mode = m]
        <4>1. tmp' = [tmp EXCEPT ![p] = g]
          BY <3>2
        <4>2. g \in File /\ Written(g, arg[p]) /\ Durable(g)
          BY <2>1, FileFields
        <4> HIDE DEF g
        <4> QED
          BY <4>1, <4>2
      <3> QED
        BY <1>6, <2>2, <3>1, <3>2 DEF CopyMode
    <2>4. OwnFile(p, "chmod", "rename") /\ tmp'[p] = f
      BY <1>2, <1>6, <2>3 DEF CopyMode
    <2> QED
      BY <2>3, <2>4, OwnFileStep
  <1> QED
    BY <1>3, <1>4, <1>5, <1>6

\* The induction step, one case per action.
LEMMA NextIInv == IInv /\ [Next]_vars => IInv'
  <1> SUFFICES ASSUME IInv, [Next]_vars PROVE IInv'
    OBVIOUS
  <1> USE ModesAssumption, DataAssumption, AbsentAssumption
      DEF IInv, TypeOK, TmpInv, PastInv, ArgInv, OkInv, Stages, TmpName, Goto, Finish
  <1>1. ASSUME NEW p \in Procs, NEW d \in Data, NEW s \in Sources, Begin(p, d, s)
        PROVE IInv'
    BY <1>1 DEF Begin
  <1>2. ASSUME NEW p \in Procs, NEW stage \in {"mkdir", "create", "write", "sync"},
               Bail(p, stage)
        PROVE IInv'
    BY <1>2 DEF Bail
  <1>3. ASSUME NEW p \in Procs, MkDir(p) PROVE IInv'
    BY <1>3 DEF MkDir
  <1>4. ASSUME NEW p \in Procs, Create(p) \/ WriteAll(p) \/ SyncAll(p) \/ CopyMode(p) PROVE IInv'
    BY <1>4, OwnFileInv
  <1>8. ASSUME NEW p \in Procs, Rename(p) PROVE IInv'
    BY <1>8 DEF Rename
  <1>9. ASSUME NEW p \in Procs, RenameFails(p) PROVE IInv'
    BY <1>9 DEF RenameFails
  <1>10. ASSUME NEW p \in Procs, RemoveTmp(p) PROVE IInv'
    BY <1>10 DEF RemoveTmp
  <1>11. ASSUME NEW p \in Procs, Return(p) PROVE IInv'
    BY <1>11 DEF Return
  <1>12. ASSUME NEW p \in Procs, Kill(p) PROVE IInv'
    BY <1>12 DEF Kill
  <1>13. CASE Writeback
    BY <1>13 DEF Writeback
  <1>14. CASE PowerLoss
    <2>1. /\ target' \in File \cup {Absent}
          /\ target' # Absent => Durable(target')
      <3>1. PICK f \in past : target' \in Survivors(f)
        BY <1>14 DEF PowerLoss
      <3>2. f = Absent \/ (f \in File /\ f.whole /\ f.synced)
        BY DEF Durable
      <3> QED
        BY <3>1, <3>2 DEF Survivors, Durable
    <2>2. tmp' \in [Procs -> File \cup {Absent}]
      <3>1. PICK left \in SUBSET Procs :
              tmp' = [p \in Procs |-> IF p \in left /\ tmp[p] # Absent
                               THEN [data |-> tmp[p].data, whole |-> FALSE,
                                     synced |-> TRUE, mode |-> tmp[p].mode]
                               ELSE Absent]
        BY <1>14 DEF PowerLoss
      <3>2. \A p \in Procs : tmp[p] # Absent =>
               tmp[p].data \in Data /\ tmp[p].mode \in Modes
        BY DEF File
      <3> QED
        BY <3>1, <3>2 DEF File
    <2>3. /\ past' = {target'}
          /\ pc' = [p \in Procs |-> "idle"]
          /\ arg' = [p \in Procs |-> NoData]
          /\ src' = [p \in Procs |-> NoSource]
          /\ result' = [p \in Procs |-> "dead"]
      BY <1>14 DEF PowerLoss
    <2> QED
      BY <2>1, <2>2, <2>3
  <1>15. CASE UNCHANGED vars
    BY <1>15 DEF vars
  <1> QED
    BY <1>1, <1>2, <1>3, <1>4, <1>8, <1>9, <1>10, <1>11, <1>12,
       <1>13, <1>14, <1>15
    DEF Next, Step

\* Every reachable state satisfies the inductive invariant.
THEOREM SpecIInv == Spec => []IInv
  BY InitIInv, NextIInv, PTL DEF Spec

\* The variables keep their types: the state atomic_write works on is
\* a file or nothing under every name.
THEOREM TypeCorrect == Spec => []TypeOK
  <1>1. IInv => TypeOK
    BY DEF IInv
  <1> QED
    BY <1>1, SpecIInv, PTL

\* No reader of the path ever finds a part of a file, after any failures,
\* kills, races and power losses.
THEOREM Atomicity == Spec => []NeverTorn
  <1>1. IInv => NeverTorn
    BY DEF IInv, PastInv, Durable, NeverTorn
  <1> QED
    BY <1>1, SpecIInv, PTL

\* A successful atomic_write leaves nothing under its temporary name.
THEOREM NoTempAfterOk == Spec => []OkLeavesNoTemp
  <1>1. IInv => OkLeavesNoTemp
    BY DEF IInv, OkInv, OkLeavesNoTemp, TmpName
  <1> QED
    BY <1>1, SpecIInv, PTL
-----------------------------------------------------------------------------
\* While permission bits are m everywhere that a rename or a power loss can
\* take them from: in the path's past, in what the calls were given, and in
\* each temporary file after its chmod.
ModeInv(m) ==
  /\ \A f \in past : f # Absent /\ f.mode = m
  /\ \A p \in Procs : src[p] \in {NoSource, m}
  /\ \A p \in Procs : pc[p] = "rename" => tmp[p].mode = m

LEMMA NextModeInv ==
  ASSUME NEW m \in Modes, "chmod" \notin Faults, Sources \subseteq {NoSource, m},
         IInv, ModeInv(m), [Next]_vars
  PROVE  ModeInv(m)'
  <1> USE DEF ModeInv, TmpName, Goto, Finish, Stages
  <1>a. /\ target \in File /\ target.mode = m
        /\ pc \in [Procs -> Stages] /\ tmp \in [Procs -> File \cup {Absent}]
        /\ src \in [Procs -> Modes \cup {NoSource}]
        /\ \A p \in Procs : pc[p] \in {"write", "sync", "chmod", "rename"} => tmp[p] # Absent
    BY DEF IInv, TypeOK, PastInv, TmpInv
  \* Steps that leave the path and the files after their chmod alone.
  <1>1. ASSUME NEW p \in Procs, NEW d \in Data, NEW s \in Sources, Begin(p, d, s)
        PROVE ModeInv(m)'
    BY <1>1, <1>a DEF Begin
  <1>2. ASSUME NEW p \in Procs, NEW how, Finish(p, how), UNCHANGED <<target, past>>,
               \A q \in Procs \ {p} : tmp'[q] = tmp[q]
        PROVE ModeInv(m)'
    BY <1>2, <1>a
  <1>3. ASSUME NEW p \in Procs, NEW stage \in Stages \ {"rename"}, Goto(p, stage),
               UNCHANGED <<past, src>>, \A q \in Procs \ {p} : tmp'[q] = tmp[q]
        PROVE ModeInv(m)'
    BY <1>3, <1>a
  <1>4. ASSUME NEW p \in Procs, CopyMode(p) PROVE ModeInv(m)'
    <2>1. ModeToCopy(p) = {m}
      BY <1>a, AbsentAssumption DEF ModeToCopy
    <2>2. tmp' = [tmp EXCEPT ![p].mode = m]
      BY <1>4, <2>1 DEF CopyMode
    <2>3. tmp'[p].mode = m /\ \A q \in Procs \ {p} : tmp'[q] = tmp[q]
      BY <1>4, <1>a, <2>2 DEF CopyMode, File
    <2>4. pc' = [pc EXCEPT ![p] = "rename"] /\ UNCHANGED <<past, src>>
      BY <1>4 DEF CopyMode
    <2> QED
      BY <1>a, <2>3, <2>4
  <1>5. ASSUME NEW p \in Procs, Rename(p) PROVE ModeInv(m)'
    <2>1. past' = past \cup {tmp[p]} /\ tmp[p] # Absent /\ tmp[p].mode = m
      BY <1>5, <1>a DEF Rename
    <2>2. /\ \A q \in Procs \ {p} : tmp'[q] = tmp[q]
          /\ pc' = [pc EXCEPT ![p] = "return"] /\ UNCHANGED src
      BY <1>5, <1>a DEF Rename
    <2> QED
      BY <1>a, <2>1, <2>2
  <1>6. CASE Writeback
    BY <1>6, <1>a, AbsentAssumption DEF Writeback
  <1>7. CASE PowerLoss
    <2>1. PICK f \in past : target' \in Survivors(f)
      BY <1>7 DEF PowerLoss
    <2>2. target' \in File /\ target'.mode = m
      BY <2>1 DEF Survivors
    <2>3. /\ past' = {target'}
          /\ pc' = [p \in Procs |-> "idle"] /\ src' = [p \in Procs |-> NoSource]
      BY <1>7 DEF PowerLoss
    <2> QED
      BY <2>2, <2>3, AbsentAssumption
  <1>8. ASSUME NEW p \in Procs, Step(p) \/ Kill(p) PROVE ModeInv(m)'
    <2>1. CASE \E stage \in {"mkdir", "create", "write", "sync"} : Bail(p, stage)
      BY <2>1, <1>2 DEF Bail
    <2>2. CASE MkDir(p) \/ RenameFails(p)
      BY <2>2, <1>3 DEF MkDir, RenameFails
    <2>3. CASE Create(p)
      BY <2>3, <1>3, <1>a DEF Create
    <2>4. CASE WriteAll(p) \/ SyncAll(p)
      BY <2>4, <1>3, <1>a DEF WriteAll, SyncAll
    <2>5. CASE RemoveTmp(p)
      BY <2>5, <1>2, <1>a DEF RemoveTmp
    <2>6. CASE Return(p) \/ Kill(p)
      BY <2>6, <1>2 DEF Return, Kill
    <2> QED
      BY <1>4, <1>5, <1>8, <2>1, <2>2, <2>3, <2>4, <2>5, <2>6 DEF Step
  <1>9. CASE UNCHANGED vars
    BY <1>9 DEF vars
  <1> QED
    BY <1>1, <1>6, <1>7, <1>8, <1>9 DEF Next

\* Where set_permissions works, a path whose file has bits m, written only with
\* the bits of files that have m or with None, never has other bits.
THEOREM BitsStay == "chmod" \notin Faults => (Spec => ModePreserved)
  <1> SUFFICES ASSUME "chmod" \notin Faults PROVE Spec => ModePreserved
    OBVIOUS
  <1>1. ASSUME NEW m \in Modes, Sources \subseteq {NoSource, m}
        PROVE Spec => ((target # Absent /\ target.mode = m)
                         => [](target # Absent => target.mode = m))
    <2>1. Init /\ target # Absent /\ target.mode = m => ModeInv(m)
      BY DEF Init, ModeInv
    <2>2. IInv /\ ModeInv(m) /\ [Next]_vars => ModeInv(m)'
      BY <1>1, NextModeInv
    <2>3. IInv /\ ModeInv(m) => (target # Absent => target.mode = m)
      BY DEF IInv, PastInv, ModeInv
    <2> QED
      BY <2>1, <2>2, <2>3, SpecIInv, PTL DEF Spec
  <1> QED
    BY <1>1 DEF ModePreserved
-----------------------------------------------------------------------------
\* The refinement: a complete file reads as its data.
LEMMA BytesOfDurable ==
  ASSUME NEW f \in File, Durable(f)
  PROVE  Bytes(f) = f.data /\ f.data \in Data
  BY AbsentAssumption DEF Bytes, Durable, File

LEMMA InitImplements == Init => AF!Init
  <1> SUFFICES ASSUME Init PROVE AF!Init
    OBVIOUS
  <1>1. Bytes(target) \in Data \cup {Absent}
    <2>1. CASE target = Absent
      BY <2>1 DEF Bytes
    <2>2. CASE target # Absent
      <3>1. target \in File /\ Durable(target)
        BY <2>2 DEF Init, File, Durable
      <3> QED
        BY <3>1, BytesOfDurable
    <2> QED
      BY <2>1, <2>2
  <1>2. {Bytes(f) : f \in past} = {Bytes(target)}
    BY DEF Init
  <1>3. {p \in Procs : pc[p] = "return"} = {}
    BY DEF Init
  <1> QED
    BY <1>1, <1>2, <1>3 DEF Init, AF!Init

LEMMA NextImplements == IInv /\ IInv' /\ [Next]_vars => [AF!Next]_(AF!vars)
  <1> SUFFICES ASSUME IInv, IInv', [Next]_vars PROVE [AF!Next]_(AF!vars)
    OBVIOUS
  <1> USE DataAssumption, AbsentAssumption
  <1>a. /\ pc \in [Procs -> Stages] /\ arg \in [Procs -> Data \cup {NoData}]
        /\ result \in [Procs -> {"none", "ok", "err", "dead"}]
        /\ \A p \in Procs : arg[p] = NoData <=> pc[p] = "idle"
    BY DEF IInv, TypeOK, ArgInv
  <1>1. ASSUME NEW p \in Procs, NEW d \in Data, NEW s \in Sources, Begin(p, d, s)
        PROVE AF!Begin(p, d)
    <2>1. {q \in Procs : pc'[q] = "return"} = {q \in Procs : pc[q] = "return"}
      BY <1>1, <1>a DEF Begin, Goto
    <2> QED
      BY <1>1, <1>a, <2>1 DEF Begin, AF!Begin
  \* Steps before and after the rename that the caller cannot see.
  <1>2. ASSUME NEW p \in Procs, NEW stage \in Stages \ {"return"},
               Goto(p, stage), pc[p] # "return", UNCHANGED <<target, past, arg, result>>
        PROVE UNCHANGED AF!vars
    <2>1. {q \in Procs : pc'[q] = "return"} = {q \in Procs : pc[q] = "return"}
      BY <1>2, <1>a DEF Goto
    <2> QED
      BY <1>2, <2>1 DEF AF!vars
  \* The end of a call, however it ends.
  <1>3. ASSUME NEW p \in Procs, NEW how \in {"ok", "err", "dead"},
               pc[p] # "idle", Finish(p, how), UNCHANGED <<target, past>>
        PROVE AF!End(p, how)
    <2>1. {q \in Procs : pc'[q] = "return"} = {q \in Procs : pc[q] = "return"} \ {p}
      BY <1>3, <1>a DEF Finish, Goto
    <2> QED
      BY <1>3, <1>a, <2>1 DEF Finish, AF!End
  <1>4. ASSUME NEW p \in Procs, Rename(p) PROVE AF!Land(p)
    <2>1. /\ tmp[p] \in File /\ Durable(tmp[p]) /\ tmp[p].data = arg[p]
          /\ target' = tmp[p] /\ past' = past \cup {tmp[p]}
      BY <1>4 DEF Rename, TmpName, IInv, TypeOK, TmpInv, Written
    <2>2. Bytes(target') = arg[p]
      BY <2>1, BytesOfDurable
    <2>3. {Bytes(f) : f \in past'} = {Bytes(f) : f \in past} \cup {arg[p]}
      BY <2>1, <2>2
    <2>4. {q \in Procs : pc'[q] = "return"} = {q \in Procs : pc[q] = "return"} \cup {p}
      BY <1>4, <1>a DEF Rename, Goto
    <2> QED
      BY <1>4, <1>a, <2>2, <2>3, <2>4 DEF Rename, AF!Land
  <1>5. CASE Writeback
    <2>1. {Bytes(f) : f \in past'} = {Bytes(target)}
      BY <1>5 DEF Writeback
    <2> QED
      BY <1>5, <2>1 DEF Writeback, AF!Next, AF!Settle
  <1>6. CASE PowerLoss
    <2>1. PICK f \in past : target' \in Survivors(f)
      BY <1>6 DEF PowerLoss
    <2>2. Bytes(target') = Bytes(f)
      <3>1. f = Absent \/ (f \in File /\ f.whole /\ f.synced)
        BY DEF IInv, TypeOK, PastInv, Durable
      <3>2. CASE f = Absent
        BY <2>1, <3>2 DEF Survivors
      <3>3. CASE f \in File /\ f.whole /\ f.synced
        <4>1. target' \in File /\ target'.data = f.data /\ Durable(target')
          BY <2>1, <3>3 DEF Survivors, Durable
        <4> QED
          BY <3>3, <4>1, BytesOfDurable DEF Durable
      <3> QED
        BY <3>1, <3>2, <3>3
    <2>3. {Bytes(g) : g \in past'} = {Bytes(target')}
      BY <1>6 DEF PowerLoss
    <2>4. {q \in Procs : pc'[q] = "return"} = {}
      BY <1>6 DEF PowerLoss
    <2> QED
      BY <1>6, <2>2, <2>3, <2>4 DEF PowerLoss, AF!Next, AF!PowerLoss
  <1>7. CASE UNCHANGED vars
    BY <1>7 DEF vars, AF!vars
  <1>8. ASSUME NEW p \in Procs, Step(p) \/ Kill(p) PROVE [AF!Next]_(AF!vars)
    <2>1. ASSUME NEW stage \in {"mkdir", "create", "write", "sync"}, Bail(p, stage)
          PROVE AF!ReturnErr(p)
      BY <2>1, <1>3 DEF Bail, AF!ReturnErr
    <2>2. CASE MkDir(p) \/ Create(p) \/ WriteAll(p) \/ SyncAll(p) \/ CopyMode(p)
               \/ RenameFails(p)
      BY <2>2, <1>2 DEF MkDir, Create, WriteAll, SyncAll, CopyMode, RenameFails, Stages
    <2>3. CASE RemoveTmp(p)
      BY <2>3, <1>3 DEF RemoveTmp, AF!ReturnErr, AF!Next
    <2>4. CASE Return(p)
      BY <2>4, <1>3 DEF Return, AF!ReturnOk, AF!Next
    <2>5. CASE Kill(p)
      BY <2>5, <1>3 DEF Kill, AF!Die, AF!Next
    <2> QED
      BY <1>4, <1>8, <2>1, <2>2, <2>3, <2>4, <2>5 DEF Step, AF!Next
  <1> QED
    BY <1>1, <1>5, <1>6, <1>7, <1>8 DEF Next, AF!Next

\* atomic_write implements the abstract atomic file, for any number of
\* concurrent callers and any failures.
THEOREM Refinement == Spec => ImplementsAtomicFile
  BY InitImplements, NextImplements, SpecIInv, PTL
  DEF Spec, ImplementsAtomicFile, AF!Spec
=============================================================================
