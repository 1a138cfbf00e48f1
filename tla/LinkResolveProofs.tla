-------------------------- MODULE LinkResolveProofs --------------------------
(***************************************************************************)
(* Proofs about LinkResolve: symbol resolution of oxide-ld, for any set of *)
(* objects, libraries and command lines.                                   *)
(***************************************************************************)
EXTENDS LinkResolve, SequenceTheorems, FiniteSetTheorems, TLAPS

-----------------------------------------------------------------------------
(***************************************************************************)
(* The inductive invariant.                                                *)
(***************************************************************************)

\* A strong definition is from an object, as long as objects are merged.
StrongInv ==
  pc \in {"units", "scan"} =>
    \A n \in Names : defined[n] # Undef /\ defined[n].bind = "global" =>
      \E j \in DOMAIN merged : Strong(merged[j], n)

\* Every name an object in the link refers to is accounted for.
Covered ==
  \A i \in DOMAIN merged : \A r \in Relocs[merged[i]] :
    defined[r.name] # Undef \/ r.name \in undefined

\* Past the classification, what is undefined is imported, and called only.
Classified ==
  /\ pc = "emit" \/ result = "ok" =>
       imports = undefined /\ \A n \in undefined : Importable(n)
  /\ result # "none" => pc = "done"

\* In a pass that has extracted nothing, no member behind it is needed.
ScanInv ==
  pc = "scan" /\ ~changed => \A i \in 1..(k - 1) : i \in extracted \/ ~Provides(i)

IInv == TypeOK /\ FirstStrongWins /\ StrongInv /\ Covered /\ Classified /\ ScanInv
-----------------------------------------------------------------------------
(***************************************************************************)
(* Facts about one merge.                                                  *)
(***************************************************************************)

\* The unit at hand is of its kind.
LEMMA UnitFields ==
  ASSUME TypeOK, pc = "units", k <= Len(input.units)
  PROVE  /\ "obj" \in DOMAIN Unit => Unit.obj \in Objects
         /\ "members" \in DOMAIN Unit => Unit.members \in Seq(Objects)
         /\ "lib" \in DOMAIN Unit => Unit.lib \in Libs
<1>1. input.units \in Seq(Units) /\ k \in 1..Len(input.units)
  BY InputsAssumption DEF TypeOK
<1>2. Unit \in Units
  BY <1>1 DEF Unit
<1>3. CASE Unit \in [obj : Objects]
  BY <1>3
<1>4. CASE Unit \in [members : Seq(Objects)]
  BY <1>4
<1>5. CASE Unit \in [lib : Libs]
  BY <1>5
<1>6. QED
  BY <1>2, <1>3, <1>4, <1>5 DEF Units

\* Merging keeps the types.
LEMMA MergeTypes ==
  ASSUME TypeOK, NEW o \in Objects, MergeObject(o)
  PROVE  /\ merged' \in Seq(Objects)
         /\ Len(merged') = Len(merged) + 1
         /\ \A i \in DOMAIN merged : i \in DOMAIN merged' /\ merged'[i] = merged[i]
         /\ merged'[Len(merged) + 1] = o
         /\ DOMAIN merged' = DOMAIN merged \cup {Len(merged) + 1}
         /\ defined' \in [Names -> Definition \cup {Undef}]
         /\ undefined' \subseteq Names
         /\ relative \subseteq [by : DOMAIN merged', name : Names]
<1>1. merged \in Seq(Objects) /\ merged' = Append(merged, o)
  BY DEF TypeOK, MergeObject
<1>2. /\ merged' \in Seq(Objects)
      /\ Len(merged') = Len(merged) + 1
      /\ \A i \in DOMAIN merged : i \in DOMAIN merged' /\ merged'[i] = merged[i]
      /\ merged'[Len(merged) + 1] = o
      /\ DOMAIN merged' = DOMAIN merged \cup {Len(merged) + 1}
  BY <1>1
<1>3. ASSUME NEW n \in Names
      PROVE  Resolve(o)[n] \in Definition \cup {Undef}
  <2>1. CASE Defines(o, n) /\ Replaces(defined[n], Symtab[o][n].bind)
    <3>1. Symtab[o][n] \in [bind : Binds \cup {"none"}, kept : BOOLEAN]
      BY SymtabAssumption
    <3>2. Symtab[o][n].bind \in Binds
      BY <2>1, <3>1 DEF Defines
    <3>3. QED
      BY <2>1, <3>2, <1>1 DEF Resolve, Definition
  <2>2. CASE ~(Defines(o, n) /\ Replaces(defined[n], Symtab[o][n].bind))
    BY <2>2 DEF Resolve, TypeOK
  <2>3. QED
    BY <2>1, <2>2
<1>4. defined' \in [Names -> Definition \cup {Undef}]
  <2>1. defined' = Resolve(o)
    BY DEF MergeObject
  <2>2. defined' = [n \in Names |-> Resolve(o)[n]]
    BY <2>1 DEF Resolve
  <2>3. QED
    BY <2>2, <1>3
<1>5. RefsOf[o] \subseteq Names
  BY RelocsAssumption DEF RefsOf
<1>6. undefined' \subseteq Names
  BY <1>5 DEF MergeObject, StillUndefined, TypeOK
<1>7. relative \subseteq [by : DOMAIN merged', name : Names]
  BY <1>2 DEF TypeOK
<1>8. QED
  BY <1>2, <1>4, <1>6, <1>7

\* Merging keeps the first strong definition, and records a new one.
LEMMA MergeStrong ==
  ASSUME TypeOK, FirstStrongWins, StrongInv, pc \in {"units", "scan"},
         NEW o \in Objects, MergeObject(o)
  PROVE  /\ FirstStrongWins'
         /\ \A n \in Names : defined'[n] # Undef /\ defined'[n].bind = "global" =>
              \E j \in DOMAIN merged' : Strong(merged'[j], n)
<1> DEFINE new == Len(merged) + 1
<1>1. /\ merged' \in Seq(Objects)
      /\ \A i \in DOMAIN merged : i \in DOMAIN merged' /\ merged'[i] = merged[i]
      /\ merged'[new] = o
      /\ DOMAIN merged' = DOMAIN merged \cup {new}
      /\ DOMAIN merged = 1..(new - 1) /\ new \in Nat
  <2>1. merged \in Seq(Objects)
    BY DEF TypeOK
  <2>2. DOMAIN merged = 1..(new - 1) /\ new \in Nat
    BY <2>1
  <2>3. QED
    BY <2>2, MergeTypes
<1>2. \A n \in Names :
        defined'[n] = IF Defines(o, n) /\ Replaces(defined[n], Symtab[o][n].bind)
                      THEN [by |-> new, bind |-> Symtab[o][n].bind] ELSE defined[n]
  BY DEF MergeObject, Resolve
<1>3. ASSUME NEW n \in Names, defined'[n] # Undef, defined'[n].bind = "global"
      PROVE  \E j \in DOMAIN merged' : Strong(merged'[j], n)
  <2>1. CASE Defines(o, n) /\ Replaces(defined[n], Symtab[o][n].bind)
    <3>0. defined'[n] = [by |-> new, bind |-> Symtab[o][n].bind]
      BY <1>2, <2>1
    <3>1. Symtab[o][n].bind = "global"
      BY <1>3, <3>0
    <3>2. Strong(merged'[new], n)
      BY <1>1, <2>1, <3>1 DEF Strong
    <3>3. QED
      BY <1>1, <3>2
  <2>2. CASE ~(Defines(o, n) /\ Replaces(defined[n], Symtab[o][n].bind))
    <3>1. PICK j \in DOMAIN merged : Strong(merged[j], n)
      BY <1>2, <1>3, <2>2 DEF StrongInv
    <3>2. QED
      BY <1>1, <3>1
  <2>3. QED
    BY <2>1, <2>2
<1>4. ASSUME NEW n \in Names, NEW i \in DOMAIN merged', Strong(merged'[i], n),
             \A j \in 1..(i - 1) : ~Strong(merged'[j], n)
      PROVE  defined'[n] = [by |-> i, bind |-> "global"]
  <2>1. CASE i \in DOMAIN merged
    <3>1. \A j \in 1..(i - 1) : merged'[j] = merged[j]
      BY <1>1, <2>1
    <3>2. defined[n] = [by |-> i, bind |-> "global"]
      BY <1>1, <1>4, <2>1, <3>1 DEF FirstStrongWins
    <3>3. defined[n] # Undef
      BY <3>2, <1>1, <2>1, UndefAssumption DEF Binds
    <3>4. ~Replaces(defined[n], Symtab[o][n].bind)
      BY <3>2, <3>3 DEF Replaces
    <3>5. QED
      BY <1>2, <3>2, <3>4
  <2>2. CASE i = new
    <3>1. Defines(o, n) /\ Symtab[o][n].bind = "global"
      BY <1>1, <1>4, <2>2 DEF Strong
    <3>2. \A j \in DOMAIN merged : ~Strong(merged[j], n)
      BY <1>1, <1>4, <2>2
    <3>3. defined[n] = Undef \/ defined[n].bind # "global"
      BY <3>2 DEF StrongInv
    <3>4. defined[n] = Undef \/ defined[n].bind \in Binds
      BY DEF TypeOK, Definition
    <3>5. Replaces(defined[n], "global")
      BY <3>3, <3>4 DEF Replaces, Binds
    <3>6. QED
      BY <1>2, <2>2, <3>1, <3>5
  <2>3. QED
    BY <1>1, <2>1, <2>2
<1>5. FirstStrongWins'
  BY <1>4 DEF FirstStrongWins, Strong, Defines
<1>6. QED
  BY <1>3, <1>5

\* Merging accounts for every name the object refers to.
LEMMA MergeCovered ==
  ASSUME TypeOK, Covered, NEW o \in Objects, MergeObject(o)
  PROVE  Covered'
<1>1. /\ \A i \in DOMAIN merged : merged'[i] = merged[i]
      /\ merged'[Len(merged) + 1] = o
      /\ DOMAIN merged' = DOMAIN merged \cup {Len(merged) + 1}
      /\ merged \in Seq(Objects)
  BY MergeTypes DEF TypeOK
<1>2. undefined' = {n \in undefined \cup RefsOf[o] : defined'[n] = Undef}
  BY DEF MergeObject, StillUndefined
<1>3. \A n \in Names : defined[n] # Undef => defined'[n] # Undef
  <2> SUFFICES ASSUME NEW n \in Names, defined[n] # Undef PROVE defined'[n] # Undef
    OBVIOUS
  <2>1. CASE Defines(o, n) /\ Replaces(defined[n], Symtab[o][n].bind)
    <3>1. defined'[n] = [by |-> Len(merged) + 1, bind |-> Symtab[o][n].bind]
      BY <2>1 DEF MergeObject, Resolve
    <3>2. Symtab[o][n] \in [bind : Binds \cup {"none"}, kept : BOOLEAN]
      BY SymtabAssumption
    <3>3. Symtab[o][n].bind \in Binds
      BY <2>1, <3>2 DEF Defines
    <3>4. Len(merged) + 1 \in Nat
      BY <1>1
    <3>5. QED
      BY <3>1, <3>3, <3>4, UndefAssumption
  <2>2. CASE ~(Defines(o, n) /\ Replaces(defined[n], Symtab[o][n].bind))
    BY <2>2 DEF MergeObject, Resolve
  <2>3. QED
    BY <2>1, <2>2
<1>4. ASSUME NEW i \in DOMAIN merged', NEW r \in Relocs[merged'[i]]
      PROVE  defined'[r.name] # Undef \/ r.name \in undefined'
  <2>1. merged'[i] \in Objects
    BY <1>1, MergeTypes
  <2>2. r.name \in Names
    BY <2>1, RelocsAssumption
  <2>3. CASE i \in DOMAIN merged
    BY <1>1, <1>2, <1>3, <2>2, <2>3 DEF Covered
  <2>4. CASE i = Len(merged) + 1
    <3>1. r.name \in RefsOf[o]
      BY <1>1, <2>4 DEF RefsOf
    <3>2. QED
      BY <1>2, <3>1
  <2>5. QED
    BY <1>1, <2>3, <2>4
<1>5. QED
  BY <1>4 DEF Covered
-----------------------------------------------------------------------------
(***************************************************************************)
(* The invariant is inductive.                                             *)
(***************************************************************************)

\* It holds at the start.
LEMMA InitIInv == Init => IInv
<1> SUFFICES ASSUME Init PROVE IInv
  OBVIOUS
<1>1. input.units \in Seq(Units)
  BY InputsAssumption DEF Init
<1>2. TypeOK
  <2>1. k \in 1..(1 + Len(input.units)) /\ pc = "units"
    BY <1>1 DEF Init
  <2>2. merged \in Seq(Objects) /\ members \in Seq(Objects) /\ needed \in Seq(Libs)
    BY DEF Init
  <2>3. /\ defined \in [Names -> Definition \cup {Undef}]
        /\ exports \in [Names -> Libs \cup {Undef}]
    BY DEF Init
  <2>4. /\ undefined \subseteq Names /\ extracted \subseteq DOMAIN members
        /\ imports \subseteq Names
        /\ relative \subseteq [by : DOMAIN merged, name : Names]
    BY DEF Init
  <2>5. input \in Inputs /\ changed \in BOOLEAN /\ result \in {"none", "ok", "err"}
    BY DEF Init
  <2>6. QED
    BY <2>1, <2>2, <2>3, <2>4, <2>5 DEF TypeOK
<1>3. FirstStrongWins /\ StrongInv /\ Covered /\ Classified /\ ScanInv
  BY DEF Init, FirstStrongWins, StrongInv, Covered, Classified, ScanInv
<1>4. QED
  BY <1>2, <1>3 DEF IInv

\* Every step keeps the types.
LEMMA NextTypeOK == TypeOK /\ [Next]_vars => TypeOK'
<1> SUFFICES ASSUME TypeOK, [Next]_vars PROVE TypeOK'
  OBVIOUS
<1>0. input.units \in Seq(Units) /\ members \in Seq(Objects) /\ merged \in Seq(Objects)
  BY InputsAssumption DEF TypeOK
<1>1. CASE MergeUnit
  <2>1. Unit.obj \in Objects /\ k \in 1..Len(input.units)
    BY <1>0, <1>1, UnitFields DEF MergeUnit, AtUnit, TypeOK
  <2>2. /\ merged' \in Seq(Objects)
        /\ defined' \in [Names -> Definition \cup {Undef}]
        /\ undefined' \subseteq Names
        /\ relative \subseteq [by : DOMAIN merged', name : Names]
    BY <1>1, <2>1, MergeTypes DEF MergeUnit
  <2>3. k' \in 1..(1 + Len(input.units))
    BY <1>0, <1>1, <2>1 DEF MergeUnit
  <2>4. QED
    BY <1>1, <2>2, <2>3 DEF MergeUnit, AtUnit, TypeOK, scan, out
<1>2. CASE NoteArchive
  <2>1. Unit.members \in Seq(Objects) /\ k \in 1..Len(input.units)
    BY <1>0, <1>2, UnitFields DEF NoteArchive, AtUnit, TypeOK
  <2>2. members' \in Seq(Objects) /\ DOMAIN members \subseteq DOMAIN members'
    BY <1>0, <1>2, <2>1 DEF NoteArchive
  <2>3. k' \in 1..(1 + Len(input.units))
    BY <1>0, <1>2, <2>1 DEF NoteArchive
  <2>4. QED
    BY <1>2, <2>2, <2>3 DEF NoteArchive, AtUnit, TypeOK, out
<1>3. CASE NoteShared
  <2>1. Unit.lib \in Libs /\ k \in 1..Len(input.units)
    BY <1>0, <1>3, UnitFields DEF NoteShared, AtUnit, TypeOK
  <2>2. needed' \in Seq(Libs) /\ exports' \in [Names -> Libs \cup {Undef}]
    BY <1>3, <2>1 DEF NoteShared, TypeOK
  <2>3. k' \in 1..(1 + Len(input.units))
    BY <1>0, <1>3, <2>1 DEF NoteShared
  <2>4. QED
    BY <1>3, <2>2, <2>3 DEF NoteShared, AtUnit, TypeOK, scan, out
<1>4. CASE UnitsDone
  BY <1>0, <1>4 DEF UnitsDone, TypeOK, scan, out
<1>5. CASE Skip
  BY <1>0, <1>5 DEF Skip, AtMember, TypeOK, scan, out
<1>6. CASE Extract
  <2>1. k \in DOMAIN members /\ k \in 1..Len(members) /\ members[k] \in Objects
    BY <1>0, <1>6 DEF Extract, AtMember, TypeOK
  <2>2. /\ merged' \in Seq(Objects)
        /\ defined' \in [Names -> Definition \cup {Undef}]
        /\ undefined' \subseteq Names
        /\ relative \subseteq [by : DOMAIN merged', name : Names]
    BY <1>6, <2>1, MergeTypes DEF Extract
  <2>3. k' \in 1..(1 + Len(members))
    BY <1>0, <1>6, <2>1 DEF Extract
  <2>4. QED
    BY <1>6, <2>1, <2>2, <2>3 DEF Extract, AtMember, TypeOK, out
<1>7. CASE PassDone
  <2>1. pc' \in {"scan", "inject"} /\ changed' \in BOOLEAN
    BY <1>7 DEF PassDone, TypeOK
  <2>2. k' \in 1..(1 + Len(members))
    BY <1>0, <1>7 DEF PassDone, TypeOK
  <2>3. /\ input' = input /\ merged' = merged /\ defined' = defined
        /\ undefined' = undefined /\ members' = members /\ extracted' = extracted
        /\ exports' = exports /\ needed' = needed /\ imports' = imports
        /\ relative' = relative /\ result' = result
    BY <1>7 DEF PassDone, out
  <2>4. QED
    BY <2>1, <2>2, <2>3 DEF TypeOK
<1>8. CASE InjectCrtSymbols
  <2>1. [by |-> 0, bind |-> "global"] \in Definition
    BY DEF Definition, Binds
  <2>2. defined' \in [Names -> Definition \cup {Undef}]
    BY <1>8, <2>1 DEF InjectCrtSymbols, TypeOK
  <2>3. QED
    BY <1>8, <2>2 DEF InjectCrtSymbols, TypeOK, scan, out
<1>9. CASE Abort
  BY <1>9 DEF Abort, Fail, TypeOK, scan, out
<1>10. CASE Classify
  BY <1>10 DEF Classify, TypeOK, scan, out
<1>11. CASE Emit
  <2>1. relative' \subseteq [by : DOMAIN merged, name : Names]
    BY <1>11 DEF Emit, RelativeSites
  <2>2. QED
    BY <1>11, <2>1 DEF Emit, TypeOK, scan
<1>12. CASE WriteFails
  BY <1>12 DEF WriteFails, TypeOK, scan, out
<1>13. CASE UNCHANGED vars
  BY <1>13 DEF vars, TypeOK, scan, out
<1>14. QED
  BY <1>1, <1>2, <1>3, <1>4, <1>5, <1>6, <1>7, <1>8, <1>9, <1>10, <1>11, <1>12,
     <1>13 DEF Next, Done

\* Every step keeps the rest of the invariant.
LEMMA NextIInv == IInv /\ [Next]_vars => IInv'
<1> SUFFICES ASSUME IInv, [Next]_vars PROVE IInv'
  OBVIOUS
<1>0. TypeOK /\ FirstStrongWins /\ StrongInv /\ Covered /\ Classified /\ ScanInv
  BY DEF IInv
<1>t. TypeOK'
  BY <1>0, NextTypeOK
<1>q. input.units \in Seq(Units) /\ members \in Seq(Objects)
  BY <1>0, InputsAssumption DEF TypeOK
\* Steps that leave the objects in the link and their definitions alone.
<1>u. ASSUME UNCHANGED <<merged, defined>>, pc' \in {"units", "scan"} => pc \in {"units", "scan"}
      PROVE  FirstStrongWins' /\ StrongInv'
  BY <1>0, <1>u DEF FirstStrongWins, StrongInv, Strong, Defines
<1>v. ASSUME UNCHANGED <<merged, defined, undefined>>
      PROVE  Covered'
  BY <1>0, <1>v DEF Covered
<1>1. CASE MergeUnit
  <2>1. Unit.obj \in Objects /\ pc = "units" /\ MergeObject(Unit.obj)
    BY <1>0, <1>1, UnitFields DEF MergeUnit, AtUnit
  <2>2. FirstStrongWins' /\ StrongInv' /\ Covered'
    BY <1>0, <2>1, MergeStrong, MergeCovered DEF StrongInv
  <2>3. Classified' /\ ScanInv'
    BY <1>0, <1>1, <2>1 DEF MergeUnit, Classified, ScanInv, out
  <2>4. QED
    BY <1>t, <2>2, <2>3 DEF IInv
<1>2. CASE NoteArchive
  <2>1. Classified' /\ ScanInv'
    BY <1>0, <1>2 DEF NoteArchive, AtUnit, Classified, ScanInv, out
  <2>2. QED
    BY <1>2, <1>t, <1>u, <1>v, <2>1 DEF NoteArchive, IInv
<1>3. CASE NoteShared
  <2>1. Classified' /\ ScanInv'
    BY <1>0, <1>3 DEF NoteShared, AtUnit, Classified, ScanInv, scan, out
  <2>2. QED
    BY <1>3, <1>t, <1>u, <1>v, <2>1 DEF NoteShared, IInv
<1>4. CASE UnitsDone
  <2>1. Classified' /\ ScanInv'
    BY <1>0, <1>4 DEF UnitsDone, Classified, ScanInv, scan, out
  <2>2. QED
    BY <1>4, <1>t, <1>u, <1>v, <2>1 DEF UnitsDone, IInv
<1>5. CASE Skip
  <2>1. Classified'
    BY <1>0, <1>5 DEF Skip, AtMember, Classified, out
  <2>2. ScanInv'
    <3>1. k \in Nat /\ k' = k + 1
      BY <1>0, <1>5, <1>q DEF Skip, AtMember, TypeOK
    <3>2. 1..(k' - 1) = 1..(k - 1) \cup {k}
      BY <1>0, <1>5, <3>1, <1>q DEF Skip, AtMember, TypeOK
    <3>3. QED
      BY <1>0, <1>5, <3>2 DEF Skip, AtMember, ScanInv, Provides, scan
  <2>3. QED
    BY <1>5, <1>t, <1>u, <1>v, <2>1, <2>2 DEF Skip, IInv
<1>6. CASE Extract
  <2>1. members[k] \in Objects /\ pc = "scan" /\ MergeObject(members[k])
    BY <1>0, <1>6, <1>q DEF Extract, AtMember, TypeOK
  <2>2. FirstStrongWins' /\ StrongInv' /\ Covered'
    BY <1>0, <2>1, MergeStrong, MergeCovered DEF StrongInv
  <2>3. Classified' /\ ScanInv'
    BY <1>0, <1>6, <2>1 DEF Extract, Classified, ScanInv, out
  <2>4. QED
    BY <1>t, <2>2, <2>3 DEF IInv
<1>7. CASE PassDone
  <2>1. Classified' /\ ScanInv'
    BY <1>0, <1>7 DEF PassDone, Classified, ScanInv, out
  <2>2. QED
    BY <1>7, <1>t, <1>u, <1>v, <2>1 DEF PassDone, IInv
<1>8. CASE InjectCrtSymbols
  <2>1. \A n \in Names : defined[n] # Undef => defined'[n] = defined[n]
    BY <1>8 DEF InjectCrtSymbols
  <2>2. merged' = merged /\ undefined' = {n \in undefined : defined'[n] = Undef}
    BY <1>8 DEF InjectCrtSymbols
  <2>3. FirstStrongWins'
    <3>1. SUFFICES ASSUME NEW n \in Names, NEW i \in DOMAIN merged, Strong(merged[i], n),
                          \A j \in 1..(i - 1) : ~Strong(merged[j], n)
                   PROVE  defined'[n] = [by |-> i, bind |-> "global"]
      BY <2>2 DEF FirstStrongWins, Strong, Defines
    <3>2. defined[n] = [by |-> i, bind |-> "global"]
      BY <1>0, <3>1 DEF FirstStrongWins
    <3>3. i \in Nat
      BY <1>0 DEF TypeOK
    <3>4. defined[n] # Undef
      BY <3>2, <3>3, UndefAssumption DEF Binds
    <3>5. QED
      BY <2>1, <3>2, <3>4
  <2>4. StrongInv' /\ Classified' /\ ScanInv'
    BY <1>0, <1>8 DEF InjectCrtSymbols, StrongInv, Classified, ScanInv, out
  <2>5. Covered'
    <3>1. SUFFICES ASSUME NEW i \in DOMAIN merged, NEW r \in Relocs[merged[i]]
                   PROVE  defined'[r.name] # Undef \/ r.name \in undefined'
      BY <2>2 DEF Covered
    <3>2. r.name \in Names
      BY <1>0, RelocsAssumption DEF TypeOK
    <3>3. defined[r.name] # Undef \/ r.name \in undefined
      BY <1>0 DEF Covered
    <3>4. QED
      BY <2>1, <2>2, <3>2, <3>3
  <2>6. QED
    BY <1>t, <2>3, <2>4, <2>5 DEF IInv
<1>9. CASE Abort
  <2>1. Classified' /\ ScanInv'
    BY <1>0, <1>9 DEF Abort, Classified, ScanInv, scan
  <2>2. QED
    BY <1>9, <1>t, <1>u, <1>v, <2>1 DEF Abort, IInv
<1>10. CASE Classify
  <2>1. \A n \in undefined : Importable(n)
    BY <1>10 DEF Classify, Fail
  <2>2. \A n \in undefined : Importable(n)'
    BY <1>10, <2>1 DEF Classify, Importable, KindsOf, Kept
  <2>3. Classified' /\ ScanInv'
    BY <1>0, <1>10, <2>2 DEF Classify, Classified, ScanInv, scan
  <2>4. QED
    BY <1>10, <1>t, <1>u, <1>v, <2>3 DEF Classify, IInv
<1>11. CASE Emit
  <2>1. \A n \in undefined : Importable(n)'
    BY <1>0, <1>11 DEF Emit, Classified, Importable, KindsOf, Kept
  <2>2. Classified' /\ ScanInv'
    BY <1>0, <1>11, <2>1 DEF Emit, Classified, ScanInv, scan
  <2>3. QED
    BY <1>11, <1>t, <1>u, <1>v, <2>2 DEF Emit, IInv
<1>12. CASE WriteFails
  <2>1. Classified' /\ ScanInv'
    BY <1>0, <1>12 DEF WriteFails, Classified, ScanInv, scan
  <2>2. QED
    BY <1>12, <1>t, <1>u, <1>v, <2>1 DEF WriteFails, IInv
<1>13. CASE UNCHANGED vars
  <2>1. \A n \in Names : Importable(n)' = Importable(n)
    BY <1>13 DEF vars, Importable, KindsOf, Kept
  <2>2. Classified'
    BY <1>0, <1>13, <2>1 DEF Classified, TypeOK, vars, out
  <2>3. ScanInv'
    BY <1>0, <1>13 DEF ScanInv, Provides, vars, scan
  <2>4. QED
    BY <1>13, <1>t, <1>u, <1>v, <2>2, <2>3 DEF vars, IInv
<1>14. QED
  BY <1>1, <1>2, <1>3, <1>4, <1>5, <1>6, <1>7, <1>8, <1>9, <1>10, <1>11, <1>12,
     <1>13 DEF Next, Done

\* The invariant holds in every reachable state.
THEOREM SpecIInv == Spec => []IInv
<1>1. QED
  BY InitIInv, NextIInv, PTL DEF Spec
-----------------------------------------------------------------------------
(***************************************************************************)
(* What follows.                                                           *)
(***************************************************************************)

\* Type correctness, for any objects and command lines.
THEOREM TypeCorrect == Spec => []TypeOK
<1>1. IInv => TypeOK
  BY DEF IInv
<1>2. QED
  BY <1>1, SpecIInv, PTL

\* The first strong definition in merge order wins.
THEOREM StrongDefinitions == Spec => []FirstStrongWins
<1>1. IInv => FirstStrongWins
  BY DEF IInv
<1>2. QED
  BY <1>1, SpecIInv, PTL

\* A link that succeeds has resolved every relocation in its output.
THEOREM Resolution == Spec => []AllResolved
<1>1. IInv => AllResolved
  <2> SUFFICES ASSUME IInv, result = "ok", NEW i \in DOMAIN merged,
                      NEW r \in Relocs[merged[i]], r.kept, defined[r.name] = Undef
               PROVE  r.name \in imports /\ r.kind = "PLT32"
    BY DEF AllResolved
  <2>1. r.name \in undefined /\ undefined = imports /\ Importable(r.name)
    BY DEF IInv, Covered, Classified
  <2>2. r \in [name : Names, kind : Kinds, kept : BOOLEAN]
    BY RelocsAssumption DEF IInv, TypeOK
  <2>3. r.kind \in KindsOf(r.name)
    BY <2>2 DEF KindsOf, Kept
  <2>4. QED
    BY <2>1, <2>3 DEF Importable
<1>2. QED
  BY <1>1, SpecIInv, PTL
-----------------------------------------------------------------------------
(***************************************************************************)
(* Imports.                                                                *)
(***************************************************************************)

\* The library of a name is the first one in needed_libs that exports it, and
\* a name without one is exported by none of them.
FirstExports ==
  \A n \in Names :
    /\ exports[n] = Undef => \A i \in DOMAIN needed : n \notin Exports[needed[i]]
    /\ exports[n] # Undef =>
         \E i \in DOMAIN needed :
           /\ exports[n] = needed[i] /\ n \in Exports[needed[i]]
           /\ \A j \in 1..(i - 1) : n \notin Exports[needed[j]]

ImportsInv == FirstExports /\ \A n \in imports : exports[n] # Undef

\* A library is entered once, behind those before it.
LEMMA NoteSharedFirst ==
  ASSUME TypeOK, FirstExports, NoteShared
  PROVE  FirstExports'
<1> DEFINE lib == Unit.lib
<1>1. lib \in Libs /\ lib # Undef
  BY InputsAssumption, UndefAssumption, UnitFields DEF NoteShared, AtUnit, TypeOK
<1> HIDE DEF lib
<1>2. needed \in Seq(Libs)
  BY DEF TypeOK
<1>3. PICK at \in DOMAIN needed' :
        /\ needed'[at] = lib
        /\ \A j \in DOMAIN needed' : j # at => j \in DOMAIN needed \/ needed'[j] = lib
        /\ at \notin DOMAIN needed => at = Len(needed) + 1
  <2>1. CASE \E i \in DOMAIN needed : needed[i] = lib
    BY <2>1 DEF NoteShared, lib
  <2>2. CASE ~\E i \in DOMAIN needed : needed[i] = lib
    <3>1. needed' = Append(needed, lib)
      BY <2>2 DEF NoteShared, lib
    <3>2. Len(needed) + 1 \in DOMAIN needed' /\ needed'[Len(needed) + 1] = lib
      BY <1>1, <1>2, <3>1
    <3>3. \A j \in DOMAIN needed' : j # Len(needed) + 1 => j \in DOMAIN needed
      BY <1>1, <1>2, <3>1
    <3>4. QED
      BY <1>2, <3>2, <3>3
  <2>3. QED
    BY <2>1, <2>2
<1>4. /\ \A j \in DOMAIN needed : j \in DOMAIN needed' /\ needed'[j] = needed[j]
      /\ \A j \in DOMAIN needed' : j \in DOMAIN needed \/ needed'[j] = lib
  <2>1. CASE needed' = needed
    BY <2>1
  <2>2. CASE needed' = Append(needed, lib)
    BY <1>1, <1>2, <2>2
  <2>3. QED
    BY <2>1, <2>2 DEF NoteShared, lib
<1>5. ASSUME NEW n \in Names
      PROVE  exports'[n] = IF exports[n] = Undef /\ n \in Exports[lib] THEN lib ELSE exports[n]
  BY <1>5 DEF NoteShared, lib
<1>6. ASSUME NEW n \in Names, exports'[n] = Undef
      PROVE  \A i \in DOMAIN needed' : n \notin Exports[needed'[i]]
  BY <1>1, <1>4, <1>5, <1>6 DEF FirstExports
<1>7. ASSUME NEW n \in Names, exports'[n] # Undef
      PROVE  \E i \in DOMAIN needed' :
               /\ exports'[n] = needed'[i] /\ n \in Exports[needed'[i]]
               /\ \A j \in 1..(i - 1) : n \notin Exports[needed'[j]]
  <2>1. CASE exports[n] # Undef
    <3>1. PICK i \in DOMAIN needed :
            /\ exports[n] = needed[i] /\ n \in Exports[needed[i]]
            /\ \A j \in 1..(i - 1) : n \notin Exports[needed[j]]
      BY <2>1 DEF FirstExports
    <3>2. \A j \in 1..(i - 1) : j \in DOMAIN needed
      BY <1>2
    <3>3. QED
      BY <1>4, <1>5, <2>1, <3>1, <3>2
  <2>2. CASE exports[n] = Undef
    <3>1. n \in Exports[lib] /\ exports'[n] = lib
      BY <1>5, <1>7, <2>2
    <3>2. \A i \in DOMAIN needed : n \notin Exports[needed[i]]
      BY <2>2 DEF FirstExports
    <3>3. at = Len(needed) + 1
      BY <1>3, <1>4, <3>1, <3>2
    <3>4. \A j \in 1..(at - 1) : j \in DOMAIN needed
      BY <1>2, <3>3
    <3>5. QED
      BY <1>3, <1>4, <3>1, <3>2, <3>4
  <2>3. QED
    BY <2>1, <2>2
<1>8. QED
  BY <1>6, <1>7 DEF FirstExports

\* Every step keeps the imports within what a library in DT_NEEDED exports.
LEMMA NextImportsInv == IInv /\ ImportsInv /\ [Next]_vars => ImportsInv'
<1> SUFFICES ASSUME IInv, ImportsInv, [Next]_vars PROVE ImportsInv'
  OBVIOUS
<1>0. TypeOK /\ imports \subseteq Names
  BY DEF IInv, TypeOK
<1>1. CASE NoteShared
  <2>1. FirstExports'
    BY <1>0, <1>1, NoteSharedFirst DEF ImportsInv
  <2>2. \A n \in Names : exports[n] # Undef => exports'[n] # Undef
    BY <1>1 DEF NoteShared
  <2>3. imports' = imports
    BY <1>1 DEF NoteShared, out
  <2>4. QED
    BY <1>0, <2>1, <2>2, <2>3 DEF ImportsInv
<1>2. CASE Classify
  <2>1. exports' = exports /\ needed' = needed /\ imports' = undefined
    BY <1>2 DEF Classify
  <2>2. \A n \in undefined : exports[n] # Undef
    BY <1>2 DEF Classify, Fail, Importable
  <2>3. QED
    BY <2>1, <2>2 DEF ImportsInv, FirstExports
<1>3. CASE ~NoteShared /\ ~Classify
  <2>1. exports' = exports /\ needed' = needed /\ imports' = imports
    BY <1>3 DEF Next, vars, scan, out, MergeUnit, NoteArchive, UnitsDone, Skip, Extract, PassDone,
         InjectCrtSymbols, Abort, Emit, WriteFails, Done
  <2>2. QED
    BY <2>1 DEF ImportsInv, FirstExports
<1>4. QED
  BY <1>1, <1>2, <1>3

\* An import comes from the first shared object on the command line that
\* exports it, and that one is in DT_NEEDED (linker.rs dynamic_exports, needed_libs).
THEOREM ImportsComeFromNeeded == Spec => []ImportsAreNeeded
<1>1. Init => ImportsInv
  BY DEF Init, ImportsInv, FirstExports
<1>2. IInv /\ ImportsInv => ImportsAreNeeded
  <2> SUFFICES ASSUME IInv, ImportsInv, NEW n \in imports
               PROVE  \E i \in DOMAIN needed :
                        /\ n \in Exports[needed[i]]
                        /\ \A j \in 1..(i - 1) : n \notin Exports[needed[j]]
                        /\ exports[n] = needed[i]
    BY DEF ImportsAreNeeded
  <2>1. n \in Names /\ exports[n] # Undef
    BY DEF IInv, TypeOK, ImportsInv
  <2>2. QED
    BY <2>1 DEF ImportsInv, FirstExports
<1>3. QED
  BY <1>1, <1>2, NextImportsInv, SpecIInv, PTL DEF Spec
-----------------------------------------------------------------------------
(***************************************************************************)
(* The passes over the archive members implement ArchiveClosure.           *)
(***************************************************************************)

\* The initial states are ArchiveClosure's.
LEMMA InitImplements == Init => AC!Init
BY DEF Init, AC!Init

\* Every step is one of ArchiveClosure's, or none.
LEMMA NextImplements == IInv /\ [Next]_vars => [AC!Next]_(AC!vars)
<1> SUFFICES ASSUME IInv, [Next]_vars PROVE [AC!Next]_(AC!vars)
  OBVIOUS
<1>0. TypeOK /\ TypeOK' /\ ScanInv
  BY NextTypeOK DEF IInv
<1>q. members \in Seq(Objects) /\ members' \in Seq(Objects)
  BY <1>0 DEF TypeOK
<1>1. CASE MergeUnit \/ NoteArchive \/ NoteShared \/ UnitsDone
  <2>1. AC!Load
    BY <1>1, <1>q DEF MergeUnit, NoteArchive, NoteShared, UnitsDone, AtUnit, scan, AC!Load
  <2>2. QED
    BY <2>1 DEF AC!Next
<1>2. CASE Extract
  <2>1. k \in DOMAIN members
    BY <1>0, <1>2, <1>q DEF Extract, AtMember, TypeOK
  <2>2. undefined' \subseteq undefined \cup RefsOf[members[k]]
    BY <1>2 DEF Extract, MergeObject, StillUndefined
  <2>3. AC!Pull(k)
    BY <1>2, <2>2 DEF Extract, AtMember, Provides, AC!Pull, AC!Provides
  <2>4. QED
    BY <2>1, <2>3 DEF AC!Next
<1>3. CASE PassDone
  <2>1. CASE changed
    BY <1>3, <2>1 DEF PassDone, AC!vars
  <2>2. CASE ~changed
    <3>1. \A i \in DOMAIN members : i \in 1..(k - 1)
      BY <1>0, <1>3, <1>q DEF PassDone, TypeOK
    <3>2. \A i \in DOMAIN members : i \in extracted \/ ~Provides(i)
      BY <1>0, <1>3, <2>2, <3>1 DEF PassDone, ScanInv
    <3>3. AC!Close
      BY <1>3, <2>2, <3>2 DEF PassDone, Provides, AC!Close, AC!Provides
    <3>4. QED
      BY <3>3 DEF AC!Next
  <2>3. QED
    BY <2>1, <2>2
<1>4. CASE InjectCrtSymbols
  <2>1. AC!Settle
    BY <1>4 DEF InjectCrtSymbols, scan, AC!Settle
  <2>2. QED
    BY <2>1 DEF AC!Next
<1>5. CASE Skip
  BY <1>5 DEF Skip, scan, AC!vars
<1>6. CASE Abort
  BY <1>6 DEF Abort, Fail, scan, AC!vars
<1>7. CASE Classify \/ Emit \/ WriteFails
  BY <1>7 DEF Classify, Emit, WriteFails, scan, AC!vars
<1>8. CASE UNCHANGED vars
  BY <1>8 DEF vars, scan, AC!vars
<1>9. QED
  BY <1>1, <1>2, <1>3, <1>4, <1>5, <1>6, <1>7, <1>8 DEF Next, Done

\* The fixpoint of the code keeps the promise of ArchiveClosure.
THEOREM Refinement == Spec => ImplementsArchiveClosure
<1>1. QED
  BY InitImplements, NextImplements, SpecIInv, PTL
     DEF Spec, ImplementsArchiveClosure, AC!Spec
-----------------------------------------------------------------------------
(***************************************************************************)
(* The link ends: every step leaves less to do.                            *)
(***************************************************************************)

\* Which component decides.
LEMMA BelowAt ==
  ASSUME NEW a1 \in Nat, NEW a2 \in Nat, NEW a3 \in Nat, NEW a4 \in Nat,
         NEW b1 \in Nat, NEW b2 \in Nat, NEW b3 \in Nat, NEW b4 \in Nat,
         a1 <= b1, a1 = b1 => a2 <= b2, a1 = b1 /\ a2 = b2 => a3 <= b3,
         a1 = b1 /\ a2 = b2 /\ a3 = b3 => a4 < b4
  PROVE  Below(<<a1, a2, a3, a4>>, <<b1, b2, b3, b4>>)
<1> DEFINE a == <<a1, a2, a3, a4>>
           b == <<b1, b2, b3, b4>>
<1> SUFFICES Below(a, b)
  OBVIOUS
<1>1. /\ a[1] = a1 /\ a[2] = a2 /\ a[3] = a3 /\ a[4] = a4
      /\ b[1] = b1 /\ b[2] = b2 /\ b[3] = b3 /\ b[4] = b4
  OBVIOUS
<1> HIDE DEF a, b
<1>2. CASE a1 < b1
  BY <1>1, <1>2 DEF Below
<1>3. CASE a1 = b1 /\ a2 < b2
  BY <1>1, <1>3 DEF Below
<1>4. CASE a1 = b1 /\ a2 = b2 /\ a3 < b3
  BY <1>1, <1>4 DEF Below
<1>5. CASE a1 = b1 /\ a2 = b2 /\ a3 = b3
  BY <1>1, <1>5 DEF Below
<1>6. \/ a1 < b1
      \/ a1 = b1 /\ a2 < b2
      \/ a1 = b1 /\ a2 = b2 /\ a3 < b3
      \/ a1 = b1 /\ a2 = b2 /\ a3 = b3
  OBVIOUS
<1> QED  BY <1>2, <1>3, <1>4, <1>5, <1>6

\* The members still to be extracted are finitely many, and one less after an extraction.
LEMMA MembersLeft ==
  ASSUME TypeOK
  PROVE  /\ Cardinality(DOMAIN members \ extracted) \in Nat
         /\ \A m \in DOMAIN members \ extracted :
              Cardinality(DOMAIN members \ (extracted \cup {m}))
                < Cardinality(DOMAIN members \ extracted)
<1> DEFINE left == DOMAIN members \ extracted
<1>1. DOMAIN members = 1..Len(members) /\ Len(members) \in Nat
  BY DEF TypeOK
<1>2. IsFiniteSet(DOMAIN members)
  BY <1>1, FS_Interval
<1>3. IsFiniteSet(left)
  BY <1>2, FS_Subset
<1>4. Cardinality(left) \in Nat
  BY <1>3, FS_CardinalityType
<1>5. ASSUME NEW m \in left
      PROVE  Cardinality(DOMAIN members \ (extracted \cup {m})) < Cardinality(left)
  <2>1. DOMAIN members \ (extracted \cup {m}) = left \ {m}
    OBVIOUS
  <2> HIDE DEF left
  <2>2. Cardinality(left \ {m}) = Cardinality(left) - 1
    BY <1>3, FS_RemoveElement
  <2>3. Cardinality(left) - 1 < Cardinality(left)
    BY <1>4
  <2>4. Cardinality(left \ {m}) < Cardinality(left)
    BY <2>2, <2>3
  <2> QED  BY <2>1, <2>4
<1> QED  BY <1>4, <1>5

\* The phases by number.
LEMMA PhaseNumbers ==
  ASSUME TypeOK
  PROVE  PhasesToCome \in 0..5
BY DEF TypeOK, PhasesToCome

\* The four numbers of a state, by phase.
LEMMA ToDoByPhase ==
  ASSUME TypeOK
  PROVE  /\ ToDo \in [1..4 -> Nat]
         /\ pc = "units" => ToDo = <<5, 0, 0, Len(input.units) + 1 - k>>
                            /\ Len(input.units) + 1 - k \in Nat
         /\ pc = "scan" => ToDo = <<4, Cardinality(DOMAIN members \ extracted),
                                    IF changed THEN 1 ELSE 0, Len(members) + 1 - k>>
                           /\ Len(members) + 1 - k \in Nat
         /\ pc \notin {"units", "scan"} => ToDo = <<PhasesToCome, 0, 0, 0>>
<1>1. k \in 1..(1 + IF pc = "units" THEN Len(input.units) ELSE Len(members))
  BY DEF TypeOK
<1>2. Len(input.units) \in Nat /\ Len(members) \in Nat
  BY InputsAssumption DEF TypeOK
<1>3. ASSUME pc = "units"
      PROVE  ToDo = <<5, 0, 0, Len(input.units) + 1 - k>> /\ Len(input.units) + 1 - k \in Nat
  BY <1>1, <1>2, <1>3 DEF ToDo, PhasesToCome
<1>4. ASSUME pc = "scan"
      PROVE  /\ ToDo = <<4, Cardinality(DOMAIN members \ extracted),
                         IF changed THEN 1 ELSE 0, Len(members) + 1 - k>>
             /\ Len(members) + 1 - k \in Nat
  BY <1>1, <1>2, <1>4 DEF ToDo, PhasesToCome
<1>5. ASSUME pc \notin {"units", "scan"}
      PROVE  ToDo = <<PhasesToCome, 0, 0, 0>>
  BY <1>5 DEF ToDo
<1>6. Cardinality(DOMAIN members \ extracted) \in Nat /\ PhasesToCome \in Nat
  BY MembersLeft, PhaseNumbers
<1>7. ToDo \in [1..4 -> Nat]
  BY <1>3, <1>4, <1>5, <1>6
<1> QED  BY <1>3, <1>4, <1>5, <1>7

\* A step to a later phase leaves less to do, whatever it does.
LEMMA LaterPhase ==
  ASSUME TypeOK, TypeOK', PhasesToCome' < PhasesToCome
  PROVE  Below(ToDo', ToDo)
<1>1. ToDo \in [1..4 -> Nat] /\ ToDo[1] = PhasesToCome
  BY ToDoByPhase DEF ToDo
<1>2. ToDo'[1] = PhasesToCome'
  BY DEF ToDo
<1> QED  BY <1>1, <1>2 DEF Below

\* Every step leaves less to do.
LEMMA NextLeavesLess ==
  ASSUME TypeOK, TypeOK', Next
  PROVE  Below(ToDo', ToDo) \/ UNCHANGED vars
<1>0. Len(input.units) \in Nat /\ Len(members) \in Nat /\ k \in Nat
  BY InputsAssumption DEF TypeOK
<1>1. CASE MergeUnit \/ NoteArchive \/ NoteShared
  <2>1. pc = "units" /\ pc' = "units" /\ input' = input /\ k' = k + 1 /\ k <= Len(input.units)
    BY <1>1 DEF MergeUnit, NoteArchive, NoteShared, AtUnit
  <2>2. Len(input.units) + 1 - k \in Nat /\ ToDo = <<5, 0, 0, Len(input.units) + 1 - k>>
    BY <2>1, ToDoByPhase
  <2>3. ToDo' = <<5, 0, 0, Len(input.units) + 1 - k'>>
    BY <2>1 DEF ToDo, PhasesToCome
  <2>4. ASSUME NEW l \in Nat, k <= l
        PROVE  l + 1 - k' \in Nat /\ l + 1 - k' < l + 1 - k
    BY <1>0, <2>1, <2>4
  <2>5. Len(input.units) + 1 - k' \in Nat /\ Len(input.units) + 1 - k' < Len(input.units) + 1 - k
    BY <1>0, <2>1, <2>4
  <2> QED  BY <2>2, <2>3, <2>5, BelowAt
<1>2. CASE UnitsDone \/ InjectCrtSymbols \/ Abort \/ Classify \/ Emit \/ WriteFails
  <2>1. PhasesToCome' < PhasesToCome
    BY <1>2 DEF UnitsDone, InjectCrtSymbols, Abort, Fail, Classify, Emit, WriteFails, PhasesToCome
  <2> QED  BY <2>1, LaterPhase
<1>3. CASE Skip
  <2>1. pc = "scan" /\ pc' = "scan" /\ k' = k + 1 /\ k <= Len(members) /\ UNCHANGED scan
    BY <1>3 DEF Skip, AtMember
  <2>2. /\ Len(members) + 1 - k \in Nat
        /\ ToDo = <<4, Cardinality(DOMAIN members \ extracted), IF changed THEN 1 ELSE 0, Len(members) + 1 - k>>
    BY <2>1, ToDoByPhase
  <2>3. ToDo' = <<4, Cardinality(DOMAIN members \ extracted), IF changed THEN 1 ELSE 0, Len(members) + 1 - k'>>
    BY <2>1 DEF ToDo, PhasesToCome, scan
  <2>4. Len(members) + 1 - k' \in Nat /\ Len(members) + 1 - k' < Len(members) + 1 - k
    BY <1>0, <2>1
  <2>5. Cardinality(DOMAIN members \ extracted) \in Nat
    BY MembersLeft
  <2>6. (IF changed THEN 1 ELSE 0) \in Nat
    OBVIOUS
  <2>7. Below(<<4, Cardinality(DOMAIN members \ extracted), IF changed THEN 1 ELSE 0, Len(members) + 1 - k'>>,
              <<4, Cardinality(DOMAIN members \ extracted), IF changed THEN 1 ELSE 0, Len(members) + 1 - k>>)
    <3> DEFINE c == Cardinality(DOMAIN members \ extracted)
               d == IF changed THEN 1 ELSE 0
               e == Len(members) + 1 - k'
               f == Len(members) + 1 - k
    <3> HIDE DEF c, d, e, f
    <3>1. c \in Nat /\ d \in Nat /\ e \in Nat /\ f \in Nat /\ e < f
      BY <2>2, <2>4, <2>5, <2>6 DEF c, d, e, f
    <3>2. Below(<<4, c, d, e>>, <<4, c, d, f>>)
      BY <3>1, BelowAt
    <3> QED  BY <3>2 DEF c, d, e, f
  <2> QED  BY <2>2, <2>3, <2>7
<1>4. CASE Extract
  <2>1. /\ pc = "scan" /\ pc' = "scan" /\ k' = k + 1 /\ k <= Len(members)
        /\ k \notin extracted /\ extracted' = extracted \cup {k} /\ members' = members
    BY <1>4 DEF Extract, AtMember
  <2>2. k \in DOMAIN members \ extracted
    BY <1>0, <2>1 DEF TypeOK
  <2>3. ToDo[1] = 4 /\ ToDo'[1] = 4
    BY <2>1 DEF ToDo, PhasesToCome
  <2>4. /\ ToDo[2] = Cardinality(DOMAIN members \ extracted)
        /\ ToDo'[2] = Cardinality(DOMAIN members \ (extracted \cup {k}))
    BY <2>1 DEF ToDo
  <2>5. ToDo'[2] < ToDo[2]
    BY <2>2, <2>4, MembersLeft
  <2> QED  BY <2>3, <2>5 DEF Below
<1>5. CASE PassDone
  <2>1. CASE changed
    <3>1. /\ pc = "scan" /\ pc' = "scan" /\ changed' = FALSE /\ k' = 1
          /\ extracted' = extracted /\ members' = members
      BY <1>5, <2>1 DEF PassDone
    <3>2. /\ ToDo[1] = 4 /\ ToDo'[1] = 4 /\ ToDo[2] = ToDo'[2]
          /\ ToDo[3] = 1 /\ ToDo'[3] = 0
      BY <2>1, <3>1 DEF ToDo, PhasesToCome
    <3> QED  BY <3>2 DEF Below
  <2>2. CASE ~changed
    <3>1. PhasesToCome' < PhasesToCome
      BY <1>5, <2>2 DEF PassDone, PhasesToCome
    <3> QED  BY <3>1, LaterPhase
  <2> QED  BY <2>1, <2>2
<1>6. CASE Done
  BY <1>6 DEF Done
<1> QED  BY <1>1, <1>2, <1>3, <1>4, <1>5, <1>6 DEF Next

\* Every step leaves less to do in an order without infinite descent: the
\* passes over the archives end however the members refer to each other.
THEOREM EveryStepLeavesLess == Spec => LeavesLess
<1>1. TypeOK /\ TypeOK' /\ [Next]_vars => [Below(ToDo', ToDo) /\ ToDo \in [1..4 -> Nat]]_vars
  BY NextLeavesLess, ToDoByPhase
<1> QED  BY <1>1, TypeCorrect, PTL DEF Spec, LeavesLess
=============================================================================
