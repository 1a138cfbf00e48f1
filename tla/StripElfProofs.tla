--------------------------- MODULE StripElfProofs ---------------------------
(***************************************************************************)
(* Proofs about StripElf, for any input files and options: its invariants  *)
(* TypeOK, BytesKept, NoOverlap and LinksFollow.                           *)
(*                                                                         *)
(* The inductive invariant says of every header written so far what it was *)
(* made from, that the copied prefix and the pieces of the sections after  *)
(* it are in the buffer, in that order and apart, and that everything ends *)
(* before the end of the buffer.                                           *)
(***************************************************************************)
EXTENDS StripElf, FiniteSetTheorems, TLAPS

\* The output is under way or complete.
Started == pc \in {"place", "verify"} \/ result = "ok"

\* What a new header h keeps of the old one of section i.
Keeps(h, i) ==
  LET s == elf.secs[i] IN
  /\ h.kind = s.kind
  /\ h.alloc = s.alloc
  /\ h.size = s.size
  /\ s.alloc \/ s.kind = "null" => h.off = s.off
  /\ s.kind # "null" => h.link = Remap(s.link)
  /\ s.kind = "rela" => h.info = Remap(s.info)

HeadInv == \A i \in DOMAIN placed : Keeps(placed[i], i)

IsLoose(i) == ~elf.secs[i].alloc /\ Payload(elf.secs[i])
PieceOf(i) == [at |-> placed[i].off, from |-> elf.secs[i].off, size |-> elf.secs[i].size]

\* Where the bytes are.
PieceInv ==
  Started =>
    /\ [at |-> 0, from |-> 0, size |-> Prefix] \in pieces
    /\ \A i \in DOMAIN placed : IsLoose(i) => PieceOf(i) \in pieces /\ Prefix <= placed[i].off
    /\ \A i, j \in DOMAIN placed :
         i # j /\ IsLoose(i) /\ IsLoose(j) => Apart(placed[i], placed[j])

\* Where the buffer ends, and the header table starts.
End == IF pc = "place" THEN len ELSE table.shoff
EndInv == Started => \A p \in pieces : p.at + p.size <= End

TableInv ==
  /\ Started => elf.shstr \in Keep
  /\ pc = "verify" \/ result = "ok" => table.shstr = NewIndex(elf.shstr)

ControlInv ==
  /\ pc # "done" => result = "none"
  /\ pc = "start" => k = 0

IInv == TypeOK /\ elf \in Elfs /\ HeadInv /\ PieceInv /\ EndInv /\ TableInv /\ ControlInv
-----------------------------------------------------------------------------
(***************************************************************************)
(* Operators.                                                              *)
(***************************************************************************)

\* Padding never shortens the buffer.
LEMMA UpIsUp ==
  ASSUME NEW n \in Nat, NEW a \in Nat \ {0}
  PROVE  Up(n, a) \in Nat /\ n <= Up(n, a)
  <1>1. (-n) % a \in 0..(a - 1)
    OBVIOUS
  <1> QED
    BY <1>1 DEF Up

LEMMA ClampIsPositive ==
  ASSUME NEW a \in Nat
  PROVE  Clamp(a) \in Nat \ {0}
  BY DEF Clamp

LEMMA PadIsPositive == Pad \in Nat \ {0}
  BY DEF Pad

\* The maximum exists.
LEMMA PrefixType ==
  ASSUME IsElf(elf)
  PROVE  SegmentEnd \in Nat /\ Prefix \in Nat /\ Prefix <= SegmentEnd /\ Prefix <= elf.len
  <1>1. PICK m \in elf.ends : \A x \in elf.ends : x <= m
    BY DEF IsElf
  <1>2. m \in Nat /\ EhSize \in Nat /\ elf.ends \subseteq Nat /\ elf.len \in Nat
    BY <1>1 DEF IsElf, EhSize
  <1>3. \E n \in elf.ends \cup {EhSize} : \A e \in elf.ends \cup {EhSize} : e <= n
    <2>1. CASE m <= EhSize
      <3>1. \A e \in elf.ends \cup {EhSize} : e <= EhSize
        BY <1>1, <1>2, <2>1
      <3> QED
        BY <3>1
    <2>2. CASE EhSize <= m
      <3>1. \A e \in elf.ends \cup {EhSize} : e <= m
        BY <1>1, <1>2, <2>2
      <3> QED
        BY <1>1, <3>1
    <2> QED
      BY <1>2, <2>1, <2>2
  <1>4. SegmentEnd \in elf.ends \cup {EhSize}
    BY <1>3 DEF SegmentEnd
  <1> QED
    BY <1>2, <1>4 DEF Prefix

LEMMA KeepIsFinite ==
  ASSUME IsElf(elf)
  PROVE  /\ Keep \subseteq 0..(elf.n - 1)
         /\ \A i : IsFiniteSet({j \in Keep : j < i}) /\ NewIndex(i) \in Nat
  <1>1. elf.n - 1 \in Int
    BY DEF IsElf
  <1>2. IsFiniteSet(0..(elf.n - 1))
    BY <1>1, FS_Interval
  <1>3. Keep \subseteq 0..(elf.n - 1)
    BY DEF Keep, Sections
  <1>4. ASSUME NEW i PROVE IsFiniteSet({j \in Keep : j < i})
    BY <1>2, <1>3, FS_Subset
  <1> QED
    BY <1>3, <1>4, FS_CardinalityType DEF NewIndex

\* Two sections that stay have different new numbers.
LEMMA NewIndexIsInjective ==
  ASSUME IsElf(elf), NEW i \in Keep, NEW j \in Keep, i < j
  PROVE  NewIndex(i) # NewIndex(j)
  <1> DEFINE S == {x \in Keep : x < i}
             T == {x \in Keep : x < j}
  <1>1. Keep \subseteq Int /\ IsFiniteSet(T)
    BY SMTT(30), KeepIsFinite DEF IsElf
  <1>2. S \subseteq T
    <2>1. i \in Int /\ j \in Int
      BY <1>1
    <2>2. \A x \in Keep : x < i => x < j
      BY <1>1, <2>1
    <2> QED
      BY <2>2
  <1>3. i \in T /\ i \notin S
    BY <1>1
  <1>4. Cardinality(S) # Cardinality(T)
    BY <1>1, <1>2, <1>3, FS_Subset
  <1> QED
    BY <1>4 DEF NewIndex

LEMMA RenumberedIsInverse ==
  ASSUME IsElf(elf), NEW i \in Keep
  PROVE  Renumbered(NewIndex(i)) = i
  <1>1. Keep \subseteq Int
    BY KeepIsFinite DEF IsElf
  <1>2. \A j \in Keep : NewIndex(j) = NewIndex(i) => j = i
    <2> SUFFICES ASSUME NEW j \in Keep, j # i PROVE NewIndex(j) # NewIndex(i)
      OBVIOUS
    <2>1. i < j \/ j < i
      BY <1>1
    <2> QED
      BY <2>1, NewIndexIsInjective
  <1> QED
    BY <1>2 DEF Renumbered
-----------------------------------------------------------------------------
(***************************************************************************)
(* One header written.                                                     *)
(***************************************************************************)
LEMMA NothingMoves ==
  ASSUME UNCHANGED <<elf, opts>>
  PROVE  /\ Keep' = Keep /\ Prefix' = Prefix
         /\ \A i : NewIndex(i)' = NewIndex(i) /\ Remap(i)' = Remap(i)
         /\ \A i : IsLoose(i)' = IsLoose(i)
  <1>1. Keep' = Keep
    BY DEF Keep, Sections, Dropped
  <1>2. \A i : NewIndex(i)' = NewIndex(i)
    BY <1>1 DEF NewIndex
  <1>3. Prefix' = Prefix
    BY DEF Prefix, SegmentEnd, EhSize
  <1> QED
    BY <1>1, <1>2, <1>3 DEF Remap, IsLoose, Payload

LEMMA HeaderType ==
  ASSUME IsElf(elf), NEW i \in Keep, NEW off \in Nat
  PROVE  Header(i, off) \in Shdr
  <1>1. elf.secs[i] \in Shdr
    BY KeepIsFinite DEF IsElf
  <1>2. \A j : Remap(j) \in Nat
    BY KeepIsFinite DEF Remap
  <1> QED
    BY <1>1, <1>2 DEF Header, Shdr

LEMMA PutAddsOne ==
  ASSUME TypeOK, k \in Keep, NEW h \in Shdr, Put(h), UNCHANGED <<elf, opts>>
  PROVE  /\ placed' \in [{i \in Keep : i < k + 1} -> Shdr]
         /\ k' = k + 1 /\ k' \in 0..elf.n
         /\ DOMAIN placed' = DOMAIN placed \cup {k} /\ k \notin DOMAIN placed
         /\ placed'[k] = h /\ \A i \in DOMAIN placed : placed'[i] = placed[i]
  <1>1. Keep \subseteq 0..(elf.n - 1) /\ elf.n \in Nat /\ k \in 0..(elf.n - 1)
    BY KeepIsFinite DEF TypeOK, IsElf
  <1>2. DOMAIN placed = {i \in Keep : i < k}
    BY DEF TypeOK
  <1>3. {i \in Keep : i < k + 1} = DOMAIN placed \cup {k}
    <2>1. \A i \in Keep : i < k + 1 <=> (i < k \/ i = k)
      BY <1>1
    <2> QED
      BY <1>2, <2>1
  <1>4. k \notin DOMAIN placed
    BY <1>1, <1>2
  <1>5. \A i \in DOMAIN placed : placed[i] \in Shdr
    BY DEF TypeOK
  <1> QED
    BY <1>1, <1>3, <1>4, <1>5 DEF Put

\* What Header copies, and what it renumbers.
LEMMA HeaderFields ==
  ASSUME NEW i, NEW off
  PROVE  LET h == Header(i, off) IN
         /\ h.kind = elf.secs[i].kind /\ h.alloc = elf.secs[i].alloc
         /\ h.size = elf.secs[i].size /\ h.off = off
         /\ h.link = Remap(elf.secs[i].link)
         /\ elf.secs[i].kind = "rela" => h.info = Remap(elf.secs[i].info)
  BY DEF Header
-----------------------------------------------------------------------------
LEMMA InitIInv == Init => IInv
  <1> SUFFICES ASSUME Init PROVE IInv
    OBVIOUS
  <1>1. IsElf(elf) /\ elf \in Elfs
    BY ElfsAssumption DEF Init
  <1>2. placed \in [{i \in Keep : i < 0} -> Shdr] /\ DOMAIN placed = {}
    BY <1>1, KeepIsFinite DEF Init
  <1>3. TypeOK
    BY <1>1, <1>2 DEF Init, TypeOK, IsElf
  <1>4. ~Started
    BY DEF Init, Started
  <1> QED
    BY <1>1, <1>2, <1>3, <1>4 DEF IInv, Init, HeadInv, PieceInv, EndInv, TableInv, ControlInv

\* A step that writes no section.
LEMMA QuietStep ==
  ASSUME IInv, Reject \/ NothingToDrop \/ OutOfRange \/ Verify \/ Done \/ UNCHANGED vars
  PROVE  IInv'
  <1>1. UNCHANGED <<elf, opts, k, pieces, len, placed, table>>
    BY DEF Reject, NothingToDrop, OutOfRange, Verify, Done, vars
  <1>2. Started' => Started /\ (pc = "verify" \/ result = "ok" \/ UNCHANGED <<pc, result>>)
    BY DEF Reject, NothingToDrop, OutOfRange, Verify, Done, vars, Return, Started
  <1>3. (pc' = "verify" \/ result' = "ok") => (pc = "verify" \/ result = "ok")
    BY DEF Reject, NothingToDrop, OutOfRange, Verify, Done, vars, Return
  <1>4. /\ pc' \in {"start", "place", "verify", "done"}
        /\ result' \in {"none", "same", "ok", "err"}
        /\ ControlInv'
    BY <1>1 DEF IInv, TypeOK, ControlInv, Reject, NothingToDrop, OutOfRange, Verify, Done,
                vars, Return
  <1>5. Started' => End' = End
    <2>1. result = "ok" => pc = "done"
      BY DEF IInv, ControlInv, TypeOK
    <2>2. pc' = "place" => pc = "place"
      BY DEF Reject, NothingToDrop, OutOfRange, Verify, Done, vars, Return
    <2>3. Started' /\ pc = "place" => pc' = "place"
      BY <1>2, <2>1
    <2> QED
      BY <1>1, <2>2, <2>3 DEF End
  <1>6. TypeOK'
    BY <1>1, <1>4, NothingMoves DEF IInv, TypeOK
  <1>7. HeadInv'
    BY <1>1, NothingMoves DEF IInv, HeadInv, Keeps
  <1>8. PieceInv'
    BY <1>1, <1>2, NothingMoves DEF IInv, PieceInv, PieceOf, Apart, Payload
  <1>9. EndInv'
    BY <1>1, <1>2, <1>5 DEF IInv, EndInv
  <1>10. TableInv'
    BY <1>1, <1>2, <1>3, NothingMoves DEF IInv, TableInv
  <1> QED
    BY <1>1, <1>4, <1>6, <1>7, <1>8, <1>9, <1>10 DEF IInv
-----------------------------------------------------------------------------
LEMMA CopyPrefixStep ==
  ASSUME IInv, CopyPrefix
  PROVE  IInv'
  <1> DEFINE p == [at |-> 0, from |-> 0, size |-> Prefix]
  <1>1. pc = "start" /\ pc' = "place" /\ UNCHANGED <<elf, opts, k, placed, table, result>>
    BY DEF CopyPrefix, Startable
  <1>2. IsElf(elf) /\ k = 0 /\ result = "none"
    BY <1>1 DEF IInv, TypeOK, ControlInv
  <1>3. Prefix \in Nat /\ len' = Up(Prefix, Pad) /\ len' \in Nat /\ Prefix <= len'
    BY <1>2, PrefixType, PadIsPositive, UpIsUp DEF CopyPrefix
  <1>4. pieces' = {p} /\ p \in Piece
    BY <1>3 DEF CopyPrefix, Piece
  <1>5. DOMAIN placed = {}
    <2>1. DOMAIN placed = {i \in Keep : i < 0}
      BY <1>2 DEF IInv, TypeOK
    <2>2. \A i \in Keep : i \in Int /\ ~(i < 0)
      BY <1>2, KeepIsFinite DEF IsElf
    <2> QED
      BY <2>1, <2>2
  <1>6. TypeOK'
    BY <1>1, <1>3, <1>4, NothingMoves DEF IInv, TypeOK
  <1>7. HeadInv' /\ PieceInv'
    BY <1>1, <1>4, <1>5, NothingMoves DEF HeadInv, PieceInv
  <1>8. EndInv'
    BY <1>1, <1>3, <1>4 DEF EndInv, End
  <1>9. TableInv' /\ ControlInv'
    BY <1>1, <1>2, NothingMoves DEF TableInv, ControlInv, CopyPrefix
  <1> QED
    BY <1>1, <1>6, <1>7, <1>8, <1>9 DEF IInv

LEMMA DropStep ==
  ASSUME IInv, Drop
  PROVE  IInv'
  <1>1. /\ pc = "place" /\ k \in Sections /\ k \notin Keep /\ k' = k + 1
        /\ UNCHANGED <<elf, opts, pc, pieces, len, placed, table, result>>
    BY DEF Drop, At
  <1>2. IsElf(elf) /\ Keep \subseteq 0..(elf.n - 1) /\ elf.n \in Nat /\ k \in 0..(elf.n - 1)
    BY <1>1, KeepIsFinite DEF IInv, TypeOK, IsElf, Sections
  <1>3. {i \in Keep : i < k + 1} = {i \in Keep : i < k} /\ k' \in 0..elf.n
    <2>1. \A i \in Keep : i \in Int /\ i # k
      BY <1>1, <1>2
    <2>2. \A i \in Keep : i < k + 1 <=> i < k
      BY <1>2, <2>1
    <2>3. k + 1 \in 0..elf.n
      BY <1>2
    <2> QED
      BY <1>1, <2>2, <2>3
  <1>4. TypeOK'
    BY <1>1, <1>3, NothingMoves DEF IInv, TypeOK
  <1>5. HeadInv' /\ PieceInv' /\ EndInv'
    BY <1>1, NothingMoves
    DEF IInv, HeadInv, Keeps, PieceInv, EndInv, Started, End, PieceOf, Apart, Payload
  <1>6. TableInv' /\ ControlInv'
    BY <1>1, NothingMoves DEF IInv, TableInv, ControlInv, Started
  <1> QED
    BY <1>1, <1>4, <1>5, <1>6 DEF IInv

\* A header that goes with no piece.
LEMMA PutBareStep ==
  ASSUME IInv, At(TRUE), ~IsLoose(k), NEW h \in Shdr, Put(h),
         UNCHANGED <<elf, opts, pc, pieces, len, table, result>>, Keeps(h, k)
  PROVE  IInv'
  <1>1. pc = "place" /\ k \in Keep /\ TypeOK
    BY DEF At, IInv
  <1>2. /\ placed' \in [{i \in Keep : i < k + 1} -> Shdr]
        /\ k' = k + 1 /\ k' \in 0..elf.n
        /\ DOMAIN placed' = DOMAIN placed \cup {k} /\ k \notin DOMAIN placed
        /\ placed'[k] = h /\ \A i \in DOMAIN placed : placed'[i] = placed[i]
    BY <1>1, PutAddsOne
  <1>3. TypeOK'
    BY <1>1, <1>2, NothingMoves DEF TypeOK
  <1>4. HeadInv'
    BY <1>2, NothingMoves DEF IInv, HeadInv, Keeps
  <1>5. \A i \in DOMAIN placed' : IsLoose(i) => i \in DOMAIN placed
    BY <1>2
  <1>6. PieceInv'
    <2>1. Started' = Started
      BY DEF Started
    <2> QED
      BY <1>2, <1>5, <2>1, NothingMoves DEF IInv, PieceInv, PieceOf, Apart, Payload
  <1>7. EndInv' /\ TableInv' /\ ControlInv'
    BY <1>1, NothingMoves DEF IInv, EndInv, End, TableInv, ControlInv, Started
  <1> QED
    BY <1>3, <1>4, <1>6, <1>7 DEF IInv

LEMMA PutLooseStep ==
  ASSUME IInv, PutLoose
  PROVE  IInv'
  <1> DEFINE at == Up(len, Clamp(Sec.align))
             h == Header(k, at)
             p == [at |-> at, from |-> Sec.off, size |-> Sec.size]
  <1>1. /\ pc = "place" /\ k \in Keep /\ TypeOK /\ Put(h)
        /\ pieces' = pieces \cup {p} /\ len' = at + Sec.size
        /\ UNCHANGED <<elf, opts, pc, table, result>>
        /\ Sec.kind # "null" /\ ~Sec.alloc /\ Payload(Sec)
    BY DEF PutLoose, Loose, At, IInv
  <1>2. IsElf(elf) /\ Sec \in Shdr /\ len \in Nat /\ Prefix \in Nat
    BY <1>1, KeepIsFinite, PrefixType DEF TypeOK, IsElf, Sec
  <1>3. at \in Nat /\ len <= at
    BY <1>2, ClampIsPositive, UpIsUp DEF Shdr
  <1>4. p \in Piece /\ h \in Shdr /\ Sec.size \in Nat
    BY <1>1, <1>2, <1>3, HeaderType DEF Piece, Shdr
  <1>5. /\ placed' \in [{i \in Keep : i < k + 1} -> Shdr]
        /\ k' = k + 1 /\ k' \in 0..elf.n
        /\ DOMAIN placed' = DOMAIN placed \cup {k} /\ k \notin DOMAIN placed
        /\ placed'[k] = h /\ \A i \in DOMAIN placed : placed'[i] = placed[i]
    BY <1>1, <1>4, PutAddsOne
  <1>6. TypeOK'
    BY <1>1, <1>3, <1>4, <1>5, NothingMoves DEF TypeOK
  <1>7. /\ h.kind = elf.secs[k].kind /\ h.alloc = elf.secs[k].alloc /\ h.size = elf.secs[k].size
        /\ h.off = at /\ h.link = Remap(elf.secs[k].link)
        /\ elf.secs[k].kind = "rela" => h.info = Remap(elf.secs[k].info)
    BY HeaderFields
  <1>8. HeadInv'
    <2>1. UNCHANGED elf /\ \A i : Remap(i)' = Remap(i)
      BY <1>1, NothingMoves
    <2>2. Keeps(h, k) /\ \A i \in DOMAIN placed : Keeps(placed[i], i)
      BY <1>1, <1>7 DEF IInv, HeadInv, Keeps, Sec
    <2>3. \A i \in DOMAIN placed' : Keeps(placed'[i], i)
      <3> HIDE DEF h
      <3> QED
        BY <1>5, <2>2
    <2> QED
      BY <2>1, <2>3 DEF HeadInv, Keeps
  <1>9. Started /\ Started'
    BY <1>1 DEF Started
  <1>10. \A q \in pieces : q.at + q.size <= len
    BY <1>1, <1>9 DEF IInv, EndInv, End
  <1>11. EndInv'
    <2>1. \A q \in pieces : q \in Piece
      BY <1>1 DEF TypeOK
    <2>2. \A q \in pieces : q.at + q.size <= at + Sec.size
      BY <1>2, <1>3, <1>4, <1>10, <2>1 DEF Piece
    <2> QED
      BY <1>1, <1>3, <1>4, <2>2 DEF EndInv, End
  <1>12. [at |-> 0, from |-> 0, size |-> Prefix] \in pieces /\ Prefix <= len
    BY <1>2, <1>9, <1>10 DEF IInv, PieceInv
  <1>13. ASSUME NEW i \in DOMAIN placed, IsLoose(i)
         PROVE  /\ placed[i].off + placed[i].size <= at
                /\ PieceOf(i) \in pieces /\ Prefix <= placed[i].off
    <2>1. PieceOf(i) \in pieces /\ Prefix <= placed[i].off /\ placed[i].size = elf.secs[i].size
      BY <1>9, <1>13 DEF IInv, PieceInv, HeadInv, Keeps
    <2>2. placed[i] \in Shdr
      BY <1>1 DEF TypeOK
    <2> QED
      BY <1>2, <1>3, <1>10, <2>1, <2>2 DEF PieceOf, Shdr
  <1>14. PieceInv'
    <2>1. ASSUME NEW i \in DOMAIN placed', IsLoose(i)
          PROVE  PieceOf(i)' \in pieces' /\ Prefix <= placed'[i].off
      <3>1. CASE i = k
        <4>1. placed'[k].off = at /\ elf' = elf /\ Prefix <= at
          BY <1>1, <1>2, <1>3, <1>5, <1>7, <1>12
        <4>2. PieceOf(i)' = p
          BY <3>1, <4>1 DEF PieceOf, Sec
        <4> QED
          BY <1>1, <3>1, <4>1, <4>2
      <3>2. CASE i \in DOMAIN placed
        BY <1>1, <1>5, <1>13, <2>1, <3>2 DEF PieceOf
      <3> QED
        BY <1>5, <3>1, <3>2
    <2>2. ASSUME NEW i \in DOMAIN placed, IsLoose(i)
          PROVE  Apart(placed[i], h) /\ Apart(h, placed[i])
      BY <1>7, <1>13, <2>2 DEF Apart
    <2>3. ASSUME NEW i \in DOMAIN placed', NEW j \in DOMAIN placed', i # j, IsLoose(i), IsLoose(j)
          PROVE  Apart(placed'[i], placed'[j])
      <3>1. CASE i = k
        BY <1>5, <2>2, <2>3, <3>1
      <3>2. CASE j = k
        BY <1>5, <2>2, <2>3, <3>2
      <3>3. CASE i \in DOMAIN placed /\ j \in DOMAIN placed
        BY <1>5, <1>9, <2>3, <3>3 DEF IInv, PieceInv
      <3> QED
        BY <1>5, <3>1, <3>2, <3>3
    <2>4. \A i, j : Apart(placed[i], placed[j])' = Apart(placed'[i], placed'[j])
      BY DEF Apart, Payload
    <2> QED
      BY <1>1, <1>12, <2>1, <2>3, <2>4, NothingMoves DEF PieceInv
  <1>15. TableInv' /\ ControlInv'
    BY <1>1, <1>9, NothingMoves DEF IInv, TableInv, ControlInv
  <1> QED
    BY <1>1, <1>6, <1>8, <1>11, <1>14, <1>15 DEF IInv

LEMMA FinishStep ==
  ASSUME IInv, Finish
  PROVE  IInv'
  <1>1. /\ pc = "place" /\ pc' = "verify" /\ TypeOK
        /\ UNCHANGED <<elf, opts, k, pieces, placed, result>>
        /\ table' = [shoff |-> Up(len, Pad), shstr |-> NewIndex(elf.shstr)]
        /\ len' = Up(len, Pad) + Cardinality(DOMAIN placed) * ShEnt
    BY DEF Finish, IInv
  <1>2. IsElf(elf) /\ len \in Nat /\ Up(len, Pad) \in Nat /\ len <= Up(len, Pad)
    BY <1>1, PadIsPositive, UpIsUp DEF TypeOK
  <1>3. NewIndex(elf.shstr) \in Nat /\ Cardinality(DOMAIN placed) \in Nat
    <2>1. DOMAIN placed = {i \in Keep : i < k}
      BY <1>1 DEF TypeOK
    <2> QED
      BY <1>2, <2>1, KeepIsFinite, FS_CardinalityType
  <1>4. len' \in Nat
    <2>1. ShEnt \in Nat
      BY DEF ShEnt
    <2> QED
      BY <1>1, <1>2, <1>3, <2>1
  <1>5. TypeOK'
    BY <1>1, <1>2, <1>3, <1>4, NothingMoves DEF TypeOK
  <1>6. Started /\ Started'
    BY <1>1 DEF Started
  <1>7. HeadInv' /\ PieceInv'
    BY <1>1, <1>6, NothingMoves DEF IInv, HeadInv, Keeps, PieceInv, PieceOf, Apart, Payload
  <1>8. EndInv'
    <2>1. \A q \in pieces : q \in Piece /\ q.at + q.size <= len
      BY <1>1, <1>6 DEF IInv, EndInv, End, TypeOK
    <2>2. \A q \in pieces : q.at + q.size <= Up(len, Pad)
      BY <1>2, <2>1 DEF Piece
    <2> QED
      BY <1>1, <2>2 DEF EndInv, End
  <1>9. TableInv' /\ ControlInv'
    BY <1>1, <1>6, NothingMoves DEF IInv, TableInv, ControlInv
  <1> QED
    BY <1>1, <1>5, <1>7, <1>8, <1>9 DEF IInv
-----------------------------------------------------------------------------
LEMMA NextIInv == IInv /\ [Next]_vars => IInv'
  <1> SUFFICES ASSUME IInv, [Next]_vars PROVE IInv'
    OBVIOUS
  <1>1. CASE Reject \/ NothingToDrop \/ OutOfRange \/ Verify \/ Done \/ UNCHANGED vars
    BY <1>1, QuietStep
  <1>2. CASE CopyPrefix
    BY <1>2, CopyPrefixStep
  <1>3. CASE Drop
    BY <1>3, DropStep
  <1>4. CASE Finish
    BY <1>4, FinishStep
  <1>5. CASE PutLoose
    BY <1>5, PutLooseStep
  <1>6. ASSUME At(TRUE) PROVE IsElf(elf) /\ k \in Keep /\ Sec \in Shdr /\ len \in Nat
    BY <1>6, KeepIsFinite DEF At, Sec, IInv, TypeOK, IsElf
  <1>7. CASE PutNull
    <2>1. At(TRUE) /\ ~IsLoose(k) /\ Keeps(Sec, k) /\ Put(Sec)
          /\ UNCHANGED <<elf, opts, pc, pieces, len, table, result>>
      BY <1>7 DEF PutNull, IsLoose, Sec, Payload, Keeps
    <2> QED
      BY <1>6, <2>1, PutBareStep
  <1>8. CASE PutLoaded
    <2>1. At(TRUE) /\ ~IsLoose(k) /\ Put(Header(k, Sec.off))
          /\ UNCHANGED <<elf, opts, pc, pieces, len, table, result>>
      BY <1>8 DEF PutLoaded, IsLoose, Sec
    <2>2. Header(k, Sec.off) \in Shdr
      BY <1>6, <2>1, HeaderType DEF Shdr
    <2>3. Keeps(Header(k, Sec.off), k)
      BY ZenonT(30), <1>8, HeaderFields DEF PutLoaded, Keeps, Sec
    <2> QED
      BY <2>1, <2>2, <2>3, PutBareStep
  <1>9. CASE PutEmpty
    <2>1. At(TRUE) /\ ~IsLoose(k) /\ Put(Header(k, len))
          /\ UNCHANGED <<elf, opts, pc, pieces, len, table, result>>
      BY <1>9 DEF PutEmpty, Loose, IsLoose, Sec
    <2>2. Header(k, len) \in Shdr
      BY <1>6, <2>1, HeaderType
    <2>3. Keeps(Header(k, len), k)
      BY <1>9, HeaderFields DEF PutEmpty, Loose, Keeps, Sec
    <2> QED
      BY <2>1, <2>2, <2>3, PutBareStep
  <1> QED
    BY <1>1, <1>2, <1>3, <1>4, <1>5, <1>7, <1>8, <1>9 DEF Next

\* The inductive invariant.
THEOREM SpecIInv == Spec => []IInv
  BY InitIInv, NextIInv, PTL DEF Spec

\* The type invariant of strip_elf_common.
THEOREM TypeCorrect == Spec => []TypeOK
  <1>1. IInv => TypeOK
    BY DEF IInv
  <1> QED
    BY <1>1, SpecIInv, PTL
-----------------------------------------------------------------------------
LEMMA LoadedInPrefix ==
  ASSUME IInv, Segmented, NEW i \in DOMAIN placed, elf.secs[i].alloc, Payload(elf.secs[i])
  PROVE  /\ placed[i].off = elf.secs[i].off
         /\ placed[i].off + placed[i].size <= Prefix /\ placed[i] \in Shdr
  <1>1. placed[i] \in Shdr /\ i \in Sections
    BY DEF IInv, TypeOK, Keep
  <1>2. placed[i].off = elf.secs[i].off /\ placed[i].size = elf.secs[i].size
    BY DEF IInv, HeadInv, Keeps
  <1> QED
    BY <1>1, <1>2 DEF Segmented, Prefix

\* Every section that is left has its bytes where its header says: what is
\* loaded in the copied prefix, the rest in a piece of its own.
LEMMA BytesKeptHolds == IInv => BytesKept
  <1> SUFFICES ASSUME IInv, result = "ok", Segmented, NEW i \in DOMAIN placed,
                      Payload(elf.secs[i])
               PROVE  Holds(placed[i].off, elf.secs[i].off, elf.secs[i].size)
    BY DEF BytesKept, AllHeld
  <1>1. Started
    BY DEF Started
  <1>2. elf.secs[i] \in Shdr /\ placed[i] \in Shdr /\ placed[i].size = elf.secs[i].size
    BY KeepIsFinite DEF IInv, TypeOK, HeadInv, Keeps, IsElf
  <1>3. CASE elf.secs[i].alloc
    <2> DEFINE p == [at |-> 0, from |-> 0, size |-> Prefix]
    <2>1. p \in pieces /\ Prefix \in Nat
      BY <1>1, PrefixType DEF IInv, PieceInv, TypeOK
    <2>2. placed[i].off = elf.secs[i].off /\ placed[i].off + placed[i].size <= Prefix
      BY <1>3, LoadedInPrefix
    <2>3. /\ p.at <= placed[i].off /\ placed[i].off + elf.secs[i].size <= p.at + p.size
          /\ p.from - p.at = elf.secs[i].off - placed[i].off
      BY <1>2, <2>1, <2>2 DEF Shdr
    <2> QED
      BY <2>1, <2>3 DEF Holds
  <1>4. CASE ~elf.secs[i].alloc
    <2> DEFINE p == PieceOf(i)
    <2>1. p \in pieces
      BY <1>1, <1>4 DEF IInv, PieceInv, IsLoose
    <2>2. /\ p.at <= placed[i].off /\ placed[i].off + elf.secs[i].size <= p.at + p.size
          /\ p.from - p.at = elf.secs[i].off - placed[i].off
      BY <1>2 DEF Shdr, PieceOf
    <2> QED
      BY <2>1, <2>2 DEF Holds
  <1> QED
    BY <1>3, <1>4

\* oxide-strip of an executable or shared object never loses or moves the
\* bytes of a section that it keeps, whatever it drops.
THEOREM KeptBytes == Spec => []BytesKept
  BY BytesKeptHolds, SpecIInv, PTL

LEMMA NoOverlapHolds == IInv => NoOverlap
  <1> SUFFICES ASSUME IInv, result = "ok", Segmented PROVE NoOverlap
    BY DEF NoOverlap
  <1>1. Started /\ End = table.shoff
    BY DEF Started, End, IInv, ControlInv, TypeOK
  <1>2. \A p \in pieces : p.at + p.size <= table.shoff
    BY <1>1 DEF IInv, EndInv
  <1>3. Prefix \in Nat /\ table.shoff \in Nat /\ Prefix <= table.shoff
    <2>1. [at |-> 0, from |-> 0, size |-> Prefix] \in pieces /\ Prefix \in Nat
      BY <1>1, PrefixType DEF IInv, PieceInv, TypeOK
    <2> QED
      BY <1>2, <2>1 DEF IInv, TypeOK
  <1>4. ASSUME NEW i \in DOMAIN placed
        PROVE  /\ placed[i] \in Shdr /\ elf.secs[i] \in Shdr
               /\ placed[i].size = elf.secs[i].size
               /\ Payload(placed[i]) = Payload(elf.secs[i])
    BY KeepIsFinite DEF IInv, TypeOK, HeadInv, Keeps, IsElf, Payload
  <1>5. ASSUME NEW i \in DOMAIN placed, IsLoose(i)
        PROVE  /\ Prefix <= placed[i].off
               /\ placed[i].off + placed[i].size <= table.shoff
    <2>1. PieceOf(i) \in pieces /\ Prefix <= placed[i].off
      BY <1>1, <1>5 DEF IInv, PieceInv
    <2> QED
      BY <1>2, <1>4, <2>1 DEF PieceOf
  <1>6. ASSUME NEW i \in DOMAIN placed, Payload(placed[i])
        PROVE  placed[i].off + placed[i].size <= table.shoff
    <2>1. CASE IsLoose(i)
      BY <1>5, <2>1
    <2>2. CASE ~IsLoose(i)
      <3>1. elf.secs[i].alloc /\ Payload(elf.secs[i])
        BY <1>4, <1>6, <2>2 DEF IsLoose
      <3> QED
        BY <1>3, <3>1, LoadedInPrefix DEF Shdr
    <2> QED
      BY <2>1, <2>2
  <1>7. ASSUME NEW i \in DOMAIN placed, NEW j \in DOMAIN placed, i # j,
               Apart(elf.secs[i], elf.secs[j])
        PROVE  Apart(placed[i], placed[j])
    <2> SUFFICES ASSUME Payload(elf.secs[i]), Payload(elf.secs[j]) PROVE Apart(placed[i], placed[j])
      BY <1>4 DEF Apart
    <2>1. CASE IsLoose(i) /\ IsLoose(j)
      BY <1>1, <1>7, <2>1 DEF IInv, PieceInv
    <2>2. CASE ~IsLoose(i) /\ ~IsLoose(j)
      <3>1. placed[i].off = elf.secs[i].off /\ placed[j].off = elf.secs[j].off
        BY <2>2, LoadedInPrefix DEF IsLoose
      <3> QED
        BY <1>4, <1>7, <3>1 DEF Apart
    <2>3. CASE ~IsLoose(i) /\ IsLoose(j)
      <3>1. placed[i].off + placed[i].size <= Prefix /\ Prefix <= placed[j].off
        BY <1>5, <2>3, LoadedInPrefix DEF IsLoose
      <3>2. placed[i].off + placed[i].size <= placed[j].off
        BY <1>3, <1>4, <3>1 DEF Shdr
      <3> QED
        BY <3>2 DEF Apart
    <2>4. CASE IsLoose(i) /\ ~IsLoose(j)
      <3>1. placed[j].off + placed[j].size <= Prefix /\ Prefix <= placed[i].off
        BY <1>5, <2>4, LoadedInPrefix DEF IsLoose
      <3>2. placed[j].off + placed[j].size <= placed[i].off
        BY <1>3, <1>4, <3>1 DEF Shdr
      <3> QED
        BY <3>2 DEF Apart
    <2> QED
      BY <2>1, <2>2, <2>3, <2>4
  <1> QED
    BY <1>2, <1>6, <1>7 DEF NoOverlap

\* Neither a section nor a segment is overwritten by another section or by the
\* header table.
THEOREM Disjoint == Spec => []NoOverlap
  BY NoOverlapHolds, SpecIInv, PTL

LEMMA LinksFollowHolds == IInv => LinksFollow
  <1> SUFFICES ASSUME IInv, result = "ok" PROVE LinksFollow
    BY DEF LinksFollow
  <1>1. IsElf(elf) /\ elf.shstr \in Keep /\ table.shstr = NewIndex(elf.shstr)
    BY DEF IInv, TableInv, TypeOK, Started
  <1>2. \A i : IF i \in Keep THEN Renumbered(Remap(i)) = i ELSE Remap(i) = 0
    BY <1>1, RenumberedIsInverse DEF Remap
  <1> QED
    BY <1>1, <1>2, RenumberedIsInverse DEF LinksFollow, IInv, HeadInv, Keeps

\* The renumbering is the same everywhere: each section number in the output
\* names the section it named in the input.
THEOREM Links == Spec => []LinksFollow
  BY LinksFollowHolds, SpecIInv, PTL
=============================================================================
