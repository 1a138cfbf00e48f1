---------------------------- MODULE ArLayoutProofs ----------------------------
(***************************************************************************)
(* Proofs about ArLayout: what a reader finds in the file that to_bytes    *)
(* writes, for members of any number, names and sizes, those included that *)
(* are too long for the size field.                                        *)
(***************************************************************************)
EXTENDS ArLayout, FiniteSetTheorems, WellFoundedInduction, TLAPS

-----------------------------------------------------------------------------
(***************************************************************************)
(* The inductive invariant: where everything is, during every loop.        *)
(***************************************************************************)

\* Where the members start in the body: behind the table of long names.
Start == IF strtab.len = 0 THEN 0 ELSE EvenUp(HeaderSize(strtab.len) + strtab.len)

\* Where the body starts in the file.
BaseOf == IF indexed THEN EvenUp(MagicLen + HeaderSize(PayloadLen) + PayloadLen) ELSE MagicLen

\* Where member i starts in the body; at the end, where the body ends.
NextAt(i) == IF i \in DOMAIN offsets THEN offsets[i] ELSE body.len

\* The field of a name is the name, or the position of the name in the table,
\* where no other is.
FieldFor(i) ==
  IF Inline(ms[i].name) THEN fields[i] = [kind |-> "inline", name |-> ms[i].name]
  ELSE \E o \in 0..(strtab.len - 1) :
         /\ fields[i] = [kind |-> "long", off |-> o]
         /\ [at |-> o, what |-> ms[i].name] \in strtab.data
         /\ \A d \in strtab.data : d.at = o => d.what = ms[i].name

NamesInv ==
  /\ strtab.len \in Nat
  /\ \A d \in strtab.data : d \in [at : Nat, what : Names] /\ d.at < strtab.len
  /\ fields \in Seq(NameFieldType)
  /\ Len(fields) = IF pc = "names" THEN k - 1 ELSE Len(ms)
  /\ \A i \in DOMAIN fields : FieldFor(i)

TableHeader == [at |-> 0, field |-> [kind |-> "//"], size |-> strtab.len]
MemberHeader(i) == [at |-> offsets[i], field |-> fields[i], size |-> ms[i].size]
MemberData(i) == [at |-> offsets[i] + HeaderSize(ms[i].size), what |-> i]

\* The members one behind the other.
BodyInv ==
  /\ offsets \in Seq(Nat) /\ body.len \in Nat
  /\ pc = "names" => offsets = <<>> /\ body = Empty
  /\ pc = "body" => Len(offsets) = k - 1
  /\ pc \in {"read", "done", "failed"} => Len(offsets) = Len(ms)
  /\ pc # "names" =>
       /\ NextAt(1) = Start
       /\ \A i \in DOMAIN offsets : NextAt(i + 1) = EvenUp(NextAt(i) + HeaderSize(ms[i].size) + ms[i].size)
       /\ \A i \in DOMAIN offsets, j \in 1..Len(offsets) + 1 :
            i < j => NextAt(i) + HeaderSize(ms[i].size) <= NextAt(j)
       /\ body.hdr = (IF strtab.len = 0 THEN {} ELSE {TableHeader})
                       \cup {MemberHeader(i) : i \in DOMAIN offsets}
       /\ body.data = MoveData(strtab.data, HeaderSize(strtab.len)) \cup {MemberData(i) : i \in DOMAIN offsets}

IndexHeader == [at |-> MagicLen, field |-> [kind |-> "/"], size |-> PayloadLen]

\* The file is the index and the body.
OutInv ==
  /\ pc \in {"names", "body"} =>
       /\ out = [Empty EXCEPT !.len = MagicLen]
       /\ pos = MagicLen /\ table = 0 /\ got = <<>>
  /\ pc \in {"read", "done", "failed"} =>
       /\ out.len = BaseOf + body.len
       /\ out.hdr = (IF indexed THEN {IndexHeader} ELSE {}) \cup MoveHdr(body.hdr, BaseOf)
       /\ out.data = MoveData(body.data, BaseOf)
       /\ indexed => index = [s \in Defined |-> (BodyBase + offsets[First(s)]) % Wrap]

\* What the reader has read fits its fields.
IndexPassed == indexed => Fits(PayloadLen)

\* The reader is at the index, at the table of long names, or at a member whose
\* predecessors it has found and behind the table that it needs.
ReadInv ==
  /\ table \in Nat
  /\ \A j \in DOMAIN got :
       /\ j \in DOMAIN ms
       /\ got[j] = [name |-> {ms[j].name}, size |-> ms[j].size, data |-> {j}]
       /\ Fits(ms[j].size)
  /\ got \in Seq([name : SUBSET Names, size : Nat, data : SUBSET Nat])
  /\ pc \in {"read", "done", "failed"} =>
       \/ got = <<>> /\ pos = MagicLen /\ indexed
       \/ IndexPassed /\ got = <<>> /\ pos = BaseOf /\ strtab.len # 0
       \/ /\ Len(got) <= Len(ms)
          /\ pos = BaseOf + NextAt(Len(got) + 1)
          /\ IndexPassed
          /\ strtab.len # 0 => table = BaseOf + HeaderLen /\ Fits(strtab.len)
  /\ pc = "done" => Len(got) = Len(ms) /\ ~Oversized
  /\ pc = "failed" => Oversized

Basics ==
  /\ ms \in Seq(Member) /\ indexed \in BOOLEAN
  /\ pc \in {"names", "body", "read", "done", "failed"} /\ k \in 1..Len(ms) + 1

IInv == Basics /\ NamesInv /\ BodyInv /\ OutInv /\ ReadInv
-----------------------------------------------------------------------------
(***************************************************************************)
(* Arithmetic and buffers.                                                 *)
(***************************************************************************)

\* Padding.
LEMMA Even ==
  /\ \A n \in Nat : EvenUp(n) \in Nat /\ n <= EvenUp(n) /\ EvenUp(n) % 2 = 0
  /\ \A b, n \in Nat : b % 2 = 0 => EvenUp(b + n) = b + EvenUp(n)
BY DEF EvenUp

\* A header is as long as its fields, or longer.
LEMMA SizeFacts ==
  ASSUME NEW n \in Nat
  PROVE  /\ HeaderSize(n) \in Nat /\ HeaderLen <= HeaderSize(n)
         /\ Fits(n) => HeaderSize(n) = HeaderLen
<1> DEFINE P == {p \in Overlong : p <= n}
<1>1. IsFiniteSet(P) /\ Cardinality(P) \in Nat
  BY OverlongAssumption, FS_Subset, FS_CardinalityType
<1>2. Fits(n) => P = {}
  <2> SUFFICES ASSUME Fits(n), NEW p \in P PROVE FALSE
    OBVIOUS
  <2>1. p \in Overlong /\ p \in Nat /\ p <= n
    BY OverlongAssumption
  <2> QED  BY <2>1 DEF Fits
<1>3. Fits(n) => Cardinality(P) = 0
  BY <1>2, FS_EmptySet
<1>4. HeaderSize(n) = HeaderLen + Cardinality(P)
  BY Zenon DEF HeaderSize
<1> HIDE DEF P
<1> QED  BY <1>1, <1>3, <1>4 DEF HeaderLen

\* No table is not too long.
LEMMA NothingFits == Fits(0) /\ HeaderSize(0) = HeaderLen
BY OverlongAssumption, SizeFacts DEF Fits

\* The symbol index has a length, and the body starts behind it.
LEMMA BaseFacts ==
  ASSUME ms \in Seq(Member), indexed \in BOOLEAN
  PROVE  /\ PayloadLen \in Nat /\ BaseOf \in Nat /\ BaseOf % 2 = 0
         /\ MagicLen <= BaseOf
         /\ indexed => /\ MagicLen + HeaderLen <= BaseOf
                       /\ BaseOf = EvenUp(MagicLen + HeaderSize(PayloadLen) + PayloadLen)
                       /\ IndexPassed => BaseOf = BodyBase
<1>1. Defined \in SUBSET Symbols
  <2>1. \A i \in DOMAIN ms : ms[i] \in Member
    OBVIOUS
  <2>2. \A i \in DOMAIN ms : ms[i].defs \in SUBSET Symbols
    BY <2>1 DEF Member
  <2> QED  BY <2>2 DEF Defined
<1>2. Cardinality(Defined) \in Nat /\ BlobLen[Defined] \in Nat
  BY <1>1, SymbolAssumption, FS_Subset, FS_CardinalityType
<1>3. PayloadLen \in Nat
  BY <1>2 DEF PayloadLen
<1> DEFINE hs == HeaderSize(PayloadLen)
           end == MagicLen + hs + PayloadLen
<1>4. hs \in Nat /\ HeaderLen <= hs /\ (Fits(PayloadLen) => hs = HeaderLen)
  BY <1>3, SizeFacts
<1>5. BodyBase = EvenUp(MagicLen + HeaderLen + PayloadLen)
  BY <1>3 DEF BodyBase, EvenUp, MagicLen, HeaderLen
<1>6. Fits(PayloadLen) => BodyBase = EvenUp(end)
  BY <1>4, <1>5
<1>7. end \in Nat /\ MagicLen + HeaderLen <= end
  <2> HIDE DEF hs
  <2> QED  BY <1>3, <1>4 DEF MagicLen, HeaderLen
<1>8. EvenUp(end) \in Nat /\ end <= EvenUp(end) /\ EvenUp(end) % 2 = 0
  <2> HIDE DEF end
  <2> QED  BY <1>7, Even
<1>9. BaseOf = IF indexed THEN EvenUp(end) ELSE MagicLen
  BY DEF BaseOf
<1>10. MagicLen \in Nat /\ MagicLen % 2 = 0 /\ MagicLen + HeaderLen \in Nat /\ MagicLen <= MagicLen + HeaderLen
  BY DEF MagicLen, HeaderLen
<1>11. MagicLen + HeaderLen <= EvenUp(end)
  <2> HIDE DEF end
  <2> QED  BY <1>7, <1>8, <1>10
<1>12. IndexPassed /\ indexed => BaseOf = BodyBase
  BY <1>6, <1>9 DEF IndexPassed
<1>13. MagicLen <= EvenUp(end)
  <2> HIDE DEF end
  <2> QED  BY <1>8, <1>10, <1>11
<1> HIDE DEF end
<1>14. BaseOf \in Nat /\ BaseOf % 2 = 0 /\ MagicLen <= BaseOf
  BY <1>8, <1>9, <1>10, <1>13
<1> QED  BY <1>3, <1>9, <1>11, <1>12, <1>14 DEF end

\* Where the members start.
LEMMA StartFacts ==
  ASSUME strtab.len \in Nat
  PROVE  /\ Start \in Nat
         /\ strtab.len = 0 => Start = 0
         /\ strtab.len # 0 => /\ Start = EvenUp(HeaderSize(strtab.len) + strtab.len)
                             /\ HeaderSize(strtab.len) + strtab.len <= Start
<1>1. HeaderSize(strtab.len) + strtab.len \in Nat
  BY SizeFacts
<1> QED  BY <1>1, Even DEF Start

\* Nothing is written yet.
LEMMA InitIInv == Init => IInv
<1> SUFFICES ASSUME Init PROVE IInv
  OBVIOUS
<1>1. Basics
  BY ArchivesAssumption DEF Init, Basics
<1>2. NamesInv /\ BodyInv
  BY DEF Init, NamesInv, BodyInv, Empty
<1>3. OutInv /\ ReadInv
  BY DEF Init, OutInv, ReadInv, MagicLen
<1> QED  BY <1>1, <1>2, <1>3 DEF IInv
-----------------------------------------------------------------------------
(***************************************************************************)
(* The writer.                                                             *)
(***************************************************************************)

\* A name more: its field finds it in the table, and no other field finds it.
LEMMA NameFieldInv == IInv /\ NameField => IInv'
<1> SUFFICES ASSUME IInv, NameField PROVE IInv'
  OBVIOUS
<1> USE DEF IInv
<1>1. Basics'
  BY DEF Basics, NameField
<1>2. BodyInv' /\ OutInv' /\ ReadInv'
  BY DEF NameField, BodyInv, OutInv, ReadInv, Empty
<1>3. NamesInv'
  <2> DEFINE n == ms[k].name
  <2>1. k \in DOMAIN ms /\ Len(fields) = k - 1 /\ n \in Names /\ NameLen[n] \in Nat /\ k \in Nat
    <3>1. k \in DOMAIN ms /\ k \in Nat /\ Len(fields) = k - 1
      BY DEF Basics, NameField, NamesInv
    <3>2. ms[k] \in Member
      BY <3>1 DEF Basics
    <3>3. n \in Names
      BY <3>2 DEF Member
    <3> QED  BY <3>1, <3>3, LengthAssumption
  <2>2. UNCHANGED <<ms, pc>> /\ k' = k + 1 /\ pc = "names"
    BY DEF NameField
  <2>3. CASE Inline(n)
    <3>1. fields' = Append(fields, [kind |-> "inline", name |-> n]) /\ strtab' = strtab
      BY <2>3 DEF NameField
    <3>2. [kind |-> "inline", name |-> n] \in NameFieldType
      BY <2>1 DEF NameFieldType
    <3>3. fields' \in Seq(NameFieldType) /\ Len(fields') = k /\ fields'[k] = [kind |-> "inline", name |-> n]
          /\ \A i \in 1..k - 1 : fields'[i] = fields[i]
      BY <2>1, <3>1, <3>2 DEF NamesInv
    <3>4. \A i \in DOMAIN fields' : FieldFor(i)'
      <4> TAKE i \in DOMAIN fields'
      <4>1. i \in 1..k
        BY <3>3
      <4>2. CASE i = k
        BY <2>2, <2>3, <3>3, <4>2 DEF FieldFor, Inline
      <4>3. CASE i # k
        <5>1. i \in 1..k - 1 /\ i \in DOMAIN fields
          BY <2>1, <4>1, <4>3 DEF NamesInv
        <5>2. FieldFor(i)
          BY <5>1 DEF NamesInv
        <5>3. fields'[i] = fields[i]
          BY <3>3, <5>1
        <5> QED  BY ZenonT(30), <2>2, <3>1, <5>2, <5>3 DEF FieldFor, Inline
      <4> QED  BY <4>2, <4>3
    <3> QED  BY <2>1, <2>2, <3>1, <3>3, <3>4 DEF NamesInv
  <2>4. CASE ~Inline(n)
    <3> DEFINE o == strtab.len
               field == [kind |-> "long", off |-> o]
               entry == [at |-> o, what |-> n]
    <3>1. /\ fields' = Append(fields, field)
          /\ strtab' = [len |-> o + NameLen[n] + 2, data |-> strtab.data \cup {entry}]
      BY <2>4 DEF NameField
    <3>2. field \in NameFieldType /\ o \in Nat
      BY <2>1 DEF NameFieldType, NamesInv
    <3>3. fields' \in Seq(NameFieldType) /\ Len(fields') = k /\ fields'[k] = field
          /\ \A i \in 1..k - 1 : fields'[i] = fields[i]
      <4> HIDE DEF field
      <4> QED  BY <2>1, <3>1, <3>2 DEF NamesInv
    <3>4. strtab'.len \in Nat /\ o < strtab'.len /\ strtab'.data = strtab.data \cup {entry}
      BY <2>1, <3>1, <3>2
    <3>5. \A d \in strtab'.data : d \in [at : Nat, what : Names] /\ d.at < strtab'.len
      <4>1. entry \in [at : Nat, what : Names] /\ entry.at = o
        BY <2>1, <3>2
      <4>2. \A d \in strtab.data : d \in [at : Nat, what : Names] /\ d.at < o
        BY DEF NamesInv
      <4>3. ASSUME NEW d \in strtab.data PROVE d.at < strtab'.len
        <5>1. d.at \in Nat /\ d.at < o
          BY <4>2
        <5> QED  BY <5>1, <3>2, <3>4
      <4> QED  BY <3>4, <4>1, <4>2, <4>3
    <3>6. \A i \in DOMAIN fields' : FieldFor(i)'
      <4> TAKE i \in DOMAIN fields'
      <4>1. i \in 1..k
        BY <3>3
      <4>2. CASE i = k
        <5>1. fields'[i] = field /\ ms'[i].name = n /\ entry \in strtab'.data
          BY <2>2, <3>3, <3>4, <4>2
        <5>2. \A d \in strtab'.data : d.at = o => d.what = n
          BY <3>2, <3>4 DEF NamesInv
        <5>3. o \in 0..(strtab'.len - 1)
          BY <3>2, <3>4
        <5> QED  BY <2>2, <2>4, <4>2, <5>1, <5>2, <5>3 DEF FieldFor, Inline
      <4>3. CASE i # k
        <5>1. i \in 1..k - 1 /\ i \in DOMAIN fields
          BY <2>1, <4>1, <4>3 DEF NamesInv
        <5>2. FieldFor(i)
          BY <5>1 DEF NamesInv
        <5>3. fields'[i] = fields[i] /\ ms'[i] = ms[i]
          BY <2>2, <3>3, <5>1
        <5>4. CASE Inline(ms[i].name)
          BY <5>2, <5>3, <5>4 DEF FieldFor, Inline
        <5>5. CASE ~Inline(ms[i].name)
          <6>1. PICK q \in 0..(o - 1) :
                  /\ fields[i] = [kind |-> "long", off |-> q]
                  /\ [at |-> q, what |-> ms[i].name] \in strtab.data
                  /\ \A d \in strtab.data : d.at = q => d.what = ms[i].name
            BY <5>2, <5>5 DEF FieldFor
          <6>2. q \in 0..(strtab'.len - 1) /\ q # o
            BY <3>2, <3>4, <6>1
          <6>3. \A d \in strtab'.data : d.at = q => d.what = ms[i].name
            BY <3>4, <6>1, <6>2
          <6>4. [at |-> q, what |-> ms[i].name] \in strtab'.data
            BY <3>4, <6>1
          <6>5. fields'[i] = [kind |-> "long", off |-> q]
            BY <5>3, <6>1
          <6> QED  BY <5>3, <5>5, <6>2, <6>3, <6>4, <6>5 DEF FieldFor, Inline
        <5> QED  BY <5>4, <5>5
      <4> QED  BY <4>2, <4>3
    <3> QED  BY <2>1, <2>2, <3>3, <3>4, <3>5, <3>6 DEF NamesInv
  <2> QED  BY <2>3, <2>4
<1> QED  BY <1>1, <1>2, <1>3

\* The table of long names is at the start of the body.
LEMMA NameTableInv == IInv /\ NameTable => IInv'
<1> SUFFICES ASSUME IInv, NameTable PROVE IInv'
  OBVIOUS
<1> USE DEF IInv
<1>1. Basics' /\ OutInv' /\ ReadInv'
  BY DEF Basics, NameTable, OutInv, ReadInv, Empty
<1>2. NamesInv' /\ offsets = <<>>
  BY DEF Basics, NameTable, NamesInv, BodyInv, FieldFor
<1>3. BodyInv'
  <2>1. strtab.len \in Nat /\ UNCHANGED <<strtab, fields, ms, offsets>> /\ pc' = "body" /\ k' = 1
    BY DEF NameTable, NamesInv
  <2>2. CASE strtab.len = 0
    <3>1. body' = Empty /\ Start = 0 /\ strtab.data = {}
      BY <2>1, <2>2 DEF NameTable, Start, NamesInv
    <3> QED  BY <1>2, <2>1, <2>2, <3>1 DEF BodyInv, NextAt, Start, Empty, MoveData
  <2>3. CASE strtab.len # 0
    <3>1. body' = PushMember(Empty, [kind |-> "//"], strtab.data, strtab.len)
      BY <2>3 DEF NameTable
    <3>2. /\ body'.len = EvenUp(HeaderSize(strtab.len) + strtab.len)
          /\ body'.hdr = {TableHeader}
          /\ body'.data = MoveData(strtab.data, HeaderSize(strtab.len))
      <4>1. HeaderSize(strtab.len) \in Nat /\ 0 + HeaderSize(strtab.len) = HeaderSize(strtab.len)
        BY <2>1, SizeFacts
      <4> QED  BY <2>1, <3>1, <4>1 DEF PushMember, Empty, TableHeader
    <3>3. body'.len = Start /\ body'.len \in Nat
      BY <2>1, <2>3, <3>2, StartFacts
    <3> QED  BY <1>2, <2>1, <2>3, <3>2, <3>3 DEF BodyInv, NextAt, Start, TableHeader, MoveData
  <2> QED  BY <2>2, <2>3
<1> QED  BY <1>1, <1>2, <1>3

\* A member more: behind the others.
LEMMA PutMemberInv == IInv /\ PutMember => IInv'
<1> SUFFICES ASSUME IInv, PutMember PROVE IInv'
  OBVIOUS
<1> USE DEF IInv
<1>1. Basics' /\ NamesInv'
  <2>1. Basics'
    BY DEF Basics, PutMember
  <2>2. UNCHANGED <<ms, strtab, fields>> /\ pc = "body" /\ pc' = "body"
    BY DEF PutMember
  <2>3. \A i \in DOMAIN fields : FieldFor(i) => FieldFor(i)'
    BY <2>2 DEF FieldFor
  <2>4. NamesInv'
    BY <2>2, <2>3 DEF NamesInv
  <2> QED  BY <2>1, <2>4
<1>2. OutInv' /\ ReadInv'
  BY DEF PutMember, OutInv, ReadInv
<1>3. BodyInv'
  <2> PICK n \in Nat : n = k
    BY DEF Basics
  <2> DEFINE hs == HeaderSize(ms[n].size)
             end == EvenUp(body.len + hs + ms[n].size)
  <2>1. /\ n \in DOMAIN ms /\ ms[n].size \in Nat
        /\ Len(offsets) = n - 1 /\ DOMAIN offsets = 1..n - 1
        /\ body.len \in Nat
        /\ UNCHANGED <<ms, pc, strtab, fields>> /\ pc = "body" /\ k' = n + 1
        /\ offsets' = Append(offsets, body.len)
    <3>1. n \in DOMAIN ms
      BY DEF PutMember, Basics
    <3>2. ms[n] \in Member
      BY <3>1 DEF Basics
    <3>3. ms[n].size \in Nat
      BY <3>2 DEF Member
    <3> QED  BY <3>1, <3>3 DEF PutMember, BodyInv
  <2>2. /\ body'.len = end
        /\ body'.hdr = body.hdr \cup {[at |-> body.len, field |-> fields[n], size |-> ms[n].size]}
        /\ body'.data = body.data \cup {[at |-> body.len + hs, what |-> n]}
    <3>1. hs \in Nat /\ 0 + (body.len + hs) = body.len + hs
      <4>1. hs \in Nat
        BY <2>1, SizeFacts
      <4> HIDE DEF hs
      <4> QED  BY <2>1, <4>1
    <3> QED  BY <2>1, <3>1 DEF PutMember, PushMember, MoveData
  <2>3. end \in Nat /\ body.len + hs <= end /\ hs \in Nat
    <3>1. hs \in Nat
      BY <2>1, SizeFacts
    <3> HIDE DEF hs
    <3>2. body.len + hs + ms[n].size \in Nat
          /\ body.len + hs <= body.len + hs + ms[n].size
      BY <2>1, <3>1
    <3>3. end \in Nat /\ body.len + hs + ms[n].size <= end
      BY <3>2, Even
    <3> HIDE DEF end
    <3> QED  BY <2>1, <3>1, <3>2, <3>3
  <2>4. /\ offsets' \in Seq(Nat) /\ Len(offsets') = n /\ DOMAIN offsets' = 1..n
        /\ offsets'[n] = body.len
        /\ \A i \in 1..n - 1 : offsets'[i] = offsets[i]
    BY <2>1 DEF BodyInv
  <2>5. /\ \A i \in 1..n : NextAt(i)' = NextAt(i)
        /\ NextAt(n)' = body.len
        /\ NextAt(n + 1)' = end
    BY <2>1, <2>2, <2>4 DEF NextAt
  <2>6. \A i \in 1..n : NextAt(i) \in Nat
    BY <2>1 DEF NextAt, BodyInv
  <2> HIDE DEF end
  <2>7. NextAt(1)' = Start'
    BY <2>1, <2>5 DEF BodyInv, Start
  <2>8. \A i \in DOMAIN offsets' : NextAt(i + 1)' = EvenUp(NextAt(i)' + HeaderSize(ms'[i].size) + ms'[i].size)
    <3> TAKE i \in DOMAIN offsets'
    <3>1. CASE i = n
      BY <2>1, <2>5, <3>1 DEF end
    <3>2. CASE i # n
      <4>1. i \in DOMAIN offsets /\ i \in 1..n /\ i + 1 \in 1..n
        BY <2>1, <2>4, <3>2
      <4>2. NextAt(i + 1) = EvenUp(NextAt(i) + HeaderSize(ms[i].size) + ms[i].size)
        BY <2>1, <4>1 DEF BodyInv
      <4> QED  BY <2>1, <2>5, <4>1, <4>2
    <3> QED  BY <3>1, <3>2
  <2>9. \A i \in 1..n, j \in 1..n + 1 :
          i < j => NextAt(i)' + HeaderSize(ms'[i].size) <= NextAt(j)'
    <3> TAKE i \in 1..n, j \in 1..n + 1
    <3> HAVE i < j
    <3>1. NextAt(i)' = NextAt(i) /\ NextAt(i) \in Nat /\ ms' = ms
      BY <2>1, <2>5, <2>6
    <3>2. CASE i = n
      BY <2>1, <2>3, <2>5, <3>2
    <3>3. CASE i # n
      <4>1. i \in DOMAIN offsets /\ HeaderSize(ms[i].size) \in Nat
        <5>1. i \in DOMAIN ms
          BY <2>1, <3>3 DEF Basics
        <5>2. ms[i] \in Member
          BY <5>1 DEF Basics
        <5>3. ms[i].size \in Nat
          BY <5>2 DEF Member
        <5>4. HeaderSize(ms[i].size) \in Nat
          BY <5>3, SizeFacts
        <5>5. i \in 1..n - 1
          BY <3>3
        <5> QED  BY <2>1, <5>4, <5>5
      <4>2. \A l \in 1..n : i < l => NextAt(i) + HeaderSize(ms[i].size) <= NextAt(l)
        <5>1. 1..Len(offsets) + 1 = 1..n
          BY <2>1
        <5> QED  BY <2>1, <4>1, <5>1 DEF BodyInv
      <4>3. CASE j = n + 1
        <5>1. NextAt(i) + HeaderSize(ms[i].size) <= NextAt(n)
          BY <3>3, <4>2
        <5>2. NextAt(n) = body.len
          BY <2>1 DEF NextAt
        <5> HIDE DEF hs
        <5> QED  BY <2>1, <2>3, <2>5, <3>1, <4>1, <4>3, <5>1, <5>2
      <4>4. CASE j # n + 1
        <5>1. j \in 1..n /\ NextAt(j)' = NextAt(j)
          BY <2>1, <2>5, <4>4
        <5> QED  BY <3>1, <4>2, <5>1
      <4> QED  BY <4>3, <4>4
    <3> QED  BY <3>2, <3>3
  <2>10. body'.hdr = (IF strtab'.len = 0 THEN {} ELSE {TableHeader'})
                       \cup {MemberHeader(i)' : i \in DOMAIN offsets'}
    <3>1. MemberHeader(n)' = [at |-> body.len, field |-> fields[n], size |-> ms[n].size]
      BY <2>1, <2>4 DEF MemberHeader
    <3>2. \A i \in 1..n - 1 : MemberHeader(i)' = MemberHeader(i)
      BY <2>1, <2>4 DEF MemberHeader
    <3>3. {MemberHeader(i)' : i \in DOMAIN offsets'}
            = {MemberHeader(i) : i \in DOMAIN offsets} \cup {MemberHeader(n)'}
      <4>1. DOMAIN offsets' = 1..n /\ DOMAIN offsets = 1..n - 1 /\ 1..n = 1..n - 1 \cup {n}
        BY <2>1, <2>4
      <4> QED  BY <3>2, <4>1
    <3>4. body.hdr = (IF strtab.len = 0 THEN {} ELSE {TableHeader})
                       \cup {MemberHeader(i) : i \in DOMAIN offsets}
      BY <2>1 DEF BodyInv
    <3>5. TableHeader' = TableHeader /\ strtab' = strtab
      BY <2>1 DEF TableHeader
    <3> QED  BY <2>2, <3>1, <3>3, <3>4, <3>5
  <2>11. body'.data = MoveData(strtab'.data, HeaderSize(strtab'.len)) \cup {MemberData(i)' : i \in DOMAIN offsets'}
    <3>1. MemberData(n)' = [at |-> body.len + hs, what |-> n]
      BY <2>1, <2>4 DEF MemberData
    <3>2. \A i \in 1..n - 1 : MemberData(i)' = MemberData(i)
      BY <2>1, <2>4 DEF MemberData
    <3>3. {MemberData(i)' : i \in DOMAIN offsets'}
            = {MemberData(i) : i \in DOMAIN offsets} \cup {MemberData(n)'}
      <4>1. DOMAIN offsets' = 1..n /\ DOMAIN offsets = 1..n - 1 /\ 1..n = 1..n - 1 \cup {n}
        BY <2>1, <2>4
      <4> QED  BY <3>2, <4>1
    <3>4. body.data = MoveData(strtab.data, HeaderSize(strtab.len)) \cup {MemberData(i) : i \in DOMAIN offsets}
      BY <2>1 DEF BodyInv
    <3> QED  BY <2>1, <2>2, <3>1, <3>3, <3>4
  <2>12. Len(offsets') + 1 = n + 1 /\ Len(offsets') = k' - 1 /\ body'.len \in Nat
    BY <2>1, <2>2, <2>3, <2>4
  <2> QED  BY <2>1, <2>4, <2>7, <2>8, <2>9, <2>10, <2>11, <2>12 DEF BodyInv
<1> QED  BY <1>1, <1>2, <1>3

\* The index goes in front, as long as it was said to be.
LEMMA PutIndexInv == IInv /\ PutIndex => IInv'
<1> SUFFICES ASSUME IInv, PutIndex PROVE IInv'
  OBVIOUS
<1> USE DEF IInv
<1>1. Basics' /\ NamesInv'
  BY DEF Basics, PutIndex, NamesInv, FieldFor
<1>2. /\ UNCHANGED <<ms, indexed, k, strtab, fields, body, offsets, pos, table, got>>
      /\ pc = "body" /\ pc' = "read"
  BY DEF PutIndex
<1>3. BodyInv'
  <2>1. Len(offsets) = Len(ms)
    BY DEF PutIndex, BodyInv, Basics
  <2>2. Start' = Start /\ TableHeader' = TableHeader
    BY <1>2 DEF Start, TableHeader
  <2>3. \A j : NextAt(j)' = NextAt(j) /\ MemberHeader(j)' = MemberHeader(j) /\ MemberData(j)' = MemberData(j)
    BY <1>2 DEF NextAt, MemberHeader, MemberData
  <2> QED  BY <1>2, <2>1, <2>2, <2>3 DEF BodyInv
<1>4. out = [len |-> MagicLen, hdr |-> {}, data |-> {}]
  BY <1>2 DEF OutInv, Empty
<1>5. BaseOf' = BaseOf /\ PayloadLen' = PayloadLen /\ BodyBase' = BodyBase /\ Defined' = Defined
  BY <1>2 DEF BaseOf, BodyBase, PayloadLen, Defined
<1>6. OutInv'
  <2>1. CASE indexed
    <3>1. /\ index' = [s \in Defined |-> (BodyBase + offsets[First(s)]) % Wrap]
          /\ out' = Concat(PushMember(out, [kind |-> "/"], {}, PayloadLen), body)
      BY <2>1 DEF PutIndex
    <3>2. BaseOf = EvenUp(MagicLen + HeaderSize(PayloadLen) + PayloadLen)
      BY <2>1, BaseFacts DEF Basics
    <3>3. PushMember(out, [kind |-> "/"], {}, PayloadLen)
            = [len |-> BaseOf, hdr |-> {IndexHeader}, data |-> {}]
      BY <1>4, <3>2 DEF PushMember, MoveData, IndexHeader
    <3>4. /\ out'.len = BaseOf + body.len
          /\ out'.hdr = {IndexHeader} \cup MoveHdr(body.hdr, BaseOf)
          /\ out'.data = MoveData(body.data, BaseOf)
      BY <3>1, <3>3 DEF Concat
    <3>5. IndexHeader' = IndexHeader /\ \A s : First(s)' = First(s)
      BY <1>2, <1>5 DEF IndexHeader, First
    <3> QED  BY <1>2, <1>5, <2>1, <3>1, <3>4, <3>5 DEF OutInv
  <2>2. CASE ~indexed
    <3>1. out' = Concat(out, body) /\ BaseOf = MagicLen
      BY <2>2 DEF PutIndex, BaseOf
    <3>2. /\ out'.len = BaseOf + body.len
          /\ out'.hdr = MoveHdr(body.hdr, BaseOf)
          /\ out'.data = MoveData(body.data, BaseOf)
      BY <1>4, <3>1 DEF Concat
    <3> QED  BY <1>2, <1>5, <2>2, <3>2 DEF OutInv
  <2> QED  BY <2>1, <2>2
<1>7. ReadInv'
  <2>1. pos = MagicLen /\ table = 0 /\ got = <<>>
    BY <1>2 DEF OutInv
  <2>2. ~indexed => BaseOf = MagicLen
    BY DEF BaseOf
  <2>3. NextAt(1) = Start /\ NextAt(1)' = NextAt(1) /\ Len(<<>>) + 1 = 1
    BY <1>2 DEF BodyInv, NextAt
  <2>4. strtab.len = 0 => Start = 0
    BY StartFacts DEF NamesInv
  <2>5. Len(<<>>) = 0 /\ 0 <= Len(ms) /\ MagicLen + 0 = MagicLen
    BY DEF Basics, MagicLen
  <2>6. CASE indexed
    BY <1>2, <1>5, <2>1, <2>6 DEF ReadInv
  <2>7. CASE ~indexed /\ strtab.len # 0
    BY <1>2, <1>5, <2>1, <2>2, <2>7 DEF ReadInv, IndexPassed
  <2>8. CASE ~indexed /\ strtab.len = 0
    BY <1>2, <1>5, <2>1, <2>2, <2>3, <2>4, <2>5, <2>8 DEF ReadInv, IndexPassed
  <2> QED  BY <2>6, <2>7, <2>8
<1> QED  BY <1>1, <1>3, <1>6, <1>7
-----------------------------------------------------------------------------
(***************************************************************************)
(* The reader: what is at which position of the file.                      *)
(***************************************************************************)

\* The header of a member, moved with the body.
Moved(i) == [at |-> BaseOf + NextAt(i), field |-> fields[i], size |-> ms[i].size]

\* Members are at positions behind each other, and behind the table.
LEMMA Positions ==
  ASSUME IInv, pc \in {"read", "done", "failed"}
  PROVE  /\ DOMAIN offsets = DOMAIN ms /\ DOMAIN ms = 1..Len(ms) /\ Len(ms) \in Nat
         /\ Len(offsets) = Len(ms) /\ Len(fields) = Len(ms) /\ DOMAIN fields = DOMAIN ms
         /\ \A i \in 1..Len(ms) + 1 : NextAt(i) \in Nat /\ Start <= NextAt(i)
         /\ \A i \in DOMAIN ms : NextAt(i) = offsets[i] /\ ms[i].size \in Nat
         /\ NextAt(Len(ms) + 1) = body.len /\ NextAt(1) = Start
         /\ BaseOf \in Nat /\ BaseOf % 2 = 0 /\ Start \in Nat /\ strtab.len \in Nat
         /\ strtab.len = 0 => Start = 0
         /\ strtab.len # 0 => HeaderSize(strtab.len) + strtab.len <= Start
         /\ indexed => MagicLen + HeaderLen <= BaseOf
         /\ HeaderSize(strtab.len) \in Nat /\ HeaderLen <= HeaderSize(strtab.len)
         /\ \A i \in DOMAIN ms :
              /\ HeaderSize(ms[i].size) \in Nat /\ HeaderLen <= HeaderSize(ms[i].size)
              /\ \A j \in 1..Len(ms) + 1 :
                   i < j => /\ NextAt(i) + HeaderSize(ms[i].size) <= NextAt(j)
                            /\ NextAt(i) + HeaderLen <= NextAt(j)
<1> USE DEF IInv
<1>1. /\ DOMAIN offsets = DOMAIN ms /\ DOMAIN ms = 1..Len(ms) /\ Len(ms) \in Nat
      /\ Len(offsets) = Len(ms) /\ Len(fields) = Len(ms) /\ DOMAIN fields = DOMAIN ms
  BY DEF Basics, NamesInv, BodyInv
<1>2. \A i \in DOMAIN ms : NextAt(i) = offsets[i] /\ ms[i].size \in Nat
  <2>1. \A i \in DOMAIN ms : ms[i] \in Member
    BY DEF Basics
  <2> QED  BY <1>1, <2>1 DEF NextAt, Member
<1>3. NextAt(Len(ms) + 1) = body.len /\ body.len \in Nat
  BY <1>1 DEF NextAt, BodyInv
<1>4. \A i \in 1..Len(ms) + 1 : NextAt(i) \in Nat
  <2>1. \A i \in DOMAIN ms : offsets[i] \in Nat
    BY <1>1 DEF BodyInv
  <2>2. \A i \in 1..Len(ms) + 1 : i \in DOMAIN ms \/ i = Len(ms) + 1
    BY <1>1
  <2> QED  BY <1>2, <1>3, <2>1, <2>2
<1>5. strtab.len \in Nat /\ NextAt(1) = Start
  BY DEF NamesInv, BodyInv
<1>6. /\ Start \in Nat
      /\ strtab.len = 0 => Start = 0
      /\ strtab.len # 0 => HeaderSize(strtab.len) + strtab.len <= Start
  BY <1>5, StartFacts
<1>7. HeaderSize(strtab.len) \in Nat /\ HeaderLen <= HeaderSize(strtab.len)
  BY <1>5, SizeFacts
<1>8. \A i \in DOMAIN ms : HeaderSize(ms[i].size) \in Nat /\ HeaderLen <= HeaderSize(ms[i].size)
  BY <1>2, SizeFacts
<1>9. ASSUME NEW i \in DOMAIN ms, NEW j \in 1..Len(ms) + 1, i < j
      PROVE  NextAt(i) + HeaderSize(ms[i].size) <= NextAt(j) /\ NextAt(i) + HeaderLen <= NextAt(j)
  <2>1. NextAt(i) + HeaderSize(ms[i].size) <= NextAt(j)
    <3>1. i \in DOMAIN offsets /\ j \in 1..Len(offsets) + 1
      BY <1>1
    <3> QED  BY <1>9, <3>1 DEF BodyInv
  <2>2. NextAt(i) \in Nat /\ NextAt(j) \in Nat /\ HeaderSize(ms[i].size) \in Nat /\ HeaderLen <= HeaderSize(ms[i].size)
    BY <1>1, <1>4, <1>8
  <2> QED  BY <2>1, <2>2 DEF HeaderLen
<1>10. \A i \in 1..Len(ms) + 1 : Start <= NextAt(i)
  <2> TAKE i \in 1..Len(ms) + 1
  <2>1. CASE i = 1
    BY <1>5, <1>6, <2>1
  <2>2. CASE i # 1
    <3>1. 1 \in DOMAIN ms /\ 1 < i
      BY <1>1, <2>2
    <3>2. NextAt(1) + HeaderLen <= NextAt(i)
      BY <1>9, <3>1
    <3> QED  BY <1>4, <1>5, <1>6, <3>2 DEF HeaderLen
  <2> QED  BY <2>1, <2>2
<1>11. BaseOf \in Nat /\ BaseOf % 2 = 0 /\ (indexed => MagicLen + HeaderLen <= BaseOf)
  BY BaseFacts DEF Basics
<1> QED  BY <1>1, <1>2, <1>3, <1>4, <1>5, <1>6, <1>7, <1>8, <1>9, <1>10, <1>11

\* The headers of the file.
LEMMA HeadersOfFile ==
  ASSUME IInv, pc \in {"read", "done", "failed"}, NEW h
  PROVE  h \in out.hdr <=>
           \/ indexed /\ h = IndexHeader
           \/ strtab.len # 0 /\ h = [at |-> BaseOf, field |-> [kind |-> "//"], size |-> strtab.len]
           \/ \E i \in DOMAIN ms : h = Moved(i)
<1> USE DEF IInv
<1>1. /\ out.hdr = (IF indexed THEN {IndexHeader} ELSE {}) \cup MoveHdr(body.hdr, BaseOf)
      /\ body.hdr = (IF strtab.len = 0 THEN {} ELSE {TableHeader})
                      \cup {MemberHeader(i) : i \in DOMAIN offsets}
  BY DEF OutInv, BodyInv
<1>2. h \in MoveHdr(body.hdr, BaseOf) <=>
        \E g \in body.hdr : h = [at |-> g.at + BaseOf, field |-> g.field, size |-> g.size]
  BY DEF MoveHdr
<1>3. [at |-> TableHeader.at + BaseOf, field |-> TableHeader.field, size |-> TableHeader.size]
        = [at |-> BaseOf, field |-> [kind |-> "//"], size |-> strtab.len]
  BY Positions DEF TableHeader
<1>4. \A i \in DOMAIN ms :
        [at |-> MemberHeader(i).at + BaseOf, field |-> MemberHeader(i).field, size |-> MemberHeader(i).size]
          = Moved(i)
  <2> TAKE i \in DOMAIN ms
  <2>1. offsets[i] \in Nat /\ NextAt(i) = offsets[i] /\ BaseOf \in Nat
    BY SMTT(30), Positions DEF BodyInv
  <2>2. offsets[i] + BaseOf = BaseOf + NextAt(i)
    BY <2>1
  <2> QED  BY <2>2 DEF MemberHeader, Moved
<1>5. DOMAIN offsets = DOMAIN ms
  BY Positions
<1>6. (\E g \in body.hdr : h = [at |-> g.at + BaseOf, field |-> g.field, size |-> g.size]) <=>
        \/ strtab.len # 0 /\ h = [at |-> BaseOf, field |-> [kind |-> "//"], size |-> strtab.len]
        \/ \E i \in DOMAIN ms : h = Moved(i)
  <2>1. ASSUME NEW g
        PROVE  g \in body.hdr <=> \/ strtab.len # 0 /\ g = TableHeader
                                  \/ \E i \in DOMAIN ms : g = MemberHeader(i)
    BY <1>1, <1>5
  <2>2. ASSUME NEW g \in body.hdr, h = [at |-> g.at + BaseOf, field |-> g.field, size |-> g.size]
        PROVE  \/ strtab.len # 0 /\ h = [at |-> BaseOf, field |-> [kind |-> "//"], size |-> strtab.len]
               \/ \E i \in DOMAIN ms : h = Moved(i)
    <3>1. CASE strtab.len # 0 /\ g = TableHeader
      BY <1>3, <2>2, <3>1, Zenon
    <3>2. CASE \E i \in DOMAIN ms : g = MemberHeader(i)
      BY <1>4, <2>2, <3>2, Zenon
    <3> QED  BY <2>1, <3>1, <3>2
  <2>3. ASSUME strtab.len # 0, h = [at |-> BaseOf, field |-> [kind |-> "//"], size |-> strtab.len]
        PROVE  \E g \in body.hdr : h = [at |-> g.at + BaseOf, field |-> g.field, size |-> g.size]
    <3>1. TableHeader \in body.hdr
      BY <2>1, <2>3
    <3> QED  BY <1>3, <2>3, <3>1, Zenon
  <2>4. ASSUME NEW i \in DOMAIN ms, h = Moved(i)
        PROVE  \E g \in body.hdr : h = [at |-> g.at + BaseOf, field |-> g.field, size |-> g.size]
    <3>1. MemberHeader(i) \in body.hdr
      BY <2>1
    <3> QED  BY <1>4, <2>4, <3>1, Zenon
  <2> QED  BY <2>2, <2>3, <2>4
<1> QED  BY <1>1, <1>2, <1>6

\* The data of the file.
LEMMA DataOfFile ==
  ASSUME IInv, pc \in {"read", "done", "failed"}, NEW d
  PROVE  d \in out.data <=>
           \/ \E e \in strtab.data : d = [at |-> BaseOf + HeaderSize(strtab.len) + e.at, what |-> e.what]
           \/ \E i \in DOMAIN ms : d = [at |-> BaseOf + NextAt(i) + HeaderSize(ms[i].size), what |-> i]
<1> USE DEF IInv
<1>1. /\ out.data = MoveData(body.data, BaseOf)
      /\ body.data = MoveData(strtab.data, HeaderSize(strtab.len)) \cup {MemberData(i) : i \in DOMAIN offsets}
  BY DEF OutInv, BodyInv
<1>2. d \in out.data <=> \E e \in body.data : d = [at |-> e.at + BaseOf, what |-> e.what]
  BY <1>1 DEF MoveData
<1>3. \A e \in strtab.data : e.at \in Nat
  BY DEF NamesInv
<1>4. ASSUME NEW e
      PROVE  e \in body.data <=>
               \/ \E g \in strtab.data : e = [at |-> g.at + HeaderSize(strtab.len), what |-> g.what]
               \/ \E i \in DOMAIN ms : e = [at |-> NextAt(i) + HeaderSize(ms[i].size), what |-> i]
  BY <1>1, Positions DEF MoveData, MemberData
<1>5. \A g \in strtab.data : (g.at + HeaderSize(strtab.len)) + BaseOf = BaseOf + HeaderSize(strtab.len) + g.at
  BY <1>3, Positions
<1>6. \A i \in DOMAIN ms : (NextAt(i) + HeaderSize(ms[i].size)) + BaseOf = BaseOf + NextAt(i) + HeaderSize(ms[i].size)
  <2> TAKE i \in DOMAIN ms
  <2>1. NextAt(i) \in Nat /\ BaseOf \in Nat /\ HeaderSize(ms[i].size) \in Nat
    BY Positions
  <2> QED  BY <2>1
<1>7. ASSUME d \in out.data
      PROVE  \/ \E e \in strtab.data : d = [at |-> BaseOf + HeaderSize(strtab.len) + e.at, what |-> e.what]
             \/ \E i \in DOMAIN ms : d = [at |-> BaseOf + NextAt(i) + HeaderSize(ms[i].size), what |-> i]
  <2> PICK e \in body.data : d = [at |-> e.at + BaseOf, what |-> e.what]
    BY <1>2, <1>7
  <2>1. CASE \E g \in strtab.data : e = [at |-> g.at + HeaderSize(strtab.len), what |-> g.what]
    BY <1>5, <2>1
  <2>2. CASE \E i \in DOMAIN ms : e = [at |-> NextAt(i) + HeaderSize(ms[i].size), what |-> i]
    BY <1>6, <2>2
  <2> QED  BY <1>4, <2>1, <2>2
<1>8. ASSUME NEW g \in strtab.data, d = [at |-> BaseOf + HeaderSize(strtab.len) + g.at, what |-> g.what]
      PROVE  d \in out.data
  <2>1. [at |-> g.at + HeaderSize(strtab.len), what |-> g.what] \in body.data
    BY <1>4
  <2> QED  BY <1>2, <1>5, <1>8, <2>1
<1>9. ASSUME NEW i \in DOMAIN ms, d = [at |-> BaseOf + NextAt(i) + HeaderSize(ms[i].size), what |-> i]
      PROVE  d \in out.data
  <2>1. [at |-> NextAt(i) + HeaderSize(ms[i].size), what |-> i] \in body.data
    BY <1>4
  <2> QED  BY <1>2, <1>6, <1>9, <2>1
<1> QED  BY <1>7, <1>8, <1>9

\* No two members are at one position.
LEMMA Apart ==
  ASSUME IInv, pc \in {"read", "done", "failed"}, NEW i \in DOMAIN ms, NEW j \in 1..Len(ms) + 1,
         NextAt(i) = NextAt(j)
  PROVE  i = j
<1>1. i \in 1..Len(ms) + 1 /\ i \in Nat /\ j \in Nat /\ NextAt(i) \in Nat /\ NextAt(j) \in Nat
  BY Positions
<1>2. i < j => NextAt(i) + HeaderLen <= NextAt(j)
  BY <1>1, Positions
<1>3. ASSUME j < i PROVE NextAt(j) + HeaderLen <= NextAt(i)
  <2>1. j \in DOMAIN ms
    BY <1>1, <1>3, Positions
  <2> QED  BY <1>1, <1>3, <2>1, Positions
<1> QED  BY <1>1, <1>2, <1>3 DEF HeaderLen

\* Where the data of a member is, there is nothing else.
LEMMA DataAtMember ==
  ASSUME IInv, pc \in {"read", "done", "failed"}, NEW i \in DOMAIN ms
  PROVE  DataAt(BaseOf + NextAt(i) + HeaderSize(ms[i].size)) = {i}
<1> DEFINE hs == HeaderSize(ms[i].size)
<1>1. /\ BaseOf \in Nat /\ NextAt(i) \in Nat /\ Start <= NextAt(i) /\ Start \in Nat
      /\ strtab.len \in Nat /\ HeaderSize(strtab.len) \in Nat
      /\ strtab.len # 0 => HeaderSize(strtab.len) + strtab.len <= Start
      /\ hs \in Nat /\ HeaderLen <= hs
  BY Positions
<1>2. \A j \in DOMAIN ms :
        NextAt(j) \in Nat /\ j \in 1..Len(ms) + 1 /\ HeaderSize(ms[j].size) \in Nat
        /\ HeaderLen <= HeaderSize(ms[j].size) /\ j \in Nat
  BY Positions
<1>3. ASSUME NEW d \in out.data, d.at = BaseOf + NextAt(i) + hs PROVE d.what = i
  <2>1. CASE \E e \in strtab.data : d = [at |-> BaseOf + HeaderSize(strtab.len) + e.at, what |-> e.what]
    <3> PICK e \in strtab.data : d = [at |-> BaseOf + HeaderSize(strtab.len) + e.at, what |-> e.what]
      BY <2>1
    <3>1. e.at \in Nat /\ e.at < strtab.len
      BY DEF IInv, NamesInv
    <3>2. d.at = BaseOf + HeaderSize(strtab.len) + e.at
      OBVIOUS
    <3> HIDE DEF hs
    <3> QED  BY <1>1, <1>3, <3>1, <3>2
  <2>2. CASE \E j \in DOMAIN ms : d = [at |-> BaseOf + NextAt(j) + HeaderSize(ms[j].size), what |-> j]
    <3> PICK j \in DOMAIN ms : d = [at |-> BaseOf + NextAt(j) + HeaderSize(ms[j].size), what |-> j]
      BY <2>2
    <3>1. BaseOf + NextAt(j) + HeaderSize(ms[j].size) = BaseOf + NextAt(i) + hs
      BY <1>3
    <3>2. ~(i < j)
      <4>1. i < j => NextAt(i) + hs <= NextAt(j)
        BY <1>2, Positions
      <4> HIDE DEF hs
      <4> QED  BY <1>1, <1>2, <3>1, <4>1 DEF HeaderLen
    <3>3. ~(j < i)
      <4>1. j < i => NextAt(j) + HeaderSize(ms[j].size) <= NextAt(i)
        BY <1>2, Positions
      <4> HIDE DEF hs
      <4> QED  BY <1>1, <1>2, <3>1, <4>1 DEF HeaderLen
    <3> QED  BY <1>2, <3>2, <3>3
  <2> QED  BY <2>1, <2>2, DataOfFile
<1>4. [at |-> BaseOf + NextAt(i) + hs, what |-> i] \in out.data
  BY DataOfFile
<1> HIDE DEF hs
<1>5. ASSUME NEW x \in DataAt(BaseOf + NextAt(i) + hs) PROVE x = i
  BY <1>3 DEF DataAt
<1>6. i \in DataAt(BaseOf + NextAt(i) + hs)
  BY <1>4 DEF DataAt
<1> QED  BY <1>5, <1>6 DEF hs

\* What the reader finds where a member is.
LEMMA AtMember ==
  ASSUME IInv, pc \in {"read", "done", "failed"}, NEW i \in DOMAIN ms, pos = BaseOf + NextAt(i)
  PROVE  Headers = {Moved(i)} /\ (Fits(ms[i].size) => DataAt(pos + HeaderLen) = {i})
<1>1. /\ BaseOf \in Nat /\ NextAt(i) \in Nat /\ Start <= NextAt(i) /\ Start \in Nat
      /\ strtab.len \in Nat
      /\ strtab.len # 0 => HeaderSize(strtab.len) + strtab.len <= Start
      /\ HeaderSize(strtab.len) \in Nat /\ HeaderLen <= HeaderSize(strtab.len)
      /\ indexed => MagicLen + HeaderLen <= BaseOf
  BY Positions
<1>2. \A j \in DOMAIN ms : NextAt(j) \in Nat /\ j \in 1..Len(ms) + 1
  BY Positions
<1>3. ASSUME NEW h \in out.hdr, h.at = pos PROVE h = Moved(i)
  <2>1. CASE indexed /\ h = IndexHeader
    <3>1. h.at = MagicLen
      BY <2>1 DEF IndexHeader
    <3> QED  BY <1>1, <1>3, <2>1, <3>1 DEF MagicLen, HeaderLen
  <2>2. CASE strtab.len # 0 /\ h = [at |-> BaseOf, field |-> [kind |-> "//"], size |-> strtab.len]
    BY <1>1, <1>3, <2>2 DEF HeaderLen
  <2>3. CASE \E j \in DOMAIN ms : h = Moved(j)
    <3> PICK j \in DOMAIN ms : h = Moved(j)
      BY <2>3
    <3>1. BaseOf + NextAt(j) = BaseOf + NextAt(i)
      BY <1>3 DEF Moved
    <3>2. NextAt(i) = NextAt(j)
      BY <1>1, <1>2, <3>1
    <3> QED  BY <1>2, <3>2, Apart
  <2> QED  BY <2>1, <2>2, <2>3, HeadersOfFile
<1>4. Moved(i) \in out.hdr /\ Moved(i).at = pos
  BY HeadersOfFile DEF Moved
<1>5. Headers = {Moved(i)}
  BY <1>3, <1>4 DEF Headers
<1>6. Fits(ms[i].size) => HeaderSize(ms[i].size) = HeaderLen
  BY Positions, SizeFacts
<1> QED  BY <1>5, <1>6, DataAtMember

\* What it finds where the index and the table of long names are.
LEMMA AtSpecial ==
  ASSUME IInv, pc \in {"read", "done", "failed"}
  PROVE  /\ pos = MagicLen /\ indexed => Headers = {IndexHeader}
         /\ pos = BaseOf /\ strtab.len # 0 =>
              Headers = {[at |-> BaseOf, field |-> [kind |-> "//"], size |-> strtab.len]}
<1> DEFINE there == [at |-> BaseOf, field |-> [kind |-> "//"], size |-> strtab.len]
<1>1. /\ BaseOf \in Nat /\ Start \in Nat /\ strtab.len \in Nat
      /\ strtab.len # 0 => HeaderSize(strtab.len) + strtab.len <= Start
      /\ HeaderSize(strtab.len) \in Nat /\ HeaderLen <= HeaderSize(strtab.len)
      /\ indexed => MagicLen + HeaderLen <= BaseOf
  BY Positions
<1>2. \A j \in DOMAIN ms : NextAt(j) \in Nat /\ Start <= NextAt(j) /\ Moved(j).at = BaseOf + NextAt(j)
  BY Positions DEF Moved
<1>3. ASSUME pos = MagicLen, indexed PROVE Headers = {IndexHeader}
  <2>1. ASSUME NEW h \in out.hdr, h.at = pos PROVE h = IndexHeader
    <3>1. CASE strtab.len # 0 /\ h = there
      BY <1>1, <1>3, <2>1, <3>1 DEF MagicLen, HeaderLen
    <3>2. CASE \E j \in DOMAIN ms : h = Moved(j)
      BY <1>1, <1>2, <1>3, <2>1, <3>2 DEF MagicLen, HeaderLen
    <3> QED  BY <3>1, <3>2, HeadersOfFile
  <2>2. IndexHeader \in out.hdr /\ IndexHeader.at = pos
    BY <1>3, HeadersOfFile DEF IndexHeader
  <2> QED  BY <2>1, <2>2 DEF Headers
<1>4. ASSUME pos = BaseOf, strtab.len # 0 PROVE Headers = {there}
  <2>1. ASSUME NEW h \in out.hdr, h.at = pos PROVE h = there
    <3>1. CASE indexed /\ h = IndexHeader
      <4>1. h.at = MagicLen
        BY <3>1 DEF IndexHeader
      <4> QED  BY <1>1, <1>4, <2>1, <3>1, <4>1 DEF MagicLen, HeaderLen
    <3>2. CASE \E j \in DOMAIN ms : h = Moved(j)
      BY <1>1, <1>2, <1>4, <2>1, <3>2 DEF HeaderLen
    <3> QED  BY <3>1, <3>2, HeadersOfFile
  <2>2. there \in out.hdr /\ there.at = pos
    BY <1>4, HeadersOfFile
  <2> QED  BY <2>1, <2>2 DEF Headers
<1> QED  BY <1>3, <1>4

\* The field of a member leads to its name.
LEMMA NameFound ==
  ASSUME IInv, pc \in {"read", "done", "failed"}, NEW i \in DOMAIN ms,
         strtab.len # 0 => table = BaseOf + HeaderLen /\ Fits(strtab.len)
  PROVE  NamesIn(fields[i]) = {ms[i].name} /\ fields[i].kind \notin {"/", "//"}
<1> DEFINE n == ms[i].name
<1>1. n \in Names /\ NameLen[n] \in Nat
  <2>1. ms[i] \in Member
    BY DEF IInv, Basics
  <2> QED  BY <2>1, LengthAssumption DEF Member
<1>2. FieldFor(i)
  BY Positions DEF IInv, NamesInv
<1>3. CASE Inline(n)
  <2>1. fields[i] = [kind |-> "inline", name |-> n]
    BY <1>2, <1>3 DEF FieldFor
  <2>2. fields[i].kind = "inline" /\ fields[i].name = n
    BY <2>1
  <2>3. NamesIn(fields[i]) = {x \in {n} : NameLen[x] <= 16}
    BY <2>2, Zenon DEF NamesIn
  <2>4. NameLen[n] <= 16
    BY <1>1, <1>3 DEF Inline
  <2> QED  BY <2>2, <2>3, <2>4
<1>4. CASE ~Inline(n)
  <2>1. PICK o \in 0..(strtab.len - 1) :
          /\ fields[i] = [kind |-> "long", off |-> o]
          /\ [at |-> o, what |-> n] \in strtab.data
          /\ \A d \in strtab.data : d.at = o => d.what = n
    BY <1>2, <1>4 DEF FieldFor
  <2>2. fields[i].kind = "long" /\ fields[i].off = o
    BY <2>1
  <2>3. NamesIn(fields[i]) = DataAt(table + o) \cap Names
    BY <2>2, Zenon DEF NamesIn
  <2>4. /\ strtab.len \in Nat /\ BaseOf \in Nat /\ Start \in Nat
        /\ o \in Nat /\ o < strtab.len /\ HeaderSize(strtab.len) + strtab.len <= Start
        /\ HeaderSize(strtab.len) = HeaderLen
        /\ table + o = BaseOf + HeaderSize(strtab.len) + o
    <3>1. strtab.len \in Nat /\ BaseOf \in Nat /\ Start \in Nat
          /\ (strtab.len # 0 => HeaderSize(strtab.len) + strtab.len <= Start)
      BY Positions
    <3>2. o \in Nat /\ o < strtab.len /\ strtab.len # 0
      BY <2>1, <3>1
    <3>3. HeaderSize(strtab.len) = HeaderLen
      BY <3>1, <3>2, SizeFacts
    <3> QED  BY <3>1, <3>2, <3>3
  <2>5. ASSUME NEW d \in out.data, d.at = table + o PROVE d.what = n
    <3>1. CASE \E e \in strtab.data : d = [at |-> BaseOf + HeaderSize(strtab.len) + e.at, what |-> e.what]
      <4> PICK e \in strtab.data : d = [at |-> BaseOf + HeaderSize(strtab.len) + e.at, what |-> e.what]
        BY <3>1
      <4>1. e.at \in Nat
        BY DEF IInv, NamesInv
      <4>2. e.at = o
        BY <2>4, <2>5, <4>1 DEF HeaderLen
      <4> QED  BY <2>1, <4>2
    <3>2. CASE \E j \in DOMAIN ms : d = [at |-> BaseOf + NextAt(j) + HeaderSize(ms[j].size), what |-> j]
      <4> PICK j \in DOMAIN ms : d = [at |-> BaseOf + NextAt(j) + HeaderSize(ms[j].size), what |-> j]
        BY <3>2
      <4>1. NextAt(j) \in Nat /\ Start <= NextAt(j)
            /\ HeaderSize(ms[j].size) \in Nat /\ HeaderLen <= HeaderSize(ms[j].size)
        <5>1. j \in 1..Len(ms) + 1
          BY Positions
        <5> QED  BY <5>1, Positions
      <4> QED  BY <2>4, <2>5, <4>1 DEF HeaderLen
    <3> QED  BY <3>1, <3>2, DataOfFile
  <2>6. [at |-> table + o, what |-> n] \in out.data
    BY <2>1, <2>4, DataOfFile
  <2>7. DataAt(table + o) \cap Names = {n}
    <3>1. ASSUME NEW x \in DataAt(table + o) PROVE x = n
      BY <2>5 DEF DataAt
    <3>2. n \in DataAt(table + o)
      BY <2>6 DEF DataAt
    <3> QED  BY <1>1, <3>1, <3>2
  <2> QED  BY <2>2, <2>3, <2>7
<1> QED  BY <1>3, <1>4

\* A reader at the end of an odd or even part skips its padding.
LEMMA Skip ==
  ASSUME NEW b \in Nat, b % 2 = 0, NEW n \in Nat, NEW z \in Nat
  PROVE  EvenUp(b + n + HeaderLen + z) = b + EvenUp(n + HeaderLen + z)
<1>1. n + HeaderLen + z \in Nat /\ b + n + HeaderLen + z = b + (n + HeaderLen + z)
  BY DEF HeaderLen
<1> QED  BY <1>1, Even

\* A step of the reader writes nothing.
LEMMA ReaderKeeps ==
  ASSUME IInv, pc \in {"read", "done", "failed"}, pc' \in {"read", "done", "failed"},
         UNCHANGED <<ms, indexed, k, strtab, fields, body, offsets, index, out>>
  PROVE  /\ Basics' /\ NamesInv' /\ BodyInv' /\ OutInv'
         /\ BaseOf' = BaseOf /\ \A i : NextAt(i)' = NextAt(i)
         /\ IndexPassed' = IndexPassed /\ Oversized' = Oversized
<1> USE DEF IInv
<1>1. Basics' /\ NamesInv'
  BY DEF Basics, NamesInv, FieldFor
<1>2. BodyInv'
  BY DEF BodyInv, NextAt, Start, TableHeader, MemberHeader, MemberData
<1>3. /\ BaseOf' = BaseOf /\ PayloadLen' = PayloadLen /\ BodyBase' = BodyBase /\ Defined' = Defined
      /\ IndexHeader' = IndexHeader /\ \A s : First(s)' = First(s)
      /\ \A i : NextAt(i)' = NextAt(i)
  BY DEF BaseOf, BodyBase, PayloadLen, Defined, IndexHeader, First, NextAt
<1>4. OutInv'
  BY <1>3 DEF OutInv
<1>5. IndexPassed' = IndexPassed /\ Oversized' = Oversized
  BY <1>3 DEF IndexPassed, Oversized
<1> QED  BY <1>1, <1>2, <1>3, <1>4, <1>5

\* From the index to the table to the first member.
LEMMA ReadSpecialInv == IInv /\ ReadSpecial => IInv'
<1> SUFFICES ASSUME IInv, ReadSpecial PROVE IInv'
  OBVIOUS
<1>1. /\ pc = "read" /\ pc' = "read" /\ pos < out.len
      /\ UNCHANGED <<ms, indexed, k, strtab, fields, body, offsets, index, out, got>>
  BY DEF ReadSpecial
<1>2. /\ Basics' /\ NamesInv' /\ BodyInv' /\ OutInv'
      /\ BaseOf' = BaseOf /\ \A i : NextAt(i)' = NextAt(i)
      /\ IndexPassed' = IndexPassed /\ Oversized' = Oversized
  BY <1>1, ReaderKeeps
<1>3. PICK h \in Headers :
        /\ h.field.kind \in {"/", "//"} /\ Fits(h.size)
        /\ table' = IF h.field.kind = "//" THEN pos + HeaderLen ELSE table
        /\ pos' = EvenUp(pos + HeaderLen + h.size)
  BY DEF ReadSpecial
<1>4. /\ BaseOf \in Nat /\ BaseOf % 2 = 0 /\ Start \in Nat /\ strtab.len \in Nat
      /\ NextAt(1) = Start /\ Len(ms) \in Nat
      /\ strtab.len = 0 => Start = 0
      /\ strtab.len # 0 => Start = EvenUp(HeaderSize(strtab.len) + strtab.len)
  BY <1>1, Positions, StartFacts
<1>5. table \in Nat
  BY DEF IInv, ReadInv
<1>6. Len(<<>>) = 0 /\ Len(<<>>) + 1 = 1 /\ BaseOf + 0 = BaseOf
  BY <1>4
<1>7. CASE got = <<>> /\ pos = MagicLen /\ indexed
  <2>1. h = IndexHeader
    BY <1>1, <1>3, <1>7, AtSpecial
  <2>2. h.field.kind = "/" /\ h.size = PayloadLen
    BY <2>1 DEF IndexHeader
  <2>3. table' = table /\ pos' = BaseOf /\ IndexPassed
    <3>1. Fits(PayloadLen) /\ PayloadLen \in Nat
      BY <1>3, <2>2, BaseFacts DEF IInv, Basics
    <3>2. HeaderSize(PayloadLen) = HeaderLen
      BY <3>1, SizeFacts
    <3> QED  BY <1>3, <1>7, <2>2, <3>1, <3>2, BaseFacts DEF IInv, Basics, IndexPassed
  <2>4. strtab.len = 0 => pos' = BaseOf + NextAt(1)
    BY <1>4, <1>6, <2>3
  <2>5. ReadInv'
    BY <1>1, <1>2, <1>4, <1>5, <1>6, <1>7, <2>3, <2>4 DEF IInv, ReadInv
  <2> QED  BY <1>2, <2>5 DEF IInv
<1>8. CASE IndexPassed /\ got = <<>> /\ pos = BaseOf /\ strtab.len # 0
  <2>1. h = [at |-> BaseOf, field |-> [kind |-> "//"], size |-> strtab.len]
    BY <1>1, <1>3, <1>8, AtSpecial
  <2>2. h.field.kind = "//" /\ h.size = strtab.len
    BY <2>1
  <2>3. table' = BaseOf + HeaderLen /\ table' \in Nat /\ Fits(strtab.len) /\ HeaderSize(strtab.len) = HeaderLen
    <3>1. Fits(strtab.len) /\ table' = BaseOf + HeaderLen
      BY <1>3, <1>8, <2>2
    <3>2. HeaderSize(strtab.len) = HeaderLen
      BY <1>4, <3>1, SizeFacts
    <3> QED  BY <1>4, <3>1, <3>2 DEF HeaderLen
  <2>4. pos' = BaseOf + NextAt(1)
    <3>1. EvenUp(BaseOf + (HeaderLen + strtab.len)) = BaseOf + EvenUp(HeaderLen + strtab.len)
      <4>1. HeaderLen + strtab.len \in Nat
        BY <1>4 DEF HeaderLen
      <4> QED  BY <1>4, <4>1, Even
    <3>2. BaseOf + (HeaderLen + strtab.len) = BaseOf + HeaderLen + strtab.len
      BY <1>4 DEF HeaderLen
    <3> QED  BY <1>3, <1>4, <1>8, <2>2, <2>3, <3>1, <3>2
  <2>5. ReadInv'
    BY <1>1, <1>2, <1>4, <1>6, <1>8, <2>3, <2>4 DEF IInv, ReadInv
  <2> QED  BY <1>2, <2>5 DEF IInv
<1>9. CASE /\ Len(got) <= Len(ms)
           /\ pos = BaseOf + NextAt(Len(got) + 1)
           /\ strtab.len # 0 => table = BaseOf + HeaderLen /\ Fits(strtab.len)
  <2>1. Len(got) \in Nat
    BY DEF IInv, ReadInv
  <2>2. Len(got) # Len(ms)
    <3>1. out.len = BaseOf + NextAt(Len(ms) + 1) /\ NextAt(Len(ms) + 1) \in Nat
      BY <1>1, Positions DEF IInv, OutInv, BodyInv
    <3> QED  BY <1>1, <1>4, <1>9, <3>1
  <2> DEFINE i == Len(got) + 1
  <2>3. i \in DOMAIN ms
    BY <1>1, <1>4, <1>9, <2>1, <2>2, Positions
  <2> HIDE DEF i
  <2>4. h = Moved(i) /\ fields[i].kind \notin {"/", "//"}
    BY <1>1, <1>3, <1>9, <2>3, AtMember, NameFound DEF i
  <2> QED  BY <1>3, <2>4 DEF Moved
<1> QED  BY <1>1, <1>7, <1>8, <1>9 DEF IInv, ReadInv

\* From one member to the next.
LEMMA ReadMemberInv == IInv /\ ReadMember => IInv'
<1> SUFFICES ASSUME IInv, ReadMember PROVE IInv'
  OBVIOUS
<1>1. /\ pc = "read" /\ pc' = "read" /\ pos < out.len
      /\ UNCHANGED <<ms, indexed, k, strtab, fields, body, offsets, index, out, table>>
  BY DEF ReadMember
<1>2. /\ Basics' /\ NamesInv' /\ BodyInv' /\ OutInv'
      /\ BaseOf' = BaseOf /\ \A i : NextAt(i)' = NextAt(i)
      /\ IndexPassed' = IndexPassed /\ Oversized' = Oversized
  BY <1>1, ReaderKeeps
<1>3. PICK h \in Headers :
        /\ h.field.kind \notin {"/", "//"} /\ Fits(h.size)
        /\ got' = Append(got, [name |-> NamesIn(h.field), size |-> h.size,
                               data |-> DataAt(pos + HeaderLen)])
        /\ pos' = EvenUp(pos + HeaderLen + h.size)
  BY DEF ReadMember
<1>4. ~(got = <<>> /\ pos = MagicLen /\ indexed)
  BY <1>1, <1>3, AtSpecial DEF IndexHeader
<1>5. ~(got = <<>> /\ pos = BaseOf /\ strtab.len # 0)
  BY <1>1, <1>3, AtSpecial
<1>6. /\ Len(got) <= Len(ms)
      /\ pos = BaseOf + NextAt(Len(got) + 1)
      /\ IndexPassed
      /\ strtab.len # 0 => table = BaseOf + HeaderLen /\ Fits(strtab.len)
  BY <1>1, <1>4, <1>5 DEF IInv, ReadInv
<1>7. /\ BaseOf \in Nat /\ BaseOf % 2 = 0 /\ Len(ms) \in Nat /\ Len(got) \in Nat
      /\ got \in Seq([name : SUBSET Names, size : Nat, data : SUBSET Nat])
  BY <1>1, Positions DEF IInv, ReadInv
<1> DEFINE i == Len(got) + 1
           m == [name |-> {ms[i].name}, size |-> ms[i].size, data |-> {i}]
<1>8. i \in DOMAIN ms
  <2>1. out.len = BaseOf + NextAt(Len(ms) + 1) /\ NextAt(Len(ms) + 1) \in Nat
    BY <1>1, Positions DEF IInv, OutInv, BodyInv
  <2>2. Len(got) # Len(ms)
    BY <1>1, <1>6, <1>7, <2>1
  <2> QED  BY <1>1, <1>6, <1>7, <2>2, Positions
<1> HIDE DEF i
<1>9. /\ h = Moved(i) /\ Fits(ms[i].size) /\ DataAt(pos + HeaderLen) = {i}
      /\ NamesIn(fields[i]) = {ms[i].name}
  <2>1. h = Moved(i) /\ NamesIn(fields[i]) = {ms[i].name}
    BY <1>1, <1>3, <1>6, <1>8, AtMember, NameFound DEF i
  <2>2. Fits(ms[i].size)
    BY <1>3, <2>1 DEF Moved
  <2> QED  BY <1>1, <1>6, <1>8, <2>1, <2>2, AtMember DEF i
<1>10. h.field = fields[i] /\ h.size = ms[i].size
  BY <1>9 DEF Moved
<1>11. got' = Append(got, m)
  BY <1>3, <1>9, <1>10
<1>12. m \in [name : SUBSET Names, size : Nat, data : SUBSET Nat]
  <2>1. ms[i] \in Member /\ i \in Nat
    BY <1>7, <1>8 DEF IInv, Basics, i
  <2> QED  BY <2>1 DEF Member
<1> HIDE DEF m
<1>13. /\ got' \in Seq([name : SUBSET Names, size : Nat, data : SUBSET Nat])
       /\ Len(got') = i /\ DOMAIN got' = 1..i /\ got'[i] = m
       /\ \A j \in 1..Len(got) : got'[j] = got[j]
  BY <1>7, <1>11, <1>12 DEF i
<1>14. pos' = BaseOf + NextAt(i + 1)
  <2>1. NextAt(i + 1) = EvenUp(NextAt(i) + HeaderLen + ms[i].size)
    <3>1. NextAt(i + 1) = EvenUp(NextAt(i) + HeaderSize(ms[i].size) + ms[i].size)
      BY <1>1, <1>8, Positions DEF IInv, BodyInv
    <3>2. HeaderSize(ms[i].size) = HeaderLen
      BY <1>1, <1>8, <1>9, Positions, SizeFacts
    <3> QED  BY <3>1, <3>2
  <2>2. NextAt(i) \in Nat /\ ms[i].size \in Nat
    BY <1>1, <1>8, Positions
  <2>3. EvenUp(BaseOf + NextAt(i) + HeaderLen + ms[i].size) = BaseOf + EvenUp(NextAt(i) + HeaderLen + ms[i].size)
    <3>1. BaseOf \in Nat /\ BaseOf % 2 = 0
      BY <1>7
    <3> HIDE DEF i
    <3> QED  BY <2>2, <3>1, Skip
  <2> QED  BY <1>3, <1>6, <1>10, <2>1, <2>3 DEF i
<1>15. \A j \in DOMAIN got' : j \in DOMAIN ms /\ got'[j] = [name |-> {ms[j].name}, size |-> ms[j].size, data |-> {j}]
                               /\ Fits(ms[j].size)
  <2> TAKE j \in DOMAIN got'
  <2>1. CASE j = i
    BY <1>8, <1>9, <1>13, <2>1 DEF m
  <2>2. CASE j # i
    <3>1. j \in 1..Len(got) /\ j \in DOMAIN got
      BY <1>7, <1>13, <2>2 DEF i
    <3> QED  BY <1>13, <3>1 DEF IInv, ReadInv
  <2> QED  BY <2>1, <2>2
<1>16. i <= Len(ms)
  BY <1>1, <1>8, Positions
<1>17. ReadInv'
  BY <1>1, <1>2, <1>6, <1>13, <1>14, <1>15, <1>16 DEF IInv, ReadInv
<1> QED  BY <1>2, <1>17 DEF IInv

\* It fails at a size that is too long for its field.
LEMMA ReadFailsInv == IInv /\ ReadFails => IInv'
<1> SUFFICES ASSUME IInv, ReadFails PROVE IInv'
  OBVIOUS
<1>1. /\ pc = "read" /\ pc' = "failed" /\ pos < out.len
      /\ UNCHANGED <<ms, indexed, k, strtab, fields, body, offsets, index, out, pos, table, got>>
  BY DEF ReadFails
<1>2. /\ Basics' /\ NamesInv' /\ BodyInv' /\ OutInv'
      /\ BaseOf' = BaseOf /\ \A i : NextAt(i)' = NextAt(i)
      /\ IndexPassed' = IndexPassed /\ Oversized' = Oversized
  BY <1>1, ReaderKeeps
<1>3. PICK h \in out.hdr : ~Fits(h.size)
  BY DEF ReadFails, Headers
<1>4. Oversized
  <2>1. CASE indexed /\ h = IndexHeader
    BY <1>3, <2>1 DEF Oversized, IndexHeader
  <2>2. CASE strtab.len # 0 /\ h = [at |-> BaseOf, field |-> [kind |-> "//"], size |-> strtab.len]
    BY <1>3, <2>2 DEF Oversized
  <2>3. CASE \E i \in DOMAIN ms : h = Moved(i)
    BY <1>3, <2>3 DEF Oversized, Moved
  <2> QED  BY <1>1, <2>1, <2>2, <2>3, HeadersOfFile
<1>5. ReadInv'
  BY <1>1, <1>2, <1>4 DEF IInv, ReadInv
<1> QED  BY <1>2, <1>5 DEF IInv

\* At the end it has found all.
LEMMA EndOfFileInv == IInv /\ EndOfFile => IInv'
<1> SUFFICES ASSUME IInv, EndOfFile PROVE IInv'
  OBVIOUS
<1>1. /\ pc = "read" /\ pc' = "done" /\ pos >= out.len
      /\ UNCHANGED <<ms, indexed, k, strtab, fields, body, offsets, index, out, pos, table, got>>
  BY DEF EndOfFile
<1>2. /\ Basics' /\ NamesInv' /\ BodyInv' /\ OutInv'
      /\ BaseOf' = BaseOf /\ \A i : NextAt(i)' = NextAt(i)
      /\ IndexPassed' = IndexPassed /\ Oversized' = Oversized
  BY <1>1, ReaderKeeps
<1>3. /\ out.len = BaseOf + NextAt(Len(ms) + 1) /\ NextAt(Len(ms) + 1) \in Nat
      /\ Start <= NextAt(Len(ms) + 1) /\ Start \in Nat /\ BaseOf \in Nat /\ Len(ms) \in Nat
      /\ strtab.len \in Nat
      /\ strtab.len # 0 => HeaderSize(strtab.len) + strtab.len <= Start
      /\ HeaderSize(strtab.len) \in Nat /\ HeaderLen <= HeaderSize(strtab.len)
      /\ indexed => MagicLen + HeaderLen <= BaseOf
  <2>1. out.len = BaseOf + NextAt(Len(ms) + 1) /\ NextAt(Len(ms) + 1) \in Nat /\ Len(ms) \in Nat
    BY <1>1, Positions DEF IInv, OutInv, BodyInv
  <2>2. Len(ms) + 1 \in 1..Len(ms) + 1
    BY <2>1
  <2> QED  BY <1>1, <2>1, <2>2, Positions
<1>4. ~(pos = MagicLen /\ indexed)
  BY <1>1, <1>3 DEF MagicLen, HeaderLen
<1>5. ~(pos = BaseOf /\ strtab.len # 0)
  BY <1>1, <1>3 DEF HeaderLen
<1>6. /\ Len(got) <= Len(ms)
      /\ pos = BaseOf + NextAt(Len(got) + 1)
      /\ IndexPassed
      /\ strtab.len # 0 => table = BaseOf + HeaderLen /\ Fits(strtab.len)
      /\ Len(got) \in Nat
  BY <1>1, <1>4, <1>5 DEF IInv, ReadInv
<1>7. Len(got) = Len(ms)
  <2> SUFFICES ASSUME Len(got) < Len(ms) PROVE FALSE
    BY <1>3, <1>6
  <2>1. Len(got) + 1 \in 1..Len(ms) + 1 /\ Len(ms) + 1 \in 1..Len(ms) + 1 /\ Len(got) + 1 < Len(ms) + 1
    BY <1>3, <1>6
  <2>2. NextAt(Len(got) + 1) + HeaderLen <= NextAt(Len(ms) + 1) /\ NextAt(Len(got) + 1) \in Nat
    <3>1. Len(got) + 1 \in DOMAIN ms
      BY <1>1, <1>3, <1>6, Positions
    <3> QED  BY <1>1, <2>1, <3>1, Positions
  <2> QED  BY <1>1, <1>3, <1>6, <2>2 DEF HeaderLen
<1>8. ~Oversized
  <2>1. \A i \in DOMAIN ms : Fits(ms[i].size)
    <3>1. DOMAIN got = DOMAIN ms
      BY <1>1, <1>7, Positions DEF IInv, ReadInv
    <3> QED  BY <3>1 DEF IInv, ReadInv
  <2>2. Fits(strtab.len)
    BY <1>6, NothingFits
  <2> QED  BY <1>6, <2>1, <2>2 DEF Oversized, IndexPassed
<1>9. ReadInv'
  BY <1>1, <1>2, <1>6, <1>7, <1>8 DEF IInv, ReadInv
<1> QED  BY <1>2, <1>9 DEF IInv

\* No step breaks the invariant.
LEMMA NextIInv == IInv /\ [Next]_vars => IInv'
<1> SUFFICES ASSUME IInv, [Next]_vars PROVE IInv'
  OBVIOUS
<1>1. CASE UNCHANGED vars
  <2>1. Basics' /\ NamesInv'
    <3>1. UNCHANGED <<ms, indexed, pc, k, strtab, fields>>
      BY <1>1 DEF vars
    <3>2. Basics'
      BY <3>1 DEF IInv, Basics
    <3>3. \A i : FieldFor(i)' <=> FieldFor(i)
      BY <3>1, Zenon DEF FieldFor
    <3>4. NamesInv'
      <4>1. \A i \in DOMAIN fields : FieldFor(i)'
        BY <3>3, Zenon DEF IInv, NamesInv
      <4>2. /\ strtab'.len \in Nat
            /\ \A d \in strtab'.data : d \in [at : Nat, what : Names] /\ d.at < strtab'.len
            /\ fields' \in Seq(NameFieldType)
            /\ Len(fields)' = IF pc' = "names" THEN k' - 1 ELSE Len(ms)'
        BY <3>1, Zenon DEF IInv, NamesInv
      <4> QED  BY <3>1, <4>1, <4>2, Zenon DEF NamesInv
    <3> QED  BY <3>2, <3>4
  <2>2. BodyInv'
    BY <1>1 DEF vars, IInv, BodyInv, NextAt, Start, TableHeader, MemberHeader, MemberData
  <2>3. OutInv'
    <3>1. UNCHANGED <<ms, indexed, pc, body, offsets, index, out, pos, table, got>>
      BY <1>1 DEF vars
    <3>2. /\ BaseOf' = BaseOf /\ PayloadLen' = PayloadLen /\ BodyBase' = BodyBase /\ Defined' = Defined
          /\ IndexHeader' = IndexHeader /\ \A s : First(s)' = First(s)
      BY <3>1 DEF BaseOf, BodyBase, PayloadLen, Defined, IndexHeader, First
    <3> QED  BY <3>1, <3>2 DEF IInv, OutInv
  <2>4. ReadInv'
    BY <1>1 DEF vars, IInv, ReadInv, BaseOf, BodyBase, PayloadLen, Defined, NextAt, IndexPassed, Oversized
  <2> QED  BY <2>1, <2>2, <2>3, <2>4 DEF IInv
<1> QED  BY <1>1, NameFieldInv, NameTableInv, PutMemberInv, PutIndexInv, ReadSpecialInv, ReadMemberInv,
            ReadFailsInv, EndOfFileInv DEF Next, Terminated

\* The invariant holds throughout.
LEMMA Invariance == Spec => []IInv
BY InitIInv, NextIInv, PTL DEF Spec
-----------------------------------------------------------------------------
(***************************************************************************)
(* The theorems.                                                           *)
(***************************************************************************)

\* What is in the file is headers and data.
LEMMA Buffers == IInv => IsBuffer(body) /\ IsBuffer(out)
<1> SUFFICES ASSUME IInv PROVE IsBuffer(body) /\ IsBuffer(out)
  OBVIOUS
<1> USE DEF IInv
<1>1. CASE pc = "names"
  BY <1>1 DEF BodyInv, OutInv, IsBuffer, Empty, MagicLen
<1>2. CASE pc # "names"
  <2>1. \A i \in DOMAIN offsets : offsets[i] \in Nat /\ i \in Nat /\ i \in DOMAIN ms /\ i \in DOMAIN fields
    BY SMTT(30), <1>2 DEF Basics, BodyInv, NamesInv
  <2>2. \A i \in DOMAIN offsets : MemberHeader(i) \in HeaderType /\ MemberData(i) \in DataType
    <3> TAKE i \in DOMAIN offsets
    <3>1. ms[i] \in Member /\ fields[i] \in NameFieldType
      BY <2>1 DEF Basics, NamesInv
    <3>2. ms[i].size \in Nat
      BY <3>1 DEF Member
    <3>3. HeaderSize(ms[i].size) \in Nat
      BY <3>2, SizeFacts
    <3> QED  BY <2>1, <3>1, <3>2, <3>3 DEF MemberHeader, MemberData, HeaderType, DataType
  <2>3. TableHeader \in HeaderType
    BY DEF TableHeader, HeaderType, NamesInv
  <2>4. \A d \in MoveData(strtab.data, HeaderSize(strtab.len)) : d \in DataType
    <3> TAKE d \in MoveData(strtab.data, HeaderSize(strtab.len))
    <3>1. PICK e \in strtab.data : d = [at |-> e.at + HeaderSize(strtab.len), what |-> e.what]
      BY DEF MoveData
    <3>2. e.at \in Nat /\ e.what \in Names /\ HeaderSize(strtab.len) \in Nat
      BY SizeFacts DEF NamesInv
    <3> QED  BY <3>1, <3>2 DEF DataType
  <2>5. IsBuffer(body)
    <3>1. \A h \in body.hdr : h = TableHeader \/ \E i \in DOMAIN offsets : h = MemberHeader(i)
      BY <1>2 DEF BodyInv
    <3>2. \A h \in body.hdr : h \in HeaderType
      BY <2>2, <2>3, <3>1
    <3>3. \A d \in body.data : d \in DataType
      BY <1>2, <2>2, <2>4 DEF BodyInv
    <3> QED  BY <3>2, <3>3 DEF IsBuffer, BodyInv
  <2>6. CASE pc = "body"
    BY <2>5, <2>6 DEF OutInv, IsBuffer, Empty, MagicLen
  <2>7. CASE pc \in {"read", "done", "failed"}
    <3>1. BaseOf \in Nat /\ PayloadLen \in Nat
      BY BaseFacts DEF Basics
    <3>2. out.len \in Nat
      BY <2>5, <2>7, <3>1 DEF OutInv, IsBuffer
    <3>3. IndexHeader \in HeaderType
      BY <3>1 DEF IndexHeader, HeaderType, MagicLen
    <3>4. \A h \in MoveHdr(body.hdr, BaseOf) : h \in HeaderType
      <4> TAKE h \in MoveHdr(body.hdr, BaseOf)
      <4>1. PICK g \in body.hdr : h = [at |-> g.at + BaseOf, field |-> g.field, size |-> g.size]
        BY DEF MoveHdr
      <4>2. g \in HeaderType
        BY <2>5 DEF IsBuffer
      <4> QED  BY <3>1, <4>1, <4>2 DEF HeaderType
    <3>5. \A d \in MoveData(body.data, BaseOf) : d \in DataType
      <4> TAKE d \in MoveData(body.data, BaseOf)
      <4>1. PICK e \in body.data : d = [at |-> e.at + BaseOf, what |-> e.what]
        BY DEF MoveData
      <4>2. e \in DataType
        BY <2>5 DEF IsBuffer
      <4> QED  BY <3>1, <4>1, <4>2 DEF DataType
    <3>6. IsBuffer(out)
      BY <2>7, <3>2, <3>3, <3>4, <3>5 DEF OutInv, IsBuffer
    <3> QED  BY <2>5, <3>6
  <2> QED  BY <1>2, <2>5, <2>6, <2>7 DEF Basics
<1> QED  BY <1>1, <1>2

\* Everything has its type: to_bytes produces headers and data, at positions.
THEOREM TypeCorrect == Spec => []TypeOK
<1>1. IInv => TypeOK
  <2> SUFFICES ASSUME IInv PROVE TypeOK
    OBVIOUS
  <2>1. IsBuffer(body) /\ IsBuffer(out)
    BY Buffers
  <2>2. \A d \in strtab.data : d \in DataType
    BY DEF IInv, NamesInv, DataType
  <2>3. \A i \in DOMAIN fields : fields[i] \in NameFieldType
    BY DEF IInv, NamesInv
  <2>4. \A i \in DOMAIN offsets : offsets[i] \in Nat
    BY DEF IInv, BodyInv
  <2>5. pos \in Nat
    <3>1. CASE pc \in {"names", "body"}
      BY <3>1 DEF IInv, OutInv, MagicLen
    <3>2. CASE pc \in {"read", "done", "failed"}
      <4>1. got \in Seq([name : SUBSET Names, size : Nat, data : SUBSET Nat])
        BY DEF IInv, ReadInv
      <4>2. Len(got) \in Nat
        BY <4>1
      <4>3. Len(got) <= Len(ms) => Len(got) + 1 \in 1..Len(ms) + 1
        BY <3>2, <4>2, Positions
      <4>4. BaseOf \in Nat /\ (Len(got) <= Len(ms) => NextAt(Len(got) + 1) \in Nat)
        BY <3>2, <4>3, Positions
      <4> QED  BY <3>2, <4>4 DEF IInv, ReadInv, MagicLen
    <3> QED  BY <3>1, <3>2 DEF IInv, Basics
  <2> QED  BY <2>1, <2>2, <2>3, <2>4, <2>5 DEF IInv, Basics, NamesInv, ReadInv, TypeOK
<1> QED  BY <1>1, Invariance, PTL

\* The reader finds every member, in order, with its name, size and data, and
\* nothing else: for any number of members, names of any length, members of
\* any size and any symbols, where every size fits its field.  Where one does
\* not, it fails, and nowhere else.
THEOREM ReadsWhatWasWritten == Spec => []RoundTrip
<1>1. IInv => RoundTrip
  <2> SUFFICES ASSUME IInv PROVE RoundTrip
    OBVIOUS
  <2>1. ASSUME pc = "read", pos < out.len PROVE Cardinality(Headers) = 1
    <3>1. \E h : Headers = {h}
      <4>1. CASE pos = MagicLen /\ indexed
        BY <2>1, <4>1, AtSpecial
      <4>2. CASE pos = BaseOf /\ strtab.len # 0
        BY <2>1, <4>2, AtSpecial
      <4>3. CASE Len(got) <= Len(ms) /\ pos = BaseOf + NextAt(Len(got) + 1)
        <5>1. Len(got) \in Nat
          BY DEF IInv, ReadInv
        <5>2. out.len = BaseOf + NextAt(Len(ms) + 1) /\ NextAt(Len(ms) + 1) \in Nat /\ BaseOf \in Nat
          BY <2>1, Positions DEF IInv, OutInv, BodyInv
        <5>3. Len(got) # Len(ms)
          BY <2>1, <4>3, <5>2
        <5>4. Len(got) + 1 \in DOMAIN ms
          BY <2>1, <4>3, <5>1, <5>3, Positions
        <5> QED  BY <2>1, <4>3, <5>4, AtMember
      <4> QED  BY <2>1, <4>1, <4>2, <4>3 DEF IInv, ReadInv
    <3> QED  BY <3>1, FS_Singleton, Zenon
  <2> QED  BY <2>1 DEF RoundTrip, IInv, ReadInv
<1> QED  BY <1>1, Invariance, PTL

\* A number below the limit is what it is modulo the limit.
LEMMA SmallMod ==
  ASSUME NEW x \in Nat, NEW w \in Nat, x < w
  PROVE  x % w = x
OBVIOUS

\* Every set of naturals has a least element.
LEMMA Least ==
  ASSUME NEW T \in SUBSET Nat, T # {}
  PROVE  \E m \in T : \A x \in T : m <= x
<1> DEFINE R == {ss \in Nat \X Nat : ss[1] < ss[2]}
<1>1. IsWellFoundedOn(R, Nat)
  BY NatLessThanWellFounded, Zenon DEF OpToRel
<1>2. PICK m \in T : \A y \in T : <<y, m>> \notin R
  <2> HIDE DEF R
  <2> QED  BY <1>1, WFMin, Zenon
<1>3. \A y \in T : ~(y < m)
  BY <1>2
<1> QED  BY <1>3

\* Some member is the first that defines a symbol.
LEMMA FirstDefines ==
  ASSUME ms \in Seq(Member), NEW s \in Defined
  PROVE  First(s) \in DOMAIN ms /\ s \in ms[First(s)].defs
<1> DEFINE T == {i \in DOMAIN ms : s \in ms[i].defs}
<1>1. T \in SUBSET Nat /\ T # {}
  BY DEF Defined
<1>2. PICK m \in T : \A x \in T : m <= x
  <2> HIDE DEF T
  <2> QED  BY <1>1, Least
<1>3. m \in DOMAIN ms /\ s \in ms[m].defs /\ \A j \in DOMAIN ms : s \in ms[j].defs => m <= j
  BY <1>2
<1> QED  BY <1>3, Zenon DEF First

\* The offsets that are computed before the index is written are right, for any
\* archive whose file is below the limit of a 32-bit offset.
THEOREM IndexIsRight == Spec => []IndexResolves
<1>1. IInv => IndexResolves
  <2> SUFFICES ASSUME IInv, pc = "done", indexed, out.len < Wrap, NEW s \in Defined
               PROVE  /\ \E h \in out.hdr : h.at = index[s] /\ h.size = ms[First(s)].size
                      /\ DataAt(index[s] + HeaderLen) = {First(s)}
    BY DEF IndexResolves
  <2> DEFINE i == First(s)
  <2>1. i \in DOMAIN ms
    BY FirstDefines DEF IInv, Basics
  <2>2. /\ BaseOf \in Nat /\ NextAt(i) \in Nat /\ NextAt(i) = offsets[i] /\ BaseOf = BodyBase
        /\ Fits(ms[i].size) /\ ms[i].size \in Nat
        /\ out.len = BaseOf + NextAt(Len(ms) + 1) /\ NextAt(Len(ms) + 1) \in Nat
    <3>1. BaseOf = BodyBase /\ Fits(ms[i].size)
      <4>1. ~Oversized
        BY DEF IInv, ReadInv
      <4> HIDE DEF i
      <4> QED  BY <2>1, <4>1, BaseFacts DEF IInv, Basics, Oversized, IndexPassed
    <3>2. /\ out.len = BaseOf + NextAt(Len(ms) + 1) /\ NextAt(Len(ms) + 1) \in Nat
          /\ \A j \in DOMAIN ms : NextAt(j) \in Nat
      BY Positions DEF IInv, OutInv, BodyInv
    <3> HIDE DEF i
    <3> QED  BY <2>1, <3>1, <3>2, Positions
  <2>3. NextAt(i) <= NextAt(Len(ms) + 1)
    <3>1. i \in 1..Len(ms) + 1 /\ Len(ms) + 1 \in 1..Len(ms) + 1 /\ i < Len(ms) + 1
      BY <2>1, Positions
    <3>2. NextAt(i) + HeaderLen <= NextAt(Len(ms) + 1)
      BY <2>1, <3>1, Positions
    <3> QED  BY <2>2, <3>2 DEF HeaderLen
  <2>4. index[s] = (BaseOf + NextAt(i)) % Wrap
    BY <2>2 DEF IInv, OutInv
  <2>5. BaseOf + NextAt(i) \in Nat /\ BaseOf + NextAt(i) < Wrap
    BY <2>2, <2>3, WrapAssumption
  <2>6. index[s] = BaseOf + NextAt(i)
    BY <2>4, <2>5, SmallMod, WrapAssumption
  <2>7. Moved(i) \in out.hdr /\ Moved(i).at = index[s] /\ Moved(i).size = ms[i].size
    BY <2>1, <2>6, HeadersOfFile DEF Moved
  <2>8. DataAt(index[s] + HeaderLen) = {i}
    <3>1. HeaderSize(ms[i].size) = HeaderLen
      BY <2>2, SizeFacts
    <3> QED  BY <2>1, <2>6, <3>1, DataAtMember
  <2> QED  BY <2>7, <2>8
<1> QED  BY <1>1, Invariance, PTL
=============================================================================
