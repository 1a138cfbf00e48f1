------------------------------ MODULE ArLayout ------------------------------
(***************************************************************************)
(* The file that ArchiveBuilder::to_bytes writes, and what a reader finds  *)
(* in it: archive_write.rs to_bytes, write_member_header_raw, pad_even.    *)
(*                                                                         *)
(* A buffer (a Vec<u8>) is its length, the headers in it and the data in   *)
(* it, each with the position it was appended at, which is the length the  *)
(* buffer had then.  So the positions are those of the bytes, and the      *)
(* offsets that the code computes on the side can be compared with them.   *)
(***************************************************************************)
EXTENDS Naturals, Sequences, FiniteSets

CONSTANTS Archives,   \* member lists to write
          Names,      \* member names
          NameLen,    \* their lengths
          Symbols,    \* symbol names
          BlobLen,    \* bytes of the zero-terminated names of a set of symbols
          Overlong,   \* the sizes from which on a size has one digit more than
                      \* the ten of its field: 10^10, 10^11, ... in the code
          Wrap        \* the first offset an entry of the index cannot hold

Member == [name : Names, size : Nat, defs : SUBSET Symbols]

ASSUME ArchivesAssumption == Archives \subseteq Seq(Member)
ASSUME LengthAssumption == NameLen \in [Names -> Nat]
ASSUME SymbolAssumption == IsFiniteSet(Symbols) /\ BlobLen \in [SUBSET Symbols -> Nat]
ASSUME OverlongAssumption == Overlong \subseteq Nat \ {0} /\ IsFiniteSet(Overlong)
ASSUME WrapAssumption == Wrap \in Nat

VARIABLES ms,         \* the members to write
          indexed,    \* write_symbol_index
          pc,         \* the loop to_bytes is in; then the reader
          k,          \* the loop's position
          strtab,     \* the long-name table
          fields,     \* the name field of each member
          body,       \* everything after the symbol index
          offsets,    \* member_offsets: header positions in body
          index,      \* the offsets in the symbol index
          out,        \* the file
          pos,        \* the reader: its position,
          table,      \* where the long names start,
          got         \* and the members it has found

vars == <<ms, indexed, pc, k, strtab, fields, body, offsets, index, out, pos, table, got>>

MagicLen == 8
HeaderLen == 60

\* {size:<10} pads a size to its field and does not cut it: a longer one moves
\* the end of the header and everything behind it.
HeaderSize(size) == HeaderLen + Cardinality({p \in Overlong : p <= size})
Fits(size) == \A p \in Overlong : size < p

\* A name that fits its 16-byte field with the `/` that ends it.
Inline(n) == NameLen[n] < 16

EvenUp(n) == n + (n % 2)

Empty == [len |-> 0, hdr |-> {}, data |-> {}]

MoveHdr(hs, n)  == {[at |-> h.at + n, field |-> h.field, size |-> h.size] : h \in hs}
MoveData(ds, n) == {[at |-> d.at + n, what |-> d.what] : d \in ds}

\* Wrong on purpose (sensitivity check): no padding.
PushMemberUnpadded(v, field, data, size) ==
  [len  |-> v.len + HeaderSize(size) + size,
   hdr  |-> v.hdr \cup {[at |-> v.len, field |-> field, size |-> size]},
   data |-> v.data \cup MoveData(data, v.len + HeaderSize(size))]

\* A header, size bytes with the given data in them, and padding.
PushMember(v, field, data, size) ==
  [len  |-> EvenUp(v.len + HeaderSize(size) + size),
   hdr  |-> v.hdr \cup {[at |-> v.len, field |-> field, size |-> size]},
   data |-> v.data \cup MoveData(data, v.len + HeaderSize(size))]

\* out.extend_from_slice(w)
Concat(v, w) == [len  |-> v.len + w.len,
                 hdr  |-> v.hdr \cup MoveHdr(w.hdr, v.len),
                 data |-> v.data \cup MoveData(w.data, v.len)]

Init ==
  /\ ms \in Archives
  /\ indexed \in BOOLEAN
  /\ pc = "names" /\ k = 1
  /\ strtab = [len |-> 0, data |-> {}]
  /\ fields = <<>>
  /\ body = Empty
  /\ offsets = <<>>
  /\ index = <<>>
  /\ out = [Empty EXCEPT !.len = MagicLen]
  /\ pos = MagicLen /\ table = 0 /\ got = <<>>

\* First loop: the name field of each member, and the table of long names.
NameField ==
  /\ pc = "names" /\ k <= Len(ms)
  /\ LET n == ms[k].name IN
     IF Inline(n)
     THEN /\ fields' = Append(fields, [kind |-> "inline", name |-> n])
          /\ UNCHANGED strtab
     ELSE /\ fields' = Append(fields, [kind |-> "long", off |-> strtab.len])
          /\ strtab' = [len  |-> strtab.len + NameLen[n] + 2,
                        data |-> strtab.data \cup {[at |-> strtab.len, what |-> n]}]
  /\ k' = k + 1
  /\ UNCHANGED <<ms, indexed, pc, body, offsets, index, out, pos, table, got>>

\* The `//` member, if there is a long name.
NameTable ==
  /\ pc = "names" /\ k > Len(ms)
  /\ body' = IF strtab.len = 0 THEN Empty
             ELSE PushMember(Empty, [kind |-> "//"], strtab.data, strtab.len)
  /\ pc' = "body" /\ k' = 1
  /\ UNCHANGED <<ms, indexed, strtab, fields, offsets, index, out, pos, table, got>>

\* Wrong on purpose (sensitivity check): the index of the loop is one too far.
PutMemberTwice ==
  /\ pc = "body" /\ k <= Len(ms)
  /\ offsets' = Append(offsets, body.len)
  /\ body' = PushMember(body, fields[k], {[at |-> 0, what |-> k]}, ms[k].size)
  /\ k' = k + 2
  /\ UNCHANGED <<ms, indexed, pc, strtab, fields, index, out, pos, table, got>>

\* Second loop: the members.
PutMember ==
  /\ pc = "body" /\ k <= Len(ms)
  /\ offsets' = Append(offsets, body.len)
  /\ body' = PushMember(body, fields[k], {[at |-> 0, what |-> k]}, ms[k].size)
  /\ k' = k + 1
  /\ UNCHANGED <<ms, indexed, pc, strtab, fields, index, out, pos, table, got>>

\* build_gnu_symbol_map: the first member that defines a symbol.
Defined == UNION {ms[i].defs : i \in DOMAIN ms}
First(s) == CHOOSE i \in DOMAIN ms :
              s \in ms[i].defs /\ \A j \in DOMAIN ms : s \in ms[j].defs => i <= j

PayloadLen == 4 + 4 * Cardinality(Defined) + BlobLen[Defined]
\* Wrong on purpose (sensitivity check): the padding of the index is forgotten.
BodyBaseUnpadded == MagicLen + HeaderLen + PayloadLen

\* MAGIC.len() + 60 + payload_padded: where body is going to start.
BodyBase == MagicLen + HeaderLen + PayloadLen + (PayloadLen % 2)

\* The symbol index is put in front, its offsets computed ahead (`as u32`).
PutIndex ==
  /\ pc = "body" /\ k > Len(ms)
  /\ IF indexed
     THEN /\ index' = [s \in Defined |-> (BodyBase + offsets[First(s)]) % Wrap]
          /\ out' = Concat(PushMember(out, [kind |-> "/"], {}, PayloadLen), body)
     ELSE /\ out' = Concat(out, body)
          /\ UNCHANGED index
  /\ pc' = "read"
  /\ UNCHANGED <<ms, indexed, k, strtab, fields, body, offsets, pos, table, got>>
-----------------------------------------------------------------------------
(***************************************************************************)
(* A reader of the format, as ArchiveFile::members of the object crate: it *)
(* goes from header to header by the size field, and wants the two bytes   *)
(* that end a header in their place.                                       *)
(***************************************************************************)
Headers == {h \in out.hdr : h.at = pos}
DataAt(p) == {d.what : d \in {e \in out.data : e.at = p}}

\* The names a field can stand for.  Its 16 bytes are all there is of a name.
NamesIn(field) ==
  CASE field.kind = "inline" -> {n \in {field.name} : NameLen[n] <= 16}
    [] field.kind = "long"   -> DataAt(table + field.off) \cap Names
    [] OTHER                 -> {}

\* `/` and `//` are not members; the latter holds the long names.
ReadSpecial ==
  /\ pc = "read" /\ pos < out.len
  /\ \E h \in Headers :
       /\ h.field.kind \in {"/", "//"} /\ Fits(h.size)
       /\ table' = IF h.field.kind = "//" THEN pos + HeaderLen ELSE table
       /\ pos' = EvenUp(pos + HeaderLen + h.size)
  /\ UNCHANGED <<ms, indexed, pc, k, strtab, fields, body, offsets, index, out, got>>

ReadMember ==
  /\ pc = "read" /\ pos < out.len
  /\ \E h \in Headers :
       /\ h.field.kind \notin {"/", "//"} /\ Fits(h.size)
       /\ got' = Append(got, [name |-> NamesIn(h.field), size |-> h.size,
                              data |-> DataAt(pos + HeaderLen)])
       /\ pos' = EvenUp(pos + HeaderLen + h.size)
  /\ UNCHANGED <<ms, indexed, pc, k, strtab, fields, body, offsets, index, out, table>>

\* A header whose size is longer than its field is refused.
ReadFails ==
  /\ pc = "read" /\ pos < out.len
  /\ \E h \in Headers : ~Fits(h.size)
  /\ pc' = "failed"
  /\ UNCHANGED <<ms, indexed, k, strtab, fields, body, offsets, index, out, pos, table, got>>

EndOfFile ==
  /\ pc = "read" /\ pos >= out.len
  /\ pc' = "done"
  /\ UNCHANGED <<ms, indexed, k, strtab, fields, body, offsets, index, out, pos, table, got>>

\* The program ends.
Terminated == pc \in {"done", "failed"} /\ UNCHANGED vars

Next == NameField \/ NameTable \/ PutMember \/ PutIndex
        \/ ReadSpecial \/ ReadMember \/ ReadFails \/ EndOfFile \/ Terminated

Spec == Init /\ [][Next]_vars
-----------------------------------------------------------------------------
(***************************************************************************)
(* Properties.                                                             *)
(***************************************************************************)

NameFieldType ==
  [kind : {"inline"}, name : Names] \cup [kind : {"long"}, off : Nat]
HeaderType ==
  [at : Nat, field : NameFieldType \cup [kind : {"/", "//"}], size : Nat]
DataType == [at : Nat, what : Names \cup Nat]
IsBuffer(v) ==
  /\ v.len \in Nat
  /\ \A h \in v.hdr : h \in HeaderType
  /\ \A d \in v.data : d \in DataType

TypeOK ==
  /\ ms \in Seq(Member)
  /\ indexed \in BOOLEAN
  /\ pc \in {"names", "body", "read", "done", "failed"}
  /\ k \in 1..Len(ms) + 1
  /\ strtab.len \in Nat /\ \A d \in strtab.data : d \in DataType
  /\ \A i \in DOMAIN fields : fields[i] \in NameFieldType
  /\ IsBuffer(body) /\ IsBuffer(out)
  /\ \A i \in DOMAIN offsets : offsets[i] \in Nat
  /\ pos \in Nat /\ table \in Nat

\* A size that is longer than its field: of a member, of the table of long
\* names, or of the symbol index.
Oversized ==
  \/ \E i \in DOMAIN ms : ~Fits(ms[i].size)
  \/ ~Fits(strtab.len)
  \/ indexed /\ ~Fits(PayloadLen)

\* A reader that follows the headers finds every member, in order, with its
\* name, size and data, and nothing else: no name is cut or mistaken for
\* another, and no size or padding sends the reader astray.  It fails on the
\* archives with a size that is longer than its field, and on those only; up to
\* there it finds the members that were written.
RoundTrip ==
  /\ pc = "read" /\ pos < out.len => Cardinality(Headers) = 1
  /\ \A j \in DOMAIN got :
       /\ j \in DOMAIN ms
       /\ got[j] = [name |-> {ms[j].name}, size |-> ms[j].size, data |-> {j}]
  /\ pc = "done" => Len(got) = Len(ms) /\ ~Oversized
  /\ pc = "failed" => Oversized

\* In a file that is read to its end and is below the limit of a 32-bit offset,
\* every entry of the symbol index is the position of the header of the first
\* member that defines the symbol, although the offsets are computed before the
\* index is written.
IndexResolves ==
  pc = "done" /\ indexed /\ out.len < Wrap =>
    \A s \in Defined :
      /\ \E h \in out.hdr : h.at = index[s] /\ h.size = ms[First(s)].size
      /\ DataAt(index[s] + HeaderLen) = {First(s)}
=============================================================================
