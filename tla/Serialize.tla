----------------------------- MODULE Serialize -----------------------------
(***************************************************************************)
(* How entries are written and read: src/serialize.rs and src/checksum.rs, *)
(* and the report of src/inspect.rs, which reads them on its own.  They    *)
(* are pure; the entries they are applied to are those of a Slate.         *)
(*                                                                         *)
(* A stream is a sequence of fields, each with its number of bytes.  Every *)
(* reader reads the fields the writer has written, of the same widths, so  *)
(* that bytes and their order within a field make no difference.           *)
(***************************************************************************)
EXTENDS Slate

CONSTANT PayloadSize    \* the bytes of a payload

\* The masks of heights are those of a power of two (serialize.rs:14).
ASSUME SerializeAssumption == /\ \E e \in 0 .. INDEX_SIZE : INDEX_SIZE = 2^e
                              /\ PayloadSize \in [Value -> Nat]

\* The bytes of an entry and its delimiter are the sum of what is written below:
\* index and count, 50 bytes for each inode, the payload with its length, the hash
\* of the leaf, the offset and the checksum.
ASSUME SizeAssumption == \A v \in Value, i \in 1 .. MaxN :
    EntrySize[<<v, i>>] = 8 + 1 + 50 * Len(inodes(i)) + 4 + PayloadSize[v] + 32 + 4 + 8

-----------------------------------------------------------------------------
(* Writing.                                                                *)

\* Hash::SIZE of the default algorithm.
HashSize == 32

Field(size, value) == [size |-> size, value |-> value]

\* A height above 0, kept in the low bits of a byte.
height_bits(j) == (j - 1) % INDEX_SIZE
height_of_bits(b) == (b % INDEX_SIZE) + 1

\* Variant: a fault that ReadersAgree shows.
inode_fields_of_node(k) ==
    <<Field(1, height_bits(k.meta.address.j)), Field(8, k.left.position), Field(8, k.left.i),
      Field(1, k.meta.address.j), Field(HashSize, k.meta.hash)>>
inode_fields(k) ==
    <<Field(1, height_bits(k.meta.address.j)), Field(8, k.left.position), Field(8, k.left.i),
      Field(1, k.left.j), Field(HashSize, k.meta.hash)>>

write_entry_to(e) ==
    <<Field(8, index_of(e)), Field(1, Len(e.inodes))>>
    \o FlattenSeq([k \in 1 .. Len(e.inodes) |-> inode_fields(e.inodes[k])])
    \o <<Field(4, PayloadSize[e.enode.payload]),
         Field(PayloadSize[e.enode.payload], e.enode.payload),
         Field(HashSize, e.enode.meta.hash)>>

bytes_of(fields) == FoldLeft(LAMBDA sum, f : sum + f.size, 0, fields)

\* ChecksumWrite: the delimiter has the bytes before it and a checksum over all
\* that comes before the checksum.
write_data(e) ==
    LET body   == write_entry_to(e)
        offset == Field(4, bytes_of(body))
    IN  body \o <<offset, Field(8, Append(body, offset))>>

-----------------------------------------------------------------------------
(* Reading.                                                                *)

\* read_inodes_from and read_entry_from, which know the position only.
fields_per_inode == 5
read_entry_from(fields, p) ==
    LET i     == fields[1].value
        count == fields[2].value
        field(k, f) == fields[2 + fields_per_inode * (k - 1) + f].value
        j(k)  == IF k = 0 THEN 0 ELSE height_of_bits(field(k, 1))
        inode_at(k) == INode(MetaInfo(Address(i, j(k), p), field(k, 5)),
                             Address(field(k, 3), field(k, 4), field(k, 2)),
                             Address(i, j(k - 1), p))
        rest  == 2 + fields_per_inode * count
    IN  Entry(ENode(MetaInfo(Address(i, 0, p), fields[rest + 3].value), fields[rest + 2].value),
              [k \in 1 .. count |-> inode_at(k)])

\* The number of fields of an entry and its delimiter.
entry_fields(fields) == 2 + fields_per_inode * fields[2].value + 3
data_fields(fields) == entry_fields(fields) + 2

\* check_delimiter of what has been read.
check_delimiter(fields) ==
    LET body == SubSeq(fields, 1, entry_fields(fields))
    IN  /\ fields[Len(body) + 1].value = bytes_of(body)
        /\ fields[Len(body) + 2].value = SubSeq(fields, 1, Len(body) + 1)

\* back_to_safety(4 + 8), the offset, and back_to_safety(offset + 4): the bytes
\* from the end of the storage back to the last entry (storage.rs:240-245).
\* Variant: a fault that ReadersAgree shows.
last_entry_distance_by_offset(fields) == fields[Len(fields) - 1].value
last_entry_distance(fields) == 4 + 8 + fields[Len(fields) - 1].value

-----------------------------------------------------------------------------
(* The report of inspect.rs, which reads a whole storage entry by entry and *)
(* compares each with those it has seen, itself included.                  *)

seen_with(e) == {x \in entries_of(storage) : index_of(x) <= index_of(e)}

\* location.get(i): the position of an entry seen.
location(e, i) == {position_of(x) : x \in {y \in seen_with(e) : index_of(y) = i}}
\* The marks of LEFT lines, of the leaf's HASH and of the CHECKSUM.  location has
\* what is missing as an empty set.
left_mark(e, k) == location(e, e.inodes[k].left.i) = {e.inodes[k].left.position}
leaf_mark(e) == from_bytes(0, e.enode.payload) = e.enode.meta.hash
checksum_mark(e) == check_delimiter(write_data(e))

-----------------------------------------------------------------------------
(* Properties.                                                             *)

\* Reading an entry at the position where it was written gives the entry, its
\* right children and heights included, which are not written (serialize.rs:5-76).
RoundTrip ==
    \A e \in entries_of(storage) :
        /\ check_delimiter(write_data(e))
        /\ data_fields(write_data(e)) = Len(write_data(e))
        /\ read_entry_from(write_data(e), position_of(e)) = e

\* The bytes written are what the writer advances by, and lead back from the
\* end of the storage to the last entry (storage.rs:170-180, 240-247).
LastIsFound ==
    \A e \in entries_of(storage) :
        /\ bytes_of(write_data(e)) = entry_size(e)
        /\ e \in storage_last(storage) =>
              storage.end - last_entry_distance(write_data(e)) = position_of(e)

\* The report finds the links of an intact storage and its checksums in order
\* (inspect.rs:34-119).
InspectAcceptsLinks ==
    \A e \in entries_of(storage) :
        /\ \A k \in 1 .. Len(e.inodes) : left_mark(e, k)
        /\ leaf_mark(e) /\ checksum_mark(e)

\* All that reads the bytes of an entry agrees with what has written them.
ReadersAgree == RoundTrip /\ LastIsFound /\ InspectAcceptsLinks
=============================================================================
