------------------------------- MODULE Entry -------------------------------
(***************************************************************************)
(* The records of src/lib.rs that entries are made of, and the Storage     *)
(* trait of src/storage.rs as BlockStorage implements it when no I/O call  *)
(* fails: a map from positions to whole entries, with the position after   *)
(* the last one.                                                           *)
(*                                                                         *)
(* A hash is the term it was computed from, so that two hashes are equal   *)
(* exactly when they were computed from equal inputs: the hash functions   *)
(* are taken to be free of collisions.                                     *)
(***************************************************************************)
EXTENDS Formula

CONSTANTS Value,            \* the payloads
          MaxN,             \* the highest revision (a bound of the model)
          EntrySize,        \* the bytes an entry of a payload and an index takes
          FirstPosition     \* where the first entry goes

ASSUME StorageAssumption == /\ MaxN \in Nat
                            /\ EntrySize \in [Value \X (1 .. MaxN) -> Nat \ {0}]
                            /\ FirstPosition \in Nat

-----------------------------------------------------------------------------
(* Entries.                                                                *)

Address(i, j, position) == [i |-> i, j |-> j, position |-> position]
MetaInfo(address, hash) == [address |-> address, hash |-> hash]
INode(meta, left, right) == [meta |-> meta, left |-> left, right |-> right]
ENode(meta, payload) == [meta |-> meta, payload |-> payload]
Entry(enode, nodes) == [enode |-> enode, inodes |-> nodes]

from_bytes(j, bytes) == <<j, bytes>>
combine(left, j, right) == <<j, left, right>>

index_of(e) == e.enode.meta.address.i
position_of(e) == e.enode.meta.address.position

\* Entry::root: the topmost node of an entry.
\* Variant: a fault that RootsAuthenticateLog and SnapshotIsPastState show.
entry_root_first(e) == IF e.inodes = <<>> THEN e.enode.meta ELSE Head(e.inodes).meta
entry_root(e) == IF e.inodes = <<>> THEN e.enode.meta ELSE Last(e.inodes).meta

\* Entry::inode and Entry::meta, sets of at most one element (an Option).
entry_inode(e, j) == {k \in ToSet(e.inodes) : k.meta.address.j = j}
entry_meta(e, j) == IF j = 0 THEN {e.enode.meta} ELSE {k.meta : k \in entry_inode(e, j)}

left_addresses(e) == {k.left : k \in ToSet(e.inodes)}

\* What write_entry_to and write_delimiter write: some fields of fixed size, a
\* block per inode (their number is determined by the index), and the payload.
entry_size(e) == EntrySize[<<e.enode.payload, index_of(e)>>]

-----------------------------------------------------------------------------
(* Storage.                                                                *)

EmptyStorage == [data |-> <<>>, end |-> FirstPosition]

entries_of(s) == {s.data[p] : p \in DOMAIN s.data}

storage_put(s, position, e) ==
    [data |-> [p \in DOMAIN s.data \cup {position} |->
                  IF p = position THEN e ELSE s.data[p]],
     end  |-> position + entry_size(e)]

storage_truncate(s, position) ==
    IF position < s.end
    THEN [data |-> [p \in {q \in DOMAIN s.data : q < position} |-> s.data[p]],
          end  |-> position]
    ELSE s

\* The entry that ends where the storage ends, if there is any.
storage_last(s) ==
    {s.data[p] : p \in {q \in DOMAIN s.data : \A r \in DOMAIN s.data : r <= q}}

\* read_entry_with_index_check: the entry at an address, none when the position
\* is not the start of an entry or another index is found there (an Err).
read_entry_with_index_check(s, a) ==
    {s.data[p] : p \in {q \in DOMAIN s.data : q = a.position /\ index_of(s.data[q]) = a.i}}
=============================================================================
