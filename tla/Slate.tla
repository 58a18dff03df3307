------------------------------- MODULE Slate -------------------------------
(***************************************************************************)
(* The writer of src/lib.rs: a Slate over a storage, with its append,      *)
(* truncate and reopening.  All of them take &mut self, so each one is a   *)
(* single step for every other user of the storage but the queries, which  *)
(* module Query adds.                                                      *)
(***************************************************************************)
EXTENDS Cache

CONSTANT Level          \* the cache levels a Slate is opened with

ASSUME SlateAssumption == Level \subseteq Nat /\ MaxN \in Index

VARIABLES storage,      \* the Storage
          position,     \* Slate::position, where the next entry goes
          cache         \* Slate::cache

slateVars == <<storage, position, cache>>

-----------------------------------------------------------------------------
(* Operations.                                                             *)

\* Slate::n
revision == cache.revision

\* The entry of the next value: its leaf and the inodes above it, each one
\* over the root of an old perfect subtree and the node before it.  The code
\* takes the index from the root of the cache, which is a node of the latest
\* entry and has its index (RootsAuthenticateLog).
new_entry(c, p, v) ==
    LET i     == c.revision + 1
        leaf  == MetaInfo(Address(i, 0, p), from_bytes(0, v))
        nodes == inodes(i)
        left(k) == c.pbst_roots[nodes[k].left.i]
        hash[k \in 0 .. Len(nodes)] ==
            IF k = 0 THEN leaf.hash
            ELSE combine(left(k).hash, nodes[k].node.j, hash[k - 1])
    IN  Entry(ENode(leaf, v),
              [k \in 1 .. Len(nodes) |->
                  INode(MetaInfo(Address(nodes[k].node.i, nodes[k].node.j, p), hash[k]),
                        left(k).address,
                        Address(nodes[k].right.i, nodes[k].right.j, p))])

\* Building the entry meets no missing root: get_pbst_root, cache.rs:187-195.
new_entry_never_panics(c) ==
    \A k \in ToSet(inodes(c.revision + 1)) :
        /\ k.left.i \in DOMAIN c.pbst_roots
        /\ c.pbst_roots[k.left.i].address.j = k.left.j

append_never_panics(c, p, v) ==
    new_entry_never_panics(c) /\ migrate_never_panics(c, new_entry(c, p, v))

\* The next entry on the way down to entry i: the cached one if there is any.
\* None when no left child leads to i or the read fails.
step_towards(s, c, e, i) ==
    LET ways == {k \in 1 .. Len(e.inodes) : contains(e.inodes[k].left.i, e.inodes[k].left.j, i)}
        a    == e.inodes[Min(ways)].left
    IN  IF ways = {} THEN {}
        ELSE IF cache_entry(c, a.i) # {} THEN cache_entry(c, a.i)
        ELSE read_entry_with_index_check(s, a)

\* Query::read_entry and Slate::load_entry without a change of the storage on
\* the way: the entry of index i, an Option.
read_entry(s, c, i) ==
    LET known == entries_of(s) \cup cached_entries(c)
        way[e \in known] == IF index_of(e) = i THEN {e}
                            ELSE UNION {way[x] : x \in step_towards(s, c, e, i)}
        found == UNION {way[e] : e \in last_entry(c)}
    IN  {e \in known : index_of(e) = i /\ e \in found}

\* Slate::load_metadata, once the reads succeed.
load_metadata_succeeds(s, level) == \A e \in storage_last(s) : load_succeeds(s, level, e)
\* Variant: a fault that TypeOK shows.
load_metadata_deeper(s, level) ==
    IF storage_last(s) = {} THEN empty(level)
    ELSE load(s, level + 1, CHOOSE e \in storage_last(s) : TRUE)
load_metadata(s, level) ==
    IF storage_last(s) = {} THEN empty(level)
    ELSE load(s, level, CHOOSE e \in storage_last(s) : TRUE)

-----------------------------------------------------------------------------
(* The state machine.                                                      *)

SlateInit == /\ storage = EmptyStorage
             /\ position = storage.end
             /\ cache \in {empty(level) : level \in Level}

AppendEntry(v) ==
    /\ revision < MaxN
    /\ append_never_panics(cache, position, v)
    /\ LET e == new_entry(cache, position, v)
       IN  /\ storage' = storage_put(storage, position, e)
           /\ position' = position + entry_size(e)
           /\ cache' = migrate(cache, e)

\* Variants: faults that WriterInv and EntriesAreAdjacent, AddressesResolve and
\* QueryInv, and ImplementsLog show.
Truncate_keeping_position(i) ==
    \E e \in read_entry(storage, cache, i) :
        LET s == storage_truncate(storage, position_of(e))
        IN  storage' = s /\ cache' = load_metadata(s, cache.level) /\ UNCHANGED position
Truncate_keeping_cache(i) ==
    \E e \in read_entry(storage, cache, i) :
        LET s == storage_truncate(storage, position_of(e))
        IN  storage' = s /\ position' = s.end /\ UNCHANGED cache
Truncate_keeping_storage(i) ==
    \E e \in read_entry(storage, cache, i) :
        LET s == storage_truncate(storage, position_of(e))
        IN  position' = s.end /\ cache' = load_metadata(s, cache.level) /\ UNCHANGED storage
Truncate(i) ==
    \E e \in read_entry(storage, cache, i) :
        LET s == storage_truncate(storage, position_of(e))
        IN  /\ load_metadata_succeeds(s, cache.level)
            /\ storage' = s
            /\ position' = s.end
            /\ cache' = load_metadata(s, cache.level)

\* Dropping the Slate and opening the storage again (with_cache_level).
Reopen(level) ==
    /\ load_metadata_succeeds(storage, level)
    /\ position' = storage.end
    /\ cache' = load_metadata(storage, level)
    /\ UNCHANGED storage

SlateNext == \/ \E v \in Value : AppendEntry(v)
             \/ \E i \in 0 .. MaxN : Truncate(i)
             \/ \E level \in Level : Reopen(level)

SlateSpec == SlateInit /\ [][SlateNext]_slateVars

-----------------------------------------------------------------------------
(* Properties.                                                             *)

IsEntry(e) == /\ index_of(e) \in 1 .. MaxN
              /\ position_of(e) \in Nat
              /\ e.enode.payload \in Value

TypeOK == /\ storage.end \in Nat /\ DOMAIN storage.data \subseteq Nat
          /\ \A e \in entries_of(storage) : IsEntry(e)
          /\ position \in Nat
          /\ cache.level \in Level /\ cache.revision \in 0 .. MaxN
          /\ \A e \in cached_entries(cache) : IsEntry(e)

\* The values kept, in the order of their indices.
values_of(s, n) == [i \in 1 .. n |-> (CHOOSE e \in entries_of(s) : index_of(e) = i).enode.payload]
Log == values_of(storage, revision)

\* The hash of the tree over a list of values by its definition: the left child
\* takes the largest power of two of them that is less than all.  hash[size][a]
\* is that of the `size` values from the a-th on.
tree_height(size) == CHOOSE h \in 1 .. size : 2^(h - 1) < size /\ size <= 2^h
tree_hashes(log) ==
    LET hash[size \in 1 .. Len(log)] ==
          [a \in 1 .. Len(log) - size + 1 |->
              IF size = 1 THEN from_bytes(0, log[a])
              ELSE LET half == 2^(tree_height(size) - 1)
                   IN  combine(hash[half][a], tree_height(size), hash[size - half][a + half])]
    IN  hash
TreeHash(log) == tree_hashes(log)[Len(log)][1]

\* No reachable cache makes the next append panic (cache.rs:99, 107-112, 114,
\* 187-195, 206), and no stored entry the load of its cache, when the storage is
\* opened or for snapshot_at (cache.rs:75-79, lib.rs:592-597), whatever appends,
\* truncations and reopenings came before.
NeverPanics ==
    /\ revision < MaxN => \A v \in Value : append_never_panics(cache, position, v)
    /\ \A e \in entries_of(storage), level \in Level : load_never_panics(storage, level, e)

\* The cache that migrate has carried along is the one load would read from the
\* storage, entry by entry and root by root (cache.rs:28-129), and the writer
\* continues where the storage ends (lib.rs:562, 577-580).
CacheIsReloaded == /\ cache = load_metadata(storage, cache.level)
                   /\ position = storage.end

\* The root hash that append stores with every entry is the hash of the tree over
\* the values up to it, and its address is that of the entry (lib.rs:533-564).
RootsAuthenticateLog ==
    \A e \in entries_of(storage) :
        /\ entry_root(e).hash = TreeHash(SubSeq(Log, 1, index_of(e)))
        /\ entry_root(e).address = Address(index_of(e), root_of(index_of(e)).j, position_of(e))

\* Every address stored in an entry leads to the node it names, whose hash is
\* the left part of the inode's hash (lib.rs:544-552): no truncation and no
\* append leaves a dangling or redirected address behind.
AddressesResolve ==
    \A e \in entries_of(storage) : \A k \in ToSet(e.inodes) :
        \E x \in read_entry_with_index_check(storage, k.left) :
            \E m \in entry_meta(x, k.left.j) :
                m.address = k.left /\ m.hash = k.meta.hash[2]

\* Entries follow one another without gap or overlap from the first position to
\* the end, in the order of their indices: what scan relies on (storage.rs:85-103).
EntriesAreAdjacent ==
    \A e \in entries_of(storage) :
        /\ position_of(e) + entry_size(e) =
             (IF index_of(e) = Len(Log) THEN storage.end
              ELSE position_of(CHOOSE x \in entries_of(storage) : index_of(x) = index_of(e) + 1))
        /\ index_of(e) = 1 => position_of(e) = FirstPosition

\* The inductive invariant behind the theorems of TreeProofs: the writer stands
\* at the end of the storage, which holds one entry for each index up to the
\* revision, in order and without gaps, and the cache holds stored entries only.
StorageOK(s, n) ==
    /\ s.end \in Nat /\ DOMAIN s.data \subseteq Nat
    /\ \A p \in DOMAIN s.data :
          /\ IsEntry(s.data[p])
          /\ position_of(s.data[p]) = p /\ p < s.end
          /\ index_of(s.data[p]) <= n
          /\ index_of(s.data[p]) = 1 => p = FirstPosition
          /\ index_of(s.data[p]) = n => p + entry_size(s.data[p]) = s.end
          /\ index_of(s.data[p]) < n =>
                \E q \in DOMAIN s.data : /\ q = p + entry_size(s.data[p])
                                        /\ index_of(s.data[q]) = index_of(s.data[p]) + 1
    /\ \A p, q \in DOMAIN s.data : p < q => index_of(s.data[p]) < index_of(s.data[q])
    /\ \A i \in 1 .. n : \E p \in DOMAIN s.data : index_of(s.data[p]) = i
    /\ n = 0 => s.end = FirstPosition

CacheOK(s, c) == /\ c.level \in Level /\ c.revision \in 0 .. MaxN
                 /\ cached_entries(c) \subseteq entries_of(s)

WriterInv == /\ position = storage.end
             /\ StorageOK(storage, revision)
             /\ CacheOK(storage, cache)

\* What a Slate promises: a list of values that grows at its end and is cut.
Abstract == INSTANCE SlateLog WITH log <- Log
ImplementsLog == Abstract!Spec

\* A Slate uses its storage as StorageContract allows: it puts an entry where the
\* storage ends, under the position that its address names, and truncates at
\* the position of an entry (lib.rs:561-562, 576; storage.rs:41-49).
Use == INSTANCE StorageContract
KeepsContract == Use!Spec
=============================================================================
