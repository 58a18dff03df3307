------------------------------- MODULE Cache -------------------------------
(***************************************************************************)
(* The cache of src/cache.rs: the latest entry, the entries within `level` *)
(* left hops of it, and the roots of the perfect subtrees of the current   *)
(* generation.  It is built in two ways, from storage (load) and from the  *)
(* previous cache and a new entry (migrate).                               *)
(***************************************************************************)
EXTENDS Entry

\* The generation stands for the field `model`, 0 for None.
CacheOf(level, revision, entries, roots) ==
    [level |-> level, revision |-> revision, entries |-> entries, pbst_roots |-> roots]

empty(level) == CacheOf(level, 0, <<>>, <<>>)

\* A set of entries as the map from their indices.
by_index(entries) == [i \in {index_of(e) : e \in entries} |->
                        CHOOSE e \in entries : index_of(e) = i]

cached_entries(c) == {c.entries[i] : i \in DOMAIN c.entries}

\* Cache::entry, Cache::last_entry and Cache::root, an Option each.
cache_entry(c, i) == {c.entries[k] : k \in DOMAIN c.entries \cap {i}}
last_entry(c) == cache_entry(c, c.revision)
cache_root(c) == {entry_root(e) : e \in last_entry(c)}

-----------------------------------------------------------------------------
(* Loading.                                                                *)

\* What load_with_level reads: the entries at most `level` left hops away.
within_storage(s, e, level) ==
    LET hops[d \in 0 .. level] ==
          IF d = 0 THEN {e}
          ELSE hops[d - 1] \cup UNION {read_entry_with_index_check(s, a) :
                                  a \in UNION {left_addresses(x) : x \in hops[d - 1]}}
    IN  hops[level]

\* level 0 still reads one hop, for the roots (cache.rs:63-68).
\* Variant: a fault that NeverPanics shows.
load_distance_as_given(level) == level
load_distance(level) == IF level = 0 THEN 1 ELSE level

\* Every read of the load succeeds, hop by hop.
load_succeeds(s, level, e) ==
    \A d \in 0 .. load_distance(level) - 1 :
        \A x \in within_storage(s, e, d) : \A a \in left_addresses(x) :
            read_entry_with_index_check(s, a) # {}

\* The roots seen from an entry: the left children of its ephemeral inodes,
\* from the top down to its first perfect inode, and that or the leaf.
pbst_root_addresses(e) ==
    LET perfect(k) == is_pbst(e.inodes[k].meta.address.i, e.inodes[k].meta.address.j)
        perfects   == {k \in 1 .. Len(e.inodes) : perfect(k)}
        top        == IF perfects = {} THEN 0 ELSE Max(perfects)
    IN  {e.inodes[k].left : k \in (top + 1) .. Len(e.inodes)}
        \cup {IF top = 0 THEN e.enode.meta.address ELSE e.inodes[top].meta.address}

load(s, level, e) ==
    LET stored  == entries_of(s) \cup {e}
        entries == {x \in stored : x \in within_storage(s, e, level)}
        near    == {x \in stored : x \in within_storage(s, e, load_distance(level))}
        metas   == UNION {UNION {entry_meta(x, a.j) : x \in {y \in near : index_of(y) = a.i}} :
                              a \in pbst_root_addresses(e)}
    IN  CacheOf(level, index_of(e), by_index(entries),
                [i \in {m.address.i : m \in metas} |-> CHOOSE m \in metas : m.address.i = i])

\* load meets no missing node (the unwrap and the panic of cache.rs:75-79).
load_never_panics(s, level, e) ==
    \A a \in pbst_root_addresses(e) :
        \E x \in within_storage(s, e, load_distance(level)) :
            index_of(x) = a.i /\ entry_meta(x, a.j) # {}

-----------------------------------------------------------------------------
(* Migrating.                                                              *)

\* What migrate_cache takes over: the entries at most `level` left hops away
\* from the new entry, as far as they are cached.
within_cache(c, e, level) ==
    LET hops[d \in 0 .. level] ==
          IF d = 0 THEN {e}
          ELSE hops[d - 1] \cup UNION {cache_entry(c, a.i) :
                                  a \in UNION {left_addresses(x) : x \in hops[d - 1]}}
    IN  hops[level]

\* The metadata of a root of the next generation.
migrated_root(c, e, r) ==
    IF r.i \in DOMAIN c.pbst_roots THEN {c.pbst_roots[r.i]}
    ELSE UNION {entry_meta(x, r.j) : x \in IF r.i = index_of(e) THEN {e} ELSE cache_entry(c, r.i)}

\* The indices migrate_cache keeps.
\* Variant: a fault that CacheIsReloaded shows.
kept_entries_all(c, e) == DOMAIN c.entries
kept_entries(c, e) == {k \in DOMAIN c.entries : c.entries[k] \in within_cache(c, e, c.level)}

migrate(c, e) ==
    LET i     == index_of(e)
        kept  == kept_entries(c, e)
        metas == UNION {migrated_root(c, e, r) : r \in ToSet(pbst_roots(i))}
    IN  CacheOf(c.level, i,
                [k \in kept \cup {i} |-> IF k = i THEN e ELSE c.entries[k]],
                [k \in {m.address.i : m \in metas} |-> CHOOSE m \in metas : m.address.i = k])

\* migrate meets no missing root and no missing entry (the panic of
\* cache.rs:107-112, the unwraps of cache.rs:114 and 206, the assertion of
\* cache.rs:99).
migrate_never_panics(c, e) ==
    /\ \A r \in ToSet(pbst_roots(index_of(e))) :
          \E m \in migrated_root(c, e, r) : m.address.i = r.i /\ m.address.j = r.j
    /\ c.level > 0 =>
          \A x \in within_cache(c, e, c.level - 1) : \A a \in left_addresses(x) :
              a.i \in DOMAIN c.entries
=============================================================================
