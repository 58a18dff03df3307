----------------------------- MODULE TreeProofs -----------------------------
(***************************************************************************)
(* Theorems about the writer and the trees that it stores, for every set   *)
(* of payloads, every entry size, every cache level and every revision     *)
(* that Index can count.  The first part does not depend on the shape of   *)
(* the tree, only on where entries go and which index they carry; the      *)
(* second rests on it: what an entry says of the entries before it, and    *)
(* what the cache knows of them; the last is about the bytes of entries,   *)
(* and the only one for which their sizes are those of SizeAssumption.     *)
(***************************************************************************)
EXTENDS Serialize, FormulaProofs

-----------------------------------------------------------------------------
(* Entries, storage and cache.                                             *)

\* What append puts into a new entry (lib.rs:526-531).
LEMMA NewEntryFields ==
    ASSUME NEW c, NEW p, NEW v
    PROVE  LET e == new_entry(c, p, v)
           IN  /\ index_of(e) = c.revision + 1
               /\ position_of(e) = p
               /\ e.enode.payload = v
BY DEF new_entry, Entry, ENode, MetaInfo, Address, index_of, position_of

\* Stored entries are told apart by their indices and by their positions.
LEMMA IndicesAreUnique ==
    ASSUME NEW s, NEW n, StorageOK(s, n),
           NEW p \in DOMAIN s.data, NEW q \in DOMAIN s.data
    PROVE  /\ index_of(s.data[p]) = index_of(s.data[q]) => p = q
           /\ index_of(s.data[p]) < index_of(s.data[q]) => p < q
<1>1. p \in Nat /\ q \in Nat
  BY DEF StorageOK
<1>2. index_of(s.data[p]) \in Nat /\ index_of(s.data[q]) \in Nat
  BY StorageAssumption DEF StorageOK, IsEntry
<1>3. /\ p < q => index_of(s.data[p]) < index_of(s.data[q])
      /\ q < p => index_of(s.data[q]) < index_of(s.data[p])
  BY DEF StorageOK
<1>4. QED
  BY <1>1, <1>2, <1>3

\* The storage after a put at its end (storage.rs:170-180).
LEMMA PutKeepsStorageOK ==
    ASSUME NEW s, NEW n \in 0 .. MaxN, StorageOK(s, n),
           NEW e, IsEntry(e), index_of(e) = n + 1, position_of(e) = s.end
    PROVE  /\ StorageOK(storage_put(s, s.end, e), n + 1)
           /\ entries_of(storage_put(s, s.end, e)) = entries_of(s) \cup {e}
<1> DEFINE t == storage_put(s, s.end, e)
<1>1. entry_size(e) \in Nat \ {0}
  BY StorageAssumption DEF entry_size, IsEntry
<1>2. /\ DOMAIN t.data = DOMAIN s.data \cup {s.end}
      /\ t.end = s.end + entry_size(e)
      /\ \A p \in DOMAIN t.data : t.data[p] = IF p = s.end THEN e ELSE s.data[p]
  BY DEF storage_put
<1>3. s.end \notin DOMAIN s.data
  BY DEF StorageOK
<1>4. entries_of(t) = entries_of(s) \cup {e}
  BY <1>2, <1>3 DEF entries_of
<1> HIDE DEF t
<1>5. t.end \in Nat /\ DOMAIN t.data \subseteq Nat
  BY <1>1, <1>2 DEF StorageOK
<1>6. t.data[s.end] = e /\ \A p \in DOMAIN s.data : t.data[p] = s.data[p]
  BY <1>2, <1>3
<1>7. n \in Nat /\ \A p \in DOMAIN s.data : index_of(s.data[p]) \in Nat
  BY StorageAssumption DEF StorageOK, IsEntry
<1>8. ASSUME NEW p \in DOMAIN t.data
      PROVE  /\ IsEntry(t.data[p])
             /\ position_of(t.data[p]) = p /\ p < t.end
             /\ index_of(t.data[p]) <= n + 1
             /\ index_of(t.data[p]) = 1 => p = FirstPosition
             /\ index_of(t.data[p]) = n + 1 => p + entry_size(t.data[p]) = t.end
  <2>1. CASE p = s.end
    <3>1. n + 1 = 1 => s.end = FirstPosition
      BY <1>7 DEF StorageOK
    <3>2. QED
      BY <2>1, <3>1, <1>1, <1>2, <1>5, <1>6, <1>7 DEF StorageOK
  <2>2. CASE p # s.end
    BY <2>2, <1>1, <1>2, <1>6, <1>7 DEF StorageOK
  <2>3. QED
    BY <2>1, <2>2
<1>9. ASSUME NEW p \in DOMAIN t.data, index_of(t.data[p]) < n + 1
      PROVE  \E q \in DOMAIN t.data : /\ q = p + entry_size(t.data[p])
                                     /\ index_of(t.data[q]) = index_of(t.data[p]) + 1
  <2>1. p \in DOMAIN s.data /\ t.data[p] = s.data[p]
    BY <1>2, <1>6, <1>7, <1>9
  <2>2. CASE index_of(s.data[p]) = n
    <3>1. p + entry_size(s.data[p]) = s.end
      BY <2>1, <2>2 DEF StorageOK
    <3>2. QED
      BY <2>1, <2>2, <3>1, <1>2, <1>6
  <2>3. CASE index_of(s.data[p]) < n
    <3>1. PICK q \in DOMAIN s.data : /\ q = p + entry_size(s.data[p])
                                    /\ index_of(s.data[q]) = index_of(s.data[p]) + 1
      BY <2>1, <2>3 DEF StorageOK
    <3>2. QED
      BY <2>1, <3>1, <1>2, <1>6
  <2>4. QED
    BY <2>1, <2>2, <2>3, <1>7, <1>9
<1>10. ASSUME NEW p \in DOMAIN t.data, NEW q \in DOMAIN t.data, p < q
       PROVE  index_of(t.data[p]) < index_of(t.data[q])
  <2>1. p \in DOMAIN s.data /\ t.data[p] = s.data[p]
    BY <1>2, <1>6, <1>10 DEF StorageOK
  <2>2. index_of(s.data[p]) \in Nat /\ index_of(s.data[p]) <= n
    BY <2>1, <1>7 DEF StorageOK
  <2>3. CASE q = s.end
    BY <2>1, <2>2, <2>3, <1>6, <1>7
  <2>4. CASE q # s.end
    BY <2>1, <2>4, <1>2, <1>6, <1>10 DEF StorageOK
  <2>5. QED
    BY <2>3, <2>4
<1>11. ASSUME NEW i \in 1 .. n + 1
       PROVE  \E p \in DOMAIN t.data : index_of(t.data[p]) = i
  <2>1. CASE i = n + 1
    BY <2>1, <1>2, <1>6
  <2>2. CASE i # n + 1
    <3>1. i \in 1 .. n
      BY <2>2, <1>7
    <3>2. QED
      BY <3>1, <1>2, <1>6 DEF StorageOK
  <2>3. QED
    BY <2>1, <2>2
<1>12. StorageOK(t, n + 1)
  BY <1>5, <1>7, <1>8, <1>9, <1>10, <1>11 DEF StorageOK
<1>13. QED
  BY <1>4, <1>12 DEF t

\* The storage after a truncation (storage.rs:182-189) at one of its entries:
\* what is left are the entries of the lower indices.
LEMMA TruncateKeepsStorageOK ==
    ASSUME NEW s, NEW n \in 0 .. MaxN, StorageOK(s, n), NEW p \in DOMAIN s.data
    PROVE  LET t == storage_truncate(s, p)
               i == index_of(s.data[p])
           IN  /\ StorageOK(t, i - 1)
               /\ entries_of(t) = {x \in entries_of(s) : index_of(x) < i}
<1> DEFINE t == storage_truncate(s, p)
           i == index_of(s.data[p])
<1>1. p \in Nat /\ s.end \in Nat /\ p < s.end /\ DOMAIN s.data \subseteq Nat
  BY DEF StorageOK
<1>2. /\ DOMAIN t.data = {q \in DOMAIN s.data : q < p} /\ t.end = p
      /\ \A q \in DOMAIN t.data : t.data[q] = s.data[q]
  BY <1>1 DEF storage_truncate
<1>3. n \in Nat /\ i \in 1 .. n /\ \A q \in DOMAIN s.data : index_of(s.data[q]) \in Nat \ {0}
  BY StorageAssumption DEF StorageOK, IsEntry
<1>4. \A q \in DOMAIN s.data : q < p <=> index_of(s.data[q]) < i
  <2>1. \A q \in DOMAIN s.data : q < p => index_of(s.data[q]) < i
    BY DEF StorageOK
  <2>2. \A q \in DOMAIN s.data : index_of(s.data[q]) < i => q < p
    BY IndicesAreUnique
  <2>3. QED
    BY <2>1, <2>2
<1> HIDE DEF t
<1>5. entries_of(t) = {x \in entries_of(s) : index_of(x) < i}
  BY <1>2, <1>4 DEF entries_of
<1>6. ASSUME NEW q \in DOMAIN t.data
      PROVE  /\ q \in DOMAIN s.data /\ t.data[q] = s.data[q] /\ q < p
             /\ index_of(s.data[q]) <= i - 1
  BY <1>2, <1>3, <1>4
<1> HIDE DEF i
<1>7. ASSUME NEW q \in DOMAIN t.data
      PROVE  \E r \in DOMAIN s.data : /\ r = q + entry_size(s.data[q])
                                     /\ index_of(s.data[r]) = index_of(s.data[q]) + 1
  <2>1. index_of(s.data[q]) < n /\ q \in DOMAIN s.data
    BY <1>3, <1>6
  <2>2. QED
    BY <2>1 DEF StorageOK
<1>8. ASSUME NEW q \in DOMAIN t.data, index_of(t.data[q]) = i - 1
      PROVE  q + entry_size(t.data[q]) = t.end
  <2>1. PICK r \in DOMAIN s.data : /\ r = q + entry_size(s.data[q])
                                  /\ index_of(s.data[r]) = index_of(s.data[q]) + 1
    BY <1>7
  <2>2. index_of(s.data[r]) = index_of(s.data[p])
    BY <2>1, <1>3, <1>6, <1>8 DEF i
  <2>3. r = p
    BY <2>2, IndicesAreUnique
  <2>4. QED
    BY <2>1, <2>3, <1>2, <1>6
<1>9. ASSUME NEW q \in DOMAIN t.data, index_of(t.data[q]) < i - 1
      PROVE  \E r \in DOMAIN t.data : /\ r = q + entry_size(t.data[q])
                                     /\ index_of(t.data[r]) = index_of(t.data[q]) + 1
  <2>1. PICK r \in DOMAIN s.data : /\ r = q + entry_size(s.data[q])
                                  /\ index_of(s.data[r]) = index_of(s.data[q]) + 1
    BY <1>7
  <2>2. index_of(s.data[r]) < i
    BY <2>1, <1>3, <1>6, <1>9
  <2>3. r \in DOMAIN t.data /\ t.data[r] = s.data[r]
    BY <2>2, <1>2, <1>4, <1>6
  <2>4. QED
    BY <2>1, <2>3, <1>6
<1>10. ASSUME NEW k \in 1 .. i - 1
       PROVE  \E q \in DOMAIN t.data : index_of(t.data[q]) = k
  <2>1. k \in 1 .. n /\ k < i
    BY <1>3
  <2>2. PICK q \in DOMAIN s.data : index_of(s.data[q]) = k
    BY <2>1 DEF StorageOK
  <2>3. q \in DOMAIN t.data
    BY <2>1, <2>2, <1>2, <1>4
  <2>4. QED
    BY <2>2, <2>3, <1>6
<1>11. i - 1 = 0 => t.end = FirstPosition
  BY <1>2, <1>3 DEF StorageOK, i
<1>12. ASSUME NEW q \in DOMAIN t.data
       PROVE  /\ IsEntry(t.data[q])
              /\ position_of(t.data[q]) = q /\ q < t.end
              /\ index_of(t.data[q]) <= i - 1
              /\ index_of(t.data[q]) = 1 => q = FirstPosition
  BY <1>2, <1>6 DEF StorageOK
<1>13. ASSUME NEW q \in DOMAIN t.data, NEW r \in DOMAIN t.data, q < r
       PROVE  index_of(t.data[q]) < index_of(t.data[r])
  BY <1>6, <1>13 DEF StorageOK
<1>14. t.end \in Nat /\ DOMAIN t.data \subseteq Nat
  BY <1>1, <1>2
<1>15. StorageOK(t, i - 1)
  BY <1>8, <1>9, <1>10, <1>11, <1>12, <1>13, <1>14 DEF StorageOK
<1>16. QED
  BY <1>5, <1>15 DEF t, i

\* The last entry has the highest index (storage.rs:164-168).
LEMMA LastIsHighest ==
    ASSUME NEW s, NEW n \in 0 .. MaxN, StorageOK(s, n)
    PROVE  /\ storage_last(s) = {} <=> n = 0
           /\ \A e \in storage_last(s) : e \in entries_of(s) /\ index_of(e) = n
<1> n \in Nat
  BY StorageAssumption
<1>1. ASSUME n # 0
      PROVE  storage_last(s) # {}
  <2>1. PICK p \in DOMAIN s.data : index_of(s.data[p]) = n
    BY <1>1 DEF StorageOK
  <2>2. /\ DOMAIN s.data \in SUBSET Nat /\ s.end \in Nat
        /\ \A x \in DOMAIN s.data : x < s.end
    BY DEF StorageOK
  <2>3. PICK m \in DOMAIN s.data : \A x \in DOMAIN s.data : x <= m
    BY <2>1, <2>2, GreatestElement
  <2>4. QED
    BY <2>3 DEF storage_last
<1>2. ASSUME NEW e \in storage_last(s)
      PROVE  e \in entries_of(s) /\ index_of(e) = n /\ n # 0
  <2>1. PICK m \in DOMAIN s.data : e = s.data[m] /\ \A x \in DOMAIN s.data : x <= m
    BY DEF storage_last
  <2>2. index_of(e) \in Nat \ {0} /\ index_of(e) <= n /\ m \in Nat
    BY <2>1, StorageAssumption DEF StorageOK, IsEntry
  <2>3. PICK p \in DOMAIN s.data : index_of(s.data[p]) = n
    BY <2>2 DEF StorageOK
  <2>4. p <= m /\ p \in Nat
    BY <2>1 DEF StorageOK
  <2>5. CASE p < m
    BY <2>1, <2>2, <2>3, <2>5 DEF StorageOK
  <2>6. QED
    BY <2>1, <2>2, <2>3, <2>4, <2>5 DEF entries_of
<1>3. QED
  BY <1>1, <1>2

\* The entries of a loaded cache are stored entries (cache.rs:28-85).
LEMMA LoadKeepsToStorage ==
    ASSUME NEW s, NEW level, NEW e
    PROVE  LET c == load(s, level, e)
           IN  /\ cached_entries(c) \subseteq entries_of(s) \cup {e}
               /\ c.level = level /\ c.revision = index_of(e)
<1> DEFINE c == load(s, level, e)
           E == {x \in entries_of(s) \cup {e} : x \in within_storage(s, e, level)}
<1>1. c.level = level /\ c.revision = index_of(e) /\ c.entries = by_index(E)
  BY DEF load, CacheOf
<1>2. \A i \in DOMAIN by_index(E) : by_index(E)[i] \in E
  BY DEF by_index
<1>3. cached_entries(c) \subseteq E
  BY <1>1, <1>2 DEF cached_entries
<1>4. QED
  BY <1>1, <1>3

\* What is left when the cache is read back from the end of the storage, as
\* truncate and with_cache_level do (lib.rs:599-606).
LEMMA MetadataOK ==
    ASSUME NEW s, NEW n \in 0 .. MaxN, StorageOK(s, n), NEW level \in Level
    PROVE  LET c == load_metadata(s, level)
           IN  CacheOK(s, c) /\ c.revision = n
<1> n \in Nat
  BY StorageAssumption
<1>1. CASE storage_last(s) = {}
  <2>1. load_metadata(s, level) = empty(level) /\ n = 0
    BY <1>1, LastIsHighest DEF load_metadata
  <2>2. /\ empty(level).level = level /\ empty(level).revision = 0
        /\ cached_entries(empty(level)) = {}
    BY DEF empty, CacheOf, cached_entries
  <2>3. QED
    BY <2>1, <2>2 DEF CacheOK
<1>2. CASE storage_last(s) # {}
  <2>1. PICK e \in storage_last(s) : load_metadata(s, level) = load(s, level, e)
    BY <1>2 DEF load_metadata
  <2>2. e \in entries_of(s) /\ index_of(e) = n
    BY <2>1, LastIsHighest
  <2>3. QED
    BY <2>1, <2>2, LoadKeepsToStorage DEF CacheOK
<1>3. QED
  BY <1>1, <1>2

\* The entries of a migrated cache: some of the old ones and the new entry
\* (cache.rs:88-129).
LEMMA MigrateKeepsToCache ==
    ASSUME NEW c, NEW e
    PROVE  LET m == migrate(c, e)
           IN  /\ cached_entries(m) \subseteq cached_entries(c) \cup {e}
               /\ m.level = c.level /\ m.revision = index_of(e)
<1> DEFINE kept == {k \in DOMAIN c.entries : c.entries[k] \in within_cache(c, e, c.level)}
           m == migrate(c, e)
<1>1. /\ m.level = c.level /\ m.revision = index_of(e)
      /\ DOMAIN m.entries = kept \cup {index_of(e)}
      /\ \A k \in DOMAIN m.entries : m.entries[k] = IF k = index_of(e) THEN e ELSE c.entries[k]
  BY DEF migrate, CacheOf, kept_entries
<1>2. \A k \in kept : c.entries[k] \in cached_entries(c)
  BY DEF cached_entries
<1>3. cached_entries(m) \subseteq cached_entries(c) \cup {e}
  BY <1>1, <1>2 DEF cached_entries
<1>4. QED
  BY <1>1, <1>3

-----------------------------------------------------------------------------
(* The writer.                                                             *)

LEMMA WriterInvInit == SlateInit => WriterInv
<1> SUFFICES ASSUME SlateInit PROVE WriterInv
  OBVIOUS
<1>1. PICK level \in Level : cache = empty(level)
  BY DEF SlateInit
<1>2. storage.end = FirstPosition /\ DOMAIN storage.data = {} /\ position = storage.end
  BY DEF SlateInit, EmptyStorage
<1>3. cache.level = level /\ cache.revision = 0 /\ cached_entries(cache) = {}
  BY <1>1 DEF empty, CacheOf, cached_entries
<1>4. StorageOK(storage, revision)
  BY <1>2, <1>3, StorageAssumption DEF StorageOK, revision
<1>5. CacheOK(storage, cache)
  BY <1>3, StorageAssumption DEF CacheOK
<1>6. QED
  BY <1>2, <1>4, <1>5 DEF WriterInv

LEMMA AppendKeepsWriterInv ==
    ASSUME WriterInv, NEW v \in Value, AppendEntry(v)
    PROVE  /\ WriterInv'
           /\ cache'.revision = cache.revision + 1
           /\ \E e : /\ entries_of(storage') = entries_of(storage) \cup {e}
                    /\ index_of(e) = cache.revision + 1 /\ e.enode.payload = v
<1> DEFINE e == new_entry(cache, position, v)
<1>1. /\ storage' = storage_put(storage, storage.end, e)
      /\ position' = storage.end + entry_size(e)
      /\ cache' = migrate(cache, e)
      /\ cache.revision < MaxN
  BY DEF AppendEntry, WriterInv, revision
<1>2. index_of(e) = cache.revision + 1 /\ position_of(e) = storage.end /\ e.enode.payload = v
  BY NewEntryFields DEF WriterInv
<1> HIDE DEF e
<1>3. cache.revision \in 0 .. MaxN /\ storage.end \in Nat /\ MaxN \in Nat
  BY StorageAssumption DEF WriterInv, CacheOK, StorageOK
<1>4. IsEntry(e)
  BY <1>1, <1>2, <1>3 DEF IsEntry
<1>5. /\ StorageOK(storage', cache.revision + 1)
      /\ entries_of(storage') = entries_of(storage) \cup {e}
  BY <1>1, <1>2, <1>3, <1>4, PutKeepsStorageOK DEF WriterInv, revision
<1>6. storage'.end = position'
  BY <1>1 DEF storage_put
<1>7. /\ cached_entries(cache') \subseteq cached_entries(cache) \cup {e}
      /\ cache'.level = cache.level /\ cache'.revision = cache.revision + 1
  BY <1>1, <1>2, MigrateKeepsToCache
<1>8. CacheOK(storage', cache')
  BY <1>1, <1>3, <1>5, <1>7 DEF WriterInv, CacheOK
<1>9. WriterInv'
  BY <1>5, <1>6, <1>7, <1>8 DEF WriterInv, revision
<1>10. QED
  BY <1>2, <1>5, <1>7, <1>9

LEMMA TruncateKeepsWriterInv ==
    ASSUME WriterInv, NEW i \in 0 .. MaxN, Truncate(i)
    PROVE  /\ WriterInv'
           /\ i \in 1 .. cache.revision /\ cache'.revision = i - 1
           /\ entries_of(storage') = {x \in entries_of(storage) : index_of(x) < i}
<1>1. PICK e \in read_entry(storage, cache, i) :
         /\ storage' = storage_truncate(storage, position_of(e))
         /\ position' = storage'.end
         /\ cache' = load_metadata(storage', cache.level)
  BY DEF Truncate
<1>2. e \in entries_of(storage) /\ index_of(e) = i
  BY DEF read_entry, WriterInv, CacheOK
<1>3. PICK p \in DOMAIN storage.data : storage.data[p] = e /\ p = position_of(e)
  BY <1>2 DEF entries_of, WriterInv, StorageOK
<1>4. cache.revision \in 0 .. MaxN /\ cache.level \in Level /\ cache.revision \in Nat
  BY StorageAssumption DEF WriterInv, CacheOK
<1>5. i \in 1 .. cache.revision
  BY <1>2, <1>3, <1>4 DEF WriterInv, StorageOK, IsEntry, revision
<1>6. /\ StorageOK(storage', i - 1)
      /\ entries_of(storage') = {x \in entries_of(storage) : index_of(x) < i}
  BY <1>1, <1>2, <1>3, <1>4, TruncateKeepsStorageOK DEF WriterInv, revision
<1>7. CacheOK(storage', cache') /\ cache'.revision = i - 1
  <2>1. i - 1 \in 0 .. MaxN
    BY <1>4, <1>5, StorageAssumption
  <2>2. QED
    BY <1>1, <1>4, <1>6, <2>1, MetadataOK
<1>8. WriterInv'
  BY <1>1, <1>6, <1>7 DEF WriterInv, revision
<1>9. QED
  BY <1>5, <1>6, <1>7, <1>8

LEMMA ReopenKeepsWriterInv ==
    ASSUME WriterInv, NEW level \in Level, Reopen(level)
    PROVE  WriterInv' /\ storage' = storage /\ cache'.revision = cache.revision
<1>1. /\ storage' = storage /\ position' = storage.end
      /\ cache' = load_metadata(storage, level)
  BY DEF Reopen
<1>2. CacheOK(storage, cache') /\ cache'.revision = cache.revision
  BY <1>1, MetadataOK DEF WriterInv, CacheOK, revision
<1>3. QED
  BY <1>1, <1>2 DEF WriterInv, revision

LEMMA WriterInvStep == WriterInv /\ [SlateNext]_slateVars => WriterInv'
<1> SUFFICES ASSUME WriterInv, [SlateNext]_slateVars PROVE WriterInv'
  OBVIOUS
<1>1. ASSUME NEW v \in Value, AppendEntry(v) PROVE WriterInv'
  BY <1>1, AppendKeepsWriterInv
<1>2. ASSUME NEW i \in 0 .. MaxN, Truncate(i) PROVE WriterInv'
  BY <1>2, TruncateKeepsWriterInv
<1>3. ASSUME NEW level \in Level, Reopen(level) PROVE WriterInv'
  BY <1>3, ReopenKeepsWriterInv
<1>4. CASE UNCHANGED slateVars
  BY <1>4 DEF slateVars, WriterInv, revision
<1>5. QED
  BY <1>1, <1>2, <1>3, <1>4 DEF SlateNext

\* The writer always stands at the end of the storage; the indices of what it
\* has stored grow with the positions up to its revision; its cache holds
\* stored entries only (lib.rs:521-606, storage.rs:164-189, cache.rs:28-129).
THEOREM WriterInvariant == SlateSpec => []WriterInv
<1>1. QED
  BY WriterInvInit, WriterInvStep, PTL DEF SlateSpec

LEMMA WriterInvTypes == WriterInv => TypeOK
<1> SUFFICES ASSUME WriterInv PROVE TypeOK
  OBVIOUS
<1>1. \A e \in entries_of(storage) : IsEntry(e)
  BY DEF WriterInv, StorageOK, entries_of
<1>2. \A e \in cached_entries(cache) : IsEntry(e)
  BY <1>1 DEF WriterInv, CacheOK
<1>3. QED
  BY <1>1, <1>2 DEF WriterInv, StorageOK, CacheOK, TypeOK

\* Every variable of the writer keeps its type, and every entry stored or
\* cached has an index within the bound, a position and a payload.
THEOREM TypeCorrect == SlateSpec => []TypeOK
<1>1. QED
  BY WriterInvariant, WriterInvTypes, PTL

-----------------------------------------------------------------------------
(* Adjacent entries.                                                       *)

\* The value of an entry is what the log has at its index.
LEMMA LogHolds ==
    ASSUME NEW s, NEW n, StorageOK(s, n), NEW e \in entries_of(s)
    PROVE  (CHOOSE x \in entries_of(s) : index_of(x) = index_of(e)) = e
<1>1. \A x \in entries_of(s) : index_of(x) = index_of(e) => x = e
  BY IndicesAreUnique DEF entries_of
<1>2. QED
  BY <1>1

\* The log has one value for each index up to the revision.
LEMMA LogType ==
    ASSUME NEW s, NEW n \in 0 .. MaxN, StorageOK(s, n)
    PROVE  /\ values_of(s, n) \in Seq(Value) /\ Len(values_of(s, n)) = n
           /\ \A e \in entries_of(s) :
                 index_of(e) \in 1 .. n /\ values_of(s, n)[index_of(e)] = e.enode.payload
           /\ \A i \in 1 .. n : \E e \in entries_of(s) : index_of(e) = i
<1>1. n \in Nat
  BY StorageAssumption
<1>2. \A e \in entries_of(s) : index_of(e) \in 1 .. n
  BY <1>1, StorageAssumption DEF StorageOK, entries_of, IsEntry
<1>3. \A i \in 1 .. n : \E e \in entries_of(s) : index_of(e) = i
  BY DEF StorageOK, entries_of
<1>4. \A e \in entries_of(s) : (CHOOSE x \in entries_of(s) : index_of(x) = index_of(e)) = e
  BY LogHolds
<1>5. \A e \in entries_of(s) : e.enode.payload \in Value
  BY DEF StorageOK, entries_of, IsEntry
<1>6. \A e \in entries_of(s) : values_of(s, n)[index_of(e)] = e.enode.payload
  BY <1>2, <1>4 DEF values_of
<1>7. \A i \in 1 .. n : (CHOOSE x \in entries_of(s) : index_of(x) = i).enode.payload \in Value
  BY <1>3, <1>4, <1>5
<1>8. values_of(s, n) \in [1 .. n -> Value]
  BY <1>7 DEF values_of
<1>9. values_of(s, n) \in Seq(Value) /\ Len(values_of(s, n)) = n
  BY <1>1, <1>8
<1>10. QED
  BY <1>2, <1>3, <1>6, <1>9

LEMMA WriterInvAdjacent == WriterInv => EntriesAreAdjacent
<1> SUFFICES ASSUME WriterInv, NEW e \in entries_of(storage)
             PROVE  /\ position_of(e) + entry_size(e) =
                          (IF index_of(e) = Len(Log) THEN storage.end
                           ELSE position_of(CHOOSE x \in entries_of(storage) :
                                               index_of(x) = index_of(e) + 1))
                    /\ index_of(e) = 1 => position_of(e) = FirstPosition
  BY DEF EntriesAreAdjacent
<1>1. PICK p \in DOMAIN storage.data : storage.data[p] = e /\ p = position_of(e)
  BY DEF entries_of, WriterInv, StorageOK
<1>2. Len(Log) = revision /\ index_of(e) \in 1 .. revision /\ revision \in Nat
  BY LogType, StorageAssumption DEF WriterInv, CacheOK, revision, Log
<1>3. CASE index_of(e) = revision
  BY <1>1, <1>2, <1>3 DEF WriterInv, StorageOK
<1>4. CASE index_of(e) < revision
  <2>1. PICK q \in DOMAIN storage.data :
           q = p + entry_size(e) /\ index_of(storage.data[q]) = index_of(e) + 1
    BY <1>1, <1>4 DEF WriterInv, StorageOK
  <2>2. storage.data[q] \in entries_of(storage) /\ position_of(storage.data[q]) = q
    BY DEF entries_of, WriterInv, StorageOK
  <2>3. (CHOOSE x \in entries_of(storage) : index_of(x) = index_of(e) + 1) = storage.data[q]
    <3>1. (CHOOSE x \in entries_of(storage) : index_of(x) = index_of(storage.data[q]))
             = storage.data[q]
      BY <2>2, LogHolds DEF WriterInv
    <3>2. QED
      BY <2>1, <3>1
  <2>4. QED
    BY <1>1, <1>2, <1>4, <2>1, <2>2, <2>3 DEF WriterInv, StorageOK
<1>5. QED
  BY <1>2, <1>3, <1>4

\* Stored entries follow one another from the first position to the end without
\* gap or overlap, in the order of their indices (lib.rs:555-562), which scan
\* relies on when it reads entry after entry (storage.rs:85-103).
THEOREM Adjacency == SlateSpec => []EntriesAreAdjacent
<1>1. QED
  BY WriterInvariant, WriterInvAdjacent, PTL

-----------------------------------------------------------------------------
(* The writer implements a list that grows at its end and is cut.          *)

\* Two logs that agree on the values of all entries are equal.
LEMMA SameLog ==
    ASSUME NEW s, NEW n \in 0 .. MaxN, StorageOK(s, n),
           NEW log \in Seq(Value), Len(log) = n,
           \A e \in entries_of(s) : log[index_of(e)] = e.enode.payload
    PROVE  values_of(s, n) = log
<1>1. \A i \in 1 .. n : values_of(s, n)[i] = log[i]
  BY LogType
<1>2. QED
  BY <1>1, LogType, SeqEqual

LEMMA RefinementInit == SlateInit => Abstract!Init
<1> SUFFICES ASSUME SlateInit PROVE Log = <<>>
  BY DEF Abstract!Init
<1>1. cache.revision = 0
  BY DEF SlateInit, empty, CacheOf
<1>2. StorageOK(storage, 0) /\ 0 \in 0 .. MaxN
  BY <1>1, WriterInvInit, StorageAssumption DEF WriterInv, revision
<1>3. Log \in Seq(Value) /\ Len(Log) = 0
  BY <1>1, <1>2, LogType DEF Log, revision
<1>4. QED
  BY <1>3

LEMMA AppendAdds ==
    ASSUME WriterInv, NEW v \in Value, AppendEntry(v)
    PROVE  Abstract!Add(v)
<1> DEFINE n == cache.revision
<1>1. WriterInv' /\ cache'.revision = n + 1
  BY AppendKeepsWriterInv
<1>2. PICK e : /\ entries_of(storage') = entries_of(storage) \cup {e}
               /\ index_of(e) = n + 1 /\ e.enode.payload = v
  BY AppendKeepsWriterInv
<1>3. /\ StorageOK(storage, n) /\ n \in 0 .. MaxN /\ n \in Nat
      /\ StorageOK(storage', n + 1) /\ n + 1 \in 0 .. MaxN
  BY <1>1, StorageAssumption DEF WriterInv, CacheOK, revision
<1>4. /\ Log \in Seq(Value) /\ Len(Log) = n
      /\ \A x \in entries_of(storage) :
            index_of(x) \in 1 .. n /\ Log[index_of(x)] = x.enode.payload
  BY <1>3, LogType DEF Log, revision
<1>5. /\ Append(Log, v) \in Seq(Value) /\ Len(Append(Log, v)) = n + 1
      /\ Append(Log, v)[n + 1] = v
      /\ \A i \in 1 .. n : Append(Log, v)[i] = Log[i]
  BY <1>4, AppendProperties
<1>6. \A x \in entries_of(storage') : Append(Log, v)[index_of(x)] = x.enode.payload
  BY <1>2, <1>4, <1>5
<1>7. values_of(storage', n + 1) = Append(Log, v)
  BY <1>3, <1>5, <1>6, SameLog
<1>8. Log' = values_of(storage', n + 1)
  BY <1>1 DEF Log, revision
<1>9. QED
  BY <1>7, <1>8 DEF Abstract!Add

LEMMA TruncateCuts ==
    ASSUME WriterInv, NEW i \in 0 .. MaxN, Truncate(i)
    PROVE  Abstract!Cut(i)
<1> DEFINE n == cache.revision
           cut == SubSeq(Log, 1, i - 1)
<1>1. /\ WriterInv' /\ i \in 1 .. n /\ cache'.revision = i - 1
      /\ entries_of(storage') = {x \in entries_of(storage) : index_of(x) < i}
  BY TruncateKeepsWriterInv
<1>2. /\ StorageOK(storage, n) /\ n \in 0 .. MaxN /\ n \in Nat
      /\ StorageOK(storage', i - 1) /\ i - 1 \in 0 .. MaxN
  BY <1>1, StorageAssumption DEF WriterInv, CacheOK, revision
<1>3. /\ Log \in Seq(Value) /\ Len(Log) = n
      /\ \A x \in entries_of(storage) :
            index_of(x) \in 1 .. n /\ Log[index_of(x)] = x.enode.payload
  BY <1>2, LogType DEF Log, revision
<1>4. /\ cut \in Seq(Value) /\ Len(cut) = i - 1
      /\ \A k \in 1 .. i - 1 : cut[k] = Log[k]
  <2>1. \A k \in 1 .. i - 1 : Log[k] \in Value
    BY <1>1, <1>2, <1>3, ElementOfSeq
  <2>2. 1 \in Int /\ i - 1 \in Int /\ (i - 1) - 1 + 1 = i - 1
    OBVIOUS
  <2>3. QED
    BY <1>1, <2>1, <2>2, SubSeqProperties
<1>5. \A x \in entries_of(storage') : cut[index_of(x)] = x.enode.payload
  <2>1. \A x \in entries_of(storage') : x \in entries_of(storage) /\ index_of(x) \in 1 .. i - 1
    BY <1>1, <1>2, <1>3
  <2>2. QED
    BY <2>1, <1>3, <1>4
<1> HIDE DEF cut
<1>6. values_of(storage', i - 1) = cut
  BY <1>2, <1>4, <1>5, SameLog
<1>7. Log' = values_of(storage', i - 1)
  BY <1>1 DEF Log, revision
<1>8. QED
  BY <1>1, <1>3, <1>6, <1>7 DEF Abstract!Cut, cut

LEMMA ReopenStutters ==
    ASSUME WriterInv, NEW level \in Level, Reopen(level)
    PROVE  Log' = Log
<1>1. storage' = storage /\ cache'.revision = cache.revision
  BY ReopenKeepsWriterInv
<1>2. QED
  BY <1>1 DEF Log, revision

LEMMA RefinementStep == WriterInv /\ [SlateNext]_slateVars => [Abstract!Next]_Log
<1> SUFFICES ASSUME WriterInv, [SlateNext]_slateVars PROVE [Abstract!Next]_Log
  OBVIOUS
<1>1. ASSUME NEW v \in Value, AppendEntry(v) PROVE Abstract!Next
  BY <1>1, AppendAdds DEF Abstract!Next
<1>2. ASSUME NEW i \in 0 .. MaxN, Truncate(i) PROVE Abstract!Next
  <2>1. Abstract!Cut(i)
    BY <1>2, TruncateCuts
  <2>2. i \in 1 .. Len(Log)
    BY <2>1 DEF Abstract!Cut
  <2>3. QED
    BY <2>1, <2>2 DEF Abstract!Next
<1>3. ASSUME NEW level \in Level, Reopen(level) PROVE Log' = Log
  BY <1>3, ReopenStutters
<1>4. CASE UNCHANGED slateVars
  BY <1>4 DEF slateVars, Log, revision
<1>5. QED
  BY <1>1, <1>2, <1>3, <1>4 DEF SlateNext

\* A Slate implements the list of module SlateLog: append adds its value at the
\* end, truncate(i) cuts the list before its i-th value, and opening the storage
\* again, with any cache level, changes nothing (lib.rs:487-606).
THEOREM Refinement == SlateSpec => ImplementsLog
<1>1. SlateSpec => Abstract!Init /\ [][Abstract!Next]_Log
  BY RefinementInit, RefinementStep, WriterInvariant, PTL DEF SlateSpec
<1>2. QED
  BY <1>1 DEF ImplementsLog, Abstract!Spec

-----------------------------------------------------------------------------
(* The writer uses its storage as the contract of storages allows.         *)

LEMMA AppendPuts ==
    ASSUME WriterInv, NEW v \in Value, AppendEntry(v)
    PROVE  Use!Put
<1> DEFINE e == new_entry(cache, position, v)
<1>1. storage' = storage_put(storage, storage.end, e)
  BY DEF AppendEntry, WriterInv
<1>2. position_of(e) = storage.end
  BY NewEntryFields DEF WriterInv
<1> HIDE DEF e
<1>3. e \in entries_of(storage')
  BY <1>1 DEF storage_put, entries_of
<1>4. QED
  BY <1>1, <1>2, <1>3
     DEF Use!Put, Use!entries_of, entries_of, Use!position_of, position_of,
         Use!storage_put, storage_put, Use!entry_size, entry_size, Use!index_of, index_of

LEMMA TruncateCutsStorage ==
    ASSUME WriterInv, NEW i \in 0 .. MaxN, Truncate(i)
    PROVE  Use!Cut
<1>1. PICK e \in read_entry(storage, cache, i) : storage' = storage_truncate(storage, position_of(e))
  BY DEF Truncate
<1>2. e \in entries_of(storage)
  BY DEF read_entry, WriterInv, CacheOK
<1>3. position_of(e) \in DOMAIN storage.data
  BY <1>2 DEF entries_of, WriterInv, StorageOK
<1>4. QED
  BY <1>1, <1>3 DEF Use!Cut, Use!storage_truncate, storage_truncate

LEMMA UseStep == WriterInv /\ [SlateNext]_slateVars => [Use!Next]_storage
<1> SUFFICES ASSUME WriterInv, [SlateNext]_slateVars PROVE [Use!Next]_storage
  OBVIOUS
<1>1. ASSUME NEW v \in Value, AppendEntry(v) PROVE Use!Next
  BY <1>1, AppendPuts DEF Use!Next
<1>2. ASSUME NEW i \in 0 .. MaxN, Truncate(i) PROVE Use!Next
  BY <1>2, TruncateCutsStorage DEF Use!Next
<1>3. ASSUME NEW level \in Level, Reopen(level) PROVE storage' = storage
  BY <1>3 DEF Reopen
<1>4. CASE UNCHANGED slateVars
  BY <1>4 DEF slateVars
<1>5. QED
  BY <1>1, <1>2, <1>3, <1>4 DEF SlateNext

\* Whatever a Slate does, its storage sees entries put where it ends and cut at
\* their positions: the calls that the storages are checked against (lib.rs:561-562, 576).
THEOREM ContractKept == SlateSpec => KeepsContract
<1>1. SlateInit => Use!Init
  BY DEF SlateInit, Use!Init, Use!EmptyStorage, EmptyStorage
<1>2. SlateSpec => Use!Init /\ [][Use!Next]_storage
  BY <1>1, UseStep, WriterInvariant, PTL DEF SlateSpec
<1>3. QED
  BY <1>2 DEF KeepsContract, Use!Spec

-----------------------------------------------------------------------------
(* The invariant of the tree.                                              *)

\* The left address of a stored inode leads to the node it names, with the hash
\* that went into the inode's own.
Resolves(s, k) ==
    \E x \in read_entry_with_index_check(s, k.left) :
        \E m \in entry_meta(x, k.left.j) : m.address = k.left /\ m.hash = k.meta.hash[2]

\* The hashes of an entry are computed from its payload upwards.
HashesFollow(e) ==
    LET nodes == inodes(index_of(e))
    IN  /\ e.enode.meta.hash = from_bytes(0, e.enode.payload)
        /\ \A k \in 1 .. Len(nodes) :
              e.inodes[k].meta.hash =
                combine(e.inodes[k].meta.hash[2], nodes[k].node.j,
                        IF k = 1 THEN e.enode.meta.hash ELSE e.inodes[k - 1].meta.hash)

IsList(s, n) == s = [k \in 1 .. n |-> s[k]]

\* An entry holds the inodes of its generation.
EntryOK(s, e) ==
    LET i     == index_of(e)
        nodes == inodes(i)
    IN  /\ e.enode.meta.address = Address(i, 0, position_of(e))
        /\ DOMAIN e.inodes = 1 .. Len(nodes) /\ Len(e.inodes) = Len(nodes)
        /\ \A k \in 1 .. Len(nodes) :
              /\ e.inodes[k].meta.address = Address(i, nodes[k].node.j, position_of(e))
              /\ e.inodes[k].left.i = nodes[k].left.i /\ e.inodes[k].left.j = nodes[k].left.j
              /\ Resolves(s, e.inodes[k])
        /\ HashesFollow(e) /\ IsList(e.inodes, Len(nodes))

EntriesOK(s) == \A e \in entries_of(s) : EntryOK(s, e)

\* A storage of the revision n whose entries are those of its tree.
Tree(s, n) == StorageOK(s, n) /\ EntriesOK(s)

\* What is inductive together with WriterInv.
TreeInv == EntriesOK(storage) /\ CacheIsReloaded

\* The roots in a cache are those of its generation, as the storage has them.
RootsOK(s, c) ==
    /\ DOMAIN c.pbst_roots = {r.i : r \in ToSet(pbst_roots(c.revision))}
    /\ \A r \in ToSet(pbst_roots(c.revision)) :
          \E x \in entries_of(s) : index_of(x) = r.i /\ c.pbst_roots[r.i] \in entry_meta(x, r.j)

-----------------------------------------------------------------------------
(* What entries hold of the tree.                                          *)

LEMMA Revisions ==
    /\ MaxN \in Nat /\ 0 .. MaxN \subseteq Index
    /\ \A n \in 0 .. MaxN : n \in Nat /\ n \in Index /\ (n > 0 => n - 1 \in 0 .. MaxN)
<1>1. MaxN \in Nat /\ 0 .. MaxN \subseteq Index
  BY StorageAssumption, SlateAssumption, IndexIsNat
<1>2. QED
  BY <1>1

\* A stored entry is the only one of its index and of its position.
LEMMA StoredEntry ==
    ASSUME NEW s, NEW n \in 0 .. MaxN, Tree(s, n), NEW x \in entries_of(s)
    PROVE  /\ index_of(x) \in 1 .. n /\ index_of(x) \in Index \ {0}
           /\ position_of(x) \in DOMAIN s.data /\ s.data[position_of(x)] = x
           /\ EntryOK(s, x)
           /\ \A y \in entries_of(s) : index_of(y) = index_of(x) => y = x
<1>1. PICK p \in DOMAIN s.data : x = s.data[p]
  BY DEF entries_of
<1>2. p = position_of(x) /\ index_of(x) \in 1 .. MaxN /\ index_of(x) <= n
  BY <1>1 DEF Tree, StorageOK, IsEntry
<1>3. index_of(x) \in 1 .. n /\ index_of(x) \in Index \ {0}
  BY <1>2, Revisions
<1>4. \A y \in entries_of(s) : index_of(y) = index_of(x) => y = x
  BY <1>1, IndicesAreUnique DEF entries_of, Tree
<1>5. QED
  BY <1>1, <1>2, <1>3, <1>4 DEF Tree, EntriesOK

\* An entry has at most one node of each height.
LEMMA EntryMetas ==
    ASSUME NEW s, NEW x, EntryOK(s, x), index_of(x) \in Index \ {0}, NEW j, NEW m \in entry_meta(x, j)
    PROVE  /\ m.address = Address(index_of(x), j, position_of(x))
           /\ \A o \in entry_meta(x, j) : o = m
<1> DEFINE i == index_of(x)
           nodes == inodes(i)
<1>1. /\ x.enode.meta.address = Address(i, 0, position_of(x))
      /\ DOMAIN x.inodes = 1 .. Len(nodes)
      /\ \A k \in 1 .. Len(nodes) :
            x.inodes[k].meta.address = Address(i, nodes[k].node.j, position_of(x))
  BY DEF EntryOK
<1>2. \A k, l \in 1 .. Len(nodes) : nodes[k].node.j = nodes[l].node.j => k = l
  BY InodeHeights
<1> HIDE DEF nodes, i
<1>3. CASE j = 0
  BY <1>1, <1>3 DEF entry_meta, i
<1>4. CASE j # 0
  <2>1. ASSUME NEW o \in entry_meta(x, j)
        PROVE  \E k \in 1 .. Len(nodes) : o = x.inodes[k].meta /\ nodes[k].node.j = j
    <3>1. PICK k \in 1 .. Len(nodes) : o = x.inodes[k].meta /\ o.address.j = j
      BY <1>1, <1>4 DEF entry_meta, entry_inode, ToSet
    <3>2. o.address = Address(i, nodes[k].node.j, position_of(x))
      BY <1>1, <3>1
    <3>3. QED
      BY <3>1, <3>2 DEF Address
  <2>2. PICK k \in 1 .. Len(nodes) : m = x.inodes[k].meta /\ nodes[k].node.j = j
    BY <2>1
  <2>3. \A o \in entry_meta(x, j) : o = m
    BY <1>2, <2>1, <2>2
  <2>4. QED
    BY <1>1, <2>2, <2>3 DEF i
<1>5. QED
  BY <1>3, <1>4

\* An address that an entry of index i holds leads to an entry before it that
\* has the root of generation i - 1 that the address names.
LEMMA LeftEntry ==
    ASSUME NEW s, NEW n \in 0 .. MaxN, Tree(s, n), NEW x \in entries_of(s),
           NEW a \in left_addresses(x)
    PROVE  /\ a.i \in 1 .. index_of(x) - 1 /\ a.j \in Nat /\ is_root(index_of(x) - 1, a.i, a.j)
           /\ \E y \in entries_of(s) :
                 /\ read_entry_with_index_check(s, a) = {y} /\ index_of(y) = a.i
                 /\ a.position = position_of(y) /\ entry_meta(y, a.j) # {}
<1> DEFINE i == index_of(x)
           nodes == inodes(i)
<1>1. i \in Index \ {0} /\ EntryOK(s, x) /\ i \in Nat
  BY StoredEntry, IndexIsNat
<1>2. PICK k \in DOMAIN x.inodes : a = x.inodes[k].left
  BY DEF left_addresses, ToSet
<1>3. k \in 1 .. Len(nodes) /\ a.i = nodes[k].left.i /\ a.j = nodes[k].left.j /\ Resolves(s, x.inodes[k])
  BY <1>1, <1>2 DEF EntryOK
<1>4. /\ nodes \in Seq(INodes) /\ nodes[k].left.i < i
      /\ is_root(i - 1, nodes[k].left.i, nodes[k].left.j)
  BY <1>1, <1>3, InodesClimb
<1> HIDE DEF nodes, i
<1>5. a.i \in Nat /\ a.j \in Nat
  <2>1. nodes[k] \in INodes
    BY <1>3, <1>4, ElementOfSeq
  <2>2. QED
    BY <1>3, <2>1 DEF INodes, NodeAddr
<1>6. PICK y \in read_entry_with_index_check(s, a) : entry_meta(y, a.j) # {}
  BY <1>2, <1>3 DEF Resolves
<1>7. PICK p \in DOMAIN s.data : y = s.data[p] /\ p = a.position /\ index_of(y) = a.i
  BY DEF read_entry_with_index_check
<1>8. y \in entries_of(s) /\ read_entry_with_index_check(s, a) = {y} /\ position_of(y) = p
  BY <1>7 DEF entries_of, read_entry_with_index_check, Tree, StorageOK
<1>9. a.i \in 1 .. i - 1
  <2>1. index_of(y) \in 1 .. n
    BY <1>8, StoredEntry
  <2>2. QED
    BY <1>1, <1>3, <1>4, <1>5, <1>7, <2>1
<1>10. QED
  BY <1>3, <1>4, <1>5, <1>6, <1>7, <1>8, <1>9 DEF i

\* The entry of a generation holds the addresses of its older roots.
LEMMA OlderRoots ==
    ASSUME NEW s, NEW x, EntryOK(s, x), index_of(x) \in Index \ {0},
           NEW i \in Nat, NEW j \in Nat, is_root(index_of(x), i, j), i < index_of(x)
    PROVE  \E a \in left_addresses(x) : a.i = i /\ a.j = j
<1> DEFINE n == index_of(x)
           nodes == inodes(n)
<1>1. PICK h \in 0 .. Len(nodes) :
         \A q, r \in Nat : is_root(n, q, r) =>
                       \/ q = n /\ r = h
                       \/ q < n /\ \E k \in h + 1 .. Len(nodes) : nodes[k].left = Addr(q, r)
  BY InodesSplit
<1>2. Len(nodes) \in Nat /\ n \in Nat
  BY InodeHeights, IndexIsNat
<1> HIDE DEF nodes
<1>3. PICK k \in h + 1 .. Len(nodes) : nodes[k].left = Addr(i, j)
  BY <1>1, <1>2
<1>4. k \in 1 .. Len(nodes)
  BY <1>2
<1>5. x.inodes[k].left.i = i /\ x.inodes[k].left.j = j /\ k \in DOMAIN x.inodes
  BY <1>3, <1>4 DEF EntryOK, nodes, Addr
<1>6. QED
  BY <1>5 DEF left_addresses, ToSet

-----------------------------------------------------------------------------
(* Hops.                                                                   *)

\* One more hop into the storage, and the recursion of within_storage.
storage_hop(s, X) ==
    X \cup UNION {read_entry_with_index_check(s, a) : a \in UNION {left_addresses(x) : x \in X}}
StorageHops(s, e, f, m) == f = [d \in 0 .. m |-> IF d = 0 THEN {e} ELSE storage_hop(s, f[d - 1])]

LEMMA WithinStorage ==
    ASSUME NEW s, NEW e, NEW level \in Nat
    PROVE  /\ within_storage(s, e, 0) = {e}
           /\ within_storage(s, e, level + 1) = storage_hop(s, within_storage(s, e, level))
<1> DEFINE T == {m \in Nat : \E f : StorageHops(s, e, f, m)}
<1>1. \E f : StorageHops(s, e, f, 0)
  <2> DEFINE f == [d \in 0 .. 0 |-> {e}]
  <2>1. StorageHops(s, e, f, 0)
    BY DEF StorageHops
  <2>2. QED
    BY <2>1
<1>2. ASSUME NEW m \in Nat, NEW f, StorageHops(s, e, f, m) PROVE \E g : StorageHops(s, e, g, m + 1)
  <2> DEFINE g == [d \in 0 .. m + 1 |-> IF d = m + 1 THEN storage_hop(s, f[m]) ELSE f[d]]
  <2>1. \A d \in 0 .. m : f[d] = IF d = 0 THEN {e} ELSE storage_hop(s, f[d - 1])
    BY <1>2 DEF StorageHops
  <2>2. \A d \in 0 .. m + 1 : g[d] = IF d = 0 THEN {e} ELSE storage_hop(s, g[d - 1])
    <3> SUFFICES ASSUME NEW d \in 0 .. m + 1
                 PROVE  g[d] = IF d = 0 THEN {e} ELSE storage_hop(s, g[d - 1])
      OBVIOUS
    <3>1. CASE d = m + 1
      <4>1. d # 0 /\ g[d] = storage_hop(s, f[m]) /\ d - 1 \in 0 .. m + 1 /\ d - 1 # m + 1 /\ d - 1 = m
        BY <3>1
      <4>2. g[d - 1] = f[m]
        BY <4>1
      <4>3. QED
        BY <4>1, <4>2
    <3>2. CASE d # m + 1 /\ d = 0
      BY <2>1, <3>2
    <3>3. CASE d # m + 1 /\ d # 0
      <4>1. d \in 0 .. m /\ d - 1 \in 0 .. m + 1 /\ d - 1 # m + 1 /\ g[d] = f[d]
        BY <3>3
      <4>2. g[d - 1] = f[d - 1] /\ f[d] = storage_hop(s, f[d - 1])
        BY <2>1, <3>3, <4>1
      <4>3. QED
        BY <3>3, <4>1, <4>2
    <3>4. QED
      BY <3>1, <3>2, <3>3
  <2>3. g = [d \in 0 .. m + 1 |-> g[d]]
    OBVIOUS
  <2> HIDE DEF g
  <2>4. StorageHops(s, e, g, m + 1)
    BY <2>2, <2>3 DEF StorageHops
  <2>5. QED
    BY <2>4
<1>3. T = Nat
  <2>1. T \in SUBSET Nat /\ 0 \in T
    BY <1>1
  <2>2. \A m \in Nat : m \in T => m + 1 \in T
    BY <1>2
  <2> HIDE DEF T
  <2>3. QED
    BY <2>1, <2>2, Induct
<1> DEFINE f(m) == CHOOSE f : StorageHops(s, e, f, m)
<1>4. ASSUME NEW m \in Nat
      PROVE  /\ \A d \in 0 .. m : f(m)[d] = IF d = 0 THEN {e} ELSE storage_hop(s, f(m)[d - 1])
             /\ within_storage(s, e, m) = f(m)[m]
  <2>1. \E g : StorageHops(s, e, g, m)
    BY <1>3
  <2>2. StorageHops(s, e, f(m), m)
    BY <2>1
  <2>3. within_storage(s, e, m) = f(m)[m]
    BY DEF within_storage, StorageHops, storage_hop
  <2> HIDE DEF f
  <2>4. \A d \in 0 .. m : f(m)[d] = IF d = 0 THEN {e} ELSE storage_hop(s, f(m)[d - 1])
    BY <2>2 DEF StorageHops
  <2>5. QED
    BY <2>3, <2>4
<1> HIDE DEF f
<1> DEFINE D == {d \in Nat : d <= level => f(level)[d] = f(level + 1)[d]}
<1>5. 0 \in D
  BY <1>4
<1>6. ASSUME NEW d \in Nat, d \in D PROVE d + 1 \in D
  <2>1. CASE d + 1 <= level
    <3>1. /\ d + 1 \in 0 .. level /\ d + 1 \in 0 .. level + 1 /\ d + 1 # 0 /\ (d + 1) - 1 = d
          /\ d <= level /\ level + 1 \in Nat
      BY <2>1
    <3>2. /\ f(level)[d + 1] = storage_hop(s, f(level)[d])
          /\ f(level + 1)[d + 1] = storage_hop(s, f(level + 1)[d])
      BY <1>4, <3>1
    <3>3. QED
      BY <1>6, <3>1, <3>2
  <2>2. CASE ~(d + 1 <= level)
    BY <2>2
  <2>3. QED
    BY <2>1, <2>2
<1>7. f(level)[level] = f(level + 1)[level]
  <2>1. D \in SUBSET Nat
    OBVIOUS
  <2>2. \A d \in D : d <= level => f(level)[d] = f(level + 1)[d]
    OBVIOUS
  <2> HIDE DEF D
  <2>3. D = Nat
    BY <1>5, <1>6, <2>1, Induct
  <2>4. QED
    BY <2>2, <2>3
<1>8. within_storage(s, e, level + 1) = storage_hop(s, f(level + 1)[level])
  <2>1. level + 1 \in Nat /\ level + 1 \in 0 .. level + 1 /\ level + 1 # 0 /\ (level + 1) - 1 = level
    OBVIOUS
  <2>2. within_storage(s, e, level + 1) = f(level + 1)[level + 1]
    BY <1>4, <2>1
  <2>3. f(level + 1)[level + 1] = storage_hop(s, f(level + 1)[level])
    BY <1>4, <2>1
  <2>4. QED
    BY <2>2, <2>3
<1>9. within_storage(s, e, level) = f(level)[level] /\ within_storage(s, e, 0) = {e}
  BY <1>4
<1>10. QED
  BY <1>7, <1>8, <1>9

\* One more hop into a cache, and the recursion of within_cache.
cache_hop(c, X) ==
    X \cup UNION {cache_entry(c, a.i) : a \in UNION {left_addresses(x) : x \in X}}
CacheHops(c, e, f, m) == f = [d \in 0 .. m |-> IF d = 0 THEN {e} ELSE cache_hop(c, f[d - 1])]

LEMMA WithinCache ==
    ASSUME NEW c, NEW e, NEW level \in Nat
    PROVE  /\ within_cache(c, e, 0) = {e}
           /\ within_cache(c, e, level + 1) = cache_hop(c, within_cache(c, e, level))
<1> DEFINE T == {m \in Nat : \E f : CacheHops(c, e, f, m)}
<1>1. \E f : CacheHops(c, e, f, 0)
  <2> DEFINE f == [d \in 0 .. 0 |-> {e}]
  <2>1. CacheHops(c, e, f, 0)
    BY DEF CacheHops
  <2>2. QED
    BY <2>1
<1>2. ASSUME NEW m \in Nat, NEW f, CacheHops(c, e, f, m) PROVE \E g : CacheHops(c, e, g, m + 1)
  <2> DEFINE g == [d \in 0 .. m + 1 |-> IF d = m + 1 THEN cache_hop(c, f[m]) ELSE f[d]]
  <2>1. \A d \in 0 .. m : f[d] = IF d = 0 THEN {e} ELSE cache_hop(c, f[d - 1])
    BY <1>2 DEF CacheHops
  <2>2. \A d \in 0 .. m + 1 : g[d] = IF d = 0 THEN {e} ELSE cache_hop(c, g[d - 1])
    <3> SUFFICES ASSUME NEW d \in 0 .. m + 1
                 PROVE  g[d] = IF d = 0 THEN {e} ELSE cache_hop(c, g[d - 1])
      OBVIOUS
    <3>1. CASE d = m + 1
      <4>1. d # 0 /\ g[d] = cache_hop(c, f[m]) /\ d - 1 \in 0 .. m + 1 /\ d - 1 # m + 1 /\ d - 1 = m
        BY <3>1
      <4>2. g[d - 1] = f[m]
        BY <4>1
      <4>3. QED
        BY <4>1, <4>2
    <3>2. CASE d # m + 1 /\ d = 0
      BY <2>1, <3>2
    <3>3. CASE d # m + 1 /\ d # 0
      <4>1. d \in 0 .. m /\ d - 1 \in 0 .. m + 1 /\ d - 1 # m + 1 /\ g[d] = f[d]
        BY <3>3
      <4>2. g[d - 1] = f[d - 1] /\ f[d] = cache_hop(c, f[d - 1])
        BY <2>1, <3>3, <4>1
      <4>3. QED
        BY <3>3, <4>1, <4>2
    <3>4. QED
      BY <3>1, <3>2, <3>3
  <2>3. g = [d \in 0 .. m + 1 |-> g[d]]
    OBVIOUS
  <2> HIDE DEF g
  <2>4. CacheHops(c, e, g, m + 1)
    BY <2>2, <2>3 DEF CacheHops
  <2>5. QED
    BY <2>4
<1>3. T = Nat
  <2>1. T \in SUBSET Nat /\ 0 \in T
    BY <1>1
  <2>2. \A m \in Nat : m \in T => m + 1 \in T
    BY <1>2
  <2> HIDE DEF T
  <2>3. QED
    BY <2>1, <2>2, Induct
<1> DEFINE f(m) == CHOOSE f : CacheHops(c, e, f, m)
<1>4. ASSUME NEW m \in Nat
      PROVE  /\ \A d \in 0 .. m : f(m)[d] = IF d = 0 THEN {e} ELSE cache_hop(c, f(m)[d - 1])
             /\ within_cache(c, e, m) = f(m)[m]
  <2>1. \E g : CacheHops(c, e, g, m)
    BY <1>3
  <2>2. CacheHops(c, e, f(m), m)
    BY <2>1
  <2>3. within_cache(c, e, m) = f(m)[m]
    BY DEF within_cache, CacheHops, cache_hop
  <2> HIDE DEF f
  <2>4. \A d \in 0 .. m : f(m)[d] = IF d = 0 THEN {e} ELSE cache_hop(c, f(m)[d - 1])
    BY <2>2 DEF CacheHops
  <2>5. QED
    BY <2>3, <2>4
<1> HIDE DEF f
<1> DEFINE D == {d \in Nat : d <= level => f(level)[d] = f(level + 1)[d]}
<1>5. 0 \in D
  BY <1>4
<1>6. ASSUME NEW d \in Nat, d \in D PROVE d + 1 \in D
  <2>1. CASE d + 1 <= level
    <3>1. /\ d + 1 \in 0 .. level /\ d + 1 \in 0 .. level + 1 /\ d + 1 # 0 /\ (d + 1) - 1 = d
          /\ d <= level /\ level + 1 \in Nat
      BY <2>1
    <3>2. /\ f(level)[d + 1] = cache_hop(c, f(level)[d])
          /\ f(level + 1)[d + 1] = cache_hop(c, f(level + 1)[d])
      BY <1>4, <3>1
    <3>3. QED
      BY <1>6, <3>1, <3>2
  <2>2. CASE ~(d + 1 <= level)
    BY <2>2
  <2>3. QED
    BY <2>1, <2>2
<1>7. f(level)[level] = f(level + 1)[level]
  <2>1. D \in SUBSET Nat
    OBVIOUS
  <2>2. \A d \in D : d <= level => f(level)[d] = f(level + 1)[d]
    OBVIOUS
  <2> HIDE DEF D
  <2>3. D = Nat
    BY <1>5, <1>6, <2>1, Induct
  <2>4. QED
    BY <2>2, <2>3
<1>8. within_cache(c, e, level + 1) = cache_hop(c, f(level + 1)[level])
  <2>1. level + 1 \in Nat /\ level + 1 \in 0 .. level + 1 /\ level + 1 # 0 /\ (level + 1) - 1 = level
    OBVIOUS
  <2>2. within_cache(c, e, level + 1) = f(level + 1)[level + 1]
    BY <1>4, <2>1
  <2>3. f(level + 1)[level + 1] = cache_hop(c, f(level + 1)[level])
    BY <1>4, <2>1
  <2>4. QED
    BY <2>2, <2>3
<1>9. within_cache(c, e, level) = f(level)[level] /\ within_cache(c, e, 0) = {e}
  BY <1>4
<1>10. QED
  BY <1>7, <1>8, <1>9

\* What is some hops away is what the entries one hop nearer lead to, and more.
LEMMA HopsGrow ==
    ASSUME NEW s, NEW e, NEW d \in Nat, NEW l \in Nat, d <= l
    PROVE  within_storage(s, e, d) \subseteq within_storage(s, e, l)
<1> DEFINE T == {k \in Nat : within_storage(s, e, d) \subseteq within_storage(s, e, d + k)}
<1>1. 0 \in T
  OBVIOUS
<1>2. ASSUME NEW k \in Nat, k \in T PROVE k + 1 \in T
  <2>1. d + k \in Nat /\ (d + k) + 1 = d + (k + 1)
    OBVIOUS
  <2>2. within_storage(s, e, (d + k) + 1) = storage_hop(s, within_storage(s, e, d + k))
    BY <2>1, WithinStorage
  <2>3. within_storage(s, e, d) \subseteq within_storage(s, e, d + k)
    BY <1>2
  <2>4. within_storage(s, e, d) \subseteq within_storage(s, e, d + (k + 1))
    BY <2>1, <2>2, <2>3 DEF storage_hop
  <2>5. QED
    BY <2>4
<1>3. l - d \in Nat /\ d + (l - d) = l
  OBVIOUS
<1>4. T = Nat
  <2> T \in SUBSET Nat
    OBVIOUS
  <2> HIDE DEF T
  <2>1. QED
    BY <1>1, <1>2, Induct
<1>5. QED
  BY <1>3, <1>4

LEMMA HopsAreStored ==
    ASSUME NEW s, NEW e, NEW d \in Nat
    PROVE  /\ e \in within_storage(s, e, d)
           /\ within_storage(s, e, d) \subseteq entries_of(s) \cup {e}
           /\ \A x \in within_storage(s, e, d) : \A a \in left_addresses(x) :
                 read_entry_with_index_check(s, a) \subseteq within_storage(s, e, d + 1)
<1> DEFINE T == {k \in Nat : within_storage(s, e, k) \subseteq entries_of(s) \cup {e}}
<1>1. 0 \in T /\ within_storage(s, e, 0) = {e}
  BY WithinStorage
<1>2. ASSUME NEW k \in Nat, k \in T PROVE k + 1 \in T
  <2>1. \A a : read_entry_with_index_check(s, a) \subseteq entries_of(s)
    BY DEF read_entry_with_index_check, entries_of
  <2>2. within_storage(s, e, k + 1) = storage_hop(s, within_storage(s, e, k))
    BY WithinStorage
  <2>3. within_storage(s, e, k + 1) \subseteq entries_of(s) \cup {e}
    BY <1>2, <2>1, <2>2 DEF storage_hop
  <2>4. QED
    BY <2>3
<1>3. T = Nat
  <2> T \in SUBSET Nat
    OBVIOUS
  <2> HIDE DEF T
  <2>1. QED
    BY <1>1, <1>2, Induct
<1>4. e \in within_storage(s, e, d)
  BY <1>1, HopsGrow
<1>5. within_storage(s, e, d + 1) = storage_hop(s, within_storage(s, e, d))
  BY WithinStorage
<1>6. QED
  BY <1>3, <1>4, <1>5 DEF storage_hop

-----------------------------------------------------------------------------
(* Loading.                                                                *)

\* The addresses that load takes for the roots, from the entry of a generation,
\* name the roots of that generation (cache.rs:44-62).
LEMMA RootAddresses ==
    ASSUME NEW s, NEW x, EntryOK(s, x), index_of(x) \in Index \ {0}
    PROVE  /\ \A a \in pbst_root_addresses(x) :
                 /\ a.i \in Nat /\ a.j \in Nat /\ is_root(index_of(x), a.i, a.j)
                 /\ \/ a \in left_addresses(x)
                    \/ a.i = index_of(x) /\ entry_meta(x, a.j) # {}
           /\ \A r \in ToSet(pbst_roots(index_of(x))) :
                 \E a \in pbst_root_addresses(x) : a.i = r.i /\ a.j = r.j
<1> DEFINE n == index_of(x)
           nodes == inodes(n)
           perfect(k) == is_pbst(x.inodes[k].meta.address.i, x.inodes[k].meta.address.j)
           perfects == {k \in 1 .. Len(x.inodes) : perfect(k)}
           top == IF perfects = {} THEN 0 ELSE Max(perfects)
           own == IF top = 0 THEN x.enode.meta.address ELSE x.inodes[top].meta.address
<1>1. /\ nodes \in Seq(INodes) /\ Len(nodes) \in Nat
      /\ \A k \in 1 .. Len(nodes) : nodes[k].left \in NodeAddr
  <2>1. nodes \in Seq(INodes) /\ Len(nodes) \in Nat
    BY InodeHeights
  <2>2. \A k \in 1 .. Len(nodes) : nodes[k] \in INodes
    BY <2>1, ElementOfSeq
  <2>3. QED
    BY <2>1, <2>2 DEF INodes
<1>2. PICK h \in 0 .. Len(nodes) :
        /\ is_root(n, n, h)
        /\ \A k \in 1 .. Len(nodes) : k <= h <=> is_pbst(n, nodes[k].node.j)
        /\ h > 0 => nodes[h].node = Addr(n, h)
        /\ \A k \in h + 1 .. Len(nodes) : is_root(n, nodes[k].left.i, nodes[k].left.j)
        /\ \A i, j \in Nat : is_root(n, i, j) =>
              \/ i = n /\ j = h
              \/ i < n /\ \E k \in h + 1 .. Len(nodes) : nodes[k].left = Addr(i, j)
  BY InodesSplit
<1>3. /\ x.enode.meta.address = Address(n, 0, position_of(x))
      /\ DOMAIN x.inodes = 1 .. Len(nodes) /\ Len(x.inodes) = Len(nodes)
      /\ \A k \in 1 .. Len(nodes) :
            /\ x.inodes[k].meta.address = Address(n, nodes[k].node.j, position_of(x))
            /\ x.inodes[k].left.i = nodes[k].left.i /\ x.inodes[k].left.j = nodes[k].left.j
  BY DEF EntryOK
<1>4. n \in Index /\ n \in Nat
  BY IndexIsNat
<1> HIDE DEF n, nodes
<1>5. \A k \in 1 .. Len(nodes) : perfect(k) <=> k <= h
  <2> SUFFICES ASSUME NEW k \in 1 .. Len(nodes) PROVE perfect(k) <=> k <= h
    OBVIOUS
  <2>1. x.inodes[k].meta.address = Address(n, nodes[k].node.j, position_of(x))
    BY <1>3
  <2>2. x.inodes[k].meta.address.i = n /\ x.inodes[k].meta.address.j = nodes[k].node.j
    BY <2>1 DEF Address
  <2>3. QED
    BY <1>2, <2>2
<1>6. perfects = 1 .. h
  BY <1>1, <1>2, <1>3, <1>5
<1>7. pbst_root_addresses(x) = {x.inodes[k].left : k \in (top + 1) .. Len(x.inodes)} \cup {own}
  BY DEF pbst_root_addresses
<1> HIDE DEF perfects
<1>8. top = h
  <2>1. CASE h = 0
    BY <1>6, <2>1
  <2>2. CASE h # 0
    <3>1. h \in Nat \ {0} /\ h \in 1 .. h /\ \A y \in 1 .. h : h >= y
      BY <1>1, <2>2
    <3>2. \A y \in 1 .. h : y >= h => y = h
      BY <3>1
    <3>3. Max(1 .. h) = h
      BY <3>1, <3>2 DEF Max
    <3>4. QED
      BY <1>6, <3>1, <3>3
  <2>3. QED
    BY <2>1, <2>2
<1>9. own.i = n /\ own.j = h /\ entry_meta(x, h) # {}
  <2>1. CASE h = 0
    <3>1. own = Address(n, 0, position_of(x))
      BY <1>3, <1>8, <2>1
    <3>2. QED
      BY <2>1, <3>1 DEF Address, entry_meta
  <2>2. CASE h # 0
    <3>1. h \in 1 .. Len(nodes) /\ nodes[h].node = Addr(n, h)
      BY <1>1, <1>2, <2>2
    <3>2. nodes[h].node.j = h
      BY <3>1 DEF Addr
    <3>3. own = Address(n, h, position_of(x)) /\ x.inodes[h].meta.address = own
      BY <1>3, <1>8, <2>2, <3>1, <3>2
    <3>4. x.inodes[h].meta.address.j = h
      BY <3>3 DEF Address
    <3>5. x.inodes[h] \in entry_inode(x, h)
      BY <1>3, <3>1, <3>4 DEF entry_inode, ToSet
    <3>6. QED
      BY <2>2, <3>3, <3>5 DEF Address, entry_meta
  <2>3. QED
    BY <2>1, <2>2
<1> HIDE DEF own, top
<1>10. pbst_root_addresses(x) = {x.inodes[k].left : k \in (h + 1) .. Len(nodes)} \cup {own}
  BY <1>3, <1>7, <1>8
<1>11. ASSUME NEW a \in pbst_root_addresses(x)
       PROVE  /\ a.i \in Nat /\ a.j \in Nat /\ is_root(n, a.i, a.j)
              /\ a \in left_addresses(x) \/ (a.i = n /\ entry_meta(x, a.j) # {})
  <2>1. CASE a = own
    <3>1. a.i = n /\ a.j = h /\ h \in Nat
      BY <1>1, <1>9, <2>1
    <3>2. is_root(n, a.i, a.j) /\ entry_meta(x, a.j) # {}
      BY <1>2, <1>9, <3>1
    <3>3. QED
      BY <1>4, <3>1, <3>2
  <2>2. ASSUME NEW k \in (h + 1) .. Len(nodes), a = x.inodes[k].left
        PROVE  a.i \in Nat /\ a.j \in Nat /\ is_root(n, a.i, a.j) /\ a \in left_addresses(x)
    <3>1. k \in 1 .. Len(nodes)
      BY <1>1, <2>2
    <3>2. a.i = nodes[k].left.i /\ a.j = nodes[k].left.j /\ nodes[k].left \in NodeAddr
      BY <1>1, <1>3, <2>2, <3>1
    <3>3. a \in left_addresses(x)
      BY <1>3, <2>2, <3>1 DEF left_addresses, ToSet
    <3>4. QED
      BY <1>2, <3>2, <3>3 DEF NodeAddr
  <2>3. QED
    BY <1>10, <2>1, <2>2
<1>12. ASSUME NEW r \in ToSet(pbst_roots(n))
       PROVE  \E a \in pbst_root_addresses(x) : a.i = r.i /\ a.j = r.j
  <2>1. r.i \in 1 .. n /\ r.i \in Nat /\ r.j \in Nat /\ is_root(n, r.i, r.j)
    BY <1>4, RootsAre
  <2>2. CASE r.i = n /\ r.j = h
    BY <1>9, <1>10, <2>2
  <2>3. ASSUME NEW k \in h + 1 .. Len(nodes), nodes[k].left = Addr(r.i, r.j)
        PROVE  \E a \in pbst_root_addresses(x) : a.i = r.i /\ a.j = r.j
    <3>1. k \in 1 .. Len(nodes)
      BY <1>1, <2>3
    <3>2. x.inodes[k].left.i = r.i /\ x.inodes[k].left.j = r.j
      BY <1>3, <2>3, <3>1 DEF Addr
    <3>3. QED
      BY <1>10, <3>2
  <2>4. QED
    BY <1>2, <2>1, <2>2, <2>3
<1>13. QED
  BY <1>11, <1>12 DEF n

\* A cache loaded from the last entry finds every root and holds exactly the
\* roots of the generation (cache.rs:28-85).
LEMMA LoadedRoots ==
    ASSUME NEW s, NEW n \in 0 .. MaxN, Tree(s, n), NEW e \in entries_of(s), NEW level \in Nat
    PROVE  /\ load_never_panics(s, level, e)
           /\ RootsOK(s, load(s, level, e))
<1> DEFINE i == index_of(e)
           c == load(s, level, e)
           D == load_distance(level)
           A == pbst_root_addresses(e)
           stored == entries_of(s) \cup {e}
           near == {x \in stored : x \in within_storage(s, e, D)}
           found(a) == UNION {entry_meta(x, a.j) : x \in {y \in near : index_of(y) = a.i}}
           metas == UNION {found(a) : a \in A}
<1>1. /\ i \in Index \ {0} /\ i \in 1 .. n /\ EntryOK(s, e)
      /\ i \in Nat /\ i \in Index
  BY StoredEntry, IndexIsNat
<1>2. D \in Nat /\ 0 + 1 <= D
  BY DEF load_distance
<1>3. /\ c.revision = i
      /\ c.pbst_roots = [k \in {m.address.i : m \in metas} |-> CHOOSE m \in metas : m.address.i = k]
  BY DEF load, CacheOf
<1>4. \A x \in near : x \in entries_of(s)
  BY HopsAreStored
<1>5. e \in near
  BY <1>2, HopsAreStored
<1>6. /\ \A a \in A : /\ a.i \in Nat /\ a.j \in Nat /\ is_root(i, a.i, a.j)
                      /\ a \in left_addresses(e) \/ (a.i = i /\ entry_meta(e, a.j) # {})
      /\ \A r \in ToSet(pbst_roots(i)) : \E a \in A : a.i = r.i /\ a.j = r.j
  BY <1>1, RootAddresses
<1>7. ASSUME NEW a \in A
      PROVE  \E x \in near : index_of(x) = a.i /\ entry_meta(x, a.j) # {}
  <2>1. CASE a.i = i /\ entry_meta(e, a.j) # {}
    BY <1>5, <2>1
  <2>2. CASE a \in left_addresses(e)
    <3>1. PICK y \in entries_of(s) : /\ read_entry_with_index_check(s, a) = {y}
                                    /\ index_of(y) = a.i /\ entry_meta(y, a.j) # {}
      BY <2>2, LeftEntry
    <3>2. e \in within_storage(s, e, 0) /\ 0 \in Nat /\ 0 + 1 \in Nat
      BY HopsAreStored
    <3>3. y \in within_storage(s, e, 0 + 1)
      BY <2>2, <3>1, <3>2, HopsAreStored
    <3>4. y \in within_storage(s, e, D)
      BY <1>2, <3>2, <3>3, HopsGrow
    <3>5. QED
      BY <3>1, <3>4
  <2>3. QED
    BY <1>6, <2>1, <2>2
<1>8. load_never_panics(s, level, e)
  BY <1>7 DEF load_never_panics
<1> HIDE DEF c, D, A, i
<1>9. ASSUME NEW a \in A, NEW m \in found(a)
      PROVE  /\ m.address.i = a.i
             /\ \E x \in entries_of(s) : index_of(x) = a.i /\ m \in entry_meta(x, a.j)
  <2>1. PICK x \in near : index_of(x) = a.i /\ m \in entry_meta(x, a.j)
    OBVIOUS
  <2>2. x \in entries_of(s) /\ EntryOK(s, x) /\ index_of(x) \in Index \ {0}
    BY <1>4, StoredEntry
  <2>3. m.address = Address(index_of(x), a.j, position_of(x))
    BY <2>1, <2>2, EntryMetas
  <2>4. QED
    BY <2>1, <2>2, <2>3 DEF Address
<1>10. ASSUME NEW r \in ToSet(pbst_roots(i))
       PROVE  /\ \E m \in metas : m.address.i = r.i
              /\ \A m \in metas : m.address.i = r.i =>
                    \E x \in entries_of(s) : index_of(x) = r.i /\ m \in entry_meta(x, r.j)
  <2>1. PICK a \in A : a.i = r.i /\ a.j = r.j
    BY <1>6
  <2>2. PICK m \in found(a) : TRUE
    BY <1>7
  <2>3. m \in metas /\ m.address.i = r.i
    BY <1>9, <2>1, <2>2
  <2>4. ASSUME NEW o \in metas, o.address.i = r.i
        PROVE  \E x \in entries_of(s) : index_of(x) = r.i /\ o \in entry_meta(x, r.j)
    <3>1. PICK b \in A : o \in found(b)
      OBVIOUS
    <3>2. b.i = r.i /\ \E x \in entries_of(s) : index_of(x) = b.i /\ o \in entry_meta(x, b.j)
      BY <1>9, <2>4, <3>1
    <3>3. Addr(b.i, b.j) \in ToSet(pbst_roots(i))
      BY <1>1, <1>6, <3>1, RootsAre
    <3>4. Addr(b.i, b.j) = r
      BY <1>1, <3>2, <3>3, RootsAre DEF Addr
    <3>5. b.j = r.j
      BY <3>4 DEF Addr
    <3>6. QED
      BY <3>2, <3>5
  <2>5. QED
    BY <2>3, <2>4
<1>11. \A m \in metas : \E r \in ToSet(pbst_roots(i)) : r.i = m.address.i
  <2> SUFFICES ASSUME NEW m \in metas
               PROVE  \E r \in ToSet(pbst_roots(i)) : r.i = m.address.i
    OBVIOUS
  <2>1. PICK a \in A : m \in found(a)
    OBVIOUS
  <2>2. m.address.i = a.i
    BY <1>9, <2>1
  <2>3. Addr(a.i, a.j) \in ToSet(pbst_roots(i))
    BY <1>1, <1>6, <2>1, RootsAre
  <2>4. QED
    BY <2>2, <2>3 DEF Addr
<1> HIDE DEF metas
<1>12. DOMAIN c.pbst_roots = {r.i : r \in ToSet(pbst_roots(i))}
  BY <1>3, <1>10, <1>11
<1>13. ASSUME NEW r \in ToSet(pbst_roots(i))
       PROVE  \E x \in entries_of(s) : index_of(x) = r.i /\ c.pbst_roots[r.i] \in entry_meta(x, r.j)
  <2>1. PICK m \in metas : m.address.i = r.i
    BY <1>10
  <2>2. c.pbst_roots[r.i] = CHOOSE o \in metas : o.address.i = r.i
    BY <1>3, <2>1
  <2>3. c.pbst_roots[r.i] \in metas /\ c.pbst_roots[r.i].address.i = r.i
    BY <2>1, <2>2
  <2>4. QED
    BY <1>10, <2>3
<1>14. RootsOK(s, c)
  BY <1>3, <1>12, <1>13 DEF RootsOK
<1>15. QED
  BY <1>8, <1>14 DEF c

\* What the cache has for a root is the node of the stored entry.
LEMMA RootMeta ==
    ASSUME NEW s, NEW n \in 0 .. MaxN, Tree(s, n), NEW c, RootsOK(s, c), c.revision \in Index,
           NEW r \in ToSet(pbst_roots(c.revision))
    PROVE  /\ r.i \in DOMAIN c.pbst_roots
           /\ \E x \in entries_of(s) :
                 /\ index_of(x) = r.i /\ c.pbst_roots[r.i] \in entry_meta(x, r.j)
                 /\ c.pbst_roots[r.i].address = Address(r.i, r.j, position_of(x))
<1>1. PICK x \in entries_of(s) : index_of(x) = r.i /\ c.pbst_roots[r.i] \in entry_meta(x, r.j)
  BY DEF RootsOK
<1>2. EntryOK(s, x) /\ index_of(x) \in Index \ {0}
  BY StoredEntry
<1>3. c.pbst_roots[r.i].address = Address(index_of(x), r.j, position_of(x))
  BY <1>1, <1>2, EntryMetas
<1>4. QED
  BY <1>1, <1>3 DEF RootsOK

\* Two caches of a generation agree on its roots.
LEMMA RootsAreOne ==
    ASSUME NEW s, NEW n \in 0 .. MaxN, Tree(s, n), NEW c, RootsOK(s, c), NEW d, RootsOK(s, d),
           c.revision = d.revision
    PROVE  /\ DOMAIN c.pbst_roots = DOMAIN d.pbst_roots
           /\ \A i \in DOMAIN c.pbst_roots : c.pbst_roots[i] = d.pbst_roots[i]
<1>1. DOMAIN c.pbst_roots = DOMAIN d.pbst_roots
  BY DEF RootsOK
<1>2. ASSUME NEW i \in DOMAIN c.pbst_roots PROVE c.pbst_roots[i] = d.pbst_roots[i]
  <2>1. PICK r \in ToSet(pbst_roots(c.revision)) : r.i = i
    BY DEF RootsOK
  <2>2. PICK x \in entries_of(s) : index_of(x) = i /\ c.pbst_roots[i] \in entry_meta(x, r.j)
    BY <2>1 DEF RootsOK
  <2>3. PICK y \in entries_of(s) : index_of(y) = i /\ d.pbst_roots[i] \in entry_meta(y, r.j)
    BY <2>1 DEF RootsOK
  <2>4. x = y /\ EntryOK(s, x) /\ index_of(x) \in Index \ {0}
    BY <2>2, <2>3, StoredEntry
  <2>5. QED
    BY <2>2, <2>3, <2>4, EntryMetas
<1>3. QED
  BY <1>1, <1>2

\* The generation before the first has no root.
LEMMA NoRoots == pbst_roots(0) = <<>> /\ ToSet(pbst_roots(0)) = {} /\ \A i, j \in Nat : ~is_root(0, i, j)
<1>1. 0 \in Index
  BY Revisions
<1>2. pbst_roots(0) \in Seq(NodeAddr) /\ Len(pbst_roots(0)) = count_pbsts(0)
  BY <1>1, RootsTile
<1>3. count_pbsts(0) = 0 /\ \A j \in Nat : ~one_at(0, j)
  BY CountOnesZero DEF count_pbsts
<1>4. pbst_roots(0) = <<>>
  BY <1>2, <1>3, EmptySeq
<1>5. QED
  BY <1>3, <1>4 DEF ToSet, is_root

\* A cache read back from the end of the storage holds the roots of the revision.
LEMMA MetadataRoots ==
    ASSUME NEW s, NEW n \in 0 .. MaxN, Tree(s, n), NEW level \in Level
    PROVE  LET c == load_metadata(s, level)
           IN  RootsOK(s, c) /\ c.revision = n /\ c.level = level
<1>1. level \in Nat /\ n \in Nat
  BY SlateAssumption, Revisions
<1>2. CASE storage_last(s) = {}
  <2>1. load_metadata(s, level) = empty(level) /\ n = 0
    BY <1>2, LastIsHighest DEF load_metadata, Tree
  <2>2. /\ empty(level).revision = 0 /\ empty(level).level = level
        /\ DOMAIN empty(level).pbst_roots = {}
    BY DEF empty, CacheOf
  <2>3. RootsOK(s, empty(level))
    BY <2>2, NoRoots DEF RootsOK
  <2>4. QED
    BY <2>1, <2>2, <2>3
<1>3. CASE storage_last(s) # {}
  <2>1. PICK e \in storage_last(s) : load_metadata(s, level) = load(s, level, e)
    BY <1>3 DEF load_metadata
  <2>2. e \in entries_of(s) /\ index_of(e) = n
    BY <2>1, LastIsHighest DEF Tree
  <2>3. RootsOK(s, load(s, level, e))
    BY <1>1, <2>2, LoadedRoots
  <2>4. load(s, level, e).level = level /\ load(s, level, e).revision = n
    BY <2>2 DEF load, CacheOf
  <2>5. QED
    BY <2>1, <2>3, <2>4
<1>4. QED
  BY <1>2, <1>3

-----------------------------------------------------------------------------
(* Building an entry.                                                      *)

\* The hashes of a new entry, from its leaf up.
leaf_of(i, p, v) == MetaInfo(Address(i, 0, p), from_bytes(0, v))
climbing_hash(c, i, p, v, f, k) ==
    IF k = 0 THEN leaf_of(i, p, v).hash
    ELSE combine(c.pbst_roots[inodes(i)[k].left.i].hash, inodes(i)[k].node.j, f[k - 1])
Climbs(c, i, p, v, f, m) == f = [k \in 0 .. m |-> climbing_hash(c, i, p, v, f, k)]

LEMMA ClimbingHash ==
    ASSUME NEW c, NEW i, NEW p, NEW v, NEW m \in Nat
    PROVE  \E f : Climbs(c, i, p, v, f, m)
<1> DEFINE T == {k \in Nat : \E f : Climbs(c, i, p, v, f, k)}
<1>1. \E f : Climbs(c, i, p, v, f, 0)
  <2> DEFINE f == [k \in 0 .. 0 |-> leaf_of(i, p, v).hash]
  <2>1. Climbs(c, i, p, v, f, 0)
    BY DEF Climbs, climbing_hash
  <2>2. QED
    BY <2>1
<1>2. ASSUME NEW l \in Nat, NEW f, Climbs(c, i, p, v, f, l)
      PROVE  \E g : Climbs(c, i, p, v, g, l + 1)
  <2> DEFINE g == [k \in 0 .. l + 1 |-> IF k = l + 1 THEN climbing_hash(c, i, p, v, f, l + 1) ELSE f[k]]
  <2>1. \A k \in 0 .. l : f[k] = climbing_hash(c, i, p, v, f, k)
    BY <1>2 DEF Climbs
  <2>2. ASSUME NEW k \in 0 .. l + 1
        PROVE  climbing_hash(c, i, p, v, g, k) = climbing_hash(c, i, p, v, f, k)
    <3>1. CASE k = 0
      BY <3>1 DEF climbing_hash
    <3>2. CASE k # 0
      <4>1. k - 1 \in 0 .. l + 1 /\ k - 1 # l + 1
        BY <3>2
      <4>2. g[k - 1] = f[k - 1]
        BY <4>1
      <4> HIDE DEF g
      <4>3. QED
        BY <4>2 DEF climbing_hash
    <3>3. QED
      BY <3>1, <3>2
  <2>3. \A k \in 0 .. l + 1 : g[k] = climbing_hash(c, i, p, v, g, k)
    BY <2>1, <2>2
  <2>4. g = [k \in 0 .. l + 1 |-> g[k]]
    OBVIOUS
  <2> HIDE DEF g
  <2>5. Climbs(c, i, p, v, g, l + 1)
    BY <2>3, <2>4 DEF Climbs
  <2>6. QED
    BY <2>5
<1>3. T = Nat
  <2>1. T \in SUBSET Nat /\ 0 \in T
    BY <1>1
  <2>2. \A k \in Nat : k \in T => k + 1 \in T
    BY <1>2
  <2> HIDE DEF T
  <2>3. QED
    BY <2>1, <2>2, Induct
<1>4. QED
  BY <1>3

\* Entry e, built from the cache c, has the inodes of its generation, each over
\* the root that the cache has for its left child.
BuiltFrom(c, p, v, e) ==
    LET i == c.revision + 1
        nodes == inodes(i)
        left(k) == c.pbst_roots[nodes[k].left.i]
    IN  /\ e.enode.meta = leaf_of(i, p, v) /\ IsList(e.inodes, Len(nodes))
        /\ DOMAIN e.inodes = 1 .. Len(nodes) /\ Len(e.inodes) = Len(nodes)
        /\ \A k \in 1 .. Len(nodes) :
              /\ e.inodes[k].meta.address = Address(i, nodes[k].node.j, p)
              /\ e.inodes[k].left = left(k).address
              /\ e.inodes[k].meta.hash =
                   combine(left(k).hash, nodes[k].node.j,
                           IF k = 1 THEN from_bytes(0, v) ELSE e.inodes[k - 1].meta.hash)

\* A new entry is built from the cache of its writer (lib.rs:526-560).
LEMMA NewEntryInodes ==
    ASSUME NEW c, c.revision + 1 \in Index \ {0}, NEW p, NEW v
    PROVE  BuiltFrom(c, p, v, new_entry(c, p, v))
<1> DEFINE i == c.revision + 1
           e == new_entry(c, p, v)
           nodes == inodes(i)
           left(k) == c.pbst_roots[nodes[k].left.i]
           f == CHOOSE h : Climbs(c, i, p, v, h, Len(nodes))
           node(k) == INode(MetaInfo(Address(nodes[k].node.i, nodes[k].node.j, p), f[k]), left(k).address,
                            Address(nodes[k].right.i, nodes[k].right.j, p))
<1>1. /\ Len(nodes) \in Nat /\ DOMAIN nodes = 1 .. Len(nodes)
      /\ \A k \in 1 .. Len(nodes) : nodes[k].node = Addr(i, nodes[k].node.j)
  BY InodeHeights
<1>2. e = Entry(ENode(leaf_of(i, p, v), v), [k \in 1 .. Len(nodes) |-> node(k)])
  BY DEF new_entry, Climbs, climbing_hash, leaf_of
<1>3. Climbs(c, i, p, v, f, Len(nodes))
  BY <1>1, ClimbingHash
<1> HIDE DEF f
<1>4. \A k \in 0 .. Len(nodes) : f[k] = climbing_hash(c, i, p, v, f, k)
  BY <1>3 DEF Climbs
<1>5. e.enode.meta = leaf_of(i, p, v) /\ e.inodes = [k \in 1 .. Len(nodes) |-> node(k)]
  BY <1>2 DEF Entry, ENode
<1>6. DOMAIN e.inodes = 1 .. Len(nodes) /\ Len(e.inodes) = Len(nodes)
      /\ IsList(e.inodes, Len(nodes))
  <2> DEFINE l == Len(nodes)
             x == e.inodes
  <2>1. l \in Nat /\ x = [k \in 1 .. l |-> node(k)]
    BY <1>1, <1>5
  <2> HIDE DEF l, x, node
  <2>2. DOMAIN x = 1 .. l /\ x = [k \in 1 .. l |-> x[k]]
    BY <2>1
  <2>3. Len(x) = l
    BY <2>1, <2>2, LenProperties
  <2>4. QED
    BY <2>2, <2>3 DEF IsList, x, l
<1> HIDE DEF e, nodes, i
<1>7. ASSUME NEW k \in 1 .. Len(nodes)
      PROVE  /\ e.inodes[k].meta.address = Address(i, nodes[k].node.j, p)
             /\ e.inodes[k].left = left(k).address
             /\ e.inodes[k].meta.hash = f[k]
  <2>1. e.inodes[k] = node(k)
    BY <1>5
  <2>2. nodes[k].node = Addr(i, nodes[k].node.j)
    BY <1>1
  <2>3. nodes[k].node.i = i
    BY <2>2 DEF Addr
  <2>4. QED
    BY <2>1, <2>3 DEF INode, MetaInfo
<1>8. ASSUME NEW k \in 1 .. Len(nodes)
      PROVE  f[k] = combine(left(k).hash, nodes[k].node.j,
                            IF k = 1 THEN from_bytes(0, v) ELSE e.inodes[k - 1].meta.hash)
  <2>1. k \in 0 .. Len(nodes) /\ k # 0
    BY <1>1
  <2>2. f[k] = combine(left(k).hash, nodes[k].node.j, f[k - 1])
    BY <1>4, <2>1 DEF climbing_hash, nodes
  <2>3. CASE k = 1
    <3>1. 0 \in 0 .. Len(nodes) /\ k - 1 = 0
      BY <1>1, <2>3
    <3>2. f[0] = from_bytes(0, v)
      BY <1>4, <3>1 DEF climbing_hash, leaf_of, MetaInfo
    <3>3. QED
      BY <2>2, <2>3, <3>1, <3>2
  <2>4. CASE k # 1
    <3>1. k - 1 \in 1 .. Len(nodes)
      BY <1>1, <2>4
    <3>2. e.inodes[k - 1].meta.hash = f[k - 1]
      BY <1>7, <3>1
    <3>3. QED
      BY <2>2, <2>4, <3>2
  <2>5. QED
    BY <2>3, <2>4
<1>9. QED
  BY <1>5, <1>6, <1>7, <1>8 DEF BuiltFrom, e, nodes, i

-----------------------------------------------------------------------------
(* Appending.                                                              *)

\* What could be read before a put can be read after it.
LEMMA PutKeepsReads ==
    ASSUME NEW s, NEW n, StorageOK(s, n), NEW e, NEW a, read_entry_with_index_check(s, a) # {}
    PROVE  read_entry_with_index_check(storage_put(s, s.end, e), a) = read_entry_with_index_check(s, a)
<1> DEFINE t == storage_put(s, s.end, e)
<1>1. /\ DOMAIN t.data = DOMAIN s.data \cup {s.end}
      /\ \A p \in DOMAIN t.data : t.data[p] = IF p = s.end THEN e ELSE s.data[p]
  BY DEF storage_put
<1>2. s.end \notin DOMAIN s.data
  BY DEF StorageOK
<1> HIDE DEF t
<1>3. PICK p \in DOMAIN s.data : p = a.position /\ index_of(s.data[p]) = a.i
  BY DEF read_entry_with_index_check
<1>4. p \in DOMAIN t.data /\ t.data[p] = s.data[p]
  BY <1>1, <1>2
<1>5. read_entry_with_index_check(t, a) = {s.data[p]} /\ read_entry_with_index_check(s, a) = {s.data[p]}
  BY <1>3, <1>4 DEF read_entry_with_index_check
<1>6. QED
  BY <1>5 DEF t

\* The next entry is built without a panic and belongs to the tree.
LEMMA AppendTree ==
    ASSUME NEW s, NEW n \in 0 .. MaxN, Tree(s, n), n < MaxN,
           NEW c, RootsOK(s, c), c.revision = n, NEW v \in Value
    PROVE  LET e == new_entry(c, s.end, v)
               t == storage_put(s, s.end, e)
           IN  /\ new_entry_never_panics(c)
               /\ Tree(t, n + 1) /\ entries_of(t) = entries_of(s) \cup {e}
               /\ index_of(e) = n + 1
<1> DEFINE e == new_entry(c, s.end, v)
           t == storage_put(s, s.end, e)
           i == c.revision + 1
           nodes == inodes(i)
<1>1. n \in Index /\ n \in Nat /\ i \in 1 .. MaxN /\ i \in Index \ {0} /\ MaxN \in Nat
      /\ i - 1 = n /\ i = n + 1
  BY Revisions
<1>built. BuiltFrom(c, s.end, v, e)
  BY <1>1, NewEntryInodes
<1>2. index_of(e) = i /\ position_of(e) = s.end /\ e.enode.payload = v
  BY NewEntryFields
<1>3. IsEntry(e)
  BY <1>1, <1>2 DEF IsEntry, Tree, StorageOK
<1>4. StorageOK(t, i) /\ entries_of(t) = entries_of(s) \cup {e}
  BY <1>2, <1>3, PutKeepsStorageOK DEF Tree
<1>5. /\ e.enode.meta = leaf_of(i, s.end, v) /\ IsList(e.inodes, Len(nodes))
      /\ DOMAIN e.inodes = 1 .. Len(nodes) /\ Len(e.inodes) = Len(nodes)
      /\ \A k \in 1 .. Len(nodes) :
            /\ e.inodes[k].meta.address = Address(i, nodes[k].node.j, s.end)
            /\ e.inodes[k].left = c.pbst_roots[nodes[k].left.i].address
            /\ e.inodes[k].meta.hash =
                 combine(c.pbst_roots[nodes[k].left.i].hash, nodes[k].node.j,
                         IF k = 1 THEN from_bytes(0, v) ELSE e.inodes[k - 1].meta.hash)
  BY <1>built DEF BuiltFrom
<1>6. /\ nodes \in Seq(INodes) /\ DOMAIN nodes = 1 .. Len(nodes)
      /\ \A k \in 1 .. Len(nodes) : is_root(n, nodes[k].left.i, nodes[k].left.j)
  BY <1>1, InodesClimb, InodeHeights
<1> HIDE DEF nodes, e, i
<1>7. ASSUME NEW k \in 1 .. Len(nodes) PROVE nodes[k].left \in ToSet(pbst_roots(n))
  <2>1. nodes[k] \in INodes
    BY <1>6, ElementOfSeq
  <2>2. /\ nodes[k].left.i \in Nat /\ nodes[k].left.j \in Nat
        /\ nodes[k].left = Addr(nodes[k].left.i, nodes[k].left.j)
    BY <2>1 DEF INodes, NodeAddr, Addr
  <2>3. Addr(nodes[k].left.i, nodes[k].left.j) \in ToSet(pbst_roots(n))
    BY <1>1, <1>6, <2>2, RootsAre
  <2>4. QED
    BY <2>2, <2>3
<1>8. ASSUME NEW k \in 1 .. Len(nodes)
      PROVE  LET r == nodes[k].left
             IN  /\ r.i \in DOMAIN c.pbst_roots /\ c.pbst_roots[r.i].address.j = r.j
                 /\ \E x \in entries_of(s) :
                       /\ index_of(x) = r.i /\ c.pbst_roots[r.i] \in entry_meta(x, r.j)
                       /\ c.pbst_roots[r.i].address = Address(r.i, r.j, position_of(x))
  <2> DEFINE r == nodes[k].left
  <2>1. r \in ToSet(pbst_roots(c.revision)) /\ c.revision \in Index
    BY <1>1, <1>7
  <2> HIDE DEF r
  <2>2. /\ r.i \in DOMAIN c.pbst_roots
        /\ \E x \in entries_of(s) :
                       /\ index_of(x) = r.i /\ c.pbst_roots[r.i] \in entry_meta(x, r.j)
                       /\ c.pbst_roots[r.i].address = Address(r.i, r.j, position_of(x))
    BY <2>1, RootMeta
  <2>3. c.pbst_roots[r.i].address.j = r.j
    BY <2>2 DEF Address
  <2>4. QED
    BY <2>2, <2>3 DEF r
<1>9. new_entry_never_panics(c)
  BY <1>6, <1>8 DEF new_entry_never_panics, ToSet, nodes, i
<1>10. ASSUME NEW k \in 1 .. Len(nodes)
       PROVE  /\ e.inodes[k].left.i = nodes[k].left.i /\ e.inodes[k].left.j = nodes[k].left.j
              /\ Resolves(t, e.inodes[k])
  <2> DEFINE r == nodes[k].left
             m == c.pbst_roots[r.i]
             a == e.inodes[k].left
  <2>1. PICK x \in entries_of(s) : /\ index_of(x) = r.i /\ m \in entry_meta(x, r.j)
                                  /\ m.address = Address(r.i, r.j, position_of(x))
    BY <1>8
  <2>2. a = m.address /\ e.inodes[k].meta.hash[2] = m.hash
    BY <1>5 DEF combine
  <2>3. position_of(x) \in DOMAIN s.data /\ s.data[position_of(x)] = x
    BY StoredEntry
  <2> HIDE DEF a, r, m
  <2>4. a.i = r.i /\ a.j = r.j /\ a.position = position_of(x)
    BY <2>1, <2>2 DEF Address
  <2>5. x \in read_entry_with_index_check(s, a)
    BY <2>1, <2>3, <2>4 DEF read_entry_with_index_check
  <2>6. x \in read_entry_with_index_check(t, a)
    BY <2>5, PutKeepsReads DEF Tree
  <2>7. m \in entry_meta(x, a.j) /\ m.address = a
    BY <2>1, <2>2, <2>4
  <2>8. Resolves(t, e.inodes[k])
    BY <2>2, <2>6, <2>7 DEF Resolves, a
  <2>9. QED
    BY <2>4, <2>8 DEF a, r
<1>11. EntryOK(t, e)
  <2>1. e.enode.meta.hash = from_bytes(0, e.enode.payload)
    BY <1>2, <1>5 DEF leaf_of, MetaInfo
  <2>2. \A k \in 1 .. Len(nodes) :
           e.inodes[k].meta.hash[2] = c.pbst_roots[nodes[k].left.i].hash
    BY <1>5 DEF combine
  <2>3. HashesFollow(e)
    BY <1>2, <1>5, <2>1, <2>2 DEF HashesFollow, nodes
  <2>4. QED
    BY <1>2, <1>5, <1>10, <2>3 DEF EntryOK, leaf_of, MetaInfo, nodes
<1> HIDE DEF t
<1>12. ASSUME NEW x \in entries_of(s) PROVE EntryOK(t, x)
  <2>1. EntryOK(s, x)
    BY StoredEntry
  <2>2. ASSUME NEW k, Resolves(s, k) PROVE Resolves(t, k)
    <3>1. read_entry_with_index_check(s, k.left) # {}
      BY <2>2 DEF Resolves
    <3>2. read_entry_with_index_check(t, k.left) = read_entry_with_index_check(s, k.left)
      BY <3>1, PutKeepsReads DEF Tree, t
    <3>3. QED
      BY <2>2, <3>2 DEF Resolves
  <2>3. QED
    BY <2>1, <2>2 DEF EntryOK
<1>13. Tree(t, i)
  BY <1>4, <1>11, <1>12 DEF Tree, EntriesOK
<1>14. QED
  BY <1>2, <1>4, <1>9, <1>13 DEF t, e, i

\* Entries of different indices are found by them.
LEMMA ByIndex ==
    ASSUME NEW X, \A x, y \in X : index_of(x) = index_of(y) => x = y
    PROVE  /\ DOMAIN by_index(X) = {index_of(x) : x \in X}
           /\ \A x \in X : by_index(X)[index_of(x)] = x
<1>1. \A x \in X : (CHOOSE y \in X : index_of(y) = index_of(x)) = x
  OBVIOUS
<1>2. QED
  BY <1>1 DEF by_index

\* The entries at most d hops away from the last one.
near_end(s, n, d) ==
    {x \in entries_of(s) : \E l \in entries_of(s) : index_of(l) = n /\ x \in within_storage(s, l, d)}

\* A cache read back from the end of the storage finds exactly the entries
\* within its level.
LEMMA LoadedEntries ==
    ASSUME NEW s, NEW n \in 0 .. MaxN, Tree(s, n), NEW level \in Level
    PROVE  LET c == load_metadata(s, level)
           IN  /\ \A x \in near_end(s, n, level) :
                     index_of(x) \in DOMAIN c.entries /\ cache_entry(c, index_of(x)) = {x}
               /\ \A k \in DOMAIN c.entries :
                     c.entries[k] \in near_end(s, n, level) /\ index_of(c.entries[k]) = k
<1> DEFINE c == load_metadata(s, level)
<1>1. level \in Nat /\ n \in Nat
  BY SlateAssumption, Revisions
<1>2. CASE storage_last(s) = {}
  <2>1. c = empty(level) /\ n = 0
    BY <1>2, LastIsHighest DEF load_metadata, Tree
  <2>2. DOMAIN c.entries = {}
    BY <2>1 DEF empty, CacheOf
  <2>3. near_end(s, n, level) = {}
    BY <2>1, StoredEntry DEF near_end
  <2>4. QED
    BY <2>2, <2>3
<1>3. CASE storage_last(s) # {}
  <2>1. PICK e \in storage_last(s) : c = load(s, level, e)
    BY <1>3 DEF load_metadata
  <2>2. e \in entries_of(s) /\ index_of(e) = n
    BY <2>1, LastIsHighest DEF Tree
  <2> DEFINE X == {x \in entries_of(s) \cup {e} : x \in within_storage(s, e, level)}
  <2>3. c.entries = by_index(X)
    BY <2>1 DEF load, CacheOf
  <2>4. X = near_end(s, n, level)
    BY <2>2, StoredEntry DEF near_end
  <2>5. \A x, y \in X : index_of(x) = index_of(y) => x = y
    BY <2>2, StoredEntry
  <2> HIDE DEF X, c
  <2>6. DOMAIN c.entries = {index_of(x) : x \in X} /\ \A x \in X : c.entries[index_of(x)] = x
    BY <2>3, <2>5, ByIndex
  <2>7. \A x \in X : cache_entry(c, index_of(x)) = {x}
    BY <2>6 DEF cache_entry
  <2>8. QED
    BY <2>4, <2>6, <2>7 DEF c
<1>4. QED
  BY <1>2, <1>3

\* The storage t of the revision n + 1 is the storage s with the entry e at its end.
Appended(s, n, e, t) ==
    /\ Tree(s, n) /\ n < MaxN
    /\ index_of(e) = n + 1 /\ t = storage_put(s, s.end, e)
    /\ Tree(t, n + 1) /\ entries_of(t) = entries_of(s) \cup {e}

\* One hop from e, or from an entry d hops from the last one before it, leads to
\* one d + 1 hops from the last one.
StaysNear(s, n, e, t, d) ==
    \A x \in {e} \cup near_end(s, n, d) : \A a \in left_addresses(x) :
       \E y \in near_end(s, n, d + 1) :
          index_of(y) = a.i /\ read_entry_with_index_check(t, a) = {y}

\* One hop from the new entry, or from an entry near the last one, stays near it.
LEMMA HopStaysNear ==
    ASSUME NEW s, NEW n \in 0 .. MaxN, NEW e, NEW t, Appended(s, n, e, t), NEW d \in Nat
    PROVE  StaysNear(s, n, e, t, d)
<1> SUFFICES ASSUME NEW x \in {e} \cup near_end(s, n, d), NEW a \in left_addresses(x)
             PROVE  \E y \in near_end(s, n, d + 1) :
                       index_of(y) = a.i /\ read_entry_with_index_check(t, a) = {y}
  BY DEF StaysNear
<1> USE DEF Appended
<1>1. n \in Nat /\ n + 1 \in 0 .. MaxN /\ (n + 1) - 1 = n /\ 0 \in Nat /\ 0 + 1 \in Nat /\ d + 1 \in Nat /\ 0 + 1 <= d + 1
  BY Revisions
<1>2. CASE x = e
  <2>1. e \in entries_of(t) /\ Tree(t, n + 1)
    OBVIOUS
  <2>2. PICK y \in entries_of(t) : read_entry_with_index_check(t, a) = {y} /\ index_of(y) = a.i
    BY <1>1, <1>2, <2>1, LeftEntry
  <2>3. a.i \in 1 .. n /\ a.j \in Nat /\ is_root(n, a.i, a.j)
    BY <1>1, <1>2, <2>1, LeftEntry
  <2>4. y \in entries_of(s)
    BY <1>1, <2>2, <2>3
  <2>5. PICK l \in entries_of(s) : index_of(l) = n
    BY <1>1, <2>3 DEF Tree, StorageOK, entries_of
  <2>6. EntryOK(s, l) /\ index_of(l) \in Index \ {0}
    BY <2>5, StoredEntry
  <2>7. y \in within_storage(s, l, d + 1)
    <3>1. CASE a.i = n
      <4>1. y = l
        BY <2>2, <2>4, <2>5, <3>1, StoredEntry
      <4>2. QED
        BY <1>1, <4>1, HopsAreStored
    <3>2. CASE a.i # n
      <4>1. a.i < index_of(l) /\ a.i \in Nat /\ is_root(index_of(l), a.i, a.j)
        BY <1>1, <2>3, <2>5, <3>2
      <4>2. PICK b \in left_addresses(l) : b.i = a.i
        BY <2>3, <2>6, <4>1, OlderRoots
      <4>3. PICK z \in entries_of(s) : read_entry_with_index_check(s, b) = {z} /\ index_of(z) = b.i
        BY LeftEntry
      <4>4. z = y
        BY <2>2, <2>4, <4>2, <4>3, StoredEntry
      <4>5. z \in within_storage(s, l, 0 + 1)
        BY <1>1, <4>3, HopsAreStored
      <4>6. QED
        BY <1>1, <4>4, <4>5, HopsGrow
    <3>3. QED
      BY <3>1, <3>2
  <2>8. y \in near_end(s, n, d + 1)
    BY <2>4, <2>5, <2>7 DEF near_end
  <2>9. QED
    BY <2>2, <2>8
<1>3. CASE x \in near_end(s, n, d)
  <2>1. PICK l \in entries_of(s) : index_of(l) = n /\ x \in within_storage(s, l, d)
    BY <1>3 DEF near_end
  <2>2. x \in entries_of(s)
    BY <1>3 DEF near_end
  <2>3. PICK y \in entries_of(s) : read_entry_with_index_check(s, a) = {y} /\ index_of(y) = a.i
    BY <2>2, LeftEntry
  <2>4. read_entry_with_index_check(t, a) = {y}
    BY <2>3, PutKeepsReads DEF Tree
  <2>5. y \in within_storage(s, l, d + 1)
    BY <2>1, <2>3, HopsAreStored
  <2>6. y \in near_end(s, n, d + 1)
    BY <2>1, <2>3, <2>5 DEF near_end
  <2>7. QED
    BY <2>3, <2>4, <2>6
<1>4. QED
  BY <1>2, <1>3

\* What migrate finds within the level in the old cache is what load would read
\* from the storage (cache.rs:116-129).
LEMMA MigratedHops ==
    ASSUME NEW s, NEW n \in 0 .. MaxN, NEW e, NEW t, Appended(s, n, e, t),
           NEW level \in Level, NEW d \in 0 .. level
    PROVE  LET c == load_metadata(s, level)
           IN  /\ within_cache(c, e, d) = within_storage(t, e, d)
               /\ within_storage(t, e, d) \subseteq {e} \cup near_end(s, n, d)
<1> DEFINE c == load_metadata(s, level)
           T == {k \in Nat : k <= level =>
                   /\ within_cache(c, e, k) = within_storage(t, e, k)
                   /\ within_storage(t, e, k) \subseteq {e} \cup near_end(s, n, k)}
<1>1. level \in Nat /\ Tree(s, n)
  BY SlateAssumption DEF Appended
<1>2. 0 \in T
  <2>1. within_cache(c, e, 0) = {e} /\ within_storage(t, e, 0) = {e}
    BY WithinCache, WithinStorage
  <2>2. QED
    BY <2>1
<1>3. ASSUME NEW k \in Nat, k \in T PROVE k + 1 \in T
  <2>1. StaysNear(s, n, e, t, k)
    BY HopStaysNear
  <2> SUFFICES ASSUME k + 1 <= level
               PROVE  /\ within_cache(c, e, k + 1) = within_storage(t, e, k + 1)
                      /\ within_storage(t, e, k + 1) \subseteq {e} \cup near_end(s, n, k + 1)
    OBVIOUS
  <2> DEFINE W == within_storage(t, e, k)
             A == UNION {left_addresses(x) : x \in W}
  <2>2. within_cache(c, e, k) = W /\ W \subseteq {e} \cup near_end(s, n, k)
    BY <1>1, <1>3
  <2>3. /\ within_cache(c, e, k + 1) = cache_hop(c, W)
        /\ within_storage(t, e, k + 1) = storage_hop(t, W)
    BY <2>2, WithinCache, WithinStorage
  <2> HIDE DEF W, c
  <2>4. near_end(s, n, k) \subseteq near_end(s, n, k + 1) /\ near_end(s, n, k + 1) \subseteq near_end(s, n, level)
    <3>1. k + 1 \in Nat /\ k <= k + 1
      OBVIOUS
    <3>2. \A l : /\ within_storage(s, l, k) \subseteq within_storage(s, l, k + 1)
                 /\ within_storage(s, l, k + 1) \subseteq within_storage(s, l, level)
      BY <1>1, <3>1, HopsGrow
    <3>3. QED
      BY <3>2 DEF near_end
  <2>5. ASSUME NEW a \in A
        PROVE  /\ cache_entry(c, a.i) = read_entry_with_index_check(t, a)
               /\ read_entry_with_index_check(t, a) \subseteq near_end(s, n, k + 1)
    <3>1. PICK x \in {e} \cup near_end(s, n, k) : a \in left_addresses(x)
      BY <2>2
    <3>2. PICK y \in near_end(s, n, k + 1) : index_of(y) = a.i /\ read_entry_with_index_check(t, a) = {y}
      BY <2>1, <3>1 DEF StaysNear
    <3>3. cache_entry(c, index_of(y)) = {y}
      BY <1>1, <2>4, <3>2, LoadedEntries DEF c
    <3>4. QED
      BY <3>2, <3>3
  <2>6. cache_hop(c, W) = storage_hop(t, W)
    <3>1. UNION {cache_entry(c, a.i) : a \in A} = UNION {read_entry_with_index_check(t, a) : a \in A}
      BY <2>5
    <3>2. QED
      BY <3>1 DEF cache_hop, storage_hop
  <2>7. storage_hop(t, W) \subseteq {e} \cup near_end(s, n, k + 1)
    <3>1. UNION {read_entry_with_index_check(t, a) : a \in A} \subseteq near_end(s, n, k + 1)
      BY <2>5
    <3>2. QED
      BY <2>2, <2>4, <3>1 DEF storage_hop
  <2>8. QED
    BY <2>3, <2>6, <2>7
<1>4. T = Nat
  <2> T \in SUBSET Nat
    OBVIOUS
  <2> HIDE DEF T
  <2>1. QED
    BY <1>2, <1>3, Induct
<1>5. QED
  BY <1>1, <1>4

\* The roots that migrate takes over: those of the old cache, and the new
\* entry's own highest perfect node (cache.rs:91-115).
LEMMA MigratedRoots ==
    ASSUME NEW s, NEW n \in 0 .. MaxN, NEW e, NEW t, Appended(s, n, e, t),
           NEW c, RootsOK(s, c), c.revision = n
    PROVE  /\ RootsOK(t, migrate(c, e))
           /\ \A r \in ToSet(pbst_roots(n + 1)) :
                 \E m \in migrated_root(c, e, r) : m.address.i = r.i /\ m.address.j = r.j
<1> DEFINE i == n + 1
           metas == UNION {migrated_root(c, e, r) : r \in ToSet(pbst_roots(i))}
           f == migrate(c, e).pbst_roots
<1>1. /\ n \in Nat /\ n \in Index /\ i \in 0 .. MaxN /\ i \in Index /\ i - 1 = n /\ i \in Nat \ {0}
      /\ index_of(e) = i /\ Tree(s, n) /\ Tree(t, i) /\ e \in entries_of(t) /\ entries_of(s) \subseteq entries_of(t)
  BY Revisions DEF Appended
<1>2. /\ f = [k \in {m.address.i : m \in metas} |-> CHOOSE m \in metas : m.address.i = k]
      /\ migrate(c, e).revision = i
  BY <1>1 DEF migrate, CacheOf
<1> HIDE DEF i, f
<1>3. ASSUME NEW r \in ToSet(pbst_roots(i))
      PROVE  \E m : /\ migrated_root(c, e, r) = {m}
                    /\ m.address.i = r.i /\ m.address.j = r.j
                    /\ \E x \in entries_of(t) : index_of(x) = r.i /\ m \in entry_meta(x, r.j)
  <2>1. r.i \in 1 .. i /\ r.j \in Nat /\ r = Addr(r.i, r.j) /\ is_root(i, r.i, r.j)
    BY <1>1, RootsAre
  <2>2. CASE r.i = i
    <3>1. r.i \notin DOMAIN c.pbst_roots
      <4>1. \A q \in ToSet(pbst_roots(n)) : q.i \in 1 .. n
        BY <1>1, RootsAre
      <4>2. QED
        BY <1>1, <2>2, <4>1 DEF RootsOK
    <3>2. migrated_root(c, e, r) = entry_meta(e, r.j)
      BY <1>1, <2>2, <3>1 DEF migrated_root
    <3>3. EntryOK(t, e) /\ i \in Index \ {0}
      BY <1>1, StoredEntry
    <3>4. PICK a \in pbst_root_addresses(e) : a.i = r.i /\ a.j = r.j
      BY <1>1, <3>3, RootAddresses
    <3>5. a \in left_addresses(e) \/ entry_meta(e, a.j) # {}
      BY <1>1, <3>3, RootAddresses
    <3>6. a \notin left_addresses(e)
      <4>1. ASSUME a \in left_addresses(e) PROVE a.i \in 1 .. i - 1
        BY <1>1, <4>1, LeftEntry
      <4>2. QED
        BY <1>1, <2>2, <3>4, <4>1
    <3>7. PICK m \in entry_meta(e, r.j) : TRUE
      BY <3>4, <3>5, <3>6
    <3>8. m.address = Address(i, r.j, position_of(e)) /\ \A o \in entry_meta(e, r.j) : o = m
      BY <1>1, <3>3, EntryMetas
    <3>9. m.address.i = r.i /\ m.address.j = r.j
      BY <2>2, <3>8 DEF Address
    <3>10. migrated_root(c, e, r) = {m}
      BY <3>2, <3>8
    <3>11. QED
      BY <1>1, <2>2, <3>9, <3>10
  <2>3. CASE r.i # i
    <3>1. r.i < i /\ r.i \in Nat
      BY <1>1, <2>1, <2>3
    <3>2. is_root(n, r.i, r.j)
      BY <1>1, <2>1, <3>1, OldRoot
    <3>3. r \in ToSet(pbst_roots(n))
      BY <1>1, <2>1, <3>1, <3>2, RootsAre
    <3>4. r.i \in DOMAIN c.pbst_roots
      BY <1>1, <3>3, RootMeta
    <3>5. PICK x \in entries_of(s) :
             /\ index_of(x) = r.i /\ c.pbst_roots[r.i] \in entry_meta(x, r.j)
             /\ c.pbst_roots[r.i].address = Address(r.i, r.j, position_of(x))
      BY <1>1, <3>3, RootMeta
    <3>6. c.pbst_roots[r.i].address.i = r.i /\ c.pbst_roots[r.i].address.j = r.j
      BY <3>5 DEF Address
    <3>7. migrated_root(c, e, r) = {c.pbst_roots[r.i]}
      BY <3>4 DEF migrated_root
    <3>8. QED
      BY <1>1, <3>5, <3>6, <3>7
  <2>4. QED
    BY <2>2, <2>3
<1>4. ASSUME NEW r \in ToSet(pbst_roots(i))
      PROVE  r.i \in DOMAIN f /\ f[r.i] \in migrated_root(c, e, r)
  <2>1. PICK m : /\ migrated_root(c, e, r) = {m} /\ m.address.i = r.i
    BY <1>3
  <2>2. m \in metas
    BY <2>1
  <2>3. \A o \in metas : o.address.i = r.i => o = m
    <3> SUFFICES ASSUME NEW o \in metas, o.address.i = r.i PROVE o = m
      OBVIOUS
    <3>1. PICK q \in ToSet(pbst_roots(i)) : o \in migrated_root(c, e, q)
      OBVIOUS
    <3>2. q.i = r.i
      BY <1>3, <3>1
    <3>3. q = r
      BY <1>1, <3>2, RootsAre
    <3>4. QED
      BY <2>1, <3>1, <3>3
  <2> HIDE DEF metas
  <2>4. f[r.i] = CHOOSE o \in metas : o.address.i = r.i
    BY <1>2, <2>1, <2>2
  <2>5. f[r.i] = m
    BY <2>1, <2>2, <2>3, <2>4
  <2>6. QED
    BY <1>2, <2>1, <2>2, <2>5
<1>5. \A m \in metas : \E r \in ToSet(pbst_roots(i)) : r.i = m.address.i
  BY <1>3
<1> HIDE DEF metas
<1>6. DOMAIN f = {r.i : r \in ToSet(pbst_roots(i))}
  <2>1. DOMAIN f = {m.address.i : m \in metas}
    BY <1>2
  <2>2. \A k \in DOMAIN f : \E r \in ToSet(pbst_roots(i)) : r.i = k
    BY <1>5, <2>1
  <2>3. \A r \in ToSet(pbst_roots(i)) : r.i \in DOMAIN f
    BY <1>4
  <2>4. QED
    BY <2>2, <2>3
<1>7. \A r \in ToSet(pbst_roots(i)) :
         \E x \in entries_of(t) : index_of(x) = r.i /\ f[r.i] \in entry_meta(x, r.j)
  BY <1>3, <1>4
<1>8. RootsOK(t, migrate(c, e))
  BY <1>2, <1>6, <1>7 DEF RootsOK, f
<1>9. \A r \in ToSet(pbst_roots(i)) :
         \E m \in migrated_root(c, e, r) : m.address.i = r.i /\ m.address.j = r.j
  BY <1>3
<1>10. QED
  BY <1>8, <1>9 DEF i

\* Migrating to the new entry does not panic, and gives the cache that would be
\* read back (cache.rs:88-129).
LEMMA MigrateIsLoad ==
    ASSUME NEW s, NEW n \in 0 .. MaxN, NEW e, NEW t, Appended(s, n, e, t), NEW level \in Level
    PROVE  LET c == load_metadata(s, level)
           IN  /\ migrate_never_panics(c, e)
               /\ migrate(c, e) = load(t, level, e)
<1> DEFINE c == load_metadata(s, level)
           i == n + 1
           W == within_storage(t, e, level)
           kept == kept_entries(c, e)
           X == {x \in entries_of(t) \cup {e} : x \in W}
           M == migrate(c, e)
           L == load(t, level, e)
<1>1. /\ n \in Nat /\ i \in 0 .. MaxN /\ level \in Nat /\ index_of(e) = i
      /\ Tree(s, n) /\ Tree(t, i) /\ e \in entries_of(t)
  BY Revisions, SlateAssumption DEF Appended
<1>2. RootsOK(s, c) /\ c.revision = n /\ c.level = level
  BY <1>1, MetadataRoots
<1>3. /\ \A x \in near_end(s, n, level) :
            index_of(x) \in DOMAIN c.entries /\ cache_entry(c, index_of(x)) = {x}
      /\ \A k \in DOMAIN c.entries :
            c.entries[k] \in near_end(s, n, level) /\ index_of(c.entries[k]) = k
  BY <1>1, LoadedEntries
<1>4. ASSUME NEW d \in 0 .. level
      PROVE  /\ within_cache(c, e, d) = within_storage(t, e, d)
             /\ within_storage(t, e, d) \subseteq {e} \cup near_end(s, n, d)
  BY MigratedHops
<1>5. within_cache(c, e, level) = W /\ W \subseteq {e} \cup near_end(s, n, level)
  BY <1>1, <1>4
<1>6. e \in W /\ W \subseteq entries_of(t)
  BY <1>1, HopsAreStored
<1> HIDE DEF c, W, i
<1>7. migrate_never_panics(c, e)
  <2>1. \A r \in ToSet(pbst_roots(index_of(e))) :
           \E m \in migrated_root(c, e, r) : m.address.i = r.i /\ m.address.j = r.j
    BY <1>1, <1>2, MigratedRoots DEF i
  <2>2. ASSUME c.level > 0, NEW x \in within_cache(c, e, c.level - 1), NEW a \in left_addresses(x)
        PROVE  a.i \in DOMAIN c.entries
    <3> DEFINE d == level - 1
    <3>1. d \in 0 .. level /\ d \in Nat /\ d + 1 = level /\ c.level - 1 = d
      BY <1>1, <1>2, <2>2
    <3> HIDE DEF d
    <3>2. x \in {e} \cup near_end(s, n, d)
      BY <1>4, <2>2, <3>1
    <3>3. StaysNear(s, n, e, t, d)
      BY <3>1, HopStaysNear
    <3>4. PICK y \in near_end(s, n, level) : index_of(y) = a.i
      BY <3>1, <3>2, <3>3 DEF StaysNear
    <3>5. QED
      BY <1>3, <3>4
  <2>3. QED
    BY <2>1, <2>2 DEF migrate_never_panics
<1>8. M.entries = L.entries
  <2>1. M.entries = [k \in kept \cup {i} |-> IF k = i THEN e ELSE c.entries[k]]
    BY <1>1 DEF migrate, CacheOf
  <2>2. L.entries = by_index(X)
    BY DEF load, CacheOf, W
  <2>3. X = W
    BY <1>6
  <2>4. kept = {k \in DOMAIN c.entries : c.entries[k] \in W}
    BY <1>2, <1>5 DEF kept_entries
  <2> HIDE DEF X, kept
  <2>5. \A x, y \in W : index_of(x) = index_of(y) => x = y
    BY <1>1, <1>6, StoredEntry
  <2>6. DOMAIN by_index(W) = {index_of(x) : x \in W} /\ \A x \in W : by_index(W)[index_of(x)] = x
    BY <2>5, ByIndex
  <2>7. ASSUME NEW k \in kept \cup {i}
        PROVE  k \in DOMAIN by_index(W) /\ by_index(W)[k] = IF k = i THEN e ELSE c.entries[k]
    <3>1. CASE k = i
      BY <1>1, <1>6, <2>6, <3>1
    <3>2. CASE k # i
      <4>1. c.entries[k] \in W /\ index_of(c.entries[k]) = k
        BY <1>3, <2>4, <3>2
      <4>2. QED
        BY <2>6, <3>2, <4>1
    <3>3. QED
      BY <3>1, <3>2
  <2>8. ASSUME NEW x \in W PROVE index_of(x) \in kept \cup {i}
    <3>1. CASE x = e
      BY <1>1, <3>1
    <3>2. CASE x # e
      <4>1. index_of(x) \in DOMAIN c.entries /\ cache_entry(c, index_of(x)) = {x}
        BY <1>3, <1>5, <3>2
      <4>2. c.entries[index_of(x)] = x
        BY <4>1 DEF cache_entry
      <4>3. QED
        BY <2>4, <4>1, <4>2
    <3>3. QED
      BY <3>1, <3>2
  <2>9. DOMAIN by_index(W) = kept \cup {i}
    BY <2>6, <2>7, <2>8
  <2>10. by_index(W) = [k \in DOMAIN by_index(W) |-> by_index(W)[k]]
    BY DEF by_index
  <2>11. QED
    BY <2>1, <2>2, <2>3, <2>7, <2>9, <2>10
<1>9. M.pbst_roots = L.pbst_roots
  <2>1. RootsOK(t, M) /\ RootsOK(t, L)
    BY <1>1, <1>2, MigratedRoots, LoadedRoots
  <2>2. M.revision = L.revision
    BY DEF migrate, load, CacheOf
  <2>3. /\ DOMAIN M.pbst_roots = DOMAIN L.pbst_roots
        /\ \A k \in DOMAIN M.pbst_roots : M.pbst_roots[k] = L.pbst_roots[k]
    BY <1>1, <2>1, <2>2, RootsAreOne
  <2>4. M.pbst_roots = [k \in DOMAIN M.pbst_roots |-> M.pbst_roots[k]]
    <3> DEFINE metas == UNION {migrated_root(c, e, r) : r \in ToSet(pbst_roots(index_of(e)))}
    <3>1. M.pbst_roots = [k \in {m.address.i : m \in metas} |-> CHOOSE m \in metas : m.address.i = k]
      BY DEF migrate, CacheOf
    <3> HIDE DEF metas, M
    <3>2. QED
      BY <3>1
  <2>5. L.pbst_roots = [k \in DOMAIN L.pbst_roots |-> L.pbst_roots[k]]
    <3> DEFINE stored == entries_of(t) \cup {e}
               near == {x \in stored : x \in within_storage(t, e, load_distance(level))}
               metas == UNION {UNION {entry_meta(x, a.j) : x \in {y \in near : index_of(y) = a.i}} :
                                  a \in pbst_root_addresses(e)}
    <3>1. L.pbst_roots = [k \in {m.address.i : m \in metas} |-> CHOOSE m \in metas : m.address.i = k]
      BY DEF load, CacheOf
    <3> HIDE DEF metas, L
    <3>2. QED
      BY <3>1
  <2> HIDE DEF M, L
  <2>6. QED
    BY <2>3, <2>4, <2>5
<1>10. M.level = L.level /\ M.revision = L.revision
  BY <1>2 DEF migrate, load, CacheOf
<1>11. /\ M = CacheOf(M.level, M.revision, M.entries, M.pbst_roots)
       /\ L = CacheOf(L.level, L.revision, L.entries, L.pbst_roots)
  BY DEF migrate, load, CacheOf
<1> HIDE DEF M, L
<1>12. M = L
  BY <1>8, <1>9, <1>10, <1>11
<1>13. QED
  BY <1>7, <1>12 DEF M, L, c

-----------------------------------------------------------------------------
(* Truncating.                                                             *)

\* What is left after a truncation is the tree of an earlier revision.
LEMMA TruncateTree ==
    ASSUME NEW s, NEW n \in 0 .. MaxN, Tree(s, n), NEW e \in entries_of(s)
    PROVE  /\ Tree(storage_truncate(s, position_of(e)), index_of(e) - 1)
           /\ index_of(e) - 1 \in 0 .. MaxN
<1> DEFINE i == index_of(e)
           p == position_of(e)
           t == storage_truncate(s, p)
<1>1. /\ p \in DOMAIN s.data /\ s.data[p] = e /\ i \in 1 .. n /\ n \in Nat
      /\ i - 1 \in 0 .. MaxN /\ i \in Nat
  BY StoredEntry, Revisions
<1>2. StorageOK(t, i - 1) /\ entries_of(t) = {x \in entries_of(s) : index_of(x) < i}
  BY <1>1, TruncateKeepsStorageOK DEF Tree
<1>3. p < s.end
  BY <1>1 DEF Tree, StorageOK
<1>4. /\ DOMAIN t.data = {q \in DOMAIN s.data : q < p}
      /\ \A q \in DOMAIN t.data : t.data[q] = s.data[q]
  BY <1>3 DEF storage_truncate
<1> HIDE DEF t, i, p
<1>5. ASSUME NEW x \in entries_of(t) PROVE EntryOK(t, x)
  <2>1. x \in entries_of(s) /\ EntryOK(s, x) /\ index_of(x) < i /\ index_of(x) \in Nat
    BY <1>2, StoredEntry
  <2>2. ASSUME NEW k \in DOMAIN x.inodes, Resolves(s, x.inodes[k]) PROVE Resolves(t, x.inodes[k])
    <3> DEFINE a == x.inodes[k].left
    <3>1. a \in left_addresses(x)
      BY DEF left_addresses, ToSet
    <3>2. PICK y \in entries_of(s) : read_entry_with_index_check(s, a) = {y} /\ index_of(y) = a.i
                                    /\ a.position = position_of(y)
      BY <2>1, <3>1, LeftEntry
    <3>3. a.i \in 1 .. index_of(x) - 1
      BY <2>1, <3>1, LeftEntry
    <3>4. position_of(y) \in DOMAIN s.data /\ s.data[position_of(y)] = y
      BY StoredEntry
    <3>5. index_of(s.data[position_of(y)]) < index_of(s.data[p])
      BY <1>1, <2>1, <3>2, <3>3, <3>4 DEF i
    <3>6. position_of(y) < p
      BY <1>1, <3>4, <3>5, IndicesAreUnique DEF Tree
    <3> HIDE DEF a
    <3>7. read_entry_with_index_check(t, a) = {y}
      BY <1>4, <3>2, <3>4, <3>6 DEF read_entry_with_index_check
    <3>8. QED
      BY <2>2, <3>2, <3>7 DEF Resolves, a
  <2>3. QED
    BY <2>1, <2>2 DEF EntryOK
<1>6. QED
  BY <1>1, <1>2, <1>5 DEF Tree, EntriesOK, t, i, p

-----------------------------------------------------------------------------
(* The writer keeps its tree.                                              *)

\* With the invariants of the writer, its storage is the tree of its revision
\* and its cache has the roots of it.
LEMMA WriterTree ==
    ASSUME WriterInv, TreeInv
    PROVE  /\ cache.revision \in 0 .. MaxN /\ cache.level \in Level
           /\ Tree(storage, cache.revision)
           /\ RootsOK(storage, cache)
           /\ position = storage.end /\ cache = load_metadata(storage, cache.level)
<1>1. /\ cache.revision \in 0 .. MaxN /\ cache.level \in Level
      /\ Tree(storage, cache.revision)
      /\ position = storage.end /\ cache = load_metadata(storage, cache.level)
  BY DEF WriterInv, TreeInv, CacheOK, CacheIsReloaded, Tree, revision
<1>2. RootsOK(storage, load_metadata(storage, cache.level))
  BY <1>1, MetadataRoots
<1>3. QED
  BY <1>1, <1>2

LEMMA TreeInvInit == SlateInit => TreeInv
<1> SUFFICES ASSUME SlateInit PROVE TreeInv
  OBVIOUS
<1>1. PICK level \in Level : cache = empty(level)
  BY DEF SlateInit
<1>2. storage = EmptyStorage /\ position = storage.end
  BY DEF SlateInit
<1>3. entries_of(storage) = {} /\ storage_last(storage) = {}
  BY <1>2 DEF EmptyStorage, entries_of, storage_last
<1>4. cache = load_metadata(storage, cache.level)
  BY <1>1, <1>3 DEF load_metadata, empty, CacheOf
<1>5. QED
  BY <1>2, <1>3, <1>4 DEF TreeInv, EntriesOK, CacheIsReloaded

\* The entry that an append adds stands at the end of the tree.
LEMMA AppendStep ==
    ASSUME WriterInv, TreeInv, cache.revision < MaxN, NEW v \in Value
    PROVE  LET e == new_entry(cache, position, v)
           IN  /\ new_entry_never_panics(cache)
               /\ Appended(storage, cache.revision, e, storage_put(storage, position, e))
<1> DEFINE e == new_entry(cache, storage.end, v)
           t == storage_put(storage, storage.end, e)
<1>1. /\ cache.revision \in 0 .. MaxN /\ Tree(storage, cache.revision)
      /\ RootsOK(storage, cache) /\ position = storage.end
  BY WriterTree
<1>2. /\ new_entry_never_panics(cache)
      /\ Tree(t, cache.revision + 1) /\ entries_of(t) = entries_of(storage) \cup {e}
      /\ index_of(e) = cache.revision + 1
  BY <1>1, AppendTree
<1>3. Appended(storage, cache.revision, e, t)
  BY <1>1, <1>2 DEF Appended
<1>4. QED
  BY <1>1, <1>2, <1>3

\* A storage of a revision above 0 ends with the entry of that revision, and the
\* cache read back from it is loaded from that entry.
LEMMA LastOfTree ==
    ASSUME NEW s, NEW n \in 0 .. MaxN, Tree(s, n), NEW e \in entries_of(s), index_of(e) = n, NEW level
    PROVE  load_metadata(s, level) = load(s, level, e)
<1>1. n # 0
  BY StoredEntry
<1>2. storage_last(s) # {} /\ \A x \in storage_last(s) : x \in entries_of(s) /\ index_of(x) = n
  BY <1>1, LastIsHighest DEF Tree
<1>3. \A x \in storage_last(s) : x = e
  BY <1>2, StoredEntry
<1>4. (CHOOSE x \in storage_last(s) : TRUE) = e
  BY <1>2, <1>3
<1>5. QED
  BY <1>2, <1>4 DEF load_metadata

LEMMA AppendKeepsTree ==
    ASSUME WriterInv, TreeInv, NEW v \in Value, AppendEntry(v)
    PROVE  TreeInv'
<1> DEFINE e == new_entry(cache, position, v)
           n == cache.revision
           t == storage_put(storage, position, e)
<1>1. /\ storage' = t /\ position' = position + entry_size(e) /\ cache' = migrate(cache, e)
      /\ n < MaxN
  BY DEF AppendEntry, revision
<1>2. /\ n \in 0 .. MaxN /\ cache.level \in Level /\ position = storage.end
      /\ cache = load_metadata(storage, cache.level)
  BY WriterTree
<1>3. Appended(storage, n, e, t)
  BY <1>1, AppendStep
<1>4. t.end = position + entry_size(e)
  BY DEF storage_put
<1> HIDE DEF e, t
<1>5. migrate(cache, e) = load(t, cache.level, e)
  BY <1>2, <1>3, MigrateIsLoad
<1>6. /\ Tree(t, n + 1) /\ e \in entries_of(t) /\ index_of(e) = n + 1 /\ n + 1 \in 0 .. MaxN
  BY <1>1, <1>2, <1>3, Revisions DEF Appended
<1>7. load_metadata(t, cache.level) = load(t, cache.level, e)
  BY <1>6, LastOfTree
<1>8. cache'.level = cache.level
  BY <1>1 DEF migrate, CacheOf
<1>9. CacheIsReloaded'
  BY <1>1, <1>4, <1>5, <1>7, <1>8 DEF CacheIsReloaded
<1>10. EntriesOK(storage)'
  BY <1>1, <1>6 DEF Tree
<1>11. QED
  BY <1>9, <1>10 DEF TreeInv

LEMMA TruncateKeepsTree ==
    ASSUME WriterInv, TreeInv, NEW i \in 0 .. MaxN, Truncate(i)
    PROVE  TreeInv'
<1>1. PICK e \in read_entry(storage, cache, i) :
         /\ storage' = storage_truncate(storage, position_of(e))
         /\ position' = storage'.end
         /\ cache' = load_metadata(storage', cache.level)
  BY DEF Truncate
<1>2. e \in entries_of(storage)
  BY <1>1 DEF read_entry, WriterInv, CacheOK
<1>3. cache.revision \in 0 .. MaxN /\ cache.level \in Level /\ Tree(storage, cache.revision)
  BY WriterTree
<1>4. Tree(storage', index_of(e) - 1) /\ index_of(e) - 1 \in 0 .. MaxN
  BY <1>1, <1>2, <1>3, TruncateTree
<1>5. cache'.level = cache.level
  BY <1>1, <1>3, <1>4, MetadataRoots
<1>6. CacheIsReloaded'
  BY <1>1, <1>5 DEF CacheIsReloaded
<1>7. EntriesOK(storage)'
  BY <1>4 DEF Tree
<1>8. QED
  BY <1>6, <1>7 DEF TreeInv

LEMMA ReopenKeepsTree ==
    ASSUME WriterInv, TreeInv, NEW level \in Level, Reopen(level)
    PROVE  TreeInv'
<1>1. /\ storage' = storage /\ position' = storage.end /\ cache' = load_metadata(storage, level)
  BY DEF Reopen
<1>2. cache.revision \in 0 .. MaxN /\ Tree(storage, cache.revision)
  BY WriterTree
<1>3. cache'.level = level
  BY <1>1, <1>2, MetadataRoots
<1>4. CacheIsReloaded'
  BY <1>1, <1>3 DEF CacheIsReloaded
<1>5. EntriesOK(storage)'
  BY <1>1, <1>2 DEF Tree
<1>6. QED
  BY <1>4, <1>5 DEF TreeInv

LEMMA TreeInvStep == WriterInv /\ TreeInv /\ [SlateNext]_slateVars => TreeInv'
<1> SUFFICES ASSUME WriterInv, TreeInv, [SlateNext]_slateVars PROVE TreeInv'
  OBVIOUS
<1>1. ASSUME NEW v \in Value, AppendEntry(v) PROVE TreeInv'
  BY <1>1, AppendKeepsTree
<1>2. ASSUME NEW i \in 0 .. MaxN, Truncate(i) PROVE TreeInv'
  BY <1>2, TruncateKeepsTree
<1>3. ASSUME NEW level \in Level, Reopen(level) PROVE TreeInv'
  BY <1>3, ReopenKeepsTree
<1>4. CASE UNCHANGED slateVars
  BY <1>4 DEF slateVars, TreeInv, CacheIsReloaded
<1>5. QED
  BY <1>1, <1>2, <1>3, <1>4 DEF SlateNext

\* Every stored entry holds the inodes of its generation with addresses that
\* resolve, and the cache is always the one that would be read back.
THEOREM TreeInvariant == SlateSpec => []TreeInv
<1>1. QED
  BY TreeInvInit, TreeInvStep, WriterInvariant, PTL DEF SlateSpec

\* The cache that an append has carried along is, entry by entry and root by
\* root, the one that a reopening would read from the storage
\* (cache.rs:28-129), whatever appends, truncations and reopenings came before.
THEOREM MigratingIsReloading == SlateSpec => []CacheIsReloaded
<1>1. TreeInv => CacheIsReloaded
  BY DEF TreeInv
<1>2. QED
  BY <1>1, TreeInvariant, PTL

LEMMA TreeResolves == TreeInv => AddressesResolve
<1> SUFFICES ASSUME TreeInv, NEW e \in entries_of(storage), NEW k \in ToSet(e.inodes)
             PROVE  Resolves(storage, k)
  BY DEF AddressesResolve, Resolves
<1>1. EntryOK(storage, e)
  BY DEF TreeInv, EntriesOK
<1>2. PICK l \in DOMAIN e.inodes : k = e.inodes[l]
  BY DEF ToSet
<1>3. QED
  BY <1>1, <1>2 DEF EntryOK

\* No address in a stored entry dangles or leads to another node than the one
\* its hash was computed from (lib.rs:544-552, storage.rs:182-189).
THEOREM AddressesLeadHome == SlateSpec => []AddressesResolve
<1>1. QED
  BY TreeResolves, TreeInvariant, PTL

LEMMA TreeNeverPanics == WriterInv /\ TreeInv => NeverPanics
<1> SUFFICES ASSUME WriterInv, TreeInv PROVE NeverPanics
  OBVIOUS
<1>1. /\ cache.revision \in 0 .. MaxN /\ cache.level \in Level /\ Tree(storage, cache.revision)
      /\ cache = load_metadata(storage, cache.level)
  BY WriterTree
<1>2. ASSUME cache.revision < MaxN, NEW v \in Value PROVE append_never_panics(cache, position, v)
  <2> DEFINE e == new_entry(cache, position, v)
  <2>1. /\ new_entry_never_panics(cache)
        /\ Appended(storage, cache.revision, e, storage_put(storage, position, e))
    BY <1>2, AppendStep
  <2> HIDE DEF e
  <2>2. migrate_never_panics(cache, e)
    BY <1>1, <2>1, MigrateIsLoad
  <2>3. QED
    BY <2>1, <2>2 DEF append_never_panics, e
<1>3. ASSUME NEW e \in entries_of(storage), NEW level \in Level
      PROVE  load_never_panics(storage, level, e)
  <2>1. level \in Nat
    BY SlateAssumption
  <2>2. QED
    BY <1>1, <2>1, LoadedRoots
<1>4. QED
  BY <1>2, <1>3 DEF NeverPanics, revision

\* No append panics on what the cache holds and no load on what the storage
\* holds: the unwraps, panics and assertions of cache.rs:75-79, 99-114, 187-206
\* are out of reach.
THEOREM WriterNeverPanics == SlateSpec => []NeverPanics
<1>1. QED
  BY TreeNeverPanics, TreeInvariant, WriterInvariant, PTL

-----------------------------------------------------------------------------
(* The hash of a tree by its definition.                                   *)

LEMMA TreeHeight ==
    ASSUME NEW size \in Nat, NEW h \in Nat, 2^h < size, size <= 2 * 2^h
    PROVE  tree_height(size) = h + 1 /\ h + 1 \in 1 .. size
<1> DEFINE Fits(g) == 2^(g - 1) < size /\ size <= 2^g
           o == h + 1
<1>1. 2^o = 2 * 2^h /\ 2^h \in Nat /\ h < 2^h
  BY PowerDoubles, PowerCounts, PowerAbove
<1>2. o \in 1 .. size /\ o \in Nat /\ o - 1 = h
  BY <1>1
<1> HIDE DEF o
<1>3. Fits(o)
  BY <1>1, <1>2
<1>4. ASSUME NEW g \in 1 .. size, Fits(g) PROVE g = o
  <2> DEFINE p == g - 1
  <2>1. p \in Nat /\ g \in Nat
    OBVIOUS
  <2>2. 2^p < size /\ size <= 2^g
    BY <1>4
  <2> HIDE DEF p
  <2>3. 2^p \in Nat /\ 2^g \in Nat /\ 2^h \in Nat /\ 2^o \in Nat
    BY <1>2, <2>1, PowerCounts
  <2>4. ~(o <= p) /\ ~(g <= h)
    BY <1>1, <1>2, <2>1, <2>2, <2>3, PowerOrder
  <2>5. QED
    BY <1>2, <2>1, <2>4 DEF p
<1> HIDE DEF Fits
<1>5. (CHOOSE g \in 1 .. size : Fits(g)) = o
  BY <1>2, <1>3, <1>4
<1>6. QED
  BY <1>2, <1>5 DEF tree_height, Fits, o

\* Every size above 1 lies between two powers of two.
LEMMA HalfOfSize ==
    ASSUME NEW size \in Nat, size > 1
    PROVE  \E h \in Nat : 2^h < size /\ size <= 2 * 2^h
<1> DEFINE T == {g \in Nat : size <= 2^g}
<1>1. T \in SUBSET Nat /\ T # {}
  <2>1. size < 2^size /\ 2^size \in Nat
    BY PowerAbove, PowerCounts
  <2>2. size \in T
    BY <2>1
  <2>3. QED
    BY <2>2
<1>2. PICK g \in T : \A y \in T : g <= y
  BY <1>1, LeastElement
<1> DEFINE h == g - 1
<1>3. g # 0 /\ size <= 2^g
  <2>1. size <= 2^g
    BY <1>2
  <2>2. ~(size <= 2^0)
    BY PowerZero
  <2>3. QED
    BY <2>1, <2>2
<1>4. h \in Nat /\ g = h + 1 /\ h \notin T
  BY <1>2, <1>3
<1> HIDE DEF h
<1>5. 2^(h + 1) = 2 * 2^h /\ 2^h \in Nat
  BY <1>4, PowerDoubles, PowerCounts
<1>6. QED
  BY <1>3, <1>4, <1>5

\* The recursion of tree_hashes, from the hashes of fewer leaves.
tree_half(size) == 2^(tree_height(size) - 1)
hash_step(log, f, size) ==
    [a \in 1 .. Len(log) - size + 1 |->
        IF size = 1 THEN from_bytes(0, log[a])
        ELSE combine(f[tree_half(size)][a], tree_height(size),
                     f[size - tree_half(size)][a + tree_half(size)])]
Hashes(log, f, m) == f = [size \in 1 .. m |-> hash_step(log, f, size)]

LEMMA HalvesAreSmaller ==
    ASSUME NEW size \in Nat, size > 1
    PROVE  tree_half(size) \in 1 .. size - 1 /\ size - tree_half(size) \in 1 .. size - 1
<1>1. PICK h \in Nat : 2^h < size /\ size <= 2 * 2^h
  BY HalfOfSize
<1>2. tree_height(size) = h + 1 /\ (h + 1) - 1 = h
  BY <1>1, TreeHeight
<1>3. tree_half(size) = 2^h /\ 2^h \in Nat \ {0}
  BY <1>2, PowerCounts DEF tree_half
<1>4. QED
  BY <1>1, <1>3

LEMMA HashesExist ==
    ASSUME NEW log, NEW m \in Nat
    PROVE  \E f : Hashes(log, f, m)
<1> DEFINE T == {k \in Nat : \E f : Hashes(log, f, k)}
<1>1. \E f : Hashes(log, f, 0)
  <2> DEFINE f == [size \in 1 .. 0 |-> size]
  <2>1. Hashes(log, f, 0)
    BY DEF Hashes
  <2>2. QED
    BY <2>1
<1>2. ASSUME NEW l \in Nat, NEW f, Hashes(log, f, l)
      PROVE  \E g : Hashes(log, g, l + 1)
  <2> DEFINE g == [size \in 1 .. l + 1 |-> IF size = l + 1 THEN hash_step(log, f, l + 1) ELSE f[size]]
  <2>1. \A size \in 1 .. l : f[size] = hash_step(log, f, size)
    BY <1>2 DEF Hashes
  <2>2. ASSUME NEW size \in 1 .. l + 1
        PROVE  hash_step(log, g, size) = hash_step(log, f, size)
    <3>1. CASE size = 1
      BY <3>1 DEF hash_step
    <3>2. CASE size # 1
      <4> DEFINE p == tree_half(size)
                 q == size - p
      <4>1. p \in 1 .. size - 1 /\ q \in 1 .. size - 1
        BY <3>2, HalvesAreSmaller
      <4> HIDE DEF p, q
      <4>2. g[p] = f[p] /\ g[q] = f[q]
        BY <4>1
      <4> HIDE DEF g
      <4>3. g[tree_half(size)] = f[tree_half(size)]
            /\ g[size - tree_half(size)] = f[size - tree_half(size)]
        BY <4>2 DEF p, q
      <4>4. QED
        BY <4>3 DEF hash_step
    <3>3. QED
      BY <3>1, <3>2
  <2>3. \A size \in 1 .. l + 1 : g[size] = hash_step(log, g, size)
    <3>1. ASSUME NEW size \in 1 .. l + 1 PROVE g[size] = hash_step(log, f, size)
      <4>1. size # l + 1 => size \in 1 .. l
        OBVIOUS
      <4>2. QED
        BY <2>1, <4>1
    <3>2. QED
      BY <2>2, <3>1
  <2>4. g = [size \in 1 .. l + 1 |-> g[size]]
    OBVIOUS
  <2> HIDE DEF g
  <2>5. Hashes(log, g, l + 1)
    BY <2>3, <2>4 DEF Hashes
  <2>6. QED
    BY <2>5
<1>3. T = Nat
  <2>1. T \in SUBSET Nat /\ 0 \in T
    BY <1>1
  <2>2. \A k \in Nat : k \in T => k + 1 \in T
    BY <1>2
  <2> HIDE DEF T
  <2>3. QED
    BY <2>1, <2>2, Induct
<1>4. QED
  BY <1>3

\* What tree_hashes is: the hashes of the leaves, and those of two smaller trees
\* combined.
LEMMA TreeHashesStep ==
    ASSUME NEW log, Len(log) \in Nat, NEW size \in 1 .. Len(log), NEW a \in 1 .. Len(log) - size + 1
    PROVE  /\ size = 1 => tree_hashes(log)[size][a] = from_bytes(0, log[a])
           /\ size # 1 => tree_hashes(log)[size][a] =
                            combine(tree_hashes(log)[tree_half(size)][a], tree_height(size),
                                    tree_hashes(log)[size - tree_half(size)][a + tree_half(size)])
<1> DEFINE f == CHOOSE h : Hashes(log, h, Len(log))
<1>1. tree_hashes(log) = f
  BY DEF tree_hashes, Hashes, hash_step, tree_half
<1>2. Hashes(log, f, Len(log))
  BY HashesExist
<1> HIDE DEF f
<1>3. f[size] = hash_step(log, f, size)
  BY <1>2 DEF Hashes
<1>4. QED
  BY <1>1, <1>3 DEF hash_step

\* The trees over a prefix are those over the whole that end in it.
LEMMA PrefixHashes ==
    ASSUME NEW log \in Seq(Value), NEW i \in 1 .. Len(log)
    PROVE  \A size \in 1 .. i : \A a \in 1 .. i - size + 1 :
              tree_hashes(SubSeq(log, 1, i))[size][a] = tree_hashes(log)[size][a]
<1> DEFINE pre == SubSeq(log, 1, i)
           Same(size) == \A a \in 1 .. i - size + 1 :
                            tree_hashes(pre)[size][a] = tree_hashes(log)[size][a]
           T == {m \in Nat : \A size \in 1 .. m : size <= i => Same(size)}
<1>1. Len(log) \in Nat /\ Len(pre) = i /\ \A a \in 1 .. i : pre[a] = log[a]
  OBVIOUS
<1> HIDE DEF pre
<1>2. ASSUME NEW size \in 1 .. i, \A less \in 1 .. size - 1 : Same(less)
      PROVE  Same(size)
  <2> SUFFICES ASSUME NEW a \in 1 .. i - size + 1
               PROVE  tree_hashes(pre)[size][a] = tree_hashes(log)[size][a]
    OBVIOUS
  <2>1. /\ size \in 1 .. Len(pre) /\ a \in 1 .. Len(pre) - size + 1 /\ Len(pre) \in Nat
        /\ size \in 1 .. Len(log) /\ a \in 1 .. Len(log) - size + 1
    BY <1>1
  <2>2. CASE size = 1
    <3>1. a \in 1 .. i
      BY <2>2
    <3>2. tree_hashes(pre)[size][a] = from_bytes(0, pre[a])
      BY <2>1, <2>2, TreeHashesStep
    <3>3. tree_hashes(log)[size][a] = from_bytes(0, log[a])
      BY <1>1, <2>1, <2>2, TreeHashesStep
    <3>4. QED
      BY <1>1, <3>1, <3>2, <3>3
  <2>3. CASE size # 1
    <3> DEFINE p == tree_half(size)
               q == size - p
               b == a + p
    <3>1. p \in 1 .. size - 1 /\ q \in 1 .. size - 1
      BY <2>3, HalvesAreSmaller
    <3>2. tree_hashes(pre)[size][a] =
            combine(tree_hashes(pre)[p][a], tree_height(size), tree_hashes(pre)[q][b])
      BY <2>1, <2>3, TreeHashesStep
    <3>3. tree_hashes(log)[size][a] =
            combine(tree_hashes(log)[p][a], tree_height(size), tree_hashes(log)[q][b])
      BY <1>1, <2>1, <2>3, TreeHashesStep
    <3> HIDE DEF p
    <3>4. a \in 1 .. i - p + 1 /\ b \in 1 .. i - q + 1
      BY <3>1
    <3> HIDE DEF q, b
    <3>5. Same(p) /\ Same(q)
      BY <1>2, <3>1
    <3>6. QED
      BY <3>2, <3>3, <3>4, <3>5
  <2>4. QED
    BY <2>2, <2>3
<1> HIDE DEF Same
<1>3. T = Nat
  <2>1. T \in SUBSET Nat /\ 0 \in T
    OBVIOUS
  <2>2. ASSUME NEW m \in Nat, m \in T PROVE m + 1 \in T
    <3>1. ASSUME NEW size \in 1 .. m + 1, size <= i PROVE Same(size)
      <4>1. size \in 1 .. i /\ \A less \in 1 .. size - 1 : less \in 1 .. m /\ less <= i
        BY <3>1
      <4>2. QED
        BY <1>2, <2>2, <4>1
    <3>2. QED
      BY <3>1
  <2> HIDE DEF T
  <2>3. QED
    BY <2>1, <2>2, Induct
<1>4. \A size \in 1 .. i : Same(size)
  <2>1. i \in T
    BY <1>1, <1>3
  <2>2. QED
    BY <2>1
<1>5. QED
  BY <1>4 DEF Same, pre

-----------------------------------------------------------------------------
(* Stored hashes are those of the tree.                                    *)

\* The hash of each node of an entry is that of the tree over its leaves.
HashOK(L, e) ==
    LET i     == index_of(e)
        nodes == inodes(i)
    IN  /\ e.enode.meta.hash = tree_hashes(L)[1][i]
        /\ \A k \in 1 .. Len(nodes) :
              e.inodes[k].meta.hash =
                tree_hashes(L)[(i - first_leaf(nodes, k)) + 1][first_leaf(nodes, k)]

\* The node that a stored address names, when the entry that has it is right.
LEMMA LeftHash ==
    ASSUME NEW L, NEW s, NEW x, EntryOK(s, x), HashOK(L, x), index_of(x) \in Index \ {0},
           NEW j \in Nat, is_pbst(index_of(x), j), NEW m \in entry_meta(x, j)
    PROVE  m.hash = tree_hashes(L)[2^j][(index_of(x) - 2^j) + 1]
<1> DEFINE i == index_of(x)
           nodes == inodes(i)
           d == 2^j
<1>1. i \in Nat /\ d \in Nat
  BY IndexIsNat, PowerCounts
<1>2. \A k \in 1 .. Len(nodes) :
         is_pbst(i, nodes[k].node.j) => first_leaf(nodes, k) = (i - 2^nodes[k].node.j) + 1
  BY InodesTile
<1>3. /\ DOMAIN x.inodes = 1 .. Len(nodes)
      /\ \A k \in 1 .. Len(nodes) : x.inodes[k].meta.address = Address(i, nodes[k].node.j, position_of(x))
  BY DEF EntryOK
<1>4. /\ x.enode.meta.hash = tree_hashes(L)[1][i]
      /\ \A k \in 1 .. Len(nodes) :
            x.inodes[k].meta.hash = tree_hashes(L)[(i - first_leaf(nodes, k)) + 1][first_leaf(nodes, k)]
  BY DEF HashOK
<1>5. CASE j = 0
  <2>1. m = x.enode.meta
    BY <1>5 DEF entry_meta
  <2>2. d = 1
    BY <1>5, PowerZero
  <2> HIDE DEF d, i
  <2>3. (i - d) + 1 = i
    BY <1>1, <2>2
  <2>4. m.hash = tree_hashes(L)[d][(i - d) + 1]
    BY <1>4, <2>1, <2>2, <2>3
  <2>5. QED
    BY <2>4 DEF d, i
<1>6. CASE j # 0
  <2>1. PICK k \in DOMAIN x.inodes : m = x.inodes[k].meta /\ x.inodes[k].meta.address.j = j
    BY <1>6 DEF entry_meta, entry_inode, ToSet
  <2>2. k \in 1 .. Len(nodes) /\ nodes[k].node.j = j
    <3> HIDE DEF nodes, i
    <3>1. k \in 1 .. Len(nodes) /\ x.inodes[k].meta.address = Address(i, nodes[k].node.j, position_of(x))
      BY <1>3
    <3>2. QED
      BY <2>1, <3>1 DEF Address
  <2> DEFINE f == first_leaf(nodes, k)
  <2>3. f = (i - d) + 1
    BY <1>2, <2>2
  <2>4. m.hash = tree_hashes(L)[(i - f) + 1][f]
    BY <1>4, <2>1, <2>2
  <2> HIDE DEF f, d, i
  <2>5. (i - f) + 1 = d
    BY <1>1, <2>3
  <2>6. m.hash = tree_hashes(L)[d][(i - d) + 1]
    BY <2>3, <2>4, <2>5
  <2>7. QED
    BY <2>6 DEF d, i
<1>7. QED
  BY <1>5, <1>6

\* The hashes of an entry are those of the tree when those of the entries before
\* it are.
LEMMA NextHash ==
    ASSUME NEW s, NEW n \in 0 .. MaxN, Tree(s, n), NEW L \in Seq(Value), Len(L) = n,
           \A x \in entries_of(s) : L[index_of(x)] = x.enode.payload,
           NEW e \in entries_of(s),
           \A x \in entries_of(s) : index_of(x) < index_of(e) => HashOK(L, x)
    PROVE  HashOK(L, e)
<1> DEFINE i == index_of(e)
           nodes == inodes(i)
           f(k) == first_leaf(nodes, k)
           Right(k) == e.inodes[k].meta.hash = tree_hashes(L)[(i - f(k)) + 1][f(k)]
<1>1. /\ i \in 1 .. n /\ i \in Index \ {0} /\ n \in Nat /\ i \in Nat
      /\ EntryOK(s, e) /\ HashesFollow(e)
  BY StoredEntry, Revisions DEF EntryOK
<1>2. /\ nodes \in Seq(INodes) /\ Len(nodes) \in Nat
      /\ \A k \in 1 .. Len(nodes) :
            LET half == 2^nodes[k].left.j
            IN  /\ nodes[k].left.j \in Nat /\ nodes[k].left.i \in 1 .. i - 1
                /\ nodes[k].node.j = nodes[k].left.j + 1
                /\ half \in Nat /\ f(k) \in 1 .. i - 1 /\ nodes[k].left.i = (f(k) + half) - 1
                /\ half < (i - f(k)) + 1 /\ (i - f(k)) + 1 <= 2 * half
                /\ is_pbst(nodes[k].left.i, nodes[k].left.j)
  BY <1>1, InodeHeights, InodeSizes
<1>3. \A k \in 1 .. Len(nodes) : nodes[k].left.i + 1 = IF k = 1 THEN i ELSE f(k - 1)
  BY <1>1, InodesTile
<1>4. /\ DOMAIN e.inodes = 1 .. Len(nodes)
      /\ \A k \in 1 .. Len(nodes) :
            /\ e.inodes[k].left.i = nodes[k].left.i /\ e.inodes[k].left.j = nodes[k].left.j
            /\ Resolves(s, e.inodes[k])
  BY <1>1 DEF EntryOK
<1>5. /\ e.enode.meta.hash = from_bytes(0, e.enode.payload)
      /\ \A k \in 1 .. Len(nodes) :
            e.inodes[k].meta.hash =
              combine(e.inodes[k].meta.hash[2], nodes[k].node.j,
                      IF k = 1 THEN e.enode.meta.hash ELSE e.inodes[k - 1].meta.hash)
  BY <1>1 DEF HashesFollow
<1>6. L[i] = e.enode.payload
  OBVIOUS
<1> HIDE DEF nodes, i
<1>7. e.enode.meta.hash = tree_hashes(L)[1][i]
  <2> DEFINE o == 1
  <2>1. o \in 1 .. Len(L) /\ i \in 1 .. Len(L) - o + 1 /\ Len(L) \in Nat /\ o = 1
    BY <1>1
  <2> HIDE DEF o
  <2>2. tree_hashes(L)[o][i] = from_bytes(0, L[i])
    BY <2>1, TreeHashesStep
  <2>3. QED
    BY <1>5, <1>6, <2>1, <2>2
<1>8. ASSUME NEW k \in 1 .. Len(nodes)
      PROVE  LET half == 2^nodes[k].left.j
             IN  e.inodes[k].meta.hash[2] = tree_hashes(L)[half][f(k)]
  <2> DEFINE a == e.inodes[k].left
             half == 2^nodes[k].left.j
  <2>1. PICK x \in read_entry_with_index_check(s, a) :
           \E m \in entry_meta(x, a.j) : m.hash = e.inodes[k].meta.hash[2]
    BY <1>4 DEF Resolves
  <2>2. PICK m \in entry_meta(x, a.j) : m.hash = e.inodes[k].meta.hash[2]
    BY <2>1
  <2>3. x \in entries_of(s) /\ index_of(x) = a.i
    BY <2>1 DEF read_entry_with_index_check, entries_of
  <2>4. a.i = nodes[k].left.i /\ a.j = nodes[k].left.j
    BY <1>4
  <2> HIDE DEF a
  <2>5. /\ a.j \in Nat /\ index_of(x) < i /\ is_pbst(index_of(x), a.j)
        /\ half \in Nat /\ index_of(x) = (f(k) + half) - 1 /\ f(k) \in Nat
    <3>1. /\ nodes[k].left.j \in Nat /\ nodes[k].left.i \in 1 .. i - 1
          /\ half \in Nat /\ f(k) \in 1 .. i - 1 /\ nodes[k].left.i = (f(k) + half) - 1
          /\ is_pbst(nodes[k].left.i, nodes[k].left.j)
      BY <1>2
    <3> HIDE DEF f, half
    <3>2. QED
      BY <1>1, <2>3, <2>4, <3>1
  <2>6. EntryOK(s, x) /\ HashOK(L, x) /\ index_of(x) \in Index \ {0}
    BY <1>1, <2>3, <2>5, StoredEntry DEF i
  <2>7. m.hash = tree_hashes(L)[2^a.j][(index_of(x) - 2^a.j) + 1]
    <3> DEFINE j == a.j
    <3>1. m \in entry_meta(x, j) /\ j \in Nat /\ is_pbst(index_of(x), j)
      BY <2>2, <2>5
    <3> HIDE DEF j
    <3>2. m.hash = tree_hashes(L)[2^j][(index_of(x) - 2^j) + 1]
      BY <2>6, <3>1, LeftHash
    <3>3. QED
      BY <3>2 DEF j
  <2>8. m.hash = tree_hashes(L)[half][(index_of(x) - half) + 1]
    BY <2>4, <2>7
  <2> HIDE DEF f, half
  <2>9. (index_of(x) - half) + 1 = f(k)
    BY <2>5
  <2>10. QED
    BY <2>2, <2>8, <2>9 DEF half
<1>9. ASSUME NEW k \in 1 .. Len(nodes), k > 1 => Right(k - 1)
      PROVE  Right(k)
  <2> DEFINE j == nodes[k].left.j
             half == 2^j
             a == f(k)
             size == (i - a) + 1
             q == size - half
             b == a + half
  <2>1. /\ j \in Nat /\ nodes[k].left.i \in Nat /\ half \in Nat /\ a \in 1 .. i - 1
        /\ nodes[k].left.i + 1 = b
        /\ nodes[k].node.j = j + 1 /\ half < size /\ size <= 2 * half
    <3>1. /\ j \in Nat /\ nodes[k].left.i \in 1 .. i - 1
          /\ nodes[k].node.j = j + 1
          /\ half \in Nat /\ a \in 1 .. i - 1 /\ nodes[k].left.i = (a + half) - 1
          /\ half < (i - a) + 1 /\ (i - a) + 1 <= 2 * half
      BY <1>2
    <3> HIDE DEF a, half, j
    <3>2. QED
      BY <1>1, <3>1
  <2>2. e.inodes[k].meta.hash[2] = tree_hashes(L)[half][a]
    BY <1>8
  <2>3. (IF k = 1 THEN e.enode.meta.hash ELSE e.inodes[k - 1].meta.hash) = tree_hashes(L)[(i - b) + 1][b]
    <3>1. CASE k = 1
      <4>1. b = i
        BY <1>3, <2>1, <3>1
      <4> HIDE DEF b
      <4>2. (i - b) + 1 = 1
        BY <1>1, <4>1
      <4>3. QED
        BY <1>7, <3>1, <4>1, <4>2
    <3>2. CASE k # 1
      <4>1. k > 1 /\ b = f(k - 1)
        BY <1>2, <1>3, <2>1, <3>2
      <4> HIDE DEF b
      <4>2. QED
        BY <1>9, <3>2, <4>1
    <3>3. QED
      BY <3>1, <3>2
  <2>4. e.inodes[k].meta.hash = combine(tree_hashes(L)[half][a], j + 1, tree_hashes(L)[(i - b) + 1][b])
    BY <1>5, <2>1, <2>2, <2>3
  <2>5. (i - b) + 1 = q
    <3> HIDE DEF a, half
    <3>1. QED
      BY <1>1, <2>1
  <2>6. size \in Nat /\ size \in 1 .. Len(L) /\ size # 1 /\ a \in 1 .. Len(L) - size + 1 /\ Len(L) \in Nat
    <3> HIDE DEF a, half
    <3>1. QED
      BY <1>1, <2>1
  <2> HIDE DEF size, a, q, b, j
  <2>7. tree_height(size) = j + 1
    BY <2>1, <2>6, TreeHeight
  <2>8. tree_half(size) = half
    BY <2>1, <2>7 DEF tree_half
  <2> HIDE DEF half
  <2>9. tree_hashes(L)[size][a] = combine(tree_hashes(L)[half][a], j + 1, tree_hashes(L)[q][b])
    BY <2>6, <2>7, <2>8, TreeHashesStep DEF q, b
  <2>10. QED
    BY <2>4, <2>5, <2>9 DEF size, a
<1>10. ASSUME NEW k \in 1 .. Len(nodes) PROVE Right(k)
  <2> DEFINE T == {m \in Nat : m + 1 \in 1 .. Len(nodes) => Right(m + 1)}
  <2> HIDE DEF Right
  <2>1. 0 \in T
    <3>1. 1 \in 1 .. Len(nodes) => Right(1)
      BY <1>9
    <3>2. QED
      BY <3>1
  <2>2. ASSUME NEW m \in Nat, m \in T PROVE m + 1 \in T
    <3> DEFINE l == m + 2
    <3>1. l - 1 = m + 1 /\ (l \in 1 .. Len(nodes) => m + 1 \in 1 .. Len(nodes)) /\ l = (m + 1) + 1
      BY <1>2
    <3>2. l \in 1 .. Len(nodes) => Right(l - 1)
      BY <2>2, <3>1
    <3> HIDE DEF l
    <3>3. l \in 1 .. Len(nodes) => Right(l)
      BY <1>9, <3>2
    <3>4. QED
      BY <3>1, <3>3
  <2>3. T = Nat
    <3> T \in SUBSET Nat
      OBVIOUS
    <3> HIDE DEF T
    <3>1. QED
      BY <2>1, <2>2, Induct
  <2> DEFINE o == k - 1
  <2>6. o \in Nat /\ o + 1 = k
    BY <1>2
  <2>4. o \in T /\ o + 1 = k
    <3> HIDE DEF o
    <3> HIDE DEF T
    <3>1. QED
      BY <2>3, <2>6
  <2> HIDE DEF o
  <2>5. QED
    BY <2>4
<1>11. QED
  BY <1>7, <1>10 DEF HashOK, nodes, i

LEMMA AllHashes ==
    ASSUME NEW s, NEW n \in 0 .. MaxN, Tree(s, n), NEW L \in Seq(Value), Len(L) = n,
           \A x \in entries_of(s) : L[index_of(x)] = x.enode.payload
    PROVE  \A e \in entries_of(s) : HashOK(L, e)
<1> DEFINE T == {m \in Nat : \A e \in entries_of(s) : index_of(e) <= m => HashOK(L, e)}
<1>1. \A e \in entries_of(s) : index_of(e) \in Nat /\ index_of(e) > 0 /\ index_of(e) <= n
  BY StoredEntry, Revisions
<1>2. 0 \in T
  BY <1>1
<1>3. ASSUME NEW m \in Nat, m \in T PROVE m + 1 \in T
  <2>1. ASSUME NEW e \in entries_of(s), index_of(e) <= m + 1 PROVE HashOK(L, e)
    <3>1. ASSUME NEW x \in entries_of(s), index_of(x) < index_of(e) PROVE HashOK(L, x)
      <4>1. index_of(x) <= m
        BY <1>1, <2>1, <3>1
      <4>2. QED
        BY <1>3, <4>1
    <3>2. QED
      BY <3>1, NextHash
  <2>2. QED
    BY <2>1
<1>4. T = Nat
  <2> T \in SUBSET Nat
    OBVIOUS
  <2> HIDE DEF T
  <2>1. QED
    BY <1>2, <1>3, Induct
<1>5. n \in T
  BY <1>4, Revisions
<1>6. QED
  BY <1>1, <1>5

\* The topmost node of an entry stands over all values up to it.
LEMMA RootHash ==
    ASSUME NEW s, NEW n \in 0 .. MaxN, Tree(s, n), NEW L \in Seq(Value), Len(L) = n,
           \A x \in entries_of(s) : L[index_of(x)] = x.enode.payload,
           NEW e \in entries_of(s)
    PROVE  LET i == index_of(e)
           IN  /\ entry_root(e).hash = TreeHash(SubSeq(L, 1, i))
               /\ entry_root(e).address = Address(i, root_of(i).j, position_of(e))
<1> DEFINE i == index_of(e)
           nodes == inodes(i)
           l == Len(nodes)
<1>1. i \in 1 .. n /\ i \in Index \ {0} /\ i \in Nat /\ n \in Nat /\ EntryOK(s, e)
  BY StoredEntry, Revisions
<1>2. HashOK(L, e)
  BY AllHashes
<1>3. /\ Len(nodes) \in Nat
      /\ IF Len(nodes) = 0 THEN i = 1 ELSE first_leaf(nodes, l) = 1
  BY <1>1, InodeHeights, InodesTile
<1>4. /\ e.enode.meta.address = Address(i, 0, position_of(e))
      /\ IsList(e.inodes, l) /\ Len(e.inodes) = l
      /\ \A k \in 1 .. l : e.inodes[k].meta.address = Address(i, nodes[k].node.j, position_of(e))
  BY <1>1 DEF EntryOK
<1>5. /\ e.enode.meta.hash = tree_hashes(L)[1][i]
      /\ \A k \in 1 .. l :
            e.inodes[k].meta.hash = tree_hashes(L)[(i - first_leaf(nodes, k)) + 1][first_leaf(nodes, k)]
  BY <1>2 DEF HashOK
<1>6. TreeHash(SubSeq(L, 1, i)) = tree_hashes(L)[i][1]
  <2> DEFINE a == 1
  <2>1. Len(SubSeq(L, 1, i)) = i
    BY <1>1
  <2>2. i \in 1 .. Len(L) /\ i \in 1 .. i /\ a \in 1 .. i - i + 1
    BY <1>1
  <2> HIDE DEF a
  <2>3. tree_hashes(SubSeq(L, 1, i))[i][a] = tree_hashes(L)[i][a]
    BY <2>2, PrefixHashes
  <2>4. QED
    BY <2>1, <2>3 DEF TreeHash, a
<1>7. root_of(i).j = ceil_log2(i)
  BY DEF root_of, Addr
<1>8. CASE l = 0
  <2>1. e.inodes = <<>>
    BY <1>4, <1>8 DEF IsList
  <2>2. entry_root(e) = e.enode.meta /\ i = 1
    BY <1>3, <1>8, <2>1 DEF entry_root
  <2> HIDE DEF i
  <2>3. QED
    BY <1>4, <1>5, <1>6, <1>7, <2>2, CeilLog DEF i
<1>9. CASE l # 0
  <2>1. l \in 1 .. l /\ e.inodes # <<>>
    BY <1>3, <1>4, <1>9
  <2>2. entry_root(e) = e.inodes[l].meta
    BY <1>4, <2>1 DEF entry_root, Last
  <2>3. first_leaf(nodes, l) = 1
    BY <1>3, <1>9
  <2>4. (i - first_leaf(nodes, l)) + 1 = i
    <3> HIDE DEF i, nodes, l
    <3>1. QED
      BY <1>1, <2>3
  <2>5. entry_root(e).hash = tree_hashes(L)[i][1]
    <3>1. e.inodes[l].meta.hash = tree_hashes(L)[(i - first_leaf(nodes, l)) + 1][first_leaf(nodes, l)]
      BY <1>5, <2>1
    <3> HIDE DEF i, nodes, l
    <3>2. QED
      BY <2>2, <2>3, <2>4, <3>1
  <2>6. nodes[l].node.j = ceil_log2(i)
    <3> DEFINE h == nodes[l].left.j
    <3>1. /\ h \in Nat /\ nodes[l].node.j = h + 1
          /\ 2^h < (i - first_leaf(nodes, l)) + 1 /\ (i - first_leaf(nodes, l)) + 1 <= 2 * 2^h
      BY <1>1, <2>1, InodeSizes
    <3> HIDE DEF i, nodes, l, h
    <3>2. 2^h < i /\ i <= 2 * 2^h
      BY <2>4, <3>1
    <3>3. QED
      BY <1>1, <3>1, <3>2, CeilLog
  <2>7. e.inodes[l].meta.address = Address(i, nodes[l].node.j, position_of(e))
    BY <1>4, <2>1
  <2>8. QED
    BY <1>6, <1>7, <2>2, <2>5, <2>6, <2>7
<1>10. QED
  BY <1>8, <1>9

LEMMA TreeAuthenticates == WriterInv /\ TreeInv => RootsAuthenticateLog
<1> SUFFICES ASSUME WriterInv, TreeInv, NEW e \in entries_of(storage)
             PROVE  /\ entry_root(e).hash = TreeHash(SubSeq(Log, 1, index_of(e)))
                    /\ entry_root(e).address =
                         Address(index_of(e), root_of(index_of(e)).j, position_of(e))
  BY DEF RootsAuthenticateLog
<1>1. cache.revision \in 0 .. MaxN /\ Tree(storage, cache.revision)
  BY WriterTree
<1>2. /\ Log \in Seq(Value) /\ Len(Log) = cache.revision
      /\ \A x \in entries_of(storage) : Log[index_of(x)] = x.enode.payload
  BY <1>1, LogType DEF Tree, Log, revision
<1>3. QED
  BY <1>1, <1>2, RootHash

\* The root hash stored with every entry, which append returns, is the hash of
\* the tree over all values up to it, and its address is that of the root of its
\* generation (lib.rs:533-568): migrating, loading and truncating the roots never
\* put an old or a foreign hash into a new one.
THEOREM RootsAuthenticate == SlateSpec => []RootsAuthenticateLog
<1>1. QED
  BY TreeAuthenticates, TreeInvariant, WriterInvariant, PTL

-----------------------------------------------------------------------------
(* Sequences of fields.                                                    *)

\* Blocks of five fields, one behind the other.
LEMMA FlattenedBlocks ==
    ASSUME NEW T, NEW S \in Seq(Seq(T)), \A k \in 1 .. Len(S) : Len(S[k]) = 5
    PROVE  LET flat == FlattenSeq(S)
           IN  /\ flat \in Seq(T) /\ Len(flat) = 5 * Len(S)
               /\ \A k \in 1 .. Len(S) : \A f \in 1 .. 5 : flat[5 * (k - 1) + f] = S[k][f]
<1> DEFINE n == Len(S)
           Step(h, i) == IF i = 1 THEN S[i] ELSE h[i - 1] \o S[i]
           Solves(h, m) == h = [i \in 1 .. m |-> Step(h, i)]
           E == {m \in Nat : \E h : Solves(h, m)}
           Flat(s, m) == /\ s \in Seq(T) /\ Len(s) = 5 * m
                         /\ \A k \in 1 .. m : \A f \in 1 .. 5 : s[5 * (k - 1) + f] = S[k][f]
<1>1. n \in Nat /\ \A k \in 1 .. n : S[k] \in Seq(T) /\ Len(S[k]) = 5
  BY LenProperties, ElementOfSeq
<1>2. 0 \in E
  <2> DEFINE h0 == [i \in 1 .. 0 |-> <<>>]
  <2>1. Solves(h0, 0)
    OBVIOUS
  <2> HIDE DEF h0, Solves
  <2>2. QED
    BY <2>1
<1>3. ASSUME NEW m \in Nat, m \in E PROVE m + 1 \in E
  <2>1. PICK h : Solves(h, m)
    BY <1>3
  <2> DEFINE h2 == [i \in 1 .. m + 1 |-> IF i <= m THEN h[i] ELSE Step(h, i)]
  <2>2. ASSUME NEW i \in 1 .. m + 1 PROVE h2[i] = Step(h2, i)
    <3>1. Step(h2, i) = Step(h, i)
      <4>1. CASE i = 1
        BY <4>1
      <4>2. CASE i # 1
        <5>1. i - 1 \in 1 .. m + 1 /\ i - 1 <= m
          BY <4>2
        <5>2. h2[i - 1] = h[i - 1]
          BY <5>1
        <5> HIDE DEF h2
        <5>3. QED
          BY <4>2, <5>2
      <4>3. QED
        BY <4>1, <4>2
    <3>2. ASSUME i <= m PROVE h[i] = Step(h, i)
      <4>1. i \in 1 .. m
        BY <3>2
      <4>2. QED
        BY <2>1, <4>1
    <3>3. QED
      BY <3>1, <3>2
  <2>3. h2 = [i \in 1 .. m + 1 |-> h2[i]]
    OBVIOUS
  <2> HIDE DEF h2, Step
  <2>4. Solves(h2, m + 1)
    BY <2>2, <2>3
  <2> HIDE DEF Solves
  <2>5. QED
    BY <2>4
<1> HIDE DEF E
<1>4. n \in E
  <2>1. E \in SUBSET Nat
    BY DEF E
  <2>2. E = Nat
    BY <1>2, <1>3, <2>1, Induct
  <2>3. QED
    BY <1>1, <2>2
<1>5. CASE n = 0
  <2>1. FlattenSeq(S) = S /\ S = <<>>
    BY <1>5, EmptySeq DEF FlattenSeq
  <2>2. <<>> \in Seq(T) /\ Len(<<>>) = 0
    BY EmptySeq
  <2>3. QED
    BY <1>5, <2>1, <2>2
<1>6. CASE n # 0
  <2> DEFINE F == CHOOSE h : Solves(h, n)
  <2>1. Solves(F, n)
    BY <1>4 DEF E
  <2>2. FlattenSeq(S) = F[n]
    BY <1>6 DEF FlattenSeq
  <2>3. \A i \in 1 .. n : F[i] = Step(F, i)
    BY <2>1
  <2> HIDE DEF F
  <2> DEFINE P == {m \in Nat : m + 1 <= n => Flat(F[m + 1], m + 1)}
  <2>4. 0 \in P
    <3>1. 1 \in 1 .. n /\ F[1] = S[1]
      BY <1>1, <1>6, <2>3
    <3>2. QED
      BY <1>1, <3>1
  <2>5. ASSUME NEW m \in Nat, m \in P PROVE m + 1 \in P
    <3> SUFFICES ASSUME m + 2 <= n PROVE Flat(F[m + 2], m + 2)
      OBVIOUS
    <3>1. Flat(F[m + 1], m + 1)
      BY <2>5, <1>1
    <3>2. m + 2 \in 1 .. n /\ m + 2 # 1 /\ (m + 2) - 1 = m + 1
      BY <1>1
    <3>3. F[m + 2] = F[m + 1] \o S[m + 2]
      BY <2>3, <3>2
    <3>4. S[m + 2] \in Seq(T) /\ Len(S[m + 2]) = 5
      BY <1>1, <3>2
    <3> DEFINE a == F[m + 1]
               b == S[m + 2]
    <3>5. /\ a \o b \in Seq(T) /\ Len(a \o b) = Len(a) + Len(b)
          /\ \A i \in 1 .. Len(a) + Len(b) : (a \o b)[i] = IF i <= Len(a) THEN a[i] ELSE b[i - Len(a)]
      <4>1. a \in Seq(T) /\ b \in Seq(T)
        BY <3>1, <3>4
      <4> HIDE DEF a, b
      <4>2. QED
        BY <4>1, ConcatProperties
    <3>6. Len(a) = 5 * (m + 1) /\ Len(b) = 5
      BY <3>1, <3>4
    <3>7. ASSUME NEW k \in 1 .. m + 2, NEW f \in 1 .. 5
          PROVE  (a \o b)[5 * (k - 1) + f] = S[k][f]
      <4> DEFINE q == 5 * (k - 1) + f
      <4>1. q \in 1 .. Len(a) + Len(b)
        BY <3>6
      <4>2. CASE k <= m + 1
        <5>1. k \in 1 .. m + 1 /\ q <= Len(a)
          BY <3>6, <4>2
        <5>2. a[q] = S[k][f]
          BY <3>1, <5>1
        <5> HIDE DEF a, b
        <5>3. QED
          BY <3>5, <4>1, <5>1, <5>2
      <4>3. CASE k = m + 2
        <5>1. ~(q <= Len(a)) /\ q - Len(a) = f
          BY <3>6, <4>3
        <5> HIDE DEF a, q
        <5>2. (a \o b)[q] = b[f]
          BY <3>5, <4>1, <5>1
        <5>3. QED
          BY <4>3, <5>2 DEF q
      <4>4. k <= m + 1 \/ k = m + 2
        OBVIOUS
      <4> HIDE DEF a, b, q
      <4>5. QED
        BY <4>2, <4>3, <4>4 DEF q
    <3>8. Len(a \o b) = 5 * (m + 2)
      <4> HIDE DEF a, b
      <4>1. QED
        BY <3>5, <3>6
    <3>9. a \o b \in Seq(T)
      BY <3>5
    <3>10. F[m + 2] = a \o b
      BY <3>3
    <3> HIDE DEF a, b
    <3>11. QED
      BY <3>7, <3>8, <3>9, <3>10
  <2>6. P \in SUBSET Nat
    OBVIOUS
  <2> HIDE DEF P
  <2>7. P = Nat
    BY <2>4, <2>5, <2>6, Induct
  <2>8. n - 1 \in P /\ (n - 1) + 1 = n
    BY <1>1, <1>6, <2>7
  <2>9. Flat(F[n], n)
    BY <1>1, <2>8 DEF P
  <2>10. QED
    BY <2>2, <2>9
<1>7. QED
  BY <1>5, <1>6

\* The bytes of fields are the last of their partial sums.
LEMMA BytesOf ==
    ASSUME NEW T, \A x \in T : x.size \in Nat, NEW fields \in Seq(T), NEW P,
           P[0] = 0, \A k \in 1 .. Len(fields) : P[k] = P[k - 1] + fields[k].size
    PROVE  bytes_of(fields) = P[Len(fields)]
<1> DEFINE n == Len(fields)
           D == DOMAIN fields
           Top(s) == CHOOSE x \in s : \A y \in s : x >= y
           Step(h, s) == IF s = {} THEN 0 ELSE h[s \ {Top(s)}] + fields[Top(s)].size
           Solves(h, m) == h = [s \in SUBSET (1 .. m) |-> Step(h, s)]
           E == {m \in Nat : \E h : Solves(h, m)}
           F == CHOOSE h : h = [s \in SUBSET D |-> Step(h, s)]
<1>1. bytes_of(fields) = F[D]
  BY DEF bytes_of, FoldLeft, MapThenFoldSet, Max
<1>2. n \in Nat /\ D = 1 .. n
  BY LenProperties
<1>3. ASSUME NEW m \in Nat, NEW s \in SUBSET (1 .. m + 1), m + 1 \in s PROVE Top(s) = m + 1
  <2>1. \A y \in s : m + 1 >= y /\ y \in Nat
    OBVIOUS
  <2>2. \A x \in s : (\A y \in s : x >= y) => x = m + 1
    BY <1>3, <2>1
  <2>3. QED
    BY <1>3, <2>1, <2>2

<1>4. 0 \in E
  <2> DEFINE h0 == [s \in SUBSET (1 .. 0) |-> 0]
  <2>1. \A s \in SUBSET (1 .. 0) : s = {}
    <3>1. 1 .. 0 = {}
      OBVIOUS
    <3>2. QED
      BY <3>1
  <2>2. Solves(h0, 0)
    BY <2>1
  <2> HIDE DEF h0, Solves
  <2>3. QED
    BY <2>2
<1>5. ASSUME NEW m \in Nat, m \in E PROVE m + 1 \in E
  <2>1. PICK h : Solves(h, m)
    BY <1>5
  <2>2. \A s \in SUBSET (1 .. m) : h[s] = Step(h, s)
    BY <2>1
  <2> DEFINE g == [s \in SUBSET (1 .. m + 1) |->
                     IF m + 1 \in s THEN h[s \ {m + 1}] + fields[m + 1].size ELSE h[s]]
  <2>3. \A s \in SUBSET (1 .. m) : s \in SUBSET (1 .. m + 1) /\ m + 1 \notin s
    <3>1. 1 .. m \subseteq 1 .. m + 1 /\ m + 1 \notin 1 .. m
      OBVIOUS
    <3>2. QED
      BY <3>1
  <2>4. \A s \in SUBSET (1 .. m) : g[s] = h[s]
    BY <2>3
  <2>5. g = [s \in SUBSET (1 .. m + 1) |-> g[s]]
    OBVIOUS
  <2>6. \A s \in SUBSET (1 .. m + 1) :
            g[s] = IF m + 1 \in s THEN h[s \ {m + 1}] + fields[m + 1].size ELSE h[s]
    OBVIOUS
  <2> HIDE DEF g
  <2>7. ASSUME NEW s \in SUBSET (1 .. m + 1) PROVE g[s] = Step(g, s)
    <3>1. 1 .. m + 1 = (1 .. m) \cup {m + 1}
      OBVIOUS
    <3>2. CASE m + 1 \in s
      <4>1. Top(s) = m + 1
        BY <1>3, <3>2
      <4> HIDE DEF Top
      <4>2. s \ {m + 1} \in SUBSET (1 .. m) /\ s # {}
        BY <3>1, <3>2
      <4>3. QED
        BY <2>4, <2>6, <3>2, <4>1, <4>2
    <3>3. CASE m + 1 \notin s
      <4> HIDE DEF Top
      <4>1. s \in SUBSET (1 .. m)
        BY <3>1, <3>3
      <4>2. s \ {Top(s)} \in SUBSET (1 .. m)
        BY <4>1
      <4>3. g[s] = h[s] /\ h[s] = Step(h, s) /\ g[s \ {Top(s)}] = h[s \ {Top(s)}]
        BY <2>2, <2>4, <4>1, <4>2
      <4>4. QED
        BY <4>3
    <3>4. QED
      BY <3>2, <3>3
  <2> HIDE DEF Step
  <2>8. [s \in SUBSET (1 .. m + 1) |-> g[s]] = [s \in SUBSET (1 .. m + 1) |-> Step(g, s)]
    BY <2>7
  <2>9. Solves(g, m + 1)
    BY <2>5, <2>8
  <2> HIDE DEF Solves
  <2>10. QED
    BY <2>9
<1> HIDE DEF E, Top
<1>6. n \in E
  <2>1. E \in SUBSET Nat
    BY DEF E
  <2>2. QED
    BY <1>2, <1>4, <1>5, <2>1, Induct
<1>7. \A s \in SUBSET (1 .. n) : F[s] = Step(F, s)
  <2>1. F = CHOOSE h : Solves(h, n)
    BY <1>2
  <2>2. \E h : Solves(h, n)
    BY <1>6 DEF E
  <2> HIDE DEF F, Solves
  <2>3. Solves(F, n)
    BY <2>1, <2>2
  <2>4. QED
    BY <2>3 DEF Solves
<1> HIDE DEF F
<1> DEFINE K == {m \in Nat : m <= n => F[1 .. m] = P[m]}
<1>8. 0 \in K
  <2>1. 1 .. 0 = {} /\ {} \in SUBSET (1 .. n)
    OBVIOUS
  <2>2. QED
    BY <1>7, <2>1
<1>9. ASSUME NEW m \in Nat, m \in K PROVE m + 1 \in K
  <2> SUFFICES ASSUME m + 1 <= n PROVE F[1 .. m + 1] = P[m + 1]
    OBVIOUS
  <2>1. F[1 .. m] = P[m]
    BY <1>2, <1>9
  <2>2. m + 1 \in 1 .. n /\ (m + 1) - 1 = m
    BY <1>2
  <2>3. P[m + 1] = P[m] + fields[m + 1].size
    BY <2>2
  <2> DEFINE s == 1 .. m + 1
  <2>4. s \in SUBSET (1 .. n) /\ s # {} /\ s \ {m + 1} = 1 .. m /\ m + 1 \in s
    <3>1. m + 1 \in s
      OBVIOUS
    <3>2. \A x \in s : x \in 1 .. n
      BY <1>2
    <3>3. \A x : x \in s \ {m + 1} <=> x \in 1 .. m
      OBVIOUS
    <3> HIDE DEF s
    <3>4. QED
      BY <3>1, <3>2, <3>3
  <2> HIDE DEF s
  <2>5. Top(s) = m + 1
    <3>1. s \in SUBSET (1 .. m + 1)
      BY DEF s
    <3>2. QED
      BY <1>3, <2>4, <3>1
  <2>6. F[s] = F[1 .. m] + fields[m + 1].size
    BY <1>7, <2>4, <2>5
  <2>7. QED
    BY <2>1, <2>3, <2>6 DEF s
<1>10. K \in SUBSET Nat
  OBVIOUS
<1> HIDE DEF K
<1>11. n \in K
  BY <1>2, <1>8, <1>9, <1>10, Induct
<1>12. QED
  BY <1>1, <1>2, <1>11 DEF K

-----------------------------------------------------------------------------
(* What is written.                                                        *)

\* The lists of fields that are written one by one.
LEMMA Lists ==
    \A T : \A a, b, c, d, e \in T :
        <<a, b>> \in Seq(T) /\ <<a, b, c>> \in Seq(T) /\ <<a, b, c, d, e>> \in Seq(T)
OBVIOUS

\* The fields b of an entry with c inodes, and w with its delimiter, one by one.
FieldsOf(e, c, b, w) ==
    LET o    == Field(4, bytes_of(b))
        size == PayloadSize[e.enode.payload]
    IN  /\ Len(b) = 5 * c + 5 /\ Len(w) = 5 * c + 7
        /\ w[1] = Field(8, index_of(e)) /\ w[2] = Field(1, c)
        /\ \A k \in 1 .. c : \A f \in 1 .. 5 : w[2 + 5 * (k - 1) + f] = inode_fields(e.inodes[k])[f]
        /\ w[5 * c + 3] = Field(4, size)
        /\ w[5 * c + 4] = Field(size, e.enode.payload)
        /\ w[5 * c + 5] = Field(HashSize, e.enode.meta.hash)
        /\ w[5 * c + 6] = o /\ w[5 * c + 7] = Field(8, Append(b, o))
        /\ \A i \in 1 .. 5 * c + 5 : w[i] = b[i]
        /\ SubSeq(w, 1, 5 * c + 5) = b /\ SubSeq(w, 1, 5 * c + 6) = Append(b, o)
\* All of them have a size.
HaveSizes(b, w) == \E T : (\A x \in T : x.size \in Nat) /\ b \in Seq(T) /\ w \in Seq(T)

LEMMA WrittenFields ==
    ASSUME NEW e, NEW c \in Nat, Len(e.inodes) = c, e.enode.payload \in Value
    PROVE  /\ FieldsOf(e, c, write_entry_to(e), write_data(e))
           /\ HaveSizes(write_entry_to(e), write_data(e))
<1> DEFINE b == write_entry_to(e)
           o == Field(4, bytes_of(b))
           w == write_data(e)
           size == PayloadSize[e.enode.payload]
           M == [k \in 1 .. Len(e.inodes) |-> inode_fields(e.inodes[k])]
           F == FlattenSeq(M)
           h == <<Field(8, index_of(e)), Field(1, Len(e.inodes))>>
           t == <<Field(4, size), Field(size, e.enode.payload), Field(HashSize, e.enode.meta.hash)>>
           d == <<o, Field(8, Append(b, o))>>
           V == {h[1].value, h[2].value, t[1].value, t[2].value, t[3].value, d[1].value, d[2].value}
                  \cup {M[k][f].value : k \in 1 .. c, f \in 1 .. 5}
           T == [size : Nat, value : V]
<1>1. /\ size \in Nat /\ \A x \in T : x.size \in Nat
      /\ \A s \in Nat : \A v \in V : Field(s, v) \in T
  <2>1. size \in Nat
    BY SerializeAssumption
  <2> HIDE DEF V
  <2>2. \A s \in Nat : \A v \in V : Field(s, v) \in T
    BY DEF Field
  <2>3. QED
    BY <2>1, <2>2
<1>2. /\ b = (h \o F) \o t
      /\ w = b \o d
  BY DEF write_entry_to, write_data
<1>3. /\ h[1] = Field(8, index_of(e)) /\ h[2] = Field(1, c)
      /\ t[1] = Field(4, size) /\ t[2] = Field(size, e.enode.payload) /\ t[3] = Field(HashSize, e.enode.meta.hash)
      /\ d[1] = o /\ d[2] = Field(8, Append(b, o))
  OBVIOUS
<1>4. /\ h = <<h[1], h[2]>> /\ t = <<t[1], t[2], t[3]>> /\ d = <<d[1], d[2]>>
      /\ Len(h) = 2 /\ Len(t) = 3 /\ Len(d) = 2
  OBVIOUS
<1>5. /\ h[1] \in T /\ h[2] \in T /\ t[1] \in T /\ t[2] \in T /\ t[3] \in T /\ d[1] \in T /\ d[2] \in T
  <2>1. /\ h[1].value \in V /\ h[2].value \in V /\ t[1].value \in V /\ t[2].value \in V
        /\ t[3].value \in V /\ d[1].value \in V /\ d[2].value \in V
    OBVIOUS
  <2>2. /\ h[1] = Field(8, h[1].value) /\ h[2] = Field(1, h[2].value) /\ t[1] = Field(4, t[1].value)
        /\ t[2] = Field(size, t[2].value) /\ t[3] = Field(32, t[3].value)
        /\ d[1] = Field(4, d[1].value) /\ d[2] = Field(8, d[2].value)
    BY DEF Field, HashSize
  <2> HIDE DEF h, t, d, V, T, size
  <2>3. QED
    BY <1>1, <2>1, <2>2
<1>6. M \in Seq(Seq(T)) /\ Len(M) = c /\ \A k \in 1 .. Len(M) : Len(M[k]) = 5
  <2>1. M = [k \in 1 .. c |-> inode_fields(e.inodes[k])] /\ Len(M) = c
    OBVIOUS
  <2>2. ASSUME NEW k \in 1 .. c PROVE M[k] \in Seq(T) /\ Len(M[k]) = 5
    <3>1. M[k] = inode_fields(e.inodes[k])
      BY <2>1
    <3>2. \A f \in 1 .. 5 : M[k][f].value \in V
      OBVIOUS
    <3> HIDE DEF M, T, V
    <3>3. /\ Len(M[k]) = 5 /\ M[k] = <<M[k][1], M[k][2], M[k][3], M[k][4], M[k][5]>>
          /\ M[k][1] = Field(1, M[k][1].value) /\ M[k][2] = Field(8, M[k][2].value)
          /\ M[k][3] = Field(8, M[k][3].value) /\ M[k][4] = Field(1, M[k][4].value)
          /\ M[k][5] = Field(32, M[k][5].value)
      BY <3>1 DEF inode_fields, Field, HashSize
    <3>4. M[k][1] \in T /\ M[k][2] \in T /\ M[k][3] \in T /\ M[k][4] \in T /\ M[k][5] \in T
      BY <1>1, <3>2, <3>3
    <3>5. <<M[k][1], M[k][2], M[k][3], M[k][4], M[k][5]>> \in Seq(T)
      BY <3>4, Lists
    <3>6. QED
      BY <3>3, <3>5, Zenon
  <2> HIDE DEF M, T
  <2>3. M \in [1 .. c -> Seq(T)]
    BY <2>1, <2>2
  <2>4. M \in Seq(Seq(T))
    BY <2>3
  <2>5. QED
    BY <2>1, <2>2, <2>4
<1>7. F \in Seq(T) /\ Len(F) = 5 * c /\ \A k \in 1 .. c : \A f \in 1 .. 5 : F[5 * (k - 1) + f] = M[k][f]
  <2> HIDE DEF M, T
  <2>1. QED
    BY <1>6, FlattenedBlocks
<1>8. \A k \in 1 .. c : \A f \in 1 .. 5 : M[k][f] = inode_fields(e.inodes[k])[f]
  OBVIOUS
<1> HIDE DEF M, F, h, t, d, T, V, b, w, o, size
<1>9. h \in Seq(T) /\ t \in Seq(T) /\ d \in Seq(T) /\ o \in T
  <2>1. <<h[1], h[2]>> \in Seq(T) /\ <<t[1], t[2], t[3]>> \in Seq(T) /\ <<d[1], d[2]>> \in Seq(T)
    BY <1>5, Lists
  <2>2. QED
    BY <1>3, <1>4, <1>5, <2>1, Zenon
<1> DEFINE hF == h \o F
<1>10. /\ hF \in Seq(T) /\ Len(hF) = 2 + 5 * c
       /\ \A i \in 1 .. 2 : hF[i] = h[i]
       /\ \A i \in 1 .. 5 * c : hF[2 + i] = F[i]
  <2>1. h \in Seq(T) /\ F \in Seq(T) /\ Len(h) = 2 /\ Len(F) = 5 * c
    BY <1>4, <1>7, <1>9
  <2>2. /\ h \o F \in Seq(T) /\ Len(h \o F) = Len(h) + Len(F)
        /\ \A i \in 1 .. Len(h) + Len(F) :
              (h \o F)[i] = IF i <= Len(h) THEN h[i] ELSE F[i - Len(h)]
    BY <2>1, ConcatProperties
  <2>3. /\ hF \in Seq(T) /\ Len(hF) = Len(h) + Len(F)
        /\ \A i \in 1 .. Len(h) + Len(F) :
              hF[i] = IF i <= Len(h) THEN h[i] ELSE F[i - Len(h)]
    BY <1>2, <2>2, Zenon
  <2> HIDE DEF hF
  <2>4. ASSUME NEW i \in 1 .. 2 PROVE hF[i] = h[i]
    <3>1. i \in 1 .. Len(h) + Len(F) /\ i <= Len(h)
      BY <2>1
    <3>2. QED
      BY <2>3, <3>1
  <2>5. ASSUME NEW i \in 1 .. 5 * c PROVE hF[2 + i] = F[i]
    <3>1. 2 + i \in 1 .. Len(h) + Len(F) /\ ~(2 + i <= Len(h)) /\ (2 + i) - Len(h) = i
      BY <2>1
    <3>2. QED
      BY <2>3, <3>1
  <2>6. QED
    BY <2>1, <2>3, <2>4, <2>5
<1> HIDE DEF hF
<1>11. /\ b \in Seq(T) /\ Len(b) = (2 + 5 * c) + 3
       /\ \A i \in 1 .. 2 + 5 * c : b[i] = hF[i]
       /\ \A i \in 1 .. 3 : b[(2 + 5 * c) + i] = t[i]
  <2>1. hF \in Seq(T) /\ t \in Seq(T) /\ Len(hF) = (2 + 5 * c) /\ Len(t) = 3
    BY <1>4, <1>9, <1>10
  <2>2. /\ hF \o t \in Seq(T) /\ Len(hF \o t) = Len(hF) + Len(t)
        /\ \A i \in 1 .. Len(hF) + Len(t) :
              (hF \o t)[i] = IF i <= Len(hF) THEN hF[i] ELSE t[i - Len(hF)]
    BY <2>1, ConcatProperties
  <2>3. /\ b \in Seq(T) /\ Len(b) = Len(hF) + Len(t)
        /\ \A i \in 1 .. Len(hF) + Len(t) :
              b[i] = IF i <= Len(hF) THEN hF[i] ELSE t[i - Len(hF)]
    BY <1>2, <2>2 DEF hF
  <2> HIDE DEF hF
  <2>4. ASSUME NEW i \in 1 .. (2 + 5 * c) PROVE b[i] = hF[i]
    <3>1. i \in 1 .. Len(hF) + Len(t) /\ i <= Len(hF)
      BY <2>1
    <3>2. QED
      BY <2>3, <3>1
  <2>5. ASSUME NEW i \in 1 .. 3 PROVE b[(2 + 5 * c) + i] = t[i]
    <3>1. /\ (2 + 5 * c) + i \in 1 .. Len(hF) + Len(t) /\ ~((2 + 5 * c) + i <= Len(hF))
          /\ ((2 + 5 * c) + i) - Len(hF) = i
      BY <2>1
    <3>2. QED
      BY <2>3, <3>1
  <2>6. QED
    BY <2>1, <2>3, <2>4, <2>5
<1>12. /\ w \in Seq(T) /\ Len(w) = (5 * c + 5) + 2
       /\ \A i \in 1 .. 5 * c + 5 : w[i] = b[i]
       /\ \A i \in 1 .. 2 : w[(5 * c + 5) + i] = d[i]
  <2>1. b \in Seq(T) /\ d \in Seq(T) /\ Len(b) = (5 * c + 5) /\ Len(d) = 2
    BY <1>4, <1>9, <1>11
  <2>2. /\ b \o d \in Seq(T) /\ Len(b \o d) = Len(b) + Len(d)
        /\ \A i \in 1 .. Len(b) + Len(d) :
              (b \o d)[i] = IF i <= Len(b) THEN b[i] ELSE d[i - Len(b)]
    BY <2>1, ConcatProperties
  <2>3. /\ w \in Seq(T) /\ Len(w) = Len(b) + Len(d)
        /\ \A i \in 1 .. Len(b) + Len(d) :
              w[i] = IF i <= Len(b) THEN b[i] ELSE d[i - Len(b)]
    BY <1>2, <2>2, Zenon
  <2> HIDE DEF hF
  <2>4. ASSUME NEW i \in 1 .. (5 * c + 5) PROVE w[i] = b[i]
    <3>1. i \in 1 .. Len(b) + Len(d) /\ i <= Len(b)
      BY <2>1
    <3>2. QED
      BY <2>3, <3>1
  <2>5. ASSUME NEW i \in 1 .. 2 PROVE w[(5 * c + 5) + i] = d[i]
    <3>1. (5 * c + 5) + i \in 1 .. Len(b) + Len(d) /\ ~((5 * c + 5) + i <= Len(b)) /\ ((5 * c + 5) + i) - Len(b) = i
      BY <2>1
    <3>2. QED
      BY <2>3, <3>1
  <2>6. QED
    BY <2>1, <2>3, <2>4, <2>5
<1>13. ASSUME NEW i \in 1 .. 2 + 5 * c PROVE w[i] = hF[i]
  <2>1. i \in 1 .. 5 * c + 5
    OBVIOUS
  <2>2. QED
    BY <1>11, <1>12, <2>1
<1>14. ASSUME NEW i \in 1 .. 3 PROVE w[(2 + 5 * c) + i] = t[i]
  <2>1. (2 + 5 * c) + i \in 1 .. 5 * c + 5
    OBVIOUS
  <2>2. QED
    BY <1>11, <1>12, <2>1
<1>15. w[5 * c + 6] = o /\ w[5 * c + 7] = Field(8, Append(b, o))
  <2>1. (5 * c + 5) + 1 = 5 * c + 6 /\ (5 * c + 5) + 2 = 5 * c + 7
    OBVIOUS
  <2>2. w[(5 * c + 5) + 1] = d[1] /\ w[(5 * c + 5) + 2] = d[2]
    BY <1>12
  <2>3. QED
    BY <1>3, <2>1, <2>2
<1>16. ASSUME NEW k \in 1 .. c, NEW f \in 1 .. 5
       PROVE  w[2 + 5 * (k - 1) + f] = inode_fields(e.inodes[k])[f]
  <2> DEFINE q == 5 * (k - 1) + f
  <2>1. q \in 1 .. 5 * c /\ 2 + q \in 1 .. 2 + 5 * c /\ 2 + 5 * (k - 1) + f = 2 + q
    OBVIOUS
  <2>2. F[q] = M[k][f]
    BY <1>7
  <2> HIDE DEF q
  <2>3. w[2 + q] = F[q]
    BY <1>10, <1>13, <2>1
  <2>4. QED
    BY <1>8, <2>1, <2>2, <2>3
<1>17. w[1] = Field(8, index_of(e)) /\ w[2] = Field(1, c)
  <2>1. 1 \in 1 .. 2 /\ 2 \in 1 .. 2 /\ 1 \in 1 .. 2 + 5 * c /\ 2 \in 1 .. 2 + 5 * c
    OBVIOUS
  <2>2. QED
    BY <1>3, <1>10, <1>13, <2>1
<1>18. Len(b) = 5 * c + 5 /\ Len(w) = 5 * c + 7
  BY <1>11, <1>12
<1>19. SubSeq(w, 1, 5 * c + 5) = b
  <2> DEFINE z == SubSeq(w, 1, 5 * c + 5)
  <2>1. \A i \in 1 .. 5 * c + 5 : w[i] \in T
    BY <1>12, <1>18, ElementOfSeq
  <2>2. /\ z \in Seq(T) /\ Len(z) = 5 * c + 5
        /\ \A i \in 1 .. (5 * c + 5) - 1 + 1 : z[i] = w[(1 + i) - 1]
    BY <2>1, SubSeqProperties
  <2> HIDE DEF z
  <2>3. \A i \in 1 .. 5 * c + 5 : z[i] = b[i]
    BY <1>12, <2>2
  <2>4. z = b
    BY <1>11, <1>18, <2>2, <2>3, SeqEqual
  <2>5. QED
    BY <2>4 DEF z
<1>20. SubSeq(w, 1, 5 * c + 6) = Append(b, o)
  <2> DEFINE z == SubSeq(w, 1, 5 * c + 6)
             y == Append(b, o)
  <2>1. \A i \in 1 .. 5 * c + 6 : w[i] \in T
    BY <1>12, <1>18, ElementOfSeq
  <2>2. /\ z \in Seq(T) /\ Len(z) = 5 * c + 6
        /\ \A i \in 1 .. (5 * c + 6) - 1 + 1 : z[i] = w[(1 + i) - 1]
    BY <2>1, SubSeqProperties
  <2>3. /\ y \in Seq(T) /\ Len(y) = 5 * c + 6 /\ y[5 * c + 6] = o
        /\ \A i \in 1 .. 5 * c + 5 : y[i] = b[i]
    <3>1. y \in Seq(T) /\ Len(y) = Len(b) + 1 /\ y[Len(b) + 1] = o /\ \A i \in 1 .. Len(b) : y[i] = b[i]
      <4>1. b \in Seq(T) /\ o \in T
        BY <1>9, <1>11
      <4>2. QED
        BY <4>1
    <3>2. Len(b) + 1 = 5 * c + 6
      BY <1>18
    <3> HIDE DEF y
    <3>3. QED
      BY <1>18, <3>1, <3>2
  <2> HIDE DEF y, z
  <2>4. \A i \in 1 .. 5 * c + 6 : z[i] = y[i]
    <3> SUFFICES ASSUME NEW i \in 1 .. 5 * c + 6 PROVE z[i] = y[i]
      OBVIOUS
    <3>1. z[i] = w[i]
      BY <2>2
    <3>2. i \in 1 .. 5 * c + 5 \/ i = 5 * c + 6
      OBVIOUS
    <3>3. QED
      BY <1>12, <1>15, <2>3, <3>1, <3>2
  <2>5. z = y
    BY <2>2, <2>3, <2>4, SeqEqual
  <2>6. QED
    BY <2>5 DEF z, y
<1>21. /\ w[5 * c + 3] = Field(4, size) /\ w[5 * c + 4] = Field(size, e.enode.payload)
       /\ w[5 * c + 5] = Field(HashSize, e.enode.meta.hash)
  <2>1. (2 + 5 * c) + 1 = 5 * c + 3 /\ (2 + 5 * c) + 2 = 5 * c + 4 /\ (2 + 5 * c) + 3 = 5 * c + 5
    OBVIOUS
  <2>2. 1 \in 1 .. 3 /\ 2 \in 1 .. 3 /\ 3 \in 1 .. 3
    OBVIOUS
  <2>3. w[(2 + 5 * c) + 1] = t[1] /\ w[(2 + 5 * c) + 2] = t[2] /\ w[(2 + 5 * c) + 3] = t[3]
    BY <1>14, <2>2
  <2>4. QED
    BY <1>3, <2>1, <2>3
<1>22. FieldsOf(e, c, b, w)
  BY <1>12, <1>15, <1>16, <1>17, <1>18, <1>19, <1>20, <1>21 DEF FieldsOf, o, size
<1>23. HaveSizes(b, w)
  BY <1>1, <1>11, <1>12 DEF HaveSizes
<1>24. QED
  BY <1>22, <1>23 DEF b, w

-----------------------------------------------------------------------------
(* What is not written.                                                    *)

\* An entry is made of nothing but what is written and what follows from it: the
\* addresses of its own nodes and of its right children.
Written(e) ==
    LET i     == index_of(e)
        p     == position_of(e)
        nodes == inodes(i)
    IN  e = Entry(ENode(MetaInfo(Address(i, 0, p), e.enode.meta.hash), e.enode.payload),
                  [k \in 1 .. Len(nodes) |->
                      INode(MetaInfo(Address(i, nodes[k].node.j, p), e.inodes[k].meta.hash),
                            e.inodes[k].left, Address(i, nodes[k].right.j, p))])
WrittenInv == \A e \in entries_of(storage) : Written(e)

LEMMA NewEntryWritten ==
    ASSUME NEW c, c.revision + 1 \in Index \ {0}, NEW p, NEW v
    PROVE  Written(new_entry(c, p, v))
<1> DEFINE i == c.revision + 1
           e == new_entry(c, p, v)
           nodes == inodes(i)
           left(k) == c.pbst_roots[nodes[k].left.i]
           hash == CHOOSE h : h = [k \in 0 .. Len(nodes) |->
                                      IF k = 0 THEN MetaInfo(Address(i, 0, p), from_bytes(0, v)).hash
                                      ELSE combine(left(k).hash, nodes[k].node.j, h[k - 1])]
           node(k) == INode(MetaInfo(Address(nodes[k].node.i, nodes[k].node.j, p), hash[k]), left(k).address,
                            Address(nodes[k].right.i, nodes[k].right.j, p))
           leaf == MetaInfo(Address(i, 0, p), from_bytes(0, v))
<1>1. index_of(e) = i /\ position_of(e) = p
  BY NewEntryFields
<1>2. e = Entry(ENode(leaf, v), [k \in 1 .. Len(nodes) |-> node(k)])
  BY DEF new_entry
<1>3. ASSUME NEW k \in 1 .. Len(nodes) PROVE nodes[k].node.i = i /\ nodes[k].right.i = i
  <2>1. nodes[k].node = Addr(i, nodes[k].node.j) /\ nodes[k].right = Addr(i, nodes[k].right.j)
    BY InodeChildren
  <2> HIDE DEF nodes, i
  <2>2. QED
    BY <2>1 DEF Addr
<1> HIDE DEF hash, left, nodes, e, i
<1>4. /\ e.enode = ENode(leaf, v) /\ e.inodes = [k \in 1 .. Len(nodes) |-> node(k)]
      /\ e = Entry(e.enode, e.inodes)
  BY <1>2 DEF Entry
<1>5. e.enode = ENode(MetaInfo(Address(i, 0, p), e.enode.meta.hash), e.enode.payload)
  BY <1>4 DEF ENode, MetaInfo
<1>6. \A k \in 1 .. Len(nodes) :
        e.inodes[k] = INode(MetaInfo(Address(i, nodes[k].node.j, p), e.inodes[k].meta.hash),
                            e.inodes[k].left, Address(i, nodes[k].right.j, p))
  BY <1>3, <1>4 DEF INode, MetaInfo
<1>7. e.inodes = [k \in 1 .. Len(nodes) |->
                     INode(MetaInfo(Address(i, nodes[k].node.j, p), e.inodes[k].meta.hash),
                           e.inodes[k].left, Address(i, nodes[k].right.j, p))]
  <2> DEFINE m == e.inodes
             want(k) == INode(MetaInfo(Address(i, nodes[k].node.j, p), m[k].meta.hash),
                              m[k].left, Address(i, nodes[k].right.j, p))
  <2>1. m = [k \in 1 .. Len(nodes) |-> m[k]]
    BY <1>4
  <2>2. \A k \in 1 .. Len(nodes) : m[k] = want(k)
    BY <1>6
  <2> HIDE DEF m, want
  <2>3. m = [k \in 1 .. Len(nodes) |-> want(k)]
    BY <2>1, <2>2
  <2>4. QED
    BY <2>3 DEF m, want
<1>8. QED
  BY <1>1, <1>4, <1>5, <1>7 DEF Written, nodes, e, i

LEMMA WrittenStep == WriterInv /\ WrittenInv /\ [SlateNext]_slateVars => WrittenInv'
<1> SUFFICES ASSUME WriterInv, WrittenInv, [SlateNext]_slateVars PROVE WrittenInv'
  OBVIOUS
<1>1. ASSUME NEW v \in Value, AppendEntry(v) PROVE WrittenInv'
  <2> DEFINE e == new_entry(cache, position, v)
  <2>1. storage' = storage_put(storage, position, e) /\ cache.revision < MaxN
    BY <1>1 DEF AppendEntry, revision
  <2>2. cache.revision + 1 \in Index \ {0}
    <3>1. cache.revision \in 0 .. MaxN
      BY DEF WriterInv, CacheOK
    <3>2. cache.revision + 1 \in 0 .. MaxN /\ cache.revision + 1 # 0
      BY <2>1, <3>1, Revisions
    <3>3. QED
      BY <3>2, Revisions
  <2>3. Written(e)
    BY <2>2, NewEntryWritten
  <2> HIDE DEF e
  <2>4. entries_of(storage') \subseteq entries_of(storage) \cup {e}
    BY <2>1 DEF entries_of, storage_put
  <2>5. QED
    BY <2>3, <2>4 DEF WrittenInv
<1>2. ASSUME NEW i \in 0 .. MaxN, Truncate(i) PROVE WrittenInv'
  <2>1. PICK e \in read_entry(storage, cache, i) : storage' = storage_truncate(storage, position_of(e))
    BY <1>2 DEF Truncate
  <2>2. entries_of(storage') \subseteq entries_of(storage)
    BY <2>1 DEF entries_of, storage_truncate
  <2>3. QED
    BY <2>2 DEF WrittenInv
<1>3. ASSUME NEW level \in Level, Reopen(level) PROVE WrittenInv'
  BY <1>3 DEF Reopen, WrittenInv
<1>4. CASE UNCHANGED slateVars
  BY <1>4 DEF slateVars, WrittenInv
<1>5. QED
  BY <1>1, <1>2, <1>3, <1>4 DEF SlateNext

LEMMA WrittenInvariant == SlateSpec => []WrittenInv
<1>1. SlateInit => WrittenInv
  BY DEF SlateInit, EmptyStorage, entries_of, WrittenInv
<1>2. QED
  BY <1>1, WrittenStep, WriterInvariant, PTL DEF SlateSpec

-----------------------------------------------------------------------------
(* What is read.                                                           *)

\* What a reader rebuilds of an entry needs no more than its index.
LEMMA EntryParts ==
    ASSUME NEW s, NEW n \in 0 .. MaxN, Tree(s, n), NEW e \in entries_of(s), Written(e)
    PROVE  LET nodes == inodes(index_of(e))
               c == Len(nodes)
           IN  /\ c \in Nat /\ Len(e.inodes) = c /\ e.enode.payload \in Value
               /\ index_of(e) \in 1 .. MaxN
               /\ \A k \in 1 .. c :
                     /\ e.inodes[k].meta.address.j = nodes[k].node.j
                     /\ nodes[k].node.j \in 1 .. INDEX_SIZE
                     /\ nodes[k].right.j = IF k = 1 THEN 0 ELSE nodes[k - 1].node.j
                     /\ LET a == e.inodes[k].left
                        IN  /\ a = Address(a.i, a.j, a.position)
                            /\ a.i < index_of(e)
                            /\ \E x \in entries_of(s) : index_of(x) = a.i /\ position_of(x) = a.position
<1> DEFINE i == index_of(e)
           nodes == inodes(i)
           c == Len(nodes)
<1>1. /\ i \in Index \ {0} /\ i \in 1 .. n /\ EntryOK(s, e)
      /\ \A x \in entries_of(s) : index_of(x) \in Index \ {0} /\ EntryOK(s, x)
  BY StoredEntry
<1>2. e.enode.payload \in Value /\ i \in 1 .. MaxN
  BY DEF Tree, StorageOK, IsEntry, entries_of
<1>3. c \in Nat /\ Len(e.inodes) = c
  BY <1>1, InodeHeights DEF EntryOK
<1>4. ASSUME NEW k \in 1 .. c
      PROVE  /\ e.inodes[k].meta.address.j = nodes[k].node.j
             /\ nodes[k].node.j \in 1 .. INDEX_SIZE
             /\ nodes[k].right.j = IF k = 1 THEN 0 ELSE nodes[k - 1].node.j
  <2>1. e.inodes[k].meta.address = Address(i, nodes[k].node.j, position_of(e))
    BY <1>1 DEF EntryOK
  <2>2. nodes[k].node \in Addrs /\ nodes[k].node.j # 0
    BY <1>1, InodeChildren
  <2>3. nodes[k].right = IF k = 1 THEN Addr(i, 0) ELSE nodes[k - 1].node
    BY <1>1, InodesClimb
  <2> HIDE DEF nodes
  <2>4. QED
    BY <2>1, <2>2, <2>3, IndexSizeAssumption DEF Address, Addrs, Height, Addr
<1>5. ASSUME NEW k \in 1 .. c
      PROVE  LET a == e.inodes[k].left
             IN  /\ a = Address(a.i, a.j, a.position)
                 /\ a.i < index_of(e)
                 /\ \E x \in entries_of(s) : index_of(x) = a.i /\ position_of(x) = a.position
  <2> DEFINE a == e.inodes[k].left
  <2>1. PICK x \in read_entry_with_index_check(s, a) : \E m \in entry_meta(x, a.j) : m.address = a
    BY <1>1 DEF EntryOK, Resolves
  <2>2. PICK q \in DOMAIN s.data : x = s.data[q] /\ q = a.position /\ index_of(x) = a.i
    BY DEF read_entry_with_index_check
  <2>3. x \in entries_of(s) /\ position_of(x) = a.position
    BY <2>2 DEF entries_of, Tree, StorageOK
  <2>4. a = Address(index_of(x), a.j, position_of(x))
    BY <1>1, <2>1, <2>3, EntryMetas
  <2>5. a.i = nodes[k].left.i /\ nodes[k].left.i < i
    BY <1>1, InodesClimb DEF EntryOK
  <2> HIDE DEF a
  <2>6. QED
    BY <2>2, <2>3, <2>4, <2>5 DEF a
<1>6. QED
  BY <1>2, <1>3, <1>4, <1>5

\* Reading what was written gives the entry, and a delimiter that fits
\* (serialize.rs:5-76, checksum.rs:70-110).
LEMMA ReadsBack ==
    ASSUME NEW s, NEW n \in 0 .. MaxN, Tree(s, n), NEW e \in entries_of(s), Written(e)
    PROVE  LET w == write_data(e)
           IN  /\ check_delimiter(w) /\ data_fields(w) = Len(w)
               /\ read_entry_from(w, position_of(e)) = e
<1> DEFINE i == index_of(e)
           p == position_of(e)
           nodes == inodes(i)
           c == Len(nodes)
           w == write_data(e)
           b == write_entry_to(e)
           m == e.inodes
<1>1. /\ c \in Nat /\ Len(m) = c /\ e.enode.payload \in Value
      /\ \A k \in 1 .. c :
            /\ m[k].meta.address.j = nodes[k].node.j
            /\ nodes[k].node.j \in 1 .. INDEX_SIZE
            /\ nodes[k].right.j = IF k = 1 THEN 0 ELSE nodes[k - 1].node.j
            /\ m[k].left = Address(m[k].left.i, m[k].left.j, m[k].left.position)
  BY EntryParts
<1>2. /\ Len(b) = 5 * c + 5 /\ Len(w) = 5 * c + 7
      /\ w[1].value = i /\ w[2].value = c
      /\ \A k \in 1 .. c : \A f \in 1 .. 5 : w[2 + 5 * (k - 1) + f] = inode_fields(m[k])[f]
      /\ w[5 * c + 4].value = e.enode.payload /\ w[5 * c + 5].value = e.enode.meta.hash
      /\ w[5 * c + 6].value = bytes_of(b) /\ w[5 * c + 7].value = Append(b, Field(4, bytes_of(b)))
      /\ SubSeq(w, 1, 5 * c + 5) = b /\ SubSeq(w, 1, 5 * c + 6) = Append(b, Field(4, bytes_of(b)))
  <2>1. c \in Nat /\ Len(e.inodes) = c /\ e.enode.payload \in Value
    BY <1>1
  <2> HIDE DEF c, w, b
  <2>2. FieldsOf(e, c, b, w)
    BY <2>1, WrittenFields DEF w, b
  <2>3. \A v, u : Field(v, u).value = u
    BY DEF Field
  <2>4. w[5 * c + 4].value = e.enode.payload
    <3>1. w[5 * c + 4] = Field(PayloadSize[e.enode.payload], e.enode.payload)
      BY <2>2, Zenon DEF FieldsOf
    <3>2. QED
      BY <2>3, <3>1, Zenon
  <2>5. w[1].value = i /\ w[2].value = c
    <3>1. w[1] = Field(8, index_of(e)) /\ w[2] = Field(1, c)
      BY <2>2, Zenon DEF FieldsOf
    <3>2. QED
      BY <2>3, <3>1, Zenon DEF i
  <2>6. w[5 * c + 5].value = e.enode.meta.hash /\ w[5 * c + 6].value = bytes_of(b)
    <3> DEFINE z == bytes_of(b)
    <3>1. w[5 * c + 5] = Field(HashSize, e.enode.meta.hash) /\ w[5 * c + 6] = Field(4, z)
      BY <2>2, Zenon DEF FieldsOf
    <3>2. Field(HashSize, e.enode.meta.hash).value = e.enode.meta.hash /\ Field(4, z).value = z
      BY <2>3, Zenon
    <3> HIDE DEF z
    <3>3. w[5 * c + 5].value = e.enode.meta.hash /\ w[5 * c + 6].value = z
      BY <3>1, <3>2, Zenon
    <3>4. QED
      BY <3>3 DEF z
  <2>7. w[5 * c + 7].value = Append(b, Field(4, bytes_of(b)))
    <3>1. w[5 * c + 7] = Field(8, Append(b, Field(4, bytes_of(b))))
      BY <2>2, Zenon DEF FieldsOf
    <3> DEFINE z == Append(b, Field(4, bytes_of(b)))
    <3>2. Field(8, z).value = z
      BY <2>3, Zenon
    <3>3. w[5 * c + 7] = Field(8, z)
      BY <3>1
    <3> HIDE DEF z
    <3>4. w[5 * c + 7].value = z
      BY <3>2, <3>3, Zenon
    <3>5. QED
      BY <3>4 DEF z
  <2>8. /\ Len(b) = 5 * c + 5 /\ Len(w) = 5 * c + 7
        /\ \A k \in 1 .. c : \A f \in 1 .. 5 : w[2 + 5 * (k - 1) + f] = inode_fields(m[k])[f]
        /\ SubSeq(w, 1, 5 * c + 5) = b /\ SubSeq(w, 1, 5 * c + 6) = Append(b, Field(4, bytes_of(b)))
    BY <2>2, Zenon DEF FieldsOf
  <2>9. QED
    BY <2>4, <2>5, <2>6, <2>7, <2>8, Zenon
<1>3. e = Entry(ENode(MetaInfo(Address(i, 0, p), e.enode.meta.hash), e.enode.payload),
                [k \in 1 .. c |-> INode(MetaInfo(Address(i, nodes[k].node.j, p), m[k].meta.hash),
                                        m[k].left, Address(i, nodes[k].right.j, p))])
  BY DEF Written
<1> HIDE DEF i, p, nodes, c, w, b, m
<1>4. entry_fields(w) = 5 * c + 5 /\ data_fields(w) = 5 * c + 7
  BY <1>1, <1>2 DEF entry_fields, data_fields, fields_per_inode
<1>5. check_delimiter(w)
  <2>1. (5 * c + 5) + 1 = 5 * c + 6 /\ (5 * c + 5) + 2 = 5 * c + 7
    BY <1>1
  <2>2. QED
    BY <1>2, <1>4, <2>1 DEF check_delimiter
<1> DEFINE field(k, f) == w[2 + fields_per_inode * (k - 1) + f].value
           j(k) == IF k = 0 THEN 0 ELSE height_of_bits(field(k, 1))
           read(k) == INode(MetaInfo(Address(w[1].value, j(k), p), field(k, 5)),
                            Address(field(k, 3), field(k, 4), field(k, 2)),
                            Address(w[1].value, j(k - 1), p))
           have(k) == INode(MetaInfo(Address(i, nodes[k].node.j, p), m[k].meta.hash),
                            m[k].left, Address(i, nodes[k].right.j, p))
           rest == 2 + fields_per_inode * w[2].value
<1>6. ASSUME NEW k \in 1 .. c
      PROVE  /\ field(k, 1) = (m[k].meta.address.j - 1) % INDEX_SIZE /\ field(k, 2) = m[k].left.position
             /\ field(k, 3) = m[k].left.i /\ field(k, 4) = m[k].left.j /\ field(k, 5) = m[k].meta.hash
  <2>1. /\ inode_fields(m[k])[1].value = (m[k].meta.address.j - 1) % INDEX_SIZE
        /\ inode_fields(m[k])[2].value = m[k].left.position
        /\ inode_fields(m[k])[3].value = m[k].left.i /\ inode_fields(m[k])[4].value = m[k].left.j
        /\ inode_fields(m[k])[5].value = m[k].meta.hash
    BY DEF inode_fields, Field, height_bits
  <2>2. \A f \in 1 .. 5 : w[2 + 5 * (k - 1) + f] = inode_fields(m[k])[f]
    BY <1>2
  <2>3. 1 \in 1 .. 5 /\ 2 \in 1 .. 5 /\ 3 \in 1 .. 5 /\ 4 \in 1 .. 5 /\ 5 \in 1 .. 5
    OBVIOUS
  <2>4. QED
    BY <2>1, <2>2, <2>3, Zenon DEF fields_per_inode
<1>7. ASSUME NEW k \in 1 .. c PROVE j(k) = nodes[k].node.j
  <2> DEFINE h == nodes[k].node.j
  <2>1. h \in 1 .. INDEX_SIZE /\ m[k].meta.address.j = h /\ k # 0
    BY <1>1
  <2>2. field(k, 1) = (h - 1) % INDEX_SIZE
    BY <1>6, <2>1, Zenon
  <2> HIDE DEF field, h
  <2>3. j(k) = (((h - 1) % INDEX_SIZE) % INDEX_SIZE) + 1
    BY <2>1, <2>2 DEF height_of_bits
  <2>4. (h - 1) % INDEX_SIZE = h - 1
    BY <2>1, IndexSizeAssumption
  <2>5. QED
    BY <2>1, <2>3, <2>4, IndexSizeAssumption DEF h
<1>8. ASSUME NEW k \in 1 .. c PROVE j(k - 1) = nodes[k].right.j
  <2>1. CASE k = 1
    BY <1>1, <2>1
  <2>2. CASE k # 1
    <3>1. k - 1 \in 1 .. c
      BY <1>1, <2>2
    <3>2. j(k - 1) = nodes[k - 1].node.j
      BY <1>7, <3>1
    <3>3. QED
      BY <1>1, <2>2, <3>2
  <2>3. QED
    BY <2>1, <2>2
<1>9. ASSUME NEW k \in 1 .. c PROVE read(k) = have(k)
  <2>1. j(k) = nodes[k].node.j /\ j(k - 1) = nodes[k].right.j
    BY <1>7, <1>8
  <2> HIDE DEF j, field
  <2>2. Address(field(k, 3), field(k, 4), field(k, 2)) = m[k].left
    BY <1>1, <1>6 DEF field
  <2>3. field(k, 5) = m[k].meta.hash
    BY <1>6 DEF field
  <2>4. QED
    BY <1>2, <2>1, <2>2, <2>3
<1>10. rest + 2 = 5 * c + 4 /\ rest + 3 = 5 * c + 5
  BY <1>1, <1>2 DEF fields_per_inode
<1>11. read_entry_from(w, p) =
         Entry(ENode(MetaInfo(Address(w[1].value, 0, p), w[rest + 3].value), w[rest + 2].value),
               [k \in 1 .. w[2].value |-> read(k)])
  BY DEF read_entry_from
<1> HIDE DEF read, have, rest
<1>12. [k \in 1 .. c |-> read(k)] = [k \in 1 .. c |-> have(k)]
  BY <1>9
<1>13. read_entry_from(w, p) = e
  BY <1>2, <1>3, <1>10, <1>11, <1>12 DEF have
<1>14. QED
  BY <1>2, <1>4, <1>5, <1>13 DEF w, p

-----------------------------------------------------------------------------
(* How much is written.                                                    *)

\* The bytes before the field f + 1 of an inode, and those of the first k fields
\* of an entry with c inodes and a payload of size bytes.
InodeBytes(f) == IF f = 0 THEN 0 ELSE IF f = 1 THEN 1 ELSE IF f = 2 THEN 9 ELSE IF f = 3 THEN 17 ELSE 18
EntryBytes(c, size, k) ==
    IF k <= 1 THEN 8 * k
    ELSE IF k <= 5 * c + 2 THEN 9 + 50 * ((k - 2) \div 5) + InodeBytes((k - 2) % 5)
    ELSE (13 + 50 * c) + (IF k = 5 * c + 3 THEN 0 ELSE IF k = 5 * c + 4 THEN size
                          ELSE IF k = 5 * c + 5 THEN size + 32
                          ELSE IF k = 5 * c + 6 THEN size + 36 ELSE size + 44)

Adds(c, size, w, k) == EntryBytes(c, size, k) = EntryBytes(c, size, k - 1) + w[k].size

\* Where a field stands among those of its inode.
LEMMA Fifths ==
    ASSUME NEW m \in Nat, NEW f \in 0 .. 4
    PROVE  (5 * m + f) \div 5 = m /\ (5 * m + f) % 5 = f
OBVIOUS

LEMMA InodeFieldSizes ==
    ASSUME NEW k
    PROVE  /\ inode_fields(k)[1].size = 1 /\ inode_fields(k)[2].size = 8 /\ inode_fields(k)[3].size = 8
           /\ inode_fields(k)[4].size = 1 /\ inode_fields(k)[5].size = 32
BY DEF inode_fields, Field, HashSize

\* The bytes before a field are those before the last field and that field's.
LEMMA EntryBytesAdd ==
    ASSUME NEW e, NEW c \in Nat, NEW b, NEW w, FieldsOf(e, c, b, w),
           NEW size \in Nat, size = PayloadSize[e.enode.payload], NEW k \in 1 .. 5 * c + 7
    PROVE  Adds(c, size, w, k)
<1> SUFFICES EntryBytes(c, size, k) = EntryBytes(c, size, k - 1) + w[k].size
  BY Zenon DEF Adds
<1> DEFINE B(q) == EntryBytes(c, size, q)
<1>1. CASE k = 1
  <2>1. w[1].size = 8
    BY DEF FieldsOf, Field
  <2>2. QED
    BY <1>1, <2>1 DEF EntryBytes
<1>2. CASE k = 2
  <2>1. w[2].size = 1
    <3>1. w[2] = Field(1, c)
      BY Zenon DEF FieldsOf
    <3>2. QED
      BY <3>1 DEF Field
  <2>2. (2 - 2) \div 5 = 0 /\ (2 - 2) % 5 = 0 /\ 2 <= 5 * c + 2
    OBVIOUS
  <2>3. QED
    BY <1>2, <2>1, <2>2 DEF EntryBytes, InodeBytes
<1>3. CASE 2 < k /\ k <= 5 * c + 2
  <2> DEFINE m == (k - 3) \div 5
             f == ((k - 3) % 5) + 1
  <2>1. m \in Nat /\ f \in 1 .. 5 /\ k = 5 * m + f + 2 /\ m < c
    BY <1>3
  <2> HIDE DEF m, f
  <2>2. m + 1 \in 1 .. c /\ k = 2 + 5 * ((m + 1) - 1) + f
    BY <2>1
  <2>3. w[k] = inode_fields(e.inodes[m + 1])[f]
    BY <2>1, <2>2, Zenon DEF FieldsOf
  <2>4. B(k - 1) = 9 + 50 * m + InodeBytes(f - 1)
    <3>1. f - 1 \in 0 .. 4 /\ (k - 1) - 2 = 5 * m + (f - 1)
      BY <2>1
    <3>2. ((k - 1) - 2) \div 5 = m /\ ((k - 1) - 2) % 5 = f - 1
      BY <2>1, <3>1, Fifths
    <3>3. k - 1 <= 5 * c + 2 /\ ~(k - 1 <= 1)
      BY <1>3
    <3>4. QED
      BY <3>2, <3>3 DEF EntryBytes
  <2>5. CASE f < 5
    <3>1. f \in 0 .. 4 /\ k - 2 = 5 * m + f
      BY <2>1, <2>5
    <3>2. (k - 2) \div 5 = m /\ (k - 2) % 5 = f
      BY <2>1, <3>1, Fifths
    <3>3. B(k) = 9 + 50 * m + InodeBytes(f)
      BY <1>3, <3>2 DEF EntryBytes
    <3>4. f = 1 \/ f = 2 \/ f = 3 \/ f = 4
      BY <2>1, <2>5
    <3>5. InodeBytes(f) = InodeBytes(f - 1) + w[k].size
      BY <2>3, <3>4, InodeFieldSizes DEF InodeBytes
    <3>6. InodeBytes(f - 1) \in Nat /\ InodeBytes(f) \in Nat
      BY DEF InodeBytes
    <3>7. w[k].size \in Nat
      BY <2>3, <3>4, InodeFieldSizes
    <3>8. QED
      BY <2>1, <2>4, <3>3, <3>5, <3>6, <3>7
  <2>6. CASE f = 5
    <3>1. 0 \in 0 .. 4 /\ k - 2 = 5 * (m + 1) + 0 /\ m + 1 \in Nat
      BY <2>1, <2>6
    <3>2. (k - 2) \div 5 = m + 1 /\ (k - 2) % 5 = 0
      BY <3>1, Fifths
    <3>3. B(k) = 9 + 50 * (m + 1) + 0
      BY <1>3, <3>2 DEF EntryBytes, InodeBytes
    <3>4. w[k].size = 32 /\ InodeBytes(f - 1) = 18
      BY <2>3, <2>6, InodeFieldSizes DEF InodeBytes
    <3>5. QED
      BY <2>1, <2>4, <3>3, <3>4
  <2>7. QED
    BY <2>1, <2>5, <2>6
<1>4. CASE k = 5 * c + 3
  <2>1. w[k].size = 4
    <3>1. w[k] = Field(4, size)
      BY <1>4, Zenon DEF FieldsOf
    <3>2. QED
      BY <3>1 DEF Field
  <2>2. B(k) = 13 + 50 * c
    BY <1>4 DEF EntryBytes
  <2>3. B(k - 1) = 9 + 50 * c
    <3>1. CASE c = 0
      BY <1>4, <3>1 DEF EntryBytes, InodeBytes
    <3>2. (5 * c + 0) \div 5 = c /\ (5 * c + 0) % 5 = 0
      BY Fifths
    <3>3. (k - 1) - 2 = 5 * c + 0 /\ k - 1 <= 5 * c + 2 /\ ~(k - 1 <= 1)
      BY <1>4
    <3>4. QED
      BY <3>2, <3>3 DEF EntryBytes, InodeBytes
  <2>4. QED
    BY <2>1, <2>2, <2>3
<1>5. CASE k = 5 * c + 4
  <2>1. w[k].size = size
    <3>1. w[k] = Field(size, e.enode.payload)
      BY <1>5, Zenon DEF FieldsOf
    <3>2. QED
      BY <3>1 DEF Field
  <2>2. QED
    BY <1>5, <2>1 DEF EntryBytes
<1>6. CASE k = 5 * c + 5
  <2>1. w[k].size = 32
    <3>1. w[k] = Field(HashSize, e.enode.meta.hash)
      BY <1>6, Zenon DEF FieldsOf
    <3>2. QED
      BY <3>1 DEF Field, HashSize
  <2>2. QED
    BY <1>6, <2>1 DEF EntryBytes
<1>7. CASE k = 5 * c + 6
  <2>1. w[k].size = 4
    <3>1. w[k] = Field(4, bytes_of(b))
      BY <1>7, Zenon DEF FieldsOf
    <3>2. QED
      BY <3>1 DEF Field
  <2>2. QED
    BY <1>7, <2>1 DEF EntryBytes
<1>8. CASE k = 5 * c + 7
  <2>1. w[k].size = 8
    <3>1. w[k] = Field(8, Append(b, Field(4, bytes_of(b))))
      BY <1>8, Zenon DEF FieldsOf
    <3>2. QED
      BY <3>1 DEF Field
  <2>2. QED
    BY <1>8, <2>1 DEF EntryBytes
<1>9. k = 1 \/ k = 2 \/ (2 < k /\ k <= 5 * c + 2) \/ k = 5 * c + 3 \/ k = 5 * c + 4
      \/ k = 5 * c + 5 \/ k = 5 * c + 6 \/ k = 5 * c + 7
  OBVIOUS
<1>10. QED
  BY <1>1, <1>2, <1>3, <1>4, <1>5, <1>6, <1>7, <1>8, <1>9

\* The bytes of an entry, without and with its delimiter.
LEMMA WrittenBytes ==
    ASSUME NEW e, NEW c \in Nat, Len(e.inodes) = c, e.enode.payload \in Value
    PROVE  LET size == PayloadSize[e.enode.payload]
           IN  /\ bytes_of(write_entry_to(e)) = 45 + 50 * c + size
               /\ bytes_of(write_data(e)) = 57 + 50 * c + size
<1> DEFINE size == PayloadSize[e.enode.payload]
           b == write_entry_to(e)
           w == write_data(e)
           P == [k \in 0 .. 5 * c + 7 |-> EntryBytes(c, size, k)]
<1>1. FieldsOf(e, c, b, w) /\ size \in Nat
  BY WrittenFields, SerializeAssumption
<1>2. PICK T : (\A x \in T : x.size \in Nat) /\ b \in Seq(T) /\ w \in Seq(T)
  BY WrittenFields DEF HaveSizes
<1>3. Len(b) = 5 * c + 5 /\ Len(w) = 5 * c + 7 /\ \A i \in 1 .. 5 * c + 5 : w[i] = b[i]
  BY <1>1, Zenon DEF FieldsOf
<1> HIDE DEF b, w
<1>4. ASSUME NEW k \in 1 .. 5 * c + 7
      PROVE  EntryBytes(c, size, k) = EntryBytes(c, size, k - 1) + w[k].size
  <2>1. FieldsOf(e, c, b, w) /\ size \in Nat /\ size = PayloadSize[e.enode.payload]
    BY <1>1
  <2> HIDE DEF size, P
  <2>2. Adds(c, size, w, k)
    BY <2>1, EntryBytesAdd
  <2>3. QED
    BY <2>2, Zenon DEF Adds
<1> HIDE DEF size
<1>5. /\ P[0] = 0 /\ \A k \in 1 .. 5 * c + 7 : P[k] = P[k - 1] + w[k].size
      /\ P[5 * c + 5] = 45 + 50 * c + size /\ P[5 * c + 7] = 57 + 50 * c + size
  <2>1. \A k \in 1 .. 5 * c + 7 : k \in 0 .. 5 * c + 7 /\ k - 1 \in 0 .. 5 * c + 7
    OBVIOUS
  <2>2. \A k \in 1 .. 5 * c + 7 : P[k] = P[k - 1] + w[k].size
    BY <1>4, <2>1
  <2>3. 0 \in 0 .. 5 * c + 7 /\ 5 * c + 5 \in 0 .. 5 * c + 7 /\ 5 * c + 7 \in 0 .. 5 * c + 7
    OBVIOUS
  <2>4. /\ EntryBytes(c, size, 0) = 0
        /\ EntryBytes(c, size, 5 * c + 5) = 45 + 50 * c + size
        /\ EntryBytes(c, size, 5 * c + 7) = 57 + 50 * c + size
    BY <1>1 DEF EntryBytes
  <2>5. QED
    BY <2>2, <2>3, <2>4
<1> HIDE DEF P
<1>6. ASSUME NEW k \in 1 .. Len(b) PROVE P[k] = P[k - 1] + b[k].size
  <2>1. k \in 1 .. 5 * c + 5 /\ k \in 1 .. 5 * c + 7
    BY <1>3
  <2>2. P[k] = P[k - 1] + w[k].size
    BY <1>5, <2>1
  <2>3. w[k] = b[k]
    BY <1>3, <2>1
  <2>4. QED
    BY <2>2, <2>3
<1>7. bytes_of(b) = P[Len(b)]
  <2>1. P[0] = 0 /\ \A k \in 1 .. Len(b) : P[k] = P[k - 1] + b[k].size
    BY <1>5, <1>6
  <2>2. QED
    BY <1>2, <2>1, BytesOf
<1>8. bytes_of(w) = P[Len(w)]
  <2>1. P[0] = 0 /\ \A k \in 1 .. Len(w) : P[k] = P[k - 1] + w[k].size
    BY <1>3, <1>5
  <2>2. QED
    BY <1>2, <2>1, BytesOf
<1>9. QED
  BY <1>3, <1>5, <1>7, <1>8 DEF b, w, size

-----------------------------------------------------------------------------
(* The readers.                                                            *)

\* On an entry of a good tree, which has what is written and nothing else, the
\* readers agree.
LEMMA TreeIsRead ==
    ASSUME WriterInv, TreeInv, WrittenInv
    PROVE  ReadersAgree
<1> DEFINE s == storage
           n == cache.revision
<1>1. n \in 0 .. MaxN /\ Tree(s, n) /\ StorageOK(s, n)
  BY WriterTree DEF Tree
<1>2. ASSUME NEW e \in entries_of(s) PROVE Written(e)
  BY DEF WrittenInv
<1> HIDE DEF s, n
<1>3. ASSUME NEW e \in entries_of(s)
      PROVE  LET w == write_data(e)
             IN  check_delimiter(w) /\ data_fields(w) = Len(w) /\ read_entry_from(w, position_of(e)) = e
  BY <1>1, <1>2, ReadsBack
<1>4. ASSUME NEW e \in entries_of(s)
      PROVE  /\ bytes_of(write_data(e)) = entry_size(e)
             /\ e \in storage_last(s) => s.end - last_entry_distance(write_data(e)) = position_of(e)
  <2> DEFINE c == Len(e.inodes)
             v == e.enode.payload
             w == write_data(e)
             b == write_entry_to(e)
  <2>1. c \in Nat /\ c = Len(inodes(index_of(e))) /\ v \in Value /\ index_of(e) \in 1 .. MaxN
    BY <1>1, <1>2, EntryParts
  <2>2. PayloadSize[v] \in Nat /\ entry_size(e) = 57 + 50 * c + PayloadSize[v]
    <3> DEFINE i == index_of(e)
    <3>1. entry_size(e) = EntrySize[<<v, i>>]
      BY DEF entry_size
    <3>2. v \in Value /\ i \in 1 .. MaxN /\ c = Len(inodes(i)) /\ c \in Nat
      BY <2>1
    <3> HIDE DEF c, v, i
    <3>3. PayloadSize[v] \in Nat
      BY <3>2, SerializeAssumption
    <3>4. EntrySize[<<v, i>>] = 8 + 1 + 50 * Len(inodes(i)) + 4 + PayloadSize[v] + 32 + 4 + 8
      BY <3>2, SizeAssumption, Zenon
    <3>5. EntrySize[<<v, i>>] = 8 + 1 + 50 * c + 4 + PayloadSize[v] + 32 + 4 + 8
      BY <3>2, <3>4, Zenon
    <3>6. QED
      BY <3>1, <3>2, <3>3, <3>5
  <2>3. bytes_of(b) = 45 + 50 * c + PayloadSize[v] /\ bytes_of(w) = 57 + 50 * c + PayloadSize[v]
    BY <2>1, WrittenBytes
  <2>4. Len(w) - 1 = 5 * c + 6 /\ w[5 * c + 6] = Field(4, bytes_of(b))
    <3>1. FieldsOf(e, c, b, w)
      BY <2>1, WrittenFields
    <3> HIDE DEF b, c, w
    <3>2. Len(w) = 5 * c + 7 /\ w[5 * c + 6] = Field(4, bytes_of(b))
      BY <3>1, Zenon DEF FieldsOf
    <3>3. QED
      BY <2>1, <3>2
  <2> HIDE DEF b, c, v, w
  <2>5. last_entry_distance(w) = entry_size(e)
    <3>1. w[5 * c + 6].value = 45 + 50 * c + PayloadSize[v]
      BY <2>3, <2>4 DEF Field
    <3>2. last_entry_distance(w) = 4 + 8 + w[5 * c + 6].value
      BY <2>4 DEF last_entry_distance
    <3>3. QED
      BY <2>1, <2>2, <3>1, <3>2
  <2>6. ASSUME e \in storage_last(s) PROVE position_of(e) + entry_size(e) = s.end
    <3>1. index_of(e) = n
      BY <1>1, <2>6, LastIsHighest
    <3>2. position_of(e) \in DOMAIN s.data /\ s.data[position_of(e)] = e
      BY <1>1, StoredEntry
    <3>3. QED
      BY <1>1, <3>1, <3>2 DEF StorageOK
  <2>7. position_of(e) \in Nat /\ entry_size(e) \in Nat
    <3>1. position_of(e) \in Nat
      BY <1>1, StoredEntry DEF StorageOK
    <3>2. QED
      BY <2>1, <2>2, <3>1
  <2>8. QED
    BY <2>2, <2>3, <2>5, <2>6, <2>7 DEF w
<1>5. ASSUME NEW e \in entries_of(s), NEW k \in 1 .. Len(e.inodes) PROVE left_mark(e, k)
  <2> DEFINE a == e.inodes[k].left
  <2>1. Len(e.inodes) = Len(inodes(index_of(e)))
    BY <1>1, <1>2, EntryParts
  <2>2. PICK x \in entries_of(s) : index_of(x) = a.i /\ position_of(x) = a.position /\ a.i < index_of(e)
    BY <1>1, <1>2, <2>1, EntryParts
  <2>3. index_of(x) <= index_of(e)
    BY <1>1, <2>2, StoredEntry
  <2>4. \A y \in entries_of(s) : index_of(y) = a.i => y = x
    BY <1>1, <2>2, StoredEntry
  <2> HIDE DEF a
  <2>5. location(e, a.i) = {a.position}
    BY <2>2, <2>3, <2>4 DEF location, seen_with, s
  <2>6. QED
    BY <2>5 DEF left_mark, a
<1>6. ASSUME NEW e \in entries_of(s) PROVE leaf_mark(e)
  BY <1>1, StoredEntry DEF EntryOK, HashesFollow, leaf_mark
<1>7. QED
  BY <1>3, <1>4, <1>5, <1>6
     DEF ReadersAgree, RoundTrip, LastIsFound, InspectAcceptsLinks, checksum_mark, s

\* Every stored entry is read back as it was written, takes the bytes that the
\* writer advances by, is found from the end of the storage when it is the last,
\* and is in order for the report (serialize.rs:5-76, checksum.rs:70-110,
\* storage.rs:170-180, 240-247, inspect.rs:34-119).
THEOREM EntriesAreReadBack == SlateSpec => []ReadersAgree
<1>1. QED
  BY TreeIsRead, WriterInvariant, TreeInvariant, WrittenInvariant, PTL
=============================================================================
