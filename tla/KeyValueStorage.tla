--------------------------- MODULE KeyValueStorage ---------------------------
(***************************************************************************)
(* MemKVS of src/storage/memory.rs and RocksDBStorage of                   *)
(* src/storage/rocksdb.rs: an entry per key, where the keys are the        *)
(* positions 1, 2, ... and so the indices of the entries.  RocksDB keeps   *)
(* the next position in a record of its own.                               *)
(*                                                                         *)
(* The writer is a Slate.  It changes the map under the write lock, one    *)
(* key at a time; a scan holds the read lock from its first entry to its   *)
(* last, its callbacks included.  RocksDB itself is external: it takes one *)
(* write after the other, and a process that dies loses none it has made.  *)
(***************************************************************************)
EXTENDS Entry

CONSTANTS Kind,         \* the storages, of "memkvs", "rocksdb"
          Fault,        \* what may go wrong with RocksDB: "crash_put",
                        \* "crash_truncate", "write" (a write fails)
          MaxFaults,    \* faults in a behaviour (a bound of the model)
          Reader,       \* the readers
          Callback      \* what callbacks of scans do, of "nothing", "read"

ASSUME KeyValueAssumption == /\ Kind \subseteq {"memkvs", "rocksdb"}
                             /\ Fault \subseteq {"crash_put", "crash_truncate", "write"}
                             /\ MaxFaults \in Nat
                             /\ Callback \subseteq {"nothing", "read"}
                             /\ FirstPosition = 1
                             /\ \A x \in DOMAIN EntrySize : EntrySize[x] = 1

VARIABLES kind,         \* the kind of the storage
          db,           \* the payloads of its entries, by position
          meta,         \* the next position that RocksDB has on record
          call,         \* the call of the writer
          next,         \* Slate::position
          cached,       \* the entries that may be in the cache of the Slate
          reader,       \* the scans
          \* history
          acked,        \* the payloads that put has returned for, by position
          faults        \* the faults so far

kvVars == <<kind, db, meta, call, next, cached, reader, acked, faults>>

-----------------------------------------------------------------------------
(* The map.                                                                *)

NoMeta == 0

put_key(m, p, v) == [q \in DOMAIN m \cup {p} |-> IF q = p THEN v ELSE m[q]]
remove_key(m, p) == [q \in DOMAIN m \ {p} |-> m[q]]

\* set_metadata: there is no record of the next position 1.
metadata(n) == IF n = 1 THEN NoMeta ELSE n

\* Storage::last: whether it finds its entry, and the next position.
last_succeeds == kind = "rocksdb" /\ meta # NoMeta => meta - 1 \in DOMAIN db
last_position == IF kind = "memkvs" THEN Cardinality(DOMAIN db) + 1
                 ELSE IF meta = NoMeta THEN 1 ELSE meta

\* The storage of module Entry that the map stands for: the entries up to the
\* first key that is missing, or to the next position on record.
decode(p, v) == Entry(ENode(MetaInfo(Address(p, 0, p), from_bytes(0, v)), v), <<>>)
missing == Min((1 .. MaxN + 1) \ DOMAIN db)
view_end == IF kind = "memkvs" THEN missing ELSE Min({missing, last_position})
view == [data |-> [p \in 1 .. view_end - 1 |-> decode(p, db[p])], end |-> view_end]

-----------------------------------------------------------------------------
(* The lock.                                                               *)

\* call.pc: waiting for the lock, the entries to write, the record to write,
\* done with the lock released.
Call(op, at, v) == [op |-> op, pc |-> "wait", at |-> at, p |-> at, v |-> v]
NoValue == CHOOSE v \in Value : TRUE
Closed  == [Call("closed", 0, NoValue) EXCEPT !.pc = "done"]
Idle    == [Closed EXCEPT !.op = "idle"]

Scan(at, left, got) == [op |-> "scan", at |-> at, left |-> left, got |-> got]
NoScan == [op |-> "none", at |-> 0, left |-> 0, got |-> <<>>]
Scanning == {r \in Reader : reader[r].op # "none"}

\* RwLock: a writer waits for all readers; who wants to read waits behind a
\* writer that holds the lock or waits for it.
\* Variant: a fault that ScanSeesOneState shows.
may_write_beside_scans == call.pc = "wait"
may_write == call.pc = "wait" /\ Scanning = {}
may_read  == call.pc = "done"

-----------------------------------------------------------------------------
(* The writer.                                                             *)

Init == /\ kind \in Kind
        /\ db = <<>> /\ meta = NoMeta
        /\ call = Closed /\ next = 0 /\ cached = {}
        /\ reader = [r \in Reader |-> NoScan]
        /\ acked = <<>> /\ faults = 0

\* A storage is opened, by Storage::last.
LastSucceeds == /\ last_succeeds
                /\ next' = last_position
                /\ cached' = {p \in DOMAIN db : p < next'}
                /\ acked' = IF next' - 1 \in DOMAIN acked \cup {0} THEN acked
                            ELSE put_key(acked, next' - 1, db[next' - 1])
                /\ call' = Idle
                /\ UNCHANGED <<kind, db, meta, reader, faults>>

Open == call.op = "closed" /\ LastSucceeds

StartPut(v) == /\ call.op = "idle" /\ next <= MaxN
               /\ call' = Call("put", next, v)
               /\ UNCHANGED <<kind, db, meta, next, cached, reader, acked, faults>>

\* Slate::truncate, once it has found entry i at position i, in the storage or
\* in its cache, which may hold an entry whose key is gone since a truncation
\* that failed.
StartTruncate(i) == /\ call.op = "idle" /\ i < next /\ i \in DOMAIN db \cup cached
                    /\ call' = Call("truncate", i, NoValue)
                    /\ acked' = [p \in {q \in DOMAIN acked : q < i} |-> acked[p]]
                    /\ UNCHANGED <<kind, db, meta, next, cached, reader, faults>>

\* RocksDB cuts nothing behind the position it has on record.
Acquire == /\ may_write
           /\ call' = [call EXCEPT !.pc =
                 IF call.op = "truncate" /\ kind = "rocksdb" /\ call.at >= last_position
                 THEN "done" ELSE "entries"]
           /\ UNCHANGED <<kind, db, meta, next, cached, reader, acked, faults>>

\* What is left to do after the entries.
\* Variant: a fault that OpenRecovers shows.
after_entries_early == IF kind = "memkvs" \/ call.op = "put" THEN "done" ELSE "meta"
after_entries == IF kind = "memkvs" THEN "done" ELSE "meta"

WriteEntry == /\ call.pc = "entries" /\ call.op = "put"
              /\ db' = put_key(db, call.at, call.v)
              /\ call' = [call EXCEPT !.pc = after_entries]
              /\ UNCHANGED <<kind, meta, next, cached, reader, acked, faults>>

\* truncate goes up from its position until a key is missing.
\* Variant: a fault that AckedAreStored shows.
key_to_delete_before == call.p - 1
key_to_delete == call.p
\* Variant: a fault that EveryoneReturns shows.
DeleteEntry_endlessly == /\ call.pc = "entries" /\ call.op = "truncate"
                         /\ IF key_to_delete \in DOMAIN db
                            THEN db' = remove_key(db, key_to_delete) /\ call' = [call EXCEPT !.p = @ + 1]
                            ELSE UNCHANGED <<db, call>>
                         /\ UNCHANGED <<kind, meta, next, cached, reader, acked, faults>>
DeleteEntry == /\ call.pc = "entries" /\ call.op = "truncate"
               /\ IF key_to_delete \in DOMAIN db
                  THEN /\ db' = remove_key(db, key_to_delete)
                       /\ call' = [call EXCEPT !.p = @ + 1]
                  ELSE /\ call' = [call EXCEPT !.pc = after_entries]
                       /\ UNCHANGED db
               /\ UNCHANGED <<kind, meta, next, cached, reader, acked, faults>>

WriteMeta == /\ call.pc = "meta"
             /\ meta' = metadata(IF call.op = "put" THEN call.at + 1 ELSE call.at)
             /\ call' = [call EXCEPT !.pc = "done"]
             /\ UNCHANGED <<kind, db, next, cached, reader, acked, faults>>

\* Variant: a fault that ImplementsContract shows.
FinishPut_counting == /\ call.op = "put" /\ call.pc = "done"
                      /\ next' = IF kind = "memkvs" THEN Cardinality(DOMAIN db) ELSE call.at + 1
                      /\ cached' = cached \cup {call.at}
                      /\ acked' = put_key(acked, call.at, call.v)
                      /\ call' = Idle
                      /\ UNCHANGED <<kind, db, meta, reader, faults>>
\* put returns the next position: MemKVS counts its entries.
FinishPut == /\ call.op = "put" /\ call.pc = "done"
             /\ next' = IF kind = "memkvs" THEN Cardinality(DOMAIN db) + 1 ELSE call.at + 1
             /\ cached' = cached \cup {call.at}
             /\ acked' = put_key(acked, call.at, call.v)
             /\ call' = Idle
             /\ UNCHANGED <<kind, db, meta, reader, faults>>

\* The Slate reads the storage again; when that fails it keeps its position.
FinishTruncate == call.op = "truncate" /\ call.pc = "done" /\ LastSucceeds
FailTruncate == /\ call.op = "truncate" /\ call.pc = "done" /\ ~last_succeeds
                /\ call' = Idle
                /\ UNCHANGED <<kind, db, meta, next, cached, reader, acked, faults>>

\* A write to RocksDB fails; those before it stay.
FailWrite == /\ "write" \in Fault /\ kind = "rocksdb" /\ faults < MaxFaults
             /\ call.pc \in {"entries", "meta"}
             /\ call' = Idle
             /\ faults' = faults + 1
             /\ UNCHANGED <<kind, db, meta, next, cached, reader, acked>>

\* The process ends, between calls or in the middle of one.
Stop == /\ kind = "rocksdb"
        /\ \/ call.op = "idle" /\ UNCHANGED faults
           \/ /\ faults < MaxFaults
              /\ \/ "crash_put" \in Fault /\ call.op = "put"
                 \/ "crash_truncate" \in Fault /\ call.op = "truncate"
              /\ faults' = faults + 1
        /\ call' = Closed /\ cached' = {}
        /\ reader' = [r \in Reader |-> NoScan]
        /\ UNCHANGED <<kind, db, meta, next, acked>>

-----------------------------------------------------------------------------
(* The readers.                                                            *)

StartScan(r, at, count) ==
    /\ call.op # "closed" /\ reader[r].op = "none" /\ may_read
    /\ reader' = [reader EXCEPT ![r] = Scan(at, count, <<>>)]
    /\ UNCHANGED <<kind, db, meta, call, next, cached, acked, faults>>

\* The next entry is passed to the callback, or there is none.
Deliver(r) ==
    /\ reader[r].op = "scan" /\ reader[r].left > 0 /\ reader[r].at \in DOMAIN db
    /\ \E c \in Callback :
          reader' = [reader EXCEPT ![r] =
              [op   |-> IF c = "read" THEN "callback" ELSE "scan",
               at   |-> @.at + 1,
               left |-> @.left - 1,
               got  |-> Append(@.got, db[@.at])]]
    /\ UNCHANGED <<kind, db, meta, call, next, cached, acked, faults>>

\* A callback reads from the storage, through a reader of its own.
ReadInCallback(r) ==
    /\ reader[r].op = "callback" /\ may_read
    /\ reader' = [reader EXCEPT ![r].op = "scan"]
    /\ UNCHANGED <<kind, db, meta, call, next, cached, acked, faults>>

\* Variant: a fault that EveryoneReturns shows.
EndScan_at_count(r) ==
    /\ reader[r].op = "scan" /\ (reader[r].left = 0 \/ reader[r].at \notin DOMAIN db)
    /\ reader' = IF reader[r].left = 0 THEN [reader EXCEPT ![r] = NoScan] ELSE reader
    /\ UNCHANGED <<kind, db, meta, call, next, cached, acked, faults>>
EndScan(r) ==
    /\ reader[r].op = "scan" /\ (reader[r].left = 0 \/ reader[r].at \notin DOMAIN db)
    /\ reader' = [reader EXCEPT ![r] = NoScan]
    /\ UNCHANGED <<kind, db, meta, call, next, cached, acked, faults>>

-----------------------------------------------------------------------------
WriterStep == \/ Acquire \/ WriteEntry \/ DeleteEntry \/ WriteMeta
              \/ FinishPut \/ FinishTruncate \/ FailTruncate
ReaderStep(r) == Deliver(r) \/ ReadInCallback(r) \/ EndScan(r)

Next == \/ Open \/ Stop \/ FailWrite \/ WriterStep
        \/ \E v \in Value : StartPut(v)
        \/ \E i \in 1 .. MaxN : StartTruncate(i)
        \/ \E r \in Reader : ReaderStep(r)
        \/ \E r \in Reader, at \in 1 .. MaxN, count \in 1 .. MaxN : StartScan(r, at, count)

Spec == Init /\ [][Next]_kvVars

\* A thread that has called the storage runs on when it may.
FairSpec == Spec /\ WF_kvVars(WriterStep) /\ \A r \in Reader : WF_kvVars(ReaderStep(r))

-----------------------------------------------------------------------------
(* Properties.                                                             *)

\* What put has returned for is found at its position, whatever is truncated
\* behind it, and whatever fails or crashes (memory.rs:48-52, rocksdb.rs:91-109).
AckedAreStored == \A p \in DOMAIN acked : p \in DOMAIN db /\ db[p] = acked[p]

\* Opening after a crash in put, or after failed writes, counts all that was
\* acknowledged (rocksdb.rs:74-109).
OpenRecovers == [][Open => DOMAIN acked \subseteq 1 .. next' - 1]_kvVars

\* What a scan has delivered is what the storage holds, all of it at the same
\* time: no truncation and no put comes between (memory.rs:84-100, rocksdb.rs:161-181).
ScanSeesOneState ==
    \A r \in Scanning : \A k \in 1 .. Len(reader[r].got) :
        LET p == reader[r].at - Len(reader[r].got) + k - 1
        IN  p \in DOMAIN db /\ db[p] = reader[r].got[k]

\* storage.rs:37: last, called at startup, returns the current data and the next
\* position, at every moment a process may have died; all entries before that
\* position are there.
LastFindsAll ==
    call.op = "closed" => last_succeeds /\ 1 .. last_position - 1 \subseteq DOMAIN db

\* Each call of the writer that has begun returns, and so does each scan
\* (storage.rs:41-61): writers and scans do not keep each other waiting, unless
\* a callback reads from the storage while a writer waits for the lock.  Then
\* both wait forever (memory.rs:89-93, rocksdb.rs:166-173).
CallbackWaits == \E r \in Reader : reader[r].op = "callback" /\ ~may_read
EveryoneReturns ==
    /\ call.op \in {"put", "truncate"} ~> call.op \in {"idle", "closed"} \/ CallbackWaits
    /\ \A r \in Reader : reader[r].op # "none" ~> reader[r].op = "none" \/ CallbackWaits

\* A key-value store is a Storage.
Contract == INSTANCE StorageContract WITH storage <- view
ImplementsContract == Contract!Spec
=============================================================================
