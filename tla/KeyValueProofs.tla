--------------------------- MODULE KeyValueProofs ---------------------------
(***************************************************************************)
(* Scans of a key-value store see one state of it, for any number of       *)
(* readers, any faults and any callbacks.                                  *)
(***************************************************************************)
EXTENDS KeyValueStorage, FiniteSetTheorems, SequenceTheorems, WellFoundedInduction, TLAPS

\* What a set of numbers has instead of induction.
LEMMA LeastElement ==
    ASSUME NEW T \in SUBSET Nat, T # {}
    PROVE  \E x \in T : \A y \in T : x <= y
<1>1. IsWellFoundedOn({ss \in Nat \X Nat : ss[1] < ss[2]}, Nat)
  BY NatLessThanWellFounded DEF OpToRel
<1>2. PICK x \in T : \A y \in T : ~(<<y, x>> \in {ss \in Nat \X Nat : ss[1] < ss[2]})
  BY <1>1, WFMin
<1>3. \A y \in T : ~(y < x)
  BY <1>2
<1>4. \A y \in T : x <= y
  BY <1>3
<1>5. QED
  BY <1>4

\* A scan has passed on what its keys hold, in order.
ScanOK(s) == /\ DOMAIN s = {"op", "at", "left", "got"}
             /\ s.at \in Int
             /\ s.got \in Seq({db[p] : p \in DOMAIN db})
             /\ \A k \in 1 .. Len(s.got) : LET p == s.at - Len(s.got) + k - 1
                                           IN  p \in DOMAIN db /\ db[p] = s.got[k]

\* The inductive invariant: while a writer holds the lock nobody scans.
LockInv == /\ DOMAIN reader = Reader
           /\ \A r \in Reader : ScanOK(reader[r])
           /\ \A r \in Reader : reader[r].op = "none" => reader[r] = NoScan
           /\ call.pc \in {"wait", "entries", "meta", "done"}
           /\ call.pc \in {"entries", "meta"} => Scanning = {}

-----------------------------------------------------------------------------
LEMMA EmptyScanOK == ASSUME NEW s, DOMAIN s = {"op", "at", "left", "got"}, s.at \in Int, s.got = <<>>
                     PROVE  ScanOK(s) /\ ScanOK(s)'
<1>1. s.got \in Seq({db[p] : p \in DOMAIN db}) /\ s.got \in Seq({db'[p] : p \in DOMAIN db'})
  OBVIOUS
<1>2. Len(s.got) = 0 /\ 1 .. 0 = {}
  OBVIOUS
<1>3. QED
  BY <1>1, <1>2 DEF ScanOK

LEMMA LockInvInit == Init => LockInv
<1> SUFFICES ASSUME Init PROVE LockInv
  OBVIOUS
<1>1. DOMAIN reader = Reader /\ \A r \in Reader : reader[r] = NoScan
  BY DEF Init
<1>2. ScanOK(NoScan)
  BY EmptyScanOK DEF NoScan
<1>3. call.pc = "done"
  BY DEF Init, Closed, Call
<1>4. QED
  BY <1>1, <1>2, <1>3 DEF LockInv

\* A step of the writer that leaves the map alone.
LEMMA OtherWriterSteps ==
    ASSUME LockInv, UNCHANGED <<db, reader>>,
           call'.pc \in {"wait", "entries", "meta", "done"},
           call'.pc \in {"entries", "meta"} => Scanning = {}
    PROVE  LockInv'
<1>1. ASSUME NEW r \in Reader PROVE ScanOK(reader[r])'
  <2>1. db' = db /\ reader' = reader /\ ScanOK(reader[r])
    BY DEF LockInv
  <2>2. {db'[p] : p \in DOMAIN db'} = {db[p] : p \in DOMAIN db}
    BY <2>1
  <2>3. QED
    BY <2>1, <2>2 DEF ScanOK
<1>2. Scanning' = Scanning
  BY DEF Scanning
<1>3. QED
  BY <1>1, <1>2 DEF LockInv

\* A step of the writer that changes the map, under the lock.
LEMMA ChangeUnderLock ==
    ASSUME LockInv, call.pc = "entries", UNCHANGED reader,
           call'.pc \in {"entries", "meta", "done"}
    PROVE  LockInv'
<1>1. Scanning = {} /\ Scanning' = {}
  BY DEF LockInv, Scanning
<1>2. \A r \in Reader : reader[r] = NoScan
  BY <1>1 DEF LockInv, Scanning
<1>3. ScanOK(NoScan)'
  BY EmptyScanOK DEF NoScan
<1>4. \A r \in Reader : reader'[r] = NoScan
  BY <1>2
<1>5. \A r \in Reader : ScanOK(reader[r])'
  BY <1>2, <1>3, <1>4 DEF ScanOK
<1>6. QED
  BY <1>1, <1>4, <1>5 DEF LockInv

\* A step of one reader, while nobody holds the lock to write.
LEMMA ReaderSteps ==
    ASSUME LockInv, UNCHANGED <<db, call>>, NEW r \in Reader, NEW s,
           call.pc \notin {"entries", "meta"},
           reader' = [reader EXCEPT ![r] = s], ScanOK(s), s.op = "none" => s = NoScan
    PROVE  LockInv'
<1>1. DOMAIN reader' = Reader /\ \A q \in Reader : reader'[q] = IF q = r THEN s ELSE reader[q]
  BY DEF LockInv
<1>2. \A q \in Reader : ScanOK(reader[q])'
  BY <1>1 DEF LockInv, ScanOK
<1>3. QED
  BY <1>1, <1>2 DEF LockInv

LEMMA DeliverStep == ASSUME LockInv, NEW r \in Reader, Deliver(r) PROVE LockInv'
<1> DEFINE t == reader[r]
<1>1. PICK c \in Callback :
         reader' = [reader EXCEPT ![r] = [op   |-> IF c = "read" THEN "callback" ELSE "scan",
                                          at   |-> t.at + 1,
                                          left |-> t.left - 1,
                                          got  |-> Append(t.got, db[t.at])]]
  BY DEF Deliver, LockInv
<1> DEFINE s == [op   |-> IF c = "read" THEN "callback" ELSE "scan",
                 at   |-> t.at + 1,
                 left |-> t.left - 1,
                 got  |-> Append(t.got, db[t.at])]
           V == {db[p] : p \in DOMAIN db}
<1>2. t.op = "scan" /\ t.at \in DOMAIN db /\ UNCHANGED <<db, call>>
  BY DEF Deliver
<1>3. r \in Scanning /\ call.pc \notin {"entries", "meta"}
  BY <1>2 DEF Scanning, LockInv
<1>4. ScanOK(t)
  BY DEF LockInv
<1>5. t.got \in Seq(V) /\ db[t.at] \in V /\ Len(t.got) \in Nat
  BY <1>2, <1>4 DEF ScanOK
<1> HIDE DEF V
<1>6. /\ s.got \in Seq(V) /\ Len(s.got) = Len(t.got) + 1
      /\ s.got[Len(t.got) + 1] = db[t.at]
      /\ \A k \in 1 .. Len(t.got) : s.got[k] = t.got[k]
  BY <1>5, AppendProperties
<1>7. ASSUME NEW k \in 1 .. Len(s.got)
      PROVE  s.at - Len(s.got) + k - 1 \in DOMAIN db /\ db[s.at - Len(s.got) + k - 1] = s.got[k]
  <2>1. s.at - Len(s.got) + k - 1 = t.at - Len(t.got) + k - 1
    BY <1>4, <1>5, <1>6 DEF ScanOK
  <2>2. CASE k = Len(t.got) + 1
    <3>1. t.at - Len(t.got) + k - 1 = t.at
      BY <2>2, <1>4, <1>5 DEF ScanOK
    <3>2. QED
      BY <2>1, <2>2, <3>1, <1>2, <1>6
  <2>3. CASE k \in 1 .. Len(t.got)
    BY <2>1, <2>3, <1>4, <1>6 DEF ScanOK
  <2>4. QED
    BY <2>2, <2>3, <1>5, <1>6
<1>8. ScanOK(s)
  BY <1>4, <1>6, <1>7 DEF ScanOK, V
<1>9. s.op # "none"
  OBVIOUS
<1>10. reader' = [reader EXCEPT ![r] = s]
  BY <1>1
<1> HIDE DEF s, t
<1>11. QED
  BY <1>2, <1>3, <1>8, <1>9, <1>10, ReaderSteps

LEMMA LockInvStep == LockInv /\ [Next]_kvVars => LockInv'
<1> SUFFICES ASSUME LockInv, [Next]_kvVars PROVE LockInv'
  OBVIOUS
<1>1. CASE Open
  BY <1>1, OtherWriterSteps DEF Open, LastSucceeds, Idle, Closed, Call
<1>2. CASE Stop
  <2>1. call'.pc = "done" /\ reader' = [r \in Reader |-> NoScan]
    BY <1>2 DEF Stop, Closed, Call
  <2>2. ScanOK(NoScan)'
    BY EmptyScanOK DEF NoScan
  <2>3. \A r \in Reader : ScanOK(reader[r])'
    BY <2>1, <2>2 DEF ScanOK
  <2>4. QED
    BY <2>1, <2>3 DEF LockInv
<1>3. CASE FailWrite
  BY <1>3, OtherWriterSteps DEF FailWrite, Idle, Closed, Call
<1>4. ASSUME NEW v \in Value, StartPut(v) PROVE LockInv'
  BY <1>4, OtherWriterSteps DEF StartPut, Call
<1>5. ASSUME NEW i \in 1 .. MaxN, StartTruncate(i) PROVE LockInv'
  BY <1>5, OtherWriterSteps DEF StartTruncate, Call
<1>6. CASE Acquire
  BY <1>6, OtherWriterSteps DEF Acquire, may_write, LockInv, Scanning
<1>7. CASE WriteEntry
  BY <1>7, ChangeUnderLock DEF WriteEntry, after_entries
<1>8. CASE DeleteEntry
  <2>1. call.pc = "entries" /\ UNCHANGED reader
    BY <1>8 DEF DeleteEntry
  <2>2. CASE call' = [call EXCEPT !.p = @ + 1]
    <3>1. call'.pc = "entries"
      BY <2>1, <2>2
    <3>2. QED
      BY <2>1, <3>1, ChangeUnderLock
  <2>3. CASE call' = [call EXCEPT !.pc = after_entries]
    <3>1. call'.pc \in {"meta", "done"}
      BY <2>3 DEF after_entries
    <3>2. QED
      BY <2>1, <3>1, ChangeUnderLock
  <2>4. QED
    BY <1>8, <2>2, <2>3 DEF DeleteEntry
<1>9. CASE WriteMeta
  BY <1>9, OtherWriterSteps DEF WriteMeta
<1>10. CASE FinishPut
  BY <1>10, OtherWriterSteps DEF FinishPut, Idle, Closed, Call
<1>11. CASE FinishTruncate
  BY <1>11, OtherWriterSteps DEF FinishTruncate, LastSucceeds, Idle, Closed, Call
<1>12. CASE FailTruncate
  BY <1>12, OtherWriterSteps DEF FailTruncate, Idle, Closed, Call
<1>13. ASSUME NEW r \in Reader, Deliver(r) PROVE LockInv'
  BY <1>13, DeliverStep
<1>14. ASSUME NEW r \in Reader, ReadInCallback(r) PROVE LockInv'
  <2> DEFINE s == [reader[r] EXCEPT !.op = "scan"]
  <2>1. ScanOK(reader[r]) /\ DOMAIN reader = Reader
    BY DEF LockInv
  <2>2. ScanOK(s) /\ s.op = "scan"
    BY <2>1 DEF ScanOK
  <2>3. reader' = [reader EXCEPT ![r] = s]
    BY <1>14, <2>1 DEF ReadInCallback
  <2>4. UNCHANGED <<db, call>> /\ call.pc = "done"
    BY <1>14 DEF ReadInCallback, may_read
  <2> HIDE DEF s
  <2>5. QED
    BY <2>2, <2>3, <2>4, ReaderSteps
<1>15. ASSUME NEW r \in Reader, EndScan(r) PROVE LockInv'
  <2>1. ScanOK(NoScan)
    BY EmptyScanOK DEF NoScan
  <2>2. r \in Scanning
    BY <1>15 DEF EndScan, Scanning
  <2>3. QED
    BY <1>15, <2>1, <2>2, ReaderSteps DEF EndScan, LockInv
<1>16. ASSUME NEW r \in Reader, NEW at \in 1 .. MaxN, NEW count \in 1 .. MaxN, StartScan(r, at, count)
       PROVE  LockInv'
  <2>1. ScanOK(Scan(at, count, <<>>)) /\ Scan(at, count, <<>>).op = "scan"
    BY EmptyScanOK DEF Scan
  <2>2. QED
    BY <1>16, <2>1, ReaderSteps DEF StartScan, may_read
<1>17. CASE UNCHANGED kvVars
  BY <1>17, OtherWriterSteps DEF kvVars, LockInv
<1>18. QED
  BY <1>1, <1>2, <1>3, <1>4, <1>5, <1>6, <1>7, <1>8, <1>9, <1>10, <1>11, <1>12, <1>13, <1>14,
     <1>15, <1>16, <1>17 DEF Next, WriterStep, ReaderStep

LEMMA LockInvSeesOneState == LockInv => ScanSeesOneState
BY DEF LockInv, ScanSeesOneState, ScanOK, Scanning

\* What a scan has passed on is what the storage holds, all of it at the same
\* time, for any number of scans beside puts, truncations, failing writes and
\* crashes: the read lock is held from the first entry to the last
\* (memory.rs:84-100, rocksdb.rs:161-181).
THEOREM ScansSeeOneState == Spec => []ScanSeesOneState
<1>1. QED
  BY LockInvInit, LockInvStep, LockInvSeesOneState, PTL DEF Spec

-----------------------------------------------------------------------------
(* What is acknowledged is stored.                                         *)

\* The next position that RocksDB has on record.
recorded == IF meta = NoMeta THEN 1 ELSE meta

CallType == [op : {"closed", "idle", "put", "truncate"}, pc : {"wait", "entries", "meta", "done"},
             at : Nat, p : Nat, v : Value \cup {NoValue}]

StoreTypes == /\ kind \in {"memkvs", "rocksdb"}
              /\ DOMAIN db \subseteq 1 .. MaxN /\ \A p \in DOMAIN db : db[p] \in Value
              /\ meta \in Nat \ {1}
              /\ call \in CallType
              /\ next \in Nat
              /\ call.op # "closed" => next >= 1
              /\ call.op \in {"closed", "idle"} => call.pc = "done"
              /\ call.op = "put" => call.v \in Value

\* An acknowledged entry lies before the position on record and before the next
\* one, so that no put writes over it.
AckInv == \A p \in DOMAIN acked : /\ p \in DOMAIN db /\ acked[p] = db[p]
                                  /\ kind = "rocksdb" => p < recorded
                                  /\ call.op # "closed" => p < next

PutInv == call.op = "put" =>
              /\ call.at = next /\ next <= MaxN
              /\ call.pc \in {"meta", "done"} => next \in DOMAIN db /\ db[next] = call.v
              /\ kind = "rocksdb" /\ call.pc = "done" => recorded = next + 1

CutInv == call.op = "truncate" =>
              /\ 1 <= call.at /\ call.at < next /\ call.at <= call.p
              /\ call.pc = "wait" => call.p = call.at
              /\ \A p \in DOMAIN acked : p < call.at

\* Which keys MemKVS has, at each moment of a call: it counts them.
KeysInv == kind = "memkvs" =>
              /\ call.pc # "meta"
              /\ call.op = "closed" => DOMAIN db = {}
              /\ call.op = "idle" => DOMAIN db = 1 .. next - 1
              /\ call.op = "put" => DOMAIN db = 1 .. (IF call.pc = "done" THEN next ELSE next - 1)
              /\ call.op = "truncate" =>
                    DOMAIN db = (1 .. call.at - 1)
                                \cup (IF call.pc = "done" THEN {} ELSE call.p .. next - 1)

AckedInv == StoreTypes /\ AckInv /\ PutInv /\ CutInv /\ KeysInv

LEMMA AckedInvInit == Init => AckedInv
<1> SUFFICES ASSUME Init PROVE AckedInv
  OBVIOUS
<1>1. /\ kind \in {"memkvs", "rocksdb"} /\ DOMAIN db = {} /\ DOMAIN acked = {}
      /\ meta = 0 /\ next = 0 /\ call \in CallType /\ call.op = "closed" /\ call.pc = "done"
  BY KeyValueAssumption DEF Init, NoMeta, Closed, Call, CallType
<1>2. QED
  BY <1>1 DEF AckedInv, StoreTypes, AckInv, PutInv, CutInv, KeysInv

\* What a call is while it goes on.
LEMMA CallFields ==
    ASSUME call \in CallType
    PROVE  /\ \A pc \in {"wait", "entries", "meta", "done"} :
                 LET c == [call EXCEPT !.pc = pc]
                 IN  /\ c \in CallType /\ c.pc = pc /\ c.op = call.op
                     /\ c.at = call.at /\ c.p = call.p /\ c.v = call.v
           /\ LET c == [call EXCEPT !.p = @ + 1]
              IN  /\ c \in CallType /\ c.pc = call.pc /\ c.op = call.op
                  /\ c.at = call.at /\ c.p = call.p + 1 /\ c.v = call.v
BY DEF CallType

LEMMA RestCalls == /\ Idle \in CallType /\ Idle.op = "idle" /\ Idle.pc = "done"
                   /\ Closed \in CallType /\ Closed.op = "closed" /\ Closed.pc = "done"
BY DEF Idle, Closed, Call, CallType

\* Reading the storage, when it is opened or after a truncation.
LEMMA LastSucceedsKeeps ==
    ASSUME AckedInv, LastSucceeds, call.op = "closed" \/ (call.op = "truncate" /\ call.pc = "done")
    PROVE  AckedInv' /\ DOMAIN acked \subseteq 1 .. next' - 1
<1> USE DEF AckedInv
<1>1. /\ UNCHANGED <<kind, db, meta>> /\ next' = last_position
      /\ call' \in CallType /\ call'.op = "idle" /\ call'.pc = "done"
  BY RestCalls DEF LastSucceeds
<1>2. /\ next' \in Nat /\ next' >= 1
      /\ \A p \in DOMAIN acked : p < next'
      /\ kind = "rocksdb" => next' = recorded /\ (next' - 1 \in DOMAIN db \/ next' = 1)
      /\ kind = "memkvs" => DOMAIN db = 1 .. next' - 1
  <2>1. CASE kind = "rocksdb"
    BY <1>1, <2>1 DEF last_position, StoreTypes, AckInv, recorded, NoMeta, last_succeeds, LastSucceeds
  <2>2. CASE kind = "memkvs"
    <3>1. PICK m \in Nat : DOMAIN db = 1 .. m
      <4>1. CASE call.op = "closed"
        <5>1. DOMAIN db = 1 .. 0
          BY <2>2, <4>1 DEF KeysInv
        <5>2. QED
          BY <5>1
      <4>2. CASE call.op = "truncate"
        <5>1. DOMAIN db = 1 .. call.at - 1 /\ call.at \in Nat /\ 1 <= call.at
          BY <2>2, <4>2 DEF KeysInv, CutInv, StoreTypes, CallType
        <5>2. QED
          BY <5>1
      <4>3. QED
        BY <4>1, <4>2
    <3>2. next' = m + 1
      BY <1>1, <2>2, <3>1, FS_Interval DEF last_position
    <3>3. \A p \in DOMAIN acked : p \in 1 .. m
      BY <3>1 DEF AckInv
    <3>4. QED
      BY <2>2, <3>1, <3>2, <3>3
  <2>3. QED
    BY <2>1, <2>2 DEF StoreTypes
<1>3. /\ DOMAIN acked' \subseteq DOMAIN acked \cup {next' - 1}
      /\ \A p \in DOMAIN acked' : p \in DOMAIN db /\ acked'[p] = db[p]
  <2>1. CASE next' - 1 \in DOMAIN acked \cup {0}
    BY <2>1 DEF AckInv, LastSucceeds
  <2>2. CASE next' - 1 \notin DOMAIN acked \cup {0}
    <3>1. acked' = put_key(acked, next' - 1, db[next' - 1])
      BY <2>2 DEF LastSucceeds
    <3>2. next' - 1 \in DOMAIN db
      BY <1>2, <2>2 DEF StoreTypes
    <3>3. QED
      BY <3>1, <3>2 DEF put_key, AckInv
  <2>3. QED
    BY <2>1, <2>2
<1>4. DOMAIN acked \subseteq 1 .. next' - 1
  BY <1>2 DEF AckInv, StoreTypes
<1>5. StoreTypes'
  BY <1>1, <1>2 DEF StoreTypes
<1>6. AckInv'
  BY <1>1, <1>2, <1>3 DEF AckInv, recorded
<1>7. KeysInv'
  BY <1>1, <1>2 DEF KeysInv
<1>8. QED
  BY <1>1, <1>4, <1>5, <1>6, <1>7 DEF PutInv, CutInv

LEMMA StartPutKeeps == ASSUME AckedInv, NEW v \in Value, StartPut(v) PROVE AckedInv'
<1> USE DEF AckedInv
<1>1. /\ call.op = "idle" /\ next \in 1 .. MaxN
      /\ UNCHANGED <<kind, db, meta, next, acked>>
  BY StorageAssumption DEF StartPut, StoreTypes
<1>2. /\ call' \in CallType /\ call'.op = "put" /\ call'.pc = "wait"
      /\ call'.at = next /\ call'.v = v
  BY <1>1 DEF StartPut, Call, CallType
<1>3. StoreTypes' /\ PutInv' /\ CutInv'
  BY <1>1, <1>2 DEF StoreTypes, PutInv, CutInv
<1>4. AckInv' /\ KeysInv'
  BY <1>1, <1>2 DEF AckInv, KeysInv, recorded
<1>5. QED
  BY <1>3, <1>4

LEMMA StartTruncateKeeps == ASSUME AckedInv, NEW i \in 1 .. MaxN, StartTruncate(i) PROVE AckedInv'
<1> USE DEF AckedInv
<1>1. /\ call.op = "idle" /\ i < next /\ i \in Nat /\ i >= 1
      /\ UNCHANGED <<kind, db, meta, next>>
      /\ DOMAIN acked' = {q \in DOMAIN acked : q < i}
      /\ \A q \in DOMAIN acked' : acked'[q] = acked[q]
  BY StorageAssumption DEF StartTruncate
<1>2. /\ call' \in CallType /\ call'.op = "truncate" /\ call'.pc = "wait"
      /\ call'.at = i /\ call'.p = i
  BY <1>1 DEF StartTruncate, Call, CallType
<1>3. StoreTypes' /\ PutInv' /\ CutInv'
  BY <1>1, <1>2 DEF StoreTypes, PutInv, CutInv
<1>4. AckInv'
  BY <1>1, <1>2 DEF AckInv, recorded
<1>5. KeysInv'
  <2>1. ASSUME kind = "memkvs" PROVE DOMAIN db = (1 .. i - 1) \cup (i .. next - 1)
    <3>1. DOMAIN db = 1 .. next - 1
      BY <1>1, <2>1 DEF KeysInv
    <3>2. QED
      BY <1>1, <3>1 DEF StoreTypes
  <2>2. QED
    BY <1>1, <1>2, <2>1 DEF KeysInv
<1>6. QED
  BY <1>3, <1>4, <1>5

LEMMA AcquireKeeps == ASSUME AckedInv, Acquire PROVE AckedInv'
<1> USE DEF AckedInv
<1> DEFINE pc == IF call.op = "truncate" /\ kind = "rocksdb" /\ call.at >= last_position
                 THEN "done" ELSE "entries"
<1>1. /\ UNCHANGED <<kind, db, meta, next, acked>> /\ call.pc = "wait"
      /\ call' = [call EXCEPT !.pc = pc]
  BY DEF Acquire, may_write
<1>2. /\ pc \in {"done", "entries"}
      /\ call.op # "truncate" \/ kind = "memkvs" => pc = "entries"
  BY DEF StoreTypes
<1> HIDE DEF pc
<1>3. /\ call' \in CallType /\ call'.pc = pc /\ call'.op = call.op
      /\ call'.at = call.at /\ call'.p = call.p /\ call'.v = call.v
  BY <1>1, <1>2, CallFields DEF StoreTypes
<1>4. call.op \in {"put", "truncate"}
  BY <1>1 DEF StoreTypes, CallType
<1>5. StoreTypes' /\ PutInv' /\ CutInv'
  BY <1>1, <1>2, <1>3, <1>4 DEF StoreTypes, PutInv, CutInv
<1>6. AckInv' /\ KeysInv'
  BY <1>1, <1>2, <1>3, <1>4 DEF AckInv, KeysInv, recorded
<1>7. QED
  BY <1>5, <1>6

LEMMA WriteEntryKeeps == ASSUME AckedInv, WriteEntry PROVE AckedInv'
<1> USE DEF AckedInv
<1>1. /\ UNCHANGED <<kind, meta, next, acked>> /\ call.pc = "entries" /\ call.op = "put"
      /\ call' = [call EXCEPT !.pc = after_entries]
      /\ call.at = next /\ next \in 1 .. MaxN /\ call.v \in Value
  BY StorageAssumption DEF WriteEntry, PutInv, StoreTypes
<1>2. DOMAIN db' = DOMAIN db \cup {next} /\ \A q \in DOMAIN db' : db'[q] = IF q = next THEN call.v ELSE db[q]
  BY <1>1 DEF WriteEntry, put_key
<1>3. after_entries = IF kind = "memkvs" THEN "done" ELSE "meta"
  BY DEF after_entries
<1>4. /\ call' \in CallType /\ call'.pc = after_entries /\ call'.op = "put"
      /\ call'.at = next /\ call'.v = call.v
  BY <1>1, <1>3, CallFields DEF StoreTypes
<1>5. StoreTypes' /\ PutInv' /\ CutInv'
  BY <1>1, <1>2, <1>3, <1>4 DEF StoreTypes, PutInv, CutInv
<1>6. AckInv'
  <2>1. \A p \in DOMAIN acked : p # next
    BY <1>1 DEF AckInv, StoreTypes
  <2>2. QED
    BY <1>1, <1>2, <1>4, <2>1 DEF AckInv, recorded
<1>7. KeysInv'
  <2>1. ASSUME kind = "memkvs" PROVE DOMAIN db' = 1 .. next
    <3>1. DOMAIN db = 1 .. next - 1
      BY <1>1, <2>1 DEF KeysInv
    <3>2. QED
      BY <1>1, <1>2, <3>1
  <2>2. QED
    BY <1>1, <1>3, <1>4, <2>1 DEF KeysInv
<1>8. QED
  BY <1>5, <1>6, <1>7

LEMMA DeleteEntryKeeps == ASSUME AckedInv, DeleteEntry PROVE AckedInv'
<1> USE DEF AckedInv
<1>1. /\ UNCHANGED <<kind, meta, next, acked>> /\ call.pc = "entries" /\ call.op = "truncate"
  BY DEF DeleteEntry
<1>2. /\ call.at \in Nat /\ call.p \in Nat /\ 1 <= call.at /\ call.at < next /\ call.at <= call.p
      /\ \A p \in DOMAIN acked : p < call.at /\ p \in Nat
      /\ next \in Nat
  BY <1>1 DEF CutInv, StoreTypes, CallType, AckInv
<1>3. CASE call.p \in DOMAIN db
  <2>1. DOMAIN db' = DOMAIN db \ {call.p} /\ \A q \in DOMAIN db' : db'[q] = db[q]
    BY <1>3 DEF DeleteEntry, key_to_delete, remove_key
  <2>2. /\ call' \in CallType /\ call'.pc = "entries" /\ call'.op = "truncate"
        /\ call'.at = call.at /\ call'.p = call.p + 1
    BY <1>1, <1>3, CallFields DEF DeleteEntry, key_to_delete, StoreTypes
  <2>3. StoreTypes' /\ PutInv' /\ CutInv'
    BY <1>1, <1>2, <2>1, <2>2 DEF StoreTypes, PutInv, CutInv
  <2>4. AckInv'
    BY <1>1, <1>2, <2>1, <2>2 DEF AckInv, recorded
  <2>5. KeysInv'
    <3>1. ASSUME kind = "memkvs"
          PROVE  DOMAIN db' = (1 .. call.at - 1) \cup (call.p + 1 .. next - 1)
      <4>1. DOMAIN db = (1 .. call.at - 1) \cup (call.p .. next - 1)
        BY <1>1, <3>1 DEF KeysInv
      <4>2. QED
        BY <1>2, <2>1, <4>1
    <3>2. QED
      BY <1>1, <2>2, <3>1 DEF KeysInv
  <2>6. QED
    BY <2>3, <2>4, <2>5
<1>4. CASE call.p \notin DOMAIN db
  <2>1. db' = db /\ call' = [call EXCEPT !.pc = after_entries]
    BY <1>4 DEF DeleteEntry, key_to_delete
  <2>2. after_entries = IF kind = "memkvs" THEN "done" ELSE "meta"
    BY DEF after_entries
  <2>3. /\ call' \in CallType /\ call'.pc = after_entries /\ call'.op = "truncate"
        /\ call'.at = call.at /\ call'.p = call.p
    BY <1>1, <2>1, <2>2, CallFields DEF StoreTypes
  <2>4. StoreTypes' /\ PutInv' /\ CutInv'
    BY <1>1, <1>2, <2>1, <2>2, <2>3 DEF StoreTypes, PutInv, CutInv
  <2>5. AckInv'
    BY <1>1, <1>2, <2>1, <2>3 DEF AckInv, recorded
  <2>6. KeysInv'
    <3>1. ASSUME kind = "memkvs" PROVE DOMAIN db = 1 .. call.at - 1
      <4>1. DOMAIN db = (1 .. call.at - 1) \cup (call.p .. next - 1)
        BY <1>1, <3>1 DEF KeysInv
      <4>2. ~(call.p <= next - 1)
        BY <1>2, <1>4, <4>1
      <4>3. QED
        BY <1>2, <4>1, <4>2
    <3>2. QED
      BY <1>1, <2>1, <2>2, <2>3, <3>1 DEF KeysInv
  <2>7. QED
    BY <2>4, <2>5, <2>6
<1>5. QED
  BY <1>3, <1>4

LEMMA WriteMetaKeeps == ASSUME AckedInv, WriteMeta PROVE AckedInv'
<1> USE DEF AckedInv
<1> DEFINE n == IF call.op = "put" THEN call.at + 1 ELSE call.at
<1>1. /\ UNCHANGED <<kind, db, next, acked>> /\ call.pc = "meta" /\ meta' = metadata(n)
      /\ call.op \in {"put", "truncate"} /\ kind = "rocksdb"
  BY DEF WriteMeta, StoreTypes, CallType, KeysInv
<1>2. /\ call' \in CallType /\ call'.pc = "done" /\ call'.op = call.op
      /\ call'.at = call.at /\ call'.p = call.p /\ call'.v = call.v
  BY CallFields DEF WriteMeta, StoreTypes
<1>3. /\ n \in Nat /\ n >= 1
      /\ call.op = "put" => n = next + 1 /\ next \in Nat
      /\ call.op = "truncate" => n = call.at
  BY <1>1 DEF PutInv, CutInv, StoreTypes, CallType
<1> HIDE DEF n
<1>4. meta' \in Nat \ {1} /\ recorded' = n
  BY <1>1, <1>3 DEF metadata, recorded, NoMeta
<1>5. StoreTypes' /\ PutInv' /\ CutInv' /\ KeysInv'
  BY <1>1, <1>2, <1>3, <1>4 DEF StoreTypes, PutInv, CutInv, KeysInv
<1>6. AckInv'
  <2>1. ASSUME NEW p \in DOMAIN acked PROVE p < n
    <3>1. p \in Nat
      BY DEF AckInv, StoreTypes
    <3>2. CASE call.op = "put"
      BY <1>1, <1>3, <3>1, <3>2 DEF AckInv
    <3>3. CASE call.op = "truncate"
      BY <1>3, <3>3 DEF CutInv
    <3>4. QED
      BY <1>1, <3>2, <3>3
  <2>2. QED
    BY <1>1, <1>2, <1>4, <2>1 DEF AckInv
<1>7. QED
  BY <1>5, <1>6

LEMMA FinishPutKeeps == ASSUME AckedInv, FinishPut PROVE AckedInv'
<1> USE DEF AckedInv
<1>1. /\ UNCHANGED <<kind, db, meta>> /\ call.op = "put" /\ call.pc = "done"
      /\ acked' = put_key(acked, call.at, call.v) /\ call.at = next
      /\ next \in DOMAIN db /\ db[next] = call.v /\ next \in Nat /\ next >= 1
      /\ kind = "rocksdb" => recorded = next + 1
  BY DEF FinishPut, PutInv, StoreTypes
<1>2. call' \in CallType /\ call'.op = "idle" /\ call'.pc = "done"
  BY RestCalls DEF FinishPut
<1>3. next' = next + 1 /\ (kind = "memkvs" => DOMAIN db = 1 .. next)
  <2>1. ASSUME kind = "memkvs" PROVE DOMAIN db = 1 .. next
    BY <1>1, <2>1 DEF KeysInv
  <2>2. kind = "memkvs" => Cardinality(DOMAIN db) = next
    BY <1>1, <2>1, FS_Interval
  <2>3. next' = IF kind = "memkvs" THEN Cardinality(DOMAIN db) + 1 ELSE call.at + 1
    BY DEF FinishPut
  <2>4. QED
    BY <1>1, <2>1, <2>2, <2>3
<1>4. /\ DOMAIN acked' = DOMAIN acked \cup {next}
      /\ \A p \in DOMAIN acked' : acked'[p] = IF p = next THEN call.v ELSE acked[p]
  BY <1>1 DEF put_key
<1>5. StoreTypes' /\ PutInv' /\ CutInv' /\ KeysInv'
  BY <1>1, <1>2, <1>3 DEF StoreTypes, PutInv, CutInv, KeysInv
<1>6. AckInv'
  <2>1. ASSUME NEW p \in DOMAIN acked
        PROVE  p \in DOMAIN db /\ acked[p] = db[p] /\ p < next' /\ p # next
    <3>1. p \in Nat /\ p < next
      BY <1>1 DEF AckInv, StoreTypes
    <3>2. QED
      BY <1>1, <1>3, <3>1 DEF AckInv
  <2>2. ASSUME NEW p \in DOMAIN acked', kind = "rocksdb" PROVE p < recorded
    BY <1>1, <1>4, <2>2 DEF AckInv
  <2>3. QED
    BY <1>1, <1>3, <1>4, <2>1, <2>2 DEF AckInv, recorded
<1>7. QED
  BY <1>5, <1>6

\* A step that leaves the entries and the next position alone and ends the
\* call, if anything, in the middle.
LEMMA EndingKeeps ==
    ASSUME AckedInv, UNCHANGED <<kind, db, meta, next, acked>>,
           \/ call' = call
           \/ call' = Closed /\ kind = "rocksdb"
           \/ call' = Idle /\ kind = "rocksdb" /\ call.op # "closed"
    PROVE  AckedInv'
<1> USE DEF AckedInv
<1>1. CASE call' = call
  BY <1>1 DEF StoreTypes, AckInv, PutInv, CutInv, KeysInv, recorded
<1>2. CASE call' # call
  <2>1. /\ call' \in CallType /\ call'.pc = "done" /\ call'.op \in {"closed", "idle"}
        /\ call'.op = "idle" => call.op # "closed"
    BY <1>2, RestCalls
  <2>2. StoreTypes' /\ AckInv' /\ PutInv' /\ CutInv' /\ KeysInv'
    BY <1>2, <2>1 DEF StoreTypes, AckInv, PutInv, CutInv, KeysInv, recorded
  <2>3. QED
    BY <2>2
<1>3. QED
  BY <1>1, <1>2

LEMMA AckedInvStep == AckedInv /\ [Next]_kvVars => AckedInv'
<1> SUFFICES ASSUME AckedInv, [Next]_kvVars PROVE AckedInv'
  OBVIOUS
<1>1. CASE Open
  BY <1>1, LastSucceedsKeeps DEF Open
<1>2. CASE Stop
  BY <1>2, EndingKeeps DEF Stop
<1>3. CASE FailWrite
  BY <1>3, EndingKeeps DEF FailWrite, AckedInv, StoreTypes
<1>4. ASSUME NEW v \in Value, StartPut(v) PROVE AckedInv'
  BY <1>4, StartPutKeeps
<1>5. ASSUME NEW i \in 1 .. MaxN, StartTruncate(i) PROVE AckedInv'
  BY <1>5, StartTruncateKeeps
<1>6. CASE Acquire \/ WriteEntry \/ DeleteEntry \/ WriteMeta \/ FinishPut
  BY <1>6, AcquireKeeps, WriteEntryKeeps, DeleteEntryKeeps, WriteMetaKeeps, FinishPutKeeps
<1>7. CASE FinishTruncate
  BY <1>7, LastSucceedsKeeps DEF FinishTruncate
<1>8. CASE FailTruncate
  <2>1. kind = "rocksdb"
    BY <1>8 DEF FailTruncate, last_succeeds
  <2>2. QED
    BY <1>8, <2>1, EndingKeeps DEF FailTruncate
<1>9. ASSUME NEW r \in Reader, ReaderStep(r) PROVE AckedInv'
  BY <1>9, EndingKeeps DEF ReaderStep, Deliver, ReadInCallback, EndScan
<1>10. ASSUME NEW r \in Reader, NEW at \in 1 .. MaxN, NEW count \in 1 .. MaxN, StartScan(r, at, count)
       PROVE  AckedInv'
  BY <1>10, EndingKeeps DEF StartScan
<1>11. CASE UNCHANGED kvVars
  BY <1>11, EndingKeeps DEF kvVars
<1>12. QED
  BY <1>1, <1>2, <1>3, <1>4, <1>5, <1>6, <1>7, <1>8, <1>9, <1>10, <1>11 DEF Next, WriterStep

\* What put has returned for is found at its position as long as nobody truncates
\* before it, for any number of failing writes and of crashes at any moment, also in
\* the middle of a truncation, and for any calls after them (memory.rs:48-81,
\* rocksdb.rs:91-134).
THEOREM AcknowledgedStay == Spec => []AckedAreStored
<1>1. AckedInv => AckedAreStored
  BY DEF AckedInv, AckInv, AckedAreStored
<1>2. QED
  BY <1>1, AckedInvInit, AckedInvStep, PTL DEF Spec

\* Whatever failed or crashed before, opening the storage counts every entry that
\* put has returned for (memory.rs:36-45, rocksdb.rs:74-90).
THEOREM OpeningRecovers == Spec => OpenRecovers
<1>1. AckedInv /\ [Next]_kvVars => [Open => DOMAIN acked \subseteq 1 .. next' - 1]_kvVars
  BY LastSucceedsKeeps DEF Open
<1>2. QED
  BY <1>1, AckedInvInit, AckedInvStep, PTL DEF Spec, OpenRecovers

-----------------------------------------------------------------------------
(* A key-value store implements the contract of storages.                  *)

\* The position RocksDB has on record is the next one, or behind a missing key:
\* then a truncation did not get to its end, and neither the entries behind that
\* key nor those put after it belong to the storage.
RecordInv == kind = "rocksdb" /\ call.op # "closed" =>
    /\ call.op # "put" \/ call.pc # "done" => recorded <= next
    /\ call.op = "idle" \/ call.pc # "done" => \/ recorded >= next
                                               \/ \E h \in 1 .. recorded - 1 : h \notin DOMAIN db
    /\ call.op = "truncate" /\ call.pc \in {"entries", "meta"} => call.at < recorded
    /\ call.op = "truncate" /\ (call.pc = "meta" \/ (call.pc = "entries" /\ call.p > call.at))
          => call.at \notin DOMAIN db

LEMMA RecordInvInit == Init => RecordInv
BY DEF Init, RecordInv, Closed, Call

LEMMA RecordedType == StoreTypes => recorded \in Nat /\ recorded >= 1
BY DEF StoreTypes, recorded, NoMeta

LEMMA RecordInvStep == AckedInv /\ RecordInv /\ [Next]_kvVars => RecordInv'
<1> SUFFICES ASSUME AckedInv, RecordInv, [Next]_kvVars PROVE RecordInv'
  OBVIOUS
<1> USE DEF AckedInv
<1>1. /\ recorded \in Nat /\ recorded >= 1 /\ next \in Nat
      /\ call \in CallType /\ call.at \in Nat /\ call.p \in Nat
      /\ call.op \in {"closed", "idle", "put", "truncate"}
      /\ call.pc \in {"wait", "entries", "meta", "done"}
  BY RecordedType DEF StoreTypes, CallType
<1>2. ASSUME LastSucceeds PROVE RecordInv'
  <2>1. UNCHANGED <<kind, db, meta>> /\ call'.op = "idle" /\ call'.pc = "done" /\ next' = last_position
    BY <1>2, RestCalls DEF LastSucceeds
  <2>2. kind = "rocksdb" => next' = recorded
    BY <2>1 DEF last_position, recorded
  <2>3. QED
    BY <1>1, <2>1, <2>2 DEF RecordInv, recorded
<1>3. CASE Stop
  BY <1>3, RestCalls DEF Stop, RecordInv
<1>4. CASE FailWrite
  <2>1. UNCHANGED <<kind, db, meta, next>> /\ call.pc \in {"entries", "meta"} /\ call' = Idle
    BY <1>4 DEF FailWrite
  <2>2. call.op # "closed" /\ recorded' = recorded
    BY <2>1 DEF StoreTypes, recorded
  <2>3. QED
    BY <1>1, <2>1, <2>2, RestCalls DEF RecordInv
<1>5. ASSUME NEW v \in Value, StartPut(v) PROVE RecordInv'
  <2>1. /\ call.op = "idle" /\ UNCHANGED <<kind, db, meta, next>>
        /\ call'.op = "put" /\ call'.pc = "wait"
    BY <1>5 DEF StartPut, Call
  <2>2. QED
    BY <1>1, <2>1 DEF RecordInv, recorded
<1>6. ASSUME NEW i \in 1 .. MaxN, StartTruncate(i) PROVE RecordInv'
  <2>1. /\ call.op = "idle" /\ UNCHANGED <<kind, db, meta, next>>
        /\ call'.op = "truncate" /\ call'.pc = "wait"
    BY <1>6 DEF StartTruncate, Call
  <2>2. QED
    BY <1>1, <2>1 DEF RecordInv, recorded
<1>7. CASE Acquire
  <2> DEFINE pc == IF call.op = "truncate" /\ kind = "rocksdb" /\ call.at >= last_position
                   THEN "done" ELSE "entries"
  <2>1. UNCHANGED <<kind, db, meta, next>> /\ call.pc = "wait" /\ call' = [call EXCEPT !.pc = pc]
    BY <1>7 DEF Acquire, may_write
  <2>2. /\ pc \in {"done", "entries"} /\ (call.op # "truncate" => pc = "entries")
        /\ kind = "rocksdb" /\ call.op = "truncate" /\ pc = "entries" => call.at < recorded
    BY <1>1 DEF last_position, recorded
  <2> HIDE DEF pc
  <2>3. call'.pc = pc /\ call'.op = call.op /\ call'.at = call.at /\ call'.p = call.p
    BY <1>1, <2>1, <2>2, CallFields
  <2>4. call.op = "truncate" => call.p = call.at
    BY <2>1 DEF CutInv
  <2>5. QED
    BY <1>1, <2>1, <2>2, <2>3, <2>4 DEF RecordInv, recorded
<1>8. CASE WriteEntry
  <2>1. /\ UNCHANGED <<kind, meta, next>> /\ call.pc = "entries" /\ call.op = "put" /\ call.at = next
        /\ call' = [call EXCEPT !.pc = after_entries]
        /\ DOMAIN db' = DOMAIN db \cup {next}
    BY <1>8 DEF WriteEntry, put_key, PutInv
  <2>2. kind = "rocksdb" => call'.pc = "meta" /\ call'.op = "put"
    BY <1>1, <2>1, CallFields DEF after_entries
  <2>3. \A h \in 1 .. recorded - 1 : h \notin DOMAIN db /\ recorded <= next => h \notin DOMAIN db'
    BY <1>1, <2>1
  <2>4. QED
    BY <1>1, <2>1, <2>2, <2>3 DEF RecordInv, recorded
<1>9. CASE DeleteEntry
  <2>1. UNCHANGED <<kind, meta, next>> /\ call.pc = "entries" /\ call.op = "truncate" /\ call.at <= call.p
    BY <1>9 DEF DeleteEntry, CutInv
  <2>2. CASE call.p \in DOMAIN db
    <3>1. /\ DOMAIN db' = DOMAIN db \ {call.p} /\ call'.pc = "entries" /\ call'.op = "truncate"
          /\ call'.at = call.at /\ call'.p = call.p + 1
      BY <1>1, <1>9, <2>1, <2>2, CallFields DEF DeleteEntry, key_to_delete, remove_key
    <3>2. kind = "rocksdb" => call.at \notin DOMAIN db'
      BY <1>1, <2>1, <3>1 DEF RecordInv
    <3>3. QED
      BY <1>1, <2>1, <3>1, <3>2 DEF RecordInv, recorded
  <2>3. CASE call.p \notin DOMAIN db
    <3>1. /\ db' = db /\ call'.op = "truncate" /\ call'.at = call.at
          /\ kind = "rocksdb" => call'.pc = "meta"
      BY <1>1, <1>9, <2>1, <2>3, CallFields DEF DeleteEntry, key_to_delete, after_entries
    <3>2. kind = "rocksdb" => call.at \notin DOMAIN db
      BY <1>1, <2>1, <2>3 DEF RecordInv
    <3>3. QED
      BY <1>1, <2>1, <3>1, <3>2 DEF RecordInv, recorded
  <2>4. QED
    BY <2>2, <2>3
<1>10. CASE WriteMeta
  <2>1. /\ UNCHANGED <<kind, db, next>> /\ call.pc = "meta"
        /\ meta' = metadata(IF call.op = "put" THEN call.at + 1 ELSE call.at)
        /\ call'.pc = "done" /\ call'.op = call.op
    BY <1>1, <1>10, CallFields DEF WriteMeta
  <2>2. call.op \in {"put", "truncate"}
    BY <1>1, <2>1 DEF StoreTypes
  <2>3. call.op = "truncate" => recorded' = call.at /\ call.at < next
    BY <1>1, <2>1 DEF CutInv, metadata, recorded, NoMeta
  <2>4. QED
    BY <1>1, <2>1, <2>2, <2>3 DEF RecordInv
<1>11. CASE FinishPut
  <2>1. UNCHANGED <<kind, db, meta>> /\ call.op = "put" /\ call.pc = "done" /\ call' = Idle
    BY <1>11 DEF FinishPut
  <2>2. kind = "rocksdb" => recorded = next'
    BY <1>1, <1>11, <2>1 DEF PutInv, FinishPut
  <2>3. QED
    BY <1>1, <2>1, <2>2, RestCalls DEF RecordInv, recorded
<1>12. CASE FailTruncate
  <2>1. /\ UNCHANGED <<kind, db, meta, next>> /\ call.op = "truncate" /\ call.pc = "done"
        /\ call' = Idle /\ meta # NoMeta /\ meta - 1 \notin DOMAIN db
    BY <1>12 DEF FailTruncate, last_succeeds
  <2>2. recorded - 1 \in 1 .. recorded - 1 /\ recorded - 1 \notin DOMAIN db
    BY <1>1, <2>1 DEF recorded, StoreTypes, NoMeta
  <2>3. QED
    BY <1>1, <2>1, <2>2, RestCalls DEF RecordInv, recorded
<1>13. ASSUME UNCHANGED <<kind, db, meta, call, next>> PROVE RecordInv'
  BY <1>13 DEF RecordInv, recorded
<1>14. ASSUME NEW r \in Reader, ReaderStep(r) PROVE RecordInv'
  BY <1>13, <1>14 DEF ReaderStep, Deliver, ReadInCallback, EndScan
<1>15. ASSUME NEW r \in Reader, NEW at \in 1 .. MaxN, NEW count \in 1 .. MaxN, StartScan(r, at, count)
       PROVE  RecordInv'
  BY <1>13, <1>15 DEF StartScan
<1>16. CASE UNCHANGED kvVars
  BY <1>13, <1>16 DEF kvVars
<1>17. QED
  BY <1>2, <1>3, <1>4, <1>5, <1>6, <1>7, <1>8, <1>9, <1>10, <1>11, <1>12, <1>14, <1>15, <1>16
     DEF Next, WriterStep, Open, FinishTruncate

\* The first key that a map misses.
gap(d) == Min((1 .. MaxN + 1) \ DOMAIN d)

LEMMA FirstGap ==
    ASSUME NEW d, DOMAIN d \subseteq 1 .. MaxN
    PROVE  /\ gap(d) \in 1 .. MaxN + 1 /\ gap(d) \notin DOMAIN d
           /\ \A p \in 1 .. gap(d) - 1 : p \in DOMAIN d
           /\ \A m \in 1 .. MaxN + 1 :
                 m \notin DOMAIN d => gap(d) <= m /\ ((\A p \in 1 .. m - 1 : p \in DOMAIN d) => gap(d) = m)
<1> DEFINE T == (1 .. MaxN + 1) \ DOMAIN d
<1>1. T \in SUBSET Nat /\ MaxN + 1 \in T /\ MaxN \in Nat
  BY StorageAssumption
<1>2. \E x \in T : \A y \in T : x <= y
  BY <1>1, LeastElement
<1>3. gap(d) \in T /\ \A y \in T : gap(d) <= y
  BY <1>2 DEF gap, Min
<1>4. \A p \in 1 .. gap(d) - 1 : p \in DOMAIN d
  BY <1>1, <1>3
<1>5. QED
  BY <1>1, <1>3, <1>4

LEMMA LesserOfTwo ==
    ASSUME NEW a \in Int, NEW b \in Int
    PROVE  Min({a, b}) = IF a <= b THEN a ELSE b
<1> DEFINE m == IF a <= b THEN a ELSE b
<1>1. m \in {a, b} /\ \A y \in {a, b} : m <= y
  OBVIOUS
<1>2. \A x \in {a, b} : (\A y \in {a, b} : x <= y) => x = m
  OBVIOUS
<1>3. QED
  BY <1>1, <1>2 DEF Min

\* The entries of a map before a position, as a storage, and where the storage
\* ends that a map with a position on record stands for.
prefix(d, e) == [data |-> [p \in 1 .. e - 1 |-> decode(p, d[p])], end |-> e]
end_of(d, n) == IF kind = "memkvs" \/ gap(d) <= n THEN gap(d) ELSE n

LEMMA ViewIsPrefix ==
    ASSUME StoreTypes
    PROVE  view = prefix(db, end_of(db, recorded)) /\ end_of(db, recorded) \in 1 .. MaxN + 1
<1>1. /\ gap(db) \in 1 .. MaxN + 1 /\ gap(db) \in Int /\ recorded \in Nat /\ recorded >= 1
      /\ missing = gap(db)
  BY FirstGap, RecordedType DEF StoreTypes, missing, gap
<1>2. view_end = end_of(db, recorded)
  <2>1. CASE kind = "memkvs"
    BY <1>1, <2>1 DEF view_end, end_of
  <2>2. CASE kind # "memkvs"
    <3>1. view_end = Min({missing, recorded})
      BY <2>2 DEF view_end, last_position, recorded
    <3>2. QED
      BY <1>1, <2>2, <3>1, LesserOfTwo DEF end_of
  <2>3. QED
    BY <2>1, <2>2
<1>3. end_of(db, recorded) \in 1 .. MaxN + 1
  BY <1>1, StorageAssumption DEF end_of
<1>4. view = prefix(db, view_end)
  BY DEF view, prefix
<1>5. QED
  BY <1>2, <1>3, <1>4

LEMMA ViewAfter ==
    ASSUME StoreTypes', kind' = kind
    PROVE  view' = prefix(db', end_of(db', recorded')) /\ end_of(db', recorded') \in 1 .. MaxN + 1
<1>1. /\ gap(db') \in 1 .. MaxN + 1 /\ gap(db') \in Int /\ recorded' \in Nat /\ recorded' >= 1
      /\ missing' = gap(db')
  BY FirstGap DEF StoreTypes, missing, gap, recorded, NoMeta
<1>2. view_end' = end_of(db', recorded')
  <2>1. CASE kind = "memkvs"
    BY <1>1, <2>1 DEF view_end, end_of
  <2>2. CASE kind # "memkvs"
    <3>1. view_end' = Min({missing', recorded'})
      BY <2>2 DEF view_end, last_position, recorded
    <3>2. QED
      BY <1>1, <2>2, <3>1, LesserOfTwo DEF end_of
  <2>3. QED
    BY <2>1, <2>2
<1>3. end_of(db', recorded') \in 1 .. MaxN + 1
  BY <1>1, StorageAssumption DEF end_of
<1>4. view' = prefix(db', view_end')
  BY DEF view, prefix
<1>5. QED
  BY <1>2, <1>3, <1>4

\* An entry after the last one, and nothing else before it.
LEMMA PrefixGrows ==
    ASSUME NEW d, NEW d2, NEW e \in 1 .. MaxN, d2[e] \in Value, \A p \in 1 .. e - 1 : d2[p] = d[p],
           view = prefix(d, e), view' = prefix(d2, e + 1)
    PROVE  Contract!Put
<1> DEFINE x == decode(e, d2[e])
<1>1. e \in Nat /\ MaxN \in Nat
  BY StorageAssumption
<1>2. position_of(x) = e /\ index_of(x) = e /\ x.enode.payload = d2[e]
  BY DEF decode, Entry, ENode, MetaInfo, Address, position_of, index_of
<1>3. entry_size(x) = 1
  <2>1. <<d2[e], e>> \in DOMAIN EntrySize
    BY StorageAssumption
  <2>2. QED
    BY <1>2, <2>1, KeyValueAssumption DEF entry_size
<1>4. view.end = e /\ DOMAIN view.data = 1 .. e - 1 /\ \A p \in 1 .. e - 1 : view.data[p] = decode(p, d[p])
  BY DEF prefix
<1>5. /\ view' = [data |-> [p \in 1 .. e |-> decode(p, d2[p])], end |-> e + 1]
      /\ view'.data[e] = x /\ e \in DOMAIN view'.data
  BY <1>1 DEF prefix
<1> HIDE DEF x
<1>6. x \in entries_of(view')
  BY <1>5 DEF entries_of
<1>7. view' = storage_put(view, e, x)
  <2>1. (1 .. e - 1) \cup {e} = 1 .. e
    BY <1>1
  <2>2. \A p \in 1 .. e : decode(p, d2[p]) = IF p = e THEN x ELSE view.data[p]
    BY <1>1, <1>4 DEF x
  <2>3. QED
    BY <1>3, <1>4, <1>5, <2>1, <2>2 DEF storage_put
<1>8. QED
  BY <1>2, <1>4, <1>6, <1>7
     DEF Contract!Put, Contract!entries_of, entries_of, Contract!position_of, position_of,
         Contract!storage_put, storage_put, Contract!entry_size, entry_size, Contract!index_of, index_of

\* The entries from one of them on are gone.
LEMMA PrefixShrinks ==
    ASSUME NEW d, NEW d2, NEW e \in 1 .. MaxN + 1, NEW p \in 1 .. e - 1,
           \A q \in 1 .. p - 1 : d2[q] = d[q], view = prefix(d, e), view' = prefix(d2, p)
    PROVE  Contract!Cut
<1>1. e \in Nat /\ p \in Nat /\ p < e
  BY StorageAssumption
<1>2. /\ view.end = e /\ DOMAIN view.data = 1 .. e - 1
      /\ \A q \in 1 .. e - 1 : view.data[q] = decode(q, d[q])
  BY DEF prefix
<1>3. {q \in 1 .. e - 1 : q < p} = 1 .. p - 1
  BY <1>1
<1>4. \A q \in 1 .. p - 1 : decode(q, d2[q]) = view.data[q]
  BY <1>1, <1>2
<1>5. view' = storage_truncate(view, p)
  BY <1>1, <1>2, <1>3, <1>4 DEF storage_truncate, prefix
<1>6. QED
  BY <1>2, <1>5 DEF Contract!Cut, Contract!storage_truncate, storage_truncate

LEMMA PrefixStays ==
    ASSUME NEW d, NEW d2, NEW e \in 1 .. MaxN + 1, \A q \in 1 .. e - 1 : d2[q] = d[q]
    PROVE  prefix(d2, e) = prefix(d, e)
BY DEF prefix

LEMMA ContractInit == Init => Contract!Init
<1> SUFFICES ASSUME Init PROVE view = EmptyStorage
  BY DEF Contract!Init, Contract!EmptyStorage, EmptyStorage
<1>1. StoreTypes /\ kind = kind /\ DOMAIN db = {} /\ recorded = 1
  BY AckedInvInit DEF AckedInv, Init, recorded
<1>2. gap(db) = 1
  BY <1>1, StorageAssumption, FirstGap DEF StoreTypes
<1>3. view = prefix(db, 1)
  BY <1>1, <1>2, ViewIsPrefix DEF end_of
<1>4. QED
  BY <1>3, KeyValueAssumption DEF prefix, EmptyStorage

LEMMA WriteEntryRefines ==
    ASSUME AckedInv, RecordInv, AckedInv', WriteEntry
    PROVE  Contract!Next \/ view' = view
<1> USE DEF AckedInv
<1>1. /\ UNCHANGED <<kind, meta>> /\ call.pc = "entries" /\ call.op = "put" /\ call.at = next
      /\ next \in 1 .. MaxN /\ call.v \in Value /\ recorded' = recorded
      /\ recorded \in Nat /\ recorded >= 1 /\ MaxN \in Nat
  BY StorageAssumption, RecordedType DEF WriteEntry, PutInv, StoreTypes, recorded
<1>2. DOMAIN db' = DOMAIN db \cup {next} /\ \A q \in DOMAIN db' : db'[q] = IF q = next THEN call.v ELSE db[q]
  BY <1>1 DEF WriteEntry, put_key
<1>3. /\ gap(db) \in 1 .. MaxN + 1 /\ gap(db) \notin DOMAIN db
      /\ \A p \in 1 .. gap(db) - 1 : p \in DOMAIN db
      /\ gap(db') \in 1 .. MaxN + 1 /\ gap(db') \notin DOMAIN db'
      /\ \A p \in 1 .. gap(db') - 1 : p \in DOMAIN db'
      /\ \A m \in 1 .. MaxN + 1 : m \notin DOMAIN db' =>
            gap(db') <= m /\ ((\A p \in 1 .. m - 1 : p \in DOMAIN db') => gap(db') = m)
  BY FirstGap DEF StoreTypes
<1>4. view = prefix(db, end_of(db, recorded)) /\ view' = prefix(db', end_of(db', recorded))
  BY <1>1, ViewIsPrefix, ViewAfter
<1>5. CASE kind = "memkvs"
  <2>1. DOMAIN db = 1 .. next - 1
    BY <1>1, <1>5 DEF KeysInv
  <2>2. gap(db) = next
    <3>1. next \in 1 .. MaxN + 1 /\ next \notin DOMAIN db
      BY <1>1, <2>1
    <3>2. QED
      BY <2>1, <3>1, FirstGap DEF StoreTypes
  <2>3. gap(db') = next + 1
    <3>1. next + 1 \in 1 .. MaxN + 1 /\ next + 1 \notin DOMAIN db'
      BY <1>1, <1>2, <2>1
    <3>2. \A p \in 1 .. next : p \in DOMAIN db'
      BY <1>1, <1>2, <2>1
    <3>3. QED
      BY <1>1, <1>3, <3>1, <3>2
  <2>4. view = prefix(db, next) /\ view' = prefix(db', next + 1)
    BY <1>4, <1>5, <2>2, <2>3 DEF end_of
  <2>5. db'[next] = call.v /\ \A p \in 1 .. next - 1 : db'[p] = db[p]
    BY <1>1, <1>2, <2>1
  <2>6. QED
    BY <1>1, <2>4, <2>5, PrefixGrows DEF Contract!Next
<1>6. CASE kind = "rocksdb"
  <2>1. recorded <= next
    BY <1>1, <1>6 DEF RecordInv
  <2>2. CASE gap(db) < recorded
    <3>1. gap(db) \notin DOMAIN db' /\ \A p \in 1 .. gap(db) - 1 : p \in DOMAIN db' /\ db'[p] = db[p]
      BY <1>1, <1>2, <1>3, <2>1, <2>2
    <3>2. gap(db') = gap(db)
      BY <1>3, <3>1
    <3>3. end_of(db, recorded) = gap(db) /\ end_of(db', recorded) = gap(db)
      BY <1>1, <1>3, <2>2, <3>2 DEF end_of
    <3>4. prefix(db', gap(db)) = prefix(db, gap(db))
      BY <1>3, <3>1, PrefixStays
    <3>5. QED
      BY <1>1, <1>4, <3>3, <3>4
  <2>3. CASE gap(db) >= recorded
    <3>1. \A p \in 1 .. recorded - 1 : p \in DOMAIN db' /\ db'[p] = db[p]
      BY <1>1, <1>2, <1>3, <2>1, <2>3
    <3>2. gap(db') >= recorded
      BY <1>1, <1>3, <3>1
    <3>3. end_of(db, recorded) = recorded /\ end_of(db', recorded) = recorded
      BY <1>1, <1>3, <1>6, <2>3, <3>2 DEF end_of
    <3>4. recorded \in 1 .. MaxN + 1
      BY <1>1, <2>1
    <3>5. QED
      BY <1>4, <3>1, <3>3, <3>4, PrefixStays
  <2>4. QED
    BY <1>1, <1>3, <2>2, <2>3
<1>7. QED
  BY <1>5, <1>6 DEF StoreTypes

\* A key taken away, at any place.
LEMMA DeleteEntryRefines ==
    ASSUME AckedInv, AckedInv', DeleteEntry
    PROVE  Contract!Next \/ view' = view
<1> USE DEF AckedInv
<1>1. UNCHANGED <<kind, meta>> /\ recorded' = recorded /\ recorded \in Nat /\ recorded >= 1 /\ MaxN \in Nat
  BY StorageAssumption, RecordedType DEF DeleteEntry, recorded
<1>2. CASE call.p \notin DOMAIN db
  BY <1>1, <1>2, ViewIsPrefix, ViewAfter DEF DeleteEntry, key_to_delete
<1>3. CASE call.p \in DOMAIN db
  <2> DEFINE p == call.p
             e == end_of(db, recorded)
  <2>1. DOMAIN db' = DOMAIN db \ {p} /\ \A q \in DOMAIN db' : db'[q] = db[q]
    BY <1>3 DEF DeleteEntry, key_to_delete, remove_key
  <2>2. p \in 1 .. MaxN /\ p \in Nat
    BY <1>3, StorageAssumption DEF StoreTypes
  <2>3. /\ gap(db) \in 1 .. MaxN + 1 /\ gap(db) \notin DOMAIN db
        /\ \A q \in 1 .. gap(db) - 1 : q \in DOMAIN db
        /\ \A m \in 1 .. MaxN + 1 : m \notin DOMAIN db' =>
              gap(db') <= m /\ ((\A q \in 1 .. m - 1 : q \in DOMAIN db') => gap(db') = m)
    BY FirstGap DEF StoreTypes
  <2>4. /\ view = prefix(db, e) /\ view' = prefix(db', end_of(db', recorded))
        /\ e \in 1 .. MaxN + 1 /\ e <= gap(db) /\ (kind # "memkvs" => e <= recorded)
    BY <1>1, <2>3, ViewIsPrefix, ViewAfter DEF end_of
  <2> HIDE DEF p
  <2>5. gap(db') = IF p < gap(db) THEN p ELSE gap(db)
    <3>1. CASE p < gap(db)
      <4>1. p \notin DOMAIN db' /\ \A q \in 1 .. p - 1 : q \in DOMAIN db'
        BY <2>1, <2>2, <2>3, <3>1
      <4>2. p \in 1 .. MaxN + 1
        BY <2>2, <1>1
      <4>3. QED
        BY <2>3, <3>1, <4>1, <4>2
    <3>2. CASE ~(p < gap(db))
      <4>1. gap(db) \notin DOMAIN db' /\ \A q \in 1 .. gap(db) - 1 : q \in DOMAIN db'
        BY <2>1, <2>2, <2>3, <3>2
      <4>2. QED
        BY <2>3, <3>2, <4>1
    <3>3. QED
      BY <3>1, <3>2
  <2>6. CASE p < e
    <3>1. end_of(db', recorded) = p
      BY <1>1, <2>2, <2>3, <2>4, <2>5, <2>6 DEF end_of
    <3>2. \A q \in 1 .. p - 1 : db'[q] = db[q]
      BY <2>1, <2>2, <2>3, <2>4, <2>6
    <3>3. p \in 1 .. e - 1
      BY <2>2, <2>4, <2>6
    <3> HIDE DEF e
    <3>4. QED
      BY <2>4, <3>1, <3>2, <3>3, PrefixShrinks DEF Contract!Next
  <2>7. CASE ~(p < e)
    <3>1. end_of(db', recorded) = e
      BY <1>1, <2>2, <2>3, <2>4, <2>5, <2>7 DEF end_of
    <3>2. \A q \in 1 .. e - 1 : db'[q] = db[q]
      BY <2>1, <2>2, <2>3, <2>4, <2>7
    <3> HIDE DEF e
    <3>3. QED
      BY <2>4, <3>1, <3>2, PrefixStays
  <2>8. QED
    BY <2>6, <2>7
<1>4. QED
  BY <1>2, <1>3

LEMMA WriteMetaRefines ==
    ASSUME AckedInv, RecordInv, AckedInv', WriteMeta
    PROVE  Contract!Next \/ view' = view
<1> USE DEF AckedInv
<1> DEFINE n == IF call.op = "put" THEN call.at + 1 ELSE call.at
<1>1. /\ UNCHANGED <<kind, db>> /\ call.pc = "meta" /\ meta' = metadata(n)
      /\ call.op \in {"put", "truncate"} /\ kind = "rocksdb" /\ call.at \in Nat
  BY DEF WriteMeta, StoreTypes, CallType, KeysInv
<1>2. recorded' = n
  BY <1>1 DEF PutInv, CutInv, metadata, recorded, NoMeta
<1>3. /\ recorded \in Nat /\ recorded >= 1 /\ MaxN \in Nat
      /\ gap(db) \in 1 .. MaxN + 1 /\ gap(db) \notin DOMAIN db
      /\ \A m \in 1 .. MaxN + 1 : m \notin DOMAIN db => gap(db) <= m
      /\ \A p \in 1 .. gap(db) - 1 : p \in DOMAIN db
  BY StorageAssumption, RecordedType, FirstGap DEF StoreTypes
<1>4. view = prefix(db, end_of(db, recorded)) /\ view' = prefix(db, end_of(db, n))
  BY <1>1, <1>2, ViewIsPrefix, ViewAfter
<1>5. CASE call.op = "truncate"
  <2>1. call.at < recorded /\ call.at \notin DOMAIN db /\ n = call.at /\ 1 <= call.at /\ call.at < next
    BY <1>1, <1>5 DEF RecordInv, CutInv
  <2>2. gap(db) <= call.at
    BY <1>1, <1>3, <2>1
  <2>3. end_of(db, recorded) = gap(db) /\ end_of(db, n) = gap(db)
    BY <1>1, <1>3, <2>1, <2>2 DEF end_of
  <2>4. QED
    BY <1>4, <2>3
<1>6. CASE call.op = "put"
  <2>1. /\ n = next + 1 /\ next \in Nat /\ next >= 1 /\ next <= MaxN /\ next \in DOMAIN db
        /\ db[next] = call.v /\ call.v \in Value /\ recorded <= next
        /\ recorded >= next \/ \E h \in 1 .. recorded - 1 : h \notin DOMAIN db
    BY <1>1, <1>6 DEF PutInv, RecordInv, StoreTypes
  <2>2. CASE gap(db) < recorded
    BY <1>1, <1>3, <1>4, <2>1, <2>2 DEF end_of
  <2>3. CASE gap(db) >= recorded
    <3>1. recorded = next
      BY <1>3, <2>1, <2>3
    <3>2. gap(db) > next
      BY <1>3, <2>1, <2>3, <3>1
    <3>3. end_of(db, recorded) = next /\ end_of(db, n) = next + 1
      BY <1>1, <1>3, <2>1, <3>1, <3>2 DEF end_of
    <3>4. QED
      BY <1>3, <1>4, <2>1, <3>3, PrefixGrows DEF Contract!Next
  <2>4. QED
    BY <1>3, <2>2, <2>3
<1>7. QED
  BY <1>1, <1>5, <1>6

LEMMA ContractStep == AckedInv /\ RecordInv /\ AckedInv' /\ [Next]_kvVars => [Contract!Next]_view
<1> SUFFICES ASSUME AckedInv, RecordInv, AckedInv', [Next]_kvVars PROVE Contract!Next \/ view' = view
  OBVIOUS
<1>1. ASSUME UNCHANGED <<kind, db, meta>> PROVE view' = view
  <2>1. recorded' = recorded
    BY <1>1 DEF recorded
  <2>2. QED
    BY <1>1, <2>1, ViewIsPrefix, ViewAfter DEF AckedInv
<1>2. CASE WriteEntry \/ DeleteEntry \/ WriteMeta
  BY <1>2, WriteEntryRefines, DeleteEntryRefines, WriteMetaRefines
<1>3. CASE Open \/ Stop \/ FailWrite \/ Acquire \/ FinishPut \/ FinishTruncate \/ FailTruncate
  BY <1>1, <1>3 DEF Open, LastSucceeds, Stop, FailWrite, Acquire, FinishPut, FinishTruncate, FailTruncate
<1>4. CASE \/ \E v \in Value : StartPut(v)
           \/ \E i \in 1 .. MaxN : StartTruncate(i)
           \/ \E r \in Reader : ReaderStep(r)
           \/ \E r \in Reader, at \in 1 .. MaxN, count \in 1 .. MaxN : StartScan(r, at, count)
  BY <1>1, <1>4 DEF StartPut, StartTruncate, StartScan, ReaderStep, Deliver, ReadInCallback, EndScan
<1>5. CASE UNCHANGED kvVars
  BY <1>1, <1>5 DEF kvVars
<1>6. QED
  BY <1>2, <1>3, <1>4, <1>5 DEF Next, WriterStep

\* MemKVS and RocksDBStorage are Storages: read one after the other, their keys are
\* entries put at the end and cut at one of them, and what a failing write or a
\* crash leaves behind, in a put or in a truncation, is never read as part of them
\* (memory.rs:31-81, rocksdb.rs:74-134, storage.rs:31-50).
THEOREM KeyValueIsStorage == Spec => ImplementsContract
<1>1. Spec => Contract!Init /\ [][Contract!Next]_view
  BY ContractInit, ContractStep, AckedInvInit, AckedInvStep, RecordInvInit, RecordInvStep, PTL DEF Spec
<1>2. QED
  BY <1>1 DEF ImplementsContract, Contract!Spec
=============================================================================
