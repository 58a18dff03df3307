---------------------------- MODULE BlockStorage ----------------------------
(***************************************************************************)
(* The BlockStorage of src/storage.rs over the devices of src/storage/, as *)
(* a Slate uses it or any client of the trait Storage does.                *)
(*                                                                         *)
(* A device is a list of cells.  An entry takes EntrySize cells, the last  *)
(* one of them its delimiter with offset and checksum; the identifier and  *)
(* the version take a cell each.  Cells are written one by one, and a call *)
(* that fails or a process that dies leaves those it has written.  Inodes  *)
(* and hashes are left to module Slate.                                    *)
(*                                                                         *)
(* Devices: "memory" is MemoryDevice; "file" is a FileDevice opened by     *)
(* from_file, which writes at its cursor; "append" is FileDevice::new,     *)
(* which the system makes write at the end of the file.                    *)
(***************************************************************************)
EXTENDS Entry

CONSTANTS SlateDevice,  \* the devices of Slates, of "memory", "file", "append"
          TraitDevice,  \* the devices of other clients
          Fault,        \* what may go wrong, of "crash", "put", "reload"
          MaxFaults     \* failing calls in a behaviour (a bound of the model)

ASSUME BlockAssumption == /\ SlateDevice \subseteq {"memory", "file", "append"}
                          /\ TraitDevice \subseteq {"memory", "file", "append"}
                          /\ Fault \subseteq {"crash", "put", "reload"}
                          /\ MaxFaults \in Nat
                          /\ FirstPosition = 2
                          /\ \A x \in DOMAIN EntrySize : EntrySize[x] > 1

VARIABLES device,       \* the kind of the device
          user,         \* who uses it: "slate" or "trait"
          bytes,        \* its cells
          cursor,       \* its cursor
          expected,     \* BlockStorage::position
          call,         \* the call running, with what it has still to write
          next,         \* Slate::position, or the position a client has got
          tip,          \* the latest entry a Slate has in its cache
          \* history
          acked,        \* the entries that put has returned for, by index
          spared,       \* those of them put before the first failing call
          faults,       \* the failing calls so far
          sound         \* no call has failed since the storage was last read

blockVars == <<device, user, bytes, cursor, expected, call, next, tip, acked, spared, faults, sound>>

-----------------------------------------------------------------------------
(* Cells.                                                                  *)

\* An entry as written: its payload and its index.
Raw == Value \X (1 .. MaxN)

Cell(raw, part) == [of |-> raw, part |-> part]
Zero  == Cell(<<"zero", 0>>, 0)
Magic == <<Cell(<<"identifier", 0>>, 1), Cell(<<"version", 0>>, 1)>>

\* write_data: the entry and its delimiter.
write_data(raw) == [k \in 1 .. EntrySize[raw] |-> Cell(raw, k)]

\* read_data: the entry whose cells are all found at a position, an Option.
read_data(b, p) ==
    {raw \in Raw : /\ p >= 0 /\ p + EntrySize[raw] <= Len(b)
                   /\ b[p + 1].of = raw
                   /\ SubSeq(b, p + 1, p + EntrySize[raw]) = write_data(raw)}

\* What is read at a position carries it in its address (serialize.rs:39).
decode(raw, p) == Entry(ENode(MetaInfo(Address(raw[2], 0, p), from_bytes(0, raw[1])), raw[1]), <<>>)

\* The storage of module Entry that the cells stand for: the entries that
\* follow one another from the first position on, up to the first cell that is
\* not part of an entry.
strays(b) == {k \in FirstPosition + 1 .. Len(b) : b[k].of \notin read_data(b, k - b[k].part)}
view_end(b) == Max({FirstPosition, Min({Len(b) + 1} \cup strays(b)) - 1})
view(b) == [data |-> [p \in {q \in FirstPosition .. view_end(b) - 1 : b[q + 1].part = 1} |->
                         decode(b[p + 1].of, p)],
            end  |-> view_end(b)]

-----------------------------------------------------------------------------
(* The devices.                                                            *)

\* BlockDevice::write of one cell; beyond the end it leaves zeros before it.
write_at(kind, b, c) == IF kind = "append" THEN Len(b) ELSE c
written(b, p, cell) ==
    [k \in 1 .. Max({Len(b), p + 1}) |->
        IF k = p + 1 THEN cell ELSE IF k <= Len(b) THEN b[k] ELSE Zero]

\* File::set_len and Vec::truncate.
resized(b, n) == [k \in 1 .. n |-> IF k <= Len(b) THEN b[k] ELSE Zero]

\* BlockDevice::truncate: a file compares with its cursor and keeps it.
truncates(kind, b, c, p) == IF kind = "memory" THEN p < Len(b) ELSE p < c
\* Variant: a fault that FaultsSpareOldEntries shows.
truncated_cursor_kept(kind, c, p) == c
truncated_cursor(kind, c, p) == IF kind = "memory" THEN p ELSE c

-----------------------------------------------------------------------------
(* Boot.                                                                   *)

\* The distance to the start of the last entry that the last cell gives: its
\* offset if it is a delimiter, anything else otherwise.
offsets(b) ==
    LET c == b[Len(b)]
    IN  IF c.of \in Raw /\ c.part = EntrySize[c.of] THEN {c.part} ELSE 1 .. Len(b)

\* The last entry, as <<payload, index>> and position, if boot accepts it: it
\* has to end at the end of the device.
\* Variant: a fault that OpenRecovers shows.
last_data_anywhere(b) ==
    UNION {{[raw |-> raw, position |-> p] : raw \in read_data(b, p)} :
              p \in {Len(b) - o : o \in offsets(b)} \cap FirstPosition .. Len(b)}
last_data(b) ==
    UNION {{[raw |-> raw, position |-> p] :
               raw \in {r \in read_data(b, p) : p + EntrySize[r] = Len(b)}} :
              p \in {Len(b) - o : o \in offsets(b)} \cap FirstPosition .. Len(b)}

\* boot on a device that is not empty.
is_slate(b) == Len(b) >= Len(Magic) /\ SubSeq(b, 1, Len(Magic)) = Magic
boots(b) == /\ is_slate(b)
            /\ Len(b) # FirstPosition => read_data(b, FirstPosition) # {} /\ last_data(b) # {}

NoTip == [i |-> 0, position |-> 0]
tips(b) == IF Len(b) = FirstPosition THEN {NoTip}
           ELSE {[i |-> x.raw[2], position |-> x.position] : x \in last_data(b)}

\* Where boot leaves the cursor when it succeeds, and where it may leave it when
\* a call of the device fails: where it was, if that is its first seek.
\* Variant: a fault that FaultsSpareOldEntries, ReadingHeals and
\* ImplementsContract show.
boot_cursor_first(b) == FirstPosition
boot_cursor(b) == Len(b)
boot_stops(b, c) == (0 .. Len(b)) \cup {c}

-----------------------------------------------------------------------------
(* Calls.                                                                  *)

Call(op, raw, out, at) == [op |-> op, raw |-> raw, out |-> out, at |-> at]
NoRaw  == <<"none", 0>>
Closed == Call("closed", NoRaw, <<>>, 0)
Idle   == Call("idle", NoRaw, <<>>, 0)

\* BlockStorage::last succeeds: the storage stands at its end.
LastSucceeds ==
    /\ boots(bytes)
    /\ cursor' = boot_cursor(bytes)
    /\ expected' = Len(bytes)
    /\ next' = Len(bytes)
    /\ sound' = TRUE
    /\ \E t \in tips(bytes) :
          /\ tip' = t
          /\ acked' = IF t = NoTip \/ t.i \in DOMAIN acked THEN acked
                      ELSE [i \in DOMAIN acked \cup {t.i} |->
                               IF i = t.i THEN [raw |-> CHOOSE raw \in read_data(bytes, t.position) : TRUE,
                                                position |-> t.position]
                               ELSE acked[i]]

\* A call fails: the entries put so far are to be spared from now on.
CountFault == /\ faults < MaxFaults
              /\ faults' = faults + 1
              /\ spared' = IF faults = 0 THEN {acked[i] : i \in DOMAIN acked} ELSE spared

Init == /\ \/ user = "slate" /\ device \in SlateDevice
           \/ user = "trait" /\ device \in TraitDevice
        /\ bytes = <<>> /\ cursor = 0 /\ expected = 0
        /\ call = Closed
        /\ next = 0 /\ tip = NoTip
        /\ acked = <<>> /\ spared = {} /\ faults = 0 /\ sound = FALSE

\* Opening a storage, by Slate::with_cache_level or by a first call of last.
Open ==
    /\ call.op = "closed"
    /\ bytes # <<>> /\ LastSucceeds
    /\ call' = Idle
    /\ UNCHANGED <<device, user, bytes, spared, faults>>

OpenEmpty ==
    /\ call.op = "closed" /\ bytes = <<>>
    /\ call' = Call("boot", NoRaw, Magic, 0)
    /\ UNCHANGED <<device, user, bytes, cursor, expected, next, tip, acked, spared, faults, sound>>

\* put seeks only when the storage is not where it should write.
StartPut(v) ==
    /\ call.op = "idle" /\ tip.i < MaxN
    /\ cursor' = IF expected # next THEN next ELSE cursor
    /\ expected' = next
    /\ call' = Call("put", <<v, tip.i + 1>>, write_data(<<v, tip.i + 1>>), next)
    /\ UNCHANGED <<device, user, bytes, next, tip, acked, spared, faults, sound>>

Write ==
    /\ call.out # <<>>
    /\ LET p == write_at(device, bytes, cursor)
       IN  /\ bytes' = written(bytes, p, Head(call.out))
           /\ cursor' = p + 1
    /\ call' = [call EXCEPT !.out = Tail(@)]
    /\ UNCHANGED <<device, user, expected, next, tip, acked, spared, faults, sound>>

FinishBoot ==
    /\ call.op = "boot" /\ call.out = <<>>
    /\ LastSucceeds
    /\ call' = Idle
    /\ UNCHANGED <<device, user, bytes, spared, faults>>

FinishPut ==
    /\ call.op = "put" /\ call.out = <<>>
    /\ expected' = expected + EntrySize[call.raw]
    /\ next' = expected'
    /\ tip' = [i |-> call.raw[2], position |-> call.at]
    /\ acked' = [i \in DOMAIN acked \cup {call.raw[2]} |->
                    IF i = call.raw[2] THEN [raw |-> call.raw, position |-> call.at] ELSE acked[i]]
    /\ call' = Idle
    /\ UNCHANGED <<device, user, bytes, cursor, spared, faults, sound>>

\* A write fails, or the flush after it; what is written stays.  A seek of put or
\* a set_len that fails leaves everything as it was.
FailPut ==
    /\ "put" \in Fault /\ device # "memory" /\ call.op = "put"
    /\ CountFault
    /\ call' = Idle
    /\ sound' = FALSE
    /\ UNCHANGED <<device, user, bytes, cursor, expected, next, tip, acked>>

\* Variant: a fault that FaultsSpareOldEntries shows.
CutAt_keeping_position(p) ==
    IF truncates(device, bytes, cursor, p)
    THEN bytes' = resized(bytes, p) /\ cursor' = truncated_cursor(device, cursor, p) /\ UNCHANGED expected
    ELSE UNCHANGED <<bytes, cursor, expected>>
\* BlockStorage::truncate at the position of an entry.
CutAt(p) ==
    IF truncates(device, bytes, cursor, p)
    THEN /\ bytes' = resized(bytes, p)
         /\ cursor' = truncated_cursor(device, cursor, p)
         /\ expected' = p
    ELSE UNCHANGED <<bytes, cursor, expected>>

Forget(i) == /\ acked' = [k \in {n \in DOMAIN acked : n < i} |-> acked[k]]
             /\ spared' = {x \in spared : x.raw[2] < i}

\* Slate::truncate(i): cut at the entry, which it finds in its cache or reads,
\* and reload.  What it finds is not behind its own position: an entry put there
\* before the last reload is gone.
Truncate(i) ==
    /\ user = "slate" /\ call.op = "idle" /\ i <= tip.i
    /\ \E p \in {acked[k].position : k \in DOMAIN acked \cap {i}}
                \cup {t.position : t \in {u \in {tip} : u.i = i}} :
          p < next /\ CutAt(p) /\ call' = Call("reload", NoRaw, <<>>, p)
    /\ Forget(i)
    /\ UNCHANGED <<device, user, next, tip, faults, sound>>

Reload ==
    /\ call.op = "reload"
    /\ LastSucceeds
    /\ call' = Idle
    /\ UNCHANGED <<device, user, bytes, spared, faults>>

\* Reading the storage again fails, by itself or because of what it holds: in
\* boot, or later when the cache is loaded.  The Slate keeps its position and
\* its cache.
FailReload ==
    /\ call.op = "reload"
    /\ \/ "reload" \in Fault /\ device # "memory" /\ CountFault
       \/ ~boots(bytes) /\ UNCHANGED <<spared, faults>>
    /\ \/ cursor' \in boot_stops(bytes, cursor) /\ UNCHANGED expected
       \/ boots(bytes) /\ cursor' = boot_cursor(bytes) /\ expected' = Len(bytes)
    /\ call' = Idle
    /\ sound' = FALSE
    /\ UNCHANGED <<device, user, bytes, next, tip, acked>>

\* A client truncates and goes on at the position it has given, or truncates
\* behind the end.
TraitTruncate(i) ==
    /\ user = "trait" /\ call.op = "idle" /\ i \in DOMAIN acked
    /\ CutAt(acked[i].position)
    /\ next' = acked[i].position
    /\ tip' = IF i = 1 THEN NoTip ELSE [i |-> i - 1, position |-> acked[i - 1].position]
    /\ Forget(i)
    /\ UNCHANGED <<device, user, call, faults, sound>>

TraitTruncateBehind(p) ==
    /\ user = "trait" /\ call.op = "idle" /\ p >= next
    /\ CutAt(p)
    /\ UNCHANGED <<device, user, call, next, tip, acked, spared, faults, sound>>

\* BlockStorage::first boots the device and forgets the position it has found.
First ==
    /\ user = "trait" /\ call.op = "idle" /\ boots(bytes)
    /\ cursor' = boot_cursor(bytes)
    /\ UNCHANGED <<device, user, bytes, expected, call, next, tip, acked, spared, faults, sound>>

\* The process ends, between calls or in the middle of one.
Stop ==
    /\ \/ call.op = "idle"
       \/ call.op # "closed" /\ "crash" \in Fault /\ device # "memory"
    /\ call' = Closed /\ cursor' = 0 /\ expected' = 0
    /\ sound' = FALSE
    /\ UNCHANGED <<device, user, bytes, next, tip, acked, spared, faults>>

Next == \/ Open \/ OpenEmpty \/ FinishBoot
        \/ \E v \in Value : StartPut(v)
        \/ Write \/ FinishPut \/ FailPut
        \/ \E i \in 1 .. MaxN : Truncate(i) \/ TraitTruncate(i)
        \/ Reload \/ FailReload
        \/ \E p \in {next, next + 1} : TraitTruncateBehind(p)
        \/ First \/ Stop

Spec == Init /\ [][Next]_blockVars

-----------------------------------------------------------------------------
(* Properties.                                                             *)

Stored(x) == x.raw \in read_data(bytes, x.position)

\* put has stored the entry at the position it was given (storage.rs:41), and
\* whatever reads it there at any time, while the next entry is being written
\* as well, finds it whole.
AckedAreStored == \A i \in DOMAIN acked : Stored(acked[i])

\* Opening after a crash brings back all that was acknowledged, and at most the
\* one entry whose put was running when the process died; it refuses a torn
\* tail even if its bytes happen to point at an entry before it (storage.rs:242-262).
OpenRecovers ==
    [][faults = 0 /\ call.op = "closed" /\ call'.op = "idle" =>
          tip'.i \in {Cardinality(DOMAIN acked), Cardinality(DOMAIN acked) + 1}]_blockVars

\* All that is acknowledged is stored, while no call has failed; the entries
\* acknowledged before the first failing call, and not truncated since, survive
\* whatever calls fail or processes die and however the writer goes on.
FaultsSpareOldEntries ==
    \A x \in IF faults = 0 THEN Range(acked) ELSE spared : Stored(x)

\* test.rs:411: a truncation behind the current position does nothing; none adds
\* to the device.
TruncateNeverGrows == [][call.op = "idle" => Len(bytes') <= Len(bytes)]_blockVars

\* Reading the storage ends what failing calls have broken, and the traces of
\* processes that died (storage.rs:164-168): on opening it, and after a
\* truncation, until another call fails, an entry is cut where it stands and
\* nothing grows by it, and the next one is put at the end of the device and is
\* found there when put returns.
ReadingHeals ==
    [][sound => /\ call.op = "idle" => Len(bytes') <= Len(bytes)
                /\ call.op = "idle" /\ call'.op = "reload" => Len(bytes') = call'.at
                /\ call.op = "idle" /\ call'.op = "put" => call'.at = Len(bytes)
                /\ FinishPut => call.raw \in read_data(bytes, call.at)]_blockVars

\* storage.rs:46: after a truncation the next entry goes where the storage was
\* cut; a Slate appends where the storage ends, and leaves no hole.
AppendsAtEnd ==
    [][call.op = "idle" /\ call'.op = "put" => call'.at = view(bytes).end]_blockVars

\* A BlockStorage is a Storage, as far as its cells can be read one after the
\* other, even when calls fail: what they leave behind is never read as part of it.
Contract == INSTANCE StorageContract WITH storage <- view(bytes)
ImplementsContract == Contract!Spec
=============================================================================
