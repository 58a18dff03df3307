---------------------------- MODULE BlockProofs ----------------------------
(***************************************************************************)
(* Theorems about block storages, for every set of payloads, every size of *)
(* entries, every bound on them and any number of failing calls and of     *)
(* processes that die.  A client other than a Slate is taken to use a      *)
(* MemoryDevice: on a file it may leave holes even when nothing fails.     *)
(***************************************************************************)
EXTENDS BlockStorage, FiniteSetTheorems, SequenceTheorems, WellFoundedInduction, TLAPS

-----------------------------------------------------------------------------
(* Definitions.                                                            *)

Cells == [of : Raw \cup {<<"zero", 0>>, <<"identifier", 0>>, <<"version", 0>>}, part : Nat]
Acked == [raw : Raw, position : Nat]

\* An entry that is stored whole, and where it ends.
Whole(b, raw, p) ==
    p + EntrySize[raw] <= Len(b) /\ \A k \in 1 .. EntrySize[raw] : b[p + k] = Cell(raw, k)
EndOf(x) == x.position + EntrySize[x.raw]

BlockTypeOK ==
    /\ device \in {"memory", "file", "append"} /\ user \in {"slate", "trait"}
    /\ bytes \in Seq(Cells) /\ cursor \in Nat /\ expected \in Nat
    /\ call \in [op : {"closed", "idle", "boot", "put", "reload"}, raw : Raw \cup {NoRaw},
                 out : Seq(Cells), at : Nat]
    /\ next \in Nat /\ tip \in [i : 0 .. MaxN, position : Nat]
    /\ DOMAIN acked \subseteq 1 .. MaxN /\ acked \in [DOMAIN acked -> Acked]
    /\ spared \subseteq Acked /\ faults \in Nat
    /\ user = "trait" => device = "memory"
    /\ call.op = "put" => call.raw \in Raw
    /\ call.op \in {"closed", "idle", "reload"} => call.out = <<>>

\* While no call has failed the entries acknowledged follow one another from
\* the first position on, all of them stored.
ChainEnd(n) == IF n = 0 THEN FirstPosition ELSE EndOf(acked[n])
TipOf(n)    == IF n = 0 THEN NoTip ELSE [i |-> n, position |-> acked[n].position]
Chain(n) ==
    /\ DOMAIN acked = 1 .. n
    /\ \A k \in 1 .. n : /\ acked[k].raw[2] = k /\ acked[k].position = ChainEnd(k - 1)
                         /\ Whole(bytes, acked[k].raw, acked[k].position)
    /\ \A k, l \in 1 .. n : k < l => EndOf(acked[k]) <= acked[l].position

\* What follows them is the beginning of an entry.
Torn(raw, n) ==
    /\ raw \in Raw /\ raw[2] = n + 1
    /\ Len(bytes) \in ChainEnd(n) .. ChainEnd(n) + EntrySize[raw]
    /\ \A k \in 1 .. Len(bytes) - ChainEnd(n) : bytes[ChainEnd(n) + k] = Cell(raw, k)

CleanAt(n) ==
    /\ Chain(n)
    /\ call.op = "closed" =>
          /\ cursor = 0
          /\ \/ n = 0 /\ Len(bytes) < Len(Magic)
             \/ is_slate(bytes) /\ (Len(bytes) = ChainEnd(n) \/ \E raw \in Raw : Torn(raw, n))
    /\ call.op \in {"idle", "put", "reload"} => is_slate(bytes)
    /\ call.op = "boot" => n = 0 /\ bytes \o call.out = Magic /\ cursor = Len(bytes)
    /\ call.op \in {"idle", "put"} => /\ next = ChainEnd(n) /\ expected = next
                                      /\ cursor = Len(bytes) /\ tip = TipOf(n)
    /\ call.op = "idle" => Len(bytes) = next
    /\ call.op = "put" =>
          /\ Torn(call.raw, n) /\ call.at = next
          /\ Len(bytes) + Len(call.out) = next + EntrySize[call.raw]
          /\ \A k \in 1 .. Len(call.out) : call.out[k] = Cell(call.raw, (Len(bytes) - next) + k)
    /\ call.op = "reload" => /\ user = "slate"
                             /\ Len(bytes) = ChainEnd(n) /\ expected = Len(bytes)
                             /\ Len(bytes) < next /\ Len(bytes) <= tip.position
Clean == \E n \in 0 .. MaxN : CleanAt(n)

\* Once calls have failed the entries to be spared are stored, and all that a
\* Slate may write or cut lies behind them.  A file is written at its cursor,
\* so if put does not seek the cursor has to be behind them already.
SparedBefore(i, p) == \A x \in spared : x.raw[2] < i => EndOf(x) <= p
Faulty ==
    /\ device # "memory"
    /\ \A x \in spared : Whole(bytes, x.raw, x.position)
    /\ call.op \in {"idle", "put", "reload"} => \A x \in spared : EndOf(x) <= next
    /\ \A k \in DOMAIN acked : SparedBefore(k, acked[k].position)
    /\ SparedBefore(tip.i, tip.position)
    /\ call.op = "boot" => spared = {}
    /\ call.op = "put" => /\ call.at = next /\ expected = next
                          /\ Len(call.out) <= EntrySize[call.raw]
    /\ device = "file" =>
          /\ call.op = "idle" /\ expected = next => cursor >= next
          /\ call.op = "put" => cursor >= next + (EntrySize[call.raw] - Len(call.out))
          /\ call.op = "reload" => expected # next

BlockInv == BlockTypeOK /\ (IF faults = 0 THEN Clean ELSE Faulty)

-----------------------------------------------------------------------------
(* Cells.                                                                  *)

\* What a set of numbers has instead of induction.
LEMMA LeastElement ==
    ASSUME NEW T \in SUBSET Nat, T # {}
    PROVE  \E x \in T : \A y \in T : x <= y
<1>1. IsWellFoundedOn({ss \in Nat \X Nat : ss[1] < ss[2]}, Nat)
  BY NatLessThanWellFounded DEF OpToRel
<1>2. PICK x \in T : \A y \in T : ~(<<y, x>> \in {ss \in Nat \X Nat : ss[1] < ss[2]})
  BY <1>1, WFMin
<1>3. \A y \in T : ~(y < x)
  BY <1>2
<1>4. \A y \in T : x <= y
  BY <1>3
<1>5. QED
  BY <1>4

LEMMA Sizes ==
    ASSUME NEW raw \in Raw
    PROVE  EntrySize[raw] \in Nat /\ EntrySize[raw] > 1 /\ raw[2] \in 1 .. MaxN
BY StorageAssumption, BlockAssumption DEF Raw

LEMMA RawIsNoMark == \A v : <<v, 0>> \notin Raw
BY StorageAssumption DEF Raw

LEMMA CellFields ==
    /\ \A raw, part : Cell(raw, part).of = raw /\ Cell(raw, part).part = part
    /\ \A r, s, k, l : Cell(r, k) = Cell(s, l) => r = s /\ k = l
    /\ \A raw \in Raw, part \in Nat : Cell(raw, part) \in Cells
    /\ Zero \in Cells
BY DEF Cell, Cells, Zero

LEMMA MagicCells ==
    /\ Magic \in Seq(Cells) /\ Len(Magic) = 2 /\ FirstPosition = 2
    /\ Magic[1] = Cell(<<"identifier", 0>>, 1) /\ Magic[2] = Cell(<<"version", 0>>, 1)
<1>1. Cell(<<"identifier", 0>>, 1) \in Cells /\ Cell(<<"version", 0>>, 1) \in Cells
  BY DEF Cell, Cells
<1>2. QED
  BY <1>1, BlockAssumption DEF Magic

LEMMA DataCells ==
    ASSUME NEW raw \in Raw
    PROVE  /\ write_data(raw) \in Seq(Cells) /\ Len(write_data(raw)) = EntrySize[raw]
           /\ \A k \in 1 .. EntrySize[raw] : write_data(raw)[k] = Cell(raw, k)
BY Sizes, CellFields DEF write_data

\* read_data returns the entries that are stored whole at a position.
LEMMA ReadIsWhole ==
    ASSUME NEW b \in Seq(Cells), NEW p \in Int, NEW raw \in Raw
    PROVE  raw \in read_data(b, p) <=> p >= 0 /\ Whole(b, raw, p)
<1> DEFINE size == EntrySize[raw]
           part == SubSeq(b, p + 1, p + size)
<1>1. size \in Nat /\ size > 1 /\ Len(b) \in Nat
  BY Sizes, LenProperties
<1>2. raw \in read_data(b, p) <=>
        p >= 0 /\ p + size <= Len(b) /\ b[p + 1].of = raw /\ part = write_data(raw)
  BY DEF read_data
<1> SUFFICES ASSUME p >= 0, p + size <= Len(b)
             PROVE  (b[p + 1].of = raw /\ part = write_data(raw))
                      <=> \A k \in 1 .. size : b[p + k] = Cell(raw, k)
  BY <1>2 DEF Whole
<1>3. /\ part \in Seq(Cells) /\ Len(part) = size
      /\ \A k \in 1 .. size : part[k] = b[p + k]
  <2>1. \A k \in (p + 1) .. (p + size) : b[k] \in Cells
    BY <1>1, ElementOfSeq
  <2>2. /\ part \in Seq(Cells)
        /\ Len(part) = IF p + 1 <= p + size THEN ((p + size) - (p + 1)) + 1 ELSE 0
        /\ \A i \in 1 .. ((p + size) - (p + 1)) + 1 : part[i] = b[((p + 1) + i) - 1]
    BY <1>1, <2>1, SubSeqProperties
  <2>3. QED
    BY <1>1, <2>2
<1> HIDE DEF part
<1>4. ASSUME part = write_data(raw) PROVE \A k \in 1 .. size : b[p + k] = Cell(raw, k)
  BY <1>1, <1>3, <1>4, DataCells
<1>5. ASSUME \A k \in 1 .. size : b[p + k] = Cell(raw, k)
      PROVE  b[p + 1].of = raw /\ part = write_data(raw)
  <2>1. b[p + 1] = Cell(raw, 1)
    BY <1>1, <1>5
  <2>2. part = write_data(raw)
    BY <1>1, <1>3, <1>5, DataCells, SeqEqual
  <2>3. QED
    BY <2>1, <2>2, CellFields
<1>6. QED
  BY <1>4, <1>5

\* Entries stored whole do not overlap: a cell knows its entry and its place.
LEMMA WholeApart ==
    ASSUME NEW b \in Seq(Cells), NEW r \in Raw, NEW s \in Raw, NEW p \in Nat, NEW q \in Nat,
           Whole(b, r, p), Whole(b, s, q)
    PROVE  /\ p = q => r = s
           /\ p < q => p + EntrySize[r] <= q
<1>1. EntrySize[r] > 1 /\ EntrySize[s] > 1 /\ EntrySize[r] \in Nat /\ EntrySize[s] \in Nat
  BY Sizes
<1>2. b[q + 1] = Cell(s, 1) /\ b[p + 1] = Cell(r, 1)
  BY <1>1 DEF Whole
<1>3. p = q => r = s
  BY <1>2, CellFields
<1>4. ASSUME p < q, ~(p + EntrySize[r] <= q) PROVE FALSE
  <2>1. (q - p) + 1 \in 1 .. EntrySize[r] /\ p + ((q - p) + 1) = q + 1
    BY <1>1, <1>4
  <2>2. b[q + 1] = Cell(r, (q - p) + 1)
    BY <2>1 DEF Whole
  <2>3. QED
    BY <1>2, <1>4, <2>2, CellFields
<1>5. QED
  BY <1>3, <1>4

-----------------------------------------------------------------------------
(* Boot.                                                                   *)

\* What boot takes for the last entry is one that ends the device.
LEMMA LastIsWhole ==
    ASSUME NEW b \in Seq(Cells), NEW x \in last_data(b)
    PROVE  /\ x.raw \in Raw /\ x.position \in Nat /\ x.position >= FirstPosition
           /\ x = [raw |-> x.raw, position |-> x.position]
           /\ Whole(b, x.raw, x.position) /\ EndOf(x) = Len(b)
<1>1. PICK p \in {Len(b) - o : o \in offsets(b)} \cap FirstPosition .. Len(b) :
          \E r \in {s \in read_data(b, p) : p + EntrySize[s] = Len(b)} :
             x = [raw |-> r, position |-> p]
  BY DEF last_data
<1>r. PICK r \in {s \in read_data(b, p) : p + EntrySize[s] = Len(b)} :
          x = [raw |-> r, position |-> p]
  BY <1>1
<1>2. p \in Nat /\ p >= FirstPosition /\ r \in Raw
  BY <1>1, <1>r, LenProperties, BlockAssumption DEF read_data
<1>3. QED
  BY <1>r, <1>2, ReadIsWhole DEF EndOf

\* If the device ends with an entry, boot takes this entry and no other.
LEMMA LastIsThere ==
    ASSUME NEW b \in Seq(Cells), NEW raw \in Raw, NEW p \in Nat, p >= FirstPosition,
           Whole(b, raw, p), p + EntrySize[raw] = Len(b)
    PROVE  last_data(b) = {[raw |-> raw, position |-> p]}
<1>1. EntrySize[raw] \in Nat /\ EntrySize[raw] > 1 /\ Len(b) \in Nat /\ FirstPosition \in Nat
  BY Sizes, LenProperties, StorageAssumption
<1>2. b[Len(b)] = Cell(raw, EntrySize[raw])
  BY <1>1 DEF Whole
<1>3. offsets(b) = {EntrySize[raw]}
  BY <1>2, CellFields DEF offsets
<1>4. {Len(b) - o : o \in offsets(b)} \cap FirstPosition .. Len(b) = {p}
  BY <1>1, <1>3
<1>5. {r \in read_data(b, p) : p + EntrySize[r] = Len(b)} = {raw}
  <2>1. raw \in read_data(b, p)
    BY ReadIsWhole
  <2>2. \A r \in read_data(b, p) : r \in Raw /\ Whole(b, r, p)
    BY ReadIsWhole DEF read_data
  <2>3. QED
    BY <2>1, <2>2, WholeApart
<1>6. QED
  BY <1>4, <1>5 DEF last_data

\* A device that ends within an entry is refused, whatever its last cell says.
LEMMA TornIsRefused ==
    ASSUME NEW b \in Seq(Cells), NEW raw \in Raw, NEW m \in 1 .. (EntrySize[raw] - 1),
           b[Len(b)] = Cell(raw, m)
    PROVE  last_data(b) = {}
<1> SUFFICES ASSUME NEW x \in last_data(b) PROVE FALSE
  OBVIOUS
<1>1. x.raw \in Raw /\ x.position \in Nat /\ Whole(b, x.raw, x.position) /\ EndOf(x) = Len(b)
  BY LastIsWhole
<1>2. EntrySize[x.raw] \in Nat /\ EntrySize[x.raw] > 1 /\ EntrySize[raw] \in Nat
  BY <1>1, Sizes
<1>3. b[Len(b)] = Cell(x.raw, EntrySize[x.raw])
  BY <1>1, <1>2 DEF Whole, EndOf
<1>4. x.raw = raw /\ EntrySize[x.raw] = m
  <2>1. Cell(x.raw, EntrySize[x.raw]) = Cell(raw, m)
    BY <1>3
  <2>2. QED
    BY <2>1 DEF Cell
<1>5. EntrySize[raw] = m
  BY <1>4
<1>6. QED
  BY <1>2, <1>5

\* What a successful boot makes of the state.
LEMMA LastGives ==
    ASSUME BlockTypeOK, LastSucceeds
    PROVE  /\ cursor' = Len(bytes) /\ expected' = Len(bytes) /\ next' = Len(bytes)
           /\ cursor' \in Nat /\ expected' \in Nat /\ next' \in Nat
           /\ tip' \in [i : 0 .. MaxN, position : Nat]
           /\ tip' \in tips(bytes)
           /\ \/ tip' = NoTip /\ acked' = acked /\ Len(bytes) = FirstPosition
              \/ \E x \in last_data(bytes) :
                    /\ tip' = [i |-> x.raw[2], position |-> x.position]
                    /\ acked' = IF x.raw[2] \in DOMAIN acked THEN acked
                                ELSE [i \in DOMAIN acked \cup {x.raw[2]} |->
                                         IF i = x.raw[2] THEN x ELSE acked[i]]
           /\ DOMAIN acked' \subseteq 1 .. MaxN /\ acked' \in [DOMAIN acked' -> Acked]
<1>1. Len(bytes) \in Nat /\ bytes \in Seq(Cells)
  BY LenProperties DEF BlockTypeOK
<1>2. PICK t \in tips(bytes) :
          /\ tip' = t
          /\ acked' = IF t = NoTip \/ t.i \in DOMAIN acked THEN acked
                      ELSE [i \in DOMAIN acked \cup {t.i} |->
                               IF i = t.i THEN [raw |-> CHOOSE raw \in read_data(bytes, t.position) : TRUE,
                                                position |-> t.position]
                               ELSE acked[i]]
  BY DEF LastSucceeds
<1>3. /\ cursor' = Len(bytes) /\ expected' = Len(bytes) /\ next' = Len(bytes)
      /\ cursor' \in Nat /\ expected' \in Nat /\ next' \in Nat
  BY <1>1 DEF LastSucceeds, boot_cursor
<1>4. CASE Len(bytes) = FirstPosition
  <2>1. t = NoTip
    BY <1>2, <1>4 DEF tips
  <2>2. NoTip \in [i : 0 .. MaxN, position : Nat]
    BY StorageAssumption DEF NoTip
  <2>3. QED
    BY <1>2, <1>3, <1>4, <2>1, <2>2 DEF BlockTypeOK
<1>5. CASE Len(bytes) # FirstPosition
  <2>1. PICK x \in last_data(bytes) : t = [i |-> x.raw[2], position |-> x.position]
    BY <1>2, <1>5 DEF tips
  <2>2. /\ x.raw \in Raw /\ x.position \in Nat
        /\ x = [raw |-> x.raw, position |-> x.position] /\ Whole(bytes, x.raw, x.position)
    BY <1>1, LastIsWhole
  <2>3. t.i \in 1 .. MaxN /\ t # NoTip
    BY <2>1, <2>2, Sizes DEF NoTip
  <2>4. read_data(bytes, t.position) = {x.raw}
    <3>1. x.raw \in read_data(bytes, t.position)
      BY <1>1, <2>1, <2>2, ReadIsWhole
    <3>2. \A r \in read_data(bytes, t.position) : r \in Raw /\ Whole(bytes, r, t.position)
      BY <1>1, <2>1, <2>2, ReadIsWhole DEF read_data
    <3>3. QED
      BY <1>1, <2>1, <2>2, <3>1, <3>2, WholeApart
  <2>5. [raw |-> CHOOSE raw \in read_data(bytes, t.position) : TRUE, position |-> t.position] = x
    BY <2>1, <2>2, <2>4
  <2>6. acked' = IF x.raw[2] \in DOMAIN acked THEN acked
                 ELSE [i \in DOMAIN acked \cup {x.raw[2]} |->
                         IF i = x.raw[2] THEN x ELSE acked[i]]
    BY <1>2, <2>1, <2>3, <2>5
  <2>7. x \in Acked
    BY <2>2 DEF Acked
  <2>8. DOMAIN acked' \subseteq 1 .. MaxN /\ acked' \in [DOMAIN acked' -> Acked]
    BY <2>1, <2>3, <2>6, <2>7 DEF BlockTypeOK
  <2>9. tip' \in [i : 0 .. MaxN, position : Nat]
    BY <1>2, <2>1, <2>2, <2>3
  <2>10. QED
    BY <1>2, <1>3, <2>1, <2>6, <2>8, <2>9
<1>6. QED
  BY <1>4, <1>5

-----------------------------------------------------------------------------
(* Devices.                                                                *)

LEMMA WrittenCells ==
    ASSUME NEW b \in Seq(Cells), NEW p \in Nat, NEW c \in Cells
    PROVE  /\ written(b, p, c) \in Seq(Cells)
           /\ Len(written(b, p, c)) = IF p < Len(b) THEN Len(b) ELSE p + 1
           /\ written(b, p, c)[p + 1] = c
           /\ \A k \in 1 .. Len(b) : k # p + 1 => written(b, p, c)[k] = b[k]
<1> DEFINE m == Max({Len(b), p + 1})
<1>1. Len(b) \in Nat
  BY LenProperties
<1>2. m = IF p < Len(b) THEN Len(b) ELSE p + 1
  <2>1. PICK y \in {Len(b), p + 1} : \A z \in {Len(b), p + 1} : y >= z
    BY <1>1
  <2>2. m \in {Len(b), p + 1} /\ \A z \in {Len(b), p + 1} : m >= z
    BY <2>1 DEF Max
  <2>3. QED
    BY <1>1, <2>2
<1>3. m \in Nat /\ p + 1 \in 1 .. m /\ 1 .. Len(b) \subseteq 1 .. m
  BY <1>1, <1>2, SMTT(30)
<1> HIDE DEF m
<1>4. written(b, p, c) =
        [k \in 1 .. m |-> IF k = p + 1 THEN c ELSE IF k <= Len(b) THEN b[k] ELSE Zero]
  BY DEF written, m
<1>5. \A k \in 1 .. m : (IF k = p + 1 THEN c ELSE IF k <= Len(b) THEN b[k] ELSE Zero) \in Cells
  BY <1>1, CellFields, ElementOfSeq
<1>6. QED
  BY <1>1, <1>2, <1>3, <1>4, <1>5

LEMMA ResizedCells ==
    ASSUME NEW b \in Seq(Cells), NEW n \in Nat
    PROVE  /\ resized(b, n) \in Seq(Cells) /\ Len(resized(b, n)) = n
           /\ \A k \in 1 .. n : k <= Len(b) => resized(b, n)[k] = b[k]
<1>1. \A k \in 1 .. n : (IF k <= Len(b) THEN b[k] ELSE Zero) \in Cells
  BY LenProperties, CellFields, ElementOfSeq
<1>2. QED
  BY <1>1 DEF resized

\* What leaves the cells of an entry alone leaves it whole.
LEMMA KeepWhole ==
    ASSUME NEW b \in Seq(Cells), NEW c \in Seq(Cells), NEW raw \in Raw, NEW p \in Nat,
           Whole(b, raw, p), p + EntrySize[raw] <= Len(c),
           \A k \in 1 .. (p + EntrySize[raw]) : c[k] = b[k]
    PROVE  Whole(c, raw, p)
<1>1. EntrySize[raw] \in Nat
  BY Sizes
<1>2. ASSUME NEW k \in 1 .. EntrySize[raw] PROVE c[p + k] = Cell(raw, k)
  <2>1. p + k \in 1 .. (p + EntrySize[raw])
    BY <1>1
  <2>2. b[p + k] = Cell(raw, k)
    BY DEF Whole
  <2>3. QED
    BY <2>1, <2>2
<1>3. QED
  BY <1>2 DEF Whole

-----------------------------------------------------------------------------
(* While no call fails.                                                    *)

LEMMA ChainFacts ==
    ASSUME BlockTypeOK, NEW n \in Nat, Chain(n)
    PROVE  /\ \A k \in 1 .. n : /\ acked[k].raw \in Raw /\ acked[k].position \in Nat
                                /\ acked[k] = [raw |-> acked[k].raw, position |-> acked[k].position]
                                /\ EndOf(acked[k]) \in Nat /\ EndOf(acked[k]) <= ChainEnd(n)
                                /\ acked[k].position < EndOf(acked[k])
                                /\ acked[k].position >= FirstPosition
           /\ \A k \in 0 .. n : ChainEnd(k) \in Nat /\ FirstPosition <= ChainEnd(k)
                                /\ ChainEnd(k) <= ChainEnd(n)
           /\ n > 0 => FirstPosition < ChainEnd(n)
<1>1. FirstPosition \in Nat /\ DOMAIN acked = 1 .. n
  BY StorageAssumption DEF Chain
<1>2. ASSUME NEW k \in 1 .. n
      PROVE  /\ acked[k].raw \in Raw /\ acked[k].position \in Nat
             /\ acked[k] = [raw |-> acked[k].raw, position |-> acked[k].position]
             /\ EndOf(acked[k]) \in Nat /\ acked[k].position < EndOf(acked[k])
  <2>1. acked[k] \in Acked
    BY <1>1 DEF BlockTypeOK
  <2>2. QED
    BY <2>1, Sizes DEF Acked, EndOf
<1>3. ASSUME NEW k \in 1 .. n PROVE acked[k].position >= FirstPosition
  <2>1. CASE k = 1
    BY <1>1, <2>1 DEF Chain, ChainEnd
  <2>2. CASE k > 1
    <3>1. 1 \in 1 .. n /\ EndOf(acked[1]) <= acked[k].position
      BY <2>2 DEF Chain
    <3>2. acked[1].position = FirstPosition
      BY <3>1 DEF Chain, ChainEnd
    <3>3. QED
      BY <1>1, <1>2, <3>1, <3>2
  <2>3. QED
    BY <2>1, <2>2
<1>4. ASSUME NEW k \in 1 .. n PROVE EndOf(acked[k]) <= ChainEnd(n)
  <2>n. n \in 1 .. n
    OBVIOUS
  <2>t. /\ EndOf(acked[k]) \in Nat /\ EndOf(acked[n]) \in Nat /\ acked[n].position \in Nat
        /\ acked[n].position < EndOf(acked[n])
    BY <1>2, <2>n
  <2>1. CASE k = n
    BY <2>t, <2>1 DEF ChainEnd
  <2>2. CASE k < n
    <3>1. n \in 1 .. n /\ EndOf(acked[k]) <= acked[n].position
      BY <2>2 DEF Chain
    <3>2. ChainEnd(n) = EndOf(acked[n])
      BY <2>2 DEF ChainEnd
    <3>3. QED
      BY <2>t, <3>1, <3>2
  <2>3. QED
    BY <2>1, <2>2
<1>5. ASSUME NEW k \in 0 .. n
      PROVE  /\ ChainEnd(k) \in Nat /\ FirstPosition <= ChainEnd(k) /\ ChainEnd(k) <= ChainEnd(n)
             /\ k > 0 => FirstPosition < ChainEnd(k)
  <2>1. CASE k = 0
    <3>1. ChainEnd(k) = FirstPosition
      BY <2>1 DEF ChainEnd
    <3>2. CASE n = 0
      BY <1>1, <2>1, <3>1, <3>2
    <3>3. CASE n > 0
      <4>1. n \in 1 .. n /\ ChainEnd(n) = EndOf(acked[n])
        BY <3>3 DEF ChainEnd
      <4>2. QED
        BY <1>1, <1>2, <1>3, <2>1, <3>1, <4>1
    <3>4. QED
      BY <3>2, <3>3
  <2>2. CASE k > 0
    <3>1. k \in 1 .. n /\ ChainEnd(k) = EndOf(acked[k])
      BY <2>2 DEF ChainEnd
    <3>2. QED
      BY <1>1, <1>2, <1>3, <1>4, <3>1
  <2>3. QED
    BY <2>1, <2>2
<1>6. QED
  BY <1>2, <1>3, <1>4, <1>5

\* A device that ends where the entries do can be opened, and its tip is the
\* last of them.
LEMMA BootAtEnd ==
    ASSUME BlockTypeOK, NEW n \in Nat, Chain(n), is_slate(bytes), Len(bytes) = ChainEnd(n)
    PROVE  /\ boots(bytes) /\ tips(bytes) = {TipOf(n)}
           /\ n > 0 => last_data(bytes) = {acked[n]}
<1>1. bytes \in Seq(Cells) /\ FirstPosition \in Nat
  BY StorageAssumption DEF BlockTypeOK
<1>2. CASE n = 0
  <2>1. Len(bytes) = FirstPosition
    BY <1>2 DEF ChainEnd
  <2>2. QED
    BY <1>2, <2>1 DEF boots, tips, TipOf
<1>3. CASE n > 0
  <2>a. n \in 1 .. n /\ 1 \in 1 .. n
    BY <1>3
  <2>b. /\ \A k \in 1 .. n : /\ acked[k].raw \in Raw /\ acked[k].position \in Nat
                               /\ acked[k] = [raw |-> acked[k].raw, position |-> acked[k].position]
                               /\ acked[k].position >= FirstPosition
        /\ FirstPosition < ChainEnd(n)
    BY <1>3, ChainFacts
  <2>1. /\ n \in 1 .. n /\ 1 \in 1 .. n
        /\ acked[n].raw \in Raw /\ acked[n].position \in Nat /\ acked[n].position >= FirstPosition
        /\ acked[n] = [raw |-> acked[n].raw, position |-> acked[n].position]
        /\ acked[1].raw \in Raw
        /\ FirstPosition < Len(bytes)
    BY <2>a, <2>b
  <2>2. Whole(bytes, acked[n].raw, acked[n].position) /\ acked[n].raw[2] = n
    BY <2>1 DEF Chain
  <2>3. acked[n].position + EntrySize[acked[n].raw] = Len(bytes)
    BY <1>3 DEF ChainEnd, EndOf
  <2>4. last_data(bytes) = {acked[n]}
    BY <1>1, <2>1, <2>2, <2>3, LastIsThere
  <2>5. acked[1].raw \in read_data(bytes, FirstPosition)
    <3>1. acked[1].position = FirstPosition /\ Whole(bytes, acked[1].raw, acked[1].position)
      BY <2>1 DEF Chain, ChainEnd
    <3>2. QED
      BY <1>1, <2>1, <3>1, ReadIsWhole
  <2>6. boots(bytes)
    BY <2>4, <2>5 DEF boots
  <2>7. tips(bytes) = {[i |-> n, position |-> acked[n].position]}
    <3>1. tips(bytes) = {[i |-> x.raw[2], position |-> x.position] : x \in last_data(bytes)}
      BY <1>1, <2>1 DEF tips
    <3>2. QED
      BY <2>2, <2>4, <3>1
  <2>8. QED
    BY <1>3, <2>4, <2>6, <2>7 DEF TipOf
<1>4. QED
  BY <1>2, <1>3

\* A device that ends within the entry after them can be opened only if this
\* entry is whole, and is the tip then.
LEMMA BootBehind ==
    ASSUME BlockTypeOK, NEW n \in Nat, Chain(n), NEW raw, Torn(raw, n),
           Len(bytes) # ChainEnd(n), boots(bytes)
    PROVE  /\ Len(bytes) = ChainEnd(n) + EntrySize[raw]
           /\ Whole(bytes, raw, ChainEnd(n))
           /\ last_data(bytes) = {[raw |-> raw, position |-> ChainEnd(n)]}
           /\ tips(bytes) = {[i |-> n + 1, position |-> ChainEnd(n)]}
<1>1. /\ bytes \in Seq(Cells) /\ FirstPosition \in Nat /\ Len(bytes) \in Nat
      /\ raw \in Raw /\ raw[2] = n + 1 /\ EntrySize[raw] \in Nat /\ EntrySize[raw] > 1
      /\ ChainEnd(n) \in Nat /\ FirstPosition <= ChainEnd(n)
  BY StorageAssumption, LenProperties, ChainFacts, Sizes, SMTT(30) DEF BlockTypeOK, Torn
<1>2. /\ Len(bytes) \in (ChainEnd(n) + 1) .. (ChainEnd(n) + EntrySize[raw])
      /\ \A k \in 1 .. Len(bytes) - ChainEnd(n) : bytes[ChainEnd(n) + k] = Cell(raw, k)
  BY <1>1 DEF Torn
<1>3. last_data(bytes) # {}
  BY <1>1, <1>2 DEF boots
<1>4. Len(bytes) = ChainEnd(n) + EntrySize[raw]
  <2> SUFFICES ASSUME Len(bytes) # ChainEnd(n) + EntrySize[raw] PROVE FALSE
    OBVIOUS
  <2> DEFINE m == Len(bytes) - ChainEnd(n)
  <2>1. m \in 1 .. (EntrySize[raw] - 1) /\ ChainEnd(n) + m = Len(bytes) /\ m \in 1 .. Len(bytes) - ChainEnd(n)
    BY <1>1, <1>2, SMTT(30)
  <2>2. bytes[Len(bytes)] = Cell(raw, m)
    BY <1>2, <2>1
  <2> HIDE DEF m
  <2>3. QED
    BY <1>1, <1>3, <2>1, <2>2, TornIsRefused
<1>5. Whole(bytes, raw, ChainEnd(n))
  BY <1>1, <1>2, <1>4 DEF Whole
<1>6. last_data(bytes) = {[raw |-> raw, position |-> ChainEnd(n)]}
  BY <1>1, <1>4, <1>5, LastIsThere
<1>7. tips(bytes) = {[i |-> x.raw[2], position |-> x.position] : x \in last_data(bytes)}
  BY <1>1, <1>2 DEF tips
<1>8. QED
  BY <1>1, <1>4, <1>5, <1>6, <1>7

LEMMA SlateCells ==
    ASSUME NEW b \in Seq(Cells)
    PROVE  is_slate(b) <=> Len(b) >= 2 /\ b[1] = Magic[1] /\ b[2] = Magic[2]
<1>1. Len(b) \in Nat /\ Len(Magic) = 2 /\ Magic \in Seq(Cells)
  BY LenProperties, MagicCells
<1> SUFFICES ASSUME Len(b) >= 2
             PROVE  SubSeq(b, 1, 2) = Magic <=> b[1] = Magic[1] /\ b[2] = Magic[2]
  BY <1>1 DEF is_slate
<1>2. /\ SubSeq(b, 1, 2) \in Seq(Cells) /\ Len(SubSeq(b, 1, 2)) = 2
      /\ SubSeq(b, 1, 2)[1] = b[1] /\ SubSeq(b, 1, 2)[2] = b[2]
  <2>1. \A i \in 1 .. 2 : b[i] \in Cells
    BY <1>1, ElementOfSeq
  <2>2. /\ SubSeq(b, 1, 2) \in Seq(Cells)
        /\ Len(SubSeq(b, 1, 2)) = IF 1 <= 2 THEN (2 - 1) + 1 ELSE 0
        /\ \A i \in 1 .. (2 - 1) + 1 : SubSeq(b, 1, 2)[i] = b[(1 + i) - 1]
    BY <2>1, SubSeqProperties
  <2>3. QED
    BY <2>2
<1>3. ASSUME b[1] = Magic[1], b[2] = Magic[2] PROVE SubSeq(b, 1, 2) = Magic
  <2>1. \A i \in 1 .. 2 : SubSeq(b, 1, 2)[i] = Magic[i]
    <3>1. \A i \in 1 .. 2 : i = 1 \/ i = 2
      OBVIOUS
    <3>2. QED
      BY <1>2, <1>3, <3>1
  <2>2. QED
    BY <1>1, <1>2, <2>1, SeqEqual
<1>4. QED
  BY <1>2, <1>3

LEMMA ChainStays ==
    ASSUME BlockTypeOK, NEW n \in Nat, Chain(n), acked' = acked, bytes' \in Seq(Cells),
           Len(bytes') >= ChainEnd(n), \A k \in 1 .. ChainEnd(n) : bytes'[k] = bytes[k]
    PROVE  /\ Chain(n)' /\ ChainEnd(n)' = ChainEnd(n) /\ TipOf(n)' = TipOf(n)
           /\ is_slate(bytes) => is_slate(bytes')
<1>1. /\ bytes \in Seq(Cells) /\ Len(bytes) \in Nat /\ Len(bytes') \in Nat
      /\ ChainEnd(n) \in Nat /\ ChainEnd(n) >= 2
  BY LenProperties, ChainFacts, MagicCells DEF BlockTypeOK
<1>2. ChainEnd(n)' = ChainEnd(n) /\ TipOf(n)' = TipOf(n)
  BY DEF ChainEnd, TipOf, EndOf
<1>3. ASSUME NEW k \in 1 .. n PROVE Whole(bytes', acked[k].raw, acked[k].position)
  <2>1. /\ acked[k].raw \in Raw /\ acked[k].position \in Nat
        /\ EndOf(acked[k]) \in Nat /\ EndOf(acked[k]) <= ChainEnd(n)
    BY ChainFacts
  <2>2. Whole(bytes, acked[k].raw, acked[k].position)
    BY DEF Chain
  <2>3. /\ acked[k].position + EntrySize[acked[k].raw] <= Len(bytes')
        /\ \A i \in 1 .. (acked[k].position + EntrySize[acked[k].raw]) : bytes'[i] = bytes[i]
    BY <1>1, <2>1 DEF EndOf
  <2>4. QED
    BY <1>1, <2>1, <2>2, <2>3, KeepWhole
<1>4. \A k \in 1 .. n : ChainEnd(k - 1)' = ChainEnd(k - 1)
  BY DEF ChainEnd, EndOf
<1>5. Chain(n)'
  BY <1>3, <1>4 DEF Chain, EndOf
<1>6. is_slate(bytes) => is_slate(bytes')
  BY <1>1, SlateCells
<1>7. QED
  BY <1>2, <1>5, <1>6

LEMMA ChainGrows ==
    ASSUME BlockTypeOK, NEW n \in Nat, Chain(n), NEW raw \in Raw, raw[2] = n + 1,
           bytes' = bytes, Whole(bytes, raw, ChainEnd(n)),
           acked' = [i \in DOMAIN acked \cup {n + 1} |->
                        IF i = n + 1 THEN [raw |-> raw, position |-> ChainEnd(n)] ELSE acked[i]]
    PROVE  /\ Chain(n + 1)' /\ ChainEnd(n + 1)' = ChainEnd(n) + EntrySize[raw]
           /\ TipOf(n + 1)' = [i |-> n + 1, position |-> ChainEnd(n)]
<1> DEFINE x == [raw |-> raw, position |-> ChainEnd(n)]
<1>1. DOMAIN acked = 1 .. n /\ (1 .. n) \cup {n + 1} = 1 .. (n + 1) /\ n + 1 # 0
  BY DEF Chain
<1>2. /\ DOMAIN acked' = 1 .. (n + 1) /\ acked'[n + 1] = x
      /\ \A k \in 1 .. n : acked'[k] = acked[k]
  BY <1>1
<1>3. x.raw = raw /\ x.position = ChainEnd(n) /\ EndOf(x) = ChainEnd(n) + EntrySize[raw]
  BY DEF EndOf
<1> HIDE DEF x
<1>4. ChainEnd(n + 1)' = ChainEnd(n) + EntrySize[raw] /\ TipOf(n + 1)' = [i |-> n + 1, position |-> ChainEnd(n)]
  BY <1>1, <1>2, <1>3 DEF ChainEnd, TipOf, EndOf
<1>5. \A k \in 1 .. (n + 1) : ChainEnd(k - 1)' = ChainEnd(k - 1)
  BY <1>2 DEF ChainEnd, EndOf
<1>6. ASSUME NEW k \in 1 .. (n + 1)
      PROVE  /\ acked'[k].raw[2] = k /\ acked'[k].position = ChainEnd(k - 1)
             /\ Whole(bytes, acked'[k].raw, acked'[k].position)
  <2>1. CASE k \in 1 .. n
    BY <1>2, <2>1 DEF Chain
  <2>2. CASE k = n + 1
    BY <1>2, <1>3, <2>2
  <2>3. QED
    BY <2>1, <2>2
<1>7. ASSUME NEW k \in 1 .. (n + 1), NEW l \in 1 .. (n + 1), k < l
      PROVE  EndOf(acked'[k]) <= acked'[l].position
  <2>1. k \in 1 .. n
    BY <1>7
  <2>2. CASE l \in 1 .. n
    BY <1>2, <1>7, <2>1, <2>2 DEF Chain
  <2>3. CASE l = n + 1
    BY <1>2, <1>3, <2>1, <2>3, ChainFacts
  <2>4. QED
    BY <2>2, <2>3
<1>8. Chain(n + 1)'
  BY <1>2, <1>5, <1>6, <1>7, ZenonT(60) DEF Chain, EndOf
<1>9. QED
  BY <1>4, <1>8

LEMMA ChainCut ==
    ASSUME BlockTypeOK, NEW n \in Nat, Chain(n), NEW i \in 1 .. n, bytes' \in Seq(Cells),
           Len(bytes') = acked[i].position,
           \A k \in 1 .. acked[i].position : bytes'[k] = bytes[k],
           acked' = [k \in {m \in DOMAIN acked : m < i} |-> acked[k]]
    PROVE  /\ Chain(i - 1)' /\ ChainEnd(i - 1)' = acked[i].position
           /\ TipOf(i - 1)' = IF i = 1 THEN NoTip ELSE [i |-> i - 1, position |-> acked[i - 1].position]
           /\ is_slate(bytes) => is_slate(bytes')
<1>1. {m \in 1 .. n : m < i} = 1 .. (i - 1) /\ DOMAIN acked = 1 .. n
  BY DEF Chain
<1>2. /\ DOMAIN acked' = 1 .. (i - 1)
      /\ \A k \in 1 .. (i - 1) : k \in 1 .. n /\ acked'[k] = acked[k]
  BY <1>1
<1>3. acked[i].position = ChainEnd(i - 1) /\ acked[i].position \in Nat /\ acked[i].position >= 2
  BY ChainFacts, MagicCells DEF Chain
<1>4. \A k \in 1 .. i : ChainEnd(k - 1)' = ChainEnd(k - 1)
  BY <1>2 DEF ChainEnd, EndOf
<1>5. TipOf(i - 1)' = IF i = 1 THEN NoTip ELSE [i |-> i - 1, position |-> acked[i - 1].position]
  BY <1>2 DEF TipOf
<1>6. ASSUME NEW k \in 1 .. (i - 1)
      PROVE  /\ acked[k].raw[2] = k /\ acked[k].position = ChainEnd(k - 1)
             /\ Whole(bytes', acked[k].raw, acked[k].position)
  <2>1. /\ acked[k].raw \in Raw /\ acked[k].position \in Nat /\ EndOf(acked[k]) \in Nat
    BY <1>2, ChainFacts
  <2>2. /\ acked[k].raw[2] = k /\ acked[k].position = ChainEnd(k - 1)
        /\ Whole(bytes, acked[k].raw, acked[k].position)
        /\ EndOf(acked[k]) <= acked[i].position
    BY <1>2 DEF Chain
  <2>3. /\ acked[k].position + EntrySize[acked[k].raw] <= Len(bytes')
        /\ \A j \in 1 .. (acked[k].position + EntrySize[acked[k].raw]) : bytes'[j] = bytes[j]
    BY <1>3, <2>1, <2>2 DEF EndOf
  <2>4. bytes \in Seq(Cells)
    BY DEF BlockTypeOK
  <2>5. QED
    BY <2>1, <2>2, <2>3, <2>4, KeepWhole
<1>7. \A k, l \in 1 .. (i - 1) : k < l => EndOf(acked[k]) <= acked[l].position
  BY <1>2 DEF Chain
<1>8. Chain(i - 1)'
  <2>1. \A k \in 1 .. (i - 1) : ChainEnd(k - 1)' = ChainEnd(k - 1)
    BY <1>4
  <2>2. QED
    BY <1>2, <1>6, <1>7, <2>1, SMTT(30) DEF Chain, EndOf
<1>9. ChainEnd(i - 1)' = acked[i].position
  BY <1>3, <1>4
<1>10. is_slate(bytes) => is_slate(bytes')
  <2>1. bytes \in Seq(Cells) /\ Len(bytes) \in Nat
    BY LenProperties DEF BlockTypeOK
  <2>2. QED
    BY <1>3, <2>1, SlateCells
<1>11. QED
  BY <1>5, <1>8, <1>9, <1>10

-----------------------------------------------------------------------------
(* Reading the storage anew, which ends opening, boot and reload.          *)

CallType == [op : {"closed", "idle", "boot", "put", "reload"}, raw : Raw \cup {NoRaw},
             out : Seq(Cells), at : Nat]

LEMMA CallFields ==
    ASSUME NEW op \in {"closed", "idle", "boot", "put", "reload"}, NEW raw \in Raw \cup {NoRaw},
           NEW out \in Seq(Cells), NEW at \in Nat
    PROVE  /\ Call(op, raw, out, at) \in CallType
           /\ Call(op, raw, out, at).op = op /\ Call(op, raw, out, at).raw = raw
           /\ Call(op, raw, out, at).out = out /\ Call(op, raw, out, at).at = at
BY DEF Call, CallType

LEMMA RestCalls ==
    /\ Idle \in CallType /\ Idle.op = "idle" /\ Idle.out = <<>>
    /\ Closed \in CallType /\ Closed.op = "closed" /\ Closed.out = <<>>
BY DEF Idle, Closed, Call, CallType

LEMMA BootTypes ==
    ASSUME BlockTypeOK, LastSucceeds, call' = Idle, UNCHANGED <<device, user, bytes, spared, faults>>
    PROVE  BlockTypeOK'
<1>1. /\ cursor' \in Nat /\ expected' \in Nat /\ next' \in Nat
      /\ tip' \in [i : 0 .. MaxN, position : Nat]
      /\ DOMAIN acked' \subseteq 1 .. MaxN /\ acked' \in [DOMAIN acked' -> Acked]
  BY LastGives
<1>2. call' \in CallType /\ call'.op = "idle" /\ call'.out = <<>>
  BY RestCalls
<1>3. QED
  BY <1>1, <1>2 DEF BlockTypeOK, CallType

LEMMA CleanAfterBoot ==
    ASSUME BlockTypeOK, LastSucceeds, NEW n \in 0 .. MaxN, Chain(n), is_slate(bytes),
           Len(bytes) = ChainEnd(n) \/ \E raw \in Raw : Torn(raw, n),
           bytes' = bytes, call' = Idle
    PROVE  \E m \in {n, n + 1} \cap 0 .. MaxN : CleanAt(m)' /\ tip'.i = m
<1>1. call'.op = "idle" /\ n \in Nat
  BY RestCalls, StorageAssumption
<1>2. ASSUME NEW m \in {n, n + 1} \cap 0 .. MaxN, Chain(m)', ChainEnd(m)' = Len(bytes), tip' = TipOf(m)'
      PROVE  CleanAt(m)' /\ tip'.i = m
  <2>1. /\ next' = Len(bytes) /\ expected' = Len(bytes) /\ cursor' = Len(bytes)
    BY LastGives
  <2>2. tip'.i = m
    BY <1>2 DEF TipOf, NoTip
  <2>3. QED
    BY <1>1, <1>2, <2>1, <2>2 DEF CleanAt
<1>3. CASE Len(bytes) = ChainEnd(n)
  <2>1. tips(bytes) = {TipOf(n)} /\ (n > 0 => last_data(bytes) = {acked[n]})
    BY <1>1, <1>3, BootAtEnd
  <2>2. tip' = TipOf(n)
    BY <2>1, LastGives
  <2>3. acked' = acked
    <3>1. CASE n = 0
      <4>1. tip'.i = 0
        BY <2>2, <3>1 DEF TipOf, NoTip
      <4>2. ASSUME NEW x \in last_data(bytes) PROVE x.raw[2] # 0
        BY <4>2, LastIsWhole, Sizes DEF BlockTypeOK
      <4>3. ASSUME NEW x \in last_data(bytes), tip' = [i |-> x.raw[2], position |-> x.position]
            PROVE  FALSE
        <5>1. tip'.i = x.raw[2]
          BY <4>3
        <5>2. QED
          BY <4>1, <4>2, <5>1
      <4>4. QED
        BY <4>3, LastGives
    <3>2. CASE n > 0
      <4>1. n \in DOMAIN acked /\ n \in 1 .. n
        BY <1>1, <3>2 DEF Chain
      <4>2. acked[n].raw[2] \in DOMAIN acked
        BY <4>1 DEF Chain
      <4>3. QED
        BY <2>1, <3>2, <4>2, LastGives
    <3>3. QED
      BY <1>1, <3>1, <3>2
  <2>4. Chain(n)' /\ ChainEnd(n)' = ChainEnd(n) /\ TipOf(n)' = TipOf(n)
    <3>1. bytes' \in Seq(Cells) /\ Len(bytes') \in Nat
      BY LenProperties DEF BlockTypeOK
    <3>2. QED
      BY <1>1, <1>3, <2>3, <3>1, ChainStays
  <2>5. QED
    BY <1>2, <1>3, <2>2, <2>4
<1>4. CASE Len(bytes) # ChainEnd(n)
  <2>1. PICK raw \in Raw : Torn(raw, n)
    BY <1>4
  <2>2. boots(bytes)
    BY DEF LastSucceeds
  <2>3. /\ Len(bytes) = ChainEnd(n) + EntrySize[raw]
        /\ Whole(bytes, raw, ChainEnd(n))
        /\ last_data(bytes) = {[raw |-> raw, position |-> ChainEnd(n)]}
        /\ tips(bytes) = {[i |-> n + 1, position |-> ChainEnd(n)]}
    BY <1>1, <1>4, <2>1, <2>2, BootBehind
  <2>4. raw[2] = n + 1 /\ n + 1 \in 1 .. MaxN
    BY <2>1, Sizes DEF Torn
  <2>5. tip' = [i |-> n + 1, position |-> ChainEnd(n)]
    BY <2>3, LastGives
  <2>6. tip' # NoTip /\ n + 1 \notin DOMAIN acked
    BY <1>1, <2>5 DEF NoTip, Chain
  <2>7. acked' = [i \in DOMAIN acked \cup {n + 1} |->
                     IF i = n + 1 THEN [raw |-> raw, position |-> ChainEnd(n)] ELSE acked[i]]
    <3> DEFINE x == [raw |-> raw, position |-> ChainEnd(n)]
    <3>1. x.raw[2] = n + 1
      BY <2>4
    <3>2. acked' = IF x.raw[2] \in DOMAIN acked THEN acked
                   ELSE [i \in DOMAIN acked \cup {x.raw[2]} |-> IF i = x.raw[2] THEN x ELSE acked[i]]
      <4> HIDE DEF x
      <4>1. last_data(bytes) = {x}
        BY <2>3 DEF x
      <4>2. QED
        BY <2>6, <4>1, LastGives
    <3>3. QED
      BY <2>6, <3>1, <3>2
  <2>8. /\ Chain(n + 1)' /\ ChainEnd(n + 1)' = ChainEnd(n) + EntrySize[raw]
        /\ TipOf(n + 1)' = [i |-> n + 1, position |-> ChainEnd(n)]
    BY <1>1, <2>3, <2>4, <2>7, ChainGrows
  <2>9. n + 1 \in {n, n + 1} \cap 0 .. MaxN
    BY <2>4
  <2>10. CleanAt(n + 1)' /\ tip'.i = n + 1
    BY <1>2, <2>3, <2>5, <2>8, <2>9
  <2>11. QED
    BY <2>9, <2>10
<1>5. QED
  BY <1>3, <1>4

\* A Slate that reads what failing calls have left gets a tip that is one of
\* the entries to be spared or behind all of them.
LEMMA FaultyAfterBoot ==
    ASSUME BlockTypeOK, Faulty, LastSucceeds, call' = Idle,
           UNCHANGED <<device, user, bytes, spared, faults>>
    PROVE  Faulty'
<1>1. /\ bytes \in Seq(Cells) /\ Len(bytes) \in Nat
      /\ \A x \in spared : x.raw \in Raw /\ x.position \in Nat /\ EndOf(x) \in Nat
  BY LenProperties, Sizes, SMTT(30) DEF BlockTypeOK, Acked, EndOf
<1>2. call'.op = "idle"
  BY RestCalls
<1>3. next' = Len(bytes) /\ cursor' = Len(bytes) /\ expected' = Len(bytes)
  BY LastGives
<1>4. \A x \in spared : Whole(bytes, x.raw, x.position) /\ EndOf(x) <= Len(bytes)
  BY DEF Faulty, Whole, EndOf
<1>5. ASSUME NEW y \in last_data(bytes) PROVE SparedBefore(y.raw[2], y.position)
  <2> SUFFICES ASSUME NEW x \in spared, x.raw[2] < y.raw[2] PROVE EndOf(x) <= y.position
    BY DEF SparedBefore
  <2>1. /\ y.raw \in Raw /\ y.position \in Nat /\ Whole(bytes, y.raw, y.position)
        /\ EndOf(y) = Len(bytes)
    BY <1>1, LastIsWhole
  <2>2. /\ x.raw \in Raw /\ x.position \in Nat /\ Whole(bytes, x.raw, x.position)
        /\ EndOf(x) <= Len(bytes)
    BY <1>1, <1>4
  <2>3. /\ EntrySize[x.raw] \in Nat /\ EntrySize[x.raw] > 1
        /\ x.raw[2] \in Nat /\ y.raw[2] \in Nat
    BY <2>1, <2>2, Sizes
  <2>4. x.raw # y.raw
    BY <2>3
  <2>5. x.position # y.position
    BY <1>1, <2>1, <2>2, <2>4, WholeApart
  <2>6. ~(y.position < x.position)
    <3>1. SUFFICES ASSUME y.position < x.position PROVE FALSE
      OBVIOUS
    <3>2. y.position + EntrySize[y.raw] <= x.position
      BY <1>1, <2>1, <2>2, <3>1, WholeApart
    <3>3. QED
      BY <1>1, <2>1, <2>2, <2>3, <3>2 DEF EndOf
  <2>7. QED
    BY <1>1, <2>1, <2>2, <2>5, <2>6, WholeApart DEF EndOf
<1>6. SparedBefore(tip'.i, tip'.position)
  <2>1. SparedBefore(0, 0)
    BY <1>1, Sizes DEF SparedBefore
  <2>2. CASE tip' = NoTip
    BY <2>1, <2>2 DEF NoTip
  <2>3. ASSUME NEW x \in last_data(bytes), tip' = [i |-> x.raw[2], position |-> x.position]
        PROVE  SparedBefore(tip'.i, tip'.position)
    BY <1>5, <2>3
  <2>4. QED
    BY <2>2, <2>3, LastGives
<1>7. ASSUME NEW k \in DOMAIN acked' PROVE SparedBefore(k, acked'[k].position)
  <2>1. CASE k \in DOMAIN acked /\ acked'[k] = acked[k]
    BY <2>1 DEF Faulty
  <2>2. CASE \E x \in last_data(bytes) : k = x.raw[2] /\ acked'[k] = x
    BY <1>5, <2>2
  <2>3. QED
    <3>1. CASE acked' = acked
      BY <2>1, <3>1
    <3>2. CASE acked' # acked
      <4>1. PICK x \in last_data(bytes) :
               acked' = [i \in DOMAIN acked \cup {x.raw[2]} |-> IF i = x.raw[2] THEN x ELSE acked[i]]
        BY <3>2, LastGives
      <4>2. QED
        BY <2>1, <2>2, <4>1
    <3>3. QED
      BY <3>1, <3>2
<1>8. QED
  BY <1>1, <1>2, <1>3, <1>4, <1>6, <1>7 DEF Faulty, SparedBefore, EndOf

-----------------------------------------------------------------------------
(* Every step keeps the invariant.                                         *)

\* The entries of a chain when nothing is there yet.
LEMMA EmptyChain == ASSUME DOMAIN acked = {} PROVE Chain(0) /\ ChainEnd(0) = 2
<1>1. 1 .. 0 = {}
  OBVIOUS
<1>2. QED
  BY <1>1, BlockAssumption DEF Chain, ChainEnd

LEMMA BlockInvInit == ASSUME TraitDevice \subseteq {"memory"}, Init PROVE BlockInv
<1>1. /\ call \in CallType /\ call.op = "closed" /\ call.out = <<>>
  BY RestCalls DEF Init
<1>2. Len(bytes) = 0 /\ DOMAIN acked = {} /\ acked \in [DOMAIN acked -> Acked] /\ <<>> \in Seq(Cells)
  BY DEF Init
<1>3. NoTip \in [i : 0 .. MaxN, position : Nat] /\ 0 \in 0 .. MaxN
  BY StorageAssumption DEF NoTip
<1>4. BlockTypeOK
  BY <1>1, <1>2, <1>3, BlockAssumption DEF Init, BlockTypeOK, CallType
<1>5. CleanAt(0)
  BY <1>1, <1>2, EmptyChain, MagicCells DEF Init, CleanAt
<1>6. QED
  BY <1>3, <1>4, <1>5 DEF Init, BlockInv, Clean

LEMMA OpenKeeps == ASSUME BlockInv, Open PROVE BlockInv'
<1>1. BlockTypeOK /\ LastSucceeds /\ call' = Idle /\ UNCHANGED <<device, user, bytes, spared, faults>>
  BY DEF BlockInv, Open
<1>2. BlockTypeOK'
  BY <1>1, BootTypes
<1>3. ASSUME faults = 0 PROVE Clean'
  <2>1. PICK n \in 0 .. MaxN : CleanAt(n)
    BY <1>3 DEF BlockInv, Clean
  <2>2. is_slate(bytes) /\ ~(Len(bytes) < Len(Magic))
    <3>1. bytes \in Seq(Cells) /\ Len(bytes) \in Nat
      BY <1>1, LenProperties DEF BlockTypeOK
    <3>2. QED
      BY <1>1, <3>1, MagicCells DEF LastSucceeds, boots, is_slate
  <2>3. Chain(n) /\ (Len(bytes) = ChainEnd(n) \/ \E raw \in Raw : Torn(raw, n))
    BY <2>1, <2>2 DEF CleanAt, Open
  <2>4. \E m \in {n, n + 1} \cap 0 .. MaxN : CleanAt(m)' /\ tip'.i = m
    BY <1>1, <2>2, <2>3, CleanAfterBoot
  <2>5. QED
    BY <2>4 DEF Clean
<1>4. ASSUME faults # 0 PROVE Faulty'
  BY <1>1, <1>4, FaultyAfterBoot DEF BlockInv
<1>5. QED
  BY <1>1, <1>2, <1>3, <1>4 DEF BlockInv

LEMMA OpenEmptyKeeps == ASSUME BlockInv, OpenEmpty PROVE BlockInv'
<1>1. /\ BlockTypeOK /\ call.op = "closed" /\ bytes = <<>>
      /\ call' = Call("boot", NoRaw, Magic, 0)
      /\ UNCHANGED <<device, user, bytes, cursor, expected, next, tip, acked, spared, faults>>
  BY DEF BlockInv, OpenEmpty
<1>2. call' \in CallType /\ call'.op = "boot" /\ call'.out = Magic
  BY <1>1, CallFields, MagicCells, SMTT(30)
<1>3. BlockTypeOK'
  BY <1>1, <1>2 DEF BlockTypeOK, CallType
<1>4. ASSUME faults = 0 PROVE Clean'
  <2>1. PICK n \in 0 .. MaxN : CleanAt(n)
    BY <1>4 DEF BlockInv, Clean
  <2>2. ~is_slate(bytes) /\ Len(bytes) = 0
    <3>1. Len(bytes) = 0
      BY <1>1
    <3>2. QED
      BY <3>1, MagicCells DEF is_slate
  <2>3. n = 0 /\ Chain(0) /\ cursor = 0
    BY <1>1, <2>1, <2>2 DEF CleanAt
  <2>4. bytes' \o call'.out = Magic
    BY <1>1, <1>2, MagicCells, ConcatEmptySeq
  <2>5. Chain(0)'
    BY <1>1, <2>3 DEF Chain, ChainEnd, EndOf
  <2>6. CleanAt(0)'
    BY <1>1, <1>2, <2>2, <2>3, <2>4, <2>5 DEF CleanAt
  <2>7. QED
    BY <2>1, <2>3, <2>6 DEF Clean
<1>5. ASSUME faults # 0 PROVE Faulty'
  <2>1. spared = {}
    <3>1. SUFFICES ASSUME NEW x \in spared PROVE FALSE
      OBVIOUS
    <3>2. x.raw \in Raw /\ x.position \in Nat /\ Whole(bytes, x.raw, x.position)
      BY <1>1, <1>5 DEF BlockInv, Faulty, BlockTypeOK, Acked
    <3>3. x.position + EntrySize[x.raw] <= 0
      BY <1>1, <3>2 DEF Whole
    <3>4. QED
      BY <3>2, <3>3, Sizes
  <2>2. Faulty
    BY <1>5 DEF BlockInv
  <2>3. QED
    BY <1>1, <1>2, <2>1, <2>2 DEF Faulty, SparedBefore, EndOf
<1>6. QED
  BY <1>1, <1>3, <1>4, <1>5 DEF BlockInv

LEMMA FinishBootKeeps == ASSUME BlockInv, FinishBoot PROVE BlockInv'
<1>1. /\ BlockTypeOK /\ LastSucceeds /\ call.op = "boot" /\ call.out = <<>> /\ call' = Idle
      /\ UNCHANGED <<device, user, bytes, spared, faults>>
  BY DEF BlockInv, FinishBoot
<1>2. BlockTypeOK'
  BY <1>1, BootTypes
<1>3. ASSUME faults = 0 PROVE Clean'
  <2>1. PICK n \in 0 .. MaxN : CleanAt(n)
    BY <1>3 DEF BlockInv, Clean
  <2>2. n = 0 /\ Chain(n) /\ bytes \o <<>> = Magic
    BY <1>1, <2>1 DEF CleanAt
  <2>3. bytes = Magic
    BY <1>1, <2>2, ConcatEmptySeq DEF BlockTypeOK
  <2>4. is_slate(bytes) /\ Len(bytes) = ChainEnd(n)
    BY <2>2, <2>3, MagicCells, SlateCells DEF ChainEnd
  <2>5. \E m \in {n, n + 1} \cap 0 .. MaxN : CleanAt(m)' /\ tip'.i = m
    BY <1>1, <2>2, <2>4, CleanAfterBoot
  <2>6. QED
    BY <2>5 DEF Clean
<1>4. ASSUME faults # 0 PROVE Faulty'
  BY <1>1, <1>4, FaultyAfterBoot DEF BlockInv
<1>5. QED
  BY <1>1, <1>2, <1>3, <1>4 DEF BlockInv

LEMMA ReloadKeeps == ASSUME BlockInv, Reload PROVE BlockInv'
<1>1. /\ BlockTypeOK /\ LastSucceeds /\ call.op = "reload" /\ call' = Idle
      /\ UNCHANGED <<device, user, bytes, spared, faults>>
  BY DEF BlockInv, Reload
<1>2. BlockTypeOK'
  BY <1>1, BootTypes
<1>3. ASSUME faults = 0 PROVE Clean'
  <2>1. PICK n \in 0 .. MaxN : CleanAt(n)
    BY <1>3 DEF BlockInv, Clean
  <2>2. Chain(n) /\ is_slate(bytes) /\ Len(bytes) = ChainEnd(n)
    BY <1>1, <2>1 DEF CleanAt
  <2>3. \E m \in {n, n + 1} \cap 0 .. MaxN : CleanAt(m)' /\ tip'.i = m
    BY <1>1, <2>2, CleanAfterBoot
  <2>4. QED
    BY <2>3 DEF Clean
<1>4. ASSUME faults # 0 PROVE Faulty'
  BY <1>1, <1>4, FaultyAfterBoot DEF BlockInv
<1>5. QED
  BY <1>1, <1>2, <1>3, <1>4 DEF BlockInv

LEMMA StartPutKeeps == ASSUME BlockInv, NEW v \in Value, StartPut(v) PROVE BlockInv'
<1> DEFINE raw == <<v, tip.i + 1>>
<1>1. /\ BlockTypeOK /\ call.op = "idle" /\ tip.i < MaxN /\ tip.i \in 0 .. MaxN /\ MaxN \in Nat
      /\ cursor' = (IF expected # next THEN next ELSE cursor) /\ expected' = next
      /\ call' = Call("put", raw, write_data(raw), next)
      /\ UNCHANGED <<device, user, bytes, next, tip, acked, spared, faults>>
  BY StorageAssumption DEF BlockInv, StartPut, BlockTypeOK
<1>2. raw \in Raw /\ raw[2] = tip.i + 1
  BY <1>1 DEF Raw
<1> HIDE DEF raw
<1>3. /\ write_data(raw) \in Seq(Cells) /\ Len(write_data(raw)) = EntrySize[raw]
      /\ \A k \in 1 .. EntrySize[raw] : write_data(raw)[k] = Cell(raw, k)
      /\ EntrySize[raw] \in Nat
  BY <1>2, DataCells, Sizes
<1>4. /\ call' \in CallType /\ call'.op = "put" /\ call'.raw = raw /\ call'.at = next
      /\ call'.out = write_data(raw)
  BY <1>1, <1>2, <1>3, CallFields, SMTT(30) DEF BlockTypeOK
<1>5. BlockTypeOK'
  BY <1>1, <1>2, <1>4 DEF BlockTypeOK, CallType
<1>6. ASSUME faults = 0 PROVE Clean'
  <2>1. PICK n \in 0 .. MaxN : CleanAt(n)
    BY <1>6 DEF BlockInv, Clean
  <2>2. /\ Chain(n) /\ next = ChainEnd(n) /\ expected = next /\ cursor = Len(bytes)
        /\ tip = TipOf(n) /\ Len(bytes) = next /\ is_slate(bytes) /\ n \in Nat
    BY <1>1, <2>1 DEF CleanAt
  <2>3. Chain(n)' /\ ChainEnd(n)' = ChainEnd(n) /\ TipOf(n)' = TipOf(n)
    BY <1>1, <2>2 DEF Chain, ChainEnd, TipOf, EndOf
  <2>4. tip.i = n
    BY <2>2 DEF TipOf, NoTip
  <2>5. Len(bytes) \in Nat /\ Len(bytes) - ChainEnd(n) = 0 /\ Len(bytes) - next = 0
    BY <1>1, <2>2, LenProperties DEF BlockTypeOK
  <2>6. Torn(call.raw, n)'
    <3>1. \A k \in 1 .. 0 : FALSE
      OBVIOUS
    <3>2. Len(bytes) \in ChainEnd(n) .. (ChainEnd(n) + EntrySize[raw])
      BY <1>3, <2>2, <2>5
    <3>3. QED
      BY <1>1, <1>2, <1>4, <2>3, <2>4, <2>5, <3>1, <3>2 DEF Torn
  <2>7. /\ Len(bytes) + Len(call'.out) = next + EntrySize[raw]
        /\ \A k \in 1 .. Len(call'.out) : call'.out[k] = Cell(raw, (Len(bytes) - next) + k)
    BY <1>3, <1>4, <2>2, <2>5
  <2>8. CleanAt(n)'
    BY <1>1, <1>4, <2>2, <2>3, <2>6, <2>7 DEF CleanAt
  <2>9. QED
    BY <2>8 DEF Clean
<1>7. ASSUME faults # 0 PROVE Faulty'
  <2>1. Faulty
    BY <1>7 DEF BlockInv
  <2>2. next \in Nat /\ cursor \in Nat
    BY <1>1 DEF BlockTypeOK
  <2>3. device = "file" => cursor' >= next
    BY <1>1, <2>1, <2>2 DEF Faulty
  <2>4. EntrySize[raw] - Len(call'.out) = 0 /\ Len(call'.out) <= EntrySize[raw]
    BY <1>3, <1>4
  <2>5. device = "file" => cursor' >= next + (EntrySize[raw] - Len(call'.out))
    BY <1>1, <2>2, <2>3, <2>4
  <2>6. QED
    BY <1>1, <1>4, <2>1, <2>4, <2>5 DEF Faulty, SparedBefore, EndOf
<1>8. QED
  BY <1>1, <1>5, <1>6, <1>7 DEF BlockInv

\* Where a write goes: behind all cells if nothing has failed, and behind the
\* entries to be spared in any case.
LEMMA WriteKeeps == ASSUME BlockInv, Write PROVE BlockInv'
<1> DEFINE p == write_at(device, bytes, cursor)
<1>1. /\ BlockTypeOK /\ call.out # <<>>
      /\ bytes' = written(bytes, p, Head(call.out)) /\ cursor' = p + 1
      /\ call' = [call EXCEPT !.out = Tail(@)]
      /\ UNCHANGED <<device, user, expected, next, tip, acked, spared, faults>>
  BY DEF BlockInv, Write
<1>2. /\ bytes \in Seq(Cells) /\ Len(bytes) \in Nat /\ cursor \in Nat /\ p \in Nat
      /\ call \in CallType /\ call.out \in Seq(Cells) /\ call.op \in {"boot", "put"}
      /\ next \in Nat
  BY <1>1, LenProperties DEF BlockTypeOK, CallType, write_at
<1> HIDE DEF p
<1> DEFINE rest == Tail(call.out)
<1>3. /\ Head(call.out) \in Cells /\ rest \in Seq(Cells)
      /\ Len(rest) = Len(call.out) - 1 /\ Len(call.out) \in Nat \ {0}
      /\ \A i \in 1 .. Len(rest) : rest[i] = call.out[i + 1]
      /\ Head(call.out) = call.out[1]
  BY <1>1, <1>2, HeadTailProperties, EmptySeq
<1>11. call' = [call EXCEPT !.out = rest]
  BY <1>1
<1> HIDE DEF rest
<1>4. /\ call' \in CallType /\ call'.op = call.op /\ call'.raw = call.raw /\ call'.at = call.at
      /\ call'.out = rest
  BY <1>2, <1>3, <1>11 DEF CallType
<1>5. /\ bytes' \in Seq(Cells)
      /\ Len(bytes') = IF p < Len(bytes) THEN Len(bytes) ELSE p + 1
      /\ bytes'[p + 1] = Head(call.out)
      /\ \A k \in 1 .. Len(bytes) : k # p + 1 => bytes'[k] = bytes[k]
  <2>1. bytes' = written(bytes, p, Head(call.out))
    BY <1>1
  <2>2. bytes \in Seq(Cells) /\ p \in Nat /\ Head(call.out) \in Cells
    BY <1>2, <1>3
  <2>3. QED
    BY <2>1, <2>2, WrittenCells
<1>10. /\ Len(bytes) \in Nat /\ Len(call.out) \in Nat \ {0} /\ Len(rest) \in Nat
      /\ Len(rest) + 1 = Len(call.out)
  BY <1>2, <1>3
<1>6. BlockTypeOK'
  <2>1. cursor' \in Nat
    BY <1>1, <1>2
  <2>2. call'.op = "put" => call'.raw \in Raw
    BY <1>1, <1>4 DEF BlockTypeOK
  <2>3. ~(call'.op \in {"closed", "idle", "reload"})
    BY <1>2, <1>4
  <2>4. QED
    BY <1>1, <1>4, <1>5, <2>1, <2>2, <2>3 DEF BlockTypeOK, CallType
<1>7. ASSUME faults = 0 PROVE Clean'
  <2>1. PICK n \in 0 .. MaxN : CleanAt(n)
    BY <1>7 DEF BlockInv, Clean
  <2>2. Chain(n) /\ cursor = Len(bytes) /\ n \in Nat
    BY <1>2, <2>1 DEF CleanAt
  <2>3. p = Len(bytes)
    BY <2>2 DEF write_at, p
  <2>4. /\ Len(bytes') = Len(bytes) + 1 /\ bytes'[Len(bytes) + 1] = Head(call.out)
        /\ \A k \in 1 .. Len(bytes) : bytes'[k] = bytes[k]
    BY <1>2, <1>5, <2>3
  <2>5. CASE call.op = "boot"
    <3>1. n = 0 /\ bytes \o call.out = Magic /\ Chain(0)
      BY <2>1, <2>2, <2>5 DEF CleanAt
    <3>2. bytes' \o rest = Magic
      <4>1. Len(bytes) + Len(call.out) = 2 /\ Magic \in Seq(Cells) /\ Len(Magic) = 2
        BY <1>2, <3>1, ConcatProperties, MagicCells
      <4>2. /\ bytes' \o rest \in Seq(Cells)
            /\ Len(bytes' \o rest) = Len(bytes') + Len(rest)
            /\ \A i \in 1 .. Len(bytes') + Len(rest) : (bytes' \o rest)[i] =
                  IF i <= Len(bytes') THEN bytes'[i] ELSE rest[i - Len(bytes')]
        BY <1>3, <1>5, ConcatProperties
      <4>3. \A i \in 1 .. Len(bytes) + Len(call.out) : Magic[i] =
                  IF i <= Len(bytes) THEN bytes[i] ELSE call.out[i - Len(bytes)]
        BY <1>2, <3>1, ConcatProperties
      <4>4. ASSUME NEW i \in 1 .. 2 PROVE (bytes' \o rest)[i] = Magic[i]
        <5>1. i \in 1 .. Len(bytes) + Len(call.out) /\ i \in 1 .. Len(bytes') + Len(rest)
          <6>1. Len(bytes') + Len(rest) = Len(bytes) + Len(call.out)
            <7>1. Len(bytes') = Len(bytes) + 1
              BY <2>4
            <7>2. QED
              BY <1>10, <7>1
          <6>2. Len(bytes) + Len(call.out) = 2
            BY <4>1
          <6>3. QED
            BY <6>1, <6>2
        <5>2. CASE i <= Len(bytes)
          BY <1>2, <2>4, <4>2, <4>3, <5>1, <5>2
        <5>3. CASE i = Len(bytes) + 1
          <6>1. Magic[i] = call.out[1]
            BY <1>2, <4>3, <5>1, <5>3
          <6>2. QED
            BY <1>2, <1>3, <2>4, <4>2, <5>1, <5>3, <6>1
        <5>4. CASE i > Len(bytes) + 1
          <6>1. Magic[i] = call.out[i - Len(bytes)]
            BY <1>2, <4>3, <5>1, <5>4
          <6>2. (bytes' \o rest)[i] = rest[i - Len(bytes')]
            BY <1>2, <2>4, <4>2, <5>1, <5>4
          <6>3. i - Len(bytes') \in 1 .. Len(rest) /\ (i - Len(bytes')) + 1 = i - Len(bytes)
            BY <1>2, <1>3, <2>4, <5>1, <5>4
          <6>4. QED
            BY <1>3, <6>1, <6>2, <6>3
        <5>5. QED
          <6>1. i <= Len(bytes) \/ i = Len(bytes) + 1 \/ i > Len(bytes) + 1
            <7>1. Len(bytes) \in Nat
              BY <1>10
            <7>2. QED
              BY <7>1
          <6>2. QED
            BY <5>2, <5>3, <5>4, <6>1
      <4>5. Len(bytes' \o rest) = 2
        <5>1. Len(bytes') = Len(bytes) + 1 /\ Len(bytes' \o rest) = Len(bytes') + Len(rest)
          BY <2>4, <4>2
        <5>2. Len(bytes) + Len(call.out) = 2
          BY <4>1
        <5>3. QED
          BY <1>10, <5>1, <5>2
      <4>6. QED
        BY <4>1, <4>2, <4>4, <4>5, SeqEqual
    <3>3. Chain(0)'
      <4>1. DOMAIN acked = {}
        BY <3>1 DEF Chain
      <4>2. \A k \in 1 .. 0 : FALSE
        OBVIOUS
      <4>3. QED
        BY <1>1, <4>1, <4>2 DEF Chain
    <3>4. CleanAt(0)'
      BY <1>1, <1>4, <2>3, <2>4, <2>5, <3>2, <3>3 DEF CleanAt
    <3>5. QED
      BY <2>1, <3>1, <3>4 DEF Clean
  <2>6. CASE call.op = "put"
    <3>1. /\ next = ChainEnd(n) /\ expected = next /\ tip = TipOf(n) /\ is_slate(bytes)
          /\ Torn(call.raw, n) /\ call.at = next
          /\ Len(bytes) + Len(call.out) = next + EntrySize[call.raw]
          /\ \A k \in 1 .. Len(call.out) : call.out[k] = Cell(call.raw, (Len(bytes) - next) + k)
      BY <2>1, <2>6 DEF CleanAt
    <3>2. /\ call.raw \in Raw /\ call.raw[2] = n + 1 /\ EntrySize[call.raw] \in Nat
          /\ Len(bytes) \in ChainEnd(n) .. (ChainEnd(n) + EntrySize[call.raw])
          /\ \A k \in 1 .. Len(bytes) - ChainEnd(n) : bytes[ChainEnd(n) + k] = Cell(call.raw, k)
      BY <3>1, Sizes DEF Torn
    <3>3. Len(bytes) >= ChainEnd(n) /\ ChainEnd(n) \in Nat
      BY <1>2, <3>1, <3>2
    <3>4. /\ Chain(n)' /\ ChainEnd(n)' = ChainEnd(n) /\ TipOf(n)' = TipOf(n) /\ is_slate(bytes')
      <4>1. Len(bytes') >= ChainEnd(n) /\ \A k \in 1 .. ChainEnd(n) : bytes'[k] = bytes[k]
        BY <1>2, <2>4, <3>3
      <4>2. QED
        BY <1>1, <1>5, <2>2, <3>1, <4>1, ChainStays
    <3>5. /\ Len(bytes') \in ChainEnd(n) .. (ChainEnd(n) + EntrySize[call.raw])
          /\ Len(bytes') + Len(rest) = next + EntrySize[call.raw]
      <4>1. Len(bytes') = Len(bytes) + 1
        BY <2>4
      <4>2. Len(bytes) + Len(call.out) = next + EntrySize[call.raw] /\ next = ChainEnd(n)
        BY <3>1
      <4>3. EntrySize[call.raw] \in Nat /\ Len(bytes) >= ChainEnd(n) /\ ChainEnd(n) \in Nat
        BY <3>2, <3>3
      <4>4. Len(bytes') + Len(rest) = next + EntrySize[call.raw]
        BY <1>10, <4>1, <4>2, <4>3, SMTT(30)
      <4>5. ChainEnd(n) <= Len(bytes') /\ Len(bytes') <= ChainEnd(n) + EntrySize[call.raw]
        BY <1>10, <4>1, <4>2, <4>3
      <4>6. QED
        BY <1>10, <4>1, <4>3, <4>4, <4>5
    <3>6. \A k \in 1 .. Len(bytes') - ChainEnd(n) : bytes'[ChainEnd(n) + k] = Cell(call.raw, k)
      <4> SUFFICES ASSUME NEW k \in 1 .. Len(bytes') - ChainEnd(n)
                   PROVE  bytes'[ChainEnd(n) + k] = Cell(call.raw, k)
        OBVIOUS
      <4>1. CASE ChainEnd(n) + k <= Len(bytes)
        BY <1>2, <2>4, <3>2, <3>3, <4>1, SMTT(30)
      <4>2. CASE ChainEnd(n) + k = Len(bytes) + 1
        <5>1. (Len(bytes) - next) + 1 = k
          BY <1>2, <3>1, <3>3, <4>2, SMTT(30)
        <5>2. call.out[1] = Cell(call.raw, (Len(bytes) - next) + 1)
          BY <1>3, <3>1
        <5>3. QED
          BY <1>3, <2>4, <4>2, <5>1, <5>2
      <4>3. QED
        BY <1>2, <2>4, <3>3, <4>1, <4>2
    <3>7. \A k \in 1 .. Len(rest) : rest[k] = Cell(call.raw, (Len(bytes') - next) + k)
      <4> SUFFICES ASSUME NEW k \in 1 .. Len(rest)
                   PROVE  rest[k] = Cell(call.raw, (Len(bytes') - next) + k)
        OBVIOUS
      <4>1. k + 1 \in 1 .. Len(call.out) /\ (Len(bytes) - next) + (k + 1) = (Len(bytes') - next) + k
        BY <1>2, <1>3, <2>4
      <4>2. QED
        BY <1>3, <3>1, <4>1
    <3>8. Torn(call.raw, n)'
      BY <1>4, <3>2, <3>4, <3>5, <3>6 DEF Torn
    <3>9. cursor' = Len(bytes')
      BY <1>1, <2>3, <2>4
    <3>10. CleanAt(n)'
      BY <1>1, <1>4, <2>6, <3>1, <3>4, <3>5, <3>7, <3>8, <3>9 DEF CleanAt
    <3>11. QED
      BY <3>10 DEF Clean
  <2>7. QED
    BY <1>2, <2>5, <2>6
<1>8. ASSUME faults # 0 PROVE Faulty'
  <2>1. Faulty
    BY <1>8 DEF BlockInv
  <2>2. ASSUME NEW x \in spared PROVE Whole(bytes', x.raw, x.position) /\ EndOf(x) <= next /\ call.op = "put"
    <3>1. /\ x.raw \in Raw /\ x.position \in Nat /\ EntrySize[x.raw] \in Nat
          /\ Whole(bytes, x.raw, x.position)
      BY <1>1, <2>1, Sizes DEF Faulty, BlockTypeOK, Acked
    <3>2. call.op = "put" /\ EndOf(x) <= next /\ EndOf(x) <= Len(bytes) /\ EndOf(x) \in Nat
      BY <1>2, <2>1, <3>1 DEF Faulty, Whole, EndOf
    <3>3. p >= EndOf(x)
      <4>1. CASE device = "append"
        BY <3>2, <4>1 DEF p, write_at
      <4>2. CASE device = "file"
        <5>1. /\ cursor >= next + (EntrySize[call.raw] - Len(call.out))
              /\ Len(call.out) <= EntrySize[call.raw] /\ EntrySize[call.raw] \in Nat
          BY <1>1, <2>1, <3>2, <4>2, Sizes DEF Faulty, BlockTypeOK
        <5>2. p = cursor
          BY <4>2 DEF p, write_at
        <5>3. QED
          BY <1>2, <1>3, <3>2, <5>1, <5>2
      <4>3. QED
        BY <1>1, <2>1, <4>1, <4>2 DEF Faulty, BlockTypeOK
    <3>4. /\ EndOf(x) <= Len(bytes')
          /\ \A k \in 1 .. EndOf(x) : bytes'[k] = bytes[k]
      BY <1>2, <1>5, <3>2, <3>3
    <3>5. Whole(bytes', x.raw, x.position)
      BY <1>2, <1>5, <3>1, <3>4, KeepWhole DEF EndOf
    <3>6. QED
      BY <3>2, <3>5
  <2>3. call.op = "put" /\ device = "file" =>
           cursor' >= next + (EntrySize[call.raw] - Len(rest))
    <3> SUFFICES ASSUME call.op = "put", device = "file"
                 PROVE  cursor' >= next + (EntrySize[call.raw] - Len(rest))
      OBVIOUS
    <3>1. /\ cursor >= next + (EntrySize[call.raw] - Len(call.out)) /\ EntrySize[call.raw] \in Nat
      BY <1>1, <2>1, Sizes DEF Faulty, BlockTypeOK
    <3>2. cursor' = cursor + 1
      BY <1>1 DEF p, write_at
    <3>3. QED
      BY <1>2, <1>3, <3>1, <3>2, SMTT(30)
  <2>4. call.op = "put" => Len(rest) <= EntrySize[call.raw]
    BY <1>1, <1>3, <2>1, Sizes DEF Faulty, BlockTypeOK
  <2>5. \A k \in DOMAIN acked : SparedBefore(k, acked[k].position)'
    BY <1>1, <2>1 DEF Faulty, SparedBefore, EndOf
  <2>6. SparedBefore(tip.i, tip.position)'
    BY <1>1, <2>1 DEF Faulty, SparedBefore, EndOf
  <2>7. \A x \in spared' : Whole(bytes', x.raw, x.position) /\ EndOf(x) <= next'
    BY <1>1, <2>2
  <2>8. device' # "memory" /\ (call'.op = "boot" => spared' = {})
        /\ (call'.op = "put" => call'.at = next' /\ expected' = next')
    BY <1>1, <1>4, <2>1 DEF Faulty
  <2>9. QED
    BY <1>1, <1>2, <1>4, <2>3, <2>4, <2>5, <2>6, <2>7, <2>8 DEF Faulty, SparedBefore, EndOf
<1>9. QED
  BY <1>1, <1>6, <1>7, <1>8 DEF BlockInv

LEMMA FinishPutKeeps == ASSUME BlockInv, FinishPut PROVE BlockInv'
<1> DEFINE raw == call.raw
<1>1. /\ BlockTypeOK /\ call.op = "put" /\ call.out = <<>>
      /\ expected' = expected + EntrySize[raw] /\ next' = expected'
      /\ tip' = [i |-> raw[2], position |-> call.at]
      /\ acked' = [i \in DOMAIN acked \cup {raw[2]} |->
                      IF i = raw[2] THEN [raw |-> raw, position |-> call.at] ELSE acked[i]]
      /\ call' = Idle
      /\ UNCHANGED <<device, user, bytes, cursor, spared, faults>>
  BY DEF BlockInv, FinishPut
<1>2. /\ raw \in Raw /\ EntrySize[raw] \in Nat /\ EntrySize[raw] > 1 /\ raw[2] \in 1 .. MaxN
      /\ call.at \in Nat /\ expected \in Nat /\ next \in Nat /\ cursor \in Nat
      /\ bytes \in Seq(Cells) /\ Len(bytes) \in Nat /\ Len(call.out) = 0
  BY <1>1, Sizes, LenProperties DEF BlockTypeOK
<1> HIDE DEF raw
<1>3. call' \in CallType /\ call'.op = "idle" /\ call'.out = <<>>
  BY <1>1, RestCalls
<1>4. BlockTypeOK'
  <2>1. DOMAIN acked' \subseteq 1 .. MaxN
    BY <1>1, <1>2 DEF BlockTypeOK
  <2>2. acked' \in [DOMAIN acked' -> Acked]
    BY <1>1, <1>2 DEF BlockTypeOK, Acked
  <2>3. tip' \in [i : 0 .. MaxN, position : Nat]
    BY <1>1, <1>2
  <2>4. expected' \in Nat /\ next' \in Nat
    BY <1>1, <1>2
  <2>5. QED
    BY <1>1, <1>3, <2>1, <2>2, <2>3, <2>4 DEF BlockTypeOK, CallType
<1>5. ASSUME faults = 0 PROVE Clean'
  <2>1. PICK n \in 0 .. MaxN : CleanAt(n)
    BY <1>5 DEF BlockInv, Clean
  <2>2. /\ Chain(n) /\ next = ChainEnd(n) /\ expected = next /\ cursor = Len(bytes) /\ is_slate(bytes)
        /\ Torn(raw, n) /\ call.at = next /\ Len(bytes) + Len(call.out) = next + EntrySize[raw]
    BY <1>1, <2>1 DEF CleanAt, raw
  <2>3. /\ raw[2] = n + 1 /\ n \in Nat /\ n + 1 \in 0 .. MaxN
        /\ Len(bytes) = ChainEnd(n) + EntrySize[raw] /\ ChainEnd(n) \in Nat
    BY <1>2, <2>2 DEF Torn
  <2>4. Whole(bytes, raw, ChainEnd(n))
    <3>1. /\ Len(bytes) - ChainEnd(n) = EntrySize[raw]
          /\ \A k \in 1 .. Len(bytes) - ChainEnd(n) : bytes[ChainEnd(n) + k] = Cell(raw, k)
      BY <1>2, <2>2, <2>3 DEF Torn
    <3>2. QED
      BY <1>2, <2>3, <3>1 DEF Whole
  <2>5. /\ Chain(n + 1)' /\ ChainEnd(n + 1)' = ChainEnd(n) + EntrySize[raw]
        /\ TipOf(n + 1)' = [i |-> n + 1, position |-> ChainEnd(n)]
    <3>1. /\ BlockTypeOK /\ n \in Nat /\ Chain(n) /\ raw \in Raw /\ raw[2] = n + 1
          /\ bytes' = bytes /\ Whole(bytes, raw, ChainEnd(n))
      BY <1>1, <1>2, <2>2, <2>3, <2>4
    <3>2. call.at = ChainEnd(n)
      BY <2>2
    <3>3. acked' = [i \in DOMAIN acked \cup {n + 1} |->
                       IF i = n + 1 THEN [raw |-> raw, position |-> ChainEnd(n)] ELSE acked[i]]
      BY <1>1, <2>3, <3>2
    <3>4. QED
      BY <3>1, <3>3, ChainGrows
  <2>6. CleanAt(n + 1)'
    <3>1. next' = ChainEnd(n + 1)' /\ expected' = next' /\ cursor' = Len(bytes') /\ Len(bytes') = next'
      BY <1>1, <2>2, <2>3, <2>5
    <3>2. tip' = TipOf(n + 1)'
      BY <1>1, <2>2, <2>3, <2>5
    <3>3. QED
      BY <1>1, <1>3, <2>2, <2>5, <3>1, <3>2 DEF CleanAt
  <2>7. QED
    BY <2>3, <2>6 DEF Clean
<1>6. ASSUME faults # 0 PROVE Faulty'
  <2>1. Faulty /\ call.at = next /\ expected = next
    BY <1>1, <1>6 DEF BlockInv, Faulty
  <2>2. next' = next + EntrySize[raw] /\ next' \in Nat
    BY <1>1, <1>2, <2>1
  <2>3. ASSUME NEW x \in spared PROVE EndOf(x) <= next /\ EndOf(x) <= next' /\ Whole(bytes, x.raw, x.position)
    <3>1. EndOf(x) \in Nat /\ EndOf(x) <= next /\ Whole(bytes, x.raw, x.position)
      BY <1>1, <2>1, Sizes DEF Faulty, BlockTypeOK, Acked, EndOf
    <3>2. QED
      BY <1>2, <2>2, <3>1
  <2>4. SparedBefore(raw[2], next)
    BY <2>3 DEF SparedBefore
  <2>5. \A k \in DOMAIN acked' : SparedBefore(k, acked'[k].position)
    <3> SUFFICES ASSUME NEW k \in DOMAIN acked' PROVE SparedBefore(k, acked'[k].position)
      OBVIOUS
    <3>1. CASE k = raw[2]
      <4>1. acked'[k].position = call.at
        BY <1>1, <3>1
      <4>2. QED
        BY <2>1, <2>4, <3>1, <4>1
    <3>2. CASE k # raw[2]
      <4>1. k \in DOMAIN acked /\ acked'[k] = acked[k]
        BY <1>1, <3>2
      <4>2. QED
        BY <2>1, <4>1 DEF Faulty
    <3>3. QED
      BY <3>1, <3>2
  <2>6. SparedBefore(tip'.i, tip'.position)
    BY <1>1, <2>1, <2>4
  <2>7. device = "file" => cursor >= next'
    <3>1. device = "file" => cursor >= next + (EntrySize[raw] - Len(call.out))
      BY <1>1, <2>1 DEF Faulty, raw
    <3>2. QED
      BY <1>2, <2>2, <3>1
  <2>8. QED
    BY <1>1, <1>3, <2>1, <2>3, <2>5, <2>6, <2>7 DEF Faulty, SparedBefore, EndOf
<1>7. QED
  BY <1>1, <1>4, <1>5, <1>6 DEF BlockInv

\* What a chain gives when the first call fails.
LEMMA ChainIsSpared ==
    ASSUME BlockTypeOK, NEW n \in Nat, Chain(n), NEW i \in DOMAIN acked
    PROVE  /\ acked[i].raw[2] = i /\ i \in 1 .. n
           /\ Whole(bytes, acked[i].raw, acked[i].position)
           /\ EndOf(acked[i]) \in Nat /\ EndOf(acked[i]) <= ChainEnd(n)
           /\ \A k \in DOMAIN acked : i < k => EndOf(acked[i]) <= acked[k].position
<1>1. DOMAIN acked = 1 .. n
  BY DEF Chain
<1>2. EndOf(acked[i]) \in Nat /\ EndOf(acked[i]) <= ChainEnd(n)
  BY <1>1, ChainFacts
<1>3. QED
  BY <1>1, <1>2 DEF Chain

LEMMA FaultTypes == ASSUME BlockTypeOK, CountFault, acked' = acked PROVE spared' \subseteq Acked /\ faults' \in Nat
<1>1. {acked[i] : i \in DOMAIN acked} \subseteq Acked
  BY DEF BlockTypeOK
<1>2. QED
  BY <1>1 DEF BlockTypeOK, CountFault

LEMMA FailPutKeeps == ASSUME BlockInv, FailPut PROVE BlockInv'
<1>1. /\ BlockTypeOK /\ device # "memory" /\ call.op = "put" /\ CountFault /\ call' = Idle
      /\ UNCHANGED <<device, user, bytes, cursor, expected, next, tip, acked>>
  BY DEF BlockInv, FailPut
<1>2. call' \in CallType /\ call'.op = "idle" /\ call'.out = <<>>
  BY <1>1, RestCalls
<1>3. BlockTypeOK'
  BY <1>1, <1>2, FaultTypes DEF BlockTypeOK, CallType
<1>4. faults \in Nat /\ faults' = faults + 1 /\ next \in Nat /\ Len(bytes) \in Nat /\ cursor \in Nat
  BY <1>1, LenProperties DEF BlockTypeOK, CountFault
<1>5. ASSUME faults = 0 PROVE Faulty'
  <2>1. PICK n \in 0 .. MaxN : CleanAt(n)
    BY <1>5 DEF BlockInv, Clean
  <2>2. /\ Chain(n) /\ next = ChainEnd(n) /\ expected = next /\ cursor = Len(bytes) /\ tip = TipOf(n)
        /\ n \in Nat /\ Len(bytes) >= ChainEnd(n)
    BY <1>1, <1>4, <2>1 DEF CleanAt, Torn
  <2>3. spared' = {acked[i] : i \in DOMAIN acked}
    BY <1>1, <1>5 DEF CountFault
  <2>4. \A i \in DOMAIN acked : /\ Whole(bytes, acked[i].raw, acked[i].position)
                                /\ EndOf(acked[i]) <= next
    BY <1>1, <2>2, ChainIsSpared
  <2>5. \A x \in spared' : \A k \in DOMAIN acked : x.raw[2] < k => EndOf(x) <= acked[k].position
    BY <1>1, <2>2, <2>3, ChainIsSpared
  <2>6. \A x \in spared' : x.raw[2] < tip.i => EndOf(x) <= tip.position
    <3>1. CASE n = 0
      <4>1. \A i \in DOMAIN acked : FALSE
        BY <2>2, <3>1 DEF Chain
      <4>2. QED
        BY <2>3, <4>1
    <3>2. CASE n > 0
      <4>1. tip.i = n /\ tip.position = acked[n].position /\ n \in DOMAIN acked
        BY <2>2, <3>2 DEF TipOf, Chain
      <4>2. QED
        BY <2>5, <4>1
    <3>3. QED
      BY <2>2, <3>1, <3>2
  <2>7. QED
    BY <1>1, <1>2, <1>4, <2>2, <2>3, <2>4, <2>5, <2>6 DEF Faulty, SparedBefore, EndOf
<1>6. ASSUME faults # 0 PROVE Faulty'
  <2>1. Faulty /\ spared' = spared
    BY <1>1, <1>6 DEF BlockInv, CountFault
  <2>2. device = "file" => cursor >= next
    <3>1. EntrySize[call.raw] \in Nat /\ Len(call.out) \in Nat
      BY <1>1, Sizes, LenProperties DEF BlockTypeOK
    <3>2. device = "file" => /\ cursor >= next + (EntrySize[call.raw] - Len(call.out))
                             /\ Len(call.out) <= EntrySize[call.raw]
      BY <1>1, <2>1 DEF Faulty
    <3>3. QED
      BY <1>4, <3>1, <3>2
  <2>3. QED
    BY <1>1, <1>2, <2>1, <2>2 DEF Faulty, SparedBefore, EndOf
<1>7. QED
  BY <1>3, <1>4, <1>5, <1>6 DEF BlockInv

LEMMA FailReloadKeeps == ASSUME BlockInv, FailReload PROVE BlockInv'
<1>1. /\ BlockTypeOK /\ call.op = "reload" /\ call' = Idle
      /\ \/ device # "memory" /\ CountFault
         \/ ~boots(bytes) /\ UNCHANGED <<spared, faults>>
      /\ \/ cursor' \in (0 .. Len(bytes)) \cup {cursor} /\ UNCHANGED expected
         \/ cursor' = Len(bytes) /\ expected' = Len(bytes)
      /\ UNCHANGED <<device, user, bytes, next, tip, acked>>
  BY DEF BlockInv, FailReload, boot_stops, boot_cursor
<1>2. call' \in CallType /\ call'.op = "idle" /\ call'.out = <<>>
  BY <1>1, RestCalls
<1>3. /\ faults \in Nat /\ next \in Nat /\ Len(bytes) \in Nat /\ expected \in Nat
      /\ cursor' \in Nat /\ expected' \in Nat
  BY <1>1, LenProperties DEF BlockTypeOK
<1>4. spared' \subseteq Acked /\ faults' \in Nat /\ (CountFault => faults' # 0)
  <2>1. CASE CountFault
    BY <1>1, <1>3, <2>1, FaultTypes DEF CountFault
  <2>2. CASE ~CountFault
    BY <1>1, <2>2 DEF BlockTypeOK
  <2>3. QED
    BY <2>1, <2>2
<1>5. BlockTypeOK'
  BY <1>1, <1>2, <1>3, <1>4 DEF BlockTypeOK, CallType
<1>6. ASSUME faults = 0 PROVE faults' # 0 /\ Faulty'
  <2>1. PICK n \in 0 .. MaxN : CleanAt(n)
    BY <1>6 DEF BlockInv, Clean
  <2>2. /\ Chain(n) /\ is_slate(bytes) /\ Len(bytes) = ChainEnd(n) /\ expected = Len(bytes)
        /\ Len(bytes) < next /\ Len(bytes) <= tip.position /\ n \in Nat
    BY <1>1, <2>1 DEF CleanAt
  <2>3. device # "memory" /\ CountFault
    BY <1>1, <2>2, BootAtEnd
  <2>4. spared' = {acked[i] : i \in DOMAIN acked}
    BY <1>6, <2>3 DEF CountFault
  <2>5. \A i \in DOMAIN acked : /\ Whole(bytes, acked[i].raw, acked[i].position)
                                /\ EndOf(acked[i]) \in Nat /\ EndOf(acked[i]) <= Len(bytes)
    BY <1>1, <2>2, ChainIsSpared
  <2>6. \A x \in spared' : \A k \in DOMAIN acked : x.raw[2] < k => EndOf(x) <= acked[k].position
    BY <1>1, <2>2, <2>4, ChainIsSpared
  <2>7. tip.position \in Nat
    BY <1>1 DEF BlockTypeOK
  <2>8. \A i \in DOMAIN acked : EndOf(acked[i]) <= next /\ EndOf(acked[i]) <= tip.position
    <3> SUFFICES ASSUME NEW i \in DOMAIN acked
                 PROVE  EndOf(acked[i]) <= next /\ EndOf(acked[i]) <= tip.position
      OBVIOUS
    <3>1. EndOf(acked[i]) \in Nat /\ EndOf(acked[i]) <= Len(bytes)
      BY <2>5
    <3>2. QED
      BY <1>3, <2>2, <2>7, <3>1
  <2>9. expected' # next
    BY <1>1, <1>3, <2>2
  <2>10. QED
    BY <1>1, <1>2, <1>4, <2>3, <2>4, <2>5, <2>6, <2>8, <2>9 DEF Faulty, SparedBefore, EndOf
<1>7. ASSUME faults # 0 PROVE faults' # 0 /\ Faulty'
  <2>1. Faulty /\ spared' = spared /\ faults' # 0
    BY <1>1, <1>3, <1>7 DEF BlockInv, CountFault
  <2>2. device = "file" /\ expected' = next => cursor' >= next
    BY <1>1, <1>3, <2>1 DEF Faulty
  <2>3. QED
    BY <1>1, <1>2, <2>1, <2>2 DEF Faulty, SparedBefore, EndOf
<1>8. QED
  BY <1>5, <1>6, <1>7 DEF BlockInv

LEMMA StopKeeps == ASSUME BlockInv, Stop PROVE BlockInv'
<1>1. /\ BlockTypeOK /\ call.op # "closed" /\ call' = Closed /\ cursor' = 0 /\ expected' = 0
      /\ UNCHANGED <<device, user, bytes, next, tip, acked, spared, faults>>
  BY DEF BlockInv, Stop
<1>2. call' \in CallType /\ call'.op = "closed" /\ call'.out = <<>>
  BY <1>1, RestCalls
<1>3. BlockTypeOK'
  BY <1>1, <1>2 DEF BlockTypeOK, CallType
<1>4. ASSUME faults = 0 PROVE Clean'
  <2>1. PICK n \in 0 .. MaxN : CleanAt(n)
    BY <1>4 DEF BlockInv, Clean
  <2>2. Chain(n)' /\ ChainEnd(n)' = ChainEnd(n)
    BY <1>1, <2>1 DEF CleanAt, Chain, ChainEnd, EndOf
  <2>3. \A raw : Torn(raw, n)' <=> Torn(raw, n)
    BY <1>1, <2>2 DEF Torn
  <2>4. \/ n = 0 /\ Len(bytes) < Len(Magic)
        \/ is_slate(bytes) /\ (Len(bytes) = ChainEnd(n) \/ \E raw \in Raw : Torn(raw, n))
    <3>1. CASE call.op = "idle" \/ call.op = "reload"
      BY <2>1, <3>1 DEF CleanAt
    <3>2. CASE call.op = "put"
      BY <1>1, <2>1, <3>2 DEF CleanAt, BlockTypeOK
    <3>3. CASE call.op = "boot"
      <4>1. n = 0 /\ bytes \o call.out = Magic /\ bytes \in Seq(Cells) /\ call.out \in Seq(Cells)
            /\ Len(bytes) \in Nat /\ Len(call.out) \in Nat
        BY <1>1, <2>1, <3>3, LenProperties DEF CleanAt, BlockTypeOK
      <4>2. Len(bytes) + Len(call.out) = 2
        BY <4>1, ConcatProperties, MagicCells
      <4>3. CASE Len(call.out) = 0
        <5>1. call.out = <<>>
          BY <4>1, <4>3, EmptySeq
        <5>2. bytes = Magic
          BY <4>1, <5>1, ConcatEmptySeq
        <5>3. QED
          BY <4>1, <5>2, MagicCells, SlateCells, SMTT(30) DEF ChainEnd
      <4>4. CASE Len(call.out) # 0
        BY <4>1, <4>2, <4>4, MagicCells
      <4>5. QED
        BY <4>3, <4>4
    <3>4. QED
      BY <1>1, <3>1, <3>2, <3>3 DEF BlockTypeOK
  <2>5. CleanAt(n)'
    BY <1>1, <1>2, <2>2, <2>3, <2>4 DEF CleanAt
  <2>6. QED
    BY <2>5 DEF Clean
<1>5. ASSUME faults # 0 PROVE Faulty'
  <2>1. Faulty
    BY <1>5 DEF BlockInv
  <2>2. QED
    BY <1>1, <1>2, <2>1 DEF Faulty, SparedBefore, EndOf
<1>6. QED
  BY <1>1, <1>3, <1>4, <1>5 DEF BlockInv

LEMMA FirstKeeps == ASSUME BlockInv, First PROVE BlockInv'
<1>1. /\ BlockTypeOK /\ user = "trait" /\ device = "memory" /\ call.op = "idle"
      /\ cursor' = Len(bytes)
      /\ UNCHANGED <<device, user, bytes, expected, call, next, tip, acked, spared, faults, sound>>
  BY DEF BlockInv, First, BlockTypeOK, boot_cursor
<1>2. Len(bytes) \in Nat
  BY <1>1, LenProperties DEF BlockTypeOK
<1>3. BlockTypeOK'
  BY <1>1, <1>2 DEF BlockTypeOK
<1>4. faults = 0
  BY <1>1 DEF BlockInv, Faulty
<1>5. PICK n \in 0 .. MaxN : CleanAt(n)
  BY <1>4 DEF BlockInv, Clean
<1>6. cursor = Len(bytes)
  BY <1>1, <1>5 DEF CleanAt
<1>7. UNCHANGED blockVars
  BY <1>1, <1>6 DEF blockVars
<1>8. CleanAt(n)'
  BY <1>5, <1>7 DEF CleanAt, Chain, ChainEnd, TipOf, Torn, EndOf, blockVars
<1>9. QED
  BY <1>1, <1>3, <1>4, <1>8 DEF BlockInv, Clean

\* What a truncation makes of the cells and of what is known of them.
LEMMA CutGives ==
    ASSUME BlockTypeOK, NEW p \in Nat, CutAt(p)
    PROVE  /\ bytes' \in Seq(Cells) /\ cursor' \in Nat /\ expected' \in Nat
           /\ \/ /\ truncates(device, bytes, cursor, p)
                 /\ Len(bytes') = p /\ expected' = p
                 /\ cursor' = IF device = "memory" THEN p ELSE cursor
                 /\ \A k \in 1 .. p : k <= Len(bytes) => bytes'[k] = bytes[k]
              \/ /\ ~truncates(device, bytes, cursor, p)
                 /\ UNCHANGED <<bytes, cursor, expected>>
<1>1. bytes \in Seq(Cells) /\ cursor \in Nat /\ expected \in Nat
  BY DEF BlockTypeOK
<1>2. CASE truncates(device, bytes, cursor, p)
  <2>1. bytes' = resized(bytes, p) /\ cursor' = truncated_cursor(device, cursor, p) /\ expected' = p
    BY <1>2 DEF CutAt
  <2>2. QED
    BY <1>1, <1>2, <2>1, ResizedCells DEF truncated_cursor
<1>3. CASE ~truncates(device, bytes, cursor, p)
  BY <1>1, <1>3 DEF CutAt
<1>4. QED
  BY <1>2, <1>3

LEMMA ForgetGives ==
    ASSUME BlockTypeOK, NEW i \in 1 .. MaxN, Forget(i)
    PROVE  /\ DOMAIN acked' \subseteq 1 .. MaxN /\ acked' \in [DOMAIN acked' -> Acked]
           /\ \A k \in DOMAIN acked' : k \in DOMAIN acked /\ acked'[k] = acked[k]
           /\ spared' \subseteq Acked /\ \A x \in spared' : x \in spared /\ x.raw[2] < i
BY DEF BlockTypeOK, Forget

LEMMA TruncateKeeps == ASSUME BlockInv, NEW i \in 1 .. MaxN, Truncate(i) PROVE BlockInv'
<1>1. /\ BlockTypeOK /\ user = "slate" /\ call.op = "idle" /\ i <= tip.i /\ Forget(i)
      /\ UNCHANGED <<device, user, next, tip, faults>>
  BY DEF BlockInv, Truncate
<1>2. PICK p : /\ p < next /\ CutAt(p) /\ call' = Call("reload", NoRaw, <<>>, p)
               /\ \/ i \in DOMAIN acked /\ p = acked[i].position
                  \/ tip.i = i /\ p = tip.position
  BY DEF Truncate
<1>3. /\ p \in Nat /\ next \in Nat /\ tip.i \in Nat /\ tip.position \in Nat
      /\ bytes \in Seq(Cells) /\ Len(bytes) \in Nat /\ cursor \in Nat
  <2>1. tip.position \in Nat /\ tip.i \in Nat
    BY <1>1, StorageAssumption DEF BlockTypeOK
  <2>2. \A k \in DOMAIN acked : acked[k].position \in Nat
    BY <1>1 DEF BlockTypeOK, Acked
  <2>3. QED
    BY <1>1, <1>2, <2>1, <2>2, LenProperties DEF BlockTypeOK
<1>4. /\ bytes' \in Seq(Cells) /\ cursor' \in Nat /\ expected' \in Nat
      /\ \/ /\ truncates(device, bytes, cursor, p)
            /\ Len(bytes') = p /\ expected' = p
            /\ cursor' = IF device = "memory" THEN p ELSE cursor
            /\ \A k \in 1 .. p : k <= Len(bytes) => bytes'[k] = bytes[k]
         \/ /\ ~truncates(device, bytes, cursor, p)
            /\ UNCHANGED <<bytes, cursor, expected>>
  BY <1>1, <1>2, <1>3, CutGives
<1>5. /\ DOMAIN acked' \subseteq 1 .. MaxN /\ acked' \in [DOMAIN acked' -> Acked]
      /\ \A k \in DOMAIN acked' : k \in DOMAIN acked /\ acked'[k] = acked[k]
      /\ spared' \subseteq Acked /\ \A x \in spared' : x \in spared /\ x.raw[2] < i
  BY <1>1, ForgetGives
<1>6. call' \in CallType /\ call'.op = "reload" /\ call'.out = <<>>
  <2>1. /\ Call("reload", NoRaw, <<>>, p) \in CallType
        /\ Call("reload", NoRaw, <<>>, p).op = "reload" /\ Call("reload", NoRaw, <<>>, p).out = <<>>
    BY <1>3 DEF Call, CallType
  <2>2. QED
    BY <1>2, <2>1
<1>7. BlockTypeOK'
  BY <1>1, <1>4, <1>5, <1>6 DEF BlockTypeOK, CallType
<1>8. ASSUME faults = 0 PROVE Clean'
  <2>1. PICK n \in 0 .. MaxN : CleanAt(n)
    BY <1>8 DEF BlockInv, Clean
  <2>2. /\ Chain(n) /\ next = ChainEnd(n) /\ cursor = Len(bytes) /\ tip = TipOf(n)
        /\ Len(bytes) = next /\ is_slate(bytes) /\ n \in Nat
    BY <1>1, <2>1 DEF CleanAt
  <2>3. i \in 1 .. n /\ n \in 1 .. n /\ tip.i = n /\ tip.position = acked[n].position
    <3>1. n # 0
      BY <1>1, <2>2 DEF TipOf, NoTip
    <3>2. tip.i = n /\ tip.position = acked[n].position
      BY <2>2, <3>1 DEF TipOf
    <3>3. QED
      BY <1>1, <2>2, <3>1, <3>2
  <2>4. p = acked[i].position /\ p \in Nat /\ p < Len(bytes)
    BY <1>2, <1>3, <2>2, <2>3
  <2>5. /\ Len(bytes') = p /\ expected' = p
        /\ \A k \in 1 .. p : bytes'[k] = bytes[k]
    <3>1. truncates(device, bytes, cursor, p)
      BY <2>2, <2>4 DEF truncates
    <3>2. QED
      BY <1>3, <1>4, <2>4, <3>1
  <2>6. acked' = [k \in {m \in DOMAIN acked : m < i} |-> acked[k]]
    BY <1>1 DEF Forget
  <2>7. /\ Chain(i - 1)' /\ ChainEnd(i - 1)' = p /\ is_slate(bytes')
    BY <1>1, <1>4, <2>2, <2>3, <2>4, <2>5, <2>6, ChainCut
  <2>8. p <= tip.position
    <3>1. CASE i = n
      BY <1>3, <2>3, <2>4, <3>1
    <3>2. CASE i < n
      <4>1. /\ EndOf(acked[i]) <= acked[n].position
        BY <2>2, <2>3, <3>2 DEF Chain
      <4>2. acked[i].position < EndOf(acked[i]) /\ EndOf(acked[i]) \in Nat
        BY <1>1, <2>2, <2>3, ChainFacts
      <4>3. QED
        BY <1>3, <2>3, <2>4, <4>1, <4>2
    <3>3. QED
      BY <2>3, <3>1, <3>2
  <2>9. i - 1 \in 0 .. MaxN
    BY StorageAssumption
  <2>10. CleanAt(i - 1)'
    BY <1>1, <1>2, <1>6, <2>5, <2>7, <2>8 DEF CleanAt
  <2>11. QED
    BY <2>9, <2>10 DEF Clean
<1>9. ASSUME faults # 0 PROVE Faulty'
  <2>1. Faulty
    BY <1>9 DEF BlockInv
  <2>2. ASSUME NEW x \in spared' PROVE Whole(bytes', x.raw, x.position) /\ EndOf(x) <= next
    <3>1. /\ x \in spared /\ x.raw[2] < i /\ x.raw \in Raw /\ x.position \in Nat
          /\ EntrySize[x.raw] \in Nat /\ EndOf(x) = x.position + EntrySize[x.raw]
      BY <1>5, Sizes DEF Acked, EndOf
    <3>2. Whole(bytes, x.raw, x.position) /\ EndOf(x) <= next /\ EndOf(x) <= Len(bytes)
      BY <1>1, <2>1, <3>1 DEF Faulty, Whole
    <3>3. EndOf(x) <= p
      BY <1>2, <2>1, <3>1 DEF Faulty, SparedBefore
    <3>4. CASE bytes' = bytes
      BY <3>2, <3>4
    <3>5. CASE Len(bytes') = p /\ \A k \in 1 .. p : k <= Len(bytes) => bytes'[k] = bytes[k]
      <4>1. \A k \in 1 .. (x.position + EntrySize[x.raw]) : bytes'[k] = bytes[k]
        BY <1>3, <3>1, <3>2, <3>3, <3>5
      <4>2. QED
        BY <1>3, <1>4, <3>1, <3>2, <3>3, <3>5, <4>1, KeepWhole
    <3>6. QED
      BY <1>4, <3>2, <3>4, <3>5
  <2>3. device = "file" => expected' # next
    <3> SUFFICES ASSUME device = "file" PROVE expected' # next
      OBVIOUS
    <3>1. CASE truncates(device, bytes, cursor, p)
      BY <1>2, <1>3, <1>4, <3>1
    <3>2. CASE ~truncates(device, bytes, cursor, p)
      <4>1. ~(p < cursor) /\ expected' = expected
        BY <1>4, <3>2 DEF truncates
      <4>2. expected = next => cursor >= next
        BY <1>1, <2>1 DEF Faulty
      <4>3. QED
        BY <1>2, <1>3, <4>1, <4>2
    <3>3. QED
      BY <3>1, <3>2
  <2>4. \A k \in DOMAIN acked' : \A x \in spared' : x.raw[2] < k => EndOf(x) <= acked'[k].position
    BY <1>5, <2>1 DEF Faulty, SparedBefore, EndOf
  <2>5. SparedBefore(tip.i, tip.position)'
    BY <1>1, <1>5, <2>1 DEF Faulty, SparedBefore, EndOf
  <2>6. QED
    BY <1>1, <1>6, <2>1, <2>2, <2>3, <2>4, <2>5 DEF Faulty, SparedBefore, EndOf
<1>10. QED
  BY <1>1, <1>7, <1>8, <1>9 DEF BlockInv

LEMMA TraitTruncateKeeps == ASSUME BlockInv, NEW i \in 1 .. MaxN, TraitTruncate(i) PROVE BlockInv'
<1> DEFINE p == acked[i].position
<1>1. /\ BlockTypeOK /\ user = "trait" /\ device = "memory" /\ call.op = "idle" /\ i \in DOMAIN acked
      /\ CutAt(p) /\ next' = p /\ Forget(i)
      /\ tip' = IF i = 1 THEN NoTip ELSE [i |-> i - 1, position |-> acked[i - 1].position]
      /\ UNCHANGED <<device, user, call, faults>>
  BY DEF BlockInv, TraitTruncate, BlockTypeOK
<1>2. faults = 0
  BY <1>1 DEF BlockInv, Faulty
<1>3. PICK n \in 0 .. MaxN : CleanAt(n)
  BY <1>2 DEF BlockInv, Clean
<1>4. /\ Chain(n) /\ next = ChainEnd(n) /\ cursor = Len(bytes)
      /\ Len(bytes) = next /\ is_slate(bytes) /\ n \in Nat
  BY <1>1, <1>3 DEF CleanAt
<1>5. i \in 1 .. n
  BY <1>1, <1>4 DEF Chain
<1>6. p \in Nat /\ p < Len(bytes) /\ Len(bytes) \in Nat /\ bytes \in Seq(Cells)
  <2>1. p \in Nat /\ p < EndOf(acked[i]) /\ EndOf(acked[i]) <= ChainEnd(n) /\ EndOf(acked[i]) \in Nat
    BY <1>1, <1>4, <1>5, ChainFacts
  <2>2. Len(bytes) \in Nat
    BY <1>1, LenProperties DEF BlockTypeOK
  <2>3. QED
    BY <1>1, <1>4, <2>1, <2>2 DEF BlockTypeOK
<1> HIDE DEF p
<1>7. /\ bytes' \in Seq(Cells) /\ cursor' = p /\ Len(bytes') = p /\ expected' = p
      /\ \A k \in 1 .. p : bytes'[k] = bytes[k]
  <2>1. truncates(device, bytes, cursor, p)
    BY <1>1, <1>6 DEF truncates
  <2>2. QED
    BY <1>1, <1>6, <2>1, CutGives
<1>8. /\ DOMAIN acked' \subseteq 1 .. MaxN /\ acked' \in [DOMAIN acked' -> Acked]
      /\ spared' \subseteq Acked
  BY <1>1, ForgetGives
<1>9. acked' = [k \in {m \in DOMAIN acked : m < i} |-> acked[k]]
  BY <1>1 DEF Forget
<1>10. /\ Chain(i - 1)' /\ ChainEnd(i - 1)' = p /\ TipOf(i - 1)' = tip' /\ is_slate(bytes')
  BY <1>1, <1>4, <1>5, <1>7, <1>9, ChainCut DEF p
<1>11. tip' \in [i : 0 .. MaxN, position : Nat]
  <2>1. CASE i = 1
    BY <1>1, <2>1, StorageAssumption DEF NoTip
  <2>2. CASE i # 1
    <3>1. i - 1 \in 1 .. n /\ i - 1 \in 0 .. MaxN
      BY <1>5, <2>2, StorageAssumption
    <3>2. acked[i - 1].position \in Nat
      BY <1>1, <1>4, <3>1, ChainFacts
    <3>3. QED
      BY <1>1, <2>2, <3>1, <3>2
  <2>3. QED
    BY <2>1, <2>2
<1>12. BlockTypeOK'
  BY <1>1, <1>6, <1>7, <1>8, <1>11 DEF BlockTypeOK
<1>13. CleanAt(i - 1)'
  BY <1>1, <1>7, <1>10 DEF CleanAt
<1>14. i - 1 \in 0 .. MaxN
  BY StorageAssumption
<1>15. QED
  BY <1>1, <1>2, <1>12, <1>13, <1>14 DEF BlockInv, Clean

\* The state stays as it is.
LEMMA StutterKeeps == ASSUME BlockInv, UNCHANGED blockVars PROVE BlockInv'
<1>1. BlockTypeOK'
  BY DEF BlockInv, BlockTypeOK, blockVars
<1>2. ASSUME faults = 0 PROVE Clean'
  <2>1. PICK n \in 0 .. MaxN : CleanAt(n)
    BY <1>2 DEF BlockInv, Clean
  <2>2. CleanAt(n)'
    BY <2>1 DEF CleanAt, Chain, ChainEnd, TipOf, Torn, EndOf, blockVars
  <2>3. QED
    BY <2>2 DEF Clean
<1>3. ASSUME faults # 0 PROVE Faulty'
  BY <1>3 DEF BlockInv, Faulty, SparedBefore, EndOf, blockVars
<1>4. QED
  BY <1>1, <1>2, <1>3 DEF BlockInv, blockVars

LEMMA TraitTruncateBehindKeeps ==
    ASSUME BlockInv, NEW p \in {next, next + 1}, TraitTruncateBehind(p)
    PROVE  BlockInv'
<1>1. /\ BlockTypeOK /\ user = "trait" /\ device = "memory" /\ call.op = "idle" /\ CutAt(p)
      /\ UNCHANGED <<device, user, call, next, tip, acked, spared, faults, sound>>
  BY DEF BlockInv, TraitTruncateBehind, BlockTypeOK
<1>2. faults = 0
  BY <1>1 DEF BlockInv, Faulty
<1>3. PICK n \in 0 .. MaxN : CleanAt(n)
  BY <1>2 DEF BlockInv, Clean
<1>4. Len(bytes) = next /\ next \in Nat
  BY <1>1, <1>3 DEF CleanAt, BlockTypeOK
<1>5. ~truncates(device, bytes, cursor, p)
  BY <1>1, <1>4 DEF truncates
<1>6. UNCHANGED blockVars
  BY <1>1, <1>5 DEF CutAt, blockVars
<1>7. QED
  BY <1>6, StutterKeeps

LEMMA BlockInvStep == ASSUME BlockInv, [Next]_blockVars PROVE BlockInv'
<1>1. CASE Open
  BY <1>1, OpenKeeps
<1>2. CASE OpenEmpty
  BY <1>2, OpenEmptyKeeps
<1>3. CASE FinishBoot
  BY <1>3, FinishBootKeeps
<1>4. ASSUME NEW v \in Value, StartPut(v) PROVE BlockInv'
  BY <1>4, StartPutKeeps
<1>5. CASE Write
  BY <1>5, WriteKeeps
<1>6. CASE FinishPut
  BY <1>6, FinishPutKeeps
<1>7. CASE FailPut
  BY <1>7, FailPutKeeps
<1>8. ASSUME NEW i \in 1 .. MaxN, Truncate(i) PROVE BlockInv'
  BY <1>8, TruncateKeeps
<1>9. ASSUME NEW i \in 1 .. MaxN, TraitTruncate(i) PROVE BlockInv'
  BY <1>9, TraitTruncateKeeps
<1>10. CASE Reload
  BY <1>10, ReloadKeeps
<1>11. CASE FailReload
  BY <1>11, FailReloadKeeps
<1>12. ASSUME NEW p \in {next, next + 1}, TraitTruncateBehind(p) PROVE BlockInv'
  BY <1>12, TraitTruncateBehindKeeps
<1>13. CASE First
  BY <1>13, FirstKeeps
<1>14. CASE Stop
  BY <1>14, StopKeeps
<1>15. CASE UNCHANGED blockVars
  BY <1>15, StutterKeeps
<1>16. QED
  BY <1>1, <1>2, <1>3, <1>4, <1>5, <1>6, <1>7, <1>8, <1>9, <1>10, <1>11, <1>12, <1>13, <1>14, <1>15
  DEF Next

\* BlockInv: while nothing has failed a device holds the magic, the entries
\* acknowledged one behind the other, and behind them at most the beginning of
\* the entry being written; once a call has failed, the entries to be spared
\* are whole and lie before all that the storage may write or cut.
THEOREM BlockInvariant == ASSUME TraitDevice \subseteq {"memory"} PROVE Spec => []BlockInv
<1>1. Init => BlockInv
  BY BlockInvInit
<1>2. BlockInv /\ [Next]_blockVars => BlockInv'
  BY BlockInvStep
<1>3. QED
  BY <1>1, <1>2, PTL DEF Spec

-----------------------------------------------------------------------------
(* What it says of opening, and of failing calls.                          *)

LEMMA InvSpares == ASSUME BlockInv PROVE FaultsSpareOldEntries
<1>1. BlockTypeOK /\ bytes \in Seq(Cells)
  BY DEF BlockInv, BlockTypeOK
<1>2. ASSUME NEW x \in Acked, Whole(bytes, x.raw, x.position) PROVE Stored(x)
  BY <1>1, <1>2, ReadIsWhole DEF Stored, Acked
<1>3. CASE faults = 0
  <2>1. PICK n \in 0 .. MaxN : CleanAt(n)
    BY <1>3 DEF BlockInv, Clean
  <2>2. \A i \in DOMAIN acked : acked[i] \in Acked /\ Whole(bytes, acked[i].raw, acked[i].position)
    BY <1>1, <2>1 DEF CleanAt, Chain, BlockTypeOK
  <2>3. \A x \in Range(acked) : Stored(x)
    BY <1>2, <2>2 DEF Range
  <2>4. QED
    BY <1>3, <2>3 DEF FaultsSpareOldEntries
<1>4. CASE faults # 0
  <2>1. \A x \in spared : x \in Acked /\ Whole(bytes, x.raw, x.position)
    BY <1>1, <1>4 DEF BlockInv, Faulty, BlockTypeOK
  <2>2. QED
    BY <1>2, <1>4, <2>1 DEF FaultsSpareOldEntries
<1>5. QED
  BY <1>3, <1>4

\* Opening is the only step from a closed storage to one that takes calls.
LEMMA OnlyOpenOpens ==
    ASSUME BlockInv, Next, call.op = "closed", call'.op = "idle"
    PROVE  Open
<1>1. call.out = <<>>
  BY DEF BlockInv, BlockTypeOK
<1>2. ASSUME OpenEmpty PROVE FALSE
  BY <1>2 DEF OpenEmpty, Call
<1>3. ASSUME Stop PROVE FALSE
  BY <1>3 DEF Stop, Closed, Call
<1>4. QED
  BY <1>1, <1>2, <1>3 DEF Next, FinishBoot, StartPut, Write, FinishPut, FailPut, Truncate,
     TraitTruncate, Reload, FailReload, TraitTruncateBehind, First

LEMMA StepRecovers ==
    ASSUME BlockInv, Next, faults = 0, call.op = "closed", call'.op = "idle"
    PROVE  tip'.i \in {Cardinality(DOMAIN acked), Cardinality(DOMAIN acked) + 1}
<1>1. /\ BlockTypeOK /\ LastSucceeds /\ call' = Idle /\ bytes' = bytes
  BY OnlyOpenOpens DEF BlockInv, Open
<1>2. PICK n \in 0 .. MaxN : CleanAt(n)
  BY DEF BlockInv, Clean
<1>3. is_slate(bytes) /\ ~(Len(bytes) < Len(Magic))
  <2>1. bytes \in Seq(Cells) /\ Len(bytes) \in Nat
    BY <1>1, LenProperties DEF BlockTypeOK
  <2>2. QED
    BY <1>1, <2>1, MagicCells DEF LastSucceeds, boots, is_slate
<1>4. Chain(n) /\ (Len(bytes) = ChainEnd(n) \/ \E raw \in Raw : Torn(raw, n))
  BY <1>2, <1>3 DEF CleanAt
<1>5. \E m \in {n, n + 1} \cap 0 .. MaxN : CleanAt(m)' /\ tip'.i = m
  BY <1>1, <1>3, <1>4, CleanAfterBoot
<1>6. DOMAIN acked = 1 .. n /\ n \in Nat
  BY <1>4, StorageAssumption DEF Chain
<1>7. Cardinality(1 .. n) = n
  <2>1. Cardinality(1 .. n) = IF 1 > n THEN 0 ELSE (n - 1) + 1
    BY <1>6, FS_Interval
  <2>2. QED
    BY <1>6, <2>1
<1>8. QED
  BY <1>5, <1>6, <1>7

\* FaultsSpareOldEntries: what put has acknowledged can be read as long as no
\* call fails, and what it had acknowledged before the first failing call for
\* ever, unless it is truncated: whatever fails, and wherever a file's cursor
\* is left, the storage writes and cuts behind it.
THEOREM FaultsAreSpared ==
    ASSUME TraitDevice \subseteq {"memory"} PROVE Spec => []FaultsSpareOldEntries
<1>1. Spec => []BlockInv
  BY BlockInvariant
<1>2. BlockInv => FaultsSpareOldEntries
  BY InvSpares
<1>3. QED
  BY <1>1, <1>2, PTL

\* OpenRecovers: wherever a process dies, opening brings back every entry
\* acknowledged and at most the one being put, and refuses a torn one.
THEOREM OpeningRecovers ==
    ASSUME TraitDevice \subseteq {"memory"} PROVE Spec => OpenRecovers
<1>1. Spec => []BlockInv
  BY BlockInvariant
<1>2. BlockInv /\ [Next]_blockVars =>
        [faults = 0 /\ call.op = "closed" /\ call'.op = "idle" =>
           tip'.i \in {Cardinality(DOMAIN acked), Cardinality(DOMAIN acked) + 1}]_blockVars
  BY StepRecovers
<1>3. QED
  BY <1>1, <1>2, PTL DEF Spec, OpenRecovers

-----------------------------------------------------------------------------
(* The storage that a device stands for: the entries that follow one       *)
(* another from the first position on.                                     *)

\* The cells of an entry know their place in it.
GoodCells == {c \in Cells : c.of \in Raw => c.part \in 1 .. EntrySize[c.of]}

\* A cell that is part of an entry stored whole, and where those end that follow
\* one another from the first position on.
Readable(b, k) == b[k].of \in read_data(b, k - b[k].part)
EndsAt(b, v) == /\ v \in 2 .. Len(b)
                /\ \A k \in 3 .. v : Readable(b, k)
                /\ v < Len(b) => ~Readable(b, v + 1)

LEMMA GoodAreCells ==
    ASSUME NEW b \in Seq(GoodCells)
    PROVE  /\ b \in Seq(Cells) /\ Len(b) \in Nat /\ b = [k \in 1 .. Len(b) |-> b[k]]
           /\ \A k \in 1 .. Len(b) : b[k] \in Cells /\ b[k].part \in Nat
                                     /\ (b[k].of \in Raw => b[k].part \in 1 .. EntrySize[b[k].of])
<1>1. Len(b) \in Nat /\ \A k \in 1 .. Len(b) : b[k] \in GoodCells
  BY LenProperties, ElementOfSeq
<1>2. GoodCells \subseteq Cells
  BY DEF GoodCells
<1>3. \A k \in 1 .. Len(b) : b[k] \in Cells
  BY <1>1, <1>2
<1>4. b \in Seq(Cells) /\ b = [k \in 1 .. Len(b) |-> b[k]]
  BY <1>1, <1>3
<1>5. QED
  BY <1>1, <1>3, <1>4 DEF GoodCells, Cells

LEMMA ZeroIsNone == Zero \in GoodCells /\ Zero.of \notin Raw
BY RawIsNoMark, CellFields DEF GoodCells, Zero

\* What a readable cell tells: its entry, which lies behind the magic.
LEMMA ReadableCell ==
    ASSUME NEW b \in Seq(GoodCells), is_slate(b), NEW k \in 3 .. Len(b), Readable(b, k)
    PROVE  \E raw \in Raw, q \in Nat :
              /\ Whole(b, raw, q) /\ q >= 2 /\ q < k /\ k <= q + EntrySize[raw]
              /\ b[k] = Cell(raw, k - q)
<1>1. b \in Seq(Cells) /\ Len(b) \in Nat /\ k \in 1 .. Len(b)
  BY GoodAreCells
<1> DEFINE raw == b[k].of
           q == k - b[k].part
<1>2. raw \in read_data(b, q) /\ raw \in Raw
  BY DEF Readable, read_data
<1>3. b[k].part \in 1 .. EntrySize[raw] /\ EntrySize[raw] \in Nat /\ EntrySize[raw] > 1
  BY <1>1, <1>2, GoodAreCells, Sizes
<1>4. q \in Int /\ b[k].part \in Nat
  BY <1>1, <1>3
<1>5. q >= 0 /\ Whole(b, raw, q)
  BY <1>1, <1>2, <1>4, ReadIsWhole
<1>6. q \in Nat /\ q < k /\ k <= q + EntrySize[raw]
  BY <1>3, <1>4, <1>5
<1>7. b[k] = Cell(raw, k - q)
  <2>1. k - q \in 1 .. EntrySize[raw] /\ q + (k - q) = k
    BY <1>3, <1>6
  <2>2. QED
    BY <1>5, <2>1 DEF Whole
<1>8. q >= 2
  <2>1. b[q + 1] = Cell(raw, 1)
    BY <1>3, <1>5 DEF Whole
  <2>2. b[1] = Cell(<<"identifier", 0>>, 1) /\ b[2] = Cell(<<"version", 0>>, 1)
    BY <1>1, SlateCells, MagicCells
  <2>3. b[q + 1].of \in Raw /\ b[1].of \notin Raw /\ b[2].of \notin Raw
    BY <1>2, <2>1, <2>2, CellFields, RawIsNoMark
  <2>4. q # 0 /\ q # 1
    BY <2>3
  <2>5. QED
    BY <1>6, <2>4
<1> HIDE DEF raw, q
<1>9. QED
  BY <1>2, <1>5, <1>6, <1>7, <1>8

\* All cells of an entry stored whole are readable.
LEMMA WholeIsReadable ==
    ASSUME NEW b \in Seq(GoodCells), NEW raw \in Raw, NEW q \in Nat, Whole(b, raw, q),
           NEW k \in (q + 1) .. (q + EntrySize[raw])
    PROVE  Readable(b, k)
<1>1. EntrySize[raw] \in Nat /\ b \in Seq(Cells)
  BY Sizes, GoodAreCells
<1>2. k - q \in 1 .. EntrySize[raw] /\ q + (k - q) = k /\ k - (k - q) = q
  BY <1>1
<1>3. b[k] = Cell(raw, k - q)
  BY <1>2 DEF Whole
<1>4. b[k].of = raw /\ b[k].part = k - q
  BY <1>3, CellFields
<1>5. raw \in read_data(b, q)
  BY <1>1, ReadIsWhole
<1>6. QED
  BY <1>2, <1>4, <1>5 DEF Readable

\* The entry that a position before the end lies in, all of it before the end.
LEMMA EntryThere ==
    ASSUME NEW b \in Seq(GoodCells), is_slate(b), NEW v, EndsAt(b, v), NEW k \in 3 .. v
    PROVE  \E raw \in Raw, q \in Nat :
              /\ Whole(b, raw, q) /\ q >= 2 /\ q < k /\ k <= q + EntrySize[raw]
              /\ b[k] = Cell(raw, k - q) /\ q + EntrySize[raw] <= v
<1>1. v \in Nat /\ v <= Len(b) /\ Len(b) \in Nat /\ k \in 3 .. Len(b) /\ Readable(b, k)
  BY GoodAreCells DEF EndsAt
<1>2. PICK raw \in Raw, q \in Nat :
              /\ Whole(b, raw, q) /\ q >= 2 /\ q < k /\ k <= q + EntrySize[raw]
              /\ b[k] = Cell(raw, k - q)
  BY <1>1, ReadableCell
<1>3. EntrySize[raw] \in Nat /\ q + EntrySize[raw] <= Len(b)
  BY <1>2, Sizes DEF Whole
<1>4. ASSUME v < q + EntrySize[raw] PROVE FALSE
  <2>1. v + 1 \in (q + 1) .. (q + EntrySize[raw]) /\ v < Len(b)
    BY <1>1, <1>2, <1>3, <1>4
  <2>2. QED
    BY <1>2, <2>1, WholeIsReadable DEF EndsAt
<1>5. QED
  BY <1>1, <1>2, <1>3, <1>4

\* There is one such end, and it is the one the storage is read up to.
LEMMA OneEnd ==
    ASSUME NEW b \in Seq(GoodCells), NEW v, NEW w, EndsAt(b, v), EndsAt(b, w)
    PROVE  v = w
<1>1. v \in Nat /\ w \in Nat /\ Len(b) \in Nat /\ v <= Len(b) /\ w <= Len(b) /\ v >= 2 /\ w >= 2
  BY GoodAreCells DEF EndsAt
<1>2. ~(v < w)
  BY <1>1 DEF EndsAt
<1>3. ~(w < v)
  BY <1>1 DEF EndsAt
<1>4. QED
  BY <1>1, <1>2, <1>3

LEMMA ViewEnds ==
    ASSUME NEW b \in Seq(GoodCells), Len(b) >= 2
    PROVE  EndsAt(b, view_end(b))
<1> DEFINE S == {Len(b) + 1} \cup strays(b)
           m == Min(S)
<1>1. Len(b) \in Nat /\ FirstPosition = 2
  BY GoodAreCells, MagicCells
<1>2. \A k : k \in strays(b) <=> k \in 3 .. Len(b) /\ ~Readable(b, k)
  BY <1>1 DEF strays, Readable
<1>3. S \in SUBSET Nat /\ Len(b) + 1 \in S /\ \A s \in S : s >= 3 /\ s <= Len(b) + 1
  BY <1>1, <1>2
<1>4. m \in S /\ \A s \in S : m <= s
  <2>1. \E x \in S : \A y \in S : x <= y
    BY <1>3, LeastElement
  <2>2. QED
    BY <2>1 DEF Min
<1>5. view_end(b) = Max({2, m - 1})
  BY <1>1 DEF view_end
<1> HIDE DEF m
<1>6. m \in Nat /\ m >= 3 /\ m <= Len(b) + 1
  BY <1>3, <1>4
<1>7. view_end(b) = m - 1
  <2>1. \E x \in {2, m - 1} : \A y \in {2, m - 1} : x >= y
    BY <1>6
  <2>2. /\ Max({2, m - 1}) \in {2, m - 1}
        /\ \A y \in {2, m - 1} : Max({2, m - 1}) >= y
    BY <2>1 DEF Max
  <2>3. QED
    BY <1>5, <1>6, <2>2
<1>8. \A k \in 3 .. m - 1 : Readable(b, k)
  <2> SUFFICES ASSUME NEW k \in 3 .. m - 1, ~Readable(b, k) PROVE FALSE
    OBVIOUS
  <2>1. k \in strays(b)
    BY <1>1, <1>2, <1>6
  <2>2. QED
    BY <1>4, <1>6, <2>1
<1>9. m - 1 < Len(b) => ~Readable(b, m)
  BY <1>1, <1>2, <1>4, <1>6
<1> HIDE DEF S
<1>10. QED
  BY <1>1, <1>6, <1>7, <1>8, <1>9 DEF EndsAt

\* The storage that cells stand for, by where its entries end.
Starts(b, v) == {q \in 2 .. v - 1 : b[q + 1].part = 1}

LEMMA ViewIs ==
    ASSUME NEW b \in Seq(GoodCells), NEW v, EndsAt(b, v)
    PROVE  /\ view(b) = [data |-> [p \in Starts(b, v) |-> decode(b[p + 1].of, p)], end |-> v]
           /\ view_end(b) = v
<1>1. Len(b) >= 2 /\ FirstPosition = 2
  BY GoodAreCells, MagicCells DEF EndsAt
<1>2. view_end(b) = v
  BY <1>1, ViewEnds, OneEnd
<1>3. QED
  BY <1>1, <1>2 DEF view, Starts

\* A device that holds no more than the magic.
LEMMA NoView ==
    ASSUME NEW b \in Seq(GoodCells), Len(b) <= 2
    PROVE  view(b) = EmptyStorage
<1>1. Len(b) \in Nat /\ FirstPosition = 2
  BY GoodAreCells, MagicCells
<1>2. strays(b) = {}
  BY <1>1 DEF strays
<1>3. Min({Len(b) + 1} \cup strays(b)) = Len(b) + 1
  <2>1. {Len(b) + 1} \cup strays(b) = {Len(b) + 1}
    BY <1>2
  <2>2. \E x \in {Len(b) + 1} : \A y \in {Len(b) + 1} : x <= y
    BY <1>1
  <2>3. QED
    BY <2>1, <2>2 DEF Min
<1>4. view_end(b) = 2
  <2>1. view_end(b) = Max({2, Len(b)})
    <3>1. (Len(b) + 1) - 1 = Len(b)
      BY <1>1
    <3>2. QED
      BY <1>1, <1>3, <3>1, Zenon DEF view_end
  <2>2. \E x \in {2, Len(b)} : \A y \in {2, Len(b)} : x >= y
    BY <1>1
  <2>3. /\ Max({2, Len(b)}) \in {2, Len(b)}
        /\ \A y \in {2, Len(b)} : Max({2, Len(b)}) >= y
    BY <2>2 DEF Max
  <2>4. QED
    BY <1>1, <2>1, <2>3
<1>5. {q \in FirstPosition .. view_end(b) - 1 : b[q + 1].part = 1} = {}
  BY <1>1, <1>4
<1>6. view(b).data = <<>>
  BY <1>5 DEF view
<1>7. QED
  BY <1>1, <1>4, <1>5 DEF view, EmptyStorage

\* What lies behind the end does not matter.
LEMMA SameView ==
    ASSUME NEW b \in Seq(GoodCells), NEW c \in Seq(GoodCells), NEW v, EndsAt(b, v), EndsAt(c, v),
           \A k \in 3 .. v : c[k] = b[k]
    PROVE  view(c) = view(b)
<1>1. v \in Nat
  BY GoodAreCells DEF EndsAt
<1>2. Starts(c, v) = Starts(b, v) /\ \A q \in Starts(b, v) : c[q + 1] = b[q + 1]
  BY <1>1 DEF Starts
<1>3. QED
  BY <1>2, ViewIs

\* An entry added behind the last one: put.
LEMMA ViewPuts ==
    ASSUME NEW b \in Seq(GoodCells), NEW c \in Seq(GoodCells), NEW v \in Nat, NEW raw \in Raw,
           EndsAt(b, v), EndsAt(c, v + EntrySize[raw]), Whole(c, raw, v),
           \A k \in 3 .. v : c[k] = b[k]
    PROVE  \E e \in entries_of(view(c)) :
              position_of(e) = view(b).end /\ view(c) = storage_put(view(b), view(b).end, e)
<1> DEFINE w == v + EntrySize[raw]
           e == decode(raw, v)
           f == [p \in Starts(b, v) |-> decode(b[p + 1].of, p)]
           g == [p \in Starts(c, w) |-> decode(c[p + 1].of, p)]
<1>1. /\ EntrySize[raw] \in Nat /\ EntrySize[raw] > 1 /\ v >= 2 /\ v <= Len(b) /\ Len(b) \in Nat
      /\ w \in Nat /\ v < w
  BY Sizes, GoodAreCells DEF EndsAt
<1>2. view(b) = [data |-> f, end |-> v] /\ view(c) = [data |-> g, end |-> w]
  BY ViewIs
<1>3. \A q \in v .. w - 1 : c[q + 1] = Cell(raw, q + 1 - v)
  <2> SUFFICES ASSUME NEW q \in v .. w - 1 PROVE c[q + 1] = Cell(raw, q + 1 - v)
    OBVIOUS
  <2>1. q + 1 - v \in 1 .. EntrySize[raw] /\ v + (q + 1 - v) = q + 1
    BY <1>1
  <2>2. QED
    BY <2>1 DEF Whole
<1>4. c[v + 1].of = raw /\ c[v + 1].part = 1
  <2>1. c[v + 1] = Cell(raw, 1)
    BY <1>1 DEF Whole
  <2>2. QED
    BY <2>1, CellFields
<1>5. Starts(c, w) = Starts(b, v) \cup {v}
  <2>1. ASSUME NEW q \in 2 .. v - 1 PROVE c[q + 1] = b[q + 1]
    BY <1>1
  <2>2. ASSUME NEW q \in v .. w - 1, c[q + 1].part = 1 PROVE q = v
    <3>1. c[q + 1].part = q + 1 - v
      BY <1>3, CellFields
    <3>2. QED
      BY <1>1, <2>2, <3>1
  <2>3. \A q \in 2 .. w - 1 : q \in 2 .. v - 1 \/ q \in v .. w - 1
    BY <1>1
  <2>4. \A q \in 2 .. v - 1 : q \in 2 .. w - 1
    BY <1>1
  <2>5. v \in 2 .. w - 1
    BY <1>1
  <2>6. QED
    BY <1>4, <2>1, <2>2, <2>3, <2>4, <2>5 DEF Starts
<1>6. /\ position_of(e) = v
      /\ entry_size(e) = EntrySize[raw]
  <2>1. e.enode.meta.address.position = v /\ e.enode.payload = raw[1] /\ e.enode.meta.address.i = raw[2]
    BY DEF decode, Entry, ENode, MetaInfo, Address
  <2>2. <<raw[1], raw[2]>> = raw
    BY DEF Raw
  <2>3. QED
    BY <2>1, <2>2 DEF position_of, entry_size, index_of
<1>7. e \in entries_of(view(c))
  <2>1. v \in DOMAIN g /\ g[v] = e
    BY <1>4, <1>5
  <2>2. QED
    BY <1>2, <2>1 DEF entries_of
<1>8. g = [p \in Starts(b, v) \cup {v} |-> IF p = v THEN e ELSE f[p]]
  <2>1. \A p \in Starts(b, v) : p # v /\ c[p + 1] = b[p + 1]
    BY <1>1 DEF Starts
  <2>2. \A p \in Starts(b, v) \cup {v} : decode(c[p + 1].of, p) = IF p = v THEN e ELSE f[p]
    BY <1>4, <2>1
  <2>3. QED
    BY <1>5, <2>2
<1> HIDE DEF g, e, w
<1>9. view(b).end = v /\ view(b).data = f /\ DOMAIN f = Starts(b, v)
  BY <1>2
<1> HIDE DEF f
<1>10. storage_put(view(b), v, e) = [data |-> g, end |-> w]
  BY <1>6, <1>8, <1>9 DEF storage_put, w
<1>11. QED
  BY <1>2, <1>6, <1>7, <1>9, <1>10

\* The entries from one on cut off: truncate.
LEMMA ViewCuts ==
    ASSUME NEW b \in Seq(GoodCells), NEW c \in Seq(GoodCells), NEW v, NEW s \in Nat,
           EndsAt(b, v), EndsAt(c, s), s < v, b[s + 1].part = 1,
           \A k \in 3 .. s : c[k] = b[k]
    PROVE  s \in DOMAIN view(b).data /\ view(c) = storage_truncate(view(b), s)
<1> DEFINE f == [p \in Starts(b, v) |-> decode(b[p + 1].of, p)]
           g == [p \in Starts(c, s) |-> decode(c[p + 1].of, p)]
<1>1. v \in Nat /\ s >= 2
  BY GoodAreCells DEF EndsAt
<1>2. view(b) = [data |-> f, end |-> v] /\ view(c) = [data |-> g, end |-> s]
  BY ViewIs
<1>3. s \in Starts(b, v)
  BY <1>1 DEF Starts
<1>4. Starts(c, s) = {q \in Starts(b, v) : q < s}
  BY <1>1 DEF Starts
<1>5. \A p \in Starts(c, s) : c[p + 1] = b[p + 1] /\ p \in Starts(b, v)
  BY <1>1 DEF Starts
<1>6. g = [p \in {q \in Starts(b, v) : q < s} |-> f[p]]
  BY <1>4, <1>5
<1> HIDE DEF g
<1>7. view(b).end = v /\ view(b).data = f /\ DOMAIN f = Starts(b, v)
  BY <1>2
<1> HIDE DEF f
<1>8. QED
  BY <1>2, <1>3, <1>6, <1>7 DEF storage_truncate

-----------------------------------------------------------------------------
(* What becomes of the storage when a cell is written behind the others,   *)
(* and when the device is cut or extended.                                 *)

LEMMA WrittenBehind ==
    ASSUME NEW b \in Seq(GoodCells), NEW p \in Nat, p >= Len(b), NEW c \in GoodCells
    PROVE  /\ written(b, p, c) \in Seq(GoodCells) /\ Len(written(b, p, c)) = p + 1
           /\ written(b, p, c)[p + 1] = c
           /\ \A k \in 1 .. Len(b) : written(b, p, c)[k] = b[k]
           /\ \A k \in Len(b) + 1 .. p : written(b, p, c)[k] = Zero
<1>1. b \in Seq(Cells) /\ Len(b) \in Nat /\ c \in Cells /\ Zero \in GoodCells
  BY GoodAreCells, ZeroIsNone DEF GoodCells
<1> DEFINE w == written(b, p, c)
<1>2. /\ w \in Seq(Cells) /\ Len(w) = p + 1 /\ w[p + 1] = c
      /\ \A k \in 1 .. Len(b) : w[k] = b[k]
  BY <1>1, WrittenCells
<1>3. \A k \in Len(b) + 1 .. p : w[k] = Zero
  <2>1. Max({Len(b), p + 1}) = p + 1
    <3>1. \E x \in {Len(b), p + 1} : \A y \in {Len(b), p + 1} : x >= y
      BY <1>1
    <3>2. /\ Max({Len(b), p + 1}) \in {Len(b), p + 1}
          /\ \A y \in {Len(b), p + 1} : Max({Len(b), p + 1}) >= y
      BY <3>1 DEF Max
    <3>3. QED
      BY <1>1, <3>2
  <2>2. w = [k \in 1 .. p + 1 |-> IF k = p + 1 THEN c ELSE IF k <= Len(b) THEN b[k] ELSE Zero]
    BY <2>1, Zenon DEF written
  <2>3. \A k \in Len(b) + 1 .. p : k \in 1 .. p + 1 /\ k # p + 1 /\ ~(k <= Len(b))
    BY <1>1
  <2> HIDE DEF w
  <2>4. QED
    BY <2>2, <2>3
<1> HIDE DEF w
<1>4. ASSUME NEW k \in 1 .. p + 1 PROVE w[k] \in GoodCells
  <2>1. k \in 1 .. Len(b) \/ k \in Len(b) + 1 .. p \/ k = p + 1
    BY <1>1
  <2>2. \A i \in 1 .. Len(b) : b[i] \in GoodCells
    BY ElementOfSeq
  <2>3. QED
    BY <1>1, <1>2, <1>3, <2>1, <2>2
<1>5. w \in Seq(GoodCells)
  <2>1. w = [k \in 1 .. p + 1 |-> w[k]]
    BY <1>2
  <2>2. QED
    BY <1>4, <2>1
<1>6. QED
  BY <1>2, <1>3, <1>5 DEF w

LEMMA ResizedTo ==
    ASSUME NEW b \in Seq(GoodCells), NEW n \in Nat
    PROVE  /\ resized(b, n) \in Seq(GoodCells) /\ Len(resized(b, n)) = n
           /\ \A k \in 1 .. n : k <= Len(b) => resized(b, n)[k] = b[k]
           /\ \A k \in Len(b) + 1 .. n : resized(b, n)[k] = Zero
<1>1. Len(b) \in Nat /\ Zero \in GoodCells
  BY GoodAreCells, ZeroIsNone
<1>2. \A i \in 1 .. Len(b) : b[i] \in GoodCells
  BY ElementOfSeq
<1>3. \A k \in 1 .. n : (IF k <= Len(b) THEN b[k] ELSE Zero) \in GoodCells
  BY <1>1, <1>2
<1>4. QED
  BY <1>1, <1>3 DEF resized

\* Cells that agree up to the end of an entry stored whole.
LEMMA SameWhole ==
    ASSUME NEW b \in Seq(GoodCells), NEW c \in Seq(GoodCells), NEW raw \in Raw, NEW q \in Nat,
           Whole(b, raw, q), q + EntrySize[raw] <= Len(c),
           \A k \in 1 .. (q + EntrySize[raw]) : c[k] = b[k]
    PROVE  Whole(c, raw, q)
BY KeepWhole, GoodAreCells

\* The entries before the end are there as long as the cells before it are.
LEMMA StillReadable ==
    ASSUME NEW b \in Seq(GoodCells), is_slate(b), NEW v, EndsAt(b, v),
           NEW c \in Seq(GoodCells), v <= Len(c), \A k \in 1 .. v : c[k] = b[k], NEW k \in 3 .. v
    PROVE  Readable(c, k)
<1>1. v \in Nat
  BY GoodAreCells DEF EndsAt
<1>2. PICK raw \in Raw, q \in Nat :
              /\ Whole(b, raw, q) /\ q < k /\ k <= q + EntrySize[raw] /\ q + EntrySize[raw] <= v
  BY EntryThere
<1>3. EntrySize[raw] \in Nat
  BY Sizes
<1>4. Whole(c, raw, q)
  BY <1>1, <1>2, <1>3, SameWhole, GoodAreCells
<1>5. QED
  BY <1>2, <1>3, <1>4, WholeIsReadable

\* A whole entry has no cell that is no part of one.
LEMMA NoHole ==
    ASSUME NEW b, NEW raw \in Raw, NEW q \in Nat, Whole(b, raw, q),
           NEW k \in (q + 1) .. (q + EntrySize[raw])
    PROVE  b[k] # Zero /\ b[k] = Cell(raw, k - q)
<1>1. EntrySize[raw] \in Nat
  BY Sizes
<1>2. k - q \in 1 .. EntrySize[raw] /\ q + (k - q) = k
  BY <1>1
<1>3. b[k] = Cell(raw, k - q)
  BY <1>2 DEF Whole
<1>4. b[k].of \in Raw
  BY <1>3, CellFields
<1>5. QED
  BY <1>3, <1>4, ZeroIsNone

\* A cell written behind all others either completes the entry that starts at
\* the end, or changes nothing.
LEMMA WriteExtends ==
    ASSUME NEW b \in Seq(GoodCells), is_slate(b), NEW p \in Nat, p >= Len(b), NEW c \in GoodCells
    PROVE  \/ view(written(b, p, c)) = view(b)
           \/ \E e \in entries_of(view(written(b, p, c))) :
                 /\ position_of(e) = view(b).end
                 /\ view(written(b, p, c)) = storage_put(view(b), view(b).end, e)
<1> DEFINE d == written(b, p, c)
<1>1. /\ d \in Seq(GoodCells) /\ Len(d) = p + 1 /\ d[p + 1] = c
      /\ \A k \in 1 .. Len(b) : d[k] = b[k]
      /\ \A k \in Len(b) + 1 .. p : d[k] = Zero
  BY WrittenBehind
<1> HIDE DEF d
<1>2. Len(b) \in Nat /\ b \in Seq(Cells) /\ d \in Seq(Cells) /\ Len(b) >= 2 /\ FirstPosition = 2
  BY <1>1, GoodAreCells, SlateCells, MagicCells
<1>3. PICK v : EndsAt(b, v)
  BY <1>2, ViewEnds
<1>4. v \in Nat /\ v >= 2 /\ v <= Len(b) /\ v < Len(d) /\ v + 1 \in 3 .. Len(d)
  BY <1>1, <1>2, <1>3 DEF EndsAt
<1>5. is_slate(d)
  BY <1>1, <1>2, SlateCells
<1>6. \A k \in 3 .. v : d[k] = b[k] /\ Readable(d, k)
  <2>1. v <= Len(d) /\ \A k \in 1 .. v : d[k] = b[k]
    BY <1>1, <1>2, <1>4
  <2>2. \A k \in 3 .. v : Readable(d, k)
    BY <1>1, <1>3, <2>1, StillReadable
  <2>3. QED
    BY <1>4, <2>1, <2>2
<1>7. CASE ~Readable(d, v + 1)
  <2>1. EndsAt(d, v)
    BY <1>4, <1>6, <1>7 DEF EndsAt
  <2>2. QED
    BY <1>1, <1>3, <1>6, <2>1, SameView DEF d
<1>8. CASE Readable(d, v + 1)
  <2>1. PICK raw \in Raw, q \in Nat :
              /\ Whole(d, raw, q) /\ q >= 2 /\ q < v + 1 /\ v + 1 <= q + EntrySize[raw]
    BY <1>1, <1>4, <1>5, <1>8, ReadableCell
  <2>2. EntrySize[raw] \in Nat /\ EntrySize[raw] > 1 /\ q + EntrySize[raw] <= p + 1
    BY <1>1, <2>1, Sizes DEF Whole
  <2>3. ASSUME q + EntrySize[raw] <= Len(b) PROVE FALSE
    <3>1. \A k \in 1 .. (q + EntrySize[raw]) : b[k] = d[k]
      BY <1>1, <1>2, <2>2, <2>3
    <3>2. Whole(b, raw, q)
      BY <1>1, <2>1, <2>3, <3>1, SameWhole
    <3>3. v + 1 \in (q + 1) .. (q + EntrySize[raw]) /\ v < Len(b)
      BY <1>2, <1>4, <2>1, <2>2, <2>3
    <3>4. QED
      BY <1>3, <3>2, <3>3, WholeIsReadable DEF EndsAt
  <2>4. q + EntrySize[raw] = p + 1
    <3> SUFFICES ASSUME q + EntrySize[raw] # p + 1 PROVE FALSE
      OBVIOUS
    <3>1. q + EntrySize[raw] \in Len(b) + 1 .. p /\ q + EntrySize[raw] \in (q + 1) .. (q + EntrySize[raw])
      BY <1>2, <2>2, <2>3
    <3>2. QED
      BY <1>1, <2>1, <3>1, NoHole
  <2>5. q = v
    <3> SUFFICES ASSUME q < v PROVE FALSE
      BY <1>4, <2>1
    <3>1. q + 1 \in 3 .. v /\ q + 1 \in (q + 1) .. (q + EntrySize[raw])
      BY <1>4, <2>1, <2>2
    <3>2. b[q + 1] = Cell(raw, 1)
      <4>1. d[q + 1] = Cell(raw, (q + 1) - q) /\ (q + 1) - q = 1
        BY <2>1, <3>1, NoHole
      <4>2. QED
        BY <1>6, <3>1, <4>1
    <3>3. PICK r \in Raw, s \in Nat :
              /\ Whole(b, r, s) /\ b[q + 1] = Cell(r, (q + 1) - s) /\ s + EntrySize[r] <= v
      BY <1>3, <3>1, EntryThere
    <3>4. r = raw /\ (q + 1) - s = 1
      BY <3>2, <3>3, CellFields
    <3>5. s = q
      BY <3>4
    <3>6. QED
      BY <1>4, <2>3, <2>2, <3>3, <3>4, <3>5
  <2>6. EndsAt(d, v + EntrySize[raw])
    <3>1. v + EntrySize[raw] \in 2 .. Len(d) /\ ~(v + EntrySize[raw] < Len(d))
      BY <1>1, <1>4, <2>2, <2>4, <2>5
    <3>2. \A k \in (v + 1) .. (v + EntrySize[raw]) : Readable(d, k)
      BY <1>1, <2>1, <2>5, WholeIsReadable
    <3>3. \A k \in 3 .. (v + EntrySize[raw]) : k \in 3 .. v \/ k \in (v + 1) .. (v + EntrySize[raw])
      BY <1>4, <2>2
    <3>4. QED
      BY <1>6, <3>1, <3>2, <3>3 DEF EndsAt
  <2>7. \E e \in entries_of(view(d)) :
              position_of(e) = view(b).end /\ view(d) = storage_put(view(b), view(b).end, e)
    BY <1>1, <1>3, <1>4, <1>6, <2>1, <2>5, <2>6, ViewPuts
  <2>8. QED
    BY <2>7 DEF d
<1>9. QED
  BY <1>7, <1>8

\* A device cut anywhere loses the entry that is cut and those behind it; one
\* extended by zeros keeps what it has.
LEMMA ResizeCuts ==
    ASSUME NEW b \in Seq(GoodCells), is_slate(b), NEW n \in Nat, n >= 2
    PROVE  \/ view(resized(b, n)) = view(b)
           \/ \E s \in DOMAIN view(b).data : view(resized(b, n)) = storage_truncate(view(b), s)
<1> DEFINE d == resized(b, n)
<1>1. /\ d \in Seq(GoodCells) /\ Len(d) = n
      /\ \A k \in 1 .. n : k <= Len(b) => d[k] = b[k]
      /\ \A k \in Len(b) + 1 .. n : d[k] = Zero
  BY ResizedTo
<1> HIDE DEF d
<1>2. Len(b) \in Nat /\ b \in Seq(Cells) /\ d \in Seq(Cells) /\ Len(b) >= 2 /\ FirstPosition = 2
  BY <1>1, GoodAreCells, SlateCells, MagicCells
<1>3. PICK v : EndsAt(b, v)
  BY <1>2, ViewEnds
<1>4. v \in Nat /\ v >= 2 /\ v <= Len(b)
  BY <1>2, <1>3 DEF EndsAt
<1>5. is_slate(d)
  BY <1>1, <1>2, SlateCells
<1>6. CASE v <= n
  <2>1. \A k \in 1 .. v : d[k] = b[k]
    BY <1>1, <1>2, <1>4, <1>6
  <2>2. \A k \in 3 .. v : d[k] = b[k] /\ Readable(d, k)
    BY <1>1, <1>3, <1>4, <1>6, <2>1, StillReadable
  <2>3. ASSUME v < n, Readable(d, v + 1) PROVE FALSE
    <3>1. v + 1 \in 3 .. Len(d)
      BY <1>1, <1>4, <2>3
    <3>2. PICK raw \in Raw, q \in Nat :
              /\ Whole(d, raw, q) /\ q < v + 1 /\ v + 1 <= q + EntrySize[raw]
      BY <1>1, <1>5, <2>3, <3>1, ReadableCell
    <3>3. EntrySize[raw] \in Nat /\ q + EntrySize[raw] <= n
      BY <1>1, <3>2, Sizes DEF Whole
    <3>4. q + EntrySize[raw] <= Len(b)
      <4> SUFFICES ASSUME Len(b) < q + EntrySize[raw] PROVE FALSE
        BY <1>2, <3>3
      <4>1. q + EntrySize[raw] \in Len(b) + 1 .. n /\ q + EntrySize[raw] \in (q + 1) .. (q + EntrySize[raw])
        BY <1>2, <1>4, <3>2, <3>3
      <4>2. QED
        BY <1>1, <3>2, <4>1, NoHole
    <3>5. \A k \in 1 .. (q + EntrySize[raw]) : b[k] = d[k]
      BY <1>1, <1>2, <3>3, <3>4
    <3>6. Whole(b, raw, q)
      BY <1>1, <3>2, <3>4, <3>5, SameWhole
    <3>7. v + 1 \in (q + 1) .. (q + EntrySize[raw]) /\ v < Len(b)
      BY <1>2, <1>4, <3>2, <3>3, <3>4
    <3>8. QED
      BY <1>3, <3>6, <3>7, WholeIsReadable DEF EndsAt
  <2>4. EndsAt(d, v)
    BY <1>1, <1>4, <1>6, <2>2, <2>3 DEF EndsAt
  <2>5. QED
    BY <1>1, <1>3, <2>2, <2>4, SameView DEF d
<1>7. CASE n < v
  <2>1. n + 1 \in 3 .. v
    BY <1>4, <1>7
  <2>2. PICK raw \in Raw, s \in Nat :
              /\ Whole(b, raw, s) /\ s >= 2 /\ s < n + 1 /\ n + 1 <= s + EntrySize[raw]
              /\ s + EntrySize[raw] <= v
    BY <1>3, <2>1, EntryThere
  <2>3. EntrySize[raw] \in Nat /\ EntrySize[raw] > 1 /\ s <= n /\ n < s + EntrySize[raw] /\ s < v
    <3>1. EntrySize[raw] \in Nat /\ EntrySize[raw] > 1
      BY Sizes
    <3>2. QED
      BY <1>4, <2>2, <3>1
  <2>4. \A k \in 1 .. n : d[k] = b[k]
    BY <1>1, <1>2, <1>4, <1>7
  <2>5. b[s + 1] = Cell(raw, 1) /\ b[s + 1].part = 1
    <3>1. b[s + 1] = Cell(raw, 1)
      BY <2>2, <2>3 DEF Whole
    <3>2. QED
      BY <3>1, CellFields
  <2>6. ASSUME NEW k \in 3 .. s PROVE Readable(d, k)
    <3>1. k \in 3 .. v
      BY <1>4, <2>3
    <3>2. PICK r \in Raw, q \in Nat : Whole(b, r, q) /\ q < k /\ k <= q + EntrySize[r]
      BY <1>3, <3>1, EntryThere
    <3>3. EntrySize[r] \in Nat /\ q < s
      BY <3>2, Sizes
    <3>4. q + EntrySize[r] <= s
      BY <1>2, <2>2, <3>2, <3>3, WholeApart
    <3>5. Whole(d, r, q)
      <4>1. q + EntrySize[r] <= n /\ \A i \in 1 .. (q + EntrySize[r]) : d[i] = b[i]
        BY <2>3, <2>4, <3>3, <3>4
      <4>2. QED
        BY <1>1, <3>2, <4>1, SameWhole
    <3>6. QED
      BY <1>1, <3>2, <3>3, <3>5, WholeIsReadable
  <2>7. ASSUME s < n, Readable(d, s + 1) PROVE FALSE
    <3>1. s + 1 \in 3 .. Len(d) /\ s + 1 \in 1 .. n
      BY <1>1, <2>2, <2>7
    <3>2. PICK r \in Raw, q \in Nat : Whole(d, r, q) /\ d[s + 1] = Cell(r, (s + 1) - q)
      BY <1>1, <1>5, <2>7, <3>1, ReadableCell
    <3>3. r = raw /\ (s + 1) - q = 1
      BY <2>4, <2>5, <3>1, <3>2, CellFields
    <3>4. s + EntrySize[raw] <= n
      BY <1>1, <3>2, <3>3 DEF Whole
    <3>5. QED
      BY <2>3, <3>4
  <2>8. EndsAt(d, s)
    BY <1>1, <2>2, <2>3, <2>6, <2>7 DEF EndsAt
  <2>9. \A k \in 3 .. s : d[k] = b[k]
    BY <2>3, <2>4
  <2>10. s \in DOMAIN view(b).data /\ view(d) = storage_truncate(view(b), s)
    BY <1>1, <1>3, <2>3, <2>5, <2>8, <2>9, ViewCuts
  <2>11. QED
    BY <2>10 DEF d
<1>8. QED
  BY <1>4, <1>6, <1>7

-----------------------------------------------------------------------------
(* Where the next cell is written: never before the end of the device.     *)

CellsInv == bytes \in Seq(GoodCells) /\ call.out \in Seq(GoodCells)

\* A storage writes behind all that its device holds; if it has to seek first,
\* the position it seeks stands behind it.
Appends ==
    /\ CellsInv
    /\ call.op \in {"idle", "put", "reload"} =>
          /\ is_slate(bytes) /\ next >= FirstPosition
          /\ tip.i > 0 => tip.position >= FirstPosition
    /\ faults > 0 => is_slate(bytes) /\ call.op # "boot"
    /\ \A k \in DOMAIN acked : acked[k].position >= FirstPosition
    /\ device # "append" =>
          /\ call.op = "put" => cursor >= Len(bytes)
          /\ call.op = "idle" => IF expected = next THEN cursor >= Len(bytes) ELSE Len(bytes) <= next
          /\ call.op = "reload" => expected # next /\ Len(bytes) <= next

\* While no call has failed this follows from where everything is.
LEMMA CleanAppends ==
    ASSUME BlockInv, CellsInv, faults = 0
    PROVE  Appends
<1> USE DEF CellsInv
<1>1. PICK n \in 0 .. MaxN : CleanAt(n)
  BY DEF BlockInv, Clean
<1>2. /\ BlockTypeOK /\ n \in Nat /\ Chain(n) /\ FirstPosition = 2 /\ Len(bytes) \in Nat
      /\ next \in Nat /\ cursor \in Nat /\ tip.position \in Nat
  BY <1>1, StorageAssumption, MagicCells, GoodAreCells DEF BlockInv, BlockTypeOK, CleanAt
<1>3. /\ \A k \in 1 .. n : acked[k].position >= FirstPosition /\ acked[k].position \in Nat
      /\ ChainEnd(n) >= 2 /\ ChainEnd(n) \in Nat /\ DOMAIN acked = 1 .. n
  <2>1. DOMAIN acked = 1 .. n
    BY <1>2 DEF Chain
  <2>2. QED
    <3>1. /\ \A k \in 1 .. n : acked[k].position >= FirstPosition /\ acked[k].position \in Nat
          /\ \A k \in 0 .. n : ChainEnd(k) \in Nat /\ FirstPosition <= ChainEnd(k)
      BY <1>2, ChainFacts
    <3>2. n \in 0 .. n
      BY <1>2
    <3>3. QED
      BY <1>2, <2>1, <3>1, <3>2
<1>4. ASSUME is_slate(bytes) PROVE Len(bytes) >= 2
  BY <1>2, <1>4, SlateCells DEF BlockTypeOK
<1>5. CASE call.op = "idle" \/ call.op = "put"
  <2>1. /\ is_slate(bytes) /\ next = ChainEnd(n) /\ expected = next /\ cursor = Len(bytes)
        /\ tip = TipOf(n)
    BY <1>1, <1>5 DEF CleanAt
  <2>2. tip.i > 0 => tip.position >= FirstPosition
    <3>1. CASE n = 0
      BY <2>1, <3>1 DEF TipOf, NoTip
    <3>2. CASE n > 0
      <4>1. tip.position = acked[n].position /\ n \in 1 .. n
        BY <1>2, <2>1, <3>2 DEF TipOf
      <4>2. QED
        BY <1>3, <4>1
    <3>3. QED
      BY <1>2, <3>1, <3>2
  <2>3. QED
    BY <1>2, <1>3, <1>5, <2>1, <2>2 DEF Appends
<1>6. CASE call.op = "reload"
  <2>1. /\ is_slate(bytes) /\ expected = Len(bytes) /\ Len(bytes) < next /\ Len(bytes) <= tip.position
    BY <1>1, <1>6 DEF CleanAt
  <2>2. QED
    BY <1>2, <1>3, <1>4, <1>6, <2>1 DEF Appends
<1>7. CASE call.op \notin {"idle", "put", "reload"}
  BY <1>2, <1>3, <1>7 DEF Appends
<1>8. QED
  BY <1>5, <1>6, <1>7

-----------------------------------------------------------------------------
(* Every cell written knows its place.                                     *)

LEMMA MarksAreGood == Magic \in Seq(GoodCells) /\ <<>> \in Seq(GoodCells)
<1>1. Cell(<<"identifier", 0>>, 1) \in GoodCells /\ Cell(<<"version", 0>>, 1) \in GoodCells
  BY RawIsNoMark, CellFields DEF GoodCells, Cells, Cell
<1>2. QED
  BY <1>1 DEF Magic

LEMMA DataIsGood ==
    ASSUME NEW raw \in Raw
    PROVE  write_data(raw) \in Seq(GoodCells)
<1>1. \A k \in 1 .. EntrySize[raw] : Cell(raw, k) \in GoodCells
  BY Sizes, CellFields DEF GoodCells
<1>2. QED
  BY <1>1, Sizes DEF write_data

LEMMA CellsStep ==
    ASSUME BlockInv, CellsInv, Next
    PROVE  CellsInv'
<1> USE DEF CellsInv
<1>1. /\ bytes \in Seq(GoodCells) /\ call.out \in Seq(GoodCells) /\ Len(bytes) \in Nat
      /\ cursor \in Nat /\ next \in Nat /\ \A k \in DOMAIN acked : acked[k].position \in Nat
      /\ tip.position \in Nat /\ tip.i \in 0 .. MaxN
  BY GoodAreCells DEF BlockInv, BlockTypeOK, Acked
<1>2. Idle.out \in Seq(GoodCells) /\ Closed.out \in Seq(GoodCells)
  BY RestCalls, MarksAreGood
<1>3. ASSUME NEW p \in Nat, CutAt(p) PROVE bytes' \in Seq(GoodCells)
  BY <1>1, <1>3, ResizedTo DEF CutAt
<1>4. CASE Open \/ FinishBoot \/ FinishPut \/ FailPut \/ Reload \/ FailReload \/ First \/ Stop
  BY <1>1, <1>2, <1>4 DEF Open, FinishBoot, FinishPut, FailPut, Reload, FailReload, First, Stop
<1>5. CASE OpenEmpty
  BY <1>1, <1>5, MarksAreGood DEF OpenEmpty, Call
<1>6. ASSUME NEW v \in Value, StartPut(v) PROVE call'.out \in Seq(GoodCells) /\ bytes' = bytes
  <2>1. <<v, tip.i + 1>> \in Raw
    BY <1>1, <1>6, StorageAssumption DEF StartPut, Raw
  <2>2. call'.out = write_data(<<v, tip.i + 1>>) /\ bytes' = bytes
    BY <1>6 DEF StartPut, Call
  <2>3. QED
    BY <2>1, <2>2, DataIsGood
<1>7. CASE Write
  <2>1. /\ call.out # <<>> /\ bytes' = written(bytes, write_at(device, bytes, cursor), Head(call.out))
        /\ call' = [call EXCEPT !.out = Tail(@)]
    BY <1>7 DEF Write
  <2>2. Head(call.out) \in GoodCells /\ Tail(call.out) \in Seq(GoodCells)
    BY <1>1, <2>1, HeadTailProperties
  <2>3. call'.out = Tail(call.out)
    BY <2>1 DEF BlockInv, BlockTypeOK
  <2>4. write_at(device, bytes, cursor) \in Nat
    BY <1>1 DEF write_at
  <2>5. bytes' \in Seq(GoodCells)
    <3> DEFINE p == write_at(device, bytes, cursor)
               c == Head(call.out)
    <3>1. p \in Nat /\ c \in GoodCells /\ c \in Cells /\ bytes \in Seq(Cells)
      BY <1>1, <2>2, <2>4, GoodAreCells DEF GoodCells
    <3> HIDE DEF p, c
    <3>2. CASE p >= Len(bytes)
      BY <1>1, <2>1, <3>1, <3>2, WrittenBehind DEF p, c
    <3>3. CASE p < Len(bytes)
      <4> DEFINE w == written(bytes, p, c)
      <4>1. w \in Seq(Cells) /\ Len(w) = Len(bytes) /\ w[p + 1] = c /\ \A k \in 1 .. Len(bytes) : k # p + 1 => w[k] = bytes[k]
        BY <1>1, <3>1, <3>3, WrittenCells
      <4>2. \A k \in 1 .. Len(bytes) : bytes[k] \in GoodCells
        BY <1>1, ElementOfSeq
      <4> HIDE DEF w
      <4>3. \A k \in 1 .. Len(bytes) : w[k] \in GoodCells
        BY <3>1, <4>1, <4>2
      <4>4. w = [k \in 1 .. Len(bytes) |-> w[k]]
        BY <4>1
      <4>5. w \in Seq(GoodCells)
        BY <1>1, <4>3, <4>4
      <4>6. QED
        BY <2>1, <4>5 DEF w, p, c
    <3>4. QED
      BY <1>1, <3>1, <3>2, <3>3
  <2>6. QED
    BY <2>2, <2>3, <2>5
<1>8. ASSUME NEW i \in 1 .. MaxN, Truncate(i) PROVE call'.out \in Seq(GoodCells) /\ bytes' \in Seq(GoodCells)
  <2>1. PICK p : /\ CutAt(p) /\ call' = Call("reload", NoRaw, <<>>, p)
                 /\ \/ i \in DOMAIN acked /\ p = acked[i].position
                    \/ tip.i = i /\ p = tip.position
    BY <1>8 DEF Truncate
  <2>2. p \in Nat /\ call'.out = <<>>
    BY <1>1, <2>1 DEF Call
  <2>3. QED
    BY <1>3, <2>1, <2>2, MarksAreGood
<1>9. ASSUME NEW i \in 1 .. MaxN, TraitTruncate(i) PROVE call' = call /\ bytes' \in Seq(GoodCells)
  BY <1>1, <1>3, <1>9 DEF TraitTruncate
<1>10. ASSUME NEW p \in {next, next + 1}, TraitTruncateBehind(p) PROVE call' = call /\ bytes' \in Seq(GoodCells)
  BY <1>1, <1>3, <1>10 DEF TraitTruncateBehind
<1>11. QED
  BY <1>1, <1>4, <1>5, <1>6, <1>7, <1>8, <1>9, <1>10 DEF Next

\* While no call has failed it follows from BlockInv, so that the induction is
\* about the steps after that.
FaultyAppends == faults # 0 => Appends

\* Once a call has failed the storage is a file, and it was formatted before.
LEMMA FaultyFacts ==
    ASSUME BlockInv, Appends, Next, faults' # 0
    PROVE  /\ BlockTypeOK /\ device # "memory" /\ user = "slate"
           /\ call.op # "boot" /\ is_slate(bytes)
           /\ Len(bytes) \in Nat /\ next \in Nat /\ cursor \in Nat /\ expected \in Nat
           /\ FirstPosition = 2 /\ faults \in Nat /\ call.at \in Nat
           /\ call.op = "put" => call.at = next /\ expected = next /\ call.raw \in Raw
           /\ device # "append" /\ call.op = "idle" /\ expected = next => cursor >= next
<1>1. /\ BlockTypeOK /\ FirstPosition = 2 /\ Len(bytes) \in Nat /\ next \in Nat /\ cursor \in Nat
      /\ expected \in Nat /\ faults \in Nat /\ call.at \in Nat
      /\ user \in {"slate", "trait"} /\ (user = "trait" => device = "memory")
      /\ call.op = "put" => call.raw \in Raw
      /\ device \in {"memory", "file", "append"}
  BY MagicCells, GoodAreCells DEF BlockInv, BlockTypeOK, Appends, CellsInv
<1>2. ASSUME faults = 0 PROVE FailPut \/ FailReload
  BY <1>2 DEF Next, Open, OpenEmpty, FinishBoot, StartPut, Write, FinishPut, Truncate, TraitTruncate,
     Reload, TraitTruncateBehind, First, Stop
<1>3. CASE faults = 0
  <2>1. PICK n \in 0 .. MaxN : CleanAt(n)
    BY <1>3 DEF BlockInv, Clean
  <2>2. FailPut \/ (FailReload /\ CountFault /\ device # "memory")
    <3>1. ASSUME FailReload PROVE CountFault /\ device # "memory"
      <4>1. faults' # faults
        BY <1>3
      <4>2. QED
        BY <3>1, <4>1, Zenon DEF FailReload
    <3>2. QED
      BY <1>2, <1>3, <3>1
  <2>3. device # "memory" /\ (call.op = "put" \/ call.op = "reload") /\ call.op # "boot" /\ call.op # "idle"
    BY <2>2 DEF FailPut, FailReload
  <2>4. is_slate(bytes) /\ (call.op = "put" => call.at = next /\ expected = next)
    BY <2>1, <2>3 DEF CleanAt
  <2>5. user = "slate"
    BY <1>1, <2>3
  <2>6. QED
    BY <1>1, <2>3, <2>4, <2>5, Zenon
<1>4. CASE faults # 0
  <2>1. Faulty /\ faults > 0
    BY <1>1, <1>4 DEF BlockInv
  <2>2. is_slate(bytes) /\ call.op # "boot"
    BY <2>1 DEF Appends, CellsInv
  <2>3. /\ device # "memory"
        /\ call.op = "put" => call.at = next /\ expected = next
        /\ device = "file" /\ call.op = "idle" /\ expected = next => cursor >= next
    BY <2>1 DEF Faulty
  <2>4. device # "append" => device = "file"
    BY <1>1, <2>3
  <2>5. QED
    BY <1>1, <2>2, <2>3, <2>4, Zenon
<1>5. QED
  BY <1>3, <1>4

\* Opening and reloading.
LEMMA LastAppends ==
    ASSUME BlockInv, Appends, LastSucceeds, call' = Idle, bytes' = bytes, device' = device
    PROVE  Appends'
<1>1. BlockTypeOK /\ bytes \in Seq(GoodCells) /\ Len(bytes) \in Nat /\ FirstPosition = 2 /\ bytes \in Seq(Cells)
  BY GoodAreCells, MagicCells DEF BlockInv, BlockTypeOK, Appends, CellsInv
<1>2. /\ cursor' = Len(bytes) /\ expected' = Len(bytes) /\ next' = Len(bytes)
      /\ \/ tip' = NoTip /\ acked' = acked
         \/ \E x \in last_data(bytes) :
               /\ tip' = [i |-> x.raw[2], position |-> x.position]
               /\ acked' = IF x.raw[2] \in DOMAIN acked THEN acked
                           ELSE [i \in DOMAIN acked \cup {x.raw[2]} |->
                                    IF i = x.raw[2] THEN x ELSE acked[i]]
  BY <1>1, LastGives
<1>3. is_slate(bytes) /\ Len(bytes) >= 2
  BY <1>1, SlateCells DEF LastSucceeds, boots
<1>4. \A x \in last_data(bytes) : x.position >= FirstPosition
  BY <1>1, LastIsWhole
<1>5. tip'.i > 0 => tip'.position >= FirstPosition
  <2>1. ASSUME tip' = NoTip PROVE ~(tip'.i > 0)
    BY <2>1 DEF NoTip
  <2>2. ASSUME NEW x \in last_data(bytes), tip' = [i |-> x.raw[2], position |-> x.position]
        PROVE  tip'.position >= FirstPosition
    BY <1>4, <2>2
  <2>3. QED
    BY <1>2, <2>1, <2>2, Zenon
<1>6. \A k \in DOMAIN acked : acked[k].position >= FirstPosition
  BY DEF Appends, CellsInv
<1>7. \A k \in DOMAIN acked' : acked'[k].position >= FirstPosition
  BY <1>2, <1>4, <1>6
<1>8. call'.op = "idle" /\ call'.out \in Seq(GoodCells)
  BY RestCalls, MarksAreGood
<1>9. QED
  BY <1>1, <1>2, <1>3, <1>5, <1>7, <1>8 DEF Appends, CellsInv

LEMMA StartPutAppends ==
    ASSUME BlockInv, Appends, Next, faults' # 0, CellsInv',
           NEW v \in Value, StartPut(v)
    PROVE  Appends'
<1>1. /\ bytes' = bytes /\ device' = device /\ next' = next /\ tip' = tip /\ acked' = acked
      /\ cursor' = (IF expected # next THEN next ELSE cursor) /\ call.op = "idle" /\ call'.op = "put"
  BY DEF StartPut, Call
<1>2. /\ Len(bytes) \in Nat /\ next \in Nat /\ cursor \in Nat
  BY FaultyFacts
<1>3. device # "append" => cursor' >= Len(bytes)
  BY <1>1, <1>2 DEF Appends, CellsInv
<1>4. QED
  BY <1>1, <1>3 DEF Appends, CellsInv

LEMMA WriteAppends ==
    ASSUME BlockInv, Appends, Next, faults' # 0, CellsInv', Write
    PROVE  Appends'
<1> DEFINE p == write_at(device, bytes, cursor)
           c == Head(call.out)
<1>1. /\ BlockTypeOK /\ is_slate(bytes) /\ call.op # "boot"
      /\ Len(bytes) \in Nat /\ next \in Nat /\ cursor \in Nat /\ bytes \in Seq(GoodCells)
  BY FaultyFacts DEF Appends, CellsInv
<1>2. /\ call.out # <<>> /\ bytes' = written(bytes, p, c) /\ cursor' = p + 1
      /\ call' = [call EXCEPT !.out = Tail(@)]
      /\ UNCHANGED <<device, user, expected, next, tip, acked, spared, faults>>
  BY DEF Write
<1>3. call.op = "put" /\ call'.op = "put"
  BY <1>1, <1>2 DEF BlockTypeOK
<1>4. p \in Nat /\ p >= Len(bytes)
  BY <1>1, <1>3 DEF Appends, CellsInv, write_at
<1>5. c \in GoodCells
  BY <1>2, HeadTailProperties DEF Appends, CellsInv
<1> HIDE DEF p, c
<1>6. /\ Len(bytes') = p + 1 /\ \A k \in 1 .. Len(bytes) : bytes'[k] = bytes[k]
  BY <1>1, <1>2, <1>4, <1>5, WrittenBehind
<1>7. is_slate(bytes')
  <2>1. bytes \in Seq(Cells) /\ bytes' \in Seq(Cells)
    BY <1>1, GoodAreCells DEF CellsInv
  <2>2. QED
    BY <1>1, <1>4, <1>6, <2>1, SlateCells
<1>8. QED
  BY <1>2, <1>3, <1>4, <1>6, <1>7 DEF Appends, CellsInv

LEMMA FinishPutAppends ==
    ASSUME BlockInv, Appends, Next, faults' # 0, FinishPut
    PROVE  Appends'
<1>1. /\ call.op = "put" /\ expected' = expected + EntrySize[call.raw] /\ next' = expected'
      /\ tip' = [i |-> call.raw[2], position |-> call.at]
      /\ acked' = [i \in DOMAIN acked \cup {call.raw[2]} |->
                      IF i = call.raw[2] THEN [raw |-> call.raw, position |-> call.at] ELSE acked[i]]
      /\ call' = Idle /\ UNCHANGED <<device, user, bytes, cursor, spared, faults>>
  BY DEF FinishPut
<1>2. /\ call.at = next /\ expected = next /\ call.raw \in Raw /\ next \in Nat /\ FirstPosition = 2
  BY <1>1, FaultyFacts
<1>3. EntrySize[call.raw] \in Nat /\ next >= 2 /\ is_slate(bytes)
  BY <1>1, <1>2, Sizes DEF Appends, CellsInv
<1>4. next' >= FirstPosition
  BY <1>1, <1>2, <1>3
<1>5. tip'.position >= FirstPosition /\ \A k \in DOMAIN acked' : acked'[k].position >= FirstPosition
  BY <1>1, <1>2, <1>3 DEF Appends, CellsInv
<1>6. call'.op = "idle" /\ call'.out \in Seq(GoodCells)
  BY <1>1, RestCalls, MarksAreGood
<1>7. QED
  BY <1>1, <1>3, <1>4, <1>5, <1>6 DEF Appends, CellsInv

LEMMA FailPutAppends ==
    ASSUME BlockInv, Appends, Next, faults' # 0, FailPut
    PROVE  Appends'
<1>1. /\ call.op = "put" /\ call' = Idle
      /\ UNCHANGED <<device, user, bytes, cursor, expected, next, tip, acked>>
  BY DEF FailPut
<1>2. expected = next /\ is_slate(bytes)
  BY <1>1, FaultyFacts
<1>3. call'.op = "idle" /\ call'.out \in Seq(GoodCells)
  BY <1>1, RestCalls, MarksAreGood
<1>4. QED
  BY <1>1, <1>2, <1>3 DEF Appends, CellsInv

LEMMA FailReloadAppends ==
    ASSUME BlockInv, Appends, Next, faults' # 0, FailReload
    PROVE  Appends'
<1>1. /\ call.op = "reload" /\ call' = Idle
      /\ \/ expected' = expected
         \/ cursor' = Len(bytes) /\ expected' = Len(bytes)
      /\ UNCHANGED <<device, user, bytes, next, tip, acked>>
  BY DEF FailReload, boot_cursor
<1>2. Len(bytes) \in Nat /\ next \in Nat /\ is_slate(bytes)
  BY FaultyFacts
<1>3. call'.op = "idle" /\ call'.out \in Seq(GoodCells)
  BY <1>1, RestCalls, MarksAreGood
<1>4. device # "append" => IF expected' = next THEN cursor' >= Len(bytes) ELSE Len(bytes) <= next
  BY <1>1, <1>2 DEF Appends, CellsInv
<1>5. QED
  BY <1>1, <1>2, <1>3, <1>4 DEF Appends, CellsInv

LEMMA TruncateAppends ==
    ASSUME BlockInv, Appends, Next, faults' # 0, CellsInv',
           NEW i \in 1 .. MaxN, Truncate(i)
    PROVE  Appends'
<1>1. /\ call.op = "idle" /\ i <= tip.i /\ Forget(i) /\ UNCHANGED <<device, user, next, tip, faults>>
  BY DEF Truncate
<1>2. PICK p : /\ p < next /\ CutAt(p) /\ call' = Call("reload", NoRaw, <<>>, p)
               /\ \/ i \in DOMAIN acked /\ p = acked[i].position
                  \/ tip.i = i /\ p = tip.position
  BY DEF Truncate
<1>3. /\ BlockTypeOK /\ is_slate(bytes) /\ FirstPosition = 2 /\ device # "memory"
      /\ Len(bytes) \in Nat /\ next \in Nat /\ cursor \in Nat /\ expected \in Nat
      /\ device # "append" /\ expected = next => cursor >= next
      /\ bytes \in Seq(Cells) /\ bytes' \in Seq(Cells)
  <2>1. bytes \in Seq(GoodCells)
    BY DEF Appends, CellsInv
  <2>2. QED
    BY <1>1, <2>1, FaultyFacts, GoodAreCells DEF CellsInv
<1>4. p \in Nat /\ p >= 2
  BY <1>1, <1>2, <1>3 DEF Appends, CellsInv, BlockTypeOK, Acked
<1>5. \/ /\ truncates(device, bytes, cursor, p)
         /\ Len(bytes') = p /\ expected' = p
         /\ \A k \in 1 .. p : k <= Len(bytes) => bytes'[k] = bytes[k]
      \/ /\ ~truncates(device, bytes, cursor, p)
         /\ UNCHANGED <<bytes, cursor, expected>>
  BY <1>2, <1>3, <1>4, CutGives
<1>6. is_slate(bytes')
  <2>1. bytes'[1] = bytes[1] /\ bytes'[2] = bytes[2] /\ Len(bytes') >= 2
    BY <1>3, <1>4, <1>5, SlateCells
  <2>2. QED
    BY <1>3, <2>1, SlateCells
<1>7. device # "append" => expected' # next /\ Len(bytes') <= next
  BY <1>1, <1>2, <1>3, <1>4, <1>5 DEF Appends, CellsInv, truncates
<1>8. \A k \in DOMAIN acked' : acked'[k].position >= FirstPosition
  <2>1. \A k \in DOMAIN acked' : k \in DOMAIN acked /\ acked'[k] = acked[k]
    BY <1>1, <1>3, ForgetGives
  <2>2. QED
    BY <2>1 DEF Appends, CellsInv
<1>9. call'.op = "reload"
  BY <1>2 DEF Call
<1>10. QED
  BY <1>1, <1>3, <1>6, <1>7, <1>8, <1>9 DEF Appends, CellsInv

LEMMA StopAppends ==
    ASSUME BlockInv, Appends, Next, faults' # 0, Stop
    PROVE  Appends'
<1>1. call' = Closed /\ UNCHANGED <<device, user, bytes, next, tip, acked, spared, faults>>
  BY DEF Stop
<1>2. call'.op = "closed" /\ call'.out \in Seq(GoodCells) /\ is_slate(bytes)
  BY <1>1, RestCalls, MarksAreGood, FaultyFacts
<1>3. QED
  BY <1>1, <1>2 DEF Appends, CellsInv

LEMMA AppendsStep ==
    ASSUME BlockInv, CellsInv, FaultyAppends, [Next]_blockVars
    PROVE  CellsInv' /\ FaultyAppends'
<1>a. Appends
  BY CleanAppends DEF FaultyAppends
<1>1. CASE UNCHANGED blockVars
  BY <1>1, <1>a DEF FaultyAppends, Appends, CellsInv, blockVars
<1>2. CASE Next /\ faults' = 0
  BY <1>2, CellsStep DEF FaultyAppends
<1>3. CASE Next /\ faults' # 0
  <2>1. /\ CellsInv'
        /\ user = "slate" /\ bytes # <<>>
    <3>1. is_slate(bytes) /\ user = "slate" /\ bytes \in Seq(Cells)
      BY <1>a, <1>3, FaultyFacts, GoodAreCells DEF Appends, CellsInv
    <3>2. bytes # <<>>
      BY <3>1, SlateCells
    <3>3. QED
      BY <1>3, <3>1, <3>2, CellsStep
  <2>2. ASSUME Open \/ FinishBoot \/ Reload PROVE Appends'
    BY <1>a, <2>2, LastAppends DEF Open, FinishBoot, Reload
  <2>3. ASSUME NEW v \in Value, StartPut(v) PROVE Appends'
    BY <1>a, <1>3, <2>1, <2>3, StartPutAppends
  <2>4. ASSUME Write \/ FinishPut PROVE Appends'
    BY <1>a, <1>3, <2>1, <2>4, WriteAppends, FinishPutAppends
  <2>5. ASSUME FailPut \/ FailReload \/ Stop PROVE Appends'
    BY <1>a, <1>3, <2>1, <2>5, FailPutAppends, FailReloadAppends, StopAppends
  <2>6. ASSUME NEW i \in 1 .. MaxN, Truncate(i) PROVE Appends'
    BY <1>a, <1>3, <2>1, <2>6, TruncateAppends
  <2>7. ~OpenEmpty /\ ~First /\ (\A i : ~TraitTruncate(i)) /\ (\A p : ~TraitTruncateBehind(p))
    BY <2>1 DEF OpenEmpty, First, TraitTruncate, TraitTruncateBehind
  <2>8. QED
    BY <1>3, <2>1, <2>2, <2>3, <2>4, <2>5, <2>6, <2>7 DEF Next, FaultyAppends
<1>4. QED
  BY <1>1, <1>2, <1>3

LEMMA AppendsInit == Init => CellsInv /\ FaultyAppends
BY MarksAreGood, RestCalls DEF Init, FaultyAppends, CellsInv

-----------------------------------------------------------------------------
(* A BlockStorage is a Storage.                                            *)

LEMMA CutRefines ==
    ASSUME BlockInv, Appends, NEW p \in Nat, p >= 2, is_slate(bytes), CutAt(p)
    PROVE  Contract!Next \/ view(bytes') = view(bytes)
<1>1. bytes \in Seq(GoodCells)
  BY DEF Appends, CellsInv
<1>2. CASE bytes' = bytes
  BY <1>2
<1>3. CASE bytes' = resized(bytes, p)
  <2>1. \/ view(bytes') = view(bytes)
        \/ \E s \in DOMAIN view(bytes).data : view(bytes') = storage_truncate(view(bytes), s)
    BY <1>1, <1>3, ResizeCuts
  <2>2. QED
    BY <2>1 DEF Contract!Next, Contract!Cut, Contract!storage_truncate, storage_truncate
<1>4. QED
  BY <1>2, <1>3 DEF CutAt

LEMMA WriteRefines ==
    ASSUME BlockInv, Appends, Write
    PROVE  Contract!Next \/ view(bytes') = view(bytes)
<1> DEFINE p == write_at(device, bytes, cursor)
           c == Head(call.out)
<1>1. /\ BlockTypeOK /\ bytes \in Seq(GoodCells) /\ bytes \in Seq(Cells) /\ Len(bytes) \in Nat
      /\ cursor \in Nat /\ faults \in Nat
  BY GoodAreCells DEF Appends, CellsInv, BlockInv, BlockTypeOK
<1>2. call.out # <<>> /\ bytes' = written(bytes, p, c)
  BY DEF Write
<1>3. c \in GoodCells
  BY <1>2, HeadTailProperties DEF Appends, CellsInv
<1>4. call.op = "boot" \/ call.op = "put"
  BY <1>1, <1>2 DEF BlockTypeOK
<1>5. CASE call.op = "put"
  <2>1. p \in Nat /\ p >= Len(bytes) /\ is_slate(bytes)
    BY <1>1, <1>5 DEF Appends, write_at
  <2> HIDE DEF p, c
  <2>2. \/ view(bytes') = view(bytes)
        \/ \E e \in entries_of(view(bytes')) :
              /\ position_of(e) = view(bytes).end
              /\ view(bytes') = storage_put(view(bytes), view(bytes).end, e)
    BY <1>1, <1>2, <1>3, <2>1, WriteExtends
  <2>3. QED
    BY <2>2 DEF Contract!Next, Contract!Put, Contract!entries_of, entries_of,
       Contract!position_of, position_of, Contract!storage_put, storage_put,
       Contract!entry_size, entry_size, Contract!index_of, index_of
<1>6. CASE call.op = "boot"
  <2>1. faults = 0
    BY <1>1, <1>6 DEF Appends
  <2>2. PICK n \in 0 .. MaxN : CleanAt(n)
    BY <2>1 DEF BlockInv, Clean
  <2>3. bytes \o call.out = Magic /\ cursor = Len(bytes)
    BY <1>6, <2>2 DEF CleanAt
  <2>4. call.out \in Seq(Cells) /\ Len(call.out) \in Nat /\ Len(call.out) > 0
    BY <1>1, <1>2, LenProperties, EmptySeq DEF BlockTypeOK
  <2>5. Len(bytes) + Len(call.out) = 2
    BY <1>1, <2>3, <2>4, ConcatProperties, MagicCells
  <2>6. p \in Nat /\ p >= Len(bytes) /\ p = Len(bytes)
    BY <1>1, <2>3 DEF write_at
  <2> HIDE DEF p, c
  <2>7. bytes' \in Seq(GoodCells) /\ Len(bytes') = Len(bytes) + 1
    BY <1>1, <1>2, <1>3, <2>6, WrittenBehind
  <2>8. view(bytes) = EmptyStorage /\ view(bytes') = EmptyStorage
    BY <1>1, <2>4, <2>5, <2>7, NoView
  <2>9. QED
    BY <2>8
<1>7. QED
  BY <1>4, <1>5, <1>6

\* Every step puts an entry, cuts the storage, or leaves it as it is.
LEMMA BlockRefines ==
    BlockInv /\ CellsInv /\ FaultyAppends /\ [Next]_blockVars => [Contract!Next]_(view(bytes))
<1> SUFFICES ASSUME BlockInv, CellsInv, FaultyAppends, [Next]_blockVars
             PROVE  Contract!Next \/ view(bytes)' = view(bytes)
  OBVIOUS
<1>v. view(bytes)' = view(bytes')
  BY DEF view, view_end, strays, read_data, decode, write_data
<1>a. Appends
  BY CleanAppends DEF FaultyAppends
<1>1. CASE bytes' = bytes
  BY <1>1, <1>v
<1>2. CASE Write
  BY <1>2, <1>a, <1>v, WriteRefines
<1>3. ASSUME NEW i \in 1 .. MaxN, Truncate(i) \/ TraitTruncate(i)
      PROVE  Contract!Next \/ view(bytes)' = view(bytes)
  <2>1. call.op = "idle" /\ i \in Nat /\ tip.i \in Nat /\ FirstPosition = 2
    BY <1>3, MagicCells, StorageAssumption DEF Truncate, TraitTruncate, BlockInv, BlockTypeOK
  <2>2. PICK p : /\ CutAt(p)
                 /\ \/ i \in DOMAIN acked /\ p = acked[i].position
                    \/ tip.i = i /\ p = tip.position
    BY <1>3 DEF Truncate, TraitTruncate
  <2>3. is_slate(bytes) /\ p \in Nat /\ p >= 2
    BY <1>a, <2>1, <2>2 DEF Appends, BlockInv, BlockTypeOK, Acked
  <2>4. QED
    BY <1>a, <1>v, <2>2, <2>3, CutRefines
<1>4. ASSUME NEW p \in {next, next + 1}, TraitTruncateBehind(p)
      PROVE  Contract!Next \/ view(bytes)' = view(bytes)
  <2>1. call.op = "idle" /\ next \in Nat /\ FirstPosition = 2 /\ CutAt(p)
    BY <1>4, MagicCells DEF TraitTruncateBehind, BlockInv, BlockTypeOK
  <2>2. is_slate(bytes) /\ p \in Nat /\ p >= 2
    BY <1>a, <2>1 DEF Appends
  <2>3. QED
    BY <1>a, <1>v, <2>1, <2>2, CutRefines
<1>5. ASSUME Next PROVE \/ bytes' = bytes \/ Write
                        \/ \E i \in 1 .. MaxN : Truncate(i) \/ TraitTruncate(i)
                        \/ \E p \in {next, next + 1} : TraitTruncateBehind(p)
  BY <1>5 DEF Next, Open, OpenEmpty, FinishBoot, StartPut, FinishPut, FailPut, Reload, FailReload, First, Stop
<1>6. ASSUME UNCHANGED blockVars PROVE bytes' = bytes
  BY <1>6 DEF blockVars
<1>7. QED
  BY <1>1, <1>2, <1>3, <1>4, <1>5, <1>6

LEMMA BlockStarts == Init => Contract!Init
<1> SUFFICES ASSUME Init PROVE view(bytes) = EmptyStorage
  BY DEF Contract!Init, Contract!EmptyStorage, EmptyStorage
<1>1. bytes \in Seq(GoodCells) /\ Len(bytes) <= 2
  <2>1. bytes = <<>> /\ Len(<<>>) = 0
    BY EmptySeq DEF Init
  <2>2. QED
    BY <2>1, MarksAreGood
<1>2. QED
  BY <1>1, NoView

\* Appends: the cells of a device, whatever has failed, and where the next one
\* goes: a storage never writes before the end of its device.
THEOREM AppendsInvariant == ASSUME TraitDevice \subseteq {"memory"} PROVE Spec => []Appends
<1>1. Spec => []BlockInv
  BY BlockInvariant
<1>2. Init => CellsInv /\ FaultyAppends
  BY AppendsInit
<1>3. BlockInv /\ CellsInv /\ FaultyAppends /\ [Next]_blockVars => CellsInv' /\ FaultyAppends'
  BY AppendsStep
<1>4. BlockInv /\ CellsInv /\ FaultyAppends => Appends
  BY CleanAppends DEF FaultyAppends
<1>5. QED
  BY <1>1, <1>2, <1>3, <1>4, PTL DEF Spec

\* ImplementsContract: read one after the other, the entries of a device are a
\* storage to which put adds one at the end and from which truncate takes one
\* and all behind it; what failing calls and dying processes leave is never
\* read as part of it (storage.rs:31-50).
THEOREM BlockIsStorage == ASSUME TraitDevice \subseteq {"memory"} PROVE Spec => ImplementsContract
<1>1. Spec => []BlockInv
  BY BlockInvariant
<1>2. Init => CellsInv /\ FaultyAppends
  BY AppendsInit
<1>3. BlockInv /\ CellsInv /\ FaultyAppends /\ [Next]_blockVars => CellsInv' /\ FaultyAppends'
  BY AppendsStep
<1>4. Spec => Contract!Init /\ [][Contract!Next]_(view(bytes))
  BY <1>1, <1>2, <1>3, BlockStarts, BlockRefines, PTL DEF Spec
<1>5. QED
  BY <1>4 DEF ImplementsContract, Contract!Spec

-----------------------------------------------------------------------------
(* A storage that has been read.                                           *)

\* Once it has been read, and until a call fails, a storage stands at the end of
\* its device, where put has written the first cells of its entry.
Settled ==
    /\ call.op = "idle" => cursor = Len(bytes) /\ expected = next /\ next = Len(bytes)
    /\ call.op = "put" =>
          /\ cursor = Len(bytes) /\ expected = call.at
          /\ Len(bytes) >= call.at
          /\ Len(bytes) + Len(call.out) = call.at + EntrySize[call.raw]
          /\ \A k \in 1 .. Len(bytes) - call.at : bytes[call.at + k] = Cell(call.raw, k)
          /\ \A k \in 1 .. Len(call.out) : call.out[k] = Cell(call.raw, (Len(bytes) - call.at) + k)

LEMMA CleanSettled == ASSUME BlockInv, faults = 0 PROVE Settled
<1>1. PICK n \in 0 .. MaxN : CleanAt(n)
  BY DEF BlockInv, Clean
<1>2. Len(bytes) \in Nat /\ next \in Nat
  BY LenProperties DEF BlockInv, BlockTypeOK
<1>3. call.op = "idle" \/ call.op = "put" => cursor = Len(bytes) /\ next = ChainEnd(n) /\ expected = next
  BY <1>1 DEF CleanAt
<1>4. call.op = "put" => Torn(call.raw, n) /\ call.at = next
  BY <1>1 DEF CleanAt
<1>5. call.op = "put" => /\ Len(bytes) >= call.at
                         /\ \A k \in 1 .. Len(bytes) - call.at : bytes[call.at + k] = Cell(call.raw, k)
  <2> SUFFICES ASSUME call.op = "put"
               PROVE  /\ Len(bytes) >= call.at
                      /\ \A k \in 1 .. Len(bytes) - call.at : bytes[call.at + k] = Cell(call.raw, k)
    OBVIOUS
  <2>1. call.raw \in Raw /\ call.at = ChainEnd(n) /\ ChainEnd(n) \in Nat
    BY <1>2, <1>3, <1>4 DEF Torn
  <2>2. EntrySize[call.raw] \in Nat
    BY <2>1, Sizes
  <2>3. QED
    BY <1>2, <1>4, <2>1, <2>2 DEF Torn
<1>6. QED
  BY <1>1, <1>3, <1>4, <1>5 DEF CleanAt, Settled

FaultySettled == faults # 0 /\ sound => Settled

\* A step of a Slate on which calls have failed.
LEMMA SettledStep ==
    ASSUME BlockInv, CellsInv, FaultyAppends, FaultySettled, [Next]_blockVars
    PROVE  FaultySettled'
<1>a. Appends
  BY CleanAppends DEF FaultyAppends
<1>1. CASE UNCHANGED blockVars
  BY <1>1 DEF FaultySettled, Settled, blockVars
<1>2. CASE Next /\ (faults' = 0 \/ ~sound')
  BY <1>2 DEF FaultySettled
<1>3. CASE Next /\ faults' # 0 /\ sound'
  <2> SUFFICES Settled'
    BY DEF FaultySettled
  <2>1. /\ BlockTypeOK /\ user = "slate" /\ call.op # "boot"
        /\ Len(bytes) \in Nat /\ next \in Nat /\ cursor \in Nat /\ faults \in Nat /\ call.at \in Nat
        /\ call.op = "put" => call.raw \in Raw
        /\ bytes \in Seq(GoodCells) /\ bytes \in Seq(Cells) /\ bytes # <<>>
    <3>1. is_slate(bytes) /\ bytes \in Seq(Cells) /\ bytes \in Seq(GoodCells)
      BY <1>3, <1>a, FaultyFacts, GoodAreCells DEF CellsInv
    <3>2. bytes # <<>>
      BY <3>1, SlateCells
    <3>3. QED
      BY <1>3, <1>a, <3>1, <3>2, FaultyFacts
  <2>2. CASE Open \/ FinishBoot \/ Reload
    <3>1. LastSucceeds /\ call' = Idle /\ bytes' = bytes
      BY <2>2 DEF Open, FinishBoot, Reload
    <3>2. QED
      BY <3>1, RestCalls DEF Settled, LastSucceeds, boot_cursor
  <2>3. ASSUME faults' = faults, sound' = sound PROVE Settled
    BY <1>3, <2>3 DEF FaultySettled
  <2>4. ASSUME NEW v \in Value, StartPut(v) PROVE Settled'
    <3> DEFINE raw == <<v, tip.i + 1>>
    <3>1. /\ call.op = "idle" /\ tip.i < MaxN /\ bytes' = bytes
          /\ call' = Call("put", raw, write_data(raw), next)
          /\ cursor' = (IF expected # next THEN next ELSE cursor) /\ expected' = next
          /\ faults' = faults /\ sound' = sound
      BY <2>4 DEF StartPut
    <3>2. raw \in Raw
      BY <2>1, <3>1, StorageAssumption DEF Raw, BlockTypeOK
    <3>3. cursor = Len(bytes) /\ expected = next /\ next = Len(bytes)
      BY <2>3, <3>1 DEF Settled
    <3> HIDE DEF raw
    <3>4. /\ call'.op = "put" /\ call'.raw = raw /\ call'.at = next /\ call'.out = write_data(raw)
      BY <3>1 DEF Call
    <3>5. QED
      BY <2>1, <3>1, <3>2, <3>3, <3>4, DataCells DEF Settled
  <2>5. CASE Write
    <3> DEFINE c == Head(call.out)
               at == call.at
               len == Len(bytes)
    <3>1. /\ call.out # <<>> /\ bytes' = written(bytes, write_at(device, bytes, cursor), c)
          /\ cursor' = write_at(device, bytes, cursor) + 1 /\ expected' = expected
          /\ call' = [call EXCEPT !.out = Tail(@)] /\ faults' = faults /\ sound' = sound
      BY <2>5 DEF Write
    <3>2. call.op = "put" /\ call.raw \in Raw /\ Settled
      BY <2>1, <2>3, <3>1 DEF BlockTypeOK
    <3>3. /\ cursor = len /\ expected = at /\ len >= at
          /\ len + Len(call.out) = at + EntrySize[call.raw]
          /\ \A k \in 1 .. len - at : bytes[at + k] = Cell(call.raw, k)
          /\ \A k \in 1 .. Len(call.out) : call.out[k] = Cell(call.raw, (len - at) + k)
      BY <3>2 DEF Settled
    <3>4. write_at(device, bytes, cursor) = len
      BY <3>3 DEF write_at
    <3>5. /\ call.out \in Seq(Cells) /\ c = call.out[1] /\ Len(call.out) \in Nat /\ Len(call.out) > 0
          /\ Len(Tail(call.out)) = Len(call.out) - 1
          /\ \A k \in 1 .. Len(call.out) - 1 : Tail(call.out)[k] = call.out[k + 1]
      BY <2>1, <3>1, HeadTailProperties, LenProperties, EmptySeq DEF BlockTypeOK
    <3>6. c \in GoodCells /\ c = Cell(call.raw, (len - at) + 1)
      BY <3>1, <3>3, <3>5, HeadTailProperties DEF CellsInv
    <3>7. /\ call'.op = "put" /\ call'.raw = call.raw /\ call'.at = at /\ call'.out = Tail(call.out)
      BY <2>1, <3>1, <3>2 DEF BlockTypeOK
    <3> HIDE DEF c
    <3>8. /\ bytes' = written(bytes, len, c) /\ cursor' = len + 1
      BY <3>1, <3>4
    <3>9. /\ Len(bytes') = len + 1 /\ bytes'[len + 1] = c
          /\ \A k \in 1 .. len : bytes'[k] = bytes[k]
      <4>1. bytes \in Seq(GoodCells) /\ len \in Nat /\ c \in GoodCells
        BY <2>1, <3>6
      <4>2. /\ Len(written(bytes, len, c)) = len + 1 /\ written(bytes, len, c)[len + 1] = c
            /\ \A k \in 1 .. len : written(bytes, len, c)[k] = bytes[k]
        BY <4>1, WrittenBehind
      <4>3. QED
        BY <3>8, <4>2
    <3>10. at \in Nat /\ len \in Nat /\ EntrySize[call.raw] \in Nat
      BY <2>1, <3>2, Sizes
    <3> HIDE DEF at, len
    <3>11. \A k \in 1 .. (len + 1) - at : bytes'[at + k] = Cell(call.raw, k)
      <4> TAKE k \in 1 .. (len + 1) - at
      <4>1. CASE k = (len - at) + 1
        BY <3>6, <3>9, <3>10, <4>1
      <4>2. CASE k # (len - at) + 1
        <5>1. k \in 1 .. len - at /\ at + k \in 1 .. len
          BY <3>3, <3>10, <4>2
        <5>2. QED
          BY <3>3, <3>9, <5>1
      <4>3. QED
        BY <4>1, <4>2
    <3>12. \A k \in 1 .. Len(call.out) - 1 : Tail(call.out)[k] = Cell(call.raw, ((len + 1) - at) + k)
      <4> TAKE k \in 1 .. Len(call.out) - 1
      <4>1. k + 1 \in 1 .. Len(call.out) /\ (len - at) + (k + 1) = ((len + 1) - at) + k
        BY <3>5, <3>10
      <4>2. QED
        BY <3>3, <3>5, <4>1
    <3>13. cursor' = Len(bytes') /\ expected' = call'.at
      BY <3>1, <3>3, <3>7, <3>8, <3>9
    <3>14. Len(bytes') >= call'.at /\ Len(bytes') + Len(call'.out) = call'.at + EntrySize[call'.raw]
      <4>1. Len(call'.out) = Len(call.out) - 1 /\ EntrySize[call'.raw] = EntrySize[call.raw]
        BY <3>5, <3>7
      <4>2. len + 1 >= at /\ (len + 1) + (Len(call.out) - 1) = at + EntrySize[call.raw]
        <5> DEFINE m == Len(call.out)
                   e == EntrySize[call.raw]
        <5>1. m \in Nat /\ e \in Nat /\ len \in Nat /\ at \in Nat
          BY <3>5, <3>10
        <5>2. len >= at /\ len + m = at + e
          BY <3>3
        <5> HIDE DEF m, e
        <5>3. len + 1 >= at /\ (len + 1) + (m - 1) = at + e
          BY <5>1, <5>2
        <5>4. QED
          BY <5>3 DEF m, e
      <4>3. QED
        BY <3>7, <3>9, <4>1, <4>2
    <3>15. \A k \in 1 .. Len(bytes') - call'.at : bytes'[call'.at + k] = Cell(call'.raw, k)
      BY <3>7, <3>9, <3>11
    <3>16. \A k \in 1 .. Len(call'.out) : call'.out[k] = Cell(call'.raw, (Len(bytes') - call'.at) + k)
      BY <3>5, <3>7, <3>9, <3>12
    <3>17. QED
      BY <3>7, <3>13, <3>14, <3>15, <3>16 DEF Settled
  <2>6. CASE FinishPut
    <3>1. /\ call.op = "put" /\ call.out = <<>> /\ call' = Idle /\ bytes' = bytes /\ cursor' = cursor
          /\ expected' = expected + EntrySize[call.raw] /\ next' = expected'
          /\ faults' = faults /\ sound' = sound
      BY <2>6 DEF FinishPut
    <3>2. EntrySize[call.raw] \in Nat /\ Len(call.out) = 0
      BY <2>1, <3>1, Sizes, EmptySeq
    <3>3. cursor = Len(bytes) /\ expected = call.at /\ Len(bytes) + Len(call.out) = call.at + EntrySize[call.raw]
      BY <2>3, <3>1 DEF Settled
    <3>4. QED
      BY <2>1, <3>1, <3>2, <3>3, RestCalls DEF Settled
  <2>7. ~FailPut /\ ~FailReload /\ ~Stop
    BY <1>3 DEF FailPut, FailReload, Stop
  <2>8. ASSUME NEW i \in 1 .. MaxN, Truncate(i) PROVE Settled'
    <3>1. call'.op = "reload"
      BY <2>8 DEF Truncate, Call
    <3>2. QED
      BY <3>1 DEF Settled
  <2>9. ~OpenEmpty /\ ~First /\ (\A i : ~TraitTruncate(i)) /\ (\A p : ~TraitTruncateBehind(p))
    BY <2>1 DEF OpenEmpty, First, TraitTruncate, TraitTruncateBehind
  <2>10. QED
    BY <1>3, <2>2, <2>4, <2>5, <2>6, <2>7, <2>8, <2>9 DEF Next
<1>4. QED
  BY <1>1, <1>2, <1>3

\* What is cut is shorter.
LEMMA CutShrinks ==
    ASSUME BlockInv, call.op = "idle", cursor <= Len(bytes), Next
    PROVE  Len(bytes') <= Len(bytes)
<1>1. /\ BlockTypeOK /\ Len(bytes) \in Nat /\ cursor \in Nat /\ next \in Nat /\ call.out = <<>>
      /\ tip.position \in Nat /\ \A k \in DOMAIN acked : acked[k].position \in Nat
      /\ cursor <= Len(bytes)
  BY LenProperties DEF BlockInv, BlockTypeOK, Acked
<1>2. ASSUME NEW p \in Nat, CutAt(p) PROVE Len(bytes') <= Len(bytes)
  <2>1. \/ truncates(device, bytes, cursor, p) /\ Len(bytes') = p
        \/ bytes' = bytes
    BY <1>1, <1>2, CutGives
  <2>2. truncates(device, bytes, cursor, p) => p < Len(bytes)
    BY <1>1 DEF truncates
  <2>3. QED
    BY <1>1, <2>1, <2>2
<1>3. ASSUME NEW i \in 1 .. MaxN, Truncate(i) \/ TraitTruncate(i) PROVE Len(bytes') <= Len(bytes)
  <2>1. PICK p : /\ CutAt(p)
                 /\ \/ i \in DOMAIN acked /\ p = acked[i].position
                    \/ tip.i = i /\ p = tip.position
    BY <1>3 DEF Truncate, TraitTruncate
  <2>2. QED
    BY <1>1, <1>2, <2>1
<1>4. ASSUME NEW p \in {next, next + 1}, TraitTruncateBehind(p) PROVE Len(bytes') <= Len(bytes)
  BY <1>1, <1>2, <1>4 DEF TraitTruncateBehind
<1>5. \/ bytes' = bytes
      \/ \E i \in 1 .. MaxN : Truncate(i) \/ TraitTruncate(i)
      \/ \E p \in {next, next + 1} : TraitTruncateBehind(p)
  BY <1>1 DEF Next, Open, OpenEmpty, FinishBoot, StartPut, Write, FinishPut, FailPut, Reload,
     FailReload, First, Stop
<1>6. QED
  BY <1>1, <1>3, <1>4, <1>5

\* What a storage that has been read does next.
LEMMA SettledHeals ==
    ASSUME BlockInv, Settled, Next
    PROVE  /\ call.op = "idle" => Len(bytes') <= Len(bytes)
           /\ call.op = "idle" /\ call'.op = "reload" => Len(bytes') = call'.at
           /\ call.op = "idle" /\ call'.op = "put" => call'.at = Len(bytes)
           /\ FinishPut => call.raw \in read_data(bytes, call.at)
<1>1. /\ BlockTypeOK /\ Len(bytes) \in Nat /\ cursor \in Nat /\ next \in Nat /\ call.at \in Nat
      /\ bytes \in Seq(Cells) /\ (call.op = "idle" => call.out = <<>>)
      /\ tip.position \in Nat /\ \A k \in DOMAIN acked : acked[k].position \in Nat
  BY LenProperties DEF BlockInv, BlockTypeOK, Acked
<1>2. ASSUME call.op = "idle" PROVE Len(bytes') <= Len(bytes)
  <2>1. cursor <= Len(bytes)
    BY <1>1, <1>2 DEF Settled
  <2>2. QED
    BY <1>2, <2>1, CutShrinks
<1>3. ASSUME call.op = "idle", call'.op = "reload" PROVE Len(bytes') = call'.at
  <2>1. PICK i \in 1 .. MaxN : Truncate(i)
    <3>1. ~Open /\ ~OpenEmpty /\ ~FinishBoot /\ ~FinishPut /\ ~FailPut /\ ~Reload /\ ~FailReload /\ ~Stop
      BY <1>3, RestCalls DEF Open, OpenEmpty, FinishBoot, FinishPut, FailPut, Reload, FailReload, Stop
    <3>2. ~Write /\ ~First /\ (\A i \in 1 .. MaxN : ~TraitTruncate(i))
          /\ (\A p \in {next, next + 1} : ~TraitTruncateBehind(p))
      BY <1>1, <1>3 DEF Write, First, TraitTruncate, TraitTruncateBehind
    <3>3. \A v \in Value : ~StartPut(v)
      BY <1>3 DEF StartPut, Call
    <3>4. QED
      BY <3>1, <3>2, <3>3 DEF Next
  <2>2. PICK p : /\ p < next /\ CutAt(p) /\ call' = Call("reload", NoRaw, <<>>, p)
                 /\ \/ i \in DOMAIN acked /\ p = acked[i].position
                    \/ tip.i = i /\ p = tip.position
    BY <2>1 DEF Truncate
  <2>3. p \in Nat /\ next = Len(bytes) /\ cursor = Len(bytes)
    BY <1>1, <1>3, <2>2 DEF Settled
  <2>4. truncates(device, bytes, cursor, p)
    BY <2>2, <2>3 DEF truncates
  <2>5. Len(bytes') = p
    BY <1>1, <2>2, <2>3, <2>4, CutGives
  <2>6. QED
    BY <2>2, <2>5 DEF Call
<1>4. ASSUME call.op = "idle", call'.op = "put" PROVE call'.at = Len(bytes)
  <2>1. PICK v \in Value : StartPut(v)
    BY <1>1, <1>4, RestCalls DEF Next, Open, OpenEmpty, FinishBoot, Truncate, Write, FinishPut, FailPut,
       TraitTruncate, Reload, FailReload, TraitTruncateBehind, First, Stop, Call
  <2>2. QED
    BY <1>4, <2>1 DEF StartPut, Call, Settled
<1>5. ASSUME FinishPut PROVE call.raw \in read_data(bytes, call.at)
  <2>1. call.op = "put" /\ call.out = <<>> /\ call.raw \in Raw /\ Len(call.out) = 0
    BY <1>1, <1>5, EmptySeq DEF FinishPut, BlockTypeOK
  <2>2. EntrySize[call.raw] \in Nat
    BY <2>1, Sizes
  <2>3. /\ Len(bytes) + Len(call.out) = call.at + EntrySize[call.raw]
        /\ \A k \in 1 .. Len(bytes) - call.at : bytes[call.at + k] = Cell(call.raw, k)
    BY <2>1 DEF Settled
  <2>4. Whole(bytes, call.raw, call.at)
    BY <1>1, <2>1, <2>2, <2>3 DEF Whole
  <2>5. bytes \in Seq(Cells) /\ call.at \in Int /\ call.at >= 0
    BY <1>1
  <2>6. QED
    BY <2>1, <2>4, <2>5, ReadIsWhole
<1>6. QED
  BY <1>2, <1>3, <1>4, <1>5

\* ReadingHeals: whatever has failed and wherever processes have died, a storage
\* that has been read since appends and cuts at the end of its device until
\* another call fails (storage.rs:164-187).
THEOREM ReadingHealsStorage ==
    ASSUME TraitDevice \subseteq {"memory"}
    PROVE  Spec => ReadingHeals
<1>1. Spec => []BlockInv
  BY BlockInvariant
<1>2. Init => CellsInv /\ FaultyAppends /\ FaultySettled
  BY AppendsInit DEF FaultySettled, Init
<1>3. BlockInv /\ CellsInv /\ FaultyAppends /\ FaultySettled /\ [Next]_blockVars
        => CellsInv' /\ FaultyAppends' /\ FaultySettled'
  BY AppendsStep, SettledStep
<1>4. BlockInv /\ FaultySettled /\ sound => Settled
  BY CleanSettled DEF FaultySettled
<1>5. BlockInv /\ FaultySettled /\ [Next]_blockVars
        => [sound => /\ call.op = "idle" => Len(bytes') <= Len(bytes)
                     /\ call.op = "idle" /\ call'.op = "reload" => Len(bytes') = call'.at
                     /\ call.op = "idle" /\ call'.op = "put" => call'.at = Len(bytes)
                     /\ FinishPut => call.raw \in read_data(bytes, call.at)]_blockVars
  BY <1>4, SettledHeals
<1>6. QED
  BY <1>1, <1>2, <1>3, <1>5, PTL DEF Spec, ReadingHeals
=============================================================================
