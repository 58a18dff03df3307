---------------------------- MODULE QueryProofs ----------------------------
(***************************************************************************)
(* Theorems about queries that run next to the writer, for every set of    *)
(* payloads, every entry size, every cache level and every number of       *)
(* queries.  What they hold is still stored whatever the shape of the tree *)
(* (QueryInv); that they find their way rests on it (WalkInv), and so does *)
(* that the samples they take prove the root (SampleInv).  The values of a *)
(* subtree with their branches prove it as well (ValuesProveRoot).         *)
(***************************************************************************)
EXTENDS Query, Branches, TreeProofs, SampleProofs

-----------------------------------------------------------------------------
(* Sequences as lists of calls to make.                                    *)

LEMMA SeqElements ==
    ASSUME NEW S, NEW s \in Seq(S)
    PROVE  ToSet(s) \subseteq S /\ s \in Seq(ToSet(s))
<1>1. s \in [1 .. Len(s) -> S] /\ Len(s) \in Nat /\ DOMAIN s = 1 .. Len(s)
  BY LenProperties
<1>2. ToSet(s) \subseteq S
  BY <1>1 DEF ToSet
<1>3. \A i \in 1 .. Len(s) : s[i] \in ToSet(s)
  BY <1>1 DEF ToSet
<1>4. s \in [1 .. Len(s) -> ToSet(s)]
  BY <1>1, <1>3
<1>5. s \in Seq(ToSet(s))
  BY <1>1, <1>4
<1>6. QED
  BY <1>2, <1>5

LEMMA ConcatElements ==
    ASSUME NEW a, NEW b, a \in Seq(ToSet(a)), b \in Seq(ToSet(b))
    PROVE  /\ a \o b \in Seq(ToSet(a \o b))
           /\ ToSet(a \o b) \subseteq ToSet(a) \cup ToSet(b)
<1> DEFINE S == ToSet(a) \cup ToSet(b)
<1>1. a \in Seq(S) /\ b \in Seq(S)
  OBVIOUS
<1> HIDE DEF S
<1>2. a \o b \in Seq(S)
  BY <1>1, ConcatProperties
<1>3. QED
  BY <1>2, SeqElements DEF S

LEMMA HeadTailElements ==
    ASSUME NEW s, s \in Seq(ToSet(s)), s # <<>>
    PROVE  /\ Head(s) \in ToSet(s)
           /\ Tail(s) \in Seq(ToSet(Tail(s)))
           /\ ToSet(Tail(s)) \subseteq ToSet(s)
<1>1. Head(s) \in ToSet(s) /\ Tail(s) \in Seq(ToSet(s))
  BY HeadTailProperties
<1>2. QED
  BY <1>1, SeqElements

LEMMA ShortElements ==
    /\ <<>> \in Seq(ToSet(<<>>)) /\ ToSet(<<>>) = {}
    /\ \A x : <<x>> \in Seq(ToSet(<<x>>)) /\ ToSet(<<x>>) = {x}
<1>1. <<>> \in Seq(ToSet(<<>>)) /\ ToSet(<<>>) = {}
  BY EmptySeq DEF ToSet
<1>2. ASSUME NEW x PROVE <<x>> \in Seq(ToSet(<<x>>)) /\ ToSet(<<x>>) = {x}
  <2>1. DOMAIN <<x>> = {1} /\ <<x>>[1] = x /\ <<x>> \in Seq({x})
    OBVIOUS
  <2>2. ToSet(<<x>>) = {x}
    BY <2>1 DEF ToSet
  <2>3. QED
    BY <2>1, <2>2
<1>3. QED
  BY <1>1, <1>2

-----------------------------------------------------------------------------
(* The steps of a query.                                                   *)

\* A query that has just been opened on a cache of stored entries.
LEMMA OpenOK ==
    ASSUME NEW s, NEW n, NEW c, c.revision \in 0 .. n,
           cached_entries(c) \subseteq entries_of(s)
    PROVE  QueryOK(Open(c), s, n)
<1> DEFINE q == Open(c)
<1>1. /\ DOMAIN q = DOMAIN Closed /\ q.intact = TRUE /\ q.todo = <<>>
      /\ q.status = "open" /\ q.cache = c /\ q.leaf = {}
  BY DEF Open, Closed
<1> HIDE DEF q
<1>2. IntactOK(q, s, n)
  BY <1>1, ShortElements DEF IntactOK, StillStored
<1>3. QED
  BY <1>1, <1>2, ShortElements DEF QueryOK, q

LEMMA ClosedOK ==
    ASSUME NEW s, NEW n \in Nat
    PROVE  QueryOK(Closed, s, n)
<1>1. /\ Closed.intact = TRUE /\ Closed.todo = <<>>
      /\ Closed.status = "closed" /\ Closed.cache = empty(0) /\ Closed.leaf = {}
  BY DEF Closed
<1>2. empty(0).revision = 0 /\ cached_entries(empty(0)) = {}
  BY DEF empty, CacheOf, cached_entries
<1>3. IntactOK(Closed, s, n)
  BY <1>1, <1>2, ShortElements DEF IntactOK
<1>4. QED
  BY <1>1, <1>3, ShortElements DEF QueryOK

\* The start of a call hands on an entry of the cache only.
LEMMA CallOK ==
    ASSUME NEW s, NEW n, NEW q, QueryOK(q, s, n), NEW op, NEW goal, NEW upto
    PROVE  QueryOK(Call(q, op, goal, upto), s, n)
<1> DEFINE x == Call(q, op, goal, upto)
           e == CHOOSE y \in last_entry(q.cache) : TRUE
           started == [q EXCEPT !.op = op, !.goal = goal, !.upto = upto, !.leaf = {},
                                !.seen = IF op = "scan" THEN <<>> ELSE {},
                                !.todo = <<>>, !.at = 0, !.last = {}]
<1>1. /\ DOMAIN started = DOMAIN q /\ started.intact = q.intact /\ started.todo = <<>>
      /\ started.cache = q.cache /\ started.leaf = {} /\ started.goal = goal
  BY DEF QueryOK, Closed
<1> HIDE DEF started
<1>2. \/ x = [started EXCEPT !.status = "done"]
      \/ /\ x = [started EXCEPT !.status = "walking", !.todo = <<AtHand(e, Len(e.inodes))>>]
         /\ last_entry(q.cache) # {}
  BY DEF Call, started
<1> HIDE DEF x
<1>3. CASE x = [started EXCEPT !.status = "done"]
  <2>1. /\ DOMAIN x = DOMAIN q /\ x.intact = q.intact /\ x.todo = <<>> /\ x.status = "done"
        /\ x.cache = q.cache /\ x.leaf = {}
    BY <1>1, <1>3 DEF QueryOK, Closed
  <2>2. x.intact => IntactOK(x, s, n)
    BY <2>1, ShortElements DEF QueryOK, IntactOK, StillStored
  <2>3. QED
    BY <2>1, <2>2, ShortElements DEF QueryOK, x
<1>4. CASE /\ x = [started EXCEPT !.status = "walking", !.todo = <<AtHand(e, Len(e.inodes))>>]
           /\ last_entry(q.cache) # {}
  <2>1. /\ DOMAIN x = DOMAIN q /\ x.intact = q.intact
        /\ x.todo = <<AtHand(e, Len(e.inodes))>>
        /\ x.cache = q.cache /\ x.leaf = {}
    BY <1>1, <1>4 DEF QueryOK, Closed
  <2>2. e \in cached_entries(q.cache)
    BY <1>4 DEF last_entry, cache_entry, cached_entries
  <2>3. AtHand(e, Len(e.inodes)).entry = e
    BY DEF AtHand
  <2> HIDE DEF e
  <2>4. x.todo \in Seq(ToSet(x.todo)) /\ x.todo # <<>>
        /\ ToSet(x.todo) = {AtHand(e, Len(e.inodes))}
    BY <2>1, ShortElements
  <2>5. x.intact => IntactOK(x, s, n)
    BY <2>1, <2>2, <2>3, <2>4 DEF QueryOK, IntactOK, StillStored
  <2>6. QED
    BY <2>1, <2>4, <2>5 DEF QueryOK, x
<1>5. QED
  BY <1>2, <1>3, <1>4

\* What a query reads is in its cache or in the storage (lib.rs:1058-1075).
LEMMA FetchOK ==
    ASSUME NEW n, NEW q, IntactOK(q, storage, n), NEW a, NEW e \in fetch(q, a)
    PROVE  StillStored(q, storage, e)
<1>1. CASE e \in cache_entry(q.cache, a.i)
  <2>1. e \in cached_entries(q.cache)
    BY <1>1 DEF cache_entry, cached_entries
  <2>2. QED
    BY <2>1 DEF IntactOK
<1>2. CASE e \in read_entry_with_index_check(storage, a)
  BY <1>2 DEF read_entry_with_index_check, entries_of, StillStored
<1>3. QED
  BY <1>1, <1>2 DEF fetch

\* The calls below a node: into the same entry, or to an address.
LEMMA CallsBelow ==
    ASSUME NEW q, NEW e, NEW k
    PROVE  LET calls == calls_below(q, e, k)
           IN  /\ calls \in Seq(ToSet(calls))
               /\ \A call \in ToSet(calls) : call.at_hand => call.entry = e
<1> DEFINE a     == node_meta(e, k).address
           dir   == direction(q, a.i, a.j)
           right == IF dir \in {"Right", "Both"} THEN <<AtHand(e, k - 1)>> ELSE <<>>
           left  == IF dir \in {"Left", "Both"} THEN <<ToRead(e.inodes[k].left)>> ELSE <<>>
<1>1. /\ right \in Seq(ToSet(right))
      /\ \A call \in ToSet(right) : call = AtHand(e, k - 1)
  <2> HIDE DEF dir
  <2>1. QED
    BY ShortElements
<1>2. /\ left \in Seq(ToSet(left))
      /\ \A call \in ToSet(left) : call = ToRead(e.inodes[k].left)
  <2> HIDE DEF dir
  <2>1. QED
    BY ShortElements
<1>3. calls_below(q, e, k) = IF k = 0 THEN <<>> ELSE right \o left
  BY DEF calls_below
<1> HIDE DEF right, left
<1>4. /\ right \o left \in Seq(ToSet(right \o left))
      /\ ToSet(right \o left) \subseteq ToSet(right) \cup ToSet(left)
  BY <1>1, <1>2, ConcatElements
<1>5. AtHand(e, k - 1).entry = e /\ ToRead(e.inodes[k].left).at_hand = FALSE
  BY DEF AtHand, ToRead
<1>6. CASE k = 0
  BY <1>3, <1>6, ShortElements
<1>7. CASE k # 0
  BY <1>1, <1>2, <1>3, <1>4, <1>5, <1>7
<1>8. QED
  BY <1>6, <1>7

\* A node of an entry that is still stored is visited.
LEMMA VisitOK ==
    ASSUME NEW s, NEW n, NEW q, QueryOK(q, s, n), q.todo # <<>>,
           NEW e, q.intact => StillStored(q, s, e), NEW k
    PROVE  QueryOK(Visit(q, e, k), s, n)
<1> DEFINE todo == calls_below(q, e, k) \o Tail(q.todo)
           x    == noted(q, e, k)
           y    == [x EXCEPT !.todo = todo, !.status = IF todo = <<>> THEN "done" ELSE "walking"]
<1>1. /\ DOMAIN x = DOMAIN q /\ x.intact = q.intact /\ x.cache = q.cache /\ x.goal = q.goal
      /\ x.leaf = q.leaf \/ (index_of(e) = q.goal /\ x.leaf = {e.enode.payload})
  BY DEF noted, at_goal, QueryOK, Closed
<1>2. /\ todo \in Seq(ToSet(todo))
      /\ \A call \in ToSet(todo) : call.at_hand => call.entry = e \/ call \in ToSet(q.todo)
  <2>1. /\ Tail(q.todo) \in Seq(ToSet(Tail(q.todo)))
        /\ ToSet(Tail(q.todo)) \subseteq ToSet(q.todo)
    BY HeadTailElements DEF QueryOK
  <2>2. /\ todo \in Seq(ToSet(todo))
        /\ ToSet(todo) \subseteq ToSet(calls_below(q, e, k)) \cup ToSet(Tail(q.todo))
    BY <2>1, CallsBelow, ConcatElements
  <2>3. QED
    BY <2>1, <2>2, CallsBelow
<1> HIDE DEF x, todo
<1>3. /\ DOMAIN y = DOMAIN q /\ y.intact = q.intact /\ y.cache = q.cache /\ y.goal = q.goal
      /\ y.todo = todo /\ y.leaf = x.leaf
      /\ y.status = IF todo = <<>> THEN "done" ELSE "walking"
  BY <1>1 DEF QueryOK, Closed
<1> HIDE DEF y
<1>4. ASSUME q.intact PROVE IntactOK(y, s, n)
  <2>1. IntactOK(q, s, n) /\ StillStored(q, s, e)
    BY <1>4 DEF QueryOK
  <2>2. \A call \in ToSet(y.todo) : call.at_hand => StillStored(y, s, call.entry)
    BY <2>1, <1>2, <1>3 DEF IntactOK, StillStored
  <2>3. ASSUME NEW v \in y.leaf, y.goal <= y.cache.revision
        PROVE  \E d \in entries_of(s) : index_of(d) = y.goal /\ d.enode.payload = v
    <3>1. CASE x.leaf = q.leaf
      BY <2>1, <2>3, <3>1, <1>3 DEF IntactOK
    <3>2. CASE index_of(e) = q.goal /\ x.leaf = {e.enode.payload}
      BY <2>1, <2>3, <3>2, <1>3 DEF StillStored
    <3>3. QED
      BY <3>1, <3>2, <1>1
  <2>4. QED
    BY <2>1, <2>2, <2>3, <1>3 DEF IntactOK, StillStored
<1>5. QueryOK(y, s, n)
  BY <1>2, <1>3, <1>4 DEF QueryOK
<1>6. QueryOK([q EXCEPT !.status = "panicked"], s, n)
  <2> DEFINE z == [q EXCEPT !.status = "panicked"]
  <2>1. /\ DOMAIN z = DOMAIN q /\ z.intact = q.intact /\ z.cache = q.cache
        /\ z.goal = q.goal /\ z.todo = q.todo /\ z.leaf = q.leaf /\ z.status = "panicked"
    BY DEF QueryOK, Closed
  <2> HIDE DEF z
  <2>2. QED
    BY <2>1 DEF QueryOK, IntactOK, StillStored, z
<1>7. QED
  BY <1>5, <1>6 DEF Visit, x, y, todo

\* A query that stops keeps what it has found.
LEMMA StopOK ==
    ASSUME NEW s, NEW n, NEW q, QueryOK(q, s, n), NEW status
    PROVE  QueryOK([q EXCEPT !.status = status, !.todo = <<>>], s, n) \/ status = "walking"
<1> DEFINE z == [q EXCEPT !.status = status, !.todo = <<>>]
<1>1. /\ DOMAIN z = DOMAIN q /\ z.intact = q.intact /\ z.cache = q.cache
      /\ z.goal = q.goal /\ z.todo = <<>> /\ z.leaf = q.leaf /\ z.status = status
  BY DEF QueryOK, Closed
<1> HIDE DEF z
<1>2. z.intact => IntactOK(z, s, n)
  BY <1>1, ShortElements DEF QueryOK, IntactOK, StillStored
<1>3. QED
  BY <1>1, <1>2, ShortElements DEF QueryOK, z

LEMMA WalkStepOK ==
    ASSUME NEW n, NEW q, QueryOK(q, storage, n), q.status = "walking"
    PROVE  QueryOK(WalkStep(q), storage, n)
<1> DEFINE node == CHOOSE x \in next_nodes(q) : TRUE
           call == Head(q.todo)
<1>1. q.todo # <<>> /\ call \in ToSet(q.todo)
  BY HeadTailElements DEF QueryOK
<1>2. CASE next_nodes(q) = {}
  BY <1>2, StopOK DEF WalkStep
<1>3. CASE next_nodes(q) # {}
  <2>1. node \in next_nodes(q) /\ WalkStep(q) = Visit(q, node[1], node[2])
    BY <1>3 DEF WalkStep
  <2> HIDE DEF node
  <2>2. ASSUME q.intact PROVE StillStored(q, storage, node[1])
    <3>1. IntactOK(q, storage, n)
      BY <2>2 DEF QueryOK
    <3>2. CASE call.at_hand
      BY <2>1, <3>1, <3>2, <1>1 DEF next_nodes, IntactOK
    <3>3. CASE ~call.at_hand
      <4>1. PICK e \in fetch(q, call.address) :
               node \in {<<e, k>> : k \in node_indices(e, call.address.j)}
        BY <2>1, <3>3 DEF next_nodes
      <4>2. QED
        BY <3>1, <4>1, FetchOK
    <3>4. QED
      BY <3>2, <3>3
  <2>3. QED
    BY <2>1, <2>2, <1>1, VisitOK
<1>4. QED
  BY <1>2, <1>3

LEMMA SeekStepOK ==
    ASSUME NEW n, NEW q, QueryOK(q, storage, n)
    PROVE  QueryOK(SeekStep(q), storage, n)
<1>1. QueryOK([q EXCEPT !.status = "failed", !.todo = <<>>], storage, n)
  BY StopOK
<1>2. QueryOK([q EXCEPT !.status = "done", !.todo = <<>>], storage, n)
  BY StopOK
<1>3. ASSUME NEW at
      PROVE  QueryOK([q EXCEPT !.status = "scanning", !.todo = <<>>, !.at = at], storage, n)
  <2> DEFINE z == [q EXCEPT !.status = "scanning", !.todo = <<>>, !.at = at]
  <2>1. /\ DOMAIN z = DOMAIN q /\ z.intact = q.intact /\ z.cache = q.cache
        /\ z.goal = q.goal /\ z.todo = <<>> /\ z.leaf = q.leaf /\ z.status = "scanning"
    BY DEF QueryOK, Closed
  <2> HIDE DEF z
  <2>2. z.intact => IntactOK(z, storage, n)
    BY <2>1, ShortElements DEF QueryOK, IntactOK, StillStored
  <2>3. QED
    BY <2>1, <2>2, ShortElements DEF QueryOK, z
<1>4. ASSUME NEW a
      PROVE  QueryOK([q EXCEPT !.todo = <<ToRead(a)>>], storage, n)
  <2> DEFINE z == [q EXCEPT !.todo = <<ToRead(a)>>]
  <2>1. /\ DOMAIN z = DOMAIN q /\ z.intact = q.intact /\ z.cache = q.cache
        /\ z.goal = q.goal /\ z.todo = <<ToRead(a)>> /\ z.leaf = q.leaf
    BY DEF QueryOK, Closed
  <2>2. z.todo # <<>> /\ z.todo \in Seq(ToSet(z.todo)) /\ ToSet(z.todo) = {ToRead(a)}
    BY <2>1, ShortElements
  <2>3. ToRead(a).at_hand = FALSE
    BY DEF ToRead
  <2> HIDE DEF z
  <2>4. z.intact => IntactOK(z, storage, n)
    BY <2>1, <2>2, <2>3 DEF QueryOK, IntactOK, StillStored
  <2>5. QED
    BY <2>1, <2>2, <2>4 DEF QueryOK, z
<1>5. QED
  BY <1>1, <1>2, <1>3, <1>4 DEF SeekStep

LEMMA ScanStepOK ==
    ASSUME NEW n, NEW q, QueryOK(q, storage, n), q.status # "walking"
    PROVE  QueryOK(ScanStep(q), storage, n)
<1>1. ASSUME NEW z, DOMAIN z = DOMAIN q, z.intact = q.intact, z.cache = q.cache,
             z.goal = q.goal, z.todo = q.todo, z.leaf = q.leaf, z.status # "walking"
      PROVE  QueryOK(z, storage, n)
  BY <1>1 DEF QueryOK, IntactOK, StillStored
<1>2. QueryOK([q EXCEPT !.status = "done"], storage, n)
  BY <1>1 DEF QueryOK, Closed
<1>3. QueryOK([q EXCEPT !.status = "failed"], storage, n)
  BY <1>1 DEF QueryOK, Closed
<1>4. ASSUME NEW seen, NEW at
      PROVE  QueryOK([q EXCEPT !.seen = seen, !.at = at], storage, n)
  BY <1>1 DEF QueryOK, Closed
<1>5. ASSUME NEW last PROVE QueryOK([q EXCEPT !.last = last], storage, n)
  BY <1>1 DEF QueryOK, Closed
<1>6. QED
  BY <1>2, <1>3, <1>4, <1>5 DEF ScanStep

-----------------------------------------------------------------------------
(* The writer and the queries together.                                    *)

\* The queries do not touch what the writer works on.
LEMMA StepOfWriter == [Next]_vars => [SlateNext]_slateVars
BY DEF Next, Write, OpenQuery, OpenQueryAt, Close, Start, Step, vars, slateVars

LEMMA WriterUnderQueries == Spec => []WriterInv
<1>1. Spec => SlateSpec
  BY StepOfWriter, PTL DEF Spec, SlateSpec, Init
<1>2. QED
  BY <1>1, WriterInvariant, PTL

\* The writer takes no entry away that belongs to the revision it has then.
LEMMA KeptStays ==
    ASSUME WriterInv, SlateNext
    PROVE  /\ cache'.revision \in Nat
           /\ \A e \in entries_of(storage) :
                 index_of(e) <= cache'.revision => e \in entries_of(storage')
<1>1. cache.revision \in Nat
  BY StorageAssumption DEF WriterInv, CacheOK
<1>2. ASSUME NEW v \in Value, AppendEntry(v)
      PROVE  cache'.revision \in Nat /\ entries_of(storage) \subseteq entries_of(storage')
  BY <1>1, <1>2, AppendKeepsWriterInv
<1>3. ASSUME NEW i \in 0 .. MaxN, Truncate(i)
      PROVE  /\ cache'.revision \in Nat
             /\ \A e \in entries_of(storage) :
                   index_of(e) <= cache'.revision => e \in entries_of(storage')
  <2>1. /\ i \in 1 .. cache.revision /\ cache'.revision = i - 1
        /\ entries_of(storage') = {x \in entries_of(storage) : index_of(x) < i}
    BY <1>3, TruncateKeepsWriterInv
  <2>2. \A e \in entries_of(storage) : index_of(e) \in Nat
    BY StorageAssumption DEF WriterInv, StorageOK, entries_of, IsEntry
  <2>3. QED
    BY <2>1, <2>2, <1>1
<1>4. ASSUME NEW level \in Level, Reopen(level)
      PROVE  cache'.revision = cache.revision /\ storage' = storage
  BY <1>4, ReopenKeepsWriterInv
<1>5. QED
  BY <1>1, <1>2, <1>3, <1>4 DEF SlateNext

\* A step of the writer leaves a query what it needs, or notes the cut.
LEMMA NoteCutOK ==
    ASSUME WriterInv, SlateNext, NEW q, QueryOK(q, storage, revision)
    PROVE  QueryOK([q EXCEPT !.intact = @ /\ q.cache.revision <= cache'.revision],
                   storage', revision')
<1> DEFINE z == [q EXCEPT !.intact = @ /\ q.cache.revision <= cache'.revision]
<1>1. /\ DOMAIN z = DOMAIN q /\ z.status = q.status /\ z.cache = q.cache
      /\ z.goal = q.goal /\ z.todo = q.todo /\ z.leaf = q.leaf
  BY DEF QueryOK, Closed
<1>2. z.intact = (q.intact /\ q.cache.revision <= cache'.revision)
  BY DEF QueryOK, Closed
<1> HIDE DEF z
<1>3. ASSUME z.intact PROVE IntactOK(z, storage', cache'.revision)
  <2>1. q.intact /\ q.cache.revision <= cache'.revision
    BY <1>2, <1>3 DEF QueryOK
  <2>2. IntactOK(q, storage, revision)
    BY <2>1 DEF QueryOK
  <2>3. q.cache.revision \in Nat /\ q.cache.revision \in 0 .. cache'.revision
    BY <2>1, <2>2, KeptStays DEF IntactOK
  <2>4. \A e \in entries_of(storage) : index_of(e) \in Nat
    BY StorageAssumption DEF WriterInv, StorageOK, entries_of, IsEntry
  <2>5. \A e \in entries_of(storage) :
           index_of(e) <= q.cache.revision => e \in entries_of(storage')
    BY <2>1, <2>3, <2>4, KeptStays
  <2>6. \A e : StillStored(q, storage, e) => StillStored(z, storage', e)
    BY <2>5, <1>1 DEF StillStored
  <2>7. ASSUME NEW v \in z.leaf, z.goal <= z.cache.revision
        PROVE  \E e \in entries_of(storage') : index_of(e) = z.goal /\ e.enode.payload = v
    <3>1. PICK e \in entries_of(storage) : index_of(e) = q.goal /\ e.enode.payload = v
      BY <2>2, <2>7, <1>1 DEF IntactOK
    <3>2. QED
      BY <3>1, <2>5, <2>7, <1>1
  <2>8. QED
    BY <2>2, <2>3, <2>6, <2>7, <1>1 DEF IntactOK
<1>4. z.intact \in BOOLEAN
  BY <1>2 DEF QueryOK
<1>5. QED
  BY <1>1, <1>3, <1>4 DEF QueryOK, revision, z

LEMMA QueryInvInit == Init => QueryInv
<1> SUFFICES ASSUME Init PROVE QueryInv
  OBVIOUS
<1>1. query = [r \in Reader |-> Closed] /\ WriterInv
  BY WriterInvInit DEF Init
<1>2. revision \in Nat
  BY <1>1, StorageAssumption DEF WriterInv, CacheOK, revision
<1>3. QED
  BY <1>1, <1>2, ClosedOK DEF QueryInv

\* A step of query r that leaves the writer alone.
LEMMA OneQuerySteps ==
    ASSUME QueryInv, UNCHANGED slateVars, NEW r \in Reader, NEW q,
           query' = [query EXCEPT ![r] = q], QueryOK(q, storage, revision)
    PROVE  QueryInv'
BY DEF QueryInv, slateVars, revision

LEMMA QueryInvStep == WriterInv /\ QueryInv /\ [Next]_vars => QueryInv'
<1> SUFFICES ASSUME WriterInv, QueryInv, [Next]_vars PROVE QueryInv'
  OBVIOUS
<1>1. revision \in Nat /\ \A r \in Reader : QueryOK(query[r], storage, revision)
  BY StorageAssumption DEF WriterInv, CacheOK, revision, QueryInv
<1>2. CASE Write
  <2>1. \A r \in Reader : QueryOK([query[r] EXCEPT !.intact = @ /\ query[r].cache.revision
                                                              <= cache'.revision],
                                  storage', revision')
    BY <1>1, <1>2, NoteCutOK DEF Write
  <2>2. QED
    BY <1>2, <2>1 DEF Write, NoteCuts, QueryInv
<1>3. ASSUME NEW r \in Reader, OpenQuery(r) PROVE QueryInv'
  <2>1. cached_entries(cache) \subseteq entries_of(storage) /\ cache.revision \in 0 .. revision
    BY <1>1 DEF WriterInv, CacheOK, revision
  <2>2. QueryOK(Open(cache), storage, revision)
    BY <2>1, OpenOK
  <2>3. QED
    BY <1>3, <2>2, OneQuerySteps DEF OpenQuery
<1>4. ASSUME NEW r \in Reader, NEW rev \in 1 .. MaxN, OpenQueryAt(r, rev) PROVE QueryInv'
  <2>1. PICK e \in read_entry(storage, cache, rev) :
           query' = [query EXCEPT ![r] = Open(load(storage, cache.level, e))]
    BY <1>4 DEF OpenQueryAt
  <2>2. e \in entries_of(storage)
    BY DEF read_entry, WriterInv, CacheOK
  <2>3. index_of(e) \in 0 .. revision
    BY <2>2, <1>1, StorageAssumption DEF WriterInv, StorageOK, entries_of, IsEntry
  <2>4. QueryOK(Open(load(storage, cache.level, e)), storage, revision)
    BY <2>2, <2>3, LoadKeepsToStorage, OpenOK
  <2>5. QED
    BY <1>4, <2>1, <2>4, OneQuerySteps DEF OpenQueryAt
<1>5. ASSUME NEW r \in Reader, Close(r) PROVE QueryInv'
  BY <1>1, <1>5, ClosedOK, OneQuerySteps DEF Close
<1>6. ASSUME NEW r \in Reader, NEW op, NEW i0, NEW i1, Start(r, op, i0, i1) PROVE QueryInv'
  <2>1. \A goal, upto : QueryOK(Call(query[r], op, goal, upto), storage, revision)
    BY <1>1, CallOK
  <2>2. QED
    BY <1>6, <2>1, OneQuerySteps DEF Start, QueryInv
<1>7. ASSUME NEW r \in Reader, Step(r) PROVE QueryInv'
  <2>1. CASE query[r].status = "scanning"
    BY <1>1, <1>7, <2>1, ScanStepOK, OneQuerySteps DEF Step, QueryInv
  <2>2. CASE query[r].status # "scanning"
    <3>1. query[r].status = "walking"
      BY <1>7, <2>2 DEF Step, Running
    <3>2. QueryOK(SeekStep(query[r]), storage, revision)
      BY <1>1, SeekStepOK
    <3>3. QueryOK(WalkStep(query[r]), storage, revision)
      BY <1>1, <3>1, WalkStepOK
    <3>4. QED
      BY <1>7, <2>2, <3>2, <3>3, OneQuerySteps DEF Step, QueryInv
  <2>3. QED
    BY <2>1, <2>2
<1>8. CASE UNCHANGED vars
  BY <1>8 DEF vars, QueryInv, revision
<1>9. QED
  BY <1>2, <1>3, <1>4, <1>5, <1>6, <1>7, <1>8 DEF Next

LEMMA InvLeafIsLogged == WriterInv /\ QueryInv => LeafIsLogged
<1> SUFFICES ASSUME WriterInv, QueryInv, NEW r \in Reader, query[r].intact,
                    query[r].goal \in 1 .. query[r].cache.revision, NEW v \in query[r].leaf
             PROVE  v = Log[query[r].goal]
  BY DEF LeafIsLogged
<1>1. IntactOK(query[r], storage, revision)
  BY DEF QueryInv, QueryOK
<1>2. query[r].goal <= query[r].cache.revision
  BY <1>1 DEF IntactOK
<1>3. PICK e \in entries_of(storage) : index_of(e) = query[r].goal /\ e.enode.payload = v
  BY <1>1, <1>2 DEF IntactOK
<1>4. Log[index_of(e)] = e.enode.payload
  BY LogType DEF WriterInv, CacheOK, Log, revision
<1>5. QED
  BY <1>3, <1>4

\* Whatever an intact query has in its cache or at hand, as far as it belongs to
\* its snapshot, is still stored, and what it has found is the payload of a
\* stored entry of the index it was asked for (lib.rs:571-597, 889-1075).
THEOREM QueriesKeepTheirEntries == Spec => []QueryInv
<1>1. QED
  BY QueryInvInit, QueryInvStep, WriterUnderQueries, PTL DEF Spec

\* Whatever a walk of get or get_sample has found in a snapshot that no
\* truncation has cut is the value the log has at the index asked for, however
\* appends, truncations above it and reopenings came between its reads
\* (lib.rs:889-1004, 1058-1075): queries need no lock on the writer.
THEOREM WalksFindTheirValue == Spec => []LeafIsLogged
<1>1. QED
  BY QueriesKeepTheirEntries, WriterUnderQueries, InvLeafIsLogged, PTL

-----------------------------------------------------------------------------
(* What a walk has before it.                                              *)

\* The leaves below the node of a call still to make.
lowest(call) ==
    IF call.at_hand
    THEN IF call.index = 0 THEN index_of(call.entry)
         ELSE first_leaf(inodes(index_of(call.entry)), call.index)
    ELSE (call.address.i - 2^call.address.j) + 1
highest(call) == IF call.at_hand THEN index_of(call.entry) ELSE call.address.i
Covers(call, i) == lowest(call) <= i /\ i <= highest(call)

\* What an entry says of the tree is determined by its index, whatever has been
\* truncated and appended since it was read.
ShapeOK(e) ==
    LET i     == index_of(e)
        nodes == inodes(i)
    IN  /\ i \in 1 .. MaxN
        /\ e.enode.meta.address.j = 0
        /\ DOMAIN e.inodes = 1 .. Len(nodes) /\ Len(e.inodes) = Len(nodes)
        /\ \A k \in 1 .. Len(nodes) :
              /\ e.inodes[k].meta.address.i = i /\ e.inodes[k].meta.address.j = nodes[k].node.j
              /\ e.inodes[k].left.i = nodes[k].left.i /\ e.inodes[k].left.j = nodes[k].left.j

\* A call visits a node of an entry, or the root of a perfect subtree.
Fits(q, call) ==
    IF call.at_hand
    THEN /\ ShapeOK(call.entry) /\ index_of(call.entry) <= q.cache.revision
         /\ call.index \in 0 .. Len(call.entry.inodes)
    ELSE /\ call.address.i \in 1 .. q.cache.revision /\ call.address.j \in Nat
         /\ 2^call.address.j <= call.address.i /\ is_pbst(call.address.i, call.address.j)

\* A snapshot holds its latest entry, and each entry under its own index.
SnapshotOK(c) ==
    /\ c.revision \in 0 .. MaxN
    /\ \A i \in DOMAIN c.entries : index_of(c.entries[i]) = i /\ ShapeOK(c.entries[i])
    /\ c.revision > 0 => c.revision \in DOMAIN c.entries

\* get and get_sample: the leaf of the goal is found or still lies before them,
\* and get is on the way to it.
WalkFits(q) ==
    q.op \in {"get", "get_sample"} =>
    LET inside == q.goal \in 1 .. q.cache.revision
        calls  == ToSet(q.todo)
    IN  /\ q.status = "walking" =>
              /\ inside /\ q.leaf = {} => \E call \in calls : Covers(call, q.goal)
              /\ q.op = "get" => inside /\ \A call \in calls : Covers(call, q.goal)
        /\ q.status = "done" /\ inside => q.leaf # {}
        /\ q.op = "get" /\ ~inside => q.leaf = {}

\* scan: its bounds, and that the first entry lies before it.
SeekFits(q) ==
    q.op = "scan" =>
    /\ q.goal \in Nat \ {0} /\ q.upto \in Int /\ q.upto <= q.cache.revision
    /\ q.status \in {"walking", "scanning"} => q.goal <= q.upto
    /\ q.status = "walking" => /\ q.seen = <<>> /\ q.last = {}
                               /\ \A call \in ToSet(q.todo) : q.goal <= highest(call)

\* What scan has passed on is stored, in the order of the indices.
Passed(q, s) ==
    /\ q.seen \in Seq(ToSet(q.seen))
    /\ \A k \in 1 .. Len(q.seen) :
          \E e \in entries_of(s) : /\ index_of(e) = (q.goal + k) - 1
                                   /\ q.seen[k] = <<index_of(e), e.enode.payload>>

\* scan on an intact snapshot: it stands at the next entry, and the end of the
\* storage, once it has read it, is behind its range.
ScanFits(q, s) ==
    q.op = "scan" =>
    /\ q.status = "scanning" =>
          /\ Passed(q, s) /\ Len(q.seen) <= (q.upto - q.goal) + 1 /\ q.last \in SUBSET Nat
          /\ \A end \in q.last : \A e \in entries_of(s) :
                index_of(e) \in q.goal .. q.upto => position_of(e) < end
          /\ q.goal + Len(q.seen) <= q.upto =>
                \E e \in entries_of(s) : /\ index_of(e) = q.goal + Len(q.seen)
                                         /\ position_of(e) = q.at
    /\ q.status = "done" =>
          IF q.goal > q.upto THEN q.seen = <<>>
          ELSE Passed(q, s) /\ Len(q.seen) = (q.upto - q.goal) + 1

\* An address that an entry of the snapshot holds.
LeadsTo(q, s, a) == \E x \in entries_of(s) : index_of(x) <= q.cache.revision /\ a \in left_addresses(x)

QueryWalks(q, s) ==
    /\ SnapshotOK(q.cache)
    /\ q.op \in {"get", "get_sample", "scan"}
    /\ q.status \in {"closed", "open", "walking", "scanning", "done", "failed"}
    /\ q.status = "scanning" => q.op = "scan"
    /\ \A call \in ToSet(q.todo) : Fits(q, call)
    /\ WalkFits(q) /\ SeekFits(q)
    /\ q.intact => /\ q.status # "failed" /\ ScanFits(q, s)
                   /\ \A call \in ToSet(q.todo) : call.at_hand \/ LeadsTo(q, s, call.address)

WalkInv == \A r \in Reader : QueryWalks(query[r], storage)

LEMMA CallFields ==
    /\ \A e, k : AtHand(e, k).at_hand /\ AtHand(e, k).entry = e /\ AtHand(e, k).index = k
    /\ \A a : ~ToRead(a).at_hand /\ ToRead(a).address = a
BY DEF AtHand, ToRead

\* The lists of calls are made of these.
LEMMA ConcatHolds ==
    ASSUME NEW a, NEW b, a \in Seq(ToSet(a)), b \in Seq(ToSet(b))
    PROVE  ToSet(a) \cup ToSet(b) = ToSet(a \o b)
<1> DEFINE S == ToSet(a) \cup ToSet(b)
           c == a \o b
<1>1. a \in Seq(S) /\ b \in Seq(S)
  OBVIOUS
<1>2. /\ Len(a) \in Nat /\ DOMAIN a = 1 .. Len(a) /\ Len(b) \in Nat /\ DOMAIN b = 1 .. Len(b)
  OBVIOUS
<1> HIDE DEF S
<1>3. /\ c \in Seq(S) /\ Len(c) = Len(a) + Len(b)
      /\ \A i \in 1 .. Len(c) : c[i] = IF i <= Len(a) THEN a[i] ELSE b[i - Len(a)]
  BY <1>1, ConcatProperties
<1>4. DOMAIN c = 1 .. Len(c)
  BY <1>3
<1> HIDE DEF c
<1>5. ASSUME NEW x \in ToSet(a) PROVE x \in ToSet(c)
  <2>1. PICK i \in 1 .. Len(a) : x = a[i]
    BY <1>2 DEF ToSet
  <2>2. i \in 1 .. Len(c) /\ c[i] = x
    BY <1>2, <1>3, <2>1
  <2>3. QED
    BY <1>4, <2>2 DEF ToSet
<1>6. ASSUME NEW x \in ToSet(b) PROVE x \in ToSet(c)
  <2>1. PICK i \in 1 .. Len(b) : x = b[i]
    BY <1>2 DEF ToSet
  <2> DEFINE m == i + Len(a)
  <2>2. m \in 1 .. Len(c) /\ ~(m <= Len(a)) /\ m - Len(a) = i
    BY <1>2, <1>3
  <2> HIDE DEF m
  <2>3. c[m] = x
    BY <1>3, <2>1, <2>2
  <2>4. QED
    BY <1>4, <2>2, <2>3 DEF ToSet
<1>7. ToSet(c) \subseteq ToSet(a) \cup ToSet(b)
  BY ConcatElements DEF c
<1>8. QED
  BY <1>5, <1>6, <1>7 DEF c

LEMMA HeadOrTail ==
    ASSUME NEW s, s \in Seq(ToSet(s)), s # <<>>
    PROVE  ToSet(s) = {Head(s)} \cup ToSet(Tail(s))
<1>1. s = <<Head(s)>> \o Tail(s) /\ Tail(s) \in Seq(ToSet(Tail(s)))
  BY HeadTailElements
<1>2. <<Head(s)>> \in Seq(ToSet(<<Head(s)>>)) /\ ToSet(<<Head(s)>>) = {Head(s)}
  BY ShortElements
<1>3. QED
  BY <1>1, <1>2, ConcatHolds, ZenonT(30)

-----------------------------------------------------------------------------
(* The nodes of an entry.                                                  *)

LEMMA StoredShape ==
    ASSUME NEW s, NEW n \in 0 .. MaxN, Tree(s, n), NEW e \in entries_of(s)
    PROVE  ShapeOK(e) /\ index_of(e) \in 1 .. n
<1>1. /\ EntryOK(s, e) /\ index_of(e) \in 1 .. n /\ n \in Nat /\ MaxN \in Nat
  BY StoredEntry, Revisions
<1>2. index_of(e) \in 1 .. MaxN
  BY <1>1
<1>3. e.enode.meta.address.j = 0
  BY <1>1 DEF EntryOK, Address
<1>4. ASSUME NEW k \in 1 .. Len(inodes(index_of(e)))
      PROVE  /\ e.inodes[k].meta.address.i = index_of(e)
             /\ e.inodes[k].meta.address.j = inodes(index_of(e))[k].node.j
  <2>1. e.inodes[k].meta.address = Address(index_of(e), inodes(index_of(e))[k].node.j, position_of(e))
    BY <1>1 DEF EntryOK
  <2>2. QED
    BY <2>1 DEF Address
<1>5. QED
  BY <1>1, <1>2, <1>3, <1>4 DEF EntryOK, ShapeOK

\* Below an inode: its left child is a perfect subtree that begins where it does,
\* and its right child begins where that ends, as the formulas that the callbacks
\* use say (formula.rs:183-212).
LEMMA ShapeBelow ==
    ASSUME NEW e, ShapeOK(e), NEW k \in 1 .. Len(e.inodes)
    PROVE  LET i == index_of(e)
               a == e.inodes[k].meta.address
               l == e.inodes[k].left
               r == right_of(i, a.j)
           IN  /\ i \in Nat /\ a.i = i /\ a.j # 0
               /\ range_start(i, a.j) = lowest(AtHand(e, k))
               /\ r.i = i /\ range_start(i, r.j) = lowest(AtHand(e, k - 1))
               /\ l.i \in 1 .. i - 1 /\ l.j \in Nat /\ 2^l.j \in Nat /\ 2^l.j <= l.i
               /\ is_pbst(l.i, l.j)
               /\ lowest(ToRead(l)) = lowest(AtHand(e, k))
               /\ l.i + 1 = lowest(AtHand(e, k - 1))
               /\ k - 1 \in 0 .. Len(e.inodes)
<1> DEFINE n == index_of(e)
           s == inodes(n)
           a == e.inodes[k].meta.address
           l == e.inodes[k].left
<1>1. n \in 1 .. MaxN /\ n \in Index \ {0} /\ n \in Nat \ {0}
  BY Revisions DEF ShapeOK
<1>2. /\ Len(e.inodes) = Len(s) /\ k \in 1 .. Len(s)
      /\ a.i = n /\ a.j = s[k].node.j /\ l.i = s[k].left.i /\ l.j = s[k].left.j
  BY DEF ShapeOK
<1>3. /\ Len(s) \in Nat /\ s[k].node.j \in Nat \ {0} /\ s[k].node.j = s[k].left.j + 1
      /\ s[k].right = IF k = 1 THEN Addr(n, 0) ELSE s[k - 1].node
  BY <1>1, <1>2, InodeHeights, InodesClimb
<1>4. /\ s[k].left.j \in Nat /\ s[k].left.i \in 1 .. n - 1
      /\ 2^s[k].left.j \in Nat /\ first_leaf(s, k) \in 1 .. n - 1
      /\ s[k].left.i = (first_leaf(s, k) + 2^s[k].left.j) - 1
      /\ is_pbst(s[k].left.i, s[k].left.j)
  BY <1>1, <1>2, InodeSizes
<1>5. s[k].left.i + 1 = IF k = 1 THEN n ELSE first_leaf(s, k - 1)
  BY <1>1, <1>2, InodesTile
<1>6. /\ right_of(n, s[k].node.j) = s[k].right
      /\ range_start(n, s[k].node.j) = first_leaf(s, k)
  BY <1>1, <1>2, FormulasFitInodes
<1>7. /\ lowest(AtHand(e, k)) = first_leaf(s, k)
      /\ lowest(AtHand(e, k - 1)) = IF k = 1 THEN n ELSE first_leaf(s, k - 1)
      /\ lowest(ToRead(l)) = (l.i - 2^l.j) + 1
  BY <1>1, CallFields, SMTT(30) DEF lowest
<1>8. /\ s[k].right.i = n
      /\ range_start(n, s[k].right.j) = IF k = 1 THEN n ELSE first_leaf(s, k - 1)
  <2>1. CASE k = 1
    <3>1. s[k].right.i = n /\ s[k].right.j = 0
      BY <1>3, <2>1 DEF Addr
    <3>2. i_mod_2e(n - 1, 0) = 0
      <4>1. (n - 1) % 1 = 0 /\ ~(0 >= INDEX_SIZE)
        BY <1>1, IndexSizeAssumption
      <4>2. QED
        BY <4>1, PowerZero DEF i_mod_2e
    <3>3. QED
      BY <1>1, <2>1, <3>1, <3>2 DEF range_start
  <2>2. CASE k # 1
    <3> DEFINE m == k - 1
    <3>1. m \in 1 .. Len(s)
      BY <1>2, <1>3, <2>2
    <3>2. s[k].right = s[m].node
      BY <1>3, <2>2
    <3> HIDE DEF m, s
    <3>3. s[m].node = Addr(n, s[m].node.j) /\ range_start(n, s[m].node.j) = first_leaf(s, m)
      BY <1>1, <3>1, InodeHeights, FormulasFitInodes DEF s
    <3>4. s[k].right.i = n /\ range_start(n, s[k].right.j) = first_leaf(s, m)
      BY <3>2, <3>3 DEF Addr
    <3>5. QED
      BY <2>2, <3>4 DEF m
  <2>3. QED
    BY <2>1, <2>2
<1>9. 2^s[k].left.j <= s[k].left.i /\ first_leaf(s, k) = (s[k].left.i - 2^s[k].left.j) + 1
  <2> DEFINE d == 2^s[k].left.j
             f == first_leaf(s, k)
             g == s[k].left.i
  <2>1. d \in Nat /\ f \in 1 .. n - 1 /\ g = (f + d) - 1 /\ g \in 1 .. n - 1
    BY <1>4
  <2> HIDE DEF d, f, g
  <2>2. d <= g /\ f = (g - d) + 1
    BY <1>1, <2>1
  <2>3. QED
    BY <2>2 DEF d, f, g
<1>10. k - 1 \in 0 .. Len(e.inodes)
  BY <1>2, <1>3
<1> HIDE DEF s, a, l, n
<1>11. QED
  BY <1>1, <1>2, <1>3, <1>4, <1>5, <1>6, <1>7, <1>8, <1>9, <1>10 DEF a, l, n

\* The node that a walk finds in the entry it has read is the one it looks for.
LEMMA NodeFound ==
    ASSUME NEW e, ShapeOK(e), NEW a, index_of(e) = a.i, is_pbst(a.i, a.j),
           NEW k \in node_indices(e, a.j)
    PROVE  /\ k \in 0 .. Len(e.inodes)
           /\ lowest(AtHand(e, k)) = lowest(ToRead(a)) /\ highest(AtHand(e, k)) = highest(ToRead(a))
<1> DEFINE n == index_of(e)
           s == inodes(n)
<1>1. n \in Index \ {0} /\ n \in Nat /\ Len(s) \in Nat
  BY Revisions, InodeHeights DEF ShapeOK
<1>2. Len(e.inodes) = Len(s) /\ \A m \in 1 .. Len(s) : e.inodes[m].meta.address.j = s[m].node.j
  BY DEF ShapeOK
<1>3. lowest(ToRead(a)) = (n - 2^a.j) + 1 /\ highest(ToRead(a)) = n /\ highest(AtHand(e, k)) = n
  BY CallFields DEF lowest, highest
<1>4. lowest(AtHand(e, k)) = IF k = 0 THEN n ELSE first_leaf(s, k)
  BY CallFields DEF lowest
<1>5. \A m \in 1 .. Len(s) : is_pbst(n, s[m].node.j) => first_leaf(s, m) = (n - 2^s[m].node.j) + 1
  BY <1>1, InodesTile
<1> HIDE DEF s, n
<1>6. CASE a.j = 0
  <2>1. k = 0
    BY <1>6 DEF node_indices
  <2>2. 2^a.j = 1
    BY <1>6, PowerZero
  <2>3. QED
    BY <1>1, <1>2, <1>3, <1>4, <2>1, <2>2
<1>7. CASE a.j # 0
  <2>1. k \in 1 .. Len(s) /\ s[k].node.j = a.j
    BY <1>2, <1>7 DEF node_indices
  <2>2. first_leaf(s, k) = (n - 2^a.j) + 1
    BY <1>5, <2>1 DEF n
  <2>3. k \in 0 .. Len(e.inodes) /\ k # 0
    BY <1>1, <1>2, <2>1
  <2>4. QED
    BY <1>3, <1>4, <2>2, <2>3
<1>8. QED
  BY <1>6, <1>7

\* An entry fetched for an address has its index and the shape of it.
LEMMA FetchShape ==
    ASSUME NEW n \in 0 .. MaxN, Tree(storage, n), NEW q, SnapshotOK(q.cache), NEW a,
           NEW e \in fetch(q, a)
    PROVE  ShapeOK(e) /\ index_of(e) = a.i
<1>1. CASE e \in cache_entry(q.cache, a.i)
  BY <1>1 DEF cache_entry, SnapshotOK
<1>2. CASE e \in read_entry_with_index_check(storage, a)
  <2>1. e \in entries_of(storage) /\ index_of(e) = a.i
    BY <1>2 DEF read_entry_with_index_check, entries_of
  <2>2. QED
    BY <2>1, StoredShape
<1>3. QED
  BY <1>1, <1>2 DEF fetch

\* While the snapshot is intact, the node of an address that an entry of it holds
\* is found, in the cache or in the storage.
LEMMA IntactFetch ==
    ASSUME NEW n \in 0 .. MaxN, Tree(storage, n), NEW q, SnapshotOK(q.cache),
           IntactOK(q, storage, n), NEW a, LeadsTo(q, storage, a)
    PROVE  /\ fetch(q, a) # {}
           /\ \A e \in fetch(q, a) : e \in entries_of(storage) /\ node_indices(e, a.j) # {}
<1>1. PICK x \in entries_of(storage) : index_of(x) <= q.cache.revision /\ a \in left_addresses(x)
  BY DEF LeadsTo
<1>2. a.i \in 1 .. index_of(x) - 1 /\ a.j \in Nat
  BY <1>1, LeftEntry
<1>3. PICK y \in entries_of(storage) :
         /\ read_entry_with_index_check(storage, a) = {y} /\ index_of(y) = a.i
         /\ entry_meta(y, a.j) # {}
  BY <1>1, LeftEntry
<1>4. index_of(x) \in Nat /\ q.cache.revision \in Nat
  BY StoredEntry, Revisions DEF SnapshotOK
<1>5. a.i <= q.cache.revision
  BY <1>1, <1>2, <1>4
<1>6. ASSUME NEW e \in fetch(q, a) PROVE e = y
  <2>1. index_of(e) = a.i /\ StillStored(q, storage, e)
    BY FetchShape, FetchOK
  <2>2. e \in entries_of(storage)
    BY <1>5, <2>1 DEF StillStored
  <2>3. QED
    BY <1>3, <2>1, <2>2, StoredEntry
<1>7. fetch(q, a) # {}
  BY <1>3 DEF fetch
<1>8. node_indices(y, a.j) # {}
  <2>1. CASE a.j = 0
    BY <2>1 DEF node_indices
  <2>2. CASE a.j # 0
    <3>1. PICK m \in ToSet(y.inodes) : m.meta.address.j = a.j
      BY <1>3, <2>2 DEF entry_meta, entry_inode
    <3>2. PICK k \in DOMAIN y.inodes : m = y.inodes[k]
      BY DEF ToSet
    <3>3. k \in 1 .. Len(y.inodes)
      BY StoredShape DEF ShapeOK
    <3>4. QED
      BY <2>2, <3>1, <3>2, <3>3 DEF node_indices
  <2>3. QED
    BY <2>1, <2>2
<1>9. QED
  BY <1>6, <1>7, <1>8

\* The calls below an inode, and those that the callback's answer asks for.
LEMMA BelowAre ==
    ASSUME NEW q, NEW e, NEW k, k # 0
    PROVE  LET a     == node_meta(e, k).address
               dir   == direction(q, a.i, a.j)
               calls == ToSet(calls_below(q, e, k))
               right == AtHand(e, k - 1)
               left  == ToRead(e.inodes[k].left)
           IN  /\ calls \subseteq {right, left}
               /\ right \in calls <=> dir \in {"Right", "Both"}
               /\ left \in calls <=> dir \in {"Left", "Both"}
<1> DEFINE a     == node_meta(e, k).address
           dir   == direction(q, a.i, a.j)
           r     == AtHand(e, k - 1)
           l     == ToRead(e.inodes[k].left)
           right == IF dir \in {"Right", "Both"} THEN <<r>> ELSE <<>>
           left  == IF dir \in {"Left", "Both"} THEN <<l>> ELSE <<>>
<1>1. calls_below(q, e, k) = right \o left
  BY DEF calls_below
<1>2. r # l
  BY CallFields
<1> HIDE DEF dir, r, l
<1>3. right \in Seq(ToSet(right)) /\ ToSet(right) = IF dir \in {"Right", "Both"} THEN {r} ELSE {}
  BY ShortElements
<1>4. left \in Seq(ToSet(left)) /\ ToSet(left) = IF dir \in {"Left", "Both"} THEN {l} ELSE {}
  BY ShortElements
<1> HIDE DEF right, left
<1>5. ToSet(calls_below(q, e, k)) = ToSet(right) \cup ToSet(left)
  BY <1>1, <1>3, <1>4, ConcatHolds
<1>6. QED
  BY <1>2, <1>3, <1>4, <1>5 DEF dir, r, l

\* They stay in the snapshot.
LEMMA BelowFits ==
    ASSUME NEW q, NEW e, ShapeOK(e), index_of(e) <= q.cache.revision, q.cache.revision \in 0 .. MaxN,
           NEW k \in 1 .. Len(e.inodes), NEW call \in ToSet(calls_below(q, e, k))
    PROVE  /\ Fits(q, call)
           /\ call.at_hand \/ call.address \in left_addresses(e)
<1> DEFINE l == e.inodes[k].left
<1>1. call \in {AtHand(e, k - 1), ToRead(l)}
  BY BelowAre
<1>2. CASE call = AtHand(e, k - 1)
  <2>1. k - 1 \in 0 .. Len(e.inodes)
    BY ShapeBelow
  <2>2. QED
    BY <1>2, <2>1, CallFields DEF Fits
<1>3. CASE call = ToRead(l)
  <2>1. ~call.at_hand /\ call.address = l
    BY <1>3, CallFields
  <2>2. /\ index_of(e) \in Nat /\ l.i \in 1 .. index_of(e) - 1 /\ l.j \in Nat /\ 2^l.j <= l.i
        /\ is_pbst(l.i, l.j)
    BY ShapeBelow
  <2>3. l \in left_addresses(e)
    BY DEF left_addresses, ToSet, ShapeOK
  <2> HIDE DEF l
  <2>4. q.cache.revision \in Nat
    BY Revisions
  <2>5. l.i \in 1 .. q.cache.revision
    BY <2>2, <2>4
  <2>6. QED
    BY <2>1, <2>2, <2>3, <2>5 DEF Fits
<1>4. QED
  BY <1>1, <1>2, <1>3

\* At an inode over the goal, the callback of get goes on to the child over it,
\* and that of get_sample to both (lib.rs:957-1004).
LEMMA BelowCovers ==
    ASSUME NEW q, NEW e, ShapeOK(e), NEW k \in 1 .. Len(e.inodes),
           q.op \in {"get", "get_sample"}, q.goal \in Nat, Covers(AtHand(e, k), q.goal)
    PROVE  LET calls == ToSet(calls_below(q, e, k))
           IN  /\ \E call \in calls : Covers(call, q.goal)
               /\ q.op = "get" => \A call \in calls : Covers(call, q.goal)
<1> DEFINE i     == index_of(e)
           a     == node_meta(e, k).address
           l     == e.inodes[k].left
           r     == right_of(i, a.j)
           right == AtHand(e, k - 1)
           left  == ToRead(l)
           dir   == direction(q, a.i, a.j)
           calls == ToSet(calls_below(q, e, k))
<1>1. k # 0 /\ a = e.inodes[k].meta.address
  BY DEF node_meta, ShapeOK
<1>2. /\ i \in Nat /\ a.i = i /\ a.j # 0
      /\ range_start(i, a.j) = lowest(AtHand(e, k))
      /\ r.i = i /\ range_start(i, r.j) = lowest(right)
      /\ l.i \in 1 .. i - 1 /\ l.j \in Nat /\ 2^l.j \in Nat
      /\ lowest(left) = lowest(AtHand(e, k)) /\ l.i + 1 = lowest(right)
  BY <1>1, ShapeBelow
<1>3. /\ calls \subseteq {right, left}
      /\ right \in calls <=> dir \in {"Right", "Both"}
      /\ left \in calls <=> dir \in {"Left", "Both"}
  BY <1>1, BelowAre
<1>4. highest(AtHand(e, k)) = i /\ highest(right) = i /\ highest(left) = l.i
  BY CallFields DEF highest
<1>5. lowest(left) <= q.goal /\ q.goal <= i
  BY <1>2, <1>4 DEF Covers
<1>6. Covers(right, q.goal) <=> l.i + 1 <= q.goal
  BY <1>2, <1>4, <1>5 DEF Covers
<1>7. Covers(left, q.goal) <=> q.goal <= l.i
  BY <1>2, <1>4, <1>5 DEF Covers
<1>8. Covers(right, q.goal) \/ Covers(left, q.goal)
  <2>1. l.i \in Nat /\ q.goal \in Nat
    BY <1>2
  <2> HIDE DEF l, left, right
  <2>2. QED
    BY <1>6, <1>7, <2>1
<1>9. contains(r.i, r.j, q.goal) <=> Covers(right, q.goal)
  BY <1>2, <1>4 DEF contains, Covers
<1>10. contains(a.i, a.j, q.goal)
  BY <1>2, <1>5 DEF contains
<1>11. q.goal = i => Covers(right, q.goal)
  BY <1>2, <1>6, SMTT(30)
<1>12. q.op = "get" => dir = IF Covers(right, q.goal) THEN "Right" ELSE "Left"
  BY <1>2, <1>9, <1>11 DEF direction
<1>13. q.op = "get_sample" => dir = "Both"
  BY <1>2, <1>10 DEF direction
<1> HIDE DEF dir, right, left, calls
<1>14. \E call \in calls : Covers(call, q.goal)
  BY <1>3, <1>8, <1>12, <1>13
<1>15. q.op = "get" => \A call \in calls : Covers(call, q.goal)
  BY <1>3, <1>8, <1>12
<1>16. QED
  BY <1>14, <1>15 DEF calls

-----------------------------------------------------------------------------
(* The steps of a walk.                                                    *)

\* What a visit that does not panic leaves.
LEMMA VisitFields ==
    ASSUME NEW s, NEW n, NEW q, QueryOK(q, s, n), q.todo # <<>>, NEW e, NEW k,
           ~(q.op = "get" /\ k = 0 /\ index_of(e) # q.goal)
    PROVE  LET y     == Visit(q, e, k)
               calls == ToSet(calls_below(q, e, k))
           IN  /\ y.cache = q.cache /\ y.intact = q.intact /\ y.op = q.op /\ y.goal = q.goal
               /\ y.status \in {"walking", "done"} /\ (y.status = "done" => ToSet(y.todo) = {})
               /\ ToSet(y.todo) = calls \cup ToSet(Tail(q.todo))
               /\ y.leaf = IF k = 0 /\ index_of(e) = q.goal THEN {e.enode.payload} ELSE q.leaf
<1> DEFINE todo == calls_below(q, e, k) \o Tail(q.todo)
           x    == noted(q, e, k)
           y    == [x EXCEPT !.todo = todo, !.status = IF todo = <<>> THEN "done" ELSE "walking"]
           calls == ToSet(calls_below(q, e, k))
<1>1. Visit(q, e, k) = y
  BY DEF Visit, node_meta, index_of
<1>2. /\ DOMAIN x = DOMAIN q /\ x.cache = q.cache /\ x.intact = q.intact /\ x.op = q.op /\ x.goal = q.goal
      /\ x.leaf = IF k = 0 /\ index_of(e) = q.goal THEN {e.enode.payload} ELSE q.leaf
  BY DEF noted, at_goal, QueryOK, Closed
<1>3. ToSet(todo) = calls \cup ToSet(Tail(q.todo))
  <2>1. Tail(q.todo) \in Seq(ToSet(Tail(q.todo)))
    BY HeadTailElements DEF QueryOK
  <2>2. calls_below(q, e, k) \in Seq(calls)
    BY CallsBelow
  <2>3. QED
    BY <2>1, <2>2, ConcatHolds
<1>4. todo = <<>> => ToSet(todo) = {}
  <2> HIDE DEF todo
  <2> QED
    BY ShortElements
<1> HIDE DEF x, todo, calls
<1>5. /\ y.cache = x.cache /\ y.intact = x.intact /\ y.op = x.op /\ y.goal = x.goal
      /\ y.todo = todo /\ y.leaf = x.leaf
      /\ y.status = IF todo = <<>> THEN "done" ELSE "walking"
  BY <1>2 DEF QueryOK, Closed
<1> HIDE DEF y
<1>6. QED
  BY <1>1, <1>2, <1>3, <1>4, <1>5 DEF calls

\* A walk that visits the node of its next call keeps its way.
LEMMA VisitWalks ==
    ASSUME NEW s, NEW n, NEW q, QueryOK(q, s, n), QueryWalks(q, s),
           q.status = "walking", q.op \in {"get", "get_sample"},
           NEW e, ShapeOK(e), index_of(e) <= q.cache.revision, q.intact => e \in entries_of(s),
           NEW k \in 0 .. Len(e.inodes),
           lowest(AtHand(e, k)) = lowest(Head(q.todo)), highest(AtHand(e, k)) = highest(Head(q.todo))
    PROVE  QueryWalks(Visit(q, e, k), s)
<1> DEFINE y      == Visit(q, e, k)
           call   == Head(q.todo)
           calls  == ToSet(calls_below(q, e, k))
           rest   == ToSet(Tail(q.todo))
           inside == q.goal \in 1 .. q.cache.revision
<1>1. q.todo # <<>> /\ ToSet(q.todo) = {call} \cup rest
  BY HeadOrTail DEF QueryOK
<1>2. /\ index_of(e) \in Nat /\ q.cache.revision \in Nat
      /\ k # 0 => k \in 1 .. Len(e.inodes)
  <2>1. index_of(e) \in 1 .. MaxN /\ Len(e.inodes) = Len(inodes(index_of(e)))
    BY DEF ShapeOK
  <2>2. q.cache.revision \in 0 .. MaxN
    BY DEF QueryWalks, SnapshotOK
  <2>3. index_of(e) \in Index \ {0} /\ q.cache.revision \in Nat
    BY <2>1, <2>2, Revisions
  <2>4. Len(inodes(index_of(e))) \in Nat
    BY <2>3, InodeHeights
  <2>5. QED
    BY <2>1, <2>3, <2>4, Revisions
<1>3. \A i : Covers(call, i) <=> Covers(AtHand(e, k), i)
  BY DEF Covers
<1>4. k = 0 => calls = {}
  BY ShortElements DEF calls_below
<1>5. ASSUME inside, Covers(call, q.goal)
      PROVE  /\ k = 0 => index_of(e) = q.goal
             /\ k # 0 => /\ \E c \in calls : Covers(c, q.goal)
                         /\ q.op = "get" => \A c \in calls : Covers(c, q.goal)
  <2>1. q.goal \in Nat /\ Covers(AtHand(e, k), q.goal)
    BY <1>3, <1>5
  <2>2. CASE k = 0
    <3>1. lowest(AtHand(e, k)) = index_of(e) /\ highest(AtHand(e, k)) = index_of(e)
      BY <2>2, CallFields DEF lowest, highest
    <3>2. QED
      BY <1>2, <2>1, <2>2, <3>1 DEF Covers
  <2>3. CASE k # 0
    BY <1>2, <2>1, <2>3, BelowCovers
  <2>4. QED
    BY <2>2, <2>3
<1>6. q.op = "get" => inside /\ \A c \in {call} \cup rest : Covers(c, q.goal)
  BY <1>1 DEF QueryWalks, WalkFits
<1>7. inside /\ q.leaf = {} => \E c \in {call} \cup rest : Covers(c, q.goal)
  BY <1>1 DEF QueryWalks, WalkFits
<1>8. ~(q.op = "get" /\ k = 0 /\ index_of(e) # q.goal)
  BY <1>5, <1>6
<1>9. /\ y.cache = q.cache /\ y.intact = q.intact /\ y.op = q.op /\ y.goal = q.goal
      /\ y.status \in {"walking", "done"} /\ (y.status = "done" => ToSet(y.todo) = {})
      /\ ToSet(y.todo) = calls \cup rest
      /\ y.leaf = IF k = 0 /\ index_of(e) = q.goal THEN {e.enode.payload} ELSE q.leaf
  BY <1>1, <1>8, VisitFields, ZenonT(30)
<1>10. \A c \in calls : Fits(q, c) /\ (c.at_hand \/ c.address \in left_addresses(e))
  BY <1>2, <1>4, BelowFits DEF QueryWalks, SnapshotOK
<1>11. \A c \in rest : Fits(q, c)
  BY <1>1 DEF QueryWalks
<1>12. q.intact => \A c \in calls \cup rest : c.at_hand \/ LeadsTo(q, s, c.address)
  BY <1>1, <1>10 DEF QueryWalks, LeadsTo
<1> HIDE DEF calls, rest, call, y
<1>13. inside /\ y.leaf = {} => \E c \in ToSet(y.todo) : Covers(c, q.goal)
  BY <1>5, <1>7, <1>9
<1>14. q.op = "get" => inside /\ \A c \in ToSet(y.todo) : Covers(c, q.goal)
  BY <1>4, <1>5, <1>6, <1>9
<1>15. WalkFits(y)
  BY <1>9, <1>13, <1>14 DEF WalkFits
<1>16. \A c \in ToSet(y.todo) : Fits(y, c)
  BY <1>9, <1>10, <1>11 DEF Fits
<1>17. \A c \in ToSet(y.todo) : y.intact => c.at_hand \/ LeadsTo(y, s, c.address)
  BY <1>9, <1>12 DEF LeadsTo
<1>18. y.op # "scan" /\ y.status \in {"walking", "done"} /\ y.status # "scanning" /\ y.status # "failed"
  BY <1>9
<1>19. SeekFits(y) /\ ScanFits(y, s) /\ SnapshotOK(y.cache)
  BY <1>9, <1>18 DEF SeekFits, ScanFits, QueryWalks
<1>20. QED
  BY <1>9, <1>15, <1>16, <1>17, <1>18, <1>19 DEF QueryWalks, y

\* A call that fails leaves nothing to do, and only on a cut snapshot.
LEMMA FailWalks ==
    ASSUME NEW s, NEW q, QueryWalks(q, s), ~q.intact, NEW z,
           z.cache = q.cache, z.intact = q.intact, z.op = q.op, z.goal = q.goal, z.upto = q.upto,
           z.leaf = q.leaf, z.status = "failed", ToSet(z.todo) \subseteq ToSet(q.todo)
    PROVE  QueryWalks(z, s)
<1>1. \A call \in ToSet(z.todo) : Fits(z, call)
  BY DEF QueryWalks, Fits
<1>2. WalkFits(z) /\ SeekFits(z)
  BY DEF QueryWalks, WalkFits, SeekFits
<1>3. QED
  BY <1>1, <1>2 DEF QueryWalks

\* The node of the next call of a walk, and when there is none.
LEMMA NextNode ==
    ASSUME NEW n \in 0 .. MaxN, Tree(storage, n), NEW q, QueryOK(q, storage, n),
           QueryWalks(q, storage), q.status = "walking"
    PROVE  /\ q.intact => next_nodes(q) # {}
           /\ \A node \in next_nodes(q) :
                 LET e == node[1]
                     k == node[2]
                 IN  /\ ShapeOK(e) /\ index_of(e) <= q.cache.revision
                     /\ q.intact => e \in entries_of(storage)
                     /\ k \in 0 .. Len(e.inodes)
                     /\ lowest(AtHand(e, k)) = lowest(Head(q.todo))
                     /\ highest(AtHand(e, k)) = highest(Head(q.todo))
<1> DEFINE call == Head(q.todo)
           a    == call.address
<1>1. /\ call \in ToSet(q.todo) /\ Fits(q, call) /\ SnapshotOK(q.cache)
      /\ q.cache.revision \in Nat
  BY HeadTailElements, Revisions DEF QueryOK, QueryWalks, SnapshotOK
<1>2. q.intact => /\ IntactOK(q, storage, n) /\ (call.at_hand \/ LeadsTo(q, storage, a))
  BY <1>1 DEF QueryOK, QueryWalks
<1>3. q.intact /\ call.at_hand => StillStored(q, storage, call.entry)
  BY <1>1, <1>2 DEF IntactOK
<1> HIDE DEF call
<1>4. CASE call.at_hand
  <2> DEFINE e == call.entry
             k == call.index
  <2>1. next_nodes(q) = {<<e, k>>}
    BY <1>4 DEF next_nodes, call
  <2>2. ShapeOK(e) /\ index_of(e) <= q.cache.revision /\ k \in 0 .. Len(e.inodes)
    BY <1>1, <1>4 DEF Fits
  <2>3. q.intact => e \in entries_of(storage)
    BY <1>3, <1>4, <2>2 DEF StillStored
  <2>4. lowest(AtHand(e, k)) = lowest(call) /\ highest(AtHand(e, k)) = highest(call)
    BY <1>4, CallFields DEF lowest, highest
  <2> HIDE DEF e, k
  <2>5. QED
    BY <2>1, <2>2, <2>3, <2>4 DEF call
<1>5. CASE ~call.at_hand
  <2>1. next_nodes(q) = UNION {{<<e, k>> : k \in node_indices(e, a.j)} : e \in fetch(q, a)}
    BY <1>5 DEF next_nodes, call
  <2>2. /\ a.i \in 1 .. q.cache.revision /\ is_pbst(a.i, a.j)
        /\ lowest(ToRead(a)) = lowest(call) /\ highest(ToRead(a)) = highest(call)
    BY <1>1, <1>5, CallFields DEF Fits, lowest, highest
  <2>3. q.intact => /\ fetch(q, a) # {}
                    /\ \A e \in fetch(q, a) : e \in entries_of(storage) /\ node_indices(e, a.j) # {}
    BY <1>1, <1>2, <1>5, IntactFetch
  <2>4. \A e \in fetch(q, a) : ShapeOK(e) /\ index_of(e) = a.i
    BY <1>1, FetchShape
  <2> HIDE DEF a
  <2>5. ASSUME NEW e \in fetch(q, a), NEW k \in node_indices(e, a.j)
        PROVE  /\ k \in 0 .. Len(e.inodes)
               /\ lowest(AtHand(e, k)) = lowest(call) /\ highest(AtHand(e, k)) = highest(call)
    BY <2>2, <2>4, NodeFound
  <2>6. \A e \in fetch(q, a) : index_of(e) <= q.cache.revision
    BY <1>1, <2>2, <2>4
  <2>7. ASSUME q.intact PROVE next_nodes(q) # {}
    <3>1. PICK e \in fetch(q, a) : node_indices(e, a.j) # {}
      BY <2>3, <2>7
    <3>2. PICK k \in node_indices(e, a.j) : TRUE
      BY <3>1
    <3>3. <<e, k>> \in next_nodes(q)
      BY <2>1
    <3>4. QED
      BY <3>3
  <2>8. ASSUME NEW node \in next_nodes(q)
        PROVE  \E e \in fetch(q, a) : \E k \in node_indices(e, a.j) : node[1] = e /\ node[2] = k
    BY <2>1
  <2>9. QED
    BY <2>3, <2>4, <2>5, <2>6, <2>7, <2>8 DEF call
<1>6. QED
  BY <1>4, <1>5

LEMMA WalkStepWalks ==
    ASSUME NEW n \in 0 .. MaxN, Tree(storage, n), NEW q, QueryOK(q, storage, n),
           QueryWalks(q, storage), q.status = "walking", q.op \in {"get", "get_sample"}
    PROVE  QueryWalks(WalkStep(q), storage)
<1>1. CASE next_nodes(q) = {}
  <2> DEFINE z == [q EXCEPT !.status = "failed", !.todo = <<>>]
  <2>1. ~q.intact
    BY <1>1, NextNode
  <2>2. /\ z.cache = q.cache /\ z.intact = q.intact /\ z.op = q.op /\ z.goal = q.goal /\ z.upto = q.upto
        /\ z.leaf = q.leaf /\ z.status = "failed" /\ z.todo = <<>>
    BY DEF QueryOK, Closed
  <2>3. WalkStep(q) = z
    BY <1>1 DEF WalkStep
  <2> HIDE DEF z
  <2>4. QueryWalks(z, storage)
    BY <2>1, <2>2, ShortElements, FailWalks
  <2>5. QED
    BY <2>3, <2>4
<1>2. CASE next_nodes(q) # {}
  <2> DEFINE node == CHOOSE x \in next_nodes(q) : TRUE
             e    == node[1]
             k    == node[2]
  <2>1. node \in next_nodes(q) /\ WalkStep(q) = Visit(q, e, k)
    BY <1>2 DEF WalkStep
  <2> HIDE DEF node
  <2>2. /\ ShapeOK(e) /\ index_of(e) <= q.cache.revision
        /\ q.intact => e \in entries_of(storage)
        /\ k \in 0 .. Len(e.inodes)
        /\ lowest(AtHand(e, k)) = lowest(Head(q.todo))
        /\ highest(AtHand(e, k)) = highest(Head(q.todo))
    BY <2>1, NextNode
  <2> HIDE DEF e, k
  <2>3. QueryWalks(Visit(q, e, k), storage)
    BY <2>2, VisitWalks
  <2>4. QED
    BY <2>1, <2>3
<1>3. QED
  BY <1>1, <1>2

-----------------------------------------------------------------------------
(* The steps of a scan.                                                    *)

\* A leaf before an entry lies below one of the left children of its inodes.
LEMMA WaysExist ==
    ASSUME NEW e, ShapeOK(e), NEW goal \in 1 .. index_of(e) - 1
    PROVE  \E k \in 1 .. Len(e.inodes) : contains(e.inodes[k].left.i, e.inodes[k].left.j, goal)
<1> DEFINE n    == index_of(e)
           s    == inodes(n)
           m    == Len(e.inodes)
           f(k) == lowest(AtHand(e, k))
           T    == {k \in 1 .. m : f(k) <= goal}
<1>1. n \in 1 .. MaxN /\ n \in Nat /\ n \in Index \ {0} /\ m = Len(s) /\ m \in Nat /\ goal \in Nat
  BY Revisions, InodeHeights DEF ShapeOK
<1>2. IF m = 0 THEN n = 1 ELSE f(m) = 1
  <2>1. IF Len(s) = 0 THEN n = 1 ELSE first_leaf(s, Len(s)) = 1
    BY <1>1, InodesTile
  <2>2. m # 0 => f(m) = first_leaf(s, m)
    BY CallFields DEF lowest
  <2>3. QED
    BY <1>1, <2>1, <2>2
<1>3. ASSUME NEW k \in 1 .. m
      PROVE  LET l == e.inodes[k].left
             IN  /\ l.i \in Nat /\ l.j \in Nat /\ l.j < INDEX_SIZE /\ l.i # 0
                 /\ f(k) = range_start(l.i, l.j) /\ l.i + 1 = f(k - 1)
  <2> DEFINE l == e.inodes[k].left
  <2>1. /\ l.i \in 1 .. n - 1 /\ l.j \in Nat /\ 2^l.j \in Nat /\ 2^l.j <= l.i /\ is_pbst(l.i, l.j)
        /\ lowest(ToRead(l)) = f(k) /\ l.i + 1 = f(k - 1)
    BY ShapeBelow
  <2>2. lowest(ToRead(l)) = (l.i - 2^l.j) + 1
    BY CallFields DEF lowest
  <2> HIDE DEF l, f
  <2>3. l.i \in Nat \ {0}
    BY <1>1, <2>1
  <2>4. l.j < INDEX_SIZE
    <3>1. INDEX_SIZE \in Nat /\ 2^INDEX_SIZE \in Nat /\ n < 2^INDEX_SIZE
      BY <1>1, IndexSizeAssumption, PowerCounts DEF Index
    <3>2. ~(2^INDEX_SIZE <= 2^l.j)
      BY <1>1, <2>1, <3>1
    <3>3. QED
      BY <2>1, <3>1, <3>2, PowerOrder
  <2>5. range_start(l.i, l.j) = (l.i - 2^l.j) + 1
    BY <2>1, <2>3, <2>4, PerfectRange
  <2>6. QED
    BY <2>1, <2>2, <2>3, <2>4, <2>5 DEF l
<1>4. f(0) = n
  BY CallFields DEF lowest
<1> HIDE DEF f, m, s, n
<1>5. m # 0
  BY <1>1, <1>2 DEF n
<1>6. m \in T /\ T \in SUBSET Nat
  BY <1>1, <1>2, <1>5
<1>7. PICK k \in T : \A o \in T : k <= o
  BY <1>6, LeastElement
<1> DEFINE l == e.inodes[k].left
           o == k - 1
<1>8. k \in 1 .. m /\ f(k) <= goal /\ l.i \in Nat /\ f(k) = range_start(l.i, l.j) /\ l.i + 1 = f(o)
  BY <1>3, <1>7
<1>9. o \in 0 .. m /\ o < k /\ (o # 0 => o \in 1 .. m)
  BY <1>1, <1>8
<1> HIDE DEF l, o, T
<1>10. goal <= l.i
  <2>1. CASE o = 0
    BY <1>1, <1>4, <1>8, <2>1 DEF n
  <2>2. CASE o # 0
    <3>1. o \notin T
      BY <1>7, <1>8, <1>9
    <3>2. ~(f(o) <= goal)
      BY <1>9, <2>2, <3>1 DEF T
    <3>3. QED
      BY <1>1, <1>8, <3>2
  <2>3. QED
    BY <2>1, <2>2
<1>11. contains(l.i, l.j, goal)
  BY <1>8, <1>10 DEF contains
<1>12. QED
  BY <1>8, <1>11 DEF l, m

\* The entry of the next call of a scan on its way to the first index.
LEMMA NextEntry ==
    ASSUME NEW n \in 0 .. MaxN, Tree(storage, n), NEW q, QueryOK(q, storage, n),
           QueryWalks(q, storage), q.status = "walking"
    PROVE  LET call    == Head(q.todo)
               entries == IF call.at_hand THEN {call.entry} ELSE fetch(q, call.address)
           IN  /\ call \in ToSet(q.todo)
               /\ q.intact => entries # {}
               /\ \A e \in entries : /\ ShapeOK(e) /\ index_of(e) = highest(call)
                                     /\ index_of(e) <= q.cache.revision
                                     /\ q.intact => e \in entries_of(storage)
<1> DEFINE call == Head(q.todo)
           a    == call.address
<1>1. /\ call \in ToSet(q.todo) /\ Fits(q, call) /\ SnapshotOK(q.cache)
      /\ q.cache.revision \in Nat
  BY HeadTailElements, Revisions DEF QueryOK, QueryWalks, SnapshotOK
<1>2. q.intact => /\ IntactOK(q, storage, n) /\ (call.at_hand \/ LeadsTo(q, storage, a))
  BY <1>1 DEF QueryOK, QueryWalks
<1>3. q.intact /\ call.at_hand => StillStored(q, storage, call.entry)
  BY <1>1, <1>2 DEF IntactOK
<1> HIDE DEF call
<1>4. CASE call.at_hand
  <2>1. ShapeOK(call.entry) /\ index_of(call.entry) <= q.cache.revision
    BY <1>1, <1>4 DEF Fits
  <2>2. index_of(call.entry) = highest(call)
    BY <1>4 DEF highest
  <2>3. q.intact => call.entry \in entries_of(storage)
    BY <1>3, <1>4, <2>1 DEF StillStored
  <2>4. QED
    BY <1>1, <1>4, <2>1, <2>2, <2>3 DEF call
<1>5. CASE ~call.at_hand
  <2>1. a.i \in 1 .. q.cache.revision /\ a.i = highest(call)
    BY <1>1, <1>5 DEF Fits, highest
  <2>2. q.intact => fetch(q, a) # {} /\ \A e \in fetch(q, a) : e \in entries_of(storage)
    BY <1>1, <1>2, <1>5, IntactFetch
  <2>3. \A e \in fetch(q, a) : ShapeOK(e) /\ index_of(e) = a.i
    BY <1>1, FetchShape
  <2> HIDE DEF a
  <2>4. \A e \in fetch(q, a) : index_of(e) <= q.cache.revision
    BY <1>1, <2>1, <2>3
  <2>5. QED
    BY <1>1, <1>5, <2>1, <2>2, <2>3, <2>4 DEF call, a
<1>6. QED
  BY <1>4, <1>5

LEMMA SeekStepWalks ==
    ASSUME NEW n \in 0 .. MaxN, Tree(storage, n), NEW q, QueryOK(q, storage, n),
           QueryWalks(q, storage), q.status = "walking", q.op = "scan"
    PROVE  QueryWalks(SeekStep(q), storage)
<1> DEFINE call    == Head(q.todo)
           entries == IF call.at_hand THEN {call.entry} ELSE fetch(q, call.address)
           e       == CHOOSE x \in entries : TRUE
           ways    == {k \in 1 .. Len(e.inodes) :
                          contains(e.inodes[k].left.i, e.inodes[k].left.j, q.goal)}
           l       == e.inodes[Min(ways)].left
           failed  == [q EXCEPT !.status = "failed", !.todo = <<>>]
           found   == [q EXCEPT !.status = "scanning", !.todo = <<>>, !.at = position_of(e)]
           on      == [q EXCEPT !.todo = <<ToRead(l)>>]
<1>1. /\ call \in ToSet(q.todo) /\ (q.intact => entries # {})
      /\ \A x \in entries : /\ ShapeOK(x) /\ index_of(x) = highest(call)
                            /\ index_of(x) <= q.cache.revision
                            /\ q.intact => x \in entries_of(storage)
  BY NextEntry
<1>2. /\ q.goal \in Nat \ {0} /\ q.upto \in Int /\ q.upto <= q.cache.revision /\ q.goal <= q.upto
      /\ q.seen = <<>> /\ q.goal <= highest(call) /\ q.last = {}
  BY <1>1 DEF QueryWalks, SeekFits
<1>3. SnapshotOK(q.cache) /\ q.cache.revision \in Nat
  BY Revisions DEF QueryWalks, SnapshotOK
<1>4. SeekStep(q) = IF entries = {} THEN failed
                    ELSE IF index_of(e) = q.goal THEN found
                    ELSE IF ways = {} THEN [q EXCEPT !.status = "done", !.todo = <<>>]
                    ELSE on
  BY DEF SeekStep
<1> HIDE DEF call
<1>5. CASE entries = {}
  <2>1. ~q.intact
    BY <1>1, <1>5
  <2>2. /\ failed.cache = q.cache /\ failed.intact = q.intact /\ failed.op = q.op
        /\ failed.goal = q.goal /\ failed.upto = q.upto
        /\ failed.leaf = q.leaf /\ failed.status = "failed" /\ failed.todo = <<>>
    BY DEF QueryOK, Closed
  <2> HIDE DEF failed, entries
  <2>3. QueryWalks(failed, storage)
    BY <2>1, <2>2, ShortElements, FailWalks
  <2>4. QED
    BY <1>4, <1>5, <2>3
<1>6. CASE entries # {} /\ index_of(e) = q.goal
  <2>1. e \in entries
    BY <1>6
  <2>2. /\ found.cache = q.cache /\ found.intact = q.intact /\ found.op = "scan"
        /\ found.goal = q.goal /\ found.upto = q.upto /\ found.seen = <<>>
        /\ found.status = "scanning" /\ found.todo = <<>>
        /\ found.at = position_of(e) /\ found.last = {}
    BY <1>2 DEF QueryOK, Closed
  <2> HIDE DEF found, entries, e
  <2>3. WalkFits(found) /\ SeekFits(found) /\ ToSet(found.todo) = {}
    BY <2>2, <1>2, ShortElements DEF WalkFits, SeekFits
  <2>4. ASSUME q.intact PROVE ScanFits(found, storage)
    <3>1. e \in entries_of(storage)
      BY <1>1, <2>1, <2>4
    <3>2. Len(found.seen) = 0 /\ found.seen \in Seq(ToSet(found.seen))
      BY <2>2, ShortElements
    <3>3. Passed(found, storage)
      BY <3>2 DEF Passed
    <3>4. found.last = {}
      BY <2>2
    <3>5. found.goal + Len(found.seen) = q.goal /\ Len(found.seen) <= (found.upto - found.goal) + 1
      BY <1>2, <2>2, <3>2
    <3>6. QED
      BY <1>6, <2>2, <3>1, <3>3, <3>4, <3>5 DEF ScanFits
  <2>5. QueryWalks(found, storage)
    BY <1>3, <2>2, <2>3, <2>4 DEF QueryWalks
  <2>6. QED
    BY <1>4, <1>6, <2>5
<1>7. CASE entries # {} /\ index_of(e) # q.goal
  <2>1. e \in entries
    BY <1>7
  <2>2. ShapeOK(e) /\ index_of(e) <= q.cache.revision /\ q.intact => e \in entries_of(storage)
    BY <1>1, <2>1
  <2>3. ShapeOK(e) /\ index_of(e) = highest(call) /\ index_of(e) <= q.cache.revision
    BY <1>1, <2>1
  <2> HIDE DEF entries, e
  <2>4. q.goal \in 1 .. index_of(e) - 1
    BY <1>2, <1>7, <2>3, Revisions DEF ShapeOK
  <2>5. ways # {} /\ ways \in SUBSET Nat
    <3>1. \E k \in 1 .. Len(e.inodes) : contains(e.inodes[k].left.i, e.inodes[k].left.j, q.goal)
      BY <2>3, <2>4, WaysExist
    <3>2. QED
      BY <3>1
  <2>6. Min(ways) \in ways
    <3> HIDE DEF ways
    <3>1. QED
      BY <2>5, LeastElement DEF Min
  <2>7. Min(ways) \in 1 .. Len(e.inodes) /\ contains(l.i, l.j, q.goal)
    <3>1. \A k \in ways : k \in 1 .. Len(e.inodes)
                          /\ contains(e.inodes[k].left.i, e.inodes[k].left.j, q.goal)
      OBVIOUS
    <3> HIDE DEF ways
    <3>2. QED
      BY <2>6, <3>1
  <2> HIDE DEF ways
  <2>8. /\ l.i \in 1 .. index_of(e) - 1 /\ l.j \in Nat /\ 2^l.j <= l.i /\ is_pbst(l.i, l.j)
    BY <2>3, <2>7, ShapeBelow
  <2>9. l \in left_addresses(e)
    BY <2>3, <2>7 DEF left_addresses, ToSet, ShapeOK
  <2>10. /\ on.cache = q.cache /\ on.intact = q.intact /\ on.op = "scan"
         /\ on.goal = q.goal /\ on.upto = q.upto /\ on.seen = <<>> /\ on.last = {}
         /\ on.status = "walking" /\ on.todo = <<ToRead(l)>>
    BY <1>2 DEF QueryOK, Closed
  <2> HIDE DEF on, l
  <2>11. ToSet(on.todo) = {ToRead(l)} /\ ~ToRead(l).at_hand /\ ToRead(l).address = l
    BY <2>10, ShortElements, CallFields
  <2>12. l.i \in 1 .. q.cache.revision
    BY <1>3, <2>3, <2>8, Revisions DEF ShapeOK
  <2>13. \A c \in ToSet(on.todo) : Fits(on, c)
    BY <2>8, <2>10, <2>11, <2>12 DEF Fits
  <2>14. q.goal <= highest(ToRead(l))
    BY <2>7, <2>11 DEF contains, highest
  <2>15. WalkFits(on) /\ SeekFits(on)
    BY <1>2, <2>10, <2>11, <2>14 DEF WalkFits, SeekFits
  <2>16. ASSUME on.intact PROVE ScanFits(on, storage) /\ LeadsTo(on, storage, l)
    <3>1. e \in entries_of(storage)
      BY <1>1, <2>1, <2>16, <2>10 DEF entries
    <3>2. QED
      BY <2>3, <2>9, <2>10, <3>1 DEF ScanFits, LeadsTo
  <2>17. QueryWalks(on, storage)
    BY <1>3, <2>10, <2>11, <2>13, <2>15, <2>16 DEF QueryWalks
  <2>18. QED
    BY <1>4, <1>7, <2>5, <2>17
<1>8. QED
  BY <1>5, <1>6, <1>7

\* On an intact snapshot a scan stands at the entry after the last one it has
\* passed on, as long as there is one in its range.
LEMMA ScanStepWalks ==
    ASSUME NEW n \in 0 .. MaxN, Tree(storage, n), NEW q, QueryOK(q, storage, n),
           QueryWalks(q, storage), q.status = "scanning"
    PROVE  QueryWalks(ScanStep(q), storage)
<1> DEFINE done   == [q EXCEPT !.status = "done"]
           failed == [q EXCEPT !.status = "failed"]
           e      == storage.data[q.at]
           item   == <<index_of(e), e.enode.payload>>
           on     == [q EXCEPT !.seen = Append(@, item), !.at = @ + entry_size(e)]
           ended  == [q EXCEPT !.last = {storage.end}]
           stops  == (\A end \in q.last : q.at >= end) \/ Len(q.seen) >= scan_count(q)
           i      == q.goal + Len(q.seen)
<1>1. /\ q.op = "scan" /\ SnapshotOK(q.cache) /\ q.cache.revision \in Nat
      /\ q.goal \in Nat \ {0} /\ q.upto \in Int /\ q.upto <= q.cache.revision /\ q.goal <= q.upto
      /\ \A c \in ToSet(q.todo) : Fits(q, c)
  BY Revisions DEF QueryWalks, SeekFits, SnapshotOK
<1>2. ScanStep(q) = IF q.last = {} THEN ended ELSE IF stops THEN done
                    ELSE IF q.at \notin DOMAIN storage.data THEN failed ELSE on
  BY DEF ScanStep
<1>3. /\ done.cache = q.cache /\ done.intact = q.intact /\ done.op = "scan" /\ done.goal = q.goal
      /\ done.upto = q.upto /\ done.seen = q.seen /\ done.todo = q.todo /\ done.status = "done"
      /\ failed.cache = q.cache /\ failed.intact = q.intact /\ failed.op = q.op
      /\ failed.goal = q.goal /\ failed.upto = q.upto /\ failed.leaf = q.leaf
      /\ failed.todo = q.todo /\ failed.status = "failed"
  BY <1>1 DEF QueryOK, Closed
<1>4. /\ on.cache = q.cache /\ on.intact = q.intact /\ on.op = "scan" /\ on.goal = q.goal
      /\ on.upto = q.upto /\ on.seen = Append(q.seen, item) /\ on.todo = q.todo
      /\ on.status = "scanning" /\ on.at = q.at + entry_size(e) /\ on.last = q.last
  BY <1>1 DEF QueryOK, Closed
<1>5. q.intact => /\ \A c \in ToSet(q.todo) : c.at_hand \/ LeadsTo(q, storage, c.address)
                  /\ Passed(q, storage) /\ Len(q.seen) <= (q.upto - q.goal) + 1
                  /\ q.last \in SUBSET Nat
                  /\ \A end \in q.last : \A x \in entries_of(storage) :
                        index_of(x) \in q.goal .. q.upto => position_of(x) < end
                  /\ i <= q.upto => \E x \in entries_of(storage) :
                                       index_of(x) = i /\ position_of(x) = q.at
                  /\ q.cache.revision \in 0 .. n
  BY DEF QueryWalks, ScanFits, QueryOK, IntactOK
<1>6. q.intact => q.seen \in Seq(ToSet(q.seen)) /\ Len(q.seen) \in Nat
  BY <1>5 DEF Passed
<1>7. \A x \in entries_of(storage) : position_of(x) \in Nat /\ position_of(x) \in DOMAIN storage.data
                                     /\ storage.data[position_of(x)] = x
  BY StoredEntry DEF Tree, StorageOK
<1>8. ASSUME q.intact, i <= q.upto, q.last # {}
      PROVE  /\ q.at \in DOMAIN storage.data /\ e \in entries_of(storage) /\ index_of(e) = i
             /\ ~stops
  <2>1. PICK x \in entries_of(storage) : index_of(x) = i /\ position_of(x) = q.at
    BY <1>5, <1>8
  <2>2. e = x /\ q.at \in DOMAIN storage.data /\ q.at \in Nat
    BY <1>7, <2>1
  <2>3. i \in q.goal .. q.upto
    BY <1>1, <1>6, <1>8
  <2>4. PICK end \in q.last : end \in Nat
    BY <1>5, <1>8
  <2>5. ~(Len(q.seen) >= scan_count(q))
    BY <1>1, <1>6, <1>8 DEF scan_count
  <2> HIDE DEF i, e
  <2>6. ~(q.at >= end)
    <3>1. position_of(x) < end
      BY <1>5, <1>8, <2>1, <2>3
    <3>2. QED
      BY <2>1, <2>2, <2>4, <3>1
  <2>7. QED
    BY <2>1, <2>2, <2>5, <2>6
<1> HIDE DEF done, failed, on, ended, stops
<1>9. CASE q.last # {} /\ stops
  <2>1. ASSUME q.intact PROVE Len(q.seen) = (q.upto - q.goal) + 1
    <3>1. ~(i <= q.upto)
      BY <1>8, <1>9, <2>1
    <3>2. QED
      BY <1>1, <1>5, <1>6, <2>1, <3>1
  <2>2. q.intact => Passed(done, storage)
    BY <1>3, <1>5 DEF Passed
  <2>3. WalkFits(done) /\ SeekFits(done)
    BY <1>1, <1>3 DEF WalkFits, SeekFits
  <2>4. q.intact => ScanFits(done, storage)
    <3>1. ~(q.goal > q.upto)
      BY <1>1
    <3>2. QED
      BY <1>3, <2>1, <2>2, <3>1 DEF ScanFits
  <2>5. \A c \in ToSet(done.todo) : Fits(done, c)
    BY <1>1, <1>3 DEF Fits
  <2>6. q.intact => \A c \in ToSet(done.todo) : c.at_hand \/ LeadsTo(done, storage, c.address)
    BY <1>3, <1>5 DEF LeadsTo
  <2>7. QueryWalks(done, storage)
    BY <1>1, <1>3, <2>3, <2>4, <2>5, <2>6 DEF QueryWalks
  <2>8. QED
    BY <1>2, <1>9, <2>7
<1>10. ASSUME q.intact, ~stops PROVE i <= q.upto
  <2>1. ~(Len(q.seen) >= scan_count(q))
    BY <1>10 DEF stops
  <2>2. QED
    BY <1>1, <1>6, <1>10, <2>1 DEF scan_count
<1>11. CASE q.last # {} /\ ~stops /\ q.at \notin DOMAIN storage.data
  <2>1. ~q.intact
    BY <1>8, <1>10, <1>11
  <2>2. QueryWalks(failed, storage)
    BY <1>3, <2>1, FailWalks
  <2>3. QED
    BY <1>2, <1>11, <2>2
<1>12. CASE q.last # {} /\ ~stops /\ q.at \in DOMAIN storage.data
  <2>1. WalkFits(on) /\ SeekFits(on)
    BY <1>1, <1>4 DEF WalkFits, SeekFits
  <2>2. \A c \in ToSet(on.todo) : Fits(on, c)
    BY <1>1, <1>4 DEF Fits
  <2>3. q.intact => \A c \in ToSet(on.todo) : c.at_hand \/ LeadsTo(on, storage, c.address)
    BY <1>4, <1>5 DEF LeadsTo
  <2>4. ASSUME q.intact PROVE ScanFits(on, storage)
    <3>1. e \in entries_of(storage) /\ index_of(e) = i /\ i <= q.upto
      BY <1>8, <1>10, <1>12, <2>4
    <3>2. PICK m \in Nat : m = Len(q.seen)
      BY <1>6, <2>4
    <3> DEFINE S == ToSet(q.seen) \cup {item}
               o == m + 1
    <3>3. q.seen \in Seq(S) /\ item \in S
      BY <1>6, <2>4
    <3>4. /\ on.seen \in Seq(S) /\ Len(on.seen) = o /\ o \in Nat
          /\ \A k \in 1 .. o : on.seen[k] = IF k = o THEN item ELSE q.seen[k]
      <4> HIDE DEF S, item
      <4>1. QED
        BY <1>4, <3>2, <3>3, AppendProperties
    <3>5. on.seen \in Seq(ToSet(on.seen))
      BY <3>4, SeqElements
    <3>6. ASSUME NEW k \in 1 .. Len(on.seen)
          PROVE  \E x \in entries_of(storage) : /\ index_of(x) = (on.goal + k) - 1
                                                /\ on.seen[k] = <<index_of(x), x.enode.payload>>
      <4>1. CASE k = o
        <5>1. i = (on.goal + k) - 1
          BY <1>1, <1>4, <3>2, <4>1, SMTT(30)
        <5>2. on.seen[k] = item
          <6> HIDE DEF item, o, S
          <6>1. QED
            BY <3>4, <4>1
        <5> HIDE DEF i, e
        <5>3. QED
          BY <3>1, <5>1, <5>2
      <4>2. CASE k # o
        <5>1. k \in 1 .. Len(q.seen) /\ on.seen[k] = q.seen[k]
          BY <3>2, <3>4, <4>2
        <5>2. QED
          BY <1>4, <1>5, <2>4, <5>1 DEF Passed
      <4>3. QED
        BY <4>1, <4>2
    <3>7. Passed(on, storage)
      BY <3>5, <3>6 DEF Passed
    <3>8. Len(on.seen) <= (on.upto - on.goal) + 1 /\ on.goal + Len(on.seen) = i + 1
      BY <1>1, <1>4, <3>1, <3>2, <3>4
    <3>9. ASSUME i + 1 <= q.upto
          PROVE  \E x \in entries_of(storage) : index_of(x) = i + 1 /\ position_of(x) = on.at
      <4>1. /\ q.at \in DOMAIN storage.data /\ index_of(storage.data[q.at]) = i
            /\ i \in Nat
        BY <1>1, <1>12, <3>1, <3>2
      <4>2. i < n
        BY <1>1, <1>5, <2>4, <3>9, <4>1
      <4> HIDE DEF i
      <4>3. PICK p \in DOMAIN storage.data : /\ p = q.at + entry_size(storage.data[q.at])
                                             /\ index_of(storage.data[p]) = i + 1
        BY <4>1, <4>2 DEF Tree, StorageOK
      <4>4. position_of(storage.data[p]) = p
        BY DEF Tree, StorageOK
      <4>5. QED
        BY <1>4, <4>3, <4>4 DEF entries_of
    <3> HIDE DEF i, item, S, o
    <3>10. QED
      BY <1>4, <1>5, <2>4, <3>7, <3>8, <3>9 DEF ScanFits
  <2>5. QueryWalks(on, storage)
    BY <1>1, <1>4, <2>1, <2>2, <2>3, <2>4 DEF QueryWalks
  <2>6. QED
    BY <1>2, <1>12, <2>5
<1>13. CASE q.last = {}
  <2>1. /\ ended.cache = q.cache /\ ended.intact = q.intact /\ ended.op = "scan"
        /\ ended.goal = q.goal /\ ended.upto = q.upto /\ ended.seen = q.seen
        /\ ended.todo = q.todo /\ ended.status = "scanning" /\ ended.at = q.at
        /\ ended.last = {storage.end}
    BY <1>1 DEF ended, QueryOK, Closed
  <2>2. WalkFits(ended) /\ SeekFits(ended)
    BY <1>1, <2>1 DEF WalkFits, SeekFits
  <2>3. \A c \in ToSet(ended.todo) : Fits(ended, c)
    BY <1>1, <2>1 DEF Fits
  <2>4. q.intact => \A c \in ToSet(ended.todo) : c.at_hand \/ LeadsTo(ended, storage, c.address)
    BY <1>5, <2>1 DEF LeadsTo
  <2>5. storage.end \in Nat /\ \A x \in entries_of(storage) : position_of(x) < storage.end
    BY DEF Tree, StorageOK, entries_of
  <2>6. q.intact => ScanFits(ended, storage)
    <3>1. q.intact => Passed(ended, storage)
      BY <1>5, <2>1 DEF Passed
    <3>2. ended.last \in SUBSET Nat /\ \A end \in ended.last : end = storage.end
      BY <2>1, <2>5
    <3>3. QED
      BY <1>5, <2>1, <2>5, <3>1, <3>2 DEF ScanFits
  <2>7. QueryWalks(ended, storage)
    BY <1>1, <2>1, <2>2, <2>3, <2>4, <2>6 DEF QueryWalks
  <2>8. QED
    BY <1>2, <1>13, <2>7
<1>14. QED
  BY <1>9, <1>11, <1>12, <1>13

-----------------------------------------------------------------------------
(* Calls, and the snapshots they work on.                                  *)

\* All leaves lie below the topmost node of the latest entry.
LEMMA RootCovers ==
    ASSUME NEW e, ShapeOK(e)
    PROVE  LET top == AtHand(e, Len(e.inodes))
           IN  lowest(top) = 1 /\ highest(top) = index_of(e) /\ Len(e.inodes) \in Nat
<1> DEFINE n == index_of(e)
           s == inodes(n)
<1>1. n \in Index \ {0} /\ Len(e.inodes) = Len(s) /\ Len(s) \in Nat
  BY Revisions, InodeHeights DEF ShapeOK
<1>2. IF Len(s) = 0 THEN n = 1 ELSE first_leaf(s, Len(s)) = 1
  BY <1>1, InodesTile
<1>3. QED
  BY <1>1, <1>2, CallFields DEF lowest, highest

LEMMA CallWalks ==
    ASSUME NEW s, NEW n, NEW q, QueryOK(q, s, n), QueryWalks(q, s),
           NEW op \in {"get", "get_sample", "scan"}, NEW goal, NEW upto,
           op = "scan" => goal \in Nat \ {0} /\ upto \in Int /\ upto <= q.cache.revision
    PROVE  QueryWalks(Call(q, op, goal, upto), s)
<1> DEFINE x       == Call(q, op, goal, upto)
           e       == CHOOSE y \in last_entry(q.cache) : TRUE
           top     == AtHand(e, Len(e.inodes))
           started == [q EXCEPT !.op = op, !.goal = goal, !.upto = upto, !.leaf = {},
                                !.seen = IF op = "scan" THEN <<>> ELSE {},
                                !.todo = <<>>, !.at = 0, !.last = {}]
           rev     == q.cache.revision
           returns == \/ last_entry(q.cache) = {}
                      \/ op = "get" /\ out_of_range(q, goal)
                      \/ op = "scan" /\ goal > upto
<1>1. SnapshotOK(q.cache) /\ rev \in 0 .. MaxN /\ rev \in Nat
  BY Revisions DEF QueryWalks, SnapshotOK
<1>2. /\ DOMAIN started = DOMAIN q /\ started.intact = q.intact /\ started.todo = <<>>
      /\ started.cache = q.cache /\ started.leaf = {} /\ started.goal = goal
      /\ started.upto = upto /\ started.op = op /\ started.last = {}
      /\ op = "scan" => started.seen = <<>>
  BY DEF QueryOK, Closed
<1> HIDE DEF started
<1>3. out_of_range(started, goal) <=> goal \notin 1 .. rev
  BY <1>2 DEF out_of_range
<1>4. x = IF returns THEN [started EXCEPT !.status = "done"]
          ELSE [started EXCEPT !.status = "walking", !.todo = <<top>>]
  BY DEF Call, started, out_of_range
<1>5. rev > 0 => last_entry(q.cache) = {q.cache.entries[rev]}
                 /\ ShapeOK(q.cache.entries[rev]) /\ index_of(q.cache.entries[rev]) = rev
  BY <1>1 DEF SnapshotOK, last_entry, cache_entry
<1>6. rev = 0 /\ op = "scan" => goal > upto
  BY <1>1
<1>7. CASE returns
  <2>1. /\ x.intact = q.intact /\ x.todo = <<>> /\ x.cache = q.cache /\ x.leaf = {}
        /\ x.goal = goal /\ x.upto = upto /\ x.op = op /\ x.status = "done"
        /\ op = "scan" => x.seen = <<>>
    BY <1>2, <1>4, <1>7 DEF QueryOK, Closed
  <2>2. op # "scan" => goal \notin 1 .. rev \/ rev = 0
    BY <1>1, <1>5, <1>7 DEF out_of_range
  <2>3. op = "scan" => goal > upto
    BY <1>1, <1>5, <1>6, <1>7
  <2> HIDE DEF x
  <2>4. ToSet(x.todo) = {}
    BY <2>1, ShortElements
  <2>5. WalkFits(x)
    BY <2>1, <2>2 DEF WalkFits
  <2>6. SeekFits(x)
    BY <2>1 DEF SeekFits
  <2>7. ScanFits(x, s)
    BY <2>1, <2>3 DEF ScanFits
  <2>8. QED
    BY <1>1, <2>1, <2>4, <2>5, <2>6, <2>7 DEF QueryWalks, x
<1>8. CASE ~returns
  <2>1. /\ x.intact = q.intact /\ x.todo = <<top>> /\ x.cache = q.cache /\ x.leaf = {}
        /\ x.goal = goal /\ x.upto = upto /\ x.op = op /\ x.status = "walking"
        /\ x.last = {}
        /\ op = "scan" => x.seen = <<>>
    BY <1>2, <1>4, <1>8 DEF QueryOK, Closed
  <2>2. last_entry(q.cache) # {}
    BY <1>8
  <2>3. rev > 0
    <3>1. e \in last_entry(q.cache)
      BY <2>2
    <3>2. rev \in DOMAIN q.cache.entries
      BY <3>1 DEF last_entry, cache_entry
    <3>3. index_of(q.cache.entries[rev]) = rev /\ ShapeOK(q.cache.entries[rev])
      BY <1>1, <3>2 DEF SnapshotOK
    <3>4. rev \in 1 .. MaxN
      BY <3>3 DEF ShapeOK
    <3> HIDE DEF rev
    <3>5. QED
      BY <1>1, <3>4, Revisions
  <2>4. ShapeOK(e) /\ index_of(e) = rev
    BY <1>5, <2>3
  <2>5. op = "get" => goal \in 1 .. rev
    BY <1>8 DEF out_of_range
  <2>6. op = "scan" => goal <= upto
    BY <1>1, <1>8
  <2> HIDE DEF x, e, returns
  <2>7. ToSet(x.todo) = {top} /\ top.at_hand /\ top.entry = e /\ top.index = Len(e.inodes)
    BY <2>1, ShortElements, CallFields
  <2>8. lowest(top) = 1 /\ highest(top) = rev /\ Len(e.inodes) \in Nat
    BY <2>4, RootCovers
  <2> HIDE DEF top
  <2>9. Fits(x, top)
    BY <1>1, <2>1, <2>4, <2>7, <2>8 DEF Fits
  <2>10. goal \in 1 .. rev => Covers(top, goal)
    BY <2>8 DEF Covers
  <2>11. WalkFits(x)
    BY <2>1, <2>5, <2>7, <2>10 DEF WalkFits
  <2>12. SeekFits(x)
    <3>1. op = "scan" => goal <= highest(top)
      BY <1>1, <2>6, <2>8
    <3>2. QED
      BY <2>1, <2>6, <2>7, <3>1 DEF SeekFits
  <2>13. ScanFits(x, s)
    BY <2>1 DEF ScanFits
  <2>14. QED
    BY <1>1, <2>1, <2>7, <2>9, <2>11, <2>12, <2>13 DEF QueryWalks, x
<1>9. QED
  BY <1>7, <1>8

\* The bounds that scan works with.
LEMMA ScanBounds ==
    ASSUME NEW q, q.cache.revision \in Nat, NEW i0 \in Nat, NEW i1 \in Nat
    PROVE  /\ scan_first(q, i0, i1) \in Nat \ {0} /\ scan_last(q, i0, i1) \in Nat
           /\ scan_last(q, i0, i1) <= q.cache.revision
<1>1. \A a, b \in Nat : Min({a, b}) = (IF a <= b THEN a ELSE b) /\ Max({a, b}) = (IF a <= b THEN b ELSE a)
  <2> TAKE a, b \in Nat
  <2>1. Min({a, b}) \in {a, b} /\ \A y \in {a, b} : Min({a, b}) <= y
    <3>1. \E x \in {a, b} : \A y \in {a, b} : x <= y
      OBVIOUS
    <3>2. QED
      BY <3>1 DEF Min
  <2>2. Max({a, b}) \in {a, b} /\ \A y \in {a, b} : Max({a, b}) >= y
    <3>1. \E x \in {a, b} : \A y \in {a, b} : x >= y
      OBVIOUS
    <3>2. QED
      BY <3>1 DEF Max
  <2>3. QED
    BY <2>1, <2>2
<1>2. Min({i0, i1}) \in Nat /\ Max({i0, i1}) \in Nat
  BY <1>1
<1>3. scan_first(q, i0, i1) \in Nat \ {0}
  BY <1>1, <1>2, SMTT(30) DEF scan_first
<1>4. QED
  BY <1>1, <1>2, <1>3 DEF scan_last

\* A snapshot that has just been opened.
LEMMA OpenWalks ==
    ASSUME NEW s, NEW c, SnapshotOK(c)
    PROVE  QueryWalks(Open(c), s)
<1> DEFINE q == Open(c)
<1>1. /\ q.intact = TRUE /\ q.todo = <<>> /\ q.status = "open" /\ q.cache = c /\ q.leaf = {}
      /\ q.op = "get" /\ q.goal = 0
  BY DEF Open, Closed
<1> HIDE DEF q
<1>2. ToSet(q.todo) = {}
  BY <1>1, ShortElements
<1>3. WalkFits(q) /\ SeekFits(q) /\ ScanFits(q, s)
  BY <1>1 DEF WalkFits, SeekFits, ScanFits
<1>4. QED
  BY <1>1, <1>2, <1>3 DEF QueryWalks, q

LEMMA ClosedWalks == \A s : QueryWalks(Closed, s)
<1> TAKE s
<1>1. /\ Closed.intact = TRUE /\ Closed.todo = <<>> /\ Closed.status = "closed"
      /\ Closed.cache = empty(0) /\ Closed.leaf = {} /\ Closed.op = "get" /\ Closed.goal = 0
  BY DEF Closed
<1>2. ToSet(Closed.todo) = {}
  BY <1>1, ShortElements
<1>3. SnapshotOK(empty(0))
  BY Revisions DEF empty, CacheOf, SnapshotOK
<1>4. WalkFits(Closed) /\ SeekFits(Closed) /\ ScanFits(Closed, s)
  BY <1>1 DEF WalkFits, SeekFits, ScanFits
<1>5. QED
  BY <1>1, <1>2, <1>3, <1>4 DEF QueryWalks

\* A cache loaded from storage is that of a snapshot.
LEMMA LoadedSnapshot ==
    ASSUME NEW s, NEW n \in 0 .. MaxN, Tree(s, n), NEW e \in entries_of(s), NEW level \in Level
    PROVE  SnapshotOK(load(s, level, e))
<1> DEFINE c == load(s, level, e)
           X == {x \in entries_of(s) \cup {e} : x \in within_storage(s, e, level)}
<1>1. c.entries = by_index(X) /\ c.revision = index_of(e)
  BY DEF load, CacheOf
<1>2. X \subseteq entries_of(s)
  OBVIOUS
<1>3. e \in X
  BY HopsAreStored, SlateAssumption
<1> HIDE DEF c, X
<1>4. \A x, y \in X : index_of(x) = index_of(y) => x = y
  BY <1>2, StoredEntry
<1>5. /\ DOMAIN by_index(X) = {index_of(x) : x \in X}
      /\ \A x \in X : by_index(X)[index_of(x)] = x
  BY <1>4, ByIndex
<1>6. \A x \in X : ShapeOK(x) /\ index_of(x) \in 1 .. n
  BY <1>2, StoredShape
<1>7. index_of(e) \in 0 .. MaxN
  BY <1>3, <1>6, Revisions
<1>8. QED
  BY <1>1, <1>3, <1>5, <1>6, <1>7 DEF SnapshotOK, c

\* So is the cache of the writer.
LEMMA WriterSnapshot ==
    ASSUME WriterInv, TreeInv
    PROVE  SnapshotOK(cache)
<1> DEFINE n == cache.revision
<1>1. /\ n \in 0 .. MaxN /\ cache.level \in Level /\ Tree(storage, n)
      /\ cache = load_metadata(storage, cache.level)
  BY WriterTree
<1>2. CASE n = 0
  <2>1. storage_last(storage) = {}
    BY <1>1, <1>2, LastIsHighest DEF Tree
  <2>2. cache = empty(cache.level)
    BY <1>1, <2>1 DEF load_metadata
  <2>3. cache.entries = <<>>
    BY <2>2 DEF empty, CacheOf
  <2>4. QED
    BY <1>1, <1>2, <2>3, Revisions DEF SnapshotOK
<1>3. CASE n # 0
  <2>1. n \in 1 .. n
    BY <1>1, <1>3, Revisions
  <2>2. PICK p \in DOMAIN storage.data : index_of(storage.data[p]) = n
    BY <1>1, <2>1 DEF Tree, StorageOK
  <2>3. PICK e \in entries_of(storage) : index_of(e) = n
    BY <2>2 DEF entries_of
  <2>4. cache = load(storage, cache.level, e)
    BY <1>1, <2>3, LastOfTree
  <2>5. QED
    BY <1>1, <2>4, LoadedSnapshot
<1>4. QED
  BY <1>2, <1>3

-----------------------------------------------------------------------------
(* The walks next to the writer.                                           *)

\* The writer puts no entry into a past revision that it does not cut.
LEMMA KeptWas ==
    ASSUME WriterInv, SlateNext, NEW m \in Nat, m <= cache.revision, m <= cache'.revision,
           NEW e \in entries_of(storage'), index_of(e) <= m
    PROVE  e \in entries_of(storage)
<1>1. cache.revision \in Nat
  BY StorageAssumption DEF WriterInv, CacheOK
<1>2. ASSUME NEW v \in Value, AppendEntry(v) PROVE e \in entries_of(storage)
  <2>1. PICK x : /\ entries_of(storage') = entries_of(storage) \cup {x}
                 /\ index_of(x) = cache.revision + 1
    BY <1>2, AppendKeepsWriterInv
  <2>2. e # x
    BY <1>1, <2>1
  <2>3. QED
    BY <2>1, <2>2
<1>3. ASSUME NEW i \in 0 .. MaxN, Truncate(i) PROVE e \in entries_of(storage)
  BY <1>3, TruncateKeepsWriterInv
<1>4. ASSUME NEW level \in Level, Reopen(level) PROVE e \in entries_of(storage)
  BY <1>4, ReopenKeepsWriterInv
<1>5. QED
  BY <1>2, <1>3, <1>4 DEF SlateNext

\* A step of the writer leaves the walks on intact snapshots what they need.
LEMMA NoteCutWalks ==
    ASSUME WriterInv, SlateNext, NEW q, QueryOK(q, storage, revision), QueryWalks(q, storage)
    PROVE  QueryWalks([q EXCEPT !.intact = @ /\ q.cache.revision <= cache'.revision], storage')
<1> DEFINE z == [q EXCEPT !.intact = @ /\ q.cache.revision <= cache'.revision]
           m == q.cache.revision
<1>1. /\ z.cache = q.cache /\ z.op = q.op /\ z.goal = q.goal /\ z.upto = q.upto
      /\ z.todo = q.todo /\ z.leaf = q.leaf /\ z.seen = q.seen /\ z.status = q.status
      /\ z.at = q.at /\ z.last = q.last
      /\ z.intact = (q.intact /\ m <= cache'.revision)
  BY DEF QueryOK, Closed
<1> HIDE DEF z
<1>2. SnapshotOK(q.cache) /\ m \in Nat
  BY Revisions DEF QueryWalks, SnapshotOK
<1>3. WalkFits(z) /\ SeekFits(z) /\ \A c \in ToSet(z.todo) : Fits(z, c)
  BY <1>1 DEF QueryWalks, WalkFits, SeekFits, Fits
<1>4. ASSUME z.intact
      PROVE  /\ q.intact
             /\ \A e \in entries_of(storage) : index_of(e) <= m => e \in entries_of(storage')
             /\ \A e \in entries_of(storage') : index_of(e) <= m => e \in entries_of(storage)
  <2>1. q.intact /\ m <= cache'.revision
    BY <1>1, <1>4 DEF QueryOK
  <2>2. m <= cache.revision
    BY <2>1 DEF QueryOK, IntactOK, revision
  <2>3. cache'.revision \in Nat
    BY KeptStays
  <2>4. \A e \in entries_of(storage) : index_of(e) \in Nat
    BY StorageAssumption DEF WriterInv, StorageOK, entries_of, IsEntry
  <2>5. QED
    BY <1>2, <2>1, <2>2, <2>3, <2>4, KeptStays, KeptWas
<1>5. ASSUME z.intact, NEW a, LeadsTo(q, storage, a) PROVE LeadsTo(z, storage', a)
  BY <1>1, <1>4, <1>5 DEF LeadsTo
<1>6. ASSUME z.intact, q.op = "scan", q.goal <= q.upto,
             Passed(q, storage), Len(q.seen) <= (q.upto - q.goal) + 1
      PROVE  Passed(z, storage')
  <2>1. /\ q.goal \in Nat /\ q.upto \in Int /\ q.upto <= m
        /\ q.seen \in Seq(ToSet(q.seen)) /\ Len(q.seen) \in Nat
    BY <1>6 DEF QueryWalks, SeekFits, Passed
  <2>2. ASSUME NEW k \in 1 .. Len(q.seen)
        PROVE  \E e \in entries_of(storage') : /\ index_of(e) = (q.goal + k) - 1
                                               /\ q.seen[k] = <<index_of(e), e.enode.payload>>
    <3>1. PICK e \in entries_of(storage) : /\ index_of(e) = (q.goal + k) - 1
                                           /\ q.seen[k] = <<index_of(e), e.enode.payload>>
      BY <1>6 DEF Passed
    <3>2. (q.goal + k) - 1 <= m
      BY <1>2, <1>6, <2>1
    <3>3. QED
      BY <1>4, <1>6, <3>1, <3>2
  <2>3. QED
    BY <1>1, <2>1, <2>2 DEF Passed
<1>7. ASSUME z.intact PROVE ScanFits(z, storage')
  <2>1. ScanFits(q, storage)
    BY <1>4, <1>7 DEF QueryWalks
  <2>2. CASE q.op = "scan" /\ q.status = "scanning"
    <3>1. /\ Passed(q, storage) /\ Len(q.seen) <= (q.upto - q.goal) + 1 /\ q.last \in SUBSET Nat
          /\ \A end \in q.last : \A e \in entries_of(storage) :
                index_of(e) \in q.goal .. q.upto => position_of(e) < end
          /\ q.goal + Len(q.seen) <= q.upto =>
                \E e \in entries_of(storage) : /\ index_of(e) = q.goal + Len(q.seen)
                                               /\ position_of(e) = q.at
      BY <2>1, <2>2 DEF ScanFits
    <3>2. q.goal \in Nat /\ q.upto \in Int /\ q.upto <= m /\ q.goal <= q.upto
      BY <2>2 DEF QueryWalks, SeekFits
    <3>3. Passed(z, storage')
      BY <1>6, <1>7, <2>2, <3>1, <3>2
    <3>4. Len(q.seen) \in Nat
      BY <3>1 DEF Passed
    <3>5. \A end \in q.last : \A e \in entries_of(storage') :
             index_of(e) \in q.goal .. q.upto => position_of(e) < end
      <4>1. \A i \in q.goal .. q.upto : i <= m
        BY <1>2, <3>2
      <4>2. QED
        BY <1>4, <1>7, <3>1, <4>1
    <3>6. ASSUME q.goal + Len(q.seen) <= q.upto
          PROVE  \E e \in entries_of(storage') : /\ index_of(e) = q.goal + Len(q.seen)
                                                 /\ position_of(e) = q.at
      <4>1. q.goal + Len(q.seen) <= m
        BY <1>2, <3>2, <3>4, <3>6
      <4>2. QED
        BY <1>4, <1>7, <3>1, <3>6, <4>1
    <3>7. QED
      BY <1>1, <2>2, <3>1, <3>3, <3>5, <3>6 DEF ScanFits
  <2>3. CASE q.op = "scan" /\ q.status = "done"
    <3>1. CASE q.goal > q.upto
      BY <1>1, <2>1, <2>3, <3>1 DEF ScanFits
    <3>2. CASE ~(q.goal > q.upto)
      <4>1. Passed(q, storage) /\ Len(q.seen) = (q.upto - q.goal) + 1
        BY <2>1, <2>3, <3>2 DEF ScanFits
      <4>2. q.goal \in Nat /\ q.upto \in Int
        BY <2>3 DEF QueryWalks, SeekFits
      <4>3. Len(q.seen) <= (q.upto - q.goal) + 1 /\ q.goal <= q.upto
        BY <3>2, <4>1, <4>2
      <4>4. Passed(z, storage')
        BY <1>6, <1>7, <2>3, <4>1, <4>3
      <4>5. QED
        BY <1>1, <2>3, <3>2, <4>1, <4>4 DEF ScanFits
    <3>3. QED
      BY <3>1, <3>2
  <2>4. CASE ~(q.op = "scan" /\ q.status \in {"scanning", "done"})
    BY <1>1, <2>4 DEF ScanFits
  <2>5. QED
    BY <2>2, <2>3, <2>4
<1>8. ASSUME z.intact
      PROVE  /\ z.status # "failed" /\ ScanFits(z, storage')
             /\ \A c \in ToSet(z.todo) : c.at_hand \/ LeadsTo(z, storage', c.address)
  BY <1>1, <1>4, <1>5, <1>7, <1>8 DEF QueryWalks
<1>9. QueryWalks(z, storage')
  BY <1>1, <1>2, <1>3, <1>8 DEF QueryWalks
<1>10. QED
  BY <1>9 DEF z

LEMMA WalkInvInit == Init => WalkInv
BY ClosedWalks DEF Init, WalkInv

\* A step of query r that leaves the writer alone.
LEMMA OneQueryWalks ==
    ASSUME QueryInv, WalkInv, UNCHANGED slateVars, NEW r \in Reader, NEW q,
           query' = [query EXCEPT ![r] = q], QueryWalks(q, storage)
    PROVE  WalkInv'
BY DEF QueryInv, WalkInv, slateVars

LEMMA WalkInvStep == WriterInv /\ TreeInv /\ QueryInv /\ WalkInv /\ [Next]_vars => WalkInv'
<1> SUFFICES ASSUME WriterInv, TreeInv, QueryInv, WalkInv, [Next]_vars PROVE WalkInv'
  OBVIOUS
<1>1. /\ revision \in 0 .. MaxN /\ cache.level \in Level /\ Tree(storage, revision)
      /\ DOMAIN query = Reader
      /\ \A r \in Reader : QueryOK(query[r], storage, revision) /\ QueryWalks(query[r], storage)
  BY WriterTree DEF revision, QueryInv, WalkInv
<1>2. CASE Write
  <2>1. \A r \in Reader : QueryWalks([query[r] EXCEPT !.intact = @ /\ query[r].cache.revision
                                                                 <= cache'.revision], storage')
    BY <1>1, <1>2, NoteCutWalks DEF Write
  <2>2. QED
    BY <1>2, <2>1 DEF Write, NoteCuts, WalkInv
<1>3. ASSUME NEW r \in Reader, OpenQuery(r) PROVE WalkInv'
  <2>1. QueryWalks(Open(cache), storage)
    BY WriterSnapshot, OpenWalks
  <2>2. QED
    BY <1>3, <2>1, OneQueryWalks DEF OpenQuery
<1>4. ASSUME NEW r \in Reader, NEW rev \in 1 .. MaxN, OpenQueryAt(r, rev) PROVE WalkInv'
  <2>1. PICK e \in read_entry(storage, cache, rev) :
           query' = [query EXCEPT ![r] = Open(load(storage, cache.level, e))]
    BY <1>4 DEF OpenQueryAt
  <2>2. e \in entries_of(storage)
    BY DEF read_entry, WriterInv, CacheOK
  <2>3. QueryWalks(Open(load(storage, cache.level, e)), storage)
    BY <1>1, <2>2, LoadedSnapshot, OpenWalks
  <2>4. QED
    BY <1>4, <2>1, <2>3, OneQueryWalks DEF OpenQueryAt
<1>5. ASSUME NEW r \in Reader, Close(r) PROVE WalkInv'
  BY <1>5, ClosedWalks, OneQueryWalks DEF Close
<1>6. ASSUME NEW r \in Reader, NEW op \in Operation, NEW i0 \in 0 .. MaxN + 1, NEW i1 \in Nat,
             Start(r, op, i0, i1)
      PROVE  WalkInv'
  <2> DEFINE q == query[r]
             f == scan_first(q, i0, i1)
             l == scan_last(q, i0, i1)
  <2>1. op \in {"get", "get_sample", "scan"} /\ i0 \in Nat
    BY QueryAssumption, StorageAssumption
  <2>2. QueryOK(q, storage, revision) /\ QueryWalks(q, storage) /\ q.cache.revision \in Nat
    BY <1>1, Revisions DEF QueryWalks, SnapshotOK
  <2>3. query' = [query EXCEPT ![r] = IF op = "scan" THEN Call(q, op, f, l) ELSE Call(q, op, i0, i0)]
    BY <1>1, <1>6 DEF Start
  <2>4. f \in Nat \ {0} /\ l \in Nat /\ l <= q.cache.revision
    BY <2>1, <2>2, ScanBounds
  <2> HIDE DEF q, f, l
  <2>5. op = "scan" => QueryWalks(Call(q, op, f, l), storage)
    BY <2>1, <2>2, <2>4, CallWalks
  <2>6. op # "scan" => QueryWalks(Call(q, op, i0, i0), storage)
    BY <2>1, <2>2, CallWalks
  <2>7. QED
    BY <1>6, <2>3, <2>5, <2>6, OneQueryWalks DEF Start
<1>7. ASSUME NEW r \in Reader, Step(r) PROVE WalkInv'
  <2> DEFINE q == query[r]
             x == IF q.status = "scanning" THEN ScanStep(q)
                  ELSE IF q.op = "scan" THEN SeekStep(q) ELSE WalkStep(q)
  <2>1. /\ QueryOK(q, storage, revision) /\ QueryWalks(q, storage)
        /\ q.status \in {"walking", "scanning"}
    BY <1>1, <1>7 DEF Step, Running
  <2>2. q.op \in {"get", "get_sample", "scan"}
    BY <2>1 DEF QueryWalks
  <2>3. query' = [query EXCEPT ![r] = x] /\ UNCHANGED slateVars
    BY <1>1, <1>7 DEF Step
  <2> HIDE DEF q
  <2>4. QueryWalks(x, storage)
    BY <1>1, <2>1, <2>2, ScanStepWalks, SeekStepWalks, WalkStepWalks
  <2> HIDE DEF x
  <2>5. QED
    BY <2>3, <2>4, OneQueryWalks
<1>8. CASE UNCHANGED vars
  BY <1>8 DEF vars, WalkInv
<1>9. ASSUME NEW i0 \in 0 .. MaxN + 1, NEW op \in Operation,
             NEW i1 \in IF op = "scan" THEN 0 .. MaxN + 1 ELSE {i0}
      PROVE  i1 \in Nat
  BY StorageAssumption
<1>10. QED
  BY <1>2, <1>3, <1>4, <1>5, <1>6, <1>7, <1>8, <1>9 DEF Next

\* Every call of a query still has its goal before it, and every node it is to
\* visit exists in the tree, on intact and on cut snapshots (lib.rs:889-1075).
THEOREM WalkInvariant == Spec => [](WriterInv /\ TreeInv /\ QueryInv /\ WalkInv)
<1>1. Spec => []TreeInv
  <2>1. Spec => SlateSpec
    BY StepOfWriter, PTL DEF Spec, SlateSpec, Init
  <2>2. QED
    BY <2>1, TreeInvariant, PTL
<1>2. Spec => []WalkInv
  BY <1>1, WriterUnderQueries, QueriesKeepTheirEntries, WalkInvInit, WalkInvStep, PTL DEF Spec
<1>3. QED
  BY <1>1, <1>2, WriterUnderQueries, QueriesKeepTheirEntries, PTL

LEMMA InvNeverPanics == WalkInv => WalksNeverPanic
BY DEF WalkInv, QueryWalks, WalksNeverPanic

\* No walk meets the subtraction below height 0 (lib.rs:977), whatever entries a
\* truncation and later appends have put in the place of those it knew.
THEOREM WalksKeepTheWay == Spec => []WalksNeverPanic
<1>1. QED
  BY WalkInvariant, InvNeverPanics, PTL

LEMMA InvFoundOrFailed == WalkInv => FoundOrFailed
BY DEF WalkInv, QueryWalks, WalkFits, FoundOrFailed

\* A get or get_sample of an index of its snapshot that returns Ok returns a
\* value, though truncations may have cut the snapshot (lib.rs:902-1004).
THEOREM WalksFindOrFail == Spec => []FoundOrFailed
<1>1. QED
  BY WalkInvariant, InvFoundOrFailed, PTL

LEMMA InvIntactNeverFails == WalkInv => IntactNeverFails
BY DEF WalkInv, QueryWalks, IntactNeverFails

\* While no truncation cuts its snapshot, no call of a query returns an Err: each
\* address still leads to the node that it did (lib.rs:571-573, 1058-1075).
THEOREM IntactWalksSucceed == Spec => []IntactNeverFails
<1>1. QED
  BY WalkInvariant, InvIntactNeverFails, PTL

LEMMA InvGetReturnsValue == WriterInv /\ QueryInv /\ WalkInv => GetReturnsValue
<1> SUFFICES ASSUME WriterInv, QueryInv, WalkInv, NEW r \in Reader,
                    Finished(query[r], "get"), query[r].intact
             PROVE  query[r].leaf = IF query[r].goal \in 1 .. query[r].cache.revision
                                    THEN {Log[query[r].goal]} ELSE {}
  BY DEF GetReturnsValue
<1> DEFINE q == query[r]
<1>1. q.status = "done" /\ q.op = "get" /\ WalkFits(q)
  BY DEF Finished, WalkInv, QueryWalks
<1>2. CASE q.goal \in 1 .. q.cache.revision
  <2>1. q.leaf \subseteq {Log[q.goal]}
    BY <1>2, InvLeafIsLogged DEF LeafIsLogged
  <2>2. q.leaf # {}
    BY <1>1, <1>2 DEF WalkFits
  <2>3. QED
    BY <1>2, <2>1, <2>2
<1>3. CASE q.goal \notin 1 .. q.cache.revision
  BY <1>1, <1>3 DEF WalkFits
<1>4. QED
  BY <1>2, <1>3

\* A get on an intact snapshot returns the value of its index, and None outside
\* the snapshot only (lib.rs:957-982), whatever the writer does meanwhile.
THEOREM GetIsRight == Spec => []GetReturnsValue
<1>1. QED
  BY WalkInvariant, InvGetReturnsValue, PTL

LEMMA InvScanDelivers == WriterInv /\ QueryInv /\ WalkInv => ScanDeliversRange
<1> SUFFICES ASSUME WriterInv, QueryInv, WalkInv, NEW r \in Reader,
                    Finished(query[r], "scan"), query[r].intact
             PROVE  LET q == query[r]
                    IN  /\ q.seen # <<>> => 1 <= q.goal /\ q.upto <= q.cache.revision
                        /\ q.seen = [k \in 1 .. IF q.goal > q.upto THEN 0 ELSE q.upto - q.goal + 1 |->
                                        <<q.goal + k - 1, Log[q.goal + k - 1]>>]
  BY DEF ScanDeliversRange
<1> DEFINE q == query[r]
           count == IF q.goal > q.upto THEN 0 ELSE q.upto - q.goal + 1
<1>1. q.status = "done" /\ q.op = "scan" /\ SeekFits(q) /\ ScanFits(q, storage)
  BY DEF Finished, WalkInv, QueryWalks
<1>2. q.goal \in Nat \ {0} /\ q.upto \in Int /\ q.upto <= q.cache.revision
  BY <1>1 DEF SeekFits
<1>3. IF q.goal > q.upto THEN q.seen = <<>>
      ELSE Passed(q, storage) /\ Len(q.seen) = (q.upto - q.goal) + 1
  BY <1>1 DEF ScanFits
<1>4. \A e \in entries_of(storage) : Log[index_of(e)] = e.enode.payload
  BY LogType DEF WriterInv, CacheOK, Log, revision
<1> HIDE DEF q
<1>5. CASE q.goal > q.upto
  BY <1>2, <1>3, <1>5 DEF q
<1>6. CASE ~(q.goal > q.upto)
  <2>1. q.seen \in Seq(ToSet(q.seen)) /\ Len(q.seen) = count
    BY <1>3, <1>6 DEF Passed
  <2>2. q.seen = [k \in 1 .. count |-> q.seen[k]]
    <3> HIDE DEF count
    <3>1. QED
      BY <2>1
  <2>3. ASSUME NEW k \in 1 .. count
        PROVE  q.seen[k] = <<q.goal + k - 1, Log[q.goal + k - 1]>>
    <3>1. PICK e \in entries_of(storage) : /\ index_of(e) = (q.goal + k) - 1
                                           /\ q.seen[k] = <<index_of(e), e.enode.payload>>
      BY <1>3, <1>6, <2>1 DEF Passed
    <3>2. q.goal + k - 1 = (q.goal + k) - 1
      BY <1>2
    <3>3. QED
      BY <1>4, <3>1, <3>2
  <2> HIDE DEF count
  <2>4. q.seen = [k \in 1 .. count |-> <<q.goal + k - 1, Log[q.goal + k - 1]>>]
    BY <2>2, <2>3
  <2>5. QED
    BY <1>2, <2>4 DEF q, count
<1>7. QED
  BY <1>5, <1>6

\* A scan of an intact snapshot passes on the entries of its range, each once and
\* in order, without a check of any index but the first (lib.rs:1006-1027,
\* storage.rs:85-103), while the writer appends behind them.
THEOREM ScansDeliver == Spec => []ScanDeliversRange
<1>1. QED
  BY WalkInvariant, InvScanDelivers, PTL

LEMMA InvPastState == WriterInv /\ TreeInv /\ QueryInv /\ WalkInv => SnapshotIsPastState
<1> SUFFICES ASSUME WriterInv, TreeInv, QueryInv, WalkInv, NEW r \in Reader, query[r].intact,
                    NEW m \in cache_root(query[r].cache)
             PROVE  m.hash = TreeHash(SubSeq(Log, 1, query[r].cache.revision))
  BY DEF SnapshotIsPastState
<1> DEFINE c == query[r].cache
<1>1. SnapshotOK(c) /\ IntactOK(query[r], storage, revision)
  BY DEF WalkInv, QueryWalks, QueryInv, QueryOK
<1>2. PICK e \in last_entry(c) : m = entry_root(e)
  BY DEF cache_root
<1>3. c.revision \in DOMAIN c.entries /\ e = c.entries[c.revision] /\ e \in cached_entries(c)
  BY <1>2 DEF last_entry, cache_entry, cached_entries
<1>4. index_of(e) = c.revision /\ c.revision \in Nat
  BY <1>1, <1>3, Revisions DEF SnapshotOK
<1>5. e \in entries_of(storage)
  BY <1>1, <1>3, <1>4 DEF IntactOK, StillStored
<1>6. QED
  BY <1>2, <1>4, <1>5, TreeAuthenticates DEF RootsAuthenticateLog

\* The root hash of an intact snapshot, taken of the current revision or rebuilt
\* from storage for an earlier one, is the hash of the tree over the values that
\* the log had then (lib.rs:592-597).
THEOREM SnapshotsArePast == Spec => []SnapshotIsPastState
<1>1. QED
  BY WalkInvariant, InvPastState, PTL

-----------------------------------------------------------------------------
(* The sample that get_sample takes.                                       *)

\* The node a call is to visit, and those that the walk below it will collect.
node_of(call) ==
    IF call.at_hand THEN Addr(index_of(call.entry), node_meta(call.entry, call.index).address.j)
    ELSE Addr(call.address.i, call.address.j)
Ahead(call, goal) ==
    IF goal \in Over(node_of(call)) THEN branches_off(node_of(call), goal) ELSE {node_of(call)}
AllAhead(calls, goal) == UNION {Ahead(c, goal) : c \in calls}
NodesOf(seen) == {Addr(w.i, w.j) : w \in seen}

\* A node that get_sample has collected is one of a stored entry of the snapshot.
Collected(q, s, w) ==
    /\ w = Witness(w.i, w.j, w.hash) /\ w.i <= q.cache.revision
    /\ \E e \in entries_of(s) : index_of(e) = w.i /\ \E m \in entry_meta(e, w.j) : m.hash = w.hash

\* get_sample: what has been collected and what lies ahead are the nodes that
\* branch off the way to the goal.
SampleFits(q, s) ==
    q.op = "get_sample" =>
    /\ q.goal \notin 1 .. q.cache.revision => q.leaf = {}
    /\ q.status = "done" => ToSet(q.todo) = {}
    /\ q.goal \in 1 .. q.cache.revision /\ q.intact /\ q.status \in {"walking", "done"} =>
          /\ \A w \in q.seen : Collected(q, s, w)
          /\ NodesOf(q.seen) \cup AllAhead(ToSet(q.todo), q.goal)
               = branches_off(root_of(q.cache.revision), q.goal)

SampleInv == \A r \in Reader : SampleFits(query[r], storage)

\* The nodes that an entry names are those of the formulas.
LEMMA NodesOfEntry ==
    ASSUME NEW e, ShapeOK(e), NEW k \in 1 .. Len(e.inodes)
    PROVE  LET w == inodes(index_of(e))[k]
           IN  /\ index_of(e) \in Index \ {0} /\ k \in 1 .. Len(inodes(index_of(e)))
               /\ node_of(AtHand(e, k)) = w.node
               /\ node_of(ToRead(e.inodes[k].left)) = w.left
               /\ node_of(AtHand(e, k - 1)) = w.right
<1> DEFINE i == index_of(e)
           s == inodes(i)
           w == s[k]
<1>1. i \in Index \ {0} /\ Len(e.inodes) = Len(s) /\ k \in 1 .. Len(s) /\ Len(s) \in Nat
  BY Revisions, InodeHeights DEF ShapeOK
<1>2. /\ e.enode.meta.address.j = 0
      /\ \A m \in 1 .. Len(s) :
            /\ e.inodes[m].meta.address.j = s[m].node.j
            /\ e.inodes[m].left.i = s[m].left.i /\ e.inodes[m].left.j = s[m].left.j
  BY DEF ShapeOK
<1>3. /\ w.node = Addr(i, w.node.j) /\ w.left = Addr(w.left.i, w.left.j)
      /\ \A m \in 1 .. Len(s) : s[m].node = Addr(i, s[m].node.j)
  BY <1>1, InodeChildren
<1>4. w.right = IF k = 1 THEN Addr(i, 0) ELSE s[k - 1].node
  BY <1>1, InodesClimb
<1>5. \A m : /\ m # 0 => node_of(AtHand(e, m)) = Addr(i, e.inodes[m].meta.address.j)
             /\ node_of(AtHand(e, 0)) = Addr(i, 0)
  BY <1>2, CallFields DEF node_of, node_meta
<1>6. \A a : node_of(ToRead(a)) = Addr(a.i, a.j)
  BY CallFields DEF node_of
<1> HIDE DEF s, i
<1>7. node_of(AtHand(e, k)) = w.node
  <2>1. k # 0
    BY <1>1
  <2>2. QED
    BY <1>1, <1>2, <1>3, <1>5, <2>1
<1>8. node_of(ToRead(e.inodes[k].left)) = w.left
  BY <1>1, <1>2, <1>3, <1>6
<1>9. node_of(AtHand(e, k - 1)) = w.right
  <2>1. CASE k = 1
    BY <1>4, <1>5, <2>1
  <2>2. CASE k # 1
    <3>1. k - 1 \in 1 .. Len(s) /\ k - 1 # 0
      BY <1>1, <2>2
    <3>2. QED
      BY <1>2, <1>3, <1>4, <1>5, <2>2, <3>1
  <2>3. QED
    BY <2>1, <2>2
<1>10. QED
  BY <1>1, <1>7, <1>8, <1>9 DEF i, s

\* The node of entry e at index k has its own address.
LEMMA MetaOfNode ==
    ASSUME NEW e, ShapeOK(e), NEW k \in 0 .. Len(e.inodes)
    PROVE  LET a == node_meta(e, k).address
               x == node_of(AtHand(e, k))
           IN  /\ a.i = index_of(e) /\ x = Addr(a.i, a.j) /\ x.i = a.i /\ x.j = a.j
               /\ index_of(e) \in Index \ {0} /\ HasNode(index_of(e), a.j) /\ a.j \in Nat
               /\ node_meta(e, k) \in entry_meta(e, a.j)
               /\ k = 0 => a.j = 0
               /\ k # 0 => k \in 1 .. Len(e.inodes)
<1> DEFINE i == index_of(e)
           s == inodes(i)
<1>1. i \in Index \ {0} /\ Len(e.inodes) = Len(s) /\ Len(s) \in Nat /\ DOMAIN e.inodes = 1 .. Len(s)
  BY Revisions, InodeHeights DEF ShapeOK
<1>2. node_of(AtHand(e, k)) = Addr(i, node_meta(e, k).address.j)
  BY CallFields DEF node_of
<1>3. CASE k = 0
  <2>1. node_meta(e, k) = e.enode.meta /\ e.enode.meta.address.j = 0
    BY <1>3 DEF node_meta, ShapeOK
  <2>2. e.enode.meta.address.i = i
    BY DEF index_of
  <2>3. e.enode.meta \in entry_meta(e, 0)
    BY DEF entry_meta
  <2>4. QED
    BY <1>1, <1>2, <1>3, <2>1, <2>2, <2>3 DEF HasNode, Addr
<1>4. CASE k # 0
  <2>1. k \in 1 .. Len(s)
    BY <1>1, <1>4
  <2>2. /\ node_meta(e, k) = e.inodes[k].meta
        /\ e.inodes[k].meta.address.i = i /\ e.inodes[k].meta.address.j = s[k].node.j
    BY <1>4, <2>1 DEF node_meta, ShapeOK
  <2>3. s[k].node.j \in Nat \ {0} /\ HasNode(i, s[k].node.j)
    BY <1>1, <2>1, InodeHeights DEF HasNode
  <2>4. e.inodes[k].meta \in entry_meta(e, s[k].node.j)
    <3>1. e.inodes[k] \in ToSet(e.inodes)
      BY <1>1, <2>1 DEF ToSet
    <3>2. QED
      BY <2>2, <2>3, <3>1 DEF entry_meta, entry_inode
  <2> HIDE DEF s
  <2>5. QED
    BY <1>1, <1>2, <1>4, <2>1, <2>2, <2>3, <2>4 DEF Addr
<1>5. QED
  BY <1>3, <1>4

\* Below a node over the goal lie the branches of both its children, at another
\* node there is nothing more to visit.
LEMMA AheadBelow ==
    ASSUME NEW q, NEW e, ShapeOK(e), NEW k \in 0 .. Len(e.inodes), q.op = "get_sample",
           q.goal \in Nat
    PROVE  LET x     == node_of(AtHand(e, k))
               calls == ToSet(calls_below(q, e, k))
           IN  IF q.goal \in Over(x) THEN AllAhead(calls, q.goal) = branches_off(x, q.goal)
               ELSE calls = {}
<1> DEFINE i     == index_of(e)
           a     == node_meta(e, k).address
           x     == node_of(AtHand(e, k))
           calls == ToSet(calls_below(q, e, k))
           right == AtHand(e, k - 1)
           left  == ToRead(e.inodes[k].left)
           dir   == direction(q, a.i, a.j)
<1>1. /\ a.i = i /\ x = Addr(a.i, a.j) /\ x.i = a.i /\ x.j = a.j /\ i \in Index \ {0}
      /\ k # 0 => k \in 1 .. Len(e.inodes)
      /\ k = 0 => a.j = 0
  BY MetaOfNode
<1>2. CASE k = 0
  <2>1. calls = {}
    BY <1>2, ShortElements DEF calls_below
  <2>2. branches_off(x, q.goal) = {}
    BY <1>1, <1>2, NoBranches
  <2>3. AllAhead({}, q.goal) = {}
    BY DEF AllAhead
  <2>4. QED
    BY <2>1, <2>2, <2>3
<1>3. CASE k # 0 /\ q.goal \in Over(x)
  <2>1. q.goal \in Nat /\ contains(a.i, a.j, q.goal)
    BY <1>1, <1>3 DEF Over
  <2> DEFINE w == inodes(i)[k]
  <2>2. /\ k \in 1 .. Len(e.inodes) /\ k \in 1 .. Len(inodes(i))
        /\ x = w.node /\ node_of(left) = w.left /\ node_of(right) = w.right
    BY <1>1, <1>3, NodesOfEntry
  <2>3. a.j # 0
    BY <2>2, ShapeBelow DEF node_meta
  <2>4. dir = "Both"
    BY <2>1, <2>3 DEF direction
  <2>5. calls = {right, left}
    BY <1>3, <2>4, BelowAre
  <2>6. /\ Over(w.node) = Over(w.left) \cup Over(w.right)
        /\ Over(w.left) \cap Over(w.right) = {}
    BY <1>1, <2>2, OverInode
  <2>7. branches_off(w.node, q.goal) =
          IF contains(w.left.i, w.left.j, q.goal) THEN {w.right} \cup branches_off(w.left, q.goal)
          ELSE {w.left} \cup branches_off(w.right, q.goal)
    BY <1>1, <2>2, BranchesStep
  <2>8. contains(w.left.i, w.left.j, q.goal) <=> q.goal \in Over(w.left)
    BY <2>1 DEF Over
  <2> HIDE DEF w, calls, right, left, x
  <2>9. AllAhead({right, left}, q.goal) = Ahead(right, q.goal) \cup Ahead(left, q.goal)
    BY DEF AllAhead
  <2>10. q.goal \in Over(w.node)
    BY <1>3, <2>2
  <2>11. CASE q.goal \in Over(w.left)
    <3>1. q.goal \notin Over(w.right)
      BY <2>6, <2>11
    <3>2. Ahead(left, q.goal) = branches_off(w.left, q.goal) /\ Ahead(right, q.goal) = {w.right}
      BY <2>2, <2>11, <3>1 DEF Ahead
    <3>3. branches_off(x, q.goal) = {w.right} \cup branches_off(w.left, q.goal)
      BY <2>2, <2>7, <2>8, <2>11
    <3>4. QED
      BY <2>5, <2>9, <3>2, <3>3, <1>3 DEF x, calls
  <2>12. CASE q.goal \notin Over(w.left)
    <3>1. q.goal \in Over(w.right)
      BY <2>6, <2>10, <2>12
    <3>2. Ahead(right, q.goal) = branches_off(w.right, q.goal) /\ Ahead(left, q.goal) = {w.left}
      BY <2>2, <2>12, <3>1 DEF Ahead
    <3>3. branches_off(x, q.goal) = {w.left} \cup branches_off(w.right, q.goal)
      BY <2>2, <2>7, <2>8, <2>12
    <3>4. QED
      BY <2>5, <2>9, <3>2, <3>3, <1>3 DEF x, calls
  <2>13. QED
    BY <2>11, <2>12
<1>4. CASE k # 0 /\ q.goal \notin Over(x)
  <2>1. ~contains(a.i, a.j, q.goal)
    BY <1>1, <1>4 DEF Over
  <2>2. dir = "Terminate"
    BY <2>1 DEF direction
  <2>3. calls = {}
    BY <1>4, <2>2, BelowAre
  <2>4. QED
    BY <1>4, <2>3
<1>5. QED
  BY <1>2, <1>3, <1>4

\* What a visit of get_sample leaves, besides the fields of VisitFields: it
\* collects the node when the goal is not below it.
LEMMA VisitCollects ==
    ASSUME NEW s, NEW n, NEW q, QueryOK(q, s, n), q.todo # <<>>, q.op = "get_sample",
           NEW e, ShapeOK(e), NEW k \in 0 .. Len(e.inodes), q.goal \in Nat
    PROVE  LET m == node_meta(e, k)
               x == node_of(AtHand(e, k))
               w == Witness(m.address.i, m.address.j, m.hash)
           IN  /\ q.goal \in Over(x) => Visit(q, e, k).seen = q.seen
               /\ q.goal \notin Over(x) => Visit(q, e, k).seen = q.seen \cup {w}
<1> DEFINE m    == node_meta(e, k)
           a    == m.address
           x    == node_of(AtHand(e, k))
           w    == Witness(a.i, a.j, m.hash)
           todo == calls_below(q, e, k) \o Tail(q.todo)
           z    == noted(q, e, k)
           y    == [z EXCEPT !.todo = todo, !.status = IF todo = <<>> THEN "done" ELSE "walking"]
<1>1. Visit(q, e, k) = y
  BY DEF Visit
<1>2. /\ a.i = index_of(e) /\ x.i = a.i /\ x.j = a.j /\ index_of(e) \in Index \ {0}
      /\ k = 0 => x = Addr(index_of(e), 0)
  BY MetaOfNode
<1>3. contains(a.i, a.j, q.goal) <=> q.goal \in Over(x)
  BY <1>2 DEF Over
<1>4. at_goal(q, e, k) => q.goal \in Over(x)
  <2>1. at_goal(q, e, k) => x = Addr(q.goal, 0) /\ q.goal \in Index \ {0}
    BY <1>2 DEF at_goal
  <2>2. at_goal(q, e, k) => Over(x) = {q.goal}
    BY <2>1, OverLeaf
  <2>3. QED
    BY <2>2
<1> HIDE DEF m, x, w, todo
<1>5. /\ DOMAIN z = DOMAIN q
      /\ z.seen = IF q.goal \in Over(x) THEN q.seen ELSE q.seen \cup {w}
  <2>1. z = IF at_goal(q, e, k) THEN [q EXCEPT !.leaf = {e.enode.payload}]
            ELSE IF q.op = "get_sample" /\ ~contains(a.i, a.j, q.goal)
            THEN [q EXCEPT !.seen = @ \cup {w}] ELSE q
    BY DEF noted, m, w
  <2> HIDE DEF z
  <2>2. QED
    BY <2>1, <1>3, <1>4 DEF QueryOK, Closed
<1> HIDE DEF z
<1>6. y.seen = z.seen
  BY <1>5 DEF QueryOK, Closed
<1>7. QED
  BY <1>1, <1>5, <1>6 DEF m, x, w

\* The visit of the next node keeps to the branches of the way.
LEMMA VisitSample ==
    ASSUME NEW s, NEW n, NEW q, QueryOK(q, s, n), QueryWalks(q, s), SampleFits(q, s),
           q.status = "walking", q.op = "get_sample",
           NEW e, ShapeOK(e), index_of(e) <= q.cache.revision, q.intact => e \in entries_of(s),
           NEW k \in 0 .. Len(e.inodes), node_of(AtHand(e, k)) = node_of(Head(q.todo))
    PROVE  SampleFits(Visit(q, e, k), s)
<1> DEFINE y     == Visit(q, e, k)
           call  == Head(q.todo)
           calls == ToSet(calls_below(q, e, k))
           rest  == ToSet(Tail(q.todo))
           m     == node_meta(e, k)
           a     == m.address
           x     == node_of(call)
           w     == Witness(a.i, a.j, m.hash)
<1>1. q.todo # <<>> /\ ToSet(q.todo) = {call} \cup rest
  BY HeadOrTail DEF QueryOK
<1>2. /\ a.i = index_of(e) /\ x = Addr(a.i, a.j)
      /\ index_of(e) \in Index \ {0} /\ m \in entry_meta(e, a.j)
  BY MetaOfNode
<1>3. q.cache.revision \in Nat /\ index_of(e) \in Nat \ {0}
  BY <1>2, Revisions, IndexIsNat DEF QueryWalks, SnapshotOK
<1>4. /\ y.cache = q.cache /\ y.intact = q.intact /\ y.op = q.op /\ y.goal = q.goal
      /\ ToSet(y.todo) = calls \cup rest /\ (y.status = "done" => ToSet(y.todo) = {})
      /\ y.leaf = IF k = 0 /\ index_of(e) = q.goal THEN {e.enode.payload} ELSE q.leaf
  <2>1. ~(q.op = "get" /\ k = 0 /\ index_of(e) # q.goal)
    OBVIOUS
  <2>2. QED
    BY <1>1, <2>1, VisitFields, ZenonT(60)
<1> HIDE DEF y
<1>5. ASSUME q.goal \notin 1 .. q.cache.revision PROVE y.leaf = {}
  <2>1. index_of(e) # q.goal
    BY <1>3, <1>5
  <2>2. QED
    BY <1>4, <1>5, <2>1 DEF SampleFits
<1>6. ASSUME q.goal \in 1 .. q.cache.revision, q.intact
      PROVE  /\ \A v \in y.seen : Collected(y, s, v)
             /\ NodesOf(y.seen) \cup AllAhead(ToSet(y.todo), q.goal)
                  = branches_off(root_of(q.cache.revision), q.goal)
  <2>1. /\ \A v \in q.seen : Collected(q, s, v)
        /\ NodesOf(q.seen) \cup AllAhead(ToSet(q.todo), q.goal)
             = branches_off(root_of(q.cache.revision), q.goal)
    BY <1>6 DEF SampleFits
  <2>2. q.goal \in Nat
    BY <1>3, <1>6
  <2>3. y.seen = IF q.goal \in Over(x) THEN q.seen ELSE q.seen \cup {w}
    <3>1. /\ q.goal \in Over(node_of(AtHand(e, k))) => y.seen = q.seen
          /\ q.goal \notin Over(node_of(AtHand(e, k))) => y.seen = q.seen \cup {w}
      BY <1>1, <2>2, VisitCollects DEF y
    <3>2. QED
      BY <3>1
  <2>4. Collected(q, s, w)
    <3>1. w.i = a.i /\ w.j = a.j /\ w.hash = m.hash
      BY DEF Witness
    <3> HIDE DEF w, m
    <3>2. w = Witness(w.i, w.j, w.hash)
      BY <3>1 DEF w
    <3>3. QED
      BY <1>2, <1>6, <3>1, <3>2 DEF Collected
  <2>5. Addr(w.i, w.j) = x
    BY <1>2 DEF Witness
  <2>6. IF q.goal \in Over(x) THEN AllAhead(calls, q.goal) = branches_off(x, q.goal) ELSE calls = {}
    BY <2>2, AheadBelow
  <2> HIDE DEF w, calls, rest, x, call
  <2>7. \A v \in y.seen : Collected(y, s, v)
    BY <1>4, <2>1, <2>3, <2>4 DEF Collected
  <2>8. /\ AllAhead(ToSet(q.todo), q.goal) = Ahead(call, q.goal) \cup AllAhead(rest, q.goal)
        /\ AllAhead(ToSet(y.todo), q.goal) = AllAhead(calls, q.goal) \cup AllAhead(rest, q.goal)
        /\ AllAhead({}, q.goal) = {}
    BY <1>1, <1>4 DEF AllAhead
  <2>9. Ahead(call, q.goal) = IF q.goal \in Over(x) THEN branches_off(x, q.goal) ELSE {x}
    BY DEF Ahead, x
  <2>10. NodesOf(q.seen \cup {w}) = NodesOf(q.seen) \cup {x}
    BY <2>5 DEF NodesOf
  <2>11. CASE q.goal \in Over(x)
    BY <2>1, <2>3, <2>6, <2>7, <2>8, <2>9, <2>11
  <2>12. CASE q.goal \notin Over(x)
    BY <2>1, <2>3, <2>6, <2>7, <2>8, <2>9, <2>10, <2>12
  <2>13. QED
    BY <2>11, <2>12
<1>7. QED
  BY <1>4, <1>5, <1>6 DEF SampleFits, y

\* The node that a walk finds is the one that the call names.
LEMMA NextIsNode ==
    ASSUME NEW n \in 0 .. MaxN, Tree(storage, n), NEW q, QueryOK(q, storage, n),
           QueryWalks(q, storage), q.status = "walking", NEW node \in next_nodes(q)
    PROVE  node_of(AtHand(node[1], node[2])) = node_of(Head(q.todo))
<1> DEFINE call == Head(q.todo)
           a    == call.address
           e    == node[1]
           k    == node[2]
<1>1. SnapshotOK(q.cache) /\ ShapeOK(e) /\ k \in 0 .. Len(e.inodes)
  BY NextNode DEF QueryWalks
<1>2. node_of(AtHand(e, k)) = Addr(index_of(e), node_meta(e, k).address.j)
  BY CallFields DEF node_of
<1> HIDE DEF call
<1>3. CASE call.at_hand
  <2>1. next_nodes(q) = {<<call.entry, call.index>>}
    BY <1>3 DEF next_nodes, call
  <2>2. e = call.entry /\ k = call.index
    BY <2>1
  <2>3. QED
    BY <1>2, <1>3, <2>2 DEF node_of, call
<1>4. CASE ~call.at_hand
  <2>1. next_nodes(q) = UNION {{<<d, m>> : m \in node_indices(d, a.j)} : d \in fetch(q, a)}
    BY <1>4 DEF next_nodes, call
  <2>2. PICK d \in fetch(q, a) : \E m \in node_indices(d, a.j) : node = <<d, m>>
    BY <2>1
  <2>3. e = d /\ k \in node_indices(e, a.j)
    BY <2>2
  <2>4. index_of(e) = a.i
    BY <1>1, <2>3, FetchShape
  <2>5. node_meta(e, k).address.j = a.j
    <3>1. CASE a.j = 0
      <4>1. k = 0 /\ e.enode.meta.address.j = 0
        BY <1>1, <2>3, <3>1 DEF node_indices, ShapeOK
      <4>2. QED
        BY <3>1, <4>1 DEF node_meta
    <3>2. CASE a.j # 0
      <4>1. k \in 1 .. Len(e.inodes) /\ e.inodes[k].meta.address.j = a.j
        BY <2>3, <3>2 DEF node_indices
      <4>2. Len(e.inodes) \in Nat
        BY <1>1, RootCovers
      <4>3. k # 0
        BY <4>1, <4>2
      <4>4. QED
        BY <4>1, <4>3 DEF node_meta
    <3>3. QED
      BY <3>1, <3>2
  <2>6. node_of(call) = Addr(a.i, a.j)
    BY <1>4 DEF node_of
  <2>7. QED
    BY <1>2, <2>4, <2>5, <2>6 DEF call
<1>5. QED
  BY <1>3, <1>4

\* A query that is not taking a sample, or that has failed.
LEMMA OtherSample ==
    ASSUME NEW s, NEW q, q.op # "get_sample"
    PROVE  SampleFits(q, s)
BY DEF SampleFits

LEMMA WalkStepSample ==
    ASSUME NEW n \in 0 .. MaxN, Tree(storage, n), NEW q, QueryOK(q, storage, n),
           QueryWalks(q, storage), SampleFits(q, storage), q.status = "walking", q.op = "get_sample"
    PROVE  SampleFits(WalkStep(q), storage)
<1>1. CASE next_nodes(q) = {}
  <2> DEFINE z == [q EXCEPT !.status = "failed", !.todo = <<>>]
  <2>1. /\ z.cache = q.cache /\ z.op = q.op /\ z.goal = q.goal
        /\ z.leaf = q.leaf /\ z.status = "failed"
    BY DEF QueryOK, Closed
  <2>2. WalkStep(q) = z
    BY <1>1 DEF WalkStep
  <2> HIDE DEF z
  <2>3. SampleFits(z, storage)
    BY <2>1 DEF SampleFits
  <2>4. QED
    BY <2>2, <2>3
<1>2. CASE next_nodes(q) # {}
  <2> DEFINE node == CHOOSE x \in next_nodes(q) : TRUE
             e    == node[1]
             k    == node[2]
  <2>1. node \in next_nodes(q) /\ WalkStep(q) = Visit(q, e, k)
    BY <1>2 DEF WalkStep
  <2> HIDE DEF node
  <2>2. /\ ShapeOK(e) /\ index_of(e) <= q.cache.revision
        /\ q.intact => e \in entries_of(storage)
        /\ k \in 0 .. Len(e.inodes)
    BY <2>1, NextNode
  <2>3. node_of(AtHand(e, k)) = node_of(Head(q.todo))
    BY <2>1, NextIsNode
  <2> HIDE DEF e, k
  <2>4. SampleFits(Visit(q, e, k), storage)
    BY <2>2, <2>3, VisitSample
  <2>5. QED
    BY <2>1, <2>4
<1>3. QED
  BY <1>1, <1>2

\* The walk of get_sample starts at the root of its generation.
LEMMA CallSample ==
    ASSUME NEW s, NEW n, NEW q, QueryOK(q, s, n), QueryWalks(q, s), NEW goal, NEW upto
    PROVE  SampleFits(Call(q, "get_sample", goal, upto), s)
<1> DEFINE x       == Call(q, "get_sample", goal, upto)
           e       == CHOOSE y \in last_entry(q.cache) : TRUE
           top     == AtHand(e, Len(e.inodes))
           started == [q EXCEPT !.op = "get_sample", !.goal = goal, !.upto = upto, !.leaf = {},
                                !.seen = {}, !.todo = <<>>, !.at = 0, !.last = {}]
           rev     == q.cache.revision
<1>1. SnapshotOK(q.cache) /\ rev \in 0 .. MaxN /\ rev \in Nat
  BY Revisions DEF QueryWalks, SnapshotOK
<1>2. /\ DOMAIN started = DOMAIN q /\ started.cache = q.cache /\ started.leaf = {}
      /\ started.goal = goal /\ started.seen = {} /\ started.op = "get_sample"
      /\ started.todo = <<>>
  BY DEF QueryOK, Closed
<1> HIDE DEF started
<1>3. x = IF last_entry(q.cache) = {} THEN [started EXCEPT !.status = "done"]
          ELSE [started EXCEPT !.status = "walking", !.todo = <<top>>]
  BY DEF Call, started
<1>4. rev > 0 => last_entry(q.cache) = {q.cache.entries[rev]}
                 /\ ShapeOK(q.cache.entries[rev]) /\ index_of(q.cache.entries[rev]) = rev
  BY <1>1 DEF SnapshotOK, last_entry, cache_entry
<1> HIDE DEF top
<1>5. /\ x.cache = q.cache /\ x.leaf = {} /\ x.goal = goal /\ x.seen = {} /\ x.op = "get_sample"
      /\ last_entry(q.cache) # {} => x.todo = <<top>> /\ x.status = "walking"
      /\ last_entry(q.cache) = {} => x.todo = <<>>
  BY <1>2, <1>3 DEF QueryOK, Closed
<1> HIDE DEF x
<1>6. ASSUME goal \in 1 .. rev
      PROVE  NodesOf(x.seen) \cup AllAhead(ToSet(x.todo), goal) = branches_off(root_of(rev), goal)
  <2>1. rev > 0 /\ rev \in Index \ {0}
    BY <1>1, <1>6, Revisions
  <2>2. e = q.cache.entries[rev] /\ ShapeOK(e) /\ index_of(e) = rev /\ x.todo = <<top>>
    BY <1>4, <1>5, <2>1
  <2> HIDE DEF e
  <2>3. ToSet(x.todo) = {top}
    BY <2>2, ShortElements
  <2>4. node_of(top) = root_of(rev)
    <3> DEFINE l == inodes(rev)
    <3>1. /\ Len(e.inodes) = Len(l) /\ Len(l) \in Nat
          /\ root_of(rev) = IF Len(l) = 0 THEN Addr(rev, 0) ELSE l[Len(l)].node
      BY <2>1, <2>2, InodeHeights, FormulasFitInodes DEF ShapeOK
    <3>2. CASE Len(l) = 0
      <4>1. node_of(AtHand(e, 0)) = Addr(rev, 0)
        <5>1. e.enode.meta.address.j = 0
          BY <2>2 DEF ShapeOK
        <5>2. AtHand(e, 0).at_hand /\ AtHand(e, 0).entry = e /\ AtHand(e, 0).index = 0
          BY CallFields
        <5>3. node_meta(e, 0).address.j = 0
          BY <5>1 DEF node_meta
        <5>4. QED
          BY <2>2, <5>2, <5>3 DEF node_of
      <4>2. QED
        BY <3>1, <3>2, <4>1 DEF top
    <3>3. CASE Len(l) # 0
      <4>1. Len(e.inodes) \in 1 .. Len(e.inodes)
        BY <3>1, <3>3
      <4>2. node_of(top) = l[Len(l)].node
        BY <2>2, <3>1, <4>1, NodesOfEntry DEF top
      <4>3. QED
        BY <3>1, <3>3, <4>2
    <3>4. QED
      BY <3>2, <3>3
  <2>5. goal \in Over(root_of(rev))
    BY <1>6, <2>1, RootNode
  <2>6. AllAhead({top}, goal) = Ahead(top, goal) /\ NodesOf({}) = {}
    BY DEF AllAhead, NodesOf
  <2>7. Ahead(top, goal) = branches_off(root_of(rev), goal)
    BY <2>4, <2>5 DEF Ahead
  <2>8. QED
    BY <1>5, <2>3, <2>6, <2>7
<1>7. x.status = "done" => ToSet(x.todo) = {}
  BY <1>5, ShortElements
<1>8. QED
  BY <1>5, <1>6, <1>7 DEF SampleFits, x

\* A step of the writer leaves what a sample has collected, or notes the cut.
LEMMA NoteCutSample ==
    ASSUME WriterInv, SlateNext, NEW q, QueryOK(q, storage, revision), QueryWalks(q, storage),
           SampleFits(q, storage)
    PROVE  SampleFits([q EXCEPT !.intact = @ /\ q.cache.revision <= cache'.revision], storage')
<1> DEFINE z == [q EXCEPT !.intact = @ /\ q.cache.revision <= cache'.revision]
           m == q.cache.revision
<1>1. /\ z.cache = q.cache /\ z.op = q.op /\ z.goal = q.goal /\ z.todo = q.todo /\ z.leaf = q.leaf
      /\ z.seen = q.seen /\ z.status = q.status
      /\ z.intact = (q.intact /\ m <= cache'.revision)
  BY DEF QueryOK, Closed
<1> HIDE DEF z
<1>2. z.intact => q.intact /\ m <= cache'.revision
  BY <1>1 DEF QueryOK
<1>3. m \in Nat /\ cache'.revision \in Nat
  BY Revisions, KeptStays DEF QueryWalks, SnapshotOK
<1>4. \A e \in entries_of(storage) : index_of(e) \in Nat
  BY StorageAssumption DEF WriterInv, StorageOK, entries_of, IsEntry
<1>5. ASSUME z.intact, NEW w, Collected(q, storage, w) PROVE Collected(z, storage', w)
  <2>1. PICK e \in entries_of(storage) : index_of(e) = w.i /\ \E x \in entry_meta(e, w.j) : x.hash = w.hash
    BY <1>5 DEF Collected
  <2>2. index_of(e) <= cache'.revision
    BY <1>2, <1>3, <1>4, <1>5, <2>1 DEF Collected
  <2>3. e \in entries_of(storage')
    BY <2>2, KeptStays
  <2>4. QED
    BY <1>1, <1>5, <2>1, <2>3 DEF Collected
<1>6. SampleFits(z, storage')
  BY <1>1, <1>2, <1>5 DEF SampleFits
<1>7. QED
  BY <1>6 DEF z

LEMMA SampleInvInit == Init => SampleInv
BY DEF Init, SampleInv, SampleFits, Closed

\* A step of query r that leaves the writer alone.
LEMMA OneQuerySamples ==
    ASSUME DOMAIN query = Reader, SampleInv, UNCHANGED slateVars, NEW r \in Reader, NEW q,
           query' = [query EXCEPT ![r] = q], SampleFits(q, storage)
    PROVE  SampleInv'
BY DEF SampleInv, slateVars

LEMMA SampleInvStep ==
    WriterInv /\ TreeInv /\ QueryInv /\ WalkInv /\ SampleInv /\ [Next]_vars => SampleInv'
<1> SUFFICES ASSUME WriterInv, TreeInv, QueryInv, WalkInv, SampleInv, [Next]_vars PROVE SampleInv'
  OBVIOUS
<1>1. /\ revision \in 0 .. MaxN /\ Tree(storage, revision) /\ DOMAIN query = Reader
      /\ \A r \in Reader : /\ QueryOK(query[r], storage, revision)
                           /\ QueryWalks(query[r], storage) /\ SampleFits(query[r], storage)
  BY WriterTree DEF revision, QueryInv, WalkInv, SampleInv
<1>2. CASE Write
  <2>1. \A r \in Reader : SampleFits([query[r] EXCEPT !.intact = @ /\ query[r].cache.revision
                                                                 <= cache'.revision], storage')
    BY <1>1, <1>2, NoteCutSample DEF Write
  <2>2. QED
    BY <1>2, <2>1 DEF Write, NoteCuts, SampleInv
<1>3. \A c : Open(c).op = "get" /\ Closed.op = "get"
  BY DEF Open, Closed
<1>4. ASSUME NEW r \in Reader, NEW c, query' = [query EXCEPT ![r] = Open(c)], UNCHANGED slateVars
      PROVE  SampleInv'
  BY <1>1, <1>3, <1>4, OtherSample, OneQuerySamples
<1>5. ASSUME NEW r \in Reader, OpenQuery(r) PROVE SampleInv'
  BY <1>4, <1>5 DEF OpenQuery
<1>6. ASSUME NEW r \in Reader, NEW rev \in 1 .. MaxN, OpenQueryAt(r, rev) PROVE SampleInv'
  BY <1>4, <1>6 DEF OpenQueryAt
<1>7. ASSUME NEW r \in Reader, Close(r) PROVE SampleInv'
  BY <1>1, <1>3, <1>7, OtherSample, OneQuerySamples DEF Close
<1>8. ASSUME NEW r \in Reader, NEW op, NEW i0, NEW i1, Start(r, op, i0, i1) PROVE SampleInv'
  <2> DEFINE q == query[r]
             x == IF op = "scan" THEN Call(q, op, scan_first(q, i0, i1), scan_last(q, i0, i1))
                  ELSE Call(q, op, i0, i0)
  <2>1. query' = [query EXCEPT ![r] = x] /\ UNCHANGED slateVars
    BY <1>1, <1>8 DEF Start
  <2>2. CASE op = "get_sample"
    <3>1. QueryOK(q, storage, revision) /\ QueryWalks(q, storage)
      BY <1>1
    <3> HIDE DEF q
    <3>2. SampleFits(x, storage)
      BY <2>2, <3>1, CallSample
    <3>3. QED
      BY <1>1, <2>1, <3>2, OneQuerySamples
  <2>3. CASE op # "get_sample"
    <3>1. \A goal, upto : Call(q, op, goal, upto).op = op
      BY <1>1 DEF Call, QueryOK, Closed
    <3> HIDE DEF q
    <3>2. x.op = op
      BY <3>1
    <3> HIDE DEF x
    <3>3. SampleFits(x, storage)
      BY <2>3, <3>2, OtherSample
    <3>4. QED
      BY <1>1, <2>1, <3>3, OneQuerySamples
  <2>4. QED
    BY <2>2, <2>3
<1>9. ASSUME NEW r \in Reader, Step(r) PROVE SampleInv'
  <2> DEFINE q == query[r]
             x == IF q.status = "scanning" THEN ScanStep(q)
                  ELSE IF q.op = "scan" THEN SeekStep(q) ELSE WalkStep(q)
  <2>1. /\ QueryOK(q, storage, revision) /\ QueryWalks(q, storage) /\ SampleFits(q, storage)
        /\ q.status \in {"walking", "scanning"}
    BY <1>1, <1>9 DEF Step, Running
  <2>2. query' = [query EXCEPT ![r] = x] /\ UNCHANGED slateVars
    BY <1>1, <1>9 DEF Step
  <2> HIDE DEF q
  <2>3. CASE q.op = "get_sample"
    <3>1. q.status = "walking"
      BY <2>1, <2>3 DEF QueryWalks
    <3>2. SampleFits(WalkStep(q), storage)
      BY <1>1, <2>1, <2>3, <3>1, WalkStepSample
    <3>3. x = WalkStep(q)
      BY <2>3, <3>1
    <3> HIDE DEF x
    <3>4. QED
      BY <1>1, <2>2, <3>2, <3>3, OneQuerySamples
  <2>4. CASE q.op # "get_sample"
    <3>1. ScanStep(q).op = q.op
      BY <2>1 DEF ScanStep, QueryOK, Closed
    <3>2. SeekStep(q).op = q.op
      BY <2>1 DEF SeekStep, QueryOK, Closed
    <3>3. WalkStep(q).op = q.op
      <4>1. \A e, k : Visit(q, e, k).op = q.op
        <5> TAKE e, k
        <5>1. DOMAIN noted(q, e, k) = DOMAIN q /\ noted(q, e, k).op = q.op
          BY <2>1 DEF noted, QueryOK, Closed
        <5>2. QED
          BY <2>1, <5>1 DEF Visit, QueryOK, Closed
      <4>2. [q EXCEPT !.status = "failed", !.todo = <<>>].op = q.op
        BY <2>1 DEF QueryOK, Closed
      <4>3. QED
        BY <4>1, <4>2 DEF WalkStep
    <3>4. x.op = q.op
      BY <3>1, <3>2, <3>3
    <3> HIDE DEF x
    <3>5. SampleFits(x, storage)
      BY <2>4, <3>4, OtherSample
    <3>6. QED
      BY <1>1, <2>2, <3>5, OneQuerySamples
  <2>5. QED
    BY <2>3, <2>4
<1>10. CASE UNCHANGED vars
  BY <1>10 DEF vars, SampleInv
<1>11. QED
  BY <1>2, <1>5, <1>6, <1>7, <1>8, <1>9, <1>10 DEF Next

\* What get_sample has collected and what it has still to visit are together the
\* nodes that branch off the way to its goal, each as it is stored
\* (lib.rs:889-956, 984-1004).
THEOREM SampleInvariant == Spec => []SampleInv
<1>1. QED
  BY WalkInvariant, QueriesKeepTheirEntries, SampleInvInit, SampleInvStep, PTL DEF Spec

\* The hash of each node of the tree over a list of values.
NodeHashes(L) ==
    [a \in Addrs |-> tree_hashes(L)[(a.i - range_start(a.i, a.j)) + 1][range_start(a.i, a.j)]]

LEMMA NodeIsAddr ==
    ASSUME NEW m \in Index \ {0}, NEW j \in Nat, HasNode(m, j)
    PROVE  Addr(m, j) \in Addrs
<1>1. CASE j = 0
  BY <1>1, NoBranches
<1>2. CASE j # 0
  <2>1. PICK k \in 1 .. Len(inodes(m)) : inodes(m)[k].node.j = j
    BY <1>2 DEF HasNode
  <2>2. inodes(m)[k].node \in Addrs /\ inodes(m)[k].node = Addr(m, j)
    BY <2>1, InodeChildren
  <2>3. QED
    BY <2>2
<1>3. QED
  BY <1>1, <1>2

\* Each node has the hash of its children's, those of the leaves are of the
\* values themselves.
LEMMA TreeOfHashes ==
    ASSUME NEW L, Len(L) \in Index, NEW rev \in 0 .. Len(L)
    PROVE  /\ HashTree(NodeHashes(L), rev)
           /\ \A i \in 1 .. rev : NodeHashes(L)[Addr(i, 0)] = from_bytes(0, L[i])
           /\ rev # 0 => NodeHashes(L)[root_of(rev)] = tree_hashes(L)[rev][1]
<1> DEFINE H == NodeHashes(L)
           T == tree_hashes(L)
           n == Len(L)
<1>1. n \in Nat /\ \A m \in 1 .. n : m \in Index \ {0}
  BY IndexIsNat
<1>2. ASSUME NEW a \in Addrs PROVE H[a] = T[(a.i - range_start(a.i, a.j)) + 1][range_start(a.i, a.j)]
  BY DEF NodeHashes
<1>3. \A i, j : Addr(i, j).i = i /\ Addr(i, j).j = j
  BY DEF Addr
<1>4. ASSUME NEW i \in 1 .. rev PROVE H[Addr(i, 0)] = from_bytes(0, L[i])
  <2>1. i \in 1 .. n /\ i \in Index \ {0} /\ i \in Nat
    BY <1>1
  <2>2. range_start(i, 0) = i /\ Addr(i, 0) \in Addrs
    BY <2>1, RangeOfLeaf, NoBranches
  <2> HIDE DEF H, T
  <2>3. H[Addr(i, 0)] = T[(i - i) + 1][i]
    BY <1>2, <1>3, <2>2
  <2>4. (i - i) + 1 = 1 /\ 1 \in 1 .. n /\ i \in 1 .. (n - 1) + 1
    BY <1>1, <2>1
  <2>5. T[1][i] = from_bytes(0, L[i])
    BY <1>1, <2>4, TreeHashesStep DEF T
  <2>6. QED
    BY <2>3, <2>4, <2>5
<1>5. ASSUME NEW m \in 1 .. rev, NEW k \in 1 .. Len(inodes(m))
      PROVE  LET w == inodes(m)[k] IN H[w.node] = combine(H[w.left], w.node.j, H[w.right])
  <2> DEFINE w    == inodes(m)[k]
             l    == w.left.i
             j    == w.node.j
             r    == w.right.j
             f    == range_start(m, j)
             half == 2^(j - 1)
             size == (m - f) + 1
  <2>1. m \in 1 .. n /\ m \in Index \ {0} /\ m \in Nat
    BY <1>1
  <2>2. /\ w.node = Addr(m, j) /\ w.left = Addr(l, j - 1) /\ w.right = Addr(m, r)
        /\ j \in Nat \ {0} /\ r \in 0 .. j - 1 /\ l \in 1 .. m - 1
        /\ f \in 1 .. l /\ l = (f + half) - 1 /\ size <= 2 * half
        /\ range_start(l, j - 1) = f /\ range_start(m, r) = l + 1
    BY <2>1, InodeStands
  <2>3. w.node \in Addrs /\ w.left \in Addrs /\ w.right \in Addrs
    BY <2>1, InodeChildren
  <2> HIDE DEF w, l, r, f, H, T, j
  <2>4. /\ H[w.node] = T[(m - f) + 1][f] /\ H[w.left] = T[(l - f) + 1][f]
        /\ H[w.right] = T[(m - (l + 1)) + 1][l + 1]
    <3>1. H[w.node] = T[(m - range_start(m, j)) + 1][range_start(m, j)]
      BY <1>2, <1>3, <2>2, <2>3
    <3>2. H[w.left] = T[(l - range_start(l, j - 1)) + 1][range_start(l, j - 1)]
      BY <1>2, <1>3, <2>2, <2>3
    <3>3. H[w.right] = T[(m - range_start(m, r)) + 1][range_start(m, r)]
      <4>1. w.right.i = m /\ w.right.j = r
        BY <1>3, <2>2
      <4>2. QED
        BY <1>2, <2>3, <4>1
    <3>4. f = range_start(m, j) /\ range_start(l, j - 1) = f /\ range_start(m, r) = l + 1
      BY <2>2 DEF f
    <3>5. QED
      BY <3>1, <3>2, <3>3, <3>4
  <2>5. j - 1 \in Nat
    BY <2>2
  <2>6. half \in Nat
    BY <2>5, PowerCounts
  <2> HIDE DEF half
  <2>7. /\ size \in Nat /\ half < size /\ (l - f) + 1 = half /\ size \in 1 .. n
        /\ f \in 1 .. (n - size) + 1 /\ size # 1
        /\ size - half = (m - (l + 1)) + 1 /\ f + half = l + 1
    BY <1>1, <2>1, <2>2, <2>6
  <2>8. tree_height(size) = j /\ tree_half(size) = half
    <3>1. tree_height(size) = (j - 1) + 1
      BY <2>2, <2>5, <2>7, TreeHeight DEF half
    <3>2. (j - 1) + 1 = j
      BY <2>2
    <3>3. QED
      BY <3>1, <3>2 DEF tree_half, half
  <2> HIDE DEF size
  <2>9. T[size][f] = combine(T[half][f], j, T[size - half][f + half])
    <3>1. T[size][f] = combine(T[tree_half(size)][f], tree_height(size),
                               T[size - tree_half(size)][f + tree_half(size)])
      BY <1>1, <2>7, TreeHashesStep DEF T
    <3>2. QED
      BY <2>8, <3>1
  <2>10. H[w.node] = combine(H[w.left], j, H[w.right])
    BY <2>4, <2>7, <2>9 DEF size
  <2>11. QED
    BY <2>10 DEF w, j
<1>6. ASSUME rev # 0 PROVE H[root_of(rev)] = T[rev][1]
  <2> DEFINE r == root_of(rev)
             f == range_start(rev, r.j)
  <2>1. rev \in Nat \ {0} /\ rev \in Index \ {0}
    BY <1>1, <1>6
  <2>2. r = Addr(rev, r.j) /\ r.i = rev /\ r.j \in Nat /\ r \in Addrs /\ HasNode(rev, r.j)
        /\ Over(r) = 1 .. rev
    BY <2>1, RootNode
  <2>3. Over(r) = f .. rev /\ f \in 1 .. rev
    BY <2>1, <2>2, OverOwn
  <2> HIDE DEF f, r, H, T
  <2>4. 1 \in 1 .. rev /\ f \in Nat
    BY <2>1, <2>3
  <2>5. 1 \in f .. rev
    BY <2>2, <2>3, <2>4
  <2>6. f = 1 /\ (rev - 1) + 1 = rev
    BY <2>1, <2>3, <2>4, <2>5
  <2>7. H[r] = T[(rev - f) + 1][f]
    BY <1>2, <2>2 DEF f
  <2>8. QED
    BY <2>6, <2>7 DEF r
<1>7. QED
  BY <1>4, <1>5, <1>6 DEF HashTree

\* The hashes that a right entry stores are those of its nodes.
LEMMA StoredHash ==
    ASSUME NEW L, NEW e, ShapeOK(e), HashOK(L, e), NEW j, NEW o \in entry_meta(e, j),
           \A k \in 1 .. Len(e.inodes) : e.inodes[k].meta.address.j = inodes(index_of(e))[k].node.j
    PROVE  /\ j \in Nat /\ Addr(index_of(e), j) \in Addrs
           /\ o.hash = NodeHashes(L)[Addr(index_of(e), j)]
<1> DEFINE i == index_of(e)
           s == inodes(i)
           T == tree_hashes(L)
<1>1. /\ i \in Index \ {0} /\ i \in Nat /\ Len(e.inodes) = Len(s) /\ Len(s) \in Nat
      /\ DOMAIN e.inodes = 1 .. Len(s)
  BY Revisions, InodeHeights, IndexIsNat DEF ShapeOK
<1>2. e.enode.meta.hash = T[1][i] /\ \A k \in 1 .. Len(s) :
         e.inodes[k].meta.hash = T[(i - first_leaf(s, k)) + 1][first_leaf(s, k)]
  BY DEF HashOK
<1>3. ASSUME NEW g \in Nat, HasNode(i, g)
      PROVE  NodeHashes(L)[Addr(i, g)] = T[(i - range_start(i, g)) + 1][range_start(i, g)]
  <2>1. Addr(i, g) \in Addrs /\ Addr(i, g).i = i /\ Addr(i, g).j = g
    BY <1>1, <1>3, NodeIsAddr DEF Addr
  <2>2. QED
    BY <2>1 DEF NodeHashes
<1> HIDE DEF T
<1>4. CASE j = 0
  <2>1. o = e.enode.meta
    BY <1>4 DEF entry_meta
  <2>2. HasNode(i, 0) /\ range_start(i, 0) = i /\ Addr(i, 0) \in Addrs
    BY <1>1, RangeOfLeaf, NodeIsAddr DEF HasNode
  <2>3. (i - i) + 1 = 1
    BY <1>1
  <2>4. QED
    BY <1>2, <1>3, <1>4, <2>1, <2>2, <2>3
<1>5. CASE j # 0
  <2>1. PICK x \in ToSet(e.inodes) : o = x.meta /\ x.meta.address.j = j
    BY <1>5 DEF entry_meta, entry_inode
  <2>2. PICK k \in 1 .. Len(s) : x = e.inodes[k]
    BY <1>1 DEF ToSet
  <2>3. s[k].node.j = j
    BY <1>1, <2>1, <2>2
  <2>4. s[k].node.j \in Nat \ {0} /\ range_start(i, s[k].node.j) = first_leaf(s, k)
    BY <1>1, InodeHeights, FormulasFitInodes
  <2>5. HasNode(i, j) /\ j \in Nat
    BY <2>3, <2>4 DEF HasNode
  <2>6. Addr(i, j) \in Addrs
    BY <1>1, <2>5, NodeIsAddr
  <2>7. QED
    BY <1>2, <1>3, <2>1, <2>2, <2>3, <2>4, <2>5, <2>6
<1>6. QED
  BY <1>4, <1>5

LEMMA InvSampleProves ==
    WriterInv /\ TreeInv /\ QueryInv /\ WalkInv /\ SampleInv => SampleProvesRoot
<1> SUFFICES ASSUME WriterInv, TreeInv, QueryInv, WalkInv, SampleInv, NEW r \in Reader,
                    Finished(query[r], "get_sample"), query[r].intact
             PROVE  LET q   == query[r]
                        rev == q.cache.revision
                    IN IF q.goal \in 1 .. rev
                       THEN LET x == Sample(rev, q.goal, Log[q.goal], q.seen)
                            IN  /\ q.leaf = {Log[q.goal]}
                                /\ root_hash_succeeds(x)
                                /\ \A m \in cache_root(q.cache) : root_hash(x) = m.hash
                                /\ Cardinality(q.seen) = stratum_sample_size(rev, q.goal)
                       ELSE q.leaf = {}
  BY DEF SampleProvesRoot
<1> DEFINE q   == query[r]
           rev == q.cache.revision
           L   == Log
           H   == NodeHashes(L)
           n   == cache.revision
           x   == Sample(rev, q.goal, L[q.goal], q.seen)
<1>1. /\ q.status = "done" /\ q.op = "get_sample" /\ WalkFits(q) /\ SampleFits(q, storage)
      /\ IntactOK(q, storage, n) /\ SnapshotOK(q.cache)
  BY DEF Finished, WalkInv, QueryWalks, QueryInv, QueryOK, SampleInv, revision
<1>2. CASE q.goal \notin 1 .. rev
  BY <1>1, <1>2 DEF SampleFits
<1>3. CASE q.goal \in 1 .. rev
  <2>1. q.leaf = {L[q.goal]}
    <3>1. q.leaf \subseteq {L[q.goal]}
      BY <1>3, InvLeafIsLogged DEF LeafIsLogged
    <3>2. q.leaf # {}
      BY <1>1, <1>3 DEF WalkFits
    <3>3. QED
      BY <3>1, <3>2
  <2>2. n \in 0 .. MaxN /\ Tree(storage, n) /\ rev \in 0 .. n /\ n \in Nat /\ n \in Index
    BY <1>1, WriterTree, Revisions DEF IntactOK
  <2>3. L \in Seq(Value) /\ Len(L) = n /\ \A e \in entries_of(storage) : L[index_of(e)] = e.enode.payload
    BY <2>2, LogType DEF Log, revision, Tree
  <2>4. rev \in Nat \ {0} /\ rev \in Index \ {0} /\ rev \in 0 .. Len(L)
    BY <1>3, <2>2, <2>3, IndexIsNat
  <2> HIDE DEF L
  <2>5. /\ HashTree(H, rev)
        /\ \A i \in 1 .. rev : H[Addr(i, 0)] = from_bytes(0, L[i])
        /\ H[root_of(rev)] = tree_hashes(L)[rev][1]
    BY <2>2, <2>3, <2>4, TreeOfHashes
  <2>6. \A e \in entries_of(storage) : HashOK(L, e) /\ ShapeOK(e)
    BY <2>2, <2>3, AllHashes, StoredShape
  <2>7. /\ \A w \in q.seen : Collected(q, storage, w)
        /\ NodesOf(q.seen) \cup AllAhead(ToSet(q.todo), q.goal) = branches_off(root_of(rev), q.goal)
    BY <1>1, <1>3 DEF SampleFits
  <2>8. NodesOf(q.seen) = branches_off(root_of(rev), q.goal)
    <3>1. ToSet(q.todo) = {}
      BY <1>1 DEF SampleFits
    <3>2. AllAhead({}, q.goal) = {}
      BY DEF AllAhead
    <3>3. QED
      BY <2>7, <3>1, <3>2
  <2>9. ASSUME NEW w \in q.seen PROVE w = Witness(w.i, w.j, w.hash) /\ w.hash = H[Addr(w.i, w.j)]
    <3>1. /\ w = Witness(w.i, w.j, w.hash)
          /\ \E e \in entries_of(storage) :
                index_of(e) = w.i /\ \E m \in entry_meta(e, w.j) : m.hash = w.hash
      BY <2>7, <2>9 DEF Collected
    <3>2. PICK e \in entries_of(storage) :
             index_of(e) = w.i /\ \E m \in entry_meta(e, w.j) : m.hash = w.hash
      BY <3>1
    <3>7. PICK m \in entry_meta(e, w.j) : m.hash = w.hash
      BY <3>2
    <3>3. HashOK(L, e) /\ ShapeOK(e)
      BY <2>6
    <3>4. \A k \in 1 .. Len(e.inodes) : e.inodes[k].meta.address.j = inodes(index_of(e))[k].node.j
      BY <3>3 DEF ShapeOK
    <3>5. m.hash = H[Addr(index_of(e), w.j)]
      BY <3>3, <3>4, StoredHash
    <3>6. QED
      BY <3>1, <3>2, <3>5, <3>7
  <2>10. /\ x.revision = rev /\ x.i = q.goal /\ x.payload = L[q.goal] /\ x.witnesses = q.seen
    BY DEF Sample
  <2> HIDE DEF x, H
  <2>11. GoodSample(H, rev, x)
    <3>1. H[Addr(x.i, 0)] = from_bytes(0, x.payload)
      BY <1>3, <2>5, <2>10
    <3>2. {Addr(w.i, w.j) : w \in x.witnesses} = branches_off(root_of(rev), x.i)
      BY <2>8, <2>10 DEF NodesOf
    <3>3. QED
      BY <1>3, <2>9, <2>10, <3>1, <3>2 DEF GoodSample
  <2>12. /\ root_hash_succeeds(x) /\ root_hash(x) = H[root_of(rev)]
         /\ Cardinality(x.witnesses) = stratum_sample_size(rev, x.i)
    BY <2>4, <2>5, <2>11, SamplesProve
  <2>13. ASSUME NEW m \in cache_root(q.cache) PROVE m.hash = tree_hashes(L)[rev][1]
    <3>1. m.hash = TreeHash(SubSeq(L, 1, rev))
      <4>1. q.status # "closed"
        BY <1>1
      <4>2. QED
        BY <4>1, InvPastState DEF SnapshotIsPastState, L
    <3>2. rev \in 1 .. Len(L) /\ Len(SubSeq(L, 1, rev)) = rev
      BY <2>2, <2>3, <2>4
    <3>3. rev \in 1 .. rev /\ 1 \in 1 .. (rev - rev) + 1 /\ (rev - rev) + 1 = rev - rev + 1
      BY <2>4
    <3>4. tree_hashes(SubSeq(L, 1, rev))[rev][1] = tree_hashes(L)[rev][1]
      BY <2>3, <3>2, <3>3, PrefixHashes
    <3>5. QED
      BY <3>1, <3>2, <3>4 DEF TreeHash
  <2>14. QED
    BY <1>3, <2>1, <2>5, <2>10, <2>12, <2>13 DEF x, L
<1>4. QED
  BY <1>2, <1>3

\* A sample that get_sample has taken from an intact snapshot has the value of its
\* index and one witness for each node that branches off the way to it, and these
\* lead to the root hash of the snapshot (lib.rs:717-751, 984-1004), though the
\* writer may have gone on between any two reads.
THEOREM SamplesProveRoot == Spec => []SampleProvesRoot
<1>1. QED
  BY SampleInvariant, WalkInvariant, QueriesKeepTheirEntries, InvSampleProves, PTL

-----------------------------------------------------------------------------
(* Values with the nodes beside the way to them: the recursions.           *)

\* The recursion of turned.
Turns(v, f, n) == f = [t \in 0 .. n |-> IF t = 0 THEN v ELSE fold_pairs(f[t - 1])]

\* A turn after some turns.
LEMMA TurnedStep ==
    ASSUME NEW v, NEW t \in Nat
    PROVE  turned(v, 0) = v /\ turned(v, t + 1) = fold_pairs(turned(v, t))
<1> DEFINE F(n) == CHOOSE f : Turns(v, f, n)
           T == {n \in Nat : \E f : Turns(v, f, n)}
<1>1. T \in SUBSET Nat
  OBVIOUS
<1>2. 0 \in T
  <2> DEFINE f == [k \in 0 .. 0 |-> v]
  <2>1. f = [k \in 0 .. 0 |-> IF k = 0 THEN v ELSE fold_pairs(f[k - 1])]
    OBVIOUS
  <2> HIDE DEF f
  <2>2. \E g : Turns(v, g, 0)
    BY <2>1 DEF Turns
  <2>3. QED
    BY <2>2
<1>3. ASSUME NEW n \in Nat, n \in T PROVE n + 1 \in T
  <2>1. PICK f : Turns(v, f, n)
    BY <1>3
  <2> DEFINE g == [k \in 0 .. n + 1 |-> IF k <= n THEN f[k] ELSE fold_pairs(f[k - 1])]
  <2>2. \A k \in 0 .. n : f[k] = IF k = 0 THEN v ELSE fold_pairs(f[k - 1])
    BY <2>1 DEF Turns
  <2>3. \A k \in 0 .. n : g[k] = f[k]
    OBVIOUS
  <2>4. g[n + 1] = fold_pairs(f[n])
    OBVIOUS
  <2>5. g = [k \in 0 .. n + 1 |-> g[k]]
    OBVIOUS
  <2> HIDE DEF g
  <2>6. ASSUME NEW k \in 0 .. n + 1 PROVE g[k] = IF k = 0 THEN v ELSE fold_pairs(g[k - 1])
    <3>1. CASE k \in 0 .. n
      <4>1. k = 0 \/ k - 1 \in 0 .. n
        BY <3>1
      <4>2. QED
        BY <2>2, <2>3, <3>1, <4>1
    <3>2. CASE k = n + 1
      <4>1. k # 0 /\ k - 1 = n /\ n \in 0 .. n
        BY <3>2
      <4>2. QED
        BY <2>3, <2>4, <3>2, <4>1
    <3>3. QED
      BY <3>1, <3>2
  <2>7. [k \in 0 .. n + 1 |-> g[k]] = [k \in 0 .. n + 1 |-> IF k = 0 THEN v ELSE fold_pairs(g[k - 1])]
    BY <2>6
  <2>8. \E h : Turns(v, h, n + 1)
    BY <2>5, <2>7 DEF Turns
  <2>9. QED
    BY <2>8
<1>4. T = Nat
  <2> HIDE DEF T
  <2>1. QED
    BY <1>1, <1>2, <1>3, Induct
<1>5. ASSUME NEW n \in Nat PROVE Turns(v, F(n), n)
  <2>1. \E f : Turns(v, f, n)
    BY <1>4
  <2>2. QED
    BY <2>1
<1>6. \A n \in Nat : turned(v, n) = F(n)[n]
  BY DEF turned, Turns
<1> HIDE DEF F, T
<1>7. \A n \in Nat : \A k \in 0 .. n : F(n)[k] = IF k = 0 THEN v ELSE fold_pairs(F(n)[k - 1])
  BY <1>5 DEF Turns
<1> DEFINE S == {k \in Nat : k <= t => F(t)[k] = F(t + 1)[k]}
<1>8. 0 \in S
  <2>1. 0 \in 0 .. t /\ 0 \in 0 .. t + 1 /\ t + 1 \in Nat
    OBVIOUS
  <2>2. QED
    BY <1>7, <2>1
<1>9. ASSUME NEW k \in Nat, k \in S PROVE k + 1 \in S
  <2> SUFFICES ASSUME k + 1 <= t PROVE F(t)[k + 1] = F(t + 1)[k + 1]
    OBVIOUS
  <2>1. k + 1 \in 0 .. t /\ k + 1 \in 0 .. t + 1 /\ t + 1 \in Nat /\ (k + 1) - 1 = k /\ k + 1 # 0
    OBVIOUS
  <2>2. F(t)[k] = F(t + 1)[k]
    BY <1>9
  <2>3. F(t)[k + 1] = fold_pairs(F(t)[k]) /\ F(t + 1)[k + 1] = fold_pairs(F(t + 1)[k])
    BY <1>7, <2>1
  <2>4. QED
    BY <2>2, <2>3
<1>10. S = Nat
  <2> S \in SUBSET Nat
    OBVIOUS
  <2> HIDE DEF S
  <2>1. QED
    BY <1>8, <1>9, Induct
<1>11. F(t)[t] = F(t + 1)[t]
  BY <1>10
<1>12. t + 1 \in Nat /\ t + 1 \in 0 .. t + 1 /\ (t + 1) - 1 = t /\ t + 1 # 0 /\ 0 \in 0 .. 0
  OBVIOUS
<1>13. F(t + 1)[t + 1] = fold_pairs(F(t + 1)[t]) /\ F(0)[0] = v
  BY <1>7, <1>12
<1>14. QED
  BY <1>6, <1>11, <1>12, <1>13

\* What is known after so many branches, from the last branch to the first.
Climb(b, f, from) ==
    /\ f[0] = from
    /\ \A k \in 1 .. Len(b) :
          f[k] = LET branch == b[(Len(b) - k) + 1]
                 IN  IF f[k - 1].i < branch.i THEN parent(f[k - 1], branch) ELSE parent(branch, f[k - 1])

\* The recursion of joined, and its step.
Known(x, f, n) ==
    f = [k \in 0 .. n |->
           IF k = 0 THEN Head(folded(x.values))
           ELSE LET branch == x.branches[Len(x.branches) - k + 1]
                IN  IF f[k - 1].i < branch.i THEN parent(f[k - 1], branch)
                    ELSE parent(branch, f[k - 1])]
known_next(x, y, k) ==
    LET branch == x.branches[Len(x.branches) - k + 1]
    IN  IF y.i < branch.i THEN parent(y, branch) ELSE parent(branch, y)

\* What is known after one branch more.
LEMMA JoinedStep ==
    ASSUME NEW x, NEW t \in Nat
    PROVE  joined(x, 0) = Head(folded(x.values)) /\ joined(x, t + 1) = known_next(x, joined(x, t), t + 1)
<1> DEFINE F(n) == CHOOSE f : Known(x, f, n)
           T == {n \in Nat : \E f : Known(x, f, n)}
           v == Head(folded(x.values))
<1>0. ASSUME NEW f, NEW n
      PROVE  Known(x, f, n) <=> f = [k \in 0 .. n |-> IF k = 0 THEN v ELSE known_next(x, f[k - 1], k)]
  BY DEF Known, known_next
<1>6. \A n \in Nat : joined(x, n) = F(n)[n]
  BY DEF joined, Known
<1> HIDE DEF v
<1>1. T \in SUBSET Nat
  OBVIOUS
<1>2. 0 \in T
  <2> DEFINE f == [k \in 0 .. 0 |-> v]
  <2>1. f = [k \in 0 .. 0 |-> IF k = 0 THEN v ELSE known_next(x, f[k - 1], k)]
    OBVIOUS
  <2> HIDE DEF f
  <2>2. Known(x, f, 0)
    BY <1>0, <2>1
  <2>3. QED
    BY <2>2
<1>3. ASSUME NEW n \in Nat, n \in T PROVE n + 1 \in T
  <2>1. PICK f : Known(x, f, n)
    BY <1>3
  <2> DEFINE g == [k \in 0 .. n + 1 |-> IF k <= n THEN f[k] ELSE known_next(x, f[k - 1], k)]
  <2>2. \A k \in 0 .. n : f[k] = IF k = 0 THEN v ELSE known_next(x, f[k - 1], k)
    <3>1. f = [k \in 0 .. n |-> IF k = 0 THEN v ELSE known_next(x, f[k - 1], k)]
      BY <1>0, <2>1
    <3>2. QED
      BY <3>1
  <2>3. \A k \in 0 .. n : g[k] = f[k]
    OBVIOUS
  <2>4. g[n + 1] = known_next(x, f[n], n + 1)
    OBVIOUS
  <2>5. g = [k \in 0 .. n + 1 |-> g[k]]
    OBVIOUS
  <2> HIDE DEF g
  <2>6. ASSUME NEW k \in 0 .. n + 1 PROVE g[k] = IF k = 0 THEN v ELSE known_next(x, g[k - 1], k)
    <3>1. CASE k \in 0 .. n
      <4>1. k = 0 \/ k - 1 \in 0 .. n
        BY <3>1
      <4>2. QED
        BY <2>2, <2>3, <3>1, <4>1
    <3>2. CASE k = n + 1
      <4>1. k # 0 /\ k - 1 = n /\ n \in 0 .. n
        BY <3>2
      <4>2. QED
        BY <2>3, <2>4, <3>2, <4>1
    <3>3. QED
      BY <3>1, <3>2
  <2>7. [k \in 0 .. n + 1 |-> g[k]] = [k \in 0 .. n + 1 |-> IF k = 0 THEN v ELSE known_next(x, g[k - 1], k)]
    BY <2>6
  <2>8. Known(x, g, n + 1)
    BY <1>0, <2>5, <2>7
  <2>9. QED
    BY <2>8
<1>4. T = Nat
  <2> HIDE DEF T
  <2>1. QED
    BY <1>1, <1>2, <1>3, Induct
<1>5. ASSUME NEW n \in Nat PROVE Known(x, F(n), n)
  <2>1. \E f : Known(x, f, n)
    BY <1>4
  <2>2. QED
    BY <2>1
<1> HIDE DEF F, T
<1>7. ASSUME NEW n \in Nat, NEW k \in 0 .. n
      PROVE  F(n)[k] = IF k = 0 THEN v ELSE known_next(x, F(n)[k - 1], k)
  <2>1. Known(x, F(n), n)
    BY <1>5
  <2>2. F(n) = [i \in 0 .. n |-> IF i = 0 THEN v ELSE known_next(x, F(n)[i - 1], i)]
    BY <1>0, <2>1
  <2>3. QED
    BY <2>2
<1> DEFINE S == {k \in Nat : k <= t => F(t)[k] = F(t + 1)[k]}
<1>8. 0 \in S
  <2>1. 0 \in 0 .. t /\ 0 \in 0 .. t + 1 /\ t + 1 \in Nat
    OBVIOUS
  <2>2. QED
    BY <1>7, <2>1
<1>9. ASSUME NEW k \in Nat, k \in S PROVE k + 1 \in S
  <2> SUFFICES ASSUME k + 1 <= t PROVE F(t)[k + 1] = F(t + 1)[k + 1]
    OBVIOUS
  <2>1. k + 1 \in 0 .. t /\ k + 1 \in 0 .. t + 1 /\ t + 1 \in Nat /\ (k + 1) - 1 = k /\ k + 1 # 0
    OBVIOUS
  <2>2. F(t)[k] = F(t + 1)[k]
    BY <1>9
  <2>3. F(t)[k + 1] = known_next(x, F(t)[k], k + 1) /\ F(t + 1)[k + 1] = known_next(x, F(t + 1)[k], k + 1)
    BY <1>7, <2>1
  <2>4. QED
    BY <2>2, <2>3
<1>10. S = Nat
  <2> S \in SUBSET Nat
    OBVIOUS
  <2> HIDE DEF S
  <2>1. QED
    BY <1>8, <1>9, Induct
<1>11. F(t)[t] = F(t + 1)[t]
  BY <1>10
<1>12. t + 1 \in Nat /\ t + 1 \in 0 .. t + 1 /\ (t + 1) - 1 = t /\ t + 1 # 0 /\ 0 \in 0 .. 0
  OBVIOUS
<1>13. F(t + 1)[t + 1] = known_next(x, F(t + 1)[t], t + 1) /\ F(0)[0] = v
  BY <1>7, <1>12
<1>14. QED
  BY <1>6, <1>11, <1>12, <1>13 DEF v

LEMMA JoinedClimbs ==
    ASSUME NEW x, Len(x.branches) \in Nat
    PROVE  Climb(x.branches, [k \in 0 .. Len(x.branches) |-> joined(x, k)], Head(folded(x.values)))
<1> DEFINE n == Len(x.branches)
           f == [k \in 0 .. n |-> joined(x, k)]
<1>1. f[0] = Head(folded(x.values))
  BY JoinedStep
<1>2. ASSUME NEW k \in 1 .. n PROVE f[k] = known_next(x, f[k - 1], k)
  <2>1. k - 1 \in Nat /\ (k - 1) + 1 = k /\ k - 1 \in 0 .. n /\ k \in 0 .. n
    OBVIOUS
  <2>2. joined(x, (k - 1) + 1) = known_next(x, joined(x, k - 1), (k - 1) + 1)
    BY <2>1, JoinedStep
  <2>3. QED
    BY <2>1, <2>2
<1> HIDE DEF f
<1>3. \A k \in 1 .. n : known_next(x, f[k - 1], k) =
         LET branch == x.branches[(n - k) + 1]
         IN  IF f[k - 1].i < branch.i THEN parent(f[k - 1], branch) ELSE parent(branch, f[k - 1])
  BY DEF known_next
<1>4. QED
  BY <1>1, <1>2, <1>3 DEF Climb, f

\* The recursion of tree_nodes.
below_step(f, a) ==
    {a} \cup (IF a.j = 0 THEN {} ELSE f[left_of(a.i, a.j)] \cup f[right_of(a.i, a.j)])
below_of == CHOOSE f : f = [a \in Addrs |-> below_step(f, a)]

LEMMA BelowRecursion ==
    below_of = [a \in Addrs |-> below_step(below_of, a)]
<1> DEFINE Good(f, h) == f = [a \in {b \in Addrs : b.j <= h} |-> below_step(f, a)]
           T == {h \in Nat : \E f : Good(f, h)}
<1>1. 0 \in T
  <2> DEFINE f == [a \in {b \in Addrs : b.j <= 0} |-> below_step(<<>>, a)]
  <2>1. ASSUME NEW a \in Addrs, a.j <= 0 PROVE below_step(f, a) = below_step(<<>>, a)
    <3>1. a.j = 0
      BY <2>1, AddrHeights
    <3>2. QED
      BY <3>1 DEF below_step
  <2>2. Good(f, 0)
    BY <2>1
  <2>3. QED
    BY <2>2
<1>2. ASSUME NEW h \in Nat, h \in T PROVE h + 1 \in T
  <2>1. PICK f : Good(f, h)
    BY <1>2
  <2> DEFINE g == [a \in {b \in Addrs : b.j <= h + 1} |-> IF a.j <= h THEN f[a] ELSE below_step(f, a)]
  <2>2. \A a \in Addrs : a.j <= h => g[a] = f[a] /\ f[a] = below_step(f, a)
    <3>1. \A a \in Addrs : a.j \in Nat
      BY AddrHeights
    <3>2. QED
      BY <2>1, <3>1
  <2> HIDE DEF g
  <2>3. ASSUME NEW a \in Addrs, a.j <= h + 1 PROVE below_step(g, a) = below_step(f, a)
    <3>1. a.j \in Nat
      BY AddrHeights
    <3>2. CASE a.j = 0
      BY <3>2 DEF below_step
    <3>3. CASE a.j # 0
      <4> DEFINE l == left_of(a.i, a.j)
                 r == right_of(a.i, a.j)
      <4>1. l \in Addrs /\ r \in Addrs /\ l.j = a.j - 1 /\ r.j < a.j
        BY <3>3, ChildrenAreLower
      <4>2. l.j \in Nat /\ r.j \in Nat
        BY <4>1, AddrHeights
      <4> HIDE DEF l, r
      <4>3. l.j <= h /\ r.j <= h
        BY <2>3, <3>1, <4>1, <4>2
      <4>4. g[l] = f[l] /\ g[r] = f[r]
        BY <2>2, <4>1, <4>3
      <4>5. QED
        BY <4>4 DEF below_step, l, r
    <3>4. QED
      BY <3>2, <3>3
  <2>4. \A a \in Addrs : a.j <= h + 1 => g[a] = below_step(g, a)
    BY <2>2, <2>3 DEF g
  <2>5. Good(g, h + 1)
    <3>1. g = [a \in {b \in Addrs : b.j <= h + 1} |-> g[a]]
      BY DEF g
    <3> DEFINE A == {b \in Addrs : b.j <= h + 1}
    <3>2. \A a \in A : g[a] = below_step(g, a)
      BY <2>4
    <3> HIDE DEF A
    <3>3. [a \in A |-> g[a]] = [a \in A |-> below_step(g, a)]
      BY <3>2
    <3>4. QED
      BY <3>1, <3>3 DEF A
  <2> HIDE DEF Good
  <2>6. \E k : Good(k, h + 1)
    BY <2>5
  <2>7. QED
    BY <2>6
<1> HIDE DEF T
<1>3. T \in SUBSET Nat
  BY DEF T
<1>4. T = Nat
  BY <1>1, <1>2, <1>3, Induct
<1>5. INDEX_SIZE \in T
  BY <1>4, IndexSizeAssumption
<1>6. Addrs = {b \in Addrs : b.j <= INDEX_SIZE}
  BY AddrHeights
<1>7. \E f : f = [a \in Addrs |-> below_step(f, a)]
  <2>1. PICK f : Good(f, INDEX_SIZE)
    BY <1>5 DEF T
  <2>2. f = [a \in Addrs |-> below_step(f, a)]
    BY <1>6, <2>1
  <2>3. QED
    BY <2>2
<1>8. QED
  BY <1>7 DEF below_of

\* The recursion of branches_to.
way_step(node, f, a) ==
    IF a.j <= node.j THEN <<>>
    ELSE LET l == left_of(a.i, a.j)
             r == right_of(a.i, a.j)
         IN  IF contains(l.i, l.j, node.i) THEN <<stored_node(r.i, r.j)>> \o f[l]
             ELSE <<stored_node(l.i, l.j)>> \o f[r]
way_of(node) == CHOOSE f : f = [a \in Addrs |-> way_step(node, f, a)]

LEMMA WayRecursion ==
    ASSUME NEW node, node.j \in Nat
    PROVE  way_of(node) = [a \in Addrs |-> way_step(node, way_of(node), a)]
<1> DEFINE Good(f, h) == f = [a \in {b \in Addrs : b.j <= h} |-> way_step(node, f, a)]
           T == {h \in Nat : \E f : Good(f, h)}
<1>1. 0 \in T
  <2> DEFINE f == [a \in {b \in Addrs : b.j <= 0} |-> way_step(node, <<>>, a)]
  <2>1. ASSUME NEW a \in Addrs, a.j <= 0 PROVE way_step(node, f, a) = way_step(node, <<>>, a)
    <3>1. a.j = 0
      BY <2>1, AddrHeights
    <3>2. QED
      BY <3>1 DEF way_step
  <2>2. Good(f, 0)
    BY <2>1
  <2>3. QED
    BY <2>2
<1>2. ASSUME NEW h \in Nat, h \in T PROVE h + 1 \in T
  <2>1. PICK f : Good(f, h)
    BY <1>2
  <2> DEFINE g == [a \in {b \in Addrs : b.j <= h + 1} |-> IF a.j <= h THEN f[a] ELSE way_step(node, f, a)]
  <2>2. \A a \in Addrs : a.j <= h => g[a] = f[a] /\ f[a] = way_step(node, f, a)
    <3>1. \A a \in Addrs : a.j \in Nat
      BY AddrHeights
    <3>2. QED
      BY <2>1, <3>1
  <2> HIDE DEF g
  <2>3. ASSUME NEW a \in Addrs, a.j <= h + 1 PROVE way_step(node, g, a) = way_step(node, f, a)
    <3>1. a.j \in Nat
      BY AddrHeights
    <3>2. CASE a.j = 0
      BY <3>2 DEF way_step
    <3>3. CASE a.j # 0
      <4> DEFINE l == left_of(a.i, a.j)
                 r == right_of(a.i, a.j)
      <4>1. l \in Addrs /\ r \in Addrs /\ l.j = a.j - 1 /\ r.j < a.j
        BY <3>3, ChildrenAreLower
      <4>2. l.j \in Nat /\ r.j \in Nat
        BY <4>1, AddrHeights
      <4> HIDE DEF l, r
      <4>3. l.j <= h /\ r.j <= h
        BY <2>3, <3>1, <4>1, <4>2
      <4>4. g[l] = f[l] /\ g[r] = f[r]
        BY <2>2, <4>1, <4>3
      <4>5. QED
        BY <4>4 DEF way_step, l, r
    <3>4. QED
      BY <3>2, <3>3
  <2>4. \A a \in Addrs : a.j <= h + 1 => g[a] = way_step(node, g, a)
    BY <2>2, <2>3 DEF g
  <2>5. Good(g, h + 1)
    <3>1. g = [a \in {b \in Addrs : b.j <= h + 1} |-> g[a]]
      BY DEF g
    <3> DEFINE A == {b \in Addrs : b.j <= h + 1}
    <3>2. \A a \in A : g[a] = way_step(node, g, a)
      BY <2>4
    <3> HIDE DEF A
    <3>3. [a \in A |-> g[a]] = [a \in A |-> way_step(node, g, a)]
      BY <3>2
    <3>4. QED
      BY <3>1, <3>3 DEF A
  <2> HIDE DEF Good
  <2>6. \E k : Good(k, h + 1)
    BY <2>5
  <2>7. QED
    BY <2>6
<1> HIDE DEF T
<1>3. T \in SUBSET Nat
  BY DEF T
<1>4. T = Nat
  BY <1>1, <1>2, <1>3, Induct
<1>5. INDEX_SIZE \in T
  BY <1>4, IndexSizeAssumption
<1>6. Addrs = {b \in Addrs : b.j <= INDEX_SIZE}
  BY AddrHeights
<1>7. \E f : f = [a \in Addrs |-> way_step(node, f, a)]
  <2>1. PICK f : Good(f, INDEX_SIZE)
    BY <1>5 DEF T
  <2>2. f = [a \in Addrs |-> way_step(node, f, a)]
    BY <1>6, <2>1
  <2>3. QED
    BY <2>2
<1>8. QED
  BY <1>7 DEF way_of

-----------------------------------------------------------------------------
(* Folding.                                                                *)

\* The list s is that of u and then v.
Joint(s, u, v) ==
    /\ Len(u) \in Nat /\ Len(v) \in Nat /\ Len(s) = Len(u) + Len(v)
    /\ \A k \in 1 .. Len(u) : s[k] = u[k]
    /\ \A k \in 1 .. Len(v) : s[Len(u) + k] = v[k]

\* The nodes that the next turn joins are siblings.
Pairs(s) == \A k \in 1 .. Len(s) \div 2 : may_be_siblings(s[2 * k - 1], s[2 * k])

LEMMA FoldPairs ==
    ASSUME NEW s, Len(s) \in Nat
    PROVE  /\ Len(fold_pairs(s)) \in Nat /\ Len(fold_pairs(s)) = (Len(s) + 1) \div 2
           /\ \A k \in 1 .. (Len(s) + 1) \div 2 :
                 fold_pairs(s)[k] = IF 2 * k <= Len(s) THEN parent(s[2 * k - 1], s[2 * k]) ELSE s[2 * k - 1]
<1> DEFINE n == (Len(s) + 1) \div 2
           f == [k \in 1 .. n |-> IF 2 * k <= Len(s) THEN parent(s[2 * k - 1], s[2 * k]) ELSE s[2 * k - 1]]
<1>1. fold_pairs(s) = f
  BY DEF fold_pairs
<1>2. n \in Nat
  OBVIOUS
<1>3. \A k \in 1 .. n : f[k] = IF 2 * k <= Len(s) THEN parent(s[2 * k - 1], s[2 * k]) ELSE s[2 * k - 1]
  OBVIOUS
<1>4. f \in [1 .. n -> {f[k] : k \in 1 .. n}]
  OBVIOUS
<1> HIDE DEF n, f
<1>5. Len(f) = n
  BY <1>2, <1>4
<1>6. QED
  BY <1>1, <1>2, <1>3, <1>5 DEF n

LEMMA FoldJoint ==
    ASSUME NEW s, NEW u, NEW v, Joint(s, u, v), NEW c \in Nat, Len(u) = 2 * c
    PROVE  Joint(fold_pairs(s), fold_pairs(u), fold_pairs(v)) /\ Len(fold_pairs(u)) = c
<1> DEFINE S == fold_pairs(s)
           U == fold_pairs(u)
           V == fold_pairs(v)
<1>1. Len(u) \in Nat /\ Len(v) \in Nat /\ Len(s) \in Nat /\ Len(s) = 2 * c + Len(v)
  BY DEF Joint
<1>2. /\ Len(S) = (Len(s) + 1) \div 2 /\ Len(U) = (Len(u) + 1) \div 2 /\ Len(V) = (Len(v) + 1) \div 2
      /\ Len(S) \in Nat /\ Len(U) \in Nat /\ Len(V) \in Nat
  BY <1>1, FoldPairs
<1>3. /\ \A k \in 1 .. Len(S) : S[k] = IF 2 * k <= Len(s) THEN parent(s[2 * k - 1], s[2 * k]) ELSE s[2 * k - 1]
      /\ \A k \in 1 .. Len(U) : U[k] = IF 2 * k <= Len(u) THEN parent(u[2 * k - 1], u[2 * k]) ELSE u[2 * k - 1]
      /\ \A k \in 1 .. Len(V) : V[k] = IF 2 * k <= Len(v) THEN parent(v[2 * k - 1], v[2 * k]) ELSE v[2 * k - 1]
  BY <1>1, <1>2, FoldPairs
<1>4. /\ \A k \in 1 .. 2 * c : s[k] = u[k]
      /\ \A k \in 1 .. Len(v) : s[2 * c + k] = v[k]
  BY DEF Joint
<1> HIDE DEF S, U, V
<1>5. Len(U) = c /\ Len(S) = c + Len(V)
  BY <1>1, <1>2
<1>6. ASSUME NEW k \in 1 .. Len(U) PROVE S[k] = U[k]
  <2>1. k \in 1 .. Len(S) /\ 2 * k <= Len(s) /\ 2 * k <= Len(u) /\ 2 * k \in 1 .. 2 * c /\ 2 * k - 1 \in 1 .. 2 * c
    BY <1>1, <1>2, <1>5
  <2>2. s[2 * k] = u[2 * k] /\ s[2 * k - 1] = u[2 * k - 1]
    BY <1>4, <2>1
  <2>3. QED
    BY <1>3, <2>1, <2>2
<1>7. ASSUME NEW k \in 1 .. Len(V) PROVE S[Len(U) + k] = V[k]
  <2> DEFINE i == c + k
  <2>1. i \in 1 .. Len(S) /\ 2 * k - 1 \in 1 .. Len(v) /\ 2 * i - 1 = 2 * c + (2 * k - 1) /\ 2 * i = 2 * c + 2 * k
        /\ (2 * i <= Len(s) <=> 2 * k <= Len(v)) /\ 2 * k \in Nat \ {0}
    BY <1>1, <1>2, <1>5
  <2>2. s[2 * i - 1] = v[2 * k - 1]
    BY <1>4, <2>1
  <2>3. 2 * k <= Len(v) => s[2 * i] = v[2 * k]
    <3>1. SUFFICES ASSUME 2 * k <= Len(v) PROVE s[2 * i] = v[2 * k]
      OBVIOUS
    <3>2. 2 * k \in 1 .. Len(v)
      BY <1>1, <2>1, <3>1
    <3>3. QED
      BY <1>4, <2>1, <3>2
  <2> HIDE DEF i
  <2>4. S[i] = V[k]
    BY <1>3, <2>1, <2>2, <2>3
  <2>5. QED
    BY <1>5, <2>4 DEF i
<1>8. QED
  BY <1>2, <1>5, <1>6, <1>7 DEF Joint, S, U, V

LEMMA PairsJoint ==
    ASSUME NEW s, NEW u, NEW v, Joint(s, u, v), NEW c \in Nat, Len(u) = 2 * c, Pairs(u), Pairs(v)
    PROVE  Pairs(s)
<1>1. /\ Len(v) \in Nat /\ Len(s) = 2 * c + Len(v)
      /\ \A k \in 1 .. 2 * c : s[k] = u[k]
      /\ \A k \in 1 .. Len(v) : s[2 * c + k] = v[k]
  BY DEF Joint
<1> SUFFICES ASSUME NEW k \in 1 .. Len(s) \div 2 PROVE may_be_siblings(s[2 * k - 1], s[2 * k])
  BY DEF Pairs
<1>2. k \in Nat \ {0} /\ 2 * k <= 2 * c + Len(v)
  BY <1>1
<1>3. CASE k <= c
  <2>1. 2 * k - 1 \in 1 .. 2 * c /\ 2 * k \in 1 .. 2 * c /\ k \in 1 .. Len(u) \div 2
    BY <1>2, <1>3
  <2>2. QED
    BY <1>1, <2>1 DEF Pairs
<1>4. CASE c < k
  <2> DEFINE i == k - c
  <2>1. /\ 2 * i - 1 \in 1 .. Len(v) /\ 2 * i \in 1 .. Len(v) /\ i \in 1 .. Len(v) \div 2
        /\ 2 * k - 1 = 2 * c + (2 * i - 1) /\ 2 * k = 2 * c + 2 * i
    BY <1>1, <1>2, <1>4
  <2>2. s[2 * k - 1] = v[2 * i - 1] /\ s[2 * k] = v[2 * i]
    BY <1>1, <2>1
  <2> HIDE DEF i
  <2>3. QED
    BY <2>1, <2>2 DEF Pairs
<1>5. QED
  BY <1>2, <1>3, <1>4

\* After h turns a list has become one node, and each turn joins siblings.
Folds(v, h, x) ==
    /\ Len(v) \in Nat
    /\ \A t \in Nat : Pairs(turned(v, t)) /\ (t >= h => turned(v, t) = <<x>>)

LEMMA FoldOne ==
    ASSUME NEW x
    PROVE  fold_pairs(<<x>>) = <<x>> /\ Pairs(<<x>>)
<1>1. Len(<<x>>) = 1 /\ (1 + 1) \div 2 = 1 /\ 1 \div 2 = 0 /\ 1 .. 0 = {}
  OBVIOUS
<1>2. fold_pairs(<<x>>) = [k \in 1 .. 1 |-> x]
  BY <1>1 DEF fold_pairs
<1>3. QED
  BY <1>1, <1>2 DEF Pairs

LEMMA FoldTwo ==
    ASSUME NEW s, NEW x, NEW y, Joint(s, <<x>>, <<y>>), may_be_siblings(x, y)
    PROVE  fold_pairs(s) = <<parent(x, y)>> /\ Pairs(s)
<1>1. Len(s) = 2 /\ s[1] = x /\ s[2] = y
  <2>1. Len(<<x>>) = 1 /\ Len(<<y>>) = 1 /\ 1 \in 1 .. 1 /\ <<x>>[1] = x /\ <<y>>[1] = y /\ 1 + 1 = 2
    OBVIOUS
  <2>2. QED
    BY <2>1 DEF Joint
<1>2. (2 + 1) \div 2 = 1 /\ 2 \div 2 = 1 /\ \A k \in 1 .. 1 : 2 * k = 2 /\ 2 * k - 1 = 1
  OBVIOUS
<1>3. fold_pairs(s) = [k \in 1 .. 1 |-> parent(x, y)]
  BY <1>1, <1>2 DEF fold_pairs
<1>4. Pairs(s)
  BY <1>1, <1>2 DEF Pairs
<1>5. QED
  BY <1>3, <1>4

\* What folds to x and what folds to y folds to their parent, when the first is
\* as long as a perfect subtree and the second not higher.
LEMMA JoinFolds ==
    ASSUME NEW h \in Nat, NEW q \in Nat, q <= h, NEW u, NEW v, NEW s, Joint(s, u, v),
           NEW x, NEW y, Folds(u, h, x), Folds(v, q, y), Len(u) = 2^h, may_be_siblings(x, y)
    PROVE  Folds(s, h + 1, parent(x, y))
<1>1. Len(s) \in Nat /\ Len(u) \in Nat /\ Len(v) \in Nat
  BY DEF Joint
<1> DEFINE T == {t \in Nat : t <= h => Len(turned(u, t)) = 2^(h - t) /\ Joint(turned(s, t), turned(u, t), turned(v, t))}
<1>2. 0 \in T
  <2>1. turned(s, 0) = s /\ turned(u, 0) = u /\ turned(v, 0) = v
    BY TurnedStep
  <2>2. h - 0 = h
    OBVIOUS
  <2>3. QED
    BY <2>1, <2>2
<1>3. ASSUME NEW t \in Nat, t < h
      PROVE  h - (t + 1) \in Nat /\ 2^(h - (t + 1)) \in Nat /\ 2^(h - t) = 2 * 2^(h - (t + 1))
  <2> DEFINE i == h - (t + 1)
  <2>1. i \in Nat /\ h - t = i + 1
    BY <1>3
  <2> HIDE DEF i
  <2>2. 2^i \in Nat /\ 2^(i + 1) = 2 * 2^i
    BY <2>1, PowerCounts, PowerDoubles
  <2>3. QED
    BY <2>1, <2>2 DEF i
<1>4. ASSUME NEW t \in Nat, t \in T PROVE t + 1 \in T
  <2> SUFFICES ASSUME t + 1 <= h
               PROVE  /\ Len(turned(u, t + 1)) = 2^(h - (t + 1))
                      /\ Joint(turned(s, t + 1), turned(u, t + 1), turned(v, t + 1))
    OBVIOUS
  <2> DEFINE c == 2^(h - (t + 1))
  <2>1. t < h
    OBVIOUS
  <2>2. c \in Nat /\ Len(turned(u, t)) = 2 * c /\ Joint(turned(s, t), turned(u, t), turned(v, t))
    BY <1>3, <1>4, <2>1
  <2>3. /\ turned(s, t + 1) = fold_pairs(turned(s, t)) /\ turned(u, t + 1) = fold_pairs(turned(u, t))
        /\ turned(v, t + 1) = fold_pairs(turned(v, t))
    BY TurnedStep
  <2> HIDE DEF c
  <2>4. /\ Joint(fold_pairs(turned(s, t)), fold_pairs(turned(u, t)), fold_pairs(turned(v, t)))
        /\ Len(fold_pairs(turned(u, t))) = c
    BY <2>2, FoldJoint
  <2>5. QED
    BY <2>3, <2>4 DEF c
<1>5. T = Nat
  <2>1. T \in SUBSET Nat
    OBVIOUS
  <2> HIDE DEF T
  <2>2. QED
    BY <1>2, <1>4, <2>1, Induct
<1>6. ASSUME NEW t \in Nat, t < h PROVE Pairs(turned(s, t))
  <2> DEFINE c == 2^(h - (t + 1))
  <2>1. c \in Nat /\ Len(turned(u, t)) = 2 * c /\ Joint(turned(s, t), turned(u, t), turned(v, t))
    BY <1>3, <1>5, <1>6
  <2>2. Pairs(turned(u, t)) /\ Pairs(turned(v, t))
    BY DEF Folds
  <2> HIDE DEF c
  <2>3. QED
    BY <2>1, <2>2, PairsJoint
<1>7. Pairs(turned(s, h)) /\ turned(s, h + 1) = <<parent(x, y)>>
  <2>1. Joint(turned(s, h), <<x>>, <<y>>)
    <3>1. turned(u, h) = <<x>> /\ turned(v, h) = <<y>>
      BY DEF Folds
    <3>2. QED
      BY <1>5, <3>1
  <2>2. turned(s, h + 1) = fold_pairs(turned(s, h))
    BY TurnedStep
  <2>3. QED
    BY <2>1, <2>2, FoldTwo
<1> DEFINE A == {t \in Nat : t >= h + 1 => turned(s, t) = <<parent(x, y)>>}
<1>8. A = Nat
  <2>1. 0 \in A
    OBVIOUS
  <2>2. ASSUME NEW t \in Nat, t \in A PROVE t + 1 \in A
    <3>1. CASE t + 1 >= h + 1 /\ t # h
      <4>1. t >= h + 1
        BY <3>1
      <4>2. turned(s, t) = <<parent(x, y)>> /\ turned(s, t + 1) = fold_pairs(turned(s, t))
        BY <2>2, <4>1, TurnedStep
      <4>3. QED
        BY <4>2, FoldOne
    <3>2. CASE t = h
      BY <1>7, <3>2
    <3>3. QED
      BY <3>1, <3>2
  <2>3. A \in SUBSET Nat
    OBVIOUS
  <2> HIDE DEF A
  <2>4. QED
    BY <2>1, <2>2, <2>3, Induct
<1>9. ASSUME NEW t \in Nat PROVE Pairs(turned(s, t))
  <2>1. CASE t < h
    BY <1>6, <2>1
  <2>2. CASE t = h
    BY <1>7, <2>2
  <2>3. CASE h < t
    <3>1. turned(s, t) = <<parent(x, y)>>
      BY <1>8, <2>3
    <3>2. QED
      BY <3>1, FoldOne
  <2>4. QED
    BY <2>1, <2>2, <2>3
<1>10. QED
  BY <1>1, <1>8, <1>9 DEF Folds

LEMMA FoldsOne ==
    ASSUME NEW x
    PROVE  Folds(<<x>>, 0, x)
<1> DEFINE T == {t \in Nat : turned(<<x>>, t) = <<x>>}
<1>1. 0 \in T
  BY TurnedStep
<1>2. ASSUME NEW t \in Nat, t \in T PROVE t + 1 \in T
  <2>1. turned(<<x>>, t + 1) = fold_pairs(turned(<<x>>, t))
    BY TurnedStep
  <2>2. QED
    BY <1>2, <2>1, FoldOne
<1>3. T = Nat
  <2>1. T \in SUBSET Nat
    OBVIOUS
  <2> HIDE DEF T
  <2>2. QED
    BY <1>1, <1>2, <2>1, Induct
<1>4. Len(<<x>>) \in Nat /\ \A t \in Nat : turned(<<x>>, t) = <<x>>
  BY <1>3
<1>5. Pairs(<<x>>)
  BY FoldOne
<1>6. QED
  BY <1>4, <1>5 DEF Folds

-----------------------------------------------------------------------------
(* The nodes of a tree, with their hashes.                                 *)

\* How many leaves a node of an entry is over.
LEMMA LeafCount ==
    ASSUME NEW m \in Index \ {0}, NEW j \in Nat, HasNode(m, j)
    PROVE  LET f == range_start(m, j)
               c == leaf_count(m, j)
           IN  /\ f \in 1 .. m /\ m \in Nat /\ c = (m - f) + 1 /\ c \in Nat \ {0}
               /\ ceil_log2(c) = j
<1> DEFINE f == range_start(m, j)
           c == leaf_count(m, j)
           d == i_mod_2e(m - 1, j)
<1>1. f \in 1 .. m /\ m \in Nat \ {0}
  BY OverOwn, IndexIsNat
<1>2. d \in Int
  <2>1. m - 1 \in Nat /\ 2^j \in Nat \ {0}
    <3>1. 2^j \in Nat \ {0}
      BY PowerCounts
    <3> HIDE DEF f
    <3>2. QED
      BY <1>1, <3>1
  <2> DEFINE p == 2^j
  <2>2. p \in Nat \ {0}
    BY <2>1
  <2>3. d = IF j >= INDEX_SIZE THEN m - 1 ELSE (m - 1) % p
    BY DEF i_mod_2e
  <2> HIDE DEF d, p
  <2>4. QED
    BY <2>1, <2>2, <2>3
<1>3. f = m - d /\ c = d + 1
  BY DEF range_start, leaf_count
<1>4. c = (m - f) + 1 /\ c \in Nat \ {0}
  <2> HIDE DEF f, c, d
  <2>1. QED
    BY <1>1, <1>2, <1>3
<1>5. ceil_log2(c) = j
  <2>1. CASE j = 0
    <3>1. f = m
      BY <2>1, RangeOfLeaf
    <3> HIDE DEF f, c
    <3>2. c = 1
      BY <1>1, <1>4, <3>1
    <3>3. QED
      BY <2>1, <3>2, CeilLog
  <2>2. CASE j # 0
    <3>1. PICK k \in 1 .. Len(inodes(m)) : inodes(m)[k].node.j = j
      BY <2>2 DEF HasNode
    <3> DEFINE l == inodes(m)[k].left.i
               h == j - 1
               half == 2^h
    <3>2. l \in 1 .. m - 1 /\ l = (f + half) - 1 /\ (m - f) + 1 <= 2 * half
      BY <3>1, InodeStands
    <3>3. h \in Nat /\ h + 1 = j
      BY <2>2
    <3>4. half \in Nat
      BY <3>3, PowerCounts
    <3> HIDE DEF f, c, l, h, half
    <3>5. half < c /\ c <= 2 * half
      BY <1>1, <1>4, <3>2, <3>4
    <3>6. c \in Index
      <4>1. c \in 0 .. m
        BY <1>1, <1>4
      <4>2. QED
        BY <4>1, IndexIsNat
    <3>7. ceil_log2(c) = h + 1
      BY <3>3, <3>5, <3>6, CeilLog DEF half
    <3>8. QED
      BY <3>3, <3>7
  <2>3. QED
    BY <2>1, <2>2
<1>6. QED
  BY <1>1, <1>4, <1>5

NodeOf(H, a) == Node(a.i, a.j, H[a])
LeavesOf(H, a) ==
    [k \in 1 .. leaf_count(a.i, a.j) |-> NodeOf(H, Addr((range_start(a.i, a.j) + k) - 1, 0))]

\* Every inode is the parent of its children, and these are siblings.
LEMMA NodesJoin ==
    ASSUME NEW rev \in Index, NEW H, HashTree(H, rev), NEW m \in 1 .. rev, NEW k \in 1 .. Len(inodes(m))
    PROVE  LET w == inodes(m)[k]
               x == NodeOf(H, w.left)
               y == NodeOf(H, w.right)
           IN  /\ NodeOf(H, w.node) = parent(x, y) /\ may_be_siblings(x, y)
               /\ x.i < y.i
<1> DEFINE w == inodes(m)[k]
<1>1. m \in Index \ {0} /\ m \in Nat
  BY IndexIsNat
<1>2. /\ w.node = Addr(m, w.node.j) /\ w.left = Addr(w.left.i, w.node.j - 1) /\ w.right = Addr(m, w.right.j)
      /\ w.node.j \in Nat \ {0} /\ w.right.j \in 0 .. w.node.j - 1 /\ w.left.i \in 1 .. m - 1
  BY <1>1, InodeStands
<1>3. H[w.node] = combine(H[w.left], w.node.j, H[w.right])
  BY DEF HashTree
<1> HIDE DEF w
<1>4. w.node.i = m /\ w.left.j = w.node.j - 1 /\ w.right.i = m
  BY <1>2 DEF Addr
<1>5. w.left.j + 1 = w.node.j /\ w.left.i < w.right.i /\ w.left.j >= w.right.j
  BY <1>1, <1>2, <1>4
<1>6. QED
  BY <1>3, <1>4, <1>5 DEF NodeOf, Node, parent, may_be_siblings, w

\* The leaves of an inode are those of its left child, which is perfect, and then
\* those of its right one.
LEMMA LeavesJoin ==
    ASSUME NEW H, NEW m \in Index \ {0}, NEW k \in 1 .. Len(inodes(m))
    PROVE  LET w == inodes(m)[k]
           IN  /\ Joint(LeavesOf(H, w.node), LeavesOf(H, w.left), LeavesOf(H, w.right))
               /\ Len(LeavesOf(H, w.left)) = 2^w.left.j
<1> DEFINE w == inodes(m)[k]
           l == w.left.i
           j == w.node.j
           f == range_start(m, j)
           d == 2^(j - 1)
           L(a) == LeavesOf(H, a)
<1>1. /\ w.node = Addr(m, j) /\ w.left = Addr(l, j - 1) /\ w.right = Addr(m, w.right.j)
      /\ j \in Nat \ {0} /\ w.right.j \in 0 .. j - 1 /\ l \in 1 .. m - 1 /\ l \in Index \ {0}
      /\ f \in 1 .. l /\ l = (f + d) - 1
      /\ range_start(l, j - 1) = f /\ range_start(m, w.right.j) = l + 1
      /\ HasNode(m, j) /\ HasNode(m, w.right.j)
  BY InodeStands
<1>2. HasNode(l, w.left.j)
  BY InodeChildren
<1> HIDE DEF w
<1>3. w.node.i = m /\ w.left.j = j - 1 /\ w.right.i = m /\ j - 1 \in Nat /\ w.right.j \in Nat
  BY <1>1 DEF Addr
<1>4. /\ leaf_count(m, j) = (m - f) + 1 /\ leaf_count(l, j - 1) = (l - f) + 1
      /\ leaf_count(m, w.right.j) = (m - (l + 1)) + 1 /\ m \in Nat
  <2>1. leaf_count(m, j) = (m - range_start(m, j)) + 1 /\ m \in Nat
    BY <1>1, LeafCount
  <2>2. leaf_count(l, j - 1) = (l - range_start(l, j - 1)) + 1
    BY <1>1, <1>2, <1>3, LeafCount
  <2>3. leaf_count(m, w.right.j) = (m - range_start(m, w.right.j)) + 1
    BY <1>1, <1>3, LeafCount
  <2>4. range_start(m, j) = f /\ range_start(l, j - 1) = f /\ range_start(m, w.right.j) = l + 1
    BY <1>1
  <2>5. QED
    BY <2>1, <2>2, <2>3, <2>4
<1>5. d \in Nat
  BY <1>3, PowerCounts
<1> DEFINE g(i) == NodeOf(H, Addr(i, 0))
<1>6. /\ L(w.node) = [n \in 1 .. leaf_count(m, j) |-> g((f + n) - 1)]
      /\ L(w.left) = [n \in 1 .. leaf_count(l, j - 1) |-> g((f + n) - 1)]
      /\ L(w.right) = [n \in 1 .. leaf_count(m, w.right.j) |-> g(((l + 1) + n) - 1)]
  BY <1>1, <1>3 DEF LeavesOf
<1> HIDE DEF f, d, L, g, l, j
<1>7. ASSUME NEW n \in Nat, NEW b, NEW s, s = [i \in 1 .. n |-> g((b + i) - 1)]
      PROVE  Len(s) = n /\ \A i \in 1 .. n : s[i] = g((b + i) - 1)
  <2>1. \A i \in 1 .. n : s[i] = g((b + i) - 1)
    BY <1>7
  <2>2. s \in [1 .. n -> {g((b + i) - 1) : i \in 1 .. n}]
    BY <1>7
  <2>3. QED
    BY <2>1, <2>2
<1>8. /\ leaf_count(m, j) \in Nat /\ leaf_count(l, j - 1) \in Nat /\ leaf_count(m, w.right.j) \in Nat
      /\ leaf_count(m, j) = leaf_count(l, j - 1) + leaf_count(m, w.right.j)
      /\ leaf_count(l, j - 1) = d
  <2>1. f \in 1 .. l /\ l \in 1 .. m - 1 /\ l = (f + d) - 1
    BY <1>1
  <2>2. f \in Nat /\ l \in Nat /\ f <= l /\ l + 1 <= m
    BY <1>4, <2>1
  <2>3. (l - f) + 1 \in Nat /\ (l - f) + 1 = d
    BY <1>5, <2>1, <2>2
  <2>4. (m - (l + 1)) + 1 \in Nat /\ (m - f) + 1 \in Nat
    BY <1>4, <2>2
  <2>5. (m - f) + 1 = ((l - f) + 1) + ((m - (l + 1)) + 1)
    BY <1>4, <2>2
  <2>6. QED
    BY <1>4, <2>3, <2>4, <2>5
<1>9. /\ Len(L(w.node)) = leaf_count(m, j) /\ Len(L(w.left)) = leaf_count(l, j - 1)
      /\ Len(L(w.right)) = leaf_count(m, w.right.j)
      /\ \A n \in 1 .. leaf_count(m, j) : L(w.node)[n] = g((f + n) - 1)
      /\ \A n \in 1 .. leaf_count(l, j - 1) : L(w.left)[n] = g((f + n) - 1)
      /\ \A n \in 1 .. leaf_count(m, w.right.j) : L(w.right)[n] = g(((l + 1) + n) - 1)
  BY <1>6, <1>7, <1>8
<1>10. ASSUME NEW n \in 1 .. leaf_count(l, j - 1) PROVE L(w.node)[n] = L(w.left)[n]
  <2>1. n \in 1 .. leaf_count(m, j)
    BY <1>8
  <2>2. QED
    BY <1>9, <2>1
<1>11. ASSUME NEW n \in 1 .. leaf_count(m, w.right.j) PROVE L(w.node)[leaf_count(l, j - 1) + n] = L(w.right)[n]
  <2>1. leaf_count(l, j - 1) + n \in 1 .. leaf_count(m, j)
    BY <1>8
  <2>2. (f + (leaf_count(l, j - 1) + n)) - 1 = ((l + 1) + n) - 1
    BY <1>1, <1>5, <1>8
  <2>3. L(w.node)[leaf_count(l, j - 1) + n] = g((f + (leaf_count(l, j - 1) + n)) - 1)
    BY <1>9, <2>1
  <2>4. QED
    BY <1>9, <2>2, <2>3
<1>12. Joint(L(w.node), L(w.left), L(w.right))
  BY <1>8, <1>9, <1>10, <1>11 DEF Joint
<1>13. Len(L(w.left)) = 2^w.left.j
  BY <1>3, <1>8, <1>9 DEF d
<1>14. QED
  BY <1>12, <1>13 DEF L, w

\* The leaves below a node fold to that node.
LEMMA NodeFolds ==
    ASSUME NEW rev \in Index, NEW H, HashTree(H, rev), NEW m \in 1 .. rev, NEW j \in Nat, HasNode(m, j)
    PROVE  Folds(LeavesOf(H, Addr(m, j)), j, NodeOf(H, Addr(m, j)))
<1> DEFINE S == {a \in Addrs : a.i <= rev => Folds(LeavesOf(H, a), a.j, NodeOf(H, a))}
<1>1. ASSUME NEW i \in Index \ {0} PROVE Addr(i, 0) \in S
  <2> DEFINE a == Addr(i, 0)
             x == NodeOf(H, a)
  <2>1. a \in Addrs /\ a.i = i /\ a.j = 0
    BY NoBranches DEF Addr
  <2>2. range_start(i, 0) = i /\ leaf_count(i, 0) = (i - i) + 1 /\ i \in Nat
    <3>1. HasNode(i, 0)
      BY DEF HasNode
    <3>2. range_start(i, 0) = i
      BY RangeOfLeaf
    <3>3. leaf_count(i, 0) = (i - range_start(i, 0)) + 1 /\ i \in Nat
      BY <3>1, LeafCount
    <3>4. QED
      BY <3>2, <3>3
  <2>3. (i - i) + 1 = 1 /\ \A k \in 1 .. 1 : (i + k) - 1 = i
    BY <2>2
  <2>4. LeavesOf(H, a) = [k \in 1 .. 1 |-> NodeOf(H, Addr((i + k) - 1, 0))]
    BY <2>1, <2>2, <2>3 DEF LeavesOf
  <2>5. LeavesOf(H, a) = [k \in 1 .. 1 |-> x]
    BY <2>3, <2>4
  <2>6. LeavesOf(H, a) = <<x>>
    BY <2>5
  <2>7. Folds(<<x>>, 0, x)
    BY FoldsOne
  <2> HIDE DEF a, x
  <2>8. Folds(LeavesOf(H, a), a.j, NodeOf(H, a))
    BY <2>1, <2>6, <2>7 DEF x
  <2>9. QED
    BY <2>1, <2>8 DEF a
<1>2. ASSUME NEW i \in Index \ {0}, NEW k \in 1 .. Len(inodes(i)),
             inodes(i)[k].left \in S, inodes(i)[k].right \in S
      PROVE  inodes(i)[k].node \in S
  <2> DEFINE w == inodes(i)[k]
             l == w.left
             r == w.right
             a == w.node
             x == NodeOf(H, l)
             y == NodeOf(H, r)
  <2>1. a \in Addrs /\ l.i \in 1 .. i - 1 /\ r.i = i /\ a.i = i /\ l.j \in Nat /\ r.j \in Nat /\ r.j <= l.j
        /\ a.j = l.j + 1 /\ i \in Nat
    <3>1. /\ a = Addr(i, a.j) /\ l = Addr(l.i, a.j - 1) /\ r = Addr(i, r.j)
          /\ a.j \in Nat \ {0} /\ r.j \in 0 .. a.j - 1 /\ l.i \in 1 .. i - 1
      BY InodeStands
    <3>2. a \in Addrs /\ i \in Nat
      BY InodeChildren, IndexIsNat
    <3> HIDE DEF a, l, r
    <3>3. a.i = i /\ l.j = a.j - 1 /\ r.i = i
      BY <3>1 DEF Addr
    <3>4. QED
      BY <3>1, <3>2, <3>3
  <2> SUFFICES ASSUME a.i <= rev PROVE Folds(LeavesOf(H, a), a.j, NodeOf(H, a))
    BY <2>1
  <2>2. i \in 1 .. rev /\ l.i <= rev /\ r.i <= rev
    <3>1. i \in Nat \ {0} /\ rev \in Nat
      BY IndexIsNat
    <3> HIDE DEF l, r, a
    <3>2. QED
      BY <2>1, <3>1
  <2>3. Folds(LeavesOf(H, l), l.j, x) /\ Folds(LeavesOf(H, r), r.j, y)
    BY <1>2, <2>2
  <2>4. NodeOf(H, a) = parent(x, y) /\ may_be_siblings(x, y)
    BY <2>2, NodesJoin
  <2>5. Joint(LeavesOf(H, a), LeavesOf(H, l), LeavesOf(H, r)) /\ Len(LeavesOf(H, l)) = 2^l.j
    BY LeavesJoin
  <2> HIDE DEF a, l, r, w, x, y
  <2>6. Folds(LeavesOf(H, a), l.j + 1, parent(x, y))
    BY <2>1, <2>3, <2>4, <2>5, JoinFolds
  <2>7. QED
    BY <2>1, <2>4, <2>6
<1> HIDE DEF S
<1>3. Addr(m, j) \in S
  <2>1. m \in Index \ {0}
    BY IndexIsNat
  <2>2. QED
    BY <1>1, <1>2, <2>1, NodeInduction
<1>4. Addr(m, j).i = m /\ Addr(m, j).j = j /\ m <= rev
  BY IndexIsNat DEF Addr
<1>5. QED
  BY <1>3, <1>4 DEF S

-----------------------------------------------------------------------------
(* The way from a node to the root.                                        *)

Sibling(x, y) == may_be_siblings(x, y) \/ may_be_siblings(y, x)

\* Some branches lead from one node to another, each to a sibling of what is
\* known with those behind it.
Leads(b, from, to) ==
    /\ Len(b) \in Nat
    /\ \A f : Climb(b, f, from) =>
          /\ f[Len(b)] = to
          /\ \A k \in 0 .. Len(b) - 1 : Sibling(f[k], b[Len(b) - k])

LEMMA LeadsNowhere ==
    ASSUME NEW x
    PROVE  Leads(<<>>, x, x)
<1>1. Len(<<>>) = 0 /\ 0 .. 0 - 1 = {}
  OBVIOUS
<1>2. QED
  BY <1>1 DEF Leads, Climb

LEMMA LeadsFurther ==
    ASSUME NEW T, NEW b \in Seq(T), NEW z \in T, NEW from, NEW y, Leads(b, from, y), Sibling(y, z), NEW to,
           to = IF y.i < z.i THEN parent(y, z) ELSE parent(z, y)
    PROVE  Leads(<<z>> \o b, from, to)
<1> DEFINE c == <<z>> \o b
           n == Len(b)
<1>1. n \in Nat /\ Len(c) = n + 1 /\ c[1] = z /\ \A k \in 1 .. n : c[k + 1] = b[k]
  OBVIOUS
<1> SUFFICES ASSUME NEW f, Climb(c, f, from)
             PROVE  f[n + 1] = to /\ \A k \in 0 .. n : Sibling(f[k], c[(n + 1) - k])
  BY <1>1 DEF Leads
<1>2. f[0] = from /\ \A k \in 1 .. n + 1 :
         f[k] = LET branch == c[((n + 1) - k) + 1]
                IN  IF f[k - 1].i < branch.i THEN parent(f[k - 1], branch) ELSE parent(branch, f[k - 1])
  BY <1>1 DEF Climb
<1> HIDE DEF c
<1>3. ASSUME NEW k \in 1 .. n PROVE c[((n + 1) - k) + 1] = b[(n - k) + 1]
  <2>1. (n - k) + 1 \in 1 .. n /\ ((n + 1) - k) + 1 = ((n - k) + 1) + 1
    BY <1>1
  <2>2. QED
    BY <1>1, <2>1
<1>4. Climb(b, f, from)
  <2>1. ASSUME NEW k \in 1 .. n
        PROVE  f[k] = LET branch == b[(n - k) + 1]
                      IN  IF f[k - 1].i < branch.i THEN parent(f[k - 1], branch) ELSE parent(branch, f[k - 1])
    <3>1. k \in 1 .. n + 1
      BY <1>1
    <3>2. QED
      BY <1>2, <1>3, <3>1
  <2>2. QED
    BY <1>2, <2>1 DEF Climb
<1>5. f[n] = y /\ \A k \in 0 .. n - 1 : Sibling(f[k], b[n - k])
  BY <1>4 DEF Leads
<1>6. f[n + 1] = to
  <2>1. n + 1 \in 1 .. n + 1 /\ ((n + 1) - (n + 1)) + 1 = 1 /\ (n + 1) - 1 = n
    BY <1>1
  <2>2. QED
    BY <1>1, <1>2, <1>5, <2>1
<1>7. ASSUME NEW k \in 0 .. n PROVE Sibling(f[k], c[(n + 1) - k])
  <2>1. CASE k = n
    <3>1. (n + 1) - k = 1
      BY <1>1, <2>1
    <3>2. QED
      BY <1>1, <1>5, <2>1, <3>1
  <2>2. CASE k # n
    <3>1. k \in 0 .. n - 1 /\ n - k \in 1 .. n /\ (n + 1) - k = (n - k) + 1
      BY <1>1, <2>2
    <3>2. QED
      BY <1>1, <1>5, <3>1
  <2>3. QED
    BY <2>1, <2>2
<1>8. QED
  BY <1>6, <1>7

\* The storage has the nodes of the tree with their hashes.
Stored(H, rev) ==
    \A m \in 1 .. rev : \A j \in Nat : HasNode(m, j) => stored_node(m, j) = NodeOf(H, Addr(m, j))

StoredNodes == {stored_node(a.i, a.j) : a \in Addrs}

\* A node below another one, with the way to it.
Below(H, node, a) ==
    /\ node \in Addrs /\ node.j \in 0 .. a.j /\ node.i \in 1 .. a.i /\ HasNode(node.i, node.j)
    /\ node.i \in Over(a)
    /\ way_of(node)[a] \in Seq(StoredNodes)
    /\ Leads(way_of(node)[a], NodeOf(H, node), NodeOf(H, a))

LEMMA BelowStep ==
    ASSUME NEW m \in Index \ {0}
    PROVE  /\ below_of[Addr(m, 0)] = {Addr(m, 0)}
           /\ \A k \in 1 .. Len(inodes(m)) :
                LET w == inodes(m)[k]
                IN  below_of[w.node] = {w.node} \cup below_of[w.left] \cup below_of[w.right]
<1> DEFINE g == below_of
<1>1. \A a \in Addrs : g[a] = below_step(g, a)
  <2>1. g = [a \in Addrs |-> below_step(g, a)]
    BY BelowRecursion
  <2> HIDE DEF g
  <2>2. QED
    BY <2>1
<1>2. Addr(m, 0) \in Addrs /\ Addr(m, 0).j = 0
  BY NoBranches DEF Addr
<1> HIDE DEF g
<1>3. g[Addr(m, 0)] = {Addr(m, 0)}
  BY <1>1, <1>2 DEF below_step
<1>4. ASSUME NEW k \in 1 .. Len(inodes(m))
      PROVE  LET w == inodes(m)[k] IN g[w.node] = {w.node} \cup g[w.left] \cup g[w.right]
  <2> DEFINE w == inodes(m)[k]
  <2>1. /\ w.node \in Addrs /\ w.node = Addr(m, w.node.j) /\ w.node.j # 0
        /\ left_of(m, w.node.j) = w.left /\ right_of(m, w.node.j) = w.right
    BY InodeChildren
  <2>2. w.node.i = m
    BY <2>1 DEF Addr
  <2> HIDE DEF w
  <2>3. g[w.node] = {w.node} \cup (g[w.left] \cup g[w.right])
    BY <1>1, <2>1, <2>2 DEF below_step
  <2>4. QED
    BY <2>3 DEF w
<1>5. QED
  BY <1>3, <1>4 DEF g

LEMMA WayStep ==
    ASSUME NEW node, node.j \in Nat
    PROVE  /\ \A a \in Addrs : a.j <= node.j => way_of(node)[a] = <<>>
           /\ \A m \in Index \ {0} : \A k \in 1 .. Len(inodes(m)) :
                LET w == inodes(m)[k]
                IN  ~(w.node.j <= node.j) =>
                      way_of(node)[w.node] =
                        IF contains(w.left.i, w.left.j, node.i)
                        THEN <<stored_node(w.right.i, w.right.j)>> \o way_of(node)[w.left]
                        ELSE <<stored_node(w.left.i, w.left.j)>> \o way_of(node)[w.right]
<1> DEFINE g == way_of(node)
<1>1. \A a \in Addrs : g[a] = way_step(node, g, a)
  <2>1. g = [a \in Addrs |-> way_step(node, g, a)]
    BY WayRecursion
  <2> HIDE DEF g
  <2>2. QED
    BY <2>1
<1> HIDE DEF g
<1>3. \A a \in Addrs : a.j <= node.j => g[a] = <<>>
  BY <1>1 DEF way_step
<1>4. ASSUME NEW m \in Index \ {0}, NEW k \in 1 .. Len(inodes(m)), ~(inodes(m)[k].node.j <= node.j)
      PROVE  LET w == inodes(m)[k]
             IN  g[w.node] = IF contains(w.left.i, w.left.j, node.i)
                             THEN <<stored_node(w.right.i, w.right.j)>> \o g[w.left]
                             ELSE <<stored_node(w.left.i, w.left.j)>> \o g[w.right]
  <2> DEFINE w == inodes(m)[k]
  <2>1. /\ w.node \in Addrs /\ w.node = Addr(m, w.node.j)
        /\ left_of(m, w.node.j) = w.left /\ right_of(m, w.node.j) = w.right
    BY InodeChildren
  <2>2. w.node.i = m /\ ~(w.node.j <= node.j)
    BY <1>4, <2>1 DEF Addr
  <2> HIDE DEF w
  <2>3. QED
    BY <1>1, <2>1, <2>2 DEF way_step, w
<1>5. QED
  BY <1>3, <1>4 DEF g

LEMMA NodesBelow ==
    ASSUME NEW rev \in Index, NEW H, HashTree(H, rev), Stored(H, rev),
           NEW m \in 1 .. rev, NEW j \in Nat, HasNode(m, j), NEW node \in below_of[Addr(m, j)]
    PROVE  Below(H, node, Addr(m, j))
<1> DEFINE S == {a \in Addrs : a.i <= rev => \A x \in below_of[a] : Below(H, x, a)}
<1>1. ASSUME NEW a \in Addrs, HasNode(a.i, a.j), a.i \in Over(a), a.i \in Nat \ {0} PROVE Below(H, a, a)
  <2>1. a.j \in Nat /\ a.i \in 1 .. a.i /\ a.j \in 0 .. a.j /\ a.j <= a.j
    BY <1>1, AddrHeights
  <2>2. way_of(a)[a] = <<>>
    BY <2>1, WayStep
  <2>3. Leads(<<>>, NodeOf(H, a), NodeOf(H, a)) /\ <<>> \in Seq(StoredNodes)
    BY LeadsNowhere
  <2>4. QED
    BY <1>1, <2>1, <2>2, <2>3 DEF Below
<1>2. ASSUME NEW i \in Index \ {0} PROVE Addr(i, 0) \in S
  <2> DEFINE a == Addr(i, 0)
  <2>1. a \in Addrs /\ Over(a) = {i} /\ below_of[a] = {a} /\ i \in Nat \ {0}
    BY NoBranches, OverLeaf, BelowStep, IndexIsNat
  <2>2. a.i = i /\ HasNode(a.i, a.j)
    BY DEF HasNode, Addr
  <2> HIDE DEF a
  <2>3. Below(H, a, a)
    BY <1>1, <2>1, <2>2
  <2>4. QED
    BY <2>1, <2>3 DEF a
<1>3. ASSUME NEW i \in Index \ {0}, NEW k \in 1 .. Len(inodes(i)),
             inodes(i)[k].left \in S, inodes(i)[k].right \in S
      PROVE  inodes(i)[k].node \in S
  <2> DEFINE w == inodes(i)[k]
             l == w.left
             r == w.right
             a == w.node
             nl == NodeOf(H, l)
             nr == NodeOf(H, r)
  <2>1. /\ a \in Addrs /\ l \in Addrs /\ r \in Addrs /\ l.i \in 1 .. i - 1 /\ r.i = i /\ a.i = i /\ i \in Nat \ {0}
        /\ a.j \in Nat /\ l.j \in 0 .. a.j - 1 /\ r.j \in 0 .. a.j - 1
        /\ HasNode(i, a.j) /\ HasNode(l.i, l.j) /\ HasNode(i, r.j)
        /\ a = Addr(i, a.j) /\ l = Addr(l.i, l.j) /\ r = Addr(i, r.j)
    <3>1. /\ a \in Addrs /\ l \in Addrs /\ r \in Addrs /\ l.i \in 1 .. i - 1
          /\ a = Addr(i, a.j) /\ l = Addr(l.i, l.j) /\ r = Addr(i, r.j) /\ a.j \in Nat
          /\ l.j \in 0 .. a.j - 1 /\ r.j \in 0 .. a.j - 1
          /\ HasNode(i, a.j) /\ HasNode(l.i, l.j) /\ HasNode(i, r.j)
      BY InodeChildren
    <3>2. i \in Nat \ {0}
      BY IndexIsNat
    <3> HIDE DEF a, l, r
    <3>3. a.i = i /\ r.i = i
      BY <3>1 DEF Addr
    <3>4. QED
      BY <3>1, <3>2, <3>3
  <2> SUFFICES ASSUME a.i <= rev, NEW x \in below_of[a] PROVE Below(H, x, a)
    BY <2>1
  <2>2. i \in 1 .. rev /\ l.i <= rev /\ r.i <= rev /\ l.i \in 1 .. rev
    <3>1. rev \in Nat
      BY IndexIsNat
    <3> HIDE DEF l, r, a
    <3>2. QED
      BY <2>1, <3>1
  <2>3. below_of[a] = {a} \cup below_of[l] \cup below_of[r]
    BY BelowStep
  <2>4. Over(a) = Over(l) \cup Over(r) /\ Over(l) \cap Over(r) = {}
    BY OverInode
  <2>5. NodeOf(H, a) = parent(nl, nr) /\ may_be_siblings(nl, nr) /\ nl.i < nr.i
    BY <2>2, NodesJoin
  <2>6. (\A y \in below_of[l] : Below(H, y, l)) /\ (\A y \in below_of[r] : Below(H, y, r))
    BY <1>3, <2>2
  <2>7. \A y : y.j \in Nat => (~(a.j <= y.j) =>
           way_of(y)[a] = IF contains(l.i, l.j, y.i)
                          THEN <<stored_node(r.i, r.j)>> \o way_of(y)[l]
                          ELSE <<stored_node(l.i, l.j)>> \o way_of(y)[r])
    BY WayStep
  <2>8. \A y \in Nat : contains(l.i, l.j, y) <=> y \in Over(l)
    BY DEF Over
  <2>9. nl.i \in Int /\ nr.i \in Int
    BY <2>1 DEF NodeOf, Node
  <2> HIDE DEF a, l, r, w, S
  <2>10. stored_node(l.i, l.j) = nl /\ stored_node(r.i, r.j) = nr
    <3>1. l.j \in Nat /\ r.j \in Nat
      BY <2>1
    <3>2. stored_node(l.i, l.j) = NodeOf(H, Addr(l.i, l.j)) /\ stored_node(i, r.j) = NodeOf(H, Addr(i, r.j))
      BY <2>1, <2>2, <3>1 DEF Stored
    <3>3. QED
      BY <2>1, <3>2
  <2>11. nl \in StoredNodes /\ nr \in StoredNodes
    BY <2>1, <2>10 DEF StoredNodes
  <2> HIDE DEF nl, nr
  <2>12. Sibling(nl, nr) /\ Sibling(nr, nl)
    BY <2>5 DEF Sibling
  <2>13. CASE x = a
    <3>1. a.i \in Over(a) /\ HasNode(a.i, a.j)
      <4>1. Over(Addr(i, a.j)) = range_start(i, a.j) .. i /\ range_start(i, a.j) \in 1 .. i
        BY <2>1, OverOwn
      <4>2. QED
        BY <2>1, <4>1
    <3>2. QED
      BY <1>1, <2>1, <2>13, <3>1
  <2>14. CASE x \in below_of[l]
    <3>1. Below(H, x, l)
      BY <2>6, <2>14
    <3>2. /\ x \in Addrs /\ x.j \in 0 .. l.j /\ x.i \in 1 .. l.i /\ HasNode(x.i, x.j) /\ x.i \in Over(l)
          /\ way_of(x)[l] \in Seq(StoredNodes) /\ Leads(way_of(x)[l], NodeOf(H, x), nl)
      BY <3>1 DEF Below, nl
    <3>3. x.j \in Nat /\ ~(a.j <= x.j) /\ x.i \in Nat /\ x.j \in 0 .. a.j /\ x.i \in 1 .. a.i
      <4>1. x.i \in 1 .. i
        BY <2>1, <3>2
      <4>2. x.j \in Nat /\ ~(a.j <= x.j) /\ x.j \in 0 .. a.j
        BY <2>1, <3>2
      <4>3. QED
        BY <2>1, <4>1, <4>2
    <3>4. way_of(x)[a] = <<nr>> \o way_of(x)[l]
      BY <2>7, <2>8, <2>10, <3>2, <3>3
    <3>5. Leads(<<nr>> \o way_of(x)[l], NodeOf(H, x), NodeOf(H, a))
      BY <2>5, <2>11, <2>12, <3>2, LeadsFurther
    <3>6. <<nr>> \o way_of(x)[l] \in Seq(StoredNodes)
      BY <2>11, <3>2
    <3>7. QED
      BY <2>4, <3>2, <3>3, <3>4, <3>5, <3>6 DEF Below
  <2>15. CASE x \in below_of[r]
    <3>1. Below(H, x, r)
      BY <2>6, <2>15
    <3>2. /\ x \in Addrs /\ x.j \in 0 .. r.j /\ x.i \in 1 .. r.i /\ HasNode(x.i, x.j) /\ x.i \in Over(r)
          /\ way_of(x)[r] \in Seq(StoredNodes) /\ Leads(way_of(x)[r], NodeOf(H, x), nr)
      BY <3>1 DEF Below, nr
    <3>3. x.j \in Nat /\ ~(a.j <= x.j) /\ x.i \in Nat /\ x.j \in 0 .. a.j /\ x.i \in 1 .. a.i
      BY <2>1, <3>2
    <3>4. way_of(x)[a] = <<nl>> \o way_of(x)[r]
      <4>1. x.i \notin Over(l)
        BY <2>4, <3>2
      <4>2. QED
        BY <2>7, <2>8, <2>10, <3>3, <4>1
    <3>5. Leads(<<nl>> \o way_of(x)[r], NodeOf(H, x), NodeOf(H, a))
      <4>1. ~(nr.i < nl.i)
        BY <2>5, <2>9
      <4>2. QED
        BY <2>5, <2>11, <2>12, <3>2, <4>1, LeadsFurther
    <3>6. <<nl>> \o way_of(x)[r] \in Seq(StoredNodes)
      BY <2>11, <3>2
    <3>7. QED
      BY <2>4, <3>2, <3>3, <3>4, <3>5, <3>6 DEF Below
  <2>16. QED
    BY <2>3, <2>13, <2>14, <2>15
<1> HIDE DEF S
<1>4. Addr(m, j) \in S
  <2>1. m \in Index \ {0}
    BY IndexIsNat
  <2>2. QED
    BY <1>2, <1>3, <2>1, NodeInduction
<1>5. Addr(m, j).i <= rev
  BY IndexIsNat DEF Addr
<1>6. QED
  BY <1>4, <1>5 DEF S

-----------------------------------------------------------------------------
(* What the values below a node prove.                                     *)

\* The nodes in the storage are those of the tree over the log.
LEMMA StoredNodesAre ==
    ASSUME NEW n \in 0 .. MaxN, Tree(storage, n), n = revision
    PROVE  /\ HashTree(NodeHashes(Log), n) /\ Stored(NodeHashes(Log), n)
           /\ \A i \in 1 .. n : to_node(i, Log[i]) = NodeOf(NodeHashes(Log), Addr(i, 0))
<1> DEFINE L == Log
           H == NodeHashes(L)
<1>1. /\ L \in Seq(Value) /\ Len(L) = n /\ n \in Nat /\ n \in Index
      /\ \A e \in entries_of(storage) : L[index_of(e)] = e.enode.payload
      /\ \A i \in 1 .. n : \E e \in entries_of(storage) : index_of(e) = i
  BY LogType, Revisions DEF Log, Tree
<1> HIDE DEF L
<1>2. HashTree(H, n) /\ \A i \in 1 .. n : H[Addr(i, 0)] = from_bytes(0, L[i])
  BY <1>1, TreeOfHashes
<1>3. \A e \in entries_of(storage) : HashOK(L, e) /\ ShapeOK(e)
  BY <1>1, AllHashes, StoredShape
<1>4. ASSUME NEW m \in 1 .. n, NEW j \in Nat, HasNode(m, j)
      PROVE  stored_node(m, j) = NodeOf(H, Addr(m, j))
  <2> DEFINE e == CHOOSE x \in entries_of(storage) : index_of(x) = m
             o == CHOOSE x \in entry_meta(e, j) : TRUE
  <2>1. e \in entries_of(storage) /\ index_of(e) = m
    BY <1>1
  <2>2. stored_node(m, j) = Node(m, j, o.hash)
    BY DEF stored_node
  <2> HIDE DEF e
  <2>3. HashOK(L, e) /\ ShapeOK(e)
    BY <1>3, <2>1
  <2>4. /\ DOMAIN e.inodes = 1 .. Len(inodes(m)) /\ Len(e.inodes) = Len(inodes(m))
        /\ \A k \in 1 .. Len(inodes(m)) : e.inodes[k].meta.address.j = inodes(m)[k].node.j
    BY <2>1, <2>3 DEF ShapeOK
  <2>5. entry_meta(e, j) # {}
    <3>1. CASE j = 0
      BY <3>1 DEF entry_meta
    <3>2. CASE j # 0
      <4>1. PICK k \in 1 .. Len(inodes(m)) : inodes(m)[k].node.j = j
        BY <1>4, <3>2 DEF HasNode
      <4>2. e.inodes[k] \in entry_inode(e, j)
        BY <2>4, <4>1 DEF entry_inode, ToSet
      <4>3. QED
        BY <3>2, <4>2 DEF entry_meta
    <3>3. QED
      BY <3>1, <3>2
  <2>6. o \in entry_meta(e, j)
    BY <2>5
  <2> HIDE DEF o
  <2>7. o.hash = H[Addr(m, j)]
    <3>1. \A k \in 1 .. Len(e.inodes) : e.inodes[k].meta.address.j = inodes(index_of(e))[k].node.j
      BY <2>1, <2>4
    <3>2. o.hash = NodeHashes(L)[Addr(index_of(e), j)]
      BY <2>3, <2>6, <3>1, StoredHash
    <3>3. QED
      BY <2>1, <3>2
  <2>8. Addr(m, j).i = m /\ Addr(m, j).j = j
    BY DEF Addr
  <2> HIDE DEF H
  <2>9. QED
    BY <2>2, <2>7, <2>8 DEF NodeOf
<1>5. ASSUME NEW i \in 1 .. n PROVE to_node(i, L[i]) = NodeOf(H, Addr(i, 0))
  <2>1. H[Addr(i, 0)] = from_bytes(0, L[i])
    BY <1>2
  <2>2. Addr(i, 0).i = i /\ Addr(i, 0).j = 0
    BY DEF Addr
  <2> HIDE DEF H
  <2>3. QED
    BY <2>1, <2>2 DEF to_node, NodeOf
<1>6. QED
  BY <1>2, <1>4, <1>5 DEF Stored, L

LEMMA TreeProvesRoot == WriterInv /\ TreeInv => ValuesProveRoot
<1> SUFFICES ASSUME WriterInv, TreeInv, NEW node \in tree_nodes
             PROVE  LET x == values_below(node)
                        known(k) == joined(x, k)
                        branch(k) == x.branches[Len(x.branches) - k]
                    IN  /\ root_of_values(x) = stored_node(revision, Top.j)
                        /\ Len(folded(x.values)) = 1
                        /\ \A turn \in 0 .. ceil_log2(Len(x.values)) - 1 :
                              LET nodes == turned(x.values, turn)
                              IN  \A k \in 1 .. Len(nodes) \div 2 :
                                     may_be_siblings(nodes[2 * k - 1], nodes[2 * k])
                        /\ \A k \in 0 .. Len(x.branches) - 1 :
                              \/ may_be_siblings(known(k), branch(k))
                              \/ may_be_siblings(branch(k), known(k))
  BY DEF ValuesProveRoot, BranchesLeadToRoot, FoldingJoinsSiblings
<1> DEFINE n == revision
           H == NodeHashes(Log)
           x == values_below(node)
           v == x.values
           b == x.branches
<1>1. n \in 0 .. MaxN /\ Tree(storage, n) /\ n \in Nat /\ n \in Index
  BY WriterTree, Revisions DEF revision
<1>2. n # 0 /\ node \in below_of[Top]
  BY DEF tree_nodes, below_of, below_step
<1>3. n \in Index \ {0} /\ n \in 1 .. n
  BY <1>1, <1>2
<1>4. Top = Addr(n, Top.j) /\ Top.i = n /\ Top.j \in Nat /\ HasNode(n, Top.j)
  BY <1>3, RootNode DEF Top
<1>5. /\ HashTree(H, n) /\ Stored(H, n)
      /\ \A i \in 1 .. n : to_node(i, Log[i]) = NodeOf(H, Addr(i, 0))
  BY <1>1, StoredNodesAre
<1>6. v = nodes_of(node) /\ b = way_of(node)[Top]
  BY DEF values_below, ValuesWithBranches, branches_to, way_of, way_step
<1>7. root_of_values(x) = joined(x, Len(b))
  BY DEF root_of_values
<1> HIDE DEF H, x, n
<1>8. Below(H, node, Top)
  <2>1. node \in below_of[Addr(n, Top.j)]
    BY <1>2, <1>4
  <2>2. Below(H, node, Addr(n, Top.j))
    BY <1>1, <1>3, <1>4, <1>5, <2>1, NodesBelow
  <2>3. QED
    BY <1>4, <2>2
<1>9. /\ node \in Addrs /\ node.j \in Nat /\ node.i \in 1 .. n /\ HasNode(node.i, node.j)
      /\ node = Addr(node.i, node.j) /\ node.i \in Index \ {0}
      /\ b \in Seq(StoredNodes) /\ Leads(b, NodeOf(H, node), NodeOf(H, Top))
  <2>1. /\ node \in Addrs /\ node.j \in 0 .. Top.j /\ node.i \in 1 .. Top.i /\ HasNode(node.i, node.j)
        /\ b \in Seq(StoredNodes) /\ Leads(b, NodeOf(H, node), NodeOf(H, Top))
    BY <1>6, <1>8 DEF Below
  <2>2. node = Addr(node.i, node.j) /\ node.i \in Index \ {0}
    BY <1>4, <2>1, AddrHeights DEF Addrs
  <2>3. QED
    BY <1>4, <2>1, <2>2
<1> DEFINE f == range_start(node.i, node.j)
           c == leaf_count(node.i, node.j)
<1>10. f \in 1 .. node.i /\ c = (node.i - f) + 1 /\ c \in Nat \ {0} /\ ceil_log2(c) = node.j /\ node.i \in Nat
  BY <1>9, LeafCount
<1>11. v = LeavesOf(H, node)
  <2>1. v = [k \in 1 .. c |-> to_node((f + k) - 1, Log[(f + k) - 1])]
    <3>1. v = [k \in 1 .. c |-> to_node(f + (k - 1), Log[f + (k - 1)])]
      BY <1>6 DEF nodes_of
    <3> HIDE DEF f, c, v
    <3>2. \A k \in 1 .. c : f + (k - 1) = (f + k) - 1
      BY <1>10
    <3>3. QED
      BY <3>1, <3>2
  <2>2. LeavesOf(H, node) = [k \in 1 .. c |-> NodeOf(H, Addr((f + k) - 1, 0))]
    BY DEF LeavesOf
  <2> HIDE DEF f, c, v
  <2>3. ASSUME NEW k \in 1 .. c
        PROVE  to_node((f + k) - 1, Log[(f + k) - 1]) = NodeOf(H, Addr((f + k) - 1, 0))
    <3>1. (f + k) - 1 \in 1 .. n
      BY <1>1, <1>9, <1>10
    <3>2. QED
      BY <1>5, <3>1
  <2>4. QED
    BY <2>1, <2>2, <2>3
<1>12. Folds(v, node.j, NodeOf(H, node))
  <2>1. Folds(LeavesOf(H, Addr(node.i, node.j)), node.j, NodeOf(H, Addr(node.i, node.j)))
    BY <1>1, <1>5, <1>9, NodeFolds
  <2>2. QED
    BY <1>9, <1>11, <2>1
<1>13. Len(v) = c
  <2>1. v = [k \in 1 .. c |-> NodeOf(H, Addr((f + k) - 1, 0))]
    BY <1>11 DEF LeavesOf
  <2> HIDE DEF f, c, v
  <2>2. v \in [1 .. c -> {NodeOf(H, Addr((f + k) - 1, 0)) : k \in 1 .. c}]
    BY <2>1
  <2>3. QED
    BY <1>10, <2>2
<1>14. folded(v) = <<NodeOf(H, node)>>
  <2>1. folded(v) = turned(v, node.j)
    BY <1>10, <1>13 DEF folded
  <2>2. QED
    BY <1>9, <1>12, <2>1 DEF Folds
<1>15. Len(b) \in Nat
  BY <1>9 DEF Leads
<1> DEFINE g == [k \in 0 .. Len(b) |-> joined(x, k)]
<1>16. Climb(b, g, NodeOf(H, node))
  <2>1. Climb(b, g, Head(folded(v)))
    BY <1>15, JoinedClimbs
  <2>2. Head(folded(v)) = NodeOf(H, node)
    BY <1>14
  <2>3. QED
    BY <2>1, <2>2
<1>17. g[Len(b)] = NodeOf(H, Top) /\ \A k \in 0 .. Len(b) - 1 : Sibling(g[k], b[Len(b) - k])
  <2> HIDE DEF g
  <2>1. QED
    BY <1>9, <1>16 DEF Leads
<1>18. root_of_values(x) = stored_node(n, Top.j)
  <2>1. Len(b) \in 0 .. Len(b)
    BY <1>15
  <2>2. g[Len(b)] = joined(x, Len(b))
    BY <2>1
  <2>3. stored_node(n, Top.j) = NodeOf(H, Addr(n, Top.j))
    BY <1>3, <1>4, <1>5 DEF Stored
  <2>4. QED
    BY <1>4, <1>7, <1>17, <2>2, <2>3
<1>19. Len(folded(v)) = 1
  BY <1>14
<1>20. ASSUME NEW t \in 0 .. ceil_log2(Len(v)) - 1 PROVE Pairs(turned(v, t))
  <2>1. t \in Nat
    OBVIOUS
  <2>2. QED
    BY <1>12, <2>1 DEF Folds
<1>21. ASSUME NEW k \in 0 .. Len(b) - 1 PROVE Sibling(joined(x, k), b[Len(b) - k])
  <2>1. k \in 0 .. Len(b)
    BY <1>15
  <2>2. QED
    BY <1>17, <2>1
<1>22. QED
  BY <1>18, <1>19, <1>20, <1>21 DEF Pairs, Sibling, n, x

\* The values below any node and the nodes that branch off the way to it give the
\* root of the tree, also below nodes that are not perfect and though the values
\* are folded two by two from the left, whatever their number; each node is
\* joined with its right sibling, as parent asserts (lib.rs:78-86, 140-172).
THEOREM ValuesLeadToRoot == SlateSpec => []ValuesProveRoot
<1>1. QED
  BY TreeProvesRoot, WriterInvariant, TreeInvariant, PTL
=============================================================================
