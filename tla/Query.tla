------------------------------- MODULE Query -------------------------------
(***************************************************************************)
(* Queries of src/lib.rs next to the writer of module Slate.  A Query owns *)
(* a cursor and a shared reference to the cache of its snapshot, and no    *)
(* borrow of the Slate: it lives on while the writer appends, truncates    *)
(* and reopens.  Each of its steps visits one node or one entry, with at   *)
(* most one read of the storage; the writer may step between any two.      *)
(***************************************************************************)
EXTENDS Slate, StratumSample

CONSTANTS Reader,       \* the queries
          Operation     \* what they do, of "get", "get_sample" and "scan"

ASSUME QueryAssumption == Operation \subseteq {"get", "get_sample", "scan"}

VARIABLE query          \* the state of every query

vars == <<storage, position, cache, query>>

\* status   "closed"; "open", no call is running; "walking" and "scanning", one
\*          is; "done" and "failed", it has returned Ok or Err; "panicked"
\* cache    the cache of the snapshot
\* intact   no truncation has cut the snapshot (history, not in the code)
\* op, goal the running or last call; scan asks for goal .. upto
\* todo     the calls of _walk_down (or _read_entry) still to make
\* leaf     the payload found, an Option
\* seen     witnesses of get_sample, a set; entries passed on by scan, a list
\* at, last the position of the scan and, once read, the end of the storage, an Option
Closed == [status |-> "closed", cache |-> empty(0), intact |-> TRUE, op |-> "get",
           goal |-> 0, upto |-> 0, todo |-> <<>>, leaf |-> {}, seen |-> {}, at |-> 0, last |-> {}]

\* A node to visit: in an entry at hand, or at an address still to be read.
AtHand(e, k) == [at_hand |-> TRUE, entry |-> e, index |-> k]
ToRead(a) == [at_hand |-> FALSE, address |-> a]

Open(c) == [Closed EXCEPT !.status = "open", !.cache = c]
Running(q) == q.status \in {"walking", "scanning"}

-----------------------------------------------------------------------------
(* Calls.                                                                  *)

\* get asks for an index outside the snapshot.
\* Variant: a fault that GetReturnsValue shows.
out_of_range_early(q, i) == i \notin 1 .. q.cache.revision - 1
out_of_range(q, i) == i \notin 1 .. q.cache.revision

\* The call of op on a query, before its first step.
Call(q, op, goal, upto) ==
    LET started == [q EXCEPT !.op = op, !.goal = goal, !.upto = upto, !.leaf = {},
                             !.seen = IF op = "scan" THEN <<>> ELSE {},
                             !.todo = <<>>, !.at = 0, !.last = {}]
        returns == \/ last_entry(q.cache) = {}
                   \/ op = "get" /\ out_of_range(q, goal)
                   \/ op = "scan" /\ goal > upto
        e       == CHOOSE x \in last_entry(q.cache) : TRUE
    IN  IF returns THEN [started EXCEPT !.status = "done"]
        ELSE [started EXCEPT !.status = "walking", !.todo = <<AtHand(e, Len(e.inodes))>>]

\* The bounds scan works with (lib.rs:1012-1017).
scan_first(q, i0, i1) == Max({1, Min({i0, i1})})
scan_last(q, i0, i1) == Min({q.cache.revision, Max({i0, i1})})

\* The entry of an address: the cached one, or what the storage has there now.
fetch(q, a) ==
    IF cache_entry(q.cache, a.i) # {} THEN cache_entry(q.cache, a.i)
    ELSE read_entry_with_index_check(storage, a)

\* The node indices of height j in an entry: 0 is the leaf, k inode k.
\* Variants: faults that IntactNeverFails and WalksNeverPanic show.
node_indices_above(e, j) == {k \in 1 .. Len(e.inodes) : e.inodes[k].meta.address.j = j + 1}
node_indices_from_zero(e, j) ==
    IF j = 0 THEN {0} ELSE {k - 1 : k \in {m \in 1 .. Len(e.inodes) : e.inodes[m].meta.address.j = j}}
node_indices(e, j) ==
    IF j = 0 THEN {0} ELSE {k \in 1 .. Len(e.inodes) : e.inodes[k].meta.address.j = j}

node_meta(e, k) == IF k = 0 THEN e.enode.meta ELSE e.inodes[k].meta

\* The nodes of the next call of _walk_down, none when its read or the search
\* for the node in the entry fails.
next_nodes(q) ==
    LET call == Head(q.todo)
    IN  IF call.at_hand THEN {<<call.entry, call.index>>}
        ELSE UNION {{<<e, k>> : k \in node_indices(e, call.address.j)} : e \in fetch(q, call.address)}

-----------------------------------------------------------------------------
(* Walking down: the callbacks of get and get_sample and what _walk_down   *)
(* does on their answers.                                                  *)

\* The callback's answer at node b_{i,j}.
direction(q, i, j) ==
    IF q.op = "get"
    THEN IF i = q.goal THEN IF j = 0 THEN "Terminate" ELSE "Right"
         ELSE LET r == right_of(i, j)
              IN  IF contains(r.i, r.j, q.goal) THEN "Right" ELSE "Left"
    ELSE IF ~contains(i, j, q.goal) \/ j = 0 THEN "Terminate" ELSE "Both"

\* The callback is at the leaf of the goal.
\* Variant: a fault that LeafIsLogged shows.
at_goal_any(q, e, k) == k = 0
at_goal(q, e, k) == k = 0 /\ index_of(e) = q.goal

\* The callback's effect there: the leaf it finds, the witness it collects.
noted(q, e, k) ==
    LET a == node_meta(e, k).address
    IN  IF at_goal(q, e, k) THEN [q EXCEPT !.leaf = {e.enode.payload}]
        ELSE IF q.op = "get_sample" /\ ~contains(a.i, a.j, q.goal)
        THEN [q EXCEPT !.seen = @ \cup {Witness(a.i, a.j, node_meta(e, k).hash)}]
        ELSE q

\* Variant: a fault that CallsReturn shows.
calls_below_here(q, e, k) == IF k = 0 THEN <<>> ELSE <<AtHand(e, k)>>

\* The calls _walk_down makes below node k of entry e, the right one first.
calls_below(q, e, k) ==
    LET a     == node_meta(e, k).address
        dir   == direction(q, a.i, a.j)
        right == IF dir \in {"Right", "Both"} THEN <<AtHand(e, k - 1)>> ELSE <<>>
        left  == IF dir \in {"Left", "Both"} THEN <<ToRead(e.inodes[k].left)>> ELSE <<>>
    IN  IF k = 0 THEN <<>> ELSE right \o left

Visit(q, e, k) ==
    LET a    == node_meta(e, k).address
        todo == calls_below(q, e, k) \o Tail(q.todo)
        next == [noted(q, e, k) EXCEPT !.todo = todo,
                                       !.status = IF todo = <<>> THEN "done" ELSE "walking"]
    IN  \* subnodes_of a leaf subtracts one from height 0 and panics
        IF q.op = "get" /\ k = 0 /\ a.i # q.goal THEN [q EXCEPT !.status = "panicked"] ELSE next

WalkStep(q) ==
    IF next_nodes(q) = {} THEN [q EXCEPT !.status = "failed", !.todo = <<>>]
    ELSE LET node == CHOOSE x \in next_nodes(q) : TRUE
         IN  Visit(q, node[1], node[2])

-----------------------------------------------------------------------------
(* Scanning: read_entry to the first index, then the end of the storage,   *)
(* then entry after entry without a check of the index (Reader::scan).     *)

SeekStep(q) ==
    LET call    == Head(q.todo)
        entries == IF call.at_hand THEN {call.entry} ELSE fetch(q, call.address)
        e       == CHOOSE x \in entries : TRUE
        ways    == {k \in 1 .. Len(e.inodes) :
                       contains(e.inodes[k].left.i, e.inodes[k].left.j, q.goal)}
    IN  IF entries = {} THEN [q EXCEPT !.status = "failed", !.todo = <<>>]
        ELSE IF index_of(e) = q.goal
        THEN [q EXCEPT !.status = "scanning", !.todo = <<>>, !.at = position_of(e)]
        ELSE IF ways = {} THEN [q EXCEPT !.status = "done", !.todo = <<>>]
        ELSE [q EXCEPT !.todo = <<ToRead(e.inodes[Min(ways)].left)>>]

\* Variant: a fault that ScanDeliversRange shows.
scan_count_open(q) == q.upto - q.goal
scan_count(q) == q.upto - q.goal + 1

ScanStep(q) ==
    IF q.last = {} THEN [q EXCEPT !.last = {storage.end}]
    ELSE IF (\A end \in q.last : q.at >= end) \/ Len(q.seen) >= scan_count(q)
    THEN [q EXCEPT !.status = "done"]
    ELSE IF q.at \notin DOMAIN storage.data THEN [q EXCEPT !.status = "failed"]
    ELSE LET e == storage.data[q.at]
         IN  [q EXCEPT !.seen = Append(@, <<index_of(e), e.enode.payload>>),
                       !.at = @ + entry_size(e)]

-----------------------------------------------------------------------------
(* The state machine.                                                      *)

Init == SlateInit /\ query = [r \in Reader |-> Closed]

\* A truncation below the revision of a snapshot takes entries from under it.
NoteCuts == query' = [r \in Reader |->
                        [query[r] EXCEPT !.intact = @ /\ query[r].cache.revision <= cache'.revision]]

Write == SlateNext /\ NoteCuts

\* Slate::snapshot().query(), for the current revision.
OpenQuery(r) ==
    /\ query[r].status = "closed"
    /\ query' = [query EXCEPT ![r] = Open(cache)]
    /\ UNCHANGED slateVars

\* Slate::snapshot_at(revision).query(), whose cache is loaded from storage.
OpenQueryAt(r, rev) ==
    /\ query[r].status = "closed"
    /\ \E e \in read_entry(storage, cache, rev) :
          /\ load_succeeds(storage, cache.level, e)
          /\ query' = [query EXCEPT ![r] = Open(load(storage, cache.level, e))]
    /\ UNCHANGED slateVars

Close(r) ==
    /\ query[r].status \notin {"closed", "panicked"} /\ ~Running(query[r])
    /\ query' = [query EXCEPT ![r] = Closed]
    /\ UNCHANGED slateVars

Start(r, op, i0, i1) ==
    /\ query[r].status = "open"
    /\ query' = [query EXCEPT ![r] =
                   IF op = "scan" THEN Call(@, op, scan_first(@, i0, i1), scan_last(@, i0, i1))
                   ELSE Call(@, op, i0, i0)]
    /\ UNCHANGED slateVars

Step(r) ==
    /\ Running(query[r])
    /\ query' = [query EXCEPT ![r] = IF @.status = "scanning" THEN ScanStep(@)
                                     ELSE IF @.op = "scan" THEN SeekStep(@)
                                     ELSE WalkStep(@)]
    /\ UNCHANGED slateVars

Next == \/ Write
        \/ \E r \in Reader :
             \/ OpenQuery(r)
             \/ \E rev \in 1 .. MaxN : OpenQueryAt(r, rev)
             \/ Close(r)
             \/ \E op \in Operation : \E i0 \in 0 .. MaxN + 1 :
                   \E i1 \in IF op = "scan" THEN 0 .. MaxN + 1 ELSE {i0} : Start(r, op, i0, i1)
             \/ Step(r)

Spec == Init /\ [][Next]_vars

\* A thread that runs a call on a query runs it to its end.
FairSpec == Spec /\ \A r \in Reader : WF_vars(Step(r))

-----------------------------------------------------------------------------
(* Properties.                                                             *)

Finished(q, op) == q.status = "done" /\ q.op = op

\* A get on an intact snapshot returns the value of its index, and None outside
\* the snapshot only (lib.rs:957-982), however the writer has gone on since.
GetReturnsValue ==
    \A r \in Reader : LET q == query[r] IN
        Finished(q, "get") /\ q.intact =>
            q.leaf = IF q.goal \in 1 .. q.cache.revision THEN {Log[q.goal]} ELSE {}

\* A call that asks for an index of its snapshot finds a value or returns an Err,
\* never None, even when a truncation has cut the snapshot and other entries have
\* taken the place of those it reads (lib.rs:571-573, 902-982): a reader without
\* a lock does not take a value that is there for one that is not.
FoundOrFailed ==
    \A r \in Reader : LET q == query[r] IN
        q.status = "done" /\ q.op \in {"get", "get_sample"} /\ q.goal \in 1 .. q.cache.revision
            => q.leaf # {}

\* Whatever a walk has found in an intact snapshot, finished or not, is the
\* value of the index it was asked for: the index of an entry is its identity,
\* and the check of read_entry_with_index_check (lib.rs:1058-1075) is enough.
LeafIsLogged ==
    \A r \in Reader : LET q == query[r] IN
        q.intact /\ q.goal \in 1 .. q.cache.revision => q.leaf \subseteq {Log[q.goal]}

\* A sample taken from an intact snapshot leads to the root hash of the
\* snapshot, with the leaf asked for and one witness per branch of its way
\* (lib.rs:717-751, 984-1004): what a client verifies it against.
SampleProvesRoot ==
    \A r \in Reader : LET q == query[r] IN
        Finished(q, "get_sample") /\ q.intact =>
            LET rev == q.cache.revision IN
            IF q.goal \in 1 .. rev
            THEN LET x == Sample(rev, q.goal, Log[q.goal], q.seen)
                 IN  /\ q.leaf = {Log[q.goal]}
                     /\ root_hash_succeeds(x)
                     /\ \A m \in cache_root(q.cache) : root_hash(x) = m.hash
                     /\ Cardinality(q.seen) = stratum_sample_size(rev, q.goal)
            ELSE q.leaf = {}

\* A scan of an intact snapshot passes on the entries of its range, each once
\* and in order, though it checks no index on the way (lib.rs:1006-1027,
\* storage.rs:85-103) and entries may be appended behind the range meanwhile.
ScanDeliversRange ==
    \A r \in Reader : LET q == query[r] IN
        Finished(q, "scan") /\ q.intact =>
            /\ q.seen # <<>> => 1 <= q.goal /\ q.upto <= q.cache.revision
            /\ q.seen = [k \in 1 .. IF q.goal > q.upto THEN 0 ELSE q.upto - q.goal + 1 |->
                            <<q.goal + k - 1, Log[q.goal + k - 1]>>]

\* The hash at the top of an intact snapshot is that of the tree over the first
\* values of the log, for snapshots of earlier revisions as well, which are
\* rebuilt from storage (lib.rs:592-597): a snapshot is a past state.
SnapshotIsPastState ==
    \A r \in Reader : LET q == query[r] IN
        q.status # "closed" /\ q.intact =>
            \A m \in cache_root(q.cache) :
                m.hash = TreeHash(SubSeq(Log, 1, q.cache.revision))

\* On an intact snapshot no call fails: an Err comes from a truncation only
\* (lib.rs:571-573).
IntactNeverFails == \A r \in Reader : query[r].intact => query[r].status # "failed"

\* Even over entries that a truncation has replaced, no walk leaves the way to
\* its goal; get would panic at another leaf (lib.rs:977).
WalksNeverPanic == \A r \in Reader : query[r].status # "panicked"

\* The inductive invariant behind LeafIsLogged: what an intact query holds in its
\* cache or at hand, as far as it belongs to the snapshot, is still stored.
StillStored(q, s, e) == index_of(e) <= q.cache.revision => e \in entries_of(s)

IntactOK(q, s, n) ==
    /\ q.cache.revision \in 0 .. n
    /\ \A e \in cached_entries(q.cache) : StillStored(q, s, e)
    /\ \A call \in ToSet(q.todo) : call.at_hand => StillStored(q, s, call.entry)
    /\ \A v \in q.leaf : q.goal <= q.cache.revision =>
          \E e \in entries_of(s) : index_of(e) = q.goal /\ e.enode.payload = v

QueryOK(q, s, n) ==
    /\ DOMAIN q = DOMAIN Closed
    /\ q.intact \in BOOLEAN
    /\ q.todo \in Seq(ToSet(q.todo))
    /\ q.status = "walking" => q.todo # <<>>
    /\ q.intact => IntactOK(q, s, n)

QueryInv == /\ DOMAIN query = Reader
            /\ \A r \in Reader : QueryOK(query[r], storage, revision)

\* Every call returns, whatever the writer does in between.
CallsReturn == \A r \in Reader : Running(query[r]) ~> ~Running(query[r])
=============================================================================
