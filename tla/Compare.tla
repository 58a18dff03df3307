------------------------------ MODULE Compare ------------------------------
(***************************************************************************)
(* StratumSample::compare of src/lib.rs, and the search for a leaf in      *)
(* which two trees differ that its doc shows: a client sends a sample of   *)
(* an index, the server compares it with its own sample of the same        *)
(* revision and answers with the nodes in which the trees diverge, and the *)
(* client goes on with one of them.  Both parties append meanwhile.        *)
(*                                                                         *)
(* The samples are what get_sample returns for a snapshot that nobody cuts *)
(* (SampleProvesRoot of module Query).                                     *)
(***************************************************************************)
EXTENDS StratumSample

ASSUME CompareAssumption == MaxN \in Index

VARIABLES client,       \* the values of the client
          server,       \* the values of the server
          search        \* the search

compareVars == <<client, server, search>>

-----------------------------------------------------------------------------
(* Samples of a list of values.                                            *)

\* The hashes of the nodes of the trees over these values.
node_hash(log) ==
    LET hash[a \in Addrs] ==
          IF a.j = 0 THEN from_bytes(0, log[a.i])
          ELSE combine(hash[left_of(a.i, a.j)], a.j, hash[right_of(a.i, a.j)])
    IN  hash

\* get_sample(i) of snapshot_at(rev).
get_sample(log, rev, i) ==
    Sample(rev, i, log[i], {Witness(a.i, a.j, node_hash(log)[a]) : a \in branches_off(root_of(rev), i)})

-----------------------------------------------------------------------------
(* compare, once both root hashes are computed.                            *)

comparable(x, y) == x.revision = y.revision /\ x.i = y.i
identical(x, y) == root_hash(x) = root_hash(y)

\* Both samples have the same nodes, or compare panics.
compare_never_panics(x, y) ==
    \A w \in x.witnesses : \E u \in y.witnesses : u.i = w.i /\ u.j = w.j

\* The nodes in which they differ.
\* Variant: a fault that CompareIsExact shows.
divergents_above(x, y) ==
    {Addr(w.i, w.j) : w \in {u \in x.witnesses : u.hash # witness_hash(y, u)}}
divergents(x, y) ==
    {Addr(w.i, w.j) : w \in {u \in x.witnesses : u.hash # witness_hash(y, u)}}
    \cup {a \in {Addr(x.i, 0)} : from_bytes(0, x.payload) # from_bytes(0, y.payload)}

\* The first of them in the order of the answer: by index and then by height,
\* the greatest first.
\* Variant: a fault that SearchFindsLatest shows.
first_unreversed(nodes) == CHOOSE a \in nodes : \A b \in nodes : a.i < b.i \/ (a.i = b.i /\ a.j <= b.j)
first_divergent(nodes) == CHOOSE a \in nodes : \A b \in nodes : a.i > b.i \/ (a.i = b.i /\ a.j >= b.j)

-----------------------------------------------------------------------------
(* The search.                                                             *)

\* node is the node the search has come down to.
Search(step, revision, i, node, sample, diffs) ==
    [step |-> step, revision |-> revision, i |-> i, node |-> node, sample |-> sample, diffs |-> diffs]
NoSample == [witnesses |-> {}]
NoSearch == Search("none", 0, 0, Addr(0, 0), NoSample, {})

Init == client = <<>> /\ server = <<>> /\ search = NoSearch

ClientAppend(v) == /\ Len(client) < MaxN
                   /\ client' = Append(client, v)
                   /\ UNCHANGED <<server, search>>
ServerAppend(v) == /\ Len(server) < MaxN
                   /\ server' = Append(server, v)
                   /\ UNCHANGED <<client, search>>

\* The revision is fixed now, any index may be the first.
Start(i) == /\ search.step = "none" /\ i \in 1 .. Len(client)
            /\ search' = Search("ask", Len(client), i, root_of(Len(client)), NoSample, {})
            /\ UNCHANGED <<client, server>>

\* The client sends its sample.
Ask == /\ search.step = "ask"
       /\ search' = [search EXCEPT !.step = "sent",
                                   !.sample = get_sample(client, search.revision, search.i)]
       /\ UNCHANGED <<client, server>>

\* The server compares its own sample with it; it may not have the revision yet.
Compare == /\ search.step = "sent"
           /\ IF search.revision > Len(server)
              THEN search' = [search EXCEPT !.step = "failed", !.sample = NoSample]
              ELSE LET y == get_sample(server, search.sample.revision, search.sample.i)
                   IN  /\ comparable(y, search.sample)
                       /\ root_hash_succeeds(y) /\ root_hash_succeeds(search.sample)
                       /\ identical(y, search.sample) \/ compare_never_panics(y, search.sample)
                       /\ search' = IF identical(y, search.sample)
                                    THEN [search EXCEPT !.step = "identical", !.sample = NoSample]
                                    ELSE [search EXCEPT !.step = "answered", !.sample = NoSample,
                                                        !.diffs = divergents(y, search.sample)]
           /\ UNCHANGED <<client, server>>

\* The client goes on with the first node of the answer.
\* Variant: a fault that SearchEnds shows.
Continue_in_place ==
    /\ search.step = "answered"
    /\ LET d == first_divergent(search.diffs)
       IN  search' = [search EXCEPT !.step = IF d.j = 0 THEN "found" ELSE "ask", !.diffs = {}]
    /\ UNCHANGED <<client, server>>
Continue ==
    /\ search.step = "answered"
    /\ LET d == first_divergent(search.diffs)
       IN  search' = [search EXCEPT !.step = IF d.j = 0 THEN "found" ELSE "ask",
                                    !.i = d.i, !.node = d, !.diffs = {}]
    /\ UNCHANGED <<client, server>>

Restart == /\ search.step \in {"found", "identical", "failed"}
           /\ search' = NoSearch
           /\ UNCHANGED <<client, server>>

SearchStep == Ask \/ Compare \/ Continue

Next == \/ \E v \in Value : ClientAppend(v) \/ ServerAppend(v)
        \/ \E i \in 1 .. MaxN : Start(i)
        \/ SearchStep \/ Restart

Spec == Init /\ [][Next]_compareVars

\* Both parties go on with a search they have begun.
FairSpec == Spec /\ WF_compareVars(SearchStep)

-----------------------------------------------------------------------------
(* Properties.                                                             *)

\* The leaves in which the trees of the search's revision differ.
Differing == {i \in 1 .. search.revision : client[i] # server[i]}

\* The nodes that compare names contain all leaves that differ, each of them
\* once, and each node contains one of them; it says Identical when there are
\* none (lib.rs:753-756, 806-840).
CompareIsExact ==
    /\ search.step = "answered" =>
          /\ \A i \in Differing : Cardinality({d \in search.diffs : contains(d.i, d.j, i)}) = 1
          /\ \A d \in search.diffs : \E i \in Differing : contains(d.i, d.j, i)
    /\ search.step = "identical" => Differing = {}

\* The search comes to the latest leaf that differs, however many there are and
\* whatever has been appended since (lib.rs:772-803, 837).
SearchFindsLatest == search.step = "found" => Differing # {} /\ search.i = Max(Differing)

\* Every search ends: each answer leads to a node below the one before, and no
\* sample that get_sample makes has root_hash fail or compare panic (lib.rs:717-751,
\* 778-832), after which the search would not go on.
SearchEnds == search.step = "ask" ~> search.step \in {"found", "identical", "failed"}
=============================================================================
