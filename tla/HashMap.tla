------------------------------ MODULE HashMap ------------------------------
(***************************************************************************)
(* The hash map of hash_map_impl.hpp: nodes in one array, linked into one   *)
(* list in which the nodes of a bucket stand together; a bucket keeps the   *)
(* first of its nodes, freed nodes are linked through `next`.  Indexes      *)
(* count from 1 and 0 is QLOG_HASH_MAP_INVALID_INDEX.  Two maps, so that    *)
(* one can be copied or moved into the other; `ref` is what a caller        *)
(* expects each to hold.                                                    *)
(***************************************************************************)
EXTENDS Naturals, FiniteSets, Sequences, SequencesExt

CONSTANTS
    Keys,           \* numbers; a key is its own hash
    Rates,          \* values of expand_rate_, in halves
    MaxMapCalls     \* bound on the calls of a behaviour

VARIABLES maps, ref, mapCalls
hmvars == <<maps, ref, mapCalls>>

Two     == {"a", "b"}
NoNode  == [prev |-> 0, next |-> 0, bucket |-> 0, key |-> 0, val |-> 0]
NoMap   == [nodes |-> <<>>, buckets |-> <<>>, size |-> 0, head |-> 0, tail |-> 0, free |-> 0, rate |-> 3]

(* utility::round_pow_of_two *)
RoundPow2(n) == CHOOSE p \in {2^i : i \in 0 .. 6} : p >= n /\ p < 2 * n

(* get_bucket_index_by_key *)
BucketOf(m, k) == (k % Len(m.buckets)) + 1

(* the list from node i on, as operator++ walks it *)
RECURSIVE WalkFrom(_, _, _)
WalkFrom(m, i, fuel) == IF i = 0 \/ fuel = 0 THEN <<>> ELSE <<i>> \o WalkFrom(m, m.nodes[i].next, fuel - 1)
Walk(m)     == WalkFrom(m, m.head, Len(m.nodes) + 1)
FreeList(m) == WalkFrom(m, m.free, Len(m.nodes) + 1)

Linked(m, i, field, j) == IF i = 0 THEN m ELSE [m EXCEPT !.nodes[i] = [@ EXCEPT ![field] = j]]

(* mutant of Relink: a node is not moved to its bucket *)
Relink_in_place(m, i) ==
    LET b == BucketOf(m, m.nodes[i].key) here == [m EXCEPT !.nodes[i].bucket = b]
    IN  IF m.buckets[b] = 0 THEN [here EXCEPT !.buckets[b] = i] ELSE here

(* expand_buckets, one node: the first of its bucket stays where it is, one   *)
(* that does not follow that first node is linked in behind it               *)
Relink(m, i) ==
    LET b     == BucketOf(m, m.nodes[i].key)
        first == m.buckets[b]
        here  == [m EXCEPT !.nodes[i].bucket = b]
        op    == m.nodes[i].prev
        on    == m.nodes[i].next
        out   == Linked(Linked(here, op, "next", on), on, "prev", op)
        nn    == m.nodes[first].next
    IN  IF first = 0 THEN [here EXCEPT !.buckets[b] = i]
        ELSE IF op = first THEN here
        ELSE Linked(Linked([out EXCEPT !.nodes[i].prev = first, !.nodes[i].next = nn,
                                       !.tail = IF first = nn THEN 0 ELSE IF @ = i THEN op ELSE @],
                           first, "next", i), nn, "prev", i)

expand_buckets(m, n) ==
    IF n <= Len(m.buckets) THEN m
    ELSE FoldLeft(Relink, [m EXCEPT !.buckets = [b \in 1 .. RoundPow2(n) |-> 0]], Walk(m))

(* expand_nodes: the new nodes go in front of the free ones, lowest first *)
expand_nodes(m, n) ==
    LET old == Len(m.nodes) new == RoundPow2(n)
    IN  IF n <= old THEN m
        ELSE [m EXCEPT !.nodes = [i \in 1 .. new |-> IF i <= old THEN @[i]
                                    ELSE [NoNode EXCEPT !.next = IF i = new THEN m.free ELSE i + 1]],
                       !.free  = old + 1]

(* find_index_and_bucket_idx_by_key: from the bucket's first node while the   *)
(* nodes are of that bucket                                                  *)
RECURSIVE Search(_, _, _, _)
Search(m, i, b, k) ==
    IF i = 0 \/ m.nodes[i].bucket # b THEN 0
    ELSE IF m.nodes[i].key = k THEN i ELSE Search(m, m.nodes[i].next, b, k)
find(m, k) == IF m.buckets = <<>> THEN 0 ELSE Search(m, m.buckets[BucketOf(m, k)], BucketOf(m, k), k)

(* node j follows node i, 0 being the end of the list on either side *)
LinkNext(m, i, j) == IF i = 0 THEN [m EXCEPT !.head = j] ELSE Linked(m, i, "next", j)
LinkPrev(m, j, i) == IF j = 0 THEN [m EXCEPT !.tail = i] ELSE Linked(m, j, "prev", i)

(* a free node, and in front of its bucket or, as the bucket's first, at the *)
(* end of the list                                                           *)
WithFree(m) == IF m.free = 0 THEN expand_nodes(m, Len(m.nodes) + 1) ELSE m
InFront(m, k, x) ==
    LET b    == BucketOf(m, k)
        next == m.buckets[b]
        prev == IF next = 0 THEN m.tail ELSE m.nodes[next].prev
        i    == m.free
        node == [prev |-> prev, next |-> next, bucket |-> b, key |-> k, val |-> x]
    IN  LinkPrev(LinkNext([m EXCEPT !.free = m.nodes[i].next, !.nodes[i] = node, !.buckets[b] = i, !.size = @ + 1],
                          prev, i), next, i)

(* alloc_node_by_key and add: the buckets grow first *)
Add(m, k, x) == InFront(WithFree(expand_buckets(m, ((m.size + 1) * m.rate) \div 2 + 1)), k, x)

(* erase: unlinked, taken from the bucket, put on the free list *)
Erase(m, i) ==
    LET n    == m.nodes[i]
        more == n.next # 0 /\ m.nodes[n.next].bucket = n.bucket
    IN  [LinkPrev(LinkNext(m, n.prev, n.next), n.next, n.prev)
           EXCEPT !.buckets[n.bucket] = IF @ # i THEN @ ELSE IF more THEN n.next ELSE 0,
                  !.nodes[i].next = m.free, !.free = i, !.size = @ - 1]

(* clear keeps both arrays, reset (and being moved from) drops them *)
Clear(m) ==
    [m EXCEPT !.buckets = [b \in DOMAIN @ |-> 0],
              !.nodes   = [i \in DOMAIN @ |-> [@[i] EXCEPT !.prev = 0, !.next = IF i = Len(m.nodes) THEN 0 ELSE i + 1]],
              !.free    = IF m.nodes = <<>> THEN 0 ELSE 1,
              !.size = 0, !.head = 0, !.tail = 0]
Reset(m) == [NoMap EXCEPT !.rate = m.rate]

(* the copy constructor (onto a map without arrays) and the copy assignment *)
CopyInto(m, src) ==
    FoldLeft(LAMBDA t, i : Add(t, src.nodes[i].key, src.nodes[i].val),
             expand_nodes(expand_buckets(Clear(m), Len(src.buckets)), Len(src.nodes)), Walk(src))
-----------------------------------------------------------------------------
HmInit == maps = [x \in Two |-> NoMap] /\ ref = [x \in Two |-> [k \in Keys |-> 0]] /\ mapCalls = 0
MapCall == mapCalls < MaxMapCalls /\ mapCalls' = mapCalls + 1
Other(x) == IF x = "a" THEN "b" ELSE "a"

add(x, k) ==
    /\ MapCall /\ find(maps[x], k) = 0
    /\ maps' = [maps EXCEPT ![x] = Add(@, k, 1)] /\ ref' = [ref EXCEPT ![x][k] = 1]

(* operator[] of a key that is there *)
assign(x, k) ==
    /\ MapCall /\ find(maps[x], k) # 0
    /\ maps' = [maps EXCEPT ![x].nodes[find(maps[x], k)].val = 2] /\ ref' = [ref EXCEPT ![x][k] = 2]

erase(x, k) ==
    /\ MapCall /\ find(maps[x], k) # 0
    /\ maps' = [maps EXCEPT ![x] = Erase(@, find(@, k))] /\ ref' = [ref EXCEPT ![x][k] = 0]

clear(x) ==
    /\ MapCall /\ maps' = [maps EXCEPT ![x] = Clear(@)] /\ ref' = [ref EXCEPT ![x] = [k \in Keys |-> 0]]

reset(x) ==
    /\ MapCall /\ maps' = [maps EXCEPT ![x] = Reset(@)] /\ ref' = [ref EXCEPT ![x] = [k \in Keys |-> 0]]

copy_map(x) ==
    /\ MapCall /\ maps' = [maps EXCEPT ![x] = CopyInto(@, maps[Other(x)])]
    /\ ref' = [ref EXCEPT ![x] = ref[Other(x)]]

move_map(x) ==
    /\ MapCall
    /\ maps' = [maps EXCEPT ![x] = [maps[Other(x)] EXCEPT !.rate = maps[x].rate], ![Other(x)] = Reset(@)]
    /\ ref' = [ref EXCEPT ![x] = ref[Other(x)], ![Other(x)] = [k \in Keys |-> 0]]

set_expand_rate(x, r) ==
    /\ MapCall /\ r # maps[x].rate /\ maps' = [maps EXCEPT ![x].rate = r] /\ UNCHANGED ref

HmNext ==
    \E x \in Two :
        \/ \E k \in Keys : add(x, k) \/ assign(x, k) \/ erase(x, k)
        \/ clear(x) \/ reset(x) \/ copy_map(x) \/ move_map(x)
        \/ \E r \in Rates : set_expand_rate(x, r)
-----------------------------------------------------------------------------
(* However the map grew, was emptied, copied or moved: find gives for every   *)
(* key what was stored last, an iteration meets each stored key once and in  *)
(* both directions, and every node is on the list or free (expand_buckets,   *)
(* expand_nodes, alloc_node_by_key, erase, clear, the copies and moves).     *)
MapAgrees ==
    \A x \in Two :
        LET m == maps[x] l == Walk(m) fr == FreeList(m) IN
        /\ \A k \in Keys : LET i == find(m, k) IN
              IF ref[x][k] = 0 THEN i = 0 ELSE i # 0 /\ m.nodes[i].val = ref[x][k]
        /\ {m.nodes[l[j]].key : j \in DOMAIN l} = {k \in Keys : ref[x][k] # 0}
        /\ Len(l) = m.size /\ m.size = Cardinality({k \in Keys : ref[x][k] # 0})
        /\ m.tail = IF l = <<>> THEN 0 ELSE l[Len(l)]
        /\ \A j \in DOMAIN l : m.nodes[l[j]].prev = IF j = 1 THEN 0 ELSE l[j - 1]
        /\ Len(l) + Len(fr) = Len(m.nodes)
        /\ {l[j] : j \in DOMAIN l} \cup {fr[j] : j \in DOMAIN fr} = DOMAIN m.nodes
=============================================================================
