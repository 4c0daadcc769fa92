---------------------------- MODULE VectorIndex ----------------------------
(***************************************************************************)
(* VectorIndex of index.rs over its three implementations: HNSW            *)
(* (index/hnsw.rs), IVF (index/ivf.rs) and IVF-PQ (index/pq.rs).  Vectors  *)
(* are integers (dimension 1) under the L2 distance.  VectorIndex keeps an *)
(* array of items and a buffer of vectors, offset i for item i; deleting   *)
(* moves the last item into the hole.  The implementation is told of       *)
(* inserts only.  Nothing in the crate trains IVF or IVF-PQ, so their      *)
(* centroids and codebooks are the zeros they are created with.            *)
(***************************************************************************)
EXTENDS Integers, Sequences, SequencesExt, FiniteSets

CONSTANTS
    Vectors,       \* coordinates
    VRids,         \* record ids
    VxMax,         \* max_items = max_nodes
    HnM, HnEf,     \* hnsw_m and hnsw_ef_construction = hnsw_ef_search
    IvfLists,      \* ivf_nlist
    VxMaxInserts   \* bound on the successful inserts of one behaviour

VARIABLES
    vx,          \* [items, vecs]: the items [off, rid] and the vector buffer
    vxImpl,      \* the implementation: [kind |-> "hnsw" | "ivf" | "pq", ...]
    vxLive,      \* how often each <<vector, rid>> pair is in the index
    vxHist       \* [inserts, deletes, out]: history and last outcome
vxVars == <<vx, vxImpl, vxLive, vxHist>>

Dist(a, b) == IF a < b THEN b - a ELSE a - b
\* floor(ln(n)), as far as the instances go.
LnFloor(n) == IF n < 3 THEN 0 ELSE IF n < 8 THEN 1 ELSE 2
HnMaxLevel == LnFloor(VxMax)

\* sort_by on (distance, ...) pairs, which is stable.
ByDistance(s) ==
    LET rank(i) == 1 + Cardinality({j \in 1 .. Len(s) :
                          s[j].d < s[i].d \/ (s[j].d = s[i].d /\ j < i)})
    IN [p \in 1 .. Len(s) |-> s[CHOOSE i \in 1 .. Len(s) : rank(i) = p]]
Upto(s, k) == SubSeq(s, 1, IF Len(s) < k THEN Len(s) ELSE k)

-----------------------------------------------------------------------------
(* IVF and IVF-PQ *)
EmptyIvf(kind) ==
    [kind |-> kind, lists |-> [c \in 1 .. IvfLists |-> [centroid |-> 0, in |-> << >>]]]

\* find_closest_cluster: the first of the nearest centroids.
Closest(ix, v) ==
    CHOOSE c \in 1 .. IvfLists :
        \A d \in 1 .. IvfLists :
            \/ Dist(v, ix.lists[c].centroid) < Dist(v, ix.lists[d].centroid)
            \/ Dist(v, ix.lists[c].centroid) = Dist(v, ix.lists[d].centroid) /\ c <= d

IvfInsert(ix, v, off, rid) ==
    [ix EXCEPT !.lists[Closest(ix, v)].in = Append(@, [off |-> off, rid |-> rid])]

\* search: the nprobe nearest lists, all their vectors, the k nearest of them.
\* IVF-PQ measures a vector by its code: with codebooks of zeros every code is
\* zero, and every vector is as far as the zero vector.
ProbedLists(ix, q, nprobe) ==
    Upto(ByDistance([c \in 1 .. IvfLists |-> [d |-> Dist(q, ix.lists[c].centroid), c |-> c]]),
         nprobe)
IvfDistance(ix, vecs, q, off) == IF ix.kind = "pq" THEN Dist(q, 0) ELSE Dist(q, vecs[off])
IvfSearch(ix, vecs, q, k, nprobe) ==
    LET probe == ProbedLists(ix, q, nprobe)
        all == FlattenSeq([p \in 1 .. Len(probe) |-> ix.lists[probe[p].c].in])
    IN Upto(ByDistance([i \in 1 .. Len(all) |->
                          [d |-> IvfDistance(ix, vecs, q, all[i].off), rid |-> all[i].rid]]), k)
-----------------------------------------------------------------------------
(* HNSW: nodes in insertion order; next[l] are a node's neighbours at level l. *)
EmptyHnsw == [kind |-> "hnsw", nodes |-> << >>, enter |-> 0, layer |-> [l \in 0 .. HnMaxLevel |-> 0]]

\* search_layer: best first from the entry point; found is sorted and holds at
\* most ef.  The candidate taken is the first of the nearest (swap_remove).
SwapRemove(s, i) == SubSeq([s EXCEPT ![i] = s[Len(s)]], 1, Len(s) - 1)
Visit(st, x, ef) ==
    IF x.n \in st.seen THEN st
    ELSE IF Len(st.found) < ef \/ x.d < st.found[Len(st.found)].d
    THEN [seen |-> st.seen \cup {x.n}, cands |-> Append(st.cands, x),
          found |-> Upto(ByDistance(Append(st.found, x)), ef)]
    ELSE [st EXCEPT !.seen = @ \cup {x.n}]
RECURSIVE LayerLoop(_, _, _, _, _, _)
LayerLoop(ix, vecs, q, st, ef, level) ==
    IF st.cands = << >> THEN st.found
    ELSE LET best == CHOOSE i \in 1 .. Len(st.cands) : \A j \in 1 .. Len(st.cands) :
                        st.cands[i].d < st.cands[j].d \/ (st.cands[i].d = st.cands[j].d /\ i <= j)
             next == ix.nodes[st.cands[best].n].next[level]
             near == [i \in 1 .. Len(next) |->
                        [d |-> Dist(q, vecs[ix.nodes[next[i]].off]), n |-> next[i]]]
         IN IF st.cands[best].d > st.found[Len(st.found)].d THEN st.found
            ELSE LayerLoop(ix, vecs, q,
                           FoldLeft(LAMBDA acc, x : Visit(acc, x, ef),
                                    [st EXCEPT !.cands = SwapRemove(@, best)], near),
                           ef, level)
SearchLayer(ix, vecs, q, entry, ef, level) ==
    LET e == [d |-> Dist(q, vecs[ix.nodes[entry].off]), n |-> entry]
    IN LayerLoop(ix, vecs, q, [seen |-> {entry}, cands |-> <<e>>, found |-> <<e>>], ef, level)

\* The greedy descent over levels from down to above "to", one result each.
RECURSIVE Greedy(_, _, _, _, _, _)
Greedy(ix, vecs, q, entry, level, to) ==
    IF level <= to THEN entry
    ELSE Greedy(ix, vecs, q, SearchLayer(ix, vecs, q, entry, 1, level)[1].n, level - 1, to)

\* search
HnswHits(ix, vecs, q, k) ==
    IF ix.enter = 0 THEN << >>
    ELSE Upto(SearchLayer(ix, vecs, q, Greedy(ix, vecs, q, ix.enter, HnMaxLevel, 0),
                          IF HnEf > k THEN HnEf ELSE k, 0), k)
HnswSearch(ix, vecs, q, k) ==
    LET hits == HnswHits(ix, vecs, q, k)
    IN [i \in 1 .. Len(hits) |-> [d |-> hits[i].d, rid |-> ix.nodes[hits[i].n].rid]]

\* select_neighbors_heuristic: in order of distance, up to m, none at the
\* place of one already taken.
RECURSIVE Select(_, _, _, _)
Select(ix, vecs, queue, got) ==
    IF queue = << >> \/ Len(got) >= HnM THEN got
    ELSE LET v == vecs[ix.nodes[queue[1].n].off] IN
         Select(ix, vecs, Tail(queue),
                IF \E i \in 1 .. Len(got) : Dist(v, vecs[ix.nodes[got[i]].off]) = 0
                THEN got ELSE Append(got, queue[1].n))
SelectNeighbours(ix, vecs, cands) ==
    IF Len(cands) <= HnM THEN [i \in 1 .. Len(cands) |-> cands[i].n]
    ELSE Select(ix, vecs, ByDistance(cands), << >>)

\* The second loop of insert starts where the descent stopped, which is the
\* node's own level: the node n gets neighbours at that level only.  A
\* neighbour's own list is never extended, so the cut of lists longer than m
\* finds none.
Link(ix, vecs, n, entry, level) ==
    LET cands == SearchLayer(ix, vecs, vecs[ix.nodes[n].off], entry,
                             IF HnEf > HnM THEN HnEf ELSE HnM, level)
    IN [ix EXCEPT !.nodes[n].next[level] = SelectNeighbours(ix, vecs, cands),
                  !.layer[level] = IF @ = 0 THEN n ELSE @]

\* insert, with the random level chosen for the node.  A node at the top
\* level becomes the entry point.
HnswNode(off, rid) == [off |-> off, rid |-> rid, next |-> [l \in 0 .. HnMaxLevel |-> << >>]]
HnswInsert(ix, vecs, off, rid, level) ==
    LET n == Len(ix.nodes) + 1
        with == [ix EXCEPT !.nodes = Append(@, HnswNode(off, rid))]
        entry == Greedy(with, vecs, vecs[off], ix.enter, HnMaxLevel, level)
        linked == Link(with, vecs, n, entry, level)
    IN IF ix.enter = 0
       THEN [with EXCEPT !.enter = n,
                         !.layer = [l \in 0 .. HnMaxLevel |-> IF l <= level THEN n ELSE @[l]]]
       ELSE [linked EXCEPT !.enter = IF level >= HnMaxLevel THEN n ELSE @]
-----------------------------------------------------------------------------
(* VectorIndex *)
VxInit ==
    /\ vx = [items |-> << >>, vecs |-> [o \in 0 .. VxMax - 1 |-> 0]]
    /\ vxImpl \in {EmptyHnsw, EmptyIvf("ivf"), EmptyIvf("pq")}
    /\ vxLive = [p \in Vectors \X VRids |-> 0]
    /\ vxHist = [inserts |-> 0, deletes |-> 0, out |-> "ok"]

Said(h, out) == [h EXCEPT !.out = out]

VxFull == Len(vx.items) >= VxMax
\* insert: the vector goes to offset item_count, also when the
\* implementation then refuses it (its nodes are never given back).
VxInsert(v, rid) ==
    LET off == Len(vx.items)
        vecs == [vx.vecs EXCEPT ![off] = v]
    IN \/ /\ VxFull
          /\ vxHist' = Said(vxHist, "out_of_memory")
          /\ UNCHANGED <<vx, vxImpl, vxLive>>
       \/ /\ ~ VxFull
          /\ vxImpl.kind = "hnsw" /\ Len(vxImpl.nodes) >= VxMax
          /\ vx' = [vx EXCEPT !.vecs = vecs]
          /\ vxHist' = Said(vxHist, "out_of_memory")
          /\ UNCHANGED <<vxImpl, vxLive>>
       \/ /\ ~ VxFull /\ vxHist.inserts < VxMaxInserts
          /\ \/ /\ vxImpl.kind # "hnsw"
                /\ vxImpl' = IvfInsert(vxImpl, IF vxImpl.kind = "pq" THEN v ELSE vecs[off], off, rid)
             \/ /\ vxImpl.kind = "hnsw" /\ Len(vxImpl.nodes) < VxMax
                /\ \E level \in 0 .. HnMaxLevel :
                      vxImpl' = HnswInsert(vxImpl, vecs, off, rid, level)
          /\ vx' = [items |-> Append(vx.items, [off |-> off, rid |-> rid]), vecs |-> vecs]
          /\ vxLive' = [vxLive EXCEPT ![<<v, rid>>] = @ + 1]
          /\ vxHist' = [vxHist EXCEPT !.inserts = @ + 1, !.out = "ok"]

\* Mutant: the moved item keeps its offset.
FillHoleKeepsOffset(x, i) ==
    LET last == x.items[Len(x.items)] IN
    [items |-> SubSeq([x.items EXCEPT ![i] = last], 1, Len(x.items) - 1),
     vecs |-> [x.vecs EXCEPT ![x.items[i].off] = x.vecs[last.off]]]

\* delete: the first item with the vector; the last item takes its place, in
\* the item array and in the buffer.
FillHole(x, i) ==
    LET last == x.items[Len(x.items)] IN
    [items |-> SubSeq([x.items EXCEPT ![i] = [last EXCEPT !.off = x.items[i].off]],
                      1, Len(x.items) - 1),
     vecs |-> [x.vecs EXCEPT ![x.items[i].off] = x.vecs[last.off]]]
VxDelete(v) ==
    LET hits == {i \in 1 .. Len(vx.items) : vx.vecs[vx.items[i].off] = v}
        first == CHOOSE i \in hits : \A j \in hits : i <= j
    IN /\ IF hits = {} THEN UNCHANGED <<vx, vxLive>>
          ELSE vx' = FillHole(vx, first) /\ vxLive' = [vxLive EXCEPT ![<<v, vx.items[first].rid>>] = @ - 1]
       /\ vxHist' = [vxHist EXCEPT !.deletes = @ + (IF hits = {} THEN 0 ELSE 1), !.out = "ok"]
       /\ UNCHANGED vxImpl

VxNext ==
    \E v \in Vectors :
        \/ VxDelete(v)
        \/ \E rid \in VRids : VxInsert(v, rid)
VxSpec == VxInit /\ [][VxNext]_vxVars

\* find: the implementation's first answer, whatever the items are by now.
VxFind(q) ==
    LET hits == IF vxImpl.kind = "hnsw" THEN HnswSearch(vxImpl, vx.vecs, q, 1)
                ELSE IvfSearch(vxImpl, vx.vecs, q, 1, 1)
    IN IF hits = << >> THEN -1 ELSE hits[1].rid

\* search_knn: k is cut at the number of items.
VxKnn(q, k0) ==
    LET k == IF k0 < Len(vx.items) THEN k0 ELSE Len(vx.items) IN
    IF vx.items = << >> THEN << >>
    ELSE IF vxImpl.kind = "hnsw" THEN HnswSearch(vxImpl, vx.vecs, q, k)
    ELSE IvfSearch(vxImpl, vx.vecs, q, k, 1)

\* find_range_all: the items within the distance, in array order.
VxRangeAll(q, range, max) ==
    LET in == SelectSeq(vx.items, LAMBDA x : Dist(q, vx.vecs[x.off]) <= range)
    IN Upto([i \in 1 .. Len(in) |-> in[i].rid], max)
-----------------------------------------------------------------------------
LivePairs == {p \in Vectors \X VRids : vxLive[p] > 0}

\* Item i owns offset i - 1, and items with their vectors are exactly the
\* live pairs, whatever was deleted and moved (index.rs:1672-1702).
VxItemsExact ==
    /\ Len(vx.items) <= VxMax
    /\ \A i \in 1 .. Len(vx.items) : vx.items[i].off = i - 1
    /\ \A p \in Vectors \X VRids :
          vxLive[p] = Cardinality({i \in 1 .. Len(vx.items) :
                          <<vx.vecs[vx.items[i].off], vx.items[i].rid>> = p})

\* A range search returns the records whose vectors lie in the range and no
\* others, also after deletes.
VxRangeExact ==
    \A q \in Vectors, range \in 0 .. 1 :
        ToSet(VxRangeAll(q, range, VxMax)) =
            {p[2] : p \in {x \in LivePairs : Dist(q, x[1]) <= range}}

\* IVF answers with a nearest record as long as nothing was deleted: with
\* centroids of zero all vectors share one list, which every search probes.
IvfNearest ==
    (vxImpl.kind = "ivf" /\ vxHist.deletes = 0 /\ vx.items # << >>) =>
    \A q \in Vectors :
        \E p \in LivePairs :
            /\ p[2] = VxFind(q)
            /\ \A x \in LivePairs : Dist(q, p[1]) <= Dist(q, x[1])

\* IVF-PQ without training answers every query with the same records.
PqIgnoresQuery ==
    vxImpl.kind = "pq" =>
    \A q, r \in Vectors, k \in 1 .. VxMax :
        LET ids(a) == [i \in 1 .. Len(VxKnn(a, k)) |-> VxKnn(a, k)[i].rid]
        IN ids(q) = ids(r)

\* HNSW links lead to older nodes and no list exceeds m.  So every search ends,
\* and there is nothing for insert to cut.
HnswLinksToOlder ==
    vxImpl.kind = "hnsw" =>
    \A n \in 1 .. Len(vxImpl.nodes), l \in 0 .. HnMaxLevel :
        LET next == vxImpl.nodes[n].next[l] IN
        /\ Len(next) <= HnM
        /\ \A i \in 1 .. Len(next) : next[i] < n /\ \A j \in 1 .. Len(next) : i # j => next[i] # next[j]

\* What an HNSW search meets is the entry point or older: a vector inserted
\* later is not found until a node of the top level becomes the entry point.
\* The hits come nearest first, without repetition.
HnswHitsAreOld ==
    vxImpl.kind = "hnsw" =>
    \A q \in Vectors, k \in 1 .. VxMax :
        LET hits == HnswHits(vxImpl, vx.vecs, q, k) IN
        /\ \A i \in 1 .. Len(hits) : hits[i].n <= vxImpl.enter
        /\ \A i, j \in 1 .. Len(hits) : i < j => hits[i].d <= hits[j].d /\ hits[i].n # hits[j].n

-----------------------------------------------------------------------------
(***************************************************************************)
(* save and load of VectorIndex, HNSWIndex and IVFIndex.  A file is the    *)
(* sequence of its bytes.  Numbers are little endian in the width of their *)
(* Rust type and small, so only their first byte differs from 0; a null    *)
(* pointer is usize::MAX.  A float is four bytes told apart by its value.  *)
(***************************************************************************)
Le(n, w) == [i \in 1 .. w |-> IF i = 1 THEN n ELSE 0]
LePtr(p) == IF p = 0 THEN [i \in 1 .. 8 |-> 255] ELSE Le(p - 1, 8)
LeFloat(v) == IF v = 0 THEN Le(0, 4) ELSE <<0, 0, v, 63>>
LeAll(s, w) == FlattenSeq([i \in 1 .. Len(s) |-> Le(s[i], w)])

\* What a number read from bytes is; a value past the small ones is Huge.
Huge == 1000
Num(b) == IF \A i \in 2 .. Len(b) : b[i] = 0 THEN b[1] ELSE Huge
Ptr(b) == IF \A i \in 1 .. Len(b) : b[i] = 255 THEN 0 ELSE Num(b) + 1

\* A reader over bytes f: the position and how it fares.  read_exact past the
\* end is FileIoError; reserving a Vec of a Huge length panics.
Reader(f) == [f |-> f, at |-> 0, got |-> << >>, out |-> "ok"]
Read(r, w) ==
    IF r.out # "ok" THEN r
    ELSE IF r.at + w > Len(r.f) THEN [r EXCEPT !.out = "io_error"]
    ELSE [r EXCEPT !.at = @ + w, !.got = SubSeq(r.f, r.at + 1, r.at + w)]
RECURSIVE ReadMany(_, _, _)
ReadMany(r, n, w) ==
    IF r.out # "ok" \/ n = 0 THEN [r |-> r, vals |-> << >>]
    ELSE IF n = Huge THEN [r |-> [r EXCEPT !.out = "panic"], vals |-> << >>]
    ELSE LET one == Read(r, w)
             rest == ReadMany(one, n - 1, w)
         IN [r |-> rest.r, vals |-> <<one.got>> \o rest.vals]
\* A length of lw bytes and as many values of w bytes.
ReadVec(r, lw, w) == LET len == Read(r, lw) IN
    IF len.out # "ok" THEN [r |-> len, vals |-> << >>] ELSE ReadMany(len, Num(len.got), w)
Nums(vals) == [i \in 1 .. Len(vals) |-> Num(vals[i])]
-----------------------------------------------------------------------------
(* HNSWIndex *)
SaveHnsw(ix) ==
    LET node(n) == Le(n.off, 8) \o Le(n.rid, 2) \o Le(HnMaxLevel + 1, 8)
                     \o FlattenSeq([l \in 1 .. HnMaxLevel + 1 |->
                          Le(Len(n.next[l - 1]), 8)
                            \o FlattenSeq([i \in 1 .. Len(n.next[l - 1]) |-> LePtr(n.next[l - 1][i])])])
    IN Le(HnM, 1) \o Le(HnEf, 4) \o Le(HnEf, 4) \o Le(HnMaxLevel, 8) \o Le(Len(ix.nodes), 8)
         \o LePtr(ix.enter) \o Le(HnMaxLevel + 1, 8)
         \o FlattenSeq([l \in 1 .. HnMaxLevel + 1 |-> LePtr(ix.layer[l - 1])])
         \o FlattenSeq([i \in 1 .. Len(ix.nodes) |-> node(ix.nodes[i])])

RECURSIVE LoadLevels(_, _)
LoadLevels(r, n) ==
    IF n = 0 \/ r.out # "ok" THEN [r |-> r, levels |-> << >>]
    ELSE LET one == ReadVec(r, 8, 8)
             rest == LoadLevels(one.r, n - 1)
         IN [r |-> rest.r,
             levels |-> <<[i \in 1 .. Len(one.vals) |-> Ptr(one.vals[i])]>> \o rest.levels]
RECURSIVE LoadNodes(_, _)
LoadNodes(r, n) ==
    IF n = 0 \/ r.out # "ok" THEN [r |-> r, nodes |-> << >>]
    ELSE LET off == Read(r, 8)
             rid == Read(off, 2)
             num == Read(rid, 8)
             lv == LoadLevels(num, Num(num.got))
             rest == LoadNodes(lv.r, n - 1)
         IN [r |-> rest.r,
             nodes |-> <<[off |-> Num(off.got), rid |-> Num(rid.got),
                          next |-> [l \in 0 .. Len(lv.levels) - 1 |-> lv.levels[l + 1]]]>>
                         \o rest.nodes]
LoadHnsw(r) ==
    LET head == Read(Read(Read(r, 1), 4), 4)
        level == Read(head, 8)
        count == Read(level, 8)
        enter == Read(count, 8)
        layer == ReadVec(enter, 8, 8)
        nodes == LoadNodes(layer.r, Num(count.got))
    IN [out |-> nodes.r.out,
        ix |-> [kind |-> "hnsw", nodes |-> nodes.nodes, enter |-> Ptr(enter.got),
                layer |-> [l \in 0 .. Len(layer.vals) - 1 |-> Ptr(layer.vals[l + 1])]]]
-----------------------------------------------------------------------------
(* IVFIndex: save writes vector_count in 4 bytes and the length of a centroid *)
(* in 8, load reads them in 8 and in 4.                                       *)
IvfHead(ix, total) ==
    Le(IvfLists, 4) \o Le(1, 4) \o Le(1, 2) \o Le(IvfLists, 4) \o Le(1, 4) \o total
IvfCluster(c, centroidLen) ==
    centroidLen \o LeFloat(c.centroid) \o Le(Len(c.in), 4)
      \o Le(Len(c.in), 8) \o LeAll([i \in 1 .. Len(c.in) |-> c.in[i].off], 8)
      \o Le(Len(c.in), 8) \o LeAll([i \in 1 .. Len(c.in) |-> c.in[i].rid], 2)
TotalOf(ix) == Len(FlattenSeq([c \in 1 .. IvfLists |-> ix.lists[c].in]))
SaveIvf(ix) ==
    IvfHead(ix, Le(TotalOf(ix), 4))
      \o FlattenSeq([c \in 1 .. IvfLists |-> IvfCluster(ix.lists[c], Le(1, 8))])

\* A loaded cluster has a centroid of any length; centroid 0 stands for <<0.0>>.
RECURSIVE LoadClusters(_, _)
LoadClusters(r, n) ==
    IF n = 0 \/ r.out # "ok" THEN [r |-> r, lists |-> << >>]
    ELSE LET centroid == ReadVec(r, 4, 4)
             count == Read(centroid.r, 4)
             offs == ReadVec(count, 8, 8)
             rids == ReadVec(offs.r, 8, 2)
             rest == LoadClusters(rids.r, n - 1)
         IN [r |-> rest.r,
             lists |-> <<[centroid |-> centroid.vals, offs |-> Nums(offs.vals),
                          rids |-> Nums(rids.vals)]>> \o rest.lists]
LoadIvf(r) ==
    LET nlist == Read(Read(Read(Read(r, 4), 4), 2), 4)
        total == Read(Read(nlist, 4), 8)
        cl == IF total.out # "ok" THEN [r |-> total, lists |-> << >>]
              ELSE LoadClusters(total, Num(nlist.got))
    IN [out |-> cl.r.out, lists |-> cl.lists]
-----------------------------------------------------------------------------
(* VectorIndex: the kind, distance and dimension, the counts, the items, the *)
(* vectors in use, and what the implementation writes; IVF-PQ writes nothing *)
(* and is loaded as IVF.                                                     *)
SaveVx(x, ix) ==
    LET n == Len(x.items) IN
    Le(CASE ix.kind = "hnsw" -> 0 [] ix.kind = "ivf" -> 3 [] OTHER -> 4, 1)
      \o Le(0, 1) \o Le(1, 2) \o Le(VxMax, 8) \o Le(n, 8) \o Le(n, 8)
      \o FlattenSeq([i \in 1 .. n |-> Le(x.items[i].off, 8) \o Le(x.items[i].rid, 2)])
      \o FlattenSeq([i \in 1 .. n |-> LeFloat(x.vecs[i - 1])])
      \o (CASE ix.kind = "hnsw" -> SaveHnsw(ix) [] ix.kind = "ivf" -> SaveIvf(ix) [] OTHER -> << >>)

RECURSIVE LoadItems(_, _)
LoadItems(r, n) ==
    IF n = 0 \/ r.out # "ok" THEN [r |-> r, items |-> << >>]
    ELSE LET off == Read(r, 8)
             rid == Read(off, 2)
             rest == LoadItems(rid, n - 1)
         IN [r |-> rest.r,
             items |-> <<[off |-> Num(off.got), rid |-> Num(rid.got)]>> \o rest.items]
LoadVx(f) ==
    LET type == Read(Reader(f), 1)
        max == Read(Read(Read(type, 1), 2), 8)
        count == Read(max, 8)
        vcount == Read(count, 8)
        items == LoadItems(vcount, Num(count.got))
        vecs == ReadMany(items.r, Num(vcount.got), 4)
        hnsw == Num(type.got) \notin {3, 4}
    IN [hnsw |-> hnsw, items |-> items.items, vecs |-> vecs.vals,
        impl |-> IF hnsw THEN LoadHnsw(vecs.r) ELSE LoadIvf(vecs.r)]

\* An HNSW index is loaded exactly as it was saved: items, the vectors in
\* use, nodes, links and entry points.
HnswReadsBack ==
    vxImpl.kind = "hnsw" =>
    LET l == LoadVx(SaveVx(vx, vxImpl)) IN
    /\ l.impl = [out |-> "ok", ix |-> vxImpl]
    /\ l.items = vx.items
    /\ l.vecs = [i \in 1 .. Len(vx.items) |-> LeFloat(vx.vecs[i - 1])]

\* The vector indexes: the items are exactly the ones inserted and not
\* removed, searches answer from them, and for HNSW the lists link a bounded
\* number of older nodes, hits come in order, and a saved graph is read back
\* as it was (index.rs VectorIndex, index/hnsw.rs, index/ivf.rs).
VxSound ==
  /\ VxItemsExact /\ VxRangeExact /\ IvfNearest /\ PqIgnoresQuery
  /\ HnswLinksToOlder /\ HnswHitsAreOld /\ HnswReadsBack
=============================================================================
