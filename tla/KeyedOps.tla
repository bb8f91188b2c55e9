------------------------------ MODULE KeyedOps ------------------------------
(***************************************************************************)
(* The operations that bring equal keys together: GroupByKey, GroupToIndex, *)
(* InnerJoin, ReduceByKey and ReduceToIndex (thrill/api).  An item is a     *)
(* record of its key v, by which the runs are sorted and merged, and g,     *)
(* which identifies it; the hash of a key is the key.  Results are groups   *)
(* <<key, the items the user function was given>> and, for the join, pairs. *)
(***************************************************************************)
EXTENDS SortMerge

(***************************************************************************)
(* The bit, Golomb and delta streams (thrill/core/bit_stream.hpp,           *)
(* golomb_bit_stream.hpp, delta_stream.hpp) with words of W bits, and the   *)
(* two exchanges of hashes built on them (thrill/core/duplicate_detection   *)
(* .hpp, location_detection.hpp).  A writer holds the words it has put, the *)
(* buffer, the bits used in it, whether the first value is still to come    *)
(* and the last value (the delta's base); a reader the words not yet taken. *)
(* A bitwise or of operands that share no bit is written +.                 *)
(***************************************************************************)

W == 8
Word == 2 ^ W
Shl(x, k) == (x * 2 ^ k) % Word
Shr(x, k) == x \div 2 ^ k
all_set == Word - 1

----------------------------------------------------------------------------
\* BitStreamWriter
NewWriter == [words |-> <<>>, buffer |-> 0, pos |-> 0, first |-> TRUE, delta |-> Word - 1]
PutBits(w, value, bits) ==
    LET second == bits - (W - w.pos)
    IN CASE w.pos + bits > W -> [w EXCEPT !.words = Append(@, w.buffer + Shr(value, second)),
                                          !.buffer = Shl(value, W - second), !.pos = (@ + bits) % W]
         [] w.pos + bits = W -> [w EXCEPT !.words = Append(@, w.buffer + value), !.buffer = 0, !.pos = 0]
         [] OTHER -> [w EXCEPT !.buffer = @ + Shl(value, W - (bits + w.pos)), !.pos = @ + bits]

\* BitStreamReader: buffer holds the bits not yet taken at its upper end
NewReader(words) == [words |-> words, buffer |-> 0, pos |-> W, first |-> TRUE, delta |-> Word - 1, got |-> 0]
GetRaw(r) == [r EXCEPT !.buffer = Head(r.words), !.words = Tail(@)]
GetBits(r, bits) ==
    IF r.pos + bits > W
    THEN LET high == Shl(Shr(r.buffer, r.pos - 1), bits - (W - r.pos + 1))
             n == GetRaw(r)
             pos == (r.pos + bits) % W
         IN [n EXCEPT !.got = high + Shr(n.buffer, 2 * W - bits - r.pos), !.pos = pos, !.buffer = Shl(@, pos)]
    ELSE [r EXCEPT !.got = Shr(r.buffer, W - bits), !.pos = @ + bits, !.buffer = Shl(@, bits)]
Refill(r) == IF r.pos = W THEN [GetRaw(r) EXCEPT !.pos = 0] ELSE r
HasNextZeroTest_NoMore(r) == ~(r.pos = W /\ r.words = <<>>) /\ Shr(all_set - Refill(r).buffer, Refill(r).pos) # 0
HasNextZeroTest(r) ==
    /\ ~(r.pos = W /\ r.words = <<>>)
    /\ LET n == Refill(r) IN Shr(all_set - n.buffer, n.pos) # 0 \/ n.words # <<>>
RECURSIVE GetNumberOfOnesUntilNextZero(_, _)
GetNumberOfOnesUntilNextZero(r, ones) ==
    LET n == Refill(r)
        s == [n EXCEPT !.buffer = Shl(@, 1), !.pos = @ + 1]
    IN IF Shr(n.buffer, W - 1) = 1 THEN GetNumberOfOnesUntilNextZero(s, ones + 1) ELSE [s EXCEPT !.got = ones]

----------------------------------------------------------------------------
\* GolombBitStreamWriter with parameter b: the first value goes out whole
Log2b(b) == CHOOSE k \in 0..W : 2 ^ k >= b /\ (k = 0 \/ 2 ^ (k - 1) < b)
max_little_value(b) == 2 ^ Log2b(b) - b
RECURSIVE PutOnes(_, _)
PutOnes(w, q) == IF q >= W THEN PutOnes(PutBits(w, all_set, W), q - W) ELSE w
PutGolomb(w, value, b) ==
    LET q == value \div b
        r == value - q * b
        quot == q % W
        ones == 2 ^ (quot + 1) - 2
        little == r < max_little_value(b)
        low == IF little THEN r ELSE r + max_little_value(b)
        bits == IF little THEN Log2b(b) - 1 ELSE Log2b(b)
        w1 == PutOnes(w, q)
    IN CASE w.first -> [w EXCEPT !.words = Append(@, value), !.first = FALSE]
         [] ~w.first /\ quot + 1 + Log2b(b) > W -> PutBits(PutBits(w1, ones, quot + 1), low, bits)
         [] OTHER -> PutBits(w1, Shl(ones, bits) + low, quot + 1 + bits)
\* ~GolombBitStreamWriter fills the last word with ones
CloseGolomb(w) == IF w.pos # 0 THEN PutBits(w, Shr(all_set, w.pos), W - w.pos) ELSE w

\* GolombBitStreamReader
HasNextGolomb(r) == IF r.first THEN r.words # <<>> ELSE HasNextZeroTest(r)
GetGolomb(r, b) ==
    LET q == GetNumberOfOnesUntilNextZero(r, 0)
        lo == GetBits(q, Log2b(b) - 1)
        hi == GetBits(lo, 1)
        rest == IF lo.got >= max_little_value(b)
                THEN [hi EXCEPT !.got = Shl(lo.got, 1) + hi.got - max_little_value(b)] ELSE lo
    IN IF r.first THEN [GetRaw(r) EXCEPT !.got = Head(r.words), !.first = FALSE, !.buffer = r.buffer]
       ELSE [rest EXCEPT !.got = q.got * b + @]

\* DeltaStreamWriter and DeltaStreamReader with offset 1, started at -1
PutDelta(w, value, b) == [PutGolomb(w, (value - w.delta - 1) % Word, b) EXCEPT !.delta = value]
NextDelta(r, b) ==
    LET n == GetGolomb(r, b) IN [n EXCEPT !.delta = (@ + n.got + 1) % Word, !.got = (r.delta + n.got + 1) % Word]

\* WriteOccurenceCounts of one receiver and GolombPairReader: hashes in
\* ascending order, each followed by a count of bits bits
PutPair(w, hc, b, bits) == PutBits(PutDelta(w, hc.hash, b), hc.count, bits)
WritePairs(pairs, b, bits) == CloseGolomb(FoldLeft(LAMBDA w, hc : PutPair(w, hc, b, bits), NewWriter, pairs)).words
RECURSIVE ReadPairs(_, _, _)
ReadPairs(r, b, bits) ==
    LET h == NextDelta(r, b)
        c == GetBits(h, bits)
    IN IF HasNextGolomb(r) THEN <<[hash |-> h.got, count |-> c.got]>> \o ReadPairs(c, b, bits) ELSE <<>>

----------------------------------------------------------------------------
(* The exchanges.  fpr_parameter = 8 is Golomb; hashes[w] are the hashes of *)
(* worker w, and a worker is responsible for a range of the reduced ones.   *)
max_hash(hashes) == 8 * TotalLen(hashes)
Reduced(hashes, w) == {hashes[w][i] % max_hash(hashes) : i \in DOMAIN hashes[w]}
Responsible(hashes, i) ==
    LET r == CalculateLocalRange(max_hash(hashes), Len(hashes), i - 1) IN r.begin..(r.end - 1)
\* WriteEncodedHashes drops repetitions; the merge of what worker i is sent
Puller(hashes, i) ==
    SortSeq(FlattenSeq([w \in DOMAIN hashes |-> SetToSortSeq({<<h, w>> : h \in Reduced(hashes, w) \cap Responsible(hashes, i)},
                                                             LAMBDA a, b : a[1] < b[1])]),
            LAMBDA a, b : a[1] < b[1] \/ (a[1] = b[1] /\ a[2] < b[2]))

\* FindNonDuplicates: the loop over this_item and next_item
RECURSIVE SkipEqual(_, _, _)
SkipEqual(items, k, this) == IF k < Len(items) /\ items[k + 1][1] = this[1] THEN SkipEqual(items, k + 1, this)
                             ELSE IF k < Len(items) THEN k + 1 ELSE k
RECURSIVE Unique(_, _, _, _)
Unique_NoSkip(items, k, this, next) ==
    IF k = Len(items) THEN IF this[1] # next[1] THEN {next} ELSE {}
    ELSE (IF next[1] # items[k + 1][1] THEN {next} ELSE {}) \cup Unique(items, k + 1, next, items[k + 1])
Unique(items, k, this, next) ==
    LET new == items[k + 1]
        j == SkipEqual(items, k + 1, next)
    IN IF k = Len(items) THEN IF this[1] # next[1] THEN {next} ELSE {}
       ELSE IF next[1] # new[1] THEN {next} \cup Unique(items, k + 1, next, new)
       ELSE Unique(items, j, next, items[j])
\* the hashes each worker is told to be on no other worker
FindNonDuplicates(hashes) ==
    [w \in DOMAIN hashes |->
        {u[1] : u \in {x \in UNION {LET items == Puller(hashes, i)
                                    IN IF items = <<>> THEN {} ELSE Unique(items, 1, <<0, 0>>, items[1]) : i \in DOMAIN hashes} :
                       x[2] = w}}]

----------------------------------------------------------------------------
(* LocationDetection.  occ[w] are the <<hash, mask>> worker w inserted, one  *)
(* for each item; the table holds a HashCount for each hash, whose count    *)
(* stops at cap and whose mask collects the inputs it occurs in.            *)
AddTruncToType(a, b, cap) == IF a + b > cap THEN cap ELSE a + b
\* Flush: the modulus, eight for each entry of the workers' tables
HashRange(occ) == 8 * FoldLeft(LAMBDA n, o : n + Cardinality({o[i][1] : i \in DOMAIN o}), 0, occ)
Entries(occ, w, h) == SelectSeq(occ[w], LAMBDA o : o[1] % HashRange(occ) = h)
CountAt(occ, w, h, cap) == FoldLeft(LAMBDA n, o : AddTruncToType(n, 1, cap), 0, Entries(occ, w, h))
HoldersOf(occ, h) == {w \in DOMAIN occ : Entries(occ, w, h) # <<>>}
MaskOf(occ, h) == UNION {{Entries(occ, w, h)[i][2] : i \in DOMAIN Entries(occ, w, h)} : w \in HoldersOf(occ, h)}
\* the worker that holds most items of a hash, the first among equal ones
max_worker(occ, h, cap) ==
    LET best == Max({CountAt(occ, w, h, cap) : w \in HoldersOf(occ, h)})
    IN Min({w \in HoldersOf(occ, h) : CountAt(occ, w, h, cap) = best})
\* what Flush stores in the target_processors of worker w: the place of each
\* of its hashes, for a join only if the hash occurs in both inputs
NeedBroadcast(occ, h, join) == ~join \/ MaskOf(occ, h) = {1, 2}
FlushLocations_Own(occ, w, cap, join) ==
    [h \in {x \in {occ[w][i][1] % HashRange(occ) : i \in DOMAIN occ[w]} : NeedBroadcast(occ, x, join)} |->
        IF CountAt(occ, w, h, cap) = cap THEN w ELSE max_worker(occ, h, cap)]
FlushLocations(occ, w, cap, join) ==
    [h \in {x \in {occ[w][i][1] % HashRange(occ) : i \in DOMAIN occ[w]} : NeedBroadcast(occ, x, join)} |->
        max_worker(occ, h, cap)]

----------------------------------------------------------------------------
\* the ceiling of HashCount::count, 255 in the code: small, so that it is met
CountCap == 2
HashesOf(s, mask) == [i \in DOMAIN s |-> <<s[i].v, mask>>]

\* PreOp and Execute: the worker (from 1) of an item, hash % num_workers or the
\* place LocationDetection found; 0 when the hash has no place
TargetOf(x, p, detected, range) ==
    LET h == x.v % range
    IN IF range = 0 THEN (x.v % p) + 1 ELSE IF h \in DOMAIN detected THEN detected[h] ELSE 0
\* what worker w reads from the streams; occ is <<>> without location detection
Received(items, occ, join, w) ==
    LET p == Len(items)
        range == IF occ = <<>> THEN 0 ELSE HashRange(occ)
        Sent(s) == LET found == IF occ = <<>> THEN <<>> ELSE FlushLocations(occ, s, CountCap, join)
                   IN SelectSeq(items[s], LAMBDA x : TargetOf(x, p, found, range) = w)
    IN FlattenSeq([s \in 1..p |-> Sent(s)])

\* MainOp: the incoming items are flushed as a sorted run whenever memory is
\* exceeded (the positions in full) and at the end, even if nothing came
MemoryRuns(s, full) ==
    LET cuts == SetToSortSeq({k \in full : k < Len(s)} \cup {0, Len(s)}, <)
        runs == [i \in 1..(Len(cuts) - 1) |-> SubSeq(s, cuts[i] + 1, cuts[i + 1])]
    IN IF s = <<>> THEN <<<<>>>> ELSE [i \in DOMAIN runs |-> Runs(runs[i], Len(runs[i]))[1]]

\* the partial merges: the first degree files become one file at the end
RECURSIVE MergeFiles(_, _)
MergeFiles(files, degree) ==
    IF Len(files) > degree
    THEN MergeFiles(SubSeq(files, degree + 1, Len(files)) \o <<MultiwayMerge(SubSeq(files, 1, degree))>>, degree)
    ELSE files

\* GroupByIterator over a merged sequence: HasNext ends with the key, the user
\* function (which takes all it is offered) is called once for each
RECURSIVE GroupsOf(_)
GroupsOf_Pairs(s) ==
    LET n == IF Len(s) > 1 /\ s[1].v = s[2].v THEN 2 ELSE 1
    IN IF s = <<>> THEN <<>> ELSE <<<<s[1].v, SubSeq(s, 1, n)>>>> \o GroupsOf(SubSeq(s, n + 1, Len(s)))
GroupsOf(s) ==
    LET n == Max({i \in 1..Len(s) : \A j \in 1..i : s[j].v = s[1].v})
    IN IF s = <<>> THEN <<>> ELSE <<<<s[1].v, SubSeq(s, 1, n)>>>> \o GroupsOf(SubSeq(s, n + 1, Len(s)))

\* GroupByNode::PushData reads num_runs files, the number before the partial
\* merges: more than there are dies here (it reads past the deque)
Died == <<<<-1, <<>>>>>>
GroupByPush(files, degree) ==
    LET merged == MergeFiles(files, degree)
    IN IF Len(files) > 1 /\ Len(merged) # Len(files) THEN Died ELSE GroupsOf(MultiwayMerge(merged))
GroupByNode(items, full, degree, detect) ==
    LET occ == IF detect THEN [w \in DOMAIN items |-> HashesOf(items[w], 0)] ELSE <<>>
    IN [w \in DOMAIN items |-> GroupByPush(MemoryRuns(Received(items, occ, FALSE, w), full), degree)]

\* GroupToIndexNode: CalculatePartition places the key; every index of the
\* worker's range gives a group or the neutral element
Neutral == <<-1, {}>>
RECURSIVE ByIndex(_, _, _)
ByIndex_Next(groups, i, end) ==
    IF groups # <<>> /\ groups[1][1] # i THEN <<Neutral>> \o ByIndex(Tail(groups), i + 1, end)
    ELSE IF groups # <<>> THEN <<groups[1]>> \o ByIndex(Tail(groups), i + 1, end)
    ELSE IF i < end THEN <<Neutral>> \o ByIndex(groups, i + 1, end) ELSE <<>>
ByIndex(groups, i, end) ==
    IF groups # <<>> /\ groups[1][1] # i THEN <<Neutral>> \o ByIndex(groups, i + 1, end)
    ELSE IF groups # <<>> THEN <<groups[1]>> \o ByIndex(Tail(groups), i + 1, end)
    ELSE IF i < end THEN <<Neutral>> \o ByIndex(groups, i + 1, end) ELSE <<>>
ToIndex(items, size, w) ==
    SelectSeq(FlattenSeq(items), LAMBDA x : CalculatePartition(size, Len(items), x.v) = w - 1)
GroupToIndexNode(items, full, size) ==
    [w \in DOMAIN items |->
        LET range == CalculateLocalRange(size, Len(items), w - 1)
        IN ByIndex(GroupsOf(MultiwayMerge(MemoryRuns(ToIndex(items, size, w), full))), range.begin, range.end)]

----------------------------------------------------------------------------
\* AddEqualKeysToVec and AddEqualKeysToFile: the items of the first key; they
\* are external when a further one finds capacity items
EqualKeys(s) == GroupsOf(s)[1][2]
External(group, capacity) == Len(group) > LargerOf(capacity, 1)
\* JoinAllElements: all pairs, in the order of the loops; the last case reads
\* capacity items of the first file at a time and the second file anew
PairsBy1(v1, v2) == FlattenSeq([i \in DOMAIN v1 |-> [j \in DOMAIN v2 |-> <<v1[i], v2[j]>>]])
PairsBy2(v1, v2) == FlattenSeq([j \in DOMAIN v2 |-> [i \in DOMAIN v1 |-> <<v1[i], v2[j]>>]])
RECURSIVE PairsInParts(_, _, _)
PairsInParts_Once(v1, v2, capacity) == PairsBy2(SubSeq(v1, 1, SmallerOf(Len(v1), capacity)), v2)
PairsInParts(v1, v2, capacity) ==
    IF v1 = <<>> THEN <<>>
    ELSE LET n == SmallerOf(Len(v1), capacity)
         IN PairsBy2(SubSeq(v1, 1, n), v2) \o PairsInParts(SubSeq(v1, n + 1, Len(v1)), v2, capacity)
JoinAllElements(v1, v2, capacity) ==
    IF ~External(v2, capacity) THEN PairsBy1(v1, v2)
    ELSE IF ~External(v1, capacity) THEN PairsBy2(v1, v2) ELSE PairsInParts(v1, v2, capacity)
\* JoinNode::PushData: advance the smaller key, join equal ones
RECURSIVE JoinPush(_, _, _)
JoinPush(s1, s2, capacity) ==
    IF s1 = <<>> \/ s2 = <<>> THEN <<>>
    ELSE IF s1[1].v < s2[1].v THEN JoinPush(Tail(s1), s2, capacity)
    ELSE IF s2[1].v < s1[1].v THEN JoinPush(s1, Tail(s2), capacity)
    ELSE LET g1 == EqualKeys(s1)
             g2 == EqualKeys(s2)
         IN JoinAllElements(g1, g2, capacity) \o
            JoinPush(SubSeq(s1, Len(g1) + 1, Len(s1)), SubSeq(s2, Len(g2) + 1, Len(s2)), capacity)
\* MainOp: runs of capacity items, MergeFiles, MakePuller
JoinNode(items1, items2, capacity, degree, detect) ==
    LET occ == IF detect THEN [w \in DOMAIN items1 |-> HashesOf(items1[w], 1) \o HashesOf(items2[w], 2)] ELSE <<>>
        Sorted(items, w) == MultiwayMerge(MergeFiles(Runs(Received(items, occ, TRUE, w), capacity), degree))
    IN [w \in DOMAIN items1 |-> JoinPush(Sorted(items1, w), Sorted(items2, w), capacity)]

----------------------------------------------------------------------------
(* ReduceNode and ReduceToIndexNode: the phases keep a table entry per key  *)
(* (ReduceTables shows what they conserve); here the entry of a key is the  *)
(* set of the items reduced into it.                                        *)
Entry(s, k) == <<k, {s[i].g : i \in {j \in DOMAIN s : s[j].v = k}}>>
Table(s) == {Entry(s, s[i].v) : i \in DOMAIN s}
\* the pre-phase with duplicate detection keeps the keys on which no other
\* worker has a hash and sends the others to hash % num_workers
KeptLocal(items, w) ==
    LET hashes == [u \in DOMAIN items |-> SetToSortSeq({items[u][i].v : i \in DOMAIN items[u]}, <)]
    IN {k \in {items[w][i].v : i \in DOMAIN items[w]} : k % max_hash(hashes) \in FindNonDuplicates(hashes)[w]}
ReduceTarget_Stay(items, s, k, detect) == IF detect THEN s ELSE (k % Len(items)) + 1
ReduceTarget(items, s, k, detect) == IF detect /\ k \in KeptLocal(items, s) THEN s ELSE (k % Len(items)) + 1
MergeEntries(es) == {<<k, UNION {e[2] : e \in {f \in es : f[1] = k}}>> : k \in {e[1] : e \in es}}
ReduceNode(items, detect) ==
    [w \in DOMAIN items |->
        MergeEntries(UNION {{e \in Table(items[s]) : ReduceTarget(items, s, e[1], detect) = w} : s \in DOMAIN items})]
\* ReduceByIndex::calculate_index places a key by its range
IndexWorker_Hash(size, p, k) == k % p
IndexWorker(size, p, k) == CalculatePartition(size, p, k)
\* ReduceByIndexPostPhase: the items of a range that does not fit into limit
\* are split; the first part is a table, the others become files and then
\* tables of their own.  The neutral element has the key nk, so a slot shows
\* nk when empty and occupied tells whether an item with this key came.
num_subranges(n, limit) == IF n < limit THEN 0 ELSE 1 + n \div limit
InsertByIndex(tb, e, begin, nk) ==
    LET at == e[1] - begin + 1
        there == IF e[1] = nk THEN tb.occupied ELSE tb.slots[at][1] = e[1]
    IN [tb EXCEPT !.slots[at] = IF there THEN <<e[1], @[2] \cup e[2]>> ELSE e, !.occupied = @ \/ e[1] = nk]
RECURSIVE FlushIndex(_, _, _, _, _)
FlushIndex(begin, end, entries, nk, limit) ==
    LET subs == num_subranges(end - begin, limit)
        Part(i) == IF subs = 0 THEN [begin |-> begin, end |-> end] ELSE Partition(begin, end, i, subs)
        mine == SelectSeq(entries, LAMBDA e : e[1] < Part(0).end)
        File(i) == SelectSeq(entries, LAMBDA e : e[1] >= Part(0).end /\ FindPartition(begin, end, e[1], subs) = i)
        blank == [slots |-> <<>> \o [i \in 1..(Part(0).end - begin) |-> <<nk, {}>>], occupied |-> FALSE]
        tb == FoldLeft(LAMBDA t, e : InsertByIndex(t, e, begin, nk), blank, mine)
    IN tb.slots \o FlattenSeq([i \in 1..(subs - 1) |-> FlushIndex(Part(i).begin, Part(i).end, File(i), nk, limit)])
\* ReduceToIndexNode, with or without the pre-phase (InsertSkip).  PushData that
\* keeps the data of a split range writes to a cache that does not exist yet.
ReduceToIndexNode(items, size, skip, nk, limit, consume) ==
    [w \in DOMAIN items |->
        LET range == CalculateLocalRange(size, Len(items), w - 1)
            Sent(s) == IF skip THEN [i \in DOMAIN items[s] |-> <<items[s][i].v, {items[s][i].g}>>]
                       ELSE SetToSeq(Table(items[s]))
            got == SelectSeq(FlattenSeq([s \in DOMAIN items |-> Sent(s)]),
                             LAMBDA e : IndexWorker(size, Len(items), e[1]) = w - 1)
        IN IF ~consume /\ num_subranges(range.end - range.begin, limit) > 1 THEN Died
           ELSE FlushIndex(range.begin, range.end, got, nk, limit)]
=============================================================================
