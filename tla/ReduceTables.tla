---------------------------- MODULE ReduceTables ----------------------------
(***************************************************************************)
(* The hash tables of the reduce operations (thrill/core/reduce_*.hpp): the *)
(* growing probing table, the fixed probing table, the bucket table, their  *)
(* spilling to files and flushing to the emitter, and the post phases that  *)
(* reduce again what was spilled.  A table is a record; an item is a key    *)
(* and the number of values reduced into it, so that a lost, a doubled and  *)
(* a misplaced value all show.  Key 0 is Key(), which marks an empty slot.  *)
(***************************************************************************)
EXTENDS Integers, Sequences, FiniteSets, SequencesExt, FiniteSetsExt, Functions

CONSTANTS Keys,          \* the keys, a set of naturals with 0 = Key()
          NumPartitions, \* num_partitions_
          PerPartition,  \* num_buckets_per_partition_
          InitialItems,  \* config_.initial_items_per_partition_
          FillNum, FillDen, \* config_.limit_partition_fill_rate()
          BlockItems, LimitBlocks, \* items of a BucketBlock, limit_blocks_
          HashFunctions, \* the hash functions: [Salts -> [Keys -> Nat]]
          MaxInserts, MaxDepth \* bounds: inserted values, nested calls

VARIABLES t,        \* the table under test
          hash,     \* its hash function
          input,    \* how many values of every key were inserted
          result,   \* what the post phase pushed, and pushed again
          phase     \* "insert", "flushed"

tvars == <<t, hash, input, result, phase>>

Parts == 0..(NumPartitions - 1)
NoItem == [k |-> 0, v |-> 0]
IsEmptySlot(x) == x.k = 0
Blank(x) == <<>> \o [i \in 1..PerPartition |-> x]

\* ReduceMakeTableItem: the reduced item keeps the key and joins the values
reduce(a, b) == [a EXCEPT !.v = @ + b.v]

\* ReduceByHash: the partition from the hash's remainder, the slot from the rest
IndexFunction(h, salt, k) == [p |-> h[salt][k] % NumPartitions, rest |-> h[salt][k] \div NumPartitions]

calculate_index(tb, k) == IndexFunction(hash, tb.salt, k)
local_index(i, size) == (i.rest % size) + 1

LimitItems(size) == (size * FillNum) \div FillDen

\* Initialize of the three tables: all slots empty, the probing table small
Initialize(kind, imm, salt) ==
    LET start == IF kind = "probing" THEN IF InitialItems < PerPartition THEN InitialItems ELSE PerPartition
                 ELSE PerPartition
    IN [kind |-> kind, imm |-> imm, salt |-> salt,
        size |-> [p \in Parts |-> start],
        slots |-> [p \in Parts |-> Blank(NoItem)],
        buckets |-> [p \in Parts |-> Blank(<<>>)],
        blocks |-> 0, cnt |-> [p \in Parts |-> 0], num |-> 0,
        sentinel |-> NoItem, sentp |-> -1,
        files |-> [p \in Parts |-> <<>>], out |-> <<>>,
        exceeded |-> FALSE, overrun |-> FALSE, depth |-> 0]

\* the items of partition p in the order in which they are written out
SlotItems(tb, p) == SelectSeq(SubSeq(tb.slots[p], 1, tb.size[p]), LAMBDA x : ~IsEmptySlot(x))
Contents(tb, p) ==
    IF tb.kind = "bucket" THEN FlattenSeq([b \in 1..PerPartition |-> FlattenSeq(tb.buckets[p][b])])
    ELSE (IF tb.sentp = p THEN <<tb.sentinel>> ELSE <<>>) \o SlotItems(tb, p)

\* what consuming a partition leaves: no items, no blocks, no sentinel
Emptied_BlocksCounted(tb, p) ==
    [tb EXCEPT !.slots[p] = Blank(NoItem), !.buckets[p] = Blank(<<>>),
               !.sentp = IF @ = p THEN -1 ELSE @,
               !.num = @ - tb.cnt[p], !.cnt[p] = 0]
Emptied(tb, p) ==
    [tb EXCEPT !.slots[p] = Blank(NoItem),
               !.blocks = @ - FoldFunction(LAMBDA b, n : Len(b) + n, 0, tb.buckets[p]),
               !.buckets[p] = Blank(<<>>),
               !.sentp = IF @ = p THEN -1 ELSE @,
               !.num = @ - tb.cnt[p], !.cnt[p] = 0]

\* the growing table doubles a partition up to its reserved slots
Grown(tb, p) ==
    IF tb.kind # "probing" \/ tb.size[p] = PerPartition THEN tb
    ELSE [tb EXCEPT !.size[p] = IF PerPartition < 2 * @ THEN PerPartition ELSE 2 * @]

\* FlushPartitionEmit: emit all items, empty the partition, maybe grow it
FlushPartitionEmit_First(tb, p, consume, grow) ==
    LET emitted == [tb EXCEPT !.out = @ \o [i \in 1..Len(Contents(tb, p)) |-> [p |-> 0, x |-> Contents(tb, p)[i]]]]
    IN IF consume THEN Emptied(emitted, p) ELSE emitted
FlushPartitionEmit(tb, p, consume, grow) ==
    LET emitted == [tb EXCEPT !.out = @ \o [i \in 1..Len(Contents(tb, p)) |-> [p |-> p, x |-> Contents(tb, p)[i]]]]
        left == IF consume THEN Emptied(emitted, p) ELSE emitted
    IN IF grow THEN Grown(left, p) ELSE left

\* SpillPartition: to the emitter in a pre phase, to the partition's file else
SpillPartition_Swapped(tb, p) ==
    IF tb.imm THEN FlushPartitionEmit(tb, p, TRUE, ~tb.exceeded)
    ELSE IF tb.cnt[p] = 0 THEN tb
    ELSE LET e == Emptied(tb, p) IN [e EXCEPT !.files[p] = @ \o Contents(e, p)]
SpillPartition(tb, p) ==
    IF tb.imm THEN FlushPartitionEmit(tb, p, TRUE, ~tb.exceeded)
    ELSE IF tb.cnt[p] = 0 THEN tb
    ELSE [Emptied(tb, p) EXCEPT !.files[p] = @ \o Contents(tb, p)]

\* SpillLargestPartition: the first partition with the most items, if any
SpillLargestPartition(tb) ==
    LET most == Max(Range(tb.cnt))
    IN IF most = 0 THEN tb ELSE SpillPartition(tb, Min({p \in Parts : tb.cnt[p] = most}))

\* the loops "while (memory_exceeded && num_items_ != 0)" and "num_blocks_ > limit"
RECURSIVE SpillWhileExceeded(_)
SpillWhileExceeded(tb) == IF tb.exceeded /\ tb.num # 0 THEN SpillWhileExceeded(SpillLargestPartition(tb)) ELSE tb
RECURSIVE SpillWhileBlocks(_)
SpillWhileBlocks(tb) == IF tb.blocks > LimitBlocks THEN SpillWhileBlocks(SpillLargestPartition(tb)) ELSE tb

\* GrowPartition spills instead of growing while the memory is exceeded
GrowPartition(tb, p) == IF tb.exceeded THEN SpillPartition(tb, p) ELSE Grown(tb, p)

\* linear probing with wrap: the slot with the key or the first empty one, 0 if full
ProbeAt(tb, p, from, j) == ((from - 1 + j) % tb.size[p]) + 1
Stops(tb, p, i, k) == tb.slots[p][i].k \in {0, k}
Probe(tb, p, from, k) ==
    LET js == {j \in 0..(tb.size[p] - 1) : Stops(tb, p, ProbeAt(tb, p, from, j), k)}
    IN IF js = {} THEN 0 ELSE ProbeAt(tb, p, from, Min(js))

Counted(tb, p) == [tb EXCEPT !.cnt[p] = @ + 1, !.num = @ + 1]

\* a loop of the code that does not end is cut at MaxDepth and remembered
Deeper(tb) == [tb EXCEPT !.depth = @ + 1]
Cut(tb) == tb.depth > MaxDepth

RECURSIVE GrowAndRehash(_, _), InsertProbing(_, _), Rehash(_, _, _, _, _), GrowWhile(_, _, _)

\* the loop of GrowAndRehash: take out slot i and insert again, past the old
\* size until a hole; running off the reserved slots is the next partition's
Rehash_FirstHalf(tb, p, i, old, passed) ==
    IF passed \/ i > PerPartition THEN tb
    ELSE LET x == tb.slots[p][i]
             out == [tb EXCEPT !.slots[p][i] = NoItem, !.cnt[p] = @ - 1, !.num = @ - 1]
         IN Rehash(IF IsEmptySlot(x) THEN tb ELSE InsertProbing(out, x), p, i + 1, old, i = old)
Rehash(tb, p, i, old, passed) ==
    IF i > PerPartition THEN [tb EXCEPT !.overrun = TRUE]
    ELSE LET x == tb.slots[p][i]
             out == [tb EXCEPT !.slots[p][i] = NoItem, !.cnt[p] = @ - 1, !.num = @ - 1]
             next == IF IsEmptySlot(x) THEN tb ELSE InsertProbing(out, x)
         IN IF passed /\ IsEmptySlot(x) THEN next ELSE Rehash(next, p, i + 1, old, passed \/ i = old)

GrowAndRehash_NewEnd(tb, p) ==
    LET Again(g, old) == IF g.size[p] = old \/ g.size[p] % old # 0 THEN SpillPartition(g, p)
                         ELSE Rehash(g, p, 1, g.size[p], FALSE)
    IN IF Cut(tb) THEN tb ELSE Again(Deeper(GrowPartition(tb, p)), tb.size[p])
GrowAndRehash(tb, p) ==
    LET Again(g, old) == IF g.size[p] = old \/ g.size[p] % old # 0 THEN SpillPartition(g, p)
                         ELSE Rehash(g, p, 1, old, FALSE)
    IN IF Cut(tb) THEN tb ELSE Again(Deeper(GrowPartition(tb, p)), tb.size[p])

\* "while (items >= limit) GrowAndRehash", with > for the sentinel
GrowWhile(tb, p, slack) ==
    IF tb.cnt[p] >= LimitItems(tb.size[p]) + slack /\ ~Cut(tb) THEN GrowWhile(GrowAndRehash(tb, p), p, slack) ELSE tb

\* ReduceProbingHashTable::Insert
InsertProbing(tb, kv) ==
    LET i == calculate_index(tb, kv.k)
        at == Probe(tb, i.p, local_index(i, tb.size[i.p]), kv.k)
    IN IF kv.k = 0
       THEN IF tb.sentp # -1 THEN [tb EXCEPT !.sentinel = reduce(@, kv)]
            ELSE GrowWhile(Counted([tb EXCEPT !.sentinel = kv, !.sentp = i.p], i.p), i.p, 1)
       ELSE IF at = 0 THEN IF Cut(tb) THEN tb ELSE InsertProbing(GrowAndRehash(tb, i.p), kv)
       ELSE IF tb.slots[i.p][at].k = kv.k THEN [tb EXCEPT !.slots[i.p][at] = reduce(@, kv)]
       ELSE GrowWhile(Counted([tb EXCEPT !.slots[i.p][at] = kv], i.p), i.p, 0)

\* ReduceOldProbingHashTable::Insert: no growth, a full circle spills
InsertOldAt(tb, i, kv) ==
    LET from == local_index(i, PerPartition)
        at == Probe(tb, i.p, from, kv.k)
        SpillOver(tc) == IF tc.cnt[i.p] > LimitItems(PerPartition) THEN SpillPartition(tc, i.p) ELSE tc
    IN IF kv.k = 0
       THEN SpillOver(Counted([tb EXCEPT !.sentinel = IF tb.sentp = -1 THEN kv ELSE reduce(@, kv),
                                         !.sentp = i.p], i.p))
       ELSE IF at = 0 THEN Counted([SpillPartition(tb, i.p) EXCEPT !.slots[i.p][from] = kv], i.p)
       ELSE IF tb.slots[i.p][at].k = kv.k THEN [tb EXCEPT !.slots[i.p][at] = reduce(@, kv)]
       ELSE SpillOver(Counted([tb EXCEPT !.slots[i.p][at] = kv], i.p))
InsertOld(tb, kv) == InsertOldAt(SpillWhileExceeded(tb), calculate_index(tb, kv.k), kv)

\* BucketBlock lookup: the block and the place of a key in its chain, or none
Found(chain, k) == {bj \in (1..Len(chain)) \X (1..BlockItems) : bj[2] <= Len(chain[bj[1]]) /\ chain[bj[1]][bj[2]].k = k}

\* ReduceBucketHashTable::Insert: chains of blocks, a new block in front
InsertBucketAt(tb, i, kv) ==
    LET b == local_index(i, PerPartition)
        chain == tb.buckets[i.p][b]
        found == Found(chain, kv.k)
        full == chain = <<>> \/ Len(chain[1]) = BlockItems
        room == IF full THEN LET s == SpillWhileBlocks(tb)
                             IN [s EXCEPT !.buckets[i.p][b] = <<<<>>>> \o @, !.blocks = @ + 1]
                ELSE tb
        put == Counted([room EXCEPT !.buckets[i.p][b][1] = Append(@, kv)], i.p)
    IN IF found # {}
       THEN LET bj == CHOOSE y \in found : TRUE
            IN [tb EXCEPT !.buckets[i.p][b][bj[1]][bj[2]] = reduce(@, kv)]
       ELSE IF put.cnt[i.p] > LimitItems(PerPartition * BlockItems) THEN SpillPartition(put, i.p) ELSE put
InsertBucket(tb, kv) == InsertBucketAt(SpillWhileExceeded(tb), calculate_index(tb, kv.k), kv)

InsertItem(tb, kv) ==
    CASE tb.kind = "probing" -> InsertProbing(tb, kv)
      [] tb.kind = "old" -> InsertOld(tb, kv)
      [] OTHER -> InsertBucket(tb, kv)

FlushPartition(tb, p) == FlushPartitionEmit(tb, p, TRUE, FALSE)
FlushAll(tb) == FoldLeft(FlushPartition, tb, SetToSortSeq(Parts, <))

----------------------------------------------------------------------------
\* ReduceByHashPostPhase::Flush: partitions with a file are spilled as a whole
\* and reduced again, under the next salt, in one subtable for all files
EmitClean_Spilled(tb, p) == FlushPartitionEmit(tb, p, TRUE, FALSE)
EmitClean(tb, p) ==
    IF tb.files[p] # <<>> THEN SpillPartition(tb, p) ELSE FlushPartitionEmit(tb, p, TRUE, FALSE)

Settle(tb) == FoldLeft(EmitClean, tb, SetToSortSeq(Parts, <))
SpilledFiles(tb) == SelectSeq([i \in 1..NumPartitions |-> tb.files[i - 1]], LAMBDA f : f # <<>>)

\* what a table whose partitions are settled has spilled joins the files to come
Collected(next, tb) == [tb |-> [tb EXCEPT !.files = [p \in Parts |-> <<>>]], next |-> next \o SpilledFiles(tb)]

\* one file through the subtable: insert all, then settle its partitions
ReReduceFile(st, file) ==
    Collected(st.next, Settle(FoldLeft(LAMBDA tb, x : InsertItem(tb, x), [st.tb EXCEPT !.depth = 0], file)))

RECURSIVE ReReduce(_, _, _)
ReReduce(st, iteration, kind) ==
    IF st.next = <<>> THEN st.tb.out
    ELSE IF iteration \notin DOMAIN hash THEN Append(st.tb.out, [p |-> -1, x |-> NoItem])
    ELSE LET sub == [Initialize(kind, FALSE, iteration) EXCEPT !.out = st.tb.out]
         IN ReReduce(FoldLeft(ReReduceFile, [tb |-> sub, next |-> <<>>], st.next), iteration + 1, kind)

Flush(tb) == ReReduce(Collected(<<>>, Settle(tb)), 1, tb.kind)

\* PushData: without spilled data the table itself is flushed, kept or consumed;
\* with spilled data it is consumed into a cache that later calls read
Cached(tb, out) == [out |-> out, tb |-> Initialize(tb.kind, FALSE, 0), cache |-> out]
PushData(tb, cache, consume) ==
    IF cache # <<>> THEN [out |-> cache, tb |-> tb, cache |-> cache]
    ELSE IF \A p \in Parts : tb.files[p] = <<>>
    THEN LET f == FoldLeft(LAMBDA u, p : FlushPartitionEmit(u, p, consume, FALSE), [tb EXCEPT !.out = <<>>],
                           SetToSortSeq(Parts, <))
         IN [out |-> f.out, tb |-> f, cache |-> <<>>]
    ELSE Cached(tb, Flush([tb EXCEPT !.out = <<>>]))

----------------------------------------------------------------------------
Init ==
    /\ hash \in HashFunctions
    /\ \E kind \in {"probing", "old", "bucket"}, imm \in BOOLEAN : t = Initialize(kind, imm, 0)
    /\ input = [k \in Keys |-> 0]
    /\ result = <<>>
    /\ phase = "insert"

\* one value comes in, while the memory of the process is or is not exceeded
Insert(k, exceeded) ==
    /\ phase = "insert"
    /\ FoldFunction(+, 0, input) < MaxInserts
    /\ input' = [input EXCEPT ![k] = @ + 1]
    /\ t' = InsertItem([t EXCEPT !.exceeded = exceeded, !.depth = 0], [k |-> k, v |-> 1])
    /\ UNCHANGED <<hash, result, phase>>

\* the pre phase ends: ReducePrePhase::FlushAll
EndPre ==
    /\ phase = "insert" /\ t.imm
    /\ t' = FlushAll(t)
    /\ phase' = "flushed"
    /\ UNCHANGED <<hash, input, result>>

\* the post phase ends: PushData for a child, which may keep, and for the last
EndPost ==
    /\ phase = "insert" /\ ~t.imm
    /\ \E one \in {PushData(t, <<>>, FALSE)} : \E two \in {PushData(one.tb, one.cache, TRUE)} :
          /\ result' = <<one.out, two.out>>
          /\ t' = two.tb
    /\ phase' = "flushed"
    /\ UNCHANGED <<hash, input>>

Next == EndPre \/ EndPost \/ \E k \in Keys, exceeded \in BOOLEAN : Insert(k, exceeded)

----------------------------------------------------------------------------
Stored == FlattenSeq([i \in 1..NumPartitions |-> Contents(t, i - 1)])
SumOf(s, k) == FoldSeq(LAMBDA x, n : IF x.k = k THEN n + x.v ELSE n, 0, s)
OutItems == [i \in 1..Len(t.out) |-> t.out[i].x]

\* While values come in, none is lost or counted twice by growing, rehashing,
\* spilling or flushing: every value is in the table, a file or the output.
ValuesConserved ==
    phase = "insert" \/ t.imm =>
        \A k \in Keys : input[k] = SumOf(Stored, k) + SumOf(OutItems, k)
                                   + SumOf(FlattenSeq([i \in 1..NumPartitions |-> t.files[i - 1]]), k)

\* No key is held twice: an item that rehashing or the wrap-around left where a
\* probe cannot find it would get a second slot, and come out unreduced.
EachKeyHeldOnce ==
    \A i, j \in 1..Len(Stored) : Stored[i].k = Stored[j].k => i = j

\* Items leave through the file, the writer and the slots of their partition.
InTheirPartition ==
    /\ \A p \in Parts : \A x \in Range(Contents(t, p)) \cup Range(t.files[p]) : calculate_index(t, x.k).p = p
    /\ \A e \in Range(t.out) : calculate_index(t, e.x.k).p = e.p

\* items_per_partition_ and num_items_, which decide when to grow and what to
\* spill, count the stored items (the fixed probing table counts every value of
\* the sentinel), and the assertion num_items_ == num_items_calc() holds.
CountersExact ==
    /\ t.num = FoldFunction(+, 0, t.cnt)
    /\ \A p \in Parts : IF t.kind = "old" THEN t.cnt[p] >= Len(Contents(t, p)) ELSE t.cnt[p] = Len(Contents(t, p))
    /\ t.blocks = FoldSeq(LAMBDA p, n : n + FoldFunction(LAMBDA b, c : Len(b) + c, 0, t.buckets[p - 1]), 0,
                          [i \in 1..NumPartitions |-> i])

\* Growing ends, and rehashing stays within the slots of its partition.
RehashInBounds == ~t.overrun /\ t.depth <= MaxDepth

\* The post phase pushes every key exactly once, with all of its values, however
\* much was spilled, and a second push gives the same items.
PostPhaseReduces ==
    phase = "flushed" /\ ~t.imm =>
        /\ \A n \in 1..2 : LET items == [i \in 1..Len(result[n]) |-> result[n][i].x]
                           IN /\ \A k \in Keys : SumOf(items, k) = input[k]
                              /\ Cardinality({items[i].k : i \in 1..Len(items)}) = Len(items)
        /\ Range(result[1]) = Range(result[2])
=============================================================================
