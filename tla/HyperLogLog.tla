---------------------------- MODULE HyperLogLog ----------------------------
(***************************************************************************)
(* core/hyperloglog.cpp and api/hyperloglog.hpp: the registers with which  *)
(* the workers estimate how many different items a DIA has.  Few hashes    *)
(* are kept as a sparse list of 25-bit prefixes, difference and varint     *)
(* coded, behind which new ones wait in deltaSet; many as 2^p dense        *)
(* registers.  A worker inserts its hashes, then AllReduce exchanges the   *)
(* registers, serialized, and adds them in whatever order the group is     *)
(* connected.  Hashes, registers and varints are narrower here than in the *)
(* code, the relations between their widths are kept.  Of the estimation   *)
(* itself the counts and the choice of the neighbours are modelled, the    *)
(* floating-point formulas are not.                                        *)
(***************************************************************************)
EXTENDS Integers, Sequences, FiniteSets, SequencesExt
CONSTANTS
    HashBits,          \* 64
    RegisterBits,      \* 32, of HyperLogLogSparseRegister
    RegisterBytes,     \* 4, its sizeof
    SparsePrecision,   \* 25
    DensePrecision,    \* p
    Hashes,            \* the hashes that items have
    Workers,
    MaxInserts         \* bounds the insertions of a worker

\* DensePrecision < SparsePrecision < HashBits, and a rank fits into what is left of a register

B == INSTANCE Buffers WITH Group <- 8, Doubling <- 8, FirstSize <- 4
Word == 2^RegisterBits

VARIABLES
    hll,     \* registers_ of each worker's HyperLogLogNode
    seen,    \* the hashes they stand for
    left     \* the insertions a worker may still make
vars == <<hll, seen, left>>

HigherOf(a, b) == IF a < b THEN b ELSE a

(***************************************************************************)
(* Splitting a hash                                                        *)
(***************************************************************************)
\* tlx::clz
Clz(x, bits) == Cardinality({i \in 0..(bits - 1) : x < 2^i})
encodePair(index, value) ==
    LET decidingBits == index % 2^(SparsePrecision - DensePrecision)
        shifted == index * 2^(RegisterBits - SparsePrecision)
    IN IF decidingBits = 0 THEN shifted + 2 * value + 1 ELSE shifted
encodeHash_NoZero(hash) ==
    LET valueBits == (hash * 2^SparsePrecision) % 2^HashBits
    IN encodePair(hash \div 2^(HashBits - SparsePrecision), Clz(valueBits, HashBits) + 1)
encodeHash(hash) ==
    LET valueBits == (hash * 2^SparsePrecision) % 2^HashBits
        leadingZeroes == IF valueBits = 0 THEN HashBits - SparsePrecision ELSE Clz(valueBits, HashBits)
    IN encodePair(hash \div 2^(HashBits - SparsePrecision), leadingZeroes + 1)
decodeHash(reg) ==
    LET index == reg \div 2^(RegisterBits - DensePrecision)
        sparseValue == (reg \div 2) % 2^(RegisterBits - 1 - SparsePrecision)
        topBits == ((reg - (reg % 2^(RegisterBits - SparsePrecision))) * 2^DensePrecision) % 2^RegisterBits
    IN [index |-> index,
        value |-> IF reg % 2 = 1 THEN sparseValue + (SparsePrecision - DensePrecision) ELSE Clz(topBits, RegisterBits) + 1]
splitSparseRegister(reg) == [index |-> reg \div 2^(RegisterBits - SparsePrecision), value |-> (reg % 2^(RegisterBits - SparsePrecision)) \div 2]

(***************************************************************************)
(* Sparse lists                                                            *)
(***************************************************************************)
\* the last of the registers with the same index stays
mergeSameIndices(list) ==
    FoldLeft(LAMBDA merged, reg :
                IF merged # <<>> /\ splitSparseRegister(reg).index = splitSparseRegister(Last(merged)).index
                THEN Front(merged) \o <<reg>> ELSE Append(merged, reg),
             <<>>, list)
encodeSparseList(list) ==
    FlattenSeq([i \in DOMAIN list |-> B!PutVarint(IF i = 1 THEN list[1] ELSE list[i] - list[i - 1])])
\* SparseListIterator: PeekVarint32 at the iterator, on top of lastVal
RECURSIVE SparseListFrom(_, _, _)
SparseListFrom(bytes, at, lastVal) ==
    IF at > Len(bytes) THEN <<>>
    ELSE LET v == B!GetVarint(bytes, at, Word)
         IN <<lastVal + v.got>> \o SparseListFrom(bytes, v.at, lastVal + v.got)
decodeSparseList(bytes) == SparseListFrom(bytes, 1, 0)

(***************************************************************************)
(* HyperLogLogRegisters                                                    *)
(***************************************************************************)
NewRegisters == [format |-> "SPARSE", sparse_size |-> 0, sparseList |-> <<>>, deltaSet |-> <<>>, entries |-> <<>>]
M == 2^DensePrecision

RaiseEntry(entries, reg) ==
    LET decoded == decodeHash(reg) IN [entries EXCEPT ![decoded.index] = HigherOf(@, decoded.value)]
toDense(x) ==
    [x EXCEPT !.format = "DENSE", !.sparseList = <<>>, !.deltaSet = <<>>,
              !.entries = FoldLeft(RaiseEntry, [i \in 0..(M - 1) |-> 0], decodeSparseList(x.sparseList) \o x.deltaSet)]
shouldConvertToDense(x) == Len(x.deltaSet) * RegisterBytes + Len(x.sparseList) > M
shouldMerge(x) == Len(x.deltaSet) * RegisterBytes > M \div 4
\* std::merge of the list and the sorted deltaSet
mergeSparse(x) ==
    LET vec == mergeSameIndices(SortSeq(decodeSparseList(x.sparseList) \o x.deltaSet, LAMBDA a, b : a < b))
    IN [x EXCEPT !.deltaSet = <<>>, !.sparse_size = Len(vec), !.sparseList = encodeSparseList(vec)]

insert_hash(x, hash) ==
    IF x.format = "SPARSE"
    THEN LET added == [x EXCEPT !.sparse_size = @ + 1, !.deltaSet = Append(@, encodeHash(hash))]
             merged == IF shouldMerge(added) THEN mergeSparse(added) ELSE added
         IN IF shouldConvertToDense(merged) THEN toDense(merged) ELSE merged
    ELSE LET val == (hash * M) % 2^HashBits
             leadingZeroes == IF val = 0 THEN HashBits - DensePrecision ELSE Clz(val, HashBits)
         IN [x EXCEPT !.entries[hash \div 2^(HashBits - DensePrecision)] = HigherOf(leadingZeroes + 1, @)]

mergeDense(x, b) == [x EXCEPT !.entries = [i \in 0..(M - 1) |-> HigherOf(x.entries[i], b.entries[i])]]
\* operator +
Plus_DeltaOnly(x, y) ==
    IF x.format = "SPARSE" /\ y.format = "SPARSE"
    THEN LET merged == mergeSparse([x EXCEPT !.deltaSet = @ \o y.deltaSet])
         IN IF shouldConvertToDense(merged) THEN toDense(merged) ELSE merged
    ELSE IF x.format = "SPARSE" THEN mergeDense(toDense(x), y)
    ELSE IF y.format = "SPARSE" THEN mergeDense(toDense(y), x)
    ELSE mergeDense(x, y)
Plus(x, y) ==
    IF x.format = "SPARSE" /\ y.format = "SPARSE"
    THEN LET merged == mergeSparse([x EXCEPT !.deltaSet = @ \o decodeSparseList(y.sparseList) \o y.deltaSet])
         IN IF shouldConvertToDense(merged) THEN toDense(merged) ELSE merged
    ELSE IF x.format = "SPARSE" THEN mergeDense(toDense(x), y)
    ELSE IF y.format = "SPARSE" THEN mergeDense(toDense(y), x)
    ELSE mergeDense(x, y)

\* result(), sparse: the linear count with 2^25 registers of which V are empty;
\* dense: the empty registers, and the sum of 2^-entry in units of 2^-(64 - p + 1)
result(x) ==
    IF x.format = "SPARSE"
    THEN LET merged == mergeSparse(x) IN [m |-> 2^SparsePrecision, V |-> 2^SparsePrecision - merged.sparse_size, E |-> 0]
    ELSE [m |-> M,
          V |-> Cardinality({i \in 0..(M - 1) : x.entries[i] = 0}),
          E |-> FoldLeft(+, 0, [i \in 1..M |-> 2^(HashBits - DensePrecision + 1 - x.entries[i - 1])])]

(***************************************************************************)
(* Serialization: sparse_size_ is not written                              *)
(***************************************************************************)
Pods == <<"vector", <<"pod", 1>>>>
AsPods(s) == [i \in DOMAIN s |-> <<s[i]>>]
OfPods(s) == FlattenSeq(s)
Serialize(x) ==
    IF x.format = "SPARSE" THEN <<0>> \o B!Serialize(Pods, AsPods(x.sparseList)) \o B!Serialize(Pods, AsPods(x.deltaSet))
    ELSE <<1>> \o B!Serialize(<<"array", M, <<"pod", 1>>>>, [i \in 1..M |-> <<x.entries[i - 1]>>])
Deserialize(bytes) ==
    IF bytes[1] = 0
    THEN LET list == B!Deserialize(Pods, bytes, 2, Word)
             delta == B!Deserialize(Pods, bytes, list.at, Word)
         IN [NewRegisters EXCEPT !.sparseList = OfPods(list.got), !.deltaSet = OfPods(delta.got)]
    ELSE LET all == OfPods(B!Deserialize(<<"array", M, <<"pod", 1>>>>, bytes, 2, Word).got)
         IN [NewRegisters EXCEPT !.format = "DENSE", !.entries = [i \in 0..(M - 1) |-> all[i + 1]]]

(***************************************************************************)
(* HyperLogLogNode: the PreOp inserts, Execute is AllReduce                *)
(***************************************************************************)
Init == hll = [w \in Workers |-> NewRegisters] /\ seen = [w \in Workers |-> {}] /\ left = [w \in Workers |-> MaxInserts]

Insert(w, hash) ==
    /\ left[w] > 0
    /\ hll' = [hll EXCEPT ![w] = insert_hash(@, hash)]
    /\ seen' = [seen EXCEPT ![w] = @ \cup {hash}]
    /\ left' = [left EXCEPT ![w] = @ - 1]

\* One step of AllReduce: w adds what it has received from u.  Its own items
\* are all inserted before.
Receive(w, u) ==
    /\ hll' = [hll EXCEPT ![w] = Plus(@, Deserialize(Serialize(hll[u])))]
    /\ seen' = [seen EXCEPT ![w] = @ \cup seen[u]]
    /\ left' = [left EXCEPT ![w] = 0, ![u] = 0]

Next == \E w \in Workers : (\E h \in Hashes : Insert(w, h)) \/ (\E u \in Workers \ {w} : Receive(w, u))
Spec == Init /\ [][Next]_vars

(***************************************************************************)
(* estimateBias: the mean bias of the k raw estimates of a table that are  *)
(* nearest to a raw estimate (k = 6), as the indices it takes them from    *)
(***************************************************************************)
\* std::lower_bound
LowerBound(data, estimate) == Cardinality({i \in 0..(Len(data) - 1) : data[i + 1] < estimate})
Distance(a, b) == IF a < b THEN b - a ELSE a - b
RECURSIVE Neighbours(_, _, _, _, _)
Neighbours(k, lower, upper, data, estimate) ==
    IF k = 0 THEN {}
    ELSE LET infinite == upper >= Len(data)   \* the upper distance; beyond it lower is, too
             goLower == IF lower < 0 THEN infinite
                        ELSE infinite \/ Distance(estimate, data[lower + 1]) <= Distance(estimate, data[upper + 1])
         IN IF goLower THEN {lower} \cup Neighbours(k - 1, lower - 1, upper, data, estimate)
            ELSE {upper} \cup Neighbours(k - 1, lower, upper + 1, data, estimate)
knearestNeighbor_Below(k, data, estimate) ==
    LET index == LowerBound(data, estimate) IN Neighbours(k, index + 1, index + 2, data, estimate)
knearestNeighbor(k, data, estimate) ==
    LET index == LowerBound(data, estimate) IN Neighbours(k, index, index + 1, data, estimate)

(***************************************************************************)
(* Properties                                                              *)
(***************************************************************************)
\* the register of a hash, and the position of the first one behind its index
IndexOf(h) == h \div 2^(HashBits - DensePrecision)
Bit(h, i) == (h \div 2^(HashBits - DensePrecision - i)) % 2
Rank(h) ==
    LET ones == {i \in 1..(HashBits - DensePrecision) : Bit(h, i) = 1}
    IN CHOOSE r \in ones \cup {HashBits - DensePrecision + 1} : \A i \in ones : r <= i

\* The registers are what they would be had all hashes gone into dense registers
\* at once, the highest rank of each index, however the hashes were inserted,
\* merged, converted, serialized and added to those of other workers; while they
\* are sparse, result() counts the different prefixes, although sparse_size_ is
\* not sent, and the list is increasing.
SketchExact ==
    \A w \in Workers :
        LET x == hll[w]
            entries == IF x.format = "DENSE" THEN x.entries ELSE toDense(x).entries
            list == decodeSparseList(x.sparseList)
            Ranks(i) == {Rank(h) : h \in {g \in seen[w] : IndexOf(g) = i}}
        IN /\ \A i \in 0..(M - 1) : entries[i] \in Ranks(i) \cup {0} /\ \A r \in Ranks(i) : r <= entries[i]
           /\ \A i \in 1..(Len(list) - 1) : list[i] < list[i + 1]
           /\ x.format = "SPARSE" =>
                2^SparsePrecision - result(x).V = Cardinality({h \div 2^(HashBits - SparsePrecision) : h \in seen[w]})
=============================================================================
