--------------------------- MODULE CheckAlgorithms ---------------------------
(***************************************************************************)
(* Arrays just long enough for the partitioning steps, with few and with   *)
(* many equal values.                                                      *)
(***************************************************************************)
EXTENDS Operation
G == INSTANCE Algorithms

\* arrays i |-> (a * i + b) % m
Linear(n, ms) == {G!Upto(0) \o [i \in 1..n |-> (a * i + b) % m] : a \in 0..12, b \in {0, 3}, m \in ms}
Words(n) == {[i \in 1..n |-> <<(a * i) % 3, (b * i + i \div 2) % 3>>] : a \in 0..4, b \in 0..4}
SmallArrays == UNION {[1..n -> 0..2] : n \in 0..6}
SortedByLess(s) == G!SortSeq(s, LAMBDA x, y : x < y)
SameItems(s, t) == \A x \in G!Range(s) \cup G!Range(t) : Len(SelectSeq(s, LAMBDA y : y = x)) = Len(SelectSeq(t, LAMBDA y : y = x))
Ordered(s) == \A i \in 1..(Len(s) - 1) : s[i] <= s[i + 1]

AlgorithmInit ==
    \/ Called("Quicksort", [a : SmallArrays \cup Linear(11, {2, 3, 13}) \cup Linear(17, {2, 3, 5, 17, 19}) \cup Linear(40, {7, 41})])
    \/ Called("Radixsort", [a : UNION {Words(n) : n \in 4..9}])
    \/ Called("Heap", [a : UNION {[1..n -> 0..3] : n \in 1..5} \cup Linear(9, {11, 4}), x : {0, 2}])
    \/ Called("UInt", [x : 0..31, y : 0..31])
CallAlgorithm ==
    \/ /\ Return("Quicksort")
       /\ out' = <<[two |-> G!qsort_two_pivots(arg.a, 1, Len(arg.a) + 1, 9), three |-> G!qsort_three_pivots(arg.a, 1, Len(arg.a) + 1, 16)]>>
    \/ Return("Radixsort") /\ out' = <<G!radix_sort_CI(arg.a, 1, Len(arg.a) + 1, 1, 3, 3)>>
    \/ /\ Return("Heap")
       /\ LET h == G!FoldLeft(G!emplace, <<>>, arg.a)
          IN out' = <<[heap |-> h, popped |-> G!pop(h), erased |-> G!erase(h, arg.x)]>>
    \/ /\ Return("UInt")
       /\ LET u == G!UIntPair(arg.x, 4, 8)
              v == G!UIntPair(arg.y, 4, 8)
          IN out' = <<[plus |-> G!Plus(u, v, 4, 8), minus |-> G!Minus(u, v, 4, 8), inc |-> G!increment(u, 4, 8),
                       dec |-> G!decrement(u, 4, 8), less |-> G!Less(u, v)]>>

\* qsort_two_pivots_yaroslavskiy, qsort_three_pivots: whatever the pivots, and
\* with equal items, the array is sorted and has the same items; the inner loops
\* need no bounds because the pivots at the ends stop them.
QuicksortsSort == Returned("Quicksort") => \A s \in {res.two, res.three} : Ordered(s) /\ SameItems(s, arg.a)

\* radix_sort_CI: sorted by all digits; the cycles move every item once, leave
\* out the last bucket and never write over an item.
RadixSorts ==
    Returned("Radixsort") =>
        SameItems(res, arg.a) /\ Ordered([i \in DOMAIN res |-> 3 * res[i][1] + res[i][2]])

HeapOrdered(c) == \A i \in 2..Len(c) : ~(c[i \div 2] < c[i])
\* binary_heap.hpp, "binary heap priority queue": after erase, too, every item is
\* behind its parent, so that the next one is on top.
ErasedHeapOrdered == Returned("Heap") => HeapOrdered(res.erased)

\* BinaryHeap: emplace and pop keep the heap order, so the timer that is due
\* first is on top, and erase removes exactly the items asked for, in whatever
\* order it leaves the others; it keeps the order of heaps of up to three.
HeapKeepsOrder ==
    Returned("Heap") =>
        /\ HeapOrdered(res.heap) /\ SameItems(res.heap, arg.a)
        /\ HeapOrdered(res.popped) /\ SameItems(Append(res.popped, res.heap[1]), arg.a)
        /\ SameItems(res.erased, SelectSeq(arg.a, LAMBDA y : y # arg.x))
        /\ Len(arg.a) <= 3 => ErasedHeapOrdered

\* UIntPair: +, -, ++, -- and < on two parts are those of the whole number, with
\* carry and borrow, modulo 2^40 (2^48); suffix arrays are indexed with it.
UIntPairExact ==
    Returned("UInt") =>
        /\ G!ull(res.plus, 4) = (arg.x + arg.y) % 32 /\ G!ull(res.minus, 4) = (arg.x - arg.y + 32) % 32
        /\ G!ull(res.inc, 4) = (arg.x + 1) % 32 /\ G!ull(res.dec, 4) = (arg.x + 31) % 32
        /\ res.less = (arg.x < arg.y)

(***************************************************************************)
(* All outcomes of the samplers on few items.                              *)
(***************************************************************************)
Gaps == {0, 1, 3}
ReservoirCalls == [n : 1..6, size : 1..2]
CallReservoir ==
    /\ Return("Reservoir")
    /\ LET items == G!Upto(arg.n)
           slow(s, x) == G!Reservoir(s, x)
           fast(s, x) == G!ReservoirFast(s, x, Gaps)
           grow(s, x) == G!ReservoirGrow(s, x, Gaps)
       IN out' = <<[slow |-> G!AfterAll(G!NewReservoir(arg.size), items, slow),
                    fast |-> G!AfterAll(G!NewReservoir(arg.size), items, fast),
                    grow |-> G!AfterAll(G!NewReservoir(0), items, grow)]>>

\* ReservoirSampling, ReservoirSamplingFast: the reservoir is as full as it can
\* be, holds no item twice, and may hold any of the items, the last one too,
\* although most of them are skipped unseen.
ReservoirsDrawFromAll ==
    Returned("Reservoir") =>
        \A S \in {res.slow, res.fast} :
            /\ \A s \in S : G!IsInjective(s.samples) /\ Len(s.samples) = G!SmallerOf(arg.n, arg.size)
            /\ \A x \in 1..arg.n : \E s \in S : x \in G!Range(s.samples)

\* ReservoirSamplingGrow: the vector is as long as size_ says when a sample is
\* put into it, grows only, holds items only, and while it is longer than the
\* number of items it has each of them: Sort does not miss a value of a small DIA.
\* No position is drawn from a vector that is still empty.
GrowingReservoirFull ==
    Returned("Reservoir") =>
        /\ res.grow # {}
        /\ \A s \in res.grow :
            /\ Len(s.samples) = s.size /\ G!Range(s.samples) \subseteq 1..arg.n
            /\ s.size >= 1 /\ s.size <= G!calc_sample_size(arg.n)
            /\ arg.n <= 3 => s.size = G!calc_sample_size(arg.n) /\ 1..arg.n \subseteq G!Range(s.samples)

\* five or six positions of which some are drawn
SamplingCalls == {[n |-> n, size |-> k] : n \in 1..6, k \in 0..4}
CallSampling ==
    /\ Return("Sampling") /\ arg.size <= arg.n
    /\ out' = <<[split |-> G!do_sample(0, arg.n, arg.size, 4, 2, 1), hash |-> IF arg.size = 0 THEN {<<>>} ELSE G!hash_sample(0, arg.n, arg.size, 0)]>>
\* Sampling: as many positions as asked for, no position twice, through the
\* recursion and through the hash table with its collisions; any set of them.
SamplesWithoutReplacement ==
    Returned("Sampling") =>
        \A S \in {res.split, res.hash} :
            /\ \A s \in S : Len(s) = arg.size /\ G!IsInjective(s) /\ G!Range(s) \subseteq 0..(arg.n - 1)
            /\ {G!Range(s) : s \in S} = {P \in SUBSET (0..(arg.n - 1)) : Cardinality(P) = arg.size}

\* up to six items on three workers
SampleCalls == {[sizes |-> <<a, b, c>>, k |-> k] : a \in 0..2, b \in 0..2, c \in 0..2, k \in 0..4} \cup [sizes : {<<0>>, <<3>>}, k : 0..4]
\* the ranges the recursion halves, with the choices made for them
RECURSIVE Splits2(_, _)
Splits2(b, e) == IF e - b < 2 THEN {} ELSE LET m == b + ((e - b) \div 2) IN {<<b, e>>} \cup Splits2(b, m) \cup Splits2(m, e)
CallSample ==
    /\ Return("Sample")
    /\ \E f \in [Splits2(0, G!FoldLeft(+, 0, arg.sizes)) -> 0..2] :
           LET hyp == [r \in {<<b, e>> : b, e \in 0..6} |-> IF r \in DOMAIN f THEN f[r] ELSE 0]
           IN out' = <<G!SampleNode(arg.sizes, arg.k, hyp)>>
\* Sample: the workers, each for itself, take together as many samples as were
\* asked for, and none takes more than its reservoir holds; so what PushData
\* draws from the reservoirs is that number of different items.
SampleSizesAgree ==
    Returned("Sample") =>
        /\ G!FoldLeft(+, 0, res) = G!SmallerOf(arg.k, G!FoldLeft(+, 0, arg.sizes))
        /\ \A w \in DOMAIN arg.sizes : res[w] <= G!SmallerOf(arg.sizes[w], arg.k)
        /\ \A w \in DOMAIN arg.sizes : \A s \in G!SamplePush(G!Upto(G!SmallerOf(arg.sizes[w], arg.k)), res[w]) : Len(s) = res[w]

SamplersInit == Called("Reservoir", ReservoirCalls) \/ Called("Sampling", SamplingCalls) \/ Called("Sample", SampleCalls)
SamplersNext == CallReservoir \/ CallSampling \/ CallSample

(***************************************************************************)
(* Suffix sorting on all texts of two characters up to length MaxText and  *)
(* on longer repetitive ones, for which a sorter needs several rounds.     *)
(***************************************************************************)
X == INSTANCE SuffixSorting

MaxText == 6
Repeated(x, k) == [i \in 1..k |-> x]
LongTexts ==
    UNION {{Repeated(1, k), Repeated(1, k - 1) \o <<2>>, Repeated(2, k - 1) \o <<1>>,
            [i \in 1..k |-> 1 + (i % 2)], [i \in 1..k |-> IF i % 3 = 0 THEN 2 ELSE 1]} : k \in {8, 13, 14, 18}}
Texts == UNION {[1..n -> {1, 2}] : n \in 1..MaxText} \cup LongTexts

Suffix0(t, i) == SubSeq(t, i + 1, Len(t))
LessText(a, b) ==
    LET k == X!Min({j \in 1..(Len(a) + 1) : j > Len(a) \/ j > Len(b) \/ a[j] # b[j]})
    IN k <= Len(b) /\ (k > Len(a) \/ a[k] < b[k])
IsSuffixArray(t, sa) ==
    /\ Len(sa) = Len(t) /\ {sa[i] : i \in DOMAIN sa} = 0..(Len(t) - 1)
    /\ \A i \in 1..(Len(sa) - 1) : LessText(Suffix0(t, sa[i]), Suffix0(t, sa[i + 1]))
SuffixArray(t) == X!SortSeq([i \in 1..Len(t) |-> i - 1], LAMBDA a, b : LessText(Suffix0(t, a), Suffix0(t, b)))

\* ---- difference covers
CoverInit == Called("dc3", [t : Texts, packed : {FALSE}]) \/ Called("dc7", [t : Texts, packed : {FALSE}])
SorterNames == {"dc3", "dc7", "pdw", "pds", "dis", "q", "qd"}
CallSorter == \E alg \in SorterNames : Return(alg) /\ out' = <<X!StartInput(alg, arg.t, arg.packed)>>
\* a subproblem with one block, of which the windows of two give nothing
RECURSIVE OneBlock(_, _)
OneBlock(c, t) ==
    LET sorted == X!TuplesSorted(c, t)
        names == X!Lexnames(c, t, sorted)
        recurse == X!Max(X!ToSet(names) \cup {0}) + 1 # Len(sorted)
    IN X!Sizes(c, Len(t))[1] < 2 \/ (recurse /\ OneBlock(c, X!Subproblem(c, sorted, names)))

SortedBy(alg) == IsSuffixArray(arg.t, IF alg \in {"dis", "qd"} THEN res.sa ELSE res)
\* suffix_sorting.cpp, "die_unless(CheckSA(input_dia.Keep(), suffix_array.Keep()))":
\* every sorter returns the suffix array of the text.
SortsAllSuffixes == \A alg \in SorterNames : Returned(alg) => SortedBy(alg)

\* DC3 and DC7: so it is, through all levels of the recursion and whatever the
\* length modulo the cover, if no level has one block only, of which
\* zip_triple_pairs emits nothing.
CoversSortSuffixes ==
    /\ Returned("dc3") /\ ~OneBlock(X!DC3Cover, arg.t) => SortsAllSuffixes
    /\ Returned("dc7") /\ ~OneBlock(X!DC7Cover, arg.t) => SortsAllSuffixes

\* ---- prefix doubling and quadrupling, unpacked and packed
PrefixCalls == [t : Texts, packed : BOOLEAN]
PrefixNames == {"pds", "pdw", "dis", "q", "qd"}
PrefixInit == \E alg \in PrefixNames : Called(alg, PrefixCalls)
InWord(few, many) == IF arg.packed THEN many ELSE few
Alike(t, k) == \E i, j \in 0..(Len(t) - 1) : i < j /\ X!Chars(t, i, k) = X!Chars(t, j, k)

\* Prefix doubling by sorting and by windows: so it is for texts that have at
\* least as many characters as a first name; prefix quadrupling, if moreover the
\* first round in its loop tells all suffixes apart, as the names of a later
\* round are all 1.
PrefixesSortSuffixes ==
    /\ (Returned("pds") \/ Returned("pdw")) /\ Len(arg.t) >= InWord(2, 3) => SortsAllSuffixes
    /\ Returned("q") /\ Len(arg.t) >= InWord(3, 5) /\ ~Alike(arg.t, 16) => SortsAllSuffixes

\* Discarding unique names never loses a suffix and never drops a rank that
\* another suffix needs, for such texts; in prefix doubling, if in no round the
\* last two items are of different residue classes, whose rank is taken
\* nevertheless.
DiscardingSortsSuffixes ==
    /\ Returned("dis") /\ Len(arg.t) >= 3 /\ ~res.misranked => SortsAllSuffixes
    /\ Returned("qd") /\ Len(arg.t) >= InWord(3, 5) => SortsAllSuffixes

\* ---- CheckSA on all sequences of indices, right or wrong
CheckCalls == UNION {[t : [1..n -> {1, 2}], sa : UNION {[1..m -> 0..(n - 1)] : m \in n..n}] : n \in 2..4} \cup [t : [1..2 -> {1, 2}], sa : {<<>>, <<0>>}]
CheckInit == Called("CheckSA", CheckCalls)
CallCheckSA == Return("CheckSA") /\ out' = <<X!CheckSA(arg.t, arg.sa)>>

\* CheckSA accepts exactly the suffix array; for one of another length Zip
\* ends the program.
ChecksSuffixArray ==
    Returned("CheckSA") => res = IF Len(arg.sa) = Len(arg.t) THEN <<IsSuffixArray(arg.t, arg.sa)>> ELSE <<X!ZipDies>>

\* ---- what is built on the suffix array
IndexTexts == UNION {[1..n -> 2..3] : n \in 1..MaxText}
BuildInit == Called("LCP", IndexTexts) \/ Called("RLBWT", [t : IndexTexts, w : {2, 4}]) \/ Called("Wavelet", UNION {[1..n -> 0..5] : n \in 1..4})
Ended(t) == Append(t, 1)
CallBuild ==
    \/ Return("LCP") /\ out' = <<X!ConstructLCP(X!ConstructBWT(Ended(arg), SuffixArray(Ended(arg))))>>
    \/ Return("RLBWT") /\ out' = <<X!ConstructRLBWT(arg.t, arg.w)>>
    \/ Return("Wavelet") /\ out' = <<X!ConstructWaveletTree(arg)>>
CommonPrefix(a, b) == X!Max({0} \cup {k \in 1..Len(a) : k <= Len(b) /\ SubSeq(a, 1, k) = SubSeq(b, 1, k)})

\* suffix_sorting.cpp, "Compute the LCP array in addition to the SA": it returns,
\* for a text that ends with a character smaller than all others, the lengths
\* of the common prefixes.
LCPReturned ==
    Returned("LCP") =>
        LET t == Ended(arg)
            sa == SuffixArray(t)
        IN res = [i \in 1..Len(t) |-> IF i = 1 THEN 0 ELSE CommonPrefix(Suffix0(t, sa[i - 1]), Suffix0(t, sa[i]))]
\* ConstructLCP: what it returns is right when it returns (partial correctness:
\* intervals that differ in the first character only are joined again, for some
\* texts forever); and it returns for every text that repeats no character.
LCPsAreRight ==
    Returned("LCP") => (res # X!Endless \/ X!IsInjective(arg) => LCPReturned)

\* The runs, also those cut at the end of a window, are the transform.
RunsDecode ==
    Returned("RLBWT") => X!FlattenSeq([i \in DOMAIN res |-> Repeated(res[i][2], res[i][1] + 1)]) = arg.t

\* the text that a wavelet tree of these levels stands for
RECURSIVE ReadWavelet(_, _)
ReadWavelet(levels, seq) ==
    IF levels = <<>> THEN [i \in DOMAIN seq |-> seq[i]]
    ELSE LET b == levels[1]
             order == X!SortSeq([i \in DOMAIN b |-> <<seq[i], b[i], i>>], LAMBDA x, y : x[1] * 2 + x[2] < y[1] * 2 + y[2])
             rest == ReadWavelet(Tail(levels), [k \in DOMAIN order |-> order[k][1] * 2 + order[k][2]])
         IN [i \in DOMAIN seq |-> rest[CHOOSE k \in DOMAIN order : order[k][3] = i]]
\* suffix_sorting.cpp, "Compute the Wavelet Tree": its levels determine the text.
WaveletHoldsText == Returned("Wavelet") => ReadWavelet(res, [i \in DOMAIN arg |-> 0]) = arg
\* ConstructWaveletTree: so it is, if the largest value is no power of two, for
\* which integer_log2_ceil gives one level too few.
WaveletDecodes == Returned("Wavelet") /\ X!Max(X!ToSet(arg)) \notin {1, 2, 4} => WaveletHoldsText

SuffixInit == CoverInit \/ PrefixInit \/ CheckInit \/ BuildInit
SuffixNext == CallSorter \/ CallCheckSA \/ CallBuild
=============================================================================
