----------------------------- MODULE Algorithms -----------------------------
(***************************************************************************)
(* Sequential algorithms of thrill/common: the quicksorts with two and     *)
(* three pivots (qsort.hpp), radix sort (radix_sort.hpp), the heap of the  *)
(* profiling timers (binary_heap.hpp) and integers of 40 and 48 bits       *)
(* (uint_types.hpp).  An array is a sequence and is indexed from 1.        *)
(***************************************************************************)
EXTENDS Workers

Swap(a, i, j) == [a EXCEPT ![i] = a[j], ![j] = a[i]]
rotate3(a, i, j, k) == [a EXCEPT ![i] = a[j], ![j] = a[k], ![k] = a[i]]
rotate4(a, i, j, k, l) == [a EXCEPT ![i] = a[j], ![j] = a[k], ![k] = a[l], ![l] = a[i]]

(***************************************************************************)
(* sort3, sort4, sort5 compare and swap neighbours; InsertionSort uses     *)
(* them for short arrays.                                                  *)
(***************************************************************************)
sort3(a, x, y, z) ==
    IF ~(a[y] < a[x])
    THEN IF ~(a[z] < a[y]) THEN a
         ELSE LET b == Swap(a, y, z) IN IF b[y] < b[x] THEN Swap(b, x, y) ELSE b
    ELSE IF a[z] < a[y] THEN Swap(a, x, z)
    ELSE LET b == Swap(a, x, y) IN IF b[z] < b[y] THEN Swap(b, y, z) ELSE b
RECURSIVE SinkDown(_, _, _)
SinkDown(a, lo, k) == IF k > lo /\ a[k] < a[k - 1] THEN SinkDown(Swap(a, k - 1, k), lo, k - 1) ELSE a
InsertionSort(a, lo, hi) ==
    LET n == hi - lo
    IN IF n < 2 THEN a
       ELSE IF n = 2 THEN IF a[lo + 1] < a[lo] THEN Swap(a, lo, lo + 1) ELSE a
       ELSE IF n \in 3..5 THEN FoldLeft(LAMBDA b, k : SinkDown(b, lo, lo + k), sort3(a, lo, lo + 1, lo + 2), SubSeq(<<3, 4>>, 1, n - 3))
       ELSE FoldLeft(LAMBDA b, k : SinkDown(b, lo, lo + k), a, Upto(n - 1))

\* sort_samples: the seven sample positions in the order of their values
sort_samples(a, lo, n) ==
    FoldLeft(LAMBDA s, i : LET pos == lo + ((n * i) \div 8)
                               j == Max({0} \cup {k \in DOMAIN s : ~(a[pos] < a[s[k]])})
                           IN SubSeq(s, 1, j) \o <<pos>> \o SubSeq(s, j + 1, Len(s)), <<>>, Upto(7))

(***************************************************************************)
(* qsort_two_pivots_yaroslavskiy on a[lo..hi-1]; the state of the loop is  *)
(* [a, l, k, g].  small is 32 in the code.                                 *)
(***************************************************************************)
RECURSIVE LowerG(_, _, _)
LowerG(a, g, q) == IF q < a[g] THEN LowerG(a, g - 1, q) ELSE g
RECURSIVE TwoPivotLoop(_, _, _)
TwoPivotStep_NoRotate(s, p, q) ==
    LET g == LowerG(s.a, s.g, q)
    IN IF s.a[s.k] < p THEN [s EXCEPT !.a = Swap(s.a, s.k, s.l), !.l = @ + 1, !.k = @ + 1]
       ELSE IF s.a[s.k] < q THEN [s EXCEPT !.k = @ + 1]
       ELSE IF ~(s.k < g) THEN [s EXCEPT !.g = g, !.k = @ + 1]
       ELSE [s EXCEPT !.a = Swap(s.a, s.k, g), !.g = g - 1, !.k = @ + 1]
TwoPivotStep(s, p, q) ==
    LET g == LowerG(s.a, s.g, q)
    IN IF s.a[s.k] < p THEN [s EXCEPT !.a = Swap(s.a, s.k, s.l), !.l = @ + 1, !.k = @ + 1]
       ELSE IF s.a[s.k] < q THEN [s EXCEPT !.k = @ + 1]
       ELSE IF ~(s.k < g) THEN [s EXCEPT !.g = g, !.k = @ + 1]
       ELSE IF s.a[g] < p
       THEN [s EXCEPT !.a = rotate3(s.a, g, s.k, s.l), !.l = @ + 1, !.g = g - 1, !.k = @ + 1]
       ELSE [s EXCEPT !.a = Swap(s.a, s.k, g), !.g = g - 1, !.k = @ + 1]
TwoPivotLoop(s, p, q) == IF s.k <= s.g THEN TwoPivotLoop(TwoPivotStep(s, p, q), p, q) ELSE s
\* the partition by the pivots at both ends, and the sorting of its three parts
TwoPivots(a, lo, hi) == TwoPivotLoop([a |-> a, l |-> lo + 1, k |-> lo + 1, g |-> hi - 2], a[lo], a[hi - 1])
RECURSIVE qsort_two_pivots(_, _, _, _)
SortThreeParts(s, lo, hi, small) ==
    LET l == s.l - 1
        g == s.g + 1
        c == Swap(Swap(s.a, lo, l), hi - 1, g)
    IN qsort_two_pivots(qsort_two_pivots(qsort_two_pivots(c, lo, l, small), l + 1, g, small), g + 1, hi, small)
qsort_two_pivots(a, lo, hi, small) ==
    IF hi - lo < small THEN InsertionSort(a, lo, hi)
    ELSE LET m == sort_samples(a, lo, hi - lo)
         IN SortThreeParts(TwoPivots(Swap(Swap(a, lo, m[3]), hi - 1, m[5]), lo, hi), lo, hi, small)

(***************************************************************************)
(* qsort_three_pivots; the state of the loop is [a, i, j, k, l].           *)
(***************************************************************************)
RECURSIVE RaiseJ(_, _, _)
RaiseJ(s, p, q) ==
    IF ~(s.a[s.j] < q) THEN s
    ELSE IF s.a[s.j] < p THEN RaiseJ([s EXCEPT !.a = Swap(s.a, s.i, s.j), !.i = @ + 1, !.j = @ + 1], p, q)
    ELSE RaiseJ([s EXCEPT !.j = @ + 1], p, q)
RECURSIVE LowerK(_, _, _)
LowerK(s, q, r) ==
    IF ~(q < s.a[s.k]) THEN s
    ELSE IF r < s.a[s.k] THEN LowerK([s EXCEPT !.a = Swap(s.a, s.k, s.l), !.l = @ - 1, !.k = @ - 1], q, r)
    ELSE LowerK([s EXCEPT !.k = @ - 1], q, r)
Exchange(s, p, r) ==
    LET small == s.a[s.k] < p
        large == r < s.a[s.j]
        t == IF small THEN [s EXCEPT !.i = @ + 1] ELSE s
        u == IF large THEN [t EXCEPT !.l = @ - 1] ELSE t
        b == IF large /\ small THEN rotate4(s.a, s.j, s.i, s.k, s.l) ELSE IF large THEN rotate3(s.a, s.j, s.k, s.l)
             ELSE IF small THEN rotate3(s.a, s.j, s.i, s.k) ELSE Swap(s.a, s.j, s.k)
    IN [u EXCEPT !.a = b, !.j = @ + 1, !.k = @ - 1]
RECURSIVE ThreePivotLoop(_, _, _, _)
ExchangeUnlessMet(s, p, r) == IF s.j <= s.k THEN Exchange(s, p, r) ELSE s
ThreePivotLoop(s, p, q, r) ==
    IF s.j > s.k THEN s
    ELSE ThreePivotLoop(ExchangeUnlessMet(LowerK(RaiseJ(s, p, q), q, r), p, r), p, q, r)
ThreePivots(a, lo, hi) ==
    ThreePivotLoop([a |-> a, i |-> lo + 2, j |-> lo + 2, k |-> hi - 2, l |-> hi - 2], a[lo], a[lo + 1], a[hi - 1])
RECURSIVE qsort_three_pivots(_, _, _, _)
SortFourParts(s, lo, hi, small) ==
    LET c == Swap(Swap(rotate3(s.a, lo + 1, s.i - 1, s.j - 1), lo, s.i - 2), hi - 1, s.l + 1)
        d == qsort_three_pivots(qsort_three_pivots(c, lo, s.i - 2, small), s.i - 1, s.j - 1, small)
    IN qsort_three_pivots(qsort_three_pivots(d, s.j, s.l + 1, small), s.l + 2, hi, small)
qsort_three_pivots(a, lo, hi, small) ==
    IF hi - lo <= small THEN InsertionSort(a, lo, hi)
    ELSE LET m == sort_samples(a, lo, hi - lo)
         IN SortFourParts(ThreePivots(Swap(Swap(Swap(a, lo, m[2]), lo + 1, m[4]), hi - 1, m[6]), lo, hi), lo, hi, small)

(***************************************************************************)
(* radix_sort_CI of words a[i] = <<digit, digit>> with digits below K:     *)
(* items move along the cycles of the permutation, within bucket borders.  *)
(***************************************************************************)
BucketSizes(a, lo, hi, d, K) == [c \in 0..(K - 1) |-> Cardinality({i \in lo..(hi - 1) : a[i][d] = c})]
BucketEnds(bkt_size, K) == [c \in 0..(K - 1) |-> FoldLeft(LAMBDA n, b : n + bkt_size[b - 1], 0, Upto(c + 1))]
RECURSIVE Cycle(_, _, _, _, _)
\* v is in the hand, its place is taken from the end of its bucket
Cycle(a, index, i, v, lo) ==
    LET c == v.c
        j == index[c] - 1
        x == [index EXCEPT ![c] = j]
    IN IF j > i THEN Cycle([a EXCEPT ![lo + j] = v.item], x, i, [item |-> a[lo + j], c |-> a[lo + j][v.d], d |-> v.d], lo)
       ELSE [a |-> [a EXCEPT ![lo + i] = v.item], index |-> x, c |-> c]
RECURSIVE Permute(_, _, _, _, _, _, _)
Permute_First(a, index, i, stop, bkt_size, lo, d) ==
    IF i >= stop THEN a
    ELSE LET y == Cycle(a, index, i, [item |-> a[lo + i], c |-> a[lo + i][d], d |-> d], lo)
         IN Permute(y.a, y.index, i + bkt_size[a[lo + i][d]], stop, bkt_size, lo, d)
Permute(a, index, i, stop, bkt_size, lo, d) ==
    IF i >= stop THEN a
    ELSE LET y == Cycle(a, index, i, [item |-> a[lo + i], c |-> a[lo + i][d], d |-> d], lo)
         IN Permute(y.a, y.index, i + bkt_size[y.c], stop, bkt_size, lo, d)
RECURSIVE radix_sort_CI(_, _, _, _, _, _)
radix_sort_CI(a, lo, hi, d, K, small) ==
    LET bkt_size == BucketSizes(a, lo, hi, d, K)
        ends == BucketEnds(bkt_size, K)
        last == bkt_size[Max({c \in 0..(K - 1) : bkt_size[c] > 0})]
        b == Permute(a, ends, 0, hi - lo - last, bkt_size, lo, d)
    IN IF hi - lo < small THEN SubSeq(a, 1, lo - 1) \o SortSeq(SubSeq(a, lo, hi - 1), LAMBDA x, y : x[1] < y[1] \/ (x[1] = y[1] /\ x[2] < y[2])) \o SubSeq(a, hi, Len(a))
       ELSE IF d = 2 THEN b
       ELSE FoldLeft(LAMBDA s, c : IF bkt_size[c - 1] <= 1 THEN s
                                   ELSE radix_sort_CI(s, lo + ends[c - 1] - bkt_size[c - 1], lo + ends[c - 1], d + 1, K, small),
                     b, Upto(K))

(***************************************************************************)
(* BinaryHeap with std::less: the largest item is on top.                  *)
(***************************************************************************)
RECURSIVE sift_up(_, _)
sift_up(c, i) == IF i > 1 /\ c[i \div 2] < c[i] THEN sift_up(Swap(c, i \div 2, i), i \div 2) ELSE c
RECURSIVE sift_down(_, _, _)
sift_down_LeftChild(c, len, i) ==
    IF 2 * i > len \/ c[2 * i] < c[i] THEN c ELSE sift_down(Swap(c, i, 2 * i), len, 2 * i)
sift_down(c, len, i) ==
    LET child == IF 2 * i + 1 <= len /\ c[2 * i] < c[2 * i + 1] THEN 2 * i + 1 ELSE 2 * i
    IN IF 2 * i > len \/ c[child] < c[i] THEN c ELSE sift_down(Swap(c, i, child), len, child)
emplace(c, x) == sift_up(Append(c, x), Len(c) + 1)
pop(c) == IF Len(c) = 1 THEN <<>> ELSE Front(sift_down(Swap(c, 1, Len(c)), Len(c) - 1, 1))
\* erase: the last item takes the place of one that is erased, and sinks
RECURSIVE EraseFrom(_, _, _)
EraseFrom(c, i, x) ==
    IF i > Len(c) THEN c
    ELSE IF c[i] # x THEN EraseFrom(c, i + 1, x)
    ELSE EraseFrom(Front(sift_down(Swap(c, i, Len(c)), Len(c) - 1, i)), i, x)
erase(c, x) == EraseFrom(c, 1, x)

(***************************************************************************)
(* UIntPair [low, high] with L values of low_ and H of high_.              *)
(***************************************************************************)
UIntPair(x, L, H) == [low |-> x % L, high |-> (x \div L) % H]
ull(u, L) == u.high * L + u.low
increment(u, L, H) == IF u.low = L - 1 THEN [low |-> 0, high |-> (u.high + 1) % H] ELSE [u EXCEPT !.low = @ + 1]
decrement(u, L, H) == IF u.low = 0 THEN [low |-> L - 1, high |-> (u.high + H - 1) % H] ELSE [u EXCEPT !.low = @ - 1]
Plus(u, v, L, H) ==
    LET add == u.low + v.low IN [low |-> add % L, high |-> (u.high + v.high + ((add \div L) % H)) % H]
\* the difference of the low parts is taken with 64 bits: all ones when negative
Minus(u, v, L, H) ==
    LET sub == (u.low - v.low + L * H) % (L * H)
    IN [low |-> sub % L, high |-> (u.high - v.high + ((sub \div L) % H) + H) % H]
Less(u, v) == u.high < v.high \/ (u.high = v.high /\ u.low < v.low)

(***************************************************************************)
(* Random samples: the reservoirs (common/reservoir_sampling.hpp), a       *)
(* sample of a vector (common/sampling.hpp) and Sample of a DIA            *)
(* (api/sample.hpp).  A random number is any number it can be, so that the *)
(* operators give the set of all outcomes.                                 *)
(***************************************************************************)

\* one step of a sampler for each item, from any of its states
AfterAll(start, items, Step(_, _)) == FoldLeft(LAMBDA S, x : UNION {Step(s, x) : s \in S}, {start}, items)

(***************************************************************************)
(* Reservoirs [samples, count, size, gap, steps].                          *)
(***************************************************************************)
NewReservoir(size) == [samples |-> <<>>, count |-> 0, size |-> size, gap |-> 0, steps |-> 0]
Replaced(s, x, item) == IF x < s.size THEN [s EXCEPT !.samples[x + 1] = item] ELSE s
\* count_ <= 4 * size_, but more than size_
Drawn_Always(s, item) == {Replaced(s, x, item) : x \in 0..(s.size - 1)}
Drawn(s, item) == {Replaced(s, x, item) : x \in 0..(s.count - 1)}
calc_next_gap(s, gaps) == {[s EXCEPT !.gap = g] : g \in gaps}

Reservoir(s0, item) ==
    LET s == [s0 EXCEPT !.count = @ + 1]
    IN IF s.count <= s.size THEN {[s EXCEPT !.samples = Append(@, item)]} ELSE Drawn(s, item)

\* behind 4 * size_ items, gap_ items are skipped between two samples
Skipping(s, item, gaps) ==
    IF s.gap # 0 THEN {[s EXCEPT !.gap = @ - 1]}
    ELSE UNION {calc_next_gap(Replaced(s, x, item), gaps) : x \in 0..(s.size - 1)}
DrawnOrSkipped(s, item, gaps) ==
    IF s.count > 4 * s.size THEN Skipping(s, item, gaps)
    ELSE IF s.count = 4 * s.size THEN UNION {calc_next_gap(t, gaps) : t \in Drawn(s, item)}
    ELSE Drawn(s, item)
ReservoirFast(s0, item, gaps) ==
    LET s == [s0 EXCEPT !.count = @ + 1]
    IN IF s.count <= s.size THEN {[s EXCEPT !.samples = Append(@, item)]} ELSE DrawnOrSkipped(s, item, gaps)

\* The growing reservoir of Sort.  Here calc_sample_size is 2 log2(count), as
\* with a desired imbalance of 0.71; growing repeats samples.
calc_sample_size(count) == LargerOf(1, <<0, 2, 3, 4, 4, 5, 5, 6, 6>>[count])
calc_steps_to_next_resize(count) == (41 * count) \div 100
RECURSIVE GrowTo(_, _, _)
GrowTo_Short(s, target, item) ==
    IF s.size >= target - 1 THEN {s}
    ELSE UNION {GrowTo([s EXCEPT !.samples = Append(@, IF x # s.size THEN s.samples[x + 1] ELSE item), !.size = @ + 1],
                       target - 1, item) : x \in 0..s.size}
GrowTo(s, target, item) ==
    IF s.size >= target THEN {s}
    ELSE UNION {GrowTo([s EXCEPT !.samples = Append(@, IF x # s.size THEN s.samples[x + 1] ELSE item), !.size = @ + 1],
                       target, item) : x \in 0..s.size}
Grown(s, item) ==
    IF s.steps # 0 THEN {[s EXCEPT !.steps = @ - 1]}
    ELSE GrowTo([s EXCEPT !.steps = calc_steps_to_next_resize(s.count)], calc_sample_size(s.count), item)
ReservoirGrow(s0, item, gaps) ==
    UNION {IF s.count <= s.size THEN {[s EXCEPT !.samples[s.count] = item]} ELSE DrawnOrSkipped(s, item, gaps) :
               s \in Grown([s0 EXCEPT !.count = @ + 1], item)}

(***************************************************************************)
(* hypergeometric_distribution: how many of sample things drawn from good  *)
(* and bad ones are good; any number that is possible.                     *)
(***************************************************************************)
Hypergeometric(good, bad, sample) == LargerOf(0, sample - bad)..SmallerOf(good, sample)

(***************************************************************************)
(* Sampling: size positions of the n positions from lo on.                 *)
(***************************************************************************)
CeilLog2(n) == Min({k \in 0..n : 2 ^ k >= n})
\* hash_sample: open addressing; the table has 2^spare slots per sample
\* (spare is 3 in the code), the probe finds variate or a free slot
RECURSIVE ProbeFrom(_, _, _)
ProbeFrom_Once(table, index, variate) == index
ProbeFrom(table, index, variate) ==
    IF table[index] \in {-1, variate} THEN index ELSE ProbeFrom(table, (index + 1) % Cardinality(DOMAIN table), variate)
HashDraws(t, n, mask) ==
    {LET index == ProbeFrom(t.table, variate \div 2 ^ mask, variate)
     IN IF t.table[index] = variate THEN t
        ELSE [table |-> [t.table EXCEPT ![index] = variate], drawn |-> Append(t.drawn, variate)] : variate \in 0..(n - 1)} \ {t}
hash_sample(lo, n, size, spare) ==
    LET table_lg == spare + CeilLog2(size)
        mask == LargerOf(0, CeilLog2(n) - table_lg)
        start == [table |-> [i \in 0..(2 ^ table_lg - 1) |-> -1], drawn |-> <<>>]
    IN IF n <= size THEN {[i \in 1..n |-> lo + i - 1]}
       ELSE {[i \in DOMAIN t.drawn |-> lo + t.drawn[i]] :
                t \in FoldLeft(LAMBDA S, k : UNION {HashDraws(t, n, mask) : t \in S}, {start}, Upto(size))}
\* mini base case: draw again whatever was drawn before
MiniSample(lo, n, size) == {[i \in 1..size |-> lo + d[i] - 1] : d \in {f \in [1..size -> 1..n] : IsInjective(f)}}
\* big, medium and few are 1024, 32 and 8 in the code
RECURSIVE do_sample(_, _, _, _, _, _)
do_sample(lo, n, size, big, medium, few) ==
    LET left_size == n \div 2
    IN IF size = 0 THEN {<<>>}
       ELSE IF size = n THEN {[i \in 1..n |-> lo + i - 1]}
       ELSE IF n > big
       THEN UNION {{a \o b : a \in do_sample(lo, left_size, left, big, medium, few),
                             b \in do_sample(lo + left_size, n - left_size, size - left, big, medium, few)} :
                       left \in Hypergeometric(left_size, n - left_size, size)}
       ELSE IF n > medium /\ size > few THEN hash_sample(lo, n, size, 0)
       ELSE MiniSample(lo, n, size)

(***************************************************************************)
(* SampleNode.  The workers agree on the seed, so hyp says for every range *)
(* which of the possible numbers of samples its left half gets.            *)
(***************************************************************************)
PickOf(S, k) == Min(S) + (k % Cardinality(S))
RECURSIVE calc_local_samples(_, _, _, _, _, _)
calc_local_samples_Own(my_begin, my_end, begin, end, k, hyp) == ((my_end - my_begin) * k + end - begin - 1) \div (end - begin)
calc_local_samples(my_begin, my_end, begin, end, k, hyp) ==
    LET left_size == (end - begin) \div 2
        left == PickOf(Hypergeometric(left_size, end - begin - left_size, k), hyp[<<begin, end>>])
    IN IF begin >= end \/ my_begin >= my_end \/ k = 0 THEN 0
       ELSE IF my_begin <= begin /\ end <= my_end THEN k
       ELSE IF (begin <= my_begin /\ my_begin < end) \/ (begin < my_end /\ my_end <= end)
       THEN calc_local_samples(my_begin, my_end, begin, begin + left_size, left, hyp)
            + calc_local_samples(my_begin, my_end, begin + left_size, end, k - left, hyp)
       ELSE 0
\* Execute: how many of its samples each worker keeps
SampleNode(sizes, sample_size, hyp) ==
    LET before(w) == FoldLeft(+, 0, SubSeq(sizes, 1, w - 1))
        total == before(Len(sizes) + 1)
    IN IF Len(sizes) = 1 THEN <<SmallerOf(sample_size, sizes[1])>>
       ELSE IF total <= sample_size THEN sizes
       ELSE [w \in DOMAIN sizes |-> calc_local_samples(before(w), before(w) + sizes[w], 0, total, sample_size, hyp)]
\* PushData: the local samples out of the reservoir's
SamplePush(samples, k) ==
    IF k < Len(samples) THEN {[i \in DOMAIN s |-> samples[s[i] + 1]] : s \in do_sample(0, Len(samples), k, 4, 2, 1)}
    ELSE {samples}
=============================================================================
