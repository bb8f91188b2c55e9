--------------------------- MODULE SuffixSorting ---------------------------
(***************************************************************************)
(* The difference cover sorters DC3 and DC7 of examples/suffix_sorting, as *)
(* functions from a text to the suffix array they return.  A DIA is its    *)
(* content here: DIAOps and SortMerge show that the operations distribute  *)
(* it without changing it.  Indices count from 0 as in the code, 0 is the   *)
(* lowest character and the characters of a text are larger.               *)
(***************************************************************************)
EXTENDS Integers, Sequences, FiniteSets, SequencesExt, FiniteSetsExt

\* the prefix order of two sequences of one length
LessTuple(a, b) == \E k \in DOMAIN a : a[k] < b[k] /\ \A j \in 1..(k - 1) : a[j] = b[j]
\* PrefixSum with operator op
RunningSum(s) == [i \in DOMAIN s |-> FoldLeft(LAMBDA a, b : a + b, 0, SubSeq(s, 1, i))]
RunningMax(s) == [i \in DOMAIN s |-> FoldLeft(LAMBDA a, b : Max({a, b}), 0, SubSeq(s, 1, i))]
CharAt(t, i) == IF i < Len(t) THEN t[i + 1] ELSE 0
Chars(t, i, k) == <<>> \o [j \in 1..k |-> CharAt(t, i + j - 1)]

----------------------------------------------------------------------------
\* ---- difference covers
\* fragment_comparator_params: how many characters decide, then which ranks
DC3Params ==
    <<<<<<1, 0, 0>>, <<1, 0, 1>>, <<2, 1, 1>>>>,
      <<<<1, 1, 0>>, <<0, 0, 0>>, <<0, 0, 0>>>>,
      <<<<2, 1, 1>>, <<0, 0, 0>>, <<0, 0, 0>>>>>>
DC7Params ==
    <<<<<<0, 0, 0>>, <<0, 0, 0>>, <<1, 1, 0>>, <<0, 0, 0>>, <<3, 2, 0>>, <<3, 2, 1>>, <<1, 1, 0>>>>,
      <<<<0, 0, 0>>, <<0, 0, 0>>, <<6, 2, 2>>, <<0, 0, 0>>, <<6, 2, 2>>, <<2, 1, 0>>, <<2, 1, 1>>>>,
      <<<<1, 0, 1>>, <<6, 2, 2>>, <<1, 0, 0>>, <<5, 1, 2>>, <<6, 2, 2>>, <<5, 1, 2>>, <<1, 0, 0>>>>,
      <<<<0, 0, 0>>, <<0, 0, 0>>, <<5, 2, 1>>, <<0, 0, 0>>, <<4, 1, 1>>, <<5, 2, 2>>, <<4, 1, 2>>>>,
      <<<<3, 0, 2>>, <<6, 2, 2>>, <<6, 2, 2>>, <<4, 1, 1>>, <<3, 0, 0>>, <<3, 0, 1>>, <<4, 1, 2>>>>,
      <<<<3, 1, 2>>, <<2, 0, 1>>, <<5, 2, 1>>, <<5, 2, 2>>, <<3, 1, 0>>, <<2, 0, 0>>, <<2, 0, 1>>>>,
      <<<<1, 0, 1>>, <<2, 1, 1>>, <<1, 0, 0>>, <<4, 2, 1>>, <<4, 2, 1>>, <<2, 1, 0>>, <<1, 0, 0>>>>>>
\* StringFragmentMod0..: for each residue the offsets of the ranks and the
\* number of characters that a fragment carries
DC3Fragment == <<<<<<1, 2>>, 2>>, <<<<0, 1>>, 1>>, <<<<0, 2>>, 2>>>>
DC7Fragment ==
    <<<<<<0, 1, 3>>, 3>>, <<<<0, 2, 6>>, 6>>, <<<<1, 5, 6>>, 6>>, <<<<0, 4, 5>>, 5>>,
      <<<<3, 4, 6>>, 6>>, <<<<2, 3, 5>>, 5>>, <<<<1, 2, 4>>, 4>>>>

\* v characters to a block, the cover, the sizes modulo v that need a further
\* lowest tuple behind the text, and the two tables
DC3Cover == [v |-> 3, cover |-> <<1, 2>>, extra |-> {1}, params |-> DC3Params, fragment |-> DC3Fragment]
DC7Cover == [v |-> 7, cover |-> <<0, 1, 3>>, extra |-> {0, 1}, params |-> DC7Params, fragment |-> DC7Fragment]

InCover(c, i) == i % c.v \in ToSet(c.cover)
\* the indices of the tuples in text order, with the one behind the text
TupleIndices_NoExtra(c, n) == SelectSeq([i \in 1..n |-> i - 1], LAMBDA i : InCover(c, i))
TupleIndices(c, n) ==
    SelectSeq([i \in 1..n |-> i - 1], LAMBDA i : InCover(c, i)) \o (IF n > 0 /\ n % c.v \in c.extra THEN <<n>> ELSE <<>>)
\* size_mod1, size_mod2 or size_mod0, size_mod1, size_mod3: tuples per residue
Sizes3(n) == <<n \div 3 + (IF n % 3 # 0 THEN 1 ELSE 0), n \div 3>>
Sizes7(n) == <<n \div 7 + 1, n \div 7 + (IF n % 7 >= 1 THEN 1 ELSE 0), n \div 7 + (IF n % 7 >= 4 THEN 1 ELSE 0)>>
Sizes(c, n) == IF c.v = 3 THEN Sizes3(n) ELSE Sizes7(n)
Offset(sizes, k) == FoldLeft(LAMBDA a, b : a + b, 0, SubSeq(sizes, 1, k - 1))

TuplesSorted(c, t) ==
    SortSeq(TupleIndices(c, Len(t)), LAMBDA i, j : LessTuple(Chars(t, i, c.v), Chars(t, j, c.v)))
\* the lexicographic names of the sorted tuples; a single tuple gets none
Lexnames(c, t, sorted) ==
    IF Len(sorted) < 2 THEN <<>>
    ELSE RunningSum([i \in DOMAIN sorted |->
            IF i = 1 \/ Chars(t, sorted[i - 1], c.v) = Chars(t, sorted[i], c.v) THEN 0 ELSE 1])
\* the tuples' names ordered by residue, then index: the subproblem
Subproblem(c, sorted, names) ==
    LET order == SortSeq([k \in DOMAIN sorted |-> k],
                         LAMBDA a, b : LessTuple(<<sorted[a] % c.v, sorted[a]>>, <<sorted[b] % c.v, sorted[b]>>))
    IN [k \in DOMAIN order |-> names[order[k]]]
\* the subproblem's index of a suffix as <<block, index>>
BlockOfRec(sizes, i) ==
    LET k == Max({j \in DOMAIN sizes : Offset(sizes, j) <= i})
    IN <<i - Offset(sizes, k), i>>
RanksBy(sa, key) == SortSeq([k \in DOMAIN sa |-> <<key[sa[k]], k>>], LAMBDA a, b : LessTuple(a[1], b[1]))

\* the fragment of the suffix at index v * block + r: its characters, and the
\* ranks of the cover's suffixes at the offsets, from this block and the next
Fragment(c, t, ranks, block, r) ==
    LET d == Len(c.cover)
        spec == c.fragment[r + 1]
        rankAt(p) == LET k == CHOOSE j \in 1..d : c.cover[j] = p % c.v
                         at == d * (block + p \div c.v) + k
                     IN IF at <= Len(ranks) THEN ranks[at] ELSE 0
    IN [index |-> c.v * block + r, text |-> Chars(t, c.v * block + r, spec[2]),
        ranks |-> <<>> \o [k \in 1..d |-> rankAt(r + spec[1][k])]]
FragmentLess(c, a, b) ==
    LET p == c.params[(a.index % c.v) + 1][(b.index % c.v) + 1]
        d == {k \in 1..p[1] : a.text[k] # b.text[k]}
    IN IF d # {} THEN a.text[Min(d)] < b.text[Min(d)] ELSE a.ranks[p[2] + 1] < b.ranks[p[3] + 1]

\* The blocks from which fragments are made: a window of two blocks gives its
\* first one, the last window also its second, so that one block gives none.
BlocksEmitted(c, n, nranks) ==
    LET windows == Max({(n + c.v - 1) \div c.v, (nranks + Len(c.cover) - 1) \div Len(c.cover)})
        last == Sizes(c, n)[1]
    IN 0..(windows - 2) \cup (IF windows > 1 /\ windows = last THEN {windows - 1} ELSE {})
MergeFragments(c, t, ranks) ==
    LET n == Len(t)
        at == {b * c.v + r : b \in BlocksEmitted(c, n, Len(ranks)), r \in 0..(c.v - 1)} \cap 0..(n - 1)
        fragments == [r \in 1..c.v |->
            LET mine == SelectSeq([i \in 1..n |-> i - 1], LAMBDA i : i \in at /\ i % c.v = r - 1)
            IN [k \in DOMAIN mine |-> Fragment(c, t, ranks, mine[k] \div c.v, r - 1)]]
    IN [k \in 1..Cardinality(at) |-> SortSeq(FlattenSeq(fragments), LAMBDA a, b : FragmentLess(c, a, b))[k].index]

RECURSIVE DCRecursive(_, _)
DCRecursive(c, t) ==
    LET sorted == TuplesSorted(c, t)
        names == Lexnames(c, t, sorted)
        max_lexname == Max(ToSet(names) \cup {0})
        sizes == Sizes(c, Len(t))
        size_subp == Offset(sizes, Len(sizes) + 1)
        recurse == max_lexname + 1 # size_subp
        sa == IF recurse THEN DCRecursive(c, Subproblem(c, sorted, names)) ELSE sorted
        key == [i \in ToSet(sa) |-> IF recurse THEN BlockOfRec(sizes, i) ELSE <<i \div c.v, i>>]
        order == RanksBy(sa, key)
    IN MergeFragments(c, t, [k \in DOMAIN order |-> order[k][2]])
DC3(t) == DCRecursive(DC3Cover, t)
DC7(t) == DCRecursive(DC7Cover, t)

(***************************************************************************)
(* Prefix doubling (by sorting, by windows, with discarding) and prefix    *)
(* quadrupling (plain, with discarding) of examples/suffix_sorting, as     *)
(* functions from a text to the suffix array they return.  k is how many   *)
(* characters the first names are made of: 2 or 4, or as many as fit into  *)
(* an index when the text is packed.                                       *)
(***************************************************************************)

RECURSIVE Log2Floor(_)
Log2Floor(k) == IF k < 2 THEN 0 ELSE 1 + Log2Floor(k \div 2)
\* the names of sorted items: position of the first equal one; a window of two
\* items names both, so that a single item gets no name
Named(sorted, same) ==
    IF Len(sorted) < 2 THEN <<>>
    ELSE [i \in DOMAIN sorted |-> <<sorted[i][1], IF i = 1 THEN 1 ELSE IF same[i] THEN 0 ELSE i>>]
Duplicates(names) == Cardinality({i \in DOMAIN names : names[i][2] = 0})
\* PrefixSum with the maximum of the ranks
Ranked(names) ==
    LET m == RunningMax([i \in DOMAIN names |-> names[i][2]]) IN [i \in DOMAIN names |-> <<names[i][1], m[i]>>]
SameAsBefore(sorted) == [i \in DOMAIN sorted |-> i > 1 /\ Tail(sorted[i]) = Tail(sorted[i - 1])]
Indices(items) == [i \in DOMAIN items |-> items[i][1]]
\* the order by (index mod d, index)
ByMod(items, d) == SortSeq(items, LAMBDA a, b : LessTuple(<<a[1] % d, a[1]>>, <<b[1] % d, b[1]>>))
\* IndexRankRank, IndexQuadRank: by ranks, then by decreasing index
ByRanks(items) == SortSeq(items, LAMBDA a, b : LessTuple(Tail(a), Tail(b)) \/ (Tail(a) = Tail(b) /\ a[1] > b[1]))

\* The first names, of k characters: unpacked, items come from windows of k and
\* the partial ones (a quadruple needs three items, a pack k items).
FirstItems(t, k, atLeast) ==
    IF Len(t) < atLeast THEN <<>> ELSE [i \in 1..Len(t) |-> <<i - 1>> \o Chars(t, i - 1, k)]
FirstNames(t, k, atLeast) ==
    LET sorted == SortSeq(FirstItems(t, k, atLeast), LAMBDA a, b : LessTuple(Tail(a), Tail(b)))
    IN Named(sorted, SameAsBefore(sorted))
PrefixDoublingPack(t, k, packed) == FirstNames(t, k, IF packed THEN k ELSE 1)

----------------------------------------------------------------------------
\* the rank of the item d indices further, taken from the next in ByMod order
RankIf_Next(items, i, j, d) == IF j <= Len(items) THEN items[j][2] ELSE 0
RankIf(items, i, j, d) == IF j <= Len(items) /\ items[i][1] + d = items[j][1] THEN items[j][2] ELSE 0
Pairs(items, d) == [i \in DOMAIN items |-> <<items[i][1], items[i][2], RankIf(items, i, i + 1, d)>>]
RECURSIVE DoubleBySorting(_, _, _)
DoubleBySorting(names, d, last) ==
    LET sorted == ByRanks(Pairs(ByMod(names, d), d))
        same == [i \in DOMAIN sorted |-> SameAsBefore(sorted)[i] /\ sorted[i - 1][3] # 0]
        next == Named(sorted, same)
        dup == Duplicates(next)
    IN IF dup > last \/ dup = 0 THEN Indices(next) ELSE DoubleBySorting(Ranked(next), 2 * d, dup)
PrefixDoublingSorting(t, k, packed) ==
    LET names == PrefixDoublingPack(t, k, packed)
    IN IF Duplicates(names) = 0 THEN Indices(names) ELSE DoubleBySorting(Ranked(names), 2 ^ Log2Floor(k), Duplicates(names))

\* by windows over the inverse suffix array: shift_by = d + 1
RankOf(names) == [i \in 0..(Len(names) - 1) |-> (CHOOSE j \in DOMAIN names : names[j][1] = i)]
WindowPairs(names, d) ==
    LET isa == RankOf(names)
    IN [i \in DOMAIN names |-> <<i - 1, names[isa[i - 1]][2], IF i - 1 + d < Len(names) THEN names[isa[i - 1 + d]][2] ELSE 0>>]
RECURSIVE DoubleByWindow(_, _)
DoubleByWindow(names, d) ==
    LET sorted == ByRanks(WindowPairs(names, d))
        next == Named(sorted, SameAsBefore(sorted))
    IN IF Duplicates(next) = 0 THEN Indices(next) ELSE DoubleByWindow(Ranked(next), 2 * d)
PrefixDoublingWindow(t, k, packed) ==
    LET names == PrefixDoublingPack(t, k, packed)
    IN IF Duplicates(names) = 0 THEN Indices(names) ELSE DoubleByWindow(Ranked(names), 2 ^ (Log2Floor(k) - 1))

----------------------------------------------------------------------------
\* PrefixQuadrupling; in the loop every new name is 1
Quads(items, d) ==
    IF Len(items) < 3 THEN <<>>
    ELSE [i \in DOMAIN items |-> <<items[i][1], items[i][2], RankIf(items, i, i + 1, d), RankIf(items, i, i + 2, 2 * d), RankIf(items, i, i + 3, 3 * d)>>]
NewName(i) == 1
RECURSIVE Quadruple(_, _)
Quadruple(names, d) ==
    LET sorted == ByRanks(Quads(ByMod(names, d), d))
        same == [i \in DOMAIN sorted |-> SameAsBefore(sorted)[i] /\ Tail(Tail(sorted[i - 1])) # <<0, 0, 0>>]
        named == Named(sorted, same)
        next == [i \in DOMAIN named |-> <<named[i][1], IF named[i][2] = 0 THEN 0 ELSE NewName(i)>>]
    IN IF Duplicates(next) = 0 THEN Indices(next) ELSE Quadruple(Ranked(next), 4 * d)
PrefixQuadrupling(t, k, packed) ==
    LET names == FirstNames(t, k, IF packed THEN k ELSE 3)
    IN IF Duplicates(names) = 0 THEN Indices(names) ELSE Quadruple(Ranked(names), 4)

----------------------------------------------------------------------------
\* ---- discarding: items <<index, rank, status>>
UNDECIDED == 0
UNIQUE == 1
FULLY_DISCARDED == 2
\* names_unique: an item is unique when its neighbours have other ranks; short
\* says what the windows of three give for fewer items
Differs(names, i, j) == j \notin DOMAIN names \/ names[i][2] # names[j][2]
WithStatus(names) ==
    [i \in DOMAIN names |->
        <<names[i][1], names[i][2], IF Differs(names, i, i - 1) /\ Differs(names, i, i + 1) THEN UNIQUE ELSE UNDECIDED>>]
NamesUnique(names) ==
    IF Len(names) >= 3 THEN WithStatus(names) ELSE [i \in DOMAIN names |-> <<names[i][1], names[i][2], UNIQUE>>]

\* discarded_names, by a window of w items (3 or 5) over the items in ByMod
\* order: <<index, ranks, status>>.  The first w - 1 items are discarded when
\* unique, a later one when one of the w - 1 items before it is; a unique item
\* that another may still need stays.
StatusAt_Eager(items, w, i) == IF items[i][3] = UNDECIDED THEN UNDECIDED ELSE FULLY_DISCARDED
StatusAt(items, w, i) ==
    IF items[i][3] = UNDECIDED THEN UNDECIDED
    ELSE IF i < w \/ (\E j \in 1..(w - 1) : items[i - j][3] = UNIQUE) THEN FULLY_DISCARDED ELSE UNIQUE
\* the second rank of the last but one item of a doubling is not checked
RanksAt(items, w, d, i) ==
    IF items[i][3] # UNDECIDED THEN <<items[i][2]>> \o [j \in 1..(w - 2) |-> 0]
    ELSE IF w = 3 THEN <<items[i][2], IF i = Len(items) - 1 THEN items[i + 1][2] ELSE RankIf(items, i, i + 1, d)>>
    ELSE <<items[i][2], RankIf(items, i, i + 1, d), RankIf(items, i, i + 2, 2 * d), RankIf(items, i, i + 3, 3 * d)>>
DiscardedNames(items, w, d) ==
    LET all == [i \in DOMAIN items |-> <<items[i][1], RanksAt(items, w, d, i), StatusAt(items, w, i)>>]
        early == [i \in DOMAIN items |-> <<items[i][1], <<items[i][2]>> \o [j \in 1..(w - 2) |-> 0],
                                           IF items[i][3] = UNIQUE THEN FULLY_DISCARDED ELSE UNDECIDED>>]
    IN IF Len(items) >= w THEN all
       ELSE IF Len(items) < w - 1 THEN early
       ELSE early \o SelectSeq(all, LAMBDA x : x[3] = UNDECIDED)
\* new_ranks: the rank of the first of the old rank, plus the position of the
\* first equal item among these
NewRanks(sorted) ==
    LET r1 == RunningMax([i \in DOMAIN sorted |-> IF i = 1 \/ sorted[i][2] = sorted[i - 1][2] THEN 0 ELSE i - 1])
        r2 == RunningMax([i \in DOMAIN sorted |-> IF i = 1 \/ Tail(sorted[i]) = Tail(sorted[i - 1]) THEN 0 ELSE i - 1])
    IN [i \in DOMAIN sorted |-> <<sorted[i][1], sorted[i][2] + (r2[i] - r1[i])>>]

\* what the missing check makes of this: a rank of another residue class
Misranked(items, w, d) ==
    LET i == Len(items) - 1
    IN w = 3 /\ i > 0 /\ items[i][3] = UNDECIDED /\ items[i][1] + d # items[i + 1][1]

\* the loop: the suffix array, and whether an item was misranked on the way
RECURSIVE Discard(_, _, _, _, _)
Discard(items, w, d, done, mis) ==
    LET names == DiscardedNames(items, w, d)
        decided == done \o SelectSeq(names, LAMBDA x : x[3] = FULLY_DISCARDED)
        partial == SelectSeq(names, LAMBDA x : x[3] = UNIQUE)
        undecided == SelectSeq(names, LAMBDA x : x[3] = UNDECIDED)
        undiscarded == ByRanks([i \in DOMAIN undecided |-> <<undecided[i][1]>> \o undecided[i][2]])
        next == NamesUnique(NewRanks(undiscarded)) \o [i \in DOMAIN partial |-> <<partial[i][1], partial[i][2][1], UNIQUE>>]
    IN IF undecided = <<>> THEN [sa |-> Indices(SortSeq(decided, LAMBDA a, b : a[2][1] < b[2][1])), misranked |-> mis]
       ELSE Discard(ByMod(next, d * (w - 1)), w, d * (w - 1), decided, mis \/ Misranked(items, w, d))
DiscardFrom(names, w, d) ==
    IF Len(names) < 3 THEN [sa |-> <<>>, misranked |-> FALSE]
    ELSE Discard(ByMod(WithStatus(Ranked(names)), d), w, d, <<>>, FALSE)
PrefixDoublingDiscarding(t, k, packed) == DiscardFrom(PrefixDoublingPack(t, k, packed), 3, 2 ^ Log2Floor(k))
PrefixQuadruplingDiscarding(t, k, packed) == DiscardFrom(FirstNames(t, k, IF packed THEN k ELSE 3), 5, 4)

(***************************************************************************)
(* What examples/suffix_sorting makes of a suffix array: CheckSA, the      *)
(* Burrows-Wheeler transform and its run lengths, the LCP array and the    *)
(* wavelet tree, as functions.                                             *)
(***************************************************************************)

\* ranks of the suffixes in text order: ZipWithIndex, sorted by index
Inverse0(sa) == SortSeq([i \in DOMAIN sa |-> <<sa[i], i - 1>>], LAMBDA a, b : a[1] < b[1])
\* Zip refuses DIAs of different sizes
ZipDies == "Zip(): input DIAs have unequal size"

\* CheckSA: a permutation, and each suffix smaller than the next one by its
\* character and the rank of the suffix after it
SuffixLess_NoEnd(a, b, n) == a[3] < b[3] \/ (a[3] = b[3] /\ a[2] <= b[2])
SuffixLess(a, b, n) == a[3] < b[3] \/ (a[3] = b[3] /\ b[2] # n /\ (a[2] = n \/ a[2] <= b[2]))
CheckSA(t, sa) ==
    LET n == Len(t)
        isa == Inverse0(sa)
        pairs == [i \in 1..n |-> <<isa[i][2], IF i = n THEN n ELSE isa[i + 1][2], t[i]>>]
        order == SortSeq(pairs, LAMBDA a, b : a[1] < b[1])
    IN IF \E i \in DOMAIN isa : isa[i][1] # i - 1 THEN <<FALSE>>
       ELSE IF Len(sa) # n \/ n < 2 THEN <<ZipDies>>
       ELSE <<\A i \in 1..(n - 1) : SuffixLess(order[i], order[i + 1], n)>>

\* ConstructBWT: the characters before the suffixes, through the text order
ConstructBWT(t, sa) ==
    LET n == Len(t)
        before == [i \in DOMAIN sa |-> IF sa[i] = 0 THEN n - 1 ELSE sa[i] - 1]
        inText == Inverse0(before)
        chars == SortSeq([i \in 1..n |-> <<inText[i][2], t[i]>>], LAMBDA a, b : a[1] < b[1])
    IN [i \in 1..n |-> chars[i][2]]

\* ConstructRLBWT over windows of w characters: <<run length - 1, character>>
RunsIn_NoLast(v) ==
    LET end == SetToSortSeq({i \in 1..(Len(v) - 1) : v[i] # v[i + 1]}, <)
    IN [k \in DOMAIN end |-> <<end[k] - (IF k = 1 THEN 0 ELSE end[k - 1]) - 1, v[end[k]]>>]
RunsIn(v) ==
    LET ends == {i \in DOMAIN v : i = Len(v) \/ v[i] # v[i + 1]}
        end == SetToSortSeq(ends, <)
    IN [k \in DOMAIN end |-> <<end[k] - (IF k = 1 THEN 0 ELSE end[k - 1]) - 1, v[end[k]]>>]
RECURSIVE ConstructRLBWT(_, _)
ConstructRLBWT(t, w) ==
    IF Len(t) <= w THEN RunsIn(t) ELSE RunsIn(SubSeq(t, 1, w)) \o ConstructRLBWT(SubSeq(t, w + 1, Len(t)), w)

\* ConstructLCP: intervals of suffixes with equal prefixes are refined through
\* the inverse of the transform; where an interval begins the LCP is known
Flags(s) == RunningSum([i \in DOMAIN s |-> IF i = 1 \/ s[i] = s[i - 1] THEN 0 ELSE 1])
SetLCP_All(lcp, intervals, value) ==
    [i \in DOMAIN lcp |-> IF i = 1 THEN <<0, TRUE>> ELSE IF intervals[i] # intervals[i - 1] THEN <<value, TRUE>> ELSE lcp[i]]
SetLCP(lcp, intervals, value) ==
    [i \in DOMAIN lcp |->
        IF i = 1 THEN <<0, TRUE>> ELSE IF intervals[i] # intervals[i - 1] /\ ~lcp[i][2] THEN <<value, TRUE>> ELSE lcp[i]]
\* (the loop does not end when intervals it had before come again)
Endless == <<-1>>
RECURSIVE RefineLCP(_, _, _, _, _)
RefineLCP(lcp, intervals, inverse, value, seen) ==
    LET next == SetLCP(lcp, intervals, value)
        moved == SortSeq([i \in DOMAIN inverse |-> <<inverse[i], intervals[i]>>], LAMBDA a, b : a[1] < b[1])
    IN IF Max(ToSet(intervals)) + 1 >= Len(lcp) THEN [i \in DOMAIN next |-> next[i][1]]
       ELSE IF intervals \in seen THEN Endless
       ELSE RefineLCP(next, Flags([i \in DOMAIN moved |-> moved[i][2]]), inverse, value + 1, seen \cup {intervals})
ConstructLCP(bwt) ==
    LET sorted == SortSeq([i \in DOMAIN bwt |-> <<i - 1, bwt[i]>>],
                          LAMBDA a, b : LessTuple(<<a[2], a[1]>>, <<b[2], b[1]>>))
        byIndex == Inverse0([i \in DOMAIN sorted |-> sorted[i][1]])
    IN RefineLCP([i \in DOMAIN bwt |-> <<0, FALSE>>], Flags([i \in DOMAIN sorted |-> sorted[i][2]]),
                 [i \in DOMAIN byIndex |-> byIndex[i][2]], 0, {})

\* ConstructWaveletTree: level by level from the top, a bit of each character
\* in the order by the bits above it; Sort is taken to be stable here
RECURSIVE Log2Ceil(_)
Log2Ceil(k) == IF k < 2 THEN 0 ELSE 1 + Log2Ceil((k + 1) \div 2)
Bit(x, level) == (x \div 2 ^ level) % 2
RECURSIVE WaveletLevels(_, _)
WaveletLevels(wt, level) ==
    IF level = 0 THEN <<>>
    ELSE <<[i \in DOMAIN wt |-> Bit(wt[i], level - 1)]>>
         \o WaveletLevels(SortSeq(wt, LAMBDA a, b : a \div 2 ^ (level - 1) < b \div 2 ^ (level - 1)), level - 1)
ConstructWaveletTree_Floor(t) == WaveletLevels(t, Log2Floor(Max(ToSet(t))))
ConstructWaveletTree(t) == WaveletLevels(t, Log2Ceil(Max(ToSet(t))))

----------------------------------------------------------------------------
\* StartInput: the sorter by name; k_fitting stands for how many characters of
\* the packed text fit into an index
k_fitting == [doubling |-> 3, quadrupling |-> 5]
StartInput(algorithm, t, packed) ==
    LET k2 == IF packed THEN k_fitting.doubling ELSE 2
        k4 == IF packed THEN k_fitting.quadrupling ELSE 4
    IN CASE algorithm = "dc3" -> DC3(t)
         [] algorithm = "dc7" -> DC7(t)
         [] algorithm = "pdw" -> PrefixDoublingWindow(t, k2, packed)
         [] algorithm = "pds" -> PrefixDoublingSorting(t, k2, packed)
         [] algorithm = "dis" -> PrefixDoublingDiscarding(t, k2, packed)
         [] algorithm = "q" -> PrefixQuadrupling(t, k4, packed)
         [] algorithm = "qd" -> PrefixQuadruplingDiscarding(t, k4, packed)
=============================================================================
