----------------------------- MODULE SortMerge -----------------------------
(***************************************************************************)
(* Sort and SortStable (thrill/api/sort.hpp), the multiway merge of their   *)
(* runs (thrill/core/multiway_merge.hpp), the search in a sorted File       *)
(* (File::GetIndexOf) and the splitting of sorted inputs by Merge           *)
(* (thrill/api/merge.hpp).  Data are one sequence of items for each worker; *)
(* an item has a value v, by which it is compared, and g, its position in   *)
(* the whole input, by which ties are told apart.                           *)
(***************************************************************************)
EXTENDS Workers

\* the workers' values as items with their global positions
Numbered(vals) == [w \in DOMAIN vals |-> [i \in DOMAIN vals[w] |-> [v |-> vals[w][i], g |-> Before(vals, w) + i - 1]]]

\* compare_function_, LessSampleIndex and EqualSampleGreaterIndex
Less(a, b) == a.v < b.v
LessSampleIndex(a, b) == Less(a, b) \/ (~Less(b, a) /\ a.g < b.g)
EqualSampleGreaterIndex(a, b) == ~Less(a, b) /\ a.g >= b.g

RECURSIVE Ceil2(_, _)
Ceil2(p, k) == IF k >= p THEN k ELSE Ceil2(p, 2 * k)
\* workers_algo: the number of workers rounded up to a power of two
WorkersAlgo(p) == Ceil2(p, 1)

----------------------------------------------------------------------------
\* PreOp and OnPreOpFile: the samples a worker may hold, at least one if it
\* has items and no more than wanted
PickSamples(items, wanted) == {S \in SUBSET ToSet(items) : (items # <<>> => S # {}) /\ Cardinality(S) <= wanted}

\* FindAndSendSplitters on worker 0: p - 1 equidistant of the sorted samples
Splitters(samples, p) ==
    LET s == SortSeq(FlattenSeq(samples), LessSampleIndex)
    IN [i \in 1..(p - 1) |-> s[((i * Len(s)) \div p) + 1]]

\* MainOp fills up to a full tree with copies of the last splitter
Padded(spl, p) == spl \o [i \in 1..(WorkersAlgo(p) - p) |-> spl[Len(spl)]]

\* TreeBuilder: the splitters of a range in the layout of a binary heap
RECURSIVE TreeBuilder(_, _, _, _)
TreeBuilder(spl, lo, hi, idx) ==
    LET mid == lo + (hi - lo) \div 2
        here == [j \in {idx} |-> spl[mid + 1]]
    IN IF 2 * idx < Len(spl)
       THEN here @@ TreeBuilder(spl, lo, mid, 2 * idx) @@ TreeBuilder(spl, mid + 1, hi, 2 * idx + 1)
       ELSE here

RECURSIVE Descend(_, _, _, _)
Descend(tree, x, j, k) == IF j >= k THEN j ELSE Descend(tree, x, 2 * j + (IF Less(x, tree[j]) THEN 0 ELSE 1), k)

\* an item equal to a splitter goes left of it unless it comes after it
RECURSIVE StepDown(_, _, _)
StepDown(spl, x, b) == IF b > 0 /\ EqualSampleGreaterIndex(spl[b], x) THEN StepDown(spl, x, b - 1) ELSE b

\* TransmitItems: the writer of an item; the last real writer sits at the end
\* of the padded array, and p stands for a writer that is not valid
TargetWorker_NoSwap(spl, p, x) ==
    LET k == WorkersAlgo(p)
    IN StepDown(spl, x, (IF k = 1 THEN 1 ELSE Descend(TreeBuilder(spl, 0, k - 1, 1), x, 1, k)) - k)
TargetWorker(spl, p, x) ==
    LET k == WorkersAlgo(p)
        b == StepDown(spl, x, (IF k = 1 THEN 1 ELSE Descend(TreeBuilder(spl, 0, k - 1, 1), x, 1, k)) - k)
    IN IF b = k - 1 THEN p - 1 ELSE IF b >= p - 1 THEN p ELSE b

\* what worker w receives, in the order of the sources (CatStream)
ReceiveItems(items, spl, w) ==
    LET p == Len(items) IN SelectSeq(FlattenSeq(items), LAMBDA x : TargetWorker(spl, p, x) = w)

\* SortAndWriteToFile: runs of at most cap items, each sorted stably
RECURSIVE Runs(_, _)
Runs(s, cap) ==
    IF s = <<>> THEN <<>>
    ELSE LET n == IF Len(s) < cap THEN Len(s) ELSE cap
             pos == [i \in 1..n |-> [v |-> s[i].v, g |-> i, x |-> s[i]]]
             run == SortSeq(pos, LessSampleIndex)
         IN <<[i \in 1..n |-> run[i].x]>> \o Runs(SubSeq(s, n + 1, Len(s)), cap)

\* MultiwayMergeTree: the least head, of the first source among equal ones
RECURSIVE MultiwayMerge(_)
MultiwayMerge(seqs) ==
    LET live == {t \in DOMAIN seqs : seqs[t] # <<>>}
        top == CHOOSE t \in live : \A u \in live : ~Less(seqs[u][1], seqs[t][1]) /\ (Less(seqs[t][1], seqs[u][1]) \/ t <= u)
    IN IF live = {} THEN <<>> ELSE <<seqs[top][1]>> \o MultiwayMerge([seqs EXCEPT ![top] = Tail(@)])

\* PartialMultiwayMerge: groups of degree files become one, the rest is kept
RECURSIVE PartialMultiwayMerge(_, _)
PartialMultiwayMerge(files, degree) ==
    IF degree < Len(files)
    THEN <<MultiwayMerge(SubSeq(files, 1, degree))>> \o
         PartialMultiwayMerge(SubSeq(files, degree + 1, Len(files)), degree)
    ELSE files

\* BlockPool::MaxMergeDegreePrefetch over the blocks a worker may use
MaxMergeDegree(files, avail) == IF files >= avail THEN avail ELSE files
\* PushData: merge partially while there are more files than the pool affords
RECURSIVE PushSorted(_, _)
PushSorted_Last(files, avail) == MultiwayMerge(SubSeq(files, 1, IF Len(files) < avail THEN Len(files) ELSE avail))
PushSorted(files, avail) ==
    LET degree == MaxMergeDegree(Len(files), avail)
    IN IF Len(files) <= degree THEN MultiwayMerge(files) ELSE PushSorted(PartialMultiwayMerge(files, degree), avail)

\* SortNode: the output of all workers for the samples the reservoirs hold
SortNode(items, samples, cap, avail) ==
    LET p == Len(items)
        spl == Padded(Splitters(samples, p), p)
    IN IF TotalLen(items) = 0 THEN items
       ELSE [w \in 1..p |-> PushSorted(Runs(ReceiveItems(items, spl, w - 1), cap), avail)]

----------------------------------------------------------------------------
\* File::GetIndexOf: binary search in [left, right), ties by local rank
RECURSIVE GetIndexOf(_, _, _, _, _)
GetIndexOf(file, item, tie, left, right) ==
    LET mid == (left + right) \div 2
    IN IF left >= right THEN left
       ELSE IF item < file[mid + 1] \/ (item = file[mid + 1] /\ tie <= mid)
       THEN GetIndexOf(file, item, tie, left, mid) ELSE GetIndexOf(file, item, tie, mid + 1, right)

\* Merge: the ranks at which the global order is cut, for p workers
TargetRanks(n, p) == [r \in 1..(p - 1) |-> (n \div p) * r + (IF r - 1 < n % p THEN 1 ELSE 0)]

SumSeq(s) == FoldSeq(+, 0, s)
\* SelectPivots of one splitter on one worker: the first widest file, any item
WidestFile(width) == Min({f \in DOMAIN width : \A e \in DOMAIN width : width[e] <= width[f]})
\* ReducePivots over the workers: the widest range, of the last worker on a tie
PivotWorker(width) ==
    LET len(w) == width[w][WidestFile(width[w])]
    IN Max({w \in DOMAIN width : \A u \in DOMAIN width : len(u) <= len(w)})
\* the pivots some worker's random number may select for one splitter
Pivots(files, left, width) ==
    LET w == PivotWorker(width)
        f == WidestFile(width[w])
        at == left[w][f]
    IN IF width[w][f] = 0 THEN {[v |-> 0, tie |-> at]}
       ELSE {[v |-> files[w][f][i + 1], tie |-> i] : i \in at..(at + width[w][f] - 1)}

\* GetGlobalRanks: the pivot's rank in every file, and their sum
LocalRanks(files, pivot, left, width) ==
    [w \in DOMAIN files |-> [f \in DOMAIN files[w] |->
        GetIndexOf(files[w][f], pivot.v, pivot.tie, left[w][f], left[w][f] + width[w][f])]]
GlobalRank(ranks) == SumSeq([w \in DOMAIN ranks |-> SumSeq(ranks[w])])

\* SearchStep: shrink every range to the side where the target lies
SearchStep_KeepLeft(left, width, ranks, below) ==
    IF below THEN [left |-> left, width |-> width]
    ELSE [left |-> left, width |-> [w \in DOMAIN left |-> [f \in DOMAIN left[w] |-> ranks[w][f] - left[w][f]]]]
SearchStep_Exclusive(left, width, ranks, below) ==
    [left |-> IF below THEN ranks ELSE left,
     width |-> [w \in DOMAIN left |-> [f \in DOMAIN left[w] |->
                   LET k == IF below THEN width[w][f] - (ranks[w][f] - left[w][f]) ELSE ranks[w][f] - left[w][f]
                   IN IF k = 0 THEN 0 ELSE k - 1]]]
SearchStep(left, width, ranks, below) ==
    IF below
    THEN [left |-> [w \in DOMAIN left |-> [f \in DOMAIN left[w] |->
                       IF width[w][f] = 0 THEN left[w][f] ELSE ranks[w][f]]],
          width |-> [w \in DOMAIN left |-> [f \in DOMAIN left[w] |->
                       IF width[w][f] = 0 THEN 0 ELSE width[w][f] - (ranks[w][f] - left[w][f])]]]
    ELSE [left |-> left,
          width |-> [w \in DOMAIN left |-> [f \in DOMAIN left[w] |->
                       IF width[w][f] = 0 THEN 0 ELSE ranks[w][f] - left[w][f]]]]

\* the ranks are within the tolerance of kNumInputs + 1
AbsDiff(a, b) == IF a < b THEN b - a ELSE a - b
Within_Loose(ranks, target, inputs) == \A r \in DOMAIN target : AbsDiff(GlobalRank(ranks[r]), target[r]) <= 2 * (inputs + 1)
Within(ranks, target, inputs) == \A r \in DOMAIN target : AbsDiff(GlobalRank(ranks[r]), target[r]) <= inputs + 1

\* the offsets at which worker w's file f is scattered
Offsets(ranks, files, w, f) == <<0>> \o [r \in DOMAIN ranks |-> ranks[r][w][f]] \o <<Len(files[w][f])>>
\* PushData of Merge: one CatStream for each input, merged
MergePush(files, ranks) ==
    LET stream(f) == ScatterConsume([w \in DOMAIN files |-> files[w][f]], [w \in DOMAIN files |-> Offsets(ranks, files, w, f)])
        streams == [f \in DOMAIN files[1] |-> stream(f)]
    IN [s \in DOMAIN files |->
           MultiwayMerge([f \in DOMAIN streams |-> [i \in DOMAIN streams[f][s] |-> [v |-> streams[f][s][i], g |-> 0]]])]
=============================================================================
