------------------------------- MODULE DIAOps -------------------------------
(***************************************************************************)
(* The operations that move items to where their index belongs: Zip,        *)
(* ZipWindow, ZipWithIndex, Window, Concat, Rebalance, and the sources      *)
(* Generate, Distribute and ConcatToDIA (thrill/api).  Each node is a       *)
(* function from the items of its parents to the items it pushes; a result  *)
(* [ok |-> FALSE] stands for a die() or a read beyond the end of a reader.  *)
(***************************************************************************)
EXTENDS Workers

Pushed(out) == [ok |-> TRUE, out |-> out]
Dies == [ok |-> FALSE, out |-> <<>>]
Padding == 0
Lens(seqs) == {Len(seqs[i]) : i \in DOMAIN seqs}
Totals(files) == {TotalLen(files[i]) : i \in DOMAIN files}
CeilDiv(a, b) == (a + b - 1) \div b

----------------------------------------------------------------------------
\* DoScatter of Zip (window 1) and of ZipWindow: the cuts of one file, at
\* multiples of the window, relative to its first item
CutAt_Torn(i, count, workers, window) == CeilDiv(i * count * window, workers)
CutAt(i, count, workers, window) == CeilDiv(i * count, workers) * window
DoScatter_OwnSize(file, count, window) ==
    ScatterConsume(file, [w \in DOMAIN file |-> [i \in 1..(Len(file) + 1) |->
        LET cut == CeilDiv((i - 1) * TotalLen(file), Len(file))
        IN IF cut < Before(file, w) THEN 0 ELSE SmallerOf(cut - Before(file, w), Len(file[w]))]])
DoScatter(file, count, window) ==
    LET p == Len(file)
        size == count * window
        begin(w) == SmallerOf(size, Before(file, w))
        end(w) == SmallerOf(size, Before(file, w) + Len(file[w]))
        offset(w, i) == LET cut == CutAt(i, count, p, window)
                        IN IF cut < begin(w) THEN 0 ELSE SmallerOf(cut, end(w)) - begin(w)
    IN ScatterConsume(file, [w \in 1..p |-> [i \in 1..(p + 1) |-> offset(w, i - 1)]])

\* ReaderNext: HasNext and operator () over all readers of one worker
HasNext(readers, pad) == IF pad THEN \E r \in Range(readers) : r # <<>> ELSE \A r \in Range(readers) : r # <<>>
ZipArg(reader, pad) == IF pad /\ reader = <<>> THEN Padding ELSE Head(reader)
RECURSIVE ReaderNext(_, _)
ReaderNext(readers, pad) ==
    IF ~HasNext(readers, pad) THEN <<>>
    ELSE <<[i \in DOMAIN readers |-> ZipArg(readers[i], pad)]>> \o
         ReaderNext([i \in DOMAIN readers |-> IF readers[i] = <<>> THEN <<>> ELSE Tail(readers[i])], pad)

\* MainOp: the size of the result, or -1 for "input DIAs have unequal size"
ResultSize(sizes, pad, check) ==
    LET size == IF pad THEN Max(sizes) ELSE Min(sizes)
    IN IF ~pad /\ check /\ size # Max(sizes) THEN -1 ELSE size

ZipNode(files, pad, check) ==
    LET size == ResultSize(Totals(files), pad, check)
        streams == [i \in DOMAIN files |-> DoScatter(files[i], size, 1)]
    IN IF size = -1 THEN Dies
       ELSE IF size = 0 THEN Pushed([w \in DOMAIN files[1] |-> <<>>])
       ELSE Pushed([w \in DOMAIN files[1] |-> ReaderNext([i \in DOMAIN files |-> streams[i][w]], pad)])

\* the variants: Zip (ZipEqual), Zip(CutTag), Zip(PadTag) and Zip(NoRebalanceTag)
ZipEqual(files) == ZipNode(files, FALSE, TRUE)
ZipCut(files) == ZipNode(files, FALSE, FALSE)
ZipPad(files) == ZipNode(files, TRUE, FALSE)
ZipNoRebalance(files) ==
    LET local(w) == [i \in DOMAIN files |-> files[i][w]]
    IN IF \E w \in DOMAIN files[1] : Cardinality(Lens(local(w))) > 1 THEN Dies
       ELSE Pushed([w \in DOMAIN files[1] |-> ReaderNext(local(w), FALSE)])

----------------------------------------------------------------------------
\* ZipWindowReader: windows of every input until it HasNext no more; without
\* padding an incomplete last window reads beyond the end
NextWindow(reader, k) == [i \in 1..k |-> IF i <= Len(reader) THEN reader[i] ELSE Padding]
RECURSIVE ZipWindowReader(_, _, _)
ZipWindowReader(readers, windows, pad) ==
    IF ~HasNext(readers, pad) THEN Pushed(<<>>)
    ELSE IF ~pad /\ \E i \in DOMAIN readers : Len(readers[i]) < windows[i] THEN Dies
    ELSE LET rest == ZipWindowReader([i \in DOMAIN readers |-> SubSeq(readers[i], windows[i] + 1, Len(readers[i]))],
                                     windows, pad)
         IN [rest EXCEPT !.out = <<[i \in DOMAIN readers |-> NextWindow(readers[i], windows[i])]>> \o @]

ZipWindowNode(files, windows, pad, check) ==
    LET count == ResultSize({CeilDiv(TotalLen(files[i]), windows[i]) : i \in DOMAIN files}, pad, check)
        streams == [i \in DOMAIN files |-> DoScatter(files[i], count, windows[i])]
        read == [w \in DOMAIN files[1] |-> ZipWindowReader([i \in DOMAIN files |-> streams[i][w]], windows, pad)]
    IN IF count = -1 THEN Dies
       ELSE IF count = 0 THEN Pushed([w \in DOMAIN files[1] |-> <<>>])
       ELSE [ok |-> \A w \in DOMAIN read : read[w].ok, out |-> [w \in DOMAIN read |-> read[w].out]]

ZipWindow(files, windows) == ZipWindowNode(files, windows, FALSE, TRUE)
ZipWindowCut(files, windows) == ZipWindowNode(files, windows, FALSE, FALSE)
ZipWindowPad(files, windows) == ZipWindowNode(files, windows, TRUE, FALSE)

ZipWithIndexNode(file) ==
    [w \in DOMAIN file |-> [i \in DOMAIN file[w] |-> <<file[w][i], Before(file, w) + i - 1>>]]

----------------------------------------------------------------------------
\* BaseWindowNode keeps the last k - 1 items: PreOp pushes them one by one
\* through a ring buffer, OnPreOpFile reads them from the end of the File
PreOp(k, window, x) == Append(IF Len(window) >= k - 1 THEN Tail(window) ELSE window, x)
LastByPreOp(items, k) == FoldLeft(LAMBDA window, x : PreOp(k, window, x), <<>>, items)
LastByFile(items, k) ==
    SubSeq(items, (IF Len(items) > k - 1 THEN Len(items) - k + 1 ELSE 0) + 1, Len(items))

\* net.Predecessor(k - 1, my_last)
Predecessor_Direct(lasts, w, k) == IF w = 1 THEN <<>> ELSE LastOf(lasts[w - 1], k - 1)
Predecessor(lasts, w, k) == LastOf(FlattenSeq(SubSeq(lasts, 1, w - 1)), k - 1)

\* OverlapWindowNode: Execute, and PushData of one worker; a window is pushed
\* with the rank of its first item
OverlapStep(k, s, x) ==
    LET window == Append(s.window, x)
    IN IF Len(window) # k THEN [s EXCEPT !.window = window, !.rank = @ + 1]
       ELSE [window |-> Tail(window), rank |-> s.rank + 1, out |-> Append(s.out, <<s.rank, window>>)]
RECURSIVE PartialWindows(_, _)
PartialWindows(rank, window) ==
    IF window = <<>> THEN <<>> ELSE <<<<rank, window>>>> \o PartialWindows(rank + 1, Tail(window))
OverlapPush(items, pre, first, k, last) ==
    LET s == FoldLeft(LAMBDA t, x : OverlapStep(k, t, x), [window |-> pre, rank |-> first - (k - 1), out |-> <<>>], items)
    IN [full |-> s.out,
        partial |-> IF last THEN PartialWindows(IF Len(s.window) < k - 1 THEN 0 ELSE s.rank, s.window) ELSE <<>>]
OverlapWindowNode(file, k, viaFile) ==
    LET lasts == [w \in DOMAIN file |-> IF viaFile THEN LastByFile(file[w], k) ELSE LastByPreOp(file[w], k)]
    IN [w \in DOMAIN file |->
           OverlapPush(file[w], Predecessor(lasts, w, k), Before(file, w), k, w = Len(file))]

\* DisjointWindowNode: the window goes on where the items before it ended
FillFrom_All(pre, first, k) == pre
FillFrom(pre, first, k) == SubSeq(pre, Len(pre) - (first % k) + 1, Len(pre))
DisjointStep(k, s, x) ==
    LET window == Append(s.window, x)
    IN IF Len(window) # k THEN [s EXCEPT !.window = window, !.rank = @ + 1]
       ELSE [window |-> <<>>, rank |-> s.rank + 1, out |-> Append(s.out, <<s.rank, window>>)]
DisjointPush(items, window0, first, k, last) ==
    LET s == FoldLeft(LAMBDA t, x : DisjointStep(k, t, x),
                      [window |-> window0, rank |-> first - (k - 1), out |-> <<>>], items)
    IN [full |-> s.out,
        partial |-> IF last /\ s.window # <<>> THEN <<<<s.rank + k - Len(s.window) - 1, s.window>>>> ELSE <<>>]
DisjointWindowNode(file, k, viaFile) ==
    LET lasts == [w \in DOMAIN file |-> IF viaFile THEN LastByFile(file[w], k) ELSE LastByPreOp(file[w], k)]
    IN [w \in DOMAIN file |->
           DisjointPush(file[w], FillFrom(Predecessor(lasts, w, k), Before(file, w), k), Before(file, w), k, w = Len(file))]

----------------------------------------------------------------------------
\* the offsets of Rebalance and Concat: the cuts relative to the rank at which
\* the worker takes its n items to begin
RankOffsets(rank, n, total, p) ==
    [i \in 1..(p + 1) |-> LET limit == ((i - 1) * total) \div p
                          IN IF i = p + 1 THEN n ELSE IF limit < rank THEN 0 ELSE SmallerOf(limit - rank, n)]

RebalanceNode_Inclusive(file) ==
    ScatterConsume(file, [w \in DOMAIN file |->
        RankOffsets(Before(file, w + 1), Len(file[w]), TotalLen(file), Len(file))])
RebalanceNode(file) ==
    ScatterConsume(file, [w \in DOMAIN file |-> RankOffsets(Before(file, w), Len(file[w]), TotalLen(file), Len(file))])

\* Concat's Execute: worker 0 replaces its local size by the items of the DIAs
\* before this one, then the inclusive PrefixSum is taken as the local rank
LocalRank_NoStart(file, start, w) == TotalLen(SubSeq(file, 2, w))
LocalRank(file, start, w) == start + TotalLen(SubSeq(file, 2, w))
ConcatNode(files) ==
    LET p == Len(files[1])
        start(i) == FoldLeft(LAMBDA n, f : n + TotalLen(f), 0, SubSeq(files, 1, i - 1))
        total == start(Len(files) + 1)
        stream(i) == ScatterConsume(files[i], [w \in 1..p |->
                         RankOffsets(LocalRank(files[i], start(i), w), Len(files[i][w]), total, p)])
        streams == [i \in DOMAIN files |-> stream(i)]
    IN [w \in 1..p |-> FlattenSeq([i \in DOMAIN files |-> streams[i][w]])]

\* the sources: worker w generates, receives or brings its own items
Indexes(range) == [i \in 1..(range.end - range.begin) |-> range.begin + i - 1]
GenerateNode(size, p) == [w \in 1..p |-> Indexes(CalculateLocalRange(size, p, w - 1))]
DistributeNode(vector, p) ==
    [w \in 1..p |-> LET local == CalculateLocalRange(Len(vector), p, w - 1)
                    IN SubSeq(vector, local.begin + 1, local.end)]
ConcatToDIANode(vectors) == vectors

(***************************************************************************)
(* The local operations and their fusion into one chain (dia.hpp), the     *)
(* actions that bring a DIA's content or one value to the workers, and     *)
(* PrefixSum (thrill/api: size, gather, all_gather, print, equal_to_dia,   *)
(* cache, all_reduce, sum, min, max, prefix_sum, ex_prefix_sum,            *)
(* bernoulli_sample).  Items are numbers; 0 is ValueType().                *)
(***************************************************************************)

(***************************************************************************)
(* The FunctionStack: an item goes through the whole chain before the next *)
(* item is touched.  An LOp is [name, skips], with example functions of    *)
(* the user; skips are the values a BernoulliSample draws.                 *)
(***************************************************************************)
Map(x) == <<x + 1>>
Filter(x) == IF x % 2 = 1 THEN <<x>> ELSE <<>>
FlatMap(x) == [i \in 1..(x % 3) |-> x]
Emitted(lop, x) ==
    CASE lop = "Map" -> Map(x) [] lop = "Filter" -> Filter(x) [] lop = "FlatMap" -> FlatMap(x)
RECURSIVE PushItem(_, _)
PushItem_LastOnly(stack, x) == IF stack = <<>> THEN <<x>> ELSE Emitted(Last(stack), x)
PushItem(stack, x) ==
    IF stack = <<>> THEN <<x>>
    ELSE LET y == Emitted(stack[1], x) IN FlattenSeq([i \in DOMAIN y |-> PushItem(Tail(stack), y[i])])
\* PushFile: a child without a function stack may take the File as it is
\* (OnPreOpFile), all others get its items one by one
PushFile(file, stack) ==
    IF stack = <<>> THEN file ELSE FlattenSeq([i \in DOMAIN file |-> PushItem(stack, file[i])])

\* BernoulliSample with small p: the numbers of items skipped between samples
BernoulliStep(s, x, draws) ==
    IF s.skip = 0 THEN {[out |-> Append(s.out, x), skip |-> d] : d \in draws} ELSE {[s EXCEPT !.skip = @ - 1]}
BernoulliSample(items, draws) ==
    LET start == {[out |-> <<>>, skip |-> d] : d \in draws}
    IN {s.out : s \in FoldLeft(LAMBDA S, x : UNION {BernoulliStep(s, x, draws) : s \in S}, start, items)}

(***************************************************************************)
(* Nodes: dia is what the workers' parents push, stack the chain before.   *)
(***************************************************************************)
PreOps(dia, stack) == [w \in DOMAIN dia |-> PushFile(dia[w], stack)]
CacheNode(dia, stack) == PreOps(dia, stack)
SizeNode(dia, stack) == TotalLen(PreOps(dia, stack))
GatherNode(dia, stack, target_id) ==
    [w \in DOMAIN dia |-> IF w = target_id + 1 THEN FlattenSeq(PreOps(dia, stack)) ELSE <<>>]
AllGatherNode(dia, stack) == [w \in DOMAIN dia |-> FlattenSeq(PreOps(dia, stack))]
PrintNode(dia, stack) == GatherNode(dia, stack, 0)[1]
EqualToDIA(vec, p) ==
    [w \in 1..p |-> LET local == CalculateLocalRange(Len(vec), p, w - 1) IN SubSeq(vec, local.begin + 1, local.end)]

(***************************************************************************)
(* AllReduce, Sum, Min, Max.  init is <<>> or the initial value.           *)
(***************************************************************************)
Reduce(f, a, b) ==
    CASE f = "sum" -> a + b [] f = "min" -> SmallerOf(a, b) [] f = "max" -> LargerOf(a, b) [] f = "last" -> b
AllReducePreOp(f, s, x) == IF s.first THEN [first |-> FALSE, sum |-> x] ELSE [s EXCEPT !.sum = Reduce(f, @, x)]
AllReduceLocal_AllInitial(f, items, init, rank) ==
    FoldLeft(LAMBDA s, x : AllReducePreOp(f, s, x),
             [first |-> init = <<>>, sum |-> IF init = <<>> THEN 0 ELSE init[1]], items).sum
\* only worker 0 begins with the initial value; without an item a worker
\* contributes it, or ValueType(), nevertheless
AllReduceLocal(f, items, init, rank) ==
    FoldLeft(LAMBDA s, x : AllReducePreOp(f, s, x),
             [first |-> ~(init # <<>> /\ rank = 0), sum |-> IF init = <<>> THEN 0 ELSE init[1]], items).sum
AllReduceNode(f, dia, init) ==
    LET local == [w \in DOMAIN dia |-> AllReduceLocal(f, dia[w], init, w - 1)]
    IN FoldLeft(LAMBDA a, b : Reduce(f, a, b), local[1], Tail(local))
Sum(dia, init) == AllReduceNode("sum", dia, init)
MinNode(dia, init) == AllReduceNode("min", dia, init)
MaxNode(dia, init) == AllReduceNode("max", dia, init)

(***************************************************************************)
(* PrefixSum and ExPrefixSum.                                              *)
(***************************************************************************)
PrefixLocal(f, items) == FoldLeft(LAMBDA a, b : Reduce(f, a, b), 0, items)
PrefixSumExecute_Inclusive(f, dia, init, w) ==
    FoldLeft(LAMBDA a, k : Reduce(f, a, PrefixLocal(f, dia[k])), init, Upto(w))
PrefixSumExecute(f, dia, init, w) ==
    FoldLeft(LAMBDA a, k : Reduce(f, a, PrefixLocal(f, dia[k])), init, Upto(w - 1))
\* PushData: the sums after (Inclusive) or before each item
PrefixPush(f, items, start, inclusive) ==
    LET sums == FoldLeft(LAMBDA a, x : Append(a, Reduce(f, Last(a), x)), <<start>>, items)
    IN IF inclusive THEN Tail(sums) ELSE Front(sums)
PrefixSumNode(f, dia, init, inclusive) ==
    [w \in DOMAIN dia |-> PrefixPush(f, dia[w], PrefixSumExecute(f, dia, init, w), inclusive)]
=============================================================================
