---------------------------- MODULE CheckDIAOps ----------------------------
(***************************************************************************)
(* The operations of DIAOps against what they mean for the whole sequence. *)
(***************************************************************************)
EXTENDS Operation
D == INSTANCE DIAOps

\* all distributions of n items over p workers; the items are their indexes
Dias(n, p, base) ==
    LET cuts == {c \in [0..p -> 0..n] : c[0] = 0 /\ c[p] = n /\ \A i \in 1..p : c[i - 1] <= c[i]}
    IN {[w \in 1..p |-> [i \in 1..(c[w] - c[w - 1]) |-> base + c[w - 1] + i]] : c \in cuts}
DiasOf(ns, p, base) == UNION {Dias(n, p, base) : n \in ns}
All(dia) == D!FlattenSeq(dia)

ZipArgs == UNION {[files : {<<a, b>> : a \in DiasOf({0, 2, 5}, p, 10), b \in DiasOf({0, 3, 5}, p, 20)}] : p \in 1..3}
ZipWindowArgs ==
    UNION {[files : {<<a, b>> : a \in DiasOf({2, 5}, p, 10), b \in DiasOf({6, 7}, p, 20)},
            windows : {<<1, 2>>, <<2, 3>>}] : p \in 1..3}
WindowArgs == UNION {[file : DiasOf(0..6, p, 0), k : 2..4, viaFile : BOOLEAN] : p \in 1..3}
OneDia == UNION {[file : DiasOf(0..7, p, 0)] : p \in 1..4}
TwoDias == UNION {[files : {<<a, b>> : a \in DiasOf(0..4, p, 10), b \in DiasOf(0..2, p, 20)}] : p \in 1..3}
SourceArgs == [n : 0..9, p : 1..5]

DIAOpsInit ==
    \/ Called("Zip", ZipArgs) \/ Called("ZipWindow", ZipWindowArgs) \/ Called("ZipWithIndex", OneDia)
    \/ Called("Window", WindowArgs) \/ Called("DisjointWindow", WindowArgs)
    \/ Called("Rebalance", OneDia) \/ Called("Concat", TwoDias) \/ Called("Sources", SourceArgs)
    \/ Called("OneFactor", [n : 2..9])

CallZip == Return("Zip") /\ out' = <<[equal |-> D!ZipEqual(arg.files), cut |-> D!ZipCut(arg.files),
                                      pad |-> D!ZipPad(arg.files), no |-> D!ZipNoRebalance(arg.files)]>>
CallZipWindow == Return("ZipWindow") /\ out' = <<[equal |-> D!ZipWindow(arg.files, arg.windows),
                                                  cut |-> D!ZipWindowCut(arg.files, arg.windows),
                                                  pad |-> D!ZipWindowPad(arg.files, arg.windows)]>>
CallZipWithIndex == Return("ZipWithIndex") /\ out' = <<D!ZipWithIndexNode(arg.file)>>
CallWindow == Return("Window") /\ out' = <<D!OverlapWindowNode(arg.file, arg.k, arg.viaFile)>>
CallDisjointWindow == Return("DisjointWindow") /\ out' = <<D!DisjointWindowNode(arg.file, arg.k, arg.viaFile)>>
CallRebalance == Return("Rebalance") /\ out' = <<D!RebalanceNode(arg.file)>>
CallConcat == Return("Concat") /\ out' = <<D!ConcatNode(arg.files)>>
CallSources == Return("Sources") /\ out' = <<[generate |-> D!GenerateNode(arg.n, arg.p),
                                              distribute |-> D!DistributeNode(D!Upto(arg.n), arg.p),
                                              own |-> D!ConcatToDIANode(D!DistributeNode(D!Upto(arg.n), arg.p))]>>
\* the peers of all hosts, in every round
CallOneFactor ==
    /\ Return("OneFactor")
    /\ out' = <<[r \in 0..(D!CalcOneFactorSize(arg.n) - 1) |-> [p \in 0..(arg.n - 1) |-> D!CalcOneFactorPeer(r, p, arg.n)]]>>
DIAOpsNext == CallZip \/ CallZipWindow \/ CallZipWithIndex \/ CallWindow \/ CallDisjointWindow
              \/ CallRebalance \/ CallConcat \/ CallSources \/ CallOneFactor

----------------------------------------------------------------------------
Row(a, b, i) == <<IF i <= Len(a) THEN a[i] ELSE D!Padding, IF i <= Len(b) THEN b[i] ELSE D!Padding>>
\* Zip pairs the items of equal index of the whole inputs, however these are
\* distributed over the workers (zip.hpp, DoScatter): it dies exactly when the
\* sizes differ, cut to the shorter or padded to the longer input otherwise.
ZipsByIndex ==
    Returned("Zip") =>
        LET a == All(arg.files[1])
            b == All(arg.files[2])
            rows(n) == [i \in 1..n |-> Row(a, b, i)]
        IN /\ res.equal.ok <=> Len(a) = Len(b)
           /\ res.equal.ok => All(res.equal.out) = rows(Len(a))
           /\ All(res.cut.out) = rows(D!SmallerOf(Len(a), Len(b)))
           /\ All(res.pad.out) = rows(D!LargerOf(Len(a), Len(b)))
           /\ res.no.ok => All(res.no.out) = rows(Len(a))

Window(a, k, i) == [j \in 1..k |-> IF (i - 1) * k + j <= Len(a) THEN a[(i - 1) * k + j] ELSE D!Padding]
\* ZipWindow pairs the i-th windows of the whole inputs; no window is torn
\* between two workers.  Without padding it succeeds when every input consists
\* of whole windows.
ZipsWindows ==
    Returned("ZipWindow") =>
        LET a == All(arg.files[1])
            b == All(arg.files[2])
            k == arg.windows
            na == D!CeilDiv(Len(a), k[1])
            nb == D!CeilDiv(Len(b), k[2])
            rows(n) == [i \in 1..n |-> <<Window(a, k[1], i), Window(b, k[2], i)>>]
        IN /\ All(res.pad.out) = rows(D!LargerOf(na, nb))
           /\ res.equal.ok => na = nb /\ All(res.equal.out) = rows(na)
           /\ res.cut.ok => All(res.cut.out) = rows(D!SmallerOf(na, nb))
           /\ (Len(a) % k[1] = 0 /\ Len(b) % k[2] = 0) => res.cut.ok /\ (res.equal.ok <=> na = nb)

Fulls(r) == All([w \in DOMAIN r |-> r[w].full])
Partials(r) == All([w \in DOMAIN r |-> r[w].partial])
\* Window emits every window of k consecutive items once, with its rank, also
\* those that span several workers, some of them without items; then the
\* incomplete ones at the end.
OverlapWindows ==
    Returned("Window") =>
        LET a == All(arg.file)
            n == Len(a)
            m == D!SmallerOf(n, arg.k - 1)
        IN /\ Fulls(res) = [i \in 1..(n - arg.k + 1) |-> <<i - 1, SubSeq(a, i, i + arg.k - 1)>>]
           /\ Partials(res) = [i \in 1..m |-> <<n - m + i - 1, SubSeq(a, n - m + i, n)>>]

\* Window(DisjointTag) cuts the whole input into windows of k items, with the
\* index of their first item, and one incomplete window at the end.
DisjointWindows ==
    Returned("DisjointWindow") =>
        LET a == All(arg.file)
            n == Len(a)
            m == n \div arg.k
        IN /\ Fulls(res) = [i \in 1..m |-> <<(i - 1) * arg.k, SubSeq(a, (i - 1) * arg.k + 1, i * arg.k)>>]
           /\ Partials(res) = IF m * arg.k = n THEN <<>> ELSE <<<<m * arg.k, SubSeq(a, m * arg.k + 1, n)>>>>

\* Rebalance keeps the order of the items and leaves no worker with more than
\* one item above the smallest share; ZipWithIndex numbers them consecutively.
RebalancesInOrder ==
    /\ Returned("Rebalance") =>
           /\ All(res) = All(arg.file)
           /\ \A w \in DOMAIN res : Len(res[w]) - (Len(All(res)) \div Len(res)) \in 0..1
    /\ Returned("ZipWithIndex") => All(res) = [i \in DOMAIN All(arg.file) |-> <<All(arg.file)[i], i - 1>>]

\* Generate, Distribute and ConcatToDIA: every index of the range belongs to
\* exactly one worker, in order; the partition found for an index is the one that
\* holds it.
SourcesCoverRange ==
    Returned("Sources") =>
        /\ All(res.generate) = [i \in 1..arg.n |-> i - 1]
        /\ All(res.distribute) = D!Upto(arg.n) /\ All(res.own) = D!Upto(arg.n)
        /\ \A k \in 0..(arg.n - 1) :
               D!RangeContains(D!CalculateLocalRange(arg.n, arg.p, D!CalculatePartition(arg.n, arg.p, k)), k)

\* CalcOneFactorPeer: in every round hosts that are peers name each other, at most
\* one is its own peer and waits, and over the rounds any two meet exactly once.
PairsMeetOnce ==
    Returned("OneFactor") =>
        /\ \A r \in DOMAIN res : LET peer == res[r]
                               IN /\ \A p \in DOMAIN peer : peer[p] \in DOMAIN peer /\ peer[peer[p]] = p
                                  /\ Cardinality({p \in DOMAIN peer : peer[p] = p}) = arg.n % 2
        /\ \A p, q \in 0..(arg.n - 1) : p # q => Cardinality({r \in DOMAIN res : res[r][p] = q}) = 1

EvenlySpread(file) == Cardinality({Len(file[w]) : w \in DOMAIN file}) = 1
\* concat.hpp, "concatenates any number of DIAs to a single DIA": the first input
\* is followed by the second.
ConcatInOrder == Returned("Concat") => All(res) = All(arg.files[1]) \o All(arg.files[2])

\* Concat: no item is lost or doubled and the items of each input reach each
\* worker in order; the inputs are concatenated if every worker holds equally
\* many items of each.
ConcatKeepsItems ==
    Returned("Concat") =>
        /\ D!ToSet(All(res)) = D!ToSet(All(arg.files[1])) \cup D!ToSet(All(arg.files[2]))
        /\ Len(All(res)) = Len(All(arg.files[1])) + Len(All(arg.files[2]))
        /\ \A w \in DOMAIN res : \A i \in 1..(Len(res[w]) - 1) : res[w][i] < res[w][i + 1]
        /\ EvenlySpread(arg.files[1]) /\ EvenlySpread(arg.files[2]) => ConcatInOrder

(***************************************************************************)
(* SortStable with any samples the workers may have drawn.                 *)
(***************************************************************************)
O == INSTANCE SortMerge

Spreads(n, p) == {c \in [0..p -> 0..n] : c[0] = 0 /\ c[p] = n /\ \A i \in 1..p : c[i - 1] <= c[i]}
\* four items of two values, spread over up to four workers
SortInputs == UNION {{O!Numbered([w \in 1..p |-> SubSeq(s, c[w - 1] + 1, c[w])]) : s \in [1..4 -> 0..1], c \in Spreads(4, p)} : p \in 2..4}
SamplesOf(items) ==
    {f \in [DOMAIN items -> UNION {O!PickSamples(items[w], 2) : w \in DOMAIN items}] :
        \A w \in DOMAIN items : f[w] \in O!PickSamples(items[w], 2)}
SortCalls == [items : SortInputs, cap : {1, 2}]
SortInit == Called("Sort", SortCalls)
CallSort ==
    /\ Return("Sort")
    /\ \E f \in SamplesOf(arg.items) :
           out' = <<O!SortNode(arg.items, [w \in DOMAIN arg.items |-> O!SetToSortSeq(f[w], O!LessSampleIndex)], arg.cap, 2)>>

\* SortStable: read worker by worker, the output is the input in the order of
\* its values, with equal items in their original order, whatever samples were
\* drawn and however often the splitters repeat; so no item is put into the
\* writer that does not exist when the workers are no power of two.
SortsStably ==
    Returned("Sort") =>
        O!FlattenSeq(res) = O!SortSeq(O!FlattenSeq(arg.items), O!LessSampleIndex)


(***************************************************************************)
(* DIAs of up to four items on up to three workers, empty ones included,   *)
(* behind chains of up to three local operations.                          *)
(***************************************************************************)

Pieces == UNION {[1..n -> {1, 2, 5}] : n \in 0..2}
ActionDias == {<<a>> : a \in Pieces} \cup {<<a, b>> : a, b \in Pieces} \cup {<<a, <<>>, b>> : a, b \in Pieces}
Chains == UNION {[1..n -> {"Map", "Filter", "FlatMap"}] : n \in 0..3}
Functions2 == {"sum", "min", "max", "last"}
ActionCalls ==
    [what : {"collect"}, dia : {<<a, b>> : a \in Pieces, b \in {<<2, 5>>, <<>>}}, stack : Chains]
        \cup [what : {"reduce"}, dia : ActionDias, f : Functions2, init : {<<>>, <<3>>}]
CallAction ==
    /\ Return("Action")
    /\ out' = <<IF arg.what = "collect"
                THEN [all |-> D!AllGatherNode(arg.dia, arg.stack), size |-> D!SizeNode(arg.dia, arg.stack),
                      print |-> D!PrintNode(arg.dia, arg.stack), cached |-> D!CacheNode(arg.dia, arg.stack),
                      few |-> UNION {D!BernoulliSample(arg.dia[w], {0, 1, 3}) : w \in DOMAIN arg.dia}]
                ELSE [one |-> D!AllReduceNode(arg.f, arg.dia, arg.init), total |-> D!Sum(arg.dia, arg.init),
                      sums |-> [i \in BOOLEAN |-> D!PrefixSumNode(arg.f, arg.dia, IF arg.init = <<>> THEN 0 ELSE arg.init[1], i)],
                      least |-> D!MinNode(arg.dia, arg.init), most |-> D!MaxNode(arg.dia, arg.init)]>>

\* each local operation applied to the whole sequence, one after the other
OneByOne(items, stack) ==
    D!FoldLeft(LAMBDA s, lop : D!FlattenSeq([i \in DOMAIN s |-> D!Emitted(lop, s[i])]), items, stack)
\* Map, Filter, FlatMap and the actions behind them: an item that goes through
\* the whole chain before the next one, on every worker on its own, gives what
\* the operations give one after the other on the DIA; AllGather brings it to all
\* workers, Print to worker 0, Size counts it, EqualToDIA distributes it again.
FusionKeepsContent ==
    Returned("Action") /\ arg.what = "collect" =>
        LET content == OneByOne(D!FlattenSeq(arg.dia), arg.stack)
        IN /\ \A w \in DOMAIN arg.dia : res.all[w] = content
           /\ res.print = content /\ res.size = Len(content) /\ D!FlattenSeq(res.cached) = content
           /\ \A p \in 1..4 : D!FlattenSeq(D!EqualToDIA(content, p)) = content
           /\ \A s \in res.few : \E w \in DOMAIN arg.dia : \E K \in SUBSET DOMAIN arg.dia[w] :
                  s = [k \in 1..Cardinality(K) |-> arg.dia[w][CHOOSE i \in K : Cardinality({j \in K : j < i}) = k - 1]]

IsReduction == Returned("Action") /\ arg.what = "reduce"
EveryWorkerHasItems == \A w \in DOMAIN arg.dia : arg.dia[w] # <<>>

\* AllReduce, Sum, Min, Max (dia.hpp, "computes the reduction sum of all elements
\* globally"): the reduction of all items in the order of the DIA, with the
\* initial value in front, once.
ReducesAll ==
    IsReduction =>
        LET all == arg.init \o D!FlattenSeq(arg.dia)
            ofAll(f) == D!FoldLeft(LAMBDA a, b : D!Reduce(f, a, b), all[1], Tail(all))
        IN all # <<>> =>
           res.one = ofAll(arg.f) /\ res.total = ofAll("sum") /\ res.least = ofAll("min") /\ res.most = ofAll("max")

\* AllReduce, Sum, Min, Max: so it is if every worker has an item.
ReducesAllOnce == IsReduction /\ EveryWorkerHasItems => ReducesAll

\* PrefixSum, ExPrefixSum (dia.hpp, "any associative function"): every item is
\* replaced by the reduction of all items up to it, or in front of it, in the
\* order of the DIA over all workers.
PrefixSumsAll ==
    IsReduction =>
        LET all == D!FlattenSeq(arg.dia)
            init == IF arg.init = <<>> THEN 0 ELSE arg.init[1]
            upto(n) == D!FoldLeft(LAMBDA a, b : D!Reduce(arg.f, a, b), init, SubSeq(all, 1, n))
        IN \A i \in BOOLEAN : D!FlattenSeq(res.sums[i]) = [n \in DOMAIN all |-> upto(IF i THEN n ELSE n - 1)]

\* PrefixSum, ExPrefixSum: so it is, with empty workers too, if ValueType() is
\* neutral on both sides, and if it is so on the left only, with none.
PrefixSumsInOrder ==
    IsReduction /\ (arg.f \in {"sum", "max"} \/ (arg.f = "last" /\ EveryWorkerHasItems)) => PrefixSumsAll

ActionInit == Called("Action", ActionCalls)

(***************************************************************************)
(* The bit codes and the operations by key on small inputs.                *)
(***************************************************************************)
K == INSTANCE KeyedOps

\* ---- codes: up to three increasing hashes around the limits of a word
CodedHashes == {0, 1, 7, 8, 30, 62, 200, 255}
CodeCalls ==
    [pairs : UNION {{[i \in 1..n |-> [hash |-> h[i], count |-> c[i]]] :
                        h \in {f \in [1..n -> CodedHashes] : \A i \in 1..(n - 1) : f[i] < f[i + 1]}, c \in [1..n -> {0, 3}]} : n \in 0..3},
     b : {3, 8}]
CodesInit == Called("Codes", CodeCalls)
CallCodes == Return("Codes") /\ out' = <<K!ReadPairs(K!NewReader(K!WritePairs(arg.pairs, arg.b, 2)), arg.b, 2)>>

\* What a Golomb and delta coded stream of hashes with counts is read back as
\* is what was written, whatever the alignment of the codes to words, and the
\* padding of the last word is not read as a further hash.
CodesRoundTrip == Returned("Codes") => res = arg.pairs

\* ---- detection: hashes of two or three workers
DetectCalls == {h \in UNION {[1..p -> UNION {[1..n -> {0, 3, 17}] : n \in 0..2}] : p \in 2..3} : K!TotalLen(h) > 0}
DetectInit == Called("Duplicates", DetectCalls)
CallDetect == Return("Duplicates") /\ out' = <<K!FindNonDuplicates(arg)>>

OnlyOn(w, h) == \A u \in DOMAIN arg \ {w} : h \notin K!Reduced(arg, u)
\* duplicate_detection.hpp, "Identifies all hashes which occur on only a single
\* worker".
IdentifiesAllHashes ==
    Returned("Duplicates") => \A w \in DOMAIN arg : \A h \in K!Reduced(arg, w) : OnlyOn(w, h) => h \in res[w]

\* FindNonDuplicates: a hash is told to a worker only if no other worker has it,
\* so nothing that has to be reduced stays where it is; and every such hash is
\* told, if it is not 0, the initial value of this_item.
FindsNonDuplicates ==
    Returned("Duplicates") =>
        \A w \in DOMAIN arg : \A h \in K!Reduced(arg, w) :
            /\ h \in res[w] => OnlyOn(w, h)
            /\ OnlyOn(w, h) /\ h # 0 => h \in res[w]

\* ---- operations by key: keys 0..2 of up to n items, spread over p workers
KeySpreads(n, p) == {c \in [0..p -> 0..n] : c[0] = 0 /\ c[p] = n /\ \A i \in 1..p : c[i - 1] <= c[i]}
KeyedInputs(n, p) == {K!Numbered([w \in 1..p |-> SubSeq(s, c[w - 1] + 1, c[w])]) : s \in [1..n -> 0..2], c \in KeySpreads(n, p)}
AllKeys(items) == K!ToSet(K!FlattenSeq(items))
KeysIn(items) == {x.v : x \in AllKeys(items)}

GroupCalls == [items : KeyedInputs(4, 2), full : {{}, {1, 2, 3}}, degree : {2, 4}, detect : BOOLEAN]
GroupInit == Called("GroupByKey", GroupCalls)
CallGroupByKey == Return("GroupByKey") /\ out' = <<K!GroupByNode(arg.items, arg.full, arg.degree, arg.detect)>>

\* dia.hpp on GroupByKey, "all elements of one key will be processed according to
\* the GroupByFunction": each key is given to it once, on one worker, with all
\* its items.
GroupsAllKeys ==
    Returned("GroupByKey") =>
        LET calls == {<<w, i>> \in (DOMAIN res) \X (1..4) : i <= Len(res[w])}
        IN /\ \A w \in DOMAIN res : res[w] # K!Died
           /\ {<<k, {x \in AllKeys(arg.items) : x.v = k}>> : k \in KeysIn(arg.items)}
              = {<<res[c[1]][c[2]][1], K!ToSet(res[c[1]][c[2]][2])>> : c \in calls}
           /\ Cardinality(calls) = Cardinality(KeysIn(arg.items))

\* GroupByKey: so it is, wherever the location detection put the key and however
\* often memory was exceeded, if the files of a worker are merged at once.
GroupsByKey == Returned("GroupByKey") /\ Cardinality(arg.full) < arg.degree => GroupsAllKeys

IndexCalls == [items : KeyedInputs(2, 2) \cup KeyedInputs(3, 3), full : {{}, {1, 2}}, size : {3, 5}]
IndexInit == Called("GroupToIndex", IndexCalls)
CallGroupToIndex == Return("GroupToIndex") /\ out' = <<K!GroupToIndexNode(arg.items, arg.full, arg.size)>>

\* GroupToIndex: the output has one element for each index, in order: the
\* group of the items with this key, or the neutral element.
GroupsToIndex ==
    Returned("GroupToIndex") =>
        LET all == K!FlattenSeq(res)
        IN /\ Len(all) = arg.size
           /\ \A i \in 1..arg.size :
                 IF i - 1 \in KeysIn(arg.items)
                 THEN all[i][1] = i - 1 /\ K!ToSet(all[i][2]) = {x \in AllKeys(arg.items) : x.v = i - 1}
                 ELSE all[i] = K!Neutral

JoinCalls == [a : KeyedInputs(3, 2), b : KeyedInputs(1, 2) \cup {K!Numbered(<<<<1, 1>>, <<0>>>>), K!Numbered(<<<<0, 1>>, <<1, 1>>>>)}, capacity : {1, 2}, detect : BOOLEAN]
JoinInit == Called("InnerJoin", JoinCalls)
CallInnerJoin == Return("InnerJoin") /\ out' = <<K!JoinNode(arg.a, arg.b, arg.capacity, 2, arg.detect)>>

\* InnerJoin: every pair of items with equal keys is joined exactly once,
\* whichever groups fit into memory and wherever equal keys were brought.
JoinsAllPairs ==
    Returned("InnerJoin") =>
        LET pairs == {xy \in AllKeys(arg.a) \X AllKeys(arg.b) : xy[1].v = xy[2].v}
            all == K!FlattenSeq(res)
        IN K!ToSet(all) = pairs /\ Len(all) = Cardinality(pairs)

ReduceCalls == [items : KeyedInputs(4, 2) \cup KeyedInputs(3, 3), detect : BOOLEAN]
ReduceInit == Called("ReduceByKey", ReduceCalls)
CallReduceByKey == Return("ReduceByKey") /\ out' = <<K!ReduceNode(arg.items, arg.detect)>>

\* ReduceByKey: one result for each key, into which all items of the key are
\* reduced, although duplicate detection leaves some keys where they are.
ReducesByKey ==
    Returned("ReduceByKey") =>
        /\ UNION {res[w] : w \in DOMAIN res} = {<<k, {x.g : x \in {y \in AllKeys(arg.items) : y.v = k}}>> : k \in KeysIn(arg.items)}
        /\ \A v, w \in DOMAIN res : v # w => \A e \in res[v], f \in res[w] : e[1] # f[1]

ToIndexCalls == [items : KeyedInputs(3, 2) \cup KeyedInputs(2, 3), size : {3, 8}, skip : BOOLEAN, nk : {0, 1}, limit : {1, 9}, consume : BOOLEAN]
ToIndexInit == Called("ReduceToIndex", ToIndexCalls)
CallReduceToIndex ==
    /\ Return("ReduceToIndex")
    /\ out' = <<K!ReduceToIndexNode(arg.items, arg.size, arg.skip, arg.nk, arg.limit, arg.consume)>>

\* dia.hpp on ReduceToIndex, "has the reduced element with key i in position i":
\* one element for each index in order, the reduction of all items with this key
\* or the neutral element.
ReducesEachIndex ==
    Returned("ReduceToIndex") =>
        /\ \A w \in DOMAIN res : res[w] # K!Died
        /\ K!FlattenSeq(res) = [i \in 1..arg.size |->
                IF i - 1 \in KeysIn(arg.items) THEN <<i - 1, {x.g : x \in {y \in AllKeys(arg.items) : y.v = i - 1}}>> ELSE <<arg.nk, {}>>]

\* ReduceToIndex: so it is, whatever key the neutral element has and into how
\* many ranges the table had to be split, if a split table is consumed.
ReducesToIndex == Returned("ReduceToIndex") /\ (arg.consume \/ arg.limit >= arg.size) => ReducesEachIndex

KeyedOpsInit == CodesInit \/ DetectInit \/ GroupInit \/ IndexInit \/ JoinInit \/ ReduceInit \/ ToIndexInit
KeyedOpsNext == CallCodes \/ CallDetect \/ CallGroupByKey \/ CallGroupToIndex \/ CallInnerJoin \/ CallReduceByKey \/ CallReduceToIndex
KeyedOpsSpec == KeyedOpsInit /\ [][KeyedOpsNext]_opVars
=============================================================================
