----------------------------- MODULE CheckParts -----------------------------
(***************************************************************************)
(* The parts that keep state, each on its own.  First the containers that  *)
(* hold items between two operations: a File and its readers, the queue of *)
(* a MixStream, a reduce hash table with its post phase, the search of     *)
(* Merge over sorted Files, and the registers of HyperLogLog with the      *)
(* table its bias is taken from.  Then the layers below: the memory Pool,  *)
(* the malloc tracker, the construction of TCP groups, MPI's dispatcher    *)
(* and collectives, the mock network, and the start of the workers.  op    *)
(* says which part a behaviour is about; the others' variables stay Nil.   *)
(***************************************************************************)
EXTENDS Operation

VARIABLES
    fixed, items, w, sums, r, pos, batch, taken, drained, dead,
    script, written, writeClosed, mixQueue, readOpen, inner, rd, got, readers, consumed, stuck,
    t, hash, input, result, phase,
    files, left, width, ranks, found,
    hll, seen, inserts

fileVars == <<fixed, items, w, sums, r, pos, batch, taken, drained, dead>>
mixVars == <<script, written, writeClosed, mixQueue, readOpen, inner, rd, got, readers, consumed, stuck>>
tableVars == <<t, hash, input, result, phase>>
mergeVars == <<files, left, width, ranks, found>>
hllVars == <<hll, seen, inserts>>
containerVars == <<fileVars, mixVars, tableVars, mergeVars, hllVars>>

NoFile ==
    /\ fixed = Nil /\ items = Nil /\ w = Nil /\ sums = Nil /\ r = Nil
    /\ pos = Nil /\ batch = Nil /\ taken = Nil /\ drained = Nil /\ dead = Nil
NoMix ==
    /\ script = Nil /\ written = Nil /\ writeClosed = Nil /\ mixQueue = Nil /\ readOpen = Nil
    /\ inner = Nil /\ rd = Nil /\ got = Nil /\ readers = Nil /\ consumed = Nil
    /\ stuck = Nil
NoTable ==
    /\ t = Nil /\ hash = Nil /\ input = Nil /\ result = Nil /\ phase = Nil
NoMerge ==
    /\ files = Nil /\ left = Nil /\ width = Nil /\ ranks = Nil /\ found = Nil
NoHll == hll = Nil /\ seen = Nil /\ inserts = Nil

(***************************************************************************)
(* Blocks of two, then four bytes; items of one byte, of one that spans    *)
(* two Blocks and of one that spans three; a sink that fills up.           *)
(***************************************************************************)
F == INSTANCE Files WITH StartBlockSize <- 2, MaxBlockSize <- 5, Sizes <- {1, 3, 9},
                         MaxItems <- 4, SinkSizes <- {0, 10}, Prefetches <- {0, 5}, MaxBatches <- 2

\* WriteBinary with files of six to eleven bytes
WriteBinaryCalls == [sizes : UNION {[1..n -> {1, 3, 9}] : n \in 0..4}, limit : 6..11]
CallWriteBinary == Return("WriteBinary") /\ out' = <<F!WriteBinaryNode(arg.sizes, arg.limit)>>

(***************************************************************************)
(* Two sources; no Block at all, two items in one Block, or an item that   *)
(* fills three Blocks between two others; three readers one after another. *)
(***************************************************************************)
P(i, f, l) == <<i, f, l>>
MixScripts == {
    <<>>,
    << <<P(1, TRUE, TRUE), P(2, TRUE, TRUE)>> >>,
    << <<P(1, TRUE, TRUE), P(2, TRUE, FALSE)>>, <<P(2, FALSE, FALSE)>>,
       <<P(2, FALSE, TRUE), P(3, TRUE, TRUE)>> >> }
Q == INSTANCE MixBlockQueue WITH NumWorkers <- 2, Scripts <- MixScripts, MaxReaders <- 3

(***************************************************************************)
(* Two partitions.  The first salt spreads the keys, puts all into one     *)
(* partition, or lets them collide; the later salts tell any two keys      *)
(* apart sooner or later, as Hash128to64 does.                             *)
(***************************************************************************)
TableKeys == 0..3
Salted(f(_)) == [s \in 0..4 |-> [k \in TableKeys |-> IF s = 0 THEN f(k) ELSE (k \div 2^(s - 1)) + 2 * k]]
TableHashes == {Salted(LAMBDA k : k), Salted(LAMBDA k : 8 * k + 14), Salted(LAMBDA k : 16 * k + 8)}
T == INSTANCE ReduceTables WITH Keys <- TableKeys, HashFunctions <- TableHashes, NumPartitions <- 2,
        PerPartition <- 8, InitialItems <- 2, FillNum <- 1, FillDen <- 2, BlockItems <- 2,
        LimitBlocks <- 1, MaxInserts <- 4, MaxDepth <- 6

(***************************************************************************)
(* Two workers and two sorted DIAs, cut between the workers anywhere, and  *)
(* three workers with few items, for which the two cuts may cross.         *)
(***************************************************************************)
SortedSeq(n, z) == [i \in 1..n |-> IF i <= z THEN 0 ELSE 1]
Splits(s) == {<<SubSeq(s, 1, i), SubSeq(s, i + 1, Len(s))>> : i \in {0, Len(s) \div 3, Len(s)}}
SortedDias(n) == UNION {Splits(SortedSeq(n, z)) : z \in 0..n}
MergeTwo == {<<<<a[1], b[1]>>, <<a[2], b[2]>>>> : a \in SortedDias(1) \cup SortedDias(9), b \in SortedDias(8)}
MergeThree ==
    {<<<<<<>>, <<0, 0, 0>>>>, <<a, <<>>>>, <<<<1>>, b>>>> : a \in {<<>>, <<0>>, <<1>>}, b \in {<<>>, <<1>>, <<1, 1, 1>>}}
        \cup {<<<<<<0, 0>>, <<0, 0>>>>, <<a, <<0, 1>>>>, <<<<1, 1>>, <<1, 1, 1>>>>>> : a \in {<<0, 1>>, <<1>>}}
S == INSTANCE MergeSearch WITH NumInputs <- 2, MergeInputs <- MergeTwo \cup MergeThree

(***************************************************************************)
(* Two workers; seven-bit hashes, five of them the sparse prefix, eight    *)
(* dense registers; 0 and 64 have only zeroes behind their index, some     *)
(* share the index, the sparse prefix or both.  Tables of four to six      *)
(* estimates, of which the three nearest are taken.                        *)
(***************************************************************************)
L == INSTANCE HyperLogLog WITH left <- inserts, HashBits <- 7, RegisterBits <- 8, RegisterBytes <- 1, SparsePrecision <- 5,
        DensePrecision <- 3, Hashes <- {0, 1, 3, 20, 22, 64, 127}, Workers <- {1, 2}, MaxInserts <- 3
BiasTables == {<<2, 3, 5, 9>>, <<1, 2, 3, 6, 7>>, <<0, 4, 5, 6, 10, 11>>}
BiasCalls == [data : BiasTables, estimate : 0..11]
CallBias == Return("bias") /\ out' = <<L!knearestNeighbor(3, arg.data, arg.estimate)>>

NoContainer == NoFile /\ NoMix /\ NoTable /\ NoMerge /\ NoHll
ContainersInit ==
    \/ OnlyOp("files") /\ F!Init /\ NoMix /\ NoTable /\ NoMerge /\ NoHll
    \/ Called("WriteBinary", WriteBinaryCalls) /\ NoContainer
    \/ OnlyOp("mix") /\ Q!Init /\ NoFile /\ NoTable /\ NoMerge /\ NoHll
    \/ OnlyOp("table") /\ T!Init /\ NoFile /\ NoMix /\ NoMerge /\ NoHll
    \/ OnlyOp("merge") /\ S!MergeInit /\ NoFile /\ NoMix /\ NoTable /\ NoHll
    \/ OnlyOp("hll") /\ L!Init /\ NoFile /\ NoMix /\ NoTable /\ NoMerge
    \/ Called("bias", BiasCalls) /\ NoContainer

FileStep == op = "files" /\ F!Next /\ UNCHANGED <<opVars, mixVars, tableVars, mergeVars, hllVars>>
MixStep == op = "mix" /\ Q!Next /\ UNCHANGED <<opVars, fileVars, tableVars, mergeVars, hllVars>>
TableStep == op = "table" /\ T!Next /\ UNCHANGED <<opVars, fileVars, mixVars, mergeVars, hllVars>>
MergeStep == op = "merge" /\ S!Search /\ UNCHANGED <<opVars, fileVars, mixVars, tableVars, hllVars>>
HllStep == op = "hll" /\ L!Next /\ UNCHANGED <<opVars, fileVars, mixVars, tableVars, mergeVars>>

ContainersNext ==
    \/ FileStep \/ MixStep \/ TableStep \/ MergeStep \/ HllStep
    \/ (CallWriteBinary \/ CallBias) /\ UNCHANGED containerVars

\* A worker that has opened a reader reads on; the writers write and close.
ContainersFair ==
    /\ WF_mixVars(op = "mix" /\ Q!Reading)
    /\ \A s \in {0, 1} : WF_mixVars(op = "mix" /\ (Q!AppendBlock(s) \/ Q!Close(s)))

----------------------------------------------------------------------------
\* File and BlockReader: see ReadsInOrder.
FilesReadInOrder == op = "files" => F!ReadsInOrder
\* BlockWriter: see WellMarked.
BlocksWellMarked == op = "files" => F!WellMarked
\* BlockReader::GetItemBatch: see BatchIsExact.
BatchesAreExact == op = "files" => F!BatchIsExact
\* BlockWriter::PutSafe: see AllOrNothing.
PutsAllOrNothing == op = "files" => F!AllOrNothing

\* WriteBinary: unless an item exceeds the limit, the files together hold the
\* items in order, no file is larger than the limit, and an item that did not
\* fit into one file is in the next one, as a whole.
WritesBinaryWhole ==
    Returned("WriteBinary") /\ ~res.thrown =>
        LET itemBytes == [k \in DOMAIN arg.sizes |-> F!ItemBytes(k, arg.sizes[k])]
        IN /\ F!FlattenSeq(res.files) = F!FlattenSeq(itemBytes)
           /\ \A i \in DOMAIN res.files :
                  LET bytes == res.files[i]
                  IN /\ Len(bytes) <= arg.limit
                     /\ bytes # <<>> => bytes[1][2] = 1 /\ F!Last(bytes)[2] = arg.sizes[F!Last(bytes)[1]]

\* MixBlockQueueReader: see SourceOrder.
MixKeepsSourceOrder == op = "mix" => Q!SourceOrder
\* MixBlockQueueReader and the cache of its queues: see NothingMissing.
MixMissesNothing == op = "mix" => Q!NothingMissing
\* MixBlockQueueReader::PullBlock: see NeverStarves.
MixNeverStarves == op = "mix" => Q!NeverStarves
\* MixBlockQueueReader: see ReadingEnds.
MixReadingEnds == (op = "mix" /\ rd # Q!NoReader) ~> (op = "mix" /\ Q!AtEnd)

\* Reduce hash tables: see ValuesConserved.
TableConservesValues == op = "table" => T!ValuesConserved
\* Reduce hash tables: see EachKeyHeldOnce.
TableHoldsKeysOnce == op = "table" => T!EachKeyHeldOnce
\* Reduce hash tables: see InTheirPartition.
TableKeepsPartitions == op = "table" => T!InTheirPartition
\* Reduce hash tables: see CountersExact.
TableCountsExactly == op = "table" => T!CountersExact
\* ReduceProbingHashTable::GrowAndRehash: see RehashInBounds.
TableRehashesInBounds == op = "table" => T!RehashInBounds
\* ReduceByHashPostPhase, ReduceByIndexPostPhase: see PostPhaseReduces.
TablePostPhaseReduces == op = "table" => T!PostPhaseReduces

\* Merge: see MergedUnlessCrossed.
MergeIsBalanced == op = "merge" => S!MergedUnlessCrossed
\* Merge: see SearchOfTwoAdvances.
MergeSearchAdvances == op = "merge" => S!SearchOfTwoAdvances
\* Merge: see TargetEnclosed.
MergeEnclosesTarget == op = "merge" => S!TargetEnclosed

\* HyperLogLogRegisters: see SketchExact.
RegistersExact == op = "hll" => L!SketchExact
\* hyperloglog.cpp, "k-nearest neighbor interpolation": the neighbours are entries
\* of the table, and no other entry is nearer than one of them.
TakesNearest ==
    Returned("bias") =>
        LET all == 0..(Len(arg.data) - 1)
            Far(i) == L!Distance(arg.data[i + 1], arg.estimate)
        IN /\ res \subseteq all /\ Cardinality(res) = 3
           /\ \A i \in res, j \in all \ res : Far(i) <= Far(j)
\* estimateBias: so it is, if the estimate does not exceed the last entry of the
\* table, behind which the search would start (result() asks up to 5 * m).
NearestNeighbours == Returned("bias") /\ arg.estimate <= arg.data[Len(arg.data)] => TakesNearest

(***************************************************************************)
(* The layers below the data structures                                    *)
(***************************************************************************)
VARIABLES
    pool, object, live,
    cnt, tl, todo, hand, blocks, heap,
    shape, hostPhase, conn, timeouts, timers, backlog, accepted, wire, lost, faulty,
    mpi, called, posted,
    inbound, messages, watcher, watch, notify, at, added, calls, late

memVars == <<pool, object, live>>
trackVars == <<cnt, tl, todo, hand, blocks, heap>>
tcpVars == <<shape, hostPhase, conn, timeouts, timers, backlog, accepted, wire, lost, faulty>>
mpiVars == <<mpi, called, posted>>
mockVars == <<inbound, messages, watcher, watch, notify, at, added, calls, late>>
machineVars == <<memVars, trackVars, tcpVars, mpiVars, mockVars>>

NoMem == pool = Nil /\ object = Nil /\ live = Nil
NoTrack == cnt = Nil /\ tl = Nil /\ todo = Nil /\ hand = Nil /\ blocks = Nil /\ heap = Nil
NoTcp ==
    /\ shape = Nil /\ hostPhase = Nil /\ conn = Nil /\ timeouts = Nil /\ timers = Nil
    /\ backlog = Nil /\ accepted = Nil /\ wire = Nil /\ lost = Nil /\ faulty = Nil
NoMpi == mpi = Nil /\ called = Nil /\ posted = Nil
NoMock ==
    /\ inbound = Nil /\ messages = Nil /\ watcher = Nil /\ watch = Nil
    /\ notify = Nil /\ at = Nil /\ added = Nil /\ calls = Nil /\ late = Nil
NoMachine == NoMem /\ NoTrack /\ NoTcp /\ NoMpi /\ NoMock

(***************************************************************************)
(* Arenas of seven slots and requests of two, three and nine: the last is  *)
(* oversize, the others leave gaps that are too small.                     *)
(***************************************************************************)
M == INSTANCE MemPool WITH ArenaSlots <- 7, NumBins <- 4, MinFree <- 8, Requests <- {2, 3, 9}, MaxArenas <- 4,
                           ObjectSlots <- 2, FlagBits <- 4, KeepArenas <- 2, MaxLive <- 4
\* Two threads, a call of each or two of one: one allocation stays below the threshold.
H == INSTANCE MallocTracker WITH Threads <- {1, 2}, Threshold <- 2, Limit <- 4, HeapSize <- 4,
                                 AllocSizes <- {2, 5}, MaxCalls <- 2
\* Three hosts and one group; two hosts and two groups, where two attempts time out.
C == INSTANCE TcpConstruction WITH phase <- hostPhase, dead <- faulty, MaxDoublings <- 2,
        Shapes <- {[hosts |-> 3, groups |-> 1, maxLost |-> 0], [hosts |-> 2, groups |-> 2, maxLost |-> 2]}
\* Two peers, one request of a kind at a time.
N == INSTANCE MpiNet WITH Peers <- {1, 2}, Simultaneous <- 1, MaxPosted <- 3
\* Two messages and two reads of one connection, one of the other, a write of each.
W == INSTANCE MockNet WITH Conns <- {1, 2}, MaxMessages <- <<2, 1>>, MaxCallbacks <- <<2, 1>>, MaxWrites <- 1

\* three hosts; two bits of int, four bits of long
MpiCalls == [values : [1..3 -> {0, 1, 2, 5}], initial : {0, 1}, wide : BOOLEAN]
CallMpi ==
    /\ Return("MpiCollectives")
    /\ out' = <<IF arg.wide THEN N!CollectivesLong(arg.values, arg.initial)
                ELSE N!CollectivesInt(arg.values, arg.initial)>>

MachinesInit ==
    \/ (OnlyOp("pool") \/ OnlyOp("objects")) /\ M!Init /\ NoTrack /\ NoTcp /\ NoMpi /\ NoMock
    \/ OnlyOp("tracker") /\ H!Init /\ NoMem /\ NoTcp /\ NoMpi /\ NoMock
    \/ OnlyOp("tcp") /\ C!Init /\ NoMem /\ NoTrack /\ NoMpi /\ NoMock
    \/ OnlyOp("mpi") /\ N!Init /\ NoMem /\ NoTrack /\ NoTcp /\ NoMock
    \/ OnlyOp("mock") /\ W!Init /\ NoMem /\ NoTrack /\ NoTcp /\ NoMpi
    \/ Called("MpiCollectives", {a \in MpiCalls : a.wide \/ \A k \in 1..3 : a.values[k] < 4}) /\ NoMachine

MemStep ==
    /\ (op = "pool" /\ M!NextSlots) \/ (op = "objects" /\ M!NextObjects)
    /\ UNCHANGED <<opVars, trackVars, tcpVars, mpiVars, mockVars>>
TrackStep == op = "tracker" /\ H!Next /\ UNCHANGED <<opVars, memVars, tcpVars, mpiVars, mockVars>>
TcpStep == op = "tcp" /\ C!Next /\ UNCHANGED <<opVars, memVars, trackVars, mpiVars, mockVars>>
MpiStep == op = "mpi" /\ N!Next /\ UNCHANGED <<opVars, memVars, trackVars, tcpVars, mockVars>>
MockStep == op = "mock" /\ W!Next /\ UNCHANGED <<opVars, memVars, trackVars, tcpVars, mpiVars>>
MachinesNext == MemStep \/ TrackStep \/ TcpStep \/ MpiStep \/ MockStep \/ (CallMpi /\ UNCHANGED machineVars)

\* The network answers every connect(), and a host's dispatcher handles its events.
MachinesFair ==
    /\ WF_tcpVars(op = "tcp" /\ C!Network)
    /\ \A h \in 0..2 : WF_tcpVars(op = "tcp" /\ h < shape.hosts /\ C!HostStep(h))

----------------------------------------------------------------------------
\* mem::Pool: see SlotsTile.
PoolSlotsTile == op = "pool" => M!SlotsTile
\* mem::Pool: see InTheirBins.
PoolArenasInBins == op = "pool" => M!InTheirBins
\* mem::Pool: see WholeAgain.
PoolArenaWholeAgain == op = "pool" => M!WholeAgain
\* mem::Pool: see ReserveKept.
PoolKeepsReserve == [][op = "pool" => M!ReserveKept]_memVars
\* ObjectPool: see ObjectsVerify.
ObjectPoolVerifies == op = "objects" => M!ObjectsVerify

\* Malloc tracker: see CountersExact.
TrackerCountsExactly == op = "tracker" => H!CountersExact
\* Malloc tracker: see CurrentIsNear.
TrackerIsNear == op = "tracker" => H!CurrentIsNear
\* Malloc tracker: see PeakAndLimitRight.
TrackerPeakAndLimit == op = "tracker" => H!PeakAndLimitRight

\* tcp::Construction: see PairsMatch.
TcpPairsMatch == op = "tcp" => C!PairsMatch
\* tcp::Construction: see NoFaultyState.
TcpNoFaultyState == op = "tcp" => C!NoFaultyState
\* tcp::Construction: see AllDone.
TcpConnects == (op = "tcp") ~> (op = "tcp" /\ (C!AllDone \/ C!SomeoneThrew))

\* mpi::Dispatcher: see RequestsMatch.
MpiRequestsMatch == op = "mpi" => N!RequestsMatch
\* mpi::Dispatcher: see CalledOnce.
MpiCallsOnce == op = "mpi" => N!CalledOnce
\* mpi::Dispatcher: see QueuesMove.
MpiQueuesMove == op = "mpi" => N!QueuesMove

\* mock::Dispatcher: see NoLostWakeup.
MockNoLostWakeup == op = "mock" => W!NoLostWakeup
\* mock::Connection: see CallsInOrder.
MockCallsInOrder == op = "mock" => W!CallsInOrder

MpiWord == IF arg.wide THEN 16 ELSE 4
MpiUpto(k) == N!FoldLeft(+, 0, SubSeq(arg.values, 1, k))
\* group.hpp, "Calculate inclusive prefix sum".
MpiPrefixSums ==
    Returned("MpiCollectives") =>
        \A k \in 1..3 : res.prefix[k] = (MpiUpto(k) + arg.initial) % MpiWord
\* mpi::Group: the collectives return what the sums, minima and maxima over the
\* hosts are, in words of their type; PrefixSumPlus for long, which names
\* MPI_INT, if the sum of all values fits into an int.
MpiCollectivesExact ==
    Returned("MpiCollectives") =>
        LET v == arg.values
        IN /\ ~arg.wide \/ MpiUpto(3) < 4 => MpiPrefixSums
           /\ \A k \in 1..3 :
                 /\ res.exprefix[k] = (MpiUpto(k - 1) + arg.initial) % MpiWord
                 /\ res.plus[k] = MpiUpto(3) % MpiWord /\ res.first[k] = v[1]
                 /\ \A j \in 1..3 : res.least[k] <= v[j] /\ v[j] <= res.most[k]
                 /\ res.least[k] \in {v[j] : j \in 1..3} /\ res.most[k] \in {v[j] : j \in 1..3}

(***************************************************************************)
(* Up to three processes, with the same environment but for their rank,    *)
(* their workers per host and their cores: each runs Run, and the workers  *)
(* that start reduce their statistics.                                     *)
(***************************************************************************)
E == INSTANCE Workers

\* process k of n: its environment and its machine
Process(a, k) ==
    [net |-> a.net, die |-> a.die, blockSize |-> a.blockSize, ram |-> a.ram, rlimit |-> 40, physical |-> 50,
     local |-> a.local, offset |-> a.offset, workers |-> a.workers[k], omp |-> a.omp, slurmCpus |-> E!Unset,
     cores |-> a.cores[k], rank |-> IF a.mpi THEN E!Unset ELSE k - 1, slurmRank |-> E!Unset,
     hostlist |-> IF a.mpi \/ a.n = 1 THEN E!Unset ELSE a.n,
     hasMpi |-> TRUE, mpiSize |-> IF a.mpi THEN a.n ELSE 0, mpiRank |-> k - 1]
Alone ==
    [net : {"mock", "local"}, mpi : {FALSE}, n : {1}, die : {1, 2}, blockSize : {0, 4},
     ram : {E!Unset, E!Bad, 20}, local : {E!Unset, 0, 1, 3}, offset : {E!Unset, E!Bad, 1}, omp : {E!Bad, 2},
     workers : [1..1 -> {E!Unset, 0, 3}], cores : [1..1 -> {1, 8}]]
Together(n) ==
    [net : {"", "tcp", "mpi"}, mpi : BOOLEAN, n : {n}, die : {E!Unset}, blockSize : {E!Unset}, ram : {E!Unset, 30},
     local : {E!Unset}, offset : {E!Unset}, omp : {E!Bad}, workers : [1..n -> {E!Unset, 2}], cores : [1..n -> {1, 3}]]
\* what host h and process k did, for the statistics
HostDid(h) == [blocks |-> 5 + h, tx |-> 10 * (h + 1)]
ProcessDid(k) == [io |-> 100 * k, alloc |-> 7 * k]

ContextInit ==
    \/ Called("Run", Alone \cup {a \in Together(2) \cup Together(3) : a.mpi = (a.net = "mpi") \/ a.net = ""})
    \/ Called("RunLocalTests", {E!Unset, E!Bad, 0, 1, 6, 24})
CallContext ==
    \/ /\ Return("Run")
       /\ LET started == UNION {{<<k, c>> : c \in E!Run(Process(arg, k))} : k \in 1..arg.n}
          IN out' = <<[started |-> started,
                       stats |-> E!FoldSet(LAMBDA kc, s : E!PlusStats(s, E!StatsOf(kc[2], HostDid(kc[2].host), ProcessDid(kc[1]), kc[2].rank)),
                                           [runtime |-> 0, blocks |-> 0, tx |-> 0, io |-> 0, alloc |-> 0], started)]>>
    \/ Return("RunLocalTests") /\ out' = <<E!RunLocalTests(arg)>>

StartedBy(k) == {kc[2] : kc \in {x \in res.started : x[1] = k}}

\* context.hpp, "Global rank of this worker among all other workers in the system":
\* when all processes start, every worker has a rank of its own and all count the
\* same workers, by whichever network they found each other.
RanksAreGlobal ==
    Returned("Run") /\ (\A k \in 1..arg.n : StartedBy(k) # {}) =>
        /\ {kc[2].rank : kc \in res.started} = 0..(Cardinality(res.started) - 1)
        /\ \A kc \in res.started : kc[2].workers = Cardinality(res.started)
\* Run, Context::my_rank: so it is, if all processes have the same number of
\* workers, which they may derive from their hardware; and workers of a process
\* are pinned to different cores.
RanksPartition ==
    Returned("Run") =>
        /\ (\A k, l \in 1..arg.n : Cardinality(StartedBy(k)) = Cardinality(StartedBy(l))) => RanksAreGlobal
        /\ \A k \in 1..arg.n : \A c, d \in StartedBy(k) : c.core = d.core => c = d

\* MemoryConfig: however many hosts a process runs, their block pools and the
\* limits of their workers together leave a third of the memory it was given.
MemoryIsShared ==
    Returned("Run") =>
        \A k \in 1..arg.n :
            LET cs == StartedBy(k)
                ram == IF arg.ram > 0 THEN arg.ram ELSE 30
                pools == E!MapThenSumSet(LAMBDA c : c.pool, {c \in cs : c.worker = 0})
            IN pools + E!MapThenSumSet(LAMBDA c : c.limit, cs) <= 2 * (ram \div 3)

\* Launch: the summary counts blocks and traffic once per host and the disk's
\* once per process, which hosts of a local network share; RunLocalTests runs
\* every network that the limit of workers allows, that of one worker always.
CountsOnce ==
    /\ Returned("Run") /\ res.started # {} =>
        LET hosts == {kc[2].host : kc \in res.started}
            processes == {kc[1] : kc \in res.started}
        IN /\ res.stats.tx = E!MapThenSumSet(LAMBDA h : HostDid(h).tx, hosts)
           /\ res.stats.blocks = E!MapThenSumSet(LAMBDA h : HostDid(h).blocks, hosts)
           /\ res.stats.io = E!MapThenSumSet(LAMBDA k : ProcessDid(k).io, processes)
           /\ res.stats.alloc = E!Max({ProcessDid(k).alloc : k \in processes})
    /\ Returned("RunLocalTests") /\ arg > 0 => <<1, 1>> \in res /\ \A hw \in res : hw[1] * hw[2] <= arg
=============================================================================
