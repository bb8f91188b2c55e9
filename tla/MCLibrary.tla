----------------------------- MODULE MCLibrary -----------------------------
(***************************************************************************)
(* Thrill's operations, containers and examples, one at a time: op chooses *)
(* the part, Init its input.                                               *)
(***************************************************************************)
EXTENDS CheckDIAOps, CheckIO, CheckAlgorithms, CheckParts

OperationsInit == DIAOpsInit \/ SortInit \/ KeyedOpsInit \/ SuffixInit \/ IOInit
                    \/ ActionInit \/ SamplersInit \/ AlgorithmInit \/ BuffersInit \/ ContextInit
OperationsNext == DIAOpsNext \/ CallSort \/ KeyedOpsNext \/ SuffixNext \/ IONext
                    \/ CallAction \/ SamplersNext \/ CallAlgorithm \/ CallBuffers \/ CallContext

Init ==
    \/ OperationsInit /\ NoContainer /\ NoMachine /\ NoVFS
    \/ ContainersInit /\ NoMachine /\ NoVFS
    \/ MachinesInit /\ NoContainer /\ NoVFS
    \/ VFSInit /\ NoContainer /\ NoMachine
Next ==
    \/ OperationsNext /\ UNCHANGED <<containerVars, machineVars, vfsVars>>
    \/ ContainersNext /\ UNCHANGED <<machineVars, vfsVars>>
    \/ MachinesNext /\ UNCHANGED <<containerVars, vfsVars>>
    \/ VFSNext /\ UNCHANGED <<containerVars, machineVars>>
Spec == Init /\ [][Next]_<<opVars, containerVars, machineVars, vfsVars>> /\ ContainersFair /\ MachinesFair

----------------------------------------------------------------------------
\* Every distributed operation of api/ returns what it means for the whole array,
\* however its items are spread over the workers: by index (Zip, Window,
\* Rebalance, the sources), in order (Sort, and Concat of evenly spread inputs),
\* by key (groups that are merged at once, joins, reductions, by index into
\* tables that need not be kept split, and the detection of duplicates they send
\* codes for), reduced (with an item on every worker, or a neutral ValueType()),
\* and through every chain of fused local operations.
OperationsMatchArrays ==
    /\ ZipsByIndex /\ ZipsWindows /\ OverlapWindows /\ DisjointWindows
    /\ RebalancesInOrder /\ SourcesCoverRange /\ ConcatKeepsItems
    /\ SortsStably /\ FusionKeepsContent /\ ReducesAllOnce /\ PrefixSumsInOrder
    /\ GroupsByKey /\ GroupsToIndex /\ JoinsAllPairs /\ ReducesByKey /\ ReducesToIndex
    /\ FindsNonDuplicates


\* The containers between the operations neither lose nor double an item, in any
\* order of calls: the queue that mixes blocks of all workers, the reduce tables
\* while they grow, spill and flush, Merge's division of its inputs unless its
\* cuts cross, which those of two workers cannot, and the registers of
\* HyperLogLog.  The search for the cut of two workers never repeats itself.
ContainersKeepAll ==
    /\ MixKeepsSourceOrder /\ MixMissesNothing /\ MixNeverStarves
    /\ TableConservesValues /\ TableHoldsKeysOnce /\ TableKeepsPartitions
    /\ TableCountsExactly /\ TableRehashesInBounds /\ TablePostPhaseReduces
    /\ MergeIsBalanced /\ MergeSearchAdvances /\ MergeEnclosesTarget /\ RegistersExact

\* The algorithms agree with their definitions: the suffix arrays of the sorters
\* of the examples, each for the texts that CoversSortSuffixes,
\* PrefixesSortSuffixes and DiscardingSortsSuffixes name, their checker, LCP
\* arrays that are returned, the sorters of common/ and its heap (without erase),
\* the neighbours of an estimate that the bias table encloses, the rounds in which
\* all hosts meet, and samplers, whose every outcome is a possible sample.
AlgorithmsMatch ==
    /\ CoversSortSuffixes /\ PrefixesSortSuffixes /\ DiscardingSortsSuffixes
    /\ ChecksSuffixArray /\ LCPsAreRight
    /\ QuicksortsSort /\ RadixSorts /\ HeapKeepsOrder /\ PairsMeetOnce /\ NearestNeighbours
    /\ ReservoirsDrawFromAll /\ GrowingReservoirFull /\ SamplesWithoutReplacement /\ SampleSizesAgree

\* The layers below: the memory pools tile their arenas; the malloc tracker's
\* counters are exact between the batches of its threads, its peak and its limit
\* are unless two threads were in it at once; TCP connects the right peers; MPI
\* matches every request with its callback, and its collectives are exact where
\* the sum fits the type they name; the mock network forgets no message of a
\* connection to which none of its write callbacks adds a read; and the workers that start
\* have ranks and memory of their own.
LayersBelowHold ==
    /\ PoolSlotsTile /\ PoolArenasInBins /\ PoolArenaWholeAgain /\ ObjectPoolVerifies
    /\ TrackerCountsExactly /\ TrackerIsNear /\ TrackerPeakAndLimit
    /\ TcpPairsMatch /\ TcpNoFaultyState /\ MpiRequestsMatch /\ MpiCallsOnce /\ MpiQueuesMove
    /\ MockNoLostWakeup /\ MockCallsInOrder /\ MpiCollectivesExact
    /\ RanksPartition /\ MemoryIsShared /\ CountsOnce

\* Who waits is served: a reader of a MixStream gets to its end when the writers
\* close, and the hosts of a TCP network get connected, or one of them reports
\* why not.
WaitsEnd == MixReadingEnds /\ TcpConnects
=============================================================================
