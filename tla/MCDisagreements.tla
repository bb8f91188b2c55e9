--------------------------- MODULE MCDisagreements ---------------------------
(***************************************************************************)
(* Where the code does not do what its documentation, comments or          *)
(* assertions say.  The agenda lists such statements; each is put to the   *)
(* model of its code, on the smallest instance found, and when the code    *)
(* has refuted it the next one is called.  A behaviour that gets to the    *)
(* end of the agenda refutes them all, one after the other.                *)
(***************************************************************************)
EXTENDS MCLibrary

VARIABLES
    asked,   \* the number on the agenda of the statement in question
    case, callNr, code, reg, slot, gen, shmem, counters, generation, waiting, step, chan, results,
    program, size, graph, state, counter, mem, handles, uses, keeps, origin, scopes, stages, toporder, outcome,
    bpPool, exist, handle, dying, pins, inMem, em, lru, writing, swapped, reading, reads, ram, requested, bytes,
    pinnedBytes, held, pc, blk, need, goal, retry

flowVars == <<case, callNr, code, reg, slot, gen, shmem, counters, generation, waiting, step, chan, results>>
stageVars == <<program, size, graph, state, counter, mem, handles, uses, keeps, origin, scopes, stages, toporder, outcome>>
poolVars == <<bpPool, exist, handle, dying, pins, inMem, em, lru, writing, swapped, reading, reads, ram, requested, bytes,
              pinnedBytes, held, pc, blk, need, goal, retry>>
\* the parts of MCLibrary that keep state and no statement is about
idleVars == <<fileVars, mixVars, tableVars, hllVars, memVars, tcpVars, mpiVars, sysVars>>

(***************************************************************************)
(* The instances: a buffer of two bytes; parts of two bytes; three         *)
(* workers; two threads and three calls; one connection; three hosts; a    *)
(* Union with a Collapse below it, and one with three actions; one worker  *)
(* that reads one external block.                                          *)
(***************************************************************************)
Crossing == <<<<<<>>, <<0, 0, 0>>>>, <<<<>>, <<>>>>, <<<<1>>, <<>>>>>>
Stalling == <<<<<<0>>, <<0, 0, 0>>>>, <<<<1, 1>>, <<1, 1>>>>, <<<<1, 1>>, <<1, 1>>>>>>
BelowCollapse == <<"source", "source", "union", "collapse", "action">>
ThreeActions == <<"source", "source", "union", "action", "action", "action">>
NoRam == [k \in {"source", "union", "collapse", "action"} |-> 0]

Filter == INSTANCE Filters WITH Kinds <- {"gz"}, BufferSize <- 2, Inside <- 3, WriteSizes <- {3}, MaxWritten <- 6,
              Archives <- {}, ReadSizes <- {}
S3 == INSTANCE S3Files WITH ObjectSize <- 0, Ranges <- {}, ReadSizes <- {}, MaxCallbacks <- 0, PartSize <- 2,
          WriteSizes <- {3}, MaxWritten <- 3, Buckets <- {}, PageSize <- 1
Merge == INSTANCE MergeSearch WITH NumInputs <- 2, MergeInputs <- {Crossing}
Tracker == INSTANCE MallocTracker WITH Threads <- {1, 2}, Threshold <- 2, Limit <- 4, HeapSize <- 0, AllocSizes <- {3}, MaxCalls <- 3
Mock == INSTANCE MockNet WITH Conns <- {1}, MaxMessages <- <<1>>, MaxCallbacks <- <<1>>, MaxWrites <- 1
Flow == INSTANCE FlowControl WITH at <- callNr, goal <- gen, counter <- counters,
            Cases <- {[hosts |-> 3, threads |-> 1, buffered |-> TRUE, calls |-> <<[op |-> "Reduce", root |-> 1]>>]}
Stages == INSTANCE StageBuilder WITH held <- handles, Programs <- {BelowCollapse}, MaxKeeps <- 2, MaxDrops <- 0, Consume <- FALSE,
              Nested <- TRUE, Asserts <- TRUE, MemLimit <- 1, PreOpMemUse <- NoRam, ExecuteMemUse <- NoRam, PushDataMemUse <- NoRam
Blocks == INSTANCE BlockPool WITH pool <- bpPool, Worker <- {1}, Block <- {1}, NoBlock <- 0, ExtBlock <- {1}, Size <- <<1>>,
              SoftLimit <- 0, HardLimit <- 0, Reserve <- {1}, MaxRetry <- 1, MaxPins <- 1, OverlappingPins <- FALSE

(***************************************************************************)
(* The agenda: which model is asked, and with which arguments              *)
(***************************************************************************)
Asked(name, args) == [op |-> name, args |-> args, machine |-> FALSE]
Machine(name) == [op |-> name, args |-> {Nil}, machine |-> TRUE]
Text(chars) == [t |-> chars, packed |-> FALSE]
OneLine == <<Plain(<<1>>), Plain(<<1>>)>>
Agenda == <<
    Asked("Concat", [files : {<<<<<<11, 12, 13>>, <<14>>>>, <<<<>>, <<>>>>>>}]),
    Asked("Action", [what : {"reduce"}, dia : {<<<<1>>, <<>>>>, <<<<>>, <<1>>>>}, f : {"sum"}, init : {<<>>, <<3>>}]),
    Asked("Action", [what : {"reduce"}, dia : {<<<<1>>, <<2>>>>}, f : {"min"}, init : {<<3>>}]),
    Asked("GroupByKey", [items : {K!Numbered(<<<<0, 0, 0, 0>>, <<>>>>)}, full : {{1, 2, 3}}, degree : {2}, detect : {FALSE}]),
    Asked("ReduceToIndex", [items : {K!Numbered(<<<<0, 1>>, <<2>>>>)}, size : {8}, skip : {FALSE}, nk : {0}, limit : {1}, consume : {FALSE}]),
    Asked("Duplicates", {<<<<0>>, <<>>>>, <<<<0>>, <<3>>>>}),
    Asked("ReadLines", [fs : {OneLine}, p : {2}, rs : {3}]),
    Asked("ReadLines", [fs : {<<Plain(<<1>>)>>}, p : {2}, rs : {3}]),
    Asked("Transfer", [size : {1}, kernel : {<<"EAGAIN", "closed">>}, again : {FALSE}, send : {TRUE}]),
    Asked("Heap", [a : {<<1, 3, 3, 1, 2, 3>>}, x : {1}]),
    Asked("bias", [data : {<<2, 3, 5, 9>>}, estimate : {10}]),
    Asked("dc3", {Text(<<1, 2, 2, 2, 2>>)}), Asked("dc7", {Text(<<2, 1, 2, 1, 2, 1, 2, 1, 2, 1, 2, 1, 2>>)}),
    Asked("q", {Text(Repeated(1, 17) \o <<2>>)}), Asked("dis", {Text(Repeated(1, 14))}),
    Asked("Wavelet", {<<0, 1>>, <<2, 1>>}), Asked("LCP", {<<3, 2, 3>>}),
    Asked("Run", {a \in Together(2) : a.net = "tcp" /\ ~a.mpi /\ a.workers = <<E!Unset, E!Unset>> /\ a.cores = <<1, 3>>}),
    Asked("MpiCollectives", [values : {<<2, 2, 2>>}, initial : {0}, wide : {TRUE}]),
    Machine("gzip"), Machine("bzip2"), Machine("s3"),
    Machine("crossing"), Machine("stalling"), Machine("peak"), Machine("limit"),
    Machine("mock"), Machine("reduce"), Machine("destructor"),
    Machine("collapse"), Machine("actions") >>

\* The statements, each with the place where it is made.
Documented ==
    /\ ConcatInOrder /\ ReducesAll /\ PrefixSumsAll /\ GroupsAllKeys /\ ReducesEachIndex /\ IdentifiesAllHashes
    /\ DeliversEachLine /\ TransfersOrReports /\ ErasedHeapOrdered /\ TakesNearest
    /\ SortsAllSuffixes /\ WaveletHoldsText /\ LCPReturned /\ MpiPrefixSums /\ RanksAreGlobal
    /\ op \in {"gzip", "bzip2"} => Filter!CompressesAll
    /\ op = "s3" => S3!CommitsAll
    /\ op = "crossing" => Merge!MergedAndBalanced
    /\ op = "stalling" => Merge!SearchAdvances
    /\ op = "peak" => Tracker!PeakReached
    /\ op = "limit" => Tracker!LimitIndicated
    /\ op = "mock" => Mock!AlwaysRemembered
    /\ op = "reduce" => Flow!ReducesInOrder
    /\ op = "destructor" => Blocks!DestructorNotStuck
    /\ op = "collapse" => Stages!CompleteInput
    /\ op = "actions" => Stages!AssertionsHold

(***************************************************************************)
(* Behaviours                                                              *)
(***************************************************************************)
Question(k) == op' = Agenda[k].op /\ arg' \in Agenda[k].args /\ out' = IF Agenda[k].machine THEN Nil ELSE <<>>

DisInit ==
    /\ asked = 1 /\ op = Agenda[1].op /\ arg \in Agenda[1].args /\ out = <<>>
    /\ Filter!FilterInit /\ S3!S3Init /\ Merge!MergeInit /\ Tracker!Init /\ Mock!Init /\ Flow!Init /\ Stages!Init /\ Blocks!Init
    /\ NoFile /\ NoMix /\ NoTable /\ NoHll /\ NoMem /\ NoTcp /\ NoMpi /\ NoSys

\* the model in question goes on
Answer ==
    /\ UNCHANGED <<asked, idleVars>>
    /\ \/ OperationsNext \/ CallBias \/ CallMpi
       \/ Agenda[asked].machine /\ UNCHANGED opVars
    /\ IF op \in {"gzip", "bzip2"} THEN Filter!FilterNext ELSE UNCHANGED filterVars
    /\ IF op = "s3" THEN S3!S3Next ELSE UNCHANGED s3Vars
    /\ IF op \in {"crossing", "stalling"} THEN Merge!Search ELSE UNCHANGED mergeVars
    /\ IF op \in {"peak", "limit"} THEN Tracker!Next ELSE UNCHANGED trackVars
    /\ IF op = "mock" THEN Mock!Next ELSE UNCHANGED mockVars
    /\ IF op = "reduce" THEN Flow!Next ELSE UNCHANGED flowVars
    /\ IF op \in {"collapse", "actions"} THEN Stages!Next ELSE UNCHANGED stageVars
    /\ IF op = "destructor" THEN Blocks!Next ELSE UNCHANGED poolVars

\* what is left of a model that has refuted its statement: nothing, or the
\* beginning of the next instance
LeaveFilter == wf' = Filter!NewWriteFilter /\ rf' = rf /\ kind' = "bz2"
ForgetFilter == wf' = Nil /\ rf' = Nil /\ kind' = Nil
ForgetS3 == lister' = Nil /\ reader' = Nil /\ writer' = Nil
LeaveMerge ==
    /\ files' = Stalling /\ left' = Merge!NoRanks(Stalling) /\ width' = Merge!WholeRanges(Stalling)
    /\ ranks' = Merge!NoRanks(Stalling) /\ found' = FALSE
ForgetMerge == files' = Nil /\ left' = Nil /\ width' = Nil /\ ranks' = Nil /\ found' = Nil
ForgetTracker == cnt' = Nil /\ tl' = Nil /\ todo' = Nil /\ hand' = Nil /\ blocks' = Nil /\ heap' = Nil
ForgetMock ==
    /\ inbound' = Nil /\ messages' = Nil /\ watcher' = Nil /\ watch' = Nil /\ notify' = Nil /\ at' = Nil
    /\ added' = Nil /\ calls' = Nil /\ late' = Nil
ForgetFlow ==
    /\ case' = Nil /\ callNr' = Nil /\ code' = Nil /\ reg' = Nil /\ slot' = Nil /\ gen' = Nil /\ shmem' = Nil
    /\ counters' = Nil /\ generation' = Nil /\ waiting' = Nil /\ step' = Nil /\ chan' = Nil /\ results' = Nil
ForgetBlocks ==
    /\ bpPool' = Nil /\ exist' = Nil /\ handle' = Nil /\ dying' = Nil /\ pins' = Nil /\ inMem' = Nil /\ em' = Nil
    /\ lru' = Nil /\ writing' = Nil /\ swapped' = Nil /\ reading' = Nil /\ reads' = Nil /\ ram' = Nil /\ requested' = Nil
    /\ bytes' = Nil /\ pinnedBytes' = Nil /\ held' = Nil /\ pc' = Nil /\ blk' = Nil /\ need' = Nil /\ goal' = Nil /\ retry' = Nil
LeaveStages ==
    LET nodes == DOMAIN ThreeActions
        none == [n \in nodes |-> 0]
        calls0 == [n \in nodes |-> [i \in 1..Stages!Inputs(ThreeActions[n]) |-> Stages!NoCalls]]
    IN /\ program' = ThreeActions /\ size' = 0 /\ state' = [n \in nodes |-> "NEW"] /\ counter' = [n \in nodes |-> 1]
       /\ graph' = [parents |-> [n \in nodes |-> <<>>], children |-> [n \in nodes |-> <<>>], calls |-> calls0, failed |-> FALSE]
       /\ mem' = none /\ uses' = none /\ keeps' = none /\ origin' = [n \in nodes |-> <<>>] /\ handles' = {}
       /\ scopes' = <<>> /\ stages' = {} /\ toporder' = <<>> /\ outcome' = "ok"

\* the statement has been refuted, the next one is called
Refuted ==
    /\ asked' = asked + 1 /\ UNCHANGED idleVars
    /\ IF asked < Len(Agenda) THEN Question(asked + 1) ELSE UNCHANGED opVars
    /\ IF op = "gzip" THEN LeaveFilter ELSE IF op = "bzip2" THEN ForgetFilter ELSE UNCHANGED filterVars
    /\ IF op = "s3" THEN ForgetS3 ELSE UNCHANGED s3Vars
    /\ IF op = "crossing" THEN LeaveMerge ELSE IF op = "stalling" THEN ForgetMerge ELSE UNCHANGED mergeVars
    /\ IF op = "limit" THEN ForgetTracker ELSE UNCHANGED trackVars
    /\ IF op = "mock" THEN ForgetMock ELSE UNCHANGED mockVars
    /\ IF op = "reduce" THEN ForgetFlow ELSE UNCHANGED flowVars
    /\ IF op = "destructor" THEN ForgetBlocks ELSE UNCHANGED poolVars
    /\ IF op = "collapse" THEN LeaveStages ELSE UNCHANGED stageVars

disVars == <<asked, opVars, filterVars, s3Vars, mergeVars, trackVars, mockVars, flowVars, stageVars, poolVars, idleVars>>
DisNext == asked \in DOMAIN Agenda /\ IF Documented THEN Answer ELSE Refuted
DisSpec == DisInit /\ [][DisNext]_disVars

\* Some statement of the agenda is not refuted by the code, in any behaviour of
\* its model.
SomeStatementHolds == asked \in DOMAIN Agenda
=============================================================================
