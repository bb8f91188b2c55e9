------------------------------ MODULE Workers ------------------------------
(***************************************************************************)
(* The workers: what the distributed operations share, and at the end how  *)
(* a Context numbers the workers it starts.  A DIA is a sequence with one  *)
(* sequence of items for each worker; its content is their concatenation.  *)
(* Workers are numbered from 1 here, ranks and offsets count from 0 as in  *)
(* the code.  The collectives are what FlowControl shows them to be, a     *)
(* CatStream delivers as Streams shows, so that an operation is a function *)
(* of its input; what remains is the arithmetic that must agree on all     *)
(* workers.                                                                *)
(***************************************************************************)
EXTENDS Integers, Sequences, FiniteSets, SequencesExt, FiniteSetsExt, Functions

PlusLen(n, s) == n + Len(s)
TotalLen(seqs) == FoldLeft(PlusLen, 0, seqs)
\* net.ExPrefixSum of the local sizes
Before(seqs, w) == TotalLen(SubSeq(seqs, 1, w - 1))
SmallerOf(a, b) == IF a < b THEN a ELSE b
LargerOf(a, b) == IF a < b THEN b ELSE a
Upto(n) == [i \in 1..n |-> i]
LastOf(s, k) == SubSeq(s, LargerOf(0, Len(s) - k) + 1, Len(s))

\* Range(begin, end): CalculateBeginOfPart, Partition, FindPartition; and
\* CalculateLocalRange, CalculatePartition, which count from 0
CalculateBeginOfPart_Floor(begin, end, i, parts) == (i * (end - begin)) \div parts + begin
CalculateBeginOfPart(begin, end, i, parts) == (i * (end - begin) + parts - 1) \div parts + begin
Partition(begin, end, i, parts) ==
    [begin |-> CalculateBeginOfPart(begin, end, i, parts), end |-> CalculateBeginOfPart(begin, end, i + 1, parts)]
RangeContains(range, x) == range.begin <= x /\ x < range.end
FindPartition(begin, end, index, parts) == ((index - begin) * parts) \div (end - begin)
CalculateLocalRange(size, p, i) == Partition(0, size, i, p)
CalculatePartition(size, p, k) == (k * p) \div size

\* Stream::ScatterConsume on all workers: worker s sends its items [offs[s][t],
\* offs[s][t + 1]) to worker t, who reads the sources in order (CatReader).
ScatterConsume(files, offs) ==
    [t \in DOMAIN files |->
        FlattenSeq([s \in DOMAIN files |-> SubSeq(files[s], offs[s][t] + 1, offs[s][t + 1])])]

\* CalcOneFactorSize, CalcOneFactorPeer: the rounds in which all pairs meet
CalcOneFactorSize(n) == IF n % 2 = 0 THEN n - 1 ELSE n
CalcOneFactorPeer_Even(r, p, n) == (r - p + n) % n
CalcOneFactorPeer(r, p, n) ==
    LET idle == ((r * n) \div 2) % (n - 1)
    IN IF n % 2 # 0 THEN (r - p + n) % n
       ELSE IF p = n - 1 THEN idle ELSE IF p = idle THEN n - 1 ELSE (r - p + n - 1) % (n - 1)

(***************************************************************************)
(* thrill/api/context.cpp: from the environment of a process to the hosts  *)
(* and workers it runs, their ranks, cores and memory, and the statistics  *)
(* that Launch sums up.  An environment variable is a number, Bad (it does *)
(* not parse), Empty or Unset.                                             *)
(***************************************************************************)
Bad == -1
Empty == -2
Unset == -3
Given(e) == e > Empty
Valid(e) == e > 0

SetupBlockSize(e, default) == IF ~Given(e) THEN default ELSE IF Valid(e) THEN e ELSE 0
\* only of THRILL_WORKERS_PER_HOST is an invalid value an error
FindWorkersPerHost(p) ==
    IF Given(p.workers) THEN IF Valid(p.workers) THEN p.workers ELSE 0
    ELSE IF Valid(p.omp) THEN p.omp
    ELSE IF Valid(p.slurmCpus) THEN p.slurmCpus
    ELSE p.cores

(***************************************************************************)
(* MemoryConfig                                                            *)
(***************************************************************************)
apply(ram) ==
    LET third == ram \div 3
    IN [ram |-> ram, workers |-> third, hard |-> third, soft |-> (third * 9) \div 10, floating |-> ram - 2 * third]
\* <<>>: the program ends with an error
setup_detect(p) ==
    IF p.ram = Bad THEN <<>>
    ELSE IF Given(p.ram) THEN <<apply(p.ram)>>
    ELSE <<apply(IF p.rlimit # 0 /\ (p.rlimit * 3) \div 4 < p.physical THEN (p.rlimit * 3) \div 4 ELSE p.physical)>>
divide_Not(mc, hosts) == mc
divide(mc, hosts) ==
    [mc EXCEPT !.ram = @ \div hosts, !.hard = @ \div hosts, !.soft = @ \div hosts, !.workers = @ \div hosts]

(***************************************************************************)
(* A Context: where it runs, and what it knows of itself and the others    *)
(***************************************************************************)
HostContexts_LocalId(hosts, localId, workers, numHosts, mc, core) ==
    {[host |-> h, localHost |-> localId[h], worker |-> w, rank |-> workers * localId[h] + w,
      workers |-> numHosts * workers, core |-> core[h] + w,
      limit |-> mc.workers \div workers, pool |-> mc.hard] : h \in hosts, w \in 0..(workers - 1)}
HostContexts(hosts, localId, workers, numHosts, mc, core) ==
    {[host |-> h, localHost |-> localId[h], worker |-> w, rank |-> workers * h + w,
      workers |-> numHosts * workers, core |-> core[h] + w,
      limit |-> mc.workers \div workers, pool |-> mc.hard] : h \in hosts, w \in 0..(workers - 1)}
RunLoopbackThreads(mc, hosts, workers, offset) ==
    HostContexts(0..(hosts - 1), [h \in 0..(hosts - 1) |-> h], workers, hosts, divide(mc, hosts),
                 [h \in 0..(hosts - 1) |-> offset + h * workers])
\* all of them run in this process, which stops when one cannot start
Failed == {}
RunBackendLoopback(p) ==
    LET hosts == IF Given(p.local) THEN p.local ELSE 2
        workers == FindWorkersPerHost(p)
        offset == IF Given(p.offset) THEN p.offset ELSE 0
        mc == setup_detect(p)
    IN IF \/ ~Valid(hosts) \/ workers = 0 \/ p.offset = Bad
          \/ (Given(p.offset) /\ offset + hosts * workers > p.cores)
          \/ mc = <<>> \/ SetupBlockSize(p.blockSize, 2) = 0
       THEN Failed ELSE RunLoopbackThreads(mc[1], hosts, workers, offset)
\* one host of its own: local host 0, whichever rank it has
RunHost(p, rank, numHosts, workers) ==
    LET mc == setup_detect(p)
    IN IF mc = <<>> \/ SetupBlockSize(p.blockSize, 2) = 0 THEN Failed
       ELSE HostContexts({rank}, [h \in {rank} |-> 0], workers, numHosts, mc[1], [h \in {rank} |-> 0])
RunBackendTcp(p) ==
    LET rank == IF p.rank = Unset THEN p.slurmRank ELSE p.rank
        workers == FindWorkersPerHost(p)
    IN IF rank < 0 \/ rank >= p.hostlist \/ workers = 0 THEN Failed
       ELSE RunHost(p, rank, p.hostlist, workers)
\* one thread is left to MPI
RunBackendMpi(p) ==
    LET workers == FindWorkersPerHost(p)
    IN IF workers = 0 THEN Failed
       ELSE RunHost(p, p.mpiRank, Max({1, p.mpiSize}), IF workers = 1 THEN 1 ELSE workers - 1)
DetectNetBackend(p) ==
    IF p.mpiSize # 0 THEN IF p.hasMpi THEN "mpi" ELSE "none"
    ELSE IF p.rank # Unset \/ p.hostlist # Unset THEN "tcp" ELSE "local"
RunCheckDieWithParent(p) == ~Given(p.die) \/ p.die \in {0, 1}
Run(p) ==
    LET net == IF p.net = "" THEN DetectNetBackend(p) ELSE p.net
    IN IF ~RunCheckDieWithParent(p) THEN Failed
       ELSE CASE net \in {"mock", "local"} -> RunBackendLoopback(p)
              [] net = "tcp" -> RunBackendTcp(p)
              [] net = "mpi" /\ p.hasMpi -> RunBackendMpi(p)
              [] OTHER -> Failed

\* the networks of RunLocalTests, <<hosts, workers>>
RunLocalTests(e) ==
    IF Given(e) /\ ~Valid(e) THEN {}
    ELSE {hw \in {1, 2, 5, 8} \X {1, 3} : Given(e) => hw[1] * hw[2] <= e}

(***************************************************************************)
(* Launch: the statistics of a Context, reduced over all of them.  Traffic  *)
(* and blocks are those of a host, io and alloc those of a process.        *)
(***************************************************************************)
PlusStats(a, b) ==
    [runtime |-> Max({a.runtime, b.runtime}), blocks |-> a.blocks + b.blocks, tx |-> a.tx + b.tx, io |-> a.io + b.io,
     alloc |-> Max({a.alloc, b.alloc})]
StatsOf_AllWorkers(c, host, process, runtime) ==
    [runtime |-> runtime, blocks |-> host.blocks, tx |-> host.tx, io |-> process.io, alloc |-> process.alloc]
StatsOf(c, host, process, runtime) ==
    [runtime |-> runtime,
     blocks |-> IF c.worker = 0 THEN host.blocks ELSE 0,
     tx |-> IF c.worker = 0 THEN host.tx ELSE 0,
     io |-> IF c.localHost = 0 /\ c.worker = 0 THEN process.io ELSE 0,
     alloc |-> IF c.localHost = 0 /\ c.worker = 0 THEN process.alloc ELSE 0]
=============================================================================
