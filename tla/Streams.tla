------------------------------- MODULE Streams -------------------------------
(***************************************************************************)
(* One CatStream or MixStream of Thrill's data layer: the StreamSinks the  *)
(* workers write to, the StreamSet that aggregates their close messages,   *)
(* the headers and blocks on the connections between the hosts, the        *)
(* Multiplexer that reads them on the dispatcher thread, the reordering in *)
(* StreamData::OnStreamBlock, StreamData::Close and the repository of      *)
(* stream sets (multiplexer.cpp, stream_sink.cpp, stream_data.cpp,         *)
(* cat_stream.cpp, mix_stream.cpp).                                        *)
(*                                                                         *)
(* Stream ids are never reused and every map is keyed by them, so one id   *)
(* is modelled.  A block is the number it has in its sink; contents are    *)
(* not modelled.  Workers have global ranks; rank r lives on host          *)
(* r \div WorkersPerHost.                                                  *)
(***************************************************************************)
EXTENDS Integers, Sequences, FiniteSets, SequencesExt

CONSTANTS
    NumHosts,         \* group_.num_hosts()
    WorkersPerHost,   \* workers_per_host_
    Kind,             \* "Cat" or "Mix": CatStreamData or MixStreamData
    ParallelAsync,    \* num_parallel_async_: 1 for TCP and mock, more for MPI
    Limit,            \* Limit[s][d]: full blocks worker s may write to worker d
    Partial,          \* Partial[s][d]: may its writer hold a partial block on Close?
    ReadAll           \* do workers read the stream to its end before they close it?

Hosts == 0 .. NumHosts - 1
Ranks == 0 .. NumHosts * WorkersPerHost - 1
Host(r) == r \div WorkersPerHost
Locals(h) == {r \in Ranks : Host(r) = h}
Remote(r, d) == Host(r) # Host(d)

ASSUME ConstantsAssumption ==
    /\ NumHosts \in Nat \ {0} /\ WorkersPerHost \in Nat \ {0}
    /\ Kind \in {"Cat", "Mix"} /\ ParallelAsync \in Nat \ {0}
    /\ Limit \in [Ranks -> [Ranks -> Nat]]
    /\ Partial \in [Ranks -> [Ranks -> (SUBSET BOOLEAN) \ {{}}]]
    /\ ReadAll \in BOOLEAN

Final == -1     \* StreamMultiplexerHeader::final_seq
Closing == -1   \* an invalid Block(): the end of a queue

VARIABLES
    map,         \* map[h]: stream_sets_ of host h holds the stream's set
    peer,        \* peer[r]: streams_[r] of that set is not null
    closedTo,    \* closedTo[h][p]: writers_closed_per_host_[p] in h's set
    sentTo,      \* sentTo[h][p]: writers_closed_per_host_sent_[p]
    stream,      \* stream[r]: the receiving half of r's StreamData
    blocks,      \* blocks[s][d]: blocks put into the sink from s to d
    sinkClosed,  \* sinkClosed[s][d]: closed_ of that sink
    writersClosed,  \* writersClosed[r]: writers_closed_
    pc,          \* pc[r]: where worker r is in the life of the stream
    pos,         \* pos[r]: loop index of GetWriters or Writers::Close
    wire,        \* wire[p][h]: all messages written to the connection p -> h
    reads,       \* reads[h][p]: the AsyncReads host h has open, by message number
    rxSeq,       \* rxSeq[h][p]: messages for which a header read was posted
    todo,        \* todo[h]: rest of the handler host h's dispatcher executes
    muxClosed,   \* muxClosed[h]: Multiplexer::closed_
    dead         \* a die_unless failed or a null pointer was followed

setVars == <<map, peer, closedTo, sentTo>>
sinkVars == <<blocks, sinkClosed, writersClosed>>
workerVars == <<pc, pos>>
readVars == <<reads, rxSeq, todo>>
netVars == <<wire, readVars>>
vars == <<setVars, stream, sinkVars, workerVars, netVars, muxClosed, dead>>

(***************************************************************************)
(* The receiving half of a StreamData.                                     *)
(***************************************************************************)

\* Closing blocks that come through OnStreamBlockOrdered.  A CatStream's
\* loopback queues are closed by their writers directly.
ExpectedCloses ==
    IF Kind = "Cat" THEN (NumHosts - 1) * WorkersPerHost
                    ELSE NumHosts * WorkersPerHost

FreshStream ==
    [seq |-> [f \in Ranks |-> 0],          \* seq_[f].seq_
     waiting |-> [f \in Ranks |-> {}],     \* seq_[f].waiting_
     queue |-> [f \in Ranks |-> <<>>],     \* what was put into the queue of f
     remaining |-> ExpectedCloses,         \* remaining_closing_blocks_
     sem |-> 0]                            \* sem_closing_blocks_

IsQueueClosed(s, f) == Closing \in ToSet(s.queue[f])

\* OnStreamBlockOrdered for the blocks bs from worker f, one after the other.
Ordered(s, f, bs) ==
    LET closes == Cardinality({i \in DOMAIN bs : bs[i] = Closing})
    IN  [s EXCEPT !.queue[f] = @ \o bs, !.seq[f] = @ + Len(bs),
                  !.remaining = @ - closes, !.sem = @ + closes]

\* Mutant: the waiting blocks are never looked at again.
Successors_None(s, f, q) == <<>>

\* The waiting blocks that follow sequence number q without a gap.
Successors(s, f, q) ==
    LET run == CHOOSE n \in 0 .. Cardinality(s.waiting[f]) :
                 /\ \A i \in 1 .. n : \E e \in s.waiting[f] : e.seq = q + i
                 /\ ~ \E e \in s.waiting[f] : e.seq = q + n + 1
    IN  [i \in 1 .. run |->
            (CHOOSE e \in s.waiting[f] : e.seq = q + i).block]

\* Mutant: a block that comes early is delivered at once.
Early_Never(s, f, q) == FALSE

\* Is the block put aside until its predecessors have arrived?
Early(s, f, q) == q # s.seq[f] /\ q # Final

\* StreamData::OnStreamBlock of the block b with sequence number q from f.
OnStreamBlock(s, f, q, b) ==
    IF Early(s, f, q)
    THEN [s EXCEPT !.waiting[f] = @ \cup {[seq |-> q, block |-> b]}]
    ELSE LET next == Successors(s, f, s.seq[f])
         IN  [Ordered(s, f, <<b>> \o next) EXCEPT
                !.waiting[f] = {e \in @ : e.seq > s.seq[f] + Len(next)}]

\* The die_unless of OnStreamBlock and OnStreamBlockOrdered on the way.
Dies(s, f, q, b) ==
    \/ (Early(s, f, q) /\ q < s.seq[f])
    \/ (~Early(s, f, q) /\ OnStreamBlock(s, f, q, b).remaining < 0)

(***************************************************************************)
(* Repository::GetOrCreate and the set it may create on host h.            *)
(***************************************************************************)
CreateSet(h) ==
    /\ map' = [map EXCEPT ![h] = TRUE]
    /\ peer' = [r \in Ranks |-> IF Host(r) = h THEN TRUE ELSE peer[r]]
    /\ closedTo' = [closedTo EXCEPT ![h] = [p \in Hosts |-> 0]]
    /\ sentTo' = [sentTo EXCEPT ![h] = [p \in Hosts |-> 0]]

GetOrCreate(h) == IF map[h] THEN UNCHANGED setVars ELSE CreateSet(h)

\* The set's streams after GetOrCreate(h).
StreamsAfter(h) ==
    [r \in Ranks |-> IF Host(r) = h /\ ~map[h] THEN FreshStream ELSE stream[r]]

PeerAfter(r) == ~map[Host(r)] \/ peer[r]

Init ==
    /\ map = [h \in Hosts |-> FALSE]
    /\ peer = [r \in Ranks |-> FALSE]
    /\ closedTo = [h \in Hosts |-> [p \in Hosts |-> 0]]
    /\ sentTo = [h \in Hosts |-> [p \in Hosts |-> 0]]
    /\ stream = [r \in Ranks |-> FreshStream]
    /\ blocks = [s \in Ranks |-> [d \in Ranks |-> 0]]
    /\ sinkClosed = [s \in Ranks |-> [d \in Ranks |-> FALSE]]
    /\ writersClosed = [r \in Ranks |-> 0]
    /\ pc = [r \in Ranks |-> "new"]
    /\ pos = [r \in Ranks |-> 0]
    /\ wire = [p \in Hosts |-> [h \in Hosts |-> <<>>]]
    /\ reads = [h \in Hosts |-> [p \in Hosts |->
                  IF p = h THEN <<>> ELSE [n \in 1 .. ParallelAsync |-> "header"]]]
    /\ rxSeq = [h \in Hosts |-> [p \in Hosts |-> IF p = h THEN 0 ELSE ParallelAsync]]
    /\ todo = [h \in Hosts |-> <<>>]
    /\ muxClosed = [h \in Hosts |-> FALSE]
    /\ dead = FALSE

(***************************************************************************)
(* The workers.                                                            *)
(***************************************************************************)

\* Multiplexer::GetNewCatStream and GetNewMixStream.
GetNewStream(r) ==
    /\ pc[r] = "new"
    /\ GetOrCreate(Host(r))
    /\ stream' = StreamsAfter(Host(r))
    /\ pc' = [pc EXCEPT ![r] = "getWriters"]
    /\ UNCHANGED <<sinkVars, pos, netVars, muxClosed, dead>>

\* One turn of the loop of GetWriters over the local workers: CatLoopback or
\* MixLoopback, each with its own lock of the Multiplexer.
Loopback(r) ==
    LET d == Host(r) * WorkersPerHost + pos[r]
    IN  /\ pc[r] = "getWriters"
        /\ dead' = (dead \/ ~map[Host(r)] \/ ~peer[d])
        /\ IF pos[r] + 1 < WorkersPerHost
           THEN pos' = [pos EXCEPT ![r] = @ + 1] /\ UNCHANGED pc
           ELSE pos' = [pos EXCEPT ![r] = 0] /\ pc' = [pc EXCEPT ![r] = "write"]
        /\ UNCHANGED <<setVars, stream, sinkVars, netVars, muxClosed>>

\* Send a block of the sink r -> d to the other host.
SendBlock(r, d, last) ==
    wire' = [wire EXCEPT ![Host(r)][Host(d)] = Append(@,
               [type |-> "block", from |-> r, to |-> d,
                seq |-> blocks[r][d], last |-> last])]

\* A block of r for a worker of the same host goes straight into its queue.
PutLocal(r, d) ==
    IF Kind = "Cat"
    THEN /\ stream' = [stream EXCEPT ![d].queue[r] = Append(@, blocks[r][d])]
         /\ UNCHANGED dead
    ELSE /\ stream' = [stream EXCEPT ![d] =
                         OnStreamBlock(@, r, blocks[r][d], blocks[r][d])]
         /\ dead' = (dead \/ Dies(stream[d], r, blocks[r][d], blocks[r][d]))

\* BlockWriter::Flush of a full block: StreamSink::AppendPinnedBlock.
AppendBlock(r, d) ==
    /\ pc[r] = "write" /\ ~sinkClosed[r][d]
    /\ blocks[r][d] < Limit[r][d]
    /\ IF Remote(r, d)
       THEN SendBlock(r, d, FALSE) /\ UNCHANGED <<stream, dead>>
       ELSE PutLocal(r, d) /\ UNCHANGED wire
    /\ blocks' = [blocks EXCEPT ![r][d] = @ + 1]
    /\ UNCHANGED <<setVars, sinkClosed, writersClosed, workerVars, readVars,
                   muxClosed>>

\* Writers::Close visits the writers in cyclic order, beginning at its own.
NumRanks == NumHosts * WorkersPerHost
CloseTarget(r) == (pos[r] + r) % NumRanks

\* Mutant: the close message is sent when as many writers have closed as the
\* host has workers, not as many as it has writers to the peer.
OnWriterClosed_TooSoon(r, d, sent, w) ==
    LET h == Host(r)
        p == Host(d)
        n == closedTo[h][p] + 1
        ns == sentTo[h][p] + (IF sent THEN 1 ELSE 0)
        all == n = WorkersPerHost
    IN  /\ writersClosed' = [writersClosed EXCEPT ![r] = @ + 1]
        /\ closedTo' = [closedTo EXCEPT ![h][p] = n]
        /\ sentTo' = [sentTo EXCEPT ![h][p] = ns]
        /\ wire' = IF all /\ p # h /\ n # ns
                   THEN [w EXCEPT ![h][p] = Append(@, [type |-> "closeAll"])]
                   ELSE w
        /\ dead' = (dead \/ n > WorkersPerHost * WorkersPerHost
                         \/ writersClosed[r] + 1 > NumRanks)
        /\ UNCHANGED <<map, peer>>

\* StreamData::OnWriterClosed with StreamSet::OnWriterClosed: count, and send
\* the one close message to the peer host when its last writer has closed.
\* `w` is what is on the wires before.
OnWriterClosed(r, d, sent, w) ==
    LET h == Host(r)
        p == Host(d)
        n == closedTo[h][p] + 1
        ns == sentTo[h][p] + (IF sent THEN 1 ELSE 0)
        all == n = WorkersPerHost * WorkersPerHost
    IN  /\ writersClosed' = [writersClosed EXCEPT ![r] = @ + 1]
        /\ closedTo' = [closedTo EXCEPT ![h][p] = n]
        /\ sentTo' = [sentTo EXCEPT ![h][p] = ns]
        /\ wire' = IF all /\ p # h /\ n # ns
                   THEN [w EXCEPT ![h][p] = Append(@, [type |-> "closeAll"])]
                   ELSE w
        /\ dead' = (dead \/ n > WorkersPerHost * WorkersPerHost
                         \/ writersClosed[r] + 1 > NumRanks)
        /\ UNCHANGED <<map, peer>>

\* After the writer at pos[r]: the next one, or the stream is written.
NextWriter(r) ==
    IF pos[r] + 1 < NumRanks
    THEN pos' = [pos EXCEPT ![r] = @ + 1] /\ pc' = [pc EXCEPT ![r] = "write"]
    ELSE pos' = [pos EXCEPT ![r] = 0] /\ pc' = [pc EXCEPT ![r] = "read"]

\* BlockWriter::Close with buffered items, on a remote sink: the block goes out
\* with is_last_block set, and the sink is closed.
SendTail(r) ==
    LET d == CloseTarget(r)
    IN  /\ pc[r] = "write" /\ ~sinkClosed[r][d]
        /\ Remote(r, d) /\ TRUE \in Partial[r][d]
        /\ SendBlock(r, d, TRUE)
        /\ blocks' = [blocks EXCEPT ![r][d] = @ + 1]
        /\ sinkClosed' = [sinkClosed EXCEPT ![r][d] = TRUE]
        /\ pc' = [pc EXCEPT ![r] = "tell"]
        /\ UNCHANGED <<setVars, stream, writersClosed, pos, readVars,
                       muxClosed, dead>>

\* The rest of AppendPinnedBlock with is_last_block: OnWriterClosed(sent).
TellTail(r) ==
    /\ pc[r] = "tell"
    /\ OnWriterClosed(r, CloseTarget(r), TRUE, wire)
    /\ NextWriter(r)
    /\ UNCHANGED <<stream, blocks, sinkClosed, readVars, muxClosed>>

\* BlockWriter::Close with buffered items, on a sink to the same host, which
\* ignores is_last_block: the block is put, StreamSink::Close comes next.
PutTail(r) ==
    LET d == CloseTarget(r)
    IN  /\ pc[r] = "write" /\ ~sinkClosed[r][d]
        /\ ~Remote(r, d) /\ TRUE \in Partial[r][d]
        /\ PutLocal(r, d)
        /\ blocks' = [blocks EXCEPT ![r][d] = @ + 1]
        /\ pc' = [pc EXCEPT ![r] = "close"]
        /\ UNCHANGED <<setVars, sinkClosed, writersClosed, pos, netVars,
                       muxClosed>>

\* StreamSink::Close up to and including OnWriterClosed.
CloseSink(r) ==
    LET d == CloseTarget(r)
    IN  /\ ~sinkClosed[r][d]
        /\ pc[r] = "close" \/ (pc[r] = "write" /\ FALSE \in Partial[r][d])
        /\ sinkClosed' = [sinkClosed EXCEPT ![r][d] = TRUE]
        /\ OnWriterClosed(r, d, ~Remote(r, d), wire)
        /\ IF Remote(r, d) THEN NextWriter(r)
           ELSE pc' = [pc EXCEPT ![r] = "end"] /\ UNCHANGED pos
        /\ UNCHANGED <<stream, blocks, readVars, muxClosed>>

\* The rest of StreamSink::Close for a worker of the same host: the closing
\* block goes into its queue.
EndLocal(r) ==
    LET d == CloseTarget(r)
        q == blocks[r][d]
    IN  /\ pc[r] = "end"
        /\ IF Kind = "Cat"
           THEN /\ stream' = [stream EXCEPT ![d].queue[r] = Append(@, Closing)]
                /\ UNCHANGED dead
           ELSE /\ stream' = [stream EXCEPT ![d] = OnStreamBlock(@, r, q, Closing)]
                /\ dead' = (dead \/ Dies(stream[d], r, q, Closing))
        /\ NextWriter(r)
        /\ UNCHANGED <<setVars, sinkVars, netVars, muxClosed>>

\* A worker that reads its stream to the end has met every closing block.
HasRead(r) == \A f \in Ranks : IsQueueClosed(stream[r], f)

\* Mutant: Close waits for one closing block fewer.
AwaitedCloses_OffByOne == ExpectedCloses - 1

\* Close packets CatStreamData::Close and MixStreamData::Close wait for.
AwaitedCloses == ExpectedCloses

\* Mutant: the last Release does not make the Multiplexer erase the set.
Close_KeepsSet(r) ==
    /\ pc[r] = "read"
    /\ ReadAll => HasRead(r)
    /\ stream[r].sem >= AwaitedCloses
    /\ peer' = [peer EXCEPT ![r] = FALSE]
    /\ pc' = [pc EXCEPT ![r] = "done"]
    /\ UNCHANGED <<map, stream, closedTo, sentTo, sinkVars, pos, netVars, muxClosed, dead>>

\* CatStreamData::Close and MixStreamData::Close: wait for the close packets,
\* then release the stream, and the set with its last stream.
Close(r) ==
    LET h == Host(r)
        left == {l \in Locals(h) : peer[l]} \ {r}
    IN  /\ pc[r] = "read"
        /\ ReadAll => HasRead(r)
        /\ stream[r].sem >= AwaitedCloses
        /\ stream' = [stream EXCEPT ![r].sem = @ - AwaitedCloses]
        /\ dead' = (dead \/ writersClosed[r] # NumRanks \/ ~map[h])
        /\ peer' = [peer EXCEPT ![r] = FALSE]
        /\ map' = [map EXCEPT ![h] = left # {}]
        /\ pc' = [pc EXCEPT ![r] = "done"]
        /\ UNCHANGED <<closedTo, sentTo, sinkVars, pos, netVars, muxClosed>>

AllDone(h) == \A r \in Locals(h) : pc[r] = "done"

\* Multiplexer::Close, when the workers of the host have ended.
CloseMultiplexer(h) ==
    /\ AllDone(h) /\ ~muxClosed[h]
    /\ dead' = (dead \/ map[h])
    /\ muxClosed' = [muxClosed EXCEPT ![h] = TRUE]
    /\ map' = [map EXCEPT ![h] = FALSE]
    /\ UNCHANGED <<peer, closedTo, sentTo, stream, sinkVars, workerVars, netVars>>

(***************************************************************************)
(* The dispatcher thread of host h.  It runs one handler at a time; a      *)
(* handler that the workers can interleave with leaves its rest in todo.   *)
(***************************************************************************)

\* Message n of the connection from p is complete, and the handler's last call,
\* AsyncReadMultiplexerHeader, posts the next header read.
CompleteRead(h, p, n) ==
    /\ reads' = [reads EXCEPT ![h][p] =
                   [m \in (DOMAIN @ \ {n}) \cup {rxSeq[h][p] + 1} |->
                       IF m \in DOMAIN @ THEN @[m] ELSE "header"]]
    /\ rxSeq' = [rxSeq EXCEPT ![h][p] = @ + 1]

\* The read of message n, in the given phase, may complete now.
Arrived(h, p, n, phase) ==
    /\ todo[h] = <<>>
    /\ n \in DOMAIN reads[h][p] /\ reads[h][p][n] = phase
    /\ n <= Len(wire[p][h])

\* The loop over the local workers that the close message of host p starts.
CloseAllLoop(h, p) ==
    [w \in 1 .. WorkersPerHost |->
        [type |-> "closeAll", to |-> h * WorkersPerHost + w - 1,
         from |-> p, seq |-> Final]]

\* OnMultiplexerHeader for a header with IsAllWorkers.
OnCloseHeader(h, p, n) ==
    /\ Arrived(h, p, n, "header")
    /\ wire[p][h][n].type = "closeAll"
    /\ todo' = [todo EXCEPT ![h] = CloseAllLoop(h, p)]
    /\ CompleteRead(h, p, n)
    /\ UNCHANGED <<setVars, stream, sinkVars, workerVars, wire, muxClosed, dead>>

\* OnMultiplexerHeader for a block: the stream is looked up, or created, and the
\* read of the block's bytes is posted.
OnBlockHeader(h, p, n) ==
    /\ Arrived(h, p, n, "header")
    /\ wire[p][h][n].type = "block"
    /\ GetOrCreate(h)
    /\ stream' = StreamsAfter(h)
    /\ dead' = (dead \/ ~PeerAfter(wire[p][h][n].to))
    /\ reads' = [reads EXCEPT ![h][p][n] = "body"]
    /\ UNCHANGED <<sinkVars, workerVars, wire, rxSeq, todo, muxClosed>>

\* OnCatStreamBlock and OnMixStreamBlock: deliver the block, and if it is the
\* last one leave the closing block to EndBlock.
OnBlock(h, p, n) ==
    LET m == wire[p][h][n]
    IN  /\ Arrived(h, p, n, "body")
        /\ stream' = [stream EXCEPT ![m.to] = OnStreamBlock(@, m.from, m.seq, m.seq)]
        /\ dead' = (dead \/ Dies(stream[m.to], m.from, m.seq, m.seq))
        /\ todo' = [todo EXCEPT ![h] =
                      IF m.last THEN << [type |-> "end", to |-> m.to,
                                         from |-> m.from, seq |-> m.seq + 1] >>
                                ELSE <<>>]
        /\ CompleteRead(h, p, n)
        /\ UNCHANGED <<setVars, sinkVars, workerVars, wire, muxClosed>>

\* Mutant: the closing block has the sequence number of the last block.
EndBlock_SameSeq(h) ==
    /\ todo[h] # <<>> /\ Head(todo[h]).type = "end"
    /\ LET t == Head(todo[h])
       IN  /\ stream' = [stream EXCEPT ![t.to] =
                           OnStreamBlock(@, t.from, t.seq - 1, Closing)]
           /\ dead' = (dead \/ Dies(stream[t.to], t.from, t.seq - 1, Closing))
    /\ todo' = [todo EXCEPT ![h] = Tail(@)]
    /\ UNCHANGED <<setVars, sinkVars, workerVars, wire, reads, rxSeq, muxClosed>>

\* The second OnStreamBlock of OnCatStreamBlock and OnMixStreamBlock.
EndBlock(h) ==
    /\ todo[h] # <<>> /\ Head(todo[h]).type = "end"
    /\ LET t == Head(todo[h])
       IN  /\ stream' = [stream EXCEPT ![t.to] =
                           OnStreamBlock(@, t.from, t.seq, Closing)]
           /\ dead' = (dead \/ Dies(stream[t.to], t.from, t.seq, Closing))
    /\ todo' = [todo EXCEPT ![h] = Tail(@)]
    /\ UNCHANGED <<setVars, sinkVars, workerVars, wire, reads, rxSeq, muxClosed>>

\* Mutant: the close message is applied to queues that are closed already, too.
OpenFrom_All(s, p) == Locals(p)

\* The senders on host p whose queue at stream s is still open.
OpenFrom(s, p) == {f \in Locals(p) : ~IsQueueClosed(s, f)}

\* The inner loop of OnMultiplexerHeader: end every open queue of host p.
EndQueues(s, p) ==
    FoldSet(LAMBDA f, acc : OnStreamBlock(acc, f, Final, Closing), s, OpenFrom(s, p))

\* One turn of the loop over the local workers in OnMultiplexerHeader: the
\* stream is looked up, or created, under a lock of its own.
CloseAllFor(h) ==
    /\ todo[h] # <<>> /\ Head(todo[h]).type = "closeAll"
    /\ LET t == Head(todo[h])
           s == StreamsAfter(h)[t.to]
       IN  /\ stream' = [StreamsAfter(h) EXCEPT ![t.to] =
                           IF PeerAfter(t.to) THEN EndQueues(@, t.from) ELSE @]
           /\ dead' = (dead \/ (PeerAfter(t.to) /\ EndQueues(s, t.from).remaining < 0))
    /\ GetOrCreate(h)
    /\ todo' = [todo EXCEPT ![h] = Tail(@)]
    /\ UNCHANGED <<sinkVars, workerVars, wire, reads, rxSeq, muxClosed>>

(***************************************************************************)
(* The specification.                                                      *)
(***************************************************************************)

\* The steps a worker takes without being asked for: it closes its writers and,
\* when it has read what it wants, its stream.
WorkerStep(r) ==
    \/ GetNewStream(r) \/ Loopback(r) \/ SendTail(r) \/ TellTail(r)
    \/ PutTail(r) \/ CloseSink(r) \/ EndLocal(r) \/ Close(r)

DispatcherStep(h) ==
    \/ \E p \in Hosts \ {h} : \E n \in DOMAIN reads[h][p] :
          OnCloseHeader(h, p, n) \/ OnBlockHeader(h, p, n) \/ OnBlock(h, p, n)
    \/ EndBlock(h) \/ CloseAllFor(h)

\* The program has ended: every host has closed its Multiplexer.
Ended == (\A h \in Hosts : muxClosed[h]) /\ UNCHANGED vars

Next ==
    /\ ~dead
    /\ \/ \E r \in Ranks : WorkerStep(r) \/ \E d \in Ranks : AppendBlock(r, d)
       \/ \E h \in Hosts : DispatcherStep(h) \/ CloseMultiplexer(h)
       \/ Ended

Spec == Init /\ [][Next]_vars

\* The operating system runs every thread that has something to do, and a
\* connection delivers what was written to it.
FairSpec == /\ Spec
            /\ \A r \in Ranks : WF_vars(~dead /\ WorkerStep(r))
            /\ \A h \in Hosts : WF_vars(~dead /\ DispatcherStep(h))

(***************************************************************************)
(* Properties.                                                             *)
(***************************************************************************)

\* The numbers of the first n blocks of a sink.
Run(n) == [i \in 1 .. n |-> i - 1]

\* Every variable has its type; in particular remaining_closing_blocks_ never
\* goes below zero.
TypeOK ==
    /\ map \in [Hosts -> BOOLEAN] /\ peer \in [Ranks -> BOOLEAN]
    /\ closedTo \in [Hosts -> [Hosts -> Nat]] /\ sentTo \in [Hosts -> [Hosts -> Nat]]
    /\ \A r \in Ranks : /\ stream[r].remaining \in Nat /\ stream[r].sem \in Nat
                        /\ \A f \in Ranks : stream[r].seq[f] \in Nat
    /\ blocks \in [Ranks -> [Ranks -> Nat]]
    /\ sinkClosed \in [Ranks -> [Ranks -> BOOLEAN]]
    /\ writersClosed \in [Ranks -> 0 .. NumRanks]
    /\ pc \in [Ranks -> {"new", "getWriters", "write", "tell", "close", "end",
                         "read", "done"}]
    /\ pos \in [Ranks -> 0 .. NumRanks - 1]
    /\ rxSeq \in [Hosts -> [Hosts -> Nat]]
    /\ muxClosed \in [Hosts -> BOOLEAN] /\ dead \in BOOLEAN

\* No die_unless of the multiplexer, the stream sets and the streams fails and
\* no stream pointer that is null is followed: writers are counted at most once
\* per pair, closing blocks at most once per queue, headers find their stream,
\* and no stream set is left when the Multiplexer closes.
NoDie == ~dead

\* What worker s writes to worker d arrives in d's queue in order, exactly once,
\* and the closing block comes after all of it and ends the queue, whichever of
\* the three ways of closing (piggy-backed, aggregated per host, loopback) the
\* sink took.
Delivery ==
    \A s, d \in Ranks :
        LET q == stream[d].queue[s]
        IN  \/ \E n \in 0 .. blocks[s][d] : q = Run(n)
            \/ sinkClosed[s][d] /\ q = Append(Run(blocks[s][d]), Closing)

\* A stream set that was released by all workers of its host is gone: the map is
\* empty when Multiplexer::Close looks at it.
NoStreamRemains == \A h \in Hosts : AllDone(h) => ~map[h]

\* A worker that has closed its stream has been sent everything: no message for
\* it is on its way, and no other worker still writes to it.
NothingAfterClose ==
    \A d \in Ranks : pc[d] = "done" =>
        \A s \in Ranks : IsQueueClosed(stream[d], s) /\ stream[d].waiting[s] = {}

\* A stream as its users see it, when it ends with closes that carry a sequence
\* number: nothing dies, all that was written arrives in order and exactly once,
\* and nothing of it arrives after the receiver's Close.
CleanStream == NoDie /\ Delivery /\ NothingAfterClose

\* The close message that a host sends when its last writer closed is the last
\* message of the stream on that connection, and is sent at most once.
CloseIsLast ==
    \A p, h \in Hosts : \A n \in 1 .. Len(wire[p][h]) :
        wire[p][h][n].type = "closeAll" => n = Len(wire[p][h])

\* Every worker gets out of its stream: no close packet is lost, and nobody
\* waits for a close that was counted elsewhere.
StreamsClose == \A r \in Ranks : <>(pc[r] = "done")

\* Number of blocks of worker s in d's queue.
Delivered(s, d) ==
    Len(stream[d].queue[s]) - (IF IsQueueClosed(stream[d], s) THEN 1 ELSE 0)

Channels == INSTANCE StreamChannels WITH
    Workers <- Ranks, written <- blocks, closed <- sinkClosed,
    delivered <- [s \in Ranks |-> [d \in Ranks |-> Delivered(s, d)]],
    ended <- [s \in Ranks |-> [d \in Ranks |-> IsQueueClosed(stream[d], s)]]

\* The sinks, headers, reordering and queues between any two workers are one
\* ordered and reliable channel whose end arrives.
ImplementsChannels == Channels!Spec
=============================================================================
