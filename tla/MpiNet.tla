------------------------------- MODULE MpiNet -------------------------------
(***************************************************************************)
(* thrill/net/mpi: the dispatcher, which hands out at most g_simultaneous  *)
(* sends and receives per peer to MPI and keeps those under way in vectors *)
(* of the same length, and the collectives that Group leaves to MPI.       *)
(* DispatchOne asks MPI which requests are done and calls their callbacks, *)
(* which may queue further requests while the vectors are compacted.       *)
(***************************************************************************)
EXTENDS Integers, Sequences, FiniteSets, SequencesExt, FiniteSetsExt
CONSTANTS Peers, Simultaneous, MaxPosted
VARIABLES mpi,     \* [async, requests, queue, active, died]
          called,  \* identities of the requests whose callback was called, in order
          posted   \* [id |-> request] of all requests so far
mpiVars == <<mpi, called, posted>>

\* a request: WRITE_ (send), READ_ (recv) or REQUEST; again: its callback queues
\* another one of its kind, as the reading of MultiplexerHeaders does
Kinds == {"send", "recv"}
Init ==
    /\ mpi = [async |-> <<>>, requests |-> <<>>, queue |-> [x \in Kinds \X Peers |-> <<>>],
              active |-> [x \in Kinds \X Peers |-> 0], died |-> FALSE]
    /\ called = <<>> /\ posted = <<>>

Slot(r) == <<r.kind, r.peer>>
AddAsyncRequest(m, r) == [m EXCEPT !.async = Append(@, r), !.requests = Append(@, r.id)]
\* ISend, IRecv: MPI_Isend and MPI_Irecv return a request
PerformAsync(m, r) == [AddAsyncRequest(m, r) EXCEPT !.active[Slot(r)] = @ + 1]
QueueAsync(m, r) ==
    IF m.active[Slot(r)] < Simultaneous THEN PerformAsync(m, r) ELSE [m EXCEPT !.queue[Slot(r)] = Append(@, r)]
RECURSIVE PumpQueue(_, _)
PumpQueue_Never(m, x) == m
PumpQueue_Newest(m, x) ==
    IF m.active[x] < Simultaneous /\ m.queue[x] # <<>>
    THEN PumpQueue(PerformAsync([m EXCEPT !.queue[x] = Front(@)], Last(m.queue[x])), x) ELSE m
PumpQueue(m, x) ==
    IF m.active[x] < Simultaneous /\ m.queue[x] # <<>>
    THEN PumpQueue(PerformAsync([m EXCEPT !.queue[x] = Tail(@)], m.queue[x][1]), x) ELSE m
Post(m, r) == IF r.kind = "request" THEN AddAsyncRequest(m, r) ELSE QueueAsync(m, r)

\* DoCallback of request r; what its callback queues gets the next identity
DoCallback(s, r) ==
    LET next == [r EXCEPT !.id = Len(s.posted) + 1, !.again = FALSE]
        t == [s EXCEPT !.called = Append(@, r.id)]
    IN IF r.again THEN [t EXCEPT !.m = Post(@, next), !.posted = Append(@, next)] ELSE t
\* the loop over mpi_async_, whose size is read anew in every round
RECURSIVE Compact(_, _, _, _)
Moved_AsyncOnly(m, out, i) == [m EXCEPT !.async[out] = m.async[i]]
Moved(m, out, i) == [m EXCEPT !.async[out] = m.async[i], !.requests[out] = m.requests[i]]
Compact_OldSize(s, i, out, done) ==
    IF i > Len(s.m.async) \/ (i > s.n) THEN [s EXCEPT !.m.async = SubSeq(@, 1, out - 1), !.m.requests = SubSeq(@, 1, out - 1)]
    ELSE IF i \in done
    THEN LET r == s.m.async[i]
             t == DoCallback(s, r)
         IN Compact(IF r.kind = "request" THEN t ELSE [t EXCEPT !.m = PumpQueue([t.m EXCEPT !.active[Slot(r)] = @ - 1], Slot(r))],
                    i + 1, out, done)
    ELSE Compact([s EXCEPT !.m = Moved(s.m, out, i)], i + 1, out + 1, done)
Compact(s, i, out, done) ==
    IF i > Len(s.m.async) THEN [s EXCEPT !.m.async = SubSeq(@, 1, out - 1), !.m.requests = SubSeq(@, 1, out - 1)]
    ELSE IF i \in done
    THEN LET r == s.m.async[i]
             t == DoCallback(s, r)
         IN Compact(IF r.kind = "request" THEN t ELSE [t EXCEPT !.m = PumpQueue([t.m EXCEPT !.active[Slot(r)] = @ - 1], Slot(r))],
                    i + 1, out, done)
    ELSE Compact([s EXCEPT !.m = Moved(s.m, out, i)], i + 1, out + 1, done)

(***************************************************************************)
(* Jobs of the dispatcher thread: AsyncWrite, AsyncRead; SyncSend,         *)
(* SyncRecv, SyncSendRecv, Barrier, which pass g_simultaneous by.          *)
(***************************************************************************)
Async(kind, p, again) ==
    /\ ~mpi.died /\ Len(posted) < MaxPosted
    /\ LET r == [id |-> Len(posted) + 1, kind |-> kind, peer |-> p, again |-> again]
       IN mpi' = Post(mpi, r) /\ posted' = Append(posted, r)
    /\ UNCHANGED called
\* MPI_Testsome reports any requests that are done; in any but the increasing
\* order die_unless(is_sorted) ends the program.  The callbacks run on elements of
\* mpi_async_, which grows under them: the element that DoCallback then empties is
\* the old one, and what else that memory is used for is outside of this module.
Increasing(outs) == \A i, j \in DOMAIN outs : i < j => outs[i] < outs[j]
DispatchOne(outs) ==
    /\ ~mpi.died /\ outs # <<>>
    /\ IF Increasing(outs)
       THEN LET s == Compact([m |-> mpi, called |-> called, posted |-> posted, n |-> Len(mpi.async)], 1, 1, ToSet(outs))
            IN mpi' = s.m /\ called' = s.called /\ posted' = s.posted
       ELSE mpi' = [mpi EXCEPT !.died = TRUE] /\ UNCHANGED <<called, posted>>
Next ==
    \/ \E p \in Peers : Async("send", p, FALSE) \/ Async("recv", p, TRUE) \/ Async("recv", p, FALSE)
    \/ Async("request", 0, FALSE)
    \/ \E done \in SUBSET DOMAIN mpi.async : \E outs \in SetToSeqs(done) : DispatchOne(outs)

----------------------------------------------------------------------------
\* mpi::Dispatcher: while callbacks queue requests and the vectors shrink and
\* grow, each MpiAsync stays beside its own MPI_Request; else the callback of
\* another message is called.
RequestsMatch ==
    Len(mpi.async) = Len(mpi.requests) /\ \A i \in DOMAIN mpi.async : mpi.async[i].id = mpi.requests[i]

\* mpi::Dispatcher: every request is waiting, under way or called back, and its
\* callback is called once; none is lost in the compaction of the vectors.
CalledOnce ==
    LET under == [i \in DOMAIN mpi.async |-> mpi.async[i].id]
        waiting == UNION {{r.id : r \in ToSet(mpi.queue[x])} : x \in Kinds \X Peers}
    IN /\ IsInjective(under \o called) /\ waiting \cap (ToSet(under) \cup ToSet(called)) = {}
       /\ waiting \cup ToSet(under) \cup ToSet(called) = 1..Len(posted)

\* mpi::Dispatcher: a request waits only while g_simultaneous others of its kind
\* and peer are under way, so that none waits forever, and they begin in the
\* order they were queued, as MPI's matching of equal tags needs.
QueuesMove ==
    \A x \in Kinds \X Peers :
        /\ mpi.active[x] = Cardinality({i \in DOMAIN mpi.async : mpi.async[i].kind = x[1] /\ mpi.async[i].peer = x[2]})
        /\ mpi.active[x] <= Simultaneous /\ (mpi.queue[x] # <<>> => mpi.active[x] = Simultaneous)
        /\ \A i \in 1..Len(posted), r \in ToSet(mpi.queue[x]) :
              Slot(posted[i]) = x /\ i > r.id => i \in {q.id : q \in ToSet(mpi.queue[x])}

(***************************************************************************)
(* mpi::Group: the collectives for int, long and long long.  PrefixSumPlus *)
(* names MPI_INT for all of them: of a wider value only the low part,      *)
(* modulo IntWord = 2^32, is summed; the high part stays.  Word is 2^64.   *)
(***************************************************************************)
MapSum(f, n) == FoldLeft(+, 0, SubSeq(f, 1, n))
PrefixSumPlus(values, initial, IntWord, Word) ==
    [w \in DOMAIN values |->
        LET low == MapSum([v \in DOMAIN values |-> values[v] % IntWord], w) % IntWord
        IN ((values[w] \div IntWord) * IntWord + low + initial) % Word]
ExPrefixSumPlus_First(values, initial, Word) ==
    [w \in DOMAIN values |-> (MapSum(values, w - 1) + (IF w = 1 THEN values[1] ELSE 0) + initial) % Word]
ExPrefixSumPlus(values, initial, Word) ==
    [w \in DOMAIN values |-> IF w = 1 THEN initial ELSE (MapSum(values, w - 1) + initial) % Word]
AllReducePlus(values, Word) == [w \in DOMAIN values |-> MapSum(values, Len(values)) % Word]
AllReduceMinimum(values) == [w \in DOMAIN values |-> Min(ToSet(values))]
AllReduceMaximum(values) == [w \in DOMAIN values |-> Max(ToSet(values))]
Broadcast(values, origin) == [w \in DOMAIN values |-> values[origin]]
Collectives(values, initial, IntWord, Word) ==
    [prefix |-> PrefixSumPlus(values, initial, IntWord, Word), exprefix |-> ExPrefixSumPlus(values, initial, Word),
     plus |-> AllReducePlus(values, Word), least |-> AllReduceMinimum(values), most |-> AllReduceMaximum(values),
     first |-> Broadcast(values, 1)]
CollectivesInt(values, initial) == Collectives(values, initial, 4, 4)
CollectivesLong(values, initial) == Collectives(values, initial, 4, 16)
=============================================================================
