--------------------------- MODULE DispatcherThread ---------------------------
(***************************************************************************)
(* The thread that does all network I/O of a host (dispatcher_thread.cpp), *)
(* with the parts of Dispatcher and SelectDispatcher it drives: jobs come  *)
(* from other threads through a concurrent queue, a self-pipe interrupts   *)
(* select(), and the flag busy_ tells the others whether that is needed.   *)
(*                                                                         *)
(* A job starts an asynchronous read, the write of a buffer, the writes of  *)
(* a header and a block, or just runs (timers, MPI calls).  Bytes are not  *)
(* modelled: a write is done when its last byte was accepted, a read when  *)
(* its last byte arrived.  When a read is done its callback posts the next *)
(* one, as the callbacks of the Multiplexer do, unless the peer is gone.   *)
(***************************************************************************)
EXTENDS Naturals, FiniteSets, Sequences, SequencesExt

CONSTANTS
    Client,     \* threads that use the DispatcherThread
    Conn,       \* connections
    MaxJobs,    \* bound on the jobs of a client
    Self        \* the name of the dispatcher thread as origin of a job

ASSUME ConstantsAssumption ==
    /\ IsFiniteSet(Client) /\ IsFiniteSet(Conn)
    /\ MaxJobs \in Nat /\ Self \notin Client

Kinds == {"buffer", "block", "read", "run"}
Job == [by : Client \cup {Self}, n : Nat, kind : Kinds, conn : Conn]

VARIABLES
    queue,      \* jobqueue_
    issued,     \* issued[c]: number of jobs client c has enqueued
    cpc,        \* cpc[c]: where client c is in Enqueue(), WakeUpThread()
    terminate,  \* terminate_
    tpc,        \* where the caller of Terminate() is
    busy,       \* busy_
    pipe,       \* the self-pipe holds at least one byte
    pc,         \* where the dispatcher thread is in Work()
    writes,     \* the writes in async_write_ and async_write_block_, in the order
                \* in which they were started
    reads,      \* reads[x]: AsyncReads registered for connection x
    ran         \* history: jobs that were run

clientVars == <<issued, cpc>>
asyncVars == <<writes, reads>>

\* No more reads than this are ever registered.
MaxReads == MaxJobs * Cardinality(Client)

vars == <<queue, clientVars, terminate, tpc, busy, pipe, pc, asyncVars, ran>>

Init ==
    /\ queue = <<>>
    /\ issued = [c \in Client |-> 0]
    /\ cpc = [c \in Client |-> "idle"]
    /\ terminate = FALSE /\ tpc = "idle"
    /\ busy = FALSE /\ pipe = FALSE
    /\ pc = "check"
    /\ writes = <<>> /\ reads = [x \in Conn |-> 0]
    /\ ran = {}

(***************************************************************************)
(* The clients.                                                            *)
(***************************************************************************)

\* RunInThread, AddTimer, AddRead, AddWrite, Cancel, AsyncRead, AsyncWrite: push
\* a job; nobody does so after Terminate.
Enqueue(c, k, x) ==
    /\ ~terminate /\ cpc[c] = "idle" /\ issued[c] < MaxJobs
    /\ queue' = Append(queue, [by |-> c, n |-> issued[c], kind |-> k, conn |-> x])
    /\ issued' = [issued EXCEPT ![c] = @ + 1]
    /\ cpc' = [cpc EXCEPT ![c] = "wake"]
    /\ UNCHANGED <<terminate, tpc, busy, pipe, pc, asyncVars, ran>>

\* WakeUpThread: look at busy_ ...
WakeUpThread(c) ==
    /\ cpc[c] = "wake"
    /\ cpc' = [cpc EXCEPT ![c] = IF busy THEN "interrupt" ELSE "idle"]
    /\ UNCHANGED <<queue, issued, terminate, tpc, busy, pipe, pc, asyncVars, ran>>

\* ... and write a byte to the self-pipe: SelectDispatcher::Interrupt.
Interrupt(c) ==
    /\ cpc[c] = "interrupt"
    /\ cpc' = [cpc EXCEPT ![c] = "idle"]
    /\ pipe' = TRUE
    /\ UNCHANGED <<queue, issued, terminate, tpc, busy, pc, asyncVars, ran>>

\* Terminate: set the flag, when every client has returned from its calls, ...
Terminate ==
    /\ tpc = "idle" /\ \A c \in Client : cpc[c] = "idle"
    /\ terminate' = TRUE /\ tpc' = "wake"
    /\ UNCHANGED <<queue, clientVars, busy, pipe, pc, asyncVars, ran>>

\* ... wake up the thread, ...
TerminateWakeUp ==
    /\ tpc = "wake"
    /\ tpc' = "join"
    /\ pipe' = (pipe \/ busy)
    /\ UNCHANGED <<queue, clientVars, terminate, busy, pc, asyncVars, ran>>

\* ... and join it.
TerminateReturn ==
    /\ tpc = "join" /\ pc = "done"
    /\ tpc' = "ended"
    /\ UNCHANGED <<queue, clientVars, terminate, busy, pipe, pc, asyncVars, ran>>

(***************************************************************************)
(* The dispatcher thread: Work().                                          *)
(***************************************************************************)

HasAsyncWrites == writes # <<>>

\* Mutant: the loop ends without looking at the writes under way.
MayEnd_DropsWrites == terminate /\ queue = <<>>

\* The condition under which the loop of Work() ends.
MayEnd == terminate /\ ~HasAsyncWrites /\ queue = <<>>

CheckLoop ==
    /\ pc = "check"
    /\ pc' = IF MayEnd THEN "done" ELSE "drain"
    /\ UNCHANGED <<queue, clientVars, terminate, tpc, busy, pipe, asyncVars, ran>>

\* AsyncWrite and AsyncRead: the writes and reads that a job starts.  A block is
\* preceded by a buffer, its header.
Started(j) ==
    LET w(k) == [conn |-> j.conn, kind |-> k, done |-> FALSE]
    IN  CASE j.kind = "buffer" -> <<w("buffer")>>
          [] j.kind = "block"  -> <<w("buffer"), w("block")>>
          [] OTHER             -> <<>>

\* Run the job at the head of the queue.
RunHead ==
    LET j == Head(queue)
    IN  /\ queue' = Tail(queue)
        /\ ran' = IF j.by \in Client THEN ran \cup {<<j.by, j.n>>} ELSE ran
        /\ writes' = writes \o Started(j)
        /\ reads' = [reads EXCEPT ![j.conn] = IF j.kind = "read" THEN @ + 1 ELSE @]

\* One turn of the loop that empties the queue.
RunJob ==
    /\ pc = "drain" /\ queue # <<>>
    /\ RunHead
    /\ UNCHANGED <<clientVars, terminate, tpc, busy, pipe, pc>>

\* try_pop found the queue empty.
DrainEnd ==
    /\ pc = "drain" /\ queue = <<>>
    /\ pc' = "drained"
    /\ UNCHANGED <<queue, clientVars, terminate, tpc, busy, pipe, asyncVars, ran>>

\* Mutant: the thread goes to select() without a second look at the queue.
SetBusy_NoRecheck ==
    /\ pc = "drained"
    /\ busy' = TRUE /\ pc' = "select"
    /\ UNCHANGED <<queue, clientVars, terminate, tpc, pipe, asyncVars, ran>>

\* Set the busy flag ...
SetBusy ==
    /\ pc = "drained"
    /\ busy' = TRUE /\ pc' = "recheck"
    /\ UNCHANGED <<queue, clientVars, terminate, tpc, pipe, asyncVars, ran>>

\* ... but check once again for jobs.
RecheckJob ==
    /\ pc = "recheck" /\ queue # <<>>
    /\ busy' = FALSE /\ pc' = "check"
    /\ RunHead
    /\ UNCHANGED <<clientVars, terminate, tpc, pipe>>

RecheckNone ==
    /\ pc = "recheck" /\ queue = <<>>
    /\ pc' = "select"
    /\ UNCHANGED <<queue, clientVars, terminate, tpc, busy, pipe, asyncVars, ran>>

\* The callbacks of one connection are run in the order of their registration:
\* a write is finished only after the earlier ones.
MayFinish(done) ==
    \A i \in done : /\ ~writes[i].done
                    /\ \A j \in 1 .. i - 1 :
                          writes[j].conn = writes[i].conn => writes[j].done \/ j \in done

\* Mutant: a read event is handled without a look at the registered callbacks.
MayRead_Any(got) == TRUE

\* At most the registered reads of a connection are finished.
MayRead(got) == \A x \in Conn : got[x] <= reads[x]

\* Entries i of ws whose deque, one for buffers and one for blocks, holds an
\* unfinished entry at or before i.
Kept(ws) ==
    {i \in DOMAIN ws : \E j \in 1 .. i : ws[j].kind = ws[i].kind /\ ~ws[j].done}

\* The entries of ws at the places in kept, in their order.
Entries(ws, kept) ==
    [k \in 1 .. Cardinality(kept) |->
        ws[CHOOSE i \in kept : Cardinality({j \in kept : j <= i}) = k]]

\* Mutant: only async_write_ is cleaned up.
CleanUp_BuffersOnly(ws) ==
    Entries(ws, {i \in DOMAIN ws : i \in Kept(ws) \/ ws[i].kind = "block"})

\* Dispatch() pops finished writes, from the front of each deque only.
CleanUp(ws) == Entries(ws, Kept(ws))

\* The jobs that the callbacks of finished reads post, one for each of them; at
\* the end of file the callback gets an empty buffer and returns.
Finished(got) == {y \in Conn \X (1 .. MaxReads) : y[2] <= got[y[1]]}
Posted(got, eof) ==
    SetToSeq({[by |-> Self, n |-> y[2] - 1, kind |-> "read", conn |-> y[1]] :
                 y \in {z \in Finished(got) : z[1] \notin eof}})

\* DispatchOne: select() returned with events.  The writes `done` are finished,
\* and got[x] reads of each connection x.  A posted job puts a byte into the
\* pipe, as busy_ is set; the pipe is emptied if select() reported it, before or
\* after those callbacks.
DispatchEvents(done, got, eof) ==
    /\ pc = "select"
    /\ pipe \/ done # {} \/ \E x \in Conn : got[x] > 0
    /\ MayFinish(done) /\ MayRead(got)
    /\ writes' = CleanUp([i \in DOMAIN writes |->
                            [writes[i] EXCEPT !.done = @ \/ i \in done]])
    /\ reads' = [x \in Conn |-> reads[x] - got[x]]
    /\ queue' = queue \o Posted(got, eof)
    /\ LET byte == Posted(got, eof) # <<>>
       IN  pipe' \in IF pipe THEN {FALSE, byte} ELSE {byte}
    /\ pc' = "dispatched"
    /\ UNCHANGED <<clientVars, terminate, tpc, busy, ran>>

\* select() returned because ten seconds, or the time to the next timer, passed,
\* or a signal came.
DispatchTimeout ==
    /\ pc = "select"
    /\ pc' = "dispatched"
    /\ UNCHANGED <<queue, clientVars, terminate, tpc, busy, pipe, asyncVars, ran>>

ClearBusy ==
    /\ pc = "dispatched"
    /\ busy' = FALSE /\ pc' = "check"
    /\ UNCHANGED <<queue, clientVars, terminate, tpc, pipe, asyncVars, ran>>

(***************************************************************************)
(* The specification.                                                      *)
(***************************************************************************)

ClientStep(c) == WakeUpThread(c) \/ Interrupt(c)

Work == \/ CheckLoop \/ RunJob \/ DrainEnd \/ SetBusy
        \/ RecheckJob \/ RecheckNone \/ ClearBusy

Dispatch(A(_)) ==
    \E done \in SUBSET (1 .. Len(writes)), got \in [Conn -> 0 .. MaxReads],
       eof \in SUBSET Conn : A(done) /\ DispatchEvents(done, got, eof)

Events == Dispatch(LAMBDA done : TRUE)

\* select() returns at once when there is a byte in the pipe ...
PipeEvent == pipe /\ Events

\* ... and a write to connection x is finished.
WriteEvent(x) == Dispatch(LAMBDA done : \E i \in done : writes[i].conn = x)

Ended == tpc = "ended" /\ UNCHANGED vars

Next ==
    \/ \E c \in Client : \/ \E k \in Kinds, x \in Conn : Enqueue(c, k, x)
                         \/ ClientStep(c)
    \/ Terminate \/ TerminateWakeUp \/ TerminateReturn
    \/ Work \/ Events \/ DispatchTimeout
    \/ Ended

Spec == Init /\ [][Next]_vars

\* Threads that can run do run, select() reports a byte in the pipe, and a peer
\* takes what is written to it.  Nothing is assumed of the time-out of select().
FairSpec ==
    /\ Spec
    /\ \A c \in Client : WF_vars(ClientStep(c))
    /\ WF_vars(TerminateWakeUp \/ TerminateReturn)
    /\ WF_vars(Work) /\ WF_vars(PipeEvent)
    /\ \A x \in Conn : SF_vars(WriteEvent(x))

(***************************************************************************)
(* Properties.                                                             *)
(***************************************************************************)

\* Every variable has its type: no callback takes away more reads than AddRead
\* registered for its connection.
TypeOK ==
    /\ queue \in Seq(Job)
    /\ issued \in [Client -> Nat]
    /\ cpc \in [Client -> {"idle", "wake", "interrupt"}]
    /\ terminate \in BOOLEAN /\ tpc \in {"idle", "wake", "join", "ended"}
    /\ busy \in BOOLEAN /\ pipe \in BOOLEAN
    /\ pc \in {"check", "drain", "drained", "recheck", "select", "dispatched", "done"}
    /\ writes \in Seq([conn : Conn, kind : {"buffer", "block"}, done : BOOLEAN])
    /\ reads \in [Conn -> Nat]
    /\ ran \subseteq Client \X Nat

\* While the thread sleeps in select(), a job that waits in the queue has a
\* wake-up behind it: a byte in the pipe, or a client that has not yet looked at
\* busy_ or not yet written its byte.  The two looks, of the thread at the queue
\* after it set busy_ and of the client at busy_ after it pushed, leave no gap.
NoLostWakeUp ==
    pc = "select" /\ queue # <<>> =>
        busy /\ (pipe \/ \E c \in Client : cpc[c] \in {"wake", "interrupt"})

\* The thread ends only after Terminate, and then every job that was enqueued
\* has been run and every write has been handed to the connection.
NothingLeftBehind ==
    pc = "done" =>
        /\ terminate /\ queue = <<>> /\ writes = <<>>
        /\ \A c \in Client : \A n \in 0 .. issued[c] - 1 : <<c, n>> \in ran

\* Every job is run, without the help of select()'s time-out.
JobsRun ==
    \A c \in Client : \A n \in 0 .. MaxJobs - 1 :
        (issued[c] > n) ~> (<<c, n>> \in ran)

\* Terminate returns when the peers send nothing more.  This needs the time-out
\* of select(): the thread looks at terminate_ before it sets busy_, and not
\* again, so that the wake-up of Terminate may come too early.
Silence == <>[][\A x \in Conn : reads'[x] >= reads[x]]_vars
TerminateReturns ==
    WF_vars(DispatchTimeout) /\ Silence => ((tpc = "wake") ~> (tpc = "ended"))
=============================================================================
