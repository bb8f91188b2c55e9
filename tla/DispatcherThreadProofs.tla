------------------------ MODULE DispatcherThreadProofs ------------------------
(***************************************************************************)
(* Proofs about DispatcherThread for any number of clients, connections    *)
(* and jobs: the state stays well-formed, no wake-up is lost, and no job   *)
(* or write is left behind.                                               *)
(***************************************************************************)
EXTENDS DispatcherThread, FiniteSetTheorems, SequenceTheorems, TLAPS

\* The part of the type invariant that the proofs need.
Typed ==
    /\ queue \in Seq(Job)
    /\ issued \in [Client -> Nat]
    /\ cpc \in [Client -> {"idle", "wake", "interrupt"}]

\* busy_ is set exactly between the assignments of Work().
BusyWindow == busy <=> pc \in {"recheck", "select", "dispatched"}

\* The inductive invariant of NoLostWakeUp.
WakeInv == Typed /\ BusyWindow /\ NoLostWakeUp

\* Job n of client c is in the queue.
Waits(c, n) == \E i \in 1 .. Len(queue) : queue[i].by = c /\ queue[i].n = n

\* A job that was pushed was run or waits in the queue.
JobsKept ==
    \A c \in Client : \A n \in 0 .. issued[c] - 1 : <<c, n>> \in ran \/ Waits(c, n)

\* The condition under which the loop was left still holds.
DoneShape == pc = "done" => terminate /\ queue = <<>> /\ writes = <<>>

\* The inductive invariant of NothingLeftBehind.
KeepInv == Typed /\ JobsKept /\ DoneShape

-----------------------------------------------------------------------------
\* A bijection from an initial segment exists, hence SetToSeq of a finite set
\* is a sequence over it.
LEMMA SetToSeqType ==
    ASSUME NEW S, IsFiniteSet(S)
    PROVE  SetToSeq(S) \in Seq(S)
<1>1. /\ Cardinality(S) \in Nat
      /\ ExistsBijection(1 .. Cardinality(S), S)
  BY FS_CardinalityType
<1>2. PICK f \in Bijection(1 .. Cardinality(S), S) : TRUE
  BY <1>1 DEF ExistsBijection
<1>3. f \in [1 .. Cardinality(S) -> S] /\ IsInjective(f)
  BY <1>2 DEF Bijection, Injection, IsInjective
<1>4. SetToSeq(S) \in [1 .. Cardinality(S) -> S]
  BY <1>3 DEF SetToSeq
<1> QED BY <1>1, <1>4, IsASeq

\* There is a natural number that bounds the registered reads.
LEMMA MaxReadsType == MaxReads \in Nat
<1>1. Cardinality(Client) \in Nat
  BY FS_CardinalityType, ConstantsAssumption
<1> QED BY <1>1, ConstantsAssumption DEF MaxReads

\* The jobs posted by the callbacks of finished reads are jobs.
LEMMA PostedType ==
    ASSUME NEW got, NEW eof
    PROVE  Posted(got, eof) \in Seq(Job)
<1> DEFINE Y == {z \in Finished(got) : z[1] \notin eof}
           J(y) == [by |-> Self, n |-> y[2] - 1, kind |-> "read", conn |-> y[1]]
           T == {J(y) : y \in Y}
           f == [y \in Y |-> J(y)]
<1>1. IsFiniteSet(1 .. MaxReads)
  BY FS_Interval, MaxReadsType
<1>2. IsFiniteSet(Conn \X (1 .. MaxReads))
  BY <1>1, FS_Product, ConstantsAssumption
<1>3. Y \in SUBSET (Conn \X (1 .. MaxReads))
  BY DEF Finished
<1>4. IsFiniteSet(Y)
  BY <1>2, <1>3, FS_Subset
<1>5. f \in Surjection(Y, T)
  BY DEF Surjection
<1>6. IsFiniteSet(T)
  BY <1>4, <1>5, FS_Surjection
<1>7. SetToSeq(T) \in Seq(T)
  BY <1>6, SetToSeqType
<1>8. T \subseteq Job
  <2> SUFFICES ASSUME NEW y \in Y PROVE J(y) \in Job
    OBVIOUS
  <2>1. y[1] \in Conn /\ y[2] \in 1 .. MaxReads
    BY <1>3
  <2>2. y[2] - 1 \in Nat
    BY <2>1, MaxReadsType
  <2> QED BY <2>1, <2>2 DEF Job, Kinds
<1> QED BY <1>7, <1>8, SeqMonotonic DEF Posted

-----------------------------------------------------------------------------
\* What running the head of the queue leaves in it.
LEMMA RunHeadQueue ==
    ASSUME Typed, queue # <<>>, RunHead
    PROVE  /\ queue' \in Seq(Job)
           /\ Len(queue') = Len(queue) - 1 /\ Len(queue) \in Nat \ {0}
           /\ \A i \in 1 .. Len(queue') : queue'[i] = queue[i + 1]
<1>1. queue' = Tail(queue)
  BY DEF RunHead
<1> QED BY <1>1 DEF Typed

\* Every action keeps the types.
LEMMA TypedStep ==
    ASSUME Typed, [Next]_vars
    PROVE  Typed'
<1>1. CASE UNCHANGED vars
  BY <1>1 DEF Typed, vars, clientVars
<1>2. ASSUME NEW c \in Client, NEW k \in Kinds, NEW x \in Conn, Enqueue(c, k, x)
      PROVE  Typed'
  <2> DEFINE j == [by |-> c, n |-> issued[c], kind |-> k, conn |-> x]
  <2>1. j \in Job
    BY DEF Typed, Job
  <2>2. queue' = Append(queue, j)
    BY <1>2 DEF Enqueue
  <2>3. queue' \in Seq(Job)
    BY <2>1, <2>2 DEF Typed
  <2> QED BY <1>2, <2>3 DEF Typed, Enqueue
<1>3. ASSUME NEW c \in Client, ClientStep(c)
      PROVE  Typed'
  BY <1>3 DEF Typed, ClientStep, WakeUpThread, Interrupt
<1>4. CASE Terminate \/ TerminateWakeUp \/ TerminateReturn
  BY <1>4 DEF Typed, Terminate, TerminateWakeUp, TerminateReturn, clientVars
<1>5. CASE RunJob \/ RecheckJob
  BY <1>5, RunHeadQueue DEF Typed, RunJob, RecheckJob, clientVars
<1>6. CASE CheckLoop \/ DrainEnd \/ SetBusy \/ RecheckNone \/ ClearBusy \/ DispatchTimeout
  BY <1>6 DEF Typed, CheckLoop, DrainEnd, SetBusy, RecheckNone, ClearBusy,
              DispatchTimeout, clientVars
<1>7. ASSUME NEW done, NEW got, NEW eof, DispatchEvents(done, got, eof)
      PROVE  Typed'
  <2>1. queue' = queue \o Posted(got, eof) /\ UNCHANGED clientVars
    BY <1>7 DEF DispatchEvents
  <2>2. queue' \in Seq(Job)
    BY <2>1, PostedType, ConcatProperties DEF Typed
  <2> QED BY <2>1, <2>2 DEF Typed, clientVars
<1>8. CASE Ended
  BY <1>8, <1>1 DEF Ended
<1> QED
  BY <1>1, <1>2, <1>3, <1>4, <1>5, <1>6, <1>7, <1>8
     DEF Next, Work, Events, Dispatch

\* No action loses the wake-up of a job.
LEMMA WakeStep ==
    ASSUME WakeInv, [Next]_vars
    PROVE  WakeInv'
<1>0. Typed'
  BY TypedStep DEF WakeInv
<1> DEFINE Goal == BusyWindow' /\ NoLostWakeUp'
<1> SUFFICES Goal
  BY <1>0 DEF WakeInv
<1> USE DEF WakeInv, BusyWindow, NoLostWakeUp
<1>1. CASE UNCHANGED vars
  BY <1>1 DEF vars, clientVars
<1>2. ASSUME NEW c \in Client, NEW k \in Kinds, NEW x \in Conn, Enqueue(c, k, x)
      PROVE  Goal
  <2>1. cpc'[c] = "wake"
    BY <1>2 DEF Typed, Enqueue
  <2> QED BY <1>2, <2>1 DEF Enqueue
<1>3. ASSUME NEW c \in Client, WakeUpThread(c)
      PROVE  Goal
  <2>1. pc = "select" => cpc'[c] = "interrupt"
    BY <1>3 DEF Typed, WakeUpThread
  <2> QED BY <1>3, <2>1 DEF WakeUpThread
<1>4. ASSUME NEW c \in Client, Interrupt(c)
      PROVE  Goal
  BY <1>4 DEF Interrupt
<1>5. CASE Terminate \/ TerminateReturn
  BY <1>5 DEF Terminate, TerminateReturn, clientVars
<1>5a. CASE TerminateWakeUp
  <2>1. pipe => pipe'
    BY <1>5a, Zenon DEF TerminateWakeUp
  <2>2. UNCHANGED <<queue, cpc, busy, pc>>
    BY <1>5a DEF TerminateWakeUp, clientVars
  <2> QED BY <2>1, <2>2
<1>6. CASE CheckLoop \/ RunJob \/ DrainEnd \/ SetBusy \/ RecheckNone
           \/ ClearBusy \/ DispatchTimeout
  BY <1>6 DEF CheckLoop, RunJob, DrainEnd, SetBusy, RecheckNone, ClearBusy,
              DispatchTimeout, clientVars
<1>6a. CASE RecheckJob
  BY <1>6a DEF RecheckJob
<1>7. ASSUME NEW done, NEW got, NEW eof, DispatchEvents(done, got, eof)
      PROVE  Goal
  <2>1. pc = "select" /\ pc' = "dispatched" /\ busy' = busy
    BY <1>7 DEF DispatchEvents
  <2> QED BY <2>1
<1>8. CASE Ended
  BY <1>8, <1>1 DEF Ended
<1> QED
  BY <1>1, <1>2, <1>3, <1>4, <1>5, <1>5a, <1>6, <1>6a, <1>7, <1>8
     DEF Next, Work, Events, Dispatch, ClientStep

\* The two looks of Work() and WakeUpThread, at the queue and at busy_, leave no
\* gap, whatever the number of clients: NoLostWakeUp is an invariant.
THEOREM WakeUpsKept == Spec => []NoLostWakeUp
<1>1. Init => WakeInv
  BY DEF Init, WakeInv, Typed, BusyWindow, NoLostWakeUp
<1>2. WakeInv /\ [Next]_vars => WakeInv'
  BY WakeStep
<1>3. WakeInv => NoLostWakeUp
  BY DEF WakeInv
<1> QED BY <1>1, <1>2, <1>3, PTL DEF Spec

-----------------------------------------------------------------------------
\* A job that waits keeps waiting when the queue only grows at its end.
LEMMA GrowsKeep ==
    ASSUME NEW s \in Seq(Job), queue \in Seq(Job), queue' = queue \o s,
           NEW c, NEW n, Waits(c, n)
    PROVE  Waits(c, n)'
<1>1. PICK i \in 1 .. Len(queue) : queue[i].by = c /\ queue[i].n = n
  BY DEF Waits
<1>2. i \in 1 .. Len(queue') /\ queue'[i] = queue[i]
  BY ConcatProperties
<1> QED BY <1>1, <1>2 DEF Waits

\* When the head is run, a waiting job is that head or goes on waiting.
LEMMA RunHeadKeeps ==
    ASSUME Typed, queue # <<>>, RunHead, NEW c \in Client, NEW n,
           <<c, n>> \in ran \/ Waits(c, n)
    PROVE  <<c, n>> \in ran' \/ Waits(c, n)'
<1>1. ran \subseteq ran'
  BY DEF RunHead
<1>2. CASE <<c, n>> \in ran
  BY <1>1, <1>2
<1>3. CASE Waits(c, n)
  <2>1. PICK i \in 1 .. Len(queue) : queue[i].by = c /\ queue[i].n = n
    BY <1>3 DEF Waits
  <2>2. CASE i = 1
    <3>1. Head(queue).by = c /\ Head(queue).n = n
      BY <2>1, <2>2 DEF Typed
    <3> QED BY <3>1 DEF RunHead
  <2>3. CASE i # 1
    <3>1. /\ Len(queue') = Len(queue) - 1 /\ Len(queue) \in Nat \ {0}
          /\ \A k \in 1 .. Len(queue') : queue'[k] = queue[k + 1]
      BY RunHeadQueue
    <3>2. i - 1 \in 1 .. Len(queue') /\ queue'[i - 1] = queue[i]
      BY <2>3, <3>1
    <3> QED BY <2>1, <3>2 DEF Waits
  <2> QED BY <2>2, <2>3
<1> QED BY <1>2, <1>3

\* No action forgets a job or leaves the loop too early.
LEMMA KeepStep ==
    ASSUME KeepInv, [Next]_vars
    PROVE  KeepInv'
<1>0. Typed'
  BY TypedStep DEF KeepInv
<1> DEFINE Goal == JobsKept' /\ DoneShape'
<1> SUFFICES Goal
  BY <1>0 DEF KeepInv
<1> USE DEF KeepInv
<1>a. ASSUME UNCHANGED <<queue, issued, ran>>
      PROVE  JobsKept'
  <2> SUFFICES ASSUME NEW c \in Client, NEW n \in 0 .. issued'[c] - 1
               PROVE  <<c, n>> \in ran' \/ Waits(c, n)'
    BY DEF JobsKept
  <2>1. <<c, n>> \in ran \/ Waits(c, n)
    BY <1>a DEF JobsKept
  <2>2. Waits(c, n) => Waits(c, n)'
    BY <1>a DEF Waits
  <2> QED BY <1>a, <2>1, <2>2
<1>1. CASE UNCHANGED vars
  BY <1>1, <1>a DEF vars, clientVars, asyncVars, DoneShape
<1>2. ASSUME NEW c \in Client, NEW k \in Kinds, NEW x \in Conn, Enqueue(c, k, x)
      PROVE  Goal
  <2> DEFINE j == [by |-> c, n |-> issued[c], kind |-> k, conn |-> x]
  <2>1. j \in Job
    BY DEF Typed, Job
  <2>2. queue' = Append(queue, j) /\ queue \in Seq(Job)
    BY <1>2 DEF Enqueue, Typed
  <2>3. queue' = queue \o <<j>> /\ <<j>> \in Seq(Job)
    BY <2>1, <2>2, AppendIsConcat
  <2>4. /\ issued' = [issued EXCEPT ![c] = @ + 1] /\ UNCHANGED <<ran, pc, terminate>>
        /\ ~terminate
    BY <1>2 DEF Enqueue
  <2>5. ASSUME NEW d \in Client, NEW n \in 0 .. issued'[d] - 1
        PROVE  <<d, n>> \in ran' \/ Waits(d, n)'
    <3>1. CASE d = c /\ n = issued[c]
      <4>1. Len(queue') \in 1 .. Len(queue') /\ queue'[Len(queue')] = j
        BY <2>1, <2>2
      <4> QED BY <3>1, <4>1 DEF Waits
    <3>2. CASE ~(d = c /\ n = issued[c])
      <4>1. n \in 0 .. issued[d] - 1
        BY <2>4, <3>2 DEF Typed
      <4>2. <<d, n>> \in ran \/ Waits(d, n)
        BY <4>1 DEF JobsKept
      <4> QED BY <2>2, <2>3, <2>4, <4>2, GrowsKeep
    <3> QED BY <3>1, <3>2
  <2> QED BY <2>4, <2>5 DEF JobsKept, DoneShape
<1>3. ASSUME NEW c \in Client, ClientStep(c)
      PROVE  Goal
  BY <1>3, <1>a DEF ClientStep, WakeUpThread, Interrupt, asyncVars, DoneShape
<1>4. CASE Terminate \/ TerminateWakeUp \/ TerminateReturn
  <2>1. UNCHANGED <<queue, issued, ran, pc, writes>>
    BY <1>4 DEF Terminate, TerminateWakeUp, TerminateReturn, clientVars, asyncVars
  <2>2. terminate => terminate'
    BY <1>4, Zenon DEF Terminate, TerminateWakeUp, TerminateReturn
  <2> QED BY <1>a, <2>1, <2>2 DEF DoneShape
<1>5. CASE RunJob \/ RecheckJob
  <2>1. /\ queue # <<>> /\ RunHead /\ issued' = issued /\ pc' # "done"
    BY <1>5 DEF RunJob, RecheckJob, clientVars
  <2>2. JobsKept'
    BY <2>1, RunHeadKeeps DEF JobsKept
  <2> QED BY <2>1, <2>2 DEF DoneShape
<1>6. CASE DrainEnd \/ SetBusy \/ RecheckNone \/ ClearBusy \/ DispatchTimeout
  BY <1>6, <1>a DEF DrainEnd, SetBusy, RecheckNone, ClearBusy, DispatchTimeout,
                    clientVars, asyncVars, DoneShape
<1>7. CASE CheckLoop
  BY <1>7, <1>a DEF CheckLoop, MayEnd, HasAsyncWrites, clientVars, asyncVars, DoneShape
<1>8. ASSUME NEW done, NEW got, NEW eof, DispatchEvents(done, got, eof)
      PROVE  Goal
  <2>1. /\ queue' = queue \o Posted(got, eof) /\ pc' # "done"
        /\ UNCHANGED <<issued, ran>>
    BY <1>8 DEF DispatchEvents, clientVars
  <2>2. Posted(got, eof) \in Seq(Job) /\ queue \in Seq(Job)
    BY PostedType DEF Typed
  <2>3. ASSUME NEW d \in Client, NEW n \in 0 .. issued[d] - 1
        PROVE  <<d, n>> \in ran' \/ Waits(d, n)'
    BY <2>1, <2>2, <2>3, GrowsKeep DEF JobsKept
  <2> QED BY <2>1, <2>3 DEF JobsKept, DoneShape
<1>9. CASE Ended
  BY <1>9, <1>1 DEF Ended
<1> QED
  BY <1>1, <1>2, <1>3, <1>4, <1>5, <1>6, <1>7, <1>8, <1>9
     DEF Next, Work, Events, Dispatch

\* When the thread of Work() has ended, every job that any client has pushed was
\* run and every write was handed over: NothingLeftBehind is an invariant.
THEOREM NoneLeftBehind == Spec => []NothingLeftBehind
<1>1. Init => KeepInv
  BY DEF Init, KeepInv, Typed, JobsKept, DoneShape
<1>2. KeepInv /\ [Next]_vars => KeepInv'
  BY KeepStep
<1>3. KeepInv => NothingLeftBehind
  <2> SUFFICES ASSUME KeepInv, pc = "done",
                      NEW c \in Client, NEW n \in 0 .. issued[c] - 1
               PROVE  <<c, n>> \in ran
    BY DEF KeepInv, DoneShape, NothingLeftBehind
  <2>1. queue = <<>> /\ (<<c, n>> \in ran \/ Waits(c, n))
    BY DEF KeepInv, DoneShape, JobsKept
  <2> QED BY <2>1 DEF Waits
<1> QED BY <1>1, <1>2, <1>3, PTL DEF Spec

-----------------------------------------------------------------------------
\* The elements up to a smaller one are some of those up to a larger one.
LEMMA BelowGrows ==
    ASSUME NEW S, S \subseteq Nat, NEW x \in S, NEW y \in S, x < y
    PROVE  /\ {j \in S : j <= x} \in SUBSET {j \in S : j <= y}
           /\ y \notin {j \in S : j <= x} /\ y \in {j \in S : j <= y}
<1>1. x \in Nat /\ y \in Nat
  OBVIOUS
<1>2. ASSUME NEW j \in S, j <= x PROVE j <= y
  <2>1. j \in Nat
    OBVIOUS
  <2> QED BY <1>1, <1>2, <2>1
<1>3. ~(y <= x) /\ y <= y
  BY <1>1
<1> QED BY <1>2, <1>3

\* In a finite set of numbers, k elements are at most the k-th one.
LEMMA RankExists ==
    ASSUME NEW S, S \subseteq Nat, IsFiniteSet(S), NEW k \in 1 .. Cardinality(S)
    PROVE  \E i \in S : Cardinality({j \in S : j <= i}) = k
<1> DEFINE Below(i) == {j \in S : j <= i}
           r == [i \in S |-> Cardinality(Below(i))]
           n == Cardinality(S)
           T == {r[i] : i \in S}
<1>1. n \in Nat
  BY FS_CardinalityType
<1>2. ASSUME NEW i \in S PROVE IsFiniteSet(Below(i)) /\ r[i] \in 1 .. n
  <2>1. Below(i) \subseteq S /\ i \in Below(i)
    OBVIOUS
  <2>2. IsFiniteSet(Below(i)) /\ Cardinality(Below(i)) \in Nat /\ Cardinality(Below(i)) <= n
    BY <2>1, FS_Subset, FS_CardinalityType
  <2>3. Cardinality(Below(i)) # 0
    BY <2>1, <2>2, FS_EmptySet
  <2> QED BY <1>1, <2>2, <2>3
<1>3. ASSUME NEW i \in S, NEW j \in S, i < j PROVE r[i] < r[j]
  <2>1. Below(i) \subseteq Below(j) /\ j \in Below(j) /\ j \notin Below(i) /\ Below(i) # Below(j)
    BY <1>3, BelowGrows
  <2>2. IsFiniteSet(Below(j)) /\ Cardinality(Below(i)) \in Nat /\ Cardinality(Below(j)) \in Nat
    BY <1>2
  <2>3. Cardinality(Below(i)) <= Cardinality(Below(j)) /\ Cardinality(Below(i)) # Cardinality(Below(j))
    <3> HIDE DEF Below
    <3> QED BY <2>1, <2>2, FS_Subset
  <2> QED BY <2>2, <2>3
<1>4. r \in Bijection(S, T)
  <2>1. ASSUME NEW i \in S, NEW j \in S, r[i] = r[j] PROVE i = j
    <3>1. i \in Nat /\ j \in Nat /\ r[i] \in Nat /\ r[j] \in Nat
      BY <1>2
    <3>2. ~(i < j) /\ ~(j < i)
      BY <1>3, <2>1, <3>1
    <3> QED BY <3>1, <3>2
  <2> HIDE DEF r
  <2>2. r \in [S -> T]
    BY DEF r
  <2> QED BY <2>1, <2>2 DEF Bijection, Injection, Surjection, IsInjective
<1>5. IsFiniteSet(T) /\ Cardinality(T) = n
  <2> HIDE DEF r, T
  <2> QED BY <1>4, FS_Bijection DEF ExistsBijection
<1>6. T \subseteq 1 .. n
  BY <1>2
<1>7. IsFiniteSet(1 .. n) /\ Cardinality(1 .. n) = n
  BY <1>1, FS_Interval
<1>8. T = 1 .. n
  BY <1>5, <1>6, <1>7, FS_Subset
<1> QED BY <1>8

\* The writes in the two deques.
Write == [conn : Conn, kind : {"buffer", "block"}, done : BOOLEAN]

\* What CleanUp leaves are entries of what was there, and no unfinished write is
\* missing.
LEMMA CleanUpKeeps ==
    ASSUME NEW ws \in Seq(Write)
    PROVE  /\ CleanUp(ws) \in Seq(Write)
           /\ \A i \in 1 .. Len(ws) : ~ws[i].done =>
                 \E k \in 1 .. Len(CleanUp(ws)) : CleanUp(ws)[k] = ws[i]
<1>1. PICK S : S = Kept(ws)
  OBVIOUS
<1>2. PICK n : n = Cardinality(S)
  OBVIOUS
<1>3. S \subseteq 1 .. Len(ws) /\ Len(ws) \in Nat
  BY <1>1 DEF Kept
<1>4. IsFiniteSet(S) /\ n \in Nat /\ S \subseteq Nat
  <2>1. IsFiniteSet(1 .. Len(ws))
    BY <1>3, FS_Interval
  <2>2. IsFiniteSet(S)
    BY <1>3, <2>1, FS_Subset
  <2> QED BY <1>2, <1>3, <2>2, FS_CardinalityType
<1> DEFINE B(x) == {j \in S : j <= x}
<1>5. PICK f : f = [k \in 1 .. n |-> CHOOSE i \in S : Cardinality(B(i)) = k]
  OBVIOUS
<1>6. ASSUME NEW k \in 1 .. n PROVE f[k] \in S /\ Cardinality(B(f[k])) = k
  <2>1. \E i \in S : Cardinality(B(i)) = k
    BY <1>2, <1>4, RankExists
  <2> HIDE DEF B
  <2> QED BY <1>5, <2>1
<1>7. CleanUp(ws) = [k \in 1 .. n |-> ws[f[k]]]
  <2>1. CleanUp(ws) = [k \in 1 .. n |-> ws[CHOOSE i \in S : Cardinality(B(i)) = k]]
    BY <1>1, <1>2 DEF CleanUp, Entries
  <2> HIDE DEF B
  <2> QED BY <1>5, <2>1
<1>8. CleanUp(ws) \in Seq(Write) /\ Len(CleanUp(ws)) = n
  <2>1. ASSUME NEW k \in 1 .. n PROVE ws[f[k]] \in Write
    <3>1. f[k] \in 1 .. Len(ws)
      BY <1>3, <1>6
    <3> QED BY <3>1
  <2> QED BY <1>4, <1>7, <2>1
<1>9. ASSUME NEW i \in 1 .. Len(ws), ~ws[i].done
      PROVE  \E k \in 1 .. n : CleanUp(ws)[k] = ws[i]
  <2>1. i \in S
    BY <1>1, <1>9 DEF Kept
  <2>2. ASSUME NEW x \in S
        PROVE  /\ B(x) \in SUBSET S /\ x \in B(x) /\ IsFiniteSet(B(x))
               /\ Cardinality(B(x)) \in 1 .. n
    <3>1. B(x) \in SUBSET S /\ x \in B(x)
      BY <1>4
    <3> HIDE DEF B
    <3>2. IsFiniteSet(B(x)) /\ Cardinality(B(x)) \in Nat /\ Cardinality(B(x)) <= n
      BY <1>2, <1>4, <3>1, FS_Subset, FS_CardinalityType
    <3>3. Cardinality(B(x)) # 0
      BY <3>1, <3>2, FS_EmptySet
    <3> QED BY <1>4, <3>1, <3>2, <3>3
  <2>3. PICK k \in 1 .. n : k = Cardinality(B(i))
    <3> HIDE DEF B
    <3> QED BY <2>1, <2>2
  <2>4. ASSUME NEW x \in S, NEW y \in S, x < y PROVE Cardinality(B(x)) # Cardinality(B(y))
    <3>1. B(x) \in SUBSET B(y) /\ y \notin B(x)
      BY <1>4, <2>4, BelowGrows
    <3> HIDE DEF B
    <3> QED BY <2>2, <3>1, FS_Subset
  <2>5. f[k] = i
    <3>1. f[k] \in S /\ Cardinality(B(f[k])) = Cardinality(B(i))
      BY <1>6, <2>3
    <3> HIDE DEF B
    <3>2. f[k] \in Nat /\ i \in Nat
      BY <1>4, <2>1, <3>1
    <3>3. ~(f[k] < i) /\ ~(i < f[k])
      BY <2>1, <2>4, <3>1
    <3> QED BY <3>2, <3>3
  <2> QED BY <1>7, <2>3, <2>5
<1> QED BY <1>8, <1>9

-----------------------------------------------------------------------------
\* A job starts writes.
LEMMA StartedType ==
    ASSUME NEW j \in Job
    PROVE  Started(j) \in Seq(Write)
<1>1. j.conn \in Conn
  BY DEF Job
<1>2. ASSUME NEW k \in {"buffer", "block"} PROVE [conn |-> j.conn, kind |-> k, done |-> FALSE] \in Write
  BY <1>1 DEF Write
<1> QED BY <1>2 DEF Started

\* Running the head of the queue keeps the types of what it changes.
LEMMA RunHeadTypes ==
    ASSUME TypeOK, queue # <<>>, RunHead
    PROVE  writes' \in Seq(Write) /\ reads' \in [Conn -> Nat] /\ ran' \subseteq Client \X Nat
<1>1. PICK j : j = Head(queue)
  OBVIOUS
<1>2. j \in Job
  BY <1>1 DEF TypeOK
<1>3. writes' \in Seq(Write)
  <2>1. writes \in Seq(Write) /\ writes' = writes \o Started(j)
    BY <1>1 DEF TypeOK, Write, RunHead
  <2> QED BY <1>2, <2>1, StartedType, ConcatProperties
<1>4. reads' \in [Conn -> Nat]
  <2>1. reads' = [reads EXCEPT ![j.conn] = IF j.kind = "read" THEN @ + 1 ELSE @]
    BY <1>1 DEF RunHead
  <2> QED BY <1>2, <2>1 DEF TypeOK, Job
<1>5. ran' \subseteq Client \X Nat
  <2>1. ran' = IF j.by \in Client THEN ran \cup {<<j.by, j.n>>} ELSE ran
    BY <1>1 DEF RunHead
  <2> QED BY <1>2, <2>1 DEF TypeOK, Job
<1> QED BY <1>3, <1>4, <1>5

\* Every action keeps the types; a callback never takes away more reads than
\* are registered.
LEMMA TypeStep ==
    ASSUME TypeOK, [Next]_vars
    PROVE  TypeOK'
<1>0. Typed'
  BY TypedStep DEF TypeOK, Typed
<1> DEFINE Flags == /\ terminate' \in BOOLEAN /\ tpc' \in {"idle", "wake", "join", "ended"}
                    /\ busy' \in BOOLEAN /\ pipe' \in BOOLEAN
                    /\ pc' \in {"check", "drain", "drained", "recheck", "select", "dispatched", "done"}
           Goal == Flags /\ writes' \in Seq(Write) /\ reads' \in [Conn -> Nat] /\ ran' \subseteq Client \X Nat
<1> SUFFICES Goal
  BY <1>0 DEF Typed, TypeOK, Write
<1>a. writes \in Seq(Write) /\ reads \in [Conn -> Nat] /\ ran \subseteq Client \X Nat
  BY DEF TypeOK, Write
<1>1. CASE UNCHANGED vars
  BY <1>1, <1>a DEF TypeOK, vars, asyncVars
<1>2. ASSUME NEW c \in Client, NEW k \in Kinds, NEW x \in Conn, Enqueue(c, k, x) PROVE Goal
  BY <1>2, <1>a DEF TypeOK, Enqueue, asyncVars
<1>3. ASSUME NEW c \in Client, ClientStep(c) PROVE Goal
  BY <1>3, <1>a DEF TypeOK, ClientStep, WakeUpThread, Interrupt, asyncVars
<1>4. CASE Terminate \/ TerminateReturn
  BY <1>4, <1>a DEF TypeOK, Terminate, TerminateReturn, asyncVars
<1>5. CASE TerminateWakeUp
  <2>1. pipe' \in BOOLEAN
    BY <1>5, Zenon DEF TerminateWakeUp
  <2> QED BY <1>5, <1>a, <2>1 DEF TypeOK, TerminateWakeUp, asyncVars
<1>6. CASE RunJob \/ RecheckJob
  <2>1. queue # <<>> /\ RunHead
    BY <1>6 DEF RunJob, RecheckJob
  <2>2. Flags
    BY <1>6 DEF TypeOK, RunJob, RecheckJob
  <2> QED BY <2>1, <2>2, RunHeadTypes
<1>7. CASE CheckLoop \/ DrainEnd \/ SetBusy \/ RecheckNone \/ ClearBusy \/ DispatchTimeout
  BY <1>7, <1>a DEF TypeOK, CheckLoop, DrainEnd, SetBusy, RecheckNone, ClearBusy, DispatchTimeout, asyncVars
<1>8. ASSUME NEW done, NEW got \in [Conn -> 0 .. MaxReads], NEW eof, DispatchEvents(done, got, eof)
      PROVE  Goal
  <2> DEFINE ws == [i \in DOMAIN writes |-> [writes[i] EXCEPT !.done = @ \/ i \in done]]
             byte == Posted(got, eof) # <<>>
  <2>1. ws \in Seq(Write)
    <3>1. ASSUME NEW i \in DOMAIN writes PROVE ws[i] \in Write
      <4>1. writes[i] \in Write
        BY <1>a
      <4>2. (writes[i].done \/ i \in done) \in BOOLEAN
        BY Zenon
      <4> QED BY <4>1, <4>2 DEF Write
    <3> QED BY <1>a, <3>1
  <2>2. writes' \in Seq(Write)
    <3>1. writes' = CleanUp(ws)
      BY <1>8 DEF DispatchEvents
    <3> HIDE DEF ws
    <3> QED BY <2>1, <3>1, CleanUpKeeps
  <2>3. reads' \in [Conn -> Nat]
    <3>1. reads' = [x \in Conn |-> reads[x] - got[x]] /\ \A x \in Conn : got[x] <= reads[x]
      BY <1>8 DEF DispatchEvents, MayRead
    <3>2. \A x \in Conn : got[x] \in Nat /\ reads[x] \in Nat
      BY <1>a, MaxReadsType
    <3> QED BY <3>1, <3>2
  <2>4. Flags
    <3>1. byte \in BOOLEAN /\ pipe' \in IF pipe THEN {FALSE, byte} ELSE {byte}
      BY <1>8 DEF DispatchEvents
    <3>2. pipe' \in BOOLEAN
      <4> HIDE DEF byte
      <4> QED BY <3>1, Zenon
    <3>3. pc' = "dispatched" /\ UNCHANGED <<terminate, tpc, busy>>
      BY <1>8 DEF DispatchEvents
    <3> QED BY <3>2, <3>3 DEF TypeOK
  <2>5. ran' = ran
    BY <1>8 DEF DispatchEvents
  <2> QED BY <1>a, <2>2, <2>3, <2>4, <2>5
<1>9. CASE Ended
  BY <1>9, <1>1 DEF Ended
<1> QED
  BY <1>1, <1>2, <1>3, <1>4, <1>5, <1>6, <1>7, <1>8, <1>9
     DEF Next, Work, Events, Dispatch

\* The state of the dispatcher thread stays well-formed for any number of
\* clients, connections and jobs: in particular the callbacks of a connection
\* never take away more reads than AddRead registered, and what is left of the
\* deques after their clean-up are writes.
THEOREM DispatcherTypes == Spec => []TypeOK
<1>1. Init => TypeOK
  <2> SUFFICES ASSUME Init PROVE TypeOK
    OBVIOUS
  <2>1. \A S : <<>> \in Seq(S)
    OBVIOUS
  <2> QED BY <2>1 DEF Init, TypeOK
<1>2. TypeOK /\ [Next]_vars => TypeOK'
  BY TypeStep
<1> QED BY <1>1, <1>2, PTL DEF Spec
=============================================================================
