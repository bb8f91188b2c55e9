--------------------------- MODULE StreamsRefinement ---------------------------
(***************************************************************************)
(* When no set of streams comes back, and that Streams then implements the *)
(* channels of StreamChannels.                                             *)
(*                                                                         *)
(* OnMultiplexerHeader closes the queues of a close message worker by      *)
(* worker, each under a lock of its own, and a look-up creates the set when*)
(* it is not there.  A set comes back when all workers of the host have    *)
(* ended before the loop has: nothing in the message was for those that the*)
(* loop has still to visit.  LastWaits excludes that, and no more: if a    *)
(* host closes any sink with its message, it closes one to the last worker *)
(* of the loop, who then waits for the end of the loop.                    *)
(*                                                                         *)
(* LateInv says why: the set of the sending host counts the sinks that have*)
(* sent a last block (TailsCounted), so it sends the message for one that  *)
(* has not (NotAll); a queue of such a sink is closed by the message only  *)
(* (ByMessage), in the one turn of the loop that is for its worker (Once), *)
(* and the loop ends with the last worker (LastTurn).                      *)
(***************************************************************************)
EXTENDS StreamsProofs

-----------------------------------------------------------------------------
\* The sink from s to d has sent a last block.
Tailed(s, d) ==
    LET w == wire[Host(s)][Host(d)]
    IN  \E n \in 1 .. Len(w) : IsBlock(s, d, n) /\ w[n].last

\* The worker that the loop of a close message comes to last.
LastOf(h) == h * WorkersPerHost + WorkersPerHost - 1

\* When host p closes with a message, one of the closes of that message is for
\* the last worker of host h: either some sink to that worker never ends with a
\* last block, or all sinks to the others do.  With one worker per host this
\* holds always.
LastWaits ==
    \A p, h \in Hosts : p # h =>
        \/ \E s \in Locals(p) : Partial[s][LastOf(h)] = {FALSE}
        \/ \A s \in Locals(p) : \A d \in Locals(h) \ {LastOf(h)} : Partial[s][d] = {TRUE}

\* A closed sink has sent a last block if its writer held a partial one.
TailOf(s, d) ==
    /\ Tailed(s, d) => TRUE \in Partial[s][d]
    /\ sinkClosed[s][d] /\ ~Tailed(s, d) => FALSE \in Partial[s][d]
    /\ pc[s] = "tell" /\ d = CloseTarget(s) => Tailed(s, d)
Tails == \A s, d \in Ranks : Remote(s, d) => TailOf(s, d)

\* The set counts those that have, and a close message is for one that has not.
TailTold(s, d) == Told(s, d) /\ Tailed(s, d)
TailsTo(h, p) == {y \in Locals(h) \X Locals(p) : TailTold(y[1], y[2])}
TailsCounted ==
    \A h, p \in Hosts : h # p => AllDone(h) \/ sentTo[h][p] = Cardinality(TailsTo(h, p))
NotAll ==
    \A h, p \in Hosts : Ends(wire[h][p]) =>
        \E s \in Locals(h), d \in Locals(p) : ~Tailed(s, d)

\* A closing block is put behind a last block only; a loop visits each worker
\* once, and the last worker at its end.
Behind == \A h \in Hosts : \A i \in 1 .. Len(todo[h]) :
              todo[h][i].type = "end" => Tailed(todo[h][i].from, todo[h][i].to)
Once == \A h \in Hosts : \A i, j \in 1 .. Len(todo[h]) :
              /\ todo[h][i].type = "closeAll" /\ todo[h][j].type = "closeAll" /\ i # j
              => todo[h][i].to # todo[h][j].to
LoopsTo(q, h) ==
    \A i \in 1 .. Len(q) : q[i].type = "closeAll" =>
        LET t == q[Len(q)] IN t.type = "closeAll" /\ t.to = LastOf(h) /\ t.from = q[i].from
LastTurn == \A h \in Hosts : LoopsTo(todo[h], h)

\* The close message of host p has been handled for worker d.
Turned(p, d) ==
    LET h == Host(d)
    IN  /\ Ends(wire[p][h]) /\ rxSeq[h][p] = Len(wire[p][h]) + 1
        /\ \A i \in 1 .. Len(todo[h]) : todo[h][i].type = "closeAll" =>
              ~(todo[h][i].to = d /\ todo[h][i].from = p)

\* Only then a queue is closed whose sink has sent no last block.
ByMessage ==
    \A s, d \in Ranks : Remote(s, d) /\ ~Tailed(s, d) /\ IsQueueClosed(stream[d], s)
                        => Turned(Host(s), d)

LateInv == Tails /\ TailsCounted /\ NotAll /\ Behind /\ Once /\ LastTurn /\ ByMessage

\* A set is only created for workers that have not ended.
LEMMA CreateFine ==
    ASSUME Typed, Sets, NoZombie, NEW h \in Hosts, GetOrCreate(h),
           \A r \in Ranks : pc'[r] = "done" <=> pc[r] = "done",
           NEW d \in Locals(h), pc[d] # "done"
    PROVE  NoZombie'
<1>1. CASE map[h]
  BY <1>1 DEF GetOrCreate, setVars, NoZombie
<1>2. CASE ~map[h]
  <2>1. \A r \in Locals(h) : pc[r] = "new"
    BY <1>2 DEF Sets
  <2>2. peer' = [r \in Ranks |-> IF Host(r) = h THEN TRUE ELSE peer[r]]
    BY <1>2 DEF GetOrCreate, CreateSet
  <2>3. ASSUME NEW r \in Ranks, pc'[r] = "done" PROVE ~peer'[r]
    <3>1. pc[r] = "done"
      BY <2>3
    <3>2. Host(r) # h
      BY <2>1, <3>1, Layout
    <3> QED BY <2>2, <3>1, <3>2 DEF NoZombie
  <2> QED BY <2>3 DEF NoZombie
<1> QED BY <1>1, <1>2

\* A close message is for the last worker of the host.
LEMMA ForLast ==
    ASSUME CloseInv, Tails, NotAll, LastWaits, NEW p \in Hosts, NEW h \in Hosts, p # h,
           Ends(wire[p][h])
    PROVE  LastOf(h) \in Locals(h) /\ \E s \in Locals(p) : ~Tailed(s, LastOf(h))
<1> USE DEF CloseInv
<1>1. LastOf(h) \in Locals(h)
  <2>1. WorkersPerHost - 1 \in 0 .. WorkersPerHost - 1
    BY ConstantsAssumption
  <2>2. LastOf(h) = h * WorkersPerHost + (WorkersPerHost - 1)
    BY ConstantsAssumption DEF LastOf, Hosts
  <2> QED BY <2>1, <2>2, LocalRank
<1>2. CASE \E s \in Locals(p) : Partial[s][LastOf(h)] = {FALSE}
  <2>1. PICK s \in Locals(p) : Partial[s][LastOf(h)] = {FALSE}
    BY <1>2
  <2>2. Remote(s, LastOf(h)) /\ s \in Ranks /\ LastOf(h) \in Ranks
    BY <1>1, Layout DEF Remote
  <2>3. ~Tailed(s, LastOf(h))
    BY <2>1, <2>2 DEF Tails, TailOf
  <2> QED BY <1>1, <2>3
<1>3. CASE \A s \in Locals(p) : \A d \in Locals(h) \ {LastOf(h)} : Partial[s][d] = {TRUE}
  <2>1. PICK s \in Locals(p), d \in Locals(h) : ~Tailed(s, d)
    BY DEF NotAll
  <2>2. Remote(s, d) /\ s \in Ranks /\ d \in Ranks
    BY Layout DEF Remote
  <2>3. sinkClosed[s][d]
    <3>1. Len(wire[p][h]) \in 1 .. Len(wire[p][h]) /\ wire[p][h][Len(wire[p][h])].type = "closeAll"
      <4>1. Len(wire[p][h]) \in Nat
        BY DEF Typed
      <4> QED BY <4>1 DEF Ends
    <3> QED BY <3>1 DEF CloseLast, Told
  <2>4. FALSE \in Partial[s][d]
    BY <2>1, <2>2, <2>3 DEF Tails, TailOf
  <2>5. d = LastOf(h)
    <3> SUFFICES ASSUME d # LastOf(h) PROVE FALSE
      OBVIOUS
    <3>1. Partial[s][d] = {TRUE}
      BY <1>3
    <3>2. FALSE \in {TRUE}
      BY <2>4, <3>1
    <3> QED BY <3>2, Zenon
  <2> QED BY <1>1, <2>1, <2>5
<1> QED BY <1>2, <1>3 DEF LastWaits

\* A loop has still to visit a worker that has not ended.
LEMMA TurnNotDone ==
    ASSUME CloseInv, CleanInv, LateInv, LastWaits, NEW h \in Hosts, CloseAllFor(h)
    PROVE  \E d \in Locals(h) : pc[d] # "done"
<1>1. PICK q : q = todo[h]
  OBVIOUS
<1>2. q # <<>> /\ Head(q).type = "closeAll" /\ q \in Seq(EndItem \cup CloseItem)
  BY <1>1 DEF CloseAllFor, CleanInv, Handling
<1>3. /\ q[1].type = "closeAll" /\ 1 \in 1 .. Len(q) /\ Len(q) \in 1 .. Len(q)
      /\ q[1] \in EndItem \cup CloseItem
  BY <1>2
<1>4. PICK p : p = q[1].from
  OBVIOUS
<1>5. p \in Hosts /\ p # h /\ Ends(wire[p][h])
  <2>1. Rest(h, 1)
    BY <1>1, <1>3 DEF CleanInv, Handling
  <2>2. CloseRest(h, q[1]) /\ q[1] \in CloseItem
    BY <1>1, <1>3, <2>1 DEF Rest, EndItem
  <2> QED BY <1>4, <2>2 DEF CloseRest, CloseItem
<1>6. q[Len(q)].type = "closeAll" /\ q[Len(q)].to = LastOf(h) /\ q[Len(q)].from = p
  BY <1>1, <1>2, <1>3, <1>4 DEF LateInv, LastTurn, LoopsTo
<1>7. PICK d : d = LastOf(h)
  OBVIOUS
<1>8. d \in Locals(h) /\ \E s \in Locals(p) : ~Tailed(s, d)
  BY <1>5, <1>7, ForLast DEF LateInv
<1>9. PICK s \in Locals(p) : ~Tailed(s, d)
  BY <1>8
<1>10. s \in Ranks /\ d \in Ranks /\ Host(s) = p /\ Host(d) = h /\ Remote(s, d)
  BY <1>5, <1>8, <1>9, Layout DEF Remote
<1>11. pc[d] # "done"
  <2> SUFFICES ASSUME pc[d] = "done" PROVE FALSE
    OBVIOUS
  <2>1. IsQueueClosed(stream[d], s)
    BY <1>10 DEF CleanInv, Streaming, Tidy
  <2>2. Turned(p, d)
    BY <1>9, <1>10, <2>1 DEF LateInv, ByMessage
  <2> QED BY <1>1, <1>3, <1>6, <1>7, <1>10, <2>2 DEF Turned
<1> QED BY <1>8, <1>11

\* So no set comes back.
LEMMA NoneReturns ==
    ASSUME CloseInv, CleanInv, LateInv, LastWaits, NoZombie, [Next]_vars
    PROVE  NoZombie'
<1> USE DEF CloseInv
<1>1. CASE UNCHANGED vars
  BY <1>1 DEF vars, setVars, workerVars, NoZombie
<1>2. ASSUME NEW r \in Ranks, NEW e \in Ranks, WorkerStep(r) \/ AppendBlock(r, e)
      PROVE  NoZombie'
  <2>1. CASE Close(r)
    <3>1. peer' = [peer EXCEPT ![r] = FALSE] /\ pc' = [pc EXCEPT ![r] = "done"]
      BY <2>1 DEF Close
    <3> QED BY <3>1 DEF Typed, NoZombie
  <2>2. CASE ~Close(r)
    <3>1. \A d \in Ranks : pc'[d] = "done" <=> pc[d] = "done"
      BY <1>2, <2>2, SameDone
    <3>2. CASE GetNewStream(r)
      <4>1. GetOrCreate(Host(r)) /\ pc[r] = "new" /\ Host(r) \in Hosts /\ r \in Locals(Host(r))
        BY <3>2, Layout DEF GetNewStream
      <4> QED BY <3>1, <4>1, CreateFine
    <3>3. CASE ~GetNewStream(r)
      <4>1. peer' = peer
        BY <1>2, <2>2, <3>3 DEF WorkerStep, Loopback, SendTail, TellTail, PutTail, CloseSink, EndLocal,
              AppendBlock, OnWriterClosed, setVars
      <4> QED BY <3>1, <4>1 DEF NoZombie
    <3> QED BY <3>2, <3>3
  <2> QED BY <2>1, <2>2
<1>3. ASSUME NEW h \in Hosts, DispatcherStep(h) \/ CloseMultiplexer(h)
      PROVE  NoZombie'
  <2>1. pc' = pc
    BY <1>3, DispatcherRow
  <2>2. CASE CloseAllFor(h)
    <3>1. GetOrCreate(h)
      BY <2>2 DEF CloseAllFor
    <3>2. PICK d \in Locals(h) : pc[d] # "done"
      <4> HIDE DEF CloseInv
      <4> QED BY <2>2, TurnNotDone
    <3> QED BY <2>1, <3>1, <3>2, CreateFine
  <2>3. ASSUME NEW p \in Hosts \ {h}, NEW n \in DOMAIN reads[h][p], OnBlockHeader(h, p, n)
        PROVE  NoZombie'
    <3>1. /\ n <= Len(wire[p][h]) /\ wire[p][h][n].type = "block" /\ GetOrCreate(h)
      BY <2>3 DEF OnBlockHeader, Arrived
    <3>2. n = rxSeq[h][p] /\ n \in 1 .. Len(wire[p][h])
      <4>1. ReadFrom(h, p) /\ rxSeq[h][p] \in Nat /\ Len(wire[p][h]) \in Nat
        BY DEF CleanInv, Reading, Typed
      <4> QED BY <3>1, <4>1 DEF ReadFrom
    <3>3. PICK m : m = wire[p][h][n]
      OBVIOUS
    <3>4. /\ m.to \in Ranks /\ Host(m.to) = h /\ m.from \in Awaited(m.to)
          /\ ~IsQueueClosed(stream[m.to], m.from)
      BY <3>1, <3>2, <3>3, NextBlock DEF CleanInv
    <3>5. pc[m.to] # "done" /\ m.to \in Locals(h)
      BY <3>4, OpenNotDone, Layout DEF CleanInv
    <3> QED BY <2>1, <3>1, <3>5, CreateFine
  <2>4. CASE ~CloseAllFor(h) /\ ~\E p \in Hosts \ {h} : \E n \in DOMAIN reads[h][p] :
                OnBlockHeader(h, p, n)
    <3>1. peer' = peer
      BY <1>3, <2>4 DEF DispatcherStep, OnCloseHeader, OnBlock, EndBlock, CloseMultiplexer, setVars
    <3> QED BY <2>1, <3>1 DEF NoZombie
  <2> QED BY <2>2, <2>3, <2>4
<1> QED BY <1>1, <1>2, <1>3 DEF Next, Ended

-----------------------------------------------------------------------------
\* A last block is sent by SendTail only.
LEMMA TailSent ==
    ASSUME Typed, NEW g \in Hosts, NEW q \in Hosts, NEW m \in Message,
           wire' = [wire EXCEPT ![g][q] = Append(@, m)], NEW s \in Ranks, NEW d \in Ranks
    PROVE  /\ Tailed(s, d) => Tailed(s, d)'
           /\ Tailed(s, d)' => \/ Tailed(s, d)
                               \/ m.type = "block" /\ m.from = s /\ m.to = d /\ m.last
           /\ (m.type = "block" /\ m.from = s /\ m.to = d /\ m.last /\ Host(s) = g /\ Host(d) = q)
              => Tailed(s, d)'
<1>1. PICK x \in Hosts, y \in Hosts : x = Host(s) /\ y = Host(d)
  BY Layout
<1>2. PICK w, v : w = wire[x][y] /\ v = wire'[x][y]
  OBVIOUS
<1>3. Tailed(s, d) <=> \E n \in 1 .. Len(w) : w[n].type = "block" /\ w[n].from = s /\ w[n].to = d /\ w[n].last
  BY <1>1, <1>2 DEF Tailed, IsBlock
<1>4. Tailed(s, d)' <=> \E n \in 1 .. Len(v) : v[n].type = "block" /\ v[n].from = s /\ v[n].to = d /\ v[n].last
  BY <1>1, <1>2 DEF Tailed, IsBlock, Host
<1>5. CASE <<x, y>> # <<g, q>>
  <2>1. v = w
    BY <1>2, <1>5, WireTyped
  <2> QED BY <1>1, <1>3, <1>4, <1>5, <2>1
<1>6. CASE x = g /\ y = q
  <2>1. PICK k : k = Len(w)
    OBVIOUS
  <2>2. Len(v) = k + 1 /\ k \in Nat /\ v[k + 1] = m /\ \A n \in 1 .. k : v[n] = w[n]
    <3>1. /\ Len(wire'[g][q]) = Len(wire[g][q]) + 1 /\ Len(wire[g][q]) \in Nat
          /\ wire'[g][q][Len(wire[g][q]) + 1] = m
          /\ \A n \in 1 .. Len(wire[g][q]) : wire'[g][q][n] = wire[g][q][n]
      BY WireTyped, ZenonT(40)
    <3>2. w = wire[g][q] /\ v = wire'[g][q]
      BY <1>2, <1>6
    <3> QED BY <2>1, <3>1, <3>2
  <2>3. \A n \in 1 .. Len(v) : n \in 1 .. k \/ n = k + 1
    BY <2>2
  <2>4. Tailed(s, d) => Tailed(s, d)'
    <3>1. \A n \in 1 .. k : n \in 1 .. Len(v)
      BY <2>2
    <3> QED BY <1>3, <1>4, <2>1, <2>2, <3>1
  <2>5. Tailed(s, d)' => \/ Tailed(s, d)
                         \/ m.type = "block" /\ m.from = s /\ m.to = d /\ m.last
    BY <1>3, <1>4, <2>1, <2>2, <2>3
  <2>6. m.type = "block" /\ m.from = s /\ m.to = d /\ m.last => Tailed(s, d)'
    <3>1. k + 1 \in 1 .. Len(v)
      BY <2>2
    <3> QED BY <1>4, <2>2, <3>1
  <2> QED BY <2>4, <2>5, <2>6
<1> QED BY <1>5, <1>6

\* What a step does to the last blocks.
TailsSame == \A s, d \in Ranks : Tailed(s, d)' <=> Tailed(s, d)
TailAdded(r, x) ==
    /\ SendTail(r) /\ x = CloseTarget(r) /\ Tailed(r, x)'
    /\ \A s, d \in Ranks : <<s, d>> # <<r, x>> => (Tailed(s, d)' <=> Tailed(s, d))

LEMMA TailedStep ==
    ASSUME Typed, [Next]_vars
    PROVE  \/ TailsSame /\ \A r \in Ranks : ~SendTail(r)
           \/ \E r, x \in Ranks : TailAdded(r, x)
<1>1. CASE wire' = wire
  <2>1. TailsSame
    BY <1>1 DEF TailsSame, Tailed, IsBlock, Host
  <2>2. ASSUME NEW r \in Ranks, SendTail(r) PROVE FALSE
    <3>1. PICK x \in Ranks : x = CloseTarget(r)
      BY TargetType
    <3>2. PICK g \in Hosts, q \in Hosts : g = Host(r) /\ q = Host(x)
      BY Layout
    <3>3. PICK m : m = [type |-> "block", from |-> r, to |-> x, seq |-> blocks[r][x], last |-> TRUE]
      OBVIOUS
    <3>4. wire' = [wire EXCEPT ![g][q] = Append(@, m)]
      BY <2>2, <3>1, <3>2, <3>3 DEF SendTail, SendBlock
    <3>5. m \in Message
      BY <3>3, BlockTyped
    <3>6. Len(wire'[g][q]) = Len(wire[g][q]) + 1 /\ Len(wire[g][q]) \in Nat
      BY <3>4, <3>5, WireTyped
    <3> QED BY <1>1, <3>6
  <2> QED BY <2>1, <2>2
<1>2. ASSUME NEW r \in Ranks, NEW e \in Ranks, WorkerStep(r) \/ AppendBlock(r, e), wire' # wire
      PROVE  \/ TailsSame /\ \A z \in Ranks : ~SendTail(z)
             \/ \E z, x \in Ranks : TailAdded(z, x)
  <2>1. \A z \in Ranks : SendTail(z) => z = r
    <3>1. \A z \in Ranks \ {r} : pc'[z] = pc[z]
      BY <1>2, WorkerRow DEF RowSame
    <3>2. \A z \in Ranks : SendTail(z) => pc[z] = "write" /\ pc'[z] = "tell"
      BY DEF SendTail, Typed
    <3> QED BY <3>1, <3>2
  <2>2. CASE SendTail(r)
    <3>1. PICK x \in Ranks : x = CloseTarget(r)
      BY TargetType
    <3>2. PICK g \in Hosts, q \in Hosts : g = Host(r) /\ q = Host(x)
      BY Layout
    <3>3. PICK m : m = [type |-> "block", from |-> r, to |-> x, seq |-> blocks[r][x], last |-> TRUE]
      OBVIOUS
    <3>4. wire' = [wire EXCEPT ![g][q] = Append(@, m)]
      BY <2>2, <3>1, <3>2, <3>3 DEF SendTail, SendBlock
    <3>5. m \in Message /\ m.type = "block" /\ m.from = r /\ m.to = x /\ m.last
      BY <3>3, BlockTyped
    <3>6. Tailed(r, x)'
      BY <3>2, <3>4, <3>5, TailSent
    <3>7. ASSUME NEW s \in Ranks, NEW d \in Ranks, <<s, d>> # <<r, x>>
          PROVE  Tailed(s, d)' <=> Tailed(s, d)
      <4>1. ~(m.from = s /\ m.to = d)
        BY <3>5, <3>7
      <4>2. Tailed(s, d) => Tailed(s, d)'
        BY <3>4, <3>5, TailSent
      <4>3. Tailed(s, d)' => \/ Tailed(s, d)
                             \/ m.type = "block" /\ m.from = s /\ m.to = d /\ m.last
        <5>1. m \in Message
          BY <3>5
        <5> QED BY <3>4, <5>1, TailSent
      <4> QED BY <4>1, <4>2, <4>3, Zenon
    <3> QED BY <2>2, <3>1, <3>6, <3>7 DEF TailAdded
  <2>3. CASE ~SendTail(r)
    <3>1. PICK x \in Ranks, m \in Message :
             /\ wire' = [wire EXCEPT ![Host(r)][Host(x)] = Append(@, m)]
             /\ ~(m.type = "block" /\ m.last)
      <4>1. CASE TellTail(r) \/ CloseSink(r)
        <5>1. PICK x \in Ranks : x = CloseTarget(r)
          BY TargetType
        <5>2. \E sent : OnWriterClosed(r, x, sent, wire)
          BY <4>1, <5>1 DEF TellTail, CloseSink
        <5>3. wire' = [wire EXCEPT ![Host(r)][Host(x)] = Append(@, [type |-> "closeAll"])]
          BY <1>2, <5>2, WriterClosed
        <5>4. PICK m : m = [type |-> "closeAll"]
          OBVIOUS
        <5>5. m \in Message /\ m.type # "block"
          BY <5>4, CloseTyped
        <5> QED BY <5>3, <5>4, <5>5
      <4>2. CASE AppendBlock(r, e)
        <5>1. SendBlock(r, e, FALSE)
          BY <1>2, <4>2 DEF AppendBlock
        <5>2. PICK m : m = [type |-> "block", from |-> r, to |-> e, seq |-> blocks[r][e], last |-> FALSE]
          OBVIOUS
        <5>3. m \in Message /\ ~m.last
          BY <5>2, BlockTyped
        <5>4. wire' = [wire EXCEPT ![Host(r)][Host(e)] = Append(@, m)]
          BY <5>1, <5>2 DEF SendBlock
        <5> QED BY <5>3, <5>4
      <4>3. CASE GetNewStream(r) \/ Loopback(r) \/ PutTail(r) \/ EndLocal(r) \/ Close(r)
        BY <1>2, <4>3 DEF GetNewStream, Loopback, PutTail, EndLocal, Close, netVars
      <4> QED BY <1>2, <2>3, <4>1, <4>2, <4>3 DEF WorkerStep
    <3>2. Host(r) \in Hosts /\ Host(x) \in Hosts
      BY Layout
    <3>3. TailsSame
      <4>1. ASSUME NEW s \in Ranks, NEW d \in Ranks PROVE Tailed(s, d) => Tailed(s, d)'
        BY <3>1, <3>2, TailSent
      <4>2. ASSUME NEW s \in Ranks, NEW d \in Ranks PROVE Tailed(s, d)' => Tailed(s, d)
        <5>1. Tailed(s, d)' => \/ Tailed(s, d)
                               \/ m.type = "block" /\ m.from = s /\ m.to = d /\ m.last
          BY <3>1, <3>2, TailSent
        <5> QED BY <3>1, <5>1, Zenon
      <4> QED BY <4>1, <4>2 DEF TailsSame
    <3> QED BY <2>1, <2>3, <3>3
  <2> QED BY <2>2, <2>3
<1>3. ASSUME NEW h \in Hosts, DispatcherStep(h) \/ CloseMultiplexer(h) PROVE wire' = wire
  BY <1>3, DispatcherRow
<1>4. CASE UNCHANGED vars
  BY <1>1, <1>4 DEF vars, netVars
<1>5. ASSUME NEW r \in Ranks, WorkerStep(r), wire' # wire
      PROVE  \/ TailsSame /\ \A z \in Ranks : ~SendTail(z)
             \/ \E z, x \in Ranks : TailAdded(z, x)
  BY <1>2, <1>5
<1> QED BY <1>1, <1>2, <1>3, <1>4, <1>5 DEF Next, Ended

\* Last blocks stay.
LEMMA TailsStay ==
    ASSUME Typed, [Next]_vars, NEW s \in Ranks, NEW d \in Ranks, Tailed(s, d)
    PROVE  Tailed(s, d)'
BY TailedStep DEF TailsSame, TailAdded

\* An open sink has sent none.
LEMMA OpenTail ==
    ASSUME CloseInv, CleanInv, NEW s \in Ranks, NEW d \in Ranks, Tailed(s, d)
    PROVE  sinkClosed[s][d]
<1>1. PICK p \in Hosts, h \in Hosts : p = Host(s) /\ h = Host(d)
  BY Layout
<1>2. PICK n \in 1 .. Len(wire[p][h]) : IsBlock(s, d, n) /\ wire[p][h][n].last
  BY <1>1 DEF Tailed
<1>3. BlockOnWire(p, h, n)
  BY DEF CleanInv, OnWire
<1> QED BY <1>1, <1>2, <1>3 DEF BlockOnWire, IsBlock

\* Whether a sink ends with a last block depends on what its writer held.
LEMMA TailsStep ==
    ASSUME CloseInv, CleanInv, Tails, [Next]_vars
    PROVE  Tails'
<1> USE DEF CloseInv
<1> SUFFICES ASSUME NEW s \in Ranks, NEW d \in Ranks, Remote(s, d) PROVE TailOf(s, d)'
  BY DEF Tails, Remote, Host
<1>1. TailOf(s, d)
  BY DEF Tails
<1>2. CASE sinkClosed'[s] = sinkClosed[s] /\ pc'[s] = pc[s] /\ pos'[s] = pos[s] /\ ~SendTail(s)
  <2>1. CloseTarget(s)' = CloseTarget(s)
    BY <1>2 DEF CloseTarget
  <2>2. Tailed(s, d)' <=> Tailed(s, d)
    BY <1>2, TailedStep DEF TailsSame, TailAdded
  <2> QED BY <1>1, <1>2, <2>1, <2>2 DEF TailOf
<1>3. CASE SendTail(s)
  <2>1. PICK x \in Ranks : x = CloseTarget(s)
    BY TargetType
  <2>2. /\ TRUE \in Partial[s][x] /\ UNCHANGED pos /\ pc' = [pc EXCEPT ![s] = "tell"]
        /\ sinkClosed' = [sinkClosed EXCEPT ![s][x] = TRUE] /\ ~sinkClosed[s][x] /\ pc[s] = "write"
    BY <1>3, <2>1 DEF SendTail
  <2>3. CloseTarget(s)' = x
    BY <2>1, <2>2 DEF CloseTarget
  <2>4. PICK z, y \in Ranks : TailAdded(z, y)
    BY <1>3, TailedStep
  <2>5. z = s /\ y = x
    <3>1. pc'[s] = "tell" /\ pc[s] = "write" /\ pc' = [pc EXCEPT ![z] = "tell"]
      BY <2>2, <2>4 DEF TailAdded, SendTail, Typed
    <3>2. z = s
      BY <3>1 DEF Typed
    <3> QED BY <2>1, <2>4, <3>2 DEF TailAdded
  <2>6. CASE d = x
    <3>1. Tailed(s, d)'
      BY <2>4, <2>5, <2>6 DEF TailAdded
    <3> QED BY <2>2, <2>6, <3>1 DEF TailOf
  <2>7. CASE d # x
    <3>1. Tailed(s, d)' <=> Tailed(s, d)
      BY <2>4, <2>5, <2>7 DEF TailAdded
    <3>2. sinkClosed'[s][d] = sinkClosed[s][d]
      BY <2>2, <2>7 DEF Typed
    <3> QED BY <1>1, <2>3, <2>7, <3>1, <3>2 DEF TailOf
  <2> QED BY <2>6, <2>7
<1>4. CASE ~SendTail(s) /\ \E e \in Ranks : WorkerStep(s) \/ AppendBlock(s, e)
  <2>1. PICK e \in Ranks : WorkerStep(s) \/ AppendBlock(s, e)
    BY <1>4
  <2>2. Tailed(s, d)' <=> Tailed(s, d)
    BY <1>4, TailedStep DEF TailsSame, TailAdded
  <2>3. pc'[s] # "tell"
    BY <1>4, <2>1, ZenonT(40) DEF WorkerStep, GetNewStream, Loopback, TellTail, PutTail, CloseSink, EndLocal,
                      Close, AppendBlock, NextWriter, sinkVars, workerVars, Typed
  <2>4. sinkClosed'[s][d] => sinkClosed[s][d] \/ FALSE \in Partial[s][d]
    <3>1. CASE CloseSink(s)
      <4>1. PICK x \in Ranks : x = CloseTarget(s)
        BY TargetType
      <4>2. /\ sinkClosed' = [sinkClosed EXCEPT ![s][x] = TRUE]
            /\ pc[s] = "close" \/ FALSE \in Partial[s][x]
        BY <3>1, <4>1 DEF CloseSink
      <4>3. CASE d = x
        <5>1. pc[s] # "close"
          BY <4>1, <4>3 DEF Writing, WritingOf
        <5> QED BY <4>2, <4>3, <5>1
      <4>4. CASE d # x
        BY <4>2, <4>4 DEF Typed
      <4> QED BY <4>3, <4>4
    <3>2. CASE ~CloseSink(s)
      <4>1. UNCHANGED sinkClosed
        BY <1>4, <2>1, <3>2 DEF WorkerStep, GetNewStream, Loopback, TellTail, PutTail, EndLocal,
                      Close, AppendBlock, sinkVars
      <4> QED BY <4>1
    <3> QED BY <3>1, <3>2
  <2> QED BY <1>1, <2>2, <2>3, <2>4 DEF TailOf
<1>5. ASSUME NEW r \in Ranks, r # s, NEW e \in Ranks, WorkerStep(r) \/ AppendBlock(r, e)
      PROVE  TailOf(s, d)'
  <2>1. RowSame(s)
    BY <1>5, WorkerRow
  <2>2. ~SendTail(s)
    BY <2>1 DEF SendTail, RowSame, Typed
  <2> QED BY <1>2, <2>1, <2>2 DEF RowSame
<1>6. ASSUME RowSame(s) PROVE TailOf(s, d)'
  <2>1. ~SendTail(s)
    BY <1>6 DEF SendTail, RowSame, Typed
  <2> QED BY <1>2, <1>6, <2>1 DEF RowSame
<1>7. ASSUME NEW h \in Hosts, DispatcherStep(h) \/ CloseMultiplexer(h) PROVE TailOf(s, d)'
  BY <1>6, <1>7, DispatcherRow
<1>8. CASE UNCHANGED vars
  BY <1>6, <1>8 DEF vars, sinkVars, workerVars, RowSame
<1>9. ASSUME NEW r \in Ranks, NEW e \in Ranks, WorkerStep(r) \/ AppendBlock(r, e) PROVE TailOf(s, d)'
  BY <1>3, <1>4, <1>5, <1>9
<1> QED BY <1>7, <1>8, <1>9 DEF Next, Ended

-----------------------------------------------------------------------------
\* The sinks that have sent a last block are counted by the set of their host.
LEMMA TailsSubset ==
    ASSUME NEW h \in Hosts, NEW p \in Hosts
    PROVE  IsFiniteSet(TailsTo(h, p)) /\ Cardinality(TailsTo(h, p)) \in Nat
<1>1. IsFiniteSet(Locals(h) \X Locals(p))
  BY LocalCount, FS_Product
<1>2. TailsTo(h, p) \in SUBSET (Locals(h) \X Locals(p))
  BY DEF TailsTo
<1> QED BY <1>1, <1>2, FS_Subset, FS_CardinalityType

LEMMA TailsToSame ==
    ASSUME NEW h \in Hosts, NEW p \in Hosts,
           \A s \in Locals(h), d \in Locals(p) : TailTold(s, d)' <=> TailTold(s, d)
    PROVE  TailsTo(h, p)' = TailsTo(h, p)
BY Zenon DEF TailsTo

LEMMA TailsToMore ==
    ASSUME NEW h \in Hosts, NEW p \in Hosts, NEW r \in Locals(h), NEW e \in Locals(p),
           ~TailTold(r, e), TailTold(r, e)',
           \A s \in Locals(h), d \in Locals(p) : <<s, d>> # <<r, e>> =>
              (TailTold(s, d)' <=> TailTold(s, d))
    PROVE  Cardinality(TailsTo(h, p)') = Cardinality(TailsTo(h, p)) + 1
<1>1. <<r, e>> \in Locals(h) \X Locals(p)
  OBVIOUS
<1>2. TailsTo(h, p)' = TailsTo(h, p) \cup {<<r, e>>}
  <2>1. \A y \in Locals(h) \X Locals(p) :
           TailTold(y[1], y[2])' <=> TailTold(y[1], y[2]) \/ y = <<r, e>>
    OBVIOUS
  <2> QED BY <1>1, <2>1 DEF TailsTo
<1>3. <<r, e>> \notin TailsTo(h, p)
  BY DEF TailsTo
<1> QED BY <1>2, <1>3, TailsSubset, FS_AddElement

\* Which of the counted sinks a step adds: the one of TellTail.
LEMMA TailToldStep ==
    ASSUME CloseInv, CleanInv, Tails, [Next]_vars, NEW s \in Ranks, NEW d \in Ranks, Remote(s, d),
           ~(TellTail(s) /\ d = CloseTarget(s))
    PROVE  TailTold(s, d)' <=> TailTold(s, d)
<1> USE DEF CloseInv
<1>1. CASE RowSame(s)
  <2>1. Told(s, d)' = Told(s, d)
    BY <1>1, RowKept
  <2>2. ~SendTail(s)
    BY <1>1 DEF SendTail, RowSame, Typed
  <2>3. Tailed(s, d)' <=> Tailed(s, d)
    BY <2>2, TailedStep DEF TailsSame, TailAdded
  <2> QED BY <2>1, <2>3 DEF TailTold
<1>2. ASSUME NEW e \in Ranks, WorkerStep(s) \/ AppendBlock(s, e)
      PROVE  TailTold(s, d)' <=> TailTold(s, d)
  <2>1. PICK x \in Ranks : x = CloseTarget(s)
    BY TargetType
  <2>2. CASE SendTail(s)
    <3>1. ~TellTail(s) /\ ~CloseSink(s)
      BY <2>2 DEF SendTail, TellTail, CloseSink, NextWriter, Typed
    <3>2. Told(s, d)' <=> Told(s, d)
      BY <1>2, <3>1, ToldStep
    <3>3. CASE d = x
      <4>1. ~Told(s, d)
        BY <2>1, <2>2, <3>3 DEF SendTail, Told
      <4> QED BY <3>2, <4>1 DEF TailTold
    <3>4. CASE d # x
      <4>1. Tailed(s, d)' <=> Tailed(s, d)
        <5>1. \A z, y \in Ranks : TailAdded(z, y) => ~(z = s /\ y = d)
          BY <2>1, <3>4 DEF TailAdded
        <5> QED BY <5>1, TailedStep DEF TailsSame, TailAdded
      <4> QED BY <3>2, <4>1 DEF TailTold
    <3> QED BY <3>3, <3>4
  <2>3. CASE ~SendTail(s)
    <3>1. Tailed(s, d)' <=> Tailed(s, d)
      BY <2>3, TailedStep DEF TailsSame, TailAdded
    <3>2. CASE d = x /\ CloseSink(s)
      <4>1. ~sinkClosed[s][d]
        BY <2>1, <3>2 DEF CloseSink
      <4>2. ~Tailed(s, d)
        <5> HIDE DEF CloseInv
        <5> QED BY <4>1, OpenTail
      <4> QED BY <3>1, <4>2 DEF TailTold
    <3>3. CASE ~(d = x /\ CloseSink(s))
      <4>1. Told(s, d)' <=> Told(s, d)
        BY <1>2, <2>1, <3>3, ToldStep
      <4> QED BY <3>1, <4>1 DEF TailTold
    <3> QED BY <3>2, <3>3
  <2> QED BY <2>2, <2>3
<1>3. ASSUME NEW r \in Ranks, NEW e \in Ranks, WorkerStep(r) \/ AppendBlock(r, e)
      PROVE  TailTold(s, d)' <=> TailTold(s, d)
  BY <1>1, <1>2, <1>3, WorkerRow
<1>4. ASSUME NEW h \in Hosts, DispatcherStep(h) \/ CloseMultiplexer(h)
      PROVE  TailTold(s, d)' <=> TailTold(s, d)
  BY <1>1, <1>4, DispatcherRow
<1>5. CASE UNCHANGED vars
  BY <1>1, <1>5 DEF vars, sinkVars, workerVars, RowSame
<1> QED BY <1>3, <1>4, <1>5 DEF Next, Ended

\* What OnWriterClosed does to the count, and when it sends the message.
LEMMA WriterSent ==
    ASSUME Typed, NEW r \in Ranks, NEW d \in Ranks, NEW sent,
           OnWriterClosed(r, d, sent, wire), NEW h \in Hosts, NEW p \in Hosts
    PROVE  /\ h = Host(r) /\ p = Host(d) /\ sent => sentTo'[h][p] = sentTo[h][p] + 1
           /\ ~(h = Host(r) /\ p = Host(d)) => sentTo'[h][p] = sentTo[h][p]
           /\ ~sent => sentTo'[h][p] = sentTo[h][p]
           /\ wire' # wire => closedTo[Host(r)][Host(d)] + 1 # sentTo'[Host(r)][Host(d)]
<1>1. Host(r) \in Hosts /\ Host(d) \in Hosts
  BY Layout
<1>2. PICK ns : ns = sentTo[Host(r)][Host(d)] + (IF sent THEN 1 ELSE 0)
  OBVIOUS
<1>3. sentTo \in [Hosts -> [Hosts -> Nat]]
  BY DEF Typed
<1>4. sentTo' = [sentTo EXCEPT ![Host(r)][Host(d)] = ns]
  BY <1>2 DEF OnWriterClosed
<1>5. sentTo'[Host(r)][Host(d)] = ns
  BY <1>1, <1>3, <1>4
<1>6. wire' # wire => closedTo[Host(r)][Host(d)] + 1 # ns
  BY <1>2 DEF OnWriterClosed
<1>7. sent => ns = sentTo[Host(r)][Host(d)] + 1
  BY <1>2
<1>8. ~sent => ns = sentTo[Host(r)][Host(d)]
  <2>1. ~sent => ns = sentTo[Host(r)][Host(d)] + 0
    BY <1>2
  <2> QED BY <1>1, <1>3, <2>1
<1>9. ~(h = Host(r) /\ p = Host(d)) => sentTo'[h][p] = sentTo[h][p]
  BY <1>3, <1>4
<1> QED BY <1>5, <1>6, <1>7, <1>8, <1>9

LEMMA TailsCountedStep ==
    ASSUME CloseInv, CleanInv, Tails, TailsCounted, [Next]_vars
    PROVE  TailsCounted'
<1> SUFFICES ASSUME NEW h \in Hosts, NEW p \in Hosts, h # p, ~AllDone(h)'
             PROVE  sentTo'[h][p] = Cardinality(TailsTo(h, p)')
  BY DEF TailsCounted
<1>0. Typed /\ Sets /\ Writing
  BY DEF CloseInv
<1>1. sentTo[h][p] = Cardinality(TailsTo(h, p)) /\ ~AllDone(h)
  BY <1>0, DoneStays DEF TailsCounted
<1>2. \A s \in Locals(h), d \in Locals(p) : s \in Ranks /\ d \in Ranks /\ Remote(s, d)
  BY Layout DEF Remote
<1>3. CASE \E r \in Ranks : TellTail(r) /\ Host(r) = h /\ Host(CloseTarget(r)) = p
  <2>1. PICK r \in Ranks : TellTail(r) /\ Host(r) = h /\ Host(CloseTarget(r)) = p
    BY <1>3
  <2>2. PICK e \in Ranks : e = CloseTarget(r)
    BY <1>0, TargetType
  <2>3. r \in Locals(h) /\ e \in Locals(p) /\ Remote(r, e)
    BY <2>1, <2>2, Layout DEF Remote
  <2>4. \A s \in Ranks : s # r => ~TellTail(s)
    <3>1. \A s \in Ranks \ {r} : pc'[s] = pc[s]
      BY <1>0, <2>1, <2>2, WorkerRow DEF WorkerStep, RowSame
    <3>2. \A s \in Ranks : TellTail(s) => pc[s] = "tell" /\ pc'[s] # "tell"
      BY <1>0 DEF TellTail, NextWriter, Typed
    <3> QED BY <3>1, <3>2
  <2>5. \A s \in Locals(h), d \in Locals(p) : <<s, d>> # <<r, e>> =>
              (TailTold(s, d)' <=> TailTold(s, d))
    BY <1>2, <2>2, <2>4, TailToldStep
  <2>6. ~Told(r, e) /\ Told(r, e)'
    <3>1. WorkerStep(r)
      BY <2>1 DEF WorkerStep
    <3> QED BY <1>0, <2>1, <2>2, <3>1, ToldStep
  <2>7. Tailed(r, e)'
    <3>1. pc[r] = "tell"
      BY <2>1 DEF TellTail
    <3>2. Tailed(r, e)
      BY <2>2, <2>3, <3>1 DEF Tails, TailOf
    <3> QED BY <1>0, <3>2, TailsStay
  <2>8. Cardinality(TailsTo(h, p)') = Cardinality(TailsTo(h, p)) + 1
    <3>1. ~TailTold(r, e) /\ TailTold(r, e)'
      BY <2>6, <2>7 DEF TailTold
    <3> QED BY <2>3, <2>5, <3>1, TailsToMore
  <2>9. sentTo'[h][p] = sentTo[h][p] + 1
    <3>1. PICK b : OnWriterClosed(r, e, b, wire) /\ b = TRUE
      BY <2>1, <2>2 DEF TellTail
    <3>2. h = Host(r) /\ p = Host(e)
      BY <2>1, <2>2
    <3> QED BY <1>0, <3>1, <3>2, WriterSent, ZenonT(40)
  <2> QED BY <1>1, <2>8, <2>9
<1>4. CASE ~\E r \in Ranks : TellTail(r) /\ Host(r) = h /\ Host(CloseTarget(r)) = p
  <2>1. \A s \in Locals(h), d \in Locals(p) : TailTold(s, d)' <=> TailTold(s, d)
    <3>1. \A s \in Locals(h), d \in Locals(p) : ~(TellTail(s) /\ d = CloseTarget(s))
      BY <1>4, Layout
    <3> QED BY <1>2, <3>1, TailToldStep
  <2>2. TailsTo(h, p)' = TailsTo(h, p)
    BY <2>1, TailsToSame
  <2>3. CASE sentTo' = sentTo
    BY <1>1, <2>2, <2>3
  <2>4. ASSUME NEW g \in Hosts, GetOrCreate(g) PROVE sentTo'[h][p] = Cardinality(TailsTo(h, p)')
    <3>1. CASE map[g]
      BY <2>3, <2>4, <3>1 DEF GetOrCreate, setVars
    <3>2. CASE ~map[g]
      <4>1. sentTo' = [sentTo EXCEPT ![g] = [q \in Hosts |-> 0]]
        BY <2>4, <3>2 DEF GetOrCreate, CreateSet
      <4>2. CASE g = h
        <5>1. sentTo'[h][p] = 0
          BY <1>0, <4>1, <4>2 DEF Typed
        <5>2. \A q \in Locals(h) : pc[q] = "new"
          BY <1>0, <1>1, <3>2, <4>2 DEF Sets, AllDone
        <5>3. \A q \in Locals(h), x \in Locals(p) : ~Told(q, x)
          BY <1>0, <5>2, Layout DEF Writing, WritingOf, Told
        <5>4. TailsTo(h, p) = {}
          BY <5>3 DEF TailsTo, TailTold
        <5> QED BY <2>2, <5>1, <5>4, FS_EmptySet
      <4>3. CASE g # h
        <5>1. sentTo'[h][p] = sentTo[h][p]
          BY <1>0, <4>1, <4>3 DEF Typed
        <5> QED BY <1>1, <2>2, <5>1
      <4> QED BY <4>2, <4>3
    <3> QED BY <3>1, <3>2
  <2>5. ASSUME NEW g \in Hosts, DispatcherStep(g) \/ CloseMultiplexer(g)
        PROVE  sentTo'[h][p] = Cardinality(TailsTo(h, p)')
    <3>1. GetOrCreate(g) \/ sentTo' = sentTo
      BY <2>5 DEF DispatcherStep, CloseMultiplexer, OnCloseHeader, OnBlockHeader, OnBlock,
                  EndBlock, CloseAllFor, setVars
    <3> QED BY <2>3, <2>4, <3>1, SMTT(30)
  <2>6. ASSUME NEW r \in Ranks, NEW e \in Ranks, WorkerStep(r) \/ AppendBlock(r, e)
        PROVE  sentTo'[h][p] = Cardinality(TailsTo(h, p)')
    <3>1. PICK x \in Ranks : x = CloseTarget(r)
      BY <1>0, TargetType
    <3>2. CASE TellTail(r)
      <4>1. PICK b : OnWriterClosed(r, x, b, wire) /\ ~(h = Host(r) /\ p = Host(x))
        BY <1>4, <3>1, <3>2 DEF TellTail
      <4>2. sentTo'[h][p] = sentTo[h][p]
        BY <1>0, <4>1, WriterSent
      <4> QED BY <1>1, <2>2, <4>2
    <3>3. CASE CloseSink(r)
      <4>1. PICK b \in BOOLEAN : OnWriterClosed(r, x, b, wire) /\ b = ~Remote(r, x)
        BY <3>1, <3>3 DEF CloseSink, Remote
      <4>2. ~b \/ ~(h = Host(r) /\ p = Host(x))
        BY <4>1 DEF Remote
      <4>3. sentTo'[h][p] = sentTo[h][p]
        BY <1>0, <4>1, <4>2, WriterSent
      <4> QED BY <1>1, <2>2, <4>3
    <3>4. CASE ~(TellTail(r) \/ CloseSink(r))
      <4>1. GetOrCreate(Host(r)) \/ sentTo' = sentTo
        BY <2>6, <3>4 DEF WorkerStep, GetNewStream, Loopback, SendTail, PutTail, EndLocal,
                          Close, AppendBlock, setVars
      <4> QED BY <2>3, <2>4, <4>1, Layout
    <3> QED BY <3>2, <3>3, <3>4
  <2>7. CASE UNCHANGED vars
    BY <2>3, <2>7 DEF vars, setVars
  <2> QED BY <2>3, <2>5, <2>6, <2>7 DEF Next, Ended
<1> QED BY <1>3, <1>4

\* The close message is sent when a sink has sent no last block.
LEMMA NotAllStep ==
    ASSUME CloseInv, CloseInv', CleanInv, LateInv, TailsCounted', [Next]_vars
    PROVE  NotAll'
<1> SUFFICES ASSUME NEW h \in Hosts, NEW p \in Hosts, Ends(wire'[h][p])
             PROVE  \E s \in Locals(h), d \in Locals(p) : ~Tailed(s, d)'
  BY DEF NotAll, Ends
<1>0. Typed /\ Counted' /\ CloseLast /\ Writing
  BY DEF CloseInv
<1>1. CASE Ends(wire[h][p])
  <2>1. PICK s \in Locals(h), d \in Locals(p) : ~Tailed(s, d)
    BY <1>1 DEF LateInv, NotAll
  <2>2. s \in Ranks /\ d \in Ranks
    BY Layout
  <2>3. sinkClosed[s][d]
    <3>1. Len(wire[h][p]) \in Nat
      BY <1>0 DEF Typed
    <3>2. Len(wire[h][p]) \in 1 .. Len(wire[h][p]) /\ wire[h][p][Len(wire[h][p])].type = "closeAll"
      BY <1>1, <3>1 DEF Ends
    <3> QED BY <1>0, <3>2 DEF CloseLast, Told
  <2>4. \A r, x \in Ranks : TailAdded(r, x) => <<s, d>> # <<r, x>>
    BY <2>3 DEF TailAdded, SendTail
  <2>5. ~Tailed(s, d)'
    BY <1>0, <2>1, <2>2, <2>4, TailedStep DEF TailsSame, TailAdded
  <2> QED BY <2>5
<1>2. CASE ~Ends(wire[h][p])
  <2>1. wire'[h][p] # wire[h][p]
    BY <1>2 DEF Ends
  <2>2. PICK r \in Ranks, e \in Ranks : WorkerStep(r) \/ AppendBlock(r, e)
    <3>1. ASSUME NEW g \in Hosts, DispatcherStep(g) \/ CloseMultiplexer(g) PROVE wire' = wire
      BY <3>1, DispatcherRow
    <3>2. UNCHANGED vars => wire' = wire
      BY DEF vars, netVars
    <3> QED BY <2>1, <3>1, <3>2 DEF Next, Ended
  <2>3. ASSUME NEW x \in Ranks, NEW last \in BOOLEAN, SendBlock(r, x, last) PROVE FALSE
    <3>1. PICK m : m = [type |-> "block", from |-> r, to |-> x, seq |-> blocks[r][x], last |-> last]
      OBVIOUS
    <3>2. m \in Message /\ m.type = "block"
      BY <1>0, <3>1, BlockTyped
    <3>3. wire' = [wire EXCEPT ![Host(r)][Host(x)] = Append(@, m)]
      BY <2>3, <3>1 DEF SendBlock
    <3>4. Host(r) \in Hosts /\ Host(x) \in Hosts
      BY Layout
    <3>5. h = Host(r) /\ p = Host(x)
      BY <1>0, <2>1, <3>2, <3>3, <3>4, WireTyped
    <3>6. wire'[h][p][Len(wire[h][p]) + 1] = m /\ Len(wire'[h][p]) = Len(wire[h][p]) + 1
      <4>1. PICK g \in Hosts, q \in Hosts : g = Host(r) /\ q = Host(x)
        BY <3>4
      <4>2. wire' = [wire EXCEPT ![g][q] = Append(@, m)]
        BY <3>3, <4>1
      <4>3. wire'[g][q][Len(wire[g][q]) + 1] = m /\ Len(wire'[g][q]) = Len(wire[g][q]) + 1
        BY <1>0, <3>2, <4>2, WireTyped, ZenonT(40)
      <4> QED BY <3>5, <4>1, <4>3
    <3> QED BY <3>2, <3>6 DEF Ends
  <2>4. PICK d \in Ranks, sent \in BOOLEAN :
           OnWriterClosed(r, d, sent, wire) /\ d = CloseTarget(r) /\ (TellTail(r) \/ CloseSink(r))
    <3>1. PICK x \in Ranks : x = CloseTarget(r)
      BY <1>0, TargetType
    <3>2. CASE TellTail(r) \/ CloseSink(r)
      BY <3>1, <3>2 DEF TellTail, CloseSink
    <3>3. CASE SendTail(r) \/ AppendBlock(r, e)
      <4>1. (\E y \in Ranks, last \in BOOLEAN : SendBlock(r, y, last)) \/ wire' = wire
        BY <3>1, <3>3 DEF SendTail, AppendBlock
      <4> QED BY <2>1, <2>3, <4>1
    <3>4. CASE GetNewStream(r) \/ Loopback(r) \/ PutTail(r) \/ EndLocal(r) \/ Close(r)
      BY <2>1, <3>4 DEF GetNewStream, Loopback, PutTail, EndLocal, Close, netVars
    <3> QED BY <2>2, <3>2, <3>3, <3>4 DEF WorkerStep
  <2>5. /\ closedTo' = [closedTo EXCEPT ![Host(r)][Host(d)] = @ + 1]
        /\ wire' = [wire EXCEPT ![Host(r)][Host(d)] = Append(@, [type |-> "closeAll"])]
        /\ Host(r) # Host(d)
        /\ closedTo[Host(r)][Host(d)] + 1 = WorkersPerHost * WorkersPerHost
    BY <1>0, <2>1, <2>4, WriterClosed
  <2>6. h = Host(r) /\ p = Host(d)
    <3>1. wire \in [Hosts -> [Hosts -> Seq(Message)]]
      BY <1>0 DEF Typed
    <3> QED BY <2>1, <2>5, <3>1
  <2>7. closedTo'[h][p] = WorkersPerHost * WorkersPerHost /\ closedTo'[h][p] # sentTo'[h][p]
    <3>1. closedTo \in [Hosts -> [Hosts -> Nat]]
      BY <1>0 DEF Typed
    <3>2. closedTo'[h][p] = closedTo[h][p] + 1
      BY <2>5, <2>6, <3>1
    <3>3. closedTo[Host(r)][Host(d)] + 1 # sentTo'[Host(r)][Host(d)]
      BY <1>0, <2>1, <2>4, WriterSent
    <3> QED BY <2>5, <2>6, <3>2, <3>3
  <2>8. ~AllDone(h)'
    <3>1. TellTail(r) \/ CloseSink(r)
      BY <2>4
    <3>2. pc \in [Ranks -> PCs] /\ pc'[r] # "done"
      BY <1>0, <3>1, ZenonT(40) DEF TellTail, CloseSink, NextWriter, Typed
    <3>3. r \in Locals(h)
      BY <2>6, Layout
    <3> QED BY <3>2, <3>3 DEF AllDone
  <2>9. Cardinality(ToldTo(h, p)') # Cardinality(TailsTo(h, p)')
    <3>1. closedTo'[h][p] = Cardinality(ToldTo(h, p)')
      BY <1>0, <2>8 DEF Counted
    <3>2. sentTo'[h][p] = Cardinality(TailsTo(h, p)')
      BY <2>5, <2>6, <2>8 DEF TailsCounted
    <3> QED BY <2>7, <3>1, <3>2
  <2>10. PICK y \in Locals(h) \X Locals(p) : y \in ToldTo(h, p)' /\ y \notin TailsTo(h, p)'
    <3>1. TailsTo(h, p)' \subseteq ToldTo(h, p)'
      BY DEF TailsTo, ToldTo, TailTold
    <3>2. ToldTo(h, p)' # TailsTo(h, p)'
      BY <2>9
    <3> QED BY <3>1, <3>2 DEF ToldTo
  <2>11. y[1] \in Locals(h) /\ y[2] \in Locals(p) /\ Told(y[1], y[2])' /\ ~TailTold(y[1], y[2])'
    BY <2>10 DEF ToldTo, TailsTo
  <2> QED BY <2>11 DEF TailTold
<1> QED BY <1>1, <1>2

\* What a step does to the rest of a handler.
StartsLoop(h, p) ==
    /\ p # h /\ rxSeq[h][p] \in Nat /\ rxSeq[h][p] <= Len(wire[p][h])
    /\ todo'[h] = CloseAllLoop(h, p)
LeavesEnd(h, p, n) ==
    /\ n \in 1 .. Len(wire[p][h]) /\ wire[p][h][n].type = "block"
    /\ \/ todo'[h] = <<>>
       \/ /\ wire[p][h][n].last /\ Len(todo'[h]) = 1 /\ todo'[h][1].type = "end"
          /\ todo'[h][1].from = wire[p][h][n].from /\ todo'[h][1].to = wire[p][h][n].to

LEMMA TodoStep ==
    ASSUME CloseInv, CleanInv, [Next]_vars, NEW h \in Hosts
    PROVE  \/ todo'[h] = todo[h]
           \/ todo[h] # <<>> /\ todo'[h] = Tail(todo[h])
           \/ \E p \in Hosts : StartsLoop(h, p)
           \/ \E p \in Hosts : \E n : LeavesEnd(h, p, n)
<1> USE DEF CloseInv
<1>1. CASE todo' = todo
  BY <1>1
<1>2. CASE \E g \in Hosts : DispatcherStep(g)
  <2>1. PICK g \in Hosts : DispatcherStep(g)
    BY <1>2
  <2>2. todo \in [Hosts -> Seq(EndItem \cup CloseItem)]
    BY DEF CleanInv, Handling
  <2>3. CASE EndBlock(g) \/ CloseAllFor(g)
    <3>1. todo[g] # <<>> /\ todo' = [todo EXCEPT ![g] = Tail(@)]
      BY <2>3 DEF EndBlock, CloseAllFor
    <3> QED BY <2>2, <3>1
  <2>4. ASSUME NEW p \in Hosts \ {g}, NEW n \in DOMAIN reads[g][p],
               OnCloseHeader(g, p, n) \/ OnBlockHeader(g, p, n) \/ OnBlock(g, p, n)
        PROVE  \/ todo'[h] = todo[h]
               \/ \E q \in Hosts : StartsLoop(h, q)
               \/ \E q \in Hosts : \E k : LeavesEnd(h, q, k)
    <3>1. ReadFrom(g, p) /\ rxSeq[g][p] \in Nat /\ Len(wire[p][g]) \in Nat
      BY DEF CleanInv, Reading, Typed
    <3>2. n = rxSeq[g][p] /\ n >= 1 /\ n <= Len(wire[p][g])
      BY <2>4, <3>1 DEF ReadFrom, OnCloseHeader, OnBlockHeader, OnBlock, Arrived
    <3>3. CASE OnCloseHeader(g, p, n)
      <4>1. todo' = [todo EXCEPT ![g] = CloseAllLoop(g, p)]
        BY <3>3 DEF OnCloseHeader
      <4>2. CASE g = h
        <5>1. StartsLoop(h, p)
          BY <2>2, <3>1, <3>2, <4>1, <4>2 DEF StartsLoop
        <5> QED BY <5>1
      <4>3. CASE g # h
        BY <2>2, <4>1, <4>3
      <4> QED BY <4>2, <4>3
    <3>4. CASE OnBlockHeader(g, p, n)
      BY <3>4 DEF OnBlockHeader
    <3>5. CASE OnBlock(g, p, n)
      <4>1. PICK m, t : /\ m = wire[p][g][n]
                        /\ t = [type |-> "end", to |-> m.to, from |-> m.from, seq |-> m.seq + 1]
        OBVIOUS
      <4>2. todo' = [todo EXCEPT ![g] = IF m.last THEN <<t>> ELSE <<>>]
        BY <3>5, <4>1 DEF OnBlock
      <4>3. CASE g = h
        <5>1. todo'[h] = IF m.last THEN <<t>> ELSE <<>>
          BY <2>2, <4>2, <4>3
        <5>2. reads[g][p][n] = "body"
          BY <3>5 DEF OnBlock, Arrived
        <5>3. m.type = "block" /\ n \in 1 .. Len(wire[p][g])
          BY <3>1, <3>2, <4>1, <5>2 DEF ReadFrom
        <5>4. \/ todo'[h] = <<>>
              \/ /\ m.last /\ Len(todo'[h]) = 1 /\ todo'[h][1].type = "end"
                 /\ todo'[h][1].from = m.from /\ todo'[h][1].to = m.to
          <6>1. t.type = "end" /\ t.from = m.from /\ t.to = m.to
            BY <4>1
          <6>2. Len(<<t>>) = 1 /\ <<t>>[1] = t
            OBVIOUS
          <6> QED BY <5>1, <6>1, <6>2
        <5>5. LeavesEnd(h, p, n)
          BY <4>1, <4>3, <5>3, <5>4 DEF LeavesEnd
        <5> QED BY <5>5
      <4>4. CASE g # h
        BY <2>2, <4>2, <4>4
      <4> QED BY <4>3, <4>4
    <3> QED BY <2>4, <3>3, <3>4, <3>5
  <2> QED BY <2>1, <2>3, <2>4 DEF DispatcherStep
<1>3. ASSUME NEW r \in Ranks, NEW e \in Ranks, WorkerStep(r) \/ AppendBlock(r, e)
      PROVE  todo' = todo
  BY <1>3 DEF WorkerStep, GetNewStream, Loopback, SendTail, TellTail, PutTail, CloseSink, EndLocal,
              Close, AppendBlock, netVars, readVars
<1>4. ASSUME NEW g \in Hosts, CloseMultiplexer(g) PROVE todo' = todo
  BY <1>4 DEF CloseMultiplexer, netVars, readVars
<1>5. CASE UNCHANGED vars
  BY <1>5 DEF vars, netVars, readVars
<1> QED BY <1>1, <1>2, <1>3, <1>4, <1>5 DEF Next, Ended

\* The item of the loop for a worker, and the workers in it.
LEMMA LoopItems ==
    ASSUME NEW h \in Hosts, NEW p \in Hosts
    PROVE  /\ Len(CloseAllLoop(h, p)) = WorkersPerHost
           /\ \A i \in 1 .. WorkersPerHost :
                 LET t == CloseAllLoop(h, p)[i]
                 IN  t.type = "closeAll" /\ t.from = p /\ t.to = h * WorkersPerHost + i - 1
<1>1. WorkersPerHost \in Nat
  BY ConstantsAssumption
<1> QED BY <1>1 DEF CloseAllLoop

\* A closing block is left behind a last block; a loop visits each worker once,
\* the last one at its end.
EndsBehind(u) ==
    \A i \in 1 .. Len(u) : u[i].type = "end" =>
        u[i].from \in Ranks /\ u[i].to \in Ranks /\ Tailed(u[i].from, u[i].to)
Distinct(u) ==
    \A i, j \in 1 .. Len(u) : u[i].type = "closeAll" /\ u[j].type = "closeAll" /\ i # j
        => u[i].to # u[j].to

LEMMA LoopFine ==
    ASSUME NEW h \in Hosts, NEW p \in Hosts, NEW u, u = CloseAllLoop(h, p)
    PROVE  EndsBehind(u) /\ Distinct(u) /\ LoopsTo(u, h)
<1>1. WorkersPerHost \in Nat \ {0}
  BY ConstantsAssumption
<1>2. /\ Len(u) = WorkersPerHost
      /\ \A i \in 1 .. WorkersPerHost :
            u[i].type = "closeAll" /\ u[i].from = p /\ u[i].to = h * WorkersPerHost + i - 1
  BY LoopItems
<1>3. PICK x \in Int : x = h * WorkersPerHost
  BY <1>1 DEF Hosts
<1>4. EndsBehind(u)
  BY <1>2 DEF EndsBehind
<1>5. Distinct(u)
  <2>1. \A i \in 1 .. Len(u) : u[i].to = x + i - 1
    BY <1>2, <1>3
  <2>2. \A i, j \in 1 .. Len(u) : i # j => x + i - 1 # x + j - 1
    BY <1>1, <1>2
  <2> QED BY <2>1, <2>2 DEF Distinct
<1>6. LoopsTo(u, h)
  <2>1. Len(u) \in 1 .. WorkersPerHost /\ 1 \in 1 .. WorkersPerHost
    BY <1>1, <1>2
  <2>2. u[Len(u)].type = "closeAll" /\ \A i \in 1 .. Len(u) : u[i].from = p
    BY <1>2, <2>1
  <2>3. u[Len(u)].to = x + WorkersPerHost - 1
    BY <1>2, <1>3, <2>1
  <2>4. LastOf(h) = x + WorkersPerHost - 1
    BY <1>3 DEF LastOf
  <2> QED BY <1>2, <2>1, <2>2, <2>3, <2>4 DEF LoopsTo
<1> QED BY <1>4, <1>5, <1>6

LEMMA TailFine ==
    ASSUME NEW h \in Hosts, NEW q \in Seq(EndItem \cup CloseItem), q # <<>>, NEW u, u = Tail(q),
           \A i \in 1 .. Len(q) : q[i].type = "end" => Len(q) = 1,
           Distinct(q), LoopsTo(q, h)
    PROVE  EndsBehind(u) /\ Distinct(u) /\ LoopsTo(u, h)
<1>1. Len(u) = Len(q) - 1 /\ Len(q) \in Nat /\ \A i \in 1 .. Len(u) : u[i] = q[i + 1]
  OBVIOUS
<1>2. \A i \in 1 .. Len(u) : i + 1 \in 1 .. Len(q) /\ Len(q) # 1
  BY <1>1
<1>3. EndsBehind(u)
  BY <1>1, <1>2 DEF EndsBehind
<1>4. Distinct(u)
  <2>1. ASSUME NEW i \in 1 .. Len(u), NEW j \in 1 .. Len(u), i # j,
               u[i].type = "closeAll", u[j].type = "closeAll"
        PROVE  u[i].to # u[j].to
    <3>1. i + 1 # j + 1
      BY <1>1, <2>1
    <3> QED BY <1>1, <1>2, <2>1, <3>1 DEF Distinct
  <2> QED BY <2>1 DEF Distinct
<1>5. LoopsTo(u, h)
  <2> SUFFICES ASSUME NEW i \in 1 .. Len(u), u[i].type = "closeAll"
               PROVE  /\ u[Len(u)].type = "closeAll" /\ u[Len(u)].to = LastOf(h)
                      /\ u[Len(u)].from = u[i].from
    BY DEF LoopsTo
  <2>1. Len(u) \in 1 .. Len(u) /\ Len(u) + 1 = Len(q)
    BY <1>1
  <2>2. u[Len(u)] = q[Len(q)] /\ u[i] = q[i + 1] /\ i + 1 \in 1 .. Len(q)
    BY <1>1, <1>2, <2>1
  <2> QED BY <2>2 DEF LoopsTo
<1> QED BY <1>3, <1>4, <1>5

LEMMA EndFine ==
    ASSUME CloseInv, CleanInv, NEW h \in Hosts, NEW p \in Hosts, NEW n, NEW u, u = todo'[h],
           LeavesEnd(h, p, n)
    PROVE  EndsBehind(u) /\ Distinct(u) /\ LoopsTo(u, h)
<1>1. CASE u = <<>>
  BY <1>1 DEF EndsBehind, Distinct, LoopsTo
<1>2. CASE u # <<>>
  <2>1. PICK m : m = wire[p][h][n] /\ m.type = "block" /\ n \in 1 .. Len(wire[p][h])
    BY DEF LeavesEnd
  <2>2. m.last /\ Len(u) = 1 /\ u[1].type = "end" /\ u[1].from = m.from /\ u[1].to = m.to
    BY <1>2, <2>1 DEF LeavesEnd
  <2>3. m \in Block
    <3>1. wire[p][h] \in Seq(Message)
      BY DEF CloseInv, Typed
    <3>2. m \in Message
      BY <2>1, <3>1
    <3> QED BY <2>1, <3>2 DEF Message, CloseMsg
  <2>4. PICK s \in Ranks, d \in Ranks : s = m.from /\ d = m.to
    BY <2>3 DEF Block
  <2>5. Host(s) = p /\ Host(d) = h
    <3>1. BlockOnWire(p, h, n)
      BY <2>1 DEF CleanInv, OnWire
    <3> QED BY <2>1, <2>4, <3>1 DEF BlockOnWire
  <2>6. Tailed(s, d)
    BY <2>1, <2>2, <2>4, <2>5 DEF Tailed, IsBlock
  <2>7. \A i \in 1 .. Len(u) : i = 1
    BY <2>2
  <2> QED BY <2>2, <2>4, <2>6, <2>7 DEF EndsBehind, Distinct, LoopsTo
<1> QED BY <1>1, <1>2

LEMMA TodoFine ==
    ASSUME CloseInv, CleanInv, Behind, Once, LastTurn, [Next]_vars
    PROVE  Behind' /\ Once' /\ LastTurn'
<1>1. ASSUME NEW h \in Hosts, NEW u, u = todo'[h]
      PROVE  EndsBehind(u) /\ Distinct(u) /\ LoopsTo(u, h)
  <2>1. PICK q : q = todo[h]
    OBVIOUS
  <2>2. q \in Seq(EndItem \cup CloseItem)
    BY <2>1 DEF CleanInv, Handling
  <2>3. Distinct(q) /\ LoopsTo(q, h)
    BY <2>1 DEF Once, Distinct, LastTurn
  <2>4. EndsBehind(q)
    <3> SUFFICES ASSUME NEW i \in 1 .. Len(q), q[i].type = "end"
                 PROVE  q[i].from \in Ranks /\ q[i].to \in Ranks /\ Tailed(q[i].from, q[i].to)
      BY DEF EndsBehind
    <3>1. q[i] \in EndItem \cup CloseItem
      BY <2>2
    <3>2. q[i] \in EndItem
      BY <3>1 DEF CloseItem
    <3> QED BY <2>1, <3>2 DEF EndItem, Behind
  <2>5. \A i \in 1 .. Len(q) : q[i].type = "end" => Len(q) = 1
    BY <2>1 DEF CleanInv, Handling, Rest
  <2>6. \/ u = q \/ (q # <<>> /\ u = Tail(q)) \/ (\E p \in Hosts : StartsLoop(h, p))
        \/ \E p \in Hosts : \E n : LeavesEnd(h, p, n)
    BY <1>1, <2>1, TodoStep
  <2>7. CASE u = q
    BY <2>3, <2>4, <2>7
  <2>8. CASE q # <<>> /\ u = Tail(q)
    BY <2>2, <2>3, <2>5, <2>8, TailFine
  <2>9. CASE \E p \in Hosts : StartsLoop(h, p)
    BY <1>1, <2>9, LoopFine DEF StartsLoop
  <2>10. CASE \E p \in Hosts : \E n : LeavesEnd(h, p, n)
    BY <1>1, <2>10, EndFine
  <2> QED BY <2>6, <2>7, <2>8, <2>9, <2>10
<1>2. Behind'
  <2> SUFFICES ASSUME NEW h \in Hosts, NEW i \in 1 .. Len(todo'[h]), todo'[h][i].type = "end"
               PROVE  Tailed(todo[h][i].from, todo[h][i].to)'
    BY DEF Behind
  <2>1. PICK s, d : s = todo'[h][i].from /\ d = todo'[h][i].to
    OBVIOUS
  <2>2. s \in Ranks /\ d \in Ranks /\ Tailed(s, d)
    BY <1>1, <2>1 DEF EndsBehind
  <2>3. Tailed(s, d)'
    BY <2>2, TailsStay DEF CloseInv
  <2> QED BY <2>1, <2>3
<1>3. Once'
  BY <1>1 DEF Once, Distinct
<1>4. LastTurn'
  <2>1. ASSUME NEW h \in Hosts PROVE LoopsTo(todo[h], h)'
    <3>1. PICK u : u = todo'[h]
      OBVIOUS
    <3>2. LoopsTo(u, h)
      BY <1>1, <3>1
    <3> QED BY <3>1, <3>2 DEF LoopsTo, LastOf
  <2> QED BY <2>1 DEF LastTurn
<1> QED BY <1>2, <1>3, <1>4

\* Reads are posted in the order of the messages.
LEMMA ReadsGoOn ==
    ASSUME CloseInv, CleanInv, [Next]_vars, NEW h \in Hosts, NEW p \in Hosts
    PROVE  rxSeq'[h][p] >= rxSeq[h][p]
<1>0. rxSeq \in [Hosts -> [Hosts -> Nat]]
  BY DEF CleanInv, Reading
<1>1. CASE rxSeq' = rxSeq
  BY <1>0, <1>1
<1>2. ASSUME NEW g \in Hosts, NEW q \in Hosts, rxSeq' = [rxSeq EXCEPT ![g][q] = @ + 1]
      PROVE  rxSeq'[h][p] >= rxSeq[h][p]
  BY <1>0, <1>2
<1>3. ASSUME NEW g \in Hosts, DispatcherStep(g)
      PROVE  rxSeq' = rxSeq \/ \E q \in Hosts : rxSeq' = [rxSeq EXCEPT ![g][q] = @ + 1]
  <2>1. ASSUME NEW q \in Hosts \ {g}, NEW n \in DOMAIN reads[g][q],
               OnCloseHeader(g, q, n) \/ OnBlockHeader(g, q, n) \/ OnBlock(g, q, n)
        PROVE  rxSeq' = rxSeq \/ rxSeq' = [rxSeq EXCEPT ![g][q] = @ + 1]
    BY <2>1 DEF OnCloseHeader, OnBlockHeader, OnBlock, CompleteRead
  <2>2. CASE EndBlock(g) \/ CloseAllFor(g)
    BY <2>2 DEF EndBlock, CloseAllFor
  <2> QED BY <1>3, <2>1, <2>2 DEF DispatcherStep
<1>4. ASSUME NEW r \in Ranks, NEW e \in Ranks, WorkerStep(r) \/ AppendBlock(r, e)
      PROVE  rxSeq' = rxSeq
  BY <1>4 DEF WorkerStep, GetNewStream, Loopback, SendTail, TellTail, PutTail, CloseSink, EndLocal,
              Close, AppendBlock, netVars, readVars
<1>5. ASSUME NEW g \in Hosts, CloseMultiplexer(g) PROVE rxSeq' = rxSeq
  BY <1>5 DEF CloseMultiplexer, netVars, readVars
<1>6. CASE UNCHANGED vars
  BY <1>1, <1>6 DEF vars, netVars, readVars
<1> QED BY <1>1, <1>2, <1>3, <1>4, <1>5, <1>6 DEF Next, Ended


\* What is handled stays handled.
LEMMA TurnedStays ==
    ASSUME CloseInv, CloseInv', CleanInv, CleanInv', [Next]_vars,
           NEW p \in Hosts, NEW d \in Ranks, p # Host(d), Turned(p, d)
    PROVE  Turned(p, d)'
<1> USE DEF CloseInv
<1>1. PICK h \in Hosts : h = Host(d)
  BY Layout
<1>2. Ends(wire[p][h]) /\ rxSeq[h][p] = Len(wire[p][h]) + 1
  BY <1>1 DEF Turned
<1>3. Len(wire'[p][h]) = Len(wire[p][h]) /\ Ends(wire'[p][h]) /\ Len(wire[p][h]) \in Nat
  <2>1. WiresStep
    BY WiresStepped
  <2>2. Len(wire[p][h]) \in Nat
    BY DEF Typed
  <2> QED BY <1>2, <2>1, <2>2, Frozen
<1>4. rxSeq'[h][p] = rxSeq[h][p]
  <2>1. rxSeq'[h][p] >= rxSeq[h][p]
    <3> HIDE DEF CloseInv
    <3> QED BY ReadsGoOn
  <2>2. rxSeq'[h][p] \in Nat /\ rxSeq'[h][p] <= Len(wire'[p][h]) + 1
    BY <1>1 DEF CleanInv, Reading, ReadFrom
  <2> QED BY <1>2, <1>3, <2>1, <2>2
<1>5. PICK q, u : q = todo[h] /\ u = todo'[h]
  OBVIOUS
<1>6. \A i \in 1 .. Len(q) : q[i].type = "closeAll" => ~(q[i].to = d /\ q[i].from = p)
  BY <1>1, <1>5 DEF Turned
<1>7. \A i \in 1 .. Len(u) : u[i].type = "closeAll" => ~(u[i].to = d /\ u[i].from = p)
  <2>1. CASE u = q
    BY <1>6, <2>1
  <2>2. CASE q # <<>> /\ u = Tail(q)
    <3>1. q \in Seq(EndItem \cup CloseItem)
      BY <1>5 DEF CleanInv, Handling
    <3>2. Len(u) = Len(q) - 1 /\ Len(q) \in Nat /\ \A i \in 1 .. Len(u) : u[i] = q[i + 1]
      BY <2>2, <3>1
    <3>3. \A i \in 1 .. Len(u) : i + 1 \in 1 .. Len(q)
      BY <3>2
    <3> QED BY <1>6, <3>2, <3>3
  <2>3. ASSUME NEW g \in Hosts, StartsLoop(h, g)
        PROVE  \A i \in 1 .. Len(u) : u[i].from # p
    <3>1. u = CloseAllLoop(h, g) /\ rxSeq[h][g] <= Len(wire[g][h]) /\ rxSeq[h][g] \in Nat
      BY <1>5, <2>3 DEF StartsLoop
    <3>2. g # p
      BY <1>2, <1>3, <3>1
    <3>3. \A i \in 1 .. Len(u) : u[i].from = g
      BY <3>1, LoopItems
    <3> QED BY <3>2, <3>3
  <2>4. ASSUME NEW g \in Hosts, NEW n, LeavesEnd(h, g, n)
        PROVE  \A i \in 1 .. Len(u) : u[i].type # "closeAll"
    <3>1. u = <<>> \/ (Len(u) = 1 /\ u[1].type = "end")
      BY <1>5, <2>4 DEF LeavesEnd
    <3>2. CASE u = <<>>
      BY <3>2
    <3>3. CASE Len(u) = 1 /\ u[1].type = "end"
      <4>1. \A i \in 1 .. Len(u) : i = 1
        BY <3>3
      <4> QED BY <3>3, <4>1
    <3> QED BY <3>1, <3>2, <3>3
  <2>5. \/ u = q \/ (q # <<>> /\ u = Tail(q)) \/ (\E g \in Hosts : StartsLoop(h, g))
        \/ \E g \in Hosts : \E n : LeavesEnd(h, g, n)
    <3> HIDE DEF CloseInv
    <3> QED BY <1>5, TodoStep
  <2> QED BY <2>1, <2>2, <2>3, <2>4, <2>5
<1>8. Host(d)' = h
  BY <1>1 DEF Host
<1>9. rxSeq'[h][p] = Len(wire'[p][h]) + 1
  BY <1>2, <1>3, <1>4
<1> QED BY <1>3, <1>5, <1>7, <1>8, <1>9 DEF Turned

LEMMA ByMessageStep ==
    ASSUME CloseInv, CloseInv', CleanInv, CleanInv', LateInv, NoZombie', [Next]_vars
    PROVE  ByMessage'
<1> SUFFICES ASSUME NEW s \in Ranks, NEW d \in Ranks, Remote(s, d), ~Tailed(s, d)',
                    IsQueueClosed(stream'[d], s)
             PROVE  Turned(Host(s), d)'
  BY DEF ByMessage, Remote, Host
<1>0. ~Tailed(s, d)
  BY TailsStay DEF CloseInv
<1>1. PICK h \in Hosts, p \in Hosts : h = Host(d) /\ p = Host(s)
  BY Layout
<1>2. Remote(s, d) /\ p # h
  BY <1>1 DEF Remote
<1>3. CASE IsQueueClosed(stream[d], s)
  <2>1. Turned(p, d)
    BY <1>0, <1>1, <1>3 DEF LateInv, ByMessage
  <2>2. Turned(p, d)'
    BY <1>1, <1>2, <2>1, TurnedStays
  <2> QED BY <1>1, <2>2
<1>4. CASE ~IsQueueClosed(stream[d], s)
  <2>1. ~QueueKept(s, d)
    BY <1>4 DEF QueueKept, IsQueueClosed
  <2>2. ClosedByBlock(s, d) \/ ClosedByMessage(s, d)
    BY <1>2, <2>1, QueueStep
  <2>3. ~ClosedByBlock(s, d)
    <3> SUFFICES ASSUME NEW u, EndPutBlock(h, s, d, u) PROVE FALSE
      BY <1>1 DEF ClosedByBlock
    <3>1. 1 \in 1 .. Len(todo[h]) /\ todo[h][1].type = "end" /\ todo[h][1].from = s /\ todo[h][1].to = d
      BY DEF EndPutBlock
    <3>2. Tailed(s, d)
      BY <3>1 DEF LateInv, Behind
    <3> QED BY <1>0, <3>2
  <2>4. PICK o, u : ClosePut(h, p, d, o, u) /\ CloseAllFor(h)
    BY <1>1, <2>2, <2>3 DEF ClosedByMessage
  <2>5. /\ Ends(wire[p][h]) /\ rxSeq[h][p] = Len(wire[p][h]) + 1 /\ todo[h] # <<>>
        /\ todo[h][1].type = "closeAll" /\ todo[h][1].to = d
        /\ todo' = [todo EXCEPT ![h] = Tail(@)]
    BY <2>4 DEF ClosePut
  <2>6. wire' = wire /\ rxSeq' = rxSeq
    BY <2>4 DEF CloseAllFor
  <2>7. todo[h] \in Seq(EndItem \cup CloseItem) /\ todo \in [Hosts -> Seq(EndItem \cup CloseItem)]
    BY DEF CleanInv, Handling
  <2>8. PICK q : q = todo[h]
    OBVIOUS
  <2>9. q \in Seq(EndItem \cup CloseItem) /\ q # <<>> /\ todo'[h] = Tail(q) /\ q[1].type = "closeAll" /\ q[1].to = d
    BY <2>5, <2>7, <2>8
  <2>10. \A i \in 1 .. Len(Tail(q)) : Tail(q)[i] = q[i + 1] /\ i + 1 \in 1 .. Len(q) /\ i + 1 # 1 /\ 1 \in 1 .. Len(q)
    BY <2>9
  <2>11. \A i, j \in 1 .. Len(q) :
            q[i].type = "closeAll" /\ q[j].type = "closeAll" /\ i # j => q[i].to # q[j].to
    BY <2>8 DEF LateInv, Once
  <2>12. \A i \in 1 .. Len(Tail(q)) : Tail(q)[i].type = "closeAll" => Tail(q)[i].to # d
    BY <2>9, <2>10, <2>11
  <2>13. Host(d)' = h /\ Host(s)' = p
    BY <1>1 DEF Host
  <2> QED BY <1>1, <2>5, <2>6, <2>9, <2>12, <2>13 DEF Turned
<1> QED BY <1>3, <1>4

LEMMA LateInit == Init => LateInv
<1> SUFFICES ASSUME Init PROVE LateInv
  OBVIOUS
<1>1. \A p, h \in Hosts : Len(wire[p][h]) = 0
  BY DEF Init
<1>2. \A h \in Hosts : Len(todo[h]) = 0
  BY DEF Init
<1>3. \A s, d \in Ranks : ~IsQueueClosed(stream[d], s) /\ ~sinkClosed[s][d] /\ pc[s] = "new"
  BY DEF Init, IsQueueClosed, FreshStream, ToSet
<1>4. \A s, d \in Ranks : ~Tailed(s, d)
  BY <1>1, Layout DEF Tailed
<1>5. Tails
  BY <1>3, <1>4 DEF Tails, TailOf
<1>6. TailsCounted
  <2> SUFFICES ASSUME NEW h \in Hosts, NEW p \in Hosts
               PROVE  sentTo[h][p] = Cardinality(TailsTo(h, p))
    BY DEF TailsCounted
  <2>1. \A s \in Locals(h), d \in Locals(p) : ~Tailed(s, d)
    BY <1>4, Layout
  <2>2. TailsTo(h, p) = {}
    BY <2>1 DEF TailsTo, TailTold
  <2>3. sentTo[h][p] = 0
    BY DEF Init
  <2> QED BY <2>2, <2>3, FS_EmptySet
<1>7. NotAll
  BY <1>1 DEF NotAll, Ends
<1>8. Behind /\ Once /\ LastTurn
  BY <1>2 DEF Behind, Once, LastTurn, LoopsTo
<1>9. ByMessage
  BY <1>3 DEF ByMessage
<1> QED BY <1>5, <1>6, <1>7, <1>8, <1>9 DEF LateInv

\* The whole inductive invariant, and that a stream keeps it.
StreamInv == CloseInv /\ Flags /\ NoZombie /\ CleanInv /\ LateInv

LEMMA StreamInit == Init /\ OneAtATime => StreamInv
<1>1. Init => Flags /\ NoZombie
  BY DEF Init, Flags, NoZombie
<1> QED BY <1>1, CloseInit, CleanInit, LateInit DEF StreamInv

LEMMA StreamStep ==
    ASSUME OneAtATime, LastWaits, StreamInv, [Next]_vars
    PROVE  StreamInv'
<1>1. CloseInv /\ Flags /\ NoZombie /\ CleanInv /\ LateInv
  BY DEF StreamInv
<1>2. CloseInv'
  BY <1>1, CloseStep
<1>3. Flags'
  BY <1>1, FlagsStep
<1>4. NoZombie'
  BY <1>1, NoneReturns
<1>5. CleanInv'
  BY <1>1, <1>2, <1>4, CleanStep
<1>6. Tails' /\ TailsCounted' /\ NotAll' /\ Behind' /\ Once' /\ LastTurn'
  <2>1. Tails /\ TailsCounted /\ Behind /\ Once /\ LastTurn
    BY <1>1 DEF LateInv
  <2>2. Tails' /\ TailsCounted'
    BY <1>1, <2>1, TailsStep, TailsCountedStep
  <2> QED BY <1>1, <1>2, <2>1, <2>2, NotAllStep, TodoFine
<1>7. ByMessage'
  BY <1>1, <1>2, <1>4, <1>5, ByMessageStep
<1> QED BY <1>2, <1>3, <1>4, <1>5, <1>6, <1>7 DEF StreamInv, LateInv

\* It holds throughout.
LEMMA StreamInvariant ==
    ASSUME OneAtATime, LastWaits
    PROVE  Spec => []StreamInv
<1>1. Init => StreamInv
  BY StreamInit
<1>2. StreamInv /\ [Next]_vars => StreamInv'
  BY StreamStep
<1> QED BY <1>1, <1>2, PTL DEF Spec

-----------------------------------------------------------------------------
\* A sink only changes while it is open, by one block at a time.
LEMMA SinkMoves ==
    ASSUME Typed, [Next]_vars, NEW s \in Ranks, NEW d \in Ranks
    PROVE  \/ ~sinkClosed[s][d] /\ blocks'[s][d] \in {blocks[s][d], blocks[s][d] + 1}
           \/ blocks'[s][d] = blocks[s][d] /\ sinkClosed'[s][d] = sinkClosed[s][d]
<1>1. CASE blocks' = blocks /\ sinkClosed' = sinkClosed
  BY <1>1
<1>2. ASSUME NEW r \in Ranks, NEW e \in Ranks, ~sinkClosed[r][e],
             blocks' = blocks \/ blocks' = [blocks EXCEPT ![r][e] = @ + 1],
             sinkClosed' = sinkClosed \/ sinkClosed' = [sinkClosed EXCEPT ![r][e] = TRUE]
      PROVE  \/ ~sinkClosed[s][d] /\ blocks'[s][d] \in {blocks[s][d], blocks[s][d] + 1}
             \/ blocks'[s][d] = blocks[s][d] /\ sinkClosed'[s][d] = sinkClosed[s][d]
  <2>1. CASE s = r /\ d = e
    <3>1. blocks'[s][d] \in {blocks[s][d], blocks[s][d] + 1}
      BY <1>2, <2>1 DEF Typed
    <3> QED BY <1>2, <2>1, <3>1
  <2>2. CASE ~(s = r /\ d = e)
    <3>1. blocks'[s][d] = blocks[s][d]
      <4>1. CASE blocks' = [blocks EXCEPT ![r][e] = @ + 1]
        <5>1. blocks \in [Ranks -> [Ranks -> Nat]]
          BY DEF Typed
        <5> QED BY <2>2, <4>1, <5>1
      <4> QED BY <1>2, <4>1
    <3>2. sinkClosed'[s][d] = sinkClosed[s][d]
      <4>1. CASE sinkClosed' = [sinkClosed EXCEPT ![r][e] = TRUE]
        <5>1. sinkClosed \in [Ranks -> [Ranks -> BOOLEAN]]
          BY DEF Typed
        <5> QED BY <2>2, <4>1, <5>1
      <4> QED BY <1>2, <4>1
    <3> QED BY <3>1, <3>2
  <2> QED BY <2>1, <2>2
<1>3. ASSUME NEW r \in Ranks, NEW e \in Ranks, WorkerStep(r) \/ AppendBlock(r, e)
      PROVE  \/ ~sinkClosed[s][d] /\ blocks'[s][d] \in {blocks[s][d], blocks[s][d] + 1}
             \/ blocks'[s][d] = blocks[s][d] /\ sinkClosed'[s][d] = sinkClosed[s][d]
  <2>1. PICK x \in Ranks : x = CloseTarget(r)
    BY TargetType
  <2>2. CASE AppendBlock(r, e)
    BY <1>2, <2>2 DEF AppendBlock
  <2>3. CASE SendTail(r) \/ PutTail(r) \/ CloseSink(r)
    BY <1>2, <2>1, <2>3 DEF SendTail, PutTail, CloseSink
  <2>4. CASE GetNewStream(r) \/ Loopback(r) \/ TellTail(r) \/ EndLocal(r) \/ Close(r)
    BY <1>1, <2>4 DEF GetNewStream, Loopback, TellTail, EndLocal, Close, sinkVars
  <2> QED BY <1>3, <2>2, <2>3, <2>4 DEF WorkerStep
<1>4. ASSUME NEW h \in Hosts, DispatcherStep(h) \/ CloseMultiplexer(h)
      PROVE  blocks' = blocks /\ sinkClosed' = sinkClosed
  BY <1>4, DispatcherRow
<1>5. CASE UNCHANGED vars
  BY <1>1, <1>5 DEF vars, sinkVars
<1> QED BY <1>1, <1>3, <1>4, <1>5 DEF Next, Ended

\* Blocks and end of a queue with the contents that Delivery allows.
LEMMA QueueEnd ==
    ASSUME NEW q, NEW b \in Nat, NEW c,
           (\E n \in 0 .. b : q = Run(n)) \/ (c /\ q = Append(Run(b), Closing))
    PROVE  /\ Len(q) \in Nat
           /\ Closing \in ToSet(q) => c /\ Len(q) = b + 1
           /\ Closing \notin ToSet(q) => Len(q) <= b
<1>1. CASE \E n \in 0 .. b : q = Run(n)
  <2>1. PICK n \in 0 .. b : q = Run(n)
    BY <1>1
  <2>2. n \in Nat /\ n <= b
    OBVIOUS
  <2>3. Len(Run(n)) = n /\ Closing \notin ToSet(Run(n))
    BY <2>2, RunFacts
  <2> QED BY <2>1, <2>2, <2>3
<1>2. CASE c /\ q = Append(Run(b), Closing)
  <2>1. Run(b) \in Seq(Int) /\ Len(Run(b)) = b /\ Closing \in ToSet(Append(Run(b), Closing))
    BY RunFacts
  <2>2. Len(q) = b + 1
    BY <1>2, <2>1
  <2> QED BY <1>2, <2>1, <2>2
<1> QED BY <1>1, <1>2

LEMMA ChannelInit == Init => Channels!Init
<1> SUFFICES ASSUME Init PROVE Channels!Init
  OBVIOUS
<1>1. ASSUME NEW s \in Ranks, NEW d \in Ranks
      PROVE  Delivered(s, d) = 0 /\ IsQueueClosed(stream[d], s) = FALSE
  <2>1. stream[d].queue[s] = <<>>
    BY DEF Init, FreshStream
  <2>2. Closing \notin ToSet(stream[d].queue[s])
    BY <2>1 DEF ToSet
  <2> QED BY <2>1, <2>2 DEF Delivered, IsQueueClosed
<1>2. /\ blocks = [s \in Ranks |-> [d \in Ranks |-> 0]]
      /\ sinkClosed = [s \in Ranks |-> [d \in Ranks |-> FALSE]]
  BY DEF Init
<1> QED BY <1>1, <1>2 DEF Channels!Init

LEMMA ChannelSends ==
    ASSUME Typed, Typed', [Next]_vars, NEW s \in Ranks, NEW d \in Ranks
    PROVE  Channels!Sends(s, d)
<1>1. sinkClosed'[s][d] \in BOOLEAN
  BY DEF Typed
<1> QED BY <1>1, SinkMoves DEF Channels!Sends, Channels!Send

LEMMA ChannelArrives ==
    ASSUME CloseInv, CleanInv, NoZombie, NoZombie', Typed', Delivery, Delivery', [Next]_vars,
           NEW s \in Ranks, NEW d \in Ranks
    PROVE  Channels!Arrives(s, d)
<1>1. PICK q, u, b, c : /\ q = stream[d].queue[s] /\ u = stream'[d].queue[s]
                        /\ b = blocks'[s][d] /\ c = sinkClosed'[s][d]
  OBVIOUS
<1>2. blocks[s][d] \in Nat /\ b \in Nat
  BY <1>1 DEF CloseInv, Typed
<1>3. /\ Len(q) \in Nat
      /\ Closing \notin ToSet(q) => Len(q) <= blocks[s][d]
  BY <1>1, <1>2, QueueEnd DEF Delivery
<1>4. /\ Len(u) \in Nat
      /\ Closing \in ToSet(u) => c /\ Len(u) = b + 1
      /\ Closing \notin ToSet(u) => Len(u) <= b
  <2>1. (\E n \in 0 .. b : u = Run(n)) \/ (c /\ u = Append(Run(b), Closing))
    BY <1>1 DEF Delivery, Run, Closing
  <2> QED BY <1>2, <2>1, QueueEnd
<1>5. PICK k, j, e, f : /\ k = Delivered(s, d) /\ j = Delivered(s, d)'
                        /\ e = IsQueueClosed(stream[d], s) /\ f = IsQueueClosed(stream[d], s)'
  OBVIOUS
<1>6. /\ e = (Closing \in ToSet(q)) /\ f = (Closing \in ToSet(u))
      /\ k = Len(q) - (IF e THEN 1 ELSE 0) /\ j = Len(u) - (IF f THEN 1 ELSE 0)
  BY <1>1, <1>5 DEF Delivered, IsQueueClosed, ToSet, Closing
<1>7. CASE QueueKept(s, d)
  <2>1. j = k /\ f = e
    BY <1>1, <1>6, <1>7 DEF QueueKept
  <2> QED BY <1>5, <2>1 DEF Channels!Arrives
<1>8. CASE QueueGrows(s, d)
  <2>1. ~e /\ Len(u) = Len(q) + 1
    <3>1. PICK x \in Int : u = Append(q, x)
      BY <1>1, <1>8 DEF QueueGrows
    <3>2. q \in Seq(Int)
      BY <1>1 DEF CleanInv, Streaming, StreamT
    <3>3. ~e
      BY <1>5, <1>8 DEF QueueGrows
    <3> QED BY <3>1, <3>2, <3>3
  <2>2. j \in k .. b /\ (f => c /\ j = b)
    <3>1. k = Len(q)
      BY <1>3, <1>6, <2>1
    <3>2. CASE f
      <4>1. j = Len(u) - 1 /\ c /\ Len(u) = b + 1
        BY <1>4, <1>6, <3>2
      <4> QED BY <1>2, <1>3, <2>1, <3>1, <4>1
    <3>3. CASE ~f
      <4>1. j = Len(u) /\ Len(u) <= b
        <5>1. j = Len(u) - 0
          BY <1>6, <3>3
        <5>2. Closing \notin ToSet(u)
          BY <1>6, <3>3
        <5> QED BY <1>4, <5>1, <5>2
      <4> QED BY <1>2, <1>3, <2>1, <3>1, <3>3, <4>1
    <3> QED BY <3>2, <3>3
  <2> QED BY <1>1, <1>5, <2>1, <2>2 DEF Channels!Arrives, Channels!Arrive
<1> QED BY <1>7, <1>8, QueueStep

LEMMA ChannelStep ==
    ASSUME StreamInv, StreamInv', Delivery, Delivery', [Next]_vars
    PROVE  [Channels!Next]_(Channels!channels)
<1>1. CloseInv /\ CloseInv' /\ CleanInv /\ NoZombie /\ NoZombie' /\ Typed /\ Typed'
  BY DEF StreamInv, CloseInv
<1>2. ASSUME NEW s \in Ranks, NEW d \in Ranks PROVE Channels!Sends(s, d) /\ Channels!Arrives(s, d)
  BY <1>1, ChannelSends, ChannelArrives
<1>3. Channels!Next
  BY <1>2 DEF Channels!Next
<1> QED BY <1>3

\* What the invariant gives.
LEMMA StreamGives ==
    ASSUME StreamInv
    PROVE  CleanStream /\ NoDie /\ Delivery /\ NoStreamRemains /\ TypeOK
BY CleanGives DEF StreamInv, Flags, CleanStream

\* Over connections that hand over one message at a time, and with a sink that
\* closes late from every host to every worker, the variables keep their types:
\* remaining_closing_blocks_ and the semaphore of Close never go below zero.
THEOREM StreamTypes ==
    ASSUME OneAtATime, LastWaits
    PROVE  Spec => []TypeOK
<1>1. StreamInv => TypeOK
  BY StreamGives
<1> QED BY <1>1, StreamInvariant, PTL

\* No die_unless of the multiplexer, the stream sets and the streams fails, and
\* no null stream is followed.
THEOREM StreamsNeverDie ==
    ASSUME OneAtATime, LastWaits
    PROVE  Spec => []NoDie
<1>1. StreamInv => NoDie
  BY StreamGives
<1> QED BY <1>1, StreamInvariant, PTL

\* What a worker writes to another arrives in order, exactly once, and its end
\* behind all of it, whichever way the sink was closed.
THEOREM StreamsDeliver ==
    ASSUME OneAtATime, LastWaits
    PROVE  Spec => []Delivery
<1>1. StreamInv => Delivery
  BY StreamGives
<1> QED BY <1>1, StreamInvariant, PTL

\* The map of Multiplexer::Close is empty when all workers of a host have closed
\* their streams.
THEOREM StreamsRelease ==
    ASSUME OneAtATime, LastWaits
    PROVE  Spec => []NoStreamRemains
<1>1. StreamInv => NoStreamRemains
  BY StreamGives
<1> QED BY <1>1, StreamInvariant, PTL

\* A stream as its users see it: nothing dies, all arrives, and nothing arrives
\* after the receiver's Close.
THEOREM StreamsStayClean ==
    ASSUME OneAtATime, LastWaits
    PROVE  Spec => []CleanStream
<1>1. StreamInv => CleanStream
  BY StreamGives
<1> QED BY <1>1, StreamInvariant, PTL

\* Every step of the sinks, the wires, the dispatcher threads and the queues is a
\* step of the ordered and reliable channels of StreamChannels, or changes none.
THEOREM StreamsAreChannels ==
    ASSUME OneAtATime, LastWaits
    PROVE  Spec => Channels!Safety
<1>1. Init => Channels!Init
  BY ChannelInit
<1>2. StreamInv => Delivery
  BY StreamGives
<1>3. StreamInv /\ StreamInv' /\ Delivery /\ Delivery' /\ [Next]_vars => [Channels!Next]_(Channels!channels)
  BY ChannelStep
<1> QED BY <1>1, <1>2, <1>3, StreamInvariant, PTL DEF Spec, Channels!Safety

\* With one worker per host the second assumption of these theorems holds.
LEMMA OneWorkerWaits == WorkersPerHost = 1 => LastWaits
<1> SUFFICES ASSUME WorkersPerHost = 1, NEW h \in Hosts, NEW d \in Locals(h) PROVE d = LastOf(h)
  BY DEF LastWaits
<1>1. d \in Ranks /\ d \div 1 = h
  BY DEF Locals, Host
<1>2. d \in Nat /\ h \in Nat
  BY <1>1, ConstantsAssumption DEF Ranks, Hosts
<1>3. d = h
  BY <1>1, <1>2
<1>4. LastOf(h) = h
  BY <1>2 DEF LastOf
<1> QED BY <1>3, <1>4
=============================================================================
