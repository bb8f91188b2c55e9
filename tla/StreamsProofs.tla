---------------------------- MODULE StreamsProofs ----------------------------
(***************************************************************************)
(* Proofs about Streams for any number of hosts and workers, for both kinds*)
(* of streams and whatever the order in which a connection hands over its  *)
(* messages: StreamSet counts the closed writers of a host to a peer, and  *)
(* the close message it sends is the last of the stream on the connection. *)
(*                                                                         *)
(* The count is a number in a set of streams that can be created anew, by a*)
(* header that comes after all workers of the host have closed theirs.  The*)
(* invariant therefore says what the count is as long as a worker of the   *)
(* host may still write: the number of pairs of a worker of the host and a *)
(* worker of the peer whose sink has told the set of its closing.          *)
(***************************************************************************)
EXTENDS Streams, FiniteSetTheorems, SequenceTheorems, SumTheorems, TLAPS

PCs == {"new", "getWriters", "write", "tell", "close", "end", "read", "done"}

Block == [type : {"block"}, from : Ranks, to : Ranks, seq : Nat, last : BOOLEAN]
CloseMsg == [type : {"closeAll"}]
Message == Block \cup CloseMsg

\* The variables of the workers, the sets and the wires have their types.
Typed ==
    /\ map \in [Hosts -> BOOLEAN] /\ peer \in [Ranks -> BOOLEAN]
    /\ closedTo \in [Hosts -> [Hosts -> Nat]] /\ sentTo \in [Hosts -> [Hosts -> Nat]]
    /\ blocks \in [Ranks -> [Ranks -> Nat]]
    /\ sinkClosed \in [Ranks -> [Ranks -> BOOLEAN]]
    /\ writersClosed \in [Ranks -> Nat]
    /\ pc \in [Ranks -> PCs]
    /\ pos \in [Ranks -> 0 .. NumRanks - 1]
    /\ wire \in [Hosts -> [Hosts -> Seq(Message)]]

\* A set in the map has the streams of all workers that have not closed theirs;
\* without a set, no worker of the host has begun or all have ended.
Sets ==
    \A h \in Hosts :
        /\ map[h] => \A r \in Locals(h) : pc[r] # "done" => peer[r]
        /\ map[h] => \E r \in Locals(h) : peer[r]
        /\ ~map[h] => \/ \A r \in Locals(h) : pc[r] = "new"
                      \/ \A r \in Locals(h) : pc[r] = "done"

\* Where worker r is in Writers::Close, its current sink and its count.
WritingOf(r) ==
    /\ pc[r] \in {"new", "getWriters"} =>
          writersClosed[r] = 0 /\ \A d \in Ranks : ~sinkClosed[r][d] /\ blocks[r][d] = 0
    /\ pc[r] \in {"write", "tell", "close"} => writersClosed[r] = pos[r]
    /\ pc[r] = "end" => writersClosed[r] = pos[r] + 1
    /\ pc[r] \in {"read", "done"} => writersClosed[r] = NumRanks
    /\ pc[r] = "new" => pos[r] = 0
    /\ pc[r] = "getWriters" => pos[r] < WorkersPerHost
    /\ pc[r] = "tell" => sinkClosed[r][CloseTarget(r)] /\ Remote(r, CloseTarget(r))
    /\ pc[r] = "end" => sinkClosed[r][CloseTarget(r)] /\ ~Remote(r, CloseTarget(r))
    /\ pc[r] = "close" => ~Remote(r, CloseTarget(r))

Writing == \A r \in Ranks : WritingOf(r)

\* The writer from s to d has been counted as closed.
Told(s, d) == sinkClosed[s][d] /\ ~(pc[s] = "tell" /\ d = CloseTarget(s))
ToldTo(h, p) == {y \in Locals(h) \X Locals(p) : Told(y[1], y[2])}

\* The set counts them, as long as one of its workers may still write.
Counted ==
    \A h, p \in Hosts : AllDone(h) \/ closedTo[h][p] = Cardinality(ToldTo(h, p))

\* The close message comes when all are counted, and ends the connection.
CloseLast ==
    \A h, p \in Hosts : \A n \in 1 .. Len(wire[h][p]) :
        wire[h][p][n].type = "closeAll" =>
            /\ n = Len(wire[h][p]) /\ h # p
            /\ \A s \in Locals(h), d \in Locals(p) : Told(s, d)

\* The inductive invariant of CloseIsLast.
CloseInv == Typed /\ Sets /\ Writing /\ Counted /\ CloseLast

-----------------------------------------------------------------------------
\* Products of naturals grow with their factors.
LEMMA ProductGrows ==
    ASSUME NEW a \in Nat, NEW b \in Nat, NEW c \in Nat, a <= b
    PROVE  a * c \in Nat /\ b * c \in Nat /\ a * c <= b * c
<1>1. PICK k \in Nat : b = a + k
  <2>1. b - a \in Nat /\ b = a + (b - a)
    OBVIOUS
  <2> QED BY <2>1
<1>2. b * c = a * c + k * c
  BY <1>1
<1>3. a * c \in Nat /\ k * c \in Nat
  OBVIOUS
<1> QED BY <1>2, <1>3

\* Hosts and ranks: a host has WorkersPerHost workers.
LEMMA Layout ==
    /\ NumRanks \in Nat \ {0} /\ Ranks = 0 .. NumRanks - 1
    /\ \A r \in Ranks : Host(r) \in Hosts /\ r \in Locals(Host(r))
    /\ \A h \in Hosts : \A r \in Locals(h) : r \in Ranks /\ Host(r) = h
<1> USE ConstantsAssumption
<1>1. NumRanks \in Nat \ {0}
  BY DEF NumRanks
<1>2. Ranks = 0 .. NumRanks - 1
  BY DEF Ranks, NumRanks
<1>3. ASSUME NEW r \in Ranks PROVE Host(r) \in Hosts
  <2>1. r \in Nat /\ r < NumHosts * WorkersPerHost
    BY DEF Ranks
  <2>2. Host(r) \in Nat /\ Host(r) * WorkersPerHost <= r
    BY <2>1 DEF Host
  <2>3. Host(r) < NumHosts
    <3> SUFFICES ASSUME Host(r) >= NumHosts PROVE FALSE
      BY <2>2
    <3> DEFINE x == Host(r) * WorkersPerHost
               y == NumHosts * WorkersPerHost
    <3>1. x \in Nat /\ y \in Nat /\ y <= x
      BY <2>2, ProductGrows
    <3>2. r < y /\ x <= r
      BY <2>1, <2>2
    <3> HIDE DEF x, y
    <3> QED BY <2>1, <3>1, <3>2
  <2> QED BY <2>2, <2>3 DEF Hosts
<1> QED BY <1>1, <1>2, <1>3 DEF Locals

\* Worker i of host h.
LEMMA LocalRank ==
    ASSUME NEW h \in Hosts, NEW i \in 0 .. WorkersPerHost - 1
    PROVE  h * WorkersPerHost + i \in Locals(h)
<1> USE ConstantsAssumption
<1> DEFINE r == h * WorkersPerHost + i
<1>1. h \in Nat /\ h + 1 \in Nat /\ h + 1 <= NumHosts /\ h * WorkersPerHost \in Nat
  BY DEF Hosts
<1>2. h * WorkersPerHost + WorkersPerHost = (h + 1) * WorkersPerHost
  BY <1>1
<1>3. (h + 1) * WorkersPerHost <= NumHosts * WorkersPerHost
  BY <1>1, ProductGrows
<1>4. r \in Ranks
  <2> DEFINE x == h * WorkersPerHost
             y == NumHosts * WorkersPerHost
  <2>1. x \in Nat /\ y \in Nat /\ x + WorkersPerHost <= y /\ r = x + i /\ Ranks = 0 .. y - 1
    BY <1>1, <1>2, <1>3 DEF Ranks
  <2> HIDE DEF x, y, r
  <2> QED BY <2>1
<1>5. r \div WorkersPerHost = h
  BY <1>1
<1>6. Host(r) = h
  BY <1>5 DEF Host
<1> QED BY <1>4, <1>6 DEF Locals

\* The number of workers of a host.
LEMMA LocalCount ==
    ASSUME NEW h \in Hosts
    PROVE  /\ IsFiniteSet(Locals(h)) /\ Cardinality(Locals(h)) = WorkersPerHost
           /\ \E r \in Locals(h) : TRUE
<1> USE ConstantsAssumption
<1> DEFINE I == 0 .. WorkersPerHost - 1
           f == [i \in I |-> h * WorkersPerHost + i]
<1>0. h \in Nat /\ h * WorkersPerHost \in Nat
  BY DEF Hosts
<1>1. IsFiniteSet(I) /\ Cardinality(I) = WorkersPerHost
  BY FS_Interval
<1>2. f \in [I -> Locals(h)]
  BY LocalRank
<1>3. \A i, j \in I : f[i] = f[j] => i = j
  BY <1>0
<1>4. ASSUME NEW r \in Locals(h) PROVE \E i \in I : f[i] = r
  <2>1. r \in Nat /\ r \div WorkersPerHost = h
    BY DEF Locals, Host, Ranks
  <2>2. r % WorkersPerHost \in I
    BY <2>1
  <2>3. r = WorkersPerHost * (r \div WorkersPerHost) + (r % WorkersPerHost)
    BY <2>1
  <2>4. WorkersPerHost * h = h * WorkersPerHost
    BY <1>0
  <2>5. r = h * WorkersPerHost + (r % WorkersPerHost)
    BY <2>1, <2>3, <2>4, Zenon
  <2> QED BY <2>2, <2>5
<1> HIDE DEF f, I
<1>5. f \in Bijection(I, Locals(h))
  BY <1>2, <1>3, <1>4 DEF Bijection, Injection, Surjection, IsInjective
<1>6. ExistsBijection(I, Locals(h))
  BY <1>5 DEF ExistsBijection
<1>7. 0 \in I
  BY DEF I
<1> QED BY <1>1, <1>2, <1>6, <1>7, FS_Bijection

\* The sink that Writers::Close visits is one.
LEMMA TargetType ==
    ASSUME Typed, NEW r \in Ranks
    PROVE  CloseTarget(r) \in Ranks
<1>1. NumRanks \in Nat \ {0} /\ Ranks = 0 .. NumRanks - 1
  BY Layout
<1>2. pos[r] \in 0 .. NumRanks - 1 /\ r \in 0 .. NumRanks - 1
  BY <1>1 DEF Typed
<1> DEFINE a == pos[r] + r
<1>3. a \in Nat
  BY <1>1, <1>2
<1> HIDE DEF a
<1>4. a % NumRanks \in 0 .. NumRanks - 1
  BY <1>1, <1>3
<1> QED BY <1>1, <1>4 DEF CloseTarget, a

\* Writers counted from one host to another.
LEMMA ToldCount ==
    ASSUME NEW h \in Hosts, NEW p \in Hosts
    PROVE  /\ IsFiniteSet(ToldTo(h, p)) /\ Cardinality(ToldTo(h, p)) \in Nat
           /\ Cardinality(ToldTo(h, p)) <= WorkersPerHost * WorkersPerHost
           /\ Cardinality(ToldTo(h, p)) = WorkersPerHost * WorkersPerHost =>
                 \A s \in Locals(h), d \in Locals(p) : Told(s, d)
<1> DEFINE A == Locals(h) \X Locals(p)
<1>1. IsFiniteSet(A) /\ Cardinality(A) = WorkersPerHost * WorkersPerHost
  BY LocalCount, FS_Product
<1>2. ToldTo(h, p) \in SUBSET A
  BY DEF ToldTo
<1>3. Cardinality(ToldTo(h, p)) = Cardinality(A) => A = ToldTo(h, p)
  BY <1>1, <1>2, FS_Subset
<1>4. A = ToldTo(h, p) => \A s \in Locals(h), d \in Locals(p) : Told(s, d)
  <2> SUFFICES ASSUME A = ToldTo(h, p), NEW s \in Locals(h), NEW d \in Locals(p)
               PROVE  Told(s, d)
    OBVIOUS
  <2>1. <<s, d>> \in ToldTo(h, p)
    OBVIOUS
  <2> QED BY <2>1 DEF ToldTo
<1> QED BY <1>1, <1>2, <1>3, <1>4, FS_Subset, FS_CardinalityType

\* The same of the next state.
LEMMA ToldCountNext ==
    ASSUME NEW h \in Hosts, NEW p \in Hosts,
           Cardinality(ToldTo(h, p)') = WorkersPerHost * WorkersPerHost
    PROVE  \A s \in Locals(h), d \in Locals(p) : Told(s, d)'
<1> DEFINE A == Locals(h) \X Locals(p)
<1>1. IsFiniteSet(A) /\ Cardinality(A) = WorkersPerHost * WorkersPerHost
  BY LocalCount, FS_Product
<1>2. ToldTo(h, p)' \in SUBSET A
  BY DEF ToldTo
<1>3. A = ToldTo(h, p)'
  BY <1>1, <1>2, FS_Subset
<1> SUFFICES ASSUME NEW s \in Locals(h), NEW d \in Locals(p)
             PROVE  Told(s, d)'
  OBVIOUS
<1>4. <<s, d>> \in ToldTo(h, p)'
  BY <1>3
<1> QED BY <1>4 DEF ToldTo

\* The counted writers do not change when Told does not.
LEMMA ToldSame ==
    ASSUME \A s, d \in Ranks : Told(s, d)' <=> Told(s, d),
           NEW h \in Hosts, NEW p \in Hosts
    PROVE  ToldTo(h, p)' = ToldTo(h, p)
<1>1. \A s \in Locals(h), d \in Locals(p) : Told(s, d)' <=> Told(s, d)
  BY Layout
<1> QED BY <1>1, Zenon DEF ToldTo

\* One more writer is counted.
LEMMA ToldMore ==
    ASSUME NEW r \in Ranks, NEW e \in Ranks, ~Told(r, e), Told(r, e)',
           \A s, d \in Ranks : <<s, d>> # <<r, e>> => (Told(s, d)' <=> Told(s, d)),
           NEW h \in Hosts, NEW p \in Hosts
    PROVE  Cardinality(ToldTo(h, p)') = Cardinality(ToldTo(h, p))
             + (IF h = Host(r) /\ p = Host(e) THEN 1 ELSE 0)
<1>1. CASE h = Host(r) /\ p = Host(e)
  <2>1. <<r, e>> \in Locals(h) \X Locals(p)
    BY <1>1, Layout
  <2>2. ToldTo(h, p)' = ToldTo(h, p) \cup {<<r, e>>}
    <3>1. \A y \in Locals(h) \X Locals(p) :
             Told(y[1], y[2])' <=> Told(y[1], y[2]) \/ y = <<r, e>>
      BY Layout
    <3> QED BY <2>1, <3>1 DEF ToldTo
  <2>3. <<r, e>> \notin ToldTo(h, p)
    BY DEF ToldTo
  <2> QED BY <1>1, <2>2, <2>3, ToldCount, FS_AddElement, ZenonT(40)
<1>2. CASE ~(h = Host(r) /\ p = Host(e))
  <2>1. \A s \in Locals(h), d \in Locals(p) : Told(s, d)' <=> Told(s, d)
    BY <1>2, Layout
  <2>2. ToldTo(h, p)' = ToldTo(h, p)
    BY <2>1, Zenon DEF ToldTo
  <2> QED BY <1>2, <2>2, ToldCount
<1> QED BY <1>1, <1>2

-----------------------------------------------------------------------------
\* Creating a stream set keeps the types.
LEMMA CreateTyped ==
    ASSUME Typed, NEW h \in Hosts, GetOrCreate(h)
    PROVE  /\ map' \in [Hosts -> BOOLEAN] /\ peer' \in [Ranks -> BOOLEAN]
           /\ closedTo' \in [Hosts -> [Hosts -> Nat]] /\ sentTo' \in [Hosts -> [Hosts -> Nat]]
<1>1. CASE map[h]
  <2>1. UNCHANGED setVars
    BY <1>1 DEF GetOrCreate
  <2> QED BY <2>1 DEF setVars, Typed
<1>2. CASE ~map[h]
  <2>1. CreateSet(h)
    BY <1>2 DEF GetOrCreate
  <2>2. peer' \in [Ranks -> BOOLEAN]
    BY <2>1, Zenon DEF CreateSet, Typed
  <2> QED BY <2>1, <2>2 DEF CreateSet, Typed
<1> QED BY <1>1, <1>2

\* What OnWriterClosed changes.
LEMMA WriterClosed ==
    ASSUME Typed, NEW r \in Ranks, NEW d \in Ranks, NEW sent,
           OnWriterClosed(r, d, sent, wire)
    PROVE  /\ UNCHANGED <<map, peer>>
           /\ closedTo' = [closedTo EXCEPT ![Host(r)][Host(d)] = @ + 1]
           /\ sentTo' \in [Hosts -> [Hosts -> Nat]]
           /\ writersClosed' = [writersClosed EXCEPT ![r] = @ + 1]
           /\ \/ wire' = wire
              \/ /\ wire' = [wire EXCEPT ![Host(r)][Host(d)] =
                               Append(@, [type |-> "closeAll"])]
                 /\ Host(r) # Host(d)
                 /\ closedTo[Host(r)][Host(d)] + 1 = WorkersPerHost * WorkersPerHost
           /\ dead' = (dead \/ closedTo[Host(r)][Host(d)] + 1 > WorkersPerHost * WorkersPerHost
                            \/ writersClosed[r] + 1 > NumRanks)
<1>1. Host(r) \in Hosts /\ Host(d) \in Hosts
  BY Layout
<1>2. sentTo' \in [Hosts -> [Hosts -> Nat]]
  <2> DEFINE k == IF sent THEN 1 ELSE 0
             ns == sentTo[Host(r)][Host(d)] + k
  <2>1. k \in Nat
    OBVIOUS
  <2>2. sentTo' = [sentTo EXCEPT ![Host(r)][Host(d)] = ns]
    BY DEF OnWriterClosed
  <2> HIDE DEF k
  <2>3. sentTo \in [Hosts -> [Hosts -> Nat]]
    BY DEF Typed
  <2>4. ns \in Nat
    BY <1>1, <2>1, <2>3
  <2> HIDE DEF ns
  <2> QED BY <2>2, <2>3, <2>4
<1>3. closedTo' = [closedTo EXCEPT ![Host(r)][Host(d)] = @ + 1]
  BY <1>1 DEF OnWriterClosed, Typed
<1>4. dead' = (dead \/ closedTo[Host(r)][Host(d)] + 1 > WorkersPerHost * WorkersPerHost
                    \/ writersClosed[r] + 1 > NumRanks)
  BY Zenon DEF OnWriterClosed
<1> QED BY <1>2, <1>3, <1>4 DEF OnWriterClosed

\* Appending a message to a connection.
LEMMA WireTyped ==
    ASSUME Typed, NEW h \in Hosts, NEW p \in Hosts, NEW m \in Message,
           wire' = [wire EXCEPT ![h][p] = Append(@, m)]
    PROVE  /\ wire' \in [Hosts -> [Hosts -> Seq(Message)]]
           /\ wire[h][p] \in Seq(Message) /\ wire'[h][p] \in Seq(Message)
           /\ wire'[h][p] = Append(wire[h][p], m)
           /\ Len(wire'[h][p]) = Len(wire[h][p]) + 1 /\ Len(wire[h][p]) \in Nat
           /\ wire'[h][p][Len(wire[h][p]) + 1] = m
           /\ \A n \in 1 .. Len(wire[h][p]) : wire'[h][p][n] = wire[h][p][n]
           /\ \A g, q \in Hosts : <<g, q>> # <<h, p>> => wire'[g][q] = wire[g][q]
<1>1. wire[h][p] \in Seq(Message)
  BY DEF Typed
<1>2. Append(wire[h][p], m) \in Seq(Message)
  BY <1>1
<1>3. wire' \in [Hosts -> [Hosts -> Seq(Message)]]
  BY <1>2 DEF Typed
<1>4. wire'[h][p] = Append(wire[h][p], m)
  BY DEF Typed
<1>5. /\ Len(wire'[h][p]) = Len(wire[h][p]) + 1 /\ Len(wire[h][p]) \in Nat
      /\ wire'[h][p][Len(wire[h][p]) + 1] = m
      /\ \A n \in 1 .. Len(wire[h][p]) : wire'[h][p][n] = wire[h][p][n]
  BY <1>1, <1>4, AppendProperties
<1>6. \A g, q \in Hosts : <<g, q>> # <<h, p>> => wire'[g][q] = wire[g][q]
  BY DEF Typed
<1> QED BY <1>1, <1>2, <1>3, <1>4, <1>5, <1>6

\* The message of a block.
LEMMA BlockTyped ==
    ASSUME Typed, NEW r \in Ranks, NEW d \in Ranks, NEW last \in BOOLEAN
    PROVE  [type |-> "block", from |-> r, to |-> d, seq |-> blocks[r][d], last |-> last] \in Message
BY DEF Typed, Message, Block

\* Sending a block.
LEMMA SendTyped ==
    ASSUME Typed, NEW r \in Ranks, NEW d \in Ranks, NEW last \in BOOLEAN,
           SendBlock(r, d, last)
    PROVE  wire' \in [Hosts -> [Hosts -> Seq(Message)]]
<1> DEFINE m == [type |-> "block", from |-> r, to |-> d, seq |-> blocks[r][d], last |-> last]
<1>1. m \in Message
  BY BlockTyped
<1>2. wire' = [wire EXCEPT ![Host(r)][Host(d)] = Append(@, m)]
  BY DEF SendBlock
<1> HIDE DEF m
<1> QED BY <1>1, <1>2, Layout, WireTyped

\* The close message.
LEMMA CloseTyped == [type |-> "closeAll"] \in Message
BY DEF Message, CloseMsg

\* After OnWriterClosed the connections have their type.
LEMMA WriterClosedTyped ==
    ASSUME Typed, NEW r \in Ranks, NEW d \in Ranks, NEW sent,
           OnWriterClosed(r, d, sent, wire)
    PROVE  /\ map' \in [Hosts -> BOOLEAN] /\ peer' \in [Ranks -> BOOLEAN]
           /\ closedTo' \in [Hosts -> [Hosts -> Nat]] /\ sentTo' \in [Hosts -> [Hosts -> Nat]]
           /\ writersClosed' \in [Ranks -> Nat]
           /\ wire' \in [Hosts -> [Hosts -> Seq(Message)]]
<1>1. Host(r) \in Hosts /\ Host(d) \in Hosts
  BY Layout
<1>2. closedTo' \in [Hosts -> [Hosts -> Nat]]
  <2> DEFINE n == closedTo[Host(r)][Host(d)] + 1
  <2>1. closedTo' = [closedTo EXCEPT ![Host(r)][Host(d)] = n]
    BY WriterClosed
  <2>2. closedTo \in [Hosts -> [Hosts -> Nat]]
    BY DEF Typed
  <2>3. n \in Nat
    BY <1>1, <2>2
  <2> HIDE DEF n
  <2> QED BY <2>1, <2>2, <2>3
<1>3. writersClosed' \in [Ranks -> Nat]
  <2>1. writersClosed' = [writersClosed EXCEPT ![r] = @ + 1]
    BY WriterClosed
  <2> QED BY <2>1 DEF Typed
<1>4. wire' \in [Hosts -> [Hosts -> Seq(Message)]]
  <2> DEFINE m == [type |-> "closeAll"]
  <2>1. m \in Message
    BY CloseTyped
  <2>2. wire' = wire \/ wire' = [wire EXCEPT ![Host(r)][Host(d)] = Append(@, m)]
    BY WriterClosed
  <2> HIDE DEF m
  <2>3. wire \in [Hosts -> [Hosts -> Seq(Message)]]
    BY DEF Typed
  <2> QED BY <1>1, <2>1, <2>2, <2>3, WireTyped
<1> QED BY <1>2, <1>3, <1>4, WriterClosed DEF Typed

\* Moving on to the next writer.
LEMMA NextTyped ==
    ASSUME Typed, NEW r \in Ranks, NextWriter(r)
    PROVE  pc' \in [Ranks -> PCs] /\ pos' \in [Ranks -> 0 .. NumRanks - 1]
<1>1. NumRanks \in Nat \ {0} /\ pos[r] \in 0 .. NumRanks - 1
  BY Layout DEF Typed
<1>2. CASE pos[r] + 1 < NumRanks
  <2>1. pos[r] + 1 \in 0 .. NumRanks - 1
    BY <1>1, <1>2
  <2> QED BY <1>2, <2>1, ZenonT(40) DEF NextWriter, Typed, PCs
<1>3. CASE ~(pos[r] + 1 < NumRanks)
  <2>1. 0 \in 0 .. NumRanks - 1
    BY <1>1
  <2> QED BY <1>3, <2>1, ZenonT(40) DEF NextWriter, Typed, PCs
<1> QED BY <1>2, <1>3

\* Every action keeps the types.
LEMMA TypedStep ==
    ASSUME Typed, [Next]_vars
    PROVE  Typed'
<1>0. CASE UNCHANGED vars
  BY <1>0 DEF Typed, vars, setVars, sinkVars, workerVars, netVars
<1>1. ASSUME NEW r \in Ranks, GetNewStream(r) PROVE Typed'
  <2>1. Host(r) \in Hosts /\ GetOrCreate(Host(r))
    BY <1>1, Layout DEF GetNewStream
  <2>2. pc' \in [Ranks -> PCs] /\ UNCHANGED <<blocks, sinkClosed, writersClosed, pos, wire>>
    BY <1>1 DEF GetNewStream, Typed, PCs, sinkVars, netVars
  <2> QED BY <2>1, <2>2, CreateTyped DEF Typed
<1>2. ASSUME NEW r \in Ranks, Loopback(r) PROVE Typed'
  <2>1. NumRanks \in Nat \ {0} /\ pos[r] \in 0 .. NumRanks - 1
    BY Layout DEF Typed
  <2>2. WorkersPerHost <= NumRanks /\ WorkersPerHost \in Nat
    <3>1. 1 * WorkersPerHost <= NumHosts * WorkersPerHost
      BY ConstantsAssumption, ProductGrows
    <3>2. 1 * WorkersPerHost = WorkersPerHost
      BY ConstantsAssumption
    <3> QED BY <3>1, <3>2, ConstantsAssumption DEF NumRanks
  <2>3. pos' \in [Ranks -> 0 .. NumRanks - 1]
    <3>1. CASE pos[r] + 1 < WorkersPerHost
      <4>1. pos[r] + 1 \in 0 .. NumRanks - 1
        BY <2>1, <2>2, <3>1
      <4> QED BY <1>2, <3>1, <4>1 DEF Loopback, Typed
    <3>2. CASE ~(pos[r] + 1 < WorkersPerHost)
      <4>1. 0 \in 0 .. NumRanks - 1
        BY <2>1
      <4> QED BY <1>2, <3>2, <4>1 DEF Loopback, Typed
    <3> QED BY <3>1, <3>2
  <2>4. pc' \in [Ranks -> PCs]
    BY <1>2 DEF Loopback, Typed, PCs
  <2>5. UNCHANGED <<setVars, sinkVars, wire>>
    BY <1>2 DEF Loopback, netVars
  <2> QED BY <2>3, <2>4, <2>5 DEF Typed, setVars, sinkVars
<1>3. ASSUME NEW r \in Ranks, NEW d \in Ranks, AppendBlock(r, d) PROVE Typed'
  <2>1. wire' \in [Hosts -> [Hosts -> Seq(Message)]]
    <3>1. CASE Remote(r, d)
      BY <1>3, <3>1, SendTyped DEF AppendBlock
    <3>2. CASE ~Remote(r, d)
      BY <1>3, <3>2 DEF AppendBlock, Typed
    <3> QED BY <3>1, <3>2
  <2>2. /\ blocks' \in [Ranks -> [Ranks -> Nat]]
        /\ UNCHANGED <<map, peer, closedTo, sentTo, sinkClosed, writersClosed, pc, pos>>
    BY <1>3 DEF AppendBlock, Typed, setVars, workerVars
  <2> QED BY <2>1, <2>2 DEF Typed
<1>4. ASSUME NEW r \in Ranks, SendTail(r) PROVE Typed'
  <2> DEFINE d == CloseTarget(r)
  <2>1. d \in Ranks
    BY TargetType
  <2>2. wire' \in [Hosts -> [Hosts -> Seq(Message)]]
    BY <1>4, <2>1, SendTyped DEF SendTail
  <2>3. /\ blocks' \in [Ranks -> [Ranks -> Nat]]
        /\ sinkClosed' \in [Ranks -> [Ranks -> BOOLEAN]]
        /\ pc' \in [Ranks -> PCs]
        /\ UNCHANGED <<map, peer, closedTo, sentTo, writersClosed, pos>>
    BY <1>4, <2>1 DEF SendTail, Typed, PCs, setVars
  <2> QED BY <2>2, <2>3 DEF Typed
<1>5. ASSUME NEW r \in Ranks, TellTail(r) PROVE Typed'
  <2>1. CloseTarget(r) \in Ranks
    BY TargetType
  <2>2. UNCHANGED <<blocks, sinkClosed>>
    BY <1>5 DEF TellTail
  <2> QED BY <1>5, <2>1, <2>2, WriterClosedTyped, NextTyped DEF TellTail, Typed
<1>6. ASSUME NEW r \in Ranks, PutTail(r) PROVE Typed'
  <2>1. CloseTarget(r) \in Ranks
    BY TargetType
  <2> QED BY <1>6, <2>1 DEF PutTail, Typed, PCs, setVars, netVars
<1>7. ASSUME NEW r \in Ranks, CloseSink(r) PROVE Typed'
  <2> DEFINE d == CloseTarget(r)
  <2>1. d \in Ranks
    BY TargetType
  <2>2. OnWriterClosed(r, d, ~Remote(r, d), wire)
    BY <1>7 DEF CloseSink
  <2>3. sinkClosed' \in [Ranks -> [Ranks -> BOOLEAN]] /\ UNCHANGED blocks
    BY <1>7, <2>1 DEF CloseSink, Typed
  <2>4. pc' \in [Ranks -> PCs] /\ pos' \in [Ranks -> 0 .. NumRanks - 1]
    BY <1>7, NextTyped DEF CloseSink, Typed, PCs
  <2> QED BY <2>1, <2>2, <2>3, <2>4, WriterClosedTyped DEF Typed
<1>8. ASSUME NEW r \in Ranks, EndLocal(r) PROVE Typed'
  <2>1. UNCHANGED <<setVars, sinkVars, wire>> /\ NextWriter(r)
    BY <1>8 DEF EndLocal, netVars
  <2> QED BY <2>1, NextTyped DEF Typed, setVars, sinkVars
<1>9. ASSUME NEW r \in Ranks, Close(r) PROVE Typed'
  <2>1. Host(r) \in Hosts
    BY Layout
  <2>2. map' \in [Hosts -> BOOLEAN]
    BY <1>9, <2>1, Zenon DEF Close, Typed
  <2>3. /\ peer' \in [Ranks -> BOOLEAN] /\ pc' \in [Ranks -> PCs]
        /\ UNCHANGED <<closedTo, sentTo, sinkVars, pos, wire>>
    BY <1>9 DEF Close, Typed, PCs, netVars
  <2> QED BY <2>2, <2>3 DEF Typed, sinkVars
<1>10. ASSUME NEW h \in Hosts, CloseMultiplexer(h) PROVE Typed'
  <2>1. /\ map' \in [Hosts -> BOOLEAN]
        /\ UNCHANGED <<peer, closedTo, sentTo, sinkVars, workerVars, wire>>
    BY <1>10 DEF CloseMultiplexer, Typed, netVars
  <2> QED BY <2>1 DEF Typed, sinkVars, workerVars
<1>11. ASSUME NEW h \in Hosts, NEW p \in Hosts, NEW n,
              OnCloseHeader(h, p, n) \/ OnBlock(h, p, n) \/ EndBlock(h)
       PROVE  Typed'
  <2>1. UNCHANGED <<setVars, sinkVars, workerVars, wire>>
    BY <1>11 DEF OnCloseHeader, OnBlock, EndBlock
  <2> QED BY <2>1 DEF Typed, setVars, sinkVars, workerVars
<1>12. ASSUME NEW h \in Hosts, NEW p \in Hosts, NEW n,
              OnBlockHeader(h, p, n) \/ CloseAllFor(h)
       PROVE  Typed'
  <2>1. GetOrCreate(h) /\ UNCHANGED <<sinkVars, workerVars, wire>>
    BY <1>12 DEF OnBlockHeader, CloseAllFor
  <2> QED BY <2>1, CreateTyped DEF Typed, sinkVars, workerVars
<1> QED BY <1>0, <1>1, <1>2, <1>3, <1>4, <1>5, <1>6, <1>7, <1>8, <1>9, <1>10, <1>11, <1>12
        DEF Next, WorkerStep, DispatcherStep, Ended

-----------------------------------------------------------------------------
\* A step that leaves worker q and its sinks alone.
RowSame(q) ==
    /\ pc'[q] = pc[q] /\ pos'[q] = pos[q] /\ writersClosed'[q] = writersClosed[q]
    /\ sinkClosed'[q] = sinkClosed[q] /\ blocks'[q] = blocks[q]

\* Such a step keeps what is known of them.
LEMMA RowKept ==
    ASSUME NEW q \in Ranks, RowSame(q)
    PROVE  /\ CloseTarget(q)' = CloseTarget(q)
           /\ WritingOf(q) => WritingOf(q)'
           /\ \A d \in Ranks : Told(q, d)' = Told(q, d)
<1>1. CloseTarget(q)' = CloseTarget(q)
  BY DEF RowSame, CloseTarget
<1>2. WritingOf(q) => WritingOf(q)'
  BY <1>1 DEF RowSame, WritingOf
<1>3. \A d \in Ranks : Told(q, d)' = Told(q, d)
  BY <1>1, Zenon DEF RowSame, Told
<1> QED BY <1>1, <1>2, <1>3

\* A worker changes only its own row, and "done" is the end.
LEMMA WorkerRow ==
    ASSUME Typed, NEW r \in Ranks, NEW d \in Ranks, WorkerStep(r) \/ AppendBlock(r, d)
    PROVE  /\ \A q \in Ranks \ {r} : RowSame(q)
           /\ pc[r] # "done"
           /\ pc'[r] # pc[r] => pc'[r] # "new"
           /\ pc'[r] = "done" => Close(r)
<1> DEFINE Goal == /\ \A q \in Ranks \ {r} : RowSame(q)
                   /\ pc[r] # "done"
                   /\ pc'[r] # pc[r] => pc'[r] # "new"
                   /\ pc'[r] = "done" => Close(r)
<1> USE DEF Typed, RowSame
<1>1. CASE GetNewStream(r)
  BY <1>1 DEF GetNewStream, sinkVars
<1>2. CASE Loopback(r)
  BY <1>2, ZenonT(40) DEF Loopback, sinkVars
<1>3. CASE SendTail(r)
  BY <1>3 DEF SendTail
<1>4. CASE TellTail(r)
  BY <1>4, ZenonT(40) DEF TellTail, OnWriterClosed, NextWriter
<1>5. CASE PutTail(r)
  BY <1>5 DEF PutTail
<1>6. CASE CloseSink(r)
  BY <1>6 DEF CloseSink, OnWriterClosed, NextWriter
<1>7. CASE EndLocal(r)
  BY <1>7, SMTT(30) DEF EndLocal, NextWriter, sinkVars
<1>8. CASE Close(r)
  BY <1>8 DEF Close, sinkVars
<1>9. CASE AppendBlock(r, d)
  BY <1>9, SMTT(30) DEF AppendBlock, workerVars
<1> QED BY <1>1, <1>2, <1>3, <1>4, <1>5, <1>6, <1>7, <1>8, <1>9 DEF WorkerStep

\* The dispatcher threads leave all rows alone.
LEMMA DispatcherRow ==
    ASSUME NEW h \in Hosts, DispatcherStep(h) \/ CloseMultiplexer(h)
    PROVE  (\A q \in Ranks : RowSame(q)) /\ UNCHANGED <<pc, pos, sinkClosed, wire, blocks>>
BY DEF DispatcherStep, CloseMultiplexer, OnCloseHeader, OnBlockHeader, OnBlock, EndBlock,
       CloseAllFor, RowSame, sinkVars, workerVars, netVars

\* No worker leaves "done".
LEMMA DoneStays ==
    ASSUME Typed, [Next]_vars
    PROVE  /\ \A r \in Ranks : pc[r] = "done" => pc'[r] = "done"
           /\ \A h \in Hosts : AllDone(h) => AllDone(h)'
<1>1. ASSUME NEW r \in Ranks, pc[r] = "done" PROVE pc'[r] = "done"
  <2>1. CASE UNCHANGED vars
    BY <1>1, <2>1 DEF vars, workerVars
  <2>2. ASSUME NEW q \in Ranks, NEW d \in Ranks, WorkerStep(q) \/ AppendBlock(q, d)
        PROVE  pc'[r] = "done"
    BY <1>1, <2>2, WorkerRow DEF RowSame
  <2>3. ASSUME NEW q \in Ranks, WorkerStep(q)
        PROVE  pc'[r] = "done"
    BY <2>2, <2>3
  <2>4. ASSUME NEW h \in Hosts, DispatcherStep(h) \/ CloseMultiplexer(h)
        PROVE  pc'[r] = "done"
    BY <1>1, <2>4, DispatcherRow DEF RowSame
  <2> QED BY <2>1, <2>2, <2>3, <2>4 DEF Next, Ended
<1>2. ASSUME NEW h \in Hosts, AllDone(h) PROVE AllDone(h)'
  BY <1>1, <1>2, Layout DEF AllDone
<1> QED BY <1>1, <1>2

-----------------------------------------------------------------------------
\* A worker that has begun and not ended moves on.
LEMMA SetsMove ==
    ASSUME Typed, Sets, NEW r \in Ranks, UNCHANGED <<map, peer>>,
           \A q \in Ranks \ {r} : pc'[q] = pc[q],
           pc[r] \notin {"new", "done"}, pc'[r] \notin {"new", "done"}
    PROVE  Sets'
<1>1. Host(r) \in Hosts /\ r \in Locals(Host(r))
  BY Layout
<1>2. map[Host(r)]
  BY <1>1 DEF Sets
<1> SUFFICES ASSUME NEW h \in Hosts
             PROVE  /\ map[h] => \A q \in Locals(h) : pc'[q] # "done" => peer[q]
                    /\ map[h] => \E q \in Locals(h) : peer[q]
                    /\ ~map[h] => \/ \A q \in Locals(h) : pc'[q] = "new"
                                  \/ \A q \in Locals(h) : pc'[q] = "done"
  BY DEF Sets
<1>3. \A q \in Locals(h) : q \in Ranks /\ Host(q) = h
  BY Layout
<1>4. map[h] => \A q \in Locals(h) : pc'[q] # "done" => peer[q]
  BY <1>3 DEF Sets
<1>5. CASE map[h]
  BY <1>4, <1>5 DEF Sets
<1>6. CASE ~map[h]
  <2>1. \A q \in Locals(h) : pc'[q] = pc[q]
    BY <1>2, <1>3, <1>6
  <2> QED BY <1>6, <2>1 DEF Sets
<1> QED BY <1>5, <1>6

\* A set is found or created, and perhaps a new worker of its host begins.
LEMMA SetsCreate ==
    ASSUME Typed, Sets, NEW h \in Hosts, GetOrCreate(h),
           \A q \in Ranks : \/ pc'[q] = pc[q]
                            \/ Host(q) = h /\ pc[q] = "new" /\ pc'[q] = "getWriters"
    PROVE  Sets'
<1> SUFFICES ASSUME NEW g \in Hosts
             PROVE  /\ map'[g] => \A q \in Locals(g) : pc'[q] # "done" => peer'[q]
                    /\ map'[g] => \E q \in Locals(g) : peer'[q]
                    /\ ~map'[g] => \/ \A q \in Locals(g) : pc'[q] = "new"
                                   \/ \A q \in Locals(g) : pc'[q] = "done"
  BY DEF Sets
<1>1. \A q \in Locals(g) : q \in Ranks /\ Host(q) = g
  BY Layout
<1>2. CASE map[h]
  <2>1. UNCHANGED <<map, peer>>
    BY <1>2 DEF GetOrCreate, setVars
  <2>2. g = h \/ \A q \in Locals(g) : pc'[q] = pc[q]
    BY <1>1
  <2>3. \A q \in Locals(g) : pc'[q] # "done" => pc[q] # "done"
    BY <1>1
  <2> QED BY <1>2, <2>1, <2>2, <2>3 DEF Sets
<1>3. CASE ~map[h]
  <2>1. /\ map' = [map EXCEPT ![h] = TRUE]
        /\ peer' = [r \in Ranks |-> IF Host(r) = h THEN TRUE ELSE peer[r]]
    BY <1>3 DEF GetOrCreate, CreateSet
  <2>2. CASE g = h
    <3>1. map'[g] /\ \A q \in Locals(g) : peer'[q]
      BY <1>1, <2>1, <2>2 DEF Typed
    <3> QED BY <3>1, LocalCount
  <2>3. CASE g # h
    <3>1. map'[g] = map[g] /\ \A q \in Locals(g) : pc'[q] = pc[q] /\ peer'[q] = peer[q]
      BY <1>1, <2>1, <2>3 DEF Typed
    <3> QED BY <3>1 DEF Sets
  <2> QED BY <2>2, <2>3
<1> QED BY <1>2, <1>3

\* A worker closes its stream.
LEMMA SetsClose ==
    ASSUME Typed, Sets, NEW r \in Ranks, Close(r)
    PROVE  Sets' /\ map[Host(r)]
<1> DEFINE h == Host(r)
           left == {l \in Locals(h) : peer[l]} \ {r}
<1>1. h \in Hosts /\ r \in Locals(h)
  BY Layout
<1>2. map[h]
  BY <1>1 DEF Sets, Close
<1>3. /\ peer' = [peer EXCEPT ![r] = FALSE]
      /\ map' = [map EXCEPT ![h] = left # {}]
      /\ pc' = [pc EXCEPT ![r] = "done"]
  BY DEF Close
<1>4. ASSUME NEW g \in Hosts
      PROVE  /\ map'[g] => \A q \in Locals(g) : pc'[q] # "done" => peer'[q]
             /\ map'[g] => \E q \in Locals(g) : peer'[q]
             /\ ~map'[g] => \/ \A q \in Locals(g) : pc'[q] = "new"
                            \/ \A q \in Locals(g) : pc'[q] = "done"
  <2>1. \A q \in Locals(g) : q \in Ranks /\ Host(q) = g
    BY Layout
  <2>2. CASE g = h
    <3>1. map'[g] <=> left # {}
      BY <1>1, <1>3, <2>2, Zenon DEF Typed
    <3>2. \A q \in Locals(g) : pc'[q] # "done" => peer'[q]
      BY <1>2, <1>3, <2>1, <2>2 DEF Sets, Typed
    <3>3. CASE left # {}
      <4>1. PICK l \in left : TRUE
        BY <3>3
      <4>2. l \in Locals(g) /\ peer'[l]
        BY <1>3, <2>1, <2>2, <4>1 DEF Typed
      <4> QED BY <3>1, <3>2, <3>3, <4>2
    <3>4. CASE left = {}
      <4>1. \A q \in Locals(g) \ {r} : ~peer[q]
        BY <2>2, <3>4
      <4>2. \A q \in Locals(g) : pc'[q] = "done"
        BY <1>2, <1>3, <2>1, <2>2, <4>1 DEF Sets, Typed
      <4> QED BY <3>1, <3>4, <4>2
    <3> QED BY <3>3, <3>4
  <2>3. CASE g # h
    <3>1. map'[g] = map[g]
      BY <1>3, <2>3 DEF Typed
    <3>2. \A q \in Locals(g) : pc'[q] = pc[q] /\ peer'[q] = peer[q]
      BY <1>3, <2>1, <2>3 DEF Typed
    <3> QED BY <3>1, <3>2 DEF Sets
  <2> QED BY <2>2, <2>3
<1> QED BY <1>2, <1>4 DEF Sets

\* Every action keeps the sets.
LEMMA SetsStep ==
    ASSUME Typed, Sets, [Next]_vars
    PROVE  Sets'
<1>0. CASE UNCHANGED vars
  BY <1>0 DEF Sets, vars, setVars, workerVars
<1>1. ASSUME NEW r \in Ranks, GetNewStream(r) PROVE Sets'
  <2>1. Host(r) \in Hosts /\ GetOrCreate(Host(r))
    BY <1>1, Layout DEF GetNewStream
  <2>2. \A q \in Ranks : \/ pc'[q] = pc[q]
                         \/ Host(q) = Host(r) /\ pc[q] = "new" /\ pc'[q] = "getWriters"
    BY <1>1 DEF GetNewStream, Typed
  <2> QED BY <2>1, <2>2, SetsCreate
<1>2. ASSUME NEW r \in Ranks, NEW d \in Ranks,
             \/ Loopback(r) \/ SendTail(r) \/ TellTail(r) \/ PutTail(r)
             \/ CloseSink(r) \/ EndLocal(r) \/ AppendBlock(r, d)
      PROVE  Sets'
  <2>1. UNCHANGED <<map, peer>>
    BY <1>2 DEF Loopback, SendTail, TellTail, PutTail, CloseSink, EndLocal, AppendBlock,
                OnWriterClosed, setVars
  <2>2. pc[r] \notin {"new", "done"}
    BY <1>2 DEF Loopback, SendTail, TellTail, PutTail, CloseSink, EndLocal, AppendBlock
  <2>3. WorkerStep(r) \/ AppendBlock(r, d)
    BY <1>2 DEF WorkerStep
  <2>4. ~Close(r)
    <3>1. Close(r) => peer' = [peer EXCEPT ![r] = FALSE] /\ pc[r] = "read"
      BY DEF Close
    <3>2. pc[r] # "read"
      BY <1>2 DEF Loopback, SendTail, TellTail, PutTail, CloseSink, EndLocal, AppendBlock
    <3> QED BY <3>1, <3>2
  <2>5. /\ \A q \in Ranks \ {r} : pc'[q] = pc[q]
        /\ pc'[r] \notin {"new", "done"}
    BY <2>2, <2>3, <2>4, WorkerRow DEF RowSame
  <2> QED BY <2>1, <2>2, <2>5, SetsMove
<1>3. ASSUME NEW r \in Ranks, Close(r) PROVE Sets'
  BY <1>3, SetsClose
<1>4. ASSUME NEW h \in Hosts, CloseMultiplexer(h) PROVE Sets'
  <2>1. /\ map' = [map EXCEPT ![h] = FALSE] /\ UNCHANGED <<peer, pc>> /\ AllDone(h)
    BY <1>4 DEF CloseMultiplexer, workerVars
  <2>2. \A g \in Hosts : g # h => map'[g] = map[g]
    BY <2>1 DEF Typed
  <2>3. ~map'[h] /\ \A q \in Locals(h) : pc'[q] = "done"
    BY <2>1 DEF Typed, AllDone
  <2> QED BY <2>1, <2>2, <2>3 DEF Sets
<1>5. ASSUME NEW h \in Hosts, NEW p \in Hosts, NEW n,
             OnCloseHeader(h, p, n) \/ OnBlock(h, p, n) \/ EndBlock(h)
      PROVE  Sets'
  BY <1>5 DEF OnCloseHeader, OnBlock, EndBlock, setVars, workerVars, Sets
<1>6. ASSUME NEW h \in Hosts, NEW p \in Hosts, NEW n,
             OnBlockHeader(h, p, n) \/ CloseAllFor(h)
      PROVE  Sets'
  BY <1>6, SetsCreate DEF OnBlockHeader, CloseAllFor, workerVars
<1> QED BY <1>0, <1>1, <1>2, <1>3, <1>4, <1>5, <1>6
        DEF Next, WorkerStep, DispatcherStep, Ended

-----------------------------------------------------------------------------
\* The next writer is visited: the count of the closed ones is its index.
LEMMA NextWriting ==
    ASSUME Typed, NEW r \in Ranks, NextWriter(r), writersClosed'[r] = pos[r] + 1
    PROVE  WritingOf(r)' /\ pc'[r] \in {"write", "read"}
<1>1. NumRanks \in Nat \ {0} /\ pos[r] \in 0 .. NumRanks - 1
  BY Layout DEF Typed
<1>2. CASE pos[r] + 1 < NumRanks
  <2>1. pc'[r] = "write" /\ pos'[r] = pos[r] + 1
    BY <1>2 DEF NextWriter, Typed
  <2> QED BY <2>1 DEF WritingOf
<1>3. CASE ~(pos[r] + 1 < NumRanks)
  <2>1. pc'[r] = "read"
    BY <1>3 DEF NextWriter, Typed
  <2>2. pos[r] + 1 = NumRanks
    BY <1>1, <1>3
  <2> QED BY <2>1, <2>2 DEF WritingOf
<1> QED BY <1>2, <1>3

\* Every worker knows where it is.
LEMMA WritingStep ==
    ASSUME Typed, Writing, [Next]_vars
    PROVE  Writing'
<1> DEFINE Others(r) == \A q \in Ranks \ {r} : WritingOf(q)'
<1>0. CASE UNCHANGED vars
  <2>1. \A q \in Ranks : RowSame(q)
    BY <1>0 DEF vars, sinkVars, workerVars, RowSame
  <2> QED BY <2>1, RowKept DEF Writing
<1>a. ASSUME NEW h \in Hosts, DispatcherStep(h) \/ CloseMultiplexer(h) PROVE Writing'
  BY <1>a, DispatcherRow, RowKept DEF Writing
<1>b. ASSUME NEW r \in Ranks, NEW d \in Ranks, WorkerStep(r) \/ AppendBlock(r, d)
      PROVE  Others(r)
  BY <1>b, WorkerRow, RowKept DEF Writing
<1>c. ASSUME NEW r \in Ranks, NEW d \in Ranks, WorkerStep(r) \/ AppendBlock(r, d), WritingOf(r)'
      PROVE  Writing'
  BY <1>b, <1>c DEF Writing
<1>d. ASSUME NEW r \in Ranks, WorkerStep(r) \/ \E d \in Ranks : AppendBlock(r, d)
      PROVE  WritingOf(r)'
  <2>0. WritingOf(r)
    BY DEF Writing
  <2>t. CloseTarget(r) \in Ranks
    BY TargetType
  <2>1. CASE GetNewStream(r)
    <3>1. pc'[r] = "getWriters" /\ pc[r] = "new" /\ UNCHANGED <<sinkVars, pos>>
      BY <2>1 DEF GetNewStream, Typed
    <3>2. 0 < WorkersPerHost
      BY ConstantsAssumption
    <3> QED BY <2>0, <3>1, <3>2 DEF WritingOf, sinkVars
  <2>2. CASE Loopback(r)
    <3>1. pc[r] = "getWriters" /\ UNCHANGED sinkVars
      BY <2>2 DEF Loopback
    <3>2. CASE pos[r] + 1 < WorkersPerHost
      <4>1. pc'[r] = "getWriters" /\ pos'[r] = pos[r] + 1
        BY <2>2, <3>1, <3>2 DEF Loopback, Typed
      <4> QED BY <2>0, <3>1, <3>2, <4>1 DEF WritingOf, sinkVars
    <3>3. CASE ~(pos[r] + 1 < WorkersPerHost)
      <4>1. pc'[r] = "write" /\ pos'[r] = 0
        BY <2>2, <3>3 DEF Loopback, Typed
      <4> QED BY <2>0, <3>1, <4>1 DEF WritingOf, sinkVars
    <3> QED BY <3>2, <3>3
  <2>3. CASE SendTail(r)
    <3>1. /\ pc[r] = "write" /\ pc'[r] = "tell" /\ Remote(r, CloseTarget(r))
          /\ UNCHANGED <<pos, writersClosed>> /\ sinkClosed'[r][CloseTarget(r)]
      BY <2>3, <2>t DEF SendTail, Typed
    <3>2. CloseTarget(r)' = CloseTarget(r)
      BY <3>1 DEF CloseTarget
    <3> QED BY <2>0, <3>1, <3>2 DEF WritingOf, Remote
  <2>4. CASE TellTail(r)
    <3>1. writersClosed' = [writersClosed EXCEPT ![r] = @ + 1] /\ pc[r] = "tell" /\ NextWriter(r)
      BY <2>4, <2>t, WriterClosed DEF TellTail
    <3>2. writersClosed'[r] = pos[r] + 1
      BY <2>0, <3>1 DEF WritingOf, Typed
    <3> QED BY <3>1, <3>2, NextWriting
  <2>5. CASE PutTail(r)
    <3>1. /\ pc[r] = "write" /\ pc'[r] = "close" /\ ~Remote(r, CloseTarget(r))
          /\ UNCHANGED <<pos, writersClosed>>
      BY <2>5 DEF PutTail, Typed
    <3>2. CloseTarget(r)' = CloseTarget(r)
      BY <3>1 DEF CloseTarget
    <3> QED BY <2>0, <3>1, <3>2 DEF WritingOf, Remote
  <2>6. CASE CloseSink(r)
    <3>1. /\ writersClosed' = [writersClosed EXCEPT ![r] = @ + 1] /\ pc[r] \in {"write", "close"}
          /\ sinkClosed'[r][CloseTarget(r)]
      BY <2>6, <2>t, WriterClosed, ZenonT(40) DEF CloseSink, Typed
    <3>2. writersClosed'[r] = pos[r] + 1
      BY <2>0, <3>1 DEF WritingOf, Typed
    <3>3. CASE Remote(r, CloseTarget(r))
      BY <2>6, <3>2, <3>3, NextWriting DEF CloseSink
    <3>4. CASE ~Remote(r, CloseTarget(r))
      <4>1. pc'[r] = "end" /\ UNCHANGED pos
        BY <2>6, <3>4 DEF CloseSink, Typed
      <4>2. CloseTarget(r)' = CloseTarget(r)
        BY <4>1 DEF CloseTarget
      <4> QED BY <3>1, <3>2, <3>4, <4>1, <4>2 DEF WritingOf, Remote
    <3> QED BY <3>3, <3>4
  <2>7. CASE EndLocal(r)
    <3>1. UNCHANGED writersClosed /\ pc[r] = "end" /\ NextWriter(r)
      BY <2>7 DEF EndLocal, sinkVars
    <3>2. writersClosed'[r] = pos[r] + 1
      BY <2>0, <3>1 DEF WritingOf
    <3> QED BY <3>1, <3>2, NextWriting
  <2>8. CASE Close(r)
    <3>1. pc[r] = "read" /\ pc'[r] = "done" /\ UNCHANGED <<writersClosed, pos>>
      BY <2>8 DEF Close, Typed, sinkVars
    <3> QED BY <2>0, <3>1 DEF WritingOf
  <2>9. ASSUME NEW d \in Ranks, AppendBlock(r, d) PROVE WritingOf(r)'
    <3>1. pc[r] = "write" /\ UNCHANGED <<writersClosed, pos, pc>>
      BY <2>9 DEF AppendBlock, workerVars
    <3> QED BY <2>0, <3>1 DEF WritingOf
  <2> QED BY <1>d, <2>1, <2>2, <2>3, <2>4, <2>5, <2>6, <2>7, <2>8, <2>9 DEF WorkerStep
<1> QED BY <1>0, <1>a, <1>c, <1>d DEF Next, Ended

-----------------------------------------------------------------------------
\* What a step does to the counted writers: nothing, or OnWriterClosed adds one.
LEMMA ToldStep ==
    ASSUME Typed, Writing, NEW r \in Ranks, NEW e \in Ranks,
           WorkerStep(r) \/ AppendBlock(r, e)
    PROVE  \/ /\ \A s, x \in Ranks : Told(s, x)' <=> Told(s, x)
              /\ ~TellTail(r) /\ ~CloseSink(r)
           \/ /\ TellTail(r) \/ CloseSink(r)
              /\ \E d \in Ranks :
                    /\ d = CloseTarget(r) /\ ~Told(r, d) /\ Told(r, d)'
                    /\ \A s, x \in Ranks : <<s, x>> # <<r, d>> => (Told(s, x)' <=> Told(s, x))
<1>1. PICK d \in Ranks : d = CloseTarget(r)
  BY TargetType
<1>2. \A s \in Ranks \ {r} : \A x \in Ranks : Told(s, x)' <=> Told(s, x)
  BY WorkerRow, RowKept
<1>3. WritingOf(r)
  BY DEF Writing
<1>4. CASE TellTail(r) \/ CloseSink(r)
  <2>1. CASE TellTail(r)
    <3>1. pc[r] = "tell" /\ pc'[r] # "tell" /\ UNCHANGED sinkClosed
      BY <2>1 DEF TellTail, NextWriter, Typed
    <3>2. sinkClosed[r][d]
      BY <1>1, <1>3, <3>1 DEF WritingOf
    <3>3. ~Told(r, d) /\ Told(r, d)' /\ \A x \in Ranks \ {d} : Told(r, x)' <=> Told(r, x)
      BY <1>1, <3>1, <3>2 DEF Told
    <3> QED BY <1>1, <1>2, <2>1, <3>3
  <2>2. CASE CloseSink(r)
    <3>1. /\ pc[r] # "tell" /\ pc'[r] # "tell" /\ ~sinkClosed[r][d]
          /\ sinkClosed' = [sinkClosed EXCEPT ![r][d] = TRUE]
      BY <1>1, <2>2 DEF CloseSink, NextWriter, Typed
    <3>2. sinkClosed'[r][d] /\ \A x \in Ranks : x # d => sinkClosed'[r][x] = sinkClosed[r][x]
      BY <1>1, <3>1 DEF Typed
    <3>3. ~Told(r, d) /\ Told(r, d)' /\ \A x \in Ranks \ {d} : Told(r, x)' <=> Told(r, x)
      BY <1>1, <3>1, <3>2 DEF Told
    <3> QED BY <1>1, <1>2, <2>2, <3>3
  <2> QED BY <1>4, <2>1, <2>2
<1>5. CASE SendTail(r)
  <2>1. /\ pc[r] = "write" /\ pc'[r] = "tell" /\ UNCHANGED pos /\ ~sinkClosed[r][d]
        /\ sinkClosed' = [sinkClosed EXCEPT ![r][d] = TRUE]
    BY <1>1, <1>5 DEF SendTail, Typed
  <2>2. sinkClosed'[r][d] /\ \A x \in Ranks : x # d => sinkClosed'[r][x] = sinkClosed[r][x]
    BY <1>1, <2>1 DEF Typed
  <2>3. CloseTarget(r)' = d
    BY <1>1, <2>1 DEF CloseTarget
  <2>4. \A x \in Ranks : Told(r, x)' <=> Told(r, x)
    BY <1>1, <2>1, <2>2, <2>3 DEF Told
  <2>5. ~TellTail(r) /\ ~CloseSink(r)
    BY <2>1, ZenonT(40) DEF TellTail, CloseSink, NextWriter, Typed
  <2> QED BY <1>2, <2>4, <2>5
<1>6. CASE ~(TellTail(r) \/ CloseSink(r) \/ SendTail(r))
  <2>1. UNCHANGED sinkClosed /\ pc[r] # "tell" /\ pc'[r] # "tell"
    BY <1>6 DEF WorkerStep, GetNewStream, Loopback, PutTail, EndLocal, Close, AppendBlock,
                NextWriter, sinkVars, workerVars, Typed
  <2>2. \A x \in Ranks : Told(r, x)' <=> Told(r, x)
    BY <2>1 DEF Told
  <2> QED BY <1>2, <1>6, <2>2
<1> QED BY <1>4, <1>5, <1>6

\* The set counts its closed writers.
LEMMA CountedStep ==
    ASSUME CloseInv, [Next]_vars
    PROVE  Counted'
<1> USE DEF CloseInv
<1> SUFFICES ASSUME NEW h \in Hosts, NEW p \in Hosts, ~AllDone(h)'
             PROVE  closedTo'[h][p] = Cardinality(ToldTo(h, p)')
  BY DEF Counted
<1>1. closedTo[h][p] = Cardinality(ToldTo(h, p)) /\ ~AllDone(h)
  BY DoneStays DEF Counted
<1>2. ASSUME \A s, x \in Ranks : Told(s, x)' <=> Told(s, x), closedTo' = closedTo
      PROVE  closedTo'[h][p] = Cardinality(ToldTo(h, p)')
  BY <1>1, <1>2, ToldSame
<1>3. ASSUME \A s, x \in Ranks : Told(s, x)' <=> Told(s, x), NEW g \in Hosts, GetOrCreate(g)
      PROVE  closedTo'[h][p] = Cardinality(ToldTo(h, p)')
  <2>1. CASE map[g]
    BY <1>2, <1>3, <2>1 DEF GetOrCreate, setVars
  <2>2. CASE ~map[g]
    <3>1. closedTo' = [closedTo EXCEPT ![g] = [q \in Hosts |-> 0]]
      BY <2>2, <1>3 DEF GetOrCreate, CreateSet
    <3>2. CASE g = h
      <4>1. closedTo'[h][p] = 0
        BY <3>1, <3>2 DEF Typed
      <4>2. \A q \in Locals(h) : pc[q] = "new"
        BY <1>1, <2>2, <3>2 DEF Sets, AllDone
      <4>3. \A q \in Locals(h), x \in Locals(p) : ~Told(q, x)
        BY <4>2, Layout DEF Writing, WritingOf, Told
      <4>4. ToldTo(h, p) = {}
        BY <4>3 DEF ToldTo
      <4> QED BY <1>3, <4>1, <4>4, ToldSame, FS_EmptySet
    <3>3. CASE g # h
      <4>1. closedTo'[h][p] = closedTo[h][p]
        BY <3>1, <3>3 DEF Typed
      <4> QED BY <1>1, <1>3, <4>1, ToldSame
    <3> QED BY <3>2, <3>3
  <2> QED BY <2>1, <2>2
<1>4. CASE UNCHANGED vars
  <2>1. \A q \in Ranks : RowSame(q)
    BY <1>4 DEF vars, sinkVars, workerVars, RowSame
  <2> QED BY <1>2, <1>4, <2>1, RowKept DEF vars, setVars
<1>5. ASSUME NEW g \in Hosts, DispatcherStep(g) \/ CloseMultiplexer(g)
      PROVE  closedTo'[h][p] = Cardinality(ToldTo(h, p)')
  <2>1. \A s, x \in Ranks : Told(s, x)' <=> Told(s, x)
    BY <1>5, DispatcherRow, RowKept, SMTT(30)
  <2>2. GetOrCreate(g) \/ closedTo' = closedTo
    BY <1>5 DEF DispatcherStep, CloseMultiplexer, OnCloseHeader, OnBlockHeader, OnBlock,
                EndBlock, CloseAllFor, setVars
  <2> QED BY <1>2, <1>3, <2>1, <2>2
<1>6. ASSUME NEW r \in Ranks, NEW e \in Ranks, WorkerStep(r) \/ AppendBlock(r, e)
      PROVE  closedTo'[h][p] = Cardinality(ToldTo(h, p)')
  <2>1. CASE TellTail(r) \/ CloseSink(r)
    <3>1. PICK d \in Ranks :
             /\ d = CloseTarget(r) /\ ~Told(r, d) /\ Told(r, d)'
             /\ \A s, x \in Ranks : <<s, x>> # <<r, d>> => (Told(s, x)' <=> Told(s, x))
      BY <1>6, <2>1, ToldStep
    <3>2. \E sent : OnWriterClosed(r, d, sent, wire)
      BY <2>1, <3>1 DEF TellTail, CloseSink
    <3>3. closedTo' = [closedTo EXCEPT ![Host(r)][Host(d)] = @ + 1]
      BY <3>1, <3>2, WriterClosed
    <3>4. Cardinality(ToldTo(h, p)') = Cardinality(ToldTo(h, p))
             + (IF h = Host(r) /\ p = Host(d) THEN 1 ELSE 0)
      BY <3>1, ToldMore
    <3>5. closedTo'[h][p] = closedTo[h][p] + (IF h = Host(r) /\ p = Host(d) THEN 1 ELSE 0)
      <4>1. closedTo \in [Hosts -> [Hosts -> Nat]] /\ Host(r) \in Hosts /\ Host(d) \in Hosts
        BY Layout DEF Typed
      <4> QED BY <3>3, <4>1
    <3> QED BY <1>1, <3>4, <3>5
  <2>2. CASE ~(TellTail(r) \/ CloseSink(r))
    <3>1. \A s, x \in Ranks : Told(s, x)' <=> Told(s, x)
      BY <1>6, <2>2, ToldStep
    <3>2. GetOrCreate(Host(r)) \/ closedTo' = closedTo
      BY <1>6, <2>2 DEF WorkerStep, GetNewStream, Loopback, SendTail, PutTail, EndLocal,
                        Close, AppendBlock, setVars
    <3> QED BY <1>2, <1>3, <3>1, <3>2, Layout
  <2> QED BY <2>1, <2>2
<1> QED BY <1>4, <1>5, <1>6 DEF Next, Ended

\* No close message is under way on a connection with an open sink, and adding
\* a message there keeps the close messages last.
LEMMA AppendLast ==
    ASSUME Typed, CloseLast, NEW r \in Ranks, NEW d \in Ranks, ~Told(r, d), NEW m \in Message,
           wire' = [wire EXCEPT ![Host(r)][Host(d)] = Append(@, m)],
           \A s, x \in Ranks : Told(s, x) => Told(s, x)',
           m.type = "closeAll" =>
              /\ Host(r) # Host(d)
              /\ \A s \in Locals(Host(r)), x \in Locals(Host(d)) : Told(s, x)'
    PROVE  CloseLast'
<1>1. Host(r) \in Hosts /\ Host(d) \in Hosts /\ r \in Locals(Host(r)) /\ d \in Locals(Host(d))
  BY Layout
<1> DEFINE w == wire[Host(r)][Host(d)]
<1>2. \A n \in 1 .. Len(w) : w[n].type # "closeAll"
  BY <1>1 DEF CloseLast
<1> SUFFICES ASSUME NEW h \in Hosts, NEW p \in Hosts, NEW n \in 1 .. Len(wire'[h][p]),
                    wire'[h][p][n].type = "closeAll"
             PROVE  /\ n = Len(wire'[h][p]) /\ h # p
                    /\ \A s \in Locals(h), x \in Locals(p) : Told(s, x)'
  BY DEF CloseLast
<1>3. CASE <<h, p>> = <<Host(r), Host(d)>>
  <2>0. h = Host(r) /\ p = Host(d)
    BY <1>3
  <2>1. /\ Len(wire'[h][p]) = Len(w) + 1 /\ Len(w) \in Nat
        /\ wire'[h][p][Len(w) + 1] = m
        /\ \A k \in 1 .. Len(w) : wire'[h][p][k] = w[k]
    <3>1. /\ Len(wire'[Host(r)][Host(d)]) = Len(w) + 1 /\ Len(w) \in Nat
          /\ wire'[Host(r)][Host(d)][Len(w) + 1] = m
          /\ \A k \in 1 .. Len(w) : wire'[Host(r)][Host(d)][k] = w[k]
      <4>1. w \in Seq(Message) /\ wire'[Host(r)][Host(d)] = Append(w, m)
        BY <1>1, WireTyped
      <4> HIDE DEF w
      <4> QED BY <4>1, AppendProperties
    <3> QED BY <2>0, <3>1
  <2>2. n = Len(w) + 1
    BY <1>2, <2>1
  <2>3. m.type = "closeAll"
    BY <2>1, <2>2
  <2> QED BY <2>0, <2>1, <2>2, <2>3
<1>4. CASE <<h, p>> # <<Host(r), Host(d)>>
  <2>1. wire'[h][p] = wire[h][p]
    BY <1>1, <1>4, WireTyped
  <2>2. /\ n = Len(wire[h][p]) /\ h # p
        /\ \A s \in Locals(h), x \in Locals(p) : Told(s, x)
    BY <2>1 DEF CloseLast
  <2> QED BY <2>1, <2>2, Layout
<1> QED BY <1>3, <1>4

\* No action sends anything after a close message.
LEMMA LastStep ==
    ASSUME CloseInv, [Next]_vars
    PROVE  CloseLast'
<1> USE DEF CloseInv
<1>1. ASSUME \A s, x \in Ranks : Told(s, x) => Told(s, x)', wire' = wire
      PROVE  CloseLast'
  <2>1. \A h, p \in Hosts : (\A s \in Locals(h), x \in Locals(p) : Told(s, x))
                            => (\A s \in Locals(h), x \in Locals(p) : Told(s, x)')
    BY <1>1, Layout
  <2> QED BY <1>1, <2>1 DEF CloseLast
<1>2. CASE UNCHANGED vars
  <2>1. \A q \in Ranks : RowSame(q)
    BY <1>2 DEF vars, sinkVars, workerVars, RowSame
  <2> QED BY <1>1, <1>2, <2>1, RowKept DEF vars, netVars
<1>3. ASSUME NEW g \in Hosts, DispatcherStep(g) \/ CloseMultiplexer(g)
      PROVE  CloseLast'
  BY <1>1, <1>3, DispatcherRow, RowKept
<1>4. ASSUME NEW r \in Ranks, NEW e \in Ranks, WorkerStep(r) \/ AppendBlock(r, e)
      PROVE  CloseLast'
  <2>1. \A s, x \in Ranks : Told(s, x) => Told(s, x)'
    BY <1>4, ToldStep
  <2>2. CASE TellTail(r) \/ CloseSink(r)
    <3>1. PICK d \in Ranks : d = CloseTarget(r) /\ ~Told(r, d) /\ Told(r, d)'
      BY <1>4, <2>2, ToldStep
    <3>2. PICK sent : OnWriterClosed(r, d, sent, wire)
      BY <2>2, <3>1 DEF TellTail, CloseSink
    <3>3. CASE wire' = wire
      BY <1>1, <2>1, <3>3
    <3>4. CASE wire' # wire
      <4> DEFINE h == Host(r)
                 p == Host(d)
      <4>1. /\ wire' = [wire EXCEPT ![h][p] = Append(@, [type |-> "closeAll"])]
            /\ h # p /\ closedTo[h][p] + 1 = WorkersPerHost * WorkersPerHost
            /\ closedTo' = [closedTo EXCEPT ![h][p] = @ + 1]
        BY <3>2, <3>4, WriterClosed
      <4>2. h \in Hosts /\ p \in Hosts /\ r \in Locals(h)
        BY Layout
      <4>3. ~AllDone(h)'
        <5>1. pc'[r] # "done"
          BY <2>2, ZenonT(40) DEF TellTail, CloseSink, NextWriter, Typed
        <5> QED BY <4>2, <5>1 DEF AllDone
      <4>4. closedTo'[h][p] = WorkersPerHost * WorkersPerHost
        BY <4>1, <4>2 DEF Typed
      <4>5. Cardinality(ToldTo(h, p)') = WorkersPerHost * WorkersPerHost
        BY <4>2, <4>3, <4>4, CountedStep DEF Counted
      <4>6. \A s \in Locals(h), x \in Locals(p) : Told(s, x)'
        BY <4>2, <4>5, ToldCountNext
      <4> QED BY <2>1, <3>1, <4>1, <4>6, CloseTyped, AppendLast
    <3> QED BY <3>3, <3>4
  <2>3. CASE SendTail(r) \/ AppendBlock(r, e)
    <3>1. PICK d \in Ranks, last \in BOOLEAN :
             (SendBlock(r, d, last) /\ ~sinkClosed[r][d]) \/ wire' = wire
      BY <2>3, TargetType DEF SendTail, AppendBlock
    <3>2. CASE wire' = wire
      BY <1>1, <2>1, <3>2
    <3>3. CASE SendBlock(r, d, last) /\ ~sinkClosed[r][d]
      <4> DEFINE m == [type |-> "block", from |-> r, to |-> d,
                       seq |-> blocks[r][d], last |-> last]
      <4>1. m \in Message /\ m.type # "closeAll"
        BY BlockTyped
      <4>2. wire' = [wire EXCEPT ![Host(r)][Host(d)] = Append(@, m)]
        BY <3>3 DEF SendBlock
      <4>3. ~Told(r, d)
        BY <3>3 DEF Told
      <4> HIDE DEF m
      <4> QED BY <2>1, <4>1, <4>2, <4>3, AppendLast
    <3> QED BY <3>1, <3>2, <3>3
  <2>4. CASE ~(TellTail(r) \/ CloseSink(r) \/ SendTail(r) \/ AppendBlock(r, e))
    <3>1. wire' = wire
      BY <1>4, <2>4 DEF WorkerStep, GetNewStream, Loopback, PutTail, EndLocal, Close, netVars
    <3> QED BY <1>1, <2>1, <3>1
  <2> QED BY <2>2, <2>3, <2>4
<1> QED BY <1>2, <1>3, <1>4 DEF Next, Ended

\* The initial states.
LEMMA CloseInit == Init => CloseInv
<1> SUFFICES ASSUME Init PROVE CloseInv
  OBVIOUS
<1> USE DEF Init
<1>1. NumRanks \in Nat \ {0} /\ WorkersPerHost \in Nat \ {0}
  BY Layout, ConstantsAssumption
<1>2. Typed
  <2>1. 0 \in 0 .. NumRanks - 1 /\ <<>> \in Seq(Message)
    BY <1>1
  <2> QED BY <2>1 DEF Typed, PCs
<1>3. Sets
  BY Layout DEF Sets
<1>4. Writing
  BY <1>1 DEF Writing, WritingOf
<1>5. Counted
  <2> SUFFICES ASSUME NEW h \in Hosts, NEW p \in Hosts
               PROVE  closedTo[h][p] = Cardinality(ToldTo(h, p))
    BY DEF Counted
  <2>1. \A s \in Locals(h), d \in Locals(p) : ~Told(s, d)
    BY Layout DEF Told
  <2>2. ToldTo(h, p) = {}
    BY <2>1 DEF ToldTo
  <2> QED BY <2>2, FS_EmptySet
<1>6. CloseLast
  BY DEF CloseLast
<1> QED BY <1>2, <1>3, <1>4, <1>5, <1>6 DEF CloseInv

\* CloseInv is inductive.
LEMMA CloseStep == CloseInv /\ [Next]_vars => CloseInv'
BY TypedStep, SetsStep, WritingStep, CountedStep, LastStep DEF CloseInv

\* StreamSet::OnWriterClosed sends the close message of a host when its last
\* writer to the peer has closed, once, and nothing of the stream follows it on
\* that connection, for any number of hosts and workers, for both kinds of
\* streams and whatever the order in which messages are handed over.
THEOREM NothingFollowsClose == Spec => []CloseIsLast
<1>1. CloseInv => CloseIsLast
  BY DEF CloseInv, CloseLast, CloseIsLast
<1> QED BY <1>1, CloseInit, CloseStep, PTL DEF Spec

-----------------------------------------------------------------------------
(***************************************************************************)
(* A stream is what its users expect, for any number of hosts and workers, *)
(* over connections that hand over one message at a time (mock, local and  *)
(* TCP groups) and as long as no set of streams comes back for a worker    *)
(* that has closed its stream.                                             *)
(*                                                                         *)
(* The invariant CleanInv follows a block from its sink to its queue.  The *)
(* wire between two hosts holds the blocks of every sink, all and in order *)
(* (OnWire); a host has one read posted per connection, and the messages   *)
(* before it have been handled (Reading); so a queue holds the blocks of   *)
(* the handled messages, or all of them and the closing block (Queues),    *)
(* nothing waits for a predecessor, and the semaphore and                  *)
(* remaining_closing_blocks_ count the queues that are closed (Streaming). *)
(* The rest of a handler that a worker can interleave with, the closing    *)
(* block behind a last block or the loop of a close message, finds all     *)
(* blocks it closes behind handled (Handling).                             *)
(***************************************************************************)
\* No stream set came back for a worker that had closed its stream.
NoZombie == \A d \in Ranks : pc[d] = "done" => ~peer[d]

Waits == [seq : Int, block : Int]
StreamT == [seq : [Ranks -> Nat], waiting : [Ranks -> SUBSET Waits],
            queue : [Ranks -> Seq(Int)], remaining : Int, sem : Int]

\* The queues whose closing blocks stream d counts, and those closed in state s.
Awaited(d) == {f \in Ranks : Kind = "Mix" \/ Remote(f, d)}
ClosedAt(s, d) == {f \in Awaited(d) : IsQueueClosed(s, f)}

\* State s of stream d: nothing waits for a predecessor, the closing blocks are
\* counted, and when its worker is done all of them have come.
Tidy(s, d, done) ==
    /\ \A f \in Ranks : s.waiting[f] = {}
    /\ s.remaining = ExpectedCloses - Cardinality(ClosedAt(s, d))
    /\ s.sem = Cardinality(ClosedAt(s, d)) - (IF done THEN ExpectedCloses ELSE 0)
    /\ done => \A f \in Ranks : IsQueueClosed(s, f)

Fresh == \A d \in Ranks : ~map[Host(d)] /\ pc[d] = "new" => stream[d] = FreshStream

Streaming ==
    /\ stream \in [Ranks -> StreamT]
    /\ \A d \in Ranks : Tidy(stream[d], d, pc[d] = "done")
    /\ Fresh

\* Message n on the connection from s's to d's host is a block from s to d.
IsBlock(s, d, n) ==
    LET m == wire[Host(s)][Host(d)][n] IN m.type = "block" /\ m.from = s /\ m.to = d

\* A block on a wire is one of its sink; the last one ends it.
BlockOnWire(p, h, n) ==
    LET m == wire[p][h][n]
    IN  m.type = "block" =>
          /\ Host(m.from) = p /\ Host(m.to) = h /\ p # h
          /\ m.seq < blocks[m.from][m.to]
          /\ m.last => sinkClosed[m.from][m.to] /\ m.seq + 1 = blocks[m.from][m.to]

\* The wire holds the blocks of a sink to another host, all and in order.
SinkOnWire(s, d) ==
    LET w == wire[Host(s)][Host(d)]
    IN  /\ \A i, j \in 1 .. Len(w) : i < j /\ IsBlock(s, d, i) /\ IsBlock(s, d, j)
              => w[i].seq < w[j].seq
        /\ \A q \in 0 .. blocks[s][d] - 1 : \E n \in 1 .. Len(w) :
              IsBlock(s, d, n) /\ w[n].seq = q

OnWire ==
    /\ \A p, h \in Hosts : \A n \in 1 .. Len(wire[p][h]) : BlockOnWire(p, h, n)
    /\ \A s, d \in Ranks : Remote(s, d) => SinkOnWire(s, d)

\* The one read that host h has posted for host p; the messages before it have
\* been handled.  For a block whose bytes are read there is a set.
Phases == UNION {[N -> {"header", "body"}] : N \in SUBSET Nat}
ReadFrom(h, p) ==
    LET k == rxSeq[h][p]
    IN  /\ k >= 1 /\ k <= Len(wire[p][h]) + 1
        /\ DOMAIN reads[h][p] = {k}
        /\ reads[h][p][k] = "body" =>
              k <= Len(wire[p][h]) /\ wire[p][h][k].type = "block" /\ map[h]
Reading ==
    /\ rxSeq \in [Hosts -> [Hosts -> Nat]] /\ reads \in [Hosts -> [Hosts -> Phases]]
    /\ \A h, p \in Hosts : h # p => ReadFrom(h, p)

\* All messages of the sink from s to d have been handled.
AllHandled(s, d) ==
    \A n \in 1 .. Len(wire[Host(s)][Host(d)]) :
        IsBlock(s, d, n) => n < rxSeq[Host(d)][Host(s)]

\* The queue from a worker s on another host: open, with the blocks of the
\* messages that were handled, or closed, with all blocks.
OpenQueue(s, d) ==
    LET k == stream[d].seq[s]
        w == wire[Host(s)][Host(d)]
    IN  /\ stream[d].queue[s] = Run(k) /\ k <= blocks[s][d]
        /\ \A n \in 1 .. Len(w) : IsBlock(s, d, n) =>
              (n < rxSeq[Host(d)][Host(s)] <=> w[n].seq < k)
Whole(s, d) == stream[d].queue[s] = Append(Run(blocks[s][d]), Closing)
ClosedQueue(s, d) == Whole(s, d) /\ sinkClosed[s][d] /\ AllHandled(s, d)
Arriving(s, d) == OpenQueue(s, d) \/ ClosedQueue(s, d)

\* The queue from a worker s on the same host has what s has put.
EndPut(s, d) == sinkClosed[s][d] /\ ~(pc[s] = "end" /\ d = CloseTarget(s))
Looped(s, d) ==
    /\ EndPut(s, d) => Whole(s, d)
    /\ ~EndPut(s, d) => /\ stream[d].queue[s] = Run(blocks[s][d])
                        /\ Kind = "Mix" => stream[d].seq[s] = blocks[s][d]

Queues == \A s, d \in Ranks : /\ Remote(s, d) => Arriving(s, d)
                              /\ ~Remote(s, d) => Looped(s, d)

\* The rest of the handler that the dispatcher thread of h executes: the closing
\* block behind a last block, or the loop that a close message starts.
EndItem == [type : {"end"}, to : Ranks, from : Ranks, seq : Nat]
CloseItem == [type : {"closeAll"}, to : Ranks, from : Hosts, seq : {Final}]
EndRest(h, t) ==
    /\ Host(t.to) = h /\ Remote(t.from, t.to) /\ map[h]
    /\ sinkClosed[t.from][t.to] /\ AllHandled(t.from, t.to)
    /\ t.seq = blocks[t.from][t.to] /\ stream[t.to].seq[t.from] = t.seq
    /\ stream[t.to].queue[t.from] = Run(t.seq)
Ends(w) == Len(w) > 0 /\ w[Len(w)].type = "closeAll"
CloseRest(h, t) ==
    /\ t.from # h /\ Host(t.to) = h
    /\ Ends(wire[t.from][h]) /\ rxSeq[h][t.from] = Len(wire[t.from][h]) + 1
Rest(h, i) ==
    LET t == todo[h][i]
    IN  /\ t.type = "end" => Len(todo[h]) = 1 /\ EndRest(h, t)
        /\ t.type = "closeAll" => CloseRest(h, t)
Handling ==
    /\ todo \in [Hosts -> Seq(EndItem \cup CloseItem)]
    /\ \A h \in Hosts : \A i \in 1 .. Len(todo[h]) : Rest(h, i)

\* The inductive invariant of CleanStream, as long as no set came back.
CleanInv == ~dead /\ Streaming /\ OnWire /\ Reading /\ Queues /\ Handling

\* Connections hand over one message at a time; a CatStream is read to its end.
\* (Close of a CatStream waits for the other hosts only: without reading, it may
\* release the stream before a worker of the same host has asked for it.)
OneAtATime == ParallelAsync = 1 /\ (Kind = "Mix" \/ ReadAll)

-----------------------------------------------------------------------------
(* The operations of a stream that nothing waits in.                       *)

\* Runs of block numbers: extending one, and none of them is a closing block.
LEMMA RunFacts ==
    ASSUME NEW n \in Nat
    PROVE  /\ Run(n) \in Seq(Int) /\ Len(Run(n)) = n
           /\ Append(Run(n), n) = Run(n + 1)
           /\ Closing \notin ToSet(Run(n))
           /\ Closing \in ToSet(Append(Run(n), Closing))
<1>1. Run(n) \in Seq(Int) /\ Len(Run(n)) = n /\ \A i \in 1 .. n : Run(n)[i] = i - 1
  BY DEF Run
<1>2. Append(Run(n), n) \in Seq(Int) /\ Run(n + 1) \in Seq(Int)
  BY <1>1 DEF Run
<1>3. Len(Append(Run(n), n)) = n + 1 /\ Len(Run(n + 1)) = n + 1
  BY <1>1 DEF Run
<1>4. \A i \in 1 .. n + 1 : Append(Run(n), n)[i] = Run(n + 1)[i]
  BY <1>1 DEF Run
<1>5. Append(Run(n), n) = Run(n + 1)
  BY <1>2, <1>3, <1>4, SeqEqual
<1>6. Closing \notin ToSet(Run(n))
  BY DEF ToSet, Run, Closing
<1>7. Closing \in ToSet(Append(Run(n), Closing))
  <2> DEFINE a == Append(Run(n), Closing)
  <2>1. n + 1 \in DOMAIN a /\ a[n + 1] = Closing
    BY <1>1 DEF Closing
  <2>2. Closing \in {a[i] : i \in DOMAIN a}
    <3> HIDE DEF a
    <3> QED BY <2>1
  <2> QED BY <2>2 DEF ToSet
<1> QED BY <1>1, <1>5, <1>6, <1>7

\* Streams with the same fields are the same.
LEMMA StreamEqual ==
    ASSUME NEW s \in StreamT, NEW t \in StreamT, s.seq = t.seq, s.waiting = t.waiting,
           s.queue = t.queue, s.remaining = t.remaining, s.sem = t.sem
    PROVE  s = t
BY SMTT(30) DEF StreamT

\* Stream s after block b from f has been put into its queue.
PutBlock(s, f, b) ==
    [seq |-> [s.seq EXCEPT ![f] = @ + 1],
     waiting |-> s.waiting,
     queue |-> [s.queue EXCEPT ![f] = Append(@, b)],
     remaining |-> s.remaining - (IF b = Closing THEN 1 ELSE 0),
     sem |-> s.sem + (IF b = Closing THEN 1 ELSE 0)]

LEMMA PutBlockType ==
    ASSUME NEW s \in StreamT, NEW f \in Ranks, NEW b \in Int
    PROVE  PutBlock(s, f, b) \in StreamT
<1>1. s.queue[f] \in Seq(Int) /\ s.seq[f] \in Nat
  BY DEF StreamT
<1>2. Append(s.queue[f], b) \in Seq(Int)
  BY <1>1
<1>3. [s.queue EXCEPT ![f] = Append(@, b)] \in [Ranks -> Seq(Int)]
  BY <1>2 DEF StreamT
<1>4. [s.seq EXCEPT ![f] = @ + 1] \in [Ranks -> Nat]
  BY <1>1 DEF StreamT
<1> DEFINE c == IF b = Closing THEN 1 ELSE 0
<1>5. c \in Int
  OBVIOUS
<1> HIDE DEF c
<1>6. s.remaining - c \in Int /\ s.sem + c \in Int
  BY <1>5 DEF StreamT
<1> QED BY <1>3, <1>4, <1>6 DEF PutBlock, StreamT, c

\* OnStreamBlock puts a block that comes in its turn, or with final_seq, into its
\* queue, and dies only if one closing block too many is counted.
LEMMA InTurn ==
    ASSUME NEW s \in StreamT, NEW f \in Ranks, s.waiting[f] = {}, NEW b \in Int, NEW q,
           q = s.seq[f] \/ q = Final
    PROVE  /\ OnStreamBlock(s, f, q, b) = PutBlock(s, f, b)
           /\ Dies(s, f, q, b) <=> PutBlock(s, f, b).remaining < 0
<1>1. ~Early(s, f, q)
  BY DEF Early
<1>2. Cardinality(s.waiting[f]) = 0
  BY FS_EmptySet
<1>3. Successors(s, f, s.seq[f]) = <<>>
  <2> DEFINE P(n) == /\ \A i \in 1 .. n : \E e \in s.waiting[f] : e.seq = s.seq[f] + i
                     /\ ~ \E e \in s.waiting[f] : e.seq = s.seq[f] + n + 1
             run == CHOOSE n \in 0 .. Cardinality(s.waiting[f]) : P(n)
  <2>1. P(0) /\ 0 \in 0 .. Cardinality(s.waiting[f])
    BY <1>2
  <2>2. run \in 0 .. Cardinality(s.waiting[f])
    <3> HIDE DEF P
    <3> QED BY <2>1
  <2>3. run = 0
    BY <1>2, <2>2
  <2>4. Successors(s, f, s.seq[f]) =
          [i \in 1 .. run |-> (CHOOSE e \in s.waiting[f] : e.seq = s.seq[f] + i).block]
    BY DEF Successors
  <2> HIDE DEF run
  <2> QED BY <2>3, <2>4
<1> DEFINE bs == <<b>> \o <<>>
           O == Ordered(s, f, bs)
           c == Cardinality({i \in DOMAIN bs : bs[i] = Closing})
<1>4. bs = <<b>>
  OBVIOUS
<1>5. c = IF b = Closing THEN 1 ELSE 0
  <2>1. CASE b = Closing
    <3>1. {i \in DOMAIN bs : bs[i] = Closing} = {1}
      BY <1>4, <2>1
    <3> QED BY <2>1, <3>1, FS_Singleton
  <2>2. CASE b # Closing
    <3>1. {i \in DOMAIN bs : bs[i] = Closing} = {}
      BY <1>4, <2>2
    <3> QED BY <2>2, <3>1, FS_EmptySet
  <2> QED BY <2>1, <2>2
<1>6. O = [s EXCEPT !.queue[f] = @ \o bs, !.seq[f] = @ + Len(bs),
                    !.remaining = @ - c, !.sem = @ + c]
  BY DEF Ordered
<1>7. s.queue[f] \in Seq(Int) /\ s.queue[f] \o bs = Append(s.queue[f], b) /\ Len(bs) = 1
  BY <1>4 DEF StreamT
<1> HIDE DEF bs, c, O
<1>8. /\ O.queue = [s.queue EXCEPT ![f] = Append(@, b)] /\ O.seq = [s.seq EXCEPT ![f] = @ + 1]
      /\ O.waiting = s.waiting /\ O.remaining = s.remaining - c /\ O.sem = s.sem + c
      /\ DOMAIN O = DOMAIN s
  BY <1>6, <1>7 DEF StreamT
<1> DEFINE R == OnStreamBlock(s, f, q, b)
<1>9. R = [O EXCEPT !.waiting[f] = {e \in @ : e.seq > s.seq[f] + Len(<<>>)}]
  BY <1>1, <1>3 DEF OnStreamBlock, O, bs
<1>10. R = [O EXCEPT !.waiting[f] = {}]
  BY <1>8, <1>9
<1>11. O = PutBlock(s, f, b)
  <2>1. O = [queue |-> O.queue, seq |-> O.seq, waiting |-> O.waiting,
             remaining |-> O.remaining, sem |-> O.sem]
    BY <1>6 DEF StreamT
  <2> QED BY <1>5, <1>8, <2>1 DEF PutBlock
<1>12. R = O
  <2>1. O \in StreamT
    BY <1>11, PutBlockType
  <2>2. O.waiting[f] = {}
    BY <1>8
  <2>3. [O EXCEPT !.waiting[f] = {}] = O
    <3>1. [O.waiting EXCEPT ![f] = {}] = O.waiting
      BY <2>1, <2>2 DEF StreamT
    <3> QED BY <2>1, <3>1 DEF StreamT
  <2> QED BY <1>10, <2>3
<1>13. Dies(s, f, q, b) <=> R.remaining < 0
  BY <1>1 DEF Dies
<1> QED BY <1>11, <1>12, <1>13

-----------------------------------------------------------------------------
(* The loop that ends the open queues of a host.                           *)

\* Stream s after the queues in t have been ended.
EndAll(s, t) ==
    [seq |-> [f \in Ranks |-> IF f \in t THEN s.seq[f] + 1 ELSE s.seq[f]],
     waiting |-> s.waiting,
     queue |-> [f \in Ranks |-> IF f \in t THEN Append(s.queue[f], Closing) ELSE s.queue[f]],
     remaining |-> s.remaining - Cardinality(t),
     sem |-> s.sem + Cardinality(t)]

\* The number of workers is finite.
LEMMA RanksFinite == IsFiniteSet(Ranks) /\ Cardinality(Ranks) = NumRanks
<1>1. NumRanks \in Nat \ {0} /\ Ranks = 0 .. NumRanks - 1
  BY Layout
<1>2. 0 <= NumRanks - 1 /\ 0 \in Int /\ NumRanks - 1 \in Int
  BY <1>1
<1> QED BY <1>1, <1>2, FS_Interval

LEMMA EndAllType ==
    ASSUME NEW s \in StreamT, NEW t \in SUBSET Ranks
    PROVE  EndAll(s, t) \in StreamT
<1>1. IsFiniteSet(t) /\ Cardinality(t) \in Nat
  BY RanksFinite, FS_Subset, FS_CardinalityType
<1>2. ASSUME NEW f \in Ranks
      PROVE  /\ s.queue[f] \in Seq(Int) /\ Append(s.queue[f], Closing) \in Seq(Int)
             /\ s.seq[f] \in Nat /\ s.seq[f] + 1 \in Nat
  <2>1. s.queue[f] \in Seq(Int) /\ s.seq[f] \in Nat
    BY DEF StreamT
  <2> QED BY <2>1 DEF Closing
<1>3. [f \in Ranks |-> IF f \in t THEN Append(s.queue[f], Closing) ELSE s.queue[f]]
        \in [Ranks -> Seq(Int)]
  BY <1>2
<1>4. [f \in Ranks |-> IF f \in t THEN s.seq[f] + 1 ELSE s.seq[f]] \in [Ranks -> Nat]
  BY <1>2
<1>5. s.remaining - Cardinality(t) \in Int /\ s.sem + Cardinality(t) \in Int
  BY <1>1 DEF StreamT
<1>6. s.waiting \in [Ranks -> SUBSET Waits]
  BY DEF StreamT
<1> QED BY <1>3, <1>4, <1>5, <1>6 DEF EndAll, StreamT

\* Ending no queue, and ending one more.
LEMMA EndNone ==
    ASSUME NEW s \in StreamT
    PROVE  EndAll(s, {}) = s
<1>1. EndAll(s, {}) \in StreamT
  BY EndAllType
<1>2. EndAll(s, {}).seq = s.seq /\ EndAll(s, {}).queue = s.queue
  BY DEF EndAll, StreamT
<1>3. EndAll(s, {}).remaining = s.remaining /\ EndAll(s, {}).sem = s.sem
  BY FS_EmptySet DEF EndAll, StreamT
<1>4. EndAll(s, {}).waiting = s.waiting
  BY DEF EndAll
<1> QED BY <1>1, <1>2, <1>3, <1>4, StreamEqual

LEMMA EndOneMore ==
    ASSUME NEW s \in StreamT, NEW t \in SUBSET Ranks, NEW x \in t
    PROVE  PutBlock(EndAll(s, t \ {x}), x, Closing) = EndAll(s, t)
<1> DEFINE u == t \ {x}
           a == EndAll(s, u)
           b == EndAll(s, t)
           c == PutBlock(a, x, Closing)
<1>1. u \in SUBSET Ranks /\ x \in Ranks /\ x \notin u
  OBVIOUS
<1>2. IsFiniteSet(t) /\ Cardinality(t) \in Nat /\ Cardinality(u) = Cardinality(t) - 1
  BY RanksFinite, FS_Subset, FS_CardinalityType, FS_RemoveElement
<1>3. a \in StreamT /\ b \in StreamT
  BY <1>1, EndAllType
<1>4. c \in StreamT
  BY <1>1, <1>3, PutBlockType DEF Closing
<1>5. c.seq = b.seq
  BY <1>1 DEF PutBlock, EndAll
<1>6. c.queue = b.queue
  BY <1>1 DEF PutBlock, EndAll
<1>7. c.waiting = b.waiting
  BY DEF PutBlock, EndAll
<1>8. c.remaining = b.remaining /\ c.sem = b.sem
  <2>1. c.remaining = a.remaining - 1 /\ c.sem = a.sem + 1
    BY DEF PutBlock
  <2>2. a.remaining = s.remaining - Cardinality(u) /\ a.sem = s.sem + Cardinality(u)
    BY DEF EndAll
  <2>3. b.remaining = s.remaining - Cardinality(t) /\ b.sem = s.sem + Cardinality(t)
    BY DEF EndAll
  <2>4. s.remaining \in Int /\ s.sem \in Int
    BY DEF StreamT
  <2> HIDE DEF a, b, c, u
  <2> QED BY <1>2, <2>1, <2>2, <2>3, <2>4
<1> HIDE DEF a, b, c
<1>9. c = b
  BY <1>3, <1>4, <1>5, <1>6, <1>7, <1>8, StreamEqual
<1> QED BY <1>9 DEF a, b, c

\* What the loop computes for t from its values g for smaller sets.
EndStep(s, g, t) ==
    IF t = {} THEN s ELSE OnStreamBlock(g[t \ {Pick(t)}], Pick(t), Final, Closing)
EndSolves(g, s, S) == g = [t \in SUBSET S |-> EndStep(s, g, t)]

\* EndAll is a solution of the recursion, and there is no other one.
LEMMA EndAllSolves ==
    ASSUME NEW s \in StreamT, \A f \in Ranks : s.waiting[f] = {}, NEW S \in SUBSET Ranks
    PROVE  /\ EndSolves([t \in SUBSET S |-> EndAll(s, t)], s, S)
           /\ \A g : EndSolves(g, s, S) => g[S] = EndAll(s, S)
<1>1. ASSUME NEW t \in SUBSET S, t # {}
      PROVE  /\ Pick(t) \in t /\ t \ {Pick(t)} \in SUBSET S
             /\ OnStreamBlock(EndAll(s, t \ {Pick(t)}), Pick(t), Final, Closing) = EndAll(s, t)
  <2> DEFINE x == Pick(t)
             a == EndAll(s, t \ {x})
  <2>1. x \in t /\ x \in Ranks
    BY <1>1 DEF Pick
  <2> HIDE DEF x
  <2>2. t \ {x} \in SUBSET S /\ t \ {x} \in SUBSET Ranks
    OBVIOUS
  <2>3. a \in StreamT /\ a.waiting[x] = {}
    BY <2>1, <2>2, EndAllType DEF EndAll
  <2>4. OnStreamBlock(a, x, Final, Closing) = PutBlock(a, x, Closing)
    <3>1. Closing \in Int
      BY DEF Closing
    <3> HIDE DEF a
    <3> QED BY <2>1, <2>3, <3>1, InTurn
  <2>5. PutBlock(a, x, Closing) = EndAll(s, t)
    BY <2>1, EndOneMore
  <2> QED BY <2>1, <2>2, <2>4, <2>5 DEF x
<1> DEFINE g0 == [t \in SUBSET S |-> EndAll(s, t)]
<1>2. \A t \in SUBSET S : g0[t] = EndStep(s, g0, t)
  <2> TAKE t \in SUBSET S
  <2>1. CASE t = {}
    BY <2>1, EndNone DEF EndStep
  <2>2. CASE t # {}
    <3>1. g0[t \ {Pick(t)}] = EndAll(s, t \ {Pick(t)}) /\ g0[t] = EndAll(s, t)
      BY <1>1, <2>2
    <3> HIDE DEF g0
    <3> QED BY <1>1, <2>2, <3>1 DEF EndStep
  <2> QED BY <2>1, <2>2
<1>3. g0 = [t \in SUBSET S |-> EndStep(s, g0, t)]
  <2> DEFINE k == [t \in SUBSET S |-> EndStep(s, g0, t)]
  <2>1. g0 = k
    BY <1>2
  <2> QED BY <2>1
<1>4. EndSolves(g0, s, S)
  BY <1>3 DEF EndSolves
<1>5. ASSUME NEW g, EndSolves(g, s, S)
      PROVE  g[S] = EndAll(s, S)
  <2> DEFINE Bad == {t \in SUBSET S : g[t] # EndAll(s, t)}
  <2>1. IsFiniteSet(S) /\ Bad \subseteq SUBSET S
    BY RanksFinite, FS_Subset
  <2>2. ASSUME Bad # {} PROVE FALSE
    <3>1. PICK t \in Bad : \A u \in Bad : u \subseteq t => u = t
      <4> HIDE DEF Bad
      <4> QED BY <2>1, <2>2, SmallestSubset
    <3>2. g[t] = EndStep(s, g, t) /\ t \in SUBSET S
      BY <1>5, <3>1 DEF EndSolves
    <3>3. CASE t = {}
      BY <3>1, <3>2, <3>3, EndNone DEF EndStep
    <3>4. CASE t # {}
      <4>1. Pick(t) \in t /\ t \ {Pick(t)} \in SUBSET S
        BY <1>1, <3>2, <3>4
      <4>2. g[t \ {Pick(t)}] = EndAll(s, t \ {Pick(t)})
        BY <3>1, <4>1
      <4>3. g[t] = EndAll(s, t)
        BY <1>1, <3>2, <3>4, <4>2 DEF EndStep
      <4> QED BY <3>1, <4>3
    <3> QED BY <3>3, <3>4
  <2>3. S \notin Bad
    BY <2>2
  <2> QED BY <2>3
<1> QED BY <1>4, <1>5

\* The inner loop of OnMultiplexerHeader ends exactly the open queues of the host.
LEMMA EndsQueues ==
    ASSUME NEW s \in StreamT, \A f \in Ranks : s.waiting[f] = {}, NEW p \in Hosts
    PROVE  /\ OpenFrom(s, p) \in SUBSET Ranks
           /\ EndQueues(s, p) = EndAll(s, OpenFrom(s, p))
<1> DEFINE S == OpenFrom(s, p)
<1>1. S \in SUBSET Ranks
  BY DEF OpenFrom, Locals
<1> DEFINE sol == CHOOSE g : EndSolves(g, s, S)
<1>2. \E g : EndSolves(g, s, S)
  <2> HIDE DEF S
  <2> QED BY <1>1, EndAllSolves
<1>3. EndSolves(sol, s, S)
  BY <1>2, Zenon
<1>4. EndQueues(s, p) = sol[S]
  BY Zenon DEF EndQueues, FoldSet, MapThenFoldSet, EndSolves, EndStep, Pick
<1> HIDE DEF sol, S
<1>5. sol[S] = EndAll(s, S)
  BY <1>1, <1>3, EndAllSolves
<1> QED BY <1>1, <1>4, <1>5 DEF S

-----------------------------------------------------------------------------
(* The closing blocks are counted.                                         *)

\* Close waits for as many closing blocks as there are queues it counts.
LEMMA AwaitedCount ==
    ASSUME NEW d \in Ranks
    PROVE  /\ IsFiniteSet(Awaited(d)) /\ ExpectedCloses \in Nat
           /\ Cardinality(Awaited(d)) = ExpectedCloses
<1>1. Awaited(d) \in SUBSET Ranks
  BY DEF Awaited
<1>2. CASE Kind = "Mix"
  <2>1. Awaited(d) = Ranks /\ ExpectedCloses = NumRanks
    BY <1>2 DEF Awaited, ExpectedCloses, NumRanks
  <2> QED BY <2>1, RanksFinite, Layout
<1>3. CASE Kind # "Mix"
  <2> DEFINE L == Locals(Host(d))
  <2>1. Awaited(d) = Ranks \ L /\ L \in SUBSET Ranks
    BY <1>3 DEF Awaited, Remote, Locals
  <2>2. Kind = "Cat"
    BY <1>3, ConstantsAssumption
  <2>3. Ranks \cap L = L
    BY <2>1
  <2>4. Cardinality(L) = WorkersPerHost
    BY Layout, LocalCount
  <2>5. Cardinality(Ranks \ L) = NumRanks - WorkersPerHost
    BY <2>3, <2>4, RanksFinite, FS_Difference
  <2>6. (NumHosts - 1) * WorkersPerHost = NumRanks - WorkersPerHost
    BY ConstantsAssumption DEF NumRanks
  <2>7. (NumHosts - 1) * WorkersPerHost \in Nat
    <3>1. NumHosts - 1 \in Nat /\ WorkersPerHost \in Nat
      BY ConstantsAssumption
    <3> QED BY <3>1
  <2>8. ExpectedCloses = (NumHosts - 1) * WorkersPerHost
    BY <2>2 DEF ExpectedCloses
  <2> HIDE DEF L
  <2> QED BY <1>1, <2>1, <2>5, <2>6, <2>7, <2>8, RanksFinite, FS_Subset
<1> QED BY <1>2, <1>3

LEMMA ClosedCount ==
    ASSUME NEW s, NEW d \in Ranks
    PROVE  /\ IsFiniteSet(ClosedAt(s, d)) /\ Cardinality(ClosedAt(s, d)) \in Nat
           /\ Cardinality(ClosedAt(s, d)) <= ExpectedCloses
           /\ Cardinality(ClosedAt(s, d)) >= ExpectedCloses =>
                 \A f \in Awaited(d) : IsQueueClosed(s, f)
           /\ (\A f \in Awaited(d) : IsQueueClosed(s, f)) =>
                 Cardinality(ClosedAt(s, d)) = ExpectedCloses
<1> DEFINE A == Awaited(d)
           C == ClosedAt(s, d)
<1>1. IsFiniteSet(A) /\ ExpectedCloses \in Nat /\ Cardinality(A) = ExpectedCloses
  BY AwaitedCount
<1>2. C \in SUBSET A
  BY DEF ClosedAt
<1>3. IsFiniteSet(C) /\ Cardinality(C) \in Nat /\ Cardinality(C) <= Cardinality(A)
  BY <1>1, <1>2, FS_Subset, FS_CardinalityType
<1>4. Cardinality(A) = Cardinality(C) => A = C
  BY <1>1, <1>2, FS_Subset
<1>5. A = C => \A f \in A : IsQueueClosed(s, f)
  BY DEF ClosedAt
<1>6. (\A f \in A : IsQueueClosed(s, f)) => A = C
  BY DEF ClosedAt
<1> HIDE DEF A, C
<1>7. Cardinality(C) >= ExpectedCloses => \A f \in A : IsQueueClosed(s, f)
  BY <1>1, <1>3, <1>4, <1>5
<1>8. (\A f \in A : IsQueueClosed(s, f)) => Cardinality(C) = ExpectedCloses
  BY <1>1, <1>6
<1> QED BY <1>1, <1>3, <1>7, <1>8 DEF A, C

\* What is in a sequence after an element was appended.
LEMMA AppendSet ==
    ASSUME NEW q \in Seq(Int), NEW b \in Int
    PROVE  Closing \in ToSet(Append(q, b)) <=> Closing \in ToSet(q) \/ b = Closing
<1> DEFINE a == Append(q, b)
<1>1. /\ Len(q) \in Nat /\ DOMAIN a = 1 .. Len(q) + 1 /\ DOMAIN q = 1 .. Len(q)
      /\ a[Len(q) + 1] = b /\ \A i \in 1 .. Len(q) : a[i] = q[i]
  OBVIOUS
<1> HIDE DEF a
<1>2. \A i \in 1 .. Len(q) + 1 : i \in 1 .. Len(q) \/ i = Len(q) + 1
  BY <1>1
<1>3. (\E i \in DOMAIN a : a[i] = Closing) <=> (\E i \in DOMAIN q : q[i] = Closing) \/ b = Closing
  BY <1>1, <1>2
<1>4. Closing \in ToSet(a) <=> \E i \in DOMAIN a : a[i] = Closing
  BY DEF ToSet
<1>5. Closing \in ToSet(q) <=> \E i \in DOMAIN q : q[i] = Closing
  BY DEF ToSet
<1> QED BY <1>3, <1>4, <1>5 DEF a

\* A block is put into a queue.
LEMMA TidyPut ==
    ASSUME NEW s \in StreamT, NEW d \in Ranks, NEW done \in BOOLEAN, Tidy(s, d, done),
           NEW f \in Ranks, NEW b \in Nat
    PROVE  /\ Tidy(PutBlock(s, f, b), d, done) /\ PutBlock(s, f, b).remaining >= 0
           /\ \A g \in Ranks : IsQueueClosed(PutBlock(s, f, b), g) <=> IsQueueClosed(s, g)
<1> DEFINE t == PutBlock(s, f, b)
<1>1. b # Closing /\ b \in Int
  BY DEF Closing
<1>2. \A g \in Ranks : IsQueueClosed(t, g) <=> IsQueueClosed(s, g)
  <2> TAKE g \in Ranks
  <2>1. t.queue[g] = IF g = f THEN Append(s.queue[f], b) ELSE s.queue[g]
    BY DEF PutBlock, StreamT
  <2>2. s.queue[f] \in Seq(Int)
    BY DEF StreamT
  <2> QED BY <1>1, <2>1, <2>2, AppendSet DEF IsQueueClosed
<1>3. t.waiting = s.waiting /\ t.remaining = s.remaining /\ t.sem = s.sem
  BY <1>1 DEF PutBlock, StreamT
<1> HIDE DEF t
<1>4. ClosedAt(t, d) = ClosedAt(s, d)
  BY <1>2 DEF ClosedAt, Awaited
<1>5. t.remaining >= 0
  BY <1>3, ClosedCount, AwaitedCount DEF Tidy
<1>6. Tidy(t, d, done)
  BY <1>2, <1>3, <1>4 DEF Tidy
<1> QED BY <1>2, <1>5, <1>6 DEF t

\* A block is put into a queue whose closing block is not counted.
LEMMA TidyLocal ==
    ASSUME NEW s \in StreamT, NEW d \in Ranks, NEW done \in BOOLEAN, Tidy(s, d, done),
           NEW f \in Ranks, f \notin Awaited(d), NEW b \in Int,
           NEW t, t = [s EXCEPT !.queue[f] = Append(@, b)]
    PROVE  t \in StreamT /\ Tidy(t, d, done)
<1>1. s.queue[f] \in Seq(Int) /\ Append(s.queue[f], b) \in Seq(Int)
  BY DEF StreamT
<1>2. /\ t.queue = [s.queue EXCEPT ![f] = Append(@, b)] /\ t.seq = s.seq
      /\ t.waiting = s.waiting /\ t.remaining = s.remaining /\ t.sem = s.sem
  BY DEF StreamT
<1>3. t \in StreamT
  BY <1>1 DEF StreamT
<1>4. \A g \in Ranks : IsQueueClosed(t, g) <=> IsQueueClosed(s, g) \/ (g = f /\ b = Closing)
  <2> TAKE g \in Ranks
  <2>1. t.queue[g] = IF g = f THEN Append(s.queue[f], b) ELSE s.queue[g]
    BY <1>2 DEF StreamT
  <2> QED BY <1>1, <2>1, AppendSet DEF IsQueueClosed
<1>5. ClosedAt(t, d) = ClosedAt(s, d)
  BY <1>4 DEF ClosedAt, Awaited
<1>6. Tidy(t, d, done)
  BY <1>2, <1>4, <1>5 DEF Tidy
<1> QED BY <1>3, <1>6

\* Counted queues that are open are ended.
LEMMA TidyEnd ==
    ASSUME NEW s \in StreamT, NEW d \in Ranks, NEW done \in BOOLEAN, Tidy(s, d, done),
           NEW t \in SUBSET Awaited(d), \A f \in t : ~IsQueueClosed(s, f)
    PROVE  /\ Tidy(EndAll(s, t), d, done) /\ EndAll(s, t).remaining >= 0
           /\ \A g \in Ranks : IsQueueClosed(EndAll(s, t), g) <=> IsQueueClosed(s, g) \/ g \in t
<1> DEFINE u == EndAll(s, t)
<1>0. t \in SUBSET Ranks /\ IsFiniteSet(t) /\ Cardinality(t) \in Nat
  BY AwaitedCount, FS_Subset, FS_CardinalityType DEF Awaited
<1>1. \A g \in Ranks : IsQueueClosed(u, g) <=> IsQueueClosed(s, g) \/ g \in t
  <2> TAKE g \in Ranks
  <2>1. u.queue[g] = IF g \in t THEN Append(s.queue[g], Closing) ELSE s.queue[g]
    BY DEF EndAll
  <2>2. s.queue[g] \in Seq(Int) /\ Closing \in Int
    BY DEF StreamT, Closing
  <2> QED BY <2>1, <2>2, AppendSet DEF IsQueueClosed
<1>2. /\ u.waiting = s.waiting /\ u.remaining = s.remaining - Cardinality(t)
      /\ u.sem = s.sem + Cardinality(t)
  BY DEF EndAll
<1> HIDE DEF u
<1>3. ClosedAt(u, d) = ClosedAt(s, d) \cup t /\ ClosedAt(s, d) \cap t = {}
  BY <1>1 DEF ClosedAt, Awaited
<1>4. Cardinality(ClosedAt(u, d)) = Cardinality(ClosedAt(s, d)) + Cardinality(t)
  <2>1. PICK A, n : A = ClosedAt(s, d) /\ n = Cardinality(A)
    OBVIOUS
  <2>2. IsFiniteSet(A) /\ n \in Nat /\ A \cap t = {}
    BY <1>3, <2>1, ClosedCount
  <2>3. Cardinality(A \cap t) = 0
    BY <2>2, FS_EmptySet
  <2>4. Cardinality(A \cup t) = n + Cardinality(t) - Cardinality(A \cap t)
    BY <1>0, <2>1, <2>2, FS_Union
  <2>5. Cardinality(A \cup t) = n + Cardinality(t)
    BY <1>0, <2>2, <2>3, <2>4
  <2> QED BY <1>3, <2>1, <2>5
<1>5. /\ Cardinality(ClosedAt(s, d)) \in Nat /\ Cardinality(ClosedAt(u, d)) <= ExpectedCloses
      /\ ExpectedCloses \in Nat
  BY ClosedCount, AwaitedCount
<1>6. u.remaining = ExpectedCloses - Cardinality(ClosedAt(u, d)) /\ u.remaining >= 0
  BY <1>0, <1>2, <1>4, <1>5 DEF Tidy
<1>7. u.sem = Cardinality(ClosedAt(u, d)) - (IF done THEN ExpectedCloses ELSE 0)
  BY <1>0, <1>2, <1>4, <1>5 DEF Tidy
<1>8. Tidy(u, d, done)
  BY <1>1, <1>2, <1>6, <1>7 DEF Tidy
<1> QED BY <1>1, <1>6, <1>8 DEF u

\* One queue is ended by its closing block.
LEMMA EndOne ==
    ASSUME NEW s \in StreamT, NEW f \in Ranks
    PROVE  PutBlock(s, f, Closing) = EndAll(s, {f})
<1>1. PutBlock(EndAll(s, {f} \ {f}), f, Closing) = EndAll(s, {f})
  BY EndOneMore
<1>2. {f} \ {f} = {}
  OBVIOUS
<1> QED BY <1>1, <1>2, EndNone

-----------------------------------------------------------------------------
(* The stream sets.                                                        *)

\* A set that came back for a worker that is done does not go away.
LEMMA ZombiesStay ==
    ASSUME Typed, [Next]_vars, NoZombie'
    PROVE  NoZombie
<1> SUFFICES ASSUME NEW d \in Ranks, pc[d] = "done", peer[d] PROVE FALSE
  BY DEF NoZombie
<1>1. pc'[d] = "done"
  BY DoneStays
<1>2. peer'[d]
  <2>1. CASE peer' = peer
    BY <2>1
  <2>2. ASSUME NEW h \in Hosts, GetOrCreate(h) PROVE peer'[d]
    BY <2>2 DEF GetOrCreate, CreateSet, setVars
  <2>3. ASSUME NEW r \in Ranks, Close(r) PROVE peer'[d]
    <3>1. r # d /\ peer' = [peer EXCEPT ![r] = FALSE]
      BY <2>3 DEF Close
    <3> QED BY <3>1 DEF Typed
  <2>4. ASSUME NEW r \in Ranks, WorkerStep(r) PROVE peer'[d]
    <3>1. GetOrCreate(Host(r)) \/ Close(r) \/ peer' = peer
      BY <2>4 DEF WorkerStep, GetNewStream, Loopback, SendTail, TellTail, PutTail, CloseSink,
                  EndLocal, OnWriterClosed, setVars
    <3> QED BY <2>1, <2>2, <2>3, <3>1, Layout
  <2>5. ASSUME NEW h \in Hosts, DispatcherStep(h) \/ CloseMultiplexer(h) PROVE peer'[d]
    <3>1. GetOrCreate(h) \/ peer' = peer
      BY <2>5 DEF DispatcherStep, CloseMultiplexer, OnCloseHeader, OnBlockHeader, OnBlock,
                  EndBlock, CloseAllFor, setVars
    <3> QED BY <2>1, <2>2, <3>1
  <2> QED BY <2>1, <2>4, <2>5 DEF Next, AppendBlock, Ended, vars, setVars
<1> QED BY <1>1, <1>2 DEF NoZombie

\* A set that is created is the first one: its streams are fresh as they were.
LEMMA NotCreated ==
    ASSUME Typed, Sets, Streaming, [Next]_vars, NoZombie', NEW h \in Hosts, GetOrCreate(h)
    PROVE  StreamsAfter(h) = stream
<1>1. CASE map[h]
  BY <1>1 DEF StreamsAfter, Streaming
<1>2. CASE ~map[h]
  <2>1. \A r \in Locals(h) : peer'[r]
    BY <1>2, Layout DEF GetOrCreate, CreateSet
  <2>2. \A r \in Locals(h) : pc'[r] # "done"
    BY <2>1, Layout DEF NoZombie
  <2>3. \A r \in Locals(h) : pc[r] # "done"
    BY <2>2, DoneStays, Layout
  <2>4. \E r \in Locals(h) : TRUE
    BY LocalCount
  <2>5. \A r \in Locals(h) : pc[r] = "new"
    BY <1>2, <2>3, <2>4 DEF Sets
  <2>6. \A r \in Ranks : Host(r) = h => stream[r] = FreshStream
    BY <1>2, <2>5, Layout DEF Streaming, Fresh
  <2>7. \A r \in Ranks : StreamsAfter(h)[r] = stream[r]
    BY <2>6 DEF StreamsAfter
  <2> DEFINE S == StreamsAfter(h)
  <2>8. S = [r \in Ranks |-> S[r]] /\ stream = [r \in Ranks |-> stream[r]]
    BY DEF StreamsAfter, Streaming
  <2> HIDE DEF S
  <2> QED BY <2>7, <2>8 DEF S
<1> QED BY <1>1, <1>2

\* A set stays as long as one of its workers is not done.
LEMMA MapStays ==
    ASSUME Typed, Sets, [Next]_vars, NEW d \in Ranks, map[Host(d)], pc'[d] # "done"
    PROVE  map'[Host(d)]
<1>0. Host(d) \in Hosts /\ d \in Locals(Host(d)) /\ pc[d] # "done"
  BY Layout, DoneStays
<1>1. CASE map' = map
  BY <1>1
<1>2. ASSUME NEW h \in Hosts, GetOrCreate(h) PROVE map'[Host(d)]
  BY <1>0, <1>2 DEF GetOrCreate, CreateSet, setVars, Typed
<1>3. ASSUME NEW r \in Ranks, Close(r) PROVE map'[Host(d)]
  <2>1. d # r
    BY <1>3 DEF Close, Typed
  <2>2. map' = [map EXCEPT ![Host(r)] = ({l \in Locals(Host(r)) : peer[l]} \ {r}) # {}]
    BY <1>3 DEF Close
  <2>3. peer[d]
    BY <1>0 DEF Sets
  <2>4. CASE Host(r) = Host(d)
    <3>1. d \in {l \in Locals(Host(r)) : peer[l]} \ {r}
      BY <1>0, <2>1, <2>3, <2>4
    <3>2. ({l \in Locals(Host(r)) : peer[l]} \ {r}) # {}
      BY <3>1
    <3> QED BY <1>0, <2>2, <2>4, <3>2, Zenon DEF Typed
  <2>5. CASE Host(r) # Host(d)
    BY <1>0, <2>2, <2>5 DEF Typed
  <2> QED BY <2>4, <2>5
<1>4. ASSUME NEW r \in Ranks, WorkerStep(r) PROVE map'[Host(d)]
  <2>1. GetOrCreate(Host(r)) \/ Close(r) \/ map' = map
    BY <1>4 DEF WorkerStep, GetNewStream, Loopback, SendTail, TellTail, PutTail, CloseSink,
                EndLocal, OnWriterClosed, setVars
  <2> QED BY <1>1, <1>2, <1>3, <2>1, Layout
<1>5. ASSUME NEW h \in Hosts, DispatcherStep(h) PROVE map'[Host(d)]
  <2>1. GetOrCreate(h) \/ map' = map
    BY <1>5 DEF DispatcherStep, OnCloseHeader, OnBlockHeader, OnBlock,
                EndBlock, CloseAllFor, setVars
  <2> QED BY <1>1, <1>2, <2>1
<1>6. ASSUME NEW h \in Hosts, CloseMultiplexer(h) PROVE map'[Host(d)]
  <2>1. h # Host(d)
    BY <1>0, <1>6 DEF CloseMultiplexer, AllDone
  <2> QED BY <1>0, <1>6, <2>1 DEF CloseMultiplexer, Typed
<1> QED BY <1>1, <1>4, <1>5, <1>6 DEF Next, AppendBlock, Ended, vars, setVars

\* A worker is not done, and will not be by the next step, while a queue that its
\* stream counts is open.
LEMMA OpenNotDone ==
    ASSUME Typed, Streaming, [Next]_vars, NEW d \in Ranks, NEW f \in Awaited(d),
           ~IsQueueClosed(stream[d], f)
    PROVE  pc[d] # "done" /\ pc'[d] # "done"
<1>1. Tidy(stream[d], d, pc[d] = "done") /\ f \in Ranks
  BY DEF Streaming, Awaited
<1>2. pc[d] # "done"
  BY <1>1 DEF Tidy
<1>3. ASSUME Close(d) PROVE FALSE
  <2>1. stream[d].sem >= ExpectedCloses
    BY <1>3 DEF Close, AwaitedCloses
  <2>2. stream[d].sem = Cardinality(ClosedAt(stream[d], d))
    <3>1. stream[d].sem = Cardinality(ClosedAt(stream[d], d)) - 0
      BY <1>1, <1>2 DEF Tidy
    <3> QED BY <3>1, ClosedCount
  <2> QED BY <2>1, <2>2, ClosedCount
<1>4. ASSUME pc'[d] = "done" PROVE FALSE
  <2>1. CASE pc'[d] = pc[d]
    BY <1>2, <1>4, <2>1
  <2>2. ASSUME NEW r \in Ranks, NEW e \in Ranks, WorkerStep(r) \/ AppendBlock(r, e) PROVE FALSE
    <3>1. CASE r = d
      BY <1>3, <1>4, <2>2, <3>1, WorkerRow
    <3>2. CASE r # d
      BY <2>1, <2>2, <3>2, WorkerRow DEF RowSame
    <3> QED BY <3>1, <3>2
  <2>3. ASSUME NEW h \in Hosts, DispatcherStep(h) \/ CloseMultiplexer(h) PROVE FALSE
    BY <2>1, <2>3, DispatcherRow DEF RowSame
  <2>4. ASSUME NEW r \in Ranks, WorkerStep(r) PROVE FALSE
    BY <2>2, <2>4
  <2> QED BY <2>1, <2>2, <2>3, <2>4 DEF Next, Ended, vars, workerVars
<1> QED BY <1>2, <1>4

\* A worker that is new was new.
LEMMA NewBefore ==
    ASSUME Typed, [Next]_vars, NEW d \in Ranks, pc'[d] = "new"
    PROVE  pc[d] = "new"
<1>1. ASSUME NEW r \in Ranks, NEW e \in Ranks, WorkerStep(r) \/ AppendBlock(r, e)
      PROVE  pc[d] = "new"
  <2>1. CASE r = d
    BY <1>1, <2>1, WorkerRow
  <2>2. CASE r # d
    BY <1>1, <2>2, WorkerRow DEF RowSame
  <2> QED BY <2>1, <2>2
<1>2. ASSUME NEW r \in Ranks, WorkerStep(r) PROVE pc[d] = "new"
  BY <1>1, <1>2
<1>3. ASSUME NEW h \in Hosts, DispatcherStep(h) \/ CloseMultiplexer(h) PROVE pc[d] = "new"
  BY <1>3, DispatcherRow DEF RowSame
<1> QED BY <1>1, <1>2, <1>3 DEF Next, Ended, vars, workerVars

\* The streams of a set that is not there are fresh.
LEMMA FreshKept ==
    ASSUME Typed, Sets, Fresh, [Next]_vars,
           \A d \in Ranks : ~map[Host(d)] /\ ~map'[Host(d)] => stream'[d] = stream[d]
    PROVE  Fresh'
<1> SUFFICES ASSUME NEW d \in Ranks, ~map'[Host(d)], pc'[d] = "new"
             PROVE  stream'[d] = FreshStream
  BY DEF Fresh, FreshStream
<1>1. pc[d] = "new"
  BY NewBefore
<1>2. ~map[Host(d)]
  BY MapStays
<1> QED BY <1>1, <1>2 DEF Fresh

-----------------------------------------------------------------------------
(* The connections.                                                        *)

\* A step appends at most one message to a connection.
Grows(p, h) ==
    LET w == wire[p][h]
        v == wire'[p][h]
    IN  /\ Len(w) \in Nat /\ (Len(v) = Len(w) \/ Len(v) = Len(w) + 1)
        /\ \A n \in 1 .. Len(w) : v[n] = w[n]
        /\ Len(v) = Len(w) + 1 => v[Len(w) + 1] \in Message
        /\ Len(v) = Len(w) + 1 /\ v[Len(w) + 1].type = "block" =>
              Host(v[Len(w) + 1].from) = p /\ Host(v[Len(w) + 1].to) = h /\ p # h

\* Message n of the next state is a block from s to d.
WillBeBlock(s, d, n) ==
    LET m == wire'[Host(s)][Host(d)][n] IN m.type = "block" /\ m.from = s /\ m.to = d

\* What a step does to the sink from s to a worker d of another host: none of its
\* blocks is sent, or the next one, while it is open.
SinkStep(s, d) ==
    LET w == wire[Host(s)][Host(d)]
        v == wire'[Host(s)][Host(d)]
    IN  /\ sinkClosed[s][d] => sinkClosed'[s][d]
        /\ \/ /\ blocks'[s][d] = blocks[s][d]
              /\ Len(v) = Len(w) + 1 => ~WillBeBlock(s, d, Len(w) + 1)
           \/ /\ blocks'[s][d] = blocks[s][d] + 1 /\ ~sinkClosed[s][d]
              /\ Len(v) = Len(w) + 1 /\ WillBeBlock(s, d, Len(w) + 1)
              /\ v[Len(w) + 1].seq = blocks[s][d]
              /\ v[Len(w) + 1].last => sinkClosed'[s][d]

WiresStep ==
    /\ \A p, h \in Hosts : Grows(p, h)
    /\ \A s, d \in Ranks : Remote(s, d) => SinkStep(s, d)

\* Nothing is sent.
LEMMA NothingSent ==
    ASSUME Typed, wire' = wire,
           \A s, d \in Ranks : sinkClosed[s][d] => sinkClosed'[s][d],
           \A s, d \in Ranks : Remote(s, d) => blocks'[s][d] = blocks[s][d]
    PROVE  WiresStep
<1>1. ASSUME NEW p \in Hosts, NEW h \in Hosts PROVE Grows(p, h)
  <2>1. wire[p][h] \in Seq(Message) /\ wire'[p][h] = wire[p][h]
    BY DEF Typed
  <2>2. Len(wire[p][h]) \in Nat /\ Len(wire[p][h]) # Len(wire[p][h]) + 1
    BY <2>1
  <2> QED BY <2>1, <2>2 DEF Grows
<1>2. ASSUME NEW s \in Ranks, NEW d \in Ranks, Remote(s, d) PROVE SinkStep(s, d)
  <2>1. wire[Host(s)][Host(d)] \in Seq(Message)
    BY Layout DEF Typed
  <2>2. Len(wire[Host(s)][Host(d)]) # Len(wire[Host(s)][Host(d)]) + 1
    BY <2>1
  <2> QED BY <1>2, <2>2 DEF SinkStep
<1> QED BY <1>1, <1>2 DEF WiresStep

\* A close message is sent.
LEMMA CloseSent ==
    ASSUME Typed, NEW g \in Hosts, NEW q \in Hosts, NEW m \in CloseMsg,
           wire' = [wire EXCEPT ![g][q] = Append(@, m)],
           \A s, d \in Ranks : sinkClosed[s][d] => sinkClosed'[s][d],
           \A s, d \in Ranks : blocks'[s][d] = blocks[s][d]
    PROVE  WiresStep
<1>0. m \in Message /\ m.type = "closeAll"
  BY DEF Message, CloseMsg
<1>1. /\ Len(wire'[g][q]) = Len(wire[g][q]) + 1 /\ Len(wire[g][q]) \in Nat
      /\ wire'[g][q][Len(wire[g][q]) + 1] = m
      /\ \A n \in 1 .. Len(wire[g][q]) : wire'[g][q][n] = wire[g][q][n]
      /\ \A p, h \in Hosts : <<p, h>> # <<g, q>> => wire'[p][h] = wire[p][h]
  <2>1. /\ Len(wire'[g][q]) = Len(wire[g][q]) + 1 /\ Len(wire[g][q]) \in Nat
        /\ wire'[g][q][Len(wire[g][q]) + 1] = m
        /\ \A n \in 1 .. Len(wire[g][q]) : wire'[g][q][n] = wire[g][q][n]
    BY <1>0, WireTyped, ZenonT(40)
  <2>2. \A p, h \in Hosts : <<p, h>> # <<g, q>> => wire'[p][h] = wire[p][h]
    BY <1>0, WireTyped
  <2> QED BY <2>1, <2>2
<1>2. ASSUME NEW p \in Hosts, NEW h \in Hosts PROVE Grows(p, h)
  <2>1. CASE p = g /\ h = q
    BY <1>0, <1>1, <2>1 DEF Grows
  <2>2. CASE ~(p = g /\ h = q)
    <3>1. wire[p][h] \in Seq(Message) /\ wire'[p][h] = wire[p][h]
      BY <1>1, <2>2 DEF Typed
    <3>2. Len(wire[p][h]) \in Nat /\ Len(wire[p][h]) # Len(wire[p][h]) + 1
      BY <3>1
    <3> QED BY <3>1, <3>2 DEF Grows
  <2> QED BY <2>1, <2>2
<1>3. ASSUME NEW s \in Ranks, NEW d \in Ranks, Remote(s, d) PROVE SinkStep(s, d)
  <2>0. Host(s) \in Hosts /\ Host(d) \in Hosts
    BY Layout
  <2>1. CASE Host(s) = g /\ Host(d) = q
    BY <1>0, <1>1, <2>1 DEF SinkStep, WillBeBlock
  <2>2. CASE ~(Host(s) = g /\ Host(d) = q)
    <3>1. wire[Host(s)][Host(d)] \in Seq(Message) /\ wire'[Host(s)][Host(d)] = wire[Host(s)][Host(d)]
      BY <1>1, <2>0, <2>2 DEF Typed
    <3>2. Len(wire[Host(s)][Host(d)]) # Len(wire[Host(s)][Host(d)]) + 1
      BY <3>1
    <3> QED BY <3>1, <3>2 DEF SinkStep
  <2> QED BY <2>1, <2>2
<1> QED BY <1>2, <1>3 DEF WiresStep

\* A block is sent.
LEMMA BlockSent ==
    ASSUME Typed, NEW r \in Ranks, NEW e \in Ranks, NEW last \in BOOLEAN, Remote(r, e),
           SendBlock(r, e, last), ~sinkClosed[r][e], last => sinkClosed'[r][e],
           \A s, d \in Ranks : sinkClosed[s][d] => sinkClosed'[s][d],
           blocks' = [blocks EXCEPT ![r][e] = @ + 1]
    PROVE  WiresStep
<1> DEFINE m == [type |-> "block", from |-> r, to |-> e, seq |-> blocks[r][e], last |-> last]
           g == Host(r)
           q == Host(e)
<1>0. m \in Message /\ g \in Hosts /\ q \in Hosts /\ g # q
  BY BlockTyped, Layout DEF Remote
<1>1. wire' = [wire EXCEPT ![g][q] = Append(@, m)]
  BY DEF SendBlock
<1>2. m.type = "block" /\ m.from = r /\ m.to = e /\ m.seq = blocks[r][e] /\ m.last = last
  OBVIOUS
<1> HIDE DEF m
<1>3. /\ Len(wire'[g][q]) = Len(wire[g][q]) + 1 /\ Len(wire[g][q]) \in Nat
      /\ wire'[g][q][Len(wire[g][q]) + 1] = m
      /\ \A n \in 1 .. Len(wire[g][q]) : wire'[g][q][n] = wire[g][q][n]
      /\ \A p, h \in Hosts : <<p, h>> # <<g, q>> => wire'[p][h] = wire[p][h]
  <2>1. /\ Len(wire'[g][q]) = Len(wire[g][q]) + 1 /\ Len(wire[g][q]) \in Nat
        /\ wire'[g][q][Len(wire[g][q]) + 1] = m
        /\ \A n \in 1 .. Len(wire[g][q]) : wire'[g][q][n] = wire[g][q][n]
    BY <1>0, <1>1, WireTyped, ZenonT(40)
  <2>2. \A p, h \in Hosts : <<p, h>> # <<g, q>> => wire'[p][h] = wire[p][h]
    BY <1>0, <1>1, WireTyped
  <2> QED BY <2>1, <2>2
<1>4. /\ blocks'[r][e] = blocks[r][e] + 1
      /\ \A s, d \in Ranks : ~(s = r /\ d = e) => blocks'[s][d] = blocks[s][d]
  BY DEF Typed
<1>5. ASSUME NEW p \in Hosts, NEW h \in Hosts PROVE Grows(p, h)
  <2>1. CASE p = g /\ h = q
    BY <1>0, <1>3, <1>2, <2>1 DEF Grows
  <2>2. CASE ~(p = g /\ h = q)
    <3>1. wire[p][h] \in Seq(Message) /\ wire'[p][h] = wire[p][h]
      BY <1>3, <2>2 DEF Typed
    <3>2. Len(wire[p][h]) \in Nat /\ Len(wire[p][h]) # Len(wire[p][h]) + 1
      BY <3>1
    <3> QED BY <3>1, <3>2 DEF Grows
  <2> QED BY <2>1, <2>2
<1>6. ASSUME NEW s \in Ranks, NEW d \in Ranks, Remote(s, d) PROVE SinkStep(s, d)
  <2>0. Host(s) \in Hosts /\ Host(d) \in Hosts
    BY Layout
  <2>1. CASE s = r /\ d = e
    BY <1>3, <1>2, <1>4, <2>1 DEF SinkStep, WillBeBlock
  <2>2. CASE ~(s = r /\ d = e) /\ Host(s) = g /\ Host(d) = q
    BY <1>3, <1>2, <1>4, <2>2 DEF SinkStep, WillBeBlock
  <2>3. CASE ~(Host(s) = g /\ Host(d) = q)
    <3>1. wire[Host(s)][Host(d)] \in Seq(Message) /\ wire'[Host(s)][Host(d)] = wire[Host(s)][Host(d)]
      BY <1>3, <2>0, <2>3 DEF Typed
    <3>2. Len(wire[Host(s)][Host(d)]) # Len(wire[Host(s)][Host(d)]) + 1
      BY <3>1
    <3>3. blocks'[s][d] = blocks[s][d]
      BY <1>4, <2>3
    <3> QED BY <3>1, <3>2, <3>3 DEF SinkStep
  <2> QED BY <2>1, <2>2, <2>3
<1> QED BY <1>5, <1>6 DEF WiresStep

\* Closed sinks stay closed.
LEMMA SinksStayClosed ==
    ASSUME Typed, [Next]_vars
    PROVE  \A s, d \in Ranks : sinkClosed[s][d] => sinkClosed'[s][d]
<1>1. CASE UNCHANGED sinkClosed
  BY <1>1
<1>2. ASSUME NEW r \in Ranks, NEW e \in Ranks, WorkerStep(r) \/ AppendBlock(r, e)
      PROVE  UNCHANGED sinkClosed \/ sinkClosed' = [sinkClosed EXCEPT ![r][CloseTarget(r)] = TRUE]
  BY <1>2 DEF WorkerStep, GetNewStream, Loopback, SendTail, TellTail, PutTail, CloseSink,
              EndLocal, Close, AppendBlock, sinkVars
<1>3. ASSUME NEW r \in Ranks, sinkClosed' = [sinkClosed EXCEPT ![r][CloseTarget(r)] = TRUE]
      PROVE  \A s, d \in Ranks : sinkClosed[s][d] => sinkClosed'[s][d]
  BY <1>3, TargetType DEF Typed
<1>4. ASSUME NEW h \in Hosts, DispatcherStep(h) \/ CloseMultiplexer(h) PROVE UNCHANGED sinkClosed
  BY <1>4, DispatcherRow
<1>5. ASSUME NEW r \in Ranks, WorkerStep(r)
      PROVE  UNCHANGED sinkClosed \/ sinkClosed' = [sinkClosed EXCEPT ![r][CloseTarget(r)] = TRUE]
  BY <1>2, <1>5
<1> QED BY <1>1, <1>2, <1>3, <1>4, <1>5 DEF Next, Ended, vars, sinkVars

\* Every step is one of these.
LEMMA WiresStepped ==
    ASSUME Typed, [Next]_vars
    PROVE  WiresStep
<1>0. \A s, d \in Ranks : sinkClosed[s][d] => sinkClosed'[s][d]
  BY SinksStayClosed
<1>1. CASE UNCHANGED <<wire, blocks>>
  BY <1>0, <1>1, NothingSent
<1>2. ASSUME NEW h \in Hosts, DispatcherStep(h) \/ CloseMultiplexer(h) PROVE WiresStep
  BY <1>1, <1>2, DispatcherRow
<1>3. ASSUME NEW r \in Ranks, NEW e \in Ranks, AppendBlock(r, e) PROVE WiresStep
  <2>1. blocks' = [blocks EXCEPT ![r][e] = @ + 1] /\ ~sinkClosed[r][e]
    BY <1>3 DEF AppendBlock
  <2>2. CASE Remote(r, e)
    BY <1>0, <1>3, <2>1, <2>2, BlockSent DEF AppendBlock
  <2>3. CASE ~Remote(r, e)
    <3>1. wire' = wire /\ \A s, d \in Ranks : Remote(s, d) => blocks'[s][d] = blocks[s][d]
      BY <1>3, <2>1, <2>3 DEF AppendBlock, Typed
    <3> QED BY <1>0, <3>1, NothingSent
  <2> QED BY <2>2, <2>3
<1>4. ASSUME NEW r \in Ranks, TellTail(r) \/ CloseSink(r) PROVE WiresStep
  <2>1. PICK d \in Ranks, sent \in BOOLEAN : OnWriterClosed(r, d, sent, wire) /\ blocks' = blocks
    BY <1>4, TargetType DEF TellTail, CloseSink
  <2>2. CASE wire' = wire
    BY <1>1, <2>1, <2>2
  <2>3. CASE wire' = [wire EXCEPT ![Host(r)][Host(d)] = Append(@, [type |-> "closeAll"])]
    <3>1. [type |-> "closeAll"] \in CloseMsg
      BY DEF CloseMsg
    <3>2. Host(r) \in Hosts /\ Host(d) \in Hosts
      BY Layout
    <3> QED BY <1>0, <2>1, <2>3, <3>1, <3>2, CloseSent
  <2> QED BY <2>1, <2>2, <2>3, WriterClosed
<1>5. ASSUME NEW r \in Ranks, SendTail(r) PROVE WiresStep
  <2>1. PICK d \in Ranks : d = CloseTarget(r)
    BY TargetType
  <2>2. /\ ~sinkClosed[r][d] /\ Remote(r, d) /\ SendBlock(r, d, TRUE)
        /\ blocks' = [blocks EXCEPT ![r][d] = @ + 1]
        /\ sinkClosed' = [sinkClosed EXCEPT ![r][d] = TRUE]
    BY <1>5, <2>1 DEF SendTail
  <2>3. sinkClosed'[r][d]
    BY <2>2 DEF Typed
  <2> QED BY <1>0, <2>2, <2>3, BlockSent
<1>6. ASSUME NEW r \in Ranks, PutTail(r) PROVE WiresStep
  <2>1. PICK d \in Ranks : d = CloseTarget(r)
    BY TargetType
  <2>2. ~Remote(r, d) /\ blocks' = [blocks EXCEPT ![r][d] = @ + 1] /\ wire' = wire
    BY <1>6, <2>1 DEF PutTail, netVars
  <2>3. \A s, x \in Ranks : Remote(s, x) => blocks'[s][x] = blocks[s][x]
    BY <2>2 DEF Typed
  <2> QED BY <1>0, <2>2, <2>3, NothingSent
<1>7. ASSUME NEW r \in Ranks, GetNewStream(r) \/ Loopback(r) \/ EndLocal(r) \/ Close(r)
      PROVE  WiresStep
  BY <1>1, <1>7 DEF GetNewStream, Loopback, EndLocal, Close, sinkVars, netVars
<1> QED BY <1>1, <1>2, <1>3, <1>4, <1>5, <1>6, <1>7
        DEF Next, WorkerStep, Ended, vars, sinkVars, netVars

\* A message that was on the wire is there, and the same.
LEMMA BlockStays ==
    ASSUME WiresStep, NEW s \in Ranks, NEW d \in Ranks,
           NEW n \in 1 .. Len(wire[Host(s)][Host(d)])
    PROVE  /\ IsBlock(s, d, n)' <=> IsBlock(s, d, n)
           /\ wire'[Host(s)][Host(d)][n] = wire[Host(s)][Host(d)][n]
           /\ n \in 1 .. Len(wire'[Host(s)][Host(d)])
<1>1. Grows(Host(s), Host(d))
  BY Layout DEF WiresStep
<1>2. wire'[Host(s)][Host(d)][n] = wire[Host(s)][Host(d)][n]
  BY <1>1 DEF Grows
<1>3. n \in 1 .. Len(wire'[Host(s)][Host(d)])
  BY <1>1 DEF Grows
<1> QED BY <1>2, <1>3 DEF IsBlock

\* A message of the next state is old or the one that is sent.
LEMMA OldOrNew ==
    ASSUME NEW p \in Hosts, NEW h \in Hosts, Grows(p, h), NEW n \in 1 .. Len(wire'[p][h])
    PROVE  \/ n \in 1 .. Len(wire[p][h]) /\ wire'[p][h][n] = wire[p][h][n]
           \/ n = Len(wire[p][h]) + 1 /\ Len(wire'[p][h]) = Len(wire[p][h]) + 1
<1> DEFINE k == Len(wire[p][h])
           l == Len(wire'[p][h])
<1>1. k \in Nat /\ (l = k \/ l = k + 1) /\ n \in 1 .. l
  BY DEF Grows
<1>2. \A i \in 1 .. k : wire'[p][h][i] = wire[p][h][i]
  BY DEF Grows
<1> HIDE DEF k, l
<1>3. n \in 1 .. k \/ (n = k + 1 /\ l = k + 1)
  BY <1>1
<1> QED BY <1>2, <1>3 DEF k, l

\* The wires hold the blocks of their sinks.
LEMMA OnWireStep ==
    ASSUME Typed, OnWire, WiresStep
    PROVE  OnWire'
<1>1. ASSUME NEW p \in Hosts, NEW h \in Hosts, NEW n \in 1 .. Len(wire'[p][h])
      PROVE  BlockOnWire(p, h, n)'
  <2> DEFINE m == wire'[p][h][n]
  <2> SUFFICES ASSUME m.type = "block"
               PROVE  /\ Host(m.from) = p /\ Host(m.to) = h /\ p # h
                      /\ m.seq < blocks'[m.from][m.to]
                      /\ m.last => /\ sinkClosed'[m.from][m.to]
                                   /\ m.seq + 1 = blocks'[m.from][m.to]
    BY DEF BlockOnWire
  <2>1. Grows(p, h) /\ wire[p][h] \in Seq(Message)
    BY DEF WiresStep, Typed
  <2>2. CASE n \in 1 .. Len(wire[p][h]) /\ m = wire[p][h][n]
    <3>1. m \in Block
      <4>1. wire[p][h][n] \in Message
        BY <2>1, <2>2
      <4>2. m \in Message
        BY <2>2, <4>1
      <4> HIDE DEF m
      <4> QED BY <4>2 DEF Message, Block, CloseMsg
    <3>2. /\ Host(m.from) = p /\ Host(m.to) = h /\ p # h
          /\ m.seq < blocks[m.from][m.to]
          /\ m.last => sinkClosed[m.from][m.to] /\ m.seq + 1 = blocks[m.from][m.to]
      <4>1. BlockOnWire(p, h, n)
        BY <2>2 DEF OnWire
      <4> HIDE DEF m
      <4> QED BY <2>2, <4>1 DEF BlockOnWire
    <3> HIDE DEF m
    <3>3. m.from \in Ranks /\ m.to \in Ranks /\ m.seq \in Nat /\ blocks[m.from][m.to] \in Nat
      BY <3>1 DEF Block, Typed
    <3>4. SinkStep(m.from, m.to)
      BY <3>2, <3>3 DEF WiresStep, Remote
    <3>5. blocks'[m.from][m.to] = blocks[m.from][m.to] \/ blocks'[m.from][m.to] = blocks[m.from][m.to] + 1
      BY <3>4 DEF SinkStep
    <3>6. sinkClosed[m.from][m.to] =>
            sinkClosed'[m.from][m.to] /\ blocks'[m.from][m.to] = blocks[m.from][m.to]
      BY <3>4 DEF SinkStep
    <3> QED BY <3>2, <3>3, <3>5, <3>6
  <2>3. CASE n = Len(wire[p][h]) + 1 /\ Len(wire'[p][h]) = Len(wire[p][h]) + 1
    <3>1. m \in Message /\ Host(m.from) = p /\ Host(m.to) = h /\ p # h
      BY <2>1, <2>3 DEF Grows
    <3>2. m \in Block
      <4> HIDE DEF m
      <4> QED BY <3>1 DEF Message, Block, CloseMsg
    <3>3. m.from \in Ranks /\ m.to \in Ranks /\ blocks[m.from][m.to] \in Nat
      <4> HIDE DEF m
      <4> QED BY <3>2 DEF Block, Typed
    <3>4. SinkStep(m.from, m.to)
      <4> HIDE DEF m
      <4> QED BY <3>1, <3>3 DEF WiresStep, Remote
    <3>5. PICK s \in Ranks, d \in Ranks : s = m.from /\ d = m.to
      BY <3>3, SMTT(30)
    <3>6. WillBeBlock(s, d, Len(wire[Host(s)][Host(d)]) + 1)
      BY <2>3, <3>1, <3>5, ZenonT(40) DEF WillBeBlock
    <3>7. /\ blocks'[s][d] = blocks[s][d] + 1 /\ m.seq = blocks[s][d]
          /\ m.last => sinkClosed'[s][d]
      BY <2>3, <3>1, <3>4, <3>5, <3>6 DEF SinkStep
    <3> HIDE DEF m
    <3> QED BY <3>1, <3>3, <3>5, <3>7
  <2> QED BY <2>1, <2>2, <2>3, OldOrNew
<1>2. ASSUME NEW s \in Ranks, NEW d \in Ranks, Remote(s, d)
      PROVE  SinkOnWire(s, d)'
  <2> DEFINE w == wire[Host(s)][Host(d)]
             v == wire'[Host(s)][Host(d)]
  <2>1. Host(s) \in Hosts /\ Host(d) \in Hosts /\ Grows(Host(s), Host(d)) /\ SinkStep(s, d)
    BY <1>2, Layout DEF WiresStep
  <2>2. SinkOnWire(s, d) /\ blocks[s][d] \in Nat
    BY <1>2 DEF OnWire, Typed
  <2>3. \A n \in 1 .. Len(w) : IsBlock(s, d, n)' <=> IsBlock(s, d, n)
    BY BlockStays
  <2>4. \A n : IsBlock(s, d, n)' <=> WillBeBlock(s, d, n)
    BY DEF IsBlock, WillBeBlock
  <2>5. ASSUME NEW i \in 1 .. Len(v), NEW j \in 1 .. Len(v), i < j,
               IsBlock(s, d, i)', IsBlock(s, d, j)'
        PROVE  v[i].seq < v[j].seq
    <3>1. i \in 1 .. Len(w) /\ v[i] = w[i] /\ IsBlock(s, d, i)
      <4>1. i \in 1 .. Len(w)
        BY <2>1, <2>5 DEF Grows
      <4> QED BY <2>1, <2>3, <2>5, <4>1, BlockStays
    <3>2. CASE j \in 1 .. Len(w) /\ v[j] = w[j]
      BY <2>2, <2>3, <2>5, <3>1, <3>2 DEF SinkOnWire
    <3>3. CASE j = Len(w) + 1 /\ Len(v) = Len(w) + 1
      <4>1. v[j].seq = blocks[s][d]
        BY <2>1, <2>4, <2>5, <3>3 DEF SinkStep
      <4>2. BlockOnWire(Host(s), Host(d), i)
        BY <2>1, <3>1 DEF OnWire
      <4>3. w[i].seq < blocks[s][d]
        BY <3>1, <4>2 DEF BlockOnWire, IsBlock
      <4> QED BY <3>1, <4>1, <4>3
    <3> QED BY <2>1, <3>2, <3>3, OldOrNew
  <2>6. ASSUME NEW q \in 0 .. blocks'[s][d] - 1
        PROVE  \E n \in 1 .. Len(v) : IsBlock(s, d, n)' /\ v[n].seq = q
    <3>1. CASE q \in 0 .. blocks[s][d] - 1
      <4>1. PICK n \in 1 .. Len(w) : IsBlock(s, d, n) /\ w[n].seq = q
        BY <2>2, <3>1 DEF SinkOnWire
      <4>2. n \in 1 .. Len(v) /\ v[n] = w[n] /\ IsBlock(s, d, n)'
        BY <2>3, <4>1, BlockStays
      <4> QED BY <4>1, <4>2
    <3>2. CASE q \notin 0 .. blocks[s][d] - 1
      <4>1. blocks'[s][d] = blocks[s][d] + 1 /\ q = blocks[s][d]
        BY <2>1, <2>2, <3>2 DEF SinkStep
      <4>2. Len(v) = Len(w) + 1 /\ WillBeBlock(s, d, Len(w) + 1) /\ v[Len(w) + 1].seq = q
        BY <2>1, <2>2, <4>1 DEF SinkStep
      <4>3. Len(w) + 1 \in 1 .. Len(v)
        BY <2>1, <4>2 DEF Grows
      <4> QED BY <2>4, <4>2, <4>3
    <3> QED BY <3>1, <3>2
  <2> QED BY <2>5, <2>6 DEF SinkOnWire
<1> QED BY <1>1, <1>2 DEF OnWire

\* Nothing is sent after a close message.
LEMMA Frozen ==
    ASSUME WiresStep, CloseLast', NEW p \in Hosts, NEW h \in Hosts, Ends(wire[p][h])
    PROVE  Len(wire'[p][h]) = Len(wire[p][h]) /\ Ends(wire'[p][h])
<1> DEFINE k == Len(wire[p][h])
<1>1. Grows(p, h) /\ k \in Nat /\ k > 0 /\ wire[p][h][k].type = "closeAll"
  BY DEF WiresStep, Ends, Grows
<1>2. wire'[p][h][k].type = "closeAll" /\ k \in 1 .. Len(wire'[p][h])
  BY <1>1 DEF Grows
<1>3. k = Len(wire'[p][h])
  BY <1>2 DEF CloseLast
<1> QED BY <1>1, <1>2, <1>3 DEF Ends

\* A sink that is closed and whose messages were handled sends no more.
LEMMA HandledKept ==
    ASSUME WiresStep, NEW s \in Ranks, NEW d \in Ranks, Remote(s, d), sinkClosed[s][d],
           AllHandled(s, d), rxSeq[Host(d)][Host(s)] \in Nat, rxSeq'[Host(d)][Host(s)] \in Nat,
           rxSeq'[Host(d)][Host(s)] >= rxSeq[Host(d)][Host(s)]
    PROVE  sinkClosed'[s][d] /\ blocks'[s][d] = blocks[s][d] /\ AllHandled(s, d)'
<1>1. Host(s) \in Hosts /\ Host(d) \in Hosts /\ Grows(Host(s), Host(d)) /\ SinkStep(s, d)
  BY Layout DEF WiresStep
<1>2. sinkClosed'[s][d] /\ blocks'[s][d] = blocks[s][d]
  BY <1>1 DEF SinkStep
<1>3. ASSUME NEW n \in 1 .. Len(wire'[Host(s)][Host(d)]), IsBlock(s, d, n)'
      PROVE  n < rxSeq'[Host(d)][Host(s)]
  <2>1. CASE n \in 1 .. Len(wire[Host(s)][Host(d)])
    <3>1. n < rxSeq[Host(d)][Host(s)]
      BY <1>3, <2>1, BlockStays DEF AllHandled
    <3> QED BY <2>1, <3>1
  <2>2. CASE n = Len(wire[Host(s)][Host(d)]) + 1 /\
             Len(wire'[Host(s)][Host(d)]) = Len(wire[Host(s)][Host(d)]) + 1
    BY <1>1, <1>3, <2>2 DEF SinkStep, WillBeBlock, IsBlock
  <2> QED BY <1>1, <2>1, <2>2, OldOrNew
<1> QED BY <1>2, <1>3 DEF AllHandled

\* The queue between two workers of different hosts has what it should have, when
\* the step touches neither it nor the reader's position among its messages.
LEMMA ArrivingKept ==
    ASSUME Typed, WiresStep, NEW s \in Ranks, NEW d \in Ranks, Remote(s, d), Arriving(s, d),
           stream[d].seq[s] \in Nat,
           stream'[d].seq[s] = stream[d].seq[s], stream'[d].queue[s] = stream[d].queue[s],
           rxSeq[Host(d)][Host(s)] \in Nat, rxSeq'[Host(d)][Host(s)] \in Nat,
           rxSeq'[Host(d)][Host(s)] >= rxSeq[Host(d)][Host(s)],
           rxSeq'[Host(d)][Host(s)] <= Len(wire[Host(s)][Host(d)]) + 1,
           \A n \in 1 .. Len(wire[Host(s)][Host(d)]) :
              IsBlock(s, d, n) => (n < rxSeq'[Host(d)][Host(s)] <=> n < rxSeq[Host(d)][Host(s)])
    PROVE  Arriving(s, d)'
<1>1. Host(s) \in Hosts /\ Host(d) \in Hosts /\ Grows(Host(s), Host(d)) /\ SinkStep(s, d)
  BY Layout DEF WiresStep
<1>2. CASE ClosedQueue(s, d)
  <2>1. sinkClosed'[s][d] /\ blocks'[s][d] = blocks[s][d] /\ AllHandled(s, d)'
    BY <1>2, HandledKept DEF ClosedQueue
  <2>2. Whole(s, d)'
    BY <1>2, <2>1 DEF ClosedQueue, Whole, Run, Closing
  <2> QED BY <2>1, <2>2 DEF ClosedQueue, Arriving
<1>3. CASE OpenQueue(s, d)
  <2> DEFINE k == stream[d].seq[s]
             w == wire[Host(s)][Host(d)]
             v == wire'[Host(s)][Host(d)]
             x == rxSeq[Host(d)][Host(s)]
             y == rxSeq'[Host(d)][Host(s)]
  <2>1. stream'[d].queue[s] = Run(k) /\ stream'[d].seq[s] = k
    BY <1>3 DEF OpenQueue
  <2>2. blocks[s][d] \in Nat /\ k <= blocks[s][d]
    BY <1>3 DEF OpenQueue, Typed
  <2>3. k <= blocks'[s][d]
    BY <1>1, <2>2 DEF SinkStep
  <2>4. ASSUME NEW n \in 1 .. Len(v), IsBlock(s, d, n)'
        PROVE  n < y <=> v[n].seq < k
    <3>1. CASE n \in 1 .. Len(w)
      <4>1. IsBlock(s, d, n) /\ v[n] = w[n]
        BY <2>4, <3>1, BlockStays
      <4>2. n < x <=> w[n].seq < k
        BY <1>3, <3>1, <4>1 DEF OpenQueue
      <4> QED BY <3>1, <4>1, <4>2
    <3>2. CASE n = Len(w) + 1 /\ Len(v) = Len(w) + 1
      <4>1. v[n].seq = blocks[s][d]
        BY <1>1, <2>4, <3>2 DEF SinkStep, WillBeBlock, IsBlock
      <4>2. Len(w) \in Nat
        BY <1>1 DEF Grows
      <4>3. ~(n < y)
        BY <3>2, <4>2
      <4>4. ~(v[n].seq < k)
        BY <2>2, <4>1
      <4> QED BY <4>3, <4>4, SMTT(30)
    <3> QED BY <1>1, <3>1, <3>2, OldOrNew
  <2>5. OpenQueue(s, d)'
    BY <2>1, <2>3, <2>4 DEF OpenQueue, Run
  <2> QED BY <2>5 DEF Arriving
<1> QED BY <1>2, <1>3 DEF Arriving

\* A queue that ends with a block is not closed.
LEMMA RunIsOpen ==
    ASSUME NEW s, NEW f, NEW n \in Nat, s.queue[f] = Run(n)
    PROVE  ~IsQueueClosed(s, f)
BY RunFacts, SMTT(30) DEF IsQueueClosed

\* The block that is read next belongs to a queue that is open.
LEMMA NextBlock ==
    ASSUME Typed, Streaming, OnWire, Queues, NEW p \in Hosts, NEW h \in Hosts,
           NEW k \in 1 .. Len(wire[p][h]), wire[p][h][k].type = "block", k = rxSeq[h][p],
           NEW m, m = wire[p][h][k]
    PROVE  /\ m \in Block /\ m.from \in Ranks /\ m.to \in Ranks /\ p # h
           /\ Host(m.from) = p /\ Host(m.to) = h /\ Remote(m.from, m.to)
           /\ m.from \in Awaited(m.to)
           /\ IsBlock(m.from, m.to, k) /\ OpenQueue(m.from, m.to)
           /\ ~IsQueueClosed(stream[m.to], m.from)
<1>1. m \in Block
  <2>1. wire[p][h] \in Seq(Message)
    BY DEF Typed
  <2>2. m \in Message /\ m.type = "block"
    BY <2>1
  <2> QED BY <2>2 DEF Message, Block, CloseMsg
<1>2. m.from \in Ranks /\ m.to \in Ranks
  BY <1>1, SMTT(30) DEF Block
<1>3. Host(m.from) = p /\ Host(m.to) = h /\ p # h
  <2>1. BlockOnWire(p, h, k)
    BY DEF OnWire
  <2> QED BY <2>1 DEF BlockOnWire
<1>4. Remote(m.from, m.to) /\ m.from \in Awaited(m.to)
  BY <1>2, <1>3 DEF Remote, Awaited
<1>5. IsBlock(m.from, m.to, k)
  BY <1>3, SMTT(30) DEF IsBlock
<1>6. ~AllHandled(m.from, m.to)
  BY <1>3, <1>5 DEF AllHandled
<1>7. OpenQueue(m.from, m.to)
  BY <1>2, <1>4, <1>6, SMTT(30) DEF Queues, Arriving, ClosedQueue
<1>8. stream[m.to].seq[m.from] \in Nat
  BY <1>2 DEF Streaming, StreamT
<1>9. ~IsQueueClosed(stream[m.to], m.from)
  BY <1>7, <1>8, RunIsOpen DEF OpenQueue
<1> QED BY <1>1, <1>2, <1>3, <1>4, <1>5, <1>7, <1>9

\* The read that host h has posted for host p, when the step does not complete it.
LEMMA ReadKept ==
    ASSUME Typed, Sets, CleanInv, [Next]_vars, WiresStep, NEW h \in Hosts, NEW p \in Hosts, h # p,
           rxSeq'[h][p] = rxSeq[h][p], reads'[h][p] = reads[h][p]
    PROVE  ReadFrom(h, p)'
<1> USE DEF CleanInv
<1> DEFINE k == rxSeq[h][p]
           w == wire[p][h]
           v == wire'[p][h]
<1>1. ReadFrom(h, p) /\ k \in Nat /\ Grows(p, h)
  BY DEF Reading, WiresStep
<1>2. k >= 1 /\ k <= Len(v) + 1 /\ DOMAIN reads'[h][p] = {k}
  BY <1>1 DEF ReadFrom, Grows
<1>3. ASSUME reads'[h][p][k] = "body"
      PROVE  k <= Len(v) /\ v[k].type = "block" /\ map'[h]
  <2>1. k <= Len(w) /\ w[k].type = "block" /\ map[h]
    BY <1>1, <1>3 DEF ReadFrom
  <2>2. k \in 1 .. Len(w)
    BY <1>1, <1>2, <2>1 DEF Grows
  <2>3. k <= Len(v) /\ v[k].type = "block"
    <3>1. PICK a, b : a = w /\ b = v
      OBVIOUS
    <3>2. /\ Len(a) \in Nat /\ (Len(b) = Len(a) \/ Len(b) = Len(a) + 1)
          /\ \A n \in 1 .. Len(a) : b[n] = a[n]
      BY <1>1, <3>1 DEF Grows
    <3> HIDE DEF CleanInv, w, v, k
    <3> QED BY <2>1, <2>2, <3>1, <3>2
  <2>4. PICK m : m = w[k]
    OBVIOUS
  <2>5. /\ m.to \in Ranks /\ Host(m.to) = h /\ m.from \in Awaited(m.to)
        /\ ~IsQueueClosed(stream[m.to], m.from)
    BY <2>1, <2>2, <2>4, NextBlock
  <2>6. pc'[m.to] # "done"
    BY <2>5, OpenNotDone
  <2> QED BY <2>1, <2>3, <2>5, <2>6, MapStays
<1> QED BY <1>2, <1>3 DEF ReadFrom

\* The rest of a handler, when the step does not go on with it.
LEMMA RestKept ==
    ASSUME Typed, Sets, CloseLast', CleanInv, [Next]_vars, WiresStep, NEW h \in Hosts,
           NEW i \in 1 .. Len(todo[h]), todo'[h] = todo[h],
           \A s, d \in Ranks : Host(d) = h /\ Remote(s, d) =>
               stream'[d].seq[s] = stream[d].seq[s] /\ stream'[d].queue[s] = stream[d].queue[s],
           \A p \in Hosts : rxSeq'[h][p] = rxSeq[h][p]
    PROVE  Rest(h, i)'
<1> USE DEF CleanInv
<1>0. PICK t : t = todo[h][i]
  OBVIOUS
<1>1. Rest(h, i) /\ t \in EndItem \cup CloseItem
  <2>1. todo[h] \in Seq(EndItem \cup CloseItem)
    BY DEF Handling
  <2> QED BY <1>0, <2>1 DEF Handling
<1>2. ASSUME t.type = "end" PROVE Len(todo[h]) = 1 /\ EndRest(h, t)'
  <2>1. t \in EndItem /\ Len(todo[h]) = 1 /\ EndRest(h, t)
    BY <1>0, <1>1, <1>2 DEF Rest, EndItem, CloseItem
  <2>2. t.to \in Ranks /\ t.from \in Ranks /\ t.seq \in Nat
    BY <2>1 DEF EndItem
  <2>3. /\ Host(t.to) = h /\ Remote(t.from, t.to) /\ map[h]
        /\ sinkClosed[t.from][t.to] /\ AllHandled(t.from, t.to)
        /\ t.seq = blocks[t.from][t.to] /\ stream[t.to].seq[t.from] = t.seq
        /\ stream[t.to].queue[t.from] = Run(t.seq)
    BY <2>1 DEF EndRest
  <2>4. Host(t.from) \in Hosts /\ rxSeq'[h][Host(t.from)] = rxSeq[h][Host(t.from)]
    BY <2>2, Layout
  <2>5. rxSeq[h][Host(t.from)] \in Nat
    BY <2>4 DEF Reading
  <2>6. /\ sinkClosed'[t.from][t.to] /\ blocks'[t.from][t.to] = blocks[t.from][t.to]
        /\ AllHandled(t.from, t.to)'
    BY <2>2, <2>3, <2>4, <2>5, HandledKept
  <2>7. ~IsQueueClosed(stream[t.to], t.from) /\ t.from \in Awaited(t.to)
    BY <2>2, <2>3, RunIsOpen DEF Awaited
  <2>8. map'[h]
    BY <2>2, <2>3, <2>7, OpenNotDone, MapStays
  <2>9. stream'[t.to].seq[t.from] = t.seq /\ stream'[t.to].queue[t.from] = Run(t.seq)
    BY <2>2, <2>3
  <2> QED BY <2>1, <2>3, <2>6, <2>8, <2>9 DEF EndRest, Run, Remote, Host
<1>3. ASSUME t.type = "closeAll" PROVE CloseRest(h, t)'
  <2>1. t \in CloseItem /\ CloseRest(h, t)
    BY <1>0, <1>1, <1>3 DEF Rest, EndItem, CloseItem
  <2>2. t.from \in Hosts
    BY <2>1 DEF CloseItem
  <2>3. /\ t.from # h /\ Host(t.to) = h
        /\ Ends(wire[t.from][h]) /\ rxSeq[h][t.from] = Len(wire[t.from][h]) + 1
    BY <2>1 DEF CloseRest
  <2>4. Len(wire'[t.from][h]) = Len(wire[t.from][h]) /\ Ends(wire'[t.from][h])
    BY <2>2, <2>3, Frozen
  <2> QED BY <2>2, <2>3, <2>4 DEF CloseRest, Ends, Host
<1> QED BY <1>0, <1>2, <1>3 DEF Rest

\* A step that leaves the reads, the handlers and the queues between different
\* hosts alone keeps what is known of them.
LEMMA RemoteKept ==
    ASSUME CloseInv, CloseInv', CleanInv, [Next]_vars, UNCHANGED readVars,
           \A s, d \in Ranks : Remote(s, d) =>
               stream'[d].seq[s] = stream[d].seq[s] /\ stream'[d].queue[s] = stream[d].queue[s]
    PROVE  /\ OnWire' /\ Reading' /\ Handling'
           /\ \A s, d \in Ranks : Remote(s, d) => Arriving(s, d)'
<1> USE DEF CloseInv
<1>0. WiresStep /\ UNCHANGED <<reads, rxSeq, todo>>
  BY WiresStepped DEF readVars
<1>1. OnWire'
  BY <1>0, OnWireStep DEF CleanInv
<1>2. Reading'
  <2>1. \A h, p \in Hosts : h # p => ReadFrom(h, p)'
    BY <1>0, ReadKept
  <2> QED BY <1>0, <2>1 DEF CleanInv, Reading, Phases
<1>3. Handling'
  <2>1. ASSUME NEW h \in Hosts, NEW i \in 1 .. Len(todo[h]) PROVE Rest(h, i)'
    BY <1>0, <2>1, RestKept
  <2> QED BY <1>0, <2>1 DEF CleanInv, Handling, EndItem, CloseItem
<1>4. ASSUME NEW s \in Ranks, NEW d \in Ranks, Remote(s, d) PROVE Arriving(s, d)'
  <2>1. Host(s) \in Hosts /\ Host(d) \in Hosts /\ Host(s) # Host(d)
    BY <1>4, Layout DEF Remote
  <2>2. Arriving(s, d) /\ stream[d].seq[s] \in Nat
    BY <1>4 DEF CleanInv, Queues, Streaming, StreamT
  <2>3. /\ rxSeq[Host(d)][Host(s)] \in Nat
        /\ rxSeq[Host(d)][Host(s)] <= Len(wire[Host(s)][Host(d)]) + 1
    BY <2>1 DEF CleanInv, Reading, ReadFrom
  <2> QED BY <1>0, <1>4, <2>2, <2>3, ArrivingKept
<1> QED BY <1>1, <1>2, <1>3, <1>4

-----------------------------------------------------------------------------
(* The workers.                                                            *)

\* What a step does not touch stays as it is between workers of the same host.
LEMMA LoopedSame ==
    ASSUME NEW s \in Ranks, NEW d \in Ranks, Looped(s, d), EndPut(s, d)' <=> EndPut(s, d),
           blocks'[s][d] = blocks[s][d],
           stream'[d].queue[s] = stream[d].queue[s], stream'[d].seq[s] = stream[d].seq[s]
    PROVE  Looped(s, d)'
BY DEF Looped, Whole, Run

\* A worker step keeps who is done, unless it is Close.
LEMMA SameDone ==
    ASSUME Typed, NEW r \in Ranks, NEW e \in Ranks, WorkerStep(r) \/ AppendBlock(r, e), ~Close(r)
    PROVE  \A d \in Ranks : pc'[d] = "done" <=> pc[d] = "done"
BY WorkerRow DEF RowSame

\* A step that changes no stream.
LEMMA QuietStep ==
    ASSUME CloseInv, CloseInv', CleanInv, [Next]_vars, UNCHANGED readVars, stream' = stream, ~dead',
           \A d \in Ranks : pc'[d] = "done" <=> pc[d] = "done",
           \A s, d \in Ranks : ~Remote(s, d) =>
              (EndPut(s, d)' <=> EndPut(s, d)) /\ blocks'[s][d] = blocks[s][d]
    PROVE  CleanInv'
<1> USE DEF CloseInv, CleanInv
<1>1. OnWire' /\ Reading' /\ Handling' /\ \A s, d \in Ranks : Remote(s, d) => Arriving(s, d)'
  BY RemoteKept
<1>2. \A s, d \in Ranks : ~Remote(s, d) => Looped(s, d)'
  BY LoopedSame DEF Queues
<1>3. Queues'
  BY <1>1, <1>2 DEF Queues, Remote, Host
<1>4. Fresh'
  BY FreshKept DEF Streaming
<1>5. \A d \in Ranks : Tidy(stream[d], d, pc[d] = "done")'
  BY DEF Streaming, Tidy, ClosedAt, IsQueueClosed, Awaited, Remote, Host, ExpectedCloses
<1>6. Streaming'
  BY <1>4, <1>5 DEF Streaming, StreamT, Waits
<1> QED BY <1>1, <1>3, <1>6

\* A step that puts something into the queue from r to d on the same host.
LEMMA PutStep ==
    ASSUME CloseInv, CloseInv', CleanInv, [Next]_vars, UNCHANGED readVars, ~dead',
           NEW r \in Ranks, NEW d \in Ranks, ~Remote(r, d), map[Host(d)],
           NEW u \in StreamT, stream' = [stream EXCEPT ![d] = u], Tidy(u, d, pc[d] = "done"),
           \A f \in Ranks \ {r} : u.queue[f] = stream[d].queue[f] /\ u.seq[f] = stream[d].seq[f],
           \A x \in Ranks : pc'[x] = "done" <=> pc[x] = "done",
           \A s, x \in Ranks : ~Remote(s, x) /\ ~(s = r /\ x = d) =>
              (EndPut(s, x)' <=> EndPut(s, x)) /\ blocks'[s][x] = blocks[s][x],
           Looped(r, d)'
    PROVE  CleanInv'
<1> USE DEF CloseInv, CleanInv
<1>0. stream'[d] = u /\ \A x \in Ranks \ {d} : stream'[x] = stream[x]
  BY DEF Streaming
<1>1. \A s, x \in Ranks : ~(s = r /\ x = d) =>
         stream'[x].seq[s] = stream[x].seq[s] /\ stream'[x].queue[s] = stream[x].queue[s]
  BY <1>0
<1>2. OnWire' /\ Reading' /\ Handling' /\ \A s, x \in Ranks : Remote(s, x) => Arriving(s, x)'
  BY <1>1, RemoteKept
<1>3. \A s, x \in Ranks : ~Remote(s, x) => Looped(s, x)'
  <2> SUFFICES ASSUME NEW s \in Ranks, NEW x \in Ranks, ~Remote(s, x) PROVE Looped(s, x)'
    OBVIOUS
  <2>1. CASE s = r /\ x = d
    BY <2>1
  <2>2. CASE ~(s = r /\ x = d)
    BY <1>1, <2>2, LoopedSame DEF Queues
  <2> QED BY <2>1, <2>2
<1>4. Queues'
  BY <1>2, <1>3 DEF Queues, Remote, Host
<1>5. Fresh'
  BY <1>0, FreshKept DEF Streaming
<1>6. ASSUME NEW x \in Ranks PROVE Tidy(stream[x], x, pc[x] = "done")'
  <2>1. Tidy(stream'[x], x, pc[x] = "done")
    BY <1>0 DEF Streaming
  <2> QED BY <2>1 DEF Tidy, ClosedAt, IsQueueClosed, Awaited, Remote, Host, ExpectedCloses
<1>7. stream' \in [Ranks -> StreamT]
  BY DEF Streaming
<1>8. Streaming'
  BY <1>5, <1>6, <1>7 DEF Streaming, StreamT, Waits
<1> QED BY <1>2, <1>4, <1>8

\* What putting b into the queue from r to d of the same host makes of stream d.
LocalPut(r, d, b) ==
    IF Kind = "Cat" THEN [stream[d] EXCEPT !.queue[r] = Append(@, b)]
                    ELSE OnStreamBlock(stream[d], r, blocks[r][d], b)

LEMMA LocalPutFacts ==
    ASSUME Typed, CleanInv, NEW r \in Ranks, NEW d \in Ranks, ~Remote(r, d), ~EndPut(r, d),
           NEW b, b = blocks[r][d] \/ b = Closing, NEW u, u = LocalPut(r, d, b)
    PROVE  /\ u \in StreamT /\ Tidy(u, d, pc[d] = "done")
           /\ \A f \in Ranks \ {r} : u.queue[f] = stream[d].queue[f] /\ u.seq[f] = stream[d].seq[f]
           /\ u.queue[r] = Append(Run(blocks[r][d]), b)
           /\ Kind = "Mix" => u.seq[r] = blocks[r][d] + 1
           /\ Kind = "Mix" => ~Dies(stream[d], r, blocks[r][d], b)
<1> DEFINE s == stream[d]
           n == blocks[r][d]
           done == pc[d] = "done"
<1>1. /\ s \in StreamT /\ Tidy(s, d, done) /\ n \in Nat /\ done \in BOOLEAN
      /\ s.queue[r] = Run(n) /\ (Kind = "Mix" => s.seq[r] = n)
  BY DEF CleanInv, Streaming, Typed, Queues, Looped
<1>2. b \in Int
  BY <1>1 DEF Closing
<1> HIDE DEF s, n, done
<1>3. CASE Kind = "Cat"
  <2>1. u = [s EXCEPT !.queue[r] = Append(@, b)] /\ r \notin Awaited(d)
    BY <1>3 DEF LocalPut, Awaited, s
  <2>2. u \in StreamT /\ Tidy(u, d, done)
    BY <1>1, <1>2, <2>1, TidyLocal
  <2>3. /\ \A f \in Ranks \ {r} : u.queue[f] = s.queue[f] /\ u.seq[f] = s.seq[f]
        /\ u.queue[r] = Append(Run(n), b)
    BY <1>1, <2>1 DEF StreamT
  <2> QED BY <1>3, <2>2, <2>3 DEF s, n, done
<1>4. CASE Kind # "Cat"
  <2>0. Kind = "Mix" /\ r \in Awaited(d)
    BY <1>4, ConstantsAssumption DEF Awaited
  <2>1. u = OnStreamBlock(s, r, n, b) /\ s.waiting[r] = {} /\ s.seq[r] = n
    BY <1>1, <1>4, <2>0 DEF LocalPut, s, n, Tidy
  <2>2. u = PutBlock(s, r, b) /\ (Dies(s, r, n, b) <=> u.remaining < 0)
    BY <1>1, <1>2, <2>1, InTurn
  <2>3. /\ u \in StreamT
        /\ \A f \in Ranks \ {r} : u.queue[f] = s.queue[f] /\ u.seq[f] = s.seq[f]
        /\ u.queue[r] = Append(Run(n), b) /\ u.seq[r] = n + 1
    <3>1. u \in StreamT
      BY <1>1, <1>2, <2>2, PutBlockType
    <3>2. /\ u.queue = [s.queue EXCEPT ![r] = Append(@, b)]
          /\ u.seq = [s.seq EXCEPT ![r] = @ + 1]
      BY <2>2 DEF PutBlock
    <3> QED BY <1>1, <2>1, <3>1, <3>2 DEF StreamT
  <2>4. Tidy(u, d, done) /\ u.remaining >= 0
    <3>1. CASE b = Closing
      <4>1. ~IsQueueClosed(s, r)
        BY <1>1, RunIsOpen
      <4>2. u = EndAll(s, {r})
        BY <1>1, <2>2, <3>1, EndOne
      <4>3. {r} \in SUBSET Awaited(d) /\ \A f \in {r} : ~IsQueueClosed(s, f)
        BY <2>0, <4>1
      <4> QED BY <1>1, <4>2, <4>3, TidyEnd
    <3>2. CASE b = n
      BY <1>1, <2>2, <3>2, TidyPut
    <3> QED BY <3>1, <3>2 DEF n
  <2>5. u.remaining \in Int
    BY <2>3 DEF StreamT
  <2>6. ~Dies(s, r, n, b)
    BY <2>2, <2>4, <2>5
  <2> QED BY <2>0, <2>3, <2>4, <2>6 DEF s, n, done
<1> QED BY <1>3, <1>4

\* A worker changes what it has put itself only.
LEMMA EndPutOthers ==
    ASSUME Typed, NEW r \in Ranks, NEW e \in Ranks, WorkerStep(r) \/ AppendBlock(r, e),
           NEW s \in Ranks \ {r}, NEW d \in Ranks
    PROVE  (EndPut(s, d)' <=> EndPut(s, d)) /\ blocks'[s][d] = blocks[s][d]
<1>1. RowSame(s) /\ CloseTarget(s)' = CloseTarget(s)
  BY WorkerRow, RowKept
<1> QED BY <1>1 DEF RowSame, EndPut

LEMMA EndPutOwn ==
    ASSUME NEW r \in Ranks, NEW d \in Ranks, pc[r] # "end", pc'[r] # "end",
           sinkClosed'[r][d] = sinkClosed[r][d]
    PROVE  EndPut(r, d)' <=> EndPut(r, d)
BY DEF EndPut

\* A step of worker r that changes no stream, and no sink to its own host.
LEMMA QuietWorker ==
    ASSUME CloseInv, CloseInv', CleanInv, [Next]_vars, UNCHANGED readVars, stream' = stream, ~dead',
           NEW r \in Ranks, NEW e \in Ranks, WorkerStep(r) \/ AppendBlock(r, e), ~Close(r),
           pc[r] # "end", pc'[r] # "end",
           \A d \in Ranks : ~Remote(r, d) =>
              sinkClosed'[r][d] = sinkClosed[r][d] /\ blocks'[r][d] = blocks[r][d]
    PROVE  CleanInv'
<1> USE DEF CloseInv
<1>1. \A d \in Ranks : pc'[d] = "done" <=> pc[d] = "done"
  BY SameDone
<1>2. ASSUME NEW s \in Ranks, NEW d \in Ranks, ~Remote(s, d)
      PROVE  (EndPut(s, d)' <=> EndPut(s, d)) /\ blocks'[s][d] = blocks[s][d]
  <2>1. CASE s = r
    BY <1>2, <2>1, EndPutOwn
  <2>2. CASE s # r
    BY <2>2, EndPutOthers
  <2> QED BY <2>1, <2>2
<1> QED BY <1>1, <1>2, QuietStep

\* No assertion of OnWriterClosed fails.
LEMMA CountFits ==
    ASSUME CloseInv, CloseInv', CleanInv, [Next]_vars, NEW r \in Ranks, NEW d \in Ranks, NEW sent,
           TellTail(r) \/ CloseSink(r), OnWriterClosed(r, d, sent, wire)
    PROVE  ~dead'
<1> USE DEF CloseInv
<1> DEFINE h == Host(r)
           p == Host(d)
<1>1. h \in Hosts /\ p \in Hosts /\ r \in Locals(h)
  BY Layout
<1>2. /\ closedTo' = [closedTo EXCEPT ![h][p] = @ + 1]
      /\ dead' = (dead \/ closedTo[h][p] + 1 > WorkersPerHost * WorkersPerHost
                       \/ writersClosed[r] + 1 > NumRanks)
  <2>1. closedTo' = [closedTo EXCEPT ![h][p] = @ + 1]
    BY WriterClosed
  <2>2. dead' = (dead \/ closedTo[h][p] + 1 > WorkersPerHost * WorkersPerHost
                      \/ writersClosed[r] + 1 > NumRanks)
    BY WriterClosed
  <2> QED BY <2>1, <2>2
<1>3. pc[r] \in {"tell", "write", "close"} /\ pc'[r] # "done"
  <2>1. pc[r] \in {"tell", "write", "close"}
    BY DEF TellTail, CloseSink
  <2>2. ~Close(r)
    BY <2>1 DEF Close
  <2>3. WorkerStep(r)
    BY DEF WorkerStep
  <2> QED BY <2>1, <2>2, <2>3, WorkerRow
<1>4. ~AllDone(h)'
  BY <1>1, <1>3 DEF AllDone
<1>5. closedTo'[h][p] = closedTo[h][p] + 1 /\ closedTo[h][p] \in Nat
  BY <1>1, <1>2 DEF Typed
<1>6. closedTo'[h][p] = Cardinality(ToldTo(h, p)')
  BY <1>1, <1>4 DEF Counted
<1>7. Cardinality(ToldTo(h, p)') <= WorkersPerHost * WorkersPerHost
  <2> DEFINE A == Locals(h) \X Locals(p)
  <2>1. IsFiniteSet(A) /\ Cardinality(A) = WorkersPerHost * WorkersPerHost
    BY <1>1, LocalCount, FS_Product
  <2>2. ToldTo(h, p)' \in SUBSET A
    BY DEF ToldTo
  <2> QED BY <2>1, <2>2, FS_Subset
<1>8. closedTo[h][p] + 1 <= WorkersPerHost * WorkersPerHost
  BY <1>5, <1>6, <1>7
<1>9. writersClosed[r] + 1 <= NumRanks
  <2>1. writersClosed[r] = pos[r]
    BY <1>3 DEF Writing, WritingOf
  <2>2. pos[r] \in 0 .. NumRanks - 1 /\ NumRanks \in Nat
    BY Layout DEF Typed
  <2> HIDE DEF h, p
  <2> QED BY <2>1, <2>2
<1>10. WorkersPerHost * WorkersPerHost \in Nat /\ NumRanks \in Nat /\ writersClosed[r] \in Nat
  BY ConstantsAssumption, Layout DEF Typed
<1> DEFINE W == WorkersPerHost * WorkersPerHost
<1>11. ~(closedTo[h][p] + 1 > W) /\ ~(writersClosed[r] + 1 > NumRanks)
  <2>1. W \in Nat /\ closedTo[h][p] + 1 <= W
    BY <1>8, <1>10
  <2> HIDE DEF W
  <2> QED BY <1>5, <1>9, <1>10, <2>1
<1> QED BY <1>2, <1>11 DEF CleanInv

\* A step of worker r that puts b, its next block or the end, into the queue to a
\* worker d of its host.
LEMMA LocalStep ==
    ASSUME CloseInv, CloseInv', CleanInv, [Next]_vars, UNCHANGED <<readVars, sinkClosed>>,
           NEW r \in Ranks, NEW e \in Ranks, WorkerStep(r) \/ AppendBlock(r, e), ~Close(r),
           pc[r] \notin {"new", "done"}, pc'[r] # "end",
           NEW d \in Ranks, ~Remote(r, d), ~EndPut(r, d), pc[r] = "end" => d = CloseTarget(r),
           NEW b, \/ b = blocks[r][d] /\ ~sinkClosed[r][d] /\ blocks' = [blocks EXCEPT ![r][d] = @ + 1]
                  \/ b = Closing /\ sinkClosed[r][d] /\ blocks' = blocks,
           stream' = [stream EXCEPT ![d] = LocalPut(r, d, b)],
           dead' => (dead \/ (Kind = "Mix" /\ Dies(stream[d], r, blocks[r][d], b)))
    PROVE  CleanInv'
<1> USE DEF CloseInv
<1>1. PICK u : u = LocalPut(r, d, b)
  OBVIOUS
<1>2. /\ u \in StreamT /\ Tidy(u, d, pc[d] = "done")
      /\ \A f \in Ranks \ {r} : u.queue[f] = stream[d].queue[f] /\ u.seq[f] = stream[d].seq[f]
      /\ u.queue[r] = Append(Run(blocks[r][d]), b)
      /\ Kind = "Mix" => u.seq[r] = blocks[r][d] + 1
      /\ Kind = "Mix" => ~Dies(stream[d], r, blocks[r][d], b)
  BY <1>1, LocalPutFacts
<1>3. ~dead'
  BY <1>2 DEF CleanInv
<1>4. map[Host(d)]
  <2>1. map[Host(r)]
    BY Layout DEF Sets
  <2> QED BY <2>1 DEF Remote
<1>5. \A x \in Ranks : pc'[x] = "done" <=> pc[x] = "done"
  BY SameDone
<1>6. ASSUME NEW s \in Ranks, NEW x \in Ranks, ~Remote(s, x), ~(s = r /\ x = d)
      PROVE  (EndPut(s, x)' <=> EndPut(s, x)) /\ blocks'[s][x] = blocks[s][x]
  <2>1. CASE s = r
    <3>1. blocks'[s][x] = blocks[s][x]
      <4>1. CASE blocks' = [blocks EXCEPT ![r][d] = @ + 1]
        BY <1>6, <2>1, <4>1 DEF Typed
      <4>2. CASE blocks' = blocks
        BY <4>2
      <4> QED BY <4>1, <4>2
    <3>2. EndPut(s, x)' <=> EndPut(s, x)
      BY <1>6, <2>1 DEF EndPut
    <3> QED BY <3>1, <3>2
  <2>2. CASE s # r
    BY <2>2, EndPutOthers
  <2> QED BY <2>1, <2>2
<1>7. stream' = [stream EXCEPT ![d] = u] /\ stream'[d] = u
  BY <1>1 DEF CleanInv, Streaming
<1>8. blocks[r][d] \in Nat
  BY DEF Typed
<1>9. Looped(r, d)'
  <2>1. CASE b = blocks[r][d] /\ ~sinkClosed[r][d] /\ blocks' = [blocks EXCEPT ![r][d] = @ + 1]
    <3>1. ~EndPut(r, d)' /\ blocks'[r][d] = blocks[r][d] + 1
      BY <2>1 DEF EndPut, Typed
    <3>2. u.queue[r] = Run(blocks[r][d] + 1)
      BY <1>2, <1>8, <2>1, RunFacts
    <3>3. stream'[d].queue[r] = Run(blocks'[r][d])
      BY <1>7, <3>1, <3>2
    <3>4. Kind = "Mix" => stream'[d].seq[r] = blocks'[r][d]
      BY <1>2, <1>7, <3>1
    <3> QED BY <3>1, <3>3, <3>4 DEF Looped, Run
  <2>2. CASE b = Closing /\ sinkClosed[r][d] /\ blocks' = blocks
    <3>1. EndPut(r, d)' /\ blocks'[r][d] = blocks[r][d]
      BY <2>2 DEF EndPut
    <3>2. stream'[d].queue[r] = Append(Run(blocks'[r][d]), Closing)
      BY <1>2, <1>7, <2>2
    <3> QED BY <3>1, <3>2 DEF Looped, Whole, Run, Closing
  <2> QED BY <2>1, <2>2
<1> HIDE DEF CloseInv
<1> QED BY <1>2, <1>3, <1>4, <1>5, <1>6, <1>7, <1>9, PutStep

\* GetNewCatStream and GetNewMixStream find the set that is there, or create the
\* first one.
LEMMA NewStreamStep ==
    ASSUME CloseInv, CloseInv', CleanInv, [Next]_vars, NoZombie', NEW r \in Ranks, GetNewStream(r)
    PROVE  CleanInv'
<1>1. Host(r) \in Hosts
  BY Layout
<1>2. stream' = stream
  BY <1>1, NotCreated DEF GetNewStream, CloseInv, CleanInv
<1>3. pc[r] = "new" /\ pc'[r] = "getWriters" /\ ~dead'
  BY DEF GetNewStream, CloseInv, Typed, CleanInv
<1>4. UNCHANGED <<readVars, sinkClosed, blocks>>
  BY DEF GetNewStream, netVars, sinkVars
<1>5. WorkerStep(r) /\ ~Close(r)
  BY <1>3 DEF WorkerStep, Close
<1> QED BY <1>2, <1>3, <1>4, <1>5, QuietWorker

\* CatLoopback and MixLoopback find the stream of a worker of the same host: it
\* has not ended, as the one that asks has not closed its sinks to it.
LEMMA LoopbackStep ==
    ASSUME CloseInv, CloseInv', CleanInv, [Next]_vars, NoZombie', NEW r \in Ranks, Loopback(r)
    PROVE  CleanInv'
<1> USE DEF CloseInv
<1>1. Host(r) \in Hosts /\ r \in Locals(Host(r)) /\ pc[r] = "getWriters"
  BY Layout DEF Loopback
<1>2. PICK d : d = Host(r) * WorkersPerHost + pos[r]
  OBVIOUS
<1>3. d \in Locals(Host(r)) /\ d \in Ranks /\ ~Remote(r, d)
  <2>1. pos[r] \in 0 .. WorkersPerHost - 1
    BY <1>1, ConstantsAssumption, Layout, SMTT(30) DEF Writing, WritingOf, Typed
  <2>2. d \in Locals(Host(r))
    BY <1>1, <1>2, <2>1, LocalRank
  <2> QED BY <1>1, <2>2, Layout DEF Remote
<1>4. map[Host(r)]
  BY <1>1 DEF Sets
<1>5. pc[d] # "done"
  <2> SUFFICES ASSUME pc[d] = "done" PROVE FALSE
    OBVIOUS
  <2>1. IsQueueClosed(stream[d], r)
    BY <1>3 DEF CleanInv, Streaming, Tidy
  <2>2. ~EndPut(r, d)
    BY <1>1, <1>3 DEF Writing, WritingOf, EndPut
  <2>3. stream[d].queue[r] = Run(blocks[r][d]) /\ blocks[r][d] \in Nat
    BY <1>3, <2>2 DEF CleanInv, Queues, Looped, Typed
  <2> QED BY <2>1, <2>3, RunIsOpen
<1>6. peer[d]
  BY <1>1, <1>3, <1>4, <1>5 DEF Sets
<1>7. ~dead'
  BY <1>2, <1>4, <1>6 DEF Loopback, CleanInv
<1>8. pc'[r] \in {"getWriters", "write"}
  BY <1>1 DEF Loopback, Typed
<1>9. UNCHANGED <<readVars, stream, sinkClosed, blocks>>
  BY DEF Loopback, netVars, sinkVars
<1>10. WorkerStep(r) /\ ~Close(r)
  BY <1>1 DEF WorkerStep, Close
<1> HIDE DEF CloseInv
<1> QED BY <1>1, <1>7, <1>8, <1>9, <1>10, QuietWorker

\* The last block of a sink goes out.
LEMMA SendTailStep ==
    ASSUME CloseInv, CloseInv', CleanInv, [Next]_vars, NEW r \in Ranks, SendTail(r)
    PROVE  CleanInv'
<1>1. PICK d : d = CloseTarget(r)
  OBVIOUS
<1>2. d \in Ranks
  BY <1>1, TargetType DEF CloseInv
<1>3. /\ Remote(r, d) /\ pc[r] = "write"
      /\ blocks' = [blocks EXCEPT ![r][d] = @ + 1]
      /\ sinkClosed' = [sinkClosed EXCEPT ![r][d] = TRUE]
  BY <1>1 DEF SendTail
<1>4. pc'[r] = "tell" /\ ~dead'
  BY DEF SendTail, CloseInv, Typed, CleanInv
<1>5. UNCHANGED <<readVars, stream>>
  BY DEF SendTail
<1>6. WorkerStep(r) /\ ~Close(r)
  BY <1>3 DEF WorkerStep, Close
<1>7. ASSUME NEW x \in Ranks, ~Remote(r, x)
      PROVE  sinkClosed'[r][x] = sinkClosed[r][x] /\ blocks'[r][x] = blocks[r][x]
  <2>1. x # d
    BY <1>3, <1>7
  <2>2. sinkClosed'[r][x] = sinkClosed[r][x]
    BY <1>3, <2>1 DEF CloseInv, Typed
  <2>3. blocks'[r][x] = blocks[r][x]
    BY <1>2, <1>3, <2>1 DEF CloseInv, Typed
  <2> QED BY <2>2, <2>3
<1> QED BY <1>3, <1>4, <1>5, <1>6, <1>7, QuietWorker

\* Behind the writer that has closed comes the next one.
LEMMA NextWriterPc ==
    ASSUME Typed, NEW r \in Ranks, NextWriter(r)
    PROVE  pc'[r] \in {"write", "read"}
BY DEF NextWriter, Typed

LEMMA TellTailStep ==
    ASSUME CloseInv, CloseInv', CleanInv, [Next]_vars, NEW r \in Ranks, TellTail(r)
    PROVE  CleanInv'
<1>1. CloseTarget(r) \in Ranks /\ pc[r] = "tell"
  BY TargetType DEF CloseInv, TellTail
<1>2. pc'[r] \in {"write", "read"}
  BY NextWriterPc DEF CloseInv, TellTail
<1>3. ~dead'
  BY <1>1, CountFits DEF TellTail
<1>4. UNCHANGED <<readVars, stream, sinkClosed, blocks>>
  BY DEF TellTail
<1>5. WorkerStep(r) /\ ~Close(r)
  BY <1>1 DEF WorkerStep, Close
<1> QED BY <1>1, <1>2, <1>3, <1>4, <1>5, QuietWorker

LEMMA CloseSinkStep ==
    ASSUME CloseInv, CloseInv', CleanInv, [Next]_vars, NEW r \in Ranks, CloseSink(r)
    PROVE  CleanInv'
<1>1. PICK d : d = CloseTarget(r)
  OBVIOUS
<1>2. d \in Ranks
  BY <1>1, TargetType DEF CloseInv
<1>3. /\ pc[r] \in {"close", "write"} /\ ~sinkClosed[r][d]
      /\ sinkClosed' = [sinkClosed EXCEPT ![r][d] = TRUE]
      /\ OnWriterClosed(r, d, ~Remote(r, d), wire)
      /\ UNCHANGED <<stream, blocks, readVars>>
  BY <1>1 DEF CloseSink
<1>4. ~dead'
  BY <1>2, <1>3, CountFits
<1>5. WorkerStep(r) /\ ~Close(r)
  BY <1>3 DEF WorkerStep, Close
<1>6. CASE Remote(r, d)
  <2>1. NextWriter(r)
    BY <1>1, <1>6 DEF CloseSink
  <2>2. pc'[r] \in {"write", "read"}
    BY <2>1, NextWriterPc DEF CloseInv
  <2>3. ASSUME NEW x \in Ranks, ~Remote(r, x)
        PROVE  sinkClosed'[r][x] = sinkClosed[r][x]
    <3>1. x # d
      BY <1>6, <2>3
    <3> QED BY <1>3, <3>1 DEF CloseInv, Typed
  <2> QED BY <1>3, <1>4, <1>5, <2>2, <2>3, QuietWorker
<1>7. CASE ~Remote(r, d)
  <2>1. pc' = [pc EXCEPT ![r] = "end"] /\ pos' = pos
    BY <1>1, <1>7 DEF CloseSink
  <2>2. pc'[r] = "end" /\ CloseTarget(r)' = d
    BY <1>1, <2>1 DEF CloseInv, Typed, CloseTarget
  <2>3. ASSUME NEW x \in Ranks PROVE EndPut(r, x)' <=> EndPut(r, x)
    <3>1. CASE x = d
      BY <1>3, <2>2, <3>1 DEF EndPut
    <3>2. CASE x # d
      <4>1. sinkClosed'[r][x] = sinkClosed[r][x]
        BY <1>3, <3>2 DEF CloseInv, Typed
      <4> QED BY <1>3, <2>2, <3>2, <4>1 DEF EndPut
    <3> QED BY <3>1, <3>2
  <2>4. ASSUME NEW s \in Ranks, NEW x \in Ranks
        PROVE  (EndPut(s, x)' <=> EndPut(s, x)) /\ blocks'[s][x] = blocks[s][x]
    <3>1. CASE s = r
      BY <1>3, <2>3, <3>1
    <3>2. CASE s # r
      BY <1>5, <3>2, EndPutOthers DEF CloseInv
    <3> QED BY <3>1, <3>2
  <2>5. \A x \in Ranks : pc'[x] = "done" <=> pc[x] = "done"
    BY <1>5, SameDone DEF CloseInv
  <2> QED BY <1>3, <1>4, <2>4, <2>5, QuietStep
<1> QED BY <1>6, <1>7

\* What PutLocal does.
LEMMA PutLocalIs ==
    ASSUME CleanInv, NEW r \in Ranks, NEW d \in Ranks, PutLocal(r, d)
    PROVE  /\ stream' = [stream EXCEPT ![d] = LocalPut(r, d, blocks[r][d])]
           /\ dead' => (dead \/ (Kind = "Mix" /\ Dies(stream[d], r, blocks[r][d], blocks[r][d])))
<1>1. Kind = "Cat" \/ Kind = "Mix"
  BY ConstantsAssumption
<1>2. CASE Kind = "Cat"
  <2>1. stream' = [stream EXCEPT ![d].queue[r] = Append(@, blocks[r][d])] /\ dead' = dead
    BY <1>2 DEF PutLocal
  <2>2. LocalPut(r, d, blocks[r][d]) = [stream[d] EXCEPT !.queue[r] = Append(@, blocks[r][d])]
    BY <1>2 DEF LocalPut
  <2>3. stream' = [stream EXCEPT ![d] = LocalPut(r, d, blocks[r][d])]
    BY <2>1, <2>2, Zenon
  <2>4. dead' => (dead \/ (Kind = "Mix" /\ Dies(stream[d], r, blocks[r][d], blocks[r][d])))
    BY <1>2, <2>1 DEF CleanInv
  <2> QED BY <2>3, <2>4
<1>3. CASE Kind = "Mix"
  BY <1>3 DEF PutLocal, LocalPut
<1> QED BY <1>1, <1>2, <1>3

LEMMA AppendBlockStep ==
    ASSUME CloseInv, CloseInv', CleanInv, [Next]_vars, NEW r \in Ranks, NEW d \in Ranks,
           AppendBlock(r, d)
    PROVE  CleanInv'
<1>1. /\ pc[r] = "write" /\ ~sinkClosed[r][d] /\ pc' = pc
      /\ blocks' = [blocks EXCEPT ![r][d] = @ + 1]
      /\ UNCHANGED <<readVars, sinkClosed>>
  BY DEF AppendBlock, workerVars
<1>2. ~Close(r)
  BY <1>1 DEF Close
<1>3. CASE Remote(r, d)
  <2>1. stream' = stream /\ dead' = dead
    BY <1>3 DEF AppendBlock
  <2>2. ASSUME NEW x \in Ranks, ~Remote(r, x)
        PROVE  blocks'[r][x] = blocks[r][x]
    BY <1>1, <1>3, <2>2 DEF CloseInv, Typed
  <2>3. ~dead'
    BY <2>1 DEF CleanInv
  <2> QED BY <1>1, <1>2, <2>1, <2>2, <2>3, QuietWorker
<1>4. CASE ~Remote(r, d)
  <2>1. PutLocal(r, d)
    BY <1>4 DEF AppendBlock
  <2>2. PICK b : b = blocks[r][d]
    OBVIOUS
  <2>3. /\ stream' = [stream EXCEPT ![d] = LocalPut(r, d, b)]
        /\ dead' => (dead \/ (Kind = "Mix" /\ Dies(stream[d], r, blocks[r][d], b)))
    BY <2>1, <2>2, PutLocalIs
  <2>4. ~EndPut(r, d)
    BY <1>1 DEF EndPut
  <2> QED BY <1>1, <1>2, <1>4, <2>2, <2>3, <2>4, LocalStep
<1> QED BY <1>3, <1>4

LEMMA PutTailStep ==
    ASSUME CloseInv, CloseInv', CleanInv, [Next]_vars, NEW r \in Ranks, PutTail(r)
    PROVE  CleanInv'
<1>1. PICK d : d = CloseTarget(r)
  OBVIOUS
<1>2. d \in Ranks
  BY <1>1, TargetType DEF CloseInv
<1>3. /\ pc[r] = "write" /\ ~sinkClosed[r][d] /\ ~Remote(r, d) /\ PutLocal(r, d)
      /\ blocks' = [blocks EXCEPT ![r][d] = @ + 1]
      /\ UNCHANGED <<readVars, sinkClosed>>
  BY <1>1 DEF PutTail, netVars
<1>4. pc'[r] = "close"
  BY DEF PutTail, CloseInv, Typed
<1>5. WorkerStep(r) /\ ~Close(r)
  BY <1>3 DEF WorkerStep, Close
<1>6. PICK b : b = blocks[r][d]
  OBVIOUS
<1>7. /\ stream' = [stream EXCEPT ![d] = LocalPut(r, d, b)]
      /\ dead' => (dead \/ (Kind = "Mix" /\ Dies(stream[d], r, blocks[r][d], b)))
  BY <1>2, <1>3, <1>6, PutLocalIs
<1>8. ~EndPut(r, d)
  BY <1>3 DEF EndPut
<1> QED BY <1>2, <1>3, <1>4, <1>5, <1>6, <1>7, <1>8, LocalStep

LEMMA EndLocalStep ==
    ASSUME CloseInv, CloseInv', CleanInv, [Next]_vars, NEW r \in Ranks, EndLocal(r)
    PROVE  CleanInv'
<1>1. PICK d : d = CloseTarget(r)
  OBVIOUS
<1>2. d \in Ranks
  BY <1>1, TargetType DEF CloseInv
<1>3. /\ pc[r] = "end" /\ blocks' = blocks
      /\ UNCHANGED <<readVars, sinkClosed>>
  BY DEF EndLocal, netVars, sinkVars
<1>4. sinkClosed[r][d] /\ ~Remote(r, d)
  BY <1>1, <1>3 DEF CloseInv, Writing, WritingOf
<1>5. pc'[r] \in {"write", "read"}
  BY NextWriterPc DEF EndLocal, CloseInv
<1>6. WorkerStep(r) /\ ~Close(r)
  BY <1>3 DEF WorkerStep, Close
<1>7. /\ stream' = [stream EXCEPT ![d] = LocalPut(r, d, Closing)]
      /\ dead' => (dead \/ (Kind = "Mix" /\ Dies(stream[d], r, blocks[r][d], Closing)))
  <2>1. Kind = "Cat" \/ Kind = "Mix"
    BY ConstantsAssumption
  <2>2. CASE Kind = "Cat"
    <3>1. stream' = [stream EXCEPT ![d].queue[r] = Append(@, Closing)] /\ dead' = dead
      BY <1>1, <2>2 DEF EndLocal
    <3>2. LocalPut(r, d, Closing) = [stream[d] EXCEPT !.queue[r] = Append(@, Closing)]
      BY <2>2 DEF LocalPut
    <3>3. stream' = [stream EXCEPT ![d] = LocalPut(r, d, Closing)]
      BY <3>1, <3>2, Zenon
    <3>4. dead' => (dead \/ (Kind = "Mix" /\ Dies(stream[d], r, blocks[r][d], Closing)))
      BY <2>2, <3>1 DEF CleanInv
    <3> QED BY <3>3, <3>4
  <2>3. CASE Kind = "Mix"
    BY <1>1, <2>3 DEF EndLocal, LocalPut
  <2> QED BY <2>1, <2>2, <2>3
<1>8. ~EndPut(r, d)
  BY <1>1, <1>3 DEF EndPut
<1>9. PICK b : b = Closing
  OBVIOUS
<1> QED BY <1>1, <1>2, <1>3, <1>4, <1>5, <1>6, <1>7, <1>8, <1>9, LocalStep

\* Close: every closing block the stream waits for has come, so all queues are
\* closed, and the sinks of the worker are.
LEMMA CloseStreamStep ==
    ASSUME CloseInv, CloseInv', CleanInv, [Next]_vars, OneAtATime, NEW r \in Ranks, Close(r)
    PROVE  CleanInv'
<1> USE DEF CloseInv
<1>1. /\ pc[r] = "read" /\ pc' = [pc EXCEPT ![r] = "done"] /\ pc'[r] = "done"
      /\ stream' = [stream EXCEPT ![r].sem = @ - ExpectedCloses]
      /\ stream[r].sem >= ExpectedCloses
      /\ UNCHANGED <<readVars, sinkClosed, blocks>>
  BY DEF Close, AwaitedCloses, netVars, sinkVars, Typed
<1>2. ~dead'
  <2>1. map[Host(r)]
    BY SetsClose
  <2>2. writersClosed[r] = NumRanks
    BY <1>1 DEF Writing, WritingOf
  <2> QED BY <2>1, <2>2 DEF Close, CleanInv
<1>3. PICK s : s = stream[r]
  OBVIOUS
<1>4. PICK t : t = [s EXCEPT !.sem = @ - ExpectedCloses]
  OBVIOUS
<1>5. s \in StreamT /\ Tidy(s, r, FALSE) /\ ExpectedCloses \in Nat
  BY <1>1, <1>3, AwaitedCount DEF CleanInv, Streaming
<1>6. stream' = [stream EXCEPT ![r] = t] /\ stream \in [Ranks -> StreamT]
  BY <1>1, <1>3, <1>4 DEF CleanInv, Streaming
<1>7. /\ t \in StreamT /\ t.queue = s.queue /\ t.seq = s.seq /\ t.waiting = s.waiting
      /\ t.remaining = s.remaining /\ t.sem = s.sem - ExpectedCloses
  <2>1. s.sem \in Int /\ s.sem - ExpectedCloses \in Int
    BY <1>5 DEF StreamT
  <2>2. s = [seq |-> s.seq, waiting |-> s.waiting, queue |-> s.queue,
             remaining |-> s.remaining, sem |-> s.sem]
    BY <1>5 DEF StreamT
  <2>3. t = [seq |-> s.seq, waiting |-> s.waiting, queue |-> s.queue,
             remaining |-> s.remaining, sem |-> s.sem - ExpectedCloses]
    BY <1>4, <2>2
  <2>4. t \in StreamT
    BY <1>5, <2>1, <2>3 DEF StreamT
  <2> QED BY <2>3, <2>4
<1>8. \A f \in Ranks : IsQueueClosed(s, f)
  <2>1. Cardinality(ClosedAt(s, r)) >= ExpectedCloses
    BY <1>1, <1>3, <1>5, ClosedCount DEF Tidy
  <2>2. \A f \in Awaited(r) : IsQueueClosed(s, f)
    BY <2>1, ClosedCount
  <2>3. CASE Kind = "Mix"
    BY <2>2, <2>3 DEF Awaited
  <2>4. CASE ReadAll
    BY <1>3, <2>4 DEF Close, HasRead
  <2> QED BY <2>3, <2>4 DEF OneAtATime
<1>9. Tidy(t, r, TRUE)
  <2>1. \A f \in Ranks : IsQueueClosed(t, f) <=> IsQueueClosed(s, f)
    BY <1>7 DEF IsQueueClosed
  <2>2. ClosedAt(t, r) = ClosedAt(s, r)
    BY <2>1 DEF ClosedAt, Awaited
  <2>3. s.sem = Cardinality(ClosedAt(s, r)) /\ Cardinality(ClosedAt(s, r)) \in Nat
    BY <1>5, ClosedCount DEF Tidy
  <2>4. t.sem = Cardinality(ClosedAt(t, r)) - ExpectedCloses
    BY <1>7, <2>2, <2>3
  <2>5. t.remaining = ExpectedCloses - Cardinality(ClosedAt(t, r))
    BY <1>5, <1>7, <2>2 DEF Tidy
  <2>6. \A f \in Ranks : t.waiting[f] = {}
    BY <1>5, <1>7 DEF Tidy
  <2> QED BY <1>8, <2>1, <2>4, <2>5, <2>6 DEF Tidy
<1>10. Streaming'
  <2>1. stream' \in [Ranks -> StreamT]
    BY <1>6, <1>7
  <2>2. ASSUME NEW d \in Ranks PROVE Tidy(stream'[d], d, pc'[d] = "done")
    <3>1. CASE d = r
      BY <1>1, <1>6, <1>9, <3>1
    <3>2. CASE d # r
      <4>1. stream'[d] = stream[d] /\ pc'[d] = pc[d]
        BY <1>1, <1>6, <3>2 DEF Typed
      <4> QED BY <4>1 DEF CleanInv, Streaming
    <3> QED BY <3>1, <3>2
  <2>3. Fresh'
    <3>1. map[Host(r)]
      BY SetsClose
    <3>2. \A d \in Ranks : ~map[Host(d)] => stream'[d] = stream[d]
      BY <1>6, <3>1
    <3> QED BY <3>2, FreshKept DEF CleanInv, Streaming
  <2> QED BY <2>1, <2>2, <2>3 DEF Streaming, Tidy
<1>11. ASSUME NEW x \in Ranks, NEW d \in Ranks
       PROVE  stream'[d].seq[x] = stream[d].seq[x] /\ stream'[d].queue[x] = stream[d].queue[x]
  BY <1>3, <1>6, <1>7
<1>12. /\ OnWire' /\ Reading' /\ Handling'
       /\ \A x, d \in Ranks : Remote(x, d) => Arriving(x, d)'
  <2> HIDE DEF CloseInv
  <2> QED BY <1>1, <1>11, RemoteKept
<1>13. ASSUME NEW x \in Ranks, NEW d \in Ranks, ~Remote(x, d) PROVE Looped(x, d)'
  <2>1. EndPut(x, d)' <=> EndPut(x, d)
    <3>1. CASE x = r
      BY <1>1, <3>1, EndPutOwn
    <3>2. CASE x # r
      BY <3>2, EndPutOthers DEF WorkerStep
    <3> QED BY <3>1, <3>2
  <2>2. Looped(x, d)
    BY <1>13 DEF CleanInv, Queues
  <2> QED BY <1>1, <1>11, <2>1, <2>2, LoopedSame
<1> QED BY <1>2, <1>10, <1>12, <1>13 DEF CleanInv, Queues, Remote

\* No step of a worker disturbs the invariant.
LEMMA WorkerKeeps ==
    ASSUME CloseInv, CloseInv', CleanInv, [Next]_vars, NoZombie', OneAtATime,
           NEW r \in Ranks, NEW d \in Ranks, WorkerStep(r) \/ AppendBlock(r, d)
    PROVE  CleanInv'
BY NewStreamStep, LoopbackStep, SendTailStep, TellTailStep, CloseSinkStep, AppendBlockStep,
   PutTailStep, EndLocalStep, CloseStreamStep DEF WorkerStep

-----------------------------------------------------------------------------
\* A queue between two hosts to which nothing is put stays as it was, when the
\* message that is handled, if any, is not a block for it.
LEMMA ArrivingSame ==
    ASSUME CloseInv, CleanInv, WiresStep, NEW s \in Ranks, NEW d \in Ranks, Remote(s, d),
           stream'[d].seq[s] = stream[d].seq[s], stream'[d].queue[s] = stream[d].queue[s],
           NEW k, k = rxSeq[Host(d)][Host(s)],
           \/ rxSeq'[Host(d)][Host(s)] = k
           \/ /\ rxSeq'[Host(d)][Host(s)] = k + 1 /\ k <= Len(wire[Host(s)][Host(d)])
              /\ ~IsBlock(s, d, k)
    PROVE  Arriving(s, d)'
<1> USE DEF CloseInv
<1>1. Host(s) \in Hosts /\ Host(d) \in Hosts /\ Host(s) # Host(d)
  BY Layout DEF Remote
<1>2. Arriving(s, d) /\ stream[d].seq[s] \in Nat
  BY DEF CleanInv, Queues, Streaming, StreamT
<1>3. PICK w : w = wire[Host(s)][Host(d)]
  OBVIOUS
<1>4. k \in Nat /\ k >= 1 /\ k <= Len(w) + 1 /\ Len(w) \in Nat
  BY <1>1, <1>3 DEF CleanInv, Reading, ReadFrom, Typed
<1>5. PICK j : j = rxSeq'[Host(d)][Host(s)]
  OBVIOUS
<1>6. j \in Nat /\ j >= k /\ j <= Len(w) + 1
  BY <1>3, <1>4, <1>5
<1>7. \A n \in 1 .. Len(w) : IsBlock(s, d, n) => (n < j <=> n < k)
  BY <1>3, <1>4, <1>5
<1> QED BY <1>2, <1>3, <1>4, <1>5, <1>6, <1>7, ArrivingKept

\* A step of the dispatcher thread of h that may put something into a stream of
\* a worker d of h, in the place of a worker of another host.
HostMoves(h, d, u) ==
    /\ ~dead' /\ UNCHANGED <<pc, pos, sinkClosed, wire, blocks>>
    /\ d \in Ranks /\ Host(d) = h /\ u \in StreamT /\ stream' = [stream EXCEPT ![d] = u]
    /\ Tidy(u, d, pc[d] = "done") /\ (map'[h] \/ u = stream[d])
    /\ \A f \in Ranks : ~Remote(f, d) => u.queue[f] = stream[d].queue[f] /\ u.seq[f] = stream[d].seq[f]
    /\ rxSeq' \in [Hosts -> [Hosts -> Nat]] /\ reads' \in [Hosts -> [Hosts -> Phases]]
    /\ todo' \in [Hosts -> Seq(EndItem \cup CloseItem)]
    /\ \A g \in Hosts \ {h} : rxSeq'[g] = rxSeq[g] /\ reads'[g] = reads[g] /\ todo'[g] = todo[g]
    /\ \A p \in Hosts \ {h} : ReadFrom(h, p)'
    /\ \A s, x \in Ranks : Host(x) = h /\ Remote(s, x) => Arriving(s, x)'
    /\ \A i \in 1 .. Len(todo'[h]) : Rest(h, i)'

LEMMA HostStep ==
    ASSUME CloseInv, CloseInv', CleanInv, [Next]_vars, NEW h \in Hosts, NEW d, NEW u,
           HostMoves(h, d, u)
    PROVE  CleanInv'
<1> USE DEF HostMoves
<1> USE DEF CloseInv
<1>0. WiresStep
  BY WiresStepped
<1>1. OnWire'
  BY <1>0, OnWireStep DEF CleanInv
<1>2. \A x \in Ranks \ {d} : stream'[x] = stream[x]
  BY DEF CleanInv, Streaming
<1>3. stream'[d] = u
  BY DEF CleanInv, Streaming
<1>4. Streaming'
  <2>1. stream' \in [Ranks -> StreamT]
    BY DEF CleanInv, Streaming
  <2>2. ASSUME NEW x \in Ranks PROVE Tidy(stream'[x], x, pc'[x] = "done")
    <3>1. CASE x = d
      BY <1>3, <3>1
    <3>2. CASE x # d
      <4>1. stream'[x] = stream[x] /\ pc'[x] = pc[x]
        BY <1>2, <3>2
      <4> QED BY <4>1 DEF CleanInv, Streaming
    <3> QED BY <3>1, <3>2
  <2>3. Fresh'
    <3>1. \A x \in Ranks : ~map'[Host(x)] => stream'[x] = stream[x]
      BY <1>2, <1>3
    <3> QED BY <3>1, FreshKept DEF CleanInv, Streaming
  <2> QED BY <2>1, <2>2, <2>3 DEF Streaming, Tidy
<1>5. Reading'
  <2>1. ASSUME NEW g \in Hosts, NEW p \in Hosts, g # p PROVE ReadFrom(g, p)'
    <3>1. CASE g = h
      BY <2>1, <3>1
    <3>2. CASE g # h
      <4>1. rxSeq'[g][p] = rxSeq[g][p] /\ reads'[g][p] = reads[g][p]
        BY <3>2
      <4> QED BY <1>0, <2>1, <4>1, ReadKept
    <3> QED BY <3>1, <3>2
  <2> QED BY <2>1 DEF Reading, Phases
<1>6. Handling'
  <2>1. ASSUME NEW g \in Hosts, NEW i \in 1 .. Len(todo'[g]) PROVE Rest(g, i)'
    <3>1. CASE g = h
      BY <2>1, <3>1
    <3>2. CASE g # h
      <4>1. \A p \in Hosts : rxSeq'[g][p] = rxSeq[g][p]
        BY <3>2
      <4>2. \A s, x \in Ranks : Host(x) = g /\ Remote(s, x) =>
               stream'[x].seq[s] = stream[x].seq[s] /\ stream'[x].queue[s] = stream[x].queue[s]
        BY <1>2, <3>2
      <4>3. todo'[g] = todo[g] /\ i \in 1 .. Len(todo[g])
        BY <2>1, <3>2
      <4>4. Typed /\ Sets /\ CloseLast'
        OBVIOUS
      <4> HIDE DEF CloseInv
      <4> QED BY <1>0, <4>1, <4>2, <4>3, <4>4, RestKept
    <3> QED BY <3>1, <3>2
  <2> QED BY <2>1 DEF Handling, EndItem, CloseItem
<1>7. Queues'
  <2>1. ASSUME NEW s \in Ranks, NEW x \in Ranks, Remote(s, x) PROVE Arriving(s, x)'
    <3>1. CASE Host(x) = h
      BY <2>1, <3>1
    <3>2. CASE Host(x) # h
      <4>1. Host(x) \in Hosts /\ rxSeq'[Host(x)][Host(s)] = rxSeq[Host(x)][Host(s)]
        BY <3>2, Layout
      <4>2. stream'[x] = stream[x]
        BY <1>2, <3>2
      <4> QED BY <1>0, <2>1, <4>1, <4>2, ArrivingSame
    <3> QED BY <3>1, <3>2
  <2>2. ASSUME NEW s \in Ranks, NEW x \in Ranks, ~Remote(s, x) PROVE Looped(s, x)'
    <3>1. stream'[x].queue[s] = stream[x].queue[s] /\ stream'[x].seq[s] = stream[x].seq[s]
      BY <1>2, <1>3, <2>2
    <3>2. EndPut(s, x)' <=> EndPut(s, x)
      BY DEF EndPut, CloseTarget
    <3>3. Looped(s, x)
      BY <2>2 DEF CleanInv, Queues
    <3> QED BY <3>1, <3>2, <3>3, LoopedSame
  <2> QED BY <2>1, <2>2 DEF Queues, Remote
<1> QED BY <1>1, <1>4, <1>5, <1>6, <1>7 DEF CleanInv

\* The same for a step that changes no stream.
LEMMA HostIdle ==
    ASSUME CloseInv, CloseInv', CleanInv, [Next]_vars, ~dead',
           UNCHANGED <<pc, pos, sinkClosed, wire, blocks, stream>>, NEW h \in Hosts,
           rxSeq' \in [Hosts -> [Hosts -> Nat]], reads' \in [Hosts -> [Hosts -> Phases]],
           todo' \in [Hosts -> Seq(EndItem \cup CloseItem)],
           \A g \in Hosts \ {h} : rxSeq'[g] = rxSeq[g] /\ reads'[g] = reads[g] /\ todo'[g] = todo[g],
           \A p \in Hosts \ {h} : ReadFrom(h, p)',
           \A s, x \in Ranks : Host(x) = h /\ Remote(s, x) => Arriving(s, x)',
           \A i \in 1 .. Len(todo'[h]) : Rest(h, i)'
    PROVE  CleanInv'
<1>1. PICK d \in Locals(h) : TRUE
  BY LocalCount
<1>2. d \in Ranks /\ Host(d) = h
  BY <1>1, Layout
<1>3. PICK u : u = stream[d]
  OBVIOUS
<1>4. u \in StreamT /\ Tidy(u, d, pc[d] = "done")
  BY <1>2, <1>3 DEF CleanInv, Streaming
<1>5. stream' = [stream EXCEPT ![d] = u]
  BY <1>2, <1>3 DEF CleanInv, Streaming
<1>6. HostMoves(h, d, u)
  BY <1>2, <1>3, <1>4, <1>5 DEF HostMoves
<1> QED BY <1>6, HostStep

\* The read that completes is the one that is open; the next one is of a header.
LEMMA ReadOn ==
    ASSUME CloseInv, CleanInv, NEW h \in Hosts, NEW p \in Hosts, h # p,
           NEW n \in DOMAIN reads[h][p], n <= Len(wire[p][h]), CompleteRead(h, p, n), wire' = wire
    PROVE  /\ n = rxSeq[h][p] /\ n \in 1 .. Len(wire[p][h]) /\ rxSeq'[h][p] = n + 1
           /\ rxSeq' \in [Hosts -> [Hosts -> Nat]] /\ reads' \in [Hosts -> [Hosts -> Phases]]
           /\ \A g \in Hosts \ {h} : rxSeq'[g] = rxSeq[g] /\ reads'[g] = reads[g]
           /\ \A q \in Hosts \ {p} : rxSeq'[h][q] = rxSeq[h][q] /\ reads'[h][q] = reads[h][q]
           /\ ReadFrom(h, p)'
<1> USE DEF CloseInv
<1>1. /\ rxSeq \in [Hosts -> [Hosts -> Nat]] /\ reads \in [Hosts -> [Hosts -> Phases]]
      /\ ReadFrom(h, p)
  BY DEF CleanInv, Reading
<1>2. n = rxSeq[h][p] /\ DOMAIN reads[h][p] = {n} /\ n \in Nat /\ n >= 1
  BY <1>1 DEF ReadFrom
<1>3. Len(wire[p][h]) \in Nat
  BY DEF Typed
<1>4. rxSeq' = [rxSeq EXCEPT ![h][p] = n + 1]
  BY <1>2 DEF CompleteRead
<1>5. PICK f : f = [m \in {n + 1} |-> "header"]
  OBVIOUS
<1>6. reads' = [reads EXCEPT ![h][p] = f]
  <2>1. (DOMAIN reads[h][p] \ {n}) \cup {rxSeq[h][p] + 1} = {n + 1}
    BY <1>2
  <2>2. n + 1 \notin DOMAIN reads[h][p]
    BY <1>2
  <2>3. [m \in (DOMAIN reads[h][p] \ {n}) \cup {rxSeq[h][p] + 1} |->
            IF m \in DOMAIN reads[h][p] THEN reads[h][p][m] ELSE "header"] = f
    BY <1>5, <2>1, <2>2
  <2> QED BY <2>3 DEF CompleteRead
<1>7. f \in Phases /\ DOMAIN f = {n + 1} /\ f[n + 1] = "header"
  <2>1. f \in [{n + 1} -> {"header", "body"}] /\ {n + 1} \in SUBSET Nat
    BY <1>2, <1>5
  <2> QED BY <1>5, <2>1 DEF Phases
<1>8. rxSeq'[h][p] = n + 1 /\ reads'[h][p] = f
  BY <1>1, <1>4, <1>6
<1>9. ReadFrom(h, p)'
  BY <1>2, <1>3, <1>7, <1>8 DEF ReadFrom
<1>10. rxSeq' \in [Hosts -> [Hosts -> Nat]]
  BY <1>1, <1>2, <1>4
<1>11. reads' \in [Hosts -> [Hosts -> Phases]]
  BY <1>1, <1>6, <1>7
<1>12. \A g \in Hosts \ {h} : rxSeq'[g] = rxSeq[g] /\ reads'[g] = reads[g]
  BY <1>1, <1>4, <1>6
<1>13. \A q \in Hosts \ {p} : rxSeq'[h][q] = rxSeq[h][q] /\ reads'[h][q] = reads[h][q]
  BY <1>1, <1>4, <1>6
<1> QED BY <1>2, <1>3, <1>8, <1>9, <1>10, <1>11, <1>12, <1>13

\* A close message: it is the last one of its connection, so the loop that it
\* starts finds every block handled.
LEMMA CloseHeaderStep ==
    ASSUME CloseInv, CloseInv', CleanInv, [Next]_vars, NEW h \in Hosts, NEW p \in Hosts \ {h},
           NEW n \in DOMAIN reads[h][p], OnCloseHeader(h, p, n)
    PROVE  CleanInv'
<1> USE DEF CloseInv
<1>0. WiresStep /\ UNCHANGED <<pc, pos, sinkClosed, wire, blocks, stream>> /\ ~dead'
  BY WiresStepped DEF OnCloseHeader, sinkVars, workerVars, CleanInv
<1>1. /\ todo[h] = <<>> /\ n <= Len(wire[p][h]) /\ wire[p][h][n].type = "closeAll"
      /\ todo' = [todo EXCEPT ![h] = CloseAllLoop(h, p)] /\ CompleteRead(h, p, n)
  BY DEF OnCloseHeader, Arrived
<1>2. /\ n = rxSeq[h][p] /\ n \in 1 .. Len(wire[p][h]) /\ rxSeq'[h][p] = n + 1
      /\ rxSeq' \in [Hosts -> [Hosts -> Nat]] /\ reads' \in [Hosts -> [Hosts -> Phases]]
      /\ \A g \in Hosts \ {h} : rxSeq'[g] = rxSeq[g] /\ reads'[g] = reads[g]
      /\ \A q \in Hosts \ {p} : rxSeq'[h][q] = rxSeq[h][q] /\ reads'[h][q] = reads[h][q]
      /\ ReadFrom(h, p)'
  <2> HIDE DEF CloseInv
  <2> QED BY <1>0, <1>1, ReadOn
<1>3. n = Len(wire[p][h]) /\ Ends(wire[p][h])
  BY <1>1, <1>2, SMTT(30) DEF CloseLast, Ends
<1>4. PICK loop : loop = CloseAllLoop(h, p)
  OBVIOUS
<1>5. /\ loop \in Seq(EndItem \cup CloseItem) /\ Len(loop) = WorkersPerHost
      /\ \A i \in 1 .. WorkersPerHost :
            loop[i].type = "closeAll" /\ loop[i].from = p /\ Host(loop[i].to) = h
  <2>1. ASSUME NEW w \in 1 .. WorkersPerHost
        PROVE  h * WorkersPerHost + w - 1 \in Ranks /\ Host(h * WorkersPerHost + w - 1) = h
    <3>1. w - 1 \in 0 .. WorkersPerHost - 1
      BY ConstantsAssumption
    <3>2. h * WorkersPerHost + (w - 1) \in Locals(h)
      BY <3>1, LocalRank
    <3>3. h * WorkersPerHost + (w - 1) = h * WorkersPerHost + w - 1
      BY ConstantsAssumption DEF Hosts
    <3> QED BY <3>2, <3>3, Layout
  <2>2. ASSUME NEW w \in 1 .. WorkersPerHost
        PROVE  [type |-> "closeAll", to |-> h * WorkersPerHost + w - 1,
                from |-> p, seq |-> Final] \in CloseItem
    BY <2>1 DEF CloseItem
  <2>3. loop \in [1 .. WorkersPerHost -> EndItem \cup CloseItem]
    BY <1>4, <2>2 DEF CloseAllLoop
  <2>4. WorkersPerHost \in Nat
    BY ConstantsAssumption
  <2>5. loop \in Seq(EndItem \cup CloseItem) /\ Len(loop) = WorkersPerHost
    BY <2>3, <2>4, IsASeq, SeqDef
  <2> QED BY <1>4, <2>1, <2>5 DEF CloseAllLoop
<1>6. /\ todo' \in [Hosts -> Seq(EndItem \cup CloseItem)] /\ todo'[h] = loop
      /\ \A g \in Hosts \ {h} : todo'[g] = todo[g]
  BY <1>1, <1>4, <1>5 DEF CleanInv, Handling
<1>7. ASSUME NEW i \in 1 .. Len(todo'[h]) PROVE Rest(h, i)'
  <2>1. todo'[h][i].type = "closeAll" /\ todo'[h][i].from = p /\ Host(todo'[h][i].to) = h
    BY <1>5, <1>6, <1>7
  <2> QED BY <1>0, <1>2, <1>3, <2>1 DEF Rest, CloseRest, Ends
<1>8. ASSUME NEW q \in Hosts \ {h} PROVE ReadFrom(h, q)'
  <2>1. CASE q = p
    BY <1>2, <2>1
  <2>2. CASE q # p
    BY <1>0, <1>2, <2>2, ReadKept
  <2> QED BY <2>1, <2>2
<1>9. ASSUME NEW s \in Ranks, NEW x \in Ranks, Host(x) = h, Remote(s, x) PROVE Arriving(s, x)'
  <2>1. Host(s) \in Hosts
    BY Layout
  <2> HIDE DEF CloseInv
  <2>2. CASE Host(s) = p
    <3>1. ~IsBlock(s, x, n)
      BY <1>1, <1>9, <2>2 DEF IsBlock
    <3> QED BY <1>0, <1>2, <1>9, <2>2, <3>1, ArrivingSame
  <2>3. CASE Host(s) # p
    BY <1>0, <1>2, <1>9, <2>1, <2>3, ArrivingSame
  <2> QED BY <2>2, <2>3
<1> HIDE DEF CloseInv
<1> QED BY <1>0, <1>2, <1>6, <1>7, <1>8, <1>9, HostIdle

\* The header of a block: the stream it is for has not been closed, as a queue
\* of it is still open.
LEMMA BlockHeaderStep ==
    ASSUME CloseInv, CloseInv', CleanInv, [Next]_vars, NoZombie', NEW h \in Hosts,
           NEW p \in Hosts \ {h}, NEW n \in DOMAIN reads[h][p], OnBlockHeader(h, p, n)
    PROVE  CleanInv'
<1> USE DEF CloseInv
<1>0. WiresStep /\ UNCHANGED <<pc, pos, sinkClosed, wire, blocks, rxSeq, todo>>
  BY WiresStepped DEF OnBlockHeader, sinkVars, workerVars
<1>1. /\ todo[h] = <<>> /\ n <= Len(wire[p][h]) /\ wire[p][h][n].type = "block"
      /\ GetOrCreate(h) /\ stream' = StreamsAfter(h)
      /\ dead' = (dead \/ ~PeerAfter(wire[p][h][n].to))
      /\ reads' = [reads EXCEPT ![h][p][n] = "body"]
  BY DEF OnBlockHeader, Arrived
<1>2. stream' = stream
  BY <1>1, NotCreated DEF CleanInv
<1>3. /\ reads \in [Hosts -> [Hosts -> Phases]] /\ rxSeq \in [Hosts -> [Hosts -> Nat]]
      /\ ReadFrom(h, p)
  BY DEF CleanInv, Reading
<1>4. n = rxSeq[h][p] /\ DOMAIN reads[h][p] = {n} /\ n \in Nat /\ n \in 1 .. Len(wire[p][h])
  <2>1. Len(wire[p][h]) \in Nat
    BY DEF Typed
  <2> QED BY <1>1, <1>3, <2>1 DEF ReadFrom
<1>5. PICK m : m = wire[p][h][n]
  OBVIOUS
<1>6. /\ m.to \in Ranks /\ Host(m.to) = h /\ m.from \in Awaited(m.to)
      /\ ~IsQueueClosed(stream[m.to], m.from)
  BY <1>1, <1>4, <1>5, NextBlock DEF CleanInv
<1>7. ~dead'
  <2>1. pc[m.to] # "done"
    BY <1>6, OpenNotDone DEF CleanInv
  <2>2. m.to \in Locals(h)
    BY <1>6, Layout
  <2>3. PeerAfter(m.to)
    BY <1>6, <2>1, <2>2 DEF Sets, PeerAfter
  <2> QED BY <1>1, <1>5, <2>3 DEF CleanInv
<1>8. map'[h]
  <2>1. CASE map[h]
    BY <1>1, <2>1 DEF GetOrCreate, setVars
  <2>2. CASE ~map[h]
    <3>1. map' = [map EXCEPT ![h] = TRUE]
      BY <1>1, <2>2 DEF GetOrCreate, CreateSet
    <3> QED BY <3>1 DEF Typed
  <2> QED BY <2>1, <2>2
<1>9. PICK f : f = [reads[h][p] EXCEPT ![n] = "body"]
  OBVIOUS
<1>10. f \in Phases /\ DOMAIN f = {n}
  <2>1. reads[h][p] \in Phases
    BY <1>3
  <2>2. PICK N \in SUBSET Nat : reads[h][p] \in [N -> {"header", "body"}]
    BY <2>1 DEF Phases
  <2>3. f \in [N -> {"header", "body"}]
    BY <1>9, <2>2
  <2> QED BY <1>4, <1>9, <2>3 DEF Phases
<1>11. reads' = [reads EXCEPT ![h][p] = f]
  BY <1>1, <1>9
<1>12. /\ reads' \in [Hosts -> [Hosts -> Phases]] /\ reads'[h][p] = f
       /\ \A g \in Hosts \ {h} : reads'[g] = reads[g]
       /\ \A q \in Hosts \ {p} : reads'[h][q] = reads[h][q]
  BY <1>3, <1>10, <1>11
<1>13. ASSUME NEW q \in Hosts \ {h} PROVE ReadFrom(h, q)'
  <2>1. CASE q = p
    <3>1. /\ rxSeq'[h][p] = n /\ n >= 1 /\ n <= Len(wire'[p][h]) /\ n <= Len(wire'[p][h]) + 1
          /\ DOMAIN reads'[h][p] = {n} /\ wire'[p][h][n].type = "block"
      <4>1. Len(wire[p][h]) \in Nat
        BY DEF Typed
      <4> QED BY <1>0, <1>1, <1>4, <1>10, <1>12, <4>1
    <3> QED BY <1>8, <2>1, <3>1 DEF ReadFrom
  <2>2. CASE q # p
    BY <1>0, <1>12, <2>2, ReadKept
  <2> QED BY <2>1, <2>2
<1> HIDE DEF CloseInv
<1>14. ASSUME NEW s \in Ranks, NEW x \in Ranks, Host(x) = h, Remote(s, x) PROVE Arriving(s, x)'
  BY <1>0, <1>2, <1>14, ArrivingSame
<1>15. todo' \in [Hosts -> Seq(EndItem \cup CloseItem)] /\ Len(todo'[h]) = 0
  BY <1>0, <1>1 DEF CleanInv, Handling
<1>16. \A i \in 1 .. Len(todo'[h]) : Rest(h, i)'
  BY <1>15
<1> QED BY <1>0, <1>2, <1>3, <1>7, <1>12, <1>13, <1>14, <1>15, <1>16, HostIdle

\* Multiplexer::Close finds no set.
LEMMA CloseMultiplexerStep ==
    ASSUME CloseInv, CloseInv', CleanInv, [Next]_vars, NoZombie', NEW h \in Hosts,
           CloseMultiplexer(h)
    PROVE  CleanInv'
<1>1. UNCHANGED <<pc, pos, sinkClosed, blocks, stream, readVars>>
  BY DEF CloseMultiplexer, sinkVars, workerVars, netVars
<1>2. ~map[h]
  <2>1. NoZombie
    BY ZombiesStay DEF CloseInv
  <2>2. \A r \in Locals(h) : ~peer[r]
    BY <2>1, Layout DEF CloseMultiplexer, AllDone, NoZombie
  <2> QED BY <2>2 DEF CloseInv, Sets
<1>3. ~dead'
  BY <1>2 DEF CloseMultiplexer, CleanInv
<1>4. \A s, x \in Ranks : (EndPut(s, x)' <=> EndPut(s, x)) /\ blocks'[s][x] = blocks[s][x]
  BY <1>1 DEF EndPut, CloseTarget
<1> QED BY <1>1, <1>3, <1>4, QuietStep

\* The block at place k of those of a sink, when the ones before it are the first
\* x: it is number x, and it and the ones before it are the first x + 1.
Numbered(B, sq, k, x, N) ==
    /\ B \in SUBSET Nat /\ sq \in [B -> Nat] /\ k \in B /\ x \in Nat /\ N \in Nat /\ sq[k] < N
    /\ \A i, j \in B : i < j => sq[i] < sq[j]
    /\ \A y \in 0 .. N - 1 : \E n \in B : sq[n] = y
    /\ \A n \in B : n < k <=> sq[n] < x

LEMMA InOrder ==
    ASSUME NEW B, NEW sq, NEW k, NEW x, NEW N, Numbered(B, sq, k, x, N)
    PROVE  sq[k] = x /\ \A n \in B : n < k + 1 <=> sq[n] < x + 1
<1> USE DEF Numbered
<1>1. sq[k] >= x
  OBVIOUS
<1>2. sq[k] = x
  <2> SUFFICES ASSUME sq[k] > x PROVE FALSE
    BY <1>1
  <2>1. PICK j \in B : sq[j] = x
    OBVIOUS
  <2>2. ~(j < k) /\ ~(k < j)
    BY <2>1
  <2> QED BY <2>1, <2>2
<1>3. ASSUME NEW n \in B PROVE n < k + 1 <=> sq[n] < x + 1
  <2>1. CASE n < k
    BY <2>1
  <2>2. CASE n = k
    BY <1>2, <2>2
  <2>3. CASE n > k
    BY <1>2, <2>3
  <2> QED BY <2>1, <2>2, <2>3
<1> QED BY <1>2, <1>3

\* The block that is read next has the number that its stream waits for.
LEMMA BlockInTurn ==
    ASSUME CloseInv, CleanInv, NEW s \in Ranks, NEW d \in Ranks, Remote(s, d),
           NEW k \in 1 .. Len(wire[Host(s)][Host(d)]), k = rxSeq[Host(d)][Host(s)],
           IsBlock(s, d, k), OpenQueue(s, d)
    PROVE  /\ wire[Host(s)][Host(d)][k].seq = stream[d].seq[s]
           /\ \A n \in 1 .. Len(wire[Host(s)][Host(d)]) : IsBlock(s, d, n) =>
                 (n < k + 1 <=> wire[Host(s)][Host(d)][n].seq < stream[d].seq[s] + 1)
<1> USE DEF CloseInv
<1>1. PICK w : w = wire[Host(s)][Host(d)]
  OBVIOUS
<1>2. Host(s) \in Hosts /\ Host(d) \in Hosts
  BY Layout
<1>3. w \in Seq(Message) /\ Len(w) \in Nat
  BY <1>1, <1>2 DEF Typed
<1>4. PICK B : B = {n \in 1 .. Len(w) : IsBlock(s, d, n)}
  OBVIOUS
<1>5. PICK sq : sq = [n \in B |-> w[n].seq]
  OBVIOUS
<1>6. ASSUME NEW n \in B PROVE w[n].seq \in Nat
  <2>1. w[n] \in Message /\ w[n].type = "block"
    BY <1>1, <1>3, <1>4, <1>6 DEF IsBlock
  <2> QED BY <2>1 DEF Message, Block, CloseMsg
<1>7. sq \in [B -> Nat] /\ B \in SUBSET (1 .. Len(w)) /\ k \in B
  BY <1>1, <1>4, <1>5, <1>6
<1>8. PICK x : x = stream[d].seq[s]
  OBVIOUS
<1>9. x \in Nat /\ \A n \in B : n < k <=> sq[n] < x
  BY <1>1, <1>4, <1>5, <1>8 DEF OpenQueue, CleanInv, Streaming, StreamT
<1>10. PICK N : N = blocks[s][d]
  OBVIOUS
<1>11. N \in Nat
  BY <1>10 DEF Typed
<1>12. sq[k] < N
  <2>1. BlockOnWire(Host(s), Host(d), k)
    BY <1>2 DEF CleanInv, OnWire
  <2> QED BY <1>1, <1>5, <1>7, <1>10, <2>1 DEF BlockOnWire, IsBlock
<1>13. SinkOnWire(s, d)
  BY DEF CleanInv, OnWire
<1>14. \A i, j \in B : i < j => sq[i] < sq[j]
  BY <1>1, <1>4, <1>5, <1>13 DEF SinkOnWire
<1>15. \A y \in 0 .. N - 1 : \E n \in B : sq[n] = y
  BY <1>1, <1>4, <1>5, <1>10, <1>13 DEF SinkOnWire
<1>16. sq[k] = x /\ \A n \in B : n < k + 1 <=> sq[n] < x + 1
  <2>1. B \in SUBSET Nat
    BY <1>3, <1>7
  <2> HIDE DEF CloseInv
  <2>2. Numbered(B, sq, k, x, N)
    BY <1>7, <1>9, <1>11, <1>12, <1>14, <1>15, <2>1 DEF Numbered
  <2> QED BY <2>2, InOrder
<1> QED BY <1>1, <1>4, <1>5, <1>7, <1>8, <1>16

\* The queue that a block in its turn goes to stays open.
LEMMA BlockArrives ==
    ASSUME CloseInv, CleanInv, NEW s \in Ranks, NEW d \in Ranks, Remote(s, d),
           NEW k \in 1 .. Len(wire[Host(s)][Host(d)]), k = rxSeq[Host(d)][Host(s)],
           IsBlock(s, d, k), OpenQueue(s, d), UNCHANGED <<wire, blocks, sinkClosed>>,
           rxSeq'[Host(d)][Host(s)] = k + 1, NEW x \in Nat, x = stream[d].seq[s],
           stream'[d] = PutBlock(stream[d], s, x)
    PROVE  /\ Arriving(s, d)'
           /\ wire[Host(s)][Host(d)][k].last =>
                 sinkClosed'[s][d] /\ AllHandled(s, d)' /\ x + 1 = blocks'[s][d]
           /\ stream'[d].seq[s] = x + 1 /\ stream'[d].queue[s] = Run(x + 1)
<1> USE DEF CloseInv
<1>1. PICK w : w = wire[Host(s)][Host(d)]
  OBVIOUS
<1>2. Host(s) \in Hosts /\ Host(d) \in Hosts
  BY Layout
<1>3. w[k].seq = x
  <2> HIDE DEF CloseInv
  <2> QED BY <1>1, BlockInTurn
<1>4. PICK N : N = blocks[s][d] /\ N \in Nat
  BY DEF Typed
<1>5. x < N /\ (w[k].last => sinkClosed[s][d] /\ x + 1 = N)
  <2>1. BlockOnWire(Host(s), Host(d), k)
    BY <1>2 DEF CleanInv, OnWire
  <2> QED BY <1>1, <1>3, <1>4, <2>1 DEF BlockOnWire, IsBlock
<1>6. PICK z : z = stream[d] /\ z \in StreamT
  BY DEF CleanInv, Streaming
<1>7. z.queue[s] = Run(x) /\ z.seq[s] = x /\ z.seq \in [Ranks -> Nat] /\ z.queue \in [Ranks -> Seq(Int)]
  BY <1>6 DEF OpenQueue, StreamT
<1>8. stream'[d].seq[s] = x + 1 /\ stream'[d].queue[s] = Run(x + 1)
  <2>1. stream'[d].seq[s] = x + 1
    BY <1>6, <1>7 DEF PutBlock
  <2>2. stream'[d].queue[s] = Append(Run(x), x)
    BY <1>6, <1>7 DEF PutBlock
  <2> QED BY <2>1, <2>2, RunFacts
<1>9. \A n \in 1 .. Len(w) : IsBlock(s, d, n) => (n < k + 1 <=> w[n].seq < x + 1)
  <2> HIDE DEF CloseInv
  <2> QED BY <1>1, BlockInTurn
<1>10. \A n \in 1 .. Len(w) : IsBlock(s, d, n)' <=> IsBlock(s, d, n)
  BY DEF IsBlock
<1>11. wire'[Host(s)][Host(d)] = w /\ blocks'[s][d] = N
  BY <1>1, <1>4
<1>12. OpenQueue(s, d)'
  <2>1. x + 1 <= N
    BY <1>4, <1>5
  <2>2. \A n \in 1 .. Len(w) : IsBlock(s, d, n)' => (n < k + 1 <=> w[n].seq < x + 1)
    BY <1>9, <1>10
  <2> QED BY <1>8, <1>11, <2>1, <2>2 DEF OpenQueue, Run, Host
<1>13. ASSUME w[k].last PROVE AllHandled(s, d)'
  <2>1. ASSUME NEW n \in 1 .. Len(w), IsBlock(s, d, n) PROVE n < k + 1
    <3>1. BlockOnWire(Host(s), Host(d), n)
      BY <1>1, <1>2 DEF CleanInv, OnWire
    <3>2. w[n].seq < N
      BY <1>1, <1>4, <2>1, <3>1 DEF BlockOnWire, IsBlock
    <3>3. N = x + 1
      BY <1>5, <1>13
    <3> QED BY <1>9, <2>1, <3>2, <3>3
  <2> QED BY <1>10, <1>11, <2>1 DEF AllHandled, Host
<1> QED BY <1>1, <1>5, <1>8, <1>11, <1>12, <1>13 DEF Arriving

\* The body of a block: it is put behind the ones before it.
BlockPut(h, p, n, s, d, x, u) ==
    /\ s \in Ranks /\ d \in Ranks /\ x \in Nat /\ u \in StreamT
    /\ n \in 1 .. Len(wire[p][h]) /\ n = rxSeq[h][p]
    /\ Host(s) = p /\ Host(d) = h /\ Remote(s, d) /\ IsBlock(s, d, n) /\ OpenQueue(s, d)
    /\ x = stream[d].seq[s] /\ u = PutBlock(stream[d], s, x) /\ Tidy(u, d, pc[d] = "done")
    /\ stream' = [stream EXCEPT ![d] = u] /\ ~dead' /\ map[h]
    /\ todo' = [todo EXCEPT ![h] =
                  IF wire[p][h][n].last
                  THEN << [type |-> "end", to |-> d, from |-> s, seq |-> x + 1] >> ELSE <<>>]

LEMMA BlockPuts ==
    ASSUME CloseInv, CleanInv, [Next]_vars, NEW h \in Hosts,
           NEW p \in Hosts \ {h}, NEW n \in DOMAIN reads[h][p], OnBlock(h, p, n)
    PROVE  \E s, d, x, u : BlockPut(h, p, n, s, d, x, u)
<1> USE DEF CloseInv
<1>0. WiresStep /\ UNCHANGED <<pc, pos, sinkClosed, wire, blocks, map>>
  BY WiresStepped DEF OnBlock, sinkVars, workerVars, setVars
<1>1. PICK m : m = wire[p][h][n]
  OBVIOUS
<1>2. n <= Len(wire[p][h]) /\ reads[h][p][n] = "body" /\ CompleteRead(h, p, n)
  BY DEF OnBlock, Arrived
<1>3. /\ n = rxSeq[h][p] /\ n \in 1 .. Len(wire[p][h]) /\ rxSeq'[h][p] = n + 1
      /\ rxSeq' \in [Hosts -> [Hosts -> Nat]] /\ reads' \in [Hosts -> [Hosts -> Phases]]
      /\ \A g \in Hosts \ {h} : rxSeq'[g] = rxSeq[g] /\ reads'[g] = reads[g]
      /\ \A q \in Hosts \ {p} : rxSeq'[h][q] = rxSeq[h][q] /\ reads'[h][q] = reads[h][q]
      /\ ReadFrom(h, p)'
  <2> HIDE DEF CloseInv
  <2> QED BY <1>0, <1>2, ReadOn
<1>4. m.type = "block" /\ map[h]
  <2>1. ReadFrom(h, p)
    BY DEF CleanInv, Reading
  <2> QED BY <1>1, <1>2, <1>3, <2>1 DEF ReadFrom
<1>5. PICK s, d, x : s = m.from /\ d = m.to /\ x = m.seq
  OBVIOUS
<1>6. /\ s \in Ranks /\ d \in Ranks /\ m \in Block
      /\ Host(s) = p /\ Host(d) = h /\ Remote(s, d)
      /\ IsBlock(s, d, n) /\ OpenQueue(s, d)
  <2>1. /\ m \in Block /\ m.from \in Ranks /\ m.to \in Ranks
        /\ Host(m.from) = p /\ Host(m.to) = h /\ Remote(m.from, m.to)
        /\ IsBlock(m.from, m.to, n) /\ OpenQueue(m.from, m.to)
    <3>1. wire[p][h][n].type = "block"
      BY <1>1, <1>4
    <3>2. Typed /\ Streaming /\ OnWire /\ Queues
      BY DEF CleanInv
    <3>3. n \in 1 .. Len(wire[p][h]) /\ n = rxSeq[h][p]
      BY <1>3
    <3> HIDE DEF CloseInv
    <3> QED BY <1>1, <3>1, <3>2, <3>3, NextBlock
  <2> QED BY <1>5, <2>1
<1>7. /\ n \in 1 .. Len(wire[Host(s)][Host(d)]) /\ n = rxSeq[Host(d)][Host(s)]
       /\ wire[Host(s)][Host(d)][n] = m /\ rxSeq'[Host(d)][Host(s)] = n + 1
  BY <1>1, <1>3, <1>6
<1>8. x = stream[d].seq[s] /\ x \in Nat
  <2>1. x \in Nat
    BY <1>5, <1>6 DEF Block
  <2>2. wire[Host(s)][Host(d)][n].seq = x
    BY <1>5, <1>7
  <2>3. wire[Host(s)][Host(d)][n].seq = stream[d].seq[s]
    <3> HIDE DEF CloseInv
    <3> QED BY <1>6, <1>7, BlockInTurn
  <2> QED BY <2>1, <2>2, <2>3
<1>9. PICK u : u = OnStreamBlock(stream[d], s, x, x)
  OBVIOUS
<1>10. PICK t : t = [type |-> "end", to |-> d, from |-> s, seq |-> x + 1]
  OBVIOUS
<1>11. /\ stream' = [stream EXCEPT ![d] = u]
       /\ dead' = (dead \/ Dies(stream[d], s, x, x))
       /\ todo' = [todo EXCEPT ![h] = IF wire[p][h][n].last THEN <<t>> ELSE <<>>]
  BY <1>1, <1>5, <1>9, <1>10 DEF OnBlock
<1>12. PICK z : z = stream[d] /\ z \in StreamT /\ Tidy(z, d, pc[d] = "done")
  BY <1>6 DEF CleanInv, Streaming
<1>13. u = PutBlock(z, s, x) /\ (Dies(stream[d], s, x, x) <=> u.remaining < 0)
  BY <1>6, <1>8, <1>9, <1>12, InTurn DEF Tidy
<1>14. u \in StreamT /\ Tidy(u, d, pc[d] = "done") /\ ~(u.remaining < 0)
  <2>1. u \in StreamT
    BY <1>6, <1>8, <1>12, <1>13, PutBlockType
  <2>2. PICK done \in BOOLEAN : done = (pc[d] = "done")
    OBVIOUS
  <2>3. Tidy(z, d, done) /\ u = PutBlock(z, s, x)
    BY <1>12, <1>13, <2>2
  <2>4. Tidy(u, d, done) /\ u.remaining >= 0
    <3> HIDE DEF CloseInv
    <3> QED BY <1>6, <1>8, <1>12, <2>3, TidyPut
  <2>5. Tidy(u, d, pc[d] = "done") /\ u.remaining >= 0
    BY <2>2, <2>4
  <2> QED BY <2>1, <2>5 DEF StreamT
<1>15. ~dead'
  BY <1>11, <1>13, <1>14 DEF CleanInv
<1>16. BlockPut(h, p, n, s, d, x, u)
  <2>1. n \in 1 .. Len(wire[p][h]) /\ n = rxSeq[h][p]
    BY <1>3
  <2>2. u = PutBlock(stream[d], s, x)
    BY <1>12, <1>13
  <2>3. todo' = [todo EXCEPT ![h] =
                  IF wire[p][h][n].last
                  THEN << [type |-> "end", to |-> d, from |-> s, seq |-> x + 1] >> ELSE <<>>]
    BY <1>10, <1>11
  <2> HIDE DEF CloseInv
  <2> QED BY <1>4, <1>6, <1>8, <1>11, <1>14, <1>15, <2>1, <2>2, <2>3 DEF BlockPut
<1> QED BY <1>16

LEMMA BlockStep ==
    ASSUME CloseInv, CloseInv', CleanInv, [Next]_vars, NEW h \in Hosts,
           NEW p \in Hosts \ {h}, NEW n \in DOMAIN reads[h][p], OnBlock(h, p, n)
    PROVE  CleanInv'
<1> USE DEF CloseInv
<1>0. WiresStep /\ UNCHANGED <<pc, pos, sinkClosed, wire, blocks, map>>
  BY WiresStepped DEF OnBlock, sinkVars, workerVars, setVars
<1>1. PICK s, d, x, u : BlockPut(h, p, n, s, d, x, u)
  <2> HIDE DEF CloseInv
  <2> QED BY BlockPuts
<1>2. n <= Len(wire[p][h]) /\ CompleteRead(h, p, n)
  BY DEF OnBlock, Arrived
<1>3. /\ n = rxSeq[h][p] /\ n \in 1 .. Len(wire[p][h]) /\ rxSeq'[h][p] = n + 1
      /\ rxSeq' \in [Hosts -> [Hosts -> Nat]] /\ reads' \in [Hosts -> [Hosts -> Phases]]
      /\ \A g \in Hosts \ {h} : rxSeq'[g] = rxSeq[g] /\ reads'[g] = reads[g]
      /\ \A q \in Hosts \ {p} : rxSeq'[h][q] = rxSeq[h][q] /\ reads'[h][q] = reads[h][q]
      /\ ReadFrom(h, p)'
  <2> HIDE DEF CloseInv
  <2> QED BY <1>0, <1>2, ReadOn
<1>4. PICK last : last = wire[p][h][n].last
  OBVIOUS
<1>5. /\ s \in Ranks /\ d \in Ranks /\ x \in Nat /\ x = stream[d].seq[s] /\ map[h]
      /\ Host(s) = p /\ Host(d) = h /\ Remote(s, d) /\ IsBlock(s, d, n) /\ OpenQueue(s, d)
  BY <1>1 DEF BlockPut
<1>6. /\ n \in 1 .. Len(wire[Host(s)][Host(d)]) /\ n = rxSeq[Host(d)][Host(s)]
       /\ rxSeq'[Host(d)][Host(s)] = n + 1 /\ wire[Host(s)][Host(d)][n].last = last
  BY <1>3, <1>4, <1>5
<1>7. PICK t : t = [type |-> "end", to |-> d, from |-> s, seq |-> x + 1]
  OBVIOUS
<1>8. PICK rest : rest = IF last THEN <<t>> ELSE <<>>
  OBVIOUS
<1>9. stream' = [stream EXCEPT ![d] = u] /\ todo' = [todo EXCEPT ![h] = rest]
  BY <1>1, <1>4, <1>7, <1>8 DEF BlockPut
<1>10. u \in StreamT /\ Tidy(u, d, pc[d] = "done") /\ u = PutBlock(stream[d], s, x) /\ ~dead'
  BY <1>1 DEF BlockPut
<1>11. stream[d] \in StreamT
  BY <1>5 DEF CleanInv, Streaming
<1>12. \A f \in Ranks \ {s} : u.queue[f] = stream[d].queue[f] /\ u.seq[f] = stream[d].seq[f]
  BY <1>5, <1>10, <1>11 DEF PutBlock, StreamT
<1>13. stream'[d] = u /\ \A y \in Ranks \ {d} : stream'[y] = stream[y]
  BY <1>5, <1>9 DEF CleanInv, Streaming
<1>14. /\ Arriving(s, d)'
       /\ last => sinkClosed'[s][d] /\ AllHandled(s, d)' /\ x + 1 = blocks'[s][d]
       /\ stream'[d].seq[s] = x + 1 /\ stream'[d].queue[s] = Run(x + 1)
  <2>1. stream'[d] = PutBlock(stream[d], s, x)
    BY <1>10, <1>13
  <2>2. /\ n \in 1 .. Len(wire[Host(s)][Host(d)]) /\ n = rxSeq[Host(d)][Host(s)]
        /\ rxSeq'[Host(d)][Host(s)] = n + 1
    BY <1>6
  <2>3. /\ Arriving(s, d)'
        /\ wire[Host(s)][Host(d)][n].last =>
              sinkClosed'[s][d] /\ AllHandled(s, d)' /\ x + 1 = blocks'[s][d]
        /\ stream'[d].seq[s] = x + 1 /\ stream'[d].queue[s] = Run(x + 1)
    <3> HIDE DEF CloseInv
    <3> QED BY <1>0, <1>5, <2>1, <2>2, BlockArrives, SMTT(30)
  <2> QED BY <1>6, <2>3
<1>15. ASSUME NEW f \in Ranks, NEW y \in Ranks, Host(y) = h, Remote(f, y) PROVE Arriving(f, y)'
  <2>1. CASE f = s /\ y = d
    BY <1>14, <2>1
  <2>2. CASE ~(f = s /\ y = d)
    <3>1. stream'[y].seq[f] = stream[y].seq[f] /\ stream'[y].queue[f] = stream[y].queue[f]
      BY <1>12, <1>13, <2>2
    <3>2. Host(f) \in Hosts
      BY Layout
    <3>3. CASE Host(f) = p
      <4>1. ~IsBlock(f, y, n)
        BY <1>5, <1>15, <2>2, <3>3 DEF IsBlock
      <4> HIDE DEF CloseInv
      <4> QED BY <1>0, <1>3, <1>15, <3>1, <3>3, <4>1, ArrivingSame, SMTT(30)
    <3>4. CASE Host(f) # p
      <4> HIDE DEF CloseInv
      <4> QED BY <1>0, <1>3, <1>15, <3>1, <3>2, <3>4, ArrivingSame, ZenonT(40)
    <3> QED BY <3>3, <3>4
  <2> QED BY <2>1, <2>2
<1>16. ASSUME NEW q \in Hosts \ {h} PROVE ReadFrom(h, q)'
  <2>1. CASE q = p
    BY <1>3, <2>1
  <2>2. CASE q # p
    BY <1>0, <1>3, <2>2, ReadKept
  <2> QED BY <2>1, <2>2
<1>17. rest \in Seq(EndItem \cup CloseItem)
  <2>1. t \in EndItem
    BY <1>5, <1>7 DEF EndItem
  <2>2. <<t>> \in Seq(EndItem \cup CloseItem) /\ <<>> \in Seq(EndItem \cup CloseItem)
    BY <2>1
  <2>3. CASE last
    BY <1>8, <2>2, <2>3
  <2>4. CASE ~last
    BY <1>8, <2>2, <2>4
  <2> QED BY <2>3, <2>4
<1>18. /\ todo' \in [Hosts -> Seq(EndItem \cup CloseItem)] /\ todo'[h] = rest
       /\ \A g \in Hosts \ {h} : todo'[g] = todo[g]
  BY <1>9, <1>17 DEF CleanInv, Handling
<1>19. ASSUME NEW i \in 1 .. Len(todo'[h]) PROVE Rest(h, i)'
  <2>1. CASE ~last
    <3>1. Len(todo'[h]) = 0
      BY <1>8, <1>18, <2>1
    <3> QED BY <1>19, <3>1
  <2>2. CASE last
    <3>1. todo'[h] = <<t>>
      BY <1>8, <1>18, <2>2
    <3>2. Len(todo'[h]) = 1 /\ todo'[h][i] = t
      BY <1>19, <3>1
    <3>3. t.to = d /\ t.from = s /\ t.seq = x + 1 /\ t.type = "end"
      BY <1>7
    <3>4. map'[h] /\ AllHandled(s, d)' /\ sinkClosed'[s][d]
      BY <1>0, <1>5, <1>14, <2>2
    <3>5. EndRest(h, t)'
      BY <1>5, <1>14, <2>2, <3>3, <3>4 DEF EndRest, Run, Remote, Host
    <3> QED BY <3>2, <3>3, <3>5 DEF Rest
  <2> QED BY <2>1, <2>2
<1>20. \A f \in Ranks : ~Remote(f, d) =>
          u.queue[f] = stream[d].queue[f] /\ u.seq[f] = stream[d].seq[f]
  BY <1>5, <1>12
<1>21. map'[h] \/ u = stream[d]
  BY <1>0, <1>5
<1>22. /\ rxSeq' \in [Hosts -> [Hosts -> Nat]] /\ reads' \in [Hosts -> [Hosts -> Phases]]
       /\ todo' \in [Hosts -> Seq(EndItem \cup CloseItem)]
       /\ \A g \in Hosts \ {h} : rxSeq'[g] = rxSeq[g] /\ reads'[g] = reads[g] /\ todo'[g] = todo[g]
  BY <1>3, <1>18
<1>23. d \in Ranks /\ Host(d) = h /\ stream' = [stream EXCEPT ![d] = u]
  BY <1>5, <1>9
<1>24. UNCHANGED <<pc, pos, sinkClosed, wire, blocks>>
  BY <1>0
<1>25. u \in StreamT /\ Tidy(u, d, pc[d] = "done")
  BY <1>10
<1>26. ~dead'
  BY <1>10
<1>27. \A f, y \in Ranks : Host(y) = h /\ Remote(f, y) => Arriving(f, y)'
  BY <1>15
<1>28. \A q \in Hosts \ {h} : ReadFrom(h, q)'
  BY <1>16
<1>29. \A i \in 1 .. Len(todo'[h]) : Rest(h, i)'
  BY <1>19
<1> HIDE DEF CloseInv
<1>30. HostMoves(h, d, u)
  BY <1>26, <1>20, <1>21, <1>22, <1>23, <1>24, <1>25, <1>27, <1>28, <1>29 DEF HostMoves
<1> QED BY <1>30, HostStep

\* The closing block behind a last block ends an open queue.
EndPutBlock(h, s, d, u) ==
    /\ s \in Ranks /\ d \in Ranks /\ u \in StreamT
    /\ todo[h] # <<>> /\ Len(todo[h]) = 1 /\ todo[h][1].type = "end"
    /\ todo[h][1].from = s /\ todo[h][1].to = d
    /\ Host(d) = h /\ Remote(s, d) /\ map[h] /\ sinkClosed[s][d] /\ AllHandled(s, d)
    /\ ~IsQueueClosed(stream[d], s) /\ stream[d].queue[s] = Run(blocks[s][d])
    /\ u = EndAll(stream[d], {s}) /\ Tidy(u, d, pc[d] = "done")
    /\ stream' = [stream EXCEPT ![d] = u] /\ ~dead' /\ todo' = [todo EXCEPT ![h] = Tail(@)]

LEMMA EndBlockPuts ==
    ASSUME CloseInv, CleanInv, [Next]_vars, NEW h \in Hosts, EndBlock(h)
    PROVE  \E s, d, u : EndPutBlock(h, s, d, u)
<1> USE DEF CloseInv
<1>0. WiresStep /\ UNCHANGED <<pc, pos, sinkClosed, wire, blocks, map, reads, rxSeq>>
  BY WiresStepped DEF EndBlock, sinkVars, workerVars, setVars
<1>1. PICK t : t = Head(todo[h])
  OBVIOUS
<1>2. /\ todo[h] # <<>> /\ t.type = "end" /\ todo' = [todo EXCEPT ![h] = Tail(@)]
      /\ stream' = [stream EXCEPT ![t.to] = OnStreamBlock(@, t.from, t.seq, Closing)]
      /\ dead' = (dead \/ Dies(stream[t.to], t.from, t.seq, Closing))
  BY <1>1 DEF EndBlock
<1>3. todo \in [Hosts -> Seq(EndItem \cup CloseItem)] /\ todo[h] \in Seq(EndItem \cup CloseItem)
  BY DEF CleanInv, Handling
<1>4. 1 \in 1 .. Len(todo[h]) /\ todo[h][1] = t /\ t \in EndItem \cup CloseItem
  BY <1>1, <1>2, <1>3
<1>5. Rest(h, 1)
  BY <1>4 DEF CleanInv, Handling
<1>6. Len(todo[h]) = 1 /\ EndRest(h, t) /\ t \in EndItem
  BY <1>2, <1>4, <1>5 DEF Rest, CloseItem
<1>7. PICK s, d, q : s = t.from /\ d = t.to /\ q = t.seq
  OBVIOUS
<1>8. s \in Ranks /\ d \in Ranks /\ q \in Nat
  BY <1>6, <1>7 DEF EndItem
<1>9. /\ Host(d) = h /\ Remote(s, d) /\ map[h] /\ sinkClosed[s][d] /\ AllHandled(s, d)
      /\ q = blocks[s][d] /\ stream[d].seq[s] = q /\ stream[d].queue[s] = Run(q)
  BY <1>6, <1>7 DEF EndRest
<1>10. PICK z : z = stream[d] /\ z \in StreamT /\ Tidy(z, d, pc[d] = "done")
  BY <1>8 DEF CleanInv, Streaming
<1>11. PICK u : u = OnStreamBlock(z, s, q, Closing)
  OBVIOUS
<1>12. Closing \in Int
  BY DEF Closing
<1>13. u = PutBlock(z, s, Closing) /\ (Dies(z, s, q, Closing) <=> u.remaining < 0)
  BY <1>8, <1>9, <1>10, <1>11, <1>12, InTurn DEF Tidy
<1>14. u = EndAll(z, {s})
  BY <1>8, <1>10, <1>13, EndOne
<1>15. ~IsQueueClosed(z, s) /\ {s} \in SUBSET Awaited(d)
  BY <1>8, <1>9, <1>10, RunIsOpen DEF Awaited
<1>16. u \in StreamT /\ Tidy(u, d, pc[d] = "done") /\ ~(u.remaining < 0)
  <2>1. u \in StreamT
    BY <1>8, <1>10, <1>14, EndAllType
  <2>2. PICK done \in BOOLEAN : done = (pc[d] = "done")
    OBVIOUS
  <2>3. Tidy(z, d, done)
    BY <1>10, <2>2
  <2>4. Tidy(u, d, done) /\ u.remaining >= 0
    <3>1. PICK f : f = {s}
      OBVIOUS
    <3>2. f \in SUBSET Awaited(d) /\ (\A g \in f : ~IsQueueClosed(z, g)) /\ u = EndAll(z, f)
      BY <1>14, <1>15, <3>1
    <3> HIDE DEF CloseInv
    <3> QED BY <1>8, <1>10, <2>3, <3>2, TidyEnd
  <2>5. Tidy(u, d, pc[d] = "done")
    BY <2>2, <2>4
  <2> QED BY <2>1, <2>4, <2>5 DEF StreamT
<1>17. stream' = [stream EXCEPT ![d] = u] /\ ~dead'
  <2>1. stream' = [stream EXCEPT ![d] = u]
    BY <1>2, <1>7, <1>10, <1>11
  <2>2. dead' = (dead \/ Dies(z, s, q, Closing))
    BY <1>2, <1>7, <1>10
  <2> QED BY <1>13, <1>16, <2>1, <2>2 DEF CleanInv
<1>18. EndPutBlock(h, s, d, u)
  <2>1. todo[h][1].type = "end" /\ todo[h][1].from = s /\ todo[h][1].to = d
    BY <1>2, <1>4, <1>7
  <2>2. ~IsQueueClosed(stream[d], s) /\ u = EndAll(stream[d], {s})
    BY <1>10, <1>14, <1>15
  <2>3. stream[d].queue[s] = Run(blocks[s][d])
    BY <1>9
  <2> HIDE DEF CloseInv
  <2> QED BY <1>2, <1>6, <1>8, <1>9, <1>16, <1>17, <2>1, <2>2, <2>3 DEF EndPutBlock
<1> QED BY <1>18

LEMMA EndBlockStep ==
    ASSUME CloseInv, CloseInv', CleanInv, [Next]_vars, NEW h \in Hosts, EndBlock(h)
    PROVE  CleanInv'
<1> USE DEF CloseInv
<1>0. WiresStep /\ UNCHANGED <<pc, pos, sinkClosed, wire, blocks, map, reads, rxSeq>>
  BY WiresStepped DEF EndBlock, sinkVars, workerVars, setVars
<1>1. PICK s, d, u : EndPutBlock(h, s, d, u)
  <2> HIDE DEF CloseInv
  <2> QED BY EndBlockPuts
<1>2. todo[h] # <<>> /\ Len(todo[h]) = 1 /\ todo' = [todo EXCEPT ![h] = Tail(@)]
  BY <1>1 DEF EndPutBlock
<1>3. todo \in [Hosts -> Seq(EndItem \cup CloseItem)] /\ todo[h] \in Seq(EndItem \cup CloseItem)
  BY DEF CleanInv, Handling
<1>8. s \in Ranks /\ d \in Ranks
  BY <1>1 DEF EndPutBlock
<1>9. /\ Host(d) = h /\ Remote(s, d) /\ map[h] /\ sinkClosed[s][d] /\ AllHandled(s, d)
      /\ stream[d].queue[s] = Run(blocks[s][d])
  BY <1>1 DEF EndPutBlock
<1>14. u = EndAll(stream[d], {s})
  BY <1>1 DEF EndPutBlock
<1>16. u \in StreamT /\ Tidy(u, d, pc[d] = "done")
  BY <1>1 DEF EndPutBlock
<1>17. stream' = [stream EXCEPT ![d] = u] /\ ~dead'
  BY <1>1 DEF EndPutBlock
<1>18. stream'[d] = u /\ \A y \in Ranks \ {d} : stream'[y] = stream[y]
  BY <1>8, <1>17 DEF CleanInv, Streaming
<1>19. \A f \in Ranks \ {s} : u.queue[f] = stream[d].queue[f] /\ u.seq[f] = stream[d].seq[f]
  BY <1>14 DEF EndAll
<1>20. u.queue[s] = Append(Run(blocks[s][d]), Closing)
  BY <1>8, <1>9, <1>14 DEF EndAll
<1>21. Host(s) \in Hosts /\ rxSeq[h][Host(s)] \in Nat
  BY <1>8, Layout DEF CleanInv, Reading
<1>22. Arriving(s, d)'
  <2>1. sinkClosed'[s][d] /\ blocks'[s][d] = blocks[s][d] /\ AllHandled(s, d)'
    BY <1>0, <1>8, <1>9, <1>21, HandledKept
  <2>2. Whole(s, d)'
    BY <1>9, <1>18, <1>20, <2>1 DEF Whole, Run, Closing
  <2> QED BY <2>1, <2>2 DEF Arriving, ClosedQueue
<1>23. \A f, y \in Ranks : Host(y) = h /\ Remote(f, y) => Arriving(f, y)'
  <2> SUFFICES ASSUME NEW f \in Ranks, NEW y \in Ranks, Host(y) = h, Remote(f, y)
               PROVE  Arriving(f, y)'
    OBVIOUS
  <2>1. CASE f = s /\ y = d
    BY <1>22, <2>1
  <2>2. CASE ~(f = s /\ y = d)
    <3>1. stream'[y].seq[f] = stream[y].seq[f] /\ stream'[y].queue[f] = stream[y].queue[f]
      BY <1>18, <1>19, <2>2
    <3> HIDE DEF CloseInv
    <3> QED BY <1>0, <3>1, ArrivingSame
  <2> QED BY <2>1, <2>2
<1>24. \A p \in Hosts \ {h} : ReadFrom(h, p)'
  BY <1>0, ReadKept
<1>25. /\ todo' \in [Hosts -> Seq(EndItem \cup CloseItem)] /\ Len(todo'[h]) = 0
       /\ \A g \in Hosts \ {h} : todo'[g] = todo[g]
  <2>1. Tail(todo[h]) \in Seq(EndItem \cup CloseItem) /\ Len(Tail(todo[h])) = 0
    BY <1>2, <1>3
  <2> QED BY <1>2, <1>3, <2>1
<1>26. \A i \in 1 .. Len(todo'[h]) : Rest(h, i)'
  BY <1>25
<1>27. \A f \in Ranks : ~Remote(f, d) =>
          u.queue[f] = stream[d].queue[f] /\ u.seq[f] = stream[d].seq[f]
  BY <1>9, <1>19
<1>28. map'[h] \/ u = stream[d]
  BY <1>0, <1>9
<1>29. /\ rxSeq' \in [Hosts -> [Hosts -> Nat]] /\ reads' \in [Hosts -> [Hosts -> Phases]]
       /\ \A g \in Hosts \ {h} : rxSeq'[g] = rxSeq[g] /\ reads'[g] = reads[g]
  BY <1>0 DEF CleanInv, Reading
<1> HIDE DEF CloseInv
<1>30. HostMoves(h, d, u)
  BY <1>0, <1>8, <1>9, <1>16, <1>17, <1>23, <1>24, <1>25, <1>26, <1>27, <1>28, <1>29 DEF HostMoves
<1> QED BY <1>30, HostStep

\* The end of the queue from s that a close message brings: all blocks are there.
LEMMA CloseArrives ==
    ASSUME CloseInv, CleanInv, WiresStep, NEW s \in Ranks, NEW d \in Ranks, Remote(s, d),
           ~IsQueueClosed(stream[d], s), Ends(wire[Host(s)][Host(d)]),
           rxSeq[Host(d)][Host(s)] = Len(wire[Host(s)][Host(d)]) + 1, rxSeq' = rxSeq,
           stream'[d].queue[s] = Append(stream[d].queue[s], Closing)
    PROVE  Arriving(s, d)'
<1> USE DEF CloseInv
<1>1. PICK w : w = wire[Host(s)][Host(d)]
  OBVIOUS
<1>2. Host(s) \in Hosts /\ Host(d) \in Hosts /\ s \in Locals(Host(s)) /\ d \in Locals(Host(d))
  BY Layout
<1>3. w \in Seq(Message) /\ Len(w) \in Nat
  BY <1>1, <1>2 DEF Typed
<1>4. OpenQueue(s, d)
  <2>1. blocks[s][d] \in Nat
    BY DEF Typed
  <2>2. ~ClosedQueue(s, d)
    BY <2>1, RunFacts DEF ClosedQueue, Whole, IsQueueClosed
  <2> QED BY <2>2 DEF CleanInv, Queues, Arriving
<1>5. AllHandled(s, d)
  BY <1>1, <1>3 DEF AllHandled
<1>6. PICK k, N : k = stream[d].seq[s] /\ N = blocks[s][d]
  OBVIOUS
<1>7. k \in Nat /\ N \in Nat /\ k <= N /\ stream[d].queue[s] = Run(k)
  BY <1>4, <1>6 DEF OpenQueue, CleanInv, Streaming, StreamT, Typed
<1>8. k = N
  <2> SUFFICES ASSUME k < N PROVE FALSE
    BY <1>7
  <2>1. SinkOnWire(s, d) /\ k \in 0 .. N - 1
    BY <1>7 DEF CleanInv, OnWire
  <2>2. PICK n \in 1 .. Len(w) : IsBlock(s, d, n) /\ w[n].seq = k
    BY <1>1, <1>6, <2>1 DEF SinkOnWire
  <2>3. n < rxSeq[Host(d)][Host(s)]
    BY <1>1, <1>5, <2>2 DEF AllHandled
  <2>4. w[n].seq < k
    BY <1>1, <1>4, <1>6, <2>2, <2>3 DEF OpenQueue
  <2> QED BY <1>7, <2>2, <2>4
<1>9. sinkClosed[s][d]
  <2>1. Len(w) \in 1 .. Len(w) /\ w[Len(w)].type = "closeAll"
    BY <1>1, <1>3 DEF Ends
  <2>2. Told(s, d)
    BY <1>1, <1>2, <2>1 DEF CloseLast
  <2> QED BY <2>2 DEF Told
<1>10. rxSeq[Host(d)][Host(s)] \in Nat
  BY <1>1, <1>3
<1>11. sinkClosed'[s][d] /\ blocks'[s][d] = blocks[s][d] /\ AllHandled(s, d)'
  BY <1>5, <1>9, <1>10, HandledKept
<1>12. Whole(s, d)'
  BY <1>6, <1>7, <1>8, <1>11 DEF Whole, Run, Closing
<1> QED BY <1>11, <1>12 DEF Arriving, ClosedQueue

\* One turn of the loop behind a close message: it ends open queues of the host
\* that has sent it.
ClosePut(h, p, d, o, u) ==
    /\ d \in Ranks /\ p \in Hosts /\ p # h /\ Host(d) = h
    /\ todo[h] # <<>> /\ todo[h][1].type = "closeAll"
    /\ todo[h][1].to = d /\ todo[h][1].from = p
    /\ Ends(wire[p][h]) /\ rxSeq[h][p] = Len(wire[p][h]) + 1
    /\ o \in SUBSET Ranks
    /\ \A f \in o : ~IsQueueClosed(stream[d], f) /\ Host(f) = p /\ Remote(f, d)
    /\ u = EndAll(stream[d], o) /\ u \in StreamT /\ Tidy(u, d, pc[d] = "done")
    /\ stream' = [stream EXCEPT ![d] = u] /\ ~dead'
    /\ todo' = [todo EXCEPT ![h] = Tail(@)]

LEMMA CloseAllPuts ==
    ASSUME CloseInv, CleanInv, [Next]_vars, NoZombie', NEW h \in Hosts, CloseAllFor(h)
    PROVE  \E p, d, o, u : ClosePut(h, p, d, o, u)
<1> USE DEF CloseInv
<1>0. WiresStep /\ UNCHANGED <<pc, pos, sinkClosed, wire, blocks, reads, rxSeq>>
  BY WiresStepped DEF CloseAllFor, sinkVars, workerVars
<1>1. PICK t : t = Head(todo[h])
  OBVIOUS
<1>2. /\ todo[h] # <<>> /\ t.type = "closeAll" /\ todo' = [todo EXCEPT ![h] = Tail(@)]
      /\ GetOrCreate(h)
  BY <1>1 DEF CloseAllFor
<1>3. todo \in [Hosts -> Seq(EndItem \cup CloseItem)] /\ todo[h] \in Seq(EndItem \cup CloseItem)
  BY DEF CleanInv, Handling
<1>4. 1 \in 1 .. Len(todo[h]) /\ todo[h][1] = t /\ t \in EndItem \cup CloseItem
  BY <1>1, <1>2, <1>3
<1>5. CloseRest(h, t) /\ t \in CloseItem
  <2>1. Rest(h, 1)
    BY <1>4 DEF CleanInv, Handling
  <2> QED BY <1>2, <1>4, <2>1 DEF Rest, EndItem
<1>6. PICK d, p : d = t.to /\ p = t.from
  OBVIOUS
<1>7. /\ d \in Ranks /\ p \in Hosts /\ p # h /\ Host(d) = h
      /\ Ends(wire[p][h]) /\ rxSeq[h][p] = Len(wire[p][h]) + 1
  BY <1>5, <1>6 DEF CloseItem, CloseRest
<1>8. StreamsAfter(h) = stream
  BY <1>2, NotCreated DEF CleanInv
<1>9. PICK z : z = stream[d] /\ z \in StreamT /\ Tidy(z, d, pc[d] = "done")
  BY <1>7 DEF CleanInv, Streaming
<1>10. PICK u : u = IF PeerAfter(d) THEN EndQueues(z, p) ELSE z
  OBVIOUS
<1>11. /\ stream' = [stream EXCEPT ![d] = u]
       /\ dead' = (dead \/ (PeerAfter(d) /\ u.remaining < 0))
  <2>1. /\ stream' = [stream EXCEPT ![d] = IF PeerAfter(d) THEN EndQueues(@, p) ELSE @]
        /\ dead' = (dead \/ (PeerAfter(d) /\ EndQueues(stream[d], p).remaining < 0))
    BY <1>1, <1>6, <1>8 DEF CloseAllFor
  <2>2. stream' = [stream EXCEPT ![d] = u]
    BY <1>9, <1>10, <2>1
  <2>3. dead' = (dead \/ (PeerAfter(d) /\ u.remaining < 0))
    <3>1. CASE PeerAfter(d)
      BY <1>9, <1>10, <2>1, <3>1
    <3>2. CASE ~PeerAfter(d)
      BY <2>1, <3>2
    <3> QED BY <3>1, <3>2
  <2> QED BY <2>2, <2>3
<1>12. PICK o : o = IF PeerAfter(d) THEN OpenFrom(z, p) ELSE {}
  OBVIOUS
<1>13. o \in SUBSET Ranks /\ u = EndAll(z, o)
  <2>1. \A f \in Ranks : z.waiting[f] = {}
    BY <1>9 DEF Tidy
  <2>2. CASE PeerAfter(d)
    BY <1>7, <1>9, <1>10, <1>12, <2>1, <2>2, EndsQueues
  <2>3. CASE ~PeerAfter(d)
    BY <1>9, <1>10, <1>12, <2>3, EndNone
  <2> QED BY <2>2, <2>3
<1>14. \A f \in o : ~IsQueueClosed(z, f) /\ Host(f) = p /\ Remote(f, d)
  BY <1>7, <1>12, Layout DEF OpenFrom, Remote
<1>15. o \in SUBSET Awaited(d)
  BY <1>13, <1>14 DEF Awaited
<1>16. u \in StreamT /\ Tidy(u, d, pc[d] = "done") /\ ~(u.remaining < 0)
  <2>1. u \in StreamT
    BY <1>9, <1>13, EndAllType
  <2>2. PICK done \in BOOLEAN : done = (pc[d] = "done")
    OBVIOUS
  <2>3. Tidy(z, d, done)
    BY <1>9, <2>2
  <2>4. Tidy(u, d, done) /\ u.remaining >= 0
    <3> HIDE DEF CloseInv
    <3> QED BY <1>7, <1>9, <1>13, <1>14, <1>15, <2>3, TidyEnd
  <2>5. Tidy(u, d, pc[d] = "done")
    BY <2>2, <2>4
  <2> QED BY <2>1, <2>4, <2>5 DEF StreamT
<1>17. ~dead'
  BY <1>11, <1>16 DEF CleanInv
<1>18. ClosePut(h, p, d, o, u)
  <2>1. todo[h][1].type = "closeAll" /\ todo[h][1].to = d /\ todo[h][1].from = p
    BY <1>2, <1>4, <1>6
  <2>2. \A f \in o : ~IsQueueClosed(stream[d], f) /\ Host(f) = p /\ Remote(f, d)
    BY <1>9, <1>14
  <2>3. u = EndAll(stream[d], o)
    BY <1>9, <1>13
  <2> HIDE DEF CloseInv
  <2> QED BY <1>2, <1>7, <1>11, <1>13, <1>16, <1>17, <2>1, <2>2, <2>3 DEF ClosePut
<1> QED BY <1>18

LEMMA CloseAllStep ==
    ASSUME CloseInv, CloseInv', CleanInv, [Next]_vars, NoZombie', NEW h \in Hosts, CloseAllFor(h)
    PROVE  CleanInv'
<1> USE DEF CloseInv
<1>0. WiresStep /\ UNCHANGED <<pc, pos, sinkClosed, wire, blocks, reads, rxSeq>>
  BY WiresStepped DEF CloseAllFor, sinkVars, workerVars
<1>1. PICK p, d, o, u : ClosePut(h, p, d, o, u)
  <2> HIDE DEF CloseInv
  <2> QED BY CloseAllPuts
<1>2. todo[h] # <<>> /\ todo' = [todo EXCEPT ![h] = Tail(@)] /\ GetOrCreate(h)
  BY <1>1 DEF ClosePut, CloseAllFor
<1>3. todo \in [Hosts -> Seq(EndItem \cup CloseItem)] /\ todo[h] \in Seq(EndItem \cup CloseItem)
  BY DEF CleanInv, Handling
<1>7. /\ d \in Ranks /\ p \in Hosts /\ p # h /\ Host(d) = h
      /\ Ends(wire[p][h]) /\ rxSeq[h][p] = Len(wire[p][h]) + 1
  BY <1>1 DEF ClosePut
<1>11. stream' = [stream EXCEPT ![d] = u]
  BY <1>1 DEF ClosePut
<1>13. o \in SUBSET Ranks /\ u = EndAll(stream[d], o)
  BY <1>1 DEF ClosePut
<1>14. \A f \in o : ~IsQueueClosed(stream[d], f) /\ Host(f) = p /\ Remote(f, d)
  BY <1>1 DEF ClosePut
<1>16. u \in StreamT /\ Tidy(u, d, pc[d] = "done")
  BY <1>1 DEF ClosePut
<1>17. ~dead'
  BY <1>1 DEF ClosePut
<1>18. stream'[d] = u /\ \A y \in Ranks \ {d} : stream'[y] = stream[y]
  BY <1>7, <1>11 DEF CleanInv, Streaming
<1>19. /\ \A f \in Ranks \ o : u.queue[f] = stream[d].queue[f] /\ u.seq[f] = stream[d].seq[f]
       /\ \A f \in o : u.queue[f] = Append(stream[d].queue[f], Closing)
  BY <1>13 DEF EndAll
<1>20. \A f, y \in Ranks : Host(y) = h /\ Remote(f, y) => Arriving(f, y)'
  <2> SUFFICES ASSUME NEW f \in Ranks, NEW y \in Ranks, Host(y) = h, Remote(f, y)
               PROVE  Arriving(f, y)'
    OBVIOUS
  <2>1. CASE f \in o /\ y = d
    <3>1. ~IsQueueClosed(stream[d], f) /\ Host(f) = p
      BY <1>14, <2>1
    <3>2. stream'[d].queue[f] = Append(stream[d].queue[f], Closing)
      BY <1>18, <1>19, <2>1
    <3>3. Remote(f, d) /\ Ends(wire[Host(f)][Host(d)]) /\
          rxSeq[Host(d)][Host(f)] = Len(wire[Host(f)][Host(d)]) + 1 /\ rxSeq' = rxSeq
      BY <1>0, <1>7, <2>1, <3>1
    <3> HIDE DEF CloseInv
    <3> QED BY <1>0, <1>7, <2>1, <3>1, <3>2, <3>3, CloseArrives
  <2>2. CASE ~(f \in o /\ y = d)
    <3>1. stream'[y].seq[f] = stream[y].seq[f] /\ stream'[y].queue[f] = stream[y].queue[f]
      BY <1>18, <1>19, <2>2
    <3> HIDE DEF CloseInv
    <3> QED BY <1>0, <3>1, ArrivingSame
  <2> QED BY <2>1, <2>2
<1>21. \A q \in Hosts \ {h} : ReadFrom(h, q)'
  BY <1>0, ReadKept
<1>22. /\ todo' \in [Hosts -> Seq(EndItem \cup CloseItem)] /\ todo'[h] = Tail(todo[h])
       /\ \A g \in Hosts \ {h} : todo'[g] = todo[g]
  <2>1. Tail(todo[h]) \in Seq(EndItem \cup CloseItem)
    BY <1>2, <1>3
  <2> QED BY <1>2, <1>3, <2>1
<1>23. \A i \in 1 .. Len(todo'[h]) : Rest(h, i)'
  <2> SUFFICES ASSUME NEW i \in 1 .. Len(todo'[h]) PROVE Rest(h, i)'
    OBVIOUS
  <2>1. i + 1 \in 1 .. Len(todo[h]) /\ todo'[h][i] = todo[h][i + 1] /\ Len(todo[h]) # 1
    BY <1>2, <1>3, <1>22
  <2>2. PICK e : e = todo[h][i + 1]
    OBVIOUS
  <2>3. Rest(h, i + 1)
    BY <2>1 DEF CleanInv, Handling
  <2>4. e.type # "end" /\ (e.type = "closeAll" => CloseRest(h, e))
    BY <2>1, <2>2, <2>3 DEF Rest
  <2>5. e.type = "closeAll" => CloseRest(h, e)'
    BY <1>0, <2>4 DEF CloseRest, Ends
  <2> QED BY <2>1, <2>2, <2>4, <2>5 DEF Rest
<1>24. \A f \in Ranks : ~Remote(f, d) =>
          u.queue[f] = stream[d].queue[f] /\ u.seq[f] = stream[d].seq[f]
  BY <1>14, <1>19
<1>25. map'[h] \/ u = stream[d]
  <2>1. CASE map[h]
    BY <1>2, <2>1 DEF GetOrCreate, setVars
  <2>2. CASE ~map[h]
    <3>1. map' = [map EXCEPT ![h] = TRUE]
      BY <1>2, <2>2 DEF GetOrCreate, CreateSet
    <3> QED BY <3>1 DEF Typed
  <2> QED BY <2>1, <2>2
<1>26. /\ rxSeq' \in [Hosts -> [Hosts -> Nat]] /\ reads' \in [Hosts -> [Hosts -> Phases]]
       /\ \A g \in Hosts \ {h} : rxSeq'[g] = rxSeq[g] /\ reads'[g] = reads[g]
  BY <1>0 DEF CleanInv, Reading
<1> HIDE DEF CloseInv
<1>27. HostMoves(h, d, u)
  BY <1>0, <1>7, <1>11, <1>16, <1>17, <1>20, <1>21, <1>22, <1>23, <1>24, <1>25, <1>26 DEF HostMoves
<1> QED BY <1>27, HostStep

\* The invariant holds as long as no set comes back.
LEMMA CleanStep ==
    ASSUME CloseInv, CloseInv', CleanInv, [Next]_vars, NoZombie', OneAtATime
    PROVE  CleanInv'
<1>1. CASE UNCHANGED vars
  <2>1. UNCHANGED <<pc, pos, sinkClosed, blocks, stream, dead, readVars>>
    BY <1>1 DEF vars, sinkVars, workerVars, netVars
  <2>2. \A s, x \in Ranks : (EndPut(s, x)' <=> EndPut(s, x)) /\ blocks'[s][x] = blocks[s][x]
    BY <2>1 DEF EndPut, CloseTarget
  <2>3. ~dead'
    BY <2>1 DEF CleanInv
  <2> QED BY <2>1, <2>2, <2>3, QuietStep
<1>2. CASE Next /\ ~UNCHANGED vars
  <2>1. CASE \E r \in Ranks : WorkerStep(r) \/ \E d \in Ranks : AppendBlock(r, d)
    BY <2>1, WorkerKeeps
  <2>2. CASE \E h \in Hosts : DispatcherStep(h) \/ CloseMultiplexer(h)
    <3>1. PICK h \in Hosts : DispatcherStep(h) \/ CloseMultiplexer(h)
      BY <2>2
    <3>2. CASE CloseMultiplexer(h)
      BY <3>2, CloseMultiplexerStep
    <3>3. CASE EndBlock(h)
      BY <3>3, EndBlockStep
    <3>4. CASE CloseAllFor(h)
      BY <3>4, CloseAllStep
    <3>5. CASE \E p \in Hosts \ {h} : \E n \in DOMAIN reads[h][p] :
                  OnCloseHeader(h, p, n) \/ OnBlockHeader(h, p, n) \/ OnBlock(h, p, n)
      BY <3>5, CloseHeaderStep, BlockHeaderStep, BlockStep
    <3> QED BY <3>1, <3>2, <3>3, <3>4, <3>5 DEF DispatcherStep
  <2> QED BY <1>2, <2>1, <2>2 DEF Next, Ended
<1> QED BY <1>1, <1>2

LEMMA CleanInit == Init /\ OneAtATime => CleanInv
<1> SUFFICES ASSUME Init, OneAtATime PROVE CleanInv
  OBVIOUS
<1> USE DEF Init
<1>1. FreshStream \in StreamT
  <2>1. ExpectedCloses \in Int
    BY ConstantsAssumption DEF ExpectedCloses
  <2>2. <<>> \in Seq(Int)
    OBVIOUS
  <2> QED BY <2>1, <2>2 DEF FreshStream, StreamT
<1>2. \A f \in Ranks : ~IsQueueClosed(FreshStream, f)
  BY DEF IsQueueClosed, FreshStream, ToSet
<1>3. Streaming
  <2>1. stream \in [Ranks -> StreamT]
    BY <1>1
  <2>2. ASSUME NEW d \in Ranks PROVE Tidy(stream[d], d, pc[d] = "done")
    <3>1. stream[d] = FreshStream /\ pc[d] = "new"
      OBVIOUS
    <3>2. ClosedAt(FreshStream, d) = {}
      BY <1>2 DEF ClosedAt, Awaited
    <3>3. Cardinality(ClosedAt(FreshStream, d)) = 0
      BY <3>2, FS_EmptySet
    <3>4. ExpectedCloses \in Nat
      BY AwaitedCount
    <3>5. /\ \A f \in Ranks : FreshStream.waiting[f] = {}
          /\ FreshStream.remaining = ExpectedCloses /\ FreshStream.sem = 0
      BY DEF FreshStream
    <3>6. Tidy(FreshStream, d, FALSE)
      BY <3>3, <3>4, <3>5 DEF Tidy
    <3> QED BY <3>1, <3>6
  <2>3. Fresh
    BY DEF Fresh
  <2> QED BY <2>1, <2>2, <2>3 DEF Streaming
<1>4. \A p, h \in Hosts : wire[p][h] = <<>> /\ Len(wire[p][h]) = 0
  OBVIOUS
<1>5. \A r \in Ranks : Host(r) \in Hosts
  BY Layout
<1>6. \A s, d \in Ranks : Len(wire[Host(s)][Host(d)]) = 0
  BY <1>4, <1>5
<1>7. OnWire
  <2>1. ASSUME NEW s \in Ranks, NEW d \in Ranks PROVE SinkOnWire(s, d)
    <3>1. blocks[s][d] = 0
      OBVIOUS
    <3>2. PICK w : w = wire[Host(s)][Host(d)] /\ Len(w) = 0
      BY <1>6
    <3> HIDE DEF Init
    <3> QED BY <3>1, <3>2 DEF SinkOnWire
  <2> QED BY <1>4, <2>1 DEF OnWire
<1>8. Reading
  <2>1. ParallelAsync = 1
    BY DEF OneAtATime
  <2>2. rxSeq \in [Hosts -> [Hosts -> Nat]]
    BY <2>1
  <2>3. ASSUME NEW h \in Hosts, NEW p \in Hosts PROVE reads[h][p] \in Phases
    <3>1. CASE p = h
      <4>1. reads[h][p] = <<>>
        BY <3>1
      <4>2. <<>> \in [{} -> {"header", "body"}]
        OBVIOUS
      <4> QED BY <4>1, <4>2 DEF Phases
    <3>2. CASE p # h
      <4>1. reads[h][p] = [n \in 1 .. 1 |-> "header"]
        BY <2>1, <3>2
      <4>2. 1 .. 1 \in SUBSET Nat
        OBVIOUS
      <4>3. reads[h][p] \in [1 .. 1 -> {"header", "body"}]
        <5> HIDE DEF Init
        <5> QED BY <4>1
      <4> QED BY <4>2, <4>3 DEF Phases
    <3> QED BY <3>1, <3>2
  <2>4. reads \in [Hosts -> [Hosts -> Phases]]
    BY <2>3
  <2>5. ASSUME NEW h \in Hosts, NEW p \in Hosts, h # p PROVE ReadFrom(h, p)
    <3>1. rxSeq[h][p] = 1
      BY <2>1, <2>5
    <3>2. reads[h][p] = [n \in 1 .. 1 |-> "header"]
      BY <2>1, <2>5
    <3>3. DOMAIN reads[h][p] = {1} /\ reads[h][p][1] = "header"
      <4>1. 1 .. 1 = {1}
        OBVIOUS
      <4> HIDE DEF Init
      <4> QED BY <3>2, <4>1
    <3> QED BY <1>4, <3>1, <3>3 DEF ReadFrom
  <2> QED BY <2>2, <2>4, <2>5 DEF Reading
<1>9. \A s, d \in Ranks : stream[d].queue[s] = Run(0) /\ stream[d].seq[s] = 0 /\ blocks[s][d] = 0
  <2>1. Run(0) = <<>>
    BY DEF Run
  <2> QED BY <2>1 DEF FreshStream
<1>10. Queues
  <2>1. ASSUME NEW s \in Ranks, NEW d \in Ranks PROVE OpenQueue(s, d) /\ Looped(s, d)
    <3>1. OpenQueue(s, d)
      <4>1. PICK w : w = wire[Host(s)][Host(d)] /\ Len(w) = 0
        BY <1>6
      <4>2. stream[d].queue[s] = Run(0) /\ stream[d].seq[s] = 0 /\ blocks[s][d] = 0
        BY <1>9
      <4> HIDE DEF Init
      <4> QED BY <4>1, <4>2 DEF OpenQueue
    <3>2. ~EndPut(s, d)
      BY DEF EndPut
    <3> QED BY <1>9, <3>1, <3>2 DEF Looped
  <2> QED BY <2>1 DEF Queues, Arriving
<1>11. Handling
  BY DEF Handling
<1> QED BY <1>3, <1>7, <1>8, <1>10, <1>11 DEF CleanInv

\* What the invariant gives: the properties of CleanStream, and the types of all
\* variables, remaining_closing_blocks_ and the semaphore among them.
LEMMA CleanGives ==
    ASSUME CloseInv, CleanInv, NoZombie, dead \in BOOLEAN, muxClosed \in [Hosts -> BOOLEAN]
    PROVE  CleanStream /\ NoStreamRemains /\ TypeOK
<1> USE DEF CloseInv
<1>1. NoDie
  BY DEF CleanInv, NoDie
<1>2. Delivery
  <2> SUFFICES ASSUME NEW s \in Ranks, NEW d \in Ranks
               PROVE  \/ \E n \in 0 .. blocks[s][d] : stream[d].queue[s] = Run(n)
                      \/ /\ sinkClosed[s][d]
                         /\ stream[d].queue[s] = Append(Run(blocks[s][d]), Closing)
    BY DEF Delivery
  <2>1. blocks[s][d] \in Nat
    BY DEF Typed
  <2>2. CASE Remote(s, d)
    <3>1. Arriving(s, d)
      BY <2>2 DEF CleanInv, Queues
    <3>2. CASE OpenQueue(s, d)
      <4>1. stream[d].seq[s] \in Nat
        BY DEF CleanInv, Streaming, StreamT
      <4> QED BY <2>1, <3>2, <4>1 DEF OpenQueue
    <3>3. CASE ClosedQueue(s, d)
      BY <3>3 DEF ClosedQueue, Whole
    <3> QED BY <3>1, <3>2, <3>3 DEF Arriving
  <2>3. CASE ~Remote(s, d)
    <3>1. Looped(s, d)
      BY <2>3 DEF CleanInv, Queues
    <3>2. CASE EndPut(s, d)
      BY <3>1, <3>2 DEF Looped, Whole, EndPut
    <3>3. CASE ~EndPut(s, d)
      <4>1. blocks[s][d] \in 0 .. blocks[s][d]
        BY <2>1
      <4> QED BY <3>1, <3>3, <4>1 DEF Looped
    <3> QED BY <3>2, <3>3
  <2> QED BY <2>2, <2>3
<1>3. NothingAfterClose
  BY DEF NothingAfterClose, CleanInv, Streaming, Tidy
<1>4. NoStreamRemains
  <2> SUFFICES ASSUME NEW h \in Hosts, AllDone(h), map[h] PROVE FALSE
    BY DEF NoStreamRemains
  <2>1. PICK r \in Locals(h) : peer[r]
    BY DEF Sets
  <2>2. r \in Ranks /\ pc[r] = "done"
    BY Layout DEF AllDone
  <2> QED BY <2>1, <2>2 DEF NoZombie
<1>5. ASSUME NEW d \in Ranks
      PROVE  /\ stream[d].remaining \in Nat /\ stream[d].sem \in Nat
             /\ \A f \in Ranks : stream[d].seq[f] \in Nat
  <2>1. PICK z : z = stream[d] /\ z \in StreamT /\ Tidy(z, d, pc[d] = "done")
    BY DEF CleanInv, Streaming
  <2>2. PICK c : c = Cardinality(ClosedAt(z, d))
    OBVIOUS
  <2>3. /\ c \in Nat /\ ExpectedCloses \in Nat /\ c <= ExpectedCloses
        /\ (\A f \in Awaited(d) : IsQueueClosed(z, f)) => c = ExpectedCloses
    BY <2>2, AwaitedCount, ClosedCount
  <2>4. z.remaining \in Nat
    BY <2>1, <2>2, <2>3 DEF Tidy
  <2>5. z.sem \in Nat
    <3>1. CASE pc[d] = "done"
      <4>1. \A f \in Awaited(d) : IsQueueClosed(z, f)
        BY <2>1, <3>1 DEF Tidy, Awaited
      <4>2. z.sem = c - ExpectedCloses
        BY <2>1, <2>2, <3>1 DEF Tidy
      <4> QED BY <2>3, <4>1, <4>2
    <3>2. CASE pc[d] # "done"
      <4>1. z.sem = c - 0
        BY <2>1, <2>2, <3>2 DEF Tidy
      <4> QED BY <2>3, <4>1
    <3> QED BY <3>1, <3>2
  <2> QED BY <2>1, <2>4, <2>5 DEF StreamT
<1>6. writersClosed \in [Ranks -> 0 .. NumRanks]
  <2>1. ASSUME NEW r \in Ranks PROVE writersClosed[r] \in 0 .. NumRanks
    <3>1. WritingOf(r)
      BY DEF Writing
    <3>2. pc[r] \in PCs /\ pos[r] \in 0 .. NumRanks - 1 /\ NumRanks \in Nat
      BY Layout DEF Typed
    <3>3. \/ writersClosed[r] = 0 \/ writersClosed[r] = pos[r]
          \/ writersClosed[r] = pos[r] + 1 \/ writersClosed[r] = NumRanks
      BY <3>1, <3>2 DEF WritingOf, PCs
    <3> HIDE DEF CloseInv
    <3> QED BY <3>2, <3>3
  <2> QED BY <2>1 DEF Typed
<1>7. TypeOK
  <2>1. rxSeq \in [Hosts -> [Hosts -> Nat]]
    BY DEF CleanInv, Reading
  <2> QED BY <1>5, <1>6, <2>1 DEF TypeOK, Typed, PCs
<1> QED BY <1>1, <1>2, <1>3, <1>4, <1>7 DEF CleanStream

\* The two Boolean variables that CleanInv says nothing of.
Flags == dead \in BOOLEAN /\ muxClosed \in [Hosts -> BOOLEAN]

LEMMA FlagsStep ==
    ASSUME Flags, [Next]_vars
    PROVE  Flags'
<1>1. CASE UNCHANGED vars
  BY <1>1, SMTT(30) DEF vars, Flags
<1>2. ASSUME NEW r \in Ranks, NEW d \in Ranks, WorkerStep(r) \/ AppendBlock(r, d) PROVE Flags'
  BY <1>2 DEF Flags, WorkerStep, AppendBlock, GetNewStream, Loopback, SendTail, TellTail, PutTail,
              CloseSink, EndLocal, Close, PutLocal, OnWriterClosed
<1>3. ASSUME NEW h \in Hosts, DispatcherStep(h) \/ CloseMultiplexer(h) PROVE Flags'
  BY <1>3 DEF Flags, DispatcherStep, CloseMultiplexer, OnCloseHeader, OnBlockHeader, OnBlock,
              EndBlock, CloseAllFor
<1>4. CASE Ended
  BY <1>4 DEF Ended, vars, Flags
<1> QED BY <1>1, <1>2, <1>3, <1>4 DEF Next

\* As long as no set of streams comes back for a worker that has closed its
\* stream, and connections hand over one message at a time, a stream is what its
\* users expect: no assertion fails and no null pointer is followed, what is
\* written arrives in order and exactly once, nothing arrives after Close, and
\* every set is gone when all workers of its host are done.
THEOREM StreamsAreClean ==
    ASSUME OneAtATime
    PROVE  Spec => [](NoZombie => CleanStream /\ NoStreamRemains /\ TypeOK)
<1> DEFINE Inv == CloseInv /\ Flags /\ (NoZombie => CleanInv)
<1>1. Init => Inv
  <2>1. Init => Flags
    BY DEF Init, Flags
  <2> QED BY <2>1, CloseInit, CleanInit
<1>2. Inv /\ [Next]_vars => Inv'
  <2> SUFFICES ASSUME Inv, [Next]_vars PROVE Inv'
    OBVIOUS
  <2>1. CloseInv'
    BY CloseStep
  <2>2. Flags'
    BY FlagsStep
  <2>3. ASSUME NoZombie' PROVE CleanInv'
    <3>1. NoZombie
      BY <2>3, ZombiesStay DEF CloseInv
    <3> QED BY <2>1, <2>3, <3>1, CleanStep
  <2> QED BY <2>1, <2>2, <2>3
<1>3. Inv => (NoZombie => CleanStream /\ NoStreamRemains /\ TypeOK)
  BY CleanGives DEF Flags
<1> QED BY <1>1, <1>2, <1>3, PTL DEF Spec

-----------------------------------------------------------------------------
\* What a step does to the queue from s to d: nothing, or it puts one item into
\* it, when it is not closed yet.
QueueKept(s, d) == stream'[d].queue[s] = stream[d].queue[s]
QueueGrows(s, d) ==
    /\ ~IsQueueClosed(stream[d], s)
    /\ \E b \in Int : stream'[d].queue[s] = Append(stream[d].queue[s], b)

\* A worker puts something into its own queues to workers of its host only.
LEMMA LocalGrows ==
    ASSUME CloseInv, CleanInv, NEW r \in Ranks, NEW e \in Ranks, ~Remote(r, e), ~EndPut(r, e),
           NEW b, b = blocks[r][e] \/ b = Closing,
           stream' = [stream EXCEPT ![e] = LocalPut(r, e, b)], NEW s \in Ranks, NEW d \in Ranks
    PROVE  QueueKept(s, d) \/ (QueueGrows(s, d) /\ ~Remote(s, d))
<1>1. PICK u : u = LocalPut(r, e, b)
  OBVIOUS
<1>2. /\ \A f \in Ranks \ {r} : u.queue[f] = stream[e].queue[f]
      /\ u.queue[r] = Append(Run(blocks[r][e]), b)
  BY <1>1, LocalPutFacts DEF CloseInv
<1>3. stream[e].queue[r] = Run(blocks[r][e]) /\ blocks[r][e] \in Nat
  BY DEF CleanInv, Queues, Looped, CloseInv, Typed
<1>4. stream' = [stream EXCEPT ![e] = u] /\ stream \in [Ranks -> StreamT]
  BY <1>1 DEF CleanInv, Streaming
<1>5. CASE s = r /\ d = e
  <2>1. ~IsQueueClosed(stream[d], s)
    BY <1>3, <1>5, RunIsOpen
  <2>2. stream'[d].queue[s] = Append(stream[d].queue[s], b)
    BY <1>2, <1>3, <1>4, <1>5
  <2>3. b \in Int
    BY <1>3 DEF Closing
  <2> QED BY <1>5, <2>1, <2>2, <2>3 DEF QueueGrows
<1>6. CASE ~(s = r /\ d = e)
  BY <1>2, <1>4, <1>6 DEF QueueKept
<1> QED BY <1>5, <1>6

LEMMA WorkerQueues ==
    ASSUME CloseInv, CleanInv, [Next]_vars, NoZombie', NEW r \in Ranks, NEW e \in Ranks,
           WorkerStep(r) \/ AppendBlock(r, e), NEW s \in Ranks, NEW d \in Ranks
    PROVE  QueueKept(s, d) \/ (QueueGrows(s, d) /\ ~Remote(s, d))
<1>1. CASE GetNewStream(r)
  <2>1. Host(r) \in Hosts
    BY Layout
  <2>2. stream' = stream
    BY <1>1, <2>1, NotCreated DEF GetNewStream, CloseInv, CleanInv
  <2> QED BY <2>2 DEF QueueKept
<1>2. CASE Loopback(r) \/ SendTail(r) \/ TellTail(r) \/ CloseSink(r)
  BY <1>2 DEF Loopback, SendTail, TellTail, CloseSink, QueueKept
<1>3. CASE Close(r)
  <2>1. stream' = [stream EXCEPT ![r].sem = @ - AwaitedCloses] /\ stream \in [Ranks -> StreamT]
    BY <1>3 DEF Close, CleanInv, Streaming
  <2>2. PICK z : z = stream[r] /\ z \in StreamT
    BY <2>1
  <2>3. PICK u : u = [z EXCEPT !.sem = @ - AwaitedCloses]
    OBVIOUS
  <2>4. u.queue = z.queue
    BY <2>2, <2>3 DEF StreamT
  <2>5. stream' = [stream EXCEPT ![r] = u]
    BY <2>1, <2>2, <2>3
  <2> QED BY <2>1, <2>2, <2>4, <2>5 DEF QueueKept
<1>4. CASE AppendBlock(r, e)
  <2>1. CASE Remote(r, e)
    BY <1>4, <2>1 DEF AppendBlock, QueueKept
  <2>2. CASE ~Remote(r, e)
    <3>1. PutLocal(r, e) /\ ~EndPut(r, e)
      BY <1>4, <2>2 DEF AppendBlock, EndPut
    <3>2. stream' = [stream EXCEPT ![e] = LocalPut(r, e, blocks[r][e])]
      BY <3>1, PutLocalIs
    <3> QED BY <2>2, <3>1, <3>2, LocalGrows
  <2> QED BY <2>1, <2>2
<1>5. CASE PutTail(r)
  <2>1. PICK x \in Ranks : x = CloseTarget(r)
    BY TargetType DEF CloseInv
  <2>2. ~Remote(r, x) /\ PutLocal(r, x) /\ ~EndPut(r, x)
    BY <1>5, <2>1 DEF PutTail, EndPut
  <2>3. stream' = [stream EXCEPT ![x] = LocalPut(r, x, blocks[r][x])]
    BY <2>2, PutLocalIs
  <2> QED BY <2>2, <2>3, LocalGrows
<1>6. CASE EndLocal(r)
  <2>1. PICK x \in Ranks : x = CloseTarget(r)
    BY TargetType DEF CloseInv
  <2>2. pc[r] = "end" /\ ~Remote(r, x)
    BY <1>6, <2>1 DEF EndLocal, CloseInv, Writing, WritingOf
  <2>3. ~EndPut(r, x)
    BY <2>1, <2>2 DEF EndPut
  <2>4. stream' = [stream EXCEPT ![x] = LocalPut(r, x, Closing)]
    <3>1. CASE Kind = "Cat"
      <4>1. stream' = [stream EXCEPT ![x].queue[r] = Append(@, Closing)]
        BY <1>6, <2>1, <3>1 DEF EndLocal
      <4>2. LocalPut(r, x, Closing) = [stream[x] EXCEPT !.queue[r] = Append(@, Closing)]
        BY <3>1 DEF LocalPut
      <4> QED BY <4>1, <4>2, Zenon
    <3>2. CASE Kind = "Mix"
      BY <1>6, <2>1, <3>2 DEF EndLocal, LocalPut
    <3> QED BY <3>1, <3>2, ConstantsAssumption
  <2> QED BY <2>2, <2>3, <2>4, LocalGrows
<1> QED BY <1>1, <1>2, <1>3, <1>4, <1>5, <1>6 DEF WorkerStep

\* The ways in which a queue from another host is closed.
ClosedByBlock(s, d) == EndBlock(Host(d)) /\ \E u : EndPutBlock(Host(d), s, d, u)
ClosedByMessage(s, d) ==
    CloseAllFor(Host(d)) /\ \E o, u : ClosePut(Host(d), Host(s), d, o, u)

LEMMA DispatcherQueues ==
    ASSUME CloseInv, CleanInv, [Next]_vars, NoZombie', NEW h \in Hosts,
           DispatcherStep(h) \/ CloseMultiplexer(h), NEW s \in Ranks, NEW d \in Ranks
    PROVE  \/ QueueKept(s, d)
           \/ /\ QueueGrows(s, d)
              /\ \/ ~IsQueueClosed(stream'[d], s)
                 \/ ClosedByBlock(s, d) \/ ClosedByMessage(s, d)
<1>0. stream \in [Ranks -> StreamT]
  BY DEF CleanInv, Streaming
<1>1. CASE CloseMultiplexer(h) \/ \E p \in Hosts \ {h} : \E n \in DOMAIN reads[h][p] :
              OnCloseHeader(h, p, n)
  BY <1>1 DEF CloseMultiplexer, OnCloseHeader, QueueKept
<1>2. ASSUME NEW p \in Hosts \ {h}, NEW n \in DOMAIN reads[h][p], OnBlockHeader(h, p, n)
      PROVE  QueueKept(s, d)
  <2>1. stream' = stream
    BY <1>2, NotCreated DEF OnBlockHeader, CloseInv, CleanInv
  <2> QED BY <2>1 DEF QueueKept
<1>3. ASSUME NEW p \in Hosts \ {h}, NEW n \in DOMAIN reads[h][p], OnBlock(h, p, n)
      PROVE  QueueKept(s, d) \/ (QueueGrows(s, d) /\ ~IsQueueClosed(stream'[d], s))
  <2>1. PICK f, e, x, u : BlockPut(h, p, n, f, e, x, u)
    BY <1>3, BlockPuts
  <2>2. /\ f \in Ranks /\ e \in Ranks /\ x \in Nat /\ x = stream[e].seq[f] /\ OpenQueue(f, e)
        /\ u = PutBlock(stream[e], f, x) /\ stream' = [stream EXCEPT ![e] = u]
    BY <2>1 DEF BlockPut
  <2>3. PICK z : z = stream[e] /\ z \in StreamT
    BY <1>0, <2>2
  <2>4. z.queue \in [Ranks -> Seq(Int)] /\ u.queue = [z.queue EXCEPT ![f] = Append(@, x)]
    BY <2>2, <2>3 DEF PutBlock, StreamT
  <2>5. CASE s = f /\ d = e
    <3>1. z.queue[f] = Run(x)
      BY <2>2, <2>3 DEF OpenQueue
    <3>2. ~IsQueueClosed(stream[d], s)
      BY <2>2, <2>3, <2>5, <3>1, RunIsOpen
    <3>3. stream'[d].queue[s] = Append(stream[d].queue[s], x)
      BY <1>0, <2>2, <2>3, <2>4, <2>5
    <3>4. stream'[d].queue[s] = Run(x + 1) /\ x + 1 \in Nat
      <4>1. stream'[d].queue[s] = Append(Run(x), x)
        BY <2>3, <2>5, <3>1, <3>3
      <4>2. Append(Run(x), x) = Run(x + 1) /\ x + 1 \in Nat
        <5>1. x \in Nat
          BY <2>2
        <5>2. Append(Run(x), x) = Run(x + 1)
          BY <5>1, RunFacts
        <5> QED BY <5>1, <5>2
      <4> QED BY <4>1, <4>2
    <3>5. ~IsQueueClosed(stream'[d], s)
      BY <3>4, RunIsOpen
    <3>6. x \in Int
      BY <2>2
    <3> QED BY <3>2, <3>3, <3>5, <3>6 DEF QueueGrows
  <2>6. CASE ~(s = f /\ d = e)
    BY <1>0, <2>2, <2>3, <2>4, <2>6 DEF QueueKept
  <2> QED BY <2>5, <2>6
<1>4. CASE EndBlock(h)
  <2>1. PICK f, e, u : EndPutBlock(h, f, e, u)
    BY <1>4, EndBlockPuts
  <2>2. /\ f \in Ranks /\ e \in Ranks /\ Host(e) = h /\ ~IsQueueClosed(stream[e], f)
        /\ u = EndAll(stream[e], {f}) /\ stream' = [stream EXCEPT ![e] = u]
    BY <2>1 DEF EndPutBlock
  <2>3. CASE s = f /\ d = e
    <3>1. stream'[d].queue[s] = Append(stream[d].queue[s], Closing)
      BY <1>0, <2>2, <2>3 DEF EndAll
    <3>2. ClosedByBlock(s, d)
      BY <1>4, <2>1, <2>2, <2>3 DEF ClosedByBlock
    <3>3. QueueGrows(s, d)
      <4>1. Closing \in Int /\ ~IsQueueClosed(stream[d], s)
        BY <2>2, <2>3 DEF Closing
      <4> QED BY <3>1, <4>1 DEF QueueGrows
    <3> QED BY <3>2, <3>3
  <2>4. CASE ~(s = f /\ d = e)
    BY <1>0, <2>2, <2>4 DEF EndAll, QueueKept
  <2> QED BY <2>3, <2>4
<1>5. CASE CloseAllFor(h)
  <2>1. PICK p, e, o, u : ClosePut(h, p, e, o, u)
    BY <1>5, CloseAllPuts
  <2>2. /\ e \in Ranks /\ Host(e) = h /\ o \in SUBSET Ranks
        /\ u = EndAll(stream[e], o) /\ stream' = [stream EXCEPT ![e] = u]
    BY <2>1 DEF ClosePut
  <2>3. CASE s \in o /\ d = e
    <3>1. stream'[d].queue[s] = Append(stream[d].queue[s], Closing)
      BY <1>0, <2>2, <2>3 DEF EndAll
    <3>2. ~IsQueueClosed(stream[d], s) /\ Host(s) = p
      BY <2>1, <2>3 DEF ClosePut
    <3>3. ClosedByMessage(s, d)
      BY <1>5, <2>1, <2>2, <2>3, <3>2 DEF ClosedByMessage
    <3> QED BY <3>1, <3>2, <3>3, SMTT(30) DEF QueueGrows, Closing
  <2>4. CASE ~(s \in o /\ d = e)
    BY <1>0, <2>2, <2>4 DEF EndAll, QueueKept
  <2> QED BY <2>3, <2>4
<1> QED BY <1>1, <1>2, <1>3, <1>4, <1>5 DEF DispatcherStep

\* The two together.
LEMMA QueueStep ==
    ASSUME CloseInv, CleanInv, [Next]_vars, NoZombie', NEW s \in Ranks, NEW d \in Ranks
    PROVE  \/ QueueKept(s, d)
           \/ /\ QueueGrows(s, d)
              /\ \/ ~Remote(s, d) \/ ~IsQueueClosed(stream'[d], s)
                 \/ ClosedByBlock(s, d) \/ ClosedByMessage(s, d)
<1>1. CASE UNCHANGED vars
  BY <1>1 DEF vars, QueueKept
<1>2. CASE \E r \in Ranks : WorkerStep(r) \/ \E e \in Ranks : AppendBlock(r, e)
  BY <1>2, WorkerQueues
<1>3. CASE \E h \in Hosts : DispatcherStep(h) \/ CloseMultiplexer(h)
  BY <1>3, DispatcherQueues
<1> QED BY <1>1, <1>2, <1>3 DEF Next, Ended
=============================================================================
