----------------------------- MODULE FlowControl -----------------------------
(***************************************************************************)
(* FlowControlChannel: collective calls of all worker threads of all hosts. *)
(* The threads of a host meet at a spin barrier whose last arrival carries  *)
(* out the communication of the host; they hand their values over through   *)
(* shared pointers to variables on their stacks.  Predecessor passes values *)
(* from thread to thread with generation counters instead.                  *)
(*                                                                         *)
(* Every thread runs the same list of calls.  A call is a list of           *)
(* instructions, those of module Collectives and the ones defined here.     *)
(* The values are sequences and sum_op is concatenation, the freest         *)
(* associative operation: it shows any wrong order of summands.             *)
(***************************************************************************)
EXTENDS Collectives, FiniteSets

CONSTANT
    Cases   \* set of [hosts, threads, buffered, calls]: the instances to check;
            \* buffered: a connection holds a message until it is received

\* The calls of n workers; a call of Group comes from the only thread of a host.
GroupCalls == {"GroupPrefixSum", "PrefixSumHypercube", "BroadcastTrivial",
               "AllReduceSimple", "AllReduceAtRoot", "AllReduceHypercube"}
CallsOf(n, threads) ==
    [op : {"PrefixSum", "ExPrefixSum", "ExPrefixSumTotal", "AllGather", "AllReduce",
           "Barrier", "LocalBarrier"}]
    \cup [op : {"Broadcast", "Reduce"}, root : 0 .. n - 1]
    \cup [op : {"Predecessor"}, k : Nat, len : [1 .. n -> Nat]]
    \cup {c \in [op : GroupCalls \ {"BroadcastTrivial"}]
                 \cup [op : {"BroadcastTrivial"}, root : 0 .. n - 1] : threads = 1}

ASSUME CasesAssumption ==
    \A c \in Cases :
        /\ c.hosts \in Nat \ {0} /\ c.threads \in Nat \ {0} /\ c.buffered \in BOOLEAN
        /\ c.calls \in Seq(CallsOf(c.hosts * c.threads, c.threads))

VARIABLES
    case,       \* the instance
    at,         \* at[w]: number of the call that w is in or has returned from
    code,       \* code[w]: the instructions that w has still to carry out
    reg,        \* reg[w]: the local variables of w's call and of its lambda
    slot,       \* slot[w]: result of GetNextStep()
    goal,       \* goal[w]: this_gen of Predecessor
    shmem,      \* shmem[w][s]: call in which w set pointer s, and its register
    counter,    \* counter[w]: LocalData::counter
    generation, \* generation[h]: generation_
    waiting,    \* waiting[h]: ThreadBarrier::waiting_
    step,       \* step[h]: ThreadBarrier::step_
    chan,       \* chan[g][h]: messages on the connection from host g to host h
    results     \* results[w]: history, what w's calls have returned

sharedVars == <<shmem, counter, generation>>
barrierVars == <<waiting, step>>
callVars == <<case, at, slot, goal, results>>
vars == <<callVars, code, reg, sharedVars, barrierVars, chan>>

H == case.hosts
T == case.threads
Worker == (0 .. H - 1) \X (0 .. T - 1)
my_rank(w) == w[1] * T + w[2]
Call(w) == case.calls[at[w]]

\* The value of rank r in call k, and the initial value of its prefix sums.
Input(k, r) == <<100 * k + r>>
Initial(k) == <<100 * k + 99>>

\* The items that rank r passes to Predecessor, c.len[r + 1] of them.
Items(k, r) == [i \in 1 .. case.calls[k].len[r + 1] |-> 1000 * k + 10 * r + i]

LastOf(s, n) == SubSeq(s, IF Len(s) <= n THEN 1 ELSE Len(s) - n + 1, Len(s))

-----------------------------------------------------------------------------
(* The calls.                                                              *)

SetShared(r) == [do |-> "share", reg |-> r]
Wait == [do |-> "barrier"]

\* Predecessor: hand the items of register r to the next worker; take those of
\* the previous one.
Transmit(w, r) ==
    (IF w[2] + 1 # T THEN <<SetShared(r)>>
     ELSE When(w[1] + 1 # H, <<[do |-> "sendLast", peer |-> w[1] + 1, reg |-> r]>>))
    \o <<[do |-> "count"]>>
Obtain(w) ==
    IF w[2] # 0 THEN <<[do |-> "await"], [do |-> "fetch"]>>
    ELSE When(w[1] # 0, <<ReceiveFrom(w[1] - 1, [result |-> "set"])>>)

\* Mutant: a worker that had to wait for its predecessor does not count.
Predecessor_NoCount(w, c) ==
    (IF c.len[my_rank(w) + 1] >= c.k
     THEN Transmit(w, "mine") \o Obtain(w)
     ELSE Obtain(w) \o <<Calc("fill")>> \o Front(Transmit(w, "out")))
    \o <<Wait>>

Predecessor(w, c) ==
    (IF c.len[my_rank(w) + 1] >= c.k
     THEN Transmit(w, "mine") \o Obtain(w)
     ELSE Obtain(w) \o <<Calc("fill")>> \o Transmit(w, "out"))
    \o <<Wait>>

\* Mutant: every thread takes part in the communication.
Broadcast_EveryThread(w, c) ==
    <<SetShared("local"), Calc("load")>> \o BroadcastBinomialTree(w[1], H, c.root \div T)
    \o <<Calc("store"), Wait>>

Broadcast(w, c) ==
    <<SetShared("local")>>
    \o When(w[2] = c.root % T,
            <<Calc("load")>> \o BroadcastBinomialTree(w[1], H, c.root \div T)
            \o <<Calc("store")>>)
    \o <<Wait>>

PrefixSumBase(h, inclusive) ==
    <<Calc("gatherPrefix")>> \o PrefixSumDoubling(h, H, FALSE)
    \o <<Calc(IF inclusive THEN "scatterInclusive" ELSE "scatterExclusive")>>

ExPrefixSumTotal(h) ==
    <<Calc("gatherPrefix")>> \o PrefixSumDoubling(h, H, FALSE) \o <<Calc("total")>>
    \o BroadcastBinomialTree(h, H, H - 1) \o <<Calc("scatterTotal")>>

AllGather(h) ==
    <<Calc("gatherArray")>>
    \o (IF IsPowerOfTwo(H) THEN AllGatherRecursiveDoublingPowerOfTwo(h, H, T)
                           ELSE AllGatherBruck(h, H, T))
    \o <<Calc("scatterArray")>>

\* Mutant: the value is reduced but not sent back.
Barrier_ReduceOnly(h) == Reduce(h, H, 0)

Barrier(h) == AllReduceElimination(h, H)

\* The lambda that the last thread at the barrier runs.
Lambda(c, h) ==
    CASE c.op = "PrefixSum"        -> PrefixSumBase(h, TRUE)
      [] c.op = "ExPrefixSum"      -> PrefixSumBase(h, FALSE)
      [] c.op = "ExPrefixSumTotal" -> ExPrefixSumTotal(h)
      [] c.op = "AllGather"        -> AllGather(h)
      [] c.op = "Reduce"           -> <<Calc("gatherReduce")>> \o Reduce(h, H, c.root \div T)
                                      \o <<Calc("scatterRoot")>>
      [] c.op = "AllReduce"        -> <<Calc("gatherReduce")>> \o AllReduceElimination(h, H)
                                      \o <<Calc("scatterAll")>>
      [] c.op = "Barrier"          -> Barrier(h)
      [] c.op = "Broadcast"        -> <<Calc("copyPrimary")>>
      [] c.op = "Predecessor"      -> <<[do |-> "generation"]>>
      [] c.op = "LocalBarrier"     -> <<>>

\* The collectives of Group that FlowControlChannel does not use, called by the
\* only thread of each host.
GroupCall(c, h) ==
    CASE c.op = "GroupPrefixSum"     -> PrefixSumDoubling(h, H, TRUE)
      [] c.op = "PrefixSumHypercube" -> PrefixSumHypercube(h, H)
      [] c.op = "BroadcastTrivial"   -> BroadcastTrivial(h, H, c.root)
      [] c.op = "AllReduceSimple"    -> AllReduceSimple(h, H)
      [] c.op = "AllReduceAtRoot"    -> AllReduceAtRoot(h, H)
      [] c.op = "AllReduceHypercube" -> AllReduceHypercube(h, H)

CodeOf(w, c) ==
    CASE c.op = "Predecessor"  -> Predecessor(w, c)
      [] c.op = "Broadcast"    -> Broadcast(w, c)
      [] c.op \in {"Barrier", "LocalBarrier"} -> <<Wait>>
      [] c.op \in GroupCalls   -> <<Calc("load")>> \o GroupCall(c, w[1]) \o <<Calc("store")>>
      [] OTHER -> <<SetShared("local"), Wait>>

-----------------------------------------------------------------------------
(* Local computations.                                                     *)

\* Values of the threads 0 .. i of host h, in the order of the threads.
Locals(h, i) == FlattenSeq([j \in 1 .. i + 1 |-> reg[<<h, j - 1>>].local])

\* The new registers of thread v of host h when thread w of that host, the one
\* that runs the lambda, carries out computation f.  c is the call.
GatherScatter(f, c, w, v) ==
    LET h == w[1]
        i == v[2]
        r == reg[v]
        sum == reg[w].sum
        before == IF i = 0 THEN <<>> ELSE reg[<<h, i - 1>>].local
        local_sum == IF v = w THEN Locals(h, T - 1) ELSE <<>>
    IN  CASE f = "gatherPrefix"     -> [r EXCEPT !.local = Locals(h, i),
                                                 !.sum = local_sum, !.own = local_sum]
          [] f = "scatterInclusive" -> [r EXCEPT !.local = sum \o @]
          [] f = "scatterExclusive" -> [r EXCEPT !.local = sum \o before]
          [] f = "scatterTotal"     -> [r EXCEPT !.local = reg[w].base \o before, !.total = sum]
          [] f = "gatherReduce"     -> [r EXCEPT !.sum = local_sum]
          [] f = "scatterRoot"      -> [r EXCEPT !.local = IF my_rank(v) = c.root THEN sum ELSE @]
          [] f = "scatterAll"       -> [r EXCEPT !.local = sum]
          [] f = "copyPrimary"      -> [r EXCEPT !.local = reg[<<h, c.root % T>>].local]
          [] f = "gatherArray"      ->
               LET first == IF IsPowerOfTwo(H) THEN h * T ELSE 0
               IN  [r EXCEPT !.arr = [p \in 1 .. H * T |->
                      IF p - 1 - first \in 0 .. T - 1
                      THEN Head(reg[<<h, p - 1 - first>>].local) ELSE 0]]
          [] f = "scatterArray"     -> [r EXCEPT !.total = reg[w].arr]

GatherScatters == {"gatherPrefix", "scatterInclusive", "scatterExclusive", "scatterTotal",
                   "gatherReduce", "scatterRoot", "scatterAll", "copyPrimary",
                   "gatherArray", "scatterArray"}

\* The new registers r of thread w after a computation on its own variables.
OwnStep(f, c, w, r) ==
    CASE f = "load"    -> [r EXCEPT !.sum = r.local]
      [] f = "store"   -> [r EXCEPT !.local = r.sum]
      [] f = "fork"    -> [r EXCEPT !.fwd = r.sum]
      [] f = "start"   -> LET s == When(w[1] = 0, Initial(at[w])) \o r.sum
                          IN  [r EXCEPT !.sum = s, !.fwd = s]
      [] f = "initial" -> [r EXCEPT !.sum = Initial(at[w])]
      [] f = "join"    -> [r EXCEPT !.sum = @ \o r.tmp]
      [] f = "total"   -> [r EXCEPT !.base = r.sum,
                                    !.sum = When(w[1] + 1 = H, r.sum \o r.own)]
      [] f = "rotate"  -> [r EXCEPT !.arr = [i \in 1 .. H * T |->
                             r.arr[((i - 1 + H * T - w[1] * T) % (H * T)) + 1]]]
      [] f = "fill"    -> [r EXCEPT !.out = LastOf(r.result, c.k - Len(r.mine)) \o r.mine]

-----------------------------------------------------------------------------
(* The steps of a thread.                                                  *)

Registers == {"local", "total", "sum", "own", "base", "fwd", "tmp", "arr",
              "mine", "result", "out"}

Init ==
    /\ case \in Cases
    /\ at = [w \in Worker |-> 0]
    /\ code = [w \in Worker |-> <<>>]
    /\ reg = [w \in Worker |-> [x \in Registers |-> <<>>]]
    /\ slot = [w \in Worker |-> 0] /\ goal = [w \in Worker |-> 0]
    /\ shmem = [w \in Worker |-> [s \in {0, 1} |-> [call |-> 0, reg |-> "local"]]]
    /\ counter = [w \in Worker |-> 0]
    /\ generation = [h \in 0 .. H - 1 |-> 0]
    /\ waiting = [h \in 0 .. H - 1 |-> 0] /\ step = [h \in 0 .. H - 1 |-> 0]
    /\ chan = [g \in 0 .. H - 1 |-> [h \in 0 .. H - 1 |-> <<>>]]
    /\ results = [w \in Worker |-> <<>>]

\* Mutant: one pointer for each step.
GetNextStep_NoParity(h) == step[h] + 1

GetNextStep(h) == (step[h] + 1) % 2

\* w enters its next call: GetNextStep, this_gen, the copy of the value.
Begin(w) ==
    LET k == at[w] + 1
        c == case.calls[k]
    IN  /\ code[w] = <<>> /\ at[w] < Len(case.calls)
        /\ at' = [at EXCEPT ![w] = k]
        /\ slot' = [slot EXCEPT ![w] = GetNextStep(w[1])]
        /\ goal' = [goal EXCEPT ![w] = generation[w[1]] + 1]
        /\ reg' = [reg EXCEPT ![w] = [x \in Registers |->
                     CASE x = "local" -> Input(k, my_rank(w))
                       [] x = "mine" /\ c.op = "Predecessor" -> Items(k, my_rank(w))
                       [] OTHER -> <<>>]]
        /\ code' = [code EXCEPT ![w] = CodeOf(w, c) \o <<[do |-> "return"]>>]
        /\ UNCHANGED <<case, results, sharedVars, barrierVars, chan>>

\* The next instruction of w is i, a `do`; afterwards w goes on behind it.
Executes(w, do) == code[w] # <<>> /\ Head(code[w]).do = do
Advance(w) == code' = [code EXCEPT ![w] = Tail(@)]

\* What the call returns.
Result(w) ==
    CASE Call(w).op = "ExPrefixSumTotal" -> <<reg[w].local, reg[w].total>>
      [] Call(w).op = "AllGather"        -> <<reg[w].total>>
      [] Call(w).op = "Predecessor"      -> <<reg[w].result>>
      [] OTHER                           -> <<reg[w].local>>

Return(w) ==
    /\ Executes(w, "return") /\ Advance(w)
    /\ results' = [results EXCEPT ![w] = Append(@, Result(w))]
    /\ UNCHANGED <<case, at, slot, goal, reg, sharedVars, barrierVars, chan>>

SetLocalShared(w) ==
    /\ Executes(w, "share") /\ Advance(w)
    /\ shmem' = [shmem EXCEPT ![w][slot[w]] = [call |-> at[w], reg |-> Head(code[w]).reg]]
    /\ UNCHANGED <<callVars, reg, counter, generation, barrierVars, chan>>

Compute(w) ==
    LET f == Head(code[w]).f
    IN  /\ Executes(w, "calc") /\ Advance(w)
        /\ reg' = [v \in Worker |->
             IF f \in GatherScatters
             THEN IF v[1] = w[1] THEN GatherScatter(f, Call(w), w, v) ELSE reg[v]
             ELSE IF v = w THEN OwnStep(f, Call(w), w, reg[w]) ELSE reg[v]]
        /\ UNCHANGED <<callVars, sharedVars, barrierVars, chan>>

\* The message that a send instruction i of w puts on its connection.
Message(w, i) ==
    CASE i.do = "send"     -> reg[w][i.reg]
      [] i.do = "sendN"    -> SubSeq(reg[w].arr, i.pos + 1, i.pos + i.len)
      [] i.do = "sendLast" -> LastOf(reg[w][i.reg], Call(w).k)

Sends == {"send", "sendN", "sendLast"}
Receives == {"recv", "recvN"}

\* SyncSend: the message is on its way; unless the connection buffers it, the
\* call blocks until the peer has received it.
Send(w) ==
    LET i == Head(code[w])
    IN  /\ \E do \in Sends : Executes(w, do)
        /\ chan' = [chan EXCEPT ![w[1]][i.peer] = Append(@, Message(w, i))]
        /\ code' = [code EXCEPT ![w] = When(~case.buffered,
                                          <<[do |-> "flush", peer |-> i.peer]>>) \o Tail(@)]
        /\ UNCHANGED <<callVars, reg, sharedVars, barrierVars>>

Flush(w) ==
    /\ Executes(w, "flush") /\ chan[w[1]][Head(code[w]).peer] = <<>>
    /\ Advance(w)
    /\ UNCHANGED <<callVars, reg, sharedVars, barrierVars, chan>>

\* How a received message goes into the registers r.
Placed(i, m, r) ==
    IF i.do = "recvN"
    THEN [r EXCEPT !.arr = [p \in DOMAIN @ |->
            IF p \in i.pos + 1 .. i.pos + i.len THEN m[p - i.pos] ELSE @[p]]]
    ELSE [x \in Registers |->
            CASE x \notin DOMAIN i.put -> r[x]
              [] x \in DOMAIN i.put /\ i.put[x] = "front" -> m \o r[x]
              [] x \in DOMAIN i.put /\ i.put[x] = "back"  -> r[x] \o m
              [] x \in DOMAIN i.put /\ i.put[x] = "set"   -> m]

Receive(w) ==
    LET i == Head(code[w])
        c == chan[i.peer][w[1]]
    IN  /\ \E do \in Receives : Executes(w, do)
        /\ c # <<>>
        /\ Advance(w)
        /\ reg' = [reg EXCEPT ![w] = Placed(i, Head(c), @)]
        /\ chan' = [chan EXCEPT ![i.peer][w[1]] = Tail(@)]
        /\ UNCHANGED <<callVars, sharedVars, barrierVars>>

\* IncCounter, WaitCounter, and the look at the predecessor's pointer.
IncCounter(w) ==
    /\ Executes(w, "count") /\ Advance(w)
    /\ counter' = [counter EXCEPT ![w] = @ + 1]
    /\ UNCHANGED <<callVars, reg, shmem, generation, barrierVars, chan>>

Previous(w) == <<w[1], w[2] - 1>>

\* One turn of the loop.
WaitCounter(w) ==
    /\ Executes(w, "await")
    /\ IF counter[Previous(w)] = goal[w] THEN Advance(w) ELSE UNCHANGED code
    /\ UNCHANGED <<callVars, reg, sharedVars, barrierVars, chan>>

Fetch(w) ==
    LET p == Previous(w)
    IN  /\ Executes(w, "fetch") /\ Advance(w)
        /\ reg' = [reg EXCEPT ![w].result =
                      LastOf(reg[p][shmem[p][slot[w]].reg], Call(w).k)]
        /\ UNCHANGED <<callVars, sharedVars, barrierVars, chan>>

\* Mutant: generation_ is not advanced.
NextGeneration_Never(w) ==
    /\ Executes(w, "generation") /\ Advance(w)
    /\ UNCHANGED <<callVars, reg, sharedVars, barrierVars, chan>>

NextGeneration(w) ==
    /\ Executes(w, "generation") /\ Advance(w)
    /\ generation' = [generation EXCEPT ![w[1]] = @ + 1]
    /\ UNCHANGED <<callVars, reg, shmem, counter, barrierVars, chan>>

\* ThreadBarrierSpin::wait: the last to arrive runs the lambda and then lets the
\* others go.
Arrive(w) ==
    LET h == w[1]
        last == waiting[h] = T - 1
    IN  /\ Executes(w, "barrier")
        /\ waiting' = [waiting EXCEPT ![h] = IF last THEN 0 ELSE @ + 1]
        /\ code' = [code EXCEPT ![w] =
             (IF last THEN Lambda(Call(w), h) \o <<[do |-> "release"]>>
                      ELSE <<[do |-> "spin", step |-> step[h]]>>) \o Tail(@)]
        /\ UNCHANGED <<callVars, reg, sharedVars, step, chan>>

Release(w) ==
    /\ Executes(w, "release") /\ Advance(w)
    /\ step' = [step EXCEPT ![w[1]] = @ + 1]
    /\ UNCHANGED <<callVars, reg, sharedVars, waiting, chan>>

\* One turn of the loop.
Spin(w) ==
    /\ Executes(w, "spin")
    /\ IF step[w[1]] # Head(code[w]).step THEN Advance(w) ELSE UNCHANGED code
    /\ UNCHANGED <<callVars, reg, sharedVars, barrierVars, chan>>

Step(w) ==
    \/ Begin(w) \/ Return(w) \/ Compute(w) \/ SetLocalShared(w)
    \/ Send(w) \/ Flush(w) \/ Receive(w)
    \/ IncCounter(w) \/ WaitCounter(w) \/ Fetch(w) \/ NextGeneration(w)
    \/ Arrive(w) \/ Release(w) \/ Spin(w)

Returned(w) == Len(results[w]) = Len(case.calls)
Ended == (\A w \in Worker : Returned(w)) /\ UNCHANGED vars

Next == (\E w \in Worker : Step(w)) \/ Ended

Spec == Init /\ [][Next]_vars

\* Every thread that can go on does.
FairSpec == Spec /\ WF_vars(\E w \in Worker : Step(w))

-----------------------------------------------------------------------------
(* Properties.                                                             *)

Values == Seq(Nat)

\* Every variable has its type: the barrier never counts more threads than there
\* are, and no value that is handed on was left unset.
TypeOK ==
    /\ at \in [Worker -> 0 .. Len(case.calls)]
    /\ reg \in [Worker -> [Registers -> Values]]
    /\ slot \in [Worker -> {0, 1}] /\ goal \in [Worker -> Nat]
    /\ shmem \in [Worker -> [{0, 1} -> [call : Nat, reg : {"local", "mine", "out"}]]]
    /\ counter \in [Worker -> Nat] /\ generation \in [0 .. H - 1 -> Nat]
    /\ waiting \in [0 .. H - 1 -> 0 .. T - 1] /\ step \in [0 .. H - 1 -> Nat]
    /\ chan \in [0 .. H - 1 -> [0 .. H - 1 -> Seq(Values)]]
    /\ results \in [Worker -> Seq(Seq(Values))]

\* Reference definitions of what a call k returns to rank r, from the values of
\* all ranks in order; Reduce promises something only to its root.
Ranks(k, a, b) == FlattenSeq([i \in 1 .. b - a + 1 |-> Input(k, a + i - 1)])
AllItems(k, r) == FlattenSeq([i \in 1 .. r |-> Items(k, i - 1)])
Expected(k, c, r) ==
    LET all == Ranks(k, 0, H * T - 1)
    IN  CASE c.op = "PrefixSum" \/ c.op = "GroupPrefixSum" -> <<Initial(k) \o Ranks(k, 0, r)>>
          [] c.op = "ExPrefixSum" -> <<Initial(k) \o Ranks(k, 0, r - 1)>>
          [] c.op = "ExPrefixSumTotal" -> <<Initial(k) \o Ranks(k, 0, r - 1), Initial(k) \o all>>
          [] c.op = "PrefixSumHypercube" -> <<Ranks(k, 0, r)>>
          [] c.op \in {"Broadcast", "BroadcastTrivial"} -> <<Input(k, c.root)>>
          [] c.op \in {"AllGather", "AllReduce", "AllReduceSimple", "AllReduceAtRoot",
                       "AllReduceHypercube"} -> <<all>>
          [] c.op = "Reduce" -> <<IF r = c.root THEN all ELSE Input(k, r)>>
          [] c.op = "Predecessor" -> <<LastOf(AllItems(k, r), c.k)>>
          [] c.op \in {"Barrier", "LocalBarrier"} -> <<Input(k, r)>>

\* The same values, each as often, in any order.
SameValues(s, t) ==
    \A x \in Range(s) \cup Range(t) :
        Cardinality({i \in DOMAIN s : s[i] = x}) = Cardinality({i \in DOMAIN t : t[i] = x})

\* Every call returns to every worker what its reference definition says, with
\* the summands in the order of the ranks, whatever the speed of the threads and
\* hosts and whatever call went before.  Of a Reduce whose root is not on host 0
\* only what a commutative sum_op can tell is claimed: every rank's value is
\* summed once.  Its order is the claim of ReducesInOrder, which fails.
Results ==
    \A w \in Worker : \A k \in DOMAIN results[w] :
        LET c == case.calls[k]
            e == Expected(k, c, my_rank(w))
        IN  IF c.op = "Reduce" /\ c.root \div T # 0
            THEN Len(results[w][k]) = 1 /\ SameValues(results[w][k][1], e[1])
            ELSE results[w][k] = e

\* "The reduce happens in order as with prefix sum": Reduce gives its root the
\* summands in the order of the ranks, wherever the root is.
ReducesInOrder ==
    \A w \in Worker : \A k \in DOMAIN results[w] :
        case.calls[k].op = "Reduce" => results[w][k] = Expected(k, case.calls[k], my_rank(w))

\* A pointer in shmem_ is followed only while the thread that set it is inside
\* the same call: what it points to is on that thread's stack.
Follows(w) ==
    CASE Executes(w, "fetch") -> {Previous(w)}
      [] Executes(w, "calc") /\ Head(code[w]).f \in GatherScatters -> {w[1]} \X (0 .. T - 1)
      [] OTHER -> {}
PointersAlive ==
    \A w \in Worker : \A v \in Follows(w) :
        code[v] # <<>> /\ at[v] = at[w] /\ shmem[v][slot[w]].call = at[w]

\* No two threads of a host use the same connection at the same time.
Peer(w) ==
    IF \E do \in Sends \cup Receives \cup {"flush"} : Executes(w, do)
    THEN {Head(code[w]).peer} ELSE {}
OneUserPerConnection ==
    \A v, w \in Worker : v # w /\ v[1] = w[1] => Peer(v) \cap Peer(w) = {}

\* A worker returns from a Barrier, AllReduce or AllGather only when all workers
\* of all hosts have entered it; and after the last call no connection holds a
\* message that a later call would take for its own.
Synchronises ==
    /\ \A w \in Worker : \A k \in DOMAIN results[w] :
          case.calls[k].op \in {"Barrier", "AllReduce", "AllGather"} =>
             \A v \in Worker : at[v] >= k
    /\ (\A w \in Worker : Returned(w)) => \A g, h \in 0 .. H - 1 : chan[g][h] = <<>>

\* Every call returns to every worker, also when each message blocks its sender
\* until it is received.
EveryCallReturns == <>(\A w \in Worker : Returned(w))
=============================================================================
