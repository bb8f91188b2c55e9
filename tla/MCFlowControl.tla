---------------------------- MODULE MCFlowControl ----------------------------
(* FlowControl on small instances.                                         *)
EXTENDS FlowControl

Plain(op) == [op |-> op]
Rooted(op, r) == [op |-> op, root |-> r]
Pred(k, len) == [op |-> "Predecessor", k |-> k, len |-> len]
Instance(h, t, b, calls) == [hosts |-> h, threads |-> t, buffered |-> b, calls |-> calls]
Both(h, t, S) == {Instance(h, t, b, <<c>>) : b \in BOOLEAN, c \in S}

\* A call of each kind on n workers.
Calls(n) ==
    {Plain(op) : op \in {"PrefixSum", "ExPrefixSum", "ExPrefixSumTotal", "AllReduce"}}
    \cup {Rooted(op, r) : op \in {"Broadcast", "Reduce"}, r \in {0, n - 1}}

\* The calls of Group on n hosts.
OfGroup(n) ==
    {Plain(op) : op \in {"GroupPrefixSum", "AllReduceSimple", "AllReduceAtRoot"}}
    \cup {Rooted("BroadcastTrivial", r) : r \in {0, n - 1}}
    \cup IF IsPowerOfTwo(n) THEN {Plain("AllReduceHypercube")} ELSE {}

\* The calls in which both partners of an exchange send first.
SendFirst(n) == IF IsPowerOfTwo(n) THEN {Plain("PrefixSumHypercube"), Plain("AllGather")} ELSE {}

\* One call of every kind, one thread on each host.
Single(h) ==
    Both(h, 1, Calls(h) \cup OfGroup(h))
    \cup {Instance(h, 1, TRUE, <<c>>) : c \in SendFirst(h)}
    \cup IF IsPowerOfTwo(h) THEN {} ELSE Both(h, 1, {Plain("AllGather")})

\* Pairs of calls on h hosts with t threads: the second one meets what the first
\* one leaves behind.
Pairs(h, t) ==
    LET n == h * t
        len(f) == [i \in 1 .. n |-> f[(i % 3) + 1]]
        kinds == {Plain("ExPrefixSum"), Plain("AllGather"), Rooted("Broadcast", n - 1), Plain("Barrier"),
                  Plain("LocalBarrier"), Pred(2, len(<<0, 1, 3>>)), Pred(2, len(<<2, 0, 1>>))}
    IN  {Instance(h, t, TRUE, <<c, d>>) : c, d \in kinds}

\* Two threads on each host, every call; pairs of calls; one host with three
\* threads.
Threads ==
    Both(2, 2, Calls(4)) \cup Pairs(2, 2)
    \cup {Instance(1, 3, TRUE, <<Pred(2, l), Pred(2, l)>>) : l \in {<<1, 0, 2>>, <<3, 1, 0>>}}

\* Many hosts.
Large(h) ==
    {Instance(h, 1, FALSE, <<c>>) : c \in {Plain("AllReduce"), Plain("ExPrefixSumTotal"),
                                         Plain("GroupPrefixSum"), Rooted("Reduce", h \div 2),
                                         Rooted("Broadcast", h \div 2)}}
    \cup {Instance(h, 1, IsPowerOfTwo(h), <<c>>) : c \in SendFirst(h) \cup {Plain("AllGather")}}

MCCases == UNION {Single(h) : h \in 1 .. 4} \cup Threads \cup UNION {Large(h) : h \in 5 .. 12}

\* With one thread on each host the hosts are sequential processes joined by
\* FIFO channels, and what they compute does not depend on their speeds: on more
\* than four hosts only the lowest rank that can go on takes a step.
Scheduled(w) ==
    H > 4 => \A v \in Worker : my_rank(v) < my_rank(w) => ~ENABLED Step(v)

MCStep == \E w \in Worker : Scheduled(w) /\ Step(w)
MCSpec == Init /\ [][MCStep \/ Ended]_vars /\ WF_vars(MCStep)
=============================================================================
