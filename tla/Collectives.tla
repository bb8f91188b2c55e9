----------------------------- MODULE Collectives -----------------------------
(***************************************************************************)
(* The collective operations of net::Group (net/collective.hpp).  Which     *)
(* messages a host sends and receives depends only on its rank and on the   *)
(* number of hosts, so each operation is a function that yields the list of *)
(* instructions of host h among n hosts.  The instructions work on the      *)
(* registers of the calling thread:                                         *)
(*    sum    the value to be reduced, summed or broadcast                   *)
(*    fwd    the copy that PrefixSumDoubling forwards                       *)
(*    tmp    recv_data of an exchange                                       *)
(*    arr    the array of AllGather                                         *)
(* They are carried out by module FlowControl.                              *)
(***************************************************************************)
EXTENDS Integers, Sequences, SequencesExt

SendTo(p, r) == [do |-> "send", peer |-> p, reg |-> r]

\* put[r] says how the message goes into register r: "front" for
\* r = sum_op(m, r), "back" for r = sum_op(r, m), "set" for r = m.
ReceiveFrom(p, put) == [do |-> "recv", peer |-> p, put |-> put]

SendN(p, pos, len) == [do |-> "sendN", peer |-> p, pos |-> pos, len |-> len]
ReceiveN(p, pos, len) == [do |-> "recvN", peer |-> p, pos |-> pos, len |-> len]

\* A computation without communication.
Calc(f) == [do |-> "calc", f |-> f]

-----------------------------------------------------------------------------
When(c, s) == IF c THEN s ELSE <<>>

\* x & d # 0 and x ^ d, for a power of two d.
Bit(x, d) == (x \div d) % 2 = 1
Flip(x, d) == IF Bit(x, d) THEN x - d ELSE x + d

\* The lowest bit of x > 0, and the number of powers of two less than n.
LowBit(x) == CHOOSE d \in {2 ^ j : j \in 0 .. x} : Bit(x, d) /\ x % d = 0
Rounds(n) == Cardinality({j \in 0 .. n : 2 ^ j < n})
IsPowerOfTwo(n) == 2 ^ Rounds(n) = n

\* for (d = 1; d < n; d <<= 1) P(d), and the same downwards.
EachRound(n, P(_)) == FlattenSeq([j \in 1 .. Rounds(n) |-> P(2 ^ (j - 1))])
EachRoundDown(n, P(_)) ==
    FlattenSeq([j \in 1 .. Rounds(n) |-> P(2 ^ (Rounds(n) - j))])

-----------------------------------------------------------------------------
(* Prefix sums.                                                            *)

\* Mutant: what is received is added behind the value.
PrefixSumDoubling_WrongSide(h, n, inclusive) ==
    <<Calc("start")>>
    \o EachRound(n, LAMBDA d :
         When(h + d < n, <<SendTo(h + d, "fwd")>>)
         \o When(h >= d, <<ReceiveFrom(h - d,
                             [sum |-> IF inclusive \/ d > 1 THEN "back" ELSE "set",
                              fwd |-> "back"])>>))
    \o When(~inclusive /\ h = 0, <<Calc("initial")>>)

\* Every host but 0 receives in the first round, where the exclusive sum
\* replaces the value.
PrefixSumDoubling(h, n, inclusive) ==
    <<Calc("start")>>
    \o EachRound(n, LAMBDA d :
         When(h + d < n, <<SendTo(h + d, "fwd")>>)
         \o When(h >= d, <<ReceiveFrom(h - d,
                             [sum |-> IF inclusive \/ d > 1 THEN "front" ELSE "set",
                              fwd |-> "front"])>>))
    \o When(~inclusive /\ h = 0, <<Calc("initial")>>)

\* For powers of two only; fwd is total_sum.
PrefixSumHypercube(h, n) ==
    <<Calc("fork")>>
    \o EachRound(n, LAMBDA d :
         When(Flip(h, d) < n,
           <<SendTo(Flip(h, d), "fwd"),
             ReceiveFrom(Flip(h, d),
               IF Bit(h, d) THEN [sum |-> "front", fwd |-> "front"]
                            ELSE [fwd |-> "back"])>>))

-----------------------------------------------------------------------------
(* Broadcasts.                                                             *)

BroadcastTrivial(h, n, origin) ==
    IF h = origin
    THEN FlattenSeq([p \in 1 .. n |-> When(p - 1 # origin, <<SendTo(p - 1, "sum")>>)])
    ELSE <<ReceiveFrom(origin, [sum |-> "set"])>>

BroadcastBinomialTree(h, n, origin) ==
    LET rank == (h + n - origin) % n
        low == IF rank = 0 THEN 2 ^ Rounds(n) ELSE LowBit(rank)
    IN  When(rank > 0, <<ReceiveFrom((rank - low + origin) % n, [sum |-> "set"])>>)
        \o EachRoundDown(n, LAMBDA d :
             When(d < low /\ rank + d < n,
                  <<SendTo((rank + d + origin) % n, "sum")>>))

-----------------------------------------------------------------------------
(* Reductions.                                                             *)

\* Each host receives until the round of its lowest bit, in which it sends.
Reduce(h, n, root) ==
    LET rank == (h + n - root) % n
        low == IF rank = 0 THEN n ELSE LowBit(rank)
    IN  EachRound(n, LAMBDA d :
          IF d = low THEN <<SendTo((h + n - d) % n, "sum")>>
          ELSE When(d < low /\ rank + d < n,
                    <<ReceiveFrom((h + d) % n, [sum |-> "back"])>>))

AllReduceSimple(h, n) == Reduce(h, n, 0) \o BroadcastBinomialTree(h, n, 0)

AllReduceAtRoot(h, n) ==
    IF h = 0
    THEN [p \in 1 .. n - 1 |-> ReceiveFrom(p, [sum |-> "back"])]
         \o [p \in 1 .. n - 1 |-> SendTo(p, "sum")]
    ELSE <<SendTo(0, "sum"), ReceiveFrom(0, [sum |-> "set"])>>

\* SendReceive at the higher rank, ReceiveSend at the lower one.
SendReceiveReduce(h, p) ==
    IF h > p THEN <<SendTo(p, "sum"), ReceiveFrom(p, [sum |-> "front"])>>
    ELSE <<ReceiveFrom(p, [tmp |-> "set"]), SendTo(p, "sum"), Calc("join")>>

AllReduceHypercube(h, n) ==
    EachRound(n, LAMBDA d : When(Flip(h, d) < n, SendReceiveReduce(h, Flip(h, d))))

\* One level of AllReduceEliminationProcess: d is group_size, and left is
\* remaining_hosts, from which every level with an odd number of groups takes
\* one group: n rounded down to a multiple of d.  In the zone of the last three
\* groups the last one is eliminated; the test for the zone, host_group >=
\* group_count - 3 in size_t, fails for a single group.
EliminationLevel(h, n, d) ==
    LET left == n - (n % d)
        count == left \div d
        group == h \div d
        peer == Flip(h, d)
        zone == count % 2 = 1 /\ count >= 3 /\ group >= count - 3
        third == peer - 2 * d       \* partner of the eliminated group
        back == peer + 2 * d        \* the eliminated host
    IN  CASE zone /\ group = count - 1 ->
               <<SendTo(third, "sum"), ReceiveFrom(third, [sum |-> "set"])>>
          [] zone /\ group = count - 2 ->
               <<ReceiveFrom(back, [sum |-> IF h > back THEN "front" ELSE "back"])>>
               \o SendReceiveReduce(h, peer)
          [] zone /\ group = count - 3 -> SendReceiveReduce(h, peer)
          [] OTHER -> When(~zone /\ peer < left, SendReceiveReduce(h, peer))

\* After the levels h sends the result to the host whose value it took in
\* (send_to).  There is at most one: from then on h is in the last group.
SendToEliminated(h, n, d) ==
    LET count == n \div d
    IN  When(count % 2 = 1 /\ count >= 3 /\ h \div d = count - 2,
             <<SendTo(Flip(h, d) + 2 * d, "sum")>>)

\* The levels go on while more than one group is left.
AllReduceElimination(h, n) ==
    EachRound(n, LAMBDA d : When(n \div d >= 2, EliminationLevel(h, n, d)))
    \o EachRound(n, LAMBDA d : SendToEliminated(h, n, d))

-----------------------------------------------------------------------------
(* AllGather, with m elements of each host.                                *)

AllGatherRecursiveDoublingPowerOfTwo(h, n, m) ==
    EachRound(n, LAMBDA d :
      LET peer == Flip(h, d)
      IN  <<SendN(peer, (h - (h % d)) * m, d * m), ReceiveN(peer, (peer - (peer % d)) * m, d * m)>>)

AllGatherBruck(h, n, m) ==
    EachRound(n, LAMBDA d :
      LET len == IF d * m < n * m - d * m THEN d * m ELSE n * m - d * m
          snd == SendN((h + n - d) % n, 0, len)
          rcv == ReceiveN((h + d) % n, d * m, len)
      IN  IF Bit(h, d) THEN <<rcv, snd>> ELSE <<snd, rcv>>)
    \o <<Calc("rotate")>>
=============================================================================
