------------------------- MODULE FlowControlProofs -------------------------
(***************************************************************************)
(* Proofs about FlowControl for any number of hosts and threads and any    *)
(* list of calls: the threads of a host stay together at the barrier, a    *)
(* pointer in shmem_ is followed only while what it points to exists, and  *)
(* no connection is used by two threads at once.                           *)
(*                                                                         *)
(* The argument.  What a thread has still to execute has one of few        *)
(* shapes: ahead of the barrier, spinning at it, running the lambda,       *)
(* leaving.  A thread is inside its call until the barrier lets it pass.   *)
(* All threads of a host have passed the same number of barriers, so those *)
(* inside are in the same call; waiting_ counts those that spin, so that   *)
(* the last to arrive runs the lambda while all others spin; and counter   *)
(* and generation_ differ by one exactly for the threads that have handed  *)
(* their items on in the present call of Predecessor.                      *)
(***************************************************************************)
EXTENDS FlowControl, SumTheorems

-----------------------------------------------------------------------------
(* Sequences, and the collectives of Group.                                *)

\* A sequence, of whatever elements.
IsSeq(s) == s \in Seq({s[i] : i \in DOMAIN s})

\* Length, domain and emptiness of a sequence.
LEMMA SeqFacts ==
    ASSUME NEW s, IsSeq(s)
    PROVE  /\ Len(s) \in Nat /\ DOMAIN s = 1 .. Len(s)
           /\ s # <<>> <=> Len(s) > 0
  BY DEF IsSeq

\* A function on 1 .. n is a sequence of length n.
LEMMA SeqIntro ==
    ASSUME NEW n \in Nat, NEW s, s = [i \in 1 .. n |-> s[i]]
    PROVE  IsSeq(s) /\ Len(s) = n
<1>1. s \in Seq({s[i] : i \in DOMAIN s})
  BY SMT
<1> QED BY <1>1 DEF IsSeq

\* An element of Seq(S) is a sequence.
LEMMA SeqAny ==
    ASSUME NEW S, NEW s \in Seq(S)
    PROVE  IsSeq(s)
<1>1. s = [i \in 1 .. Len(s) |-> s[i]] /\ Len(s) \in Nat
  OBVIOUS
<1> QED BY <1>1, SeqIntro

\* Head and tail of a sequence.
LEMMA TailFacts ==
    ASSUME NEW s, IsSeq(s), s # <<>>
    PROVE  /\ IsSeq(Tail(s)) /\ Len(Tail(s)) = Len(s) - 1 /\ Head(s) = s[1]
           /\ \A i \in 1 .. Len(s) - 1 : Tail(s)[i] = s[i + 1]
<1> DEFINE S == {s[i] : i \in DOMAIN s}
<1>1. s \in Seq(S)
  BY DEF IsSeq
<1> HIDE DEF S
<1>2. Tail(s) \in Seq(S) /\ Len(Tail(s)) = Len(s) - 1 /\ Head(s) = s[1]
  BY <1>1
<1>3. \A i \in 1 .. Len(s) - 1 : Tail(s)[i] = s[i + 1]
  BY <1>1
<1>4. IsSeq(Tail(s))
  BY <1>2, SeqAny
<1> QED BY <1>2, <1>3, <1>4

\* The concatenation of two sequences.
LEMMA ConcatFacts ==
    ASSUME NEW s, NEW t, IsSeq(s), IsSeq(t)
    PROVE  /\ IsSeq(s \o t) /\ Len(s \o t) = Len(s) + Len(t)
           /\ \A i \in 1 .. Len(s) + Len(t) :
                 (s \o t)[i] = IF i <= Len(s) THEN s[i] ELSE t[i - Len(s)]
<1> DEFINE S == {s[i] : i \in DOMAIN s} \cup {t[i] : i \in DOMAIN t}
<1>1. s \in Seq(S) /\ t \in Seq(S)
  BY SeqFacts DEF IsSeq
<1> HIDE DEF S
<1>2. s \o t \in Seq(S) /\ Len(s \o t) = Len(s) + Len(t)
  BY <1>1
<1>3. \A i \in 1 .. Len(s) + Len(t) : (s \o t)[i] = IF i <= Len(s) THEN s[i] ELSE t[i - Len(s)]
  BY <1>1
<1>4. IsSeq(s \o t)
  BY <1>2, SeqAny
<1> QED BY <1>2, <1>3, <1>4

\* The empty sequence and those of one element.
LEMMA UnitFacts ==
    /\ IsSeq(<<>>) /\ Len(<<>>) = 0
    /\ \A x : IsSeq(<<x>>) /\ Len(<<x>>) = 1 /\ <<x>>[1] = x
  BY DEF IsSeq

\* What FlattenSeq computes for its first i lists, from its values g for fewer.
FlattenStep(seqs, g, i) == IF i = 1 THEN seqs[i] ELSE g[i - 1] \o seqs[i]

\* The recursion that defines FlattenSeq has a solution.
LEMMA FlattenExists ==
    ASSUME NEW seqs, IsSeq(seqs)
    PROVE  \E g : g = [i \in 1 .. Len(seqs) |-> FlattenStep(seqs, g, i)]
<1> DEFINE Upto(n) == \E g : \A i \in 1 .. n : g[i] = FlattenStep(seqs, g, i)
           Bad == {n \in Nat : ~ Upto(n)}
<1>1. Bad = {}
  <2> SUFFICES ASSUME Bad # {} PROVE FALSE
    OBVIOUS
  <2>1. PICK m \in Bad : \A k \in Bad : m <= k
    <3>1. Bad \subseteq Nat
      OBVIOUS
    <3> HIDE DEF Bad
    <3> QED BY <3>1, LeastNat
  <2>2. m # 0
    OBVIOUS
  <2>3. m - 1 \in Nat /\ m - 1 \notin Bad
    BY <2>1, <2>2
  <2>4. PICK g : \A i \in 1 .. m - 1 : g[i] = FlattenStep(seqs, g, i)
    BY <2>3
  <2> DEFINE h == [i \in 1 .. m |-> IF i < m THEN g[i] ELSE FlattenStep(seqs, g, i)]
  <2>5. \A i \in 1 .. m : h[i] = FlattenStep(seqs, g, i)
    BY <2>4
  <2>6. \A i \in 1 .. m : FlattenStep(seqs, g, i) = FlattenStep(seqs, h, i)
    <3> TAKE i \in 1 .. m
    <3>1. CASE i = 1
      BY <3>1 DEF FlattenStep
    <3>2. CASE i # 1
      <4>1. h[i - 1] = g[i - 1]
        BY <3>2, <2>3
      <4> HIDE DEF h
      <4> QED BY <3>2, <4>1 DEF FlattenStep
    <3> QED BY <3>1, <3>2
  <2>7. Upto(m)
    <3> HIDE DEF h
    <3> QED BY <2>5, <2>6
  <2> QED BY <2>1, <2>7
<1>2. PICK g : \A i \in 1 .. Len(seqs) : g[i] = FlattenStep(seqs, g, i)
  BY <1>1, SeqFacts
<1> DEFINE h == [i \in 1 .. Len(seqs) |-> g[i]]
<1>3. \A i \in 1 .. Len(seqs) : FlattenStep(seqs, g, i) = FlattenStep(seqs, h, i)
  <2> TAKE i \in 1 .. Len(seqs)
  <2>1. CASE i = 1
    BY <2>1 DEF FlattenStep
  <2>2. CASE i # 1
    <3>1. h[i - 1] = g[i - 1]
      BY <2>2, SeqFacts
    <3> HIDE DEF h
    <3> QED BY <2>2, <3>1 DEF FlattenStep
  <2> QED BY <2>1, <2>2
<1>4. h = [i \in 1 .. Len(seqs) |-> FlattenStep(seqs, h, i)]
  <2>1. \A i \in 1 .. Len(seqs) : h[i] = FlattenStep(seqs, h, i)
    BY <1>2, <1>3
  <2> DEFINE k == [i \in 1 .. Len(seqs) |-> FlattenStep(seqs, h, i)]
  <2>2. h = k
    BY <2>1
  <2> QED BY <2>2
<1> HIDE DEF h
<1> QED BY <1>4

\* FlattenSeq appends one list after the other.
LEMMA FlattenUnfolds ==
    ASSUME NEW seqs, IsSeq(seqs), Len(seqs) # 0
    PROVE  \E g : /\ FlattenSeq(seqs) = g[Len(seqs)]
                  /\ \A i \in 1 .. Len(seqs) : g[i] = FlattenStep(seqs, g, i)
<1> DEFINE sol == CHOOSE g : g = [i \in 1 .. Len(seqs) |-> FlattenStep(seqs, g, i)]
<1>1. sol = [i \in 1 .. Len(seqs) |-> FlattenStep(seqs, sol, i)]
  BY FlattenExists, Zenon
<1>2. FlattenSeq(seqs) = sol[Len(seqs)]
  BY Zenon DEF FlattenSeq, FlattenStep
<1>3. \A i \in 1 .. Len(seqs) : sol[i] = FlattenStep(seqs, sol, i)
  <2> HIDE DEF sol
  <2> QED BY <1>1
<1> HIDE DEF sol
<1> QED BY <1>2, <1>3

\* What a collective of Group is made of: communication and computations of
\* the thread alone.
GroupOK(x) == x.do \in Sends \cup Receives \cup {"flush"} \/ (x.do = "calc" /\ x.f \notin GatherScatters)
\* A list of such instructions.
GroupSeq(s) == IsSeq(s) /\ \A i \in 1 .. Len(s) : GroupOK(s[i])

\* The lists are closed under concatenation,
LEMMA GroupConcat ==
    ASSUME NEW s, NEW t, GroupSeq(s), GroupSeq(t)
    PROVE  GroupSeq(s \o t)
<1> DEFINE n == Len(s \o t)
<1>1. IsSeq(s) /\ IsSeq(t)
  BY DEF GroupSeq
<1>2. Len(s) \in Nat /\ Len(t) \in Nat
  BY <1>1, SeqFacts
<1>3. \A i \in 1 .. Len(s \o t) : GroupOK((s \o t)[i])
  BY <1>1, <1>2, ConcatFacts DEF GroupSeq
<1> QED BY <1>1, <1>3, ConcatFacts DEF GroupSeq

\* and under FlattenSeq.
LEMMA GroupFlatten ==
    ASSUME NEW seqs, IsSeq(seqs), \A i \in 1 .. Len(seqs) : GroupSeq(seqs[i])
    PROVE  GroupSeq(FlattenSeq(seqs))
<1>1. CASE Len(seqs) = 0
  <2>1. FlattenSeq(seqs) = seqs
    BY <1>1 DEF FlattenSeq
  <2> QED BY <1>1, <2>1 DEF GroupSeq
<1>2. CASE Len(seqs) # 0
  <2>1. PICK g : /\ FlattenSeq(seqs) = g[Len(seqs)]
                 /\ \A i \in 1 .. Len(seqs) : g[i] = FlattenStep(seqs, g, i)
    BY <1>2, FlattenUnfolds
  <2>2. Len(seqs) \in Nat
    BY SeqFacts
  <2> DEFINE Bad == {i \in 1 .. Len(seqs) : ~ GroupSeq(g[i])}
  <2>3. Bad = {}
    <3> SUFFICES ASSUME Bad # {} PROVE FALSE
      OBVIOUS
    <3>1. PICK m \in Bad : \A k \in Bad : m <= k
      <4>1. Bad \subseteq Nat
        BY <2>2
      <4> HIDE DEF Bad
      <4> QED BY <4>1, LeastNat
    <3>2. CASE m = 1
      BY <3>1, <3>2, <2>1, <2>2 DEF FlattenStep
    <3>3. CASE m # 1
      <4>1. m - 1 \in 1 .. Len(seqs) /\ m - 1 \notin Bad
        BY <3>1, <3>3, <2>2
      <4>2. g[m] = g[m - 1] \o seqs[m]
        BY <3>3, <2>1 DEF FlattenStep
      <4> QED BY <4>1, <4>2, GroupConcat
    <3> QED BY <3>2, <3>3
  <2> QED BY <2>1, <2>2, <2>3, <1>2
<1> QED BY <1>1, <1>2

\* The empty list, lists of one instruction, and optional ones.
LEMMA GroupUnits ==
    /\ GroupSeq(<<>>)
    /\ \A x : GroupOK(x) => GroupSeq(<<x>>)
    /\ \A c, s : GroupSeq(s) => GroupSeq(When(c, s))
<1>1. GroupSeq(<<>>) /\ \A x : GroupOK(x) => GroupSeq(<<x>>)
  BY UnitFacts DEF GroupSeq
<1>2. \A c, s : GroupSeq(s) => GroupSeq(When(c, s))
  BY <1>1 DEF When
<1> QED BY <1>1, <1>2

\* The instructions of module Collectives are of this kind.
LEMMA GroupInstructions ==
    /\ \A p, r : GroupSeq(<<SendTo(p, r)>>)
    /\ \A p, r : GroupSeq(<<ReceiveFrom(p, r)>>)
    /\ \A p, i, n : GroupSeq(<<SendN(p, i, n)>>)
    /\ \A p, i, n : GroupSeq(<<ReceiveN(p, i, n)>>)
    /\ \A f : f \notin GatherScatters => GroupSeq(<<Calc(f)>>)
<1>1. /\ \A p, r : GroupOK(SendTo(p, r)) /\ GroupOK(ReceiveFrom(p, r))
      /\ \A p, i, n : GroupOK(SendN(p, i, n)) /\ GroupOK(ReceiveN(p, i, n))
      /\ \A f : f \notin GatherScatters => GroupOK(Calc(f))
  BY DEF GroupOK, SendTo, ReceiveFrom, SendN, ReceiveN, Calc, Sends, Receives
<1> QED BY <1>1, GroupUnits

\* A sequence of two elements.
LEMMA PairFacts ==
    ASSUME NEW x, NEW y
    PROVE  IsSeq(<<x, y>>) /\ Len(<<x, y>>) = 2 /\ <<x, y>>[1] = x /\ <<x, y>>[2] = y
  BY DEF IsSeq

\* A list of two such instructions.
LEMMA GroupPair ==
    ASSUME NEW x, NEW y, GroupSeq(<<x>>), GroupSeq(<<y>>)
    PROVE  GroupSeq(<<x, y>>)
<1>1. GroupOK(x) /\ GroupOK(y)
  BY UnitFacts DEF GroupSeq
<1> QED BY <1>1, PairFacts DEF GroupSeq

\* The number of rounds of a collective.
LEMMA RoundsType == ASSUME NEW n \in Nat PROVE Rounds(n) \in Nat
<1> DEFINE S == {j \in 0 .. n : 2 ^ j < n}
<1>1. IsFiniteSet(0 .. n) /\ S \subseteq 0 .. n
  BY FS_Interval
<1>2. IsFiniteSet(S)
  <2> HIDE DEF S
  <2> QED BY <1>1, FS_Subset
<1> QED BY <1>2, FS_CardinalityType DEF Rounds

\* What a loop over rounds is made of.
LEMMA GroupRounds ==
    ASSUME NEW n \in Nat, NEW f, f = [j \in 1 .. Rounds(n) |-> f[j]],
           \A j \in 1 .. Rounds(n) : GroupSeq(f[j])
    PROVE  GroupSeq(FlattenSeq(f))
<1>1. IsSeq(f) /\ Len(f) = Rounds(n)
  BY RoundsType, SeqIntro
<1>2. \A i \in 1 .. Len(f) : GroupSeq(f[i])
  BY <1>1
<1> QED BY <1>1, <1>2, GroupFlatten

\* PrefixSumDoubling.
LEMMA GroupPrefix ==
    ASSUME NEW n \in Nat, NEW h, NEW inclusive
    PROVE  GroupSeq(PrefixSumDoubling(h, n, inclusive))
<1> DEFINE P(d) ==
         When(h + d < n, <<SendTo(h + d, "fwd")>>)
         \o When(h >= d, <<ReceiveFrom(h - d,
                             [sum |-> IF inclusive \/ d > 1 THEN "front" ELSE "set",
                              fwd |-> "front"])>>)
           f == [j \in 1 .. Rounds(n) |-> P(2 ^ (j - 1))]
<1>1. \A j \in 1 .. Rounds(n) : GroupSeq(f[j])
  <2>1. ASSUME NEW d PROVE GroupSeq(P(d))
    BY GroupInstructions, GroupUnits, GroupConcat
  <2> HIDE DEF P
  <2> QED BY <2>1
<1>2. GroupSeq(FlattenSeq(f))
  <2> HIDE DEF P
  <2>1. f = [j \in 1 .. Rounds(n) |-> f[j]]
    OBVIOUS
  <2> HIDE DEF f
  <2> QED BY <1>1, <2>1, GroupRounds
<1> QED BY <1>2, GroupInstructions, GroupUnits, GroupConcat DEF PrefixSumDoubling, EachRound, GatherScatters

\* PrefixSumHypercube.
LEMMA GroupHypercube ==
    ASSUME NEW n \in Nat, NEW h
    PROVE  GroupSeq(PrefixSumHypercube(h, n))
<1> DEFINE P(d) ==
         When(Flip(h, d) < n,
           <<SendTo(Flip(h, d), "fwd"),
             ReceiveFrom(Flip(h, d),
               IF Bit(h, d) THEN [sum |-> "front", fwd |-> "front"]
                            ELSE [fwd |-> "back"])>>)
           f == [j \in 1 .. Rounds(n) |-> P(2 ^ (j - 1))]
<1>1. \A j \in 1 .. Rounds(n) : GroupSeq(f[j])
  <2>1. ASSUME NEW d PROVE GroupSeq(P(d))
    BY GroupInstructions, GroupUnits, GroupConcat, GroupPair
  <2> HIDE DEF P
  <2> QED BY <2>1
<1>2. GroupSeq(FlattenSeq(f))
  <2> HIDE DEF P
  <2>1. f = [j \in 1 .. Rounds(n) |-> f[j]]
    OBVIOUS
  <2> HIDE DEF f
  <2> QED BY <1>1, <2>1, GroupRounds
<1> QED BY <1>2, GroupInstructions, GroupConcat DEF PrefixSumHypercube, EachRound, GatherScatters

\* BroadcastTrivial.
LEMMA GroupTrivial ==
    ASSUME NEW n \in Nat, NEW h, NEW origin
    PROVE  GroupSeq(BroadcastTrivial(h, n, origin))
<1> DEFINE f == [p \in 1 .. n |-> When(p - 1 # origin, <<SendTo(p - 1, "sum")>>)]
<1>1. IsSeq(f) /\ Len(f) = n
  BY SeqIntro
<1>2. \A i \in 1 .. Len(f) : GroupSeq(f[i])
  BY <1>1, GroupInstructions, GroupUnits
<1>3. GroupSeq(FlattenSeq(f))
  <2> HIDE DEF f
  <2> QED BY <1>1, <1>2, GroupFlatten
<1> QED BY <1>3, GroupInstructions DEF BroadcastTrivial

\* BroadcastBinomialTree.
LEMMA GroupBinomial ==
    ASSUME NEW n \in Nat, NEW h, NEW origin
    PROVE  GroupSeq(BroadcastBinomialTree(h, n, origin))
<1> DEFINE P(d) ==
         When(d < (IF (h + n - origin) % n = 0 THEN 2 ^ Rounds(n) ELSE LowBit((h + n - origin) % n))
                /\ ((h + n - origin) % n) + d < n,
              <<SendTo((((h + n - origin) % n) + d + origin) % n, "sum")>>)
           f == [j \in 1 .. Rounds(n) |-> P(2 ^ (Rounds(n) - j))]
<1>1. \A j \in 1 .. Rounds(n) : GroupSeq(f[j])
  <2>1. ASSUME NEW d PROVE GroupSeq(P(d))
    BY GroupInstructions, GroupUnits, GroupConcat
  <2> HIDE DEF P
  <2> QED BY <2>1
<1>2. GroupSeq(FlattenSeq(f))
  <2> HIDE DEF P
  <2>1. f = [j \in 1 .. Rounds(n) |-> f[j]]
    OBVIOUS
  <2> HIDE DEF f
  <2> QED BY <1>1, <2>1, GroupRounds
<1> QED BY <1>2, GroupInstructions, GroupUnits, GroupConcat DEF BroadcastBinomialTree, EachRoundDown

\* Reduce.
LEMMA GroupReduce ==
    ASSUME NEW n \in Nat, NEW h, NEW root
    PROVE  GroupSeq(Reduce(h, n, root))
<1> DEFINE P(d) ==
         IF d = (IF (h + n - root) % n = 0 THEN n ELSE LowBit((h + n - root) % n))
         THEN <<SendTo((h + n - d) % n, "sum")>>
         ELSE When(d < (IF (h + n - root) % n = 0 THEN n ELSE LowBit((h + n - root) % n))
                     /\ ((h + n - root) % n) + d < n,
                   <<ReceiveFrom((h + d) % n, [sum |-> "back"])>>)
           f == [j \in 1 .. Rounds(n) |-> P(2 ^ (j - 1))]
<1>1. \A j \in 1 .. Rounds(n) : GroupSeq(f[j])
  <2>1. ASSUME NEW d PROVE GroupSeq(P(d))
    BY GroupInstructions, GroupUnits, GroupConcat
  <2> HIDE DEF P
  <2> QED BY <2>1
<1>2. GroupSeq(FlattenSeq(f))
  <2> HIDE DEF P
  <2>1. f = [j \in 1 .. Rounds(n) |-> f[j]]
    OBVIOUS
  <2> HIDE DEF f
  <2> QED BY <1>1, <2>1, GroupRounds
<1> QED BY <1>2, Zenon DEF Reduce, EachRound

\* SendReceiveReduce.
LEMMA GroupExchange ==
    ASSUME NEW h, NEW p
    PROVE  GroupSeq(SendReceiveReduce(h, p))
<1>1. <<ReceiveFrom(p, [tmp |-> "set"]), SendTo(p, "sum"), Calc("join")>>
        = <<ReceiveFrom(p, [tmp |-> "set"]), SendTo(p, "sum")>> \o <<Calc("join")>>
  OBVIOUS
<1> QED BY <1>1, GroupInstructions, GroupPair, GroupConcat DEF SendReceiveReduce, GatherScatters

\* AllReduceHypercube.
LEMMA GroupAllReduceHypercube ==
    ASSUME NEW n \in Nat, NEW h
    PROVE  GroupSeq(AllReduceHypercube(h, n))
<1> DEFINE P(d) ==
         When(Flip(h, d) < n, SendReceiveReduce(h, Flip(h, d)))
           f == [j \in 1 .. Rounds(n) |-> P(2 ^ (j - 1))]
<1>1. \A j \in 1 .. Rounds(n) : GroupSeq(f[j])
  <2>1. ASSUME NEW d PROVE GroupSeq(P(d))
    BY GroupExchange, GroupUnits
  <2> HIDE DEF P
  <2> QED BY <2>1
<1>2. GroupSeq(FlattenSeq(f))
  <2> HIDE DEF P
  <2>1. f = [j \in 1 .. Rounds(n) |-> f[j]]
    OBVIOUS
  <2> HIDE DEF f
  <2> QED BY <1>1, <2>1, GroupRounds
<1> QED BY <1>2, Zenon DEF AllReduceHypercube, EachRound

\* AllReduceAtRoot.
LEMMA GroupAtRoot ==
    ASSUME NEW n \in Nat \ {0}, NEW h
    PROVE  GroupSeq(AllReduceAtRoot(h, n))
<1> DEFINE r == [p \in 1 .. n - 1 |-> ReceiveFrom(p, [sum |-> "back"])]
           t == [p \in 1 .. n - 1 |-> SendTo(p, "sum")]
<1>1. GroupSeq(r)
  <2>1. IsSeq(r) /\ Len(r) = n - 1
    BY SeqIntro
  <2>2. \A i \in 1 .. n - 1 : GroupOK(r[i])
    BY DEF GroupOK, ReceiveFrom, Receives
  <2> HIDE DEF r
  <2> QED BY <2>1, <2>2 DEF GroupSeq
<1>2. GroupSeq(t)
  <2>1. IsSeq(t) /\ Len(t) = n - 1
    BY SeqIntro
  <2>2. \A i \in 1 .. n - 1 : GroupOK(t[i])
    BY DEF GroupOK, SendTo, Sends
  <2> HIDE DEF t
  <2> QED BY <2>1, <2>2 DEF GroupSeq
<1>3. GroupSeq(r \o t)
  <2> HIDE DEF r, t
  <2> QED BY <1>1, <1>2, GroupConcat
<1>4. GroupSeq(<<SendTo(0, "sum"), ReceiveFrom(0, [sum |-> "set"])>>)
  BY GroupInstructions, GroupPair
<1> QED BY <1>3, <1>4 DEF AllReduceAtRoot

\* One level of AllReduceElimination,
LEMMA GroupLevel ==
    ASSUME NEW n, NEW h, NEW d
    PROVE  GroupSeq(EliminationLevel(h, n, d))
<1>1. \A p, q : GroupSeq(<<SendTo(p, "sum"), ReceiveFrom(q, [sum |-> "set"])>>)
  BY GroupInstructions, GroupPair
<1>2. \A p, x, q : GroupSeq(<<ReceiveFrom(p, x)>> \o SendReceiveReduce(h, q))
  BY GroupInstructions, GroupExchange, GroupConcat
<1>3. \A c, q : GroupSeq(When(c, SendReceiveReduce(h, q))) /\ GroupSeq(SendReceiveReduce(h, q))
  BY GroupExchange, GroupUnits
<1> QED BY <1>1, <1>2, <1>3 DEF EliminationLevel

\* all its levels,
LEMMA GroupLevels ==
    ASSUME NEW n \in Nat, NEW h
    PROVE  GroupSeq(FlattenSeq([j \in 1 .. Rounds(n) |->
               When(n \div 2 ^ (j - 1) >= 2, EliminationLevel(h, n, 2 ^ (j - 1)))]))
<1> DEFINE P(d) ==
         When(n \div d >= 2, EliminationLevel(h, n, d))
           f == [j \in 1 .. Rounds(n) |-> P(2 ^ (j - 1))]
<1>1. \A j \in 1 .. Rounds(n) : GroupSeq(f[j])
  <2>1. ASSUME NEW d PROVE GroupSeq(P(d))
    BY GroupLevel, GroupUnits
  <2> HIDE DEF P
  <2> QED BY <2>1
<1>2. GroupSeq(FlattenSeq(f))
  <2> HIDE DEF P
  <2>1. f = [j \in 1 .. Rounds(n) |-> f[j]]
    OBVIOUS
  <2> HIDE DEF f
  <2> QED BY <1>1, <2>1, GroupRounds
<1> QED BY <1>2, Zenon

\* the way back,
LEMMA GroupEliminated ==
    ASSUME NEW n \in Nat, NEW h
    PROVE  GroupSeq(FlattenSeq([j \in 1 .. Rounds(n) |-> SendToEliminated(h, n, 2 ^ (j - 1))]))
<1> DEFINE P(d) ==
         SendToEliminated(h, n, d)
           f == [j \in 1 .. Rounds(n) |-> P(2 ^ (j - 1))]
<1>1. \A j \in 1 .. Rounds(n) : GroupSeq(f[j])
  <2>1. ASSUME NEW d PROVE GroupSeq(P(d))
    BY GroupInstructions, GroupUnits DEF SendToEliminated
  <2> HIDE DEF P
  <2> QED BY <2>1
<1>2. GroupSeq(FlattenSeq(f))
  <2> HIDE DEF P
  <2>1. f = [j \in 1 .. Rounds(n) |-> f[j]]
    OBVIOUS
  <2> HIDE DEF f
  <2> QED BY <1>1, <2>1, GroupRounds
<1> QED BY <1>2, Zenon

\* and the whole.
LEMMA GroupElimination ==
    ASSUME NEW n \in Nat, NEW h
    PROVE  GroupSeq(AllReduceElimination(h, n))
  BY GroupLevels, GroupEliminated, GroupConcat DEF AllReduceElimination, EachRound

\* AllGatherRecursiveDoublingPowerOfTwo.
LEMMA GroupDoubling ==
    ASSUME NEW n \in Nat, NEW h, NEW m
    PROVE  GroupSeq(AllGatherRecursiveDoublingPowerOfTwo(h, n, m))
<1> DEFINE P(d) ==
         <<SendN(Flip(h, d), (h - (h % d)) * m, d * m),
           ReceiveN(Flip(h, d), (Flip(h, d) - (Flip(h, d) % d)) * m, d * m)>>
           f == [j \in 1 .. Rounds(n) |-> P(2 ^ (j - 1))]
<1>1. \A j \in 1 .. Rounds(n) : GroupSeq(f[j])
  <2>1. ASSUME NEW d PROVE GroupSeq(P(d))
    BY GroupInstructions, GroupPair
  <2> HIDE DEF P
  <2> QED BY <2>1
<1>2. GroupSeq(FlattenSeq(f))
  <2> HIDE DEF P
  <2>1. f = [j \in 1 .. Rounds(n) |-> f[j]]
    OBVIOUS
  <2> HIDE DEF f
  <2> QED BY <1>1, <2>1, GroupRounds
<1> QED BY <1>2, Zenon DEF AllGatherRecursiveDoublingPowerOfTwo, EachRound

\* AllGatherBruck.
LEMMA GroupBruck ==
    ASSUME NEW n \in Nat, NEW h, NEW m
    PROVE  GroupSeq(AllGatherBruck(h, n, m))
<1> DEFINE P(d) ==
         LET len == IF d * m < n * m - d * m THEN d * m ELSE n * m - d * m
             snd == SendN((h + n - d) % n, 0, len)
             rcv == ReceiveN((h + d) % n, d * m, len)
         IN  IF Bit(h, d) THEN <<rcv, snd>> ELSE <<snd, rcv>>
           f == [j \in 1 .. Rounds(n) |-> P(2 ^ (j - 1))]
<1>1. \A j \in 1 .. Rounds(n) : GroupSeq(f[j])
  <2>1. ASSUME NEW d PROVE GroupSeq(P(d))
    BY GroupInstructions, GroupPair
  <2> HIDE DEF P
  <2> QED BY <2>1
<1>2. GroupSeq(FlattenSeq(f))
  <2> HIDE DEF P
  <2>1. f = [j \in 1 .. Rounds(n) |-> f[j]]
    OBVIOUS
  <2> HIDE DEF f
  <2> QED BY <1>1, <2>1, GroupRounds
<1> QED BY <1>2, GroupInstructions, GroupConcat DEF AllGatherBruck, EachRound, GatherScatters

-----------------------------------------------------------------------------
(* Lambdas, and the code with which a call begins.                         *)

\* The calls in which every thread sets its pointer in shmem_.
Sharing == {"PrefixSum", "ExPrefixSum", "ExPrefixSumTotal", "AllGather", "Reduce",
            "AllReduce", "Broadcast"}
\* The instructions that use a connection.
Comm == Sends \cup Receives \cup {"flush"}
\* The calls whose threads meet at the barrier.
Meeting == Sharing \cup {"Barrier", "LocalBarrier", "Predecessor"}

\* Code with an instruction `do`,
Has(s, do) == \E i \in 1 .. Len(s) : s[i].do = do
\* and with at most one.
Once(s, do) == \A i, j \in 1 .. Len(s) : s[i].do = do /\ s[j].do = do => i = j

\* What a lambda is made of in call c: only a call with shared pointers follows
\* them, only Predecessor advances generation_.
RunOK(c, x) ==
    \/ x.do \in Comm
    \/ x.do = "calc" /\ (x.f \in GatherScatters => c.op \in Sharing)
    \/ x.do = "generation" /\ c.op = "Predecessor"
\* A list of such instructions.
RunSeq(c, s) == IsSeq(s) /\ \A i \in 1 .. Len(s) : RunOK(c, s[i])

\* A collective of Group may be part of a lambda.
LEMMA RunGroup == ASSUME NEW c, NEW s, GroupSeq(s) PROVE RunSeq(c, s)
  BY DEF GroupSeq, RunSeq, GroupOK, RunOK, Comm

\* Such lists are closed under concatenation.
LEMMA RunConcat ==
    ASSUME NEW c, NEW s, NEW t, RunSeq(c, s), RunSeq(c, t)
    PROVE  RunSeq(c, s \o t)
<1>1. IsSeq(s) /\ IsSeq(t)
  BY DEF RunSeq
<1>2. Len(s) \in Nat /\ Len(t) \in Nat
  BY <1>1, SeqFacts
<1>3. \A i \in 1 .. Len(s \o t) : RunOK(c, (s \o t)[i])
  BY <1>1, <1>2, ConcatFacts DEF RunSeq
<1> QED BY <1>1, <1>3, ConcatFacts DEF RunSeq

\* Lists of one instruction.
LEMMA RunUnits ==
    /\ \A c, f : c.op \in Sharing => RunSeq(c, <<Calc(f)>>)
    /\ \A c, f : f \notin GatherScatters => RunSeq(c, <<Calc(f)>>)
    /\ \A c : c.op = "Predecessor" => RunSeq(c, <<[do |-> "generation"]>>)
    /\ \A c : RunSeq(c, <<>>)
<1>1. \A c, x : RunOK(c, x) => RunSeq(c, <<x>>)
  BY UnitFacts DEF RunSeq
<1>2. /\ \A c, f : c.op \in Sharing => RunOK(c, Calc(f))
      /\ \A c, f : f \notin GatherScatters => RunOK(c, Calc(f))
      /\ \A c : c.op = "Predecessor" => RunOK(c, [do |-> "generation"])
  BY DEF RunOK, Calc
<1>3. \A c : RunSeq(c, <<>>)
  BY UnitFacts DEF RunSeq
<1> QED BY <1>1, <1>2, <1>3

\* The lambda of every call is such a list,
LEMMA LambdaRuns ==
    ASSUME H \in Nat, NEW c, NEW h, c.op \in Meeting
    PROVE  RunSeq(c, Lambda(c, h))
<1>1. \A x, y : RunSeq(c, PrefixSumDoubling(h, H, x)) /\ RunSeq(c, BroadcastBinomialTree(h, H, y))
                /\ RunSeq(c, Reduce(h, H, y)) /\ RunSeq(c, AllReduceElimination(h, H))
                /\ RunSeq(c, AllGatherRecursiveDoublingPowerOfTwo(h, H, y))
                /\ RunSeq(c, AllGatherBruck(h, H, y))
  BY GroupPrefix, GroupBinomial, GroupReduce, GroupElimination, GroupDoubling, GroupBruck, RunGroup
<1>2. CASE c.op = "PrefixSum"
  <2>1. Lambda(c, h) = PrefixSumBase(h, TRUE)
    BY <1>2, Zenon DEF Lambda
  <2>2. \A f : RunSeq(c, <<Calc(f)>>)
    BY <1>2, RunUnits DEF Sharing
  <2> QED BY <1>1, <2>1, <2>2, RunConcat, Zenon DEF PrefixSumBase
<1>3. CASE c.op = "ExPrefixSum"
  <2>1. Lambda(c, h) = PrefixSumBase(h, FALSE)
    BY <1>3, Zenon DEF Lambda
  <2>2. \A f : RunSeq(c, <<Calc(f)>>)
    BY <1>3, RunUnits DEF Sharing
  <2> QED BY <1>1, <2>1, <2>2, RunConcat, Zenon DEF PrefixSumBase
<1>4. CASE c.op = "ExPrefixSumTotal"
  <2>1. Lambda(c, h) = ExPrefixSumTotal(h)
    BY <1>4, Zenon DEF Lambda
  <2>2. \A f : RunSeq(c, <<Calc(f)>>)
    BY <1>4, RunUnits DEF Sharing
  <2> QED BY <1>1, <2>1, <2>2, RunConcat, Zenon DEF ExPrefixSumTotal
<1>5. CASE c.op = "AllGather"
  <2>1. Lambda(c, h) = AllGather(h)
    BY <1>5, Zenon DEF Lambda
  <2>2. \A f : RunSeq(c, <<Calc(f)>>)
    BY <1>5, RunUnits DEF Sharing
  <2> QED BY <1>1, <2>1, <2>2, RunConcat, Zenon DEF AllGather
<1>6. CASE c.op = "Reduce"
  <2>1. Lambda(c, h) = <<Calc("gatherReduce")>> \o Reduce(h, H, c.root \div T) \o <<Calc("scatterRoot")>>
    BY <1>6, Zenon DEF Lambda
  <2>2. \A f : RunSeq(c, <<Calc(f)>>)
    BY <1>6, RunUnits DEF Sharing
  <2> QED BY <1>1, <2>1, <2>2, RunConcat, Zenon
<1>7. CASE c.op = "AllReduce"
  <2>1. Lambda(c, h) = <<Calc("gatherReduce")>> \o AllReduceElimination(h, H) \o <<Calc("scatterAll")>>
    BY <1>7, Zenon DEF Lambda
  <2>2. \A f : RunSeq(c, <<Calc(f)>>)
    BY <1>7, RunUnits DEF Sharing
  <2> QED BY <1>1, <2>1, <2>2, RunConcat, Zenon
<1>8. CASE c.op = "Barrier"
  <2>1. Lambda(c, h) = Barrier(h)
    BY <1>8, Zenon DEF Lambda
  <2> QED BY <1>1, <1>8, <2>1, RunUnits DEF Barrier
<1>9. CASE c.op = "Broadcast"
  <2>1. Lambda(c, h) = <<Calc("copyPrimary")>>
    BY <1>9, Zenon DEF Lambda
  <2>2. \A f : RunSeq(c, <<Calc(f)>>)
    BY <1>9, RunUnits DEF Sharing
  <2> QED BY <1>1, <2>1, <2>2, RunConcat, Zenon
<1>10. CASE c.op = "Predecessor"
  <2>1. Lambda(c, h) = <<[do |-> "generation"]>>
    BY <1>10, Zenon DEF Lambda
  <2> QED BY <1>1, <1>10, <2>1, RunUnits
<1>11. CASE c.op = "LocalBarrier"
  <2>1. Lambda(c, h) = <<>>
    BY <1>11, Zenon DEF Lambda
  <2> QED BY <1>1, <1>11, <2>1, RunUnits
<1> QED BY <1>2, <1>3, <1>4, <1>5, <1>6, <1>7, <1>8, <1>9, <1>10, <1>11 DEF Meeting, Sharing

\* and advances generation_ once, in Predecessor.
LEMMA LambdaGeneration ==
    ASSUME H \in Nat, NEW c, NEW h, c.op \in Meeting
    PROVE  /\ Has(Lambda(c, h), "generation") <=> c.op = "Predecessor"
           /\ Once(Lambda(c, h), "generation")
<1>1. CASE c.op = "Predecessor"
  <2>1. Lambda(c, h) = <<[do |-> "generation"]>>
    BY <1>1 DEF Lambda
  <2> QED BY <1>1, <2>1, UnitFacts DEF Has, Once
<1>2. CASE c.op # "Predecessor"
  <2>1. \A i \in 1 .. Len(Lambda(c, h)) : Lambda(c, h)[i].do # "generation"
    BY <1>2, LambdaRuns DEF RunSeq, RunOK, Comm, Sends, Receives
  <2> QED BY <1>2, <2>1 DEF Has, Once
<1> QED BY <1>1, <1>2

\* The code of a call of Group.
LEMMA GroupCallRuns ==
    ASSUME H \in Nat \ {0}, NEW c, NEW h, c.op \in GroupCalls
    PROVE  GroupSeq(<<Calc("load")>> \o GroupCall(c, h) \o <<Calc("store")>>)
<1>1. GroupSeq(GroupCall(c, h))
  <2>1. CASE c.op = "GroupPrefixSum"
    <3>1. GroupCall(c, h) = PrefixSumDoubling(h, H, TRUE)
      BY <2>1, Zenon DEF GroupCall
    <3> QED BY <3>1, GroupPrefix
  <2>2. CASE c.op = "PrefixSumHypercube"
    <3>1. GroupCall(c, h) = PrefixSumHypercube(h, H)
      BY <2>2, Zenon DEF GroupCall
    <3> QED BY <3>1, GroupHypercube
  <2>3. CASE c.op = "BroadcastTrivial"
    <3>1. GroupCall(c, h) = BroadcastTrivial(h, H, c.root)
      BY <2>3, Zenon DEF GroupCall
    <3> QED BY <3>1, GroupTrivial
  <2>4. CASE c.op = "AllReduceSimple"
    <3>1. GroupCall(c, h) = AllReduceSimple(h, H)
      BY <2>4, Zenon DEF GroupCall
    <3> QED BY <3>1, GroupReduce, GroupBinomial, GroupConcat DEF AllReduceSimple
  <2>5. CASE c.op = "AllReduceAtRoot"
    <3>1. GroupCall(c, h) = AllReduceAtRoot(h, H)
      BY <2>5, Zenon DEF GroupCall
    <3> QED BY <3>1, GroupAtRoot
  <2>6. CASE c.op = "AllReduceHypercube"
    <3>1. GroupCall(c, h) = AllReduceHypercube(h, H)
      BY <2>6, Zenon DEF GroupCall
    <3> QED BY <3>1, GroupAllReduceHypercube
  <2> QED BY <2>1, <2>2, <2>3, <2>4, <2>5, <2>6 DEF GroupCalls
<1>2. GroupSeq(<<Calc("load")>>) /\ GroupSeq(<<Calc("store")>>)
  BY GroupInstructions DEF GatherScatters
<1> QED BY <1>1, <1>2, GroupConcat

\* What thread w executes ahead of the barrier in call c, with n threads on its
\* host: the connections it may use are told apart here.
AheadOK(c, w, n, x) ==
    \/ x.do = "share" /\ c.op \in Sharing \cup {"Predecessor"}
    \/ x.do = "calc" /\ x.f \notin GatherScatters
    \/ x.do \in Comm /\ c.op = "Broadcast" /\ w[2] = c.root % n
    \/ /\ x.do \in Comm /\ c.op = "Predecessor"
       /\ \/ x.do \notin Receives /\ w[2] = n - 1 /\ x.peer = w[1] + 1
          \/ x.do \in Receives /\ w[2] = 0 /\ x.peer = w[1] - 1
    \/ x.do \in {"count", "await", "fetch"} /\ c.op = "Predecessor" /\ (x.do # "count" => w[2] # 0)
\* Code with the barrier still ahead.
AheadCode(c, w, n, s) ==
    /\ Len(s) >= 2 /\ s[Len(s)].do = "return" /\ s[Len(s) - 1].do = "barrier"
    /\ \A i \in 1 .. Len(s) - 2 : AheadOK(c, w, n, s[i])

\* What is known of the code with which a call begins.
Ordered(s) == \A i \in 1 .. Len(s) : s[i].do = "share" =>
                 \E j \in i + 1 .. Len(s) : s[j].do = "count"
\* The predecessor's items are taken after its counter was awaited.
Behind(s) == \A i, j \in 1 .. Len(s) : s[i].do = "fetch" /\ s[j].do = "await" => j < i
\* All of this, of the code with which thread w enters call c.
Enters(c, w, n, s) ==
    /\ IsSeq(s) /\ AheadCode(c, w, n, s)
    /\ c.op \in Sharing => Has(s, "share")
    /\ c.op = "Predecessor" => /\ w[2] + 1 # n => Has(s, "share")
                               /\ Has(s, "count") /\ Ordered(s)
    /\ Once(s, "count") /\ ~Has(s, "generation")
    /\ Has(s, "fetch") => Has(s, "await")
    /\ Behind(s)

\* The instruction that ends a call.
ReturnI == [do |-> "return"]

\* Barrier and LocalBarrier.
LEMMA EntersBarrier ==
    ASSUME NEW c, NEW w, NEW n, c.op \in {"Barrier", "LocalBarrier"}
    PROVE  Enters(c, w, n, CodeOf(w, c) \o <<ReturnI>>)
<1> DEFINE s == CodeOf(w, c) \o <<ReturnI>>
<1>1. CodeOf(w, c) = <<Wait>>
  BY DEF CodeOf, GroupCalls
<1>2. IsSeq(s) /\ Len(s) = 2 /\ s[1].do = "barrier" /\ s[2].do = "return"
  BY <1>1, UnitFacts, ConcatFacts DEF Wait, ReturnI
<1> HIDE DEF s
<1>3. Enters(c, w, n, s)
  BY <1>2 DEF Enters, AheadCode, Has, Once, Behind, Sharing
<1> QED BY <1>3 DEF s

\* The calls whose communication is in the lambda.
LEMMA EntersShared ==
    ASSUME NEW c, NEW w, NEW n, c.op \in Sharing \ {"Broadcast"}
    PROVE  Enters(c, w, n, CodeOf(w, c) \o <<ReturnI>>)
<1> DEFINE s == CodeOf(w, c) \o <<ReturnI>>
<1>1. CodeOf(w, c) = <<SetShared("local"), Wait>>
  BY DEF CodeOf, Sharing, GroupCalls
<1>2. IsSeq(s) /\ Len(s) = 3 /\ s[1].do = "share" /\ s[2].do = "barrier" /\ s[3].do = "return"
  BY <1>1, UnitFacts, PairFacts, ConcatFacts DEF Wait, ReturnI, SetShared
<1> HIDE DEF s
<1>3. Enters(c, w, n, s)
  BY <1>2 DEF Enters, AheadCode, AheadOK, Has, Once, Behind, Sharing
<1> QED BY <1>3 DEF s

\* Broadcast: one thread communicates ahead of the barrier.
LEMMA EntersBroadcast ==
    ASSUME H \in Nat, NEW c, NEW w, c.op = "Broadcast"
    PROVE  Enters(c, w, T, CodeOf(w, c) \o <<ReturnI>>)
<1> DEFINE mid == When(w[2] = c.root % T,
            <<Calc("load")>> \o BroadcastBinomialTree(w[1], H, c.root \div T)
            \o <<Calc("store")>>)
           s == CodeOf(w, c) \o <<ReturnI>>
<1>1. CodeOf(w, c) = <<SetShared("local")>> \o mid \o <<Wait>>
  <2>1. CodeOf(w, c) = Broadcast(w, c)
    BY DEF CodeOf, GroupCalls
  <2> QED BY <2>1, Zenon DEF Broadcast
<1>2. GroupSeq(mid)
  <2>1. GroupSeq(<<Calc("load")>>) /\ GroupSeq(<<Calc("store")>>)
    BY GroupInstructions DEF GatherScatters
  <2> QED BY <2>1, GroupBinomial, GroupConcat, GroupUnits, Zenon
<1>3. w[2] # c.root % T => mid = <<>>
  BY DEF When
<1> HIDE DEF mid
<1>4. IsSeq(mid) /\ Len(mid) \in Nat /\ (w[2] # c.root % T => Len(mid) = 0)
  BY <1>2, <1>3, SeqFacts, UnitFacts DEF GroupSeq
<1> DEFINE a == <<SetShared("local")>> \o mid
<1>5. /\ IsSeq(a) /\ Len(a) = Len(mid) + 1 /\ a[1].do = "share"
      /\ \A i \in 2 .. Len(mid) + 1 : a[i] = mid[i - 1]
  BY <1>4, UnitFacts, ConcatFacts DEF SetShared
<1> DEFINE b == a \o <<Wait>>
<1> HIDE DEF a
<1>6. /\ IsSeq(b) /\ Len(b) = Len(mid) + 2 /\ b[1].do = "share" /\ b[Len(mid) + 2].do = "barrier"
      /\ \A i \in 2 .. Len(mid) + 1 : b[i] = mid[i - 1]
  BY <1>4, <1>5, UnitFacts, ConcatFacts DEF Wait
<1>7. s = b \o <<ReturnI>>
  BY <1>1 DEF a
<1> HIDE DEF b, s
<1>8. /\ IsSeq(s) /\ Len(s) = Len(mid) + 3 /\ s[1].do = "share"
      /\ s[Len(mid) + 2].do = "barrier" /\ s[Len(mid) + 3].do = "return"
      /\ \A i \in 2 .. Len(mid) + 1 : s[i] = mid[i - 1]
  BY <1>4, <1>6, <1>7, UnitFacts, ConcatFacts DEF ReturnI
<1>9. \A i \in 2 .. Len(mid) + 1 : GroupOK(s[i]) /\ w[2] = c.root % T
  BY <1>2, <1>4, <1>8 DEF GroupSeq
<1>10. \A i \in 1 .. Len(mid) + 3 : s[i].do \notin {"count", "generation", "fetch"}
  BY <1>4, <1>8, <1>9 DEF GroupOK, Sends, Receives
<1>11. \A i \in 1 .. Len(mid) + 1 : AheadOK(c, w, T, s[i])
  BY <1>4, <1>8, <1>9 DEF AheadOK, GroupOK, Sharing, Comm
<1>12. Enters(c, w, T, s)
  BY <1>4, <1>8, <1>10, <1>11 DEF Enters, AheadCode, Has, Once, Behind
<1> QED BY <1>12 DEF s

-----------------------------------------------------------------------------
\* A list of instructions ahead of the barrier.
AheadSeq(c, w, n, s) == IsSeq(s) /\ \A i \in 1 .. Len(s) : AheadOK(c, w, n, s[i])

\* Such lists are closed under concatenation.
LEMMA AheadConcat ==
    ASSUME NEW c, NEW w, NEW n, NEW s, NEW t, AheadSeq(c, w, n, s), AheadSeq(c, w, n, t)
    PROVE  AheadSeq(c, w, n, s \o t)
<1>1. IsSeq(s) /\ IsSeq(t)
  BY DEF AheadSeq
<1>2. Len(s) \in Nat /\ Len(t) \in Nat
  BY <1>1, SeqFacts
<1>3. \A i \in 1 .. Len(s \o t) : AheadOK(c, w, n, (s \o t)[i])
  BY <1>1, <1>2, ConcatFacts DEF AheadSeq
<1> QED BY <1>1, <1>3, ConcatFacts DEF AheadSeq

\* Which instructions a concatenation has, and how often.
LEMMA HasConcat ==
    ASSUME NEW s, NEW t, IsSeq(s), IsSeq(t), NEW d
    PROVE  /\ Has(s \o t, d) <=> Has(s, d) \/ Has(t, d)
           /\ Once(s, d) /\ ~Has(t, d) => Once(s \o t, d)
           /\ Once(t, d) /\ ~Has(s, d) => Once(s \o t, d)
<1> DEFINE u == s \o t
<1>1. Len(s) \in Nat /\ Len(t) \in Nat
  BY SeqFacts
<1>2. /\ Len(u) = Len(s) + Len(t)
      /\ \A i \in 1 .. Len(u) : u[i] = IF i <= Len(s) THEN s[i] ELSE t[i - Len(s)]
  BY <1>1, ConcatFacts
<1> HIDE DEF u
<1>3. Has(s, d) => Has(u, d)
  <2> SUFFICES ASSUME NEW i \in 1 .. Len(s), s[i].do = d PROVE Has(u, d)
    BY DEF Has
  <2>1. i \in 1 .. Len(u) /\ u[i] = s[i]
    BY <1>1, <1>2
  <2> QED BY <2>1 DEF Has
<1>4. Has(t, d) => Has(u, d)
  <2> SUFFICES ASSUME NEW i \in 1 .. Len(t), t[i].do = d PROVE Has(u, d)
    BY DEF Has
  <2>1. i + Len(s) \in 1 .. Len(u) /\ u[i + Len(s)] = t[i]
    BY <1>1, <1>2
  <2> QED BY <2>1 DEF Has
<1>5. ASSUME NEW i \in 1 .. Len(u), u[i].do = d
      PROVE  \/ i \in 1 .. Len(s) /\ s[i].do = d /\ Has(s, d)
             \/ i - Len(s) \in 1 .. Len(t) /\ t[i - Len(s)].do = d /\ Has(t, d)
  BY <1>1, <1>2, <1>5 DEF Has
<1>6. Has(u, d) => Has(s, d) \/ Has(t, d)
  BY <1>5 DEF Has
<1>7. Once(s, d) /\ ~Has(t, d) => Once(u, d)
  BY <1>1, <1>5 DEF Once
<1>8. Once(t, d) /\ ~Has(s, d) => Once(u, d)
  <2> SUFFICES ASSUME Once(t, d), ~Has(s, d), NEW i \in 1 .. Len(u), NEW j \in 1 .. Len(u),
                      u[i].do = d, u[j].do = d
               PROVE  i = j
    BY DEF Once
  <2>1. i - Len(s) = j - Len(s)
    BY <1>5 DEF Once
  <2> QED BY <1>1, <1>2, <2>1
<1> QED BY <1>3, <1>4, <1>6, <1>7, <1>8 DEF u

\* A pointer stays ahead of a count under concatenation.
LEMMA OrderedConcat ==
    ASSUME NEW s, NEW t, IsSeq(s), IsSeq(t), Ordered(s), Ordered(t)
    PROVE  Ordered(s \o t)
<1> DEFINE u == s \o t
<1>1. Len(s) \in Nat /\ Len(t) \in Nat
  BY SeqFacts
<1>2. /\ Len(u) = Len(s) + Len(t)
      /\ \A i \in 1 .. Len(u) : u[i] = IF i <= Len(s) THEN s[i] ELSE t[i - Len(s)]
  BY <1>1, ConcatFacts
<1> HIDE DEF u
<1>3. ASSUME NEW i \in 1 .. Len(u), u[i].do = "share"
      PROVE  \E j \in i + 1 .. Len(u) : u[j].do = "count"
  <2>1. CASE i <= Len(s)
    <3>1. i \in 1 .. Len(s) /\ s[i].do = "share"
      BY <1>1, <1>2, <1>3, <2>1
    <3>2. PICK j \in i + 1 .. Len(s) : s[j].do = "count"
      BY <3>1 DEF Ordered
    <3>3. j \in i + 1 .. Len(u) /\ u[j] = s[j]
      BY <1>1, <1>2, <3>1, <3>2
    <3> QED BY <3>2, <3>3
  <2>2. CASE i > Len(s)
    <3>1. i - Len(s) \in 1 .. Len(t) /\ t[i - Len(s)].do = "share"
      BY <1>1, <1>2, <1>3, <2>2
    <3>2. PICK j \in i - Len(s) + 1 .. Len(t) : t[j].do = "count"
      BY <3>1 DEF Ordered
    <3>3. j + Len(s) \in i + 1 .. Len(u) /\ u[j + Len(s)] = t[j]
      BY <1>1, <1>2, <3>1, <3>2
    <3> QED BY <3>2, <3>3
  <2> QED BY <1>1, <2>1, <2>2
<1>4. Ordered(u)
  BY <1>3 DEF Ordered
<1> QED BY <1>4 DEF u

\* A wait of the first list stays before a look of the second.
LEMMA BehindConcat ==
    ASSUME NEW s, NEW t, IsSeq(s), IsSeq(t), Behind(s), Behind(t),
           ~Has(s, "fetch") \/ ~Has(t, "await")
    PROVE  Behind(s \o t)
<1> DEFINE u == s \o t
<1>1. Len(s) \in Nat /\ Len(t) \in Nat
  BY SeqFacts
<1>2. /\ Len(u) = Len(s) + Len(t)
      /\ \A i \in 1 .. Len(u) : u[i] = IF i <= Len(s) THEN s[i] ELSE t[i - Len(s)]
  BY <1>1, ConcatFacts
<1> HIDE DEF u
<1>3. ASSUME NEW i \in 1 .. Len(u), NEW d, u[i].do = d
      PROVE  \/ i \in 1 .. Len(s) /\ s[i].do = d /\ Has(s, d)
             \/ i - Len(s) \in 1 .. Len(t) /\ t[i - Len(s)].do = d /\ Has(t, d)
  BY <1>1, <1>2, <1>3 DEF Has
<1>4. ASSUME NEW i \in 1 .. Len(u), NEW j \in 1 .. Len(u), u[i].do = "fetch", u[j].do = "await"
      PROVE  j < i
  <2>1. CASE i \in 1 .. Len(s) /\ s[i].do = "fetch" /\ Has(s, "fetch")
    <3>1. j \in 1 .. Len(s) /\ s[j].do = "await"
      BY <1>3, <1>4, <2>1
    <3> QED BY <2>1, <3>1 DEF Behind
  <2>2. CASE i - Len(s) \in 1 .. Len(t) /\ t[i - Len(s)].do = "fetch"
    <3>1. CASE j \in 1 .. Len(s)
      BY <1>1, <2>2, <3>1
    <3>2. CASE j - Len(s) \in 1 .. Len(t) /\ t[j - Len(s)].do = "await"
      <4>1. j - Len(s) < i - Len(s)
        BY <2>2, <3>2 DEF Behind
      <4> QED BY <1>1, <4>1
    <3> QED BY <1>3, <1>4, <3>1, <3>2
  <2> QED BY <1>3, <1>4, <2>1, <2>2
<1>5. Behind(u)
  BY <1>4 DEF Behind
<1> QED BY <1>5 DEF u

\* A single instruction.
LEMMA HasUnit ==
    ASSUME NEW x, NEW d
    PROVE  (Has(<<x>>, d) <=> x.do = d) /\ Once(<<x>>, d)
  BY UnitFacts DEF Has, Once

\* A list of instructions, then the barrier.
LEMMA EntersList ==
    ASSUME NEW c, NEW w, NEW n, NEW p, AheadSeq(c, w, n, p),
           c.op \in Sharing => Has(p, "share"),
           c.op = "Predecessor" => /\ w[2] + 1 # n => Has(p, "share")
                                   /\ Has(p, "count") /\ Ordered(p),
           Once(p, "count"), Has(p, "fetch") => Has(p, "await"), Behind(p)
    PROVE  Enters(c, w, n, (p \o <<Wait>>) \o <<ReturnI>>)
<1> DEFINE b == p \o <<Wait>>
           s == b \o <<ReturnI>>
<1>1. IsSeq(p) /\ Len(p) \in Nat
  BY SeqFacts DEF AheadSeq
<1>2. IsSeq(<<Wait>>) /\ Len(<<Wait>>) = 1 /\ <<Wait>>[1].do = "barrier"
  BY UnitFacts DEF Wait
<1>3. IsSeq(<<ReturnI>>) /\ Len(<<ReturnI>>) = 1 /\ <<ReturnI>>[1].do = "return"
  BY UnitFacts DEF ReturnI
<1>4. /\ IsSeq(b) /\ Len(b) = Len(p) + 1 /\ b[Len(p) + 1].do = "barrier"
      /\ \A i \in 1 .. Len(p) : b[i] = p[i]
  BY <1>1, <1>2, ConcatFacts
<1>5. /\ IsSeq(s) /\ Len(s) = Len(b) + 1 /\ s[Len(b) + 1].do = "return"
      /\ \A i \in 1 .. Len(b) : s[i] = b[i]
  <2> HIDE DEF b
  <2> QED BY <1>1, <1>3, <1>4, ConcatFacts
<1>6. \A d : d \notin {"barrier", "return"} => ~Has(<<Wait>>, d) /\ ~Has(<<ReturnI>>, d)
  BY HasUnit DEF Wait, ReturnI
<1>7. \A d : d \notin {"barrier", "return"} => /\ Has(s, d) <=> Has(p, d)
                                               /\ Once(p, d) => Once(s, d)
  BY <1>1, <1>2, <1>3, <1>4, <1>6, HasConcat
<1>8. Ordered(p) => Ordered(s)
  <2>1. Ordered(<<Wait>>) /\ Ordered(<<ReturnI>>)
    BY <1>2, <1>3 DEF Ordered
  <2> QED BY <1>1, <1>2, <1>3, <1>4, <2>1, OrderedConcat
<1>9. ~Has(p, "generation")
  BY DEF AheadSeq, AheadOK, Has, Comm, Sends, Receives
<1> HIDE DEF s, b
<1>10. AheadCode(c, w, n, s)
  <2>1. Len(s) = Len(p) + 2 /\ s[Len(p) + 1].do = "barrier" /\ s[Len(p) + 2].do = "return"
    BY <1>1, <1>4, <1>5
  <2>2. \A i \in 1 .. Len(p) : s[i] = p[i]
    BY <1>1, <1>4, <1>5
  <2> QED BY <1>1, <2>1, <2>2 DEF AheadCode, AheadSeq
<1>11. Behind(s)
  <2>1. Behind(<<Wait>>) /\ Behind(<<ReturnI>>)
    BY <1>2, <1>3 DEF Behind
  <2>2. Behind(b)
    BY <1>1, <1>2, <1>6, <2>1, BehindConcat DEF b
  <2> QED BY <1>3, <1>4, <1>6, <2>1, <2>2, BehindConcat DEF s
<1>12. Enters(c, w, n, s)
  BY <1>5, <1>7, <1>8, <1>9, <1>10, <1>11 DEF Enters
<1> QED BY <1>12 DEF s, b

\* Predecessor: the items are handed on before they are counted, and the pointer
\* is looked at behind the wait.
LEMMA TransmitFacts ==
    ASSUME NEW c, NEW w, w[2] \in Nat, T \in Nat, NEW r, c.op = "Predecessor"
    PROVE  /\ AheadSeq(c, w, T, Transmit(w, r)) /\ Ordered(Transmit(w, r))
           /\ Has(Transmit(w, r), "count") /\ Once(Transmit(w, r), "count")
           /\ ~Has(Transmit(w, r), "fetch") /\ ~Has(Transmit(w, r), "await")
           /\ w[2] + 1 # T => Has(Transmit(w, r), "share")
<1> DEFINE x == [do |-> "count"]
           s == Transmit(w, r)
<1>0. IsSeq(<<x>>) /\ Len(<<x>>) = 1 /\ <<x>>[1] = x
  BY UnitFacts
<1>1. AheadSeq(c, w, T, <<x>>)
  BY <1>0 DEF AheadSeq, AheadOK
<1>2. CASE w[2] + 1 # T
  <2> DEFINE y == SetShared(r)
  <2>1. s = <<y>> \o <<x>>
    BY <1>2, Zenon DEF Transmit
  <2>2. y.do = "share"
    BY DEF SetShared
  <2> HIDE DEF y, s
  <2>3. IsSeq(<<y>>) /\ Len(<<y>>) = 1 /\ <<y>>[1] = y
    BY UnitFacts
  <2>4. AheadSeq(c, w, T, <<y>>)
    BY <2>2, <2>3 DEF AheadSeq, AheadOK
  <2>5. Has(s, "share") /\ Has(s, "count") /\ Once(s, "count") /\ ~Has(s, "fetch") /\ ~Has(s, "await")
    BY <1>0, <2>1, <2>2, <2>3, HasUnit, HasConcat
  <2>6. /\ Len(s) = 2 /\ s[1] = y /\ s[2] = x
    <3>1. Len(s) = 2 /\ \A i \in 1 .. 2 : s[i] = IF i <= 1 THEN <<y>>[i] ELSE <<x>>[i - 1]
      BY <1>0, <2>1, <2>3, ConcatFacts
    <3> QED BY <1>0, <2>3, <3>1
  <2>7. Ordered(s)
    BY <2>6 DEF Ordered
  <2> QED BY <1>1, <2>1, <2>4, <2>5, <2>7, AheadConcat DEF s
<1>3. CASE w[2] + 1 = T /\ w[1] + 1 # H
  <2> DEFINE y == [do |-> "sendLast", peer |-> w[1] + 1, reg |-> r]
  <2>1. s = <<y>> \o <<x>>
    BY <1>3, Zenon DEF Transmit, When
  <2>2. y.do = "sendLast" /\ y.peer = w[1] + 1
    OBVIOUS
  <2> HIDE DEF y, s
  <2>3. IsSeq(<<y>>) /\ Len(<<y>>) = 1 /\ <<y>>[1] = y
    BY UnitFacts
  <2>4. AheadSeq(c, w, T, <<y>>)
    BY <1>3, <2>2, <2>3 DEF AheadSeq, AheadOK, Comm, Sends, Receives
  <2>5. ~Has(s, "share") /\ Has(s, "count") /\ Once(s, "count") /\ ~Has(s, "fetch") /\ ~Has(s, "await")
    BY <1>0, <2>1, <2>2, <2>3, HasUnit, HasConcat
  <2>6. Ordered(s)
    BY <2>5 DEF Ordered, Has
  <2> QED BY <1>1, <1>3, <2>1, <2>4, <2>5, <2>6, AheadConcat DEF s
<1>4. CASE w[2] + 1 = T /\ w[1] + 1 = H
  <2>1. s = <<>> \o <<x>>
    BY <1>4, Zenon DEF Transmit, When
  <2> HIDE DEF s
  <2>2. AheadSeq(c, w, T, <<>>) /\ IsSeq(<<>>) /\ \A d : ~Has(<<>>, d)
    BY UnitFacts DEF AheadSeq, Has
  <2>3. ~Has(s, "share") /\ Has(s, "count") /\ Once(s, "count") /\ ~Has(s, "fetch") /\ ~Has(s, "await")
    BY <1>0, <2>1, <2>2, HasUnit, HasConcat
  <2>4. Ordered(s)
    BY <2>3 DEF Ordered, Has
  <2> QED BY <1>1, <1>4, <2>1, <2>2, <2>3, <2>4, AheadConcat DEF s
<1> QED BY <1>2, <1>3, <1>4

\* The part of Predecessor that takes the previous worker's items.
LEMMA ObtainFacts ==
    ASSUME NEW c, NEW w, NEW n, c.op = "Predecessor"
    PROVE  /\ AheadSeq(c, w, n, Obtain(w)) /\ Ordered(Obtain(w))
           /\ ~Has(Obtain(w), "count") /\ Behind(Obtain(w))
           /\ Has(Obtain(w), "fetch") => Has(Obtain(w), "await")
<1> DEFINE s == Obtain(w)
<1>1. CASE w[2] # 0
  <2> DEFINE y == [do |-> "await"]
             z == [do |-> "fetch"]
  <2>1. s = <<y, z>>
    BY <1>1, Zenon DEF Obtain
  <2>2. IsSeq(s) /\ Len(s) = 2 /\ s[1].do = "await" /\ s[2].do = "fetch"
    BY <2>1, PairFacts
  <2> HIDE DEF s
  <2>3. AheadSeq(c, w, n, s) /\ Ordered(s) /\ ~Has(s, "count") /\ Has(s, "await") /\ Behind(s)
    BY <1>1, <2>2 DEF AheadSeq, AheadOK, Ordered, Has, Behind
  <2> QED BY <2>3 DEF s
<1>2. CASE w[2] = 0 /\ w[1] # 0
  <2> DEFINE y == ReceiveFrom(w[1] - 1, [result |-> "set"])
  <2>1. s = <<y>>
    BY <1>2, Zenon DEF Obtain, When
  <2>2. y.do = "recv" /\ y.peer = w[1] - 1
    BY DEF ReceiveFrom
  <2> HIDE DEF y, s
  <2>3. IsSeq(s) /\ Len(s) = 1 /\ s[1] = y
    BY <2>1, UnitFacts
  <2>4. AheadSeq(c, w, n, s) /\ Ordered(s) /\ ~Has(s, "count") /\ ~Has(s, "fetch") /\ Behind(s)
    BY <1>2, <2>2, <2>3 DEF AheadSeq, AheadOK, Ordered, Has, Behind, Comm, Sends, Receives
  <2> QED BY <2>4 DEF s
<1>3. CASE w[2] = 0 /\ w[1] = 0
  <2>1. s = <<>>
    BY <1>3, Zenon DEF Obtain, When
  <2>2. AheadSeq(c, w, n, <<>>) /\ Ordered(<<>>) /\ ~Has(<<>>, "count") /\ ~Has(<<>>, "fetch")
        /\ Behind(<<>>)
    BY UnitFacts DEF AheadSeq, Ordered, Has, Behind
  <2> QED BY <2>1, <2>2
<1> QED BY <1>1, <1>2, <1>3

\* Predecessor, whether or not it has enough items of its own.
LEMMA EntersPredecessor ==
    ASSUME NEW c, NEW w, w[2] \in Nat, T \in Nat, c.op = "Predecessor"
    PROVE  Enters(c, w, T, CodeOf(w, c) \o <<ReturnI>>)
<1>1. CodeOf(w, c) = Predecessor(w, c)
  BY DEF CodeOf, GroupCalls
<1> DEFINE o == Obtain(w)
           t(r) == Transmit(w, r)
           f == <<Calc("fill")>>
<1>2. /\ AheadSeq(c, w, T, o) /\ Ordered(o) /\ ~Has(o, "count")
      /\ Has(o, "fetch") => Has(o, "await")
      /\ Behind(o)
  BY ObtainFacts
<1>3. \A r : /\ AheadSeq(c, w, T, t(r)) /\ Ordered(t(r)) /\ Has(t(r), "count") /\ Once(t(r), "count")
             /\ ~Has(t(r), "fetch") /\ ~Has(t(r), "await") /\ (w[2] + 1 # T => Has(t(r), "share"))
             /\ Behind(t(r))
  BY TransmitFacts DEF Behind, Has
<1>4. /\ AheadSeq(c, w, T, f) /\ Ordered(f) /\ ~Has(f, "count") /\ ~Has(f, "fetch")
      /\ ~Has(f, "await") /\ Behind(f)
  <2>1. IsSeq(f) /\ Len(f) = 1 /\ f[1] = Calc("fill")
    BY UnitFacts
  <2> HIDE DEF f
  <2> QED BY <2>1 DEF AheadSeq, AheadOK, Ordered, Has, Behind, Calc, GatherScatters
<1>5. IsSeq(o) /\ IsSeq(f) /\ \A r : IsSeq(t(r))
  BY <1>2, <1>3, <1>4 DEF AheadSeq
<1>6. CASE c.len[my_rank(w) + 1] >= c.k
  <2> DEFINE p == t("mine") \o o
  <2>1. CodeOf(w, c) = p \o <<Wait>>
    BY <1>1, <1>6, Zenon DEF Predecessor
  <2> HIDE DEF t, o
  <2>2. /\ AheadSeq(c, w, T, p) /\ Ordered(p) /\ Has(p, "count") /\ Once(p, "count")
        /\ Has(p, "fetch") => Has(p, "await")
        /\ w[2] + 1 # T => Has(p, "share")
        /\ Behind(p)
    BY <1>2, <1>3, <1>5, AheadConcat, OrderedConcat, HasConcat, BehindConcat
  <2> HIDE DEF p
  <2> QED BY <2>1, <2>2, EntersList DEF Sharing
<1>7. CASE ~(c.len[my_rank(w) + 1] >= c.k)
  <2> DEFINE q == o \o f
             p == q \o t("out")
  <2>1. CodeOf(w, c) = p \o <<Wait>>
    BY <1>1, <1>7, Zenon DEF Predecessor
  <2> HIDE DEF t, o, f
  <2>2. /\ AheadSeq(c, w, T, q) /\ IsSeq(q) /\ Ordered(q) /\ ~Has(q, "count")
        /\ Has(q, "fetch") => Has(q, "await")
        /\ Behind(q)
    BY <1>2, <1>4, <1>5, AheadConcat, OrderedConcat, HasConcat, BehindConcat, ConcatFacts
  <2> HIDE DEF q
  <2>3. /\ AheadSeq(c, w, T, p) /\ Ordered(p) /\ Has(p, "count") /\ Once(p, "count")
        /\ Has(p, "fetch") => Has(p, "await")
        /\ w[2] + 1 # T => Has(p, "share")
        /\ Behind(p)
    BY <1>3, <1>5, <2>2, AheadConcat, OrderedConcat, HasConcat, BehindConcat
  <2> HIDE DEF p
  <2> QED BY <2>1, <2>3, EntersList DEF Sharing
<1> QED BY <1>6, <1>7

\* Every call whose threads meet.
LEMMA EntersAll ==
    ASSUME H \in Nat, T \in Nat, NEW c, NEW w, w[2] \in Nat, c.op \in Meeting
    PROVE  Enters(c, w, T, CodeOf(w, c) \o <<ReturnI>>)
  BY EntersBarrier, EntersShared, EntersBroadcast, EntersPredecessor DEF Meeting, Sharing

-----------------------------------------------------------------------------
(* The shapes of the code of a thread.                                     *)

\* The code of the last thread to arrive: the rest of the lambda, the release.
RunCode(c, s) ==
    /\ Len(s) >= 2 /\ s[Len(s)].do = "return" /\ s[Len(s) - 1].do = "release"
    /\ \A i \in 1 .. Len(s) - 2 : RunOK(c, s[i])
\* The code of a thread that has arrived before it.
SpinCode(s) == Len(s) = 2 /\ s[1].do = "spin" /\ s[2].do = "return"
\* The code of a thread that has passed the barrier, or is in a call of Group,
\* which only the single thread of a host makes.
LeaveCode(n, s) ==
    /\ Len(s) >= 1 /\ s[Len(s)].do = "return" /\ (Len(s) > 1 => n = 1)
    /\ \A i \in 1 .. Len(s) - 1 : GroupOK(s[i])

\* A thread is at one of these places at most.
LEMMA Exclusive ==
    ASSUME NEW c, NEW w, NEW n, NEW s, IsSeq(s)
    PROVE  /\ AheadCode(c, w, n, s) => s # <<>> /\ ~RunCode(c, s) /\ ~SpinCode(s) /\ ~LeaveCode(n, s)
           /\ RunCode(c, s) => s # <<>> /\ ~SpinCode(s) /\ ~LeaveCode(n, s)
           /\ SpinCode(s) => s # <<>> /\ ~LeaveCode(n, s)
           /\ LeaveCode(n, s) => s # <<>>
<1>1. Len(s) \in Nat /\ (s # <<>> <=> Len(s) > 0)
  BY SeqFacts
<1>2. LeaveCode(n, s) /\ Len(s) >= 2 => s[Len(s) - 1].do \in Comm \cup {"calc"}
  BY <1>1 DEF LeaveCode, GroupOK, Comm
<1> QED BY <1>1, <1>2 DEF AheadCode, RunCode, SpinCode, LeaveCode, Comm, Sends, Receives

\* A thread that goes on keeps its place, up to the instruction that ends it.
LEMMA PopCode ==
    ASSUME NEW c, NEW w, NEW n, NEW s, IsSeq(s), s # <<>>
    PROVE  /\ AheadCode(c, w, n, s) /\ s[1].do # "barrier" => AheadCode(c, w, n, Tail(s))
           /\ RunCode(c, s) /\ s[1].do # "release" => RunCode(c, Tail(s))
           /\ LeaveCode(n, s) /\ s[1].do # "return" => LeaveCode(n, Tail(s))
<1> DEFINE t == Tail(s)
<1>1. Len(s) \in Nat /\ Len(s) > 0
  BY SeqFacts
<1>2. Len(t) = Len(s) - 1 /\ \A i \in 1 .. Len(s) - 1 : t[i] = s[i + 1]
  BY TailFacts
<1> HIDE DEF t
<1>3. ASSUME AheadCode(c, w, n, s), s[1].do # "barrier" PROVE AheadCode(c, w, n, t)
  <2>1. Len(s) > 2
    BY <1>1, <1>3 DEF AheadCode
  <2>2. t[Len(t)] = s[Len(s)] /\ t[Len(t) - 1] = s[Len(s) - 1] /\ Len(t) >= 2
    BY <1>1, <1>2, <2>1
  <2>3. ASSUME NEW i \in 1 .. Len(t) - 2 PROVE AheadOK(c, w, n, t[i])
    <3>1. i + 1 \in 1 .. Len(s) - 2 /\ t[i] = s[i + 1]
      BY <1>1, <1>2, <2>1
    <3> QED BY <1>3, <3>1 DEF AheadCode
  <2> QED BY <1>3, <2>2, <2>3 DEF AheadCode
<1>4. ASSUME RunCode(c, s), s[1].do # "release" PROVE RunCode(c, t)
  <2>1. Len(s) > 2
    BY <1>1, <1>4 DEF RunCode
  <2>2. t[Len(t)] = s[Len(s)] /\ t[Len(t) - 1] = s[Len(s) - 1] /\ Len(t) >= 2
    BY <1>1, <1>2, <2>1
  <2>3. ASSUME NEW i \in 1 .. Len(t) - 2 PROVE RunOK(c, t[i])
    <3>1. i + 1 \in 1 .. Len(s) - 2 /\ t[i] = s[i + 1]
      BY <1>1, <1>2, <2>1
    <3> QED BY <1>4, <3>1 DEF RunCode
  <2> QED BY <1>4, <2>2, <2>3 DEF RunCode
<1>5. ASSUME LeaveCode(n, s), s[1].do # "return" PROVE LeaveCode(n, t)
  <2>1. Len(s) > 1
    BY <1>1, <1>5 DEF LeaveCode
  <2> QED BY <1>1, <1>2, <1>5, <2>1 DEF LeaveCode
<1> QED BY <1>3, <1>4, <1>5 DEF t

\* The instruction at the head of the code, by the place of its thread.
LEMMA HeadKinds ==
    ASSUME NEW c, NEW w, NEW n, NEW s, IsSeq(s), s # <<>>
    PROVE  /\ AheadCode(c, w, n, s) => \/ s[1].do = "barrier" /\ Len(s) = 2
                                       \/ AheadOK(c, w, n, s[1]) /\ Len(s) > 2
           /\ RunCode(c, s) => \/ s[1].do = "release" /\ Len(s) = 2
                               \/ RunOK(c, s[1]) /\ Len(s) > 2
           /\ LeaveCode(n, s) => \/ s[1].do = "return" /\ Len(s) = 1
                                 \/ GroupOK(s[1]) /\ Len(s) > 1
<1>1. Len(s) \in Nat /\ Len(s) > 0
  BY SeqFacts
<1>2. CASE Len(s) = 1
  <2>1. ~AheadCode(c, w, n, s) /\ ~RunCode(c, s)
    BY <1>2 DEF AheadCode, RunCode
  <2>2. LeaveCode(n, s) => s[1].do = "return"
    BY <1>2 DEF LeaveCode
  <2> QED BY <1>2, <2>1, <2>2
<1>3. CASE Len(s) = 2
  <2>1. /\ AheadCode(c, w, n, s) => s[1].do = "barrier"
        /\ RunCode(c, s) => s[1].do = "release"
    <3>1. Len(s) - 1 = 1
      BY <1>3
    <3> QED BY <3>1 DEF AheadCode, RunCode
  <2>2. LeaveCode(n, s) => GroupOK(s[1])
    <3>1. 1 \in 1 .. Len(s) - 1
      BY <1>3
    <3> QED BY <3>1 DEF LeaveCode
  <2> QED BY <1>3, <2>1, <2>2
<1>4. CASE Len(s) > 2
  <2>1. 1 \in 1 .. Len(s) - 2 /\ 1 \in 1 .. Len(s) - 1
    BY <1>1, <1>4
  <2>2. /\ AheadCode(c, w, n, s) => AheadOK(c, w, n, s[1])
        /\ RunCode(c, s) => RunOK(c, s[1])
        /\ LeaveCode(n, s) => GroupOK(s[1])
    BY <2>1 DEF AheadCode, RunCode, LeaveCode
  <2> QED BY <1>1, <1>4, <2>2
<1>5. Len(s) = 1 \/ Len(s) = 2 \/ Len(s) > 2
  <2>1. \A k \in Nat : k > 0 => k = 1 \/ k = 2 \/ k > 2
    OBVIOUS
  <2> QED BY <1>1, <2>1, Zenon
<1> QED BY <1>2, <1>3, <1>4, <1>5, Zenon

\* The instructions that are left after the first.
LEMMA HasTail ==
    ASSUME NEW s, IsSeq(s), s # <<>>, NEW d
    PROVE  /\ Has(s, d) <=> s[1].do = d \/ Has(Tail(s), d)
           /\ Once(s, d) => Once(Tail(s), d)
           /\ Once(s, d) /\ s[1].do = d => ~Has(Tail(s), d)
<1> DEFINE t == Tail(s)
<1>1. Len(s) \in Nat /\ Len(s) > 0
  BY SeqFacts
<1>2. Len(t) = Len(s) - 1 /\ \A i \in 1 .. Len(s) - 1 : t[i] = s[i + 1]
  BY TailFacts
<1> HIDE DEF t
<1>3. ASSUME NEW i \in 1 .. Len(t), t[i].do = d PROVE i + 1 \in 1 .. Len(s) /\ s[i + 1].do = d
  BY <1>1, <1>2, <1>3
<1>4. ASSUME NEW i \in 1 .. Len(s), s[i].do = d, i # 1 PROVE i - 1 \in 1 .. Len(t) /\ t[i - 1].do = d
  <2>1. i - 1 \in 1 .. Len(s) - 1
    BY <1>1, <1>4
  <2> QED BY <1>1, <1>2, <1>4, <2>1
<1>5. Has(s, d) => s[1].do = d \/ Has(t, d)
  BY <1>4 DEF Has
<1>6. Has(t, d) => Has(s, d)
  BY <1>3 DEF Has
<1>7. s[1].do = d => Has(s, d)
  BY <1>1 DEF Has
<1>8. Once(s, d) => Once(t, d)
  <2> SUFFICES ASSUME Once(s, d), NEW i \in 1 .. Len(t), NEW j \in 1 .. Len(t), t[i].do = d, t[j].do = d
               PROVE  i = j
    BY DEF Once
  <2>1. i + 1 = j + 1
    BY <1>3 DEF Once
  <2> QED BY <2>1, <1>1, <1>2
<1>9. Once(s, d) /\ s[1].do = d => ~Has(t, d)
  <2> SUFFICES ASSUME Once(s, d), s[1].do = d, NEW i \in 1 .. Len(t), t[i].do = d PROVE FALSE
    BY DEF Has
  <2>1. i + 1 = 1
    BY <1>1, <1>3 DEF Once
  <2> QED BY <2>1, <1>1, <1>2
<1> QED BY <1>5, <1>6, <1>7, <1>8, <1>9 DEF t

\* The order of pointer and count in the rest of the code.
LEMMA OrderedTail ==
    ASSUME NEW s, IsSeq(s), s # <<>>, Ordered(s)
    PROVE  /\ Ordered(Tail(s))
           /\ s[1].do = "share" => Has(Tail(s), "count")
<1> DEFINE t == Tail(s)
<1>1. Len(s) \in Nat /\ Len(s) > 0
  BY SeqFacts
<1>2. Len(t) = Len(s) - 1 /\ \A i \in 1 .. Len(s) - 1 : t[i] = s[i + 1]
  BY TailFacts
<1> HIDE DEF t
<1>3. ASSUME NEW i \in 1 .. Len(s), s[i].do = "share"
      PROVE  \E j \in i .. Len(t) : t[j].do = "count"
  <2>1. PICK k \in i + 1 .. Len(s) : s[k].do = "count"
    BY <1>3 DEF Ordered
  <2>2. k - 1 \in i .. Len(t) /\ k - 1 \in 1 .. Len(s) - 1 /\ t[k - 1] = s[k]
    BY <1>1, <1>2, <2>1
  <2> QED BY <2>1, <2>2
<1>4. Ordered(t)
  <2> SUFFICES ASSUME NEW i \in 1 .. Len(t), t[i].do = "share"
               PROVE  \E j \in i + 1 .. Len(t) : t[j].do = "count"
    BY DEF Ordered
  <2>1. i + 1 \in 1 .. Len(s) /\ s[i + 1].do = "share"
    BY <1>1, <1>2
  <2> QED BY <1>3, <2>1
<1>5. s[1].do = "share" => Has(t, "count")
  BY <1>1, <1>3 DEF Has
<1> QED BY <1>4, <1>5 DEF t

\* A send that waits for its message to be received.
LEMMA FlushCode ==
    ASSUME NEW c, NEW w, NEW n, NEW s, IsSeq(s), s # <<>>, s[1].do \in Sends,
           NEW x, x.do = "flush", x.peer = s[1].peer
    PROVE  LET t == <<x>> \o Tail(s)
           IN  /\ IsSeq(t) /\ t # <<>>
               /\ AheadCode(c, w, n, s) => AheadCode(c, w, n, t)
               /\ RunCode(c, s) => RunCode(c, t)
               /\ LeaveCode(n, s) => LeaveCode(n, t)
               /\ \A d : d \notin Sends \cup {"flush"} => /\ Has(t, d) <=> Has(s, d)
                                                          /\ Once(s, d) => Once(t, d)
               /\ Ordered(s) => Ordered(t)
<1> DEFINE t == <<x>> \o Tail(s)
<1>1. Len(s) \in Nat /\ Len(s) > 0
  BY SeqFacts
<1>2. IsSeq(Tail(s)) /\ Len(Tail(s)) = Len(s) - 1 /\ \A i \in 1 .. Len(s) - 1 : Tail(s)[i] = s[i + 1]
  BY TailFacts
<1>3. IsSeq(<<x>>) /\ Len(<<x>>) = 1 /\ <<x>>[1] = x
  BY UnitFacts
<1>4. IsSeq(t) /\ Len(t) = Len(s) /\ \A i \in 1 .. Len(s) : t[i] = IF i <= 1 THEN <<x>>[i] ELSE Tail(s)[i - 1]
  BY <1>1, <1>2, <1>3, ConcatFacts
<1> HIDE DEF t
<1>5. t[1] = x /\ \A i \in 2 .. Len(s) : t[i] = s[i]
  BY <1>1, <1>2, <1>3, <1>4
<1>6. t # <<>>
  BY <1>1, <1>4, SeqFacts
<1>7. \A d : d \notin Sends \cup {"flush"} => \A i \in 1 .. Len(s) : t[i].do = d <=> s[i].do = d
  BY <1>1, <1>5
<1>8. \A d : d \notin Sends \cup {"flush"} => /\ Has(t, d) <=> Has(s, d)
                                              /\ Once(s, d) => Once(t, d)
  BY <1>4, <1>7 DEF Has, Once
<1>9. Ordered(s) => Ordered(t)
  <2>1. \A i \in 1 .. Len(s) : /\ t[i].do = "share" <=> s[i].do = "share"
                               /\ t[i].do = "count" <=> s[i].do = "count"
    BY <1>7 DEF Sends
  <2> QED BY <1>1, <1>4, <2>1 DEF Ordered
<1>10. AheadCode(c, w, n, s) => AheadCode(c, w, n, t)
  <2> SUFFICES ASSUME AheadCode(c, w, n, s) PROVE AheadCode(c, w, n, t)
    OBVIOUS
  <2>1. Len(s) > 2 /\ AheadOK(c, w, n, s[1])
    BY HeadKinds DEF Sends
  <2>2. AheadOK(c, w, n, x)
    BY <2>1 DEF AheadOK, Comm, Sends, Receives
  <2> QED BY <1>1, <1>4, <1>5, <2>1, <2>2 DEF AheadCode
<1>11. RunCode(c, s) => RunCode(c, t)
  <2> SUFFICES ASSUME RunCode(c, s) PROVE RunCode(c, t)
    OBVIOUS
  <2>1. Len(s) > 2
    BY HeadKinds DEF Sends
  <2>2. RunOK(c, x)
    BY DEF RunOK, Comm
  <2> QED BY <1>1, <1>4, <1>5, <2>1, <2>2 DEF RunCode
<1>12. LeaveCode(n, s) => LeaveCode(n, t)
  <2> SUFFICES ASSUME LeaveCode(n, s) PROVE LeaveCode(n, t)
    OBVIOUS
  <2>1. Len(s) > 1
    BY HeadKinds DEF Sends
  <2>2. GroupOK(x)
    BY DEF GroupOK
  <2> QED BY <1>1, <1>4, <1>5, <2>1, <2>2 DEF LeaveCode
<1> QED BY <1>4, <1>6, <1>8, <1>9, <1>10, <1>11, <1>12 DEF t

\* The wait stays before the look.
LEMMA BehindTail ==
    ASSUME NEW s, IsSeq(s), s # <<>>, Behind(s)
    PROVE  /\ Behind(Tail(s))
           /\ s[1].do = "fetch" => ~Has(s, "await")
<1> DEFINE t == Tail(s)
<1>1. Len(s) \in Nat /\ Len(s) > 0
  BY SeqFacts
<1>2. Len(t) = Len(s) - 1 /\ \A i \in 1 .. Len(s) - 1 : t[i] = s[i + 1]
  BY TailFacts
<1> HIDE DEF t
<1>3. \A i \in 1 .. Len(t) : i + 1 \in 1 .. Len(s) /\ t[i] = s[i + 1]
  BY <1>1, <1>2
<1>4. Behind(t)
  <2> SUFFICES ASSUME NEW i \in 1 .. Len(t), NEW j \in 1 .. Len(t), t[i].do = "fetch", t[j].do = "await"
               PROVE  j < i
    BY DEF Behind
  <2>1. j + 1 < i + 1
    BY <1>3 DEF Behind
  <2> QED BY <2>1
<1>5. ASSUME s[1].do = "fetch", NEW j \in 1 .. Len(s), s[j].do = "await" PROVE FALSE
  <2>1. j < 1
    BY <1>1, <1>5 DEF Behind
  <2> QED BY <2>1
<1> QED BY <1>4, <1>5 DEF t, Has

\* What is always true of the code of a thread.
CodeOK(c, w, n, s) ==
    /\ IsSeq(s) /\ Once(s, "count") /\ Once(s, "generation") /\ Behind(s)
    /\ \/ s = <<>>
       \/ LeaveCode(n, s)
       \/ /\ c.op \in Meeting
          /\ \/ AheadCode(c, w, n, s) /\ (c.op = "Predecessor" => Ordered(s))
             \/ RunCode(c, s)
             \/ SpinCode(s)

\* The instructions that the invariant speaks of.
Control == {"share", "count", "await", "fetch", "generation", "barrier", "release", "spin", "return"}

\* Which instructions the code holds, by the place of its thread.
LEMMA PlaceHas ==
    ASSUME NEW c, NEW w, NEW n, NEW s, IsSeq(s)
    PROVE  /\ RunCode(c, s) => /\ \A d \in Control \ {"generation", "release", "return"} : ~Has(s, d)
           /\ SpinCode(s) => \A d \in Control \ {"spin", "return"} : ~Has(s, d)
           /\ LeaveCode(n, s) => \A d \in Control \ {"return"} : ~Has(s, d)
           /\ AheadCode(c, w, n, s) => ~Has(s, "generation")
           /\ s = <<>> => \A d : ~Has(s, d)
<1>1. Len(s) \in Nat
  BY SeqFacts
<1>2. ASSUME RunCode(c, s), NEW i \in 1 .. Len(s)
      PROVE  s[i].do \notin Control \ {"generation", "release", "return"}
  <2>1. i \in 1 .. Len(s) - 2 \/ i = Len(s) - 1 \/ i = Len(s)
    BY <1>1
  <2>2. \A x : RunOK(c, x) => x.do \notin Control \ {"generation", "release", "return"}
    BY DEF RunOK, Control, Comm, Sends, Receives
  <2> QED BY <1>2, <2>1, <2>2 DEF RunCode
<1>3. ASSUME SpinCode(s), NEW i \in 1 .. Len(s)
      PROVE  s[i].do \notin Control \ {"spin", "return"}
  <2>1. i = 1 \/ i = 2
    BY <1>3 DEF SpinCode
  <2> QED BY <1>3, <2>1 DEF SpinCode
<1>4. ASSUME LeaveCode(n, s), NEW i \in 1 .. Len(s)
      PROVE  s[i].do \notin Control \ {"return"}
  <2>1. i \in 1 .. Len(s) - 1 \/ i = Len(s)
    BY <1>1
  <2>2. \A x : GroupOK(x) => x.do \notin Control
    BY DEF GroupOK, Control, Comm, Sends, Receives
  <2> QED BY <1>4, <2>1, <2>2 DEF LeaveCode
<1>5. ASSUME AheadCode(c, w, n, s), NEW i \in 1 .. Len(s)
      PROVE  s[i].do # "generation"
  <2>1. i \in 1 .. Len(s) - 2 \/ i = Len(s) - 1 \/ i = Len(s)
    BY <1>1
  <2>2. \A x : AheadOK(c, w, n, x) => x.do # "generation"
    BY DEF AheadOK, Comm, Sends, Receives
  <2> QED BY <1>5, <2>1, <2>2 DEF AheadCode
<1>6. s = <<>> => Len(s) = 0
  BY SeqFacts
<1> QED BY <1>2, <1>3, <1>4, <1>5, <1>6 DEF Has

\* The place of a thread does not change when it goes on behind an instruction
\* that is none of the barrier's.
LEMMA CodePop ==
    ASSUME NEW c, NEW w, NEW n, NEW s, CodeOK(c, w, n, s), s # <<>>,
           s[1].do \notin {"barrier", "release", "spin", "return"}
    PROVE  /\ CodeOK(c, w, n, Tail(s))
           /\ AheadCode(c, w, n, Tail(s)) <=> AheadCode(c, w, n, s)
           /\ RunCode(c, Tail(s)) <=> RunCode(c, s)
           /\ ~SpinCode(s) /\ ~SpinCode(Tail(s)) /\ Tail(s) # <<>>
           /\ \A d : Has(s, d) <=> s[1].do = d \/ Has(Tail(s), d)
<1> DEFINE t == Tail(s)
<1>1. IsSeq(s) /\ IsSeq(t)
  BY TailFacts DEF CodeOK
<1>2. ~SpinCode(s)
  BY DEF SpinCode
<1>3. /\ Once(t, "count") /\ Once(t, "generation") /\ Behind(t)
      /\ \A d : Has(s, d) <=> s[1].do = d \/ Has(t, d)
  BY <1>1, HasTail, BehindTail DEF CodeOK
<1>4. c.op = "Predecessor" /\ Ordered(s) => Ordered(t)
  BY <1>1, OrderedTail
<1> HIDE DEF t
<1>5. CASE LeaveCode(n, s)
  <2>1. LeaveCode(n, t)
    BY <1>1, <1>5, PopCode DEF t
  <2> QED BY <1>1, <1>2, <1>3, <1>5, <2>1, Exclusive DEF CodeOK, t
<1>6. CASE RunCode(c, s)
  <2>1. RunCode(c, t)
    BY <1>1, <1>6, PopCode DEF t
  <2> QED BY <1>1, <1>2, <1>3, <1>6, <2>1, Exclusive DEF CodeOK, t
<1>7. CASE AheadCode(c, w, n, s)
  <2>1. AheadCode(c, w, n, t)
    BY <1>1, <1>7, PopCode DEF t
  <2> QED BY <1>1, <1>2, <1>3, <1>4, <1>7, <2>1, Exclusive DEF CodeOK, t
<1> QED BY <1>2, <1>5, <1>6, <1>7 DEF CodeOK

\* A send that waits for its message to be received keeps its place.
LEMMA CodeFlush ==
    ASSUME NEW c, NEW w, NEW n, NEW s, CodeOK(c, w, n, s), s # <<>>, s[1].do \in Sends,
           NEW x, x.do = "flush", x.peer = s[1].peer, NEW t, t = <<x>> \o Tail(s)
    PROVE  /\ CodeOK(c, w, n, t)
           /\ AheadCode(c, w, n, t) <=> AheadCode(c, w, n, s)
           /\ RunCode(c, t) <=> RunCode(c, s)
           /\ ~SpinCode(s) /\ ~SpinCode(t)
           /\ \A d \in Control : Has(t, d) <=> Has(s, d)
<1>1. IsSeq(s)
  BY DEF CodeOK
<1>2. /\ IsSeq(t) /\ t # <<>>
      /\ AheadCode(c, w, n, s) => AheadCode(c, w, n, t)
      /\ RunCode(c, s) => RunCode(c, t)
      /\ LeaveCode(n, s) => LeaveCode(n, t)
      /\ \A d : d \notin Sends \cup {"flush"} => /\ Has(t, d) <=> Has(s, d)
                                                 /\ Once(s, d) => Once(t, d)
      /\ Ordered(s) => Ordered(t)
  BY <1>1, FlushCode
<1>3. \A d \in Control : d \notin Sends \cup {"flush"}
  BY DEF Control, Sends
<1>4. \A d \in Control : (Has(t, d) <=> Has(s, d)) /\ (Once(s, d) => Once(t, d))
  <2> SUFFICES ASSUME NEW d \in Control
               PROVE  (Has(t, d) <=> Has(s, d)) /\ (Once(s, d) => Once(t, d))
    OBVIOUS
  <2>1. d \notin Sends \cup {"flush"}
    BY <1>3
  <2> QED BY <1>2, <2>1, Zenon
<1>5. ~SpinCode(s)
  BY DEF SpinCode, Sends
<1>6. Once(t, "count") /\ Once(t, "generation")
  BY <1>4 DEF CodeOK, Control
<1>7. Behind(t)
  <2>1. IsSeq(Tail(s)) /\ Behind(Tail(s))
    BY <1>1, TailFacts, BehindTail DEF CodeOK
  <2>2. IsSeq(<<x>>) /\ Behind(<<x>>) /\ ~Has(<<x>>, "fetch")
    BY UnitFacts, HasUnit DEF Behind
  <2> QED BY <2>1, <2>2, BehindConcat
<1>8. CASE LeaveCode(n, s)
  BY <1>1, <1>2, <1>4, <1>5, <1>6, <1>7, <1>8, Exclusive DEF CodeOK
<1>9. CASE RunCode(c, s)
  BY <1>1, <1>2, <1>4, <1>5, <1>6, <1>7, <1>9, Exclusive DEF CodeOK
<1>10. CASE AheadCode(c, w, n, s)
  BY <1>1, <1>2, <1>4, <1>5, <1>6, <1>7, <1>10, Exclusive DEF CodeOK
<1> QED BY <1>5, <1>8, <1>9, <1>10 DEF CodeOK

-----------------------------------------------------------------------------
(* The inductive invariant.                                                *)

\* The place of a thread: ahead of the barrier of its call, spinning at it,
\* running its lambda; these are inside the call.
AheadSet == {w \in Worker : AheadCode(Call(w), w, T, code[w])}
\* Threads that spin on the present value of step_.
StuckSet == {w \in Worker : SpinCode(code[w]) /\ code[w][1].step = step[w[1]]}
RunSet   == {w \in Worker : RunCode(Call(w), code[w])}
Inside   == AheadSet \cup StuckSet \cup RunSet

\* Threads with an instruction d still to carry out.
HasSet(d) == {w \in Worker : Has(code[w], d)}
Preds   == {w \in Inside : Call(w).op = "Predecessor"}
\* Threads inside a call with pointers.
Sharers == {w \in Inside : Call(w).op \in Sharing}
\* Threads that have counted in their call of Predecessor.
Counted == Preds \ HasSet("count")
\* Threads that have advanced generation_ in it.
Advanced == (RunSet \cap Preds) \ HasSet("generation")

\* The barriers that w has passed.
Passed(w) == IF w \in Inside THEN at[w] - 1 ELSE at[w]

\* The threads of host h that spin.
StuckAt(h) == {t \in 0 .. T - 1 : <<h, t>> \in StuckSet}

\* The types that the argument needs.
InvTypes ==
    /\ case \in Cases
    /\ at \in [Worker -> 0 .. Len(case.calls)]
    /\ code = [w \in Worker |-> code[w]]
    /\ slot \in [Worker -> {0, 1}]
    /\ goal = [w \in Worker |-> goal[w]]
    /\ shmem = [w \in Worker |-> [s \in {0, 1} |-> shmem[w][s]]]
    /\ counter \in [Worker -> Nat] /\ generation \in [0 .. H - 1 -> Nat]
    /\ waiting \in [0 .. H - 1 -> 0 .. T - 1] /\ step \in [0 .. H - 1 -> Nat]
\* What is left of the code of each thread has one of the shapes.
InvCode == \A w \in Worker :
    /\ CodeOK(Call(w), w, T, code[w])
    /\ code[w] # <<>> => at[w] \in 1 .. Len(case.calls)
\* All threads of a host have passed the same number of barriers.
InvAligned == \A v, w \in Worker : v[1] = w[1] => Passed(v) = Passed(w)
\* waiting_ counts the threads that spin; it is 0 while one runs the lambda, and
\* then all others spin.
InvBarrier == \A h \in 0 .. H - 1 :
    /\ (\A w \in RunSet : w[1] # h) => waiting[h] = Cardinality(StuckAt(h))
    /\ \A w \in RunSet : w[1] = h =>
          waiting[h] = 0 /\ \A v \in Worker : v[1] = h /\ v # w => v \in StuckSet
\* Threads inside a call use the pointers of the same parity.
InvSlot == \A w \in Inside : slot[w] = GetNextStep(w[1])
\* The pointer of a thread is still to be set or was set in this call.
InvShared == \A w \in Inside :
    (w \in Sharers \/ (w \in Preds /\ w[2] + 1 # T))
        => w \in HasSet("share") \/ shmem[w][slot[w]].call = at[w]
\* counter is ahead of generation_ by one when the thread has counted and
\* generation_ was not advanced yet.
InvCount == \A w \in Worker : counter[w] = generation[w[1]] +
    (IF w \in Counted /\ (\A v \in Advanced : v[1] # w[1]) THEN 1 ELSE 0)
\* this_gen is the generation after the present one until the barrier.
InvGoal == \A w \in AheadSet : goal[w] = generation[w[1]] + 1
\* A thread that need not wait for its predecessor any more has one that counted.
InvFetch == \A w \in Worker :
    w \in HasSet("fetch") /\ w \notin HasSet("await") => Previous(w) \in Counted
\* The inductive invariant.
Inv == /\ InvTypes /\ InvCode /\ InvAligned /\ InvBarrier /\ InvSlot /\ InvShared
       /\ InvCount /\ InvGoal /\ InvFetch

\* What the assumption on the instances says of the present one.
LEMMA CaseFacts ==
    ASSUME InvTypes
    PROVE  /\ H \in Nat \ {0} /\ T \in Nat \ {0}
           /\ IsSeq(case.calls) /\ Len(case.calls) \in Nat
           /\ \A k \in 1 .. Len(case.calls) : \/ case.calls[k].op \in Meeting
                                              \/ case.calls[k].op \in GroupCalls /\ T = 1
<1>1. /\ H \in Nat \ {0} /\ T \in Nat \ {0}
      /\ case.calls \in Seq(CallsOf(H * T, T))
  BY CasesAssumption DEF InvTypes, H, T
<1>2. IsSeq(case.calls)
  BY <1>1, SeqAny
<1>3. \A x \in CallsOf(H * T, T) : x.op \in Meeting \/ (x.op \in GroupCalls /\ T = 1)
  <2> SUFFICES ASSUME NEW x \in CallsOf(H * T, T)
               PROVE  x.op \in Meeting \/ (x.op \in GroupCalls /\ T = 1)
    OBVIOUS
  <2>1. CASE x \in [op : {"PrefixSum", "ExPrefixSum", "ExPrefixSumTotal", "AllGather", "AllReduce",
                          "Barrier", "LocalBarrier"}]
    BY <2>1 DEF Meeting, Sharing
  <2>2. CASE x \in [op : {"Broadcast", "Reduce"}, root : 0 .. H * T - 1]
    BY <2>2 DEF Meeting, Sharing
  <2>3. CASE x \in [op : {"Predecessor"}, k : Nat, len : [1 .. H * T -> Nat]]
    BY <2>3 DEF Meeting, Sharing
  <2>4. CASE x \in [op : GroupCalls \ {"BroadcastTrivial"}] /\ T = 1
    BY <2>4 DEF GroupCalls
  <2>5. CASE x \in [op : {"BroadcastTrivial"}, root : 0 .. H * T - 1] /\ T = 1
    BY <2>5 DEF GroupCalls
  <2> QED BY <2>1, <2>2, <2>3, <2>4, <2>5, Zenon DEF CallsOf
<1>4. \A k \in 1 .. Len(case.calls) : case.calls[k] \in CallsOf(H * T, T)
  BY <1>1
<1>5. Len(case.calls) \in Nat
  BY <1>1
<1> QED BY <1>1, <1>2, <1>3, <1>4, <1>5

\* The threads that do not move keep their place.
LEMMA Others ==
    ASSUME InvTypes, NEW w \in Worker, NEW s, case' = case,
           code' = [code EXCEPT ![w] = s], \A v \in Worker \ {w} : at'[v] = at[v]
    PROVE  /\ Worker' = Worker /\ H' = H /\ T' = T /\ code'[w] = s
           /\ \A v \in Worker \ {w} :
                 /\ code'[v] = code[v]
                 /\ Call(v)' = Call(v)
                 /\ v \in AheadSet' <=> v \in AheadSet
                 /\ v \in RunSet' <=> v \in RunSet
                 /\ step'[v[1]] = step[v[1]] => (v \in StuckSet' <=> v \in StuckSet)
                 /\ \A d : v \in HasSet(d)' <=> v \in HasSet(d)
           /\ code' = [v \in Worker' |-> code'[v]]
<1>1. Worker' = Worker /\ H' = H /\ T' = T
  BY DEF Worker, H, T
<1>2. code'[w] = s /\ \A v \in Worker \ {w} : code'[v] = code[v]
  BY DEF InvTypes
<1>3. \A v \in Worker \ {w} : Call(v)' = Call(v)
  BY DEF Call
<1>4. code' = [v \in Worker' |-> code'[v]]
  BY <1>1 DEF InvTypes
<1>5. ASSUME NEW v \in Worker \ {w}
      PROVE  /\ v \in AheadSet' <=> v \in AheadSet
             /\ v \in RunSet' <=> v \in RunSet
             /\ step'[v[1]] = step[v[1]] => (v \in StuckSet' <=> v \in StuckSet)
             /\ \A d : v \in HasSet(d)' <=> v \in HasSet(d)
  <2>1. v \in AheadSet' <=> AheadCode(Call(v)', v, T', code'[v])
    BY <1>1 DEF AheadSet
  <2>2. v \in RunSet' <=> RunCode(Call(v)', code'[v])
    BY <1>1 DEF RunSet
  <2>3. v \in StuckSet' <=> SpinCode(code'[v]) /\ code'[v][1].step = step'[v[1]]
    BY <1>1 DEF StuckSet
  <2>4. \A d : v \in HasSet(d)' <=> Has(code'[v], d)
    BY <1>1 DEF HasSet
  <2> QED BY <1>1, <1>2, <1>3, <2>1, <2>2, <2>3, <2>4 DEF AheadSet, RunSet, StuckSet, HasSet
<1> QED BY <1>1, <1>2, <1>3, <1>4, <1>5

-----------------------------------------------------------------------------
(* The places of the threads; steps that change none.                      *)

\* How the place of w follows from its code.
LEMMA Place ==
    ASSUME InvTypes, InvCode, NEW w \in Worker
    PROVE  /\ w \in AheadSet <=> AheadCode(Call(w), w, T, code[w])
           /\ w \in RunSet <=> RunCode(Call(w), code[w])
           /\ w \in StuckSet <=> SpinCode(code[w]) /\ code[w][1].step = step[w[1]]
           /\ \A d : w \in HasSet(d) <=> Has(code[w], d)
           /\ CodeOK(Call(w), w, T, code[w]) /\ IsSeq(code[w])
           /\ w[1] \in 0 .. H - 1 /\ w[2] \in 0 .. T - 1 /\ w = <<w[1], w[2]>>
           /\ H \in Nat \ {0} /\ T \in Nat \ {0}
           /\ at[w] \in Nat
<1>1. /\ w \in AheadSet <=> AheadCode(Call(w), w, T, code[w])
      /\ w \in RunSet <=> RunCode(Call(w), code[w])
      /\ w \in StuckSet <=> SpinCode(code[w]) /\ code[w][1].step = step[w[1]]
      /\ \A d : w \in HasSet(d) <=> Has(code[w], d)
  BY DEF AheadSet, RunSet, StuckSet, HasSet
<1>2. CodeOK(Call(w), w, T, code[w]) /\ IsSeq(code[w])
  BY DEF InvCode, CodeOK
<1>3. w[1] \in 0 .. H - 1 /\ w[2] \in 0 .. T - 1 /\ w = <<w[1], w[2]>>
  BY DEF Worker
<1>4. at[w] \in Nat
  BY DEF InvTypes
<1> QED BY <1>1, <1>2, <1>3, <1>4, CaseFacts

\* The places exclude each other.
LEMMA Places ==
    ASSUME InvTypes, InvCode
    PROVE  /\ AheadSet \cap RunSet = {} /\ AheadSet \cap StuckSet = {} /\ RunSet \cap StuckSet = {}
           /\ AheadSet \subseteq Worker /\ RunSet \subseteq Worker /\ StuckSet \subseteq Worker
           /\ Inside \subseteq Worker
           /\ \A w \in RunSet \cup StuckSet :
                 /\ w \notin HasSet("share") /\ w \notin HasSet("count")
                 /\ w \notin HasSet("fetch") /\ w \notin HasSet("await")
           /\ HasSet("generation") \subseteq RunSet
           /\ HasSet("fetch") \subseteq AheadSet
           /\ \A w \in Inside : code[w] # <<>> /\ Call(w).op \in Meeting /\ at[w] \in 1 .. Len(case.calls)
<1>1. AheadSet \subseteq Worker /\ RunSet \subseteq Worker /\ StuckSet \subseteq Worker
  BY DEF AheadSet, RunSet, StuckSet
<1>2. ASSUME NEW w \in Worker
      PROVE  /\ ~(w \in AheadSet /\ w \in RunSet) /\ ~(w \in AheadSet /\ w \in StuckSet)
             /\ ~(w \in RunSet /\ w \in StuckSet)
             /\ w \in Inside => ~LeaveCode(T, code[w]) /\ code[w] # <<>>
  BY Place, Exclusive DEF Inside
<1>3. ASSUME NEW w \in Worker, w \in RunSet \cup StuckSet
      PROVE  /\ w \notin HasSet("share") /\ w \notin HasSet("count")
             /\ w \notin HasSet("fetch") /\ w \notin HasSet("await")
  BY <1>3, Place, PlaceHas DEF Control
<1>4. ASSUME NEW w \in Worker, w \in HasSet("generation") PROVE w \in RunSet
  BY <1>4, Place, PlaceHas DEF Control, CodeOK
<1>5. ASSUME NEW w \in Worker, w \in HasSet("fetch") PROVE w \in AheadSet
  BY <1>5, Place, PlaceHas DEF Control, CodeOK
<1>6. ASSUME NEW w \in Worker, w \in Inside
      PROVE  code[w] # <<>> /\ Call(w).op \in Meeting /\ at[w] \in 1 .. Len(case.calls)
  <2>1. code[w] # <<>> /\ Call(w).op \in Meeting
    BY <1>2, <1>6, Place DEF CodeOK
  <2> QED BY <2>1 DEF InvCode
<1>7. HasSet("generation") \subseteq Worker /\ HasSet("fetch") \subseteq Worker
  BY DEF HasSet
<1> QED BY <1>1, <1>2, <1>3, <1>4, <1>5, <1>6, <1>7 DEF Inside

\* The variables of Inv other than code and shmem.
Still == <<case, at, slot, goal, counter, generation, waiting, step>>

\* A step with which a thread goes on, or sets its pointer, without changing its
\* place.
LEMMA SamePlace ==
    ASSUME Inv, NEW w \in Worker, NEW s, code' = [code EXCEPT ![w] = s], UNCHANGED Still,
           shmem' = [v \in Worker |-> [i \in {0, 1} |-> shmem'[v][i]]],
           \A v \in Worker \ {w} : shmem'[v] = shmem[v],
           w \in Inside /\ (w \in Sharers \/ (w \in Preds /\ w[2] + 1 # T))
               => Has(s, "share") \/ shmem'[w][slot[w]].call = at[w],
           CodeOK(Call(w), w, T, s), s # <<>> => code[w] # <<>>,
           AheadCode(Call(w), w, T, s) <=> w \in AheadSet,
           RunCode(Call(w), s) <=> w \in RunSet,
           SpinCode(s) /\ s[1].step = step[w[1]] <=> w \in StuckSet,
           Has(s, "count") <=> w \in HasSet("count"),
           Has(s, "generation") <=> w \in HasSet("generation"),
           Has(s, "fetch") /\ ~Has(s, "await") => Previous(w) \in Counted
    PROVE  Inv'
<1> USE DEF Still
<1>0. InvTypes /\ InvCode
  BY DEF Inv
<1>1. /\ Worker' = Worker /\ H' = H /\ T' = T /\ code'[w] = s
      /\ \A v \in Worker \ {w} :
            /\ code'[v] = code[v]
            /\ Call(v)' = Call(v)
            /\ v \in AheadSet' <=> v \in AheadSet
            /\ v \in RunSet' <=> v \in RunSet
            /\ v \in StuckSet' <=> v \in StuckSet
            /\ \A d : v \in HasSet(d)' <=> v \in HasSet(d)
      /\ code' = [v \in Worker' |-> code'[v]]
  BY <1>0, Others
<1>2. Call(w)' = Call(w)
  BY DEF Call
<1>3. /\ w \in AheadSet' <=> w \in AheadSet
      /\ w \in RunSet' <=> w \in RunSet
      /\ w \in StuckSet' <=> w \in StuckSet
      /\ \A d : w \in HasSet(d)' <=> Has(s, d)
  <2>1. w \in AheadSet' <=> AheadCode(Call(w)', w, T', code'[w])
    BY <1>1 DEF AheadSet
  <2>2. w \in RunSet' <=> RunCode(Call(w)', code'[w])
    BY <1>1 DEF RunSet
  <2>3. w \in StuckSet' <=> SpinCode(code'[w]) /\ code'[w][1].step = step'[w[1]]
    BY <1>1 DEF StuckSet
  <2>4. \A d : w \in HasSet(d)' <=> Has(code'[w], d)
    BY <1>1 DEF HasSet
  <2> QED BY <1>1, <1>2, <2>1, <2>2, <2>3, <2>4
<1>4. AheadSet' = AheadSet /\ RunSet' = RunSet /\ StuckSet' = StuckSet
  <2>1. /\ AheadSet \subseteq Worker /\ RunSet \subseteq Worker /\ StuckSet \subseteq Worker
        /\ AheadSet' \subseteq Worker' /\ RunSet' \subseteq Worker' /\ StuckSet' \subseteq Worker'
    BY DEF AheadSet, RunSet, StuckSet
  <2>2. \A v \in Worker : /\ v \in AheadSet' <=> v \in AheadSet
                          /\ v \in RunSet' <=> v \in RunSet
                          /\ v \in StuckSet' <=> v \in StuckSet
    BY <1>1, <1>3
  <2>3. AheadSet' \in SUBSET Worker /\ RunSet' \in SUBSET Worker /\ StuckSet' \in SUBSET Worker
    BY <1>1, <2>1
  <2>4. AheadSet' = AheadSet
    BY <2>1, <2>2, <2>3
  <2>5. RunSet' = RunSet
    BY <2>1, <2>2, <2>3
  <2>6. StuckSet' = StuckSet
    BY <2>1, <2>2, <2>3
  <2> QED BY <2>4, <2>5, <2>6
<1>5. Inside' = Inside
  BY <1>4 DEF Inside
<1>6. /\ HasSet("count")' = HasSet("count")
      /\ HasSet("generation")' = HasSet("generation")
  <2>1. \A d : HasSet(d) \subseteq Worker /\ HasSet(d)' \subseteq Worker'
    BY DEF HasSet
  <2>2. \A v \in Worker : /\ v \in HasSet("count")' <=> v \in HasSet("count")
                          /\ v \in HasSet("generation")' <=> v \in HasSet("generation")
    BY <1>1, <1>3
  <2>3. \A d : HasSet(d)' \in SUBSET Worker /\ HasSet(d) \in SUBSET Worker
    BY <1>1, <2>1
  <2>4. HasSet("count")' = HasSet("count")
    BY <2>2, <2>3
  <2>5. HasSet("generation")' = HasSet("generation")
    BY <2>2, <2>3
  <2> QED BY <2>4, <2>5
<1>7. \A v \in Worker : Call(v)' = Call(v)
  BY <1>1, <1>2
<1>8. Preds' = Preds /\ Sharers' = Sharers
  <2>1. Inside \subseteq Worker
    BY <1>0, Places
  <2> QED BY <1>5, <1>7, <2>1 DEF Preds, Sharers
<1>9. Counted' = Counted /\ Advanced' = Advanced
  BY <1>4, <1>6, <1>8 DEF Counted, Advanced
<1>10. InvTypes'
  BY <1>0, <1>1 DEF InvTypes
<1>11. InvCode'
  <2> SUFFICES ASSUME NEW v \in Worker
               PROVE  /\ CodeOK(Call(v)', v, T', code'[v])
                      /\ code'[v] # <<>> => at'[v] \in 1 .. Len(case'.calls)
    BY <1>1 DEF InvCode
  <2> QED BY <1>0, <1>1, <1>2 DEF InvCode
<1>12. InvAligned'
  BY <1>1, <1>5 DEF Inv, InvAligned, Passed
<1>13. InvBarrier'
  <2>1. \A h : StuckAt(h)' = StuckAt(h)
    BY <1>1, <1>4 DEF StuckAt
  <2> QED BY <1>1, <1>4, <2>1 DEF Inv, InvBarrier
<1>14. InvSlot'
  BY <1>5 DEF Inv, InvSlot, GetNextStep
<1>15. InvShared'
  <2>1. Inside \subseteq Worker
    BY <1>0, Places
  <2>2. ASSUME NEW v \in Inside, v \in Sharers \/ (v \in Preds /\ v[2] + 1 # T)
        PROVE  v \in HasSet("share")' \/ shmem'[v][slot[v]].call = at[v]
    <3>1. CASE v = w
      BY <1>3, <2>2, <3>1
    <3>2. CASE v # w
      BY <1>1, <2>1, <2>2, <3>2 DEF Inv, InvShared
    <3> QED BY <3>1, <3>2
  <2> QED BY <1>1, <1>5, <1>8, <2>2 DEF InvShared
<1>16. InvCount' /\ InvGoal'
  BY <1>1, <1>4, <1>9 DEF Inv, InvCount, InvGoal
<1>17. InvFetch'
  <2>1. Previous(w)' = Previous(w)
    BY DEF Previous
  <2>2. ASSUME NEW v \in Worker, v \in HasSet("fetch")' /\ v \notin HasSet("await")'
        PROVE  Previous(v) \in Counted
    BY <1>1, <1>3, <2>2 DEF Inv, InvFetch
  <2> QED BY <1>1, <1>9, <2>2 DEF InvFetch, Previous
<1> QED BY <1>10, <1>11, <1>12, <1>13, <1>14, <1>15, <1>16, <1>17 DEF Inv

\* A step with which a thread goes on without changing its place.
LEMMA Quiet ==
    ASSUME Inv, NEW w \in Worker, NEW s, code' = [code EXCEPT ![w] = s], UNCHANGED <<Still, shmem>>,
           CodeOK(Call(w), w, T, s), s # <<>> => code[w] # <<>>,
           AheadCode(Call(w), w, T, s) <=> w \in AheadSet,
           RunCode(Call(w), s) <=> w \in RunSet,
           SpinCode(s) /\ s[1].step = step[w[1]] <=> w \in StuckSet,
           Has(s, "share") <=> w \in HasSet("share"),
           Has(s, "count") <=> w \in HasSet("count"),
           Has(s, "generation") <=> w \in HasSet("generation"),
           Has(s, "fetch") /\ ~Has(s, "await") => Previous(w) \in Counted
    PROVE  Inv'
<1>1. shmem' = [v \in Worker |-> [i \in {0, 1} |-> shmem'[v][i]]]
  BY DEF Inv, InvTypes
<1>2. \A v \in Worker \ {w} : shmem'[v] = shmem[v]
  OBVIOUS
<1>3. w \in Inside /\ (w \in Sharers \/ (w \in Preds /\ w[2] + 1 # T))
          => Has(s, "share") \/ shmem'[w][slot[w]].call = at[w]
  BY DEF Inv, InvShared
<1>4. UNCHANGED Still
  OBVIOUS
<1> QED BY <1>1, <1>2, <1>3, <1>4, SamePlace

\* Nothing that the invariant is about changes.
LEMMA Unmoved ==
    ASSUME Inv, UNCHANGED <<Still, shmem, code>>
    PROVE  Inv'
<1>1. InvTypes /\ InvCode
  BY DEF Inv
<1>2. <<0, 0>> \in Worker
  BY <1>1, CaseFacts DEF Worker
<1> DEFINE w == <<0, 0>>
<1> HIDE DEF w
<1>3. w \in Worker
  BY <1>2 DEF w
<1>4. code' = [code EXCEPT ![w] = code[w]]
  BY <1>1, <1>3 DEF InvTypes
<1>5. UNCHANGED <<Still, shmem>>
  OBVIOUS
<1>6. Has(code[w], "fetch") /\ ~Has(code[w], "await") => Previous(w) \in Counted
  BY <1>1, <1>3, Place DEF Inv, InvFetch
<1> QED BY <1>1, <1>3, <1>4, <1>5, <1>6, Place, Quiet

\* A step behind an instruction that neither the barrier nor the counters know.
LEMMA Popped ==
    ASSUME Inv, NEW w \in Worker, code[w] # <<>>, Advance(w), UNCHANGED <<Still, shmem>>,
           code[w][1].do \notin {"barrier", "release", "spin", "return", "share", "count", "generation"},
           code[w][1].do = "await" => Previous(w) \in Counted
    PROVE  Inv'
<1> DEFINE s == Tail(code[w])
           c == Call(w)
<1>1. InvTypes /\ InvCode
  BY DEF Inv
<1>2. code' = [code EXCEPT ![w] = s]
  BY DEF Advance
<1>3. CodeOK(c, w, T, code[w])
  BY <1>1, Place
<1> HIDE DEF s, c
<1>4. /\ CodeOK(c, w, T, s)
      /\ AheadCode(c, w, T, s) <=> AheadCode(c, w, T, code[w])
      /\ RunCode(c, s) <=> RunCode(c, code[w])
      /\ ~SpinCode(code[w]) /\ ~SpinCode(s)
      /\ \A d : Has(code[w], d) <=> code[w][1].do = d \/ Has(s, d)
  BY <1>3, CodePop DEF s
<1>5. /\ w \in AheadSet <=> AheadCode(c, w, T, code[w])
      /\ w \in RunSet <=> RunCode(c, code[w])
      /\ w \in StuckSet <=> SpinCode(code[w]) /\ code[w][1].step = step[w[1]]
      /\ \A d : w \in HasSet(d) <=> Has(code[w], d)
  BY <1>1, Place DEF c
<1>6. Has(s, "fetch") /\ ~Has(s, "await") => Previous(w) \in Counted
  <2>1. code[w][1].do # "await" => (Has(s, "await") <=> w \in HasSet("await"))
    BY <1>4, <1>5
  <2>2. Has(s, "fetch") => w \in HasSet("fetch")
    BY <1>4, <1>5
  <2> QED BY <2>1, <2>2 DEF Inv, InvFetch
<1>7. /\ Has(s, "share") <=> w \in HasSet("share")
      /\ Has(s, "count") <=> w \in HasSet("count")
      /\ Has(s, "generation") <=> w \in HasSet("generation")
  BY <1>4, <1>5
<1> QED BY <1>1, <1>2, <1>4, <1>5, <1>6, <1>7, Quiet DEF c

\* What stands at the head of the code.
LEMMA AtHead ==
    ASSUME Inv, NEW w \in Worker, code[w] # <<>>
    PROVE  /\ Head(code[w]) = code[w][1]
           /\ code[w][1].do = "return" => LeaveCode(T, code[w]) /\ Len(code[w]) = 1
           /\ code[w][1].do = "spin" => SpinCode(code[w])
           /\ code[w][1].do = "barrier" => w \in AheadSet /\ Len(code[w]) = 2
           /\ code[w][1].do = "release" => w \in RunSet /\ Len(code[w]) = 2
           /\ code[w][1].do \in {"share", "count", "await", "fetch"} => w \in AheadSet
           /\ code[w][1].do = "generation" => w \in RunSet
           /\ code[w][1].do \in {"count", "await", "fetch", "generation"} => Call(w).op = "Predecessor"
<1> DEFINE s == code[w]
           c == Call(w)
           k == code[w][1].do
<1>1. InvTypes /\ InvCode
  BY DEF Inv
<1>2. /\ w \in AheadSet <=> AheadCode(c, w, T, s)
      /\ w \in RunSet <=> RunCode(c, s)
      /\ CodeOK(c, w, T, s) /\ IsSeq(s)
  BY <1>1, Place
<1> HIDE DEF s, c
<1>3. s # <<>>
  BY DEF s
<1>4. /\ AheadCode(c, w, T, s) => \/ s[1].do = "barrier" /\ Len(s) = 2
                                  \/ AheadOK(c, w, T, s[1]) /\ Len(s) > 2
      /\ RunCode(c, s) => \/ s[1].do = "release" /\ Len(s) = 2
                          \/ RunOK(c, s[1]) /\ Len(s) > 2
      /\ LeaveCode(T, s) => \/ s[1].do = "return" /\ Len(s) = 1
                            \/ GroupOK(s[1]) /\ Len(s) > 1
  BY <1>2, <1>3, HeadKinds
<1>5. /\ AheadOK(c, w, T, s[1]) => /\ s[1].do \notin {"barrier", "release", "spin", "return", "generation"}
                                   /\ s[1].do \in {"count", "await", "fetch"} => c.op = "Predecessor"
      /\ RunOK(c, s[1]) => /\ s[1].do \notin {"barrier", "release", "spin", "return", "share", "count", "await", "fetch"}
                           /\ s[1].do = "generation" => c.op = "Predecessor"
      /\ GroupOK(s[1]) => s[1].do \notin Control
  BY DEF AheadOK, RunOK, GroupOK, Comm, Sends, Receives, Control
<1>6. SpinCode(s) => s[1].do = "spin"
  BY DEF SpinCode
<1>7. LeaveCode(T, s) \/ AheadCode(c, w, T, s) \/ RunCode(c, s) \/ SpinCode(s)
  BY <1>2, <1>3 DEF CodeOK
<1>8. Head(s) = s[1]
  BY <1>2, <1>3, TailFacts
<1>9. CASE LeaveCode(T, s)
  BY <1>4, <1>5, <1>8, <1>9 DEF s, c, Control
<1>10. CASE AheadCode(c, w, T, s)
  BY <1>2, <1>4, <1>5, <1>8, <1>10 DEF s, c
<1>11. CASE RunCode(c, s)
  BY <1>2, <1>4, <1>5, <1>8, <1>11 DEF s, c
<1>12. CASE SpinCode(s)
  BY <1>6, <1>8, <1>12 DEF s, c
<1> QED BY <1>7, <1>9, <1>10, <1>11, <1>12

\* A local computation keeps the invariant.
LEMMA ComputeInv == ASSUME Inv, NEW w \in Worker, Compute(w) PROVE Inv'
<1>1. code[w] # <<>> /\ code[w][1].do = "calc" /\ Advance(w) /\ UNCHANGED <<Still, shmem>>
  BY AtHead DEF Compute, Executes, Still, callVars, sharedVars, barrierVars
<1> QED BY <1>1, Popped

\* A send that was received keeps the invariant.
LEMMA FlushInv == ASSUME Inv, NEW w \in Worker, Flush(w) PROVE Inv'
<1>1. code[w] # <<>> /\ code[w][1].do = "flush" /\ Advance(w) /\ UNCHANGED <<Still, shmem>>
  BY AtHead DEF Flush, Executes, Still, callVars, sharedVars, barrierVars
<1> QED BY <1>1, Popped

\* Receiving keeps the invariant.
LEMMA ReceiveInv == ASSUME Inv, NEW w \in Worker, Receive(w) PROVE Inv'
<1>1. code[w] # <<>> /\ code[w][1].do \in Receives /\ Advance(w) /\ UNCHANGED <<Still, shmem>>
  BY AtHead DEF Receive, Executes, Still, callVars, sharedVars, barrierVars
<1> QED BY <1>1, Popped DEF Receives

\* Taking the predecessor's items keeps the invariant.
LEMMA FetchInv == ASSUME Inv, NEW w \in Worker, Fetch(w) PROVE Inv'
<1>1. code[w] # <<>> /\ code[w][1].do = "fetch" /\ Advance(w) /\ UNCHANGED <<Still, shmem>>
  BY AtHead DEF Fetch, Executes, Still, callVars, sharedVars, barrierVars
<1> QED BY <1>1, Popped

\* Sending keeps the invariant.
LEMMA SendInv == ASSUME Inv, NEW w \in Worker, Send(w) PROVE Inv'
<1> DEFINE i == Head(code[w])
           x == [do |-> "flush", peer |-> i.peer]
           t == <<x>> \o Tail(code[w])
<1>1. code[w] # <<>> /\ code[w][1].do \in Sends /\ i = code[w][1] /\ UNCHANGED <<Still, shmem>>
  BY AtHead DEF Send, Executes, Still, callVars, sharedVars, barrierVars
<1>2. code' = [code EXCEPT ![w] = When(~case.buffered, <<x>>) \o Tail(code[w])]
  BY DEF Send
<1>3. InvTypes /\ InvCode
  BY DEF Inv
<1>4. CASE case.buffered
  <2>1. When(~case.buffered, <<x>>) = <<>>
    BY <1>4 DEF When
  <2>2. IsSeq(Tail(code[w]))
    BY <1>1, <1>3, Place, TailFacts
  <2>3. <<>> \o Tail(code[w]) = Tail(code[w])
    BY <2>2 DEF IsSeq
  <2>4. Advance(w)
    BY <1>2, <2>1, <2>3 DEF Advance
  <2> QED BY <1>1, <2>4, Popped DEF Sends
<1>5. CASE ~case.buffered
  <2>1. code' = [code EXCEPT ![w] = t]
    BY <1>2, <1>5 DEF When
  <2>2. x.do = "flush" /\ x.peer = code[w][1].peer
    BY <1>1
  <2> HIDE DEF x
  <2>3. t = <<x>> \o Tail(code[w])
    OBVIOUS
  <2> HIDE DEF t
  <2>4. CodeOK(Call(w), w, T, code[w])
    BY <1>3, Place
  <2>5. /\ CodeOK(Call(w), w, T, t)
        /\ AheadCode(Call(w), w, T, t) <=> AheadCode(Call(w), w, T, code[w])
        /\ RunCode(Call(w), t) <=> RunCode(Call(w), code[w])
        /\ ~SpinCode(code[w]) /\ ~SpinCode(t)
        /\ \A d \in Control : Has(t, d) <=> Has(code[w], d)
    <3> DEFINE s == code[w]
               c == Call(w)
    <3>1. CodeOK(c, w, T, s) /\ s # <<>> /\ s[1].do \in Sends /\ x.peer = s[1].peer /\ t = <<x>> \o Tail(s)
      BY <1>1, <2>2, <2>3, <2>4
    <3> HIDE DEF s, c, i
    <3>2. /\ CodeOK(c, w, T, t)
          /\ AheadCode(c, w, T, t) <=> AheadCode(c, w, T, s)
          /\ RunCode(c, t) <=> RunCode(c, s)
          /\ ~SpinCode(s) /\ ~SpinCode(t)
          /\ \A d \in Control : Has(t, d) <=> Has(s, d)
      BY <2>2, <3>1, CodeFlush
    <3> QED BY <3>2 DEF s, c
  <2>6. /\ w \in AheadSet <=> AheadCode(Call(w), w, T, code[w])
        /\ w \in RunSet <=> RunCode(Call(w), code[w])
        /\ w \in StuckSet <=> SpinCode(code[w]) /\ code[w][1].step = step[w[1]]
        /\ \A d : w \in HasSet(d) <=> Has(code[w], d)
    BY <1>3, Place
  <2>7. /\ Has(t, "share") <=> w \in HasSet("share")
        /\ Has(t, "count") <=> w \in HasSet("count")
        /\ Has(t, "generation") <=> w \in HasSet("generation")
        /\ Has(t, "fetch") <=> w \in HasSet("fetch")
        /\ Has(t, "await") <=> w \in HasSet("await")
    BY <2>5, <2>6 DEF Control
  <2>8. Has(t, "fetch") /\ ~Has(t, "await") => Previous(w) \in Counted
    BY <2>7 DEF Inv, InvFetch
  <2> QED BY <1>1, <2>1, <2>5, <2>6, <2>7, <2>8, Quiet
<1> QED BY <1>4, <1>5

\* A wait ends when the predecessor has counted.
LEMMA WaitCounterInv == ASSUME Inv, NEW w \in Worker, WaitCounter(w) PROVE Inv'
<1>1. InvTypes /\ InvCode
  BY DEF Inv
<1>2. /\ code[w] # <<>> /\ code[w][1].do = "await" /\ UNCHANGED <<Still, shmem>>
      /\ w \in AheadSet /\ Call(w).op = "Predecessor"
  BY AtHead DEF WaitCounter, Executes, Still, callVars, sharedVars, barrierVars
<1>3. CASE counter[Previous(w)] # goal[w]
  <2>1. UNCHANGED code
    BY <1>3 DEF WaitCounter
  <2> QED BY <1>2, <2>1, Unmoved
<1>4. CASE counter[Previous(w)] = goal[w]
  <2>1. Advance(w)
    BY <1>4 DEF WaitCounter
  <2>2. goal[w] = generation[w[1]] + 1
    BY <1>2 DEF Inv, InvGoal
  <2>3. generation[w[1]] \in Nat
    BY <1>1, Place DEF InvTypes
  <2>4. w[2] # 0
    <3>1. AheadCode(Call(w), w, T, code[w]) /\ IsSeq(code[w])
      BY <1>1, <1>2, Place
    <3>2. AheadOK(Call(w), w, T, code[w][1])
      BY <1>2, <3>1, HeadKinds
    <3> QED BY <1>2, <3>2 DEF AheadOK, Comm, Sends, Receives
  <2>5. Previous(w) \in Worker /\ Previous(w)[1] = w[1]
    BY <1>1, <2>4, Place DEF Worker, Previous
  <2>6. counter[Previous(w)] # generation[w[1]]
    BY <1>4, <2>2, <2>3
  <2>7. Previous(w) \in Counted
    BY <2>3, <2>5, <2>6 DEF Inv, InvCount
  <2> QED BY <1>2, <2>1, <2>7, Popped
<1> QED BY <1>3, <1>4

-----------------------------------------------------------------------------
(* Leaving a call.                                                         *)

\* The last instruction of a call.
LEMMA LeaveReturn ==
    ASSUME NEW n, NEW s, Len(s) = 1, s[1].do = "return"
    PROVE  LeaveCode(n, s)
<1>1. Len(s) >= 1 /\ s[Len(s)].do = "return" /\ ~(Len(s) > 1)
  OBVIOUS
<1>2. \A i \in 1 .. Len(s) - 1 : FALSE
  OBVIOUS
<1> QED BY <1>1, <1>2 DEF LeaveCode

\* The code of a thread that returns, and of one that has returned.
LEMMA CodeEnd ==
    ASSUME NEW c, NEW w, NEW n, NEW s, IsSeq(s), s = <<>> \/ (Len(s) = 1 /\ s[1].do = "return")
    PROVE  /\ CodeOK(c, w, n, s) /\ ~AheadCode(c, w, n, s) /\ ~RunCode(c, s) /\ ~SpinCode(s)
           /\ \A d \in Control \ {"return"} : ~Has(s, d)
<1>1. Len(s) = 0 \/ Len(s) = 1
  BY SeqFacts
<1>2. ~AheadCode(c, w, n, s) /\ ~RunCode(c, s) /\ ~SpinCode(s)
  BY <1>1 DEF AheadCode, RunCode, SpinCode
<1>3. \A d \in Control \ {"return"} : ~Has(s, d)
  BY <1>1, SeqFacts DEF Has
<1>4. Once(s, "count") /\ Once(s, "generation") /\ Behind(s)
  BY <1>3 DEF Once, Behind, Has, Control
<1>5. s # <<>> => LeaveCode(n, s)
  BY LeaveReturn
<1> QED BY <1>2, <1>3, <1>4, <1>5 DEF CodeOK

\* A thread outside its call goes on outside.
LEMMA OutsideStays ==
    ASSUME Inv, NEW w \in Worker, NEW s, code' = [code EXCEPT ![w] = s], UNCHANGED <<Still, shmem>>,
           IsSeq(s), s = <<>> \/ (Len(s) = 1 /\ s[1].do = "return"),
           w \notin Inside, code[w] # <<>>
    PROVE  Inv'
<1>1. InvTypes /\ InvCode
  BY DEF Inv
<1>2. /\ CodeOK(Call(w), w, T, s) /\ ~AheadCode(Call(w), w, T, s) /\ ~RunCode(Call(w), s) /\ ~SpinCode(s)
      /\ ~Has(s, "share") /\ ~Has(s, "count") /\ ~Has(s, "generation") /\ ~Has(s, "fetch")
  BY CodeEnd DEF Control
<1>3. w \notin HasSet("share") /\ w \notin HasSet("count") /\ w \notin HasSet("generation")
  <2>1. /\ w \in AheadSet <=> AheadCode(Call(w), w, T, code[w])
        /\ w \in RunSet <=> RunCode(Call(w), code[w])
        /\ \A d : w \in HasSet(d) <=> Has(code[w], d)
        /\ CodeOK(Call(w), w, T, code[w]) /\ IsSeq(code[w])
    BY <1>1, Place
  <2>2. LeaveCode(T, code[w]) \/ SpinCode(code[w])
    BY <2>1 DEF CodeOK, Inside
  <2>3. ~Has(code[w], "share") /\ ~Has(code[w], "count") /\ ~Has(code[w], "generation")
    BY <2>1, <2>2, PlaceHas DEF Control
  <2> QED BY <2>1, <2>3
<1>4. w \notin AheadSet /\ w \notin RunSet /\ w \notin StuckSet
  BY DEF Inside
<1> QED BY <1>2, <1>3, <1>4, Quiet

\* Returning keeps the invariant.
LEMMA ReturnInv == ASSUME Inv, NEW w \in Worker, Return(w) PROVE Inv'
<1>1. InvTypes /\ InvCode
  BY DEF Inv
<1>2. code[w] # <<>> /\ code[w][1].do = "return" /\ Advance(w) /\ UNCHANGED <<Still, shmem>>
  BY AtHead DEF Return, Executes, Still, sharedVars, barrierVars
<1>3. LeaveCode(T, code[w]) /\ Len(code[w]) = 1
  BY <1>2, AtHead
<1>4. IsSeq(code[w])
  BY <1>1, Place
<1>5. IsSeq(Tail(code[w])) /\ Tail(code[w]) = <<>>
  <2>1. IsSeq(Tail(code[w])) /\ Len(Tail(code[w])) = 0
    BY <1>2, <1>3, <1>4, TailFacts
  <2> DEFINE t == Tail(code[w])
  <2> HIDE DEF t
  <2>2. IsSeq(t) /\ Len(t) = 0
    BY <2>1 DEF t
  <2>3. t = <<>>
    BY <2>2, SeqFacts
  <2> QED BY <2>2, <2>3 DEF t
<1>6. w \notin Inside
  BY <1>1, <1>3, <1>4, Place, Exclusive DEF Inside
<1> QED BY <1>2, <1>5, <1>6, OutsideStays DEF Advance

\* A turn of the loop at the barrier keeps the invariant: when step_ has moved on,
\* the thread has passed the barrier already.
LEMMA SpinInv == ASSUME Inv, NEW w \in Worker, Spin(w) PROVE Inv'
<1>1. InvTypes /\ InvCode
  BY DEF Inv
<1>2. code[w] # <<>> /\ code[w][1].do = "spin" /\ Head(code[w]) = code[w][1] /\ UNCHANGED <<Still, shmem>>
  BY AtHead DEF Spin, Executes, Still, callVars, sharedVars, barrierVars
<1>3. CASE step[w[1]] = Head(code[w]).step
  BY <1>2, <1>3, Unmoved DEF Spin
<1>4. CASE step[w[1]] # Head(code[w]).step
  <2>1. Advance(w)
    BY <1>4 DEF Spin
  <2>2. SpinCode(code[w]) /\ IsSeq(code[w])
    BY <1>1, <1>2, AtHead, Place
  <2>3. IsSeq(Tail(code[w])) /\ Len(Tail(code[w])) = 1 /\ Tail(code[w])[1].do = "return"
    <3>1. Len(code[w]) = 2 /\ code[w][2].do = "return"
      BY <2>2 DEF SpinCode
    <3> QED BY <1>2, <2>2, <3>1, TailFacts
  <2>4. w \notin Inside
    <3>1. w \notin StuckSet
      BY <1>1, <1>2, <1>4, Place
    <3> QED BY <1>1, <2>2, <3>1, Place, Exclusive DEF Inside
  <2> QED BY <1>2, <2>1, <2>3, <2>4, OutsideStays DEF Advance
<1> QED BY <1>3, <1>4

\* What a step of w that leaves the other threads alone does to the places.
LEMMA Moved ==
    ASSUME Inv, NEW w \in Worker, NEW s, case' = case, code' = [code EXCEPT ![w] = s],
           \A v \in Worker \ {w} : at'[v] = at[v] /\ step'[v[1]] = step[v[1]]
    PROVE  /\ Worker' = Worker /\ H' = H /\ T' = T /\ code'[w] = s
           /\ code' = [v \in Worker' |-> code'[v]]
           /\ AheadSet' \subseteq Worker /\ RunSet' \subseteq Worker /\ StuckSet' \subseteq Worker
           /\ Inside' \subseteq Worker /\ Preds' \subseteq Inside' /\ Sharers' \subseteq Inside'
           /\ \A d : HasSet(d)' \subseteq Worker
           /\ \A v \in Worker \ {w} :
                 /\ code'[v] = code[v] /\ Call(v)' = Call(v)
                 /\ v \in AheadSet' <=> v \in AheadSet
                 /\ v \in RunSet' <=> v \in RunSet
                 /\ v \in StuckSet' <=> v \in StuckSet
                 /\ v \in Inside' <=> v \in Inside
                 /\ v \in Preds' <=> v \in Preds
                 /\ v \in Sharers' <=> v \in Sharers
                 /\ v \in Counted' <=> v \in Counted
                 /\ v \in Advanced' <=> v \in Advanced
                 /\ \A d : v \in HasSet(d)' <=> v \in HasSet(d)
           /\ w \in AheadSet' <=> AheadCode(Call(w)', w, T, s)
           /\ w \in RunSet' <=> RunCode(Call(w)', s)
           /\ w \in StuckSet' <=> SpinCode(s) /\ s[1].step = step'[w[1]]
           /\ \A d : w \in HasSet(d)' <=> Has(s, d)
<1>0. InvTypes
  BY DEF Inv
<1>1. /\ Worker' = Worker /\ H' = H /\ T' = T /\ code'[w] = s
      /\ code' = [v \in Worker' |-> code'[v]]
      /\ \A v \in Worker \ {w} :
            /\ code'[v] = code[v] /\ Call(v)' = Call(v)
            /\ v \in AheadSet' <=> v \in AheadSet
            /\ v \in RunSet' <=> v \in RunSet
            /\ v \in StuckSet' <=> v \in StuckSet
            /\ \A d : v \in HasSet(d)' <=> v \in HasSet(d)
  BY <1>0, Others
<1>2. /\ AheadSet' \subseteq Worker' /\ RunSet' \subseteq Worker' /\ StuckSet' \subseteq Worker'
      /\ \A d : HasSet(d)' \subseteq Worker'
  BY DEF AheadSet, RunSet, StuckSet, HasSet
<1>3. Inside' \subseteq Worker'
  BY <1>2 DEF Inside
<1>4. Preds' \subseteq Inside' /\ Sharers' \subseteq Inside'
  BY DEF Preds, Sharers
<1>5. /\ w \in AheadSet' <=> AheadCode(Call(w)', w, T, s)
      /\ w \in RunSet' <=> RunCode(Call(w)', s)
      /\ w \in StuckSet' <=> SpinCode(s) /\ s[1].step = step'[w[1]]
      /\ \A d : w \in HasSet(d)' <=> Has(s, d)
  <2>1. w \in AheadSet' <=> AheadCode(Call(w)', w, T', code'[w])
    BY <1>1 DEF AheadSet
  <2>2. w \in RunSet' <=> RunCode(Call(w)', code'[w])
    BY <1>1 DEF RunSet
  <2>3. w \in StuckSet' <=> SpinCode(code'[w]) /\ code'[w][1].step = step'[w[1]]
    BY <1>1 DEF StuckSet
  <2>4. \A d : w \in HasSet(d)' <=> Has(code'[w], d)
    BY <1>1 DEF HasSet
  <2> QED BY <1>1, <2>1, <2>2, <2>3, <2>4
<1>6. ASSUME NEW v \in Worker \ {w}
      PROVE  /\ v \in Inside' <=> v \in Inside
             /\ v \in Preds' <=> v \in Preds
             /\ v \in Sharers' <=> v \in Sharers
             /\ v \in Counted' <=> v \in Counted
             /\ v \in Advanced' <=> v \in Advanced
  <2>1. v \in Inside' <=> v \in Inside
    BY <1>1, <1>6 DEF Inside
  <2>2. v \in Preds' <=> v \in Preds
    BY <1>1, <1>6, <2>1 DEF Preds
  <2>3. v \in Sharers' <=> v \in Sharers
    BY <1>1, <1>6, <2>1 DEF Sharers
  <2> QED BY <1>1, <1>6, <2>1, <2>2, <2>3 DEF Counted, Advanced
<1> QED BY <1>1, <1>2, <1>3, <1>4, <1>5, <1>6

-----------------------------------------------------------------------------
(* Pointers and counters.                                                  *)

\* SetLocalShared keeps the invariant.
LEMMA SetLocalSharedInv == ASSUME Inv, NEW w \in Worker, SetLocalShared(w) PROVE Inv'
<1> DEFINE s == Tail(code[w])
           c == Call(w)
<1>1. InvTypes /\ InvCode
  BY DEF Inv
<1>2. /\ code[w] # <<>> /\ code[w][1].do = "share" /\ UNCHANGED Still /\ w \in AheadSet
      /\ code' = [code EXCEPT ![w] = s]
  BY AtHead DEF SetLocalShared, Executes, Advance, Still, callVars, barrierVars
<1>3. CodeOK(c, w, T, code[w])
  BY <1>1, Place
<1>4. /\ w \in AheadSet <=> AheadCode(c, w, T, code[w])
      /\ w \in RunSet <=> RunCode(c, code[w])
      /\ w \in StuckSet <=> SpinCode(code[w]) /\ code[w][1].step = step[w[1]]
      /\ \A d : w \in HasSet(d) <=> Has(code[w], d)
  BY <1>1, Place
<1>5. /\ shmem' = [v \in Worker |-> [i \in {0, 1} |-> shmem'[v][i]]]
      /\ \A v \in Worker \ {w} : shmem'[v] = shmem[v]
      /\ shmem'[w][slot[w]].call = at[w]
  <2>1. shmem' = [shmem EXCEPT ![w][slot[w]] = [call |-> at[w], reg |-> Head(code[w]).reg]]
    BY DEF SetLocalShared
  <2>2. slot[w] \in {0, 1} /\ shmem = [v \in Worker |-> [i \in {0, 1} |-> shmem[v][i]]]
    BY <1>1 DEF InvTypes
  <2> DEFINE r == [call |-> at[w], reg |-> Head(code[w]).reg]
  <2>3. r.call = at[w]
    OBVIOUS
  <2> HIDE DEF r
  <2>4. shmem' = [shmem EXCEPT ![w] = [shmem[w] EXCEPT ![slot[w]] = r]]
    BY <2>1 DEF r
  <2>5. shmem'[w] = [shmem[w] EXCEPT ![slot[w]] = r] /\ \A v \in Worker \ {w} : shmem'[v] = shmem[v]
    BY <2>2, <2>4
  <2>6. shmem[w] = [i \in {0, 1} |-> shmem[w][i]]
    BY <2>2
  <2>7. shmem'[w][slot[w]] = r /\ shmem'[w] = [i \in {0, 1} |-> shmem'[w][i]]
    BY <2>2, <2>5, <2>6
  <2>8. \A v \in Worker : shmem'[v] = [i \in {0, 1} |-> shmem'[v][i]]
    BY <2>2, <2>5, <2>7
  <2>9. shmem' = [v \in Worker |-> shmem'[v]]
    BY <2>2, <2>4
  <2> QED BY <2>3, <2>5, <2>7, <2>8, <2>9
<1> HIDE DEF s, c
<1>6. /\ CodeOK(c, w, T, s)
      /\ AheadCode(c, w, T, s) <=> AheadCode(c, w, T, code[w])
      /\ RunCode(c, s) <=> RunCode(c, code[w])
      /\ ~SpinCode(code[w]) /\ ~SpinCode(s)
      /\ \A d : Has(code[w], d) <=> code[w][1].do = d \/ Has(s, d)
  BY <1>2, <1>3, CodePop DEF s
<1>7. /\ Has(s, "count") <=> w \in HasSet("count")
      /\ Has(s, "generation") <=> w \in HasSet("generation")
      /\ Has(s, "fetch") <=> w \in HasSet("fetch")
      /\ Has(s, "await") <=> w \in HasSet("await")
  BY <1>2, <1>4, <1>6
<1>8. Has(s, "fetch") /\ ~Has(s, "await") => Previous(w) \in Counted
  BY <1>7 DEF Inv, InvFetch
<1> QED BY <1>2, <1>4, <1>5, <1>6, <1>7, <1>8, SamePlace DEF c

\* IncCounter keeps the invariant.
LEMMA IncCounterInv == ASSUME Inv, NEW w \in Worker, IncCounter(w) PROVE Inv'
<1> DEFINE s == Tail(code[w])
           c == Call(w)
<1>1. InvTypes /\ InvCode
  BY DEF Inv
<1>2. /\ code[w] # <<>> /\ code[w][1].do = "count" /\ w \in AheadSet /\ c.op = "Predecessor"
      /\ code' = [code EXCEPT ![w] = s]
      /\ UNCHANGED <<case, at, slot, goal, shmem, generation, waiting, step>>
      /\ counter' = [counter EXCEPT ![w] = counter[w] + 1]
  BY AtHead DEF IncCounter, Executes, Advance, callVars, barrierVars
<1>3. CodeOK(c, w, T, code[w]) /\ IsSeq(code[w])
  BY <1>1, Place
<1>4. /\ w \in AheadSet <=> AheadCode(c, w, T, code[w])
      /\ w \in RunSet <=> RunCode(c, code[w])
      /\ w \in StuckSet <=> SpinCode(code[w]) /\ code[w][1].step = step[w[1]]
      /\ \A d : w \in HasSet(d) <=> Has(code[w], d)
      /\ w[1] \in 0 .. H - 1
  BY <1>1, Place
<1>5. /\ CodeOK(c, w, T, s)
      /\ AheadCode(c, w, T, s) <=> AheadCode(c, w, T, code[w])
      /\ RunCode(c, s) <=> RunCode(c, code[w])
      /\ ~SpinCode(code[w]) /\ ~SpinCode(s)
      /\ \A d : Has(code[w], d) <=> code[w][1].do = d \/ Has(s, d)
  <2> HIDE DEF c
  <2> QED BY <1>2, <1>3, CodePop
<1>6. ~Has(s, "count")
  BY <1>2, <1>3, HasTail DEF CodeOK
<1>7. Call(w)' = c
  BY <1>2 DEF Call
<1> HIDE DEF s, c
<1>8. /\ Worker' = Worker /\ H' = H /\ T' = T /\ code'[w] = s
      /\ code' = [v \in Worker' |-> code'[v]]
      /\ AheadSet' \subseteq Worker /\ RunSet' \subseteq Worker /\ StuckSet' \subseteq Worker
      /\ Inside' \subseteq Worker /\ Preds' \subseteq Inside' /\ Sharers' \subseteq Inside'
      /\ \A d : HasSet(d)' \subseteq Worker
      /\ \A v \in Worker \ {w} :
            /\ code'[v] = code[v] /\ Call(v)' = Call(v)
            /\ v \in AheadSet' <=> v \in AheadSet
            /\ v \in RunSet' <=> v \in RunSet
            /\ v \in StuckSet' <=> v \in StuckSet
            /\ v \in Inside' <=> v \in Inside
            /\ v \in Preds' <=> v \in Preds
            /\ v \in Sharers' <=> v \in Sharers
            /\ v \in Counted' <=> v \in Counted
            /\ v \in Advanced' <=> v \in Advanced
            /\ \A d : v \in HasSet(d)' <=> v \in HasSet(d)
      /\ w \in AheadSet' <=> AheadCode(Call(w)', w, T, s)
      /\ w \in RunSet' <=> RunCode(Call(w)', s)
      /\ w \in StuckSet' <=> SpinCode(s) /\ s[1].step = step'[w[1]]
      /\ \A d : w \in HasSet(d)' <=> Has(s, d)
  BY <1>2, Moved
<1>9. /\ w \in AheadSet' /\ w \notin RunSet /\ w \notin RunSet' /\ w \notin StuckSet /\ w \notin StuckSet'
      /\ w \in Inside /\ w \in Inside'
  BY <1>1, <1>2, <1>4, <1>5, <1>7, <1>8, Places DEF Inside
<1>10. /\ w \in Preds /\ w \in Preds' /\ w \notin Counted /\ w \in Counted'
       /\ w \notin Sharers /\ w \notin Sharers' /\ w \notin Advanced /\ w \notin Advanced'
  <2>1. w \in Preds /\ w \in Preds' /\ w \notin Sharers /\ w \notin Sharers'
    BY <1>2, <1>7, <1>9 DEF Preds, Sharers, Sharing, c
  <2> QED BY <1>2, <1>4, <1>5, <1>6, <1>8, <1>9, <2>1 DEF Counted, Advanced
<1>11. InvTypes'
  BY <1>1, <1>2, <1>8 DEF InvTypes
<1>12. InvCode'
  <2>1. \A v \in Worker : /\ CodeOK(Call(v)', v, T, code'[v])
                          /\ code'[v] # <<>> => code[v] # <<>>
    BY <1>1, <1>2, <1>5, <1>7, <1>8 DEF InvCode
  <2> QED BY <1>1, <1>2, <1>8, <2>1 DEF InvCode
<1>13. InvAligned'
  <2>1. \A v \in Worker : Passed(v)' = Passed(v)
    BY <1>2, <1>8, <1>9 DEF Passed
  <2> QED BY <1>8, <2>1 DEF Inv, InvAligned
<1>14. InvBarrier'
  <2>1. RunSet' = RunSet /\ StuckSet' = StuckSet
    <3>1. RunSet \subseteq Worker /\ StuckSet \subseteq Worker
      BY <1>1, Places
    <3>2. RunSet' = RunSet
      <4>1. \A v \in Worker : v \in RunSet' <=> v \in RunSet
        BY <1>8, <1>9
      <4>2. RunSet' \subseteq Worker
        BY <1>8
      <4> QED BY <3>1, <4>1, <4>2
    <3>3. StuckSet' = StuckSet
      <4>1. \A v \in Worker : v \in StuckSet' <=> v \in StuckSet
        BY <1>8, <1>9
      <4>2. StuckSet' \subseteq Worker
        BY <1>8
      <4> QED BY <3>1, <4>1, <4>2
    <3> QED BY <3>2, <3>3
  <2>2. \A h : StuckAt(h)' = StuckAt(h)
    BY <1>8, <2>1 DEF StuckAt
  <2> QED BY <1>2, <1>8, <2>1, <2>2 DEF Inv, InvBarrier
<1>15. InvSlot'
  BY <1>2, <1>8, <1>9 DEF Inv, InvSlot, GetNextStep
<1>16. InvShared'
  <2>1. Has(s, "share") <=> w \in HasSet("share")
    BY <1>2, <1>4, <1>5
  <2> QED BY <1>2, <1>8, <1>9, <1>10, <2>1 DEF Inv, InvShared
<1>17. \A h : (\A v \in Advanced' : v[1] # h) <=> (\A v \in Advanced : v[1] # h)
  <2>1. Advanced \subseteq Worker /\ Advanced' \subseteq Worker
    BY <1>1, <1>8, Places DEF Advanced
  <2> QED BY <1>8, <1>10, <2>1
<1>18. InvCount'
  <2>1. \A v \in Advanced : v[1] # w[1]
    <3> SUFFICES ASSUME NEW v \in Advanced, v[1] = w[1] PROVE FALSE
      OBVIOUS
    <3>1. v \in RunSet /\ v # w
      BY <1>9 DEF Advanced
    <3>2. w \in StuckSet
      BY <1>4, <3>1 DEF Inv, InvBarrier
    <3> QED BY <1>9, <3>2
  <2>2. counter[w] = generation[w[1]] /\ generation[w[1]] \in Nat
    BY <1>1, <1>4, <1>10 DEF Inv, InvCount, InvTypes
  <2>3. counter'[w] = generation[w[1]] + 1 /\ \A v \in Worker \ {w} : counter'[v] = counter[v]
    BY <1>1, <1>2, <2>2 DEF InvTypes
  <2>4. ASSUME NEW v \in Worker
        PROVE  counter'[v] = generation[v[1]] +
                   (IF v \in Counted' /\ (\A u \in Advanced' : u[1] # v[1]) THEN 1 ELSE 0)
    <3>1. CASE v = w
      BY <1>10, <1>17, <2>1, <2>3, <3>1
    <3>2. CASE v # w
      BY <1>8, <1>17, <2>3, <3>2 DEF Inv, InvCount
    <3> QED BY <3>1, <3>2
  <2> QED BY <1>2, <1>8, <2>4 DEF InvCount
<1>19. InvGoal'
  BY <1>2, <1>8 DEF Inv, InvGoal
<1>20. InvFetch'
  <2>1. /\ Has(s, "fetch") <=> w \in HasSet("fetch")
        /\ Has(s, "await") <=> w \in HasSet("await")
    BY <1>2, <1>4, <1>5
  <2>2. ASSUME NEW v \in Worker, v \in HasSet("fetch")' /\ v \notin HasSet("await")'
        PROVE  Previous(v) \in Counted'
    <3>1. v \in HasSet("fetch") /\ v \notin HasSet("await")
      BY <1>8, <2>1, <2>2
    <3>2. Previous(v) \in Counted
      BY <3>1 DEF Inv, InvFetch
    <3>3. Previous(v) \in Worker
      BY <1>1, <3>2, Places DEF Counted, Preds
    <3> QED BY <1>8, <1>10, <3>2, <3>3
  <2> QED BY <1>8, <2>2 DEF InvFetch, Previous
<1> QED BY <1>11, <1>12, <1>13, <1>14, <1>15, <1>16, <1>18, <1>19, <1>20 DEF Inv

-----------------------------------------------------------------------------
(* The thread that runs the lambda.                                        *)

\* While a thread runs the lambda, all threads of its host are inside the call.
LEMMA RunnerHost ==
    ASSUME Inv, NEW w \in RunSet, NEW v \in Worker, v[1] = w[1]
    PROVE  /\ v \in Inside /\ v \notin AheadSet /\ at[v] = at[w] /\ Call(v) = Call(w)
           /\ v \notin HasSet("share") /\ v \notin HasSet("count") /\ v \notin HasSet("fetch")
           /\ v # w => v \in StuckSet /\ v \notin RunSet
           /\ w \in Worker
<1>1. InvTypes /\ InvCode
  BY DEF Inv
<1>2. w \in Worker /\ w \in Inside /\ w \notin AheadSet
  BY <1>1, Places DEF Inside
<1>3. v # w => v \in StuckSet /\ v \notin RunSet
  <2>1. w[1] \in 0 .. H - 1
    BY <1>1, <1>2, Place
  <2>2. v # w => v \in StuckSet
    BY <2>1 DEF Inv, InvBarrier
  <2> QED BY <1>1, <2>2, Places
<1>4. v \in RunSet \cup StuckSet /\ v \in Inside /\ v \notin AheadSet
  BY <1>1, <1>3, Places DEF Inside
<1>5. at[v] = at[w]
  <2>1. at[v] \in Nat /\ at[w] \in Nat
    BY <1>1, <1>2, Place
  <2>2. at[v] - 1 = at[w] - 1
    BY <1>2, <1>4 DEF Inv, InvAligned, Passed
  <2> QED BY <2>1, <2>2
<1>6. v \notin HasSet("share") /\ v \notin HasSet("count") /\ v \notin HasSet("fetch")
  BY <1>1, <1>4, Places
<1> QED BY <1>2, <1>3, <1>4, <1>5, <1>6 DEF Call

\* Advancing generation_ keeps the invariant: all threads of the host have counted.
LEMMA NextGenerationInv == ASSUME Inv, NEW w \in Worker, NextGeneration(w) PROVE Inv'
<1> DEFINE s == Tail(code[w])
           c == Call(w)
<1>1. InvTypes /\ InvCode
  BY DEF Inv
<1>2. /\ code[w] # <<>> /\ code[w][1].do = "generation" /\ w \in RunSet /\ c.op = "Predecessor"
      /\ code' = [code EXCEPT ![w] = s]
      /\ UNCHANGED <<case, at, slot, goal, shmem, counter, waiting, step>>
      /\ generation' = [generation EXCEPT ![w[1]] = generation[w[1]] + 1]
  BY AtHead DEF NextGeneration, Executes, Advance, callVars, barrierVars
<1>3. CodeOK(c, w, T, code[w]) /\ IsSeq(code[w])
  BY <1>1, Place
<1>4. /\ w \in AheadSet <=> AheadCode(c, w, T, code[w])
      /\ w \in RunSet <=> RunCode(c, code[w])
      /\ w \in StuckSet <=> SpinCode(code[w]) /\ code[w][1].step = step[w[1]]
      /\ \A d : w \in HasSet(d) <=> Has(code[w], d)
      /\ w[1] \in 0 .. H - 1
  BY <1>1, Place
<1>5. /\ CodeOK(c, w, T, s)
      /\ AheadCode(c, w, T, s) <=> AheadCode(c, w, T, code[w])
      /\ RunCode(c, s) <=> RunCode(c, code[w])
      /\ ~SpinCode(code[w]) /\ ~SpinCode(s)
      /\ \A d : Has(code[w], d) <=> code[w][1].do = d \/ Has(s, d)
  <2> HIDE DEF c
  <2> QED BY <1>2, <1>3, CodePop
<1>6. ~Has(s, "generation")
  BY <1>2, <1>3, HasTail DEF CodeOK
<1>7. Call(w)' = c
  BY <1>2 DEF Call
<1> HIDE DEF s, c
<1>8. /\ Worker' = Worker /\ H' = H /\ T' = T /\ code'[w] = s
      /\ code' = [v \in Worker' |-> code'[v]]
      /\ AheadSet' \subseteq Worker /\ RunSet' \subseteq Worker /\ StuckSet' \subseteq Worker
      /\ Inside' \subseteq Worker /\ Preds' \subseteq Inside' /\ Sharers' \subseteq Inside'
      /\ \A d : HasSet(d)' \subseteq Worker
      /\ \A v \in Worker \ {w} :
            /\ code'[v] = code[v] /\ Call(v)' = Call(v)
            /\ v \in AheadSet' <=> v \in AheadSet
            /\ v \in RunSet' <=> v \in RunSet
            /\ v \in StuckSet' <=> v \in StuckSet
            /\ v \in Inside' <=> v \in Inside
            /\ v \in Preds' <=> v \in Preds
            /\ v \in Sharers' <=> v \in Sharers
            /\ v \in Counted' <=> v \in Counted
            /\ v \in Advanced' <=> v \in Advanced
            /\ \A d : v \in HasSet(d)' <=> v \in HasSet(d)
      /\ w \in AheadSet' <=> AheadCode(Call(w)', w, T, s)
      /\ w \in RunSet' <=> RunCode(Call(w)', s)
      /\ w \in StuckSet' <=> SpinCode(s) /\ s[1].step = step'[w[1]]
      /\ \A d : w \in HasSet(d)' <=> Has(s, d)
  BY <1>2, Moved
<1>9. /\ w \in RunSet' /\ w \notin AheadSet /\ w \notin AheadSet' /\ w \notin StuckSet /\ w \notin StuckSet'
      /\ w \in Inside /\ w \in Inside'
  BY <1>1, <1>2, <1>4, <1>5, <1>7, <1>8, Places DEF Inside
<1>10. /\ w \in Preds /\ w \in Preds' /\ w \in Counted /\ w \in Counted'
       /\ w \notin Sharers /\ w \notin Sharers' /\ w \notin Advanced /\ w \in Advanced'
  <2>1. w \in Preds /\ w \in Preds' /\ w \notin Sharers /\ w \notin Sharers'
    BY <1>2, <1>7, <1>9 DEF Preds, Sharers, Sharing, c
  <2>2. w \notin HasSet("count")
    BY <1>2, RunnerHost
  <2> QED BY <1>2, <1>4, <1>5, <1>6, <1>8, <1>9, <2>1, <2>2 DEF Counted, Advanced
<1>11. InvTypes'
  BY <1>1, <1>2, <1>4, <1>8 DEF InvTypes
<1>12. InvCode'
  <2>1. \A v \in Worker : /\ CodeOK(Call(v)', v, T, code'[v])
                          /\ code'[v] # <<>> => code[v] # <<>>
    BY <1>1, <1>2, <1>5, <1>7, <1>8 DEF InvCode
  <2> QED BY <1>1, <1>2, <1>8, <2>1 DEF InvCode
<1>13. InvAligned'
  <2>1. \A v \in Worker : Passed(v)' = Passed(v)
    BY <1>2, <1>8, <1>9 DEF Passed
  <2> QED BY <1>8, <2>1 DEF Inv, InvAligned
<1>14. InvBarrier'
  <2>1. RunSet' = RunSet /\ StuckSet' = StuckSet
    <3>1. RunSet \subseteq Worker /\ StuckSet \subseteq Worker
      BY <1>1, Places
    <3>2. RunSet' = RunSet
      <4>1. \A v \in Worker : v \in RunSet' <=> v \in RunSet
        BY <1>2, <1>8, <1>9
      <4> QED BY <1>8, <3>1, <4>1
    <3>3. StuckSet' = StuckSet
      <4>1. \A v \in Worker : v \in StuckSet' <=> v \in StuckSet
        BY <1>8, <1>9
      <4>2. StuckSet' \subseteq Worker
        BY <1>8
      <4> QED BY <3>1, <4>1, <4>2
    <3> QED BY <3>2, <3>3
  <2>2. \A h : StuckAt(h)' = StuckAt(h)
    BY <1>8, <2>1 DEF StuckAt
  <2> QED BY <1>2, <1>8, <2>1, <2>2 DEF Inv, InvBarrier
<1>15. InvSlot'
  BY <1>2, <1>8, <1>9 DEF Inv, InvSlot, GetNextStep
<1>16. InvShared'
  <2>1. Has(s, "share") <=> w \in HasSet("share")
    BY <1>2, <1>4, <1>5
  <2> QED BY <1>2, <1>8, <1>9, <1>10, <2>1 DEF Inv, InvShared
<1>17. ASSUME NEW v \in Worker, v[1] = w[1] PROVE v \in Counted
  <2>1. v \in Inside /\ Call(v) = Call(w) /\ v \notin HasSet("count")
    BY <1>2, <1>17, RunnerHost
  <2> QED BY <1>2, <2>1 DEF Counted, Preds, c
<1>18. \A v \in Advanced : v[1] # w[1]
  <2> SUFFICES ASSUME NEW v \in Advanced, v[1] = w[1] PROVE FALSE
    OBVIOUS
  <2>1. v \in RunSet /\ v # w /\ v \in Worker
    BY <1>1, <1>10, Places DEF Advanced
  <2> QED BY <1>2, <2>1, RunnerHost
<1>19. InvCount'
  <2>1. generation[w[1]] \in Nat /\ generation'[w[1]] = generation[w[1]] + 1
    BY <1>1, <1>2, <1>4 DEF InvTypes
  <2>2. ASSUME NEW v \in Worker
        PROVE  counter[v] = generation'[v[1]] +
                   (IF v \in Counted' /\ (\A u \in Advanced' : u[1] # v[1]) THEN 1 ELSE 0)
    <3>1. CASE v[1] = w[1]
      <4>1. counter[v] = generation[w[1]] + 1
        BY <1>17, <1>18, <3>1 DEF Inv, InvCount
      <4> QED BY <1>10, <2>1, <3>1, <4>1
    <3>2. CASE v[1] # w[1]
      <4>1. v \in Counted' <=> v \in Counted
        BY <1>8, <3>2
      <4>2. generation'[v[1]] = generation[v[1]]
        <5>1. v[1] \in 0 .. H - 1
          BY <1>1, Place
        <5> QED BY <1>1, <1>2, <3>2, <5>1 DEF InvTypes
      <4>3. (\A u \in Advanced' : u[1] # v[1]) <=> (\A u \in Advanced : u[1] # v[1])
        <5>1. Advanced \subseteq Worker /\ Advanced' \subseteq Worker
          BY <1>1, <1>8, Places DEF Advanced
        <5> QED BY <1>8, <1>10, <3>2, <5>1
      <4> QED BY <4>1, <4>2, <4>3 DEF Inv, InvCount
    <3> QED BY <3>1, <3>2
  <2> QED BY <1>2, <1>8, <2>2 DEF InvCount
<1>20. InvGoal'
  <2> SUFFICES ASSUME NEW v \in AheadSet' PROVE goal[v] = generation'[v[1]] + 1
    BY <1>2 DEF InvGoal
  <2>1. v \in Worker /\ v # w /\ v \in AheadSet
    BY <1>8, <1>9
  <2>2. v[1] # w[1]
    BY <1>2, <2>1, RunnerHost
  <2>3. v[1] \in 0 .. H - 1
    BY <1>1, <2>1, Place
  <2>4. generation'[v[1]] = generation[v[1]]
    BY <1>1, <1>2, <2>2, <2>3 DEF InvTypes
  <2> QED BY <2>1, <2>4 DEF Inv, InvGoal
<1>21. InvFetch'
  <2>1. /\ Has(s, "fetch") <=> w \in HasSet("fetch")
        /\ Has(s, "await") <=> w \in HasSet("await")
    BY <1>2, <1>4, <1>5
  <2>2. ASSUME NEW v \in Worker, v \in HasSet("fetch")' /\ v \notin HasSet("await")'
        PROVE  Previous(v) \in Counted'
    <3>1. v \in HasSet("fetch") /\ v \notin HasSet("await")
      BY <1>8, <2>1, <2>2
    <3>2. Previous(v) \in Counted
      BY <3>1 DEF Inv, InvFetch
    <3>3. Previous(v) \in Worker
      BY <1>1, <3>2, Places DEF Counted, Preds
    <3> QED BY <1>8, <1>10, <3>2, <3>3
  <2> QED BY <1>8, <2>2 DEF InvFetch, Previous
<1> QED BY <1>11, <1>12, <1>13, <1>14, <1>15, <1>16, <1>19, <1>20, <1>21 DEF Inv

\* The release lets all threads of the host pass the barrier at once, and keeps
\* the invariant.
LEMMA ReleaseInv == ASSUME Inv, NEW w \in Worker, Release(w) PROVE Inv'
<1> DEFINE s == Tail(code[w])
           h == w[1]
<1>1. InvTypes /\ InvCode
  BY DEF Inv
<1>2. /\ code[w] # <<>> /\ code[w][1].do = "release" /\ w \in RunSet /\ Len(code[w]) = 2
      /\ code' = [code EXCEPT ![w] = s]
      /\ UNCHANGED <<case, at, slot, goal, shmem, counter, generation, waiting>>
      /\ step' = [step EXCEPT ![h] = step[h] + 1]
  BY AtHead DEF Release, Executes, Advance, callVars, sharedVars
<1>3. /\ IsSeq(code[w]) /\ RunCode(Call(w), code[w]) /\ h \in 0 .. H - 1
      /\ \A d : w \in HasSet(d) <=> Has(code[w], d)
  BY <1>1, <1>2, Place
<1>4. IsSeq(s) /\ Len(s) = 1 /\ s[1].do = "return"
  <2>1. code[w][2].do = "return"
    BY <1>2, <1>3 DEF RunCode
  <2> QED BY <1>2, <1>3, <2>1, TailFacts
<1> HIDE DEF s
<1>5. /\ CodeOK(Call(w), w, T, s) /\ ~AheadCode(Call(w), w, T, s) /\ ~RunCode(Call(w), s) /\ ~SpinCode(s)
      /\ ~Has(s, "fetch")
  BY <1>4, CodeEnd DEF Control
<1>6. Call(w)' = Call(w)
  BY <1>2 DEF Call
<1>7. /\ Worker' = Worker /\ H' = H /\ T' = T /\ code'[w] = s
      /\ code' = [v \in Worker' |-> code'[v]]
      /\ \A v \in Worker \ {w} :
            /\ code'[v] = code[v]
            /\ Call(v)' = Call(v)
            /\ v \in AheadSet' <=> v \in AheadSet
            /\ v \in RunSet' <=> v \in RunSet
            /\ step'[v[1]] = step[v[1]] => (v \in StuckSet' <=> v \in StuckSet)
            /\ \A d : v \in HasSet(d)' <=> v \in HasSet(d)
  BY <1>1, <1>2, Others
<1>8. step[h] \in Nat /\ step'[h] = step[h] + 1 /\ \A g \in 0 .. H - 1 : g # h => step'[g] = step[g]
  BY <1>1, <1>2, <1>3 DEF InvTypes
<1>9. /\ AheadSet' \subseteq Worker /\ RunSet' \subseteq Worker /\ StuckSet' \subseteq Worker
      /\ \A d : HasSet(d)' \subseteq Worker
  <2>1. /\ AheadSet' \subseteq Worker' /\ RunSet' \subseteq Worker' /\ StuckSet' \subseteq Worker'
        /\ \A d : HasSet(d)' \subseteq Worker'
    BY DEF AheadSet, RunSet, StuckSet, HasSet
  <2> QED BY <1>7, <2>1
\* Nobody on the host stays inside the call.
<1>10. ASSUME NEW v \in Worker, v[1] = h
       PROVE  v \notin AheadSet' /\ v \notin RunSet' /\ v \notin StuckSet' /\ v \notin HasSet("fetch")'
  <2>1. /\ v \in AheadSet' <=> AheadCode(Call(v)', v, T', code'[v])
        /\ v \in RunSet' <=> RunCode(Call(v)', code'[v])
        /\ v \in StuckSet' <=> SpinCode(code'[v]) /\ code'[v][1].step = step'[v[1]]
        /\ v \in HasSet("fetch")' <=> Has(code'[v], "fetch")
    BY <1>7 DEF AheadSet, RunSet, StuckSet, HasSet
  <2>2. CASE v = w
    BY <1>5, <1>6, <1>7, <2>1, <2>2
  <2>3. CASE v # w
    <3>1. v \in StuckSet /\ v \notin AheadSet /\ v \notin RunSet /\ v \notin HasSet("fetch")
      BY <1>2, <1>10, <2>3, RunnerHost
    <3>2. code[v][1].step = step[h]
      BY <1>1, <1>10, <3>1, Place
    <3>3. code'[v][1].step # step'[h]
      BY <1>7, <1>8, <2>3, <3>2
    <3> QED BY <1>7, <1>10, <2>1, <2>3, <3>1, <3>3
  <2> QED BY <2>2, <2>3
<1>11. ASSUME NEW v \in Worker, v[1] # h
       PROVE  /\ v # w
              /\ v \in AheadSet' <=> v \in AheadSet
              /\ v \in RunSet' <=> v \in RunSet
              /\ v \in StuckSet' <=> v \in StuckSet
              /\ \A d : v \in HasSet(d)' <=> v \in HasSet(d)
              /\ v \in Inside' <=> v \in Inside
              /\ v \in Preds' <=> v \in Preds
              /\ v \in Sharers' <=> v \in Sharers
              /\ v \in Counted' <=> v \in Counted
              /\ v \in Advanced' <=> v \in Advanced
  <2>1. v # w /\ v[1] \in 0 .. H - 1
    BY <1>1, <1>11, Place
  <2>2. /\ v \in AheadSet' <=> v \in AheadSet
        /\ v \in RunSet' <=> v \in RunSet
        /\ v \in StuckSet' <=> v \in StuckSet
        /\ \A d : v \in HasSet(d)' <=> v \in HasSet(d)
        /\ Call(v)' = Call(v)
    BY <1>7, <1>8, <1>11, <2>1
  <2>3. v \in Inside' <=> v \in Inside
    BY <2>2 DEF Inside
  <2>4. (v \in Preds' <=> v \in Preds) /\ (v \in Sharers' <=> v \in Sharers)
    BY <2>2, <2>3 DEF Preds, Sharers
  <2> QED BY <2>1, <2>2, <2>3, <2>4 DEF Counted, Advanced
<1>12. \A v \in Worker : v[1] = h => v \notin Inside' /\ v \notin Counted' /\ v \notin Advanced'
  BY <1>10 DEF Inside, Preds, Counted, Advanced
<1>13. Inside' \subseteq Worker /\ Advanced' \subseteq Worker /\ Advanced \subseteq Worker
  BY <1>1, <1>9, Places DEF Inside, Advanced
<1>14. InvTypes'
  BY <1>1, <1>2, <1>3, <1>7 DEF InvTypes
<1>15. InvCode'
  <2>1. \A v \in Worker : /\ CodeOK(Call(v)', v, T, code'[v])
                          /\ code'[v] # <<>> => code[v] # <<>>
    BY <1>1, <1>2, <1>5, <1>6, <1>7 DEF InvCode
  <2> QED BY <1>1, <1>2, <1>7, <2>1 DEF InvCode
<1>16. InvAligned'
  <2> SUFFICES ASSUME NEW u \in Worker, NEW v \in Worker, u[1] = v[1] PROVE Passed(u)' = Passed(v)'
    BY <1>7 DEF InvAligned
  <2>1. CASE u[1] = h
    <3>1. at[u] = at[w] /\ at[v] = at[w]
      BY <1>2, <2>1, RunnerHost
    <3> QED BY <1>2, <1>12, <2>1, <3>1 DEF Passed
  <2>2. CASE u[1] # h
    <3>1. Passed(u)' = Passed(u) /\ Passed(v)' = Passed(v)
      BY <1>2, <1>11, <2>2 DEF Passed
    <3> QED BY <3>1 DEF Inv, InvAligned
  <2> QED BY <2>1, <2>2
<1>17. InvBarrier'
  <2> SUFFICES ASSUME NEW g \in 0 .. H - 1
               PROVE  /\ (\A u \in RunSet' : u[1] # g) => waiting[g] = Cardinality(StuckAt(g)')
                      /\ \A u \in RunSet' : u[1] = g =>
                            waiting[g] = 0 /\ \A v \in Worker : v[1] = g /\ v # u => v \in StuckSet'
    BY <1>2, <1>7 DEF InvBarrier
  <2>1. CASE g = h
    <3>1. \A u \in RunSet' : u[1] # g
      BY <1>9, <1>10, <2>1
    <3>2. StuckAt(g)' = {}
      <4>1. \A t \in 0 .. T - 1 : <<g, t>> \in Worker /\ <<g, t>>[1] = h
        BY <2>1 DEF Worker
      <4> QED BY <1>7, <1>10, <4>1 DEF StuckAt
    <3>3. waiting[g] = 0
      BY <1>2, <1>3, <2>1 DEF Inv, InvBarrier
    <3> QED BY <3>1, <3>2, <3>3, FS_EmptySet
  <2>2. CASE g # h
    <3>1. StuckAt(g)' = StuckAt(g)
      <4>1. \A t \in 0 .. T - 1 : <<g, t>> \in Worker /\ <<g, t>>[1] # h
        BY <2>2 DEF Worker
      <4> QED BY <1>7, <1>11, <4>1 DEF StuckAt
    <3>2. RunSet \subseteq Worker
      BY <1>1, Places
    <3>3. (\A u \in RunSet' : u[1] # g) => \A u \in RunSet : u[1] # g
      BY <1>11, <2>2, <3>2
    <3>4. ASSUME NEW u \in RunSet', u[1] = g
          PROVE  waiting[g] = 0 /\ \A v \in Worker : v[1] = g /\ v # u => v \in StuckSet'
      <4>1. u \in RunSet
        BY <1>9, <1>11, <2>2, <3>4
      <4>2. waiting[g] = 0 /\ \A v \in Worker : v[1] = g /\ v # u => v \in StuckSet
        BY <3>4, <4>1 DEF Inv, InvBarrier
      <4> QED BY <1>11, <2>2, <4>2
    <3>5. (\A u \in RunSet : u[1] # g) => waiting[g] = Cardinality(StuckAt(g))
      BY DEF Inv, InvBarrier
    <3> QED BY <3>1, <3>3, <3>4, <3>5
  <2> QED BY <2>1, <2>2
<1>18. InvSlot'
  <2> SUFFICES ASSUME NEW v \in Inside' PROVE slot[v] = (step'[v[1]] + 1) % 2
    BY <1>2 DEF InvSlot, GetNextStep
  <2>1. v \in Worker /\ v[1] # h
    BY <1>12, <1>13
  <2>2. v[1] \in 0 .. H - 1
    BY <1>1, <2>1, Place
  <2> QED BY <1>8, <1>11, <2>1, <2>2 DEF Inv, InvSlot, GetNextStep
<1>19. InvShared'
  BY <1>2, <1>7, <1>11, <1>12, <1>13 DEF Inv, InvShared
<1>20. InvCount'
  <2>1. ASSUME NEW v \in Worker
        PROVE  counter[v] = generation[v[1]] +
                   (IF v \in Counted' /\ (\A u \in Advanced' : u[1] # v[1]) THEN 1 ELSE 0)
    <3>0. v[1] \in 0 .. H - 1
      BY <1>1, Place
    <3>1. generation[v[1]] \in Nat
      BY <1>1, <3>0 DEF InvTypes
    <3>2. CASE v[1] = h
      <4>1. v \in Counted => w \in Advanced
        <5>1. Call(v) = Call(w) /\ w \in Inside
          BY <1>2, <3>2, RunnerHost
        <5>2. w \notin HasSet("generation")
          <6>1. \A i \in 1 .. 2 : code[w][i].do # "generation"
            BY <1>2, <1>3 DEF RunCode
          <6> QED BY <1>2, <1>3, <6>1 DEF Has
        <5> QED BY <1>2, <5>1, <5>2 DEF Counted, Advanced, Preds
      <4>2. counter[v] = generation[v[1]]
        BY <3>1, <3>2, <4>1 DEF Inv, InvCount
      <4> QED BY <1>12, <3>1, <3>2, <4>2
    <3>3. CASE v[1] # h
      <4>1. (\A u \in Advanced' : u[1] # v[1]) <=> (\A u \in Advanced : u[1] # v[1])
        BY <1>11, <1>13, <3>3
      <4> QED BY <1>11, <3>3, <4>1 DEF Inv, InvCount
    <3> QED BY <3>2, <3>3
  <2> QED BY <1>2, <1>7, <2>1 DEF InvCount
<1>21. InvGoal'
  BY <1>2, <1>9, <1>10, <1>11 DEF Inv, InvGoal
<1>22. InvFetch'
  <2>1. ASSUME NEW v \in Worker, v \in HasSet("fetch")' /\ v \notin HasSet("await")'
        PROVE  Previous(v) \in Counted'
    <3>1. v[1] # h
      BY <1>10, <2>1
    <3>2. Previous(v) \in Counted
      BY <1>11, <2>1, <3>1 DEF Inv, InvFetch
    <3>3. Previous(v) \in Worker /\ Previous(v)[1] = v[1]
      BY <1>1, <3>2, Places DEF Counted, Preds, Previous
    <3> QED BY <1>11, <3>1, <3>2, <3>3
  <2> QED BY <1>7, <2>1 DEF InvFetch, Previous
<1> QED BY <1>14, <1>15, <1>16, <1>17, <1>18, <1>19, <1>20, <1>21, <1>22 DEF Inv

-----------------------------------------------------------------------------
(* Arriving at the barrier.                                                *)

\* The code of a thread that has arrived at the barrier.
LEMMA CodeSpin ==
    ASSUME NEW c, NEW w, NEW n, NEW s, NEW k, IsSeq(s), Len(s) = 2, s[1].do = "barrier",
           s[2].do = "return", c.op \in Meeting
    PROVE  LET t == <<[do |-> "spin", step |-> k]>> \o Tail(s)
           IN  /\ CodeOK(c, w, n, t) /\ SpinCode(t) /\ t[1].step = k /\ t # <<>>
               /\ ~AheadCode(c, w, n, t) /\ ~RunCode(c, t)
               /\ ~Has(t, "share") /\ ~Has(t, "count") /\ ~Has(t, "fetch")
<1>1. s # <<>>
  BY SeqFacts
<1>2. IsSeq(Tail(s)) /\ Len(Tail(s)) = 1 /\ Tail(s)[1] = s[2]
  <2>1. /\ IsSeq(Tail(s)) /\ Len(Tail(s)) = Len(s) - 1
        /\ \A i \in 1 .. Len(s) - 1 : Tail(s)[i] = s[i + 1]
    BY <1>1, TailFacts, Zenon
  <2> QED BY <2>1
<1> DEFINE x == [do |-> "spin", step |-> k]
           t == <<x>> \o Tail(s)
<1>3. x.do = "spin" /\ x.step = k
  OBVIOUS
<1> HIDE DEF x
<1>5. IsSeq(<<x>>) /\ Len(<<x>>) = 1 /\ <<x>>[1] = x
  BY UnitFacts
<1>6. IsSeq(t) /\ Len(t) = 2 /\ \A i \in 1 .. 2 : t[i] = IF i <= 1 THEN <<x>>[i] ELSE Tail(s)[i - 1]
  BY <1>2, <1>5, ConcatFacts, SMTT(40)
<1> HIDE DEF t
<1>7. t[1] = x /\ t[2] = s[2]
  BY <1>2, <1>5, <1>6
<1>8. SpinCode(t) /\ t[1].step = k /\ t # <<>>
  BY <1>3, <1>6, <1>7, SeqFacts DEF SpinCode
<1>9. \A d \in Control \ {"spin", "return"} : ~Has(t, d)
  BY <1>6, <1>8, PlaceHas
<1>10. Once(t, "count") /\ Once(t, "generation") /\ Behind(t)
  BY <1>9 DEF Once, Behind, Has, Control
<1>11. ~AheadCode(c, w, n, t) /\ ~RunCode(c, t)
  BY <1>6, <1>8, Exclusive
<1>12. CodeOK(c, w, n, t)
  BY <1>6, <1>8, <1>10 DEF CodeOK
<1>13. ~Has(t, "share") /\ ~Has(t, "count") /\ ~Has(t, "fetch")
  BY <1>9 DEF Control
<1> QED BY <1>8, <1>11, <1>12, <1>13 DEF t, x

\* A lambda, then the release, then the return.
LEMMA RunJoin ==
    ASSUME NEW c, NEW l, RunSeq(c, l), NEW x, x.do = "release",
           NEW e, IsSeq(e), Len(e) = 1, e[1].do = "return"
    PROVE  LET t == (l \o <<x>>) \o e
           IN  /\ IsSeq(t) /\ RunCode(c, t) /\ t # <<>>
               /\ Has(t, "generation") <=> Has(l, "generation")
               /\ Once(l, "generation") => Once(t, "generation")
<1> DEFINE m == l \o <<x>>
           t == m \o e
<1>1. IsSeq(l) /\ Len(l) \in Nat /\ \A i \in 1 .. Len(l) : RunOK(c, l[i])
  BY SeqFacts DEF RunSeq
<1>2. IsSeq(<<x>>) /\ Len(<<x>>) = 1 /\ <<x>>[1] = x
  BY UnitFacts
<1>3. IsSeq(m) /\ Len(m) = Len(l) + 1
      /\ \A i \in 1 .. Len(l) + 1 : m[i] = IF i <= Len(l) THEN l[i] ELSE <<x>>[i - Len(l)]
  BY <1>1, <1>2, ConcatFacts
<1>4. ~Has(<<x>>, "generation") /\ ~Has(e, "generation")
  BY <1>2 DEF Has
<1>5. /\ Has(m, "generation") <=> Has(l, "generation")
      /\ Once(l, "generation") => Once(m, "generation")
  BY <1>1, <1>2, <1>4, HasConcat
<1> HIDE DEF m
<1>6. IsSeq(t) /\ Len(t) = Len(l) + 2
      /\ \A i \in 1 .. Len(l) + 2 : t[i] = IF i <= Len(m) THEN m[i] ELSE e[i - Len(m)]
  <2>1. IsSeq(t) /\ Len(t) = Len(m) + Len(e)
        /\ \A i \in 1 .. Len(m) + Len(e) : t[i] = IF i <= Len(m) THEN m[i] ELSE e[i - Len(m)]
    BY <1>3, ConcatFacts
  <2>2. Len(m) + Len(e) = Len(l) + 2
    BY <1>1, <1>3
  <2> QED BY <2>1, <2>2
<1>7. /\ Has(t, "generation") <=> Has(m, "generation")
      /\ Once(m, "generation") => Once(t, "generation")
  BY <1>3, <1>4, HasConcat
<1> HIDE DEF t
<1>8. /\ t[Len(t)] = e[1] /\ t[Len(t) - 1] = x
      /\ \A i \in 1 .. Len(l) : t[i] = l[i]
  BY <1>1, <1>2, <1>3, <1>6
<1>9. RunCode(c, t)
  <2>1. \A i \in 1 .. Len(t) - 2 : RunOK(c, t[i])
    BY <1>1, <1>6, <1>8
  <2>2. Len(t) >= 2
    BY <1>1, <1>6
  <2> QED BY <1>8, <2>1, <2>2 DEF RunCode
<1>10. t # <<>>
  BY <1>1, <1>6, SeqFacts
<1> QED BY <1>5, <1>6, <1>7, <1>9, <1>10 DEF m, t

\* The code of the last one to arrive: the lambda, then the others are let go.
LEMMA CodeLambda ==
    ASSUME H \in Nat, NEW c, NEW w, NEW n, NEW h, NEW s, IsSeq(s), Len(s) = 2, s[1].do = "barrier",
           s[2].do = "return", c.op \in Meeting
    PROVE  LET t == (Lambda(c, h) \o <<[do |-> "release"]>>) \o Tail(s)
           IN  /\ CodeOK(c, w, n, t) /\ RunCode(c, t) /\ t # <<>>
               /\ ~AheadCode(c, w, n, t) /\ ~SpinCode(t)
               /\ ~Has(t, "share") /\ ~Has(t, "count") /\ ~Has(t, "fetch")
               /\ Has(t, "generation") <=> c.op = "Predecessor"
<1> DEFINE l == Lambda(c, h)
           x == [do |-> "release"]
           e == Tail(s)
           t == (l \o <<x>>) \o e
<1>1. s # <<>>
  <2> HIDE DEF t, l, e, x
  <2>1. Len(s) > 0
    OBVIOUS
  <2> QED BY <2>1, SeqFacts, Zenon
<1>2. IsSeq(e) /\ Len(e) = 1 /\ e[1].do = "return"
  BY <1>1, TailFacts, SMTT(40)
<1>3. RunSeq(c, l) /\ (Has(l, "generation") <=> c.op = "Predecessor") /\ Once(l, "generation")
  BY LambdaRuns, LambdaGeneration
<1>4. x.do = "release"
  OBVIOUS
<1> HIDE DEF l, x, e
<1>5. /\ IsSeq(t) /\ RunCode(c, t) /\ t # <<>>
      /\ Has(t, "generation") <=> Has(l, "generation")
      /\ Once(l, "generation") => Once(t, "generation")
  BY <1>2, <1>3, <1>4, RunJoin
<1> HIDE DEF t
<1>6. /\ ~Has(t, "share") /\ ~Has(t, "count") /\ ~Has(t, "fetch") /\ ~Has(t, "await")
  BY <1>5, PlaceHas DEF Control
<1>7. Once(t, "count") /\ Behind(t)
  BY <1>6 DEF Once, Behind, Has
<1>8. ~AheadCode(c, w, n, t) /\ ~SpinCode(t)
  BY <1>5, Exclusive
<1>9. CodeOK(c, w, n, t)
  BY <1>3, <1>5, <1>7 DEF CodeOK
<1> QED BY <1>3, <1>5, <1>6, <1>8, <1>9 DEF t, l, x, e

\* The threads of a host that spin, when all but one do and when one more does.
LEMMA AllButOne ==
    ASSUME NEW n \in Nat \ {0}, NEW t \in 0 .. n - 1, NEW S \in SUBSET (0 .. n - 1), t \notin S
    PROVE  /\ Cardinality(S) \in 0 .. n - 1
           /\ Cardinality(S) = n - 1 => S = (0 .. n - 1) \ {t}
           /\ Cardinality(S \cup {t}) = Cardinality(S) + 1
<1> DEFINE A == 0 .. n - 1
           B == A \ {t}
<1>1. IsFiniteSet(A) /\ Cardinality(A) = n
  BY FS_Interval
<1>2. IsFiniteSet(B) /\ Cardinality(B) = n - 1
  <2>1. t \in A
    OBVIOUS
  <2> HIDE DEF A
  <2> QED BY <1>1, <2>1, FS_RemoveElement
<1>3. S \in SUBSET B
  OBVIOUS
<1> HIDE DEF A, B
<1>4. IsFiniteSet(S) /\ Cardinality(S) <= Cardinality(B) /\ (Cardinality(S) = Cardinality(B) => S = B)
  BY <1>2, <1>3, FS_Subset
<1>5. Cardinality(S) \in Nat
  BY <1>4, FS_CardinalityType
<1>6. Cardinality(S \cup {t}) = Cardinality(S) + 1
  BY <1>4, FS_AddElement
<1> QED BY <1>2, <1>4, <1>5, <1>6 DEF A, B

\* A thread that arrives at the barrier stays inside the call.
LEMMA ArriveFrame ==
    ASSUME Inv, NEW w \in Worker, NEW t, code' = [code EXCEPT ![w] = t], code[w] # <<>>,
           UNCHANGED <<case, at, slot, goal, shmem, counter, generation, step>>,
           waiting' \in [0 .. H - 1 -> 0 .. T - 1],
           w \in AheadSet, w \notin HasSet("share"), w \notin HasSet("count"),
           CodeOK(Call(w), w, T, t), ~AheadCode(Call(w), w, T, t),
           RunCode(Call(w), t) \/ (SpinCode(t) /\ t[1].step = step[w[1]]),
           RunCode(Call(w), t) /\ Call(w).op = "Predecessor" => Has(t, "generation"),
           ~Has(t, "share"), ~Has(t, "count"), ~Has(t, "fetch"),
           InvBarrier'
    PROVE  Inv'
<1> DEFINE c == Call(w)
<1>1. InvTypes /\ InvCode
  BY DEF Inv
<1>2. Call(w)' = c
  BY DEF Call
<1> HIDE DEF c
<1>3. /\ Worker' = Worker /\ H' = H /\ T' = T /\ code'[w] = t
      /\ code' = [v \in Worker' |-> code'[v]]
      /\ AheadSet' \subseteq Worker /\ RunSet' \subseteq Worker /\ StuckSet' \subseteq Worker
      /\ Inside' \subseteq Worker /\ Preds' \subseteq Inside' /\ Sharers' \subseteq Inside'
      /\ \A d : HasSet(d)' \subseteq Worker
      /\ \A v \in Worker \ {w} :
            /\ code'[v] = code[v] /\ Call(v)' = Call(v)
            /\ v \in AheadSet' <=> v \in AheadSet
            /\ v \in RunSet' <=> v \in RunSet
            /\ v \in StuckSet' <=> v \in StuckSet
            /\ v \in Inside' <=> v \in Inside
            /\ v \in Preds' <=> v \in Preds
            /\ v \in Sharers' <=> v \in Sharers
            /\ v \in Counted' <=> v \in Counted
            /\ v \in Advanced' <=> v \in Advanced
            /\ \A d : v \in HasSet(d)' <=> v \in HasSet(d)
      /\ w \in AheadSet' <=> AheadCode(Call(w)', w, T, t)
      /\ w \in RunSet' <=> RunCode(Call(w)', t)
      /\ w \in StuckSet' <=> SpinCode(t) /\ t[1].step = step'[w[1]]
      /\ \A d : w \in HasSet(d)' <=> Has(t, d)
  BY Moved
<1>4. w \in Inside /\ w \in Inside' /\ w \notin AheadSet' /\ w \notin RunSet
  BY <1>1, <1>2, <1>3, Places DEF Inside, c
<1>5. /\ w \in Preds' <=> w \in Preds
      /\ w \in Sharers' <=> w \in Sharers
  BY <1>2, <1>4 DEF Preds, Sharers, c
<1>6. w \in Counted' <=> w \in Counted
  BY <1>3, <1>5 DEF Counted
<1>7. w \notin Advanced /\ w \notin Advanced'
  <2>1. w \in RunSet' /\ w \in Preds' => w \in HasSet("generation")'
    BY <1>2, <1>3, <1>5 DEF Preds, c
  <2> QED BY <1>4, <2>1 DEF Advanced
<1>8. \A v \in Worker : /\ v \in Inside' <=> v \in Inside
                        /\ v \in Preds' <=> v \in Preds
                        /\ v \in Sharers' <=> v \in Sharers
                        /\ v \in Counted' <=> v \in Counted
                        /\ v \in Advanced' <=> v \in Advanced
  BY <1>3, <1>4, <1>5, <1>6, <1>7
<1>9. InvTypes'
  BY <1>1, <1>3 DEF InvTypes
<1>10. InvCode'
  <2>1. \A v \in Worker : /\ CodeOK(Call(v)', v, T, code'[v])
                          /\ code'[v] # <<>> => code[v] # <<>>
    BY <1>1, <1>2, <1>3 DEF InvCode, c
  <2> QED BY <1>1, <1>3, <2>1 DEF InvCode
<1>11. InvAligned'
  <2>1. \A v \in Worker : Passed(v)' = Passed(v)
    BY <1>8 DEF Passed
  <2> QED BY <1>3, <2>1 DEF Inv, InvAligned
<1>12. InvSlot'
  BY <1>3, <1>8 DEF Inv, InvSlot, GetNextStep
<1>13. InvShared'
  <2> SUFFICES ASSUME NEW v \in Inside', v \in Sharers' \/ (v \in Preds' /\ v[2] + 1 # T)
               PROVE  v \in HasSet("share")' \/ shmem[v][slot[v]].call = at[v]
    BY <1>3 DEF InvShared
  <2>1. v \in Worker
    BY <1>3
  <2>2. v \in HasSet("share") \/ shmem[v][slot[v]].call = at[v]
    BY <1>8, <2>1 DEF Inv, InvShared
  <2> QED BY <1>3, <2>1, <2>2
<1>14. InvCount'
  <2>1. Advanced \subseteq Worker /\ Advanced' \subseteq Worker
    BY <1>1, <1>3, Places DEF Advanced
  <2>2. \A h : (\A v \in Advanced' : v[1] # h) <=> (\A v \in Advanced : v[1] # h)
    BY <1>8, <2>1
  <2> QED BY <1>3, <1>8, <2>2 DEF Inv, InvCount
<1>15. InvGoal'
  BY <1>3, <1>4 DEF Inv, InvGoal
<1>16. InvFetch'
  <2>1. ASSUME NEW v \in Worker, v \in HasSet("fetch")' /\ v \notin HasSet("await")'
        PROVE  Previous(v) \in Counted'
    <3>1. v # w
      BY <1>3, <2>1
    <3>2. Previous(v) \in Counted
      BY <1>3, <2>1, <3>1 DEF Inv, InvFetch
    <3>3. Previous(v) \in Worker
      BY <1>1, <3>2, Places DEF Counted, Preds
    <3> QED BY <1>8, <3>2, <3>3
  <2> QED BY <1>3, <2>1 DEF InvFetch, Previous
<1> QED BY <1>9, <1>10, <1>11, <1>12, <1>13, <1>14, <1>15, <1>16 DEF Inv

\* A thread ahead of the barrier, or between two calls, is not one that a
\* running thread of its host waits for.
LEMMA NoRunner ==
    ASSUME Inv, NEW w \in Worker, w \notin RunSet, w \notin StuckSet
    PROVE  /\ \A u \in RunSet : u[1] # w[1]
           /\ waiting[w[1]] = Cardinality(StuckAt(w[1]))
           /\ StuckAt(w[1]) \in SUBSET (0 .. T - 1) /\ w[2] \notin StuckAt(w[1])
           /\ \A v \in Worker : v[1] = w[1] => (v \in StuckSet <=> v[2] \in StuckAt(w[1]))
<1>1. InvTypes /\ InvCode
  BY DEF Inv
<1>2. \A u \in RunSet : u[1] # w[1]
  BY RunnerHost
<1>3. w[1] \in 0 .. H - 1 /\ w = <<w[1], w[2]>>
  BY <1>1, Place
<1>4. waiting[w[1]] = Cardinality(StuckAt(w[1]))
  BY <1>2, <1>3 DEF Inv, InvBarrier
<1>5. \A v \in Worker : v[2] \in 0 .. T - 1 /\ v = <<v[1], v[2]>>
  BY <1>1, Place
<1> QED BY <1>2, <1>3, <1>4, <1>5 DEF StuckAt

\* Arriving at the barrier keeps the invariant: the last to arrive finds all others
\* spinning.
LEMMA ArriveInv == ASSUME Inv, NEW w \in Worker, Arrive(w) PROVE Inv'
<1> DEFINE h == w[1]
           c == Call(w)
           s == code[w]
           last == waiting[h] = T - 1
           lt == (Lambda(c, h) \o <<[do |-> "release"]>>) \o Tail(s)
           st == <<[do |-> "spin", step |-> step[h]]>> \o Tail(s)
<1>1. InvTypes /\ InvCode
  BY DEF Inv
<1>2. /\ code[w] # <<>> /\ code[w][1].do = "barrier" /\ w \in AheadSet /\ Len(code[w]) = 2
      /\ UNCHANGED <<case, at, slot, goal, shmem, counter, generation, step>>
      /\ waiting' = [waiting EXCEPT ![h] = IF last THEN 0 ELSE waiting[h] + 1]
  BY AtHead DEF Arrive, Executes, callVars, sharedVars
<1>3. code' = [code EXCEPT ![w] = IF last THEN lt ELSE st]
  BY DEF Arrive
<1>4. /\ IsSeq(s) /\ AheadCode(c, w, T, s) /\ h \in 0 .. H - 1 /\ w[2] \in 0 .. T - 1
      /\ H \in Nat \ {0} /\ T \in Nat \ {0}
      /\ \A d : w \in HasSet(d) <=> Has(s, d)
  BY <1>1, <1>2, Place
<1>5. s[2].do = "return" /\ s[1].do = "barrier" /\ Len(s) = 2
  BY <1>2, <1>4 DEF AheadCode
<1>6. w \notin HasSet("share") /\ w \notin HasSet("count")
  BY <1>4, <1>5 DEF Has
<1>7. c.op \in Meeting /\ w \notin RunSet /\ w \notin StuckSet
  BY <1>1, <1>2, Places DEF Inside
<1>8. /\ \A u \in RunSet : u[1] # h
      /\ waiting[h] = Cardinality(StuckAt(h))
      /\ StuckAt(h) \in SUBSET (0 .. T - 1) /\ w[2] \notin StuckAt(h)
      /\ \A v \in Worker : v[1] = h => (v \in StuckSet <=> v[2] \in StuckAt(h))
  BY <1>7, NoRunner
<1>9. /\ Cardinality(StuckAt(h)) \in 0 .. T - 1
      /\ Cardinality(StuckAt(h)) = T - 1 => StuckAt(h) = (0 .. T - 1) \ {w[2]}
      /\ Cardinality(StuckAt(h) \cup {w[2]}) = Cardinality(StuckAt(h)) + 1
  <2> HIDE DEF c, s, last, lt, st
  <2> DEFINE S == StuckAt(h)
  <2>1. S \in SUBSET (0 .. T - 1) /\ w[2] \notin S
    BY <1>8
  <2> HIDE DEF S, h
  <2> DEFINE n == T
             i == w[2]
  <2>3. n \in Nat \ {0} /\ i \in 0 .. n - 1 /\ S \in SUBSET (0 .. n - 1) /\ i \notin S
    BY <1>4, <2>1
  <2> HIDE DEF n, i
  <2>4. /\ Cardinality(S) \in 0 .. n - 1
        /\ Cardinality(S) = n - 1 => S = (0 .. n - 1) \ {i}
        /\ Cardinality(S \cup {i}) = Cardinality(S) + 1
    BY <2>3, AllButOne
  <2>2. /\ Cardinality(S) \in 0 .. T - 1
        /\ Cardinality(S) = T - 1 => S = (0 .. T - 1) \ {w[2]}
        /\ Cardinality(S \cup {w[2]}) = Cardinality(S) + 1
    BY <2>4 DEF n, i
  <2> QED BY <2>2 DEF S
<1>10. /\ waiting'[h] = (IF last THEN 0 ELSE waiting[h] + 1)
       /\ \A g \in 0 .. H - 1 : g # h => waiting'[g] = waiting[g]
       /\ waiting' \in [0 .. H - 1 -> 0 .. T - 1]
  <2>1. waiting \in [0 .. H - 1 -> 0 .. T - 1]
    BY <1>1 DEF InvTypes
  <2>2. (IF last THEN 0 ELSE waiting[h] + 1) \in 0 .. T - 1
    BY <1>4, <1>8, <1>9
  <2> QED BY <1>2, <1>4, <2>1, <2>2
<1>11. Call(w)' = c
  BY <1>2 DEF Call
<1>12. ASSUME NEW t, code' = [code EXCEPT ![w] = t]
       PROVE  /\ Worker' = Worker /\ H' = H /\ T' = T
              /\ RunSet' \subseteq Worker /\ StuckSet' \subseteq Worker
              /\ \A v \in Worker \ {w} :
                    /\ v \in RunSet' <=> v \in RunSet
                    /\ v \in StuckSet' <=> v \in StuckSet
              /\ w \in RunSet' <=> RunCode(c, t)
              /\ w \in StuckSet' <=> SpinCode(t) /\ t[1].step = step[h]
  <2> HIDE DEF c, s, last, lt, st, h
  <2>1. case' = case /\ \A v \in Worker \ {w} : at'[v] = at[v] /\ step'[v[1]] = step[v[1]]
    BY <1>2
  <2>2. /\ Worker' = Worker /\ H' = H /\ T' = T
        /\ RunSet' \subseteq Worker /\ StuckSet' \subseteq Worker
        /\ \A v \in Worker \ {w} :
              /\ v \in RunSet' <=> v \in RunSet
              /\ v \in StuckSet' <=> v \in StuckSet
        /\ w \in RunSet' <=> RunCode(Call(w)', t)
        /\ w \in StuckSet' <=> SpinCode(t) /\ t[1].step = step'[w[1]]
    BY <1>12, <2>1, Moved
  <2> QED BY <1>2, <1>11, <2>2 DEF h
<1>13. RunSet \subseteq Worker
  BY <1>1, Places
\* The other hosts.
<1>14. ASSUME NEW t, code' = [code EXCEPT ![w] = t], NEW g \in 0 .. H - 1, g # h
       PROVE  /\ (\A u \in RunSet' : u[1] # g) => waiting'[g] = Cardinality(StuckAt(g)')
              /\ \A u \in RunSet' : u[1] = g =>
                    waiting'[g] = 0 /\ \A v \in Worker : v[1] = g /\ v # u => v \in StuckSet'
  <2>1. StuckAt(g)' = StuckAt(g)
    <3>1. \A i \in 0 .. T - 1 : <<g, i>> \in Worker /\ <<g, i>> # w
      BY <1>14 DEF Worker
    <3> QED BY <1>12, <1>14, <3>1 DEF StuckAt
  <2>2. \A v \in Worker : v[1] = g => v # w
    BY <1>14
  <2>3. (\A u \in RunSet' : u[1] # g) => \A u \in RunSet : u[1] # g
    BY <1>12, <1>13, <1>14, <2>2
  <2>4. (\A u \in RunSet : u[1] # g) => waiting[g] = Cardinality(StuckAt(g))
    BY DEF Inv, InvBarrier
  <2>5. ASSUME NEW u \in RunSet', u[1] = g
        PROVE  waiting'[g] = 0 /\ \A v \in Worker : v[1] = g /\ v # u => v \in StuckSet'
    <3>1. u \in RunSet
      BY <1>12, <1>14, <2>2, <2>5
    <3>2. waiting[g] = 0 /\ \A v \in Worker : v[1] = g /\ v # u => v \in StuckSet
      BY <2>5, <3>1 DEF Inv, InvBarrier
    <3> QED BY <1>10, <1>12, <1>14, <2>2, <3>2
  <2> QED BY <1>10, <1>14, <2>1, <2>3, <2>4, <2>5
<1>15. CASE last
  <2>1. code' = [code EXCEPT ![w] = lt]
    BY <1>3, <1>15
  <2>2. /\ CodeOK(c, w, T, lt) /\ RunCode(c, lt)
        /\ ~AheadCode(c, w, T, lt) /\ ~SpinCode(lt)
        /\ ~Has(lt, "share") /\ ~Has(lt, "count") /\ ~Has(lt, "fetch")
        /\ Has(lt, "generation") <=> c.op = "Predecessor"
    <3> HIDE DEF c, s
    <3> QED BY <1>4, <1>5, <1>7, CodeLambda
  <2> DEFINE t == lt
  <2> HIDE DEF t
  <2>3. code' = [code EXCEPT ![w] = t] /\ RunCode(c, t)
    BY <2>1, <2>2 DEF t
  <2>4. w \in RunSet' /\ \A u \in RunSet' : u[1] = h => u = w
    BY <1>8, <1>12, <2>3
  <2>5. ASSUME NEW v \in Worker, v[1] = h, v # w PROVE v \in StuckSet'
    <3>1. v[2] # w[2] /\ v[2] \in 0 .. T - 1
      <4>1. v = <<v[1], v[2]>> /\ w = <<w[1], w[2]>> /\ v[2] \in 0 .. T - 1
        BY <1>1, Place
      <4> QED BY <2>5, <4>1
    <3>2. v \in StuckSet
      BY <1>8, <1>9, <1>15, <2>5, <3>1
    <3> QED BY <1>12, <2>3, <2>5, <3>2
  <2>6. InvBarrier'
    <3>1. ASSUME NEW g \in 0 .. H - 1
          PROVE  /\ (\A u \in RunSet' : u[1] # g) => waiting'[g] = Cardinality(StuckAt(g)')
                 /\ \A u \in RunSet' : u[1] = g =>
                       waiting'[g] = 0 /\ \A v \in Worker : v[1] = g /\ v # u => v \in StuckSet'
      <4>1. CASE g = h
        BY <1>10, <1>15, <2>4, <2>5, <4>1
      <4> QED BY <1>14, <2>3, <4>1
    <3> QED BY <1>12, <2>3, <3>1 DEF InvBarrier
  <2> QED BY <1>2, <1>6, <1>10, <2>1, <2>2, <2>6, ArriveFrame
<1>16. CASE ~last
  <2>1. code' = [code EXCEPT ![w] = st]
    BY <1>3, <1>16
  <2>2. /\ CodeOK(c, w, T, st) /\ SpinCode(st) /\ st[1].step = step[h]
        /\ ~AheadCode(c, w, T, st) /\ ~RunCode(c, st)
        /\ ~Has(st, "share") /\ ~Has(st, "count") /\ ~Has(st, "fetch")
    <3> HIDE DEF c, s
    <3> QED BY <1>4, <1>5, <1>7, CodeSpin
  <2> DEFINE t == st
  <2> HIDE DEF t
  <2>3. code' = [code EXCEPT ![w] = t] /\ ~RunCode(c, t) /\ SpinCode(t) /\ t[1].step = step[h]
    BY <2>1, <2>2 DEF t
  <2>4. w \in StuckSet' /\ \A u \in RunSet' : u[1] # h
    BY <1>8, <1>12, <2>3
  <2>5. StuckAt(h)' = StuckAt(h) \cup {w[2]}
    <3>1. \A i \in 0 .. T - 1 : <<h, i>> \in Worker /\ (<<h, i>> = w <=> i = w[2])
      <4>1. w = <<h, w[2]>>
        BY <1>1, Place
      <4> QED BY <1>4, <4>1 DEF Worker
    <3>2. T' = T
      BY <1>12, <2>3
    <3>3. \A i \in 0 .. T - 1 : <<h, i>> \in StuckSet' <=> <<h, i>> \in StuckSet \/ i = w[2]
      BY <1>12, <2>3, <2>4, <3>1
    <3>4. StuckAt(h)' = {i \in 0 .. T - 1 : <<h, i>> \in StuckSet'}
      BY <3>2 DEF StuckAt
    <3> QED BY <1>4, <3>3, <3>4 DEF StuckAt
  <2>6. waiting'[h] = Cardinality(StuckAt(h)')
    BY <1>8, <1>9, <1>10, <1>16, <2>5
  <2>7. InvBarrier'
    <3>1. ASSUME NEW g \in 0 .. H - 1
          PROVE  /\ (\A u \in RunSet' : u[1] # g) => waiting'[g] = Cardinality(StuckAt(g)')
                 /\ \A u \in RunSet' : u[1] = g =>
                       waiting'[g] = 0 /\ \A v \in Worker : v[1] = g /\ v # u => v \in StuckSet'
      <4>1. CASE g = h
        BY <2>4, <2>6, <4>1
      <4> QED BY <1>14, <2>3, <4>1
    <3> QED BY <1>12, <2>3, <3>1 DEF InvBarrier
  <2> QED BY <1>2, <1>6, <1>10, <2>1, <2>2, <2>7, ArriveFrame
<1> QED BY <1>15, <1>16

-----------------------------------------------------------------------------
(* Entering a call.                                                        *)

\* The code of a collective call of Group.
LEMMA CodeGroup ==
    ASSUME NEW c, NEW w, NEW g, GroupSeq(g)
    PROVE  LET s == g \o <<ReturnI>>
           IN  /\ CodeOK(c, w, 1, s) /\ s # <<>>
               /\ ~AheadCode(c, w, 1, s) /\ ~RunCode(c, s) /\ ~SpinCode(s)
               /\ \A d \in Control \ {"return"} : ~Has(s, d)
<1> DEFINE s == g \o <<ReturnI>>
<1>1. IsSeq(g) /\ Len(g) \in Nat /\ \A i \in 1 .. Len(g) : GroupOK(g[i])
  BY SeqFacts DEF GroupSeq
<1>2. IsSeq(<<ReturnI>>) /\ Len(<<ReturnI>>) = 1 /\ <<ReturnI>>[1] = ReturnI
  BY UnitFacts
<1>3. IsSeq(s) /\ Len(s) = Len(g) + 1
      /\ \A i \in 1 .. Len(g) + 1 : s[i] = IF i <= Len(g) THEN g[i] ELSE <<ReturnI>>[i - Len(g)]
  BY <1>1, <1>2, ConcatFacts
<1> HIDE DEF s
<1>4. s[Len(s)] = ReturnI /\ \A i \in 1 .. Len(s) - 1 : s[i] = g[i]
  BY <1>1, <1>2, <1>3
<1>5. LeaveCode(1, s)
  <2>1. ReturnI.do = "return"
    BY DEF ReturnI
  <2> QED BY <1>1, <1>3, <1>4, <2>1 DEF LeaveCode
<1>6. \A d \in Control \ {"return"} : ~Has(s, d)
  BY <1>3, <1>5, PlaceHas
<1>7. s # <<>> /\ ~AheadCode(c, w, 1, s) /\ ~RunCode(c, s) /\ ~SpinCode(s)
  BY <1>3, <1>5, Exclusive
<1>8. Once(s, "count") /\ Once(s, "generation") /\ Behind(s)
  BY <1>6 DEF Once, Behind, Has, Control
<1>9. CodeOK(c, w, 1, s)
  BY <1>3, <1>5, <1>8 DEF CodeOK
<1> QED BY <1>6, <1>7, <1>9 DEF s

\* What is known of the code with which a thread enters its next call.
LEMMA CodeBegin ==
    ASSUME H \in Nat \ {0}, T \in Nat \ {0}, NEW c, NEW w, w[2] \in Nat,
           c.op \in Meeting \/ (c.op \in GroupCalls /\ T = 1),
           NEW s, s = CodeOf(w, c) \o <<[do |-> "return"]>>
    PROVE  /\ CodeOK(c, w, T, s) /\ s # <<>> /\ ~RunCode(c, s) /\ ~SpinCode(s)
           /\ ~Has(s, "generation") /\ (Has(s, "fetch") => Has(s, "await"))
           /\ c.op \in Sharing => Has(s, "share")
           /\ c.op = "Predecessor" => /\ w[2] + 1 # T => Has(s, "share")
                                      /\ Has(s, "count")
           /\ AheadCode(c, w, T, s) \/ T = 1
<1>1. CASE c.op \in Meeting
  <2>1. Enters(c, w, T, s)
    BY <1>1, EntersAll DEF ReturnI
  <2>2. ~RunCode(c, s) /\ ~SpinCode(s) /\ s # <<>>
    BY <2>1, Exclusive DEF Enters
  <2>3. Once(s, "generation")
    BY <2>1 DEF Enters, Once, Has
  <2>4. CodeOK(c, w, T, s)
    BY <1>1, <2>1, <2>3 DEF Enters, CodeOK
  <2> QED BY <2>1, <2>2, <2>4 DEF Enters
<1>2. CASE c.op \in GroupCalls /\ T = 1
  <2> DEFINE g == <<Calc("load")>> \o GroupCall(c, w[1]) \o <<Calc("store")>>
  <2>1. CodeOf(w, c) = g
    <3>1. c.op \notin {"Predecessor", "Broadcast", "Barrier", "LocalBarrier"}
      BY <1>2 DEF GroupCalls
    <3> HIDE DEF g
    <3>2. CodeOf(w, c) = <<Calc("load")>> \o GroupCall(c, w[1]) \o <<Calc("store")>>
      BY <1>2, <3>1 DEF CodeOf
    <3> QED BY <3>2 DEF g
  <2>2. GroupSeq(g)
    BY <1>2, GroupCallRuns
  <2>3. c.op \notin Sharing /\ c.op # "Predecessor"
    BY <1>2 DEF GroupCalls, Sharing
  <2> HIDE DEF g
  <2>4. s = g \o <<ReturnI>>
    BY <2>1 DEF ReturnI
  <2>5. /\ CodeOK(c, w, 1, s) /\ s # <<>> /\ ~RunCode(c, s) /\ ~SpinCode(s)
        /\ \A d \in Control \ {"return"} : ~Has(s, d)
    BY <2>2, <2>4, CodeGroup
  <2>6. ~Has(s, "generation") /\ ~Has(s, "fetch")
    BY <2>5 DEF Control
  <2> QED BY <1>2, <2>3, <2>5, <2>6
<1> QED BY <1>1, <1>2

\* Entering a call keeps the invariant: all threads of a host take the same pointer
\* and the same generation, however late they come.
LEMMA BeginInv == ASSUME Inv, NEW w \in Worker, Begin(w) PROVE Inv'
<1> DEFINE k == at[w] + 1
           c == case.calls[k]
<1>1. InvTypes /\ InvCode
  BY DEF Inv
<1>2. /\ code[w] = <<>> /\ at[w] < Len(case.calls)
      /\ at' = [at EXCEPT ![w] = k]
      /\ slot' = [slot EXCEPT ![w] = GetNextStep(w[1])]
      /\ goal' = [goal EXCEPT ![w] = generation[w[1]] + 1]
      /\ UNCHANGED <<case, shmem, counter, generation, waiting, step>>
  BY DEF Begin, sharedVars, barrierVars
<1>3. PICK s : s = CodeOf(w, c) \o <<[do |-> "return"]>>
  OBVIOUS
<1>4. code' = [code EXCEPT ![w] = s]
  BY <1>3 DEF Begin
<1>5. /\ w[1] \in 0 .. H - 1 /\ w[2] \in 0 .. T - 1 /\ at[w] \in Nat /\ w = <<w[1], w[2]>>
      /\ H \in Nat \ {0} /\ T \in Nat \ {0} /\ Len(case.calls) \in Nat
  BY <1>1, Place, CaseFacts
<1>6. /\ w \notin Inside /\ w \notin RunSet /\ w \notin StuckSet /\ w \notin Counted /\ w \notin Advanced
  BY <1>1, <1>2, Places DEF Inside, Counted, Preds, Advanced
<1>7. k \in 1 .. Len(case.calls)
  BY <1>2, <1>5
<1>8. c.op \in Meeting \/ (c.op \in GroupCalls /\ T = 1)
  BY <1>1, <1>7, CaseFacts
<1> HIDE DEF c
<1>9. /\ CodeOK(c, w, T, s) /\ s # <<>> /\ ~RunCode(c, s) /\ ~SpinCode(s)
      /\ ~Has(s, "generation") /\ (Has(s, "fetch") => Has(s, "await"))
      /\ c.op \in Sharing => Has(s, "share")
      /\ c.op = "Predecessor" => /\ w[2] + 1 # T => Has(s, "share")
                                 /\ Has(s, "count")
      /\ AheadCode(c, w, T, s) \/ T = 1
  <2>1. w[2] \in Nat
    BY <1>5
  <2> HIDE DEF k
  <2> QED BY <1>3, <1>5, <1>8, <2>1, CodeBegin
<1>10. /\ at'[w] = k /\ at' \in [Worker -> 0 .. Len(case.calls)]
       /\ \A v \in Worker \ {w} : at'[v] = at[v] /\ slot'[v] = slot[v] /\ goal'[v] = goal[v]
       /\ slot'[w] = GetNextStep(w[1]) /\ slot' \in [Worker -> {0, 1}]
       /\ goal'[w] = generation[w[1]] + 1 /\ goal' = [v \in Worker |-> goal'[v]]
  <2>1. GetNextStep(w[1]) \in {0, 1}
    <3>1. step[w[1]] \in Nat
      BY <1>1, <1>5 DEF InvTypes
    <3> QED BY <3>1 DEF GetNextStep
  <2>2. k \in 0 .. Len(case.calls)
    BY <1>5, <1>7
  <2> HIDE DEF k
  <2> QED BY <1>1, <1>2, <2>1, <2>2 DEF InvTypes
<1>11. Call(w)' = c
  BY <1>2, <1>10 DEF Call, c
<1> HIDE DEF k
<1>12. /\ Worker' = Worker /\ H' = H /\ T' = T /\ code'[w] = s
       /\ code' = [v \in Worker' |-> code'[v]]
       /\ AheadSet' \subseteq Worker /\ RunSet' \subseteq Worker /\ StuckSet' \subseteq Worker
       /\ Inside' \subseteq Worker /\ Preds' \subseteq Inside' /\ Sharers' \subseteq Inside'
       /\ \A d : HasSet(d)' \subseteq Worker
       /\ \A v \in Worker \ {w} :
             /\ code'[v] = code[v] /\ Call(v)' = Call(v)
             /\ v \in AheadSet' <=> v \in AheadSet
             /\ v \in RunSet' <=> v \in RunSet
             /\ v \in StuckSet' <=> v \in StuckSet
             /\ v \in Inside' <=> v \in Inside
             /\ v \in Preds' <=> v \in Preds
             /\ v \in Sharers' <=> v \in Sharers
             /\ v \in Counted' <=> v \in Counted
             /\ v \in Advanced' <=> v \in Advanced
             /\ \A d : v \in HasSet(d)' <=> v \in HasSet(d)
       /\ w \in AheadSet' <=> AheadCode(Call(w)', w, T, s)
       /\ w \in RunSet' <=> RunCode(Call(w)', s)
       /\ w \in StuckSet' <=> SpinCode(s) /\ s[1].step = step'[w[1]]
       /\ \A d : w \in HasSet(d)' <=> Has(s, d)
  BY <1>2, <1>4, <1>10, Moved
<1>13. /\ w \notin RunSet' /\ w \notin StuckSet' /\ w \notin Advanced'
       /\ w \in Preds' => c.op = "Predecessor"
       /\ w \in Sharers' => c.op \in Sharing
       /\ w \in Inside' \/ T = 1
  BY <1>9, <1>11, <1>12 DEF Preds, Sharers, Advanced, Inside
<1>14. w \notin Counted'
  BY <1>9, <1>12, <1>13 DEF Counted
<1>15. \A v \in Worker : /\ v \in RunSet' <=> v \in RunSet
                         /\ v \in StuckSet' <=> v \in StuckSet
                         /\ v \in Counted' <=> v \in Counted
                         /\ v \in Advanced' <=> v \in Advanced
  BY <1>6, <1>12, <1>13, <1>14
<1>16. InvTypes'
  BY <1>1, <1>2, <1>10, <1>12 DEF InvTypes
<1>17. InvCode'
  <2>1. ASSUME NEW v \in Worker
        PROVE  CodeOK(Call(v)', v, T, code'[v]) /\ (code'[v] # <<>> => at'[v] \in 1 .. Len(case.calls))
    BY <1>1, <1>7, <1>9, <1>10, <1>11, <1>12 DEF InvCode
  <2> QED BY <1>2, <1>12, <2>1 DEF InvCode
<1>18. InvAligned'
  <2>1. \A v \in Worker \ {w} : Passed(v)' = Passed(v)
    BY <1>10, <1>12 DEF Passed
  <2>2. CASE w \in Inside'
    <3>1. Passed(w)' = at[w] /\ Passed(w) = at[w]
      BY <1>5, <1>6, <1>10, <2>2 DEF Passed, k
    <3> QED BY <1>12, <2>1, <3>1 DEF Inv, InvAligned
  <2>3. CASE T = 1
    <3>1. \A v, u \in Worker : v[1] = u[1] => v = u
      <4>1. \A v \in Worker : v[2] \in 0 .. T - 1 /\ v = <<v[1], v[2]>>
        BY <1>1, Place
      <4>2. \A v \in Worker : v[2] = 0
        BY <2>3, <4>1
      <4> QED BY <4>1, <4>2
    <3> QED BY <1>12, <3>1 DEF InvAligned
  <2> QED BY <1>13, <2>2, <2>3
<1>19. InvBarrier'
  <2>1. RunSet \subseteq Worker /\ StuckSet \subseteq Worker
    BY <1>1, Places
  <2>2. RunSet' = RunSet /\ StuckSet' = StuckSet
    BY <1>12, <1>15, <2>1
  <2>3. \A h : StuckAt(h)' = StuckAt(h)
    BY <1>12, <2>2 DEF StuckAt
  <2> QED BY <1>2, <1>12, <2>2, <2>3 DEF Inv, InvBarrier
<1>20. InvSlot'
  <2>1. \A h : GetNextStep(h)' = GetNextStep(h)
    BY <1>2 DEF GetNextStep
  <2>2. ASSUME NEW v \in Inside' PROVE slot'[v] = GetNextStep(v[1])
    BY <1>10, <1>12 DEF Inv, InvSlot
  <2> QED BY <2>1, <2>2 DEF InvSlot
<1>21. InvShared'
  <2> SUFFICES ASSUME NEW v \in Inside', v \in Sharers' \/ (v \in Preds' /\ v[2] + 1 # T)
               PROVE  v \in HasSet("share")' \/ shmem[v][slot'[v]].call = at'[v]
    BY <1>2, <1>12 DEF InvShared
  <2>1. CASE v = w
    BY <1>9, <1>12, <1>13, <2>1
  <2>2. CASE v # w
    <3>1. v \in Worker \ {w}
      BY <1>12, <2>2
    <3>2. v \in HasSet("share") \/ shmem[v][slot[v]].call = at[v]
      BY <1>12, <3>1 DEF Inv, InvShared
    <3> QED BY <1>10, <1>12, <3>1, <3>2
  <2> QED BY <2>1, <2>2
<1>22. InvCount'
  <2>1. Advanced \subseteq Worker /\ Advanced' \subseteq Worker
    BY <1>1, <1>12, Places DEF Advanced
  <2>2. \A h : (\A v \in Advanced' : v[1] # h) <=> (\A v \in Advanced : v[1] # h)
    BY <1>15, <2>1
  <2> QED BY <1>2, <1>12, <1>15, <2>2 DEF Inv, InvCount
<1>23. InvGoal'
  <2>1. ASSUME NEW v \in AheadSet' PROVE goal'[v] = generation[v[1]] + 1
    BY <1>10, <1>12 DEF Inv, InvGoal
  <2> QED BY <1>2, <2>1 DEF InvGoal
<1>24. InvFetch'
  <2>1. ASSUME NEW v \in Worker, v \in HasSet("fetch")' /\ v \notin HasSet("await")'
        PROVE  Previous(v) \in Counted'
    <3>1. v # w
      BY <1>9, <1>12, <2>1
    <3>2. Previous(v) \in Counted
      BY <1>12, <2>1, <3>1 DEF Inv, InvFetch
    <3>3. Previous(v) \in Worker
      BY <1>1, <3>2, Places DEF Counted, Preds
    <3> QED BY <1>15, <3>2, <3>3
  <2> QED BY <1>12, <2>1 DEF InvFetch, Previous
<1> QED BY <1>16, <1>17, <1>18, <1>19, <1>20, <1>21, <1>22, <1>23, <1>24 DEF Inv

-----------------------------------------------------------------------------
(* The invariant, and what it implies.                                     *)

\* The invariant holds before the first call,
LEMMA InitInv == ASSUME Init PROVE Inv
<1>1. /\ case \in Cases /\ at = [w \in Worker |-> 0] /\ code = [w \in Worker |-> <<>>]
      /\ slot = [w \in Worker |-> 0] /\ goal = [w \in Worker |-> 0]
      /\ shmem = [w \in Worker |-> [s \in {0, 1} |-> [call |-> 0, reg |-> "local"]]]
      /\ counter = [w \in Worker |-> 0] /\ generation = [h \in 0 .. H - 1 |-> 0]
      /\ waiting = [h \in 0 .. H - 1 |-> 0] /\ step = [h \in 0 .. H - 1 |-> 0]
  BY DEF Init
<1>2. /\ H \in Nat \ {0} /\ T \in Nat \ {0} /\ case.calls \in Seq(CallsOf(H * T, T))
  BY <1>1, CasesAssumption DEF H, T
<1>3. InvTypes
  <2>1. 0 \in 0 .. Len(case.calls) /\ 0 \in 0 .. T - 1
    BY <1>2
  <2> QED BY <1>1, <2>1 DEF InvTypes
<1>4. \A w \in Worker : code[w] = <<>> /\ w[1] \in 0 .. H - 1 /\ w[2] \in 0 .. T - 1
  BY <1>1 DEF Worker
<1>5. ASSUME NEW w \in Worker
      PROVE  /\ CodeOK(Call(w), w, T, code[w]) /\ ~AheadCode(Call(w), w, T, code[w])
             /\ ~RunCode(Call(w), code[w]) /\ ~SpinCode(code[w])
             /\ ~Has(code[w], "fetch")
  <2>1. IsSeq(code[w]) /\ code[w] = <<>>
    BY <1>4, UnitFacts
  <2> QED BY <2>1, CodeEnd DEF Control
<1>6. InvCode
  BY <1>4, <1>5 DEF InvCode
<1>7. AheadSet = {} /\ RunSet = {} /\ StuckSet = {} /\ HasSet("fetch") = {}
  BY <1>5 DEF AheadSet, RunSet, StuckSet, HasSet
<1>8. Inside = {} /\ Preds = {} /\ Counted = {}
  BY <1>7 DEF Inside, Preds, Counted
<1>9. InvAligned
  BY <1>1, <1>8 DEF InvAligned, Passed
<1>10. InvBarrier
  <2>1. \A h : StuckAt(h) = {}
    BY <1>7 DEF StuckAt
  <2>2. Cardinality({}) = 0
    BY FS_EmptySet
  <2> QED BY <1>1, <1>7, <2>1, <2>2 DEF InvBarrier
<1>11. InvSlot /\ InvShared /\ InvGoal /\ InvFetch
  BY <1>7, <1>8 DEF InvSlot, InvShared, InvGoal, InvFetch
<1>12. InvCount
  BY <1>1, <1>4, <1>8 DEF InvCount
<1> QED BY <1>3, <1>6, <1>9, <1>10, <1>11, <1>12 DEF Inv

\* and every step keeps it.
LEMMA NextInv == ASSUME Inv, [Next]_vars PROVE Inv'
<1>1. CASE UNCHANGED vars
  <2>1. UNCHANGED <<Still, shmem, code>>
    BY <1>1 DEF vars, callVars, sharedVars, barrierVars, Still
  <2> QED BY <2>1, Unmoved
<1>2. CASE Next
  <2>1. ASSUME NEW w \in Worker, Step(w) PROVE Inv'
    BY <2>1, BeginInv, ReturnInv, ComputeInv, SetLocalSharedInv, SendInv, FlushInv, ReceiveInv,
       IncCounterInv, WaitCounterInv, FetchInv, NextGenerationInv, ArriveInv, ReleaseInv,
       SpinInv, Zenon DEF Step
  <2>2. CASE Ended
    <3>1. UNCHANGED vars
      BY <2>2 DEF Ended
    <3> QED BY <1>1, <3>1
  <2> QED BY <1>2, <2>1, <2>2 DEF Next
<1> QED BY <1>1, <1>2

\* The inductive invariant always holds, for every number of hosts and threads,
\* every list of calls, and connections that buffer or block: the threads of
\* FlowControlChannel meet at ThreadBarrierSpin in every call.
THEOREM Invariant == Spec => []Inv
<1>1. Init => Inv
  BY InitInv
<1>2. Inv /\ [Next]_vars => Inv'
  BY NextInv
<1> QED BY <1>1, <1>2, PTL DEF Spec

\* A thread that takes the items of its predecessor finds it in the same call,
\* with its pointer set.
LEMMA FetchAlive ==
    ASSUME Inv, NEW w \in Worker, Executes(w, "fetch")
    PROVE  LET v == Previous(w)
           IN  code[v] # <<>> /\ at[v] = at[w] /\ shmem[v][slot[w]].call = at[w]
<1> DEFINE v == Previous(w)
<1>1. InvTypes /\ InvCode
  BY DEF Inv
<1>2. code[w] # <<>> /\ code[w][1].do = "fetch" /\ w \in AheadSet
  BY AtHead DEF Executes
<1>3. /\ AheadCode(Call(w), w, T, code[w]) /\ CodeOK(Call(w), w, T, code[w]) /\ IsSeq(code[w])
      /\ \A d : w \in HasSet(d) <=> Has(code[w], d)
      /\ w[1] \in 0 .. H - 1 /\ w[2] \in 0 .. T - 1 /\ T \in Nat \ {0} /\ at[w] \in Nat
  BY <1>1, <1>2, Place
<1>4. ~Has(code[w], "await") /\ Has(code[w], "fetch")
  <2>1. Behind(code[w])
    BY <1>3 DEF CodeOK
  <2>2. Len(code[w]) >= 2
    BY <1>3 DEF AheadCode
  <2> QED BY <1>2, <1>3, <2>1, <2>2, BehindTail DEF Has
<1>5. v \in Counted /\ v \in Worker
  BY <1>1, <1>3, <1>4, Places DEF Inv, InvFetch, Counted, Preds
<1>6. v \in Inside /\ v \in Preds /\ v \notin HasSet("count")
  BY <1>5 DEF Counted, Preds
<1>7. v[1] = w[1] /\ v[2] = w[2] - 1
  BY DEF Previous
<1> HIDE DEF v
<1>8. w \in Inside
  BY <1>2 DEF Inside
<1>9. at[v] = at[w]
  <2>1. Passed(v) = Passed(w)
    BY <1>5, <1>7 DEF Inv, InvAligned
  <2>2. at[v] \in Nat /\ at[w] \in Nat
    BY <1>1, <1>5, Place
  <2> QED BY <1>6, <1>8, <2>1, <2>2 DEF Passed
<1>10. slot[v] = slot[w]
  BY <1>6, <1>7, <1>8 DEF Inv, InvSlot
<1>11. v \notin HasSet("share")
  <2>1. /\ CodeOK(Call(v), v, T, code[v]) /\ IsSeq(code[v]) /\ Call(v).op = "Predecessor"
        /\ \A d : v \in HasSet(d) <=> Has(code[v], d)
        /\ v \in AheadSet <=> AheadCode(Call(v), v, T, code[v])
    BY <1>1, <1>5, <1>6, Place DEF Preds
  <2>2. CASE v \in AheadSet
    <3>1. Ordered(code[v])
      BY <2>1, <2>2, Exclusive DEF CodeOK
    <3>2. Has(code[v], "share") => Has(code[v], "count")
      <4> SUFFICES ASSUME NEW i \in 1 .. Len(code[v]), code[v][i].do = "share"
                   PROVE  Has(code[v], "count")
        BY DEF Has
      <4>1. Len(code[v]) \in Nat
        BY <2>1, SeqFacts
      <4>2. PICK j \in i + 1 .. Len(code[v]) : code[v][j].do = "count"
        BY <3>1 DEF Ordered
      <4>3. j \in 1 .. Len(code[v])
        BY <4>1, <4>2
      <4> QED BY <4>2, <4>3 DEF Has
    <3> QED BY <1>6, <2>1, <3>2
  <2>3. CASE v \in RunSet \cup StuckSet
    BY <1>1, <2>3, Places
  <2> QED BY <1>6, <2>2, <2>3 DEF Inside
<1>12. v[2] + 1 # T
  BY <1>3, <1>7
<1>13. shmem[v][slot[v]].call = at[v]
  BY <1>6, <1>11, <1>12 DEF Inv, InvShared
<1>14. code[v] # <<>>
  BY <1>1, <1>6, Places
<1> QED BY <1>9, <1>10, <1>13, <1>14 DEF v

\* The thread that runs the lambda finds all threads of its host in the call,
\* with their pointers set.
LEMMA LambdaAlive ==
    ASSUME Inv, NEW w \in Worker, Executes(w, "calc"), Head(code[w]).f \in GatherScatters,
           NEW v \in Worker, v[1] = w[1]
    PROVE  code[v] # <<>> /\ at[v] = at[w] /\ shmem[v][slot[w]].call = at[w]
<1> DEFINE x == code[w][1]
<1>1. InvTypes /\ InvCode
  BY DEF Inv
<1>2. code[w] # <<>> /\ x.do = "calc" /\ x.f \in GatherScatters
  BY AtHead DEF Executes
<1>3. CodeOK(Call(w), w, T, code[w]) /\ IsSeq(code[w])
  BY <1>1, Place
<1>4. ~SpinCode(code[w])
  BY <1>2 DEF SpinCode
<1>5. ~LeaveCode(T, code[w])
  <2>1. ~GroupOK(x)
    BY <1>2 DEF GroupOK, Sends, Receives
  <2> QED BY <1>2, <1>3, <2>1, HeadKinds
<1>6. ~AheadCode(Call(w), w, T, code[w])
  <2>1. ~AheadOK(Call(w), w, T, x)
    BY <1>2 DEF AheadOK, Comm, Sends, Receives
  <2> QED BY <1>2, <1>3, <2>1, HeadKinds
<1>7. RunCode(Call(w), code[w])
  BY <1>2, <1>3, <1>4, <1>5, <1>6 DEF CodeOK
<1>8. w \in RunSet
  BY <1>1, <1>7, Place
<1>9. Call(w).op \in Sharing
  <2>1. RunOK(Call(w), x)
    BY <1>2, <1>3, <1>7, HeadKinds
  <2> QED BY <1>2, <2>1 DEF RunOK, Comm, Sends, Receives
<1>10. v \in Inside /\ at[v] = at[w] /\ Call(v) = Call(w) /\ v \notin HasSet("share")
  BY <1>8, RunnerHost
<1>11. shmem[v][slot[v]].call = at[v]
  BY <1>9, <1>10 DEF Inv, InvShared, Sharers
<1>12. slot[v] = slot[w]
  <2>1. w \in Inside
    BY <1>8 DEF Inside
  <2> QED BY <1>10, <2>1 DEF Inv, InvSlot
<1>13. code[v] # <<>>
  BY <1>1, <1>10, Places
<1> QED BY <1>10, <1>11, <1>12, <1>13

\* The invariant implies that no pointer to a variable of another call is followed.
LEMMA InvPointers == ASSUME Inv PROVE PointersAlive
<1> SUFFICES ASSUME NEW w \in Worker, NEW v \in Follows(w)
             PROVE  code[v] # <<>> /\ at[v] = at[w] /\ shmem[v][slot[w]].call = at[w]
  BY DEF PointersAlive
<1>1. CASE Executes(w, "fetch")
  <2>1. ~Executes(w, "calc")
    BY <1>1 DEF Executes
  <2>2. Follows(w) = {Previous(w)}
    BY <1>1, <2>1, Zenon DEF Follows
  <2>3. v = Previous(w)
    BY <2>2
  <2> QED BY <1>1, <2>3, FetchAlive
<1>2. CASE ~Executes(w, "fetch") /\ Executes(w, "calc") /\ Head(code[w]).f \in GatherScatters
  <2>1. v \in {w[1]} \X (0 .. T - 1)
    BY <1>2 DEF Follows
  <2>2. v \in Worker /\ v[1] = w[1]
    BY <2>1 DEF Worker
  <2> QED BY <1>2, <2>2, LambdaAlive
<1>3. CASE ~Executes(w, "fetch") /\ ~(Executes(w, "calc") /\ Head(code[w]).f \in GatherScatters)
  BY <1>3 DEF Follows
<1> QED BY <1>1, <1>2, <1>3

\* Where a thread may use a connection, and which one.
LEMMA PeerPlace ==
    ASSUME Inv, NEW w \in Worker, NEW p \in Peer(w)
    PROVE  \/ T = 1
           \/ w \in RunSet
           \/ w \in AheadSet /\ Call(w).op = "Broadcast" /\ w[2] = Call(w).root % T
           \/ /\ w \in AheadSet /\ Call(w).op = "Predecessor"
              /\ (w[2] = T - 1 /\ p = w[1] + 1) \/ (w[2] = 0 /\ p = w[1] - 1)
<1> DEFINE x == code[w][1]
           c == Call(w)
<1>1. InvTypes /\ InvCode
  BY DEF Inv
<1>2. code[w] # <<>> /\ Head(code[w]).do \in Comm /\ p = Head(code[w]).peer
  BY DEF Peer, Executes, Comm
<1>3. x.do \in Comm /\ p = x.peer
  BY <1>2, AtHead
<1>4. /\ CodeOK(c, w, T, code[w]) /\ IsSeq(code[w])
      /\ w \in AheadSet <=> AheadCode(c, w, T, code[w])
      /\ w \in RunSet <=> RunCode(c, code[w])
  BY <1>1, Place
<1> HIDE DEF c, x
<1>5. ~SpinCode(code[w])
  BY <1>3 DEF SpinCode, Comm, Sends, Receives, x
<1>6. CASE LeaveCode(T, code[w])
  <2>1. Len(code[w]) > 1
    BY <1>2, <1>3, <1>4, <1>6, HeadKinds DEF Comm, Sends, Receives, x
  <2> QED BY <1>6, <2>1 DEF LeaveCode
<1>7. CASE AheadCode(c, w, T, code[w])
  <2>1. AheadOK(c, w, T, x)
    BY <1>2, <1>3, <1>4, <1>7, HeadKinds DEF Comm, Sends, Receives, x
  <2>2. x.do \notin {"share", "calc", "count", "await", "fetch"}
    BY <1>3 DEF Comm, Sends, Receives
  <2>3. \/ c.op = "Broadcast" /\ w[2] = c.root % T
        \/ c.op = "Predecessor" /\ ((w[2] = T - 1 /\ p = w[1] + 1) \/ (w[2] = 0 /\ p = w[1] - 1))
    BY <1>3, <2>1, <2>2 DEF AheadOK
  <2> QED BY <1>4, <1>7, <2>3 DEF c
<1> QED BY <1>2, <1>4, <1>5, <1>6, <1>7 DEF CodeOK

\* The invariant implies that no connection of a host has two users.
LEMMA InvConnections == ASSUME Inv PROVE OneUserPerConnection
<1> SUFFICES ASSUME NEW v \in Worker, NEW w \in Worker, v # w, v[1] = w[1],
                    NEW p \in Peer(v) \cap Peer(w)
             PROVE  FALSE
  BY DEF OneUserPerConnection
<1>1. InvTypes /\ InvCode
  BY DEF Inv
<1>2. /\ w[1] \in 0 .. H - 1 /\ w[2] \in 0 .. T - 1 /\ w = <<w[1], w[2]>>
      /\ v[2] \in 0 .. T - 1 /\ v = <<v[1], v[2]>>
      /\ H \in Nat \ {0} /\ T \in Nat \ {0}
      /\ at[v] \in Nat /\ at[w] \in Nat
  BY <1>1, Place
<1>3. v[2] # w[2]
  BY <1>2
<1>4. T # 1
  BY <1>2, <1>3
<1>5. /\ w \in RunSet \cup AheadSet
      /\ v \in RunSet \cup AheadSet
  BY <1>4, PeerPlace
<1>6. w \notin RunSet /\ v \notin RunSet
  BY <1>1, <1>5, RunnerHost, Places
<1>7. w \in AheadSet /\ v \in AheadSet
  BY <1>5, <1>6
<1>8. Call(v) = Call(w)
  <2>1. Passed(v) = Passed(w)
    BY DEF Inv, InvAligned
  <2>2. at[v] = at[w]
    BY <1>2, <1>7, <2>1 DEF Passed, Inside
  <2> QED BY <2>2 DEF Call
<1>9. /\ \/ Call(w).op = "Broadcast" /\ w[2] = Call(w).root % T
         \/ /\ Call(w).op = "Predecessor"
            /\ (w[2] = T - 1 /\ p = w[1] + 1) \/ (w[2] = 0 /\ p = w[1] - 1)
      /\ \/ Call(v).op = "Broadcast" /\ v[2] = Call(v).root % T
         \/ /\ Call(v).op = "Predecessor"
            /\ (v[2] = T - 1 /\ p = v[1] + 1) \/ (v[2] = 0 /\ p = v[1] - 1)
  BY <1>4, <1>6, PeerPlace
<1>10. CASE Call(w).op = "Broadcast"
  BY <1>3, <1>8, <1>9, <1>10
<1>11. CASE Call(w).op = "Predecessor"
  <2>1. /\ (w[2] = T - 1 /\ p = w[1] + 1) \/ (w[2] = 0 /\ p = w[1] - 1)
        /\ (v[2] = T - 1 /\ p = w[1] + 1) \/ (v[2] = 0 /\ p = w[1] - 1)
    BY <1>8, <1>9, <1>11
  <2>2. w[1] + 1 # w[1] - 1
    BY <1>2
  <2> QED BY <1>3, <2>1, <2>2
<1> QED BY <1>9, <1>10, <1>11

\* A pointer in shmem_ is followed only while the thread that set it is inside
\* the same call, for every number of hosts and threads and every list of calls.
THEOREM FlowPointersAlive == Spec => []PointersAlive
<1>1. Inv => PointersAlive
  BY InvPointers
<1> QED BY <1>1, Invariant, PTL

\* No two threads of a host use the same connection at the same time.
THEOREM FlowOneUser == Spec => []OneUserPerConnection
<1>1. Inv => OneUserPerConnection
  BY InvConnections
<1> QED BY <1>1, Invariant, PTL

\* ThreadBarrierSpin keeps the threads of a host together: one that is ahead of
\* another is ahead by a single call and has not passed its barrier; and while one
\* runs the lambda, all others spin at the barrier.
StayTogether ==
    \A v, w \in Worker : v[1] = w[1] =>
        /\ at[v] < at[w] => /\ at[w] = at[v] + 1
                            /\ Has(code[w], "barrier") \/ Executes(w, "spin")
        /\ v # w /\ Has(code[w], "release") => Executes(v, "spin") /\ at[v] = at[w]

\* The invariant implies that the threads of a host stay together.
LEMMA InvTogether == ASSUME Inv PROVE StayTogether
<1> SUFFICES ASSUME NEW v \in Worker, NEW w \in Worker, v[1] = w[1]
             PROVE  /\ at[v] < at[w] => /\ at[w] = at[v] + 1
                                        /\ Has(code[w], "barrier") \/ Executes(w, "spin")
                    /\ v # w /\ Has(code[w], "release") => Executes(v, "spin") /\ at[v] = at[w]
  BY DEF StayTogether
<1>1. InvTypes /\ InvCode
  BY DEF Inv
<1>2. /\ at[v] \in Nat /\ at[w] \in Nat /\ IsSeq(code[w]) /\ IsSeq(code[v])
      /\ CodeOK(Call(w), w, T, code[w])
      /\ w \in AheadSet <=> AheadCode(Call(w), w, T, code[w])
      /\ w \in RunSet <=> RunCode(Call(w), code[w])
  BY <1>1, Place
<1>3. Passed(v) = Passed(w)
  BY DEF Inv, InvAligned
<1>4. \A u \in Worker : u \in StuckSet => Executes(u, "spin")
  <2> SUFFICES ASSUME NEW u \in Worker, u \in StuckSet PROVE Executes(u, "spin")
    OBVIOUS
  <2>1. IsSeq(code[u]) /\ Len(code[u]) = 2 /\ code[u][1].do = "spin"
    BY <1>1, Place DEF SpinCode
  <2>2. code[u] # <<>>
    BY <2>1, SeqFacts
  <2> QED BY <2>1, <2>2, AtHead DEF Executes
<1>5. ASSUME at[v] < at[w]
      PROVE  at[w] = at[v] + 1 /\ (Has(code[w], "barrier") \/ Executes(w, "spin"))
  <2>1. w \in Inside /\ v \notin Inside /\ at[w] = at[v] + 1
    BY <1>2, <1>3, <1>5 DEF Passed
  <2>2. w \notin RunSet
    BY <2>1, RunnerHost
  <2>3. CASE w \in AheadSet
    <3>1. Len(code[w]) >= 2 /\ code[w][Len(code[w]) - 1].do = "barrier"
      BY <1>2, <2>3 DEF AheadCode
    <3>2. Len(code[w]) \in Nat
      BY <1>2, SeqFacts
    <3>3. Len(code[w]) - 1 \in 1 .. Len(code[w])
      BY <3>1, <3>2
    <3> QED BY <2>1, <3>1, <3>3 DEF Has
  <2>4. CASE w \in StuckSet
    BY <1>4, <2>1, <2>4
  <2> QED BY <2>1, <2>2, <2>3, <2>4 DEF Inside
<1>6. ASSUME v # w, Has(code[w], "release")
      PROVE  Executes(v, "spin") /\ at[v] = at[w]
  <2>1. w \in RunSet
    <3>1. ~SpinCode(code[w]) /\ ~LeaveCode(T, code[w]) /\ code[w] # <<>>
      BY <1>2, <1>6, PlaceHas DEF Control
    <3>2. ~AheadCode(Call(w), w, T, code[w])
      <4> SUFFICES ASSUME AheadCode(Call(w), w, T, code[w]) PROVE FALSE
        OBVIOUS
      <4>1. PICK i \in 1 .. Len(code[w]) : code[w][i].do = "release"
        BY <1>6 DEF Has
      <4>2. /\ code[w][Len(code[w])].do = "return" /\ code[w][Len(code[w]) - 1].do = "barrier"
            /\ \A j \in 1 .. Len(code[w]) - 2 : AheadOK(Call(w), w, T, code[w][j])
        BY DEF AheadCode
      <4>3. Len(code[w]) \in Nat
        BY <1>2, SeqFacts
      <4>4. i \in 1 .. Len(code[w]) - 2
        BY <4>1, <4>2, <4>3
      <4> QED BY <4>1, <4>2, <4>4 DEF AheadOK, Comm, Sends, Receives
    <3> QED BY <1>2, <3>1, <3>2 DEF CodeOK
  <2> QED BY <1>4, <1>6, <2>1, RunnerHost
<1> QED BY <1>5, <1>6

\* The threads of a host stay together: no call of FlowControlChannel is overtaken
\* by another, whatever the speed of the threads.
THEOREM FlowTogether == Spec => []StayTogether
<1>1. Inv => StayTogether
  BY InvTogether
<1> QED BY <1>1, Invariant, PTL
=============================================================================
