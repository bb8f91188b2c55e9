------------------------------ MODULE MemPool ------------------------------
(***************************************************************************)
(* thrill/mem/pool.{hpp,cpp}: the allocator behind GPool, from which       *)
(* Thrill takes all memory that must not be counted twice.  Requests of up *)
(* to 256 bytes come from ObjectPools (bit sets), larger ones from Arenas  *)
(* (chains of free slots), which lie in bins by their free slots.  mutex_  *)
(* makes every call one step.  Sizes are in Slots.                         *)
(***************************************************************************)
EXTENDS Integers, Sequences, FiniteSets, SequencesExt, FiniteSetsExt
CONSTANTS
    ArenaSlots,    \* slots of an Arena of default_arena_size_
    NumBins,       \* num_bins
    MinFree,       \* min_free_
    Requests,      \* slots asked for
    MaxArenas,     \* memory of the host: Arenas that fit
    ObjectSlots,   \* num_slots_ of an ObjectPool
    FlagBits,      \* bits in its flags[], at least ObjectSlots
    KeepArenas,    \* 16: empty ObjectArenas that are kept
    MaxLive        \* bound: allocations at a time
VARIABLES pool,    \* [arena, bin, free, size, dead]
          object,  \* [arena, free, full, total_slots, total_free, dead]
          live     \* what callers hold: <<"slots", arena, at, n>> or <<"object", arena, slot>>
memVars == <<pool, object, live>>

(***************************************************************************)
(* ObjectPool                                                              *)
(***************************************************************************)
\* ObjectPool::ObjectPool(size): slots and flag words in 16384 bytes
ObjectPoolGeometry_NoFlags(size) ==
    LET slots == (16384 - 40 + 8) \div size IN [slots |-> slots, words |-> (slots + 63) \div 64]
ObjectPoolGeometry(size) ==
    LET slots == (8 * (16384 - 40 + 8)) \div (8 * size + 1) IN [slots |-> slots, words |-> (slots + 63) \div 64]
\* arena: identity |-> the set bits of its flags and free_slots; free and full
\* are the lists free_ and full_, first arena first
NewObjectPool == [arena |-> [a \in {} |-> 0], free |-> <<>>, full |-> <<>>,
                  total_slots |-> 0, total_free |-> 0, dead |-> FALSE]
NextId(arena) == Min(1..(Cardinality(DOMAIN arena) + 1) \ DOMAIN arena)
With(arena, a, x) == [b \in DOMAIN arena \cup {a} |-> IF b = a THEN x ELSE arena[b]]
Without(arena, a) == [b \in DOMAIN arena \ {a} |-> arena[b]]
AllocateObjectArena(o) ==
    LET a == NextId(o.arena)
    IN [o EXCEPT !.arena = With(@, a, [flags |-> 0..(FlagBits - 1), free_slots |-> ObjectSlots]),
                 !.free = <<a>> \o @, !.total_slots = @ + ObjectSlots, !.total_free = @ + ObjectSlots]
RECURSIVE KeepSpare(_)
KeepSpare_Empty(o) == IF o.free = <<>> THEN KeepSpare(AllocateObjectArena(o)) ELSE o
KeepSpare(o) == IF o.free = <<>> \/ o.total_free <= ObjectSlots THEN KeepSpare(AllocateObjectArena(o)) ELSE o
ObjectTake(o) ==
    LET s == KeepSpare(o)
        a == s.free[1]
        slot == Min(s.arena[a].flags)
        left == s.arena[a].free_slots - 1
        t == [s EXCEPT !.arena[a] = [flags |-> @.flags \ {slot}, free_slots |-> left], !.total_free = @ - 1]
    IN [o |-> IF left = 0 THEN [t EXCEPT !.full = <<a>> \o @, !.free = Tail(@)] ELSE t, got |-> <<"object", a, slot>>]
ObjectGive_NoSplice(o, a, slot) ==
    [o EXCEPT !.arena[a] = [flags |-> @.flags \cup {slot}, free_slots |-> @.free_slots + 1], !.total_free = @ + 1]
ObjectGive(o, a, slot) ==
    IF slot \in o.arena[a].flags \/ slot >= ObjectSlots THEN [o EXCEPT !.dead = TRUE]
    ELSE LET s == IF o.arena[a].free_slots = 0
                  THEN [o EXCEPT !.full = SelectSeq(@, LAMBDA x : x # a), !.free = <<a>> \o @] ELSE o
             t == [s EXCEPT !.arena[a] = [flags |-> @.flags \cup {slot}, free_slots |-> @.free_slots + 1],
                            !.total_free = @ + 1]
         IN IF t.arena[a].free_slots = ObjectSlots /\ t.total_free > KeepArenas * ObjectSlots
            THEN [t EXCEPT !.arena = Without(@, a), !.free = SelectSeq(@, LAMBDA x : x # a),
                           !.total_free = @ - ObjectSlots, !.total_slots = @ - ObjectSlots]
            ELSE t

(***************************************************************************)
(* Arenas.  chain is the list of free slots, [at, size] by address;        *)
(* free_size their number.                                                 *)
(***************************************************************************)
calc_bin_for_size(n) == IF n = 0 THEN 0 ELSE 1 + Max({e \in 0..n : 2^e <= n})
bin_lower_bound(b) == IF b = 0 THEN 0 ELSE 2^(b - 1)
Link(bins, b, a) == [bins EXCEPT ![b] = <<a>> \o @]
\* prev_arena and next_arena are changed; the head of bin b, if a has no
\* prev_arena: b is where the caller believes a to be
Unlink(bins, b, a) ==
    LET home == CHOOSE h \in DOMAIN bins : a \in ToSet(bins[h])
    IN IF bins[home][1] = a THEN [bins EXCEPT ![b] = Tail(bins[home])]
       ELSE [bins EXCEPT ![home] = SelectSeq(@, LAMBDA x : x # a)]

MemoryLeft(p) == Cardinality(DOMAIN p.arena) < MaxArenas
AllocateFreeArena(p, slots) ==
    LET a == NextId(p.arena)
        oversize == slots > ArenaSlots
        b == IF oversize THEN NumBins ELSE calc_bin_for_size(slots)
    IN [p EXCEPT !.arena = With(@, a, [slots |-> slots, oversize |-> oversize, free_size |-> slots,
                                       chain |-> <<[at |-> 0, size |-> slots]>>]),
                 !.bin = Link(@, b, a), !.free = @ + slots]
RECURSIVE Refill(_)
Refill(p) == IF p.free < MinFree /\ MemoryLeft(p) THEN Refill(AllocateFreeArena(p, ArenaSlots)) ELSE p
NewPool ==
    Refill([arena |-> [a \in {} |-> 0], bin |-> [b \in 0..NumBins |-> <<>>], free |-> 0, size |-> 0, dead |-> FALSE])

FirstFit(arena, n) == {i \in DOMAIN arena.chain : arena.chain[i].size >= n}
Remainder_Lost(f, n) == <<>>
Remainder(f, n) == IF f.size > n THEN <<[at |-> f.at + n, size |-> f.size - n]>> ELSE <<>>
\* the first free slots that suffice; the rest of them stays in the chain
ArenaFindFree_KeepsBin(p, a, b, n) ==
    LET i == Min(FirstFit(p.arena[a], n))
        c == p.arena[a].chain
        f == c[i]
    IN Refill([p EXCEPT !.arena[a].free_size = @ - n, !.size = @ + n, !.free = @ - n,
                        !.arena[a].chain = SubSeq(c, 1, i - 1) \o Remainder(f, n) \o SubSeq(c, i + 1, Len(c))])
ArenaFindFree(p, a, b, n) ==
    LET i == Min(FirstFit(p.arena[a], n))
        c == p.arena[a].chain
        f == c[i]
        left == p.arena[a].free_size - n
        q == [p EXCEPT !.arena[a].free_size = left, !.size = @ + n, !.free = @ - n,
                       !.arena[a].chain = SubSeq(c, 1, i - 1) \o Remainder(f, n) \o SubSeq(c, i + 1, Len(c))]
    IN Refill(IF left < bin_lower_bound(b) /\ ~p.arena[a].oversize
              THEN [q EXCEPT !.bin = Link(Unlink(@, b, a), calc_bin_for_size(left), a)] ELSE q)
\* the arenas of the bins from bin on, in the order they are searched
SearchOrder(p, b) == FlattenSeq([i \in 1..(NumBins - b) |-> [k \in 1..Len(p.bin[b + i - 1]) |-> <<p.bin[b + i - 1][k], b + i - 1>>]])
Fitting(p, order, n) == {k \in DOMAIN order : p.arena[order[k][1]].free_size >= n /\ FirstFit(p.arena[order[k][1]], n) # {}}

\* Pool::allocate(n): without memory for a new arena the program aborts
Taken(p, a, b, n) ==
    [p |-> ArenaFindFree(p, a, b, n), got |-> <<"slots", a, p.arena[a].chain[Min(FirstFit(p.arena[a], n))].at, n>>]
PoolTake(p, n) ==
    LET order == SearchOrder(p, calc_bin_for_size(n))
        fits == Fitting(p, order, n)
        fresh == NextId(p.arena)
    IN IF n > ArenaSlots /\ MemoryLeft(p) THEN Taken(AllocateFreeArena(p, n), fresh, NumBins, n)
       ELSE IF n <= ArenaSlots /\ fits # {} THEN Taken(p, order[Min(fits)][1], order[Min(fits)][2], n)
       ELSE IF n <= ArenaSlots /\ MemoryLeft(p)
       THEN Taken(AllocateFreeArena(p, ArenaSlots), fresh, calc_bin_for_size(ArenaSlots), n)
       ELSE [p |-> [p EXCEPT !.dead = TRUE], got |-> <<>>]

(***************************************************************************)
(* Pool::deallocate: the slots go back into the chain behind the free ones *)
(* before them, and what follows without a gap is joined, beginning at     *)
(* those before them.                                                      *)
(***************************************************************************)
RECURSIVE JoinFrom(_, _)
JoinFrom(c, i) ==
    IF i < Len(c) /\ c[i + 1].at = c[i].at + c[i].size
    THEN JoinFrom(SubSeq(c, 1, i - 1) \o <<[at |-> c[i].at, size |-> c[i].size + c[i + 1].size]>> \o SubSeq(c, i + 2, Len(c)), i)
    ELSE c
ChainGive_FromNew(c, at, n) ==
    LET prev == Cardinality({i \in DOMAIN c : c[i].at < at})
    IN JoinFrom(SubSeq(c, 1, prev) \o <<[at |-> at, size |-> n]>> \o SubSeq(c, prev + 1, Len(c)), prev + 1)
ChainGive(c, at, n) ==
    LET prev == Cardinality({i \in DOMAIN c : c[i].at < at})
    IN JoinFrom(SubSeq(c, 1, prev) \o <<[at |-> at, size |-> n]>> \o SubSeq(c, prev + 1, Len(c)), IF prev = 0 THEN 1 ELSE prev)
Destroy(p, a, b) ==
    [p EXCEPT !.bin = Unlink(@, b, a), !.free = @ - p.arena[a].slots, !.arena = Without(@, a)]
KeepsReserve_AnyEmpty(p, a) == FALSE
KeepsReserve(p, a) == p.free < MinFree + p.arena[a].slots
PoolGive(p, a, at, n) ==
    LET q == [p EXCEPT !.arena[a].chain = ChainGive(@, at, n), !.arena[a].free_size = @ + n,
                       !.size = @ - n, !.free = @ + n]
        was == calc_bin_for_size(p.arena[a].free_size)
        now == calc_bin_for_size(q.arena[a].free_size)
    IN IF q.arena[a].oversize THEN Destroy(q, a, NumBins)
       ELSE IF q.arena[a].free_size = q.arena[a].slots /\ ~KeepsReserve(q, a) THEN Destroy(q, a, was)
       ELSE IF was # now THEN [q EXCEPT !.bin = Link(Unlink(@, was, a), now, a)]
       ELSE q

(***************************************************************************)
(* The callers                                                             *)
(***************************************************************************)
Init == pool = NewPool /\ object = NewObjectPool /\ live = {}
allocate(n) ==
    /\ ~pool.dead /\ Cardinality(live) < MaxLive
    /\ LET r == PoolTake(pool, n)
       IN pool' = r.p /\ live' = live \cup (IF r.got = <<>> THEN {} ELSE {r.got})
    /\ UNCHANGED object
allocate_object ==
    /\ ~object.dead /\ Cardinality(live) < MaxLive
    /\ LET r == ObjectTake(object) IN object' = r.o /\ live' = live \cup {r.got}
    /\ UNCHANGED pool
deallocate(x) ==
    ~pool.dead /\ live' = live \ {x} /\ pool' = PoolGive(pool, x[2], x[3], x[4]) /\ UNCHANGED object
deallocate_object(x) ==
    ~object.dead /\ live' = live \ {x} /\ object' = ObjectGive(object, x[2], x[3]) /\ UNCHANGED pool
\* the two kinds of requests share nothing but mutex_
NextSlots == (\E n \in Requests : allocate(n)) \/ (\E x \in live : deallocate(x))
NextObjects == allocate_object \/ (\E x \in live : deallocate_object(x))

----------------------------------------------------------------------------
LiveIn(a) == {x \in live : x[1] = "slots" /\ x[2] = a}
Slots(at, n) == at..(at + n - 1)
\* Pool: the slots that callers hold and the free ones of the chain fill every
\* arena without an overlap and without a gap, and free_size, free_ and size_
\* count them: no memory is handed out twice and none leaks.
SlotsTile ==
    /\ \A a \in DOMAIN pool.arena :
        LET ar == pool.arena[a]
            held == {Slots(x[3], x[4]) : x \in LiveIn(a)}
            freed == {Slots(f.at, f.size) : f \in ToSet(ar.chain)}
        IN /\ UNION (held \cup freed) = 0..(ar.slots - 1)
           /\ MapThenSumSet(Cardinality, held \cup freed) = ar.slots
           /\ ar.free_size = MapThenSumSet(Cardinality, freed)
    /\ pool.free = MapThenSumSet(LAMBDA a : pool.arena[a].free_size, DOMAIN pool.arena)
    /\ pool.size = MapThenSumSet(LAMBDA x : IF x[1] = "slots" THEN x[4] ELSE 0, live)
    /\ \A x \in live : x[1] = "slots" => x[2] \in DOMAIN pool.arena

\* Pool: every arena is in exactly one bin, that of its free slots (print()
\* dies otherwise), whatever order of calls recategorised it; the one that is
\* given back to the system is in none.
InTheirBins ==
    /\ \A b \in 0..NumBins : IsInjective(pool.bin[b]) /\ ToSet(pool.bin[b]) \subseteq DOMAIN pool.arena
    /\ \A a \in DOMAIN pool.arena : \A b \in 0..NumBins :
        (a \in ToSet(pool.bin[b])) =
            (b = IF pool.arena[a].oversize THEN NumBins ELSE calc_bin_for_size(pool.arena[a].free_size))

\* Pool: an arena of which nobody holds a slot is one piece again and serves the
\* largest request, although deallocate does not join the freed slots with those
\* behind them when there is a gap before them.
WholeAgain ==
    \A a \in DOMAIN pool.arena : LiveIn(a) = {} => pool.arena[a].chain = <<[at |-> 0, size |-> pool.arena[a].slots]>>

\* Pool: min_free_ slots are in reserve after every allocate, unless the system
\* has no memory for them, and a deallocate that destroys an arena leaves them.
ReserveKept ==
    \/ pool'.free >= MinFree \/ ~MemoryLeft(pool') \/ pool'.dead
    \/ live' \subseteq live /\ pool.free < MinFree

\* ObjectPool: what self_verify counts, an arena is in full_ if and only if it
\* has no free slot, the flags are those of the slots nobody holds, and a bit
\* behind the last slot is never handed out; the next request finds a free arena.
ObjectsVerify ==
    LET o == object
        used(a) == {x[3] : x \in {y \in live : y[1] = "object" /\ y[2] = a}}
    IN /\ ~o.dead /\ IsInjective(o.free \o o.full) /\ ToSet(o.free \o o.full) = DOMAIN o.arena
       /\ \A a \in DOMAIN o.arena :
             /\ used(a) \subseteq 0..(ObjectSlots - 1) /\ o.arena[a].flags = (0..(FlagBits - 1)) \ used(a)
             /\ o.arena[a].free_slots = ObjectSlots - Cardinality(used(a))
             /\ (a \in ToSet(o.full)) = (o.arena[a].free_slots = 0)
       /\ \A x \in live : x[1] = "object" => x[2] \in DOMAIN o.arena
       /\ o.total_slots = ObjectSlots * Cardinality(DOMAIN o.arena)
       /\ o.total_free = o.total_slots - Cardinality({x \in live : x[1] = "object"})
       /\ o.arena # <<>> => o.total_free >= ObjectSlots
       /\ \A size \in {32, 64, 128, 256} :
             LET g == ObjectPoolGeometry(size) IN 40 - 8 + 8 * g.words + g.slots * size <= 16384
=============================================================================
