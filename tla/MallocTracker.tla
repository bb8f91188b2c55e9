--------------------------- MODULE MallocTracker ---------------------------
(***************************************************************************)
(* thrill/mem/malloc_tracker.cpp: malloc, free and realloc are intercepted *)
(* to know how much memory the program uses.  A thread counts in its own   *)
(* tl_stats and adds them to the counters of all threads when they exceed  *)
(* tl_delay_threshold; the bypass_ functions, for Thrill's own ByteBlocks  *)
(* and pools, count in base_curr at once.  The counters are changed by     *)
(* atomic instructions, one at a time; peak_bytes is read and written      *)
(* separately, and memory_exceeded is written after the sum it is about.   *)
(* The bars of update_memprofile, the total numbers of bytes and calls and *)
(* the number of blocks are only logged and are left out.                  *)
(***************************************************************************)
EXTENDS Integers, Sequences, FiniteSets, FiniteSetsExt
CONSTANTS
    Threads,
    Threshold,     \* tl_delay_threshold
    Limit,         \* memory_limit_indication
    HeapSize,      \* INIT_HEAP_SIZE
    AllocSizes,    \* usable sizes
    MaxCalls       \* bound: calls of all threads together
VARIABLES
    cnt,     \* [float, base, peak, exceeded, calls]; pending, uncounted: bytes of a
             \* block on its way to free, of failed reallocs; raced: history, a call
             \* began while another thread was in one
    tl,      \* tl_stats.bytes of each thread
    todo,    \* what the thread still has to do in its call: a sequence of steps
    hand,    \* its local variables: mycurr, the sum that update_peak has been given,
             \* whether it exceeds peak_bytes, and the block that its call returns
    blocks,  \* [id, size, kind]: kind is "init", "real" or "bypass"
    heap     \* [use, ready]: init_heap_use; ready once init() has found real_malloc
trackVars == <<cnt, tl, todo, hand, blocks, heap>>

NoPtr == 0
Init ==
    /\ cnt = [float |-> 0, base |-> 0, peak |-> 0, exceeded |-> FALSE, calls |-> 0, pending |-> 0,
              uncounted |-> 0, raced |-> FALSE]
    /\ tl = [t \in Threads |-> 0] /\ todo = [t \in Threads |-> <<>>]
    /\ hand = [t \in Threads |-> [curr |-> 0, sum |-> 0, higher |-> FALSE, ptr |-> NoPtr]]
    /\ blocks = {} /\ heap = [use |-> 0, ready |-> FALSE]

\* init(): dlsym has found malloc; the first thread does that before main
init_real ==
    ~heap.ready /\ heap' = [heap EXCEPT !.ready = TRUE] /\ UNCHANGED <<cnt, tl, todo, hand, blocks>>

Steps(names) == [i \in DOMAIN names |-> [do |-> names[i], n |-> 0, old |-> 0]]
Flush == Steps(<<"add_float", "flush_args", "peak_test", "peak_write", "exceeded", "reset">>)
BypassSteps == Steps(<<"bypass_args", "peak_test", "peak_write">>)

\* inc_count, dec_count: the thread's own bytes, and what follows
inc_count(s, n) == s + n
dec_count(s, n) == s - n
AfterInc(s) == IF s > Threshold THEN Flush ELSE <<>>
AfterDec_Never(s) == <<>>
AfterDec(s) == IF s < -Threshold THEN Flush ELSE <<>>

NewId == Min(1..(Cardinality(blocks) + 1) \ {b.id : b \in blocks})
NewBlock(n, kind) == [id |-> NewId, size |-> n, kind |-> kind]
Others(t) == Threads \ {t}
Call(t) == todo[t] = <<>> /\ cnt.calls < MaxCalls
Counted(t) == [cnt EXCEPT !.calls = @ + 1, !.raced = @ \/ \E u \in Others(t) : todo[u] # <<>>]
Returns(t, ptr) == hand' = [hand EXCEPT ![t].ptr = ptr]
\* only the caller of a malloc() that has not returned yet knows its block
Known(b) == \A t \in Threads : todo[t] # <<>> => hand[t].ptr # b.id

(***************************************************************************)
(* malloc; before init() from a static array, in multiples of 8 (here 2)   *)
(* that are always larger than the size.  free recognises such a block by  *)
(* its address and only counts it.                                         *)
(***************************************************************************)
Aligned(n) == n + (2 - (n % 2))
preinit_malloc(t, n) ==
    /\ Call(t) /\ ~heap.ready /\ heap.use <= HeapSize
    /\ LET s == inc_count(tl[t], Aligned(n))
       IN tl' = [tl EXCEPT ![t] = s] /\ todo' = [todo EXCEPT ![t] = AfterInc(s)]
    /\ blocks' = blocks \cup {NewBlock(Aligned(n), "init")}
    /\ heap' = [heap EXCEPT !.use = @ + Aligned(n)]
    /\ cnt' = Counted(t) /\ Returns(t, NewId)
malloc(t, n) ==
    /\ Call(t) /\ heap.ready
    /\ LET s == inc_count(tl[t], n)
       IN tl' = [tl EXCEPT ![t] = s] /\ todo' = [todo EXCEPT ![t] = AfterInc(s)]
    /\ blocks' = blocks \cup {NewBlock(n, "real")}
    /\ cnt' = Counted(t) /\ Returns(t, NewId) /\ UNCHANGED heap
free(t, b) ==
    /\ Call(t) /\ b.kind # "bypass" /\ Known(b)
    /\ LET s == dec_count(tl[t], b.size)
       IN tl' = [tl EXCEPT ![t] = s] /\ todo' = [todo EXCEPT ![t] = AfterDec(s)]
    /\ blocks' = blocks \ {b}
    /\ cnt' = Counted(t) /\ Returns(t, NoPtr) /\ UNCHANGED heap
\* realloc subtracts the old block before it calls real_realloc
realloc(t, b, n) ==
    /\ Call(t) /\ b.kind = "real" /\ Known(b)
    /\ LET s == dec_count(tl[t], b.size)
       IN tl' = [tl EXCEPT ![t] = s] /\ todo' = [todo EXCEPT ![t] = AfterDec(s) \o <<[do |-> "real_realloc", n |-> n, old |-> b.size]>>]
    /\ blocks' = blocks \ {b}
    /\ cnt' = Counted(t) /\ Returns(t, NoPtr) /\ UNCHANGED heap
\* a block of the static array that is too small is copied and counted off
preinit_realloc(t, b, n) ==
    /\ Call(t) /\ b.kind = "init" /\ heap.ready /\ b.size < n /\ Known(b)
    /\ LET s == inc_count(tl[t], n)
       IN tl' = [tl EXCEPT ![t] = s] /\ todo' = [todo EXCEPT ![t] = AfterInc(s) \o <<[do |-> "preinit_free", n |-> 0, old |-> b.size]>>]
    /\ blocks' = (blocks \ {b}) \cup {NewBlock(n, "real")}
    /\ cnt' = [Counted(t) EXCEPT !.pending = @ + b.size] /\ Returns(t, NewId) /\ UNCHANGED heap

bypass_malloc(t, n) ==
    /\ Call(t) /\ heap.ready
    /\ cnt' = [Counted(t) EXCEPT !.base = @ + n]
    /\ hand' = [hand EXCEPT ![t].curr = cnt.base + n, ![t].ptr = NewId]
    /\ todo' = [todo EXCEPT ![t] = BypassSteps]
    /\ blocks' = blocks \cup {NewBlock(n, "bypass")}
    /\ UNCHANGED <<tl, heap>>
bypass_free_Floats(t, b) ==
    /\ Call(t) /\ b.kind = "bypass" /\ Known(b)
    /\ cnt' = [Counted(t) EXCEPT !.float = @ - b.size]
    /\ blocks' = blocks \ {b} /\ UNCHANGED <<tl, todo, hand, heap>>
bypass_free(t, b) ==
    /\ Call(t) /\ b.kind = "bypass" /\ Known(b)
    /\ cnt' = [Counted(t) EXCEPT !.base = @ - b.size]
    /\ blocks' = blocks \ {b} /\ UNCHANGED <<tl, todo, hand, heap>>

(***************************************************************************)
(* The steps of flush_memory_statistics, update_peak, bypass_malloc and    *)
(* realloc that other threads can come between                             *)
(***************************************************************************)
Next1(t, name) == todo[t] # <<>> /\ todo[t][1].do = name /\ UNCHANGED heap
Pop(t) == todo[t] # <<>> /\ todo' = [todo EXCEPT ![t] = Tail(@)]
flush_memory_statistics(t) ==
    /\ Pop(t) /\ UNCHANGED blocks
    /\ \/ /\ Next1(t, "add_float") /\ cnt' = [cnt EXCEPT !.float = @ + tl[t]]
          /\ hand' = [hand EXCEPT ![t].curr = cnt.float + tl[t]] /\ UNCHANGED tl
       \/ Next1(t, "exceeded") /\ cnt' = [cnt EXCEPT !.exceeded = hand[t].curr >= Limit] /\ UNCHANGED <<tl, hand>>
       \/ Next1(t, "reset") /\ tl' = [tl EXCEPT ![t] = 0] /\ UNCHANGED <<cnt, hand>>
\* mycurr and the other counter, as it is when update_peak is called; peak_bytes
\* may change between the comparison and the assignment
update_peak_OwnCounter(t) ==
    /\ Pop(t) /\ UNCHANGED <<tl, blocks>>
    /\ \/ (Next1(t, "flush_args") \/ Next1(t, "bypass_args")) /\ hand' = [hand EXCEPT ![t].sum = hand[t].curr] /\ UNCHANGED cnt
       \/ Next1(t, "peak_test") /\ hand' = [hand EXCEPT ![t].higher = hand[t].sum > cnt.peak] /\ UNCHANGED cnt
       \/ Next1(t, "peak_write") /\ cnt' = [cnt EXCEPT !.peak = IF hand[t].higher THEN hand[t].sum ELSE @] /\ UNCHANGED hand
update_peak(t) ==
    /\ Pop(t) /\ UNCHANGED <<tl, blocks>>
    /\ \/ Next1(t, "flush_args") /\ hand' = [hand EXCEPT ![t].sum = hand[t].curr + cnt.base] /\ UNCHANGED cnt
       \/ Next1(t, "bypass_args") /\ hand' = [hand EXCEPT ![t].sum = cnt.float + hand[t].curr] /\ UNCHANGED cnt
       \/ Next1(t, "peak_test") /\ hand' = [hand EXCEPT ![t].higher = hand[t].sum > cnt.peak] /\ UNCHANGED cnt
       \/ Next1(t, "peak_write") /\ cnt' = [cnt EXCEPT !.peak = IF hand[t].higher THEN hand[t].sum ELSE @] /\ UNCHANGED hand
\* real_realloc succeeds, or fails and leaves the old block, uncounted
real_realloc(t) ==
    /\ Next1(t, "real_realloc") /\ Returns(t, NewId)
    /\ LET n == todo[t][1].n
           s == inc_count(tl[t], n)
       IN \/ /\ tl' = [tl EXCEPT ![t] = s] /\ todo' = [todo EXCEPT ![t] = AfterInc(s)]
             /\ blocks' = blocks \cup {NewBlock(n, "real")} /\ UNCHANGED cnt
          \/ /\ Pop(t) /\ UNCHANGED tl
             /\ blocks' = blocks \cup {NewBlock(todo[t][1].old, "real")}
             /\ cnt' = [cnt EXCEPT !.uncounted = @ + todo[t][1].old]
preinit_free(t) ==
    /\ Next1(t, "preinit_free") /\ UNCHANGED <<blocks, hand>>
    /\ LET s == dec_count(tl[t], todo[t][1].old)
       IN tl' = [tl EXCEPT ![t] = s] /\ todo' = [todo EXCEPT ![t] = AfterDec(s)]
    /\ cnt' = [cnt EXCEPT !.pending = @ - todo[t][1].old]

Next ==
    \/ init_real
    \/ \E t \in Threads :
        \/ \E n \in AllocSizes : preinit_malloc(t, n) \/ malloc(t, n) \/ bypass_malloc(t, n)
        \/ \E b \in blocks : free(t, b) \/ bypass_free(t, b)
        \/ \E b \in blocks, n \in AllocSizes : realloc(t, b, n) \/ preinit_realloc(t, b, n)
        \/ flush_memory_statistics(t) \/ update_peak(t) \/ real_realloc(t) \/ preinit_free(t)

----------------------------------------------------------------------------
Bytes(kinds) == MapThenSumSet(LAMBDA b : b.size, {b \in blocks : b.kind \in kinds})
\* between "add_float" and "reset" the thread's bytes are in both counters
Unflushed(t) ==
    IF \E i \in DOMAIN todo[t] : todo[t][i].do = "reset" /\ todo[t][1].do # "add_float" THEN 0 ELSE tl[t]
\* Malloc tracker: at every moment float_curr and what the threads have not yet
\* added are exactly the bytes of the blocks that malloc gave and free did not
\* take, whichever thread freed them and whether they came from the static array
\* (a failing realloc apart, which leaves a block uncounted); base_curr is exact.
CountersExact ==
    /\ cnt.float + MapThenSumSet(Unflushed, Threads) = Bytes({"init", "real"}) + cnt.pending - cnt.uncounted
    /\ cnt.base = Bytes({"bypass"})

Idle == \A t \in Threads : todo[t] = <<>>
\* Malloc tracker: what malloc_tracker_current returns differs from the truth by
\* at most tl_delay_threshold for each thread that is not in a call; it may be
\* negative, as a thread may free what another one allocated.
CurrentIsNear ==
    Idle =>
        LET off == cnt.float - (Bytes({"init", "real"}) - cnt.uncounted)
        IN off <= Threshold * Cardinality(Threads) /\ -off <= Threshold * Cardinality(Threads)

\* malloc_tracker.hpp, "returns the current peak memory allocation": between the
\* calls of the threads the peak is not below what the counters say.
PeakReached == Idle => cnt.float + cnt.base <= cnt.peak
\* malloc_tracker.hpp, "set memory_exceeded when this limit is exceed".
LimitIndicated == Idle => (cnt.exceeded <=> cnt.float >= Limit)
\* Malloc tracker: both are so after any calls, as long as no call began while
\* another thread was in one.
PeakAndLimitRight == ~cnt.raced => PeakReached /\ LimitIndicated
=============================================================================
