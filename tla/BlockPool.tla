------------------------------ MODULE BlockPool ------------------------------
(***************************************************************************)
(* The block pool of one host (thrill/data/block_pool.cpp): it owns the    *)
(* ByteBlocks of all local workers, counts the pins of each worker on each *)
(* block, keeps the bytes in RAM below a hard limit by writing unpinned    *)
(* blocks to external memory, and reads them back when they are pinned.    *)
(*                                                                         *)
(* Every public method runs under one mutex.  A worker that is inside a    *)
(* method has a pc: at the pcs in HoldsLock it owns the mutex, at the      *)
(* others the method has released it (to cancel a write, to wait for       *)
(* memory, to allocate).  The I/O threads of foxxll run the completion     *)
(* handlers.  A failing die_unless() ends the process: pool = "died".      *)
(***************************************************************************)
EXTENDS Integers, Sequences, FiniteSetsExt

CONSTANTS
    Worker,          \* local worker ids of this host
    Block,           \* identities a ByteBlock may take
    NoBlock,         \* no block: what a call that works on none refers to
    ExtBlock,        \* the ones mapped onto an external file
    Size,            \* ByteBlock::size_ of each block
    SoftLimit,       \* soft_ram_limit_, 0 for none
    HardLimit,       \* hard_ram_limit_, 0 for none
    Reserve,         \* sizes a BlockPoolMemoryHolder may request
    MaxRetry,        \* max_retry of IntRequestInternalMemory (60 in the code)
    MaxPins,         \* bound: pins one worker may have on one block
    OverlappingPins  \* may a PinBlock start before another on the block returned

ASSUME ConstantsAssumption ==
    /\ IsFiniteSet(Worker) /\ IsFiniteSet(Block)
    /\ ExtBlock \subseteq Block /\ NoBlock \notin Block
    /\ Size \in [Block -> Nat \ {0}]
    /\ SoftLimit \in Nat /\ HardLimit \in Nat
    /\ HardLimit >= SoftLimit              \* die_unless in the constructor
    /\ Reserve \subseteq Nat \ {0}
    /\ MaxRetry \in Nat \ {0} /\ MaxPins \in Nat \ {0}
    /\ OverlappingPins \in BOOLEAN

VARIABLES
    pool,        \* "open", in ~BlockPool "closing" or "waiting" (for a read), and
                 \* at the end "closed", "stuck", "died" or "aborted"
    exist,       \* the ByteBlocks constructed and not yet destroyed
    handle,      \* the blocks an unpinned Block (in a File or queue) refers to,
                 \* or the PinRequest ~BlockPool waits for
    dying,       \* the blocks inside DestroyBlock: pin_count_ was cleared
    pins,        \* ByteBlock::pin_count_, per block and worker
    inMem,       \* the blocks with data_ # nullptr
    em,          \* em_bid_ and the external copy behind it
    lru,         \* unpinned_blocks_, least recently used first
    writing,     \* keys of writing_
    swapped,     \* swapped_
    reading,     \* keys of reading_
    reads,       \* PinRequests with an I/O read in flight, <<block, worker>>
    ram,         \* total_ram_bytes_
    requested,   \* requested_bytes_
    bytes,       \* the other byte counters of BlockPool::Data
    pinnedBytes, \* PinCount::pinned_bytes_
    held,        \* bytes each worker reserved through a memory holder
    pc,          \* where each worker is inside the pool's methods
    blk,         \* the block its method works on
    need,        \* the size it requests
    goal,        \* what the memory it requests is for
    retry        \* retry counter of its IntRequestInternalMemory

blockVars == <<exist, handle, dying, pins, inMem, em, lru, writing, swapped, reading, reads>>
byteVars  == <<ram, requested, bytes, pinnedBytes, held>>
callVars  == <<blk, need, goal, retry>>
vars      == <<pool, blockVars, byteVars, pc, callVars>>

PCs       == {"idle", "cancel", "recheck", "soft", "hard", "evict", "wait",
              "woken", "alloc", "load", "advise"}
HoldsLock == {"soft", "hard", "evict", "advise"}
Counters  == {"unpinned", "writing", "swapped", "reading", "total", "maxTotal"}

-----------------------------------------------------------------------------
(* Sequence helpers for the LRU list: tlx::LruCacheSet put, pop, erase.    *)

Listed(s) == {s[i] : i \in 1..Len(s)}

EraseLRU(s, b) ==
    IF b \notin Listed(s) THEN s
    ELSE LET k == CHOOSE i \in 1..Len(s) : s[i] = b
         IN  [i \in 1..(Len(s) - 1) |-> IF i < k THEN s[i] ELSE s[i + 1]]

Running      == pool \in {"open", "closing", "waiting"}
MutexFree    == Running /\ \A w \in Worker : pc[w] \notin HoldsLock
Pinned(b)    == \E w \in Worker : pins[b][w] > 0
InCall(b)    == \E w \in Worker : pc[w] # "idle" /\ blk[w] = b
Referenced(b) == b \in handle \/ Pinned(b) \/ b \in reading \/ InCall(b)

\* die_unless(c): the process ends when c does not hold.
DieUnless(c) == pool' = IF c THEN pool ELSE "died"

\* cv_memory_change_.notify_all(), applied to the pcs p.
NotifyAll(p) == [v \in Worker |-> IF p[v] = "wait" THEN "woken" ELSE p[v]]

Count(c, n) == [bytes EXCEPT ![c] = @ + n]

Init ==
    /\ pool = "open"
    /\ exist = {} /\ handle = {} /\ dying = {} /\ inMem = {}
    /\ lru = <<>> /\ writing = {} /\ swapped = {} /\ reading = {} /\ reads = {}
    /\ pins = [b \in Block |-> [w \in Worker |-> 0]]
    /\ em = [b \in Block |-> IF b \in ExtBlock THEN "valid" ELSE "none"]
    /\ ram = 0 /\ requested = 0
    /\ bytes = [c \in Counters |-> 0]
    /\ pinnedBytes = [w \in Worker |-> 0]
    /\ held = [w \in Worker |-> 0]
    /\ pc = [w \in Worker |-> "idle"]
    /\ blk = [w \in Worker |-> NoBlock]
    /\ need = [w \in Worker |-> 0]
    /\ goal = [w \in Worker |-> "none"]
    /\ retry = [w \in Worker |-> 0]

-----------------------------------------------------------------------------
(* Eviction.                                                               *)

\* IntEvictBlock: an external block is dropped at once, any other one gets
\* an external block and an asynchronous write.  Its callers have taken b off
\* the LRU list, where it must be.
IntEvictBlock(b) ==
    /\ lru' = EraseLRU(lru, b)
    /\ \/ /\ b \in ExtBlock
          /\ inMem' = inMem \ {b}
          /\ ram' = ram - Size[b]
          /\ bytes' = Count("unpinned", -Size[b])
          /\ pc' = NotifyAll(pc)
          /\ DieUnless(b \in Listed(lru))
          /\ UNCHANGED <<em, writing>>
       \/ /\ b \notin ExtBlock
          /\ DieUnless(b \in Listed(lru) /\ em[b] = "none")
          /\ em' = [em EXCEPT ![b] = "partial"]
          /\ writing' = writing \cup {b}
          /\ bytes' = [bytes EXCEPT !["unpinned"] = @ - Size[b],
                                    !["writing"]  = @ + Size[b]]
          /\ UNCHANGED <<pc, inMem, ram>>
    /\ UNCHANGED <<exist, handle, dying, pins, swapped, reading, reads,
                   requested, pinnedBytes, held, callVars>>

IntEvictBlockLRU == lru # <<>> /\ IntEvictBlock(Head(lru))

\* The public EvictBlock.  Its caller may name any block in memory that is not
\* pinned and not in I/O; the method relies on finding it on the LRU list.
EvictBlock(b) ==
    /\ pool = "open" /\ MutexFree
    /\ b \in inMem \ (writing \cup reading \cup dying) /\ ~Pinned(b)
    /\ IntEvictBlock(b)

\* OurNewHandler: an allocation outside the mutex ran out of heap; it evicts a
\* block when no write is active, and otherwise waits for that write.
NewHandlerEvict(w) ==
    /\ MutexFree
    /\ pc[w] \in {"alloc", "load"}
    /\ writing = {}
    /\ IntEvictBlockLRU

AdviseFree(w, n) ==
    /\ pool = "open" /\ MutexFree
    /\ pc[w] = "idle"
    /\ pc' = [pc EXCEPT ![w] = "advise"]
    /\ need' = [need EXCEPT ![w] = n]
    /\ UNCHANGED <<pool, blockVars, byteVars, blk, goal, retry>>

AdvisePressure(w) ==
    /\ SoftLimit # 0 /\ lru # <<>>
    /\ ram + requested + need[w] > HardLimit + bytes["writing"]

AdviseEvict(w) ==
    /\ Running /\ pc[w] = "advise"
    /\ AdvisePressure(w)
    /\ IntEvictBlockLRU

AdviseReturn(w) ==
    /\ Running /\ pc[w] = "advise"
    /\ ~AdvisePressure(w)
    /\ pc' = [pc EXCEPT ![w] = "idle"]
    /\ need' = [need EXCEPT ![w] = 0]
    /\ UNCHANGED <<pool, blockVars, byteVars, blk, goal, retry>>

-----------------------------------------------------------------------------
(* IntRequestInternalMemory, entered with the mutex held.                  *)

\* The assignments of its first lines, for worker w: the caller supplies the
\* rest of its own step.
EnterRequest(w, n, b, g) ==
    /\ pc' = [pc EXCEPT ![w] = "soft"]
    /\ blk' = [blk EXCEPT ![w] = b]
    /\ need' = [need EXCEPT ![w] = n]
    /\ goal' = [goal EXCEPT ![w] = g]
    /\ retry' = [retry EXCEPT ![w] = MaxRetry]
    /\ requested' = requested + n

\* Mutant: the loop does not stop at an empty list.
SoftPressure_EmptyList ==
    /\ SoftLimit # 0
    /\ ram + requested > SoftLimit + bytes["writing"]

SoftPressure ==
    /\ SoftLimit # 0 /\ lru # <<>>
    /\ ram + requested > SoftLimit + bytes["writing"]

HardPressure ==
    /\ HardLimit # 0 /\ lru # <<>>
    /\ ram + requested > HardLimit + bytes["writing"]

\* Mutant: memory whose write is still in flight is taken for free.
MayGrant_CountsWriting(n) == HardLimit = 0 \/ ram + n <= HardLimit + bytes["writing"]

MayGrant(n) == HardLimit = 0 \/ ram + n <= HardLimit

SoftEvict(w) ==
    /\ Running /\ pc[w] = "soft"
    /\ SoftPressure
    /\ IntEvictBlockLRU

\* One evaluation of a loop condition that moves w on, with the mutex held.
Advance(w, from, c, to) ==
    /\ Running /\ pc[w] = from
    /\ c
    /\ pc' = [pc EXCEPT ![w] = to]
    /\ UNCHANGED <<pool, blockVars, byteVars, callVars>>

SoftDone(w)   == Advance(w, "soft", ~SoftPressure, "hard")
HardRefuse(w) == Advance(w, "hard", ~MayGrant(need[w]), "evict")
HardWait(w)   == Advance(w, "evict", ~HardPressure, "wait")

HardEvict(w) ==
    /\ Running /\ pc[w] = "evict"
    /\ HardPressure
    /\ IntEvictBlockLRU

\* wait_for(1 s) returns without a notification.
WaitTimeout(w) ==
    /\ Running /\ pc[w] = "wait"
    /\ pc' = [pc EXCEPT ![w] = "woken"]
    /\ UNCHANGED <<pool, blockVars, byteVars, blk, need, goal, retry>>

OutOfMemory == bytes["writing"] = 0 /\ ram + requested > HardLimit

\* Mutant: the counter is tested before it is decremented.
WaitReturn_TestsFirst(w) ==
    /\ MutexFree
    /\ pc[w] = "woken"
    /\ pool' = IF retry[w] = 0 THEN "aborted" ELSE pool
    /\ retry' = [retry EXCEPT ![w] = IF OutOfMemory THEN @ - 1 ELSE @]
    /\ pc' = [pc EXCEPT ![w] = "hard"]
    /\ UNCHANGED <<blockVars, byteVars, blk, need, goal>>

\* The rest of the loop body after wait_for, the mutex owned again: count down
\* retry and abort() at zero.
WaitReturn(w) ==
    /\ MutexFree
    /\ pc[w] = "woken"
    /\ retry' = [retry EXCEPT ![w] = IF OutOfMemory THEN @ - 1 ELSE @]
    /\ pool' = IF retry'[w] = 0 THEN "aborted" ELSE pool
    /\ pc' = [pc EXCEPT ![w] = "hard"]
    /\ UNCHANGED <<blockVars, byteVars, blk, need, goal>>

\* The request is granted; AllocateByteBlock releases the mutex to allocate.
GrantAllocate(w) ==
    /\ Running /\ pc[w] = "hard" /\ goal[w] = "alloc"
    /\ MayGrant(need[w])
    /\ requested' = requested - need[w]
    /\ ram' = ram + need[w]
    /\ pc' = [pc EXCEPT ![w] = "alloc"]
    /\ UNCHANGED <<pool, blockVars, bytes, pinnedBytes, held, callVars>>

\* ... and PinBlock counts the memory as a pin, enters its PinRequest in
\* reading_ and releases the mutex to allocate.
GrantRead(w) ==
    /\ Running /\ pc[w] = "hard" /\ goal[w] = "read"
    /\ MayGrant(need[w])
    /\ requested' = requested - need[w]
    /\ ram' = ram + need[w]
    /\ pinnedBytes' = [pinnedBytes EXCEPT ![w] = @ + need[w]]
    /\ reading' = reading \cup {blk[w]}
    /\ pc' = [pc EXCEPT ![w] = "load"]
    /\ UNCHANGED <<pool, exist, handle, dying, pins, inMem, em, lru, writing,
                   swapped, reads, bytes, held, callVars>>

\* The locals of a call that returns.
Return(w) ==
    /\ blk' = [blk EXCEPT ![w] = NoBlock]
    /\ need' = [need EXCEPT ![w] = 0]
    /\ goal' = [goal EXCEPT ![w] = "none"]
    /\ retry' = [retry EXCEPT ![w] = 0]

\* ... and RequestInternalMemory returns to the memory holder.
GrantReserve(w) ==
    /\ Running /\ pc[w] = "hard" /\ goal[w] = "reserve"
    /\ MayGrant(need[w])
    /\ requested' = requested - need[w]
    /\ ram' = ram + need[w]
    /\ held' = [held EXCEPT ![w] = need[w]]
    /\ pc' = [pc EXCEPT ![w] = "idle"]
    /\ Return(w)
    /\ UNCHANGED <<pool, blockVars, bytes, pinnedBytes>>

RequestInternalMemory(w, n) ==
    /\ pool = "open" /\ MutexFree
    /\ pc[w] = "idle" /\ held[w] = 0
    /\ EnterRequest(w, n, NoBlock, "reserve")
    /\ UNCHANGED <<pool, blockVars, ram, bytes, pinnedBytes, held>>

ReleaseInternalMemory(w) ==
    /\ pool = "open" /\ MutexFree
    /\ pc[w] = "idle" /\ held[w] > 0
    /\ DieUnless(ram >= held[w])
    /\ ram' = ram - held[w]
    /\ held' = [held EXCEPT ![w] = 0]
    /\ pc' = NotifyAll(pc)
    /\ UNCHANGED <<blockVars, requested, bytes, pinnedBytes, callVars>>

-----------------------------------------------------------------------------
(* Creation of blocks.                                                     *)

AllocateByteBlock(w, b) ==
    /\ pool = "open" /\ MutexFree
    /\ pc[w] = "idle"
    /\ b \notin exist \cup ExtBlock /\ ~InCall(b)
    /\ EnterRequest(w, Size[b], b, "alloc")
    /\ UNCHANGED <<pool, blockVars, ram, bytes, pinnedBytes, held>>

\* total_bytes_ and its maximum after a block of n bytes was made.
AddTotal(n) ==
    [bytes EXCEPT !["total"] = @ + n,
                  !["maxTotal"] = IF @ < bytes["total"] + n
                                  THEN bytes["total"] + n ELSE @]

\* The rest of AllocateByteBlock, the mutex owned again: the new block is
\* returned with one pin, and its user keeps a Block of it.
AllocateReturn(w) ==
    /\ MutexFree
    /\ pc[w] = "alloc"
    /\ exist' = exist \cup {blk[w]}
    /\ handle' = handle \cup {blk[w]}
    /\ inMem' = inMem \cup {blk[w]}
    /\ pins' = [pins EXCEPT ![blk[w]][w] = 1]
    /\ pinnedBytes' = [pinnedBytes EXCEPT ![w] = @ + need[w]]
    /\ bytes' = AddTotal(need[w])
    /\ pc' = [pc EXCEPT ![w] = "idle"]
    /\ Return(w)
    /\ UNCHANGED <<pool, dying, em, lru, writing, swapped, reading, reads,
                   ram, requested, held>>

\* MapExternalBlock updates the maximum before it adds the size.
MapExternalBlock(b) ==
    /\ pool = "open" /\ MutexFree
    /\ b \in ExtBlock \ exist
    /\ exist' = exist \cup {b}
    /\ handle' = handle \cup {b}
    /\ bytes' = [bytes EXCEPT
                   !["maxTotal"] = IF @ < bytes["total"] THEN bytes["total"] ELSE @,
                   !["total"] = @ + Size[b]]
    /\ UNCHANGED <<pool, dying, pins, inMem, em, lru, writing, swapped, reading,
                   reads, ram, requested, pinnedBytes, held, pc, callVars>>

-----------------------------------------------------------------------------
(* Pins.                                                                   *)

IntIncBlockPinCount(b, w) == pins' = [pins EXCEPT ![b][w] = @ + 1]

\* Mutant: a second pin of the same worker is charged to it again.
PinPinned_ChargesTwice(w, b) ==
    /\ DieUnless(b \notin Listed(lru) /\ b \notin reading)
    /\ IntIncBlockPinCount(b, w)
    /\ pinnedBytes' = [pinnedBytes EXCEPT ![w] = @ + Size[b]]
    /\ UNCHANGED <<exist, handle, dying, inMem, em, lru, writing, swapped,
                   reading, reads, ram, requested, bytes, held, pc, callVars>>

\* Mutant: only the first pin of all workers is charged.
PinPinned_NotCharged(w, b) ==
    /\ DieUnless(b \notin Listed(lru) /\ b \notin reading)
    /\ IntIncBlockPinCount(b, w)
    /\ UNCHANGED <<exist, handle, dying, inMem, em, lru, writing, swapped, reading,
                   reads, ram, requested, pinnedBytes, bytes, held, pc, callVars>>

\* PinBlock of a block that w or another worker has pinned.
PinPinned(w, b) ==
    /\ DieUnless(b \notin Listed(lru) /\ b \notin reading)
    /\ IntIncBlockPinCount(b, w)
    /\ pinnedBytes' = [pinnedBytes EXCEPT
                         ![w] = IF pins[b][w] > 0 THEN @ ELSE @ + Size[b]]
    /\ UNCHANGED <<exist, handle, dying, inMem, em, lru, writing, swapped,
                   reading, reads, ram, requested, bytes, held, pc, callVars>>

\* The write loop of PinBlock: take the request of a block being written and
\* release the mutex to cancel it.
PinCancelWrite(w, b) ==
    /\ b \in writing
    /\ DieUnless(b \notin ExtBlock)
    /\ pc' = [pc EXCEPT ![w] = "cancel"]
    /\ blk' = [blk EXCEPT ![w] = b]
    /\ UNCHANGED <<blockVars, byteVars, need, goal, retry>>

\* The block is being read: share the PinRequest of that read.
PinShareRead(w, b) ==
    /\ b \notin writing /\ b \in reading
    /\ pc' = [pc EXCEPT ![w] = "idle"]
    /\ Return(w)
    /\ UNCHANGED <<pool, blockVars, byteVars>>

\* Mutant: the block stays on the LRU list.
PinInMemory_KeepsListed(w, b) ==
    /\ b \notin writing \cup reading /\ b \in inMem
    /\ DieUnless(b \in Listed(lru))
    /\ IntIncBlockPinCount(b, w)
    /\ bytes' = Count("unpinned", -Size[b])
    /\ pinnedBytes' = [pinnedBytes EXCEPT ![w] = @ + Size[b]]
    /\ pc' = [pc EXCEPT ![w] = "idle"]
    /\ Return(w)
    /\ UNCHANGED <<exist, handle, dying, inMem, em, lru, writing, swapped, reading,
                   reads, ram, requested, held>>

\* The block is unpinned in memory.
PinInMemory(w, b) ==
    /\ b \notin writing \cup reading /\ b \in inMem
    /\ DieUnless(b \in Listed(lru))
    /\ lru' = EraseLRU(lru, b)
    /\ IntIncBlockPinCount(b, w)
    /\ bytes' = Count("unpinned", -Size[b])
    /\ pinnedBytes' = [pinnedBytes EXCEPT ![w] = @ + Size[b]]
    /\ pc' = [pc EXCEPT ![w] = "idle"]
    /\ Return(w)
    /\ UNCHANGED <<exist, handle, dying, inMem, em, writing, swapped, reading,
                   reads, ram, requested, held>>

\* The block is in external memory: request memory for it.
PinFromEM(w, b) ==
    /\ b \notin writing \cup reading \cup inMem
    /\ DieUnless(em[b] # "none")
    /\ EnterRequest(w, Size[b], b, "read")
    /\ UNCHANGED <<blockVars, ram, bytes, pinnedBytes, held>>

PinUnpinned(w, b) ==
    PinCancelWrite(w, b) \/ PinShareRead(w, b) \/ PinInMemory(w, b) \/ PinFromEM(w, b)

PinBlock(w, b) ==
    /\ pool = "open" /\ MutexFree
    /\ pc[w] = "idle"
    /\ b \in exist /\ (b \in handle \/ Pinned(b))
    /\ OverlappingPins \/ ~InCall(b)
    /\ pins[b][w] < MaxPins
    /\ IF Pinned(b) THEN PinPinned(w, b) ELSE PinUnpinned(w, b)

\* The request PinBlock waited for has ended: evaluate the write loop again
\* and go on.  The pins are not looked at again.
PinRecheck(w) ==
    /\ MutexFree
    /\ pc[w] = "recheck"
    /\ PinUnpinned(w, blk[w])

\* The last part of PinBlock, memory allocated and the mutex owned again: issue
\* the read.
PinIssueRead(w) ==
    /\ MutexFree
    /\ pc[w] = "load"
    /\ inMem' = inMem \cup {blk[w]}
    /\ swapped' = swapped \ {blk[w]}
    /\ reads' = reads \cup {<<blk[w], w>>}
    /\ bytes' = [bytes EXCEPT
                   !["swapped"] = IF blk[w] \in ExtBlock THEN @ ELSE @ - need[w],
                   !["reading"] = @ + need[w]]
    /\ pc' = [pc EXCEPT ![w] = "idle"]
    /\ Return(w)
    /\ UNCHANGED <<pool, exist, handle, dying, pins, em, lru, writing, reading,
                   ram, requested, pinnedBytes, held>>

\* The copy constructors of PinnedBlock and PinnedByteBlockPtr.
IncBlockPinCount(b, w) ==
    /\ pool = "open" /\ MutexFree
    /\ pins[b][w] > 0 /\ pins[b][w] < MaxPins
    /\ IntIncBlockPinCount(b, w)
    /\ UNCHANGED <<pool, exist, handle, dying, inMem, em, lru, writing, swapped,
                   reading, reads, byteVars, pc, callVars>>

\* A PinnedBlock, or the PinRequest that contains one, is released.  The last
\* pin of a worker is taken off its account, the last of all lets the block be
\* swapped out.  The request ~BlockPool refers to is not released by others.
DecBlockPinCount(b, w) ==
    /\ MutexFree
    /\ pins[b][w] > 0
    /\ pool = "waiting" => b \notin handle
    /\ pins' = [pins EXCEPT ![b][w] = @ - 1]
    /\ LET last    == pins[b][w] = 1
           lastAll == \A v \in Worker : pins'[b][v] = 0
       IN  /\ DieUnless(/\ last => pinnedBytes[w] >= Size[b]
                        /\ lastAll => b \notin Listed(lru))
           /\ pinnedBytes' = [pinnedBytes EXCEPT ![w] = IF last THEN @ - Size[b] ELSE @]
           /\ lru' = IF lastAll THEN Append(lru, b) ELSE lru
           /\ bytes' = IF lastAll THEN Count("unpinned", Size[b]) ELSE bytes
    /\ UNCHANGED <<exist, handle, dying, inMem, em, writing, swapped, reading,
                   reads, ram, requested, held, pc, callVars>>

-----------------------------------------------------------------------------
(* Completion handlers, run by an I/O thread or by the thread that cancels. *)

Canceller(b) == b \in dying \/ pool = "closing"
                \/ \E w \in Worker : pc[w] = "cancel" /\ blk[w] = b

\* The threads that cancelled or waited for the write of b go on.
WriteEnded(b) == [v \in Worker |-> IF pc[v] = "cancel" /\ blk[v] = b
                                   THEN "recheck" ELSE pc[v]]

OnWriteComplete(b) ==
    /\ MutexFree
    /\ b \in writing
    /\ writing' = writing \ {b}
    /\ swapped' = swapped \cup {b}
    /\ inMem' = inMem \ {b}
    /\ em' = [em EXCEPT ![b] = "valid"]
    /\ ram' = ram - Size[b]
    /\ bytes' = [bytes EXCEPT !["writing"] = @ - Size[b], !["swapped"] = @ + Size[b]]
    /\ pc' = NotifyAll(WriteEnded(b))
    /\ UNCHANGED <<pool, exist, handle, dying, pins, lru, reading, reads,
                   requested, pinnedBytes, held, callVars>>

\* OnWriteComplete with success = false: the write was cancelled.
OnWriteCancelled(b) ==
    /\ MutexFree
    /\ b \in writing /\ Canceller(b)
    /\ writing' = writing \ {b}
    /\ DieUnless(b \in dying \/ b \notin Listed(lru))
    /\ lru' = IF b \in dying THEN lru ELSE Append(lru, b)
    /\ em' = [em EXCEPT ![b] = "none"]
    /\ bytes' = [bytes EXCEPT !["writing"] = @ - Size[b],
                              !["unpinned"] = IF b \in dying THEN @ ELSE @ + Size[b]]
    /\ pc' = WriteEnded(b)
    /\ UNCHANGED <<exist, handle, dying, pins, inMem, swapped, reading, reads,
                   ram, requested, pinnedBytes, held, callVars>>

\* Mutants: the external file of a mapped block is deleted too; the PinRequest
\* stays in reading_.
OnReadComplete_DeletesFile(b, w) ==
    /\ MutexFree
    /\ <<b, w>> \in reads
    /\ DieUnless(b \in reading)
    /\ IntIncBlockPinCount(b, w)
    /\ em' = [em EXCEPT ![b] = "none"]
    /\ reads' = reads \ {<<b, w>>}
    /\ reading' = reading \ {b}
    /\ bytes' = Count("reading", -Size[b])
    /\ UNCHANGED <<exist, handle, dying, inMem, lru, writing, swapped,
                   ram, requested, pinnedBytes, held, pc, callVars>>

OnReadComplete_KeepsRequest(b, w) ==
    /\ MutexFree
    /\ <<b, w>> \in reads
    /\ DieUnless(b \in reading)
    /\ IntIncBlockPinCount(b, w)
    /\ em' = IF b \in ExtBlock THEN em ELSE [em EXCEPT ![b] = "none"]
    /\ reads' = reads \ {<<b, w>>}
    /\ bytes' = Count("reading", -Size[b])
    /\ UNCHANGED <<exist, handle, dying, inMem, lru, writing, swapped, reading,
                   ram, requested, pinnedBytes, held, pc, callVars>>

\* No read is ever cancelled: the PinRequest in reading_ has a reference to its
\* block, so DestroyBlock never finds a block there, and its call of cancel() and
\* the branch of OnReadComplete for a cancelled request are not reached.
OnReadComplete(b, w) ==
    /\ MutexFree
    /\ <<b, w>> \in reads
    /\ DieUnless(b \in reading)
    /\ IntIncBlockPinCount(b, w)
    /\ em' = IF b \in ExtBlock THEN em ELSE [em EXCEPT ![b] = "none"]
    /\ reads' = reads \ {<<b, w>>}
    /\ reading' = reading \ {b}
    /\ bytes' = Count("reading", -Size[b])
    /\ UNCHANGED <<exist, handle, dying, inMem, lru, writing, swapped,
                   ram, requested, pinnedBytes, held, pc, callVars>>

-----------------------------------------------------------------------------
(* Destruction of blocks and of the pool.                                  *)

\* The last File or queue that refers to b lets it go.
DropHandle(b) ==
    /\ pool = "open"
    /\ b \in handle
    /\ handle' = handle \ {b}
    /\ UNCHANGED <<pool, exist, dying, pins, inMem, em, lru, writing, swapped,
                   reading, reads, byteVars, pc, callVars>>

\* The last part of DestroyBlock: free the memory or the external block.
ReleaseBlock(b) ==
    /\ exist' = exist \ {b}
    /\ dying' = dying \ {b}
    /\ DieUnless(IF b \in ExtBlock THEN b \in inMem => b \in Listed(lru)
                                   ELSE b \in inMem \/ b \in swapped)
    /\ lru' = IF b \in inMem THEN EraseLRU(lru, b) ELSE lru
    /\ inMem' = inMem \ {b}
    /\ ram' = IF b \in inMem THEN ram - Size[b] ELSE ram
    /\ pc' = IF b \in inMem THEN NotifyAll(pc) ELSE pc
    /\ swapped' = swapped \ {b}
    /\ em' = IF b \in ExtBlock THEN em ELSE [em EXCEPT ![b] = "none"]
    /\ bytes' = [bytes EXCEPT
                   !["unpinned"] = IF b \in Listed(lru) THEN @ - Size[b] ELSE @,
                   !["swapped"]  = IF b \in swapped THEN @ - Size[b] ELSE @,
                   !["total"]    = @ - Size[b]]
    /\ UNCHANGED <<handle, pins, writing, reading, reads, requested,
                   pinnedBytes, held, callVars>>

\* DestroyBlock, called when the reference count of b is zero.
DestroyBlock(b) ==
    /\ MutexFree
    /\ b \in exist \ dying /\ ~Referenced(b)
    /\ IF b \in writing
       THEN /\ dying' = dying \cup {b}
            /\ UNCHANGED <<pool, exist, handle, pins, inMem, em, lru, writing,
                           swapped, reading, reads, byteVars, pc, callVars>>
       ELSE ReleaseBlock(b)

\* Mutant: only a write that was completed lets DestroyBlock go on.
DestroyContinue_OnlySwapped(b) ==
    /\ MutexFree
    /\ b \in (dying \ writing) \cap swapped
    /\ ReleaseBlock(b)

\* The write of a block being destroyed has ended.
DestroyContinue(b) ==
    /\ MutexFree
    /\ b \in dying \ writing
    /\ ReleaseBlock(b)

\* ~BlockPool starts when nobody uses the pool any more: blocks may still be in
\* I/O or waiting for their last DestroyBlock.
BeginDestructor ==
    /\ pool = "open" /\ MutexFree
    /\ \A w \in Worker : pc[w] = "idle" /\ held[w] = 0
    /\ handle = {} /\ \A b \in Block : ~Pinned(b)
    /\ pool' = "closing"
    /\ UNCHANGED <<blockVars, byteVars, pc, callVars>>

\* The loop of ~BlockPool over reading_: it takes a reference to the PinRequest
\* of some block, releases the mutex and waits for the I/O.
DestructorTakes(b) ==
    /\ pool = "closing" /\ MutexFree
    /\ writing = {} /\ b \in reading
    /\ pool' = IF bytes["writing"] = 0 THEN "waiting" ELSE "died"
    /\ handle' = {b}
    /\ UNCHANGED <<exist, dying, pins, inMem, em, lru, writing, swapped, reading,
                   reads, byteVars, pc, callVars>>

\* The request has ended, and with it the reference of OnReadComplete.  ~BlockPool
\* locks the mutex and then drops its own reference, the last one: DecBlockPinCount
\* waits for the mutex that its own thread holds.
DestructorResumes ==
    /\ pool = "waiting" /\ MutexFree
    /\ handle \cap reading = {}
    /\ pool' = "stuck"
    /\ UNCHANGED <<blockVars, byteVars, pc, callVars>>

\* ~BlockPool ends: its die_unless on every counter.
EndDestructor ==
    /\ pool = "closing"
    /\ writing = {} /\ reading = {} /\ exist = {}
    /\ pool' = IF /\ \A c \in Counters \ {"swapped", "unpinned", "maxTotal"} : bytes[c] = 0
                  /\ \A w \in Worker : pinnedBytes[w] = 0
                  /\ ram = 0 /\ lru = <<>>
               THEN "closed" ELSE "died"
    /\ UNCHANGED <<blockVars, byteVars, pc, callVars>>

Ended == pool \in {"closed", "stuck", "died", "aborted"} /\ UNCHANGED vars

-----------------------------------------------------------------------------
\* The steps a worker takes inside a call once it has made it.
CallStep(w) ==
    \/ AdviseEvict(w) \/ AdviseReturn(w)
    \/ SoftEvict(w) \/ SoftDone(w)
    \/ HardRefuse(w) \/ HardEvict(w) \/ HardWait(w)
    \/ WaitTimeout(w) \/ WaitReturn(w)
    \/ GrantAllocate(w) \/ GrantRead(w) \/ GrantReserve(w)
    \/ AllocateReturn(w) \/ PinRecheck(w) \/ PinIssueRead(w)

\* The calls the rest of the program makes.
Call ==
    \/ \E w \in Worker :
          \/ \E n \in Reserve : AdviseFree(w, n) \/ RequestInternalMemory(w, n)
          \/ ReleaseInternalMemory(w)
          \/ NewHandlerEvict(w)
          \/ \E b \in Block : \/ AllocateByteBlock(w, b)
                              \/ PinBlock(w, b)
                              \/ IncBlockPinCount(b, w)
                              \/ DecBlockPinCount(b, w)
    \/ \E b \in Block : MapExternalBlock(b) \/ EvictBlock(b) \/ DropHandle(b)
    \/ BeginDestructor

\* I/O completions and the destruction of blocks without a reference.
Background(b) ==
    \/ OnWriteComplete(b) \/ OnWriteCancelled(b)
    \/ \E w \in Worker : OnReadComplete(b, w)
    \/ DestroyBlock(b) \/ DestroyContinue(b)

\* The steps of ~BlockPool once it has started.
Destructor ==
    (\E b \in Block : DestructorTakes(b)) \/ DestructorResumes \/ EndDestructor

Next ==
    \/ \E w \in Worker : CallStep(w)
    \/ Call
    \/ \E b \in Block : Background(b)
    \/ Destructor \/ Ended

Spec == Init /\ [][Next]_vars

\* The operating system runs every thread, foxxll ends every request, and a
\* thread that waits for the mutex again and again obtains it.
Fairness ==
    /\ \A w \in Worker : SF_vars(CallStep(w))
    /\ \A b \in Block : SF_vars(Background(b))
    /\ \A b \in Block, w \in Worker :     \* OnReadComplete drops its PinRequest
           WF_vars(pool # "open" /\ DecBlockPinCount(b, w))
    /\ WF_vars(Destructor)

FairSpec == Spec /\ Fairness

-----------------------------------------------------------------------------
(* Properties.                                                             *)

BlockTypes ==
    /\ exist \subseteq Block /\ handle \subseteq Block /\ dying \subseteq Block
    /\ pins \in [Block -> [Worker -> Nat]]
    /\ inMem \subseteq Block
    /\ em \in [Block -> {"none", "partial", "valid"}]
    /\ lru \in Seq(Block)
    /\ writing \subseteq Block /\ swapped \subseteq Block /\ reading \subseteq Block
    /\ reads \subseteq Block \X Worker

ByteTypes ==
    /\ ram \in Int /\ requested \in Int
    /\ bytes \in [Counters -> Int]
    /\ pinnedBytes \in [Worker -> Int]
    /\ held \in [Worker -> Nat]

CallTypes ==
    /\ pool \in {"open", "closing", "waiting", "closed", "stuck", "died", "aborted"}
    /\ pc \in [Worker -> PCs]
    /\ blk \in [Worker -> Block \cup {NoBlock}]
    /\ need \in [Worker -> Nat]
    /\ goal \in [Worker -> {"none", "alloc", "read", "reserve"}]
    /\ retry \in [Worker -> 0..MaxRetry]

\* Every variable of the pool has its type; retry never passes below zero.
TypeOK == BlockTypes /\ ByteTypes /\ CallTypes

Requesting == {"soft", "hard", "evict", "wait", "woken"}

\* What the locals of a call in progress are: it works on a block, and a request
\* for memory has retries left or has just aborted the process.
CallShape ==
    \A w \in Worker :
        /\ pc[w] \in {"cancel", "recheck", "alloc", "load"} => blk[w] \in Block
        /\ pc[w] \in Requesting =>
               /\ goal[w] \in {"alloc", "read"} => blk[w] \in Block
               /\ retry[w] > 0 \/ pool = "aborted"

\* No die_unless() of block_pool.cpp fails: the lists, maps and counters always
\* agree where a method or a completion handler relies on it.
NoDie == pool # "died"

\* total_ram_bytes_ never exceeds the hard limit, however many workers request
\* memory, are woken, and load blocks at the same time.
WithinHardLimit == HardLimit # 0 => ram <= HardLimit

\* Every block is in exactly one place: pinned, on the LRU list, being written,
\* being read, or in external memory only.  (DestroyBlock may leave a block
\* whose write it cancelled in none of them.)
OnDisk(b) == b \notin inMem \cup reading
Where(b) ==
    {p \in {"pinned", "listed", "writing", "reading", "onDisk"} :
        \/ p = "pinned"  /\ Pinned(b)
        \/ p = "listed"  /\ b \in Listed(lru)
        \/ p = "writing" /\ b \in writing
        \/ p = "reading" /\ b \in reading
        \/ p = "onDisk"  /\ OnDisk(b)}
InOnePlace ==
    \A b \in exist :
        Cardinality(Where(b)) = IF b \in (dying \cap inMem) \ writing THEN 0 ELSE 1

\* The contents of a block that somebody may still read are never lost: they are
\* in RAM and not in the middle of a load, or completely in external memory.
NeverLost ==
    \A b \in exist \ dying : em[b] = "valid" \/ b \in inMem \ reading

\* A block is kept: whatever calls and completions meet, the pool knows it in
\* exactly one place, and a valid copy of its contents exists.
BlocksKept == InOnePlace /\ NeverLost

\* Sums of the sizes of a set of blocks, and of f over all workers.
SizeOf(S) == SumFunctionOnSet(Size, S)
SumOver(f) == SumFunctionOnSet(f, Worker)

\* What a call in progress has requested, and what it was granted or holds.
Requests == [w \in Worker |-> IF pc[w] \in Requesting THEN need[w] ELSE 0]
Granted  == [w \in Worker |-> held[w] + IF pc[w] \in {"alloc", "load"} THEN need[w] ELSE 0]
\* The blocks that are charged to worker w.
ChargedTo(w) == {b \in Block : pins[b][w] > 0 \/ <<b, w>> \in reads}

\* The byte counters agree with the blocks they count, whatever calls are in
\* progress: no reservation is lost or counted twice when a request waits, is
\* granted, or a read, write or destruction ends.
ByteAccounting ==
    /\ requested = SumOver(Requests)
    /\ ram = SizeOf(inMem) + SumOver(Granted)
    /\ \A w \in Worker : pinnedBytes[w] =
            SizeOf(ChargedTo(w)) + IF pc[w] = "load" THEN need[w] ELSE 0
    /\ bytes["unpinned"] = SizeOf(Listed(lru))
    /\ bytes["writing"] = SizeOf(writing)
    /\ bytes["swapped"] = SizeOf(swapped)
    /\ bytes["total"] = SizeOf(exist)

\* When the program makes no further calls, every call in progress returns, or
\* the pool aborts: nobody waits for memory, a write or the mutex for ever.
Quiet == <>[][~Call]_vars
CallsReturn ==
    Quiet => \A w \in Worker : pc[w] # "idle" ~> (pc[w] = "idle" \/ ~Running)

\* ~BlockPool returns when it no longer meets a read that is in flight: it ends
\* the writes, waits for the last ByteBlocks and finds every counter at zero.
\* (One that meets such a read may lock itself out: DestructorNotStuck.)
DestructorReturns == (pool = "closing" /\ reading = {}) ~> (pool = "closed")

\* ~BlockPool never waits for the mutex that it holds itself.
DestructorNotStuck == pool # "stuck"

=============================================================================
