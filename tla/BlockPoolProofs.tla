--------------------------- MODULE BlockPoolProofs ---------------------------
(***************************************************************************)
(* Theorems about BlockPool, for any number of workers and blocks, any      *)
(* sizes and any limits.                                                    *)
(***************************************************************************)
EXTENDS BlockPool, FiniteSetTheorems, SumTheorems, TLAPS

\* Taking a block off the LRU list leaves a list of blocks.
LEMMA EraseLRUType ==
    ASSUME NEW s \in Seq(Block), NEW b
    PROVE  EraseLRU(s, b) \in Seq(Block)
<1>1. CASE b \notin Listed(s)
  BY <1>1 DEF EraseLRU
<1>2. CASE b \in Listed(s)
  <2> DEFINE k == CHOOSE i \in 1..Len(s) : s[i] = b
             n == Len(s) - 1
             f == [i \in 1..n |-> IF i < k THEN s[i] ELSE s[i + 1]]
  <2>1. PICK i \in 1..Len(s) : s[i] = b
    BY <1>2 DEF Listed
  <2>2. n \in Nat
    BY <2>1
  <2>3. \A j \in 1..n : f[j] \in Block
    BY <2>2
  <2>4. f \in Seq(Block)
    BY <2>2, <2>3
  <2> QED BY <1>2, <2>4 DEF EraseLRU
<1> QED BY <1>1, <1>2

\* The inductive invariant behind type correctness: the type of a local depends
\* on where the call is.
Shape == TypeOK /\ CallShape

\* The constructor establishes the inductive invariant.
LEMMA ShapeInit == Init => Shape
<1> SUFFICES ASSUME Init PROVE Shape
  OBVIOUS
<1>1. BlockTypes
  BY ConstantsAssumption DEF Init, BlockTypes
<1>2. ByteTypes
  BY DEF Init, ByteTypes, Counters
<1>3. CallTypes
  BY ConstantsAssumption DEF Init, CallTypes, PCs
<1>4. CallShape
  BY DEF Init, CallShape, Requesting
<1> QED BY <1>1, <1>2, <1>3, <1>4 DEF Shape, TypeOK

\* An eviction keeps the shape, whoever asks for it.
LEMMA EvictShape ==
    ASSUME Shape, Running, NEW b \in Block, IntEvictBlock(b)
    PROVE  Shape'
<1>1. BlockTypes'
  <2>1. lru' \in Seq(Block)
    BY EraseLRUType DEF Shape, TypeOK, BlockTypes, IntEvictBlock
  <2> QED BY <2>1 DEF Shape, TypeOK, BlockTypes, IntEvictBlock
<1>2. ByteTypes'
  BY ConstantsAssumption DEF Shape, TypeOK, ByteTypes, Counters, Count, IntEvictBlock
<1>3. CallTypes'
  BY DEF Shape, TypeOK, CallTypes, PCs, NotifyAll, DieUnless, callVars, IntEvictBlock
<1>4. CallShape'
  BY DEF Shape, TypeOK, CallTypes, CallShape, Requesting, Running, NotifyAll,
         DieUnless, callVars, IntEvictBlock
<1> QED BY <1>1, <1>2, <1>3, <1>4 DEF Shape, TypeOK

\* IntEvictBlockLRU evicts the head of the list, which is a block.
LEMMA EvictLRUShape ==
    ASSUME Shape, Running, IntEvictBlockLRU
    PROVE  Shape'
<1>1. Head(lru) \in Block
  BY DEF Shape, TypeOK, BlockTypes, IntEvictBlockLRU
<1> QED BY <1>1, EvictShape DEF IntEvictBlockLRU

\* The part of PinBlock behind the pin checks.
LEMMA PinUnpinnedShape ==
    ASSUME Shape, Running, NEW w \in Worker, NEW b \in Block, PinUnpinned(w, b)
    PROVE  Shape'
<1>1. CASE PinCancelWrite(w, b)
  <2>1. BlockTypes'
    BY <1>1 DEF Shape, TypeOK, BlockTypes, PinCancelWrite, blockVars
  <2>2. ByteTypes'
    BY <1>1 DEF Shape, TypeOK, ByteTypes, CallTypes, PinCancelWrite, byteVars
  <2>3. CallTypes'
    BY <1>1, ConstantsAssumption DEF Shape, TypeOK, CallTypes, PCs, PinCancelWrite, DieUnless
  <2>4. CallShape'
    BY <1>1 DEF Shape, TypeOK, CallTypes, CallShape, Requesting, PCs, PinCancelWrite, DieUnless, Running
  <2> QED BY <2>1, <2>2, <2>3, <2>4 DEF Shape, TypeOK
<1>2. CASE PinShareRead(w, b)
  <2>1. BlockTypes'
    BY <1>2 DEF Shape, TypeOK, BlockTypes, PinShareRead, blockVars
  <2>2. ByteTypes'
    BY <1>2 DEF Shape, TypeOK, ByteTypes, CallTypes, PinShareRead, byteVars
  <2>3. CallTypes'
    BY <1>2, ConstantsAssumption DEF Shape, TypeOK, CallTypes, PCs, PinShareRead, Return
  <2>4. CallShape'
    BY <1>2 DEF Shape, TypeOK, CallTypes, CallShape, Requesting, PCs, PinShareRead, Return
  <2> QED BY <2>1, <2>2, <2>3, <2>4 DEF Shape, TypeOK
<1>3. CASE PinInMemory(w, b)
  <2>1. BlockTypes'
    BY <1>3, EraseLRUType DEF Shape, TypeOK, BlockTypes, PinInMemory, IntIncBlockPinCount
  <2>2. ByteTypes'
    BY <1>3, ConstantsAssumption DEF Shape, TypeOK, ByteTypes, CallTypes, PinInMemory, Count, Counters
  <2>3. CallTypes'
    BY <1>3, ConstantsAssumption DEF Shape, TypeOK, CallTypes, PCs, PinInMemory, Return, DieUnless
  <2>4. CallShape'
    BY <1>3 DEF Shape, TypeOK, CallTypes, CallShape, Requesting, PCs, PinInMemory, Return, DieUnless, Running
  <2> QED BY <2>1, <2>2, <2>3, <2>4 DEF Shape, TypeOK
<1>4. CASE PinFromEM(w, b)
  <2>1. BlockTypes'
    BY <1>4 DEF Shape, TypeOK, BlockTypes, PinFromEM, EnterRequest, blockVars
  <2>2. ByteTypes'
    BY <1>4, ConstantsAssumption DEF Shape, TypeOK, ByteTypes, CallTypes, PinFromEM, EnterRequest
  <2>3. CallTypes'
    BY <1>4, ConstantsAssumption DEF Shape, TypeOK, CallTypes, PCs, PinFromEM, EnterRequest, DieUnless
  <2>4. CallShape'
    BY <1>4, ConstantsAssumption DEF Shape, TypeOK, CallTypes, CallShape, Requesting, PCs, PinFromEM, EnterRequest, DieUnless, Running
  <2> QED BY <2>1, <2>2, <2>3, <2>4 DEF Shape, TypeOK
<1> QED BY <1>1, <1>2, <1>3, <1>4 DEF PinUnpinned

\* The steps of a call in progress.
LEMMA CallStepShape ==
    ASSUME Shape, NEW w \in Worker, CallStep(w)
    PROVE  Shape'
<1>1. CASE AdviseEvict(w) \/ SoftEvict(w) \/ HardEvict(w)
  BY <1>1, EvictLRUShape DEF AdviseEvict, SoftEvict, HardEvict
<1>2. CASE AdviseReturn(w)
  <2>1. BlockTypes'
    BY <1>2 DEF Shape, TypeOK, BlockTypes, AdviseReturn, blockVars
  <2>2. ByteTypes'
    BY <1>2 DEF Shape, TypeOK, ByteTypes, CallTypes, AdviseReturn, byteVars
  <2>3. CallTypes'
    BY <1>2, ConstantsAssumption DEF Shape, TypeOK, CallTypes, PCs, AdviseReturn
  <2>4. CallShape'
    BY <1>2 DEF Shape, TypeOK, CallTypes, CallShape, Requesting, PCs, AdviseReturn, Running
  <2> QED BY <2>1, <2>2, <2>3, <2>4 DEF Shape, TypeOK
<1>3. CASE SoftDone(w) \/ HardRefuse(w) \/ HardWait(w)
  <2>1. BlockTypes'
    BY <1>3 DEF Shape, TypeOK, BlockTypes, SoftDone, HardRefuse, HardWait, Advance, blockVars
  <2>2. ByteTypes'
    BY <1>3 DEF Shape, TypeOK, ByteTypes, CallTypes, SoftDone, HardRefuse, HardWait, Advance, byteVars
  <2>3. CallTypes'
    BY <1>3, ConstantsAssumption DEF Shape, TypeOK, CallTypes, PCs, SoftDone, HardRefuse, HardWait, Advance, callVars
  <2>4. CallShape'
    BY <1>3 DEF Shape, TypeOK, CallTypes, CallShape, Requesting, PCs, SoftDone, HardRefuse, HardWait, Advance, callVars
  <2> QED BY <2>1, <2>2, <2>3, <2>4 DEF Shape, TypeOK
<1>4. CASE WaitTimeout(w)
  <2>1. BlockTypes'
    BY <1>4 DEF Shape, TypeOK, BlockTypes, WaitTimeout, blockVars
  <2>2. ByteTypes'
    BY <1>4 DEF Shape, TypeOK, ByteTypes, CallTypes, WaitTimeout, byteVars
  <2>3. CallTypes'
    BY <1>4, ConstantsAssumption DEF Shape, TypeOK, CallTypes, PCs, WaitTimeout
  <2>4. CallShape'
    BY <1>4 DEF Shape, TypeOK, CallTypes, CallShape, Requesting, PCs, WaitTimeout
  <2> QED BY <2>1, <2>2, <2>3, <2>4 DEF Shape, TypeOK
<1>5. CASE WaitReturn(w)
  <2>1. BlockTypes'
    BY <1>5 DEF Shape, TypeOK, BlockTypes, WaitReturn, blockVars
  <2>2. ByteTypes'
    BY <1>5 DEF Shape, TypeOK, ByteTypes, CallTypes, WaitReturn, byteVars
  <2>3. CallTypes'
    BY <1>5, ConstantsAssumption DEF Shape, TypeOK, CallTypes, PCs, WaitReturn, CallShape, Requesting, MutexFree, Running
  <2>4. CallShape'
    BY <1>5 DEF Shape, TypeOK, CallTypes, CallShape, Requesting, PCs, WaitReturn, MutexFree, Running
  <2> QED BY <2>1, <2>2, <2>3, <2>4 DEF Shape, TypeOK
<1>6. CASE GrantAllocate(w)
  <2>1. BlockTypes'
    BY <1>6 DEF Shape, TypeOK, BlockTypes, GrantAllocate, blockVars
  <2>2. ByteTypes'
    BY <1>6 DEF Shape, TypeOK, ByteTypes, CallTypes, GrantAllocate
  <2>3. CallTypes'
    BY <1>6, ConstantsAssumption DEF Shape, TypeOK, CallTypes, PCs, GrantAllocate, callVars
  <2>4. CallShape'
    BY <1>6 DEF Shape, TypeOK, CallTypes, CallShape, Requesting, PCs, GrantAllocate, callVars
  <2> QED BY <2>1, <2>2, <2>3, <2>4 DEF Shape, TypeOK
<1>7. CASE GrantRead(w)
  <2>1. BlockTypes'
    BY <1>7 DEF Shape, TypeOK, BlockTypes, GrantRead, CallShape, Requesting
  <2>2. ByteTypes'
    BY <1>7 DEF Shape, TypeOK, ByteTypes, CallTypes, GrantRead
  <2>3. CallTypes'
    BY <1>7, ConstantsAssumption DEF Shape, TypeOK, CallTypes, PCs, GrantRead, callVars
  <2>4. CallShape'
    BY <1>7 DEF Shape, TypeOK, CallTypes, CallShape, Requesting, PCs, GrantRead, callVars
  <2> QED BY <2>1, <2>2, <2>3, <2>4 DEF Shape, TypeOK
<1>8. CASE GrantReserve(w)
  <2>1. BlockTypes'
    BY <1>8 DEF Shape, TypeOK, BlockTypes, GrantReserve, blockVars
  <2>2. ByteTypes'
    BY <1>8 DEF Shape, TypeOK, ByteTypes, CallTypes, GrantReserve
  <2>3. CallTypes'
    BY <1>8, ConstantsAssumption DEF Shape, TypeOK, CallTypes, PCs, GrantReserve, Return
  <2>4. CallShape'
    BY <1>8 DEF Shape, TypeOK, CallTypes, CallShape, Requesting, PCs, GrantReserve, Return
  <2> QED BY <2>1, <2>2, <2>3, <2>4 DEF Shape, TypeOK
<1>9. CASE AllocateReturn(w)
  <2>1. BlockTypes'
    BY <1>9 DEF Shape, TypeOK, BlockTypes, AllocateReturn, CallShape
  <2>2. ByteTypes'
    BY <1>9 DEF Shape, TypeOK, ByteTypes, CallTypes, AllocateReturn, AddTotal, Counters
  <2>3. CallTypes'
    BY <1>9, ConstantsAssumption DEF Shape, TypeOK, CallTypes, PCs, AllocateReturn, Return
  <2>4. CallShape'
    BY <1>9 DEF Shape, TypeOK, CallTypes, CallShape, Requesting, PCs, AllocateReturn, Return
  <2> QED BY <2>1, <2>2, <2>3, <2>4 DEF Shape, TypeOK
<1>10. CASE PinRecheck(w)
  <2>1. blk[w] \in Block /\ PinUnpinned(w, blk[w]) /\ Running
    BY <1>10 DEF Shape, CallShape, PinRecheck, MutexFree
  <2> QED BY <2>1, PinUnpinnedShape
<1>11. CASE PinIssueRead(w)
  <2>1. BlockTypes'
    BY <1>11 DEF Shape, TypeOK, BlockTypes, PinIssueRead, CallShape
  <2>2. ByteTypes'
    BY <1>11 DEF Shape, TypeOK, ByteTypes, CallTypes, PinIssueRead, Counters
  <2>3. CallTypes'
    BY <1>11, ConstantsAssumption DEF Shape, TypeOK, CallTypes, PCs, PinIssueRead, Return
  <2>4. CallShape'
    BY <1>11 DEF Shape, TypeOK, CallTypes, CallShape, Requesting, PCs, PinIssueRead, Return
  <2> QED BY <2>1, <2>2, <2>3, <2>4 DEF Shape, TypeOK
<1> QED BY <1>1, <1>2, <1>3, <1>4, <1>5, <1>6, <1>7, <1>8, <1>9, <1>10, <1>11
        DEF CallStep

\* The calls of the program.
LEMMA CallShapeStep ==
    ASSUME Shape, Call
    PROVE  Shape'
<1>1. ASSUME NEW w \in Worker, NEW n \in Reserve, AdviseFree(w, n)
      PROVE  Shape'
  <2>1. BlockTypes'
    BY <1>1 DEF Shape, TypeOK, BlockTypes, AdviseFree, blockVars
  <2>2. ByteTypes'
    BY <1>1 DEF Shape, TypeOK, ByteTypes, CallTypes, AdviseFree, byteVars
  <2>3. CallTypes'
    BY <1>1, ConstantsAssumption DEF Shape, TypeOK, CallTypes, PCs, AdviseFree
  <2>4. CallShape'
    BY <1>1 DEF Shape, TypeOK, CallTypes, CallShape, Requesting, PCs, AdviseFree
  <2> QED BY <2>1, <2>2, <2>3, <2>4 DEF Shape, TypeOK
<1>2. ASSUME NEW w \in Worker, NEW n \in Reserve, RequestInternalMemory(w, n)
      PROVE  Shape'
  <2>1. BlockTypes'
    BY <1>2 DEF Shape, TypeOK, BlockTypes, RequestInternalMemory, EnterRequest, blockVars
  <2>2. ByteTypes'
    BY <1>2, ConstantsAssumption DEF Shape, TypeOK, ByteTypes, CallTypes, RequestInternalMemory, EnterRequest
  <2>3. CallTypes'
    BY <1>2, ConstantsAssumption DEF Shape, TypeOK, CallTypes, PCs, RequestInternalMemory, EnterRequest
  <2>4. CallShape'
    BY <1>2, ConstantsAssumption DEF Shape, TypeOK, CallTypes, CallShape, Requesting, PCs, RequestInternalMemory, EnterRequest
  <2> QED BY <2>1, <2>2, <2>3, <2>4 DEF Shape, TypeOK
<1>3. ASSUME NEW w \in Worker, ReleaseInternalMemory(w)
      PROVE  Shape'
  <2>1. BlockTypes'
    BY <1>3 DEF Shape, TypeOK, BlockTypes, ReleaseInternalMemory, blockVars
  <2>2. ByteTypes'
    BY <1>3 DEF Shape, TypeOK, ByteTypes, CallTypes, ReleaseInternalMemory
  <2>3. CallTypes'
    BY <1>3, ConstantsAssumption DEF Shape, TypeOK, CallTypes, PCs, ReleaseInternalMemory, NotifyAll, DieUnless, callVars
  <2>4. CallShape'
    BY <1>3 DEF Shape, TypeOK, CallTypes, CallShape, Requesting, PCs, ReleaseInternalMemory, NotifyAll, DieUnless, callVars
  <2> QED BY <2>1, <2>2, <2>3, <2>4 DEF Shape, TypeOK
<1>4. ASSUME NEW w \in Worker, NewHandlerEvict(w)
      PROVE  Shape'
  BY <1>4, EvictLRUShape DEF NewHandlerEvict, MutexFree
<1>5. ASSUME NEW w \in Worker, NEW b \in Block, AllocateByteBlock(w, b)
      PROVE  Shape'
  <2>1. BlockTypes'
    BY <1>5 DEF Shape, TypeOK, BlockTypes, AllocateByteBlock, EnterRequest, blockVars
  <2>2. ByteTypes'
    BY <1>5, ConstantsAssumption DEF Shape, TypeOK, ByteTypes, CallTypes, AllocateByteBlock, EnterRequest
  <2>3. CallTypes'
    BY <1>5, ConstantsAssumption DEF Shape, TypeOK, CallTypes, PCs, AllocateByteBlock, EnterRequest
  <2>4. CallShape'
    BY <1>5, ConstantsAssumption DEF Shape, TypeOK, CallTypes, CallShape, Requesting, PCs, AllocateByteBlock, EnterRequest
  <2> QED BY <2>1, <2>2, <2>3, <2>4 DEF Shape, TypeOK
<1>6. ASSUME NEW w \in Worker, NEW b \in Block, PinBlock(w, b)
      PROVE  Shape'
  <2>1. CASE PinPinned(w, b)
    <3>1. BlockTypes'
      BY <1>6, <2>1 DEF Shape, TypeOK, BlockTypes, PinPinned, IntIncBlockPinCount
    <3>2. ByteTypes'
      BY <1>6, <2>1, ConstantsAssumption DEF Shape, TypeOK, ByteTypes, CallTypes, PinPinned
    <3>3. CallTypes'
      BY <1>6, <2>1, ConstantsAssumption DEF Shape, TypeOK, CallTypes, PCs, PinPinned, DieUnless, callVars
    <3>4. CallShape'
      BY <1>6, <2>1 DEF Shape, TypeOK, CallTypes, CallShape, Requesting, PCs, PinPinned, DieUnless, callVars, PinBlock
    <3> QED BY <3>1, <3>2, <3>3, <3>4 DEF Shape, TypeOK
  <2>2. CASE PinUnpinned(w, b)
    BY <1>6, <2>2, PinUnpinnedShape DEF PinBlock, MutexFree
  <2> QED BY <1>6, <2>1, <2>2 DEF PinBlock
<1>7. ASSUME NEW w \in Worker, NEW b \in Block, IncBlockPinCount(b, w)
      PROVE  Shape'
  <2>1. BlockTypes'
    BY <1>7 DEF Shape, TypeOK, BlockTypes, IncBlockPinCount, IntIncBlockPinCount
  <2>2. ByteTypes'
    BY <1>7 DEF Shape, TypeOK, ByteTypes, CallTypes, IncBlockPinCount, byteVars
  <2>3. CallTypes'
    BY <1>7, ConstantsAssumption DEF Shape, TypeOK, CallTypes, PCs, IncBlockPinCount, callVars
  <2>4. CallShape'
    BY <1>7 DEF Shape, TypeOK, CallTypes, CallShape, Requesting, PCs, IncBlockPinCount, callVars
  <2> QED BY <2>1, <2>2, <2>3, <2>4 DEF Shape, TypeOK
<1>8. ASSUME NEW w \in Worker, NEW b \in Block, DecBlockPinCount(b, w)
      PROVE  Shape'
  <2>1. BlockTypes'
    BY <1>8 DEF Shape, TypeOK, BlockTypes, DecBlockPinCount
  <2>2. ByteTypes'
    <3>1. Size[b] \in Int
      BY ConstantsAssumption
    <3>2. pinnedBytes' \in [Worker -> Int]
      BY <1>8, <3>1 DEF Shape, TypeOK, ByteTypes, DecBlockPinCount
    <3>3. bytes' = bytes \/ bytes' = Count("unpinned", Size[b])
      BY <1>8 DEF DecBlockPinCount
    <3>4. bytes' \in [Counters -> Int]
      BY <3>1, <3>3 DEF Shape, TypeOK, ByteTypes, Count, Counters
    <3> QED BY <1>8, <3>2, <3>4 DEF Shape, TypeOK, ByteTypes, DecBlockPinCount
  <2>3. CallTypes'
    BY <1>8, ConstantsAssumption DEF Shape, TypeOK, CallTypes, PCs, DecBlockPinCount, DieUnless, callVars
  <2>4. CallShape'
    BY <1>8 DEF Shape, TypeOK, CallTypes, CallShape, Requesting, PCs, DecBlockPinCount, DieUnless, callVars, MutexFree, Running
  <2> QED BY <2>1, <2>2, <2>3, <2>4 DEF Shape, TypeOK
<1>9. ASSUME NEW b \in Block, MapExternalBlock(b)
      PROVE  Shape'
  <2>1. BlockTypes'
    BY <1>9 DEF Shape, TypeOK, BlockTypes, MapExternalBlock
  <2>2. ByteTypes'
    BY <1>9, ConstantsAssumption DEF Shape, TypeOK, ByteTypes, CallTypes, MapExternalBlock, Counters
  <2>3. CallTypes'
    BY <1>9, ConstantsAssumption DEF Shape, TypeOK, CallTypes, PCs, MapExternalBlock, callVars
  <2>4. CallShape'
    BY <1>9 DEF Shape, TypeOK, CallTypes, CallShape, Requesting, PCs, MapExternalBlock, callVars
  <2> QED BY <2>1, <2>2, <2>3, <2>4 DEF Shape, TypeOK
<1>10. ASSUME NEW b \in Block, EvictBlock(b)
      PROVE  Shape'
  BY <1>10, EvictShape DEF EvictBlock, MutexFree
<1>11. ASSUME NEW b \in Block, DropHandle(b)
      PROVE  Shape'
  <2>1. BlockTypes'
    BY <1>11 DEF Shape, TypeOK, BlockTypes, DropHandle
  <2>2. ByteTypes'
    BY <1>11 DEF Shape, TypeOK, ByteTypes, CallTypes, DropHandle, byteVars
  <2>3. CallTypes'
    BY <1>11, ConstantsAssumption DEF Shape, TypeOK, CallTypes, PCs, DropHandle, callVars
  <2>4. CallShape'
    BY <1>11 DEF Shape, TypeOK, CallTypes, CallShape, Requesting, PCs, DropHandle, callVars
  <2> QED BY <2>1, <2>2, <2>3, <2>4 DEF Shape, TypeOK
<1>12. CASE BeginDestructor
  <2>1. BlockTypes'
    BY <1>12 DEF Shape, TypeOK, BlockTypes, BeginDestructor, blockVars
  <2>2. ByteTypes'
    BY <1>12 DEF Shape, TypeOK, ByteTypes, CallTypes, BeginDestructor, byteVars
  <2>3. CallTypes'
    BY <1>12, ConstantsAssumption DEF Shape, TypeOK, CallTypes, PCs, BeginDestructor, callVars
  <2>4. CallShape'
    BY <1>12 DEF Shape, TypeOK, CallTypes, CallShape, Requesting, PCs, BeginDestructor, callVars
  <2> QED BY <2>1, <2>2, <2>3, <2>4 DEF Shape, TypeOK
<1> QED BY <1>1, <1>2, <1>3, <1>4, <1>5, <1>6, <1>7, <1>8, <1>9, <1>10, <1>11, <1>12
        DEF Call

\* I/O completions and destruction.
LEMMA BackgroundShape ==
    ASSUME Shape, NEW b \in Block, Background(b)
    PROVE  Shape'
<1>1. CASE OnWriteComplete(b)
  <2>1. BlockTypes'
    BY <1>1 DEF Shape, TypeOK, BlockTypes, OnWriteComplete
  <2>2. ByteTypes'
    BY <1>1, ConstantsAssumption DEF Shape, TypeOK, ByteTypes, CallTypes, OnWriteComplete, Counters
  <2>3. CallTypes'
    BY <1>1, ConstantsAssumption DEF Shape, TypeOK, CallTypes, PCs, OnWriteComplete, NotifyAll, WriteEnded, callVars
  <2>4. CallShape'
    BY <1>1 DEF Shape, TypeOK, CallTypes, CallShape, Requesting, PCs, OnWriteComplete, NotifyAll, WriteEnded, callVars, MutexFree, Running
  <2> QED BY <2>1, <2>2, <2>3, <2>4 DEF Shape, TypeOK
<1>2. CASE OnWriteCancelled(b)
  <2>1. BlockTypes'
    BY <1>2 DEF Shape, TypeOK, BlockTypes, OnWriteCancelled
  <2>2. ByteTypes'
    BY <1>2, ConstantsAssumption DEF Shape, TypeOK, ByteTypes, CallTypes, OnWriteCancelled, Counters
  <2>3. CallTypes'
    BY <1>2, ConstantsAssumption DEF Shape, TypeOK, CallTypes, PCs, OnWriteCancelled, WriteEnded, DieUnless, callVars
  <2>4. CallShape'
    BY <1>2 DEF Shape, TypeOK, CallTypes, CallShape, Requesting, PCs, OnWriteCancelled, WriteEnded, DieUnless, callVars, MutexFree, Running
  <2> QED BY <2>1, <2>2, <2>3, <2>4 DEF Shape, TypeOK
<1>3. ASSUME NEW w \in Worker, OnReadComplete(b, w)
      PROVE  Shape'
  <2>1. BlockTypes'
    BY <1>3 DEF Shape, TypeOK, BlockTypes, OnReadComplete, IntIncBlockPinCount
  <2>2. ByteTypes'
    BY <1>3, ConstantsAssumption DEF Shape, TypeOK, ByteTypes, CallTypes, OnReadComplete, Count, Counters
  <2>3. CallTypes'
    BY <1>3, ConstantsAssumption DEF Shape, TypeOK, CallTypes, PCs, OnReadComplete, DieUnless, callVars
  <2>4. CallShape'
    BY <1>3 DEF Shape, TypeOK, CallTypes, CallShape, Requesting, PCs, OnReadComplete, DieUnless, callVars, MutexFree, Running
  <2> QED BY <2>1, <2>2, <2>3, <2>4 DEF Shape, TypeOK
<1>4. ASSUME Running, ReleaseBlock(b)
      PROVE  Shape'
  <2>1. BlockTypes'
    BY <1>4, EraseLRUType DEF Shape, TypeOK, BlockTypes, ReleaseBlock
  <2>2. ByteTypes'
    BY <1>4, ConstantsAssumption DEF Shape, TypeOK, ByteTypes, CallTypes, ReleaseBlock, Counters
  <2>3. CallTypes'
    BY <1>4, ConstantsAssumption DEF Shape, TypeOK, CallTypes, PCs, ReleaseBlock, NotifyAll, DieUnless, callVars
  <2>4. CallShape'
    BY <1>4 DEF Shape, TypeOK, CallTypes, CallShape, Requesting, PCs, ReleaseBlock, NotifyAll, DieUnless, callVars, Running
  <2> QED BY <2>1, <2>2, <2>3, <2>4 DEF Shape, TypeOK
<1>5. CASE DestroyBlock(b)
  <2>1. CASE b \in writing
    <3>1. BlockTypes'
      BY <1>5, <2>1 DEF Shape, TypeOK, BlockTypes, DestroyBlock
    <3>2. ByteTypes'
      BY <1>5, <2>1 DEF Shape, TypeOK, ByteTypes, CallTypes, DestroyBlock, byteVars
    <3>3. CallTypes'
      BY <1>5, <2>1, ConstantsAssumption DEF Shape, TypeOK, CallTypes, PCs, DestroyBlock, callVars
    <3>4. CallShape'
      BY <1>5, <2>1 DEF Shape, TypeOK, CallTypes, CallShape, Requesting, PCs, DestroyBlock, callVars
    <3> QED BY <3>1, <3>2, <3>3, <3>4 DEF Shape, TypeOK
  <2>2. CASE b \notin writing
    BY <1>4, <1>5, <2>2 DEF DestroyBlock, MutexFree
  <2> QED BY <2>1, <2>2
<1>6. CASE DestroyContinue(b)
  BY <1>4, <1>6 DEF DestroyContinue, MutexFree
<1> QED BY <1>1, <1>2, <1>3, <1>5, <1>6 DEF Background

\* A step of ~BlockPool changes pool and, when it takes a PinRequest, handle.
LEMMA DestructorFrame ==
    ASSUME Destructor
    PROVE  /\ UNCHANGED <<exist, dying, pins, inMem, em, lru, writing, swapped, reading, reads>>
           /\ UNCHANGED <<ram, requested, bytes, pinnedBytes, held, pc, blk, need, goal, retry>>
           /\ pool \in {"closing", "waiting"}
           /\ pool' \in {"waiting", "stuck", "closed", "died"}
           /\ handle' = handle \/ \E b \in reading \cap Block : handle' = {b}
  BY DEF Destructor, DestructorTakes, DestructorResumes, EndDestructor, blockVars, byteVars, callVars

\* Every step of the pool, a stuttering one too, keeps the inductive invariant.
LEMMA ShapeStep ==
    ASSUME Shape, [Next]_vars
    PROVE  Shape'
<1>1. CASE Destructor
  <2>1. BlockTypes'
    BY <1>1, DestructorFrame DEF Shape, TypeOK, BlockTypes
  <2>2. ByteTypes'
    BY <1>1, DestructorFrame DEF Shape, TypeOK, ByteTypes, CallTypes
  <2>3. CallTypes'
    BY <1>1, DestructorFrame DEF Shape, TypeOK, CallTypes
  <2>4. CallShape'
    BY <1>1, DestructorFrame DEF Shape, CallShape
  <2> QED BY <2>1, <2>2, <2>3, <2>4 DEF Shape, TypeOK
<1>2. CASE UNCHANGED vars
  <2>1. BlockTypes'
    BY <1>2 DEF Shape, TypeOK, BlockTypes, vars, blockVars
  <2>2. ByteTypes'
    BY <1>2 DEF Shape, TypeOK, ByteTypes, CallTypes, vars, byteVars
  <2>3. CallTypes'
    BY <1>2, ConstantsAssumption DEF Shape, TypeOK, CallTypes, PCs, vars, callVars
  <2>4. CallShape'
    BY <1>2 DEF Shape, TypeOK, CallTypes, CallShape, Requesting, PCs, vars, callVars
  <2> QED BY <2>1, <2>2, <2>3, <2>4 DEF Shape, TypeOK
<1> QED BY <1>1, <1>2, CallStepShape, CallShapeStep, BackgroundShape DEF Next, Ended

\* Every variable of the pool keeps its type in every behaviour; in particular
\* the retry counter of a memory request ends the process before it wraps.
THEOREM TypeCorrect == Spec => []TypeOK
<1>1. Init => Shape
  BY ShapeInit
<1>2. Shape /\ [Next]_vars => Shape'
  BY ShapeStep
<1>3. Shape => TypeOK
  BY DEF Shape
<1> QED BY <1>1, <1>2, <1>3, PTL DEF Spec

-----------------------------------------------------------------------------
\* What a step may do to total_ram_bytes_: it grows only by a granted request,
\* which MayGrant has compared with the hard limit under the same lock.
LEMMA RamStep ==
    ASSUME Shape, [Next]_vars
    PROVE  \/ ram' \in Int /\ ram' <= ram
           \/ \E w \in Worker : MayGrant(need[w]) /\ ram' = ram + need[w]
<1> USE DEF Shape, TypeOK, ByteTypes, CallTypes
<1>0. \A b \in Block : Size[b] \in Nat
  BY ConstantsAssumption
<1>1. ASSUME NEW b \in Block, IntEvictBlock(b)
      PROVE  ram' \in Int /\ ram' <= ram
  BY <1>0, <1>1 DEF IntEvictBlock
<1>2. ASSUME IntEvictBlockLRU
      PROVE  ram' \in Int /\ ram' <= ram
  BY <1>1, <1>2 DEF IntEvictBlockLRU, BlockTypes
<1>3. ASSUME NEW w \in Worker, CallStep(w)
      PROVE  \/ ram' \in Int /\ ram' <= ram
             \/ MayGrant(need[w]) /\ ram' = ram + need[w]
  <2>1. CASE AdviseEvict(w) \/ SoftEvict(w) \/ HardEvict(w)
    BY <1>2, <2>1 DEF AdviseEvict, SoftEvict, HardEvict
  <2>2. CASE GrantAllocate(w) \/ GrantRead(w) \/ GrantReserve(w)
    BY <2>2 DEF GrantAllocate, GrantRead, GrantReserve
  <2>3. CASE \/ AdviseReturn(w) \/ SoftDone(w) \/ HardRefuse(w) \/ HardWait(w)
             \/ WaitTimeout(w) \/ WaitReturn(w) \/ AllocateReturn(w)
             \/ PinRecheck(w) \/ PinIssueRead(w)
    <3>1. ram' = ram
      BY <2>3 DEF AdviseReturn, SoftDone, HardRefuse, HardWait, Advance, WaitTimeout,
                  WaitReturn, AllocateReturn, PinRecheck, PinUnpinned, PinCancelWrite,
                  PinShareRead, PinInMemory, PinFromEM, PinIssueRead, byteVars
    <3> QED BY <3>1
  <2> QED BY <1>3, <2>1, <2>2, <2>3 DEF CallStep
<1>4. ASSUME Call
      PROVE  ram' \in Int /\ ram' <= ram
  <2>1. ASSUME NEW w \in Worker, ReleaseInternalMemory(w)
        PROVE  ram' \in Int /\ ram' <= ram
    BY <2>1 DEF ReleaseInternalMemory
  <2>2. CASE \/ \E w \in Worker : NewHandlerEvict(w)
             \/ \E b \in Block : EvictBlock(b)
    BY <1>1, <1>2, <2>2 DEF NewHandlerEvict, EvictBlock
  <2>3. ASSUME NEW w \in Worker, NEW b \in Block, PinBlock(w, b)
        PROVE  ram' = ram
    BY <2>3 DEF PinBlock, PinPinned, PinUnpinned, PinCancelWrite, PinShareRead,
                PinInMemory, PinFromEM, byteVars
  <2>4. ASSUME NEW w \in Worker, NEW b \in Block,
               AllocateByteBlock(w, b) \/ IncBlockPinCount(b, w) \/ DecBlockPinCount(b, w)
        PROVE  ram' = ram
    BY <2>4 DEF AllocateByteBlock, IncBlockPinCount, DecBlockPinCount, byteVars
  <2>5. ASSUME NEW w \in Worker, NEW n \in Reserve,
               AdviseFree(w, n) \/ RequestInternalMemory(w, n)
        PROVE  ram' = ram
    BY <2>5 DEF AdviseFree, RequestInternalMemory, byteVars
  <2>6. ASSUME NEW b \in Block, MapExternalBlock(b) \/ DropHandle(b)
        PROVE  ram' = ram
    BY <2>6 DEF MapExternalBlock, DropHandle, byteVars
  <2>7. CASE BeginDestructor
    BY <2>7 DEF BeginDestructor, byteVars
  <2> QED BY <1>4, <2>1, <2>2, <2>3, <2>4, <2>5, <2>6, <2>7 DEF Call
<1>5. ASSUME NEW b \in Block, Background(b)
      PROVE  ram' \in Int /\ ram' <= ram
  <2>1. CASE OnWriteComplete(b)
    BY <1>0, <2>1 DEF OnWriteComplete
  <2>2. CASE OnWriteCancelled(b) \/ \E w \in Worker : OnReadComplete(b, w)
    <3>1. ram' = ram
      BY <2>2 DEF OnWriteCancelled, OnReadComplete
    <3> QED BY <3>1
  <2>3. ASSUME ReleaseBlock(b)
        PROVE  ram' \in Int /\ ram' <= ram
    BY <1>0, <2>3 DEF ReleaseBlock
  <2>4. CASE DestroyBlock(b) \/ DestroyContinue(b)
    BY <2>3, <2>4 DEF DestroyBlock, DestroyContinue, byteVars
  <2> QED BY <1>5, <2>1, <2>2, <2>4 DEF Background
<1>6. CASE Destructor \/ UNCHANGED vars
  BY <1>6, DestructorFrame DEF vars, byteVars
<1> QED BY <1>3, <1>4, <1>5, <1>6 DEF Next, Ended

\* total_ram_bytes_ never exceeds the hard limit, for any number of workers that
\* request, wait, are woken and are granted memory in any order.
THEOREM HardLimitKept == Spec => []WithinHardLimit
<1> DEFINE Inv == Shape /\ WithinHardLimit
<1>1. Init => Inv
  BY ShapeInit, ConstantsAssumption DEF Init, WithinHardLimit
<1>2. ASSUME Inv, [Next]_vars
      PROVE  Inv'
  <2>1. Shape'
    BY <1>2, ShapeStep
  <2>2. CASE ram' \in Int /\ ram' <= ram
    BY <1>2, <2>1, <2>2, ConstantsAssumption DEF WithinHardLimit, Shape, TypeOK, ByteTypes
  <2>3. CASE \E w \in Worker : MayGrant(need[w]) /\ ram' = ram + need[w]
    BY <1>2, <2>1, <2>3, ConstantsAssumption
       DEF WithinHardLimit, MayGrant, Shape, TypeOK, ByteTypes, CallTypes
  <2> QED BY <1>2, <2>1, <2>2, <2>3, RamStep
<1>3. Inv => WithinHardLimit
  OBVIOUS
<1> QED BY <1>1, <1>2, <1>3, PTL DEF Spec

-----------------------------------------------------------------------------
(***************************************************************************)
(* BlockPool keeps its blocks: every block is in one place with a valid    *)
(* copy of its contents, for any number of workers and blocks, any sizes   *)
(* and any limits, as long as two calls of PinBlock for one block do not   *)
(* overlap.  Kept, the invariant, says where a block and its external copy *)
(* are, and what a call that has released the mutex may still rely on.     *)
(***************************************************************************)

PinnedSet == {b \in Block : Pinned(b)}
LruSet    == Listed(lru)
ReadSet   == {b \in Block : \E w \in Worker : <<b, w>> \in reads}

\* Where block b can be, and the state of its external copy.
Place(b) ==
    /\ b \in handle \cup dying \cup inMem \cup reading => b \in exist
    /\ b \in PinnedSet \cup LruSet \cup writing => b \in inMem \ reading
    /\ b \in inMem => b \in PinnedSet \cup LruSet \cup writing \cup reading \cup dying
    /\ b \in LruSet => b \notin PinnedSet
    /\ b \in writing => b \notin PinnedSet \cup LruSet \cup ExtBlock
    /\ b \in dying => b \notin PinnedSet \cup LruSet \cup handle \cup reading \cup ExtBlock
    /\ b \in swapped <=> b \in exist \ (inMem \cup ExtBlock)
    /\ b \in ReadSet <=> b \in reading \cap inMem
    /\ em[b] = IF b \in ExtBlock \cup swapped \cup reading THEN "valid"
               ELSE IF b \in writing THEN "partial" ELSE "none"

Places == \A b \in Block : Place(b)

\* A block is on the LRU list once, and one read of it is in flight.
Once ==
    /\ \A i, j \in 1..Len(lru) : lru[i] = lru[j] => i = j
    /\ \A b \in Block, v, w \in Worker : <<b, v>> \in reads /\ <<b, w>> \in reads => v = w

\* What a call in progress may rely on, although the mutex was released.
CallPlace(w) ==
    /\ pc[w] \in {"idle", "advise"} => blk[w] = NoBlock
    /\ pc[w] = "cancel" => blk[w] \in writing \ dying
    /\ pc[w] = "recheck" => blk[w] \in exist \ (dying \cup PinnedSet \cup reading)
    /\ pc[w] \in Requesting =>
          /\ goal[w] \in {"alloc", "read", "reserve"}
          /\ goal[w] = "reserve" => blk[w] = NoBlock /\ held[w] = 0
          /\ goal[w] = "read" => blk[w] \in exist \ (dying \cup inMem \cup reading)
          /\ goal[w] = "alloc" => blk[w] \in Block \ (exist \cup ExtBlock)
          /\ goal[w] # "reserve" => need[w] = Size[blk[w]]
    /\ pc[w] = "alloc" => blk[w] \in Block \ (exist \cup ExtBlock) /\ need[w] = Size[blk[w]]
    /\ pc[w] = "load" => blk[w] \in reading \ inMem /\ need[w] = Size[blk[w]]

CallPlaces == \A w \in Worker : CallPlace(w)

\* Two calls work on different blocks, and none is left for the destructor.
CallsApart ==
    /\ \A v, w \in Worker : blk[v] = blk[w] /\ blk[v] \in Block => v = w
    /\ pool \in {"closing", "waiting"} => \A w \in Worker : pc[w] = "idle" /\ held[w] = 0

Kept == Shape /\ Places /\ Once /\ CallPlaces /\ CallsApart

-----------------------------------------------------------------------------
\* The LRU list as a set: what put, pop and erase do to it.
LEMMA LruErase ==
    ASSUME NEW s \in Seq(Block), NEW b,
           \A i, j \in 1..Len(s) : s[i] = s[j] => i = j
    PROVE  /\ Listed(EraseLRU(s, b)) = Listed(s) \ {b}
           /\ \A i, j \in 1..Len(EraseLRU(s, b)) :
                 EraseLRU(s, b)[i] = EraseLRU(s, b)[j] => i = j
<1>1. CASE b \notin Listed(s)
  BY <1>1 DEF EraseLRU
<1>2. CASE b \in Listed(s)
  <2> DEFINE k == CHOOSE i \in 1..Len(s) : s[i] = b
             n == Len(s) - 1
             f == [i \in 1..n |-> IF i < k THEN s[i] ELSE s[i + 1]]
  <2>1. k \in 1..Len(s) /\ s[k] = b
    BY <1>2 DEF Listed
  <2>2. n \in Nat /\ Len(s) = n + 1
    BY <2>1
  <2>3. EraseLRU(s, b) = f
    BY <1>2 DEF EraseLRU
  <2>4. f \in Seq(Block) /\ Len(f) = n
    <3>1. \A j \in 1..n : f[j] \in Block
      BY <2>2
    <3> QED BY <2>2, <3>1
  <2> HIDE DEF k
  <2>5. \A i \in 1..n : f[i] = IF i < k THEN s[i] ELSE s[i + 1]
    OBVIOUS
  <2> HIDE DEF f
  <2>6. Listed(f) = Listed(s) \ {b}
    <3>1. ASSUME NEW x \in Listed(f) PROVE x \in Listed(s) \ {b}
      <4>1. PICK i \in 1..n : f[i] = x
        BY <2>4 DEF Listed
      <4>2. PICK j \in 1..Len(s) : s[j] = x /\ j # k
        BY <2>1, <2>2, <2>5, <4>1
      <4> QED BY <2>1, <4>2 DEF Listed
    <3>2. ASSUME NEW x \in Listed(s), x # b PROVE x \in Listed(f)
      <4>1. PICK j \in 1..Len(s) : s[j] = x
        BY DEF Listed
      <4>2. j # k
        BY <2>1, <3>2, <4>1
      <4>3. CASE j < k
        <5>1. j \in 1..n /\ f[j] = x
          BY <2>1, <2>2, <2>5, <4>1, <4>3
        <5> QED BY <2>4, <5>1 DEF Listed
      <4>4. CASE j > k
        <5>1. (j - 1) \in 1..n /\ f[j - 1] = x
          BY <2>1, <2>2, <2>5, <4>1, <4>4
        <5> QED BY <2>4, <5>1 DEF Listed
      <4> QED BY <2>1, <4>2, <4>3, <4>4
    <3> QED BY <3>1, <3>2
  <2>7. \A i, j \in 1..n : f[i] = f[j] => i = j
    BY <2>1, <2>2, <2>5
  <2> QED BY <2>3, <2>4, <2>6, <2>7
<1> QED BY <1>1, <1>2

\* put: a block that is not on the list is appended once.
LEMMA LruAppend ==
    ASSUME NEW s \in Seq(Block), NEW b \in Block \ Listed(s),
           \A i, j \in 1..Len(s) : s[i] = s[j] => i = j
    PROVE  /\ Listed(Append(s, b)) = Listed(s) \cup {b}
           /\ \A i, j \in 1..Len(Append(s, b)) :
                 Append(s, b)[i] = Append(s, b)[j] => i = j
<1> DEFINE t == Append(s, b)
<1>1. Len(t) = Len(s) + 1 /\ t[Len(s) + 1] = b /\ \A i \in 1..Len(s) : t[i] = s[i]
  OBVIOUS
<1> HIDE DEF t
<1>2. \A i \in 1..Len(s) : s[i] # b
  BY DEF Listed
<1>3. Listed(t) = Listed(s) \cup {b}
  <2>1. ASSUME NEW x \in Listed(t) PROVE x \in Listed(s) \cup {b}
    BY <1>1 DEF Listed
  <2>2. ASSUME NEW x \in Listed(s) PROVE x \in Listed(t)
    BY <1>1 DEF Listed
  <2>3. b \in Listed(t)
    BY <1>1 DEF Listed
  <2> QED BY <2>1, <2>2, <2>3
<1>4. \A i, j \in 1..Len(t) : t[i] = t[j] => i = j
  BY <1>1, <1>2
<1> QED BY <1>3, <1>4 DEF t

\* pop: the least recently used block is on the list.
LEMMA LruHead ==
    ASSUME NEW s \in Seq(Block), s # <<>>
    PROVE  Head(s) \in Listed(s) /\ Head(s) \in Block
BY DEF Listed

-----------------------------------------------------------------------------
\* The derived sets change only with the variables they are made of.
LEMMA SameSets ==
    /\ pins' = pins => PinnedSet' = PinnedSet
    /\ lru' = lru => LruSet' = LruSet
    /\ reads' = reads => ReadSet' = ReadSet
BY DEF PinnedSet, Pinned, LruSet, ReadSet

\* A step that leaves all blocks alone keeps their places.
LEMMA SamePlaces ==
    ASSUME Places, Once, UNCHANGED blockVars
    PROVE  Places' /\ Once'
<1>1. PinnedSet' = PinnedSet /\ LruSet' = LruSet /\ ReadSet' = ReadSet
  BY SameSets DEF blockVars
<1>2. Places'
  BY <1>1 DEF Places, Place, blockVars
<1>3. Once'
  BY DEF Once, blockVars
<1> QED BY <1>2, <1>3

\* A pin is added to or taken from block b.
LEMMA MorePins ==
    ASSUME Shape, NEW b \in Block, NEW w \in Worker, NEW n \in Nat \ {0},
           pins' = [pins EXCEPT ![b][w] = n]
    PROVE  PinnedSet' = PinnedSet \cup {b}
<1>1. pins'[b][w] > 0
  BY DEF Shape, TypeOK, BlockTypes
<1>2. \A c \in Block : c # b => pins'[c] = pins[c]
  BY DEF Shape, TypeOK, BlockTypes
<1> QED BY <1>1, <1>2 DEF PinnedSet, Pinned

\* The constructor.
LEMMA KeptInit == Init => Kept
<1> SUFFICES ASSUME Init PROVE Kept
  OBVIOUS
<1>1. Shape
  BY ShapeInit
<1>2. PinnedSet = {} /\ LruSet = {} /\ ReadSet = {}
  BY DEF Init, PinnedSet, Pinned, LruSet, Listed, ReadSet
<1>3. Places
  BY <1>2, ConstantsAssumption DEF Init, Places, Place
<1>4. Once
  BY DEF Init, Once
<1>5. CallPlaces /\ CallsApart
  BY ConstantsAssumption DEF Init, CallPlaces, CallPlace, CallsApart, Requesting
<1> QED BY <1>1, <1>3, <1>4, <1>5 DEF Kept

\* An eviction of a block on the LRU list.
LEMMA EvictKept ==
    ASSUME Kept, Running, NEW b \in LruSet, IntEvictBlock(b)
    PROVE  Kept'
<1>0. b \in Block
  BY DEF LruSet, Listed, Kept, Shape, TypeOK, BlockTypes
<1>1. Shape'
  BY <1>0, EvictShape DEF Kept
<1>2. PinnedSet' = PinnedSet /\ ReadSet' = ReadSet
  BY SameSets DEF IntEvictBlock
<1>3. LruSet' = LruSet \ {b} /\ Once'
  <2>1. /\ lru \in Seq(Block) /\ lru' = EraseLRU(lru, b)
        /\ \A i, j \in 1..Len(lru) : lru[i] = lru[j] => i = j
    BY DEF Kept, Once, IntEvictBlock, Shape, TypeOK, BlockTypes
  <2>2. LruSet' = LruSet \ {b} /\ \A i, j \in 1..Len(lru') : lru'[i] = lru'[j] => i = j
    BY <2>1, LruErase DEF LruSet
  <2>3. reads' = reads
    BY DEF IntEvictBlock
  <2> QED BY <2>2, <2>3 DEF Kept, Once
<1>4. Places'
  <2> SUFFICES ASSUME NEW c \in Block PROVE Place(c)'
    BY DEF Places
  <2>1. Place(c) /\ Place(b)
    BY <1>0 DEF Kept, Places
  <2>2. CASE c = b
    BY <1>0, <1>2, <1>3, <2>1, <2>2
       DEF Place, IntEvictBlock, Kept, Shape, TypeOK, BlockTypes
  <2>3. CASE c # b
    BY <1>0, <1>2, <1>3, <2>1, <2>3
       DEF Place, IntEvictBlock, Kept, Shape, TypeOK, BlockTypes
  <2> QED BY <2>2, <2>3
<1>5. CallPlaces'
  <2> SUFFICES ASSUME NEW w \in Worker PROVE CallPlace(w)'
    BY DEF CallPlaces
  <2>1. CallPlace(w) /\ Place(b)
    BY <1>0 DEF Kept, CallPlaces, Places
  <2> QED BY <1>0, <1>2, <2>1
       DEF CallPlace, Place, IntEvictBlock, NotifyAll, Requesting, callVars, Kept, Shape, TypeOK, CallTypes
<1>6. CallsApart'
  BY DEF Kept, CallsApart, IntEvictBlock, NotifyAll, DieUnless, callVars, Running
<1> QED BY <1>1, <1>3, <1>4, <1>5, <1>6 DEF Kept

\* EvictBlock finds the block its caller names on the LRU list.
LEMMA EvictListed ==
    ASSUME Kept, NEW b \in Block, EvictBlock(b)
    PROVE  b \in LruSet /\ IntEvictBlock(b) /\ Running
  BY DEF EvictBlock, MutexFree, Kept, Places, Place, PinnedSet

\* IntEvictBlockLRU evicts the head of the list.
LEMMA EvictLRUKept ==
    ASSUME Kept, Running, IntEvictBlockLRU
    PROVE  Kept'
<1>1. Head(lru) \in LruSet
  BY LruHead DEF LruSet, IntEvictBlockLRU, Kept, Shape, TypeOK, BlockTypes
<1> QED BY <1>1, EvictKept DEF IntEvictBlockLRU

\* The part of PinBlock behind the pin checks, on a block that no other call
\* works on.
LEMMA PinUnpinnedKept ==
    ASSUME Kept, Running, NEW w \in Worker, NEW b \in Block, PinUnpinned(w, b),
           pool = "open",
           b \in exist \ (dying \cup PinnedSet),
           \A v \in Worker : v # w => blk[v] # b
    PROVE  Kept'
<1>0. Shape'
  BY PinUnpinnedShape DEF Kept
<1> USE DEF Kept, Shape, TypeOK, CallTypes
<1>1. CASE PinCancelWrite(w, b)
  <2>1. Places' /\ Once'
    BY <1>1, SamePlaces DEF PinCancelWrite
  <2>2. PinnedSet' = PinnedSet
    BY <1>1, SameSets DEF PinCancelWrite, blockVars
  <2>3. CallPlaces'
    BY <1>1, <2>2 DEF CallPlaces, CallPlace, Requesting, PinCancelWrite, blockVars, byteVars
  <2>4. CallsApart'
    BY <1>1 DEF CallsApart, PinCancelWrite, DieUnless, byteVars
  <2> QED BY <1>0, <2>1, <2>3, <2>4 
<1>2. CASE PinShareRead(w, b)
  <2>1. Places' /\ Once'
    BY <1>2, SamePlaces DEF PinShareRead
  <2>2. PinnedSet' = PinnedSet
    BY <1>2, SameSets DEF PinShareRead, blockVars
  <2>3. CallPlaces'
    BY <1>2, <2>2 DEF CallPlaces, CallPlace, Requesting, PinShareRead, Return, blockVars, byteVars
  <2>4. CallsApart'
    BY <1>2, ConstantsAssumption DEF CallsApart, PinShareRead, Return, byteVars
  <2> QED BY <1>0, <2>1, <2>3, <2>4 
<1>3. CASE PinInMemory(w, b)
  <2>1. PinnedSet' = PinnedSet \cup {b}
    <3>1. pins' = [pins EXCEPT ![b][w] = pins[b][w] + 1] /\ pins[b][w] + 1 \in Nat \ {0}
      BY <1>3 DEF PinInMemory, IntIncBlockPinCount, BlockTypes
    <3> QED BY <3>1, MorePins
  <2>2. LruSet' = LruSet \ {b} /\ Once'
    BY <1>3, LruErase DEF LruSet, Once, PinInMemory, BlockTypes
  <2>3. ReadSet' = ReadSet
    BY <1>3, SameSets DEF PinInMemory
  <2>4. Places'
    <3> SUFFICES ASSUME NEW c \in Block PROVE Place(c)'
      BY DEF Places
    <3>1. Place(c) /\ Place(b)
      BY DEF Places
    <3> QED BY <1>3, <2>1, <2>2, <2>3, <3>1 DEF Place, PinInMemory
  <2>5. CallPlaces'
    <3> SUFFICES ASSUME NEW v \in Worker PROVE CallPlace(v)'
      BY DEF CallPlaces
    <3>1. CallPlace(v) /\ Place(b)
      BY DEF CallPlaces, Places
    <3> QED BY <1>3, <2>1, <3>1 DEF CallPlace, PinInMemory, Return, Requesting
  <2>6. CallsApart'
    BY <1>3, ConstantsAssumption DEF CallsApart, PinInMemory, Return, DieUnless
  <2> QED BY <1>0, <2>2, <2>4, <2>5, <2>6
<1>4. CASE PinFromEM(w, b)
  <2>1. Places' /\ Once'
    BY <1>4, SamePlaces DEF PinFromEM
  <2>2. PinnedSet' = PinnedSet
    BY <1>4, SameSets DEF PinFromEM, blockVars
  <2>3. CallPlaces'
    BY <1>4, <2>2 DEF CallPlaces, CallPlace, Requesting, PinFromEM, EnterRequest, blockVars
  <2>4. CallsApart'
    BY <1>4 DEF CallsApart, PinFromEM, EnterRequest, DieUnless
  <2> QED BY <1>0, <2>1, <2>3, <2>4 
<1> QED BY <1>1, <1>2, <1>3, <1>4 DEF PinUnpinned

\* The steps of a call in progress.
LEMMA CallStepKept ==
    ASSUME Kept, NEW w \in Worker, CallStep(w)
    PROVE  Kept'
<1>0. Shape'
  BY CallStepShape DEF Kept
<1>1. CASE AdviseEvict(w) \/ SoftEvict(w) \/ HardEvict(w)
  BY <1>1, EvictLRUKept DEF AdviseEvict, SoftEvict, HardEvict
<1>2. CASE PinRecheck(w)
  <2>1. blk[w] \in Block /\ PinUnpinned(w, blk[w]) /\ pc[w] = "recheck" /\ Running
    BY <1>2 DEF Kept, Shape, CallShape, PinRecheck, MutexFree
  <2>2. pool = "open"
    BY <2>1 DEF Kept, CallsApart, Running
  <2>3. blk[w] \in exist \ (dying \cup PinnedSet)
    BY <2>1 DEF Kept, CallPlaces, CallPlace
  <2>4. \A v \in Worker : v # w => blk[v] # blk[w]
    BY <2>1 DEF Kept, CallsApart
  <2> QED BY <2>1, <2>2, <2>3, <2>4, PinUnpinnedKept
<1> USE DEF Kept, Shape, TypeOK, CallTypes
<1>3. CASE \/ AdviseReturn(w) \/ SoftDone(w) \/ HardRefuse(w) \/ HardWait(w)
           \/ WaitTimeout(w) \/ WaitReturn(w) \/ GrantAllocate(w) \/ GrantReserve(w)
  <2> USE DEF AdviseReturn, SoftDone, HardRefuse, HardWait, Advance, WaitTimeout,
              WaitReturn, GrantAllocate, GrantReserve
  <2>1. UNCHANGED blockVars
    BY <1>3
  <2>2. Places' /\ Once'
    BY <2>1, SamePlaces
  <2>3. PinnedSet' = PinnedSet
    BY <2>1, SameSets DEF blockVars
  <2>4. CallPlaces'
    <3> SUFFICES ASSUME NEW v \in Worker PROVE CallPlace(v)'
      BY DEF CallPlaces
    <3>1. CallPlace(v) /\ CallPlace(w)
      BY DEF CallPlaces
    <3>2. CASE AdviseReturn(w)
      BY <2>1, <2>3, <3>1, <3>2 DEF CallPlace, Requesting, blockVars, byteVars
    <3>3. CASE SoftDone(w) \/ HardRefuse(w) \/ HardWait(w) \/ WaitTimeout(w)
      BY <2>1, <2>3, <3>1, <3>3 DEF CallPlace, Requesting, blockVars, byteVars, callVars
    <3>4. CASE WaitReturn(w)
      BY <2>1, <2>3, <3>1, <3>4 DEF CallPlace, Requesting, blockVars, byteVars
    <3>5. CASE GrantAllocate(w)
      BY <2>1, <2>3, <3>1, <3>5 DEF CallPlace, Requesting, blockVars, callVars
    <3>6. CASE GrantReserve(w)
      BY <2>1, <2>3, <3>1, <3>6 DEF CallPlace, Requesting, blockVars, Return, ByteTypes
    <3> QED BY <1>3, <3>2, <3>3, <3>4, <3>5, <3>6
  <2>5. CallsApart'
    <3>1. pool = "open" /\ pc[w] # "idle"
      BY <1>3 DEF CallsApart, Running, MutexFree
    <3>2. pool' \in {"open", "aborted"}
      BY <1>3, <3>1
    <3>3. \A v \in Worker : blk'[v] = blk[v] \/ blk'[v] = NoBlock
      BY <1>3 DEF Return, callVars
    <3> QED BY <3>2, <3>3, ConstantsAssumption DEF CallsApart
  <2> QED BY <1>0, <2>2, <2>4, <2>5
<1>4. CASE GrantRead(w)
  <2>0. pool = "open"
    BY <1>4 DEF GrantRead, CallsApart, Running
  <2>1. PinnedSet' = PinnedSet /\ LruSet' = LruSet /\ ReadSet' = ReadSet
    BY <1>4, SameSets DEF GrantRead
  <2>2. CallPlace(w) /\ pc[w] = "hard" /\ goal[w] = "read" /\ blk[w] \in Block
    BY <1>4 DEF GrantRead, CallPlaces, CallShape, Requesting
  <2>3. Places'
    <3> SUFFICES ASSUME NEW c \in Block PROVE Place(c)'
      BY DEF Places
    <3>1. Place(c) /\ Place(blk[w])
      BY <2>2 DEF Places
    <3> QED BY <1>4, <2>1, <2>2, <3>1 DEF Place, GrantRead, CallPlace, Requesting
  <2>4. Once'
    BY <1>4 DEF Once, GrantRead
  <2>5. CallPlaces'
    <3> SUFFICES ASSUME NEW v \in Worker PROVE CallPlace(v)'
      BY DEF CallPlaces
    <3>1. CallPlace(v) /\ (v # w => blk[v] # blk[w])
      BY <2>2 DEF CallPlaces, CallsApart
    <3> QED BY <1>4, <2>1, <2>2, <3>1 DEF CallPlace, GrantRead, Requesting, callVars
  <2>6. CallsApart'
    BY <1>4, <2>0 DEF CallsApart, GrantRead, callVars
  <2> QED BY <1>0, <2>3, <2>4, <2>5, <2>6
<1>5. CASE AllocateReturn(w)
  <2>0. pool = "open"
    BY <1>5 DEF AllocateReturn, CallsApart, Running, MutexFree
  <2>1. LruSet' = LruSet /\ ReadSet' = ReadSet
    BY <1>5, SameSets DEF AllocateReturn
  <2>2. CallPlace(w) /\ pc[w] = "alloc" /\ blk[w] \in Block
    BY <1>5 DEF AllocateReturn, CallPlaces, CallShape
  <2>3. PinnedSet' = PinnedSet \cup {blk[w]}
    <3>1. pins' = [pins EXCEPT ![blk[w]][w] = 1] /\ 1 \in Nat \ {0}
      BY <1>5 DEF AllocateReturn
    <3> QED BY <2>2, <3>1, MorePins
  <2>4. Places'
    <3> SUFFICES ASSUME NEW c \in Block PROVE Place(c)'
      BY DEF Places
    <3>1. Place(c) /\ Place(blk[w])
      BY <2>2 DEF Places
    <3> QED BY <1>5, <2>1, <2>2, <2>3, <3>1 DEF Place, AllocateReturn, CallPlace
  <2>5. Once'
    BY <1>5 DEF Once, AllocateReturn
  <2>6. CallPlaces'
    <3> SUFFICES ASSUME NEW v \in Worker PROVE CallPlace(v)'
      BY DEF CallPlaces
    <3>1. CallPlace(v) /\ (v # w => blk[v] # blk[w]) /\ Place(blk[w])
      BY <2>2 DEF CallPlaces, CallsApart, Places
    <3> QED BY <1>5, <2>2, <2>3, <3>1 DEF CallPlace, AllocateReturn, Requesting, Return
  <2>7. CallsApart'
    BY <1>5, <2>0, ConstantsAssumption DEF CallsApart, AllocateReturn, Return
  <2> QED BY <1>0, <2>4, <2>5, <2>6, <2>7
<1>6. CASE PinIssueRead(w)
  <2>0. pool = "open"
    BY <1>6 DEF PinIssueRead, CallsApart, Running, MutexFree
  <2>1. LruSet' = LruSet /\ PinnedSet' = PinnedSet
    BY <1>6, SameSets DEF PinIssueRead
  <2>2. CallPlace(w) /\ pc[w] = "load" /\ blk[w] \in Block
    BY <1>6 DEF PinIssueRead, CallPlaces, CallShape
  <2>3. ReadSet' = ReadSet \cup {blk[w]} /\ blk[w] \notin ReadSet
    <3>1. reads' = reads \cup {<<blk[w], w>>}
      BY <1>6 DEF PinIssueRead
    <3>2. blk[w] \notin ReadSet
      BY <2>2 DEF Places, Place, CallPlace
    <3> QED BY <2>2, <3>1, <3>2 DEF ReadSet
  <2>4. Places'
    <3> SUFFICES ASSUME NEW c \in Block PROVE Place(c)'
      BY DEF Places
    <3>1. Place(c) /\ Place(blk[w])
      BY <2>2 DEF Places
    <3> QED BY <1>6, <2>1, <2>2, <2>3, <3>1 DEF Place, PinIssueRead, CallPlace
  <2>5. Once'
    <3>1. \A v \in Worker : <<blk[w], v>> \notin reads
      BY <2>2, <2>3 DEF ReadSet
    <3> QED BY <1>6, <3>1 DEF Once, PinIssueRead
  <2>6. CallPlaces'
    <3> SUFFICES ASSUME NEW v \in Worker PROVE CallPlace(v)'
      BY DEF CallPlaces
    <3>1. CallPlace(v) /\ (v # w => blk[v] # blk[w]) /\ Place(blk[w])
      BY <2>2 DEF CallPlaces, CallsApart, Places
    <3> QED BY <1>6, <2>1, <2>2, <3>1 DEF CallPlace, PinIssueRead, Requesting, Return
  <2>7. CallsApart'
    BY <1>6, <2>0, ConstantsAssumption DEF CallsApart, PinIssueRead, Return
  <2> QED BY <1>0, <2>4, <2>5, <2>6, <2>7
<1> QED BY <1>1, <1>2, <1>3, <1>4, <1>5, <1>6 DEF CallStep

\* The calls of the program.
LEMMA CallKept ==
    ASSUME Kept, ~OverlappingPins, Call
    PROVE  Kept'
<1>0. Shape'
  BY CallShapeStep DEF Kept
<1>1. ASSUME NEW w \in Worker, NewHandlerEvict(w)
      PROVE  Kept'
  BY <1>1, EvictLRUKept DEF NewHandlerEvict, MutexFree
<1>2. ASSUME NEW b \in Block, EvictBlock(b)
      PROVE  Kept'
  BY <1>2, EvictKept, EvictListed
<1>3. ASSUME NEW b \in Block, ~InCall(b)
      PROVE  \A v \in Worker : blk[v] # b
  BY <1>3, ConstantsAssumption DEF InCall, Kept, CallPlaces, CallPlace
<1> USE DEF Kept, Shape, TypeOK, CallTypes
<1>4. ASSUME NEW w \in Worker, NEW n \in Reserve,
             AdviseFree(w, n) \/ RequestInternalMemory(w, n)
      PROVE  Kept'
  <2>1. Places' /\ Once'
    BY <1>4, SamePlaces DEF AdviseFree, RequestInternalMemory
  <2>2. PinnedSet' = PinnedSet
    BY <1>4, SameSets DEF AdviseFree, RequestInternalMemory, blockVars
  <2>3. CallPlaces'
    <3>1. CASE AdviseFree(w, n)
      BY <2>2, <3>1 DEF CallPlaces, CallPlace, Requesting, AdviseFree, blockVars, byteVars
    <3>2. CASE RequestInternalMemory(w, n)
      BY <2>2, <3>2 DEF CallPlaces, CallPlace, Requesting, RequestInternalMemory,
                        EnterRequest, blockVars
    <3> QED BY <1>4, <3>1, <3>2
  <2>4. CallsApart'
    BY <1>4, ConstantsAssumption
       DEF CallsApart, AdviseFree, RequestInternalMemory, EnterRequest
  <2> QED BY <1>0, <2>1, <2>3, <2>4
<1>5. ASSUME NEW w \in Worker, ReleaseInternalMemory(w)
      PROVE  Kept'
  <2>1. Places' /\ Once'
    BY <1>5, SamePlaces DEF ReleaseInternalMemory
  <2>2. PinnedSet' = PinnedSet
    BY <1>5, SameSets DEF ReleaseInternalMemory, blockVars
  <2>3. CallPlaces'
    BY <1>5, <2>2 DEF CallPlaces, CallPlace, Requesting, ReleaseInternalMemory, NotifyAll,
                      blockVars, callVars, ByteTypes
  <2>4. CallsApart'
    BY <1>5 DEF CallsApart, ReleaseInternalMemory, DieUnless, callVars
  <2> QED BY <1>0, <2>1, <2>3, <2>4
<1>6. ASSUME NEW w \in Worker, NEW b \in Block, AllocateByteBlock(w, b)
      PROVE  Kept'
  <2>1. Places' /\ Once'
    BY <1>6, SamePlaces DEF AllocateByteBlock
  <2>2. PinnedSet' = PinnedSet
    BY <1>6, SameSets DEF AllocateByteBlock, blockVars
  <2>3. CallPlaces'
    BY <1>6, <2>2 DEF CallPlaces, CallPlace, Requesting, AllocateByteBlock, EnterRequest, blockVars
  <2>4. CallsApart'
    BY <1>3, <1>6 DEF CallsApart, AllocateByteBlock, EnterRequest
  <2> QED BY <1>0, <2>1, <2>3, <2>4
<1>7. ASSUME NEW w \in Worker, NEW b \in Block, PinBlock(w, b)
      PROVE  Kept'
  <2>1. CASE ~Pinned(b)
    <3>1. b \notin PinnedSet /\ b \in exist \ dying
      BY <1>7, <2>1 DEF PinBlock, PinnedSet, Places, Place
    <3>2. \A v \in Worker : v # w => blk[v] # b
      BY <1>3, <1>7 DEF PinBlock
    <3> QED BY <1>7, <2>1, <3>1, <3>2, PinUnpinnedKept DEF PinBlock, Running
  <2>2. CASE Pinned(b)
    <3>1. b \in PinnedSet
      BY <2>2 DEF PinnedSet
    <3>2. PinnedSet' = PinnedSet
      <4>1. /\ pins' = [pins EXCEPT ![b][w] = pins[b][w] + 1]
            /\ pins[b][w] + 1 \in Nat \ {0}
        BY <1>7, <2>2 DEF PinBlock, PinPinned, IntIncBlockPinCount, BlockTypes
      <4>2. PinnedSet' = PinnedSet \cup {b}
        BY <4>1, MorePins
      <4> QED BY <3>1, <4>2
    <3>3. LruSet' = LruSet /\ ReadSet' = ReadSet
      BY <1>7, <2>2, SameSets DEF PinBlock, PinPinned
    <3>4. Places' /\ Once'
      BY <1>7, <2>2, <3>2, <3>3 DEF Places, Place, Once, PinBlock, PinPinned
    <3>5. CallPlaces'
      BY <1>7, <2>2, <3>2 DEF CallPlaces, CallPlace, Requesting, PinBlock, PinPinned, callVars
    <3>6. CallsApart'
      BY <1>7, <2>2 DEF CallsApart, PinBlock, PinPinned, DieUnless, callVars
    <3> QED BY <1>0, <3>4, <3>5, <3>6
  <2> QED BY <2>1, <2>2
<1>8. ASSUME NEW w \in Worker, NEW b \in Block, IncBlockPinCount(b, w)
      PROVE  Kept'
  <2>1. b \in PinnedSet
    BY <1>8 DEF IncBlockPinCount, PinnedSet, Pinned
  <2>2. PinnedSet' = PinnedSet
    <3>1. /\ pins' = [pins EXCEPT ![b][w] = pins[b][w] + 1]
          /\ pins[b][w] + 1 \in Nat \ {0}
      BY <1>8 DEF IncBlockPinCount, IntIncBlockPinCount, BlockTypes
    <3>2. PinnedSet' = PinnedSet \cup {b}
      BY <3>1, MorePins
    <3> QED BY <2>1, <3>2
  <2>3. LruSet' = LruSet /\ ReadSet' = ReadSet
    BY <1>8, SameSets DEF IncBlockPinCount
  <2>4. Places' /\ Once'
    BY <1>8, <2>2, <2>3 DEF Places, Place, Once, IncBlockPinCount
  <2>5. CallPlaces'
    BY <1>8, <2>2 DEF CallPlaces, CallPlace, Requesting, IncBlockPinCount, callVars, byteVars
  <2>6. CallsApart'
    BY <1>8 DEF CallsApart, IncBlockPinCount, callVars
  <2> QED BY <1>0, <2>4, <2>5, <2>6
<1>9. ASSUME NEW w \in Worker, NEW b \in Block, DecBlockPinCount(b, w)
      PROVE  Kept'
  <2> DEFINE lastAll == \A v \in Worker : pins'[b][v] = 0
  <2>1. b \in PinnedSet /\ b \in Block \ Listed(lru)
    BY <1>9 DEF DecBlockPinCount, PinnedSet, Pinned, Places, Place, LruSet
  <2>2. PinnedSet' = IF lastAll THEN PinnedSet \ {b} ELSE PinnedSet
    <3>1. pins' \in [Block -> [Worker -> Nat]] /\ \A c \in Block : c # b => pins'[c] = pins[c]
      BY <1>0, <1>9 DEF DecBlockPinCount, BlockTypes
    <3>2. lastAll <=> ~ \E v \in Worker : pins'[b][v] > 0
      BY <3>1
    <3> HIDE DEF lastAll
    <3> QED BY <2>1, <3>1, <3>2 DEF PinnedSet, Pinned
  <2>3. /\ lru' = IF lastAll THEN Append(lru, b) ELSE lru
        /\ UNCHANGED <<exist, handle, dying, inMem, em, writing, swapped, reading,
                       reads, ram, requested, held, pc, callVars>>
    BY <1>9 DEF DecBlockPinCount
  <2>4. pool' = pool \/ pool' = "died"
    BY <1>9 DEF DecBlockPinCount, DieUnless
  <2> HIDE DEF lastAll
  <2>5. LruSet' = (IF lastAll THEN LruSet \cup {b} ELSE LruSet) /\ Once'
    BY <2>1, <2>3, LruAppend DEF LruSet, Once, BlockTypes
  <2>6. ReadSet' = ReadSet
    BY <2>3, SameSets
  <2>7. Places'
    <3> SUFFICES ASSUME NEW c \in Block PROVE Place(c)'
      BY DEF Places
    <3>1. Place(c) /\ Place(b)
      BY DEF Places
    <3> QED BY <2>1, <2>2, <2>3, <2>5, <2>6, <3>1 DEF Place
  <2>8. CallPlaces'
    BY <2>2, <2>3 DEF CallPlaces, CallPlace, callVars
  <2>9. CallsApart'
    BY <2>3, <2>4 DEF CallsApart, callVars
  <2> QED BY <1>0, <2>5, <2>7, <2>8, <2>9
<1>10. ASSUME NEW b \in Block, MapExternalBlock(b)
      PROVE  Kept'
  <2>1. PinnedSet' = PinnedSet /\ LruSet' = LruSet /\ ReadSet' = ReadSet
    BY <1>10, SameSets DEF MapExternalBlock
  <2>2. Places'
    BY <1>10, <2>1 DEF Places, Place, MapExternalBlock
  <2>3. Once'
    BY <1>10 DEF Once, MapExternalBlock
  <2>4. CallPlaces'
    <3> SUFFICES ASSUME NEW v \in Worker PROVE CallPlace(v)'
      BY DEF CallPlaces
    <3>1. CallPlace(v)
      BY DEF CallPlaces
    <3> QED BY <1>10, <2>1, <3>1 DEF CallPlace, MapExternalBlock, callVars
  <2>5. CallsApart'
    BY <1>10 DEF CallsApart, MapExternalBlock, callVars
  <2> QED BY <1>0, <2>2, <2>3, <2>4, <2>5
<1>11. ASSUME NEW b \in Block, DropHandle(b)
      PROVE  Kept'
  <2>1. PinnedSet' = PinnedSet /\ LruSet' = LruSet /\ ReadSet' = ReadSet
    BY <1>11, SameSets DEF DropHandle
  <2>2. Places' /\ Once'
    BY <1>11, <2>1 DEF Places, Place, Once, DropHandle
  <2>3. CallPlaces'
    BY <1>11, <2>1 DEF CallPlaces, CallPlace, DropHandle, callVars, byteVars
  <2>4. CallsApart'
    BY <1>11 DEF CallsApart, DropHandle, callVars, byteVars
  <2> QED BY <1>0, <2>2, <2>3, <2>4
<1>12. CASE BeginDestructor
  <2>1. Places' /\ Once'
    BY <1>12, SamePlaces DEF BeginDestructor
  <2>2. PinnedSet' = PinnedSet
    BY <1>12, SameSets DEF BeginDestructor, blockVars
  <2>3. CallPlaces' /\ CallsApart'
    BY <1>12, <2>2 DEF CallPlaces, CallPlace, CallsApart, BeginDestructor, blockVars, callVars, byteVars
  <2> QED BY <1>0, <2>1, <2>3
<1> QED BY <1>1, <1>2, <1>4, <1>5, <1>6, <1>7, <1>8, <1>9, <1>10, <1>11, <1>12 DEF Call

\* The last part of a destruction, of a block that nobody uses.
LEMMA ReleaseKept ==
    ASSUME Kept, Running, NEW b \in Block, ReleaseBlock(b),
           b \in exist \ (handle \cup PinnedSet \cup writing \cup reading),
           \A v \in Worker : blk[v] # b
    PROVE  Shape' => Kept'
<1> SUFFICES ASSUME Shape' PROVE Kept'
  OBVIOUS
<1> USE DEF Kept
<1>1. PinnedSet' = PinnedSet /\ ReadSet' = ReadSet
  BY SameSets DEF ReleaseBlock
<1>2. LruSet' = LruSet \ {b} /\ Once'
  <2>1. lru \in Seq(Block) /\ \A i, j \in 1..Len(lru) : lru[i] = lru[j] => i = j
    BY DEF Once, Shape, TypeOK, BlockTypes
  <2>2. CASE b \in inMem
    <3>1. lru' = EraseLRU(lru, b) /\ reads' = reads
      BY <2>2 DEF ReleaseBlock
    <3> QED BY <2>1, <3>1, LruErase DEF LruSet, Once
  <2>3. CASE b \notin inMem
    <3>1. lru' = lru /\ reads' = reads
      BY <2>3 DEF ReleaseBlock
    <3>2. b \notin LruSet
      BY <2>3 DEF Places, Place
    <3> QED BY <3>1, <3>2 DEF LruSet, Once
  <2> QED BY <2>2, <2>3
<1>3. Places'
  <2> SUFFICES ASSUME NEW c \in Block PROVE Place(c)'
    BY DEF Places
  <2>1. Place(c)
    BY DEF Places
  <2>2. CASE c = b
    BY <1>1, <1>2, <2>1, <2>2 DEF Place, ReleaseBlock, Shape, TypeOK, BlockTypes
  <2>3. CASE c # b
    BY <1>1, <1>2, <2>1, <2>3 DEF Place, ReleaseBlock, Shape, TypeOK, BlockTypes
  <2> QED BY <2>2, <2>3
<1>4. CallPlaces'
  <2> SUFFICES ASSUME NEW v \in Worker PROVE CallPlace(v)'
    BY DEF CallPlaces
  <2>1. CallPlace(v) /\ blk[v] # b
    BY DEF CallPlaces
  <2>2. pc'[v] = pc[v] \/ (pc[v] = "wait" /\ pc'[v] = "woken")
    BY DEF ReleaseBlock, NotifyAll, Shape, TypeOK, CallTypes
  <2> QED BY <1>1, <2>1, <2>2 DEF CallPlace, ReleaseBlock, Requesting, callVars
<1>5. CallsApart'
  BY DEF CallsApart, ReleaseBlock, NotifyAll, DieUnless, callVars, Running
<1> QED BY <1>2, <1>3, <1>4, <1>5

\* I/O completions and destruction.
LEMMA BackgroundKept ==
    ASSUME Kept, NEW b \in Block, Background(b)
    PROVE  Kept'
<1>0. Shape'
  BY BackgroundShape DEF Kept
<1> USE DEF Kept
<1>1. CASE OnWriteComplete(b)
  <2>1. PinnedSet' = PinnedSet /\ LruSet' = LruSet /\ ReadSet' = ReadSet
    BY <1>1, SameSets DEF OnWriteComplete
  <2>2. Places'
    <3> SUFFICES ASSUME NEW c \in Block PROVE Place(c)'
      BY DEF Places
    <3>1. Place(c) /\ Place(b)
      BY DEF Places
    <3> QED BY <1>1, <2>1, <3>1 DEF Place, OnWriteComplete, Shape, TypeOK, BlockTypes
  <2>3. Once'
    BY <1>1 DEF Once, OnWriteComplete
  <2>4. CallPlaces'
    <3> SUFFICES ASSUME NEW v \in Worker PROVE CallPlace(v)'
      BY DEF CallPlaces
    <3>1. CallPlace(v) /\ Place(b)
      BY DEF CallPlaces, Places
    <3>2. \/ pc[v] # "cancel" /\ pc'[v] = pc[v]
          \/ pc[v] = "wait" /\ pc'[v] = "woken"
          \/ pc[v] = "cancel" /\ blk[v] = b /\ pc'[v] = "recheck"
          \/ pc[v] = "cancel" /\ blk[v] # b /\ pc'[v] = "cancel"
      BY <1>1 DEF OnWriteComplete, NotifyAll, WriteEnded, Shape, TypeOK, CallTypes
    <3> QED BY <1>1, <2>1, <3>1, <3>2 DEF CallPlace, Place, OnWriteComplete, Requesting, callVars
  <2>5. CallsApart'
    BY <1>1 DEF CallsApart, OnWriteComplete, NotifyAll, WriteEnded, callVars
  <2> QED BY <1>0, <2>2, <2>3, <2>4, <2>5
<1>2. CASE OnWriteCancelled(b)
  <2>1. PinnedSet' = PinnedSet /\ ReadSet' = ReadSet
    BY <1>2, SameSets DEF OnWriteCancelled
  <2>2. LruSet' = (IF b \in dying THEN LruSet ELSE LruSet \cup {b}) /\ Once'
    <3>1. /\ lru \in Seq(Block) /\ \A i, j \in 1..Len(lru) : lru[i] = lru[j] => i = j
          /\ b \in Block \ Listed(lru)
      BY <1>2 DEF Once, Shape, TypeOK, BlockTypes, OnWriteCancelled, Places, Place, LruSet
    <3>2. lru' = (IF b \in dying THEN lru ELSE Append(lru, b)) /\ reads' = reads
      BY <1>2 DEF OnWriteCancelled
    <3> QED BY <3>1, <3>2, LruAppend DEF LruSet, Once
  <2>3. Places'
    <3> SUFFICES ASSUME NEW c \in Block PROVE Place(c)'
      BY DEF Places
    <3>1. Place(c) /\ Place(b)
      BY DEF Places
    <3> QED BY <1>2, <2>1, <2>2, <3>1 DEF Place, OnWriteCancelled, Shape, TypeOK, BlockTypes
  <2>4. CallPlaces'
    <3> SUFFICES ASSUME NEW v \in Worker PROVE CallPlace(v)'
      BY DEF CallPlaces
    <3>1. CallPlace(v) /\ Place(b)
      BY DEF CallPlaces, Places
    <3>2. \/ pc[v] # "cancel" /\ pc'[v] = pc[v]
          \/ pc[v] = "cancel" /\ blk[v] = b /\ pc'[v] = "recheck"
          \/ pc[v] = "cancel" /\ blk[v] # b /\ pc'[v] = "cancel"
      BY <1>2 DEF OnWriteCancelled, WriteEnded, Shape, TypeOK, CallTypes
    <3> QED BY <1>2, <2>1, <3>1, <3>2 DEF CallPlace, Place, OnWriteCancelled, Requesting, callVars
  <2>5. CallsApart'
    BY <1>2 DEF CallsApart, OnWriteCancelled, WriteEnded, DieUnless, callVars
  <2> QED BY <1>0, <2>2, <2>3, <2>4, <2>5
<1>3. ASSUME NEW w \in Worker, OnReadComplete(b, w)
      PROVE  Kept'
  <2>1. LruSet' = LruSet
    BY <1>3, SameSets DEF OnReadComplete
  <2>2. PinnedSet' = PinnedSet \cup {b}
    <3>1. pins' = [pins EXCEPT ![b][w] = pins[b][w] + 1] /\ pins[b][w] + 1 \in Nat \ {0}
      BY <1>3 DEF OnReadComplete, IntIncBlockPinCount, Shape, TypeOK, BlockTypes
    <3> QED BY <3>1, MorePins
  <2>3. b \in ReadSet /\ ReadSet' = ReadSet \ {b} /\ Once'
    <3>1. <<b, w>> \in reads /\ reads' = reads \ {<<b, w>>} /\ lru' = lru
      BY <1>3 DEF OnReadComplete
    <3>2. \A v \in Worker : <<b, v>> \in reads => v = w
      BY <3>1 DEF Once
    <3> QED BY <3>1, <3>2 DEF ReadSet, Once
  <2>4. Places'
    <3> SUFFICES ASSUME NEW c \in Block PROVE Place(c)'
      BY DEF Places
    <3>1. Place(c) /\ Place(b)
      BY DEF Places
    <3> QED BY <1>3, <2>1, <2>2, <2>3, <3>1 DEF Place, OnReadComplete, Shape, TypeOK, BlockTypes
  <2>5. CallPlaces'
    <3> SUFFICES ASSUME NEW v \in Worker PROVE CallPlace(v)'
      BY DEF CallPlaces
    <3>1. CallPlace(v) /\ Place(b)
      BY DEF CallPlaces, Places
    <3> QED BY <1>3, <2>2, <2>3, <3>1 DEF CallPlace, Place, OnReadComplete, Requesting, callVars
  <2>6. CallsApart'
    BY <1>3 DEF CallsApart, OnReadComplete, DieUnless, callVars
  <2> QED BY <1>0, <2>3, <2>4, <2>5, <2>6
<1>4. CASE DestroyBlock(b)
  <2>1. b \notin PinnedSet /\ Running /\ \A v \in Worker : blk[v] # b
    BY <1>4, ConstantsAssumption
       DEF DestroyBlock, MutexFree, Referenced, InCall, PinnedSet, CallPlaces, CallPlace
  <2>2. CASE b \in writing
    <3>1. PinnedSet' = PinnedSet /\ LruSet' = LruSet /\ ReadSet' = ReadSet
      BY <1>4, <2>2, SameSets DEF DestroyBlock
    <3>2. Places'
      <4> SUFFICES ASSUME NEW c \in Block PROVE Place(c)'
        BY DEF Places
      <4>1. Place(c) /\ Place(b)
        BY DEF Places
      <4> QED BY <1>4, <2>1, <2>2, <3>1, <4>1 DEF Place, DestroyBlock, Referenced
    <3>3. Once'
      BY <1>4, <2>2 DEF Once, DestroyBlock
    <3>4. CallPlaces'
      BY <1>4, <2>1, <2>2, <3>1 DEF CallPlaces, CallPlace, DestroyBlock, callVars, byteVars
    <3>5. CallsApart'
      BY <1>4, <2>2 DEF CallsApart, DestroyBlock, callVars, byteVars
    <3> QED BY <1>0, <3>2, <3>3, <3>4, <3>5
  <2>3. CASE b \notin writing
    BY <1>0, <1>4, <2>1, <2>3, ReleaseKept DEF DestroyBlock, Referenced
  <2> QED BY <2>2, <2>3
<1>5. CASE DestroyContinue(b)
  <2>1. b \in exist \ (handle \cup PinnedSet \cup writing \cup reading) /\ ReleaseBlock(b) /\ Running
    BY <1>5 DEF DestroyContinue, MutexFree, Places, Place
  <2>2. ASSUME NEW v \in Worker PROVE blk[v] # b
    <3>1. CallPlace(v) /\ Place(b) /\ b \in dying /\ pc[v] \in PCs
      BY <1>5 DEF CallPlaces, Places, DestroyContinue, Shape, TypeOK, CallTypes
    <3> QED BY <2>1, <3>1, ConstantsAssumption DEF CallPlace, Place, PCs, Requesting
  <2> QED BY <1>0, <2>1, <2>2, ReleaseKept
<1> QED BY <1>1, <1>2, <1>3, <1>4, <1>5 DEF Background

\* Every step of the pool keeps the blocks in their places.
LEMMA KeptStep ==
    ASSUME Kept, ~OverlappingPins, [Next]_vars
    PROVE  Kept'
<1>0. Shape'
  BY ShapeStep DEF Kept
<1>1. CASE UNCHANGED vars
  <2>1. UNCHANGED <<blockVars, byteVars, pc, callVars>>
    BY <1>1 DEF vars
  <2>2. Places' /\ Once'
    BY <2>1, SamePlaces DEF Kept
  <2>3. PinnedSet' = PinnedSet
    BY <2>1, SameSets DEF blockVars
  <2>4. CallPlaces'
    BY <2>1, <2>3 DEF Kept, CallPlaces, CallPlace, blockVars, byteVars, callVars
  <2>5. CallsApart'
    BY <1>1, <2>1 DEF Kept, CallsApart, byteVars, callVars, vars
  <2> QED BY <1>0, <2>2, <2>4, <2>5 DEF Kept
<1>2. CASE Destructor
  <2>1. PinnedSet' = PinnedSet /\ LruSet' = LruSet /\ ReadSet' = ReadSet
    BY <1>2, DestructorFrame, SameSets
  <2>2. Places'
    <3>1. \A b \in Block : b \in handle' => b \in handle \cup reading
      BY <1>2, DestructorFrame
    <3> QED BY <1>2, <2>1, <3>1, DestructorFrame DEF Kept, Places, Place
  <2>3. Once'
    BY <1>2, DestructorFrame DEF Kept, Once
  <2>4. CallPlaces'
    BY <1>2, <2>1, DestructorFrame DEF Kept, CallPlaces, CallPlace
  <2>5. CallsApart'
    BY <1>2, DestructorFrame DEF Kept, CallsApart
  <2> QED BY <1>0, <2>2, <2>3, <2>4, <2>5 DEF Kept
<1> QED BY <1>1, <1>2, CallStepKept, CallKept, BackgroundKept DEF Next, Ended

-----------------------------------------------------------------------------
(* What the places say about one block.                                    *)

\* The containers of the pool that know an existing block.
LEMMA OnePlace ==
    ASSUME Kept, NEW b \in exist
    PROVE  Cardinality(Where(b)) = IF b \in (dying \cap inMem) \ writing THEN 0 ELSE 1
<1>1. Place(b) /\ (b \in PinnedSet <=> Pinned(b)) /\ LruSet = Listed(lru)
  BY DEF Kept, Places, Shape, TypeOK, BlockTypes, PinnedSet, LruSet
<1>2. CASE Pinned(b)
  <2>1. Where(b) = {"pinned"} /\ b \notin dying
    BY <1>1, <1>2 DEF Where, Place, OnDisk
  <2> QED BY <2>1, FS_Singleton
<1>3. CASE b \in LruSet
  <2>1. Where(b) = {"listed"} /\ b \notin dying
    BY <1>1, <1>3 DEF Where, Place, OnDisk
  <2> QED BY <2>1, FS_Singleton
<1>4. CASE b \in writing
  <2>1. Where(b) = {"writing"} /\ b \in writing
    BY <1>1, <1>4 DEF Where, Place, OnDisk
  <2> QED BY <2>1, FS_Singleton
<1>5. CASE b \in reading
  <2>1. Where(b) = {"reading"} /\ b \notin dying
    BY <1>1, <1>5 DEF Where, Place, OnDisk
  <2> QED BY <2>1, FS_Singleton
<1>6. CASE OnDisk(b)
  <2>1. Where(b) = {"onDisk"} /\ b \notin inMem
    BY <1>1, <1>6 DEF Where, Place, OnDisk
  <2> QED BY <2>1, FS_Singleton
<1>7. CASE ~Pinned(b) /\ b \notin LruSet \cup writing \cup reading /\ ~OnDisk(b)
  <2>1. Where(b) = {} /\ b \in (dying \cap inMem) \ writing
    BY <1>1, <1>7 DEF Where, Place, OnDisk
  <2> QED BY <2>1, FS_EmptySet
<1> QED BY <1>2, <1>3, <1>4, <1>5, <1>6, <1>7

\* The places give the invariant the runs check.
LEMMA KeptImpliesBlocksKept == Kept => BlocksKept
<1> SUFFICES ASSUME Kept PROVE BlocksKept
  OBVIOUS
<1>1. InOnePlace
  BY OnePlace DEF InOnePlace
<1>2. NeverLost
  BY DEF Kept, Places, Place, NeverLost, Shape, TypeOK, BlockTypes
<1> QED BY <1>1, <1>2 DEF BlocksKept

\* The pool knows every existing block in exactly one of its containers, and a
\* valid copy of its contents exists (the lists and maps of BlockPool::Data).
THEOREM PoolKeepsBlocks == ~OverlappingPins => (Spec => []BlocksKept)
<1> SUFFICES ASSUME ~OverlappingPins PROVE Spec => []BlocksKept
  OBVIOUS
<1>1. Kept /\ [Next]_vars => Kept'
  BY KeptStep
<1> QED BY KeptInit, <1>1, KeptImpliesBlocksKept, PTL DEF Spec

-----------------------------------------------------------------------------
(***************************************************************************)
(* The byte counters of BlockPool: each is the exact sum of what it counts,*)
(* and with that no die_unless of block_pool.cpp fails, the ones of the    *)
(* destructor included.  Every step moves one summand of a counter and the *)
(* counter by the same amount; SumTheorems says that this is enough.       *)
(***************************************************************************)

-----------------------------------------------------------------------------
\* Sums of sizes: what adding and removing a block does.
LEMMA SizeOfChange ==
    ASSUME NEW S \in SUBSET Block
    PROVE  /\ SizeOf(S) \in Nat
           /\ \A b \in Block \ S : SizeOf(S \cup {b}) = SizeOf(S) + Size[b]
           /\ \A b \in S : SizeOf(S \ {b}) = SizeOf(S) - Size[b] /\ Size[b] <= SizeOf(S)
<1>1. IsFiniteSet(S)
  BY FS_Subset, ConstantsAssumption
<1>2. \A b \in Block : Size[b] \in Nat /\ Size[b] \in Int
  BY ConstantsAssumption
<1>3. SizeOf(S) \in Nat /\ \A b \in S : Size[b] <= SizeOf(S)
  BY <1>1, <1>2, SumNat DEF SizeOf
<1>4. ASSUME NEW b \in Block \ S PROVE SizeOf(S \cup {b}) = SizeOf(S) + Size[b]
  BY <1>1, <1>2, SumAdd DEF SizeOf
<1>5. ASSUME NEW b \in S PROVE SizeOf(S \ {b}) = SizeOf(S) - Size[b]
  BY <1>1, <1>2, SumRemove DEF SizeOf
<1> QED BY <1>3, <1>4, <1>5

\* The empty set has no bytes.
LEMMA SizeOfNone == SizeOf({}) = 0
BY SumEmpty DEF SizeOf

\* Sums over the workers: one of them changes its share.
LEMMA SumOverChange ==
    ASSUME NEW f \in [Worker -> Int], NEW g \in [Worker -> Int], NEW w \in Worker,
           \A v \in Worker \ {w} : g[v] = f[v]
    PROVE  SumOver(f) \in Int /\ SumOver(g) = SumOver(f) + (g[w] - f[w])
<1>1. IsFiniteSet(Worker)
  BY ConstantsAssumption
<1>2. \A v \in Worker : f[v] \in Int /\ g[v] \in Int
  OBVIOUS
<1>3. SumOver(f) \in Int
  BY <1>1, <1>2, SumByAny DEF SumOver
<1>4. SumOver(g) = SumOver(f) + (g[w] - f[w])
  BY <1>1, <1>2, SumChange DEF SumOver
<1> QED BY <1>3, <1>4

\* The shares of the workers are natural numbers.
LEMMA ShareTypes ==
    ASSUME Shape
    PROVE  Requests \in [Worker -> Nat] /\ Granted \in [Worker -> Nat]
BY DEF Requests, Granted, Shape, TypeOK, CallTypes, ByteTypes

-----------------------------------------------------------------------------
(* requested_bytes_.                                                       *)

RequestedExact == requested = SumOver(Requests)

\* What worker v has requested stays the same.
KeepsRequest(v) ==
    /\ pc'[v] \in Requesting <=> pc[v] \in Requesting
    /\ pc[v] \in Requesting => need'[v] = need[v]

\* A step that leaves every request alone leaves requested_bytes_ exact.
LEMMA RequestsSame ==
    ASSUME RequestedExact, requested' = requested, \A v \in Worker : KeepsRequest(v)
    PROVE  RequestedExact'
<1>1. Requests' = Requests
  BY DEF Requests, KeepsRequest
<1> QED BY <1>1 DEF RequestedExact, SumOver

\* Worker w enters or ends a request, and requested_bytes_ moves by it.
LEMMA RequestsMove ==
    ASSUME Shape, Shape', RequestedExact, NEW w \in Worker,
           \A v \in Worker \ {w} : KeepsRequest(v),
           requested' = requested + (Requests'[w] - Requests[w])
    PROVE  RequestedExact'
<1>1. Requests \in [Worker -> Int] /\ Requests' \in [Worker -> Int]
  <2>1. /\ \A v \in Worker : need[v] \in Int /\ need'[v] \in Int
    BY DEF Shape, TypeOK, CallTypes
  <2> QED BY <2>1 DEF Requests
<1>2. \A v \in Worker \ {w} : Requests'[v] = Requests[v]
  BY DEF Requests, KeepsRequest
<1>3. SumOver(Requests') = SumOver(Requests) + (Requests'[w] - Requests[w])
  BY <1>1, <1>2, SumOverChange
<1> QED BY <1>3 DEF RequestedExact, SumOver

\* A request of n bytes is entered.
LEMMA EnterRequested ==
    ASSUME Shape, Shape', RequestedExact, NEW w \in Worker, NEW n \in Nat, NEW b, NEW g,
           EnterRequest(w, n, b, g), pc[w] \notin Requesting
    PROVE  RequestedExact'
<1>1. \A v \in Worker \ {w} : KeepsRequest(v)
  BY DEF EnterRequest, KeepsRequest, Shape, TypeOK, CallTypes
<1>2. requested' = requested + n /\ Requests'[w] = n /\ Requests[w] = 0
  BY DEF EnterRequest, Requests, Requesting, Shape, TypeOK, CallTypes
<1>3. requested' = requested + (Requests'[w] - Requests[w])
  BY <1>2
<1> QED BY <1>1, <1>3, RequestsMove

\* An eviction wakes waiting requests and ends none.
LEMMA EvictRequested ==
    ASSUME Shape, RequestedExact, NEW b, IntEvictBlock(b)
    PROVE  RequestedExact'
<1>1. requested' = requested /\ \A v \in Worker : KeepsRequest(v)
  BY DEF IntEvictBlock, NotifyAll, KeepsRequest, Requesting, callVars, Shape, TypeOK, CallTypes
<1> QED BY <1>1, RequestsSame

\* PinBlock of an unpinned block enters a request only to read it.
LEMMA PinUnpinnedRequested ==
    ASSUME Shape, Shape', RequestedExact, NEW w \in Worker, NEW b \in Block, PinUnpinned(w, b),
           pc[w] \notin Requesting
    PROVE  RequestedExact'
<1>1. CASE PinCancelWrite(w, b) \/ PinShareRead(w, b) \/ PinInMemory(w, b)
  <2>1. requested' = requested /\ \A v \in Worker : KeepsRequest(v)
    BY <1>1 DEF PinCancelWrite, PinShareRead, PinInMemory, Return, KeepsRequest, Requesting,
                byteVars, Shape, TypeOK, CallTypes
  <2> QED BY <2>1, RequestsSame
<1>2. CASE PinFromEM(w, b)
  <2>1. EnterRequest(w, Size[b], b, "read") /\ Size[b] \in Nat
    BY <1>2, ConstantsAssumption DEF PinFromEM
  <2> QED BY <2>1, EnterRequested
<1> QED BY <1>1, <1>2 DEF PinUnpinned

\* Every step keeps requested_bytes_ exact.
LEMMA RequestedStep ==
    ASSUME Shape, RequestedExact, [Next]_vars
    PROVE  RequestedExact'
<1>0. Shape'
  BY ShapeStep
<1>1. ASSUME NEW w \in Worker, CallStep(w)
      PROVE  RequestedExact'
  <2>1. CASE AdviseEvict(w) \/ SoftEvict(w) \/ HardEvict(w)
    BY <2>1, EvictRequested DEF AdviseEvict, SoftEvict, HardEvict, IntEvictBlockLRU
  <2>2. CASE \/ AdviseReturn(w) \/ SoftDone(w) \/ HardRefuse(w) \/ HardWait(w)
             \/ WaitTimeout(w) \/ WaitReturn(w) \/ AllocateReturn(w) \/ PinIssueRead(w)
    <3>1. requested' = requested /\ \A v \in Worker : KeepsRequest(v)
      BY <2>2 DEF AdviseReturn, SoftDone, HardRefuse, HardWait, Advance, WaitTimeout,
                  WaitReturn, AllocateReturn, PinIssueRead, Return, KeepsRequest, Requesting,
                  byteVars, callVars, Shape, TypeOK, CallTypes
    <3> QED BY <3>1, RequestsSame
  <2>3. CASE GrantAllocate(w) \/ GrantRead(w) \/ GrantReserve(w)
    <3>1. \A v \in Worker \ {w} : KeepsRequest(v)
      BY <2>3 DEF GrantAllocate, GrantRead, GrantReserve, Return, KeepsRequest, callVars,
                  Shape, TypeOK, CallTypes
    <3>2. requested' = requested - need[w] /\ Requests'[w] = 0 /\ Requests[w] = need[w]
      BY <2>3 DEF GrantAllocate, GrantRead, GrantReserve, Requests, Requesting,
                  Shape, TypeOK, CallTypes
    <3>3. requested' = requested + (Requests'[w] - Requests[w])
      BY <3>2 DEF Shape, TypeOK, CallTypes, ByteTypes
    <3> QED BY <1>0, <3>1, <3>3, RequestsMove
  <2>4. CASE PinRecheck(w)
    <3>1. blk[w] \in Block /\ PinUnpinned(w, blk[w]) /\ pc[w] \notin Requesting
      BY <2>4 DEF Shape, CallShape, PinRecheck, Requesting
    <3> QED BY <1>0, <3>1, PinUnpinnedRequested
  <2> QED BY <1>1, <2>1, <2>2, <2>3, <2>4 DEF CallStep
<1>2. ASSUME Call
      PROVE  RequestedExact'
  <2>1. ASSUME NEW w \in Worker, NEW n \in Reserve, RequestInternalMemory(w, n)
        PROVE  RequestedExact'
    <3>1. EnterRequest(w, n, NoBlock, "reserve") /\ pc[w] \notin Requesting /\ n \in Nat
      BY <2>1, ConstantsAssumption DEF RequestInternalMemory, Requesting
    <3> QED BY <1>0, <3>1, EnterRequested
  <2>2. ASSUME NEW w \in Worker, NEW b \in Block, AllocateByteBlock(w, b)
        PROVE  RequestedExact'
    <3>1. EnterRequest(w, Size[b], b, "alloc") /\ pc[w] \notin Requesting /\ Size[b] \in Nat
      BY <2>2, ConstantsAssumption DEF AllocateByteBlock, Requesting
    <3> QED BY <1>0, <3>1, EnterRequested
  <2>3. ASSUME NEW w \in Worker, NEW b \in Block, PinBlock(w, b)
        PROVE  RequestedExact'
    <3>1. CASE PinPinned(w, b)
      <4>1. requested' = requested /\ \A v \in Worker : KeepsRequest(v)
        BY <3>1 DEF PinPinned, KeepsRequest, callVars
      <4> QED BY <4>1, RequestsSame
    <3>2. CASE PinUnpinned(w, b)
      BY <1>0, <2>3, <3>2, PinUnpinnedRequested DEF PinBlock, Requesting
    <3> QED BY <2>3, <3>1, <3>2 DEF PinBlock
  <2>4. CASE \/ \E w \in Worker : NewHandlerEvict(w)
             \/ \E b \in Block : EvictBlock(b)
    BY <2>4, EvictRequested DEF NewHandlerEvict, EvictBlock, IntEvictBlockLRU
  <2>5. ASSUME NEW w \in Worker, NEW n \in Reserve, AdviseFree(w, n)
        PROVE  RequestedExact'
    <3>1. requested' = requested /\ \A v \in Worker : KeepsRequest(v)
      BY <2>5 DEF AdviseFree, KeepsRequest, Requesting, byteVars, Shape, TypeOK, CallTypes
    <3> QED BY <3>1, RequestsSame
  <2>6. ASSUME NEW w \in Worker, NEW b \in Block, IncBlockPinCount(b, w) \/ DecBlockPinCount(b, w)
        PROVE  RequestedExact'
    <3>1. requested' = requested /\ \A v \in Worker : KeepsRequest(v)
      BY <2>6 DEF IncBlockPinCount, DecBlockPinCount, KeepsRequest, byteVars, callVars
    <3> QED BY <3>1, RequestsSame
  <2>7. ASSUME NEW w \in Worker, ReleaseInternalMemory(w)
        PROVE  RequestedExact'
    <3>1. requested' = requested /\ \A v \in Worker : KeepsRequest(v)
      BY <2>7 DEF ReleaseInternalMemory, NotifyAll, KeepsRequest, Requesting, callVars
    <3> QED BY <3>1, RequestsSame
  <2>8. ASSUME NEW b \in Block, MapExternalBlock(b) \/ DropHandle(b)
        PROVE  RequestedExact'
    <3>1. requested' = requested /\ \A v \in Worker : KeepsRequest(v)
      BY <2>8 DEF MapExternalBlock, DropHandle, KeepsRequest, byteVars, callVars
    <3> QED BY <3>1, RequestsSame
  <2>9. CASE BeginDestructor
    <3>1. requested' = requested /\ \A v \in Worker : KeepsRequest(v)
      BY <2>9 DEF BeginDestructor, KeepsRequest, byteVars, callVars
    <3> QED BY <3>1, RequestsSame
  <2> QED BY <1>2, <2>1, <2>2, <2>3, <2>4, <2>5, <2>6, <2>7, <2>8, <2>9 DEF Call
<1>3. ASSUME NEW b \in Block, Background(b)
      PROVE  RequestedExact'
  <2>1. requested' = requested /\ \A v \in Worker : KeepsRequest(v)
    BY <1>3 DEF Background, OnWriteComplete, OnWriteCancelled, OnReadComplete, DestroyBlock,
                DestroyContinue, ReleaseBlock, NotifyAll, WriteEnded, KeepsRequest, Requesting,
                byteVars, callVars
  <2> QED BY <2>1, RequestsSame
<1>4. CASE Destructor \/ UNCHANGED vars
  <2>1. requested' = requested /\ \A v \in Worker : KeepsRequest(v)
    BY <1>4, DestructorFrame DEF vars, KeepsRequest, byteVars, callVars
  <2> QED BY <2>1, RequestsSame
<1> QED BY <1>1, <1>2, <1>3, <1>4 DEF Next, Ended

-----------------------------------------------------------------------------
(* total_ram_bytes_.                                                       *)

RamExact == ram = SizeOf(inMem) + SumOver(Granted)

\* What worker v holds or was granted stays the same.
KeepsGrant(v) ==
    /\ held'[v] = held[v]
    /\ pc'[v] \in {"alloc", "load"} <=> pc[v] \in {"alloc", "load"}
    /\ pc[v] \in {"alloc", "load"} => need'[v] = need[v]

\* Grants stay, and a block leaves memory together with its bytes, or none does.
LEMMA RamSame ==
    ASSUME RamExact, \A v \in Worker : KeepsGrant(v), ram \in Int, Shape,
           \/ inMem' = inMem /\ ram' = ram
           \/ \E b \in inMem : inMem' = inMem \ {b} /\ ram' = ram - Size[b]
    PROVE  RamExact'
<1>1. Granted' = Granted
  BY DEF Granted, KeepsGrant
<1>2. Granted \in [Worker -> Int]
  BY DEF Granted, Shape, TypeOK, CallTypes, ByteTypes
<1>3. SumOver(Granted) \in Int
  <2>1. \A w \in Worker : SumOver(Granted) \in Int
    BY <1>2, SumOverChange
  <2>2. CASE Worker = {}
    BY <2>2, SumEmpty DEF SumOver
  <2> QED BY <2>1, <2>2
<1>4. SumOver(Granted)' = SumOver(Granted)
  BY <1>1 DEF SumOver
<1>5. inMem \in SUBSET Block /\ \A b \in Block : Size[b] \in Int
  BY ConstantsAssumption DEF Shape, TypeOK, BlockTypes
<1>6. CASE inMem' = inMem /\ ram' = ram
  BY <1>4, <1>6 DEF RamExact, SizeOf
<1>7. ASSUME NEW b \in inMem, inMem' = inMem \ {b}, ram' = ram - Size[b]
      PROVE  RamExact'
  <2>1. SizeOf(inMem \ {b}) = SizeOf(inMem) - Size[b] /\ SizeOf(inMem) \in Nat /\ Size[b] \in Int
    BY <1>5, SizeOfChange
  <2>2. SizeOf(inMem)' = SizeOf(inMem) - Size[b]
    BY <1>7, <2>1 DEF SizeOf
  <2> QED BY <1>3, <1>4, <1>7, <2>1, <2>2 DEF RamExact
<1> QED BY <1>6, <1>7

\* Worker w is granted memory, gives it back, or turns it into the block b.
LEMMA RamMove ==
    ASSUME Shape, Shape', RamExact, NEW w \in Worker,
           \A v \in Worker \ {w} : KeepsGrant(v),
           \/ inMem' = inMem /\ ram' = ram + (Granted'[w] - Granted[w])
           \/ \E b \in Block \ inMem : /\ inMem' = inMem \cup {b} /\ ram' = ram
                                       /\ Granted[w] = Granted'[w] + Size[b]
    PROVE  RamExact'
<1>1. /\ \A v \in Worker : Granted[v] \in Int /\ Granted'[v] \in Int
      /\ Granted \in [Worker -> Int] /\ Granted' \in [Worker -> Int]
  <2>1. \A v \in Worker : need[v] \in Int /\ need'[v] \in Int /\ held[v] \in Int /\ held'[v] \in Int
    BY DEF Shape, TypeOK, CallTypes, ByteTypes
  <2> QED BY <2>1 DEF Granted
<1>2. \A v \in Worker \ {w} : Granted'[v] = Granted[v]
  BY DEF Granted, KeepsGrant
<1>3. SumOver(Granted') = SumOver(Granted) + (Granted'[w] - Granted[w]) /\ SumOver(Granted) \in Int
  BY <1>1, <1>2, SumOverChange
<1>4. SumOver(Granted)' = SumOver(Granted')
  BY DEF SumOver
<1>5. inMem \in SUBSET Block /\ SizeOf(inMem) \in Nat
  BY SizeOfChange DEF Shape, TypeOK, BlockTypes
<1>6. CASE inMem' = inMem /\ ram' = ram + (Granted'[w] - Granted[w])
  <2>1. SizeOf(inMem)' = SizeOf(inMem)
    BY <1>6 DEF SizeOf
  <2> QED BY <1>1, <1>3, <1>4, <1>5, <1>6, <2>1 DEF RamExact
<1>7. ASSUME NEW b \in Block \ inMem, inMem' = inMem \cup {b}, ram' = ram,
             Granted[w] = Granted'[w] + Size[b]
      PROVE  RamExact'
  <2>1. SizeOf(inMem)' = SizeOf(inMem) + Size[b] /\ Size[b] \in Int
    BY <1>5, <1>7, SizeOfChange, ConstantsAssumption DEF SizeOf
  <2> QED BY <1>1, <1>3, <1>4, <1>5, <1>7, <2>1 DEF RamExact
<1> QED BY <1>6, <1>7

\* An external block that is evicted leaves memory at once, any other stays in it.
LEMMA EvictRam ==
    ASSUME Kept, RamExact, NEW b \in LruSet, IntEvictBlock(b)
    PROVE  RamExact'
<1>1. \A v \in Worker : KeepsGrant(v)
  BY DEF IntEvictBlock, NotifyAll, KeepsGrant, callVars, Kept, Shape, TypeOK, CallTypes
<1>2. b \in inMem
  BY DEF Kept, Places, Place, LruSet, Listed, Shape, TypeOK, BlockTypes
<1>3. \/ inMem' = inMem /\ ram' = ram
      \/ inMem' = inMem \ {b} /\ ram' = ram - Size[b]
  BY DEF IntEvictBlock
<1> QED BY <1>1, <1>2, <1>3, RamSame DEF Kept, Shape, TypeOK, ByteTypes

\* The same for the head of the list.
LEMMA EvictLRURam ==
    ASSUME Kept, RamExact, IntEvictBlockLRU
    PROVE  RamExact'
<1>1. Head(lru) \in LruSet
  BY LruHead DEF LruSet, IntEvictBlockLRU, Kept, Shape, TypeOK, BlockTypes
<1> QED BY <1>1, EvictRam DEF IntEvictBlockLRU

\* PinBlock of an unpinned block takes no memory before its request is granted.
LEMMA PinUnpinnedRam ==
    ASSUME Shape, RamExact, NEW w \in Worker, NEW b \in Block, PinUnpinned(w, b),
           pc[w] \in {"idle", "recheck"}
    PROVE  RamExact'
<1>1. inMem' = inMem /\ ram' = ram /\ \A v \in Worker : KeepsGrant(v)
  BY DEF PinUnpinned, PinCancelWrite, PinShareRead, PinInMemory, PinFromEM, EnterRequest, Return,
         KeepsGrant, byteVars, blockVars, Shape, TypeOK, CallTypes
<1> QED BY <1>1, RamSame DEF Shape, TypeOK, ByteTypes

\* DestroyBlock gives back the memory of a block that has some.
LEMMA ReleaseRam ==
    ASSUME Shape, RamExact, NEW b \in Block, ReleaseBlock(b)
    PROVE  RamExact'
<1>1. \A v \in Worker : KeepsGrant(v)
  BY DEF ReleaseBlock, NotifyAll, KeepsGrant, callVars, Shape, TypeOK, CallTypes
<1>2. CASE b \in inMem
  <2>1. inMem' = inMem \ {b} /\ ram' = ram - Size[b]
    BY <1>2 DEF ReleaseBlock
  <2> QED BY <1>1, <1>2, <2>1, RamSame DEF Shape, TypeOK, ByteTypes
<1>3. CASE b \notin inMem
  <2>1. inMem' = inMem /\ ram' = ram
    BY <1>3 DEF ReleaseBlock
  <2> QED BY <1>1, <2>1, RamSame DEF Shape, TypeOK, ByteTypes
<1> QED BY <1>2, <1>3

\* Every step keeps total_ram_bytes_ exact.
LEMMA RamExactStep ==
    ASSUME Kept, RamExact, [Next]_vars
    PROVE  RamExact'
<1>0. Shape /\ Shape' /\ ram \in Int
  BY ShapeStep DEF Kept, Shape, TypeOK, ByteTypes
<1>1. ASSUME NEW w \in Worker, CallStep(w)
      PROVE  RamExact'
  <2>1. CASE AdviseEvict(w) \/ SoftEvict(w) \/ HardEvict(w)
    BY <2>1, EvictLRURam DEF AdviseEvict, SoftEvict, HardEvict
  <2>2. CASE \/ AdviseReturn(w) \/ SoftDone(w) \/ HardRefuse(w) \/ HardWait(w)
             \/ WaitTimeout(w) \/ WaitReturn(w)
    <3>1. inMem' = inMem /\ ram' = ram /\ \A v \in Worker : KeepsGrant(v)
      BY <1>0, <2>2 DEF AdviseReturn, SoftDone, HardRefuse, HardWait, Advance, WaitTimeout,
                  WaitReturn, KeepsGrant, blockVars, byteVars, callVars, Shape, TypeOK, CallTypes
    <3> QED BY <1>0, <3>1, RamSame
  <2>3. CASE GrantAllocate(w) \/ GrantRead(w) \/ GrantReserve(w)
    <3>1. \A v \in Worker \ {w} : KeepsGrant(v)
      BY <1>0, <2>3 DEF GrantAllocate, GrantRead, GrantReserve, Return, KeepsGrant, callVars,
                  Shape, TypeOK, CallTypes, ByteTypes
    <3>2. inMem' = inMem /\ ram' = ram + need[w]
      BY <2>3 DEF GrantAllocate, GrantRead, GrantReserve, blockVars
    <3>3. goal[w] = "reserve" /\ pc[w] = "hard" => held[w] = 0
      BY DEF Kept, CallPlaces, CallPlace, Requesting
    <3>4. Granted'[w] = Granted[w] + need[w]
      BY <1>0, <2>3, <3>3 DEF GrantAllocate, GrantRead, GrantReserve, Granted, callVars,
                  Shape, TypeOK, CallTypes, ByteTypes
    <3>5. Granted[w] \in Int /\ need[w] \in Int
      BY <1>0 DEF Granted, Shape, TypeOK, CallTypes, ByteTypes
    <3>6. ram' = ram + (Granted'[w] - Granted[w])
      BY <3>2, <3>4, <3>5
    <3> QED BY <1>0, <3>1, <3>2, <3>6, RamMove
  <2>4. CASE AllocateReturn(w) \/ PinIssueRead(w)
    <3>1. \A v \in Worker \ {w} : KeepsGrant(v)
      BY <1>0, <2>4 DEF AllocateReturn, PinIssueRead, Return, KeepsGrant, Shape, TypeOK, CallTypes
    <3>2. blk[w] \in Block \ inMem /\ need[w] = Size[blk[w]]
      BY <1>0, <2>4 DEF AllocateReturn, PinIssueRead, Kept, CallPlaces, CallPlace, Places, Place,
                        Shape, TypeOK, BlockTypes, CallShape
    <3>3. inMem' = inMem \cup {blk[w]} /\ ram' = ram
      BY <2>4 DEF AllocateReturn, PinIssueRead
    <3>4. Granted[w] = Granted'[w] + need[w]
      BY <1>0, <2>4 DEF AllocateReturn, PinIssueRead, Granted, Shape, TypeOK, CallTypes, ByteTypes
    <3> QED BY <1>0, <3>1, <3>2, <3>3, <3>4, RamMove
  <2>5. CASE PinRecheck(w)
    <3>1. blk[w] \in Block /\ PinUnpinned(w, blk[w]) /\ pc[w] \in {"idle", "recheck"}
      BY <1>0, <2>5 DEF Shape, CallShape, PinRecheck
    <3> QED BY <1>0, <3>1, PinUnpinnedRam
  <2> QED BY <1>1, <2>1, <2>2, <2>3, <2>4, <2>5 DEF CallStep
<1>2. ASSUME Call
      PROVE  RamExact'
  <2>1. ASSUME NEW w \in Worker, ReleaseInternalMemory(w)
        PROVE  RamExact'
    <3>1. \A v \in Worker \ {w} : KeepsGrant(v)
      BY <1>0, <2>1 DEF ReleaseInternalMemory, NotifyAll, KeepsGrant, callVars,
                        Shape, TypeOK, CallTypes, ByteTypes
    <3>2. inMem' = inMem /\ ram' = ram - held[w] /\ Granted[w] = held[w] /\ Granted'[w] = 0
      BY <1>0, <2>1 DEF ReleaseInternalMemory, NotifyAll, Granted, blockVars,
                        Shape, TypeOK, CallTypes, ByteTypes
    <3>3. ram' = ram + (Granted'[w] - Granted[w])
      BY <1>0, <3>2 DEF Shape, TypeOK, ByteTypes
    <3> QED BY <1>0, <3>1, <3>2, <3>3, RamMove
  <2>2. CASE \/ \E w \in Worker : NewHandlerEvict(w)
             \/ \E b \in Block : EvictBlock(b)
    BY <2>2, EvictRam, EvictLRURam, EvictListed DEF NewHandlerEvict
  <2>3. ASSUME NEW w \in Worker, NEW b \in Block, PinBlock(w, b)
        PROVE  RamExact'
    <3>1. CASE PinPinned(w, b)
      <4>1. inMem' = inMem /\ ram' = ram /\ \A v \in Worker : KeepsGrant(v)
        BY <3>1 DEF PinPinned, KeepsGrant, callVars
      <4> QED BY <1>0, <4>1, RamSame
    <3>2. CASE PinUnpinned(w, b)
      BY <1>0, <2>3, <3>2, PinUnpinnedRam DEF PinBlock
    <3> QED BY <2>3, <3>1, <3>2 DEF PinBlock
  <2>4. ASSUME NEW w \in Worker,
               \/ \E n \in Reserve : AdviseFree(w, n) \/ RequestInternalMemory(w, n)
               \/ \E b \in Block : AllocateByteBlock(w, b)
        PROVE  RamExact'
    <3>1. inMem' = inMem /\ ram' = ram /\ \A v \in Worker : KeepsGrant(v)
      BY <1>0, <2>4 DEF AdviseFree, RequestInternalMemory, AllocateByteBlock, EnterRequest,
                  KeepsGrant, blockVars, byteVars, Shape, TypeOK, CallTypes
    <3> QED BY <1>0, <3>1, RamSame
  <2>5. ASSUME NEW w \in Worker, NEW b \in Block, IncBlockPinCount(b, w) \/ DecBlockPinCount(b, w)
        PROVE  RamExact'
    <3>1. inMem' = inMem /\ ram' = ram /\ \A v \in Worker : KeepsGrant(v)
      BY <2>5 DEF IncBlockPinCount, DecBlockPinCount, KeepsGrant, byteVars, callVars
    <3> QED BY <1>0, <3>1, RamSame
  <2>6. ASSUME NEW b \in Block, MapExternalBlock(b) \/ DropHandle(b)
        PROVE  RamExact'
    <3>1. inMem' = inMem /\ ram' = ram /\ \A v \in Worker : KeepsGrant(v)
      BY <2>6 DEF MapExternalBlock, DropHandle, KeepsGrant, byteVars, callVars
    <3> QED BY <1>0, <3>1, RamSame
  <2>7. CASE BeginDestructor
    <3>1. inMem' = inMem /\ ram' = ram /\ \A v \in Worker : KeepsGrant(v)
      BY <2>7 DEF BeginDestructor, KeepsGrant, blockVars, byteVars, callVars
    <3> QED BY <1>0, <3>1, RamSame
  <2> QED BY <1>2, <2>1, <2>2, <2>3, <2>4, <2>5, <2>6, <2>7 DEF Call
<1>3. ASSUME NEW b \in Block, Background(b)
      PROVE  RamExact'
  <2>1. CASE OnWriteComplete(b)
    <3>1. b \in inMem
      BY <2>1 DEF OnWriteComplete, Kept, Places, Place
    <3>2. inMem' = inMem \ {b} /\ ram' = ram - Size[b] /\ \A v \in Worker : KeepsGrant(v)
      BY <1>0, <2>1 DEF OnWriteComplete, NotifyAll, WriteEnded, KeepsGrant, callVars,
                        Shape, TypeOK, CallTypes
    <3> QED BY <1>0, <3>1, <3>2, RamSame
  <2>2. CASE OnWriteCancelled(b) \/ \E w \in Worker : OnReadComplete(b, w)
    <3>1. inMem' = inMem /\ ram' = ram /\ \A v \in Worker : KeepsGrant(v)
      BY <1>0, <2>2 DEF OnWriteCancelled, OnReadComplete, WriteEnded, KeepsGrant, callVars,
                        Shape, TypeOK, CallTypes
    <3> QED BY <1>0, <3>1, RamSame
  <2>3. CASE DestroyBlock(b) /\ b \in writing
    <3>1. inMem' = inMem /\ ram' = ram /\ \A v \in Worker : KeepsGrant(v)
      BY <2>3 DEF DestroyBlock, KeepsGrant, byteVars, callVars
    <3> QED BY <1>0, <3>1, RamSame
  <2>4. CASE ReleaseBlock(b)
    BY <1>0, <2>4, ReleaseRam
  <2> QED BY <1>3, <2>1, <2>2, <2>3, <2>4 DEF Background, DestroyBlock, DestroyContinue
<1>4. CASE Destructor \/ UNCHANGED vars
  <2>1. inMem' = inMem /\ ram' = ram /\ \A v \in Worker : KeepsGrant(v)
    BY <1>4, DestructorFrame DEF vars, KeepsGrant, blockVars, byteVars, callVars
  <2> QED BY <1>0, <2>1, RamSame
<1> QED BY <1>1, <1>2, <1>3, <1>4 DEF Next, Ended

-----------------------------------------------------------------------------
(* pinned_bytes_ of each worker.                                           *)

Loading(w) == IF pc[w] = "load" THEN need[w] ELSE 0

PinnedExact(w) == pinnedBytes[w] = SizeOf(ChargedTo(w)) + Loading(w)

\* A step moves the account of w by what it adds to or takes from the blocks
\* charged to w and the load of w.
LEMMA ChargeMove ==
    ASSUME Shape, NEW w \in Worker, PinnedExact(w),
           \/ /\ ChargedTo(w)' = ChargedTo(w)
              /\ pinnedBytes'[w] = pinnedBytes[w] + (Loading(w)' - Loading(w))
           \/ \E b \in Block \ ChargedTo(w) :
                 /\ ChargedTo(w)' = ChargedTo(w) \cup {b}
                 /\ pinnedBytes'[w] = pinnedBytes[w] + Size[b] + (Loading(w)' - Loading(w))
           \/ \E b \in ChargedTo(w) :
                 /\ ChargedTo(w)' = ChargedTo(w) \ {b}
                 /\ pinnedBytes'[w] = pinnedBytes[w] - Size[b] + (Loading(w)' - Loading(w)),
           Loading(w)' \in Int
    PROVE  PinnedExact(w)'
<1>1. Loading(w) \in Int
  BY DEF Loading, Shape, TypeOK, CallTypes
<1>2. ChargedTo(w) \in SUBSET Block
  BY DEF ChargedTo
<1>3. SizeOf(ChargedTo(w)) \in Nat /\ \A b \in Block : Size[b] \in Int
  BY <1>2, SizeOfChange, ConstantsAssumption
<1>4. SizeOf(ChargedTo(w))' = SizeOf(ChargedTo(w)')
  BY DEF SizeOf
<1>5. CASE /\ ChargedTo(w)' = ChargedTo(w)
           /\ pinnedBytes'[w] = pinnedBytes[w] + (Loading(w)' - Loading(w))
  BY <1>1, <1>3, <1>4, <1>5 DEF PinnedExact
<1>6. ASSUME NEW b \in Block \ ChargedTo(w), ChargedTo(w)' = ChargedTo(w) \cup {b},
             pinnedBytes'[w] = pinnedBytes[w] + Size[b] + (Loading(w)' - Loading(w))
      PROVE  PinnedExact(w)'
  <2>1. SizeOf(ChargedTo(w)') = SizeOf(ChargedTo(w)) + Size[b]
    BY <1>2, <1>6, SizeOfChange
  <2> QED BY <1>1, <1>3, <1>4, <1>6, <2>1 DEF PinnedExact
<1>7. ASSUME NEW b \in ChargedTo(w), ChargedTo(w)' = ChargedTo(w) \ {b},
             pinnedBytes'[w] = pinnedBytes[w] - Size[b] + (Loading(w)' - Loading(w))
      PROVE  PinnedExact(w)'
  <2>1. SizeOf(ChargedTo(w)') = SizeOf(ChargedTo(w)) - Size[b] /\ Size[b] \in Int
    BY <1>2, <1>3, <1>7, SizeOfChange
  <2> QED BY <1>1, <1>3, <1>4, <1>7, <2>1 DEF PinnedExact
<1> QED BY <1>5, <1>6, <1>7

\* A step without pins and loads leaves the account of w exact.
LEMMA ChargeSame ==
    ASSUME Shape, NEW w \in Worker, PinnedExact(w),
           pins' = pins, reads' = reads, pinnedBytes'[w] = pinnedBytes[w],
           pc'[w] = "load" <=> pc[w] = "load", pc[w] = "load" => need'[w] = need[w]
    PROVE  PinnedExact(w)'
<1>1. ChargedTo(w)' = ChargedTo(w)
  BY DEF ChargedTo
<1>2. Loading(w)' = Loading(w) /\ Loading(w) \in Int
  BY DEF Loading, Shape, TypeOK, CallTypes
<1>3. pinnedBytes'[w] = pinnedBytes[w] + (Loading(w)' - Loading(w))
  BY <1>2 DEF Shape, TypeOK, ByteTypes
<1> QED BY <1>1, <1>2, <1>3, ChargeMove

\* A pin of worker w on block b, where w has not been charged for b.
LEMMA ChargeFirst ==
    ASSUME Kept, NEW v \in Worker, NEW w \in Worker, NEW b \in Block, PinnedExact(v),
           IntIncBlockPinCount(b, w), pins[b][w] = 0, b \notin reading, reads' = reads,
           pinnedBytes' = [pinnedBytes EXCEPT ![w] = @ + Size[b]],
           pc[w] # "load", pc'[w] # "load", \A u \in Worker \ {w} : pc'[u] = pc[u] /\ need'[u] = need[u]
    PROVE  PinnedExact(v)'
<1>0. Shape
  BY DEF Kept
<1>1. Loading(v)' = Loading(v) /\ Loading(v) \in Int /\ Loading(v)' \in Int
  BY <1>0 DEF Loading, Shape, TypeOK, CallTypes
<1>2. \A u \in Worker : <<b, u>> \notin reads
  BY DEF Kept, Places, Place, ReadSet
<1>3. Size[b] \in Int /\ pinnedBytes[v] \in Int
  BY <1>0, ConstantsAssumption DEF Shape, TypeOK, ByteTypes
<1>4. CASE v = w
  <2>1. b \in Block \ ChargedTo(v)
    BY <1>2, <1>4 DEF ChargedTo
  <2>2. ChargedTo(v)' = ChargedTo(v) \cup {b}
    BY <1>0, <1>4 DEF ChargedTo, IntIncBlockPinCount, Shape, TypeOK, BlockTypes
  <2>3. pinnedBytes'[v] = pinnedBytes[v] + Size[b] + (Loading(v)' - Loading(v))
    BY <1>0, <1>1, <1>3, <1>4 DEF Shape, TypeOK, ByteTypes
  <2> QED BY <1>0, <1>1, <2>1, <2>2, <2>3, ChargeMove
<1>5. CASE v # w
  <2>1. ChargedTo(v)' = ChargedTo(v)
    BY <1>0, <1>5 DEF ChargedTo, IntIncBlockPinCount, Shape, TypeOK, BlockTypes
  <2>2. pinnedBytes'[v] = pinnedBytes[v] + (Loading(v)' - Loading(v))
    BY <1>0, <1>1, <1>3, <1>5 DEF Shape, TypeOK, ByteTypes
  <2> QED BY <1>0, <1>1, <2>1, <2>2, ChargeMove
<1> QED BY <1>4, <1>5

\* A further pin of worker w.
LEMMA ChargeAgain ==
    ASSUME Shape, NEW v \in Worker, NEW w \in Worker, NEW b \in Block, PinnedExact(v),
           IntIncBlockPinCount(b, w), pins[b][w] > 0, reads' = reads,
           pinnedBytes' = pinnedBytes, pc' = pc, need' = need
    PROVE  PinnedExact(v)'
<1>1. Loading(v)' = Loading(v) /\ Loading(v) \in Int /\ Loading(v)' \in Int
  BY DEF Loading, Shape, TypeOK, CallTypes
<1>2. ChargedTo(v)' = ChargedTo(v)
  BY DEF ChargedTo, IntIncBlockPinCount, Shape, TypeOK, BlockTypes
<1>3. pinnedBytes'[v] = pinnedBytes[v] + (Loading(v)' - Loading(v))
  BY <1>1 DEF Shape, TypeOK, ByteTypes
<1> QED BY <1>1, <1>2, <1>3, ChargeMove

\* PinBlock of an unpinned block charges it to the caller when it is in memory.
LEMMA PinUnpinnedCharge ==
    ASSUME Kept, NEW v \in Worker, NEW w \in Worker, NEW b \in Block \ PinnedSet, PinnedExact(v),
           PinUnpinned(w, b), pc[w] \in {"idle", "recheck"}
    PROVE  PinnedExact(v)'
<1>0. Shape
  BY DEF Kept
<1>1. CASE PinCancelWrite(w, b) \/ PinShareRead(w, b) \/ PinFromEM(w, b)
  <2>1. /\ pins' = pins /\ reads' = reads /\ pinnedBytes'[v] = pinnedBytes[v]
        /\ pc'[v] = "load" <=> pc[v] = "load"
        /\ pc[v] = "load" => need'[v] = need[v]
    BY <1>0, <1>1 DEF PinCancelWrite, PinShareRead, PinFromEM, EnterRequest, Return, blockVars,
                byteVars, Shape, TypeOK, CallTypes
  <2> QED BY <1>0, <2>1, ChargeSame
<1>2. CASE PinInMemory(w, b)
  <2>1. pins[b][w] = 0 /\ b \notin reading
    BY <1>0, <1>2 DEF PinInMemory, PinnedSet, Pinned, Shape, TypeOK, BlockTypes
  <2>2. /\ IntIncBlockPinCount(b, w) /\ reads' = reads
        /\ pinnedBytes' = [pinnedBytes EXCEPT ![w] = @ + Size[b]]
        /\ pc[w] # "load" /\ pc'[w] # "load"
        /\ \A u \in Worker \ {w} : pc'[u] = pc[u] /\ need'[u] = need[u]
    BY <1>0, <1>2 DEF PinInMemory, Return, Shape, TypeOK, CallTypes
  <2> QED BY <2>1, <2>2, ChargeFirst
<1> QED BY <1>1, <1>2 DEF PinUnpinned

\* An eviction charges nobody.
LEMMA EvictCharge ==
    ASSUME Shape, NEW v \in Worker, PinnedExact(v), NEW b, IntEvictBlock(b)
    PROVE  PinnedExact(v)'
<1>1. /\ pins' = pins /\ reads' = reads /\ pinnedBytes'[v] = pinnedBytes[v]
      /\ pc'[v] = "load" <=> pc[v] = "load"
      /\ pc[v] = "load" => need'[v] = need[v]
  BY DEF IntEvictBlock, NotifyAll, callVars, Shape, TypeOK, CallTypes
<1> QED BY <1>1, ChargeSame

\* Every step keeps pinned_bytes_ of every worker exact.
LEMMA PinnedStep ==
    ASSUME Kept, NEW v \in Worker, PinnedExact(v), [Next]_vars
    PROVE  PinnedExact(v)'
<1>0. Shape
  BY DEF Kept
<1> DEFINE Unmoved == /\ pins' = pins /\ reads' = reads /\ pinnedBytes'[v] = pinnedBytes[v]
                      /\ pc'[v] = "load" <=> pc[v] = "load"
                      /\ pc[v] = "load" => need'[v] = need[v]
<1>1. ASSUME NEW w \in Worker, CallStep(w)
      PROVE  PinnedExact(v)'
  <2>1. CASE AdviseEvict(w) \/ SoftEvict(w) \/ HardEvict(w)
    BY <1>0, <2>1, EvictCharge DEF AdviseEvict, SoftEvict, HardEvict, IntEvictBlockLRU
  <2>2. CASE \/ AdviseReturn(w) \/ SoftDone(w) \/ HardRefuse(w) \/ HardWait(w)
             \/ WaitTimeout(w) \/ WaitReturn(w) \/ GrantAllocate(w) \/ GrantReserve(w)
    <3>1. Unmoved
      BY <1>0, <2>2 DEF AdviseReturn, SoftDone, HardRefuse, HardWait, Advance, WaitTimeout,
                  WaitReturn, GrantAllocate, GrantReserve, Return, blockVars, byteVars, callVars,
                  Shape, TypeOK, CallTypes
    <3> QED BY <1>0, <3>1, ChargeSame
  <2>3. CASE GrantRead(w)
    <3>1. ChargedTo(v)' = ChargedTo(v)
      BY <2>3 DEF GrantRead, ChargedTo
    <3>2. need[v] \in Int /\ pinnedBytes[v] \in Int
      BY <1>0 DEF Shape, TypeOK, CallTypes, ByteTypes
    <3>3. CASE v = w
      <4>1. Loading(v) = 0 /\ Loading(v)' = need[v] /\ pinnedBytes'[v] = pinnedBytes[v] + need[v]
        BY <1>0, <2>3, <3>3 DEF GrantRead, Loading, callVars, Shape, TypeOK, CallTypes, ByteTypes
      <4>2. pinnedBytes'[v] = pinnedBytes[v] + (Loading(v)' - Loading(v))
        BY <3>2, <4>1
      <4> QED BY <1>0, <3>1, <3>2, <4>1, <4>2, ChargeMove
    <3>4. CASE v # w
      <4>1. Unmoved
        BY <1>0, <2>3, <3>4 DEF GrantRead, callVars, Shape, TypeOK, CallTypes, ByteTypes
      <4> QED BY <1>0, <4>1, ChargeSame
    <3> QED BY <3>3, <3>4
  <2>4. CASE AllocateReturn(w)
    <3>1. blk[w] \in Block /\ need[w] = Size[blk[w]] /\ blk[w] \notin exist
      BY <2>4 DEF AllocateReturn, Kept, CallPlaces, CallPlace
    <3>2. blk[w] \notin PinnedSet /\ blk[w] \notin reading
      BY <3>1 DEF Kept, Places, Place
    <3>3. pins[blk[w]][w] = 0
      BY <1>0, <3>1, <3>2 DEF PinnedSet, Pinned, Shape, TypeOK, BlockTypes
    <3>4. IntIncBlockPinCount(blk[w], w)
      BY <1>0, <2>4, <3>1, <3>3 DEF AllocateReturn, IntIncBlockPinCount, Shape, TypeOK, BlockTypes
    <3>5. /\ reads' = reads /\ pinnedBytes' = [pinnedBytes EXCEPT ![w] = @ + Size[blk[w]]]
          /\ pc[w] # "load" /\ pc'[w] # "load"
          /\ \A u \in Worker \ {w} : pc'[u] = pc[u] /\ need'[u] = need[u]
      BY <1>0, <2>4, <3>1 DEF AllocateReturn, Return, Shape, TypeOK, CallTypes
    <3> QED BY <3>1, <3>2, <3>3, <3>4, <3>5, ChargeFirst
  <2>5. CASE PinIssueRead(w)
    <3>1. blk[w] \in reading \ inMem /\ blk[w] \in Block /\ need[w] = Size[blk[w]]
      BY <1>0, <2>5 DEF PinIssueRead, Kept, CallPlaces, CallPlace, Shape, CallShape
    <3>2. blk[w] \notin PinnedSet \cup ReadSet
      BY <3>1 DEF Kept, Places, Place
    <3>3. pins' = pins /\ reads' = reads \cup {<<blk[w], w>>} /\ pinnedBytes' = pinnedBytes
      BY <2>5 DEF PinIssueRead
    <3>4. CASE v = w
      <4>1. blk[w] \in Block \ ChargedTo(v) /\ ChargedTo(v)' = ChargedTo(v) \cup {blk[w]}
        BY <3>1, <3>2, <3>3, <3>4 DEF ChargedTo, PinnedSet, Pinned, ReadSet
      <4>2. Loading(v) = Size[blk[w]] /\ Loading(v)' = 0
        BY <1>0, <2>5, <3>1, <3>4 DEF PinIssueRead, Loading, Return, Shape, TypeOK, CallTypes
      <4>3. pinnedBytes'[v] = pinnedBytes[v] + Size[blk[w]] + (Loading(v)' - Loading(v))
        BY <1>0, <3>1, <3>3, <4>2, ConstantsAssumption DEF Shape, TypeOK, ByteTypes
      <4> QED BY <1>0, <4>1, <4>2, <4>3, ChargeMove
    <3>5. CASE v # w
      <4>1. ChargedTo(v)' = ChargedTo(v)
        BY <3>3, <3>5 DEF ChargedTo
      <4>2. Loading(v)' = Loading(v) /\ Loading(v) \in Int
        BY <1>0, <2>5, <3>5 DEF PinIssueRead, Loading, Return, Shape, TypeOK, CallTypes
      <4>3. pinnedBytes'[v] = pinnedBytes[v] + (Loading(v)' - Loading(v))
        BY <1>0, <3>3, <4>2 DEF Shape, TypeOK, ByteTypes
      <4> QED BY <1>0, <4>1, <4>2, <4>3, ChargeMove
    <3> QED BY <3>4, <3>5
  <2>6. CASE PinRecheck(w)
    <3>1. blk[w] \in Block \ PinnedSet /\ PinUnpinned(w, blk[w]) /\ pc[w] \in {"idle", "recheck"}
      BY <1>0, <2>6 DEF Shape, CallShape, PinRecheck, Kept, CallPlaces, CallPlace
    <3> QED BY <3>1, PinUnpinnedCharge
  <2> QED BY <1>1, <2>1, <2>2, <2>3, <2>4, <2>5, <2>6 DEF CallStep
<1>2. ASSUME Call
      PROVE  PinnedExact(v)'
  <2>1. CASE \/ \E w \in Worker : NewHandlerEvict(w)
             \/ \E b \in Block : EvictBlock(b)
    BY <1>0, <2>1, EvictCharge DEF NewHandlerEvict, EvictBlock, IntEvictBlockLRU
  <2>2. ASSUME NEW w \in Worker, NEW b \in Block, PinBlock(w, b)
        PROVE  PinnedExact(v)'
    <3>1. CASE Pinned(b)
      <4>1. PinPinned(w, b) /\ b \notin reading /\ pins[b][w] \in Nat
        BY <1>0, <2>2, <3>1 DEF PinBlock, Kept, Places, Place, PinnedSet, Shape, TypeOK, BlockTypes
      <4>2. CASE pins[b][w] > 0
        <5>1. /\ IntIncBlockPinCount(b, w) /\ reads' = reads /\ pc' = pc /\ need' = need
              /\ pinnedBytes' = pinnedBytes
          BY <1>0, <4>1, <4>2 DEF PinPinned, callVars, Shape, TypeOK, ByteTypes
        <5> QED BY <1>0, <4>2, <5>1, ChargeAgain
      <4>3. CASE pins[b][w] = 0
        <5>1. /\ IntIncBlockPinCount(b, w) /\ reads' = reads /\ pc' = pc /\ need' = need
              /\ pinnedBytes' = [pinnedBytes EXCEPT ![w] = @ + Size[b]]
              /\ pc[w] # "load"
          BY <1>0, <2>2, <4>1, <4>3 DEF PinBlock, PinPinned, callVars
        <5> QED BY <4>1, <4>3, <5>1, ChargeFirst
      <4> QED BY <4>1, <4>2, <4>3
    <3>2. CASE ~Pinned(b)
      BY <2>2, <3>2, PinUnpinnedCharge DEF PinBlock, PinnedSet
    <3> QED BY <3>1, <3>2
  <2>3. ASSUME NEW w \in Worker,
               \/ \E n \in Reserve : AdviseFree(w, n) \/ RequestInternalMemory(w, n)
               \/ \E b \in Block : AllocateByteBlock(w, b)
               \/ ReleaseInternalMemory(w)
        PROVE  PinnedExact(v)'
    <3>1. Unmoved
      BY <1>0, <2>3 DEF AdviseFree, RequestInternalMemory, AllocateByteBlock, EnterRequest,
              ReleaseInternalMemory, NotifyAll, blockVars, byteVars, callVars, Shape, TypeOK, CallTypes
    <3> QED BY <1>0, <3>1, ChargeSame
  <2>4. ASSUME NEW w \in Worker, NEW b \in Block, IncBlockPinCount(b, w)
        PROVE  PinnedExact(v)'
    BY <1>0, <2>4, ChargeAgain DEF IncBlockPinCount, byteVars, callVars
  <2>5. ASSUME NEW w \in Worker, NEW b \in Block, DecBlockPinCount(b, w)
        PROVE  PinnedExact(v)'
    <3>1. pins[b][w] \in Nat /\ pins[b][w] > 0 /\ pins' = [pins EXCEPT ![b][w] = pins[b][w] - 1]
      BY <1>0, <2>5 DEF DecBlockPinCount, Shape, TypeOK, BlockTypes
    <3>2. b \in PinnedSet /\ \A u \in Worker : <<b, u>> \notin reads
      BY <3>1 DEF PinnedSet, Pinned, Kept, Places, Place, ReadSet
    <3>3. /\ reads' = reads /\ pc' = pc /\ need' = need
          /\ pinnedBytes' = [pinnedBytes EXCEPT ![w] = IF pins[b][w] = 1 THEN @ - Size[b] ELSE @]
      BY <2>5 DEF DecBlockPinCount, callVars
    <3>4. Loading(v)' = Loading(v) /\ Loading(v) \in Int
      BY <1>0, <3>3 DEF Loading, Shape, TypeOK, CallTypes
    <3>5. pinnedBytes[v] \in Int /\ Size[b] \in Int
      BY <1>0, ConstantsAssumption DEF Shape, TypeOK, ByteTypes
    <3>6. CASE v = w /\ pins[b][w] = 1
      <4>1. b \in ChargedTo(v) /\ ChargedTo(v)' = ChargedTo(v) \ {b}
        BY <1>0, <3>1, <3>2, <3>3, <3>6 DEF ChargedTo, Shape, TypeOK, BlockTypes
      <4>2. pinnedBytes'[v] = pinnedBytes[v] - Size[b] + (Loading(v)' - Loading(v))
        BY <1>0, <3>3, <3>4, <3>5, <3>6 DEF Shape, TypeOK, ByteTypes
      <4> QED BY <1>0, <3>4, <4>1, <4>2, ChargeMove
    <3>7. CASE ~(v = w /\ pins[b][w] = 1)
      <4>1. ChargedTo(v)' = ChargedTo(v)
        BY <1>0, <3>1, <3>3, <3>7 DEF ChargedTo, Shape, TypeOK, BlockTypes
      <4>2. pinnedBytes'[v] = pinnedBytes[v] + (Loading(v)' - Loading(v))
        BY <1>0, <3>3, <3>4, <3>5, <3>7 DEF Shape, TypeOK, ByteTypes
      <4> QED BY <1>0, <3>4, <4>1, <4>2, ChargeMove
    <3> QED BY <3>6, <3>7
  <2>6. ASSUME NEW b \in Block, MapExternalBlock(b) \/ DropHandle(b)
        PROVE  PinnedExact(v)'
    <3>1. Unmoved
      BY <2>6 DEF MapExternalBlock, DropHandle, byteVars, callVars
    <3> QED BY <1>0, <3>1, ChargeSame
  <2>7. CASE BeginDestructor
    <3>1. Unmoved
      BY <2>7 DEF BeginDestructor, blockVars, byteVars, callVars
    <3> QED BY <1>0, <3>1, ChargeSame
  <2> QED BY <1>2, <2>1, <2>2, <2>3, <2>4, <2>5, <2>6, <2>7 DEF Call
<1>3. ASSUME NEW b \in Block, Background(b)
      PROVE  PinnedExact(v)'
  <2>1. CASE OnWriteComplete(b) \/ OnWriteCancelled(b) \/ DestroyBlock(b) \/ DestroyContinue(b)
    <3>1. Unmoved
      BY <1>0, <2>1 DEF OnWriteComplete, OnWriteCancelled, DestroyBlock, DestroyContinue, ReleaseBlock,
                  NotifyAll, WriteEnded, byteVars, callVars, Shape, TypeOK, CallTypes
    <3> QED BY <1>0, <3>1, ChargeSame
  <2>2. ASSUME NEW w \in Worker, OnReadComplete(b, w)
        PROVE  PinnedExact(v)'
    <3>1. /\ <<b, w>> \in reads /\ reads' = reads \ {<<b, w>>} /\ IntIncBlockPinCount(b, w)
          /\ pc' = pc /\ need' = need /\ pinnedBytes' = pinnedBytes
      BY <2>2 DEF OnReadComplete, callVars
    <3>2. ChargedTo(v)' = ChargedTo(v)
      <4>1. /\ \A c \in Block, u \in Worker : <<c, u>> # <<b, w>> =>
                  pins'[c][u] = pins[c][u] /\ (<<c, u>> \in reads' <=> <<c, u>> \in reads)
            /\ pins'[b][w] > 0
        BY <1>0, <3>1 DEF IntIncBlockPinCount, Shape, TypeOK, BlockTypes
      <4>2. \A c \in Block : (pins'[c][v] > 0 \/ <<c, v>> \in reads')
                               <=> (pins[c][v] > 0 \/ <<c, v>> \in reads)
        BY <3>1, <4>1
      <4> QED BY <4>2 DEF ChargedTo
    <3>3. Loading(v)' = Loading(v) /\ Loading(v) \in Int
      BY <1>0, <3>1 DEF Loading, Shape, TypeOK, CallTypes
    <3>4. pinnedBytes'[v] = pinnedBytes[v] + (Loading(v)' - Loading(v))
      BY <1>0, <3>1, <3>3 DEF Shape, TypeOK, ByteTypes
    <3> QED BY <1>0, <3>2, <3>3, <3>4, ChargeMove
  <2> QED BY <1>3, <2>1, <2>2 DEF Background
<1>4. CASE Destructor \/ UNCHANGED vars
  <2>1. Unmoved
    BY <1>4, DestructorFrame DEF vars, blockVars, byteVars, callVars
  <2> QED BY <1>0, <2>1, ChargeSame
<1> QED BY <1>1, <1>2, <1>3, <1>4 DEF Next, Ended

-----------------------------------------------------------------------------
(* The counters of the sets of blocks.                                     *)

SetsExact ==
    /\ bytes["unpinned"] = SizeOf(LruSet)
    /\ bytes["writing"] = SizeOf(writing)
    /\ bytes["swapped"] = SizeOf(swapped)
    /\ bytes["reading"] = SizeOf(ReadSet)
    /\ bytes["total"] = SizeOf(exist)

\* The counter n follows the set S to the set T and the value m.
Follows(S, T, n, m) ==
    \/ T = S /\ m = n
    \/ \E b \in Block \ S : T = S \cup {b} /\ m = n + Size[b]
    \/ \E b \in S : T = S \ {b} /\ m = n - Size[b]

\* A counter that follows its set stays exact.
LEMMA CounterFollows ==
    ASSUME NEW S \in SUBSET Block, NEW T, NEW n, NEW m, n = SizeOf(S), Follows(S, T, n, m)
    PROVE  m = SizeOf(T)
BY SizeOfChange DEF Follows

\* All counters are exact after a step in which each follows its set.
LEMMA SetsMove ==
    ASSUME Shape, SetsExact,
           Follows(LruSet, LruSet', bytes["unpinned"], bytes'["unpinned"]),
           Follows(writing, writing', bytes["writing"], bytes'["writing"]),
           Follows(swapped, swapped', bytes["swapped"], bytes'["swapped"]),
           Follows(ReadSet, ReadSet', bytes["reading"], bytes'["reading"]),
           Follows(exist, exist', bytes["total"], bytes'["total"])
    PROVE  SetsExact'
<1>1. /\ LruSet \in SUBSET Block /\ writing \in SUBSET Block /\ swapped \in SUBSET Block
      /\ ReadSet \in SUBSET Block /\ exist \in SUBSET Block
  BY DEF LruSet, Listed, ReadSet, Shape, TypeOK, BlockTypes
<1>2. bytes'["unpinned"] = SizeOf(LruSet')
  BY <1>1, CounterFollows DEF SetsExact
<1>3. bytes'["writing"] = SizeOf(writing')
  BY <1>1, CounterFollows DEF SetsExact
<1>4. bytes'["swapped"] = SizeOf(swapped')
  BY <1>1, CounterFollows DEF SetsExact
<1>5. bytes'["reading"] = SizeOf(ReadSet')
  BY <1>1, CounterFollows DEF SetsExact
<1>6. bytes'["total"] = SizeOf(exist')
  BY <1>1, CounterFollows DEF SetsExact
<1> QED BY <1>2, <1>3, <1>4, <1>5, <1>6 DEF SetsExact, SizeOf

\* A step that leaves these sets and the counters alone.
LEMMA SetsSame ==
    ASSUME SetsExact, UNCHANGED <<lru, writing, swapped, reads, exist, bytes>>
    PROVE  SetsExact'
<1>1. LruSet' = LruSet /\ ReadSet' = ReadSet
  BY SameSets
<1> QED BY <1>1 DEF SetsExact, SizeOf

\* An eviction moves the bytes of the block from unpinned to writing, or drops them.
LEMMA EvictSets ==
    ASSUME Kept, SetsExact, NEW b \in LruSet, IntEvictBlock(b)
    PROVE  SetsExact'
<1>0. Shape /\ b \in Block /\ bytes \in [Counters -> Int] /\ Size[b] \in Int
  BY ConstantsAssumption DEF LruSet, Listed, Kept, Shape, TypeOK, BlockTypes, ByteTypes
<1>1. LruSet' = LruSet \ {b} /\ ReadSet' = ReadSet
  BY LruErase, SameSets DEF LruSet, Kept, Once, IntEvictBlock, Shape, TypeOK, BlockTypes
<1>2. b \notin writing
  BY <1>0 DEF Kept, Places, Place
<1>3. CASE b \in ExtBlock
  <2>1. /\ UNCHANGED <<writing, swapped, exist>>
        /\ bytes' = [bytes EXCEPT !["unpinned"] = @ - Size[b]]
    BY <1>0, <1>3 DEF IntEvictBlock, Count, Counters
  <2> QED BY <1>0, <1>1, <2>1, SetsMove DEF Follows, Counters
<1>4. CASE b \notin ExtBlock
  <2>1. /\ UNCHANGED <<swapped, exist>> /\ writing' = writing \cup {b}
        /\ bytes' = [bytes EXCEPT !["unpinned"] = @ - Size[b], !["writing"]  = @ + Size[b]]
    BY <1>4 DEF IntEvictBlock
  <2> QED BY <1>0, <1>1, <1>2, <2>1, SetsMove DEF Follows, Counters
<1> QED BY <1>3, <1>4

\* The same for the head of the list.
LEMMA EvictLRUSets ==
    ASSUME Kept, SetsExact, IntEvictBlockLRU
    PROVE  SetsExact'
<1>1. Head(lru) \in LruSet
  BY LruHead DEF LruSet, IntEvictBlockLRU, Kept, Shape, TypeOK, BlockTypes
<1> QED BY <1>1, EvictSets DEF IntEvictBlockLRU

\* PinBlock takes the bytes of a block it finds in memory off the unpinned ones.
LEMMA PinUnpinnedSets ==
    ASSUME Kept, SetsExact, NEW w \in Worker, NEW b \in exist \ (dying \cup PinnedSet), PinUnpinned(w, b)
    PROVE  SetsExact'
<1>1. CASE PinCancelWrite(w, b) \/ PinShareRead(w, b) \/ PinFromEM(w, b)
  <2>1. UNCHANGED <<lru, writing, swapped, reads, exist, bytes>>
    BY <1>1 DEF PinCancelWrite, PinShareRead, PinFromEM, blockVars, byteVars
  <2> QED BY <2>1, SetsSame
<1>2. CASE PinInMemory(w, b)
  <2>0. Shape /\ b \in Block /\ bytes \in [Counters -> Int] /\ Size[b] \in Int
    BY ConstantsAssumption DEF Kept, Shape, TypeOK, BlockTypes, ByteTypes
  <2>1. b \in LruSet
    BY <1>2, <2>0 DEF PinInMemory, Kept, Places, Place
  <2>2. LruSet' = LruSet \ {b} /\ ReadSet' = ReadSet
    BY <1>2, LruErase, SameSets DEF LruSet, Kept, Once, PinInMemory, Shape, TypeOK, BlockTypes
  <2>3. /\ UNCHANGED <<writing, swapped, exist>>
        /\ bytes' = [bytes EXCEPT !["unpinned"] = @ - Size[b]]
    BY <1>2, <2>0 DEF PinInMemory, Count, Counters
  <2> QED BY <2>0, <2>1, <2>2, <2>3, SetsMove DEF Follows, Counters
<1> QED BY <1>1, <1>2 DEF PinUnpinned

\* DestroyBlock takes the bytes of the block off every counter that has them.
LEMMA ReleaseSets ==
    ASSUME Kept, SetsExact, NEW b \in exist, ReleaseBlock(b)
    PROVE  SetsExact'
<1>0. Shape /\ b \in Block /\ bytes \in [Counters -> Int] /\ Size[b] \in Int
  BY ConstantsAssumption DEF Kept, Shape, TypeOK, BlockTypes, ByteTypes
<1>1. /\ lru \in Seq(Block) /\ \A i, j \in 1..Len(lru) : lru[i] = lru[j] => i = j
      /\ b \in LruSet => b \in inMem
  BY <1>0 DEF Kept, Once, Places, Place, Shape, TypeOK, BlockTypes
<1>2. LruSet' = LruSet \ {b}
  <2>1. CASE b \in inMem
    BY <1>1, <2>1, LruErase DEF LruSet, ReleaseBlock
  <2>2. CASE b \notin inMem
    BY <1>1, <2>2 DEF LruSet, ReleaseBlock
  <2> QED BY <2>1, <2>2
<1>3. ReadSet' = ReadSet
  BY SameSets DEF ReleaseBlock
<1>4. /\ writing' = writing /\ swapped' = swapped \ {b} /\ exist' = exist \ {b}
      /\ bytes'["unpinned"] = bytes["unpinned"] - (IF b \in LruSet THEN Size[b] ELSE 0)
      /\ bytes'["swapped"] = bytes["swapped"] - (IF b \in swapped THEN Size[b] ELSE 0)
      /\ bytes'["total"] = bytes["total"] - Size[b]
      /\ bytes'["writing"] = bytes["writing"] /\ bytes'["reading"] = bytes["reading"]
  BY <1>0 DEF ReleaseBlock, LruSet, Counters
<1>5. bytes["unpinned"] \in Int /\ bytes["swapped"] \in Int
  BY <1>0 DEF Counters
<1>6. Follows(LruSet, LruSet', bytes["unpinned"], bytes'["unpinned"])
  BY <1>2, <1>4, <1>5 DEF Follows
<1>7. Follows(swapped, swapped', bytes["swapped"], bytes'["swapped"])
  BY <1>4, <1>5 DEF Follows
<1> QED BY <1>0, <1>3, <1>4, <1>6, <1>7, SetsMove DEF Follows

\* Every step keeps the counters of the sets of blocks exact.
LEMMA SetsStep ==
    ASSUME Kept, SetsExact, [Next]_vars
    PROVE  SetsExact'
<1>0. Shape /\ bytes \in [Counters -> Int] /\ \A b \in Block : Size[b] \in Int
  BY ConstantsAssumption DEF Kept, Shape, TypeOK, ByteTypes
<1> DEFINE Unmoved == UNCHANGED <<lru, writing, swapped, reads, exist, bytes>>
<1>1. ASSUME NEW w \in Worker, CallStep(w)
      PROVE  SetsExact'
  <2>1. CASE AdviseEvict(w) \/ SoftEvict(w) \/ HardEvict(w)
    BY <2>1, EvictLRUSets DEF AdviseEvict, SoftEvict, HardEvict
  <2>2. CASE \/ AdviseReturn(w) \/ SoftDone(w) \/ HardRefuse(w) \/ HardWait(w)
             \/ WaitTimeout(w) \/ WaitReturn(w) \/ GrantAllocate(w) \/ GrantRead(w) \/ GrantReserve(w)
    <3>1. Unmoved
      BY <2>2 DEF AdviseReturn, SoftDone, HardRefuse, HardWait, Advance, WaitTimeout, WaitReturn,
                  GrantAllocate, GrantRead, GrantReserve, blockVars, byteVars
    <3> QED BY <3>1, SetsSame
  <2>3. CASE AllocateReturn(w)
    <3>1. blk[w] \in Block \ exist /\ need[w] = Size[blk[w]]
      BY <2>3 DEF AllocateReturn, Kept, CallPlaces, CallPlace
    <3>2. /\ LruSet' = LruSet /\ ReadSet' = ReadSet /\ UNCHANGED <<writing, swapped>>
          /\ exist' = exist \cup {blk[w]}
      BY <2>3, SameSets DEF AllocateReturn
    <3>3. /\ \A c \in {"unpinned", "writing", "swapped", "reading"} : bytes'[c] = bytes[c]
          /\ bytes'["total"] = bytes["total"] + Size[blk[w]]
      BY <1>0, <2>3, <3>1 DEF AllocateReturn, AddTotal, Counters
    <3> QED BY <1>0, <3>1, <3>2, <3>3, SetsMove DEF Follows
  <2>4. CASE PinIssueRead(w)
    <3>1. blk[w] \in reading \ inMem /\ blk[w] \in Block /\ need[w] = Size[blk[w]]
      BY <1>0, <2>4 DEF PinIssueRead, Kept, CallPlaces, CallPlace, Shape, CallShape
    <3>2. blk[w] \notin ReadSet /\ (blk[w] \in swapped <=> blk[w] \notin ExtBlock)
      BY <3>1 DEF Kept, Places, Place
    <3>3. LruSet' = LruSet /\ UNCHANGED <<writing, exist>> /\ swapped' = swapped \ {blk[w]}
      BY <2>4, SameSets DEF PinIssueRead
    <3>4. ReadSet' = ReadSet \cup {blk[w]}
      BY <2>4, <3>1 DEF PinIssueRead, ReadSet
    <3>5. /\ \A c \in {"unpinned", "writing", "total"} : bytes'[c] = bytes[c]
          /\ bytes'["reading"] = bytes["reading"] + Size[blk[w]]
          /\ bytes'["swapped"] = IF blk[w] \in ExtBlock THEN bytes["swapped"]
                                                        ELSE bytes["swapped"] - Size[blk[w]]
      BY <1>0, <2>4, <3>1 DEF PinIssueRead, Counters
    <3> QED BY <1>0, <3>1, <3>2, <3>3, <3>4, <3>5, SetsMove DEF Follows
  <2>5. CASE PinRecheck(w)
    <3>1. blk[w] \in exist \ (dying \cup PinnedSet) /\ PinUnpinned(w, blk[w])
      BY <2>5 DEF PinRecheck, Kept, CallPlaces, CallPlace
    <3> QED BY <3>1, PinUnpinnedSets
  <2> QED BY <1>1, <2>1, <2>2, <2>3, <2>4, <2>5 DEF CallStep
<1>2. ASSUME Call
      PROVE  SetsExact'
  <2>1. CASE \/ \E w \in Worker : NewHandlerEvict(w)
             \/ \E b \in Block : EvictBlock(b)
    BY <2>1, EvictSets, EvictLRUSets, EvictListed DEF NewHandlerEvict
  <2>2. ASSUME NEW w \in Worker, NEW b \in Block, PinBlock(w, b)
        PROVE  SetsExact'
    <3>1. CASE Pinned(b)
      <4>1. Unmoved
        BY <2>2, <3>1 DEF PinBlock, PinPinned
      <4> QED BY <4>1, SetsSame
    <3>2. CASE ~Pinned(b)
      <4>1. b \in exist \ (dying \cup PinnedSet) /\ PinUnpinned(w, b)
        BY <2>2, <3>2 DEF PinBlock, PinnedSet, Kept, Places, Place
      <4> QED BY <4>1, PinUnpinnedSets
    <3> QED BY <3>1, <3>2
  <2>3. ASSUME NEW w \in Worker,
               \/ \E n \in Reserve : AdviseFree(w, n) \/ RequestInternalMemory(w, n)
               \/ \E b \in Block : AllocateByteBlock(w, b) \/ IncBlockPinCount(b, w)
               \/ ReleaseInternalMemory(w)
        PROVE  SetsExact'
    <3>1. Unmoved
      BY <2>3 DEF AdviseFree, RequestInternalMemory, AllocateByteBlock, IncBlockPinCount,
                  ReleaseInternalMemory, blockVars, byteVars
    <3> QED BY <3>1, SetsSame
  <2>4. ASSUME NEW w \in Worker, NEW b \in Block, DecBlockPinCount(b, w)
        PROVE  SetsExact'
    <3>1. UNCHANGED <<writing, swapped, reads, exist>>
      BY <2>4 DEF DecBlockPinCount
    <3>2. CASE \A v \in Worker : pins'[b][v] = 0
      <4>1. b \notin LruSet
        BY <1>0, <2>4 DEF DecBlockPinCount, Kept, Places, Place, PinnedSet, Pinned
      <4>2. LruSet' = LruSet \cup {b}
        BY <1>0, <2>4, <3>2, <4>1, LruAppend
           DEF DecBlockPinCount, LruSet, Kept, Once, Shape, TypeOK, BlockTypes
      <4>3. bytes' = [bytes EXCEPT !["unpinned"] = @ + Size[b]]
        BY <2>4, <3>2 DEF DecBlockPinCount, Count
      <4>4. ReadSet' = ReadSet
        BY <3>1, SameSets
      <4> QED BY <1>0, <3>1, <4>1, <4>2, <4>3, <4>4, SetsMove DEF Follows, Counters
    <3>3. CASE ~\A v \in Worker : pins'[b][v] = 0
      <4>1. Unmoved
        BY <2>4, <3>1, <3>3 DEF DecBlockPinCount
      <4> QED BY <4>1, SetsSame
    <3> QED BY <3>2, <3>3
  <2>5. ASSUME NEW b \in Block, MapExternalBlock(b)
        PROVE  SetsExact'
    <3>1. /\ LruSet' = LruSet /\ ReadSet' = ReadSet /\ UNCHANGED <<writing, swapped>>
          /\ b \in Block \ exist /\ exist' = exist \cup {b}
      BY <2>5, SameSets DEF MapExternalBlock
    <3>2. /\ \A c \in {"unpinned", "writing", "swapped", "reading"} : bytes'[c] = bytes[c]
          /\ bytes'["total"] = bytes["total"] + Size[b]
      BY <1>0, <2>5 DEF MapExternalBlock, Counters
    <3> QED BY <1>0, <3>1, <3>2, SetsMove DEF Follows
  <2>6. CASE BeginDestructor \/ \E b \in Block : DropHandle(b)
    <3>1. Unmoved
      BY <2>6 DEF BeginDestructor, DropHandle, blockVars, byteVars
    <3> QED BY <3>1, SetsSame
  <2> QED BY <1>2, <2>1, <2>2, <2>3, <2>4, <2>5, <2>6 DEF Call
<1>3. ASSUME NEW b \in Block, Background(b)
      PROVE  SetsExact'
  <2>0. Place(b) /\ Size[b] \in Int
    BY <1>0 DEF Kept, Places
  <2>1. CASE OnWriteComplete(b)
    <3>1. LruSet' = LruSet /\ ReadSet' = ReadSet
      BY <2>1, SameSets DEF OnWriteComplete
    <3>2. /\ b \in writing /\ b \notin swapped /\ exist' = exist
          /\ writing' = writing \ {b} /\ swapped' = swapped \cup {b}
      BY <2>0, <2>1 DEF OnWriteComplete, Place
    <3>3. bytes' = [bytes EXCEPT !["writing"] = @ - Size[b], !["swapped"] = @ + Size[b]]
      BY <2>1 DEF OnWriteComplete
    <3> QED BY <1>0, <2>0, <3>1, <3>2, <3>3, SetsMove DEF Follows, Counters
  <2>2. CASE OnWriteCancelled(b)
    <3>1. ReadSet' = ReadSet
      BY <2>2, SameSets DEF OnWriteCancelled
    <3>2. b \in writing /\ b \notin LruSet /\ UNCHANGED <<swapped, exist>> /\ writing' = writing \ {b}
      BY <2>0, <2>2 DEF OnWriteCancelled, Place
    <3>3. LruSet' = IF b \in dying THEN LruSet ELSE LruSet \cup {b}
      BY <1>0, <2>2, <3>2, LruAppend
         DEF OnWriteCancelled, LruSet, Kept, Once, Shape, TypeOK, BlockTypes
    <3>4. /\ \A c \in {"swapped", "reading", "total"} : bytes'[c] = bytes[c]
          /\ bytes'["writing"] = bytes["writing"] - Size[b]
          /\ bytes'["unpinned"] = IF b \in dying THEN bytes["unpinned"] ELSE bytes["unpinned"] + Size[b]
      BY <1>0, <2>2 DEF OnWriteCancelled, Counters
    <3> QED BY <1>0, <3>1, <3>2, <3>3, <3>4, SetsMove DEF Follows
  <2>3. ASSUME NEW w \in Worker, OnReadComplete(b, w)
        PROVE  SetsExact'
    <3>1. /\ <<b, w>> \in reads /\ reads' = reads \ {<<b, w>>}
          /\ UNCHANGED <<lru, writing, swapped, exist>>
      BY <2>3 DEF OnReadComplete
    <3>2. b \in ReadSet /\ ReadSet' = ReadSet \ {b}
      <4>1. \A v \in Worker : <<b, v>> \in reads => v = w
        BY <3>1 DEF Kept, Once
      <4> QED BY <3>1, <4>1 DEF ReadSet
    <3>3. bytes' = [bytes EXCEPT !["reading"] = @ - Size[b]]
      BY <1>0, <2>0, <2>3 DEF OnReadComplete, Count, Counters
    <3>4. LruSet' = LruSet
      BY <3>1, SameSets
    <3> QED BY <1>0, <2>0, <3>1, <3>2, <3>3, <3>4, SetsMove DEF Follows, Counters
  <2>4. CASE DestroyBlock(b) /\ b \in writing
    <3>1. Unmoved
      BY <2>4 DEF DestroyBlock, byteVars
    <3> QED BY <3>1, SetsSame
  <2>5. CASE ReleaseBlock(b) /\ b \in exist
    BY <2>5, ReleaseSets
  <2>6. DestroyContinue(b) => b \in exist
    BY <2>0 DEF DestroyContinue, Place
  <2> QED BY <1>3, <2>1, <2>2, <2>3, <2>4, <2>5, <2>6 DEF Background, DestroyBlock, DestroyContinue
<1>4. CASE Destructor \/ UNCHANGED vars
  <2>1. Unmoved
    BY <1>4, DestructorFrame DEF vars, blockVars, byteVars
  <2> QED BY <2>1, SetsSame
<1> QED BY <1>1, <1>2, <1>3, <1>4 DEF Next, Ended

-----------------------------------------------------------------------------
(* No die_unless fails.                                                    *)

Accounts == RequestedExact /\ RamExact /\ (\A w \in Worker : PinnedExact(w)) /\ SetsExact

\* The constructor sets every counter to zero.
LEMMA AccountsInit == Init => Accounts
<1> SUFFICES ASSUME Init PROVE Accounts
  OBVIOUS
<1>1. \A w \in Worker : Requests[w] = 0 /\ Granted[w] = 0
  BY DEF Init, Requests, Granted, Requesting
<1>2. SumOver(Requests) = 0 /\ SumOver(Granted) = 0
  BY <1>1, SumZero, ConstantsAssumption DEF SumOver
<1>3. LruSet = {} /\ ReadSet = {} /\ \A w \in Worker : ChargedTo(w) = {} /\ Loading(w) = 0
  BY DEF Init, LruSet, Listed, ReadSet, ChargedTo, Loading
<1>4. RequestedExact /\ RamExact
  BY <1>2, SizeOfNone DEF Init, RequestedExact, RamExact
<1>5. ASSUME NEW w \in Worker PROVE PinnedExact(w)
  <2>1. pinnedBytes[w] = 0 /\ ChargedTo(w) = {} /\ Loading(w) = 0
    BY <1>3 DEF Init
  <2> QED BY <2>1, SizeOfNone DEF PinnedExact
<1>6. SetsExact
  BY <1>3, SizeOfNone DEF Init, SetsExact, Counters
<1> QED BY <1>4, <1>5, <1>6 DEF Accounts

\* Every step keeps all accounts exact.
LEMMA AccountsStep ==
    ASSUME Kept, Accounts, [Next]_vars
    PROVE  Accounts'
<1>1. RequestedExact'
  BY RequestedStep DEF Accounts, Kept
<1>2. RamExact'
  BY RamExactStep DEF Accounts
<1>3. \A w \in Worker : PinnedExact(w)'
  BY PinnedStep DEF Accounts
<1>4. SetsExact'
  BY SetsStep DEF Accounts
<1> QED BY <1>1, <1>2, <1>3, <1>4 DEF Accounts

\* The destructor finds every counter at zero.
LEMMA EmptyPool ==
    ASSUME Kept, Accounts, pool = "closing", writing = {}, reading = {}, exist = {}
    PROVE  /\ \A c \in Counters \ {"swapped", "unpinned", "maxTotal"} : bytes[c] = 0
           /\ \A w \in Worker : pinnedBytes[w] = 0
           /\ ram = 0 /\ lru = <<>>
<1>1. inMem = {} /\ PinnedSet = {} /\ LruSet = {} /\ ReadSet = {}
  <2>1. inMem \subseteq Block /\ PinnedSet \subseteq Block /\ LruSet \subseteq Block /\ ReadSet \subseteq Block
    BY DEF Kept, Shape, TypeOK, BlockTypes, PinnedSet, LruSet, Listed, ReadSet
  <2>2. \A b \in Block : b \notin inMem /\ b \notin PinnedSet /\ b \notin LruSet /\ b \notin ReadSet
    BY DEF Kept, Places, Place
  <2> QED BY <2>1, <2>2
<1>2. \A w \in Worker : pc[w] = "idle" /\ held[w] = 0
  BY DEF Kept, CallsApart
<1>3. bytes["writing"] = 0 /\ bytes["reading"] = 0 /\ bytes["total"] = 0
  BY <1>1, SizeOfNone DEF Accounts, SetsExact
<1>4. ASSUME NEW w \in Worker PROVE pinnedBytes[w] = 0
  <2>1. \A b \in Block : ~(pins[b][w] > 0) /\ <<b, w>> \notin reads
    BY <1>1 DEF PinnedSet, Pinned, ReadSet
  <2>2. ChargedTo(w) = {} /\ Loading(w) = 0
    BY <1>2, <2>1 DEF ChargedTo, Loading
  <2> QED BY <2>2, SizeOfNone DEF Accounts, PinnedExact
<1>5. ram = 0
  <2>1. \A w \in Worker : Granted[w] = 0
    BY <1>2 DEF Granted
  <2>2. SumOver(Granted) = 0
    BY <2>1, SumZero, ConstantsAssumption DEF SumOver
  <2> QED BY <1>1, <2>2, SizeOfNone DEF Accounts, RamExact
<1>6. lru = <<>>
  <2>1. lru \in Seq(Block) /\ Len(lru) \in Nat
    BY DEF Kept, Shape, TypeOK, BlockTypes
  <2>2. ~(1 \in 1..Len(lru))
    BY <1>1 DEF LruSet, Listed
  <2> QED BY <2>1, <2>2
<1> QED BY <1>3, <1>4, <1>5, <1>6 DEF Counters

\* IntEvictBlock finds a listed block and no external block behind it (die_unless !em_bid_.storage).
LEMMA EvictLives ==
    ASSUME Kept, NoDie, NEW b \in LruSet, IntEvictBlock(b)
    PROVE  NoDie'
<1>1. b \in Block
  BY DEF LruSet, Listed, Kept, Shape, TypeOK, BlockTypes
<1>2. b \notin ExtBlock => em[b] = "none"
  BY <1>1 DEF Kept, Places, Place
<1> QED BY <1>2 DEF IntEvictBlock, DieUnless, NoDie, LruSet

\* The same for the head of the list.
LEMMA EvictLRULives ==
    ASSUME Kept, NoDie, IntEvictBlockLRU
    PROVE  NoDie'
<1>1. Head(lru) \in LruSet
  BY LruHead DEF LruSet, IntEvictBlockLRU, Kept, Shape, TypeOK, BlockTypes
<1> QED BY <1>1, EvictLives DEF IntEvictBlockLRU

\* The die_unless of PinBlock hold on a block that is not pinned.
LEMMA PinUnpinnedLives ==
    ASSUME Kept, NoDie, NEW w \in Worker, NEW b \in exist \ (dying \cup PinnedSet), PinUnpinned(w, b)
    PROVE  NoDie'
<1>1. Place(b)
  BY DEF Kept, Places, Shape, TypeOK, BlockTypes
<1>2. CASE PinCancelWrite(w, b)
  BY <1>1, <1>2 DEF Place, PinCancelWrite, DieUnless, NoDie
<1>3. CASE PinShareRead(w, b)
  BY <1>3 DEF PinShareRead, NoDie
<1>4. CASE PinInMemory(w, b)
  BY <1>1, <1>4 DEF Place, PinInMemory, DieUnless, NoDie, LruSet
<1>5. CASE PinFromEM(w, b)
  BY <1>1, <1>5 DEF Place, PinFromEM, DieUnless, NoDie
<1> QED BY <1>2, <1>3, <1>4, <1>5 DEF PinUnpinned

\* The die_unless of DestroyBlock hold when its I/O has ended.
LEMMA ReleaseLives ==
    ASSUME Kept, NoDie, NEW b \in exist \ (writing \cup reading \cup PinnedSet), ReleaseBlock(b)
    PROVE  NoDie'
<1>1. Place(b)
  BY DEF Kept, Places, Shape, TypeOK, BlockTypes
<1> QED BY <1>1 DEF Place, ReleaseBlock, DieUnless, NoDie, LruSet

\* No step fails a die_unless.
LEMMA NoDieStep ==
    ASSUME Kept, Accounts, NoDie, [Next]_vars
    PROVE  NoDie'
<1>0. Shape
  BY DEF Kept
<1>1. ASSUME NEW w \in Worker, CallStep(w)
      PROVE  NoDie'
  <2>1. CASE AdviseEvict(w) \/ SoftEvict(w) \/ HardEvict(w)
    BY <2>1, EvictLRULives DEF AdviseEvict, SoftEvict, HardEvict
  <2>2. CASE PinRecheck(w)
    <3>1. blk[w] \in exist \ (dying \cup PinnedSet) /\ PinUnpinned(w, blk[w])
      BY <2>2 DEF PinRecheck, Kept, CallPlaces, CallPlace
    <3> QED BY <3>1, PinUnpinnedLives
  <2>3. CASE \/ AdviseReturn(w) \/ SoftDone(w) \/ HardRefuse(w) \/ HardWait(w)
             \/ WaitTimeout(w) \/ WaitReturn(w) \/ GrantAllocate(w) \/ GrantRead(w) \/ GrantReserve(w)
             \/ AllocateReturn(w) \/ PinIssueRead(w)
    BY <2>3 DEF AdviseReturn, SoftDone, HardRefuse, HardWait, Advance, WaitTimeout, WaitReturn,
                GrantAllocate, GrantRead, GrantReserve, AllocateReturn, PinIssueRead, NoDie
  <2> QED BY <1>1, <2>1, <2>2, <2>3 DEF CallStep
<1>2. ASSUME Call
      PROVE  NoDie'
  <2>1. CASE \/ \E w \in Worker : NewHandlerEvict(w)
             \/ \E b \in Block : EvictBlock(b)
    BY <2>1, EvictLives, EvictLRULives, EvictListed DEF NewHandlerEvict
  <2>2. ASSUME NEW w \in Worker, NEW b \in Block, PinBlock(w, b)
        PROVE  NoDie'
    <3>1. CASE Pinned(b)
      <4>1. b \notin Listed(lru) /\ b \notin reading
        BY <3>1 DEF Kept, Places, Place, PinnedSet, LruSet
      <4> QED BY <2>2, <3>1, <4>1 DEF PinBlock, PinPinned, DieUnless, NoDie
    <3>2. CASE ~Pinned(b)
      <4>1. b \in exist \ (dying \cup PinnedSet) /\ PinUnpinned(w, b)
        BY <2>2, <3>2 DEF PinBlock, PinnedSet, Kept, Places, Place
      <4> QED BY <4>1, PinUnpinnedLives
    <3> QED BY <3>1, <3>2
  <2>3. ASSUME NEW w \in Worker, ReleaseInternalMemory(w)
        PROVE  NoDie'
    <3>1. Granted[w] = held[w]
      BY <1>0, <2>3 DEF ReleaseInternalMemory, Granted, Shape, TypeOK, ByteTypes
    <3>2. \A v \in Worker : Granted[v] \in Nat
      BY <1>0 DEF Granted, Shape, TypeOK, ByteTypes, CallTypes
    <3>3. Granted[w] <= SumOver(Granted) /\ SumOver(Granted) \in Nat
      BY <3>2, SumNat, ConstantsAssumption DEF SumOver
    <3>4. SizeOf(inMem) \in Nat
      BY <1>0, SizeOfChange DEF Shape, TypeOK, BlockTypes
    <3>5. ram >= held[w]
      BY <3>1, <3>2, <3>3, <3>4 DEF Accounts, RamExact
    <3> QED BY <2>3, <3>5 DEF ReleaseInternalMemory, DieUnless, NoDie
  <2>4. ASSUME NEW w \in Worker, NEW b \in Block, DecBlockPinCount(b, w)
        PROVE  NoDie'
    <3>1. b \notin Listed(lru) /\ b \in ChargedTo(w)
      BY <2>4 DEF DecBlockPinCount, Kept, Places, Place, PinnedSet, Pinned, LruSet, ChargedTo
    <3>2. ChargedTo(w) \in SUBSET Block /\ Loading(w) \in Nat /\ Size[b] \in Nat
      BY <1>0, ConstantsAssumption DEF ChargedTo, Loading, Shape, TypeOK, CallTypes
    <3>3. SizeOf(ChargedTo(w)) \in Nat /\ Size[b] <= SizeOf(ChargedTo(w))
      BY <3>1, <3>2, SizeOfChange
    <3>4. pinnedBytes[w] >= Size[b]
      BY <3>2, <3>3 DEF Accounts, PinnedExact
    <3> QED BY <2>4, <3>1, <3>4 DEF DecBlockPinCount, DieUnless, NoDie
  <2>5. ASSUME NEW w \in Worker,
               \/ \E n \in Reserve : AdviseFree(w, n) \/ RequestInternalMemory(w, n)
               \/ \E b \in Block : AllocateByteBlock(w, b) \/ IncBlockPinCount(b, w)
        PROVE  NoDie'
    BY <2>5 DEF AdviseFree, RequestInternalMemory, AllocateByteBlock, IncBlockPinCount, NoDie
  <2>6. CASE BeginDestructor \/ \E b \in Block : MapExternalBlock(b) \/ DropHandle(b)
    BY <2>6 DEF BeginDestructor, MapExternalBlock, DropHandle, NoDie
  <2> QED BY <1>2, <2>1, <2>2, <2>3, <2>4, <2>5, <2>6 DEF Call
<1>3. ASSUME NEW b \in Block, Background(b)
      PROVE  NoDie'
  <2>0. Place(b)
    BY DEF Kept, Places
  <2>1. CASE OnWriteComplete(b) \/ (DestroyBlock(b) /\ b \in writing)
    BY <2>1 DEF OnWriteComplete, DestroyBlock, NoDie
  <2>2. CASE OnWriteCancelled(b)
    BY <2>0, <2>2 DEF OnWriteCancelled, Place, LruSet, DieUnless, NoDie
  <2>3. ASSUME NEW w \in Worker, OnReadComplete(b, w)
        PROVE  NoDie'
    BY <2>0, <2>3 DEF OnReadComplete, Place, ReadSet, DieUnless, NoDie
  <2>4. CASE DestroyBlock(b) /\ b \notin writing
    <3>1. b \in exist \ (writing \cup reading \cup PinnedSet) /\ ReleaseBlock(b)
      BY <2>4 DEF DestroyBlock, Referenced, PinnedSet
    <3> QED BY <3>1, ReleaseLives
  <2>5. CASE DestroyContinue(b)
    <3>1. b \in exist \ (writing \cup reading \cup PinnedSet) /\ ReleaseBlock(b)
      BY <2>0, <2>5 DEF DestroyContinue, Place
    <3> QED BY <3>1, ReleaseLives
  <2> QED BY <1>3, <2>1, <2>2, <2>3, <2>4, <2>5 DEF Background
<1>4. CASE Destructor
  <2>1. CASE EndDestructor
    BY <2>1, EmptyPool DEF EndDestructor, NoDie
  <2>2. ASSUME NEW b \in Block, DestructorTakes(b)
        PROVE  NoDie'
    <3>1. bytes["writing"] = 0
      BY <2>2, SizeOfNone DEF DestructorTakes, Accounts, SetsExact
    <3> QED BY <2>2, <3>1 DEF DestructorTakes, NoDie
  <2>3. CASE DestructorResumes
    BY <2>3 DEF DestructorResumes, NoDie
  <2> QED BY <1>4, <2>1, <2>2, <2>3 DEF Destructor
<1>5. CASE UNCHANGED vars
  BY <1>5 DEF vars, NoDie
<1> QED BY <1>1, <1>2, <1>3, <1>4, <1>5 DEF Next, Ended

-----------------------------------------------------------------------------
(* The theorems.                                                           *)

\* block_pool.cpp: while two PinBlock calls for one block do not overlap, no
\* die_unless of any method, completion handler or of the destructor fails.
THEOREM PoolNeverDies == ~OverlappingPins => (Spec => []NoDie)
<1> SUFFICES ASSUME ~OverlappingPins PROVE Spec => []NoDie
  OBVIOUS
<1>1. Init => Kept /\ Accounts /\ NoDie
  BY KeptInit, AccountsInit DEF Init, NoDie
<1>2. Kept /\ Accounts /\ NoDie /\ [Next]_vars => Kept' /\ Accounts' /\ NoDie'
  BY KeptStep, AccountsStep, NoDieStep
<1> QED BY <1>1, <1>2, PTL DEF Spec

\* Every byte counter of BlockPool::Data is the exact sum of what it counts.
THEOREM PoolCountsBytes == ~OverlappingPins => (Spec => []ByteAccounting)
<1> SUFFICES ASSUME ~OverlappingPins PROVE Spec => []ByteAccounting
  OBVIOUS
<1>1. Init => Kept /\ Accounts
  BY KeptInit, AccountsInit
<1>2. Kept /\ Accounts /\ [Next]_vars => Kept' /\ Accounts'
  BY KeptStep, AccountsStep
<1>3. Accounts => ByteAccounting
  BY DEF Accounts, RequestedExact, RamExact, PinnedExact, Loading, SetsExact, LruSet, ByteAccounting
<1> QED BY <1>1, <1>2, <1>3, PTL DEF Spec

\* requested_bytes_ is the sum of the requests in progress even when calls of
\* PinBlock overlap.
THEOREM RequestsCounted == Spec => []RequestedExact
<1>1. Init => Shape /\ RequestedExact
  BY ShapeInit, AccountsInit DEF Accounts
<1>2. Shape /\ RequestedExact /\ [Next]_vars => Shape' /\ RequestedExact'
  BY ShapeStep, RequestedStep
<1> QED BY <1>1, <1>2, PTL DEF Spec
=============================================================================
