-------------------------------- MODULE Files --------------------------------
(***************************************************************************)
(* A data::File: the BlockWriter that cuts items into Blocks, the sink it  *)
(* writes to (unbounded, or a BoundedBlockSink that refuses memory), and   *)
(* the readers that take the items out again, one by one, as batches of    *)
(* Blocks, or from the middle of the File (file.hpp, file.cpp, block.hpp,  *)
(* block_sink.hpp, block_writer.hpp, block_reader.hpp).                    *)
(*                                                                         *)
(* A byte is a pair <<item, position in the item>>, so that a reader which *)
(* loses its place delivers recognisable garbage.  Offsets count from 0 as *)
(* in the code; the byte at offset p of a ByteBlock is data[p + 1].        *)
(***************************************************************************)
EXTENDS Integers, Sequences, FiniteSets, SequencesExt

CONSTANTS
    StartBlockSize,   \* start_block_size
    MaxBlockSize,     \* the block size given to GetWriter
    Sizes,            \* sizes an item may have, in bytes
    MaxItems,         \* bound: items put into the File
    SinkSizes,        \* max_size of the BoundedBlockSinks; 0 is an unbounded File
    Prefetches,       \* prefetch sizes of the readers
    MaxBatches        \* bound: batches one reader takes

VARIABLES
    fixed,    \* 0, or Serialization::fixed_size of the item type
    items,    \* items[k]: size of the k-th item that Put accepted
    w,        \* the BlockWriter and its sink
    sums,     \* num_items_sum_
    r,        \* the reader, or NoReader
    pos,      \* items the reader has been moved over
    batch,    \* what the last GetItemBatch was asked for, and its Blocks
    taken,    \* batches taken by this reader
    drained,  \* the last GetItemBatch ran out of Blocks (exit1, exit2)
    dead      \* a die(), a failed assertion, or a read beyond the data

vars == <<fixed, items, w, sums, r, pos, batch, taken, drained, dead>>

NoReader == [kind |-> "none"]
NoBatch == [k |-> 0, blocks |-> <<>>]
SumOf(s) == FoldLeft(LAMBDA a, x : a + x, 0, s)
LeastOf(S) == CHOOSE x \in S : \A y \in S : x <= y

(***************************************************************************)
(* Blocks.                                                                 *)
(***************************************************************************)
ItemBytes(k, size) == [j \in 1 .. size |-> <<k, j>>]
Size(b) == b.end - b.begin
Contents(b) == SubSeq(b.data, b.begin + 1, b.end)
NumItems(blocks) == SumOf([i \in DOMAIN blocks |-> blocks[i].n])

\* File::AppendBlock drops a Block without bytes.
AppendBlock(blocks, b) == IF Size(b) = 0 THEN blocks ELSE Append(blocks, b)

(***************************************************************************)
(* BlockWriter.  The record holds bytes_ up to current_ (cap = 0: null),   *)
(* nitems_ (n), first_offset_ (first), block_size_ (bsize), sink_queue_    *)
(* (queue, in use while doQueue), the Blocks of the sink and available_.   *)
(***************************************************************************)
NewWriter(max) ==
    [bytes |-> <<>>, cap |-> 0, n |-> 0, first |-> 0,
     bsize |-> IF StartBlockSize < MaxBlockSize THEN StartBlockSize ELSE MaxBlockSize,
     doQueue |-> FALSE, queue |-> <<>>, blocks |-> <<>>,
     bound |-> max, avail |-> max, full |-> FALSE, closed |-> FALSE]

Flush(s) ==
    IF s.cap = 0 \/ (s.bytes = <<>> /\ s.n = 0) THEN s
    ELSE LET b == [data |-> s.bytes, cap |-> s.cap, begin |-> 0,
                   end |-> Len(s.bytes), first |-> s.first, n |-> s.n]
             t == [s EXCEPT !.n = 0, !.bytes = <<>>, !.cap = 0]
         IN  IF s.doQueue THEN [t EXCEPT !.queue = Append(@, b)]
                          ELSE [t EXCEPT !.blocks = AppendBlock(@, b)]

\* BoundedBlockSink::AllocateByteBlock; a File (bound 0) never refuses.
AvailableFor(s, size) == s.bound = 0 \/ s.avail >= size

\* full: FullException.
AllocateBlock(s) ==
    IF ~AvailableFor(s, s.bsize) THEN [s EXCEPT !.full = TRUE]
    ELSE [s EXCEPT !.avail = IF s.bound > 0 THEN @ - s.bsize ELSE @,
                   !.cap = s.bsize, !.bytes = <<>>, !.n = 0, !.first = 0,
                   !.bsize = IF 2 * @ < MaxBlockSize THEN 2 * @ ELSE @]

FreshBlock(s) == IF Len(s.bytes) = s.cap THEN AllocateBlock(Flush(s)) ELSE s

\* PutByte; Append and PutRaw cross the end of a block in the same way.
PutByte(s, b) ==
    LET t == IF s.full THEN s ELSE FreshBlock(s)
    IN  IF t.full THEN t ELSE [t EXCEPT !.bytes = Append(@, b)]

MarkItem_NoOffset(s) == [s EXCEPT !.n = @ + 1]

MarkItem(s) ==
    [s EXCEPT !.first = IF s.n = 0 THEN Len(s.bytes) ELSE @, !.n = @ + 1]

Serialize(s, k, size) == FoldLeft(PutByte, MarkItem(s), ItemBytes(k, size))

PutUnsafe(s, k, size) == Serialize(FreshBlock(s), k, size)

RollBack_KeepsBlocks(s, t) ==
    [s EXCEPT !.avail = t.avail, !.bsize = t.bsize, !.full = TRUE]

\* The catch clause of PutSafe: the blocks the item was spread over are given
\* back, the writer stands again where it stood before the item.
RollBack(s, t) ==
    [s EXCEPT !.avail = t.avail + SumOf([i \in 1 .. Len(t.queue) - 1 |-> t.queue[i + 1].cap]),
              !.bsize = t.bsize, !.full = TRUE]

Commit(s, t) ==
    IF t.full THEN RollBack(s, t)
    ELSE [t EXCEPT !.doQueue = FALSE, !.queue = <<>>,
                   !.blocks = FoldLeft(AppendBlock, @, t.queue)]
PutQueued(s, k, size) ==
    IF s.cap = 0 THEN s ELSE Commit(s, Serialize([s EXCEPT !.doQueue = TRUE], k, size))
PutSafe(s, k, size) == PutQueued(FreshBlock(s), k, size)

(***************************************************************************)
(* WriteBinaryNode: a worker's items go into files of limited size.  files *)
(* are the bytes of the closed ones; thrown: an item is larger than the    *)
(* limit.                                                                  *)
(***************************************************************************)
FileBytes(s) == FoldLeft(LAMBDA a, b : a \o Contents(b), <<>>, Flush(s).blocks)
OpenNextFile(x, limit) == [x EXCEPT !.files = Append(@, FileBytes(x.w)), !.w = NewWriter(limit)]
AfterPut(x, t) == [x EXCEPT !.w = t, !.thrown = t.full]
PutAgain(x, k, size) == AfterPut(x, PutSafe(x.w, k, size))
PutOrOpen_Drops(x, t, k, size, limit) ==
    IF ~t.full THEN [x EXCEPT !.w = t] ELSE OpenNextFile([x EXCEPT !.w = [t EXCEPT !.full = FALSE]], limit)
\* t is the writer after the first try: when it was full, try again in a new file
PutOrOpen(x, t, k, size, limit) ==
    IF ~t.full THEN [x EXCEPT !.w = t]
    ELSE PutAgain(OpenNextFile([x EXCEPT !.w = [t EXCEPT !.full = FALSE]], limit), k, size)
WriteBinaryPreOp(x, k, size, limit) ==
    IF x.thrown THEN x ELSE PutOrOpen(x, PutSafe(x.w, k, size), k, size, limit)
WriteBinaryNode(sizes, limit) ==
    LET start == [w |-> NewWriter(limit), files |-> <<>>, thrown |-> FALSE]
        Closed(x) == [files |-> Append(x.files, FileBytes(x.w)), thrown |-> x.thrown]
    IN Closed(FoldLeft(LAMBDA y, k : WriteBinaryPreOp(y, k, sizes[k], limit), start, [k \in DOMAIN sizes |-> k]))

Put(size) ==
    /\ ~w.closed /\ Len(items) < MaxItems
    /\ fixed \in {0, size}
    /\ LET k == Len(items) + 1
           t == IF w.bound > 0 THEN PutSafe(w, k, size) ELSE PutUnsafe(w, k, size)
       IN  /\ w' = [t EXCEPT !.full = FALSE]
           /\ items' = IF t.full THEN items ELSE Append(items, size)
    /\ UNCHANGED <<fixed, sums, r, pos, batch, taken, drained, dead>>

\* BlockWriter::Close, Flush.  num_items_sum_ has grown with every AppendBlock.
PrefixSums(blocks) == [i \in DOMAIN blocks |-> NumItems(SubSeq(blocks, 1, i))]

CloseWriter ==
    /\ ~w.closed
    /\ w' = [Flush(w) EXCEPT !.closed = TRUE]
    /\ sums' = PrefixSums(w'.blocks)
    /\ UNCHANGED <<fixed, items, r, pos, batch, taken, drained, dead>>

(***************************************************************************)
(* Block sources.  rest are the Blocks not yet taken from the File: a      *)
(* suffix of it for a KeepFileBlockSource, blocks_ itself for a            *)
(* ConsumeFileBlockSource.  fetch are the Blocks that are being pinned.    *)
(***************************************************************************)
NewReader(kind, rest, prefetch) ==
    [kind |-> kind, rest |-> rest, fetch |-> <<>>, fbytes |-> 0, pre |-> prefetch,
     valid |-> FALSE, b |-> [data |-> <<>>], cur |-> 0, end |-> 0, n |-> 0]

\* Pin further Blocks while fetching_bytes_ < prefetch_size_.
Fill(rd) ==
    LET bytes(k) == rd.fbytes + SumOf([i \in 1 .. k |-> Size(rd.rest[i])])
        m == LeastOf({k \in 0 .. Len(rd.rest) : bytes(k) >= rd.pre \/ k = Len(rd.rest)})
    IN  [rd EXCEPT !.fbytes = bytes(m), !.fetch = @ \o SubSeq(rd.rest, 1, m),
                   !.rest = SubSeq(@, m + 1, Len(@))]

Prefetch(rd, p) == IF p >= rd.pre THEN Fill([rd EXCEPT !.pre = p]) ELSE [rd EXCEPT !.pre = p]

PopFetched(rd) ==
    [rd EXCEPT !.fetch = Tail(@), !.fbytes = @ - Size(rd.fetch[1])]

\* NextBlock of the two sources; no block: the record has valid = FALSE.
Load(rd, b) ==
    [rd EXCEPT !.valid = TRUE, !.b = b, !.cur = b.begin, !.end = b.end, !.n = b.n]

\* Without prefetching the next Block leaves the File, or the suffix of it.
TakeFirst(rd) == [rd EXCEPT !.rest = Tail(@)]

NextFetched(rd) == Load(PopFetched(rd), Head(rd.fetch))
NextBlock(rd) ==
    IF rd.rest = <<>> /\ rd.fetch = <<>> THEN [rd EXCEPT !.valid = FALSE]
    ELSE IF rd.pre = 0
    THEN Load(TakeFirst(rd), Head(rd.rest))
    ELSE NextFetched(Fill(rd))

NextBlockUnpinned_Skips(rd) ==
    IF rd.rest = <<>> THEN [rd |-> rd, b |-> <<>>]
    ELSE [rd |-> TakeFirst(rd), b |-> <<Head(rd.rest)>>]

\* NextBlockUnpinned: the source after it, and the Block as a sequence.
NextBlockUnpinned(rd) ==
    IF rd.pre # 0 /\ rd.fetch # <<>> THEN [rd |-> PopFetched(rd), b |-> <<Head(rd.fetch)>>]
    ELSE IF rd.rest = <<>> THEN [rd |-> rd, b |-> <<>>]
    ELSE [rd |-> TakeFirst(rd), b |-> <<Head(rd.rest)>>]

(***************************************************************************)
(* BlockReader.  HasNext moves over exhausted Blocks; its result is Ready. *)
(***************************************************************************)
RECURSIVE HasNext(_)
InBlock(rd) == IF rd.valid THEN HasNext(rd) ELSE rd
HasNext(rd) == IF rd.cur # rd.end THEN rd ELSE InBlock(NextBlock(rd))

Ready(rd) == rd.cur # rd.end

\* GetByte, and Read and GetRaw, which take the same bytes: the reader and the
\* bytes read so far; under: "Data underflow in BlockReader."
TakeByte(x, rd) ==
    IF ~Ready(rd) THEN [x EXCEPT !.rd = rd, !.under = TRUE]
    ELSE [x EXCEPT !.rd = [rd EXCEPT !.cur = @ + 1],
                   !.out = Append(@, rd.b.data[rd.cur + 1])]
GetByte(x) == TakeByte(x, HasNext(x.rd))

GetBytes(rd, k) ==
    FoldLeft(LAMBDA x, i : GetByte(x), [rd |-> rd, out |-> <<>>, under |-> FALSE],
             [i \in 1 .. k |-> i])

\* Next<T>: a variable-size item tells its size in its first byte.
TakeItem(rd) ==
    LET size == IF fixed > 0 \/ ~Ready(rd) THEN fixed ELSE items[rd.b.data[rd.cur + 1][1]]
    IN  IF Ready(rd) THEN GetBytes([rd EXCEPT !.n = @ - 1], size)
        ELSE [rd |-> [rd EXCEPT !.n = -1], out |-> <<>>, under |-> TRUE]
NextItem(rd) == TakeItem(HasNext(rd))

RECURSIVE Skip(_, _, _)
Skip(rd, k, bytes) ==
    IF rd.cur + bytes <= rd.end
    THEN [rd EXCEPT !.cur = @ + bytes, !.n = @ - k]
    ELSE LET x == NextBlock(rd)
         IN  IF x.valid THEN Skip(x, k - rd.n, bytes - (rd.end - rd.cur))
             ELSE [x EXCEPT !.n = -1]

\* Move over k items, as GetReaderAt and the end of GetItemBatch do.
MoveOver(rd, k) ==
    IF fixed > 0 THEN Skip(rd, k, k * fixed)
    ELSE FoldLeft(LAMBDA x, i : NextItem(x).rd, rd, [i \in 1 .. k |-> i])

\* The middle of GetItemBatch: whole Blocks are handed on unpinned.
RECURSIVE WholeBlocks(_, _, _)
WholeBlocks(rd, out, k) ==
    LET x == NextBlockUnpinned(rd)
    IN  IF x.b # <<>> /\ k >= x.b[1].n
        THEN WholeBlocks(x.rd, Append(out, x.b[1]), k - x.b[1].n)
        ELSE [rd |-> x.rd, b |-> x.b, out |-> out, k |-> k]

\* The last Block of a batch ends where the cursor stands after k items.
CutLast(rd, begin, first, k) ==
    LET x == MoveOver(rd, k)
    IN  <<[data |-> rd.b.data, cap |-> rd.b.cap, begin |-> begin, end |-> x.cur,
           first |-> first, n |-> k]>>

\* After the whole Blocks: the part of Block x.b[1] that the batch ends in. At
\* exit1 and exit2 there is none and the cursor is not moved: drained.
PartOfLast(x, l) ==
    [rd |-> MoveOver(l, x.k), out |-> x.out \o CutLast(l, l.b.begin, l.b.first, x.k), drained |-> FALSE]
EndBatch(x) ==
    IF x.b = <<>> THEN [rd |-> x.rd, out |-> x.out, drained |-> TRUE]
    ELSE PartOfLast(x, [Load(x.rd, x.b[1]) EXCEPT !.cur = x.b[1].first])

\* GetItemBatch(k), k > 0, of a reader that has a next item
BatchFrom(h, k) ==
    LET head == [data |-> h.b.data, cap |-> h.b.cap, begin |-> h.cur, end |-> h.end,
                 first |-> h.cur, n |-> h.n]
    IN  IF k < h.n
        THEN [rd |-> MoveOver(h, k), out |-> CutLast(h, h.cur, h.cur, k), drained |-> FALSE]
        ELSE EndBatch(WholeBlocks([h EXCEPT !.valid = FALSE], <<head>>, k - h.n))
GetItemBatch(rd, k) == BatchFrom(HasNext(rd), k)

(***************************************************************************)
(* Readers of the closed File.                                             *)
(***************************************************************************)
CanOpen == w.closed /\ r = NoReader
Opened(rd, p) ==
    /\ r' = rd /\ pos' = p /\ batch' = NoBatch /\ taken' = 0 /\ drained' = FALSE
    /\ UNCHANGED <<fixed, items, sums>>

GetKeepReader(p) ==
    /\ CanOpen
    /\ Opened(NewReader("keep", w.blocks, p), 0)
    /\ UNCHANGED <<w, dead>>

\* The ConsumeFileBlockSource prefetches at once; its Blocks leave the File.
GetConsumeReader(p) ==
    /\ CanOpen
    /\ LET rd == Prefetch(NewReader("consume", w.blocks, p), p)
       IN  Opened(rd, 0) /\ w' = [w EXCEPT !.blocks = rd.rest]
    /\ UNCHANGED dead

\* std::lower_bound(num_items_sum_.begin(), num_items_sum_.end(), index)
LowerBound(index) == {i \in DOMAIN sums : sums[i] >= index}

FirstBlock_Begin(b) == b

\* MakeNextBlock, of the first Block a reader in the middle of the File takes.
FirstBlock(b) == [b EXCEPT !.begin = b.first]

\* GetReaderAt: start at the first item of the Block, then move on.
ReaderAt(index, p) ==
    LET i == LeastOf(LowerBound(index))
        rd == NewReader("keep", <<FirstBlock(w.blocks[i])>> \o SubSeq(w.blocks, i + 1, Len(w.blocks)), p)
        before == IF i = 1 THEN 0 ELSE sums[i - 1]
    IN  MoveOver(HasNext(rd), index - before)

GetReaderAt(index, p) ==
    /\ CanOpen
    /\ IF LowerBound(index) = {}
       THEN dead' = TRUE /\ UNCHANGED <<fixed, items, sums, r, pos, batch, taken, drained>>
       ELSE Opened(ReaderAt(index, p), index) /\ UNCHANGED dead
    /\ UNCHANGED w

\* A step of the reader that moves it over k items.
Moved(rd, k) ==
    /\ r' = rd /\ pos' = pos + k
    /\ w' = IF rd.kind = "consume" THEN [w EXCEPT !.blocks = rd.rest] ELSE w
    /\ UNCHANGED <<fixed, items, sums>>

\* if (reader.HasNext()) reader.Next<T>(); the item must be the next one.
Next1 ==
    /\ r # NoReader /\ ~drained /\ Ready(HasNext(r))
    /\ \E x \in {NextItem(r)} :
           /\ Moved(x.rd, 1)
           /\ dead' = (x.under \/ x.rd.n < 0
                         \/ pos + 1 > Len(items) \/ x.out # ItemBytes(pos + 1, items[pos + 1]))
    /\ batch' = NoBatch
    /\ UNCHANGED <<taken, drained>>

\* GetItemBatch(k); callers never ask for more items than there are, and
\* never again after the last one.
TakeBatch(k) ==
    /\ r # NoReader /\ ~drained /\ taken < MaxBatches
    /\ k > 0 /\ pos + k <= Len(items)
    /\ \E x \in {GetItemBatch(r, k)} :
           /\ Moved(x.rd, k)
           /\ batch' = [k |-> k, blocks |-> x.out] /\ drained' = x.drained
           /\ dead' = ~Ready(HasNext(r))
    /\ taken' = taken + 1

\* StartPrefetch raises the prefetch size of readers opened with less.
Raise(p) ==
    /\ r # NoReader /\ ~drained /\ p > r.pre
    /\ Moved(Prefetch(r, p), 0)
    /\ UNCHANGED <<batch, taken, drained, dead>>

\* File::Clear.
Clear == w' = [w EXCEPT !.blocks = <<>>] /\ sums' = <<>> /\ items' = <<>>

\* The destructors: a ConsumeFileBlockSource clears the File.
CloseReader ==
    /\ r # NoReader
    /\ r' = NoReader /\ batch' = NoBatch /\ pos' = 0 /\ taken' = 0 /\ drained' = FALSE
    /\ IF r.kind = "consume"
       THEN Clear
       ELSE UNCHANGED <<w, sums, items>>
    /\ UNCHANGED <<fixed, dead>>

Init ==
    /\ fixed \in {0} \cup Sizes
    /\ \E max \in SinkSizes : w = NewWriter(max)
    /\ items = <<>> /\ sums = <<>> /\ r = NoReader /\ pos = 0 /\ batch = NoBatch
    /\ taken = 0 /\ drained = FALSE /\ dead = FALSE

Next ==
    \/ \E size \in Sizes : Put(size)
    \/ CloseWriter
    \/ \E p \in Prefetches : GetKeepReader(p) \/ GetConsumeReader(p) \/ Raise(p)
    \/ \E p \in Prefetches, i \in 0 .. Len(items) : items # <<>> /\ GetReaderAt(i, p)
    \/ Next1
    \/ \E k \in 1 .. MaxItems : TakeBatch(k)
    \/ CloseReader

Spec == Init /\ [][Next]_vars

(***************************************************************************)
(* Properties.                                                             *)
(***************************************************************************)

\* Every item read, through any sequence of seeks, single reads and batches,
\* with any prefetch, is the next item of the File, byte by byte; no seek and
\* no batch within the File dies.
ReadsInOrder == ~dead

\* The items that start in a Block are counted in num_items, and first_item
\* points at the first of them: what GetReaderAt and MixBlockQueue rely on.
StartsIn(b) == {p \in b.begin .. b.end - 1 : b.data[p + 1][2] = 1}
Marked(blocks) ==
    \A i \in DOMAIN blocks :
        LET b == blocks[i]
        IN  /\ b.n = Cardinality(StartsIn(b))
            /\ b.n > 0 => b.first = LeastOf(StartsIn(b))
WellMarked == Marked(w.blocks) /\ Marked(batch.blocks)

\* The Blocks GetItemBatch returns hold exactly the items it was asked for: a
\* Scatter neither splits an item between two workers nor loses one.
AllBytes(n) == FoldLeft(LAMBDA a, k : a \o ItemBytes(k, items[k]), <<>>, [i \in 1 .. n |-> i])
Bytes(blocks) == FoldLeft(LAMBDA a, b : a \o Contents(b), <<>>, blocks)
BatchIsExact ==
    batch # NoBatch =>
        LET before == Len(AllBytes(pos - batch.k))
        IN  /\ Bytes(batch.blocks) = SubSeq(AllBytes(pos), before + 1, Len(AllBytes(pos)))
            /\ NumItems(batch.blocks) = batch.k

\* A Put that finds the sink full leaves no trace of its item, and the sink
\* gets the memory back that the item had taken: all or nothing.
AllOrNothing ==
    r = NoReader /\ ~(w.closed /\ items = <<>>) =>
        /\ Bytes(w.blocks) \o w.bytes = AllBytes(Len(items))
        /\ w.bound > 0 =>
             w.avail = w.bound - w.cap - SumOf([i \in DOMAIN w.blocks |-> w.blocks[i].cap])
=============================================================================
