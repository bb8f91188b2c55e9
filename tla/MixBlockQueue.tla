---------------------------- MODULE MixBlockQueue ----------------------------
(***************************************************************************)
(* data::MixBlockQueue and its reader: the Blocks of all sources arrive in *)
(* one queue in any order, the reader sorts them into one BlockQueue per   *)
(* source and hands out only items of which all bytes have arrived; the    *)
(* last item of a Block may go on in the next one and is held back         *)
(* (mix_block_queue.hpp, mix_block_queue.cpp, block_queue.hpp,             *)
(* block_queue.cpp, cat_block_source.hpp).                                 *)
(*                                                                         *)
(* A Block is the sequence of the pieces of items in it.  A piece is       *)
(* <<item, does the item start here, does it end here>>.                   *)
(***************************************************************************)
EXTENDS Integers, Sequences, FiniteSets, SequencesExt

CONSTANTS
    NumWorkers,   \* num_workers_: the sources 0 .. NumWorkers - 1
    Scripts,      \* the sequences of Blocks a source may write
    MaxReaders    \* bound: readers opened one after the other

Sources == 0 .. NumWorkers - 1

VARIABLES
    script,      \* script[s]: the Blocks source s writes
    written,     \* written[s]: how many of them it has written
    writeClosed, \* write_closed_[s]
    mixQueue,    \* mix_queue_: <<source, Block>>, or <<source, Closing>>
    readOpen,    \* read_open_
    inner,       \* inner[s]: queues_[s], see FreshQueue
    rd,          \* the MixBlockQueueReader, or NoReader
    got,         \* got[s]: items of s this reader has delivered
    readers,     \* readers opened so far
    consumed,    \* a reader with consume = true was opened
    stuck        \* the thread waits on a queue that only it could fill

vars == <<script, written, writeClosed, mixQueue, readOpen, inner, rd, got,
          readers, consumed, stuck>>

Closing == <<>>   \* an invalid Block()
NoReader == [open |-> -1]

Starts(b) == Cardinality({i \in DOMAIN b : b[i][2]})
Pieces(bs) == FlattenSeq(bs)
ItemsOf(ps) == SelectSeq(ps, LAMBDA p : p[3])

(***************************************************************************)
(* BlockQueue: its queue_, read_closed_, the File that caches the Blocks   *)
(* popped by a CacheBlockQueueSource, and the pieces its reader has loaded.*)
(***************************************************************************)
FreshQueue == [queue |-> <<>>, readClosed |-> FALSE, file |-> <<>>, loaded |-> <<>>]

PopInner_CachesTwice(q, cache) ==
    LET b == Head(q.queue)
    IN  [q EXCEPT !.queue = Tail(@), !.readClosed = (b = Closing),
                  !.file = IF cache /\ b # Closing THEN @ \o <<b, b>> ELSE @,
                  !.loaded = @ \o b]

\* Pop and the NextBlock of ConsumeBlockQueueSource and CacheBlockQueueSource.
PopInner(q, cache) ==
    LET b == Head(q.queue)
    IN  [q EXCEPT !.queue = Tail(@), !.readClosed = (b = Closing),
                  !.file = IF cache /\ b # Closing THEN Append(@, b) ELSE @,
                  !.loaded = @ \o b]

\* Read the pieces of one item.  A queue that is empty before the item is
\* complete, or closed, is what the reader must never meet.
RECURSIVE ReadItem(_, _)
ReadItem(q, cache) ==
    IF q.loaded # <<>>
    THEN IF q.loaded[1][3] THEN [q |-> [q EXCEPT !.loaded = Tail(@)], item |-> q.loaded[1][1], ok |-> TRUE]
         ELSE ReadItem([q EXCEPT !.loaded = Tail(@)], cache)
    ELSE IF q.queue = <<>> \/ q.readClosed THEN [q |-> q, item |-> 0, ok |-> FALSE]
    ELSE ReadItem(PopInner(q, cache), cache)

(***************************************************************************)
(* MixBlockQueue, called by the writers on their threads and by the        *)
(* dispatcher thread.                                                      *)
(***************************************************************************)
AppendBlock(s) ==
    /\ written[s] < Len(script[s])
    /\ written' = [written EXCEPT ![s] = @ + 1]
    /\ mixQueue' = Append(mixQueue, <<s, script[s][written[s] + 1]>>)
    /\ UNCHANGED <<script, writeClosed, readOpen, inner, rd, got, readers, consumed, stuck>>

Close(s) ==
    /\ written[s] = Len(script[s]) /\ ~writeClosed[s]
    /\ writeClosed' = [writeClosed EXCEPT ![s] = TRUE]
    /\ mixQueue' = Append(mixQueue, <<s, Closing>>)
    /\ UNCHANGED <<script, written, readOpen, inner, rd, got, readers, consumed, stuck>>

(***************************************************************************)
(* MixBlockQueueReader.                                                    *)
(***************************************************************************)
\* BlockQueue::GetBlockSource, of a queue that was read before: its file, or
\* what is left in the queue.
Reread(q) == IF q.readClosed THEN q.file ELSE SelectSeq(q.queue, LAMBDA b : b # Closing)

\* A CatBlockReader over all sources: pieces tagged with their source.
CatPieces ==
    FlattenSeq([i \in 1 .. NumWorkers |->
        LET ps == Pieces(Reread(inner[i - 1])) IN [j \in DOMAIN ps |-> <<i - 1, ps[j]>>]])

OpenReader(consume) ==
    /\ rd = NoReader /\ readers < MaxReaders
    /\ readers > 0 => readOpen = 0
    /\ rd' = [open |-> NumWorkers, consume |-> consume, reread |-> readOpen = 0,
              sel |-> -1, avail |-> 0, at |-> [s \in Sources |-> 0],
              cat |-> IF readOpen = 0 THEN CatPieces ELSE <<>>]
    /\ inner' = IF readOpen = 0 /\ consume
                THEN [s \in Sources |-> [inner[s] EXCEPT !.file = <<>>, !.queue = <<>>]]
                ELSE inner
    /\ got' = [s \in Sources |-> <<>>]
    /\ readers' = readers + 1
    /\ UNCHANGED <<script, written, writeClosed, mixQueue, readOpen, consumed, stuck>>

AtEnd_Open == rd # NoReader /\ IF rd.reread THEN rd.cat = <<>> ELSE rd.avail = 0 /\ rd.open = -1

AtEnd == rd # NoReader /\ IF rd.reread THEN rd.cat = <<>> ELSE rd.avail = 0 /\ rd.open = 0

\* How many items of a source may be read once a Block with n starts came.
Available_All(held, n) == held + n
Available(held, n) == held + n - 1

\* One round of the loop in PullBlock; Pop waits while mix_queue_ is empty.
PullBlock ==
    /\ rd # NoReader /\ ~rd.reread /\ rd.avail = 0 /\ rd.open > 0
    /\ mixQueue # <<>>
    /\ mixQueue' = Tail(mixQueue)
    /\ LET s == Head(mixQueue)[1]
           b == Head(mixQueue)[2]
           a == Available(rd.at[s], Starts(b))
       IN  /\ inner' = [inner EXCEPT ![s].queue = Append(@, b)]
           /\ readOpen' = IF b = Closing THEN readOpen - 1 ELSE readOpen
           /\ rd' = IF b # Closing
                    THEN [rd EXCEPT !.sel = s, !.avail = a,
                                    !.at[s] = @ + Starts(b) - a]
                    ELSE [rd EXCEPT !.open = @ - 1,
                                    !.sel = IF rd.at[s] > 0 THEN s ELSE @,
                                    !.avail = IF rd.at[s] > 0 THEN rd.at[s] ELSE @,
                                    !.at[s] = 0]
    /\ UNCHANGED <<script, written, writeClosed, got, readers, consumed, stuck>>

\* Next, when items of the selected source are available.
NextItem ==
    /\ rd # NoReader /\ ~rd.reread /\ rd.avail # 0
    /\ LET x == ReadItem(inner[rd.sel], ~rd.consume)
       IN  IF x.ok
           THEN /\ inner' = [inner EXCEPT ![rd.sel] = x.q]
                /\ rd' = [rd EXCEPT !.avail = @ - 1]
                /\ got' = [got EXCEPT ![rd.sel] = Append(@, x.item)]
                /\ UNCHANGED stuck
           ELSE stuck' = TRUE /\ UNCHANGED <<inner, rd, got>>
    /\ UNCHANGED <<script, written, writeClosed, mixQueue, readOpen, readers, consumed>>

\* Next of the CatBlockReader.
NextCat ==
    /\ rd # NoReader /\ rd.reread /\ rd.cat # <<>>
    /\ LET k == CHOOSE i \in DOMAIN rd.cat : rd.cat[i][2][3]
                                              /\ \A j \in 1 .. i - 1 : ~rd.cat[j][2][3]
       IN  /\ got' = [got EXCEPT ![rd.cat[k][1]] = Append(@, rd.cat[k][2][1])]
           /\ rd' = [rd EXCEPT !.cat = SubSeq(@, k + 1, Len(@))]
    /\ UNCHANGED <<script, written, writeClosed, mixQueue, readOpen, inner, readers, consumed, stuck>>

Drain_Not(q) == q

\* ~CacheBlockQueueSource pops what is left, up to the closing Block.
RECURSIVE Drain(_)
Drain(q) ==
    IF q.readClosed \/ q.queue = <<>> THEN q ELSE Drain([PopInner(q, TRUE) EXCEPT !.loaded = <<>>])

\* The reader is destroyed after HasNext has returned false.
DestroyReader ==
    /\ AtEnd
    /\ rd' = NoReader
    /\ inner' = IF ~rd.reread /\ ~rd.consume
                THEN [s \in Sources |-> Drain([inner[s] EXCEPT !.loaded = <<>>])]
                ELSE inner
    /\ consumed' = (consumed \/ rd.consume)
    /\ UNCHANGED <<script, written, writeClosed, mixQueue, readOpen, got, readers, stuck>>

Init ==
    /\ script \in [Sources -> Scripts]
    /\ written = [s \in Sources |-> 0] /\ writeClosed = [s \in Sources |-> FALSE]
    /\ mixQueue = <<>> /\ readOpen = NumWorkers
    /\ inner = [s \in Sources |-> FreshQueue]
    /\ rd = NoReader /\ got = [s \in Sources |-> <<>>]
    /\ readers = 0 /\ consumed = FALSE /\ stuck = FALSE

Reading == PullBlock \/ NextItem \/ NextCat

Next ==
    \/ \E s \in Sources : AppendBlock(s) \/ Close(s)
    \/ \E c \in BOOLEAN : OpenReader(c)
    \/ Reading
    \/ DestroyReader

\* A worker that has opened a reader reads on; the writers write and close.
Spec ==
    /\ Init /\ [][Next]_vars
    /\ WF_vars(Reading)
    /\ \A s \in Sources : WF_vars(AppendBlock(s) \/ Close(s))

(***************************************************************************)
(* Properties.                                                             *)
(***************************************************************************)
Written(s) == LET ps == ItemsOf(Pieces(script[s])) IN [i \in DOMAIN ps |-> ps[i][1]]

\* The items of each source are delivered in the order they were written,
\* none twice and none invented, however the Blocks of the sources mix.
SourceOrder == \A s \in Sources : IsPrefix(got[s], Written(s))

\* When HasNext says there is nothing left, everything was delivered; and a
\* reader opened after one with consume = false delivers everything again.
NothingMissing ==
    AtEnd /\ ~consumed => \A s \in Sources : got[s] = Written(s)

\* The counter of available items never wraps below zero, and an item is only
\* handed out when all Blocks with pieces of it are in its inner queue: the
\* reader never waits for a queue that it would have to fill itself.
NeverStarves == ~stuck /\ (rd # NoReader => rd.avail >= 0)

\* A reader comes to the end of the stream once all writers have closed.
ReadingEnds == (rd # NoReader) ~> AtEnd
=============================================================================
