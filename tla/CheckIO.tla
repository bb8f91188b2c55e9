------------------------------ MODULE CheckIO ------------------------------
(***************************************************************************)
(* Files of up to three lines, whose ends fall everywhere relative to the  *)
(* workers' shares and to the blocks that are read.                        *)
(***************************************************************************)
EXTENDS Operation
I == INSTANCE IOOps

LinesOf(text) ==
    LET cuts == {0} \cup {i \in DOMAIN text : text[i] = I!NL}
        next(i) == I!Min({j \in DOMAIN text : j > i /\ text[j] = I!NL} \cup {Len(text) + 1})
        starts == {i \in cuts : i < Len(text)}
    IN [k \in 1..Cardinality(starts) |->
           LET i == CHOOSE x \in starts : Cardinality({y \in starts : y < x}) = k - 1 IN SubSeq(text, i + 1, next(i) - 1)]
LinesOfAll(fs) == I!FlattenSeq([i \in DOMAIN fs |-> LinesOf(fs[i].text)])

FileTexts == UNION {[1..n -> {I!NL, 1}] : n \in 0..4}
\* texts all of whose lines have characters
FullTexts == {t \in FileTexts : t # <<>> /\ t[1] # I!NL /\ \A i \in 2..Len(t) : t[i] = I!NL => t[i - 1] # I!NL}
Plain(t) == [text |-> t, size |-> Len(t), z |-> FALSE]
Packed(t, k) == [text |-> t, size |-> k, z |-> TRUE]
PlainFiles ==
    {<<Plain(a), Plain(b)>> : a \in FileTexts, b \in {<<>>, <<1>>, <<1, 0>>, <<0, 1, 1>>}}
        \cup {<<Plain(a), Plain(<<>>), Plain(<<1, 0>>)>> : a \in FileTexts}
PackedFiles == {<<Packed(a, k), Packed(b, 3)>> : a \in FullTexts, b \in {<<1>>, <<1, 0>>, <<1, 0, 1>>}, k \in {2, 5}}

\* a worker's range ends together with a file that has no newline at its end
OpenEnded(fs, p) ==
    \E rank \in 0..(p - 1), i \in 0..(Len(fs) - 2) :
        /\ I!CalculateLocalRange(I!total_size(fs), p, rank).end = I!size_inc_psum(fs, i)
        /\ fs[i + 1].text # <<>> /\ I!Last(fs[i + 1].text) # I!NL

CallReadLines == Return("ReadLines") /\ \E r \in I!ReadLinesNode(arg.fs, arg.p, arg.rs) : out' = <<r>>

\* read_lines.hpp, "creates an ordered DIA": the workers together deliver every
\* line of every file once and in order.
DeliversEachLine == Returned("ReadLines") => res # I!Crashed /\ I!FlattenSeq(res) = LinesOfAll(arg.fs)

NoneIdle(fs, p) == \A rank \in 0..(p - 1) : ~I!Idle(fs, p, rank)
\* ReadLines: so it is, wherever the workers' shares of the bytes, the blocks read
\* and the files end, if no range ends together with a file whose last line has
\* no newline; compressed files go whole to one worker.  What a worker does whose
\* share is empty is undefined: if it gets by, the lines are delivered.
ReadsEachLineOnce ==
    Returned("ReadLines") /\ (I!contains_compressed(arg.fs) \/ ~OpenEnded(arg.fs, arg.p)) =>
        /\ NoneIdle(arg.fs, arg.p) => DeliversEachLine
        /\ res # I!Crashed => DeliversEachLine

(***************************************************************************)
(* ReadBinary: file i holds sizes[i] bytes.                                *)
(***************************************************************************)
Sized(n) == [text |-> [i \in 1..n |-> i], size |-> n, z |-> FALSE]
BinaryCalls ==
    {[fs |-> <<Sized(a), Sized(b), Sized(c)>>, p |-> p, item |-> k, block |-> bs] :
        a \in {0, 6}, b \in {0, 6, 12}, c \in {0, 6}, p \in 1..4, k \in {1, 2, 3}, bs \in {2, 4, 5}}
CallReadBinary ==
    /\ Return("ReadBinary")
    /\ out' = <<[fixed |-> [w \in 1..arg.p |-> I!ReadBinaryFixed(arg.fs, arg.p, w - 1, arg.item, arg.block, 99)],
                 whole |-> I!FlattenSeq([w \in 1..arg.p |-> I!ReadBinaryWhole(arg.fs, arg.p, w - 1, 99)]),
                 read |-> I!NextBlocks(arg.fs[2].text, arg.fs[2].size, arg.block)]>>
\* the places of the items that start in a Block, in bytes of the file
StartsIn(f, b, item) == {[nr |-> f.nr, at |-> b.off + b.first + k * item] : k \in 0..(b.n - 1)}

\* ReadBinary with items of fixed size: the Blocks that the workers map hold
\* together as many item starts as there are items, each where an item starts,
\* although Blocks cut items; a Block's first item and number of items are right.
\* Otherwise every file that has bytes is read once, by one worker, and the
\* Blocks read from it are its bytes.
ReadsBinaryOnce ==
    Returned("ReadBinary") =>
        /\ LET blocks == I!FlattenSeq(I!FlattenSeq([w \in DOMAIN res.fixed |->
                             [j \in DOMAIN res.fixed[w] |-> [k \in DOMAIN res.fixed[w][j].blocks |-> <<res.fixed[w][j], res.fixed[w][j].blocks[k]>>]]]))
               starts == UNION {StartsIn(blocks[j][1], blocks[j][2], arg.item) : j \in DOMAIN blocks}
           IN /\ starts = UNION {{[nr |-> i - 1, at |-> k * arg.item] : k \in 0..((arg.fs[i].size \div arg.item) - 1)} : i \in DOMAIN arg.fs}
              /\ I!FoldLeft(LAMBDA n, b : n + b[2].n, 0, blocks) = Cardinality(starts)
              /\ \A j \in DOMAIN blocks : blocks[j][2].first + ((blocks[j][2].n - 1) * arg.item) < blocks[j][2].size
        /\ SelectSeq(res.whole, LAMBDA i : arg.fs[i + 1].size > 0) = SelectSeq([i \in DOMAIN arg.fs |-> i - 1], LAMBDA i : arg.fs[i + 1].size > 0)
        /\ I!FlattenSeq(res.read) = arg.fs[2].text

(***************************************************************************)
(* WriteLines, WriteLinesOne.                                              *)
(***************************************************************************)
SomeLines == {<<>>, <<1>>, <<2, 3, 4>>}
LineDias == {<<a, b>> : a \in [1..3 -> SomeLines], b \in UNION {[1..n -> SomeLines] : n \in 0..1}}
ManyLines == [i \in 1..12 |-> <<i>>]
WriteCalls ==
    {[dia |-> d, target |-> t, buffer |-> m, width |-> 1] : d \in LineDias, t \in {2, 5, 50}, m \in {3, 4, 50}}
        \cup {[dia |-> <<ManyLines>>, target |-> 1, buffer |-> 2, width |-> v] : v \in {1, 2}}
CallWriteLines ==
    /\ Return("WriteLines")
    /\ out' = <<[files |-> I!Glob(I!WriteLines(arg.dia, arg.target, arg.buffer, arg.width)), one |-> I!WriteLinesOne(arg.dia)]>>

\* WriteLines, then ReadLines of the same pattern: the files, in the order in
\* which Glob lists them, hold the lines in the order of the DIA, each with its
\* newline, whatever the buffer and the size of the files; as long as the numbers
\* of the files fit the pattern's placeholder, for names are listed as text.
\* WriteLinesOne gives the same text in one file.
WritesLinesInOrder ==
    Returned("WriteLines") =>
        LET text == I!Chars(I!FlattenSeq(arg.dia))
        IN /\ res.one = text
           /\ Len(res.files) <= 10 ^ arg.width => I!FlattenSeq(res.files) = text

IOInit == Called("ReadLines", [fs : PlainFiles, p : 1..4, rs : {1, 3}] \cup [fs : PackedFiles, p : 1..3, rs : {2, 5}])
          \/ Called("ReadBinary", BinaryCalls) \/ Called("WriteLines", WriteCalls)
IONext == CallReadLines \/ CallReadBinary \/ CallWriteLines

(***************************************************************************)
(* Bytes of three bits and a flag; words of 8 and of 10 bits, whose        *)
(* varints have three bytes (the last with two bits) and four (with one).  *)
(* Buffers of four bytes first, which double up to eight.                  *)
(***************************************************************************)
B == INSTANCE Buffers WITH Group <- 8, Doubling <- 8, FirstSize <- 4

Some(n) == [i \in 1..n |-> (3 * i) % 7]
BuilderCalls ==
    {<<"append", Some(1)>>, <<"append", Some(5)>>, <<"append", Some(9)>>, <<"align", 4>>, <<"assign", Some(3)>>,
     <<"reserve", 6>>, <<"clear">>}
Words1 == {256, 1024}

\* <<type, values>>: fixed and variable parts nested in each other
Pod2 == <<"pod", 2>>
Str == <<"string">>
Strings == {<<>>, Some(2), Some(9)}
Samples ==
  <<<<Pod2, {Some(2), <<0, 9>>}>>, <<Str, Strings \cup {Some(70)}>>,
     <<<<"tuple", <<Pod2, Str>>>>, {<<Some(2), s>> : s \in Strings}>>,
     <<<<"tuple", <<Pod2, <<"pod", 1>>>>>>, {<<Some(2), <<5>>>>}>>,
     <<<<"tuple", <<>>>>, {<<>>}>>,
     <<<<"vector", Str>>, UNION {[1..n -> Strings] : n \in 0..2}>>,
     <<<<"vector", <<"tuple", <<Str, Pod2>>>>>>, {<<>>, <<<<Some(9), Some(2)>>, <<<<>>, <<1, 2>>>>>>}>>,
     <<<<"array", 2, Pod2>>, {<<Some(2), <<1, 15>>>>}>>,
     <<<<"array", 2, <<"vector", Pod2>>>>, {<<<<>>, <<Some(2)>>>>}>>>>

BuffersInit ==
    \/ Called("Builder", [calls : UNION {[1..n -> BuilderCalls] : n \in 0..4}])
    \/ Called("PutVarint", [v : 0..1023, word : Words1])
    \/ Called("GetVarint", [bytes : UNION {[1..n -> {0, 1, 3, 4, 7, 8, 15}] : n \in 0..4}, word : Words1])
    \/ \E i \in DOMAIN Samples : Called("Serialize", [type : {Samples[i][1]}, x : Samples[i][2], y : Samples[i][2]])
    \/ Called("Transfer", [size : 0..3, kernel : UNION {[1..n -> {"byte", "EAGAIN", "closed", "error"}] : n \in 0..3}, again : BOOLEAN, send : BOOLEAN])
CallBuffers ==
    \/ Return("Builder") /\ out' = <<B!Build(arg.calls)>>
    \/ Return("PutVarint") /\ out' = <<B!GetVarint(<<0>> \o B!PutVarint(arg.v) \o <<15>>, 2, arg.word)>>
    \/ Return("GetVarint") /\ out' = <<B!GetVarint(arg.bytes, 1, arg.word)>>
    \/ /\ Return("Serialize")
       /\ LET bytes == B!Serialize(arg.type, arg.x) \o B!Serialize(arg.type, arg.y)
          IN out' = <<[bytes |-> bytes, back |-> B!DeserializeAll(<<arg.type, arg.type>>, bytes, 1, 1024),
                       cut |-> B!DeserializeAll(<<arg.type, arg.type>>, SubSeq(bytes, 1, Len(bytes) - 1), 1, 1024)]>>
    \/ /\ Return("Transfer")
       /\ out' = <<IF arg.send THEN B!Send(arg.size, arg.kernel, arg.again) ELSE B!Recv(arg.size, arg.kernel, arg.again)>>

\* BufferBuilder: whatever the order of appending, aligning, assigning, clearing
\* and reserving, the buffer holds exactly what was put, and no call writes
\* behind the memory it has reserved.
BuilderHoldsAll ==
    Returned("Builder") =>
        LET Naive(s, call) ==
                CASE call[1] = "append" -> s \o call[2]
                  [] call[1] = "align" -> s \o [i \in 1..((4 - (Len(s) % 4)) % 4) |-> 0]
                  [] call[1] = "assign" -> call[2]
                  [] call[1] = "reserve" -> s
                  [] call[1] = "clear" -> <<>>
        IN res.size <= Len(res.data) /\ B!ToBuffer(res) = B!FoldLeft(Naive, <<>>, arg.calls)

\* PutVarint, GetVarint: every number of the word comes back, at the thresholds
\* between two lengths, too, and the reader stops right behind it; a number that
\* does not fit into the word is refused with an exception, never cut.
VarintsRoundTrip ==
    /\ Returned("PutVarint") =>
        IF arg.v < arg.word THEN ~res.thrown /\ res.got = arg.v /\ res.at = 2 + Len(B!PutVarint(arg.v)) ELSE res.thrown
    /\ Returned("GetVarint") /\ ~res.thrown =>
        LET used == SubSeq(arg.bytes, 1, res.at - 1)
        IN /\ res.got < arg.word
           /\ res.got = B!FoldRight(LAMBDA u, v : 8 * v + (u % 8), used, 0)
           /\ used[Len(used)] < 8 /\ \A i \in 1..(Len(used) - 1) : used[i] >= 8

\* Serialization: two items of any type, written one after the other, are read
\* back; a missing last byte is an exception and not another item; and what has
\* is_fixed_size has fixed_size bytes, on which the random access in a File and
\* the sorting of raw bytes rely.
SerializesExactly ==
    Returned("Serialize") =>
        /\ ~res.back.thrown /\ res.back.got = <<arg.x, arg.y>> /\ res.back.at = Len(res.bytes) + 1
        /\ res.bytes # <<>> => res.cut.thrown
        /\ B!IsFixedSize(arg.type) => Len(res.bytes) = 2 * B!FixedSize(arg.type)

\* what the kernel answers up to the end or the error of the connection
Ends == {i \in DOMAIN arg.kernel : arg.kernel[i] \in {"closed", "error"}}
UptoEnd == IF Ends = {} THEN arg.kernel ELSE SubSeq(arg.kernel, 1, (CHOOSE i \in Ends : \A j \in Ends : i <= j) - 1)
Moved == Len(SelectSeq(UptoEnd, LAMBDA k : k = "byte"))
\* socket.hpp, "retry sends if short-sends occur": interrupted as they may be,
\* Socket::send and Socket::recv return when all bytes are moved, each once, and
\* otherwise report the error or the closed connection.
TransfersOrReports ==
    Returned("Transfer") =>
        /\ res.done = (IF Moved >= arg.size THEN arg.size ELSE Moved)
        /\ (res.how = "all") = (Moved >= arg.size)
        /\ res.how = "waits" => Ends = {}
        /\ res.how # "spins"
\* Socket::send, Socket::recv: so it is, if errno is not EAGAIN from before.
TransfersWhole ==
    Returned("Transfer") /\ ~(arg.again \/ \E i \in DOMAIN UptoEnd : UptoEnd[i] = "EAGAIN") => TransfersOrReports

(***************************************************************************)
(* The streams of vfs/, each on its own: S3 with every listing of up to    *)
(* six entries in pages of three, an object of six bytes, parts of two;    *)
(* the filters with a buffer of three, libraries that hold up to three and   *)
(* archives of up to three members, empty ones included; two threads with  *)
(* files behind child processes and pipes of one byte.                     *)
(***************************************************************************)
VARIABLES
    lister, reader, writer,
    kind, wf, rf,
    mode, sysPc, child, fds, pipe, passed
s3Vars == <<lister, reader, writer>>
filterVars == <<kind, wf, rf>>
sysVars == <<mode, sysPc, child, fds, pipe, passed>>
vfsVars == <<s3Vars, filterVars, sysVars>>
NoS3 == lister = Nil /\ reader = Nil /\ writer = Nil
NoFilter == kind = Nil /\ wf = Nil /\ rf = Nil
NoSys == mode = Nil /\ sysPc = Nil /\ child = Nil /\ fds = Nil /\ pipe = Nil /\ passed = Nil
NoVFS == NoS3 /\ NoFilter /\ NoSys

V == INSTANCE S3Files WITH ObjectSize <- 6, Ranges <- {<<0, 0>>, <<0, 6>>, <<2, 0>>, <<1, 5>>}, ReadSizes <- {1, 2, 4},
        MaxCallbacks <- 2, PartSize <- 2, WriteSizes <- {0, 1, 3, 5}, MaxWritten <- 7,
        Buckets <- UNION {[1..n -> {"file", "dir"}] : n \in 0..6}, PageSize <- 3
Z == INSTANCE Filters WITH Kinds <- {"gz", "bz2"}, BufferSize <- 3, Inside <- 3, WriteSizes <- {1, 2, 3, 5}, MaxWritten <- 9,
        Archives <- UNION {[1..n -> {0, 1, 3}] : n \in 0..2} \cup {<<2, 0, 1>>}, ReadSizes <- {1, 2, 4}
Y == INSTANCE SysFiles WITH pc <- sysPc, moved <- passed, Streams <- {1, 2}, Size <- 2, PipeSize <- 1

VFSInit ==
    \/ OnlyOp("s3") /\ V!S3Init /\ NoFilter /\ NoSys
    \/ OnlyOp("filter") /\ Z!FilterInit /\ NoS3 /\ NoSys
    \/ OnlyOp("sys") /\ Y!SysInit /\ NoS3 /\ NoFilter
VFSNext ==
    \/ op = "s3" /\ V!S3Next /\ UNCHANGED <<opVars, filterVars, sysVars>>
    \/ op = "filter" /\ Z!FilterNext /\ UNCHANGED <<opVars, s3Vars, sysVars>>
    \/ op = "sys" /\ Y!SysNext /\ UNCHANGED <<opVars, s3Vars, filterVars>>

\* S3Glob: see ListsFilesOnce.
S3ListsOnce == op = "s3" => V!ListsFilesOnce
\* S3ReadStream: see ReadsRangeInOrder.
S3ReadsInOrder == op = "s3" => V!ReadsRangeInOrder
\* S3ReadStream: see ShortReadsAreLast.
S3ShortReadsLast == op = "s3" => V!ShortReadsAreLast
\* S3WriteStream: see CommitsNoHole.
S3CommitsWhole == op = "s3" => V!CommitsNoHole
\* GZipWriteFilter, BZip2WriteFilter: see CompressesInOrder.
FiltersCompress == op = "filter" => Z!CompressesInOrder
\* GZipReadFilter, BZip2ReadFilter: see DecompressesInOrder.
FiltersDecompress == op = "filter" => Z!DecompressesInOrder
\* SysFile: see ClosedIsWhole.
SysClosedIsWhole == op = "sys" => Y!ClosedIsWhole
\* SysFile: see NoneWaitsForever.
SysNoneWaits == op = "sys" => Y!NoneWaitsForever
=============================================================================
