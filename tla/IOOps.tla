------------------------------- MODULE IOOps -------------------------------
(***************************************************************************)
(* Reading and writing files (thrill/api/read_lines.hpp, read_binary.hpp,  *)
(* write_lines.hpp, write_lines_one.hpp, thrill/vfs/file_io.cpp).  Workers *)
(* share the bytes of the files evenly, wherever lines, items and files    *)
(* end.  A file is [text, size, z]: its characters, the size the file      *)
(* system reports and whether it is compressed, in which case the size is  *)
(* not the length of the text.  File numbers and offsets count from 0.     *)
(***************************************************************************)
EXTENDS Workers

NL == 0   \* '\n'
SumOf(s) == FoldLeft(+, 0, s)

(***************************************************************************)
(* vfs::Glob and FileList.                                                 *)
(***************************************************************************)
total_size(fs) == SumOf([i \in DOMAIN fs |-> fs[i].size])
size_ex_psum(fs, i) == SumOf([j \in 1..(IF i < Len(fs) THEN i ELSE Len(fs)) |-> fs[j].size])
size_inc_psum(fs, i) == size_ex_psum(fs, i) + fs[i + 1].size
contains_compressed(fs) == \E i \in DOMAIN fs : fs[i].z

\* FillFilePattern: the numbers of the worker and of the part, zero-filled to
\* the width of the placeholder, cut one digit after it; Glob sorts by name.
RECURSIVE Digits(_)
Digits(n) == IF n < 10 THEN <<n>> ELSE Digits(n \div 10) \o <<n % 10>>
Filled(n, width) ==
    LET d == Digits(n)
        z == [i \in 1..(IF Len(d) < width THEN width - Len(d) ELSE 0) |-> 0] \o d
    IN SubSeq(z, 1, IF Len(z) < width + 1 THEN Len(z) ELSE width + 1)
FillFilePattern(worker, part, width) == Filled(worker, 4) \o Filled(part, width)
NameBefore(a, b) ==
    LET k == Min({j \in 1..(Len(a) + 1) : j > Len(a) \/ j > Len(b) \/ a[j] # b[j]})
    IN k <= Len(b) /\ (k > Len(a) \/ a[k] < b[k])
\* the contents in the order in which Glob lists the names
RECURSIVE Glob(_)
Glob(named) ==
    IF named = {} THEN <<>>
    ELSE LET f == CHOOSE x \in named : \A y \in named : ~NameBefore(y.name, x.name)
         IN <<f.text>> \o Glob(named \ {f})

(***************************************************************************)
(* ReadLinesNode.  The iterator: file_nr_, offset_, what is left of the    *)
(* open stream, the buffer, the index of current_ in it, and data_.        *)
(***************************************************************************)
OpenReadStream(f, from) == SubSeq(f.text, from + 1, Len(f.text))

\* ReadBlock: the file system gives read_size bytes as long as there are any
ReadBlock(it, read_size) ==
    LET k == IF Len(it.rest) < read_size THEN Len(it.rest) ELSE read_size
    IN [it EXCEPT !.buf = SubSeq(it.rest, 1, k), !.rest = SubSeq(it.rest, k + 1, Len(it.rest)), !.cur = 0]
AtBufferEnd(it) == it.cur >= Len(it.buf)
Char(it) == it.buf[it.cur + 1]

\* the first file that reaches beyond the begin of the worker's range
FirstFile(fs, from) == Min({i \in 0..(Len(fs) - 1) : size_inc_psum(fs, i) > from} \cup {Len(fs)})

\* the rest of a line that began in front of the range belongs to another worker
RECURSIVE SkipPartialLine(_, _)
SkipPartialLine(it, read_size) ==
    IF ~AtBufferEnd(it)
    THEN IF Char(it) = NL THEN [it EXCEPT !.cur = @ + 1] ELSE SkipPartialLine([it EXCEPT !.cur = @ + 1], read_size)
    ELSE LET x == ReadBlock([it EXCEPT !.off = @ + Len(it.buf)], read_size)
         IN IF x.buf = <<>> THEN x ELSE SkipPartialLine(x, read_size)

InputLineIteratorUncompressed_KeepsPartial(fs, range, read_size) ==
    LET nr == FirstFile(fs, range.begin)
        off == range.begin - size_ex_psum(fs, nr)
    IN ReadBlock([nr |-> nr, off |-> off, rest |-> OpenReadStream(fs[nr + 1], off), buf |-> <<>>, cur |-> 0], read_size)
InputLineIteratorUncompressed(fs, range, read_size) ==
    LET nr == FirstFile(fs, range.begin)
        off == range.begin - size_ex_psum(fs, nr)
        it == ReadBlock([nr |-> nr, off |-> off, rest |-> OpenReadStream(fs[nr + 1], off), buf |-> <<>>, cur |-> 0], read_size)
    IN IF off = 0 THEN it ELSE SkipPartialLine(it, read_size)

\* Next: characters up to a newline or to the end of the file; at the end of a
\* file the next one is opened, and the search goes on if nothing was read
NextFile(fs, it, read_size) ==
    LET n == [it EXCEPT !.nr = @ + 1, !.off = 0]
    IN IF n.nr < Len(fs) THEN ReadBlock([n EXCEPT !.rest = OpenReadStream(fs[n.nr + 1], 0)], read_size)
       ELSE [n EXCEPT !.cur = fs[n.nr].size]
RECURSIVE NextLine(_, _, _, _)
NextLine(fs, it, data, read_size) ==
    IF ~AtBufferEnd(it)
    THEN IF Char(it) = NL THEN [it |-> [it EXCEPT !.cur = @ + 1], line |-> data]
         ELSE NextLine(fs, [it EXCEPT !.cur = @ + 1], Append(data, Char(it)), read_size)
    ELSE LET x == ReadBlock([it EXCEPT !.off = @ + Len(it.buf)], read_size)
             y == NextFile(fs, x, read_size)
         IN IF x.buf # <<>> THEN NextLine(fs, x, data, read_size)
            ELSE IF data # <<>> THEN [it |-> y, line |-> data]
            ELSE NextLine(fs, y, data, read_size)

HasNextLine(fs, it, end) ==
    LET global_index == it.off + it.cur + size_ex_psum(fs, it.nr)
    IN global_index < end \/ (global_index = end /\ it.nr < Len(fs) /\ fs[it.nr + 1].size > it.off + it.cur)

RECURSIVE PushLines(_, _, _, _)
PushLines(fs, it, end, read_size) ==
    IF ~HasNextLine(fs, it, end) THEN <<>>
    ELSE LET x == NextLine(fs, it, <<>>, read_size) IN <<x.line>> \o PushLines(fs, x.it, end, read_size)

(***************************************************************************)
(* Compressed files are read as a whole, by the worker in whose range the  *)
(* middle of the file lies.                                                *)
(***************************************************************************)
MiddleOf(fs, i) == (size_inc_psum(fs, i) + size_ex_psum(fs, i)) \div 2
FirstWhole(fs, from) == Min({i \in 0..(Len(fs) - 1) : MiddleOf(fs, i) > from} \cup {Len(fs)})
\* the new end of the range: in front of the first file whose middle lies behind it
EndWhole(fs, first, end) ==
    LET stop == {i \in first..(Len(fs) - 1) : MiddleOf(fs, i) >= end}
    IN IF stop = {} \/ MiddleOf(fs, Min(stop)) = end THEN end ELSE size_ex_psum(fs, Min(stop))

OpenWhole(fs, nr, read_size) ==
    ReadBlock([nr |-> nr, off |-> 0, rest |-> fs[nr + 1].text, buf |-> <<>>, cur |-> 0], read_size)

\* HasNext may read on and open the next file; its result and the iterator
HasNextWhole(fs, it, end, read_size) ==
    LET x == ReadBlock(it, read_size)
    IN IF size_ex_psum(fs, it.nr) >= end THEN [it |-> it, yes |-> FALSE]
       ELSE IF ~(AtBufferEnd(it) \/ (it.cur + 1 >= Len(it.buf) /\ Char(it) = NL)) THEN [it |-> it, yes |-> TRUE]
       ELSE IF Len(x.buf) > 1 \/ (Len(x.buf) = 1 /\ x.buf[1] # NL) THEN [it |-> x, yes |-> TRUE]
       ELSE IF x.nr >= Len(fs) - 1 \/ end <= size_inc_psum(fs, x.nr) THEN [it |-> x, yes |-> FALSE]
       ELSE [it |-> OpenWhole(fs, x.nr + 1, read_size), yes |-> TRUE]
RECURSIVE PushWhole(_, _, _, _)
PushWhole(fs, it, end, read_size) ==
    LET h == HasNextWhole(fs, it, end, read_size)
    IN IF ~h.yes THEN <<>>
       ELSE LET x == NextLine(fs, h.it, <<>>, read_size) IN <<x.line>> \o PushWhole(fs, x.it, end, read_size)

InputLineIteratorCompressed(fs, range, read_size) ==
    LET nr == FirstWhole(fs, range.begin)
        end == EndWhole(fs, nr, range.end)
    IN IF nr = Len(fs) \/ range.begin >= end THEN <<>> ELSE PushWhole(fs, OpenWhole(fs, nr, read_size), end, read_size)

\* PushData of one worker: the lines it delivers.  Without a byte of its own
\* the iterator's current_ and file_nr_ stay uninitialized, and HasNext says by
\* chance that there is nothing, or that there is and Next uses a null stream.
Idle(fs, p, rank) ==
    LET range == CalculateLocalRange(total_size(fs), p, rank) IN ~contains_compressed(fs) /\ range.begin = range.end
WorkerLines(fs, p, rank, read_size) ==
    LET range == CalculateLocalRange(total_size(fs), p, rank)
    IN IF Idle(fs, p, rank) THEN <<>>
       ELSE IF contains_compressed(fs) THEN InputLineIteratorCompressed(fs, range, read_size)
       ELSE PushLines(fs, InputLineIteratorUncompressed(fs, range, read_size), range.end, read_size)
Crashed == <<>>
ReadLinesNode(fs, p, read_size) ==
    {[w \in 1..p |-> WorkerLines(fs, p, w - 1, read_size)]}
        \cup (IF \E rank \in 0..(p - 1) : Idle(fs, p, rank) THEN {Crashed} ELSE {})

(***************************************************************************)
(* ReadBinaryNode.  Items of fixed size share the bytes item by item and   *)
(* are mapped as external Blocks [begin, end, first item, items]; else     *)
(* each worker reads the files that end in its range.                      *)
(***************************************************************************)
RangeInFile(fs, my, i) ==
    [begin |-> IF my.begin <= size_ex_psum(fs, i) THEN 0 ELSE my.begin - size_ex_psum(fs, i),
     end |-> IF my.end >= size_inc_psum(fs, i) THEN fs[i + 1].size ELSE my.end - size_ex_psum(fs, i)]

\* the loop over the Blocks of one file
RECURSIVE MapBlocks(_, _, _, _, _)
MapBlocks_NoCarry(off, end, item_off, fixed_size, block_size) ==
    IF off >= end THEN <<>>
    ELSE LET bsize == SmallerOf(off + block_size, end) - off
             n == (bsize + fixed_size - 1) \div fixed_size
         IN <<[off |-> off, size |-> bsize, first |-> 0, n |-> n]>>
            \o MapBlocks(off + block_size, end, 0, fixed_size, block_size)
MapBlocks(off, end, item_off, fixed_size, block_size) ==
    IF off >= end THEN <<>>
    ELSE LET bsize == SmallerOf(off + block_size, end) - off
             n == (bsize - item_off + fixed_size - 1) \div fixed_size
         IN <<[off |-> off, size |-> bsize, first |-> item_off, n |-> n]>>
            \o MapBlocks(off + block_size, end, item_off + n * fixed_size - bsize, fixed_size, block_size)

\* the files of a worker with its range of bytes in each of them
MyFiles(fs, my) ==
    LET from == FirstFile(fs, my.begin)
        all == [k \in 1..(Len(fs) - from) |-> [nr |-> from + k - 1, range |-> RangeInFile(fs, my, from + k - 1)]]
    IN SelectSeq(all, LAMBDA x : size_ex_psum(fs, x.nr) <= my.end /\ x.range.begin # x.range.end)

ReadBinaryFixed(fs, p, rank, fixed_size, block_size, limit) ==
    LET range == CalculateLocalRange(SmallerOf(total_size(fs), limit) \div fixed_size, p, rank)
        my == [begin |-> range.begin * fixed_size, end |-> range.end * fixed_size]
        files == MyFiles(fs, my)
    IN [k \in DOMAIN files |->
           [nr |-> files[k].nr, blocks |-> MapBlocks(files[k].range.begin, files[k].range.end, 0, fixed_size, block_size)]]

ReadBinaryWhole(fs, p, rank, limit) ==
    LET my == CalculateLocalRange(SmallerOf(total_size(fs), limit), p, rank)
    IN SelectSeq([i \in DOMAIN fs |-> i - 1],
                 LAMBDA i : i >= FirstFile(fs, my.begin) /\ size_inc_psum(fs, i) <= my.end)

\* VfsFileBlockSource: what NextBlock reads of one file, Block by Block
RECURSIVE NextBlocks(_, _, _)
NextBlocks(rest, remain, block_size) ==
    LET rb == SmallerOf(block_size, remain)
    IN IF remain = 0 \/ rest = <<>> THEN <<>>
       ELSE <<SubSeq(rest, 1, SmallerOf(rb, Len(rest)))>>
            \o NextBlocks(SubSeq(rest, rb + 1, Len(rest)), remain - rb, block_size)

(***************************************************************************)
(* WriteLinesNode: PreOp with one line, StopPreOp; files holds what was    *)
(* written to the streams, the last of them is open.                       *)
(***************************************************************************)
WriteLinesStart == [files |-> <<<<>>>>, buf |-> <<>>, fsize |-> 0]
Written(s, chars) == [s EXCEPT !.files[Len(s.files)] = @ \o chars]

\* write the buffer; start a new file when this one is large enough
FlushLines(s, target) ==
    LET t == [Written(s, s.buf) EXCEPT !.buf = <<>>, !.fsize = @ + Len(s.buf)]
    IN IF t.fsize >= target THEN [t EXCEPT !.files = Append(@, <<>>), !.fsize = 0] ELSE t
WriteLine_NoNewline(s, line, target, max_buffer) ==
    LET full == Len(s.buf) + Len(line) + 1 >= max_buffer
        t == IF full THEN FlushLines(s, target) ELSE s
    IN IF full /\ Len(line) >= max_buffer
       THEN [Written(t, line) EXCEPT !.buf = <<>>, !.fsize = @ + Len(line) + 1]
       ELSE [t EXCEPT !.buf = @ \o line \o <<NL>>]
WriteLine(s, line, target, max_buffer) ==
    LET full == Len(s.buf) + Len(line) + 1 >= max_buffer
        t == IF full THEN FlushLines(s, target) ELSE s
    IN IF full /\ Len(line) >= max_buffer
       THEN [Written(t, line) EXCEPT !.buf = <<NL>>, !.fsize = @ + Len(line) + 1]
       ELSE [t EXCEPT !.buf = @ \o line \o <<NL>>]
WriteLinesNode(lines, target, max_buffer) ==
    LET s == FoldLeft(LAMBDA a, l : WriteLine(a, l, target, max_buffer), WriteLinesStart, lines)
    IN Written(s, s.buf).files

\* all workers: the files with the names they are found by again
WriteLines(dia, target, max_buffer, width) ==
    UNION {LET out == WriteLinesNode(dia[w], target, max_buffer)
           IN {[name |-> FillFilePattern(w - 1, k - 1, width), text |-> out[k]] : k \in DOMAIN out} : w \in DOMAIN dia}

(***************************************************************************)
(* WriteLinesOneNode: every worker writes its part of one file, which the  *)
(* last worker has first made as long as all parts together.               *)
(***************************************************************************)
Chars(lines) == FlattenSeq([i \in DOMAIN lines |-> lines[i] \o <<NL>>])
Overwrite(file, at, chars) ==
    [i \in 1..LargerOf(Len(file), at + Len(chars)) |->
        IF i > at /\ i <= at + Len(chars) THEN chars[i - at] ELSE IF i <= Len(file) THEN file[i] ELSE -1]
Presized(n) == IF n = 0 THEN <<>> ELSE [i \in 1..n |-> -1]
WriteLinesOne(dia) ==
    LET parts == [w \in DOMAIN dia |-> Chars(dia[w])]
    IN FoldLeft(LAMBDA f, w : Overwrite(f, Before(parts, w), parts[w]), Presized(TotalLen(parts)), Upto(Len(dia)))
=============================================================================
