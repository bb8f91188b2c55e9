------------------------------ MODULE Filters ------------------------------
(***************************************************************************)
(* vfs/gzip_filter.cpp and vfs/bzip2_filter.cpp: streams that compress     *)
(* what is written to them and decompress what is read.  zlib and libbz2   *)
(* are external: they consume input and fill the output area until one of  *)
(* the two is used up, keep data inside in between, and report when they   *)
(* can do nothing.  Bytes are numbers; Z(b) is b compressed.               *)
(***************************************************************************)
EXTENDS Integers, Sequences, FiniteSets, SequencesExt
CONSTANTS
    Kinds,         \* subset of {"gz", "bz2"}
    BufferSize,    \* buffer_.size(), 2 MiB
    Inside,        \* what a compressor holds at most
    WriteSizes,    \* what callers of write() give
    MaxWritten,    \* bounds the bytes that are written
    Archives,      \* sequences of members, each the number of its bytes
    ReadSizes      \* what callers of read() ask for

VARIABLES
    kind,   \* which filter
    wf,     \* the write filter and its output_
    rf      \* the read filter and its input_
filterVars == <<kind, wf, rf>>

None == [pc |-> "none"]
Z(b) == <<"z", b>>
End == <<"end">>   \* the trailer of a member
Compressed(bytes) == [i \in DOMAIN bytes |-> Z(bytes[i])]
Numbers(from, to) == [i \in 1..(to - from) |-> from + i]
AvailOut(w) == BufferSize - Len(w.buffer)

(***************************************************************************)
(* External: deflate(Z_NO_FLUSH), BZ2_bzCompress(BZ_RUN) and their finish. *)
(* in is what next_in points to, inside what the library holds.            *)
(***************************************************************************)
Emit(w, consumed, emitted, all) ==
    [w EXCEPT !.in = SubSeq(@, consumed + 1, Len(@)),
              !.buffer = @ \o SubSeq(all, 1, emitted), !.inside = SubSeq(all, emitted + 1, Len(all))]
Progress(w, codes) ==
    LET moves == {m \in (0..Len(w.in)) \X (0..AvailOut(w)) :
                    /\ m[1] + m[2] > 0 /\ m[2] <= Len(w.inside) + m[1] /\ Len(w.inside) + m[1] - m[2] <= Inside
                    /\ m[1] = Len(w.in) \/ m[2] = AvailOut(w)}
        most == {m \in moves : \A n \in moves : n[2] = m[2] => n[1] <= m[1]}
    IN {[err |-> codes.ok, w |-> Emit(w, m[1], m[2], w.inside \o Compressed(SubSeq(w.in, 1, m[1])))] : m \in most}
Run(w) ==
    LET codes == IF kind = "gz" THEN [ok |-> "OK", stuck |-> "BUF_ERROR"] ELSE [ok |-> "RUN_OK", stuck |-> "PARAM_ERROR"]
        done == IF kind = "gz" /\ AvailOut(w) = 0 THEN {} ELSE Progress(w, codes)
    IN IF done = {} THEN {[err |-> codes.stuck, w |-> w]} ELSE done
Finish(w) ==
    LET all == IF w.ending THEN w.inside ELSE Append(w.inside, End)
        w2 == Emit([w EXCEPT !.ending = TRUE], 0, IF Len(all) < AvailOut(w) THEN Len(all) ELSE AvailOut(w), all)
    IN IF AvailOut(w) = 0 THEN [err |-> IF kind = "gz" THEN "BUF_ERROR" ELSE "SEQUENCE_ERROR", w |-> w]
       ELSE [err |-> IF w2.inside = <<>> THEN "STREAM_END" ELSE IF kind = "gz" THEN "OK" ELSE "FINISH_OK", w |-> w2]

(***************************************************************************)
(* GZipWriteFilter, BZip2WriteFilter                                       *)
(***************************************************************************)
NewWriteFilter ==
    [pc |-> "idle", in |-> <<>>, inside |-> <<>>, ending |-> FALSE, buffer |-> <<>>, file |-> <<>>, given |-> 0,
     full |-> FALSE]   \* history: the buffer was full and has not been flushed at once
Flush(w) == [w EXCEPT !.file = @ \o w.buffer, !.buffer = <<>>]
Noted(w) == [w EXCEPT !.full = @ \/ AvailOut(w) = 0]

\* a call of write()
Write(n) ==
    /\ wf.pc = "idle" /\ wf.given + n <= MaxWritten
    /\ wf' = [wf EXCEPT !.pc = "write", !.in = Numbers(wf.given, wf.given + n), !.given = @ + n]
    /\ UNCHANGED <<kind, rf>>

\* a round of its loop: BZip2WriteFilter asks for BZ_OK, which BZ_RUN never returns
Flushes(err) == err = "OK"
Goes == IF kind = "gz" THEN "OK" ELSE "RUN_OK"
AfterRun_Dropped(o) ==
    LET w == IF Flushes(o.err) /\ o.w.in # <<>> THEN [o.w EXCEPT !.buffer = <<>>] ELSE o.w
    IN IF o.err # Goes THEN [w EXCEPT !.pc = "died"] ELSE IF w.in = <<>> THEN [Noted(w) EXCEPT !.pc = "idle"] ELSE Noted(w)
AfterRun(o) ==
    LET w == IF Flushes(o.err) /\ o.w.in # <<>> THEN Flush(o.w) ELSE o.w
    IN IF o.err # Goes THEN [w EXCEPT !.pc = "died"] ELSE IF w.in = <<>> THEN [Noted(w) EXCEPT !.pc = "idle"] ELSE Noted(w)
WriteRound ==
    /\ wf.pc = "write"
    /\ \E o \in Run(wf) : wf' = AfterRun(o)
    /\ UNCHANGED <<kind, rf>>

\* close()
StartClose == wf.pc = "idle" /\ wf' = [wf EXCEPT !.pc = "finish"] /\ UNCHANGED <<kind, rf>>
\* a round of its loop and, behind the last, the remaining data; only
\* BZip2WriteFilter looks at how the loop has ended
FinishRound ==
    /\ wf.pc = "finish"
    /\ LET o == Finish(wf)
           w == IF o.err \in {"OK", "FINISH_OK"} /\ o.w.in # <<>> THEN Flush(o.w) ELSE o.w
       IN wf' = IF o.err \in {"OK", "FINISH_OK"} THEN Noted(w)
                ELSE IF kind = "bz2" /\ o.err # "STREAM_END" THEN [w EXCEPT !.pc = "died"]
                ELSE [Flush(w) EXCEPT !.pc = "closed"]
    /\ UNCHANGED <<kind, rf>>

(***************************************************************************)
(* GZipReadFilter, BZip2ReadFilter                                         *)
(***************************************************************************)
ArchiveOf(members) ==
    LET Before(i) == FoldLeft(+, 0, SubSeq(members, 1, i - 1))
    IN FlattenSeq([i \in DOMAIN members |-> Compressed(Numbers(Before(i), Before(i) + members[i])) \o <<End>>])
NewReadFilter(members) ==
    [pc |-> "idle", total |-> FoldLeft(+, 0, members), members |-> Len(members), input |-> ArchiveOf(members),
     buffer |-> <<>>, err |-> "OK", out |-> <<>>, size |-> 0, got |-> <<>>, eof |-> FALSE]
Return(r) == [r EXCEPT !.pc = "idle", !.got = @ \o r.out, !.out = <<>>, !.eof = @ \/ Len(r.out) < r.size]

\* a call of read()
Read(size) == rf.pc = "idle" /\ rf' = [rf EXCEPT !.pc = "read", !.size = size, !.out = <<>>] /\ UNCHANGED <<kind, wf>>

\* the input buffer is empty: input_->read() returns some of what there is
Fill(n) ==
    /\ rf.pc = "read" /\ rf.buffer = <<>> /\ n <= Len(rf.input) /\ (n = 0 => rf.input = <<>>)
    /\ rf' = IF n = 0 THEN Return(rf)
             ELSE [rf EXCEPT !.buffer = SubSeq(rf.input, 1, n), !.input = SubSeq(@, n + 1, Len(@))]
    /\ UNCHANGED <<kind, wf>>

\* external: inflate() and BZ2_bzDecompress(): up to the end of the member, of
\* the input or of the output area; behind the end of a member libbz2 refuses
Inflate(r) ==
    LET upto == {i \in 0..Len(r.buffer) : i <= r.size - Len(r.out) /\ \A j \in 1..i : r.buffer[j] # End}
        n == CHOOSE i \in upto : \A j \in upto : j <= i
        moved == [r EXCEPT !.out = @ \o [i \in 1..n |-> r.buffer[i][2]], !.buffer = SubSeq(@, n + 1, Len(@)), !.err = "OK"]
    IN IF kind = "bz2" /\ r.err # "OK" THEN [r EXCEPT !.err = "SEQUENCE_ERROR"]
       ELSE IF n < r.size - Len(r.out) /\ moved.buffer # <<>> THEN [moved EXCEPT !.buffer = Tail(@), !.err = "STREAM_END"]
       ELSE moved
\* a round of the loop with input: GZipReadFilter goes on with the next member
\* (inflateReset), BZip2ReadFilter returns what it has
ReadRound_StopAtEnd ==
    /\ rf.pc = "read" /\ rf.buffer # <<>>
    /\ LET r == Inflate(rf)
       IN rf' = IF r.err = "STREAM_END" \/ Len(r.out) = r.size THEN Return(r) ELSE r
    /\ UNCHANGED <<kind, wf>>
ReadRound ==
    /\ rf.pc = "read" /\ rf.buffer # <<>>
    /\ LET r == Inflate(rf)
       IN rf' = IF kind = "bz2" /\ r.err = "STREAM_END" THEN Return(r)
                ELSE IF Len(r.out) = r.size THEN Return(r)
                ELSE IF r.err = "SEQUENCE_ERROR" THEN [r EXCEPT !.pc = "died"]
                ELSE r
    /\ UNCHANGED <<kind, wf>>

----------------------------------------------------------------------------
FilterInit ==
    /\ kind \in Kinds
    /\ \/ wf = NewWriteFilter /\ rf = None
       \/ wf = None /\ rf \in {NewReadFilter(a) : a \in Archives}
FilterNext ==
    \/ (\E n \in WriteSizes : Write(n)) \/ WriteRound \/ StartClose \/ FinishRound
    \/ (\E n \in ReadSizes : Read(n)) \/ (\E n \in 0..MaxWritten : Fill(n)) \/ ReadRound
FilterSpec == FilterInit /\ [][FilterNext]_filterVars

(***************************************************************************)
(* Properties                                                              *)
(***************************************************************************)
\* gzip_filter.cpp and bzip2_filter.cpp, "buffer is full, write to output" and
\* "write remaining data": the filter does not die, and a file that was closed
\* has all that was written.
CompressesAll ==
    wf.pc # "none" =>
        /\ wf.pc # "died"
        /\ wf.pc = "closed" => wf.file = Append(Compressed(Numbers(0, wf.given)), End)

\* The write filters: so it is if the buffer is flushed whenever it is full.  And
\* in every case the file, the buffer and what the library holds are, in this
\* order, what was written so far, compressed: a flush neither drops nor repeats,
\* the file has an end only when it has all, and a closed bzip2 file is whole.
CompressesInOrder ==
    wf.pc # "none" =>
        LET all == wf.file \o wf.buffer \o wf.inside
            data == Compressed(Numbers(0, wf.given - Len(wf.in)))
        IN /\ ~wf.full => CompressesAll
           /\ all = data \/ all = Append(data, End)
           /\ wf.ending => wf.in = <<>>
           /\ wf.pc = "closed" /\ kind = "bz2" => CompressesAll

\* The read filters: what read() returns is what the members hold, in order, up
\* to the end of the last one; of a bzip2 file that has one member, behind which
\* this filter does not go on.
DecompressesInOrder ==
    rf.pc # "none" =>
        /\ rf.got \o rf.out = Numbers(0, Len(rf.got \o rf.out))
        /\ kind = "gz" \/ rf.members = 1 => rf.pc # "died" /\ (rf.eof /\ rf.pc = "idle" => Len(rf.got) = rf.total)
=============================================================================
