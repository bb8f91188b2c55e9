------------------------------ MODULE S3Files ------------------------------
(***************************************************************************)
(* vfs/s3_file.cpp: listing a bucket, reading a range of an object and     *)
(* writing an object in parts.  libS3 and the service behind it are        *)
(* external: a request context runs callbacks, with any amount of data in  *)
(* each, and a request may fail.  Bytes are numbers, so that one that is   *)
(* lost, doubled or moved shows.                                           *)
(***************************************************************************)
EXTENDS Integers, Sequences, FiniteSets, SequencesExt
CONSTANTS
    ObjectSize,      \* bytes of the object that is read
    Ranges,          \* the ranges it is opened with
    ReadSizes,       \* what callers of read() ask for
    MaxCallbacks,    \* bounds the data callbacks of one S3_runonce_request_context()
    PartSize,        \* buffer_max_, 16 MiB
    WriteSizes,      \* what callers of write() give
    MaxWritten,      \* bounds the bytes given to a write stream
    Buckets,         \* sequences of "file" and "dir": what a prefix lists, in order
    PageSize         \* entries of one answer of S3_list_bucket()

VARIABLES
    lister,   \* S3ListBucket, or None
    reader,   \* S3ReadStream and the callers' output, or None
    writer    \* S3WriteStream and the service's side of the upload, or None
s3Vars == <<lister, reader, writer>>

None == [pc |-> "none"]
Least(a, b) == IF a < b THEN a ELSE b
Bytes(from, to) == [i \in 1..(to - from) |-> from + i]

(***************************************************************************)
(* S3ListBucket: last_marker_, is_truncated_, filelist_                    *)
(***************************************************************************)
NewLister(bucket) == [pc |-> "list", bucket |-> bucket, marker |-> 0, list |-> <<>>, status |-> "OK"]

\* external: the entries behind the marker, at most a page of them, and whether
\* there are more
Page(l) == SelectSeq(Bytes(l.marker, Len(l.bucket)), LAMBDA i : i <= l.marker + PageSize)
IsTruncated(l) == l.marker + PageSize < Len(l.bucket)
IsFile(l, i) == l.bucket[i] = "file"

\* ListBucketCallback: files first, then the common prefixes.  The marker is the
\* key of the last file; without a file it is read in front of contents.
MarkerAfter_Listed(l, files) ==
    LET dirs == SelectSeq(Page(l), LAMBDA i : ~IsFile(l, i)) IN Last(files \o dirs)
MarkerAfter(l, files) == Last(files)
ListBucketCallback(l) ==
    LET files == SelectSeq(Page(l), LAMBDA i : IsFile(l, i))
        dirs == SelectSeq(Page(l), LAMBDA i : ~IsFile(l, i))
        listed == [l EXCEPT !.list = @ \o files \o dirs]
    IN IF files = <<>> THEN [listed EXCEPT !.pc = "undefined"]
       ELSE [listed EXCEPT !.marker = MarkerAfter(l, files), !.pc = IF IsTruncated(l) THEN "list" ELSE "sort"]

\* one round of the loop of list_bucket
ListBucket ==
    /\ lister.pc = "list"
    /\ \/ lister' = [lister EXCEPT !.pc = "sort", !.status = "error"]
       \/ lister' = IF Page(lister) = <<>> THEN [lister EXCEPT !.pc = "sort"] ELSE ListBucketCallback(lister)
    /\ UNCHANGED <<reader, writer>>

\* the rest of list_bucket, and S3Glob, which takes what the list has
S3Glob(gtype) ==
    /\ lister.pc = "sort"
    /\ lister' = [lister EXCEPT !.pc = gtype,
                                !.list = SelectSeq(SortSeq(@, <), LAMBDA i : gtype = "All" \/ (gtype = "File") = IsFile(lister, i))]
    /\ UNCHANGED <<reader, writer>>

(***************************************************************************)
(* S3ReadStream: status_, buffer_, output_ up to output_end_; short: the   *)
(* last read() returned less than it was asked for                        *)
(***************************************************************************)
\* external: S3_get_object with byte_count 0 delivers all bytes from start_byte
Requested(start, count) == Bytes(start, IF count = 0 THEN ObjectSize ELSE Least(start + count, ObjectSize))
S3OpenReadStream(range) == Requested(range[1], IF range[2] = 0 THEN 0 ELSE range[2] - range[1])
NewReader(range) ==
    [pc |-> "idle", range |-> range, wire |-> S3OpenReadStream(range), status |-> "OK", buffer |-> <<>>,
     out |-> <<>>, size |-> 0, remaining |-> 1, callbacks |-> 0, got |-> <<>>, short |-> FALSE]

Return(r) == [r EXCEPT !.pc = "idle", !.got = @ \o r.out, !.out = <<>>, !.short = Len(r.out) < r.size]
\* the condition of the loop in read()
Continue_NoData(r) ==
    IF r.status = "OK" /\ r.out = <<>> /\ r.remaining # 0 THEN [r EXCEPT !.pc = "runonce", !.callbacks = 0]
    ELSE Return(r)
Continue(r) ==
    IF r.status = "OK" /\ Len(r.out) < r.size /\ r.remaining # 0 THEN [r EXCEPT !.pc = "runonce", !.callbacks = 0]
    ELSE Return(r)

\* read(), up to its loop
Read_NoBuffer(size) ==
    /\ reader.pc = "idle"
    /\ reader' = IF reader.status # "OK" THEN [reader EXCEPT !.pc = "died"]
                 ELSE Continue([reader EXCEPT !.out = <<>>, !.buffer = <<>>, !.size = size, !.remaining = 1])
    /\ UNCHANGED <<lister, writer>>
Read(size) ==
    /\ reader.pc = "idle"
    /\ reader' =
        IF reader.status # "OK" THEN [reader EXCEPT !.pc = "died"]
        ELSE LET wb == Least(size, Len(reader.buffer))
             IN Continue([reader EXCEPT !.out = SubSeq(reader.buffer, 1, wb),
                                        !.buffer = SubSeq(@, wb + 1, Len(@)),
                                        !.size = size, !.remaining = 1])
    /\ UNCHANGED <<lister, writer>>

\* GetObjectDataCallback, in S3_runonce_request_context()
GetObjectDataCallback(n) ==
    /\ reader.pc = "runonce" /\ reader.callbacks < MaxCallbacks /\ n <= Len(reader.wire)
    /\ LET wb == Least(reader.size - Len(reader.out), n)
           taken == [reader EXCEPT !.out = @ \o SubSeq(reader.wire, 1, wb),
                                   !.wire = SubSeq(@, n + 1, Len(@)), !.callbacks = @ + 1]
       IN reader' = IF wb = n THEN taken
                    ELSE IF reader.buffer # <<>> THEN [reader EXCEPT !.pc = "died"]
                    ELSE [taken EXCEPT !.buffer = SubSeq(reader.wire, wb + 1, n)]
    /\ UNCHANGED <<lister, writer>>

\* S3_runonce_request_context() returns, having called ResponseCompleteCallback
\* when the request has ended, well or not
EndRunonce(status) ==
    /\ reader.pc = "runonce"
    /\ reader' = IF reader.wire = <<>> \/ status # "OK"
                 THEN Continue([reader EXCEPT !.status = status, !.remaining = 0])
                 ELSE Continue(reader)
    /\ UNCHANGED <<lister, writer>>

(***************************************************************************)
(* S3WriteStream: buffer_, upload_seq_, part_etag_, upload_id_; of the     *)
(* service, the parts it holds (store) and the object, once committed      *)
(***************************************************************************)
NewWriter(initiated) ==
    [pc |-> "idle", id |-> initiated, buffer |-> <<>>, seq |-> 1, etags |-> <<>>, store |-> <<>>,
     data |-> <<>>, given |-> 0, object |-> <<>>, committed |-> FALSE]

\* UploadMultipart: the etag comes with the properties of the answer; what
\* status_ becomes nobody asks.
UploadMultipart_Counted(w, ok) ==
    [w EXCEPT !.seq = @ + 1, !.buffer = <<>>, !.store = Append(@, IF ok THEN w.buffer ELSE <<>>), !.etags = Append(@, w.seq)]
UploadMultipart(w, ok) ==
    [w EXCEPT !.seq = @ + 1, !.buffer = <<>>,
              !.store = Append(@, IF ok THEN w.buffer ELSE <<>>),
              !.etags = IF ok THEN Append(@, w.seq) ELSE @]

\* a call of write()
Write(n) ==
    /\ writer.pc = "idle" /\ writer.given + n <= MaxWritten
    /\ writer' = [writer EXCEPT !.data = Bytes(writer.given, writer.given + n), !.given = @ + n, !.pc = "copy"]
    /\ UNCHANGED <<lister, reader>>
\* a round of its loop
CopyRound(ok) ==
    /\ writer.pc = "copy"
    /\ LET wb == Least(Len(writer.data), PartSize - Len(writer.buffer))
           filled == [writer EXCEPT !.buffer = @ \o SubSeq(writer.data, 1, wb), !.data = SubSeq(@, wb + 1, Len(@))]
       IN writer' = IF writer.data = <<>> THEN [writer EXCEPT !.pc = "idle"]
                    ELSE IF Len(filled.buffer) >= PartSize THEN UploadMultipart(filled, ok) ELSE filled
    /\ ok => writer.id   \* an upload without an id is refused
    /\ UNCHANGED <<lister, reader>>

\* external: the service takes the commit when part number i has the etag that
\* is listed i-th, and there is a part
Accepted(w) == w.etags # <<>> /\ \A i \in DOMAIN w.etags : w.etags[i] = i
\* close(): the last piece, then the commit with part numbers 1, 2, ...
Close(ok, reachable) ==
    /\ writer.pc = "idle"
    /\ LET sent == IF writer.buffer = <<>> THEN writer ELSE UploadMultipart(writer, ok)
           taken == reachable /\ Accepted(sent)
       IN writer' = IF ~writer.id THEN [writer EXCEPT !.pc = "closed"]
                    ELSE [sent EXCEPT !.pc = "closed", !.id = FALSE, !.committed = taken,
                                      !.object = IF taken THEN FlattenSeq([i \in DOMAIN sent.etags |-> sent.store[sent.etags[i]]]) ELSE <<>>]
    /\ UNCHANGED <<lister, reader>>

----------------------------------------------------------------------------
S3Init ==
    \/ lister \in {NewLister(b) : b \in Buckets} /\ reader = None /\ writer = None
    \/ lister = None /\ reader \in {NewReader(r) : r \in Ranges} /\ writer = None
    \/ lister = None /\ reader = None /\ writer \in {NewWriter(i) : i \in BOOLEAN}
S3Next ==
    \/ ListBucket \/ (\E gtype \in {"All", "File", "Directory"} : S3Glob(gtype))
    \/ (\E size \in ReadSizes : Read(size)) \/ (\E n \in 1..ObjectSize : GetObjectDataCallback(n))
    \/ (\E status \in {"OK", "error"} : EndRunonce(status))
    \/ (\E n \in WriteSizes : Write(n)) \/ (\E ok \in BOOLEAN : CopyRound(ok))
    \/ (\E ok, reachable \in BOOLEAN : Close(ok, reachable))

S3Spec == S3Init /\ [][S3Next]_s3Vars

(***************************************************************************)
(* Properties                                                              *)
(***************************************************************************)
\* S3Glob: without an error every file of the prefix is in the list, once and
\* in order, however files and directories share the pages: the marker of the
\* next request is the last file, so that only directories come twice.
ListsFilesOnce ==
    lister.pc \in {"All", "File"} =>
        LET files == SelectSeq(lister.list, LAMBDA i : IsFile(lister, i))
        IN /\ \A i \in 1..(Len(files) - 1) : files[i] < files[i + 1]
           /\ lister.status = "OK" => ToSet(files) = {i \in DOMAIN lister.bucket : IsFile(lister, i)}

\* S3ReadStream: what read() has returned, what waits in buffer_ and what the
\* service has still to send are, in this order, the bytes of the range, all of
\* the object's from its begin when its end is 0; wherever the data of a callback
\* was cut by the end of the caller's buffer.
ReadsRangeInOrder ==
    reader.pc \notin {"none", "died"} =>
        reader.got \o reader.out \o reader.buffer \o reader.wire
            = Bytes(reader.range[1], IF reader.range[2] = 0 THEN ObjectSize ELSE reader.range[2])

\* S3ReadStream: a read() returns less than it was asked for only at the end of
\* the object or after an error, as its callers take a short read for the end.
ShortReadsAreLast ==
    reader.pc = "idle" /\ reader.status = "OK" /\ reader.short => reader.wire = <<>> /\ reader.buffer = <<>>

\* s3_file.cpp, "upload last multipart piece": an object that was committed is
\* what was written.
CommitsAll == writer.pc # "none" /\ writer.committed => writer.object = Bytes(0, writer.given)

\* S3WriteStream: so it is if every upload succeeded; and in no case has the
\* object a hole or parts in another order, although a part that failed moves
\* the numbers of those behind it.
CommitsNoHole ==
    writer.pc # "none" /\ writer.committed =>
        /\ Len(writer.etags) = Len(writer.store) => CommitsAll
        /\ writer.object = Bytes(0, Len(writer.object))
=============================================================================
