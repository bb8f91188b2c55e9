------------------------------ MODULE SysFiles ------------------------------
(***************************************************************************)
(* vfs/sys_file.cpp: files that are compressed or decompressed by a child  *)
(* process (.xz, .lzo, .lz4).  Threads of one process open and close such  *)
(* streams at the same time; a fork copies every descriptor that is open,  *)
(* an exec closes those marked O_CLOEXEC (MakePipe), and a child that      *)
(* reads a pipe ends when nobody holds the writing end any more.  The      *)
(* kernel and the child programs are external.                             *)
(***************************************************************************)
EXTENDS Integers, Sequences, FiniteSets
CONSTANTS
    Streams,      \* one for each thread
    Size,         \* bytes that are written or read
    PipeSize      \* capacity of a pipe

VARIABLES
    mode,      \* "read" or "write": which stream a thread opens
    pc,        \* where a thread is
    child,     \* the child process of a stream
    fds,       \* the descriptors of each process; 0 is Thrill's, s the child of s
    pipe,      \* the bytes in the pipe of a stream
    moved      \* bytes the thread has written or read, and the child has taken or given
sysVars == <<mode, pc, child, fds, pipe, moved>>

Ends(s) == [of : {s}, end : {"r", "w"}, cloexec : {TRUE}]
Held(s, e) == \E p \in DOMAIN fds : \E d \in fds[p] : d.of = s /\ d.end = e
Near(s) == IF mode[s] = "write" THEN "w" ELSE "r"    \* the end that stays with Thrill
Far(s) == IF mode[s] = "write" THEN "r" ELSE "w"
Without(ds, s, e) == {d \in ds : ~(d.of = s /\ d.end = e)}

SysInit ==
    /\ mode \in [Streams -> {"read", "write"}]
    /\ pc = [s \in Streams |-> "open"] /\ child = [s \in Streams |-> "none"]
    /\ fds = [p \in Streams \cup {0} |-> {}] /\ pipe = [s \in Streams |-> 0]
    /\ moved = [s \in Streams |-> [thread |-> 0, child |-> 0]]

\* SysOpenReadStream, SysOpenWriteStream: MakePipe
MakePipe_Inherited(s) ==
    /\ pc[s] = "open" /\ pc' = [pc EXCEPT ![s] = "fork"]
    /\ fds' = [fds EXCEPT ![0] = @ \cup {[d EXCEPT !.cloexec = FALSE] : d \in Ends(s)}]
    /\ UNCHANGED <<mode, child, pipe, moved>>
MakePipe(s) ==
    /\ pc[s] = "open" /\ pc' = [pc EXCEPT ![s] = "fork"]
    /\ fds' = [fds EXCEPT ![0] = @ \cup Ends(s)]
    /\ UNCHANGED <<mode, child, pipe, moved>>
\* fork() fails, and the opener throws
ForkFails(s) ==
    /\ pc[s] = "fork" /\ pc' = [pc EXCEPT ![s] = "threw"]
    /\ UNCHANGED <<mode, child, fds, pipe, moved>>
Fork(s) ==
    /\ pc[s] = "fork" /\ pc' = [pc EXCEPT ![s] = "parent"]
    /\ child' = [child EXCEPT ![s] = "forked"] /\ fds' = [fds EXCEPT ![s] = fds[0]]
    /\ UNCHANGED <<mode, pipe, moved>>
\* Thrill closes the other end, and has a SysFile
OpenParent(s) ==
    /\ pc[s] = "parent" /\ pc' = [pc EXCEPT ![s] = "use"]
    /\ fds' = [fds EXCEPT ![0] = Without(@, s, Far(s))]
    /\ UNCHANGED <<mode, child, pipe, moved>>

\* the child: closes the near end, dup2() of the far end, which is not O_CLOEXEC,
\* and execlp()
Exec(s) ==
    /\ child[s] = "forked" /\ child' = [child EXCEPT ![s] = "runs"]
    /\ fds' = [fds EXCEPT ![s] = {d \in Without(Without(@, s, Far(s)), s, Near(s)) : ~d.cloexec}
                                    \cup {[of |-> s, end |-> Far(s), cloexec |-> FALSE]}]
    /\ UNCHANGED <<mode, pc, pipe, moved>>
Exit(s, how) ==
    /\ child' = [child EXCEPT ![s] = how] /\ fds' = [fds EXCEPT ![s] = {}]
    /\ UNCHANGED <<mode, pc, pipe, moved>>
\* execlp() returns, or the program fails: exit(-1), or a signal
ChildFails(s) == child[s] \in {"forked", "runs"} /\ Exit(s, "failed")

\* a compressor takes from the pipe, and ends at its end
ChildTakes(s) ==
    /\ child[s] = "runs" /\ mode[s] = "write" /\ pipe[s] > 0
    /\ pipe' = [pipe EXCEPT ![s] = @ - 1] /\ moved' = [moved EXCEPT ![s].child = @ + 1]
    /\ UNCHANGED <<mode, pc, child, fds>>
ChildAtEnd(s) == child[s] = "runs" /\ mode[s] = "write" /\ pipe[s] = 0 /\ ~Held(s, "w") /\ Exit(s, "ended")
\* a decompressor gives to the pipe, is killed when nobody reads, and ends
ChildGives(s) ==
    /\ child[s] = "runs" /\ mode[s] = "read" /\ moved[s].child < Size /\ pipe[s] < PipeSize /\ Held(s, "r")
    /\ pipe' = [pipe EXCEPT ![s] = @ + 1] /\ moved' = [moved EXCEPT ![s].child = @ + 1]
    /\ UNCHANGED <<mode, pc, child, fds>>
ChildKilled(s) == child[s] = "runs" /\ mode[s] = "read" /\ moved[s].child < Size /\ ~Held(s, "r") /\ Exit(s, "failed")
ChildGaveAll(s) == child[s] = "runs" /\ mode[s] = "read" /\ moved[s].child = Size /\ Exit(s, "ended")

\* SysFile::write: waits while the pipe is full; without a reader the bytes are
\* gone, and the callers do not look at what it returns
SysWrite(s) ==
    /\ pc[s] = "use" /\ mode[s] = "write" /\ moved[s].thread < Size
    /\ pipe[s] < PipeSize \/ ~Held(s, "r")
    /\ pipe' = IF Held(s, "r") THEN [pipe EXCEPT ![s] = @ + 1] ELSE pipe
    /\ moved' = [moved EXCEPT ![s].thread = @ + 1]
    /\ UNCHANGED <<mode, pc, child, fds>>
\* SysFile::read, of a byte; or 0 at the end, after which the stream is closed
SysRead(s) ==
    /\ pc[s] = "use" /\ mode[s] = "read"
    /\ \/ /\ pipe[s] > 0 /\ pc' = pc
          /\ pipe' = [pipe EXCEPT ![s] = @ - 1] /\ moved' = [moved EXCEPT ![s].thread = @ + 1]
       \/ /\ pipe[s] = 0 /\ ~Held(s, "w") /\ pc' = [pc EXCEPT ![s] = "eof"]
          /\ UNCHANGED <<pipe, moved>>
    /\ UNCHANGED <<mode, child, fds>>
\* SysFile::close: the descriptor first, then waitpid()
CloseFd_AfterWait(s) ==
    /\ pc[s] = "eof" \/ (pc[s] = "use" /\ mode[s] = "write" /\ moved[s].thread = Size)
    /\ pc' = [pc EXCEPT ![s] = "wait"]
    /\ UNCHANGED <<mode, child, fds, pipe, moved>>
CloseFd(s) ==
    /\ pc[s] = "eof" \/ (pc[s] = "use" /\ mode[s] = "write" /\ moved[s].thread = Size)
    /\ pc' = [pc EXCEPT ![s] = "wait"]
    /\ fds' = [fds EXCEPT ![0] = Without(@, s, Near(s))]
    /\ UNCHANGED <<mode, child, pipe, moved>>
WaitPid_NoStatus(s) ==
    /\ pc[s] = "wait" /\ child[s] \in {"ended", "failed"}
    /\ pc' = [pc EXCEPT ![s] = "closed"]
    /\ UNCHANGED <<mode, child, fds, pipe, moved>>
WaitPid(s) ==
    /\ pc[s] = "wait" /\ child[s] \in {"ended", "failed"}
    /\ pc' = [pc EXCEPT ![s] = IF child[s] = "ended" THEN "closed" ELSE "threw"]
    /\ UNCHANGED <<mode, child, fds, pipe, moved>>

Thread(s) == MakePipe(s) \/ Fork(s) \/ OpenParent(s) \/ SysWrite(s) \/ SysRead(s) \/ CloseFd(s) \/ WaitPid(s)
Child(s) == Exec(s) \/ ChildTakes(s) \/ ChildAtEnd(s) \/ ChildGives(s) \/ ChildKilled(s) \/ ChildGaveAll(s)
SysNext == \E s \in Streams : Thread(s) \/ Child(s) \/ ForkFails(s) \/ ChildFails(s)
Spec == SysInit /\ [][SysNext]_sysVars

(***************************************************************************)
(* Properties                                                              *)
(***************************************************************************)
\* A stream that was closed without an exception has passed all its bytes, in
\* spite of writes that nobody checks: a child that fails fails the close().
ClosedIsWhole == \A s \in Streams : pc[s] = "closed" => moved[s] = [thread |-> Size, child |-> Size]

\* Every stream gets closed, or its thread throws, whatever other streams are
\* opened between its pipe and its fork: no child keeps the end of a pipe open
\* for which another one waits.  As every step moves a thread, a child or a byte
\* forward, it is enough that they never all wait, failures aside.
NoneWaitsForever ==
    (\E s \in Streams : pc[s] \notin {"closed", "threw"}) => ENABLED (\E s \in Streams : Thread(s) \/ Child(s))
=============================================================================
