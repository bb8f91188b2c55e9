------------------------------ MODULE MockNet ------------------------------
(***************************************************************************)
(* thrill/net/mock: the network between threads of one process, with which *)
(* Thrill runs its tests.  A message is put into the inbound queue of the  *)
(* receiver's Connection by the sender's thread, which notifies the        *)
(* dispatchers that watch it.  The receiver's dispatcher thread adds       *)
(* callbacks and calls them, one at a time, without its locks.             *)
(***************************************************************************)
EXTENDS Integers, Sequences, FiniteSets
CONSTANTS
    Conns, MaxMessages, MaxCallbacks, \* the two bounds of each connection
    MaxWrites                         \* the writes of every connection
VARIABLES
    inbound,   \* [c |-> messages], numbered in the order they are sent
    messages,  \* [c |-> how many have been sent]
    watcher,   \* the connections whose watcher_ holds the dispatcher
    watch,     \* [c |-> <<>> or <<[reads, writes]>>]: map_, callbacks by their number
    notify,    \* notify_: connections, 0 for an interrupt
    at,        \* <<>>, or <<[c, stage]>>: where DispatchOne is
    added,     \* [reads, writes]: callbacks added so far, of each connection
    calls,     \* [c |-> <<callback, message>> in the order of the calls]
    late       \* the connections to which a write callback of theirs added a read
mockVars == <<inbound, messages, watcher, watch, notify, at, added, calls, late>>

Init ==
    /\ inbound = [c \in Conns |-> <<>>] /\ messages = [c \in Conns |-> 0]
    /\ watcher = {} /\ watch = [c \in Conns |-> <<>>] /\ notify = <<>> /\ at = <<>>
    /\ added = [reads |-> [c \in Conns |-> 0], writes |-> [c \in Conns |-> 0]]
    /\ calls = [c \in Conns |-> <<>>] /\ late = {}

\* Send, InboundMsg: under the lock of the connection
InboundMsg(c) ==
    /\ messages[c] < MaxMessages[c] /\ messages' = [messages EXCEPT ![c] = @ + 1]
    /\ inbound' = [inbound EXCEPT ![c] = Append(@, messages[c] + 1)]
    /\ notify' = IF c \in watcher THEN Append(notify, c) ELSE notify
    /\ UNCHANGED <<watcher, watch, at, added, calls, late>>

(***************************************************************************)
(* AddRead, AddWrite: by a job of the dispatcher thread, or by a callback  *)
(* for its own or another connection, while DispatchOne holds no lock.     *)
(***************************************************************************)
GetWatch(c) == IF watch[c] = <<>> THEN [reads |-> <<>>, writes |-> <<>>] ELSE watch[c][1]
MayAdd == at # <<>> => at[1].stage # "read"
InWriteCallback(c) == at # <<>> /\ at[1] = [c |-> c, stage |-> "write"]
\* only a watch that was not active looks at the queue
Activate_NoNotify(c) == watcher' = watcher \cup {c} /\ UNCHANGED notify
Activate(c) ==
    /\ watcher' = watcher \cup {c}
    /\ notify' = IF watch[c] = <<>> /\ inbound[c] # <<>> THEN Append(notify, c) ELSE notify
AddRead(c) ==
    /\ MayAdd /\ added.reads[c] < MaxCallbacks[c]
    /\ added' = [added EXCEPT !.reads[c] = @ + 1]
    /\ watch' = [watch EXCEPT ![c] = <<[GetWatch(c) EXCEPT !.reads = Append(@, added.reads[c] + 1)]>>]
    /\ Activate(c)
    /\ late' = IF InWriteCallback(c) THEN late \cup {c} ELSE late
    /\ UNCHANGED <<inbound, messages, at, calls>>
AddWrite(c) ==
    /\ MayAdd /\ added.writes[c] < MaxWrites
    /\ added' = [added EXCEPT !.writes[c] = @ + 1]
    /\ watch' = [watch EXCEPT ![c] = <<[GetWatch(c) EXCEPT !.writes = Append(@, added.writes[c] + 1)]>>]
    /\ watcher' = watcher \cup {c} /\ notify' = Append(notify, c)
    /\ UNCHANGED <<inbound, messages, at, calls, late>>
Interrupt == at = <<>> /\ notify = <<>> /\ notify' = <<0>> /\ UNCHANGED <<inbound, messages, watcher, watch, at, added, calls, late>>

(***************************************************************************)
(* DispatchOne                                                             *)
(***************************************************************************)
\* what follows when the locks are held: the next callback, or the end, where a
\* connection without callbacks is watched no longer
Follows(c, w, stage, queue) ==
    LET reads == stage = "read" /\ w.reads # <<>> /\ queue # <<>>
        rest == w.writes # <<>>
    IN /\ at' = IF reads THEN <<[c |-> c, stage |-> "read"]>> ELSE IF rest THEN <<[c |-> c, stage |-> "write"]>> ELSE <<>>
       /\ watch' = [watch EXCEPT ![c] = IF w.reads = <<>> /\ w.writes = <<>> THEN <<>> ELSE <<w>>]
       /\ watcher' = IF w.reads = <<>> /\ w.writes = <<>> THEN watcher \ {c} ELSE watcher
DispatchOne ==
    /\ at = <<>> /\ notify # <<>>
    /\ notify' = Tail(notify)
    /\ LET c == notify[1]
       IN IF c = 0 \/ (c # 0 /\ watch[c] = <<>>) THEN UNCHANGED <<at, watch, watcher>>
          ELSE Follows(c, watch[c][1], "read", inbound[c])
    /\ UNCHANGED <<inbound, messages, added, calls, late>>
\* The callback takes the first message: RecvOne takes the whole of it or dies, so
\* that its read is complete and it does not ask to be called again.  Until it
\* returns it may add callbacks, as the reading of a stream's next header does.
ReadCallback ==
    /\ at # <<>> /\ at[1].stage = "read"
    /\ LET c == at[1].c
       IN /\ inbound' = [inbound EXCEPT ![c] = Tail(@)]
          /\ calls' = [calls EXCEPT ![c] = Append(@, <<watch[c][1].reads[1], inbound[c][1]>>)]
          /\ at' = <<[c |-> c, stage |-> "read done"]>>
    /\ UNCHANGED <<messages, watcher, watch, notify, added, late>>
ReadDone_One ==
    /\ at # <<>> /\ at[1].stage = "read done"
    /\ LET c == at[1].c IN Follows(c, [watch[c][1] EXCEPT !.reads = Tail(@)], "write", inbound[c])
    /\ UNCHANGED <<inbound, messages, notify, added, calls, late>>
ReadDone_Newest ==
    /\ at # <<>> /\ at[1].stage = "read done"
    /\ LET c == at[1].c
       IN Follows(c, [watch[c][1] EXCEPT !.reads = SubSeq(@, 1, Len(@) - 1)], "read", inbound[c])
    /\ UNCHANGED <<inbound, messages, notify, added, calls, late>>
ReadDone ==
    /\ at # <<>> /\ at[1].stage = "read done"
    /\ LET c == at[1].c IN Follows(c, [watch[c][1] EXCEPT !.reads = Tail(@)], "read", inbound[c])
    /\ UNCHANGED <<inbound, messages, notify, added, calls, late>>
\* A write callback sends all it has (SendOne) and is done when it returns; until
\* then it may add callbacks too.
WriteCallback ==
    /\ at # <<>> /\ at[1].stage = "write"
    /\ LET c == at[1].c IN Follows(c, [watch[c][1] EXCEPT !.writes = Tail(@)], "write", inbound[c])
    /\ UNCHANGED <<inbound, messages, notify, added, calls, late>>

Dispatching == DispatchOne \/ ReadCallback \/ ReadDone \/ WriteCallback
Next == Dispatching \/ Interrupt \/ \E c \in Conns : InboundMsg(c) \/ AddRead(c) \/ AddWrite(c)

----------------------------------------------------------------------------
\* A message for which a callback of c waits is remembered: the dispatcher is at
\* this connection or will be notified of it.
Remembered(c) ==
    inbound[c] # <<>> /\ watch[c] # <<>> /\ watch[c][1].reads # <<>> =>
        \/ \E i \in DOMAIN notify : notify[i] = c
        \/ at # <<>> /\ at[1].c = c /\ at[1].stage \in {"read", "read done"}

\* mock::Dispatcher: a message for which a callback waits is never forgotten, whether
\* message, callback or another message came first, at a connection to which no
\* write callback of its own has added a read: there, AddRead finds the watch
\* active and does not look at the queue (AlwaysRemembered).
NoLostWakeup == \A c \in Conns \ late : Remembered(c)

\* AddRead: "if already have a packet, issue notification", at every connection,
\* when DispatchOne has returned.
AlwaysRemembered == at = <<>> => \A c \in Conns : Remembered(c)

\* mock::Connection: the callbacks are called in the order they were added, each
\* once, with the messages in the order they were sent.
CallsInOrder ==
    \A c \in Conns : \A i \in DOMAIN calls[c] : calls[c][i] = <<i, i>>
=============================================================================
