---------------------------- MODULE StreamChannels ----------------------------
(***************************************************************************)
(* What a Thrill stream promises its workers.  Between every two workers   *)
(* there is a channel: the sender puts blocks into its StreamSink and      *)
(* closes it once; the receiver finds those blocks in its queue, in the    *)
(* order in which they were put, each exactly once, and the end-of-stream  *)
(* mark behind the last of them.  Nothing is said of hosts, headers,       *)
(* sequence numbers or connections: module Streams implements this one.    *)
(***************************************************************************)
EXTENDS Naturals

CONSTANT Workers

VARIABLES
    written,     \* written[s][d]: number of blocks s put into its sink to d
    closed,      \* closed[s][d]: s has closed that sink
    delivered,   \* delivered[s][d]: blocks that reached d's queue, in order
    ended        \* ended[s][d]: d's queue ends with the closing block

channels == <<written, closed, delivered, ended>>

Init ==
    /\ written = [s \in Workers |-> [d \in Workers |-> 0]]
    /\ closed = [s \in Workers |-> [d \in Workers |-> FALSE]]
    /\ delivered = [s \in Workers |-> [d \in Workers |-> 0]]
    /\ ended = [s \in Workers |-> [d \in Workers |-> FALSE]]

\* The sender puts one block, or closes the sink, or puts the last block.
Send(s, d) == /\ ~closed[s][d]
              /\ written'[s][d] \in {written[s][d], written[s][d] + 1}
              /\ closed'[s][d] \in BOOLEAN

Sends(s, d) == \/ Send(s, d)
               \/ UNCHANGED <<written[s][d], closed[s][d]>>

\* Blocks arrive, one or several, at most up to what has been put; the end
\* arrives with or after the last block of a closed sink.
Arrive(s, d) == /\ ~ended[s][d]
                /\ delivered'[s][d] \in delivered[s][d] .. written'[s][d]
                /\ ended'[s][d] => closed'[s][d] /\ delivered'[s][d] = written'[s][d]

Arrives(s, d) == \/ Arrive(s, d)
                 \/ UNCHANGED <<delivered[s][d], ended[s][d]>>

\* Channels do not wait for each other: in one step each may send and receive.
Next == \A s, d \in Workers : Sends(s, d) /\ Arrives(s, d)

\* What a channel never does: lose, duplicate or reorder a block, or end early.
Safety == Init /\ [][Next]_channels

\* The end of every closed channel arrives.
Spec == Safety /\ \A s, d \in Workers : closed[s][d] ~> ended[s][d]
=============================================================================
