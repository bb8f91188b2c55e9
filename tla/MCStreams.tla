----------------------------- MODULE MCStreams -----------------------------
(***************************************************************************)
(* Instances of Streams for TLC: who may write how many full blocks, and   *)
(* whose writer may or must hold a partial block when it is closed.        *)
(***************************************************************************)
EXTENDS Streams

CONSTANTS
    FullTo,     \* set of pairs <<s, d>> that may write MaxBlocks full blocks
    MaxBlocks,  \* bound on full blocks per sink
    MayHold,    \* pairs whose writer may hold a partial block on Close
    MustHold    \* pairs whose writer does hold one

MCLimit == [s \in Ranks |-> [d \in Ranks |->
              IF <<s, d>> \in FullTo THEN MaxBlocks ELSE 0]]

MCPartial == [s \in Ranks |-> [d \in Ranks |->
                IF <<s, d>> \in MustHold THEN {TRUE}
                ELSE IF <<s, d>> \in MayHold THEN {TRUE, FALSE} ELSE {FALSE}]]

NoPairs == {}
\* Two hosts with two workers each, some sinks: no receiver's sinks on the other
\* host are all among them.
Across == {<<0, 2>>, <<1, 3>>, <<3, 0>>}
OneAcross == {<<0, 2>>}
\* Both workers of the first host to the last worker of the second.
ToLast == {<<0, 3>>, <<1, 3>>}
\* Two hosts with one worker each: the second writes nothing to the first.
OneWay == {<<0, 0>>, <<0, 1>>, <<1, 1>>}
=============================================================================
