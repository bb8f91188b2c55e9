----------------------------- MODULE StageBuilder -----------------------------
(***************************************************************************)
(* The DIA graph of a program and its lazy execution by the StageBuilder.   *)
(* All workers build the same graph and execute it in the same order, so    *)
(* the module models one of them.  The program adds nodes, keeps and drops  *)
(* handles and asks for results in any order.  Items are abstracted to the  *)
(* node that pushed them: an input of a node receives a sequence of         *)
(* sources.                                                                *)
(*                                                                         *)
(* Kinds of nodes: "source" and "dop" (DIANodes with one input or none),    *)
(* "zip" (two inputs), "collapse" and "union" (they hold no data and only   *)
(* forward it), "action".                                                   *)
(***************************************************************************)
EXTENDS Integers, Sequences, FiniteSets, SequencesExt, FiniteSetsExt

CONSTANTS
    Programs,       \* set of sequences of kinds: the nodes of a program, in order
    MaxKeeps,       \* bound: nodes that the program keeps
    MaxDrops,       \* bound: handles that it drops
    Consume,        \* Context::consume()
    Nested,         \* the program may put a collapse or union below a union
    Asserts,        \* the build checks assert(), as a debug build does
    MemLimit,       \* Context::mem_limit()
    PreOpMemUse,    \* RAM that a node of each kind wants while it receives,
    ExecuteMemUse,  \* while it executes
    PushDataMemUse  \* and while it pushes; AllMemory for DIAMemUse::Max()

VARIABLES
    program,    \* the kinds of the program's nodes
    size,       \* number of nodes created (last_dia_id_)
    graph,      \* the nodes: parents, children, and the calls that they received;
                \* failed: an assert() did not hold
    state,      \* state[n]: DIAState
    counter,    \* counter[n]: consume_counter_ of a node with data
    mem,        \* mem[n]: mem_limit_
    held,       \* nodes to which the program holds a DIA or a Future
    uses, keeps,\* history: uses of n as a parent, calls of Keep on n
    origin,     \* history: origin[n], the parents with which n was created
    scopes,     \* nodes for which RunScope has been called and not begun
    stages,     \* the set of Stages of the running scope
    toporder,   \* its stages in reverse order of execution
    outcome     \* "ok"; "consumed" or "memory" after an abort(); "assert" after
                \* an assert() of a build that checks them; "destroyed" after
                \* a node was destroyed inside its own RemoveAllChildren:
                \* undefined behaviour, which is not followed any further

vars == <<program, size, graph, state, counter, mem, held, uses, keeps, origin,
          scopes, stages, toporder, outcome>>
programVars == <<program, size, held, uses, keeps, origin>>

Node == 1 .. Len(program)
Inputs(k) == CASE k = "source" -> 0 [] k \in {"zip", "union"} -> 2 [] OTHER -> 1
Forwards == {"collapse", "union"}
ForwardDataOnly(n) == program[n] \in Forwards
Never == 100        \* kNeverConsume

\* The calls that an input of a node has received.
NoCalls == [start |-> 0, data |-> <<>>, stop |-> 0]

Init ==
    /\ program \in Programs
    /\ size = 0
    /\ graph = [parents |-> [n \in Node |-> <<>>], children |-> [n \in Node |-> <<>>],
                calls |-> [n \in Node |-> [i \in 1 .. Inputs(program[n]) |-> NoCalls]],
                failed |-> FALSE]
    /\ state = [n \in Node |-> "NEW"]
    /\ counter = [n \in Node |-> 1]
    /\ mem = [n \in Node |-> 0]
    /\ held = {}
    /\ uses = [n \in Node |-> 0] /\ keeps = [n \in Node |-> 0]
    /\ origin = [n \in Node |-> <<>>]
    /\ scopes = <<>> /\ stages = {} /\ toporder = <<>>
    /\ outcome = "ok"

Running == scopes # <<>> \/ stages # {}
Free == ~Running /\ outcome = "ok"
AllMemory == -1

-----------------------------------------------------------------------------
(* Reference counts.  A node lives while the program or a Stage refers to   *)
(* it or it is the parent of a living node.                                 *)

\* The living nodes with the handles h, the stages st and the parents par.
Living(h, st, par) ==
    LET alive[k \in 0 .. size] ==     \* among the k youngest nodes
          IF k = 0 THEN {}
          ELSE LET n == size + 1 - k
                   younger == alive[k - 1]
               IN  younger \cup {x \in {n} : x \in h \cup st \/ \E m \in younger : x \in Range(par[m])}
    IN  alive[size]

\* Mutant: a destroyed node stays registered with its parents.
Deregister_ParentsOnly(g, alive) ==
    [g EXCEPT !.parents = [n \in Node |-> IF n \in alive THEN @[n] ELSE <<>>]]

\* ~DIABase of the dead nodes: they are no longer children of their parents.
Deregister(g, alive) ==
    [g EXCEPT !.children = [n \in Node |->
                  SelectSeq(g.children[n], LAMBDA c : c.node \in alive)],
              !.parents = [n \in Node |-> IF n \in alive THEN @[n] ELSE <<>>]]

\* The graph becomes g, the handles h, the stages st.
Update(g, h, st) ==
    LET alive == Living(h, st, g.parents)
    IN  /\ graph' = Deregister(g, alive)
        /\ held' = h
        /\ stages' = st

Alive == Living(held, stages, graph.parents)

-----------------------------------------------------------------------------
(* Consume counters.                                                       *)

\* consume_counter(): a forwarding node asks its parents.
ConsumeCounter ==
    [n \in Node |->
       LET c[m \in Node] ==
             IF ForwardDataOnly(m)
             THEN LET ps == {c[p] : p \in Range(graph.parents[m])} \cup {Never}
                  IN  CHOOSE x \in ps : \A y \in ps : x <= y
             ELSE counter[m]
       IN  c[n]]

\* Mutant: a node that is kept forever is counted on.
RECURSIVE IncConsumeCounter_Always(_, _)
IncConsumeCounter_Always(c, n) ==
    IF ForwardDataOnly(n) THEN FoldLeft(IncConsumeCounter_Always, c, graph.parents[n])
    ELSE [c EXCEPT ![n] = @ + 1]

\* IncConsumeCounter and SetConsumeCounter, propagated by forwarding nodes.
RECURSIVE IncConsumeCounter(_, _)
IncConsumeCounter(c, n) ==
    IF ForwardDataOnly(n) THEN FoldLeft(IncConsumeCounter, c, graph.parents[n])
    ELSE [c EXCEPT ![n] = IF @ = Never THEN @ ELSE @ + 1]

RECURSIVE SetConsumeCounter(_, _)
SetConsumeCounter(c, n) ==
    IF ForwardDataOnly(n) THEN FoldLeft(SetConsumeCounter, c, graph.parents[n])
    ELSE [c EXCEPT ![n] = Never]

Consumed(n) == Consume /\ ConsumeCounter[n] = 0

-----------------------------------------------------------------------------
(* What a node does for its parent, on the graph g: the virtual methods of  *)
(* DIANode, CollapseNode and UnionNode.  x is the node, i the index of the  *)
(* input on which it is called.                                             *)

\* A child c is [node, index, status, pushed]; status and pushed are those of
\* UnionChild.
UnionChild(n, i) == [node |-> n, index |-> i, status |-> "NEW", pushed |-> {}]

AllInputsDone(c) == c.pushed = {1, 2}

\* F(g, c) for each child c of x in turn.
EachChild(F(_, _), g, x) ==
    FoldLeft(LAMBDA h, k : F(h, k), g, [k \in DOMAIN g.children[x] |-> k])

RECURSIVE StartPreOp(_, _, _)
StartPreOp(g, x, i) ==
    LET start(h, k) == LET c == h.children[x][k] IN StartPreOp(h, c.node, c.index)
        startNew(h, k) ==
          IF h.children[x][k].status = "NEW"
          THEN [start(h, k) EXCEPT !.children[x][k].status = "PUSHING"] ELSE h
    IN  CASE program[x] = "collapse" -> EachChild(start, g, x)
          [] program[x] = "union"    -> EachChild(startNew, g, x)
          [] OTHER -> [g EXCEPT !.calls[x][i].start = @ + 1]

\* The items of the node from, one by one or as a whole File.
RECURSIVE PushItem(_, _, _, _)
PushItem(g, x, i, from) ==
    LET push(h, k) == LET c == h.children[x][k] IN PushItem(h, c.node, c.index, from)
        pushNew(h, k) == IF i \in h.children[x][k].pushed THEN h ELSE push(h, k)
    IN  CASE program[x] = "collapse" -> EachChild(push, g, x)
          [] program[x] = "union"    -> EachChild(pushNew, g, x)
          [] OTHER -> [g EXCEPT !.calls[x][i].data = Append(@, from)]

\* StopPreOp of a union records that its k-th child has input i; the assertion is
\* that the child did not have it before.
MarkPushed(h, x, k, i) ==
    LET c == h.children[x][k]
    IN  IF c.status = "PUSHING"
        THEN [h EXCEPT !.children[x][k].pushed = @ \cup {i},
                       !.failed = @ \/ (Asserts /\ i \in c.pushed)]
        ELSE h

\* Mutant: a union stops its children after each input.
RECURSIVE StopPreOp_EachInput(_, _, _)
StopPreOp_EachInput(g, x, i) ==
    LET stop(h, k) == LET c == h.children[x][k] IN StopPreOp_EachInput(h, c.node, c.index)
        pushed(h, k) == MarkPushed(h, x, k, i)
        stopDone(h, k) == [stop(pushed(h, k), k) EXCEPT !.children[x][k].status = "DONE"]
    IN  CASE program[x] = "collapse" -> EachChild(stop, g, x)
          [] program[x] = "union"    -> EachChild(stopDone, g, x)
          [] OTHER -> [g EXCEPT !.calls[x][i].stop = @ + 1]

RECURSIVE StopPreOp(_, _, _)
StopPreOp(g, x, i) ==
    LET stop(h, k) == LET c == h.children[x][k] IN StopPreOp(h, c.node, c.index)
        pushed(h, k) == MarkPushed(h, x, k, i)
        stopDone(h, k) ==
          LET p == pushed(h, k)
          IN  IF AllInputsDone(p.children[x][k])
              THEN [stop(p, k) EXCEPT !.children[x][k].status = "DONE"] ELSE p
    IN  CASE program[x] = "collapse" -> EachChild(stop, g, x)
          [] program[x] = "union"    -> EachChild(stopDone, g, x)
          [] OTHER -> [g EXCEPT !.calls[x][i].stop = @ + 1]

\* RunPushData of a node with data.
RunPushData(g, x) ==
    LET start(h, k) == LET c == h.children[x][k] IN StartPreOp(h, c.node, c.index)
        push(h, k) == LET c == h.children[x][k] IN PushItem(h, c.node, c.index, x)
        stop(h, k) == LET c == h.children[x][k] IN StopPreOp(h, c.node, c.index)
    IN  EachChild(stop, EachChild(push, EachChild(start, g, x), x), x)

\* The children that x removes: the ones that hold data, and of a union those
\* that have all inputs.
Served(x, c) ==
    ~ForwardDataOnly(c.node) /\ (program[x] = "union" => c.status = "DONE")

RECURSIVE RemoveAllChildren(_, _)
RemoveAllChildren(g, x) ==
    LET gone == {c.node : c \in {d \in Range(g.children[x]) : Served(x, d)}}
        rest == SelectSeq(g.children[x], LAMBDA c : ~Served(x, c))
        h == [g EXCEPT !.children[x] = rest,
                       !.parents = [n \in Node |-> IF n \in gone
                          THEN SelectSeq(@[n], LAMBDA p : p # x) ELSE @[n]]]
    IN  FoldLeft(LAMBDA f, c : IF ForwardDataOnly(c.node) THEN RemoveAllChildren(f, c.node) ELSE f,
                 h, rest)

\* The forwarding nodes below x, and all nodes that get data from x: its targets.
RECURSIVE Targets(_, _)
Targets(g, x) ==
    FlattenSeq([k \in DOMAIN g.children[x] |->
        LET c == g.children[x][k].node
        IN  <<c>> \o IF ForwardDataOnly(c) THEN Targets(g, c) ELSE <<>>])

-----------------------------------------------------------------------------
(* The program.                                                            *)

\* A node with the parents ps.  A program that consumes its DIAs calls Keep for
\* every use but the first.
Create(ps) ==
    LET n == size + 1
        k == program[n]
        times(p) == Cardinality({i \in DOMAIN ps : ps[i] = p})
    IN  /\ Free /\ size < Len(program)
        /\ Len(ps) = Inputs(k) /\ Range(ps) \subseteq held
        /\ \A p \in Range(ps) :
              /\ program[p] # "action"
              /\ uses[p] + times(p) <= keeps[p] + 1
              /\ Nested \/ program[p] # "union" \/ k \notin Forwards
        /\ size' = n
        /\ held' = held \cup {n}
        /\ origin' = [origin EXCEPT ![n] = ps]
        /\ uses' = [p \in Node |-> uses[p] + times(p)]
        /\ graph' = [graph EXCEPT
              !.parents[n] = ps,
              !.children = [p \in Node |-> @[p] \o
                 SelectSeq([i \in DOMAIN ps |-> UnionChild(n, i)], LAMBDA c : ps[c.index] = p)]]
        /\ UNCHANGED <<program, state, counter, mem, keeps, scopes, stages, toporder, outcome>>

\* Keep refuses a node that was already consumed.
Keep(n) ==
    /\ Free /\ n \in held /\ program[n] # "action" /\ ~Consumed(n)
    /\ keeps[n] = 0 /\ Cardinality({m \in Node : keeps[m] > 0}) < MaxKeeps
    /\ keeps' = [keeps EXCEPT ![n] = @ + 1]
    /\ counter' = IncConsumeCounter(counter, n)
    /\ UNCHANGED <<program, size, graph, state, mem, held, uses, origin,
                   scopes, stages, toporder, outcome>>

\* The program calls KeepForever in time as well, although it is not checked.
KeepForever(n) ==
    /\ Free /\ n \in held /\ program[n] # "action" /\ ~Consumed(n)
    /\ keeps[n] = 0 /\ Cardinality({m \in Node : keeps[m] > 0}) < MaxKeeps
    /\ keeps' = [keeps EXCEPT ![n] = Never]
    /\ counter' = SetConsumeCounter(counter, n)
    /\ UNCHANGED <<program, size, graph, state, mem, held, uses, origin,
                   scopes, stages, toporder, outcome>>

\* The program drops its handle.
Drop(n) ==
    /\ Free /\ n \in held /\ size - Cardinality(held) < MaxDrops
    /\ Update(graph, held \ {n}, stages)
    /\ UNCHANGED <<program, size, state, counter, mem, uses, keeps, origin,
                   scopes, toporder, outcome>>

\* Execute(), Future::get() and the actions.
RunScope(n) ==
    /\ Free /\ n \in held
    /\ scopes' = <<n>>
    /\ UNCHANGED <<programVars, graph, state, counter, mem, stages, toporder, outcome>>

-----------------------------------------------------------------------------
(* The StageBuilder.                                                       *)

RequireParentPushData(x, i) ==
    program[x] = "union" => \E c \in Range(graph.children[x]) : i \notin c.pushed

\* Breadth-first search for the stages; s holds the queue and the stages found.
FindParent(s, x, i) ==
    LET p == graph.parents[x][i]
        found == [queue |-> IF ForwardDataOnly(x) \/ state[p] = "NEW" THEN Append(s.queue, p) ELSE s.queue,
                  stages |-> s.stages \cup {p}]
    IN  IF p \in s.stages THEN s
        ELSE IF ForwardDataOnly(x) /\ ~RequireParentPushData(x, i) THEN s
        ELSE found

RECURSIVE FindStages(_)
FindStages(s) ==
    IF s.queue = <<>> THEN s.stages
    ELSE LET x == Head(s.queue)
         IN  FindStages(FoldLeft(LAMBDA t, i : FindParent(t, x, i), [s EXCEPT !.queue = Tail(@)],
                                 [i \in DOMAIN graph.parents[x] |-> i]))

\* Mutant: a stage is appended when it is seen first.
RECURSIVE TopoSortVisit_PreOrder(_, _, _)
TopoSortVisit_PreOrder(found, result, x) ==
    IF x \notin found \/ x \in Range(result) THEN result
    ELSE FoldLeft(LAMBDA r, c : TopoSortVisit_PreOrder(found, r, c.node), Append(result, x),
                  graph.children[x])

\* Depth-first search: the children of a stage come before it.
RECURSIVE TopoSortVisit(_, _, _)
TopoSortVisit(found, result, x) ==
    IF x \notin found \/ x \in Range(result) THEN result
    ELSE Append(FoldLeft(LAMBDA r, c : TopoSortVisit(found, r, c.node), result, graph.children[x]), x)

TopoSortStages(found) ==
    FoldLeft(LAMBDA r, x : TopoSortVisit(found, r, x), <<>>, 
             SelectSeq([i \in 1 .. size |-> i], LAMBDA i : i \in found))

\* A scope begins: forwarding nodes run the scopes of their parents.
BeginScope ==
    LET n == Head(scopes)
        found == FindStages([queue |-> <<n>>, stages |-> {n}])
    IN  /\ outcome = "ok" /\ scopes # <<>> /\ stages = {}
        /\ IF state[n] = "EXECUTED" \/ ForwardDataOnly(n)
           THEN /\ scopes' = (IF state[n] = "EXECUTED" THEN <<>> ELSE graph.parents[n]) \o Tail(scopes)
                /\ UNCHANGED <<stages, toporder>>
           ELSE /\ stages' = found
                /\ toporder' = TopoSortStages(found)
                /\ UNCHANGED scopes
        /\ UNCHANGED <<programVars, graph, state, counter, mem, outcome>>

\* The stage at the back of toporder.
Current == Last(toporder)
InStage == outcome = "ok" /\ toporder # <<>>

\* The stage is done; after the last one the Stages let go of their nodes.
Finish(g) ==
    LET ended == Len(toporder) = 1
    IN  /\ toporder' = Front(toporder)
        /\ scopes' = IF ended THEN Tail(scopes) ELSE scopes
        /\ Update(g, held, IF ended THEN {} ELSE stages)

SkipForward ==
    /\ InStage /\ ForwardDataOnly(Current)
    /\ Finish(graph)
    /\ UNCHANGED <<program, size, uses, keeps, origin, state, counter, mem, outcome>>

\* Stage::Execute; the target of the scope does not push data.
Execute ==
    LET n == Current
    IN  /\ InStage /\ ~ForwardDataOnly(n) /\ state[n] = "NEW"
        /\ mem' = [mem EXCEPT ![n] = IF ExecuteMemUse[program[n]] = AllMemory THEN MemLimit
                                     ELSE ExecuteMemUse[program[n]]]
        /\ state' = [state EXCEPT ![n] = "EXECUTED"]
        /\ IF n = Head(scopes) THEN Finish(graph)
           ELSE UNCHANGED <<graph, held, scopes, stages, toporder>>
        /\ UNCHANGED <<program, size, uses, keeps, origin, counter, outcome>>

\* The memory of the nodes of a stage: what they asked for, and equal parts of
\* the rest for those that want as much as possible.  Each of them is a pair of
\* a node and its request.
Requests(n) ==
    LET ts == Targets(graph, n)
    IN  <<<<n, PushDataMemUse[program[n]]>>>>
        \o [k \in DOMAIN ts |-> <<ts[k], PreOpMemUse[program[ts[k]]]>>]
ConstMem(reqs) ==
    FoldLeft(LAMBDA a, r : IF r[2] = AllMemory THEN a ELSE a + r[2], 0, reqs)

\* Mutant: the rest is divided among the targets only.
Granted_TargetsOnly(reqs) ==
    LET max == SelectSeq(Tail(reqs), LAMBDA r : r[2] = AllMemory)
        part == IF max = <<>> THEN MemLimit - ConstMem(reqs)
                ELSE (MemLimit - ConstMem(reqs)) \div Len(max)
    IN  FoldLeft(LAMBDA m, r : [m EXCEPT ![r[1]] = IF r[2] = AllMemory THEN part ELSE r[2]], mem, reqs)

Granted(reqs) ==
    LET max == SelectSeq(reqs, LAMBDA r : r[2] = AllMemory)
        part == (MemLimit - ConstMem(reqs)) \div Len(max)
    IN  FoldLeft(LAMBDA m, r : [m EXCEPT ![r[1]] = IF r[2] = AllMemory THEN part ELSE r[2]], mem, reqs)

\* Mutant: every child consumes.
Decreased_EachChild(n) ==
    LET d == Len(graph.children[n])
    IN  IF counter[n] = Never THEN counter
        ELSE [counter EXCEPT ![n] = IF @ <= d THEN 0 ELSE @ - d]

\* DecConsumeCounter(1) of a node that has someone to push to.
Decreased(n) == IF counter[n] \in {0, Never} THEN counter ELSE [counter EXCEPT ![n] = @ - 1]

\* Stage::PushData.
PushData ==
    LET n == Current
        reqs == Requests(n)
        pushed == RemoveAllChildren(RunPushData(graph, n), n)
        swept == {m \in Range(Targets(graph, n)) : ForwardDataOnly(m)}
    IN  /\ InStage /\ ~ForwardDataOnly(n) /\ state[n] = "EXECUTED"
        /\ ~Consumed(n) /\ ConstMem(reqs) <= MemLimit
        /\ mem' = Granted(reqs)
        /\ counter' = IF graph.children[n] = <<>> THEN counter ELSE Decreased(n)
        /\ outcome' = IF pushed.failed THEN "assert"
                      ELSE IF swept \subseteq Living(held, stages, pushed.parents) THEN "ok" ELSE "destroyed"
        /\ Finish(pushed)
        /\ UNCHANGED <<program, size, uses, keeps, origin, state>>

Abort ==
    LET n == Current
    IN  /\ InStage /\ ~ForwardDataOnly(n) /\ state[n] = "EXECUTED"
        /\ Consumed(n) \/ ConstMem(Requests(n)) > MemLimit
        /\ outcome' = IF Consumed(n) THEN "consumed" ELSE "memory"
        /\ UNCHANGED <<programVars, graph, state, counter, mem, scopes, stages, toporder>>

-----------------------------------------------------------------------------
\* The end of the program: nothing is left to do, or abort().
Ended ==
    /\ ~Running \/ outcome # "ok"
    /\ UNCHANGED vars

Next ==
    \/ \E k \in 0 .. 2 : \E ps \in [1 .. k -> held] : Create(ps)
    \/ \E n \in held : Keep(n) \/ KeepForever(n) \/ Drop(n) \/ RunScope(n)
    \/ BeginScope \/ SkipForward \/ Execute \/ PushData \/ Abort
    \/ Ended

Spec == Init /\ [][Next]_vars

-----------------------------------------------------------------------------
(* Properties.                                                             *)

\* Every variable has its type: children are younger than their parents, and
\* consume_counter_ never wraps, not even when a node that is kept forever is
\* kept again.
TypeOK ==
    /\ size \in 0 .. Len(program) /\ held \subseteq 1 .. size /\ stages \subseteq 1 .. size
    /\ state \in [Node -> {"NEW", "EXECUTED"}]
    /\ counter \in [Node -> 0 .. Never] /\ mem \in [Node -> 0 .. MemLimit]
    /\ graph.parents \in [Node -> Seq(1 .. size)]
    /\ \A n \in Node : \A c \in Range(graph.children[n]) :
          c.node \in n + 1 .. size /\ c.status \in {"NEW", "PUSHING", "DONE"} /\ c.pushed \subseteq {1, 2}
    /\ Range(toporder) \subseteq stages /\ Range(scopes) \subseteq 1 .. size
    /\ outcome \in {"ok", "consumed", "memory", "assert", "destroyed"}

\* The nodes whose data reach a user of n.
Sources ==
    LET src[n \in Node] ==
          IF ForwardDataOnly(n)
          THEN FlattenSeq([i \in DOMAIN origin[n] |-> src[origin[n][i]]]) ELSE <<n>>
    IN  src

Times(x, s) == Cardinality({i \in DOMAIN s : s[i] = x})
SameBag(s, t) == \A x \in Range(s) \cup Range(t) : Times(x, s) = Times(x, t)

\* A node is executed with complete input: each of its inputs was started once,
\* then received the data of each of its sources exactly once, and was stopped
\* once, whatever other results were asked for before and whatever nodes were
\* added or dropped in the meantime.  (In a build without assertions: a build with
\* them may stop before, see AssertionsHold.)
CompleteInput ==
    \A n \in 1 .. size : state[n] = "EXECUTED" =>
        \A i \in DOMAIN origin[n] :
            LET c == graph.calls[n][i]
            IN  c.start = 1 /\ c.stop = 1 /\ SameBag(c.data, Sources[origin[n][i]])

\* The assertion of UnionNode::StopPreOp: no input is pushed to a child of a union
\* that already has it, although children are added later.
AssertionsHold == outcome # "assert"

\* Parents and children refer to each other: a living node that still waits for
\* a parent is registered there, and every registered child lives.
Registered ==
    outcome = "ok" =>
      \A n \in 1 .. size :
        /\ \A p \in Range(graph.parents[n]) : \E c \in Range(graph.children[p]) : c.node = n
        /\ \A c \in Range(graph.children[n]) : c.node \in Alive

\* The assertion of RunScope: the target is the last stage; and every stage comes
\* after its parents.
ParentsFirst ==
    toporder # <<>> =>
      /\ toporder[1] = Head(scopes)
      /\ \A j, k \in DOMAIN toporder : toporder[j] \in Range(graph.parents[toporder[k]]) => j > k

\* One call of Keep for every use of a DIA but the first is enough: no stage finds
\* the data that it has to push already consumed.
KeepSuffices == outcome # "consumed"

\* The nodes of a stage together get no more memory than the worker has.
MemoryShared ==
    [][PushData => LET s == {Current} \cup Range(Targets(graph, Current))
                   IN  MapThenSumSet(LAMBDA n : mem'[n], s) <= MemLimit]_vars
=============================================================================
