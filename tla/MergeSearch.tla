---------------------------- MODULE MergeSearch ----------------------------
(***************************************************************************)
(* The loop of MergeNode::MainOp (thrill/api/merge.hpp) that searches, with *)
(* random pivots, the ranks at which the sorted inputs are cut: all workers *)
(* step together, since every round ends with collective operations.        *)
(***************************************************************************)
EXTENDS SortMerge
CONSTANTS NumInputs,   \* kNumInputs
          MergeInputs  \* the inputs: [worker |-> [input |-> sorted sequence]]

VARIABLES files, left, width, ranks, found
mvars == <<files, left, width, ranks, found>>

Cuts == 1..(Len(files) - 1)
GlobalSize == SumSeq([w \in DOMAIN files |-> TotalLen(files[w])])
Targets == TargetRanks(GlobalSize, Len(files))

NoRanks(fs) == [r \in 1..(Len(fs) - 1) |-> [w \in DOMAIN fs |-> [f \in DOMAIN fs[w] |-> 0]]]
WholeRanges(fs) == [r \in 1..(Len(fs) - 1) |-> [w \in DOMAIN fs |-> [f \in DOMAIN fs[w] |-> Len(fs[w][f])]]]
MergeInit ==
    /\ files \in MergeInputs
    /\ left = NoRanks(files) /\ width = WholeRanges(files)
    /\ ranks = NoRanks(files) /\ found = FALSE

\* one round: pivots, their ranks, smaller ranges, and the test of the accuracy
Round(pivots) ==
    LET now == [r \in Cuts |-> LocalRanks(files, pivots[r], left[r], width[r])]
        step == [r \in Cuts |-> SearchStep(left[r], width[r], now[r], GlobalRank(now[r]) < Targets[r])]
    IN /\ ranks' = now
       /\ left' = [r \in Cuts |-> step[r].left]
       /\ width' = [r \in Cuts |-> step[r].width]
       /\ found' = Within(now, Targets, NumInputs)

Search ==
    /\ ~found
    /\ \E pivots \in {pv \in [Cuts -> UNION {Pivots(files, left[r], width[r]) : r \in Cuts}] :
                          \A r \in Cuts : pv[r] \in Pivots(files, left[r], width[r])} : Round(pivots)
    /\ UNCHANGED files

----------------------------------------------------------------------------
\* the cuts at the ends of worker s's share
SharedCuts(s) == Cardinality({s - 1, s} \cap Cuts)

\* merge.hpp, "merges any number of sorted DIAs to a single sorted DIA": read
\* worker by worker, the output is sorted and has every item of the inputs, and
\* no worker is further from its share than the tolerance allows.
MergedAndBalanced ==
    found =>
        LET out == MergePush(files, ranks)
            all == FlattenSeq(out)
            input == FlattenSeq([w \in DOMAIN files |-> FlattenSeq(files[w])])
            Count(x) == Cardinality({i \in DOMAIN input : input[i] = x})
        IN /\ \A i \in 1..(Len(all) - 1) : all[i].v <= all[i + 1].v
           /\ Len(all) = Len(input)
           /\ \A x \in Range(input) : Cardinality({i \in DOMAIN all : all[i].v = x}) = Count(x)
           /\ \A s \in DOMAIN files : AbsDiff(Len(out[s]), GlobalSize \div Len(files)) <= SharedCuts(s) * (NumInputs + 1) + 1

\* some input of some worker is cut for a later share in front of where it is cut
\* for an earlier one
Crossed ==
    \E q, r \in Cuts : q < r /\ \E w \in DOMAIN files : \E f \in DOMAIN files[w] : ranks[q][w][f] > ranks[r][w][f]
\* Merge: so it is if the cuts do not cross; those of two workers, of which there
\* is one, cannot.
MergedUnlessCrossed == ~Crossed => MergedAndBalanced

\* merge.hpp, "Iterate until we find a pivot which is within the prescribed balance
\* tolerance": while the search goes on, some random number makes a range of
\* some splitter smaller; else all workers would repeat the round for ever.
SearchAdvances ==
    LET now(r, pv) == LocalRanks(files, pv, left[r], width[r])
        next(r, pv) == SearchStep(left[r], width[r], now(r, pv), GlobalRank(now(r, pv)) < Targets[r])
    IN found \/ (\E r \in Cuts : \E pv \in Pivots(files, left[r], width[r]) : next(r, pv).width # width[r])
             \/ (\A r \in Cuts : \E pv \in Pivots(files, left[r], width[r]) :
                     AbsDiff(GlobalRank(now(r, pv)), Targets[r]) <= NumInputs + 1)
\* Merge, two workers: the search goes on.
SearchOfTwoAdvances == Len(files) = 2 => SearchAdvances

\* Merge: the rank searched for stays between the ends of its ranges.
TargetEnclosed ==
    \A r \in Cuts : /\ GlobalRank(left[r]) <= Targets[r]
                    /\ Targets[r] <= GlobalRank(left[r]) + GlobalRank(width[r])
=============================================================================
