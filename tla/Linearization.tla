---------------------------- MODULE Linearization ----------------------------
(***************************************************************************)
(* The traversal that turns a leader into an ordered list of blocks, step  *)
(* by step.  linearize_sub_dag and get_causal_blocks run the same loop: a  *)
(* stack, and a mark on every block that is pushed (the committed set of   *)
(* the first, visited in the second).  The Linearizer then sorts the list; *)
(* the SoftCommit takes it in the order the blocks were popped.            *)
(***************************************************************************)
EXTENDS Blocks, Sequences, SequencesExt, TLC

CONSTANT Inputs   \* records: the DAG, the blocks committed before, the leader

ASSUME InputsAssumption ==
    \A i \in Inputs :
        /\ i.leader \in DOMAIN i.ancestors \ i.committed
        /\ \A b \in DOMAIN i.ancestors : i.ancestors[b] \subseteq DOMAIN i.ancestors
        /\ \A b \in i.committed : i.ancestors[b] \subseteq i.committed

VARIABLES
    input,
    stack,      \* buffer / stack, top last
    marked,     \* committed / visited
    result      \* to_commit / result, in pop order

vars == <<input, stack, marked, result>>

\* Mutant: the mark is not looked at.
ToPush_All(b) == SetToSortSeq(input.ancestors[b], LAMBDA a, x : ListedBefore(b, a, x))

\* The ancestors of b still to be pushed, in the order of its ancestor list.
ToPush(b) ==
    SetToSortSeq(input.ancestors[b] \ marked, LAMBDA a, x : ListedBefore(b, a, x))

Init ==
    /\ input \in Inputs
    /\ stack = <<input.leader>>
    /\ marked = input.committed \cup {input.leader}
    /\ result = <<>>

Pop ==
    /\ stack # <<>>
    /\ LET b == Last(stack)
       IN  /\ stack' = Front(stack) \o ToPush(b)
           /\ marked' = marked \cup input.ancestors[b]
           /\ result' = Append(result, b)
    /\ UNCHANGED input

Done == stack = <<>> /\ UNCHANGED vars

Next == Pop \/ Done

Spec == Init /\ [][Next]_vars

\* Mutant: sorted by author first.
sort_sub_dag_blocks_AuthorFirst(s) ==
    SortSeq(s, LAMBDA a, b : Lower(<<author(a), round(a)>>, <<author(b), round(b)>>))

\* sort_sub_dag_blocks.
sort_sub_dag_blocks(s) == SortSeq(s, Lower)

-----------------------------------------------------------------------------

\* The causal history of b, b included.
History(b) ==
    LET H[i \in 0..MaxRound] ==
            IF i = 0 THEN {b}
            ELSE LET s == H[i - 1] IN s \cup UNION {input.ancestors[a] : a \in s}
    IN  H[MaxRound]

\* Whatever the shape of the DAG, the loop visits the uncommitted causal history of the
\* leader: nothing else, nothing twice, nothing left out.
TraversalExact ==
    /\ ToSet(result) \subseteq History(input.leader) \ input.committed
    /\ Cardinality(ToSet(result)) = Len(result)
    /\ stack = <<>> => ToSet(result) = History(input.leader) \ input.committed

\* The order of a HardCommit respects causality: sorting by round and author puts every
\* block behind its ancestors, and the leader last.
SortedCausally ==
    stack = <<>> =>
        LET s == sort_sub_dag_blocks(result)
        IN  /\ \A i, j \in 1..Len(s) : s[i] \in input.ancestors[s[j]] => i < j
            /\ Last(s) = input.leader
=============================================================================
