--------------------------- MODULE ConsensusEvents ---------------------------
(***************************************************************************)
(* What a consensus node promises its subscribers: at most one SoftCommit  *)
(* per leader round, in any round order; HardCommits in ascending leader   *)
(* rounds with consecutive commit indices, each after the SoftCommit of its*)
(* round.  A leader round without a HardCommit has been skipped.           *)
(* ConsensusNode implements it, Scheduler relies on it.                    *)
(***************************************************************************)
EXTENDS Integers

CONSTANT LeaderRounds

VARIABLES
    softSent,     \* rounds whose SoftCommit was emitted
    softCount,    \* SoftCommits emitted, so that one emitted again is a step
    lastHard,     \* round of the last HardCommit, 0 before
    commitIndex   \* commit_index of the last HardCommit, 0 before

eventVars == <<softSent, softCount, lastHard, commitIndex>>

Init == softSent = {} /\ softCount = 0 /\ lastHard = 0 /\ commitIndex = 0

SoftCommit(r) ==
    /\ r \notin softSent
    /\ softSent' = softSent \cup {r}
    /\ softCount' = softCount + 1
    /\ UNCHANGED <<lastHard, commitIndex>>

\* Mutant: leaders are committed in the order they are decided, not in round order.
HardCommit_AnyOrder(r) ==
    /\ r \in softSent /\ r # lastHard
    /\ lastHard' = r
    /\ commitIndex' = commitIndex + 1
    /\ UNCHANGED <<softSent, softCount>>

HardCommit(r) ==
    /\ r \in softSent /\ r > lastHard
    /\ lastHard' = r
    /\ commitIndex' = commitIndex + 1
    /\ UNCHANGED <<softSent, softCount>>

Next == \E r \in LeaderRounds : SoftCommit(r) \/ HardCommit(r)

Spec == Init /\ [][Next]_eventVars
=============================================================================
