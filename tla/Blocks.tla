------------------------------- MODULE Blocks -------------------------------
(***************************************************************************)
(* Block references.  A block is named by its slot <<round, author>>: no   *)
(* author signs two blocks for a slot.  Genesis blocks (round 0) are always*)
(* present and committed, so they are left out of ancestor sets.           *)
(***************************************************************************)
EXTENDS Committee

CONSTANT MaxRound    \* bound on the rounds of blocks

ASSUME BlocksAssumption == MaxRound \in Nat

Ref == (1..MaxRound) \X Authorities

round(b)  == b[1]
author(b) == b[2]

\* BlockRef order: round, then author.
Lower(a, b) == round(a) < round(b) \/ (round(a) = round(b) /\ author(a) < author(b))

\* Order of a and x in the ancestor list of c: its author's own block first, the others
\* by author.
ListedBefore(c, a, x) ==
    author(x) # author(c) /\ (author(a) = author(c) \/ author(a) < author(x))

LeaderRounds == {r \in 1..MaxRound : is_leader_round(r)}

\* The leader block of round r: elect_leader and leader_at_round agree.
Leader(r) == <<r, leader_at_round(r)>>

\* Every block of d above round 1 refers to a quorum of the round before it, as a block
\* does whose proposer waits for its ThresholdClock.
RefersToQuorum(d) ==
    \A b \in DOMAIN d : round(b) > 1 =>
        reached_quorum({author(a) : a \in {x \in d[b] : round(x) = round(b) - 1}})
=============================================================================
