------------------------------ MODULE Committee ------------------------------
(***************************************************************************)
(* The committee: thresholds, the stake aggregator and round-robin leaders.*)
(* Every committee the code constructs gives each authority a stake of one *)
(* (make_test_committee), so stake is the number of authorities.           *)
(***************************************************************************)
EXTENDS Integers, FiniteSets

CONSTANT N       \* number of authorities

ASSUME CommitteeAssumption == N \in Nat \ {0}

Authorities == 0..(N - 1)

fault_tolerance    == (N - 1) \div 3
quorum_threshold   == N - fault_tolerance
validity_threshold == fault_tolerance + 1

reached_quorum(votes)   == Cardinality(votes) >= quorum_threshold
reached_validity(votes) == Cardinality(votes) >= validity_threshold

\* StakeAggregator::add returns TRUE: the vote is new, and with it the votes reach a quorum.
Completes(votes, a) == a \notin votes /\ reached_quorum(votes \cup {a})

DEFAULT_WAVE_LENGTH == 3

is_leader_round(r) == r > 0 /\ r % DEFAULT_WAVE_LENGTH = 0

leader_at_round(r) == r % N
=============================================================================
