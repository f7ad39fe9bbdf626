--------------------------- MODULE MCConsensusNode ---------------------------
(* Instances of ConsensusNode: four authors, rounds 1 to 8, leaders <<3, 3>> and <<6, 2>>. *)
EXTENDS ConsensusNode

Previous(b) == {a \in Ref : round(a) = round(b) - 1}

\* b refers to all blocks of the previous round but the one of author x.  An author never
\* leaves out its own block.
Without(b, x) == {a \in Previous(b) : author(a) # x \/ author(a) = author(b)}

\* The authors in voters vote for the leader of round 3, each block of round 5 (6) leaves out
\* the author k5 (k6) places on, or nobody when k = 0.
Dag(voters, k5, k6) ==
    [b \in Ref |->
        CASE round(b) = 4 /\ author(b) \notin voters -> Without(b, 3)
          [] round(b) = 5 -> Without(b, (author(b) + k5) % N)
          [] round(b) = 6 -> Without(b, (author(b) + k6) % N)
          [] OTHER -> Previous(b)]

\* From round 6 on nobody refers to a block of author x, a leader: it is partitioned away.
Isolating(x, d) == [b \in Ref |-> IF round(b) >= 6 THEN Without(b, x) ELSE d[b]]

SomeDags ==
    {Dag(v, k5, k6) : v \in SUBSET {0, 1, 2}, k5 \in 0..2, k6 \in 0..2}
    \cup {Isolating(x, Dag(v, k5, 0)) : v \in SUBSET {0, 1, 2}, k5 \in 0..2, x \in {2, 3}}

\* One wave of three authors; before it only the leader of round 3 has sent blocks.
OneWave ==
    LET Sent == {b \in Ref : IF round(b) <= 3 THEN author(b) = 3
                             ELSE round(b) <= 5 /\ author(b) # 0}
    IN  [b \in Sent |-> Previous(b) \cap Sent]

\* The DAG of test_e2e_out_of_order: from round 4 on author 3 is silent, and round 5 refers
\* to the blocks of two authors only.
OutOfOrder ==
    LET Sent == {b \in Ref : round(b) <= 3 \/ (author(b) # 3 /\ round(b) <= 7)}
    IN  [b \in Sent |-> {a \in Previous(b) \cap Sent : round(a) = 4 => author(a) < 2}]

BothOrders == SomeDags \cup {OneWave, OutOfOrder}
OneReordered == {OneWave}
NoDag == {}
NoBlock == {}

Warmup == {1, 2, 3}
=============================================================================
