--------------------------- MODULE CommitteeProofs ---------------------------
(* What the thresholds of Committee::new guarantee, for a committee of any size. *)
EXTENDS Committee, FiniteSetTheorems, TLAPS

\* The thresholds are natural numbers, a quorum exists and tolerates the faults, and the
\* assertion of Committee::new holds.
THEOREM Thresholds ==
    /\ fault_tolerance \in Nat /\ quorum_threshold \in 1..N
    /\ 3 * fault_tolerance < N
    /\ 2 * quorum_threshold - fault_tolerance > N
BY CommitteeAssumption DEF fault_tolerance, quorum_threshold

LEMMA AuthoritiesFinite == IsFiniteSet(Authorities) /\ Cardinality(Authorities) = N
<1>1. 0 \in Int /\ N - 1 \in Int
  BY CommitteeAssumption
<1>2. /\ IsFiniteSet(0..(N - 1))
      /\ Cardinality(0..(N - 1)) = IF 0 > N - 1 THEN 0 ELSE N - 1 - 0 + 1
  BY <1>1, FS_Interval
<1> QED
  BY <1>2, CommitteeAssumption DEF Authorities

LEMMA PartOfCommittee ==
    ASSUME NEW S \in SUBSET Authorities
    PROVE  IsFiniteSet(S) /\ Cardinality(S) \in Nat /\ Cardinality(S) <= N
BY AuthoritiesFinite, FS_Subset, FS_CardinalityType

\* Any two quorums of votes share a validity threshold of authorities, so an authority
\* that is not faulty is in both: no two conflicting leaders collect a quorum, in
\* add_vote as in is_certificate, without an authority that voted for both.
THEOREM QuorumsIntersect ==
    ASSUME NEW P \in SUBSET Authorities, reached_quorum(P),
           NEW Q \in SUBSET Authorities, reached_quorum(Q)
    PROVE  /\ reached_validity(P \cap Q)
           /\ \A faulty \in SUBSET Authorities :
                 Cardinality(faulty) <= fault_tolerance => ~ (P \cap Q \subseteq faulty)
<1>1. /\ IsFiniteSet(P) /\ IsFiniteSet(Q)
      /\ Cardinality(P) \in Nat /\ Cardinality(Q) \in Nat
  BY PartOfCommittee
<1>2. /\ P \cup Q \in SUBSET Authorities
      /\ Cardinality(P \cup Q) \in Nat /\ Cardinality(P \cup Q) <= N
  <2>1. P \cup Q \in SUBSET Authorities
    OBVIOUS
  <2> QED
    BY <2>1, PartOfCommittee
<1>3. IsFiniteSet(P \cap Q) /\ Cardinality(P \cap Q) \in Nat
  <2>1. P \cap Q \in SUBSET Authorities
    OBVIOUS
  <2> QED
    BY <2>1, PartOfCommittee
<1>4. Cardinality(P \cup Q) = Cardinality(P) + Cardinality(Q) - Cardinality(P \cap Q)
  BY <1>1, FS_Union
<1>5. Cardinality(P \cap Q) >= validity_threshold
  BY <1>1, <1>2, <1>3, <1>4, Thresholds, CommitteeAssumption
     DEF reached_quorum, quorum_threshold, validity_threshold
<1>6. ASSUME NEW faulty \in SUBSET Authorities, Cardinality(faulty) <= fault_tolerance,
             P \cap Q \subseteq faulty
      PROVE  FALSE
  <2>1. IsFiniteSet(faulty) /\ Cardinality(faulty) \in Nat
    BY PartOfCommittee
  <2>2. Cardinality(P \cap Q) <= Cardinality(faulty)
    BY <1>6, <2>1, FS_Subset
  <2> QED
    BY <1>3, <1>5, <1>6, <2>1, <2>2, Thresholds DEF validity_threshold
<1> QED
  BY <1>5, <1>6 DEF reached_validity
=============================================================================
