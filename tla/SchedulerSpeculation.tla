------------------------ MODULE SchedulerSpeculation ------------------------
(***************************************************************************)
(* The bound on rounds that are speculatively dispatched and undecided.    *)
(***************************************************************************)
EXTENDS SchedulerTypes, FiniteSetTheorems

USE DEF WAVE_LENGTH, FIRST_LEADER_ROUND
USE DEF consensusVars, queueVars, bpVars, sendVars, executorVars, commitVars, historyVars

\* PendingQueue::depth counts a finite map.
LEMMA LeaderRoundsFinite == IsFiniteSet(LeaderRounds)
<1>1. IsFiniteSet(0..(3 * MaxWave))
  BY FS_Interval, SchedulerAssumption
<1>2. LeaderRounds \subseteq 0..(3 * MaxWave)
  BY LeaderRoundsAre, SchedulerAssumption
<1> QED
  BY <1>1, <1>2, FS_Subset

\* Rounds dispatched and undecided never exceed the threshold: depth is checked between
\* the insertion and the drain, and counts dispatched entries too.
LEMMA SpeculationStep == TypeOK /\ SpeculationBound /\ [Next]_vars => SpeculationBound'
<1> SUFFICES ASSUME TypeOK, SpeculationBound, [Next]_vars PROVE SpeculationBound'
  OBVIOUS
<1> DEFINE D == {r \in LeaderRounds : entries[r] = "dispatched"}
<1>0. /\ IsFiniteSet(D) /\ Cardinality(D) \in Nat /\ Cardinality(D) <= Threshold
      /\ Threshold \in Nat /\ LeaderRounds \subseteq Nat
  BY LeaderRoundsFinite, LeaderRoundsAre, FS_Subset, FS_CardinalityType, SchedulerAssumption
     DEF SpeculationBound
<1>1. ASSUME D' \subseteq D PROVE SpeculationBound'
  <2>1. Cardinality(D') \in Nat /\ Cardinality(D') <= Cardinality(D)
    BY <1>0, <1>1, FS_Subset, FS_CardinalityType
  <2> QED
    BY <1>0, <2>1 DEF SpeculationBound
<1>2. ASSUME UNCHANGED entries PROVE SpeculationBound'
  BY <1>1, <1>2
<1>3. CASE handle_soft_commit
  <2> DEFINE q == insert(entries, Head(events).round)
             Q == {r \in LeaderRounds : q[r] # "none"}
  <2>1. q \in [LeaderRounds -> {"none", "queued", "dispatched"}]
        /\ \A s \in LeaderRounds : q[s] = "dispatched" => entries[s] = "dispatched"
    BY DEF insert, TypeOK
  <2>2. CASE paused'
    BY <1>1, <1>3, <2>1, <2>2 DEF handle_soft_commit
  <2>3. CASE ~paused'
    <3>1. PICK k \in 0..MaxWave : /\ Drains(q, next_dispatch_round, k)
                                  /\ entries' = drain_dispatchable(q, next_dispatch_round, k)
      BY <1>3, <2>3 DEF handle_soft_commit
    <3>2. D' \subseteq Q
      BY <3>1 DEF Drains, drain_dispatchable
    <3>3. ~(Cardinality(Q) > Threshold)
      BY <1>3, <2>3 DEF handle_soft_commit, check, depth
    <3>4. Cardinality(Q) \in Nat /\ IsFiniteSet(Q)
      BY LeaderRoundsFinite, FS_Subset, FS_CardinalityType
    <3>5. Cardinality(D') \in Nat /\ Cardinality(D') <= Cardinality(Q)
      BY <3>2, <3>4, FS_Subset, FS_CardinalityType
    <3> QED
      BY SMTT(60), <1>0, <3>3, <3>4, <3>5 DEF SpeculationBound
  <2> QED
    BY <2>2, <2>3
<1>4. CASE handle_hard_commit
  BY <1>1, <1>4 DEF handle_hard_commit, TypeOK
<1>5. ASSUME NEW r \in LeaderRounds, EmitSoft(r) \/ EmitHard(r) PROVE UNCHANGED entries
  BY <1>5 DEF EmitSoft, Interface!SoftCommit, EmitHard, Interface!HardCommit
<1>6. CASE Close \/ RecvLagged \/ SendBatch \/ FlushDone \/ SendDecision \/ RecvSignal
           \/ SchedulerExit
  BY <1>2, <1>6 DEF Close, RecvLagged, SendBatch, FlushDone, SendDecision, RecvSignal, SchedulerExit
<1>7. CASE ExecutorStep \/ CommitStep \/ ExecutorStop \/ CommitStop \/ UNCHANGED vars
  BY <1>2, <1>7 DEF ExecutorStep, CommitStep, ExecutorRecv, ExecutorSignal, ExecutorExit,
       ExecutorStop, CommitRecv, CommitExit, CommitStop, vars
<1> QED
  BY <1>2, <1>3, <1>4, <1>5, <1>6, <1>7 DEF Next, Consensus, SchedulerStep, Terminated

\* At most Threshold rounds are speculatively dispatched and not yet decided, whatever
\* signals the executor sends.
THEOREM SpeculationBounded == Spec => []SpeculationBound
<1>1. Init => SpeculationBound
  <2>1. ASSUME Init PROVE {r \in LeaderRounds : entries[r] = "dispatched"} = {}
    BY <2>1 DEF Init
  <2> QED
    BY <2>1, FS_EmptySet, SchedulerAssumption DEF SpeculationBound
<1> QED
  BY <1>1, SpeculationStep, TypeCorrect, PTL DEF Spec

=============================================================================
