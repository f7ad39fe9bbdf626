--------------------------- MODULE SchedulerTypes ---------------------------
(***************************************************************************)
(* Type correctness of Scheduler and the lemmas about its messages, for    *)
(* every number of waves, threshold, channel capacity and executor, with   *)
(* lost events and aborted tasks.                                          *)
(***************************************************************************)
EXTENDS Scheduler, TLAPS

USE DEF WAVE_LENGTH, FIRST_LEADER_ROUND

-----------------------------------------------------------------------------
(* Leader rounds *)

\* Leader rounds are the multiples of the wave length up to the last wave.
LEMMA LeaderRoundsAre ==
    /\ LeaderRounds \subseteq Nat
    /\ \A r \in LeaderRounds : \E k \in 1..MaxWave : r = 3 * k
    /\ \A k \in 1..MaxWave : 3 * k \in LeaderRounds
BY SchedulerAssumption DEF LeaderRounds

\* The batches of one drain are batches, numbered by their wave.
LEMMA BatchesType ==
    ASSUME NEW n \in DispatchRounds, NEW k \in 0..MaxWave,
           n + 3 * k \in DispatchRounds
    PROVE  /\ Batches(n, k) \in Seq(Batch)
           /\ Len(Batches(n, k)) = k
           /\ \A i \in 1..k : Batches(n, k)[i].round = n + 3 * (i - 1)
<1>1. PICK w \in 1..(MaxWave + 1) : n = 3 * w
  BY LeaderRoundsAre, SchedulerAssumption DEF DispatchRounds
<1>2. w + k <= MaxWave + 1
  BY <1>1, LeaderRoundsAre, SchedulerAssumption DEF DispatchRounds
<1>3. ASSUME NEW i \in 1..k PROVE Batches(n, k)[i] \in Batch
  <2>1. n + 3 * (i - 1) = 3 * (w + i - 1) /\ w + i - 1 \in 1..MaxWave
    BY <1>1, <1>2, SchedulerAssumption
  <2>2. (3 * (w + i - 1)) \div 3 = w + i - 1
    BY <2>1
  <2> QED
    BY <2>1, <2>2, LeaderRoundsAre DEF Batches, Batch
<1>4. \A i \in 1..k : Batches(n, k)[i].round = n + 3 * (i - 1)
  BY DEF Batches
<1>5. k \in Nat /\ DOMAIN Batches(n, k) = 1..k
  BY SchedulerAssumption DEF Batches
<1>6. Batches(n, k) = [i \in 1..k |-> Batches(n, k)[i]]
  BY DEF Batches
<1>7. Batches(n, k) \in [1..k -> Batch]
  BY <1>3, <1>6
<1> QED
  BY <1>4, <1>5, <1>7

-----------------------------------------------------------------------------
(* Type correctness *)

USE DEF consensusVars, queueVars, bpVars, sendVars, executorVars, commitVars, historyVars

\* A broadcast keeps the channel within its capacity, full or not.
LEMMA BroadcastType ==
    ASSUME events \in Seq(Event), Len(events) <= EventCap, lagged \in BOOLEAN,
           NEW e \in Event, Broadcast(e)
    PROVE  events' \in Seq(Event) /\ Len(events') <= EventCap /\ lagged' \in BOOLEAN
<1>1. CASE Len(events) < EventCap
  BY <1>1, SchedulerAssumption DEF Broadcast
<1>2. CASE ~(Len(events) < EventCap)
  <2>1. events # <<>> /\ Len(events) = EventCap
    BY <1>2, SchedulerAssumption
  <2>2. Tail(events) \in Seq(Event) /\ Len(Tail(events)) = EventCap - 1
    BY <2>1
  <2> QED
    BY <1>2, <2>2, SchedulerAssumption DEF Broadcast
<1> QED
  BY <1>1, <1>2

\* Commit indices are no more than the waves so far.
LEMMA HardIndex ==
    ASSUME TypeOK, NEW r \in LeaderRounds, EmitHard(r)
    PROVE  commitIndex + 1 \in 1..MaxWave /\ 3 * (commitIndex + 1) <= r
<1> USE SchedulerAssumption
<1>1. PICK k \in 1..MaxWave : r = 3 * k
  BY LeaderRoundsAre
<1>2. PICK l \in 0..MaxWave : lastHard = 3 * l
  <2>1. CASE lastHard = 0
    BY <2>1, 0 \in 0..MaxWave, lastHard = 3 * 0
  <2>2. CASE lastHard \in LeaderRounds
    BY <2>2, LeaderRoundsAre
  <2> QED
    BY <2>1, <2>2 DEF TypeOK
<1>3. commitIndex \in Nat /\ 3 * commitIndex <= 3 * l /\ 3 * k > 3 * l
  BY <1>1, <1>2 DEF EmitHard, Interface!HardCommit, TypeOK
<1> QED
  BY <1>1, <1>2, <1>3

\* Every step of every task keeps every variable in its type.
LEMMA TypeStep == TypeOK /\ [Next]_vars => TypeOK'
<1> SUFFICES ASSUME TypeOK, [Next]_vars PROVE TypeOK'
  OBVIOUS
<1> USE SchedulerAssumption
<1>1. ASSUME NEW r \in LeaderRounds, EmitSoft(r) PROVE TypeOK'
  <2>1. [type |-> "soft", round |-> r] \in Event
    BY DEF Event
  <2> QED
    BY <1>1, <2>1, BroadcastType DEF EmitSoft, Interface!SoftCommit, TypeOK
<1>2. ASSUME NEW r \in LeaderRounds, EmitHard(r) PROVE TypeOK'
  <2>1. commitIndex + 1 \in 1..MaxWave /\ 3 * (commitIndex + 1) <= r
    BY <1>2, HardIndex
  <2>2. [type |-> "hard", round |-> r, index |-> commitIndex + 1] \in Event
    BY <2>1 DEF Event
  <2> QED
    BY SMTT(60), <1>2, <2>1, <2>2, BroadcastType DEF EmitHard, Interface!HardCommit, TypeOK
<1>3. CASE Close
  BY <1>3 DEF Close, TypeOK
<1>4. CASE RecvLagged
  BY <1>4 DEF RecvLagged, TypeOK
<1>5. CASE handle_soft_commit
  <2>1. Head(events) \in Event /\ Tail(events) \in Seq(Event) /\ Len(Tail(events)) <= EventCap
    BY <1>5 DEF handle_soft_commit, RecvEvent, TypeOK
  <2>2. insert(entries, Head(events).round) \in [LeaderRounds -> {"none", "queued", "dispatched"}]
    BY <2>1 DEF insert, TypeOK
  <2>3. paused' \in BOOLEAN /\ outbound' \in Signal \cup {"none"}
    BY <1>5 DEF handle_soft_commit, TypeOK, check, Emitted, Signal
  <2>4. /\ entries' \in [LeaderRounds -> {"none", "queued", "dispatched"}]
        /\ next_dispatch_round' \in DispatchRounds
        /\ outbox' \in Seq(Batch)
        /\ pc' \in {"select", "flush"}
    BY SMTT(60), <1>5, <2>2, BatchesType DEF handle_soft_commit, drain_dispatchable, Drains, TypeOK
  <2> QED
    BY <1>5, <2>1, <2>3, <2>4 DEF handle_soft_commit, RecvEvent, TypeOK
<1>6. CASE SendBatch
  <2>1. outbox \in Seq(Batch) /\ outbox # <<>> /\ execCh \in Seq(Batch) /\ Len(execCh) <= ExecCap
    BY <1>6 DEF SendBatch, TypeOK
  <2>2. Head(outbox) \in Batch /\ outbox' \in Seq(Batch)
    BY <1>6, <2>1 DEF SendBatch
  <2>3. execCh' \in Seq(Batch) /\ Len(execCh') <= ExecCap
    <3>1. CASE UNCHANGED execCh
      BY <2>1, <3>1
    <3>2. CASE Len(execCh) < ExecCap /\ execCh' = Append(execCh, Head(outbox))
      <4>1. Len(execCh') = Len(execCh) + 1 /\ execCh' \in Seq(Batch)
        BY <2>1, <2>2, <3>2
      <4> QED
        BY <2>1, <3>2, <4>1
    <3> QED
      BY <1>6, <3>1, <3>2 DEF SendBatch
  <2> QED
    BY SMTT(60), <1>6, <2>2, <2>3 DEF SendBatch, TypeOK
<1>7. CASE FlushDone
  BY <1>7 DEF FlushDone, TypeOK, check, Emitted, Signal
<1>8. CASE handle_hard_commit
  <2>1. /\ Head(events) \in [type : {"hard"}, round : LeaderRounds, index : 1..MaxWave]
        /\ Tail(events) \in Seq(Event) /\ Len(Tail(events)) <= EventCap
    BY SMTT(60), <1>8 DEF handle_hard_commit, RecvEvent, TypeOK, Event
  <2>2. on_hard_commit(entries, Head(events).round) \in {"Commit", "FreshBatch"}
    BY DEF on_hard_commit
  <2>3. decision' \in Decision /\ decision' # NoDecision
    BY <1>8, <2>1, <2>2 DEF handle_hard_commit, Decision, NoDecision
  <2> QED
    BY SMTT(60), <1>8, <2>1, <2>2, <2>3 DEF handle_hard_commit, RecvEvent, TypeOK
<1>9. CASE SendDecision
  <2>1. decision \in Decision /\ commitCh \in Seq(Decision) /\ Len(commitCh) <= CommitCap
    BY <1>9 DEF SendDecision, TypeOK
  <2>2. commitCh' \in Seq(Decision) /\ Len(commitCh') <= CommitCap
    BY <1>9, <2>1 DEF SendDecision
  <2> QED
    BY <1>9, <2>2 DEF SendDecision, TypeOK
<1>10. CASE RecvSignal
  BY SMTT(60), <1>10 DEF RecvSignal, TypeOK, Signal
<1>11. CASE SchedulerExit
  BY SMTT(60), <1>11 DEF SchedulerExit, TypeOK
<1>12. CASE ExecutorRecv
  BY SMTT(60), <1>12 DEF ExecutorRecv, TypeOK
<1>13. CASE ExecutorSignal
  <2>1. bpCh \in Seq(Signal) /\ Len(bpCh) <= BpCap
    BY DEF TypeOK
  <2>2. (IF exPc = "slow" THEN "SlowDown" ELSE "Resume") \in Signal
    BY DEF Signal
  <2>3. bpCh' \in Seq(Signal) /\ Len(bpCh') <= BpCap
    BY SMTT(60), <1>13, <2>1, <2>2 DEF ExecutorSignal
  <2> QED
    BY <1>13, <2>3 DEF ExecutorSignal, TypeOK
<1>14. CASE ExecutorExit
  BY <1>14 DEF ExecutorExit, TypeOK
<1>15. CASE ExecutorStop
  BY <1>15 DEF ExecutorStop, TypeOK
<1>16. CASE CommitRecv
  BY SMTT(60), <1>16 DEF CommitRecv, TypeOK
<1>17. CASE CommitExit
  BY <1>17 DEF CommitExit, TypeOK
<1>18. CASE CommitStop
  BY <1>18 DEF CommitStop, TypeOK
<1>19. CASE UNCHANGED vars
  BY <1>19 DEF vars, TypeOK
<1> QED
  BY <1>1, <1>2, <1>3, <1>4, <1>5, <1>6, <1>7, <1>8, <1>9, <1>10, <1>11, <1>12, <1>13,
     <1>14, <1>15, <1>16, <1>17, <1>18, <1>19
     DEF Next, Consensus, SchedulerStep, ExecutorStep, CommitStep, Terminated

\* The pipeline starts in its types.
LEMMA TypeInit == Init => TypeOK
BY SchedulerAssumption, LeaderRoundsAre DEF Init, TypeOK, NoDecision, DispatchRounds

\* TypeOK holds throughout: no task ever puts a value of another type in a channel, a
\* queue or a counter, and no channel exceeds its capacity.
THEOREM TypeCorrect == Spec => []TypeOK
BY TypeInit, TypeStep, PTL DEF Spec

-----------------------------------------------------------------------------
(* Sequences *)

\* Taking the head of a sequence shifts the rest by one.
LEMMA TailShifts ==
    ASSUME NEW S, NEW s \in Seq(S), s # <<>>
    PROVE  /\ Tail(s) \in Seq(S) /\ Len(s) \in Nat /\ Len(s) >= 1
           /\ Len(Tail(s)) = Len(s) - 1
           /\ Head(s) = s[1] /\ Head(s) \in S
           /\ \A i \in 1..Len(Tail(s)) : Tail(s)[i] = s[i + 1] /\ i + 1 \in 1..Len(s)
OBVIOUS

\* Appending keeps what was there and puts the new element last.
LEMMA AppendExtends ==
    ASSUME NEW S, NEW s \in Seq(S), NEW e \in S
    PROVE  /\ Append(s, e) \in Seq(S) /\ Len(s) \in Nat
           /\ Len(Append(s, e)) = Len(s) + 1
           /\ \A i \in 1..Len(s) : Append(s, e)[i] = s[i]
           /\ Append(s, e)[Len(s) + 1] = e
           /\ \A i \in 1..Len(Append(s, e)) :
                 (i \in 1..Len(s) /\ Append(s, e)[i] = s[i]) \/ Append(s, e)[i] = e
OBVIOUS

\* The elements of a sequence.
LEMMA ElementsIn == ASSUME NEW S, NEW s \in Seq(S) PROVE \A i \in 1..Len(s) : s[i] \in S
OBVIOUS

=============================================================================
