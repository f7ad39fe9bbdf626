--------------------------- MODULE SchedulerOrder ---------------------------
(***************************************************************************)
(* The executor sees every leader round once and in order, and HardCommits *)
(* are answered accordingly.                                               *)
(***************************************************************************)
EXTENDS SchedulerTypes

USE DEF WAVE_LENGTH, FIRST_LEADER_ROUND
USE DEF consensusVars, queueVars, bpVars, sendVars, executorVars, commitVars, historyVars

-----------------------------------------------------------------------------
(* The executor's stream *)

\* The drain, the send, the receive and the abort keep the stream consecutive.
LEMMA StreamStep == TypeOK /\ StreamInv /\ [Next]_vars => StreamInv'
<1> SUFFICES ASSUME TypeOK, StreamInv, [Next]_vars PROVE StreamInv'
  OBVIOUS
<1> USE SchedulerAssumption
<1> DEFINE streamVars == <<pc, next_dispatch_round, outbox, execCh, exPc, received>>
<1>1. CASE UNCHANGED streamVars
  BY <1>1 DEF StreamInv, ExecutedInRoundOrder
<1>2. ASSUME NEW r \in LeaderRounds, EmitSoft(r) \/ EmitHard(r) PROVE UNCHANGED streamVars
  BY <1>2 DEF EmitSoft, Interface!SoftCommit, EmitHard, Interface!HardCommit
<1>3. CASE Close \/ RecvLagged \/ RecvSignal \/ CommitRecv \/ CommitExit \/ CommitStop
  BY <1>1, <1>3 DEF Close, RecvLagged, RecvSignal, CommitRecv, CommitExit, CommitStop
<1>4. CASE UNCHANGED vars
  BY <1>1, <1>4 DEF vars
<1>5. CASE handle_soft_commit
  <2>0. outbox = <<>> /\ UNCHANGED <<execCh, exPc, received>>
    BY <1>5 DEF handle_soft_commit, RecvEvent, StreamInv
  <2>1. CASE UNCHANGED <<next_dispatch_round, outbox>>
    BY <2>0, <2>1 DEF StreamInv, ExecutedInRoundOrder
  <2>2. CASE pc' = "flush" /\ \E k \in 0..MaxWave :
               /\ next_dispatch_round + 3 * k \in DispatchRounds
               /\ next_dispatch_round' = next_dispatch_round + 3 * k
               /\ outbox' = Batches(next_dispatch_round, k)
    <3>1. PICK k \in 0..MaxWave : /\ next_dispatch_round + 3 * k \in DispatchRounds
                                  /\ next_dispatch_round' = next_dispatch_round + 3 * k
                                  /\ outbox' = Batches(next_dispatch_round, k)
      BY <2>2
    <3>2. next_dispatch_round \in DispatchRounds
      BY DEF TypeOK
    <3>3. Len(outbox') = k /\ \A i \in 1..k : outbox'[i].round = next_dispatch_round + 3 * (i - 1)
      BY <3>1, <3>2, BatchesType
    <3>4. Len(received) \in Nat /\ Len(execCh) \in Nat /\ Len(outbox) = 0
      BY <2>0 DEF TypeOK
    <3> QED
      <4>1. exPc # "done" => next_dispatch_round = 3 * (Len(received) + Len(execCh) + 1)
        BY <3>4 DEF StreamInv
      <4>2. exPc # "done" => \A i \in 1..Len(outbox') :
               outbox'[i].round = 3 * (Len(received) + Len(execCh) + i)
        BY <3>3, <3>4, <4>1
      <4>3. exPc # "done" =>
               next_dispatch_round' = 3 * (Len(received) + Len(execCh) + Len(outbox') + 1)
        BY <3>1, <3>3, <3>4, <4>1
      <4> QED
        BY <2>0, <2>2, <4>2, <4>3 DEF StreamInv, ExecutedInRoundOrder
  <2> QED
    BY <1>5, <2>1, <2>2 DEF handle_soft_commit, Drains
<1>6. CASE SendBatch
  <2>1. /\ outbox \in Seq(Batch) /\ outbox # <<>> /\ execCh \in Seq(Batch)
        /\ outbox' = Tail(outbox) /\ Len(received) \in Nat
        /\ UNCHANGED <<pc, exPc, received, next_dispatch_round>> /\ pc = "flush"
    BY <1>6 DEF SendBatch, TypeOK
  <2>2. CASE exPc = "done"
    BY <2>1, <2>2 DEF StreamInv, ExecutedInRoundOrder
  <2>3. CASE exPc # "done"
    <3>1. execCh' = Append(execCh, Head(outbox))
      BY <1>6, <2>3 DEF SendBatch
    <3>2. /\ Len(outbox') = Len(outbox) - 1 /\ Len(outbox) \in Nat
          /\ \A i \in 1..Len(outbox') : outbox'[i] = outbox[i + 1] /\ i + 1 \in 1..Len(outbox)
          /\ Head(outbox) = outbox[1] /\ Head(outbox) \in Batch /\ 1 \in 1..Len(outbox)
      BY <2>1, TailShifts
    <3>3. /\ Len(execCh') = Len(execCh) + 1 /\ Len(execCh) \in Nat
          /\ \A i \in 1..Len(execCh) : execCh'[i] = execCh[i]
          /\ execCh'[Len(execCh) + 1] = Head(outbox)
      BY <2>1, <3>1, <3>2, AppendExtends
    <3>4. \A i \in 1..Len(execCh') : execCh'[i].round = 3 * (Len(received) + i)
      <4>1. outbox[1].round = 3 * (Len(received) + Len(execCh) + 1)
        BY <2>3, <3>2 DEF StreamInv
      <4>2. \A i \in 1..Len(execCh) : execCh[i].round = 3 * (Len(received) + i)
        BY <2>3 DEF StreamInv
      <4> SUFFICES ASSUME NEW i \in 1..Len(execCh')
                   PROVE  execCh'[i].round = 3 * (Len(received) + i)
        OBVIOUS
      <4>3. CASE i \in 1..Len(execCh)
        BY <3>3, <4>2, <4>3
      <4>4. CASE i = Len(execCh) + 1
        <5>1. execCh'[i].round = 3 * (Len(received) + Len(execCh) + 1)
          BY <3>2, <3>3, <4>1, <4>4
        <5> QED
          BY <2>1, <3>3, <4>4, <5>1
      <4> QED
        BY <3>3, <4>3, <4>4
    <3>5. \A i \in 1..Len(outbox') :
             outbox'[i].round = 3 * (Len(received) + Len(execCh') + i)
      BY <2>1, <2>3, <3>2, <3>3 DEF StreamInv
    <3>6. next_dispatch_round' = 3 * (Len(received) + Len(execCh') + Len(outbox') + 1)
      BY <2>1, <2>3, <3>2, <3>3 DEF StreamInv
    <3> QED
      BY <2>1, <3>4, <3>5, <3>6 DEF StreamInv, ExecutedInRoundOrder
  <2> QED
    BY <2>2, <2>3
<1>7. CASE FlushDone \/ handle_hard_commit \/ SendDecision \/ SchedulerExit
  <2>1. UNCHANGED <<next_dispatch_round, outbox, execCh, exPc, received>> /\ outbox = <<>>
    BY <1>7 DEF FlushDone, handle_hard_commit, RecvEvent, SendDecision, SchedulerExit, StreamInv
  <2> QED
    BY <2>1 DEF StreamInv, ExecutedInRoundOrder
<1>8. CASE ExecutorRecv
  <2>1. /\ execCh \in Seq(Batch) /\ execCh # <<>> /\ received \in Seq(Batch)
        /\ execCh' = Tail(execCh) /\ received' = Append(received, Head(execCh))
        /\ Len(outbox) \in Nat /\ exPc # "done"
        /\ UNCHANGED <<pc, outbox, next_dispatch_round>>
    BY <1>8 DEF ExecutorRecv, TypeOK
  <2>2. /\ Len(execCh') = Len(execCh) - 1 /\ Len(execCh) \in Nat
        /\ \A i \in 1..Len(execCh') : execCh'[i] = execCh[i + 1] /\ i + 1 \in 1..Len(execCh)
        /\ Head(execCh) = execCh[1] /\ Head(execCh) \in Batch /\ 1 \in 1..Len(execCh)
    BY <2>1, TailShifts
  <2>3. /\ Len(received') = Len(received) + 1 /\ Len(received) \in Nat
        /\ \A i \in 1..Len(received) : received'[i] = received[i]
        /\ received'[Len(received) + 1] = Head(execCh)
    BY <2>1, <2>2, AppendExtends
  <2>4. \A i \in 1..Len(received') : received'[i].round = 3 * i
    <3>1. ASSUME NEW i \in 1..Len(received') PROVE i \in 1..Len(received) \/ i = Len(received) + 1
      BY <2>3
    <3>2. execCh[1].round = 3 * (Len(received) + 1)
      BY <2>1, <2>2 DEF StreamInv
    <3> QED
      BY <2>2, <2>3, <3>1, <3>2 DEF StreamInv, ExecutedInRoundOrder
  <2>5. \A i \in 1..Len(execCh') : execCh'[i].round = 3 * (Len(received') + i)
    BY <2>1, <2>2, <2>3 DEF StreamInv
  <2>6. \A i \in 1..Len(outbox) :
           outbox[i].round = 3 * (Len(received') + Len(execCh') + i)
    BY <2>1, <2>2, <2>3 DEF StreamInv
  <2>7. next_dispatch_round = 3 * (Len(received') + Len(execCh') + Len(outbox) + 1)
    BY <2>1, <2>2, <2>3 DEF StreamInv
  <2> QED
    BY <2>1, <2>4, <2>5, <2>6, <2>7 DEF StreamInv, ExecutedInRoundOrder
<1>9. CASE ExecutorSignal
  BY <1>9 DEF ExecutorSignal, StreamInv, ExecutedInRoundOrder
<1>10. CASE ExecutorExit \/ ExecutorStop
  BY <1>10 DEF ExecutorExit, ExecutorStop, StreamInv, ExecutedInRoundOrder
<1> QED
  BY <1>1, <1>2, <1>3, <1>4, <1>5, <1>6, <1>7, <1>8, <1>9, <1>10
     DEF Next, Consensus, SchedulerStep, ExecutorStep, CommitStep, Terminated

\* The executor starts with an empty log and empty channels.
LEMMA StreamInit == Init => StreamInv
BY DEF Init, StreamInv, ExecutedInRoundOrder

\* The executor processes rounds 3, 6, 9, ... in order, each once, for every arrival
\* order of SoftCommits, every pattern of backpressure and every channel capacity.
THEOREM ExecutionOrder == Spec => []ExecutedInRoundOrder
<1>1. TypeOK /\ StreamInv /\ [Next]_vars => (TypeOK /\ StreamInv)'
  BY TypeStep, StreamStep
<1>2. Init => TypeOK /\ StreamInv
  BY TypeInit, StreamInit
<1>3. StreamInv => ExecutedInRoundOrder
  BY DEF StreamInv
<1> QED
  BY <1>1, <1>2, <1>3, PTL DEF Spec

-----------------------------------------------------------------------------
(* The pending queue and the unread events *)

\* A broadcast puts the event last and drops at most the oldest one.
LEMMA BroadcastShape ==
    ASSUME events \in Seq(Event), Len(events) <= EventCap, NEW e \in Event, Broadcast(e)
    PROVE  \E d \in {0, 1} :
              /\ Len(events') = Len(events) + 1 - d /\ Len(events) \in Nat /\ d <= Len(events)
              /\ \A i \in 1..(Len(events') - 1) :
                    events'[i] = events[i + d] /\ i + d \in 1..Len(events)
              /\ events'[Len(events')] = e
<1>1. CASE Len(events) < EventCap
  <2>1. events' = Append(events, e)
    BY <1>1 DEF Broadcast
  <2>2. /\ Len(events') = Len(events) + 1 /\ Len(events) \in Nat
        /\ \A i \in 1..Len(events) : events'[i] = events[i]
        /\ events'[Len(events) + 1] = e
    BY <2>1, AppendExtends
  <2> QED
    BY <2>2
<1>2. CASE ~(Len(events) < EventCap)
  <2>1. events # <<>> /\ events' = Append(Tail(events), e)
    BY <1>2, SchedulerAssumption DEF Broadcast
  <2>2. /\ Tail(events) \in Seq(Event) /\ Len(Tail(events)) = Len(events) - 1
        /\ Len(events) \in Nat /\ Len(events) >= 1
        /\ \A i \in 1..Len(Tail(events)) :
              Tail(events)[i] = events[i + 1] /\ i + 1 \in 1..Len(events)
    BY <2>1, TailShifts
  <2>3. /\ Len(events') = Len(Tail(events)) + 1
        /\ \A i \in 1..Len(Tail(events)) : events'[i] = Tail(events)[i]
        /\ events'[Len(Tail(events)) + 1] = e
    BY <2>1, <2>2, AppendExtends
  <2>4. \A i \in 1..(Len(events') - 1) :
           events'[i] = events[i + 1] /\ i + 1 \in 1..Len(events)
    BY <2>2, <2>3
  <2>5. Len(events') = Len(events) + 1 - 1 /\ events'[Len(events')] = e
    BY <2>2, <2>3
  <2> QED
    BY <2>2, <2>4, <2>5
<1> QED
  BY <1>1, <1>2

\* A broadcast event that may come after all unread ones keeps the channel in order.
LEMMA BroadcastChannel ==
    ASSUME TypeOK, ChannelInv, NEW e \in Event, Broadcast(e),
           EventInv(e)', \A x \in Event : EventInv(x) => EventInv(x)' /\ Ahead(x, e)
    PROVE  ChannelInv'
<1>1. events \in Seq(Event) /\ Len(events) <= EventCap
  BY DEF TypeOK
<1>2. PICK d \in {0, 1} :
         /\ Len(events') = Len(events) + 1 - d /\ Len(events) \in Nat /\ d <= Len(events)
         /\ \A i \in 1..(Len(events') - 1) :
               events'[i] = events[i + d] /\ i + d \in 1..Len(events)
         /\ events'[Len(events')] = e
  BY <1>1, BroadcastShape
<1>3. \A i \in 1..Len(events) : events[i] \in Event /\ EventInv(events[i])
  BY <1>1 DEF ChannelInv
<1>4. ASSUME NEW i \in 1..(Len(events') - 1)
      PROVE  EventInv(events[i])' /\ Ahead(events'[i], e)
  <2>1. PICK x \in Event : x = events'[i] /\ EventInv(x)
    BY <1>2, <1>3
  <2>2. EventInv(x)' /\ Ahead(x, e)
    BY <2>1
  <2> QED
    BY <2>1, <2>2 DEF EventInv
<1>5. ASSUME NEW i \in 1..Len(events') PROVE EventInv(events[i])'
  <2>1. CASE i = Len(events')
    BY <1>2, <2>1 DEF EventInv
  <2>2. CASE i \in 1..(Len(events') - 1)
    BY <1>4, <2>2
  <2> QED
    BY <1>2, <2>1, <2>2
<1>6. ASSUME NEW i \in 1..Len(events'), NEW j \in 1..Len(events'), i < j
      PROVE  Ahead(events'[i], events'[j])
  <2>1. CASE j = Len(events')
    <3>1. i \in 1..(Len(events') - 1)
      BY <1>2, <1>6, <2>1
    <3>2. Ahead(events'[i], e)
      BY <1>4, <3>1
    <3> QED
      BY <1>2, <2>1, <3>2
  <2>2. CASE j \in 1..(Len(events') - 1)
    <3>1. /\ events'[i] = events[i + d] /\ i + d \in 1..Len(events)
          /\ events'[j] = events[j + d] /\ j + d \in 1..Len(events)
          /\ i + d < j + d
      BY <1>2, <1>6, <2>2
    <3>2. Ahead(events[i + d], events[j + d])
      BY <3>1 DEF ChannelInv
    <3> QED
      BY <3>1, <3>2
  <2> QED
    BY <1>2, <2>1, <2>2
<1> QED
  BY <1>5, <1>6 DEF ChannelInv

\* Reading the oldest event keeps the channel in order, if handling it leaves true what
\* the events that may be behind it say.
LEMMA ReceiveChannel ==
    ASSUME TypeOK, ChannelInv, events # <<>>, events' = Tail(events),
           \A x \in Event : EventInv(x) /\ Ahead(Head(events), x) => EventInv(x)'
    PROVE  ChannelInv'
<1>1. events \in Seq(Event)
  BY DEF TypeOK
<1>2. /\ Len(events) \in Nat /\ Len(events) >= 1 /\ Len(events') = Len(events) - 1
      /\ Head(events) = events[1]
      /\ \A i \in 1..Len(events') : events'[i] = events[i + 1] /\ i + 1 \in 1..Len(events)
  BY <1>1, TailShifts
<1>3. ASSUME NEW i \in 1..Len(events') PROVE EventInv(events[i])'
  <2>1. events'[i] = events[i + 1] /\ i + 1 \in 1..Len(events) /\ 1 \in 1..Len(events) /\ 1 < i + 1
    BY <1>2
  <2>2. EventInv(events[i + 1]) /\ Ahead(Head(events), events[i + 1])
    BY <1>2, <2>1 DEF ChannelInv
  <2>3. PICK x \in Event : x = events[i + 1]
    BY <1>1, <2>1
  <2>4. EventInv(x)'
    BY <2>2, <2>3
  <2> QED
    BY <2>1, <2>3, <2>4 DEF EventInv
<1>4. ASSUME NEW i \in 1..Len(events'), NEW j \in 1..Len(events'), i < j
      PROVE  Ahead(events'[i], events'[j])
  <2>1. /\ events'[i] = events[i + 1] /\ i + 1 \in 1..Len(events)
        /\ events'[j] = events[j + 1] /\ j + 1 \in 1..Len(events) /\ i + 1 < j + 1
    BY <1>2, <1>4
  <2>2. Ahead(events[i + 1], events[j + 1])
    BY <2>1 DEF ChannelInv
  <2> QED
    BY <2>1, <2>2
<1> QED
  BY <1>3, <1>4 DEF ChannelInv

\* Emitting, buffering, draining and deciding a round keep its stage, its entry and its
\* unread events consistent.
LEMMA QueueStep ==
    TypeOK /\ QueueInv /\ ChannelInv /\ [Next]_vars => QueueInv' /\ ChannelInv'
<1> SUFFICES ASSUME TypeOK, QueueInv, ChannelInv, [Next]_vars PROVE QueueInv' /\ ChannelInv'
  OBVIOUS
<1> USE SchedulerAssumption
<1> DEFINE stageVars == <<events, softSent, lastHard, commitIndex, entries,
                          next_dispatch_round, verdict>>
<1>0. /\ events \in Seq(Event) /\ LeaderRounds \subseteq Nat
      /\ lastHard \in Nat /\ commitIndex \in Nat
      /\ \A x \in Event : x.round \in LeaderRounds /\ (x.type = "hard" => x.index \in Nat)
  BY LeaderRoundsAre DEF TypeOK, Event
<1>1. CASE UNCHANGED stageVars
  BY <1>1 DEF QueueInv, ChannelInv, EventInv
<1>2. CASE Close \/ RecvLagged \/ SendBatch \/ FlushDone \/ SendDecision \/ RecvSignal
           \/ SchedulerExit
  BY <1>1, <1>2 DEF Close, RecvLagged, SendBatch, FlushDone, SendDecision, RecvSignal, SchedulerExit
<1>3. CASE ExecutorStep \/ CommitStep \/ ExecutorStop \/ CommitStop \/ UNCHANGED vars
  BY <1>1, <1>3 DEF ExecutorStep, CommitStep, ExecutorRecv, ExecutorSignal, ExecutorExit,
       ExecutorStop, CommitRecv, CommitExit, CommitStop, vars
<1>4. ASSUME NEW r \in LeaderRounds, EmitSoft(r) PROVE QueueInv' /\ ChannelInv'
  <2> DEFINE e == [type |-> "soft", round |-> r]
  <2>1. /\ UNCHANGED <<lastHard, commitIndex, entries, next_dispatch_round, verdict>>
        /\ softSent' = softSent \cup {r} /\ r \notin softSent
    BY <1>4 DEF EmitSoft, Interface!SoftCommit
  <2>2. QueueInv'
    BY <2>1 DEF QueueInv
  <2>3. e \in Event /\ Broadcast(e)
    BY <1>4 DEF Event, EmitSoft, Interface!SoftCommit
  <2>4. verdict[r] = "none" /\ entries[r] = "none"
    BY <2>1 DEF QueueInv
  <2>5. EventInv(e)'
    BY <2>1, <2>4 DEF EventInv
  <2>6. \A x \in Event : EventInv(x) => EventInv(x)' /\ Ahead(x, e)
    BY <2>1 DEF EventInv, Ahead
  <2> QED
    BY <2>2, <2>3, <2>5, <2>6, BroadcastChannel
<1>5. ASSUME NEW r \in LeaderRounds, EmitHard(r) PROVE QueueInv' /\ ChannelInv'
  <2>1. /\ UNCHANGED <<softSent, entries, next_dispatch_round, verdict>>
        /\ lastHard' = r /\ r > lastHard /\ commitIndex' = commitIndex + 1 /\ r \in softSent
    BY <1>5 DEF EmitHard, Interface!HardCommit
  <2>2. QueueInv'
    <3>1. \A s \in LeaderRounds : s <= lastHard => s <= r
      BY <1>0, <2>1
    <3> QED
      BY <2>1, <3>1, Zenon DEF QueueInv
  <2>3. PICK e \in Event : e = [type |-> "hard", round |-> r, index |-> commitIndex + 1]
    BY <1>5, HardIndex DEF Event
  <2>4. /\ Broadcast(e) /\ verdict[r] = "none"
        /\ \A s \in LeaderRounds : verdict[s] # "none" => s < r
    BY SMTT(60), <1>0, <1>5, <2>1, <2>3 DEF QueueInv, EmitHard, Interface!HardCommit
  <2>5. EventInv(e)'
    BY SMTT(60), <1>0, <2>1, <2>3, <2>4 DEF EventInv
  <2>6. ASSUME NEW x \in Event, EventInv(x) PROVE EventInv(x)' /\ Ahead(x, e)
    <3>1. x.round \in Nat /\ r \in Nat
      BY <1>0
    <3>2. x.type = "hard" => x.round < r /\ x.index < commitIndex + 1
      BY <1>0, <2>1, <2>6, <3>1 DEF EventInv
    <3> QED
      BY SMTT(60), <1>0, <2>1, <2>3, <2>6, <3>1, <3>2 DEF EventInv, Ahead, Before
  <2> QED
    BY <2>2, <2>4, <2>5, <2>6, BroadcastChannel
<1>6. CASE handle_soft_commit
  <2> DEFINE r == Head(events).round
             q == insert(entries, r)
  <2>1. /\ events # <<>> /\ events' = Tail(events) /\ Head(events).type = "soft"
        /\ UNCHANGED <<softSent, lastHard, commitIndex, verdict>>
    BY <1>6 DEF handle_soft_commit, RecvEvent
  <2>2. Head(events) \in Event /\ EventInv(Head(events)) /\ r \in LeaderRounds
    BY <1>0, <2>1 DEF ChannelInv
  <2>3. /\ r \in softSent /\ verdict[r] = "none" /\ entries[r] = "none"
        /\ r >= next_dispatch_round /\ next_dispatch_round \in Nat
    <3>1. next_dispatch_round \in Nat
      BY <1>0 DEF TypeOK, DispatchRounds
    <3>2. r \in softSent /\ verdict[r] = "none" /\ entries[r] = "none"
      BY <2>1, <2>2 DEF EventInv
    <3>3. ~(r < next_dispatch_round)
      BY <2>2, <3>2 DEF QueueInv
    <3>4. r \in Nat
      BY <1>0, <2>2
    <3>5. \A a, b \in Nat : ~(a < b) => a >= b
      OBVIOUS
    <3> QED
      BY <3>1, <3>2, <3>3, <3>4, <3>5
  <2>4. /\ q[r] = "queued" /\ \A s \in LeaderRounds : s # r => q[s] = entries[s]
        /\ q \in [LeaderRounds -> {"none", "queued", "dispatched"}]
    BY <2>2 DEF insert, TypeOK
  <2>5. \E k \in 0..MaxWave :
           /\ next_dispatch_round' = next_dispatch_round + 3 * k
           /\ \A s \in LeaderRounds :
                 next_dispatch_round <= s /\ s < next_dispatch_round' => q[s] = "queued"
           /\ \A s \in LeaderRounds :
                 entries'[s] = IF next_dispatch_round <= s /\ s < next_dispatch_round'
                               THEN "dispatched" ELSE q[s]
    <3>1. CASE entries' = q /\ UNCHANGED next_dispatch_round
      <4>1. 0 \in 0..MaxWave
        BY SchedulerAssumption DEF SchedulerAssumption
      <4>2. next_dispatch_round' = next_dispatch_round + 3 * 0
        BY <2>3, <3>1
      <4>3. \A s \in LeaderRounds : ~(next_dispatch_round <= s /\ s < next_dispatch_round')
        <5>1. \A a, b \in Nat : ~(a <= b /\ b < a)
          OBVIOUS
        <5>2. LeaderRounds \subseteq Nat
          BY <1>0
        <5> QED
          BY <2>3, <3>1, <5>1, <5>2, Zenon
      <4> QED
        BY <3>1, <4>1, <4>2, <4>3, Zenon
    <3>2. CASE \E k \in 0..MaxWave :
                  /\ Drains(q, next_dispatch_round, k)
                  /\ entries' = drain_dispatchable(q, next_dispatch_round, k)
                  /\ next_dispatch_round' = next_dispatch_round + 3 * k
      BY <3>2 DEF Drains, drain_dispatchable
    <3> QED
      BY <1>6, <3>1, <3>2 DEF handle_soft_commit
  <2>6. QueueInv'
    BY SMTT(60), <1>0, <2>1, <2>3, <2>4, <2>5 DEF QueueInv
  <2>7. \A x \in Event : EventInv(x) /\ Ahead(Head(events), x) => EventInv(x)'
    BY <1>0, <2>1, <2>4, <2>5 DEF EventInv, Ahead
  <2> QED
    BY <2>1, <2>6, <2>7, ReceiveChannel
<1>7. CASE handle_hard_commit
  <2> DEFINE r == Head(events).round
  <2>1. /\ events # <<>> /\ events' = Tail(events) /\ Head(events).type = "hard"
        /\ UNCHANGED <<softSent, lastHard, commitIndex, next_dispatch_round>>
        /\ entries' = [entries EXCEPT ![r] = "none"]
        /\ verdict' = [verdict EXCEPT ![r] = on_hard_commit(entries, r)]
    BY <1>7 DEF handle_hard_commit, RecvEvent
  <2>2. Head(events) \in Event /\ EventInv(Head(events)) /\ r \in LeaderRounds
    BY SMTT(60), <1>0, <2>1 DEF ChannelInv
  <2>3. r \in softSent /\ verdict[r] = "none" /\ r <= lastHard
    BY <2>1, <2>2 DEF EventInv
  <2>4. /\ entries'[r] = "none" /\ verdict'[r] = on_hard_commit(entries, r)
        /\ \A s \in LeaderRounds : s # r => entries'[s] = entries[s] /\ verdict'[s] = verdict[s]
    BY <2>1, <2>2 DEF TypeOK
  <2>5. QueueInv'
    BY SMTT(60), <2>1, <2>3, <2>4 DEF QueueInv, on_hard_commit
  <2>6. \A x \in Event : EventInv(x) /\ Ahead(Head(events), x) => EventInv(x)'
    <3> SUFFICES ASSUME NEW x \in Event, EventInv(x), Ahead(Head(events), x)
                 PROVE  EventInv(x)'
      OBVIOUS
    <3>1. x.type \in {"soft", "hard"} /\ x.round \in LeaderRounds
      BY DEF Event
    <3>2. x.type = "hard" => r < x.round
      BY <2>1 DEF Ahead, Before
    <3>3. x.round # r
      <4>1. CASE x.type = "soft"
        BY <4>1 DEF Ahead
      <4>2. CASE x.type = "hard"
        <5>1. x.round \in Nat
          BY <1>0
        <5>2. \A a \in Nat : ~(a < a)
          OBVIOUS
        <5>3. r < x.round
          BY <3>2, <4>2
        <5> QED
          BY <5>1, <5>2, <5>3, Zenon
      <4> QED
        BY <3>1, <4>1, <4>2
    <3>4. entries'[x.round] = entries[x.round] /\ verdict'[x.round] = verdict[x.round]
      BY <2>4, <3>1, <3>3
    <3>5. x.type = "hard" => \A s \in LeaderRounds : verdict'[s] # "none" => s < x.round
      BY <2>4, <3>2 DEF EventInv
    <3> QED
      BY <2>1, <3>4, <3>5 DEF EventInv
  <2> QED
    BY <2>1, <2>5, <2>6, ReceiveChannel
<1> QED
  BY <1>1, <1>2, <1>3, <1>4, <1>5, <1>6, <1>7
     DEF Next, Consensus, SchedulerStep, Terminated

-----------------------------------------------------------------------------
(* What the queue invariant gives *)

\* Nothing is buffered, dispatched or decided at the start.
LEMMA QueueInit == Init => QueueInv /\ ChannelInv
BY LeaderRoundsAre DEF Init, QueueInv, ChannelInv

\* The type, queue and channel invariants are inductive together.
LEMMA QueueInductive == Spec => [](TypeOK /\ QueueInv /\ ChannelInv)
<1>1. Init => TypeOK /\ QueueInv /\ ChannelInv
  BY TypeInit, QueueInit
<1>2. TypeOK /\ QueueInv /\ ChannelInv /\ [Next]_vars => (TypeOK /\ QueueInv /\ ChannelInv)'
  BY TypeStep, QueueStep
<1> QED
  BY <1>1, <1>2, PTL DEF Spec

\* No round is both executed speculatively and handed over as a fresh batch, and no round
\* is confirmed whose batch was never drained for the executor, even when the broadcast
\* channel drops events.
THEOREM NoDoubleExecution == Spec => []ConfirmedIffDispatched
<1>1. TypeOK /\ QueueInv => ConfirmedIffDispatched
  BY DEF TypeOK, QueueInv, ConfirmedIffDispatched
<1> QED
  BY <1>1, QueueInductive, PTL

\* A queue entry exists only between its SoftCommit and its HardCommit, and is marked
\* dispatched exactly below next_dispatch_round.
THEOREM EntriesAreLive == Spec => []EntryLifetime
<1>1. TypeOK /\ QueueInv => EntryLifetime
  <2> SUFFICES ASSUME TypeOK, QueueInv, NEW r \in LeaderRounds, entries[r] # "none"
               PROVE  /\ r \in softSent /\ verdict[r] = "none"
                      /\ entries[r] = "dispatched" <=> r < next_dispatch_round
    BY DEF EntryLifetime
  <2>1. entries[r] \in {"queued", "dispatched"} /\ r \in softSent /\ verdict[r] = "none"
    BY DEF TypeOK, QueueInv
  <2>2. r < next_dispatch_round => entries[r] = "dispatched"
    BY <2>1 DEF QueueInv
  <2>3. entries[r] = "dispatched" => r < next_dispatch_round
    BY DEF QueueInv
  <2> QED
    BY <2>1, <2>2, <2>3
<1> QED
  BY <1>1, QueueInductive, PTL

=============================================================================
