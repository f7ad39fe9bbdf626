-------------------------- MODULE SchedulerProofs --------------------------
(***************************************************************************)
(* The order of the decisions and the inductive invariant of the pipeline. *)
(***************************************************************************)
EXTENDS SchedulerOrder

USE DEF WAVE_LENGTH, FIRST_LEADER_ROUND
USE DEF consensusVars, queueVars, bpVars, sendVars, executorVars, commitVars, historyVars

-----------------------------------------------------------------------------
(* The order of decisions *)

\* A decision after all the others extends their order.
LEMMA ChainAppend ==
    ASSUME NEW s \in Seq(Decision), NEW d \in Decision, Chain(s), AllBefore(s, d)
    PROVE  Chain(Append(s, d))
<1>1. /\ Len(s) \in Nat /\ Len(Append(s, d)) = Len(s) + 1
      /\ \A i \in 1..Len(s) : Append(s, d)[i] = s[i]
      /\ Append(s, d)[Len(s) + 1] = d
  BY AppendExtends
<1> SUFFICES ASSUME NEW i \in 1..(Len(s) + 1), NEW j \in 1..(Len(s) + 1), i < j
             PROVE  Before(Append(s, d)[i], Append(s, d)[j])
  BY <1>1 DEF Chain
<1>2. i \in 1..Len(s) /\ (j \in 1..Len(s) \/ j = Len(s) + 1)
  BY <1>1
<1> QED
  BY <1>1, <1>2 DEF Chain, AllBefore

\* A sequence with one more element is before e when both its parts are.
LEMMA AllBeforeAppend ==
    ASSUME NEW s \in Seq(Decision), NEW d \in Decision, NEW e, AllBefore(s, e), Before(d, e)
    PROVE  AllBefore(Append(s, d), e)
<1>1. /\ Len(s) \in Nat /\ Len(Append(s, d)) = Len(s) + 1
      /\ \A i \in 1..Len(s) : Append(s, d)[i] = s[i]
      /\ Append(s, d)[Len(s) + 1] = d
  BY AppendExtends
<1>2. \A i \in 1..(Len(s) + 1) : i \in 1..Len(s) \/ i = Len(s) + 1
  BY <1>1
<1> QED
  BY <1>1, <1>2 DEF AllBefore

\* The order of a sequence is the order of its tail, with the head before it.
LEMMA ChainTail ==
    ASSUME NEW s \in Seq(Decision), s # <<>>, Chain(s)
    PROVE  /\ Chain(Tail(s))
           /\ \A i \in 1..Len(Tail(s)) : Before(Head(s), Tail(s)[i])
<1>1. /\ Len(s) \in Nat /\ Len(s) >= 1 /\ Len(Tail(s)) = Len(s) - 1 /\ Head(s) = s[1]
      /\ \A i \in 1..Len(Tail(s)) : Tail(s)[i] = s[i + 1] /\ i + 1 \in 1..Len(s)
  BY TailShifts
<1>2. ASSUME NEW i \in 1..Len(Tail(s)), NEW j \in 1..Len(Tail(s)), i < j
      PROVE  Before(Tail(s)[i], Tail(s)[j])
  <2>1. i + 1 < j + 1
    BY <1>1, <1>2
  <2> QED
    BY <1>1, <2>1 DEF Chain
<1>3. ASSUME NEW i \in 1..Len(Tail(s)) PROVE Before(Head(s), Tail(s)[i])
  <2>1. 1 \in 1..Len(s) /\ 1 < i + 1
    BY <1>1
  <2> QED
    BY <1>1, <2>1 DEF Chain
<1> QED
  BY <1>2, <1>3 DEF Chain

\* Every step keeps the decisions in order and ahead of the HardCommits to come.
LEMMA DecisionStep == TypeOK /\ ChannelInv /\ DecisionInv /\ [Next]_vars => DecisionInv'
<1> SUFFICES ASSUME TypeOK, ChannelInv, DecisionInv, [Next]_vars PROVE DecisionInv'
  OBVIOUS
<1> USE SchedulerAssumption
<1> DEFINE out == <<commitLog, commitCh, decision>>
<1>seqs. events \in Seq(Event) /\ commitLog \in Seq(Decision) /\ commitCh \in Seq(Decision)
  BY DEF TypeOK
<1>0. /\ events \in Seq(Event) /\ Len(events) <= EventCap /\ Len(events) \in Nat
      /\ LeaderRounds \subseteq Nat /\ lastHard \in Nat /\ commitIndex \in Nat
      /\ commitLog \in Seq(Decision) /\ commitCh \in Seq(Decision)
      /\ \A d \in Decision : d.round \in Nat /\ d.index \in Nat
      /\ \A x \in Event : x.type = "hard" => x.round \in Nat /\ x.index \in Nat
  <2>1. LeaderRounds \subseteq Nat /\ 1..MaxWave \subseteq Nat
    BY LeaderRoundsAre
  <2>2. \A d \in Decision : d.round \in LeaderRounds /\ d.index \in 1..MaxWave
    BY DEF Decision
  <2>3. \A x \in Event : x.type = "hard" => x.round \in LeaderRounds /\ x.index \in 1..MaxWave
    BY DEF Event
  <2>4. \A d \in Decision : d.round \in Nat /\ d.index \in Nat
    BY <2>1, <2>2
  <2>5. \A x \in Event : x.type = "hard" => x.round \in Nat /\ x.index \in Nat
    BY <2>1, <2>3
  <2> QED
    BY <2>1, <2>4, <2>5 DEF TypeOK
<1>1. CASE UNCHANGED <<out, events, lastHard, commitIndex>> /\ (pc' = "commit" => pc = "commit")
  BY <1>1 DEF DecisionInv, WasEmitted
<1>2. CASE Close \/ RecvLagged \/ SendBatch \/ FlushDone \/ RecvSignal \/ SchedulerExit
  BY <1>1, <1>2 DEF Close, RecvLagged, SendBatch, FlushDone, RecvSignal, SchedulerExit
<1>3. CASE ExecutorStep \/ ExecutorStop \/ CommitExit \/ UNCHANGED vars
  BY <1>1, <1>3 DEF ExecutorStep, ExecutorRecv, ExecutorSignal, ExecutorExit, ExecutorStop,
       CommitExit, vars
<1>4. ASSUME NEW e \in Event, Broadcast(e), UNCHANGED <<out, pc>>,
             lastHard' >= lastHard, commitIndex' >= commitIndex, lastHard' \in Nat, commitIndex' \in Nat,
             e.type = "hard" => e.round > lastHard /\ e.index > commitIndex
      PROVE  DecisionInv'
  <2>1. PICK d \in {0, 1} :
           /\ Len(events') = Len(events) + 1 - d /\ Len(events) \in Nat /\ d <= Len(events)
           /\ \A i \in 1..(Len(events') - 1) :
                 events'[i] = events[i + d] /\ i + d \in 1..Len(events)
           /\ events'[Len(events')] = e
    BY <1>0, <1>4, BroadcastShape
  <2>2. ASSUME NEW x \in Decision, WasEmitted(x)
        PROVE  WasEmitted(x)' /\ (e.type = "hard" => Before(x, e))
    <3>1. x.round \in Nat /\ x.index \in Nat /\ x.round <= lastHard /\ x.index <= commitIndex
      BY <1>0, <2>2 DEF WasEmitted
    <3>2. WasEmitted(x)'
      BY SMTT(40), ZenonT(40), <1>0, <1>4, <3>1 DEF WasEmitted
    <3>3. ASSUME e.type = "hard" PROVE Before(x, e)
      <4>1. /\ e.round \in Nat /\ e.index \in Nat
            /\ e.round > lastHard /\ e.index > commitIndex
        BY <1>0, <1>4, <3>3
      <4>2. \A a, b, c \in Nat : a <= b /\ c > b => a < c
        OBVIOUS
      <4>3. lastHard \in Nat /\ commitIndex \in Nat
        BY <1>0
      <4> QED
        BY <3>1, <4>1, <4>2, <4>3, Zenon DEF Before
    <3> QED
      BY <3>2, <3>3
  <2>3. \A i \in 1..Len(commitLog) : commitLog[i] \in Decision /\ WasEmitted(commitLog[i])
    BY ZenonT(30), <1>0, ElementsIn DEF DecisionInv
  <2>4. \A i \in 1..Len(commitCh) : commitCh[i] \in Decision /\ WasEmitted(commitCh[i])
    BY ZenonT(30), <1>0, ElementsIn DEF DecisionInv
  <2>5. pc = "commit" => decision \in Decision /\ WasEmitted(decision)
    BY DEF TypeOK, DecisionInv
  <2>6. /\ \A i \in 1..Len(commitLog) : WasEmitted(commitLog[i])'
        /\ \A i \in 1..Len(commitCh) : WasEmitted(commitCh[i])'
        /\ pc = "commit" => WasEmitted(decision)'
    <3>1. \A x \in Decision : WasEmitted(x) =>
             x.round <= lastHard' /\ x.index <= commitIndex'
      BY <2>2 DEF WasEmitted
    <3> QED
      BY <1>4, <2>3, <2>4, <2>5, <3>1 DEF WasEmitted
  <2>7. e.type = "hard" => /\ AllBefore(commitLog, e) /\ AllBefore(commitCh, e)
                           /\ pc = "commit" => Before(decision, e)
    BY <2>2, <2>3, <2>4, <2>5 DEF AllBefore
  <2>8. ASSUME NEW k \in 1..Len(events'), events'[k].type = "hard"
        PROVE  /\ AllBefore(commitLog, events'[k]) /\ AllBefore(commitCh, events'[k])
               /\ pc = "commit" => Before(decision, events'[k])
    <3>1. CASE k = Len(events')
      BY <2>1, <2>7, <2>8, <3>1
    <3>2. CASE k \in 1..(Len(events') - 1)
      BY <2>1, <2>8, <3>2 DEF DecisionInv
    <3> QED
      BY SMTT(60), <2>1, <3>1, <3>2
  <2> QED
    BY <1>4, <2>6, <2>8 DEF DecisionInv
<1>5. ASSUME NEW r \in LeaderRounds, EmitSoft(r) PROVE DecisionInv'
  <2>1. PICK e \in Event : e = [type |-> "soft", round |-> r]
    BY DEF Event
  <2> QED
    <3>1. /\ Broadcast(e) /\ UNCHANGED <<out, pc>> /\ lastHard' = lastHard
          /\ commitIndex' = commitIndex
      BY <1>5, <2>1 DEF EmitSoft, Interface!SoftCommit
    <3>2. \A n \in Nat : n >= n
      OBVIOUS
    <3>3. e.type # "hard"
      BY <2>1
    <3> QED
      BY ZenonT(30), <1>0, <1>4, <3>1, <3>2, <3>3
<1>6. ASSUME NEW r \in LeaderRounds, EmitHard(r) PROVE DecisionInv'
  <2>1. PICK e \in Event : e = [type |-> "hard", round |-> r, index |-> commitIndex + 1]
    BY <1>6, HardIndex DEF Event
  <2> QED
    <3>1. /\ Broadcast(e) /\ UNCHANGED <<out, pc>> /\ lastHard' = r /\ r \in Nat /\ r > lastHard
          /\ commitIndex' = commitIndex + 1
      BY <1>0, <1>6, <2>1 DEF EmitHard, Interface!HardCommit
    <3>2. e.round > lastHard /\ e.index > commitIndex
      <4>1. e.round = r /\ e.index = commitIndex + 1
        BY <2>1
      <4>2. commitIndex \in Nat
        BY <1>0
      <4>3. commitIndex + 1 > commitIndex
        BY <4>2
      <4> QED
        BY <3>1, <4>1, <4>3, Zenon
    <3>3. lastHard' >= lastHard /\ commitIndex' >= commitIndex /\ lastHard' \in Nat /\ commitIndex' \in Nat
      BY <1>0, <3>1
    <3> QED
      BY <1>4, <3>1, <3>2, <3>3
<1>7. CASE handle_soft_commit
  <2>1. /\ events # <<>> /\ events' = Tail(events) /\ pc' # "commit"
        /\ UNCHANGED <<lastHard, commitIndex, commitLog, commitCh>>
    BY <1>7 DEF handle_soft_commit, RecvEvent
  <2>2. \A i \in 1..Len(events') : events'[i] = events[i + 1] /\ i + 1 \in 1..Len(events)
    BY <1>seqs, <2>1, TailShifts
  <2> QED
    BY <2>1, <2>2 DEF DecisionInv, WasEmitted
<1>8. CASE handle_hard_commit
  <2> DEFINE h == Head(events)
  <2>1. /\ events # <<>> /\ events' = Tail(events) /\ h.type = "hard" /\ pc' = "commit"
        /\ decision'.round = h.round /\ decision'.index = h.index
        /\ UNCHANGED <<lastHard, commitIndex, commitLog, commitCh>>
    BY <1>8 DEF handle_hard_commit, RecvEvent
  <2>2. /\ h = events[1] /\ 1 \in 1..Len(events)
        /\ \A i \in 1..Len(events') :
              events'[i] = events[i + 1] /\ i + 1 \in 1..Len(events) /\ 1 < i + 1
    BY SMTT(60), <1>seqs, <2>1, TailShifts
  <2>3. AllBefore(commitLog, decision') /\ AllBefore(commitCh, decision')
    BY <2>1, <2>2 DEF DecisionInv, AllBefore, Before
  <2>4. WasEmitted(decision)'
    BY SMTT(40), ZenonT(60), <2>1, <2>2 DEF ChannelInv, EventInv, WasEmitted
  <2>5. \A i \in 1..Len(events') : events'[i].type = "hard" => Before(decision', events'[i])
    <3> SUFFICES ASSUME NEW i \in 1..Len(events'), events'[i].type = "hard"
                 PROVE  Before(decision', events'[i])
      OBVIOUS
    <3>1. Ahead(events[1], events[i + 1])
      BY ZenonT(30), <2>2 DEF ChannelInv
    <3> QED
      BY ZenonT(30), <2>1, <2>2, <3>1 DEF Ahead, Before
  <2>6. /\ \A i \in 1..Len(commitLog) : WasEmitted(commitLog[i])'
        /\ \A i \in 1..Len(commitCh) : WasEmitted(commitCh[i])'
    BY <2>1 DEF DecisionInv, WasEmitted
  <2>7. \A i \in 1..Len(events') : events'[i].type = "hard" =>
           AllBefore(commitLog, events'[i]) /\ AllBefore(commitCh, events'[i])
    BY <2>2 DEF DecisionInv
  <2> QED
    BY ZenonT(60), <2>1, <2>3, <2>4, <2>5, <2>6, <2>7 DEF DecisionInv
<1>9. CASE SendDecision
  <2>1. pc = "commit" /\ pc' = "select" /\ UNCHANGED <<events, lastHard, commitIndex, commitLog>>
    BY <1>9 DEF SendDecision
  <2>2. CASE UNCHANGED commitCh
    BY <2>1, <2>2 DEF DecisionInv, WasEmitted
  <2>3. CASE commitCh' = Append(commitCh, decision)
    <3>1. decision \in Decision
      BY <2>1 DEF TypeOK
    <3>2. Chain(commitCh')
      BY <1>0, <2>1, <2>3, <3>1, ChainAppend DEF DecisionInv
    <3>3. \A k \in 1..Len(events) : events[k].type = "hard" => AllBefore(commitCh', events[k])
      BY <1>0, <2>1, <2>3, <3>1, AllBeforeAppend DEF DecisionInv
    <3>4. \A i \in 1..Len(commitCh') :
             (i \in 1..Len(commitCh) /\ commitCh'[i] = commitCh[i]) \/ commitCh'[i] = decision
      <4> DEFINE longer == Append(commitCh, decision)
      <4>1. \A i \in 1..Len(longer) :
               (i \in 1..Len(commitCh) /\ longer[i] = commitCh[i]) \/ longer[i] = decision
        BY <1>seqs, <3>1, AppendExtends
      <4> QED
        BY <2>3, <4>1
    <3>5. \A i \in 1..Len(commitCh') : AllBefore(commitLog, commitCh'[i]) /\ WasEmitted(commitCh'[i])
      BY <2>1, <3>4 DEF DecisionInv
    <3> QED
      BY <2>1, <3>2, <3>3, <3>5 DEF DecisionInv, WasEmitted
  <2> QED
    BY <1>9, <2>2, <2>3 DEF SendDecision
<1>10. CASE CommitRecv
  <2>1. /\ commitCh # <<>> /\ commitCh' = Tail(commitCh)
        /\ commitLog' = Append(commitLog, Head(commitCh))
        /\ UNCHANGED <<events, lastHard, commitIndex, pc, decision>>
    BY <1>10 DEF CommitRecv
  <2>2. /\ Head(commitCh) = commitCh[1] /\ 1 \in 1..Len(commitCh) /\ Head(commitCh) \in Decision
        /\ \A i \in 1..Len(commitCh') : commitCh'[i] = commitCh[i + 1] /\ i + 1 \in 1..Len(commitCh)
    BY <1>seqs, <2>1, TailShifts
  <2>3. Chain(commitCh') /\ \A i \in 1..Len(commitCh') : Before(Head(commitCh), commitCh'[i])
    BY <1>0, <2>1, ChainTail DEF DecisionInv
  <2>4. Chain(commitLog')
    BY <1>0, <2>1, <2>2, ChainAppend DEF DecisionInv
  <2>5. \A i \in 1..Len(commitCh') : AllBefore(commitLog', commitCh'[i])
    BY <1>0, <2>1, <2>2, <2>3, AllBeforeAppend DEF DecisionInv
  <2>6. \A i \in 1..Len(commitLog') :
           \/ i \in 1..Len(commitLog) /\ commitLog'[i] = commitLog[i]
           \/ commitLog'[i] = Head(commitCh)
    <3> DEFINE longer == Append(commitLog, Head(commitCh))
    <3>1. \A i \in 1..Len(longer) :
             \/ i \in 1..Len(commitLog) /\ longer[i] = commitLog[i]
             \/ longer[i] = Head(commitCh)
      BY <1>seqs, <2>2, AppendExtends
    <3> QED
      BY <2>1, <3>1
  <2>7. /\ \A i \in 1..Len(commitLog') : WasEmitted(commitLog'[i])
        /\ \A i \in 1..Len(commitCh') : WasEmitted(commitCh'[i])
    BY <2>2, <2>6 DEF DecisionInv
  <2>8. pc = "commit" => /\ AllBefore(commitLog', decision) /\ AllBefore(commitCh', decision)
                         /\ WasEmitted(decision)
    <3>1. pc = "commit" => Before(Head(commitCh), decision) /\ AllBefore(commitLog, decision)
      BY <2>2 DEF DecisionInv, AllBefore
    <3>2. pc = "commit" => AllBefore(commitLog', decision)
      BY <1>0, <2>1, <2>2, <3>1, AllBeforeAppend
    <3> QED
      BY <2>2, <3>2 DEF DecisionInv, AllBefore
  <2>9. \A k \in 1..Len(events) : events[k].type = "hard" =>
           AllBefore(commitLog', events[k]) /\ AllBefore(commitCh', events[k])
    <3> SUFFICES ASSUME NEW k \in 1..Len(events), events[k].type = "hard"
                 PROVE  AllBefore(commitLog', events[k]) /\ AllBefore(commitCh', events[k])
      OBVIOUS
    <3>1. Before(Head(commitCh), events[k]) /\ AllBefore(commitLog, events[k])
      BY ZenonT(60), <2>2 DEF DecisionInv, AllBefore
    <3>2. AllBefore(commitLog', events[k])
      BY <1>0, <2>1, <2>2, <3>1, AllBeforeAppend
    <3> QED
      BY <2>2, <3>2 DEF DecisionInv, AllBefore
  <2> QED
    BY <2>1, <2>3, <2>4, <2>5, <2>7, <2>8, <2>9 DEF DecisionInv, WasEmitted
<1>11. CASE CommitStop
  <2>1. commitCh' = <<>> /\ UNCHANGED <<commitLog, events, lastHard, commitIndex, pc, decision>>
    BY <1>11 DEF CommitStop, consensusVars, sendVars
  <2>2. \A i \in 1..Len(commitCh') : FALSE
    BY <2>1
  <2>3. Chain(commitCh') /\ \A e : AllBefore(commitCh', e)
    BY <2>2, Zenon DEF Chain, AllBefore
  <2>4. Chain(commitLog') /\ \A i \in 1..Len(commitLog') : WasEmitted(commitLog[i])'
    BY <2>1, Zenon DEF DecisionInv, WasEmitted
  <2>5. pc' = "commit" => AllBefore(commitLog', decision') /\ WasEmitted(decision)'
    BY <2>1, Zenon DEF DecisionInv, WasEmitted
  <2>6. \A k \in 1..Len(events') : events'[k].type = "hard" =>
           AllBefore(commitLog', events'[k]) /\ (pc' = "commit" => Before(decision', events'[k]))
    BY <2>1, Zenon DEF DecisionInv
  <2> QED
    BY <2>2, <2>3, <2>4, <2>5, <2>6, Zenon DEF DecisionInv
<1> QED
  BY <1>2, <1>3, <1>5, <1>6, <1>7, <1>8, <1>9, <1>10, <1>11
     DEF Next, Consensus, SchedulerStep, CommitStep, Terminated

\* A prefix and a suffix in order, with every element of the first before every element
\* of the second, are in order together.
LEMMA ChainConcat ==
    ASSUME NEW s \in Seq(Decision), NEW t \in Seq(Decision), Chain(s), Chain(t),
           \A i \in 1..Len(t) : AllBefore(s, t[i])
    PROVE  s \o t \in Seq(Decision) /\ Chain(s \o t)
<1>1. /\ s \o t \in Seq(Decision) /\ Len(s \o t) = Len(s) + Len(t)
      /\ Len(s) \in Nat /\ Len(t) \in Nat
      /\ \A i \in 1..(Len(s) + Len(t)) : (s \o t)[i] = IF i <= Len(s) THEN s[i] ELSE t[i - Len(s)]
  OBVIOUS
<1> SUFFICES ASSUME NEW i \in 1..(Len(s) + Len(t)), NEW j \in 1..(Len(s) + Len(t)), i < j
             PROVE  Before((s \o t)[i], (s \o t)[j])
  BY <1>1 DEF Chain
<1>2. CASE j <= Len(s)
  BY <1>1, <1>2 DEF Chain
<1>3. CASE i <= Len(s) /\ ~(j <= Len(s))
  <2>1. i \in 1..Len(s) /\ j - Len(s) \in 1..Len(t)
    BY <1>1, <1>3
  <2> QED
    BY <1>1, <1>3, <2>1 DEF AllBefore
<1>4. CASE ~(i <= Len(s))
  <2>1. /\ i - Len(s) \in 1..Len(t) /\ j - Len(s) \in 1..Len(t)
        /\ i - Len(s) < j - Len(s) /\ ~(j <= Len(s))
    BY <1>1, <1>4
  <2> QED
    BY <1>1, <1>4, <2>1 DEF Chain
<1> QED
  BY <1>1, <1>2, <1>3, <1>4

\* The commit layer gets its decisions in ascending commit_index and round, for every
\* interleaving of the tasks and with events lost by the broadcast channel.
THEOREM DecisionOrder == Spec => []DecisionsInOrder
<1>1. Init => TypeOK /\ QueueInv /\ ChannelInv /\ DecisionInv
  BY SMTT(60), TypeInit, QueueInit DEF Init, DecisionInv, Chain
<1>2. TypeOK /\ QueueInv /\ ChannelInv /\ DecisionInv /\ [Next]_vars
        => (TypeOK /\ QueueInv /\ ChannelInv /\ DecisionInv)'
  BY TypeStep, QueueStep, DecisionStep
<1>3. TypeOK /\ DecisionInv => DecisionsInOrder
  <2> SUFFICES ASSUME TypeOK, DecisionInv PROVE DecisionsInOrder
    OBVIOUS
  <2> DEFINE last == IF pc = "commit" THEN <<decision>> ELSE <<>>
  <2>1. commitLog \in Seq(Decision) /\ commitCh \in Seq(Decision) /\ Chain(commitLog)
        /\ Chain(commitCh) /\ \A i \in 1..Len(commitCh) : AllBefore(commitLog, commitCh[i])
    BY DEF TypeOK, DecisionInv
  <2>2. commitLog \o commitCh \in Seq(Decision) /\ Chain(commitLog \o commitCh)
    BY <2>1, ChainConcat
  <2>3. CASE pc # "commit"
    <3>1. DecisionsSent = commitLog \o commitCh
      BY <2>1, <2>2, <2>3 DEF DecisionsSent
    <3> QED
      BY <2>2, <3>1 DEF Chain, Before, DecisionsInOrder
  <2>4. CASE pc = "commit"
    <3>1. /\ decision \in Decision /\ AllBefore(commitLog, decision)
          /\ AllBefore(commitCh, decision)
      BY <2>4 DEF TypeOK, DecisionInv
    <3>2. /\ Len(commitLog \o commitCh) = Len(commitLog) + Len(commitCh)
          /\ Len(commitLog) \in Nat /\ Len(commitCh) \in Nat
          /\ \A i \in 1..(Len(commitLog) + Len(commitCh)) :
                (commitLog \o commitCh)[i]
                   = IF i <= Len(commitLog) THEN commitLog[i] ELSE commitCh[i - Len(commitLog)]
      BY <2>1
    <3>3. AllBefore(commitLog \o commitCh, decision)
      BY <3>1, <3>2 DEF AllBefore
    <3>4. /\ <<decision>> \in Seq(Decision) /\ Chain(<<decision>>)
          /\ \A i \in 1..Len(<<decision>>) : AllBefore(commitLog \o commitCh, <<decision>>[i])
      BY <3>1, <3>3 DEF Chain
    <3>5. Chain((commitLog \o commitCh) \o <<decision>>)
      BY <2>2, <3>4, ChainConcat
    <3>6. DecisionsSent = (commitLog \o commitCh) \o <<decision>>
      BY <2>4 DEF DecisionsSent
    <3> QED
      BY <3>5, <3>6 DEF Chain, Before, DecisionsInOrder
  <2> QED
    BY <2>3, <2>4
<1> QED
  BY <1>1, <1>2, <1>3, PTL DEF Spec

\* The inductive invariant holds throughout: the executor's stream, the queue, the unread
\* events and the decisions stay consistent with one another.
THEOREM PipelineInvariant == Spec => []PipelineInv
<1>1. Init => PipelineInv
  <2>1. Init => DecisionInv
    BY SMTT(30) DEF Init, DecisionInv, Chain
  <2> QED
    BY <2>1, TypeInit, StreamInit, QueueInit DEF PipelineInv
<1>2. PipelineInv /\ [Next]_vars => PipelineInv'
  BY TypeStep, StreamStep, QueueStep, DecisionStep DEF PipelineInv
<1> QED
  BY <1>1, <1>2, PTL DEF Spec
=============================================================================
