------------------------------ MODULE Scheduler ------------------------------
(***************************************************************************)
(* The optimistic pipeline of one node: PipelineScheduler (with its        *)
(* PendingQueue and BackpressureController), the executor task, the commit *)
(* wrapper task and the bounded channels that build_test_node wires between*)
(* them.  The consensus side is its interface only, ConsensusEvents.       *)
(*                                                                         *)
(* Transaction lists are named by where they come from: a batch with       *)
(* is_optimistic = TRUE carries the txs of the SoftCommit of its round, one*)
(* with FALSE the txs of the HardCommit.                                   *)
(***************************************************************************)
EXTENDS Integers, Sequences, FiniteSets

CONSTANTS
    MaxWave,     \* bound: leader rounds are 3, 6, ..., 3 * MaxWave
    Threshold,   \* DEFAULT_THRESHOLD of the pending queue
    EventCap,    \* capacity of the consensus broadcast channel
    ExecCap,     \* SCHEDULER_EXECUTOR_CAP
    BpCap,       \* BACKPRESSURE_CAP
    CommitCap,   \* capacity of the commit channel
    Delay,       \* delay_ms > 0: the executor signals around every batch
    MayStop      \* tasks that may be aborted: a subset of {"executor", "commit"}

ASSUME SchedulerAssumption ==
    /\ MaxWave \in Nat \ {0}
    /\ Threshold \in Nat /\ Threshold >= 2
    /\ {EventCap, ExecCap, BpCap, CommitCap} \subseteq Nat \ {0}
    /\ Delay \in BOOLEAN
    /\ MayStop \subseteq {"executor", "commit"}

FIRST_LEADER_ROUND == 3
WAVE_LENGTH == 3

LeaderRounds == {WAVE_LENGTH * k : k \in 1..MaxWave}

\* Values of next_dispatch_round: a leader round, or the one after the last of the model.
DispatchRounds == LeaderRounds \cup {WAVE_LENGTH * (MaxWave + 1)}

VARIABLES
    \* consensus interface
    events,              \* broadcast channel, oldest unread event first
    lagged,              \* the receiver has missed events it has not been told of
    softSent,            \* rounds whose SoftCommit was emitted
    lastHard,            \* round of the last HardCommit emitted, 0 before
    commitIndex,         \* commit_index of the last HardCommit emitted
    closed,              \* the consensus node and its sender are gone
    \* PipelineScheduler
    pc,                  \* await point the run loop is at
    entries,             \* PendingQueue::entries, "none" where there is no entry
    next_dispatch_round, \* PendingQueue::next_dispatch_round
    paused,              \* BackpressureController::paused
    outbound,            \* last signal sent on signal_tx
    outbox,              \* batches flush_pending has still to send
    decision,            \* decision handle_hard_commit is sending
    \* channels out of and into the scheduler
    execCh, bpCh, commitCh,
    \* the two other tasks
    exPc, received,      \* MockExecutor: await point and event log
    cwDone, commitLog,   \* MockCommitWrapper: finished, and event log
    \* history, read by no action
    verdict,             \* what each hard-committed round was decided to be
    aborted              \* tasks that were aborted

consensusVars == <<events, lagged, softSent, lastHard, commitIndex, closed>>
queueVars     == <<entries, next_dispatch_round>>
bpVars        == <<paused, outbound>>
sendVars      == <<outbox, decision>>
executorVars  == <<exPc, received>>
commitVars    == <<cwDone, commitLog>>
historyVars   == <<verdict, aborted>>
vars == <<consensusVars, pc, queueVars, bpVars, sendVars, execCh, bpCh, commitCh,
          executorVars, commitVars, historyVars>>

-----------------------------------------------------------------------------
(* Messages *)

Event == [type : {"soft"}, round : LeaderRounds]
         \cup [type : {"hard"}, round : LeaderRounds, index : 1..MaxWave]

Batch == [round : LeaderRounds, commit_index : 1..MaxWave, is_optimistic : {TRUE}]

\* CommitDecision::Discard is declared by the code and produced nowhere.
Decision == [kind : {"Commit", "FreshBatch"}, round : LeaderRounds, index : 1..MaxWave]

NoDecision == [kind |-> "none"]

Signal == {"SlowDown", "Resume"}

-----------------------------------------------------------------------------
(* PendingQueue *)

depth(q) == Cardinality({r \in LeaderRounds : q[r] # "none"})

insert(q, r) == [q EXCEPT ![r] = "queued"]

\* drain_dispatchable returns the k entries that start at next_dispatch_round n: all
\* of them queued, and the one after them is not.
Drains(q, n, k) ==
    /\ \A r \in LeaderRounds : n <= r /\ r < n + WAVE_LENGTH * k => q[r] = "queued"
    /\ n + WAVE_LENGTH * k \in DispatchRounds
    /\ n + WAVE_LENGTH * k \in LeaderRounds => q[n + WAVE_LENGTH * k] # "queued"

\* Mutant: the drained entries are not marked.
drain_dispatchable_Unmarked(q, n, k) == q

\* Mutant: off by one, the entry after the drained ones is marked as well.
drain_dispatchable_OneMore(q, n, k) ==
    [r \in LeaderRounds |-> IF n <= r /\ r <= n + WAVE_LENGTH * k THEN "dispatched" ELSE q[r]]

drain_dispatchable(q, n, k) ==
    [r \in LeaderRounds |-> IF n <= r /\ r < n + WAVE_LENGTH * k THEN "dispatched" ELSE q[r]]

\* Mutant: the status of the entry is not looked at.
on_hard_commit_AnyEntry(q, r) == IF q[r] # "none" THEN "Commit" ELSE "FreshBatch"

\* Mutant: an entry that was never dispatched is discarded.
on_hard_commit_Discards(q, r) ==
    CASE q[r] = "dispatched" -> "Commit" [] q[r] = "queued" -> "Discard" [] OTHER -> "FreshBatch"

on_hard_commit(q, r) == IF q[r] = "dispatched" THEN "Commit" ELSE "FreshBatch"

-----------------------------------------------------------------------------
(* BackpressureController *)

\* Mutant: the threshold is one too high.
check_Late(d, p) == d > Threshold + 1 \/ (p /\ d >= Threshold \div 2)

\* paused after check(d): set above the threshold, cleared below half of it,
\* kept in the hysteresis band.
check(d, p) == d > Threshold \/ (p /\ d >= Threshold \div 2)

\* A signal leaves only when check changes paused.
Emitted(before, after, last) ==
    IF before = after THEN last ELSE IF after THEN "SlowDown" ELSE "Resume"

-----------------------------------------------------------------------------
(* Consensus interface: what ConsensusEvents allows, put on the broadcast channel *)

Interface == INSTANCE ConsensusEvents WITH softCount <- Cardinality(softSent)

\* broadcast::Sender::send: a full channel overwrites the oldest unread event.
Broadcast(e) ==
    IF Len(events) < EventCap
    THEN events' = Append(events, e) /\ UNCHANGED lagged
    ELSE events' = Append(Tail(events), e) /\ lagged' = TRUE

EmitSoft(r) ==
    /\ ~closed /\ Interface!SoftCommit(r)
    /\ Broadcast([type |-> "soft", round |-> r])
    /\ UNCHANGED <<closed, pc, queueVars, bpVars, sendVars,
                   execCh, bpCh, commitCh, executorVars, commitVars, historyVars>>

EmitHard(r) ==
    /\ ~closed /\ Interface!HardCommit(r)
    /\ Broadcast([type |-> "hard", round |-> r, index |-> commitIndex + 1])
    /\ UNCHANGED <<closed, pc, queueVars, bpVars, sendVars,
                   execCh, bpCh, commitCh, executorVars, commitVars, historyVars>>

Close ==
    /\ ~closed /\ closed' = TRUE
    /\ UNCHANGED <<events, lagged, softSent, lastHard, commitIndex, pc, queueVars,
                   bpVars, sendVars, execCh, bpCh, commitCh, executorVars, commitVars,
                   historyVars>>

-----------------------------------------------------------------------------
(* PipelineScheduler::run *)

\* RecvError::Lagged: logged, and the loop goes on.
RecvLagged ==
    /\ pc = "select" /\ lagged
    /\ lagged' = FALSE
    /\ UNCHANGED <<events, softSent, lastHard, commitIndex, closed, pc, queueVars, bpVars,
                   sendVars, execCh, bpCh, commitCh, executorVars, commitVars, historyVars>>

RecvEvent ==
    /\ pc = "select" /\ ~lagged /\ events # <<>>
    /\ events' = Tail(events)
    /\ UNCHANGED <<lagged, softSent, lastHard, commitIndex, closed, execCh, bpCh, commitCh,
                   executorVars, commitVars>>

\* Mutant: the round of a batch is read after the pointer has moved on.
Batches_Next(n, k) ==
    [i \in 1..k |->
        LET r == n + WAVE_LENGTH * i
        IN  [round |-> r, commit_index |-> r \div WAVE_LENGTH, is_optimistic |-> TRUE]]

\* The batches flush_pending builds from k drained entries; commit_index is the wave index.
Batches(n, k) ==
    [i \in 1..k |->
        LET r == n + WAVE_LENGTH * (i - 1)
        IN  [round |-> r, commit_index |-> r \div WAVE_LENGTH, is_optimistic |-> TRUE]]

\* handle_soft_commit up to the first send of flush_pending.
handle_soft_commit ==
    /\ RecvEvent /\ Head(events).type = "soft"
    /\ LET q == insert(entries, Head(events).round)
       IN  /\ paused' = check(depth(q), paused)
           /\ outbound' = Emitted(paused, paused', outbound)
           /\ \/ /\ paused'
                 /\ entries' = q
                 /\ pc' = "select"
                 /\ UNCHANGED <<next_dispatch_round, outbox>>
              \/ /\ ~paused'
                 /\ \E k \in 0..MaxWave :
                       /\ Drains(q, next_dispatch_round, k)
                       /\ entries' = drain_dispatchable(q, next_dispatch_round, k)
                       /\ next_dispatch_round' = next_dispatch_round + WAVE_LENGTH * k
                       /\ outbox' = Batches(next_dispatch_round, k)
                 /\ pc' = "flush"
    /\ UNCHANGED <<decision, historyVars>>

\* executor_tx.send(batch).await: waits for room; an error (executor gone) is ignored.
SendBatch ==
    /\ pc = "flush" /\ outbox # <<>>
    /\ \/ exPc = "done" /\ UNCHANGED execCh
       \/ exPc # "done" /\ Len(execCh) < ExecCap /\ execCh' = Append(execCh, Head(outbox))
    /\ outbox' = Tail(outbox)
    /\ UNCHANGED <<consensusVars, pc, queueVars, bpVars, decision, bpCh, commitCh,
                   executorVars, commitVars, historyVars>>

\* The check that closes flush_pending.
FlushDone ==
    /\ pc = "flush" /\ outbox = <<>>
    /\ paused' = check(depth(entries), paused)
    /\ outbound' = Emitted(paused, paused', outbound)
    /\ pc' = "select"
    /\ UNCHANGED <<consensusVars, queueVars, sendVars, execCh, bpCh, commitCh,
                   executorVars, commitVars, historyVars>>

\* handle_hard_commit up to the send of its decision.
handle_hard_commit ==
    /\ RecvEvent /\ Head(events).type = "hard"
    /\ LET e == Head(events)
           k == on_hard_commit(entries, e.round)
       IN  /\ decision' = [kind |-> k, round |-> e.round, index |-> e.index]
           /\ entries' = [entries EXCEPT ![e.round] = "none"]
           /\ verdict' = [verdict EXCEPT ![e.round] = k]
    /\ pc' = "commit"
    /\ UNCHANGED <<next_dispatch_round, bpVars, outbox, aborted>>

\* Mutant: try_send, whose error is ignored.
SendDecision_TrySend ==
    /\ pc = "commit"
    /\ commitCh' = IF ~cwDone /\ Len(commitCh) < CommitCap
                   THEN Append(commitCh, decision) ELSE commitCh
    /\ decision' = NoDecision
    /\ pc' = "select"
    /\ UNCHANGED <<consensusVars, queueVars, bpVars, outbox, execCh, bpCh, executorVars,
                   commitVars, historyVars>>

SendDecision ==
    /\ pc = "commit"
    /\ \/ cwDone /\ UNCHANGED commitCh
       \/ ~cwDone /\ Len(commitCh) < CommitCap /\ commitCh' = Append(commitCh, decision)
    /\ decision' = NoDecision
    /\ pc' = "select"
    /\ UNCHANGED <<consensusVars, queueVars, bpVars, outbox, execCh, bpCh, executorVars,
                   commitVars, historyVars>>

\* BackpressureController::update: paused changes, and nothing is flushed.
RecvSignal ==
    /\ pc = "select" /\ bpCh # <<>>
    /\ paused' = (Head(bpCh) = "SlowDown")
    /\ bpCh' = Tail(bpCh)
    /\ UNCHANGED <<consensusVars, pc, queueVars, outbound, sendVars, execCh, commitCh,
                   executorVars, commitVars, historyVars>>

\* Mutant: the loop ends as soon as consensus is gone, with events unread.
SchedulerExit_Early ==
    /\ pc = "select"
    /\ closed \/ (bpCh = <<>> /\ exPc = "done")
    /\ pc' = "done"
    /\ bpCh' = <<>>
    /\ UNCHANGED <<consensusVars, queueVars, bpVars, sendVars, execCh, commitCh,
                   executorVars, commitVars, historyVars>>

\* Mutant: a closed backpressure channel does not end the loop.
SchedulerExit_ConsensusOnly ==
    /\ pc = "select"
    /\ ~lagged /\ events = <<>> /\ closed
    /\ pc' = "done"
    /\ bpCh' = <<>>
    /\ UNCHANGED <<consensusVars, queueVars, bpVars, sendVars, execCh, commitCh,
                   executorVars, commitVars, historyVars>>

\* The two breaks of the loop; returning drops both receivers and both senders.
SchedulerExit ==
    /\ pc = "select"
    /\ \/ ~lagged /\ events = <<>> /\ closed
       \/ bpCh = <<>> /\ exPc = "done"
    /\ pc' = "done"
    /\ bpCh' = <<>>
    /\ UNCHANGED <<consensusVars, queueVars, bpVars, sendVars, execCh, commitCh,
                   executorVars, commitVars, historyVars>>

-----------------------------------------------------------------------------
(* MockExecutor::run *)

ExecutorRecv ==
    /\ exPc = "recv" /\ execCh # <<>>
    /\ execCh' = Tail(execCh)
    /\ received' = Append(received, Head(execCh))
    /\ exPc' = IF Delay THEN "slow" ELSE "recv"
    /\ UNCHANGED <<consensusVars, pc, queueVars, bpVars, sendVars, bpCh, commitCh,
                   commitVars, historyVars>>

\* bp_tx.send(SlowDown).await, the sleep, bp_tx.send(Resume).await.
ExecutorSignal ==
    /\ exPc \in {"slow", "resume"}
    /\ \/ pc = "done" /\ UNCHANGED bpCh
       \/ /\ pc # "done" /\ Len(bpCh) < BpCap
          /\ bpCh' = Append(bpCh, IF exPc = "slow" THEN "SlowDown" ELSE "Resume")
    /\ exPc' = IF exPc = "slow" THEN "resume" ELSE "recv"
    /\ UNCHANGED <<consensusVars, pc, queueVars, bpVars, sendVars, execCh, commitCh,
                   received, commitVars, historyVars>>

ExecutorExit ==
    /\ exPc = "recv" /\ execCh = <<>> /\ pc = "done"
    /\ exPc' = "done"
    /\ UNCHANGED <<consensusVars, pc, queueVars, bpVars, sendVars, execCh, bpCh, commitCh,
                   received, commitVars, historyVars>>

\* The task is aborted: its receiver and the batches buffered in it are dropped.
ExecutorStop ==
    /\ "executor" \in MayStop /\ exPc # "done"
    /\ exPc' = "done"
    /\ execCh' = <<>>
    /\ aborted' = aborted \cup {"executor"}
    /\ UNCHANGED <<consensusVars, pc, queueVars, bpVars, sendVars, bpCh, commitCh,
                   received, commitVars, verdict>>

-----------------------------------------------------------------------------
(* MockCommitWrapper::run *)

CommitRecv ==
    /\ ~cwDone /\ commitCh # <<>>
    /\ commitCh' = Tail(commitCh)
    /\ commitLog' = Append(commitLog, Head(commitCh))
    /\ UNCHANGED <<consensusVars, pc, queueVars, bpVars, sendVars, execCh, bpCh,
                   executorVars, cwDone, historyVars>>

CommitExit ==
    /\ ~cwDone /\ commitCh = <<>> /\ pc = "done"
    /\ cwDone' = TRUE
    /\ UNCHANGED <<consensusVars, pc, queueVars, bpVars, sendVars, execCh, bpCh, commitCh,
                   executorVars, commitLog, historyVars>>

CommitStop ==
    /\ "commit" \in MayStop /\ ~cwDone
    /\ cwDone' = TRUE
    /\ commitCh' = <<>>
    /\ aborted' = aborted \cup {"commit"}
    /\ UNCHANGED <<consensusVars, pc, queueVars, bpVars, sendVars, execCh, bpCh,
                   executorVars, commitLog, verdict>>

-----------------------------------------------------------------------------

Init ==
    /\ events = <<>> /\ lagged = FALSE
    /\ softSent = {} /\ lastHard = 0 /\ commitIndex = 0 /\ closed = FALSE
    /\ pc = "select"
    /\ entries = [r \in LeaderRounds |-> "none"]
    /\ next_dispatch_round = FIRST_LEADER_ROUND
    /\ paused = FALSE /\ outbound = "none"
    /\ outbox = <<>> /\ decision = NoDecision
    /\ execCh = <<>> /\ bpCh = <<>> /\ commitCh = <<>>
    /\ exPc = "recv" /\ received = <<>>
    /\ cwDone = FALSE /\ commitLog = <<>>
    /\ verdict = [r \in LeaderRounds |-> "none"]
    /\ aborted = {}

Consensus == Close \/ \E r \in LeaderRounds : EmitSoft(r) \/ EmitHard(r)

SchedulerStep ==
    \/ RecvLagged \/ handle_soft_commit \/ SendBatch \/ FlushDone
    \/ handle_hard_commit \/ SendDecision \/ RecvSignal \/ SchedulerExit

ExecutorStep == ExecutorRecv \/ ExecutorSignal \/ ExecutorExit

CommitStep == CommitRecv \/ CommitExit

AllDone == pc = "done" /\ exPc = "done" /\ cwDone

\* Every task has returned; an open consensus node has nobody left to talk to.
Terminated == AllDone /\ UNCHANGED vars

Next ==
    \/ Consensus \/ SchedulerStep \/ ExecutorStep \/ CommitStep
    \/ ExecutorStop \/ CommitStop
    \/ Terminated

Spec == Init /\ [][Next]_vars

\* tokio runs every task that can make progress; consensus owes nothing.  select!
\* picks a ready branch at random, so a branch that stays ready is taken.
FairSpec ==
    /\ Spec
    /\ WF_vars(SchedulerStep) /\ WF_vars(ExecutorStep) /\ WF_vars(CommitStep)
    /\ SF_vars(handle_soft_commit \/ handle_hard_commit \/ RecvLagged)
    /\ SF_vars(RecvSignal)

-----------------------------------------------------------------------------
(* Properties *)

\* Every variable stays in the set of values the code's types allow.
TypeOK ==
    /\ events \in Seq(Event) /\ Len(events) <= EventCap
    /\ lagged \in BOOLEAN /\ closed \in BOOLEAN
    /\ softSent \subseteq LeaderRounds
    /\ lastHard \in LeaderRounds \cup {0}
    /\ commitIndex \in Nat /\ WAVE_LENGTH * commitIndex <= lastHard
    /\ pc \in {"select", "flush", "commit", "done"}
    /\ entries \in [LeaderRounds -> {"none", "queued", "dispatched"}]
    /\ next_dispatch_round \in DispatchRounds
    /\ paused \in BOOLEAN
    /\ outbound \in Signal \cup {"none"}
    /\ outbox \in Seq(Batch)
    /\ decision \in Decision \cup {NoDecision}
    /\ pc = "commit" <=> decision # NoDecision
    /\ execCh \in Seq(Batch) /\ Len(execCh) <= ExecCap
    /\ bpCh \in Seq(Signal) /\ Len(bpCh) <= BpCap
    /\ commitCh \in Seq(Decision) /\ Len(commitCh) <= CommitCap
    /\ exPc \in {"recv", "slow", "resume", "done"}
    /\ received \in Seq(Batch)
    /\ cwDone \in BOOLEAN
    /\ commitLog \in Seq(Decision)
    /\ verdict \in [LeaderRounds -> {"none", "Commit", "FreshBatch"}]
    /\ aborted \subseteq MayStop

\* PendingQueue's promise, end to end: whatever the order of the SoftCommits, the
\* executor processes round 3, then 6, then 9, ... with no gap and no repetition,
\* across the queue, the half-finished flush and the channel.
ExecutedInRoundOrder ==
    \A i \in 1..Len(received) : received[i].round = WAVE_LENGTH * i

\* on_hard_commit answers Commit exactly for the rounds whose batch has been drained
\* for the executor, and no round it answered FreshBatch for is ever drained later, so no
\* round is executed twice.  (A batch drained for an executor that was aborted is confirmed
\* all the same: flush_pending ignores the error of its send.)
ConfirmedIffDispatched ==
    \A r \in LeaderRounds :
        verdict[r] # "none" => (verdict[r] = "Commit" <=> r < next_dispatch_round)

\* An entry lives from its SoftCommit to its HardCommit: none is left over for a round
\* that handle_hard_commit has decided, and an entry is marked dispatched exactly when
\* the drain pointer has passed its round.
EntryLifetime ==
    \A r \in LeaderRounds :
        entries[r] # "none" =>
            /\ r \in softSent /\ verdict[r] = "none"
            /\ entries[r] = "dispatched" <=> r < next_dispatch_round

\* handle_soft_commit evaluates the depth before it flushes, so however the executor's
\* signals overwrite paused, at most Threshold rounds are ever speculatively
\* dispatched and undecided.
SpeculationBound ==
    Cardinality({r \in LeaderRounds : entries[r] = "dispatched"}) <= Threshold

\* The decisions not yet delivered, in the order they were sent.
DecisionsSent == commitLog \o commitCh \o IF pc = "commit" THEN <<decision>> ELSE <<>>

\* The commit layer gets decisions in ascending commit_index and ascending round, even
\* when the broadcast channel has dropped events.
DecisionsInOrder ==
    \A i, j \in 1..Len(DecisionsSent) :
        i < j => /\ DecisionsSent[i].index < DecisionsSent[j].index
                 /\ DecisionsSent[i].round < DecisionsSent[j].round

\* A HardCommit that consensus has emitted reaches the commit layer unless a task is
\* aborted: flush_pending and the executor's signals may delay handle_hard_commit, not
\* starve it.
HardCommitDelivered ==
    \A r \in LeaderRounds :
        lastHard = r ~> \/ \E i \in 1..Len(commitLog) : commitLog[i].round = r
                        \/ aborted # {}

\* When consensus goes away every task returns, and unless one was aborted none of them
\* loses work: each drained batch has been executed, each HardCommit has a decision.
ShutdownDrains ==
    closed ~> /\ AllDone
              /\ aborted = {} =>
                    /\ WAVE_LENGTH * (Len(received) + 1) = next_dispatch_round
                    /\ Len(commitLog) = commitIndex

\* When the executor task dies the scheduler notices through the backpressure channel
\* and returns, whatever it was waiting for, and the commit wrapper then returns too.
StopPropagates == exPc = "done" ~> AllDone

-----------------------------------------------------------------------------
(* The inductive invariant behind the safety properties *)

\* While the executor lives, its log, the channel to it and the half-finished flush
\* hold consecutive leader rounds, and next_dispatch_round is the one after them.
StreamInv ==
    /\ ExecutedInRoundOrder
    /\ pc # "flush" => outbox = <<>>
    /\ exPc # "done" =>
        /\ \A i \in 1..Len(execCh) : execCh[i].round = WAVE_LENGTH * (Len(received) + i)
        /\ \A i \in 1..Len(outbox) :
              outbox[i].round = WAVE_LENGTH * (Len(received) + Len(execCh) + i)
        /\ next_dispatch_round
              = WAVE_LENGTH * (Len(received) + Len(execCh) + Len(outbox) + 1)

\* Where each leader round stands with respect to next_dispatch_round.
QueueInv ==
    \A r \in LeaderRounds :
        /\ entries[r] = "queued" => r >= next_dispatch_round
        /\ entries[r] = "dispatched" => r < next_dispatch_round
        /\ r < next_dispatch_round => entries[r] = "dispatched" \/ verdict[r] = "Commit"
        /\ verdict[r] = "Commit" => r < next_dispatch_round
        /\ entries[r] # "none" => r \in softSent /\ verdict[r] = "none"
        /\ verdict[r] # "none" => r \in softSent /\ r <= lastHard

\* One decision or HardCommit comes before another.
Before(d, e) == d.round < e.round /\ d.index < e.index

\* What an unread event says of its round: the scheduler has not decided it, has not
\* buffered it if it is a SoftCommit, and has decided only earlier ones if it is a
\* HardCommit.
EventInv(e) ==
    /\ e.round \in softSent
    /\ verdict[e.round] = "none"
    /\ e.type = "soft" => entries[e.round] = "none"
    /\ e.type = "hard" =>
          /\ e.round <= lastHard /\ e.index <= commitIndex
          /\ \A r \in LeaderRounds : verdict[r] # "none" => r < e.round

\* Event d may be ahead of event e: a SoftCommit is never behind another event of its
\* round, and HardCommits are in order.
Ahead(d, e) ==
    /\ e.type = "soft" => d.round # e.round
    /\ d.type = "hard" /\ e.type = "hard" => Before(d, e)

ChannelInv ==
    /\ \A i \in 1..Len(events) : EventInv(events[i])
    /\ \A i, j \in 1..Len(events) : i < j => Ahead(events[i], events[j])

AllBefore(s, e) == \A i \in 1..Len(s) : Before(s[i], e)
Chain(s) == \A i, j \in 1..Len(s) : i < j => Before(s[i], s[j])

\* No decision is ahead of what consensus has emitted.
WasEmitted(d) == d.round <= lastHard /\ d.index <= commitIndex

\* Decisions logged, buffered and being sent are in order, and every one of them is
\* before any HardCommit that is unread or still to come.
DecisionInv ==
    /\ Chain(commitLog) /\ Chain(commitCh)
    /\ \A i \in 1..Len(commitCh) : AllBefore(commitLog, commitCh[i])
    /\ \A i \in 1..Len(commitLog) : WasEmitted(commitLog[i])
    /\ \A i \in 1..Len(commitCh) : WasEmitted(commitCh[i])
    /\ pc = "commit" => /\ AllBefore(commitLog, decision)
                        /\ AllBefore(commitCh, decision)
                        /\ WasEmitted(decision)
    /\ \A k \in 1..Len(events) : events[k].type = "hard" =>
          /\ AllBefore(commitLog, events[k])
          /\ AllBefore(commitCh, events[k])
          /\ pc = "commit" => Before(decision, events[k])

\* The inductive invariant: types, the executor's stream, the queue against its pointer,
\* the unread events and the decisions sent, which no step of any task breaks.
PipelineInv == TypeOK /\ StreamInv /\ QueueInv /\ ChannelInv /\ DecisionInv

-----------------------------------------------------------------------------
(* What the documents and comments say of the pipeline *)

\* docs/tasks/phase-4.md: after a Resume flush_pending resumes.  A round that is next,
\* queued and not held back by paused is dispatched or decided.
ResumeFlushes ==
    \A r \in LeaderRounds :
        (~paused /\ next_dispatch_round = r /\ entries[r] = "queued")
            ~> (paused \/ entries[r] # "queued" \/ pc = "done")

\* docs/interfaces.md on ShadowDb: speculative write sets are keyed by commit_index, and a
\* commit drops those up to its own.  The commit_index of a Commit is the one the batch it
\* confirms was executed under.
CommitNamesItsBatch ==
    \A i \in 1..Len(received), j \in 1..Len(commitLog) :
        /\ commitLog[j].kind = "Commit"
        /\ commitLog[j].round = received[i].round
        => commitLog[j].index = received[i].commit_index

\* consensus/src/node.rs: gaps left by skipped leaders are handled by the scheduler.
\* Once a round is hard-committed, dispatch goes on behind it.
GapsHandled ==
    \A r \in LeaderRounds :
        (lastHard = r /\ next_dispatch_round <= r) ~> (next_dispatch_round > r \/ pc = "done")

\* docs/architecture.md: backpressure keeps the pipeline from collapsing.  Scheduler and
\* executor never wait for room in each other's full channel.
NoMutualWait ==
    ~ /\ pc = "flush" /\ outbox # <<>> /\ Len(execCh) = ExecCap
      /\ exPc \in {"slow", "resume"} /\ Len(bpCh) = BpCap
=============================================================================
