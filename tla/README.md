# Verification of the optimistic L2 node

TLA+ specifications of the node in `src/crates`, their TLC configurations, and
TLAPS proofs. `PROJECT.json` maps every definition to the source lines it models,
lists the runs, the findings, the hazards and the theorems.

## The system

A node runs Mysticeti-style DAG consensus and starts executing before consensus is
final. Rounds come in waves of three: leader round R = 3k, voting round R+1, decision
round R+2.

| part | source | what it does |
|---|---|---|
| block manager | `consensus/src/block_manager.rs` | suspends blocks with missing ancestors |
| DAG state, threshold clock | `consensus/src/dag_state.rs`, `threshold_clock.rs` | stores blocks, tracks the proposal round |
| soft commit | `consensus/src/soft_commit.rs`, `node.rs` | a quorum of votes for a leader: `SoftCommit` (2Δ) |
| committers | `consensus/src/base_committer.rs`, `universal_committer.rs` | direct and indirect decisions on leaders |
| linearizer | `consensus/src/linearizer.rs` | sub-dag of a committed leader: `HardCommit` (3Δ) |
| scheduler | `scheduler/src/*.rs` | dispatches SoftCommits speculatively, in round order; turns HardCommits into decisions |
| executor, commit wrapper | `parallel-evm/src/lib.rs`, `node/src/lib.rs` | mock tasks at the ends of the pipeline |
| shadow state | `shadow-state/src/lib.rs` | multi-version state for speculative rounds; no task calls it yet |
| simulator, testkit | `consensus/src/sim`, `testkit` | test support |

Consensus is one sequential call, `accept_blocks`. Scheduler, executor and commit
wrapper are tokio tasks joined by bounded channels.

## Modules

```
Committee --> Blocks --> BlockManager --> ConsensusNode --> MCConsensusNode
                  \----> Committer -------^    |
                  \----> Linearization         | implements
                                               v
                        Scheduler -----> ConsensusEvents
                            ^
     SchedulerTypes <- SchedulerOrder <- SchedulerProofs,  SchedulerSpeculation
```

**ConsensusEvents** is the abstract specification between the halves: at most one
SoftCommit per leader round in any round order, HardCommits in ascending rounds with
consecutive indices, each after its SoftCommit. `ConsensusNode` is checked to implement
it (`EventsAsPromised`); `Scheduler` takes its inputs from it, so what is shown of the
scheduler holds for what the node emits. SoftCommits are counted (`softCount`), by the node at
every send, so that one sent again is a step no `ConsensusEvents` behaviour has.

**Scheduler** has one action per stretch between two await points. `pc` is the await point
of the run loop: `select`, `flush` (sending a batch), `commit` (sending a decision).
`handle_soft_commit` inserts, checks the depth, drains and builds the batches in one
step; each `SendBatch` waits for room; `FlushDone` is the closing check. `Close`,
`ExecutorStop` and `CommitStop` are the end of consensus and the abort of a task. A full
broadcast channel drops its oldest event and the receiver is told once (`RecvLagged`).

**BlockManager** is `try_accept_blocks`: per block `Process`, `Suspend` or `Accept`, then
one `AddToDag` per iteration of `DagState::accept_blocks`, with the clock's `add_block`;
`try_accept_committed_blocks` and `try_find_blocks` are actions of their own. The environment hands over sets of blocks of a DAG chosen in `Init`, after their ancestors
(`Causal`) or, for the DAGs in `Reordered`, in any order.

**Committer** holds the commit rules as functions of the DAG, **ConsensusNode** runs them:
block manager, `check_soft_commit` per accepted block, `try_decide`, then one
`CommitLeader` or `SkipLeader` per decided leader. Lookups that `assert!` or `expect`
a block lead to the phase `panicked`.

**Linearization** is the stack traversal shared by `linearize_sub_dag` and
`get_causal_blocks`, with the Linearizer's sort.

Abstractions:

- A block is named by its slot, so one author has one block per slot; genesis is left
  out of ancestor sets.
- Every authority has stake one, as in every committee the code constructs.
- A transaction list is named by the blocks it is read from. Commit digests and
  timestamps are left out: no decision reads them.
- The multi-leader and pipelined committer options and the unused
  executor-to-shadow-state channel are left out.

## Runs that pass

| run | shows |
|---|---|
| `scheduler_safety` | order of execution, no double execution, entry lifetimes, the bound on speculation, order of decisions, and the inductive invariant |
| `scheduler_live` | HardCommits are delivered; a shutdown drains the pipeline; a dead executor ends the other tasks |
| `manager_safety` | any order with re-delivery: no block lost, entries and registrations agree, an exact clock; blocks with or after their ancestors: the DAG is closed, nothing is suspended, and when blocks refer to quorums the clock passes rounds with a quorum only |
| `node_safety` | no panic, and when blocks refer to quorums decisions do not depend on the view and none is missed; in any order, sub-dags partition history, no SoftCommit is repeated and the event stream is as promised |
| `linearization_exact` | the traversal visits the uncommitted history once, the sort is causal |

Bounds:

- Scheduler: four waves and `Threshold` 2 make the queue exceed its threshold with an entry to
  spare; `EventCap` 2 lags, and one-slot channels make every send wait. In the live run
  `EventCap` is 6, all events of three waves, so none is lost.
- `BpCap` 6 (8 for four waves) is two signals per batch, so the signal channel never fills in
  the passing runs. When it does, the pipeline can block: that is the run `scheduler_deadlock`.
- Block manager: three rounds are the shortest chain with a suspended parent of a
  suspended block. Two small DAGs come in any order and again; the large ones in causal order,
  among them one whose third round refers to two parents of four (`TwoParents`). Four authors give
  quorums of three, and batches of three hold the whole chain of an author nobody else heard of.
- Node: eight rounds are two complete waves, so indirect decisions happen. 120 DAGs vary
  who votes for the first leader, who is left out in rounds 5 and 6, and who is isolated from round 6.
  Rounds 1 to 3 arrive as whole batches, later blocks one by one. One more DAG, a single wave, is
  delivered in any order (`Reordered`), and another is the DAG of `test_e2e_out_of_order`.

Conditions on the blocks. `Causal`: a block is delivered with or after its ancestors.
`RefersToQuorum(ancestors)`: a block above round 1 refers to blocks of a quorum of authors of the
round before, as its proposer does if it waits for its clock. The node checks neither, and
`test_e2e_out_of_order` feeds it blocks with two parents of four, over which the clock does pass a
round without a quorum. The properties that need a condition state it: `ClockBackedByQuorum`,
`ViewIndependent` and `NoDecisionMissed` both, `HistoryComplete`, `CausalNeverWaits` and
`NoPanic` the first. `ClockExact` leaves out a committee of one: there a catch-up jump is a quorum
by itself, `add_block` keeps its vote (`threshold_clock.rs:64-67`), and the next block is a
duplicate vote, so the clock stays behind until a later jump.

Some runs say `CHECK_DEADLOCK FALSE`: there every block is delivered once, and a node
that has them all, or has panicked, stops.

Fairness: each task that can move does (tokio runs every woken task). `select!` picks among
ready branches at random, so a branch that is ready again and again is taken: strong
fairness on reading events and on reading signals. Nothing is assumed of consensus
or of aborts.

## Disagreements between code and text

Each is a run that must fail; `PROJECT.json` quotes the text.

| run | the code |
|---|---|
| `scheduler_resume` | a `Resume` flushes nothing; queued rounds wait for the next SoftCommit |
| `scheduler_index` | batch and Commit carry different indices after a skipped leader, under which a shadow state keyed by index cannot match them |
| `scheduler_deadlock` | scheduler and executor wait for each other's channel |
| `scheduler_gap` | a leader without a SoftCommit ends optimistic dispatch |
| `manager_order` | a suspended ancestor counts as present |
| `manager_wakeup` | the children of a freed block are not freed: delivered as 3, 2, 1, block 3 of a chain stays suspended |
| `node_payload` | a SoftCommit repeats blocks of an undecided earlier leader |

`manager_order` has further consequences, seen in the same models with the properties taken
without `Causal`: the clock jumps over a round without a quorum (`ClockBackedByQuorum`), and the
lookups of `is_certificate` and `linearize_sub_dag` panic (`NoPanic`; `node_safety` reaches these
panics for its reordered DAG). What holds in spite of it are the properties without `Causal`.
`WaitersRegistered` and `manager_wakeup` together say where a wake-up is lost: a waiting block is
always registered with what it waits for, and a block accepted when its turn comes frees
everybody who waits for it alone; a block that is itself freed frees nobody, and those who
wait for it stay suspended unless they are delivered again.

`scheduler_deadlock` uses one-slot channels. The wait needs a flush into a full batch channel
while the executor's signals fill theirs. Channels of two slots and six waves reach it as well.
The capacities of the code, 32 and 8, are beyond TLC. There the wait needs `select!` to read
events and no signal until both channels are full; nothing in the loop rules that out, and
random choice makes it rare.

Other places where the text promises more than the code has a step for:

- The depth check in `handle_soft_commit` clears the pause an executor's `SlowDown` has set
  (`docs/interfaces.md:416`).
- `handle_hard_commit` removes entries without a depth check, so the outbound `Resume` of
  `docs/tasks/phase-4.md:163` waits for the next SoftCommit.
- A dispatched round whose leader is skipped is never discarded (`docs/tasks/phase-4.md:23`):
  `CommitDecision::Discard` is built nowhere.
- `missing_blocks` keeps blocks that have arrived (`block_manager.rs:51`).
- A SoftCommit lists its blocks in pop order, the HardCommit sorted
  (`docs/tasks/phase-4.md:211`); no property compares the two orders, which differ as soon as a
  sub-dag has two blocks in a round.
- A `Commit` confirms a batch that was drained for the executor, not one that ran: if the executor
  was aborted, `flush_pending` ignores the error of its send (`pipeline.rs:154-155`).

## Proofs

For every `MaxWave`, `Threshold`, capacity, delay and set of tasks that may die
(`SchedulerAssumption`):

| theorem | module | states |
|---|---|---|
| `TypeCorrect` | SchedulerTypes | `Spec => []TypeOK` |
| `ExecutionOrder` | SchedulerOrder | `Spec => []ExecutedInRoundOrder` |
| `NoDoubleExecution` | SchedulerOrder | `Spec => []ConfirmedIffDispatched` |
| `EntriesAreLive` | SchedulerOrder | `Spec => []EntryLifetime` |
| `SpeculationBounded` | SchedulerSpeculation | `Spec => []SpeculationBound` |
| `DecisionOrder` | SchedulerProofs | `Spec => []DecisionsInOrder` |
| `PipelineInvariant` | SchedulerProofs | `Spec => []PipelineInv` |
| `Thresholds`, `QuorumsIntersect` | CommitteeProofs | thresholds and quorum intersection for any N |

No property is inductive as it stands. `ExecutedInRoundOrder` speaks of the log only;
`StreamInv` adds that log, channel and unsent batches are consecutive and end at
`next_dispatch_round`. `ConfirmedIffDispatched` needs `QueueInv`, which relates each
entry and verdict to the pointer, and `ChannelInv`, which says of every unread event
that its round is undecided and that a SoftCommit is never behind another event of its
round: without it a late SoftCommit could re-open a decided round. `DecisionsInOrder`
needs `DecisionInv`: every decision sent is before every HardCommit unread or to come.
`PipelineInv` is their conjunction, and `scheduler_safety` checks it too.
`SpeculationBound` needs the depth at the moment of a drain, with lemmas on
cardinalities.

Only model-checked: liveness and fairness (outside the prover), the block manager, the
consensus node and its refinement of ConsensusEvents, and the traversal, whose result for
every DAG needs an induction over data.

## Plan

1. **Shadow state**: module ShadowDb with one action per operation (record, abort,
   re-execute, validate, cascade, stage, finalize) and READLAST as an operator; an abstract
   serial execution it should agree with. The hazards are listed in `PROJECT.json`.
2. **Composition**: several nodes over the simulator's network with partitions and
   dropped blocks; agreement of their commit sequences. ConsensusNode with Scheduler.
3. **Abstract pipeline**: a specification of speculation (a round is dispatched,
   then confirmed or executed afresh, once) that Scheduler implements.
4. **Equivocation**: two blocks of an author in a slot, for the tracker's votes per
   reference and the committer's single-candidate panics.
5. **Proofs**: `TypeOK`, `NothingLost`, `WaitersRegistered`, `AncestorsReceived` and
   `ClockExact` of BlockManager; the partition of sub-dags and the refinement of
   ConsensusEvents by ConsensusNode; the refinement of item 3.

Left out for good: the testkit (wall-clock measurement), logging, digests and encodings, and the
executor and commit traits, which nothing in the repository implements.
