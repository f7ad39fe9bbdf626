---------------------------- MODULE BlockManager ----------------------------
(***************************************************************************)
(* Block ingestion of one node: BlockManager (suspension of blocks with    *)
(* missing ancestors), DagState::accept_blocks and the ThresholdClock.     *)
(*                                                                         *)
(* The loops of try_accept_blocks_internal and accept_blocks are steps of  *)
(* the model; the node is single-threaded, so nothing happens between them.*)
(***************************************************************************)
EXTENDS Blocks, Sequences

CONSTANTS
    Dags,        \* DAGs the committee may produce: block -> its ancestors
    MaxBatch,    \* bound on the blocks of one accept_blocks call
    Reordered,   \* DAGs whose blocks are delivered in any order, not after their ancestors
    Redelivery,  \* and may be delivered again
    Synced       \* blocks a caller may look up, and hand in as committed

ASSUME BlockManagerAssumption ==
    /\ MaxBatch \in Nat \ {0}
    /\ Reordered \subseteq Dags /\ Redelivery \in BOOLEAN /\ Synced \subseteq Ref
    /\ \A d \in Dags :
          /\ DOMAIN d \subseteq Ref
          /\ \A b \in DOMAIN d : /\ d[b] \subseteq DOMAIN d
                                 /\ \A a \in d[b] : round(a) < round(b)

VARIABLES
    ancestors,              \* the DAG of this behaviour, never changed
    blocks,                 \* DagState::blocks
    clock_round,            \* ThresholdClock::round
    clock_votes,            \* ThresholdClock::aggregator
    highest_accepted_round,
    suspended_blocks,       \* block -> ancestors it waits for, {} when not suspended
    missing_ancestors,      \* ancestor -> suspended blocks registered for it
    missing_blocks,
    busy,                   \* a try_accept_blocks call is in progress
    todo,                   \* blocks of the call not yet tried
    accepting,              \* blocks_to_accept not yet in the DagState
    accepted,               \* accepted_blocks of the call, in order
    delivered               \* history: blocks handed to the node

dagVars == <<blocks, clock_round, clock_votes, highest_accepted_round>>
suspendVars == <<suspended_blocks, missing_ancestors, missing_blocks>>
callVars == <<busy, todo, accepting, accepted>>
managerVars == <<ancestors, dagVars, suspendVars, callVars, delivered>>

Produced == DOMAIN ancestors

\* Blocks arrive with or after their ancestors.
Causal == ancestors \notin Reordered

Deliverable == IF Redelivery /\ ~Causal THEN Produced ELSE Produced \ delivered

\* suspended_blocks.contains_key: an entry whose missing set empties is removed at once.
Suspended == {b \in Ref : suspended_blocks[b] # {}}

-----------------------------------------------------------------------------

\* try_accept_blocks is called with the blocks of batch.
try_accept_blocks(batch) ==
    /\ ~busy
    /\ Causal => \A b \in batch : ancestors[b] \subseteq blocks \cup batch
    /\ batch \subseteq Deliverable
    /\ busy' = TRUE
    /\ todo' = batch
    /\ accepted' = <<>>
    /\ delivered' = delivered \cup batch
    /\ UNCHANGED <<ancestors, dagVars, suspendVars, accepting>>

\* Mutant: only the author's own previous block is looked up.
missing_Own(b) == {a \in ancestors[b] : author(a) = author(b)} \ (blocks \cup Suspended)

missing(b) == ancestors[b] \ (blocks \cup Suspended)

\* Mutant: the batch is not sorted.
Tries_Unsorted(b) ==
    /\ busy /\ accepting = {} /\ b \in todo
    /\ todo' = todo \ {b}
    /\ UNCHANGED <<ancestors, dagVars, busy, accepted, delivered>>

\* The loop takes b: lower rounds first (sort_by_key), the caller's order within a round.
Tries(b) ==
    /\ busy /\ accepting = {} /\ b \in todo
    /\ \A c \in todo : round(b) <= round(c)
    /\ todo' = todo \ {b}
    /\ UNCHANGED <<ancestors, dagVars, busy, accepted, delivered>>

\* try_accept_one_block returns Processed.
Process(b) ==
    /\ Tries(b) /\ b \in blocks
    /\ UNCHANGED <<suspendVars, accepting>>

\* Mutant: the block is registered with one of its missing ancestors only.
Suspend_OneWaiter(b) ==
    /\ Tries(b) /\ b \notin blocks /\ missing(b) # {}
    /\ suspended_blocks' = [suspended_blocks EXCEPT ![b] = missing(b)]
    /\ missing_ancestors' = [missing_ancestors EXCEPT ![CHOOSE a \in missing(b) : TRUE] = @ \cup {b}]
    /\ missing_blocks' = missing_blocks \cup missing(b)
    /\ UNCHANGED accepting

\* It returns Suspended: b is registered with every ancestor neither in the DAG nor
\* suspended itself; an earlier entry of b is overwritten.
Suspend(b) ==
    /\ Tries(b) /\ b \notin blocks /\ missing(b) # {}
    /\ suspended_blocks' = [suspended_blocks EXCEPT ![b] = missing(b)]
    /\ missing_ancestors' =
          [a \in Ref |-> missing_ancestors[a] \cup IF a \in missing(b) THEN {b} ELSE {}]
    /\ missing_blocks' = missing_blocks \cup missing(b)
    /\ UNCHANGED accepting

\* Mutant: the freed children are not returned.
Accept_Alone(b) ==
    /\ Tries(b) /\ b \notin blocks /\ missing(b) = {}
    /\ missing_ancestors' = [missing_ancestors EXCEPT ![b] = {}]
    /\ suspended_blocks' =
          [c \in Ref |-> suspended_blocks[c] \ IF c \in missing_ancestors[b] THEN {b} ELSE {}]
    /\ accepting' = {b}
    /\ UNCHANGED missing_blocks

\* It returns Accepted, and try_unsuspend_children_blocks frees the registered children
\* that waited for b alone.
Accept(b) ==
    /\ Tries(b) /\ b \notin blocks /\ missing(b) = {}
    /\ missing_ancestors' = [missing_ancestors EXCEPT ![b] = {}]
    /\ suspended_blocks' =
          [c \in Ref |-> suspended_blocks[c] \ IF c \in missing_ancestors[b] THEN {b} ELSE {}]
    /\ accepting' = {b} \cup {c \in missing_ancestors[b] : suspended_blocks[c] = {b}}
    /\ UNCHANGED missing_blocks

\* Mutant: a jump to a later round keeps the votes of the round left.
add_block_KeepsVotes(b) ==
    LET full == Completes(clock_votes, author(b))
    IN  IF round(b) < clock_round
        THEN UNCHANGED <<clock_round, clock_votes>>
        ELSE /\ clock_round' = IF full THEN round(b) + 1 ELSE round(b)
             /\ clock_votes' = IF full /\ round(b) = clock_round
                               THEN {} ELSE clock_votes \cup {author(b)}

\* Mutant: a block of an earlier round is not ignored.
add_block_OlderToo(b) ==
    LET votes == IF round(b) # clock_round THEN {} ELSE clock_votes
        full  == Completes(votes, author(b))
    IN  /\ clock_round' = IF full THEN round(b) + 1 ELSE round(b)
        /\ clock_votes' = IF full THEN {} ELSE votes \cup {author(b)}

\* Mutant: a validity threshold of votes advances the clock.
add_block_Validity(b) ==
    LET votes == IF round(b) > clock_round THEN {} ELSE clock_votes
        full  == reached_validity(votes \cup {author(b)})
    IN  IF round(b) < clock_round
        THEN UNCHANGED <<clock_round, clock_votes>>
        ELSE /\ clock_round' = IF full THEN round(b) + 1 ELSE round(b)
             /\ clock_votes' = IF full /\ round(b) = clock_round
                               THEN {} ELSE votes \cup {author(b)}

\* ThresholdClock::add_block.
add_block(b) ==
    LET votes == IF round(b) > clock_round THEN {} ELSE clock_votes
        full  == Completes(votes, author(b))
    IN  IF round(b) < clock_round
        THEN UNCHANGED <<clock_round, clock_votes>>
        ELSE /\ clock_round' = IF full THEN round(b) + 1 ELSE round(b)
             /\ clock_votes' = IF full /\ round(b) = clock_round
                               THEN {} ELSE votes \cup {author(b)}

\* Mutant: blocks more than three rounds old are evicted, committed or not.
AddToDag_Evicts(b) ==
    /\ b \in accepting
    /\ \A c \in accepting \ {b} : Lower(b, c)
    /\ add_block(b)
    /\ highest_accepted_round' =
          IF round(b) > highest_accepted_round THEN round(b) ELSE highest_accepted_round
    /\ blocks' = {c \in blocks : round(c) + 3 >= round(b)} \cup {b}
    /\ accepting' = accepting \ {b}
    /\ accepted' = Append(accepted, b)
    /\ UNCHANGED <<ancestors, suspendVars, busy, todo, delivered>>

\* One iteration of DagState::accept_blocks.
AddToDag(b) ==
    /\ b \in accepting
    /\ \A c \in accepting \ {b} : Lower(b, c)
    /\ add_block(b)
    /\ highest_accepted_round' =
          IF round(b) > highest_accepted_round THEN round(b) ELSE highest_accepted_round
    /\ blocks' = blocks \cup {b}
    /\ accepting' = accepting \ {b}
    /\ accepted' = Append(accepted, b)
    /\ UNCHANGED <<ancestors, suspendVars, busy, todo, delivered>>

\* try_accept_committed_blocks accepts b past the suspended set: an entry of b is removed,
\* children that wait for b are not freed.  Committed blocks come after their ancestors; one
\* that is in the DAG changes nothing.
try_accept_committed_blocks(b) ==
    /\ ~busy /\ b \notin blocks /\ ancestors[b] \subseteq blocks
    /\ missing_blocks' = missing_blocks \ {b}
    /\ suspended_blocks' = [suspended_blocks EXCEPT ![b] = {}]
    /\ missing_ancestors' =
          [a \in Ref |-> missing_ancestors[a] \ IF a \in suspended_blocks[b] THEN {b} ELSE {}]
    /\ add_block(b)
    /\ highest_accepted_round' =
          IF round(b) > highest_accepted_round THEN round(b) ELSE highest_accepted_round
    /\ blocks' = blocks \cup {b}
    /\ accepted' = <<b>>
    /\ delivered' = delivered \cup {b}
    /\ UNCHANGED <<ancestors, busy, todo, accepting>>

\* try_find_blocks: refs that are neither in the DAG nor suspended are noted as missing.
try_find_blocks(refs) ==
    /\ ~busy
    /\ missing_blocks' = missing_blocks \cup (refs \ (blocks \cup Suspended))
    /\ UNCHANGED <<ancestors, dagVars, suspended_blocks, missing_ancestors, callVars, delivered>>

\* Mutant: it returns with the first block that is done.
Return_Early ==
    /\ busy /\ accepting = {}
    /\ busy' = FALSE
    /\ UNCHANGED <<ancestors, dagVars, suspendVars, todo, accepting, accepted, delivered>>

\* try_accept_blocks returns.
Return ==
    /\ busy /\ todo = {} /\ accepting = {}
    /\ busy' = FALSE
    /\ UNCHANGED <<ancestors, dagVars, suspendVars, todo, accepting, accepted, delivered>>

ManagerInit ==
    /\ ancestors \in Dags
    /\ blocks = {} /\ highest_accepted_round = 0
    /\ clock_round = 1 /\ clock_votes = {}
    /\ suspended_blocks = [b \in Ref |-> {}]
    /\ missing_ancestors = [b \in Ref |-> {}]
    /\ missing_blocks = {}
    /\ busy = FALSE /\ todo = {} /\ accepting = {} /\ accepted = <<>>
    /\ delivered = {}

Batches ==
    {s \in SUBSET Deliverable : s # {} /\ Cardinality(s) <= MaxBatch}

ManagerStep ==
    \/ \E b \in todo : Process(b) \/ Suspend(b) \/ Accept(b)
    \/ \E b \in accepting : AddToDag(b)

ManagerNext ==
    \/ \E s \in Batches : try_accept_blocks(s)
    \/ ManagerStep
    \/ Return
    \/ \E b \in Synced \cap Produced : try_accept_committed_blocks(b) \/ try_find_blocks({b})

ManagerSpec == ManagerInit /\ [][ManagerNext]_managerVars

-----------------------------------------------------------------------------
(* Properties *)

\* Every variable has the type the code gives it, and a block waits for ancestors of its.
TypeOK ==
    /\ ancestors \in Dags
    /\ blocks \subseteq Produced /\ todo \subseteq Produced /\ delivered \subseteq Produced
    /\ accepting \subseteq Produced /\ missing_blocks \subseteq Produced
    /\ clock_round \in 1..(MaxRound + 1) /\ highest_accepted_round \in 0..MaxRound
    /\ clock_votes \subseteq Authorities
    /\ suspended_blocks \in [Ref -> SUBSET Ref]
    /\ missing_ancestors \in [Ref -> SUBSET Ref]
    /\ \A b \in Suspended : b \in Produced /\ suspended_blocks[b] \subseteq ancestors[b]
    /\ busy \in BOOLEAN
    /\ accepted \in Seq(Produced)
    /\ ~busy => todo = {} /\ accepting = {}

Known == blocks \cup Suspended \cup accepting

\* No block is lost by the manager: one that was delivered is in the DAG, on its way
\* there, or suspended, through every overwritten, re-registered and freed entry.
NothingLost == delivered \subseteq Known \cup todo

\* Registration and entry agree: a block is registered with every ancestor it is recorded
\* to wait for, through overwritten, stale and removed entries, so an ancestor that
\* try_accept_blocks accepts finds every block waiting for it.  (An ancestor that is itself
\* freed, or handed in as committed, does not look: FreedWhenComplete.)
WaitersRegistered ==
    \A b \in Suspended : \A a \in suspended_blocks[b] : b \in missing_ancestors[a]

\* What suspension does guarantee in any delivery order: every direct ancestor of an
\* accepted block has itself been received by the node.
AncestorsReceived == \A b \in blocks \cup accepting : ancestors[b] \subseteq Known

Authors(r) == {author(b) : b \in {c \in blocks : round(c) = r}}

\* The clock is exact in any delivery order, catch-up jumps and repeated acceptances
\* included: it stands at the highest accepted round, or one above it once that round
\* has a quorum, and its aggregator holds the authors of its own round.  A committee of one
\* is left out, and there the code is not exact: a jump that completes a quorum by itself
\* keeps its vote in the aggregator, so the next block completes nothing and the clock stays
\* a round behind until a later jump.
ClockExact ==
    N > 1 =>
        /\ clock_round = highest_accepted_round
              + IF highest_accepted_round = 0 \/ reached_quorum(Authors(highest_accepted_round))
                THEN 1 ELSE 0
        /\ clock_votes = Authors(clock_round)

\* The clock never goes back.
ClockMonotone == [][clock_round' >= clock_round]_managerVars

\* block_manager.rs: blocks are suspended until their full causal history is available.
HistoryAvailable == \A b \in blocks : ancestors[b] \subseteq blocks

\* It holds when no block arrives before its ancestors, the blocks of a batch in any order.
HistoryComplete == Causal => HistoryAvailable

\* In that case the sort of try_accept_blocks is enough for no block of a batch to be
\* suspended, even for the time of the call.
CausalNeverWaits == Causal => Suspended = {}

\* block_manager.rs: suspended until their full causal history is available, "then"
\* returned.  Between calls, no block is suspended whose ancestors are all in the DAG.
FreedWhenComplete == ~busy => \A b \in Suspended : ~ ancestors[b] \subseteq blocks

\* threshold_clock.rs: a block of a future round implies 2f+1 blocks of every
\* intermediate round.  It does when no block arrives before its ancestors and every block
\* refers to a quorum of the round before it, which nothing in the node checks.
ClockBackedByQuorum ==
    Causal /\ RefersToQuorum(ancestors) =>
        \A r \in 1..(clock_round - 1) : reached_quorum(Authors(r))
=============================================================================
