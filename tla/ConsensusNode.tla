---------------------------- MODULE ConsensusNode ----------------------------
(***************************************************************************)
(* One consensus node on top of its BlockManager: the SoftCommitTracker    *)
(* (2 Delta), the UniversalCommitter with one BaseCommitter (3 Delta) and  *)
(* the Linearizer.  accept_blocks runs to completion: block manager, then  *)
(* check_soft_commit per accepted block, then try_hard_commit.  Its loops  *)
(* are steps here, and no other call starts before the last one.           *)
(*                                                                         *)
(* A block's transactions are named by the block, so the payload of an     *)
(* event is a set of blocks; Linearization treats their order.             *)
(***************************************************************************)
EXTENDS BlockManager

CONSTANT WholeRounds   \* rounds whose blocks arrive in one accept_blocks call

VARIABLES
    phase,              \* where in accept_blocks the node is
    votes,              \* SoftCommitTracker::votes, per leader round
    soft_committed,     \* SoftCommitTracker::soft_committed, as leader rounds
    committed,          \* DagState::committed without genesis
    last_decided,       \* round of the slot last_decided
    last_commit_index,
    decided,            \* what try_decide returned and is not yet handled
    softTxs, hardTxs,   \* payload of the events emitted per leader round
    softCount,          \* history: SoftCommit events sent
    outcome             \* history: decision per leader round

commitVars == <<committed, last_decided, last_commit_index, hardTxs, outcome>>
softVars   == <<votes, soft_committed, softTxs, softCount>>
nodeVars   == <<phase, softVars, commitVars, decided>>
vars       == <<managerVars, nodeVars>>

NoEvent == {<<>>}

\* The commit rules on this node's DAG, and on the whole DAG decided at once.
Rules == INSTANCE Committer
Whole == INSTANCE Committer WITH
    blocks <- Produced, committed <- {}, last_decided <- 0, highest_accepted_round <- MaxRound

-----------------------------------------------------------------------------
(* accept_blocks *)

accept_blocks(s) ==
    /\ phase = "idle"
    /\ try_accept_blocks(s)
    /\ phase' = "accept"
    /\ UNCHANGED <<softVars, commitVars, decided>>

ManagerStepOfCall ==
    /\ phase = "accept"
    /\ ManagerStep
    /\ UNCHANGED nodeVars

ManagerReturns ==
    /\ phase = "accept"
    /\ Return
    /\ phase' = "soft"
    /\ UNCHANGED <<softVars, commitVars, decided>>

\* Mutant: more than a quorum of votes is asked for.
add_vote_AboveQuorum(r, voter) ==
    r \notin soft_committed /\ Cardinality(votes[r] \cup {voter}) > quorum_threshold

\* Mutant: a leader that was soft-committed is not left alone.
add_vote_Again(r, voter) == Completes(votes[r], voter)

\* add_vote returns TRUE.
add_vote(r, voter) == r \notin soft_committed /\ Completes(votes[r], voter)

\* check_soft_commit of the next accepted block.
check_soft_commit ==
    /\ phase = "soft" /\ accepted # <<>>
    /\ LET b == Head(accepted)
           r == round(b) - 1
       IN  IF is_leader_round(r) /\ Leader(r) \in ancestors[b]
           THEN /\ votes' = IF r \in soft_committed THEN votes
                            ELSE [votes EXCEPT ![r] = @ \cup {author(b)}]
                /\ IF add_vote(r, author(b))
                   THEN /\ soft_committed' = soft_committed \cup {r}
                        /\ softTxs' = [softTxs EXCEPT ![r] = Rules!get_causal_blocks(Leader(r))]
                        /\ softCount' = softCount + 1
                   ELSE UNCHANGED <<soft_committed, softTxs, softCount>>
           ELSE UNCHANGED softVars
    /\ accepted' = Tail(accepted)
    /\ UNCHANGED <<ancestors, dagVars, suspendVars, busy, todo, accepting, delivered,
                   phase, commitVars, decided>>

\* The call of try_decide in try_hard_commit.
StartHardCommit ==
    /\ phase = "soft" /\ accepted = <<>>
    /\ IF \E r \in Rules!Candidates : Rules!SupportPanics(r)
       THEN phase' = "panicked" /\ UNCHANGED decided
       ELSE phase' = "hard" /\ decided' = Rules!try_decide
    /\ UNCHANGED <<managerVars, softVars, commitVars>>

\* The next leader that try_hard_commit handles has this status.
Handles(status) ==
    /\ phase = "hard" /\ decided # <<>> /\ Head(decided).status = status
    /\ UNCHANGED <<managerVars, softVars>>

\* commit_leader and the HardCommit event.
CommitLeader ==
    /\ Handles("commit")
    /\ LET r == Head(decided).round
           l == Leader(r)
       IN  /\ ~ Rules!LinearizerPanics(l)
           /\ hardTxs' = [hardTxs EXCEPT ![r] = Rules!Uncommitted(l)]
           /\ committed' = committed \cup Rules!Uncommitted(l)
           /\ last_commit_index' = last_commit_index + 1
           /\ last_decided' = r
           /\ outcome' = [outcome EXCEPT ![r] = "commit"]
    /\ decided' = Tail(decided)
    /\ UNCHANGED phase

LinearizerPanic ==
    /\ Handles("commit")
    /\ Rules!LinearizerPanics(Leader(Head(decided).round))
    /\ phase' = "panicked"
    /\ UNCHANGED <<commitVars, decided>>

\* Mutant: a skipped leader takes a commit index.
SkipLeader_Counts ==
    /\ Handles("skip")
    /\ last_decided' = Head(decided).round
    /\ last_commit_index' = last_commit_index + 1
    /\ outcome' = [outcome EXCEPT ![last_decided'] = "skip"]
    /\ decided' = Tail(decided)
    /\ UNCHANGED <<phase, committed, hardTxs>>

\* Mutant: a skip does not move last_decided.
SkipLeader_Stays ==
    /\ Handles("skip")
    /\ outcome' = [outcome EXCEPT ![Head(decided).round] = "skip"]
    /\ decided' = Tail(decided)
    /\ UNCHANGED <<phase, committed, last_decided, last_commit_index, hardTxs>>

SkipLeader ==
    /\ Handles("skip")
    /\ last_decided' = Head(decided).round
    /\ outcome' = [outcome EXCEPT ![last_decided'] = "skip"]
    /\ decided' = Tail(decided)
    /\ UNCHANGED <<phase, committed, last_commit_index, hardTxs>>

Finish ==
    /\ phase = "hard" /\ decided = <<>>
    /\ phase' = "idle"
    /\ UNCHANGED <<managerVars, softVars, commitVars, decided>>

Init ==
    /\ ManagerInit
    /\ phase = "idle"
    /\ votes = [r \in LeaderRounds |-> {}] /\ soft_committed = {}
    /\ committed = {} /\ last_decided = 0 /\ last_commit_index = 0
    /\ decided = <<>>
    /\ softTxs = [r \in LeaderRounds |-> NoEvent] /\ softCount = 0
    /\ hardTxs = [r \in LeaderRounds |-> NoEvent]
    /\ outcome = [r \in LeaderRounds |-> "none"]

Calls ==
    {{b \in Produced : round(b) = r} : r \in WholeRounds}
    \cup {{b} : b \in {c \in Produced : round(c) \notin WholeRounds}}

Next ==
    \/ \E s \in Calls : accept_blocks(s)
    \/ ManagerStepOfCall \/ ManagerReturns
    \/ check_soft_commit \/ StartHardCommit
    \/ CommitLeader \/ LinearizerPanic \/ SkipLeader \/ Finish

Spec == Init /\ [][Next]_vars

-----------------------------------------------------------------------------
(* Properties *)

HardRounds == {r \in LeaderRounds : hardTxs[r] # NoEvent}

\* The node's variables have their types; the block manager has its own invariant.
NodeTypeOK ==
    /\ phase \in {"idle", "accept", "soft", "hard", "panicked"}
    /\ votes \in [LeaderRounds -> SUBSET Authorities]
    /\ soft_committed \subseteq LeaderRounds /\ softCount \in Nat
    /\ committed \subseteq blocks
    /\ last_decided \in LeaderRounds \cup {0}
    /\ last_commit_index = Cardinality(HardRounds)
    /\ \A r \in LeaderRounds : softTxs[r] = NoEvent \/ softTxs[r] \subseteq blocks
    /\ \A r \in LeaderRounds : hardTxs[r] = NoEvent \/ hardTxs[r] \subseteq blocks
    /\ outcome \in [LeaderRounds -> {"none", "commit", "skip"}]

\* The event stream of the node is the one ConsensusEvents promises to the scheduler.
Promised == INSTANCE ConsensusEvents WITH
    softSent    <- {r \in LeaderRounds : softTxs[r] # NoEvent},
    softCount   <- softCount,
    lastHard    <- CHOOSE m \in HardRounds \cup {0} : \A r \in HardRounds : r <= m,
    commitIndex <- last_commit_index

\* ConsensusNode implements ConsensusEvents.
EventsAsPromised == Promised!Spec

\* A SoftCommit is never repeated or revised, late votes and later commits notwithstanding:
\* every send is the first of its leader round, and a payload sent stays as it was.
SoftOnce ==
    [][/\ softCount' # softCount =>
             /\ softCount' = softCount + 1
             /\ \E r \in LeaderRounds : softTxs[r] = NoEvent /\ softTxs'[r] # NoEvent
       /\ \A r \in LeaderRounds : softTxs[r] # NoEvent => softTxs'[r] = softTxs[r]]_vars

\* Every block is linearized into one sub-dag only, and never before its ancestors: an
\* ancestor is in the same sub-dag or in an earlier one.
SubDagsPartition ==
    \A r \in HardRounds :
        /\ \A x \in HardRounds \ {r} : hardTxs[r] \cap hardTxs[x] = {}
        /\ \A b \in hardTxs[r] : \A a \in ancestors[b] :
              \E x \in HardRounds : x <= r /\ a \in hardTxs[x]

\* Decisions do not depend on the node's view: what try_decide decides from the blocks
\* received so far is what any node with more blocks decides for the same leader.  This needs
\* blocks that arrive with or after their ancestors and refer to a quorum of the round
\* before; the node checks neither.
ViewIndependent ==
    Causal /\ RefersToQuorum(ancestors) /\ phase = "hard" => \A i \in 1..Len(decided) :
        decided[i].status = Whole!Status[decided[i].round]

\* Nothing is decided late: once the whole DAG is in, the order of its arrival has left
\* no leader behind that the rules decide, under the same two conditions.
NoDecisionMissed ==
    Causal /\ RefersToQuorum(ancestors) /\ phase = "idle" /\ blocks = Produced =>
        last_decided = DEFAULT_WAVE_LENGTH * Len(Whole!try_decide)

\* The lookups of is_certificate and linearize_sub_dag never meet an absent block, as
\* long as blocks arrive with or after their ancestors.
NoPanic == Causal => phase # "panicked"

\* node/src/lib.rs: SoftCommit.txs must equal the HardCommit sub-dag's.
SoftMatchesHard == \A r \in HardRounds : softTxs[r] = hardTxs[r]
=============================================================================
