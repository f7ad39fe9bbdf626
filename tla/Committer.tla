------------------------------ MODULE Committer ------------------------------
(***************************************************************************)
(* The commit rules as functions of the DagState: BaseCommitter (direct and*)
(* indirect decisions), UniversalCommitter::try_decide, and the traversals *)
(* of the Linearizer and of get_causal_blocks.  No rule changes state.     *)
(***************************************************************************)
EXTENDS Blocks

VARIABLES ancestors, blocks, committed, last_decided, highest_accepted_round

-----------------------------------------------------------------------------
(* DagState queries *)

\* get_uncommitted_blocks_at_round.
UncommittedAt(r) == {b \in blocks \ committed : round(b) = r}

\* The blocks linked from b, following the ancestors of the blocks in through.
Linked(b, through) ==
    LET L[i \in 0..MaxRound] ==
            IF i = 0 THEN {b}
            ELSE LET s == L[i - 1] IN s \cup UNION {ancestors[a] : a \in s \cap through}
    IN  L[MaxRound]

ancestors_at_round(b, r) ==
    {a \in Linked(b, {c \in blocks : round(c) > r}) \cap blocks : round(a) = r}

\* Mutant: the committed set is not consulted.
Uncommitted_All(l) == Linked(l, blocks)

\* What linearize_sub_dag and get_causal_blocks visit.
Uncommitted(l) == Linked(l, blocks \ committed) \ committed

get_causal_blocks(l) ==
    IF l \in blocks \ committed THEN Uncommitted(l) \cap blocks ELSE {}

-----------------------------------------------------------------------------
(* BaseCommitter, for the leader round r *)

\* The ancestors of a potential certificate are below the decision round, so
\* find_supported_block never recurses: a vote refers to the leader block.
is_vote(v, l) == l \in ancestors[v]

Voters(c, l) == {author(v) : v \in {a \in ancestors[c] \cap blocks : is_vote(a, l)}}

is_certificate(c, l) == reached_quorum(Voters(c, l))

enough_leader_blame(r) ==
    reached_quorum({author(v) : v \in {b \in UncommittedAt(r + 1) :
                        \A a \in ancestors[b] : author(a) # leader_at_round(r)}})

enough_leader_support(r) ==
    reached_quorum({author(c) : c \in {b \in UncommittedAt(r + 2) :
                        is_certificate(b, Leader(r))}})

try_direct_decide(r) ==
    IF enough_leader_blame(r) THEN "skip"
    ELSE IF Leader(r) \in UncommittedAt(r) /\ enough_leader_support(r) THEN "commit"
    ELSE "undecided"

\* Mutant: any certificate in the DAG counts, linked from the anchor or not.
decide_leader_from_anchor_AnyCertificate(a, r) ==
    IF /\ Leader(r) \in UncommittedAt(r)
       /\ \E c \in blocks : round(c) = r + 2 /\ is_certificate(c, Leader(r))
    THEN "commit" ELSE "skip"

decide_leader_from_anchor(a, r) ==
    IF /\ Leader(r) \in UncommittedAt(r)
       /\ \E c \in ancestors_at_round(Leader(a), r + 2) : is_certificate(c, Leader(r))
    THEN "commit" ELSE "skip"

-----------------------------------------------------------------------------
(* UniversalCommitter *)

Candidates == {r \in LeaderRounds : r > last_decided /\ r <= highest_accepted_round - 2}

\* Decided from the highest candidate down; the anchor is the first later leader that is
\* not skipped.
Status ==
    LET S[r \in Candidates] ==
            IF try_direct_decide(r) # "undecided" THEN try_direct_decide(r)
            ELSE LET later == {x \in Candidates : x > r /\ S[x] # "skip"}
                     anchor == CHOOSE x \in later : \A y \in later : x <= y
                 IN  IF later # {} /\ S[anchor] = "commit"
                     THEN decide_leader_from_anchor(anchor, r)
                     ELSE "undecided"
    IN  S

\* The longest prefix of decided leaders.
try_decide ==
    LET S == Status
        prefix == {r \in Candidates : \A x \in Candidates : x <= r => S[x] # "undecided"}
    IN  [i \in 1..Cardinality(prefix) |->
            LET r == last_decided + DEFAULT_WAVE_LENGTH * i
            IN  [round |-> r, status |-> S[r]]]

-----------------------------------------------------------------------------
(* Panics: a block the code looks up is not in the DagState *)

\* The assertion of is_certificate fails: an absent ancestor is met before the votes
\* reach a quorum.
AssertFails(c, l) ==
    \E x \in ancestors[c] \ blocks :
        ~ reached_quorum({author(v) : v \in {a \in ancestors[c] \cap blocks :
                              is_vote(a, l) /\ ListedBefore(c, a, x)}})

\* enough_leader_support runs into it before the support reaches a quorum.
SupportPanics(r) ==
    /\ ~ enough_leader_blame(r) /\ Leader(r) \in UncommittedAt(r)
    /\ \E c \in UncommittedAt(r + 2) :
          /\ AssertFails(c, Leader(r))
          /\ ~ reached_quorum({author(d) : d \in {b \in UncommittedAt(r + 2) :
                     author(b) < author(c) /\ is_certificate(b, Leader(r))}})

\* "all uncommitted ancestor blocks should be in DagState".
LinearizerPanics(l) == ~ (Uncommitted(l) \subseteq blocks)

=============================================================================
