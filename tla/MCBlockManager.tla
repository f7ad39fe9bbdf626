--------------------------- MODULE MCBlockManager ---------------------------
(* Instances of BlockManager. *)
EXTENDS BlockManager, TLC

\* Every block refers to all blocks of the previous round.
Full == [b \in Ref |-> {a \in Ref : round(a) = round(b) - 1}]

\* Each block of a later round leaves out the block of one author.
OneLeftOut ==
    {[b \in Ref |-> {a \in Full[b] : author(a) # (author(b) + k) % N}] : k \in 1..(N - 1)}

\* Nobody else hears of author 3.
Straggler == [b \in Ref |-> {a \in Full[b] : author(a) = 3 => author(b) = 3}]

Only(s) == [b \in s |-> Full[b] \cap s]

\* Only two authors have a block in round 2, and round 3 refers to those two: the shape
\* test_e2e_out_of_order feeds the node.
TwoParents == Only({b \in Ref : round(b) = 2 => author(b) < 2})

\* A quorum in round 1 and few blocks above it.
Thin == Only({<<1, 0>>, <<1, 1>>, <<1, 2>>, <<2, 0>>, <<2, 1>>, <<3, 0>>})

\* The author 1 misses round 2, and its round-3 block links back to its round-1 block.
WeakLink ==
    <<1, 0>> :> {} @@ <<1, 1>> :> {} @@ <<2, 0>> :> {<<1, 0>>, <<1, 1>>}
    @@ <<3, 0>> :> {<<2, 0>>, <<1, 1>>} @@ <<3, 1>> :> {<<2, 0>>, <<1, 1>>}

AnyOrder == {Thin, WeakLink}
AllDags  == {Full, Straggler, TwoParents} \cup OneLeftOut \cup AnyOrder
FullDag  == {Full}
Refetched == {<<1, 1>>, <<2, 0>>}
NoBlock == {}
=============================================================================
