--------------------------- MODULE MCLinearization ---------------------------
(* Inputs of Linearization: three rounds of four authors, the leader <<3, 3>>. *)
EXTENDS Linearization

Previous(b) == {a \in Ref : round(a) = round(b) - 1}

\* A block refers to its author's previous block and leaves out at most one other.
Links(b) ==
    {Previous(b)} \cup {Previous(b) \ {a} : a \in {x \in Previous(b) : author(x) # author(b)}}

Dag(c, l) == [b \in Ref |-> IF round(b) = 2 THEN c[author(b)]
                            ELSE IF b = <<3, 3>> THEN l ELSE Previous(b)]

SomeDags ==
    {Dag((0 :> c0) @@ (1 :> c1) @@ (2 :> c2) @@ (3 :> c3), l) :
        c0 \in Links(<<2, 0>>), c1 \in Links(<<2, 1>>), c2 \in Links(<<2, 2>>),
        c3 \in Links(<<2, 3>>), l \in Links(<<3, 3>>)}

\* Nothing committed before, or the history of the block <<2, 0>>.
SomeInputs ==
    {[ancestors |-> d, committed |-> c, leader |-> <<3, 3>>] :
        d \in SomeDags, c \in {{}}}
    \cup {[ancestors |-> d, committed |-> d[<<2, 0>>] \cup {<<2, 0>>}, leader |-> <<3, 3>>] :
        d \in SomeDags}
=============================================================================
