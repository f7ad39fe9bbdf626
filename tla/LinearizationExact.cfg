\* Every way to leave out at most one ancestor, with and without an earlier commit.
CONSTANTS
    N = 4
    MaxRound = 3
    Inputs <- SomeInputs
SPECIFICATION Spec
INVARIANT TraversalExact
INVARIANT SortedCausally
