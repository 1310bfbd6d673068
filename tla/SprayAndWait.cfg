SPECIFICATION SpraySpec
CONSTANTS
    Nodes = {s, d, r}
    Source = s
    Dest = d
    L = 3
    Pipelines = {f1, f2}
SYMMETRY Symmetry
INVARIANTS CopiesAreNotMadeUp BinaryKeepsOne
CHECK_DEADLOCK FALSE
CONSTRAINT FewRaces
