SPECIFICATION MergeSpec
CONSTANTS
    Name = {a, b, c}
    Indexed = {}
    StemOf <- OwnStem
    Body = {piece}
    Ambiguous = {}
    Hole = {hole, slot}
    Order <- Orders
    Ident = {x}
    RefPath = {root}
    MaxEdges = 3
    MaxBindings = 0
    MaxLeaves = 0
INVARIANTS RootsFullyExpanded NeverStuck ContributionOrder
PROPERTIES BuildTerminates
CHECK_DEADLOCK FALSE
