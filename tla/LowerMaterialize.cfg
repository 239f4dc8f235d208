SPECIFICATION Spec
CONSTANTS
    none = none
    NoHole = none
    Template <- Pieces
    Root <- Roots
    Order = {0, 1}
    MaxInsertions = 3
    Avoided = {"holes behind a block", "twin parameters", "imports in values",
               "managed names", "locals below parameters", "names in branches",
               "locals below module names", "kept by marker", "one parameter twice",
               "kept below others", "comments in pieces", "returns at module level",
               "displays as keywords", "one keyword twice"}
INVARIANTS AcceptedIsExpansion NamesKeptApart KeptNamesLiteral CompleteIsAccepted
CHECK_DEADLOCK FALSE
