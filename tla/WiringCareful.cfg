SPECIFICATION Spec
CONSTANTS
    T1 = T1
    T2 = T2
    A = A
    B = B
    ghost = ghost
    left = left
    right = right
    out = out
    spare = spare
    Inst = {T1, T2, A, B}
    Unknown = {ghost}
    Ident = {left, right, out, spare}
    Imports <- MixedImports
    Args <- MixedArgs
    Passes <- MixedPasses
    Supplies <- MixedSupplies
    Definitions <- MixedDefinitions
    Wirings <- MixedWirings
    MaxBindings = 2
INVARIANTS CarefulWiringsHold SuppliesKeptApart
CHECK_DEADLOCK FALSE
