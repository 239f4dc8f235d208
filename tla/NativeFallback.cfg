SPECIFICATION NSpec
CONSTANTS
    Frame = Frame
    Leaf = Leaf
    Value = Value
    Nothing = Nothing
    X = X
    Y = Y
    Z = Z
    body = body
    key = key
    y = y
    Name = {X, Y, Z}
    Word = {body, key, y}
    Values = {key, y}
    Piece = {Frame, Leaf, Value}
    Records <- SmallRecords
    Fits <- SmallFits
    MaxOccurrences = 3
    MaxOverlays = 3
    MaxBatch = 2
SYMMETRY Symmetry
INVARIANT
    RejectsFallback
CHECK_DEADLOCK FALSE
