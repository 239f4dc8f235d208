SPECIFICATION Spec
CONSTANTS
    Frame = Frame
    Nothing = Nothing
    X = X
    Y = Y
    body = body
    key = key
    Name = {X, Y}
    Word = {body, key}
    Piece = {Frame}
    Records <- OnePiece
    Fits <- AllFit
    MaxOccurrences = 4
    MaxOverlays = 2
INVARIANT
    BuilderFollowsScope
    BoundOnce
PROPERTY
    BuildsEnd
