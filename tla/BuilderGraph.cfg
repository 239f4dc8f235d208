SPECIFICATION HSpec
CONSTANTS
    a = a
    b = b
    c = c
    x = x
    piece = piece
    Name = {a, b, c}
    Indexed = {c}
    StemOf <- OwnStem
    Body = {piece, plain, ambiguous}
    Ambiguous = {ambiguous}
    Hole = {hole}
    Order = {0}
    Ident = {x}
    RefPath <- Paths
    Demands <- PieceDemands
    Supplies <- PieceSupplies
    ShellsIn <- PieceShells
    HolesIn <- AllHoles
    Placed = {"root_capable"}
    NoName = NoName
    MaxEdges = 3
    MaxBindings = 2
    MaxLeaves = 2
    MaxHandled = 3
    MaxBeside = 1
INVARIANTS EdgesAcyclic OneWiringPerDemand WiringsNameSlots
 
SYMMETRY Swap
CHECK_DEADLOCK FALSE
