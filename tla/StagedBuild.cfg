SPECIFICATION Spec
CONSTANTS
    Catalog <- CatalogDef
    Listed <- ListedDef
    Stages <- StagesDef
    Shelves <- ShelvesDef
    Parameter <- ParameterDef
    Returning = {"leaver"}
    NoHole = ""
    Order <- Orders
    MaxInstances <- MaxInstancesDef
    MaxEdges <- MaxEdgesDef
    Avoided <- AllHabits
INVARIANTS
    AcceptedIsExpansion
    OnlyFaultsRefused
    AddressesAgree
CHECK_DEADLOCK FALSE
