SPECIFICATION Spec
CONSTANTS
    Sources <- AllSources
    Value <- Values
    IsDomain <- HasDomain
    DomainValues <- Domain
    IsPath <- HasPaths
    PathValues <- Paths
INVARIANTS ExpansionIsMeant HolesAddressable
PROPERTY BindSettles
CHECK_DEADLOCK FALSE
