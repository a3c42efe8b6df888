CONSTANTS
    Parts = {"", "v1", "v10", "a", "b", ":x", ":lang", "*f"}
    Empty = ""
    Param = {":x", ":lang"}
    Star = {"*f"}
    NoPattern = NoPattern
    Groups <- MCGroups
    Comps <- MCComps
    Paths <- MCPaths
    Extends <- MCExtends
    MaxRoutes = 2
    MaxCalls = 2
SPECIFICATION WebSpec
INVARIANTS RouteMatches
CHECK_DEADLOCK FALSE
