CONSTANTS
    Parts = {"", "v1", "v10", "a", "b", ":x", ":lang", "*f"}
    Empty = ""
    Param = {":x", ":lang"}
    Star = {"*f"}
    NoPattern = NoPattern
    Groups <- MCGroups
    Comps <- MCComps
    Paths <- MCPaths
    Extends <- MCExtends
    MaxRoutes = 3
    MaxCalls = 2
SPECIFICATION WebSpec
INVARIANTS WebTypeOK RouteFound GroupMiddlewareRuns
PROPERTIES HandlersInOrder
CHECK_DEADLOCK FALSE
