SPECIFICATION RoutingSpec
CONSTANTS
    Methods <- OnlyGet
    Fragments <- PathFragments
    Patterns <- WildcardPatterns
    Paths <- RequestPaths
    Handlers = {"h1"}
    MaxRoutes = 2
INVARIANTS MatchingRouteFound
