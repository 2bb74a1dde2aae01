SPECIFICATION ResolverSpec
CONSTANTS
    Text <- MCText
    Callers = {"resync"}
    ServerIds <- MCServerIds
    IdLike <- MCIdLike
    ThingNames = {"home", "lab", "db", "web", "box", "host"}
    Queries <- StaticQueries
    Possible <- MCPossible
    Directories <- StaticDirectories
    MaxChanges = 0
    MaxErrors = 0
    MaxRestarts = 0
INVARIANT AmbiguityIsAnError
