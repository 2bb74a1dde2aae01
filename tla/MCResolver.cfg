SPECIFICATION ResolverFairSpec
CONSTANTS
    Text <- MCText
    Callers = {"stream", "resync"}
    ServerIds <- MCServerIds
    IdLike <- MCIdLike
    ThingNames = {"home", "lab", "db", "web", "box", "host"}
    Queries <- MCQueries
    Possible <- MCPossible
    Directories <- MCDirectories
    MaxChanges = 1
    MaxErrors = 1
    MaxRestarts = 1
INVARIANTS
    ResolverTypeOK
    AnswersSound
    NothingOverlooked
    RepliesAreAnswers
PROPERTIES
    ImplementsMemo
    LookupsEnd
