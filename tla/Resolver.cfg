SPECIFICATION Spec
CONSTANTS
    NServers = 2
    Retry = 2
    IdSpace = 2
    MaxLate = 1
    Failure = {"ECONNREFUSED"}
    NDomains = 1
    Name <- MCName
    Question <- MCQuestion
    SearchOptions <- MCSearchOptions
    InitOptions <- MCInitOptions
    NULL = NULL
INVARIANTS
    AnswerIsOurs
    KeptSocket
    CircuitsBounded
    RefusalIsReal
PROPERTIES
    ImplementsService
