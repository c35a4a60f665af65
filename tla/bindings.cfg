\* Every method with arguments and answers around the limits of integers, then
\* two callers of one machine.
SPECIFICATION MCSpec
CONSTANTS
    IntTop = 8
    Word = 64
    Exact = 32
    Quote = 20
    HashSize = 2
    None = 0
    All = 2
    Root = 3
    WasmNone = 0
    WasmRoot = 3
    MaxMcycle = 63
    AdvanceState = 0
    RootHash <- MCRootHash
    SharingModes <- MCSharingModes
    Callers = {a, b}
    MaxOutput = 2
    MaxRequests = 2
    Lengths = {0, 1, 2}
INVARIANTS CallsAgree ResultsAgree OutputIsDelivered AnswersAreOfOneRequest
