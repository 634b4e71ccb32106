SPECIFICATION Spec
CONSTANTS
    Symbols <- AllSymbols
    Languages <- AllTables
    Programs <- AllPrograms
    MinIterations = 30
    MinDepth = 8
    MinNodes = 40
    MaxStacks = 2
    ReduceLimit = 3
INVARIANTS
    TypeOK
    StacksFollowTables
    TokensInOrder
    NodesAreBounded
    SentencesParseCleanly
    OnlySentencesParseCleanly
