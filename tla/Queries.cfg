SPECIFICATION MCSpec
CONSTANTS
    Named <- NamedKinds
    HasProperty <- IsProperty
    Cases <- AllCases
    Candidates <- MCCandidates
    Matches <- MCMatches
    MaxRanges = 5
INVARIANTS
    TypeOK
    MatchesAreMeant
    NothingIsMissed
    MatchesComeInOrder
    CapturesComeInOrder
    InnermostIsShown
