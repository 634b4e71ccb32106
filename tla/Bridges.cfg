SPECIFICATION Spec
CONSTANTS
    Languages = {"json", "toml", "yaml", "c", "java", "lua", "authzed", "generic split", "generic whole", "html", "go"}
    Texts <- MCTexts
    Literals <- MCLiterals
INVARIANTS
    TypeOK
    SkippingIsReading
    PointsFollowBytes
PROPERTY TokensAdvance
CHECK_DEADLOCK FALSE
