SPECIFICATION Spec
CONSTANTS
  Languages <- AllLanguages
  Texts <- TextsOf
  MaxCalls <- CallsIn
  MaxReuse <- ReuseIn
  ScannerState <- IsScannerState
  CreateScanner <- Created
  RunScanner <- Scanned
  ByteSize = 4
  MaxRawStringDelimiterLen = 2
  DockerfileMaxHeredocs = 2
  MaxLookaheadRune = 3
  Literals <- Values
  SpelledRunes <- Spelled
  TransitionInternLimit = 1
  BufferSize = 64
INVARIANTS
  TypeOK
  TokensAreLongest
  TokensFollowTheirSource
  PositionsAgree
  TokensGoOn
  ExternalsAreExpected
  BracketsAreRead
  BlocksNest
  StringsEndAsTheyBegin
PROPERTY RestoresUndo
