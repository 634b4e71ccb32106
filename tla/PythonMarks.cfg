SPECIFICATION Spec
CONSTANTS
  Languages <- OnlyBlocks
  Texts <- TextsOf
  MaxCalls <- CallsIn
  MaxReuse <- ReuseIn
  ScannerState <- IsScannerState
  CreateScanner <- Created
  RunScanner <- Scanned
  ByteSize = 4
  MaxRawStringDelimiterLen = 2
  DockerfileMaxHeredocs = 2
  MaxLookaheadRune = 3
  Literals <- Values
  SpelledRunes <- Spelled
  TransitionInternLimit = 1
  BufferSize = 64
INVARIANT MarkedEndStays
