SPECIFICATION Spec
CONSTANTS
  Languages <- Unambiguous
  Texts <- ShortTexts
  Inserts <- ShortInserts
  MaxEdits = 2
INVARIANTS
  TypeOK
  CleanNodesKeepTheirText
  ReuseIsSound
CHECK_DEADLOCK FALSE
