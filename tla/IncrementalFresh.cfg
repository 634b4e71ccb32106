SPECIFICATION Spec
CONSTANTS
  Languages <- Unambiguous
  Texts <- ShortTexts
  Inserts <- ShortInserts
  MaxEdits = 2
INVARIANT ReparsesWhatChanged
CHECK_DEADLOCK FALSE
