SPECIFICATION FairSpec
INVARIANTS
  TypeOK
  CleanPatternIsDrawn
  FlashIsTakenBack
PROPERTIES
  FlashDoesEnd
