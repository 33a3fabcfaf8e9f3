SPECIFICATION Spec
CONSTANTS
  Texts <- SomeTexts
  Cap = 4
  MaxDepth = 2
  MaxVisits = 5
INVARIANTS
  TypeOK
  SbatVerdictRight
  SbatSpeaksOfFiles
  ScanVerdictRight
