SPECIFICATION Spec
CONSTANTS
  Options <- SomeOptions
  MaxEntries = 5
  OrderRoom = 6
  MaxOrder = 7
  MediumSize = 17
  UnreadableSize = 41
  UnclassSize = 64
  DetailSize = 242
INVARIANTS
  TypeOK
  OkMeansInspected
  ListedOrMarked
  CauseNamed
  DetailFits
