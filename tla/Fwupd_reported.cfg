SPECIFICATION Spec
CONSTANTS
  QuietSize = 5
  LoadSize = 3
  NotFound = 2
  Statuses = {0, 1, 3}
  Universal <- SomeUniversal
  AmdOnly <- SomeAmd
  IntelOnly <- SomeIntel
  GuardEnabled = "en"
  GuardVerified = "ver"
  Reports <- SomeReports
  NamedMax = 2
  ReportedMax = 48
  NamesRoom = 2
INVARIANTS
  ReportedAbove
