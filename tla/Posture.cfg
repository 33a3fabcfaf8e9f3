SPECIFICATION Spec
CONSTANTS
  Enrolled <- SomeEnrolled
  Sigdbs <- SomeSigdbs
  SigdbSize = 65536
  MinimalDbx = 100
  MaxNames = 3
  MaxNameChars = 10
  NamesSize = 77
  TailReserve = 20
  SuffixWidth = 11
  Shown = 49
  Candidates = 2
  Domains = {d1, d2, d3}
  Bytes = {0, 1, 2, 34, 35, 42, 162, 255}
  AuthFails = {0, 1, 32, 255, 256, 1000}
INVARIANTS
  TypeOK
  SecureBootVerdictsTrue
  MokNamesHonest
  SameVariableSameVerdict
  EspRowsAgree
  EspOkWasTrue
  DmaOkMeansProtected
