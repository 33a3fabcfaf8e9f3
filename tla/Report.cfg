SPECIFICATION Spec
CONSTANTS
  Cap = 2
  Checks <- TwoGroups
  MaxGroups = 2
  States = {"OK", "WARN", "FAIL", "SKIP"}
  MaxEmits = 4
INVARIANTS
  NoOverrun
  KeptAreFirst
  TruncationFlagged
  ExitStatusSound
