CONSTANTS
  Pid = {root, a, b}
  Root = root
  Policies <- OffAndOn
  MaxEntries = 2
  MaxMade = 2
  Nil = Nil
  Failed = Failed
SPECIFICATION Spec
SYMMETRY PidSymmetry
INVARIANTS
  ExitNamesMaker
  ReportedTaskIsForgotten
