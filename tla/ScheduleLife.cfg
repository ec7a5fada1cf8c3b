SPECIFICATION Spec
CONSTANTS
  p1 = p1
  p2 = p2
  c1 = c1
  c2 = c2
  Nil = Nil
  Pid0 = Pid0
  Tgid <- MCTgid
  Slot <- MCSlot
  TgEntries = 2
  Proc = {p1}
  Cpu = {c1}
  Policies <- AllPolicies
  MaxEntries = 2
  MaxClock = 6
  MaxCmds = 3
INVARIANTS
  ObservedWaitIsExact
  
  PrintFailsOnlyAfterExit
CHECK_DEADLOCK FALSE
