SPECIFICATION Spec
CONSTANTS
  p1 = p1
  p2 = p2
  c1 = c1
  c2 = c2
  Nil = Nil
  Pid0 = Pid0
  Tgid <- MCTgid
  Slot <- MCSlot
  TgEntries = 2
  Proc = {p1, p2}
  Cpu = {c1, c2}
  Policies <- OnePolicy
  MaxEntries = 2
  MaxClock = 5
  MaxCmds = 1
INVARIANTS
  DelayNeverWraps
  CountIsExact
  TotalsNeverOverstate
  DivisorSafeAfterFirstCharge
CHECK_DEADLOCK FALSE
