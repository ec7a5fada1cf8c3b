SPECIFICATION Spec
CONSTANTS
  p1 = p1
  p2 = p2
  c1 = c1
  c2 = c2
  Nil = Nil
  Pid0 = Pid0
  Tgid <- MCTgid
  Slot <- MCSlot
  TgEntries = 2
  Proc = {p1}
  Cpu = {c1}
  Policies <- OnePolicy
  MaxEntries = 2
  MaxClock = 4
  MaxCmds = 1
INVARIANTS
  NoZeroDivisor
CHECK_DEADLOCK FALSE
