CONSTANTS
  p1 = p1
  p2 = p2
  c1 = c1
  c2 = c2
  e1 = e1
  e2 = e2
  e3 = e3
  Proc = {p1, p2}
  Cpu = {c1, c2}
  Elem = {e1, e2, e3}
  Slot <- MCSlot
  Policies <- MCPolicies
  MaxEntries = 2
  MaxClock = 5
  MaxCmds = 2
  Nil = Nil
SYMMETRY Sym
SPECIFICATION Spec
INVARIANTS
  
  MeterIsExact
  
CHECK_DEADLOCK FALSE
