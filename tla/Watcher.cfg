CONSTANTS
  t1 = t1
  t2 = t2
  t3 = t3
  p1 = p1
  p2 = p2
  Task = {t1, t2, t3}
  Addr = {a1}
  MaxCalls = 4
  Pid = {p1, p2}
  Cpu = {c1, c2}
  MaxClock = 3
  Id = {0, 1}
  MaxEnter = 1
  MaxEvents = 1
  Limit = 2
  Boot = 3
  MaxRing = 1
  MaxCount = 1
  Min = 0
  Core = {c1}
  Ptr <- MCPtr
  HASH_SIZE = 4
  MaxLocks = 2
  Vec = {v1}
  Far = {f1}
  Tool = {i1, i2}
  MaxCmds = 3
  None = None
SPECIFICATION Spec
CHECK_DEADLOCK FALSE
INVARIANTS
  TypeOK
  
  LineIsOfItsCall
  
  EventIsOfAPreemption
  
  FailsInFirstSwitchOnly
  TableIsRight
  
  CommandIsKept
  PinIsFree
PROPERTY ReceiptIsReported
SYMMETRY Sym
