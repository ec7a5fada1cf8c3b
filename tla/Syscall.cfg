CONSTANTS
  t1 = t1
  t2 = t2
  Nil = Nil
  Task = {t1, t2}
  Tgid <- MCTgid
  Ids = {1, 2}
  Delays = {1, 3}
  Policies <- MCPolicies
  MAX_SYSCALL_COUNT = 2
  MaxEntries = 2
  RingSize = 1
  MaxCalls = 5
  MaxCmds = 2
SPECIFICATION Spec
CHECK_DEADLOCK FALSE
INVARIANTS
  RecordIsTheSequence
  
  QuotientIsWritten
