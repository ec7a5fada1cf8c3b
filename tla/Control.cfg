CONSTANTS
  Monitor = {m1, m2}
  Ctl = {c1}
  RunOpts <- TwoRunOpts
  Asks <- MCAsks
  None = None
SPECIFICATION Spec
CHECK_DEADLOCK FALSE
INVARIANTS
  RestartIsNotBlocked
  LoopIsReachable
  
  PartialCommandIsUndone
