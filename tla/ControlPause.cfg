CONSTANTS
  Monitor = {m1}
  Ctl = {c1}
  RunOpts <- AllOrSyscall
  Asks <- MCAsks
  None = None
SPECIFICATION Spec
CHECK_DEADLOCK FALSE
PROPERTY TimeLimitEnds
