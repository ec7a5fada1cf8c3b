CONSTANTS
  Thread = {t1, t2, t3}
  NoThread = NoThread
  Image <- MCImage
SPECIFICATION Spec
INVARIANTS
  CreateFlagHasAnOwner
  JoinHasAHandle
PROPERTIES
  ImplementsPeriodicOutput
  OutputKeepsComing
  PollingGoesOn
