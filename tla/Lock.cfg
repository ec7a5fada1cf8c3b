CONSTANTS
  t1 = t1
  t2 = t2
  l1 = l1
  l2 = l2
  Thread = {t1, t2}
  Lock = {l1, l2}
  Kind <- TwoRw
  Policies <- OnAndOff
  MaxCmds = 2
  NoLock = NoLock
SPECIFICATION Spec
INVARIANTS
  EventNamesItsLock
  TakenIsHeld
  NoStaleType
SYMMETRY Sym
