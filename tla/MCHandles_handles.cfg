SPECIFICATION Spec
CONSTANTS
  t1 = t1
  t2 = t2
  ctx = ctx
  m1 = m1
  prog = prog
  k1 = k1
  None = None
  Thread = {t1, t2}
  Handle <- MCHandle
  Parent <- MCParent
  Context = ctx
  Mem = {m1}
  Program = {prog}
  Kernel = {k1}
  Device = {1, 2}
  MaxBuilds = 2
INVARIANTS
  CountsAreOwners
  PointersAreValid
  LeaksOnlyRebuilds
PROPERTIES
  ImplementsReferenceCounting
  UnownedAreDestroyed
CHECK_DEADLOCK FALSE
