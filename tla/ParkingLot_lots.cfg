SPECIFICATION FairSpec
CONSTANTS
  None = None
  Nil = Nil
  Machines = {m1, m2}
  Heaps = {h1, h2}
  Owners = {o1, o2}
  Values = {x, y}
  MaxSlot = 2
  Refusals = TRUE
  ReuseAddress = FALSE
  ForeignRelease = TRUE
  OutliveWorker = FALSE
INVARIANT TypeOK
 
 
 
INVARIANT NoDeadRead
PROPERTY PendingIsSwept
 
CHECK_DEADLOCK FALSE
