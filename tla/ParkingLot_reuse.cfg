SPECIFICATION Spec
CONSTANTS
  None = None
  Nil = Nil
  Machines = {m1, m2}
  Heaps = {h1, h2, h3}
  Owners = {o1, o2}
  Values = {x, y}
  MaxSlot = 2
  Refusals = FALSE
  ReuseAddress = TRUE
  ForeignRelease = FALSE
  OutliveWorker = FALSE
INVARIANT LotIsOwn
