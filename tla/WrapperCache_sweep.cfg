SPECIFICATION Spec
CONSTANTS
  None = None
  Machines = {m, n}
  Objects = {o, p}
  Addresses = {x, y}
  Wrappers = {w1, w2, w3, w4}
  MaxCarried = 1
SYMMETRY Symmetry
INVARIANT TypeOK
INVARIANT CountsOwners
INVARIANT CacheTrue
INVARIANT NeverSweptAlive
