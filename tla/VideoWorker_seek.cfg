SPECIFICATION Spec
CONSTANTS
  Streams = {a}
  Frames = 4
  MaxBehind = 1
  MaxStep = 3
  SeekTargets = {0, 2, 3}
INVARIANT FrontWhole
INVARIANT RightOnceSettled
PROPERTY RelaySpec
