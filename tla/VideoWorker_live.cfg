SPECIFICATION FairSpec
CONSTANTS
  Streams = {a, b}
  Frames = 2
  MaxBehind = 5
  MaxStep = 1
  SeekTargets = {0}
INVARIANT HeldIsFed
PROPERTY AbandonedIsDropped
 
PROPERTY StopEnds
