SPECIFICATION Spec
CONSTANTS
  NoVoice = NoVoice
  NoSource = NoSource
  Statics = {a, b}
  Streams = {}
  Voices = {v1}
  Buffers = 2
  Chunks = 3
  SeekTargets = {"past"}
  PlayMayFail = FALSE
  PlayvMayFail = FALSE
  MixerInUpdate = FALSE
  DisconnectExt = FALSE
  MayRelease = {}
PROPERTY StopMeansStopped
