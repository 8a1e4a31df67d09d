SPECIFICATION Spec
CONSTANTS
  NoVoice = NoVoice
  NoSource = NoSource
  Statics = {a, b}
  Streams = {}
  Voices = {v1, v2}
  Buffers = 2
  Chunks = 2
  SeekTargets = {"inside", "past"}
  PlayMayFail = TRUE
  PlayvMayFail = TRUE
  MixerInUpdate = FALSE
  DisconnectExt = TRUE
  MayRelease = {a}
 
INVARIANT OnlyForgottenDangle
 
