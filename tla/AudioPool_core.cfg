SPECIFICATION FairSpec
CONSTANTS
  NoVoice = NoVoice
  NoSource = NoSource
  Statics = {a}
  Streams = {m}
  Voices = {v1, v2}
  Buffers = 2
  Chunks = 3
  SeekTargets = {"inside"}
  PlayMayFail = TRUE
  PlayvMayFail = FALSE
  MixerInUpdate = FALSE
  DisconnectExt = TRUE
  MayRelease = {m}
INVARIANT TypeOK
INVARIANT OwnVoice
INVARIANT NoStaleHandle
INVARIANT BuffersConserved
INVARIANT FreeVoicesSilent
INVARIANT RefsBalanced
PROPERTY FinishedIsReaped
PROPERTY ShutdownEnds
 
