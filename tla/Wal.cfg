CONSTANTS
  Frames <- MCFrames
  PayloadLen <- MCPayloadLen
  HeaderLen = 2
  MaxFrameLen = 2
  MaxFile = 8
SPECIFICATION Spec
INVARIANT CleanAcksReplayed
PROPERTY IsDurableLog
