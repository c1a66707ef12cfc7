CONSTANTS
  MaxCode <- MCMaxCode
  BufSize <- MCBufSize
  MinFrame <- MCMinFrame
  NoiseSize <- MCNoiseSize
  StaleBuffers <- MCStaleBuffers
SPECIFICATION Spec
INVARIANTS
  TypeOK
  RoundTrip
  DelimitedOnce
  InPlace
  OnlyFullBufferRefused
PROPERTIES
  Arrives
