SPECIFICATION Spec
CONSTANTS
  OutputRate = 480
  Rates = {480, 320, 200}
  Chunks = {3, 60}
  DeviceFrames = 25
INVARIANTS LatencyBounded RemainingIsThere
PROPERTIES ChunksJoin
