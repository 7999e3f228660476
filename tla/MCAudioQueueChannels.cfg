SPECIFICATION Spec
CONSTANTS
  OutputRate = 48000
  Rates = {32006}
  Chunks = {533}
  DeviceFrames = 256
PROPERTIES ChannelsKept
