\* The end of a session that sends pictures and sound, and of one that pauses.
SPECIFICATION EndsSpec
CONSTANTS
  StallTimeout = 1
  MaxInFlight = 1
  EncoderDepth = 0
  AudioWindow = 1
  ReverseAudio = TRUE
  WireCap = 2
  PhoneTypes = {"AUDIO_ENABLE"}
  MaxFrames = 1
  MaxAudio = 0
PROPERTIES
  ShutdownCompletes
