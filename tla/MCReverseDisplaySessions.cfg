\* Video and audio share the socket; then the commands of the phone in a video session.
SPECIFICATION SessionsSpec
CONSTANTS
  StallTimeout = 1
  MaxInFlight = 1
  EncoderDepth = 0
  AudioWindow = 1
  ReverseAudio = TRUE
  WireCap = 2
  PhoneTypes = {"AUDIO_ACK", "AUDIO_ENABLE"}
  MaxFrames = 1
  MaxAudio = 1
INVARIANTS
  WellFramed
  ContactsReleased
  WatchdogsFollow
PROPERTIES
  PhoneStopIsNormalEnd
