\* Stalls and refreshes, with a phone that may never acknowledge.  The audio
\* thread waits: this phone does not enable it.
SPECIFICATION FairSpec
CONSTANTS
  StallTimeout = 1
  MaxInFlight = 1
  EncoderDepth = 0
  AudioWindow = 1
  ReverseAudio = TRUE
  WireCap = 2
  PhoneTypes = {"FRAME_ACK", "RESUME_VIDEO"}
  MaxFrames = 2
  MaxAudio = 0
PROPERTIES
  StallEndsSession
  RefreshServed
