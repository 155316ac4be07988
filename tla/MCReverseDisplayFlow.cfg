\* Flow control, refreshes and the video watchdog, two frames in flight.
SPECIFICATION Spec
CONSTANTS
  StallTimeout = 1
  MaxInFlight = 2
  EncoderDepth = 1
  AudioWindow = 1
  ReverseAudio = FALSE
  WireCap = 2
  PhoneTypes = {"FRAME_ACK", "PAUSE_VIDEO", "RESUME_VIDEO"}
  MaxFrames = 3
  MaxAudio = 0
INVARIANTS
  WatchdogsArmed
  FlowControlled
  RefreshNotLost
