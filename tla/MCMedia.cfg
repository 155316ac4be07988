\* The media components, each at the bounds of its module's interesting cases.
SPECIFICATION MediaSpec
CONSTANTS
  Items = {"a", "b"}
  Junk = "junk"
  MinCap = 2
  MaxCap = 5
  MaxPts = 2
  MaxPackets = 2
  Tick = 2
  MaxItems = 4
  MaxFrames = 3
  MaxSessions = 2
  MaxPauses = 3
  Capacity = 3
  Target = 1
  MaxInitial = 1
  MaxBuffered = 2
  FrameSize = {1, 2}
  PullSize = {1, 2}
  MaxSamples = 6
  MaxV4l2Frames = 4
INVARIANTS
  RecordingFaithful
  SinksInStep
  FramesShown
  AudioHeard
PROPERTIES
  ImplementsFifo
  NeverGoesBack
  MediaProgress
\* A stream ends, a device leaves, and nothing follows.
CHECK_DEADLOCK FALSE
