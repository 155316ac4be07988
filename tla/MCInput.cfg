\* The input components, each at the bounds of its module's interesting cases.
SPECIFICATION InputSpec
CONSTANTS
  FrameSizes <- MCFrameSizes
  Limit = 1
  Spare = 1
  Slots = {3}
  Gamepads = {"g1", "g2"}
  PadButtons = {"south", "up"}
  AxisValues = {1}
  Sizes = {1, 2}
  MaxMsgs = 4
  UhidKeys = {"a", "b"}
  Modifiers = {"shift"}
  MaxKeys = 1
  MaxKeyEvents = 5
  Unit = 2
  Scrolls = {1, 3, 5}
  MaxReport = 2
  MouseButtons = {"left"}
  MaxMouseEvents = 4
  HidLimit = 2
  Required = {1}
  Optional = {3}
  MaxHidEvents = 3
  MaxPastes = 2
  Kinds = {"clipboard", "ack", "uhid_output", "unknown"}
  SizeOf <- MCSizeOf
  BufferSize = 4
  MaxDeviceMsgs = 3
  Modes <- MCModes
  Buttons = {"left", "right"}
  Pri <- MCPri
  Sec <- MCSec
  Width = 2
  Height = 3
  Points <- MCPoints
  Keys = {"v", "up"}
  MaxInputs = 5
  Classes = {"special", "keypad", "letter", "punct"}
  KeyMods = {"num", "mod"}
  MaxPresses = 2
INVARIANTS
  ClickLandsOnPixel
  DevicesInSync
  InputKept
  PasteIsCurrent
  HeldTogether
  StreamReassembled
PROPERTIES
  InputProgress
\* A user stops, a device leaves, and nothing follows.
CHECK_DEADLOCK FALSE
