\* Every kind of message, one finger, and a sender that may end; then two fingers and rapid
\* visibility changes.
SPECIFICATION SenderSpec
CONSTANTS
  p1 = p1
  p2 = p2
  Pointers = {p1, p2}
  Capacity = 2
  MaxPts = 1
  Switches = {"visible", "audio", "other"}
  MaxSwitches = 2
  MayEnd = TRUE
INVARIANTS
  QueueOrdered
  ComputerAgrees
PROPERTIES
  ThreadEnds
