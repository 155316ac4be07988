\* Two fingers, nothing lost and nothing failing.
SPECIFICATION TouchSpec
CONSTANTS
  p1 = p1
  p2 = p2
  p3 = p3
  NoPrimary = NoPrimary
  Pointers = {p1, p2, p3}
  MaxTouches = 2
  MaxFingers = 2
  Lossy = FALSE
  TouchFails = FALSE
  MouseFails = FALSE
  Unmapped = FALSE
SYMMETRY Symmetry
INVARIANTS
  MouseReleased
