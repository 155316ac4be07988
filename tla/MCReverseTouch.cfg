\* Several fingers, more than the contact array holds, with a SendInput that may fail; then one
\* finger, with an InjectTouchInput that may fail.
SPECIFICATION TouchSpec
CONSTANTS
  p1 = p1
  p2 = p2
  p3 = p3
  NoPrimary = NoPrimary
  Pointers = {p1, p2, p3}
  MaxTouches = 2
  MaxFingers = 3
  Lossy = TRUE
  TouchFails = FALSE
  MouseFails = TRUE
  Unmapped = TRUE
SYMMETRY Symmetry
INVARIANTS
  ContactsConsistent
  NativeContactsMatch
  TouchReleased
  ButtonTracked
  OneFingerReleased
