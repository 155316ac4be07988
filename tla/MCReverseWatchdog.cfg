SPECIFICATION Spec
CONSTANTS
  StallTimeout = 3
  MaxPts = 2
  MaxTime = 9
INVARIANTS
  ExpiredIffStalled
PROPERTIES
  OnlyProgressExtends
  ImplementsDetector
