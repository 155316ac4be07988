\* The components of the lifecycle, each at the bounds of its module's interesting cases.
SPECIFICATION LifecycleSpec
CONSTANTS
  MaxGeneration = 4
  Ports = {1, 2}
  MaxAttempts = 2
  MaxFiles = 3
  MaxToggles = 4
  Serials = {"s1", "s2"}
  Emulators = {"emulator-5554"}
  TlsConnect = {"(2)._adb-tls-connect"}
  Addresses = {"a1", "a2"}
  MaxLines = 3
  MaxRoutes = 2
INVARIANTS
  ReleasedOnce
  ConnectsAsMeant
  ServiceOwnsSession
PROPERTIES
  EndsForItsOwnReason
  EverythingEnds
\* A session or the service ends, and nothing follows.
CHECK_DEADLOCK FALSE
