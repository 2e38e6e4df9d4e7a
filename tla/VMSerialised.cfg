SPECIFICATION Spec
CONSTANTS
  Threads = {t1, t2}
  RUNS = 4
  THRESHOLD = 3
  Word <- MCWord
  Wide = 4096
  Starts <- MCStarts
  Fast <- MCFast
  Slow <- MCSlow
  MaxCycles = 4
  MaxNoise = 1
  Serialised = TRUE
  Arm64 = FALSE
  Kinds = {"bare", "hypervRoot", "hypervGuest", "announced", "nameless", "renamed", "silent", "loud", "trapping"}
  Unmeasured = Unmeasured
INVARIANTS
  SerialVerdict
PROPERTIES
  ImplementsWriteOnce
