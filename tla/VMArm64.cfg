SPECIFICATION Spec
CONSTANTS
  Threads = {t1, t2}
  RUNS = 4
  THRESHOLD = 3
  Word <- MCWord
  Wide = 32
  Starts <- MCStarts
  Fast <- MCFast
  Slow <- MCSlow
  MaxCycles = 4
  MaxNoise = 1
  Serialised = TRUE
  Arm64 = TRUE
  Kinds = {"bare", "announced", "nameless", "renamed", "silent", "loud", "trapping"}
  Unmeasured = Unmeasured
INVARIANTS
  SerialVerdict
