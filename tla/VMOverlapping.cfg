SPECIFICATION FairSpec
CONSTANTS
  Threads = {t1, t2}
  RUNS = 4
  THRESHOLD = 3
  Word <- MCWord
  Wide = 4096
  Starts <- MCFewStarts
  Fast <- MCFast
  Slow <- MCSlow
  MaxCycles = 4
  MaxNoise = 1
  Serialised = FALSE
  Arm64 = FALSE
  Kinds = {"hypervRoot", "trapping"}
  Unmeasured = Unmeasured
INVARIANTS
  NeverFalseAlarm
  SettledIsRight
PROPERTIES
  VerdictSettles
