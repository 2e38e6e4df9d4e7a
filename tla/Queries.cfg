\* Every component within one or two of its bounds; the bounds end a behaviour.
SPECIFICATION Spec
CONSTANTS
  Networks <- MCNetworks
  Registries <- MCRegistries
  MacBytes = 2
  UuidBytes = 2
  MaxChanges = 2
  Unasked = Unasked
  Layouts <- MCLayouts
  Monitors = {"display1", "display2"}
  MaxReplugs = 2
  Precision = 2048
  Zero = Zero
  Garbage = Garbage
  Junk = Junk
  MaxTurns = 5
  Procs = {"p", "q"}
  Seconds = {1, 2}
  MaxFaults = 2
INVARIANTS
  TextMatchesBytes
  LossesAccounted
  SuccessUnlessLost
PROPERTIES
  OneMoment
  WrongOnlyIfDisturbed
CHECK_DEADLOCK FALSE
