SPECIFICATION FairSpec
CONSTANTS
  Threads = {t1, t2}
  Apps = {launcher}
  MaxThrows = 1
  Serialised = FALSE
  Empty = Empty
  Torn = Torn
INVARIANTS
  HoldersNeverRegather
PROPERTIES
  SettledIsFinal
  RaceWindowCloses
