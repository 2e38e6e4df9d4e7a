SPECIFICATION Spec
CONSTANTS
  Threads = {t1, t2, t3}
  Apps = {launcher, client}
  MaxThrows = 1
  Serialised = TRUE
  Empty = Empty
  Torn = Torn
INVARIANTS
  OneReport
PROPERTIES
  ReferenceStable
  ImplementsWriteOnce
