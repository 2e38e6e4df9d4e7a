SPECIFICATION FairSpec
CONSTANTS
  Threads = {t1, t2}
  Caches = {"IsWine", "GetWineHostOs"}
  MaxMisses = 1
PROPERTIES
  NeverTakenBack
  WrongOnlyInWindow
  SettlesOnTruth
