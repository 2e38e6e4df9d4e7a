SPECIFICATION FairSpec
CONSTANTS
  Descs = {"basic", "igpu", "gpu"}
  Topologies <- AllTopologies
  None = None
INVARIANTS
  OnlyLostOutlive
  AdaptersLeakOnce
  ModernOutputsKept
  PrimaryFirst
  AnswersComplete
PROPERTIES
  ImplementsWriteOnce
  CallReturns
