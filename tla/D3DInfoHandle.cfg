SPECIFICATION Spec
CONSTANTS
  Descs = {"basic", "igpu", "gpu"}
  Topologies <- OldOnly
  None = None
INVARIANTS
  HandleDestroyed
