SPECIFICATION Spec
CONSTANTS
  CPUs <- MCCPUs
INVARIANTS
  TypeOK
  UniformExact
  MixedBounded
CHECK_DEADLOCK FALSE
