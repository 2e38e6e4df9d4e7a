\* Two threads, every step may fail or throw, the host may use COM itself.
SPECIFICATION Spec
CONSTANTS
  Threads = {t1, t2}
  Machines <- MCMachines
  Faults = TRUE
  MaxCalls = 2
SYMMETRY MCSymmetry
INVARIANTS
  TypeOK
  ApartmentsBalanced
  ReleasedInApartment
  LeakOneACall
  SerialCallsAgree
  AllOrNothing
CHECK_DEADLOCK FALSE
