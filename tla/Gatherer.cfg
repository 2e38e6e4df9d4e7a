SPECIFICATION Spec
CONSTANTS
  Machines <- MCMachines
  NoReport = NoReport
INVARIANTS
  TypeOK
  SameEnumeration
  SectionsAgree
  WholeReport
