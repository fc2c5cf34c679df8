SPECIFICATION Spec
CONSTANTS
  Policies = {"p", "q"}
  Allocations <- MCAllocations
  Manifests <- MCManifests
  MaxLag = 2
  MaxShifts = 1
  MaxEdits = 2
  MaxFaults = 1
INVARIANTS
  TypeOK
  AllocationsWhole
PROPERTIES
  SeenEditsStay
  SharedRouteSettles
  WritesEnd
CHECK_DEADLOCK FALSE
