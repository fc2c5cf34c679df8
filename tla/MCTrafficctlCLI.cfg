SPECIFICATION Spec
CONSTANTS
  Users = {u1, u2}
  Settings = {"before", "after"}
  MaxEdits = 2
  MaxFaults = 2
INVARIANTS
  TypeOK
  AgreementHolds
PROPERTIES
  EditsKept
  ImplementsSwitch
CHECK_DEADLOCK FALSE
