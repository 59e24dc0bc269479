SPECIFICATION Spec
CONSTANTS
  Units = {u1, u2, u3}
  Elsewhere = ux
  NoUnit = none
  Requests = {r1}
INVARIANTS
  AccessExact
  LookupAgrees
PROPERTIES
  EveryWalkEnds
  ImplementsService
CHECK_DEADLOCK FALSE
