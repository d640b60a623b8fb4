SPECIFICATION Spec
CONSTANT LastSeg = 9
INVARIANTS
  TypeOK
  Canonical
  CoversAdded
  ContainsIsExact
  GapEndsAtNextAvailable
