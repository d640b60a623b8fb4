SPECIFICATION Spec
CONSTANTS
  User = {u1, u2}
  Device = {d1, d2, d3}
  Owner <- TwoOwners
  NoDevice = none
  Request = {q1, q2}
  MaxDevices = 1
  MaxId = 2
  MaxToken = 2
  MaxChanges = 2
SYMMETRY Symmetric
INVARIANTS
  TypeOK
  DevicesBounded
  HonestNeverAccused
  ClientAndRowAgree
  DeletedIsBlocked
  GuardFollowsBans
CHECK_DEADLOCK FALSE
