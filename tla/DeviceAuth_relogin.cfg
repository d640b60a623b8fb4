SPECIFICATION Spec
CONSTANTS
  User = {u1}
  Device = {d1, d2}
  Owner <- OneOwner
  NoDevice = none
  Request = {q1}
  MaxDevices = 2
  MaxId = 2
  MaxToken = 3
  MaxChanges = 0
INVARIANT ReloginSucceeds
CHECK_DEADLOCK FALSE
