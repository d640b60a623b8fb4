SPECIFICATION Spec
CONSTANTS
  Worker = {w1, w2}
  Upload = {u1, u2, u3}
  MaxFaults = 2
INVARIANTS TypeOK ManualCoverKept ManualSizesAgree
CHECK_DEADLOCK FALSE
