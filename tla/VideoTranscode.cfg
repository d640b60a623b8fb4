SPECIFICATION Spec
CONSTANTS
  Video = {v1, v2, v3}
  Heavy = {v1}
  Unmeasured = {v2}
INVARIANT HeavyVideoIsQueued
CHECK_DEADLOCK FALSE
